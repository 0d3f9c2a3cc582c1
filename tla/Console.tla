-------------------------------- MODULE Console --------------------------------
(***************************************************************************)
(* NP_HW3/console.cpp, NP_HW4/console.cpp and the console in               *)
(* NP_HW3/main.cpp (cgi_server): a Shell_session plays a file of commands  *)
(* to a remote shell. It reads what the shell writes, puts it on the page, *)
(* and when it finds the prompt in it sends the next line of the file.     *)
(*                                                                         *)
(* The three programs differ in what do_read makes of the bytes that came, *)
(* and the one of NP_HW4 connects through a SOCKS4 server. "console" fills *)
(* _data with zeros before each read and takes the string up to the first  *)
(* zero; "socks" takes the string up to the first zero and fills nothing;  *)
(* "cgi" takes as many bytes as came.                                      *)
(*                                                                         *)
(* Bytes are cells: a zero, a text, and the two of the prompt. A read takes*)
(* any number of the cells there are. The sessions of a page share nothing *)
(* but the output, so there is one. The remote shell and the SOCKS server  *)
(* are the outside, as the session sees them.                              *)
(*                                                                         *)
(* async_send is given a string local to the function that starts it; the  *)
(* reactor writes at once, in the call, what fits in the socket, and a line*)
(* does: it is sent when do_send_cmd runs, and the handler comes later.    *)
(***************************************************************************)
EXTENDS Naturals, Sequences, FiniteSets

CONSTANTS
    Versions, \* the programs to look at
    Files,    \* test files: sequences of "cmd" and "exit"
    Size,     \* max_length, in cells
    MaxText   \* bound on the texts that the shell writes

Version == {"console", "socks", "cgi"}
Zero == "0"
Text == "x"
Prompt == <<"%", " ">>
Cell == {Zero, Text, "%", " "}
Sendable == {"cmd", "exit", "empty"}

ASSUME ConsoleAssumption ==
    /\ Versions \subseteq Version
    /\ Files \subseteq Seq({"cmd", "exit"})
    /\ Size \in Nat \ {0, 1} /\ MaxText \in Nat

VARIABLES
    version,
    test_file, \* the lines that getline has yet to return
    data,      \* _data
    pending,   \* the operation whose handler comes next; "none" when the socket
               \* is closed
    shell,     \* the remote: "away", "busy" with a command, "asks" for one, "gone"
    down,      \* cells on their way from the remote
    up,        \* lines on their way to it
    texts,     \* texts that the shell has written
    \* History:
    screen,    \* cells put on the page, and "cmd" for each line shown
    recv,      \* cells read from the socket
    lines_sent,
    missed,    \* a prompt came and no line was sent for it
    longest,   \* cells of the longest read
    shrunk     \* a read was shorter than an earlier one

console_vars == <<version, test_file, data, pending, shell, down, up, texts, screen,
                  recv, lines_sent, missed, longest, shrunk>>
remote == <<shell, up, texts>>
past == <<screen, recv, lines_sent, missed, longest, shrunk>>

Zeros == [i \in 1 .. Size |-> Zero]
Unwritten == {[i \in 1 .. Size |-> c] : c \in {Zero, Text}}

\* main and start: the session has its file and begins to resolve.  Only the
\* first version gives _data a value.
StartConsole == version = "console" /\ data = Zeros /\ pending = "resolve"
StartSocks == version = "socks" /\ data \in Unwritten /\ pending = "resolve_dest"
StartCgi == version = "cgi" /\ data \in Unwritten /\ pending = "resolve"

ConsoleInit ==
    /\ version \in Versions
    /\ StartConsole \/ StartSocks \/ StartCgi
    /\ test_file \in Files
    /\ shell = "away" /\ down = <<>> /\ up = <<>> /\ texts = 0
    /\ screen = <<>> /\ recv = <<>> /\ lines_sent = 0 /\ missed = FALSE
    /\ longest = 0 /\ shrunk = FALSE

-----------------------------------------------------------------------------
(* The connection.                                                         *)

close == pending' = "none"

\* A handler that starts the next operation or, on an error, closes.
Then(op, next) ==
    /\ pending = op
    /\ pending' = next \/ close
    /\ UNCHANGED <<version, test_file, data, down, remote, past>>

\* NP_HW4 looks up the shell's host, for its address, and then the SOCKS server.
ResolveDest == Then("resolve_dest", "resolve")
Resolve == Then("resolve", "connect")

\* async_connect to the shell: it is there and begins to write.
ConnectShell ==
    /\ pending = "connect" /\ version # "socks"
    /\ \/ pending' = "read" /\ shell' = "busy"
       \/ close /\ UNCHANGED shell
    /\ UNCHANGED <<version, test_file, data, down, up, texts, past>>

ConnectSocks == version = "socks" /\ Then("connect", "request")

\* do_send_request, and its handler, which reads without do_read_response: what
\* the SOCKS server answers is read as if the shell had written it.
SendRequest == Then("request", "read")

-----------------------------------------------------------------------------
(* The session.                                                            *)

\* Up to the first zero; when there is none the string goes on after the array.
Beyond == "junk"
CString(d) ==
    IF \A i \in DOMAIN d : d[i] # Zero THEN Append(d, Beyond)
    ELSE SubSeq(d, 1, (CHOOSE i \in DOMAIN d : d[i] = Zero /\
                           \A j \in 1 .. i - 1 : d[j] # Zero) - 1)
Over(d, came) == came \o SubSeq(d, Len(came) + 1, Size)

\* Variants: nothing is filled; the whole array is taken.
ReadUncleared(came) == [data |-> Over(data, came), buf |-> CString(Over(data, came))]
ReadAll(came) == [data |-> Over(data, came), buf |-> Over(data, came)]

\* do_read in the three programs: what _data holds after the read, and buf.
ReadCleared(came) == [data |-> Over(Zeros, came), buf |-> CString(Over(Zeros, came))]
ReadKept(came) == [data |-> Over(data, came), buf |-> CString(Over(data, came))]
ReadByLength(came) == [data |-> Over(data, came), buf |-> came]

Read(came) ==
    CASE version = "console" -> ReadCleared(came)
      [] version = "socks" -> ReadKept(came)
      [] version = "cgi" -> ReadByLength(came)

PromptAt(s, i) == i + 1 \in DOMAIN s /\ <<s[i], s[i + 1]>> = Prompt
\* Variant: the first byte of the prompt is looked for.
HasPercent(s) == \E i \in DOMAIN s : s[i] = "%"
HasPrompt(s) == \E i \in DOMAIN s : PromptAt(s, i)

\* getline at the end of the file leaves the line empty.
NextLine == IF test_file = <<>> THEN "empty" ELSE Head(test_file)
RestOf(file) == IF file = <<>> THEN <<>> ELSE Tail(file)

output_to_shell(cells) == screen' = screen \o cells

\* do_send_cmd, called by the handler of the read that found the prompt.
do_send_cmd(buf) ==
    /\ test_file' = RestOf(test_file)
    /\ output_to_shell(Append(buf, "cmd"))
    /\ up' = IF shell = "gone" THEN up ELSE Append(up, NextLine)
    /\ lines_sent' = lines_sent + 1
    /\ pending' = "send"

NumPrompts(s) == Cardinality({i \in DOMAIN s : PromptAt(s, i)})

Receive(n) ==
    /\ pending = "read" /\ n \in 1 .. Len(down) /\ n <= Size
    /\ LET came == SubSeq(down, 1, n)
           r == Read(came)
       IN  /\ data' = r.data
           /\ down' = SubSeq(down, n + 1, Len(down))
           /\ recv' = recv \o came
           /\ IF HasPrompt(r.buf) THEN do_send_cmd(r.buf)
              ELSE /\ output_to_shell(r.buf)
                   /\ UNCHANGED <<pending, test_file, up, lines_sent>>
           /\ missed' = (missed \/ (NumPrompts(recv \o came) > NumPrompts(recv)
                                    /\ ~HasPrompt(r.buf)))
           /\ longest' = IF n > longest THEN n ELSE longest
           /\ shrunk' = (shrunk \/ n < longest)
    /\ UNCHANGED <<version, shell, texts>>

\* Variant: an error of a read is passed over.
ReadFailsUnseen == pending = "read" /\ shell = "gone" /\ down = <<>> /\ UNCHANGED console_vars

\* The end of the connection, or its reset.
ReadFails ==
    /\ pending = "read" /\ shell = "gone" /\ down = <<>>
    /\ close
    /\ UNCHANGED <<version, test_file, data, down, remote, past>>

SendDone ==
    /\ pending = "send"
    /\ pending' = "read" \/ (shell = "gone" /\ close)
    /\ UNCHANGED <<version, test_file, data, down, remote, past>>

-----------------------------------------------------------------------------
(* The outside.                                                            *)

\* The SOCKS server's reply begins with a zero byte.  Then the shell is there,
\* or, refused or not reached, the connection ends.
ProxyReplies ==
    /\ version = "socks" /\ pending = "read" /\ shell = "away"
    /\ down' = <<Zero, Text>>
    /\ shell' \in {"busy", "gone"}
    /\ UNCHANGED <<version, test_file, data, pending, up, texts, past>>

\* What a command prints, the welcome, and, at any time, what other users say.
ShellWrites ==
    /\ shell \in {"busy", "asks"} /\ texts < MaxText
    /\ down' = Append(down, Text)
    /\ texts' = texts + 1
    /\ UNCHANGED <<version, test_file, data, pending, shell, up, past>>

ShellAsks ==
    /\ shell = "busy"
    /\ down' = down \o Prompt
    /\ shell' = "asks"
    /\ UNCHANGED <<version, test_file, data, pending, up, texts, past>>

ShellRuns ==
    /\ shell = "asks" /\ up # <<>> /\ Head(up) # "exit"
    /\ up' = Tail(up) /\ shell' = "busy"
    /\ UNCHANGED <<version, test_file, data, pending, down, texts, past>>

\* exit closes the connection; with lines unread it is reset, and what was on its
\* way to the console may be lost.
ShellExits ==
    /\ shell = "asks" /\ up # <<>> /\ Head(up) = "exit"
    /\ up' = <<>> /\ shell' = "gone"
    /\ down' \in IF Tail(up) = <<>> THEN {down} ELSE {down, <<>>}
    /\ UNCHANGED <<version, test_file, data, pending, texts, past>>

-----------------------------------------------------------------------------
Handler ==
    \/ ResolveDest \/ Resolve \/ ConnectShell \/ ConnectSocks \/ SendRequest
    \/ (\E n \in 1 .. Size : Receive(n)) \/ ReadFails \/ SendDone
Remote == ProxyReplies \/ ShellAsks \/ ShellRuns \/ ShellExits

ConsoleNext == Handler \/ Remote \/ ShellWrites

\* The program runs its handlers as operations complete, and the shell answers.
ConsoleSpec ==
    /\ ConsoleInit /\ [][ConsoleNext]_console_vars
    /\ WF_console_vars(Handler) /\ WF_console_vars(Remote)

-----------------------------------------------------------------------------
(* Properties.                                                             *)

\* One handler at most is due, and _data keeps its length.
ConsoleTypeOK ==
    /\ version \in Versions
    /\ test_file \in Seq({"cmd", "exit"})
    /\ data \in [1 .. Size -> Cell]
    /\ pending \in {"resolve_dest", "resolve", "connect", "request", "read", "send", "none"}
    /\ shell \in {"away", "busy", "asks", "gone"}
    /\ down \in Seq(Cell) /\ recv \in Seq(Cell)
    /\ screen \in Seq(Cell \cup {"cmd", Beyond})
    /\ up \in Seq(Sendable)
    /\ texts \in 0 .. MaxText /\ lines_sent \in Nat /\ missed \in BOOLEAN
    /\ longest \in 0 .. Size /\ shrunk \in BOOLEAN

\* A line is sent only when a prompt has come for it (HW3 spec, part 1, 2.1, 4:
\* "send them line-by-line whenever you receive a shell prompt").  The console of
\* NP_HW4, which finds again what an earlier read left in _data, keeps to it as
\* long as no read is shorter than one before.
PacedByPrompts == version # "socks" \/ ~shrunk => lines_sent <= NumPrompts(recv)

\* The page shows what came, all of it and once, in its order, lines and what lies
\* behind a full _data aside: the k-th cell shown is the k-th received.
OnPage == {i \in DOMAIN screen : screen[i] \notin {"cmd", Beyond}}
ShownAsReceived ==
    version # "socks" =>
        /\ Cardinality(OnPage) = Len(recv)
        /\ \A i \in OnPage : screen[i] = recv[Cardinality(OnPage \cap 1 .. i)]

\* A session whose file ends with exit comes to its end, unless a prompt came cut
\* in two reads, or behind the zeros of a SOCKS reply, and was not found.
SessionEnds == <>(pending = "none" \/ missed)
=============================================================================
