------------------------------- MODULE NpSimple -------------------------------
(***************************************************************************)
(* NP_HW2/np_simple.cpp: a shell behind a port, one client at a time. The  *)
(* shell itself is that of NpShell; here is what its sessions share: one   *)
(* process with its environment, its stdin and stdout, which dup2 turns to *)
(* the client's socket and back, and the children of earlier sessions.     *)
(*                                                                         *)
(* stdin has a buffer, which a read fills with all that has come, and cin  *)
(* has its state; both outlive the session. So does the buffer of stdout:  *)
(* on a terminal it is empty after each line; elsewhere it waits for the   *)
(* next flush, which getline does while cin is good, parse_line for each   *)
(* character, and exit in a child whose exec failed, for its copy.         *)
(* Prompts are not recorded.                                               *)
(*                                                                         *)
(* A command that is given no pipe has the socket as its stdin, and one    *)
(* that reads it takes lines from the shell that reads it too.             *)
(*                                                                         *)
(* What a client sends comes in pieces, and a read may end behind any of   *)
(* them: a line is as many pieces as TCP makes of it, and the last may have*)
(* no end.  getline puts together what it reads up to the next end, be it  *)
(* of two clients, or what a child has left; what such a line says is open.*)
(* Left out: what commands write, pipes that fill, and the descriptors that*)
(* exit leaves open (three copies, and both ends of a pipe not read).      *)
(***************************************************************************)
EXTENDS Naturals, Sequences, FiniteSets

CONSTANTS
    Clients,  \* 1 .. n, in the order in which they connect
    Scripts,  \* what each may send: a set of sequences of pieces, for each
    Broken,   \* what a line may say that is put together of pieces of several
    MaxRan    \* bound on the lines run

\* Commands: an ordinary one, one that reads its stdin, one that is not found,
\* the built-ins, and a line with no word, of which args[0] is read.  "num" is |2.
Name == {"ls", "cat", "bad", "setenv", "printenv", "exit", "none"}
Type == {"", "pipe", "num"}
ShellCommand == [name : Name, type : Type]
Has(cmds, name) == \E i \in DOMAIN cmds : cmds[i].name = name

\* A piece ends its line or not; "cmds" is what the line says up to and with it,
\* nothing only when the line is empty.
ScriptPiece == [cmds : Seq(ShellCommand), ended : BOOLEAN]

ASSUME SimpleAssumption ==
    /\ IsFiniteSet(Clients) /\ Clients = 1 .. Cardinality(Clients)
    /\ \A s \in Scripts : s \in Seq(ScriptPiece) /\ \A i \in DOMAIN s :
           s[i].cmds = <<>> => s[i].ended /\ (i = 1 \/ s[i - 1].ended)
    /\ Broken \subseteq Seq(ShellCommand) \ {<<>>} /\ Broken # {}
    /\ MaxRan \in Nat

VARIABLES
    script, \* what each client sends
    client, \* "away", "open", "shut" (sends no more), "left"
    sent,   \* number of pieces sent
    chan,   \* pieces sent that nobody has read
    tty,    \* stdout is a terminal when the server starts
    \* The server process:
    at,     \* "accept", "prompt", "getline", "parse", "run", "wait", "dead"
    cur,    \* the client whose socket is new_socket, at first 0
    inbuf,  \* the buffer of stdin
    bad,    \* cin is no longer good
    line,   \* the string given to getline: the pieces it is put together of
    text,   \* what it says, <<>> when it is empty
    pack,   \* cmd_pack from i on
    exit_flag,
    environ, \* the session whose setenv is in force, or 0
    outbuf,  \* the buffer of stdout
    cmd_no,
    table,   \* the targets in numpipe_table
    readers, \* children that read a socket: <<client, the shell waits for it>>
    \* History:
    seen,   \* what each client was written by the server
    ran,    \* the lines run, each with what it said and its session
    eaten   \* pieces that children have read

shell == <<line, text, pack, exit_flag, environ, cmd_no, table>>
server == <<at, cur, inbuf, bad, shell, outbuf>>
outside == <<script, client, sent, tty>>
vars == <<outside, chan, server, readers, seen, ran, eaten>>

\* A piece is a client and a place in its script.
PieceOf(c, n) == [by |-> c, n |-> n]
Ended(p) == script[p.by][p.n].ended
Starts(p) == p.n = 1 \/ Ended(PieceOf(p.by, p.n - 1))

\* One line of one client, from its start.
Whole(l) == /\ l # <<>> /\ Starts(l[1])
            /\ \A a \in DOMAIN l : l[a] = PieceOf(l[1].by, l[1].n + a - 1)

\* What a line says.  When its start is missing it may be empty.
Says(l) ==
    IF l = <<>> THEN {<<>>}
    ELSE IF Whole(l) THEN {script[l[1].by][l[Len(l)].n].cmds}
    ELSE IF Len(l) = 1 /\ Ended(l[1]) THEN Broken \cup {<<>>}
    ELSE Broken

\* What printf puts in the buffer: what a printenv prints, or "Waiting for connection."
Value == [what |-> "value", session |-> cur, text |-> text, no |-> cmd_no]
Banner(s) == [what |-> "banner", session |-> s, text |-> <<>>, no |-> 0]

\* main up to accept.
Init ==
    /\ script \in [Clients -> Scripts]
    /\ tty \in BOOLEAN
    /\ client = [c \in Clients |-> "away"] /\ sent = [c \in Clients |-> 0]
    /\ chan = [c \in Clients |-> <<>>]
    /\ at = "accept" /\ cur = 0 /\ inbuf = <<>> /\ bad = FALSE
    /\ line = <<>> /\ text = <<>> /\ pack = <<>> /\ exit_flag = FALSE /\ environ = 0
    /\ outbuf = IF tty THEN <<>> ELSE <<Banner(0)>>
    /\ cmd_no = 1 /\ table = {} /\ readers = {}
    /\ seen = [c \in Clients |-> <<>>] /\ ran = <<>> /\ eaten = {}

-----------------------------------------------------------------------------
(* The clients, and the children that read from them.                      *)

Connect(c) ==
    /\ client[c] = "away" /\ \A d \in 1 .. c - 1 : client[d] # "away"
    /\ client' = [client EXCEPT ![c] = "open"]
    /\ UNCHANGED <<script, sent, tty, chan, server, readers, seen, ran, eaten>>

SendPiece(c) ==
    /\ client[c] = "open" /\ sent[c] < Len(script[c])
    /\ sent' = [sent EXCEPT ![c] = @ + 1]
    /\ chan' = [chan EXCEPT ![c] = Append(@, PieceOf(c, sent'[c]))]
    /\ UNCHANGED <<script, client, tty, server, readers, seen, ran, eaten>>

\* shutdown of its side, or close.
HangUp(c) ==
    /\ \E to \in {"shut", "left"} :
           /\ client[c] \in {"open", "shut"} \ {to}
           /\ client' = [client EXCEPT ![c] = to]
    /\ UNCHANGED <<script, sent, tty, chan, server, readers, seen, ran, eaten>>

AtEof(c) == chan[c] = <<>> /\ client[c] \in {"shut", "left"}

ReaderReads(c) ==
    /\ \E r \in readers : r[1] = c
    /\ \E n \in 1 .. Len(chan[c]) :
           /\ eaten' = eaten \cup {chan[c][i] : i \in 1 .. n}
           /\ chan' = [chan EXCEPT ![c] = SubSeq(@, n + 1, Len(@))]
    /\ UNCHANGED <<outside, server, readers, seen, ran>>

ReaderEnds(c) ==
    /\ AtEof(c) /\ \E r \in readers : r[1] = c
    /\ readers' = {r \in readers : r[1] # c}
    /\ UNCHANGED <<outside, chan, server, seen, ran, eaten>>

-----------------------------------------------------------------------------
(* stdin and stdout.                                                       *)

\* Writing to a client that has closed may end the server: SIGPIPE.
Flush(items) ==
    /\ seen' = IF client[cur] = "left" THEN seen ELSE [seen EXCEPT ![cur] = @ \o items]
    /\ outbuf' = <<>>
Killed ==
    /\ client[cur] = "left" /\ at' = "dead"
    /\ UNCHANGED <<outside, chan, cur, inbuf, bad, shell, outbuf, readers, seen, ran, eaten>>

\* The prompt, and getline while cin is good: it flushes stdout and clears the line.
Prompt ==
    /\ at = "prompt" /\ ~bad
    /\ \/ Killed
       \/ /\ Flush(outbuf) /\ at' = "getline"
          /\ line' = <<>> /\ text' = <<>>
          /\ UNCHANGED <<outside, chan, cur, inbuf, bad, pack, exit_flag, environ, cmd_no,
                         table, readers, ran, eaten>>

\* getline does nothing when cin is not good, not even to the line.  An empty one
\* is passed over: the buffer of stdout fills with prompts.
Spin ==
    /\ at = "prompt" /\ bad /\ text = <<>>
    /\ \/ Killed
       \/ /\ Flush(outbuf)
          /\ UNCHANGED <<outside, chan, at, cur, inbuf, bad, shell, readers, ran, eaten>>

LineAgain ==
    /\ at = "prompt" /\ bad /\ text # <<>>
    /\ at' = "parse"
    /\ UNCHANGED <<outside, chan, cur, inbuf, bad, shell, outbuf, readers, seen, ran, eaten>>

\* getline takes what the buffer has up to the next end, and reads when it is empty:
\* read fills it with what there is of what came.
Fill ==
    /\ at = "getline" /\ inbuf = <<>>
    /\ \E n \in 1 .. Len(chan[cur]) :
           /\ inbuf' = SubSeq(chan[cur], 1, n)
           /\ chan' = [chan EXCEPT ![cur] = SubSeq(@, n + 1, Len(@))]
    /\ UNCHANGED <<outside, at, cur, bad, shell, outbuf, readers, seen, ran, eaten>>

TakePiece == inbuf # <<>> /\ line' = Append(line, Head(inbuf)) /\ inbuf' = Tail(inbuf)

GetPiece ==
    /\ at = "getline" /\ TakePiece /\ ~Ended(Head(inbuf))
    /\ UNCHANGED <<outside, chan, at, cur, bad, text, pack, exit_flag, environ, cmd_no, table,
                   outbuf, readers, seen, ran, eaten>>

\* getline returns: an empty line is passed over.
Returns(l) ==
    /\ text' \in Says(l)
    /\ at' = IF text' = <<>> THEN "prompt" ELSE "parse"

GetLine ==
    /\ at = "getline" /\ TakePiece /\ Ended(Head(inbuf)) /\ Returns(line')
    /\ UNCHANGED <<outside, chan, cur, bad, pack, exit_flag, environ, cmd_no, table,
                   outbuf, readers, seen, ran, eaten>>

\* At the end of the connection the line is what there was without an end, or
\* empty; cin is not good any more, in this session or a later one.
GetEof ==
    /\ at = "getline" /\ inbuf = <<>> /\ AtEof(cur)
    /\ bad' = TRUE /\ Returns(line)
    /\ UNCHANGED <<outside, chan, cur, inbuf, line, pack, exit_flag, environ, cmd_no, table,
                   outbuf, readers, seen, ran, eaten>>

-----------------------------------------------------------------------------
(* shell_loop and main.                                                    *)

\* accept; shell_loop begins with a new table.
Accept ==
    /\ at = "accept" /\ cur + 1 \in Clients /\ client[cur + 1] # "away"
    /\ cur' = cur + 1 /\ at' = "prompt"
    /\ line' = <<>> /\ text' = <<>> /\ cmd_no' = 1 /\ table' = {}
    /\ UNCHANGED <<outside, chan, inbuf, bad, pack, exit_flag, environ, outbuf, readers,
                   seen, ran, eaten>>

\* parse_line flushes stdout.
Parse ==
    /\ at = "parse" /\ Len(ran) < MaxRan
    /\ \/ bad /\ Killed
       \/ /\ Flush(outbuf) /\ at' = "run"
          /\ pack' = text
          /\ ran' = Append(ran, [line |-> line, text |-> text, session |-> cur])
          /\ UNCHANGED <<outside, chan, cur, inbuf, bad, line, text, exit_flag, environ, cmd_no,
                         table, readers, eaten>>

Running(name) == at = "run" /\ pack # <<>> /\ Head(pack).name = name
NextCommand == pack' = Tail(pack) /\ cmd_no' = cmd_no + 1

\* A variable that nobody has set prints nothing.
printenv ==
    /\ Running("printenv")
    /\ LET items == IF environ = 0 THEN <<>> ELSE <<Value>>
       IN  \/ tty /\ items # <<>> /\ Killed
           \/ /\ IF tty THEN Flush(outbuf \o items)
                 ELSE outbuf' = outbuf \o items /\ UNCHANGED seen
              /\ NextCommand
              /\ UNCHANGED <<outside, chan, at, cur, inbuf, bad, line, text, exit_flag, environ,
                             table, readers, ran, eaten>>

setenv ==
    /\ Running("setenv")
    /\ environ' = cur /\ NextCommand
    /\ UNCHANGED <<outside, chan, at, cur, inbuf, bad, line, text, exit_flag, table, outbuf,
                   readers, seen, ran, eaten>>

\* The rest of the line is not run.
exit ==
    /\ Running("exit")
    /\ exit_flag' = TRUE /\ pack' = <<>>
    /\ UNCHANGED <<outside, chan, at, cur, inbuf, bad, line, text, environ, cmd_no, table, outbuf,
                   readers, seen, ran, eaten>>

\* args[0] of a command without words: the server is killed.
NoWord ==
    /\ Running("none") /\ at' = "dead"
    /\ UNCHANGED <<outside, chan, cur, inbuf, bad, shell, outbuf, readers, seen, ran, eaten>>

\* The command that a pipe goes to; stdin_fd is the socket when none comes here.
Targets(type) ==
    CASE type = "pipe" -> {cmd_no + 1} [] type = "num" -> {cmd_no + 2} [] OTHER -> {}
LineEndsWithPipeN == text[Len(text)].type = "num"
Foreground == Len(pack) = 1 /\ ~LineEndsWithPipeN

\* The copy of the buffer that a child leaves behind: exit flushes it, exec does not.
LeftByAll(cmd) == IF cmd.type \notin {"pipe", "num"} THEN outbuf ELSE <<>> \* variant: exit, always
LeftByChild(cmd) ==
    IF cmd.name = "bad" /\ cmd.type \notin {"pipe", "num"} THEN outbuf ELSE <<>>

Launch ==
    /\ at = "run" /\ pack # <<>> /\ Head(pack).name \in {"ls", "cat", "bad"}
    /\ LET cmd == Head(pack)
       IN  /\ table' = table \cup Targets(cmd.type)
           /\ readers' = IF cmd.name = "cat" /\ cmd_no \notin table
                         THEN readers \cup {<<cur, Foreground>>} ELSE readers
           /\ seen' = IF client[cur] = "left" THEN seen
                      ELSE [seen EXCEPT ![cur] = @ \o LeftByChild(cmd)]
    /\ at' = IF Foreground THEN "wait" ELSE "run"
    /\ NextCommand
    /\ UNCHANGED <<outside, chan, cur, inbuf, bad, line, text, exit_flag, environ, outbuf, ran, eaten>>

\* Variant: it waits for every child.
WaitForAll ==
    /\ at = "wait" /\ \A r \in readers : r[1] # cur
    /\ at' = "run"
    /\ UNCHANGED <<outside, chan, cur, inbuf, bad, shell, outbuf, readers, seen, ran, eaten>>

\* waitpid returns: commands end, those that read the socket when it does.
Wait ==
    /\ at = "wait" /\ <<cur, TRUE>> \notin readers
    /\ at' = "run"
    /\ UNCHANGED <<outside, chan, cur, inbuf, bad, shell, outbuf, readers, seen, ran, eaten>>

EndOfLine ==
    /\ at = "run" /\ pack = <<>> /\ ~exit_flag
    /\ at' = "prompt"
    /\ UNCHANGED <<outside, chan, cur, inbuf, bad, shell, outbuf, readers, seen, ran, eaten>>

AfterSession == IF tty THEN <<>> ELSE Append(outbuf, Banner(cur))

\* Variant: the flag is not reset.
EndFlagged ==
    /\ at = "run" /\ pack = <<>> /\ exit_flag
    /\ at' = "accept" /\ outbuf' = AfterSession
    /\ UNCHANGED <<outside, chan, cur, inbuf, bad, shell, readers, seen, ran, eaten>>

\* stdin and stdout are the terminal's again, the connection is closed, and main
\* prints that it waits.
EndOfSession ==
    /\ at = "run" /\ pack = <<>> /\ exit_flag
    /\ exit_flag' = FALSE /\ at' = "accept"
    /\ outbuf' = AfterSession
    /\ UNCHANGED <<outside, chan, cur, inbuf, bad, line, text, pack, environ, cmd_no, table,
                   readers, seen, ran, eaten>>

-----------------------------------------------------------------------------
Server ==
    \/ Accept \/ Prompt \/ Spin \/ LineAgain \/ GetLine \/ Fill \/ GetPiece \/ GetEof \/ Parse
    \/ printenv \/ setenv \/ exit \/ NoWord \/ Launch \/ Wait \/ EndOfLine \/ EndOfSession

Reader(c) == ReaderReads(c) \/ ReaderEnds(c)

Next ==
    \/ Server
    \/ \E c \in Clients : Connect(c) \/ SendPiece(c) \/ HangUp(c) \/ Reader(c)

\* The server and its children run; clients may stop at any point.
Spec == Init /\ [][Next]_vars /\ WF_vars(Server) /\ \A c \in Clients : WF_vars(Reader(c))

-----------------------------------------------------------------------------
(* Properties.                                                             *)

Sent == [by : Clients, n : Nat]

\* The variables have their types.
TypeOK ==
    /\ script \in [Clients -> Scripts] /\ tty \in BOOLEAN
    /\ client \in [Clients -> {"away", "open", "shut", "left"}]
    /\ \A c \in Clients : sent[c] \in 0 .. Len(script[c]) /\ chan[c] \in Seq(Sent)
    /\ at \in {"accept", "prompt", "getline", "parse", "run", "wait", "dead"}
    /\ cur \in Clients \cup {0} /\ (at # "accept" => cur # 0)
    /\ inbuf \in Seq(Sent) /\ bad \in BOOLEAN /\ line \in Seq(Sent)
    /\ text \in Seq(ShellCommand) /\ pack \in Seq(ShellCommand)
    /\ (at \in {"accept", "prompt"} => pack = <<>> /\ ~exit_flag)
    /\ environ \in 0 .. cur /\ cmd_no \in Nat \ {0} /\ table \subseteq Nat
    /\ readers \subseteq Clients \X BOOLEAN /\ eaten \subseteq Sent

\* In the order in which the clients come and send.
Before(p, q) == p.by < q.by \/ (p.by = q.by /\ p.n < q.n)

\* It was sent behind the exit that ended the session of its client, and read with it.
LeftOver(p) ==
    \E i \in DOMAIN ran :
        /\ ran[i].session = p.by /\ Has(ran[i].text, "exit")
        /\ \E a \in DOMAIN ran[i].line : ran[i].line[a].by = p.by /\ Before(ran[i].line[a], p)

\* A session runs what its client sent, and what an earlier one had left over: whole
\* lines of it, and a rest without an end in front of the client's first line.
LinesOwn ==
    \A i \in DOMAIN ran : LET l == ran[i].line  s == ran[i].session
        IN  /\ \A a \in DOMAIN l : l[a].by = s \/ (l[a].by < s /\ LeftOver(l[a]))
            /\ \A a, b \in DOMAIN l : l[a].by # l[b].by => s \in {l[a].by, l[b].by}

\* Each piece is run at most once and in its order, and not when a child has read
\* it; a line that the end of the connection ended is run again and again.
LinesOnce ==
    /\ \A i, j \in DOMAIN ran : i < j =>
           \/ \A a \in DOMAIN ran[i].line, b \in DOMAIN ran[j].line :
                  Before(ran[i].line[a], ran[j].line[b])
           \/ bad /\ ran[i].line = ran[j].line
    /\ \A i \in DOMAIN ran : LET l == ran[i].line
           IN  /\ \A a, b \in DOMAIN l : a < b => Before(l[a], l[b])
               /\ \A a \in DOMAIN l : l[a] \notin eaten

\* A line is what was sent between two ends, but where a child has read what comes
\* before, or another client's rest does.
Follows(l, a) ==
    \/ a = 1 /\ Starts(l[a])
    \/ a > 1 /\ l[a] = PieceOf(l[a - 1].by, l[a - 1].n + 1)
    \/ a > 1 /\ l[a].n = 1
    \/ PieceOf(l[a].by, l[a].n - 1) \in eaten
LinesWhole ==
    \A i \in DOMAIN ran : LET l == ran[i].line
        IN  \A a \in DOMAIN l :
               /\ Follows(l, a)
               /\ Ended(l[a]) => a = Len(l)
               /\ ~Ended(l[a]) => a < Len(l) \/ bad

\* A session ends by an exit line, and each exit line ends one.
ExitsRun == {i \in DOMAIN ran : Has(ran[i].text, "exit")}
Over == IF at = "accept" THEN cur ELSE cur - 1
SessionPerExit ==
    cur = 0 \/ Cardinality(ExitsRun) = Over
            \/ (at \in {"run", "wait", "dead"} /\ Cardinality(ExitsRun) = Over + 1)

\* What one client sends is run for it, in whole lines, once, until its exit: nothing
\* of a session but what was read with its exit is left in the buffers and flags for
\* the next. A rest without an end is, and becomes one line with the next one's first.
LinesRun == LinesOwn /\ LinesOnce /\ LinesWhole /\ SessionPerExit

\* Does a command of this name come behind the printenv in its line?
Behind(cmds, name) == Has(cmds, "printenv") /\ Has(cmds, name)

\* A client is written what its own lines print. Where stdout is no terminal, the
\* next one also has what waited in the buffer: the banner, and what printenv put
\* there in a line with exit.
ShownOwn ==
    \A c \in Clients : \A i \in DOMAIN seen[c] : LET item == seen[c][i]
        IN  \/ item.session = c /\ item.what = "value"
            \/ ~tty /\ item.session = c - 1
                    /\ (item.what = "value" => Behind(item.text, "exit"))

\* What a printenv prints is written once, but for a command behind it that is not
\* found: that one leaves with a copy of the buffer.
ShownOnce ==
    \A c \in Clients : \A i, j \in DOMAIN seen[c] :
        i # j /\ seen[c][i] = seen[c][j] =>
            ~tty /\ Behind(seen[c][i].text, "bad")

\* What is printed comes once and to whom it is for, but for what the buffer of
\* stdout holds back or a child copies where stdout is no terminal.
ShownRight == ShownOwn /\ ShownOnce

\* The exit line that ends with the piece n of c: a child has read some of it, or the
\* rest of an earlier client came in front.
Spoiled(c, n) ==
    \/ \E m \in 1 .. n : PieceOf(c, m) \in eaten /\ \A k \in m .. n - 1 : ~Ended(PieceOf(c, k))
    \/ \E i \in DOMAIN ran : LET l == ran[i].line
           IN  l[Len(l)] = PieceOf(c, n) /\ l[1].by # c

\* A client waits for good only while the one before it keeps the server: it has
\* not sent a whole exit line, or that was spoiled, or it hung up without it; or the
\* server was killed.
Owes(c) == \A n \in 1 .. sent[c] :
    Has(script[c][n].cmds, "exit") /\ script[c][n].ended => Spoiled(c, n)
Kept ==
    \/ at = "dead" \/ bad
    \/ at = "getline" /\ client[cur] = "open" /\ Owes(cur)
    \/ at = "wait" /\ <<cur, TRUE>> \in readers /\ client[cur] = "open"
Served(c) == cur >= c
=============================================================================
