-------------------------------- MODULE NpShellC --------------------------------
(***************************************************************************)
(* The shell in C, NP_HW1_c/npshell.c: how its loop leads the streams of   *)
(* commands through pipes.                                                 *)
(*                                                                         *)
(* It differs from npshell.cpp in three ways that matter here.  Its pipes  *)
(* are in an array that is used again from its start when it is full, and  *)
(* only the entries before numpipe_idx are looked at.  A command that ends *)
(* in > file gets a pipe to the next command, too, before its output goes  *)
(* to the file.  And which commands end in ! is found on a copy of the     *)
(* line that is cut at |.                                                  *)
(*                                                                         *)
(* What children do with their streams is PipeKernel's; here they start.   *)
(***************************************************************************)
EXTENDS Naturals, Sequences, FiniteSets

CONSTANTS
    Ring,    \* the length of pipe_num, 2000 in the source
    MaxCmd,  \* bound on the commands of a run
    MaxFd,   \* bound on the descriptors of the shell
    MaxNum,  \* the largest N of a |N
    Lines    \* the lines a user may type: sequences of commands

\* A command, the character after it and the number after that, 0 if none.
\* After > comes a file; a line may end in one, or in a number, or in a word,
\* whose last character may be a digit.
Sep == {"|", "!", ">", ""}
Command == [prog : {"run", "setenv", "exit"}, sep : Sep, num : 0 .. MaxNum, digit : BOOLEAN]

ASSUME RingAssumption ==
    /\ Ring \in Nat \ {0} /\ MaxCmd \in Nat /\ MaxFd \in Nat /\ MaxNum \in Nat
    /\ Lines \subseteq Seq(Command)
    /\ \A l \in Lines : l # <<>> /\ \A i \in DOMAIN l :
          l[i].sep \in {"", ">"} => i = Len(l) /\ l[i].num = 0
    /\ \A l \in Lines : l[Len(l)].sep \in {"|", "!"} => l[Len(l)].num > 0

VARIABLES
    cmd_no,      \* number of the next command
    numpipe_idx, \* where the next entry of pipe_num goes
    pipe_num,    \* the entries written so far
    fds,         \* what each descriptor of the shell is
    npipe,       \* pipes created so far
    line, pos,   \* the line being run and its next command, 0 at the prompt
    fg,          \* the command that waitpid waits for, 0 if none
    up,          \* the shell has not exited
    \* History:
    job,         \* for each command its streams, and where the user sent them
    doubled      \* a line had two ! with no | between them

vars == <<cmd_no, numpipe_idx, pipe_num, fds, npipe, line, pos, fg, up, job, doubled>>
table == <<numpipe_idx, pipe_num, npipe>>

Fd == 3 .. MaxFd
Free == [kind |-> "free", pipe |-> 0]
Terminal == 0  \* as the pipe of a stream: it is the terminal, or a file

Init ==
    /\ cmd_no = 1 /\ numpipe_idx = 0 /\ pipe_num = <<>>
    /\ fds = [f \in Fd |-> Free] /\ npipe = 0
    /\ line = <<>> /\ pos = 0 /\ fg = 0 /\ up = TRUE
    /\ job = <<>> /\ doubled = FALSE

-----------------------------------------------------------------------------
(* The line.                                                               *)

\* parse_errorpipe: the pieces between |, and those in which there is a !.  Each
\* gives one index, its own number and one for each such piece before it.
Piece(l, i) == Cardinality({k \in 1 .. i - 1 : l[k].sep = "|"})
ErrPieces(l) == {Piece(l, i) : i \in {k \in DOMAIN l : l[k].sep = "!"}}
ErrTableUnshifted(l) == ErrPieces(l)  \* variant: the ! before are not counted
ErrTable(l) == {p + Cardinality({q \in ErrPieces(l) : q < p}) : p \in ErrPieces(l)}
is_errpipe == pos - 1 \in ErrTable(line)

\* lineEndsWithPipeN: the line's last character is a digit.
lineEndsWithPipeN == LET last == line[Len(line)] IN last.num > 0 \/ last.digit

TwoInAPiece(l) == \E i, k \in DOMAIN l :
    i # k /\ l[i].sep = "!" /\ l[k].sep = "!" /\ Piece(l, i) = Piece(l, k)

AtPrompt == up /\ pos = 0 /\ fg = 0

ReadLine(l) ==
    /\ AtPrompt /\ cmd_no <= MaxCmd
    /\ line' = l /\ pos' = 1
    /\ doubled' = (doubled \/ TwoInAPiece(l))
    /\ UNCHANGED <<cmd_no, table, fds, fg, up, job>>

\* read_line exits at the end of the input, and exit does.
Exit ==
    /\ up /\ fg = 0
    /\ pos # 0 => line[pos].prog = "exit"
    /\ up' = FALSE /\ fds' = [f \in Fd |-> Free]
    /\ UNCHANGED <<cmd_no, table, line, pos, fg, job, doubled>>

-----------------------------------------------------------------------------
(* A turn of the loop over the commands of a line.                         *)

cmd == line[pos]
Running == up /\ pos # 0 /\ fg = 0 /\ cmd_no <= MaxCmd
NextPos == IF pos = Len(line) THEN 0 ELSE pos + 1

\* check_builtin: the command takes a number and what is after it is passed over.
RunSetenv ==
    /\ Running /\ cmd.prog = "setenv"
    /\ cmd_no' = cmd_no + 1 /\ pos' = NextPos
    /\ job' = Append(job, [prog |-> "setenv", stdin |-> Terminal, out |-> Terminal,
                           err |-> Terminal, sentOut |-> 0, sentErr |-> 0])
    /\ UNCHANGED <<table, fds, line, fg, up, doubled>>

\* The first of the n entries for command t.
Found(entries, n, t) == {i \in 1 .. n : entries[i].target = t}
First(entries, n, t) ==
    entries[CHOOSE i \in Found(entries, n, t) : \A j \in Found(entries, n, t) : i <= j]

Lowest(f, open) == open[f] = Free /\ \A g \in Fd : g < f => open[g] # Free

\* Where the output goes: a number leads to the command so much further on, a |
\* or ! with no number, and the name of a file, to the next one.
Target == cmd_no + IF cmd.num > 0 THEN cmd.num ELSE 1
Asked == IF cmd.sep \in {"|", "!"} THEN Target ELSE 0

\* The child's streams.  stdout_fd is on pipe p; a file takes its place, for the
\* errors too.
Streams(stdin, p) ==
    LET out == IF cmd.sep = ">" THEN Terminal ELSE p
    IN  [prog |-> "run", stdin |-> stdin, out |-> out,
         err |-> IF is_errpipe THEN out ELSE Terminal,
         sentOut |-> Asked, sentErr |-> IF cmd.sep = "!" THEN Asked ELSE 0]

\* The input is looked for after the output, among the first n entries: the write
\* end is closed before the fork, the read end after it.
Close(f, open) == [open EXCEPT ![f] = Free]

CloseWriteEnd(e, open) == Close(e.out_fd, open)  \* variant: the read end is kept
CloseInput(e, open) == Close(e.in_fd, Close(e.out_fd, open))

Fork(entries, n, open, p) ==
    /\ IF Found(entries, n, cmd_no) = {}
       THEN job' = Append(job, Streams(Terminal, p)) /\ fds' = open
       ELSE LET e == First(entries, n, cmd_no)
            IN  /\ job' = Append(job, Streams(open[e.in_fd].pipe, p))
                /\ fds' = CloseInput(e, open)
    /\ fg' = IF pos = Len(line) /\ ~lineEndsWithPipeN THEN cmd_no ELSE 0
    /\ cmd_no' = cmd_no + 1 /\ pos' = NextPos
    /\ UNCHANGED <<line, up, doubled>>

Runs == Running /\ cmd.prog = "run"

RunPlain ==
    /\ Runs /\ cmd.sep = ""
    /\ Fork(pipe_num, numpipe_idx, fds, Terminal)
    /\ UNCHANGED table

\* Some entry has this target: its pipe is shared.
RunIntoPipe ==
    /\ Runs /\ cmd.sep # "" /\ Found(pipe_num, numpipe_idx, Target) # {}
    /\ Fork(pipe_num, numpipe_idx, fds,
            fds[First(pipe_num, numpipe_idx, Target).out_fd].pipe)
    /\ UNCHANGED table

\* None has: the next place of the array gets a new pipe.
Entered(e) == IF numpipe_idx < Len(pipe_num) THEN [pipe_num EXCEPT ![numpipe_idx + 1] = e]
              ELSE Append(pipe_num, e)
NextIdx == (numpipe_idx + 1) % Ring

RunIntoNewPipe(r, w) ==
    /\ Runs /\ cmd.sep # "" /\ Found(pipe_num, numpipe_idx, Target) = {}
    /\ LET p == npipe + 1
           open == [fds EXCEPT ![r] = [kind |-> "rd", pipe |-> p]]
       IN  /\ Lowest(r, fds) /\ Lowest(w, open)
           /\ Fork(Entered([target |-> Target, in_fd |-> r, out_fd |-> w]), NextIdx,
                   [open EXCEPT ![w] = [kind |-> "wr", pipe |-> p]], p)
    /\ pipe_num' = Entered([target |-> Target, in_fd |-> r, out_fd |-> w])
    /\ numpipe_idx' = NextIdx
    /\ npipe' = npipe + 1

\* waitpid returns.
WaitReturns ==
    /\ fg # 0 /\ fg' = 0
    /\ UNCHANGED <<cmd_no, table, fds, line, pos, up, job, doubled>>

-----------------------------------------------------------------------------
Next ==
    \/ \E l \in Lines : ReadLine(l)
    \/ Exit \/ RunSetenv \/ RunPlain \/ RunIntoPipe
    \/ \E r, w \in Fd : RunIntoNewPipe(r, w)
    \/ WaitReturns

Spec == Init /\ [][Next]_vars

-----------------------------------------------------------------------------
(* Properties.                                                             *)

Obj == [kind : {"free", "rd", "wr"}, pipe : Nat]
Job == [prog : {"run", "setenv"}, stdin : Nat, out : Nat, err : Nat, sentOut : Nat, sentErr : Nat]

TypeOK ==
    /\ cmd_no \in Nat \ {0} /\ Len(job) = cmd_no - 1 /\ job \in Seq(Job)
    /\ Len(pipe_num) <= Ring /\ numpipe_idx = npipe % Ring
    /\ pipe_num \in Seq([target : Nat, in_fd : Fd, out_fd : Fd])
    /\ fds \in [Fd -> Obj] /\ npipe \in Nat
    /\ line \in Lines \cup {<<>>} /\ pos \in 0 .. Len(line) /\ fg \in 0 .. Len(job)
    /\ up \in BOOLEAN /\ doubled \in BOOLEAN

\* The streams whose pipe command k reads, and those that were sent to it.
SentTo(k) == {<<i, "out">> : i \in {i \in DOMAIN job : job[i].sentOut = k}}
             \cup {<<i, "err">> : i \in {i \in DOMAIN job : job[i].sentErr = k}}
FeedOf(k) ==
    IF job[k].stdin = Terminal THEN {}
    ELSE {<<i, "out">> : i \in {i \in DOMAIN job : job[i].out = job[k].stdin}}
         \cup {<<i, "err">> : i \in {i \in DOMAIN job : job[i].err = job[k].stdin}}
Programs == {k \in DOMAIN job : job[k].prog = "run"}

\* Until the array has been filled once, and on lines with no two ! in a piece, a
\* command reads what was sent to its number and nothing else.
FedAsSent == npipe < Ring /\ ~doubled => \A k \in Programs : FeedOf(k) = SentTo(k)

\* However the array wraps, the shell holds both ends of a pipe or neither: no
\* descriptor is closed for an entry that it was not opened for, and a command
\* that reads a pipe comes to its end, since the shell has no write end of it.
Ends(kind) == {fds[f].pipe : f \in {g \in Fd : fds[g].kind = kind}}
EndsTogether ==
    /\ Ends("rd") = Ends("wr")
    /\ \A k \in DOMAIN job : job[k].stdin \notin Ends("wr")
=============================================================================
