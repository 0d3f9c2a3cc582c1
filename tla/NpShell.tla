------------------------------- MODULE NpShell -------------------------------
(***************************************************************************)
(* The shell of homework 1, NP_HW1_cpp/npshell.cpp, at the level of its    *)
(* file descriptors: the table of numbered pipes, fork, dup2, close and    *)
(* waitpid.  Its children and their pipes are PipeKernel.                  *)
(*                                                                         *)
(* A descriptor is a number; open() and pipe() return the lowest free one, *)
(* so a number that was closed comes back for something else.  An entry of *)
(* numpipe_table holds such numbers and is never erased: nothing but its   *)
(* target number says whether they still mean anything.                    *)
(***************************************************************************)
EXTENDS PipeKernel

CONSTANTS
    MaxCmd,  \* bound on the commands of a run
    MaxFd,   \* bound on the descriptors of the shell
    MaxNum,  \* the largest N of a |N
    Lines    \* the lines a user may type: sequences of commands

Builtins == {"setenv", "exit"}
NumTypes == {"num_pipe", "err_num_pipe"}
PipeTypes == {"pipe", "err_pipe"} \cup NumTypes

\* parse_line ends a command at each | and !, so a line may hold several, and
\* only a command that a pipe ends is followed by another.
Command == [prog : Program \cup Builtins, type : PipeTypes \cup {"", "file_pipe"},
            num : 1 .. MaxNum]

\* A line that ends in | or ! with no number is not in the shell's grammar.
ASSUME ShellAssumption ==
    /\ MaxCmd \in Nat /\ MaxFd \in Nat /\ MaxNum \in Nat \ {0}
    /\ Lines \subseteq Seq(Command)
    /\ \A l \in Lines : l # <<>> => l[Len(l)].type \notin {"pipe", "err_pipe"}

VARIABLES
    cmd_no,         \* number of the next command
    numpipe_table,  \* pending and past numbered pipes, in order of creation
    fds,            \* what each descriptor of the shell is
    npipe,          \* pipes created so far: pipe() gives them numbers 1, 2, ...
    line,           \* the string that getline filled, as parsed
    pos,            \* the command of line being run, 0 at the prompt
    fg,             \* the command whose process waitpid waits for, 0 if none
    input,          \* "more": cin is good; "drained": its eofbit is set
    up              \* the shell has not exited

shellVars == <<cmd_no, numpipe_table, fds, npipe, line, pos, fg, input, up>>
vars == <<shellVars, kernelVars>>

Fd == 3 .. MaxFd
Free == [kind |-> "free", pipe |-> 0]
Obj == [kind : {"free", "rd", "wr", "file"}, pipe : Nat]
Entry == [target_cmd_num : Nat, in_fd : Fd, out_fd : Fd]

Lowest(f, open) == open[f] = Free /\ \A g \in Fd : g < f => open[g] # Free
Closed(f, open) == [open EXCEPT ![f] = Free]

\* The pipes that the shell can write to, and read from.
Ends(kind, open) == {open[f].pipe : f \in {g \in Fd : open[g].kind = kind}}
ShellWrites == Ends("wr", fds)
ShellReads == Ends("rd", fds)

Init ==
    /\ KernelInit
    /\ cmd_no = 1
    /\ numpipe_table = <<>>
    /\ fds = [f \in Fd |-> Free]
    /\ npipe = 0
    /\ line = <<>> /\ pos = 0 /\ fg = 0
    /\ input = "more" /\ up = TRUE

-----------------------------------------------------------------------------
(* getline(cin, line) at the prompt.  An empty line only prints the prompt *)
(* again.  When the input ends in the middle of a line, the line is run    *)
(* and eofbit is set; from then on getline fails at once and leaves line   *)
(* as it was.                                                              *)

AtPrompt == up /\ pos = 0 /\ fg = 0

ReadLine(l, terminated) ==
    /\ AtPrompt /\ input = "more"
    /\ terminated \/ l # <<>>
    /\ line' = l
    /\ pos' = IF l = <<>> THEN 0 ELSE 1
    /\ input' = IF terminated THEN "more" ELSE "drained"
    /\ UNCHANGED <<cmd_no, numpipe_table, fds, npipe, fg, up, kernelVars>>

\* The input ends after a newline: getline empties line and sets eofbit.
ReadEof ==
    /\ AtPrompt /\ input = "more"
    /\ line' = <<>> /\ input' = "drained"
    /\ UNCHANGED <<cmd_no, numpipe_table, fds, npipe, pos, fg, up, kernelVars>>

ReadAgain ==
    /\ AtPrompt /\ input = "drained"
    /\ pos' = IF line = <<>> THEN 0 ELSE 1
    /\ UNCHANGED <<cmd_no, numpipe_table, fds, npipe, line, fg, input, up, kernelVars>>

-----------------------------------------------------------------------------
(* One turn of the loop over cmd_pack.                                     *)

Running == up /\ pos # 0 /\ fg = 0 /\ cmd_no <= MaxCmd
NextPos == IF pos = Len(line) THEN 0 ELSE pos + 1

RunExit ==
    /\ Running /\ line[pos].prog = "exit"
    /\ up' = FALSE
    /\ fds' = [f \in Fd |-> Free]
    /\ UNCHANGED <<cmd_no, numpipe_table, npipe, line, pos, fg, input, kernelVars>>

\* Variant: a built-in takes no number.
RunSetenvUncounted ==
    /\ Running /\ line[pos].prog = "setenv"
    /\ pos' = NextPos
    /\ NoFork
    /\ UNCHANGED <<cmd_no, numpipe_table, fds, npipe, line, fg, input, up,
                   chan, zombies, sigchld>>

\* setenv and printenv: they take a number, and a pipe that has this number as
\* its target stays in the table and open.
RunSetenv ==
    /\ Running /\ line[pos].prog = "setenv"
    /\ cmd_no' = cmd_no + 1
    /\ pos' = NextPos
    /\ NoFork
    /\ UNCHANGED <<numpipe_table, fds, npipe, line, fg, input, up, chan, zombies, sigchld>>

\* The first entry for command number t.
EntryFor(t) == {j \in DOMAIN numpipe_table : numpipe_table[j].target_cmd_num = t}
First(t) == numpipe_table[CHOOSE j \in EntryFor(t) : \A i \in EntryFor(t) : j <= i]

\* The command being run, and the number of the one it sends its output to.
cmd == line[pos]
Dest == CASE cmd.type \in {"pipe", "err_pipe"} -> cmd_no + 1
          [] cmd.type \in NumTypes -> cmd_no + cmd.num
          [] OTHER -> 0
WithErr == cmd.type \in {"err_pipe", "err_num_pipe"}

\* What the user asked for, whatever the code makes of it: kept with the job.
Asked ==
    LET n == IF cmd.type \in NumTypes THEN cmd_no + cmd.num
             ELSE IF cmd.type \in PipeTypes THEN cmd_no + 1 ELSE 0
    IN [out |-> n, err |-> IF cmd.type \in {"err_pipe", "err_num_pipe"} THEN n ELSE 0]

\* If the command is a target: close the write end, take the read end.
FdsAfterTarget ==
    IF EntryFor(cmd_no) # {} THEN Closed(First(cmd_no).out_fd, fds) ELSE fds
StdinPipe == IF EntryFor(cmd_no) # {} THEN fds[First(cmd_no).in_fd].pipe ELSE Terminal

\* Variant: the read end stays open.
FdsKept(open) == open

\* The parent after fork: the read end it handed over is closed.
FdsAfterFork(open) ==
    IF EntryFor(cmd_no) # {} THEN Closed(First(cmd_no).in_fd, open) ELSE open

\* fork(), with stdout on pipe p and descriptors open.  The child inherits every
\* descriptor; only the last command of a line is waited for, and not when a
\* numbered pipe ends the line.
Launch(p, open) ==
    /\ Fork(cmd.prog, StdinPipe, p, IF WithErr THEN p ELSE Terminal,
            Asked, Ends("wr", open))
    /\ fds' = FdsAfterFork(open)
    /\ fg' = IF pos = Len(line) /\ cmd.type \notin NumTypes THEN cmd_no ELSE 0
    /\ pos' = NextPos
    /\ cmd_no' = cmd_no + 1
    /\ UNCHANGED <<line, input, up, zombies, sigchld>>

Runs == Running /\ cmd.prog \notin Builtins

\* No pipe to write to.
RunPlain ==
    /\ Runs /\ cmd.type = ""
    /\ Launch(Terminal, FdsAfterTarget)
    /\ UNCHANGED <<numpipe_table, npipe, chan>>

\* > file: the shell opens the file and never closes it.
RunToFile(f) ==
    /\ Runs /\ cmd.type = "file_pipe"
    /\ Lowest(f, FdsAfterTarget)
    /\ Launch(Terminal, [FdsAfterTarget EXCEPT ![f] = [kind |-> "file", pipe |-> 0]])
    /\ UNCHANGED <<numpipe_table, npipe, chan>>

\* A pipe to the same command exists: share it.
RunIntoPipe ==
    /\ Runs /\ cmd.type \in PipeTypes /\ EntryFor(Dest) # {}
    /\ Launch(FdsAfterTarget[First(Dest).out_fd].pipe, FdsAfterTarget)
    /\ UNCHANGED <<numpipe_table, npipe, chan>>

\* Variant: every | and ! creates a pipe of its own.
RunIntoOwnPipe(r, w) ==
    /\ Runs /\ cmd.type \in PipeTypes
    /\ LET p == npipe + 1
           open == [FdsAfterTarget EXCEPT ![r] = [kind |-> "rd", pipe |-> p]]
       IN /\ Lowest(r, FdsAfterTarget) /\ Lowest(w, open)
          /\ npipe' = p
          /\ chan' = Append(chan, <<>>)
          /\ numpipe_table' = Append(numpipe_table,
                 [target_cmd_num |-> Dest, in_fd |-> r, out_fd |-> w])
          /\ Launch(p, [open EXCEPT ![w] = [kind |-> "wr", pipe |-> p]])

\* Variant: the parent closes the read end of the pipe it just created.
RunIntoClosedPipe(r, w) ==
    /\ Runs /\ cmd.type \in PipeTypes /\ EntryFor(Dest) = {}
    /\ Lowest(r, FdsAfterTarget) /\ Lowest(w, [FdsAfterTarget EXCEPT ![r].kind = "rd"])
    /\ npipe' = npipe + 1
    /\ chan' = Append(chan, <<>>)
    /\ numpipe_table' = Append(numpipe_table,
           [target_cmd_num |-> Dest, in_fd |-> r, out_fd |-> w])
    /\ Launch(npipe + 1, [FdsAfterTarget EXCEPT ![w] = [kind |-> "wr", pipe |-> npipe + 1]])

\* The first pipe to this command: create it and enter it.
RunIntoNewPipe(r, w) ==
    /\ Runs /\ cmd.type \in PipeTypes /\ EntryFor(Dest) = {}
    /\ LET p == npipe + 1
           open == [FdsAfterTarget EXCEPT ![r] = [kind |-> "rd", pipe |-> p]]
       IN /\ Lowest(r, FdsAfterTarget) /\ Lowest(w, open)
          /\ npipe' = p
          /\ chan' = Append(chan, <<>>)
          /\ numpipe_table' = Append(numpipe_table,
                 [target_cmd_num |-> Dest, in_fd |-> r, out_fd |-> w])
          /\ Launch(p, [open EXCEPT ![w] = [kind |-> "wr", pipe |-> p]])

RunCommand ==
    \/ RunPlain
    \/ \E f \in Fd : RunToFile(f)
    \/ RunIntoPipe
    \/ \E r, w \in Fd : RunIntoNewPipe(r, w)

-----------------------------------------------------------------------------
(* waitpid in the foreground, and the SIGCHLD handler, which may reap the  *)
(* foreground process first; waitpid then fails and returns as well.       *)

WaitReturns ==
    /\ up /\ fg # 0 /\ ~Live(fg)
    /\ fg' = 0
    /\ zombies' = zombies \ {fg}
    /\ UNCHANGED <<cmd_no, numpipe_table, fds, npipe, line, pos, input, up,
                   job, proc, chan, sigchld>>

\* Variant: the handler calls waitpid once.
childHandlerOnce ==
    /\ sigchld
    /\ \/ zombies = {} /\ zombies' = {}
       \/ \E k \in zombies : zombies' = zombies \ {k}
    /\ sigchld' = FALSE
    /\ UNCHANGED <<shellVars, job, proc, chan>>

\* When the shell is gone, init reaps.
childHandler ==
    /\ sigchld
    /\ zombies' = {}
    /\ sigchld' = FALSE
    /\ UNCHANGED <<shellVars, job, proc, chan>>

\* Variant: the child keeps the descriptors it inherited.
ChildExecKeeping(k) ==
    /\ proc[k].st = "forked"
    /\ proc' = [proc EXCEPT ![k].st = "running"]
    /\ UNCHANGED <<shellVars, job, chan, zombies, sigchld>>

\* The child: dup2, then close everything from 3 up, then exec.
ChildExec(k) ==
    /\ proc[k].st = "forked"
    /\ proc' = [proc EXCEPT ![k].st = "running", ![k].held = {}]
    /\ UNCHANGED <<shellVars, job, chan, zombies, sigchld>>

Child(k) ==
    \/ ChildExec(k)
    \/ ChildStep(k, ShellReads, ShellWrites) /\ UNCHANGED shellVars

-----------------------------------------------------------------------------

User == ReadEof \/ \E l \in Lines, terminated \in BOOLEAN : ReadLine(l, terminated)

Shell == \/ ReadAgain
         \/ RunExit \/ RunSetenv
         \/ RunCommand
         \/ WaitReturns

Next ==
    \/ User
    \/ Shell
    \/ childHandler
    \/ \E k \in DOMAIN proc : Child(k)

Safety == Init /\ [][Next]_vars

(* The shell and its children are scheduled; the user need not type.       *)
Spec ==
    /\ Safety
    /\ WF_vars(Shell)
    /\ WF_vars(childHandler)
    /\ \A k \in 1 .. MaxCmd : WF_vars(k \in DOMAIN proc /\ Child(k))

-----------------------------------------------------------------------------
(* Properties.                                                             *)

Job == [prog : Program \cup {"builtin"}, stdin : Nat, stdout : Nat, stderr : Nat,
        dest : [out : Nat, err : Nat]]
Proc == [st : {"forked", "running", "exited", "killed"}, held : SUBSET Nat,
         todo : Nat, errs : 0 .. 1]

\* Every variable has its type, and the counters and the tables agree.
TypeOK ==
    /\ cmd_no \in Nat \ {0}
    /\ numpipe_table \in Seq(Entry)
    /\ fds \in [Fd -> Obj]
    /\ npipe \in Nat
    /\ line \in Lines \cup {<<>>}
    /\ pos \in 0 .. Len(line) /\ fg \in 0 .. Len(job)
    /\ input \in {"more", "drained"} /\ up \in BOOLEAN
    /\ job \in Seq(Job) /\ Len(job) = cmd_no - 1
    /\ proc \in Seq(Proc) /\ Len(proc) = Len(job)
    /\ chan \in Seq(Seq(Nat)) /\ Len(chan) = npipe
    /\ zombies \subseteq Nat /\ sigchld \in BOOLEAN

(* Refinement.  The streams that feed command k are those that some        *)
(* process has on the very pipe that k has as its standard input: shared   *)
(* descriptors and tables on this side, command numbers on the other.      *)
PipeOf(src) == IF src[2] = "out" THEN job[src[1]].stdout ELSE job[src[1]].stderr

FeedOf(k) == {src \in (DOMAIN job) \X {"out", "err"} :
                 job[k].stdin # Terminal /\ PipeOf(src) = job[k].stdin}

NP == INSTANCE NumPipe WITH
          Number <- 1 .. (MaxCmd + MaxNum),
          route <- [k \in DOMAIN job |-> job[k].dest],
          feed  <- [k \in DOMAIN job |-> FeedOf(k)]

\* npshell.cpp implements numbered pipes: a command reads exactly the streams
\* that were sent to its number, however descriptors are reused in between.
NumPipeImplemented == NP!Spec

\* The entries whose descriptors the shell still holds: those whose target is
\* yet to come, and those whose target was a built-in.
Holding == {j \in DOMAIN numpipe_table :
    LET t == numpipe_table[j].target_cmd_num
    IN t >= cmd_no \/ job[t].prog = "builtin"}

\* Every such entry names the two ends of one pipe, no two of them share a
\* descriptor, and the shell holds no other pipe end: nothing is closed twice,
\* used after it was closed, or forgotten open.
DescriptorsAccounted ==
    up => /\ \A j \in Holding :
                LET e == numpipe_table[j]
                IN /\ fds[e.in_fd].kind = "rd" /\ fds[e.out_fd].kind = "wr"
                   /\ fds[e.in_fd].pipe = fds[e.out_fd].pipe
          /\ \A i, j \in Holding : i # j =>
                {numpipe_table[i].in_fd, numpipe_table[i].out_fd}
                \cap {numpipe_table[j].in_fd, numpipe_table[j].out_fd} = {}
          /\ \A f \in Fd : fds[f].kind \in {"rd", "wr"} =>
                \E j \in Holding : f \in {numpipe_table[j].in_fd, numpipe_table[j].out_fd}

\* While the shell runs, a writer dies of SIGPIPE only if the command it writes
\* to has been started: the read end of a pending pipe is not closed early.
NoEarlySigpipe ==
    up => \A i \in DOMAIN job : proc[i].st = "killed" =>
              \E k \in DOMAIN job : k > i /\ \E s \in {"out", "err"} : <<i, s>> \in FeedOf(k)

\* The shell gets its prompt back: a command waited for in the foreground ends,
\* although earlier commands still write to pipes that nobody reads yet.
ForegroundReturns == fg # 0 ~> fg = 0

\* No child stays a zombie, however many die before the handler runs.
ZombiesReaped == \A k \in 1 .. MaxCmd : k \in zombies ~> k \notin zombies
==============================================================================
