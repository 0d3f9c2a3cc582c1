------------------------------ MODULE PipeKernel ------------------------------
(***************************************************************************)
(* The part of the operating system that the shells rely on: the child     *)
(* processes they fork, the pipes between them and the reaping of dead     *)
(* children.  None of it is code of the repository; it is modelled from    *)
(* the way the shells use it.                                              *)
(*                                                                         *)
(* Children are numbered by the command they run.  The data in a pipe is a *)
(* sequence of units; a unit is the number of the command that wrote it,   *)
(* and a pipe holds Cap of them.  A program is one of three:               *)
(*   "gen"      never reads, writes Work units and one unit of errors      *)
(*              (ls, removetag0);                                          *)
(*   "cat"      copies its input until end of file (cat, number);          *)
(*   "unknown"  does not exist: the child reports that on its error stream *)
(*              and ends.                                                  *)
(***************************************************************************)
EXTENDS Naturals, Sequences

CONSTANTS
    Cap,    \* units that a pipe holds
    Work    \* units that a "gen" writes

ASSUME KernelAssumption == Cap \in Nat \ {0} /\ Work \in Nat

VARIABLES
    job,      \* job[k]: what command k runs and where its streams go
    proc,     \* proc[k]: the state of its process
    chan,     \* chan[p]: the units in pipe p
    zombies,  \* dead children that nobody has waited for
    sigchld   \* a SIGCHLD is pending

kernelVars == <<job, proc, chan, zombies, sigchld>>

Terminal == 0   \* a stream that is no pipe: the terminal, a socket or a file
Program == {"gen", "cat", "unknown"}

Live(k) == proc[k].st \in {"forked", "running"}

\* The processes that keep pipe p open for writing, and for reading.  held is
\* the set of pipes whose two ends a child inherited and has not closed.
Writers(p) == {k \in DOMAIN proc :
    Live(k) /\ (job[k].stdout = p \/ job[k].stderr = p \/ p \in proc[k].held)}
Readers(p) == {k \in DOMAIN proc :
    Live(k) /\ (job[k].stdin = p \/ p \in proc[k].held)}

NewProc(prog, held) ==
    [st   |-> "forked",
     held |-> held,
     todo |-> IF prog = "gen" THEN Work ELSE 0,
     errs |-> IF prog \in {"gen", "unknown"} THEN 1 ELSE 0]

\* fork() for command number Len(job) + 1.  dest is what the user asked for: the
\* number of the command that each stream goes to.
Fork(prog, stdin, stdout, stderr, dest, held) ==
    /\ job' = Append(job, [prog |-> prog, stdin |-> stdin, stdout |-> stdout,
                           stderr |-> stderr, dest |-> dest])
    /\ proc' = Append(proc, NewProc(prog, held))

\* A command that the shell runs itself: it has a number and no process.
NoFork ==
    /\ job' = Append(job, [prog |-> "builtin", stdin |-> Terminal, stdout |-> Terminal,
                           stderr |-> Terminal,
                           dest |-> [out |-> 0, err |-> 0]])
    /\ proc' = Append(proc, [st |-> "exited", held |-> {}, todo |-> 0, errs |-> 0])

Die(k, how) ==
    /\ proc' = [proc EXCEPT ![k].st = how, ![k].held = {}]
    /\ zombies' = zombies \cup {k}
    /\ sigchld' = TRUE
    /\ UNCHANGED job

\* One write to stream p; shellReads are the pipes the shell can read from.
\* Nobody left to read: SIGPIPE.  A full pipe blocks the writer.
Put(k, p, left, shellReads) ==
    \/ /\ p = Terminal
       /\ proc' = left
       /\ UNCHANGED <<job, chan, zombies, sigchld>>
    \/ /\ p # Terminal /\ Readers(p) = {} /\ p \notin shellReads
       /\ Die(k, "killed")
       /\ UNCHANGED chan
    \/ /\ p # Terminal /\ (Readers(p) # {} \/ p \in shellReads)
       /\ Len(chan[p]) < Cap
       /\ chan' = [chan EXCEPT ![p] = Append(@, k)]
       /\ proc' = left
       /\ UNCHANGED <<job, zombies, sigchld>>

ChildWrite(k, shellReads) ==
    /\ proc[k].st = "running" /\ proc[k].todo > 0
    /\ Put(k, job[k].stdout, [proc EXCEPT ![k].todo = @ - 1], shellReads)

ChildWriteErr(k, shellReads) ==
    /\ proc[k].st = "running" /\ proc[k].errs > 0
    /\ Put(k, job[k].stderr, [proc EXCEPT ![k].errs = @ - 1], shellReads)

ChildRead(k) ==
    /\ proc[k].st = "running" /\ job[k].prog = "cat" /\ proc[k].todo = 0
    /\ job[k].stdin # Terminal /\ chan[job[k].stdin] # <<>>
    /\ chan' = [chan EXCEPT ![job[k].stdin] = Tail(@)]
    /\ proc' = [proc EXCEPT ![k].todo = 1]
    /\ UNCHANGED <<job, zombies, sigchld>>

\* End of file: the pipe is empty and nobody can write to it any more.  The
\* user ends the input of a program that reads the terminal.
Eof(p, shellWrites) ==
    \/ p = Terminal
    \/ p # Terminal /\ chan[p] = <<>> /\ Writers(p) = {} /\ p \notin shellWrites

ChildExit(k, shellWrites) ==
    /\ proc[k].st = "running" /\ proc[k].todo = 0 /\ proc[k].errs = 0
    /\ job[k].prog = "cat" => Eof(job[k].stdin, shellWrites)
    /\ Die(k, "exited")
    /\ UNCHANGED chan

ChildStep(k, shellReads, shellWrites) ==
    \/ ChildWrite(k, shellReads)
    \/ ChildWriteErr(k, shellReads)
    \/ ChildRead(k)
    \/ ChildExit(k, shellWrites)

KernelInit == job = <<>> /\ proc = <<>> /\ chan = <<>> /\ zombies = {} /\ sigchld = FALSE
==============================================================================
