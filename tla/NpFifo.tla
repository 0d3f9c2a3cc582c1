------------------------------- MODULE NpFifo -------------------------------
(***************************************************************************)
(* The user pipes of NP_HW2/np_multi_proc.cpp: named pipes between the     *)
(* processes of two users, opened when the pipe is made.  The sender marks *)
(* the pipe in the shared table, sends SIGUSR2 to the receiver and opens   *)
(* the fifo for writing; the receiver's signal handler looks for a marked  *)
(* pipe it has not opened and opens the fifo for reading.  Each open waits *)
(* for the other.  The number of the descriptor is kept in the shared      *)
(* table for the receiver's own <n, where 0 says that there is none.  A <n *)
(* that comes before the handler takes that 0 and closes the shell's own   *)
(* standard input: from then on an open may return 0, which the table      *)
(* cannot tell from none.                                                  *)
(*                                                                         *)
(* Login and exit are one step each (NpMulti has their detail), and so is  *)
(* every system call and every access to the table.  A process is the      *)
(* number of its connection.  Data and numbered pipes are left out.        *)
(***************************************************************************)
EXTENDS Naturals

CONSTANTS
    MaxClients, \* 30 in the code
    MaxConn,    \* bound on the connections of a run
    MaxOps,     \* bound on the commands of a process
    Plan        \* the commands users type: <<user, n of <n or 0, n of >n or 0>>

Id == 1 .. MaxClients
Conn == 1 .. MaxConn

ASSUME FifoAssumption ==
    /\ MaxClients \in Nat \ {0} /\ MaxConn \in Nat /\ MaxOps \in Nat
    /\ Plan \subseteq Id \X (Id \cup {0}) \X (Id \cup {0})

VARIABLES
    \* The shared block:
    client_pid,     \* the process of each id, 0 if the id is free
    usr_pipe_table, \* from each id to each id: is there a pipe
    usr_pipe_fd,    \* the descriptor the receiver opened, Zero if none or 0
    \* Each process:
    proc,
    pending,        \* SIGUSR2 was sent and has not been handled
    handler         \* where its user_pipe_handler is

shared == <<client_pid, usr_pipe_table, usr_pipe_fd>>
vars == <<shared, proc, pending, handler>>

\* A descriptor: the process it belongs to, and who opened the other end.  The
\* number 0, and -1 from an open that fails, are alike for all.
Zero == [of |-> 0, from |-> 0]
Failed == [of |-> 0, from |-> 1]

\* zero is what a process has as descriptor 0, and out0 whether it is stdout_fd.
NoProc == [pc |-> "none", client_id |-> 0, in |-> 0, out |-> 0, stdin |-> Zero, ops |-> 0,
           zero |-> "client", out0 |-> FALSE]
Away == [pc |-> "away", i |-> 0, fd |-> Zero]

Init ==
    /\ client_pid = [i \in Id |-> 0]
    /\ usr_pipe_table = [ids \in Id \X Id |-> FALSE]
    /\ usr_pipe_fd = [ids \in Id \X Id |-> Zero]
    /\ proc = [c \in Conn |-> NoProc]
    /\ pending = [c \in Conn |-> FALSE]
    /\ handler = [c \in Conn |-> Away]

At(c, where) == proc[c].pc = where /\ handler[c].pc = "away"
Alive(c) == proc[c].pc \notin {"none", "dead"}
me(c) == proc[c].client_id

-----------------------------------------------------------------------------

Enter(c, i) ==
    /\ proc[c].pc = "none" /\ \A d \in Conn : d < c => proc[d].pc # "none"
    /\ client_pid[i] = 0 /\ \A j \in Id : j < i => client_pid[j] # 0
    /\ client_pid' = [client_pid EXCEPT ![i] = c]
    /\ proc' = [proc EXCEPT ![c].pc = "prompt", ![c].client_id = i]
    /\ UNCHANGED <<usr_pipe_table, usr_pipe_fd, pending, handler>>

\* clear_sharemem_info clears the table both ways, and no descriptor.
Exit(c) ==
    /\ At(c, "prompt") /\ <<me(c), 0, 0>> \in Plan
    /\ client_pid' = [client_pid EXCEPT ![me(c)] = 0]
    /\ usr_pipe_table' = [ids \in Id \X Id |->
                            usr_pipe_table[ids] /\ ids[1] # me(c) /\ ids[2] # me(c)]
    /\ proc' = [proc EXCEPT ![c].pc = "dead"]
    /\ UNCHANGED <<usr_pipe_fd, pending, handler>>

\* Also a shell without its client reads what its buffer holds, or a user pipe.
Type(c, in, out) ==
    /\ At(c, "prompt") /\ proc[c].ops < MaxOps
    /\ in # 0 \/ out # 0
    /\ <<me(c), in, out>> \in Plan
    /\ proc' = [proc EXCEPT ![c].in = in, ![c].out = out, ![c].ops = @ + 1,
                            ![c].pc = IF in # 0 THEN "in" ELSE "out"]
    /\ UNCHANGED <<shared, pending, handler>>

\* getline fails, and so does every one after it: only signals are handled.
Deaf(c) ==
    /\ At(c, "prompt") /\ proc[c].zero # "client"
    /\ proc' = [proc EXCEPT ![c].pc = "deaf"]
    /\ UNCHANGED <<shared, pending, handler>>

\* Descriptor 0 after an open, which takes the lowest that is free, and after
\* stdout_fd is closed.
Lowest(c) == IF proc[c].zero = "free" THEN "used" ELSE proc[c].zero
Left(c) == IF proc[c].out0 THEN "free" ELSE proc[c].zero

\* The command is over, or its line goes on without it.
Prompt(c, zero) == [proc EXCEPT ![c].pc = "prompt", ![c].in = 0, ![c].out = 0, ![c].stdin = Zero,
                                ![c].zero = zero, ![c].out0 = FALSE]

-----------------------------------------------------------------------------
(* <n and >n.                                                              *)

InPipe(c) == <<proc[c].in, me(c)>>
OutPipe(c) == <<me(c), proc[c].out>>

\* /dev/null is opened for the command, which is not started.
InRefused(c) ==
    /\ At(c, "in")
    /\ client_pid[proc[c].in] = 0 \/ ~usr_pipe_table[InPipe(c)]
    /\ proc' = Prompt(c, Lowest(c))
    /\ UNCHANGED <<shared, pending, handler>>

InAllowed(c) ==
    /\ At(c, "in")
    /\ client_pid[proc[c].in] # 0 /\ usr_pipe_table[InPipe(c)]
    /\ proc' = [proc EXCEPT ![c].pc = "take"]
    /\ UNCHANGED <<shared, pending, handler>>

\* The standard input is the descriptor in the table, opened or not.
InTaken(c) ==
    /\ At(c, "take")
    /\ proc' = [proc EXCEPT ![c].stdin = usr_pipe_fd[InPipe(c)],
                            ![c].pc = IF proc[c].out # 0 THEN "out" ELSE "fork"]
    /\ UNCHANGED <<shared, pending, handler>>

OutRefused(c) ==
    /\ At(c, "out")
    /\ client_pid[proc[c].out] = 0 \/ usr_pipe_table[OutPipe(c)]
    /\ proc' = Prompt(c, proc[c].zero)
    /\ UNCHANGED <<shared, pending, handler>>

OutAllowed(c) ==
    /\ At(c, "out")
    /\ client_pid[proc[c].out] # 0 /\ ~usr_pipe_table[OutPipe(c)]
    /\ proc' = [proc EXCEPT ![c].pc = "mark"]
    /\ UNCHANGED <<shared, pending, handler>>

OutMarked(c) ==
    /\ At(c, "mark")
    /\ usr_pipe_table' = [usr_pipe_table EXCEPT ![OutPipe(c)] = TRUE]
    /\ proc' = [proc EXCEPT ![c].pc = "signal"]
    /\ UNCHANGED <<client_pid, usr_pipe_fd, pending, handler>>

\* Variant: the open does not wait for the receiver.
OutSignalledOnly(c) ==
    /\ At(c, "signal")
    /\ LET d == client_pid[proc[c].out]
       IN pending' = [e \in Conn |-> pending[e] \/
                         (Alive(e) /\ IF d = 0 THEN e # c ELSE e = d)]
    /\ proc' = [proc EXCEPT ![c].pc = "fork"]
    /\ UNCHANGED <<shared, handler>>

\* mkfifo and kill(pid, SIGUSR2); pid -1 is every other process.
OutSignalled(c) ==
    /\ At(c, "signal")
    /\ LET d == client_pid[proc[c].out]
       IN pending' = [e \in Conn |-> pending[e] \/
                         (Alive(e) /\ IF d = 0 THEN e # c ELSE e = d)]
    /\ proc' = [proc EXCEPT ![c].pc = "open"]
    /\ UNCHANGED <<shared, handler>>

\* The sender has met the receiver.  A handler that has made sure of the name and
\* not opened it yet finds it gone.
Unlink(c) ==
    /\ At(c, "unlink")
    /\ proc' = [proc EXCEPT ![c].pc = "fork"]
    /\ \/ UNCHANGED handler
       \/ \E d \in Conn :
             /\ handler[d].pc = "open" /\ handler[d].i = me(c) /\ proc[c].out = me(d)
             /\ handler' = [handler EXCEPT ![d].pc = "opened", ![d].fd = Failed]
    /\ UNCHANGED <<shared, pending>>

\* The process is started, and the server's process closes its stdin_fd, which
\* is 0 when the pipe was taken before it was opened; the socket is a descriptor
\* of its own.
Fork(c) ==
    /\ At(c, "fork")
    /\ proc' = IF proc[c].in = 0
               THEN Prompt(c, Left(c))
               ELSE [proc EXCEPT ![c].pc = "unmark",
                                 ![c].zero = IF proc[c].stdin = Zero THEN "free" ELSE @]
    /\ UNCHANGED <<shared, pending, handler>>

\* A pipe that was read is removed from the table.
Unmark(c) ==
    /\ At(c, "unmark")
    /\ usr_pipe_table' = [usr_pipe_table EXCEPT ![InPipe(c)] = FALSE]
    /\ proc' = [proc EXCEPT ![c].pc = "release"]
    /\ UNCHANGED <<client_pid, usr_pipe_fd, pending, handler>>

\* Variant: the descriptor is not forgotten.
ReleaseNothing(c) ==
    /\ At(c, "release")
    /\ proc' = Prompt(c, Left(c))
    /\ UNCHANGED <<shared, pending, handler>>

Release(c) ==
    /\ At(c, "release")
    /\ usr_pipe_fd' = [usr_pipe_fd EXCEPT ![InPipe(c)] = Zero]
    /\ proc' = Prompt(c, Left(c))
    /\ UNCHANGED <<client_pid, usr_pipe_table, pending, handler>>

-----------------------------------------------------------------------------
(* user_pipe_handler, and the two opens.  A signal that comes while the    *)
(* process waits in open interrupts it; the open is tried again when the   *)
(* handler has returned.                                                   *)

\* The marked pipes with a 0, also one that was opened as descriptor 0.
Wanted(c) == {i \in Id : usr_pipe_table[<<i, me(c)>>] /\ usr_pipe_fd[<<i, me(c)>>] = Zero}

\* It opens the first pipe it finds and returns.
HandlerStarts(c) ==
    /\ Alive(c) /\ pending[c] /\ handler[c].pc = "away"
    /\ pending' = [pending EXCEPT ![c] = FALSE]
    /\ \/ Wanted(c) = {} /\ UNCHANGED handler
       \/ \E i \in Wanted(c) :
             /\ \A j \in Wanted(c) : i <= j
             /\ handler' = [handler EXCEPT ![c].pc = "open", ![c].i = i]
    /\ UNCHANGED <<shared, proc>>

Fd(c, d) == IF proc[d].zero = "free" THEN Zero ELSE [of |-> d, from |-> c]

\* The sender c and the receiver d are both in open.
Meet(c, d) ==
    /\ At(c, "open") /\ handler[d].pc = "open"
    /\ handler[d].i = me(c) /\ proc[c].out = me(d)
    /\ proc' = [proc EXCEPT ![c].pc = "unlink", ![c].zero = Lowest(c), ![d].zero = Lowest(d),
                            ![c].out0 = (proc[c].zero = "free")]
    /\ handler' = [handler EXCEPT ![d].pc = "opened", ![d].fd = Fd(c, d)]
    /\ UNCHANGED <<shared, pending>>

\* The receiver opens once more a pipe whose sender has it open, under its name.
OpenAgain(c, d) ==
    /\ proc[c].pc = "unlink" /\ handler[d].pc = "open"
    /\ handler[d].i = me(c) /\ proc[c].out = me(d)
    /\ proc' = [proc EXCEPT ![d].zero = Lowest(d)]
    /\ handler' = [handler EXCEPT ![d].pc = "opened", ![d].fd = Fd(c, d)]
    /\ UNCHANGED <<shared, pending>>

\* Variant: the descriptor is entered for the pipe the other way.
HandlerReturnsSwapped(d) ==
    /\ handler[d].pc = "opened"
    /\ usr_pipe_fd' = [usr_pipe_fd EXCEPT ![<<me(d), handler[d].i>>] = handler[d].fd]
    /\ handler' = [handler EXCEPT ![d] = Away]
    /\ UNCHANGED <<client_pid, usr_pipe_table, proc, pending>>

HandlerReturns(d) ==
    /\ handler[d].pc = "opened"
    /\ usr_pipe_fd' = [usr_pipe_fd EXCEPT ![<<handler[d].i, me(d)>>] = handler[d].fd]
    /\ handler' = [handler EXCEPT ![d] = Away]
    /\ UNCHANGED <<client_pid, usr_pipe_table, proc, pending>>

-----------------------------------------------------------------------------

Step(c) ==
    \/ InRefused(c) \/ InAllowed(c) \/ InTaken(c)
    \/ OutRefused(c) \/ OutAllowed(c) \/ OutMarked(c) \/ OutSignalled(c)
    \/ Unlink(c) \/ Fork(c) \/ Unmark(c) \/ Release(c)
    \/ HandlerStarts(c) \/ HandlerReturns(c)
    \/ \E d \in Conn : Meet(c, d) \/ OpenAgain(c, d)

User(c) ==
    \/ \E i \in Id : Enter(c, i)
    \/ Exit(c) \/ Deaf(c)
    \/ \E in, out \in Id \cup {0} : Type(c, in, out)

Next == \E c \in Conn : User(c) \/ Step(c)

(* Every process is scheduled; users need not come, type or leave.         *)
Spec == Init /\ [][Next]_vars /\ \A c \in Conn : WF_vars(Step(c))

-----------------------------------------------------------------------------
(* Properties.                                                             *)

Descriptor == [of : Conn, from : Conn] \cup {Zero, Failed}
Process == [pc : {"none", "prompt", "in", "take", "out", "mark", "signal", "open", "unlink",
                 "fork", "unmark", "release", "deaf", "dead"},
            client_id : Id \cup {0}, in : Id \cup {0}, out : Id \cup {0},
            stdin : Descriptor, ops : Nat, zero : {"client", "free", "used"}, out0 : BOOLEAN]

\* Every variable has its type, and a process has something in hand only in the
\* middle of a command.
TypeOK ==
    /\ client_pid \in [Id -> Conn \cup {0}]
    /\ usr_pipe_table \in [Id \X Id -> BOOLEAN]
    /\ usr_pipe_fd \in [Id \X Id -> Descriptor]
    /\ proc \in [Conn -> Process]
    /\ pending \in [Conn -> BOOLEAN]
    /\ handler \in [Conn -> [pc : {"away", "open", "opened"}, i : Id \cup {0}, fd : Descriptor]]
    /\ \A c \in Conn :
          /\ proc[c].pc \in {"in", "take", "unmark", "release"} => proc[c].in \in Id
          /\ proc[c].pc \in {"out", "mark", "signal", "open", "unlink"} => proc[c].out \in Id
          /\ handler[c].pc # "away" => handler[c].i \in Id /\ Alive(c)

\* As long as nobody has left, the descriptor kept for a pipe belongs to the
\* receiver and its other end was opened by the sender, whatever handlers ran;
\* -1 is kept only by one who has lost its own standard input.
FdsMatch ==
    (\A c \in Conn : proc[c].pc # "dead") =>
        \A ids \in Id \X Id : usr_pipe_fd[ids] # Zero =>
            \/ usr_pipe_fd[ids] = [of |-> client_pid[ids[2]], from |-> client_pid[ids[1]]]
            \/ usr_pipe_fd[ids] = Failed /\ proc[client_pid[ids[2]]].zero # "client"

\* When a sender has its command started, the receiver can read the pipe, unless
\* it has closed its standard input: its handler has opened the pipe, and stores
\* the descriptor, which is neither 0 nor -1, before its shell goes on.
AnnouncedReadable ==
    \A c, d \in Conn :
        LET ids == <<me(c), me(d)>>
        IN Alive(c) /\ Alive(d) /\ proc[d].zero = "client" /\ usr_pipe_table[ids]
           /\ ~(proc[c].pc \in {"signal", "open"} /\ proc[c].out = me(d))
           => \/ usr_pipe_fd[ids] \notin {Zero, Failed}
              \/ handler[d].pc = "opened" /\ handler[d].i = me(c) /\ handler[d].fd \notin {Zero, Failed}

Sending(c) == proc[c].pc \in {"mark", "signal", "open"}
Receiver(c) == client_pid[proc[c].out]

\* A sender waits for the receiver until its handler opens the pipe, and a handler
\* that opens a pipe waits for the sender.
Opening(d, c) == handler[d].pc = "open" /\ handler[d].i = me(c)
WaitsFor(c) == {d \in Conn : \/ Sending(c) /\ d = Receiver(c) /\ ~Opening(d, c)
                             \/ Alive(d) /\ Opening(c, d)}

\* What a sender needs.  The receiver has not left.  The table keeps no descriptor
\* of one who has left, and the receiver is not about to forget that of a pipe from
\* the sender.  The signal is not merged with that of one the handler has not come to.
\* The sender is in no group of processes each of which waits for one in the group
\* or has lost its own standard input: one that took a <n too early has removed the
\* mark, or opens as 0 what it then takes for not opened.
Apart(c) ==
    Sending(c) =>
        /\ Receiver(c) # 0
        /\ usr_pipe_fd[OutPipe(c)] \in {Zero, [of |-> Receiver(c), from |-> c]}
        /\ ~(proc[Receiver(c)].pc = "release" /\ proc[Receiver(c)].in = me(c))
        /\ pending[Receiver(c)] =>
              Wanted(Receiver(c)) \subseteq {me(c), handler[Receiver(c)].i}
        /\ \A S \in SUBSET Conn : c \in S =>
              \E e \in S : proc[e].zero = "client" /\ WaitsFor(e) \cap S = {}

\* A sender waits for the receiver's handler only until it has run (spec 4.4 and
\* 5.6): its prompt comes back, also when the receiver is itself waiting to send,
\* and whatever other users do to each other.
SendersGoOn ==
    \A c \in Conn : []Apart(c) => <>[](proc[c].pc # "open")
=============================================================================
