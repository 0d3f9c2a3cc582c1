------------------------------- MODULE NpMulti -------------------------------
(***************************************************************************)
(* NP_HW2/np_multi_proc.cpp: a process for every client, and a block of    *)
(* memory that they share with the process that accepts.  This module is   *)
(* the roster and the messages: login, exit, name, tell and yell, with the *)
(* signal SIGUSR1 that tells a process to look for messages.  User pipes   *)
(* are NpFifo.                                                             *)
(*                                                                         *)
(* Nothing is locked (the lock member of the block is never taken), so a   *)
(* step of this module is one access to the block or one system call.  A   *)
(* process is the number of its connection; pids are not used again, since *)
(* nobody waits for the dead children.  Values of the block that the code  *)
(* writes as -1, "NULL" are 0 here.                                        *)
(***************************************************************************)
EXTENDS Naturals, FiniteSets

CONSTANTS
    MaxClients, \* 30 in the code
    MaxConn,    \* bound on the connections of a run
    MaxOps,     \* bound on the commands of a process
    Name,       \* names that users choose
    NoName,     \* "(no name)"
    Ops         \* the commands users type: a subset of Commands

Commands == {"tell", "yell", "name", "exit"}

ASSUME MultiAssumption ==
    /\ MaxClients \in Nat \ {0} /\ MaxConn \in Nat /\ MaxOps \in Nat
    /\ NoName \notin Name /\ Ops \subseteq Commands

Id == 1 .. MaxClients
Conn == 1 .. MaxConn
Parent == MaxConn + 1
Proc == Conn \cup {Parent}

VARIABLES
    \* The shared block:
    client_pid,    \* the process of each id, 0 if the id is free
    client_name,
    ip_port_table, \* the connection whose address is shown for each id
    tell_table,    \* from each id to each id: a message, 0 if none
    \* Each process:
    proc,          \* its copy of client_id and where its program is
    pending,       \* SIGUSR1 was sent and has not been handled
    scan,          \* the id its tell_handler looks at, 0 if it is not in it
    printed,       \* the handler printed this cell and has yet to clear it
    \* History:
    shown          \* the messages printed, with the process that printed them

shared == <<client_pid, client_name, ip_port_table, tell_table>>
vars == <<shared, proc, pending, scan, printed, shown>>

Nothing == [from |-> 0, nth |-> 0, to |-> 0]
NewProc == [pc |-> "none", client_id |-> 0, cmd |-> "none", k |-> 0, name |-> NoName,
            msg |-> Nothing, ops |-> 0, raced |-> FALSE]

Init ==
    /\ client_pid = [i \in Id |-> 0]
    /\ client_name = [i \in Id |-> NoName]
    /\ ip_port_table = [i \in Id |-> 0]
    /\ tell_table = [ids \in Id \X Id |-> Nothing]
    /\ proc = [p \in Proc |-> IF p = Parent THEN [NewProc EXCEPT !.pc = "accept"] ELSE NewProc]
    /\ pending = [p \in Proc |-> FALSE]
    /\ scan = [p \in Proc |-> 0]
    /\ printed = [p \in Proc |-> FALSE]
    /\ shown = {}

\* A process runs its program when it is not in its signal handler.
At(p, where) == proc[p].pc = where /\ scan[p] = 0
Alive(p) == proc[p].pc \notin {"none", "dead"}
me(p) == proc[p].client_id

-----------------------------------------------------------------------------
(* The loop of yell over the ids, which tell runs for one id: look at the  *)
(* pid, write the message, and send the signal to the pid, read again.     *)

\* The loop ends after the last id; exit goes on to give up its place, and the
\* parent to choose an id for the connection.
AfterId(p) == CASE proc[p].cmd # "tell" /\ proc[p].k < MaxClients -> "check"
              [] proc[p].cmd = "exit"  -> "clear_name"
              [] proc[p].cmd = "login" -> "choose"
              [] OTHER                 -> "prompt"
Advance(p) ==
    [proc EXCEPT ![p].pc = AfterId(p), ![p].msg = Nothing,
                 ![p].k = IF AfterId(p) = "check" THEN @ + 1 ELSE 0,
                 ![p].cmd = IF AfterId(p) = "check" THEN @ ELSE "none"]

SkipAbsent(p) ==
    /\ At(p, "check") /\ client_pid[proc[p].k] = 0
    /\ proc' = Advance(p)
    /\ UNCHANGED <<shared, pending, scan, printed, shown>>

FindPresent(p) ==
    /\ At(p, "check") /\ client_pid[proc[p].k] # 0
    /\ proc' = [proc EXCEPT ![p].pc = "write", ![p].msg =
           [from |-> p, nth |-> proc[p].ops, to |-> client_pid[proc[p].k]]]
    /\ UNCHANGED <<shared, pending, scan, printed, shown>>

\* The cell is overwritten, whatever it holds.
WriteMessage(p) ==
    /\ At(p, "write")
    /\ tell_table' = [tell_table EXCEPT ![<<me(p), proc[p].k>>] = proc[p].msg]
    /\ proc' = [proc EXCEPT ![p].pc = "kill"]
    /\ UNCHANGED <<client_pid, client_name, ip_port_table, pending, scan, printed, shown>>

\* kill(pid, SIGUSR1), where pid -1 is every other process.  A process that has not
\* installed its handler, as the parent never does, is killed by the signal.
Handles(q) == q # Parent /\ proc[q].pc # "born"

\* Variant: the pid of the id below is read.
TargetBelow(p) == client_pid[IF proc[p].k = 1 THEN MaxClients ELSE proc[p].k - 1]

\* The process to signal is read from the block a second time.
Target(p) == client_pid[proc[p].k]


Signal(p) ==
    /\ At(p, "kill")
    /\ LET q == Target(p)
           hit == {r \in Proc : Alive(r) /\ IF q = 0 THEN r # p ELSE r = q}
       IN /\ pending' = [r \in Proc |-> pending[r] \/ (r \in hit /\ Handles(r))]
          /\ proc' = [r \in Proc |-> IF r \in hit /\ ~Handles(r)
                                     THEN [proc[r] EXCEPT !.pc = "dead"]
                                     ELSE Advance(p)[r]]
    /\ UNCHANGED <<shared, scan, printed, shown>>

-----------------------------------------------------------------------------
(* tell_handler.  It runs between any two steps of its process and looks   *)
(* at the cells one after the other; it prints a message and clears the    *)
(* cell after.                                                             *)

HandlerStarts(p) ==
    /\ Alive(p) /\ pending[p] /\ scan[p] = 0
    /\ pending' = [pending EXCEPT ![p] = FALSE]
    /\ scan' = [scan EXCEPT ![p] = 1]
    /\ UNCHANGED <<shared, proc, printed, shown>>

Inbox(p) == <<scan[p], me(p)>>
NextScan(p) == [scan EXCEPT ![p] = IF @ = MaxClients THEN 0 ELSE @ + 1]

HandlerSkips(p) ==
    /\ Alive(p) /\ scan[p] # 0 /\ ~printed[p] /\ tell_table[Inbox(p)] = Nothing
    /\ scan' = NextScan(p)
    /\ UNCHANGED <<shared, proc, pending, printed, shown>>

HandlerPrints(p) ==
    /\ Alive(p) /\ scan[p] # 0 /\ ~printed[p] /\ tell_table[Inbox(p)] # Nothing
    /\ shown' = shown \cup {[msg |-> tell_table[Inbox(p)], by |-> p]}
    /\ printed' = [printed EXCEPT ![p] = TRUE]
    /\ UNCHANGED <<shared, proc, pending, scan>>

\* Variant: the cell is not cleared.
HandlerLeaves(p) ==
    /\ Alive(p) /\ printed[p]
    /\ printed' = [printed EXCEPT ![p] = FALSE]
    /\ scan' = NextScan(p)
    /\ UNCHANGED <<shared, proc, pending, shown>>

HandlerClears(p) ==
    /\ Alive(p) /\ printed[p]
    /\ tell_table' = [tell_table EXCEPT ![Inbox(p)] = Nothing]
    /\ printed' = [printed EXCEPT ![p] = FALSE]
    /\ scan' = NextScan(p)
    /\ UNCHANGED <<client_pid, client_name, ip_port_table, proc, pending, shown>>

Handler(p) == HandlerStarts(p) \/ HandlerSkips(p) \/ HandlerPrints(p) \/ HandlerClears(p)

-----------------------------------------------------------------------------
(* The parent: accept, tell everyone in the name of its last client_id,    *)
(* take the first free id, fork, and enter the child's pid.                *)

Accept ==
    /\ At(Parent, "accept") /\ proc[Parent].ops < MaxConn
    /\ proc' = [proc EXCEPT ![Parent].pc = "check", ![Parent].cmd = "login",
                            ![Parent].k = 1, ![Parent].ops = @ + 1]
    /\ UNCHANGED <<shared, pending, scan, printed, shown>>

\* With no id free the code would write before the tables; users are told that
\* at most 30 may be online.
Fork(i) ==
    /\ At(Parent, "choose")
    /\ client_pid[i] = 0 /\ \A j \in Id : j < i => client_pid[j] # 0
    /\ LET c == proc[Parent].ops
       IN /\ ip_port_table' = [ip_port_table EXCEPT ![i] = c]
          /\ proc' = [proc EXCEPT
                 ![Parent].pc = "set_pid", ![Parent].client_id = i,
                 ![c] = [NewProc EXCEPT !.pc = "born", !.client_id = i]]
    /\ UNCHANGED <<client_pid, client_name, tell_table, pending, scan, printed, shown>>

SetPid ==
    /\ At(Parent, "set_pid")
    /\ client_pid' = [client_pid EXCEPT ![me(Parent)] = proc[Parent].ops]
    /\ proc' = [proc EXCEPT ![Parent].pc = "accept"]
    /\ UNCHANGED <<client_name, ip_port_table, tell_table, pending, scan, printed, shown>>

-----------------------------------------------------------------------------
(* A child: it installs its handlers and then runs what its user types.    *)

InstallHandlers(p) ==
    /\ At(p, "born")
    /\ proc' = [proc EXCEPT ![p].pc = "prompt"]
    /\ UNCHANGED <<shared, pending, scan, printed, shown>>

Types(p, op) == At(p, "prompt") /\ p # Parent /\ op \in Ops /\ proc[p].ops < MaxOps

Begin(p, op, to) ==
    /\ Types(p, op)
    /\ proc' = [proc EXCEPT ![p].pc = "check", ![p].cmd = op, ![p].k = to, ![p].ops = @ + 1]
    /\ UNCHANGED <<shared, pending, scan, printed, shown>>

Tell(p, i) == Begin(p, "tell", i)
Yell(p) == Begin(p, "yell", 1)

\* Variant: the id is given up before the others are told.
ExitFreeingFirst(p) ==
    /\ Types(p, "exit")
    /\ proc' = [proc EXCEPT ![p].pc = "check", ![p].cmd = "exit", ![p].k = 1, ![p].ops = @ + 1]
    /\ client_pid' = [client_pid EXCEPT ![me(p)] = 0]
    /\ UNCHANGED <<client_name, ip_port_table, tell_table, pending, scan, printed, shown>>

Exit(p) == Begin(p, "exit", 1)

\* Variant: the last id is left out.
UsedBelow(n) == \E i \in Id : i < MaxClients /\ client_pid[i] # 0 /\ client_name[i] = n

\* name looks the names up, and writes its own if nobody has it.
Used(n) == \E i \in Id : client_pid[i] # 0 /\ client_name[i] = n

\* History: a name looked up before it was written, or in the line of an id whose
\* pid has yet to be entered, was a race.
Unentered(n) == \E i \in Id : client_pid[i] = 0 /\ client_name[i] = n

CheckName(p, n) ==
    /\ Types(p, "name")
    /\ proc' = [proc EXCEPT ![p].ops = @ + 1,
                            ![p].raced = @ \/ Unentered(n),
                            ![p].name = IF Used(n) THEN NoName ELSE n,
                            ![p].pc = IF Used(n) THEN "prompt" ELSE "set_name"]
    /\ UNCHANGED <<shared, pending, scan, printed, shown>>

SetName(p) ==
    /\ At(p, "set_name")
    /\ client_name' = [client_name EXCEPT ![me(p)] = proc[p].name]
    /\ proc' = [q \in Proc |->
           IF q = p THEN [proc[p] EXCEPT !.pc = "check", !.cmd = "name", !.k = 1, !.name = NoName]
           ELSE [proc[q] EXCEPT !.raced = @ \/ (proc[q].pc = "set_name" /\ proc[q].name = proc[p].name)]]
    /\ UNCHANGED <<client_pid, ip_port_table, tell_table, pending, scan, printed, shown>>

\* clear_sharemem_info, and exit.  The id is free before the rest is cleared.
ClearName(p) ==
    /\ At(p, "clear_name")
    /\ client_name' = [client_name EXCEPT ![me(p)] = NoName]
    /\ proc' = [proc EXCEPT ![p].pc = "clear_pid"]
    /\ UNCHANGED <<client_pid, ip_port_table, tell_table, pending, scan, printed, shown>>

ClearPid(p) ==
    /\ At(p, "clear_pid")
    /\ client_pid' = [client_pid EXCEPT ![me(p)] = 0]
    /\ proc' = [proc EXCEPT ![p].pc = "clear_rest"]
    /\ UNCHANGED <<client_name, ip_port_table, tell_table, pending, scan, printed, shown>>

ClearRest(p) ==
    /\ At(p, "clear_rest")
    /\ ip_port_table' = [ip_port_table EXCEPT ![me(p)] = 0]
    /\ tell_table' = [ids \in Id \X Id |-> IF ids[2] = me(p) THEN Nothing ELSE tell_table[ids]]
    /\ proc' = [proc EXCEPT ![p].pc = "dead"]
    /\ UNCHANGED <<client_pid, client_name, pending, scan, printed, shown>>

-----------------------------------------------------------------------------

User(p) ==
    \/ \E i \in Id : Tell(p, i)
    \/ Yell(p)
    \/ \E n \in Name : CheckName(p, n)
    \/ Exit(p)

\* What a process does without waiting for anyone.
Step(p) ==
    \/ SkipAbsent(p) \/ FindPresent(p) \/ WriteMessage(p) \/ Signal(p)
    \/ Handler(p)
    \/ InstallHandlers(p)
    \/ SetName(p)
    \/ ClearName(p) \/ ClearPid(p) \/ ClearRest(p)

ParentStep == (\E i \in Id : Fork(i)) \/ SetPid \/ Step(Parent)

Next ==
    \/ Accept
    \/ ParentStep
    \/ \E p \in Conn : User(p) \/ Step(p)

(* Every process is scheduled; connections and commands need not come.     *)
Spec == Init /\ [][Next]_vars /\ WF_vars(ParentStep) /\ \A p \in Conn : WF_vars(Step(p))

-----------------------------------------------------------------------------
(* Properties.                                                             *)

Message == [from : Proc \cup {0}, nth : Nat, to : Conn \cup {0}]
Where == {"none", "accept", "choose", "set_pid", "born", "prompt", "check", "write",
          "kill", "set_name", "clear_name", "clear_pid", "clear_rest", "dead"}
Process == [pc : Where, client_id : Id \cup {0}, cmd : Commands \cup {"none", "login"},
            k : Nat, name : Name \cup {NoName}, msg : Message, ops : Nat, raced : BOOLEAN]

\* Every variable has its type, and a message goes from an id to an id: the
\* parent has a client_id before there is anyone for it to tell.
TypeOK ==
    /\ client_pid \in [Id -> Conn \cup {0}]
    /\ client_name \in [Id -> Name \cup {NoName}]
    /\ ip_port_table \in [Id -> Conn \cup {0}]
    /\ tell_table \in [Id \X Id -> Message]
    /\ proc \in [Proc -> Process]
    /\ pending \in [Proc -> BOOLEAN]
    /\ scan \in [Proc -> Id \cup {0}]
    /\ printed \in [Proc -> BOOLEAN]
    /\ shown \subseteq [msg : Message, by : Proc]
    /\ \A p \in Proc : proc[p].pc \in {"check", "write", "kill"} => proc[p].k \in Id
    /\ \A p \in Proc : proc[p].pc \in {"write", "kill"} => proc[p].client_id \in Id

\* The id of a process is its own until it gives it up, but for the moment in
\* which the parent has yet to enter its pid, and may have been killed.
SlotOwned ==
    \A c \in Conn : Alive(c) /\ proc[c].pc # "clear_rest" =>
        \/ client_pid[me(c)] = c
        \/ client_pid[me(c)] = 0 /\ proc[Parent].pc \in {"set_pid", "dead"} /\ proc[Parent].ops = c

\* A message that was printed is not printed again: it is in no cell any more,
\* unless its reader is about to clear that cell.
ShownOnce ==
    \A s \in shown, ids \in Id \X Id :
        s.msg = tell_table[ids] => printed[s.by] /\ Inbox(s.by) = ids


\* No two users have the same name (spec 4.2), unless one of them was looking the
\* names up while the other wrote its own, or had no pid in its line yet.
NamesUnique ==
    \A i, j \in Id :
        i # j /\ client_pid[i] # 0 /\ client_pid[j] # 0 /\ client_name[i] = client_name[j] =>
            \/ client_name[i] = NoName
            \/ proc[client_pid[i]].raced \/ proc[client_pid[j]].raced

\* The server does not die as long as nobody leaves: the pid -1 that a writer may
\* read for its signal, which then goes to every process and kills the parent, is
\* only ever read after somebody gave up an id.
ParentOutlives ==
    proc[Parent].pc = "dead" =>
        \E c \in Conn : proc[c].pc \in {"clear_rest", "dead"} /\ proc[c].ops > 0
=============================================================================
