---------------------------- MODULE NpMultiProofs ----------------------------
(***************************************************************************)
(* What holds of the shared block of the multi-process server for every    *)
(* number of users and whatever they type, although nothing is locked: ids *)
(* are owned, a message is printed once, names are told apart but for the  *)
(* races that the code leaves, and the parent outlives its first users.    *)
(***************************************************************************)
EXTENDS NpMulti, TLAPS

\* Where the parent and a child may be.
ParentAt == {"accept", "check", "write", "kill", "choose", "set_pid", "dead"}
ChildAt == Where \ {"accept", "choose", "set_pid"}

\* A process in its loop over the ids, the child that has an id and has not given
\* it up, and the one that may have written its name.
InLoop(p) == proc[p].pc \in {"check", "write", "kill"}
Holds(c) == proc[c].pc \notin {"none", "dead", "clear_rest"}
Named(c) == Holds(c) /\ proc[c].pc \notin {"born", "clear_pid"}
Forked(c) == proc[c].pc # "none"

\* What the programs of the processes allow.
PlacesInv ==
    /\ proc[Parent].pc \in ParentAt /\ proc[Parent].cmd \in {"none", "login"}
    /\ InLoop(Parent) => proc[Parent].cmd = "login"
    /\ \A c \in Conn :
          /\ proc[c].pc \in ChildAt /\ proc[c].cmd # "login"
          /\ Forked(c) => me(c) \in Id
          /\ InLoop(c) => proc[c].cmd # "none"
          /\ proc[c].cmd = "exit" \/ proc[c].pc \in {"clear_name", "clear_pid", "clear_rest"} =>
                proc[c].ops > 0
          /\ proc[c].pc = "set_name" => proc[c].name \in Name

\* The parent forks the connections in their order, after its loop over the ids.
ForksInv ==
    /\ proc[Parent].ops <= MaxConn
    /\ \A c \in Conn : c > proc[Parent].ops => ~Forked(c)
    /\ InLoop(Parent) \/ proc[Parent].pc = "choose" =>
          proc[Parent].ops \in Conn /\ ~Forked(proc[Parent].ops)
    /\ proc[Parent].pc = "set_pid" =>
          /\ proc[Parent].ops \in Conn /\ Forked(proc[Parent].ops)
          /\ me(Parent) \in Id /\ me(proc[Parent].ops) = me(Parent)
          /\ client_pid[me(Parent)] = 0

\* Only a child that has installed its handler handles a signal.
HandlerInv ==
    \A p \in Proc :
        /\ pending[p] => p # Parent /\ proc[p].pc \notin {"none", "born"}
        /\ scan[p] # 0 => p # Parent /\ Alive(p) /\ proc[p].pc # "born"
        /\ printed[p] => scan[p] # 0

\* A pid is entered for the id of its process, and then the parent has an id.
PidsInv ==
    /\ SlotOwned
    /\ \A i \in Id : client_pid[i] # 0 =>
          Forked(client_pid[i]) /\ me(client_pid[i]) = i /\ me(Parent) \in Id

\* A name is in the line of a process that runs, two lines with one name are a race,
\* and a process that is about to write a name has found it nowhere.
NamesInv ==
    /\ \A i \in Id : client_name[i] # NoName => \E c \in Conn : Named(c) /\ me(c) = i
    /\ \A c, d \in Conn :
          c # d /\ Holds(c) /\ Holds(d) /\ client_name[me(c)] = client_name[me(d)] =>
              client_name[me(c)] = NoName \/ proc[c].raced \/ proc[d].raced
    /\ \A c \in Conn : proc[c].pc = "set_name" /\ ~proc[c].raced =>
          \A i \in Id : client_name[i] # proc[c].name

\* The messages that are in a cell or have been printed.
Written == {m \in Message : m # Nothing /\ \/ \E ids \in Id \X Id : tell_table[ids] = m
                                           \/ \E s \in shown : s.msg = m}

\* A message names its writer, a command of it and the process it was written for;
\* of the command it is running a process has written for the ids before k only.
Told(m) ==
    /\ m.from \in Proc /\ m.to \in Conn /\ Forked(m.from) /\ Forked(m.to)
    /\ m.nth <= proc[m.from].ops
Earlier(m) ==
    m.nth = proc[m.from].ops =>
        /\ proc[m.from].pc \in {"check", "write"} =>
               proc[m.from].cmd # "tell" /\ me(m.to) < proc[m.from].k
        /\ proc[m.from].pc = "kill" => me(m.to) <= proc[m.from].k
        /\ proc[m.from].pc # "set_name"

\* The message that a process is writing is for the process at k.
Writing(p) ==
    proc[p].pc \in {"write", "kill"} =>
        LET m == proc[p].msg
        IN  /\ m.from = p /\ m.nth = proc[p].ops /\ m.to \in Conn
            /\ Forked(m.to) /\ me(m.to) = proc[p].k

\* A message is in one cell, and in none after it was printed.
CellsInv ==
    /\ \A a, b \in Id \X Id : tell_table[a] = tell_table[b] /\ tell_table[a] # Nothing => a = b
    /\ \A s \in shown : s.msg # Nothing
    /\ ShownOnce

MessagesInv ==
    /\ \A m \in Written : Told(m) /\ Earlier(m)
    /\ \A p \in Proc : Writing(p)
    /\ CellsInv

\* A pid that was read is still there when it is read again, or its process has
\* given up its id.
Gone(c) == proc[c].pc \in {"clear_rest", "dead"} /\ proc[c].ops > 0
GoneInv ==
    /\ \A p \in Proc : proc[p].pc \in {"write", "kill"} =>
          client_pid[proc[p].k] = proc[p].msg.to \/ Gone(proc[p].msg.to)
    /\ ParentOutlives

IInv ==
    /\ TypeOK /\ PlacesInv /\ ForksInv /\ HandlerInv
    /\ PidsInv /\ NamesInv /\ MessagesInv /\ GoneInv

-----------------------------------------------------------------------------
(* Types.                                                                  *)

\* The fields of a process.
LEMMA ProcessFields ==
    ASSUME NEW r \in Process
    PROVE  /\ r.pc \in Where /\ r.client_id \in Id \cup {0} /\ r.k \in Nat /\ r.ops \in Nat
           /\ r.cmd \in Commands \cup {"none", "login"} /\ r.name \in Name \cup {NoName}
           /\ r.msg \in Message /\ r.raced \in BOOLEAN
BY DEF Process

\* A process with another place and loop.
Goes(r, w, m, n, c) == [r EXCEPT !.pc = w, !.msg = m, !.k = n, !.cmd = c]

LEMMA ProcessGoes ==
    ASSUME NEW r \in Process, NEW w \in Where, NEW c \in Commands \cup {"none", "login"},
           NEW m \in Message, NEW n \in Nat
    PROVE  LET q == Goes(r, w, m, n, c)
           IN  /\ q \in Process /\ q.pc = w /\ q.msg = m /\ q.k = n /\ q.cmd = c
               /\ q.client_id = r.client_id /\ q.name = r.name /\ q.ops = r.ops
               /\ q.raced = r.raced
BY DEF Process, Goes

LEMMA AdvanceGoes ==
    ASSUME TypeOK, NEW p \in Proc, InLoop(p)
    PROVE  LET q == Advance(p)[p]
           IN  /\ Advance(p) \in [Proc -> Process]
               /\ \A r \in Proc : r # p => Advance(p)[r] = proc[r]
               /\ q.client_id = me(p) /\ q.name = proc[p].name /\ q.ops = proc[p].ops
               /\ q.raced = proc[p].raced /\ q.msg = Nothing /\ q.pc = AfterId(p)
               /\ IF AfterId(p) = "check" THEN q.k = proc[p].k + 1 /\ q.cmd = proc[p].cmd
                  ELSE q.k = 0 /\ q.cmd = "none"
<1>1. proc \in [Proc -> Process] /\ proc[p] \in Process
  BY DEF TypeOK
<1>2. AfterId(p) \in Where
  BY DEF AfterId, Where
<1>3. Nothing \in Message
  BY DEF Nothing, Message
<1>4. proc[p].k + 1 \in Nat /\ proc[p].cmd \in Commands \cup {"none", "login"}
  BY <1>1, ProcessFields
<1> DEFINE n == IF AfterId(p) = "check" THEN proc[p].k + 1 ELSE 0
           c == IF AfterId(p) = "check" THEN proc[p].cmd ELSE "none"
           q == Goes(proc[p], AfterId(p), Nothing, n, c)
<1>5. Advance(p) = [proc EXCEPT ![p] = q]
  BY <1>1 DEF Advance, Goes
<1>6. n \in Nat /\ c \in Commands \cup {"none", "login"}
  BY <1>4
<1> HIDE DEF n, c
<1>7. /\ q \in Process /\ q.pc = AfterId(p) /\ q.msg = Nothing /\ q.k = n /\ q.cmd = c
      /\ q.client_id = proc[p].client_id /\ q.name = proc[p].name /\ q.ops = proc[p].ops
      /\ q.raced = proc[p].raced
  BY <1>1, <1>2, <1>3, <1>6, ProcessGoes
<1> HIDE DEF q
<1> QED
  BY <1>1, <1>5, <1>7 DEF me, n, c

\* The processes after p has become q, and after p has moved.
BecomesAt(p, q) ==
    /\ proc' \in [Proc -> Process] /\ proc'[p] = q
    /\ \A r \in Proc : r # p => proc'[r] = proc[r]
SameBut(q, r) ==
    /\ q.client_id = r.client_id /\ q.cmd = r.cmd /\ q.k = r.k /\ q.name = r.name
    /\ q.msg = r.msg /\ q.ops = r.ops /\ q.raced = r.raced
MovesTo(p, w) == BecomesAt(p, proc'[p]) /\ proc'[p].pc = w /\ SameBut(proc'[p], proc[p])

LEMMA ProcessMoves ==
    ASSUME NEW r \in Process, NEW w \in Where
    PROVE  LET q == [r EXCEPT !.pc = w]
           IN  q \in Process /\ q.pc = w /\ SameBut(q, r)
BY DEF Process, SameBut

LEMMA Moves ==
    ASSUME TypeOK, NEW p \in Proc, NEW w \in Where, proc' = [proc EXCEPT ![p].pc = w]
    PROVE  MovesTo(p, w)
<1>1. proc \in [Proc -> Process] /\ proc[p] \in Process
  BY DEF TypeOK
<1> DEFINE q == [proc[p] EXCEPT !.pc = w]
<1>2. q \in Process /\ q.pc = w /\ SameBut(q, proc[p])
  BY <1>1, ProcessMoves
<1>3. proc' = [proc EXCEPT ![p] = q]
  BY <1>1
<1> HIDE DEF q
<1> QED
  BY <1>1, <1>2, <1>3 DEF MovesTo, BecomesAt

\* Which steps only move their process.
LEMMA StepsThatMove ==
    ASSUME TypeOK, NEW p \in Conn
    PROVE  /\ InstallHandlers(p) => proc[p].pc = "born" /\ MovesTo(p, "prompt")
           /\ ClearName(p) => proc[p].pc = "clear_name" /\ MovesTo(p, "clear_pid")
           /\ ClearPid(p) => proc[p].pc = "clear_pid" /\ MovesTo(p, "clear_rest")
           /\ ClearRest(p) => proc[p].pc = "clear_rest" /\ MovesTo(p, "dead")
<1>1. p \in Proc /\ {"prompt", "clear_pid", "clear_rest", "dead"} \subseteq Where
  BY DEF Proc, Where
<1> QED
  BY <1>1, Moves DEF InstallHandlers, ClearName, ClearPid, ClearRest, At

LEMMA WriteMoves ==
    ASSUME TypeOK, NEW p \in Proc, WriteMessage(p)
    PROVE  proc[p].pc = "write" /\ MovesTo(p, "kill")
<1>1. "kill" \in Where
  BY DEF Where
<1> QED
  BY <1>1, Moves DEF WriteMessage, At

LEMMA SetPidMoves ==
    ASSUME TypeOK, SetPid
    PROVE  proc[Parent].pc = "set_pid" /\ MovesTo(Parent, "accept")
<1>1. Parent \in Proc /\ "accept" \in Where
  BY DEF Proc, Where
<1> QED
  BY <1>1, Moves DEF SetPid, At

\* A command begins.
Started(r, c, n, o) == [r EXCEPT !.pc = "check", !.cmd = c, !.k = n, !.ops = o]

LEMMA ProcessStarts ==
    ASSUME NEW r \in Process, NEW c \in Commands \cup {"none", "login"}, NEW n \in Nat,
           NEW o \in Nat
    PROVE  LET q == Started(r, c, n, o)
           IN  /\ q \in Process /\ q.pc = "check" /\ q.cmd = c /\ q.k = n /\ q.ops = o
               /\ q.client_id = r.client_id /\ q.name = r.name /\ q.msg = r.msg
               /\ q.raced = r.raced
<1>1. "check" \in Where
  BY DEF Where
<1> QED
  BY <1>1 DEF Process, Started

\* The command c of p begins at n.
BeginsAt(p, c, n) ==
    /\ BecomesAt(p, proc'[p]) /\ proc'[p].pc = "check" /\ proc'[p].cmd = c
    /\ proc'[p].k = n /\ proc'[p].ops = proc[p].ops + 1
    /\ proc'[p].client_id = proc[p].client_id /\ proc'[p].name = proc[p].name
    /\ proc'[p].msg = proc[p].msg /\ proc'[p].raced = proc[p].raced

LEMMA Begins ==
    ASSUME TypeOK, NEW p \in Proc, NEW c \in Commands \cup {"login"}, NEW n \in Nat,
           proc' = [proc EXCEPT ![p].pc = "check", ![p].cmd = c, ![p].k = n, ![p].ops = @ + 1]
    PROVE  BeginsAt(p, c, n)
<1>1. proc \in [Proc -> Process] /\ proc[p] \in Process /\ proc[p].ops + 1 \in Nat
  BY ProcessFields DEF TypeOK
<1> DEFINE o == proc[p].ops + 1
           q == Started(proc[p], c, n, o)
<1>2. proc' = [proc EXCEPT ![p] = q]
  BY <1>1 DEF Started
<1> HIDE DEF o
<1>3. /\ q \in Process /\ q.pc = "check" /\ q.cmd = c /\ q.k = n /\ q.ops = o
      /\ q.client_id = proc[p].client_id /\ q.name = proc[p].name /\ q.msg = proc[p].msg
      /\ q.raced = proc[p].raced
  BY <1>1, ProcessStarts DEF o
<1> HIDE DEF q
<1>4. proc'[p] = q /\ proc' \in [Proc -> Process] /\ \A r \in Proc : r # p => proc'[r] = proc[r]
  BY ONLY <1>1, <1>2, <1>3
<1> QED
  BY <1>3, <1>4 DEF BeginsAt, BecomesAt, o

LEMMA AcceptBegins ==
    ASSUME TypeOK, Accept
    PROVE  BeginsAt(Parent, "login", 1) /\ proc[Parent].pc = "accept"
<1>1. Parent \in Proc
  BY DEF Proc
<1> QED
  BY <1>1, Begins DEF Accept, At

LEMMA UserBegins ==
    ASSUME TypeOK, NEW p \in Conn
    PROVE  /\ \A i \in Id : Tell(p, i) => Types(p, "tell") /\ BeginsAt(p, "tell", i)
           /\ Yell(p) => Types(p, "yell") /\ BeginsAt(p, "yell", 1)
           /\ Exit(p) => Types(p, "exit") /\ BeginsAt(p, "exit", 1)
<1>1. p \in Proc /\ {"tell", "yell", "exit"} \subseteq Commands \cup {"login"} /\ Id \subseteq Nat
  BY DEF Proc, Commands, Id
<1> QED
  BY <1>1, Begins DEF Tell, Yell, Exit, Begin

\* A message is made up for the process at k.
Wrote(r, m) == [r EXCEPT !.pc = "write", !.msg = m]

LEMMA ProcessWrites ==
    ASSUME NEW r \in Process, NEW m \in Message
    PROVE  LET q == Wrote(r, m)
           IN  /\ q \in Process /\ q.pc = "write" /\ q.cmd = r.cmd /\ q.k = r.k /\ q.ops = r.ops
               /\ q.client_id = r.client_id /\ q.name = r.name /\ q.msg = m
               /\ q.raced = r.raced
<1>1. "write" \in Where
  BY DEF Where
<1> QED
  BY <1>1 DEF Process, Wrote

LEMMA FindWrites ==
    ASSUME TypeOK, NEW p \in Proc, FindPresent(p)
    PROVE  LET r == proc'[p]
               m == [from |-> p, nth |-> proc[p].ops, to |-> client_pid[proc[p].k]]
           IN  /\ proc[p].pc = "check" /\ client_pid[proc[p].k] \in Conn
               /\ BecomesAt(p, r) /\ r.pc = "write" /\ r.cmd = proc[p].cmd
               /\ r.k = proc[p].k /\ r.ops = proc[p].ops /\ r.client_id = proc[p].client_id
               /\ r.name = proc[p].name /\ r.raced = proc[p].raced
               /\ m \in Message /\ r.msg = m
<1> DEFINE m == [from |-> p, nth |-> proc[p].ops, to |-> client_pid[proc[p].k]]
           q == Wrote(proc[p], m)
<1>1. /\ proc \in [Proc -> Process] /\ proc[p] \in Process /\ proc[p].ops \in Nat
      /\ proc[p].pc = "check"
  BY ProcessFields DEF TypeOK, FindPresent, At
<1>2. client_pid[proc[p].k] \in Conn
  <2>1. proc[p].k \in Id
    BY <1>1 DEF TypeOK
  <2> QED
    BY <2>1 DEF TypeOK, FindPresent
<1>3. m \in Message
  BY <1>1, <1>2 DEF Message
<1>4. proc' = [proc EXCEPT ![p] = q]
  BY <1>1 DEF Wrote, FindPresent
<1> HIDE DEF m
<1>5. /\ q \in Process /\ q.pc = "write" /\ q.cmd = proc[p].cmd /\ q.k = proc[p].k
      /\ q.ops = proc[p].ops /\ q.client_id = proc[p].client_id /\ q.name = proc[p].name
      /\ q.msg = m /\ q.raced = proc[p].raced
  BY <1>1, <1>3, ProcessWrites
<1> HIDE DEF q
<1>6. BecomesAt(p, q)
  BY <1>1, <1>4, <1>5 DEF BecomesAt
<1>7. proc'[p] = q
  BY <1>6 DEF BecomesAt
<1> QED
  BY <1>1, <1>2, <1>3, <1>5, <1>6, <1>7 DEF m

\* A new child, and its parent with its id.
LEMMA ForkGoes ==
    ASSUME TypeOK, ForksInv, NEW i \in Id, Fork(i)
    PROVE  LET c == proc[Parent].ops
           IN  /\ proc[Parent].pc = "choose" /\ c \in Conn /\ ~Forked(c) /\ c # Parent
               /\ proc' \in [Proc -> Process]
               /\ \A r \in Proc : r \notin {c, Parent} => proc'[r] = proc[r]
               /\ proc'[c] = [NewProc EXCEPT !.pc = "born", !.client_id = i]
               /\ proc'[c].pc = "born" /\ me(c)' = i /\ proc'[c].ops = 0 /\ ~proc'[c].raced
               /\ proc'[c].cmd = "none"
               /\ proc'[Parent].pc = "set_pid" /\ me(Parent)' = i
               /\ proc'[Parent].ops = c /\ proc'[Parent].cmd = proc[Parent].cmd
<1> DEFINE c == proc[Parent].ops
           b == [NewProc EXCEPT !.pc = "born", !.client_id = i]
           q == [proc[Parent] EXCEPT !.pc = "set_pid", !.client_id = i]
<1>1. Parent \in Proc /\ proc \in [Proc -> Process] /\ proc[Parent] \in Process
  BY DEF TypeOK, Proc
<1>2. proc[Parent].pc = "choose" /\ c \in Conn /\ ~Forked(c)
  BY DEF Fork, At, ForksInv
<1>3. c # Parent /\ c \in Proc
  BY <1>2, MultiAssumption DEF Parent, Conn, Proc
<1>4. /\ b \in Process /\ b.pc = "born" /\ b.client_id = i /\ b.ops = 0 /\ ~b.raced
      /\ b.cmd = "none"
  <2>1. Nothing \in Message
    BY DEF Nothing, Message
  <2> QED
    BY <2>1 DEF NewProc, Process, Where
<1>5. /\ q \in Process /\ q.pc = "set_pid" /\ q.client_id = i /\ q.ops = c
      /\ q.cmd = proc[Parent].cmd
  <2>1. "set_pid" \in Where
    BY DEF Where
  <2> QED
    BY <1>1, <2>1 DEF Process
<1>6. proc' = [proc EXCEPT ![Parent] = q, ![c] = b]
  BY <1>1, <1>3 DEF Fork
<1> HIDE DEF b, q, c
<1>7. /\ proc' \in [Proc -> Process] /\ proc'[Parent] = q /\ proc'[c] = b
      /\ \A r \in Proc : r \notin {c, Parent} => proc'[r] = proc[r]
  BY <1>1, <1>3, <1>4, <1>5, <1>6
<1> QED
  BY <1>2, <1>3, <1>4, <1>5, <1>7 DEF me, b, c

\* The name n is looked up: w is where it goes on, and x the name to write.
Looked(r, o, b, x, w) == [r EXCEPT !.ops = o, !.raced = b, !.name = x, !.pc = w]

LEMMA ProcessLooks ==
    ASSUME NEW r \in Process, NEW o \in Nat, NEW b \in BOOLEAN,
           NEW x \in Name \cup {NoName}, NEW w \in Where
    PROVE  LET q == Looked(r, o, b, x, w)
           IN  /\ q \in Process /\ q.pc = w /\ q.cmd = r.cmd /\ q.k = r.k /\ q.ops = o
               /\ q.client_id = r.client_id /\ q.name = x /\ q.msg = r.msg /\ q.raced = b
BY DEF Process, Looked

LEMMA CheckLooks ==
    ASSUME TypeOK, NEW p \in Conn, NEW n \in Name, CheckName(p, n)
    PROVE  LET r == proc'[p]
           IN  /\ Types(p, "name") /\ BecomesAt(p, r) /\ r.cmd = proc[p].cmd /\ r.k = proc[p].k
               /\ r.ops = proc[p].ops + 1 /\ r.client_id = proc[p].client_id
               /\ r.msg = proc[p].msg /\ r.raced = (proc[p].raced \/ Unentered(n))
               /\ IF Used(n) THEN r.pc = "prompt" ELSE r.pc = "set_name" /\ r.name = n
<1> DEFINE o == proc[p].ops + 1
           b == proc[p].raced \/ Unentered(n)
           x == IF Used(n) THEN NoName ELSE n
           w == IF Used(n) THEN "prompt" ELSE "set_name"
           q == Looked(proc[p], o, b, x, w)
<1>1. /\ p \in Proc /\ proc \in [Proc -> Process] /\ proc[p] \in Process
      /\ o \in Nat /\ proc[p].raced \in BOOLEAN
  BY ProcessFields DEF TypeOK, Proc
<1>2. b \in BOOLEAN
  BY <1>1 DEF Unentered
<1>3. x \in Name \cup {NoName} /\ w \in Where
  BY DEF Where
<1>4. proc' = [proc EXCEPT ![p] = q]
  BY <1>1 DEF Looked, CheckName
<1> HIDE DEF o, b, x, w
<1>5. /\ q \in Process /\ q.pc = w /\ q.cmd = proc[p].cmd /\ q.k = proc[p].k /\ q.ops = o
      /\ q.client_id = proc[p].client_id /\ q.name = x /\ q.msg = proc[p].msg /\ q.raced = b
  BY <1>1, <1>2, <1>3, ProcessLooks
<1> HIDE DEF q
<1>6. proc'[p] = q /\ proc' \in [Proc -> Process] /\ \A r \in Proc : r # p => proc'[r] = proc[r]
  BY ONLY <1>1, <1>4, <1>5
<1>7. Types(p, "name")
  BY DEF CheckName
<1> QED
  BY <1>5, <1>6, <1>7 DEF BecomesAt, o, b, x, w

\* The name is written: its writer goes on, and others who have looked for it are
\* known to race.
Renamed(r) == [r EXCEPT !.pc = "check", !.cmd = "name", !.k = 1, !.name = NoName]
Warned(r, b) == [r EXCEPT !.raced = b]
SameButRaced(q, r) ==
    /\ q.pc = r.pc /\ q.client_id = r.client_id /\ q.cmd = r.cmd /\ q.k = r.k
    /\ q.name = r.name /\ q.msg = r.msg /\ q.ops = r.ops

LEMMA ProcessRenamed ==
    ASSUME NEW r \in Process
    PROVE  LET q == Renamed(r)
           IN  /\ q \in Process /\ q.pc = "check" /\ q.cmd = "name" /\ q.k = 1 /\ q.ops = r.ops
               /\ q.client_id = r.client_id /\ q.msg = r.msg /\ q.raced = r.raced
<1>1. "check" \in Where /\ "name" \in Commands /\ 1 \in Nat
  BY DEF Where, Commands
<1> QED
  BY <1>1 DEF Process, Renamed

LEMMA ProcessWarned ==
    ASSUME NEW r \in Process, NEW b \in BOOLEAN
    PROVE  /\ Warned(r, b) \in Process /\ Warned(r, b).raced = b
           /\ SameButRaced(Warned(r, b), r)
BY DEF Process, Warned, SameButRaced

LEMMA SetNameGoes ==
    ASSUME TypeOK, NEW p \in Conn, SetName(p)
    PROVE  LET q == proc'[p]
           IN  /\ proc[p].pc = "set_name" /\ proc' \in [Proc -> Process]
               /\ q.pc = "check" /\ q.cmd = "name" /\ q.k = 1 /\ q.ops = proc[p].ops
               /\ q.client_id = proc[p].client_id /\ q.raced = proc[p].raced
               /\ q.msg = proc[p].msg
               /\ \A r \in Proc : r # p =>
                     /\ SameButRaced(proc'[r], proc[r])
                     /\ proc'[r].raced = (proc[r].raced \/ (proc[r].pc = "set_name" /\
                                                            proc[r].name = proc[p].name))
<1> DEFINE b(r) == proc[r].raced \/ (proc[r].pc = "set_name" /\ proc[r].name = proc[p].name)
<1>1. p \in Proc /\ proc \in [Proc -> Process] /\ proc[p] \in Process /\ proc[p].pc = "set_name"
  BY DEF TypeOK, Proc, SetName, At
<1>2. \A r \in Proc : b(r) \in BOOLEAN
  BY <1>1, ProcessFields
<1>3. proc' = [r \in Proc |-> IF r = p THEN Renamed(proc[p]) ELSE Warned(proc[r], b(r))]
  BY DEF SetName, Renamed, Warned
<1> HIDE DEF b
<1>4. ASSUME NEW r \in Proc, r # p
      PROVE  /\ proc'[r] \in Process /\ SameButRaced(proc'[r], proc[r]) /\ proc'[r].raced = b(r)
  BY <1>1, <1>2, <1>3, <1>4, ProcessWarned
<1>5. LET q == proc'[p]
      IN  /\ q \in Process /\ q.pc = "check" /\ q.cmd = "name" /\ q.k = 1
          /\ q.ops = proc[p].ops /\ q.client_id = proc[p].client_id /\ q.msg = proc[p].msg
          /\ q.raced = proc[p].raced
  BY <1>1, <1>3, ProcessRenamed
<1>6. proc' \in [Proc -> Process]
  <2>1. \A r \in Proc : proc'[r] \in Process
    BY <1>4, <1>5
  <2> QED
    BY <1>3, <2>1
<1> QED
  BY <1>1, <1>4, <1>5, <1>6 DEF b

\* A signal kills those who have no handler, and its sender goes on.
LEMMA SignalGoes ==
    ASSUME TypeOK, NEW p \in Proc, Signal(p)
    PROVE  /\ proc[p].pc = "kill" /\ proc' \in [Proc -> Process] /\ proc'[p] = Advance(p)[p]
           /\ \A r \in Proc : r # p =>
                 \/ proc'[r] = proc[r]
                 \/ /\ Alive(r) /\ (r = Parent => client_pid[proc[p].k] = 0)
                    /\ r # Parent => proc[r].pc = "born"
                    /\ proc'[r].pc = "dead" /\ SameBut(proc'[r], proc[r])
           /\ pending' \in [Proc -> BOOLEAN]
           /\ \A r \in Proc : pending'[r] => pending[r] \/ (Alive(r) /\ Handles(r))
<1> DEFINE q == Target(p)
           hit == {r \in Proc : Alive(r) /\ IF q = 0 THEN r # p ELSE r = q}
<1>1. /\ proc[p].pc = "kill" /\ proc \in [Proc -> Process] /\ q \in Conn \cup {0}
      /\ proc[p].k \in Id /\ InLoop(p) /\ pending \in [Proc -> BOOLEAN]
  BY DEF TypeOK, Signal, At, Target, InLoop
<1>2. /\ pending' = [r \in Proc |-> pending[r] \/ (r \in hit /\ Handles(r))]
      /\ proc' = [r \in Proc |-> IF r \in hit /\ ~Handles(r)
                                 THEN [proc[r] EXCEPT !.pc = "dead"]
                                 ELSE Advance(p)[r]]
  BY DEF Signal
<1>3. ~(p \in hit /\ ~Handles(p))
  <2>1. Parent \notin Conn /\ Parent # 0
    BY MultiAssumption DEF Parent, Conn
  <2> QED
    BY <1>1, <2>1 DEF Handles
<1>4. /\ Advance(p) \in [Proc -> Process]
      /\ \A r \in Proc : r # p => Advance(p)[r] = proc[r]
  BY <1>1, AdvanceGoes
<1>5. \A r \in Proc : /\ [proc[r] EXCEPT !.pc = "dead"] \in Process
                      /\ [proc[r] EXCEPT !.pc = "dead"].pc = "dead"
                      /\ SameBut([proc[r] EXCEPT !.pc = "dead"], proc[r])
  <2>1. "dead" \in Where
    BY DEF Where
  <2> QED
    BY <1>1, <2>1, ProcessMoves
<1>6. \A r \in hit : Alive(r) /\ (r = Parent => client_pid[proc[p].k] = 0)
  <2>1. Parent \notin Conn
    BY MultiAssumption DEF Parent, Conn
  <2> QED
    BY <1>1, <2>1 DEF Target
<1> HIDE DEF hit
<1>7. proc' \in [Proc -> Process]
  BY <1>2, <1>4, <1>5
<1>8. proc'[p] = Advance(p)[p]
  BY <1>2, <1>3
<1>9. ASSUME NEW r \in Proc, r # p
      PROVE  \/ proc'[r] = proc[r]
             \/ /\ Alive(r) /\ (r = Parent => client_pid[proc[p].k] = 0)
                /\ r # Parent => proc[r].pc = "born"
                /\ proc'[r].pc = "dead" /\ SameBut(proc'[r], proc[r])
  <2>1. CASE r \in hit /\ ~Handles(r)
    <3>1. proc'[r] = [proc[r] EXCEPT !.pc = "dead"]
      BY <1>2, <2>1
    <3> QED
      BY <1>5, <1>6, <2>1, <3>1 DEF Handles
  <2>2. CASE ~(r \in hit /\ ~Handles(r))
    BY <1>2, <1>4, <1>9, <2>2
  <2> QED
    BY <2>1, <2>2
<1>10. /\ pending' \in [Proc -> BOOLEAN]
       /\ \A r \in Proc : pending'[r] => pending[r] \/ (Alive(r) /\ Handles(r))
  BY <1>1, <1>2, <1>6
<1> QED
  BY <1>1, <1>7, <1>8, <1>9, <1>10

\* Where the loop over the ids goes on.
LEMMA LoopStays ==
    ASSUME TypeOK, PlacesInv, NEW p \in Proc, InLoop(p)
    PROVE  /\ AfterId(p) = "check" =>
                  proc[p].k + 1 \in Id /\ proc[p].cmd \notin {"tell", "none"}
           /\ p = Parent => AfterId(p) \in {"check", "choose"}
           /\ p # Parent => AfterId(p) \in {"check", "clear_name", "prompt"}
           /\ AfterId(p) = "clear_name" => proc[p].cmd = "exit"
<1>1. proc[p].k \in Id /\ proc[p].cmd \in Commands \cup {"none", "login"}
  BY ProcessFields DEF TypeOK, InLoop
<1>2. proc[p].k < MaxClients => proc[p].k + 1 \in Id
  BY <1>1, MultiAssumption DEF Id
<1>3. /\ proc[p].cmd # "none"
      /\ p = Parent => proc[p].cmd = "login"
      /\ p # Parent => proc[p].cmd # "login"
  BY DEF PlacesInv, Proc, InLoop
<1> QED
  BY <1>1, <1>2, <1>3 DEF AfterId

\* The loop over the ids keeps the types.
LEMMA LoopTyped ==
    ASSUME TypeOK, PlacesInv, PidsInv, NEW p \in Proc,
           SkipAbsent(p) \/ FindPresent(p) \/ WriteMessage(p) \/ Signal(p)
    PROVE  TypeOK'
<1>1. CASE SkipAbsent(p)
  <2>1. proc' = Advance(p) /\ InLoop(p)
    BY <1>1 DEF SkipAbsent, At, InLoop
  <2>2. proc' \in [Proc -> Process]
    BY <2>1, AdvanceGoes
  <2>3. \A r \in Proc : proc'[r].pc \in {"check", "write", "kill"} => proc'[r].k \in Id
    BY <2>1, AdvanceGoes, LoopStays DEF TypeOK
  <2>4. \A r \in Proc : proc'[r].pc \in {"write", "kill"} => proc'[r].client_id \in Id
    BY <2>1, AdvanceGoes, LoopStays DEF TypeOK
  <2> QED
    BY <1>1, <2>2, <2>3, <2>4 DEF TypeOK, SkipAbsent, shared
<1>2. CASE FindPresent(p)
  <2>1. me(p) \in Id
    <3>1. CASE p = Parent
      <4>1. proc[p].k \in Id
        BY <1>2 DEF TypeOK, FindPresent, At
      <4> QED
        BY <1>2, <3>1, <4>1 DEF PidsInv, FindPresent
    <3>2. CASE p # Parent
      BY <1>2, <3>2 DEF PlacesInv, Proc, Forked, FindPresent, At
    <3> QED
      BY <3>1, <3>2
  <2>2. /\ BecomesAt(p, proc'[p]) /\ proc[p].pc = "check" /\ proc'[p].k = proc[p].k
        /\ proc'[p].client_id = me(p)
    BY <1>2, FindWrites DEF me
  <2> QED
    BY <1>2, <2>1, <2>2 DEF TypeOK, FindPresent, shared, BecomesAt
<1>3. CASE WriteMessage(p)
  <2>1. proc[p].pc = "write" /\ MovesTo(p, "kill")
    BY <1>3, WriteMoves
  <2>2. proc[p].msg \in Message
    BY ProcessFields DEF TypeOK
  <2>3. tell_table' \in [Id \X Id -> Message]
    BY <1>3, <2>2 DEF TypeOK, WriteMessage
  <2> QED
    BY <1>3, <2>1, <2>3 DEF TypeOK, WriteMessage, MovesTo, BecomesAt, SameBut
<1>4. CASE Signal(p)
  <2>1. /\ proc' \in [Proc -> Process] /\ proc'[p] = Advance(p)[p] /\ InLoop(p)
        /\ \A r \in Proc : r # p =>
              proc'[r] = proc[r] \/ (proc'[r].pc = "dead" /\ SameBut(proc'[r], proc[r]))
        /\ pending' \in [Proc -> BOOLEAN]
    BY <1>4, SignalGoes DEF InLoop
  <2>2. \A r \in Proc : proc'[r].pc \in {"check", "write", "kill"} => proc'[r].k \in Id
    BY <2>1, AdvanceGoes, LoopStays DEF TypeOK
  <2>3. \A r \in Proc : proc'[r].pc \in {"write", "kill"} => proc'[r].client_id \in Id
    BY <2>1, AdvanceGoes, LoopStays DEF TypeOK
  <2> QED
    BY <1>4, <2>1, <2>2, <2>3 DEF TypeOK, Signal, shared
<1> QED
  BY <1>1, <1>2, <1>3, <1>4

\* A process in its handler has an id, and so its messages are in the table.
LEMMA InHandler ==
    ASSUME TypeOK, PlacesInv, HandlerInv, NEW p \in Proc, scan[p] # 0
    PROVE  p \in Conn /\ p # Parent /\ me(p) \in Id /\ Alive(p) /\ Inbox(p) \in Id \X Id
<1>1. p \in Conn /\ p # Parent /\ Alive(p)
  BY DEF HandlerInv, Proc
<1>2. me(p) \in Id
  BY <1>1 DEF PlacesInv, Alive, Forked
<1>3. scan[p] \in Id
  BY DEF TypeOK
<1> QED
  BY <1>1, <1>2, <1>3 DEF Inbox

\* tell_handler keeps them too.
LEMMA HandlerTyped ==
    ASSUME TypeOK, PlacesInv, HandlerInv, NEW p \in Proc, Handler(p)
    PROVE  TypeOK'
<1>1. NextScan(p) \in [Proc -> Id \cup {0}]
  <2>1. \A k \in Id \cup {0} : (IF k = MaxClients THEN 0 ELSE k + 1) \in Id \cup {0}
    BY MultiAssumption DEF Id
  <2> QED
    BY <2>1 DEF TypeOK, NextScan
<1>2. CASE HandlerStarts(p)
  <2>1. 1 \in Id
    BY MultiAssumption DEF Id
  <2>2. scan' \in [Proc -> Id \cup {0}] /\ pending' \in [Proc -> BOOLEAN]
    BY <1>2, <2>1 DEF TypeOK, HandlerStarts
  <2> QED
    BY <1>2, <2>2 DEF TypeOK, HandlerStarts, shared
<1>3. CASE HandlerSkips(p)
  BY <1>1, <1>3 DEF TypeOK, HandlerSkips, shared
<1>4. CASE HandlerPrints(p)
  <2>1. [msg |-> tell_table[Inbox(p)], by |-> p] \in [msg : Message, by : Proc]
    <3>1. Inbox(p) \in Id \X Id
      BY <1>4, InHandler DEF HandlerPrints
    <3> QED
      BY <3>1 DEF TypeOK
  <2>2. shown' \subseteq [msg : Message, by : Proc] /\ printed' \in [Proc -> BOOLEAN]
    BY <1>4, <2>1 DEF TypeOK, HandlerPrints
  <2> QED
    BY <1>4, <2>2 DEF TypeOK, HandlerPrints, shared
<1>5. CASE HandlerClears(p)
  <2>1. Nothing \in Message
    BY DEF Nothing, Message
  <2>2. tell_table' \in [Id \X Id -> Message] /\ printed' \in [Proc -> BOOLEAN]
    BY <1>5, <2>1 DEF TypeOK, HandlerClears
  <2> QED
    BY <1>1, <1>5, <2>2 DEF TypeOK, HandlerClears
<1> QED
  BY <1>2, <1>3, <1>4, <1>5 DEF Handler

\* So do the parent's own steps.
LEMMA ParentTyped ==
    ASSUME TypeOK, ForksInv, Accept \/ (\E i \in Id : Fork(i)) \/ SetPid
    PROVE  TypeOK'
<1>1. CASE Accept
  <2>1. BeginsAt(Parent, "login", 1) /\ 1 \in Id
    BY <1>1, AcceptBegins, MultiAssumption DEF Id
  <2> QED
    BY <1>1, <2>1 DEF TypeOK, Accept, shared, BeginsAt, BecomesAt
<1>2. ASSUME NEW i \in Id, Fork(i) PROVE TypeOK'
  <2>1. /\ proc' \in [Proc -> Process] /\ proc[Parent].ops \in Conn
        /\ \A r \in Proc : r \notin {proc[Parent].ops, Parent} => proc'[r] = proc[r]
        /\ proc'[proc[Parent].ops].pc = "born" /\ proc'[Parent].pc = "set_pid"
    BY <1>2, ForkGoes
  <2>2. ip_port_table' \in [Id -> Conn \cup {0}]
    BY <1>2, <2>1 DEF TypeOK, Fork
  <2> QED
    BY <1>2, <2>1, <2>2 DEF TypeOK, Fork
<1>3. CASE SetPid
  <2>1. proc[Parent].pc = "set_pid" /\ MovesTo(Parent, "accept")
    BY <1>3, SetPidMoves
  <2>2. client_pid' \in [Id -> Conn \cup {0}]
    BY <1>3, <2>1 DEF TypeOK, SetPid, ForksInv
  <2> QED
    BY <1>3, <2>1, <2>2 DEF TypeOK, SetPid, MovesTo, BecomesAt, SameBut
<1> QED
  BY <1>1, <1>2, <1>3

\* And those of a child.
LEMMA ChildTyped ==
    ASSUME TypeOK, PlacesInv, NEW p \in Conn,
           \/ User(p) \/ InstallHandlers(p) \/ SetName(p)
           \/ ClearName(p) \/ ClearPid(p) \/ ClearRest(p)
    PROVE  TypeOK'
<1>1. ASSUME NEW i \in Id, Tell(p, i) PROVE TypeOK'
  <2>1. BeginsAt(p, "tell", i)
    BY <1>1, UserBegins
  <2> QED
    BY <1>1, <2>1 DEF TypeOK, Tell, Begin, shared, BeginsAt, BecomesAt
<1>2. CASE Yell(p) \/ Exit(p)
  <2>1. 1 \in Id
    BY MultiAssumption DEF Id
  <2> QED
    BY <1>2, <2>1, UserBegins DEF TypeOK, Yell, Exit, Begin, shared, BeginsAt, BecomesAt
<1>3. ASSUME NEW n \in Name, CheckName(p, n) PROVE TypeOK'
  <2>1. BecomesAt(p, proc'[p]) /\ proc'[p].pc \in {"prompt", "set_name"}
    BY <1>3, CheckLooks
  <2> QED
    BY <1>3, <2>1 DEF TypeOK, CheckName, shared, BecomesAt
<1>4. CASE SetName(p)
  <2>1. /\ proc' \in [Proc -> Process] /\ proc'[p].pc = "check" /\ proc'[p].k = 1
        /\ \A r \in Proc : r # p => SameButRaced(proc'[r], proc[r])
    BY <1>4, SetNameGoes
  <2>2. 1 \in Id
    BY MultiAssumption DEF Id
  <2>3. proc[p].name \in Name \cup {NoName}
    BY ProcessFields DEF TypeOK, Proc
  <2>4. client_name' \in [Id -> Name \cup {NoName}]
    BY <1>4, <2>3 DEF TypeOK, SetName
  <2> QED
    BY <1>4, <2>1, <2>2, <2>4 DEF TypeOK, SetName, SameButRaced
<1>5. CASE InstallHandlers(p)
  BY <1>5, StepsThatMove DEF TypeOK, InstallHandlers, shared, MovesTo, BecomesAt, SameBut
<1>6. CASE ClearName(p)
  <2>1. client_name' \in [Id -> Name \cup {NoName}]
    BY <1>6 DEF TypeOK, ClearName
  <2> QED
    BY <1>6, <2>1, StepsThatMove DEF TypeOK, ClearName, MovesTo, BecomesAt, SameBut
<1>7. CASE ClearPid(p)
  <2>1. client_pid' \in [Id -> Conn \cup {0}]
    BY <1>7 DEF TypeOK, ClearPid
  <2> QED
    BY <1>7, <2>1, StepsThatMove DEF TypeOK, ClearPid, MovesTo, BecomesAt, SameBut
<1>8. CASE ClearRest(p)
  <2>1. Nothing \in Message
    BY DEF Nothing, Message
  <2>2. tell_table' \in [Id \X Id -> Message] /\ ip_port_table' \in [Id -> Conn \cup {0}]
    BY <1>8, <2>1 DEF TypeOK, ClearRest
  <2> QED
    BY <1>8, <2>2, StepsThatMove DEF TypeOK, ClearRest, MovesTo, BecomesAt, SameBut
<1> QED
  BY <1>1, <1>2, <1>3, <1>4, <1>5, <1>6, <1>7, <1>8 DEF User

-----------------------------------------------------------------------------
(* Places, forks, handlers and pids.                                       *)

\* A process that was killed: the parent, or a child without its handler.
Killed(r) ==
    /\ Alive(r) /\ (r # Parent => proc[r].pc = "born")
    /\ proc'[r].pc = "dead" /\ SameBut(proc'[r], proc[r])

\* What a step of the loop does to the processes.
LoopMoves(p) ==
    /\ InLoop(p) /\ proc' \in [Proc -> Process]
    /\ LET q == proc'[p]
       IN  /\ q.client_id = me(p) /\ q.ops = proc[p].ops /\ q.raced = proc[p].raced
           /\ q.name = proc[p].name
           /\ \/ q.pc \in {"check", "write", "kill"} /\ q.cmd = proc[p].cmd
              \/ /\ q.cmd = "none"
                 /\ IF p = Parent THEN q.pc = "choose"
                    ELSE q.pc = "prompt" \/ (q.pc = "clear_name" /\ proc[p].cmd = "exit")
    /\ \A r \in Proc : r # p => proc'[r] = proc[r] \/ Killed(r)

LEMMA LoopGoes ==
    ASSUME TypeOK, PlacesInv, NEW p \in Proc,
           SkipAbsent(p) \/ FindPresent(p) \/ WriteMessage(p) \/ Signal(p)
    PROVE  /\ LoopMoves(p)
           /\ UNCHANGED <<client_pid, client_name, ip_port_table, scan, printed, shown>>
           /\ \A r \in Proc : pending'[r] => pending[r] \/ (Alive(r) /\ Handles(r))
<1>1. CASE SkipAbsent(p) \/ Signal(p)
  <2>1. /\ InLoop(p) /\ proc'[p] = Advance(p)[p] /\ proc' \in [Proc -> Process]
        /\ \A r \in Proc : r # p => proc'[r] = proc[r] \/ Killed(r)
        /\ \A r \in Proc : pending'[r] => pending[r] \/ (Alive(r) /\ Handles(r))
    <3>1. CASE SkipAbsent(p)
      <4>1. InLoop(p) /\ proc' = Advance(p) /\ pending' = pending
        BY <3>1 DEF SkipAbsent, At, InLoop
      <4> QED
        BY <4>1, AdvanceGoes
    <3>2. CASE Signal(p)
      BY <3>2, SignalGoes DEF InLoop, Killed
    <3> QED
      BY <1>1, <3>1, <3>2
  <2>2. UNCHANGED <<client_pid, client_name, ip_port_table, scan, printed, shown>>
    BY <1>1 DEF SkipAbsent, Signal, shared
  <2>3. LoopMoves(p)
    <3>1. LET q == proc'[p]
          IN  /\ q.client_id = me(p) /\ q.ops = proc[p].ops /\ q.raced = proc[p].raced
              /\ q.name = proc[p].name /\ q.pc = AfterId(p)
              /\ IF AfterId(p) = "check" THEN q.cmd = proc[p].cmd ELSE q.cmd = "none"
      BY <2>1, AdvanceGoes
    <3> QED
      BY <2>1, <3>1, LoopStays DEF LoopMoves
  <2> QED
    BY <2>1, <2>2, <2>3
<1>2. CASE FindPresent(p)
  <2>1. LoopMoves(p)
    BY <1>2, FindWrites DEF LoopMoves, BecomesAt, InLoop, me
  <2> QED
    BY <1>2, <2>1 DEF FindPresent, shared
<1>3. CASE WriteMessage(p)
  <2>1. LoopMoves(p)
    BY <1>3, WriteMoves DEF LoopMoves, MovesTo, BecomesAt, SameBut, InLoop, me
  <2> QED
    BY <1>3, <2>1 DEF WriteMessage
<1> QED
  BY <1>1, <1>2, <1>3

LEMMA LoopPlaces ==
    ASSUME TypeOK, PlacesInv, ForksInv, HandlerInv, PidsInv, NEW p \in Proc,
           SkipAbsent(p) \/ FindPresent(p) \/ WriteMessage(p) \/ Signal(p)
    PROVE  PlacesInv' /\ ForksInv' /\ HandlerInv' /\ PidsInv'
<1>1. LoopMoves(p) /\ UNCHANGED <<client_pid, scan, printed>>
  BY LoopGoes
<1>2. \A r \in Proc : pending'[r] => pending[r] \/ (Alive(r) /\ Handles(r))
  BY LoopGoes
<1>3. Parent \in Proc /\ Parent \notin Conn /\ Conn \subseteq Proc
  BY MultiAssumption DEF Proc, Parent, Conn
<1>4. \A r \in Proc : /\ me(r)' = me(r) /\ proc'[r].ops = proc[r].ops
                      /\ (Forked(r) <=> Forked(r)')
  BY <1>1 DEF LoopMoves, Killed, SameBut, me, Forked, Alive, InLoop
<1>5. PlacesInv'
  <2>1. /\ proc'[Parent].pc \in ParentAt /\ proc'[Parent].cmd \in {"none", "login"}
        /\ InLoop(Parent)' => proc'[Parent].cmd = "login"
    BY <1>1, <1>3 DEF LoopMoves, Killed, SameBut, PlacesInv, ParentAt, InLoop
  <2>2. ASSUME NEW c \in Conn
        PROVE  /\ proc'[c].pc \in ChildAt /\ proc'[c].cmd # "login"
               /\ InLoop(c)' => proc'[c].cmd # "none"
               /\ proc'[c].pc = "set_name" => proc'[c].name \in Name
    BY <1>1, <1>3 DEF LoopMoves, Killed, SameBut, PlacesInv, ChildAt, InLoop, Where
  <2>3. ASSUME NEW c \in Conn
        PROVE  proc'[c].cmd = "exit" \/ proc'[c].pc \in {"clear_name", "clear_pid", "clear_rest"} =>
                  proc'[c].ops > 0
    BY <1>1, <1>3 DEF LoopMoves, Killed, SameBut, PlacesInv
  <2> QED
    BY <1>3, <1>4, <2>1, <2>2, <2>3 DEF PlacesInv
<1>6. ForksInv'
  <2>1. InLoop(Parent)' \/ proc'[Parent].pc = "choose" => InLoop(Parent) \/ proc[Parent].pc = "choose"
    BY <1>1, <1>3 DEF LoopMoves, Killed, InLoop
  <2>2. proc'[Parent].pc = "set_pid" => proc[Parent].pc = "set_pid"
    BY <1>1, <1>3 DEF LoopMoves, Killed
  <2> QED
    BY <1>1, <1>3, <1>4, <2>1, <2>2 DEF ForksInv
<1>7. HandlerInv'
  <2>1. ASSUME NEW r \in Proc, proc[r].pc \notin {"none", "born"}
        PROVE  proc'[r].pc \notin {"none", "born"}
    BY <1>1, <2>1 DEF LoopMoves, Killed, InLoop
  <2>2. ASSUME NEW r \in Proc, r # Parent, Alive(r), proc[r].pc # "born"
        PROVE  Alive(r)'
    BY <1>1, <2>2 DEF LoopMoves, Killed, InLoop, Alive
  <2> QED
    BY <1>1, <1>2, <2>1, <2>2 DEF HandlerInv, Handles, Alive
<1>8. PidsInv'
  <2>1. SlotOwned'
    <3> SUFFICES ASSUME NEW c \in Conn, Alive(c)', proc'[c].pc # "clear_rest"
                 PROVE  \/ client_pid'[me(c)'] = c
                        \/ /\ client_pid'[me(c)'] = 0 /\ proc'[Parent].pc \in {"set_pid", "dead"}
                           /\ proc'[Parent].ops = c
      BY DEF SlotOwned
    <3>1. Alive(c) /\ proc[c].pc # "clear_rest"
      BY <1>1, <1>3 DEF LoopMoves, Killed, InLoop, Alive
    <3>2. proc[Parent].pc \in {"set_pid", "dead"} => proc'[Parent].pc \in {"set_pid", "dead"}
      BY <1>1, <1>3 DEF LoopMoves, Killed, InLoop
    <3> QED
      BY <1>1, <1>3, <1>4, <3>1, <3>2 DEF PidsInv, SlotOwned
  <2>2. \A i \in Id : client_pid[i] \in Conn \cup {0}
    BY DEF TypeOK
  <2> QED
    BY <1>1, <1>3, <1>4, <2>1, <2>2 DEF PidsInv
<1> QED
  BY <1>5, <1>6, <1>7, <1>8

LEMMA HandlerPlaces ==
    ASSUME TypeOK, PlacesInv, ForksInv, HandlerInv, PidsInv, NEW p \in Proc, Handler(p)
    PROVE  PlacesInv' /\ ForksInv' /\ HandlerInv' /\ PidsInv'
<1>1. UNCHANGED <<client_pid, proc>>
  BY DEF Handler, HandlerStarts, HandlerSkips, HandlerPrints, HandlerClears, shared
<1>2. PlacesInv' /\ ForksInv'
  BY <1>1 DEF PlacesInv, ForksInv, InLoop, Forked, me
<1>3. PidsInv'
  BY <1>1 DEF PidsInv, SlotOwned, Alive, Forked, me
<1>4. HandlerInv'
  <2>1. scan \in [Proc -> Id \cup {0}] /\ printed \in [Proc -> BOOLEAN] /\ pending \in [Proc -> BOOLEAN]
    BY DEF TypeOK
  <2>2. CASE HandlerStarts(p)
    <3>1. p # Parent /\ Alive(p) /\ proc[p].pc # "born"
      BY <2>2 DEF HandlerInv, HandlerStarts
    <3>2. /\ \A q \in Proc : pending'[q] => pending[q]
          /\ \A q \in Proc : q # p => scan'[q] = scan[q]
          /\ printed' = printed /\ scan'[p] = 1
      BY <2>1, <2>2 DEF HandlerStarts
    <3> QED
      BY <1>1, <3>1, <3>2 DEF HandlerInv, Alive
  <2>3. CASE HandlerSkips(p) \/ HandlerClears(p)
    <3>1. p # Parent /\ Alive(p) /\ proc[p].pc # "born"
      BY <2>3 DEF HandlerInv, HandlerSkips, HandlerClears
    <3>2. /\ pending' = pending /\ ~printed'[p]
          /\ \A q \in Proc : q # p => scan'[q] = scan[q] /\ printed'[q] = printed[q]
      BY <2>1, <2>3 DEF HandlerSkips, HandlerClears, NextScan
    <3> QED
      BY <1>1, <3>1, <3>2 DEF HandlerInv, Alive
  <2>4. CASE HandlerPrints(p)
    <3>1. /\ pending' = pending /\ scan' = scan /\ scan[p] # 0
          /\ \A q \in Proc : q # p => printed'[q] = printed[q]
      BY <2>1, <2>4 DEF HandlerPrints
    <3> QED
      BY <1>1, <3>1 DEF HandlerInv, Alive
  <2> QED
    BY <2>2, <2>3, <2>4 DEF Handler
<1> QED
  BY <1>2, <1>3, <1>4

LEMMA AcceptPlaces ==
    ASSUME TypeOK, PlacesInv, ForksInv, HandlerInv, PidsInv, Accept
    PROVE  PlacesInv' /\ ForksInv' /\ HandlerInv' /\ PidsInv'
<1>1. /\ BeginsAt(Parent, "login", 1) /\ proc[Parent].pc = "accept"
      /\ UNCHANGED <<client_pid, pending, scan, printed>> /\ proc[Parent].ops < MaxConn
  BY AcceptBegins DEF Accept, shared
<1>2. Parent \in Proc /\ Parent \notin Conn /\ Conn \subseteq Proc
  BY MultiAssumption DEF Proc, Parent, Conn
<1>3. \A r \in Conn : proc'[r] = proc[r]
  BY <1>1, <1>2 DEF BeginsAt, BecomesAt
<1>4. PlacesInv'
  BY <1>1, <1>3 DEF PlacesInv, BeginsAt, ParentAt, InLoop, Forked, me
<1>5. ForksInv'
  <2>1. proc[Parent].ops \in Nat /\ proc'[Parent].ops = proc[Parent].ops + 1
    BY <1>1, <1>2, ProcessFields DEF BeginsAt, TypeOK
  <2>2. proc'[Parent].ops \in Conn /\ ~Forked(proc'[Parent].ops)
    BY <1>1, <2>1, MultiAssumption DEF ForksInv, Conn
  <2>3. proc'[Parent].pc = "check"
    BY <1>1 DEF BeginsAt
  <2> QED
    BY <1>1, <1>3, <2>1, <2>2, <2>3, MultiAssumption DEF ForksInv, Forked, Conn
<1>6. HandlerInv'
  BY <1>1, <1>2, <1>3 DEF HandlerInv, Alive, Proc
<1>7. PidsInv'
  <2>1. SlotOwned'
    <3>1. \A c \in Conn : Alive(c) /\ proc[c].pc # "clear_rest" => client_pid[me(c)] = c
      BY <1>1 DEF PidsInv, SlotOwned
    <3> QED
      BY <1>1, <1>3, <3>1 DEF SlotOwned, Alive, me
  <2>2. me(Parent)' = me(Parent)
    BY <1>1 DEF BeginsAt, me
  <2>3. \A i \in Id : client_pid[i] \in Conn \cup {0}
    BY DEF TypeOK
  <2> QED
    BY <1>1, <1>3, <2>1, <2>2, <2>3 DEF PidsInv, Forked, me
<1> QED
  BY <1>4, <1>5, <1>6, <1>7

LEMMA SetPidPlaces ==
    ASSUME TypeOK, PlacesInv, ForksInv, HandlerInv, PidsInv, SetPid
    PROVE  PlacesInv' /\ ForksInv' /\ HandlerInv' /\ PidsInv'
<1> DEFINE c == proc[Parent].ops
           i == me(Parent)
<1>1. /\ proc[Parent].pc = "set_pid" /\ MovesTo(Parent, "accept")
      /\ UNCHANGED <<pending, scan, printed>> /\ client_pid' = [client_pid EXCEPT ![i] = c]
  BY SetPidMoves DEF SetPid
<1>2. /\ c \in Conn /\ Forked(c) /\ i \in Id /\ me(c) = i /\ client_pid[i] = 0 /\ c # 0
  BY <1>1 DEF ForksInv, Conn
<1>3. Parent \in Proc /\ Parent \notin Conn /\ Conn \subseteq Proc
  BY MultiAssumption DEF Proc, Parent, Conn
<1>4. /\ \A r \in Conn : proc'[r] = proc[r]
      /\ me(Parent)' = i /\ proc'[Parent].ops = c /\ proc'[Parent].pc = "accept"
      /\ proc'[Parent].cmd = proc[Parent].cmd
  BY <1>1, <1>3 DEF MovesTo, BecomesAt, SameBut, me
<1>5. /\ client_pid'[i] = c /\ \A j \in Id : j # i => client_pid'[j] = client_pid[j]
  BY <1>1, <1>2 DEF TypeOK
<1> HIDE DEF c, i
<1>6. PlacesInv'
  BY <1>4 DEF PlacesInv, ParentAt, InLoop, Forked, me
<1>7. ForksInv'
  BY <1>1, <1>4, <1>3 DEF ForksInv, Forked, InLoop, c
<1>8. HandlerInv'
  BY <1>1, <1>3, <1>4 DEF HandlerInv, Alive, Proc
<1>9. PidsInv'
  <2>1. SlotOwned'
    <3> SUFFICES ASSUME NEW d \in Conn, Alive(d), proc[d].pc # "clear_rest"
                 PROVE  client_pid'[me(d)] = d
      BY <1>4 DEF SlotOwned, Alive, me
    <3>1. CASE d = c
      BY <1>2, <1>5, <3>1
    <3>2. CASE d # c
      <4>1. client_pid[me(d)] = d
        BY <3>2 DEF PidsInv, SlotOwned, c
      <4>2. me(d) \in Id /\ d # 0
        BY DEF PlacesInv, Alive, Forked, Conn
      <4> QED
        BY <1>2, <1>5, <4>1, <4>2
    <3> QED
      BY <3>1, <3>2
  <2>2. \A j \in Id : client_pid[j] \in Conn \cup {0}
    BY DEF TypeOK
  <2>3. \A j \in Id : client_pid'[j] # 0 =>
            Forked(client_pid'[j]) /\ me(client_pid'[j]) = j /\ client_pid'[j] \in Conn
    BY <1>2, <1>5, <2>2 DEF PidsInv
  <2> QED
    BY <1>2, <1>4, <2>1, <2>3 DEF PidsInv, Forked, me
<1> QED
  BY <1>6, <1>7, <1>8, <1>9

LEMMA ForkPlaces ==
    ASSUME TypeOK, PlacesInv, ForksInv, HandlerInv, PidsInv, NEW i \in Id, Fork(i)
    PROVE  PlacesInv' /\ ForksInv' /\ HandlerInv' /\ PidsInv'
<1> DEFINE c == proc[Parent].ops
<1>1. /\ proc[Parent].pc = "choose" /\ c \in Conn /\ ~Forked(c) /\ c # Parent
      /\ \A r \in Proc : r \notin {c, Parent} => proc'[r] = proc[r]
      /\ proc'[c].pc = "born" /\ proc'[c].client_id = i /\ proc'[c].cmd = "none"
      /\ proc'[Parent].pc = "set_pid" /\ proc'[Parent].client_id = i
      /\ proc'[Parent].ops = c /\ proc'[Parent].cmd = proc[Parent].cmd
  BY ForkGoes DEF me
<1>2. Parent \in Proc /\ Parent \notin Conn /\ Conn \subseteq Proc
  BY MultiAssumption DEF Proc, Parent, Conn
<1>3. client_pid[i] = 0 /\ UNCHANGED <<client_pid, pending, scan, printed>>
  BY DEF Fork
<1> HIDE DEF c
<1>4. PlacesInv'
  <2>1. \A r \in Conn : r # c => proc'[r] = proc[r]
    BY <1>1, <1>2
  <2>2. proc'[Parent].pc \in ParentAt /\ ~InLoop(Parent)' /\ proc'[Parent].cmd \in {"none", "login"}
    BY <1>1 DEF ParentAt, InLoop, PlacesInv
  <2>3. "born" \in ChildAt
    BY DEF ChildAt, Where
  <2> QED
    BY <1>1, <2>1, <2>2, <2>3 DEF PlacesInv, InLoop, Forked, me
<1>5. ForksInv'
  <2>1. \A r \in Conn : r > c => ~Forked(r)'
    BY <1>1, <1>2 DEF ForksInv, Forked, c, Conn
  <2>2. c <= MaxConn
    BY DEF ForksInv, c
  <2> QED
    BY <1>1, <1>3, <2>1, <2>2 DEF ForksInv, InLoop, Forked, me
<1>6. HandlerInv'
  <2>1. ~pending[c] /\ scan[c] = 0 /\ ~printed[c]
    BY <1>1, <1>2 DEF HandlerInv, Forked, Alive
  <2> QED
    BY <1>1, <1>2, <1>3, <2>1 DEF HandlerInv, Alive
<1>7. PidsInv'
  <2>1. SlotOwned'
    <3> SUFFICES ASSUME NEW d \in Conn, Alive(d)', proc'[d].pc # "clear_rest"
                 PROVE  \/ client_pid'[me(d)'] = d
                        \/ /\ client_pid'[me(d)'] = 0 /\ proc'[Parent].pc \in {"set_pid", "dead"}
                           /\ proc'[Parent].ops = d
      BY DEF SlotOwned
    <3>1. CASE d = c
      BY <1>1, <1>3, <3>1 DEF me
    <3>2. CASE d # c
      BY <1>1, <1>2, <1>3, <3>2 DEF PidsInv, SlotOwned, Alive, me
    <3> QED
      BY <3>1, <3>2
  <2>2. \A j \in Id : client_pid[j] \in Conn \cup {0}
    BY DEF TypeOK
  <2>3. \A j \in Id : client_pid[j] # 0 => client_pid[j] # c
    BY <1>1 DEF PidsInv
  <2> QED
    BY <1>1, <1>2, <1>3, <2>1, <2>2, <2>3 DEF PidsInv, Forked, me
<1> QED
  BY <1>4, <1>5, <1>6, <1>7

\* Two children that have an id have different ones.
LEMMA IdsApart ==
    ASSUME TypeOK, PlacesInv, SlotOwned, NEW c \in Conn, NEW d \in Conn, c # d, Holds(c), Holds(d)
    PROVE  me(c) \in Id /\ me(d) \in Id /\ me(c) # me(d)
BY DEF SlotOwned, Holds, Alive, PlacesInv, Forked, Conn

\* The steps of a child outside of its loop and its handler.
ChildStep(p) ==
    \/ User(p) \/ InstallHandlers(p) \/ SetName(p)
    \/ ClearName(p) \/ ClearPid(p) \/ ClearRest(p)

\* What such a step does to its process and to the others.
ChildMoves(p) ==
    /\ proc' \in [Proc -> Process]
    /\ Forked(p) /\ Alive(p) /\ scan[p] = 0 /\ ~InLoop(p)
    /\ me(p)' = me(p) /\ proc'[p].pc \notin {"none", "born"}
    /\ proc[p].ops <= proc'[p].ops
    /\ proc[p].pc = "clear_rest" => proc'[p].pc = "dead"
    /\ proc'[p].pc \in ChildAt /\ proc'[p].cmd # "login"
    /\ InLoop(p)' => proc'[p].cmd # "none"
    /\ proc'[p].cmd = "exit" \/ proc'[p].pc \in {"clear_name", "clear_pid", "clear_rest"} =>
          proc'[p].ops > 0
    /\ proc'[p].pc = "set_name" => proc'[p].name \in Name
    /\ \A r \in Proc : r # p => SameButRaced(proc'[r], proc[r])

LEMMA ChildGoes ==
    ASSUME TypeOK, PlacesInv, NEW p \in Conn, ChildStep(p)
    PROVE  /\ ChildMoves(p)
           /\ UNCHANGED <<pending, scan, printed, shown>>
<1>1. p \in Proc /\ proc[p] \in Process /\ proc[p].ops \in Nat /\ proc \in [Proc -> Process]
  BY ProcessFields DEF TypeOK, Proc
<1>2. UNCHANGED <<pending, scan, printed, shown>>
  BY DEF ChildStep, User, Tell, Yell, Exit, Begin, CheckName, InstallHandlers, SetName,
         ClearName, ClearPid, ClearRest
<1>3. ASSUME NEW c \in {"tell", "yell", "exit"}, NEW n \in Nat, Types(p, c), BeginsAt(p, c, n)
      PROVE  ChildMoves(p)
  <2>1. /\ proc'[p].ops > 0 /\ proc'[p].pc = "check" /\ proc'[p].cmd = c /\ me(p)' = me(p)
        /\ proc[p].pc = "prompt" /\ scan[p] = 0 /\ proc' \in [Proc -> Process]
        /\ proc[p].ops <= proc'[p].ops /\ \A r \in Proc : r # p => proc'[r] = proc[r]
    BY <1>1, <1>3 DEF BeginsAt, BecomesAt, Types, At, me
  <2> QED
    BY <2>1 DEF ChildMoves, Forked, Alive, InLoop, ChildAt, Where, SameButRaced
<1>4. ASSUME (\E i \in Id : Tell(p, i)) \/ Yell(p) \/ Exit(p)
      PROVE  ChildMoves(p)
  <2>1. Id \subseteq Nat /\ 1 \in Nat
    BY DEF Id
  <2> QED
    BY <1>3, <1>4, <2>1, UserBegins
<1>5. ASSUME NEW n \in Name, CheckName(p, n) PROVE ChildMoves(p)
  <2>1. /\ proc'[p].pc \in {"prompt", "set_name"} /\ proc'[p].cmd = proc[p].cmd
        /\ me(p)' = me(p) /\ proc'[p].ops = proc[p].ops + 1
        /\ proc'[p].pc = "set_name" => proc'[p].name \in Name
        /\ proc[p].pc = "prompt" /\ scan[p] = 0 /\ proc' \in [Proc -> Process]
        /\ \A r \in Proc : r # p => proc'[r] = proc[r]
    BY <1>5, CheckLooks DEF BecomesAt, Types, At, me
  <2>2. proc'[p].ops > 0 /\ proc[p].ops <= proc'[p].ops
    BY <1>1, <2>1
  <2> QED
    BY <2>1, <2>2 DEF ChildMoves, Forked, Alive, InLoop, ChildAt, Where, SameButRaced, PlacesInv
<1>6. ASSUME SetName(p)
      PROVE  ChildMoves(p)
  <2>1. /\ proc'[p].pc = "check" /\ proc'[p].cmd = "name" /\ me(p)' = me(p)
        /\ proc[p].pc = "set_name" /\ proc' \in [Proc -> Process] /\ scan[p] = 0
        /\ proc'[p].ops = proc[p].ops
        /\ \A r \in Proc : r # p => SameButRaced(proc'[r], proc[r])
    BY <1>6, SetNameGoes DEF me, SetName, At
  <2>2. proc[p].ops <= proc'[p].ops
    BY <1>1, <2>1
  <2> QED
    BY <2>1, <2>2 DEF ChildMoves, Forked, Alive, InLoop, ChildAt, Where
<1>7. ASSUME InstallHandlers(p) \/ ClearName(p) \/ ClearPid(p) \/ ClearRest(p)
      PROVE  ChildMoves(p)
  <2>1. scan[p] = 0
    BY <1>7 DEF InstallHandlers, ClearName, ClearPid, ClearRest, At
  <2>2. \/ proc[p].pc = "born" /\ MovesTo(p, "prompt")
        \/ proc[p].pc = "clear_name" /\ MovesTo(p, "clear_pid")
        \/ proc[p].pc = "clear_pid" /\ MovesTo(p, "clear_rest")
        \/ proc[p].pc = "clear_rest" /\ MovesTo(p, "dead")
    BY <1>7, StepsThatMove
  <2>3. /\ me(p)' = me(p) /\ proc'[p].cmd = proc[p].cmd /\ proc'[p].ops = proc[p].ops
        /\ proc' \in [Proc -> Process] /\ \A r \in Proc : r # p => proc'[r] = proc[r]
    BY <2>2 DEF MovesTo, BecomesAt, SameBut, me
  <2>4. \/ proc[p].pc = "born" /\ proc'[p].pc = "prompt"
        \/ proc[p].pc = "clear_name" /\ proc'[p].pc = "clear_pid"
        \/ proc[p].pc = "clear_pid" /\ proc'[p].pc = "clear_rest"
        \/ proc[p].pc = "clear_rest" /\ proc'[p].pc = "dead"
    BY <2>2 DEF MovesTo
  <2>5. proc[p].ops <= proc'[p].ops
    BY <1>1, <2>3
  <2> QED
    BY <2>1, <2>3, <2>4, <2>5 DEF ChildMoves, Forked, Alive, InLoop, ChildAt, Where, SameButRaced, PlacesInv
<1> QED
  BY <1>2, <1>4, <1>5, <1>6, <1>7 DEF ChildStep, User

\* It changes the pids only to give up its id.
LEMMA ChildPid ==
    ASSUME TypeOK, NEW p \in Conn, ChildStep(p)
    PROVE  \/ client_pid' = client_pid
           \/ /\ proc[p].pc = "clear_pid" /\ proc'[p].pc = "clear_rest"
              /\ \A i \in Id : client_pid'[i] = IF i = me(p) THEN 0 ELSE client_pid[i]
<1>1. CASE ClearPid(p)
  <2>1. proc[p].pc = "clear_pid" /\ proc'[p].pc = "clear_rest"
    BY <1>1, StepsThatMove DEF MovesTo
  <2>2. client_pid' = [client_pid EXCEPT ![me(p)] = 0] /\ client_pid \in [Id -> Conn \cup {0}]
    BY <1>1 DEF ClearPid, TypeOK
  <2> QED
    BY <2>1, <2>2
<1>2. CASE ~ClearPid(p)
  BY <1>2 DEF ChildStep, User, Tell, Yell, Exit, Begin, CheckName, InstallHandlers, SetName,
              ClearName, ClearRest, shared
<1> QED
  BY <1>1, <1>2

LEMMA ChildPlaces ==
    ASSUME TypeOK, PlacesInv, ForksInv, HandlerInv, PidsInv, NEW p \in Conn, ChildStep(p)
    PROVE  PlacesInv' /\ ForksInv' /\ HandlerInv' /\ PidsInv'
<1>1. ChildMoves(p) /\ UNCHANGED <<pending, scan, printed>>
  BY ChildGoes
<1>2. Parent \in Proc /\ Parent \notin Conn /\ Conn \subseteq Proc /\ p # Parent
  BY MultiAssumption DEF Proc, Parent, Conn
<1>3. /\ \A r \in Proc : me(r)' = me(r) /\ (Forked(r) <=> Forked(r)')
      /\ proc'[Parent].pc = proc[Parent].pc /\ proc'[Parent].cmd = proc[Parent].cmd
      /\ proc'[Parent].ops = proc[Parent].ops
  BY <1>1, <1>2 DEF ChildMoves, SameButRaced, me, Forked
<1>4. PlacesInv'
  <2>1. ASSUME NEW c \in Conn
        PROVE  /\ proc'[c].pc \in ChildAt /\ proc'[c].cmd # "login"
               /\ InLoop(c)' => proc'[c].cmd # "none"
               /\ proc'[c].cmd = "exit" \/ proc'[c].pc \in {"clear_name", "clear_pid", "clear_rest"} =>
                     proc'[c].ops > 0
               /\ proc'[c].pc = "set_name" => proc'[c].name \in Name
    BY <1>1, <1>2 DEF ChildMoves, SameButRaced, PlacesInv, InLoop
  <2> QED
    BY <1>2, <1>3, <2>1 DEF PlacesInv, InLoop
<1>5. \A i \in Id : client_pid'[i] = client_pid[i] \/ client_pid'[i] = 0
  BY ChildPid
<1>6. ForksInv'
  BY <1>2, <1>3, <1>5 DEF ForksInv, InLoop
<1>7. HandlerInv'
  BY <1>1 DEF HandlerInv, ChildMoves, SameButRaced, Alive
<1>8. PidsInv'
  <2>1. SlotOwned'
    <3> SUFFICES ASSUME NEW d \in Conn, Alive(d)', proc'[d].pc # "clear_rest"
                 PROVE  \/ client_pid'[me(d)] = d
                        \/ /\ client_pid'[me(d)] = 0 /\ proc[Parent].pc \in {"set_pid", "dead"}
                           /\ proc[Parent].ops = d
      BY <1>2, <1>3 DEF SlotOwned
    <3>1. Holds(d)
      BY <1>1, <1>2 DEF ChildMoves, SameButRaced, Alive, Holds
    <3>2. \/ client_pid[me(d)] = d
          \/ /\ client_pid[me(d)] = 0 /\ proc[Parent].pc \in {"set_pid", "dead"}
             /\ proc[Parent].ops = d
      BY <3>1 DEF PidsInv, SlotOwned, Holds, Alive
    <3>3. me(d) \in Id
      BY <3>1 DEF PlacesInv, Holds, Forked
    <3>4. CASE client_pid' = client_pid
      BY <3>2, <3>4
    <3>5. CASE /\ proc[p].pc = "clear_pid" /\ proc'[p].pc = "clear_rest"
               /\ \A i \in Id : client_pid'[i] = IF i = me(p) THEN 0 ELSE client_pid[i]
      <4>1. d # p /\ Holds(p)
        BY <3>5 DEF Holds
      <4>2. me(d) # me(p)
        BY <3>1, <4>1, IdsApart DEF PidsInv
      <4> QED
        BY <3>2, <3>3, <3>5, <4>2
    <3> QED
      BY <3>4, <3>5, ChildPid
  <2>2. \A i \in Id : client_pid[i] \in Conn \cup {0}
    BY DEF TypeOK
  <2> QED
    BY <1>2, <1>3, <1>5, <2>1, <2>2 DEF PidsInv
<1> QED
  BY <1>4, <1>6, <1>7, <1>8

-----------------------------------------------------------------------------
(* Names.                                                                  *)

\* A child as far as its name goes: it comes to no name by this step.
SameName(c) ==
    /\ me(c)' = me(c) /\ proc'[c].raced = proc[c].raced
    /\ (Named(c) => Named(c)') /\ (Holds(c)' => Holds(c))
    /\ proc'[c].pc = "set_name" => proc[c].pc = "set_name" /\ proc'[c].name = proc[c].name

LEMMA NamesStay ==
    ASSUME NamesInv, client_name' = client_name, \A c \in Conn : SameName(c)
    PROVE  NamesInv'
<1>1. \A i \in Id : client_name'[i] # NoName => \E c \in Conn : Named(c)' /\ me(c)' = i
  BY DEF NamesInv, SameName
<1>2. \A c, d \in Conn :
          c # d /\ Holds(c)' /\ Holds(d)' /\ client_name'[me(c)'] = client_name'[me(d)'] =>
              client_name'[me(c)'] = NoName \/ proc'[c].raced \/ proc'[d].raced
  BY DEF NamesInv, SameName
<1>3. \A c \in Conn : proc'[c].pc = "set_name" /\ ~proc'[c].raced =>
          \A i \in Id : client_name'[i] # proc'[c].name
  BY DEF NamesInv, SameName
<1> QED
  BY <1>1, <1>2, <1>3 DEF NamesInv

LEMMA LoopNames ==
    ASSUME TypeOK, PlacesInv, NamesInv, NEW p \in Proc,
           SkipAbsent(p) \/ FindPresent(p) \/ WriteMessage(p) \/ Signal(p)
    PROVE  NamesInv'
<1>1. LoopMoves(p) /\ client_name' = client_name
  BY LoopGoes
<1>2. ASSUME NEW c \in Conn PROVE SameName(c)
  BY <1>1, MultiAssumption DEF LoopMoves, Killed, SameBut, SameName, Named, Holds, Alive, InLoop,
                               me, Proc, Conn, Parent
<1> QED
  BY <1>1, <1>2, NamesStay

LEMMA ParentNames ==
    ASSUME TypeOK, PlacesInv, ForksInv, PidsInv, NamesInv,
           Accept \/ (\E i \in Id : Fork(i)) \/ SetPid
    PROVE  NamesInv'
<1>1. Parent \notin Conn /\ Conn \subseteq Proc
  BY MultiAssumption DEF Proc, Parent, Conn
<1>2. client_name' = client_name
  BY DEF Accept, Fork, SetPid, shared
<1>3. CASE Accept \/ SetPid
  <2>1. \A c \in Conn : proc'[c] = proc[c]
    BY <1>1, <1>3, AcceptBegins, SetPidMoves DEF BeginsAt, MovesTo, BecomesAt
  <2>2. \A c \in Conn : SameName(c)
    BY <2>1 DEF SameName, Named, Holds, me
  <2> QED
    BY <1>2, <2>2, NamesStay
<1>4. ASSUME NEW i \in Id, Fork(i) PROVE NamesInv'
  <2>1. PICK n \in Conn :
            /\ proc[Parent].pc = "choose" /\ ~Forked(n)
            /\ \A r \in Conn : r # n => proc'[r] = proc[r]
            /\ proc'[n].pc = "born" /\ me(n)' = i
    BY <1>1, <1>4, ForkGoes DEF me
  <2>2. client_name[i] = NoName
    <3>1. ASSUME NEW c \in Conn, Named(c), me(c) = i PROVE FALSE
      <4>1. client_pid[i] = c
        BY <2>1, <3>1 DEF PidsInv, SlotOwned, Named, Holds, Alive
      <4>2. client_pid[i] = 0
        BY <1>4 DEF Fork
      <4>3. c # 0
        BY DEF Conn
      <4> QED
        BY <4>1, <4>2, <4>3
    <3> QED
      BY <3>1 DEF NamesInv
  <2>3. \A c \in Conn : c # n => /\ me(c)' = me(c) /\ proc'[c].raced = proc[c].raced
                                 /\ (Named(c) <=> Named(c)') /\ (Holds(c) <=> Holds(c)')
                                 /\ proc'[c].pc = proc[c].pc /\ proc'[c].name = proc[c].name
    BY <2>1 DEF me, Named, Holds
  <2>4. \A j \in Id : client_name'[j] # NoName => \E c \in Conn : Named(c)' /\ me(c)' = j
    <3>1. ~Named(n)
      BY <2>1 DEF Named, Holds, Forked
    <3> QED
      BY <1>2, <2>3, <3>1 DEF NamesInv
  <2>5. \A c, d \in Conn :
            c # d /\ Holds(c)' /\ Holds(d)' /\ client_name'[me(c)'] = client_name'[me(d)'] =>
                client_name'[me(c)'] = NoName \/ proc'[c].raced \/ proc'[d].raced
    <3> SUFFICES ASSUME NEW c \in Conn, NEW d \in Conn, c # d, Holds(c)', Holds(d)',
                        client_name'[me(c)'] = client_name'[me(d)']
                 PROVE  client_name'[me(c)'] = NoName \/ proc'[c].raced \/ proc'[d].raced
      OBVIOUS
    <3>1. CASE c = n
      BY <1>2, <2>1, <2>2, <3>1
    <3>2. CASE d = n
      BY <1>2, <2>1, <2>2, <3>2
    <3>3. CASE c # n /\ d # n
      BY <1>2, <2>3, <3>3 DEF NamesInv
    <3> QED
      BY <3>1, <3>2, <3>3
  <2>6. \A c \in Conn : proc'[c].pc = "set_name" /\ ~proc'[c].raced =>
            \A j \in Id : client_name'[j] # proc'[c].name
    BY <1>2, <2>1, <2>3 DEF NamesInv
  <2> QED
    BY <2>4, <2>5, <2>6 DEF NamesInv
<1> QED
  BY <1>3, <1>4

LEMMA CheckNames ==
    ASSUME TypeOK, PlacesInv, NamesInv, NEW p \in Conn, NEW n \in Name, CheckName(p, n)
    PROVE  NamesInv'
<1>1. /\ proc[p].pc = "prompt" /\ BecomesAt(p, proc'[p]) /\ me(p)' = me(p)
      /\ proc'[p].raced = (proc[p].raced \/ Unentered(n))
      /\ IF Used(n) THEN proc'[p].pc = "prompt" ELSE proc'[p].pc = "set_name" /\ proc'[p].name = n
  BY CheckLooks DEF Types, At, me
<1>2. client_name' = client_name
  BY DEF CheckName, shared
<1>3. \A c \in Conn : c # p => proc'[c] = proc[c]
  BY <1>1 DEF BecomesAt, Proc
<1>4. \A c \in Conn : /\ me(c)' = me(c) /\ (proc[c].raced => proc'[c].raced)
                      /\ (Named(c) <=> Named(c)') /\ (Holds(c) <=> Holds(c)')
  BY <1>1, <1>3 DEF me, Named, Holds
<1>5. ~Used(n) /\ ~Unentered(n) => \A i \in Id : client_name[i] # n
  BY DEF Used, Unentered
<1>6. \A i \in Id : client_name'[i] # NoName => \E c \in Conn : Named(c)' /\ me(c)' = i
  BY <1>2, <1>4 DEF NamesInv
<1>7. \A c, d \in Conn :
          c # d /\ Holds(c)' /\ Holds(d)' /\ client_name'[me(c)'] = client_name'[me(d)'] =>
              client_name'[me(c)'] = NoName \/ proc'[c].raced \/ proc'[d].raced
  BY <1>2, <1>4 DEF NamesInv
<1>8. ASSUME NEW c \in Conn, proc'[c].pc = "set_name", ~proc'[c].raced
      PROVE  \A i \in Id : client_name'[i] # proc'[c].name
  <2>1. CASE c = p
    BY <1>1, <1>2, <1>5, <1>8, <2>1
  <2>2. CASE c # p
    BY <1>2, <1>3, <1>8, <2>2 DEF NamesInv
  <2> QED
    BY <2>1, <2>2
<1> QED
  BY <1>6, <1>7, <1>8 DEF NamesInv

LEMMA SetNames ==
    ASSUME TypeOK, PlacesInv, PidsInv, NamesInv, NEW p \in Conn, SetName(p)
    PROVE  NamesInv'
<1> DEFINE n == proc[p].name
<1>1. /\ proc[p].pc = "set_name" /\ proc'[p].pc = "check" /\ me(p)' = me(p)
      /\ proc'[p].raced = proc[p].raced
      /\ \A r \in Conn : r # p =>
            /\ SameButRaced(proc'[r], proc[r])
            /\ proc'[r].raced = (proc[r].raced \/ (proc[r].pc = "set_name" /\ proc[r].name = n))
  BY SetNameGoes DEF me, Proc
<1>2. me(p) \in Id
  BY <1>1 DEF PlacesInv, Forked
<1>3. client_name'[me(p)] = n /\ \A i \in Id : i # me(p) => client_name'[i] = client_name[i]
  BY <1>2 DEF SetName, TypeOK
<1> HIDE DEF n
<1>4. \A c \in Conn : /\ me(c)' = me(c) /\ (proc[c].raced => proc'[c].raced)
                      /\ (Named(c) <=> Named(c)') /\ (Holds(c) <=> Holds(c)')
  BY <1>1 DEF me, Named, Holds, SameButRaced
<1>5. Named(p) /\ Holds(p)
  BY <1>1 DEF Named, Holds
<1>6. \A i \in Id : client_name'[i] # NoName => \E c \in Conn : Named(c)' /\ me(c)' = i
  BY <1>3, <1>4, <1>5 DEF NamesInv
<1>7. ASSUME NEW c \in Conn, NEW d \in Conn, c # d, Holds(c), Holds(d),
             client_name'[me(c)] = client_name'[me(d)], client_name'[me(c)] # NoName
      PROVE  proc'[c].raced \/ proc'[d].raced
  <2>1. me(c) \in Id /\ me(d) \in Id /\ me(c) # me(d)
    BY <1>7, IdsApart DEF PidsInv
  <2>2. CASE c # p /\ d # p
    <3>1. me(c) # me(p) /\ me(d) # me(p)
      BY <1>5, <1>7, <2>2, IdsApart DEF PidsInv
    <3> QED
      BY <1>3, <1>4, <1>7, <2>1, <3>1 DEF NamesInv
  <2>3. CASE c = p \/ d = p
    <3>1. ~proc[p].raced => \A i \in Id : client_name[i] # n
      BY <1>1 DEF NamesInv, n
    <3> QED
      BY <1>1, <1>3, <1>7, <2>1, <2>3, <3>1
  <2> QED
    BY <2>2, <2>3
<1>8. ASSUME NEW c \in Conn, proc'[c].pc = "set_name", ~proc'[c].raced
      PROVE  \A i \in Id : client_name'[i] # proc'[c].name
  <2>1. c # p
    BY <1>1, <1>8
  <2>2. proc[c].pc = "set_name" /\ proc'[c].name = proc[c].name /\ ~proc[c].raced /\ proc[c].name # n
    BY <1>1, <1>8, <2>1 DEF SameButRaced
  <2> QED
    BY <1>3, <2>2 DEF NamesInv
<1> QED
  BY <1>4, <1>6, <1>7, <1>8 DEF NamesInv

LEMMA ClearNames ==
    ASSUME TypeOK, PlacesInv, PidsInv, NamesInv, NEW p \in Conn, ClearName(p)
    PROVE  NamesInv'
<1>1. /\ proc[p].pc = "clear_name" /\ proc'[p].pc = "clear_pid" /\ me(p)' = me(p)
      /\ proc'[p].raced = proc[p].raced /\ \A r \in Conn : r # p => proc'[r] = proc[r]
  BY StepsThatMove DEF MovesTo, BecomesAt, SameBut, me, Proc
<1>2. me(p) \in Id
  BY <1>1 DEF PlacesInv, Forked
<1>3. client_name'[me(p)] = NoName /\ \A i \in Id : i # me(p) => client_name'[i] = client_name[i]
  BY <1>2 DEF ClearName, TypeOK
<1>4. \A c \in Conn : /\ me(c)' = me(c) /\ proc[c].raced = proc'[c].raced
                      /\ (c # p => (Named(c) <=> Named(c)')) /\ (Holds(c) <=> Holds(c)')
  BY <1>1 DEF me, Named, Holds
<1>5. \A i \in Id : client_name'[i] # NoName => \E c \in Conn : Named(c)' /\ me(c)' = i
  BY <1>3, <1>4 DEF NamesInv
<1>6. \A c, d \in Conn :
          c # d /\ Holds(c)' /\ Holds(d)' /\ client_name'[me(c)'] = client_name'[me(d)'] =>
              client_name'[me(c)'] = NoName \/ proc'[c].raced \/ proc'[d].raced
  <2>1. \A c \in Conn : Holds(c) => me(c) \in Id
    BY DEF PlacesInv, Holds, Forked
  <2> QED
    BY <1>3, <1>4, <2>1 DEF NamesInv
<1>7. \A c \in Conn : proc'[c].pc = "set_name" /\ ~proc'[c].raced =>
          \A i \in Id : client_name'[i] # proc'[c].name
  <2>1. \A c \in Conn : proc[c].pc = "set_name" => proc[c].name # NoName
    BY MultiAssumption DEF PlacesInv
  <2> QED
    BY <1>1, <1>3, <2>1 DEF NamesInv
<1> QED
  BY <1>5, <1>6, <1>7 DEF NamesInv

LEMMA ChildNames ==
    ASSUME TypeOK, PlacesInv, PidsInv, NamesInv, NEW p \in Conn, ChildStep(p)
    PROVE  NamesInv'
<1>1. ASSUME NEW n \in Name, CheckName(p, n) PROVE NamesInv'
  BY <1>1, CheckNames
<1>2. CASE SetName(p)
  BY <1>2, SetNames
<1>3. CASE ClearName(p)
  BY <1>3, ClearNames
<1>4. ASSUME NEW c \in {"tell", "yell", "exit"}, NEW n \in Nat, Types(p, c), BeginsAt(p, c, n),
             client_name' = client_name
      PROVE  NamesInv'
  <2>1. \A d \in Conn : SameName(d)
    BY <1>4 DEF BeginsAt, BecomesAt, Types, At, SameName, Named, Holds, me, Proc
  <2> QED
    BY <1>4, <2>1, NamesStay
<1>5. CASE (\E i \in Id : Tell(p, i)) \/ Yell(p) \/ Exit(p)
  <2>1. Id \subseteq Nat /\ 1 \in Nat
    BY DEF Id
  <2>2. client_name' = client_name
    BY <1>5 DEF Tell, Yell, Exit, Begin, shared
  <2> QED
    BY <1>4, <1>5, <2>1, <2>2, UserBegins
<1>6. CASE InstallHandlers(p) \/ ClearPid(p) \/ ClearRest(p)
  <2>1. client_name' = client_name
    BY <1>6 DEF InstallHandlers, ClearPid, ClearRest, shared
  <2>2. \A d \in Conn : SameName(d)
    BY <1>6, StepsThatMove DEF MovesTo, BecomesAt, SameBut, SameName, Named, Holds, me, Proc
  <2> QED
    BY <2>1, <2>2, NamesStay
<1> QED
  BY <1>1, <1>2, <1>3, <1>5, <1>6 DEF ChildStep, User

-----------------------------------------------------------------------------
(* Messages.                                                               *)

\* How a process goes on, as far as its messages go: what Earlier says of the
\* messages of the command it is running stays true.
Continues(r) ==
    LET was == proc[r]
        is  == proc'[r]
    IN  Forked(r) =>
        /\ Forked(r)' /\ (r # Parent => me(r)' = me(r)) /\ was.ops <= is.ops
        /\ was.ops = is.ops =>
              /\ is.pc \in {"check", "write"} =>
                    \/ was.pc = "set_name"
                    \/ /\ is.cmd = was.cmd
                       /\ \/ was.pc \in {"check", "write"} /\ was.k <= is.k
                          \/ was.pc = "kill" /\ is.k = was.k + 1 /\ is.cmd # "tell"
              /\ is.pc = "kill" => was.pc \in {"write", "kill"} /\ is.k = was.k
              /\ is.pc = "set_name" => was.pc = "set_name"

\* A process that was writing its message, and is writing it still.
WritesOn(r) ==
    proc'[r].pc \in {"write", "kill"} =>
        /\ proc[r].pc \in {"write", "kill"} /\ proc'[r].k = proc[r].k
        /\ proc'[r].msg = proc[r].msg /\ proc'[r].ops = proc[r].ops

LEMMA ToldStays ==
    ASSUME TypeOK, TypeOK', PlacesInv, \A r \in Proc : Continues(r),
           NEW m \in Message, Told(m), Earlier(m)
    PROVE  Told(m)' /\ Earlier(m)'
<1> DEFINE p == m.from
<1>1. /\ p \in Proc /\ m.to \in Conn /\ Forked(p) /\ Forked(m.to) /\ m.nth <= proc[p].ops
      /\ m.nth \in Nat /\ m.to # Parent /\ m.to \in Proc
  <2>1. Parent \notin Conn /\ Conn \subseteq Proc
    BY MultiAssumption DEF Parent, Conn, Proc
  <2> QED
    BY <2>1 DEF Told, Message
<1>2. /\ proc[p].ops \in Nat /\ proc'[p].ops \in Nat /\ proc[p].k \in Nat /\ proc'[p].k \in Nat
      /\ me(m.to) \in Nat
  <2>1. proc[p] \in Process /\ proc'[p] \in Process
    BY <1>1 DEF TypeOK
  <2>2. me(m.to) \in Id
    BY <1>1 DEF PlacesInv
  <2> QED
    BY <2>1, <2>2, ProcessFields DEF Id
<1>3. Continues(p) /\ Continues(m.to)
  BY <1>1
<1>4. me(m.to)' = me(m.to) /\ Forked(m.to)' /\ Forked(p)' /\ proc[p].ops <= proc'[p].ops
  BY <1>1, <1>3 DEF Continues
<1>5. Told(m)'
  BY <1>1, <1>2, <1>4 DEF Told
<1>6. Earlier(m)'
  <2> SUFFICES ASSUME m.nth = proc'[p].ops
               PROVE  /\ proc'[p].pc \in {"check", "write"} =>
                             proc'[p].cmd # "tell" /\ me(m.to) < proc'[p].k
                      /\ proc'[p].pc = "kill" => me(m.to) <= proc'[p].k
                      /\ proc'[p].pc # "set_name"
    BY <1>4 DEF Earlier
  <2>1. proc[p].ops = proc'[p].ops /\ m.nth = proc[p].ops
    BY <1>1, <1>2, <1>4
  <2>2. /\ proc[p].pc \in {"check", "write"} => proc[p].cmd # "tell" /\ me(m.to) < proc[p].k
        /\ proc[p].pc = "kill" => me(m.to) <= proc[p].k
        /\ proc[p].pc # "set_name"
    BY <2>1 DEF Earlier
  <2> QED
    BY <1>1, <1>2, <1>3, <2>1, <2>2 DEF Continues
<1> QED
  BY <1>5, <1>6

LEMMA WritingStays ==
    ASSUME \A r \in Proc : Continues(r), NEW p \in Proc, Writing(p), WritesOn(p)
    PROVE  Writing(p)'
<1>1. SUFFICES ASSUME proc'[p].pc \in {"write", "kill"} PROVE Writing(p)'
  BY DEF Writing
<1>2. PICK m : m = proc[p].msg
  OBVIOUS
<1>3. /\ proc'[p].msg = m /\ proc'[p].k = proc[p].k /\ proc'[p].ops = proc[p].ops
      /\ m.from = p /\ m.nth = proc[p].ops /\ m.to \in Conn
      /\ Forked(m.to) /\ me(m.to) = proc[p].k
  BY <1>1, <1>2 DEF WritesOn, Writing
<1>4. m.to # Parent /\ m.to \in Proc
  BY <1>3, MultiAssumption DEF Parent, Conn, Proc
<1>5. Forked(m.to)' /\ me(m.to)' = me(m.to)
  BY <1>3, <1>4 DEF Continues
<1> QED
  BY <1>3, <1>5 DEF Writing, Forked, me

\* The cells are as they were, but for some that were cleared.
LEMMA CellsKept ==
    ASSUME TypeOK, HandlerInv, CellsInv, \A r \in Proc : Continues(r),
           shown' = shown, printed' = printed, scan' = scan,
           \A ids \in Id \X Id : tell_table'[ids] \in {tell_table[ids], Nothing}
    PROVE  CellsInv' /\ Written' \subseteq Written
<1>1. Written' \subseteq Written
  BY DEF Written
<1>2. ShownOnce'
  <2> SUFFICES ASSUME NEW s \in shown, NEW ids \in Id \X Id, s.msg = tell_table'[ids]
               PROVE  printed[s.by] /\ Inbox(s.by)' = ids
    BY DEF ShownOnce
  <2>1. s.msg = tell_table[ids]
    BY DEF CellsInv
  <2>2. printed[s.by] /\ Inbox(s.by) = ids
    BY <2>1 DEF CellsInv, ShownOnce
  <2>3. s.by \in Proc
    BY DEF TypeOK
  <2>4. s.by # Parent /\ Forked(s.by)
    BY <2>2, <2>3 DEF HandlerInv, Alive, Forked
  <2>5. me(s.by)' = me(s.by)
    BY <2>3, <2>4 DEF Continues
  <2> QED
    BY <2>2, <2>5 DEF Inbox
<1>3. /\ \A a, b \in Id \X Id :
             tell_table'[a] = tell_table'[b] /\ tell_table'[a] # Nothing => a = b
      /\ \A s \in shown' : s.msg # Nothing
  BY DEF CellsInv
<1> QED
  BY <1>1, <1>2, <1>3 DEF CellsInv

\* So a step that writes and prints nothing keeps all there is to say of messages.
LEMMA MessagesKept ==
    ASSUME TypeOK, TypeOK', PlacesInv, HandlerInv, MessagesInv, \A r \in Proc : Continues(r),
           \A r \in Proc : WritesOn(r) \/ Writing(r)',
           shown' = shown, printed' = printed, scan' = scan,
           \A ids \in Id \X Id : tell_table'[ids] \in {tell_table[ids], Nothing}
    PROVE  MessagesInv'
<1>1. CellsInv' /\ Written' \subseteq Written
  BY CellsKept DEF MessagesInv
<1>2. \A p \in Proc : Writing(p)'
  BY WritingStays DEF MessagesInv
<1>3. ASSUME NEW m \in Written' PROVE Told(m)' /\ Earlier(m)'
  <2>1. m \in Message /\ Told(m) /\ Earlier(m)
    BY <1>1 DEF Written, MessagesInv
  <2> QED
    BY <2>1, ToldStays
<1> QED
  BY <1>1, <1>2, <1>3 DEF MessagesInv

\* A process that stays where it is, or is killed.
LEMMA SameContinues ==
    ASSUME TypeOK, NEW r \in Proc,
           proc'[r] = proc[r] \/ SameButRaced(proc'[r], proc[r]) \/ Killed(r)
    PROVE  Continues(r) /\ WritesOn(r)
<1>1. proc[r].ops \in Nat /\ proc[r].k \in Nat
  BY ProcessFields DEF TypeOK
<1>2. /\ me(r)' = me(r) /\ proc'[r].ops = proc[r].ops /\ proc'[r].k = proc[r].k
      /\ proc'[r].cmd = proc[r].cmd /\ proc'[r].msg = proc[r].msg
      /\ proc'[r].pc = proc[r].pc \/ proc'[r].pc = "dead"
  BY DEF SameButRaced, SameBut, Killed, me
<1>3. Forked(r) => Forked(r)'
  BY <1>2 DEF Forked
<1> HIDE DEF Continues
<1>4. WritesOn(r)
  BY <1>2 DEF WritesOn
<1> QED
  BY <1>1, <1>2, <1>3, <1>4 DEF Continues

\* The process that is in the loop over the ids goes on.
LEMMA LoopContinues ==
    ASSUME TypeOK, PlacesInv, NEW p \in Proc,
           SkipAbsent(p) \/ FindPresent(p) \/ WriteMessage(p) \/ Signal(p)
    PROVE  Continues(p) /\ (~FindPresent(p) => WritesOn(p))
<1>1. proc[p].ops \in Nat /\ proc[p].k \in Nat
  BY ProcessFields DEF TypeOK
<1>2. LoopMoves(p)
  BY LoopGoes
<1>3. me(p)' = me(p) /\ proc'[p].ops = proc[p].ops /\ Forked(p)'
  BY <1>2 DEF LoopMoves, me, Forked
<1>4. CASE SkipAbsent(p) \/ Signal(p)
  <2>1. InLoop(p) /\ proc'[p] = Advance(p)[p] /\ proc[p].pc \in {"check", "kill"}
    <3>1. CASE SkipAbsent(p)
      BY <3>1 DEF SkipAbsent, At, InLoop
    <3>2. CASE Signal(p)
      BY <3>2, SignalGoes DEF InLoop
    <3> QED
      BY <1>4, <3>1, <3>2
  <2>2. /\ proc'[p].pc = AfterId(p)
        /\ AfterId(p) = "check" => proc'[p].k = proc[p].k + 1 /\ proc'[p].cmd = proc[p].cmd
    BY <2>1, AdvanceGoes
  <2>3. /\ AfterId(p) \notin {"write", "kill", "set_name"}
        /\ AfterId(p) = "check" => proc[p].cmd # "tell"
    BY DEF AfterId
  <2> QED
    BY <1>1, <1>3, <2>1, <2>2, <2>3 DEF Continues, WritesOn
<1>5. CASE FindPresent(p)
  <2>1. /\ proc[p].pc = "check" /\ proc'[p].pc = "write" /\ proc'[p].cmd = proc[p].cmd
        /\ proc'[p].k = proc[p].k
    BY <1>5, FindWrites
  <2> QED
    BY <1>1, <1>3, <1>5, <2>1 DEF Continues
<1>6. CASE WriteMessage(p)
  <2>1. /\ proc[p].pc = "write" /\ proc'[p].pc = "kill" /\ proc'[p].cmd = proc[p].cmd
        /\ proc'[p].k = proc[p].k /\ proc'[p].msg = proc[p].msg
    BY <1>6, WriteMoves DEF MovesTo, SameBut
  <2> QED
    BY <1>1, <1>3, <2>1 DEF Continues, WritesOn
<1> QED
  BY <1>4, <1>5, <1>6

\* The message is made up for the process that is at k.
LEMMA FindMessages ==
    ASSUME TypeOK, PlacesInv, PidsInv, NEW p \in Proc, FindPresent(p)
    PROVE  Writing(p)'
<1> DEFINE c == client_pid[proc[p].k]
<1>1. /\ proc[p].pc = "check" /\ c \in Conn /\ proc'[p].ops = proc[p].ops
      /\ proc'[p].k = proc[p].k
      /\ proc'[p].msg = [from |-> p, nth |-> proc[p].ops, to |-> c]
      /\ \A r \in Proc : r # p => proc'[r] = proc[r]
      /\ proc'[p].pc = "write" /\ proc'[p].client_id = proc[p].client_id
  BY FindWrites DEF BecomesAt
<1>2. proc[p].k \in Id /\ c # 0
  BY <1>1 DEF TypeOK, Conn
<1>3. Forked(c) /\ me(c) = proc[p].k
  BY <1>2 DEF PidsInv
<1>4. PICK d \in Conn : d = c
  BY <1>1
<1>5. d \in Proc /\ Forked(d)' /\ me(d)' = me(d)
  BY <1>1, <1>3, <1>4 DEF Forked, me, Proc
<1>6. /\ proc'[p].msg.from = p /\ proc'[p].msg.nth = proc'[p].ops /\ proc'[p].msg.to = d
  BY <1>1, <1>4
<1> QED
  BY <1>1, <1>3, <1>4, <1>5, <1>6 DEF Writing, Forked, me

\* The message is in one cell then, and was nowhere before.
LEMMA WriteMessages ==
    ASSUME TypeOK, TypeOK', PlacesInv, HandlerInv, MessagesInv, NEW p \in Proc, WriteMessage(p),
           \A r \in Proc : Continues(r) /\ WritesOn(r)
    PROVE  MessagesInv'
<1>1. PICK m \in Message : m = proc[p].msg
  BY ProcessFields DEF TypeOK
<1>2. PICK cell \in Id \X Id : cell = <<me(p), proc[p].k>>
  BY DEF TypeOK, WriteMessage, At, me
<1>3. /\ proc[p].pc = "write" /\ proc'[p].pc = "kill" /\ me(p)' = me(p)
      /\ proc'[p].k = proc[p].k /\ proc'[p].ops = proc[p].ops
      /\ shown' = shown /\ printed' = printed /\ scan' = scan
  BY WriteMoves DEF MovesTo, SameBut, me, WriteMessage
<1>4. /\ tell_table'[cell] = m
      /\ \A ids \in Id \X Id : ids # cell => tell_table'[ids] = tell_table[ids]
  BY <1>1, <1>2 DEF TypeOK, WriteMessage
<1>5. /\ m.from = p /\ m.nth = proc[p].ops /\ m.to \in Conn
      /\ Forked(m.to) /\ me(m.to) = proc[p].k
  BY <1>1, <1>3 DEF MessagesInv, Writing
<1>6. proc[p].k \in Nat /\ proc[p].ops \in Nat /\ Forked(p)
  BY <1>3, ProcessFields DEF TypeOK, Forked
<1>7. m # Nothing
  BY <1>5 DEF Nothing, Conn
<1>8. m \notin Written
  <2>1. ~Earlier(m)
    BY <1>3, <1>5, <1>6 DEF Earlier
  <2> QED
    BY <2>1 DEF MessagesInv
<1>9. /\ \A s \in shown : s.msg # m
      /\ \A ids \in Id \X Id : tell_table[ids] # m
  BY <1>7, <1>8 DEF Written
<1>10. Told(m)' /\ Earlier(m)'
  <2>1. m.to # Parent /\ m.to \in Proc
    BY <1>5, MultiAssumption DEF Parent, Conn, Proc
  <2>2. Forked(m.to)' /\ me(m.to)' = me(m.to) /\ Forked(p)'
    BY <1>5, <1>6, <2>1 DEF Continues
  <2> QED
    BY <1>3, <1>5, <1>6, <2>2 DEF Told, Earlier
<1>11. ASSUME NEW x \in Written' PROVE Told(x)' /\ Earlier(x)'
  <2>1. CASE x = m
    BY <1>10, <2>1
  <2>2. CASE x # m
    <3>1. x \in Written
      BY <1>3, <1>4, <2>2 DEF Written
    <3>2. x \in Message /\ Told(x) /\ Earlier(x)
      BY <3>1 DEF Written, MessagesInv
    <3> QED
      BY <3>2, ToldStays
  <2> QED
    BY <2>1, <2>2
<1>12. \A r \in Proc : Writing(r)'
  BY WritingStays DEF MessagesInv
<1>13. CellsInv'
  <2>1. \A a, b \in Id \X Id : tell_table'[a] = tell_table'[b] /\ tell_table'[a] # Nothing => a = b
    BY <1>4, <1>9 DEF MessagesInv, CellsInv
  <2>2. ShownOnce'
    <3> SUFFICES ASSUME NEW s \in shown, NEW ids \in Id \X Id, s.msg = tell_table'[ids]
                 PROVE  printed[s.by] /\ Inbox(s.by)' = ids
      BY <1>3 DEF ShownOnce
    <3>1. s.msg = tell_table[ids]
      BY <1>4, <1>9
    <3>2. printed[s.by] /\ Inbox(s.by) = ids
      BY <3>1 DEF MessagesInv, CellsInv, ShownOnce
    <3>3. s.by \in Proc
      BY DEF TypeOK
    <3>4. s.by # Parent /\ Forked(s.by)
      BY <3>2, <3>3 DEF HandlerInv, Alive, Forked
    <3> QED
      BY <1>3, <3>2, <3>3, <3>4 DEF Inbox, Continues
  <2> QED
    BY <1>3, <2>1, <2>2 DEF MessagesInv, CellsInv
<1> QED
  BY <1>11, <1>12, <1>13 DEF MessagesInv

LEMMA LoopMessages ==
    ASSUME TypeOK, PlacesInv, HandlerInv, PidsInv, MessagesInv, NEW p \in Proc,
           SkipAbsent(p) \/ FindPresent(p) \/ WriteMessage(p) \/ Signal(p)
    PROVE  MessagesInv'
<1>1. TypeOK' /\ LoopMoves(p) /\ UNCHANGED <<scan, printed, shown>>
  BY LoopTyped, LoopGoes
<1>2. Continues(p) /\ (~FindPresent(p) => WritesOn(p))
  BY LoopContinues
<1>3. \A r \in Proc : r # p => Continues(r) /\ WritesOn(r)
  BY <1>1, SameContinues DEF LoopMoves
<1>4. CASE WriteMessage(p)
  <2>1. ~FindPresent(p)
    BY <1>4 DEF WriteMessage, FindPresent, At
  <2> QED
    BY <1>1, <1>2, <1>3, <1>4, <2>1, WriteMessages
<1>5. CASE ~WriteMessage(p)
  <2>1. tell_table' = tell_table
    BY <1>5 DEF SkipAbsent, FindPresent, Signal, shared
  <2>2. WritesOn(p) \/ Writing(p)'
    BY <1>2, FindMessages
  <2> QED
    BY <1>1, <1>2, <1>3, <2>1, <2>2, MessagesKept
<1> QED
  BY <1>4, <1>5

\* The handler prints a message once and clears its cell then.
LEMMA HandlerMessages ==
    ASSUME TypeOK, PlacesInv, HandlerInv, MessagesInv, NEW p \in Proc, Handler(p)
    PROVE  MessagesInv'
<1>1. proc' = proc /\ \A r \in Proc : Inbox(r)' = <<scan'[r], me(r)>>
  BY DEF Handler, HandlerStarts, HandlerSkips, HandlerPrints, HandlerClears, Inbox, me
<1>2. \A r \in Proc : Writing(r)'
  BY <1>1 DEF MessagesInv, Writing, Forked, me
<1>3. Written' \subseteq Written
  <2>1. CASE HandlerPrints(p)
    <3>1. Inbox(p) \in Id \X Id
      BY <2>1, InHandler DEF HandlerPrints
    <3> QED
      BY <2>1, <3>1 DEF HandlerPrints, Written, shared
  <2>2. CASE HandlerStarts(p) \/ HandlerSkips(p)
    BY <2>2 DEF HandlerStarts, HandlerSkips, Written, shared
  <2>3. CASE HandlerClears(p)
    BY <2>3 DEF HandlerClears, Written, TypeOK
  <2> QED
    BY <2>1, <2>2, <2>3 DEF Handler
<1>4. \A m \in Written' : Told(m)' /\ Earlier(m)'
  BY <1>1, <1>3 DEF MessagesInv, Told, Earlier, Forked, me
<1>5. CellsInv'
  <2>1. CASE HandlerStarts(p) \/ HandlerSkips(p)
    <3>1. /\ tell_table' = tell_table /\ shown' = shown /\ printed' = printed /\ ~printed[p]
          /\ \A r \in Proc : r # p => scan'[r] = scan[r]
      BY <2>1 DEF HandlerStarts, HandlerSkips, NextScan, HandlerInv, TypeOK, shared
    <3>2. \A s \in shown : s.by \in Proc
      BY DEF TypeOK
    <3> QED
      BY <1>1, <3>1, <3>2 DEF MessagesInv, CellsInv, ShownOnce, Inbox
  <2>2. CASE HandlerPrints(p)
    <3>1. /\ tell_table' = tell_table /\ scan' = scan /\ printed'[p] /\ ~printed[p]
          /\ \A r \in Proc : r # p => printed'[r] = printed[r]
          /\ shown' = shown \cup {[msg |-> tell_table[Inbox(p)], by |-> p]}
          /\ tell_table[Inbox(p)] # Nothing
      BY <2>2 DEF HandlerPrints, TypeOK, shared
    <3>2. \A s \in shown : s.by \in Proc
      BY DEF TypeOK
    <3>3. Inbox(p) \in Id \X Id
      BY <2>2, InHandler DEF HandlerPrints
    <3>4. \A r \in Proc : Inbox(r)' = Inbox(r)
      BY <1>1, <3>1 DEF Inbox
    <3>5. ASSUME NEW s \in shown', NEW ids \in Id \X Id, s.msg = tell_table[ids]
          PROVE  printed'[s.by] /\ Inbox(s.by)' = ids
      <4>1. CASE s \in shown
        BY <3>1, <3>2, <3>4, <3>5, <4>1 DEF MessagesInv, CellsInv, ShownOnce
      <4>2. CASE s = [msg |-> tell_table[Inbox(p)], by |-> p]
        BY <3>1, <3>3, <3>4, <3>5, <4>2 DEF MessagesInv, CellsInv
      <4> QED
        BY <3>1, <4>1, <4>2
    <3> QED
      BY <3>1, <3>5 DEF MessagesInv, CellsInv, ShownOnce
  <2>3. CASE HandlerClears(p)
    <3>1. /\ shown' = shown /\ printed[p]
          /\ \A r \in Proc : r # p => scan'[r] = scan[r] /\ printed'[r] = printed[r]
          /\ \A ids \in Id \X Id :
                tell_table'[ids] = IF ids = Inbox(p) THEN Nothing ELSE tell_table[ids]
      BY <2>3 DEF HandlerClears, TypeOK, NextScan
    <3>2. \A s \in shown : s.by \in Proc /\ s.msg # Nothing
      BY DEF TypeOK, MessagesInv, CellsInv
    <3>3. ASSUME NEW s \in shown, NEW ids \in Id \X Id, s.msg = tell_table'[ids]
          PROVE  printed'[s.by] /\ Inbox(s.by)' = ids
      <4>1. ids # Inbox(p) /\ s.msg = tell_table[ids]
        BY <3>1, <3>2, <3>3
      <4>2. printed[s.by] /\ Inbox(s.by) = ids
        BY <4>1 DEF MessagesInv, CellsInv, ShownOnce
      <4>3. s.by # p /\ s.by \in Proc
        BY <3>2, <4>1, <4>2
      <4> QED
        BY <1>1, <3>1, <4>2, <4>3 DEF Inbox
    <3> QED
      BY <3>1, <3>3 DEF MessagesInv, CellsInv, ShownOnce
  <2> QED
    BY <2>1, <2>2, <2>3 DEF Handler
<1> QED
  BY <1>2, <1>4, <1>5 DEF MessagesInv

\* A process that has begun its next command is told nothing by its earlier messages.
LEMMA NewContinues ==
    ASSUME TypeOK, NEW p \in Proc, me(p)' = me(p), proc'[p].ops = proc[p].ops + 1,
           proc'[p].pc \in {"check", "prompt", "set_name"}
    PROVE  Continues(p) /\ WritesOn(p)
<1>1. proc[p].ops \in Nat
  BY ProcessFields DEF TypeOK
<1> QED
  BY <1>1 DEF Continues, WritesOn, Forked

\* Nor is one that stays out of its loop and writes no name.
LEMMA ElseContinues ==
    ASSUME TypeOK, NEW p \in Proc, p = Parent \/ me(p)' = me(p) \/ ~Forked(p),
           Forked(p) => Forked(p)' /\ proc[p].ops <= proc'[p].ops,
           proc'[p].pc \notin {"check", "write", "kill", "set_name"}
    PROVE  Continues(p) /\ WritesOn(p)
BY DEF Continues, WritesOn

LEMMA ParentMessages ==
    ASSUME TypeOK, PlacesInv, ForksInv, HandlerInv, PidsInv, MessagesInv,
           Accept \/ (\E i \in Id : Fork(i)) \/ SetPid
    PROVE  MessagesInv'
<1>1. TypeOK'
  BY ParentTyped
<1>2. Parent \in Proc /\ proc[Parent] \in Process /\ proc[Parent].ops \in Nat
  BY ProcessFields DEF TypeOK, Proc
<1>3. UNCHANGED <<tell_table, scan, printed, shown>>
  BY DEF Accept, Fork, SetPid, shared
<1>4. ASSUME Accept PROVE \A r \in Proc : Continues(r) /\ WritesOn(r)
  <2>1. BeginsAt(Parent, "login", 1)
    BY <1>4, AcceptBegins
  <2>2. Continues(Parent) /\ WritesOn(Parent)
    BY <1>2, <2>1, NewContinues DEF BeginsAt, me
  <2>3. \A r \in Proc : r # Parent => Continues(r) /\ WritesOn(r)
    BY <2>1, SameContinues DEF BeginsAt, BecomesAt
  <2> QED
    BY <2>2, <2>3
<1>5. ASSUME SetPid PROVE \A r \in Proc : Continues(r) /\ WritesOn(r)
  <2>1. MovesTo(Parent, "accept")
    BY <1>5, SetPidMoves
  <2>2. Continues(Parent) /\ WritesOn(Parent)
    <3>1. /\ Forked(Parent)' /\ proc'[Parent].ops = proc[Parent].ops
          /\ proc'[Parent].pc = "accept"
      BY <2>1 DEF MovesTo, SameBut, Forked
    <3> QED
      BY <1>2, <3>1, ElseContinues
  <2>3. \A r \in Proc : r # Parent => Continues(r) /\ WritesOn(r)
    BY <2>1, SameContinues DEF MovesTo, BecomesAt
  <2> QED
    BY <2>2, <2>3
<1>6. ASSUME NEW i \in Id, Fork(i) PROVE \A r \in Proc : Continues(r) /\ WritesOn(r)
  <2>1. PICK c \in Conn :
            /\ ~Forked(c) /\ c # Parent /\ c \in Proc
            /\ \A r \in Proc : r \notin {c, Parent} => proc'[r] = proc[r]
            /\ proc'[c].pc = "born" /\ proc'[c].ops = 0
            /\ proc'[Parent].pc = "set_pid" /\ proc'[Parent].ops = proc[Parent].ops
    BY <1>6, ForkGoes DEF Proc
  <2>2. Continues(Parent) /\ WritesOn(Parent)
    BY <1>2, <2>1, ElseContinues DEF Forked
  <2>3. Continues(c) /\ WritesOn(c)
    BY <2>1 DEF Continues, WritesOn
  <2>4. \A r \in Proc : r \notin {c, Parent} => Continues(r) /\ WritesOn(r)
    BY <2>1, SameContinues
  <2> QED
    BY <2>2, <2>3, <2>4
<1> QED
  BY <1>1, <1>3, <1>4, <1>5, <1>6, MessagesKept

LEMMA ChildContinues ==
    ASSUME TypeOK, PlacesInv, NEW p \in Conn, ChildStep(p)
    PROVE  \A r \in Proc : Continues(r) /\ WritesOn(r)
<1>1. ChildMoves(p) /\ p \in Proc /\ Forked(p) /\ Forked(p)' /\ me(p)' = me(p)
  BY ChildGoes DEF ChildMoves, Proc, Forked
<1>2. \A r \in Proc : r # p => Continues(r) /\ WritesOn(r)
  BY <1>1, SameContinues DEF ChildMoves
<1>3. CASE User(p)
  <2>1. proc'[p].ops = proc[p].ops + 1 /\ proc'[p].pc \in {"check", "prompt", "set_name"}
    <3>1. CASE \E n \in Name : CheckName(p, n)
      BY <3>1, CheckLooks
    <3>2. CASE ~\E n \in Name : CheckName(p, n)
      BY <1>3, <3>2, UserBegins DEF User, BeginsAt
    <3> QED
      BY <3>1, <3>2
  <2> QED
    BY <1>1, <1>2, <2>1, NewContinues
<1>4. CASE SetName(p)
  <2>1. /\ proc[p].pc = "set_name" /\ proc'[p].pc = "check" /\ proc'[p].ops = proc[p].ops
        /\ proc[p].ops <= proc'[p].ops
    BY <1>1, <1>4, SetNameGoes DEF ChildMoves
  <2> QED
    BY <1>1, <1>2, <2>1 DEF Continues, WritesOn
<1>5. CASE InstallHandlers(p) \/ ClearName(p) \/ ClearPid(p) \/ ClearRest(p)
  <2>1. /\ proc'[p].pc \notin {"check", "write", "kill", "set_name"}
        /\ proc[p].ops <= proc'[p].ops
    BY <1>1, <1>5, StepsThatMove DEF MovesTo, ChildMoves
  <2> QED
    BY <1>1, <1>2, <2>1, ElseContinues
<1> QED
  BY <1>3, <1>4, <1>5 DEF ChildStep

LEMMA ChildMessages ==
    ASSUME TypeOK, PlacesInv, HandlerInv, MessagesInv, NEW p \in Conn, ChildStep(p)
    PROVE  MessagesInv'
<1>1. TypeOK' /\ (\A r \in Proc : Continues(r) /\ WritesOn(r))
  BY ChildTyped, ChildContinues DEF ChildStep
<1>2. UNCHANGED <<scan, printed, shown>>
  BY ChildGoes
<1>3. \A ids \in Id \X Id : tell_table'[ids] \in {tell_table[ids], Nothing}
  <2>1. CASE ClearRest(p)
    BY <2>1 DEF ClearRest
  <2>2. CASE ~ClearRest(p)
    BY <2>2 DEF ChildStep, User, Tell, Yell, Exit, Begin, CheckName, InstallHandlers, SetName,
                ClearName, ClearPid, shared
  <2> QED
    BY <2>1, <2>2
<1> QED
  BY <1>1, <1>2, <1>3, MessagesKept

-----------------------------------------------------------------------------
(* Who is gone.                                                            *)

\* Nobody comes back; a process still writes for one whose pid is there, or gone.
LEMMA GoneStays ==
    ASSUME PidsInv, GoneInv, TypeOK,
           \A c \in Conn : Gone(c) => Gone(c)',
           \A p \in Proc : WritesOn(p) \/ (client_pid[proc[p].k] = proc[p].msg.to)',
           MessagesInv,
           proc'[Parent].pc = "dead" => proc[Parent].pc = "dead" \/ \E c \in Conn : Gone(c)',
           \A i \in Id, c \in Conn : client_pid[i] = c => client_pid'[i] = c \/ Gone(c)'
    PROVE  GoneInv'
<1>1. ParentOutlives'
  BY DEF GoneInv, ParentOutlives, Gone
<1>2. ASSUME NEW p \in Proc, proc'[p].pc \in {"write", "kill"}
      PROVE  (client_pid[proc[p].k] = proc[p].msg.to \/ Gone(proc[p].msg.to))'
  <2> SUFFICES ASSUME WritesOn(p)
               PROVE  (client_pid[proc[p].k] = proc[p].msg.to \/ Gone(proc[p].msg.to))'
    OBVIOUS
  <2>1. PICK c \in Conn : c = proc[p].msg.to
    BY <1>2 DEF WritesOn, MessagesInv, Writing
  <2>2. /\ proc[p].pc \in {"write", "kill"} /\ proc'[p].k = proc[p].k /\ proc'[p].msg.to = c
        /\ proc[p].k \in Id
    BY <1>2, <2>1 DEF WritesOn, TypeOK
  <2>3. client_pid[proc[p].k] = c \/ Gone(c)
    BY <2>1, <2>2 DEF GoneInv
  <2>4. client_pid'[proc[p].k] = c \/ Gone(c)'
    BY <2>2, <2>3
  <2> QED
    BY <2>2, <2>4 DEF Gone
<1> QED
  BY <1>1, <1>2 DEF GoneInv

LEMMA LoopGone ==
    ASSUME TypeOK, PlacesInv, PidsInv, MessagesInv, GoneInv, NEW p \in Proc,
           SkipAbsent(p) \/ FindPresent(p) \/ WriteMessage(p) \/ Signal(p)
    PROVE  GoneInv'
<1>1. LoopMoves(p) /\ client_pid' = client_pid
  BY LoopGoes
<1>2. Parent \in Proc /\ Parent \notin Conn /\ Conn \subseteq Proc
  BY MultiAssumption DEF Proc, Parent, Conn
<1>3. \A c \in Conn : Gone(c) => Gone(c)'
  BY <1>1, <1>2 DEF LoopMoves, Killed, Gone, InLoop
<1>4. \A r \in Proc : r # p => WritesOn(r)
  BY <1>1, SameContinues DEF LoopMoves
<1>5. WritesOn(p) \/ (client_pid[proc[p].k] = proc[p].msg.to)'
  <2>1. CASE FindPresent(p)
    <3>1. /\ proc'[p].msg = [from |-> p, nth |-> proc[p].ops, to |-> client_pid[proc[p].k]]
          /\ proc'[p].k = proc[p].k
      BY <2>1, FindWrites
    <3>2. proc'[p].msg.to = client_pid[proc[p].k]
      BY <3>1
    <3> QED
      BY <1>1, <3>1, <3>2
  <2>2. CASE ~FindPresent(p)
    BY <2>2, LoopContinues
  <2> QED
    BY <2>1, <2>2
<1>6. ASSUME proc'[Parent].pc = "dead", proc[Parent].pc # "dead"
      PROVE  \E c \in Conn : Gone(c)
  <2>1. p # Parent
    BY <1>1, <1>6 DEF LoopMoves, InLoop
  <2>2. Signal(p)
    BY <1>2, <1>6, <2>1, FindWrites, WriteMoves, AdvanceGoes
       DEF SkipAbsent, At, InLoop, BecomesAt, MovesTo
  <2>3. proc[p].pc = "kill" /\ client_pid[proc[p].k] = 0
    BY <1>2, <1>6, <2>1, <2>2, SignalGoes
  <2>4. proc[p].msg.to \in Conn
    BY <2>3 DEF MessagesInv, Writing
  <2>5. proc[p].msg.to # 0
    BY <2>4 DEF Conn
  <2> QED
    BY <2>3, <2>4, <2>5 DEF GoneInv
<1> QED
  BY <1>1, <1>3, <1>4, <1>5, <1>6, GoneStays

LEMMA HandlerGone ==
    ASSUME GoneInv, NEW p \in Proc, Handler(p)
    PROVE  GoneInv'
<1>1. UNCHANGED <<client_pid, proc>>
  BY DEF Handler, HandlerStarts, HandlerSkips, HandlerPrints, HandlerClears, shared
<1> QED
  BY <1>1 DEF GoneInv, Gone, ParentOutlives

LEMMA ParentGone ==
    ASSUME TypeOK, PlacesInv, ForksInv, PidsInv, MessagesInv, GoneInv,
           Accept \/ (\E i \in Id : Fork(i)) \/ SetPid
    PROVE  GoneInv'
<1>1. Parent \in Proc /\ Parent \notin Conn /\ Conn \subseteq Proc
  BY MultiAssumption DEF Proc, Parent, Conn
<1>2. CASE Accept
  <2>1. BeginsAt(Parent, "login", 1) /\ client_pid' = client_pid
    BY <1>2, AcceptBegins DEF Accept, shared
  <2>2. \A r \in Proc : r # Parent => proc'[r] = proc[r]
    BY <2>1 DEF BeginsAt, BecomesAt
  <2>3. proc'[Parent].pc = "check"
    BY <2>1 DEF BeginsAt
  <2>4. \A r \in Proc : WritesOn(r)
    BY <2>2, <2>3, SameContinues DEF WritesOn
  <2>5. \A c \in Conn : Gone(c) => Gone(c)'
    BY <1>1, <2>2 DEF Gone
  <2> QED
    BY <2>1, <2>3, <2>4, <2>5, GoneStays
<1>3. CASE SetPid
  <2>1. proc[Parent].pc = "set_pid" /\ MovesTo(Parent, "accept")
    BY <1>3, SetPidMoves
  <2>2. \A r \in Proc : r # Parent => proc'[r] = proc[r]
    BY <2>1 DEF MovesTo, BecomesAt
  <2>3. proc'[Parent].pc = "accept"
    BY <2>1 DEF MovesTo
  <2>4. \A r \in Proc : WritesOn(r)
    BY <2>2, <2>3, SameContinues DEF WritesOn
  <2>5. \A c \in Conn : Gone(c) => Gone(c)'
    BY <1>1, <2>2 DEF Gone
  <2>6. \A i \in Id, c \in Conn : client_pid[i] = c => client_pid'[i] = c
    <3>1. client_pid[me(Parent)] = 0
      BY <2>1 DEF ForksInv
    <3>2. client_pid' = [client_pid EXCEPT ![me(Parent)] = proc[Parent].ops]
      BY <1>3 DEF SetPid
    <3>3. \A c \in Conn : c # 0
      BY DEF Conn
    <3> QED
      BY <3>1, <3>2, <3>3 DEF TypeOK
  <2> QED
    BY <2>3, <2>4, <2>5, <2>6, GoneStays
<1>4. ASSUME NEW i \in Id, Fork(i) PROVE GoneInv'
  <2>1. PICK n \in Conn :
            /\ ~Forked(n) /\ n # Parent
            /\ \A r \in Proc : r \notin {n, Parent} => proc'[r] = proc[r]
            /\ proc'[n].pc = "born" /\ proc'[Parent].pc = "set_pid"
    BY <1>4, ForkGoes
  <2>2. client_pid' = client_pid
    BY <1>4 DEF Fork
  <2>3. \A r \in Proc : WritesOn(r)
    BY <2>1, SameContinues DEF WritesOn
  <2>4. \A c \in Conn : Gone(c) => Gone(c)'
    BY <1>1, <2>1 DEF Gone, Forked
  <2> QED
    BY <2>1, <2>2, <2>3, <2>4, GoneStays
<1> QED
  BY <1>2, <1>3, <1>4

LEMMA ChildGone ==
    ASSUME TypeOK, PlacesInv, PidsInv, MessagesInv, GoneInv, NEW p \in Conn, ChildStep(p)
    PROVE  GoneInv'
<1>1. ChildMoves(p)
  BY ChildGoes
<1>2. Parent \in Proc /\ Parent \notin Conn /\ Conn \subseteq Proc /\ p # Parent
  BY MultiAssumption DEF Proc, Parent, Conn
<1>3. \A r \in Proc : WritesOn(r)
  BY ChildContinues
<1>4. \A c \in Conn : Gone(c) => Gone(c)'
  <2>1. \A c \in Conn : c # p => (Gone(c) => Gone(c)')
    BY <1>1, <1>2 DEF ChildMoves, SameButRaced, Gone
  <2>2. proc[p].ops \in Nat /\ proc'[p].ops \in Nat
    BY <1>1, <1>2, ProcessFields DEF TypeOK, ChildMoves
  <2>3. Gone(p) => Gone(p)'
    BY <1>1, <2>2 DEF ChildMoves, Gone, Alive
  <2> QED
    BY <2>1, <2>3
<1>5. proc'[Parent].pc = proc[Parent].pc
  BY <1>1, <1>2 DEF ChildMoves, SameButRaced
<1>6. ASSUME NEW i \in Id, NEW c \in Conn, client_pid[i] = c
      PROVE  client_pid'[i] = c \/ Gone(c)'
  <2>1. CASE client_pid' = client_pid
    BY <1>6, <2>1
  <2>2. CASE /\ proc[p].pc = "clear_pid" /\ proc'[p].pc = "clear_rest"
             /\ \A j \in Id : client_pid'[j] = IF j = me(p) THEN 0 ELSE client_pid[j]
    <3>1. CASE i = me(p)
      <4>1. c # 0
        BY DEF Conn
      <4>2. client_pid[me(p)] \in {p, 0}
        BY <2>2 DEF PidsInv, SlotOwned, Alive
      <4>3. c = p
        BY <1>6, <3>1, <4>1, <4>2
      <4>4. proc'[p].ops > 0
        BY <1>1, <2>2 DEF ChildMoves
      <4> QED
        BY <2>2, <4>3, <4>4 DEF Gone
    <3>2. CASE i # me(p)
      BY <1>6, <2>2, <3>2
    <3> QED
      BY <3>1, <3>2
  <2> QED
    BY <2>1, <2>2, ChildPid
<1> QED
  BY <1>3, <1>4, <1>5, <1>6, GoneStays

-----------------------------------------------------------------------------
(* The invariant.                                                          *)

LEMMA InitIInv == Init => IInv
<1> SUFFICES ASSUME Init PROVE IInv
  OBVIOUS
<1>1. Parent \notin Conn /\ Parent \in Proc /\ Conn \subseteq Proc
  BY MultiAssumption DEF Parent, Conn, Proc
<1>2. Nothing \in Message
  BY DEF Nothing, Message
<1>3. /\ NewProc \in Process /\ NewProc.pc = "none" /\ NewProc.cmd = "none" /\ NewProc.ops = 0
      /\ NewProc.client_id = 0
  BY <1>2 DEF NewProc, Process, Where
<1>4. LET q == [NewProc EXCEPT !.pc = "accept"]
      IN  q \in Process /\ q.pc = "accept" /\ q.cmd = "none" /\ q.ops = 0
  BY <1>2 DEF NewProc, Process, Where
<1> HIDE DEF NewProc
<1>5. /\ proc \in [Proc -> Process]
      /\ proc[Parent].pc = "accept" /\ proc[Parent].cmd = "none" /\ proc[Parent].ops = 0
      /\ \A c \in Conn : proc[c].pc = "none" /\ proc[c].cmd = "none" /\ proc[c].ops = 0
  BY <1>1, <1>3, <1>4 DEF Init
<1>6. TypeOK
  <2>1. \A p \in Proc : proc[p].pc \notin {"check", "write", "kill"}
    BY <1>5 DEF Proc
  <2> QED
    BY <1>2, <1>5, <2>1 DEF Init, TypeOK
<1>7. PlacesInv /\ ForksInv /\ HandlerInv
  <2>1. PlacesInv
    BY <1>5 DEF PlacesInv, ParentAt, ChildAt, Where, InLoop, Forked
  <2>2. ForksInv
    BY <1>5, MultiAssumption DEF ForksInv, InLoop, Forked
  <2>3. HandlerInv
    BY DEF HandlerInv, Init
  <2> QED
    BY <2>1, <2>2, <2>3
<1>8. PidsInv /\ NamesInv
  BY <1>5 DEF Init, PidsInv, SlotOwned, Alive, NamesInv, Holds
<1>9. MessagesInv
  <2>1. Written = {}
    BY DEF Written, Init
  <2>2. \A p \in Proc : Writing(p)
    BY <1>5 DEF Writing, Proc
  <2> QED
    BY <2>1, <2>2 DEF MessagesInv, CellsInv, ShownOnce, Init
<1>10. GoneInv
  BY <1>5 DEF GoneInv, ParentOutlives, Proc
<1> QED
  BY <1>6, <1>7, <1>8, <1>9, <1>10 DEF IInv

LEMMA LoopIInv ==
    ASSUME IInv, NEW p \in Proc,
           SkipAbsent(p) \/ FindPresent(p) \/ WriteMessage(p) \/ Signal(p)
    PROVE  IInv'
BY LoopTyped, LoopPlaces, LoopNames, LoopMessages, LoopGone DEF IInv

LEMMA HandlerIInv ==
    ASSUME IInv, NEW p \in Proc, Handler(p)
    PROVE  IInv'
<1>1. UNCHANGED <<proc, client_name>>
  BY DEF Handler, HandlerStarts, HandlerSkips, HandlerPrints, HandlerClears, shared
<1>2. NamesInv'
  BY <1>1 DEF IInv, NamesInv, Named, Holds, me
<1> QED
  BY <1>2, HandlerTyped, HandlerPlaces, HandlerMessages, HandlerGone DEF IInv

LEMMA ParentIInv ==
    ASSUME IInv, Accept \/ (\E i \in Id : Fork(i)) \/ SetPid
    PROVE  IInv'
<1>1. PlacesInv' /\ ForksInv' /\ HandlerInv' /\ PidsInv'
  BY AcceptPlaces, ForkPlaces, SetPidPlaces DEF IInv
<1> QED
  BY <1>1, ParentTyped, ParentNames, ParentMessages, ParentGone DEF IInv

LEMMA ChildIInv ==
    ASSUME IInv, NEW p \in Conn, ChildStep(p)
    PROVE  IInv'
<1>1. TypeOK'
  BY ChildTyped DEF IInv, ChildStep
<1> QED
  BY <1>1, ChildPlaces, ChildNames, ChildMessages, ChildGone DEF IInv

\* The parent installs no handlers, takes no name and clears no line.
LEMMA ParentSteps ==
    ASSUME PlacesInv, Step(Parent)
    PROVE  \/ SkipAbsent(Parent) \/ FindPresent(Parent) \/ WriteMessage(Parent) \/ Signal(Parent)
           \/ Handler(Parent)
<1>1. proc[Parent].pc \notin {"born", "set_name", "clear_name", "clear_pid", "clear_rest"}
  BY DEF PlacesInv, ParentAt
<1> QED
  BY <1>1 DEF Step, InstallHandlers, SetName, ClearName, ClearPid, ClearRest, At

LEMMA NextIInv == IInv /\ [Next]_vars => IInv'
<1> SUFFICES ASSUME IInv, [Next]_vars PROVE IInv'
  OBVIOUS
<1>1. Parent \in Proc /\ Conn \subseteq Proc
  BY DEF Proc
<1>2. CASE Accept \/ (\E i \in Id : Fork(i)) \/ SetPid
  BY <1>2, ParentIInv
<1>3. CASE Step(Parent)
  BY <1>1, <1>3, ParentSteps, LoopIInv, HandlerIInv DEF IInv
<1>4. ASSUME NEW p \in Conn, User(p) \/ Step(p) PROVE IInv'
  <2>1. \/ SkipAbsent(p) \/ FindPresent(p) \/ WriteMessage(p) \/ Signal(p)
        \/ Handler(p) \/ ChildStep(p)
    BY <1>4 DEF Step, ChildStep
  <2> QED
    BY <1>1, <2>1, LoopIInv, HandlerIInv, ChildIInv
<1>5. CASE UNCHANGED vars
  <2>1. UNCHANGED <<client_pid, client_name, ip_port_table, tell_table, proc, pending, scan, printed,
                    shown>>
    BY <1>5 DEF vars, shared
  <2>2. TypeOK' /\ PlacesInv' /\ ForksInv' /\ HandlerInv'
    BY <2>1 DEF IInv, TypeOK, PlacesInv, ForksInv, HandlerInv, InLoop, Forked, Alive, me
  <2>3. PidsInv' /\ NamesInv'
    BY <2>1 DEF IInv, PidsInv, SlotOwned, NamesInv, Named, Holds, Forked, Alive, me
  <2>4. MessagesInv'
    <3>1. Written' = Written /\ \A p \in Proc : Inbox(p)' = Inbox(p)
      BY <2>1 DEF Written, Inbox, me
    <3>2. \A m \in Written : Told(m)' /\ Earlier(m)'
      BY <2>1 DEF IInv, MessagesInv, Told, Earlier, Forked, me
    <3>3. \A p \in Proc : Writing(p)'
      BY <2>1 DEF IInv, MessagesInv, Writing, Forked, me
    <3>4. CellsInv'
      BY <2>1 DEF IInv, MessagesInv, CellsInv, ShownOnce, Inbox, me
    <3> QED
      BY <3>1, <3>2, <3>3, <3>4 DEF MessagesInv
  <2>5. GoneInv'
    BY <2>1 DEF IInv, GoneInv, Gone, ParentOutlives
  <2> QED
    BY <2>2, <2>3, <2>4, <2>5 DEF IInv
<1> QED
  BY <1>2, <1>3, <1>4, <1>5 DEF Next, ParentStep

\* Two ids that are taken have two processes, each of which holds its name.
LEMMA NamesAreUnique == IInv => NamesUnique
<1> SUFFICES ASSUME IInv, NEW i \in Id, NEW j \in Id, i # j, client_pid[i] # 0, client_pid[j] # 0,
                    client_name[i] = client_name[j], client_name[i] # NoName
             PROVE  proc[client_pid[i]].raced \/ proc[client_pid[j]].raced
  BY DEF NamesUnique
<1>1. ASSUME NEW k \in Id, client_pid[k] # 0, client_name[k] # NoName
      PROVE  client_pid[k] \in Conn /\ me(client_pid[k]) = k /\ Holds(client_pid[k])
  <2>1. PICK c \in Conn : Named(c) /\ me(c) = k
    BY <1>1 DEF IInv, NamesInv
  <2>2. client_pid[k] = c
    BY <1>1, <2>1 DEF IInv, PidsInv, SlotOwned, Named, Holds, Alive
  <2> QED
    BY <2>1, <2>2 DEF Named
<1>2. /\ client_pid[i] \in Conn /\ me(client_pid[i]) = i /\ Holds(client_pid[i])
      /\ client_pid[j] \in Conn /\ me(client_pid[j]) = j /\ Holds(client_pid[j])
  BY <1>1
<1> QED
  BY <1>2 DEF IInv, NamesInv

-----------------------------------------------------------------------------
(* What is proved.                                                         *)

\* The invariant holds in every state of the server.
THEOREM Invariance == Spec => []IInv
BY InitIInv, NextIInv, PTL DEF Spec

\* Every variable keeps its type, and the ids that messages go between are ids of
\* the tables, though the parent tells the users before it has a user of its own.
THEOREM TypeCorrect == Spec => []TypeOK
<1>1. IInv => TypeOK
  BY DEF IInv
<1> QED
  BY <1>1, Invariance, PTL

\* An id is its process's own, from the moment the parent enters the pid until the
\* process gives it up: the pid there is never overwritten or freed by another.
THEOREM SlotsAlwaysOwned == Spec => []SlotOwned
<1>1. IInv => SlotOwned
  BY DEF IInv, PidsInv
<1> QED
  BY <1>1, Invariance, PTL

\* tell_handler prints a message once, though signals are merged, cells are written
\* while they are read, and a handler may be started again.
THEOREM MessagesShownOnce == Spec => []ShownOnce
<1>1. IInv => ShownOnce
  BY DEF IInv, MessagesInv, CellsInv
<1> QED
  BY <1>1, Invariance, PTL

\* No two users have the same name but by one of the two races the code leaves.
THEOREM NamesAlwaysUnique == Spec => []NamesUnique
BY NamesAreUnique, Invariance, PTL

\* No signal kills the parent before somebody has given up an id.
THEOREM ParentAlwaysOutlives == Spec => []ParentOutlives
<1>1. IInv => ParentOutlives
  BY DEF IInv, GoneInv
<1> QED
  BY <1>1, Invariance, PTL
=============================================================================
