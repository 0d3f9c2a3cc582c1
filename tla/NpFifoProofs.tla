------------------------------ MODULE NpFifoProofs ------------------------------
(***************************************************************************)
(* What holds of the user pipes of np_multi_proc for any number of ids,    *)
(* connections and commands: a pipe that was announced can be read, and    *)
(* while nobody leaves the descriptor kept for it is the right one.        *)
(*                                                                         *)
(* The table has one entry for two processes that do not wait for each     *)
(* other: the sender marks a pipe again while the receiver, who has taken  *)
(* its descriptor, has yet to forget it.  The invariant says why this does *)
(* no harm to a receiver that has its own standard input.  The handler is  *)
(* only about pipes without a descriptor in the table; a process that has  *)
(* taken a descriptor leaves it there until it forgets it, so that the     *)
(* handler does not touch the pipe; and whoever marks it again meanwhile   *)
(* still waits in open when it is forgotten.                               *)
(***************************************************************************)
EXTENDS NpFifo, TLAPS

\* An id has one live process, and a live process one id.
PlacesInv ==
    /\ \A c \in Conn : Alive(c) => me(c) \in Id /\ client_pid[me(c)] = c
    /\ \A i \in Id : client_pid[i] # 0 =>
          /\ client_pid[i] \in Conn /\ Alive(client_pid[i]) /\ me(client_pid[i]) = i

\* Process c has marked its pipe to user j and its open has not returned.
Announces(c, j) == proc[c].pc \in {"signal", "open"} /\ proc[c].out = j

\* A marked pipe has its sender, who waits if there is no receiver.
MarkedInv ==
    \A i, j \in Id : usr_pipe_table[<<i, j>>] =>
        /\ client_pid[i] # 0
        /\ client_pid[j] = 0 => Announces(client_pid[i], j)

NobodyLeft == \A c \in Conn : proc[c].pc # "dead"
Own(d) == proc[d].zero = "client"

\* A handler is about a pipe that has no descriptor in the table, and that stays
\* marked while nobody leaves.
BusyInv ==
    \A d \in Conn : handler[d].pc # "away" =>
        /\ usr_pipe_fd[<<handler[d].i, me(d)>>] = Zero
        /\ handler[d].pc = "open" /\ NobodyLeft => usr_pipe_table[<<handler[d].i, me(d)>>]

\* Process d has taken the descriptor of the pipe from user i, and not a 0.
Taken(d, i) ==
    /\ proc[d].in = i
    /\ \/ proc[d].pc \in {"out", "mark", "signal", "open", "unlink", "fork"} /\ proc[d].stdin # Zero
       \/ proc[d].pc \in {"unmark", "release"} /\ Own(d)
TakenInv == \A d \in Conn, i \in Id : Taken(d, i) => usr_pipe_fd[<<i, me(d)>>] # Zero

\* A pipe that is marked again before its descriptor is forgotten has its sender
\* waiting.
Waits(i, d) == client_pid[i] # 0 /\ Announces(client_pid[i], me(d))
Forgets(d, i) == proc[d].pc = "release" /\ proc[d].in = i /\ Own(d)
ForgetsInv ==
    \A d \in Conn, i \in Id : Forgets(d, i) /\ usr_pipe_table[<<i, me(d)>>] => Waits(i, d)

\* What a descriptor of the pipe from i to j may be.
Right(fd, i, j) == fd = [of |-> client_pid[j], from |-> client_pid[i]]
Unfit(j) == client_pid[j] \in Conn /\ ~Own(client_pid[j])
Fits(fd, i, j) ==
    \/ fd = Zero
    \/ fd \in [of : Conn, from : Conn] /\ (NobodyLeft => Right(fd, i, j))
    \/ fd = Failed /\ (NobodyLeft => Unfit(j))
EndsInv ==
    /\ \A i, j \in Id : Fits(usr_pipe_fd[<<i, j>>], i, j)
    /\ \A d \in Conn : handler[d].pc = "opened" => Fits(handler[d].fd, handler[d].i, me(d))

IInv == TypeOK /\ PlacesInv /\ MarkedInv /\ BusyInv /\ TakenInv /\ ForgetsInv /\ EndsInv
        /\ AnnouncedReadable

\* The same after a step.
FitsThen(fd, i, j) ==
    \/ fd = Zero
    \/ fd \in [of : Conn, from : Conn]
       /\ (NobodyLeft' => fd = [of |-> client_pid'[j], from |-> client_pid'[i]])
    \/ fd = Failed
       /\ (NobodyLeft' => client_pid'[j] \in Conn /\ proc'[client_pid'[j]].zero # "client")

-----------------------------------------------------------------------------
(* Facts that the actions share.                                           *)

\* No connection has number 0, and the ids and connections are numbers.
LEMMA Numbers ==
    /\ Id \subseteq Nat \ {0} /\ Conn \subseteq Nat \ {0}
    /\ \A x \in [of : Conn, from : Conn] : x # Zero /\ x # Failed /\ x \in Descriptor
    /\ Zero \in Descriptor /\ Failed \in Descriptor /\ Zero # Failed
<1>1. MaxClients \in Nat /\ MaxConn \in Nat
  BY FifoAssumption
<1>2. Id \subseteq Nat \ {0} /\ Conn \subseteq Nat \ {0}
  BY <1>1 DEF Id, Conn
<1>3. \A x \in [of : Conn, from : Conn] : x.of # 0
  BY <1>2
<1>4. Zero.of = 0 /\ Failed.of = 0 /\ Zero.from = 0 /\ Failed.from = 1
  BY DEF Zero, Failed
<1>5. Zero # Failed
  BY <1>4
<1> QED
  BY <1>2, <1>3, <1>4, <1>5 DEF Descriptor

\* What a user's process is.
LEMMA OwnId ==
    ASSUME IInv, NEW c \in Conn, Alive(c)
    PROVE  /\ me(c) \in Id /\ client_pid[me(c)] = c /\ client_pid[me(c)] # 0
           /\ \A d \in Conn : Alive(d) /\ me(d) = me(c) => d = c
           /\ proc[c] \in Process
BY Numbers DEF IInv, PlacesInv, TypeOK

\* Where the types keep the parts of a process.
LEMMA ProcType ==
    ASSUME IInv, NEW c \in Conn
    PROVE  /\ proc[c] \in Process /\ proc \in [Conn -> Process]
           /\ handler[c] \in [pc : {"away", "open", "opened"}, i : Id \cup {0}, fd : Descriptor]
           /\ proc[c].in \in Id \cup {0} /\ proc[c].out \in Id \cup {0} /\ proc[c].ops \in Nat
           /\ proc[c].stdin \in Descriptor /\ proc[c].client_id \in Id \cup {0}
           /\ proc[c].zero \in {"client", "free", "used"} /\ proc[c].out0 \in BOOLEAN
           /\ proc[c].pc \in {"in", "take", "unmark", "release"} => proc[c].in \in Id
           /\ proc[c].pc \in {"out", "mark", "signal", "open", "unlink"} => proc[c].out \in Id
           /\ handler[c].pc # "away" => handler[c].i \in Id /\ Alive(c)
<1>1. /\ proc[c] \in Process /\ proc \in [Conn -> Process]
      /\ handler[c] \in [pc : {"away", "open", "opened"}, i : Id \cup {0}, fd : Descriptor]
      /\ proc[c].pc \in {"in", "take", "unmark", "release"} => proc[c].in \in Id
      /\ proc[c].pc \in {"out", "mark", "signal", "open", "unlink"} => proc[c].out \in Id
      /\ handler[c].pc # "away" => handler[c].i \in Id /\ Alive(c)
  BY DEF IInv, TypeOK
<1> QED
  BY <1>1 DEF Process

\* A step in which no process comes or goes.
Stays ==
    /\ UNCHANGED client_pid
    /\ \A q \in Conn : /\ me(q)' = me(q) /\ (Alive(q)' <=> Alive(q))
                       /\ Own(q)' => Own(q)
                       /\ proc[q].pc = "dead" => proc'[q].pc = "dead"

LEMMA StaysKeeps ==
    ASSUME IInv, Stays
    PROVE  /\ PlacesInv'
           /\ \A i \in Id : client_pid[i] \in Conn \cup {0} /\ client_pid'[i] = client_pid[i]
           /\ NobodyLeft' => NobodyLeft
<1>1. PlacesInv'
  BY DEF IInv, PlacesInv, Stays
<1>2. \A i \in Id : client_pid[i] \in Conn \cup {0}
  BY DEF IInv, TypeOK
<1>3. NobodyLeft' => NobodyLeft
  BY DEF NobodyLeft, Stays
<1> QED
  BY <1>1, <1>2, <1>3 DEF Stays

\* A descriptor that fits goes on to fit.
LEMMA FitsKeeps ==
    ASSUME NobodyLeft' =>
               /\ NobodyLeft
               /\ \A k \in Id : client_pid[k] \in Conn => client_pid'[k] = client_pid[k]
               /\ \A q \in Conn : Own(q)' => Own(q),
           NEW fd, NEW i \in Id, NEW j \in Id, Fits(fd, i, j)
    PROVE  FitsThen(fd, i, j)
<1>1. CASE fd = Zero
  BY <1>1 DEF FitsThen
<1>2. CASE fd \in [of : Conn, from : Conn] /\ (NobodyLeft => Right(fd, i, j))
  <2>1. ASSUME NobodyLeft' PROVE fd = [of |-> client_pid'[j], from |-> client_pid'[i]]
    <3>1. fd = [of |-> client_pid[j], from |-> client_pid[i]]
      BY <1>2, <2>1 DEF Right
    <3>2. client_pid[j] \in Conn /\ client_pid[i] \in Conn
      BY <1>2, <3>1
    <3> QED
      BY <2>1, <3>1, <3>2
  <2> QED
    BY <1>2, <2>1 DEF FitsThen
<1>3. CASE fd = Failed /\ (NobodyLeft => Unfit(j))
  <2>1. NobodyLeft' => client_pid'[j] \in Conn /\ proc'[client_pid'[j]].zero # "client"
    BY <1>3 DEF Unfit, Own
  <2> QED
    BY <1>3, <2>1 DEF FitsThen
<1> QED
  BY <1>1, <1>2, <1>3 DEF Fits

LEMMA EndsThen ==
    ASSUME \A i, j \in Id : FitsThen(usr_pipe_fd'[<<i, j>>], i, j),
           \A d \in Conn : handler'[d].pc = "opened" =>
               FitsThen(handler'[d].fd, handler'[d].i, proc'[d].client_id)
    PROVE  EndsInv'
BY DEF FitsThen, EndsInv, Fits, Right, Unfit, Own, me

LEMMA ReadableThen ==
    ASSUME \A q, d \in Conn :
               LET i == proc'[q].client_id
                   j == proc'[d].client_id
               IN  /\ proc'[q].pc \notin {"none", "dead"} /\ proc'[d].pc \notin {"none", "dead"}
                   /\ proc'[d].zero = "client" /\ usr_pipe_table'[<<i, j>>]
                   /\ ~(proc'[q].pc \in {"signal", "open"} /\ proc'[q].out = j)
                   => \/ usr_pipe_fd'[<<i, j>>] \notin {Zero, Failed}
                      \/ /\ handler'[d].pc = "opened" /\ handler'[d].i = i
                         /\ handler'[d].fd \notin {Zero, Failed}
    PROVE  AnnouncedReadable'
BY DEF AnnouncedReadable, Alive, me

\* A step that changes no descriptor keeps the ends.
LEMMA EndsKeep ==
    ASSUME IInv, usr_pipe_fd' = usr_pipe_fd,
           \A d \in Conn : handler'[d].pc = "opened" =>
               handler'[d] = handler[d] /\ me(d)' = me(d),
           NobodyLeft' =>
               /\ NobodyLeft
               /\ \A k \in Id : client_pid[k] \in Conn => client_pid'[k] = client_pid[k]
               /\ \A q \in Conn : Own(q)' => Own(q)
    PROVE  EndsInv'
<1>1. \A i, j \in Id : FitsThen(usr_pipe_fd[<<i, j>>], i, j)
  <2> SUFFICES ASSUME NEW i \in Id, NEW j \in Id
               PROVE  FitsThen(usr_pipe_fd[<<i, j>>], i, j)
    OBVIOUS
  <2>1. Fits(usr_pipe_fd[<<i, j>>], i, j)
    BY DEF IInv, EndsInv
  <2> QED
    BY <2>1, FitsKeeps
<1>2. ASSUME NEW d \in Conn, handler'[d].pc = "opened"
      PROVE  FitsThen(handler[d].fd, handler[d].i, me(d))
  <2>1. handler[d].i \in Id /\ me(d) \in Id
    BY <1>2, OwnId, ProcType
  <2>2. Fits(handler[d].fd, handler[d].i, me(d))
    BY <1>2 DEF IInv, EndsInv
  <2> QED
    BY <2>1, <2>2, FitsKeeps
<1> QED
  BY <1>1, <1>2, EndsThen DEF me

\* A step of process c that changes nothing but c's own part, and not its announcing,
\* keeps everything, if it keeps the types and what c has taken is in the table.
Only(c) ==
    /\ UNCHANGED <<client_pid, usr_pipe_table, usr_pipe_fd, handler>>
    /\ \A q \in Conn : q # c => proc'[q] = proc[q]
    /\ proc'[c].client_id = proc[c].client_id
    /\ Alive(c) /\ Alive(c)' /\ (Own(c)' => Own(c))
    /\ proc'[c].pc \in {"signal", "open"} <=> proc[c].pc \in {"signal", "open"}
    /\ proc[c].pc \in {"signal", "open"} => proc'[c].out = proc[c].out

LEMMA OnlyKeeps ==
    ASSUME IInv, NEW c \in Conn, Only(c), TypeOK',
           \A i \in Id : Taken(c, i)' => usr_pipe_fd[<<i, me(c)>>] # Zero,
           \A i \in Id : ~Forgets(c, i)'
    PROVE  IInv'
<1>1. /\ client_pid' = client_pid /\ usr_pipe_table' = usr_pipe_table
      /\ usr_pipe_fd' = usr_pipe_fd /\ handler' = handler
      /\ \A q \in Conn :
           /\ q # c => proc'[q] = proc[q]
           /\ proc'[q].client_id = proc[q].client_id
           /\ proc'[q].pc \notin {"none", "dead"} <=> proc[q].pc \notin {"none", "dead"}
           /\ proc'[q].pc \in {"signal", "open"} <=> proc[q].pc \in {"signal", "open"}
           /\ proc[q].pc \in {"signal", "open"} => proc'[q].out = proc[q].out
           /\ Own(q)' => Own(q)
           /\ proc[q].pc = "dead" => proc'[q].pc = "dead"
  BY DEF Only, Alive, Own
<1>2. Stays
  BY <1>1 DEF Stays, Alive, me
<1>3. PlacesInv' /\ (NobodyLeft' => NobodyLeft)
      /\ \A i \in Id : client_pid[i] \in Conn \cup {0}
  BY <1>2, StaysKeeps
<1>4. MarkedInv'
  <2> SUFFICES ASSUME NEW i \in Id, NEW j \in Id, usr_pipe_table[<<i, j>>], client_pid[i] # 0
               PROVE  client_pid[j] = 0 => Announces(client_pid[i], j)'
    BY <1>1 DEF IInv, MarkedInv, Announces
  <2>1. client_pid[i] \in Conn
    BY <1>3
  <2> QED
    BY <1>1, <2>1 DEF IInv, MarkedInv, Announces
<1>5. BusyInv'
  BY <1>1, <1>3 DEF IInv, BusyInv, me
<1>6. TakenInv'
  <2> SUFFICES ASSUME NEW d \in Conn, NEW i \in Id, Taken(d, i)'
               PROVE  usr_pipe_fd'[<<i, me(d)'>>] # Zero
    BY DEF TakenInv
  <2>1. d # c => Taken(d, i)
    BY <1>1 DEF Taken, Own
  <2> QED
    BY <1>1, <2>1 DEF IInv, TakenInv, me
<1>7. ForgetsInv'
  <2> SUFFICES ASSUME NEW d \in Conn, NEW i \in Id, Forgets(d, i)',
                      usr_pipe_table'[<<i, me(d)'>>]
               PROVE  Waits(i, d)'
    BY DEF ForgetsInv
  <2>1. Forgets(d, i) /\ usr_pipe_table[<<i, me(d)>>] /\ me(d)' = me(d)
    BY <1>1 DEF Forgets, Own, me
  <2>2. Waits(i, d)
    BY <2>1 DEF IInv, ForgetsInv
  <2> QED
    BY <1>1, <1>3, <2>1, <2>2 DEF Waits, Announces
<1>8. EndsInv'
  BY <1>1, <1>3, EndsKeep DEF me
<1>9. AnnouncedReadable'
  BY <1>1 DEF IInv, AnnouncedReadable, Alive, me, Own
<1> QED
  BY <1>3, <1>4, <1>5, <1>6, <1>7, <1>8, <1>9 DEF IInv

-----------------------------------------------------------------------------
(* The command.                                                            *)

\* Steps in which process c changes the record of itself only.
LEMMA OwnStepTypes ==
    ASSUME IInv, NEW c \in Conn, At(c, proc[c].pc),
           NEW r \in Process, proc' = [proc EXCEPT ![c] = r],
           UNCHANGED <<client_pid, usr_pipe_table, usr_pipe_fd, pending, handler>>,
           r.pc \in {"in", "take", "unmark", "release"} => r.in \in Id,
           r.pc \in {"out", "mark", "signal", "open", "unlink"} => r.out \in Id
    PROVE  TypeOK'
<1>1. proc \in [Conn -> Process] /\ proc' \in [Conn -> Process]
  BY ProcType
<1>2. /\ proc'[c] = r
      /\ \A q \in Conn : q # c => proc'[q] = proc[q]
  BY <1>1
<1>3. handler[c].pc = "away"
  BY DEF At
<1> QED
  BY <1>1, <1>2, <1>3 DEF IInv, TypeOK, Alive

\* The prompt after a command, or after one that was refused.
LEMMA PromptRecord ==
    ASSUME IInv, NEW c \in Conn, NEW zero \in {"client", "free", "used"}
    PROVE  /\ Prompt(c, zero) = [proc EXCEPT ![c] = Prompt(c, zero)[c]]
           /\ Prompt(c, zero)[c] \in Process /\ Prompt(c, zero)[c].client_id = me(c)
           /\ Prompt(c, zero)[c].pc = "prompt" /\ Prompt(c, zero)[c].in = 0
           /\ Prompt(c, zero)[c].zero = zero
<1> DEFINE r == [proc[c] EXCEPT !.pc = "prompt", !.in = 0, !.out = 0, !.stdin = Zero,
                                !.zero = zero, !.out0 = FALSE]
<1>1. proc[c] \in Process /\ proc \in [Conn -> Process]
  BY ProcType
<1>2. Prompt(c, zero) = [proc EXCEPT ![c] = r]
  BY <1>1 DEF Prompt
<1>3. /\ r \in Process /\ r.client_id = me(c) /\ r.pc = "prompt" /\ r.in = 0
      /\ r.zero = zero
  BY <1>1, Numbers DEF Process, me
<1> HIDE DEF r
<1> QED
  BY <1>1, <1>2, <1>3

\* What becomes of descriptor 0: once lost, it is not the client again.
LEMMA ZeroOf ==
    ASSUME IInv, NEW c \in Conn
    PROVE  /\ Lowest(c) \in {"client", "free", "used"} /\ Left(c) \in {"client", "free", "used"}
           /\ Lowest(c) = "client" => proc[c].zero = "client"
           /\ Left(c) = "client" => proc[c].zero = "client"
BY ProcType DEF Lowest, Left

\* Back to the prompt, or to no command at all.
LEMMA IdleKeeps ==
    ASSUME IInv, NEW c \in Conn, At(c, proc[c].pc),
           proc[c].pc \in {"prompt", "in", "out", "fork"},
           NEW r \in Process, proc' = [proc EXCEPT ![c] = r],
           UNCHANGED <<client_pid, usr_pipe_table, usr_pipe_fd, pending, handler>>,
           r.client_id = me(c), r.pc \in {"prompt", "deaf"},
           r.zero = "client" => proc[c].zero = "client"
    PROVE  IInv'
<1>1. /\ proc'[c] = r
      /\ \A q \in Conn : q # c => proc'[q] = proc[q]
  BY ProcType
<1>2. TypeOK'
  BY OwnStepTypes
<1>3. Only(c)
  BY <1>1 DEF Only, Alive, me, Own
<1>4. \A i \in Id : ~Taken(c, i)' /\ ~Forgets(c, i)'
  BY <1>1 DEF Taken, Forgets
<1> QED
  BY <1>2, <1>3, <1>4, OnlyKeeps

LEMMA TypeKeeps ==
    ASSUME IInv, NEW c \in Conn, NEW in \in Id \cup {0}, NEW out \in Id \cup {0}, Type(c, in, out)
    PROVE  IInv'
<1>1. PICK pc \in {"in", "out"} : pc = IF in # 0 THEN "in" ELSE "out"
  OBVIOUS
<1> DEFINE r == [proc[c] EXCEPT !.in = in, !.out = out, !.ops = @ + 1, !.pc = pc]
<1>2. /\ At(c, proc[c].pc) /\ proc[c].pc = "prompt"
      /\ in = 0 => out # 0
      /\ proc' = [proc EXCEPT ![c] = r]
      /\ UNCHANGED <<client_pid, usr_pipe_table, usr_pipe_fd, pending, handler>>
  BY <1>1, ProcType DEF Type, At, shared
<1>3. /\ r \in Process /\ r.client_id = proc[c].client_id /\ r.zero = proc[c].zero
      /\ r.pc = pc /\ r.in = in /\ r.out = out
  <2>1. proc[c] \in Process /\ proc[c].ops + 1 \in Nat
    BY ProcType
  <2>2. pc \in {"none", "prompt", "in", "take", "out", "mark", "signal", "open", "unlink",
                "fork", "unmark", "release", "deaf", "dead"}
    OBVIOUS
  <2> QED
    BY <2>1, <2>2 DEF Process
<1>4. /\ r.pc \in {"in", "out"}
      /\ r.pc = "in" => r.in \in Id
      /\ r.pc = "out" => r.out \in Id
      /\ r.pc = "out" => r.in = 0
  BY <1>1, <1>2, <1>3
<1> HIDE DEF r
<1>5. /\ proc'[c] = r
      /\ \A q \in Conn : q # c => proc'[q] = proc[q]
  BY <1>2, <1>3, ProcType
<1>6. TypeOK'
  BY <1>2, <1>3, <1>4, OwnStepTypes
<1>7. Only(c)
  BY <1>2, <1>3, <1>4, <1>5 DEF Only, Alive, Own
<1>8. \A i \in Id : ~Taken(c, i)' /\ ~Forgets(c, i)'
  BY <1>4, <1>5, Numbers DEF Taken, Forgets
<1> QED
  BY <1>6, <1>7, <1>8, OnlyKeeps

LEMMA DeafKeeps ==
    ASSUME IInv, NEW c \in Conn, Deaf(c)
    PROVE  IInv'
<1> DEFINE r == [proc[c] EXCEPT !.pc = "deaf"]
<1>1. /\ At(c, proc[c].pc) /\ proc[c].pc = "prompt"
      /\ proc' = [proc EXCEPT ![c] = r]
      /\ UNCHANGED <<client_pid, usr_pipe_table, usr_pipe_fd, pending, handler>>
  BY ProcType DEF Deaf, At, shared
<1>2. /\ r \in Process /\ r.client_id = me(c) /\ r.pc = "deaf" /\ r.zero = proc[c].zero
  BY ProcType DEF Process, me
<1> HIDE DEF r
<1> QED
  BY <1>1, <1>2, IdleKeeps

LEMMA RefusedKeeps ==
    ASSUME IInv, NEW c \in Conn, InRefused(c) \/ OutRefused(c)
    PROVE  IInv'
<1>1. PICK zero \in {"client", "free", "used"} :
          /\ proc' = Prompt(c, zero)
          /\ zero = "client" => proc[c].zero = "client"
  BY ZeroOf, ProcType DEF InRefused, OutRefused
<1> DEFINE r == Prompt(c, zero)[c]
<1>2. /\ At(c, proc[c].pc) /\ proc[c].pc \in {"in", "out"}
      /\ UNCHANGED <<client_pid, usr_pipe_table, usr_pipe_fd, pending, handler>>
  BY DEF InRefused, OutRefused, At, shared
<1>3. /\ proc' = [proc EXCEPT ![c] = r] /\ r \in Process /\ r.client_id = me(c)
      /\ r.pc = "prompt" /\ r.zero = zero
  BY <1>1, PromptRecord
<1> HIDE DEF r
<1> QED
  BY <1>1, <1>2, <1>3, IdleKeeps

LEMMA InAllowedKeeps ==
    ASSUME IInv, NEW c \in Conn, InAllowed(c)
    PROVE  IInv'
<1> DEFINE r == [proc[c] EXCEPT !.pc = "take"]
<1>1. /\ At(c, proc[c].pc) /\ proc[c].pc = "in"
      /\ proc' = [proc EXCEPT ![c] = r]
      /\ UNCHANGED <<client_pid, usr_pipe_table, usr_pipe_fd, pending, handler>>
  BY ProcType DEF InAllowed, At, shared
<1>2. /\ r \in Process /\ r.client_id = me(c) /\ r.pc = "take" /\ r.in \in Id
      /\ r.zero = proc[c].zero
  BY <1>1, ProcType DEF Process, me
<1> HIDE DEF r
<1>3. /\ proc'[c] = r
      /\ \A q \in Conn : q # c => proc'[q] = proc[q]
  BY <1>1, ProcType
<1>4. TypeOK'
  BY <1>1, <1>2, OwnStepTypes
<1>5. Only(c)
  BY <1>1, <1>2, <1>3 DEF Only, Alive, me, Own
<1>6. \A i \in Id : ~Taken(c, i)' /\ ~Forgets(c, i)'
  BY <1>2, <1>3 DEF Taken, Forgets
<1> QED
  BY <1>4, <1>5, <1>6, OnlyKeeps

\* What is taken is in the table.
LEMMA InTakenKeeps ==
    ASSUME IInv, NEW c \in Conn, InTaken(c)
    PROVE  IInv'
<1> DEFINE fd == usr_pipe_fd[InPipe(c)]
           r == [proc[c] EXCEPT !.stdin = fd, !.pc = IF proc[c].out # 0 THEN "out" ELSE "fork"]
<1>1. /\ At(c, proc[c].pc) /\ proc[c].pc = "take"
      /\ proc' = [proc EXCEPT ![c] = r]
      /\ UNCHANGED <<client_pid, usr_pipe_table, usr_pipe_fd, pending, handler>>
  BY ProcType DEF InTaken, At, shared
<1>2. fd \in Descriptor /\ fd = usr_pipe_fd[<<proc[c].in, me(c)>>]
  <2>1. me(c) \in Id /\ proc[c].in \in Id
    BY <1>1, OwnId, ProcType DEF Alive
  <2> QED
    BY <2>1 DEF IInv, TypeOK, InPipe
<1> HIDE DEF fd
<1>3. /\ r \in Process /\ r.client_id = me(c) /\ r.pc \in {"out", "fork"} /\ r.in = proc[c].in
      /\ r.pc = "out" => r.out \in Id
      /\ r.stdin = fd /\ r.zero = proc[c].zero
  BY <1>1, <1>2, ProcType DEF Process, me
<1> HIDE DEF r
<1>4. /\ proc'[c] = r
      /\ \A q \in Conn : q # c => proc'[q] = proc[q]
  BY <1>1, ProcType
<1>5. TypeOK'
  BY <1>1, <1>3, OwnStepTypes
<1>6. Only(c)
  BY <1>1, <1>3, <1>4 DEF Only, Alive, me, Own
<1>7. \A i \in Id : /\ Taken(c, i)' => usr_pipe_fd[<<i, me(c)>>] # Zero
                    /\ ~Forgets(c, i)'
  BY <1>2, <1>3, <1>4 DEF Taken, Forgets
<1> QED
  BY <1>5, <1>6, <1>7, OnlyKeeps

LEMMA OutAllowedKeeps ==
    ASSUME IInv, NEW c \in Conn, OutAllowed(c)
    PROVE  IInv'
<1> DEFINE r == [proc[c] EXCEPT !.pc = "mark"]
<1>1. /\ At(c, proc[c].pc) /\ proc[c].pc = "out"
      /\ proc' = [proc EXCEPT ![c] = r]
      /\ UNCHANGED <<client_pid, usr_pipe_table, usr_pipe_fd, pending, handler>>
  BY ProcType DEF OutAllowed, At, shared
<1>2. /\ r \in Process /\ r.client_id = me(c) /\ r.pc = "mark" /\ r.in = proc[c].in
      /\ r.out = proc[c].out /\ r.out \in Id /\ r.stdin = proc[c].stdin /\ r.zero = proc[c].zero
  BY <1>1, ProcType DEF Process, me
<1> HIDE DEF r
<1>3. /\ proc'[c] = r
      /\ \A q \in Conn : q # c => proc'[q] = proc[q]
  BY <1>1, ProcType
<1>4. TypeOK'
  <2>1. /\ r.pc \in {"in", "take", "unmark", "release"} => r.in \in Id
        /\ r.pc \in {"out", "mark", "signal", "open", "unlink"} => r.out \in Id
    BY <1>2
  <2> QED
    BY <1>1, <1>2, <2>1, OwnStepTypes
<1>5. Only(c)
  BY <1>1, <1>2, <1>3 DEF Only, Alive, me, Own
<1>6. \A i \in Id : /\ Taken(c, i)' => Taken(c, i)
                    /\ ~Forgets(c, i)'
  BY <1>1, <1>2, <1>3 DEF Taken, Forgets
<1> QED
  BY <1>4, <1>5, <1>6, OnlyKeeps DEF IInv, TakenInv

LEMMA OutSignalledKeeps ==
    ASSUME IInv, NEW c \in Conn, OutSignalled(c)
    PROVE  IInv'
<1> DEFINE r == [proc[c] EXCEPT !.pc = "open"]
<1>1. /\ proc[c].pc = "signal" /\ handler[c].pc = "away"
      /\ proc' = [proc EXCEPT ![c] = r]
      /\ UNCHANGED <<client_pid, usr_pipe_table, usr_pipe_fd, handler>>
  BY ProcType DEF OutSignalled, At, shared
<1>2. /\ r \in Process /\ r.client_id = me(c) /\ r.pc = "open" /\ r.in = proc[c].in
      /\ r.out = proc[c].out /\ r.out \in Id /\ r.stdin = proc[c].stdin /\ r.zero = proc[c].zero
  BY <1>1, ProcType DEF Process, me
<1> HIDE DEF r
<1>3. /\ proc' \in [Conn -> Process] /\ proc'[c] = r
      /\ \A q \in Conn : q # c => proc'[q] = proc[q]
  BY <1>1, <1>2, ProcType
<1>4. pending' \in [Conn -> BOOLEAN]
  <2>1. PICK d : pending' = [e \in Conn |-> pending[e] \/
                                 (Alive(e) /\ IF d = 0 THEN e # c ELSE e = d)]
    BY DEF OutSignalled
  <2>2. \A e \in Conn : pending[e] \in BOOLEAN
    BY DEF IInv, TypeOK
  <2>3. \A e \in Conn : (pending[e] \/ (Alive(e) /\ IF d = 0 THEN e # c ELSE e = d)) \in BOOLEAN
    OBVIOUS
  <2> QED
    BY <2>1, <2>3
<1>5. TypeOK'
  BY <1>1, <1>2, <1>3, <1>4 DEF IInv, TypeOK, Alive
<1>6. Only(c)
  BY <1>1, <1>2, <1>3 DEF Only, Alive, me, Own
<1>7. \A i \in Id : /\ Taken(c, i)' => Taken(c, i)
                    /\ ~Forgets(c, i)'
  BY <1>1, <1>2, <1>3 DEF Taken, Forgets
<1> QED
  BY <1>5, <1>6, <1>7, OnlyKeeps DEF IInv, TakenInv

\* The command is started.  A process that goes on with its own standard input has
\* taken no 0.
LEMMA ForkKeeps ==
    ASSUME IInv, NEW c \in Conn, Fork(c)
    PROVE  IInv'
<1>1. /\ proc[c].pc = "fork" /\ At(c, proc[c].pc)
      /\ UNCHANGED <<client_pid, usr_pipe_table, usr_pipe_fd, pending, handler>>
  BY DEF Fork, At, shared
<1>2. CASE proc[c].in = 0
  <2> DEFINE z == Left(c)
             r == Prompt(c, z)[c]
  <2>1. z \in {"client", "free", "used"} /\ (z = "client" => proc[c].zero = "client")
    BY ZeroOf
  <2>2. proc' = Prompt(c, z)
    BY <1>2 DEF Fork
  <2> HIDE DEF z
  <2>3. /\ proc' = [proc EXCEPT ![c] = r] /\ r \in Process /\ r.client_id = me(c)
        /\ r.pc = "prompt" /\ r.zero = z
    BY <2>1, <2>2, PromptRecord
  <2> HIDE DEF r
  <2> QED
    BY <1>1, <2>1, <2>3, IdleKeeps
<1>3. CASE proc[c].in # 0
  <2>1. PICK z \in {"client", "free", "used"} :
            /\ z = IF proc[c].stdin = Zero THEN "free" ELSE proc[c].zero
            /\ z = "client" => proc[c].zero = "client" /\ proc[c].stdin # Zero
    BY ProcType
  <2> DEFINE r == [proc[c] EXCEPT !.pc = "unmark", !.zero = z]
  <2>2. proc' = [proc EXCEPT ![c] = r]
    BY <1>3, <2>1, ProcType DEF Fork
  <2>3. /\ r \in Process /\ r.client_id = me(c) /\ r.pc = "unmark" /\ r.in = proc[c].in
        /\ r.zero = z /\ r.in \in Id
    BY <1>3, ProcType DEF Process, me
  <2> HIDE DEF r
  <2>4. /\ proc'[c] = r
        /\ \A q \in Conn : q # c => proc'[q] = proc[q]
    BY <2>2, ProcType
  <2>5. TypeOK'
    BY <1>1, <2>2, <2>3, OwnStepTypes
  <2>6. Only(c)
    BY <1>1, <2>1, <2>3, <2>4 DEF Only, Alive, me, Own
  <2>7. \A i \in Id : /\ Taken(c, i)' => Taken(c, i)
                      /\ ~Forgets(c, i)'
    BY <1>1, <2>1, <2>3, <2>4 DEF Taken, Forgets, Own
  <2> QED
    BY <2>5, <2>6, <2>7, OnlyKeeps DEF IInv, TakenInv
<1> QED
  BY <1>2, <1>3

\* The pipe is marked, and its sender waits, also one that is about to be forgotten.
LEMMA OutMarkedKeeps ==
    ASSUME IInv, NEW c \in Conn, OutMarked(c)
    PROVE  IInv'
<1> DEFINE r == [proc[c] EXCEPT !.pc = "signal"]
           a == me(c)
           b == proc[c].out
<1>1. /\ proc[c].pc = "mark" /\ handler[c].pc = "away"
      /\ proc' = [proc EXCEPT ![c] = r]
      /\ usr_pipe_table' = [usr_pipe_table EXCEPT ![<<a, b>>] = TRUE]
      /\ UNCHANGED <<client_pid, usr_pipe_fd, pending, handler>>
  BY ProcType DEF OutMarked, At, OutPipe
<1>2. /\ r \in Process /\ r.client_id = a /\ r.pc = "signal" /\ r.in = proc[c].in /\ r.out = b
      /\ r.stdin = proc[c].stdin /\ r.zero = proc[c].zero
  BY <1>1, ProcType DEF Process, me
<1>3. /\ Alive(c) /\ a \in Id /\ b \in Id /\ client_pid[a] = c /\ c # 0
      /\ \A q \in Conn : Alive(q) /\ me(q) = a => q = c
  BY <1>1, OwnId, ProcType DEF Alive
<1> HIDE DEF r, a, b
<1>4. /\ proc' \in [Conn -> Process] /\ proc'[c] = r
      /\ \A q \in Conn : q # c => proc'[q] = proc[q]
  BY <1>1, <1>2, ProcType
<1>5. /\ usr_pipe_table' \in [Id \X Id -> BOOLEAN]
      /\ \A i, j \in Id : usr_pipe_table'[<<i, j>>] <=>
            usr_pipe_table[<<i, j>>] \/ (i = a /\ j = b)
  <2>1. usr_pipe_table \in [Id \X Id -> BOOLEAN]
    BY DEF IInv, TypeOK
  <2> QED
    BY <1>1, <1>3, <2>1
<1>6. /\ \A q \in Conn : me(q)' = me(q) /\ (Alive(q)' <=> Alive(q)) /\ (Own(q)' <=> Own(q))
      /\ \A q \in Conn, j \in Id : Announces(q, j) =>
            proc'[q].pc \in {"signal", "open"} /\ proc'[q].out = j
      /\ proc'[c].pc = "signal" /\ proc'[c].out = b /\ ~(proc[c].pc \in {"signal", "open"})
      /\ \A q \in Conn : proc[q].pc = "dead" => proc'[q].pc = "dead"
  BY <1>1, <1>2, <1>3, <1>4 DEF Announces, Alive, me, a, Own
<1>7. TypeOK'
  BY <1>1, <1>2, <1>3, <1>4, <1>5, <1>6 DEF IInv, TypeOK
<1>8. Stays
  BY <1>1, <1>6 DEF Stays
<1>9. PlacesInv' /\ (NobodyLeft' => NobodyLeft)
      /\ \A i \in Id : client_pid[i] \in Conn \cup {0}
  BY <1>8, StaysKeeps
<1>10. MarkedInv'
  BY <1>1, <1>3, <1>5, <1>6, <1>9 DEF IInv, MarkedInv, Announces
<1>11. BusyInv'
  <2>1. \A d \in Conn : handler[d].pc # "away" => handler[d].i \in Id /\ me(d) \in Id
    BY ProcType, OwnId
  <2> QED
    BY <1>1, <1>5, <1>6, <1>9, <2>1 DEF IInv, BusyInv
<1>12. TakenInv'
  <2> SUFFICES ASSUME NEW d \in Conn, NEW i \in Id, Taken(d, i)'
               PROVE  usr_pipe_fd'[<<i, me(d)'>>] # Zero
    BY DEF TakenInv
  <2>1. Taken(d, i)
    BY <1>1, <1>2, <1>4 DEF Taken, Own
  <2> QED
    BY <1>1, <1>6, <2>1 DEF IInv, TakenInv
<1>13. ForgetsInv'
  <2> SUFFICES ASSUME NEW d \in Conn, NEW i \in Id, Forgets(d, i)',
                      usr_pipe_table'[<<i, me(d)'>>]
               PROVE  Waits(i, d)'
    BY DEF ForgetsInv
  <2>1. Forgets(d, i) /\ Alive(d) /\ me(d)' = me(d) /\ me(d) \in Id
    BY <1>1, <1>2, <1>4, <1>6, OwnId DEF Forgets, Alive, Own
  <2>2. CASE i = a /\ me(d) = b
    BY <1>1, <1>3, <1>6, <2>2 DEF Waits, Announces
  <2>3. CASE ~(i = a /\ me(d) = b)
    <3>1. Waits(i, d)
      BY <1>5, <2>1, <2>3 DEF IInv, ForgetsInv
    <3> QED
      BY <1>1, <1>6, <1>9, <2>1, <3>1 DEF Waits, Announces
  <2> QED
    BY <2>2, <2>3
<1>14. EndsInv'
  BY <1>1, <1>6, <1>9, EndsKeep
<1>15. AnnouncedReadable'
  <2> SUFFICES ASSUME NEW q \in Conn, NEW d \in Conn, Alive(q), Alive(d), Own(d),
                      usr_pipe_table'[<<me(q), me(d)>>],
                      ~(proc'[q].pc \in {"signal", "open"} /\ proc'[q].out = me(d))
               PROVE  \/ usr_pipe_fd[<<me(q), me(d)>>] \notin {Zero, Failed}
                      \/ /\ handler[d].pc = "opened" /\ handler[d].i = me(q)
                         /\ handler[d].fd \notin {Zero, Failed}
    BY <1>1, <1>6 DEF AnnouncedReadable, Own
  <2>1. me(q) \in Id /\ me(d) \in Id
    BY OwnId
  <2>2. ~(me(q) = a /\ me(d) = b)
    BY <1>3, <1>6
  <2>3. usr_pipe_table[<<me(q), me(d)>>]
    BY <1>5, <2>1, <2>2
  <2>4. ~Announces(q, me(d))
    BY <1>6, <2>1
  <2> QED
    BY <2>3, <2>4 DEF IInv, AnnouncedReadable, Announces, Own
<1> QED
  BY <1>7, <1>9, <1>10, <1>11, <1>12, <1>13, <1>14, <1>15 DEF IInv

\* A pipe that was read is no longer marked.
LEMMA UnmarkKeeps ==
    ASSUME IInv, NEW c \in Conn, Unmark(c)
    PROVE  IInv'
<1> DEFINE r == [proc[c] EXCEPT !.pc = "release"]
           a == proc[c].in
           b == me(c)
<1>1. /\ proc[c].pc = "unmark" /\ handler[c].pc = "away" /\ Alive(c)
      /\ proc' = [proc EXCEPT ![c] = r]
      /\ usr_pipe_table' = [usr_pipe_table EXCEPT ![<<a, b>>] = FALSE]
      /\ UNCHANGED <<client_pid, usr_pipe_fd, pending, handler>>
  BY ProcType DEF Unmark, At, InPipe, Alive
<1>2. /\ r \in Process /\ r.client_id = b /\ r.pc = "release" /\ r.in = a
      /\ r.zero = proc[c].zero
  BY ProcType DEF Process, me
<1>3. /\ a \in Id /\ b \in Id
      /\ \A q \in Conn : Alive(q) /\ me(q) = b => q = c
  BY <1>1, OwnId, ProcType
<1> HIDE DEF r, a, b
<1>4. /\ proc' \in [Conn -> Process] /\ proc'[c] = r
      /\ \A q \in Conn : q # c => proc'[q] = proc[q]
  BY <1>1, <1>2, ProcType
<1>5. /\ usr_pipe_table' \in [Id \X Id -> BOOLEAN]
      /\ \A i, j \in Id : usr_pipe_table'[<<i, j>>] <=>
            usr_pipe_table[<<i, j>>] /\ ~(i = a /\ j = b)
  <2>1. usr_pipe_table \in [Id \X Id -> BOOLEAN]
    BY DEF IInv, TypeOK
  <2> QED
    BY <1>1, <1>3, <2>1
<1>6. /\ \A q \in Conn : me(q)' = me(q) /\ (Alive(q)' <=> Alive(q)) /\ (Own(q)' <=> Own(q))
      /\ \A q \in Conn : /\ proc'[q].pc \in {"signal", "open"} <=> proc[q].pc \in {"signal", "open"}
                         /\ proc[q].pc \in {"signal", "open"} => proc'[q].out = proc[q].out
      /\ \A q \in Conn : proc[q].pc = "dead" => proc'[q].pc = "dead"
  BY <1>1, <1>2, <1>4 DEF Alive, me, b, Own
<1>7. TypeOK'
  BY <1>1, <1>2, <1>3, <1>4, <1>5, <1>6 DEF IInv, TypeOK
<1>8. Stays
  BY <1>1, <1>6 DEF Stays
<1>9. PlacesInv' /\ (NobodyLeft' => NobodyLeft)
      /\ \A i \in Id : client_pid[i] \in Conn \cup {0}
  BY <1>8, StaysKeeps
<1>10. MarkedInv'
  BY <1>1, <1>5, <1>6, <1>9 DEF IInv, MarkedInv, Announces
<1>11. BusyInv'
  <2> SUFFICES ASSUME NEW d \in Conn, handler[d].pc # "away"
               PROVE  /\ usr_pipe_fd[<<handler[d].i, me(d)>>] = Zero
                      /\ handler[d].pc = "open" /\ NobodyLeft' =>
                            usr_pipe_table'[<<handler[d].i, me(d)>>]
    BY <1>1, <1>6 DEF BusyInv
  <2>1. handler[d].i \in Id /\ me(d) \in Id /\ me(d) # b
    BY <1>1, <1>3, ProcType, OwnId
  <2> QED
    BY <1>5, <1>9, <2>1 DEF IInv, BusyInv
<1>12. TakenInv'
  <2> SUFFICES ASSUME NEW d \in Conn, NEW i \in Id, Taken(d, i)'
               PROVE  usr_pipe_fd'[<<i, me(d)'>>] # Zero
    BY DEF TakenInv
  <2>1. Taken(d, i)
    BY <1>1, <1>2, <1>4 DEF Taken, Own, a
  <2> QED
    BY <1>1, <1>6, <2>1 DEF IInv, TakenInv
<1>13. ForgetsInv'
  <2> SUFFICES ASSUME NEW d \in Conn, NEW i \in Id, Forgets(d, i)',
                      usr_pipe_table'[<<i, me(d)'>>]
               PROVE  Waits(i, d)'
    BY DEF ForgetsInv
  <2>1. me(d)' = me(d) /\ me(d) \in Id
    BY <1>4, <1>6, <1>2, OwnId DEF Forgets, Alive
  <2>2. usr_pipe_table[<<i, me(d)>>] /\ ~(i = a /\ me(d) = b)
    BY <1>5, <2>1
  <2>3. d # c
    BY <1>2, <1>4, <2>2 DEF Forgets, b
  <2>4. Forgets(d, i)
    BY <1>4, <2>3 DEF Forgets, Own
  <2>5. Waits(i, d)
    BY <2>2, <2>4 DEF IInv, ForgetsInv
  <2> QED
    BY <1>1, <1>6, <1>9, <2>1, <2>5 DEF Waits, Announces
<1>14. EndsInv'
  BY <1>1, <1>6, <1>9, EndsKeep
<1>15. AnnouncedReadable'
  <2> SUFFICES ASSUME NEW q \in Conn, NEW d \in Conn, Alive(q), Alive(d), Own(d),
                      usr_pipe_table'[<<me(q), me(d)>>],
                      ~(proc'[q].pc \in {"signal", "open"} /\ proc'[q].out = me(d))
               PROVE  \/ usr_pipe_fd[<<me(q), me(d)>>] \notin {Zero, Failed}
                      \/ /\ handler[d].pc = "opened" /\ handler[d].i = me(q)
                         /\ handler[d].fd \notin {Zero, Failed}
    BY <1>1, <1>6 DEF AnnouncedReadable, Own
  <2>1. me(q) \in Id /\ me(d) \in Id
    BY OwnId
  <2> QED
    BY <1>5, <1>6, <2>1 DEF IInv, AnnouncedReadable, Own
<1> QED
  BY <1>7, <1>9, <1>10, <1>11, <1>12, <1>13, <1>14, <1>15 DEF IInv

\* The descriptor is forgotten.  If the pipe was marked again, its sender still waits.
LEMMA ReleaseKeeps ==
    ASSUME IInv, NEW c \in Conn, Release(c)
    PROVE  IInv'
<1> DEFINE a == proc[c].in
           b == me(c)
           z == Left(c)
           r == Prompt(c, z)[c]
<1>1. /\ proc[c].pc = "release" /\ Alive(c) /\ handler[c].pc = "away"
      /\ usr_pipe_fd' = [usr_pipe_fd EXCEPT ![<<a, b>>] = Zero]
      /\ proc' = Prompt(c, z)
      /\ UNCHANGED <<client_pid, usr_pipe_table, pending, handler>>
  BY DEF Release, At, Alive, InPipe
<1>2. a \in Id /\ b \in Id /\ (Own(c) => Forgets(c, a))
      /\ \A q \in Conn : Alive(q) /\ me(q) = b => q = c
  BY <1>1, OwnId, ProcType DEF Forgets
<1>3. z \in {"client", "free", "used"} /\ (z = "client" => Own(c))
  BY ZeroOf DEF Own
<1> HIDE DEF a, z
<1>4. /\ proc' = [proc EXCEPT ![c] = r] /\ r \in Process /\ r.client_id = b
      /\ r.pc = "prompt" /\ r.zero = z
  BY <1>1, <1>3, PromptRecord
<1> HIDE DEF b, r
<1>5. /\ proc' \in [Conn -> Process] /\ proc'[c] = r
      /\ \A q \in Conn : q # c => proc'[q] = proc[q]
  BY <1>4, ProcType
<1>6. /\ usr_pipe_fd' \in [Id \X Id -> Descriptor]
      /\ usr_pipe_fd'[<<a, b>>] = Zero
      /\ \A i, j \in Id : ~(i = a /\ j = b) => usr_pipe_fd'[<<i, j>>] = usr_pipe_fd[<<i, j>>]
  <2>1. usr_pipe_fd \in [Id \X Id -> Descriptor]
    BY DEF IInv, TypeOK
  <2> QED
    BY <1>1, <1>2, <2>1, Numbers
<1>7. /\ \A q \in Conn : me(q)' = me(q) /\ (Alive(q)' <=> Alive(q)) /\ (Own(q)' => Own(q))
      /\ \A q \in Conn : /\ proc'[q].pc \in {"signal", "open"} <=> proc[q].pc \in {"signal", "open"}
                         /\ proc[q].pc \in {"signal", "open"} => proc'[q].out = proc[q].out
      /\ \A q \in Conn : proc[q].pc = "dead" => proc'[q].pc = "dead"
  BY <1>1, <1>3, <1>4, <1>5 DEF Alive, me, b, Own
<1>8. TypeOK'
  BY <1>1, <1>4, <1>5, <1>6, <1>7 DEF IInv, TypeOK
<1>9. Stays
  BY <1>1, <1>7 DEF Stays
<1>10. PlacesInv' /\ (NobodyLeft' => NobodyLeft)
       /\ \A i \in Id : client_pid[i] \in Conn \cup {0} /\ client_pid'[i] = client_pid[i]
  BY <1>9, StaysKeeps
<1>11. MarkedInv'
  BY <1>1, <1>7, <1>10 DEF IInv, MarkedInv, Announces
<1>12. BusyInv'
  <2>1. \A d \in Conn : handler[d].pc # "away" => handler[d].i \in Id /\ me(d) \in Id
    BY ProcType, OwnId
  <2> QED
    BY <1>1, <1>6, <1>7, <1>10, <2>1 DEF IInv, BusyInv
<1>13. \A d \in Conn, i \in Id : Alive(d) /\ d # c =>
           usr_pipe_fd'[<<i, me(d)>>] = usr_pipe_fd[<<i, me(d)>>]
  BY <1>2, <1>6, OwnId
<1>14. TakenInv'
  <2> SUFFICES ASSUME NEW d \in Conn, NEW i \in Id, Taken(d, i)'
               PROVE  usr_pipe_fd'[<<i, me(d)'>>] # Zero
    BY DEF TakenInv
  <2>1. Taken(d, i) /\ Alive(d) /\ d # c
    BY <1>4, <1>5 DEF Taken, Own, Alive
  <2> QED
    BY <1>7, <1>13, <2>1 DEF IInv, TakenInv
<1>15. ForgetsInv'
  <2> SUFFICES ASSUME NEW d \in Conn, NEW i \in Id, Forgets(d, i)',
                      usr_pipe_table'[<<i, me(d)'>>]
               PROVE  Waits(i, d)'
    BY DEF ForgetsInv
  <2>1. Forgets(d, i) /\ me(d)' = me(d)
    BY <1>4, <1>5, <1>7 DEF Forgets, Own
  <2>2. Waits(i, d)
    BY <1>1, <2>1 DEF IInv, ForgetsInv
  <2> QED
    BY <1>1, <1>7, <1>10, <2>1, <2>2 DEF Waits, Announces
<1>16. EndsInv'
  <2>1. ASSUME NEW i \in Id, NEW j \in Id
        PROVE  FitsThen(usr_pipe_fd'[<<i, j>>], i, j)
    <3>1. CASE i = a /\ j = b
      BY <1>6, <3>1 DEF FitsThen
    <3>2. CASE ~(i = a /\ j = b)
      <4>1. Fits(usr_pipe_fd[<<i, j>>], i, j)
        BY DEF IInv, EndsInv
      <4>2. FitsThen(usr_pipe_fd[<<i, j>>], i, j)
        BY <1>7, <1>10, <4>1, FitsKeeps
      <4> QED
        BY <1>6, <3>2, <4>2
    <3> QED
      BY <3>1, <3>2
  <2>2. ASSUME NEW d \in Conn, handler[d].pc = "opened"
        PROVE  FitsThen(handler[d].fd, handler[d].i, me(d))
    <3>1. handler[d].i \in Id /\ me(d) \in Id
      BY <2>2, OwnId, ProcType
    <3>2. Fits(handler[d].fd, handler[d].i, me(d))
      BY <2>2 DEF IInv, EndsInv
    <3> QED
      BY <1>7, <1>10, <3>1, <3>2, FitsKeeps
  <2> QED
    BY <1>1, <1>7, <2>1, <2>2, EndsThen DEF me
<1>17. AnnouncedReadable'
  <2> SUFFICES ASSUME NEW q \in Conn, NEW d \in Conn, Alive(q), Alive(d), Own(d),
                      usr_pipe_table[<<me(q), me(d)>>],
                      ~(proc[q].pc \in {"signal", "open"} /\ proc[q].out = me(d))
               PROVE  \/ usr_pipe_fd'[<<me(q), me(d)>>] \notin {Zero, Failed}
                      \/ /\ handler[d].pc = "opened" /\ handler[d].i = me(q)
                         /\ handler[d].fd \notin {Zero, Failed}
    BY <1>1, <1>7 DEF AnnouncedReadable, Own
  <2>1. me(q) \in Id /\ me(d) \in Id /\ client_pid[me(q)] = q
    BY OwnId
  <2>2. ASSUME me(q) = a, me(d) = b PROVE FALSE
    <3>1. d = c
      BY <1>2, <2>2
    <3>2. Waits(a, c)
      BY <1>2, <2>2, <3>1 DEF IInv, ForgetsInv
    <3> QED
      BY <2>1, <2>2, <3>1, <3>2 DEF Waits, Announces
  <2> QED
    BY <1>6, <2>1, <2>2 DEF IInv, AnnouncedReadable, Own
<1> QED
  BY <1>8, <1>10, <1>11, <1>12, <1>14, <1>15, <1>16, <1>17 DEF IInv

-----------------------------------------------------------------------------
(* The users.                                                              *)

\* A new user finds no pipe marked from the id, and to it only those whose senders wait.
LEMMA EnterKeeps ==
    ASSUME IInv, NEW c \in Conn, NEW i \in Id, Enter(c, i)
    PROVE  IInv'
<1> DEFINE r == [proc[c] EXCEPT !.pc = "prompt", !.client_id = i]
<1>1. /\ proc[c].pc = "none" /\ client_pid[i] = 0
      /\ client_pid' = [client_pid EXCEPT ![i] = c]
      /\ proc' = [proc EXCEPT ![c] = r]
      /\ UNCHANGED <<usr_pipe_table, usr_pipe_fd, pending, handler>>
  BY ProcType DEF Enter
<1>2. r \in Process /\ r.client_id = i /\ r.pc = "prompt" /\ r.zero = proc[c].zero
  <2>1. proc[c] \in Process /\ i \in Id \cup {0}
    BY ProcType
  <2> QED
    BY <2>1 DEF Process
<1> HIDE DEF r
<1>3. /\ proc' \in [Conn -> Process] /\ proc'[c] = r
      /\ \A q \in Conn : q # c => proc'[q] = proc[q]
      /\ ~Alive(c) /\ c # 0 /\ handler[c].pc = "away"
  BY <1>1, <1>2, ProcType, Numbers DEF Alive
<1>4. /\ client_pid' \in [Id -> Conn \cup {0}]
      /\ client_pid'[i] = c
      /\ \A k \in Id : client_pid[k] \in Conn \cup {0}
      /\ \A k \in Id : k # i => client_pid'[k] = client_pid[k]
  <2>1. client_pid \in [Id -> Conn \cup {0}]
    BY DEF IInv, TypeOK
  <2> QED
    BY <1>1, <2>1
<1>5. \A q \in Conn : Alive(q) => q # c /\ me(q) \in Id /\ me(q) # i /\ client_pid[me(q)] = q
  BY <1>1, <1>3, OwnId
<1>6. /\ \A q \in Conn : q # c => /\ me(q)' = me(q) /\ (Alive(q)' <=> Alive(q))
                                  /\ proc'[q].pc = proc[q].pc /\ proc'[q].out = proc[q].out
      /\ me(c)' = i /\ Alive(c)'
      /\ \A q \in Conn : Own(q)' <=> Own(q)
      /\ \A q \in Conn : proc[q].pc = "dead" => proc'[q].pc = "dead"
  BY <1>1, <1>2, <1>3 DEF Alive, me, Own
<1>7. TypeOK'
  BY <1>1, <1>2, <1>3, <1>4, <1>6 DEF IInv, TypeOK
<1>8. PlacesInv'
  <2>1. \A q \in Conn : Alive(q)' => me(q)' \in Id /\ client_pid'[me(q)'] = q
    BY <1>4, <1>5, <1>6
  <2>2. \A k \in Id : client_pid'[k] # 0 =>
            /\ client_pid'[k] \in Conn /\ proc'[client_pid'[k]].pc \notin {"none", "dead"}
            /\ proc'[client_pid'[k]].client_id = k
    <3> SUFFICES ASSUME NEW k \in Id, client_pid'[k] # 0
                 PROVE  /\ client_pid'[k] \in Conn
                        /\ proc'[client_pid'[k]].pc \notin {"none", "dead"}
                        /\ proc'[client_pid'[k]].client_id = k
      OBVIOUS
    <3>1. CASE k = i
      BY <1>2, <1>3, <1>4, <3>1
    <3>2. CASE k # i
      <4>1. /\ client_pid'[k] = client_pid[k] /\ client_pid[k] \in Conn
            /\ Alive(client_pid[k]) /\ me(client_pid[k]) = k
        BY <1>4, <3>2 DEF IInv, PlacesInv
      <4> QED
        BY <1>3, <4>1 DEF Alive, me
    <3> QED
      BY <3>1, <3>2
  <2> QED
    BY <2>1, <2>2 DEF PlacesInv, Alive, me
<1>9. \A k \in Id : client_pid[k] # 0 =>
          k # i /\ client_pid[k] \in Conn /\ client_pid[k] # c /\ client_pid'[k] = client_pid[k]
  BY <1>1, <1>3, <1>4 DEF IInv, PlacesInv
<1>10. \A k, j \in Id : client_pid[k] # 0 /\ Announces(client_pid[k], j) =>
           Announces(client_pid[k], j)'
  BY <1>6, <1>9 DEF Announces
<1>11. MarkedInv'
  <2> SUFFICES ASSUME NEW k \in Id, NEW j \in Id, usr_pipe_table[<<k, j>>]
               PROVE  /\ client_pid'[k] # 0
                      /\ client_pid'[j] = 0 => Announces(client_pid[k], j)'
    BY <1>1 DEF MarkedInv
  <2>1. client_pid[k] # 0 /\ (client_pid[j] = 0 => Announces(client_pid[k], j))
    BY DEF IInv, MarkedInv
  <2>2. client_pid'[k] # 0 /\ (client_pid'[j] = 0 => client_pid[j] = 0)
    BY <1>3, <1>4, <1>9, <2>1
  <2> QED
    BY <1>10, <2>1, <2>2
<1>12. NobodyLeft' => NobodyLeft
  BY <1>6 DEF NobodyLeft
<1>13. \A d \in Conn : handler[d].pc # "away" => Alive(d) /\ me(d)' = me(d)
  BY <1>3, <1>6, ProcType DEF me
<1>14. BusyInv'
  BY <1>1, <1>12, <1>13 DEF IInv, BusyInv
<1>15. TakenInv'
  <2> SUFFICES ASSUME NEW d \in Conn, NEW k \in Id, Taken(d, k)'
               PROVE  usr_pipe_fd'[<<k, me(d)'>>] # Zero
    BY DEF TakenInv
  <2>1. Taken(d, k) /\ d # c
    BY <1>2, <1>3 DEF Taken, Own
  <2> QED
    BY <1>1, <1>6, <2>1 DEF IInv, TakenInv
<1>16. ForgetsInv'
  <2> SUFFICES ASSUME NEW d \in Conn, NEW k \in Id, Forgets(d, k)',
                      usr_pipe_table'[<<k, me(d)'>>]
               PROVE  Waits(k, d)'
    BY DEF ForgetsInv
  <2>1. Forgets(d, k) /\ d # c /\ me(d)' = me(d) /\ Alive(d)
    BY <1>2, <1>3, <1>6 DEF Forgets, Own, Alive
  <2>2. Waits(k, d)
    BY <1>1, <2>1 DEF IInv, ForgetsInv
  <2>3. /\ client_pid[k] # 0 /\ proc[client_pid[k]].pc \in {"signal", "open"}
        /\ proc[client_pid[k]].out = me(d)
    BY <2>2 DEF Waits, Announces
  <2> QED
    BY <1>6, <1>9, <2>1, <2>3 DEF Waits, Announces
<1>17. EndsInv'
  <2>1. \A k \in Id : client_pid[k] \in Conn => client_pid'[k] = client_pid[k]
    BY <1>9, Numbers
  <2> QED
    BY <1>1, <1>6, <1>12, <1>13, <2>1, EndsKeep
<1>18. AnnouncedReadable'
  <2> SUFFICES ASSUME NEW q \in Conn, NEW d \in Conn, Alive(q)', Alive(d)', Own(d)',
                      usr_pipe_table[<<me(q)', me(d)'>>],
                      ~(proc'[q].pc \in {"signal", "open"} /\ proc'[q].out = me(d)')
               PROVE  \/ usr_pipe_fd[<<me(q)', me(d)'>>] \notin {Zero, Failed}
                      \/ /\ handler[d].pc = "opened" /\ handler[d].i = me(q)'
                         /\ handler[d].fd \notin {Zero, Failed}
    BY <1>1 DEF AnnouncedReadable, Own
  <2>1. me(q)' \in Id /\ me(d)' \in Id
    BY <1>5, <1>6
  <2>2. q # c
    BY <1>1, <1>6, <2>1 DEF IInv, MarkedInv
  <2>3. d # c
    <3>1. CASE d = c
      <4>1. Announces(client_pid[me(q)], i) /\ client_pid[me(q)] = q
        BY <1>1, <1>5, <1>6, <2>1, <2>2, <3>1 DEF IInv, MarkedInv
      <4> QED
        BY <1>6, <2>2, <3>1, <4>1 DEF Announces
    <3> QED
      BY <3>1
  <2> QED
    BY <1>6, <2>2, <2>3 DEF IInv, AnnouncedReadable, Own
<1> QED
  BY <1>7, <1>8, <1>11, <1>14, <1>15, <1>16, <1>17, <1>18 DEF IInv

\* One who leaves is not sending, and no pipe of the id stays marked.
LEMMA ExitKeeps ==
    ASSUME IInv, NEW c \in Conn, Exit(c)
    PROVE  IInv'
<1> DEFINE r == [proc[c] EXCEPT !.pc = "dead"]
           a == me(c)
<1>1. /\ proc[c].pc = "prompt" /\ handler[c].pc = "away" /\ Alive(c)
      /\ client_pid' = [client_pid EXCEPT ![a] = 0]
      /\ usr_pipe_table' = [ids \in Id \X Id |->
                              usr_pipe_table[ids] /\ ids[1] # a /\ ids[2] # a]
      /\ proc' = [proc EXCEPT ![c] = r]
      /\ UNCHANGED <<usr_pipe_fd, pending, handler>>
  BY ProcType DEF Exit, At, Alive
<1>2. r \in Process /\ r.pc = "dead" /\ r.client_id = a
  BY ProcType DEF Process, me
<1>3. /\ a \in Id /\ client_pid[a] = c /\ c # 0
      /\ \A q \in Conn : Alive(q) => /\ me(q) \in Id /\ client_pid[me(q)] = q
                                     /\ q # c => me(q) # a
  BY <1>1, OwnId
<1> HIDE DEF r, a
<1>4. /\ proc' \in [Conn -> Process] /\ proc'[c] = r
      /\ \A q \in Conn : q # c => proc'[q] = proc[q]
  BY <1>1, <1>2, ProcType
<1>5. /\ client_pid' \in [Id -> Conn \cup {0}]
      /\ client_pid'[a] = 0
      /\ \A k \in Id : client_pid[k] \in Conn \cup {0}
      /\ \A k \in Id : k # a => client_pid'[k] = client_pid[k]
  <2>1. client_pid \in [Id -> Conn \cup {0}]
    BY DEF IInv, TypeOK
  <2> QED
    BY <1>1, <1>3, <2>1
<1>6. /\ usr_pipe_table' \in [Id \X Id -> BOOLEAN]
      /\ \A i, j \in Id : usr_pipe_table'[<<i, j>>] =>
            usr_pipe_table[<<i, j>>] /\ i # a /\ j # a
  <2>1. usr_pipe_table \in [Id \X Id -> BOOLEAN]
    BY DEF IInv, TypeOK
  <2>2. \A ids \in Id \X Id : (usr_pipe_table[ids] /\ ids[1] # a /\ ids[2] # a) \in BOOLEAN
    OBVIOUS
  <2>3. usr_pipe_table' \in [Id \X Id -> BOOLEAN]
    BY <1>1, <2>2
  <2>4. \A i, j \in Id : usr_pipe_table'[<<i, j>>] <=>
            usr_pipe_table[<<i, j>>] /\ i # a /\ j # a
    BY <1>1
  <2> QED
    BY <2>3, <2>4
<1>7. /\ \A q \in Conn : q # c => /\ me(q)' = me(q) /\ (Alive(q)' <=> Alive(q))
                                  /\ proc'[q].pc = proc[q].pc /\ proc'[q].out = proc[q].out
                                  /\ (Own(q)' <=> Own(q))
      /\ ~Alive(c)' /\ me(c)' = me(c)
  BY <1>2, <1>4 DEF Alive, me, Own, a
<1>8. \A k \in Id : client_pid[k] # 0 =>
          /\ client_pid[k] \in Conn /\ Alive(client_pid[k]) /\ me(client_pid[k]) = k
          /\ client_pid[k] = c => k = a
  BY <1>1 DEF IInv, PlacesInv, a
<1>9. TypeOK'
  BY <1>1, <1>2, <1>4, <1>5, <1>6, <1>7 DEF IInv, TypeOK
<1>10. PlacesInv'
  <2>1. \A q \in Conn : Alive(q)' => me(q)' \in Id /\ client_pid'[me(q)'] = q
    BY <1>3, <1>5, <1>7
  <2>2. \A k \in Id : client_pid'[k] # 0 =>
            /\ client_pid'[k] \in Conn /\ proc'[client_pid'[k]].pc \notin {"none", "dead"}
            /\ proc'[client_pid'[k]].client_id = k
    <3> SUFFICES ASSUME NEW k \in Id, client_pid'[k] # 0
                 PROVE  /\ client_pid'[k] \in Conn
                        /\ proc'[client_pid'[k]].pc \notin {"none", "dead"}
                        /\ proc'[client_pid'[k]].client_id = k
      OBVIOUS
    <3>1. client_pid'[k] = client_pid[k] /\ k # a
      BY <1>5
    <3> QED
      BY <1>4, <1>8, <3>1 DEF Alive, me
  <2> QED
    BY <2>1, <2>2 DEF PlacesInv, Alive, me
<1>11. \A k, j \in Id : client_pid[k] # 0 /\ Announces(client_pid[k], j) =>
           /\ k # a /\ client_pid'[k] = client_pid[k]
           /\ Announces(client_pid[k], j)'
  <2> SUFFICES ASSUME NEW k \in Id, NEW j \in Id, client_pid[k] # 0, Announces(client_pid[k], j)
               PROVE  /\ k # a /\ client_pid'[k] = client_pid[k]
                      /\ Announces(client_pid[k], j)'
    OBVIOUS
  <2>1. k # a
    BY <1>1, <1>3 DEF Announces
  <2>2. client_pid'[k] = client_pid[k] /\ client_pid[k] # c /\ client_pid[k] \in Conn
    BY <1>5, <1>8, <2>1
  <2> QED
    BY <1>4, <2>1, <2>2 DEF Announces
<1>12. MarkedInv'
  <2> SUFFICES ASSUME NEW k \in Id, NEW j \in Id, usr_pipe_table'[<<k, j>>]
               PROVE  /\ client_pid'[k] # 0
                      /\ client_pid'[j] = 0 => Announces(client_pid[k], j)'
    BY DEF MarkedInv
  <2>1. /\ client_pid[k] # 0 /\ (client_pid[j] = 0 => Announces(client_pid[k], j))
        /\ k # a /\ j # a
    BY <1>6 DEF IInv, MarkedInv
  <2> QED
    BY <1>5, <1>11, <2>1
<1>13. ~NobodyLeft'
  BY <1>2, <1>4 DEF NobodyLeft
<1>14. \A q \in Conn : me(q)' = me(q)
  BY <1>7 DEF me
<1>15. BusyInv'
  BY <1>1, <1>13, <1>14 DEF IInv, BusyInv
<1>16. TakenInv'
  <2> SUFFICES ASSUME NEW d \in Conn, NEW k \in Id, Taken(d, k)'
               PROVE  usr_pipe_fd'[<<k, me(d)'>>] # Zero
    BY DEF TakenInv
  <2>1. Taken(d, k)
    BY <1>2, <1>4 DEF Taken, Own
  <2> QED
    BY <1>1, <1>14, <2>1 DEF IInv, TakenInv
<1>17. ForgetsInv'
  <2> SUFFICES ASSUME NEW d \in Conn, NEW k \in Id, Forgets(d, k)',
                      usr_pipe_table'[<<k, me(d)'>>]
               PROVE  Waits(k, d)'
    BY DEF ForgetsInv
  <2>1. Forgets(d, k) /\ Alive(d) /\ d # c /\ me(d)' = me(d) /\ me(d) \in Id
    BY <1>2, <1>3, <1>4, <1>7 DEF Forgets, Alive, Own
  <2>2. Waits(k, d)
    BY <1>6, <2>1 DEF IInv, ForgetsInv
  <2>3. client_pid[k] # 0 /\ Announces(client_pid[k], me(d))
    BY <2>2 DEF Waits
  <2>4. /\ client_pid'[k] = client_pid[k]
        /\ proc'[client_pid[k]].pc \in {"signal", "open"} /\ proc'[client_pid[k]].out = me(d)
    BY <1>11, <2>1, <2>3 DEF Announces
  <2> QED
    BY <2>1, <2>3, <2>4 DEF Waits, Announces
<1>18. EndsInv'
  BY <1>1, <1>13, <1>14, EndsKeep
<1>19. AnnouncedReadable'
  <2> SUFFICES ASSUME NEW q \in Conn, NEW d \in Conn, Alive(q)', Alive(d)', Own(d)',
                      usr_pipe_table'[<<me(q)', me(d)'>>],
                      ~(proc'[q].pc \in {"signal", "open"} /\ proc'[q].out = me(d)')
               PROVE  \/ usr_pipe_fd[<<me(q)', me(d)'>>] \notin {Zero, Failed}
                      \/ /\ handler[d].pc = "opened" /\ handler[d].i = me(q)'
                         /\ handler[d].fd \notin {Zero, Failed}
    BY <1>1 DEF AnnouncedReadable, Own
  <2>1. q # c /\ d # c
    BY <1>7
  <2>2. /\ Alive(q) /\ Alive(d) /\ Own(d) /\ usr_pipe_table[<<me(q), me(d)>>]
        /\ ~(proc[q].pc \in {"signal", "open"} /\ proc[q].out = me(d))
    BY <1>3, <1>6, <1>7, <2>1
  <2> QED
    BY <1>14, <2>2 DEF IInv, AnnouncedReadable, Own
<1> QED
  BY <1>9, <1>10, <1>12, <1>15, <1>16, <1>17, <1>18, <1>19 DEF IInv

-----------------------------------------------------------------------------
(* The handler.                                                            *)

\* It opens a pipe that is marked and has no descriptor.
LEMMA HandlerStartsKeeps ==
    ASSUME IInv, NEW c \in Conn, HandlerStarts(c)
    PROVE  IInv'
<1>1. /\ Alive(c) /\ handler[c].pc = "away"
      /\ UNCHANGED <<client_pid, usr_pipe_table, usr_pipe_fd, proc>>
      /\ pending' = [pending EXCEPT ![c] = FALSE]
  BY DEF HandlerStarts, shared
<1>2. /\ handler \in [Conn -> [pc : {"away", "open", "opened"}, i : Id \cup {0}, fd : Descriptor]]
      /\ pending' \in [Conn -> BOOLEAN]
  BY <1>1 DEF IInv, TypeOK
<1>3. /\ \A q \in Conn : q # c => handler'[q] = handler[q]
      /\ handler' \in [Conn -> [pc : {"away", "open", "opened"}, i : Id \cup {0}, fd : Descriptor]]
      /\ \/ handler'[c] = handler[c]
         \/ /\ handler'[c].pc = "open" /\ handler'[c].i \in Wanted(c)
            /\ handler'[c].i \in Id
  <2>1. CASE UNCHANGED handler
    BY <1>2, <2>1
  <2>2. CASE \E i \in Wanted(c) : handler' = [handler EXCEPT ![c].pc = "open", ![c].i = i]
    <3>1. PICK i \in Wanted(c) : handler' = [handler EXCEPT ![c].pc = "open", ![c].i = i]
      BY <2>2
    <3>2. i \in Id
      BY DEF Wanted
    <3>3. handler' = [handler EXCEPT ![c] = [handler[c] EXCEPT !.pc = "open", !.i = i]]
      BY <1>2, <3>1
    <3>4. [handler[c] EXCEPT !.pc = "open", !.i = i]
              \in [pc : {"away", "open", "opened"}, i : Id \cup {0}, fd : Descriptor]
      BY <1>2, <3>2
    <3>5. handler'[c].pc = "open" /\ handler'[c].i = i
      BY <1>2, <3>3
    <3> QED
      BY <1>2, <3>2, <3>3, <3>4, <3>5
  <2> QED
    BY <2>1, <2>2 DEF HandlerStarts
<1>4. TypeOK'
  BY <1>1, <1>2, <1>3 DEF IInv, TypeOK, Alive
<1>5. \A d \in Conn : handler'[d].pc = "opened" => handler'[d] = handler[d]
  BY <1>3
<1>6. \A d \in Conn : handler[d].pc = "opened" => handler'[d] = handler[d]
  BY <1>1, <1>3
<1>7. PlacesInv' /\ MarkedInv'
  BY <1>1 DEF IInv, PlacesInv, MarkedInv, Announces, Alive, me
<1>8. BusyInv'
  <2> SUFFICES ASSUME NEW d \in Conn, handler'[d].pc # "away"
               PROVE  /\ usr_pipe_fd[<<handler'[d].i, me(d)>>] = Zero
                      /\ handler'[d].pc = "open" /\ NobodyLeft
                            => usr_pipe_table[<<handler'[d].i, me(d)>>]
    BY <1>1 DEF BusyInv, NobodyLeft, me
  <2>1. CASE handler'[d] = handler[d]
    BY <2>1 DEF IInv, BusyInv
  <2>2. CASE handler'[d] # handler[d]
    <3>1. d = c /\ handler'[d].i \in Wanted(d)
      BY <1>3, <2>2
    <3> QED
      BY <3>1 DEF Wanted
  <2> QED
    BY <2>1, <2>2
<1>9. TakenInv' /\ ForgetsInv'
  BY <1>1 DEF IInv, TakenInv, Taken, ForgetsInv, Forgets, Waits, Announces, Own, me
<1>10. EndsInv'
  <2>1. /\ \A q \in Conn : me(q)' = me(q) /\ (Own(q)' => Own(q))
        /\ NobodyLeft' => NobodyLeft
    BY <1>1 DEF me, Own, NobodyLeft
  <2> QED
    BY <1>1, <1>5, <2>1, EndsKeep
<1>11. AnnouncedReadable'
  BY <1>1, <1>6 DEF IInv, AnnouncedReadable, Alive, me
<1> QED
  BY <1>4, <1>7, <1>8, <1>9, <1>10, <1>11 DEF IInv

\* The handler of d has its descriptor.  Only the sender of the pipe may stop waiting.
Opens(d, fd) ==
    /\ handler[d].pc = "open" /\ FitsThen(fd, handler[d].i, me(d))
    /\ handler' = [handler EXCEPT ![d].pc = "opened", ![d].fd = fd]
    /\ UNCHANGED <<usr_pipe_table, usr_pipe_fd, pending>> /\ Stays
    /\ proc' \in [Conn -> Process]
    /\ \A q \in Conn :
          /\ proc'[q].pc \in {"in", "take", "unmark", "release"} => proc'[q].in \in Id
          /\ proc'[q].pc \in {"out", "mark", "signal", "open", "unlink"} => proc'[q].out \in Id
    /\ \A q \in Conn, i \in Id : /\ Taken(q, i)' => Taken(q, i)
                                 /\ Forgets(q, i)' => Forgets(q, i)
    /\ \A q \in Conn, j \in Id : Announces(q, j) =>
          \/ proc'[q].pc \in {"signal", "open"} /\ proc'[q].out = j
          \/ me(q) = handler[d].i /\ j = me(d)
    /\ \A q \in Conn : /\ Alive(q) /\ me(q) = handler[d].i /\ proc'[d].zero = "client"
                       /\ usr_pipe_table[<<me(q), me(d)>>]
                       /\ ~(proc'[q].pc \in {"signal", "open"} /\ proc'[q].out = me(d))
                       => fd \notin {Zero, Failed}

LEMMA OpenedKeeps ==
    ASSUME IInv, NEW d \in Conn, NEW fd \in Descriptor, Opens(d, fd)
    PROVE  IInv'
<1> DEFINE h == [handler[d] EXCEPT !.pc = "opened", !.fd = fd]
<1>1. /\ handler \in [Conn -> [pc : {"away", "open", "opened"}, i : Id \cup {0}, fd : Descriptor]]
      /\ handler[d].i \in Id /\ Alive(d) /\ me(d) \in Id
      /\ \A q \in Conn : Alive(q) /\ me(q) = me(d) => q = d
      /\ client_pid[me(d)] # 0
  <2>1. /\ handler \in [Conn -> [pc : {"away", "open", "opened"}, i : Id \cup {0}, fd : Descriptor]]
        /\ handler[d].i \in Id /\ Alive(d)
    BY DEF IInv, TypeOK, Opens
  <2> QED
    BY <2>1, OwnId
<1>2. /\ handler' = [handler EXCEPT ![d] = h]
      /\ h \in [pc : {"away", "open", "opened"}, i : Id \cup {0}, fd : Descriptor]
      /\ h.pc = "opened" /\ h.i = handler[d].i /\ h.fd = fd
  BY <1>1 DEF Opens
<1> HIDE DEF h
<1>3. /\ handler' \in [Conn -> [pc : {"away", "open", "opened"}, i : Id \cup {0}, fd : Descriptor]]
      /\ handler'[d] = h
      /\ \A q \in Conn : q # d => handler'[q] = handler[q]
  BY <1>1, <1>2
<1>4. /\ client_pid' = client_pid /\ usr_pipe_table' = usr_pipe_table
      /\ usr_pipe_fd' = usr_pipe_fd
      /\ \A q \in Conn : me(q)' = me(q) /\ (Alive(q)' <=> Alive(q)) /\ (Own(q)' => Own(q))
  BY DEF Opens, Stays
<1>5. /\ PlacesInv' /\ (NobodyLeft' => NobodyLeft)
      /\ \A i \in Id : client_pid[i] \in Conn \cup {0}
      /\ \A i \in Id : client_pid[i] # 0 => me(client_pid[i]) = i
  BY StaysKeeps DEF IInv, PlacesInv, Opens
<1>6. TypeOK'
  <2>1. \A q \in Conn : handler'[q].pc # "away" => handler'[q].i \in Id /\ Alive(q)'
    <3> SUFFICES ASSUME NEW q \in Conn, handler'[q].pc # "away"
                 PROVE  handler'[q].i \in Id /\ Alive(q)'
      OBVIOUS
    <3>1. CASE q = d
      BY <1>1, <1>2, <1>3, <1>4, <3>1
    <3>2. CASE q # d
      BY <1>3, <1>4, <3>2, ProcType
    <3> QED
      BY <3>1, <3>2
  <2>2. /\ client_pid \in [Id -> Conn \cup {0}] /\ usr_pipe_table \in [Id \X Id -> BOOLEAN]
        /\ usr_pipe_fd \in [Id \X Id -> Descriptor] /\ pending \in [Conn -> BOOLEAN]
    BY DEF IInv, TypeOK
  <2>3. pending' = pending
    BY DEF Opens
  <2> QED
    BY <1>3, <1>4, <2>1, <2>2, <2>3 DEF TypeOK, Opens
<1>7. MarkedInv'
  <2> SUFFICES ASSUME NEW k \in Id, NEW j \in Id, usr_pipe_table[<<k, j>>]
               PROVE  /\ client_pid[k] # 0
                      /\ client_pid[j] = 0 => /\ proc'[client_pid[k]].pc \in {"signal", "open"}
                                              /\ proc'[client_pid[k]].out = j
    BY <1>4 DEF MarkedInv, Announces
  <2>1. /\ client_pid[k] # 0 /\ (client_pid[j] = 0 => Announces(client_pid[k], j))
        /\ client_pid[k] \in Conn
    BY <1>5 DEF IInv, MarkedInv
  <2>2. client_pid[j] = 0 => j # me(d)
    BY <1>1
  <2> QED
    BY <2>1, <2>2 DEF Opens
<1>8. BusyInv'
  <2> SUFFICES ASSUME NEW e \in Conn, handler'[e].pc # "away"
               PROVE  /\ usr_pipe_fd[<<handler'[e].i, me(e)>>] = Zero
                      /\ handler'[e].pc = "open" /\ NobodyLeft
                            => usr_pipe_table[<<handler'[e].i, me(e)>>]
    BY <1>4, <1>5 DEF BusyInv
  <2>1. CASE e = d
    BY <1>2, <1>3, <2>1 DEF IInv, BusyInv, Opens
  <2>2. CASE e # d
    BY <1>3, <2>2 DEF IInv, BusyInv
  <2> QED
    BY <2>1, <2>2
<1>9. TakenInv'
  BY <1>4 DEF IInv, TakenInv, Opens
<1>10. ForgetsInv'
  <2> SUFFICES ASSUME NEW e \in Conn, NEW k \in Id, Forgets(e, k)', usr_pipe_table[<<k, me(e)>>]
               PROVE  Waits(k, e)'
    BY <1>4 DEF ForgetsInv
  <2>1. Forgets(e, k) /\ Alive(e) /\ me(e) \in Id
    <3>1. Forgets(e, k)
      BY DEF Opens
    <3> QED
      BY <3>1, OwnId DEF Forgets, Alive
  <2>2. client_pid[k] # 0 /\ client_pid[k] \in Conn /\ Announces(client_pid[k], me(e))
    BY <1>5, <2>1 DEF IInv, ForgetsInv, Waits
  <2>3. ASSUME me(client_pid[k]) = handler[d].i, me(e) = me(d) PROVE FALSE
    <3>1. e = d /\ k = handler[d].i
      BY <1>1, <1>5, <2>1, <2>2, <2>3
    <3>2. Taken(d, handler[d].i)
      BY <2>1, <3>1 DEF Forgets, Taken
    <3> QED
      BY <1>1, <3>2 DEF IInv, TakenInv, BusyInv, Opens
  <2>4. proc'[client_pid[k]].pc \in {"signal", "open"} /\ proc'[client_pid[k]].out = me(e)
    BY <2>1, <2>2, <2>3 DEF Opens
  <2> QED
    BY <1>4, <2>2, <2>4 DEF Waits, Announces
<1>11. EndsInv'
  <2>1. \A i, j \in Id : FitsThen(usr_pipe_fd[<<i, j>>], i, j)
    <3> SUFFICES ASSUME NEW i \in Id, NEW j \in Id
                 PROVE  FitsThen(usr_pipe_fd[<<i, j>>], i, j)
      OBVIOUS
    <3>1. Fits(usr_pipe_fd[<<i, j>>], i, j)
      BY DEF IInv, EndsInv
    <3> QED
      BY <1>4, <1>5, <3>1, FitsKeeps
  <2>2. ASSUME NEW e \in Conn, handler'[e].pc = "opened"
        PROVE  FitsThen(handler'[e].fd, handler'[e].i, me(e))
    <3>1. CASE e = d
      BY <1>2, <1>3, <3>1 DEF Opens
    <3>2. CASE e # d
      <4>1. /\ handler'[e] = handler[e] /\ handler[e].i \in Id /\ me(e) \in Id
            /\ Fits(handler[e].fd, handler[e].i, me(e))
        BY <1>3, <2>2, <3>2, ProcType, OwnId DEF IInv, EndsInv
      <4> QED
        BY <1>4, <1>5, <4>1, FitsKeeps
    <3> QED
      BY <3>1, <3>2
  <2>3. \A e \in Conn : proc'[e].client_id = me(e)
    BY <1>4 DEF me
  <2> QED
    BY <1>4, <2>1, <2>2, <2>3, EndsThen
<1>12. AnnouncedReadable'
  <2> SUFFICES ASSUME NEW q \in Conn, NEW e \in Conn, Alive(q), Alive(e),
                      proc'[e].zero = "client", usr_pipe_table[<<me(q), me(e)>>],
                      ~(proc'[q].pc \in {"signal", "open"} /\ proc'[q].out = me(e))
               PROVE  \/ usr_pipe_fd[<<me(q), me(e)>>] \notin {Zero, Failed}
                      \/ /\ handler'[e].pc = "opened" /\ handler'[e].i = me(q)
                         /\ handler'[e].fd \notin {Zero, Failed}
    BY <1>4, ReadableThen DEF Alive, me
  <2>1. me(q) \in Id /\ me(e) \in Id /\ Own(e) /\ Own(e)'
    BY <1>4, OwnId DEF Own
  <2>2. CASE e = d /\ me(q) = handler[d].i
    BY <1>2, <1>3, <2>2 DEF Opens
  <2>3. CASE ~(e = d /\ me(q) = handler[d].i)
    <3>1. ~Announces(q, me(e))
      BY <1>1, <2>1, <2>3 DEF Opens
    <3>2. \/ usr_pipe_fd[<<me(q), me(e)>>] \notin {Zero, Failed}
          \/ /\ handler[e].pc = "opened" /\ handler[e].i = me(q)
             /\ handler[e].fd \notin {Zero, Failed}
      BY <2>1, <3>1 DEF IInv, AnnouncedReadable, Announces, Own
    <3> QED
      BY <1>3, <2>3, <3>2
  <2> QED
    BY <2>2, <2>3
<1> QED
  BY <1>5, <1>6, <1>7, <1>8, <1>9, <1>10, <1>11, <1>12 DEF IInv

\* What the open returns: the pipe's descriptor, or 0 if that is free.
LEMMA FdFits ==
    ASSUME IInv, NEW c \in Conn, NEW d \in Conn, Alive(c), Alive(d), Stays
    PROVE  /\ Fd(c, d) \in Descriptor /\ FitsThen(Fd(c, d), me(c), me(d))
           /\ proc[d].zero = "client" => Fd(c, d) \notin {Zero, Failed}
<1>1. /\ client_pid'[me(c)] = c /\ client_pid'[me(d)] = d
      /\ [of |-> d, from |-> c] \in [of : Conn, from : Conn]
  BY OwnId DEF Stays
<1> DEFINE fd == [of |-> d, from |-> c]
<1>2. fd \in Descriptor /\ fd \notin {Zero, Failed} /\ fd \in [of : Conn, from : Conn]
  BY <1>1, Numbers
<1>3. FitsThen(fd, me(c), me(d)) /\ FitsThen(Zero, me(c), me(d))
  BY <1>1 DEF FitsThen
<1>4. Fd(c, d) = IF proc[d].zero = "free" THEN Zero ELSE fd
  BY DEF Fd
<1> HIDE DEF fd
<1> QED
  BY <1>2, <1>3, <1>4, Numbers

\* Both opens return: the sender stops waiting as the receiver gets the descriptor.
LEMMA MeetKeeps ==
    ASSUME IInv, NEW c \in Conn, NEW d \in Conn, Meet(c, d)
    PROVE  IInv'
<1> DEFINE z == Lowest(c)
           y == Lowest(d)
           o == (proc[c].zero = "free")
           r == [proc[c] EXCEPT !.pc = "unlink", !.zero = z, !.out0 = o]
           s == [proc[d] EXCEPT !.zero = y]
           fd == Fd(c, d)
<1>1. /\ proc[c].pc = "open" /\ handler[c].pc = "away" /\ handler[d].pc = "open"
      /\ handler[d].i = me(c) /\ proc[c].out = me(d)
      /\ proc' = [proc EXCEPT ![c].pc = "unlink", ![c].zero = z, ![d].zero = y, ![c].out0 = o]
      /\ handler' = [handler EXCEPT ![d].pc = "opened", ![d].fd = fd]
      /\ UNCHANGED <<client_pid, usr_pipe_table, usr_pipe_fd, pending>>
  BY DEF Meet, At, shared
<1>2. /\ Alive(c) /\ Alive(d) /\ c # d
      /\ \A q \in Conn : Alive(q) /\ me(q) = me(c) => q = c
  <2>1. Alive(c) /\ Alive(d) /\ c # d
    BY <1>1, ProcType DEF Alive
  <2> QED
    BY <2>1, OwnId
<1>3. /\ z \in {"client", "free", "used"} /\ (z = "client" => proc[c].zero = "client")
      /\ y \in {"client", "free", "used"} /\ (y = "client" => proc[d].zero = "client")
      /\ o \in BOOLEAN
  BY ZeroOf
<1> HIDE DEF z, y, o
<1>4. /\ proc'[c] = r /\ proc'[d] = s
      /\ \A q \in Conn : q # c /\ q # d => proc'[q] = proc[q]
  BY <1>1, <1>2, ProcType
<1>5. /\ r \in Process /\ r.client_id = me(c) /\ r.pc = "unlink" /\ r.zero = z
      /\ r.in = proc[c].in /\ r.out = proc[c].out /\ r.stdin = proc[c].stdin
  BY <1>3, ProcType DEF Process, me
<1>6. /\ s \in Process /\ s.client_id = me(d) /\ s.pc = proc[d].pc /\ s.zero = y
      /\ s.in = proc[d].in /\ s.out = proc[d].out /\ s.stdin = proc[d].stdin
  BY <1>3, ProcType DEF Process, me
<1> HIDE DEF r, s
<1>7. proc' \in [Conn -> Process]
  <2>1. proc' = [q \in Conn |-> proc'[q]]
    BY <1>1, ProcType
  <2>2. \A q \in Conn : proc'[q] \in Process
    BY <1>4, <1>5, <1>6, ProcType
  <2> QED
    BY <2>1, <2>2
<1>8. \A q \in Conn :
         /\ proc'[q].client_id = proc[q].client_id
         /\ proc'[q].pc \notin {"none", "dead"} <=> proc[q].pc \notin {"none", "dead"}
         /\ proc'[q].zero = "client" => proc[q].zero = "client"
         /\ proc'[q].in = proc[q].in /\ proc'[q].out = proc[q].out
         /\ proc'[q].stdin = proc[q].stdin
         /\ q # c => proc'[q].pc = proc[q].pc
         /\ proc'[c].pc = "unlink"
         /\ proc[q].pc = "dead" => proc'[q].pc = "dead"
  <2> SUFFICES ASSUME NEW q \in Conn
               PROVE  /\ proc'[q].client_id = proc[q].client_id
                      /\ proc'[q].pc \notin {"none", "dead"} <=> proc[q].pc \notin {"none", "dead"}
                      /\ proc'[q].zero = "client" => proc[q].zero = "client"
                      /\ proc'[q].in = proc[q].in /\ proc'[q].out = proc[q].out
                      /\ proc'[q].stdin = proc[q].stdin
                      /\ q # c => proc'[q].pc = proc[q].pc
                      /\ proc[q].pc = "dead" => proc'[q].pc = "dead"
    BY <1>4, <1>5
  <2>1. CASE q = c
    BY <1>1, <1>3, <1>4, <1>5, <2>1 DEF me
  <2>2. CASE q = d
    BY <1>2, <1>3, <1>4, <1>6, <2>2 DEF me
  <2>3. CASE q # c /\ q # d
    BY <1>4, <2>3
  <2> QED
    BY <2>1, <2>2, <2>3
<1>9. Stays
  BY <1>1, <1>8 DEF Stays, me, Alive, Own
<1>10. /\ fd \in Descriptor /\ FitsThen(fd, handler[d].i, me(d))
       /\ proc'[d].zero = "client" => fd \notin {Zero, Failed}
  BY <1>1, <1>2, <1>8, <1>9, FdFits
<1> HIDE DEF fd
<1>11. \A q \in Conn :
          /\ proc'[q].pc \in {"in", "take", "unmark", "release"} => proc'[q].in \in Id
          /\ proc'[q].pc \in {"out", "mark", "signal", "open", "unlink"} => proc'[q].out \in Id
  BY <1>1, <1>8, ProcType
<1>12. \A q \in Conn, i \in Id : /\ Taken(q, i)' => Taken(q, i)
                                 /\ Forgets(q, i)' => Forgets(q, i)
  BY <1>1, <1>8 DEF Taken, Forgets, Own
<1>13. \A q \in Conn, j \in Id : Announces(q, j) =>
          \/ proc'[q].pc \in {"signal", "open"} /\ proc'[q].out = j
          \/ me(q) = handler[d].i /\ j = me(d)
  BY <1>1, <1>8 DEF Announces
<1>14. /\ UNCHANGED <<usr_pipe_table, usr_pipe_fd, pending>>
       /\ \A q \in Conn : /\ Alive(q) /\ me(q) = handler[d].i /\ proc'[d].zero = "client"
                          /\ usr_pipe_table[<<me(q), me(d)>>]
                          /\ ~(proc'[q].pc \in {"signal", "open"} /\ proc'[q].out = me(d))
                          => fd \notin {Zero, Failed}
  BY <1>1, <1>10
<1>15. Opens(d, fd)
  BY <1>1, <1>7, <1>9, <1>10, <1>11, <1>12, <1>13, <1>14, Zenon DEF Opens
<1> QED
  BY <1>10, <1>15, OpenedKeeps

\* The sender is past its open: nothing changes for it.
LEMMA OpenAgainKeeps ==
    ASSUME IInv, NEW c \in Conn, NEW d \in Conn, OpenAgain(c, d)
    PROVE  IInv'
<1> DEFINE y == Lowest(d)
           s == [proc[d] EXCEPT !.zero = y]
           fd == Fd(c, d)
<1>1. /\ proc[c].pc = "unlink" /\ handler[d].pc = "open"
      /\ handler[d].i = me(c) /\ proc[c].out = me(d)
      /\ proc' = [proc EXCEPT ![d] = s]
      /\ handler' = [handler EXCEPT ![d].pc = "opened", ![d].fd = fd]
      /\ UNCHANGED <<client_pid, usr_pipe_table, usr_pipe_fd, pending>>
  BY ProcType DEF OpenAgain, shared
<1>2. Alive(c) /\ Alive(d)
  BY <1>1, ProcType DEF Alive
<1>3. y \in {"client", "free", "used"} /\ (y = "client" => proc[d].zero = "client")
  BY ZeroOf
<1> HIDE DEF y
<1>4. /\ s \in Process /\ s.client_id = me(d) /\ s.pc = proc[d].pc /\ s.zero = y
      /\ s.in = proc[d].in /\ s.out = proc[d].out /\ s.stdin = proc[d].stdin
  BY <1>3, ProcType DEF Process, me
<1> HIDE DEF s
<1>5. /\ proc' \in [Conn -> Process] /\ proc'[d] = s
      /\ \A q \in Conn : q # d => proc'[q] = proc[q]
  BY <1>1, <1>4, ProcType
<1>6. \A q \in Conn :
         /\ proc'[q].client_id = proc[q].client_id /\ proc'[q].pc = proc[q].pc
         /\ proc'[q].zero = "client" => proc[q].zero = "client"
         /\ proc'[q].in = proc[q].in /\ proc'[q].out = proc[q].out
         /\ proc'[q].stdin = proc[q].stdin
  BY <1>3, <1>4, <1>5 DEF me
<1>7. Stays
  BY <1>1, <1>6 DEF Stays, me, Alive, Own
<1>8. /\ fd \in Descriptor /\ FitsThen(fd, handler[d].i, me(d))
      /\ proc'[d].zero = "client" => fd \notin {Zero, Failed}
  BY <1>1, <1>2, <1>6, <1>7, FdFits
<1> HIDE DEF fd
<1>9. \A q \in Conn :
          /\ proc'[q].pc \in {"in", "take", "unmark", "release"} => proc'[q].in \in Id
          /\ proc'[q].pc \in {"out", "mark", "signal", "open", "unlink"} => proc'[q].out \in Id
  BY <1>6, ProcType
<1>10. \A q \in Conn, i \in Id : /\ Taken(q, i)' => Taken(q, i)
                                 /\ Forgets(q, i)' => Forgets(q, i)
  BY <1>6 DEF Taken, Forgets, Own
<1>11. \A q \in Conn, j \in Id : Announces(q, j) =>
          \/ proc'[q].pc \in {"signal", "open"} /\ proc'[q].out = j
          \/ me(q) = handler[d].i /\ j = me(d)
  BY <1>6 DEF Announces
<1>12. /\ UNCHANGED <<usr_pipe_table, usr_pipe_fd, pending>>
       /\ \A q \in Conn : /\ Alive(q) /\ me(q) = handler[d].i /\ proc'[d].zero = "client"
                          /\ usr_pipe_table[<<me(q), me(d)>>]
                          /\ ~(proc'[q].pc \in {"signal", "open"} /\ proc'[q].out = me(d))
                          => fd \notin {Zero, Failed}
  BY <1>1, <1>8
<1>13. Opens(d, fd)
  BY <1>1, <1>5, <1>7, <1>8, <1>9, <1>10, <1>11, <1>12, Zenon DEF Opens
<1> QED
  BY <1>8, <1>13, OpenedKeeps

\* A handler that is still to open a pipe whose sender is through is about one that it
\* has opened before, as 0.
LEMMA UnlinkKeeps ==
    ASSUME IInv, NEW c \in Conn, Unlink(c)
    PROVE  IInv'
<1> DEFINE r == [proc[c] EXCEPT !.pc = "fork"]
<1>1. /\ proc[c].pc = "unlink" /\ handler[c].pc = "away" /\ At(c, proc[c].pc)
      /\ proc' = [proc EXCEPT ![c] = r]
      /\ UNCHANGED <<client_pid, usr_pipe_table, usr_pipe_fd, pending>>
  BY ProcType DEF Unlink, At, shared
<1>2. /\ r \in Process /\ r.client_id = me(c) /\ r.pc = "fork" /\ r.zero = proc[c].zero
      /\ r.in = proc[c].in /\ r.out = proc[c].out /\ r.stdin = proc[c].stdin
  BY ProcType DEF Process, me
<1> HIDE DEF r
<1>3. /\ proc' \in [Conn -> Process] /\ proc'[c] = r
      /\ \A q \in Conn : q # c => proc'[q] = proc[q]
  BY <1>1, <1>2, ProcType
<1>4. \A q \in Conn, i \in Id : /\ Taken(q, i)' => Taken(q, i)
                                /\ Forgets(q, i)' => Forgets(q, i)
  BY <1>1, <1>2, <1>3 DEF Taken, Forgets, Own
<1>5. CASE UNCHANGED handler
  <2>1. TypeOK'
    BY <1>1, <1>2, <1>5, OwnStepTypes
  <2>2. Only(c)
    BY <1>1, <1>2, <1>3, <1>5 DEF Only, Alive, me, Own
  <2>3. \A i \in Id : (Taken(c, i)' => Taken(c, i)) /\ ~Forgets(c, i)'
    BY <1>1, <1>2, <1>3 DEF Taken, Forgets, Own
  <2> QED
    BY <2>1, <2>2, <2>3, OnlyKeeps DEF IInv, TakenInv
<1>6. CASE \E d \in Conn :
             /\ handler[d].pc = "open" /\ handler[d].i = me(c) /\ proc[c].out = me(d)
             /\ handler' = [handler EXCEPT ![d].pc = "opened", ![d].fd = Failed]
  <2>1. PICK d \in Conn :
             /\ handler[d].pc = "open" /\ handler[d].i = me(c) /\ proc[c].out = me(d)
             /\ handler' = [handler EXCEPT ![d].pc = "opened", ![d].fd = Failed]
    BY <1>6
  <2>2. /\ Alive(c) /\ Alive(d) /\ me(d) \in Id /\ client_pid[me(d)] = d
        /\ \A q \in Conn : Alive(q) /\ me(q) = me(c) => q = c
    <3>1. Alive(c) /\ Alive(d)
      BY <1>1, <2>1, ProcType DEF Alive
    <3> QED
      BY <3>1, OwnId
  <2>3. \A q \in Conn :
           /\ proc'[q].client_id = proc[q].client_id
           /\ proc'[q].pc \notin {"none", "dead"} <=> proc[q].pc \notin {"none", "dead"}
           /\ proc'[q].pc \in {"signal", "open"} <=> proc[q].pc \in {"signal", "open"}
           /\ proc'[q].zero = proc[q].zero /\ proc'[q].out = proc[q].out
           /\ proc[q].pc = "dead" => proc'[q].pc = "dead"
    BY <1>1, <1>2, <1>3 DEF me
  <2>4. Stays
    BY <1>1, <2>3 DEF Stays, me, Alive, Own
  <2>5. ~(proc[d].zero = "client" /\ usr_pipe_table[<<me(c), me(d)>>])
    <3>1. usr_pipe_fd[<<me(c), me(d)>>] = Zero
      BY <2>1 DEF IInv, BusyInv
    <3> QED
      BY <1>1, <2>1, <2>2, <3>1 DEF IInv, AnnouncedReadable
  <2>6. FitsThen(Failed, handler[d].i, me(d))
    <3>1. NobodyLeft' => NobodyLeft
      BY <2>4, StaysKeeps
    <3>2. NobodyLeft => usr_pipe_table[<<me(c), me(d)>>]
      BY <2>1 DEF IInv, BusyInv
    <3>3. client_pid'[me(d)] = d
      BY <1>1, <2>2
    <3> QED
      BY <2>3, <2>5, <3>1, <3>2, <3>3 DEF FitsThen
  <2>7. \A q \in Conn :
            /\ proc'[q].pc \in {"in", "take", "unmark", "release"} => proc'[q].in \in Id
            /\ proc'[q].pc \in {"out", "mark", "signal", "open", "unlink"} => proc'[q].out \in Id
    BY <1>2, <1>3, ProcType
  <2>8. \A q \in Conn, j \in Id : Announces(q, j) =>
            \/ proc'[q].pc \in {"signal", "open"} /\ proc'[q].out = j
            \/ me(q) = handler[d].i /\ j = me(d)
    BY <2>3 DEF Announces
  <2>9. /\ UNCHANGED <<usr_pipe_table, usr_pipe_fd, pending>>
        /\ \A q \in Conn : /\ Alive(q) /\ me(q) = handler[d].i /\ proc'[d].zero = "client"
                           /\ usr_pipe_table[<<me(q), me(d)>>]
                           /\ ~(proc'[q].pc \in {"signal", "open"} /\ proc'[q].out = me(d))
                           => Failed \notin {Zero, Failed}
    BY <1>1, <2>1, <2>2, <2>3, <2>5
  <2>10. Opens(d, Failed)
    BY <1>3, <1>4, <2>1, <2>4, <2>6, <2>7, <2>8, <2>9, Zenon DEF Opens
  <2> QED
    BY <2>10, OpenedKeeps, Numbers
<1> QED
  BY <1>5, <1>6 DEF Unlink

\* The descriptor is stored where the sender's id and the receiver's say.
LEMMA HandlerReturnsKeeps ==
    ASSUME IInv, NEW d \in Conn, HandlerReturns(d)
    PROVE  IInv'
<1> DEFINE a == handler[d].i
           b == me(d)
           fd == handler[d].fd
<1>1. /\ handler[d].pc = "opened"
      /\ usr_pipe_fd' = [usr_pipe_fd EXCEPT ![<<a, b>>] = fd]
      /\ handler' = [handler EXCEPT ![d] = Away]
      /\ UNCHANGED <<client_pid, usr_pipe_table, proc, pending>>
  BY DEF HandlerReturns
<1>2. /\ a \in Id /\ b \in Id /\ fd \in Descriptor /\ Fits(fd, a, b)
      /\ usr_pipe_fd[<<a, b>>] = Zero
      /\ \A q \in Conn : Alive(q) => me(q) \in Id
      /\ \A q \in Conn : Alive(q) /\ me(q) = b => q = d
  <2>1. Alive(d) /\ a \in Id
    BY <1>1, ProcType
  <2>2. Fits(fd, a, b)
    BY <1>1 DEF IInv, EndsInv
  <2>3. fd \in Descriptor
    BY ProcType
  <2>4. usr_pipe_fd[<<a, b>>] = Zero
    BY <1>1 DEF IInv, BusyInv
  <2> QED
    BY <2>1, <2>2, <2>3, <2>4, OwnId
<1>3. \A q \in Conn : q = d => me(q) = b /\ handler[q].i = a /\ handler[q].fd = fd
  OBVIOUS
<1> HIDE DEF a, b, fd
<1>4. /\ usr_pipe_fd' \in [Id \X Id -> Descriptor]
      /\ \A i, j \in Id : usr_pipe_fd'[<<i, j>>] =
            IF i = a /\ j = b THEN fd ELSE usr_pipe_fd[<<i, j>>]
  <2>1. usr_pipe_fd \in [Id \X Id -> Descriptor]
    BY DEF IInv, TypeOK
  <2> QED
    BY <1>1, <1>2, <2>1
<1>5. /\ handler' \in [Conn -> [pc : {"away", "open", "opened"}, i : Id \cup {0}, fd : Descriptor]]
      /\ handler'[d].pc = "away"
      /\ \A q \in Conn : q # d => handler'[q] = handler[q]
  <2>1. handler \in [Conn -> [pc : {"away", "open", "opened"}, i : Id \cup {0}, fd : Descriptor]]
    BY DEF IInv, TypeOK
  <2>2. /\ Away \in [pc : {"away", "open", "opened"}, i : Id \cup {0}, fd : Descriptor]
        /\ Away.pc = "away"
    BY Numbers DEF Away
  <2> QED
    BY <1>1, <2>1, <2>2
<1>6. TypeOK'
  BY <1>1, <1>4, <1>5 DEF IInv, TypeOK, Alive
<1>7. PlacesInv' /\ MarkedInv' /\ ForgetsInv'
  BY <1>1 DEF IInv, PlacesInv, MarkedInv, ForgetsInv, Forgets, Waits, Announces, Alive, me, Own
<1>8. \A i \in Id, e \in Conn : Alive(e) /\ usr_pipe_fd[<<i, me(e)>>] # Zero =>
          usr_pipe_fd'[<<i, me(e)>>] = usr_pipe_fd[<<i, me(e)>>]
  BY <1>2, <1>4
<1>9. BusyInv'
  <2> SUFFICES ASSUME NEW e \in Conn, handler'[e].pc # "away"
               PROVE  /\ usr_pipe_fd'[<<handler'[e].i, me(e)>>] = Zero
                      /\ handler'[e].pc = "open" /\ NobodyLeft
                            => usr_pipe_table[<<handler'[e].i, me(e)>>]
    BY <1>1 DEF BusyInv, NobodyLeft, me
  <2>1. /\ e # d /\ handler'[e] = handler[e] /\ handler[e].i \in Id /\ Alive(e)
        /\ usr_pipe_fd[<<handler[e].i, me(e)>>] = Zero
        /\ handler[e].pc = "open" /\ NobodyLeft => usr_pipe_table[<<handler[e].i, me(e)>>]
    BY <1>5, ProcType DEF IInv, BusyInv
  <2> QED
    BY <1>2, <1>4, <2>1
<1>10. TakenInv'
  <2> SUFFICES ASSUME NEW e \in Conn, NEW i \in Id, Taken(e, i)
               PROVE  usr_pipe_fd'[<<i, me(e)>>] # Zero
    BY <1>1 DEF TakenInv, Taken, Own, me
  <2>1. Alive(e) /\ usr_pipe_fd[<<i, me(e)>>] # Zero
    BY DEF IInv, TakenInv, Taken, Alive
  <2> QED
    BY <1>8, <2>1
<1>11. EndsInv'
  <2>1. /\ NobodyLeft' => NobodyLeft
        /\ \A q \in Conn : Own(q)' => Own(q)
        /\ \A q \in Conn : proc'[q].client_id = me(q)
    BY <1>1 DEF NobodyLeft, Own, me
  <2>2. \A i, j \in Id : FitsThen(usr_pipe_fd'[<<i, j>>], i, j)
    <3> SUFFICES ASSUME NEW i \in Id, NEW j \in Id
                 PROVE  FitsThen(usr_pipe_fd'[<<i, j>>], i, j)
      OBVIOUS
    <3>1. Fits(usr_pipe_fd[<<i, j>>], i, j)
      BY DEF IInv, EndsInv
    <3>2. Fits(usr_pipe_fd'[<<i, j>>], i, j)
      BY <1>2, <1>4, <3>1
    <3> QED
      BY <1>1, <2>1, <3>2, FitsKeeps
  <2>3. ASSUME NEW e \in Conn, handler'[e].pc = "opened"
        PROVE  FitsThen(handler'[e].fd, handler'[e].i, me(e))
    <3>1. /\ handler'[e] = handler[e] /\ handler[e].i \in Id /\ me(e) \in Id
          /\ Fits(handler[e].fd, handler[e].i, me(e))
      BY <1>5, <2>3, ProcType, OwnId DEF IInv, EndsInv
    <3> QED
      BY <1>1, <2>1, <3>1, FitsKeeps
  <2> QED
    BY <2>1, <2>2, <2>3, EndsThen
<1>12. AnnouncedReadable'
  <2> SUFFICES ASSUME NEW q \in Conn, NEW e \in Conn, Alive(q), Alive(e),
                      proc[e].zero = "client", usr_pipe_table[<<me(q), me(e)>>],
                      ~(proc[q].pc \in {"signal", "open"} /\ proc[q].out = me(e))
               PROVE  \/ usr_pipe_fd'[<<me(q), me(e)>>] \notin {Zero, Failed}
                      \/ /\ handler'[e].pc = "opened" /\ handler'[e].i = me(q)
                         /\ handler'[e].fd \notin {Zero, Failed}
    BY <1>1, ReadableThen DEF Alive, me
  <2>1. \/ usr_pipe_fd[<<me(q), me(e)>>] \notin {Zero, Failed}
        \/ /\ handler[e].pc = "opened" /\ handler[e].i = me(q)
           /\ handler[e].fd \notin {Zero, Failed}
    BY DEF IInv, AnnouncedReadable
  <2>2. me(q) \in Id /\ me(e) \in Id
    BY <1>2
  <2>3. CASE usr_pipe_fd[<<me(q), me(e)>>] \notin {Zero, Failed}
    BY <1>8, <2>2, <2>3
  <2>4. CASE /\ handler[e].pc = "opened" /\ handler[e].i = me(q)
             /\ handler[e].fd \notin {Zero, Failed}
    <3>1. CASE e = d
      BY <1>3, <1>4, <2>2, <2>4, <3>1
    <3>2. CASE e # d
      BY <1>5, <2>4, <3>2
    <3> QED
      BY <3>1, <3>2
  <2> QED
    BY <2>1, <2>3, <2>4
<1> QED
  BY <1>6, <1>7, <1>9, <1>10, <1>11, <1>12 DEF IInv

-----------------------------------------------------------------------------
\* The invariant holds before the first user.
LEMMA InitIInv == Init => IInv
<1> SUFFICES ASSUME Init PROVE IInv
  OBVIOUS
<1>1. /\ client_pid = [i \in Id |-> 0]
      /\ usr_pipe_table = [ids \in Id \X Id |-> FALSE]
      /\ usr_pipe_fd = [ids \in Id \X Id |-> Zero]
      /\ proc = [c \in Conn |-> NoProc] /\ pending = [c \in Conn |-> FALSE]
      /\ handler = [c \in Conn |-> Away]
  BY DEF Init
<1>2. NoProc \in Process /\ NoProc.pc = "none" /\ NoProc.in = 0 /\ NoProc.out = 0
  BY Numbers DEF NoProc, Process
<1>3. /\ Away \in [pc : {"away", "open", "opened"}, i : Id \cup {0}, fd : Descriptor]
      /\ Away.pc = "away"
  BY Numbers DEF Away
<1>4. /\ \A c \in Conn : proc[c] = NoProc /\ handler[c] = Away
      /\ \A i \in Id : client_pid[i] = 0
      /\ \A i, j \in Id : usr_pipe_table[<<i, j>>] = FALSE /\ usr_pipe_fd[<<i, j>>] = Zero
  BY <1>1
<1>5. TypeOK
  BY <1>1, <1>2, <1>3, <1>4, Numbers DEF TypeOK
<1>6. PlacesInv /\ MarkedInv
  BY <1>2, <1>4 DEF PlacesInv, MarkedInv, Alive
<1>7. BusyInv /\ TakenInv /\ ForgetsInv
  BY <1>2, <1>3, <1>4 DEF BusyInv, TakenInv, ForgetsInv, Taken, Forgets
<1>8. EndsInv
  BY <1>3, <1>4 DEF EndsInv, Fits
<1>9. AnnouncedReadable
  BY <1>2, <1>4 DEF AnnouncedReadable, Alive
<1> QED
  BY <1>5, <1>6, <1>7, <1>8, <1>9 DEF IInv

\* Every step keeps it.
LEMMA NextIInv == IInv /\ [Next]_vars => IInv'
<1> SUFFICES ASSUME IInv, [Next]_vars PROVE IInv'
  OBVIOUS
<1>1. CASE UNCHANGED vars
  <2>1. /\ client_pid' = client_pid /\ usr_pipe_table' = usr_pipe_table
        /\ usr_pipe_fd' = usr_pipe_fd /\ proc' = proc /\ pending' = pending
        /\ handler' = handler
    BY <1>1 DEF vars, shared
  <2>2. TypeOK'
    <3>1. TypeOK
      BY DEF IInv
    <3> QED
      BY <2>1, <3>1 DEF TypeOK, Alive
  <2>3. PlacesInv'
    BY <2>1 DEF IInv, PlacesInv, Alive, me
  <2>4. MarkedInv'
    BY <2>1 DEF IInv, MarkedInv, Announces
  <2>5. BusyInv' /\ TakenInv'
    BY <2>1 DEF IInv, BusyInv, TakenInv, Taken, NobodyLeft, Own, me
  <2>6. ForgetsInv'
    BY <2>1 DEF IInv, ForgetsInv, Forgets, Waits, Announces, Own, me
  <2>7. EndsInv'
    <3>1. /\ NobodyLeft' => NobodyLeft
          /\ \A q \in Conn : (Own(q)' => Own(q)) /\ me(q)' = me(q)
      BY <2>1 DEF NobodyLeft, Own, me
    <3> QED
      BY <2>1, <3>1, EndsKeep
  <2>8. AnnouncedReadable'
    BY <2>1 DEF IInv, AnnouncedReadable, Alive, me
  <2> QED
    BY <2>2, <2>3, <2>4, <2>5, <2>6, <2>7, <2>8 DEF IInv
<1>2. ASSUME NEW c \in Conn, User(c) PROVE IInv'
  BY <1>2, EnterKeeps, ExitKeeps, DeafKeeps, TypeKeeps DEF User
<1>3. ASSUME NEW c \in Conn, Step(c) PROVE IInv'
  BY <1>3, RefusedKeeps, InAllowedKeeps, InTakenKeeps, OutAllowedKeeps, OutMarkedKeeps,
     OutSignalledKeeps, UnlinkKeeps, ForkKeeps, UnmarkKeeps, ReleaseKeeps,
     HandlerStartsKeeps, HandlerReturnsKeeps, MeetKeeps, OpenAgainKeeps DEF Step
<1> QED
  BY <1>1, <1>2, <1>3 DEF Next

\* The inductive invariant holds in every state of the user pipes of np_multi_proc, for
\* every number of ids, connections and commands and every interleaving.
THEOREM Invariance == Spec => []IInv
BY InitIInv, NextIInv, PTL DEF Spec

\* The variables keep their types.
THEOREM TypeCorrect == Spec => []TypeOK
<1>1. IInv => TypeOK
  BY DEF IInv
<1> QED
  BY <1>1, Invariance, PTL

\* When a sender has its command started, the receiver can read the pipe, unless it has
\* closed its own standard input: also when it has read the pipe before and is about to
\* forget that descriptor, and when ids are given to new users.
THEOREM AlwaysReadable == Spec => []AnnouncedReadable
<1>1. IInv => AnnouncedReadable
  BY DEF IInv
<1> QED
  BY <1>1, Invariance, PTL

\* As long as nobody has left, the descriptor kept for a pipe is the receiver's and its
\* other end the sender's, or -1 of a receiver that has lost its own standard input.
THEOREM FdsAlwaysMatch == Spec => []FdsMatch
<1>1. IInv => FdsMatch
  <2> SUFFICES ASSUME IInv, NobodyLeft, NEW ids \in Id \X Id, usr_pipe_fd[ids] # Zero
               PROVE  \/ usr_pipe_fd[ids] = [of |-> client_pid[ids[2]], from |-> client_pid[ids[1]]]
                      \/ usr_pipe_fd[ids] = Failed /\ proc[client_pid[ids[2]]].zero # "client"
    BY DEF FdsMatch, NobodyLeft
  <2>1. PICK i \in Id, j \in Id : ids = <<i, j>>
    OBVIOUS
  <2>2. Fits(usr_pipe_fd[<<i, j>>], i, j)
    BY <2>1 DEF IInv, EndsInv
  <2> QED
    BY <2>1, <2>2 DEF Fits, Right, Unfit, Own
<1> QED
  BY <1>1, Invariance, PTL
=============================================================================
