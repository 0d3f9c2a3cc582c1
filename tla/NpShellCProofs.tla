----------------------------- MODULE NpShellCProofs -----------------------------
(***************************************************************************)
(* What holds of the C shell for every length of its array, every set of   *)
(* lines and every number of commands: it has both ends of a pipe or       *)
(* neither, also after the array has wrapped; and until it has wrapped a   *)
(* command reads what was sent to it.                                      *)
(*                                                                         *)
(* The code looks only at the entries before numpipe_idx, and all of these *)
(* were written since the index was 0 the last time.  Those whose target   *)
(* is yet to come have both ends of a pipe of their own; an entry that     *)
(* went out of sight leaves its two descriptors open for good.             *)
(***************************************************************************)
EXTENDS NpShellC, FunctionTheorems, FiniteSetTheorems, SequenceTheorems, TLAPS

\* What is said of a state is said here of any entries E, of which the code looks
\* at n, any descriptors open, any number np of pipes, and any next command c: it
\* is true again at points in the middle of a step.

\* The entries that the code looks at and whose target is yet to come.
Seen(E, n, c) == {j \in 1 .. n : E[j].target >= c}

\* Each of them names the two ends of one pipe.
NamesPipe(e, open) ==
    /\ open[e.in_fd].kind = "rd" /\ open[e.out_fd].kind = "wr"
    /\ open[e.in_fd].pipe = open[e.out_fd].pipe
SeenEnds(E, n, open, c) == \A j \in Seen(E, n, c) : NamesPipe(E[j], open)

\* No two of them have the same target or the same pipe.
SeenApart(E, n, open, c) ==
    \A i, j \in Seen(E, n, c) :
        E[i].target = E[j].target \/ open[E[i].out_fd].pipe = open[E[j].out_fd].pipe => i = j

\* An end that is open is open once and of a pipe that exists, and the other end
\* of that pipe is open, too.
PipesOf(kind, open) == {open[f].pipe : f \in {g \in Fd : open[g].kind = kind}}
OpenOnce(open) == \A f, g \in Fd : open[f].kind # "free" /\ open[f] = open[g] => f = g
OpenExist(open, np) == \A f \in Fd : open[f].kind # "free" => open[f].pipe \in 1 .. np
BothEnds(open) == PipesOf("rd", open) = PipesOf("wr", open)

Sound(E, n, open, np, c) ==
    /\ SeenEnds(E, n, open, c) /\ SeenApart(E, n, open, c)
    /\ OpenOnce(open) /\ OpenExist(open, np) /\ BothEnds(open)

\* The input of a command was a pipe that the shell has closed.
InputsClosed ==
    \A k \in DOMAIN job : job[k].stdin \in 0 .. npipe /\ job[k].stdin \notin Ends("wr")

IInv == /\ TypeOK /\ numpipe_idx \in 0 .. Len(pipe_num)
        /\ InputsClosed
        /\ up => Sound(pipe_num, numpipe_idx, fds, npipe, cmd_no)
        /\ ~up => \A f \in Fd : fds[f] = Free

-----------------------------------------------------------------------------
(* The index.                                                              *)

\* One step of an index modulo R, and the remainder of a small number.
LEMMA NextIdxCases ==
    ASSUME NEW i \in Nat, NEW R \in Nat \ {0}, i < R
    PROVE  (i + 1) % R = IF i + 1 < R THEN i + 1 ELSE 0
OBVIOUS

LEMMA ModSmall ==
    ASSUME NEW i \in Nat, NEW R \in Nat \ {0}, i < R
    PROVE  i % R = i
OBVIOUS

\* It follows the count modulo R.
LEMMA ModStep ==
    ASSUME NEW i \in Nat, NEW R \in Nat \ {0}
    PROVE  (i + 1) % R = ((i % R) + 1) % R
<1>1. /\ i \div R \in Nat /\ i % R \in 0 .. R - 1
      /\ i = R * (i \div R) + (i % R)
  OBVIOUS
<1>2. PICK q \in Nat, m \in 0 .. R - 1 : i = R * q + m /\ i % R = m
  BY <1>1
<1>3. ((i + 1) \div R) \in Nat /\ (i + 1) % R \in 0 .. R - 1
      /\ i + 1 = R * ((i + 1) \div R) + ((i + 1) % R)
  OBVIOUS
<1>4. PICK q2 \in Nat, m2 \in 0 .. R - 1 : i + 1 = R * q2 + m2 /\ (i + 1) % R = m2
  BY <1>3
<1>5. (m + 1) % R = IF m + 1 < R THEN m + 1 ELSE 0
  BY <1>2, NextIdxCases
<1>6. R * (q2 - q) = m + 1 - m2
  BY <1>2, <1>4
<1>7. CASE q2 - q >= 2
  <2>1. R * (q2 - q) >= R * 2
    BY <1>7, <1>2, <1>4
  <2> QED
    BY <1>2, <1>4, <1>6, <2>1
<1>8. CASE q2 - q <= -1
  <2>1. R * (q2 - q) <= R * (-1)
    BY <1>8, <1>2, <1>4
  <2> QED
    BY <1>2, <1>4, <1>6, <2>1
<1>9. CASE q2 - q = 0
  BY <1>2, <1>4, <1>5, <1>6, <1>9
<1>10. CASE q2 - q = 1
  BY <1>2, <1>4, <1>5, <1>6, <1>10
<1> QED
  BY <1>2, <1>4, <1>7, <1>8, <1>9, <1>10

-----------------------------------------------------------------------------
(* The two halves of a command: a pipe is created, a pipe is taken.        *)

\* What it is for a pipe to have an end open.
LEMMA PipesOfMember ==
    ASSUME NEW kind, NEW open, NEW q
    PROVE  q \in PipesOf(kind, open) <=> \E f \in Fd : open[f].kind = kind /\ open[f].pipe = q
BY DEF PipesOf

Entry == [target : Nat, in_fd : Fd, out_fd : Fd]

\* The entry found for the next command is one that is seen, and the only one.
LEMMA FoundIsSeen ==
    ASSUME NEW E \in Seq(Entry), NEW n \in 0 .. Len(E), NEW open \in [Fd -> Obj],
           NEW c \in Nat, SeenApart(E, n, open, c),
           NEW t \in Nat, t >= c, Found(E, n, t) # {}
    PROVE  \E j \in Seen(E, n, c) : First(E, n, t) = E[j] /\ E[j].target = t
<1>1. PICK j \in 1 .. n : E[j].target = t
  BY DEF Found
<1>2. j \in Seen(E, n, c)
  BY <1>1 DEF Seen
<1>3. Found(E, n, t) = {j}
  BY <1>1, <1>2 DEF Found, Seen, SeenApart
<1>4. (CHOOSE i \in Found(E, n, t) : \A k \in Found(E, n, t) : i <= k) = j
  BY <1>3
<1> QED
  BY <1>1, <1>2, <1>4 DEF First

\* When the next command has an entry, its descriptors are closed.
LEMMA TakePipe ==
    ASSUME NEW E \in Seq(Entry), NEW n \in 0 .. Len(E), NEW open \in [Fd -> Obj],
           NEW np \in Nat, NEW c \in Nat, Sound(E, n, open, np, c),
           Found(E, n, c) # {}
    PROVE  LET e == First(E, n, c)
               closed == CloseInput(e, open)
           IN  /\ closed \in [Fd -> Obj]
               /\ Sound(E, n, closed, np, c + 1)
               /\ open[e.in_fd].pipe \in 1 .. np
               /\ PipesOf("wr", closed) = PipesOf("wr", open) \ {open[e.in_fd].pipe}
               /\ \A j \in Seen(E, n, c + 1) :
                     j \in Seen(E, n, c) /\ closed[E[j].out_fd] = open[E[j].out_fd]
<1>1. PICK t \in Seen(E, n, c) : First(E, n, c) = E[t] /\ E[t].target = c
  BY FoundIsSeen DEF Sound
<1>2. /\ \A j \in 1 .. n : E[j].target \in Nat /\ E[j].in_fd \in Fd /\ E[j].out_fd \in Fd
      /\ Free \in Obj /\ Free.kind = "free"
  <2>1. \A j \in 1 .. n : E[j] \in Entry
    OBVIOUS
  <2> QED
    BY <2>1 DEF Entry, Free, Obj
<1> DEFINE r == E[t].in_fd
           w == E[t].out_fd
           q == open[r].pipe
           closed == [open EXCEPT ![w] = Free, ![r] = Free]
<1>3. /\ r \in Fd /\ w \in Fd /\ open[r].kind = "rd" /\ open[w].kind = "wr"
      /\ open[w].pipe = q /\ r # w /\ q \in 1 .. np
  BY <1>1, <1>2 DEF Sound, SeenEnds, NamesPipe, Seen, OpenExist
<1>4. CloseInput(First(E, n, c), open) = closed /\ closed \in [Fd -> Obj]
  BY <1>1, <1>2, <1>3 DEF CloseInput, Close
<1>5. /\ closed[r] = Free /\ closed[w] = Free
      /\ \A f \in Fd : f \notin {r, w} => closed[f] = open[f]
  BY <1>3
<1>6. /\ \A f \in Fd : open[f].kind = "rd" /\ open[f].pipe = q => f = r
      /\ \A f \in Fd : open[f].kind = "wr" /\ open[f].pipe = q => f = w
  <2>1. \A f \in Fd : open[f] = [kind |-> open[f].kind, pipe |-> open[f].pipe]
    BY DEF Obj
  <2> QED
    BY <1>3, <2>1 DEF Sound, OpenOnce
<1> HIDE DEF closed, r, w
<1>7. /\ PipesOf("wr", closed) = PipesOf("wr", open) \ {q}
      /\ PipesOf("rd", closed) = PipesOf("rd", open) \ {q}
  BY <1>2, <1>3, <1>5, <1>6 DEF PipesOf
<1>8. \A j \in Seen(E, n, c + 1) :
         /\ j \in Seen(E, n, c) /\ E[j].in_fd \notin {r, w} /\ E[j].out_fd \notin {r, w}
         /\ closed[E[j].in_fd] = open[E[j].in_fd] /\ closed[E[j].out_fd] = open[E[j].out_fd]
  <2> SUFFICES ASSUME NEW j \in Seen(E, n, c + 1)
               PROVE  /\ j \in Seen(E, n, c)
                      /\ E[j].in_fd \notin {r, w} /\ E[j].out_fd \notin {r, w}
    BY <1>2, <1>5 DEF Seen
  <2>1. j \in Seen(E, n, c) /\ j # t
    BY <1>1, <1>2 DEF Seen
  <2>2. NamesPipe(E[j], open) /\ open[E[j].out_fd].pipe # open[w].pipe
    BY <1>1, <2>1 DEF Sound, SeenEnds, SeenApart, w
  <2> QED
    BY <1>3, <2>1, <2>2 DEF NamesPipe
<1>9. SeenEnds(E, n, closed, c + 1)
  BY <1>8 DEF Sound, SeenEnds, NamesPipe
<1>10. SeenApart(E, n, closed, c + 1)
  BY <1>8 DEF Sound, SeenApart
<1>11. OpenOnce(closed) /\ OpenExist(closed, np)
  BY <1>2, <1>3, <1>5 DEF Sound, OpenOnce, OpenExist
<1>12. BothEnds(closed)
  BY <1>7 DEF Sound, BothEnds
<1> QED
  BY <1>1, <1>3, <1>4, <1>7, <1>8, <1>9, <1>10, <1>11, <1>12 DEF Sound, r

\* When it has none, or is a built-in, nothing is closed.
LEMMA TakeNone ==
    ASSUME NEW E \in Seq(Entry), NEW n \in 0 .. Len(E), NEW open \in [Fd -> Obj],
           NEW np \in Nat, NEW c \in Nat, Sound(E, n, open, np, c)
    PROVE  Sound(E, n, open, np, c + 1)
<1>1. \A j \in 1 .. n : E[j].target \in Nat
  <2>1. \A j \in 1 .. n : E[j] \in Entry
    OBVIOUS
  <2> QED
    BY <2>1 DEF Entry
<1>2. Seen(E, n, c + 1) \subseteq Seen(E, n, c)
  BY <1>1 DEF Seen
<1> QED
  BY <1>2 DEF Sound, SeenEnds, SeenApart

\* The array E becomes E2 by the entry for target t, and the index n becomes m.
Enters(E, n, E2, m, t, r, w) ==
    /\ E2 \in Seq(Entry) /\ m \in {0, n + 1} /\ m <= Len(E2)
    /\ \A j \in 1 .. n : E2[j] = E[j]
    /\ E2[n + 1] = [target |-> t, in_fd |-> r, out_fd |-> w]

\* pipe() puts the ends of pipe np + 1 on r and w.
Opens(open, open2, np, r, w) ==
    /\ r # w /\ open[r] = Free /\ open[w] = Free
    /\ open2 \in [Fd -> Obj]
    /\ open2[r] = [kind |-> "rd", pipe |-> np + 1]
    /\ open2[w] = [kind |-> "wr", pipe |-> np + 1]
    /\ \A f \in Fd : f \notin {r, w} => open2[f] = open[f]

\* A new pipe on two free descriptors, entered at the index; the entries before
\* it stay in sight, or, when the index comes back to 0, none does.
LEMMA CreatePipe ==
    ASSUME NEW E \in Seq(Entry), NEW n \in 0 .. Len(E), NEW open \in [Fd -> Obj],
           NEW np \in Nat, NEW c \in Nat, Sound(E, n, open, np, c),
           NEW t \in Nat, t > c, Found(E, n, t) = {},
           NEW r \in Fd, NEW w \in Fd, NEW E2, NEW m, NEW open2,
           Enters(E, n, E2, m, t, r, w), Opens(open, open2, np, r, w)
    PROVE  /\ Sound(E2, m, open2, np + 1, c)
           /\ PipesOf("wr", open2) = PipesOf("wr", open) \cup {np + 1}
<1>0. /\ r # w /\ open[r] = Free /\ open[w] = Free
      /\ E2 \in Seq(Entry) /\ m \in {0, n + 1} /\ m <= Len(E2)
      /\ \A j \in 1 .. n : E2[j] = E[j]
      /\ E2[n + 1] = [target |-> t, in_fd |-> r, out_fd |-> w]
      /\ open2 \in [Fd -> Obj]
      /\ open2[r] = [kind |-> "rd", pipe |-> np + 1]
      /\ open2[w] = [kind |-> "wr", pipe |-> np + 1]
      /\ \A f \in Fd : f \notin {r, w} => open2[f] = open[f]
  BY DEF Enters, Opens
<1>1. /\ \A j \in 1 .. n : E[j].target \in Nat /\ E[j].in_fd \in Fd /\ E[j].out_fd \in Fd
      /\ Free.kind = "free"
  <2>1. \A j \in 1 .. n : E[j] \in Entry
    BY <1>0
  <2> QED
    BY <1>0, <2>1 DEF Entry, Free
<1>2. /\ PipesOf("wr", open2) = PipesOf("wr", open) \cup {np + 1}
      /\ PipesOf("rd", open2) = PipesOf("rd", open) \cup {np + 1}
  <2>1. \A f \in Fd : /\ open2[f].kind = "wr" <=> open[f].kind = "wr" \/ f = w
                     /\ open2[f].kind = "rd" <=> open[f].kind = "rd" \/ f = r
    BY <1>0, <1>1
  <2>2. \A f \in Fd : open[f].kind # "free" => open2[f].pipe = open[f].pipe
    BY <1>0, <1>1
  <2>3. open2[w].pipe = np + 1 /\ open2[r].pipe = np + 1
    BY <1>0
  <2>4. \A q : q \in PipesOf("wr", open2) <=> q \in PipesOf("wr", open) \/ q = np + 1
    BY <1>0, <2>1, <2>2, <2>3, <1>1, PipesOfMember
  <2>5. \A q : q \in PipesOf("rd", open2) <=> q \in PipesOf("rd", open) \/ q = np + 1
    BY <1>0, <2>1, <2>2, <2>3, <1>1, PipesOfMember
  <2> QED
    BY <1>0, <2>4, <2>5
<1>3. \A j \in Seen(E, n, c) :
         /\ j \in 1 .. n /\ E2[j] = E[j] /\ E[j].target # t
         /\ open2[E[j].in_fd] = open[E[j].in_fd] /\ open2[E[j].out_fd] = open[E[j].out_fd]
         /\ open[E[j].out_fd].pipe \in 1 .. np
  <2> SUFFICES ASSUME NEW j \in Seen(E, n, c)
               PROVE  /\ E[j].in_fd \notin {r, w} /\ E[j].out_fd \notin {r, w}
                      /\ E[j].target # t /\ open[E[j].out_fd].pipe \in 1 .. np
    BY <1>0, <1>1 DEF Seen
  <2>1. j \in 1 .. n /\ NamesPipe(E[j], open)
    BY <1>0 DEF Sound, SeenEnds, Seen
  <2>2. E[j].target # t
    BY <1>0, <2>1 DEF Found
  <2>3. open[E[j].in_fd].kind # "free" /\ open[E[j].out_fd].kind # "free"
    BY <1>0, <2>1 DEF NamesPipe
  <2> QED
    BY <1>0, <1>1, <2>1, <2>2, <2>3 DEF Sound, OpenExist
<1>4. Seen(E2, m, c) \subseteq Seen(E, n, c) \cup {n + 1} /\ n + 1 \notin Seen(E, n, c)
  <2>1. \A j \in 1 .. m : j \in 1 .. n \/ j = n + 1
    BY <1>0
  <2> QED
    BY <1>0, <2>1 DEF Seen
<1>5. /\ E2[n + 1].target = t /\ E2[n + 1].in_fd = r /\ E2[n + 1].out_fd = w
      /\ NamesPipe(E2[n + 1], open2)
  BY <1>0 DEF NamesPipe
<1>6. SeenEnds(E2, m, open2, c)
  <2>1. \A j \in Seen(E, n, c) : NamesPipe(E2[j], open2)
    BY <1>0, <1>3 DEF Sound, SeenEnds, NamesPipe
  <2> QED
    BY <1>0, <1>4, <1>5, <2>1 DEF SeenEnds
<1>7. SeenApart(E2, m, open2, c)
  <2>1. \A j \in Seen(E, n, c) : open[E[j].out_fd].pipe # np + 1
    BY <1>0, <1>3
  <2> SUFFICES ASSUME NEW i \in Seen(E2, m, c), NEW j \in Seen(E2, m, c),
                      \/ E2[i].target = E2[j].target
                      \/ open2[E2[i].out_fd].pipe = open2[E2[j].out_fd].pipe
               PROVE  i = j
    BY <1>0 DEF SeenApart
  <2>2. open2[E2[n + 1].out_fd].pipe = np + 1
    BY <1>0, <1>5
  <2>3. \A k \in Seen(E, n, c) :
           /\ E2[k].target = E[k].target /\ E2[k].target # t
           /\ open2[E2[k].out_fd].pipe = open[E[k].out_fd].pipe
           /\ open2[E2[k].out_fd].pipe # np + 1
    BY <1>0, <1>3, <2>1
  <2>4. CASE i \in Seen(E, n, c) /\ j \in Seen(E, n, c)
    BY <1>0, <2>3, <2>4 DEF Sound, SeenApart
  <2>5. CASE i = n + 1 /\ j \in Seen(E, n, c)
    BY <1>0, <1>5, <2>2, <2>3, <2>5
  <2>6. CASE j = n + 1 /\ i \in Seen(E, n, c)
    BY <1>0, <1>5, <2>2, <2>3, <2>6
  <2> QED
    BY <1>0, <1>4, <2>4, <2>5, <2>6
<1>8. OpenExist(open2, np + 1)
  <2> SUFFICES ASSUME NEW f \in Fd, open2[f].kind # "free"
               PROVE  open2[f].pipe \in 1 .. np + 1
    BY <1>0 DEF OpenExist
  <2>1. CASE f \in {r, w}
    <3>1. open2[f].pipe = np + 1
      BY <1>0, <2>1
    <3> QED
      BY <1>0, <3>1
  <2>2. CASE f \notin {r, w}
    <3>1. open[f].pipe \in 1 .. np /\ open2[f] = open[f]
      BY <1>0, <2>2 DEF Sound, OpenExist
    <3> QED
      BY <1>0, <3>1
  <2> QED
    BY <1>0, <2>1, <2>2
<1>9. OpenOnce(open2)
  <2>1. \A f \in Fd : f \notin {r, w} /\ open[f].kind # "free" => open[f].pipe # np + 1
    BY <1>0 DEF Sound, OpenExist
  <2> QED
    BY <1>0, <2>1 DEF Sound, OpenOnce
<1>10. BothEnds(open2)
  BY <1>0, <1>2 DEF Sound, BothEnds
<1> QED
  BY <1>0, <1>2, <1>6, <1>7, <1>8, <1>9, <1>10 DEF Sound

-----------------------------------------------------------------------------
(* The actions.                                                            *)

\* The bounds are numbers.
LEMMA RingNumbers == Ring \in Nat \ {0} /\ MaxNum \in Nat
BY RingAssumption

\* What TypeOK says of the line, and what the next command of it may be.
LEMMA CmdFacts ==
    ASSUME TypeOK, Running
    PROVE  /\ line \in Seq(Command) /\ pos \in 1 .. Len(line) /\ NextPos \in 0 .. Len(line)
           /\ cmd \in Command /\ cmd_no \in Nat \ {0}
           /\ Target \in Nat /\ Target > cmd_no
           /\ Asked \in Nat
<1>1. line \in Seq(Command) /\ pos \in 1 .. Len(line) /\ cmd_no \in Nat \ {0}
  <2>1. line \in Seq(Command)
    BY RingAssumption, EmptySeq DEF TypeOK
  <2>2. pos \in 0 .. Len(line) /\ pos # 0 /\ cmd_no \in Nat \ {0}
    BY DEF TypeOK, Running
  <2> QED
    BY <2>1, <2>2
<1>2. cmd \in Command
  BY <1>1 DEF cmd
<1>3. cmd.num \in Nat
  <2>1. cmd.num \in 0 .. MaxNum
    BY <1>2 DEF Command
  <2> QED
    BY <2>1, RingNumbers
<1>4. NextPos \in 0 .. Len(line)
  BY <1>1 DEF NextPos
<1>5. Target \in Nat /\ Target > cmd_no
  BY <1>1, <1>3 DEF Target
<1> QED
  BY <1>1, <1>2, <1>4, <1>5 DEF Asked

\* The fork that all three ways to run a command end with.  E, n, open and np are
\* the entries, the index, the descriptors and the pipes at this point.
LEMMA ForkKeeps ==
    ASSUME IInv, Runs,
           NEW E \in Seq(Entry), NEW n \in 0 .. Len(E), NEW open \in [Fd -> Obj],
           NEW np \in Nat, np >= npipe, NEW p \in Nat,
           Sound(E, n, open, np, cmd_no),
           \A q \in PipesOf("wr", open) : q \in PipesOf("wr", fds) \/ q > npipe,
           Fork(E, n, open, p),
           pipe_num' = E, numpipe_idx' = n, npipe' = np,
           Len(E) <= Ring, n = np % Ring
    PROVE  IInv'
<1>1. TypeOK /\ Running /\ up /\ job \in Seq(Job) /\ Len(job) = cmd_no - 1 /\ npipe \in Nat
      /\ cmd_no \in Nat \ {0}
  BY DEF IInv, TypeOK, Runs, Running
<1>2. /\ line' = line /\ up' = up /\ doubled' = doubled
      /\ cmd_no' = cmd_no + 1 /\ pos' = NextPos
      /\ fg' \in {0, cmd_no}
  BY DEF Fork
<1>3. \A k \in DOMAIN job : job[k].stdin \in 0 .. npipe /\ job[k].stdin \notin PipesOf("wr", open)
  <2>1. \A k \in DOMAIN job : job[k].stdin \in 0 .. npipe /\ job[k].stdin \notin PipesOf("wr", fds)
    BY DEF IInv, InputsClosed, Ends, PipesOf
  <2> QED
    BY <1>1, <2>1
<1>4. PICK stdin \in 0 .. np :
         /\ job' = Append(job, Streams(stdin, p))
         /\ fds' \in [Fd -> Obj]
         /\ Sound(E, n, fds', np, cmd_no + 1)
         /\ PipesOf("wr", fds') \subseteq PipesOf("wr", open)
         /\ stdin \notin PipesOf("wr", fds')
  <2>1. CASE Found(E, n, cmd_no) = {}
    <3>1. job' = Append(job, Streams(0, p)) /\ fds' = open
      BY <2>1 DEF Fork, Terminal
    <3>2. 0 \notin PipesOf("wr", open)
      BY DEF PipesOf, Sound, OpenExist
    <3> QED
      BY <1>1, <3>1, <3>2, TakeNone
  <2>2. CASE Found(E, n, cmd_no) # {}
    <3>1. PICK e : e = First(E, n, cmd_no)
      OBVIOUS
    <3>2. job' = Append(job, Streams(open[e.in_fd].pipe, p)) /\ fds' = CloseInput(e, open)
      BY <2>2, <3>1 DEF Fork
    <3>3. /\ fds' \in [Fd -> Obj] /\ Sound(E, n, fds', np, cmd_no + 1)
          /\ open[e.in_fd].pipe \in 1 .. np
          /\ PipesOf("wr", fds') = PipesOf("wr", open) \ {open[e.in_fd].pipe}
      BY <1>1, <2>2, <3>1, <3>2, TakePipe
    <3> QED
      BY <3>2, <3>3
  <2> QED
    BY <2>1, <2>2
<1>5. Streams(stdin, p) \in Job /\ Streams(stdin, p).stdin = stdin
  BY <1>1, CmdFacts DEF Streams, Job, Terminal
<1>6. /\ job' \in Seq(Job) /\ Len(job') = cmd_no' - 1
      /\ DOMAIN job' = 1 .. cmd_no /\ DOMAIN job = 1 .. (cmd_no - 1)
      /\ \A k \in 1 .. (cmd_no - 1) : job'[k] = job[k]
      /\ job'[cmd_no].stdin = stdin
  BY <1>1, <1>2, <1>4, <1>5
<1>7. TypeOK'
  <2>1. pos' \in 0 .. Len(line') /\ line' \in Lines \cup {<<>>}
    BY <1>1, <1>2, CmdFacts DEF TypeOK
  <2>2. fg' \in 0 .. Len(job')
    BY <1>1, <1>2, <1>6
  <2>3. cmd_no' \in Nat \ {0} /\ up' \in BOOLEAN /\ doubled' \in BOOLEAN
    BY <1>1, <1>2 DEF TypeOK
  <2> QED
    BY <1>4, <1>6, <2>1, <2>2, <2>3 DEF TypeOK, Entry
<1>8. InputsClosed'
  <2>1. \A k \in 1 .. cmd_no : job'[k].stdin \in 0 .. np /\ job'[k].stdin \notin PipesOf("wr", fds')
    BY <1>1, <1>3, <1>4, <1>6
  <2> QED
    BY <1>6, <2>1 DEF InputsClosed, Ends, PipesOf
<1> QED
  BY <1>1, <1>2, <1>4, <1>7, <1>8 DEF IInv

\* What the invariant says of the tables while the shell runs.
LEMMA FdsFacts ==
    ASSUME IInv, up
    PROVE  /\ TypeOK /\ fds \in [Fd -> Obj] /\ pipe_num \in Seq(Entry) /\ npipe \in Nat
           /\ numpipe_idx \in 0 .. Len(pipe_num) /\ cmd_no \in Nat \ {0}
           /\ Sound(pipe_num, numpipe_idx, fds, npipe, cmd_no)
BY DEF IInv, TypeOK, Entry

\* A command whose output goes to the terminal.
LEMMA PlainKeeps ==
    ASSUME IInv, RunPlain
    PROVE  IInv'
<1>1. Runs /\ Running /\ up /\ Fork(pipe_num, numpipe_idx, fds, 0) /\ UNCHANGED table
  BY DEF RunPlain, Runs, Running, Terminal
<1>2. Len(pipe_num) <= Ring /\ numpipe_idx = npipe % Ring
  BY DEF IInv, TypeOK
<1>3. npipe >= npipe
  BY <1>1, FdsFacts
<1> QED
  BY <1>1, <1>2, <1>3, FdsFacts, ForkKeeps DEF table

\* A command that joins a pipe that is there.
LEMMA IntoPipeKeeps ==
    ASSUME IInv, RunIntoPipe
    PROVE  IInv'
<1> DEFINE p == fds[First(pipe_num, numpipe_idx, Target).out_fd].pipe
<1>1. /\ Runs /\ Running /\ up /\ UNCHANGED table
      /\ Found(pipe_num, numpipe_idx, Target) # {}
      /\ Fork(pipe_num, numpipe_idx, fds, p)
  BY DEF RunIntoPipe, Runs, Running
<1>2. Len(pipe_num) <= Ring /\ numpipe_idx = npipe % Ring
  BY DEF IInv, TypeOK
<1>3. npipe >= npipe
  BY <1>1, FdsFacts
<1>4. p \in Nat
  <2>1. Target \in Nat /\ Target >= cmd_no
    BY <1>1, FdsFacts, CmdFacts
  <2>2. PICK j \in Seen(pipe_num, numpipe_idx, cmd_no) :
            First(pipe_num, numpipe_idx, Target) = pipe_num[j]
    BY <1>1, <2>1, FdsFacts, FoundIsSeen DEF Sound
  <2>3. pipe_num[j] \in Entry
    BY <1>1, <2>2, FdsFacts DEF Seen
  <2> QED
    BY <1>1, <2>2, <2>3, FdsFacts DEF Entry, Obj
<1> HIDE DEF p
<1> QED
  BY <1>1, <1>2, <1>3, <1>4, FdsFacts, ForkKeeps DEF table

\* A command that gets a new pipe: the array E and the descriptors open with which it
\* is forked.
LEMMA NewPipeFacts ==
    ASSUME IInv, NEW r \in Fd, NEW w \in Fd, RunIntoNewPipe(r, w)
    PROVE  \E E \in Seq(Entry), open \in [Fd -> Obj] :
              /\ Found(pipe_num, numpipe_idx, Target) = {} /\ Target > cmd_no
              /\ Enters(pipe_num, numpipe_idx, E, NextIdx, Target, r, w)
              /\ Opens(fds, open, npipe, r, w)
              /\ Fork(E, NextIdx, open, npipe + 1)
              /\ pipe_num' = E /\ numpipe_idx' = NextIdx /\ npipe' = npipe + 1
              /\ Len(E) <= Ring /\ NextIdx \in 0 .. Len(E)
              /\ NextIdx = (npipe + 1) % Ring
              /\ Sound(E, NextIdx, open, npipe + 1, cmd_no)
              /\ PipesOf("wr", open) = PipesOf("wr", fds) \cup {npipe + 1}
<1> DEFINE p == npipe + 1
           e == [target |-> Target, in_fd |-> r, out_fd |-> w]
           E == Entered(e)
           open1 == [fds EXCEPT ![r] = [kind |-> "rd", pipe |-> p]]
           open == [open1 EXCEPT ![w] = [kind |-> "wr", pipe |-> p]]
<1>1. /\ Runs /\ Running /\ up /\ Found(pipe_num, numpipe_idx, Target) = {}
      /\ Lowest(r, fds) /\ Lowest(w, open1)
      /\ Fork(E, NextIdx, open, p)
      /\ pipe_num' = E /\ numpipe_idx' = NextIdx /\ npipe' = p
  BY DEF RunIntoNewPipe, Runs, Running
<1>2. /\ TypeOK /\ fds \in [Fd -> Obj] /\ pipe_num \in Seq(Entry) /\ npipe \in Nat
      /\ numpipe_idx \in 0 .. Len(pipe_num) /\ cmd_no \in Nat \ {0}
      /\ Len(pipe_num) <= Ring /\ Len(pipe_num) \in Nat /\ numpipe_idx = npipe % Ring
      /\ Ring \in Nat \ {0} /\ p \in Nat
      /\ Sound(pipe_num, numpipe_idx, fds, npipe, cmd_no)
  <2>1. Len(pipe_num) <= Ring /\ numpipe_idx = npipe % Ring
    BY DEF IInv, TypeOK
  <2> QED
    BY <1>1, <2>1, FdsFacts, RingNumbers
<1>3. Target \in Nat /\ Target > cmd_no /\ e \in Entry
  BY <1>1, <1>2, CmdFacts DEF Entry
<1>4. fds[r] = Free /\ fds[w] = Free /\ r # w
  BY <1>1, <1>2 DEF Lowest, Free
<1>5. /\ open \in [Fd -> Obj]
      /\ open[r] = [kind |-> "rd", pipe |-> npipe + 1]
      /\ open[w] = [kind |-> "wr", pipe |-> npipe + 1]
      /\ \A f \in Fd : f \notin {r, w} => open[f] = fds[f]
  <2>1. [kind |-> "rd", pipe |-> p] \in Obj /\ [kind |-> "wr", pipe |-> p] \in Obj
    BY <1>2 DEF Obj
  <2> QED
    BY <1>2, <1>4, <2>1
<1>6. numpipe_idx < Ring /\ NextIdx = (IF numpipe_idx + 1 < Ring THEN numpipe_idx + 1 ELSE 0)
  <2>1. numpipe_idx \in 0 .. Ring - 1
    BY <1>2
  <2> QED
    BY <1>2, <2>1, NextIdxCases DEF NextIdx
<1>7. NextIdx = p % Ring
  BY <1>2, ModStep DEF NextIdx
<1> HIDE DEF e, open1, open, p
<1>8. /\ E \in Seq(Entry) /\ Len(E) <= Ring /\ numpipe_idx + 1 <= Len(E) /\ Len(E) \in Nat
      /\ \A j \in 1 .. numpipe_idx : E[j] = pipe_num[j]
      /\ E[numpipe_idx + 1] = e
  <2>1. CASE numpipe_idx < Len(pipe_num)
    <3>1. E = [pipe_num EXCEPT ![numpipe_idx + 1] = e]
      BY <2>1 DEF Entered
    <3>2. numpipe_idx + 1 \in 1 .. Len(pipe_num)
      BY <1>2, <2>1
    <3> HIDE DEF E
    <3> QED
      BY <1>2, <1>3, <3>1, <3>2
  <2>2. CASE ~(numpipe_idx < Len(pipe_num))
    <3>1. E = Append(pipe_num, e) /\ numpipe_idx = Len(pipe_num)
      BY <1>2, <2>2 DEF Entered
    <3> HIDE DEF E
    <3> QED
      BY <1>2, <1>3, <1>6, <3>1
  <2> QED
    BY <2>1, <2>2
<1> HIDE DEF E
<1>9. NextIdx \in {0, numpipe_idx + 1} /\ NextIdx <= Len(E) /\ NextIdx \in 0 .. Len(E)
  BY <1>2, <1>6, <1>8
<1>10. E[numpipe_idx + 1] = [target |-> Target, in_fd |-> r, out_fd |-> w]
  BY <1>8 DEF e
<1>11. Enters(pipe_num, numpipe_idx, E, NextIdx, Target, r, w)
  BY <1>8, <1>9, <1>10 DEF Enters
<1>12. Opens(fds, open, npipe, r, w)
  BY <1>4, <1>5 DEF Opens
<1>13. /\ Sound(E, NextIdx, open, npipe + 1, cmd_no)
       /\ PipesOf("wr", open) = PipesOf("wr", fds) \cup {npipe + 1}
  <2>1. /\ pipe_num \in Seq(Entry) /\ numpipe_idx \in 0 .. Len(pipe_num)
        /\ fds \in [Fd -> Obj] /\ npipe \in Nat /\ cmd_no \in Nat
        /\ Sound(pipe_num, numpipe_idx, fds, npipe, cmd_no)
    BY <1>2
  <2>2. Target \in Nat /\ Target > cmd_no /\ Found(pipe_num, numpipe_idx, Target) = {}
    BY <1>1, <1>3
  <2> QED
    BY <2>1, <2>2, <1>11, <1>12, CreatePipe, Z3
<1> QED
  BY <1>1, <1>3, <1>5, <1>7, <1>8, <1>9, <1>11, <1>12, <1>13 DEF p

\* The pipe is the next one, and its entry is in its place.
LEMMA NewPipeKeeps ==
    ASSUME IInv, NEW r \in Fd, NEW w \in Fd, RunIntoNewPipe(r, w)
    PROVE  IInv'
<1>1. PICK E \in Seq(Entry), open \in [Fd -> Obj] :
         /\ Found(pipe_num, numpipe_idx, Target) = {} /\ Target > cmd_no
         /\ Enters(pipe_num, numpipe_idx, E, NextIdx, Target, r, w)
         /\ Opens(fds, open, npipe, r, w)
         /\ Fork(E, NextIdx, open, npipe + 1)
         /\ pipe_num' = E /\ numpipe_idx' = NextIdx /\ npipe' = npipe + 1
         /\ Len(E) <= Ring /\ NextIdx \in 0 .. Len(E)
         /\ NextIdx = (npipe + 1) % Ring
         /\ Sound(E, NextIdx, open, npipe + 1, cmd_no)
         /\ PipesOf("wr", open) = PipesOf("wr", fds) \cup {npipe + 1}
  BY NewPipeFacts
<1>2. Runs /\ Running /\ up
  BY DEF RunIntoNewPipe, Runs, Running
<1>3. /\ fds \in [Fd -> Obj] /\ pipe_num \in Seq(Entry) /\ npipe \in Nat
      /\ numpipe_idx \in 0 .. Len(pipe_num) /\ cmd_no \in Nat
      /\ Sound(pipe_num, numpipe_idx, fds, npipe, cmd_no)
      /\ Target \in Nat
  BY <1>2, FdsFacts, CmdFacts
<1>5. npipe + 1 \in Nat /\ npipe + 1 >= npipe /\ npipe + 1 > npipe
  BY <1>3
<1> QED
  BY <1>1, <1>2, <1>5, ForkKeeps

\* A built-in.
LEMMA SetenvKeeps ==
    ASSUME IInv, RunSetenv
    PROVE  IInv'
<1> DEFINE J == [prog |-> "setenv", stdin |-> Terminal, out |-> Terminal,
                 err |-> Terminal, sentOut |-> 0, sentErr |-> 0]
<1>1. /\ Running /\ up /\ cmd_no' = cmd_no + 1 /\ pos' = NextPos /\ job' = Append(job, J)
      /\ UNCHANGED <<numpipe_idx, pipe_num, npipe, fds, line, fg, up, doubled>>
  BY DEF RunSetenv, Running, table
<1>2. J \in Job /\ J.stdin = 0
  BY DEF Job, Terminal
<1> HIDE DEF J
<1>3. /\ TypeOK /\ job \in Seq(Job) /\ Len(job) = cmd_no - 1 /\ cmd_no \in Nat \ {0}
      /\ fg \in 0 .. Len(job)
  BY DEF IInv, TypeOK
<1>4. /\ job' \in Seq(Job) /\ Len(job') = cmd_no' - 1
      /\ DOMAIN job' = 1 .. cmd_no /\ DOMAIN job = 1 .. (cmd_no - 1)
      /\ \A k \in 1 .. (cmd_no - 1) : job'[k] = job[k]
      /\ job'[cmd_no] = J
  BY <1>1, <1>2, <1>3
<1>5. TypeOK'
  <2>1. fg' \in 0 .. Len(job') /\ pos' \in 0 .. Len(line') /\ cmd_no' \in Nat \ {0}
    BY <1>1, <1>3, <1>4, CmdFacts
  <2> QED
    BY <1>1, <1>3, <1>4, <2>1 DEF TypeOK
<1>6. Sound(pipe_num, numpipe_idx, fds, npipe, cmd_no + 1)
  BY <1>1, <1>3, FdsFacts, TakeNone
<1>7. InputsClosed'
  <2>1. 0 \notin Ends("wr")
    BY <1>1, FdsFacts DEF Ends, Sound, OpenExist
  <2>2. Ends("wr")' = Ends("wr") /\ npipe' = npipe /\ npipe \in Nat
    BY <1>1, FdsFacts DEF Ends
  <2>3. \A k \in 1 .. cmd_no : job'[k].stdin \in 0 .. npipe /\ job'[k].stdin \notin Ends("wr")
    BY <1>2, <1>3, <1>4, <2>1, <2>2 DEF IInv, InputsClosed
  <2> QED
    BY <1>4, <2>2, <2>3 DEF InputsClosed
<1> QED
  BY <1>1, <1>5, <1>6, <1>7 DEF IInv

\* exit, or the end of the input.
LEMMA ExitKeeps ==
    ASSUME IInv, Exit
    PROVE  IInv'
<1>1. /\ up' = FALSE /\ fds' = [f \in Fd |-> Free]
      /\ UNCHANGED <<cmd_no, numpipe_idx, pipe_num, npipe, line, pos, fg, job, doubled>>
  BY DEF Exit, table
<1>2. fds' \in [Fd -> Obj] /\ Free.kind = "free"
  BY <1>1 DEF Free, Obj
<1>3. TypeOK'
  BY <1>1, <1>2 DEF IInv, TypeOK
<1>4. InputsClosed'
  <2>1. Ends("wr")' = {}
    BY <1>1, <1>2 DEF Ends
  <2> QED
    BY <1>1, <2>1 DEF IInv, InputsClosed
<1> QED
  BY <1>1, <1>3, <1>4 DEF IInv

\* The prompt, and the end of the wait.
LEMMA OtherKeeps ==
    ASSUME IInv, (\E l \in Lines : ReadLine(l)) \/ WaitReturns \/ UNCHANGED vars
    PROVE  IInv'
<1>1. UNCHANGED <<cmd_no, numpipe_idx, pipe_num, npipe, fds, up, job>>
  BY DEF ReadLine, WaitReturns, vars, table
<1>2. TypeOK'
  <2>1. CASE \E l \in Lines : ReadLine(l)
    <3>1. PICK l \in Lines : ReadLine(l)
      BY <2>1
    <3>2. l \in Seq(Command) /\ l # <<>>
      BY RingAssumption
    <3>3. pos' \in 0 .. Len(line') /\ line' \in Lines \cup {<<>>}
      BY <3>1, <3>2 DEF ReadLine
    <3>4. doubled' \in BOOLEAN
      BY <3>1 DEF ReadLine, TwoInAPiece
    <3> QED
      BY <1>1, <3>1, <3>3, <3>4 DEF ReadLine, IInv, TypeOK
  <2>2. CASE WaitReturns
    BY <1>1, <2>2 DEF WaitReturns, IInv, TypeOK
  <2>3. CASE UNCHANGED vars
    BY <2>3 DEF vars, table, IInv, TypeOK
  <2> QED
    BY <2>1, <2>2, <2>3
<1>3. InputsClosed'
  BY <1>1 DEF IInv, InputsClosed, Ends
<1> QED
  BY <1>1, <1>2, <1>3 DEF IInv

-----------------------------------------------------------------------------
\* The invariant holds before the first line.
LEMMA InitIInv == Init => IInv
<1> SUFFICES ASSUME Init PROVE IInv
  OBVIOUS
<1>1. /\ cmd_no = 1 /\ numpipe_idx = 0 /\ pipe_num = <<>> /\ npipe = 0 /\ up = TRUE
      /\ fds = [f \in Fd |-> Free] /\ line = <<>> /\ pos = 0 /\ fg = 0 /\ job = <<>>
      /\ doubled = FALSE
  BY DEF Init
<1>2. Free \in Obj /\ Free.kind = "free"
  BY DEF Free, Obj
<1>3. /\ pipe_num \in Seq(Entry) /\ job \in Seq(Job) /\ Len(pipe_num) = 0 /\ Len(job) = 0
      /\ Len(line) = 0
  BY <1>1, EmptySeq
<1>4. 0 = 0 % Ring
  BY RingNumbers
<1>5. TypeOK
  <2>1. Len(job) = cmd_no - 1 /\ Len(pipe_num) <= Ring /\ numpipe_idx = npipe % Ring
        /\ pos \in 0 .. Len(line) /\ fg \in 0 .. Len(job)
    BY <1>1, <1>3, <1>4, RingNumbers
  <2>2. fds \in [Fd -> Obj] /\ line \in Lines \cup {<<>>}
    BY <1>1, <1>2
  <2>3. cmd_no \in Nat \ {0} /\ npipe \in Nat
    BY <1>1
  <2>4. up \in BOOLEAN /\ doubled \in BOOLEAN
    BY <1>1
  <2> QED
    BY <1>3, <2>1, <2>2, <2>3, <2>4 DEF TypeOK, Entry
<1>6. InputsClosed
  BY <1>1 DEF InputsClosed
<1>7. Sound(pipe_num, numpipe_idx, fds, npipe, cmd_no)
  <2>1. \A f \in Fd : fds[f].kind = "free"
    BY <1>1, <1>2
  <2>2. Seen(pipe_num, numpipe_idx, cmd_no) = {}
    BY <1>1 DEF Seen
  <2> QED
    BY <2>1, <2>2 DEF Sound, SeenEnds, SeenApart, OpenOnce, OpenExist, BothEnds, PipesOf
<1> QED
  BY <1>1, <1>3, <1>5, <1>6, <1>7 DEF IInv

\* Every step keeps it.
LEMMA NextIInv == IInv /\ [Next]_vars => IInv'
BY PlainKeeps, IntoPipeKeeps, NewPipeKeeps, SetenvKeeps, ExitKeeps, OtherKeeps DEF Next

\* The inductive invariant holds in every state of npshell.c, for every array length
\* and every set of lines.
THEOREM Invariance == Spec => []IInv
BY InitIInv, NextIInv, PTL DEF Spec

\* The variables of npshell.c keep their types, and numpipe_idx is the number of
\* pipes created so far, modulo the length of the array.
THEOREM TypeCorrect == Spec => []TypeOK
<1>1. IInv => TypeOK
  BY DEF IInv
<1> QED
  BY <1>1, Invariance, PTL

\* The shell has both ends of a pipe or neither, and no write end of a pipe that a
\* command reads, for every length of the array and however often it wraps.
THEOREM EndsPaired == Spec => []EndsTogether
<1>1. IInv => EndsTogether
  <2> SUFFICES ASSUME IInv PROVE Ends("rd") = Ends("wr")
    BY DEF EndsTogether, IInv, InputsClosed
  <2>1. CASE up
    BY <2>1 DEF IInv, Sound, BothEnds, PipesOf, Ends
  <2>2. CASE ~up
    BY <2>2 DEF IInv, Ends, Free
  <2> QED
    BY <2>1, <2>2
<1> QED
  BY <1>1, Invariance, PTL

-----------------------------------------------------------------------------
(* Which commands end in !.                                                *)

\* A line is a sequence, and only its last command may end in something else.
LEMMA LineFacts ==
    ASSUME NEW l \in Lines
    PROVE  /\ l \in Seq(Command) /\ Len(l) \in Nat /\ DOMAIN l = 1 .. Len(l)
           /\ \A k \in 1 .. Len(l) : k # Len(l) => l[k].sep \in {"|", "!"}
<1>1. l \in Seq(Command)
  BY RingAssumption
<1>2. Len(l) \in Nat /\ DOMAIN l = 1 .. Len(l)
  BY <1>1, LenProperties
<1>3. \A k \in 1 .. Len(l) : l[k].sep \in {"", ">"} => k = Len(l)
  BY <1>2, RingAssumption
<1>4. \A k \in 1 .. Len(l) : l[k].sep \in {"|", "!", ">", ""}
  <2>1. \A k \in 1 .. Len(l) : l[k] \in Command
    BY <1>1
  <2> QED
    BY <2>1 DEF Command, Sep
<1> QED
  BY <1>1, <1>2, <1>3, <1>4

\* The commands before i that end in c, which is | or !.
Before(l, i, c) == {k \in 1 .. i - 1 : l[k].sep = c}

LEMMA BeforeFinite ==
    ASSUME NEW l, NEW i \in Nat \ {0}, NEW c
    PROVE  IsFiniteSet(Before(l, i, c)) /\ Cardinality(Before(l, i, c)) \in Nat
<1>1. IsFiniteSet(1 .. i - 1)
  BY FS_Interval
<1>2. Before(l, i, c) \subseteq 1 .. i - 1
  BY DEF Before
<1>3. IsFiniteSet(Before(l, i, c))
  BY <1>1, <1>2, FS_Subset
<1> QED
  BY <1>3, FS_CardinalityType

\* The pieces are numbered upwards.
LEMMA PieceUp ==
    ASSUME NEW l, NEW i \in Nat \ {0}, NEW k \in Nat \ {0}, k <= i
    PROVE  Piece(l, k) \in Nat /\ Piece(l, i) \in Nat /\ Piece(l, k) <= Piece(l, i)
<1>1. Piece(l, k) = Cardinality(Before(l, k, "|")) /\ Piece(l, i) = Cardinality(Before(l, i, "|"))
  BY DEF Piece, Before
<1>2. Before(l, k, "|") \subseteq Before(l, i, "|")
  BY DEF Before
<1> QED
  BY <1>1, <1>2, BeforeFinite, FS_Subset

\* A line whose pieces have one ! at most: those before i are as many as the pieces
\* in which they are.
LEMMA BangsBefore ==
    ASSUME NEW l \in Lines, ~TwoInAPiece(l), NEW i \in 1 .. Len(l), l[i].sep = "!"
    PROVE  Cardinality({q \in ErrPieces(l) : q < Piece(l, i)}) = Cardinality(Before(l, i, "!"))
<1> DEFINE S == Before(l, i, "!")
           T == {q \in ErrPieces(l) : q < Piece(l, i)}
           f == [k \in S |-> Piece(l, k)]
<1>1. l \in Seq(Command) /\ Len(l) \in Nat /\ DOMAIN l = 1 .. Len(l)
  BY LineFacts
<1>2. \A k \in S : k \in 1 .. Len(l) /\ k < i /\ l[k].sep = "!"
  BY <1>1 DEF Before
<1>3. \A k, m \in 1 .. Len(l) :
          l[k].sep = "!" /\ l[m].sep = "!" /\ Piece(l, k) = Piece(l, m) => k = m
  BY <1>1 DEF TwoInAPiece
<1>4. \A k \in S : Piece(l, k) \in T
  <2> SUFFICES ASSUME NEW k \in S PROVE Piece(l, k) \in T
    OBVIOUS
  <2>1. Piece(l, k) \in ErrPieces(l)
    BY <1>1, <1>2 DEF ErrPieces
  <2>2. Piece(l, k) <= Piece(l, i) /\ Piece(l, k) \in Nat /\ Piece(l, i) \in Nat
    BY <1>1, <1>2, PieceUp
  <2>3. Piece(l, k) # Piece(l, i)
    BY <1>2, <1>3
  <2> QED
    BY <2>1, <2>2, <2>3
<1>5. \A q \in T : \E k \in S : Piece(l, k) = q
  <2> SUFFICES ASSUME NEW q \in T PROVE \E k \in S : Piece(l, k) = q
    OBVIOUS
  <2>1. PICK k \in 1 .. Len(l) : l[k].sep = "!" /\ Piece(l, k) = q
    BY <1>1 DEF ErrPieces
  <2>2. k < i
    <3>1. CASE i <= k
      <4>1. Piece(l, i) <= Piece(l, k) /\ Piece(l, k) \in Nat /\ Piece(l, i) \in Nat
        BY <1>1, <3>1, PieceUp
      <4> QED
        BY <2>1, <4>1
    <3> QED
      BY <1>1, <3>1
  <2>3. k \in S
    BY <1>1, <2>1, <2>2 DEF Before
  <2> QED
    BY <2>1, <2>3
<1>6. f \in [S -> T] /\ \A a, b \in S : f[a] = f[b] => a = b
  BY <1>2, <1>3, <1>4
<1>7. \A t \in T : \E s \in S : f[s] = t
  BY <1>5
<1> HIDE DEF f, S, T
<1>8. f \in Bijection(S, T)
  BY <1>6, <1>7, Fun_IsBij
<1>9. ExistsBijection(S, T)
  BY <1>8 DEF ExistsBijection
<1>10. IsFiniteSet(S)
  BY <1>1, BeforeFinite DEF S
<1>11. Cardinality(T) = Cardinality(S)
  BY <1>9, <1>10, FS_Bijection
<1> QED
  BY <1>11 DEF S, T

\* So the number that the table has for a piece is the place of its command.
LEMMA ErrIndex ==
    ASSUME NEW l \in Lines, ~TwoInAPiece(l), NEW i \in 1 .. Len(l), l[i].sep = "!"
    PROVE  Piece(l, i) + Cardinality({q \in ErrPieces(l) : q < Piece(l, i)}) = i - 1
<1> DEFINE P == Before(l, i, "|")
           B == Before(l, i, "!")
<1>1. l \in Seq(Command) /\ Len(l) \in Nat /\ DOMAIN l = 1 .. Len(l)
  BY LineFacts
<1>2. P \cup B = 1 .. i - 1 /\ P \cap B = {}
  <2>1. \A k \in 1 .. i - 1 : l[k].sep \in {"|", "!"}
    <3> SUFFICES ASSUME NEW k \in 1 .. i - 1 PROVE l[k].sep \in {"|", "!"}
      OBVIOUS
    <3>1. k \in 1 .. Len(l) /\ k # Len(l)
      <4>1. Len(l) \in Nat
        BY <1>1
      <4>2. i \in Nat /\ i <= Len(l) /\ k \in Nat /\ 1 <= k /\ k <= i - 1
        BY <4>1
      <4>3. k < Len(l)
        BY <4>1, <4>2
      <4> QED
        BY <4>1, <4>2, <4>3
    <3> QED
      BY <3>1, LineFacts
  <2> QED
    BY <2>1 DEF Before
<1>3. /\ IsFiniteSet(P) /\ IsFiniteSet(B) /\ Cardinality(P) \in Nat /\ Cardinality(B) \in Nat
  BY <1>1, BeforeFinite
<1> HIDE DEF P, B
<1>4. Cardinality(P \cup B) = Cardinality(P) + Cardinality(B) - Cardinality(P \cap B)
  BY <1>3, FS_Union
<1>5. Cardinality(P \cap B) = 0 /\ Cardinality(1 .. i - 1) = i - 1
  <2>1. i \in Nat \ {0} /\ i - 1 \in Int /\ 1 \in Int
    BY <1>1
  <2>2. Cardinality(1 .. i - 1) = IF 1 > i - 1 THEN 0 ELSE (i - 1) - 1 + 1
    BY <2>1, FS_Interval
  <2> QED
    BY <1>2, <2>1, <2>2, FS_EmptySet
<1>6. Cardinality(P) + Cardinality(B) = i - 1
  <2>1. Cardinality(P) + Cardinality(B) - 0 = i - 1
    BY <1>2, <1>4, <1>5
  <2> QED
    BY <1>3, <2>1
<1>7. Piece(l, i) = Cardinality(P)
  BY DEF Piece, P, Before
<1> QED
  BY <1>6, <1>7, BangsBefore DEF B

\* The table is right for the commands of such a line.
LEMMA ErrTableRight ==
    ASSUME NEW l \in Lines, ~TwoInAPiece(l), NEW i \in 1 .. Len(l)
    PROVE  i - 1 \in ErrTable(l) <=> l[i].sep = "!"
<1>1. l \in Seq(Command) /\ Len(l) \in Nat /\ DOMAIN l = 1 .. Len(l)
  BY LineFacts
<1>2. ASSUME l[i].sep = "!" PROVE i - 1 \in ErrTable(l)
  <2>1. Piece(l, i) \in ErrPieces(l)
    BY <1>1, <1>2 DEF ErrPieces
  <2> QED
    BY <1>2, <2>1, ErrIndex DEF ErrTable
<1>3. ASSUME i - 1 \in ErrTable(l) PROVE l[i].sep = "!"
  <2>1. PICK p \in ErrPieces(l) : i - 1 = p + Cardinality({q \in ErrPieces(l) : q < p})
    BY <1>3 DEF ErrTable
  <2>2. PICK k \in 1 .. Len(l) : l[k].sep = "!" /\ p = Piece(l, k)
    BY <1>1 DEF ErrPieces
  <2>3. i - 1 = k - 1
    BY <2>1, <2>2, ErrIndex
  <2>4. i = k
    BY <1>1, <2>3
  <2> QED
    BY <2>2, <2>4
<1> QED
  BY <1>2, <1>3

-----------------------------------------------------------------------------
(* Which streams a command reads.                                          *)

\* The streams on pipe q, and those sent to command k, when the jobs so far are J.
On(J, q) == {<<i, "out">> : i \in {i \in DOMAIN J : J[i].out = q}}
            \cup {<<i, "err">> : i \in {i \in DOMAIN J : J[i].err = q}}
To(J, k) == {<<i, "out">> : i \in {i \in DOMAIN J : J[i].sentOut = k}}
            \cup {<<i, "err">> : i \in {i \in DOMAIN J : J[i].sentErr = k}}
PipeOf(E, j, open) == open[E[j].out_fd].pipe

\* An entry in sight whose target is yet to come has on its pipe what was sent to
\* the target; to one that has no entry nothing was sent.
Carried(E, n, open, J, c) ==
    /\ \A j \in Seen(E, n, c) : On(J, PipeOf(E, j, open)) = To(J, E[j].target)
    /\ \A t \in Nat : t >= c /\ (\A j \in Seen(E, n, c) : E[j].target # t) => To(J, t) = {}

\* No stream is on a pipe that was not created.
Existing(J, np) == \A i \in DOMAIN J : J[i].out <= np /\ J[i].err <= np

\* What the commands that were run read.
Fed(J) ==
    \A k \in DOMAIN J : J[k].prog = "run" =>
        (IF J[k].stdin = Terminal THEN {} ELSE On(J, J[k].stdin)) = To(J, k)

FedInv ==
    /\ Existing(job, npipe)
    /\ ~doubled => ~TwoInAPiece(line)
    /\ npipe < Ring /\ ~doubled =>
          /\ Fed(job)
          /\ up => Carried(pipe_num, numpipe_idx, fds, job, cmd_no)

\* One more job, and a stream that is on a pipe or sent to a command.
LEMMA OnAppend ==
    ASSUME NEW J \in Seq(Job), NEW s \in Job, NEW q, NEW x
    PROVE  x \in On(Append(J, s), q) <=>
               \/ x \in On(J, q)
               \/ x = <<Len(J) + 1, "out">> /\ s.out = q
               \/ x = <<Len(J) + 1, "err">> /\ s.err = q
<1> DEFINE n == Len(J) + 1
           K == Append(J, s)
<1>1. /\ DOMAIN K = 1 .. n /\ DOMAIN J = 1 .. Len(J) /\ Len(J) \in Nat
      /\ K[n] = s /\ \A i \in DOMAIN J : K[i] = J[i]
  BY AppendProperties, LenProperties
<1>2. \A i : i \in DOMAIN K <=> i \in DOMAIN J \/ i = n
  BY <1>1
<1> HIDE DEF K, n
<1>3. x \in On(K, q) <=> \/ \E i \in DOMAIN K : K[i].out = q /\ x = <<i, "out">>
                         \/ \E i \in DOMAIN K : K[i].err = q /\ x = <<i, "err">>
  BY DEF On
<1>4. x \in On(J, q) <=> \/ \E i \in DOMAIN J : J[i].out = q /\ x = <<i, "out">>
                         \/ \E i \in DOMAIN J : J[i].err = q /\ x = <<i, "err">>
  BY DEF On
<1>5. x \in On(K, q) <=> \/ x \in On(J, q)
                         \/ x = <<n, "out">> /\ s.out = q
                         \/ x = <<n, "err">> /\ s.err = q
  BY <1>1, <1>2, <1>3, <1>4
<1> QED
  BY <1>5 DEF n, K

LEMMA ToAppend ==
    ASSUME NEW J \in Seq(Job), NEW s \in Job, NEW k, NEW x
    PROVE  x \in To(Append(J, s), k) <=>
               \/ x \in To(J, k)
               \/ x = <<Len(J) + 1, "out">> /\ s.sentOut = k
               \/ x = <<Len(J) + 1, "err">> /\ s.sentErr = k
<1> DEFINE n == Len(J) + 1
           K == Append(J, s)
<1>1. /\ DOMAIN K = 1 .. n /\ DOMAIN J = 1 .. Len(J) /\ Len(J) \in Nat
      /\ K[n] = s /\ \A i \in DOMAIN J : K[i] = J[i]
  BY AppendProperties, LenProperties
<1>2. \A i : i \in DOMAIN K <=> i \in DOMAIN J \/ i = n
  BY <1>1
<1> HIDE DEF K, n
<1>3. x \in To(K, k) <=> \/ \E i \in DOMAIN K : K[i].sentOut = k /\ x = <<i, "out">>
                         \/ \E i \in DOMAIN K : K[i].sentErr = k /\ x = <<i, "err">>
  BY DEF To
<1>4. x \in To(J, k) <=> \/ \E i \in DOMAIN J : J[i].sentOut = k /\ x = <<i, "out">>
                         \/ \E i \in DOMAIN J : J[i].sentErr = k /\ x = <<i, "err">>
  BY DEF To
<1>5. x \in To(K, k) <=> \/ x \in To(J, k)
                         \/ x = <<n, "out">> /\ s.sentOut = k
                         \/ x = <<n, "err">> /\ s.sentErr = k
  BY <1>1, <1>2, <1>3, <1>4
<1> QED
  BY <1>5 DEF n, K

\* A job leaves alone the pipes it is not on and the commands it does not send to, and
\* keeps what was sent to a command together with what is on its pipe.
LEMMA JobApart ==
    ASSUME NEW J \in Seq(Job), NEW s \in Job, NEW q, NEW k
    PROVE  /\ s.out # q /\ s.err # q => On(Append(J, s), q) = On(J, q)
           /\ s.sentOut # k /\ s.sentErr # k => To(Append(J, s), k) = To(J, k)
           /\ /\ s.out = q <=> s.sentOut = k
              /\ s.err = q <=> s.sentErr = k
              /\ On(J, q) = To(J, k)
              => On(Append(J, s), q) = To(Append(J, s), k)
<1>1. ASSUME s.out # q, s.err # q PROVE On(Append(J, s), q) = On(J, q)
  <2>1. \A x : x \in On(Append(J, s), q) <=> x \in On(J, q)
    BY <1>1, OnAppend
  <2> QED
    BY <2>1 DEF On
<1>2. ASSUME s.sentOut # k, s.sentErr # k PROVE To(Append(J, s), k) = To(J, k)
  <2>1. \A x : x \in To(Append(J, s), k) <=> x \in To(J, k)
    BY <1>2, ToAppend
  <2> QED
    BY <2>1 DEF To
<1>3. ASSUME s.out = q <=> s.sentOut = k, s.err = q <=> s.sentErr = k, On(J, q) = To(J, k)
      PROVE  On(Append(J, s), q) = To(Append(J, s), k)
  <2>1. \A x : x \in On(Append(J, s), q) <=> x \in To(Append(J, s), k)
    BY <1>3, OnAppend, ToAppend
  <2> QED
    BY <2>1 DEF On, To
<1> QED
  BY <1>1, <1>2, <1>3

\* A stream goes nowhere, or it is on the pipe of an entry and sent to its target.
Sent(E, n, open, c, out, to) ==
    \/ out = 0 /\ to = 0
    \/ \E j \in Seen(E, n, c) : E[j].target = to /\ to > c /\ out = PipeOf(E, j, open)

\* The input of the next command is the pipe of its entry, or the terminal.
Takes(E, n, open, c, stdin) ==
    \/ stdin = Terminal /\ Found(E, n, c) = {}
    \/ \E j \in Seen(E, n, c) : E[j].target = c /\ stdin = PipeOf(E, j, open)

\* The other entries keep their pipes, and no command that was run reads one of them.
Kept(E, n, open, closed, c) ==
    \A j \in Seen(E, n, c + 1) : j \in Seen(E, n, c) /\ PipeOf(E, j, closed) = PipeOf(E, j, open)
Unread(E, n, open, c, J) ==
    \A k \in DOMAIN J : \A j \in Seen(E, n, c) : J[k].stdin # PipeOf(E, j, open)

\* What the next command reads is what was sent to it, and the rest goes on.
LEMMA FedStep ==
    ASSUME NEW J \in Seq(Job), NEW s \in Job, NEW E \in Seq(Entry), NEW n \in 0 .. Len(E),
           NEW open \in [Fd -> Obj], NEW closed, NEW np, NEW c \in Nat \ {0}, Len(J) = c - 1,
           Sound(E, n, open, np, c), Fed(J), Carried(E, n, open, J, c), Unread(E, n, open, c, J),
           Kept(E, n, open, closed, c), s.prog = "run" => Takes(E, n, open, c, s.stdin),
           Sent(E, n, open, c, s.out, s.sentOut), Sent(E, n, open, c, s.err, s.sentErr)
    PROVE  Fed(Append(J, s)) /\ Carried(E, n, closed, Append(J, s), c + 1)
<1> DEFINE K == Append(J, s)
           P(j) == PipeOf(E, j, open)
<1>1. /\ DOMAIN K = 1 .. c /\ DOMAIN J = 1 .. c - 1
      /\ K[c] = s /\ \A k \in 1 .. c - 1 : K[k] = J[k]
  <2>1. Len(J) + 1 = c
    BY LenProperties
  <2> QED
    BY <2>1, AppendProperties, LenProperties
<1>2. \A j \in Seen(E, n, c) : P(j) # 0 /\ P(j) \in Nat /\ E[j].target \in Nat /\ E[j].target >= c
  <2> SUFFICES ASSUME NEW j \in Seen(E, n, c)
               PROVE  P(j) # 0 /\ P(j) \in Nat /\ E[j].target \in Nat /\ E[j].target >= c
    OBVIOUS
  <2>1. E[j] \in Entry /\ E[j].target >= c
    BY DEF Seen
  <2>2. E[j].out_fd \in Fd /\ E[j].target \in Nat
    BY <2>1 DEF Entry
  <2>3. open[E[j].out_fd].kind = "wr"
    BY DEF Sound, SeenEnds, NamesPipe
  <2>4. open[E[j].out_fd].pipe \in 1 .. np /\ open[E[j].out_fd].pipe \in Nat
    BY <2>2, <2>3 DEF Sound, OpenExist, Obj
  <2> QED
    BY <2>1, <2>2, <2>4 DEF PipeOf
<1>3. \A i, j \in Seen(E, n, c) : (P(i) = P(j) <=> i = j) /\ (E[i].target = E[j].target <=> i = j)
  BY DEF Sound, SeenApart, PipeOf
<1>4. ASSUME NEW j \in Seen(E, n, c), NEW out, NEW to, Sent(E, n, open, c, out, to)
      PROVE  /\ out = P(j) <=> to = E[j].target
             /\ E[j].target = c => out # P(j)
  BY <1>2, <1>3, <1>4 DEF Sent
<1>5. ASSUME NEW k \in Nat \ {0}, k <= c, NEW out, NEW to, Sent(E, n, open, c, out, to)
      PROVE  to # k
  BY <1>2, <1>5 DEF Sent
<1>6. \A k \in 1 .. c : To(K, k) = To(J, k)
  <2> SUFFICES ASSUME NEW k \in 1 .. c PROVE s.sentOut # k /\ s.sentErr # k
    BY JobApart
  <2> QED
    BY <1>5
<1>7. ASSUME NEW k \in 1 .. c - 1, K[k].prog = "run"
      PROVE  (IF K[k].stdin = Terminal THEN {} ELSE On(K, K[k].stdin)) = To(K, k)
  <2>1. (IF J[k].stdin = Terminal THEN {} ELSE On(J, J[k].stdin)) = To(J, k)
    BY <1>1, <1>7 DEF Fed
  <2>2. k \in 1 .. c
    OBVIOUS
  <2>3. CASE J[k].stdin # Terminal
    <3>1. \A j \in Seen(E, n, c) : P(j) # J[k].stdin
      BY <1>1 DEF Unread
    <3>2. s.out # J[k].stdin /\ s.err # J[k].stdin
      BY <2>3, <3>1 DEF Sent, Terminal
    <3>3. On(K, J[k].stdin) = On(J, J[k].stdin)
      BY <3>2, JobApart
    <3> QED
      BY <1>1, <1>6, <2>1, <2>2, <3>3
  <2>4. CASE J[k].stdin = Terminal
    BY <1>1, <1>6, <2>1, <2>2, <2>4
  <2> QED
    BY <2>3, <2>4
<1>8. ASSUME s.prog = "run"
      PROVE  (IF s.stdin = Terminal THEN {} ELSE On(K, s.stdin)) = To(K, c)
  <2>1. To(K, c) = To(J, c)
    BY <1>6
  <2>2. CASE s.stdin = Terminal /\ Found(E, n, c) = {}
    <3>1. \A j \in Seen(E, n, c) : E[j].target # c
      BY <2>2 DEF Seen, Found
    <3>2. To(J, c) = {}
      BY <3>1 DEF Carried
    <3> QED
      BY <2>1, <2>2, <3>2
  <2>3. ASSUME NEW j \in Seen(E, n, c), E[j].target = c, s.stdin = P(j)
        PROVE  (IF s.stdin = Terminal THEN {} ELSE On(K, s.stdin)) = To(K, c)
    <3>1. s.out # P(j) /\ s.err # P(j) /\ s.stdin # Terminal
      BY <1>2, <1>4, <2>3 DEF Terminal
    <3>2. On(K, P(j)) = On(J, P(j))
      BY <3>1, JobApart
    <3>3. On(J, P(j)) = To(J, c)
      BY <2>3 DEF Carried
    <3> QED
      BY <2>1, <2>3, <3>1, <3>2, <3>3
  <2> QED
    BY <1>8, <2>2, <2>3 DEF Takes
<1>9. Fed(K)
  <2> SUFFICES ASSUME NEW k \in 1 .. c, K[k].prog = "run"
               PROVE  (IF K[k].stdin = Terminal THEN {} ELSE On(K, K[k].stdin)) = To(K, k)
    BY <1>1 DEF Fed
  <2>1. k \in 1 .. c - 1 \/ k = c
    OBVIOUS
  <2> QED
    BY <1>1, <1>7, <1>8, <2>1
<1>10. ASSUME NEW j \in Seen(E, n, c + 1)
       PROVE  On(K, PipeOf(E, j, closed)) = To(K, E[j].target)
  <2>1. j \in Seen(E, n, c) /\ PipeOf(E, j, closed) = P(j)
    BY DEF Kept
  <2>2. On(J, P(j)) = To(J, E[j].target)
    BY <2>1 DEF Carried
  <2>3. (s.out = P(j) <=> s.sentOut = E[j].target) /\ (s.err = P(j) <=> s.sentErr = E[j].target)
    BY <1>4, <2>1
  <2> QED
    BY <2>1, <2>2, <2>3, JobApart
<1>11. ASSUME NEW t \in Nat, t >= c + 1, \A j \in Seen(E, n, c + 1) : E[j].target # t
       PROVE  To(K, t) = {}
  <2>1. \A j \in Seen(E, n, c) : E[j].target # t
    BY <1>2, <1>11 DEF Seen
  <2>2. To(J, t) = {}
    BY <1>11, <2>1 DEF Carried
  <2>3. s.sentOut # t /\ s.sentErr # t
    BY <1>11, <2>1 DEF Sent
  <2> QED
    BY <2>2, <2>3, JobApart
<1> QED
  BY <1>9, <1>10, <1>11 DEF Carried

-----------------------------------------------------------------------------
(* The actions again.                                                      *)

\* The streams of a command that leads its output into pipe p go where they were
\* sent, when the line has no two ! in a piece.
LEMMA StreamsFit ==
    ASSUME TypeOK, Runs, NEW stdin \in Nat, NEW p \in Nat,
           cmd.sep \in {"|", "!", ">"} \/ p = 0
    PROVE  LET s == Streams(stdin, p)
           IN  /\ s \in Job /\ s.prog = "run" /\ s.stdin = stdin
               /\ s.out \in {0, p} /\ s.err \in {0, p}
               /\ ~TwoInAPiece(line) =>
                     /\ \/ s.out = 0 /\ s.sentOut = 0
                        \/ s.out = p /\ s.sentOut = Target /\ cmd.sep \in {"|", "!"}
                     /\ \/ s.err = 0 /\ s.sentErr = 0
                        \/ s.err = p /\ s.sentErr = Target /\ cmd.sep \in {"|", "!"}
<1> DEFINE s == Streams(stdin, p)
<1>1. /\ Running /\ line \in Seq(Command) /\ pos \in 1 .. Len(line) /\ cmd \in Command
      /\ Target \in Nat /\ Asked \in Nat
  BY CmdFacts DEF Runs
<1>2. line \in Lines
  <2>1. line # <<>>
    BY <1>1, EmptySeq
  <2> QED
    BY <2>1 DEF TypeOK
<1>3. cmd.sep \in {"|", "!", ">", ""}
  BY <1>1 DEF Command, Sep
<1>4. s = [prog |-> "run", stdin |-> stdin, out |-> IF cmd.sep = ">" THEN 0 ELSE p,
           err |-> IF is_errpipe THEN (IF cmd.sep = ">" THEN 0 ELSE p) ELSE 0,
           sentOut |-> Asked, sentErr |-> IF cmd.sep = "!" THEN Asked ELSE 0]
  BY DEF Streams, Terminal
<1> HIDE DEF s
<1>5. s \in Job /\ s.prog = "run" /\ s.stdin = stdin /\ s.out \in {0, p} /\ s.err \in {0, p}
  BY <1>1, <1>4 DEF Job
<1>6. /\ s.out = IF cmd.sep = ">" THEN 0 ELSE p
      /\ s.err = IF is_errpipe THEN s.out ELSE 0
      /\ s.sentOut = Asked /\ s.sentErr = IF cmd.sep = "!" THEN Asked ELSE 0
  BY <1>4
<1>7. ASSUME ~TwoInAPiece(line) PROVE is_errpipe <=> cmd.sep = "!"
  BY <1>1, <1>2, <1>7, ErrTableRight DEF is_errpipe, cmd
<1>8. Asked = IF cmd.sep \in {"|", "!"} THEN Target ELSE 0
  BY DEF Asked
<1>9. /\ \/ s.out = 0 /\ s.sentOut = 0
         \/ s.out = p /\ s.sentOut = Target /\ cmd.sep \in {"|", "!"}
  BY <1>3, <1>6, <1>8
<1>10. ASSUME ~TwoInAPiece(line)
       PROVE  \/ s.err = 0 /\ s.sentErr = 0
              \/ s.err = p /\ s.sentErr = Target /\ cmd.sep \in {"|", "!"}
  <2>1. CASE cmd.sep = "!"
    BY <1>6, <1>7, <1>8, <1>10, <2>1
  <2>2. CASE cmd.sep # "!"
    BY <1>6, <1>7, <1>10, <2>2
  <2> QED
    BY <2>1, <2>2
<1> QED
  BY <1>5, <1>9, <1>10 DEF s

\* The fork, with the same E, n, open and np as in ForkKeeps; with a | or a ! pipe p
\* is that of the entry in sight for the command it leads to.
LEMMA ForkFed ==
    ASSUME IInv, FedInv, Runs,
           NEW E \in Seq(Entry), NEW n \in 0 .. Len(E), NEW open \in [Fd -> Obj],
           NEW np \in Nat, np >= npipe, NEW p \in 0 .. np,
           cmd.sep \in {"|", "!", ">"} \/ p = 0,
           Sound(E, n, open, np, cmd_no),
           \A q \in PipesOf("wr", open) : q \in PipesOf("wr", fds) \/ q > npipe,
           Fork(E, n, open, p),
           pipe_num' = E, numpipe_idx' = n, npipe' = np,
           np < Ring /\ ~doubled =>
               /\ Carried(E, n, open, job, cmd_no)
               /\ cmd.sep \in {"|", "!"} => \E j \in Seen(E, n, cmd_no) :
                      E[j].target = Target /\ PipeOf(E, j, open) = p
    PROVE  FedInv'
<1>1. /\ TypeOK /\ Running /\ job \in Seq(Job) /\ Len(job) = cmd_no - 1 /\ npipe \in Nat
      /\ cmd_no \in Nat \ {0} /\ DOMAIN job = 1 .. Len(job) /\ Ring \in Nat
      /\ Target \in Nat /\ Target > cmd_no
  <2>1. /\ TypeOK /\ Running /\ job \in Seq(Job) /\ Len(job) = cmd_no - 1 /\ npipe \in Nat
        /\ cmd_no \in Nat \ {0}
    BY DEF IInv, TypeOK, Runs
  <2> QED
    BY <2>1, LenProperties, RingNumbers, CmdFacts
<1>2. line' = line /\ up' = up /\ doubled' = doubled /\ cmd_no' = cmd_no + 1
  BY DEF Fork
<1>3. \A j \in Seen(E, n, cmd_no) : PipeOf(E, j, open) \in PipesOf("wr", open)
  <2> SUFFICES ASSUME NEW j \in Seen(E, n, cmd_no)
               PROVE  PipeOf(E, j, open) \in PipesOf("wr", open)
    OBVIOUS
  <2>1. E[j] \in Entry
    BY DEF Seen
  <2>2. E[j].out_fd \in Fd /\ open[E[j].out_fd].kind = "wr"
    BY <2>1 DEF Entry, Sound, SeenEnds, NamesPipe
  <2> QED
    BY <2>2 DEF PipesOf, PipeOf
<1>4. Unread(E, n, open, cmd_no, job)
  <2>1. \A k \in DOMAIN job : job[k].stdin \in 0 .. npipe /\ job[k].stdin \notin PipesOf("wr", fds)
    BY DEF IInv, InputsClosed, Ends, PipesOf
  <2>2. \A k \in DOMAIN job : job[k].stdin \notin PipesOf("wr", open)
    BY <1>1, <2>1
  <2> QED
    BY <1>3, <2>2 DEF Unread
<1>5. PICK stdin \in Nat :
         /\ job' = Append(job, Streams(stdin, p))
         /\ Takes(E, n, open, cmd_no, stdin)
         /\ Kept(E, n, open, fds', cmd_no)
  <2>1. CASE Found(E, n, cmd_no) = {}
    <3>1. job' = Append(job, Streams(0, p)) /\ fds' = open
      BY <2>1 DEF Fork, Terminal
    <3>2. Takes(E, n, open, cmd_no, 0)
      BY <2>1 DEF Takes, Terminal
    <3>3. \A j \in 1 .. n : E[j].target \in Nat
      <4>1. \A j \in 1 .. n : E[j] \in Entry
        OBVIOUS
      <4> QED
        BY <4>1 DEF Entry
    <3>4. Kept(E, n, open, open, cmd_no)
      BY <1>1, <3>3 DEF Kept, Seen
    <3> QED
      BY <3>1, <3>2, <3>4
  <2>2. CASE Found(E, n, cmd_no) # {}
    <3>1. PICK e : e = First(E, n, cmd_no)
      OBVIOUS
    <3>2. job' = Append(job, Streams(open[e.in_fd].pipe, p)) /\ fds' = CloseInput(e, open)
      BY <2>2, <3>1 DEF Fork
    <3>3. /\ open[e.in_fd].pipe \in 1 .. np
          /\ \A j \in Seen(E, n, cmd_no + 1) :
                j \in Seen(E, n, cmd_no) /\ fds'[E[j].out_fd] = open[E[j].out_fd]
      BY <1>1, <2>2, <3>1, <3>2, TakePipe
    <3>4. PICK j \in Seen(E, n, cmd_no) : e = E[j] /\ E[j].target = cmd_no
      <4>1. cmd_no \in Nat /\ cmd_no >= cmd_no /\ SeenApart(E, n, open, cmd_no)
        BY <1>1 DEF Sound
      <4> QED
        BY <2>2, <3>1, <4>1, FoundIsSeen
    <3>5. open[e.in_fd].pipe = PipeOf(E, j, open)
      BY <3>4 DEF PipeOf, Sound, SeenEnds, NamesPipe
    <3>6. Takes(E, n, open, cmd_no, open[e.in_fd].pipe)
      BY <3>4, <3>5 DEF Takes
    <3>7. Kept(E, n, open, fds', cmd_no)
      BY <3>3 DEF Kept, PipeOf
    <3> QED
      BY <3>2, <3>3, <3>6, <3>7
  <2> QED
    BY <2>1, <2>2
<1> DEFINE s == Streams(stdin, p)
<1>6. /\ s \in Job /\ s.prog = "run" /\ s.stdin = stdin
      /\ s.out \in {0, p} /\ s.err \in {0, p}
      /\ ~TwoInAPiece(line) =>
            /\ \/ s.out = 0 /\ s.sentOut = 0
               \/ s.out = p /\ s.sentOut = Target /\ cmd.sep \in {"|", "!"}
            /\ \/ s.err = 0 /\ s.sentErr = 0
               \/ s.err = p /\ s.sentErr = Target /\ cmd.sep \in {"|", "!"}
  <2>1. p \in Nat
    OBVIOUS
  <2> QED
    BY <1>1, <2>1, StreamsFit
<1>7. job' = Append(job, s)
  BY <1>5
<1> HIDE DEF s
<1>8. Existing(job, npipe)'
  <2>1. \A i \in DOMAIN job' : (i \in DOMAIN job /\ job'[i] = job[i]) \/ job'[i] = s
    BY <1>1, <1>6, <1>7
  <2>2. \A i \in DOMAIN job : /\ job[i].out \in Nat /\ job[i].err \in Nat
                              /\ job[i].out <= npipe /\ job[i].err <= npipe
    <3>1. \A i \in DOMAIN job : job[i] \in Job
      BY <1>1
    <3>2. \A i \in DOMAIN job : job[i].out <= npipe /\ job[i].err <= npipe
      BY DEF FedInv, Existing
    <3> QED
      BY <3>1, <3>2 DEF Job
  <2>3. s.out <= np /\ s.err <= np
    BY <1>6
  <2> QED
    BY <1>1, <2>1, <2>2, <2>3 DEF Existing
<1>9. ASSUME np < Ring, ~doubled
      PROVE  Fed(job)' /\ Carried(pipe_num, numpipe_idx, fds, job, cmd_no)'
  <2>1. /\ ~TwoInAPiece(line) /\ Fed(job) /\ Carried(E, n, open, job, cmd_no)
    BY <1>1, <1>9 DEF FedInv
  <2>2. cmd.sep \in {"|", "!"} => Sent(E, n, open, cmd_no, p, Target)
    BY <1>1, <1>9 DEF Sent
  <2>3. Sent(E, n, open, cmd_no, s.out, s.sentOut) /\ Sent(E, n, open, cmd_no, s.err, s.sentErr)
    BY <1>6, <2>1, <2>2 DEF Sent
  <2>4. /\ Fed(Append(job, s))
        /\ Carried(E, n, fds', Append(job, s), cmd_no + 1)
    BY <1>1, <1>4, <1>5, <1>6, <2>1, <2>3, FedStep
  <2>5. Fed(job') /\ Carried(pipe_num', numpipe_idx', fds', job', cmd_no')
    BY <1>2, <1>7, <2>4
  <2> QED
    BY <2>5 DEF Fed, Carried, On, To, PipeOf, Seen
<1> QED
  BY <1>2, <1>8, <1>9 DEF FedInv

\* A command whose output goes to the terminal.
LEMMA PlainFed ==
    ASSUME IInv, FedInv, RunPlain
    PROVE  FedInv'
<1>1. /\ Runs /\ Running /\ up /\ Fork(pipe_num, numpipe_idx, fds, 0)
      /\ UNCHANGED <<numpipe_idx, pipe_num, npipe>>
  BY DEF RunPlain, Runs, Running, Terminal, table
<1>2. cmd.sep \notin {"|", "!"}
  BY DEF RunPlain
<1>3. npipe >= npipe /\ 0 \in 0 .. npipe /\ 0 = 0
  BY <1>1, FdsFacts
<1>4. npipe < Ring /\ ~doubled =>
          /\ Carried(pipe_num, numpipe_idx, fds, job, cmd_no)
          /\ cmd.sep \in {"|", "!"} => \E j \in Seen(pipe_num, numpipe_idx, cmd_no) :
                 pipe_num[j].target = Target /\ PipeOf(pipe_num, j, fds) = 0
  BY <1>1, <1>2 DEF FedInv
<1> QED
  BY <1>1, <1>3, <1>4, FdsFacts, ForkFed

\* A command that joins a pipe that is there.
LEMMA IntoPipeFed ==
    ASSUME IInv, FedInv, RunIntoPipe
    PROVE  FedInv'
<1> DEFINE p == fds[First(pipe_num, numpipe_idx, Target).out_fd].pipe
<1>1. /\ Runs /\ Running /\ up /\ UNCHANGED <<numpipe_idx, pipe_num, npipe>>
      /\ Found(pipe_num, numpipe_idx, Target) # {}
      /\ Fork(pipe_num, numpipe_idx, fds, p)
  BY DEF RunIntoPipe, Runs, Running, table
<1>2. /\ pipe_num \in Seq(Entry) /\ numpipe_idx \in 0 .. Len(pipe_num) /\ npipe \in Nat
      /\ fds \in [Fd -> Obj] /\ Sound(pipe_num, numpipe_idx, fds, npipe, cmd_no)
      /\ npipe >= npipe
  BY <1>1, FdsFacts
<1>3. cmd.sep \in {"|", "!", ">"}
  <2>1. cmd.sep # "" /\ cmd \in Command
    BY <1>1, FdsFacts, CmdFacts DEF RunIntoPipe
  <2> QED
    BY <2>1 DEF Command, Sep
<1>4. PICK j \in Seen(pipe_num, numpipe_idx, cmd_no) :
          First(pipe_num, numpipe_idx, Target) = pipe_num[j] /\ pipe_num[j].target = Target
  <2>1. Target \in Nat /\ Target >= cmd_no /\ cmd_no \in Nat
    BY <1>1, FdsFacts, CmdFacts
  <2> QED
    BY <1>1, <1>2, <2>1, FoundIsSeen DEF Sound
<1>5. p = PipeOf(pipe_num, j, fds)
  BY <1>4 DEF PipeOf
<1>6. p \in 0 .. npipe
  <2>1. pipe_num[j] \in Entry
    BY <1>2 DEF Seen
  <2>2. pipe_num[j].out_fd \in Fd /\ fds[pipe_num[j].out_fd].kind = "wr"
    BY <1>2, <2>1 DEF Entry, Sound, SeenEnds, NamesPipe
  <2>3. fds[pipe_num[j].out_fd].pipe \in 1 .. npipe
    BY <1>2, <2>2 DEF Sound, OpenExist
  <2> QED
    BY <1>2, <1>4, <2>3
<1> HIDE DEF p
<1>7. npipe < Ring /\ ~doubled =>
          /\ Carried(pipe_num, numpipe_idx, fds, job, cmd_no)
          /\ cmd.sep \in {"|", "!"} => \E i \in Seen(pipe_num, numpipe_idx, cmd_no) :
                 pipe_num[i].target = Target /\ PipeOf(pipe_num, i, fds) = p
  BY <1>1, <1>4, <1>5 DEF FedInv
<1> QED
  BY <1>1, <1>2, <1>3, <1>6, <1>7, ForkFed

\* The entry of a new pipe has on it what was sent to its target: nothing yet.
LEMMA CreateCarried ==
    ASSUME NEW J \in Seq(Job), NEW E \in Seq(Entry), NEW n \in 0 .. Len(E),
           NEW open \in [Fd -> Obj], NEW np \in Nat, NEW c \in Nat,
           Sound(E, n, open, np, c), Carried(E, n, open, J, c), Existing(J, np),
           NEW t \in Nat, t > c, Found(E, n, t) = {},
           NEW r \in Fd, NEW w \in Fd, NEW E2, NEW m, NEW open2, m = n + 1,
           Enters(E, n, E2, m, t, r, w), Opens(open, open2, np, r, w)
    PROVE  /\ Carried(E2, m, open2, J, c)
           /\ m \in Seen(E2, m, c)
           /\ E2[m].target = t /\ PipeOf(E2, m, open2) = np + 1
<1>1. /\ \A j \in 1 .. n : E2[j] = E[j]
      /\ E2[n + 1].target = t /\ E2[n + 1].out_fd = w
  BY DEF Enters
<1>2. PipeOf(E2, n + 1, open2) = np + 1
  BY <1>1 DEF PipeOf, Opens
<1>3. n + 1 \in Seen(E2, n + 1, c)
  BY <1>1 DEF Seen
<1>4. \A j \in 1 .. n : j \in Seen(E2, n + 1, c) <=> j \in Seen(E, n, c)
  BY <1>1 DEF Seen
<1>5. Seen(E2, n + 1, c) = Seen(E, n, c) \cup {n + 1}
  <2>1. \A j : j \in Seen(E2, n + 1, c) => j \in 1 .. n \/ j = n + 1
    BY DEF Seen
  <2>2. \A j : j \in Seen(E, n, c) => j \in 1 .. n
    BY DEF Seen
  <2> QED
    BY <1>3, <1>4, <2>1, <2>2
<1>6. \A j \in Seen(E, n, c) :
         /\ j \in 1 .. n /\ E2[j] = E[j]
         /\ PipeOf(E2, j, open2) = PipeOf(E, j, open)
  <2> SUFFICES ASSUME NEW j \in Seen(E, n, c)
               PROVE  j \in 1 .. n /\ E2[j] = E[j] /\ PipeOf(E2, j, open2) = PipeOf(E, j, open)
    OBVIOUS
  <2>1. j \in 1 .. n /\ E[j] \in Entry
    BY DEF Seen
  <2>2. E[j].out_fd \in Fd /\ open[E[j].out_fd].kind = "wr"
    BY <2>1 DEF Entry, Sound, SeenEnds, NamesPipe
  <2>3. E[j].out_fd \notin {r, w}
    BY <2>2 DEF Opens, Free
  <2> QED
    BY <1>1, <2>1, <2>2, <2>3 DEF PipeOf, Opens
<1>7. On(J, np + 1) = {}
  <2>1. \A i \in DOMAIN J : J[i].out \in Nat /\ J[i].err \in Nat /\ J[i].out <= np /\ J[i].err <= np
    <3>1. \A i \in DOMAIN J : J[i] \in Job
      OBVIOUS
    <3> QED
      BY <3>1 DEF Existing, Job
  <2>2. \A i \in DOMAIN J : J[i].out # np + 1 /\ J[i].err # np + 1
    BY <2>1
  <2> QED
    BY <2>2 DEF On
<1>8. To(J, t) = {}
  <2>1. \A j \in Seen(E, n, c) : E[j].target # t
    BY DEF Seen, Found
  <2>2. t >= c
    OBVIOUS
  <2> QED
    BY <2>1, <2>2 DEF Carried
<1>9. \A j \in Seen(E2, n + 1, c) : On(J, PipeOf(E2, j, open2)) = To(J, E2[j].target)
  <2>1. \A j \in Seen(E, n, c) : On(J, PipeOf(E2, j, open2)) = To(J, E2[j].target)
    BY <1>6 DEF Carried
  <2>2. On(J, PipeOf(E2, n + 1, open2)) = To(J, E2[n + 1].target)
    BY <1>1, <1>2, <1>7, <1>8
  <2> QED
    BY <1>5, <2>1, <2>2
<1>10. ASSUME NEW u \in Nat, u >= c, \A j \in Seen(E2, n + 1, c) : E2[j].target # u
       PROVE  To(J, u) = {}
  <2>1. \A j \in Seen(E, n, c) : E[j].target # u
    BY <1>5, <1>6, <1>10
  <2> QED
    BY <1>10, <2>1 DEF Carried
<1> QED
  BY <1>1, <1>2, <1>3, <1>9, <1>10 DEF Carried

\* A command that gets a new pipe.
LEMMA NewPipeFed ==
    ASSUME IInv, FedInv, NEW r \in Fd, NEW w \in Fd, RunIntoNewPipe(r, w)
    PROVE  FedInv'
<1>1. PICK E \in Seq(Entry), open \in [Fd -> Obj] :
         /\ Found(pipe_num, numpipe_idx, Target) = {} /\ Target > cmd_no
         /\ Enters(pipe_num, numpipe_idx, E, NextIdx, Target, r, w)
         /\ Opens(fds, open, npipe, r, w)
         /\ Fork(E, NextIdx, open, npipe + 1)
         /\ pipe_num' = E /\ numpipe_idx' = NextIdx /\ npipe' = npipe + 1
         /\ Len(E) <= Ring /\ NextIdx \in 0 .. Len(E)
         /\ NextIdx = (npipe + 1) % Ring
         /\ Sound(E, NextIdx, open, npipe + 1, cmd_no)
         /\ PipesOf("wr", open) = PipesOf("wr", fds) \cup {npipe + 1}
  BY NewPipeFacts
<1>2. Runs /\ Running /\ up /\ cmd.sep # ""
  BY DEF RunIntoNewPipe, Runs, Running
<1>3. /\ fds \in [Fd -> Obj] /\ pipe_num \in Seq(Entry) /\ npipe \in Nat
      /\ numpipe_idx \in 0 .. Len(pipe_num) /\ cmd_no \in Nat
      /\ Sound(pipe_num, numpipe_idx, fds, npipe, cmd_no)
      /\ Target \in Nat /\ job \in Seq(Job)
  BY <1>2, FdsFacts, CmdFacts DEF TypeOK
<1>5. npipe + 1 \in Nat /\ npipe + 1 >= npipe /\ npipe + 1 > npipe /\ npipe + 1 \in 0 .. npipe + 1
  BY <1>3
<1>6. cmd.sep \in {"|", "!", ">"}
  <2>1. cmd.sep # "" /\ cmd \in Command
    BY <1>2, FdsFacts, CmdFacts
  <2> QED
    BY <2>1 DEF Command, Sep
<1>7. ASSUME npipe + 1 < Ring, ~doubled
      PROVE  /\ Carried(E, NextIdx, open, job, cmd_no)
             /\ \E j \in Seen(E, NextIdx, cmd_no) :
                   E[j].target = Target /\ PipeOf(E, j, open) = npipe + 1
  <2>1. Carried(pipe_num, numpipe_idx, fds, job, cmd_no) /\ Existing(job, npipe)
    <3>1. npipe < Ring
      BY <1>3, <1>7, RingNumbers
    <3> QED
      BY <1>2, <1>7, <3>1 DEF FedInv
  <2>2. NextIdx = numpipe_idx + 1
    <3>1. (npipe + 1) % Ring = npipe + 1
      <4>1. npipe + 1 \in Nat /\ Ring \in Nat \ {0} /\ npipe + 1 < Ring
        BY <1>3, <1>7, RingNumbers
      <4> QED
        BY <4>1, ModSmall
    <3>2. NextIdx # 0
      BY <1>1, <1>3, <3>1
    <3> QED
      BY <1>1, <3>2 DEF Enters
  <2>3. Enters(pipe_num, numpipe_idx, E, NextIdx, Target, r, w)
    BY <1>1
  <2>4. /\ Carried(E, NextIdx, open, job, cmd_no)
        /\ NextIdx \in Seen(E, NextIdx, cmd_no)
        /\ E[NextIdx].target = Target
        /\ PipeOf(E, NextIdx, open) = npipe + 1
    <3>1. Opens(fds, open, npipe, r, w)
      BY <1>1
    <3>2. Target \in Nat /\ Target > cmd_no /\ Found(pipe_num, numpipe_idx, Target) = {}
      BY <1>1, <1>3
    <3>3. /\ pipe_num \in Seq(Entry) /\ numpipe_idx \in 0 .. Len(pipe_num)
          /\ fds \in [Fd -> Obj] /\ npipe \in Nat /\ cmd_no \in Nat
          /\ Sound(pipe_num, numpipe_idx, fds, npipe, cmd_no)
      BY <1>3
    <3>4. job \in Seq(Job)
      BY <1>3
    <3> QED
      BY <2>1, <2>2, <2>3, <3>1, <3>2, <3>3, <3>4, CreateCarried, SMTT(60)
  <2> QED
    BY <2>4
<1> QED
  BY <1>1, <1>2, <1>3, <1>5, <1>6, <1>7, ForkFed

\* A built-in, which reads and writes no pipe.
LEMMA SetenvFed ==
    ASSUME IInv, FedInv, RunSetenv
    PROVE  FedInv'
<1> DEFINE s == [prog |-> "setenv", stdin |-> Terminal, out |-> Terminal,
                 err |-> Terminal, sentOut |-> 0, sentErr |-> 0]
<1>1. /\ Running /\ up /\ cmd_no' = cmd_no + 1 /\ job' = Append(job, s)
      /\ UNCHANGED <<numpipe_idx, pipe_num, npipe, fds, line, up, doubled>>
  BY DEF RunSetenv, Running, table
<1>2. /\ s \in Job /\ s.prog # "run" /\ s.out = 0 /\ s.err = 0
      /\ s.sentOut = 0 /\ s.sentErr = 0
  BY DEF Job, Terminal
<1> HIDE DEF s
<1>3. /\ job \in Seq(Job) /\ Len(job) = cmd_no - 1 /\ cmd_no \in Nat \ {0} /\ npipe \in Nat
      /\ fds \in [Fd -> Obj] /\ pipe_num \in Seq(Entry) /\ numpipe_idx \in 0 .. Len(pipe_num)
      /\ Sound(pipe_num, numpipe_idx, fds, npipe, cmd_no)
      /\ InputsClosed
  BY <1>1, FdsFacts DEF IInv, TypeOK
<1>4. Existing(job, npipe)'
  <2>1. \A i \in DOMAIN job' : (i \in DOMAIN job /\ job'[i] = job[i]) \/ job'[i] = s
    BY <1>1, <1>2, <1>3
  <2>2. \A i \in DOMAIN job : job[i].out <= npipe /\ job[i].err <= npipe
    BY DEF FedInv, Existing
  <2> QED
    BY <1>1, <1>2, <1>3, <2>1, <2>2 DEF Existing
<1>5. \A j \in Seen(pipe_num, numpipe_idx, cmd_no) :
          /\ pipe_num[j].target \in Nat
          /\ PipeOf(pipe_num, j, fds) \in PipesOf("wr", fds)
  <2> SUFFICES ASSUME NEW j \in Seen(pipe_num, numpipe_idx, cmd_no)
               PROVE  /\ pipe_num[j].target \in Nat
                      /\ PipeOf(pipe_num, j, fds) \in PipesOf("wr", fds)
    OBVIOUS
  <2>1. pipe_num[j] \in Entry
    BY <1>3 DEF Seen
  <2>2. pipe_num[j].out_fd \in Fd /\ fds[pipe_num[j].out_fd].kind = "wr"
    BY <1>3, <2>1 DEF Entry, Sound, SeenEnds, NamesPipe
  <2> QED
    BY <2>1, <2>2 DEF PipesOf, PipeOf, Entry
<1>6. Unread(pipe_num, numpipe_idx, fds, cmd_no, job)
  BY <1>3, <1>5 DEF InputsClosed, Ends, PipesOf, Unread
<1>7. Kept(pipe_num, numpipe_idx, fds, fds, cmd_no)
  <2>1. \A j \in 1 .. numpipe_idx : pipe_num[j].target \in Nat
    <3>1. \A j \in 1 .. numpipe_idx : pipe_num[j] \in Entry
      BY <1>3
    <3> QED
      BY <3>1 DEF Entry
  <2> QED
    BY <1>3, <2>1 DEF Kept, Seen
<1>8. Sent(pipe_num, numpipe_idx, fds, cmd_no, 0, 0)
  BY DEF Sent
<1>9. ASSUME npipe < Ring, ~doubled
      PROVE  Fed(job)' /\ Carried(pipe_num, numpipe_idx, fds, job, cmd_no)'
  <2>1. Fed(job) /\ Carried(pipe_num, numpipe_idx, fds, job, cmd_no)
    BY <1>1, <1>9 DEF FedInv
  <2>2. /\ Fed(Append(job, s))
        /\ Carried(pipe_num, numpipe_idx, fds, Append(job, s), cmd_no + 1)
    BY <1>2, <1>3, <1>6, <1>7, <1>8, <2>1, FedStep
  <2>3. Fed(job') /\ Carried(pipe_num', numpipe_idx', fds', job', cmd_no')
    BY <1>1, <2>2
  <2> QED
    BY <2>3 DEF Fed, Carried, On, To, PipeOf, Seen
<1> QED
  BY <1>1, <1>4, <1>9 DEF FedInv

\* The prompt, the end of the shell, and the end of the wait.
LEMMA OtherFed ==
    ASSUME IInv, FedInv,
           (\E l \in Lines : ReadLine(l)) \/ Exit \/ WaitReturns \/ UNCHANGED vars
    PROVE  FedInv'
<1>1. UNCHANGED <<cmd_no, numpipe_idx, pipe_num, npipe, job>>
  BY DEF ReadLine, Exit, WaitReturns, vars, table
<1>2. up' => up /\ fds' = fds
  BY DEF ReadLine, Exit, WaitReturns, vars
<1>3. doubled => doubled'
  BY DEF ReadLine, Exit, WaitReturns, vars
<1>4. ~doubled' => ~TwoInAPiece(line')
  <2>1. CASE \E l \in Lines : ReadLine(l)
    BY <2>1 DEF ReadLine
  <2>2. CASE Exit \/ WaitReturns \/ UNCHANGED vars
    BY <2>2 DEF Exit, WaitReturns, vars, FedInv
  <2> QED
    BY <2>1, <2>2
<1>5. npipe < Ring /\ ~doubled' /\ up' =>
          Carried(pipe_num', numpipe_idx', fds', job', cmd_no')
  BY <1>1, <1>2, <1>3 DEF FedInv
<1>6. npipe < Ring /\ ~doubled' => Fed(job')
  BY <1>1, <1>3 DEF FedInv
<1>7. Existing(job', npipe')
  BY <1>1 DEF FedInv
<1> QED
  BY <1>1, <1>4, <1>5, <1>6, <1>7
     DEF FedInv, Existing, Fed, Carried, On, To, PipeOf, Seen, TwoInAPiece, Piece

\* No command was run before the first line.
LEMMA InitFed == Init => FedInv
<1> SUFFICES ASSUME Init PROVE FedInv
  OBVIOUS
<1>1. job = <<>> /\ line = <<>> /\ numpipe_idx = 0
  BY DEF Init
<1>2. DOMAIN job = {} /\ DOMAIN line = {}
  BY <1>1
<1>3. ~TwoInAPiece(line)
  BY <1>2 DEF TwoInAPiece
<1>4. \A t : To(job, t) = {}
  BY <1>2 DEF To
<1>5. Seen(pipe_num, numpipe_idx, cmd_no) = {}
  BY <1>1 DEF Seen
<1> QED
  BY <1>2, <1>3, <1>4, <1>5 DEF FedInv, Existing, Fed, Carried

\* Every step keeps it.
LEMMA NextFed == IInv /\ FedInv /\ [Next]_vars => FedInv'
BY PlainFed, IntoPipeFed, NewPipeFed, SetenvFed, OtherFed DEF Next

\* Until the array has been filled once, and on lines that have no two ! in a piece, a
\* command of npshell.c reads what was sent to its number and nothing else: the table
\* of ! is right for these lines, and the entries that the code looks at stand for all
\* that was sent to a command that is yet to come.
THEOREM FedAlwaysAsSent == Spec => []FedAsSent
<1>1. IInv /\ FedInv => FedAsSent
  <2> SUFFICES ASSUME IInv, FedInv, npipe < Ring, ~doubled, NEW k \in Programs
               PROVE  FeedOf(k) = SentTo(k)
    BY DEF FedAsSent
  <2>1. k \in DOMAIN job /\ job[k].prog = "run" /\ Fed(job)
    BY DEF Programs, FedInv
  <2>2. (IF job[k].stdin = Terminal THEN {} ELSE On(job, job[k].stdin)) = To(job, k)
    BY <2>1 DEF Fed
  <2>3. /\ FeedOf(k) = IF job[k].stdin = Terminal THEN {} ELSE On(job, job[k].stdin)
        /\ SentTo(k) = To(job, k)
    BY DEF FeedOf, SentTo, On, To
  <2> QED
    BY <2>2, <2>3
<1>2. Init => IInv /\ FedInv
  BY InitIInv, InitFed
<1>3. (IInv /\ FedInv) /\ [Next]_vars => (IInv /\ FedInv)'
  BY NextIInv, NextFed
<1> QED
  BY <1>1, <1>2, <1>3, PTL DEF Spec
=============================================================================
