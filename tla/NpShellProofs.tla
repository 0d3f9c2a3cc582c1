---------------------------- MODULE NpShellProofs ----------------------------
(***************************************************************************)
(* The inductive invariant of NpShell and what follows from it, for every  *)
(* set of lines and every value of the bounds.                             *)
(*                                                                         *)
(* Descriptors say nothing by themselves: an entry of numpipe_table whose  *)
(* target has run holds numbers that now mean something else.  The         *)
(* argument is that an entry is used only while it is pending, and that    *)
(* the descriptors of a pending entry are the ends of a pipe of its own,   *)
(* on which exactly the streams sent to its target are.                    *)
(***************************************************************************)
EXTENDS NpShell, SequenceTheorems, TLAPS

Target(j) == numpipe_table[j].target_cmd_num
Pending == {j \in DOMAIN numpipe_table : Target(j) >= cmd_no}
InPipe(j) == fds[numpipe_table[j].in_fd].pipe
OutPipe(j) == fds[numpipe_table[j].out_fd].pipe

\* At most one entry for a target.
UniqueTargets == \A i, j \in DOMAIN numpipe_table : Target(i) = Target(j) => i = j

\* A pending entry names the two ends of one pipe that exists.
PendingEnds ==
    up => \A j \in Pending :
        /\ fds[numpipe_table[j].in_fd].kind = "rd"
        /\ fds[numpipe_table[j].out_fd].kind = "wr"
        /\ InPipe(j) = OutPipe(j)
        /\ OutPipe(j) \in 1 .. npipe

\* Pending entries have pipes of their own.
PendingApart == up => \A i, j \in Pending : OutPipe(i) = OutPipe(j) => i = j

\* The streams of a command are on a pipe exactly when it was asked to send
\* them to some later command.
StreamsAsked ==
    \A i \in DOMAIN job :
        /\ job[i].stdin \in 0 .. npipe /\ job[i].stdout \in 0 .. npipe
        /\ job[i].stderr \in {0, job[i].stdout}
        /\ job[i].dest.err \in {0, job[i].dest.out}
        /\ job[i].stdout = 0 <=> job[i].dest.out = 0
        /\ job[i].stderr = 0 <=> job[i].dest.err = 0
        /\ job[i].dest.out # 0 => job[i].dest.out > i

\* The writers of the pipe of a pending entry are the commands sent to its
\* target, and nobody reads it yet.
PendingFed ==
    up => \A i \in DOMAIN job :
        /\ job[i].dest.out >= cmd_no => \E j \in Pending : Target(j) = job[i].dest.out
        /\ \A j \in Pending : job[i].stdout = OutPipe(j) <=> job[i].dest.out = Target(j)
        /\ \A j \in Pending : job[i].stdin # OutPipe(j)

\* The writers of the pipe that command k reads are the commands sent to k.
StartedFed ==
    \A k \in DOMAIN job : job[k].prog # "builtin" =>
        \A i \in DOMAIN job :
            (job[k].stdin # 0 /\ job[i].stdout = job[k].stdin) <=> job[i].dest.out = k

\* A built-in has no streams.
BuiltinSilent ==
    \A k \in DOMAIN job : job[k].prog = "builtin" => job[k].stdin = 0

IInv == /\ TypeOK
        /\ UniqueTargets /\ PendingEnds /\ PendingApart
        /\ StreamsAsked /\ PendingFed /\ StartedFed /\ BuiltinSilent

TableInv == UniqueTargets /\ PendingEnds /\ PendingApart
FeedInv == StreamsAsked /\ PendingFed /\ StartedFed /\ BuiltinSilent

-----------------------------------------------------------------------------
(* Looking an entry up.                                                    *)

\* The loop over numpipe_table finds the entry of a target, if it has one.
LEMMA Lookup ==
    ASSUME TypeOK, UniqueTargets, NEW t, EntryFor(t) # {}
    PROVE  \E j \in DOMAIN numpipe_table :
               Target(j) = t /\ EntryFor(t) = {j} /\ First(t) = numpipe_table[j]
<1>1. PICK j \in DOMAIN numpipe_table : Target(j) = t
  BY DEF EntryFor, Target
<1>2. EntryFor(t) = {j}
  BY <1>1 DEF EntryFor, UniqueTargets, Target
<1>3. j <= j
  BY DEF TypeOK
<1>4. (CHOOSE i \in EntryFor(t) : \A k \in EntryFor(t) : i <= k) = j
  BY <1>2, <1>3
<1> QED
  BY <1>1, <1>2, <1>4 DEF First

\* The command being run is one of the line, and asks for what the code reads.
LEMMA CmdFacts ==
    ASSUME TypeOK, Running
    PROVE  /\ cmd \in Command
           /\ Asked.out = Dest /\ Asked.err = (IF WithErr THEN Dest ELSE 0)
           /\ Dest \in Nat
           /\ Dest # 0 <=> cmd.type \in PipeTypes
           /\ Dest # 0 => Dest > cmd_no
<1>1. cmd \in Command
  BY ShellAssumption DEF TypeOK, Running, cmd
<1>2. cmd.num \in Nat \ {0} /\ cmd_no \in Nat \ {0}
  <2>1. cmd.num \in 1 .. MaxNum
    BY <1>1 DEF Command
  <2>2. cmd_no \in Nat \ {0}
    BY DEF TypeOK
  <2> QED
    BY <2>1, <2>2, ShellAssumption
<1>3. CASE cmd.type \in NumTypes
  BY <1>1, <1>2, <1>3 DEF Asked, Dest, WithErr, NumTypes, PipeTypes
<1>4. CASE cmd.type \in {"pipe", "err_pipe"}
  BY <1>1, <1>2, <1>4 DEF Asked, Dest, WithErr, NumTypes, PipeTypes
<1>5. CASE cmd.type \notin PipeTypes
  BY <1>1, <1>2, <1>5 DEF Asked, Dest, WithErr, NumTypes, PipeTypes
<1> QED
  BY <1>1, <1>3, <1>4, <1>5 DEF PipeTypes
-----------------------------------------------------------------------------
(* What the four ways to run a command have in common.                     *)

\* The command that starts has its standard output on p (0: on no pipe); the
\* entries that stay pending keep their pipe, and p is the pipe of one of them.
Shape(p) ==
    /\ up /\ up'
    /\ cmd_no' = cmd_no + 1
    /\ npipe' \in Nat /\ npipe' >= npipe
    /\ p \in 0 .. npipe' /\ (p = 0 <=> Asked.out = 0)
    /\ Asked.out # 0 => Asked.out > cmd_no
    /\ Asked \in [out : Nat, err : Nat] /\ Asked.err \in {0, Asked.out}
    /\ \E J \in Job :
          /\ job' = Append(job, J)
          /\ J.prog # "builtin" /\ J.stdin = StdinPipe /\ J.stdout = p /\ J.dest = Asked
          /\ J.stderr \in {0, p} /\ (J.stderr = 0 <=> Asked.err = 0)
    /\ \A j \in DOMAIN numpipe_table : Target(j) > cmd_no =>
          j \in Pending' /\ Target(j)' = Target(j) /\ OutPipe(j)' = OutPipe(j)
    /\ \A j \in Pending' :
          \/ j \in DOMAIN numpipe_table /\ Target(j) > cmd_no /\ Target(j)' = Target(j)
          \/ /\ Target(j)' = Asked.out /\ OutPipe(j)' = p /\ p = npipe + 1
             /\ EntryFor(Asked.out) = {}
    /\ p # 0 => \E j \in Pending' : Target(j)' = Asked.out /\ OutPipe(j)' = p

\* What a command reads: the pipe of the entry for its number, or no pipe.
LEMMA Stdin ==
    ASSUME IInv, up
    PROVE  /\ StdinPipe \in 0 .. npipe
           /\ \/ StdinPipe = 0 /\ EntryFor(cmd_no) = {}
              \/ \E j \in Pending : /\ Target(j) = cmd_no /\ StdinPipe = OutPipe(j)
                                    /\ StdinPipe # 0
<1>1. CASE EntryFor(cmd_no) = {}
  BY <1>1 DEF StdinPipe, Terminal, IInv, TypeOK
<1>2. CASE EntryFor(cmd_no) # {}
  <2>1. PICK j \in DOMAIN numpipe_table :
            Target(j) = cmd_no /\ First(cmd_no) = numpipe_table[j]
    BY <1>2, Lookup DEF IInv
  <2>2. j \in Pending
    BY <2>1 DEF Pending, IInv, TypeOK
  <2>3. StdinPipe = InPipe(j)
    BY <1>2, <2>1 DEF StdinPipe, InPipe
  <2>4. InPipe(j) = OutPipe(j) /\ OutPipe(j) \in 1 .. npipe
    BY <2>2 DEF IInv, PendingEnds
  <2> QED
    BY <2>1, <2>2, <2>3, <2>4 DEF IInv, TypeOK
<1> QED
  BY <1>1, <1>2

\* Running a command of that shape keeps the pipes and the requests in step.
LEMMA ShapeFeeds ==
    ASSUME IInv, NEW p, Shape(p)
    PROVE  FeedInv'
<1> DEFINE n == cmd_no
<1>1. PICK J \in Job :
          /\ job' = Append(job, J)
          /\ J.prog # "builtin" /\ J.stdin = StdinPipe /\ J.stdout = p /\ J.dest = Asked
          /\ J.stderr \in {0, p} /\ (J.stderr = 0 <=> Asked.err = 0)
  BY DEF Shape
<1>2. /\ job \in Seq(Job) /\ Len(job) = n - 1 /\ n \in Nat \ {0} /\ npipe \in Nat
      /\ numpipe_table \in Seq(Entry)
  BY DEF IInv, TypeOK
<1>3. /\ DOMAIN job' = 1 .. n /\ DOMAIN job = 1 .. (n - 1)
      /\ \A i \in 1 .. (n - 1) : job'[i] = job[i]
      /\ job'[n] = J
  BY <1>1, <1>2
<1>4. \A j \in DOMAIN numpipe_table : Target(j) \in Nat
  <2>1. \A j \in DOMAIN numpipe_table : numpipe_table[j] \in Entry
    BY <1>2
  <2> QED
    BY <2>1 DEF Entry, Target
<1>5. StreamsAsked'
  <2> SUFFICES ASSUME NEW i \in 1 .. n
               PROVE  /\ job'[i].stdin \in 0 .. npipe' /\ job'[i].stdout \in 0 .. npipe'
                      /\ job'[i].stderr \in {0, job'[i].stdout}
                      /\ job'[i].dest.err \in {0, job'[i].dest.out}
                      /\ job'[i].stdout = 0 <=> job'[i].dest.out = 0
                      /\ job'[i].stderr = 0 <=> job'[i].dest.err = 0
                      /\ job'[i].dest.out # 0 => job'[i].dest.out > i
    BY <1>3 DEF StreamsAsked
  <2>1. npipe' \in Nat /\ npipe' >= npipe
    BY DEF Shape
  <2>2. CASE i \in 1 .. (n - 1)
    BY <2>1, <2>2, <1>2, <1>3 DEF IInv, StreamsAsked
  <2>3. CASE i = n
    <3>1. StdinPipe \in 0 .. npipe'
      BY <2>1, <1>2, Stdin DEF Shape
    <3> QED
      BY <2>3, <3>1, <1>1, <1>3 DEF Shape
  <2> QED
    BY <2>2, <2>3, <1>2
<1>6. BuiltinSilent'
  BY <1>1, <1>2, <1>3 DEF IInv, BuiltinSilent
<1>7. \A i \in 1 .. (n - 1) :
         /\ job[i].dest.out \in Nat /\ job[i].stdout \in 0 .. npipe
         /\ job[i].stdin \in 0 .. npipe
         /\ job[i].stdout = 0 <=> job[i].dest.out = 0
  <2>1. \A i \in 1 .. (n - 1) : job[i] \in Job
    BY <1>2, <1>3
  <2>2. \A i \in 1 .. (n - 1) : job[i].dest.out \in Nat
    BY <2>1 DEF Job
  <2> QED
    BY <2>2, <1>3 DEF IInv, StreamsAsked
\* What PendingFed says of the commands and entries before the step.
<1>11. /\ \A i \in 1 .. (n - 1) : job[i].dest.out >= n =>
             \E j \in Pending : Target(j) = job[i].dest.out
       /\ \A i \in 1 .. (n - 1), j \in Pending :
             /\ job[i].stdout = OutPipe(j) <=> job[i].dest.out = Target(j)
             /\ job[i].stdin # OutPipe(j)
  BY <1>3 DEF IInv, PendingFed, Shape
\* The pipe of an entry that stays pending; the pipe of a new entry is new.
<1>8. \A j \in Pending' :
         /\ Target(j)' \in Nat /\ Target(j)' > n
         /\ \/ /\ j \in Pending /\ Target(j) = Target(j)'
               /\ OutPipe(j) = OutPipe(j)' /\ OutPipe(j) \in 1 .. npipe
            \/ /\ Target(j)' = Asked.out /\ OutPipe(j)' = p /\ p = npipe + 1
               /\ EntryFor(Asked.out) = {}
  <2> SUFFICES ASSUME NEW j \in Pending'
               PROVE  /\ Target(j)' \in Nat /\ Target(j)' > n
                      /\ \/ /\ j \in Pending /\ Target(j) = Target(j)'
                            /\ OutPipe(j) = OutPipe(j)' /\ OutPipe(j) \in 1 .. npipe
                         \/ /\ Target(j)' = Asked.out /\ OutPipe(j)' = p /\ p = npipe + 1
                            /\ EntryFor(Asked.out) = {}
    OBVIOUS
  <2>1. CASE j \in DOMAIN numpipe_table /\ Target(j) > n /\ Target(j)' = Target(j)
    <3>1. j \in Pending
      BY <2>1, <1>2, <1>4 DEF Pending
    <3>2. OutPipe(j)' = OutPipe(j)
      BY <2>1 DEF Shape
    <3>3. OutPipe(j) \in 1 .. npipe
      BY <3>1 DEF Shape, IInv, PendingEnds
    <3> QED
      BY <2>1, <3>1, <3>2, <3>3, <1>4
  <2>2. CASE /\ Target(j)' = Asked.out /\ OutPipe(j)' = p /\ p = npipe + 1
             /\ EntryFor(Asked.out) = {}
    BY <2>2, <1>2 DEF Shape
  <2> QED
    BY <2>1, <2>2 DEF Shape
<1>9. PendingFed'
  <2>1. ASSUME NEW i \in 1 .. n, job'[i].dest.out >= n + 1
        PROVE  \E j \in Pending' : Target(j)' = job'[i].dest.out
    <3>1. CASE i = n
      <4>1. p # 0
        BY <3>1, <2>1, <1>1, <1>2, <1>3 DEF Shape
      <4> QED
        BY <4>1, <3>1, <1>1, <1>3 DEF Shape
    <3>2. CASE i \in 1 .. (n - 1)
      <4>1. PICK j \in Pending : Target(j) = job[i].dest.out
        BY <3>2, <2>1, <1>2, <1>3, <1>7, <1>11
      <4>2. j \in DOMAIN numpipe_table /\ Target(j) > n
        BY <4>1, <3>2, <2>1, <1>2, <1>3, <1>7 DEF Pending
      <4> QED
        BY <4>1, <4>2, <3>2, <1>3 DEF Shape
    <3> QED
      BY <3>1, <3>2, <1>2
  <2>2. ASSUME NEW i \in 1 .. n, NEW j \in Pending'
        PROVE  job'[i].stdout = OutPipe(j)' <=> job'[i].dest.out = Target(j)'
    <3>1. CASE i = n
      \* The new command: p is the pipe of an entry for its target.
      <4>1. CASE p = 0
        BY <4>1, <3>1, <1>1, <1>2, <1>3, <1>8 DEF Shape
      <4>2. CASE p # 0
        <5>1. PICK m \in Pending' : Target(m)' = Asked.out /\ OutPipe(m)' = p
          BY <4>2 DEF Shape
        <5>2. job'[i].stdout = OutPipe(m)' /\ job'[i].dest.out = Target(m)'
          BY <5>1, <3>1, <1>1, <1>3
        <5>3. ASSUME OutPipe(j)' = OutPipe(m)'  PROVE Target(j)' = Target(m)'
          BY <5>1, <5>3, <1>2, <1>8 DEF IInv, PendingApart, Shape
        <5>4. ASSUME Target(j)' = Target(m)'  PROVE OutPipe(j)' = OutPipe(m)'
          BY <5>1, <5>4, <1>2, <1>8 DEF IInv, UniqueTargets, Pending, EntryFor, Target
        <5> QED
          BY <5>2, <5>3, <5>4
      <4> QED
        BY <4>1, <4>2
    <3>2. CASE i \in 1 .. (n - 1)
      <4>1. CASE /\ j \in Pending /\ Target(j) = Target(j)' /\ OutPipe(j) = OutPipe(j)'
        BY <4>1, <3>2, <1>3, <1>11
      <4>2. CASE /\ Target(j)' = Asked.out /\ OutPipe(j)' = npipe + 1
                 /\ EntryFor(Asked.out) = {}
        <5>1. job'[i].stdout # OutPipe(j)'
          BY <4>2, <3>2, <1>2, <1>3, <1>7
        <5>2. job'[i].dest.out # Target(j)'
          <6> SUFFICES ASSUME job[i].dest.out = Asked.out PROVE FALSE
            BY <4>2, <3>2, <1>3
          <6>1. job[i].dest.out >= n
            BY <4>2, <1>8, <1>2
          <6>2. PICK m \in Pending : Target(m) = Asked.out
            BY <6>1, <3>2, <1>11, <4>2
          <6> QED
            BY <6>2, <4>2 DEF EntryFor, Pending, Target
        <5> QED
          BY <5>1, <5>2
      <4> QED
        BY <4>1, <4>2, <1>8
    <3> QED
      BY <3>1, <3>2, <1>2
  <2>3. ASSUME NEW i \in 1 .. n, NEW j \in Pending'
        PROVE  job'[i].stdin # OutPipe(j)'
    <3>1. CASE i = n
      <4>1. job'[i].stdin = StdinPipe
        BY <3>1, <1>1, <1>3
      <4>2. CASE StdinPipe = 0
        BY <4>1, <4>2, <1>2, <1>8
      <4>3. CASE StdinPipe # 0
        <5>1. PICK m \in Pending : Target(m) = n /\ StdinPipe = OutPipe(m)
          BY <4>3, Stdin DEF Shape
        <5>2. OutPipe(m) \in 1 .. npipe
          BY <5>1 DEF Shape, IInv, PendingEnds
        <5> QED
          BY <4>1, <5>1, <5>2, <1>2, <1>8 DEF IInv, PendingApart, Shape
      <4> QED
        BY <4>2, <4>3
    <3>2. CASE i \in 1 .. (n - 1)
      <4>1. CASE j \in Pending /\ OutPipe(j) = OutPipe(j)'
        BY <4>1, <3>2, <1>3, <1>11
      <4>2. CASE OutPipe(j)' = npipe + 1
        BY <4>2, <3>2, <1>2, <1>3, <1>7
      <4> QED
        BY <4>1, <4>2, <1>8
    <3> QED
      BY <3>1, <3>2, <1>2
  <2> QED
    BY <2>1, <2>2, <2>3, <1>3 DEF PendingFed, Shape
<1>10. StartedFed'
  <2> SUFFICES ASSUME NEW k \in 1 .. n, job'[k].prog # "builtin", NEW i \in 1 .. n
               PROVE  (job'[k].stdin # 0 /\ job'[i].stdout = job'[k].stdin)
                      <=> job'[i].dest.out = k
    BY <1>3 DEF StartedFed
  <2>1. CASE k \in 1 .. (n - 1) /\ i \in 1 .. (n - 1)
    BY <2>1, <1>3 DEF IInv, StartedFed
  <2>2. CASE k \in 1 .. (n - 1) /\ i = n
    <3>1. job'[i].dest.out # k
      BY <2>2, <1>1, <1>2, <1>3 DEF Shape
    <3>2. ASSUME job'[k].stdin # 0  PROVE job'[i].stdout # job'[k].stdin
      <4>1. CASE p = 0
        BY <3>2, <4>1, <2>2, <1>1, <1>3
      <4>2. CASE p # 0
        <5>1. PICK m \in Pending' : OutPipe(m)' = p
          BY <4>2 DEF Shape
        <5>2. job[k].stdin # p
          <6>1. CASE m \in Pending /\ OutPipe(m) = OutPipe(m)'
            BY <5>1, <6>1, <2>2, <1>11
          <6>2. CASE p = npipe + 1
            BY <6>2, <2>2, <1>2, <1>7
          <6> QED
            BY <5>1, <6>1, <6>2, <1>8
        <5> QED
          BY <5>2, <2>2, <1>1, <1>3
      <4> QED
        BY <4>1, <4>2
    <3> QED
      BY <3>1, <3>2
  <2>3. CASE k = n
    <3>1. job'[k].stdin = StdinPipe
      BY <2>3, <1>1, <1>3
    <3>2. CASE i = n
      <4>1. job'[i].dest.out # k
        BY <3>2, <2>3, <1>1, <1>2, <1>3 DEF Shape
      <4>2. ASSUME StdinPipe # 0  PROVE p # StdinPipe
        <5>1. PICK m \in Pending : Target(m) = n /\ StdinPipe = OutPipe(m)
          BY <4>2, Stdin DEF Shape
        <5>2. CASE p = 0
          BY <4>2, <5>2
        <5>3. CASE p # 0
          <6>1. PICK l \in Pending' : Target(l)' = Asked.out /\ OutPipe(l)' = p
            BY <5>3 DEF Shape
          <6>2. OutPipe(m) \in 1 .. npipe
            BY <5>1 DEF Shape, IInv, PendingEnds
          <6> QED
            BY <5>1, <6>1, <6>2, <1>2, <1>8 DEF IInv, PendingApart, Shape
        <5> QED
          BY <5>2, <5>3
      <4> QED
        BY <4>1, <4>2, <3>1, <3>2, <1>1, <1>3
    <3>3. CASE i \in 1 .. (n - 1)
      <4>1. job'[i] = job[i]
        BY <3>3, <1>3
      <4>2. CASE StdinPipe # 0
        <5>1. PICK m \in Pending : Target(m) = n /\ StdinPipe = OutPipe(m)
          BY <4>2, Stdin DEF Shape
        <5>2. job[i].stdout = OutPipe(m) <=> job[i].dest.out = Target(m)
          BY <3>3, <5>1, <1>11
        <5> QED
          BY <4>1, <4>2, <5>1, <5>2, <3>1, <2>3
      <4>3. CASE StdinPipe = 0
        <5>1. EntryFor(n) = {}
          BY <4>3, Stdin DEF Shape
        <5>2. ASSUME job[i].dest.out = n  PROVE FALSE
          <6>1. PICK m \in Pending : Target(m) = n
            BY <5>2, <3>3, <1>2, <1>11
          <6> QED
            BY <6>1, <5>1 DEF EntryFor, Pending, Target
        <5> QED
          BY <4>1, <4>3, <5>2, <3>1, <2>3
      <4> QED
        BY <4>2, <4>3
    <3> QED
      BY <3>2, <3>3, <1>2
  <2> QED
    BY <2>1, <2>2, <2>3, <1>2
<1> QED
  BY <1>5, <1>6, <1>9, <1>10 DEF FeedInv
-----------------------------------------------------------------------------
(* Descriptors across a step: what is closed, and what stays.              *)

\* The two descriptors of an entry of numpipe_table are descriptors, and its
\* count is a number: what TypeOK says of one entry.
LEMMA EntryTypes ==
    ASSUME TypeOK, NEW j \in DOMAIN numpipe_table
    PROVE  /\ numpipe_table[j].in_fd \in Fd /\ numpipe_table[j].out_fd \in Fd
           /\ Target(j) \in Nat
<1>1. numpipe_table[j] \in Entry
  BY DEF TypeOK
<1> QED
  BY <1>1 DEF Entry, Target

\* open differs from the descriptors after FdsAfterTarget only where they are
\* free.  Closing the read end of the target then touches no entry that stays
\* pending, and none of the descriptors that open added.
LEMMA Closing ==
    ASSUME IInv, up, NEW open \in [Fd -> Obj],
           \A f \in Fd : FdsAfterTarget[f] # Free => open[f] = FdsAfterTarget[f]
    PROVE  /\ FdsAfterFork(open) \in [Fd -> Obj]
           /\ \A j \in Pending : Target(j) # cmd_no =>
                 /\ FdsAfterFork(open)[numpipe_table[j].in_fd] = fds[numpipe_table[j].in_fd]
                 /\ FdsAfterFork(open)[numpipe_table[j].out_fd] = fds[numpipe_table[j].out_fd]
           /\ \A f \in Fd : FdsAfterTarget[f] = Free => FdsAfterFork(open)[f] = open[f]
<1>1. fds \in [Fd -> Obj] /\ TypeOK /\ UniqueTargets /\ Free \in Obj
  BY DEF IInv, TypeOK, Free, Obj
<1>2. \A j \in Pending :
         /\ j \in DOMAIN numpipe_table
         /\ numpipe_table[j].in_fd \in Fd /\ numpipe_table[j].out_fd \in Fd
         /\ fds[numpipe_table[j].in_fd].kind = "rd" /\ fds[numpipe_table[j].out_fd].kind = "wr"
         /\ fds[numpipe_table[j].in_fd].pipe = OutPipe(j)
         /\ fds[numpipe_table[j].out_fd].pipe = OutPipe(j)
  BY <1>1, EntryTypes DEF IInv, PendingEnds, Pending, InPipe, OutPipe
<1>3. CASE EntryFor(cmd_no) = {}
  BY <1>1, <1>2, <1>3 DEF FdsAfterTarget, FdsAfterFork, Free
<1>4. CASE EntryFor(cmd_no) # {}
  <2>1. PICK t \in DOMAIN numpipe_table :
            Target(t) = cmd_no /\ First(cmd_no) = numpipe_table[t]
    BY <1>4, <1>1, Lookup
  <2>2. t \in Pending
    BY <2>1, <1>1 DEF Pending, TypeOK
  <2> DEFINE r == numpipe_table[t].in_fd
             w == numpipe_table[t].out_fd
  <2>3. /\ r \in Fd /\ w \in Fd /\ r # w
        /\ FdsAfterTarget = [fds EXCEPT ![w] = Free]
        /\ FdsAfterFork(open) = [open EXCEPT ![r] = Free]
    BY <1>2, <1>4, <2>1, <2>2 DEF FdsAfterTarget, FdsAfterFork, Closed
  <2>4. FdsAfterTarget[r] # Free
    BY <1>1, <1>2, <2>2, <2>3 DEF Free
  <2>5. ASSUME NEW j \in Pending, Target(j) # cmd_no
        PROVE  /\ FdsAfterFork(open)[numpipe_table[j].in_fd] = fds[numpipe_table[j].in_fd]
               /\ FdsAfterFork(open)[numpipe_table[j].out_fd] = fds[numpipe_table[j].out_fd]
    <3>1. OutPipe(j) # OutPipe(t)
      BY <2>1, <2>2, <2>5 DEF IInv, PendingApart
    <3>2. numpipe_table[j].in_fd \notin {r, w} /\ numpipe_table[j].out_fd \notin {r, w}
      BY <1>2, <2>2, <3>1
    <3>3. /\ FdsAfterTarget[numpipe_table[j].in_fd] = fds[numpipe_table[j].in_fd]
          /\ FdsAfterTarget[numpipe_table[j].out_fd] = fds[numpipe_table[j].out_fd]
      BY <1>1, <1>2, <2>3, <3>2
    <3>4. fds[numpipe_table[j].in_fd] # Free /\ fds[numpipe_table[j].out_fd] # Free
      BY <1>2 DEF Free
    <3> QED
      BY <1>2, <2>3, <3>2, <3>3, <3>4
  <2> QED
    BY <1>1, <2>3, <2>4, <2>5
<1> QED
  BY <1>3, <1>4

\* After FdsAfterTarget nothing but the write end of the target is closed.
LEMMA AfterTarget ==
    ASSUME IInv, up
    PROVE  /\ FdsAfterTarget \in [Fd -> Obj]
           /\ \A j \in Pending : Target(j) # cmd_no =>
                 /\ FdsAfterTarget[numpipe_table[j].in_fd] = fds[numpipe_table[j].in_fd]
                 /\ FdsAfterTarget[numpipe_table[j].out_fd] = fds[numpipe_table[j].out_fd]
<1>1. fds \in [Fd -> Obj] /\ TypeOK /\ UniqueTargets /\ Free \in Obj
  BY DEF IInv, TypeOK, Free, Obj
<1>2. \A j \in Pending :
         /\ j \in DOMAIN numpipe_table
         /\ numpipe_table[j].in_fd \in Fd /\ numpipe_table[j].out_fd \in Fd
         /\ fds[numpipe_table[j].in_fd].kind = "rd" /\ fds[numpipe_table[j].out_fd].kind = "wr"
         /\ fds[numpipe_table[j].out_fd].pipe = OutPipe(j)
  BY <1>1, EntryTypes DEF IInv, PendingEnds, Pending, OutPipe
<1>3. CASE EntryFor(cmd_no) = {}
  BY <1>1, <1>3 DEF FdsAfterTarget
<1>4. CASE EntryFor(cmd_no) # {}
  <2>1. PICK t \in DOMAIN numpipe_table :
            Target(t) = cmd_no /\ First(cmd_no) = numpipe_table[t]
    BY <1>4, <1>1, Lookup
  <2>2. t \in Pending
    BY <2>1, <1>1 DEF Pending, TypeOK
  <2>3. FdsAfterTarget = [fds EXCEPT ![numpipe_table[t].out_fd] = Free]
    BY <1>4, <2>1 DEF FdsAfterTarget, Closed
  <2>4. FdsAfterTarget \in [Fd -> Obj]
    BY <1>1, <1>2, <2>2, <2>3
  <2>5. \A j \in Pending : Target(j) # cmd_no =>
           /\ numpipe_table[j].in_fd # numpipe_table[t].out_fd
           /\ numpipe_table[j].out_fd # numpipe_table[t].out_fd
    BY <1>2, <2>1, <2>2 DEF IInv, PendingApart
  <2> QED
    BY <1>1, <1>2, <2>3, <2>4, <2>5
<1> QED
  BY <1>3, <1>4
-----------------------------------------------------------------------------
(* The four ways to run a command.                                         *)

\* The types of what Launch assigns.
LEMMA LaunchTypes ==
    ASSUME IInv, Runs, NEW p \in Nat, NEW open \in [Fd -> Obj], Launch(p, open)
    PROVE  /\ cmd_no' \in Nat \ {0} /\ pos' \in 0 .. Len(line) /\ line' = line
           /\ job' \in Seq(Job) /\ Len(job') = cmd_no' - 1 /\ fg' \in 0 .. Len(job')
           /\ proc' \in Seq(Proc) /\ Len(proc') = Len(job')
           /\ input' = input /\ up' = up /\ zombies' = zombies /\ sigchld' = sigchld
<1>1. TypeOK /\ Running /\ up
  BY DEF IInv, Runs, Running
<1>2. cmd \in Command /\ cmd.prog \notin Builtins /\ Asked \in [out : Nat, err : Nat]
  BY <1>1, CmdFacts DEF Runs, Asked
<1>3. cmd.prog \in Program
  BY <1>2 DEF Command
<1>4. StdinPipe \in Nat
  BY <1>1, Stdin DEF IInv, TypeOK
<1>5. [prog |-> cmd.prog, stdin |-> StdinPipe, stdout |-> p,
       stderr |-> IF WithErr THEN p ELSE Terminal, dest |-> Asked] \in Job
  BY <1>2, <1>3, <1>4 DEF Job, Terminal
<1>6. NewProc(cmd.prog, Ends("wr", open)) \in Proc
  <2>1. Ends("wr", open) \subseteq Nat
    BY DEF Ends, Obj
  <2> QED
    BY <2>1, KernelAssumption DEF NewProc, Proc
<1>7. job \in Seq(Job) /\ proc \in Seq(Proc) /\ Len(proc) = Len(job)
      /\ Len(job) = cmd_no - 1 /\ cmd_no \in Nat \ {0}
      /\ line \in Seq(Command) /\ pos \in 1 .. Len(line)
  BY <1>1, ShellAssumption DEF TypeOK, Running
<1>8. /\ job' = Append(job, [prog |-> cmd.prog, stdin |-> StdinPipe, stdout |-> p,
                 stderr |-> IF WithErr THEN p ELSE Terminal, dest |-> Asked])
      /\ proc' = Append(proc, NewProc(cmd.prog, Ends("wr", open)))
  BY DEF Launch, Fork
<1>9. job' \in Seq(Job) /\ Len(job') = cmd_no' - 1 /\ proc' \in Seq(Proc)
      /\ Len(proc') = Len(job') /\ cmd_no' \in Nat \ {0}
  BY <1>5, <1>6, <1>7, <1>8 DEF Launch
<1>10. pos' \in 0 .. Len(line)
  BY <1>7 DEF Launch, NextPos
<1>11. fg' \in 0 .. Len(job')
  BY <1>7, <1>9 DEF Launch
<1> QED
  BY <1>9, <1>10, <1>11 DEF Launch

\* What Launch adds to job is what Shape asks for.
LEMMA LaunchJob ==
    ASSUME IInv, Runs, NEW p \in Nat, NEW open \in [Fd -> Obj], Launch(p, open),
           p = 0 <=> Dest = 0
    PROVE  /\ up /\ up' /\ cmd_no' = cmd_no + 1
           /\ Asked.out = Dest
           /\ (p = 0 <=> Asked.out = 0)
           /\ Asked.out # 0 => Asked.out > cmd_no
           /\ Asked \in [out : Nat, err : Nat] /\ Asked.err \in {0, Asked.out}
           /\ \E J \in Job :
                 /\ job' = Append(job, J)
                 /\ J.prog # "builtin" /\ J.stdin = StdinPipe /\ J.stdout = p
                 /\ J.dest = Asked
                 /\ J.stderr \in {0, p} /\ (J.stderr = 0 <=> Asked.err = 0)
<1>1. TypeOK /\ Running /\ up
  BY DEF IInv, Runs, Running
<1>2. /\ cmd \in Command /\ cmd.prog \in Program
      /\ Asked \in [out : Nat, err : Nat] /\ Asked.out = Dest
      /\ Asked.err = (IF WithErr THEN Dest ELSE 0)
      /\ Dest # 0 => Dest > cmd_no
  <2>1. cmd \in Command /\ Asked.out = Dest /\ Asked.err = (IF WithErr THEN Dest ELSE 0)
        /\ Dest \in Nat /\ (Dest # 0 => Dest > cmd_no)
    BY <1>1, CmdFacts
  <2>2. cmd.prog \in Program
    BY <2>1 DEF Command, Runs
  <2> QED
    BY <2>1, <2>2 DEF Asked
<1>3. cmd.prog # "builtin"
  BY <1>2 DEF Program
<1>4. StdinPipe \in Nat
  BY <1>1, Stdin DEF IInv, TypeOK
<1> DEFINE J == [prog |-> cmd.prog, stdin |-> StdinPipe, stdout |-> p,
                 stderr |-> IF WithErr THEN p ELSE Terminal, dest |-> Asked]
<1>5. J \in Job
  BY <1>2, <1>4 DEF Job, Terminal
<1>6. job' = Append(job, J)
  BY DEF Launch, Fork
<1>7. J.stderr \in {0, p} /\ (J.stderr = 0 <=> Asked.err = 0)
  BY <1>2 DEF Terminal
<1>8. /\ J.prog # "builtin" /\ J.stdin = StdinPipe /\ J.stdout = p /\ J.dest = Asked
  BY <1>3
<1>9. cmd_no' = cmd_no + 1 /\ up' = up
  BY DEF Launch
<1> HIDE DEF J
<1> QED
  BY <1>1, <1>2, <1>5, <1>6, <1>7, <1>8, <1>9

\* A step that adds no entry: the old entries keep their ends.
LEMMA NoNewEntry ==
    ASSUME IInv, Runs, NEW p \in Nat, NEW open \in [Fd -> Obj], Launch(p, open),
           p = 0 <=> Dest = 0,
           \A f \in Fd : FdsAfterTarget[f] # Free => open[f] = FdsAfterTarget[f],
           UNCHANGED <<numpipe_table, npipe, chan>>,
           p # 0 => \E j \in Pending : Target(j) = Dest /\ OutPipe(j) = p
    PROVE  TypeOK' /\ TableInv' /\ Shape(p)
<1>1. TypeOK /\ up
  BY DEF IInv, Runs, Running
<1>2. fds' = FdsAfterFork(open) /\ cmd_no' = cmd_no + 1
  BY DEF Launch
<1>3. /\ fds' \in [Fd -> Obj]
      /\ \A j \in Pending : Target(j) # cmd_no =>
            /\ fds'[numpipe_table[j].in_fd] = fds[numpipe_table[j].in_fd]
            /\ fds'[numpipe_table[j].out_fd] = fds[numpipe_table[j].out_fd]
  BY <1>1, <1>2, Closing
<1>4. TypeOK'
  BY <1>1, <1>3, LaunchTypes DEF TypeOK
<1>5. \A j \in DOMAIN numpipe_table : Target(j)' = Target(j) /\ Target(j) \in Nat
  BY <1>1, EntryTypes DEF Target
<1>6. Pending' = {j \in Pending : Target(j) > cmd_no}
  BY <1>1, <1>2, <1>5 DEF Pending, TypeOK
<1>7. \A j \in Pending' :
         /\ j \in Pending /\ InPipe(j)' = InPipe(j) /\ OutPipe(j)' = OutPipe(j)
         /\ fds'[numpipe_table'[j].in_fd] = fds[numpipe_table[j].in_fd]
         /\ fds'[numpipe_table'[j].out_fd] = fds[numpipe_table[j].out_fd]
  BY <1>1, <1>3, <1>5, <1>6 DEF Pending, InPipe, OutPipe, TypeOK
<1>8. TableInv'
  <2>1. UniqueTargets'
    BY <1>5 DEF IInv, UniqueTargets
  <2>2. PendingEnds'
    BY <1>1, <1>7 DEF IInv, PendingEnds
  <2>3. PendingApart'
    BY <1>1, <1>7 DEF IInv, PendingApart
  <2> QED
    BY <2>1, <2>2, <2>3 DEF TableInv
<1>9. Shape(p)
  <2>1. p \in 0 .. npipe' /\ npipe' \in Nat /\ npipe' >= npipe
    BY <1>1 DEF IInv, PendingEnds, TypeOK
  <2>2. \A j \in DOMAIN numpipe_table : Target(j) > cmd_no =>
           j \in Pending' /\ Target(j)' = Target(j) /\ OutPipe(j)' = OutPipe(j)
    BY <1>1, <1>5, <1>6, <1>7 DEF Pending, TypeOK
  <2>3. \A j \in Pending' :
           j \in DOMAIN numpipe_table /\ Target(j) > cmd_no /\ Target(j)' = Target(j)
    BY <1>5, <1>6 DEF Pending
  <2>4. p # 0 => \E j \in Pending' : Target(j)' = Asked.out /\ OutPipe(j)' = p
    <3> SUFFICES ASSUME p # 0
                 PROVE  \E j \in Pending' : Target(j)' = Asked.out /\ OutPipe(j)' = p
      OBVIOUS
    <3>1. PICK j \in Pending : Target(j) = Dest /\ OutPipe(j) = p
      OBVIOUS
    <3>2. Dest > cmd_no /\ Asked.out = Dest
      BY LaunchJob
    <3>3. j \in DOMAIN numpipe_table
      BY DEF Pending
    <3> QED
      BY <2>2, <3>1, <3>2, <3>3
  <2> QED
    BY <2>1, <2>2, <2>3, <2>4, LaunchJob DEF Shape
<1> QED
  BY <1>4, <1>8, <1>9

\* A step that creates a pipe and enters it for a target that has no entry.
LEMMA NewEntry ==
    ASSUME IInv, NEW r \in Fd, NEW w \in Fd, RunIntoNewPipe(r, w)
    PROVE  TypeOK' /\ TableInv' /\ Shape(npipe + 1)
<1> DEFINE p == npipe + 1
           rd == [kind |-> "rd", pipe |-> p]
           wr == [kind |-> "wr", pipe |-> p]
           open1 == [FdsAfterTarget EXCEPT ![r] = rd]
           open == [open1 EXCEPT ![w] = wr]
           E == [target_cmd_num |-> Dest, in_fd |-> r, out_fd |-> w]
<1>1. /\ TypeOK /\ Running /\ up /\ Runs /\ npipe \in Nat /\ cmd_no \in Nat \ {0}
      /\ numpipe_table \in Seq(Entry) /\ chan \in Seq(Seq(Nat)) /\ Len(chan) = npipe
  BY DEF IInv, Runs, Running, TypeOK, RunIntoNewPipe
<1>2. /\ Lowest(r, FdsAfterTarget) /\ Lowest(w, open1) /\ Launch(p, open)
      /\ npipe' = p /\ chan' = Append(chan, <<>>)
      /\ numpipe_table' = Append(numpipe_table, E)
      /\ EntryFor(Dest) = {} /\ cmd.type \in PipeTypes
  BY DEF RunIntoNewPipe
<1>3. Dest \in Nat /\ Dest > cmd_no /\ Dest # 0
  BY <1>1, <1>2, CmdFacts
<1>4. FdsAfterTarget \in [Fd -> Obj] /\ rd \in Obj /\ wr \in Obj
  BY <1>1, AfterTarget DEF Obj
<1>5. FdsAfterTarget[r] = Free /\ FdsAfterTarget[w] = Free /\ r # w
  BY <1>2, <1>4 DEF Lowest, Free
<1>6. /\ open \in [Fd -> Obj] /\ open[r] = rd /\ open[w] = wr
      /\ \A f \in Fd : FdsAfterTarget[f] # Free => open[f] = FdsAfterTarget[f]
  BY <1>4, <1>5
<1>7. fds' = FdsAfterFork(open) /\ cmd_no' = cmd_no + 1
  BY <1>2 DEF Launch
<1> HIDE DEF open, open1
<1>8. /\ fds' \in [Fd -> Obj]
      /\ \A j \in Pending : Target(j) # cmd_no =>
            /\ fds'[numpipe_table[j].in_fd] = fds[numpipe_table[j].in_fd]
            /\ fds'[numpipe_table[j].out_fd] = fds[numpipe_table[j].out_fd]
      /\ fds'[r] = rd /\ fds'[w] = wr
  BY <1>1, <1>5, <1>6, <1>7, Closing
<1>9. TypeOK'
  <2>1. numpipe_table' \in Seq(Entry)
    BY <1>1, <1>2, <1>3 DEF Entry
  <2>2. chan' \in Seq(Seq(Nat)) /\ Len(chan') = npipe' /\ npipe' \in Nat
    BY <1>1, <1>2
  <2>3. p \in Nat
    BY <1>1
  <2> QED
    BY <1>1, <1>2, <1>6, <1>8, <2>1, <2>2, <2>3, LaunchTypes DEF TypeOK
<1>18. PICK m \in Nat \ {0} : m = Len(numpipe_table) + 1
  BY <1>1
<1>10. /\ DOMAIN numpipe_table' = 1 .. m /\ DOMAIN numpipe_table = 1 .. (m - 1)
       /\ \A j \in 1 .. (m - 1) : numpipe_table'[j] = numpipe_table[j]
       /\ numpipe_table'[m] = E
  BY <1>1, <1>2, <1>18
<1>11. /\ \A j \in 1 .. (m - 1) : Target(j)' = Target(j) /\ Target(j) \in Nat
       /\ Target(m)' = Dest
  <2>1. \A j \in 1 .. (m - 1) : Target(j) \in Nat
    BY <1>1, <1>10, EntryTypes
  <2>2. \A j \in 1 .. (m - 1) : Target(j)' = Target(j)
    BY <1>10 DEF Target
  <2>3. Target(m)' = Dest
    BY <1>10 DEF Target
  <2> QED
    BY <2>1, <2>2, <2>3
<1>12. \A j \in 1 .. (m - 1) : Target(j) # Dest
  BY <1>2, <1>10 DEF EntryFor, Target
<1>13. Pending' = {j \in Pending : Target(j) > cmd_no} \cup {m}
  BY <1>1, <1>3, <1>7, <1>10, <1>11 DEF Pending
<1>14. /\ InPipe(m)' = p /\ OutPipe(m)' = p
       /\ fds'[numpipe_table'[m].in_fd].kind = "rd"
       /\ fds'[numpipe_table'[m].out_fd].kind = "wr"
  BY <1>8, <1>10 DEF InPipe, OutPipe
<1>15. \A j \in Pending : Target(j) > cmd_no =>
         /\ j \in 1 .. (m - 1) /\ InPipe(j)' = InPipe(j) /\ OutPipe(j)' = OutPipe(j)
         /\ fds'[numpipe_table'[j].in_fd] = fds[numpipe_table[j].in_fd]
         /\ fds'[numpipe_table'[j].out_fd] = fds[numpipe_table[j].out_fd]
         /\ OutPipe(j) \in 1 .. npipe
  <2> SUFFICES ASSUME NEW j \in Pending, Target(j) > cmd_no
               PROVE  /\ j \in 1 .. (m - 1) /\ InPipe(j)' = InPipe(j)
                      /\ OutPipe(j)' = OutPipe(j)
                      /\ fds'[numpipe_table'[j].in_fd] = fds[numpipe_table[j].in_fd]
                      /\ fds'[numpipe_table'[j].out_fd] = fds[numpipe_table[j].out_fd]
                      /\ OutPipe(j) \in 1 .. npipe
    OBVIOUS
  <2>1. j \in 1 .. (m - 1)
    BY <1>10 DEF Pending
  <2>2. Target(j) # cmd_no
    BY <1>1, <2>1, <1>11
  <2>3. OutPipe(j) \in 1 .. npipe
    BY <1>1 DEF IInv, PendingEnds
  <2> QED
    BY <1>8, <1>10, <2>1, <2>2, <2>3 DEF InPipe, OutPipe
<1>16. TableInv'
  <2>1. UniqueTargets'
    BY <1>10, <1>11, <1>12 DEF IInv, UniqueTargets
  <2>2. PendingEnds'
    <3>1. p \in 1 .. npipe' /\ \A q \in 1 .. npipe : q \in 1 .. npipe'
      BY <1>1, <1>2
    <3>2. \A j \in Pending :
             /\ fds[numpipe_table[j].in_fd].kind = "rd"
             /\ fds[numpipe_table[j].out_fd].kind = "wr"
             /\ InPipe(j) = OutPipe(j)
      BY <1>1 DEF IInv, PendingEnds
    <3> QED
      BY <3>1, <3>2, <1>13, <1>14, <1>15 DEF PendingEnds
  <2>3. PendingApart'
    BY <1>1, <1>13, <1>14, <1>15 DEF IInv, PendingApart
  <2> QED
    BY <2>1, <2>2, <2>3 DEF TableInv
<1>17. Shape(p)
  <2>1. p \in 0 .. npipe' /\ npipe' \in Nat /\ npipe' >= npipe /\ p # 0
    BY <1>1, <1>2
  <2>2. \A j \in DOMAIN numpipe_table : Target(j) > cmd_no =>
           j \in Pending' /\ Target(j)' = Target(j) /\ OutPipe(j)' = OutPipe(j)
    BY <1>1, <1>10, <1>11, <1>13, <1>15 DEF Pending
  <2>3. \A j \in Pending' :
           \/ j \in DOMAIN numpipe_table /\ Target(j) > cmd_no /\ Target(j)' = Target(j)
           \/ Target(j)' = Dest /\ OutPipe(j)' = p
    BY <1>10, <1>11, <1>13, <1>14 DEF Pending
  <2>4. p # 0 => \E j \in Pending' : Target(j)' = Dest /\ OutPipe(j)' = p
    BY <1>11, <1>13, <1>14
  <2>5. Asked.out = Dest
    BY <1>1, CmdFacts
  <2>6. p = 0 <=> Dest = 0
    BY <2>1, <1>3
  <2> QED
    BY <1>1, <1>2, <1>6, <2>1, <2>2, <2>3, <2>4, <2>5, <2>6, LaunchJob DEF Shape
<1> QED
  BY <1>9, <1>16, <1>17

\* A command that is run, with its pipes opened, closed and handed on
\* (the loop of npshell.cpp over a line), keeps the types and the facts about
\* the table.
LEMMA RunKeeps ==
    ASSUME IInv, RunCommand
    PROVE  TypeOK' /\ TableInv' /\ \E p \in Nat : Shape(p)
<1>1. TypeOK /\ up /\ FdsAfterTarget \in [Fd -> Obj] /\ npipe \in Nat
  BY AfterTarget DEF IInv, TypeOK, RunCommand, RunPlain, RunToFile, RunIntoPipe,
                     RunIntoNewPipe, Runs, Running
<1>2. CASE RunPlain
  <2>1. Runs /\ cmd.type = "" /\ Running
    BY <1>2 DEF RunPlain, Runs
  <2>2. Dest = 0
    BY <2>1, <1>1, CmdFacts DEF PipeTypes, NumTypes
  <2>3. Launch(0, FdsAfterTarget) /\ UNCHANGED <<numpipe_table, npipe, chan>>
    BY <1>2 DEF RunPlain, Terminal
  <2> QED
    BY <1>1, <2>1, <2>2, <2>3, NoNewEntry
<1>3. CASE \E f \in Fd : RunToFile(f)
  <2>1. PICK f \in Fd : RunToFile(f)
    BY <1>3
  <2> DEFINE open == [FdsAfterTarget EXCEPT ![f] = [kind |-> "file", pipe |-> 0]]
  <2>2. Runs /\ cmd.type = "file_pipe" /\ Running
    BY <2>1 DEF RunToFile, Runs
  <2>3. Dest = 0
    BY <2>2, <1>1, CmdFacts DEF PipeTypes, NumTypes
  <2>4. Launch(0, open) /\ UNCHANGED <<numpipe_table, npipe, chan>>
    BY <2>1 DEF RunToFile, Terminal
  <2>5. FdsAfterTarget[f] = Free
    BY <2>1 DEF RunToFile, Lowest
  <2>6. /\ open \in [Fd -> Obj]
        /\ \A g \in Fd : FdsAfterTarget[g] # Free => open[g] = FdsAfterTarget[g]
    BY <1>1, <2>5 DEF Obj
  <2> HIDE DEF open
  <2> QED
    BY <1>1, <2>2, <2>3, <2>4, <2>6, NoNewEntry
<1>4. CASE RunIntoPipe
  <2>1. /\ Runs /\ Running /\ cmd.type \in PipeTypes /\ EntryFor(Dest) # {}
        /\ Launch(FdsAfterTarget[First(Dest).out_fd].pipe, FdsAfterTarget)
        /\ UNCHANGED <<numpipe_table, npipe, chan>>
    BY <1>4 DEF RunIntoPipe, Runs
  <2>2. Dest \in Nat /\ Dest > cmd_no /\ Dest # 0 /\ cmd_no \in Nat
    BY <2>1, <1>1, CmdFacts DEF TypeOK
  <2>3. PICK j \in DOMAIN numpipe_table : Target(j) = Dest /\ First(Dest) = numpipe_table[j]
    BY <2>1, Lookup DEF IInv
  <2>4. j \in Pending /\ Target(j) # cmd_no
    BY <2>2, <2>3 DEF Pending
  <2>5. FdsAfterTarget[numpipe_table[j].out_fd].pipe = OutPipe(j)
    BY <1>1, <2>4, AfterTarget DEF OutPipe
  <2>6. OutPipe(j) \in 1 .. npipe
    BY <1>1, <2>4 DEF IInv, PendingEnds
  <2>7. OutPipe(j) \in Nat /\ OutPipe(j) # 0
    BY <1>1, <2>6
  <2>8. Launch(OutPipe(j), FdsAfterTarget)
    BY <2>1, <2>3, <2>5
  <2> QED
    BY <1>1, <2>1, <2>2, <2>3, <2>4, <2>7, <2>8, NoNewEntry
<1>5. CASE \E r, w \in Fd : RunIntoNewPipe(r, w)
  BY <1>1, <1>5, NewEntry
<1> QED
  BY <1>2, <1>3, <1>4, <1>5 DEF RunCommand
-----------------------------------------------------------------------------
(* The steps that run no command.                                          *)

pipeVars == <<cmd_no, numpipe_table, fds, npipe, job, up>>

\* The invariants but TypeOK say nothing of the other variables.
LEMMA Unchanged ==
    ASSUME IInv, UNCHANGED pipeVars
    PROVE  TableInv' /\ FeedInv'
<1>1. TableInv /\ FeedInv
  BY DEF IInv, TableInv, FeedInv
<1> QED
  BY <1>1 DEF pipeVars, TableInv, FeedInv, UniqueTargets, PendingEnds, PendingApart,
              StreamsAsked, PendingFed, StartedFed, BuiltinSilent, Pending, Target,
              InPipe, OutPipe

\* A built-in: it has a number, and the entry for it is pending no more.
LEMMA SetenvKeeps ==
    ASSUME IInv, RunSetenv
    PROVE  TypeOK' /\ TableInv' /\ FeedInv'
<1> DEFINE n == cmd_no
           J == [prog |-> "builtin", stdin |-> Terminal, stdout |-> Terminal,
                 stderr |-> Terminal, dest |-> [out |-> 0, err |-> 0]]
<1>1. /\ TypeOK /\ up /\ up' = up /\ cmd_no' = n + 1 /\ n \in Nat \ {0}
      /\ job \in Seq(Job) /\ Len(job) = n - 1 /\ proc \in Seq(Proc) /\ Len(proc) = Len(job)
      /\ line \in Seq(Command) /\ pos \in 1 .. Len(line) /\ npipe \in Nat
  BY ShellAssumption DEF IInv, TypeOK, RunSetenv, Running
<1>2. /\ job' = Append(job, J)
      /\ proc' = Append(proc, [st |-> "exited", held |-> {}, todo |-> 0, errs |-> 0])
      /\ pos' = NextPos
      /\ UNCHANGED <<numpipe_table, fds, npipe, line, fg, input, up, chan, zombies, sigchld>>
  BY DEF RunSetenv, NoFork
<1>3. J \in Job /\ [st |-> "exited", held |-> {}, todo |-> 0, errs |-> 0] \in Proc
  BY DEF Job, Proc, Terminal
<1>4. TypeOK'
  <2>1. job' \in Seq(Job) /\ Len(job') = cmd_no' - 1 /\ Len(job') = Len(job) + 1
    BY <1>1, <1>2, <1>3
  <2>2. proc' \in Seq(Proc) /\ Len(proc') = Len(job')
    BY <1>1, <1>2, <1>3
  <2>3. pos' \in 0 .. Len(line)
    BY <1>1, <1>2 DEF NextPos
  <2>4. fg' \in 0 .. Len(job')
    BY <1>1, <1>2, <2>1 DEF TypeOK
  <2> QED
    BY <1>1, <1>2, <2>1, <2>2, <2>3, <2>4 DEF TypeOK
<1>5. /\ DOMAIN job' = 1 .. n /\ DOMAIN job = 1 .. (n - 1)
      /\ \A i \in 1 .. (n - 1) : job'[i] = job[i]
      /\ job'[n] = J
  BY <1>1, <1>2
<1>6. \A j \in DOMAIN numpipe_table : Target(j)' = Target(j) /\ Target(j) \in Nat
  BY <1>1, <1>2, EntryTypes DEF Target
<1>7. /\ Pending' = {j \in Pending : Target(j) > n}
      /\ \A j \in Pending' : InPipe(j)' = InPipe(j) /\ OutPipe(j)' = OutPipe(j)
  BY <1>1, <1>2, <1>6 DEF Pending, InPipe, OutPipe
<1>8. TableInv'
  <2>1. UniqueTargets'
    BY <1>2, <1>6 DEF IInv, UniqueTargets
  <2>2. PendingEnds'
    BY <1>1, <1>2, <1>7 DEF IInv, PendingEnds
  <2>3. PendingApart'
    BY <1>1, <1>7 DEF IInv, PendingApart
  <2> QED
    BY <2>1, <2>2, <2>3 DEF TableInv
<1>9. \A i \in 1 .. (n - 1) : job[i].dest.out \in Nat
  <2>1. \A i \in 1 .. (n - 1) : job[i] \in Job
    BY <1>1, <1>5
  <2> QED
    BY <2>1 DEF Job
<1>10. FeedInv'
  <2>1. StreamsAsked'
    BY <1>1, <1>2, <1>5 DEF IInv, StreamsAsked, Terminal
  <2>2. PendingFed'
    <3>1. ASSUME NEW i \in 1 .. n, job'[i].dest.out >= n + 1
          PROVE  \E j \in Pending' : Target(j)' = job'[i].dest.out
      <4>1. i \in 1 .. (n - 1)
        BY <3>1, <1>1, <1>5
      <4>2. job[i].dest.out >= n /\ job[i].dest.out > n
        BY <4>1, <3>1, <1>1, <1>5, <1>9
      <4>3. PICK j \in Pending : Target(j) = job[i].dest.out
        BY <4>1, <4>2, <1>1, <1>5 DEF IInv, PendingFed
      <4> QED
        BY <4>1, <4>2, <4>3, <1>5, <1>6, <1>7 DEF Pending
    <3>2. ASSUME NEW i \in 1 .. n, NEW j \in Pending'
          PROVE  /\ job'[i].stdout = OutPipe(j)' <=> job'[i].dest.out = Target(j)'
                 /\ job'[i].stdin # OutPipe(j)'
      <4>1. /\ j \in Pending /\ Target(j) > n /\ Target(j)' = Target(j) /\ Target(j) \in Nat
            /\ OutPipe(j)' = OutPipe(j) /\ OutPipe(j) \in 1 .. npipe
        BY <1>1, <1>6, <1>7 DEF IInv, PendingEnds, Pending
      <4>2. CASE i = n
        BY <4>1, <4>2, <1>1, <1>5 DEF Terminal
      <4>3. CASE i \in 1 .. (n - 1)
        <5>1. /\ job[i].stdout = OutPipe(j) <=> job[i].dest.out = Target(j)
              /\ job[i].stdin # OutPipe(j)
          BY <4>1, <4>3, <1>1, <1>5 DEF IInv, PendingFed
        <5> QED
          BY <4>1, <4>3, <5>1, <1>5
      <4> QED
        BY <4>2, <4>3, <1>1
    <3> QED
      BY <3>1, <3>2, <1>1, <1>5 DEF PendingFed
  <2>3. StartedFed'
    <3> SUFFICES ASSUME NEW k \in 1 .. (n - 1), job[k].prog # "builtin", NEW i \in 1 .. n
                 PROVE  (job[k].stdin # 0 /\ job'[i].stdout = job[k].stdin)
                        <=> job'[i].dest.out = k
      BY <1>1, <1>5 DEF StartedFed
    <3>1. CASE i = n
      BY <3>1, <1>1, <1>5 DEF Terminal
    <3>2. CASE i \in 1 .. (n - 1)
      BY <3>2, <1>5 DEF IInv, StartedFed
    <3> QED
      BY <3>1, <3>2, <1>1
  <2>4. BuiltinSilent'
    BY <1>1, <1>5 DEF IInv, BuiltinSilent, Terminal
  <2> QED
    BY <2>1, <2>2, <2>3, <2>4 DEF FeedInv
<1> QED
  BY <1>4, <1>8, <1>10

\* exit: everything is closed, and nothing runs any more.
LEMMA ExitKeeps ==
    ASSUME IInv, RunExit
    PROVE  TypeOK' /\ TableInv' /\ FeedInv'
<1>1. TypeOK /\ up' = FALSE /\ fds' = [f \in Fd |-> Free] /\ Free \in Obj
      /\ UNCHANGED <<cmd_no, numpipe_table, npipe, line, pos, fg, input, kernelVars>>
  BY DEF IInv, RunExit, Free, Obj
<1>2. fds' \in [Fd -> Obj] /\ up' \in BOOLEAN
  BY <1>1
<1>3. TypeOK'
  BY <1>1, <1>2 DEF TypeOK, kernelVars
<1>4. TableInv'
  BY <1>1 DEF IInv, TableInv, UniqueTargets, PendingEnds, PendingApart, Target
<1>5. FeedInv'
  BY <1>1 DEF IInv, FeedInv, StreamsAsked, PendingFed, StartedFed, BuiltinSilent, kernelVars
<1> QED
  BY <1>3, <1>4, <1>5

\* The user, waitpid and the signal handler.
LEMMA OtherTypes ==
    ASSUME TypeOK, User \/ ReadAgain \/ WaitReturns \/ childHandler
    PROVE  TypeOK' /\ UNCHANGED pipeVars
<1>1. ASSUME NEW l \in Lines, NEW t \in BOOLEAN, ReadLine(l, t)
      PROVE  TypeOK' /\ UNCHANGED pipeVars
  <2>1. l \in Seq(Command)
    BY ShellAssumption
  <2>2. pos' \in 0 .. Len(l)
    BY <1>1, <2>1 DEF ReadLine
  <2> QED
    BY <1>1, <2>2 DEF TypeOK, ReadLine, kernelVars, pipeVars
<1>2. CASE ReadEof
  <2>1. pos' \in 0 .. Len(line')
    BY <1>2 DEF ReadEof, AtPrompt
  <2> QED
    BY <1>2, <2>1 DEF TypeOK, ReadEof, kernelVars, pipeVars
<1>3. CASE ReadAgain
  <2>1. line # <<>> => line \in Seq(Command)
    BY ShellAssumption DEF TypeOK
  <2>2. pos' \in 0 .. Len(line)
    BY <1>3, <2>1 DEF ReadAgain
  <2> QED
    BY <1>3, <2>2 DEF TypeOK, ReadAgain, kernelVars, pipeVars
<1>4. CASE WaitReturns
  BY <1>4 DEF TypeOK, WaitReturns, pipeVars
<1>5. CASE childHandler
  BY <1>5 DEF TypeOK, childHandler, shellVars, pipeVars
<1> QED
  BY <1>1, <1>2, <1>3, <1>4, <1>5 DEF User

\* A child changes its own state and the data in the pipes.
LEMMA ChildTypes ==
    ASSUME IInv, NEW k \in DOMAIN proc, Child(k)
    PROVE  TypeOK' /\ UNCHANGED pipeVars
<1>1. /\ TypeOK /\ k \in 1 .. Len(proc) /\ proc \in Seq(Proc) /\ proc[k] \in Proc
      /\ job \in Seq(Job) /\ job[k] \in Job /\ chan \in Seq(Seq(Nat)) /\ Len(chan) = npipe
      /\ npipe \in Nat /\ k \in Nat
  BY DEF IInv, TypeOK
<1>2. /\ job[k].stdin \in 0 .. npipe /\ job[k].stdout \in 0 .. npipe
      /\ job[k].stderr \in 0 .. npipe
  <2>1. k \in DOMAIN job
    BY <1>1 DEF TypeOK
  <2>2. /\ job[k].stdin \in 0 .. npipe /\ job[k].stdout \in 0 .. npipe
        /\ job[k].stderr \in {0, job[k].stdout}
    BY <2>1 DEF IInv, StreamsAsked
  <2> QED
    BY <1>1, <2>2
<1>3. ASSUME NEW q \in Proc, proc' = [proc EXCEPT ![k] = q], job' = job,
             chan' \in Seq(Seq(Nat)), Len(chan') = Len(chan),
             zombies' \subseteq Nat, sigchld' \in BOOLEAN, UNCHANGED shellVars
      PROVE  TypeOK' /\ UNCHANGED pipeVars
  <2>1. proc' \in Seq(Proc) /\ Len(proc') = Len(proc)
    BY <1>1, <1>3
  <2> QED
    BY <1>1, <1>3, <2>1 DEF TypeOK, shellVars, pipeVars
<1>4. ASSUME NEW how \in {"exited", "killed"}, Die(k, how), chan' = chan, UNCHANGED shellVars
      PROVE  TypeOK' /\ UNCHANGED pipeVars
  <2> DEFINE q == [proc[k] EXCEPT !.st = how, !.held = {}]
  <2>1. q \in Proc
    BY <1>1 DEF Proc
  <2>2. proc' = [proc EXCEPT ![k] = q]
    BY <1>1, <1>4 DEF Die, Proc
  <2>3. job' = job /\ zombies' \subseteq Nat /\ sigchld' \in BOOLEAN
    BY <1>1, <1>4 DEF Die, TypeOK
  <2> HIDE DEF q
  <2> QED
    BY <1>1, <1>3, <1>4, <2>1, <2>2, <2>3
<1>5. ASSUME NEW p \in 0 .. npipe, NEW q \in Proc, NEW reads,
             Put(k, p, [proc EXCEPT ![k] = q], reads), UNCHANGED shellVars
      PROVE  TypeOK' /\ UNCHANGED pipeVars
  <2>1. CASE p = Terminal /\ proc' = [proc EXCEPT ![k] = q]
             /\ UNCHANGED <<job, chan, zombies, sigchld>>
    BY <2>1, <1>1, <1>3, <1>5 DEF TypeOK
  <2>2. CASE Die(k, "killed") /\ UNCHANGED chan
    BY <2>2, <1>4, <1>5
  <2>3. CASE /\ p # Terminal /\ chan' = [chan EXCEPT ![p] = Append(@, k)]
             /\ proc' = [proc EXCEPT ![k] = q]
             /\ UNCHANGED <<job, zombies, sigchld>>
    <3>1. p \in 1 .. Len(chan) /\ chan[p] \in Seq(Nat)
      BY <2>3, <1>1 DEF Terminal
    <3>2. Append(chan[p], k) \in Seq(Nat)
      BY <3>1, <1>1
    <3>3. chan' \in Seq(Seq(Nat)) /\ Len(chan') = Len(chan)
      BY <2>3, <3>1, <3>2, <1>1
    <3> QED
      BY <2>3, <3>3, <1>1, <1>3, <1>5 DEF TypeOK
  <2> QED
    BY <2>1, <2>2, <2>3, <1>5 DEF Put
<1>6. CASE ChildExec(k)
  <2> DEFINE q == [proc[k] EXCEPT !.st = "running", !.held = {}]
  <2>1. q \in Proc
    BY <1>1 DEF Proc
  <2>2. proc' = [proc EXCEPT ![k] = q]
    BY <1>1, <1>6 DEF ChildExec, Proc
  <2>3. UNCHANGED <<shellVars, job, chan, zombies, sigchld>>
    BY <1>6 DEF ChildExec
  <2> HIDE DEF q
  <2> QED
    BY <1>1, <1>3, <2>1, <2>2, <2>3 DEF TypeOK
<1>7. CASE ChildWrite(k, ShellReads) /\ UNCHANGED shellVars
  <2> DEFINE q == [proc[k] EXCEPT !.todo = @ - 1]
  <2>1. q \in Proc
    <3>1. proc[k].todo > 0 /\ proc[k].todo \in Nat
      BY <1>1, <1>7 DEF ChildWrite, Proc
    <3>2. proc[k].todo - 1 \in Nat
      BY <3>1
    <3> QED
      BY <1>1, <3>2 DEF Proc
  <2>2. [proc EXCEPT ![k].todo = @ - 1] = [proc EXCEPT ![k] = q]
    BY <1>1
  <2>3. Put(k, job[k].stdout, [proc EXCEPT ![k] = q], ShellReads)
    BY <1>7, <2>2 DEF ChildWrite
  <2> HIDE DEF q
  <2> QED
    BY <1>2, <1>5, <1>7, <2>1, <2>3
<1>8. CASE ChildWriteErr(k, ShellReads) /\ UNCHANGED shellVars
  <2> DEFINE q == [proc[k] EXCEPT !.errs = @ - 1]
  <2>1. q \in Proc
    <3>1. proc[k].errs > 0 /\ proc[k].errs \in 0 .. 1
      BY <1>1, <1>8 DEF ChildWriteErr, Proc
    <3>2. proc[k].errs - 1 \in 0 .. 1
      BY <3>1
    <3> QED
      BY <1>1, <3>2 DEF Proc
  <2>2. [proc EXCEPT ![k].errs = @ - 1] = [proc EXCEPT ![k] = q]
    BY <1>1
  <2>3. Put(k, job[k].stderr, [proc EXCEPT ![k] = q], ShellReads)
    BY <1>8, <2>2 DEF ChildWriteErr
  <2> HIDE DEF q
  <2> QED
    BY <1>2, <1>5, <1>8, <2>1, <2>3
<1>9. CASE ChildRead(k) /\ UNCHANGED shellVars
  <2> DEFINE q == [proc[k] EXCEPT !.todo = 1]
             p == job[k].stdin
  <2>1. q \in Proc /\ proc' = [proc EXCEPT ![k] = q]
    BY <1>1, <1>9 DEF ChildRead, Proc
  <2>2. p \in 1 .. Len(chan) /\ chan[p] \in Seq(Nat) /\ chan[p] # <<>>
    BY <1>1, <1>2, <1>9 DEF ChildRead, Terminal
  <2>3. Tail(chan[p]) \in Seq(Nat)
    BY <2>2
  <2>4. chan' = [chan EXCEPT ![p] = Tail(@)] /\ UNCHANGED <<job, zombies, sigchld>>
    BY <1>9 DEF ChildRead
  <2> HIDE DEF q, p
  <2>5. chan' \in Seq(Seq(Nat)) /\ Len(chan') = Len(chan)
    BY <1>1, <2>2, <2>3, <2>4
  <2> QED
    BY <1>1, <1>3, <1>9, <2>1, <2>4, <2>5 DEF TypeOK
<1>10. CASE ChildExit(k, ShellWrites) /\ UNCHANGED shellVars
  BY <1>4, <1>10 DEF ChildExit
<1> QED
  BY <1>6, <1>7, <1>8, <1>9, <1>10 DEF Child, ChildStep
-----------------------------------------------------------------------------
(* The invariant is inductive.                                             *)

\* The invariant holds when main starts, before the first line is read.
LEMMA InitIInv == Init => IInv
<1> SUFFICES ASSUME Init PROVE IInv
  OBVIOUS
<1>1. numpipe_table = <<>> /\ job = <<>> /\ proc = <<>> /\ chan = <<>> /\ line = <<>>
  BY DEF Init, KernelInit
<1>2. Free \in Obj
  BY DEF Free, Obj
<1>3. TypeOK
  <2>1. /\ numpipe_table \in Seq(Entry) /\ job \in Seq(Job) /\ proc \in Seq(Proc)
        /\ chan \in Seq(Seq(Nat)) /\ Len(job) = 0 /\ Len(proc) = 0 /\ Len(chan) = 0
        /\ Len(line) = 0
    BY <1>1, EmptySeq
  <2>2. fds \in [Fd -> Obj]
    BY <1>2 DEF Init
  <2>3. pos \in 0 .. Len(line) /\ fg \in 0 .. Len(job) /\ Len(job) = cmd_no - 1
    BY <2>1 DEF Init
  <2>4. line \in Lines \cup {<<>>}
    BY <1>1
  <2>5. cmd_no \in Nat \ {0} /\ npipe \in Nat /\ npipe = 0
    BY DEF Init
  <2>6. up \in BOOLEAN /\ sigchld \in BOOLEAN /\ input \in {"more", "drained"}
    BY DEF Init, KernelInit
  <2>7. zombies \subseteq Nat
    BY DEF Init, KernelInit
  <2> QED
    BY <2>1, <2>2, <2>3, <2>4, <2>5, <2>6, <2>7 DEF TypeOK
<1>4. TableInv
  BY <1>1 DEF TableInv, UniqueTargets, PendingEnds, PendingApart, Pending
<1>5. FeedInv
  BY <1>1 DEF FeedInv, StreamsAsked, PendingFed, StartedFed, BuiltinSilent
<1> QED
  BY <1>3, <1>4, <1>5 DEF IInv, TableInv, FeedInv

\* Every step of the shell, of a child or of the kernel keeps the invariant.
LEMMA NextIInv == IInv /\ [Next]_vars => IInv'
<1> SUFFICES ASSUME IInv, [Next]_vars PROVE TypeOK' /\ TableInv' /\ FeedInv'
  BY DEF IInv, TableInv, FeedInv
<1>1. CASE RunCommand
  <2>1. PICK p \in Nat : Shape(p)
    BY <1>1, RunKeeps
  <2> QED
    BY <1>1, <2>1, RunKeeps, ShapeFeeds
<1>2. CASE RunSetenv
  BY <1>2, SetenvKeeps
<1>3. CASE RunExit
  BY <1>3, ExitKeeps
<1>4. CASE User \/ ReadAgain \/ WaitReturns \/ childHandler
  BY <1>4, OtherTypes, Unchanged DEF IInv
<1>5. CASE \E k \in DOMAIN proc : Child(k)
  BY <1>5, ChildTypes, Unchanged
<1>6. CASE UNCHANGED vars
  <2>1. TypeOK'
    BY <1>6 DEF IInv, TypeOK, vars, shellVars, kernelVars
  <2>2. UNCHANGED pipeVars
    BY <1>6 DEF vars, shellVars, kernelVars, pipeVars
  <2> QED
    BY <2>1, <2>2, Unchanged
<1> QED
  BY <1>1, <1>2, <1>3, <1>4, <1>5, <1>6 DEF Next, Shell

\* The inductive invariant holds in every state of npshell, whatever the
\* lines it is given and whatever the size of a pipe.
THEOREM Invariance == Safety => []IInv
<1> QED
  BY InitIInv, NextIInv, PTL DEF Safety

\* Every variable keeps its type in npshell.cpp's model, the two sequences that
\* describe the children have one element for each command, and chan one for
\* each pipe.
THEOREM TypeCorrect == Safety => []TypeOK
<1>1. IInv => TypeOK
  BY DEF IInv
<1> QED
  BY <1>1, Invariance, PTL

-----------------------------------------------------------------------------
(* Refinement of NumPipe.                                                  *)

\* A sequence is Append(R, x) if it continues R with x.
LEMMA AppendExtension ==
    ASSUME NEW S, NEW R \in Seq(S), NEW x \in S, NEW F \in Seq(S),
           Len(F) = Len(R) + 1,
           \A i \in 1 .. Len(R) : F[i] = R[i], F[Len(R) + 1] = x
    PROVE  F = Append(R, x)
<1>1. Append(R, x) \in Seq(S) /\ Len(Append(R, x)) = Len(R) + 1
  OBVIOUS
<1>2. \A i \in 1 .. Len(F) : F[i] = Append(R, x)[i]
  OBVIOUS
<1> QED
  BY <1>1, <1>2, SeqEqual

RouteBar == [k \in DOMAIN job |-> job[k].dest]
FeedBar == [k \in DOMAIN job |-> FeedOf(k)]

Route == [out : Nat, err : Nat]
Feed == SUBSET (Nat \X {"out", "err"})

\* The state of NumPipe, as npshell's state stands for it, has its types.
LEMMA BarTypes ==
    ASSUME TypeOK
    PROVE  /\ RouteBar \in Seq(Route) /\ FeedBar \in Seq(Feed)
           /\ Len(RouteBar) = Len(job) /\ Len(FeedBar) = Len(job)
           /\ \A i \in 1 .. Len(job) : RouteBar[i] = job[i].dest /\ FeedBar[i] = FeedOf(i)
<1>1. DOMAIN job = 1 .. Len(job) /\ Len(job) \in Nat /\ \A k \in DOMAIN job : job[k] \in Job
  BY DEF TypeOK
<1>2. \A k \in DOMAIN job : job[k].dest \in Route /\ FeedOf(k) \in Feed
  BY <1>1 DEF Job, Route, FeedOf, Feed
<1> QED
  BY <1>1, <1>2 DEF RouteBar, FeedBar

\* A stream feeds command k if it was sent to k, and only then; for a command
\* that has started this does not change any more.
LEMMA FeedIsSent ==
    ASSUME IInv, NEW k \in DOMAIN job, job[k].prog # "builtin"
    PROVE  FeedOf(k) = {src \in (DOMAIN job) \X {"out", "err"} :
                            job[src[1]].dest[src[2]] = k}
<1>1. ASSUME NEW i \in DOMAIN job
      PROVE  /\ (job[k].stdin # 0 /\ job[i].stdout = job[k].stdin) <=> job[i].dest.out = k
             /\ (job[k].stdin # 0 /\ job[i].stderr = job[k].stdin) <=> job[i].dest.err = k
  <2>1. (job[k].stdin # 0 /\ job[i].stdout = job[k].stdin) <=> job[i].dest.out = k
    BY <1>1 DEF IInv, StartedFed
  <2>2. /\ job[i].stderr \in {0, job[i].stdout} /\ job[i].dest.err \in {0, job[i].dest.out}
        /\ job[i].stderr = 0 <=> job[i].dest.err = 0
    BY <1>1 DEF IInv, StreamsAsked
  <2>3. k # 0
    BY DEF IInv, TypeOK
  <2> QED
    BY <2>1, <2>2, <2>3
<1>2. ASSUME NEW src \in (DOMAIN job) \X {"out", "err"}
      PROVE  (job[k].stdin # Terminal /\ PipeOf(src) = job[k].stdin)
             <=> job[src[1]].dest[src[2]] = k
  <2>1. src[1] \in DOMAIN job /\ job[src[1]] \in Job
    BY DEF IInv, TypeOK
  <2>2. CASE src[2] = "out"
    BY <2>1, <2>2, <1>1 DEF PipeOf, Terminal, Job
  <2>3. CASE src[2] = "err"
    BY <2>1, <2>3, <1>1 DEF PipeOf, Terminal, Job
  <2> QED
    BY <2>2, <2>3
<1> QED
  BY <1>2 DEF FeedOf

\* Nothing is sent to a builtin: setenv and printenv read no pipe.
LEMMA BuiltinUnfed ==
    ASSUME IInv, NEW k \in DOMAIN job, job[k].prog = "builtin"
    PROVE  FeedOf(k) = {}
BY DEF IInv, BuiltinSilent, FeedOf, Terminal

\* The last two as one formula, to be used of the next state.
FeedFacts ==
    \A k \in DOMAIN job :
        /\ job[k].prog = "builtin" => FeedOf(k) = {}
        /\ job[k].prog # "builtin" =>
              FeedOf(k) = {src \in (DOMAIN job) \X {"out", "err"} :
                               job[src[1]].dest[src[2]] = k}

\* What the refinement uses of the routes holds under the invariant.
LEMMA FeedFactsHold == IInv => FeedFacts
BY FeedIsSent, BuiltinUnfed DEF FeedFacts

\* A step that numbers one more command J, none of whose streams go to a
\* command that has started, leaves every earlier command its feed.
LEMMA FeedsStay ==
    ASSUME IInv, IInv', NEW J \in Job, job' = Append(job, J),
           J.dest.out = 0 \/ J.dest.out > Len(job), NEW k \in DOMAIN job
    PROVE  FeedOf(k)' = FeedOf(k)
<1> DEFINE n == Len(job) + 1
<1>1. /\ DOMAIN job = 1 .. (n - 1) /\ DOMAIN job' = 1 .. n /\ n \in Nat \ {0}
      /\ \A i \in 1 .. (n - 1) : job'[i] = job[i] /\ job[i] \in Job
      /\ job'[n] = J /\ k \in DOMAIN job'
  BY DEF IInv, TypeOK
<1>2. J.dest.err \in {0, J.dest.out}
  BY <1>1 DEF IInv, StreamsAsked
<1>3. CASE job[k].prog = "builtin"
  <2>1. FeedOf(k) = {}
    BY <1>3, BuiltinUnfed
  <2>2. job'[k].stdin = 0
    BY <1>1, <1>3 DEF IInv, BuiltinSilent
  <2> QED
    BY <2>1, <2>2 DEF FeedOf, Terminal
<1>4. CASE job[k].prog # "builtin"
  <2>1. FeedOf(k) = {src \in (DOMAIN job) \X {"out", "err"} :
                         job[src[1]].dest[src[2]] = k}
    BY <1>4, FeedIsSent
  <2>2. FeedFacts'
    BY FeedFactsHold, PTL
  <2>3. FeedOf(k)' = {src \in (DOMAIN job') \X {"out", "err"} :
                          job'[src[1]].dest[src[2]] = k}
    BY <1>1, <1>4, <2>2 DEF FeedFacts
  <2>4. J.dest["out"] # k /\ J.dest["err"] # k
    BY <1>1, <1>2 DEF Job
  <2>5. ASSUME NEW src \in (1 .. n) \X {"out", "err"}, job'[src[1]].dest[src[2]] = k
        PROVE  src \in (1 .. (n - 1)) \X {"out", "err"} /\ job[src[1]].dest[src[2]] = k
    BY <1>1, <2>4, <2>5
  <2>6. ASSUME NEW src \in (1 .. (n - 1)) \X {"out", "err"}, job[src[1]].dest[src[2]] = k
        PROVE  src \in (1 .. n) \X {"out", "err"} /\ job'[src[1]].dest[src[2]] = k
    BY <1>1, <2>6
  <2> QED
    BY <1>1, <2>1, <2>3, <2>5, <2>6
<1> QED
  BY <1>3, <1>4
\* The numbers that a command may ask for are those of NumPipe's Number.
LEMMA DestBound ==
    ASSUME TypeOK, Running
    PROVE  Dest \in 0 .. (MaxCmd + MaxNum)
<1>1. cmd \in Command /\ cmd_no \in Nat \ {0} /\ cmd_no <= MaxCmd
  BY CmdFacts DEF TypeOK, Running
<1>2. cmd.num \in 1 .. MaxNum
  BY <1>1 DEF Command
<1> QED
  BY <1>1, <1>2, ShellAssumption DEF Dest

\* The command that starts with this step feeds on what was sent to its number.
LEMMA NewFeed ==
    ASSUME IInv, IInv', NEW J \in Job, job' = Append(job, J), J.prog # "builtin",
           J.dest.out = 0 \/ J.dest.out > Len(job) + 1,
           NEW n \in Nat, n = Len(job) + 1
    PROVE  FeedOf(n)' = NP!SentTo(n)
<1>1. /\ DOMAIN job = 1 .. (n - 1) /\ DOMAIN job' = 1 .. n
      /\ \A i \in 1 .. (n - 1) : job'[i] = job[i] /\ job[i] \in Job
      /\ job'[n] = J /\ n \in DOMAIN job'
  BY DEF IInv, TypeOK
<1>2. J.dest.err \in {0, J.dest.out}
  BY <1>1 DEF IInv, StreamsAsked
<1>3. FeedFacts'
  BY FeedFactsHold, PTL
<1>4. FeedOf(n)' = {src \in (1 .. n) \X {"out", "err"} : job'[src[1]].dest[src[2]] = n}
  BY <1>1, <1>3 DEF FeedFacts
<1>5. NP!SentTo(n) = {src \in (1 .. (n - 1)) \X {"out", "err"} : job[src[1]].dest[src[2]] = n}
  BY <1>1 DEF NP!SentTo, NP!Stream
<1>6. J.dest["out"] # n /\ J.dest["err"] # n
  BY <1>2 DEF Job
<1>7. ASSUME NEW src \in (1 .. n) \X {"out", "err"}, job'[src[1]].dest[src[2]] = n
      PROVE  src \in (1 .. (n - 1)) \X {"out", "err"} /\ job[src[1]].dest[src[2]] = n
  BY <1>1, <1>6, <1>7
<1>8. ASSUME NEW src \in (1 .. (n - 1)) \X {"out", "err"}, job[src[1]].dest[src[2]] = n
      PROVE  src \in (1 .. n) \X {"out", "err"} /\ job'[src[1]].dest[src[2]] = n
  BY <1>1, <1>8
<1> QED
  BY <1>4, <1>5, <1>7, <1>8

\* One more command J appends to both sequences of NumPipe.
LEMMA BarsGrow ==
    ASSUME IInv, IInv', NEW J \in Job, job' = Append(job, J),
           J.dest.out = 0 \/ J.dest.out > Len(job) + 1,
           NEW F \in Feed, NEW n \in Nat, n = Len(job) + 1, FeedOf(n)' = F
    PROVE  RouteBar' = Append(RouteBar, J.dest) /\ FeedBar' = Append(FeedBar, F)
<1>1. TypeOK /\ TypeOK'
  BY DEF IInv
<1>9. job \in Seq(Job) /\ Len(job) \in Nat
  BY <1>1 DEF TypeOK
<1>2. /\ RouteBar \in Seq(Route) /\ FeedBar \in Seq(Feed)
      /\ Len(RouteBar) = Len(job) /\ Len(FeedBar) = Len(job)
      /\ \A i \in 1 .. Len(job) : RouteBar[i] = job[i].dest /\ FeedBar[i] = FeedOf(i)
  BY <1>1, BarTypes
<1>3. (TypeOK => /\ RouteBar \in Seq(Route) /\ FeedBar \in Seq(Feed)
                 /\ Len(RouteBar) = Len(job) /\ Len(FeedBar) = Len(job)
                 /\ \A i \in 1 .. Len(job) : RouteBar[i] = job[i].dest /\ FeedBar[i] = FeedOf(i))'
  BY BarTypes, PTL
<1>4. /\ RouteBar' \in Seq(Route) /\ FeedBar' \in Seq(Feed)
      /\ Len(RouteBar') = n /\ Len(FeedBar') = n
      /\ \A i \in 1 .. n : RouteBar'[i] = job'[i].dest /\ FeedBar'[i] = FeedOf(i)'
  <2>1. Len(job') = n
    BY <1>9
  <2> QED
    BY <1>1, <1>3, <2>1
<1>5. /\ job \in Seq(Job) /\ DOMAIN job = 1 .. (n - 1)
      /\ \A i \in 1 .. (n - 1) : job'[i] = job[i]
      /\ job'[n] = J /\ J.dest \in Route
  BY <1>9 DEF Job, Route
<1>6. \A i \in 1 .. (n - 1) : FeedOf(i)' = FeedOf(i)
  <2> SUFFICES ASSUME NEW i \in DOMAIN job PROVE FeedOf(i)' = FeedOf(i)
    BY <1>5
  <2>1. J.dest.out = 0 \/ J.dest.out > Len(job)
    BY <1>9 DEF Job
  <2> QED
    BY <2>1, FeedsStay
<1>7. RouteBar' = Append(RouteBar, J.dest)
  <2>1. Len(RouteBar') = Len(RouteBar) + 1
    BY <1>2, <1>4
  <2>2. \A i \in 1 .. Len(RouteBar) : RouteBar'[i] = RouteBar[i]
    BY <1>2, <1>4, <1>5
  <2>3. RouteBar'[Len(RouteBar) + 1] = J.dest
    BY <1>2, <1>4, <1>5
  <2> QED
    BY <1>2, <1>4, <1>5, <2>1, <2>2, <2>3, AppendExtension
<1>8. FeedBar' = Append(FeedBar, F)
  <2>1. Len(FeedBar') = Len(FeedBar) + 1
    BY <1>2, <1>4
  <2>2. \A i \in 1 .. Len(FeedBar) : FeedBar'[i] = FeedBar[i]
    BY <1>2, <1>4, <1>6
  <2>3. FeedBar'[Len(FeedBar) + 1] = F
    BY <1>2, <1>4
  <2> QED
    BY <1>2, <1>4, <2>1, <2>2, <2>3, AppendExtension
<1> QED
  BY <1>7, <1>8

\* Running a command with the pipes it takes and makes (npshell.cpp, loop)
\* is one step of NumPipe: it takes what is due to it and sends what it writes.
LEMMA RunRefines ==
    ASSUME IInv, IInv', RunCommand
    PROVE  NP!Next
<1>1. PICK p \in Nat : Shape(p)
  BY RunKeeps
<1>2. PICK J \in Job : job' = Append(job, J) /\ J.prog # "builtin" /\ J.dest = Asked
  BY <1>1 DEF Shape
<1>3. /\ Asked \in [out : Nat, err : Nat] /\ Asked.err \in {0, Asked.out}
      /\ (Asked.out # 0 => Asked.out > cmd_no) /\ TypeOK /\ cmd_no = Len(job) + 1
  BY <1>1 DEF Shape, IInv, TypeOK
<1>4. Asked.out \in 0 .. (MaxCmd + MaxNum)
  BY <1>3, DestBound, CmdFacts
     DEF RunCommand, RunPlain, RunToFile, RunIntoPipe, RunIntoNewPipe, Runs
<1>5. PICK n \in Nat : n = Len(job) + 1
  BY <1>3 DEF TypeOK
<1>6. FeedOf(n)' = NP!SentTo(n)
  BY <1>2, <1>3, <1>5, NewFeed
<1>7. NP!SentTo(n) \in Feed
  <2>1. DOMAIN job \subseteq Nat
    BY <1>3 DEF TypeOK
  <2> QED
    BY <2>1 DEF NP!SentTo, NP!Stream, Feed
<1>8. RouteBar' = Append(RouteBar, Asked) /\ FeedBar' = Append(FeedBar, NP!SentTo(n))
  BY <1>2, <1>3, <1>5, <1>6, <1>7, BarsGrow
<1>9. Len(RouteBar) + 1 = n
  BY <1>3, <1>5, BarTypes
<1>10. PICK both \in BOOLEAN :
           Asked = [out |-> Asked.out, err |-> IF both THEN Asked.out ELSE 0]
  <2>1. CASE Asked.err = Asked.out
    <3>1. Asked = [out |-> Asked.out, err |-> IF TRUE THEN Asked.out ELSE 0]
      BY <1>3, <2>1
    <3> QED
      BY <3>1
  <2>2. CASE Asked.err = 0
    <3>1. Asked = [out |-> Asked.out, err |-> IF FALSE THEN Asked.out ELSE 0]
      BY <1>3, <2>2
    <3> QED
      BY <3>1
  <2> QED
    BY <1>3, <2>1, <2>2
<1>11. NP!Start(Asked.out, both)
  <2>1. Asked.out \in 1 .. (MaxCmd + MaxNum) => Asked.out > Len(RouteBar) + 1
    BY <1>3, <1>5, <1>9
  <2>2. RouteBar' = Append(RouteBar, [out |-> Asked.out, err |-> IF both THEN Asked.out ELSE 0])
    BY <1>8, <1>10
  <2>3. FeedBar' = Append(FeedBar, NP!SentTo(Len(RouteBar) + 1))
    BY <1>8, <1>9
  <2> QED
    BY <2>1, <2>2, <2>3 DEF NP!Start, NP!Screen, RouteBar, FeedBar
<1>12. Asked.out \in (1 .. (MaxCmd + MaxNum)) \cup {NP!Screen}
  BY <1>4, ShellAssumption DEF NP!Screen
<1> QED
  BY <1>11, <1>12 DEF NP!Next

\* A setenv takes a number as a command does and makes no pipe (npshell.cpp):
\* it is a step of NumPipe that sends nothing.
LEMMA SetenvRefines ==
    ASSUME IInv, IInv', RunSetenv
    PROVE  NP!Next
<1> DEFINE J == [prog |-> "builtin", stdin |-> Terminal, stdout |-> Terminal,
                 stderr |-> Terminal, dest |-> [out |-> 0, err |-> 0]]
<1>1. job' = Append(job, J) /\ J \in Job /\ J.prog = "builtin"
      /\ J.dest = [out |-> 0, err |-> 0]
  BY DEF RunSetenv, NoFork, Job, Terminal
<1>8. job \in Seq(Job) /\ Len(job) \in Nat
  BY DEF IInv, TypeOK
<1> HIDE DEF J
<1>2. PICK n \in Nat : n = Len(job) + 1
  BY <1>8
<1>3. FeedOf(n)' = {}
  <2>1. n \in DOMAIN job' /\ job'[n] = J
    BY <1>1, <1>2, <1>8
  <2>2. FeedFacts'
    BY FeedFactsHold, PTL
  <2> QED
    BY <1>1, <2>1, <2>2 DEF FeedFacts
<1>4. {} \in Feed
  BY DEF Feed
<1>5. RouteBar' = Append(RouteBar, [out |-> 0, err |-> 0]) /\ FeedBar' = Append(FeedBar, {})
  <2>1. J.dest.out = 0
    BY <1>1
  <2> QED
    BY <1>1, <1>2, <1>3, <1>4, <2>1, BarsGrow
<1>6. NP!Unrouted = [out |-> 0, err |-> 0]
  BY DEF NP!Unrouted, NP!Stream, NP!Screen
<1>7. NP!Skip
  BY <1>5, <1>6 DEF NP!Skip, RouteBar, FeedBar
<1> QED
  BY <1>7 DEF NP!Next

\* Every step of npshell is a step of NumPipe or leaves its state alone.
LEMMA StepRefines == IInv /\ IInv' /\ [Next]_vars => [NP!Next]_(NP!vars)
<1> SUFFICES ASSUME IInv, IInv', [Next]_vars PROVE NP!Next \/ UNCHANGED NP!vars
  OBVIOUS
<1>1. CASE RunCommand
  BY <1>1, RunRefines
<1>2. CASE RunSetenv
  BY <1>2, SetenvRefines
<1>3. ASSUME job' = job PROVE UNCHANGED NP!vars
  BY <1>3 DEF NP!vars, FeedOf, PipeOf
<1>4. CASE User \/ ReadAgain \/ WaitReturns \/ childHandler
  BY <1>3, <1>4, OtherTypes DEF IInv, pipeVars
<1>5. CASE \E k \in DOMAIN proc : Child(k)
  BY <1>3, <1>5, ChildTypes DEF pipeVars
<1>6. CASE RunExit \/ UNCHANGED vars
  BY <1>3, <1>6 DEF RunExit, vars, kernelVars
<1> QED
  BY <1>1, <1>2, <1>4, <1>5, <1>6 DEF Next, Shell

\* The shell with its descriptors and its never erased table implements numbered
\* pipes, for every set of lines, every N and every number of commands.
THEOREM Refinement == Safety => NumPipeImplemented
<1>1. Init => NP!Init
  BY DEF Init, KernelInit, NP!Init
<1> QED
  BY <1>1, StepRefines, Invariance, PTL DEF Safety, NumPipeImplemented, NP!Spec

-----------------------------------------------------------------------------
(***************************************************************************)
(* The descriptor table is exact.                                          *)
(*                                                                         *)
(* The invariant above speaks of pending entries.  Descriptors are also    *)
(* held for entries whose target was a built-in, which nothing ever closes;*)
(* so the argument is made again for all the entries in Holding, and the   *)
(* only one that a command takes away is the one whose target it is.       *)
(***************************************************************************)

\* No command has the number 0, so no entry was made for it.
TargetsCounted == \A j \in DOMAIN numpipe_table : Target(j) # 0

FdInv == IInv /\ TargetsCounted /\ DescriptorsAccounted

\* The two descriptors of an entry.
FdsOf(j) == {numpipe_table[j].in_fd, numpipe_table[j].out_fd}

\* The entries held that are not for the command about to start.
Kept == {j \in Holding : Target(j) # cmd_no}

\* They stay, and their descriptors with them.
KeptStay ==
    \A j \in Kept : /\ j \in DOMAIN numpipe_table'
                    /\ numpipe_table'[j] = numpipe_table[j]
                    /\ \A f \in FdsOf(j) : fds'[f] = fds[f]

\* The three parts of DescriptorsAccounted.
EndsOfOne ==
    \A j \in Holding : /\ fds[numpipe_table[j].in_fd].kind = "rd"
                       /\ fds[numpipe_table[j].out_fd].kind = "wr"
                       /\ fds[numpipe_table[j].in_fd].pipe = fds[numpipe_table[j].out_fd].pipe
Apart == \A i, j \in Holding : i # j => FdsOf(i) \cap FdsOf(j) = {}
NoneForgotten ==
    \A f \in Fd : fds[f].kind \in {"rd", "wr"} => \E j \in Holding : f \in FdsOf(j)

\* They are all of it.
LEMMA AccountedParts ==
    DescriptorsAccounted <=> (up => EndsOfOne /\ Apart /\ NoneForgotten)
BY DEF DescriptorsAccounted, EndsOfOne, Apart, NoneForgotten, FdsOf

-----------------------------------------------------------------------------
(* One command: what it closes, and what it leaves.                        *)

\* When a command starts, the entries still held are those that are not for it.
LEMMA HeldAfter ==
    ASSUME FdInv, NEW J \in Job, J.prog # "builtin",
           job' = Append(job, J), cmd_no' = cmd_no + 1,
           NEW j \in DOMAIN numpipe_table, numpipe_table'[j] = numpipe_table[j],
           j \in DOMAIN numpipe_table'
    PROVE  j \in Holding' <=> j \in Kept
<1> DEFINE t == numpipe_table[j].target_cmd_num
<1>1. /\ cmd_no \in Nat \ {0} /\ job \in Seq(Job) /\ Len(job) = cmd_no - 1
      /\ t \in Nat \ {0} /\ Target(j) = t
  BY EntryTypes DEF FdInv, IInv, TypeOK, TargetsCounted, Target
<1>2. j \in Holding' <=> (t >= cmd_no' \/ job'[t].prog = "builtin")
  BY DEF Holding
<1>3. j \in Holding <=> (t >= cmd_no \/ job[t].prog = "builtin")
  BY DEF Holding
<1> HIDE DEF t
<1>4. CASE t > cmd_no
  BY <1>1, <1>2, <1>3, <1>4 DEF Kept
<1>5. CASE t = cmd_no
  <2>1. job'[t] = J
    BY <1>1, <1>5
  <2> QED
    BY <1>1, <1>2, <1>5, <2>1 DEF Kept
<1>6. CASE t < cmd_no
  <2>1. job'[t] = job[t]
    BY <1>1, <1>6
  <2> QED
    BY <1>1, <1>2, <1>3, <1>6, <2>1 DEF Kept
<1> QED
  BY <1>1, <1>4, <1>5, <1>6

\* What is closed is the two descriptors of the entry for the command, and no
\* other; open is what the step has opened in between, in free places.
LEMMA KeptEnds ==
    ASSUME FdInv, up, NEW open \in [Fd -> Obj],
           \A f \in Fd : FdsAfterTarget[f] # Free => open[f] = FdsAfterTarget[f]
    PROVE  /\ \A j \in Kept : \A f \in FdsOf(j) :
                 /\ f \in Fd /\ FdsAfterTarget[f] = fds[f] /\ fds[f] # Free
                 /\ FdsAfterFork(open)[f] = fds[f]
           /\ \A f \in Fd :
                 FdsAfterTarget[f] # Free /\ FdsAfterFork(open)[f].kind \in {"rd", "wr"} =>
                     \E j \in Kept : f \in FdsOf(j)
<1>1. /\ fds \in [Fd -> Obj] /\ TypeOK /\ UniqueTargets /\ Free \in Obj
      /\ EndsOfOne /\ Apart /\ NoneForgotten /\ cmd_no \in Nat \ {0}
  BY AccountedParts DEF FdInv, IInv, TypeOK, Free, Obj
<1>2. \A j \in Holding : /\ j \in DOMAIN numpipe_table
                         /\ numpipe_table[j].in_fd \in Fd /\ numpipe_table[j].out_fd \in Fd
  BY <1>1, EntryTypes DEF Holding
<1>3. \A j \in Holding : \A f \in FdsOf(j) : f \in Fd /\ fds[f] # Free
  BY <1>1, <1>2 DEF EndsOfOne, FdsOf, Free
<1>4. CASE EntryFor(cmd_no) = {}
  <2>1. FdsAfterTarget = fds /\ FdsAfterFork(open) = open
    BY <1>4 DEF FdsAfterTarget, FdsAfterFork
  <2>2. Kept = Holding
    BY <1>4 DEF Kept, Holding, EntryFor, Target
  <2> QED
    BY <1>1, <1>3, <2>1, <2>2 DEF NoneForgotten
<1>5. CASE EntryFor(cmd_no) # {}
  <2>1. PICK t \in DOMAIN numpipe_table :
            Target(t) = cmd_no /\ First(cmd_no) = numpipe_table[t]
    BY <1>5, <1>1, Lookup
  <2>2. t \in Holding /\ Kept = Holding \ {t}
    BY <1>1, <2>1 DEF Holding, Kept, Target, UniqueTargets
  <2> DEFINE r == numpipe_table[t].in_fd
             w == numpipe_table[t].out_fd
  <2>3. /\ r \in Fd /\ w \in Fd /\ r # w /\ FdsOf(t) = {r, w}
        /\ fds[r] # Free
        /\ FdsAfterTarget = [fds EXCEPT ![w] = Free]
        /\ FdsAfterFork(open) = [open EXCEPT ![r] = Free]
    BY <1>1, <1>2, <1>3, <1>5, <2>1, <2>2
       DEF FdsAfterTarget, FdsAfterFork, Closed, EndsOfOne, FdsOf
  <2>4. \A j \in Kept : r \notin FdsOf(j) /\ w \notin FdsOf(j)
    BY <1>1, <2>2, <2>3 DEF Apart
  <2> HIDE DEF r, w
  <2>5. ASSUME NEW j \in Kept, NEW f \in FdsOf(j)
        PROVE  /\ f \in Fd /\ FdsAfterTarget[f] = fds[f] /\ fds[f] # Free
               /\ FdsAfterFork(open)[f] = fds[f]
    <3>1. f \in Fd /\ fds[f] # Free /\ f # r /\ f # w
      BY <1>3, <2>2, <2>4
    <3>2. FdsAfterTarget[f] = fds[f]
      BY <1>1, <2>3, <3>1
    <3> QED
      BY <2>3, <3>1, <3>2
  <2>6. ASSUME NEW f \in Fd, FdsAfterTarget[f] # Free,
               FdsAfterFork(open)[f].kind \in {"rd", "wr"}
        PROVE  \E j \in Kept : f \in FdsOf(j)
    <3>1. f # w /\ FdsAfterTarget[f] = fds[f]
      BY <1>1, <2>3, <2>6
    <3>2. f # r
      BY <2>3, <2>6 DEF Free
    <3>3. fds[f].kind \in {"rd", "wr"}
      BY <2>3, <2>6, <3>1, <3>2
    <3>4. PICK j \in Holding : f \in FdsOf(j)
      BY <1>1, <3>3 DEF NoneForgotten
    <3> QED
      BY <2>2, <2>3, <3>1, <3>2, <3>4
  <2> QED
    BY <2>5, <2>6
<1> QED
  BY <1>4, <1>5

\* The child's record, as far as it matters here.
LEMMA Started ==
    ASSUME IInv, Runs, NEW p \in Nat, NEW open \in [Fd -> Obj], Launch(p, open),
           p = 0 <=> Dest = 0
    PROVE  /\ up /\ up' /\ cmd_no' = cmd_no + 1 /\ fds' = FdsAfterFork(open)
           /\ \E J \in Job : J.prog # "builtin" /\ job' = Append(job, J)
BY LaunchJob DEF Launch

\* No new entry: open has no pipe end that was not there.
LEMMA AccountedWithout ==
    ASSUME FdInv, Runs, NEW p \in Nat, NEW open \in [Fd -> Obj], Launch(p, open),
           p = 0 <=> Dest = 0,
           \A f \in Fd : FdsAfterTarget[f] # Free => open[f] = FdsAfterTarget[f],
           \A f \in Fd : FdsAfterTarget[f] = Free => open[f].kind \notin {"rd", "wr"},
           UNCHANGED numpipe_table
    PROVE  TargetsCounted' /\ DescriptorsAccounted' /\ KeptStay
<1>1. IInv /\ up /\ fds' = FdsAfterFork(open)
  BY Started DEF FdInv
<1>2. TargetsCounted'
  BY DEF FdInv, TargetsCounted, Target
<1>3. Holding' = Kept
  <2>1. PICK J \in Job : J.prog # "builtin" /\ job' = Append(job, J)
    BY <1>1, Started
  <2>2. \A j \in DOMAIN numpipe_table : j \in Holding' <=> j \in Kept
    BY <1>1, <2>1, Started, HeldAfter
  <2> QED
    BY <2>2 DEF Holding, Kept
<1>4. /\ \A j \in Kept : j \in Holding /\ FdsOf(j)' = FdsOf(j)
      /\ EndsOfOne /\ Apart
  BY <1>1, AccountedParts DEF Kept, FdsOf, FdInv
<1>5. \A j \in Kept : \A f \in FdsOf(j) : f \in Fd /\ fds'[f] = fds[f]
  BY <1>1, KeptEnds
<1>6. EndsOfOne'
  BY <1>3, <1>4, <1>5 DEF EndsOfOne, FdsOf
<1>7. Apart'
  BY <1>3, <1>4 DEF Apart
<1>8. NoneForgotten'
  <2> SUFFICES ASSUME NEW f \in Fd, fds'[f].kind \in {"rd", "wr"}
               PROVE  \E j \in Kept : f \in FdsOf(j)
    BY <1>3, <1>4 DEF NoneForgotten
  <2>1. FdsAfterTarget[f] # Free
    <3>1. FdsAfterTarget[f] = Free => fds'[f] = open[f]
      BY <1>1, Closing
    <3> QED
      BY <3>1
  <2> QED
    BY <1>1, <2>1, KeptEnds
<1>9. KeptStay
  BY <1>5 DEF KeptStay, Kept, Holding
<1> QED
  BY <1>2, <1>6, <1>7, <1>8, <1>9, AccountedParts, PTL

\* A new entry: its two descriptors were free, and they alone hold the new pipe.
LEMMA AccountedWith ==
    ASSUME FdInv, NEW r \in Fd, NEW w \in Fd, RunIntoNewPipe(r, w)
    PROVE  TargetsCounted' /\ DescriptorsAccounted' /\ KeptStay
<1> DEFINE p == npipe + 1
           rd == [kind |-> "rd", pipe |-> p]
           wr == [kind |-> "wr", pipe |-> p]
           open1 == [FdsAfterTarget EXCEPT ![r] = rd]
           open == [open1 EXCEPT ![w] = wr]
           E == [target_cmd_num |-> Dest, in_fd |-> r, out_fd |-> w]
<1>1. /\ IInv /\ TypeOK /\ Running /\ up /\ Runs /\ npipe \in Nat /\ cmd_no \in Nat \ {0}
      /\ numpipe_table \in Seq(Entry)
  BY DEF FdInv, IInv, Runs, Running, TypeOK, RunIntoNewPipe
<1>2. /\ Lowest(r, FdsAfterTarget) /\ Lowest(w, open1) /\ Launch(p, open)
      /\ numpipe_table' = Append(numpipe_table, E) /\ cmd.type \in PipeTypes
  BY DEF RunIntoNewPipe
<1>3. Dest \in Nat /\ Dest > cmd_no /\ Dest # 0 /\ p \in Nat /\ p # 0
  BY <1>1, <1>2, CmdFacts
<1>4. FdsAfterTarget \in [Fd -> Obj] /\ rd \in Obj /\ wr \in Obj
  BY <1>1, AfterTarget DEF Obj
<1>5. FdsAfterTarget[r] = Free /\ FdsAfterTarget[w] = Free /\ r # w
  BY <1>2, <1>4 DEF Lowest, Free
<1>6. /\ open \in [Fd -> Obj] /\ open[r] = rd /\ open[w] = wr
      /\ \A f \in Fd : FdsAfterTarget[f] # Free => open[f] = FdsAfterTarget[f]
      /\ \A f \in Fd : FdsAfterTarget[f] = Free /\ f \notin {r, w} => open[f] = Free
  BY <1>4, <1>5
<1> HIDE DEF open, open1
<1>7. fds' = FdsAfterFork(open) /\ cmd_no' = cmd_no + 1 /\ up'
  BY <1>1, <1>2, <1>3, <1>6, Started
<1>8. fds'[r] = rd /\ fds'[w] = wr
      /\ \A f \in Fd : FdsAfterTarget[f] = Free /\ f \notin {r, w} => fds'[f] = Free
  BY <1>1, <1>5, <1>6, <1>7, Closing
<1>9. PICK m \in Nat \ {0} : m = Len(numpipe_table) + 1
  BY <1>1
<1>10. /\ DOMAIN numpipe_table' = 1 .. m /\ DOMAIN numpipe_table = 1 .. (m - 1)
       /\ \A j \in 1 .. (m - 1) : numpipe_table'[j] = numpipe_table[j]
       /\ numpipe_table'[m] = E
  BY <1>1, <1>2, <1>9
<1>11. TargetsCounted'
  BY <1>3, <1>10 DEF FdInv, TargetsCounted, Target
<1>12. Holding' = Kept \cup {m} /\ m \notin Kept
  <2>1. PICK J \in Job : J.prog # "builtin" /\ job' = Append(job, J)
    BY <1>1, <1>2, <1>3, <1>6, Started
  <2>2. \A j \in 1 .. (m - 1) : j \in Holding' <=> j \in Kept
    BY <1>7, <1>10, <2>1, HeldAfter
  <2>3. m \in Holding'
    BY <1>1, <1>3, <1>7, <1>10 DEF Holding
  <2>4. Holding' \subseteq 1 .. m /\ Kept \subseteq 1 .. (m - 1)
    BY <1>10 DEF Holding, Kept
  <2>5. 1 .. m = (1 .. (m - 1)) \cup {m} /\ m \notin 1 .. (m - 1)
    BY <1>9
  <2> QED
    BY <2>2, <2>3, <2>4, <2>5
<1>13. /\ \A j \in Kept : j \in Holding /\ FdsOf(j)' = FdsOf(j) /\ j \in 1 .. (m - 1)
       /\ FdsOf(m)' = {r, w}
       /\ EndsOfOne /\ Apart
  BY <1>1, <1>10, AccountedParts DEF Kept, Holding, FdsOf, FdInv
<1>14. \A j \in Kept : \A f \in FdsOf(j) :
          f \in Fd /\ fds'[f] = fds[f] /\ FdsAfterTarget[f] # Free
  BY <1>1, <1>6, <1>7, KeptEnds
<1>15. EndsOfOne'
  <2>1. ASSUME NEW j \in Kept
        PROVE  /\ fds'[numpipe_table'[j].in_fd].kind = "rd"
               /\ fds'[numpipe_table'[j].out_fd].kind = "wr"
               /\ fds'[numpipe_table'[j].in_fd].pipe = fds'[numpipe_table'[j].out_fd].pipe
    <3>1. numpipe_table'[j] = numpipe_table[j]
      BY <1>10, <1>13
    <3> QED
      BY <1>13, <1>14, <3>1 DEF EndsOfOne, FdsOf
  <2> QED
    BY <2>1, <1>8, <1>10, <1>12 DEF EndsOfOne
<1>16. Apart'
  <2>1. \A j \in Kept : FdsOf(j) \cap {r, w} = {}
    BY <1>5, <1>14
  <2> QED
    BY <2>1, <1>12, <1>13 DEF Apart
<1>17. NoneForgotten'
  <2> SUFFICES ASSUME NEW f \in Fd, fds'[f].kind \in {"rd", "wr"}, f \notin {r, w}
               PROVE  \E j \in Kept : f \in FdsOf(j)
    BY <1>12, <1>13 DEF NoneForgotten
  <2>1. FdsAfterTarget[f] # Free
    BY <1>8 DEF Free
  <2> QED
    BY <1>1, <1>6, <1>7, <2>1, KeptEnds
<1>18. KeptStay
  BY <1>10, <1>13, <1>14 DEF KeptStay
<1> QED
  BY <1>11, <1>15, <1>16, <1>17, <1>18, AccountedParts, PTL

\* Each of the four ways to run a command keeps the account.
LEMMA RunAccounts ==
    ASSUME FdInv, RunCommand
    PROVE  TargetsCounted' /\ DescriptorsAccounted' /\ KeptStay
<1>1. IInv /\ TypeOK /\ up /\ FdsAfterTarget \in [Fd -> Obj] /\ npipe \in Nat
  BY AfterTarget DEF FdInv, IInv, TypeOK, RunCommand, RunPlain, RunToFile, RunIntoPipe,
                     RunIntoNewPipe, Runs, Running
<1>2. CASE RunPlain
  <2>1. Runs /\ cmd.type = "" /\ Running
    BY <1>2 DEF RunPlain, Runs
  <2>2. Dest = 0
    BY <2>1, <1>1, CmdFacts DEF PipeTypes, NumTypes
  <2>3. Launch(0, FdsAfterTarget) /\ UNCHANGED numpipe_table
    BY <1>2 DEF RunPlain, Terminal
  <2>4. Free.kind \notin {"rd", "wr"}
    BY DEF Free
  <2> QED
    BY <1>1, <2>1, <2>2, <2>3, <2>4, AccountedWithout
<1>3. CASE \E f \in Fd : RunToFile(f)
  <2>1. PICK f \in Fd : RunToFile(f)
    BY <1>3
  <2> DEFINE open == [FdsAfterTarget EXCEPT ![f] = [kind |-> "file", pipe |-> 0]]
  <2>2. Runs /\ cmd.type = "file_pipe" /\ Running
    BY <2>1 DEF RunToFile, Runs
  <2>3. Dest = 0
    BY <2>2, <1>1, CmdFacts DEF PipeTypes, NumTypes
  <2>4. Launch(0, open) /\ UNCHANGED numpipe_table
    BY <2>1 DEF RunToFile, Terminal
  <2>5. FdsAfterTarget[f] = Free
    BY <2>1 DEF RunToFile, Lowest
  <2>6. /\ open \in [Fd -> Obj]
        /\ \A g \in Fd : FdsAfterTarget[g] # Free => open[g] = FdsAfterTarget[g]
        /\ \A g \in Fd : FdsAfterTarget[g] = Free => open[g].kind \notin {"rd", "wr"}
    BY <1>1, <2>5 DEF Obj, Free
  <2> HIDE DEF open
  <2> QED
    BY <1>1, <2>2, <2>3, <2>4, <2>6, AccountedWithout
<1>4. CASE RunIntoPipe
  <2> DEFINE p == FdsAfterTarget[First(Dest).out_fd].pipe
  <2>1. /\ Runs /\ Running /\ cmd.type \in PipeTypes /\ EntryFor(Dest) # {}
        /\ Launch(p, FdsAfterTarget)
        /\ UNCHANGED numpipe_table
    BY <1>4 DEF RunIntoPipe, Runs
  <2>2. Dest \in Nat /\ Dest > cmd_no /\ Dest # 0 /\ cmd_no \in Nat
    BY <2>1, <1>1, CmdFacts DEF TypeOK
  <2>3. PICK j \in DOMAIN numpipe_table : Target(j) = Dest /\ First(Dest) = numpipe_table[j]
    BY <2>1, <1>1, Lookup DEF IInv
  <2>4. j \in Pending /\ Target(j) # cmd_no
    BY <2>2, <2>3 DEF Pending
  <2>5. p = OutPipe(j)
    BY <1>1, <2>3, <2>4, AfterTarget DEF OutPipe
  <2>6. OutPipe(j) \in 1 .. npipe
    BY <1>1, <2>4 DEF IInv, PendingEnds
  <2>7. p \in Nat /\ p # 0
    BY <1>1, <2>5, <2>6
  <2>8. Free.kind \notin {"rd", "wr"}
    BY DEF Free
  <2> HIDE DEF p
  <2> QED
    BY <1>1, <2>1, <2>2, <2>7, <2>8, AccountedWithout
<1>5. CASE \E r, w \in Fd : RunIntoNewPipe(r, w)
  BY <1>5, AccountedWith
<1> QED
  BY <1>2, <1>3, <1>4, <1>5 DEF RunCommand

-----------------------------------------------------------------------------
(* The other steps.                                                        *)

\* A built-in whose number is the target of an entry keeps that entry held.
LEMMA SetenvAccounts ==
    ASSUME FdInv, RunSetenv
    PROVE  TargetsCounted' /\ DescriptorsAccounted' /\ Holding' = Holding
<1> DEFINE J == [prog |-> "builtin", stdin |-> Terminal, stdout |-> Terminal,
                 stderr |-> Terminal, dest |-> [out |-> 0, err |-> 0]]
<1>1. /\ job' = Append(job, J) /\ cmd_no' = cmd_no + 1
      /\ UNCHANGED <<numpipe_table, fds, up>>
      /\ job \in Seq(Job) /\ Len(job) = cmd_no - 1 /\ cmd_no \in Nat \ {0}
  BY DEF RunSetenv, NoFork, FdInv, IInv, TypeOK
<1>2. \A j \in DOMAIN numpipe_table :
         /\ numpipe_table[j].target_cmd_num \in Nat \ {0}
         /\ Target(j) = numpipe_table[j].target_cmd_num
  BY EntryTypes DEF FdInv, IInv, TargetsCounted, Target
<1>3. J.prog = "builtin"
  OBVIOUS
<1> HIDE DEF J
<1>4. Holding' = Holding
  <2>1. ASSUME NEW j \in DOMAIN numpipe_table, NEW t \in Nat \ {0},
               numpipe_table[j].target_cmd_num = t
        PROVE  (t >= cmd_no + 1 \/ job'[t].prog = "builtin")
               <=> (t >= cmd_no \/ job[t].prog = "builtin")
    <3>1. CASE t > cmd_no
      BY <1>1, <3>1
    <3>2. CASE t = cmd_no
      BY <1>1, <1>3, <3>2
    <3>3. CASE t < cmd_no
      <4>1. job'[t] = job[t]
        BY <1>1, <3>3
      <4> QED
        BY <1>1, <3>3, <4>1
    <3> QED
      BY <1>1, <3>1, <3>2, <3>3
  <2> QED
    BY <1>1, <1>2, <2>1 DEF Holding
<1>5. EndsOfOne' <=> EndsOfOne
  BY <1>1, <1>4 DEF EndsOfOne
<1>6. Apart' <=> Apart
  BY <1>1, <1>4 DEF Apart, FdsOf
<1>7. NoneForgotten' <=> NoneForgotten
  BY <1>1, <1>4 DEF NoneForgotten, FdsOf
<1>8. TargetsCounted'
  BY <1>1 DEF FdInv, TargetsCounted, Target
<1>9. up => EndsOfOne' /\ Apart' /\ NoneForgotten'
  BY <1>5, <1>6, <1>7, AccountedParts DEF FdInv
<1>10. up' => up
  BY <1>1
<1> QED
  BY <1>4, <1>8, <1>9, <1>10, AccountedParts, PTL

\* A step that changes none of the shell's tables.
LEMMA OtherAccounts ==
    ASSUME FdInv, UNCHANGED pipeVars
    PROVE  TargetsCounted' /\ DescriptorsAccounted'
BY DEF FdInv, TargetsCounted, Target, DescriptorsAccounted, Holding, pipeVars

\* FdInv is inductive.
LEMMA InitFdInv == Init => FdInv
<1> SUFFICES ASSUME Init PROVE TargetsCounted /\ DescriptorsAccounted
  BY InitIInv DEF FdInv
<1>1. numpipe_table = <<>> /\ \A f \in Fd : fds[f] = Free
  BY DEF Init
<1> QED
  BY <1>1 DEF TargetsCounted, DescriptorsAccounted, Holding, Free

\* Every step keeps it.
LEMMA NextFdInv == FdInv /\ [Next]_vars => FdInv'
<1> SUFFICES ASSUME FdInv, [Next]_vars PROVE TargetsCounted' /\ DescriptorsAccounted'
  BY NextIInv DEF FdInv
<1>1. CASE RunCommand
  BY <1>1, RunAccounts
<1>2. CASE RunSetenv
  BY <1>2, SetenvAccounts
<1>3. CASE RunExit
  <2>1. ~up' /\ numpipe_table' = numpipe_table
    BY <1>3 DEF RunExit
  <2> QED
    BY <2>1 DEF FdInv, TargetsCounted, Target, DescriptorsAccounted
<1>4. CASE User \/ ReadAgain \/ WaitReturns \/ childHandler
  BY <1>4, OtherTypes, OtherAccounts DEF FdInv, IInv
<1>5. CASE \E k \in DOMAIN proc : Child(k)
  BY <1>5, ChildTypes, OtherAccounts DEF FdInv
<1>6. CASE UNCHANGED vars
  BY <1>6, OtherAccounts DEF vars, shellVars, kernelVars, pipeVars
<1> QED
  BY <1>1, <1>2, <1>3, <1>4, <1>5, <1>6 DEF Next, Shell

\* In every state of npshell the pipe ends it has open are those of the entries
\* it has yet to use, and of those whose target was a built-in: no descriptor is
\* closed twice, read after it was closed and given out again, or forgotten.
THEOREM DescriptorsExact == Safety => []DescriptorsAccounted
<1>1. FdInv => DescriptorsAccounted
  BY DEF FdInv
<1> QED
  BY <1>1, InitFdInv, NextFdInv, PTL DEF Safety

-----------------------------------------------------------------------------
(* SIGPIPE.                                                                *)

\* The command numbered d has not been started: it is yet to come, or is a built-in.
Unstarted(d, cmds) == d > Len(cmds) \/ cmds[d].prog = "builtin"

\* What was sent to such a command is on a pipe whose read end the shell has.
HeldFed ==
    up => \A i \in DOMAIN job : job[i].dest.out # 0 /\ Unstarted(job[i].dest.out, job) =>
              \E j \in Holding : Target(j) = job[i].dest.out /\ InPipe(j) = job[i].stdout

\* A writer that was killed wrote to a command that had been started.
KilledFed ==
    up => \A i \in DOMAIN job : proc[i].st = "killed" =>
              job[i].dest.out # 0 /\ ~Unstarted(job[i].dest.out, job)

SigInv == FdInv /\ HeldFed /\ KilledFed

\* A step that numbers one more command: the earlier ones are as they were.
LEMMA OneMore ==
    ASSUME IInv, NEW J \in Job, job' = Append(job, J), cmd_no' = cmd_no + 1
    PROVE  /\ DOMAIN job = 1 .. (cmd_no - 1) /\ DOMAIN job' = 1 .. cmd_no
           /\ cmd_no \in Nat \ {0} /\ job'[cmd_no] = J
           /\ \A i \in DOMAIN job :
                 /\ i \in Nat /\ i < cmd_no /\ job'[i] = job[i]
                 /\ job[i].dest.out \in Nat
           /\ \A d \in Nat \ {0} : d # cmd_no => (Unstarted(d, job') <=> Unstarted(d, job))
           /\ Unstarted(cmd_no, job) /\ (Unstarted(cmd_no, job') <=> J.prog = "builtin")
<1>1. job \in Seq(Job) /\ Len(job) = cmd_no - 1 /\ cmd_no \in Nat \ {0}
  BY DEF IInv, TypeOK
<1>2. \A i \in DOMAIN job : job[i] \in Job
  BY <1>1
<1>3. \A i \in DOMAIN job : job[i].dest.out \in Nat
  BY <1>2 DEF Job
<1>4. /\ DOMAIN job = 1 .. (cmd_no - 1) /\ DOMAIN job' = 1 .. cmd_no /\ job'[cmd_no] = J
      /\ \A i \in 1 .. (cmd_no - 1) : job'[i] = job[i]
  BY <1>1
<1>5. ASSUME NEW d \in Nat \ {0}, d # cmd_no PROVE Unstarted(d, job') <=> Unstarted(d, job)
  <2>1. CASE d > cmd_no
    BY <1>1, <2>1 DEF Unstarted
  <2>2. CASE d < cmd_no
    BY <1>1, <1>4, <2>2 DEF Unstarted
  <2> QED
    BY <1>1, <1>5, <2>1, <2>2
<1> QED
  BY <1>1, <1>3, <1>4, <1>5 DEF Unstarted

\* A command starts: it is no longer unstarted, and what is sent to the others stays
\* where it was.
LEMMA RunSigs ==
    ASSUME SigInv, FdInv', RunCommand
    PROVE  HeldFed' /\ KilledFed'
<1>1. /\ FdInv /\ IInv /\ KeptStay
  BY RunAccounts DEF SigInv, FdInv
<1>2. PICK p \in Nat : Shape(p)
  BY <1>1, RunKeeps
<1>3. PICK J \in Job : /\ job' = Append(job, J) /\ J.prog # "builtin"
                       /\ J.stdout = p /\ J.dest = Asked
  BY <1>2 DEF Shape
<1>4. /\ up /\ up' /\ cmd_no' = cmd_no + 1
      /\ Asked.out # 0 => Asked.out > cmd_no
      /\ p = 0 <=> Asked.out = 0
      /\ p # 0 => \E j \in Pending' : Target(j)' = Asked.out /\ OutPipe(j)' = p
  BY <1>2 DEF Shape
<1>5. /\ DOMAIN job = 1 .. (cmd_no - 1) /\ DOMAIN job' = 1 .. cmd_no
      /\ cmd_no \in Nat \ {0} /\ job'[cmd_no] = J
      /\ \A i \in DOMAIN job :
            /\ i \in Nat /\ i < cmd_no /\ job'[i] = job[i]
            /\ job[i].dest.out \in Nat
      /\ \A d \in Nat \ {0} : d # cmd_no => (Unstarted(d, job') <=> Unstarted(d, job))
      /\ ~Unstarted(cmd_no, job') /\ Unstarted(cmd_no, job)
  BY <1>1, <1>3, <1>4, OneMore
<1>6. \A i \in DOMAIN job' : i \in DOMAIN job \/ i = cmd_no
  BY <1>5
<1>7. HeldFed'
  <2> SUFFICES ASSUME NEW i \in DOMAIN job', job'[i].dest.out # 0,
                      Unstarted(job'[i].dest.out, job')
               PROVE  \E j \in Holding' : Target(j)' = job'[i].dest.out
                                          /\ InPipe(j)' = job'[i].stdout
    BY DEF HeldFed
  <2>1. CASE i \in DOMAIN job
    <3>1. /\ job'[i] = job[i] /\ job[i].dest.out \in Nat \ {0}
          /\ job[i].dest.out # cmd_no /\ Unstarted(job[i].dest.out, job)
      BY <1>5, <2>1
    <3>2. PICK j \in Holding : Target(j) = job[i].dest.out /\ InPipe(j) = job[i].stdout
      BY <1>4, <2>1, <3>1 DEF SigInv, HeldFed
    <3>3. j \in Kept /\ j \in DOMAIN numpipe_table
      BY <3>1, <3>2 DEF Kept, Holding
    <3>4. /\ numpipe_table'[j] = numpipe_table[j] /\ j \in DOMAIN numpipe_table'
          /\ fds'[numpipe_table[j].in_fd] = fds[numpipe_table[j].in_fd]
      BY <1>1, <3>3 DEF KeptStay, FdsOf
    <3>5. j \in Holding'
      BY <1>1, <1>3, <1>4, <3>3, <3>4, HeldAfter
    <3> QED
      BY <3>1, <3>2, <3>4, <3>5 DEF Target, InPipe
  <2>2. CASE i = cmd_no
    <3>1. job'[i] = J
      BY <1>5, <2>2
    <3>2. PICK j \in Pending' : Target(j)' = Asked.out /\ OutPipe(j)' = p
      BY <1>3, <1>4, <3>1
    <3>3. j \in Holding'
      BY <3>2 DEF Pending, Holding, Target
    <3>4. InPipe(j)' = OutPipe(j)'
      BY <1>4, <3>2 DEF FdInv, IInv, PendingEnds
    <3> QED
      BY <1>3, <3>1, <3>2, <3>3, <3>4
  <2> QED
    BY <1>6, <2>1, <2>2
<1>8. KilledFed'
  <2> SUFFICES ASSUME NEW i \in DOMAIN job', proc'[i].st = "killed"
               PROVE  job'[i].dest.out # 0 /\ ~Unstarted(job'[i].dest.out, job')
    BY DEF KilledFed
  <2>1. PICK prog, held : proc' = Append(proc, NewProc(prog, held))
    BY DEF RunCommand, RunPlain, RunToFile, RunIntoPipe, RunIntoNewPipe, Launch, Fork
  <2>2. proc \in Seq(Proc) /\ Len(proc) = cmd_no - 1
    BY <1>1 DEF IInv, TypeOK
  <2>3. proc'[cmd_no] = NewProc(prog, held) /\ \A k \in 1 .. (cmd_no - 1) : proc'[k] = proc[k]
    BY <1>5, <2>1, <2>2
  <2>4. i # cmd_no
    BY <2>3 DEF NewProc
  <2>5. i \in DOMAIN job /\ proc[i].st = "killed"
    BY <1>5, <1>6, <2>3, <2>4
  <2>6. job[i].dest.out # 0 /\ ~Unstarted(job[i].dest.out, job)
    BY <1>4, <2>5 DEF SigInv, KilledFed
  <2> QED
    BY <1>5, <2>5, <2>6
<1> QED
  BY <1>7, <1>8

\* A built-in takes a number: whatever was sent to it stays on its pipe.
LEMMA SetenvSigs ==
    ASSUME SigInv, RunSetenv
    PROVE  HeldFed' /\ KilledFed'
<1> DEFINE J == [prog |-> "builtin", stdin |-> Terminal, stdout |-> Terminal,
                 stderr |-> Terminal, dest |-> [out |-> 0, err |-> 0]]
           P == [st |-> "exited", held |-> {}, todo |-> 0, errs |-> 0]
<1>1. FdInv /\ IInv
  BY DEF SigInv, FdInv
<1>2. /\ job' = Append(job, J) /\ cmd_no' = cmd_no + 1 /\ proc' = Append(proc, P)
      /\ UNCHANGED <<numpipe_table, fds, up>> /\ up
  BY DEF RunSetenv, NoFork, Running
<1>3. J \in Job /\ J.prog = "builtin" /\ J.dest.out = 0 /\ P.st = "exited"
  BY DEF Job, Terminal
<1> HIDE DEF J, P
<1>4. /\ DOMAIN job = 1 .. (cmd_no - 1) /\ DOMAIN job' = 1 .. cmd_no
      /\ cmd_no \in Nat \ {0} /\ job'[cmd_no] = J
      /\ \A i \in DOMAIN job :
            /\ i \in Nat /\ i < cmd_no /\ job'[i] = job[i]
            /\ job[i].dest.out \in Nat
      /\ \A d \in Nat \ {0} : Unstarted(d, job') <=> Unstarted(d, job)
  BY <1>1, <1>2, <1>3, OneMore
<1>5. Holding' = Holding
  BY <1>1, SetenvAccounts
<1>6. \A i \in DOMAIN job' : i \in DOMAIN job \/ i = cmd_no
  BY <1>4
<1>7. HeldFed'
  <2> SUFFICES ASSUME NEW i \in DOMAIN job', job'[i].dest.out # 0,
                      Unstarted(job'[i].dest.out, job')
               PROVE  \E j \in Holding' : Target(j)' = job'[i].dest.out
                                          /\ InPipe(j)' = job'[i].stdout
    BY DEF HeldFed
  <2>1. i \in DOMAIN job
    BY <1>3, <1>4, <1>6
  <2>2. PICK j \in Holding : Target(j) = job[i].dest.out /\ InPipe(j) = job[i].stdout
    BY <1>2, <1>4, <2>1 DEF SigInv, HeldFed
  <2> QED
    BY <1>2, <1>4, <1>5, <2>1, <2>2 DEF Target, InPipe
<1>8. KilledFed'
  <2> SUFFICES ASSUME NEW i \in DOMAIN job', proc'[i].st = "killed"
               PROVE  job'[i].dest.out # 0 /\ ~Unstarted(job'[i].dest.out, job')
    BY DEF KilledFed
  <2>1. proc \in Seq(Proc) /\ Len(proc) = cmd_no - 1
    BY <1>1 DEF IInv, TypeOK
  <2>2. proc'[cmd_no] = P /\ \A k \in 1 .. (cmd_no - 1) : proc'[k] = proc[k]
    BY <1>2, <1>4, <2>1
  <2>3. i \in DOMAIN job /\ proc[i].st = "killed"
    BY <1>3, <1>4, <1>6, <2>2
  <2>4. job[i].dest.out # 0 /\ ~Unstarted(job[i].dest.out, job)
    BY <1>2, <2>3 DEF SigInv, KilledFed
  <2> QED
    BY <1>4, <2>3, <2>4
<1> QED
  BY <1>7, <1>8

\* A step of a child: it is killed only when it writes to a pipe that the shell cannot
\* read, so not to one that the shell holds for an unstarted command.
LEMMA ChildSigs ==
    ASSUME SigInv, NEW k \in DOMAIN proc, Child(k)
    PROVE  HeldFed' /\ KilledFed'
<1>1. FdInv /\ IInv /\ TypeOK
  BY DEF SigInv, FdInv, IInv
<1>2. UNCHANGED pipeVars
  BY <1>1, ChildTypes
<1>3. HeldFed'
  BY <1>2 DEF SigInv, HeldFed, Holding, Unstarted, Target, InPipe, pipeVars
<1>4. /\ proc \in Seq(Proc) /\ k \in 1 .. Len(proc) /\ DOMAIN proc = DOMAIN job
      /\ proc[k] \in Proc
  BY <1>1 DEF TypeOK
<1>5. \A i \in DOMAIN job : i # k => proc'[i] = proc[i]
  BY <1>4 DEF Child, ChildExec, ChildStep, ChildWrite, ChildWriteErr, ChildRead, ChildExit,
              Put, Die
<1>6. ASSUME up, proc'[k].st = "killed", proc[k].st # "killed"
      PROVE  job[k].dest.out # 0 /\ ~Unstarted(job[k].dest.out, job)
  <2>1. PICK q \in {job[k].stdout, job[k].stderr} : q # 0 /\ q \notin ShellReads
    <3>1. proc[k].st \in {"forked", "running", "exited", "killed", "reaped"}
      BY <1>4 DEF Proc
    <3>2. CASE ChildExec(k) \/ ChildRead(k) \/ ChildExit(k, ShellWrites)
      BY <1>4, <1>6, <3>1, <3>2 DEF ChildExec, ChildRead, ChildExit, Die, Proc
    <3>3. CASE ChildWrite(k, ShellReads)
      <4>1. PICK p : p = job[k].stdout /\ Put(k, p, [proc EXCEPT ![k].todo = @ - 1], ShellReads)
        BY <3>3 DEF ChildWrite
      <4>2. p # 0 /\ p \notin ShellReads
        BY <1>4, <1>6, <4>1 DEF Put, Terminal, Proc
      <4> QED
        BY <4>1, <4>2
    <3>4. CASE ChildWriteErr(k, ShellReads)
      <4>1. PICK p : p = job[k].stderr /\ Put(k, p, [proc EXCEPT ![k].errs = @ - 1], ShellReads)
        BY <3>4 DEF ChildWriteErr
      <4>2. p # 0 /\ p \notin ShellReads
        BY <1>4, <1>6, <4>1 DEF Put, Terminal, Proc
      <4> QED
        BY <4>1, <4>2
    <3> QED
      BY <3>2, <3>3, <3>4 DEF Child, ChildStep
  <2>2. q = job[k].stdout /\ job[k].dest.out # 0 /\ job[k].dest.out \in Nat
    <3>1. /\ job[k].stderr \in {0, job[k].stdout} /\ (job[k].stdout = 0 <=> job[k].dest.out = 0)
      BY <1>1, <1>4 DEF IInv, StreamsAsked
    <3>2. job[k] \in Job
      BY <1>1, <1>4 DEF TypeOK
    <3>3. job[k].dest.out \in Nat
      BY <3>2 DEF Job
    <3> QED
      BY <2>1, <3>1, <3>3
  <2>3. ASSUME Unstarted(job[k].dest.out, job) PROVE FALSE
    <3>1. PICK j \in Holding : InPipe(j) = job[k].stdout
      BY <1>4, <1>6, <2>2, <2>3 DEF SigInv, HeldFed
    <3>2. fds[numpipe_table[j].in_fd].kind = "rd" /\ numpipe_table[j].in_fd \in Fd
      BY <1>1, <1>6, <3>1, AccountedParts, EntryTypes DEF FdInv, EndsOfOne, Holding
    <3> QED
      BY <2>1, <2>2, <3>1, <3>2 DEF ShellReads, Ends, InPipe
  <2> QED
    BY <2>2, <2>3
<1>7. KilledFed'
  <2> SUFFICES ASSUME up, NEW i \in DOMAIN job, proc'[i].st = "killed"
               PROVE  job[i].dest.out # 0 /\ ~Unstarted(job[i].dest.out, job)
    BY <1>2 DEF KilledFed, Unstarted, pipeVars
  <2>1. CASE proc[i].st = "killed"
    BY <2>1 DEF SigInv, KilledFed
  <2>2. CASE proc[i].st # "killed"
    BY <1>5, <1>6, <2>2
  <2> QED
    BY <2>1, <2>2
<1> QED
  BY <1>3, <1>7

\* SigInv is inductive.
LEMMA InitSigInv == Init => SigInv
<1> SUFFICES ASSUME Init PROVE HeldFed /\ KilledFed
  BY InitFdInv DEF SigInv
<1>1. DOMAIN job = {}
  BY DEF Init, KernelInit
<1> QED
  BY <1>1 DEF HeldFed, KilledFed

\* Every step keeps it.
LEMMA NextSigInv == SigInv /\ [Next]_vars => SigInv'
<1> SUFFICES ASSUME SigInv, [Next]_vars PROVE HeldFed' /\ KilledFed'
  BY NextFdInv DEF SigInv
<1>1. FdInv /\ FdInv' /\ TypeOK
  BY NextFdInv DEF SigInv, FdInv, IInv
<1>2. CASE RunCommand
  BY <1>1, <1>2, RunSigs
<1>3. CASE RunSetenv
  BY <1>3, SetenvSigs
<1>4. CASE RunExit
  BY <1>4 DEF RunExit, HeldFed, KilledFed
<1>5. ASSUME UNCHANGED pipeVars, proc' = proc PROVE HeldFed' /\ KilledFed'
  BY <1>5 DEF SigInv, HeldFed, KilledFed, Holding, Unstarted, Target, InPipe, pipeVars
<1>6. CASE User \/ ReadAgain \/ WaitReturns \/ childHandler
  <2>1. proc' = proc
    BY <1>6 DEF User, ReadEof, ReadLine, ReadAgain, WaitReturns, childHandler, kernelVars
  <2> QED
    BY <1>1, <1>5, <1>6, <2>1, OtherTypes
<1>7. CASE \E k \in DOMAIN proc : Child(k)
  BY <1>7, ChildSigs
<1>8. CASE UNCHANGED vars
  BY <1>5, <1>8 DEF vars, shellVars, kernelVars, pipeVars
<1> QED
  BY <1>2, <1>3, <1>4, <1>6, <1>7, <1>8 DEF Next, Shell

\* No command of npshell dies of SIGPIPE before the command it writes to was started,
\* on whatever later line that is: the shell keeps the read end of a pending pipe,
\* though descriptor numbers are reused and commands of earlier lines come to their end.
THEOREM NeverEarlySigpipe == Safety => []NoEarlySigpipe
<1>1. SigInv => NoEarlySigpipe
  <2> SUFFICES ASSUME SigInv, up, NEW i \in DOMAIN job, proc[i].st = "killed"
               PROVE  \E k \in DOMAIN job : k > i /\ <<i, "out">> \in FeedOf(k)
    BY DEF NoEarlySigpipe
  <2>1. IInv /\ TypeOK
    BY DEF SigInv, FdInv, IInv
  <2>2. job[i].dest.out # 0 /\ ~Unstarted(job[i].dest.out, job)
    BY DEF SigInv, KilledFed
  <2>3. job[i].dest.out > i /\ job[i].stdout # 0
    BY <2>1, <2>2 DEF IInv, StreamsAsked
  <2>4. /\ job \in Seq(Job) /\ Len(job) = cmd_no - 1 /\ cmd_no \in Nat \ {0} /\ i \in Nat \ {0}
        /\ job[i] \in Job
    BY <2>1 DEF TypeOK
  <2>5. PICK k \in Nat : k = job[i].dest.out
    BY <2>4 DEF Job
  <2>6. k \in DOMAIN job /\ job[k].prog # "builtin"
    BY <2>2, <2>3, <2>4, <2>5 DEF Unstarted
  <2>7. job[k].stdin # 0 /\ job[i].stdout = job[k].stdin
    BY <2>1, <2>5, <2>6 DEF IInv, StartedFed
  <2> QED
    BY <2>3, <2>5, <2>6, <2>7 DEF FeedOf, PipeOf, Terminal
<1> QED
  BY <1>1, InitSigInv, NextSigInv, PTL DEF Safety
=============================================================================
