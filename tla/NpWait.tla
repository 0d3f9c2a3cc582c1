-------------------------------- MODULE NpWait --------------------------------
(***************************************************************************)
(* NP_HW2/np_single_proc.cpp with the processes that NpSingle only starts: *)
(* the one process of the server waits for a foreground command, and       *)
(* nobody is served meanwhile.                                             *)
(*                                                                         *)
(* Unlike npshell's, a child of this server closes nothing before it       *)
(* executes the command: it keeps every end the server held at its fork,   *)
(* those of other users' pipes included, until it ends. A command whose    *)
(* stdin is a pipe reads it to the end, which comes when no process has    *)
(* the write end. One that writes more than a pipe holds ("big") has to be *)
(* read before it can end.                                                 *)
(***************************************************************************)
EXTENDS NpSingle

VARIABLE kids  \* the commands started, in their order

kvars == <<vars, kids>>

Kid == [in : 0 .. MaxPipe, out : 0 .. MaxPipe, held : SUBSET ((1 .. MaxPipe) \X {"rd", "wr"}),
        big : BOOLEAN, alive : BOOLEAN]

\* stdout_fd, when it is a pipe.
Stdout ==
    CASE cmd.out = "user" -> New
      [] cmd.out \in {"pipe", "num"} -> TableAfterOut[FirstFor(Dest, TableAfterOut)].pipe
      [] OTHER -> 0

\* The descriptors at fork: the ends of <n and of the target are closed after it.
EndsAtFork == EndsAfterIn \cup (IF NewUserPipe THEN NewEnds ELSE {})

Starts == Running /\ cmd.prog = "run" /\ ~InMissing /\ ~OutRefused
Start ==
    \E big \in BOOLEAN :
        /\ big => Stdout # 0
        /\ kids' = Append(kids, [in |-> Stdin, out |-> Stdout, held |-> EndsAtFork,
                                 big |-> big, alive |-> TRUE])

Alive == {k \in DOMAIN kids : kids[k].alive}
Writers(p) == {k \in Alive : <<p, "wr">> \in kids[k].held}
HasEnded(p) == <<p, "wr">> \notin ends /\ Writers(p) = {}

\* A writer is stuck until a command reads from its pipe that is not stuck itself.
Stuck[k \in Nat] ==
    /\ kids[k].big
    /\ \A r \in Alive : r > k /\ kids[r].in = kids[k].out => Stuck[r]

KidEnds(k) ==
    /\ k \in Alive
    /\ kids[k].in # 0 => HasEnded(kids[k].in)
    /\ ~Stuck[k]
    /\ kids' = [kids EXCEPT ![k].alive = FALSE]
    /\ UNCHANGED vars

\* A step of np_single: one that starts a command, one without a command, and the
\* return of waitpid, which comes when the command started last has ended.
Work == ~cur.waits /\ Next /\ IF Starts THEN Start ELSE UNCHANGED kids
WaitForAll == cur.waits /\ Alive = {} /\ Next /\ UNCHANGED kids \* variant
WaitEnds == cur.waits /\ ~kids[Len(kids)].alive /\ Next /\ UNCHANGED kids

KidsInit == Init /\ kids = <<>>
KidsNext == Work \/ WaitEnds \/ \E k \in 1 .. MaxConn * MaxCmd : KidEnds(k)

\* Commands run, and waitpid returns; users may stop at any point.
KidsSpec ==
    /\ KidsInit /\ [][KidsNext]_kvars
    /\ WF_kvars(WaitEnds)
    /\ \A k \in 1 .. MaxConn * MaxCmd : WF_kvars(KidEnds(k))

-----------------------------------------------------------------------------
(* Properties.                                                             *)

\* A command has its ends and, while the server waits, it is the last one.
KidsTypeOK == kids \in Seq(Kid) /\ (cur.waits => kids # <<>>)

\* Whoever keeps the end of the stream from a command that reads a pipe was started
\* before it, and is not the server: commands do not wait for each other's end in a
\* circle, although each has ends of pipes that are none of its business.
HoldersEarlier ==
    \A k \in Alive : kids[k].in # 0 =>
        /\ <<kids[k].in, "wr">> \notin ends
        /\ \A w \in Writers(kids[k].in) : w < k

\* Writers of more than a pipe holds whose reader has yet to be started.
Stranded == {k \in Alive : kids[k].big /\ \A r \in DOMAIN kids : kids[r].in # kids[k].out}

\* The commands that k waits for, and what the server waits for when that goes on
\* to a stranded one.
WaitsFor(k) ==
    (IF kids[k].in = 0 THEN {} ELSE Writers(kids[k].in))
    \cup (IF kids[k].big THEN {r \in Alive : kids[r].in = kids[k].out} ELSE {})
BehindStranded(k) ==
    /\ k \in Alive
    /\ \A S \in SUBSET Alive :
           k \in S /\ (\A j \in S : WaitsFor(j) \subseteq S) => S \cap Stranded # {}

\* Everyone is served again after a foreground command, but for this: it waits, over
\* ends that commands of any user hold, for one that nobody can read, because its
\* reader would have to be started by the server that waits.
ServesAgain == cur.waits ~> ~cur.waits \/ BehindStranded(Len(kids))
=============================================================================
