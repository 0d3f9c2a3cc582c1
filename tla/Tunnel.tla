-------------------------------- MODULE Tunnel --------------------------------
(***************************************************************************)
(* What a SOCKS server promises the two sides it joins: a client hears the *)
(* replies it is owed and then the units of the other side, each side      *)
(* those that the other one sent, in their order.  Units may be lost, but  *)
(* only from some unit on: nothing comes behind one that was lost.         *)
(***************************************************************************)
EXTENDS Naturals, Sequences

Side == {"src", "dst"}
Other(s) == IF s = "src" THEN "dst" ELSE "src"
Accepted == <<"reply", 90>>
Rejected == <<"reply", 91>>

VARIABLES
    phase, \* "asked", then "refused", or "allowed" and "joined"
    owed,  \* the replies that come to the client before data
    sent,  \* the number of units that each side sent
    reach, \* how many of these have not been lost
    got    \* what each side has read

vars == <<phase, owed, sent, reach, got>>

Init ==
    /\ phase = "asked" /\ owed = 1
    /\ sent = [s \in Side |-> 0] /\ reach = [s \in Side |-> 0]
    /\ got = [s \in Side |-> <<>>]

\* The number of replies that side s reads first, and of units that came to it.
First(s) == IF s = "src" THEN owed ELSE 0
Came(s) == IF Len(got[s]) > First(s) THEN Len(got[s]) - First(s) ELSE 0

Decide ==
    /\ phase = "asked" /\ phase' \in {"allowed", "refused"} /\ owed' \in {1, 2}
    /\ UNCHANGED <<sent, reach, got>>

Join ==
    /\ phase = "allowed" /\ phase' = "joined"
    /\ UNCHANGED <<owed, sent, reach, got>>

\* A client that is joined has one reply more to come if it is owed two.
Hear ==
    /\ \/ /\ phase = "refused" /\ got["src"] = <<>>
          /\ got' = [got EXCEPT !["src"] = Append(@, Rejected)]
       \/ /\ phase \in {"allowed", "joined"}
          /\ Len(got["src"]) < IF phase = "joined" THEN owed ELSE 1
          /\ got' = [got EXCEPT !["src"] = Append(@, Accepted)]
    /\ UNCHANGED <<phase, owed, sent, reach>>

\* The last units sent that have not come are lost.
Lost ==
    /\ reach' \in [Side -> Nat]
    /\ \A s \in Side : reach'[s] \in Came(Other(s)) .. reach[s]

Lose == Lost /\ UNCHANGED <<phase, owed, sent, got>>

\* A client sends when it has heard the replies, the other side when it is joined.
\* A unit is lost if one before it was.
Send(s) ==
    /\ IF s = "src" THEN phase \in {"allowed", "joined"} /\ Len(got["src"]) >= owed
       ELSE phase = "joined"
    /\ sent' = [sent EXCEPT ![s] = @ + 1]
    /\ \/ reach[s] = sent[s] /\ reach' = [reach EXCEPT ![s] = @ + 1]
       \/ Lost
    /\ UNCHANGED <<phase, owed, got>>

Receive(s) ==
    /\ phase = "joined" /\ Len(got[s]) >= First(s) /\ Came(s) < reach[Other(s)]
    /\ got' = [got EXCEPT ![s] = Append(@, <<Other(s), Came(s) + 1>>)]
    /\ UNCHANGED <<phase, owed, sent, reach>>

Next == Decide \/ Join \/ Hear \/ Lose \/ \E s \in Side : Send(s) \/ Receive(s)

Spec == Init /\ [][Next]_vars
=============================================================================
