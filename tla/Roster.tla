------------------------------- MODULE Roster -------------------------------
(***************************************************************************)
(* What the chat servers of homework 2 promise about who is online: a user *)
(* who enters gets the smallest unused id, keeps it until leaving, and no  *)
(* two users choose the same name.  A user is the connection it came on.   *)
(***************************************************************************)
EXTENDS Naturals, FiniteSets

CONSTANTS
    Conn,    \* connections
    Id,      \* the ids a user may have, a set of numbers
    Name,    \* the names a user may choose
    NoName   \* the name of a user who has chosen none

VARIABLE user  \* the user of each id that is in use

Init == user = [i \in {} |-> 0]

Enter(c) ==
    /\ \A i \in DOMAIN user : user[i].conn # c
    /\ \E i \in Id \ DOMAIN user :
          /\ \A j \in Id : j < i => j \in DOMAIN user
          /\ user' = [j \in DOMAIN user \cup {i} |->
                        IF j = i THEN [conn |-> c, name |-> NoName] ELSE user[j]]

Leave(i) == user' = [j \in DOMAIN user \ {i} |-> user[j]]

Rename(i, n) ==
    /\ \A j \in DOMAIN user : user[j].name # n
    /\ user' = [user EXCEPT ![i].name = n]

Next ==
    \/ \E c \in Conn : Enter(c)
    \/ \E i \in DOMAIN user : Leave(i)
    \/ \E i \in DOMAIN user, n \in Name : Rename(i, n)

Spec == Init /\ [][Next]_user
=============================================================================
