------------------------------- MODULE NumPipe -------------------------------
(***************************************************************************)
(* What numbered pipes promise, with no descriptors, pipes or processes.   *)
(*                                                                         *)
(* Commands are numbered 1, 2, 3, ... in the order in which the shell runs *)
(* them.  A command sends its output to the screen (or a file), or to one  *)
(* later command: `cmd |N' and `cmd !N' name the command N further on, and *)
(* `cmd |' and `cmd !' the next one; with `!' the error stream goes along. *)
(* The standard input of a command is the union of all the streams that    *)
(* earlier commands sent to its number, and nothing else.  A built-in      *)
(* takes a number like every command, but it reads and sends nothing.      *)
(***************************************************************************)
EXTENDS Naturals, Sequences

CONSTANT Number   \* the numbers, from 1 on, that a command may send its output to

VARIABLES
    route,  \* route[i]: the command that each stream of command i goes to
    feed    \* feed[k]: the streams that make up the input of command k

vars == <<route, feed>>

Stream == {"out", "err"}
Screen == 0                 \* a route that leads to no command

Unrouted == [s \in Stream |-> Screen]

\* The streams that the commands so far have sent to command number k.
SentTo(k) == {src \in (DOMAIN route) \X Stream : route[src[1]][src[2]] = k}

TypeOK ==
    /\ route \in Seq([Stream -> Nat])
    /\ feed \in Seq(SUBSET (Nat \X Stream))
    /\ Len(feed) = Len(route)

Init == route = <<>> /\ feed = <<>>

\* The next command starts; its output goes to dest, its errors too if both.
Start(dest, both) ==
    /\ dest \in Number => dest > Len(route) + 1
    /\ route' = Append(route, [out |-> dest, err |-> IF both THEN dest ELSE Screen])
    /\ feed' = Append(feed, SentTo(Len(route) + 1))

\* A built-in takes the next number.
Skip ==
    /\ route' = Append(route, Unrouted)
    /\ feed' = Append(feed, {})

Next == Skip \/ \E dest \in Number \cup {Screen}, both \in BOOLEAN : Start(dest, both)

Spec == Init /\ [][Next]_vars
==============================================================================
