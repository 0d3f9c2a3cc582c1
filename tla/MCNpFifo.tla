------------------------------ MODULE MCNpFifo ------------------------------
(* Scenarios of user pipes for TLC: <<user, <n, >n>>, and <<user, 0, 0>> for *)
(* a user who may leave.                                                   *)
EXTENDS NpFifo

\* The first two send to each other, read, also to send on to the third, and the
\* first may leave; the third sends to the second.
Strangers == {<<1, 0, 2>>, <<1, 2, 0>>, <<1, 2, 3>>, <<1, 0, 0>>,
              <<2, 0, 1>>, <<2, 1, 0>>, <<2, 1, 3>>,
              <<3, 0, 2>>}
=============================================================================
