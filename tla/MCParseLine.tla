------------------------------ MODULE MCParseLine ------------------------------
(***************************************************************************)
(* The lengths of the lines that TLC gives ParseLine: for "rwg" enough for *)
(* two commands, one with a user pipe and an output, and what may follow   *)
(* them; the branches of the others look at two tokens of a command.       *)
(***************************************************************************)
EXTENDS ParseLine

Lengths == [d \in Dialect |-> IF d = "rwg" THEN 6 ELSE 5]
=============================================================================
