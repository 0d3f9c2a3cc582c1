------------------------------- MODULE MCConsole -------------------------------
(***************************************************************************)
(* The test files that TLC gives Console; like those of the repository     *)
(* they end with exit.                                                     *)
(***************************************************************************)
EXTENDS Console

ShortFile == <<"cmd", "exit">>
LongFile == <<"cmd", "cmd", "exit">>
BothFiles == {ShortFile, LongFile}
=============================================================================
