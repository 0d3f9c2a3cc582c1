------------------------------- MODULE MCNpShellC -------------------------------
(***************************************************************************)
(* The lines that TLC gives NpShellC.                                      *)
(***************************************************************************)
EXTENDS NpShellC

Cmd(prog, sep, num) == [prog |-> prog, sep |-> sep, num |-> num, digit |-> FALSE]
Run(sep, num) == Cmd("run", sep, num)

\* |, ! and > file; numbers that merge and that skip a command, on one line and on
\* several; a built-in that may be a target; words that end in a digit; two ! in a
\* row, with a | behind them.
MCLines ==
    {<<Run("", 0)>>, <<Run(">", 0)>>, <<Run("|", 1)>>, <<Run("|", 2)>>, <<Run("!", 2)>>,
     <<Run("|", 0), Run("!", 0), Run("", 0)>>,
     <<Run("!", 0), Run("|", 0), Run("!", 0), Run("", 0)>>,
     <<Run("|", 2), Run("!", 1)>>,
     <<Run("!", 0), Run("!", 0), Run("|", 0), Run("", 0)>>,
     <<Cmd("setenv", "", 0)>>, <<Cmd("exit", "", 0)>>,
     <<[Run("", 0) EXCEPT !.digit = TRUE]>>, <<[Run(">", 0) EXCEPT !.digit = TRUE]>>}
=============================================================================
