------------------------------ MODULE MCNpShell ------------------------------
(* NpShell with small sets of lines.                                       *)
EXTENDS NpShell

Cmd(prog, type, num) == [prog |-> prog, type |-> type, num |-> num]

\* Every kind of output: a pipe that ends a line, with and without the error
\* stream, alone and merged with an earlier one; |, ! and > file; a builtin that
\* may be a target; exit; an empty line.
MCLines ==
    {<<Cmd("gen", "num_pipe", 2)>>, <<Cmd("gen", "err_num_pipe", 2)>>,
     <<Cmd("cat", "num_pipe", 1)>>, <<Cmd("cat", "file_pipe", 1)>>,
     <<Cmd("unknown", "err_pipe", 1), Cmd("cat", "", 1)>>,
     <<Cmd("gen", "num_pipe", 2), Cmd("gen", "num_pipe", 1)>>,
     <<Cmd("setenv", "", 1)>>, <<Cmd("exit", "", 1)>>, <<>>}
==============================================================================
