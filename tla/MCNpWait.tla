------------------------------- MODULE MCNpWait -------------------------------
(* Lines of pipes that wait for commands to come, for TLC.                 *)
EXTENDS NpWait

Run(in, out, n) == [prog |-> "run", arg |-> NoName, in_usr_id |-> in, out |-> out,
                    num |-> IF out = "num" THEN n ELSE 1,
                    out_usr_id |-> IF out = "user" THEN n ELSE 1]

Exit == <<[Run(0, "", 1) EXCEPT !.prog = "exit"]>>

\* A pipe to the command behind the next one, a pipe to user 2 and reading it,
\* | to a command of the line, and leaving.
WaitLines ==
    {Exit, <<Run(0, "", 1)>>, <<Run(0, "num", 2)>>,
     <<Run(0, "user", 2)>>, <<Run(1, "", 1)>>, <<Run(0, "pipe", 1), Run(0, "", 1)>>}
=============================================================================
