----------------------------- MODULE MCNpSingle -----------------------------
(* Lines of np_single_proc.cpp's users, for TLC.                           *)
EXTENDS NpSingle

Run(in, out, n) == [prog |-> "run", arg |-> NoName, in_usr_id |-> in, out |-> out,
                    num |-> IF out = "num" THEN n ELSE 1,
                    out_usr_id |-> IF out = "user" THEN n ELSE 1]
Builtin(b, a) == [Run(0, "", 1) EXCEPT !.prog = b, !.arg = a]

Exit == <<Builtin("exit", NoName)>>

\* Leaving, and pipes to and from every user.
PipeLines ==
    {Exit, <<Run(0, "", 1)>>}
    \cup {<<Run(0, "user", i)>> : i \in Id}
    \cup {<<Run(i, "", 1)>> : i \in Id}

\* Every built-in, and user pipes together with numbered and ordinary ones: a
\* pipe two commands on, a pipe to user 2, and <1 with >2 and with |.
MixedLines ==
    {Exit, <<Builtin("talk", NoName)>>}
    \cup {<<Builtin("name", n)>> : n \in Name}
    \cup {<<Builtin("setenv", v)>> : v \in EnvVar}
    \cup {<<Run(0, "num", 2)>>, <<Run(0, "user", 2)>>,
          <<Run(1, "user", 2)>>, <<Run(1, "pipe", 1), Run(0, "", 1)>>}
=============================================================================
