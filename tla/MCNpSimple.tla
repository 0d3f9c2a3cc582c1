------------------------------ MODULE MCNpSimple ------------------------------
(***************************************************************************)
(* The scripts that TLC gives NpSimple.                                    *)
(***************************************************************************)
EXTENDS NpSimple

Cmd(name, type) == [name |-> name, type |-> type]
L(cmds) == [cmds |-> cmds, ended |-> TRUE]
Cut(cmds) == [cmds |-> cmds, ended |-> FALSE]
Exit == L(<<Cmd("exit", "")>>)
Ls == L(<<Cmd("ls", "")>>)
PrintEnv == Cmd("printenv", "")

SetScript == <<L(<<Cmd("setenv", "")>>), L(<<PrintEnv, Cmd("ls", "")>>), Exit>>
PrintScript == <<L(<<PrintEnv>>), L(<<PrintEnv, Cmd("exit", "")>>), Cut(<<Cmd("ls", "")>>)>>
BehindScript == <<L(<<>>), Exit, L(<<PrintEnv, Cmd("bad", "")>>), Exit>>
\* ex and it.
ReaderScript == <<L(<<Cmd("cat", "num")>>), Cut(<<Cmd("bad", "")>>), Exit>>
PipeScript == <<L(<<Cmd("ls", "pipe"), Cmd("cat", "")>>), L(<<Cmd("cat", "")>>), Exit>>
CutScript == <<Ls, Cut(<<PrintEnv, Cmd("exit", "")>>)>>
CutAgainScript == <<L(<<Cmd("setenv", "")>>), Cut(<<Cmd("printenv", "pipe"), PrintEnv>>)>>
BlankScript == <<L(<<Cmd("none", "")>>), Exit>>

AllScripts == {SetScript, PrintScript, BehindScript, ReaderScript, PipeScript, CutScript,
               CutAgainScript, BlankScript}

\* What lines put together wrong may say.
AllBroken == {<<Cmd("bad", "")>>, <<PrintEnv, Cmd("exit", "")>>}
=============================================================================
