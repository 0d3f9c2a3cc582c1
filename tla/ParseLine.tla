------------------------------ MODULE ParseLine ------------------------------
(***************************************************************************)
(* parse_line, which cuts a line, already split at the blanks, into        *)
(* commands.  Its two loops share the index i, which the branches move by  *)
(* hand, so that a token may be passed over, taken twice or looked for     *)
(* beyond the end.                                                         *)
(*                                                                         *)
(* There are three of it: "shell" is the one of NP_HW1_cpp/npshell.cpp and *)
(* NP_HW2/np_simple.cpp; "rwg" that of np_single_proc.cpp and              *)
(* np_multi_proc.cpp, which adds user pipes, tell and yell; "errpipe" that *)
(* of np_multi_proc_errpipe.cpp, which adds a user pipe before ! and !N.   *)
(*                                                                         *)
(* A token is its kind; what it says is the place where it stands.  So the *)
(* args of a command are places, and file, num_pipe, in_usr_id and         *)
(* out_usr_id each the place of a token, 0 if there is none.               *)
(***************************************************************************)
EXTENDS Naturals, Sequences, FiniteSets

Dialect == {"shell", "rwg", "errpipe"}

CONSTANT MaxLen  \* bound on the tokens of a line, for each dialect

ASSUME ParseAssumption == MaxLen \in [Dialect -> Nat]

\* "|N" stands for |1, |2 and so on; "talk" for tell and yell.
Kind == {"word", "talk", "|", "|N", "!", "!N", ">", ">N", "<", "<N"}

\* A > stands before the name of a file, and a < that follows an output has a
\* number; stoi ends the program if it has not.  To the shell tell is a word.
Writable(d, l) ==
    \A k \in DOMAIN l :
        /\ l[k] = ">" => k < Len(l) /\ l[k + 1] = "word"
        /\ d # "shell" /\ l[k] = "<" => (k > 1 => l[k - 1] # ">N") /\ (k > 2 => l[k - 2] # ">")
        /\ d = "shell" => l[k] # "talk"
Typed(d) == {l \in UNION {[1 .. n -> Kind] : n \in 1 .. MaxLen[d]} : Writable(d, l)}

VARIABLES
    dialect,
    tokens,
    idx,      \* i, the token to look at
    cmd,      \* the command being put together
    cmd_line, \* the commands that are complete
    line_end

parse_vars == <<dialect, tokens, idx, cmd, cmd_line, line_end>>

NoCmd == [args |-> <<>>, type |-> "", file |-> 0, num_pipe |-> 0, in_usr_id |-> 0, out_usr_id |-> 0]

ParseInit ==
    /\ dialect \in Dialect /\ tokens \in Typed(dialect)
    /\ idx = 1
    /\ cmd = NoCmd
    /\ cmd_line = <<>>
    /\ line_end = FALSE

-----------------------------------------------------------------------------
(* One turn of the inner loop.                                             *)

Size == Len(tokens)
At(kind) == ~line_end /\ idx <= Size /\ tokens[idx] = kind
Next1(kind) == idx < Size /\ tokens[idx + 1] = kind

\* break: the command is complete, and the line too if it has no more tokens.
Break(c, next) ==
    /\ cmd_line' = Append(cmd_line, c)
    /\ cmd' = NoCmd
    /\ idx' = next
    /\ line_end' = (next > Size)
    /\ UNCHANGED <<dialect, tokens>>

\* The end of the loop's body: i++.
Continue(c, next) ==
    /\ cmd' = c
    /\ idx' = next + 1
    /\ UNCHANGED <<dialect, tokens, cmd_line, line_end>>

\* After an output the line should end; if not, the token at next is passed over.
BreakAtEnd(c, next) == IF next > Size THEN Break(c, next) ELSE Continue(c, next)

\* The rest of the line is what to say.
Talk ==
    /\ At("talk")
    /\ Break([cmd EXCEPT !.args = @ \o [k \in 1 .. Size - idx + 1 |-> idx + k - 1]], Size + 1)

Pipe ==
    /\ At("|")
    /\ Break([cmd EXCEPT !.type = "pipe"], idx + 1)

NumPipe ==
    /\ At("|N")
    /\ Break([cmd EXCEPT !.type = "num_pipe", !.num_pipe = idx], idx + 1)

ErrPipe ==
    /\ At("!")
    /\ Break([cmd EXCEPT !.type = "err_pipe"], idx + 1)

ErrNumPipe ==
    /\ At("!N")
    /\ Break([cmd EXCEPT !.type = "err_num_pipe", !.num_pipe = idx], idx + 1)

\* The shell has no user pipes, but a type for them.
ShellOut ==
    /\ dialect = "shell" /\ At(">N")
    /\ BreakAtEnd([cmd EXCEPT !.type = "user_pipe"], idx + 1)

ShellIn ==
    /\ dialect = "shell" /\ At("<N")
    /\ Continue([cmd EXCEPT !.type = "user_pipe"], idx)

OutUserPipe ==
    /\ dialect # "shell" /\ At(">N")
    /\ IF Next1("<N")
       THEN BreakAtEnd([cmd EXCEPT !.type = "in_out_user_pipe", !.in_usr_id = idx + 1,
                                   !.out_usr_id = idx], idx + 2)
       ELSE BreakAtEnd([cmd EXCEPT !.type = "out_user_pipe", !.out_usr_id = idx], idx + 1)

File ==
    /\ At(">")
    /\ IF dialect # "shell" /\ idx + 2 <= Size /\ tokens[idx + 2] = "<N"
       THEN BreakAtEnd([cmd EXCEPT !.type = "in_file_user_pipe", !.in_usr_id = idx + 2,
                                   !.file = idx + 1], idx + 3)
       ELSE BreakAtEnd([cmd EXCEPT !.type = "file_pipe", !.file = idx + 1], idx + 2)

AtIn == dialect # "shell" /\ At("<N")

InOut ==
    /\ AtIn /\ Next1(">N")
    /\ Break([cmd EXCEPT !.type = "in_out_user_pipe", !.in_usr_id = idx, !.out_usr_id = idx + 1], idx + 2)

InFile ==
    /\ AtIn /\ Next1(">")
    /\ Break([cmd EXCEPT !.type = "in_file_user_pipe", !.in_usr_id = idx, !.file = idx + 2], idx + 3)

\* Variant: the | after <N is looked at again.
InPipeAgain ==
    /\ AtIn /\ Next1("|")
    /\ Break([cmd EXCEPT !.type = "in_pipe_user_pipe", !.in_usr_id = idx], idx + 1)
InPipe ==
    /\ AtIn /\ Next1("|")
    /\ Break([cmd EXCEPT !.type = "in_pipe_user_pipe", !.in_usr_id = idx], idx + 2)

InNumPipe ==
    /\ AtIn /\ Next1("|N")
    /\ Break([cmd EXCEPT !.type = "in_numpipe_user_pipe", !.in_usr_id = idx, !.num_pipe = idx + 1], idx + 2)

InErrPipe ==
    /\ dialect = "errpipe" /\ AtIn /\ Next1("!")
    /\ Break([cmd EXCEPT !.type = "in_err_pipe", !.in_usr_id = idx], idx + 2)

InErrNumPipe ==
    /\ dialect = "errpipe" /\ AtIn /\ Next1("!N")
    /\ Break([cmd EXCEPT !.type = "in_err_num_pipe", !.in_usr_id = idx, !.num_pipe = idx + 1], idx + 2)

\* Anything else after <N begins a new command.
InUserPipe ==
    /\ AtIn /\ ~ \E kind \in {">N", ">", "|", "|N"} : Next1(kind)
    /\ dialect = "errpipe" => ~Next1("!") /\ ~Next1("!N")
    /\ Break([cmd EXCEPT !.type = "in_user_pipe", !.in_usr_id = idx], idx + 1)

Word ==
    /\ At("word")
    /\ Continue([cmd EXCEPT !.args = Append(@, idx)], idx)

\* A < with no number is left out.
Less ==
    /\ At("<")
    /\ Continue(cmd, idx)

\* The loop ends by its condition.
LastWord ==
    /\ ~line_end /\ idx > Size
    /\ Break(cmd, idx)

ParseNext ==
    \/ Talk \/ Word \/ Less \/ LastWord
    \/ Pipe \/ NumPipe \/ ErrPipe \/ ErrNumPipe
    \/ ShellOut \/ ShellIn \/ OutUserPipe \/ File
    \/ InErrPipe \/ InErrNumPipe
    \/ InOut \/ InFile \/ InPipe \/ InNumPipe \/ InUserPipe

ParseSpec == ParseInit /\ [][ParseNext]_parse_vars

-----------------------------------------------------------------------------
(* What a line means.  The commands of a line stand between its | and !;   *)
(* the others, with their numbers and files, stand at its end.             *)

Cuts == {k \in DOMAIN tokens : tokens[k] \in {"|", "!"}}
Pieces == Cardinality(Cuts) + 1
\* The places of the n-th piece, with the cut that ends it.
Piece(n) == {k \in DOMAIN tokens : Cardinality(Cuts \cap 1 .. k - 1) = n - 1}

Outputs == {"|", "!", "|N", "!N", ">", ">N"}
Places(kinds, n) == {k \in Piece(n) : tokens[k] \in kinds}
PlaceOf(kinds, n) == IF Places(kinds, n) = {} THEN 0 ELSE CHOOSE k \in Places(kinds, n) : TRUE
IsArg(k) == tokens[k] = "word" /\ (k = 1 \/ tokens[k - 1] # ">")
Args(n) == {k \in Piece(n) : IsArg(k)}

\* The type says which output a command has, and whether it has a <N.
TypeAlone(out) ==
    CASE out = ">N" -> "out_user_pipe" [] out = ">"  -> "file_pipe"
      [] out = "|"  -> "pipe"          [] out = "|N" -> "num_pipe"
      [] out = "!"  -> "err_pipe"      [] out = "!N" -> "err_num_pipe"
      [] out = "none" -> ""
TypeWithIn(out) ==
    CASE out = ">N" -> "in_out_user_pipe"  [] out = ">"  -> "in_file_user_pipe"
      [] out = "|"  -> "in_pipe_user_pipe" [] out = "|N" -> "in_numpipe_user_pipe"
      [] out = "!"  -> "in_err_pipe"       [] out = "!N" -> "in_err_num_pipe"
      [] out = "none" -> "in_user_pipe"
OutputOf(n) == IF PlaceOf(Outputs, n) = 0 THEN "none" ELSE tokens[PlaceOf(Outputs, n)]

\* The places of a set, in their order.
Lists(s, set) == Len(s) = Cardinality(set) /\ \A k \in set : s[Cardinality(set \cap 1 .. k)] = k

Means(c, n) ==
    /\ Lists(c.args, Args(n))
    /\ c.type = IF PlaceOf({"<N"}, n) = 0 THEN TypeAlone(OutputOf(n)) ELSE TypeWithIn(OutputOf(n))
    /\ c.file = IF PlaceOf({">"}, n) = 0 THEN 0 ELSE PlaceOf({">"}, n) + 1
    /\ c.num_pipe = PlaceOf({"|N", "!N"}, n)
    /\ c.in_usr_id = PlaceOf({"<N"}, n)
    /\ c.out_usr_id = PlaceOf({">N"}, n)

\* The lines that the specs allow: a command is words; then <N and an output
\* in either order, one of each at most; a number behind | or ! is the end.  A word
\* behind > names the file.  <N and ! meet in "errpipe" only, and the shell has
\* neither <N nor >N.
Allowed ==
    /\ \A k \in DOMAIN tokens : tokens[k] \notin {"talk", "<"}
    /\ \A n \in 1 .. Pieces :
          /\ Args(n) # {}
          /\ \A k, m \in Piece(n) : k < m /\ IsArg(m) => IsArg(k)
          /\ \A k, m \in Places(Outputs, n) : k = m
          /\ \A k, m \in Places({"<N"}, n) : k = m
          /\ \A m \in Places({"|N", "!N"}, n), k \in Piece(n) : k <= m
          /\ Places({"<N"}, n) # {} /\ dialect # "errpipe" => Places({"!", "!N"}, n) = {}
          /\ dialect = "shell" => Places({"<N", ">N"}, n) = {}

-----------------------------------------------------------------------------
(* Properties.                                                             *)

CmdType ==
    {"", "pipe", "num_pipe", "err_pipe", "err_num_pipe", "file_pipe", "user_pipe", "out_user_pipe",
     "in_user_pipe", "in_out_user_pipe", "in_file_user_pipe", "in_pipe_user_pipe",
     "in_numpipe_user_pipe", "in_err_pipe", "in_err_num_pipe"}
Command == [args : Seq(Nat), type : CmdType, file : Nat, num_pipe : Nat, in_usr_id : Nat,
            out_usr_id : Nat]

\* A command has one of the types of parse_line and names places.
ParseTypeOK ==
    /\ dialect \in Dialect /\ tokens \in Typed(dialect)
    /\ idx \in Nat \ {0} /\ line_end \in BOOLEAN
    /\ cmd \in Command /\ cmd_line \in Seq(Command)

\* A line that the specs allow is cut into the commands it means, though i is
\* moved by hand in nearly twenty branches.
ParsedAsMeant ==
    line_end /\ Allowed =>
        Len(cmd_line) = Pieces /\ \A n \in 1 .. Pieces : Means(cmd_line[n], n)
=============================================================================
