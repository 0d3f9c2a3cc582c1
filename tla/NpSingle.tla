------------------------------ MODULE NpSingle ------------------------------
(***************************************************************************)
(* NP_HW2/np_single_proc.cpp: one process that serves every client with    *)
(* select(), runs their shells, and passes pipes between users.            *)
(*                                                                         *)
(* The process does one thing at a time: it accepts a connection, or sees  *)
(* one close, or reads a line from a client and runs its commands, and the *)
(* next client is served when the whole line is done.  What can go wrong   *)
(* is in the tables that outlive a line: the slots given to select, the    *)
(* rows of the users, each with its numbered pipes, and the user pipes,    *)
(* indexed by ids that are given to the next user who comes.               *)
(*                                                                         *)
(* A descriptor of this server is never used after it was closed (its      *)
(* number is erased first), so a socket is the number of its connection,   *)
(* which no other ever gets, and a pipe the number of its pipe() call.     *)
(* Processes are only started here: what they do is not modelled, and a    *)
(* foreground process ends when it will.                                   *)
(***************************************************************************)
EXTENDS Naturals, Sequences, SequencesExt

CONSTANTS
    MaxClients, \* max_clients, 30 in the code: slots, ids and rows
    MaxConn,    \* bound on the connections of a run
    MaxCmd,     \* bound on the commands of a connection
    MaxPipe,    \* bound on the pipes of a run
    MaxNum,     \* the largest N of a |N
    Name,       \* names that users choose
    NoName,     \* "(no name)"
    EnvVar,     \* environment variables that users set
    Hangups,    \* whether users also leave without exit
    Lines       \* the lines a user may type

Builtins == {"exit", "name", "setenv", "talk"}

\* The type that parse_line gives a command is which of |, |N and >n ends it
\* and whether it has a <n.  Output to a file or to the client is "".
Command == [prog : Builtins \cup {"run"}, arg : Name \cup EnvVar \cup {NoName},
            in_usr_id : 0 .. MaxClients, out : {"", "pipe", "num", "user"},
            num : 1 .. MaxNum, out_usr_id : 1 .. MaxClients]

\* exit is the last command of its line: the code reads out of bounds after it.
ASSUME SingleAssumption ==
    /\ MaxClients \in Nat \ {0} /\ MaxConn \in Nat /\ MaxCmd \in Nat
    /\ MaxPipe \in Nat /\ MaxNum \in Nat \ {0} /\ Hangups \in BOOLEAN
    /\ NoName \notin Name /\ Name \cap EnvVar = {}
    /\ Lines \subseteq Seq(Command)
    /\ \A l \in Lines : \A i \in DOMAIN l :
          /\ l[i].prog = "exit" => i = Len(l)
          /\ l[i].prog = "name" => l[i].arg \in Name
          /\ l[i].prog = "setenv" => l[i].arg \in EnvVar

VARIABLES
    client_socket,      \* the connection in each slot, 0 if the slot is free
    connect_info_table, \* a row for each user, in the order of their arrival
    usr_pipe_table,     \* the pipe from each id to each id, 0 if there is none
    environ,            \* the variables of the process's environment
    cur,                \* the line being run
    ends,               \* the pipe ends that the server holds open
    \* History:
    conns,              \* connections accepted
    pipes,              \* whom each pipe was made for
    readers,            \* which command got which pipe as its standard input
    ran                 \* commands run on each connection

vars == <<client_socket, connect_info_table, usr_pipe_table, environ, cur, ends,
          conns, pipes, readers, ran>>

Id == 1 .. MaxClients
Conn == 1 .. MaxConn
Rows == DOMAIN connect_info_table
Online == {connect_info_table[k].socket_fd : k \in Rows}
IdsInUse == {connect_info_table[k].user_id : k \in Rows}
NamesInUse == {connect_info_table[k].user_name : k \in Rows}

Idle == [sock |-> 0, slot |-> 0, idx |-> 0, line |-> <<>>, pos |-> 0, waits |-> FALSE]

Init ==
    /\ client_socket = [s \in Id |-> 0]
    /\ connect_info_table = <<>>
    /\ usr_pipe_table = [ids \in Id \X Id |-> 0]
    /\ environ = {}
    /\ cur = Idle
    /\ ends = {}
    /\ conns = 0
    /\ pipes = <<>>
    /\ readers = {}
    /\ ran = [c \in Conn |-> 0]

-----------------------------------------------------------------------------
(* One turn of the select loop.  The code does not look at the number of   *)
(* users online; that there are at most 30 is what its clients are told.   *)

AtSelect == cur = Idle

Accept ==
    /\ AtSelect
    /\ conns < MaxConn /\ Len(connect_info_table) < MaxClients
    /\ \E i \in Id \ IdsInUse, s \in Id :
          /\ \A j \in Id : j < i => j \in IdsInUse
          /\ client_socket[s] = 0 /\ \A t \in Id : t < s => client_socket[t] # 0
          /\ client_socket' = [client_socket EXCEPT ![s] = conns + 1]
          /\ connect_info_table' = Append(connect_info_table,
                 [socket_fd |-> conns + 1, cmd_no |-> 1, user_id |-> i,
                  user_name |-> NoName, numpipe_table |-> <<>>, env |-> {}])
    /\ conns' = conns + 1
    /\ UNCHANGED <<usr_pipe_table, environ, cur, ends, pipes, readers, ran>>

\* Variant: the slot is not freed.
DisconnectKeepingSlot(s) ==
    /\ AtSelect /\ Hangups
    /\ \E k \in Rows :
          /\ connect_info_table[k].socket_fd = client_socket[s]
          /\ connect_info_table' = RemoveAt(connect_info_table, k)
    /\ UNCHANGED <<client_socket, usr_pipe_table, environ, cur, ends, conns, pipes,
                   readers, ran>>

\* The client closed its end without exit: read returns 0.
Disconnect(s) ==
    /\ AtSelect /\ Hangups
    /\ \E k \in Rows :
          /\ connect_info_table[k].socket_fd = client_socket[s]
          /\ connect_info_table' = RemoveAt(connect_info_table, k)
    /\ client_socket' = [client_socket EXCEPT ![s] = 0]
    /\ UNCHANGED <<usr_pipe_table, environ, cur, ends, conns, pipes, readers, ran>>

\* Variant: the row is looked up by the slot.
ReadLineBySlot(s, l) ==
    /\ AtSelect
    /\ s \in Rows /\ client_socket[s] # 0
    /\ environ' = connect_info_table[s].env
    /\ cur' = IF l = <<>> THEN Idle
              ELSE [sock |-> client_socket[s], slot |-> s, idx |-> s,
                    line |-> l, pos |-> 1, waits |-> FALSE]
    /\ UNCHANGED <<client_socket, connect_info_table, usr_pipe_table, ends,
                   conns, pipes, readers, ran>>

\* Variant: the environment is not cleared first.
ReadLineUncleared(s, l) ==
    /\ AtSelect
    /\ \E k \in Rows :
          /\ connect_info_table[k].socket_fd = client_socket[s]
          /\ environ' = environ \cup connect_info_table[k].env
          /\ cur' = IF l = <<>> THEN Idle
                    ELSE [sock |-> client_socket[s], slot |-> s, idx |-> k,
                          line |-> l, pos |-> 1, waits |-> FALSE]
    /\ UNCHANGED <<client_socket, connect_info_table, usr_pipe_table, ends,
                   conns, pipes, readers, ran>>

\* A line came on slot s: exe_shell_cmd looks its row up and gives the process
\* the environment of the user.
ReadLine(s, l) ==
    /\ AtSelect
    /\ \E k \in Rows :
          /\ connect_info_table[k].socket_fd = client_socket[s]
          /\ environ' = connect_info_table[k].env
          /\ cur' = IF l = <<>> THEN Idle
                    ELSE [sock |-> client_socket[s], slot |-> s, idx |-> k,
                          line |-> l, pos |-> 1, waits |-> FALSE]
    /\ UNCHANGED <<client_socket, connect_info_table, usr_pipe_table, ends,
                   conns, pipes, readers, ran>>

-----------------------------------------------------------------------------
(* One turn of the loop over cmd_pack.  cmd_no and numpipe_table are those *)
(* of the row at cur.idx, where the user's row was when the line came.     *)

Row == connect_info_table[cur.idx]
cmd == cur.line[cur.pos]
Running == cur # Idle /\ ~cur.waits /\ ran[cur.sock] < MaxCmd
AtLast == cur.pos = Len(cur.line)
NextCmd == IF AtLast THEN Idle ELSE [cur EXCEPT !.pos = @ + 1]
Counted == ran' = [ran EXCEPT ![cur.sock] = @ + 1]

\* The rest of cmd_no++ after the row at place k was erased: the reference is
\* to the row that has moved there, if there is one.
Bumped(table, k) == IF k \in DOMAIN table THEN [table EXCEPT ![k].cmd_no = @ + 1]
                    ELSE table

\* exit: after the broadcast the pipes to the user are dropped, but those in the
\* column of the row's place and not of the user's id; nothing is closed.
RunExit ==
    /\ Running /\ cmd.prog = "exit"
    /\ client_socket' = [client_socket EXCEPT ![cur.slot] = 0]
    /\ usr_pipe_table' = [ids \in Id \X Id |->
                             IF ids[2] = cur.idx THEN 0 ELSE usr_pipe_table[ids]]
    /\ connect_info_table' = Bumped(RemoveAt(connect_info_table, cur.idx), cur.idx)
    /\ cur' = NextCmd
    /\ Counted
    /\ UNCHANGED <<environ, ends, conns, pipes, readers>>

\* Variant: a name that is taken is given once more.
RunNameUnchecked ==
    /\ Running /\ cmd.prog = "name"
    /\ connect_info_table' = [connect_info_table EXCEPT
           ![cur.idx].cmd_no = @ + 1, ![cur.idx].user_name = cmd.arg]
    /\ cur' = NextCmd
    /\ Counted
    /\ UNCHANGED <<client_socket, usr_pipe_table, environ, ends, conns, pipes, readers>>

RunName ==
    /\ Running /\ cmd.prog = "name"
    /\ connect_info_table' = [connect_info_table EXCEPT
           ![cur.idx].cmd_no = @ + 1,
           ![cur.idx].user_name = IF cmd.arg \in NamesInUse THEN @ ELSE cmd.arg]
    /\ cur' = NextCmd
    /\ Counted
    /\ UNCHANGED <<client_socket, usr_pipe_table, environ, ends, conns, pipes, readers>>

RunSetenv ==
    /\ Running /\ cmd.prog = "setenv"
    /\ environ' = environ \cup {cmd.arg}
    /\ connect_info_table' = [connect_info_table EXCEPT
           ![cur.idx].cmd_no = @ + 1, ![cur.idx].env = @ \cup {cmd.arg}]
    /\ cur' = NextCmd
    /\ Counted
    /\ UNCHANGED <<client_socket, usr_pipe_table, ends, conns, pipes, readers>>

\* who, tell, yell and printenv only write to sockets.
RunTalk ==
    /\ Running /\ cmd.prog = "talk"
    /\ connect_info_table' = [connect_info_table EXCEPT ![cur.idx].cmd_no = @ + 1]
    /\ cur' = NextCmd
    /\ Counted
    /\ UNCHANGED <<client_socket, usr_pipe_table, environ, ends, conns, pipes, readers>>

-----------------------------------------------------------------------------
(* A command to execute goes through four stages, in the order of the      *)
(* code: its numbered pipe, the pipe for its output, <n and >n.  Each may  *)
(* already have changed the tables when a later one finds an error.        *)

\* Stage 1.  The entry that has this command as its target, if any, is erased;
\* its write end is closed.
EntriesFor(t, table) == {j \in DOMAIN table : table[j].target_cmd_num = t}
FirstFor(t, table) ==
    CHOOSE j \in EntriesFor(t, table) : \A i \in EntriesFor(t, table) : j <= i

IsTarget == EntriesFor(Row.cmd_no, Row.numpipe_table) # {}
NumPipe == IF IsTarget THEN Row.numpipe_table[FirstFor(Row.cmd_no, Row.numpipe_table)].pipe
           ELSE 0
TableAfterTarget ==
    IF IsTarget THEN RemoveAt(Row.numpipe_table, FirstFor(Row.cmd_no, Row.numpipe_table))
    ELSE Row.numpipe_table
\* Variant: the write end stays open.
EndsKept == ends
EndsAfterTarget == ends \ {<<NumPipe, "wr">>}

\* Stage 2.  | and |N: the pipe to that command, created if there is none.
New == Len(pipes) + 1
NewEnds == {<<New, "rd">>, <<New, "wr">>}
Dest == Row.cmd_no + (IF cmd.out = "pipe" THEN 1 ELSE cmd.num)
NewNumPipe == cmd.out \in {"pipe", "num"} /\ EntriesFor(Dest, TableAfterTarget) = {}
TableAfterOut ==
    IF NewNumPipe THEN Append(TableAfterTarget, [target_cmd_num |-> Dest, pipe |-> New])
    ELSE TableAfterTarget
EndsAfterOut == IF NewNumPipe THEN EndsAfterTarget \cup NewEnds ELSE EndsAfterTarget

\* Stage 3.  <n: the pipe is taken out of the table and its write end closed.
me == Row.user_id
InPipe == IF cmd.in_usr_id = 0 THEN 0 ELSE usr_pipe_table[<<cmd.in_usr_id, me>>]
InMissing == cmd.in_usr_id # 0 /\ InPipe = 0
UserPipesAfterIn ==
    [ids \in Id \X Id |-> IF ids = <<cmd.in_usr_id, me>> THEN 0 ELSE usr_pipe_table[ids]]
EndsAfterIn == EndsAfterOut \ {<<InPipe, "wr">>}

\* Variant: a pipe that is there is not looked for.
OutUnchecked == cmd.out = "user" /\ cmd.out_usr_id \notin IdsInUse
\* Stage 4.  >n: refused if there is such a pipe, or else if no user n is online.
OutRefused ==
    cmd.out = "user" /\ \/ UserPipesAfterIn[<<me, cmd.out_usr_id>>] # 0
                        \/ cmd.out_usr_id \notin IdsInUse
NewUserPipe == cmd.out = "user"

\* For the history: whose pipe it is and which of their commands should read it.
SocketOf(i) == connect_info_table[CHOOSE k \in Rows : connect_info_table[k].user_id = i].socket_fd
MadeFor == IF NewUserPipe THEN [from |-> cur.sock, to |-> SocketOf(cmd.out_usr_id), nth |-> 0]
           ELSE [from |-> cur.sock, to |-> cur.sock,
                 nth |-> ran[cur.sock] + 1 + (IF cmd.out = "pipe" THEN 1 ELSE cmd.num)]

Executes ==
    /\ Running /\ cmd.prog = "run"
    /\ Len(pipes) < MaxPipe \/ ~(NewNumPipe \/ NewUserPipe)
    /\ connect_info_table' = [connect_info_table EXCEPT
           ![cur.idx].cmd_no = @ + 1, ![cur.idx].numpipe_table = TableAfterOut]
    /\ Counted
    /\ UNCHANGED <<client_socket, environ, conns>>

\* <n of a pipe that is not there: nothing is started.
RefuseIn ==
    /\ Executes /\ InMissing
    /\ ends' = EndsAfterOut
    /\ pipes' = IF NewNumPipe THEN Append(pipes, MadeFor) ELSE pipes
    /\ cur' = NextCmd
    /\ UNCHANGED <<usr_pipe_table, readers>>

\* >n that is refused: nothing is started, and the pipe of <n is gone.
RefuseOut ==
    /\ Executes /\ ~InMissing /\ OutRefused
    /\ ends' = EndsAfterIn
    /\ usr_pipe_table' = UserPipesAfterIn
    /\ cur' = NextCmd
    /\ UNCHANGED <<pipes, readers>>

\* The process is started.  The read end it gets as its standard input, <n
\* before a numbered pipe, is closed in the server.  A line that ends in |N or
\* >n is not waited for, but one that ends in <m |N is.
Stdin == IF InPipe # 0 THEN InPipe ELSE NumPipe
Waits == AtLast /\ cmd.out # "user" /\ (cmd.out = "num" => cmd.in_usr_id # 0)

Launch ==
    /\ Executes /\ ~InMissing /\ ~OutRefused
    /\ usr_pipe_table' = IF NewUserPipe
                         THEN [UserPipesAfterIn EXCEPT ![<<me, cmd.out_usr_id>>] = New]
                         ELSE UserPipesAfterIn
    /\ pipes' = IF NewNumPipe \/ NewUserPipe THEN Append(pipes, MadeFor) ELSE pipes
    /\ ends' = (EndsAfterIn \cup (IF NewUserPipe THEN NewEnds ELSE {})) \ {<<Stdin, "rd">>}
    /\ readers' = IF Stdin = 0 THEN readers
                  ELSE readers \cup {<<Stdin, cur.sock, ran[cur.sock] + 1>>}
    /\ cur' = IF Waits THEN [cur EXCEPT !.waits = TRUE] ELSE NextCmd

\* waitpid returns; it was the last command of the line.
WaitReturns ==
    /\ cur.waits
    /\ cur' = Idle
    /\ UNCHANGED <<client_socket, connect_info_table, usr_pipe_table, environ, ends,
                   conns, pipes, readers, ran>>

-----------------------------------------------------------------------------

RunCommand == RunExit \/ RunName \/ RunSetenv \/ RunTalk \/ RefuseIn \/ RefuseOut \/ Launch

Next ==
    \/ Accept
    \/ \E s \in Id : Disconnect(s)
    \/ \E s \in Id, l \in Lines : ReadLine(s, l)
    \/ RunCommand
    \/ WaitReturns

Spec == Init /\ [][Next]_vars

-----------------------------------------------------------------------------
(* Properties.                                                             *)

Entry == [target_cmd_num : Nat \ {0}, pipe : Nat \ {0}]
RowType == [socket_fd : Conn, cmd_no : Nat \ {0}, user_id : Id,
            user_name : Name \cup {NoName}, numpipe_table : Seq(Entry), env : SUBSET EnvVar]
Line == [sock : Nat, slot : Nat, idx : Nat, line : Lines \cup {<<>>}, pos : Nat,
         waits : BOOLEAN]
PipeFor == [from : Conn, to : Conn, nth : Nat]

\* Every variable has its type, and a line in progress knows its slot and row.
TypeOK ==
    /\ client_socket \in [Id -> Conn \cup {0}]
    /\ connect_info_table \in Seq(RowType)
    /\ usr_pipe_table \in [Id \X Id -> 0 .. Len(pipes)]
    /\ environ \subseteq EnvVar
    /\ cur \in Line
    /\ cur = Idle \/ /\ cur.slot \in Id /\ client_socket[cur.slot] = cur.sock
                     /\ cur.idx \in Rows /\ Row.socket_fd = cur.sock
                     /\ cur.pos \in DOMAIN cur.line
    /\ ends \subseteq (1 .. Len(pipes)) \X {"rd", "wr"}
    /\ conns \in 0 .. MaxConn
    /\ pipes \in Seq(PipeFor)
    /\ readers \subseteq (1 .. Len(pipes)) \X Conn \X Nat
    /\ ran \in [Conn -> Nat]

\* The users as the abstract specification sees them.
RowOf(i) == connect_info_table[CHOOSE k \in Rows : connect_info_table[k].user_id = i]
R == INSTANCE Roster WITH
         user <- [i \in IdsInUse |-> [conn |-> RowOf(i).socket_fd, name |-> RowOf(i).user_name]]

\* Rows are shifted when a user leaves and ids and slots are used again, but a
\* user enters with the smallest unused id, keeps it, and has a name of its own.
RosterImplemented == R!Spec

\* select watches exactly the sockets of the users in the table, each in one
\* slot, and no two rows have the same socket or id.
SlotsAgree ==
    /\ \A k \in Rows : \E s \in Id : client_socket[s] = connect_info_table[k].socket_fd
    /\ \A s \in Id : client_socket[s] # 0 => client_socket[s] \in Online
    /\ \A s, t \in Id : s # t /\ client_socket[s] # 0 => client_socket[s] # client_socket[t]
    /\ \A k, l \in Rows : k # l =>
          /\ connect_info_table[k].socket_fd # connect_info_table[l].socket_fd
          /\ connect_info_table[k].user_id # connect_info_table[l].user_id

\* Where the tables keep pipes, and the pipe kept there.
Places == {pl \in Rows \X (1 .. MaxPipe) :
              pl[2] \in DOMAIN connect_info_table[pl[1]].numpipe_table}
NumAt(pl) == connect_info_table[pl[1]].numpipe_table[pl[2]].pipe
Cells == {ids \in Id \X Id : usr_pipe_table[ids] # 0}

\* A pipe is in one place: one entry of one user's numbered pipes or one cell of
\* the user pipes.  The server holds both its ends, and no command has got it.
InOnePlace ==
    /\ \A p, q \in Places : p # q => NumAt(p) # NumAt(q)
    /\ \A a, b \in Cells : a # b => usr_pipe_table[a] # usr_pipe_table[b]
    /\ \A p \in Places, a \in Cells : NumAt(p) # usr_pipe_table[a]
    /\ \A n \in {NumAt(p) : p \in Places} \cup {usr_pipe_table[a] : a \in Cells} :
          /\ {<<n, "rd">>, <<n, "wr">>} \subseteq ends
          /\ \A r \in readers : r[1] # n

\* A pipe is the standard input of one command at most, and then the server
\* holds neither of its ends: the reader sees the end of the stream.
ReaderAlone ==
    \A r \in readers :
        /\ \A q \in readers : q[1] = r[1] => q = r
        /\ <<r[1], "rd">> \notin ends /\ <<r[1], "wr">> \notin ends

\* A pipe is in one place at most, and one command at most has it for its input:
\* rows that move and ids and targets that are used again never double one.
PipesInOnePlace == InOnePlace /\ ReaderAlone

Kept ==
    {n \in DOMAIN pipes :
        \/ \E k \in Rows : \E j \in DOMAIN connect_info_table[k].numpipe_table :
              connect_info_table[k].numpipe_table[j].pipe = n
        \/ \E a \in Id \X Id : usr_pipe_table[a] = n}

\* With a user go the numbered pipes of the row and, at exit, the user pipes in the
\* column of the row's place.
LostWithUser(n) ==
    \E k \in Rows :
        /\ connect_info_table[k].socket_fd \notin Online'
        /\ \/ \E j \in DOMAIN connect_info_table[k].numpipe_table :
                 connect_info_table[k].numpipe_table[j].pipe = n
           \/ k = cur.idx /\ \E i \in Id : usr_pipe_table[<<i, k>>] = n

\* A command that is refused loses the pipes it was to read, and one with a <n loses
\* its numbered pipe.
LostByCommand(n) ==
    /\ cur # Idle /\ cmd.prog = "run"
    /\ \/ n = NumPipe /\ (InMissing \/ OutRefused \/ InPipe # 0)
       \/ n = InPipe /\ OutRefused

\* A pipe that was made is kept until a command has it for its input, and in one place.
\* It is lost in no other way than these: its numbered pipes go with a user, and the
\* column of the place with an exit; a refused command loses its inputs, and a <n
\* replaces the numbered pipe.  Nothing that other users do, no built-in and no new
\* pipe loses it.
PipesKept ==
    /\ []PipesInOnePlace
    /\ [][/\ \A n \in DOMAIN pipes' : n \in DOMAIN pipes \/ n \in Kept'
          /\ \A n \in Kept : \/ n \in Kept' \/ (\E r \in readers' : r[1] = n)
                             \/ LostWithUser(n) \/ LostByCommand(n)]_vars

\* The variables of the process are those of the user whose line is being run,
\* although there is one environment for all users.
EnvironIsOwn == cur # Idle => environ = Row.env

\* A numbered pipe stays with its user: neither a row that moved nor an id that was
\* given away lets another user read it.  As long as nobody has left, every pipe is
\* read by the command it was made for: a user pipe by the user it names, |N by the
\* N-th next command, whatever built-ins, refused commands and other users' lines
\* come between.
PipesReadInOrder ==
    \A r \in readers : LET p == pipes[r[1]]
        IN  /\ p.nth # 0 => r[2] = p.from
            /\ Len(connect_info_table) = conns =>
                   IF p.nth = 0 THEN r[2] = p.to ELSE r[3] = p.nth

\* Violated: a user pipe is read by the very user it was made for (spec 5.5).
UserPipesDelivered ==
    \A r \in readers : pipes[r[1]].nth = 0 => r[2] = pipes[r[1]].to
=============================================================================
