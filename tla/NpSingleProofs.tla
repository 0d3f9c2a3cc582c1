--------------------------- MODULE NpSingleProofs ---------------------------
(***************************************************************************)
(* What holds of the single-process server for every number of users and   *)
(* whatever lines they type: the slots, the rows and the environment name  *)
(* the same users, and a pipe is in one place until one command reads it,  *)
(* or is lost in one of the ways that the code has.                        *)
(***************************************************************************)
EXTENDS NpWait, SequenceTheorems, WellFoundedInduction, TLAPS

\* The slots S and the rows T have the same sockets, none of them twice.
SlotsMatch(S, T) ==
    /\ \A k \in DOMAIN T : \E s \in Id : S[s] = T[k].socket_fd
    /\ \A s \in Id : S[s] # 0 => \E k \in DOMAIN T : T[k].socket_fd = S[s]
    /\ \A s, t \in Id : s # t /\ S[s] # 0 => S[s] # S[t]

\* Two rows have different sockets and ids, and different names if they have any.
RowsApart(T) ==
    \A k, l \in DOMAIN T : k # l =>
        /\ T[k].socket_fd # T[l].socket_fd /\ T[k].user_id # T[l].user_id
        /\ T[k].user_name # NoName => T[k].user_name # T[l].user_name

\* The connections of the rows T are among the first n.
RowsAmong(T, n) == \A k \in DOMAIN T : T[k].socket_fd <= n

RosterInv ==
    /\ TypeOK
    /\ SlotsMatch(client_socket, connect_info_table)
    /\ RowsApart(connect_info_table)
    /\ RowsAmong(connect_info_table, conns)
    /\ EnvironIsOwn

\* The numbered pipes of each row.
NumPipes(T) == [k \in DOMAIN T |-> T[k].numpipe_table]

\* Numbered pipes N, user pipes P, open ends E and readers G.  No pipe is in two
\* places, and one that is in a place has both ends open and has no reader.
EntriesApart(N) ==
    \A k, l \in DOMAIN N : \A i \in DOMAIN N[k], j \in DOMAIN N[l] :
        N[k][i].pipe = N[l][j].pipe => k = l /\ i = j
CellsApart(P) == \A a, b \in Id \X Id : P[a] # 0 /\ P[a] = P[b] => a = b
EntriesNotCells(N, P) ==
    \A k \in DOMAIN N : \A j \in DOMAIN N[k], a \in Id \X Id : N[k][j].pipe # P[a]
Unread(p, G) == \A r \in G : r[1] # p
Held(p, E, G) == <<p, "rd">> \in E /\ <<p, "wr">> \in E /\ Unread(p, G)
EntriesHeld(N, E, G) == \A k \in DOMAIN N : \A j \in DOMAIN N[k] : Held(N[k][j].pipe, E, G)
CellsHeld(P, E, G) == \A a \in Id \X Id : P[a] # 0 => Held(P[a], E, G)
ReadersAlone(E, G) ==
    \A r \in G : /\ \A q \in G : q[1] = r[1] => q = r
                 /\ <<r[1], "rd">> \notin E /\ <<r[1], "wr">> \notin E

PipesSound(N, P, E, G) ==
    /\ EntriesApart(N) /\ CellsApart(P) /\ EntriesNotCells(N, P)
    /\ EntriesHeld(N, E, G) /\ CellsHeld(P, E, G) /\ ReadersAlone(E, G)

\* A pipe taken out of its place and not yet given to a command.
Loose(p, N, P, E, G) ==
    /\ p # 0 /\ Unread(p, G) /\ <<p, "wr">> \notin E
    /\ \A k \in DOMAIN N : \A j \in DOMAIN N[k] : N[k][j].pipe # p
    /\ \A a \in Id \X Id : P[a] # p

\* The pipe in a cell, if it is one, and the user pipes when it is cleared.
InCell(P, c) == IF c \in Id \X Id THEN P[c] ELSE 0
Cleared(P, c) == [a \in Id \X Id |-> IF a = c THEN 0 ELSE P[a]]

\* The numbered pipes N are given as sequences of entries.
AreEntries(N) == \A k \in DOMAIN N : N[k] \in Seq(Entry)

PipesInv == PipesSound(NumPipes(connect_info_table), usr_pipe_table, ends, readers)

\* The numbered pipes t are those of the user on connection s, and the target of
\* each is the command that its pipe was made for.
Owned(t, s, made) ==
    \A j \in DOMAIN t : made[t[j].pipe].from = s /\ made[t[j].pipe].nth # 0
OnTarget(t, made) == \A j \in DOMAIN t : t[j].target_cmd_num = made[t[j].pipe].nth

\* User pipes are kept as such, in the column of the user they were made for.
CellsOwn(P, made) == \A a \in Id \X Id : P[a] # 0 => made[P[a]].nth = 0
Columns(T, P, made) ==
    \A a \in Id \X Id : P[a] # 0 =>
        \E k \in DOMAIN T : T[k].user_id = a[2] /\ T[k].socket_fd = made[P[a]].to

\* A numbered pipe was read by its own user, and every pipe by the right command.
ReadByOwn(G, made) == \A r \in G : made[r[1]].nth # 0 => r[2] = made[r[1]].from
ReadRight(G, made) ==
    \A r \in G : LET p == made[r[1]] IN IF p.nth = 0 THEN r[2] = p.to ELSE r[3] = p.nth

\* cmd_no counts the commands of its user, done those of each connection.
Counts(T, done) == \A k \in DOMAIN T : T[k].cmd_no = done[T[k].socket_fd] + 1
NotYet(n, done) == \A c \in Conn : c > n => done[c] = 0

OwnInv ==
    /\ \A k \in Rows :
          Owned(connect_info_table[k].numpipe_table, connect_info_table[k].socket_fd, pipes)
    /\ CellsOwn(usr_pipe_table, pipes)
    /\ ReadByOwn(readers, pipes)
    /\ NotYet(conns, ran)
    /\ Len(connect_info_table) <= conns

\* What holds as long as nobody has left.
RightInv ==
    /\ \A k \in Rows : OnTarget(connect_info_table[k].numpipe_table, pipes)
    /\ Columns(connect_info_table, usr_pipe_table, pipes)
    /\ Counts(connect_info_table, ran)
    /\ ReadRight(readers, pipes)

OrderInv == OwnInv /\ (Len(connect_info_table) = conns => RightInv)

IInv == RosterInv /\ PipesInv /\ OrderInv

\* The rows U are those of T with the same users in the same places.
SameUsers(T, U) ==
    /\ DOMAIN U = DOMAIN T
    /\ \A k \in DOMAIN T : /\ U[k].socket_fd = T[k].socket_fd /\ U[k].user_id = T[k].user_id
                           /\ U[k].user_name = T[k].user_name

\* The row r with another count, name, numbered pipes and variables.
RowWith(r, c, nm, t, v) ==
    [socket_fd |-> r.socket_fd, cmd_no |-> c, user_id |-> r.user_id,
     user_name |-> nm, numpipe_table |-> t, env |-> v]

-----------------------------------------------------------------------------
(* Rows.                                                                   *)

\* What is left of a sequence when one element is erased.
LEMMA Removed ==
    ASSUME NEW S, NEW s \in Seq(S), NEW i \in 1 .. Len(s)
    PROVE  LET r == RemoveAt(s, i)
           IN  /\ r \in Seq(S) /\ Len(r) = Len(s) - 1
               /\ DOMAIN r = 1 .. Len(s) - 1
               /\ \A j \in 1 .. Len(s) - 1 : r[j] = s[IF j < i THEN j ELSE j + 1]
<1> DEFINE a == SubSeq(s, 1, i - 1)
           b == SubSeq(s, i + 1, Len(s))
<1>1. /\ a \in Seq(S) /\ Len(a) = i - 1 /\ \A j \in 1 .. i - 1 : a[j] = s[j]
  BY SubSeqProperties
<1>2. /\ b \in Seq(S) /\ Len(b) = Len(s) - i /\ \A j \in 1 .. Len(s) - i : b[j] = s[i + j]
  BY SubSeqProperties
<1> HIDE DEF a, b
<1>3. /\ a \o b \in Seq(S) /\ Len(a \o b) = Len(a) + Len(b)
      /\ \A j \in 1 .. Len(a) + Len(b) :
            (a \o b)[j] = IF j <= Len(a) THEN a[j] ELSE b[j - Len(a)]
  BY <1>1, <1>2, ConcatProperties
<1>4. \A j \in 1 .. Len(s) - 1 : (a \o b)[j] = s[IF j < i THEN j ELSE j + 1]
  BY <1>1, <1>2, <1>3
<1>5. RemoveAt(s, i) = a \o b
  BY DEF RemoveAt, a, b
<1>6. Len(a \o b) = Len(s) - 1 /\ DOMAIN (a \o b) = 1 .. Len(s) - 1
  BY <1>1, <1>2, <1>3
<1> QED
  BY <1>3, <1>4, <1>5, <1>6

\* Every other element is still there, once.
LEMMA RemovedOnce ==
    ASSUME NEW S, NEW s \in Seq(S), NEW i \in 1 .. Len(s)
    PROVE  LET r == RemoveAt(s, i)
           IN  /\ \A j \in DOMAIN s \ {i} : \E k \in DOMAIN r : r[k] = s[j]
               /\ \E f \in [DOMAIN r -> DOMAIN s \ {i}] :
                     /\ \A k \in DOMAIN r : r[k] = s[f[k]]
                     /\ \A k, l \in DOMAIN r : k # l => f[k] # f[l]
<1> DEFINE r == RemoveAt(s, i)
           f == [k \in 1 .. Len(s) - 1 |-> IF k < i THEN k ELSE k + 1]
<1>1. /\ DOMAIN r = 1 .. Len(s) - 1 /\ DOMAIN s = 1 .. Len(s)
      /\ \A j \in 1 .. Len(s) - 1 : r[j] = s[IF j < i THEN j ELSE j + 1]
  BY Removed, LenProperties
<1> HIDE DEF r
<1>2. ASSUME NEW j \in DOMAIN s \ {i} PROVE \E k \in DOMAIN r : r[k] = s[j]
  <2>1. CASE j < i
    BY <2>1, <1>1
  <2>2. CASE j > i
    <3>1. j - 1 \in DOMAIN r /\ ~(j - 1 < i)
      BY <2>2, <1>1
    <3>2. r[j - 1] = s[(j - 1) + 1]
      BY <3>1, <1>1
    <3> QED
      BY <3>1, <3>2, <1>1
  <2> QED
    BY <2>1, <2>2, <1>1
<1>3. f \in [DOMAIN r -> DOMAIN s \ {i}]
  BY <1>1
<1>4. \A k \in DOMAIN r : r[k] = s[f[k]]
  BY <1>1
<1>5. \A k, l \in DOMAIN r : k # l => f[k] # f[l]
  BY <1>1
<1> QED
  BY <1>2, <1>3, <1>4, <1>5 DEF r

\* Counting a command in a row.
LEMMA RowCounted ==
    ASSUME NEW r \in RowType, NEW c
    PROVE  [r EXCEPT !.cmd_no = c] = RowWith(r, c, r.user_name, r.numpipe_table, r.env)
BY DEF RowType, RowWith

\* The rows after one of them is changed.
LEMMA RowSet ==
    ASSUME NEW T \in Seq(RowType), NEW k \in DOMAIN T, NEW r \in RowType
    PROVE  /\ [T EXCEPT ![k] = r] \in Seq(RowType)
           /\ DOMAIN [T EXCEPT ![k] = r] = DOMAIN T
           /\ Len([T EXCEPT ![k] = r]) = Len(T)
           /\ \A l \in DOMAIN T : [T EXCEPT ![k] = r][l] = IF l = k THEN r ELSE T[l]
BY ExceptSeq, LenProperties

\* The row that moved to the place of the one erased only has its count changed.
LEMMA BumpedRows ==
    ASSUME NEW T \in Seq(RowType), NEW k \in Nat
    PROVE  LET U == Bumped(T, k)
           IN  /\ U \in Seq(RowType) /\ Len(U) = Len(T) /\ SameUsers(T, U)
               /\ \A l \in DOMAIN T : /\ U[l].numpipe_table = T[l].numpipe_table
                                      /\ U[l].env = T[l].env
<1>1. CASE k \in DOMAIN T
  <2> DEFINE r == RowWith(T[k], T[k].cmd_no + 1, T[k].user_name, T[k].numpipe_table, T[k].env)
  <2>1. T[k] \in RowType
    BY <1>1, ElementOfSeq, LenProperties
  <2>2. T[k].cmd_no + 1 \in Nat \ {0}
    <3>1. T[k].cmd_no \in Nat
      BY <2>1 DEF RowType
    <3> QED
      BY <3>1
  <2>3. /\ r \in RowType /\ r.socket_fd = T[k].socket_fd /\ r.user_id = T[k].user_id
        /\ r.user_name = T[k].user_name /\ r.numpipe_table = T[k].numpipe_table
        /\ r.env = T[k].env
    <3>1. /\ T[k].user_name \in Name \cup {NoName} /\ T[k].numpipe_table \in Seq(Entry)
          /\ T[k].env \in SUBSET EnvVar
      BY <2>1 DEF RowType
    <3> QED
      BY <2>1, <2>2, <3>1 DEF RowType, RowWith
  <2>4. Bumped(T, k) = [T EXCEPT ![k] = r]
    <3> DEFINE q == T[k]
               c == q.cmd_no + 1
    <3>1. Bumped(T, k) = [T EXCEPT ![k] = [q EXCEPT !.cmd_no = c]]
      BY <1>1 DEF Bumped
    <3> HIDE DEF c
    <3>2. [q EXCEPT !.cmd_no = c] = RowWith(q, c, q.user_name, q.numpipe_table, q.env)
      BY <2>1, RowCounted
    <3> QED
      BY <3>1, <3>2 DEF c
  <2> HIDE DEF r
  <2> QED
    BY <1>1, <2>3, <2>4, RowSet DEF SameUsers
<1>2. CASE k \notin DOMAIN T
  BY <1>2 DEF Bumped, SameUsers
<1> QED
  BY <1>1, <1>2

\* The types of a row's fields.
LEMMA RowFields ==
    ASSUME NEW T \in Seq(RowType), NEW k \in DOMAIN T
    PROVE  /\ T[k] \in RowType /\ k \in Nat \ {0} /\ DOMAIN T = 1 .. Len(T) /\ Len(T) \in Nat
           /\ T[k].socket_fd \in Conn /\ T[k].socket_fd # 0 /\ T[k].cmd_no \in Nat \ {0}
           /\ T[k].cmd_no + 1 \in Nat \ {0} /\ T[k].user_id \in Id
           /\ T[k].user_name \in Name \cup {NoName}
           /\ T[k].numpipe_table \in Seq(Entry) /\ T[k].env \in SUBSET EnvVar
<1>1. T[k] \in RowType /\ k \in Nat \ {0} /\ DOMAIN T = 1 .. Len(T) /\ Len(T) \in Nat
  BY ElementOfSeq, LenProperties
<1>2. /\ T[k].socket_fd \in Conn /\ T[k].cmd_no \in Nat \ {0} /\ T[k].user_id \in Id
      /\ T[k].user_name \in Name \cup {NoName}
      /\ T[k].numpipe_table \in Seq(Entry) /\ T[k].env \in SUBSET EnvVar
  BY <1>1 DEF RowType
<1>3. T[k].socket_fd # 0 /\ T[k].cmd_no + 1 \in Nat \ {0}
  BY <1>2 DEF Conn
<1> QED
  BY <1>1, <1>2, <1>3

-----------------------------------------------------------------------------
(* Users who come, go and stay.                                            *)

\* Nothing is said of counts, pipes and variables.
LEMMA UsersStay ==
    ASSUME NEW S, NEW T, NEW U, NEW n, SameUsers(T, U),
           SlotsMatch(S, T), RowsApart(T), RowsAmong(T, n)
    PROVE  SlotsMatch(S, U) /\ RowsApart(U) /\ RowsAmong(U, n)
BY DEF SameUsers, SlotsMatch, RowsApart, RowsAmong

\* A user leaves: the slot is freed and the row erased.
LEMMA UserLeaves ==
    ASSUME NEW S \in [Id -> Conn \cup {0}], NEW T \in Seq(RowType), NEW n \in Nat,
           SlotsMatch(S, T), RowsApart(T), RowsAmong(T, n),
           NEW k \in DOMAIN T, NEW s \in Id, S[s] = T[k].socket_fd
    PROVE  LET U == RemoveAt(T, k)
           IN  SlotsMatch([S EXCEPT ![s] = 0], U) /\ RowsApart(U) /\ RowsAmong(U, n)
<1> DEFINE U == RemoveAt(T, k)
           Z == [S EXCEPT ![s] = 0]
<1>1. k \in 1 .. Len(T) /\ DOMAIN T = 1 .. Len(T)
  BY LenProperties
<1>2. PICK f \in [DOMAIN U -> DOMAIN T \ {k}] :
          /\ \A i \in DOMAIN U : U[i] = T[f[i]]
          /\ \A i, j \in DOMAIN U : i # j => f[i] # f[j]
  BY <1>1, RemovedOnce
<1>3. \A j \in DOMAIN T \ {k} : \E i \in DOMAIN U : U[i] = T[j]
  BY <1>1, RemovedOnce
<1>4. \A i \in DOMAIN U : f[i] \in DOMAIN T /\ f[i] # k
  BY <1>2
<1>5. \A t \in Id : Z[t] = IF t = s THEN 0 ELSE S[t]
  OBVIOUS
<1> HIDE DEF U, Z
<1>6. RowsApart(U) /\ RowsAmong(U, n)
  BY <1>2, <1>4 DEF RowsApart, RowsAmong
<1>7. ASSUME NEW i \in DOMAIN U PROVE \E t \in Id : Z[t] = U[i].socket_fd
  <2>1. PICK t \in Id : S[t] = T[f[i]].socket_fd
    BY <1>4 DEF SlotsMatch
  <2>2. t # s
    BY <2>1, <1>4 DEF RowsApart
  <2> QED
    BY <2>1, <2>2, <1>2, <1>5
<1>8. ASSUME NEW t \in Id, Z[t] # 0 PROVE \E i \in DOMAIN U : U[i].socket_fd = Z[t]
  <2>1. t # s /\ S[t] = Z[t]
    BY <1>5, <1>8
  <2>2. PICK j \in DOMAIN T : T[j].socket_fd = S[t]
    BY <2>1, <1>8 DEF SlotsMatch
  <2>3. j # k
    BY <2>1, <2>2, <1>8 DEF SlotsMatch
  <2> QED
    BY <2>1, <2>2, <2>3, <1>3
<1>9. \A t, u \in Id : t # u /\ Z[t] # 0 => Z[t] # Z[u]
  BY <1>5 DEF SlotsMatch
<1> QED
  BY <1>6, <1>7, <1>8, <1>9 DEF SlotsMatch, U, Z

\* A user comes: an unused slot, an unused id, a connection that no one had.
LEMMA UserComes ==
    ASSUME NEW S \in [Id -> Conn \cup {0}], NEW T \in Seq(RowType), NEW n \in Nat,
           SlotsMatch(S, T), RowsApart(T), RowsAmong(T, n),
           NEW s \in Id, S[s] = 0, NEW r \in RowType, r.socket_fd = n + 1,
           \A k \in DOMAIN T : T[k].user_id # r.user_id, r.user_name = NoName
    PROVE  LET U == Append(T, r)
           IN  /\ U \in Seq(RowType)
               /\ SlotsMatch([S EXCEPT ![s] = n + 1], U) /\ RowsApart(U) /\ RowsAmong(U, n + 1)
<1> DEFINE U == Append(T, r)
           Z == [S EXCEPT ![s] = n + 1]
<1>1. /\ U \in Seq(RowType) /\ Len(U) = Len(T) + 1 /\ DOMAIN T = 1 .. Len(T)
      /\ DOMAIN U = 1 .. Len(T) + 1 /\ U[Len(T) + 1] = r /\ Len(T) \in Nat
      /\ \A i \in 1 .. Len(T) : U[i] = T[i]
  BY AppendProperties, LenProperties
<1>2. \A t \in Id : Z[t] = IF t = s THEN n + 1 ELSE S[t]
  OBVIOUS
<1>3. /\ \A k \in DOMAIN T : T[k].socket_fd \in Nat /\ T[k].socket_fd <= n
      /\ \A t \in Id : S[t] # n + 1
  <2>1. \A k \in DOMAIN T : T[k].socket_fd \in Nat /\ T[k].socket_fd <= n
    BY RowFields DEF RowsAmong, Conn
  <2>2. \A k \in DOMAIN T : T[k].socket_fd # n + 1
    BY <2>1
  <2> QED
    BY <2>1, <2>2 DEF SlotsMatch
<1>4. \A i \in DOMAIN U : \/ i \in DOMAIN T /\ U[i] = T[i]
                          \/ i = Len(T) + 1 /\ U[i] = r /\ i \notin DOMAIN T
  BY <1>1
<1>5. DOMAIN T \subseteq DOMAIN U /\ Len(T) + 1 \in DOMAIN U
  BY <1>1
<1> HIDE DEF U, Z
<1>6. RowsAmong(U, n + 1)
  BY <1>3, <1>4 DEF RowsAmong
<1>7. RowsApart(U)
  <2>1. ASSUME NEW k \in DOMAIN T PROVE T[k].socket_fd # r.socket_fd /\ T[k].user_id # r.user_id
    BY <1>3
  <2> QED
    BY <2>1, <1>4 DEF RowsApart
<1>8. SlotsMatch(Z, U)
  <2>1. ASSUME NEW i \in DOMAIN U PROVE \E t \in Id : Z[t] = U[i].socket_fd
    <3>1. CASE i \in DOMAIN T /\ U[i] = T[i]
      <4>1. PICK t \in Id : S[t] = T[i].socket_fd
        BY <3>1 DEF SlotsMatch
      <4>2. t # s
        BY <3>1, <4>1, RowFields
      <4> QED
        BY <3>1, <4>1, <4>2, <1>2
    <3>2. CASE U[i] = r
      BY <3>2, <1>2
    <3> QED
      BY <3>1, <3>2, <1>4
  <2>2. ASSUME NEW t \in Id, Z[t] # 0 PROVE \E i \in DOMAIN U : U[i].socket_fd = Z[t]
    <3>1. CASE t = s
      BY <3>1, <1>1, <1>2, <1>5
    <3>2. CASE t # s
      BY <3>2, <2>2, <1>1, <1>2, <1>5 DEF SlotsMatch
    <3> QED
      BY <3>1, <3>2
  <2>3. \A t, u \in Id : t # u /\ Z[t] # 0 => Z[t] # Z[u]
    BY <1>2, <1>3 DEF SlotsMatch
  <2> QED
    BY <2>1, <2>2, <2>3 DEF SlotsMatch
<1> QED
  BY <1>1, <1>6, <1>7, <1>8 DEF U, Z

-----------------------------------------------------------------------------
(* The roster.                                                             *)

\* The types that the steps below keep need.
LEMMA Typed ==
    ASSUME RosterInv
    PROVE  /\ client_socket \in [Id -> Conn \cup {0}] /\ connect_info_table \in Seq(RowType)
           /\ usr_pipe_table \in [Id \X Id -> 0 .. Len(pipes)] /\ environ \subseteq EnvVar
           /\ cur \in Line /\ ends \subseteq (1 .. Len(pipes)) \X {"rd", "wr"}
           /\ conns \in Nat /\ pipes \in Seq(PipeFor) /\ ran \in [Conn -> Nat]
           /\ readers \subseteq (1 .. Len(pipes)) \X Conn \X Nat
BY SingleAssumption DEF RosterInv, TypeOK

\* The line in progress is one that a user may type, and its user has a slot and a row.
LEMMA InLine ==
    ASSUME RosterInv, cur # Idle
    PROVE  /\ cur.slot \in Id /\ client_socket[cur.slot] = cur.sock
           /\ cur.idx \in Rows /\ Row.socket_fd = cur.sock /\ cur.sock \in Conn
           /\ cur.line \in Lines /\ cur.line \in Seq(Command)
           /\ cur.pos \in 1 .. Len(cur.line) /\ Len(cur.line) \in Nat /\ cmd \in Command
           /\ environ = Row.env
<1>1. cur \in Line /\ connect_info_table \in Seq(RowType)
  BY Typed
<1>2. /\ cur.slot \in Id /\ client_socket[cur.slot] = cur.sock /\ cur.idx \in Rows
      /\ Row.socket_fd = cur.sock /\ cur.pos \in DOMAIN cur.line
  BY DEF RosterInv, TypeOK
<1>3. cur.line \in Lines \cup {<<>>}
  BY <1>1 DEF Line
<1>4. cur.line # <<>>
  BY <1>2
<1>5. cur.line \in Seq(Command)
  BY <1>3, <1>4, SingleAssumption
<1>6. cur.pos \in 1 .. Len(cur.line) /\ Len(cur.line) \in Nat /\ cmd \in Command
  BY <1>2, <1>5, LenProperties, ElementOfSeq DEF cmd
<1>7. cur.sock \in Conn
  BY <1>1, <1>2, RowFields DEF Rows, Row
<1> QED
  BY <1>2, <1>3, <1>4, <1>5, <1>6, <1>7 DEF RosterInv, EnvironIsOwn

\* Where the line goes on.
LEMMA LineGoesOn ==
    ASSUME RosterInv, cur # Idle, NEW c, c = NextCmd \/ c = [cur EXCEPT !.waits = TRUE]
    PROVE  /\ c \in Line
           /\ \/ c = Idle
              \/ /\ c.slot = cur.slot /\ c.sock = cur.sock /\ c.idx = cur.idx
                 /\ c.line = cur.line /\ c.pos \in DOMAIN cur.line
<1>1. cur \in Line
  BY Typed
<1>2. /\ cur.pos \in 1 .. Len(cur.line) /\ DOMAIN cur.line = 1 .. Len(cur.line)
      /\ Len(cur.line) \in Nat
  BY InLine, LenProperties
<1>3. CASE c = Idle
  BY <1>3 DEF Idle, Line
<1>4. CASE c = [cur EXCEPT !.pos = @ + 1] /\ cur.pos # Len(cur.line)
  BY <1>1, <1>2, <1>4 DEF Line
<1>5. CASE c = [cur EXCEPT !.waits = TRUE]
  BY <1>1, <1>2, <1>5 DEF Line
<1> QED
  BY <1>3, <1>4, <1>5 DEF NextCmd, AtLast

\* A command that only changes its user's row.
LEMMA CommandKeepsRoster ==
    ASSUME RosterInv, cur # Idle, NEW nm \in Name \cup {NoName},
           nm = Row.user_name \/ nm \notin NamesInUse,
           NEW t \in Seq(Entry), NEW v \in SUBSET EnvVar,
           connect_info_table' = [connect_info_table EXCEPT
               ![cur.idx] = RowWith(Row, Row.cmd_no + 1, nm, t, v)],
           cur' = NextCmd \/ cur' = [cur EXCEPT !.waits = TRUE],
           environ' = v, ran' = [ran EXCEPT ![cur.sock] = @ + 1],
           client_socket' = client_socket, conns' = conns,
           usr_pipe_table' \in [Id \X Id -> 0 .. Len(pipes')], pipes' \in Seq(PipeFor),
           ends' \subseteq (1 .. Len(pipes')) \X {"rd", "wr"},
           readers' \subseteq (1 .. Len(pipes')) \X Conn \X Nat
    PROVE  RosterInv'
<1> DEFINE T == connect_info_table
           U == connect_info_table'
           r == RowWith(Row, Row.cmd_no + 1, nm, t, v)
<1>1. T \in Seq(RowType) /\ cur.idx \in DOMAIN T /\ Row = T[cur.idx] /\ DOMAIN T = Rows
  BY Typed, InLine DEF Rows, Row
<1>2. /\ r \in RowType /\ r.socket_fd = Row.socket_fd /\ r.user_id = Row.user_id
      /\ r.user_name = nm /\ r.env = v
  <2>1. Row \in RowType /\ Row.cmd_no + 1 \in Nat \ {0}
    BY <1>1, RowFields
  <2> HIDE DEF r
  <2>2. RowWith(Row, Row.cmd_no + 1, nm, t, v) = r
    BY DEF r
  <2> QED
    BY <2>1, <2>2 DEF RowType, RowWith
<1> HIDE DEF r
<1>3. /\ U \in Seq(RowType) /\ DOMAIN U = DOMAIN T
      /\ \A l \in DOMAIN T : U[l] = IF l = cur.idx THEN r ELSE T[l]
  BY <1>1, <1>2, RowSet DEF r
<1>4. SlotsMatch(client_socket, U) /\ RowsAmong(U, conns)
  BY <1>1, <1>2, <1>3 DEF RosterInv, SlotsMatch, RowsAmong
<1>5. RowsApart(U)
  <2>1. \A l \in DOMAIN T : l # cur.idx => T[l].user_name # nm \/ nm = Row.user_name
    BY <1>1 DEF NamesInUse
  <2>2. RowsApart(T)
    BY DEF RosterInv
  <2> QED
    BY <2>1, <2>2, <1>1, <1>2, <1>3 DEF RowsApart
<1>6. /\ cur' \in Line
      /\ \/ cur' = Idle
         \/ /\ cur'.slot \in Id /\ client_socket[cur'.slot] = cur'.sock
            /\ cur'.idx \in DOMAIN U /\ U[cur'.idx].socket_fd = cur'.sock
            /\ cur'.pos \in DOMAIN cur'.line /\ environ' = U[cur'.idx].env
  BY <1>1, <1>2, <1>3, InLine, LineGoesOn
<1>7. ran' \in [Conn -> Nat] /\ environ' \subseteq EnvVar
  BY Typed, InLine
<1>8. TypeOK'
  BY <1>3, <1>6, <1>7, Typed DEF TypeOK, Rows, Row, RosterInv
<1>9. EnvironIsOwn'
  BY <1>6 DEF EnvironIsOwn, Row, Idle
<1> QED
  BY <1>4, <1>5, <1>8, <1>9 DEF RosterInv

\* What a built-in does to its user's row.
LEMMA BuiltinsRow ==
    ASSUME RosterInv, RunName \/ RunSetenv \/ RunTalk
    PROVE  /\ cur # Idle /\ cur' = NextCmd /\ ran' = [ran EXCEPT ![cur.sock] = @ + 1]
           /\ UNCHANGED <<client_socket, usr_pipe_table, ends, conns, pipes, readers>>
           /\ Row.numpipe_table \in Seq(Entry)
           /\ \E nm \in Name \cup {NoName}, v \in SUBSET EnvVar :
                 /\ nm = Row.user_name \/ nm \in Name \ NamesInUse
                 /\ connect_info_table' = [connect_info_table EXCEPT ![cur.idx] =
                        RowWith(Row, Row.cmd_no + 1, nm, Row.numpipe_table, v)]
                 /\ environ' = v
<1> DEFINE T == connect_info_table
<1>1. /\ cur # Idle /\ cur' = NextCmd /\ ran' = [ran EXCEPT ![cur.sock] = @ + 1]
      /\ UNCHANGED <<client_socket, usr_pipe_table, ends, conns, pipes, readers>>
  BY DEF RunName, RunSetenv, RunTalk, Running, Counted
<1>2. /\ cur.idx \in DOMAIN T /\ Row = T[cur.idx] /\ environ = Row.env
      /\ T \in Seq(RowType)
  BY <1>1, InLine, Typed DEF Rows, Row
<1>3. /\ Row \in RowType /\ Row.user_name \in Name \cup {NoName} /\ Row.env \in SUBSET EnvVar
      /\ Row.numpipe_table \in Seq(Entry)
  BY <1>2, RowFields
<1>4. /\ cur.line \in Lines /\ cur.pos \in DOMAIN cur.line
  BY <1>1, InLine, LenProperties
<1>5. CASE RunName
  <2>1. cmd.arg \in Name
    BY <1>4, <1>5, SingleAssumption DEF RunName, cmd
  <2> DEFINE nm == IF cmd.arg \in NamesInUse THEN Row.user_name ELSE cmd.arg
  <2>2. connect_info_table' = [T EXCEPT ![cur.idx] =
            RowWith(Row, Row.cmd_no + 1, nm, Row.numpipe_table, Row.env)]
    <3>1. connect_info_table' = [T EXCEPT ![cur.idx] =
              [[Row EXCEPT !.cmd_no = Row.cmd_no + 1] EXCEPT !.user_name = nm]]
      BY <1>2, <1>5 DEF RunName
    <3>2. [Row EXCEPT !.cmd_no = Row.cmd_no + 1]
          = RowWith(Row, Row.cmd_no + 1, Row.user_name, Row.numpipe_table, Row.env)
      BY <1>3, RowCounted
    <3>3. [RowWith(Row, Row.cmd_no + 1, Row.user_name, Row.numpipe_table, Row.env)
              EXCEPT !.user_name = nm]
          = RowWith(Row, Row.cmd_no + 1, nm, Row.numpipe_table, Row.env)
      BY DEF RowWith
    <3> QED
      BY <3>1, <3>2, <3>3
  <2>3. environ' = Row.env
    BY <1>2, <1>5 DEF RunName
  <2>4. nm \in Name \cup {NoName} /\ (nm = Row.user_name \/ nm \in Name \ NamesInUse)
    BY <1>3, <2>1
  <2> HIDE DEF nm
  <2> QED
    BY <1>1, <1>3, <2>2, <2>3, <2>4
<1>6. CASE RunSetenv
  <2>1. cmd.arg \in EnvVar
    BY <1>4, <1>6, SingleAssumption DEF RunSetenv, cmd
  <2> DEFINE v == Row.env \cup {cmd.arg}
  <2>2. connect_info_table' = [T EXCEPT ![cur.idx] =
            RowWith(Row, Row.cmd_no + 1, Row.user_name, Row.numpipe_table, v)]
    <3>1. connect_info_table' = [T EXCEPT ![cur.idx] =
              [[Row EXCEPT !.cmd_no = Row.cmd_no + 1] EXCEPT !.env = v]]
      BY <1>2, <1>6 DEF RunSetenv
    <3>2. [Row EXCEPT !.cmd_no = Row.cmd_no + 1]
          = RowWith(Row, Row.cmd_no + 1, Row.user_name, Row.numpipe_table, Row.env)
      BY <1>3, RowCounted
    <3>3. [RowWith(Row, Row.cmd_no + 1, Row.user_name, Row.numpipe_table, Row.env)
              EXCEPT !.env = v]
          = RowWith(Row, Row.cmd_no + 1, Row.user_name, Row.numpipe_table, v)
      BY DEF RowWith
    <3> QED
      BY <3>1, <3>2, <3>3
  <2>3. environ' = v /\ v \in SUBSET EnvVar
    BY <1>2, <1>3, <1>6, <2>1 DEF RunSetenv
  <2> HIDE DEF v
  <2> QED
    BY <1>1, <1>3, <2>2, <2>3
<1>7. CASE RunTalk
  <2>1. connect_info_table' = [T EXCEPT ![cur.idx] =
            RowWith(Row, Row.cmd_no + 1, Row.user_name, Row.numpipe_table, Row.env)]
    <3>1. connect_info_table' = [T EXCEPT ![cur.idx] = [Row EXCEPT !.cmd_no = @ + 1]]
      BY <1>2, <1>7 DEF RunTalk
    <3>2. [Row EXCEPT !.cmd_no = @ + 1]
          = RowWith(Row, Row.cmd_no + 1, Row.user_name, Row.numpipe_table, Row.env)
      BY <1>3, RowCounted
    <3> QED
      BY <3>1, <3>2
  <2>2. environ' = Row.env
    BY <1>2, <1>7 DEF RunTalk
  <2> QED
    BY <1>1, <1>3, <2>1, <2>2
<1> QED
  BY <1>5, <1>6, <1>7

LEMMA BuiltinsKeepRoster ==
    ASSUME RosterInv, RunName \/ RunSetenv \/ RunTalk
    PROVE  RosterInv'
<1>1. /\ cur # Idle /\ cur' = NextCmd /\ ran' = [ran EXCEPT ![cur.sock] = @ + 1]
      /\ UNCHANGED <<client_socket, usr_pipe_table, ends, conns, pipes, readers>>
      /\ Row.numpipe_table \in Seq(Entry)
  BY BuiltinsRow
<1>2. PICK nm \in Name \cup {NoName}, v \in SUBSET EnvVar :
          /\ nm = Row.user_name \/ nm \in Name \ NamesInUse
          /\ connect_info_table' = [connect_info_table EXCEPT ![cur.idx] =
                 RowWith(Row, Row.cmd_no + 1, nm, Row.numpipe_table, v)]
          /\ environ' = v
  BY BuiltinsRow
<1>3. /\ usr_pipe_table' \in [Id \X Id -> 0 .. Len(pipes')] /\ pipes' \in Seq(PipeFor)
      /\ ends' \subseteq (1 .. Len(pipes')) \X {"rd", "wr"}
      /\ readers' \subseteq (1 .. Len(pipes')) \X Conn \X Nat
  BY <1>1, Typed
<1> QED
  BY <1>1, <1>2, <1>3, CommandKeepsRoster

LEMMA ExitKeepsRoster ==
    ASSUME RosterInv, RunExit
    PROVE  RosterInv'
<1> DEFINE T == connect_info_table
           V == RemoveAt(T, cur.idx)
           U == Bumped(V, cur.idx)
           Z == [client_socket EXCEPT ![cur.slot] = 0]
<1>1. cur # Idle /\ cmd.prog = "exit"
  BY DEF RunExit, Running
<1>2. /\ cur.idx \in DOMAIN T /\ T[cur.idx].socket_fd = client_socket[cur.slot]
      /\ cur.slot \in Id /\ cur.sock \in Conn
      /\ T \in Seq(RowType) /\ client_socket \in [Id -> Conn \cup {0}] /\ conns \in Nat
      /\ cur.idx \in 1 .. Len(T)
  BY <1>1, InLine, Typed, LenProperties DEF Rows, Row
<1>3. cur' = Idle
  <2>1. cur.pos = Len(cur.line)
    BY <1>1, InLine, LenProperties, SingleAssumption DEF cmd
  <2> QED
    BY <2>1 DEF RunExit, NextCmd, AtLast
<1>4. V \in Seq(RowType)
  BY <1>2, Removed
<1>5. SlotsMatch(Z, V) /\ RowsApart(V) /\ RowsAmong(V, conns)
  BY <1>2, UserLeaves DEF RosterInv
<1>6. U \in Seq(RowType) /\ SameUsers(V, U)
  BY <1>2, <1>4, BumpedRows
<1> HIDE DEF U, V, Z
<1>7. SlotsMatch(Z, U) /\ RowsApart(U) /\ RowsAmong(U, conns)
  BY <1>5, <1>6, UsersStay
<1>8. /\ connect_info_table' = U /\ client_socket' = Z
      /\ usr_pipe_table' = [ids \in Id \X Id |->
                               IF ids[2] = cur.idx THEN 0 ELSE usr_pipe_table[ids]]
      /\ ran' = [ran EXCEPT ![cur.sock] = @ + 1]
      /\ UNCHANGED <<environ, ends, conns, pipes, readers>>
  BY DEF RunExit, Counted, U, V, Z
<1>9. usr_pipe_table' \in [Id \X Id -> 0 .. Len(pipes)] /\ Z \in [Id -> Conn \cup {0}]
      /\ ran' \in [Conn -> Nat] /\ Idle \in Line
  <2>1. Len(pipes) \in Nat
    BY Typed, LenProperties
  <2>2. usr_pipe_table' \in [Id \X Id -> 0 .. Len(pipes)]
    BY <1>8, <2>1, Typed
  <2>3. Z \in [Id -> Conn \cup {0}]
    BY <1>2 DEF Z
  <2>4. ran' \in [Conn -> Nat]
    BY <1>8, <1>2, Typed
  <2>5. Idle \in Line
    BY DEF Idle, Line
  <2> QED
    BY <2>2, <2>3, <2>4, <2>5
<1>10. TypeOK'
  BY <1>3, <1>6, <1>8, <1>9 DEF TypeOK, RosterInv
<1> QED
  BY <1>3, <1>7, <1>8, <1>10 DEF RosterInv, EnvironIsOwn

LEMMA SelectKeepsRoster ==
    ASSUME RosterInv,
           \/ Accept
           \/ \E s \in Id : Disconnect(s)
           \/ \E s \in Id, l \in Lines : ReadLine(s, l)
           \/ WaitReturns
    PROVE  RosterInv'
<1> DEFINE T == connect_info_table
<1>1. T \in Seq(RowType) /\ client_socket \in [Id -> Conn \cup {0}] /\ conns \in Nat
      /\ DOMAIN T = 1 .. Len(T) /\ Rows = DOMAIN T
  BY Typed, LenProperties DEF Rows
<1>2. Idle \in Line
  BY DEF Idle, Line
<1>3. CASE Accept
  <2>1. PICK i \in Id \ IdsInUse, s \in Id :
            /\ client_socket[s] = 0
            /\ client_socket' = [client_socket EXCEPT ![s] = conns + 1]
            /\ connect_info_table' = Append(T,
                   [socket_fd |-> conns + 1, cmd_no |-> 1, user_id |-> i,
                    user_name |-> NoName, numpipe_table |-> <<>>, env |-> {}])
    BY <1>3 DEF Accept
  <2> DEFINE r == [socket_fd |-> conns + 1, cmd_no |-> 1, user_id |-> i,
                   user_name |-> NoName, numpipe_table |-> <<>>, env |-> {}]
  <2>2. /\ conns < MaxConn /\ conns' = conns + 1 /\ cur = Idle /\ cur' = Idle
        /\ UNCHANGED <<usr_pipe_table, environ, ends, pipes, readers, ran>>
    BY <1>3 DEF Accept, AtSelect
  <2>3. conns + 1 \in Conn /\ conns + 1 \in 0 .. MaxConn
    BY <1>1, <2>2, SingleAssumption DEF Conn
  <2>4. r \in RowType /\ r.socket_fd = conns + 1 /\ r.user_id = i /\ r.user_name = NoName
    BY <2>3 DEF RowType
  <2>5. connect_info_table' = Append(T, r)
    BY <2>1
  <2> HIDE DEF r
  <2>6. \A k \in DOMAIN T : T[k].user_id # r.user_id
    BY <1>1, <2>1, <2>4 DEF IdsInUse
  <2>7. /\ connect_info_table' \in Seq(RowType)
        /\ SlotsMatch(client_socket', connect_info_table') /\ RowsApart(connect_info_table')
        /\ RowsAmong(connect_info_table', conns')
    <3>1. /\ SlotsMatch(client_socket, T) /\ RowsApart(T) /\ RowsAmong(T, conns)
          /\ s \in Id /\ client_socket[s] = 0
      BY <2>1 DEF RosterInv
    <3> HIDE DEF T
    <3>2. /\ Append(T, r) \in Seq(RowType)
          /\ SlotsMatch([client_socket EXCEPT ![s] = conns + 1], Append(T, r))
          /\ RowsApart(Append(T, r)) /\ RowsAmong(Append(T, r), conns + 1)
      BY <1>1, <2>4, <2>6, <3>1, UserComes
    <3> QED
      BY <2>1, <2>2, <2>5, <3>2
  <2>8. client_socket' \in [Id -> Conn \cup {0}]
    BY <1>1, <2>1, <2>3
  <2>9. TypeOK'
    BY <1>2, <2>2, <2>3, <2>7, <2>8 DEF TypeOK, RosterInv
  <2> QED
    BY <2>2, <2>7, <2>9 DEF RosterInv, EnvironIsOwn
<1>4. ASSUME NEW s \in Id, Disconnect(s) PROVE RosterInv'
  <2>1. PICK k \in DOMAIN T : /\ T[k].socket_fd = client_socket[s]
                              /\ connect_info_table' = RemoveAt(T, k)
    BY <1>1, <1>4 DEF Disconnect
  <2>2. /\ client_socket' = [client_socket EXCEPT ![s] = 0] /\ cur = Idle /\ cur' = Idle
        /\ UNCHANGED <<usr_pipe_table, environ, ends, conns, pipes, readers, ran>>
    BY <1>4 DEF Disconnect, AtSelect
  <2>3. /\ SlotsMatch(client_socket', connect_info_table') /\ RowsApart(connect_info_table')
        /\ RowsAmong(connect_info_table', conns')
    BY <1>1, <2>1, <2>2, UserLeaves DEF RosterInv
  <2>4. connect_info_table' \in Seq(RowType) /\ client_socket' \in [Id -> Conn \cup {0}]
    BY <1>1, <2>1, <2>2, Removed
  <2>5. TypeOK'
    BY <1>2, <2>2, <2>4 DEF TypeOK, RosterInv
  <2> QED
    BY <2>2, <2>3, <2>5 DEF RosterInv, EnvironIsOwn
<1>5. ASSUME NEW s \in Id, NEW l \in Lines, ReadLine(s, l) PROVE RosterInv'
  <2>1. PICK k \in DOMAIN T :
            /\ T[k].socket_fd = client_socket[s] /\ environ' = T[k].env
            /\ cur' = IF l = <<>> THEN Idle
                      ELSE [sock |-> client_socket[s], slot |-> s, idx |-> k,
                            line |-> l, pos |-> 1, waits |-> FALSE]
    BY <1>1, <1>5 DEF ReadLine
  <2>2. UNCHANGED <<client_socket, connect_info_table, usr_pipe_table, ends,
                    conns, pipes, readers, ran>>
    BY <1>5 DEF ReadLine
  <2>3. environ' \subseteq EnvVar /\ T[k].socket_fd \in Conn /\ k \in Nat
    BY <1>1, <2>1, RowFields
  <2>4. CASE l = <<>>
    <3>1. cur' = Idle
      BY <2>1, <2>4
    <3>2. TypeOK'
      BY <1>2, <2>2, <2>3, <3>1 DEF TypeOK, RosterInv
    <3> QED
      BY <2>2, <3>1, <3>2 DEF RosterInv, EnvironIsOwn
  <2>5. CASE l # <<>>
    <3>1. l \in Seq(Command) /\ DOMAIN l = 1 .. Len(l) /\ Len(l) \in Nat /\ Len(l) # 0
      BY <2>5, SingleAssumption, LenProperties, EmptySeq
    <3>2. /\ cur'.sock = client_socket[s] /\ cur'.slot = s /\ cur'.idx = k /\ cur'.line = l
          /\ cur'.pos = 1
      BY <2>1, <2>5
    <3>3. cur' \in Line /\ cur'.pos \in DOMAIN cur'.line
      <4>1. client_socket[s] \in Nat /\ s \in Nat
        BY <2>1, <2>3 DEF Conn, Id
      <4> QED
        BY <2>1, <2>3, <2>5, <3>1, <3>2, <4>1 DEF Line
    <3>4. TypeOK'
      BY <1>1, <2>1, <2>2, <2>3, <3>2, <3>3 DEF TypeOK, RosterInv, Rows, Row
    <3> QED
      BY <2>1, <2>2, <3>2, <3>4 DEF RosterInv, EnvironIsOwn, Row
  <2> QED
    BY <2>4, <2>5
<1>6. CASE WaitReturns
  <2>1. TypeOK'
    BY <1>2, <1>6 DEF TypeOK, RosterInv, WaitReturns, Rows, Row
  <2> QED
    BY <1>6, <2>1 DEF RosterInv, EnvironIsOwn, WaitReturns
<1> QED
  BY <1>3, <1>4, <1>5, <1>6

-----------------------------------------------------------------------------
(* Pipes: what each of the stages of a command does to the tables.         *)

\* The first entry of several with one target is one of them.
LEMMA Smallest ==
    ASSUME NEW M, M \subseteq Nat, M # {}
    PROVE  \E i \in M : \A j \in M : i <= j
<1> DEFINE Less == OpToRel(<, Nat)
<1>1. IsWellFoundedOn(Less, Nat)
  BY NatLessThanWellFounded
<1>2. \A x, y \in Nat : x < y => <<x, y>> \in Less
  BY DEF OpToRel
<1> HIDE DEF Less
<1>3. PICK x \in M : \A y \in M : ~ (<<y, x>> \in Less)
  BY <1>1, WFMin
<1>4. ASSUME NEW y \in M PROVE x <= y
  <2>1. x \in Nat /\ y \in Nat
    OBVIOUS
  <2>2. ~(y < x)
    BY <1>2, <1>3, <2>1
  <2> QED
    BY <2>1, <2>2
<1> QED
  BY <1>4

LEMMA FirstIsEntry ==
    ASSUME NEW table \in Seq(Entry), NEW t, EntriesFor(t, table) # {}
    PROVE  FirstFor(t, table) \in DOMAIN table /\ table[FirstFor(t, table)].target_cmd_num = t
<1>1. EntriesFor(t, table) \subseteq Nat
  BY LenProperties DEF EntriesFor
<1>2. \E i \in EntriesFor(t, table) : \A j \in EntriesFor(t, table) : i <= j
  BY <1>1, Smallest
<1>3. FirstFor(t, table) \in EntriesFor(t, table)
  BY <1>2 DEF FirstFor
<1> QED
  BY <1>3 DEF EntriesFor

LEMMA EntriesReal ==
    ASSUME NEW N, AreEntries(N)
    PROVE  \A k \in DOMAIN N : \A i \in DOMAIN N[k] : N[k][i].pipe # 0
<1>1. \A k \in DOMAIN N : \A i \in DOMAIN N[k] : N[k][i] \in Entry
  BY LenProperties, ElementOfSeq DEF AreEntries
<1> QED
  BY <1>1 DEF Entry

\* Rows that are left keep their pipes, and cells are cleared.
LEMMA FewerPlaces ==
    ASSUME NEW N, NEW P, NEW E, NEW G, PipesSound(N, P, E, G),
           AreEntries(N), NEW M, NEW f,
           \A k \in DOMAIN M : f[k] \in DOMAIN N /\ M[k] = N[f[k]],
           \A k, l \in DOMAIN M : k # l => f[k] # f[l],
           NEW Q, \A a \in Id \X Id : Q[a] = 0 \/ Q[a] = P[a]
    PROVE  PipesSound(M, Q, E, G)
<1>1. EntriesApart(M)
  BY DEF PipesSound, EntriesApart
<1>2. CellsApart(Q)
  BY DEF PipesSound, CellsApart
<1>3. \A k \in DOMAIN N : \A i \in DOMAIN N[k] : N[k][i].pipe # 0
  BY EntriesReal
<1>4. EntriesNotCells(M, Q)
  BY <1>3 DEF PipesSound, EntriesNotCells
<1>5. EntriesHeld(M, E, G) /\ CellsHeld(Q, E, G) /\ ReadersAlone(E, G)
  BY DEF PipesSound, EntriesHeld, CellsHeld
<1> QED
  BY <1>1, <1>2, <1>4, <1>5 DEF PipesSound

\* The types of a command's numbers.
LEMMA CommandFields ==
    ASSUME NEW c \in Command
    PROVE  c.num \in Nat \ {0} /\ c.in_usr_id \in 0 .. MaxClients /\ c.out_usr_id \in Id
<1>1. c.num \in 1 .. MaxNum /\ c.in_usr_id \in 0 .. MaxClients /\ c.out_usr_id \in 1 .. MaxClients
  BY DEF Command
<1> QED
  BY <1>1, SingleAssumption DEF Id

\* Stage 1: an entry is erased.
LEMMA TakeEntry ==
    ASSUME NEW N, NEW P, NEW E, NEW G, PipesSound(N, P, E, G),
           NEW k \in DOMAIN N, N[k] \in Seq(Entry), NEW j \in DOMAIN N[k]
    PROVE  LET M == [N EXCEPT ![k] = RemoveAt(N[k], j)]
               p == N[k][j].pipe
               F == E \ {<<p, "wr">>}
           IN  PipesSound(M, P, F, G) /\ Loose(p, M, P, F, G) /\ <<p, "rd">> \in E
<1> DEFINE r == RemoveAt(N[k], j)
           M == [N EXCEPT ![k] = r]
           p == N[k][j].pipe
           F == E \ {<<p, "wr">>}
<1>1. j \in 1 .. Len(N[k]) /\ DOMAIN N[k] = 1 .. Len(N[k])
  BY LenProperties
<1>2. PICK f \in [DOMAIN r -> DOMAIN N[k] \ {j}] :
          /\ \A i \in DOMAIN r : r[i] = N[k][f[i]]
          /\ \A i, h \in DOMAIN r : i # h => f[i] # f[h]
  BY <1>1, RemovedOnce
<1>3. \A i \in DOMAIN r : f[i] \in DOMAIN N[k] /\ f[i] # j /\ r[i] = N[k][f[i]]
  BY <1>2
<1> HIDE DEF r
<1>4. DOMAIN M = DOMAIN N /\ \A l \in DOMAIN N : M[l] = IF l = k THEN r ELSE N[l]
  OBVIOUS
<1>5. p # 0
  <2>1. N[k][j] \in Entry
    BY <1>1, ElementOfSeq
  <2> QED
    BY <2>1 DEF Entry
<1> HIDE DEF M
<1>6. \A l \in DOMAIN M : \A i \in DOMAIN M[l] : M[l][i].pipe # p
  BY <1>3, <1>4 DEF PipesSound, EntriesApart
<1>7. \A a \in Id \X Id : P[a] # p
  BY DEF PipesSound, EntriesNotCells
<1>8. Held(p, E, G)
  BY DEF PipesSound, EntriesHeld
<1>9. Loose(p, M, P, F, G) /\ <<p, "rd">> \in E
  BY <1>5, <1>6, <1>7, <1>8 DEF Loose, Held
<1>10. EntriesApart(M)
  <2>1. SUFFICES ASSUME NEW l \in DOMAIN M, NEW m \in DOMAIN M, NEW i \in DOMAIN M[l],
                        NEW h \in DOMAIN M[m], M[l][i].pipe = M[m][h].pipe
                 PROVE  l = m /\ i = h
    BY DEF EntriesApart
  <2>2. l = m
    BY <2>1, <1>3, <1>4 DEF PipesSound, EntriesApart
  <2> QED
    BY <2>1, <2>2, <1>2, <1>3, <1>4 DEF PipesSound, EntriesApart
<1>11. EntriesNotCells(M, P)
  BY <1>3, <1>4 DEF PipesSound, EntriesNotCells
<1>12. \A q : q # p /\ Held(q, E, G) => Held(q, F, G)
  BY DEF Held
<1>13. EntriesHeld(M, F, G)
  <2>1. \A l \in DOMAIN M : \A i \in DOMAIN M[l] : \E h \in DOMAIN N[l] : M[l][i] = N[l][h]
    BY <1>3, <1>4
  <2>2. \A l \in DOMAIN M : \A i \in DOMAIN M[l] : Held(M[l][i].pipe, E, G)
    BY <1>4, <2>1 DEF PipesSound, EntriesHeld
  <2> QED
    BY <1>6, <1>12, <2>2 DEF EntriesHeld
<1>14. CellsHeld(P, F, G)
  BY <1>7, <1>12 DEF PipesSound, CellsHeld
<1>15. CellsApart(P) /\ ReadersAlone(F, G)
  BY DEF PipesSound, ReadersAlone
<1> QED
  BY <1>9, <1>10, <1>11, <1>13, <1>14, <1>15 DEF PipesSound, M, r

\* Stage 2: an entry is added, with a pipe that was not there.
LEMMA AddEntry ==
    ASSUME NEW N, NEW P, NEW E, NEW G, PipesSound(N, P, E, G),
           NEW k \in DOMAIN N, N[k] \in Seq(Entry), NEW e \in Entry,
           Unread(e.pipe, G), \A a \in Id \X Id : P[a] # e.pipe,
           \A l \in DOMAIN N : \A i \in DOMAIN N[l] : N[l][i].pipe # e.pipe
    PROVE  LET M == [N EXCEPT ![k] = Append(N[k], e)]
               F == E \cup {<<e.pipe, "rd">>, <<e.pipe, "wr">>}
           IN  /\ PipesSound(M, P, F, G)
               /\ \A q : q # e.pipe /\ Loose(q, N, P, E, G) => Loose(q, M, P, F, G)
<1> DEFINE r == Append(N[k], e)
           M == [N EXCEPT ![k] = r]
           p == e.pipe
           F == E \cup {<<p, "rd">>, <<p, "wr">>}
<1>1. /\ DOMAIN r = 1 .. Len(N[k]) + 1 /\ r[Len(N[k]) + 1] = e /\ DOMAIN N[k] = 1 .. Len(N[k])
      /\ \A i \in 1 .. Len(N[k]) : r[i] = N[k][i]
      /\ Len(N[k]) \in Nat
  BY AppendProperties, LenProperties
<1> HIDE DEF r
<1>2. \A i \in DOMAIN r : \/ i \in DOMAIN N[k] /\ r[i] = N[k][i]
                          \/ i = Len(N[k]) + 1 /\ i \notin DOMAIN N[k] /\ r[i] = e
  BY <1>1
<1>3. DOMAIN M = DOMAIN N /\ \A l \in DOMAIN N : M[l] = IF l = k THEN r ELSE N[l]
  OBVIOUS
<1> HIDE DEF M
<1>4. \A l \in DOMAIN M : \A i \in DOMAIN M[l] :
          \/ i \in DOMAIN N[l] /\ M[l][i] = N[l][i]
          \/ l = k /\ i = Len(N[k]) + 1 /\ M[l][i] = e
  BY <1>2, <1>3
<1> HIDE DEF p
<1>5. EntriesApart(M)
  BY <1>3, <1>4 DEF PipesSound, EntriesApart, p
<1>6. EntriesNotCells(M, P)
  BY <1>3, <1>4 DEF PipesSound, EntriesNotCells, p
<1>7. \A q : Held(q, E, G) => Held(q, F, G)
  BY DEF Held
<1>8. Held(p, F, G)
  BY DEF Held, p
<1>9. EntriesHeld(M, F, G)
  BY <1>3, <1>4, <1>7, <1>8 DEF PipesSound, EntriesHeld, p
<1>10. CellsHeld(P, F, G) /\ CellsApart(P)
  BY <1>7 DEF PipesSound, CellsHeld
<1>11. ReadersAlone(F, G)
  BY DEF PipesSound, ReadersAlone, Unread, p
<1>12. ASSUME NEW q, q # p, Loose(q, N, P, E, G) PROVE Loose(q, M, P, F, G)
  BY <1>3, <1>4, <1>12 DEF Loose, p
<1> QED
  BY <1>5, <1>6, <1>9, <1>10, <1>11, <1>12 DEF PipesSound, M, r, p

\* Stage 3: a cell is cleared, if there is such a cell.
LEMMA TakeCell ==
    ASSUME NEW N, NEW P, NEW E, NEW G, PipesSound(N, P, E, G), AreEntries(N), NEW c
    PROVE  LET p == InCell(P, c)
               F == E \ {<<p, "wr">>}
           IN  /\ PipesSound(N, Cleared(P, c), F, G)
               /\ p # 0 => Loose(p, N, Cleared(P, c), F, G) /\ <<p, "rd">> \in E
               /\ \A q : Loose(q, N, P, E, G) => Loose(q, N, Cleared(P, c), F, G)
<1> DEFINE p == InCell(P, c)
           F == E \ {<<p, "wr">>}
           Q == Cleared(P, c)
<1>1. \A a \in Id \X Id : Q[a] = IF a = c THEN 0 ELSE P[a]
  BY DEF Cleared
<1>2. p = IF c \in Id \X Id THEN P[c] ELSE 0
  BY DEF InCell
<1>3. \A k \in DOMAIN N : \A i \in DOMAIN N[k] : N[k][i].pipe # 0
  BY EntriesReal
<1> HIDE DEF Q, p
<1>4. CellsApart(Q)
  BY <1>1 DEF PipesSound, CellsApart
<1>5. EntriesNotCells(N, Q)
  BY <1>1, <1>3 DEF PipesSound, EntriesNotCells
<1>6. /\ \A k \in DOMAIN N : \A i \in DOMAIN N[k] : N[k][i].pipe # p
      /\ \A a \in Id \X Id : Q[a] # 0 => Q[a] # p
  BY <1>1, <1>2, <1>3 DEF PipesSound, CellsApart, EntriesNotCells
<1>7. \A q : q # p /\ Held(q, E, G) => Held(q, F, G)
  BY DEF Held
<1>8. EntriesHeld(N, F, G)
  BY <1>6, <1>7 DEF PipesSound, EntriesHeld
<1>9. CellsHeld(Q, F, G)
  BY <1>1, <1>6, <1>7 DEF PipesSound, CellsHeld
<1>10. EntriesApart(N) /\ ReadersAlone(F, G)
  BY DEF PipesSound, ReadersAlone
<1>11. ASSUME p # 0 PROVE Loose(p, N, Q, F, G) /\ <<p, "rd">> \in E
  <2>1. Held(p, E, G)
    BY <1>2, <1>11 DEF PipesSound, CellsHeld
  <2> QED
    BY <1>6, <1>11, <2>1 DEF Loose, Held
<1>12. ASSUME NEW q, Loose(q, N, P, E, G) PROVE Loose(q, N, Q, F, G)
  BY <1>1, <1>12 DEF Loose
<1> QED
  BY <1>4, <1>5, <1>8, <1>9, <1>10, <1>11, <1>12 DEF PipesSound, Q, p

\* Stage 4: a cell is filled with a pipe that was not there.
LEMMA FillCell ==
    ASSUME NEW N, NEW P \in [Id \X Id -> Nat], NEW E, NEW G, PipesSound(N, P, E, G),
           NEW c \in Id \X Id, NEW p \in Nat \ {0},
           Unread(p, G), \A a \in Id \X Id : P[a] # p,
           \A l \in DOMAIN N : \A i \in DOMAIN N[l] : N[l][i].pipe # p
    PROVE  LET Q == [P EXCEPT ![c] = p]
               F == E \cup {<<p, "rd">>, <<p, "wr">>}
           IN  /\ PipesSound(N, Q, F, G)
               /\ \A q : q # p /\ Loose(q, N, P, E, G) => Loose(q, N, Q, F, G)
<1> DEFINE Q == [P EXCEPT ![c] = p]
           F == E \cup {<<p, "rd">>, <<p, "wr">>}
<1>1. \A a \in Id \X Id : Q[a] = IF a = c THEN p ELSE P[a]
  OBVIOUS
<1> HIDE DEF Q
<1>2. CellsApart(Q) /\ EntriesNotCells(N, Q)
  BY <1>1 DEF PipesSound, CellsApart, EntriesNotCells
<1>3. /\ \A q : Held(q, E, G) => Held(q, F, G)
      /\ Held(p, F, G)
  BY DEF Held
<1>4. EntriesHeld(N, F, G) /\ CellsHeld(Q, F, G)
  BY <1>1, <1>3 DEF PipesSound, EntriesHeld, CellsHeld
<1>5. ReadersAlone(F, G)
  BY DEF PipesSound, ReadersAlone, Unread
<1>6. ASSUME NEW q, q # p, Loose(q, N, P, E, G) PROVE Loose(q, N, Q, F, G)
  BY <1>1, <1>6 DEF Loose
<1> QED
  BY <1>2, <1>4, <1>5, <1>6 DEF PipesSound, Q

\* The command is started and reads the pipe that was taken out.
LEMMA GivePipe ==
    ASSUME NEW N, NEW P, NEW E, NEW G, PipesSound(N, P, E, G),
           NEW p, Loose(p, N, P, E, G), NEW c, NEW n
    PROVE  PipesSound(N, P, E \ {<<p, "rd">>}, G \cup {<<p, c, n>>})
<1> DEFINE F == E \ {<<p, "rd">>}
           H == G \cup {<<p, c, n>>}
<1>1. \A q : q # p /\ Held(q, E, G) => Held(q, F, H)
  BY DEF Held, Unread
<1>2. EntriesHeld(N, F, H) /\ CellsHeld(P, F, H)
  BY <1>1 DEF PipesSound, EntriesHeld, CellsHeld, Loose
<1>3. ReadersAlone(F, H)
  <2>1. \A q \in H : (q \in G /\ q[1] # p) \/ (q = <<p, c, n>> /\ q[1] = p)
    BY DEF Loose, Unread
  <2>2. \A q \in G : /\ \A r \in G : r[1] = q[1] => r = q
                     /\ <<q[1], "rd">> \notin F /\ <<q[1], "wr">> \notin F
    BY DEF PipesSound, ReadersAlone
  <2>3. <<p, "rd">> \notin F /\ <<p, "wr">> \notin F
    BY DEF Loose
  <2> QED
    BY <2>1, <2>2, <2>3 DEF ReadersAlone
<1>4. EntriesApart(N) /\ CellsApart(P) /\ EntriesNotCells(N, P)
  BY DEF PipesSound
<1> QED
  BY <1>2, <1>3, <1>4 DEF PipesSound

-----------------------------------------------------------------------------
(* Pipes: the stages of the command that is run.                           *)

\* The pipes in the tables are among those that were made.
LEMMA PipesMade ==
    ASSUME RosterInv, PipesInv
    PROVE  LET N == NumPipes(connect_info_table)
           IN  /\ DOMAIN N = Rows
               /\ \A k \in Rows : N[k] = connect_info_table[k].numpipe_table /\ N[k] \in Seq(Entry)
               /\ \A k \in Rows : \A j \in DOMAIN N[k] : N[k][j].pipe \in 1 .. Len(pipes)
               /\ \A a \in Id \X Id : usr_pipe_table[a] \in 0 .. Len(pipes)
               /\ \A r \in readers : r[1] \in 1 .. Len(pipes)
               /\ Len(pipes) \in Nat
<1> DEFINE N == NumPipes(connect_info_table)
<1>1. /\ DOMAIN N = Rows
      /\ \A k \in Rows : N[k] = connect_info_table[k].numpipe_table
  BY DEF NumPipes, Rows
<1>2. \A k \in Rows : N[k] \in Seq(Entry)
  BY <1>1, Typed, RowFields DEF Rows
<1> HIDE DEF N
<1>3. \A k \in Rows : \A j \in DOMAIN N[k] : N[k][j].pipe \in 1 .. Len(pipes)
  <2>1. \A k \in Rows : \A j \in DOMAIN N[k] : <<N[k][j].pipe, "rd">> \in ends
    BY <1>1 DEF PipesInv, PipesSound, EntriesHeld, Held, N
  <2> QED
    BY <2>1, Typed
<1>4. /\ \A a \in Id \X Id : usr_pipe_table[a] \in 0 .. Len(pipes)
      /\ \A r \in readers : r[1] \in 1 .. Len(pipes)
      /\ Len(pipes) \in Nat
  BY Typed, LenProperties
<1> QED
  BY <1>1, <1>2, <1>3, <1>4 DEF N

\* After the numbered pipe was looked for.
LEMMA AfterTarget ==
    ASSUME RosterInv, PipesInv, cur # Idle
    PROVE  LET N == [NumPipes(connect_info_table) EXCEPT ![cur.idx] = TableAfterTarget]
           IN  /\ TableAfterTarget \in Seq(Entry)
               /\ NumPipe \in 0 .. Len(pipes)
               /\ PipesSound(N, usr_pipe_table, EndsAfterTarget, readers)
               /\ NumPipe # 0 => Loose(NumPipe, N, usr_pipe_table, EndsAfterTarget, readers)
               /\ EndsAfterTarget \subseteq (1 .. Len(pipes)) \X {"rd", "wr"}
               /\ \A k \in Rows : \A j \in DOMAIN N[k] : N[k][j].pipe \in 1 .. Len(pipes)
<1> DEFINE B == NumPipes(connect_info_table)
           k == cur.idx
           t == Row.numpipe_table
           N == [B EXCEPT ![k] = TableAfterTarget]
           f == FirstFor(Row.cmd_no, t)
<1>1. /\ k \in DOMAIN B /\ B[k] = t /\ t \in Seq(Entry) /\ DOMAIN B = Rows
      /\ \A l \in DOMAIN B : \A j \in DOMAIN B[l] : B[l][j].pipe \in 1 .. Len(pipes)
      /\ Len(pipes) \in Nat
  BY InLine, PipesMade DEF Row
<1>2. /\ PipesSound(B, usr_pipe_table, ends, readers)
      /\ ends \subseteq (1 .. Len(pipes)) \X {"rd", "wr"}
  BY Typed DEF PipesInv
<1> HIDE DEF B
<1>3. ASSUME IsTarget
      PROVE  /\ TableAfterTarget \in Seq(Entry)
             /\ NumPipe \in 0 .. Len(pipes)
             /\ PipesSound(N, usr_pipe_table, EndsAfterTarget, readers)
             /\ NumPipe # 0 => Loose(NumPipe, N, usr_pipe_table, EndsAfterTarget, readers)
             /\ EndsAfterTarget \subseteq (1 .. Len(pipes)) \X {"rd", "wr"}
             /\ \A l \in Rows : \A j \in DOMAIN N[l] : N[l][j].pipe \in 1 .. Len(pipes)
  <2>1. f \in DOMAIN t
    BY <1>1, <1>3, FirstIsEntry DEF IsTarget
  <2>2. NumPipe = t[f].pipe /\ TableAfterTarget = RemoveAt(t, f)
    BY <1>3 DEF NumPipe, TableAfterTarget
  <2> HIDE DEF f, t
  <2>3. /\ PipesSound(N, usr_pipe_table, EndsAfterTarget, readers)
        /\ Loose(NumPipe, N, usr_pipe_table, EndsAfterTarget, readers)
    BY <1>1, <1>2, <2>1, <2>2, TakeEntry DEF EndsAfterTarget
  <2>4. f \in 1 .. Len(t) /\ DOMAIN t = 1 .. Len(t) /\ Len(t) \in Nat
    BY <1>1, <2>1, LenProperties
  <2>5. /\ TableAfterTarget \in Seq(Entry)
        /\ \A j \in DOMAIN TableAfterTarget : \E i \in DOMAIN t : TableAfterTarget[j] = t[i]
    <3>1. /\ RemoveAt(t, f) \in Seq(Entry) /\ DOMAIN RemoveAt(t, f) = 1 .. Len(t) - 1
          /\ \A j \in 1 .. Len(t) - 1 : RemoveAt(t, f)[j] = t[IF j < f THEN j ELSE j + 1]
      BY <1>1, <2>4, Removed
    <3>2. \A j \in 1 .. Len(t) - 1 : (IF j < f THEN j ELSE j + 1) \in DOMAIN t
      BY <2>4
    <3> QED
      BY <2>2, <3>1, <3>2
  <2>6. NumPipe \in 0 .. Len(pipes)
    BY <1>1, <2>1, <2>2
  <2>7. \A l \in Rows : \A j \in DOMAIN N[l] : N[l][j].pipe \in 1 .. Len(pipes)
    BY <1>1, <2>5
  <2>8. EndsAfterTarget \subseteq (1 .. Len(pipes)) \X {"rd", "wr"}
    BY <1>2 DEF EndsAfterTarget
  <2> QED
    BY <2>3, <2>5, <2>6, <2>7, <2>8
<1>4. ASSUME ~IsTarget
      PROVE  /\ TableAfterTarget \in Seq(Entry)
             /\ NumPipe \in 0 .. Len(pipes)
             /\ PipesSound(N, usr_pipe_table, EndsAfterTarget, readers)
             /\ NumPipe # 0 => Loose(NumPipe, N, usr_pipe_table, EndsAfterTarget, readers)
             /\ EndsAfterTarget \subseteq (1 .. Len(pipes)) \X {"rd", "wr"}
             /\ \A l \in Rows : \A j \in DOMAIN N[l] : N[l][j].pipe \in 1 .. Len(pipes)
  <2>1. NumPipe = 0 /\ TableAfterTarget = t
    BY <1>4 DEF NumPipe, TableAfterTarget
  <2>2. <<NumPipe, "wr">> \notin ends
    BY <1>2, <2>1
  <2>3. EndsAfterTarget = ends
    BY <2>2 DEF EndsAfterTarget
  <2>4. N = B
    BY <1>1, <2>1 DEF B, NumPipes
  <2> HIDE DEF N
  <2> QED
    BY <1>1, <1>2, <2>1, <2>3, <2>4
<1> QED
  BY <1>3, <1>4 DEF B

\* After the pipe for the output was looked for or created.
LEMMA AfterOut ==
    ASSUME RosterInv, PipesInv, cur # Idle, cmd \in Command
    PROVE  LET N == [NumPipes(connect_info_table) EXCEPT ![cur.idx] = TableAfterOut]
               n == IF NewNumPipe THEN Len(pipes) + 1 ELSE Len(pipes)
           IN  /\ TableAfterOut \in Seq(Entry)
               /\ NumPipe \in 0 .. Len(pipes)
               /\ PipesSound(N, usr_pipe_table, EndsAfterOut, readers)
               /\ NumPipe # 0 => Loose(NumPipe, N, usr_pipe_table, EndsAfterOut, readers)
               /\ EndsAfterOut \subseteq (1 .. n) \X {"rd", "wr"}
               /\ \A k \in Rows : \A j \in DOMAIN N[k] : N[k][j].pipe \in 1 .. n
<1> DEFINE B == NumPipes(connect_info_table)
           k == cur.idx
           A == [B EXCEPT ![k] = TableAfterTarget]
           N == [B EXCEPT ![k] = TableAfterOut]
           n == IF NewNumPipe THEN Len(pipes) + 1 ELSE Len(pipes)
<1>1. /\ k \in DOMAIN B /\ DOMAIN B = Rows /\ Len(pipes) \in Nat /\ New = Len(pipes) + 1
      /\ \A a \in Id \X Id : usr_pipe_table[a] \in 0 .. Len(pipes)
      /\ \A r \in readers : r[1] \in 1 .. Len(pipes)
  BY InLine, PipesMade DEF New
<1>2. /\ TableAfterTarget \in Seq(Entry) /\ NumPipe \in 0 .. Len(pipes)
      /\ PipesSound(A, usr_pipe_table, EndsAfterTarget, readers)
      /\ NumPipe # 0 => Loose(NumPipe, A, usr_pipe_table, EndsAfterTarget, readers)
      /\ EndsAfterTarget \subseteq (1 .. Len(pipes)) \X {"rd", "wr"}
      /\ \A l \in Rows : \A j \in DOMAIN A[l] : A[l][j].pipe \in 1 .. Len(pipes)
  BY AfterTarget
<1> HIDE DEF B
<1>3. /\ DOMAIN A = Rows /\ A[k] = TableAfterTarget /\ N = [A EXCEPT ![k] = TableAfterOut]
      /\ N[k] = TableAfterOut /\ \A l \in Rows : l # k => N[l] = A[l]
  BY <1>1
<1> HIDE DEF A, N
<1>4. ASSUME NewNumPipe
      PROVE  /\ TableAfterOut \in Seq(Entry)
             /\ PipesSound(N, usr_pipe_table, EndsAfterOut, readers)
             /\ NumPipe # 0 => Loose(NumPipe, N, usr_pipe_table, EndsAfterOut, readers)
             /\ EndsAfterOut \subseteq (1 .. n) \X {"rd", "wr"}
             /\ \A l \in Rows : \A j \in DOMAIN N[l] : N[l][j].pipe \in 1 .. n
  <2> DEFINE e == [target_cmd_num |-> Dest, pipe |-> New]
  <2>1. Row.cmd_no \in Nat \ {0}
    BY InLine, Typed, RowFields DEF Row, Rows
  <2>2. cmd.num \in Nat
    BY CommandFields
  <2>3. Dest \in Nat \ {0}
    BY <2>1, <2>2 DEF Dest
  <2>4. e \in Entry /\ e.pipe = New
    BY <1>1, <2>3 DEF Entry
  <2>5. TableAfterOut = Append(TableAfterTarget, e)
    BY <1>4 DEF TableAfterOut
  <2> HIDE DEF e
  <2>6. /\ Unread(New, readers) /\ \A a \in Id \X Id : usr_pipe_table[a] # New
        /\ \A l \in DOMAIN A : \A i \in DOMAIN A[l] : A[l][i].pipe # New
        /\ NumPipe # New
    BY <1>1, <1>2, <1>3 DEF Unread
  <2>7. EndsAfterOut = EndsAfterTarget \cup {<<New, "rd">>, <<New, "wr">>}
    BY <1>4 DEF EndsAfterOut, NewEnds
  <2>8. /\ PipesSound(N, usr_pipe_table, EndsAfterOut, readers)
        /\ \A q : q # New /\ Loose(q, A, usr_pipe_table, EndsAfterTarget, readers)
                    => Loose(q, N, usr_pipe_table, EndsAfterOut, readers)
    <3>1. k \in DOMAIN A /\ A[k] \in Seq(Entry) /\ N = [A EXCEPT ![k] = Append(A[k], e)]
      BY <1>1, <1>2, <1>3, <2>5
    <3> QED
      BY <1>2, <2>4, <2>6, <2>7, <3>1, AddEntry
  <2>9. /\ TableAfterOut \in Seq(Entry)
        /\ \A j \in DOMAIN TableAfterOut :
              \/ j \in DOMAIN TableAfterTarget /\ TableAfterOut[j] = TableAfterTarget[j]
              \/ TableAfterOut[j] = e
    BY <1>2, <2>4, <2>5, AppendProperties, LenProperties
  <2>10. \A l \in Rows : \A j \in DOMAIN N[l] : N[l][j].pipe \in 1 .. Len(pipes) + 1
    <3>1. \A l \in Rows : \A j \in DOMAIN A[l] : A[l][j].pipe \in 1 .. Len(pipes) + 1
      BY <1>1, <1>2
    <3>2. New \in 1 .. Len(pipes) + 1
      BY <1>1
    <3> QED
      BY <1>1, <1>3, <2>4, <2>9, <3>1, <3>2
  <2>11. EndsAfterOut \subseteq (1 .. Len(pipes) + 1) \X {"rd", "wr"}
    BY <1>1, <1>2, <2>7
  <2> QED
    BY <1>2, <1>4, <2>6, <2>8, <2>9, <2>10, <2>11
<1>5. ASSUME ~NewNumPipe
      PROVE  /\ TableAfterOut \in Seq(Entry)
             /\ PipesSound(N, usr_pipe_table, EndsAfterOut, readers)
             /\ NumPipe # 0 => Loose(NumPipe, N, usr_pipe_table, EndsAfterOut, readers)
             /\ EndsAfterOut \subseteq (1 .. n) \X {"rd", "wr"}
             /\ \A l \in Rows : \A j \in DOMAIN N[l] : N[l][j].pipe \in 1 .. n
  <2>1. TableAfterOut = TableAfterTarget /\ EndsAfterOut = EndsAfterTarget
    BY <1>5 DEF TableAfterOut, EndsAfterOut
  <2>2. N = A
    BY <2>1 DEF A, N
  <2> QED
    BY <1>2, <1>5, <2>1, <2>2
<1> QED
  BY <1>2, <1>4, <1>5 DEF B, N

\* After the pipe from another user was looked for.
LEMMA AfterIn ==
    ASSUME RosterInv, PipesInv, cur # Idle, cmd \in Command
    PROVE  LET N == [NumPipes(connect_info_table) EXCEPT ![cur.idx] = TableAfterOut]
               n == IF NewNumPipe THEN Len(pipes) + 1 ELSE Len(pipes)
           IN  /\ UserPipesAfterIn \in [Id \X Id -> 0 .. Len(pipes)]
               /\ InPipe \in 0 .. Len(pipes)
               /\ PipesSound(N, UserPipesAfterIn, EndsAfterIn, readers)
               /\ NumPipe # 0 => Loose(NumPipe, N, UserPipesAfterIn, EndsAfterIn, readers)
               /\ InPipe # 0 => Loose(InPipe, N, UserPipesAfterIn, EndsAfterIn, readers)
               /\ EndsAfterIn \subseteq (1 .. n) \X {"rd", "wr"}
<1> DEFINE N == [NumPipes(connect_info_table) EXCEPT ![cur.idx] = TableAfterOut]
           n == IF NewNumPipe THEN Len(pipes) + 1 ELSE Len(pipes)
           c == <<cmd.in_usr_id, me>>
           P == usr_pipe_table
<1>1. /\ PipesSound(N, P, EndsAfterOut, readers) /\ TableAfterOut \in Seq(Entry)
      /\ NumPipe # 0 => Loose(NumPipe, N, P, EndsAfterOut, readers)
      /\ EndsAfterOut \subseteq (1 .. n) \X {"rd", "wr"}
      /\ \A k \in Rows : \A j \in DOMAIN N[k] : N[k][j].pipe \in 1 .. n
  BY AfterOut
<1>2. DOMAIN N = Rows
  BY PipesMade
<1>3. P \in [Id \X Id -> 0 .. Len(pipes)] /\ Len(pipes) \in Nat
  BY Typed, PipesMade
<1>4. me \in Id
  BY InLine, Typed, RowFields DEF Row, Rows, me
<1>5. cmd.in_usr_id # 0 <=> c \in Id \X Id
  <2>1. cmd.in_usr_id \in 0 .. MaxClients
    BY CommandFields
  <2>2. cmd.in_usr_id # 0 <=> cmd.in_usr_id \in Id
    BY <2>1, SingleAssumption DEF Id
  <2> QED
    BY <1>4, <2>2
<1>6. InPipe = InCell(P, c)
  BY <1>5 DEF InPipe, InCell
<1>7. InPipe \in 0 .. Len(pipes)
  BY <1>3, <1>6 DEF InCell
<1>8. UserPipesAfterIn = Cleared(P, c) /\ EndsAfterIn = EndsAfterOut \ {<<InPipe, "wr">>}
  BY DEF UserPipesAfterIn, EndsAfterIn, Cleared
<1>9. UserPipesAfterIn \in [Id \X Id -> 0 .. Len(pipes)]
  BY <1>3 DEF UserPipesAfterIn
<1>10. AreEntries(N)
  BY <1>1, PipesMade DEF AreEntries
<1> HIDE DEF N, c
<1>11. /\ PipesSound(N, UserPipesAfterIn, EndsAfterIn, readers)
       /\ InPipe # 0 => Loose(InPipe, N, UserPipesAfterIn, EndsAfterIn, readers)
       /\ \A q : Loose(q, N, P, EndsAfterOut, readers)
                   => Loose(q, N, UserPipesAfterIn, EndsAfterIn, readers)
  BY <1>1, <1>6, <1>8, <1>10, TakeCell
<1>12. EndsAfterIn \subseteq (1 .. n) \X {"rd", "wr"}
  BY <1>1, <1>8
<1> QED
  BY <1>1, <1>7, <1>9, <1>11, <1>12 DEF N

\* The row that the code finds for an id is the user's.
LEMMA RowOfUser ==
    ASSUME RosterInv, NEW k \in Rows
    PROVE  LET i == connect_info_table[k].user_id
           IN  RowOf(i) = connect_info_table[k] /\ SocketOf(i) = connect_info_table[k].socket_fd
<1> DEFINE i == connect_info_table[k].user_id
<1>1. \A l \in Rows : connect_info_table[l].user_id = i => l = k
  BY DEF RosterInv, RowsApart, Rows
<1>2. (CHOOSE l \in Rows : connect_info_table[l].user_id = i) = k
  BY <1>1
<1> QED
  BY <1>2 DEF RowOf, SocketOf

\* For whom a pipe is made.
LEMMA MadeForTyped ==
    ASSUME RosterInv, cur # Idle, cmd.out = "user" => cmd.out_usr_id \in IdsInUse
    PROVE  MadeFor \in PipeFor
<1>1. cur.sock \in Conn /\ cmd \in Command /\ ran[cur.sock] \in Nat
  BY InLine, Typed
<1>2. ran[cur.sock] + 1 + (IF cmd.out = "pipe" THEN 1 ELSE cmd.num) \in Nat
  <2>1. cmd.num \in Nat
    BY <1>1, CommandFields
  <2> QED
    BY <1>1, <2>1
<1>3. CASE cmd.out = "user"
  <2>1. PICK k \in Rows : connect_info_table[k].user_id = cmd.out_usr_id
    BY <1>3 DEF IdsInUse
  <2>2. SocketOf(cmd.out_usr_id) \in Conn
    <3>1. SocketOf(connect_info_table[k].user_id) = connect_info_table[k].socket_fd
      BY RowOfUser
    <3>2. connect_info_table[k].socket_fd \in Conn
      BY RowFields, Typed DEF Rows
    <3> QED
      BY <2>1, <3>1, <3>2
  <2> QED
    BY <1>1, <1>3, <2>2 DEF MadeFor, NewUserPipe, PipeFor
<1>4. CASE cmd.out # "user"
  BY <1>1, <1>2, <1>4 DEF MadeFor, NewUserPipe, PipeFor
<1> QED
  BY <1>3, <1>4

\* What every command to execute does to its user's row.
LEMMA ExecutesRow ==
    ASSUME RosterInv, PipesInv, Executes
    PROVE  /\ cur # Idle /\ cmd \in Command /\ cur.idx \in Rows /\ Row \in RowType
           /\ connect_info_table' = [connect_info_table EXCEPT ![cur.idx] =
                  RowWith(Row, Row.cmd_no + 1, Row.user_name, TableAfterOut, Row.env)]
           /\ NumPipes(connect_info_table')
                = [NumPipes(connect_info_table) EXCEPT ![cur.idx] = TableAfterOut]
           /\ ran' = [ran EXCEPT ![cur.sock] = @ + 1]
           /\ environ' = Row.env /\ UNCHANGED <<client_socket, conns>>
<1> DEFINE T == connect_info_table
           q == RowWith(Row, Row.cmd_no + 1, Row.user_name, TableAfterOut, Row.env)
<1>1. cur # Idle
  BY DEF Executes, Running
<1>2. /\ cmd \in Command /\ cur.idx \in Rows /\ environ = Row.env /\ T \in Seq(RowType)
      /\ cur.idx \in DOMAIN T /\ Row = T[cur.idx]
  BY <1>1, InLine, Typed DEF Rows, Row
<1>3. Row \in RowType
  BY <1>2, RowFields
<1>4. T' = [T EXCEPT ![cur.idx] = q]
  <2>1. T' = [T EXCEPT ![cur.idx] =
                 [[Row EXCEPT !.cmd_no = Row.cmd_no + 1] EXCEPT !.numpipe_table = TableAfterOut]]
    BY <1>2 DEF Executes
  <2>2. [Row EXCEPT !.cmd_no = Row.cmd_no + 1]
        = RowWith(Row, Row.cmd_no + 1, Row.user_name, Row.numpipe_table, Row.env)
    BY <1>3, RowCounted
  <2>3. [RowWith(Row, Row.cmd_no + 1, Row.user_name, Row.numpipe_table, Row.env)
            EXCEPT !.numpipe_table = TableAfterOut] = q
    BY DEF RowWith
  <2> QED
    BY <2>1, <2>2, <2>3
<1>5. q.numpipe_table = TableAfterOut
  BY DEF RowWith
<1> HIDE DEF q
<1>6. NumPipes(T') = [NumPipes(T) EXCEPT ![cur.idx] = TableAfterOut]
  <2>1. DOMAIN T' = DOMAIN T /\ \A l \in DOMAIN T : T'[l] = IF l = cur.idx THEN q ELSE T[l]
    BY <1>2, <1>4
  <2> QED
    BY <1>2, <1>5, <2>1 DEF NumPipes
<1> QED
  BY <1>1, <1>2, <1>3, <1>4, <1>6 DEF Executes, Counted, q

LEMMA ExecutesKeepsRoster ==
    ASSUME RosterInv, PipesInv, Executes,
           cur' = NextCmd \/ cur' = [cur EXCEPT !.waits = TRUE],
           usr_pipe_table' \in [Id \X Id -> 0 .. Len(pipes')], pipes' \in Seq(PipeFor),
           ends' \subseteq (1 .. Len(pipes')) \X {"rd", "wr"},
           readers' \subseteq (1 .. Len(pipes')) \X Conn \X Nat
    PROVE  RosterInv'
<1>1. /\ cur # Idle /\ cmd \in Command
      /\ connect_info_table' = [connect_info_table EXCEPT ![cur.idx] =
             RowWith(Row, Row.cmd_no + 1, Row.user_name, TableAfterOut, Row.env)]
      /\ ran' = [ran EXCEPT ![cur.sock] = @ + 1]
      /\ environ' = Row.env /\ client_socket' = client_socket /\ conns' = conns
  BY ExecutesRow
<1>2. Row.user_name \in Name \cup {NoName} /\ Row.env \in SUBSET EnvVar
  BY <1>1, InLine, Typed, RowFields DEF Rows, Row
<1>3. TableAfterOut \in Seq(Entry)
  BY <1>1, AfterOut
<1> QED
  BY <1>1, <1>2, <1>3, CommandKeepsRoster

\* The pipe of |N is appended to the pipes made.
LEMMA MadeAppended ==
    ASSUME RosterInv, MadeFor \in PipeFor
    PROVE  /\ Append(pipes, MadeFor) \in Seq(PipeFor)
           /\ Len(Append(pipes, MadeFor)) = Len(pipes) + 1 /\ Len(pipes) \in Nat
           /\ \A p \in 1 .. Len(pipes) : Append(pipes, MadeFor)[p] = pipes[p]
           /\ Append(pipes, MadeFor)[New] = MadeFor
BY Typed, AppendProperties, LenProperties DEF New

LEMMA RefuseInKeeps ==
    ASSUME RosterInv, PipesInv, RefuseIn
    PROVE  RosterInv' /\ PipesInv'
<1> DEFINE n == IF NewNumPipe THEN Len(pipes) + 1 ELSE Len(pipes)
<1>1. /\ Executes /\ cur # Idle /\ cmd \in Command /\ cur' = NextCmd /\ ends' = EndsAfterOut
      /\ pipes' = (IF NewNumPipe THEN Append(pipes, MadeFor) ELSE pipes)
      /\ UNCHANGED <<usr_pipe_table, readers>>
  BY ExecutesRow DEF RefuseIn
<1>2. /\ NumPipes(connect_info_table')
           = [NumPipes(connect_info_table) EXCEPT ![cur.idx] = TableAfterOut]
      /\ PipesSound([NumPipes(connect_info_table) EXCEPT ![cur.idx] = TableAfterOut],
                    usr_pipe_table, EndsAfterOut, readers)
      /\ EndsAfterOut \subseteq (1 .. n) \X {"rd", "wr"}
  BY <1>1, ExecutesRow, AfterOut
<1>3. PipesInv'
  BY <1>1, <1>2 DEF PipesInv
<1>4. /\ pipes' \in Seq(PipeFor) /\ Len(pipes') = n
      /\ Len(pipes) \in Nat /\ n \in Nat /\ Len(pipes) <= n
  <2>1. NewNumPipe => MadeFor \in PipeFor
    BY <1>1, MadeForTyped DEF NewNumPipe
  <2> QED
    BY <1>1, <2>1, MadeAppended, Typed, LenProperties
<1> HIDE DEF n
<1>5. /\ usr_pipe_table' \in [Id \X Id -> 0 .. Len(pipes')]
      /\ ends' \subseteq (1 .. Len(pipes')) \X {"rd", "wr"}
      /\ readers' \subseteq (1 .. Len(pipes')) \X Conn \X Nat
  <2>1. 1 .. Len(pipes) \subseteq 1 .. n /\ 0 .. Len(pipes) \subseteq 0 .. n
    BY <1>4
  <2> QED
    BY <1>1, <1>2, <1>4, <2>1, Typed
<1> QED
  BY <1>1, <1>3, <1>4, <1>5, ExecutesKeepsRoster

LEMMA RefuseOutKeeps ==
    ASSUME RosterInv, PipesInv, RefuseOut
    PROVE  RosterInv' /\ PipesInv'
<1>1. /\ Executes /\ cur # Idle /\ cmd \in Command /\ cur' = NextCmd /\ ends' = EndsAfterIn
      /\ usr_pipe_table' = UserPipesAfterIn /\ ~NewNumPipe
      /\ UNCHANGED <<pipes, readers>>
  BY ExecutesRow DEF RefuseOut, OutRefused, NewNumPipe
<1>2. /\ NumPipes(connect_info_table')
           = [NumPipes(connect_info_table) EXCEPT ![cur.idx] = TableAfterOut]
      /\ PipesSound([NumPipes(connect_info_table) EXCEPT ![cur.idx] = TableAfterOut],
                    UserPipesAfterIn, EndsAfterIn, readers)
      /\ EndsAfterIn \subseteq (1 .. Len(pipes)) \X {"rd", "wr"}
      /\ UserPipesAfterIn \in [Id \X Id -> 0 .. Len(pipes)]
  BY <1>1, ExecutesRow, AfterIn
<1>3. PipesInv'
  BY <1>1, <1>2 DEF PipesInv
<1> QED
  BY <1>1, <1>2, <1>3, Typed, ExecutesKeepsRoster

\* What a command that is started does to the tables and the pipes.
LEMMA LaunchPlaces ==
    ASSUME RosterInv, PipesInv, Launch
    PROVE  LET N == [NumPipes(connect_info_table) EXCEPT ![cur.idx] = TableAfterOut]
               F == EndsAfterIn \cup (IF NewUserPipe THEN NewEnds ELSE {})
           IN  /\ usr_pipe_table' \in [Id \X Id -> 0 .. Len(pipes')]
               /\ pipes' \in Seq(PipeFor) /\ Len(pipes) \in Nat /\ Len(pipes') \in Nat
               /\ Len(pipes) <= Len(pipes')
               /\ \A p \in 1 .. Len(pipes) : pipes'[p] = pipes[p]
               /\ NewNumPipe \/ NewUserPipe => Len(pipes') = New /\ pipes'[New] = MadeFor
               /\ F \subseteq (1 .. Len(pipes')) \X {"rd", "wr"}
               /\ PipesSound(N, usr_pipe_table', F, readers)
               /\ Stdin \in 0 .. Len(pipes)
               /\ Stdin # 0 => Loose(Stdin, N, usr_pipe_table', F, readers)
<1> DEFINE N == [NumPipes(connect_info_table) EXCEPT ![cur.idx] = TableAfterOut]
           F == EndsAfterIn \cup (IF NewUserPipe THEN NewEnds ELSE {})
           n == IF NewNumPipe THEN Len(pipes) + 1 ELSE Len(pipes)
           P == UserPipesAfterIn
<1>1. /\ Executes /\ cur # Idle /\ cmd \in Command /\ ~OutRefused
      /\ usr_pipe_table' = (IF NewUserPipe THEN [P EXCEPT ![<<me, cmd.out_usr_id>>] = New] ELSE P)
      /\ pipes' = IF NewNumPipe \/ NewUserPipe THEN Append(pipes, MadeFor) ELSE pipes
  BY ExecutesRow DEF Launch
<1>2. /\ PipesSound(N, P, EndsAfterIn, readers)
      /\ NumPipe # 0 => Loose(NumPipe, N, P, EndsAfterIn, readers)
      /\ InPipe # 0 => Loose(InPipe, N, P, EndsAfterIn, readers)
      /\ P \in [Id \X Id -> 0 .. Len(pipes)] /\ EndsAfterIn \subseteq (1 .. n) \X {"rd", "wr"}
      /\ InPipe \in 0 .. Len(pipes)
  BY <1>1, AfterIn
<1>3. /\ NumPipe \in 0 .. Len(pipes)
      /\ \A k \in Rows : \A j \in DOMAIN N[k] : N[k][j].pipe \in 1 .. n
  BY <1>1, AfterOut
<1>4. /\ DOMAIN N = Rows /\ Len(pipes) \in Nat /\ New = Len(pipes) + 1
      /\ \A r \in readers : r[1] \in 1 .. Len(pipes)
  BY PipesMade DEF New
<1>5. NewNumPipe \/ NewUserPipe => MadeFor \in PipeFor
  <2>1. cmd.out = "user" => cmd.out_usr_id \in IdsInUse
    BY <1>1 DEF OutRefused
  <2> QED
    BY <1>1, <2>1, MadeForTyped DEF NewNumPipe
<1>6. /\ pipes' \in Seq(PipeFor) /\ Len(pipes') \in Nat /\ Len(pipes) <= Len(pipes')
      /\ \A p \in 1 .. Len(pipes) : pipes'[p] = pipes[p]
      /\ NewNumPipe \/ NewUserPipe => Len(pipes') = New /\ pipes'[New] = MadeFor
      /\ ~NewUserPipe => Len(pipes') = n
  BY <1>1, <1>4, <1>5, MadeAppended, Typed
<1>7. Stdin \in 0 .. Len(pipes) /\ (Stdin # 0 => Loose(Stdin, N, P, EndsAfterIn, readers))
  BY <1>2, <1>3 DEF Stdin
<1> HIDE DEF N, P
<1>8. CASE ~NewUserPipe
  <2>1. usr_pipe_table' = P /\ F = EndsAfterIn /\ Len(pipes') = n
    BY <1>1, <1>6, <1>8
  <2>2. 0 .. Len(pipes) \subseteq 0 .. Len(pipes')
    BY <1>4, <1>6
  <2>3. P \in [Id \X Id -> 0 .. Len(pipes')]
    BY <1>2, <2>2
  <2>4. EndsAfterIn \subseteq (1 .. Len(pipes')) \X {"rd", "wr"}
    BY <1>2, <2>1
  <2> HIDE DEF F
  <2> QED
    BY <1>2, <1>4, <1>6, <1>7, <2>1, <2>3, <2>4 DEF F, N
<1>9. CASE NewUserPipe
  <2> DEFINE c == <<me, cmd.out_usr_id>>
             Q == [P EXCEPT ![c] = New]
  <2>1. usr_pipe_table' = Q /\ F = EndsAfterIn \cup {<<New, "rd">>, <<New, "wr">>}
        /\ ~NewNumPipe /\ Len(pipes') = New
    BY <1>1, <1>6, <1>9 DEF NewUserPipe, NewNumPipe, NewEnds
  <2>2. c \in Id \X Id
    BY <1>1, InLine, Typed, RowFields, CommandFields DEF Row, Rows, me
  <2>3. /\ Unread(New, readers) /\ \A a \in Id \X Id : P[a] # New
        /\ \A l \in DOMAIN N : \A i \in DOMAIN N[l] : N[l][i].pipe # New
        /\ New \in Nat \ {0} /\ Stdin # New
    BY <1>2, <1>3, <1>4, <1>7, <2>1 DEF Unread
  <2>4. P \in [Id \X Id -> Nat]
    BY <1>2
  <2>5. Q \in [Id \X Id -> 0 .. Len(pipes')]
    BY <1>2, <1>4, <2>1, <2>2
  <2> HIDE DEF c
  <2>6. /\ PipesSound(N, Q, F, readers)
        /\ \A q : q # New /\ Loose(q, N, P, EndsAfterIn, readers) => Loose(q, N, Q, F, readers)
    BY <1>2, <2>1, <2>2, <2>3, <2>4, FillCell
  <2>7. F \subseteq (1 .. Len(pipes')) \X {"rd", "wr"}
    BY <1>2, <1>4, <2>1
  <2> HIDE DEF F, Q
  <2> QED
    BY <1>4, <1>6, <1>7, <2>1, <2>3, <2>5, <2>6, <2>7 DEF F, N
<1> QED
  BY <1>8, <1>9

LEMMA LaunchKeeps ==
    ASSUME RosterInv, PipesInv, Launch
    PROVE  RosterInv' /\ PipesInv'
<1> DEFINE N == [NumPipes(connect_info_table) EXCEPT ![cur.idx] = TableAfterOut]
           F == EndsAfterIn \cup (IF NewUserPipe THEN NewEnds ELSE {})
<1>1. /\ usr_pipe_table' \in [Id \X Id -> 0 .. Len(pipes')] /\ pipes' \in Seq(PipeFor)
      /\ Len(pipes) \in Nat /\ Len(pipes') \in Nat /\ Len(pipes) <= Len(pipes')
      /\ F \subseteq (1 .. Len(pipes')) \X {"rd", "wr"}
      /\ PipesSound(N, usr_pipe_table', F, readers)
      /\ Stdin \in 0 .. Len(pipes)
      /\ Stdin # 0 => Loose(Stdin, N, usr_pipe_table', F, readers)
  BY LaunchPlaces
<1>2. /\ Executes /\ cur # Idle /\ NumPipes(connect_info_table') = N
      /\ cur' = NextCmd \/ cur' = [cur EXCEPT !.waits = TRUE]
      /\ ends' = F \ {<<Stdin, "rd">>}
      /\ readers' = IF Stdin = 0 THEN readers
                    ELSE readers \cup {<<Stdin, cur.sock, ran[cur.sock] + 1>>}
  BY ExecutesRow DEF Launch
<1> HIDE DEF F, N
<1>3. ends' \subseteq (1 .. Len(pipes')) \X {"rd", "wr"}
  BY <1>1, <1>2
<1>4. readers' \subseteq (1 .. Len(pipes')) \X Conn \X Nat
  <2>1. readers \subseteq (1 .. Len(pipes')) \X Conn \X Nat
    BY <1>1, Typed
  <2>2. cur.sock \in Conn /\ ran[cur.sock] + 1 \in Nat
    BY <1>2, InLine, Typed
  <2>3. Stdin # 0 => Stdin \in 1 .. Len(pipes')
    BY <1>1
  <2> QED
    BY <1>2, <2>1, <2>2, <2>3
<1>5. RosterInv'
  BY <1>1, <1>2, <1>3, <1>4, ExecutesKeepsRoster
<1>6. PipesSound(N, usr_pipe_table', ends', readers')
  <2>1. CASE Stdin = 0
    <3>1. F \ {<<Stdin, "rd">>} = F
      BY <1>1, <2>1
    <3> QED
      BY <1>1, <1>2, <2>1, <3>1
  <2>2. CASE Stdin # 0
    BY <1>1, <1>2, <2>2, GivePipe
  <2> QED
    BY <2>1, <2>2
<1> QED
  BY <1>2, <1>5, <1>6 DEF PipesInv

\* Users who come and go, and commands without pipes, leave every pipe in its place.
LEMMA OthersKeepPipes ==
    ASSUME RosterInv, PipesInv,
           \/ Accept
           \/ \E s \in Id : Disconnect(s)
           \/ \E s \in Id, l \in Lines : ReadLine(s, l)
           \/ RunExit \/ RunName \/ RunSetenv \/ RunTalk \/ WaitReturns
    PROVE  PipesInv'
<1> DEFINE T == connect_info_table
           N == NumPipes(T)
           P == usr_pipe_table
<1>1. UNCHANGED <<ends, readers>>
  BY DEF Accept, Disconnect, ReadLine, RunExit, RunName, RunSetenv, RunTalk, WaitReturns
<1>2. PipesSound(N, P, ends, readers) /\ AreEntries(N) /\ T \in Seq(RowType)
      /\ DOMAIN T = 1 .. Len(T) /\ Len(T) \in Nat /\ DOMAIN T = Rows
  BY Typed, PipesMade, LenProperties DEF PipesInv, AreEntries, Rows
<1>3. ASSUME NEW M, NEW f, M = NumPipes(T'),
             \A k \in DOMAIN M : f[k] \in DOMAIN N /\ M[k] = N[f[k]],
             \A k, l \in DOMAIN M : k # l => f[k] # f[l],
             \A a \in Id \X Id : P'[a] = 0 \/ P'[a] = P[a]
      PROVE  PipesInv'
  <2> HIDE DEF N, P
  <2>1. PipesSound(M, usr_pipe_table', ends, readers)
    BY <1>2, <1>3, FewerPlaces DEF P
  <2> QED
    BY <1>1, <1>3, <2>1 DEF PipesInv
<1>4. ASSUME NEW k \in DOMAIN T, NEW U, U = NumPipes(RemoveAt(T, k)),
             NumPipes(T') = U, \A a \in Id \X Id : P'[a] = 0 \/ P'[a] = P[a]
      PROVE  PipesInv'
  <2> DEFINE V == RemoveAt(T, k)
  <2>1. k \in 1 .. Len(T)
    BY <1>2
  <2>2. PICK f \in [DOMAIN V -> DOMAIN T \ {k}] :
            /\ \A i \in DOMAIN V : V[i] = T[f[i]]
            /\ \A i, j \in DOMAIN V : i # j => f[i] # f[j]
    BY <1>2, <2>1, RemovedOnce
  <2> HIDE DEF V
  <2>3. DOMAIN U = DOMAIN V /\ \A i \in DOMAIN V : f[i] \in DOMAIN N /\ U[i] = N[f[i]]
    BY <1>4, <2>2 DEF V, NumPipes
  <2> QED
    BY <1>3, <1>4, <2>2, <2>3
<1>5. ASSUME NumPipes(T') = N, UNCHANGED usr_pipe_table
      PROVE  PipesInv'
  BY <1>1, <1>5 DEF PipesInv
<1>6. CASE Accept
  <2>1. PICK r : T' = Append(T, r) /\ r.numpipe_table = <<>>
    BY <1>6 DEF Accept
  <2> DEFINE M == NumPipes(T')
  <2>2. /\ DOMAIN T' = 1 .. Len(T) + 1 /\ T'[Len(T) + 1] = r
        /\ \A k \in 1 .. Len(T) : T'[k] = T[k]
    BY <1>2, <2>1, AppendProperties, LenProperties
  <2>3. /\ DOMAIN M = 1 .. Len(T) + 1 /\ DOMAIN N = 1 .. Len(T) /\ DOMAIN M[Len(T) + 1] = {}
        /\ \A k \in 1 .. Len(T) : M[k] = N[k]
    BY <1>2, <2>1, <2>2 DEF NumPipes
  <2>4. UNCHANGED usr_pipe_table
    BY <1>6 DEF Accept
  <2> HIDE DEF M, N
  <2>5. \A k \in DOMAIN M : \A j \in DOMAIN M[k] : k \in DOMAIN N /\ M[k] = N[k]
    BY <1>2, <2>3
  <2>6. EntriesApart(M) /\ EntriesNotCells(M, P) /\ EntriesHeld(M, ends, readers)
    BY <1>2, <2>5 DEF PipesSound, EntriesApart, EntriesNotCells, EntriesHeld
  <2> QED
    BY <1>1, <1>2, <2>4, <2>6 DEF PipesInv, PipesSound, M
<1>7. ASSUME NEW s \in Id, Disconnect(s) PROVE PipesInv'
  BY <1>2, <1>4, <1>7 DEF Disconnect
<1>8. ASSUME NEW s \in Id, NEW l \in Lines, ReadLine(s, l) PROVE PipesInv'
  BY <1>5, <1>8 DEF ReadLine
<1>9. CASE RunExit
  <2> DEFINE V == RemoveAt(T, cur.idx)
  <2>1. cur.idx \in DOMAIN T /\ cur.idx \in Nat /\ T' = Bumped(V, cur.idx)
    BY <1>2, <1>9, InLine DEF RunExit, Running
  <2>2. V \in Seq(RowType)
    BY <1>2, <2>1, Removed
  <2> HIDE DEF V
  <2>3. /\ DOMAIN T' = DOMAIN V
        /\ \A l \in DOMAIN V : T'[l].numpipe_table = V[l].numpipe_table
    BY <2>1, <2>2, BumpedRows DEF SameUsers
  <2>4. NumPipes(T') = NumPipes(V)
    BY <2>3 DEF NumPipes
  <2>5. \A a \in Id \X Id : P'[a] = 0 \/ P'[a] = P[a]
    BY <1>9 DEF RunExit
  <2> QED
    BY <1>4, <2>1, <2>4, <2>5 DEF V
<1>10. CASE RunName \/ RunSetenv \/ RunTalk
  <2>1. cur.idx \in DOMAIN T /\ T[cur.idx] \in RowType
    BY <1>2, <1>10, InLine, RowFields DEF RunName, RunSetenv, RunTalk, Running
  <2>2. /\ DOMAIN T' = DOMAIN T
        /\ \A l \in DOMAIN T : T'[l].numpipe_table = T[l].numpipe_table
    BY <1>10, <2>1 DEF RunName, RunSetenv, RunTalk, RowType
  <2>3. UNCHANGED usr_pipe_table
    BY <1>10 DEF RunName, RunSetenv, RunTalk
  <2> QED
    BY <1>5, <2>2, <2>3 DEF NumPipes
<1>11. CASE WaitReturns
  BY <1>5, <1>11 DEF WaitReturns
<1> QED
  BY <1>6, <1>7, <1>8, <1>9, <1>10, <1>11

-----------------------------------------------------------------------------
(* Which command reads a pipe.                                             *)

\* The first n pipes are the same in both lists.
SamePipes(n, made, now) == \A p \in 1 .. n : now[p] = made[p]

\* What is known of pipes that exist stays true when another is made.
LEMMA EntriesStayRight ==
    ASSUME NEW t \in Seq(Entry), NEW n \in Nat, NEW made, NEW now, SamePipes(n, made, now),
           \A j \in DOMAIN t : t[j].pipe \in 1 .. n, NEW s
    PROVE  /\ Owned(t, s, made) => Owned(t, s, now)
           /\ OnTarget(t, made) => OnTarget(t, now)
BY DEF SamePipes, Owned, OnTarget

LEMMA CellsStayRight ==
    ASSUME NEW n \in Nat, NEW P \in [Id \X Id -> 0 .. n], NEW Q, NEW T, NEW made, NEW now,
           SamePipes(n, made, now), \A a \in Id \X Id : Q[a] = 0 \/ Q[a] = P[a]
    PROVE  /\ CellsOwn(P, made) => CellsOwn(Q, now)
           /\ Columns(T, P, made) => Columns(T, Q, now)
<1>1. \A a \in Id \X Id : Q[a] # 0 => P[a] # 0 /\ Q[a] = P[a] /\ now[P[a]] = made[P[a]]
  BY DEF SamePipes
<1> QED
  BY <1>1 DEF CellsOwn, Columns

LEMMA ReadersStayRight ==
    ASSUME NEW n \in Nat, NEW G, G \subseteq (1 .. n) \X Conn \X Nat, NEW made, NEW now,
           SamePipes(n, made, now)
    PROVE  /\ ReadByOwn(G, made) => ReadByOwn(G, now)
           /\ ReadRight(G, made) => ReadRight(G, now)
<1>1. \A r \in G : now[r[1]] = made[r[1]]
  BY DEF SamePipes
<1> QED
  BY <1>1 DEF ReadByOwn, ReadRight

\* A command changes its user's row and its own pipes.
LEMMA CommandKeepsOrder ==
    ASSUME RosterInv, PipesInv, OrderInv, cur # Idle,
           NEW nm \in Name \cup {NoName}, NEW t \in Seq(Entry), NEW v \in SUBSET EnvVar,
           connect_info_table' = [connect_info_table EXCEPT
               ![cur.idx] = RowWith(Row, Row.cmd_no + 1, nm, t, v)],
           ran' = [ran EXCEPT ![cur.sock] = @ + 1], conns' = conns,
           SamePipes(Len(pipes), pipes, pipes'),
           Owned(t, cur.sock, pipes'), CellsOwn(usr_pipe_table', pipes'),
           ReadByOwn(readers', pipes'),
           Len(connect_info_table) = conns =>
               /\ OnTarget(t, pipes') /\ ReadRight(readers', pipes')
               /\ Columns(connect_info_table, usr_pipe_table', pipes')
    PROVE  OrderInv'
<1> DEFINE T == connect_info_table
           q == RowWith(Row, Row.cmd_no + 1, nm, t, v)
<1>1. /\ T \in Seq(RowType) /\ cur.idx \in DOMAIN T /\ Row = T[cur.idx] /\ DOMAIN T = Rows
      /\ Row.socket_fd = cur.sock /\ cur.sock \in Conn /\ ran \in [Conn -> Nat]
  BY Typed, InLine DEF Rows, Row
<1>2. /\ q \in RowType /\ q.socket_fd = cur.sock /\ q.user_id = Row.user_id
      /\ q.numpipe_table = t /\ q.cmd_no = Row.cmd_no + 1
  <2>1. Row \in RowType /\ Row.cmd_no + 1 \in Nat \ {0}
    BY <1>1, RowFields
  <2> HIDE DEF q
  <2>2. RowWith(Row, Row.cmd_no + 1, nm, t, v) = q
    BY DEF q
  <2> QED
    BY <1>1, <2>1, <2>2 DEF RowType, RowWith
<1> HIDE DEF q
<1>3. /\ DOMAIN T' = DOMAIN T /\ Len(T') = Len(T)
      /\ \A l \in DOMAIN T : T'[l] = IF l = cur.idx THEN q ELSE T[l]
  BY <1>1, <1>2, RowSet DEF q
<1>4. ASSUME NEW l \in DOMAIN T
      PROVE  /\ T[l].numpipe_table \in Seq(Entry)
             /\ \A j \in DOMAIN T[l].numpipe_table : T[l].numpipe_table[j].pipe \in 1 .. Len(pipes)
             /\ Len(pipes) \in Nat
  BY <1>1, PipesMade
<1>5. ASSUME NEW l \in DOMAIN T'
      PROVE  Owned(T'[l].numpipe_table, T'[l].socket_fd, pipes')
  <2>1. CASE l = cur.idx
    BY <1>1, <1>2, <1>3, <2>1
  <2>2. CASE l # cur.idx
    <3>1. Owned(T[l].numpipe_table, T[l].socket_fd, pipes)
      BY <1>1, <1>3, <1>5 DEF OrderInv, OwnInv
    <3>2. Owned(T[l].numpipe_table, T[l].socket_fd, pipes')
      BY <1>3, <1>4, <1>5, <3>1, EntriesStayRight
    <3> QED
      BY <1>3, <1>5, <2>2, <3>2
  <2> QED
    BY <2>1, <2>2
<1>6. NotYet(conns, ran')
  <2>1. cur.sock <= conns /\ cur.sock \in Nat /\ conns \in Nat
    BY <1>1, Typed DEF RosterInv, RowsAmong, Conn
  <2> QED
    BY <1>1, <2>1 DEF OrderInv, OwnInv, NotYet, Conn
<1>7. OwnInv'
  BY <1>3, <1>5, <1>6 DEF OrderInv, OwnInv, Rows
<1>8. ASSUME Len(T') = conns' PROVE RightInv'
  <2>1. /\ OnTarget(t, pipes') /\ ReadRight(readers', pipes')
        /\ Columns(T, usr_pipe_table', pipes') /\ RightInv
    BY <1>3, <1>8 DEF OrderInv
  <2>2. ASSUME NEW l \in DOMAIN T'
        PROVE  OnTarget(T'[l].numpipe_table, pipes')
    <3>1. CASE l = cur.idx
      BY <1>1, <1>2, <1>3, <2>1, <3>1
    <3>2. CASE l # cur.idx
      <4>1. OnTarget(T[l].numpipe_table, pipes)
        BY <1>1, <1>3, <2>1, <2>2 DEF RightInv
      <4>2. OnTarget(T[l].numpipe_table, pipes')
        BY <1>3, <1>4, <2>2, <4>1, EntriesStayRight
      <4> QED
        BY <1>3, <2>2, <3>2, <4>2
    <3> QED
      BY <3>1, <3>2
  <2>3. Columns(T', usr_pipe_table', pipes')
    <3>1. \A l \in DOMAIN T : T'[l].user_id = T[l].user_id /\ T'[l].socket_fd = T[l].socket_fd
      BY <1>1, <1>2, <1>3
    <3> HIDE DEF T
    <3> QED
      BY <1>3, <2>1, <3>1 DEF Columns
  <2>4. Counts(T', ran')
    <3>1. \A l \in DOMAIN T : T[l].socket_fd \in Conn /\ (l # cur.idx => T[l].socket_fd # cur.sock)
      BY <1>1, RowFields DEF RosterInv, RowsApart
    <3>2. \A l \in DOMAIN T : T[l].cmd_no = ran[T[l].socket_fd] + 1
      BY <2>1 DEF RightInv, Counts
    <3> QED
      BY <1>1, <1>2, <1>3, <3>1, <3>2 DEF Counts
  <2> QED
    BY <2>1, <2>2, <2>3, <2>4 DEF RightInv, Rows
<1> QED
  BY <1>7, <1>8 DEF OrderInv

LEMMA BuiltinsKeepOrder ==
    ASSUME RosterInv, PipesInv, OrderInv, RunName \/ RunSetenv \/ RunTalk
    PROVE  OrderInv'
<1> DEFINE t == Row.numpipe_table
<1>1. /\ cur # Idle /\ ran' = [ran EXCEPT ![cur.sock] = @ + 1]
      /\ UNCHANGED <<usr_pipe_table, conns, pipes, readers>>
      /\ t \in Seq(Entry)
  BY BuiltinsRow
<1>2. PICK nm \in Name \cup {NoName}, v \in SUBSET EnvVar :
          connect_info_table' = [connect_info_table EXCEPT ![cur.idx] =
                 RowWith(Row, Row.cmd_no + 1, nm, t, v)]
  BY BuiltinsRow
<1>3. cur.idx \in Rows /\ Row.socket_fd = cur.sock
  BY <1>1, InLine
<1>4. /\ SamePipes(Len(pipes), pipes, pipes') /\ Owned(t, cur.sock, pipes')
      /\ CellsOwn(usr_pipe_table', pipes') /\ ReadByOwn(readers', pipes')
  BY <1>1, <1>3 DEF SamePipes, OrderInv, OwnInv, Row
<1>5. ASSUME Len(connect_info_table) = conns
      PROVE  /\ OnTarget(t, pipes') /\ ReadRight(readers', pipes')
             /\ Columns(connect_info_table, usr_pipe_table', pipes')
  BY <1>1, <1>3, <1>5 DEF OrderInv, RightInv, Row
<1> HIDE DEF t
<1> QED
  BY <1>1, <1>2, <1>4, <1>5, CommandKeepsOrder

\* The numbered pipes that a command leaves to the commands after it, and the one it takes.
LEMMA TargetKeepsOrder ==
    ASSUME RosterInv, PipesInv, OrderInv, cur # Idle
    PROVE  /\ Owned(TableAfterTarget, cur.sock, pipes)
           /\ \A j \in DOMAIN TableAfterTarget : TableAfterTarget[j].pipe \in 1 .. Len(pipes)
           /\ Len(connect_info_table) = conns => OnTarget(TableAfterTarget, pipes)
           /\ NumPipe # 0 =>
                  /\ pipes[NumPipe].from = cur.sock /\ pipes[NumPipe].nth # 0
                  /\ Len(connect_info_table) = conns => pipes[NumPipe].nth = Row.cmd_no
<1> DEFINE t == Row.numpipe_table
           f == FirstFor(Row.cmd_no, t)
<1>1. cur.idx \in Rows /\ Row.socket_fd = cur.sock /\ t \in Seq(Entry)
      /\ \A j \in DOMAIN t : t[j].pipe \in 1 .. Len(pipes)
  BY InLine, PipesMade DEF Row
<1>2. /\ Owned(t, cur.sock, pipes)
      /\ Len(connect_info_table) = conns => OnTarget(t, pipes)
  BY <1>1 DEF OrderInv, OwnInv, RightInv, Row
<1>3. CASE IsTarget
  <2>1. f \in DOMAIN t /\ t[f].target_cmd_num = Row.cmd_no
    BY <1>1, <1>3, FirstIsEntry DEF IsTarget
  <2>2. NumPipe = t[f].pipe /\ TableAfterTarget = RemoveAt(t, f)
    BY <1>3 DEF NumPipe, TableAfterTarget
  <2> HIDE DEF f, t
  <2>3. f \in 1 .. Len(t)
    BY <1>1, <2>1, LenProperties
  <2>4. PICK g \in [DOMAIN TableAfterTarget -> DOMAIN t \ {f}] :
            \A j \in DOMAIN TableAfterTarget : TableAfterTarget[j] = t[g[j]]
    BY <1>1, <2>2, <2>3, RemovedOnce
  <2>5. \A j \in DOMAIN TableAfterTarget : g[j] \in DOMAIN t
    BY <2>4
  <2> QED
    BY <1>1, <1>2, <2>1, <2>2, <2>4, <2>5 DEF Owned, OnTarget
<1>4. CASE ~IsTarget
  <2>1. NumPipe = 0 /\ TableAfterTarget = t
    BY <1>4 DEF NumPipe, TableAfterTarget
  <2> QED
    BY <1>1, <1>2, <2>1
<1> QED
  BY <1>3, <1>4

\* The pipe that a command makes for a later one is the target's.
LEMMA OutKeepsOrder ==
    ASSUME RosterInv, PipesInv, OrderInv, cur # Idle, cmd \in Command,
           SamePipes(Len(pipes), pipes, pipes'), NewNumPipe => pipes'[New] = MadeFor
    PROVE  /\ Owned(TableAfterOut, cur.sock, pipes')
           /\ Len(connect_info_table) = conns => OnTarget(TableAfterOut, pipes')
<1> DEFINE t == TableAfterTarget
<1>1. /\ Owned(t, cur.sock, pipes) /\ t \in Seq(Entry) /\ Len(pipes) \in Nat
      /\ \A j \in DOMAIN t : t[j].pipe \in 1 .. Len(pipes)
      /\ Len(connect_info_table) = conns => OnTarget(t, pipes)
  BY TargetKeepsOrder, AfterTarget, Typed, LenProperties
<1> HIDE DEF t
<1>2. /\ Owned(t, cur.sock, pipes')
      /\ Len(connect_info_table) = conns => OnTarget(t, pipes')
  BY <1>1, EntriesStayRight
<1>3. CASE NewNumPipe
  <2> DEFINE e == [target_cmd_num |-> Dest, pipe |-> New]
             d == IF cmd.out = "pipe" THEN 1 ELSE cmd.num
  <2>1. /\ d \in Nat \ {0} /\ ran[cur.sock] \in Nat /\ Dest = Row.cmd_no + d
        /\ cmd.out # "user" /\ cur.idx \in Rows /\ Row.socket_fd = cur.sock
    BY <1>3, CommandFields, InLine, Typed DEF NewNumPipe, Dest
  <2>2. pipes'[New] = [from |-> cur.sock, to |-> cur.sock, nth |-> ran[cur.sock] + 1 + d]
    BY <1>3, <2>1 DEF MadeFor, NewUserPipe
  <2>3. pipes'[New].from = cur.sock /\ pipes'[New].nth # 0
    BY <2>1, <2>2
  <2>4. ASSUME Len(connect_info_table) = conns PROVE pipes'[New].nth = Dest
    <3>1. Row.cmd_no = ran[cur.sock] + 1
      BY <2>1, <2>4 DEF OrderInv, RightInv, Counts, Row, Rows
    <3> QED
      BY <2>1, <2>2, <3>1
  <2>5. TableAfterOut = Append(t, e)
    BY <1>3 DEF TableAfterOut, t
  <2>6. e.pipe = New /\ e.target_cmd_num = Dest
    OBVIOUS
  <2> HIDE DEF e
  <2>7. \A j \in DOMAIN TableAfterOut :
            \/ j \in DOMAIN t /\ TableAfterOut[j] = t[j]
            \/ TableAfterOut[j] = e
    <3>1. e \in Entry
      <4>1. Row.cmd_no \in Nat \ {0}
        BY <2>1, Typed, RowFields DEF Row, Rows
      <4>2. Dest \in Nat \ {0} /\ New \in Nat \ {0}
        BY <1>1, <2>1, <4>1 DEF New
      <4> QED
        BY <4>2 DEF Entry, e
    <3> QED
      BY <1>1, <2>5, <3>1, AppendProperties, LenProperties
  <2> QED
    BY <1>2, <2>3, <2>4, <2>6, <2>7 DEF Owned, OnTarget
<1>4. CASE ~NewNumPipe
  BY <1>2, <1>4 DEF TableAfterOut, t
<1> QED
  BY <1>3, <1>4

\* Users who come and go leave it true who reads what.
LEMMA LeavingKeepsOrder ==
    ASSUME RosterInv, PipesInv, OrderInv, NEW k \in Rows,
           LET V == RemoveAt(connect_info_table, k)
           IN  /\ DOMAIN connect_info_table' = DOMAIN V
               /\ Len(connect_info_table') = Len(V)
               /\ \A l \in DOMAIN V :
                     /\ connect_info_table'[l].numpipe_table = V[l].numpipe_table
                     /\ connect_info_table'[l].socket_fd = V[l].socket_fd,
           UNCHANGED <<conns, pipes, readers>>,
           \A a \in Id \X Id : usr_pipe_table'[a] = 0 \/ usr_pipe_table'[a] = usr_pipe_table[a],
           NotYet(conns, ran')
    PROVE  OrderInv'
<1> DEFINE T == connect_info_table
           V == RemoveAt(T, k)
<1>1. T \in Seq(RowType) /\ k \in 1 .. Len(T) /\ Len(T) \in Nat /\ DOMAIN T = Rows /\ conns \in Nat
  BY Typed, LenProperties DEF Rows
<1>2. Len(V) = Len(T) - 1
  BY <1>1, Removed
<1>3. PICK f \in [DOMAIN V -> DOMAIN T \ {k}] :
          /\ \A l \in DOMAIN V : V[l] = T[f[l]]
          /\ \A l, m \in DOMAIN V : l # m => f[l] # f[m]
  <2>1. T \in Seq(RowType) /\ k \in 1 .. Len(T)
    BY <1>1
  <2> HIDE DEF T
  <2> QED
    BY ONLY <2>1, RemovedOnce
<1> HIDE DEF V
<1>4. /\ DOMAIN T' = DOMAIN V /\ Len(T') = Len(T) - 1
      /\ \A l \in DOMAIN V : /\ f[l] \in Rows
                             /\ T'[l].numpipe_table = T[f[l]].numpipe_table
                             /\ T'[l].socket_fd = T[f[l]].socket_fd
  BY <1>1, <1>2, <1>3 DEF V
<1>5. \A l \in DOMAIN T' : Owned(T'[l].numpipe_table, T'[l].socket_fd, pipes')
  BY <1>4 DEF OrderInv, OwnInv
<1>6. CellsOwn(usr_pipe_table', pipes') /\ ReadByOwn(readers', pipes') /\ NotYet(conns', ran')
  BY DEF OrderInv, OwnInv, CellsOwn
<1>7. Len(T') < conns'
  BY <1>1, <1>4 DEF OrderInv, OwnInv
<1>8. OwnInv'
  BY <1>1, <1>4, <1>5, <1>6, <1>7 DEF OwnInv, Rows
<1> QED
  BY <1>1, <1>4, <1>7, <1>8 DEF OrderInv

LEMMA SelectKeepsOrder ==
    ASSUME RosterInv, PipesInv, OrderInv,
           \/ Accept
           \/ \E s \in Id : Disconnect(s)
           \/ \E s \in Id, l \in Lines : ReadLine(s, l)
           \/ RunExit \/ WaitReturns
    PROVE  OrderInv'
<1> DEFINE T == connect_info_table
<1>1. /\ T \in Seq(RowType) /\ DOMAIN T = 1 .. Len(T) /\ Len(T) \in Nat /\ DOMAIN T = Rows
      /\ conns \in Nat /\ ran \in [Conn -> Nat]
  BY Typed, LenProperties DEF Rows
<1>2. CASE Accept
  <2>1. PICK r : /\ T' = Append(T, r) /\ r.numpipe_table = <<>>
                 /\ r.socket_fd = conns + 1 /\ r.cmd_no = 1
    BY <1>2 DEF Accept
  <2>2. conns' = conns + 1 /\ conns < MaxConn /\ UNCHANGED <<usr_pipe_table, pipes, readers, ran>>
    BY <1>2 DEF Accept
  <2>3. /\ DOMAIN T' = 1 .. Len(T) + 1 /\ Len(T') = Len(T) + 1 /\ T'[Len(T) + 1] = r
        /\ \A k \in 1 .. Len(T) : T'[k] = T[k]
    BY <1>1, <2>1, AppendProperties, LenProperties
  <2>4. \A k \in DOMAIN T' : \/ k \in Rows /\ T'[k] = T[k]
                             \/ k = Len(T) + 1 /\ T'[k] = r
    BY <1>1, <2>3
  <2>5. Owned(<<>>, conns + 1, pipes) /\ OnTarget(<<>>, pipes)
    BY DEF Owned, OnTarget
  <2>6. OwnInv'
    <3>1. \A k \in DOMAIN T' : Owned(T'[k].numpipe_table, T'[k].socket_fd, pipes)
      BY <2>1, <2>4, <2>5 DEF OrderInv, OwnInv
    <3>2. NotYet(conns + 1, ran)
      <4>1. \A c \in Conn : c \in Int /\ (c > conns + 1 => c > conns)
        BY <1>1 DEF Conn
      <4> QED
        BY <4>1 DEF OrderInv, OwnInv, NotYet
    <3>3. Len(T') <= conns'
      <4>1. Len(T) <= conns
        BY DEF OrderInv, OwnInv
      <4> QED
        BY <1>1, <2>2, <2>3, <4>1
    <3> QED
      BY <2>2, <3>1, <3>2, <3>3 DEF OrderInv, OwnInv, Rows
  <2>7. ASSUME Len(T') = conns' PROVE RightInv'
    <3>1. RightInv
      BY <1>1, <2>2, <2>3, <2>7 DEF OrderInv
    <3>2. \A k \in DOMAIN T' : OnTarget(T'[k].numpipe_table, pipes)
      BY <2>1, <2>4, <2>5, <3>1 DEF RightInv
    <3>3. Columns(T', usr_pipe_table, pipes)
      BY <1>1, <2>3, <3>1 DEF RightInv, Columns
    <3>4. ran[conns + 1] = 0
      <4>1. conns + 1 \in Conn /\ conns + 1 > conns
        BY <1>1, <2>2, SingleAssumption DEF Conn
      <4> QED
        BY <4>1 DEF OrderInv, OwnInv, NotYet
    <3>5. Counts(T', ran)
      BY <1>1, <2>1, <2>4, <3>1, <3>4 DEF RightInv, Counts
    <3> QED
      BY <2>2, <3>1, <3>2, <3>3, <3>5 DEF RightInv, Rows
  <2> QED
    BY <2>6, <2>7 DEF OrderInv
<1>3. ASSUME NEW s \in Id, Disconnect(s) PROVE OrderInv'
  <2>1. /\ UNCHANGED <<usr_pipe_table, conns, pipes, readers, ran>>
        /\ \E k \in Rows : T' = RemoveAt(T, k)
    BY <1>3 DEF Disconnect
  <2>2. NotYet(conns, ran')
    BY <2>1 DEF OrderInv, OwnInv, NotYet
  <2> QED
    BY <2>1, <2>2, LeavingKeepsOrder
<1>4. ASSUME NEW s \in Id, NEW l \in Lines, ReadLine(s, l) PROVE OrderInv'
  <2>1. UNCHANGED <<connect_info_table, usr_pipe_table, conns, pipes, readers, ran>>
    BY <1>4 DEF ReadLine
  <2> QED
    BY <2>1 DEF OrderInv, OwnInv, RightInv, Rows
<1>5. CASE RunExit
  <2> DEFINE V == RemoveAt(T, cur.idx)
  <2>1. /\ cur.idx \in Rows /\ cur.idx \in 1 .. Len(T) /\ cur.sock \in Conn
        /\ Row.socket_fd = cur.sock /\ T' = Bumped(V, cur.idx)
        /\ ran' = [ran EXCEPT ![cur.sock] = @ + 1] /\ UNCHANGED <<conns, pipes, readers>>
    BY <1>1, <1>5, InLine DEF RunExit, Running, Counted
  <2>2. V \in Seq(RowType)
    BY <1>1, <2>1, Removed
  <2> HIDE DEF V
  <2>3. /\ DOMAIN T' = DOMAIN V /\ Len(T') = Len(V)
        /\ \A l \in DOMAIN V : /\ T'[l].numpipe_table = V[l].numpipe_table
                               /\ T'[l].socket_fd = V[l].socket_fd
    BY <2>1, <2>2, BumpedRows DEF SameUsers
  <2>4. \A a \in Id \X Id : usr_pipe_table'[a] = 0 \/ usr_pipe_table'[a] = usr_pipe_table[a]
    BY <1>5 DEF RunExit
  <2>5. NotYet(conns, ran')
    <3>1. cur.sock <= conns
      BY <1>1, <2>1 DEF RosterInv, RowsAmong, Row
    <3>2. \A c \in Conn : c > conns => c # cur.sock
      BY <1>1, <2>1, <3>1 DEF Conn
    <3> QED
      BY <1>1, <2>1, <3>2 DEF OrderInv, OwnInv, NotYet
  <2> QED
    BY <2>1, <2>3, <2>4, <2>5, LeavingKeepsOrder DEF V
<1>6. CASE WaitReturns
  <2>1. UNCHANGED <<connect_info_table, usr_pipe_table, conns, pipes, readers, ran>>
    BY <1>6 DEF WaitReturns
  <2> QED
    BY <2>1 DEF OrderInv, OwnInv, RightInv, Rows
<1> QED
  BY <1>2, <1>3, <1>4, <1>5, <1>6

LEMMA RefusedKeepsOrder ==
    ASSUME RosterInv, PipesInv, OrderInv, RefuseIn \/ RefuseOut
    PROVE  OrderInv'
<1>1. /\ Executes /\ cur # Idle /\ cmd \in Command /\ UNCHANGED <<conns, readers>>
      /\ ran' = [ran EXCEPT ![cur.sock] = @ + 1]
      /\ connect_info_table' = [connect_info_table EXCEPT ![cur.idx] =
             RowWith(Row, Row.cmd_no + 1, Row.user_name, TableAfterOut, Row.env)]
  BY ExecutesRow DEF RefuseIn, RefuseOut
<1>2. Row.user_name \in Name \cup {NoName} /\ Row.env \in SUBSET EnvVar
  BY <1>1, InLine, Typed, RowFields DEF Rows, Row
<1>3. TableAfterOut \in Seq(Entry) /\ UserPipesAfterIn \in [Id \X Id -> 0 .. Len(pipes)]
  BY <1>1, AfterOut, AfterIn
<1>4. SamePipes(Len(pipes), pipes, pipes') /\ (NewNumPipe => pipes'[New] = MadeFor)
  <2>1. NewNumPipe => MadeFor \in PipeFor
    BY <1>1, MadeForTyped DEF NewNumPipe
  <2>2. pipes' = (IF NewNumPipe THEN Append(pipes, MadeFor) ELSE pipes)
    BY DEF RefuseIn, RefuseOut, OutRefused, NewNumPipe
  <2> QED
    BY <2>1, <2>2, MadeAppended DEF SamePipes
<1>5. /\ Owned(TableAfterOut, cur.sock, pipes')
      /\ Len(connect_info_table) = conns => OnTarget(TableAfterOut, pipes')
  BY <1>1, <1>4, OutKeepsOrder
<1>6. \A a \in Id \X Id : usr_pipe_table'[a] = 0 \/ usr_pipe_table'[a] = usr_pipe_table[a]
  BY DEF RefuseIn, RefuseOut, UserPipesAfterIn
<1>7. /\ usr_pipe_table \in [Id \X Id -> 0 .. Len(pipes)] /\ Len(pipes) \in Nat
      /\ readers \subseteq (1 .. Len(pipes)) \X Conn \X Nat
  BY Typed, LenProperties
<1>8. CellsOwn(usr_pipe_table', pipes') /\ ReadByOwn(readers, pipes')
  <2>1. CellsOwn(usr_pipe_table, pipes) /\ ReadByOwn(readers, pipes)
    BY DEF OrderInv, OwnInv
  <2> QED
    BY <1>4, <1>6, <1>7, <2>1, CellsStayRight, ReadersStayRight
<1>9. ASSUME Len(connect_info_table) = conns
      PROVE  /\ ReadRight(readers, pipes')
             /\ Columns(connect_info_table, usr_pipe_table', pipes')
  <2>1. /\ Columns(connect_info_table, usr_pipe_table, pipes) /\ ReadRight(readers, pipes)
    BY <1>9 DEF OrderInv, RightInv
  <2> QED
    BY <1>4, <1>6, <1>7, <2>1, CellsStayRight, ReadersStayRight
<1> QED
  BY <1>1, <1>2, <1>3, <1>4, <1>5, <1>8, <1>9, CommandKeepsOrder

LEMMA LaunchKeepsOrder ==
    ASSUME RosterInv, PipesInv, OrderInv, Launch
    PROVE  OrderInv'
<1> DEFINE T == connect_info_table
           P == usr_pipe_table
           c == <<me, cmd.out_usr_id>>
           new == <<Stdin, cur.sock, ran[cur.sock] + 1>>
<1>1. /\ Executes /\ cur # Idle /\ cmd \in Command /\ conns' = conns
      /\ ran' = [ran EXCEPT ![cur.sock] = @ + 1]
      /\ T' = [T EXCEPT ![cur.idx] =
             RowWith(Row, Row.cmd_no + 1, Row.user_name, TableAfterOut, Row.env)]
  BY ExecutesRow DEF Launch
<1>2. Row.user_name \in Name \cup {NoName} /\ Row.env \in SUBSET EnvVar /\ Row.user_id \in Id
      /\ cur.idx \in Rows /\ Row = T[cur.idx] /\ Row.socket_fd = cur.sock
  BY <1>1, InLine, Typed, RowFields DEF Rows, Row
<1>3. /\ TableAfterOut \in Seq(Entry) /\ UserPipesAfterIn \in [Id \X Id -> 0 .. Len(pipes)]
      /\ NumPipe \in 0 .. Len(pipes) /\ InPipe \in 0 .. Len(pipes) /\ Len(pipes) \in Nat
  BY <1>1, AfterOut, AfterIn, Typed, LenProperties
<1>4. /\ SamePipes(Len(pipes), pipes, pipes') /\ Stdin \in 0 .. Len(pipes)
      /\ NewNumPipe \/ NewUserPipe => pipes'[New] = MadeFor
  BY LaunchPlaces DEF SamePipes
<1>5. /\ Owned(TableAfterOut, cur.sock, pipes')
      /\ Len(T) = conns => OnTarget(TableAfterOut, pipes')
  BY <1>1, <1>4, OutKeepsOrder
<1>6. /\ P \in [Id \X Id -> 0 .. Len(pipes)] /\ readers \subseteq (1 .. Len(pipes)) \X Conn \X Nat
      /\ \A a \in Id \X Id : UserPipesAfterIn[a] = 0 \/ UserPipesAfterIn[a] = P[a]
  BY Typed DEF UserPipesAfterIn
<1>7. /\ CellsOwn(P, pipes) /\ ReadByOwn(readers, pipes)
      /\ Len(T) = conns => /\ Columns(T, P, pipes) /\ ReadRight(readers, pipes)
                           /\ Counts(T, ran)
  BY DEF OrderInv, OwnInv, RightInv
<1>8. /\ CellsOwn(UserPipesAfterIn, pipes') /\ ReadByOwn(readers, pipes')
      /\ Len(T) = conns => Columns(T, UserPipesAfterIn, pipes') /\ ReadRight(readers, pipes')
  BY <1>3, <1>4, <1>6, <1>7, CellsStayRight, ReadersStayRight
<1>9. NewUserPipe => /\ pipes'[New].nth = 0
                     /\ \E k \in Rows : /\ T[k].user_id = cmd.out_usr_id
                                        /\ T[k].socket_fd = pipes'[New].to
  <2>1. SUFFICES ASSUME NewUserPipe
                 PROVE  /\ pipes'[New].nth = 0
                        /\ \E k \in Rows : /\ T[k].user_id = cmd.out_usr_id
                                           /\ T[k].socket_fd = pipes'[New].to
    OBVIOUS
  <2>2. PICK k \in Rows : T[k].user_id = cmd.out_usr_id
    BY <2>1 DEF Launch, OutRefused, NewUserPipe, IdsInUse
  <2>3. SocketOf(T[k].user_id) = T[k].socket_fd
    BY RowOfUser
  <2>4. pipes'[New] = [from |-> cur.sock, to |-> SocketOf(cmd.out_usr_id), nth |-> 0]
    BY <1>4, <2>1 DEF MadeFor
  <2> QED
    BY <2>2, <2>3, <2>4
<1>10. usr_pipe_table' = IF NewUserPipe THEN [UserPipesAfterIn EXCEPT ![c] = New]
                         ELSE UserPipesAfterIn
  BY DEF Launch
<1>11. \A a \in Id \X Id :
           \/ usr_pipe_table'[a] = UserPipesAfterIn[a]
           \/ NewUserPipe /\ a = c /\ usr_pipe_table'[a] = New /\ a[2] = cmd.out_usr_id
  BY <1>3, <1>10
<1>12. CellsOwn(usr_pipe_table', pipes')
  BY <1>8, <1>9, <1>11 DEF CellsOwn
<1>13. Len(T) = conns => Columns(T, usr_pipe_table', pipes')
  BY <1>8, <1>9, <1>11 DEF Columns, Rows
<1>14. ASSUME Stdin # 0
       PROVE  /\ pipes[Stdin].nth # 0 => pipes[Stdin].from = cur.sock
              /\ Len(T) = conns => IF pipes[Stdin].nth = 0 THEN pipes[Stdin].to = cur.sock
                                   ELSE pipes[Stdin].nth = ran[cur.sock] + 1
  <2>1. CASE InPipe # 0
    <3> DEFINE d == <<cmd.in_usr_id, me>>
    <3>1. InPipe = P[d] /\ Stdin = InPipe /\ cmd.in_usr_id # 0
      BY <2>1 DEF InPipe, Stdin
    <3>2. d \in Id \X Id /\ d[2] = Row.user_id
      <4>1. cmd.in_usr_id \in Id
        BY <1>1, <3>1, CommandFields, SingleAssumption DEF Id
      <4> QED
        BY <1>2, <4>1 DEF me
    <3> HIDE DEF d
    <3>3. pipes[Stdin].nth = 0
      BY <1>7, <2>1, <3>1, <3>2 DEF CellsOwn
    <3>4. ASSUME Len(T) = conns PROVE pipes[Stdin].to = cur.sock
      <4>1. PICK k \in DOMAIN T : T[k].user_id = Row.user_id /\ T[k].socket_fd = pipes[Stdin].to
        BY <1>7, <2>1, <3>1, <3>2, <3>4 DEF Columns
      <4>2. k = cur.idx
        BY <1>2, <4>1 DEF RosterInv, RowsApart, Rows
      <4> QED
        BY <1>2, <4>1, <4>2
    <3> QED
      BY <3>3, <3>4
  <2>2. CASE InPipe = 0
    <3>1. Stdin = NumPipe /\ NumPipe # 0
      BY <1>14, <2>2 DEF Stdin
    <3>2. /\ pipes[Stdin].from = cur.sock /\ pipes[Stdin].nth # 0
          /\ Len(T) = conns => pipes[Stdin].nth = Row.cmd_no
      BY <1>1, <3>1, TargetKeepsOrder
    <3>3. Len(T) = conns => Row.cmd_no = ran[cur.sock] + 1
      BY <1>2, <1>7 DEF Counts, Rows
    <3> QED
      BY <3>2, <3>3
  <2> QED
    BY <2>1, <2>2
<1>15. /\ \/ readers' = readers
          \/ readers' = readers \cup {new} /\ Stdin # 0
       /\ new[1] = Stdin /\ new[2] = cur.sock /\ new[3] = ran[cur.sock] + 1
  BY DEF Launch
<1>16. Stdin # 0 => pipes'[Stdin] = pipes[Stdin]
  BY <1>3, <1>4 DEF SamePipes
<1> HIDE DEF new
<1>17. ReadByOwn(readers', pipes')
  BY <1>8, <1>14, <1>15, <1>16 DEF ReadByOwn
<1>18. Len(T) = conns => ReadRight(readers', pipes')
  BY <1>8, <1>14, <1>15, <1>16 DEF ReadRight
<1> QED
  BY <1>1, <1>2, <1>3, <1>4, <1>5, <1>12, <1>13, <1>17, <1>18, CommandKeepsOrder

-----------------------------------------------------------------------------
(* The server as a whole.                                                  *)

LEMMA InitIInv == Init => IInv
<1> SUFFICES ASSUME Init PROVE IInv
  OBVIOUS
<1>1. /\ connect_info_table = <<>> /\ pipes = <<>> /\ readers = {} /\ ends = {} /\ cur = Idle
      /\ client_socket = [s \in Id |-> 0] /\ usr_pipe_table = [ids \in Id \X Id |-> 0]
      /\ environ = {} /\ conns = 0 /\ ran = [c \in Conn |-> 0]
  BY DEF Init
<1>2. Idle \in Line
  BY DEF Idle, Line
<1>3. TypeOK
  BY <1>1, <1>2, SingleAssumption DEF TypeOK
<1>4. RosterInv
  BY <1>1, <1>3 DEF RosterInv, SlotsMatch, RowsApart, RowsAmong, EnvironIsOwn
<1>5. PipesInv
  BY <1>1 DEF PipesInv, NumPipes, PipesSound, EntriesApart, CellsApart, EntriesNotCells,
              EntriesHeld, CellsHeld, ReadersAlone
<1>6. OrderInv
  BY <1>1 DEF OrderInv, OwnInv, RightInv, CellsOwn, Columns, ReadByOwn, ReadRight, Counts,
              NotYet, Rows
<1> QED
  BY <1>4, <1>5, <1>6 DEF IInv

LEMMA NextIInv == IInv /\ [Next]_vars => IInv'
<1> SUFFICES ASSUME IInv, [Next]_vars PROVE IInv'
  OBVIOUS
<1> USE DEF IInv
<1>1. CASE \/ Accept \/ (\E s \in Id : Disconnect(s)) \/ WaitReturns
           \/ (\E s \in Id, l \in Lines : ReadLine(s, l))
  BY <1>1, SelectKeepsRoster, OthersKeepPipes, SelectKeepsOrder
<1>2. CASE RunExit
  BY <1>2, ExitKeepsRoster, OthersKeepPipes, SelectKeepsOrder
<1>3. CASE RunName \/ RunSetenv \/ RunTalk
  BY <1>3, BuiltinsKeepRoster, OthersKeepPipes, BuiltinsKeepOrder
<1>4. CASE RefuseIn
  BY <1>4, RefuseInKeeps, RefusedKeepsOrder
<1>5. CASE RefuseOut
  BY <1>5, RefuseOutKeeps, RefusedKeepsOrder
<1>6. CASE Launch
  BY <1>6, LaunchKeeps, LaunchKeepsOrder
<1>7. CASE UNCHANGED vars
  <2>1. RosterInv'
    BY <1>7 DEF vars, RosterInv, TypeOK, EnvironIsOwn, Row, Rows
  <2>2. PipesInv'
    BY <1>7 DEF vars, PipesInv
  <2>3. OrderInv'
    BY <1>7 DEF vars, OrderInv, OwnInv, RightInv, Rows
  <2> QED
    BY <2>1, <2>2, <2>3
<1> QED
  BY <1>1, <1>2, <1>3, <1>4, <1>5, <1>6, <1>7 DEF Next, RunCommand

\* The inductive invariant holds in every state of the server.
THEOREM Invariance == Spec => []IInv
BY InitIInv, NextIInv, PTL DEF Spec

\* Every variable of the server keeps its type, and the line that is run keeps
\* naming the slot and the row of its user.
THEOREM TypeCorrect == Spec => []TypeOK
<1>1. IInv => TypeOK
  BY DEF IInv, RosterInv
<1> QED
  BY <1>1, Invariance, PTL

\* select watches exactly the sockets of the users in the table, whatever order
\* they come and leave in.
THEOREM SlotsAlwaysAgree == Spec => []SlotsAgree
<1>1. IInv => SlotsAgree
  BY DEF IInv, RosterInv, SlotsMatch, RowsApart, SlotsAgree, Online, Rows
<1> QED
  BY <1>1, Invariance, PTL

\* A line is run with the variables of the user who typed it.
THEOREM EnvironAlwaysOwn == Spec => []EnvironIsOwn
<1>1. IInv => EnvironIsOwn
  BY DEF IInv, RosterInv
<1> QED
  BY <1>1, Invariance, PTL

\* A pipe is in one place at most and the input of one command at most, and then both
\* of its ends are closed in the server.
THEOREM PipesAlwaysInOnePlace == Spec => []PipesInOnePlace
<1>1. ASSUME IInv PROVE PipesInOnePlace
  <2> DEFINE N == NumPipes(connect_info_table)
  <2>1. PipesSound(N, usr_pipe_table, ends, readers)
    BY <1>1 DEF IInv, PipesInv
  <2>2. \A p \in Places : /\ p[1] \in DOMAIN N /\ p[2] \in DOMAIN N[p[1]]
                          /\ NumAt(p) = N[p[1]][p[2]].pipe /\ p = <<p[1], p[2]>>
    BY DEF Places, NumAt, NumPipes, Rows
  <2> HIDE DEF N
  <2>3. \A p, q \in Places : p # q => NumAt(p) # NumAt(q)
    BY <2>1, <2>2 DEF PipesSound, EntriesApart
  <2>4. \A a, b \in Cells : a # b => usr_pipe_table[a] # usr_pipe_table[b]
    BY <2>1 DEF PipesSound, CellsApart, Cells
  <2>5. \A p \in Places, a \in Cells : NumAt(p) # usr_pipe_table[a]
    BY <2>1, <2>2 DEF PipesSound, EntriesNotCells, Cells
  <2>6. /\ \A p \in Places : Held(NumAt(p), ends, readers)
        /\ \A a \in Cells : Held(usr_pipe_table[a], ends, readers)
    BY <2>1, <2>2 DEF PipesSound, EntriesHeld, CellsHeld, Cells
  <2>7. InOnePlace
    BY <2>3, <2>4, <2>5, <2>6 DEF InOnePlace, Held, Unread
  <2>8. ReaderAlone
    BY <2>1 DEF PipesSound, ReadersAlone, ReaderAlone
  <2> QED
    BY <2>7, <2>8 DEF PipesInOnePlace
<1> QED
  BY <1>1, Invariance, PTL

\* A numbered pipe is read by its own user, and as long as nobody has left every
\* pipe by the command it was made for.
THEOREM PipesAlwaysReadInOrder == Spec => []PipesReadInOrder
<1>1. IInv => PipesReadInOrder
  BY DEF IInv, OrderInv, OwnInv, RightInv, ReadByOwn, ReadRight, PipesReadInOrder
<1> QED
  BY <1>1, Invariance, PTL

-----------------------------------------------------------------------------
(* What becomes of a pipe that is kept.                                    *)

\* The pipe n is among the numbered pipes N of the rows, or in a cell of P.
InTable(n, t) == \E j \in DOMAIN t : t[j].pipe = n
Among(n, N) == \E k \in DOMAIN N : InTable(n, N[k])
InCells(n, P) == \E a \in Id \X Id : P[a] = n

LEMMA KeptPipes ==
    /\ \A n : n \in Kept <=>
          n \in DOMAIN pipes /\ (Among(n, NumPipes(connect_info_table)) \/ InCells(n, usr_pipe_table))
    /\ \A n : n \in Kept' <=>
          n \in DOMAIN pipes' /\ (Among(n, NumPipes(connect_info_table')) \/ InCells(n, usr_pipe_table'))
BY DEF Kept, Among, InTable, InCells, NumPipes, Rows

\* The table of a command that is run loses its numbered pipe alone, and has the new one.
LEMMA TableKeeps ==
    ASSUME RosterInv, PipesInv, cur # Idle, cmd \in Command
    PROVE  /\ \A n : InTable(n, Row.numpipe_table) => n = NumPipe \/ InTable(n, TableAfterOut)
           /\ NewNumPipe => InTable(New, TableAfterOut)
<1> DEFINE t == Row.numpipe_table
           f == FirstFor(Row.cmd_no, t)
           e == [target_cmd_num |-> Dest, pipe |-> New]
<1>1. t \in Seq(Entry) /\ TableAfterTarget \in Seq(Entry)
  BY InLine, Typed, RowFields, AfterTarget DEF Row, Rows
<1>2. ASSUME NEW n, InTable(n, t) PROVE n = NumPipe \/ InTable(n, TableAfterTarget)
  <2>1. CASE IsTarget
    <3>1. f \in DOMAIN t /\ NumPipe = t[f].pipe /\ TableAfterTarget = RemoveAt(t, f)
      BY <1>1, <2>1, FirstIsEntry DEF IsTarget, NumPipe, TableAfterTarget
    <3> HIDE DEF f, t
    <3>2. f \in 1 .. Len(t)
      BY <1>1, <3>1, LenProperties
    <3>3. \A j \in DOMAIN t \ {f} : \E k \in DOMAIN RemoveAt(t, f) : RemoveAt(t, f)[k] = t[j]
      BY <1>1, <3>2, RemovedOnce
    <3> QED
      BY <1>2, <3>1, <3>3 DEF InTable
  <2>2. CASE ~IsTarget
    BY <1>2, <2>2 DEF TableAfterTarget
  <2> QED
    BY <2>1, <2>2
<1>3. CASE NewNumPipe
  <2>1. TableAfterOut = Append(TableAfterTarget, e) /\ e.pipe = New
    BY <1>3 DEF TableAfterOut
  <2> HIDE DEF e, t
  <2>2. /\ DOMAIN TableAfterOut = 1 .. Len(TableAfterTarget) + 1
        /\ TableAfterOut[Len(TableAfterTarget) + 1] = e
        /\ DOMAIN TableAfterTarget = 1 .. Len(TableAfterTarget) /\ Len(TableAfterTarget) \in Nat
        /\ \A j \in 1 .. Len(TableAfterTarget) : TableAfterOut[j] = TableAfterTarget[j]
    BY <1>1, <2>1, AppendProperties, LenProperties
  <2>3. InTable(New, TableAfterOut)
    BY <2>1, <2>2 DEF InTable
  <2>4. \A n : InTable(n, TableAfterTarget) => InTable(n, TableAfterOut)
    BY <2>2 DEF InTable
  <2> QED
    BY <1>2, <2>3, <2>4 DEF t
<1>4. CASE ~NewNumPipe
  <2>1. TableAfterOut = TableAfterTarget
    BY <1>4 DEF TableAfterOut
  <2> QED
    BY <1>2, <1>4, <2>1
<1> QED
  BY <1>3, <1>4

\* The rows of the others keep theirs.
LEMMA RowsKeep ==
    ASSUME RosterInv, PipesInv, Executes
    PROVE  LET M == NumPipes(connect_info_table')
           IN  /\ \A n : Among(n, NumPipes(connect_info_table)) => n = NumPipe \/ Among(n, M)
               /\ NewNumPipe => Among(New, M)
<1> DEFINE N == NumPipes(connect_info_table)
           M == NumPipes(connect_info_table')
<1>1. /\ M = [N EXCEPT ![cur.idx] = TableAfterOut] /\ cur.idx \in DOMAIN N
      /\ N[cur.idx] = Row.numpipe_table /\ cur # Idle /\ cmd \in Command
  BY ExecutesRow, PipesMade DEF Row
<1> HIDE DEF M, N
<1>2. /\ DOMAIN M = DOMAIN N /\ M[cur.idx] = TableAfterOut
      /\ \A k \in DOMAIN N : k # cur.idx => M[k] = N[k]
  BY <1>1
<1>3. /\ \A n : InTable(n, Row.numpipe_table) => n = NumPipe \/ InTable(n, TableAfterOut)
      /\ NewNumPipe => InTable(New, TableAfterOut)
  BY <1>1, TableKeeps
<1>4. ASSUME NEW n, Among(n, N) PROVE n = NumPipe \/ Among(n, M)
  BY <1>1, <1>2, <1>3, <1>4 DEF Among
<1>5. NewNumPipe => Among(New, M)
  BY <1>1, <1>2, <1>3 DEF Among
<1> QED
  BY <1>4, <1>5 DEF M, N

\* A row that is erased takes its pipes along, and its socket is gone with it.
LEMMA RowTakesItsPipes ==
    ASSUME NEW T \in Seq(RowType), NEW k \in DOMAIN T, RowsApart(T),
           NEW U, DOMAIN U = DOMAIN RemoveAt(T, k),
           \A i \in DOMAIN U : /\ U[i].socket_fd = RemoveAt(T, k)[i].socket_fd
                             /\ U[i].numpipe_table = RemoveAt(T, k)[i].numpipe_table
    PROVE  /\ T[k].socket_fd \notin {U[i].socket_fd : i \in DOMAIN U}
           /\ \A n : Among(n, NumPipes(T)) =>
                 Among(n, NumPipes(U)) \/ InTable(n, T[k].numpipe_table)
<1> DEFINE V == RemoveAt(T, k)
<1>1. k \in 1 .. Len(T) /\ DOMAIN T = 1 .. Len(T)
  BY LenProperties
<1>2. PICK f \in [DOMAIN V -> DOMAIN T \ {k}] : \A i \in DOMAIN V : V[i] = T[f[i]]
  BY <1>1, RemovedOnce
<1>3. \A j \in DOMAIN T \ {k} : \E i \in DOMAIN V : V[i] = T[j]
  BY <1>1, RemovedOnce
<1> HIDE DEF V
<1>4. \A i \in DOMAIN U : f[i] \in DOMAIN T /\ f[i] # k /\ U[i].socket_fd = T[f[i]].socket_fd
  BY <1>2 DEF V
<1>5. \A i \in DOMAIN U : U[i].socket_fd # T[k].socket_fd
  BY <1>4 DEF RowsApart
<1>6. ASSUME NEW n, Among(n, NumPipes(T)), ~InTable(n, T[k].numpipe_table)
      PROVE  Among(n, NumPipes(U))
  <2>1. PICK j \in DOMAIN T : InTable(n, T[j].numpipe_table)
    BY <1>6 DEF Among, NumPipes
  <2>2. PICK i \in DOMAIN V : V[i] = T[j]
    BY <1>3, <1>6, <2>1
  <2>3. i \in DOMAIN U /\ U[i].numpipe_table = T[j].numpipe_table
    BY <2>2 DEF V
  <2> QED
    BY <2>1, <2>3 DEF Among, NumPipes
<1> QED
  BY <1>5, <1>6

\* The step of PipesKept, with the pipes given by what keeps them.
LEMMA StepKeepsPipes ==
    ASSUME \A n \in DOMAIN pipes : n \in DOMAIN pipes',
           \A n \in DOMAIN pipes' :
              \/ n \in DOMAIN pipes \/ Among(n, NumPipes(connect_info_table'))
              \/ InCells(n, usr_pipe_table'),
           \A n \in DOMAIN pipes :
              Among(n, NumPipes(connect_info_table)) \/ InCells(n, usr_pipe_table) =>
                 \/ Among(n, NumPipes(connect_info_table')) \/ InCells(n, usr_pipe_table')
                 \/ \E r \in readers' : r[1] = n
                 \/ LostWithUser(n) \/ LostByCommand(n)
    PROVE  /\ \A n \in DOMAIN pipes' : n \in DOMAIN pipes \/ n \in Kept'
           /\ \A n \in Kept : \/ n \in Kept' \/ (\E r \in readers' : r[1] = n)
                              \/ LostWithUser(n) \/ LostByCommand(n)
BY KeptPipes

\* Users who come, and commands without pipes, keep every pipe.
LEMMA StayersKeepPipes ==
    ASSUME RosterInv, PipesInv,
           \/ UNCHANGED vars \/ Accept
           \/ \E s \in Id, l \in Lines : ReadLine(s, l)
           \/ RunName \/ RunSetenv \/ RunTalk \/ WaitReturns
    PROVE  /\ UNCHANGED <<pipes, usr_pipe_table>>
           /\ \A n : Among(n, NumPipes(connect_info_table))
                      => Among(n, NumPipes(connect_info_table'))
<1> DEFINE T == connect_info_table
<1>1. UNCHANGED <<pipes, usr_pipe_table>>
  BY DEF vars, Accept, ReadLine, RunName, RunSetenv, RunTalk, WaitReturns
<1>2. /\ DOMAIN T \subseteq DOMAIN T'
      /\ \A k \in DOMAIN T : T'[k].numpipe_table = T[k].numpipe_table
  <2>1. CASE Accept
    <3>1. PICK r : T' = Append(T, r)
      BY <2>1 DEF Accept
    <3> QED
      BY <3>1, Typed, AppendProperties, LenProperties
  <2>2. CASE RunName \/ RunSetenv \/ RunTalk
    <3>1. /\ cur # Idle
          /\ \E nm, v : T' = [T EXCEPT ![cur.idx] =
                 RowWith(Row, Row.cmd_no + 1, nm, Row.numpipe_table, v)]
      BY <2>2, BuiltinsRow
    <3>2. cur.idx \in DOMAIN T /\ Row = T[cur.idx]
      BY <3>1, InLine DEF Rows, Row
    <3> QED
      BY <3>1, <3>2 DEF RowWith
  <2>3. CASE UNCHANGED vars \/ (\E s \in Id, l \in Lines : ReadLine(s, l)) \/ WaitReturns
    BY <2>3 DEF vars, ReadLine, WaitReturns
  <2> QED
    BY <2>1, <2>2, <2>3
<1> QED
  BY <1>1, <1>2 DEF Among, NumPipes

\* A user who leaves loses the pipes of the row and, at exit, a column.
LEMMA LeaversLose ==
    ASSUME RosterInv, PipesInv, RunExit \/ \E s \in Id : Disconnect(s),
           NEW n, n # 0,
           Among(n, NumPipes(connect_info_table)) \/ InCells(n, usr_pipe_table)
    PROVE  \/ Among(n, NumPipes(connect_info_table')) \/ InCells(n, usr_pipe_table')
           \/ LostWithUser(n)
<1> DEFINE T == connect_info_table
           U == connect_info_table'
<1>1. T \in Seq(RowType) /\ RowsApart(T) /\ DOMAIN T = 1 .. Len(T) /\ Rows = DOMAIN T
  BY Typed, LenProperties DEF RosterInv, Rows
<1>2. \E k \in DOMAIN T :
          /\ DOMAIN U = DOMAIN RemoveAt(T, k)
          /\ \A i \in DOMAIN U : /\ U[i].socket_fd = RemoveAt(T, k)[i].socket_fd
                               /\ U[i].numpipe_table = RemoveAt(T, k)[i].numpipe_table
          /\ \A a \in Id \X Id : \/ usr_pipe_table'[a] = usr_pipe_table[a]
                                 \/ k = cur.idx /\ a[2] = k
  <2>1. CASE RunExit
    <3> DEFINE V == RemoveAt(T, cur.idx)
    <3>1. cur.idx \in DOMAIN T /\ cur.idx \in Nat /\ U = Bumped(V, cur.idx)
      BY <1>1, <2>1, InLine DEF RunExit, Running
    <3>2. V \in Seq(RowType)
      BY <1>1, <3>1, Removed
    <3> HIDE DEF V
    <3>3. /\ DOMAIN U = DOMAIN V
          /\ \A i \in DOMAIN V : /\ U[i].socket_fd = V[i].socket_fd
                               /\ U[i].numpipe_table = V[i].numpipe_table
      BY <3>1, <3>2, BumpedRows DEF SameUsers
    <3>4. \A a \in Id \X Id : usr_pipe_table'[a] = usr_pipe_table[a] \/ a[2] = cur.idx
      BY <2>1 DEF RunExit
    <3> QED
      BY <3>1, <3>3, <3>4 DEF V
  <2>2. CASE \E s \in Id : Disconnect(s)
    BY <2>2 DEF Disconnect, Rows
  <2> QED
    BY <2>1, <2>2
<1>3. PICK k \in DOMAIN T :
          /\ DOMAIN U = DOMAIN RemoveAt(T, k)
          /\ \A i \in DOMAIN U : /\ U[i].socket_fd = RemoveAt(T, k)[i].socket_fd
                               /\ U[i].numpipe_table = RemoveAt(T, k)[i].numpipe_table
          /\ \A a \in Id \X Id : \/ usr_pipe_table'[a] = usr_pipe_table[a]
                                 \/ k = cur.idx /\ a[2] = k
  BY <1>2
<1>4. /\ T[k].socket_fd \notin {U[i].socket_fd : i \in DOMAIN U}
      /\ Among(n, NumPipes(T)) => Among(n, NumPipes(U)) \/ InTable(n, T[k].numpipe_table)
  <2> HIDE DEF T, U
  <2> QED
    BY <1>1, <1>3, RowTakesItsPipes
<1>5. T[k].socket_fd \notin Online' /\ k \in Rows
  BY <1>1, <1>4 DEF Online, Rows
<1>6. CASE Among(n, NumPipes(T))
  BY <1>4, <1>5, <1>6 DEF LostWithUser, InTable
<1>7. CASE InCells(n, usr_pipe_table)
  <2>1. PICK a \in Id \X Id : usr_pipe_table[a] = n
    BY <1>7 DEF InCells
  <2>2. CASE usr_pipe_table'[a] = usr_pipe_table[a]
    BY <2>1, <2>2 DEF InCells
  <2>3. CASE k = cur.idx /\ a[2] = k
    <3>1. a[1] \in Id /\ usr_pipe_table[<<a[1], k>>] = n
      BY <2>1, <2>3
    <3> QED
      BY <1>5, <2>3, <3>1 DEF LostWithUser
  <2> QED
    BY <1>3, <2>2, <2>3
<1> QED
  BY <1>6, <1>7

\* The pipes made before are still there, and there is at most one more.
LEMMA PipesGrow ==
    ASSUME RosterInv, NEW m, pipes' = pipes \/ pipes' = Append(pipes, m)
    PROVE  /\ DOMAIN pipes \subseteq DOMAIN pipes' /\ 0 \notin DOMAIN pipes
           /\ \A n \in DOMAIN pipes' : n \in DOMAIN pipes \/ (pipes' # pipes /\ n = New)
BY Typed, AppendProperties, LenProperties DEF New

\* A pipe that leaves its cell was the one of <n.
LEMMA CellsAfterIn ==
    ASSUME RosterInv, PipesInv, cur # Idle, NEW a \in Id \X Id,
           UserPipesAfterIn[a] # usr_pipe_table[a]
    PROVE  usr_pipe_table[a] = InPipe /\ UserPipesAfterIn[a] = 0
<1>1. a = <<cmd.in_usr_id, me>> /\ UserPipesAfterIn[a] = 0
  BY DEF UserPipesAfterIn
<1>2. cmd.in_usr_id # 0
  BY <1>1 DEF Id
<1> QED
  BY <1>1, <1>2 DEF InPipe

\* A refused command loses what it was to read.
LEMMA RefusedLose ==
    ASSUME RosterInv, PipesInv, RefuseIn \/ RefuseOut,
           NEW n, n # 0,
           Among(n, NumPipes(connect_info_table)) \/ InCells(n, usr_pipe_table)
    PROVE  \/ Among(n, NumPipes(connect_info_table')) \/ InCells(n, usr_pipe_table')
           \/ LostByCommand(n)
<1>1. /\ Executes /\ cur # Idle /\ cmd.prog = "run" /\ (InMissing \/ OutRefused)
      /\ \/ usr_pipe_table' = usr_pipe_table
         \/ usr_pipe_table' = UserPipesAfterIn /\ OutRefused
  BY ExecutesRow DEF RefuseIn, RefuseOut, Executes
<1>2. CASE Among(n, NumPipes(connect_info_table))
  <2>1. n = NumPipe \/ Among(n, NumPipes(connect_info_table'))
    BY <1>1, <1>2, RowsKeep
  <2> QED
    BY <1>1, <2>1 DEF LostByCommand
<1>3. CASE InCells(n, usr_pipe_table)
  <2>1. PICK a \in Id \X Id : usr_pipe_table[a] = n
    BY <1>3 DEF InCells
  <2>2. CASE usr_pipe_table'[a] = usr_pipe_table[a]
    BY <2>1, <2>2 DEF InCells
  <2>3. CASE usr_pipe_table'[a] # usr_pipe_table[a]
    <3>1. n = InPipe /\ OutRefused
      BY <1>1, <2>1, <2>3, CellsAfterIn
    <3> QED
      BY <1>1, <3>1 DEF LostByCommand
  <2> QED
    BY <2>2, <2>3
<1> QED
  BY <1>2, <1>3

\* A command that is started reads the pipe it took, and fills only an empty cell.
LEMMA LaunchReads ==
    ASSUME RosterInv, PipesInv, Launch,
           NEW n, n # 0,
           Among(n, NumPipes(connect_info_table)) \/ InCells(n, usr_pipe_table)
    PROVE  \/ Among(n, NumPipes(connect_info_table')) \/ InCells(n, usr_pipe_table')
           \/ (\E r \in readers' : r[1] = n) \/ LostByCommand(n)
<1> DEFINE P == UserPipesAfterIn
           c == <<me, cmd.out_usr_id>>
<1>1. /\ Executes /\ cur # Idle /\ cmd.prog = "run" /\ ~OutRefused
      /\ usr_pipe_table' = (IF NewUserPipe THEN [P EXCEPT ![c] = New] ELSE P)
      /\ readers' = IF Stdin = 0 THEN readers
                    ELSE readers \cup {<<Stdin, cur.sock, ran[cur.sock] + 1>>}
  BY ExecutesRow DEF Launch, Executes
<1>2. ASSUME Stdin # 0 PROVE \E r \in readers' : r[1] = Stdin
  <2> DEFINE q == <<Stdin, cur.sock, ran[cur.sock] + 1>>
  <2>1. q \in readers' /\ q[1] = Stdin
    BY <1>1, <1>2
  <2> HIDE DEF q
  <2> QED
    BY <2>1
<1>3. CASE Among(n, NumPipes(connect_info_table))
  <2>1. n = NumPipe \/ Among(n, NumPipes(connect_info_table'))
    BY <1>1, <1>3, RowsKeep
  <2>2. n = NumPipe => Stdin = n \/ InPipe # 0
    BY DEF Stdin
  <2> QED
    BY <1>1, <1>2, <2>1, <2>2 DEF LostByCommand
<1>4. CASE InCells(n, usr_pipe_table)
  <2>1. PICK a \in Id \X Id : usr_pipe_table[a] = n
    BY <1>4 DEF InCells
  <2>2. CASE P[a] # usr_pipe_table[a]
    <3>1. InPipe = n
      BY <1>1, <2>1, <2>2, CellsAfterIn
    <3>2. Stdin = n
      BY <3>1 DEF Stdin
    <3> QED
      BY <1>2, <3>2
  <2>3. CASE P[a] = usr_pipe_table[a]
    <3>1. NewUserPipe => P[c] = 0
      BY <1>1 DEF OutRefused, NewUserPipe
    <3>2. NewUserPipe => a # c
      BY <2>1, <2>3, <3>1
    <3>3. P \in [Id \X Id -> 0 .. Len(pipes)]
      BY <1>1, AfterIn, ExecutesRow
    <3> HIDE DEF P, c
    <3>4. usr_pipe_table'[a] = n
      BY <1>1, <2>1, <2>3, <3>2, <3>3
    <3> QED
      BY <3>4 DEF InCells
  <2> QED
    BY <2>2, <2>3
<1> QED
  BY <1>3, <1>4

\* The pipe of a |N is in the row, and that of a >n in its cell.
LEMMA NewPipeKept ==
    ASSUME RosterInv, PipesInv, RefuseIn \/ RefuseOut \/ Launch
    PROVE  /\ pipes' = pipes \/ pipes' = Append(pipes, MadeFor)
           /\ pipes' # pipes => \/ Among(New, NumPipes(connect_info_table'))
                              \/ InCells(New, usr_pipe_table')
<1>1. /\ pipes' = pipes \/ pipes' = Append(pipes, MadeFor)
      /\ pipes' # pipes => NewNumPipe \/ (NewUserPipe /\ Launch)
  BY DEF RefuseIn, RefuseOut, Launch
<1>2. Executes
  BY DEF RefuseIn, RefuseOut, Launch
<1>3. NewNumPipe => Among(New, NumPipes(connect_info_table'))
  BY <1>2, RowsKeep
<1>4. ASSUME NewUserPipe, Launch PROVE InCells(New, usr_pipe_table')
  <2> DEFINE c == <<me, cmd.out_usr_id>>
  <2>1. usr_pipe_table' = [UserPipesAfterIn EXCEPT ![c] = New]
    BY <1>4 DEF Launch
  <2>2. c \in Id \X Id
    BY <1>2, ExecutesRow, InLine, Typed, RowFields, CommandFields DEF Row, Rows, me
  <2>3. UserPipesAfterIn \in [Id \X Id -> 0 .. Len(pipes)]
    BY <1>2, AfterIn, ExecutesRow
  <2> HIDE DEF c
  <2> QED
    BY <2>1, <2>2, <2>3 DEF InCells
<1> QED
  BY <1>1, <1>3, <1>4

\* A pipe that was made is in one place, and stays there until a command reads it, unless
\* it goes with a user or a command that is refused or has a <n drops it.
THEOREM PipesAlwaysKept == Spec => PipesKept
<1>1. ASSUME IInv, [Next]_vars
      PROVE  /\ \A n \in DOMAIN pipes' : n \in DOMAIN pipes \/ n \in Kept'
             /\ \A n \in Kept : \/ n \in Kept' \/ (\E r \in readers' : r[1] = n)
                                \/ LostWithUser(n) \/ LostByCommand(n)
  <2>1. RosterInv /\ PipesInv
    BY <1>1 DEF IInv
  <2>2. CASE \/ UNCHANGED vars \/ Accept
             \/ \E s \in Id, l \in Lines : ReadLine(s, l)
             \/ RunName \/ RunSetenv \/ RunTalk \/ WaitReturns
    BY <2>1, <2>2, StayersKeepPipes, StepKeepsPipes
  <2>3. CASE RunExit \/ \E s \in Id : Disconnect(s)
    <3>1. pipes' = pipes
      BY <2>3 DEF RunExit, Disconnect
    <3>2. \A n \in DOMAIN pipes : n # 0
      BY <2>1, <3>1, PipesGrow
    <3> QED
      BY <2>1, <2>3, <3>1, <3>2, LeaversLose, StepKeepsPipes
  <2>4. CASE RefuseIn \/ RefuseOut \/ Launch
    <3>1. /\ pipes' = pipes \/ pipes' = Append(pipes, MadeFor)
          /\ pipes' # pipes => \/ Among(New, NumPipes(connect_info_table'))
                             \/ InCells(New, usr_pipe_table')
      BY <2>1, <2>4, NewPipeKept
    <3>2. /\ DOMAIN pipes \subseteq DOMAIN pipes' /\ 0 \notin DOMAIN pipes
          /\ \A n \in DOMAIN pipes' : n \in DOMAIN pipes \/ (pipes' # pipes /\ n = New)
      BY <2>1, <3>1, PipesGrow
    <3>3. ASSUME NEW n \in DOMAIN pipes,
                 Among(n, NumPipes(connect_info_table)) \/ InCells(n, usr_pipe_table)
          PROVE  \/ Among(n, NumPipes(connect_info_table')) \/ InCells(n, usr_pipe_table')
                 \/ (\E r \in readers' : r[1] = n) \/ LostByCommand(n)
      <4>1. n # 0
        BY <3>2
      <4>2. CASE RefuseIn \/ RefuseOut
        BY <2>1, <3>3, <4>1, <4>2, RefusedLose
      <4>3. CASE Launch
        BY <2>1, <3>3, <4>1, <4>3, LaunchReads
      <4> QED
        BY <2>4, <4>2, <4>3
    <3>4. \A n \in DOMAIN pipes' :
             \/ n \in DOMAIN pipes \/ Among(n, NumPipes(connect_info_table'))
             \/ InCells(n, usr_pipe_table')
      BY <3>1, <3>2
    <3> QED
      BY <3>2, <3>3, <3>4, StepKeepsPipes
  <2> QED
    BY <1>1, <2>2, <2>3, <2>4 DEF Next, RunCommand
<1> QED
  BY <1>1, Invariance, PipesAlwaysInOnePlace, PTL DEF Spec, PipesKept

-----------------------------------------------------------------------------
(* The rows are the users of the roster.                                   *)

\* The users of the rows T, by their ids.
UserIds(T) == {T[k].user_id : k \in DOMAIN T}
UserIn(r) == [conn |-> r.socket_fd, name |-> r.user_name]
UsersOf(T) ==
    [i \in UserIds(T) |-> UserIn(T[CHOOSE k \in DOMAIN T : T[k].user_id = i])]

LEMMA UserAtRow ==
    ASSUME NEW T, RowsApart(T), NEW k \in DOMAIN T
    PROVE  T[k].user_id \in UserIds(T) /\ UsersOf(T)[T[k].user_id] = UserIn(T[k])
<1>1. \A l \in DOMAIN T : T[l].user_id = T[k].user_id => l = k
  BY DEF RowsApart
<1>2. (CHOOSE l \in DOMAIN T : T[l].user_id = T[k].user_id) = k
  BY <1>1
<1>3. T[k].user_id \in UserIds(T)
  BY DEF UserIds
<1> QED
  BY <1>2, <1>3 DEF UsersOf

\* The users of the roster are those of the rows, before a step and after it.
LEMMA RosterUsers ==
    /\ [i \in IdsInUse |-> [conn |-> RowOf(i).socket_fd, name |-> RowOf(i).user_name]]
       = UsersOf(connect_info_table)
    /\ [i \in IdsInUse |-> [conn |-> RowOf(i).socket_fd, name |-> RowOf(i).user_name]]'
       = UsersOf(connect_info_table')
    /\ IdsInUse = UserIds(connect_info_table)
BY DEF IdsInUse, RowOf, Rows, UsersOf, UserIds, UserIn

LEMMA SameUsersSame ==
    ASSUME NEW T, NEW U, SameUsers(T, U), RowsApart(T)
    PROVE  UsersOf(U) = UsersOf(T)
<1>1. RowsApart(U)
  BY DEF SameUsers, RowsApart
<1>2. UserIds(U) = UserIds(T)
  BY DEF SameUsers, UserIds
<1>3. \A k \in DOMAIN U : UsersOf(T)[U[k].user_id] = UserIn(U[k])
  BY UserAtRow DEF SameUsers, UserIn
<1>4. UsersOf(T) = [i \in UserIds(T) |-> UsersOf(T)[i]]
  BY DEF UsersOf
<1>5. UsersOf(U) = [i \in UserIds(U) |-> UsersOf(U)[i]]
  BY DEF UsersOf
<1>6. \A i \in UserIds(U) : UsersOf(U)[i] = UsersOf(T)[i]
  BY <1>1, <1>3, UserAtRow DEF UserIds
<1> QED
  BY <1>2, <1>4, <1>5, <1>6

\* Of a user who comes.
LEMMA UsersEnter ==
    ASSUME NEW T \in Seq(RowType), NEW r \in RowType, RowsApart(Append(T, r)), RowsApart(T)
    PROVE  UsersOf(Append(T, r)) =
               [j \in UserIds(T) \cup {r.user_id} |->
                   IF j = r.user_id THEN UserIn(r) ELSE UsersOf(T)[j]]
<1> DEFINE U == Append(T, r)
<1>1. /\ Len(U) = Len(T) + 1 /\ DOMAIN T = 1 .. Len(T) /\ Len(T) \in Nat
      /\ DOMAIN U = 1 .. Len(T) + 1 /\ U[Len(T) + 1] = r
      /\ \A i \in 1 .. Len(T) : U[i] = T[i]
  BY AppendProperties, LenProperties
<1>2. /\ DOMAIN T \subseteq DOMAIN U /\ Len(T) + 1 \in DOMAIN U
      /\ \A i \in DOMAIN U : i \in DOMAIN T \/ i = Len(T) + 1
      /\ \A i \in DOMAIN T : U[i] = T[i] /\ i # Len(T) + 1
  BY <1>1
<1>3. RowsApart(U)
  OBVIOUS
<1> HIDE DEF U
<1>4. UserIds(U) = UserIds(T) \cup {r.user_id}
  BY <1>1, <1>2 DEF UserIds
<1>5. UsersOf(U)[r.user_id] = UserIn(r)
  BY <1>1, <1>2, <1>3, UserAtRow
<1>6. ASSUME NEW j \in UserIds(T) PROVE j # r.user_id /\ UsersOf(U)[j] = UsersOf(T)[j]
  <2>1. PICK k \in DOMAIN T : T[k].user_id = j
    BY DEF UserIds
  <2>2. k \in DOMAIN U /\ U[k] = T[k] /\ k # Len(T) + 1
    BY <1>2
  <2>3. UsersOf(U)[j] = UserIn(T[k]) /\ UsersOf(T)[j] = UserIn(T[k])
    BY <1>3, <2>1, <2>2, UserAtRow
  <2>4. U[k].user_id # U[Len(T) + 1].user_id
    BY <1>2, <1>3, <2>2 DEF RowsApart
  <2> QED
    BY <1>1, <2>1, <2>2, <2>3, <2>4
<1>7. UsersOf(U) = [i \in UserIds(U) |-> UsersOf(U)[i]]
  BY DEF UsersOf
<1> QED
  BY <1>4, <1>5, <1>6, <1>7 DEF U

\* Of a user who leaves.
LEMMA UsersLeave ==
    ASSUME NEW T \in Seq(RowType), NEW k \in DOMAIN T, RowsApart(T)
    PROVE  UsersOf(RemoveAt(T, k)) =
               [j \in UserIds(T) \ {T[k].user_id} |-> UsersOf(T)[j]]
<1> DEFINE U == RemoveAt(T, k)
<1>1. k \in 1 .. Len(T) /\ DOMAIN T = 1 .. Len(T)
  BY LenProperties
<1>2. PICK f \in [DOMAIN U -> DOMAIN T \ {k}] :
          /\ \A i \in DOMAIN U : U[i] = T[f[i]]
          /\ \A i, j \in DOMAIN U : i # j => f[i] # f[j]
  BY <1>1, RemovedOnce
<1>3. \A j \in DOMAIN T \ {k} : \E i \in DOMAIN U : U[i] = T[j]
  BY <1>1, RemovedOnce
<1>4. \A i \in DOMAIN U : f[i] \in DOMAIN T /\ f[i] # k
  BY <1>2
<1> HIDE DEF U
<1>5. RowsApart(U)
  BY <1>2, <1>4 DEF RowsApart
<1>6. UserIds(U) = UserIds(T) \ {T[k].user_id}
  <2>1. ASSUME NEW i \in DOMAIN U
        PROVE  U[i].user_id \in UserIds(T) /\ U[i].user_id # T[k].user_id
    BY <1>2, <1>4 DEF RowsApart, UserIds
  <2>2. ASSUME NEW j \in DOMAIN T, T[j].user_id # T[k].user_id
        PROVE  T[j].user_id \in UserIds(U)
    <3>1. j \in DOMAIN T \ {k}
      BY <2>2
    <3> QED
      BY <1>3, <3>1 DEF UserIds
  <2> QED
    BY <2>1, <2>2 DEF UserIds
<1>7. ASSUME NEW i \in UserIds(U) PROVE UsersOf(U)[i] = UsersOf(T)[i]
  <2>1. PICK l \in DOMAIN U : U[l].user_id = i
    BY DEF UserIds
  <2> QED
    BY <2>1, <1>2, <1>4, <1>5, UserAtRow
<1>8. UsersOf(U) = [i \in UserIds(U) |-> UsersOf(U)[i]]
  BY DEF UsersOf
<1> QED
  BY <1>6, <1>7, <1>8 DEF U

\* Of a user who takes a name.
LEMMA UsersRename ==
    ASSUME NEW T \in Seq(RowType), NEW k \in DOMAIN T, NEW r \in RowType, RowsApart(T),
           r.socket_fd = T[k].socket_fd, r.user_id = T[k].user_id,
           RowsApart([T EXCEPT ![k] = r])
    PROVE  UsersOf([T EXCEPT ![k] = r]) = [UsersOf(T) EXCEPT ![r.user_id].name = r.user_name]
<1> DEFINE U == [T EXCEPT ![k] = r]
<1>1. /\ DOMAIN U = DOMAIN T /\ U[k] = r /\ RowsApart(U)
      /\ \A l \in DOMAIN T : l # k => U[l] = T[l]
  BY RowSet
<1> HIDE DEF U
<1>2. UserIds(U) = UserIds(T)
  BY <1>1 DEF UserIds
<1>3. UsersOf(U)[r.user_id] = UserIn(r) /\ UsersOf(T)[r.user_id] = UserIn(T[k])
  BY <1>1, UserAtRow
<1>4. ASSUME NEW i \in UserIds(T), i # r.user_id PROVE UsersOf(U)[i] = UsersOf(T)[i]
  <2>1. PICK l \in DOMAIN T : T[l].user_id = i
    BY DEF UserIds
  <2>2. U[l] = T[l]
    BY <1>1, <1>4, <2>1
  <2> QED
    BY <1>1, <2>1, <2>2, UserAtRow
<1>5. UserIn(r) = [UserIn(T[k]) EXCEPT !.name = r.user_name]
  BY DEF UserIn
<1>6. UsersOf(U) = [i \in UserIds(U) |-> UsersOf(U)[i]]
  BY DEF UsersOf
<1>7. UsersOf(T) = [i \in UserIds(T) |-> UsersOf(T)[i]]
  BY DEF UsersOf
<1> QED
  BY <1>2, <1>3, <1>4, <1>5, <1>6, <1>7 DEF U

\* Each step as the roster sees it.
LEMMA AcceptEnters ==
    ASSUME IInv, IInv', Accept
    PROVE  \E c \in Conn : R!Enter(c)
<1> DEFINE T == connect_info_table
           U == connect_info_table'
           F == UsersOf(T)
<1>1. PICK i \in Id \ IdsInUse :
          /\ \A j \in Id : j < i => j \in IdsInUse
          /\ connect_info_table' = Append(T,
                 [socket_fd |-> conns + 1, cmd_no |-> 1, user_id |-> i,
                  user_name |-> NoName, numpipe_table |-> <<>>, env |-> {}])
  BY DEF Accept
<1> DEFINE r == [socket_fd |-> conns + 1, cmd_no |-> 1, user_id |-> i,
                 user_name |-> NoName, numpipe_table |-> <<>>, env |-> {}]
<1>2. T \in Seq(RowType) /\ conns \in Nat /\ RowsApart(T) /\ RowsApart(U) /\ RowsAmong(T, conns)
  BY Typed DEF IInv, RosterInv
<1>3. conns + 1 \in Conn
  BY <1>2, SingleAssumption DEF Conn, Accept
<1>4. /\ r \in RowType /\ r.user_id = i /\ UserIn(r) = [conn |-> conns + 1, name |-> NoName]
  BY <1>3 DEF RowType, UserIn
<1>5. U = Append(T, r)
  BY <1>1
<1> HIDE DEF r, T, U, F
<1>6. UsersOf(U) = [j \in UserIds(T) \cup {i} |->
                        IF j = i THEN [conn |-> conns + 1, name |-> NoName] ELSE F[j]]
  <2>1. RowsApart(Append(T, r))
    BY <1>2, <1>5
  <2>2. UsersOf(Append(T, r)) = [j \in UserIds(T) \cup {r.user_id} |->
                                    IF j = r.user_id THEN UserIn(r) ELSE UsersOf(T)[j]]
    BY <1>2, <1>4, <2>1, UsersEnter
  <2> QED
    BY <1>4, <1>5, <2>2 DEF F
<1>7. DOMAIN F = UserIds(T) /\ UserIds(T) = IdsInUse
  BY DEF UsersOf, UserIds, IdsInUse, Rows, F, T
<1>8. \A j \in DOMAIN F : F[j].conn # conns + 1
  <2> SUFFICES ASSUME NEW j \in DOMAIN F PROVE F[j].conn # conns + 1
    OBVIOUS
  <2>1. PICK k \in DOMAIN T : T[k].user_id = j
    BY <1>7 DEF UserIds
  <2>2. F[j].conn = T[k].socket_fd
    <3>1. UsersOf(T)[T[k].user_id] = UserIn(T[k])
      BY <1>2, UserAtRow
    <3> QED
      BY <2>1, <3>1 DEF F, UserIn
  <2>3. T[k].socket_fd \in Nat /\ T[k].socket_fd <= conns
    BY <1>2, RowFields DEF RowsAmong, Conn
  <2> QED
    BY <1>2, <2>2, <2>3
<1>9. R!Enter(conns + 1)
  <2>1. UsersOf(connect_info_table') = [j \in DOMAIN F \cup {i} |->
            IF j = i THEN [conn |-> conns + 1, name |-> NoName] ELSE F[j]]
    BY <1>6, <1>7 DEF U
  <2>2. /\ i \in Id \ DOMAIN F /\ \A j \in Id : j < i => j \in DOMAIN F
    BY <1>1, <1>7
  <2> QED
    BY <1>8, <2>1, <2>2, RosterUsers DEF R!Enter, F, T
<1> QED
  BY <1>3, <1>9

LEMMA LeavingLeaves ==
    ASSUME IInv, RunExit \/ \E s \in Id : Disconnect(s)
    PROVE  \E i \in IdsInUse : R!Leave(i)
<1> DEFINE T == connect_info_table
           U == connect_info_table'
<1>1. T \in Seq(RowType) /\ RowsApart(T)
  BY Typed DEF IInv, RosterInv
<1>2. \E k \in DOMAIN T : UsersOf(U) = UsersOf(RemoveAt(T, k))
  <2>1. CASE RunExit
    <3>1. cur # Idle
      BY <2>1 DEF RunExit, Running
    <3>2. cur.idx \in DOMAIN T /\ cur.idx \in Nat
      BY <1>1, <3>1, InLine, RowFields DEF Rows, IInv
    <3> DEFINE V == RemoveAt(T, cur.idx)
    <3>3. V \in Seq(RowType) /\ RowsApart(V)
      <4>1. cur.idx \in 1 .. Len(T)
        BY <1>1, <3>2, LenProperties
      <4>2. V \in Seq(RowType)
        BY <1>1, <4>1, Removed
      <4>3. RowsApart(V)
        <5>1. /\ client_socket \in [Id -> Conn \cup {0}] /\ conns \in Nat
              /\ cur.slot \in Id /\ client_socket[cur.slot] = T[cur.idx].socket_fd
          BY <3>1, InLine, Typed DEF Row, IInv
        <5>2. SlotsMatch(client_socket, T) /\ RowsAmong(T, conns)
          BY DEF IInv, RosterInv
        <5> HIDE DEF T
        <5> QED
          BY <1>1, <3>2, <5>1, <5>2, UserLeaves
      <4> QED
        BY <4>2, <4>3
    <3>4. U = Bumped(V, cur.idx)
      BY <2>1 DEF RunExit
    <3> HIDE DEF T, U, V
    <3>5. UsersOf(U) = UsersOf(V)
      BY <3>2, <3>3, <3>4, BumpedRows, SameUsersSame
    <3> QED
      BY <3>2, <3>5 DEF V
  <2>2. CASE \E s \in Id : Disconnect(s)
    BY <2>2 DEF Disconnect, Rows
  <2> QED
    BY <2>1, <2>2
<1>3. PICK k \in DOMAIN T : UsersOf(U) = UsersOf(RemoveAt(T, k))
  BY <1>2
<1> DEFINE F == UsersOf(T)
           i == T[k].user_id
<1>4. DOMAIN F = UserIds(T) /\ i \in UserIds(T)
  BY DEF UsersOf, UserIds
<1>5. UsersOf(U) = [j \in DOMAIN F \ {i} |-> F[j]]
  <2> HIDE DEF T, U
  <2> QED
    BY <1>1, <1>3, <1>4, UsersLeave
<1> HIDE DEF i
<1>6. R!Leave(i)
  BY <1>5, RosterUsers DEF R!Leave, F, T, U
<1> QED
  BY <1>4, <1>6, RosterUsers

\* A command that is not exit renames its user or leaves the users as they are.
LEMMA CommandsRename ==
    ASSUME IInv, IInv', RunCommand, ~RunExit
    PROVE  \/ UsersOf(connect_info_table') = UsersOf(connect_info_table)
           \/ \E i \in IdsInUse, n \in Name : R!Rename(i, n)
<1> DEFINE T == connect_info_table
           U == connect_info_table'
<1>1. PICK nm \in Name \cup {NoName} :
          /\ cur # Idle
          /\ nm = Row.user_name \/ nm \in Name \ NamesInUse
          /\ \E t, v : U = [T EXCEPT ![cur.idx] = RowWith(Row, Row.cmd_no + 1, nm, t, v)]
  <2>1. CASE RunName \/ RunSetenv \/ RunTalk
    BY <2>1, BuiltinsRow DEF IInv
  <2>2. CASE Executes
    <3>1. cur.idx \in DOMAIN T /\ T \in Seq(RowType) /\ cur # Idle /\ Row = T[cur.idx]
      BY <2>2, ExecutesRow, Typed DEF Rows, IInv, Row
    <3>2. Row.user_name \in Name \cup {NoName}
      BY <3>1, RowFields
    <3> QED
      BY <2>2, <3>1, <3>2, ExecutesRow DEF IInv
  <2> QED
    BY <2>1, <2>2 DEF RunCommand, RefuseIn, RefuseOut, Launch
<1>2. PICK t, v : U = [T EXCEPT ![cur.idx] = RowWith(Row, Row.cmd_no + 1, nm, t, v)]
  BY <1>1
<1>3. /\ T \in Seq(RowType) /\ cur.idx \in DOMAIN T /\ Row = T[cur.idx]
      /\ RowsApart(T) /\ RowsApart(U) /\ U \in Seq(RowType)
  BY <1>1, Typed, InLine DEF IInv, RosterInv, TypeOK, Rows, Row
<1> DEFINE r == RowWith(Row, Row.cmd_no + 1, nm, t, v)
<1>4. r = U[cur.idx] /\ cur.idx \in DOMAIN U /\ DOMAIN U = DOMAIN T
  BY <1>2, <1>3
<1>5. r \in RowType
  BY <1>3, <1>4, RowFields
<1>6. r.socket_fd = Row.socket_fd /\ r.user_id = Row.user_id /\ r.user_name = nm
  BY DEF RowWith
<1>7. U = [T EXCEPT ![cur.idx] = r]
  BY <1>2
<1>8. CASE nm = Row.user_name
  <2>1. \A l \in DOMAIN T : l # cur.idx => U[l] = T[l]
    BY <1>2, <1>3
  <2> HIDE DEF r, T, U
  <2>2. SameUsers(T, U)
    BY <1>3, <1>4, <1>6, <1>8, <2>1 DEF SameUsers
  <2>3. UsersOf(U) = UsersOf(T)
    BY <1>3, <2>2, SameUsersSame
  <2> QED
    BY <2>3 DEF T, U
<1>9. CASE nm \in Name \ NamesInUse
  <2> DEFINE i == Row.user_id
             F == UsersOf(T)
  <2>1. i \in IdsInUse /\ F = UsersOf(T)
    BY <1>3 DEF IdsInUse, Rows
  <2>2. UsersOf(U) = [F EXCEPT ![i].name = nm]
    <3> HIDE DEF r, T, U
    <3>1. RowsApart([T EXCEPT ![cur.idx] = r])
      BY <1>3, <1>7
    <3>2. UsersOf([T EXCEPT ![cur.idx] = r]) = [UsersOf(T) EXCEPT ![r.user_id].name = r.user_name]
      BY <1>3, <1>5, <1>6, <3>1, UsersRename
    <3> QED
      BY <1>6, <1>7, <3>2
  <2>3. \A j \in DOMAIN F : F[j].name # nm
    <3> SUFFICES ASSUME NEW j \in DOMAIN F PROVE F[j].name # nm
      OBVIOUS
    <3>1. PICK k \in DOMAIN T : T[k].user_id = j
      BY DEF UsersOf, UserIds
    <3>2. F[j] = UserIn(T[k])
      BY <1>3, <3>1, UserAtRow
    <3>3. T[k].user_name \in NamesInUse
      BY DEF NamesInUse, Rows
    <3> QED
      BY <1>9, <3>2, <3>3 DEF UserIn
  <2> HIDE DEF i
  <2>4. R!Rename(i, nm)
    BY <2>2, <2>3, RosterUsers DEF R!Rename, F, T, U
  <2> QED
    BY <1>9, <2>1, <2>4
<1> QED
  BY <1>1, <1>8, <1>9


\* Steps that leave the users as they are.
LEMMA OthersStay ==
    ASSUME \/ \E s \in Id, l \in Lines : ReadLine(s, l)
           \/ WaitReturns
           \/ UNCHANGED vars
    PROVE  UsersOf(connect_info_table') = UsersOf(connect_info_table)
BY DEF ReadLine, WaitReturns, vars

\* The users enter with the smallest unused id, keep it until they leave, and
\* choose names that no one has: whatever happens to rows and slots, the server
\* implements the roster.
THEOREM RosterRefined == Spec => RosterImplemented
<1> DEFINE users == [i \in IdsInUse |-> [conn |-> RowOf(i).socket_fd,
                                         name |-> RowOf(i).user_name]]
<1>1. Init => R!Init
  <2> SUFFICES ASSUME Init PROVE users = [i \in {} |-> 0]
    BY DEF R!Init
  <2>1. IdsInUse = {}
    BY DEF Init, IdsInUse, Rows
  <2> QED
    BY <2>1
<1>2. ASSUME IInv, IInv', [Next]_vars PROVE [R!Next]_users
  <2>1. CASE Accept
    BY <1>2, <2>1, AcceptEnters DEF R!Next
  <2>2. CASE RunExit \/ \E s \in Id : Disconnect(s)
    <3>1. PICK i \in IdsInUse : R!Leave(i)
      BY <1>2, <2>2, LeavingLeaves
    <3> QED
      BY <3>1 DEF R!Next
  <2>3. CASE RunCommand /\ ~RunExit
    <3>1. CASE UsersOf(connect_info_table') = UsersOf(connect_info_table)
      BY <3>1, RosterUsers
    <3>2. CASE \E i \in IdsInUse, n \in Name : R!Rename(i, n)
      BY <3>2 DEF R!Next
    <3> QED
      BY <1>2, <2>3, <3>1, <3>2, CommandsRename
  <2>4. CASE \/ \E s \in Id, l \in Lines : ReadLine(s, l)
             \/ WaitReturns
             \/ UNCHANGED vars
    BY <2>4, OthersStay, RosterUsers
  <2> QED
    BY <1>2, <2>1, <2>2, <2>3, <2>4 DEF Next
<1>3. IInv /\ IInv' /\ [Next]_vars => [R!Next]_users
  BY <1>2
<1> QED
  BY <1>1, <1>3, Invariance, PTL DEF Spec, RosterImplemented, R!Spec

-----------------------------------------------------------------------------
(***************************************************************************)
(* The commands that the users start, for every number of users, commands  *)
(* and pipes: whoever holds up the end of a stream was started before the  *)
(* command that reads it.                                                  *)
(***************************************************************************)

\* The pipes made fit the bound.
PipesFit == Len(pipes) <= MaxPipe

\* The stdin of a command is a pipe that was given to a command, so that the server
\* has no end of it left.
KidsRead ==
    \A k \in DOMAIN kids : kids[k].in # 0 => \E r \in readers : r[1] = kids[k].in

\* Neither the command that reads a pipe nor one started later has its write end.
LaterHoldNone ==
    \A k \in DOMAIN kids : \A w \in DOMAIN kids :
        kids[k].in # 0 /\ k <= w => <<kids[k].in, "wr">> \notin kids[w].held

KidsInv == IInv /\ PipesFit /\ KidsTypeOK /\ KidsRead /\ LaterHoldNone

-----------------------------------------------------------------------------

\* The target of a command's output, if it is a pipe, is one that exists when the
\* command starts.
LEMMA StdoutMade ==
    ASSUME RosterInv, PipesInv, Launch
    PROVE  Stdout \in 0 .. Len(pipes')
<1>1. /\ cur # Idle /\ cmd \in Command /\ cur.idx \in Rows /\ Executes
  BY ExecutesRow DEF Launch
<1>2. /\ Len(pipes) \in Nat /\ Len(pipes') \in Nat /\ Len(pipes) <= Len(pipes')
      /\ NewNumPipe \/ NewUserPipe => Len(pipes') = New /\ New = Len(pipes) + 1
  BY LaunchPlaces DEF New
<1>3. CASE cmd.out = "user"
  BY <1>2, <1>3 DEF Stdout, NewUserPipe
<1>4. CASE cmd.out \in {"pipe", "num"}
  <2> DEFINE N == [NumPipes(connect_info_table) EXCEPT ![cur.idx] = TableAfterOut]
             f == FirstFor(Dest, TableAfterOut)
  <2>1. /\ TableAfterOut \in Seq(Entry)
        /\ \A k \in Rows : \A j \in DOMAIN N[k] :
              N[k][j].pipe \in 1 .. (IF NewNumPipe THEN Len(pipes) + 1 ELSE Len(pipes))
    BY <1>1, AfterOut
  <2>2. DOMAIN NumPipes(connect_info_table) = Rows
    BY PipesMade
  <2>3. N[cur.idx] = TableAfterOut
    BY <1>1, <2>2
  <2>4. EntriesFor(Dest, TableAfterOut) # {}
    <3>1. CASE NewNumPipe
      <4> DEFINE e == [target_cmd_num |-> Dest, pipe |-> New]
      <4>1. TableAfterTarget \in Seq(Entry) /\ TableAfterOut = Append(TableAfterTarget, e)
        BY <1>1, <3>1, AfterTarget DEF TableAfterOut
      <4>2. Len(TableAfterTarget) + 1 \in DOMAIN TableAfterOut
            /\ TableAfterOut[Len(TableAfterTarget) + 1] = e
        BY <4>1, AppendProperties, LenProperties
      <4> QED
        BY <4>2 DEF EntriesFor
    <3>2. CASE ~NewNumPipe
      BY <1>4, <3>2 DEF NewNumPipe, TableAfterOut
    <3> QED
      BY <3>1, <3>2
  <2>5. f \in DOMAIN TableAfterOut
    BY <2>1, <2>4, FirstIsEntry
  <2>6. TableAfterOut[f].pipe \in 1 .. (IF NewNumPipe THEN Len(pipes) + 1 ELSE Len(pipes))
    BY <1>1, <2>1, <2>3, <2>5
  <2>7. Stdout = TableAfterOut[f].pipe
    BY <1>4 DEF Stdout
  <2> QED
    BY <1>2, <2>6, <2>7
<1>5. CASE cmd.out \notin {"user", "pipe", "num"}
  BY <1>2, <1>5 DEF Stdout
<1> QED
  BY <1>3, <1>4, <1>5

\* A step of the server that starts a command is Launch, and no other is.
LEMMA StartsIsLaunch ==
    ASSUME Next
    PROVE  Starts <=> Launch
<1>1. Launch => Starts
  BY DEF Launch, Executes, Starts
<1>2. ASSUME Starts PROVE Launch
  <2>1. cur # Idle /\ ~cur.waits /\ cmd.prog = "run" /\ ~InMissing /\ ~OutRefused
    BY <1>2 DEF Starts, Running
  <2>2. RunCommand
    BY <2>1 DEF Next, Accept, Disconnect, ReadLine, WaitReturns, AtSelect
  <2> QED
    BY <2>1, <2>2 DEF RunCommand, RunExit, RunName, RunSetenv, RunTalk, RefuseIn, RefuseOut
<1> QED
  BY <1>1, <1>2

\* What a step of the server leaves: the readers there were, the bound, and, unless it
\* starts a command, who waits.
LEMMA NextKeeps ==
    ASSUME RosterInv, PipesInv, PipesFit, Next
    PROVE  /\ PipesFit' /\ readers \subseteq readers'
           /\ ~Launch => ~cur'.waits
<1>1. Len(pipes) \in Nat /\ MaxPipe \in Nat /\ Idle.waits = FALSE
  BY Typed, LenProperties, SingleAssumption DEF Idle
<1>2. CASE ~RunCommand
  <2>1. UNCHANGED <<pipes, readers>>
    BY <1>2 DEF Next, Accept, Disconnect, ReadLine, WaitReturns
  <2>2. (cur' = cur /\ cur = Idle) \/ cur' = Idle \/ cur'.waits = FALSE
    BY <1>2 DEF Next, Accept, Disconnect, ReadLine, WaitReturns, AtSelect
  <2> QED
    BY <1>1, <2>1, <2>2 DEF PipesFit
<1>3. ASSUME RunCommand, ~Launch PROVE ~cur'.waits
  <2>1. cur' = NextCmd /\ ~cur.waits /\ cur # Idle
    BY <1>3 DEF RunCommand, RunExit, RunName, RunSetenv, RunTalk, RefuseIn, RefuseOut,
                Executes, Running
  <2>2. cur \in Line
    BY Typed
  <2> QED
    BY <1>1, <2>1, <2>2 DEF NextCmd, Line
<1>4. CASE RunExit \/ RunName \/ RunSetenv \/ RunTalk
  <2>1. RunCommand /\ ~Launch
    BY <1>4 DEF RunExit, RunName, RunSetenv, RunTalk, Launch, Executes, RunCommand
  <2>2. UNCHANGED <<pipes, readers>>
    BY <1>4 DEF RunExit, RunName, RunSetenv, RunTalk
  <2> QED
    BY <1>3, <2>1, <2>2 DEF PipesFit
<1>5. CASE RefuseIn \/ RefuseOut
  <2>1. UNCHANGED readers /\ pipes' \in {pipes, Append(pipes, MadeFor)}
    BY <1>5 DEF RefuseIn, RefuseOut
  <2>2. pipes' # pipes => Len(pipes) < MaxPipe
    BY <1>5 DEF RefuseIn, RefuseOut, Executes
  <2>3. pipes' # pipes => Len(pipes') = Len(pipes) + 1
    <3>1. pipes' # pipes => Len(pipes') = Len(pipes) + 1
      BY <2>1, Typed, AppendProperties
    <3> QED
      BY <3>1
  <2>4. PipesFit'
    BY <1>1, <2>2, <2>3 DEF PipesFit
  <2>5. RunCommand /\ ~Launch
    BY <1>5 DEF RefuseIn, RefuseOut, Launch, RunCommand
  <2> QED
    BY <1>3, <1>5, <2>1, <2>4, <2>5
<1>6. CASE Launch
  <2>1. readers \subseteq readers'
    BY <1>6 DEF Launch
  <2>2. PipesFit'
    <3>1. CASE NewNumPipe \/ NewUserPipe
      <4>1. Len(pipes') = New /\ New = Len(pipes) + 1
        BY <1>6, <3>1, LaunchPlaces DEF New
      <4>2. Len(pipes) < MaxPipe
        BY <1>6, <3>1 DEF Launch, Executes
      <4> QED
        BY <1>1, <4>1, <4>2 DEF PipesFit
    <3>2. CASE ~(NewNumPipe \/ NewUserPipe)
      BY <1>6, <3>2 DEF Launch, PipesFit
    <3> QED
      BY <3>1, <3>2
  <2> QED
    BY <1>6, <2>1, <2>2
<1> QED
  BY <1>2, <1>3, <1>4, <1>5, <1>6 DEF RunCommand

\* The command that starts: it and the server have no write end of its stdin.
LEMMA StartKeeps ==
    ASSUME KidsInv, Launch, Start, IInv', PipesFit', readers \subseteq readers'
    PROVE  KidsTypeOK' /\ KidsRead' /\ LaterHoldNone'
<1>1. RosterInv /\ PipesInv /\ PipesInv'
  BY DEF KidsInv, IInv
<1>2. PICK big \in BOOLEAN :
          kids' = Append(kids, [in |-> Stdin, out |-> Stdout, held |-> EndsAtFork,
                                big |-> big, alive |-> TRUE])
  BY DEF Start
<1> DEFINE n == Len(kids) + 1
           new == [in |-> Stdin, out |-> Stdout, held |-> EndsAtFork, big |-> big, alive |-> TRUE]
<1>3. /\ Len(pipes) \in Nat /\ Len(pipes') \in Nat /\ Len(pipes) <= Len(pipes')
      /\ EndsAtFork \subseteq (1 .. Len(pipes')) \X {"rd", "wr"}
      /\ Stdin \in 0 .. Len(pipes) /\ Stdout \in 0 .. Len(pipes')
      /\ Len(pipes') <= MaxPipe /\ MaxPipe \in Nat
  BY <1>1, LaunchPlaces, StdoutMade, SingleAssumption DEF EndsAtFork, PipesFit
<1>4. new \in Kid
  <2>1. 1 .. Len(pipes') \subseteq 1 .. MaxPipe
    BY <1>3
  <2>2. EndsAtFork \in SUBSET ((1 .. MaxPipe) \X {"rd", "wr"})
    BY <1>3, <2>1
  <2>3. Stdin \in 0 .. MaxPipe /\ Stdout \in 0 .. MaxPipe
    BY <1>3
  <2> QED
    BY <1>2, <2>2, <2>3 DEF Kid
<1>5. /\ kids \in Seq(Kid) /\ kids' = Append(kids, new)
  BY <1>2 DEF KidsInv, KidsTypeOK
<1> HIDE DEF new
<1>6. /\ kids' \in Seq(Kid) /\ DOMAIN kids' = DOMAIN kids \cup {n} /\ kids'[n] = new
      /\ \A k \in DOMAIN kids : kids'[k] = kids[k] /\ k \in Nat /\ k < n
      /\ n \in Nat
  BY <1>4, <1>5
<1>7. KidsTypeOK'
  <2>1. kids' # <<>>
    BY <1>6
  <2> QED
    BY <1>6, <2>1 DEF KidsTypeOK
<1>8. /\ ends' = EndsAtFork \ {<<Stdin, "rd">>}
      /\ Stdin # 0 => <<Stdin, cur.sock, ran[cur.sock] + 1>> \in readers'
  BY DEF Launch, EndsAtFork
<1>9. KidsRead'
  <2>1. \A k \in DOMAIN kids : kids[k].in # 0 => \E r \in readers' : r[1] = kids[k].in
    BY DEF KidsInv, KidsRead
  <2>2. new.in # 0 => \E r \in readers' : r[1] = new.in
    BY <1>8 DEF new
  <2> QED
    BY <1>6, <2>1, <2>2 DEF KidsRead
<1>10. \A k \in DOMAIN kids' : kids'[k].in # 0 => <<kids'[k].in, "wr">> \notin new.held
  <2>1. \A r \in readers' : <<r[1], "wr">> \notin ends'
    BY <1>1 DEF PipesInv, PipesSound, ReadersAlone
  <2>2. \A r \in readers' : <<r[1], "wr">> \notin EndsAtFork
    BY <1>8, <2>1
  <2> QED
    BY <1>9, <2>2 DEF new, KidsRead
<1>11. LaterHoldNone'
  <2> SUFFICES ASSUME NEW k \in DOMAIN kids', NEW w \in DOMAIN kids',
                      kids'[k].in # 0, k <= w
               PROVE  <<kids'[k].in, "wr">> \notin kids'[w].held
    BY DEF LaterHoldNone
  <2>1. CASE w = n
    BY <1>6, <1>10, <2>1
  <2>2. CASE w # n
    <3>1. k \in DOMAIN kids /\ w \in DOMAIN kids /\ kids'[k] = kids[k] /\ kids'[w] = kids[w]
      BY <1>6, <2>2
    <3> QED
      BY <3>1 DEF KidsInv, LaterHoldNone
  <2> QED
    BY <2>1, <2>2
<1> QED
  BY <1>7, <1>9, <1>11

\* A command ends: its descriptors stay in the record of what it had.
LEMMA KidEndsKeeps ==
    ASSUME KidsInv, NEW k, KidEnds(k)
    PROVE  KidsTypeOK' /\ KidsRead' /\ LaterHoldNone'
<1>1. /\ kids \in Seq(Kid) /\ k \in DOMAIN kids /\ UNCHANGED vars
      /\ kids' = [kids EXCEPT ![k].alive = FALSE]
  BY DEF KidEnds, Alive, KidsInv, KidsTypeOK
<1>2. \A j \in DOMAIN kids : kids[j] \in Kid
  BY <1>1
<1>3. [kids[k] EXCEPT !.alive = FALSE] \in Kid
  BY <1>1, <1>2 DEF Kid
<1>4. kids' \in Seq(Kid) /\ DOMAIN kids' = DOMAIN kids /\ Len(kids') = Len(kids)
  BY <1>1, <1>3
<1>5. \A j \in DOMAIN kids : kids'[j].in = kids[j].in /\ kids'[j].held = kids[j].held
  BY <1>1, <1>2 DEF Kid
<1>6. KidsTypeOK'
  <2>1. kids # <<>> => kids' # <<>>
    BY <1>1, <1>4
  <2> QED
    BY <1>1, <1>4, <2>1 DEF vars, KidsInv, KidsTypeOK
<1> QED
  BY <1>1, <1>4, <1>5, <1>6 DEF vars, KidsInv, KidsRead, LaterHoldNone

\* KidsInv is inductive.
LEMMA InitKidsInv == KidsInit => KidsInv
<1> SUFFICES ASSUME KidsInit PROVE KidsInv
  OBVIOUS
<1>1. IInv
  BY InitIInv DEF KidsInit
<1>2. kids = <<>> /\ cur.waits = FALSE /\ pipes = <<>>
  BY DEF KidsInit, Init, Idle
<1>3. DOMAIN kids = {} /\ kids \in Seq(Kid) /\ PipesFit
  BY <1>2, SingleAssumption DEF PipesFit
<1> QED
  BY <1>1, <1>2, <1>3 DEF KidsInv, KidsTypeOK, KidsRead, LaterHoldNone

\* Every step keeps it.
LEMMA NextKidsInv == KidsInv /\ [KidsNext]_kvars => KidsInv'
<1> SUFFICES ASSUME KidsInv, [KidsNext]_kvars PROVE KidsInv'
  OBVIOUS
<1>1. IInv /\ RosterInv /\ PipesInv
  BY DEF KidsInv, IInv
<1>2. CASE UNCHANGED kvars
  <2>1. UNCHANGED vars /\ kids' = kids
    BY <1>2 DEF kvars
  <2>2. IInv'
    BY <1>1, <2>1, NextIInv
  <2> QED
    BY <2>1, <2>2 DEF vars, KidsInv, PipesFit, KidsTypeOK, KidsRead, LaterHoldNone
<1>3. CASE \E k \in 1 .. MaxConn * MaxCmd : KidEnds(k)
  <2>1. UNCHANGED vars
    BY <1>3 DEF KidEnds
  <2>2. IInv'
    BY <1>1, <2>1, NextIInv
  <2> QED
    BY <1>3, <2>1, <2>2, KidEndsKeeps DEF KidsInv, vars, PipesFit
<1>4. ASSUME Next, UNCHANGED kids, ~Launch PROVE KidsInv'
  <2>1. IInv' /\ PipesFit' /\ readers \subseteq readers' /\ ~cur'.waits
    BY <1>1, <1>4, NextIInv, NextKeeps DEF KidsInv
  <2> QED
    BY <1>4, <2>1 DEF KidsInv, KidsTypeOK, KidsRead, LaterHoldNone
<1>5. CASE Work
  <2>1. Next /\ (Starts <=> Launch)
    BY <1>5, StartsIsLaunch DEF Work
  <2>2. CASE Launch
    <3>1. IInv' /\ PipesFit' /\ readers \subseteq readers'
      BY <1>1, <2>1, NextIInv, NextKeeps DEF KidsInv
    <3>2. Start
      BY <1>5, <2>1, <2>2 DEF Work
    <3> QED
      BY <2>2, <3>1, <3>2, StartKeeps DEF KidsInv
  <2>3. CASE ~Launch
    BY <1>4, <1>5, <2>1, <2>3 DEF Work
  <2> QED
    BY <2>2, <2>3
<1>6. CASE WaitEnds
  <2>1. Next /\ UNCHANGED kids /\ cur.waits
    BY <1>6 DEF WaitEnds
  <2>2. ~Launch
    BY <2>1 DEF Launch, Executes, Running
  <2> QED
    BY <1>4, <2>1, <2>2
<1> QED
  BY <1>2, <1>3, <1>5, <1>6 DEF KidsNext

\* The inductive invariant holds in every state of the server and its commands.
THEOREM KidsInvariance == KidsSpec => []KidsInv
BY InitKidsInv, NextKidsInv, PTL DEF KidsSpec

\* The record of the commands started has its type, and while the server waits there
\* is a last one.
THEOREM KidsTypeCorrect == KidsSpec => []KidsTypeOK
<1>1. KidsInv => KidsTypeOK
  BY DEF KidsInv
<1> QED
  BY <1>1, KidsInvariance, PTL

\* A command that reads a pipe waits for commands started before it only, and never
\* for the server: with every command keeping all the ends the server had at its fork,
\* commands do not wait in a circle for each other to close a pipe.
THEOREM HoldersAlwaysEarlier == KidsSpec => []HoldersEarlier
<1>1. KidsInv => HoldersEarlier
  <2> SUFFICES ASSUME KidsInv, NEW k \in Alive, kids[k].in # 0
               PROVE  /\ <<kids[k].in, "wr">> \notin ends
                      /\ \A w \in Writers(kids[k].in) : w < k
    BY DEF HoldersEarlier
  <2>1. k \in DOMAIN kids /\ DOMAIN kids \subseteq Nat
    BY DEF Alive, KidsInv, KidsTypeOK
  <2>2. PICK r \in readers : r[1] = kids[k].in
    BY <2>1 DEF KidsInv, KidsRead
  <2>3. <<kids[k].in, "wr">> \notin ends
    BY <2>2 DEF KidsInv, IInv, PipesInv, PipesSound, ReadersAlone
  <2>4. ASSUME NEW w \in Writers(kids[k].in) PROVE w < k
    <3>1. w \in DOMAIN kids /\ <<kids[k].in, "wr">> \in kids[w].held
      BY <2>4 DEF Writers, Alive
    <3>2. ~(k <= w)
      BY <2>1, <3>1 DEF KidsInv, LaterHoldNone
    <3> QED
      BY <2>1, <3>1, <3>2
  <2> QED
    BY <2>3, <2>4
<1> QED
  BY <1>1, KidsInvariance, PTL
=============================================================================
