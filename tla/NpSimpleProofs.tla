--------------------------- MODULE NpSimpleProofs ---------------------------
(***************************************************************************)
(* What holds of the server behind one port for any clients, scripts and   *)
(* bound: which lines a session runs, and who is shown what is printed.    *)
(* Then what holds of parse_line, which takes its lines to pieces, and of  *)
(* the two others of its name: lines of any length mean what they should.  *)
(***************************************************************************)
EXTENDS NpSimple, ParseLine, FiniteSetTheorems, SequenceTheorems, WellFoundedInduction, TLAPS

Item == [what : {"value", "banner"}, session : Nat, text : Seq(ShellCommand), no : Nat]
Entry == [line : Seq(Sent), text : Seq(ShellCommand), session : Nat]

\* The tables are functions on the clients, and the lists have their types.
FunctionsOK ==
    /\ sent \in [Clients -> Nat] /\ chan \in [Clients -> Seq(Sent)]
    /\ seen \in [Clients -> Seq(Item)] /\ outbuf \in Seq(Item) /\ ran \in Seq(Entry)

-----------------------------------------------------------------------------
(* Where a piece is on its way from the client.                            *)

\* The number of pieces of c that are no longer on their way.
Taken(c) == sent[c] - Len(chan[c])

\* What is on its way are the last pieces sent, in their order.
OnTheWay ==
    \A c \in Clients :
        /\ Len(chan[c]) <= sent[c]
        /\ \A i \in 1 .. Len(chan[c]) : chan[c][i] = PieceOf(c, Taken(c) + i)

\* A piece of a client that has been taken.
IsTaken(p) == /\ p.by \in Clients /\ p.n \in 1 .. Taken(p.by) /\ p = PieceOf(p.by, p.n)

\* One that the server has taken, and no child.
Got(p) == IsTaken(p) /\ p \notin eaten

\* A piece for session s: of its client, or left over from an earlier one.
Own(p, s) == p.by = s \/ (p.by < s /\ LeftOver(p))

AllBefore(k, l) == \A a \in DOMAIN k, b \in DOMAIN l : Before(k[a], l[b])

\* A line, or the beginning of one, in session s.
GoodLine(l, s) ==
    /\ \A a \in DOMAIN l : /\ Got(l[a]) /\ Own(l[a], s) /\ Follows(l, a)
                           /\ Ended(l[a]) => a = Len(l)
    /\ \A a, b \in DOMAIN l : /\ a < b => Before(l[a], l[b])
                              /\ l[a].by # l[b].by => s \in {l[a].by, l[b].by}

\* The server has a line to run.
HasLine == at \in {"parse", "run", "wait"}

\* The piece q is the last one taken off the buffer.
IsLast(q) == IF line = <<>> THEN Ended(q) ELSE q = line[Len(line)]

\* p comes next in the string given to getline.
ComesNext(p) ==
    p.n = 1 \/ PieceOf(p.by, p.n - 1) \in eaten \/ IsLast(PieceOf(p.by, p.n - 1))

\* The pieces in the buffer of stdin are of one client, one after the other, behind
\* those of the line, and left over when no session is open.
BufferInv ==
    /\ \A i \in DOMAIN inbuf :
          /\ Got(inbuf[i]) /\ Own(inbuf[i], cur)
          /\ inbuf[i] = PieceOf(inbuf[1].by, inbuf[1].n + (i - 1))
          /\ at = "accept" => LeftOver(inbuf[i])
    /\ inbuf # <<>> => ComesNext(inbuf[1])
    /\ AllBefore(line, inbuf)
    /\ \A a \in DOMAIN line, i \in DOMAIN inbuf :
          /\ line[a].by = inbuf[i].by \/ inbuf[i].by = cur
          /\ HasLine /\ a = Len(line) => line[a].by = inbuf[i].by

\* The string given to getline; when cin is not good it may have no end.
LineInv ==
    /\ GoodLine(line, cur)
    /\ line # <<>> => IF at = "getline" THEN ~Ended(line[Len(line)])
                      ELSE bad \/ Ended(line[Len(line)])
    /\ HasLine => line # <<>>
    /\ line = <<>> => text = <<>>
    /\ at = "getline" => ~bad
    /\ bad => inbuf = <<>>

\* The lines run, and what may come after them.
RanInv ==
    /\ \A i \in DOMAIN ran : LET l == ran[i].line
          IN  /\ GoodLine(l, ran[i].session) /\ ran[i].session <= cur
              /\ l # <<>> /\ (bad \/ Ended(l[Len(l)]))
              /\ AllBefore(l, inbuf)
              /\ bad \/ at \in {"getline", "parse"} => AllBefore(l, line) \/ (bad /\ l = line)
    /\ \A i, j \in DOMAIN ran : i < j =>
          AllBefore(ran[i].line, ran[j].line) \/ (bad /\ ran[i].line = ran[j].line)
    /\ at \in {"run", "wait"} =>
          \E i \in DOMAIN ran : ran[i] = [line |-> line, text |-> text, session |-> cur]

EatenInv == \A p \in eaten : IsTaken(p)

\* What comes next from the client who is served, and nothing was taken of those who
\* wait.
WayInv ==
    /\ \A d \in Clients : d > cur => Taken(d) = 0
    /\ \A r \in readers : r[1] <= cur
    /\ at # "accept" => LET q == PieceOf(cur, Taken(cur))
          IN  \/ Taken(cur) = 0 \/ q \in eaten
              \/ IF inbuf = <<>> THEN IsLast(q) ELSE q = inbuf[Len(inbuf)]

LinesInv == OnTheWay /\ EatenInv /\ BufferInv /\ LineInv /\ RanInv /\ WayInv

-----------------------------------------------------------------------------
(* Which session it is.                                                    *)

\* What is left of the line that is run; exit is in it until it has been run.
PackInv ==
    /\ at \in {"run", "wait"} =>
          /\ \A i \in DOMAIN pack : Has(text, pack[i].name)
          /\ Has(text, "exit") => exit_flag \/ \E i \in DOMAIN pack : pack[i].name = "exit"
          /\ exit_flag => Has(text, "exit") /\ pack = <<>>
    /\ at \in {"accept", "prompt", "getline", "parse"} => pack = <<>> /\ ~exit_flag

\* The number of exit lines run.
CountInv ==
    /\ IsFiniteSet(ExitsRun)
    /\ at = "accept" => Cardinality(ExitsRun) = cur
    /\ at \in {"prompt", "getline", "parse"} => Cardinality(ExitsRun) = cur - 1
    /\ at \in {"run", "wait"} =>
          Cardinality(ExitsRun) = IF Has(text, "exit") THEN cur ELSE cur - 1
    /\ at = "dead" => Cardinality(ExitsRun) \in {cur - 1, cur}

-----------------------------------------------------------------------------
(* What is printed.                                                        *)

\* What is left in the buffer of stdout for the client after session s.
IsLeft(x, s) == /\ x.session = s
                /\ x.what = "value" => Behind(x.text, "exit")

\* What a printenv of this session has printed.
IsNew(x) == x.what = "value" /\ x.session = cur /\ x.no < cmd_no

\* The buffer of stdout.
BufferedInv ==
    /\ tty => outbuf = <<>>
    /\ \A i, j \in DOMAIN outbuf : i # j => outbuf[i] # outbuf[j]
    /\ \A i \in DOMAIN outbuf :
          /\ at = "accept" => IsLeft(outbuf[i], cur)
          /\ at \notin {"accept", "dead"} => IsNew(outbuf[i]) \/ IsLeft(outbuf[i], cur - 1)
          /\ at \in {"run", "wait"} => /\ IsNew(outbuf[i]) /\ outbuf[i].text = text
                                       /\ Has(text, "printenv")

\* Only what a child has copied comes twice.
MayRepeat(x) == ~tty /\ x.what = "value" /\ Behind(x.text, "bad")
CopiesOnly(s) == \A i, j \in DOMAIN s : i # j /\ s[i] = s[j] => MayRepeat(s[i])

\* What client c may be shown.
IsOwn(x, c) == (x.session = c /\ x.what = "value") \/ (~tty /\ IsLeft(x, c - 1))

\* What was written to the clients.
SeenInv ==
    /\ \A d \in Clients : d > cur => seen[d] = <<>>
    /\ \A c \in Clients : CopiesOnly(seen[c])
    /\ \A c \in Clients : \A i \in DOMAIN seen[c] : IsOwn(seen[c][i], c)
    /\ at \notin {"accept", "dead"} => \A j \in DOMAIN seen[cur] :
          /\ seen[cur][j].session = cur => seen[cur][j].no < cmd_no
          /\ \A i \in DOMAIN outbuf : outbuf[i] = seen[cur][j] => MayRepeat(outbuf[i])

ShownInv == BufferedInv /\ SeenInv

IInv == TypeOK /\ FunctionsOK /\ LinesInv /\ PackInv /\ CountInv /\ ShownInv

-----------------------------------------------------------------------------
(* Clients, and the pieces taken.                                          *)

LEMMA ClientsCounted ==
    /\ Clients \subseteq Nat \ {0} /\ 0 \notin Clients /\ MaxRan \in Nat
    /\ \A c \in Clients : \A d \in Nat \ {0} : d < c => d \in Clients
<1>1. Cardinality(Clients) \in Nat
  BY SimpleAssumption, FS_CardinalityType
<1>2. Clients = 1 .. Cardinality(Clients)
  BY SimpleAssumption
<1> QED
  BY <1>1, <1>2, SimpleAssumption

LEMMA CurCounted == ASSUME TypeOK PROVE cur \in Nat
<1>1. Clients \subseteq Nat
  BY ClientsCounted
<1>2. cur \in Clients \cup {0}
  BY DEF TypeOK
<1> QED
  BY ONLY <1>1, <1>2

\* A piece that was taken.
LEMMA TakenTyped ==
    ASSUME TypeOK, FunctionsOK, OnTheWay, NEW p, IsTaken(p)
    PROVE  /\ p.by \in Clients /\ p.by \in Nat \ {0} /\ p.n \in Nat \ {0} /\ p \in Sent
           /\ Taken(p.by) \in Nat /\ p.n <= Taken(p.by) /\ p = PieceOf(p.by, p.n)
<1>1. p.by \in Clients /\ p.n \in 1 .. Taken(p.by) /\ p = PieceOf(p.by, p.n)
  BY DEF IsTaken
<1>2. p.by \in Nat \ {0}
  BY <1>1, ClientsCounted
<1>3. Taken(p.by) \in Nat
  <2>1. /\ Len(chan[p.by]) \in Nat /\ sent[p.by] \in Nat /\ Len(chan[p.by]) <= sent[p.by]
    BY <1>1 DEF FunctionsOK, OnTheWay
  <2> QED
    BY <2>1 DEF Taken
<1>4. p.n \in Nat \ {0} /\ p.n <= Taken(p.by)
  BY <1>1, <1>3
<1>5. p \in Sent
  BY <1>1, <1>4 DEF Sent, PieceOf
<1> QED
  BY <1>1, <1>2, <1>3, <1>4, <1>5

\* What a step leaves as it was: a piece that was taken stays so, and no child takes it.
PiecesStay ==
    \A p : /\ IsTaken(p) => IsTaken(p)'
           /\ Got(p) => Got(p)'
           /\ Ended(p)' <=> Ended(p)
           /\ LeftOver(p) => LeftOver(p)'
           /\ p \in eaten => p \in eaten'
LinesStay ==
    /\ PiecesStay
    /\ \A p, s : Own(p, s) => p.by = s \/ (p.by < s /\ LeftOver(p)')
    /\ \A l, s : GoodLine(l, s) => GoodLine(l, s)'

LEMMA StayTaken ==
    ASSUME FunctionsOK, OnTheWay, script' = script,
           \A c \in Clients : Taken(c)' \in Int /\ Taken(c) <= Taken(c)',
           \A p \in eaten' : p \in eaten \/ ~IsTaken(p), eaten \subseteq eaten',
           \A i \in DOMAIN ran : i \in DOMAIN ran' /\ ran'[i] = ran[i]
    PROVE  LinesStay
<1>1. \A c \in Clients : Taken(c) \in Int
  <2> SUFFICES ASSUME NEW c \in Clients PROVE Taken(c) \in Int
    OBVIOUS
  <2>1. sent[c] \in Nat /\ Len(chan[c]) \in Nat
    BY DEF FunctionsOK
  <2> QED
    BY <2>1 DEF Taken
<1>2. \A p : IsTaken(p) => IsTaken(p)'
  BY <1>1 DEF IsTaken
<1>3. \A p : Got(p) => Got(p)'
  BY <1>2 DEF Got
<1>4. \A p : Ended(p)' <=> Ended(p)
  BY DEF Ended
<1>5. \A p : LeftOver(p) => LeftOver(p)'
  BY DEF LeftOver
<1>6. \A p : p \in eaten => p \in eaten'
  OBVIOUS
<1>7. PiecesStay
  BY <1>2, <1>3, <1>4, <1>5, <1>6 DEF PiecesStay
<1>8. \A p, s : Own(p, s) => p.by = s \/ (p.by < s /\ LeftOver(p)')
  BY <1>5 DEF Own
<1>9. \A l, a : Follows(l, a) => Follows(l, a)'
  <2>1. \A p : Starts(p)' <=> Starts(p)
    BY <1>4 DEF Starts
  <2> QED
    BY <1>6, <2>1 DEF Follows
<1>10. ASSUME NEW l, NEW s, GoodLine(l, s) PROVE GoodLine(l, s)'
  <2>1. ASSUME NEW a \in DOMAIN l
        PROVE  /\ Got(l[a])' /\ Own(l[a], s)' /\ Follows(l, a)'
               /\ Ended(l[a])' => a = Len(l)
    <3>1. Got(l[a]) /\ Own(l[a], s) /\ Follows(l, a) /\ (Ended(l[a]) => a = Len(l))
      BY <1>10 DEF GoodLine
    <3>2. Own(l[a], s)'
      BY <1>8, <3>1 DEF Own
    <3> QED
      BY <1>3, <1>4, <1>9, <3>1, <3>2
  <2>2. \A a, b \in DOMAIN l : /\ a < b => Before(l[a], l[b])
                               /\ l[a].by # l[b].by => s \in {l[a].by, l[b].by}
    BY <1>10 DEF GoodLine
  <2> QED
    BY <2>1, <2>2 DEF GoodLine
<1> QED
  BY <1>7, <1>8, <1>10 DEF LinesStay

\* A step that takes no piece and runs no line.
LEMMA StillStay ==
    ASSUME FunctionsOK, OnTheWay, UNCHANGED <<script, sent, chan, eaten, ran>>
    PROVE  /\ LinesStay /\ OnTheWay'
           /\ \A c \in Clients : Taken(c)' = Taken(c) /\ Taken(c) \in Int
           /\ EatenInv => EatenInv'
<1>1. OnTheWay' /\ \A c \in Clients : Taken(c)' = Taken(c) /\ Taken(c) \in Int
  <2>1. \A c \in Clients : sent[c] \in Nat /\ Len(chan[c]) \in Nat
    BY DEF FunctionsOK
  <2> QED
    BY <2>1 DEF OnTheWay, Taken
<1>2. \A c \in Clients : Taken(c)' \in Int /\ Taken(c) <= Taken(c)'
  BY <1>1
<1>3. LinesStay
  BY <1>2, StayTaken
<1> QED
  BY <1>1, <1>3 DEF LinesStay, PiecesStay, EatenInv

\* What runs before and what is in the buffer, as long as neither changes.
LEMMA RanStays ==
    ASSUME LinesStay, RanInv, UNCHANGED <<ran, cur, bad, inbuf, line, text>>,
           bad' \/ at' \in {"getline", "parse"} => bad \/ at \in {"getline", "parse"},
           at' \in {"run", "wait"} => at \in {"run", "wait"}
    PROVE  RanInv'
<1>1. ASSUME NEW i \in DOMAIN ran
      PROVE  /\ GoodLine(ran[i].line, ran[i].session)' /\ ran[i].session <= cur
             /\ ran[i].line # <<>> /\ (bad \/ Ended(ran[i].line[Len(ran[i].line)])')
             /\ AllBefore(ran[i].line, inbuf)
             /\ bad \/ at' \in {"getline", "parse"} =>
                   AllBefore(ran[i].line, line) \/ (bad /\ ran[i].line = line)
  BY DEF RanInv, LinesStay, PiecesStay
<1> QED
  BY <1>1 DEF RanInv, AllBefore

\* A step that moves no piece.
LEMMA UnmovedKeepsLines ==
    ASSUME TypeOK, FunctionsOK, LinesInv,
           UNCHANGED <<script, sent, chan, eaten, inbuf, cur, bad, line, text, ran>>,
           \A r \in readers' : r[1] <= cur,
           HasLine' => HasLine \/ (bad /\ line # <<>>),
           at' = "getline" <=> at = "getline",
           at' = "parse" => at = "parse" \/ bad,
           at' \in {"run", "wait"} => at \in {"run", "wait"},
           at = "accept" => at' = "accept",
           at' = "accept" => at = "accept" \/ \A i \in DOMAIN inbuf : LeftOver(inbuf[i])
    PROVE  LinesInv'
<1>1. /\ LinesStay /\ OnTheWay' /\ EatenInv'
      /\ \A c \in Clients : Taken(c)' = Taken(c)
  BY StillStay DEF LinesInv
<1>2. \A q : IsLast(q) => IsLast(q)'
  BY <1>1 DEF IsLast, LinesStay, PiecesStay
<1>3. bad => inbuf = <<>>
  BY DEF LinesInv, LineInv
<1>4. BufferInv'
  <2>1. ASSUME NEW i \in DOMAIN inbuf
        PROVE  /\ Got(inbuf[i])' /\ Own(inbuf[i], cur)'
               /\ inbuf[i] = PieceOf(inbuf[1].by, inbuf[1].n + (i - 1))
               /\ at' = "accept" => LeftOver(inbuf[i])'
    <3>1. /\ Got(inbuf[i]) /\ Own(inbuf[i], cur)
          /\ inbuf[i] = PieceOf(inbuf[1].by, inbuf[1].n + (i - 1))
          /\ at = "accept" => LeftOver(inbuf[i])
      BY DEF LinesInv, BufferInv
    <3> QED
      BY <1>1, <3>1 DEF LinesStay, PiecesStay, Own
  <2>2. inbuf # <<>> => ComesNext(inbuf[1])'
    <3>1. inbuf # <<>> => ComesNext(inbuf[1])
      BY DEF LinesInv, BufferInv
    <3> QED
      BY <1>1, <1>2, <3>1 DEF LinesStay, PiecesStay, ComesNext
  <2>3. \A a \in DOMAIN line, i \in DOMAIN inbuf :
            /\ line[a].by = inbuf[i].by \/ inbuf[i].by = cur
            /\ HasLine' /\ a = Len(line) => line[a].by = inbuf[i].by
    BY <1>3 DEF LinesInv, BufferInv
  <2> QED
    BY <2>1, <2>2, <2>3 DEF LinesInv, BufferInv, AllBefore
<1>5. LineInv'
  <2>1. GoodLine(line, cur)' /\ \A q : Ended(q)' <=> Ended(q)
    BY <1>1 DEF LinesInv, LineInv, LinesStay, PiecesStay
  <2> QED
    BY <2>1 DEF LinesInv, LineInv
<1>6. RanInv'
  BY <1>1, RanStays DEF LinesInv
<1>7. WayInv'
  <2>1. at' # "accept" => at # "accept" /\ cur \in Clients
    BY DEF TypeOK
  <2> QED
    BY <1>1, <1>2, <2>1 DEF LinesInv, WayInv
<1> QED
  BY <1>1, <1>4, <1>5, <1>6, <1>7 DEF LinesInv

\* A step of a client or a child, as far as the server's lines go.
LEMMA QuietLines ==
    ASSUME LinesInv, LinesStay, UNCHANGED <<inbuf, at, cur, bad, line, text, ran>>
    PROVE  BufferInv' /\ LineInv' /\ RanInv'
<1>1. \A q : IsLast(q) => IsLast(q)'
  BY DEF IsLast, LinesStay, PiecesStay
<1>2. BufferInv'
  <2>1. ASSUME NEW i \in DOMAIN inbuf
        PROVE  /\ Got(inbuf[i])' /\ Own(inbuf[i], cur)'
               /\ inbuf[i] = PieceOf(inbuf[1].by, inbuf[1].n + (i - 1))
               /\ at = "accept" => LeftOver(inbuf[i])'
    <3>1. /\ Got(inbuf[i]) /\ Own(inbuf[i], cur)
          /\ inbuf[i] = PieceOf(inbuf[1].by, inbuf[1].n + (i - 1))
          /\ at = "accept" => LeftOver(inbuf[i])
      BY DEF LinesInv, BufferInv
    <3> QED
      BY <3>1 DEF LinesStay, PiecesStay, Own
  <2>2. inbuf # <<>> => ComesNext(inbuf[1])'
    <3>1. inbuf # <<>> => ComesNext(inbuf[1])
      BY DEF LinesInv, BufferInv
    <3> QED
      BY <1>1, <3>1 DEF LinesStay, PiecesStay, ComesNext
  <2> QED
    BY <2>1, <2>2 DEF LinesInv, BufferInv, AllBefore, HasLine
<1>3. LineInv'
  <2>1. GoodLine(line, cur)' /\ \A q : Ended(q)' <=> Ended(q)
    BY DEF LinesInv, LineInv, LinesStay, PiecesStay
  <2> QED
    BY <2>1 DEF LinesInv, LineInv, HasLine
<1>4. RanInv'
  BY RanStays DEF LinesInv
<1> QED
  BY <1>2, <1>3, <1>4

\* A piece is sent: it goes behind those on their way.
LEMMA SendKeepsLines ==
    ASSUME TypeOK, FunctionsOK, LinesInv, NEW c \in Clients, SendPiece(c)
    PROVE  LinesInv'
<1>1. /\ sent[c] \in Nat /\ sent' = [sent EXCEPT ![c] = sent[c] + 1]
      /\ chan' = [chan EXCEPT ![c] = Append(chan[c], PieceOf(c, sent'[c]))]
      /\ UNCHANGED <<script, inbuf, at, cur, bad, line, text, ran, eaten, readers>>
  BY DEF SendPiece, FunctionsOK, outside, server, shell
<1>2. /\ sent'[c] = sent[c] + 1 /\ chan'[c] = Append(chan[c], PieceOf(c, sent[c] + 1))
      /\ \A d \in Clients : d # c => sent'[d] = sent[d] /\ chan'[d] = chan[d]
  BY <1>1 DEF FunctionsOK
<1>3. chan[c] \in Seq(Sent) /\ Len(chan[c]) \in Nat /\ Len(chan[c]) <= sent[c]
  BY DEF FunctionsOK, LinesInv, OnTheWay
<1>4. /\ Len(chan'[c]) = Len(chan[c]) + 1
      /\ \A i \in 1 .. Len(chan[c]) : chan'[c][i] = chan[c][i]
      /\ chan'[c][Len(chan[c]) + 1] = PieceOf(c, sent[c] + 1)
  BY <1>2, <1>3
<1>5. \A d \in Clients : Taken(d)' = Taken(d) /\ Taken(d)' \in Int
  <2> SUFFICES ASSUME NEW d \in Clients PROVE Taken(d)' = Taken(d) /\ Taken(d)' \in Int
    OBVIOUS
  <2>1. sent[d] \in Nat /\ Len(chan[d]) \in Nat
    BY DEF FunctionsOK
  <2>2. CASE d = c
    BY <1>1, <1>2, <1>3, <1>4, <2>2 DEF Taken
  <2>3. CASE d # c
    BY <1>2, <2>1, <2>3 DEF Taken
  <2> QED
    BY <2>2, <2>3
<1>6. OnTheWay'
  <2> SUFFICES ASSUME NEW d \in Clients
               PROVE  /\ Len(chan'[d]) <= sent'[d]
                      /\ \A i \in 1 .. Len(chan'[d]) : chan'[d][i] = PieceOf(d, Taken(d) + i)
    BY <1>5 DEF OnTheWay
  <2>1. CASE d # c
    BY <1>2, <2>1 DEF LinesInv, OnTheWay
  <2>2. CASE d = c
    <3>1. \A i \in 1 .. Len(chan[c]) : chan'[c][i] = PieceOf(c, Taken(c) + i)
      BY <1>4 DEF LinesInv, OnTheWay
    <3>2. Taken(c) + (Len(chan[c]) + 1) = sent[c] + 1
      BY <1>1, <1>3 DEF Taken
    <3>3. \A i \in 1 .. Len(chan'[c]) : i \in 1 .. Len(chan[c]) \/ i = Len(chan[c]) + 1
      BY <1>3, <1>4
    <3> QED
      BY <1>1, <1>2, <1>3, <1>4, <2>2, <3>1, <3>2, <3>3
  <2> QED
    BY <2>1, <2>2
<1>7. LinesStay
  BY <1>1, <1>5, StayTaken DEF LinesInv
<1>8. EatenInv'
  BY <1>1, <1>7 DEF LinesInv, LinesStay, PiecesStay, EatenInv
<1>9. BufferInv' /\ LineInv' /\ RanInv'
  BY <1>1, <1>7, QuietLines DEF LinesInv
<1>10. WayInv'
  <2>1. \A q : IsLast(q)' <=> IsLast(q)
    BY <1>1 DEF IsLast, Ended
  <2> QED
    BY <1>1, <1>5, <2>1 DEF LinesInv, WayInv, TypeOK
<1> QED
  BY <1>6, <1>8, <1>9, <1>10 DEF LinesInv

\* The first n pieces on their way from c are taken.
LEMMA WayTaken ==
    ASSUME FunctionsOK, OnTheWay, NEW c \in Clients, NEW n \in 1 .. Len(chan[c]),
           chan' = [chan EXCEPT ![c] = SubSeq(@, n + 1, Len(@))], UNCHANGED <<sent, script>>
    PROVE  /\ OnTheWay'
           /\ chan[c] \in Seq(Sent) /\ n \in Nat \ {0} /\ n <= Len(chan[c]) /\ Len(chan[c]) \in Nat
           /\ Taken(c) \in Nat /\ Taken(c)' = Taken(c) + n
           /\ \A d \in Clients : Taken(d)' \in Int /\ Taken(d) <= Taken(d)'
           /\ \A i \in 1 .. n : chan[c][i] = PieceOf(c, Taken(c) + i)
           /\ \A i \in 1 .. n : \A l : l = chan[c][i] => IsTaken(l)' /\ ~IsTaken(l)
<1>1. /\ chan[c] \in Seq(Sent) /\ Len(chan[c]) \in Nat /\ sent[c] \in Nat
      /\ Len(chan[c]) <= sent[c]
      /\ \A i \in 1 .. Len(chan[c]) : chan[c][i] = PieceOf(c, Taken(c) + i)
  BY DEF FunctionsOK, OnTheWay
<1>2. /\ chan'[c] = SubSeq(chan[c], n + 1, Len(chan[c]))
      /\ \A d \in Clients : d # c => chan'[d] = chan[d]
  BY DEF FunctionsOK
<1>3. /\ Len(chan'[c]) = Len(chan[c]) - n
      /\ \A i \in 1 .. Len(chan[c]) - n : chan'[c][i] = chan[c][n + i]
  <2>1. n + 1 \in 1 .. Len(chan[c]) + 1 /\ n \in Nat /\ n <= Len(chan[c])
    BY <1>1
  <2>2. /\ Len(chan'[c]) = Len(chan[c]) - (n + 1) + 1
        /\ \A i \in 1 .. Len(chan[c]) - (n + 1) + 1 : chan'[c][i] = chan[c][n + 1 + i - 1]
    BY <1>1, <1>2, <2>1, SubSeqProperties
  <2> QED
    BY <1>1, <2>1, <2>2
<1>4. Taken(c) \in Nat /\ Taken(c)' = Taken(c) + n /\ n \in Nat /\ n <= Len(chan[c])
  BY <1>1, <1>3 DEF Taken
<1>5. \A d \in Clients : Taken(d)' \in Int /\ Taken(d) <= Taken(d)'
  <2> SUFFICES ASSUME NEW d \in Clients PROVE Taken(d)' \in Int /\ Taken(d) <= Taken(d)'
    OBVIOUS
  <2>1. CASE d = c
    BY <1>4, <2>1
  <2>2. CASE d # c
    <3>1. sent[d] \in Nat /\ Len(chan[d]) \in Nat /\ Taken(d)' = Taken(d)
      BY <1>2, <2>2 DEF FunctionsOK, Taken
    <3> QED
      BY <3>1 DEF Taken
  <2> QED
    BY <2>1, <2>2
<1>6. OnTheWay'
  <2> SUFFICES ASSUME NEW d \in Clients
               PROVE  /\ Len(chan'[d]) <= sent[d]
                      /\ \A i \in 1 .. Len(chan'[d]) : chan'[d][i] = PieceOf(d, Taken(d)' + i)
    BY DEF OnTheWay
  <2>1. CASE d # c
    BY <1>2, <2>1 DEF OnTheWay, Taken
  <2>2. CASE d = c
    <3>1. ASSUME NEW i \in 1 .. Len(chan'[c]) PROVE chan'[c][i] = PieceOf(c, Taken(c)' + i)
      <4>1. n + i \in 1 .. Len(chan[c]) /\ Taken(c)' + i = Taken(c) + (n + i)
        BY <1>1, <1>3, <1>4, <3>1
      <4>2. chan[c][n + i] = PieceOf(c, Taken(c) + (n + i))
        BY <1>1, <4>1
      <4> QED
        BY <1>3, <3>1, <4>1, <4>2
    <3> QED
      BY <1>1, <1>3, <1>4, <2>2, <3>1
  <2> QED
    BY <2>1, <2>2
<1>7. \A i \in 1 .. n : \A l : l = chan[c][i] => IsTaken(l)' /\ ~IsTaken(l)
  <2> SUFFICES ASSUME NEW i \in 1 .. n, NEW l, l = chan[c][i]
               PROVE  IsTaken(l)' /\ ~IsTaken(l)
    OBVIOUS
  <2>1. l = PieceOf(c, Taken(c) + i) /\ i \in Nat \ {0} /\ i <= n
    BY <1>1, <1>4
  <2>2. l.by = c /\ l.n = Taken(c) + i
    BY <2>1 DEF PieceOf
  <2>3. Taken(c) + i \in 1 .. Taken(c)' /\ Taken(c) + i \notin 1 .. Taken(c)
    BY <1>4, <2>1
  <2> QED
    BY <2>1, <2>2, <2>3 DEF IsTaken
<1>8. \A i \in 1 .. n : chan[c][i] = PieceOf(c, Taken(c) + i)
  <2>1. \A i \in 1 .. n : i \in 1 .. Len(chan[c])
    BY <1>1, <1>4
  <2> QED
    BY <1>1, <2>1
<1>9. n \in Nat \ {0}
  BY <1>1
<1> QED
  BY ONLY <1>1, <1>4, <1>5, <1>6, <1>7, <1>8, <1>9

\* A child takes pieces: none that the server has.
LEMMA ReadKeepsLines ==
    ASSUME TypeOK, FunctionsOK, LinesInv, NEW c \in Clients, ReaderReads(c)
    PROVE  LinesInv'
<1>1. PICK n \in 1 .. Len(chan[c]) :
          /\ eaten' = eaten \cup {chan[c][i] : i \in 1 .. n}
          /\ chan' = [chan EXCEPT ![c] = SubSeq(@, n + 1, Len(@))]
  BY DEF ReaderReads
<1>2. UNCHANGED <<script, sent, inbuf, at, cur, bad, line, text, ran, readers>>
  BY DEF ReaderReads, outside, server, shell
<1>3. /\ OnTheWay' /\ \A d \in Clients : Taken(d)' \in Int /\ Taken(d) <= Taken(d)'
      /\ \A i \in 1 .. n : \A p : p = chan[c][i] => IsTaken(p)' /\ ~IsTaken(p)
      /\ \A i \in 1 .. n : chan[c][i] = PieceOf(c, Taken(c) + i)
      /\ Taken(c)' = Taken(c) + n /\ n \in Nat \ {0}
  BY <1>1, <1>2, WayTaken DEF LinesInv
<1>4. LinesStay
  <2>1. \A p \in eaten' : p \in eaten \/ ~IsTaken(p)
    BY <1>1, <1>3
  <2> QED
    BY <1>1, <1>2, <1>3, <2>1, StayTaken DEF LinesInv
<1>5. EatenInv'
  BY <1>1, <1>3, <1>4 DEF LinesInv, EatenInv, LinesStay, PiecesStay
<1>6. BufferInv' /\ LineInv' /\ RanInv'
  BY <1>2, <1>4, QuietLines
<1>7. WayInv'
  <2>1. c <= cur /\ \A d \in Clients : d > cur => d # c
    <3>1. \E r \in readers : r[1] = c
      BY DEF ReaderReads
    <3>2. \A r \in readers : r[1] <= cur
      BY DEF LinesInv, WayInv
    <3>3. c \in Nat /\ cur \in Nat
      BY ClientsCounted, CurCounted
    <3> QED
      BY <3>1, <3>2, <3>3
  <2>2. \A d \in Clients : d # c => Taken(d)' = Taken(d)
    BY <1>1, <1>2 DEF Taken, FunctionsOK
  <2>3. \A q : IsLast(q)' <=> IsLast(q)
    BY <1>2 DEF IsLast, Ended
  <2>4. CASE cur = c
    <3>1. Taken(cur)' = Taken(c)' /\ n \in 1 .. n
      BY <1>2, <1>3, <2>4 DEF Taken
    <3>3. PieceOf(cur, Taken(cur)') = chan[c][n]
      BY <1>3, <2>4, <3>1
    <3>2. PieceOf(cur, Taken(cur)') \in eaten'
      BY <1>1, <3>1, <3>3
    <3> QED
      BY <1>2, <2>1, <2>2, <2>4, <3>2 DEF LinesInv, WayInv
  <2>5. CASE cur # c
    <3>1. at # "accept" => Taken(cur)' = Taken(cur)
      <4>1. at # "accept" => cur \in Clients
        BY DEF TypeOK
      <4> QED
        BY <1>2, <2>2, <2>5, <4>1 DEF Taken
    <3> QED
      BY <1>1, <1>2, <2>1, <2>2, <2>3, <3>1 DEF LinesInv, WayInv
  <2> QED
    BY <2>4, <2>5
<1> QED
  BY <1>3, <1>5, <1>6, <1>7 DEF LinesInv

\* A read fills the empty buffer with pieces of the client who is served.
LEMMA FillKeepsLines ==
    ASSUME TypeOK, FunctionsOK, LinesInv, Fill
    PROVE  LinesInv'
<1>1. PICK n \in 1 .. Len(chan[cur]) :
          /\ inbuf' = SubSeq(chan[cur], 1, n)
          /\ chan' = [chan EXCEPT ![cur] = SubSeq(@, n + 1, Len(@))]
  BY DEF Fill
<1>2. /\ UNCHANGED <<script, sent, at, cur, bad, line, text, ran, eaten, readers>>
      /\ at = "getline" /\ cur \in Clients /\ cur # 0 /\ inbuf = <<>>
  BY DEF Fill, outside, shell, TypeOK
<1>3. /\ OnTheWay' /\ \A d \in Clients : Taken(d)' \in Int /\ Taken(d) <= Taken(d)'
      /\ \A i \in 1 .. n : chan[cur][i] = PieceOf(cur, Taken(cur) + i)
      /\ \A i \in 1 .. n : \A p : p = chan[cur][i] => IsTaken(p)' /\ ~IsTaken(p)
      /\ chan[cur] \in Seq(Sent) /\ n \in Nat \ {0} /\ n <= Len(chan[cur])
      /\ Taken(cur) \in Nat /\ Len(chan[cur]) \in Nat /\ Taken(cur)' = Taken(cur) + n
  BY <1>1, <1>2, WayTaken DEF LinesInv
<1>4. LinesStay
  BY <1>2, <1>3, StayTaken DEF LinesInv
<1>5. /\ inbuf' \in Seq(Sent) /\ Len(inbuf') = n /\ DOMAIN inbuf' = 1 .. n
      /\ \A i \in 1 .. n : inbuf'[i] = chan[cur][i] /\ i \in Nat \ {0}
      /\ 1 \in 1 .. n /\ n \in 1 .. n /\ inbuf' # <<>>
  <2>1. 1 \in 1 .. n /\ n \in 1 .. n /\ \A i \in 1 .. n : i \in Nat \ {0}
    BY <1>3
  <2>2. /\ inbuf' \in Seq(Sent) /\ Len(inbuf') = n /\ DOMAIN inbuf' = 1 .. n
        /\ \A i \in 1 .. n : inbuf'[i] = chan[cur][i]
    BY <1>1, <1>3
  <2> QED
    BY <1>3, <2>1, <2>2
<1>6. \A i \in 1 .. n : /\ inbuf'[i] = PieceOf(cur, Taken(cur) + i)
                        /\ inbuf'[i].by = cur /\ inbuf'[i].n = Taken(cur) + i
  <2>1. \A i \in 1 .. n : inbuf'[i] = PieceOf(cur, Taken(cur) + i)
    BY <1>3, <1>5
  <2>2. \A k : PieceOf(cur, k).by = cur /\ PieceOf(cur, k).n = k
    BY DEF PieceOf
  <2> QED
    BY <2>1, <2>2
<1>7. \A i \in 1 .. n : \A p : p = inbuf'[i] => Got(p)'
  BY <1>2, <1>3, <1>5 DEF Got, LinesInv, EatenInv
<1>8. \A q : IsLast(q)' <=> IsLast(q)
  BY <1>2 DEF IsLast, Ended
\* A line of this session or an earlier one is before what is read now.
<1>9. ASSUME NEW l, NEW s, GoodLine(l, s), s <= cur, s \in Nat PROVE AllBefore(l, inbuf')
  <2> SUFFICES ASSUME NEW a \in DOMAIN l, NEW i \in 1 .. n PROVE Before(l[a], inbuf'[i])
    BY <1>5 DEF AllBefore
  <2>1. IsTaken(l[a]) /\ (l[a].by = s \/ l[a].by < s)
    BY <1>9 DEF GoodLine, Got, Own
  <2>2. l[a].by \in Nat /\ l[a].n \in Nat /\ l[a].n <= Taken(l[a].by) /\ cur \in Nat
    BY <2>1, TakenTyped, CurCounted DEF LinesInv
  <2>3. l[a].by < cur \/ l[a].by = cur
    BY <1>9, <2>1, <2>2
  <2>4. inbuf'[i].by = cur /\ inbuf'[i].n = Taken(cur) + i /\ i \in Nat \ {0}
    BY <1>5, <1>6
  <2>5. CASE l[a].by = cur
    <3>1. l[a].n < inbuf'[i].n
      BY <1>3, <2>2, <2>4, <2>5
    <3> QED
      BY <2>4, <2>5, <3>1 DEF Before
  <2>6. CASE l[a].by < cur
    BY <2>4, <2>6 DEF Before
  <2> QED
    BY <2>3, <2>5, <2>6
<1>10. BufferInv'
  <2>1. ASSUME NEW i \in 1 .. n
        PROVE  /\ Got(inbuf[i])' /\ Own(inbuf[i], cur)'
               /\ inbuf'[i] = PieceOf(inbuf'[1].by, inbuf'[1].n + (i - 1))
    <3>1. Got(inbuf[i])' /\ Own(inbuf[i], cur)'
      BY <1>2, <1>6, <1>7 DEF Own
    <3>2. inbuf'[1].n + (i - 1) = Taken(cur) + i
      BY <1>3, <1>5, <1>6
    <3> QED
      BY <1>5, <1>6, <3>1, <3>2
  <2>2. ComesNext(inbuf[1])'
    <3>1. inbuf'[1].by = cur /\ inbuf'[1].n = Taken(cur) + 1
      BY <1>5, <1>6
    <3>2. inbuf'[1].n - 1 = Taken(cur)
      BY <1>3, <3>1
    <3>3. Taken(cur) = 0 \/ PieceOf(cur, Taken(cur)) \in eaten \/ IsLast(PieceOf(cur, Taken(cur)))
      BY <1>2 DEF LinesInv, WayInv
    <3> QED
      BY <1>2, <1>8, <3>1, <3>2, <3>3 DEF ComesNext
  <2>3. AllBefore(line, inbuf')
    <3>1. GoodLine(line, cur) /\ cur \in Nat
      BY CurCounted DEF LinesInv, LineInv
    <3> QED
      BY <1>9, <3>1
  <2> QED
    BY <1>2, <1>5, <1>6, <2>1, <2>2, <2>3 DEF BufferInv, AllBefore, HasLine
<1>11. EatenInv' /\ LineInv'
  <2>1. ~bad
    BY <1>2 DEF LinesInv, LineInv
  <2>2. GoodLine(line, cur)' /\ \A q : Ended(q)' <=> Ended(q)
    BY <1>2, <1>4 DEF LinesInv, LineInv, LinesStay, PiecesStay
  <2> QED
    BY <1>2, <1>4, <2>1, <2>2 DEF LinesInv, LinesStay, PiecesStay, EatenInv, LineInv, HasLine
<1>12. RanInv'
  <2>1. ASSUME NEW i \in DOMAIN ran
        PROVE  /\ GoodLine(ran[i].line, ran[i].session)' /\ ran[i].session <= cur
               /\ ran[i].line # <<>> /\ (bad \/ Ended(ran[i].line[Len(ran[i].line)])')
               /\ AllBefore(ran[i].line, inbuf')
               /\ AllBefore(ran[i].line, line) \/ (bad /\ ran[i].line = line)
    <3>1. /\ GoodLine(ran[i].line, ran[i].session) /\ ran[i].session <= cur
          /\ ran[i].line # <<>> /\ (bad \/ Ended(ran[i].line[Len(ran[i].line)]))
          /\ AllBefore(ran[i].line, line) \/ (bad /\ ran[i].line = line)
      BY <1>2 DEF LinesInv, RanInv
    <3>2. ran[i].session \in Nat
      <4>1. ran \in Seq(Entry) /\ ran[i] \in Entry
        BY DEF FunctionsOK
      <4> QED
        BY ONLY <4>1 DEF Entry
    <3>3. AllBefore(ran[i].line, inbuf')
      BY <1>9, <3>1, <3>2
    <3> QED
      BY <1>2, <1>4, <3>1, <3>3 DEF LinesStay, PiecesStay
  <2> QED
    BY <1>2, <2>1 DEF LinesInv, RanInv, AllBefore
<1>13. WayInv'
  <2>1. \A d \in Clients : d # cur => Taken(d)' = Taken(d)
    BY <1>1, <1>2 DEF Taken, FunctionsOK
  <2>2. \A d \in Clients : d > cur => d # cur
    BY ClientsCounted, CurCounted
  <2>3. PieceOf(cur, Taken(cur)') = inbuf'[Len(inbuf')]
    BY <1>3, <1>5, <1>6
  <2> QED
    BY <1>2, <1>5, <2>1, <2>2, <2>3 DEF LinesInv, WayInv
<1> QED
  BY <1>3, <1>10, <1>11, <1>12, <1>13 DEF LinesInv

\* The first piece of the buffer is put behind those of the line.
LEMMA PieceJoins ==
    ASSUME TypeOK, FunctionsOK, LinesInv, at = "getline", TakePiece, ran' = ran, cur' = cur, LinesStay
    PROVE  /\ GoodLine(line', cur) /\ line' \in Seq(Sent)
           /\ line' # <<>> /\ line'[Len(line')] = inbuf[1] /\ inbuf \in Seq(Sent)
           /\ Len(line') = Len(line) + 1 /\ Len(line) \in Nat
           /\ \A a \in DOMAIN line : a \in DOMAIN line' /\ line'[a] = line[a] /\ a # Len(line')
           /\ \A a \in DOMAIN line' : a \in DOMAIN line \/ a = Len(line')
           /\ 1 \in DOMAIN inbuf /\ DOMAIN inbuf' = 1 .. Len(inbuf) - 1 /\ Len(inbuf) \in Nat
           /\ \A i \in DOMAIN inbuf' : i + 1 \in DOMAIN inbuf /\ inbuf'[i] = inbuf[i + 1]
<1>1. /\ inbuf \in Seq(Sent) /\ inbuf # <<>> /\ inbuf' = Tail(inbuf) /\ Head(inbuf) = inbuf[1]
      /\ inbuf[1] \in Sent /\ line \in Seq(Sent) /\ line' = Append(line, inbuf[1])
      /\ Len(inbuf) \in Nat /\ 1 \in DOMAIN inbuf
  BY DEF TakePiece, TypeOK
<1>2. /\ DOMAIN inbuf' = 1 .. Len(inbuf) - 1
      /\ \A i \in DOMAIN inbuf' : i + 1 \in DOMAIN inbuf /\ inbuf'[i] = inbuf[i + 1]
  BY <1>1
<1>3. PICK n : n = Len(line) + 1
  OBVIOUS
<1>4. /\ line' \in Seq(Sent) /\ Len(line') = n /\ line' # <<>> /\ line'[n] = inbuf[1]
      /\ Len(line) \in Nat /\ DOMAIN line = 1 .. Len(line) /\ DOMAIN line' = 1 .. n
      /\ \A a \in DOMAIN line : a \in DOMAIN line' /\ line'[a] = line[a] /\ a # n /\ a < n
      /\ \A a \in DOMAIN line' : a \in DOMAIN line \/ a = n
  BY <1>1, <1>3
<1>5. /\ Got(inbuf[1]) /\ Own(inbuf[1], cur) /\ ComesNext(inbuf[1])
      /\ \A a \in DOMAIN line : /\ Before(line[a], inbuf[1])
                                /\ line[a].by = inbuf[1].by \/ inbuf[1].by = cur
  BY <1>1 DEF LinesInv, BufferInv, AllBefore
<1>6. ASSUME NEW a \in DOMAIN line
      PROVE  /\ Got(line[a]) /\ Own(line[a], cur) /\ ~Ended(line[a]) /\ Follows(line', a)
    <2>1. Got(line[a]) /\ Own(line[a], cur) /\ Follows(line, a) /\ (Ended(line[a]) => a = Len(line))
      BY DEF LinesInv, LineInv, GoodLine
    <2>2. ~Ended(line[a])
      <3>1. line # <<>>
        BY <1>4
      <3> QED
        BY <2>1, <3>1 DEF LinesInv, LineInv
    <2>3. a > 1 => a - 1 \in DOMAIN line
      BY <1>4
    <2>4. Follows(line', a)
      BY <1>4, <2>1, <2>3 DEF Follows
    <2> QED
      BY <2>1, <2>2, <2>4
<1>7. Follows(line', n)
  <2> DEFINE q == PieceOf(inbuf[1].by, inbuf[1].n - 1)
  <2>1. IsTaken(inbuf[1])
    BY <1>5 DEF Got
  <2>2. /\ inbuf[1].n \in Nat \ {0} /\ inbuf[1] = PieceOf(inbuf[1].by, inbuf[1].n)
    BY <2>1, TakenTyped DEF LinesInv
  <2>3. CASE line = <<>>
    <3>1. n = 1
      BY <1>3, <2>3
    <3>2. Starts(inbuf[1]) \/ q \in eaten
      BY <1>5, <2>3 DEF ComesNext, IsLast, Starts
    <3> QED
      BY <1>4, <3>1, <3>2 DEF Follows
  <2>4. CASE line # <<>>
    <3>1. n > 1 /\ n - 1 = Len(line) /\ n - 1 \in DOMAIN line
      BY <1>3, <1>4, <1>1, <2>4
    <3>2. inbuf[1].n = 1 \/ q \in eaten \/ q = line[Len(line)]
      BY <1>5, <2>4 DEF ComesNext, IsLast
    <3>3. ASSUME q = line[Len(line)] PROVE line'[n] = PieceOf(line'[n - 1].by, line'[n - 1].n + 1)
      <4>1. line'[n - 1].by = inbuf[1].by /\ line'[n - 1].n = inbuf[1].n - 1
        BY <1>4, <3>1, <3>3 DEF PieceOf
      <4>2. line'[n - 1].n + 1 = inbuf[1].n
        BY <2>2, <4>1
      <4> QED
        BY <1>4, <2>2, <4>1, <4>2
    <3> QED
      BY <1>4, <3>1, <3>2, <3>3 DEF Follows
  <2> QED
    BY <2>3, <2>4
<1>8. GoodLine(line', cur)
  <2>1. \A a \in DOMAIN line' : /\ Got(line'[a]) /\ Own(line'[a], cur) /\ Follows(line', a)
                                /\ Ended(line'[a]) => a = Len(line')
    BY <1>4, <1>5, <1>6, <1>7
  <2>2. ASSUME NEW a \in DOMAIN line', NEW b \in DOMAIN line'
        PROVE  /\ a < b => Before(line'[a], line'[b])
               /\ line'[a].by # line'[b].by => cur \in {line'[a].by, line'[b].by}
    <3>1. CASE a \in DOMAIN line /\ b \in DOMAIN line
      BY <1>4, <3>1 DEF LinesInv, LineInv, GoodLine
    <3>2. CASE a \in DOMAIN line /\ b = n
      BY <1>4, <1>5, <3>2
    <3>3. CASE a = n /\ b \in DOMAIN line
      <4>1. ~(a < b)
        BY <1>4, <3>3
      <4> QED
        BY <1>4, <1>5, <3>3, <4>1
    <3>4. CASE a = n /\ b = n
      BY <1>3, <1>4, <3>4
    <3> QED
      BY <1>4, <3>1, <3>2, <3>3, <3>4
  <2> QED
    BY <2>1, <2>2 DEF GoodLine
<1> QED
  BY <1>1, <1>2, <1>3, <1>4, <1>8

\* getline takes a piece: it goes on when that has no end, and returns when it has.
LEMMA TakeKeepsLines ==
    ASSUME TypeOK, FunctionsOK, LinesInv, at = "getline", TakePiece,
           UNCHANGED <<script, sent, chan, eaten, cur, bad, ran, readers>>,
           \/ at' = "getline" /\ ~Ended(Head(inbuf))
           \/ at' \in {"prompt", "parse"} /\ Ended(Head(inbuf))
    PROVE  LinesInv'
<1>1. /\ LinesStay /\ OnTheWay' /\ EatenInv'
      /\ \A c \in Clients : Taken(c)' = Taken(c)
  BY StillStay DEF LinesInv
<1>2. /\ GoodLine(line', cur) /\ line' \in Seq(Sent)
      /\ line' # <<>> /\ line'[Len(line')] = inbuf[1] /\ inbuf \in Seq(Sent)
      /\ Len(line') = Len(line) + 1 /\ Len(line) \in Nat
      /\ \A a \in DOMAIN line : a \in DOMAIN line' /\ line'[a] = line[a] /\ a # Len(line')
      /\ \A a \in DOMAIN line' : a \in DOMAIN line \/ a = Len(line')
      /\ 1 \in DOMAIN inbuf /\ DOMAIN inbuf' = 1 .. Len(inbuf) - 1 /\ Len(inbuf) \in Nat
      /\ \A i \in DOMAIN inbuf' : i + 1 \in DOMAIN inbuf /\ inbuf'[i] = inbuf[i + 1]
  BY <1>1, PieceJoins
<1>3. /\ ~bad /\ cur \in Clients /\ \A q : Ended(q)' <=> Ended(q)
      /\ Head(inbuf) = inbuf[1] /\ inbuf' = Tail(inbuf)
  BY <1>1, <1>2 DEF LinesInv, LineInv, LinesStay, PiecesStay, TypeOK, TakePiece
<1>4. \A i \in DOMAIN inbuf : /\ Got(inbuf[i]) /\ Own(inbuf[i], cur)
                              /\ inbuf[i] = PieceOf(inbuf[1].by, inbuf[1].n + (i - 1))
  BY DEF LinesInv, BufferInv
<1>5. inbuf[1].by \in Nat /\ inbuf[1].n \in Nat \ {0} /\ inbuf[1] = PieceOf(inbuf[1].by, inbuf[1].n)
  <2>1. IsTaken(inbuf[1])
    BY <1>2, <1>4 DEF Got
  <2> QED
    BY <2>1, TakenTyped DEF LinesInv
<1>6. ASSUME NEW i \in DOMAIN inbuf'
      PROVE  /\ Got(inbuf'[i]) /\ Own(inbuf'[i], cur) /\ i \in Nat \ {0}
             /\ inbuf'[i].by = inbuf[1].by /\ inbuf'[i].n = inbuf[1].n + i
             /\ inbuf'[i] = PieceOf(inbuf[1].by, inbuf[1].n + i) /\ 1 \in DOMAIN inbuf'
  <2>1. i \in Nat \ {0} /\ 1 \in DOMAIN inbuf'
    BY <1>2
  <2> DEFINE k == i + 1
  <2>2. k \in DOMAIN inbuf /\ inbuf'[i] = inbuf[k] /\ k - 1 = i
    BY <1>2, <2>1
  <2> HIDE DEF k
  <2>3. Got(inbuf[k]) /\ Own(inbuf[k], cur) /\ inbuf[k] = PieceOf(inbuf[1].by, inbuf[1].n + i)
    BY <1>4, <2>2
  <2> QED
    BY <2>1, <2>2, <2>3 DEF PieceOf
<1>7. BufferInv'
  <2>1. ASSUME NEW i \in DOMAIN inbuf'
        PROVE  /\ Got(inbuf[i])' /\ Own(inbuf[i], cur)'
               /\ inbuf'[i] = PieceOf(inbuf'[1].by, inbuf'[1].n + (i - 1))
    <3>1. Got(inbuf[i])'
      BY <1>1, <1>6 DEF LinesStay, PiecesStay
    <3>2. Own(inbuf[i], cur)'
      BY <1>1, <1>6 DEF LinesStay, PiecesStay, Own
    <3>3. inbuf'[1].by = inbuf[1].by /\ inbuf'[1].n = inbuf[1].n + 1
      BY <1>6
    <3>4. inbuf'[1].n + (i - 1) = inbuf[1].n + i
      BY <1>5, <1>6, <3>3
    <3> QED
      BY <1>6, <3>1, <3>2, <3>3, <3>4
  <2>2. inbuf' # <<>> => ComesNext(inbuf[1])'
    <3> SUFFICES ASSUME inbuf' # <<>> PROVE ComesNext(inbuf[1])'
      OBVIOUS
    <3>1. 1 \in DOMAIN inbuf'
      BY <1>2, <1>3
    <3>2. inbuf'[1].by = inbuf[1].by /\ inbuf'[1].n - 1 = inbuf[1].n
      BY <1>5, <1>6, <3>1
    <3>3. line'[Len(line')] = PieceOf(inbuf'[1].by, inbuf'[1].n - 1)
      BY <1>2, <1>5, <3>2
    <3> QED
      BY <1>2, <3>3 DEF ComesNext, IsLast
  <2>3. AllBefore(line, inbuf)'
    <3> SUFFICES ASSUME NEW a \in DOMAIN line', NEW i \in DOMAIN inbuf'
                 PROVE  Before(line'[a], inbuf'[i])
      BY DEF AllBefore
    <3>1. CASE a \in DOMAIN line
      BY <1>2, <3>1 DEF LinesInv, BufferInv, AllBefore
    <3>2. CASE a = Len(line')
      <4>1. line'[a].by = inbuf'[i].by /\ line'[a].n < inbuf'[i].n
        BY <1>2, <1>5, <1>6, <3>2
      <4> QED
        BY <4>1 DEF Before
    <3> QED
      BY <1>2, <3>1, <3>2
  <2>4. ASSUME NEW a \in DOMAIN line', NEW i \in DOMAIN inbuf'
        PROVE  /\ line'[a].by = inbuf'[i].by \/ inbuf'[i].by = cur
               /\ a = Len(line') => line'[a].by = inbuf'[i].by
    <3>1. CASE a \in DOMAIN line
      <4>1. line[a].by = inbuf[1].by \/ inbuf[1].by = cur
        BY <1>2, <3>1 DEF LinesInv, BufferInv
      <4> QED
        BY <1>2, <1>6, <3>1, <4>1
    <3>2. CASE a = Len(line')
      BY <1>2, <1>6, <3>2
    <3> QED
      BY <1>2, <3>1, <3>2
  <2>5. at' # "accept"
    OBVIOUS
  <2> QED
    BY <2>1, <2>2, <2>3, <2>4, <2>5 DEF BufferInv
<1>8. LineInv'
  <2>1. GoodLine(line, cur)'
    BY <1>1, <1>2 DEF LinesStay
  <2>2. IF at' = "getline" THEN ~Ended(line'[Len(line')]) ELSE Ended(line'[Len(line')])
    BY <1>2, <1>3
  <2> QED
    BY <1>2, <1>3, <2>1, <2>2 DEF LineInv
<1>9. RanInv'
  <2>1. ASSUME NEW i \in DOMAIN ran
        PROVE  /\ GoodLine(ran[i].line, ran[i].session)' /\ ran[i].session <= cur
               /\ ran[i].line # <<>> /\ Ended(ran[i].line[Len(ran[i].line)])'
               /\ AllBefore(ran[i].line, inbuf') /\ AllBefore(ran[i].line, line')
    <3>1. /\ GoodLine(ran[i].line, ran[i].session) /\ ran[i].session <= cur
          /\ ran[i].line # <<>> /\ Ended(ran[i].line[Len(ran[i].line)])
          /\ AllBefore(ran[i].line, line) /\ AllBefore(ran[i].line, inbuf)
      BY <1>3 DEF LinesInv, RanInv
    <3>2. AllBefore(ran[i].line, inbuf') /\ AllBefore(ran[i].line, line')
      BY <1>2, <3>1 DEF AllBefore
    <3> QED
      BY <1>1, <1>3, <3>1, <3>2 DEF LinesStay
  <2>2. at' \notin {"run", "wait"}
    OBVIOUS
  <2> QED
    BY <1>3, <2>1, <2>2 DEF LinesInv, RanInv, AllBefore
<1>10. WayInv'
  <2> DEFINE q == PieceOf(cur, Taken(cur))
  <2>1. Taken(cur) = 0 \/ q \in eaten \/ q = inbuf[Len(inbuf)]
    BY <1>2, <1>3 DEF LinesInv, WayInv
  <2>2. ASSUME q = inbuf[Len(inbuf)], inbuf' # <<>> PROVE q = inbuf'[Len(inbuf')]
    <3>1. Len(inbuf') = Len(inbuf) - 1 /\ Len(inbuf') \in DOMAIN inbuf' /\ Len(inbuf') + 1 = Len(inbuf)
      BY <1>2, <1>3, <2>2
    <3> QED
      BY <1>2, <2>2, <3>1
  <2>3. ASSUME q = inbuf[Len(inbuf)], inbuf' = <<>> PROVE q = line'[Len(line')]
    <3>1. Len(inbuf) = 1
      <4>1. DOMAIN inbuf' = {}
        BY <2>3
      <4>2. Len(inbuf) \in Nat \ {0} /\ ~(1 \in 1 .. Len(inbuf) - 1)
        BY <1>2, <4>1
      <4>3. \A k \in Nat \ {0} : ~(1 \in 1 .. k - 1) => k = 1
        OBVIOUS
      <4> QED
        BY ONLY <4>2, <4>3
    <3> QED
      BY <1>2, <2>3, <3>1
  <2> QED
    BY <1>1, <1>2, <1>3, <2>1, <2>2, <2>3 DEF LinesInv, WayInv, IsLast
<1> QED
  BY <1>1, <1>7, <1>8, <1>9, <1>10 DEF LinesInv
\* At the end of the connection getline returns what it has, which may be nothing.
LEMMA EofKeepsLines ==
    ASSUME TypeOK, FunctionsOK, LinesInv, GetEof
    PROVE  LinesInv'
<1>1. /\ UNCHANGED <<script, sent, chan, cur, ran, eaten, inbuf, line, readers>>
      /\ at = "getline" /\ inbuf = <<>> /\ bad' = TRUE /\ at' \in {"prompt", "parse"}
      /\ text' \in Says(line) /\ (at' = "parse" => text' # <<>>)
  BY DEF GetEof, Returns, outside
<1>2. /\ LinesStay /\ OnTheWay' /\ EatenInv'
      /\ \A c \in Clients : Taken(c)' = Taken(c)
  BY <1>1, StillStay DEF LinesInv
<1>3. line = <<>> => text' = <<>>
  BY <1>1 DEF Says
<1>4. ~bad /\ cur \in Clients
  BY <1>1 DEF LinesInv, LineInv, TypeOK
<1>5. BufferInv'
  <2>1. DOMAIN inbuf' = {} /\ inbuf' = <<>>
    BY <1>1
  <2> QED
    BY <2>1 DEF BufferInv, AllBefore
<1>6. LineInv'
  <2>1. GoodLine(line, cur)'
    BY <1>1, <1>2 DEF LinesInv, LineInv, LinesStay
  <2> QED
    BY <1>1, <1>3, <2>1 DEF LineInv, HasLine
<1>7. RanInv'
  <2>1. ASSUME NEW i \in DOMAIN ran
        PROVE  /\ GoodLine(ran[i].line, ran[i].session)' /\ ran[i].session <= cur
               /\ ran[i].line # <<>> /\ AllBefore(ran[i].line, inbuf)
               /\ AllBefore(ran[i].line, line)
    <3>1. /\ GoodLine(ran[i].line, ran[i].session) /\ ran[i].session <= cur
          /\ ran[i].line # <<>> /\ AllBefore(ran[i].line, inbuf)
          /\ AllBefore(ran[i].line, line)
      BY <1>1, <1>4 DEF LinesInv, RanInv
    <3> QED
      BY <1>1, <1>2, <3>1 DEF LinesStay
  <2>2. \A i, j \in DOMAIN ran : i < j => AllBefore(ran[i].line, ran[j].line)
    BY <1>4 DEF LinesInv, RanInv
  <2>3. at' \notin {"run", "wait"}
    BY <1>1
  <2> QED
    BY <1>1, <2>1, <2>2, <2>3 DEF RanInv, AllBefore
<1>8. WayInv'
  <2>1. \A q : IsLast(q)' <=> IsLast(q)
    BY <1>1 DEF IsLast, Ended
  <2> QED
    BY <1>1, <1>2, <1>4, <2>1 DEF LinesInv, WayInv
<1> QED
  BY <1>2, <1>5, <1>6, <1>7, <1>8 DEF LinesInv

\* The line is cleared once it was run or passed over, by getline or for a new session.
LEMMA ClearKeepsLines ==
    ASSUME TypeOK, FunctionsOK, LinesInv,
           UNCHANGED <<script, sent, chan, inbuf, bad, ran, eaten, readers>>,
           line' = <<>>, text' = <<>>,
           \/ at = "prompt" /\ at' = "getline" /\ cur' = cur /\ ~bad
           \/ at = "accept" /\ at' = "prompt" /\ cur' = cur + 1 /\ cur' \in Clients
    PROVE  LinesInv'
<1>1. /\ LinesStay /\ OnTheWay' /\ EatenInv'
      /\ \A c \in Clients : Taken(c)' = Taken(c)
  BY StillStay DEF LinesInv
<1>2. /\ cur \in Nat /\ cur' \in Nat /\ cur <= cur' /\ Clients \subseteq Nat /\ cur' \in Clients
      /\ at' # "accept" /\ ~HasLine'
  BY CurCounted, ClientsCounted DEF HasLine, TypeOK
<1>3. ~bad => \A q : IsLast(q) => IsLast(q)'
  <2>1. ~bad /\ line # <<>> => Ended(line[Len(line)])
    BY DEF LinesInv, LineInv
  <2> QED
    BY <1>1, <2>1 DEF IsLast, LinesStay, PiecesStay
<1>4. bad => inbuf = <<>>
  BY DEF LinesInv, LineInv
<1>5. BufferInv'
  <2>1. ASSUME NEW i \in DOMAIN inbuf
        PROVE  /\ Got(inbuf[i])' /\ Own(inbuf[i], cur)'
               /\ inbuf[i] = PieceOf(inbuf[1].by, inbuf[1].n + (i - 1))
    <3>1. /\ Got(inbuf[i]) /\ Own(inbuf[i], cur)
          /\ inbuf[i] = PieceOf(inbuf[1].by, inbuf[1].n + (i - 1))
          /\ at = "accept" => LeftOver(inbuf[i])
      BY DEF LinesInv, BufferInv
    <3>2. Own(inbuf[i], cur)'
      <4>1. CASE cur' = cur
        BY <1>1, <3>1, <4>1 DEF LinesStay, PiecesStay, Own
      <4>2. CASE cur' = cur + 1 /\ at = "accept"
        <5>1. inbuf[i].by \in Nat
          BY <3>1, TakenTyped DEF LinesInv, Got
        <5>2. inbuf[i].by < cur'
          BY <1>2, <3>1, <4>2, <5>1 DEF Own
        <5> QED
          BY <1>1, <3>1, <4>2, <5>2 DEF LinesStay, PiecesStay, Own
      <4> QED
        BY <4>1, <4>2
    <3> QED
      BY <1>1, <3>1, <3>2 DEF LinesStay, PiecesStay
  <2>2. inbuf # <<>> => ComesNext(inbuf[1])'
    <3>1. inbuf # <<>> => ComesNext(inbuf[1])
      BY DEF LinesInv, BufferInv
    <3> QED
      BY <1>1, <1>3, <1>4, <3>1 DEF LinesStay, PiecesStay, ComesNext
  <2>3. DOMAIN line' = {}
    OBVIOUS
  <2> QED
    BY <1>2, <2>1, <2>2, <2>3 DEF BufferInv, AllBefore
<1>6. LineInv'
  <2>1. GoodLine(line, cur)'
    <3>1. DOMAIN line' = {}
      OBVIOUS
    <3> QED
      BY <3>1 DEF GoodLine
  <2> QED
    BY <1>2, <1>4, <2>1 DEF LineInv
<1>7. RanInv'
  <2>1. ASSUME NEW i \in DOMAIN ran
        PROVE  /\ GoodLine(ran[i].line, ran[i].session)' /\ ran[i].session <= cur'
               /\ ran[i].line # <<>> /\ (bad \/ Ended(ran[i].line[Len(ran[i].line)])')
               /\ AllBefore(ran[i].line, inbuf) /\ AllBefore(ran[i].line, line')
    <3>1. /\ GoodLine(ran[i].line, ran[i].session) /\ ran[i].session <= cur
          /\ ran[i].line # <<>> /\ (bad \/ Ended(ran[i].line[Len(ran[i].line)]))
          /\ AllBefore(ran[i].line, inbuf)
      BY DEF LinesInv, RanInv
    <3>2. ran[i].session <= cur'
      <4>1. ran \in Seq(Entry) /\ ran[i] \in Entry
        BY DEF FunctionsOK
      <4>2. ran[i].session \in Nat
        BY ONLY <4>1 DEF Entry
      <4> QED
        BY <1>2, <3>1, <4>2
    <3>3. AllBefore(ran[i].line, line')
      BY DEF AllBefore
    <3> QED
      BY <1>1, <3>1, <3>2, <3>3 DEF LinesStay, PiecesStay
  <2>2. at' \notin {"run", "wait"}
    OBVIOUS
  <2> QED
    BY <2>1, <2>2 DEF LinesInv, RanInv, AllBefore
<1>8. WayInv'
  <2>1. \A r \in readers : r[1] <= cur'
    <3>1. \A r \in readers : r[1] <= cur
      BY DEF LinesInv, WayInv
    <3>2. readers \subseteq Clients \X BOOLEAN
      BY DEF TypeOK
    <3>3. \A r \in readers : r[1] \in Nat
      BY <1>2, <3>2
    <3> QED
      BY ONLY <1>2, <3>1, <3>3
  <2>2. \A d \in Clients : d > cur' => d > cur
    BY <1>2
  <2>3. CASE cur' = cur /\ at = "prompt" /\ ~bad
    BY <1>1, <1>2, <1>3, <2>1, <2>2, <2>3 DEF LinesInv, WayInv, Taken
  <2>4. CASE cur' = cur + 1
    <3>1. cur' > cur
      BY <1>2, <2>4
    <3>2. Taken(cur') = 0
      BY <1>2, <3>1 DEF LinesInv, WayInv
    <3> QED
      BY <1>1, <1>2, <2>1, <2>2, <3>2 DEF LinesInv, WayInv
  <2> QED
    BY <2>3, <2>4
<1> QED
  BY <1>1, <1>5, <1>6, <1>7, <1>8 DEF LinesInv

\* A line is run: it comes after those run before, unless it is the last one again.
LEMMA ParseKeepsLines ==
    ASSUME TypeOK, FunctionsOK, LinesInv, Parse, at' = "run"
    PROVE  LinesInv'
<1> DEFINE e == [line |-> line, text |-> text, session |-> cur]
<1>0. PICK n : n = Len(ran) + 1
  OBVIOUS
<1>1. /\ UNCHANGED <<script, sent, chan, inbuf, cur, bad, line, text, eaten, readers>>
      /\ at = "parse" /\ ran' = Append(ran, e)
  BY DEF Parse, Killed, outside
<1>2. /\ DOMAIN ran' = DOMAIN ran \cup {n} /\ ran'[n] = e /\ n \in Nat
      /\ \A i \in DOMAIN ran : ran'[i] = ran[i] /\ i \in Nat /\ i < n
  <2>1. ran \in Seq(Entry) /\ Len(ran) \in Nat /\ DOMAIN ran = 1 .. Len(ran)
    BY DEF FunctionsOK
  <2>2. e \in Entry
    <3>1. cur \in Nat /\ line \in Seq(Sent) /\ text \in Seq(ShellCommand)
      BY CurCounted DEF TypeOK
    <3> QED
      BY ONLY <3>1 DEF Entry
  <2> HIDE DEF e
  <2> QED
    BY <1>1, <1>0, <2>1, <2>2
<1>3. OnTheWay' /\ \A d \in Clients : Taken(d)' = Taken(d) /\ Taken(d)' \in Int
  <2>1. \A d \in Clients : sent[d] \in Nat /\ Len(chan[d]) \in Nat
    BY DEF FunctionsOK
  <2> QED
    BY <1>1, <2>1 DEF LinesInv, OnTheWay, Taken
<1>4. LinesStay
  <2>1. \A i \in DOMAIN ran : i \in DOMAIN ran' /\ ran'[i] = ran[i]
    BY <1>2
  <2>2. \A d \in Clients : Taken(d)' \in Int /\ Taken(d) <= Taken(d)'
    BY <1>3
  <2> HIDE DEF e
  <2> QED
    BY <1>1, <2>1, <2>2, StayTaken DEF LinesInv
<1>5. \A q : IsLast(q)' <=> IsLast(q)
  BY <1>1 DEF IsLast, Ended
<1>6. EatenInv'
  BY <1>1, <1>4 DEF LinesInv, LinesStay, PiecesStay, EatenInv
<1>7. HasLine /\ HasLine' /\ line # <<>> /\ cur \in Clients
  BY <1>1 DEF HasLine, LinesInv, LineInv, TypeOK
<1>8. BufferInv'
  <2>1. ASSUME NEW i \in DOMAIN inbuf
        PROVE  /\ Got(inbuf[i])' /\ Own(inbuf[i], cur)'
               /\ inbuf[i] = PieceOf(inbuf[1].by, inbuf[1].n + (i - 1))
    <3>1. /\ Got(inbuf[i]) /\ Own(inbuf[i], cur)
          /\ inbuf[i] = PieceOf(inbuf[1].by, inbuf[1].n + (i - 1))
      BY DEF LinesInv, BufferInv
    <3> QED
      BY <1>1, <1>4, <3>1 DEF LinesStay, PiecesStay, Own
  <2>2. inbuf # <<>> => ComesNext(inbuf[1])'
    <3>1. inbuf # <<>> => ComesNext(inbuf[1])
      BY DEF LinesInv, BufferInv
    <3> QED
      BY <1>1, <1>4, <1>5, <3>1 DEF LinesStay, PiecesStay, ComesNext
  <2>3. \A a \in DOMAIN line, i \in DOMAIN inbuf :
            /\ line[a].by = inbuf[i].by \/ inbuf[i].by = cur
            /\ a = Len(line) => line[a].by = inbuf[i].by
    BY <1>7 DEF LinesInv, BufferInv
  <2>4. AllBefore(line, inbuf) /\ at' # "accept"
    BY DEF LinesInv, BufferInv
  <2> QED
    BY <1>1, <2>1, <2>2, <2>3, <2>4 DEF BufferInv, AllBefore
<1>9. LineInv'
  <2>1. GoodLine(line, cur)' /\ \A q : Ended(q)' <=> Ended(q)
    BY <1>1, <1>4 DEF LinesInv, LineInv, LinesStay, PiecesStay
  <2> QED
    BY <1>1, <2>1 DEF LinesInv, LineInv, HasLine
<1>10. RanInv'
  <2>1. ASSUME NEW i \in DOMAIN ran
        PROVE  /\ GoodLine(ran[i].line, ran[i].session)' /\ ran'[i].session <= cur
               /\ ran'[i].line # <<>> /\ (bad \/ Ended(ran[i].line[Len(ran[i].line)])')
               /\ AllBefore(ran'[i].line, inbuf)
               /\ AllBefore(ran'[i].line, line) \/ (bad /\ ran'[i].line = line)
    <3>1. /\ GoodLine(ran[i].line, ran[i].session) /\ ran[i].session <= cur
          /\ ran[i].line # <<>> /\ (bad \/ Ended(ran[i].line[Len(ran[i].line)]))
          /\ AllBefore(ran[i].line, inbuf)
          /\ AllBefore(ran[i].line, line) \/ (bad /\ ran[i].line = line)
      BY <1>1 DEF LinesInv, RanInv
    <3>2. ran'[i] = ran[i]
      BY <1>2
    <3> QED
      BY <1>4, <3>1, <3>2 DEF LinesStay, PiecesStay
  <2>2. /\ GoodLine(ran[n].line, ran[n].session)' /\ ran'[n].session <= cur
        /\ ran'[n].line # <<>> /\ (bad \/ Ended(ran[n].line[Len(ran[n].line)])')
        /\ AllBefore(ran'[n].line, inbuf) /\ ran'[n].line = line
    <3>1. /\ GoodLine(line, cur) /\ (bad \/ Ended(line[Len(line)])) /\ AllBefore(line, inbuf)
          /\ cur <= cur
      BY <1>1, <1>7, CurCounted DEF LinesInv, LineInv, BufferInv
    <3>2. ran'[n].line = line /\ ran'[n].session = cur
      BY <1>2
    <3> QED
      BY <1>4, <1>7, <3>1, <3>2 DEF LinesStay, PiecesStay
  <2>3. ASSUME NEW i \in DOMAIN ran', NEW j \in DOMAIN ran', i < j
        PROVE  AllBefore(ran'[i].line, ran'[j].line) \/ (bad /\ ran'[i].line = ran'[j].line)
    <3>1. CASE j = n
      <4>1. i \in DOMAIN ran
        BY <1>2, <2>3, <3>1
      <4> QED
        BY <2>1, <2>2, <3>1, <4>1
    <3>2. CASE j # n
      <4>1. i \in DOMAIN ran /\ j \in DOMAIN ran /\ ran'[i] = ran[i] /\ ran'[j] = ran[j]
        BY <1>2, <2>3, <3>2
      <4> QED
        BY <2>3, <4>1 DEF LinesInv, RanInv
    <3> QED
      BY <3>1, <3>2
  <2>4. ASSUME NEW i \in DOMAIN ran'
        PROVE  /\ GoodLine(ran[i].line, ran[i].session)' /\ ran'[i].session <= cur
               /\ ran'[i].line # <<>> /\ (bad \/ Ended(ran[i].line[Len(ran[i].line)])')
               /\ AllBefore(ran'[i].line, inbuf)
               /\ bad => AllBefore(ran'[i].line, line) \/ (bad /\ ran'[i].line = line)
    <3>1. CASE i = n
      BY <2>2, <3>1
    <3>2. CASE i # n
      BY <1>2, <2>1, <3>2
    <3> QED
      BY <3>1, <3>2
  <2>5. n \in DOMAIN ran' /\ ran'[n] = [line |-> line', text |-> text', session |-> cur']
    BY <1>1, <1>2
  <2>6. at' \notin {"getline", "parse"}
    OBVIOUS
  <2> HIDE DEF e
  <2> QED
    BY <1>1, <2>3, <2>4, <2>5, <2>6 DEF RanInv, AllBefore
<1>11. WayInv'
  BY <1>1, <1>3, <1>5, <1>7 DEF LinesInv, WayInv
<1> QED
  BY <1>3, <1>6, <1>8, <1>9, <1>10, <1>11 DEF LinesInv

\* The commands of a line are taken from its front.
LEMMA PackMoves ==
    ASSUME TypeOK, pack # <<>>
    PROVE  /\ Tail(pack) \in Seq(ShellCommand) /\ 1 \in DOMAIN pack
           /\ Head(pack) = pack[1]
           /\ \A i \in DOMAIN Tail(pack) : i + 1 \in DOMAIN pack /\ Tail(pack)[i] = pack[i + 1]
           /\ \A i \in DOMAIN pack : i = 1 \/ (i - 1 \in DOMAIN Tail(pack)
                                               /\ Tail(pack)[i - 1] = pack[i])
BY DEF TypeOK

\* Every step keeps the account of the lines.
LEMMA NextKeepsLines ==
    ASSUME TypeOK, FunctionsOK, LinesInv, PackInv, Next
    PROVE  LinesInv'
<1> DEFINE still == UNCHANGED <<script, sent, chan, eaten, inbuf, cur, bad, line, text, ran>>
<1>1. \A r \in readers : r[1] <= cur
  BY DEF LinesInv, WayInv
<1>2. CASE \E c \in Clients : Connect(c) \/ SendPiece(c) \/ HangUp(c) \/ Reader(c)
  <2> PICK c \in Clients : Connect(c) \/ SendPiece(c) \/ HangUp(c) \/ Reader(c)
    BY <1>2
  <2>1. CASE Connect(c) \/ HangUp(c) \/ ReaderEnds(c)
    <3>1. still /\ at' = at /\ readers' \subseteq readers
      BY <2>1 DEF Connect, HangUp, ReaderEnds, server, shell, outside
    <3>2. \A r \in readers' : r[1] <= cur
      BY <1>1, <3>1
    <3> QED
      BY <3>1, <3>2, UnmovedKeepsLines DEF HasLine
  <2> QED
    BY <2>1, SendKeepsLines, ReadKeepsLines DEF Reader
<1>3. CASE Fill \/ GetEof
  BY <1>3, FillKeepsLines, EofKeepsLines
<1>4. CASE GetPiece \/ GetLine
  <2>1. /\ UNCHANGED <<script, sent, chan, eaten, cur, bad, ran, readers>>
        /\ at = "getline" /\ TakePiece
        /\ \/ at' = "getline" /\ ~Ended(Head(inbuf))
           \/ at' \in {"prompt", "parse"} /\ Ended(Head(inbuf))
    BY <1>4 DEF GetPiece, GetLine, Returns, outside
  <2> QED
    BY <2>1, TakeKeepsLines
<1>5. CASE Accept
  <2>1. /\ UNCHANGED <<script, sent, chan, inbuf, bad, ran, eaten, readers>>
        /\ line' = <<>> /\ text' = <<>>
        /\ at = "accept" /\ at' = "prompt" /\ cur' = cur + 1 /\ cur' \in Clients
    BY <1>5 DEF Accept, outside
  <2> QED
    BY <2>1, ClearKeepsLines
<1>6. ASSUME still, readers' = readers, at # "accept", at # "getline",
             at' \in {"prompt", "run", "wait", "dead"},
             at' \in {"run", "wait"} => at \in {"run", "wait"}
      PROVE  LinesInv'
  BY <1>1, <1>6, UnmovedKeepsLines DEF HasLine
<1>7. CASE Parse
  <2>1. CASE at' = "run"
    BY <1>7, <2>1, ParseKeepsLines
  <2>2. CASE at' # "run"
    <3>1. still /\ at = "parse" /\ at' = "dead" /\ readers' = readers
      BY <1>7, <2>2 DEF Parse, Killed, outside, shell
    <3> QED
      BY <1>6, <3>1
  <2> QED
    BY <2>1, <2>2
<1>8. CASE Prompt
  <2>1. CASE at' = "getline"
    <3>1. /\ UNCHANGED <<script, sent, chan, inbuf, bad, ran, eaten, readers>>
          /\ line' = <<>> /\ text' = <<>> /\ at = "prompt" /\ cur' = cur /\ ~bad
      BY <1>8, <2>1 DEF Prompt, Killed, outside
    <3> QED
      BY <2>1, <3>1, ClearKeepsLines
  <2>2. CASE at' # "getline"
    <3>1. still /\ at = "prompt" /\ at' = "dead" /\ readers' = readers
      BY <1>8, <2>2 DEF Prompt, Killed, outside, shell
    <3> QED
      BY <1>6, <3>1
  <2> QED
    BY <2>1, <2>2
<1>9. CASE Spin \/ LineAgain
  <2>1. still /\ at = "prompt" /\ at' \in {"dead", "prompt", "parse"} /\ readers' = readers
        /\ (at' = "parse" => bad /\ text # <<>>)
    BY <1>9 DEF Spin, LineAgain, Killed, outside, shell
  <2>2. text # <<>> => line # <<>>
    BY DEF LinesInv, LineInv
  <2> QED
    BY <1>1, <2>1, <2>2, UnmovedKeepsLines DEF HasLine
<1>10. CASE printenv \/ setenv \/ exit \/ NoWord
  <2>1. still /\ at = "run" /\ at' \in {"dead", "run"} /\ readers' = readers
    BY <1>10 DEF printenv, setenv, exit, NoWord, Killed, Running, NextCommand, outside, shell
  <2> QED
    BY <1>6, <2>1
<1>11. CASE Wait \/ EndOfLine
  <2>1. /\ still /\ at \in {"run", "wait"} /\ at' \in {"run", "wait", "prompt"}
        /\ readers' = readers
    BY <1>11 DEF Wait, EndOfLine, outside, shell
  <2> QED
    BY <1>6, <2>1
<1>12. CASE Launch
  <2>1. /\ still /\ at = "run" /\ at' \in {"run", "wait"}
        /\ readers' \subseteq readers \cup {<<cur, Foreground>>}
    BY <1>12 DEF Launch, NextCommand, outside
  <2>2. \A r \in readers' : r[1] <= cur
    <3>1. cur <= cur
      BY CurCounted
    <3> QED
      BY <1>1, <2>1, <3>1
  <2> QED
    BY <2>1, <2>2, UnmovedKeepsLines DEF HasLine
<1>13. CASE EndOfSession
  <2>1. still /\ at = "run" /\ exit_flag /\ at' = "accept" /\ readers' = readers
    BY <1>13 DEF EndOfSession, outside
  <2>2. Has(text, "exit") /\ HasLine /\ line # <<>>
    BY <2>1 DEF PackInv, HasLine, LinesInv, LineInv
  <2>3. PICK k \in DOMAIN ran : ran[k] = [line |-> line, text |-> text, session |-> cur]
    BY <2>1 DEF LinesInv, RanInv
  <2>4. ran[k].line = line /\ ran[k].text = text /\ ran[k].session = cur
    BY <2>3
  <2>5. PICK a \in DOMAIN line : a = Len(line)
    <3>1. line \in Seq(Sent)
      BY DEF TypeOK
    <3> QED
      BY <2>2, <3>1
  <2>6. ASSUME NEW i \in DOMAIN inbuf PROVE LeftOver(inbuf[i])
    <3>1. /\ Own(inbuf[i], cur) /\ line[a].by = inbuf[i].by /\ Before(line[a], inbuf[i])
      BY <2>2, <2>5 DEF LinesInv, BufferInv, AllBefore
    <3>2. CASE inbuf[i].by = cur
      BY <2>2, <2>4, <3>1, <3>2 DEF LeftOver
    <3> QED
      BY <3>1, <3>2 DEF Own
  <2> QED
    BY <1>1, <2>1, <2>6, UnmovedKeepsLines DEF HasLine
<1> QED
  BY <1>2, <1>3, <1>4, <1>5, <1>7, <1>8, <1>9, <1>10, <1>11, <1>12, <1>13 DEF Next, Server

-----------------------------------------------------------------------------
(* Types.                                                                  *)

\* What is printed.
LEMMA ItemsTyped ==
    ASSUME TypeOK
    PROVE  /\ Value \in Item /\ Banner(cur) \in Item /\ cur \in Nat /\ cmd_no \in Nat \ {0}
           /\ cmd_no + 1 \in Nat \ {0} /\ environ \in Nat
<1>1. cur \in Nat /\ text \in Seq(ShellCommand) /\ cmd_no \in Nat \ {0} /\ <<>> \in Seq(ShellCommand)
  BY ClientsCounted DEF TypeOK
<1>2. environ \in 0 .. cur
  BY DEF TypeOK
<1> QED
  BY <1>1, <1>2 DEF Value, Banner, Item

LEMMA FlushTyped ==
    ASSUME TypeOK, FunctionsOK, cur \in Clients, NEW items \in Seq(Item), Flush(items)
    PROVE  /\ seen' \in [Clients -> Seq(Item)] /\ outbuf' \in Seq(Item)
           /\ \A d \in Clients : d # cur => seen'[d] = seen[d]
           /\ seen'[cur] = seen[cur] \/ seen'[cur] = seen[cur] \o items
<1>1. seen[cur] \o items \in Seq(Item)
  BY DEF FunctionsOK
<1>2. <<>> \in Seq(Item)
  OBVIOUS
<1> QED
  BY <1>1, <1>2 DEF Flush, FunctionsOK

\* The variables of the clients.
ClientTypes ==
    /\ script \in [Clients -> Scripts] /\ tty \in BOOLEAN
    /\ client \in [Clients -> {"away", "open", "shut", "left"}]
    /\ \A c \in Clients : sent[c] \in 0 .. Len(script[c]) /\ chan[c] \in Seq(Sent)
    /\ sent \in [Clients -> Nat] /\ chan \in [Clients -> Seq(Sent)]

LEMMA SentTyped ==
    ASSUME TypeOK, FunctionsOK, NEW c \in Clients, Connect(c) \/ SendPiece(c) \/ HangUp(c)
    PROVE  ClientTypes'
<1>1. CASE Connect(c) \/ HangUp(c)
  <2>1. UNCHANGED <<script, tty, sent, chan>>
    BY <1>1 DEF Connect, HangUp
  <2>2. client' \in [Clients -> {"away", "open", "shut", "left"}]
    BY <1>1 DEF Connect, HangUp, TypeOK
  <2> QED
    BY <2>1, <2>2 DEF ClientTypes, TypeOK, FunctionsOK
<1>2. CASE SendPiece(c)
  <2>1. /\ UNCHANGED <<script, tty, client>> /\ sent' = [sent EXCEPT ![c] = sent[c] + 1]
        /\ chan' = [chan EXCEPT ![c] = Append(chan[c], PieceOf(c, sent'[c]))]
        /\ sent[c] < Len(script[c]) /\ sent[c] \in Nat /\ Len(script[c]) \in Nat
    <3>1. script[c] \in Scripts
      BY DEF TypeOK
    <3>2. Len(script[c]) \in Nat
      BY <3>1, SimpleAssumption
    <3> QED
      BY <1>2, <3>2 DEF SendPiece, FunctionsOK
  <2>2. sent' \in [Clients -> Nat] /\ sent'[c] = sent[c] + 1
    BY <2>1 DEF FunctionsOK
  <2>3. PieceOf(c, sent'[c]) \in Sent
    BY <2>1, <2>2 DEF PieceOf, Sent
  <2>4. chan' \in [Clients -> Seq(Sent)]
    BY <2>1, <2>3 DEF FunctionsOK
  <2>5. sent[c] + 1 \in 0 .. Len(script[c])
    BY <2>1
  <2>6. \A d \in Clients : sent'[d] \in 0 .. Len(script[d])
    BY <2>1, <2>5 DEF FunctionsOK, TypeOK
  <2> QED
    BY <2>1, <2>2, <2>4, <2>6 DEF ClientTypes, TypeOK
<1> QED
  BY <1>1, <1>2

\* Lines are taken off the way.
LEMMA WayTyped ==
    ASSUME TypeOK, FunctionsOK, NEW c \in Clients, NEW n \in 1 .. Len(chan[c]),
           chan' = [chan EXCEPT ![c] = SubSeq(@, n + 1, Len(@))],
           UNCHANGED <<script, tty, client, sent>>
    PROVE  /\ ClientTypes' /\ SubSeq(chan[c], 1, n) \in Seq(Sent)
           /\ \A i \in 1 .. n : chan[c][i] \in Sent
<1>1. chan[c] \in Seq(Sent) /\ Len(chan[c]) \in Nat /\ n \in Nat \ {0} /\ n <= Len(chan[c])
  BY DEF FunctionsOK
<1>2. SubSeq(chan[c], n + 1, Len(chan[c])) \in Seq(Sent) /\ SubSeq(chan[c], 1, n) \in Seq(Sent)
  BY <1>1
<1>3. chan' \in [Clients -> Seq(Sent)]
  BY <1>2 DEF FunctionsOK
<1>4. \A i \in 1 .. n : chan[c][i] \in Sent
  BY <1>1
<1> QED
  BY <1>2, <1>3, <1>4 DEF ClientTypes, TypeOK, FunctionsOK

\* The variables of the server and its children.
ServerTypes ==
    /\ at \in {"accept", "prompt", "getline", "parse", "run", "wait", "dead"}
    /\ cur \in Clients \cup {0} /\ (at # "accept" => cur # 0)
    /\ inbuf \in Seq(Sent) /\ bad \in BOOLEAN /\ line \in Seq(Sent)
    /\ text \in Seq(ShellCommand) /\ pack \in Seq(ShellCommand)
    /\ (at \in {"accept", "prompt"} => pack = <<>> /\ ~exit_flag)
    /\ environ \in 0 .. cur /\ cmd_no \in Nat \ {0} /\ table \subseteq Nat
    /\ readers \subseteq Clients \X BOOLEAN /\ eaten \subseteq Sent
    /\ seen \in [Clients -> Seq(Item)] /\ outbuf \in Seq(Item) /\ ran \in Seq(Entry)

LEMMA TypesSplit ==
    /\ TypeOK /\ FunctionsOK <=> ClientTypes /\ ServerTypes
    /\ (TypeOK /\ FunctionsOK)' <=> ClientTypes' /\ ServerTypes'
BY DEF TypeOK, FunctionsOK, ClientTypes, ServerTypes

\* What a line says are commands.
LEMMA SaysTyped ==
    ASSUME TypeOK, FunctionsOK, OnTheWay, NEW l \in Seq(Sent), NEW s, GoodLine(l, s)
    PROVE  Says(l) \subseteq Seq(ShellCommand)
<1>1. CASE ~Whole(l)
  <2>1. Broken \subseteq Seq(ShellCommand) /\ <<>> \in Seq(ShellCommand)
    BY SimpleAssumption
  <2> QED
    BY ONLY <1>1, <2>1 DEF Says
<1>2. CASE Whole(l)
  <2>1. l # <<>> /\ Len(l) \in DOMAIN l /\ 1 \in DOMAIN l
    BY <1>2 DEF Whole
  <2>2. PICK q : q = l[Len(l)]
    OBVIOUS
  <2>3. q.by = l[1].by
    BY <1>2, <2>1, <2>2 DEF Whole, PieceOf
  <2>4. IsTaken(q)
    BY <2>1, <2>2 DEF GoodLine, Got
  <2>5. q.by \in Clients /\ q.n \in Nat \ {0} /\ q.n <= Taken(q.by)
    BY <2>4, TakenTyped
  <2>6. /\ Len(chan[q.by]) \in Nat /\ sent[q.by] \in 0 .. Len(script[q.by])
        /\ script[q.by] \in Seq(ScriptPiece)
    <3>1. sent[q.by] \in 0 .. Len(script[q.by]) /\ script[q.by] \in Scripts
      BY <2>5 DEF TypeOK
    <3>2. Len(chan[q.by]) \in Nat
      BY <2>5 DEF FunctionsOK
    <3> QED
      BY <3>1, <3>2, SimpleAssumption
  <2>7. q.n \in 1 .. Len(script[q.by])
    BY <2>5, <2>6 DEF Taken
  <2>8. script[q.by][q.n] \in ScriptPiece
    BY <2>6, <2>7
  <2>9. script[q.by][q.n].cmds \in Seq(ShellCommand)
    BY ONLY <2>8 DEF ScriptPiece
  <2> QED
    BY <1>2, <2>1, <2>2, <2>3, <2>9 DEF Says
<1> QED
  BY <1>1, <1>2

\* Every step keeps the types.
LEMMA NextKeepsTypes ==
    ASSUME TypeOK, FunctionsOK, LinesInv, PackInv, Next
    PROVE  TypeOK' /\ FunctionsOK'
<1>1. ClientTypes /\ ServerTypes
  BY TypesSplit
<1>2. SUFFICES ClientTypes' /\ ServerTypes'
  BY TypesSplit
<1>3. at # "accept" => cur \in Clients
  BY DEF TypeOK
<1>4. UNCHANGED <<outside, chan>> => ClientTypes'
  BY <1>1 DEF outside, ClientTypes
<1>5. CASE \E c \in Clients : Connect(c) \/ SendPiece(c) \/ HangUp(c) \/ Reader(c)
  <2> PICK c \in Clients : Connect(c) \/ SendPiece(c) \/ HangUp(c) \/ Reader(c)
    BY <1>5
  <2>1. CASE Connect(c) \/ SendPiece(c) \/ HangUp(c)
    <3>1. ClientTypes'
      BY <2>1, SentTyped
    <3>2. UNCHANGED <<server, readers, seen, ran, eaten>>
      BY <2>1 DEF Connect, SendPiece, HangUp
    <3> QED
      BY <1>1, <3>1, <3>2 DEF server, shell, ServerTypes
  <2>2. CASE ReaderReads(c)
    <3>1. PICK n \in 1 .. Len(chan[c]) :
              /\ eaten' = eaten \cup {chan[c][i] : i \in 1 .. n}
              /\ chan' = [chan EXCEPT ![c] = SubSeq(@, n + 1, Len(@))]
      BY <2>2 DEF ReaderReads
    <3>2. UNCHANGED <<outside, server, readers, seen, ran>>
      BY <2>2 DEF ReaderReads
    <3>3. ClientTypes' /\ \A i \in 1 .. n : chan[c][i] \in Sent
      BY <3>1, <3>2, WayTyped DEF outside
    <3>4. eaten' \subseteq Sent
      BY <1>1, <3>1, <3>3 DEF ServerTypes
    <3> QED
      BY <1>1, <3>2, <3>3, <3>4 DEF server, shell, ServerTypes
  <2>3. CASE ReaderEnds(c)
    <3>1. UNCHANGED <<outside, chan, server, seen, ran, eaten>> /\ readers' \subseteq readers
      BY <2>3 DEF ReaderEnds
    <3> QED
      BY <1>1, <1>4, <3>1 DEF server, shell, ServerTypes
  <2> QED
    BY <2>1, <2>2, <2>3 DEF Reader
<1>6. CASE Accept
  <2>1. /\ UNCHANGED <<outside, chan, inbuf, bad, pack, exit_flag, environ, outbuf, readers,
                       seen, ran, eaten>>
        /\ at = "accept" /\ at' = "prompt" /\ cur' = cur + 1 /\ cur' \in Clients
        /\ line' = <<>> /\ text' = <<>> /\ cmd_no' = 1 /\ table' = {}
    BY <1>6 DEF Accept
  <2>2. environ' \in 0 .. cur' /\ cur' # 0
    BY <1>1, <2>1, ItemsTyped, ClientsCounted DEF ServerTypes
  <2> QED
    BY <1>1, <1>4, <2>1, <2>2 DEF ServerTypes
<1>7. CASE Prompt \/ Spin
  <2>1. /\ UNCHANGED <<outside, chan, cur, inbuf, bad, pack, exit_flag, environ, cmd_no, table,
                       readers, ran, eaten>>
        /\ at = "prompt" /\ at' \in {"prompt", "getline", "dead"}
        /\ (UNCHANGED <<line, text>> \/ (line' = <<>> /\ text' = <<>>))
        /\ (UNCHANGED <<seen, outbuf>> \/ Flush(outbuf))
    BY <1>7 DEF Prompt, Spin, Killed, shell
  <2>2. seen' \in [Clients -> Seq(Item)] /\ outbuf' \in Seq(Item)
    BY <1>1, <1>3, <2>1, FlushTyped DEF ServerTypes
  <2>3. line' \in Seq(Sent) /\ text' \in Seq(ShellCommand)
    <3>1. line \in Seq(Sent) /\ text \in Seq(ShellCommand)
      BY <1>1 DEF ServerTypes
    <3>2. <<>> \in Seq(Sent) /\ <<>> \in Seq(ShellCommand)
      OBVIOUS
    <3> QED
      BY ONLY <2>1, <3>1, <3>2
  <2> QED
    BY <1>1, <1>4, <2>1, <2>2, <2>3 DEF ServerTypes
<1>8. CASE LineAgain \/ NoWord \/ Wait \/ EndOfLine
  <2>1. /\ UNCHANGED <<outside, chan, cur, inbuf, bad, shell, outbuf, readers, seen, ran, eaten>>
        /\ at # "accept" /\ at' \in {"parse", "dead", "run", "prompt"}
        /\ (at' = "prompt" => pack = <<>> /\ ~exit_flag)
    BY <1>8 DEF LineAgain, NoWord, Wait, EndOfLine, Running
  <2> QED
    BY <1>1, <1>4, <2>1 DEF shell, ServerTypes
<1>9. CASE GetPiece \/ GetLine \/ GetEof
  <2>1. /\ UNCHANGED <<outside, chan, cur, pack, exit_flag, environ, cmd_no, table, outbuf,
                       readers, seen, ran, eaten>>
        /\ at = "getline" /\ at' \in {"getline", "prompt", "parse"}
        /\ bad' = bad \/ bad' = TRUE
        /\ TakePiece \/ UNCHANGED <<inbuf, line>>
        /\ text' = text \/ text' \in Says(line')
    BY <1>9 DEF GetPiece, GetLine, GetEof, Returns
  <2>2. inbuf' \in Seq(Sent) /\ line' \in Seq(Sent)
    <3>1. CASE TakePiece
      <4>1. Head(inbuf) \in Sent /\ Tail(inbuf) \in Seq(Sent)
        BY <1>1, <3>1 DEF TakePiece, ServerTypes
      <4> QED
        BY <1>1, <3>1, <4>1 DEF TakePiece, ServerTypes
    <3>2. CASE UNCHANGED <<inbuf, line>>
      BY <1>1, <3>2 DEF ServerTypes
    <3> QED
      BY <2>1, <3>1, <3>2
  <2>3. text' \in Seq(ShellCommand)
    <3>1. GoodLine(line', cur)
      <4>1. CASE TakePiece
        <5>1. LinesStay
          BY <2>1, StillStay DEF LinesInv, outside
        <5> QED
          BY <2>1, <4>1, <5>1, PieceJoins
      <4>2. CASE UNCHANGED <<inbuf, line>>
        BY <4>2 DEF LinesInv, LineInv
      <4> QED
        BY <2>1, <4>1, <4>2
    <3>2. Says(line') \subseteq Seq(ShellCommand)
      BY <2>2, <3>1, SaysTyped DEF LinesInv
    <3>3. text \in Seq(ShellCommand)
      BY <1>1 DEF ServerTypes
    <3> QED
      BY ONLY <2>1, <3>2, <3>3
  <2>4. pack = <<>> /\ ~exit_flag
    BY <2>1 DEF PackInv
  <2> QED
    BY <1>1, <1>3, <1>4, <2>1, <2>2, <2>3, <2>4 DEF ServerTypes
<1>10. CASE Fill
  <2>1. PICK n \in 1 .. Len(chan[cur]) :
            /\ inbuf' = SubSeq(chan[cur], 1, n)
            /\ chan' = [chan EXCEPT ![cur] = SubSeq(@, n + 1, Len(@))]
    BY <1>10 DEF Fill
  <2>2. /\ UNCHANGED <<outside, at, cur, bad, shell, outbuf, readers, seen, ran, eaten>>
        /\ cur \in Clients
    BY <1>3, <1>10 DEF Fill
  <2>3. ClientTypes' /\ SubSeq(chan[cur], 1, n) \in Seq(Sent)
    BY <2>1, <2>2, WayTyped DEF outside
  <2>4. inbuf' \in Seq(Sent)
    BY <2>1, <2>3
  <2> QED
    BY <1>1, <2>2, <2>3, <2>4 DEF shell, ServerTypes
<1>12. CASE Parse
  <2>1. /\ UNCHANGED <<outside, chan, cur, inbuf, bad, line, text, exit_flag, environ,
                       cmd_no, table, readers, eaten>>
        /\ at = "parse"
    BY <1>12 DEF Parse, Killed, shell
  <2>2. CASE at' = "dead" /\ UNCHANGED <<shell, outbuf, seen, ran>>
    BY <1>1, <1>4, <2>1, <2>2 DEF shell, ServerTypes
  <2>3. CASE /\ Flush(outbuf) /\ at' = "run" /\ pack' = text
             /\ ran' = Append(ran, [line |-> line, text |-> text, session |-> cur])
    <3>1. seen' \in [Clients -> Seq(Item)] /\ outbuf' \in Seq(Item)
      BY <1>1, <1>3, <2>1, <2>3, FlushTyped DEF ServerTypes
    <3>3. pack' \in Seq(ShellCommand)
      BY <1>1, <2>3 DEF ServerTypes
    <3>4. [line |-> line, text |-> text, session |-> cur] \in Entry
      <4>1. line \in Seq(Sent) /\ text \in Seq(ShellCommand) /\ cur \in Nat
        BY <1>1, ItemsTyped DEF ServerTypes
      <4> QED
        BY ONLY <4>1 DEF Entry
    <3>5. ran' \in Seq(Entry)
      BY <1>1, <2>3, <3>4 DEF ServerTypes
    <3> QED
      BY <1>1, <1>4, <2>1, <2>3, <3>1, <3>3, <3>5 DEF ServerTypes
  <2> QED
    BY <1>12, <2>2, <2>3 DEF Parse, Killed
<1>13. CASE printenv
  <2>1. /\ UNCHANGED <<outside, chan, cur, inbuf, bad, line, text, exit_flag, environ, table,
                       readers, ran, eaten>>
        /\ at = "run" /\ pack # <<>>
    BY <1>13 DEF printenv, Killed, Running, shell
  <2>2. PICK items \in {<<>>, <<Value>>} :
            \/ Killed
            \/ /\ Flush(outbuf \o items) \/ (outbuf' = outbuf \o items /\ UNCHANGED seen)
               /\ NextCommand /\ UNCHANGED at
    BY <1>13 DEF printenv
  <2>3. items \in Seq(Item) /\ outbuf \o items \in Seq(Item)
    <3>1. items \in Seq(Item)
      <4>1. <<Value>> \in Seq(Item)
        <5>1. Value \in Item
          BY ItemsTyped
        <5> QED
          BY ONLY <5>1
      <4>2. <<>> \in Seq(Item)
        OBVIOUS
      <4>3. items = <<>> \/ items = <<Value>>
        OBVIOUS
      <4> QED
        BY <4>1, <4>2, <4>3
    <3>2. outbuf \in Seq(Item)
      BY <1>1 DEF ServerTypes
    <3> HIDE <2>2
    <3> QED
      BY <3>1, <3>2, ConcatProperties
  <2>4. CASE Killed
    BY <1>1, <1>4, <2>1, <2>4 DEF Killed, shell, ServerTypes
  <2>5. CASE NextCommand /\ UNCHANGED at
    <3>1. seen' \in [Clients -> Seq(Item)] /\ outbuf' \in Seq(Item)
      <4>1. CASE Flush(outbuf \o items)
        BY <1>3, <2>1, <2>3, <4>1, FlushTyped
      <4>2. CASE UNCHANGED <<seen, outbuf>> \/ (outbuf' = outbuf \o items /\ UNCHANGED seen)
        BY <1>1, <2>3, <4>2 DEF ServerTypes
      <4> QED
        BY <2>2, <4>1, <4>2 DEF Killed
    <3>2. pack' \in Seq(ShellCommand) /\ cmd_no' \in Nat \ {0}
      BY <2>1, <2>5, PackMoves, ItemsTyped DEF NextCommand
    <3> QED
      BY <1>1, <1>4, <2>1, <2>5, <3>1, <3>2 DEF ServerTypes
  <2> QED
    BY <2>2, <2>4, <2>5
<1>14. CASE setenv
  <2>1. /\ UNCHANGED <<outside, chan, at, cur, inbuf, bad, line, text, exit_flag, table, outbuf,
                       readers, seen, ran, eaten>>
        /\ environ' = cur /\ NextCommand /\ at = "run" /\ pack # <<>>
    BY <1>14 DEF setenv, Running
  <2>2. pack' \in Seq(ShellCommand) /\ cmd_no' \in Nat \ {0}
    BY <2>1, PackMoves, ItemsTyped DEF NextCommand
  <2>3. environ' \in 0 .. cur
    BY <2>1, ItemsTyped
  <2> QED
    BY <1>1, <1>4, <2>1, <2>2, <2>3 DEF ServerTypes
<1>15. CASE exit
  BY <1>1, <1>4, <1>15 DEF exit, Running, ServerTypes
<1>16. CASE Launch
  <2>1. /\ UNCHANGED <<outside, chan, cur, inbuf, bad, line, text, exit_flag, environ, outbuf, ran>>
        /\ eaten' = eaten
        /\ at = "run" /\ at' \in {"wait", "run"} /\ NextCommand /\ pack # <<>>
        /\ readers' = readers \/ readers' = readers \cup {<<cur, Foreground>>}
        /\ table' = table \cup Targets(Head(pack).type)
        /\ seen' = seen \/ seen' = [seen EXCEPT ![cur] = @ \o LeftByChild(Head(pack))]
    BY <1>16 DEF Launch
  <2>2. pack' \in Seq(ShellCommand) /\ cmd_no' \in Nat \ {0}
    BY <2>1, PackMoves, ItemsTyped DEF NextCommand
  <2>3. table' \subseteq Nat
    BY <1>1, <2>1, ItemsTyped DEF Targets, ServerTypes
  <2>4. readers' \subseteq Clients \X BOOLEAN
    <3>1. Foreground \in BOOLEAN
      BY DEF Foreground
    <3>2. <<cur, Foreground>> \in Clients \X BOOLEAN
      BY <1>3, <2>1, <3>1
    <3>3. readers \subseteq Clients \X BOOLEAN
      BY <1>1 DEF ServerTypes
    <3> QED
      BY <2>1, <3>2, <3>3
  <2>5. seen' \in [Clients -> Seq(Item)]
    <3>1. LeftByChild(Head(pack)) \in Seq(Item)
      BY <1>1 DEF LeftByChild, ServerTypes
    <3>2. seen[cur] \o LeftByChild(Head(pack)) \in Seq(Item)
      BY <1>1, <1>3, <2>1, <3>1 DEF ServerTypes
    <3> QED
      BY <1>1, <1>3, <2>1, <3>2 DEF ServerTypes
  <2> QED
    BY <1>1, <1>4, <2>1, <2>2, <2>3, <2>4, <2>5 DEF ServerTypes
<1>17. CASE EndOfSession
  <2>1. /\ UNCHANGED <<outside, chan, cur, inbuf, bad, line, text, pack, environ, cmd_no, table,
                       readers, seen, ran, eaten>>
        /\ at = "run" /\ pack = <<>> /\ exit_flag' = FALSE /\ at' = "accept"
        /\ outbuf' = AfterSession
    BY <1>17 DEF EndOfSession
  <2>2. AfterSession \in Seq(Item)
    BY <1>1, ItemsTyped DEF AfterSession, ServerTypes
  <2> QED
    BY <1>1, <1>4, <2>1, <2>2 DEF ServerTypes
<1> QED
  BY <1>5, <1>6, <1>7, <1>8, <1>9, <1>10, <1>12, <1>13, <1>14, <1>15, <1>16, <1>17
     DEF Next, Server

-----------------------------------------------------------------------------
(* The command packs and the sessions.                                     *)

\* The commands that are run but exit take the first one away.
LEMMA TailKeepsPack ==
    ASSUME TypeOK, PackInv, at = "run", pack # <<>>, Head(pack).name # "exit",
           pack' = Tail(pack), UNCHANGED <<text, exit_flag>>, at' \in {"run", "wait"}
    PROVE  PackInv'
<1>2. ~exit_flag
  BY DEF PackInv
<1>3. \A i \in DOMAIN pack' : i + 1 \in DOMAIN pack /\ pack'[i] = pack[i + 1]
  BY PackMoves
<1>4. \A i \in DOMAIN pack' : Has(text, pack'[i].name)
  BY <1>3 DEF PackInv
<1>5. ASSUME Has(text, "exit") PROVE \E i \in DOMAIN pack' : pack'[i].name = "exit"
  <2>1. PICK i \in DOMAIN pack : pack[i].name = "exit"
    BY <1>2, <1>5 DEF PackInv
  <2>2. i - 1 \in DOMAIN pack' /\ pack'[i - 1] = pack[i]
    BY <2>1, PackMoves
  <2> QED
    BY <2>1, <2>2
<1> QED
  BY <1>2, <1>4, <1>5 DEF PackInv

\* Every step keeps the account of the commands.
LEMMA NextKeepsPack ==
    ASSUME TypeOK, FunctionsOK, PackInv, Next
    PROVE  PackInv'
<1>3. CASE UNCHANGED <<at, pack, text, exit_flag>>
  BY <1>3 DEF PackInv
<1>4. CASE \E c \in Clients : Connect(c) \/ SendPiece(c) \/ HangUp(c) \/ Reader(c)
  <2>1. UNCHANGED <<at, pack, text, exit_flag>>
    BY <1>4 DEF Connect, SendPiece, HangUp, Reader, ReaderReads, ReaderEnds, server, shell
  <2> QED
    BY <1>3, <2>1
<1>5. CASE at' = "dead"
  BY <1>5 DEF PackInv
<1>6. CASE Accept \/ Prompt \/ Spin \/ LineAgain \/ GetLine \/ GetPiece \/ Fill \/ GetEof
  <2>1. /\ at \in {"accept", "prompt", "getline"} /\ UNCHANGED <<pack, exit_flag>>
        /\ at' \in {"prompt", "getline", "parse", "dead"}
    BY <1>6 DEF Accept, Prompt, Spin, LineAgain, GetLine, GetPiece, Fill, GetEof, Returns,
           Killed, shell
  <2> QED
    BY <2>1 DEF PackInv
<1>7. CASE Parse /\ at' # "dead"
  <2>1. /\ at = "parse" /\ at' = "run" /\ pack' = text /\ UNCHANGED <<text, exit_flag>>
    BY <1>7 DEF Parse, Killed
  <2>2. /\ \A i \in DOMAIN pack' : Has(text, pack'[i].name)
        /\ Has(text, "exit") => \E i \in DOMAIN pack' : pack'[i].name = "exit"
    BY <2>1 DEF Has
  <2> QED
    BY <2>1, <2>2 DEF PackInv
<1>8. CASE (printenv \/ setenv \/ Launch) /\ at' # "dead"
  <2>1. /\ at = "run" /\ pack # <<>> /\ Head(pack).name # "exit"
        /\ pack' = Tail(pack) /\ UNCHANGED <<text, exit_flag>> /\ at' \in {"run", "wait"}
    BY <1>8 DEF printenv, setenv, Launch, Killed, Running, NextCommand
  <2> QED
    BY <2>1, TailKeepsPack
<1>9. CASE exit
  <2>1. /\ at = "run" /\ at' = "run" /\ pack # <<>> /\ Head(pack).name = "exit"
        /\ pack' = <<>> /\ exit_flag' = TRUE /\ text' = text
    BY <1>9 DEF exit, Running
  <2>2. Has(text, "exit")
    BY <2>1, PackMoves DEF PackInv
  <2> QED
    BY <2>1, <2>2 DEF PackInv
<1>10. CASE Wait
  <2>1. at = "wait" /\ at' = "run" /\ UNCHANGED <<pack, text, exit_flag>>
    BY <1>10 DEF Wait, shell
  <2> QED
    BY <2>1 DEF PackInv
<1>11. CASE EndOfLine \/ EndOfSession
  <2>1. at' \in {"prompt", "accept"} /\ pack' = <<>> /\ ~exit_flag'
    BY <1>11 DEF EndOfLine, EndOfSession, shell
  <2> QED
    BY <2>1 DEF PackInv
<1>12. CASE NoWord
  BY <1>5, <1>12 DEF NoWord
<1> QED
  BY <1>4, <1>5, <1>6, <1>7, <1>8, <1>9, <1>10, <1>11, <1>12 DEF Next, Server

\* Every step keeps the count of the exit lines run.
LEMMA NextKeepsCount ==
    ASSUME TypeOK, FunctionsOK, LinesInv, PackInv, CountInv, Next
    PROVE  CountInv'
<1>3. ran' = ran => ExitsRun' = ExitsRun
  BY DEF ExitsRun
<1>4. cur \in Nat /\ at \in {"accept", "prompt", "getline", "parse", "run", "wait", "dead"}
  BY ItemsTyped DEF TypeOK
<1>5. ASSUME UNCHANGED <<ran, cur, text>>,
             \/ at' = at
             \/ at' \in {"prompt", "getline", "parse"} /\ at \in {"prompt", "getline", "parse"}
             \/ at' \in {"run", "wait"} /\ at \in {"run", "wait"}
             \/ at' = "dead" /\ at # "accept"
      PROVE  CountInv'
  <2>1. ExitsRun' = ExitsRun
    BY <1>3, <1>5
  <2>2. CASE at' = "dead" /\ at # "accept"
    BY <1>4, <1>5, <2>1, <2>2 DEF CountInv
  <2>3. CASE ~(at' = "dead" /\ at # "accept")
    BY <1>5, <2>1, <2>3 DEF CountInv
  <2> QED
    BY <2>2, <2>3
<1>6. CASE \E c \in Clients : Connect(c) \/ SendPiece(c) \/ HangUp(c) \/ Reader(c)
  <2>1. UNCHANGED <<ran, cur, text, at>>
    BY <1>6 DEF Connect, SendPiece, HangUp, Reader, ReaderReads, ReaderEnds, server, shell
  <2> QED
    BY <1>5, <2>1
<1>7. CASE Accept
  BY <1>3, <1>4, <1>7 DEF Accept, CountInv
<1>8. CASE (Prompt /\ at' = "dead") \/ Spin \/ LineAgain \/ Fill
  <2>1. /\ UNCHANGED <<ran, cur, text>> /\ at \in {"prompt", "getline"}
        /\ at' \in {"prompt", "getline", "parse", "dead"}
    BY <1>8 DEF Prompt, Spin, LineAgain, Fill, Killed, shell
  <2> QED
    BY <1>5, <2>1
<1>9. CASE GetPiece \/ GetLine \/ GetEof \/ (Prompt /\ at' # "dead")
  <2>1. /\ UNCHANGED <<ran, cur>> /\ at \in {"getline", "prompt"}
        /\ at' \in {"getline", "prompt", "parse"}
    BY <1>9 DEF GetPiece, GetLine, GetEof, Prompt, Killed, Returns
  <2> QED
    BY <1>3, <1>4, <2>1 DEF CountInv
<1>10. CASE Parse
  <2>1. CASE at' = "dead"
    <3>1. UNCHANGED <<ran, cur, text>> /\ at = "parse"
      BY <1>10, <2>1 DEF Parse, Killed, shell
    <3> QED
      BY <1>5, <2>1, <3>1
  <2>2. CASE at' # "dead"
    <3> DEFINE e == [line |-> line, text |-> text, session |-> cur]
    <3>1. /\ at = "parse" /\ at' = "run" /\ UNCHANGED <<cur, text>> /\ ran' = Append(ran, e)
      BY <1>10, <2>2 DEF Parse, Killed
    <3>2. e \in Entry /\ ran \in Seq(Entry)
      <4>1. /\ line \in Seq(Sent) /\ text \in Seq(ShellCommand) /\ cur \in Nat
            /\ ran \in Seq(Entry)
        BY <1>4 DEF TypeOK, FunctionsOK
      <4> QED
        BY ONLY <4>1 DEF Entry
    <3>3. PICK n : n = Len(ran) + 1
      OBVIOUS
    <3>4. e.text = text
      OBVIOUS
    <3> HIDE DEF e
    <3>5. /\ DOMAIN ran' = DOMAIN ran \cup {n} /\ n \notin DOMAIN ran /\ ran'[n].text = text
          /\ \A i \in DOMAIN ran : ran'[i] = ran[i]
      BY <3>1, <3>2, <3>3, <3>4
    <3>6. /\ IsFiniteSet(ExitsRun) /\ Cardinality(ExitsRun) = cur - 1 /\ n \notin ExitsRun
      BY <3>1, <3>5 DEF CountInv, ExitsRun
    <3>7. ExitsRun' = IF Has(text, "exit") THEN ExitsRun \cup {n} ELSE ExitsRun
      BY <3>5 DEF ExitsRun
    <3>8. /\ IsFiniteSet(ExitsRun \cup {n})
          /\ Cardinality(ExitsRun \cup {n}) = Cardinality(ExitsRun) + 1
      BY <3>6, FS_AddElement
    <3>9. IsFiniteSet(ExitsRun') /\ Cardinality(ExitsRun') = IF Has(text, "exit") THEN cur ELSE cur - 1
      BY <1>4, <3>6, <3>7, <3>8
    <3> QED
      BY <3>1, <3>9 DEF CountInv
  <2> QED
    BY <2>1, <2>2
<1>11. CASE printenv \/ setenv \/ exit \/ NoWord \/ Launch \/ Wait
  <2>1. /\ UNCHANGED <<ran, cur, text>> /\ at \in {"run", "wait"}
        /\ at' \in {"run", "wait", "dead"}
    BY <1>11 DEF printenv, setenv, exit, NoWord, Launch, Wait, Killed, Running, shell
  <2> QED
    BY <1>5, <2>1
<1>12. CASE EndOfLine
  <2>1. UNCHANGED <<ran, cur, text>> /\ at = "run" /\ at' = "prompt" /\ pack = <<>> /\ ~exit_flag
    BY <1>12 DEF EndOfLine, shell
  <2>2. ~Has(text, "exit")
    BY <2>1 DEF PackInv
  <2> QED
    BY <1>3, <2>1, <2>2 DEF CountInv
<1>13. CASE EndOfSession
  <2>1. UNCHANGED <<ran, cur, text>> /\ at = "run" /\ at' = "accept" /\ exit_flag
    BY <1>13 DEF EndOfSession
  <2>2. Has(text, "exit")
    BY <2>1 DEF PackInv
  <2> QED
    BY <1>3, <2>1, <2>2 DEF CountInv
<1> QED
  BY <1>6, <1>7, <1>8, <1>9, <1>10, <1>11, <1>12, <1>13 DEF Next, Server

-----------------------------------------------------------------------------
(* What is printed.                                                        *)

\* Two lists written one behind the other.
LEMMA Joined ==
    ASSUME NEW s \in Seq(Item), NEW t \in Seq(Item), CopiesOnly(s), CopiesOnly(t),
           \A i \in DOMAIN s, j \in DOMAIN t : t[j] = s[i] => MayRepeat(t[j])
    PROVE  /\ CopiesOnly(s \o t) /\ s \o t \in Seq(Item)
           /\ \A k \in DOMAIN (s \o t) : \/ \E i \in DOMAIN s : (s \o t)[k] = s[i]
                                         \/ \E j \in DOMAIN t : (s \o t)[k] = t[j]
<1>1. /\ s \o t \in Seq(Item) /\ Len(s) \in Nat /\ Len(t) \in Nat
      /\ DOMAIN (s \o t) = 1 .. Len(s) + Len(t)
      /\ \A k \in DOMAIN (s \o t) :
            \/ k \in DOMAIN s /\ (s \o t)[k] = s[k]
            \/ k \notin DOMAIN s /\ k - Len(s) \in DOMAIN t /\ (s \o t)[k] = t[k - Len(s)]
  <2>1. Len(s \o t) = Len(s) + Len(t) /\ s \o t \in Seq(Item) /\ Len(s) \in Nat /\ Len(t) \in Nat
    BY ConcatProperties
  <2>2. ASSUME NEW k \in 1 .. Len(s) + Len(t)
        PROVE  \/ k \in DOMAIN s /\ (s \o t)[k] = s[k]
               \/ k \notin DOMAIN s /\ k - Len(s) \in DOMAIN t /\ (s \o t)[k] = t[k - Len(s)]
    <3>1. (s \o t)[k] = IF k <= Len(s) THEN s[k] ELSE t[k - Len(s)]
      BY ConcatProperties
    <3> QED
      BY <2>1, <3>1
  <2> QED
    BY <2>1, <2>2
<1>2. CopiesOnly(s \o t)
  <2> SUFFICES ASSUME NEW k \in DOMAIN (s \o t), NEW l \in DOMAIN (s \o t), k # l,
                      (s \o t)[k] = (s \o t)[l]
               PROVE  MayRepeat((s \o t)[k])
    BY DEF CopiesOnly
  <2>1. CASE k \in DOMAIN s /\ l \in DOMAIN s
    BY <1>1, <2>1 DEF CopiesOnly
  <2>2. CASE k \in DOMAIN s /\ l \notin DOMAIN s
    BY <1>1, <2>2
  <2>3. CASE k \notin DOMAIN s /\ l \in DOMAIN s
    BY <1>1, <2>3
  <2>4. CASE k \notin DOMAIN s /\ l \notin DOMAIN s
    <3>1. PICK p \in DOMAIN t, q \in DOMAIN t : /\ p = k - Len(s) /\ q = l - Len(s)
                                                /\ (s \o t)[k] = t[p] /\ (s \o t)[l] = t[q]
      BY <1>1, <2>4
    <3>2. p # q
      BY <1>1, <3>1
    <3> QED
      BY <3>1, <3>2 DEF CopiesOnly
  <2> QED
    BY <2>1, <2>2, <2>3, <2>4
<1> QED
  BY <1>1, <1>2

\* What may repeat, and what is left or a client's own, does not change.
ItemsStay ==
    \A x : /\ MayRepeat(x)' <=> MayRepeat(x)
           /\ \A c : IsOwn(x, c)' <=> IsOwn(x, c)
           /\ \A s : IsLeft(x, s)' <=> IsLeft(x, s)

LEMMA StayItems ==
    ASSUME tty' = tty
    PROVE  ItemsStay
BY DEF ItemsStay, MayRepeat, IsOwn, IsLeft

\* Items are written to the client who is served, or to nobody when it has left.
LEMMA WrittenKeeps ==
    ASSUME FunctionsOK, SeenInv, cur \in Clients, at \notin {"accept", "dead"},
           UNCHANGED <<tty, cur>>, NEW items \in Seq(Item), CopiesOnly(items),
           \A i \in DOMAIN items : IsOwn(items[i], cur),
           \A i \in DOMAIN items, j \in DOMAIN seen[cur] :
               items[i] = seen[cur][j] => MayRepeat(items[i]),
           seen' = seen \/ seen' = [seen EXCEPT ![cur] = @ \o items]
    PROVE  /\ \A d \in Clients : d > cur => seen'[d] = <<>>
           /\ \A c \in Clients : CopiesOnly(seen[c])'
           /\ \A c \in Clients : \A i \in DOMAIN seen'[c] : IsOwn(seen[c][i], c)'
           /\ \A j \in DOMAIN seen'[cur] :
                 \/ \E i \in DOMAIN seen[cur] : seen'[cur][j] = seen[cur][i]
                 \/ \E i \in DOMAIN items : seen'[cur][j] = items[i]
<1>1. ItemsStay
  BY StayItems
<1>2. CASE seen' = seen
  BY <1>1, <1>2 DEF SeenInv, ItemsStay, CopiesOnly
<1>3. CASE seen' = [seen EXCEPT ![cur] = seen[cur] \o items]
  <2> DEFINE w == seen[cur] \o items
  <2>1. seen[cur] \in Seq(Item) /\ seen'[cur] = w
        /\ \A d \in Clients : d # cur => seen'[d] = seen[d]
    BY <1>3 DEF FunctionsOK
  <2>2. /\ CopiesOnly(w)
        /\ \A k \in DOMAIN w : \/ \E i \in DOMAIN seen[cur] : w[k] = seen[cur][i]
                               \/ \E j \in DOMAIN items : w[k] = items[j]
    BY <2>1, Joined DEF SeenInv
  <2> HIDE DEF w
  <2>3. \A k \in DOMAIN w : IsOwn(w[k], cur)
    BY <2>2 DEF SeenInv
  <2>4. \A c \in Clients : CopiesOnly(seen[c])'
    BY <1>1, <2>1, <2>2 DEF SeenInv, ItemsStay, CopiesOnly
  <2>5. \A c \in Clients : \A i \in DOMAIN seen'[c] : IsOwn(seen[c][i], c)'
    BY <1>1, <2>1, <2>3 DEF SeenInv, ItemsStay
  <2>6. \A d \in Clients : d > cur => seen'[d] = <<>>
    <3>1. \A d \in Clients : d > cur => d # cur
      BY ClientsCounted
    <3> QED
      BY <2>1, <3>1 DEF SeenInv
  <2> QED
    BY <2>1, <2>2, <2>4, <2>5, <2>6
<1> QED
  BY <1>2, <1>3

\* A step that prints nothing and writes nothing.
LEMMA QuietKeepsShown ==
    ASSUME TypeOK, FunctionsOK, ShownInv, UNCHANGED <<tty, cur, seen, outbuf>>,
           cmd_no' \in Nat, cmd_no <= cmd_no',
           at' = "accept" => at = "accept",
           at' \notin {"accept", "dead"} => at \notin {"accept", "dead"},
           at' \in {"run", "wait"} => at \in {"run", "wait"} /\ text' = text
    PROVE  ShownInv'
<1>1. ItemsStay
  BY StayItems
<1>2. cmd_no \in Nat /\ outbuf \in Seq(Item) /\ seen \in [Clients -> Seq(Item)]
  BY ItemsTyped DEF FunctionsOK
<1>3. \A x \in Item : x.no < cmd_no => x.no < cmd_no'
  BY <1>2 DEF Item
<1>4. \A x \in Item : IsNew(x) => IsNew(x)'
  BY <1>3 DEF IsNew
<1>5. BufferedInv'
  <2>1. \A i \in DOMAIN outbuf : outbuf[i] \in Item
    BY <1>2
  <2>2. tty' => outbuf' = <<>>
    BY DEF ShownInv, BufferedInv
  <2>3. \A i, j \in DOMAIN outbuf' : i # j => outbuf'[i] # outbuf'[j]
    BY DEF ShownInv, BufferedInv
  <2>4. ASSUME NEW i \in DOMAIN outbuf
        PROVE  /\ at' = "accept" => IsLeft(outbuf[i], cur)'
               /\ at' \notin {"accept", "dead"} => IsNew(outbuf[i])' \/ IsLeft(outbuf[i], cur - 1)'
               /\ at' \in {"run", "wait"} => /\ IsNew(outbuf[i])' /\ outbuf[i].text = text'
                                             /\ Has(text, "printenv")'
    BY <1>1, <1>4, <2>1 DEF ShownInv, BufferedInv, ItemsStay
  <2> QED
    BY <2>2, <2>3, <2>4 DEF BufferedInv
<1>6. SeenInv'
  <2>1. \A c \in Clients : CopiesOnly(seen[c])'
    BY <1>1 DEF ShownInv, SeenInv, CopiesOnly, ItemsStay
  <2>2. \A c \in Clients : \A i \in DOMAIN seen[c] : IsOwn(seen[c][i], c)'
    BY <1>1 DEF ShownInv, SeenInv, ItemsStay
  <2>3. \A d \in Clients : d > cur => seen[d] = <<>>
    BY DEF ShownInv, SeenInv
  <2>4. ASSUME at' \notin {"accept", "dead"}, NEW j \in DOMAIN seen[cur]
        PROVE  /\ seen[cur][j].session = cur => seen[cur][j].no < cmd_no'
               /\ \A i \in DOMAIN outbuf : outbuf[i] = seen[cur][j] => MayRepeat(outbuf[i])'
    <3>1. cur \in Clients /\ at \notin {"accept", "dead"}
      BY <2>4 DEF TypeOK
    <3>2. seen[cur][j] \in Item
      BY <1>2, <3>1
    <3> QED
      BY <1>1, <1>3, <3>1, <3>2 DEF ShownInv, SeenInv, ItemsStay
  <2> QED
    BY <2>1, <2>2, <2>3, <2>4 DEF SeenInv
<1> QED
  BY <1>5, <1>6 DEF ShownInv

\* What waits in the buffer while a session is open is for the client it serves.
LEMMA BufferedIsOwn ==
    ASSUME TypeOK, FunctionsOK, ShownInv, at \notin {"accept", "dead"}
    PROVE  /\ cur \in Clients /\ outbuf \in Seq(Item) /\ CopiesOnly(outbuf)
           /\ \A i \in DOMAIN outbuf : IsOwn(outbuf[i], cur)
           /\ \A i \in DOMAIN outbuf, j \in DOMAIN seen[cur] :
                 outbuf[i] = seen[cur][j] => MayRepeat(outbuf[i])
<1>1. cur \in Clients
  BY DEF TypeOK
<1>2. CopiesOnly(outbuf)
  BY DEF ShownInv, BufferedInv, CopiesOnly
<1>3. ASSUME NEW i \in DOMAIN outbuf PROVE IsOwn(outbuf[i], cur)
  BY <1>3 DEF ShownInv, BufferedInv, IsOwn, IsNew
<1> QED
  BY <1>1, <1>2, <1>3 DEF FunctionsOK, ShownInv, SeenInv

\* The buffer is flushed, and nothing is added to it.
LEMMA FlushKeepsShown ==
    ASSUME TypeOK, FunctionsOK, ShownInv, at \notin {"accept", "dead"}, at' # "accept",
           UNCHANGED <<tty, cur, cmd_no>>, Flush(outbuf)
    PROVE  ShownInv'
<1>1. ItemsStay
  BY StayItems
<1>2. /\ cur \in Clients /\ outbuf \in Seq(Item) /\ CopiesOnly(outbuf)
      /\ \A i \in DOMAIN outbuf : IsOwn(outbuf[i], cur)
      /\ \A i \in DOMAIN outbuf, j \in DOMAIN seen[cur] :
            outbuf[i] = seen[cur][j] => MayRepeat(outbuf[i])
  BY BufferedIsOwn
<1>3. outbuf' = <<>> /\ (seen' = seen \/ seen' = [seen EXCEPT ![cur] = @ \o outbuf])
  BY DEF Flush
<1>4. /\ \A d \in Clients : d > cur => seen'[d] = <<>>
      /\ \A c \in Clients : CopiesOnly(seen[c])'
      /\ \A c \in Clients : \A i \in DOMAIN seen'[c] : IsOwn(seen[c][i], c)'
      /\ \A j \in DOMAIN seen'[cur] :
            \/ \E i \in DOMAIN seen[cur] : seen'[cur][j] = seen[cur][i]
            \/ \E i \in DOMAIN outbuf : seen'[cur][j] = outbuf[i]
  BY <1>2, <1>3, WrittenKeeps DEF ShownInv
<1>5. BufferedInv'
  BY <1>3 DEF BufferedInv
<1>6. \A i \in DOMAIN outbuf : outbuf[i].session = cur => outbuf[i].no < cmd_no
  <2> SUFFICES ASSUME NEW i \in DOMAIN outbuf, outbuf[i].session = cur
               PROVE  outbuf[i].no < cmd_no
    OBVIOUS
  <2>1. IsNew(outbuf[i]) \/ IsLeft(outbuf[i], cur - 1)
    BY DEF ShownInv, BufferedInv
  <2>2. cur # cur - 1
    BY ItemsTyped
  <2> QED
    BY <2>1, <2>2 DEF IsNew, IsLeft
<1>7. \A j \in DOMAIN seen'[cur] : seen'[cur][j].session = cur => seen'[cur][j].no < cmd_no
  BY <1>4, <1>6 DEF ShownInv, SeenInv
<1> QED
  BY <1>3, <1>4, <1>5, <1>7 DEF ShownInv, SeenInv

\* What a printenv puts behind what waits in the buffer.
LEMMA PrintKeepsShown ==
    ASSUME TypeOK, FunctionsOK, PackInv, ShownInv, printenv, at' # "dead"
    PROVE  ShownInv'
<1> DEFINE items == IF environ = 0 THEN <<>> ELSE <<Value>>
<1>1. /\ at = "run" /\ at' = "run" /\ pack # <<>> /\ Head(pack).name = "printenv"
      /\ UNCHANGED <<tty, cur, text>> /\ cmd_no' = cmd_no + 1
      /\ \/ tty /\ Flush(outbuf \o items)
         \/ ~tty /\ outbuf' = outbuf \o items /\ seen' = seen
  BY DEF printenv, Running, NextCommand, Killed, outside
<1>2. ItemsStay
  BY <1>1, StayItems
<1>3. /\ Value \in Item /\ cmd_no \in Nat /\ cur \in Nat /\ cmd_no' \in Nat /\ cmd_no < cmd_no'
      /\ items \in Seq(Item) /\ \A i \in DOMAIN items : i = 1 /\ items[i] = Value
  BY <1>1, ItemsTyped
<1>4. /\ Value.no = cmd_no /\ Value.session = cur /\ Value.what = "value" /\ Value.text = text
  BY DEF Value
<1>5. Has(text, "printenv")
  BY <1>1, PackMoves DEF PackInv
<1>6. /\ cur \in Clients /\ outbuf \in Seq(Item) /\ seen \in [Clients -> Seq(Item)]
      /\ \A i \in DOMAIN outbuf : outbuf[i] \in Item
      /\ \A j \in DOMAIN seen[cur] : seen[cur][j] \in Item
  BY <1>1, BufferedIsOwn DEF FunctionsOK
<1>7. \A x \in Item : x.no < cmd_no => x.no < cmd_no' /\ x # Value
  BY <1>3, <1>4 DEF Item
<1>8. \A j \in DOMAIN seen[cur] : seen[cur][j] # Value
  BY <1>1, <1>3, <1>4, <1>6 DEF ShownInv, SeenInv
<1>9. \A i \in DOMAIN outbuf : /\ IsNew(outbuf[i]) /\ outbuf[i].text = text /\ outbuf[i] # Value
  BY <1>1, <1>3, <1>4 DEF ShownInv, BufferedInv, IsNew
<1> HIDE DEF items
<1>10. CASE tty
  <2>1. outbuf = <<>> /\ outbuf \o items = items
    BY <1>3, <1>10 DEF ShownInv, BufferedInv
  <2>2. outbuf' = <<>> /\ (seen' = seen \/ seen' = [seen EXCEPT ![cur] = @ \o items])
    BY <1>1, <1>10, <2>1 DEF Flush
  <2>3. CopiesOnly(items) /\ \A i \in DOMAIN items : IsOwn(items[i], cur)
    BY <1>3, <1>4 DEF CopiesOnly, IsOwn
  <2>4. /\ \A d \in Clients : d > cur => seen'[d] = <<>>
        /\ \A c \in Clients : CopiesOnly(seen[c])'
        /\ \A c \in Clients : \A i \in DOMAIN seen'[c] : IsOwn(seen[c][i], c)'
        /\ \A j \in DOMAIN seen'[cur] :
              \/ \E i \in DOMAIN seen[cur] : seen'[cur][j] = seen[cur][i]
              \/ \E i \in DOMAIN items : seen'[cur][j] = items[i]
    BY <1>1, <1>3, <1>6, <1>8, <2>2, <2>3, WrittenKeeps DEF ShownInv
  <2>5. \A j \in DOMAIN seen'[cur] : seen'[cur][j].session = cur => seen'[cur][j].no < cmd_no'
    BY <1>1, <1>3, <1>4, <1>6, <1>7, <2>4 DEF ShownInv, SeenInv
  <2>6. BufferedInv'
    BY <2>2 DEF BufferedInv
  <2> QED
    BY <1>1, <2>2, <2>4, <2>5, <2>6 DEF ShownInv, SeenInv
<1>11. CASE ~tty
  <2> DEFINE w == outbuf \o items
  <2>1. outbuf' = w /\ seen' = seen
    BY <1>1, <1>11
  <2>2. /\ \A i, j \in DOMAIN outbuf' : i # j => outbuf'[i] # outbuf'[j]
        /\ \A i \in DOMAIN outbuf' : \/ outbuf'[i] = Value
                                      \/ \E k \in DOMAIN outbuf : outbuf'[i] = outbuf[k]
    <3>1. \A i, j \in DOMAIN outbuf : i # j => outbuf[i] # outbuf[j]
      BY DEF ShownInv, BufferedInv
    <3>2. CASE items = <<>>
      BY <1>6, <2>1, <3>1, <3>2
    <3>3. CASE items = <<Value>>
      <4>1. PICK n : n = Len(outbuf) + 1
        OBVIOUS
      <4>2. w = Append(outbuf, Value)
        BY <1>3, <1>6, <3>3
      <4>3. /\ DOMAIN w = DOMAIN outbuf \cup {n} /\ n \notin DOMAIN outbuf /\ w[n] = Value
            /\ \A i \in DOMAIN outbuf : w[i] = outbuf[i]
        BY <1>3, <1>6, <4>1, <4>2
      <4> HIDE DEF w
      <4> QED
        BY <1>9, <2>1, <3>1, <4>3
    <3> QED
      BY <3>2, <3>3 DEF items
  <2>3. \A i \in DOMAIN outbuf' : IsNew(outbuf[i])' /\ outbuf'[i].text = text
    BY <1>1, <1>3, <1>4, <1>6, <1>7, <1>9, <2>2 DEF IsNew
  <2>4. BufferedInv'
    BY <1>1, <1>2, <1>5, <1>11, <2>2, <2>3 DEF BufferedInv
  <2>5. \A c \in Clients : CopiesOnly(seen[c])'
    BY <1>2, <2>1 DEF ShownInv, SeenInv, CopiesOnly, ItemsStay
  <2>6. \A c \in Clients : \A i \in DOMAIN seen[c] : IsOwn(seen[c][i], c)'
    BY <1>2, <2>1 DEF ShownInv, SeenInv, ItemsStay
  <2>7. ASSUME NEW j \in DOMAIN seen[cur]
        PROVE  /\ seen[cur][j].session = cur => seen[cur][j].no < cmd_no'
               /\ \A i \in DOMAIN outbuf' : outbuf'[i] = seen[cur][j] => MayRepeat(outbuf[i])'
    BY <1>1, <1>2, <1>6, <1>7, <1>8, <2>2 DEF ShownInv, SeenInv, ItemsStay
  <2>8. \A d \in Clients : d > cur => seen'[d] = <<>>
    BY <2>1 DEF ShownInv, SeenInv
  <2> QED
    BY <1>1, <2>1, <2>4, <2>5, <2>6, <2>7, <2>8 DEF ShownInv, SeenInv
<1> QED
  BY <1>10, <1>11

\* A child whose exec failed leaves with a copy of what a printenv of this line has
\* printed.
LEMMA LaunchKeepsShown ==
    ASSUME TypeOK, FunctionsOK, PackInv, ShownInv, Launch
    PROVE  ShownInv'
<1> DEFINE items == LeftByChild(Head(pack))
<1>1. /\ at = "run" /\ at' \in {"run", "wait"} /\ pack # <<>>
      /\ UNCHANGED <<tty, cur, text, outbuf>> /\ cmd_no' = cmd_no + 1
      /\ seen' = seen \/ seen' = [seen EXCEPT ![cur] = @ \o items]
  BY DEF Launch, NextCommand, outside
<1>2. ItemsStay
  BY <1>1, StayItems
<1>3. /\ cur \in Clients /\ outbuf \in Seq(Item) /\ CopiesOnly(outbuf)
      /\ \A i \in DOMAIN outbuf : IsOwn(outbuf[i], cur)
      /\ \A i \in DOMAIN outbuf : IsNew(outbuf[i]) /\ outbuf[i].text = text
                                  /\ Has(text, "printenv") /\ ~tty
  BY <1>1, BufferedIsOwn DEF ShownInv, BufferedInv
<1>4. /\ cmd_no \in Nat /\ cmd_no' \in Nat /\ seen \in [Clients -> Seq(Item)]
      /\ \A x \in Item : x.no < cmd_no => x.no < cmd_no'
  <2>1. cmd_no \in Nat /\ cmd_no' \in Nat /\ cmd_no < cmd_no'
    BY <1>1, ItemsTyped
  <2>2. \A x \in Item : x.no \in Nat
    BY DEF Item
  <2> QED
    BY <2>1, <2>2 DEF FunctionsOK
<1>5. items = <<>> \/ (items = outbuf /\ Head(pack).name = "bad")
  BY DEF LeftByChild
<1> HIDE DEF items
<1>6. items = outbuf => \A i \in DOMAIN outbuf : MayRepeat(outbuf[i])
  <2>1. CASE items = <<>>
    BY <2>1
  <2>2. CASE Head(pack).name = "bad"
    <3>1. Has(text, "bad")
      BY <1>1, <2>2, PackMoves DEF PackInv
    <3> QED
      BY <1>3, <3>1 DEF MayRepeat, Behind, IsNew
  <2> QED
    BY <1>5, <2>1, <2>2
<1>7. /\ items \in Seq(Item) /\ CopiesOnly(items)
      /\ \A i \in DOMAIN items : IsOwn(items[i], cur)
      /\ \A i \in DOMAIN items, j \in DOMAIN seen[cur] :
            items[i] = seen[cur][j] => MayRepeat(items[i])
      /\ \A i \in DOMAIN items : items[i].session = cur => items[i].no < cmd_no
      /\ \A i \in DOMAIN items : MayRepeat(items[i])
  <2>1. CASE items = <<>>
    BY <2>1 DEF CopiesOnly
  <2>2. CASE items = outbuf
    BY <1>3, <1>6, <2>2 DEF IsNew
  <2> QED
    BY <1>5, <2>1, <2>2
<1>8. /\ \A d \in Clients : d > cur => seen'[d] = <<>>
      /\ \A c \in Clients : CopiesOnly(seen[c])'
      /\ \A c \in Clients : \A i \in DOMAIN seen'[c] : IsOwn(seen[c][i], c)'
      /\ \A j \in DOMAIN seen'[cur] :
            \/ \E i \in DOMAIN seen[cur] : seen'[cur][j] = seen[cur][i]
            \/ \E i \in DOMAIN items : seen'[cur][j] = items[i]
  BY <1>1, <1>3, <1>7, WrittenKeeps DEF ShownInv
<1>9. \A j \in DOMAIN seen'[cur] :
          /\ seen'[cur][j].session = cur => seen'[cur][j].no < cmd_no'
          /\ \A i \in DOMAIN outbuf : outbuf[i] = seen'[cur][j] => MayRepeat(outbuf[i])
  <2>1. \A j \in DOMAIN seen[cur] : /\ seen[cur][j] \in Item
                                    /\ seen[cur][j].session = cur => seen[cur][j].no < cmd_no
    BY <1>1, <1>3, <1>4 DEF ShownInv, SeenInv
  <2>2. \A i \in DOMAIN items : items[i] \in Item
    BY <1>7
  <2>3. \A j \in DOMAIN seen'[cur] : seen'[cur][j].session = cur => seen'[cur][j].no < cmd_no'
    BY <1>4, <1>7, <1>8, <2>1, <2>2
  <2>4. \A j \in DOMAIN seen'[cur] : \A i \in DOMAIN outbuf :
            outbuf[i] = seen'[cur][j] => MayRepeat(outbuf[i])
    BY <1>1, <1>7, <1>8 DEF ShownInv, SeenInv
  <2> QED
    BY <2>3, <2>4
<1>10. BufferedInv'
  <2>1. \A i \in DOMAIN outbuf : outbuf[i] \in Item
    BY <1>3
  <2>2. \A i \in DOMAIN outbuf : IsNew(outbuf[i])'
    BY <1>1, <1>3, <1>4, <2>1 DEF IsNew
  <2>3. \A i, j \in DOMAIN outbuf : i # j => outbuf[i] # outbuf[j]
    BY DEF ShownInv, BufferedInv
  <2>4. tty => outbuf = <<>>
    BY DEF ShownInv, BufferedInv
  <2> QED
    BY <1>1, <1>2, <1>3, <2>2, <2>3, <2>4 DEF BufferedInv
<1> QED
  BY <1>1, <1>2, <1>8, <1>9, <1>10 DEF ShownInv, SeenInv, ItemsStay

\* What the session before has left is for the client that is accepted.
LEMMA AcceptKeepsShown ==
    ASSUME TypeOK, FunctionsOK, ShownInv, Accept
    PROVE  ShownInv'
<1>1. /\ at = "accept" /\ at' = "prompt" /\ cur' = cur + 1 /\ cur' \in Clients
      /\ UNCHANGED <<tty, outbuf, seen>> /\ cur \in Nat /\ cur' - 1 = cur /\ cur' > cur
  BY ItemsTyped DEF Accept, outside
<1>2. ItemsStay
  BY <1>1, StayItems
<1>3. seen[cur'] = <<>>
  BY <1>1 DEF ShownInv, SeenInv
<1>4. BufferedInv'
  <2>1. \A i \in DOMAIN outbuf : IsLeft(outbuf[i], cur)
    BY <1>1 DEF ShownInv, BufferedInv
  <2>2. \A i \in DOMAIN outbuf' : IsLeft(outbuf[i], cur - 1)'
    BY <1>1, <2>1 DEF IsLeft, Behind
  <2> QED
    BY <1>1, <2>2 DEF ShownInv, BufferedInv
<1>5. \A d \in Clients : d > cur' => d > cur
  BY <1>1, ClientsCounted
<1>6. \A d \in Clients : d > cur' => seen'[d] = <<>>
  BY <1>1, <1>5 DEF ShownInv, SeenInv
<1>7. \A c \in Clients : CopiesOnly(seen[c])'
  BY <1>1, <1>2 DEF ShownInv, SeenInv, CopiesOnly, ItemsStay
<1>8. \A c \in Clients : \A i \in DOMAIN seen'[c] : IsOwn(seen[c][i], c)'
  BY <1>1, <1>2 DEF ShownInv, SeenInv, ItemsStay
<1> QED
  BY <1>1, <1>3, <1>4, <1>6, <1>7, <1>8 DEF ShownInv, SeenInv

\* At the end of a session the buffer holds what printenv put there in the exit line.
LEMMA EndKeepsShown ==
    ASSUME TypeOK, FunctionsOK, PackInv, ShownInv, EndOfSession
    PROVE  ShownInv'
<1>1. /\ at = "run" /\ at' = "accept" /\ exit_flag /\ outbuf' = AfterSession
      /\ UNCHANGED <<tty, cur, seen, text>>
  BY DEF EndOfSession, outside
<1>2. ItemsStay
  BY <1>1, StayItems
<1>3. Has(text, "exit")
  BY <1>1 DEF PackInv
<1>4. \A i \in DOMAIN outbuf : IsNew(outbuf[i]) /\ IsLeft(outbuf[i], cur)
  BY <1>1, <1>3 DEF ShownInv, BufferedInv, IsNew, IsLeft, Behind
<1>5. Banner(cur) \in Item /\ IsLeft(Banner(cur), cur) /\ Banner(cur).what = "banner"
  BY ItemsTyped DEF Banner, IsLeft
<1>6. \A i \in DOMAIN outbuf : outbuf[i] # Banner(cur)
  BY <1>4, <1>5 DEF IsNew
<1>7. BufferedInv'
  <2>1. CASE tty
    BY <1>1, <2>1 DEF AfterSession, BufferedInv
  <2>2. CASE ~tty
    <3>1. outbuf' = Append(outbuf, Banner(cur)) /\ outbuf \in Seq(Item)
      BY <1>1, <2>2 DEF AfterSession, FunctionsOK
    <3>2. PICK n : n = Len(outbuf) + 1
      OBVIOUS
    <3>3. /\ DOMAIN outbuf' = DOMAIN outbuf \cup {n} /\ n \notin DOMAIN outbuf
          /\ outbuf'[n] = Banner(cur) /\ \A i \in DOMAIN outbuf : outbuf'[i] = outbuf[i]
      BY <1>5, <3>1, <3>2
    <3>4. \A i, j \in DOMAIN outbuf' : i # j => outbuf'[i] # outbuf'[j]
      BY <1>6, <3>3 DEF ShownInv, BufferedInv
    <3>5. \A i \in DOMAIN outbuf' : IsLeft(outbuf[i], cur)'
      BY <1>1, <1>2, <1>4, <1>5, <3>3 DEF ItemsStay
    <3> QED
      BY <1>1, <2>2, <3>4, <3>5 DEF BufferedInv
  <2> QED
    BY <2>1, <2>2
<1>8. \A c \in Clients : CopiesOnly(seen[c])'
  BY <1>1, <1>2 DEF ShownInv, SeenInv, CopiesOnly, ItemsStay
<1>9. \A c \in Clients : \A i \in DOMAIN seen'[c] : IsOwn(seen[c][i], c)'
  BY <1>1, <1>2 DEF ShownInv, SeenInv, ItemsStay
<1> QED
  BY <1>1, <1>7, <1>8, <1>9 DEF ShownInv, SeenInv

\* Every step keeps the account of what is printed.
LEMMA NextKeepsShown ==
    ASSUME TypeOK, FunctionsOK, PackInv, ShownInv, Next
    PROVE  ShownInv'
<1> DEFINE still == UNCHANGED <<tty, cur, seen, outbuf>>
<1>1. cmd_no \in Nat /\ cmd_no + 1 \in Nat /\ cmd_no <= cmd_no + 1 /\ cmd_no <= cmd_no
  BY ItemsTyped
<1>2. CASE \E c \in Clients : Connect(c) \/ SendPiece(c) \/ HangUp(c) \/ Reader(c)
  <2>1. still /\ UNCHANGED <<at, text, cmd_no>>
    BY <1>2 DEF Connect, SendPiece, HangUp, Reader, ReaderReads, ReaderEnds, outside, server, shell
  <2> QED
    BY <1>1, <2>1, QuietKeepsShown
<1>3. CASE (Prompt \/ Spin \/ Parse \/ printenv \/ NoWord) /\ at' = "dead"
  <2>1. Killed \/ NoWord
    BY <1>3 DEF Prompt, Spin, Parse, printenv, Running
  <2>2. still /\ cmd_no' = cmd_no
    BY <2>1 DEF Killed, NoWord, outside, shell
  <2> QED
    BY <1>1, <1>3, <2>2, QuietKeepsShown
<1>4. CASE (Prompt \/ Spin \/ Parse) /\ at' # "dead"
  <2>1. /\ at \in {"prompt", "parse"} /\ at' \in {"getline", "prompt", "run"}
        /\ UNCHANGED <<tty, cur, cmd_no>> /\ Flush(outbuf)
    BY <1>4 DEF Prompt, Spin, Parse, Killed, outside, shell
  <2> QED
    BY <2>1, FlushKeepsShown
<1>5. CASE LineAgain \/ GetLine \/ GetPiece \/ Fill \/ GetEof
  <2>1. /\ at \in {"prompt", "getline"} /\ at' \in {"prompt", "getline", "parse"}
        /\ still /\ cmd_no' = cmd_no
    BY <1>5 DEF LineAgain, GetLine, GetPiece, Fill, GetEof, Returns, outside, shell
  <2> QED
    BY <1>1, <2>1, QuietKeepsShown
<1>6. CASE setenv \/ exit \/ Wait
  <2>1. /\ at \in {"run", "wait"} /\ at' = "run" /\ text' = text
        /\ still /\ (cmd_no' = cmd_no \/ cmd_no' = cmd_no + 1)
    BY <1>6 DEF setenv, exit, Wait, Running, NextCommand, outside, shell
  <2> QED
    BY <1>1, <2>1, QuietKeepsShown
<1>7. CASE EndOfLine
  <2>1. at = "run" /\ at' = "prompt" /\ still /\ cmd_no' = cmd_no
    BY <1>7 DEF EndOfLine, outside, shell
  <2> QED
    BY <1>1, <2>1, QuietKeepsShown
<1>8. CASE NoWord
  BY <1>3, <1>8 DEF NoWord
<1>9. CASE Server
  BY <1>3, <1>4, <1>5, <1>6, <1>7, <1>8, <1>9, PrintKeepsShown, LaunchKeepsShown,
     AcceptKeepsShown, EndKeepsShown DEF Server
<1> QED
  BY <1>2, <1>9 DEF Next

-----------------------------------------------------------------------------
(* The invariant, and what it says of the runs' properties.                *)

LEMMA InitIInv == ASSUME Init PROVE IInv
<1>1. \A s \in Scripts : Len(s) \in Nat
  BY SimpleAssumption
<1>2. /\ script \in [Clients -> Scripts] /\ tty \in BOOLEAN /\ at = "accept" /\ cur = 0
      /\ client = [c \in Clients |-> "away"] /\ sent = [c \in Clients |-> 0]
      /\ chan = [c \in Clients |-> <<>>] /\ seen = [c \in Clients |-> <<>>]
      /\ inbuf = <<>> /\ bad = FALSE /\ line = <<>> /\ text = <<>> /\ pack = <<>>
      /\ exit_flag = FALSE
      /\ environ = 0 /\ cmd_no = 1 /\ table = {} /\ readers = {} /\ ran = <<>> /\ eaten = {}
      /\ outbuf = IF tty THEN <<>> ELSE <<Banner(0)>>
  BY DEF Init
<1>3. Banner(0) \in Item
  BY DEF Banner, Item
<1>4. TypeOK
  <2>1. \A c \in Clients : sent[c] \in 0 .. Len(script[c]) /\ chan[c] \in Seq(Sent)
    BY <1>1, <1>2
  <2>2. /\ client \in [Clients -> {"away", "open", "shut", "left"}]
        /\ pack \in Seq(ShellCommand) /\ text \in Seq(ShellCommand)
        /\ inbuf \in Seq(Sent) /\ line \in Seq(Sent)
    BY ONLY <1>2
  <2>3. environ \in 0 .. cur /\ cmd_no \in Nat \ {0} /\ table \subseteq Nat
    BY <1>2
  <2>4. readers \subseteq Clients \X BOOLEAN /\ eaten \subseteq Sent
    BY <1>2
  <2> QED
    BY <1>2, <1>3, <2>1, <2>2, <2>3, <2>4 DEF TypeOK
<1>5. FunctionsOK
  BY <1>2, <1>3 DEF FunctionsOK
<1>6. LinesInv
  <2>1. OnTheWay /\ \A d \in Clients : Taken(d) = 0
    BY <1>2 DEF OnTheWay, Taken
  <2>2. BufferInv /\ LineInv /\ ~HasLine
    BY <1>2 DEF BufferInv, LineInv, HasLine, GoodLine, AllBefore
  <2>3. EatenInv /\ RanInv /\ WayInv
    BY <1>2, <2>1 DEF EatenInv, RanInv, WayInv
  <2> QED
    BY <2>1, <2>2, <2>3 DEF LinesInv
<1>7. PackInv
  BY <1>2 DEF PackInv
<1>8. CountInv
  <2>1. ExitsRun = {}
    BY <1>2 DEF ExitsRun
  <2> QED
    BY <1>2, <2>1, FS_EmptySet DEF CountInv
<1>9. ShownInv
  <2>1. IsLeft(Banner(0), 0)
    BY DEF IsLeft, Banner
  <2>2. BufferedInv
    BY <1>2, <2>1 DEF BufferedInv
  <2>3. SeenInv
    BY <1>2 DEF SeenInv, CopiesOnly
  <2> QED
    BY <2>2, <2>3 DEF ShownInv
<1> QED
  BY <1>4, <1>5, <1>6, <1>7, <1>8, <1>9 DEF IInv

LEMMA NextIInv == ASSUME IInv, [Next]_vars PROVE IInv'
<1>1. CASE Next
  BY <1>1, NextKeepsTypes, NextKeepsLines, NextKeepsPack, NextKeepsCount, NextKeepsShown DEF IInv
<1>2. CASE UNCHANGED vars
  <2>1. UNCHANGED <<script, client, sent, tty, chan, at, cur, inbuf, bad, line, text, pack,
                    exit_flag, environ, cmd_no, table, outbuf, readers, seen, ran, eaten>>
    BY <1>2 DEF vars, outside, server, shell
  <2>2. TypeOK' /\ FunctionsOK'
    BY <2>1 DEF IInv, TypeOK, FunctionsOK
  <2>3. LinesInv'
    <3>1. \A r \in readers' : r[1] <= cur
      BY <2>1 DEF IInv, LinesInv, WayInv
    <3> QED
      BY <2>1, <3>1, UnmovedKeepsLines DEF IInv, HasLine
  <2>4. PackInv' /\ CountInv'
    BY <2>1 DEF IInv, PackInv, CountInv, ExitsRun
  <2>5. ShownInv'
    BY <2>1, QuietKeepsShown, ItemsTyped DEF IInv
  <2> QED
    BY <2>2, <2>3, <2>4, <2>5 DEF IInv
<1> QED
  BY <1>1, <1>2

\* What holds in each state of a session of np_simple: where each line sent is, how far
\* the sessions are, and what waits in the buffer of stdout.
THEOREM Invariance == Spec => []IInv
<1>1. Init => IInv
  BY InitIInv
<1>2. IInv /\ [Next]_vars => IInv'
  BY NextIInv
<1> QED
  BY <1>1, <1>2, PTL DEF Spec

\* The variables of np_simple have their types.
THEOREM TypeCorrect == Spec => []TypeOK
<1>1. IInv => TypeOK
  BY DEF IInv
<1> QED
  BY <1>1, Invariance, PTL

LEMMA LinesAccounted == ASSUME IInv PROVE LinesRun
<1>1. \A i \in DOMAIN ran :
          /\ GoodLine(ran[i].line, ran[i].session)
          /\ ran[i].line # <<>> /\ (bad \/ Ended(ran[i].line[Len(ran[i].line)]))
  BY DEF IInv, LinesInv, RanInv
<1>2. ran \in Seq(Entry) /\ \A i \in DOMAIN ran : ran[i] \in Entry
  BY DEF IInv, FunctionsOK
<1>3. LinesOwn
  BY <1>1 DEF LinesOwn, GoodLine, Own
<1>4. LinesOnce
  <2>1. \A i, j \in DOMAIN ran : i < j =>
            AllBefore(ran[i].line, ran[j].line) \/ (bad /\ ran[i].line = ran[j].line)
    BY DEF IInv, LinesInv, RanInv
  <2>2. ASSUME NEW i \in DOMAIN ran
        PROVE  /\ \A a, b \in DOMAIN ran[i].line :
                      a < b => Before(ran[i].line[a], ran[i].line[b])
               /\ \A a \in DOMAIN ran[i].line : ran[i].line[a] \notin eaten
    BY <1>1 DEF GoodLine, Got
  <2> QED
    BY <2>1, <2>2 DEF LinesOnce, AllBefore
<1>5. LinesWhole
  <2> SUFFICES ASSUME NEW i \in DOMAIN ran, NEW a \in DOMAIN ran[i].line
               PROVE  LET l == ran[i].line
                      IN  /\ Follows(l, a)
                          /\ Ended(l[a]) => a = Len(l)
                          /\ ~Ended(l[a]) => a < Len(l) \/ bad
    BY DEF LinesWhole
  <2>1. ran[i].line \in Seq(Sent)
    BY ONLY <1>2, ran[i] \in Entry DEF Entry
  <2>2. a \in Nat /\ Len(ran[i].line) \in Nat /\ a <= Len(ran[i].line)
    BY <2>1
  <2>3. Follows(ran[i].line, a) /\ (Ended(ran[i].line[a]) => a = Len(ran[i].line))
    BY <1>1 DEF GoodLine
  <2>4. a < Len(ran[i].line) \/ a = Len(ran[i].line)
    BY ONLY <2>2
  <2> QED
    BY <1>1, <2>3, <2>4
<1>6. SessionPerExit
  <2>1. /\ cur \in Nat
        /\ at \in {"accept", "prompt", "getline", "parse", "run", "wait", "dead"}
    BY ItemsTyped DEF IInv, TypeOK
  <2>2. Over + 1 = IF at = "accept" THEN cur + 1 ELSE cur
    BY <2>1 DEF Over
  <2> QED
    BY <2>1, <2>2 DEF IInv, CountInv, SessionPerExit, Over
<1> QED
  BY <1>3, <1>4, <1>5, <1>6 DEF LinesRun

\* What np_simple runs in a session are lines of its client, or what an earlier one sent
\* behind its exit, each once and in order; a line is made of pieces of two only where
\* such a rest without an end comes in front; each session ends with an exit line.
THEOREM LinesAlwaysRun == Spec => []LinesRun
<1>1. IInv => LinesRun
  BY LinesAccounted
<1> QED
  BY <1>1, Invariance, PTL

LEMMA ShownAccounted == ASSUME IInv PROVE ShownRight
<1>1. ShownOwn
  BY DEF IInv, ShownInv, SeenInv, IsOwn, IsLeft, ShownOwn
<1>2. ShownOnce
  BY DEF IInv, ShownInv, SeenInv, CopiesOnly, MayRepeat, ShownOnce
<1> QED
  BY <1>1, <1>2 DEF ShownRight

\* What np_simple prints comes to the client it is for, and once, but for what the
\* buffer of stdout holds back for the next one and what a child leaves a copy of.
THEOREM ShownAlwaysRight == Spec => []ShownRight
<1>1. IInv => ShownRight
  BY ShownAccounted
<1> QED
  BY <1>1, Invariance, PTL

-----------------------------------------------------------------------------
(* parse_line.                                                             *)

\* The n-th piece begins at f.
Begins(f, n) ==
    f \in 1 .. Size /\ (f = 1 \/ f - 1 \in Cuts) /\ Cardinality(Cuts \cap 1 .. f - 1) = n - 1

\* The piece that idx is in begins at f, and only words of it were looked at.
Reading(f) ==
    /\ Begins(f, Len(cmd_line) + 1)
    /\ idx \in f .. Size + 1 /\ \A k \in f .. idx - 1 : tokens[k] = "word"
    /\ Len(cmd.args) = idx - f /\ \A k \in 1 .. idx - f : cmd.args[k] = f + k - 1
    /\ cmd.type = "" /\ cmd.file = 0 /\ cmd.num_pipe = 0
    /\ cmd.in_usr_id = 0 /\ cmd.out_usr_id = 0

\* The pieces so far are the commands they mean.
PiecesInv ==
    /\ \A n \in 1 .. Len(cmd_line) : Means(cmd_line[n], n)
    /\ IF line_end THEN Len(cmd_line) = Pieces ELSE \E f \in 1 .. Size : Reading(f)

ParseInv == ParseTypeOK /\ (Allowed => PiecesInv)

\* A line is a sequence of kinds, and has one at least.
LEMMA TokensOfLine ==
    ASSUME ParseTypeOK
    PROVE  /\ tokens \in Seq(Kind) /\ Size \in Nat \ {0} /\ DOMAIN tokens = 1 .. Size
           /\ \A k \in 1 .. Size : tokens[k] \in Kind
           /\ \A k \in 1 .. Size : tokens[k] = ">" => k < Size /\ tokens[k + 1] = "word"
<1>1. PICK n \in 1 .. MaxLen[dialect] : tokens \in [1 .. n -> Kind]
  BY DEF ParseTypeOK, Typed
<1>2. MaxLen[dialect] \in Nat
  BY ParseAssumption DEF ParseTypeOK
<1>3. n \in Nat \ {0}
  BY <1>1, <1>2
<1>4. tokens \in Seq(Kind) /\ Len(tokens) = n /\ DOMAIN tokens = 1 .. n
  BY <1>1, <1>3
<1>5. Writable(dialect, tokens)
  BY DEF ParseTypeOK, Typed
<1> QED
  BY <1>1, <1>3, <1>4, <1>5 DEF Writable, Size

-----------------------------------------------------------------------------
(* The pieces of a line.                                                   *)

\* The cuts up to a place.
CutsTo(k) == Cardinality(Cuts \cap 1 .. k)

\* They grow by one at each cut.
LEMMA CutsCounted ==
    ASSUME ParseTypeOK
    PROVE  /\ \A k \in 0 .. Size : CutsTo(k) \in Nat
           /\ \A j, k \in 0 .. Size : j <= k => CutsTo(j) <= CutsTo(k)
           /\ \A k \in 1 .. Size : k \in Cuts => CutsTo(k) = CutsTo(k - 1) + 1
           /\ \A j, k \in 0 .. Size :
                 j <= k /\ (\A m \in j + 1 .. k : m \notin Cuts) => CutsTo(j) = CutsTo(k)
           /\ CutsTo(Size) + 1 = Pieces
<1>1. Size \in Nat /\ Cuts \subseteq 1 .. Size
  BY TokensOfLine DEF Cuts
<1>2. ASSUME NEW k \in 0 .. Size
      PROVE  IsFiniteSet(Cuts \cap 1 .. k) /\ CutsTo(k) \in Nat
  <2>1. IsFiniteSet(1 .. k)
    BY <1>1, FS_Interval
  <2>2. IsFiniteSet(Cuts \cap 1 .. k)
    BY <2>1, FS_Subset
  <2> QED
    BY <2>2, FS_CardinalityType DEF CutsTo
<1>3. ASSUME NEW j \in 0 .. Size, NEW k \in 0 .. Size, j <= k
      PROVE  CutsTo(j) <= CutsTo(k)
  <2>1. Cuts \cap 1 .. j \in SUBSET (Cuts \cap 1 .. k)
    BY <1>1, <1>3
  <2> QED
    BY <1>2, <2>1, FS_Subset DEF CutsTo
<1>4. ASSUME NEW k \in 1 .. Size, k \in Cuts
      PROVE  CutsTo(k) = CutsTo(k - 1) + 1
  <2>1. k - 1 \in 0 .. Size /\ k \in Nat
    BY <1>1
  <2>2. Cuts \cap 1 .. k = (Cuts \cap 1 .. k - 1) \cup {k}
    BY <1>4, <2>1
  <2>3. k \notin Cuts \cap 1 .. k - 1
    BY <2>1
  <2>4. IsFiniteSet(Cuts \cap 1 .. k - 1)
    BY <1>2, <2>1
  <2> QED
    BY <2>2, <2>3, <2>4, FS_AddElement DEF CutsTo
<1>5. ASSUME NEW j \in 0 .. Size, NEW k \in 0 .. Size, j <= k, \A m \in j + 1 .. k : m \notin Cuts
      PROVE  CutsTo(j) = CutsTo(k)
  <2>1. Cuts \cap 1 .. j = Cuts \cap 1 .. k
    BY <1>1, <1>5
  <2> QED
    BY <2>1 DEF CutsTo
<1>6. CutsTo(Size) + 1 = Pieces
  <2>1. Cuts \cap 1 .. Size = Cuts
    BY <1>1
  <2> QED
    BY <2>1 DEF CutsTo, Pieces
<1> QED
  BY <1>2, <1>3, <1>4, <1>5, <1>6

\* A piece reaches from its begin to the next cut, or to the end of the line.
LEMMA PieceIs ==
    ASSUME ParseTypeOK, NEW n \in Nat, NEW f \in 1 .. Size, Begins(f, n), NEW e \in f .. Size,
           \A k \in f .. e - 1 : k \notin Cuts, e \in Cuts \/ e = Size
    PROVE  /\ Piece(n) = f .. e /\ n \in 1 .. Pieces
           /\ e \in Cuts => CutsTo(e) = n
           /\ e \notin Cuts => Pieces = n
<1>1. Size \in Nat \ {0} /\ DOMAIN tokens = 1 .. Size /\ f \in Nat /\ e \in Nat
  BY TokensOfLine
<1>2. f - 1 \in 0 .. Size /\ CutsTo(f - 1) = n - 1 /\ CutsTo(f - 1) \in Nat
  BY <1>1, CutsCounted DEF Begins, CutsTo
<1>3. Piece(n) = {k \in 1 .. Size : CutsTo(k - 1) = n - 1}
  BY <1>1 DEF Piece, CutsTo
<1>4. ASSUME NEW k \in 1 .. Size, k < f PROVE CutsTo(k - 1) # n - 1
  <2> DEFINE p == f - 1
             q == p - 1
             r == k - 1
  <2>1. p \in Cuts /\ p \in 1 .. Size /\ q \in 0 .. Size /\ r \in 0 .. Size /\ r <= q
    BY <1>1, <1>4 DEF Begins
  <2>2. CutsTo(p) = CutsTo(q) + 1
    BY <2>1, CutsCounted
  <2>3. CutsTo(r) <= CutsTo(q) /\ CutsTo(r) \in Nat /\ CutsTo(q) \in Nat
    <3> HIDE DEF q, r
    <3> QED
      BY <2>1, CutsCounted
  <2>4. CutsTo(p) = n - 1
    BY <1>2
  <2>5. CutsTo(r) # n - 1
    BY <2>2, <2>3, <2>4
  <2> QED
    BY <2>5
<1>5. ASSUME NEW k \in f .. e PROVE k \in 1 .. Size /\ CutsTo(k - 1) = n - 1
  <2> DEFINE p == f - 1
             r == k - 1
  <2>1. p \in 0 .. Size /\ r \in 0 .. Size /\ p <= r /\ k \in 1 .. Size
    BY <1>1
  <2>2. \A m \in p + 1 .. r : m \notin Cuts
    BY <1>1
  <2>3. CutsTo(p) = CutsTo(r)
    <3> HIDE DEF p, r
    <3> QED
      BY <2>1, <2>2, CutsCounted
  <2> QED
    BY <1>2, <2>1, <2>3
<1>6. CutsTo(e - 1) = n - 1
  <2>1. e \in f .. e
    BY <1>1
  <2> QED
    BY <1>5, <2>1
<1>7. ASSUME e \in Cuts PROVE CutsTo(e) = n
  <2>1. e \in 1 .. Size
    BY <1>1
  <2>2. CutsTo(e) = CutsTo(e - 1) + 1
    BY <1>7, <2>1, CutsCounted
  <2> QED
    BY <1>6, <2>2
<1>8. ASSUME NEW k \in 1 .. Size, k > e PROVE CutsTo(k - 1) # n - 1
  <2> DEFINE r == k - 1
  <2>1. e \in Cuts /\ r \in 0 .. Size /\ e \in 0 .. Size /\ e <= r
    BY <1>1, <1>8
  <2>2. CutsTo(e) <= CutsTo(r) /\ CutsTo(r) \in Nat
    <3> HIDE DEF r
    <3> QED
      BY <2>1, CutsCounted
  <2>3. CutsTo(e) = n
    BY <1>7, <2>1
  <2>4. CutsTo(r) # n - 1
    BY <2>2, <2>3
  <2> QED
    BY <2>4
<1>9. Piece(n) = f .. e
  <2>1. \A k \in 1 .. Size : k < f \/ k \in f .. e \/ k > e
    BY <1>1
  <2> QED
    BY <1>3, <1>4, <1>5, <1>8, <2>1
<1>10. ASSUME e \notin Cuts PROVE Pieces = n
  <2>1. e = Size /\ e \in 1 .. Size
    BY <1>1, <1>10
  <2> DEFINE q == e - 1
  <2>2. q \in 0 .. Size /\ e \in 0 .. Size /\ q <= e /\ \A m \in q + 1 .. e : m \notin Cuts
    BY <1>1, <1>10, <2>1
  <2>3. CutsTo(q) = CutsTo(e)
    <3> HIDE DEF q
    <3> QED
      BY <2>2, CutsCounted
  <2>4. CutsTo(e) + 1 = Pieces
    BY <2>1, CutsCounted
  <2> QED
    BY <1>6, <2>3, <2>4
<1>11. n \in 1 .. Pieces
  <2>1. 0 <= n - 1
    BY <1>2
  <2>2. CutsTo(f - 1) <= CutsTo(Size)
    <3> DEFINE p == f - 1
    <3>1. p \in 0 .. Size /\ Size \in 0 .. Size /\ p <= Size
      BY <1>1
    <3> HIDE DEF p
    <3>2. CutsTo(p) <= CutsTo(Size)
      BY <3>1, CutsCounted
    <3> QED
      BY <3>2 DEF p
  <2>3. CutsTo(Size) + 1 = Pieces /\ CutsTo(Size) \in Nat
    <3>1. Size \in 0 .. Size
      BY <1>1
    <3> QED
      BY <3>1, CutsCounted
  <2> QED
    BY <1>2, <2>1, <2>2, <2>3
<1> QED
  BY <1>7, <1>9, <1>10, <1>11

\* A set of places has a first one.
LEMMA Smallest ==
    ASSUME NEW M, M \subseteq Nat, M # {}
    PROVE  \E i \in M : \A j \in M : i <= j
<1> DEFINE Earlier == OpToRel(<, Nat)
<1>1. IsWellFoundedOn(Earlier, Nat)
  BY NatLessThanWellFounded
<1>2. \A x, y \in Nat : x < y => <<x, y>> \in Earlier
  BY DEF OpToRel
<1> HIDE DEF Earlier
<1>3. PICK x \in M : \A y \in M : ~ (<<y, x>> \in Earlier)
  BY <1>1, WFMin
<1>4. ASSUME NEW y \in M PROVE x <= y
  <2>1. x \in Nat /\ y \in Nat
    OBVIOUS
  <2>2. ~(y < x)
    BY <1>2, <1>3, <2>1
  <2> QED
    BY <2>1, <2>2
<1> QED
  BY <1>4

\* Each piece has an end.
LEMMA PieceEnds ==
    ASSUME ParseTypeOK, NEW f \in 1 .. Size
    PROVE  \E e \in f .. Size : (\A k \in f .. e - 1 : k \notin Cuts) /\ (e \in Cuts \/ e = Size)
<1> DEFINE M == {k \in f .. Size : k \in Cuts \/ k = Size}
<1>1. Size \in Nat /\ f \in Nat
  BY TokensOfLine
<1>2. M \subseteq Nat /\ M # {}
  BY <1>1
<1>3. PICK e \in M : \A j \in M : e <= j
  BY <1>2, Smallest
<1>4. ASSUME NEW k \in f .. e - 1 PROVE k \notin Cuts
  <2>1. k \in f .. Size /\ ~(e <= k)
    BY <1>1
  <2> QED
    BY <1>3, <2>1
<1> QED
  BY <1>3, <1>4

\* From f to e there is an output at o only and a <N at u only; 0 is none.
Holds(f, e, o, u) ==
    /\ o \in {0} \cup (f .. e) /\ \A k \in f .. e : tokens[k] \in Outputs <=> k = o
    /\ u \in {0} \cup (f .. e) /\ \A k \in f .. e : tokens[k] = "<N" <=> k = u

\* Such a command, with the words up to idx as its args.
Spells(c, f, o, u) ==
    LET out == IF o = 0 THEN "none" ELSE tokens[o]
    IN  /\ c \in Command
        /\ Len(c.args) = idx - f /\ \A k \in 1 .. idx - f : c.args[k] = f + k - 1
        /\ c.type = IF u = 0 THEN TypeAlone(out) ELSE TypeWithIn(out)
        /\ c.file = IF out = ">" THEN o + 1 ELSE 0
        /\ c.num_pipe = IF out \in {"|N", "!N"} THEN o ELSE 0
        /\ c.in_usr_id = u
        /\ c.out_usr_id = IF out = ">N" THEN o ELSE 0

\* A command that spells an allowed piece is what the piece means.
LEMMA Meant ==
    ASSUME ParseTypeOK, NEW n, NEW f \in 1 .. Size, NEW e \in f .. Size, idx \in f .. e + 1,
           Piece(n) = f .. e, \A k \in f .. e : IsArg(k) <=> k < idx,
           NEW o, NEW u, Holds(f, e, o, u), NEW c, Spells(c, f, o, u)
    PROVE  Means(c, n)
<1> DEFINE out == IF o = 0 THEN "none" ELSE tokens[o]
<1>1. /\ o \in {0} \cup (f .. e) /\ \A k \in f .. e : tokens[k] \in Outputs <=> k = o
      /\ u \in {0} \cup (f .. e) /\ \A k \in f .. e : tokens[k] = "<N" <=> k = u
  BY DEF Holds
<1>2. /\ c \in Command
      /\ Len(c.args) = idx - f /\ \A k \in 1 .. idx - f : c.args[k] = f + k - 1
      /\ c.type = IF u = 0 THEN TypeAlone(out) ELSE TypeWithIn(out)
      /\ c.file = IF out = ">" THEN o + 1 ELSE 0
      /\ c.num_pipe = IF out \in {"|N", "!N"} THEN o ELSE 0
      /\ c.in_usr_id = u
      /\ c.out_usr_id = IF out = ">N" THEN o ELSE 0
  BY DEF Spells
<1>3. o # 0 => out = tokens[o]
  OBVIOUS
<1>4. o = 0 => out = "none"
  OBVIOUS
<1> HIDE DEF out
<1>5. Size \in Nat /\ f \in Nat /\ f >= 1 /\ e \in Nat /\ idx \in Nat /\ f <= idx /\ idx <= e + 1
  BY TokensOfLine
<1>6. Args(n) = f .. idx - 1
  BY <1>5 DEF Args
<1>7. Lists(c.args, Args(n))
  <2>1. Cardinality(f .. idx - 1) = idx - f
    <3> DEFINE b == idx - 1
    <3>1. b \in Int /\ f \in Int
      BY <1>5
    <3>2. Cardinality(f .. b) = IF f > b THEN 0 ELSE b - f + 1
      <4> HIDE DEF b
      <4> QED
        BY <3>1, FS_Interval
    <3> QED
      BY <1>5, <3>2
  <2>2. ASSUME NEW k \in f .. idx - 1
        PROVE  c.args[Cardinality((f .. idx - 1) \cap 1 .. k)] = k
    <3>1. (f .. idx - 1) \cap 1 .. k = f .. k /\ k \in Int /\ f <= k /\ k <= idx - 1
      BY <1>5
    <3>2. Cardinality(f .. k) = k - f + 1
      BY <1>5, <3>1, FS_Interval
    <3> DEFINE j == k - f + 1
    <3>3. j \in 1 .. idx - f /\ f + j - 1 = k
      BY <1>5, <3>1
    <3>4. c.args[j] = f + j - 1
      <4> HIDE DEF j
      <4> QED
        BY <1>2, <3>3
    <3> QED
      BY <3>1, <3>2, <3>3, <3>4
  <2> QED
    BY <1>6, <1>2, <2>1, <2>2 DEF Lists
<1>8. ASSUME NEW K, NEW x \in {0} \cup (f .. e), \A k \in f .. e : tokens[k] \in K <=> k = x
      PROVE  PlaceOf(K, n) = x
  <2>1. Places(K, n) = {k \in f .. e : k = x}
    BY <1>8 DEF Places
  <2>2. CASE x = 0
    BY <1>5, <2>1, <2>2 DEF PlaceOf
  <2>3. CASE x # 0
    <3>1. x \in f .. e
      BY <2>3
    <3>2. Places(K, n) = {x}
      BY <2>1, <3>1
    <3> QED
      BY <3>2 DEF PlaceOf
  <2> QED
    BY <2>2, <2>3
<1>9. PlaceOf(Outputs, n) = o
  BY <1>1, <1>8
<1>10. PlaceOf({"<N"}, n) = u
  <2>1. \A k \in f .. e : tokens[k] \in {"<N"} <=> k = u
    BY <1>1
  <2> QED
    BY <1>1, <1>8, <2>1
<1>11. OutputOf(n) = out
  BY <1>9 DEF OutputOf, out
<1>12. o # 0 => out = tokens[o] /\ o \in f .. e
  BY <1>1, <1>3
<1>13. PlaceOf({">"}, n) = IF out = ">" THEN o ELSE 0
  <2> DEFINE x == IF out = ">" THEN o ELSE 0
  <2>1. x \in {0} \cup (f .. e)
    BY <1>1
  <2>2. \A k \in f .. e : tokens[k] \in {">"} <=> k = x
    BY <1>1, <1>5, <1>12, <1>4 DEF Outputs
  <2> HIDE DEF x
  <2>3. PlaceOf({">"}, n) = x
    BY <1>8, <2>1, <2>2
  <2> QED
    BY <2>3 DEF x
<1>14. PlaceOf({">N"}, n) = IF out = ">N" THEN o ELSE 0
  <2> DEFINE x == IF out = ">N" THEN o ELSE 0
  <2>1. x \in {0} \cup (f .. e)
    BY <1>1
  <2>2. \A k \in f .. e : tokens[k] \in {">N"} <=> k = x
    BY <1>1, <1>5, <1>12, <1>4 DEF Outputs
  <2> HIDE DEF x
  <2>3. PlaceOf({">N"}, n) = x
    BY <1>8, <2>1, <2>2
  <2> QED
    BY <2>3 DEF x
<1>15. PlaceOf({"|N", "!N"}, n) = IF out \in {"|N", "!N"} THEN o ELSE 0
  <2> DEFINE x == IF out \in {"|N", "!N"} THEN o ELSE 0
  <2>1. x \in {0} \cup (f .. e)
    BY <1>1
  <2>2. \A k \in f .. e : tokens[k] \in {"|N", "!N"} <=> k = x
    BY <1>1, <1>5, <1>12, <1>4 DEF Outputs
  <2> HIDE DEF x
  <2>3. PlaceOf({"|N", "!N"}, n) = x
    BY <1>8, <2>1, <2>2
  <2> QED
    BY <2>3 DEF x
<1>16. out = ">" => o # 0 /\ o \in Nat
  BY <1>1, <1>5, <1>4
<1> QED
  BY <1>7, <1>10, <1>11, <1>13, <1>14, <1>15, <1>16, <1>2 DEF Means

-----------------------------------------------------------------------------
(* The turns of the loop.                                                  *)

\* A turn puts a command to those that are complete, or goes on with it.
LEMMA TurnTyped ==
    ASSUME ParseTypeOK, NEW c \in Command, NEW next \in Nat \ {0},
           Break(c, next) \/ Continue(c, next) \/ BreakAtEnd(c, next)
    PROVE  ParseTypeOK'
<1>1. Break(c, next) \/ Continue(c, next)
  BY DEF BreakAtEnd
<1>2. NoCmd \in Command
  <2>1. <<>> \in Seq(Nat)
    BY EmptySeq
  <2> QED
    BY <2>1 DEF NoCmd, Command, CmdType
<1>3. cmd_line \in Seq(Command) /\ Append(cmd_line, c) \in Seq(Command)
  BY AppendProperties DEF ParseTypeOK
<1>4. CASE Break(c, next)
  BY <1>2, <1>3, <1>4 DEF ParseTypeOK, Break
<1>5. CASE Continue(c, next)
  BY <1>3, <1>5 DEF ParseTypeOK, Continue
<1> QED
  BY <1>1, <1>4, <1>5

\* Every branch makes a command out of the one it has.
LEMMA ParseTypeKept ==
    ASSUME ParseTypeOK, ParseNext
    PROVE  ParseTypeOK'
<1>1. cmd \in Command /\ idx \in Nat \ {0} /\ Size \in Nat \ {0}
  BY TokensOfLine DEF ParseTypeOK
<1>2. /\ idx + 1 \in Nat \ {0} /\ idx + 2 \in Nat \ {0} /\ idx + 3 \in Nat \ {0}
      /\ Size + 1 \in Nat \ {0}
  BY <1>1
<1>3. CASE Talk
  <2> DEFINE s == [k \in 1 .. Size - idx + 1 |-> idx + k - 1]
             c == [cmd EXCEPT !.args = @ \o s]
  <2>1. s \in Seq(Nat)
    BY <1>1, <1>3 DEF Talk, At
  <2>2. cmd.args \in Seq(Nat)
    BY <1>1 DEF Command
  <2>3. cmd.args \o s \in Seq(Nat)
    <3> HIDE DEF s
    <3> QED
      BY <2>1, <2>2, ConcatProperties
  <2>4. c \in Command
    <3> HIDE DEF s
    <3> QED
      BY <1>1, <2>3 DEF Command
  <2>5. Break(c, Size + 1)
    BY <1>3 DEF Talk
  <2> HIDE DEF c
  <2> QED
    BY <1>2, <2>4, <2>5, TurnTyped
<1>4. CASE Word
  <2> DEFINE c == [cmd EXCEPT !.args = Append(@, idx)]
  <2>1. cmd.args \in Seq(Nat)
    BY <1>1 DEF Command
  <2>2. Append(cmd.args, idx) \in Seq(Nat)
    BY <1>1, <2>1, AppendProperties
  <2>3. c \in Command
    BY <1>1, <2>2 DEF Command
  <2>4. Continue(c, idx)
    BY <1>4 DEF Word
  <2> HIDE DEF c
  <2> QED
    BY <1>1, <2>3, <2>4, TurnTyped
<1>5. CASE Less
  <2>1. Continue(cmd, idx)
    BY <1>5 DEF Less
  <2> QED
    BY <1>1, <2>1, TurnTyped
<1>6. CASE LastWord
  <2>1. Break(cmd, idx)
    BY <1>6 DEF LastWord
  <2> QED
    BY <1>1, <2>1, TurnTyped
<1>7. CASE Pipe
  <2> DEFINE c == [cmd EXCEPT !.type = "pipe"]
             p == idx + 1
  <2>1. c \in Command /\ p \in Nat \ {0}
    BY <1>1, <1>2 DEF Command, CmdType
  <2>2. Break(c, p)
    BY <1>7 DEF Pipe
  <2> HIDE DEF c, p
  <2> QED
    BY <2>1, <2>2, TurnTyped
<1>8. CASE NumPipe
  <2> DEFINE c == [cmd EXCEPT !.type = "num_pipe", !.num_pipe = idx]
             p == idx + 1
  <2>1. c \in Command /\ p \in Nat \ {0}
    BY <1>1, <1>2 DEF Command, CmdType
  <2>2. Break(c, p)
    BY <1>8 DEF NumPipe
  <2> HIDE DEF c, p
  <2> QED
    BY <2>1, <2>2, TurnTyped
<1>9. CASE ErrPipe
  <2> DEFINE c == [cmd EXCEPT !.type = "err_pipe"]
             p == idx + 1
  <2>1. c \in Command /\ p \in Nat \ {0}
    BY <1>1, <1>2 DEF Command, CmdType
  <2>2. Break(c, p)
    BY <1>9 DEF ErrPipe
  <2> HIDE DEF c, p
  <2> QED
    BY <2>1, <2>2, TurnTyped
<1>10. CASE ErrNumPipe
  <2> DEFINE c == [cmd EXCEPT !.type = "err_num_pipe", !.num_pipe = idx]
             p == idx + 1
  <2>1. c \in Command /\ p \in Nat \ {0}
    BY <1>1, <1>2 DEF Command, CmdType
  <2>2. Break(c, p)
    BY <1>10 DEF ErrNumPipe
  <2> HIDE DEF c, p
  <2> QED
    BY <2>1, <2>2, TurnTyped
<1>11. CASE ShellOut
  <2> DEFINE c == [cmd EXCEPT !.type = "user_pipe"]
             p == idx + 1
  <2>1. c \in Command /\ p \in Nat \ {0}
    BY <1>1, <1>2 DEF Command, CmdType
  <2>2. BreakAtEnd(c, p)
    BY <1>11 DEF ShellOut
  <2> HIDE DEF c, p
  <2> QED
    BY <2>1, <2>2, TurnTyped
<1>12. CASE ShellIn
  <2> DEFINE c == [cmd EXCEPT !.type = "user_pipe"]
             p == idx
  <2>1. c \in Command /\ p \in Nat \ {0}
    BY <1>1, <1>2 DEF Command, CmdType
  <2>2. Continue(c, p)
    BY <1>12 DEF ShellIn
  <2> HIDE DEF c, p
  <2> QED
    BY <2>1, <2>2, TurnTyped
<1>13. CASE InOut
  <2> DEFINE c == [cmd EXCEPT !.type = "in_out_user_pipe", !.in_usr_id = idx, !.out_usr_id = idx + 1]
             p == idx + 2
  <2>1. c \in Command /\ p \in Nat \ {0}
    BY <1>1, <1>2 DEF Command, CmdType
  <2>2. Break(c, p)
    BY <1>13 DEF InOut
  <2> HIDE DEF c, p
  <2> QED
    BY <2>1, <2>2, TurnTyped
<1>14. CASE InFile
  <2> DEFINE c == [cmd EXCEPT !.type = "in_file_user_pipe", !.in_usr_id = idx, !.file = idx + 2]
             p == idx + 3
  <2>1. c \in Command /\ p \in Nat \ {0}
    BY <1>1, <1>2 DEF Command, CmdType
  <2>2. Break(c, p)
    BY <1>14 DEF InFile
  <2> HIDE DEF c, p
  <2> QED
    BY <2>1, <2>2, TurnTyped
<1>15. CASE InPipe
  <2> DEFINE c == [cmd EXCEPT !.type = "in_pipe_user_pipe", !.in_usr_id = idx]
             p == idx + 2
  <2>1. c \in Command /\ p \in Nat \ {0}
    BY <1>1, <1>2 DEF Command, CmdType
  <2>2. Break(c, p)
    BY <1>15 DEF InPipe
  <2> HIDE DEF c, p
  <2> QED
    BY <2>1, <2>2, TurnTyped
<1>16. CASE InNumPipe
  <2> DEFINE c == [cmd EXCEPT !.type = "in_numpipe_user_pipe", !.in_usr_id = idx, !.num_pipe = idx + 1]
             p == idx + 2
  <2>1. c \in Command /\ p \in Nat \ {0}
    BY <1>1, <1>2 DEF Command, CmdType
  <2>2. Break(c, p)
    BY <1>16 DEF InNumPipe
  <2> HIDE DEF c, p
  <2> QED
    BY <2>1, <2>2, TurnTyped
<1>17. CASE InErrPipe
  <2> DEFINE c == [cmd EXCEPT !.type = "in_err_pipe", !.in_usr_id = idx]
             p == idx + 2
  <2>1. c \in Command /\ p \in Nat \ {0}
    BY <1>1, <1>2 DEF Command, CmdType
  <2>2. Break(c, p)
    BY <1>17 DEF InErrPipe
  <2> HIDE DEF c, p
  <2> QED
    BY <2>1, <2>2, TurnTyped
<1>18. CASE InErrNumPipe
  <2> DEFINE c == [cmd EXCEPT !.type = "in_err_num_pipe", !.in_usr_id = idx, !.num_pipe = idx + 1]
             p == idx + 2
  <2>1. c \in Command /\ p \in Nat \ {0}
    BY <1>1, <1>2 DEF Command, CmdType
  <2>2. Break(c, p)
    BY <1>18 DEF InErrNumPipe
  <2> HIDE DEF c, p
  <2> QED
    BY <2>1, <2>2, TurnTyped
<1>19. CASE InUserPipe
  <2> DEFINE c == [cmd EXCEPT !.type = "in_user_pipe", !.in_usr_id = idx]
             p == idx + 1
  <2>1. c \in Command /\ p \in Nat \ {0}
    BY <1>1, <1>2 DEF Command, CmdType
  <2>2. Break(c, p)
    BY <1>19 DEF InUserPipe
  <2> HIDE DEF c, p
  <2> QED
    BY <2>1, <2>2, TurnTyped
<1>20. CASE OutUserPipe
  <2>1. CASE Next1("<N")
    <3> DEFINE c == [cmd EXCEPT !.type = "in_out_user_pipe", !.in_usr_id = idx + 1, !.out_usr_id = idx]
               p == idx + 2
    <3>1. c \in Command /\ p \in Nat \ {0}
      BY <1>1, <1>2 DEF Command, CmdType
    <3>2. BreakAtEnd(c, p)
      BY <1>20, <2>1 DEF OutUserPipe
    <3> HIDE DEF c, p
    <3> QED
      BY <3>1, <3>2, TurnTyped
  <2>2. CASE ~(Next1("<N"))
    <3> DEFINE c == [cmd EXCEPT !.type = "out_user_pipe", !.out_usr_id = idx]
               p == idx + 1
    <3>1. c \in Command /\ p \in Nat \ {0}
      BY <1>1, <1>2 DEF Command, CmdType
    <3>2. BreakAtEnd(c, p)
      BY <1>20, <2>2 DEF OutUserPipe
    <3> HIDE DEF c, p
    <3> QED
      BY <3>1, <3>2, TurnTyped
  <2> QED
    BY <2>1, <2>2
<1>21. CASE File
  <2>1. CASE dialect # "shell" /\ idx + 2 <= Size /\ tokens[idx + 2] = "<N"
    <3> DEFINE c == [cmd EXCEPT !.type = "in_file_user_pipe", !.in_usr_id = idx + 2, !.file = idx + 1]
               p == idx + 3
    <3>1. c \in Command /\ p \in Nat \ {0}
      BY <1>1, <1>2 DEF Command, CmdType
    <3>2. BreakAtEnd(c, p)
      BY <1>21, <2>1 DEF File
    <3> HIDE DEF c, p
    <3> QED
      BY <3>1, <3>2, TurnTyped
  <2>2. CASE ~(dialect # "shell" /\ idx + 2 <= Size /\ tokens[idx + 2] = "<N")
    <3> DEFINE c == [cmd EXCEPT !.type = "file_pipe", !.file = idx + 1]
               p == idx + 2
    <3>1. c \in Command /\ p \in Nat \ {0}
      BY <1>1, <1>2 DEF Command, CmdType
    <3>2. BreakAtEnd(c, p)
      BY <1>21, <2>2 DEF File
    <3> HIDE DEF c, p
    <3> QED
      BY <3>1, <3>2, TurnTyped
  <2> QED
    BY <2>1, <2>2
<1> QED
  BY <1>3, <1>4, <1>5, <1>6, <1>7, <1>8, <1>9, <1>10, <1>11, <1>12, <1>13, <1>14, <1>15, <1>16,
     <1>17, <1>18, <1>19, <1>20, <1>21 DEF ParseNext

\* The line stays, and so does what it means.
LEMMA SameLine ==
    ASSUME tokens' = tokens, dialect' = dialect
    PROVE  /\ Allowed' <=> Allowed
           /\ Pieces' = Pieces
           /\ Size' = Size
           /\ \A f, n : Begins(f, n)' <=> Begins(f, n)
           /\ \A n : Args(n)' = Args(n) /\ OutputOf(n)' = OutputOf(n)
           /\ \A K, n : PlaceOf(K, n)' = PlaceOf(K, n)
<1>1. Cuts' = Cuts /\ Size' = Size /\ Pieces' = Pieces
  BY DEF Cuts, Size, Pieces
<1>2. \A n : Piece(n)' = Piece(n)
  BY <1>1 DEF Piece
<1>3. \A k : IsArg(k)' <=> IsArg(k)
  BY DEF IsArg
<1>4. \A n : Args(n)' = Args(n)
  BY <1>2, <1>3 DEF Args
<1>5. \A K, n : Places(K, n)' = Places(K, n)
  BY <1>2 DEF Places
<1>6. ASSUME NEW K, NEW n PROVE PlaceOf(K, n)' = PlaceOf(K, n)
  <2>1. Places(K, n)' = Places(K, n)
    BY <1>5
  <2> QED
    BY <2>1 DEF PlaceOf
<1>7. \A n : OutputOf(n)' = OutputOf(n)
  BY <1>6 DEF OutputOf
<1>8. Allowed' <=> Allowed
  BY <1>1, <1>2, <1>3, <1>4, <1>5 DEF Allowed
<1>9. \A f, n : Begins(f, n)' <=> Begins(f, n)
  BY <1>1 DEF Begins
<1> QED
  BY <1>1, <1>4, <1>6, <1>7, <1>8, <1>9

\* A piece that is read to its end, and the command it means, go together: what comes
\* next is the first place of the next piece, or the end of the line.
LEMMA Closes ==
    ASSUME ParseTypeOK, Allowed, PiecesInv, ~line_end, NEW f \in 1 .. Size, Reading(f),
           NEW e \in f .. Size, \A k \in f .. e - 1 : k \notin Cuts, e \in Cuts \/ e = Size,
           NEW c \in Command, Means(c, Len(cmd_line) + 1), NEW next, next = e + 1, Break(c, next)
    PROVE  PiecesInv'
<1> DEFINE n == Len(cmd_line) + 1
<1>1. /\ Size \in Nat \ {0} /\ DOMAIN tokens = 1 .. Size /\ f \in Nat /\ e \in Nat /\ n \in Nat
      /\ Len(cmd_line) \in Nat /\ cmd_line \in Seq(Command)
  BY TokensOfLine, LenProperties DEF ParseTypeOK
<1>2. /\ cmd_line' = Append(cmd_line, c) /\ cmd' = NoCmd /\ idx' = next
      /\ line_end' = (next > Size) /\ tokens' = tokens /\ dialect' = dialect
  BY DEF Break
<1>3. /\ Len(cmd_line') = n /\ cmd_line'[n] = c
      /\ \A m \in 1 .. Len(cmd_line) : cmd_line'[m] = cmd_line[m]
  BY <1>1, <1>2, AppendProperties
<1>4. Begins(f, n)
  BY DEF Reading
<1> HIDE DEF n
<1>5. /\ n \in 1 .. Pieces
      /\ e \in Cuts => CutsTo(e) = n
      /\ e \notin Cuts => Pieces = n
  BY <1>1, <1>4, PieceIs
<1>6. (\A m \in 1 .. Len(cmd_line) : Means(cmd_line[m], m))'
  <2> SUFFICES ASSUME NEW m \in 1 .. Len(cmd_line') PROVE (Means(cmd_line[m], m))'
    OBVIOUS
  <2>1. Means(cmd_line'[m], m)
    <3>1. m \in 1 .. Len(cmd_line) \/ m = n
      BY <1>1, <1>3 DEF n
    <3>2. CASE m \in 1 .. Len(cmd_line)
      BY <1>3, <3>2 DEF PiecesInv
    <3>3. CASE m = n
      BY <1>3, <3>3 DEF n
    <3> QED
      BY <3>1, <3>2, <3>3
  <2>2. /\ Args(m)' = Args(m) /\ OutputOf(m)' = OutputOf(m)
        /\ \A K : PlaceOf(K, m)' = PlaceOf(K, m)
    BY <1>2, SameLine
  <2> QED
    BY <2>1, <2>2 DEF Means
<1>7. CASE e \notin Cuts
  <2>1. next > Size
    BY <1>1, <1>7
  <2>2. line_end'
    BY <1>2, <2>1
  <2>3. Len(cmd_line') = Pieces'
    BY <1>2, <1>3, <1>5, <1>7, SameLine
  <2> QED
    BY <1>6, <2>2, <2>3 DEF PiecesInv
<1>8. CASE e \in Cuts
  <2> DEFINE g == e + 1
             m == n + 1
             p == e - 1
  <2>1. /\ CutsTo(e) = n /\ CutsTo(e) <= CutsTo(Size) /\ CutsTo(Size) + 1 = Pieces
        /\ CutsTo(Size) \in Nat
    <3>1. e \in 0 .. Size /\ Size \in 0 .. Size /\ e <= Size
      BY <1>1
    <3> QED
      BY <1>5, <1>8, <3>1, CutsCounted
  <2>2. m \in 1 .. Pieces
    BY <1>1, <2>1
  <2>3. PICK k \in 1 .. Size : CutsTo(k - 1) = m - 1
    <3>1. Args(m) # {}
      <4> HIDE DEF m
      <4> QED
        BY <2>2 DEF Allowed
    <3>2. PICK k : k \in Args(m)
      BY <3>1
    <3>3. k \in 1 .. Size /\ Cardinality(Cuts \cap 1 .. k - 1) = m - 1
      BY <1>1, <3>2 DEF Args, Piece
    <3> QED
      BY <3>3 DEF CutsTo
  <2>4. e < Size
    <3> SUFFICES ASSUME e = Size PROVE FALSE
      BY <1>1
    <3> DEFINE q == k - 1
    <3>1. e \in 1 .. Size /\ p \in 0 .. Size /\ q \in 0 .. Size /\ q <= p
      BY <1>1
    <3>2. CutsTo(e) = CutsTo(e - 1) + 1 /\ CutsTo(p) \in Nat
      BY <1>8, <3>1, CutsCounted
    <3>3. CutsTo(q) <= CutsTo(p)
      <4> HIDE DEF p, q
      <4> QED
        BY <3>1, CutsCounted
    <3>4. CutsTo(q) = n
      BY <1>1, <2>3
    <3> QED
      BY <1>1, <2>1, <3>2, <3>3, <3>4
  <2>5. g \in 1 .. Size /\ next = g /\ g - 1 = e
    BY <1>1, <2>4
  <2>6. Begins(g, m)
    <3>1. Cardinality(Cuts \cap 1 .. g - 1) = m - 1
      BY <1>1, <2>1, <2>5 DEF CutsTo
    <3> HIDE DEF g, m
    <3> QED
      BY <1>8, <2>5, <3>1 DEF Begins
  <2>7. Reading(g)'
    <3>1. Begins(g, Len(cmd_line) + 1)'
      <4>1. Begins(g, Len(cmd_line') + 1)
        BY <1>3, <2>6
      <4> HIDE DEF g
      <4> QED
        BY <1>2, <4>1, SameLine
    <3>2. idx' \in g .. Size' + 1 /\ \A j \in g .. idx' - 1 : tokens'[j] = "word"
      BY <1>1, <1>2, <2>5, SameLine
    <3>3. /\ Len(cmd'.args) = idx' - g /\ \A j \in 1 .. idx' - g : cmd'.args[j] = g + j - 1
          /\ cmd'.type = "" /\ cmd'.file = 0 /\ cmd'.num_pipe = 0
          /\ cmd'.in_usr_id = 0 /\ cmd'.out_usr_id = 0
      <4>1. Len(<<>>) = 0
        BY EmptySeq
      <4>2. idx' = g /\ g \in Nat /\ cmd' = NoCmd
        BY <1>1, <1>2, <2>5
      <4> HIDE DEF g
      <4>3. idx' - g = 0
        BY <4>2
      <4>4. Len(cmd'.args) = 0 /\ \A j \in 1 .. 0 : cmd'.args[j] = g + j - 1
        <5>1. cmd'.args = <<>>
          BY <4>2 DEF NoCmd
        <5>2. Len(cmd'.args) = 0
          BY <4>1, <5>1
        <5> QED
          BY <5>2
      <4>5. cmd'.file = 0 /\ cmd'.num_pipe = 0 /\ cmd'.in_usr_id = 0 /\ cmd'.out_usr_id = 0
        BY <4>2 DEF NoCmd
      <4>6. cmd'.type = ""
        BY <4>2 DEF NoCmd
      <4> QED
        BY <4>3, <4>4, <4>5, <4>6
    <3> HIDE DEF g
    <3> QED
      BY <3>1, <3>2, <3>3 DEF Reading
  <2>8. ~line_end'
    <3>1. ~(next > Size)
      BY <1>1, <2>4
    <3> QED
      BY <1>2, <3>1
  <2>9. g \in 1 .. Size'
    BY <1>2, <2>5, SameLine
  <2> HIDE DEF g
  <2> QED
    BY <1>6, <2>7, <2>8, <2>9 DEF PiecesInv
<1> QED
  BY <1>7, <1>8

\* What an allowed piece from f to e is, when idx is in it and at no word.
Stands(f, e) ==
    /\ idx \in f .. Size /\ e \in idx .. Size
    /\ Piece(Len(cmd_line) + 1) = f .. e
    /\ (\A k \in f .. e - 1 : k \notin Cuts) /\ (e \in Cuts \/ e = Size)
    /\ \A k \in f .. e : IsArg(k) <=> k < idx
    /\ \A k \in f .. e : k < idx => tokens[k] = "word"
    /\ \A k \in idx .. e : tokens[k] \in Outputs \cup {"word", "<N"}
    /\ \A k \in idx .. e - 1 : tokens[k + 1] = "word" => tokens[k] = ">"
    /\ \A k \in idx .. e : tokens[k] = ">" => k < e /\ tokens[k + 1] = "word"
    /\ \A k, m \in idx .. e : tokens[k] \in Outputs /\ tokens[m] \in Outputs => k = m
    /\ \A k, m \in idx .. e : tokens[k] = "<N" /\ tokens[m] = "<N" => k = m
    /\ \A k, m \in idx .. e : tokens[m] \in {"|N", "!N"} => k <= m
    /\ \A k, m \in idx .. e : tokens[k] = "<N" /\ tokens[m] \in {"!", "!N"} => dialect = "errpipe"
    /\ \A k \in idx .. e : tokens[k] \in {"<N", ">N"} => dialect # "shell"

\* It is so wherever idx is at no word.
LEMMA IdxStands ==
    ASSUME ParseTypeOK, Allowed, NEW f \in 1 .. Size, Reading(f), idx <= Size, tokens[idx] # "word"
    PROVE  \E e \in f .. Size : Stands(f, e)
<1> DEFINE n == Len(cmd_line) + 1
<1>1. /\ Size \in Nat \ {0} /\ DOMAIN tokens = 1 .. Size /\ f \in Nat /\ n \in Nat /\ idx \in Nat
      /\ \A k \in 1 .. Size : tokens[k] \in Kind
      /\ \A k \in 1 .. Size : tokens[k] = ">" => k < Size /\ tokens[k + 1] = "word"
  BY TokensOfLine, LenProperties DEF ParseTypeOK
<1>2. Begins(f, n) /\ idx \in f .. Size /\ \A k \in f .. idx - 1 : tokens[k] = "word"
  <2>1. idx \in f .. Size + 1 /\ Begins(f, n) /\ \A k \in f .. idx - 1 : tokens[k] = "word"
    BY DEF Reading
  <2>2. idx \in f .. Size
    BY <1>1, <2>1
  <2> QED
    BY <2>1, <2>2
<1> HIDE DEF n
<1>3. PICK e \in f .. Size : (\A k \in f .. e - 1 : k \notin Cuts) /\ (e \in Cuts \/ e = Size)
  BY PieceEnds
<1>4. Piece(n) = f .. e /\ n \in 1 .. Pieces
  BY <1>1, <1>2, <1>3, PieceIs
<1>5. \A k \in 1 .. Size : k \in Cuts <=> tokens[k] \in {"|", "!"}
  BY <1>1 DEF Cuts
<1>6. e \in idx .. Size
  <2> SUFFICES ASSUME e < idx PROVE FALSE
    BY <1>1
  <2>1. e \in f .. idx - 1 /\ e \in 1 .. Size /\ e # Size
    BY <1>1, <1>2
  <2> QED
    BY <1>2, <1>3, <1>5, <2>1
<1>7. \A k \in f .. e : k \in 1 .. Size
  BY <1>1
<1>8. /\ \A k, m \in f .. e : k < m /\ IsArg(m) => IsArg(k)
      /\ \A k, m \in f .. e : tokens[k] \in Outputs /\ tokens[m] \in Outputs => k = m
      /\ \A k, m \in f .. e : tokens[k] = "<N" /\ tokens[m] = "<N" => k = m
      /\ \A m \in f .. e, k \in f .. e : tokens[m] \in {"|N", "!N"} => k <= m
      /\ \A k, m \in f .. e : tokens[k] = "<N" /\ tokens[m] \in {"!", "!N"} => dialect = "errpipe"
      /\ \A k \in f .. e : tokens[k] \in {"<N", ">N"} => dialect # "shell"
  <2>1. /\ \A k, m \in Piece(n) : k < m /\ IsArg(m) => IsArg(k)
        /\ \A k, m \in Places(Outputs, n) : k = m
        /\ \A k, m \in Places({"<N"}, n) : k = m
        /\ \A m \in Places({"|N", "!N"}, n), k \in Piece(n) : k <= m
        /\ Places({"<N"}, n) # {} /\ dialect # "errpipe" => Places({"!", "!N"}, n) = {}
        /\ dialect = "shell" => Places({"<N", ">N"}, n) = {}
    BY <1>4 DEF Allowed
  <2> QED
    BY <1>4, <2>1 DEF Places
<1>9. \A k \in f .. e : tokens[k] \in Outputs \cup {"word", "<N"}
  BY <1>1, <1>7 DEF Allowed, Kind, Outputs
<1>10. ASSUME NEW k \in f .. e, k < idx PROVE IsArg(k) /\ tokens[k] = "word"
  <2>1. tokens[k] = "word"
    BY <1>1, <1>2, <1>10
  <2>2. CASE k = f
    <3>1. f = 1 \/ f - 1 \in Cuts
      BY <1>2 DEF Begins
    <3>2. f - 1 \in Cuts => tokens[f - 1] # ">"
      BY DEF Cuts
    <3> QED
      BY <2>1, <2>2, <3>1, <3>2 DEF IsArg
  <2>3. CASE k # f
    <3>1. k - 1 \in f .. idx - 1
      BY <1>1, <1>2, <1>10, <2>3
    <3> QED
      BY <1>2, <2>1, <3>1 DEF IsArg
  <2> QED
    BY <2>1, <2>2, <2>3
<1>11. ASSUME NEW k \in f .. e, ~(k < idx) PROVE ~IsArg(k)
  <2>1. ~IsArg(idx)
    BY DEF IsArg
  <2>2. idx \in f .. e /\ (k = idx \/ idx < k)
    BY <1>1, <1>2, <1>6, <1>11
  <2> QED
    BY <1>8, <2>1, <2>2
<1>12. ASSUME NEW k \in idx .. e - 1, tokens[k + 1] = "word" PROVE tokens[k] = ">"
  <2> DEFINE m == k + 1
  <2>1. m \in f .. e /\ ~(m < idx) /\ m # 1 /\ m - 1 = k
    BY <1>1, <1>2
  <2>2. ~IsArg(m)
    <3> HIDE DEF m
    <3> QED
      BY <1>11, <2>1
  <2> QED
    BY <1>12, <2>1, <2>2 DEF IsArg
<1>13. ASSUME NEW k \in idx .. e, tokens[k] = ">" PROVE k < e /\ tokens[k + 1] = "word"
  <2>1. k \in 1 .. Size /\ k \in f .. e
    BY <1>1, <1>2
  <2>2. k < Size /\ tokens[k + 1] = "word"
    BY <1>1, <1>13, <2>1
  <2>3. k # e
    BY <1>3, <1>5, <1>13, <2>1, <2>2
  <2> QED
    BY <1>1, <2>1, <2>2, <2>3
<1>14. \A k \in idx .. e : k \in f .. e
  BY <1>1, <1>2
<1>15. Stands(f, e)
  <2>1. Piece(Len(cmd_line) + 1) = f .. e
    BY <1>4 DEF n
  <2>2. \A k \in f .. e : IsArg(k) <=> k < idx
    BY <1>10, <1>11
  <2>3. \A k \in idx .. e - 1 : tokens[k + 1] = "word" => tokens[k] = ">"
    BY <1>12
  <2> QED
    BY <1>2, <1>3, <1>6, <1>8, <1>9, <1>10, <1>13, <1>14, <2>1, <2>2, <2>3 DEF Stands
<1> QED
  BY <1>15

\* What holds of cmd while it has only args.
LEMMA CmdSoFar ==
    ASSUME ParseTypeOK, NEW f \in 1 .. Size, Reading(f)
    PROVE  /\ cmd \in Command /\ Len(cmd.args) = idx - f
           /\ \A k \in 1 .. idx - f : cmd.args[k] = f + k - 1
           /\ cmd.file = 0 /\ cmd.num_pipe = 0 /\ cmd.in_usr_id = 0 /\ cmd.out_usr_id = 0
           /\ idx \in Nat \ {0} /\ Size \in Nat \ {0}
  BY TokensOfLine DEF ParseTypeOK, Reading

\* A branch ends the piece right if it has its output and its <N, and stops behind it.
LEMMA Finished ==
    ASSUME ParseTypeOK, Allowed, PiecesInv, ~line_end, NEW f \in 1 .. Size, Reading(f),
           NEW e \in f .. Size, Stands(f, e), NEW o, NEW u, Holds(idx, e, o, u),
           NEW c, Spells(c, f, o, u), NEW next, next = e + 1, Break(c, next)
    PROVE  PiecesInv'
<1> DEFINE n == Len(cmd_line) + 1
<1>1. Size \in Nat \ {0} /\ f \in Nat /\ e \in Nat /\ idx \in Nat
  BY CmdSoFar
<1>2. /\ idx \in f .. Size /\ e \in idx .. Size /\ Piece(n) = f .. e
      /\ \A k \in f .. e : IsArg(k) <=> k < idx
      /\ \A k \in f .. e : k < idx => tokens[k] = "word"
      /\ (\A k \in f .. e - 1 : k \notin Cuts) /\ (e \in Cuts \/ e = Size)
  BY DEF Stands
<1> HIDE DEF n
<1>3. /\ \A k \in f .. e : k < idx \/ k \in idx .. e
      /\ \A k \in idx .. e : k \in f .. e /\ ~(k < idx)
      /\ ~(0 \in f .. e) /\ idx \in f .. e + 1
  BY <1>1, <1>2
<1>4. Holds(f, e, o, u)
  <2>1. "word" \notin Outputs
    BY DEF Outputs
  <2>2. /\ o \in {0} \cup (idx .. e) /\ \A k \in idx .. e : tokens[k] \in Outputs <=> k = o
        /\ u \in {0} \cup (idx .. e) /\ \A k \in idx .. e : tokens[k] = "<N" <=> k = u
    BY DEF Holds
  <2>3. /\ o \in {0} \cup (f .. e) /\ \A k \in f .. e : tokens[k] \in Outputs <=> k = o
    BY <1>2, <1>3, <2>1, <2>2
  <2>4. u \in {0} \cup (f .. e) /\ \A k \in f .. e : tokens[k] = "<N" <=> k = u
    BY <1>2, <1>3, <2>2
  <2> QED
    BY <2>3, <2>4 DEF Holds
<1>5. Means(c, n)
  BY <1>2, <1>3, <1>4, Meant
<1>6. c \in Command
  BY DEF Spells
<1> QED
  BY <1>2, <1>5, <1>6, Closes DEF n

-----------------------------------------------------------------------------
(* The branches.  Which place is the last of a piece is seen from the token*)
(* behind it: it would have to be a word, an output or a <N.               *)

\* A cut, a number, or >N with no <N behind it, is the last token.
LEMMA AloneEnds ==
    ASSUME ParseTypeOK, NEW f \in 1 .. Size, NEW e \in f .. Size, Stands(f, e),
           \/ tokens[idx] \in {"|", "!", "|N", "!N"}
           \/ tokens[idx] = ">N" /\ ~Next1("<N")
    PROVE  e = idx
<1> DEFINE k == idx + 1
<1>1. /\ idx \in Nat /\ f \in Nat /\ Size \in Nat /\ DOMAIN tokens = 1 .. Size
      /\ idx \in f .. Size /\ e \in idx .. Size
  BY TokensOfLine DEF Stands, ParseTypeOK
<1> SUFFICES ASSUME idx < e PROVE FALSE
  BY <1>1
<1>2. /\ idx \in idx .. e - 1 /\ k \in idx .. e /\ idx \in idx .. e /\ idx \in f .. e - 1
      /\ k # idx /\ ~(k <= idx)
  BY <1>1
<1>3. CASE tokens[idx] \in {"|", "!"}
  BY <1>1, <1>2, <1>3 DEF Stands, Cuts
<1>4. CASE tokens[idx] \in {"|N", "!N"}
  BY <1>2, <1>4 DEF Stands
<1>5. CASE tokens[idx] = ">N" /\ ~Next1("<N")
  <2>1. tokens[k] # "<N"
    BY <1>1, <1>5 DEF Next1
  <2>2. tokens[k] \notin Outputs /\ tokens[k] # "word"
    BY <1>2, <1>5 DEF Stands, Outputs
  <2> QED
    BY <1>2, <2>1, <2>2 DEF Stands
<1> QED
  BY <1>3, <1>4, <1>5

\* So is what stands behind a <N, an output other than > or nothing.
LEMMA PairEnds ==
    ASSUME ParseTypeOK, NEW f \in 1 .. Size, NEW e \in f .. Size, Stands(f, e), tokens[idx] = "<N"
    PROVE  /\ ~(\E kind \in Outputs : Next1(kind)) => e = idx
           /\ (\E kind \in Outputs \ {">"} : Next1(kind)) => e = idx + 1
<1> DEFINE k == idx + 1
           m == idx + 2
<1>1. /\ idx \in Nat /\ f \in Nat /\ Size \in Nat /\ DOMAIN tokens = 1 .. Size
      /\ idx \in f .. Size /\ e \in idx .. Size
  BY TokensOfLine DEF Stands, ParseTypeOK
<1>2. idx < Size => idx < e
  <2>1. idx \notin Cuts
    BY DEF Cuts
  <2> QED
    BY <1>1, <2>1 DEF Stands
<1>3. ASSUME idx < e PROVE tokens[k] \in Outputs /\ idx < Size
  <2>1. k \in idx .. e /\ idx \in idx .. e /\ k # idx /\ idx \in idx .. e - 1 /\ idx < Size
    BY <1>1, <1>3
  <2>2. tokens[k] # "word" /\ tokens[k] # "<N"
    BY <2>1 DEF Stands
  <2> QED
    BY <2>1, <2>2 DEF Stands
<1>4. ~(\E kind \in Outputs : Next1(kind)) => e = idx
  BY <1>1, <1>3 DEF Next1
<1>5. ASSUME NEW kind \in Outputs \ {">"}, Next1(kind) PROVE e = k
  <2>1. tokens[k] = kind /\ idx < Size
    BY <1>5 DEF Next1
  <2>2. idx < e
    BY <1>2, <2>1
  <2> SUFFICES ASSUME k < e PROVE FALSE
    BY <1>1, <2>2
  <2>3. /\ k \in idx .. e - 1 /\ m \in idx .. e /\ idx \in idx .. e /\ k \in idx .. e /\ m # k
        /\ m # idx /\ m = k + 1
    BY <1>1
  <2>4. tokens[m] # "word" /\ tokens[m] # "<N" /\ tokens[m] \notin Outputs
    BY <1>5, <2>1, <2>3 DEF Stands
  <2> QED
    BY <2>3, <2>4 DEF Stands
<1> QED
  BY <1>4, <1>5

\* >N <N is the end of a piece.
LEMMA OutInEnds ==
    ASSUME ParseTypeOK, NEW f \in 1 .. Size, NEW e \in f .. Size, Stands(f, e),
           tokens[idx] = ">N", Next1("<N")
    PROVE  e = idx + 1
<1> DEFINE k == idx + 1
           m == idx + 2
<1>1. /\ idx \in Nat /\ f \in Nat /\ Size \in Nat /\ DOMAIN tokens = 1 .. Size
      /\ idx \in f .. Size /\ e \in idx .. Size
  BY TokensOfLine DEF Stands, ParseTypeOK
<1>2. tokens[k] = "<N" /\ idx < Size
  BY DEF Next1
<1>3. idx < e
  <2>1. idx \notin Cuts
    BY DEF Cuts
  <2> QED
    BY <1>1, <1>2, <2>1 DEF Stands
<1> SUFFICES ASSUME k < e PROVE FALSE
  BY <1>1, <1>3
<1>4. /\ k \in idx .. e - 1 /\ m \in idx .. e /\ idx \in idx .. e /\ k \in idx .. e /\ m # k
      /\ m # idx /\ m = k + 1
  BY <1>1
<1>5. tokens[m] # "word" /\ tokens[m] # "<N" /\ tokens[m] \notin Outputs
  BY <1>2, <1>4 DEF Stands, Outputs
<1> QED
  BY <1>4, <1>5 DEF Stands

\* A file is the end of a piece, but for a <N behind it.
LEMMA FileEnds ==
    ASSUME ParseTypeOK, NEW f \in 1 .. Size, NEW e \in f .. Size, Stands(f, e), NEW p \in idx .. e,
           tokens[p] = ">"
    PROVE  /\ p < e /\ tokens[p + 1] = "word"
           /\ e = p + 1 \/ (p + 2 \in idx .. e /\ tokens[p + 2] = "<N")
           /\ p + 2 \in idx .. e /\ tokens[p + 2] = "<N" => e = p + 2
           /\ p + 2 \in 1 .. Size /\ tokens[p + 2] = "<N" => p + 2 \in idx .. e
<1> DEFINE k == p + 1
           m == p + 2
           j == p + 3
<1>1. /\ idx \in Nat /\ f \in Nat /\ p \in Nat /\ Size \in Nat /\ DOMAIN tokens = 1 .. Size
      /\ idx \in f .. Size /\ e \in idx .. Size
  BY TokensOfLine DEF Stands, ParseTypeOK
<1>2. p < e /\ tokens[k] = "word"
  BY DEF Stands
<1>3. k \in idx .. e /\ p \in idx .. e /\ p < k
  BY <1>1, <1>2
<1>4. ASSUME k < e PROVE m \in idx .. e /\ tokens[m] = "<N"
  <2>1. m \in idx .. e /\ m # p /\ k \in idx .. e - 1 /\ m = k + 1
    BY <1>1, <1>3, <1>4
  <2>2. tokens[m] # "word" /\ tokens[m] \notin Outputs
    BY <1>2, <1>3, <2>1 DEF Stands, Outputs
  <2> QED
    BY <2>1, <2>2 DEF Stands
<1>5. ASSUME m \in idx .. e, tokens[m] = "<N" PROVE e = m
  <2> SUFFICES ASSUME m < e PROVE FALSE
    BY <1>1, <1>5
  <2>1. j \in idx .. e /\ j # m /\ j # p /\ m \in idx .. e - 1 /\ j = m + 1
    BY <1>1
  <2>2. tokens[j] # "word" /\ tokens[j] # "<N" /\ tokens[j] \notin Outputs
    BY <1>3, <1>5, <2>1 DEF Stands, Outputs
  <2> QED
    BY <2>1, <2>2 DEF Stands
<1>6. ASSUME m \in 1 .. Size PROVE m \in idx .. e
  <2>1. k \in 1 .. Size /\ k \notin Cuts
    BY <1>1, <1>2, <1>3 DEF Cuts
  <2>2. k # e
    BY <1>1, <1>6, <2>1 DEF Stands
  <2> QED
    BY <1>1, <1>3, <2>2
<1>7. e = k \/ k < e
  BY <1>1, <1>3
<1> QED
  BY <1>2, <1>4, <1>5, <1>6, <1>7

\* The branches that end a piece: each finds the output and the <N that the piece has.
LEMMA BranchEnds ==
    ASSUME ParseTypeOK, Allowed, PiecesInv, ~line_end, NEW f \in 1 .. Size, Reading(f),
           NEW e \in f .. Size, Stands(f, e),
           \/ Pipe \/ NumPipe \/ ErrPipe \/ ErrNumPipe \/ OutUserPipe \/ File
           \/ InErrPipe \/ InErrNumPipe \/ InOut \/ InFile \/ InPipe \/ InNumPipe \/ InUserPipe
    PROVE  PiecesInv'
<1>1. /\ cmd \in Command /\ Len(cmd.args) = idx - f /\ \A k \in 1 .. idx - f : cmd.args[k] = f + k - 1
      /\ cmd.file = 0 /\ cmd.num_pipe = 0 /\ cmd.in_usr_id = 0 /\ cmd.out_usr_id = 0
      /\ idx \in Nat \ {0} /\ Size \in Nat \ {0} /\ f \in Nat
  BY CmdSoFar
<1>2. e \in idx .. Size /\ e \in Nat /\ idx + 1 \in Nat /\ idx + 2 \in Nat
  BY <1>1 DEF Stands
<1>3. CASE Pipe
  <2> DEFINE c == [cmd EXCEPT !.type = "pipe"]
             p == idx + 1
  <2>1. tokens[idx] = "|"
    BY <1>3 DEF Pipe, At, AtIn, Next1
  <2>2. e = idx
    BY <2>1, AloneEnds
  <2>3. Holds(idx, e, idx, 0)
    BY <1>1, <2>1, <2>2 DEF Holds, Outputs
  <2>4. Spells(c, f, idx, 0)
    BY <1>1, <2>1 DEF Spells, TypeAlone, Command, CmdType
  <2>5. Break(c, p) /\ p = e + 1
    BY <1>1, <1>3, <2>2 DEF Pipe
  <2> HIDE DEF c, p
  <2> QED
    BY <2>3, <2>4, <2>5, Finished
<1>4. CASE NumPipe
  <2> DEFINE c == [cmd EXCEPT !.type = "num_pipe", !.num_pipe = idx]
             p == idx + 1
  <2>1. tokens[idx] = "|N"
    BY <1>4 DEF NumPipe, At, AtIn, Next1
  <2>2. e = idx
    BY <2>1, AloneEnds
  <2>3. Holds(idx, e, idx, 0)
    BY <1>1, <2>1, <2>2 DEF Holds, Outputs
  <2>4. Spells(c, f, idx, 0)
    BY <1>1, <2>1 DEF Spells, TypeAlone, Command, CmdType
  <2>5. Break(c, p) /\ p = e + 1
    BY <1>1, <1>4, <2>2 DEF NumPipe
  <2> HIDE DEF c, p
  <2> QED
    BY <2>3, <2>4, <2>5, Finished
<1>5. CASE ErrPipe
  <2> DEFINE c == [cmd EXCEPT !.type = "err_pipe"]
             p == idx + 1
  <2>1. tokens[idx] = "!"
    BY <1>5 DEF ErrPipe, At, AtIn, Next1
  <2>2. e = idx
    BY <2>1, AloneEnds
  <2>3. Holds(idx, e, idx, 0)
    BY <1>1, <2>1, <2>2 DEF Holds, Outputs
  <2>4. Spells(c, f, idx, 0)
    BY <1>1, <2>1 DEF Spells, TypeAlone, Command, CmdType
  <2>5. Break(c, p) /\ p = e + 1
    BY <1>1, <1>5, <2>2 DEF ErrPipe
  <2> HIDE DEF c, p
  <2> QED
    BY <2>3, <2>4, <2>5, Finished
<1>6. CASE ErrNumPipe
  <2> DEFINE c == [cmd EXCEPT !.type = "err_num_pipe", !.num_pipe = idx]
             p == idx + 1
  <2>1. tokens[idx] = "!N"
    BY <1>6 DEF ErrNumPipe, At, AtIn, Next1
  <2>2. e = idx
    BY <2>1, AloneEnds
  <2>3. Holds(idx, e, idx, 0)
    BY <1>1, <2>1, <2>2 DEF Holds, Outputs
  <2>4. Spells(c, f, idx, 0)
    BY <1>1, <2>1 DEF Spells, TypeAlone, Command, CmdType
  <2>5. Break(c, p) /\ p = e + 1
    BY <1>1, <1>6, <2>2 DEF ErrNumPipe
  <2> HIDE DEF c, p
  <2> QED
    BY <2>3, <2>4, <2>5, Finished
<1>7. CASE InOut
  <2> DEFINE c == [cmd EXCEPT !.type = "in_out_user_pipe", !.in_usr_id = idx, !.out_usr_id = idx + 1]
             p == idx + 2
             o == idx + 1
  <2>1. tokens[idx] = "<N" /\ tokens[idx + 1] = ">N" /\ Next1(">N")
    BY <1>7 DEF InOut, At, AtIn, Next1
  <2>2. e = idx + 1
    BY <1>1, <2>1, PairEnds DEF Outputs
  <2>3. Holds(idx, e, o, idx)
    BY <1>1, <2>1, <2>2 DEF Holds, Outputs
  <2>4. Spells(c, f, o, idx)
    <3>1. tokens[o] = ">N" /\ o # 0 /\ o \in Nat /\ idx # 0
      BY <1>1, <2>1
    <3>2. /\ c \in Command /\ c.args = cmd.args /\ c.type = "in_out_user_pipe" /\ c.file = 0
          /\ c.num_pipe = 0 /\ c.in_usr_id = idx /\ c.out_usr_id = o
      BY <1>1, <1>2 DEF Command, CmdType
    <3> HIDE DEF c, o
    <3> QED
      BY <1>1, <3>1, <3>2 DEF Spells, TypeWithIn
  <2>5. Break(c, p) /\ p = e + 1
    BY <1>1, <1>7, <2>2 DEF InOut
  <2> HIDE DEF c, p, o
  <2> QED
    BY <2>3, <2>4, <2>5, Finished
<1>8. CASE InPipe
  <2> DEFINE c == [cmd EXCEPT !.type = "in_pipe_user_pipe", !.in_usr_id = idx]
             p == idx + 2
             o == idx + 1
  <2>1. tokens[idx] = "<N" /\ tokens[idx + 1] = "|" /\ Next1("|")
    BY <1>8 DEF InPipe, At, AtIn, Next1
  <2>2. e = idx + 1
    BY <1>1, <2>1, PairEnds DEF Outputs
  <2>3. Holds(idx, e, o, idx)
    BY <1>1, <2>1, <2>2 DEF Holds, Outputs
  <2>4. Spells(c, f, o, idx)
    <3>1. tokens[o] = "|" /\ o # 0 /\ o \in Nat /\ idx # 0
      BY <1>1, <2>1
    <3>2. /\ c \in Command /\ c.args = cmd.args /\ c.type = "in_pipe_user_pipe" /\ c.file = 0
          /\ c.num_pipe = 0 /\ c.in_usr_id = idx /\ c.out_usr_id = 0
      BY <1>1, <1>2 DEF Command, CmdType
    <3> HIDE DEF c, o
    <3> QED
      BY <1>1, <3>1, <3>2 DEF Spells, TypeWithIn
  <2>5. Break(c, p) /\ p = e + 1
    BY <1>1, <1>8, <2>2 DEF InPipe
  <2> HIDE DEF c, p, o
  <2> QED
    BY <2>3, <2>4, <2>5, Finished
<1>9. CASE InNumPipe
  <2> DEFINE c == [cmd EXCEPT !.type = "in_numpipe_user_pipe", !.in_usr_id = idx, !.num_pipe = idx + 1]
             p == idx + 2
             o == idx + 1
  <2>1. tokens[idx] = "<N" /\ tokens[idx + 1] = "|N" /\ Next1("|N")
    BY <1>9 DEF InNumPipe, At, AtIn, Next1
  <2>2. e = idx + 1
    BY <1>1, <2>1, PairEnds DEF Outputs
  <2>3. Holds(idx, e, o, idx)
    BY <1>1, <2>1, <2>2 DEF Holds, Outputs
  <2>4. Spells(c, f, o, idx)
    <3>1. tokens[o] = "|N" /\ o # 0 /\ o \in Nat /\ idx # 0
      BY <1>1, <2>1
    <3>2. /\ c \in Command /\ c.args = cmd.args /\ c.type = "in_numpipe_user_pipe" /\ c.file = 0
          /\ c.num_pipe = o /\ c.in_usr_id = idx /\ c.out_usr_id = 0
      BY <1>1, <1>2 DEF Command, CmdType
    <3> HIDE DEF c, o
    <3> QED
      BY <1>1, <3>1, <3>2 DEF Spells, TypeWithIn
  <2>5. Break(c, p) /\ p = e + 1
    BY <1>1, <1>9, <2>2 DEF InNumPipe
  <2> HIDE DEF c, p, o
  <2> QED
    BY <2>3, <2>4, <2>5, Finished
<1>10. CASE InErrPipe
  <2> DEFINE c == [cmd EXCEPT !.type = "in_err_pipe", !.in_usr_id = idx]
             p == idx + 2
             o == idx + 1
  <2>1. tokens[idx] = "<N" /\ tokens[idx + 1] = "!" /\ Next1("!")
    BY <1>10 DEF InErrPipe, At, AtIn, Next1
  <2>2. e = idx + 1
    BY <1>1, <2>1, PairEnds DEF Outputs
  <2>3. Holds(idx, e, o, idx)
    BY <1>1, <2>1, <2>2 DEF Holds, Outputs
  <2>4. Spells(c, f, o, idx)
    <3>1. tokens[o] = "!" /\ o # 0 /\ o \in Nat /\ idx # 0
      BY <1>1, <2>1
    <3>2. /\ c \in Command /\ c.args = cmd.args /\ c.type = "in_err_pipe" /\ c.file = 0
          /\ c.num_pipe = 0 /\ c.in_usr_id = idx /\ c.out_usr_id = 0
      BY <1>1, <1>2 DEF Command, CmdType
    <3> HIDE DEF c, o
    <3> QED
      BY <1>1, <3>1, <3>2 DEF Spells, TypeWithIn
  <2>5. Break(c, p) /\ p = e + 1
    BY <1>1, <1>10, <2>2 DEF InErrPipe
  <2> HIDE DEF c, p, o
  <2> QED
    BY <2>3, <2>4, <2>5, Finished
<1>11. CASE InErrNumPipe
  <2> DEFINE c == [cmd EXCEPT !.type = "in_err_num_pipe", !.in_usr_id = idx, !.num_pipe = idx + 1]
             p == idx + 2
             o == idx + 1
  <2>1. tokens[idx] = "<N" /\ tokens[idx + 1] = "!N" /\ Next1("!N")
    BY <1>11 DEF InErrNumPipe, At, AtIn, Next1
  <2>2. e = idx + 1
    BY <1>1, <2>1, PairEnds DEF Outputs
  <2>3. Holds(idx, e, o, idx)
    BY <1>1, <2>1, <2>2 DEF Holds, Outputs
  <2>4. Spells(c, f, o, idx)
    <3>1. tokens[o] = "!N" /\ o # 0 /\ o \in Nat /\ idx # 0
      BY <1>1, <2>1
    <3>2. /\ c \in Command /\ c.args = cmd.args /\ c.type = "in_err_num_pipe" /\ c.file = 0
          /\ c.num_pipe = o /\ c.in_usr_id = idx /\ c.out_usr_id = 0
      BY <1>1, <1>2 DEF Command, CmdType
    <3> HIDE DEF c, o
    <3> QED
      BY <1>1, <3>1, <3>2 DEF Spells, TypeWithIn
  <2>5. Break(c, p) /\ p = e + 1
    BY <1>1, <1>11, <2>2 DEF InErrNumPipe
  <2> HIDE DEF c, p, o
  <2> QED
    BY <2>3, <2>4, <2>5, Finished
<1>12. CASE InUserPipe
  <2> DEFINE c == [cmd EXCEPT !.type = "in_user_pipe", !.in_usr_id = idx]
             p == idx + 1
  <2>1. /\ tokens[idx] = "<N" /\ ~(\E kind \in {">N", ">", "|", "|N"} : Next1(kind))
        /\ dialect = "errpipe" => ~Next1("!") /\ ~Next1("!N")
    BY <1>12 DEF InUserPipe, At, AtIn
  <2>2. ~(\E kind \in Outputs : Next1(kind))
    <3>1. ASSUME NEW kind \in {"!", "!N"}, Next1(kind) PROVE FALSE
      <4>1. e = idx + 1 /\ tokens[idx + 1] = kind
        BY <2>1, <3>1, PairEnds DEF Outputs, Next1
      <4>2. idx \in idx .. e /\ e \in idx .. e /\ tokens[e] = kind
        BY <1>1, <4>1
      <4>3. dialect = "errpipe"
        BY <2>1, <4>2 DEF Stands
      <4> QED
        BY <2>1, <3>1, <4>3
    <3> QED
      BY <2>1, <3>1 DEF Outputs
  <2>3. e = idx
    BY <2>1, <2>2, PairEnds
  <2>4. Holds(idx, e, 0, idx)
    BY <1>1, <2>1, <2>3 DEF Holds, Outputs
  <2>5. Spells(c, f, 0, idx)
    BY <1>1, <2>1 DEF Spells, TypeWithIn, Command, CmdType
  <2>6. Break(c, p) /\ p = e + 1
    BY <1>1, <1>12, <2>3 DEF InUserPipe
  <2> HIDE DEF c, p
  <2> QED
    BY <2>4, <2>5, <2>6, Finished
<1>13. CASE OutUserPipe
  <2>1. CASE Next1("<N")
    <3> DEFINE c == [cmd EXCEPT !.type = "in_out_user_pipe", !.in_usr_id = idx + 1, !.out_usr_id = idx]
               p == idx + 2
               x == idx + 1
    <3>1. tokens[idx] = ">N" /\ tokens[x] = "<N"
      BY <1>13, <2>1 DEF OutUserPipe, At, Next1
    <3>2. e = x
      BY <2>1, <3>1, OutInEnds
    <3>3. x \in Nat /\ p = x + 1 /\ p = e + 1 /\ e \notin Cuts /\ ~(0 \in idx .. e)
      <4>1. x \in Nat /\ p = x + 1 /\ p = e + 1 /\ ~(0 \in idx .. e)
        BY ONLY <1>1, <3>2
      <4>2. e \notin Cuts
        BY ONLY <3>1, <3>2 DEF Cuts
      <4> QED
        BY ONLY <4>1, <4>2
    <3>4. p > Size
      BY <1>1, <1>2, <3>3 DEF Stands
    <3>5. Break(c, p)
      BY <1>13, <2>1, <3>4 DEF OutUserPipe, BreakAtEnd
    <3>6. Holds(idx, e, idx, x)
      <4>1. \A k \in idx .. e : k = idx \/ k = x
        BY <1>1, <3>2
      <4>2. idx \in idx .. e /\ x \in idx .. e /\ idx # x
        BY <1>1, <3>2
      <4> HIDE DEF x
      <4>3. \A k \in idx .. e : (tokens[k] \in Outputs <=> k = idx) /\ (tokens[k] = "<N" <=> k = x)
        BY <3>1, <4>1, <4>2 DEF Outputs
      <4> QED
        BY <4>2, <4>3 DEF Holds
    <3>7. Spells(c, f, idx, x)
      <4>1. /\ c \in Command /\ c.args = cmd.args /\ c.type = "in_out_user_pipe" /\ c.file = 0
            /\ c.num_pipe = 0 /\ c.in_usr_id = idx + 1 /\ c.out_usr_id = idx
        BY <1>1, <1>2 DEF Command, CmdType
      <4>2. idx # 0 /\ tokens[idx] = ">N" /\ x # 0
        BY <1>1, <3>1, <3>3
      <4> HIDE DEF c, x
      <4> QED
        BY <1>1, <3>3, <4>1, <4>2 DEF Spells, TypeWithIn
    <3> HIDE DEF c, p, x
    <3> QED
      BY <3>3, <3>5, <3>6, <3>7, Finished
  <2>2. CASE ~Next1("<N")
    <3> DEFINE c == [cmd EXCEPT !.type = "out_user_pipe", !.out_usr_id = idx]
               p == idx + 1
    <3>1. tokens[idx] = ">N"
      BY <1>1, <1>13 DEF OutUserPipe, At
    <3>2. e = idx
      BY <1>1, <2>2, <3>1, AloneEnds
    <3>3. p = e + 1 /\ e \notin Cuts /\ ~(0 \in idx .. e)
      BY <1>1, <3>1, <3>2 DEF Cuts
    <3>4. p > Size
      BY <1>1, <1>2, <3>3 DEF Stands
    <3>5. Break(c, p)
      BY <1>13, <2>2, <3>4 DEF OutUserPipe, BreakAtEnd
    <3>6. Holds(idx, e, idx, 0)
      BY <1>1, <1>2, <3>1, <3>2, <3>3 DEF Holds, Outputs
    <3>7. Spells(c, f, idx, 0)
      <4>1. /\ c \in Command /\ c.args = cmd.args /\ c.type = "out_user_pipe" /\ c.file = 0
            /\ c.num_pipe = 0 /\ c.in_usr_id = 0 /\ c.out_usr_id = idx
        BY <1>1, <1>2 DEF Command, CmdType
      <4>2. idx # 0 /\ tokens[idx] = ">N"
        BY <1>1, <3>1, <3>3
      <4> HIDE DEF c
      <4> QED
        BY <1>1, <3>3, <4>1, <4>2 DEF Spells, TypeAlone
    <3> HIDE DEF c, p
    <3> QED
      BY <3>3, <3>5, <3>6, <3>7, Finished
  <2> QED
    BY <2>1, <2>2
<1>14. CASE File
  <2>1. CASE dialect # "shell" /\ idx + 2 <= Size /\ tokens[idx + 2] = "<N"
    <3> DEFINE c == [cmd EXCEPT !.type = "in_file_user_pipe", !.in_usr_id = idx + 2, !.file = idx + 1]
               p == idx + 3
               x == idx + 2
    <3>1. tokens[idx] = ">" /\ tokens[x] = "<N" /\ tokens[idx + 1] = "word" /\ x \in 1 .. Size
      BY <1>1, <1>14, <2>1, TokensOfLine, FileEnds DEF File, At
    <3>2. e = x
      <4>1. idx \in idx .. e
        BY <1>1, <1>2
      <4>2. /\ x \in 1 .. Size /\ tokens[x] = "<N" => x \in idx .. e
            /\ x \in idx .. e /\ tokens[x] = "<N" => e = x
        BY <3>1, <4>1, FileEnds
      <4> QED
        BY <3>1, <4>2
    <3>3. x \in Nat /\ p = x + 1 /\ p = e + 1 /\ e \notin Cuts /\ ~(0 \in idx .. e)
      <4>1. x \in Nat /\ p = x + 1 /\ p = e + 1 /\ ~(0 \in idx .. e)
        BY ONLY <1>1, <3>2
      <4>2. e \notin Cuts
        BY ONLY <3>1, <3>2 DEF Cuts
      <4> QED
        BY ONLY <4>1, <4>2
    <3>4. p > Size
      BY <1>1, <1>2, <3>3 DEF Stands
    <3>5. Break(c, p)
      BY <1>14, <2>1, <3>4 DEF File, BreakAtEnd
    <3>6. Holds(idx, e, idx, x)
      <4>1. \A k \in idx .. e : k = idx \/ k = idx + 1 \/ k = x
        BY <1>1, <3>2
      <4>2. idx \in idx .. e /\ x \in idx .. e /\ idx # x /\ idx + 1 # idx /\ idx + 1 # x
        BY <1>1, <3>2
      <4> HIDE DEF x
      <4>3. \A k \in idx .. e : (tokens[k] \in Outputs <=> k = idx) /\ (tokens[k] = "<N" <=> k = x)
        BY <3>1, <4>1, <4>2 DEF Outputs
      <4> QED
        BY <4>2, <4>3 DEF Holds
    <3>7. Spells(c, f, idx, x)
      <4>1. /\ c \in Command /\ c.args = cmd.args /\ c.type = "in_file_user_pipe" /\ c.file = idx + 1
            /\ c.num_pipe = 0 /\ c.in_usr_id = idx + 2 /\ c.out_usr_id = 0
        BY <1>1, <1>2 DEF Command, CmdType
      <4>2. idx # 0 /\ tokens[idx] = ">" /\ x # 0
        BY <1>1, <3>1, <3>3
      <4> HIDE DEF c, x
      <4> QED
        BY <1>1, <3>3, <4>1, <4>2 DEF Spells, TypeWithIn
    <3> HIDE DEF c, p, x
    <3> QED
      BY <3>3, <3>5, <3>6, <3>7, Finished
  <2>2. CASE ~(dialect # "shell" /\ idx + 2 <= Size /\ tokens[idx + 2] = "<N")
    <3> DEFINE c == [cmd EXCEPT !.type = "file_pipe", !.file = idx + 1]
               p == idx + 2
               x == idx + 1
    <3>1. tokens[idx] = ">" /\ tokens[x] = "word" /\ x \in 1 .. Size
      BY <1>1, <1>14, TokensOfLine DEF File, At
    <3>2. e = x
      BY <1>1, <1>2, <2>2, <3>1, FileEnds DEF Stands
    <3>3. x \in Nat /\ p = x + 1 /\ p = e + 1 /\ e \notin Cuts /\ ~(0 \in idx .. e)
      <4>1. e \notin Cuts
        BY <3>1, <3>2 DEF Cuts
      <4>2. x \in Nat /\ p = x + 1 /\ p = e + 1
        BY <1>1, <3>2
      <4>3. ~(0 \in idx .. e)
        BY <1>1
      <4> QED
        BY <4>1, <4>2, <4>3
    <3>4. p > Size
      BY <1>1, <1>2, <3>3 DEF Stands
    <3>5. Break(c, p)
      BY <1>14, <2>2, <3>4 DEF File, BreakAtEnd
    <3>6. Holds(idx, e, idx, 0)
      BY <1>1, <1>2, <3>1, <3>2, <3>3 DEF Holds, Outputs
    <3>7. Spells(c, f, idx, 0)
      <4>1. /\ c \in Command /\ c.args = cmd.args /\ c.type = "file_pipe" /\ c.file = idx + 1
            /\ c.num_pipe = 0 /\ c.in_usr_id = 0 /\ c.out_usr_id = 0
        BY <1>1, <1>2 DEF Command, CmdType
      <4>2. idx # 0 /\ tokens[idx] = ">"
        BY <1>1, <3>1, <3>3
      <4> HIDE DEF c, x
      <4> QED
        BY <1>1, <3>3, <4>1, <4>2 DEF Spells, TypeAlone
    <3> HIDE DEF c, p, x
    <3> QED
      BY <3>3, <3>5, <3>6, <3>7, Finished
  <2> QED
    BY <2>1, <2>2
<1>15. CASE InFile
  <2> DEFINE c == [cmd EXCEPT !.type = "in_file_user_pipe", !.in_usr_id = idx, !.file = idx + 2]
             o == idx + 1
             p == idx + 3
  <2>1. tokens[idx] = "<N" /\ tokens[o] = ">" /\ idx < Size
    BY <1>15 DEF InFile, AtIn, At, Next1
  <2>2. o \in idx .. e
    <3>1. idx \notin Cuts
      BY <2>1 DEF Cuts
    <3>2. idx # e
      BY <1>1, <2>1, <3>1 DEF Stands
    <3> QED
      BY <1>1, <1>2, <3>2
  <2>3. tokens[idx + 2] = "word" /\ e = idx + 2
    <3>1. /\ o < e /\ tokens[o + 1] = "word"
          /\ e = o + 1 \/ (o + 2 \in idx .. e /\ tokens[o + 2] = "<N")
      <4> HIDE DEF o
      <4> QED
        BY <2>1, <2>2, FileEnds
    <3>2. ~(o + 2 \in idx .. e /\ tokens[o + 2] = "<N")
      <4>1. idx \in idx .. e /\ o + 2 # idx
        BY <1>1, <1>2
      <4> HIDE DEF o
      <4> QED
        BY <2>1, <4>1 DEF Stands
    <3> QED
      BY <1>1, <3>1, <3>2
  <2>4. p = e + 1 /\ ~(0 \in idx .. e) /\ o # 0 /\ o \in Nat /\ idx # 0
    BY <1>1, <2>3
  <2>5. Holds(idx, e, o, idx)
    BY <1>1, <2>1, <2>2, <2>3 DEF Holds, Outputs
  <2>6. Spells(c, f, o, idx)
    <3>1. /\ c \in Command /\ c.args = cmd.args /\ c.type = "in_file_user_pipe" /\ c.file = idx + 2
          /\ c.num_pipe = 0 /\ c.in_usr_id = idx /\ c.out_usr_id = 0
      BY <1>1, <1>2 DEF Command, CmdType
    <3>2. idx + 2 = o + 1
      BY <1>1
    <3> HIDE DEF c, o
    <3> QED
      BY <1>1, <2>1, <2>4, <3>1, <3>2 DEF Spells, TypeWithIn
  <2>7. Break(c, p)
    BY <1>15 DEF InFile
  <2> HIDE DEF c, o, p
  <2> QED
    BY <2>4, <2>5, <2>6, <2>7, Finished
<1> QED
  BY <1>3, <1>4, <1>5, <1>6, <1>7, <1>8, <1>9, <1>10, <1>11, <1>12, <1>13, <1>14, <1>15

\* The commands that are complete keep their meaning.
LEMMA CommandsKept ==
    ASSUME UNCHANGED <<dialect, tokens, cmd_line>>,
           \A n \in 1 .. Len(cmd_line) : Means(cmd_line[n], n)
    PROVE  (\A n \in 1 .. Len(cmd_line) : Means(cmd_line[n], n))'
<1> SUFFICES ASSUME NEW n \in 1 .. Len(cmd_line') PROVE (Means(cmd_line[n], n))'
  OBVIOUS
<1>1. Means(cmd_line'[n], n)
  OBVIOUS
<1>2. /\ Args(n)' = Args(n) /\ OutputOf(n)' = OutputOf(n)
      /\ \A K : PlaceOf(K, n)' = PlaceOf(K, n)
  BY SameLine
<1> QED
  BY <1>1, <1>2 DEF Means

\* A word is one more arg.
LEMMA WordGoesOn ==
    ASSUME ParseTypeOK, PiecesInv, ~line_end, NEW f \in 1 .. Size, Reading(f), Word
    PROVE  PiecesInv'
<1>1. /\ cmd \in Command /\ Len(cmd.args) = idx - f /\ \A k \in 1 .. idx - f : cmd.args[k] = f + k - 1
      /\ cmd.file = 0 /\ cmd.num_pipe = 0 /\ cmd.in_usr_id = 0 /\ cmd.out_usr_id = 0
      /\ idx \in Nat \ {0} /\ Size \in Nat \ {0} /\ f \in Nat
  BY CmdSoFar
<1>2. /\ tokens[idx] = "word" /\ idx <= Size /\ idx' = idx + 1
      /\ UNCHANGED <<dialect, tokens, cmd_line, line_end>>
      /\ cmd' = [cmd EXCEPT !.args = Append(@, idx)]
  BY DEF Word, At, Continue
<1>3. idx \in f .. Size + 1 /\ \A k \in f .. idx - 1 : tokens[k] = "word"
  BY DEF Reading
<1>4. (\A n \in 1 .. Len(cmd_line) : Means(cmd_line[n], n))'
  BY <1>2, CommandsKept DEF PiecesInv
<1>5. Begins(f, Len(cmd_line) + 1)'
  <2>1. Begins(f, Len(cmd_line') + 1)
    BY <1>2 DEF Reading
  <2> QED
    BY <1>2, <2>1, SameLine
<1>6. idx' \in f .. Size' + 1 /\ \A k \in f .. idx' - 1 : tokens'[k] = "word"
  BY <1>1, <1>2, <1>3, SameLine
<1>7. Len(cmd'.args) = idx' - f /\ \A k \in 1 .. idx' - f : cmd'.args[k] = f + k - 1
  <2> DEFINE s == cmd.args
             t == cmd'.args
             k == idx - f
  <2>1. s \in Seq(Nat) /\ t = Append(s, idx) /\ Len(s) = k /\ \A m \in 1 .. k : s[m] = f + m - 1
    BY <1>1, <1>2 DEF Command
  <2>2. k \in Nat /\ idx' - f = k + 1 /\ idx = f + (k + 1) - 1
    BY <1>1, <1>2, <1>3
  <2> HIDE DEF s, t, k
  <2>3. Len(t) = k + 1 /\ t[k + 1] = idx /\ \A m \in 1 .. k : t[m] = s[m]
    BY <1>1, <2>1, <2>2, AppendProperties
  <2>4. \A m \in 1 .. k + 1 : t[m] = f + m - 1
    <3>1. \A m \in 1 .. k + 1 : m \in 1 .. k \/ m = k + 1
      BY <2>2
    <3> QED
      BY <2>1, <2>2, <2>3, <3>1
  <2> QED
    BY <2>2, <2>3, <2>4 DEF t
<1>8. cmd'.file = 0 /\ cmd'.num_pipe = 0 /\ cmd'.in_usr_id = 0 /\ cmd'.out_usr_id = 0
  BY <1>1, <1>2 DEF Command
<1>9. cmd'.type = ""
  <2>1. cmd'.type = cmd.type
    BY <1>1, <1>2 DEF Command
  <2> QED
    BY <2>1 DEF Reading
<1>10. Reading(f)'
  BY <1>5, <1>6, <1>7, <1>8, <1>9 DEF Reading
<1>11. f \in 1 .. Size' /\ ~line_end'
  BY <1>2, SameLine
<1> QED
  BY <1>4, <1>10, <1>11 DEF PiecesInv

\* The line ends: its last piece is words only.
LEMMA LastWordEnds ==
    ASSUME ParseTypeOK, Allowed, PiecesInv, ~line_end, NEW f \in 1 .. Size, Reading(f), LastWord
    PROVE  PiecesInv'
<1> DEFINE n == Len(cmd_line) + 1
           e == Size
<1>1. /\ cmd \in Command /\ Len(cmd.args) = idx - f /\ \A k \in 1 .. idx - f : cmd.args[k] = f + k - 1
      /\ cmd.file = 0 /\ cmd.num_pipe = 0 /\ cmd.in_usr_id = 0 /\ cmd.out_usr_id = 0
      /\ idx \in Nat \ {0} /\ Size \in Nat \ {0} /\ f \in Nat /\ n \in Nat
  BY CmdSoFar, LenProperties DEF ParseTypeOK
<1>2. /\ Begins(f, n) /\ idx \in f .. Size + 1 /\ \A k \in f .. idx - 1 : tokens[k] = "word"
  BY DEF Reading
<1>3. idx = e + 1 /\ e \in f .. Size /\ Break(cmd, idx)
  <2>1. idx > Size /\ Break(cmd, idx)
    BY DEF LastWord
  <2>2. f \in 1 .. Size
    OBVIOUS
  <2>3. idx = Size + 1 /\ Size \in f .. Size
    BY <1>1, <1>2, <2>1, <2>2
  <2> QED
    BY <2>1, <2>3
<1>4. \A k \in f .. e : tokens[k] = "word" /\ k < idx /\ k \notin Cuts
  BY <1>1, <1>2, <1>3 DEF Cuts
<1> HIDE DEF n, e
<1>5. (\A k \in f .. e - 1 : k \notin Cuts) /\ (e \in Cuts \/ e = Size)
  <2>1. \A k \in f .. e - 1 : k \in f .. e
    BY <1>1 DEF e
  <2> QED
    BY <1>4, <2>1 DEF e
<1>6. Piece(n) = f .. e
  BY <1>1, <1>2, <1>3, <1>5, PieceIs
<1>7. ASSUME NEW k \in f .. e PROVE IsArg(k)
  <2>1. tokens[k] = "word"
    BY <1>4
  <2>2. CASE k = f
    <3>1. f = 1 \/ f - 1 \in Cuts
      BY <1>2 DEF Begins
    <3>2. f - 1 \in Cuts => tokens[f - 1] # ">"
      BY DEF Cuts
    <3> QED
      BY <2>1, <2>2, <3>1, <3>2 DEF IsArg
  <2>3. CASE k # f
    <3>1. k - 1 \in f .. e
      BY <1>1, <2>3 DEF e
    <3> QED
      BY <1>4, <2>1, <3>1 DEF IsArg
  <2> QED
    BY <2>2, <2>3
<1>8. Holds(f, e, 0, 0)
  <2>1. ~(0 \in f .. e)
    BY <1>1
  <2> QED
    BY <1>4, <2>1 DEF Holds, Outputs
<1>9. Spells(cmd, f, 0, 0)
  <2>1. cmd.type = TypeAlone("none")
    BY DEF Reading, TypeAlone
  <2> QED
    BY <1>1, <2>1 DEF Spells
<1>10. Means(cmd, n)
  <2>1. idx \in f .. e + 1 /\ \A k \in f .. e : IsArg(k) <=> k < idx
    BY <1>1, <1>2, <1>4, <1>7 DEF e
  <2> QED
    BY <1>3, <1>6, <1>8, <1>9, <2>1, Meant
<1> QED
  BY <1>1, <1>3, <1>5, <1>10, Closes DEF n

\* Every turn that is possible on an allowed line keeps the meaning.
LEMMA TurnMeans ==
    ASSUME ParseTypeOK, Allowed, PiecesInv, ParseNext
    PROVE  PiecesInv'
<1>1. ~line_end
  BY DEF ParseNext, Talk, Word, Less, LastWord, Pipe, NumPipe, ErrPipe, ErrNumPipe, ShellOut, ShellIn,
         OutUserPipe, File, AtIn, InErrPipe, InErrNumPipe, InOut, InFile, InPipe, InNumPipe,
         InUserPipe, At
<1>2. PICK f \in 1 .. Size : Reading(f)
  BY <1>1 DEF PiecesInv
<1>3. CASE Word
  BY <1>1, <1>2, <1>3, WordGoesOn
<1>4. CASE LastWord
  BY <1>1, <1>2, <1>4, LastWordEnds
<1>5. ASSUME Talk \/ Less PROVE FALSE
  <2>1. idx <= Size /\ tokens[idx] \in {"talk", "<"}
    BY <1>5 DEF Talk, Less, At
  <2>2. idx \in DOMAIN tokens
    BY <2>1, TokensOfLine DEF ParseTypeOK
  <2> QED
    BY <2>1, <2>2 DEF Allowed
<1>6. ASSUME idx <= Size, tokens[idx] # "word" PROVE \E e \in f .. Size : Stands(f, e)
  BY <1>2, <1>6, IdxStands
<1>7. ASSUME ShellOut \/ ShellIn PROVE FALSE
  <2>1. dialect = "shell" /\ idx <= Size /\ tokens[idx] \in {"<N", ">N"}
    BY <1>7 DEF ShellOut, ShellIn, At
  <2>2. PICK e \in f .. Size : Stands(f, e)
    BY <1>6, <2>1
  <2>3. idx \in idx .. e
    <3>1. idx \in Nat /\ e \in idx .. Size /\ Size \in Nat
      BY <2>2, TokensOfLine DEF ParseTypeOK, Stands
    <3> QED
      BY <3>1
  <2> QED
    BY <2>1, <2>2, <2>3 DEF Stands
<1>8. CASE \/ Pipe \/ NumPipe \/ ErrPipe \/ ErrNumPipe \/ OutUserPipe \/ File
           \/ InErrPipe \/ InErrNumPipe \/ InOut \/ InFile \/ InPipe \/ InNumPipe \/ InUserPipe
  <2>1. idx <= Size /\ tokens[idx] # "word"
    BY <1>8 DEF Pipe, NumPipe, ErrPipe, ErrNumPipe, OutUserPipe, File, AtIn, InErrPipe, InErrNumPipe,
                InOut, InFile, InPipe, InNumPipe, InUserPipe, At
  <2>2. PICK e \in f .. Size : Stands(f, e)
    BY <1>6, <2>1
  <2> QED
    BY <1>1, <1>2, <1>8, <2>2, BranchEnds
<1> QED
  BY <1>3, <1>4, <1>5, <1>7, <1>8 DEF ParseNext

\* At first the piece is the first one, and nothing of it was looked at.
LEMMA ParseInitInv ==
    ASSUME ParseInit
    PROVE  ParseInv
<1>1. ParseTypeOK
  <2>1. <<>> \in Seq(Nat) /\ <<>> \in Seq(Command)
    BY EmptySeq
  <2>2. cmd \in Command
    BY <2>1 DEF ParseInit, NoCmd, Command, CmdType
  <2>3. dialect \in Dialect /\ tokens \in Typed(dialect) /\ idx \in Nat \ {0}
    BY DEF ParseInit
  <2>4. line_end \in BOOLEAN
    BY DEF ParseInit
  <2>5. cmd_line \in Seq(Command)
    BY <2>1 DEF ParseInit
  <2> QED
    BY <2>2, <2>3, <2>4, <2>5 DEF ParseTypeOK
<1>2. Size \in Nat \ {0} /\ 1 \in 1 .. Size /\ Len(<<>>) = 0
  BY <1>1, TokensOfLine, EmptySeq
<1>3. Len(cmd_line) = 0 /\ ~line_end
  BY <1>2 DEF ParseInit
<1>4. Begins(1, Len(cmd_line) + 1)
  <2>1. Cuts \cap 1 .. 1 - 1 = {}
    OBVIOUS
  <2>2. Cardinality(Cuts \cap 1 .. 1 - 1) = 0
    BY <2>1, FS_EmptySet
  <2> QED
    BY <1>2, <1>3, <2>2 DEF Begins
<1>5. Reading(1)
  <2>1. idx = 1 /\ cmd = NoCmd
    BY DEF ParseInit
  <2>2. cmd.type = ""
    BY <2>1 DEF NoCmd
  <2>3. /\ cmd.args = <<>> /\ cmd.file = 0 /\ cmd.num_pipe = 0 /\ cmd.in_usr_id = 0
        /\ cmd.out_usr_id = 0
    BY <2>1 DEF NoCmd
  <2>4. Len(cmd.args) = idx - 1 /\ \A k \in 1 .. idx - 1 : cmd.args[k] = 1 + k - 1
    <3>1. Len(cmd.args) = 0
      BY <1>2, <2>3
    <3> QED
      BY <2>1, <3>1
  <2>5. idx \in 1 .. Size + 1 /\ \A k \in 1 .. idx - 1 : tokens[k] = "word"
    BY <1>2, <2>1
  <2> QED
    BY <1>4, <2>2, <2>3, <2>4, <2>5 DEF Reading
<1>6. PiecesInv
  BY <1>2, <1>3, <1>5 DEF PiecesInv
<1> QED
  BY <1>1, <1>6 DEF ParseInv

\* Each turn keeps it, on a line that is not allowed as well: there only the types.
LEMMA ParseStepInv ==
    ASSUME ParseInv, [ParseNext]_parse_vars
    PROVE  ParseInv'
<1>1. CASE ParseNext
  <2>1. ParseTypeOK'
    BY <1>1, ParseTypeKept DEF ParseInv
  <2>2. tokens' = tokens /\ dialect' = dialect
    BY <1>1 DEF ParseNext, Talk, Word, Less, LastWord, Pipe, NumPipe, ErrPipe, ErrNumPipe, ShellOut,
         ShellIn, OutUserPipe, File, AtIn, InErrPipe, InErrNumPipe, InOut, InFile, InPipe, InNumPipe,
         InUserPipe, Break, Continue, BreakAtEnd
  <2>3. Allowed' <=> Allowed
    BY <2>2, SameLine
  <2>4. Allowed => PiecesInv'
    BY <1>1, TurnMeans DEF ParseInv
  <2> QED
    BY <2>1, <2>3, <2>4 DEF ParseInv
<1>2. CASE UNCHANGED parse_vars
  <2>1. /\ tokens' = tokens /\ dialect' = dialect /\ idx' = idx /\ cmd' = cmd
        /\ cmd_line' = cmd_line /\ line_end' = line_end
    BY <1>2 DEF parse_vars
  <2>2. ParseTypeOK'
    BY <2>1 DEF ParseInv, ParseTypeOK
  <2>3. (Allowed' <=> Allowed) /\ Size' = Size /\ Pieces' = Pieces
    BY <2>1, SameLine
  <2>4. ASSUME PiecesInv PROVE PiecesInv'
    <3>1. (\A n \in 1 .. Len(cmd_line) : Means(cmd_line[n], n))'
      BY <2>1, <2>4, CommandsKept DEF PiecesInv
    <3>2. ASSUME NEW f, Reading(f) PROVE Reading(f)'
      <4>1. Begins(f, Len(cmd_line) + 1)'
        <5>1. Begins(f, Len(cmd_line') + 1)
          BY <2>1, <3>2 DEF Reading
        <5> QED
          BY <2>1, <5>1, SameLine
      <4> QED
        BY <2>1, <2>3, <3>2, <4>1 DEF Reading
    <3> QED
      BY <2>1, <2>3, <2>4, <3>1, <3>2 DEF PiecesInv
  <2> QED
    BY <2>2, <2>3, <2>4 DEF ParseInv
<1> QED
  BY <1>1, <1>2

\* The pieces so far are the commands they mean, at every turn of parse_line.
THEOREM ParseInvariance == ParseSpec => []ParseInv
<1>1. ParseInit => ParseInv
  BY ParseInitInv
<1>2. ParseInv /\ [ParseNext]_parse_vars => ParseInv'
  BY ParseStepInv
<1> QED
  BY <1>1, <1>2, PTL DEF ParseSpec

\* A command of parse_line has one of its types and names places of the line.
THEOREM ParseTypeCorrect == ParseSpec => []ParseTypeOK
<1>1. ParseInv => ParseTypeOK
  BY DEF ParseInv
<1> QED
  BY <1>1, ParseInvariance, PTL

\* A line that the specs allow is cut into the commands it means, whatever its length: no
\* token is passed over, taken twice or looked for beyond the end.
THEOREM AlwaysParsedAsMeant == ParseSpec => []ParsedAsMeant
<1>1. ParseInv => ParsedAsMeant
  BY DEF ParseInv, PiecesInv, ParsedAsMeant
<1> QED
  BY <1>1, ParseInvariance, PTL
=============================================================================
