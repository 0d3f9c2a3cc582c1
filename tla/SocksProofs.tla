----------------------------- MODULE SocksProofs -----------------------------
(***************************************************************************)
(* What holds of a SOCKS session for every request, rule file, queue       *)
(* length and amount of data: nothing is relayed that the rules do not     *)
(* permit, what a side reads is its replies and then the units of the      *)
(* other side, whole and in their order, and the session is a Tunnel.      *)
(***************************************************************************)
EXTENDS SocksSession, SequenceTheorems, TLAPS

\* Operations that come before the relay, one at a time, and what comes after the
\* request was allowed.
Joining == {"resolve", "connect", "accept"}
Admitted == Relaying \/ \E op \in Joining : op \in pending

\* The session goes through its stages in their order, and both sockets are open
\* together once the destination is joined.
StageInv ==
    /\ \A a, b \in Joining \cup {"request"} : a \in pending /\ b \in pending => a = b
    /\ "request" \in pending => pending = {"request"}
    /\ \A op \in Joining \cup {"request"} : op \in pending => ~Relaying /\ socket["src"] = "open"
    /\ "resolve" \in pending \/ "connect" \in pending => req.cd = "connect"
    /\ "accept" \in pending => req.cd = "bind"
    /\ \A s \in Side : Read(s) \in pending \/ Write(s) \in pending => Relaying
    /\ socket["src"] # "none"
    /\ socket["dst"] = "open" => socket["src"] = "open"
    /\ socket["src"] = "open" => socket["dst"] # "closed"

\* An admitted client was told yes by the rules and by every reply.
AdmittedInv ==
    Admitted =>
        /\ fire_wall(rules, req)
        /\ \A i \in 1 .. Len(Stream("src")) : Stream("src")[i] # Rejected

\* What was read of a side so far, and what of it was written to the other.
Taken(s) == sent[s] - Len(in[s])
Delivered(s) == IF Write(Other(s)) \in pending THEN Taken(s) - 1 ELSE Taken(s)

\* Nothing goes either way before the destination is joined but the replies.
EarlyInv ==
    ~Relaying =>
        /\ in["dst"] = <<>> /\ sent["dst"] = 0 /\ Stream("dst") = <<>>
        /\ "request" \in pending => Stream("src") = <<>> /\ in["src"] = <<>> /\ sent["src"] = 0
        /\ Len(Stream("src")) <= 1
        /\ socket["src"] = "open" => Len(in["src"]) = sent["src"]
        /\ Admitted /\ peer["src"] # "gone" => Len(Stream("src")) = 1

\* While a side has its socket open, its units are in one line: those in its queue,
\* the one in the buffer, and those that the other side was sent.
Flows(s) ==
    /\ socket[s] # "closed" =>
          /\ Len(in[s]) <= sent[s]
          /\ \A i \in 1 .. Len(in[s]) : in[s][i] = Unit(s, Taken(s) + i)
    /\ socket[s] = "open" /\ Relaying =>
          /\ Write(Other(s)) \in pending =>
                Taken(s) > 0 /\ response[Other(s)] = Unit(s, Taken(s))
          /\ peer[Other(s)] # "gone" =>
                Len(Stream(Other(s))) = Owed(Other(s)) + Delivered(s)
FlowInv == \A s \in Side : Flows(s)

IInv == TypeOK /\ StageInv /\ AdmittedInv /\ EarlyInv /\ FlowInv /\ RelayedInOrder

-----------------------------------------------------------------------------
(* Sequences.                                                              *)

\* A sequence that was cut somewhere, and one with one more element.
CutBack(t, q) == Len(t) <= Len(q) /\ \A i \in 1 .. Len(t) : t[i] = q[i]
Extended(t, q, u) ==
    Len(t) = Len(q) + 1 /\ t[Len(t)] = u /\ \A i \in 1 .. Len(q) : t[i] = q[i]

\* What is appended to the queue is appended to the stream.
LEMMA StreamExtended ==
    ASSUME NEW S, NEW g \in Seq(S), NEW q \in Seq(S), NEW u \in S
    PROVE  Append(q, u) \in Seq(S) /\ Extended(g \o Append(q, u), g \o q, u)
<1>1. Append(q, u) \in Seq(S) /\ <<u>> \in Seq(S) /\ g \o q \in Seq(S)
  BY AppendProperties, ConcatProperties
<1>2. Append(q, u) = q \o <<u>> /\ Append(g \o q, u) = (g \o q) \o <<u>>
  BY <1>1, AppendIsConcat
<1>3. g \o Append(q, u) = Append(g \o q, u)
  BY <1>1, <1>2, ConcatAssociative
<1>4. Extended(Append(g \o q, u), g \o q, u)
  BY <1>1, AppendProperties DEF Extended
<1> QED
  BY <1>1, <1>3, <1>4

\* What is cut off the queue is cut off the stream.
LEMMA StreamCut ==
    ASSUME NEW S, NEW g \in Seq(S), NEW q \in Seq(S), NEW t \in Seq(S), CutBack(t, q)
    PROVE  CutBack(g \o t, g \o q)
<1>1. Len(g) \in Nat /\ Len(q) \in Nat /\ Len(t) \in Nat /\ Len(t) <= Len(q)
  BY DEF CutBack
<1>2. /\ Len(g \o t) = Len(g) + Len(t) /\ Len(g \o q) = Len(g) + Len(q)
      /\ \A i \in 1 .. Len(g) : (g \o t)[i] = g[i] /\ (g \o q)[i] = g[i]
      /\ \A i \in Len(g) + 1 .. Len(g) + Len(t) : (g \o t)[i] = t[i - Len(g)]
      /\ \A i \in Len(g) + 1 .. Len(g) + Len(q) : (g \o q)[i] = q[i - Len(g)]
  BY ConcatProperties
<1>3. ASSUME NEW i \in 1 .. Len(g \o t) PROVE (g \o t)[i] = (g \o q)[i]
  <2>1. CASE i \in 1 .. Len(g)
    BY <1>2, <2>1
  <2>2. CASE i \notin 1 .. Len(g)
    <3>1. i \in Len(g) + 1 .. Len(g) + Len(t) /\ i - Len(g) \in 1 .. Len(t)
      BY <1>1, <1>2, <2>2
    <3>2. i \in Len(g) + 1 .. Len(g) + Len(q)
      BY <1>1, <3>1
    <3> QED
      BY <1>2, <3>1, <3>2 DEF CutBack
  <2> QED
    BY <2>1, <2>2
<1> QED
  BY <1>1, <1>2, <1>3 DEF CutBack

LEMMA PrefixCut ==
    ASSUME NEW S, NEW q \in Seq(S), NEW t \in Prefixes(q)
    PROVE  t \in Seq(S) /\ CutBack(t, q)
<1>1. PICK n \in 0 .. Len(q) : t = SubSeq(q, 1, n)
  BY DEF Prefixes
<1>2. /\ t \in Seq(S) /\ Len(t) = n /\ \A i \in 1 .. n : t[i] = q[i]
  <2>1. \A i \in 1 .. n : q[i] \in S
    OBVIOUS
  <2>2. 1 \in Int /\ n \in Int
    OBVIOUS
  <2> QED
    BY <1>1, <2>1, <2>2, SubSeqProperties
<1> QED
  BY <1>1, <1>2 DEF CutBack

\* What is read of the queue was on the stream before.
LEMMA StreamRead ==
    ASSUME NEW S, NEW g \in Seq(S), NEW q \in Seq(S), q # <<>>
    PROVE  /\ Append(g, Head(q)) \in Seq(S) /\ Tail(q) \in Seq(S)
           /\ Append(g, Head(q)) \o Tail(q) = g \o q
<1> DEFINE h == Head(q)
           t == Tail(q)
<1>1. h \in S /\ t \in Seq(S) /\ Len(t) = Len(q) - 1 /\ \A i \in 1 .. Len(t) : t[i] = q[i + 1]
  BY HeadTailProperties
<1>2. h = q[1] /\ Len(q) \in Nat \ {0}
  BY EmptySeq
<1> HIDE DEF h, t
<1>3. <<h>> \in Seq(S) /\ Append(g, h) \in Seq(S) /\ Append(g, h) = g \o <<h>>
  BY <1>1, AppendProperties, AppendIsConcat
<1>4. <<h>> \o t = q
  <2>1. /\ <<h>> \o t \in Seq(S) /\ Len(<<h>> \o t) = 1 + Len(t)
        /\ \A i \in 1 .. 1 + Len(t) : (<<h>> \o t)[i] = IF i <= 1 THEN h ELSE t[i - 1]
    <3>1. Len(<<h>>) = 1 /\ <<h>>[1] = h
      OBVIOUS
    <3> QED
      BY <1>1, <1>3, <3>1, ConcatProperties
  <2>2. Len(<<h>> \o t) = Len(q)
    BY <1>1, <1>2, <2>1
  <2>3. ASSUME NEW i \in 1 .. Len(q) PROVE (<<h>> \o t)[i] = q[i]
    <3>1. CASE i = 1
      BY <1>1, <1>2, <2>1, <3>1
    <3>2. CASE i # 1
      <4>1. i - 1 \in 1 .. Len(t) /\ i \in 1 .. 1 + Len(t) /\ (i - 1) + 1 = i /\ ~(i <= 1)
        BY <1>1, <1>2, <3>2
      <4> QED
        BY <1>1, <2>1, <4>1
    <3> QED
      BY <3>1, <3>2
  <2> QED
    BY <2>1, <2>2, <2>3, SeqEqual
<1>5. (g \o <<h>>) \o t = g \o (<<h>> \o t)
  BY <1>1, <1>3, ConcatAssociative
<1> QED
  BY <1>1, <1>3, <1>4, <1>5 DEF h, t

-----------------------------------------------------------------------------
(* What a step does to the streams.                                        *)

LEMMA Sides ==
    /\ {"src", "dst"} = Side /\ Other("src") = "dst" /\ Other("dst") = "src"
    /\ \A s \in Side : Other(s) \in Side /\ Other(Other(s)) = s /\ Other(s) # s
BY DEF Side, Other

LEMMA StreamTyped ==
    ASSUME TypeOK, NEW s \in Side
    PROVE  Stream(s) \in Seq(Item) /\ Len(Stream(s)) \in Nat
<1>1. got[s] \in Seq(Item) /\ out[s] \in Seq(Item)
  BY DEF TypeOK
<1> QED
  BY <1>1, ConcatProperties, LenProperties DEF Stream

\* What is a cut of one side of out is a cut of that side's stream.
LEMMA CutStreams ==
    ASSUME TypeOK, got' = got, out' \in [Side -> Seq(Item)], NEW s \in Side, CutBack(out'[s], out[s])
    PROVE  CutBack(Stream(s)', Stream(s))
<1>1. got[s] \in Seq(Item) /\ out[s] \in Seq(Item) /\ out'[s] \in Seq(Item)
  BY DEF TypeOK
<1>2. CutBack(got[s] \o out'[s], got[s] \o out[s])
  BY <1>1, StreamCut
<1> QED
  BY <1>2 DEF Stream

\* A unit or a reply is sent to s.
LEMMA AppendGrows ==
    ASSUME TypeOK, NEW s \in Side, NEW u \in Item, got' = got,
           out' = [out EXCEPT ![s] = Append(@, u)]
    PROVE  /\ out' \in [Side -> Seq(Item)] /\ Extended(Stream(s)', Stream(s), u)
           /\ Stream(Other(s))' = Stream(Other(s))
<1>1. got[s] \in Seq(Item) /\ out[s] \in Seq(Item) /\ out \in [Side -> Seq(Item)]
  BY DEF TypeOK
<1>2. /\ Append(out[s], u) \in Seq(Item)
      /\ Extended(got[s] \o Append(out[s], u), got[s] \o out[s], u)
  BY <1>1, StreamExtended
<1>3. out'[s] = Append(out[s], u) /\ out'[Other(s)] = out[Other(s)]
  BY <1>1, Sides
<1>4. out' \in [Side -> Seq(Item)]
  BY <1>1, <1>2
<1> QED
  BY <1>2, <1>3, <1>4 DEF Stream

LEMMA ReplyGrows ==
    ASSUME TypeOK, NEW u \in {Accepted, Rejected}, Reply(u), got' = got
    PROVE  /\ out' \in [Side -> Seq(Item)] /\ Stream("dst")' = Stream("dst")
           /\ IF peer["src"] = "gone" THEN Stream("src")' = Stream("src")
              ELSE Extended(Stream("src")', Stream("src"), u)
<1>1. CASE peer["src"] = "gone"
  BY <1>1 DEF Reply, Stream, TypeOK
<1>2. CASE peer["src"] # "gone"
  <2>1. u \in Item /\ "src" \in Side /\ out' = [out EXCEPT !["src"] = Append(@, u)]
    BY <1>2 DEF Reply, Item, Side
  <2> QED
    BY <1>2, <2>1, AppendGrows, Sides
<1> QED
  BY <1>1, <1>2

\* What is on its way may be cut when the sockets are closed.
LEMMA CloseCuts ==
    ASSUME TypeOK, CloseBoth, got' = got
    PROVE  /\ out' \in [Side -> Seq(Item)]
           /\ \A s \in Side : CutBack(Stream(s)', Stream(s))
<1>1. out \in [Side -> Seq(Item)] /\ \A s \in Side : out[s] \in Seq(Item) /\ got[s] \in Seq(Item)
  BY DEF TypeOK
<1>2. \A s \in Side : CutBack(out[s], out[s])
  BY <1>1 DEF CutBack
<1>3. ASSUME NEW s \in Side, NEW t \in LeftOut(s)
      PROVE  t \in Seq(Item) /\ CutBack(t, out[s])
  BY <1>1, <1>2, <1>3, PrefixCut DEF LeftOut
<1>4. PICK a \in LeftOut("src"), b \in LeftOut("dst") :
          out' = IF "open" \in {socket[s] : s \in Side}
                 THEN [s \in Side |-> IF s = "src" THEN a ELSE b] ELSE out
  BY DEF CloseBoth
<1>5. /\ a \in Seq(Item) /\ CutBack(a, out["src"]) /\ b \in Seq(Item) /\ CutBack(b, out["dst"])
  BY <1>3, Sides
<1>6. out' \in [Side -> Seq(Item)] /\ \A s \in Side : CutBack(out'[s], out[s])
  BY <1>1, <1>2, <1>4, <1>5, Sides
<1> QED
  BY <1>6, CutStreams

\* What a peer reads was on its way; what was on its way to one that leaves, or that
\* sends to a closed socket, is cut.
LEMMA ReceiveKeeps ==
    ASSUME TypeOK, NEW s \in Side, Receive(s)
    PROVE  /\ out' \in [Side -> Seq(Item)] /\ got' \in [Side -> Seq(Item)]
           /\ \A r \in Side : Stream(r)' = Stream(r)
<1>1. /\ got[s] \in Seq(Item) /\ out[s] \in Seq(Item) /\ out[s] # <<>>
      /\ out \in [Side -> Seq(Item)] /\ got \in [Side -> Seq(Item)]
  BY DEF TypeOK, Receive
<1>2. /\ Append(got[s], Head(out[s])) \in Seq(Item) /\ Tail(out[s]) \in Seq(Item)
      /\ Append(got[s], Head(out[s])) \o Tail(out[s]) = got[s] \o out[s]
  BY <1>1, StreamRead
<1>3. /\ out' = [out EXCEPT ![s] = Tail(out[s])]
      /\ got' = [got EXCEPT ![s] = Append(got[s], Head(out[s]))]
  BY <1>1 DEF Receive
<1> QED
  BY <1>1, <1>2, <1>3 DEF Stream

LEMMA LeaveCuts ==
    ASSUME TypeOK, NEW s \in Side, Leave(s) \/ SendTooLate(s)
    PROVE  /\ out' \in [Side -> Seq(Item)] /\ got' = got
           /\ \A r \in Side : CutBack(Stream(r)', Stream(r))
           /\ Stream(Other(s))' = Stream(Other(s))
<1>1. got' = got
  BY DEF Leave, SendTooLate
<1>2. out \in [Side -> Seq(Item)] /\ \A r \in Side : out[r] \in Seq(Item)
  BY DEF TypeOK
<1>3. PICK t : out' = [out EXCEPT ![s] = t] /\ (t = <<>> \/ t \in Prefixes(out[s]))
  BY DEF Leave, SendTooLate
<1>4. t \in Seq(Item) /\ CutBack(t, out[s])
  <2>1. CASE t = <<>>
    <3>1. t \in Seq(Item) /\ Len(t) = 0 /\ Len(out[s]) \in Nat
      BY <1>2, <2>1, EmptySeq, LenProperties
    <3> QED
      BY <3>1 DEF CutBack
  <2>2. CASE t \in Prefixes(out[s])
    BY <1>2, <2>2, PrefixCut
  <2> QED
    BY <1>3, <2>1, <2>2
<1>5. out' \in [Side -> Seq(Item)] /\ \A r \in Side : CutBack(out'[r], out[r])
  BY <1>2, <1>3, <1>4 DEF CutBack
<1>6. Stream(Other(s))' = Stream(Other(s))
  BY <1>1, <1>2, <1>3, Sides DEF Stream
<1> QED
  BY <1>1, <1>5, <1>6, CutStreams

\* A stream that is cut stays in order and free of refusals.
LEMMA CutOrdered ==
    ASSUME TypeOK, TypeOK', RelayedInOrder, req' = req,
           \A s \in Side : CutBack(Stream(s)', Stream(s))
    PROVE  RelayedInOrder'
<1> SUFFICES ASSUME NEW s \in Side, NEW i \in 1 .. Len(Stream(s)')
             PROVE  IF i <= Owed(s) THEN Stream(s)'[i] \in {Accepted, Rejected}
                    ELSE /\ Stream(s)'[i] = Unit(Other(s), i - Owed(s))
                         /\ \A j \in 1 .. Owed(s) : Stream(s)'[j] = Accepted
  BY DEF RelayedInOrder, Owed
<1>1. Len(Stream(s)) \in Nat /\ Len(Stream(s)') \in Nat /\ Owed(s) \in Nat
  BY StreamTyped DEF Owed
<1>2. i \in 1 .. Len(Stream(s)) /\ \A j \in 1 .. i : Stream(s)'[j] = Stream(s)[j]
  BY <1>1 DEF CutBack
<1>3. IF i <= Owed(s) THEN Stream(s)[i] \in {Accepted, Rejected}
      ELSE /\ Stream(s)[i] = Unit(Other(s), i - Owed(s))
           /\ \A j \in 1 .. Owed(s) : Stream(s)[j] = Accepted
  BY <1>2 DEF RelayedInOrder
<1>4. i \in 1 .. i /\ (~(i <= Owed(s)) => \A j \in 1 .. Owed(s) : j \in 1 .. i)
  BY <1>1
<1> QED
  BY <1>2, <1>3, <1>4

\* A stream grows by the reply or the unit that is next.
NextOf(s, u) ==
    \/ Len(Stream(s)) + 1 <= Owed(s) /\ u \in {Accepted, Rejected}
    \/ /\ ~(Len(Stream(s)) + 1 <= Owed(s))
       /\ u = Unit(Other(s), (Len(Stream(s)) + 1) - Owed(s))
       /\ \A j \in 1 .. Owed(s) : Stream(s)[j] = Accepted

LEMMA GrowOrdered ==
    ASSUME TypeOK, TypeOK', RelayedInOrder, req' = req, NEW s \in Side, NEW u,
           Extended(Stream(s)', Stream(s), u), Stream(Other(s))' = Stream(Other(s)),
           NextOf(s, u)
    PROVE  RelayedInOrder'
<1>1. ASSUME NEW r \in Side, r # s, NEW i \in 1 .. Len(Stream(r)')
      PROVE  IF i <= Owed(r) THEN Stream(r)'[i] \in {Accepted, Rejected}
             ELSE /\ Stream(r)'[i] = Unit(Other(r), i - Owed(r))
                  /\ \A j \in 1 .. Owed(r) : Stream(r)'[j] = Accepted
  <2>1. Stream(r)' = Stream(r)
    BY <1>1 DEF Other, Side
  <2> QED
    BY <1>1, <2>1 DEF RelayedInOrder
<1>2. ASSUME NEW i \in 1 .. Len(Stream(s)')
      PROVE  IF i <= Owed(s) THEN Stream(s)'[i] \in {Accepted, Rejected}
             ELSE /\ Stream(s)'[i] = Unit(Other(s), i - Owed(s))
                  /\ \A j \in 1 .. Owed(s) : Stream(s)'[j] = Accepted
  <2>1. Len(Stream(s)) \in Nat /\ Owed(s) \in Nat
    BY StreamTyped DEF Owed
  <2> DEFINE n == Len(Stream(s)) + 1
  <2>2. /\ Len(Stream(s)') = n /\ Stream(s)'[n] = u
        /\ \A j \in 1 .. Len(Stream(s)) : Stream(s)'[j] = Stream(s)[j]
    BY DEF Extended
  <2>3. CASE i = n
    <3>1. CASE n <= Owed(s)
      BY <2>2, <2>3, <3>1 DEF NextOf
    <3>2. CASE ~(n <= Owed(s))
      <4>1. \A j \in 1 .. Owed(s) : j \in 1 .. Len(Stream(s))
        BY <2>1, <3>2
      <4>2. u = Unit(Other(s), n - Owed(s)) /\ \A j \in 1 .. Owed(s) : Stream(s)[j] = Accepted
        BY <3>2 DEF NextOf
      <4> QED
        BY <2>2, <2>3, <3>2, <4>1, <4>2
    <3> QED
      BY <3>1, <3>2
  <2>4. CASE i # n
    <3>1. i \in 1 .. Len(Stream(s)) /\ Stream(s)'[i] = Stream(s)[i]
      BY <2>1, <2>2, <2>4
    <3>2. IF i <= Owed(s) THEN Stream(s)[i] \in {Accepted, Rejected}
          ELSE /\ Stream(s)[i] = Unit(Other(s), i - Owed(s))
               /\ \A j \in 1 .. Owed(s) : Stream(s)[j] = Accepted
      BY <3>1 DEF RelayedInOrder
    <3>3. ~(i <= Owed(s)) => \A j \in 1 .. Owed(s) : j \in 1 .. Len(Stream(s))
      BY <2>1, <3>1
    <3> QED
      BY <2>2, <3>1, <3>2, <3>3
  <2> QED
    BY <2>3, <2>4
<1>3. \A r \in Side : Owed(r)' = Owed(r)
  BY DEF Owed
<1> QED
  BY <1>1, <1>2, <1>3 DEF RelayedInOrder

-----------------------------------------------------------------------------
(* Types.                                                                  *)

LEMMA RequestTyped ==
    ASSUME TypeOK, StageInv,
           (\E r \in Requests : Allow(r) \/ Refuse(r)) \/ NoneCame
    PROVE  TypeOK'
<1>1. pending = {"request"} /\ \A s \in Side : response[s] = <<>>
  BY DEF Allow, Refuse, NoneCame, StageInv, TypeOK, Write
<1>2. CASE NoneCame
  BY <1>1, <1>2 DEF NoneCame, TypeOK
<1>3. ASSUME NEW r \in Requests, Allow(r) \/ Refuse(r) PROVE TypeOK'
  <2>1. out' \in [Side -> Seq(Item)]
    <3>1. (Reply(Accepted) \/ Reply(Rejected)) /\ got' = got
      BY <1>3 DEF Allow, Refuse
    <3> QED
      BY <3>1, ReplyGrows
  <2>2. rules' \in RuleFiles /\ req' = r
    BY <1>3 DEF Allow, Refuse
  <2>3. pending' \subseteq {"ftp_resolve", "accept", "resolve", "connect"}
    BY <1>3 DEF Allow, Refuse
  <2>4. socket' \in [Side -> {"none", "open", "closed"}]
    BY <1>3 DEF Allow, Refuse, TypeOK
  <2>5. UNCHANGED <<response, peer, in, up, sent, got>>
    BY <1>3 DEF Allow, Refuse
  <2>6. \A s \in Side : Read(s) \notin pending' /\ Write(s) \notin pending' /\ response'[s] = <<>>
    BY <1>1, <2>3, <2>5 DEF Read, Write
  <2>7. pending' \subseteq Operation
    BY <2>3 DEF Operation
  <2> QED
    BY <2>1, <2>2, <2>4, <2>5, <2>6, <2>7 DEF TypeOK
<1> QED
  BY <1>2, <1>3

LEMMA JoinTyped ==
    ASSUME TypeOK, StageInv,
           Resolved \/ FtpResolved \/ Connected \/ NotConnected \/ Called
    PROVE  TypeOK'
<1>1. /\ \A s \in Side : Read(s) \notin {"connect", "resolve", "ftp_resolve", "accept"}
      /\ \A s \in Side : Write(s) \notin {"connect", "resolve", "ftp_resolve", "accept"}
      /\ \A s, r \in Side : Read(s) # Write(r)
  BY DEF Read, Write
<1>2. CASE Resolved \/ FtpResolved \/ NotConnected
  <2>1. /\ pending' \subseteq pending \cup {"connect"}
        /\ \A s \in Side : /\ Read(s) \in pending' <=> Read(s) \in pending
                           /\ Write(s) \in pending' <=> Write(s) \in pending
        /\ UNCHANGED <<rules, req, socket, response, peer, in, out, up, sent, got>>
    BY <1>1, <1>2 DEF Resolved, FtpResolved, NotConnected
  <2>2. pending' \subseteq Operation
    BY <2>1 DEF TypeOK, Operation
  <2> QED
    BY <2>1, <2>2, Sides DEF TypeOK
<1>3. CASE Connected \/ Called
  <2>1. /\ pending' = (pending \ {"connect", "accept"}) \cup {Read("src"), Read("dst")}
        /\ socket' = [socket EXCEPT !["dst"] = "open"] /\ peer' = [peer EXCEPT !["dst"] = "open"]
        /\ UNCHANGED <<rules, req, response, in, up, sent, got>>
    BY <1>3 DEF Connected, Called, Relay, Joined
  <2>2. \A s \in Side : Read(s) \notin pending /\ Write(s) \notin pending
    BY <1>3 DEF Connected, Called, StageInv, Joining
  <2>3. out' \in [Side -> Seq(Item)]
    <3>1. CASE Connected
      BY <3>1 DEF Connected, TypeOK
    <3>2. CASE Called
      BY <3>2, ReplyGrows DEF Called
    <3> QED
      BY <1>3, <3>1, <3>2
  <2>4. \A s \in Side : Write(s) \notin pending'
    BY <1>1, <2>1, <2>2, Sides
  <2>5. pending' \subseteq Operation
    BY <2>1, Sides DEF TypeOK, Operation
  <2>6. /\ socket' \in [Side -> {"none", "open", "closed"}]
        /\ peer' \in [Side -> {"none", "open", "shut", "gone"}]
    BY <2>1 DEF TypeOK
  <2> QED
    BY <2>1, <2>2, <2>3, <2>4, <2>5, <2>6, Sides DEF TypeOK
<1> QED
  BY <1>2, <1>3

\* The operations of the two directions are told apart.
LEMMA Operations ==
    /\ \A s, r \in Side : Read(s) # Write(r) /\ (Read(s) = Read(r) => s = r)
    /\ \A s, r \in Side : Write(s) = Write(r) => s = r
    /\ \A s \in Side : /\ Read(s) \in Operation /\ Write(s) \in Operation
                       /\ {Read(s), Write(s)} \cap (Joining \cup {"request", "ftp_resolve"}) = {}
BY DEF Read, Write, Side, Operation, Joining

\* There is nothing in a buffer that is empty.
LEMMA ItemThere == \A u \in Item : u # <<>>
<1> SUFFICES ASSUME NEW u \in Item PROVE u # <<>>
  OBVIOUS
<1>1. PICK a, b : u = <<a, b>>
  BY DEF Item, Accepted, Rejected
<1> QED
  BY <1>1

LEMMA ReadTyped ==
    ASSUME TypeOK, NEW s \in Side, ReadUnit(s)
    PROVE  /\ TypeOK'
           /\ in'[s] = Tail(in[s]) /\ Len(in[s]) = Len(in'[s]) + 1 /\ Len(in'[s]) \in Nat
           /\ in[s][1] = response'[Other(s)]
           /\ \A i \in 1 .. Len(in'[s]) : in'[s][i] = in[s][i + 1]
           /\ in'[Other(s)] = in[Other(s)] /\ response'[s] = response[s]
<1>1. in[s] \in Seq(Item) /\ in[s] # <<>> /\ in \in [Side -> Seq(Item)] /\ Len(in[s]) <= Cap
  BY DEF TypeOK, ReadUnit
<1>2. /\ Head(in[s]) \in Item /\ Tail(in[s]) \in Seq(Item) /\ Len(Tail(in[s])) = Len(in[s]) - 1
      /\ \A i \in 1 .. Len(Tail(in[s])) : Tail(in[s])[i] = in[s][i + 1]
      /\ Len(in[s]) \in Nat \ {0} /\ Head(in[s]) = in[s][1]
  BY <1>1, HeadTailProperties, EmptySeq
<1>3. /\ in' = [in EXCEPT ![s] = Tail(in[s])]
      /\ response' = [response EXCEPT ![Other(s)] = Head(in[s])]
      /\ pending' = (pending \ {Read(s)}) \cup {Write(Other(s))} /\ Read(s) \in pending
      /\ UNCHANGED <<rules, req, socket, peer, out, up, sent, got>>
  BY <1>1 DEF ReadUnit
<1>4. response \in [Side -> Item \cup {<<>>}] /\ Head(in[s]) # <<>>
  BY <1>2, ItemThere DEF TypeOK
<1>5. /\ in'[s] = Tail(in[s]) /\ in'[Other(s)] = in[Other(s)]
      /\ response'[Other(s)] = Head(in[s]) /\ response'[s] = response[s]
      /\ in' \in [Side -> Seq(Item)] /\ response' \in [Side -> Item \cup {<<>>}]
  BY <1>1, <1>2, <1>3, <1>4, Sides
<1>6. \A r \in Side : r = s \/ r = Other(s)
  BY DEF Side, Other
<1>7. Len(in'[s]) \in Nat /\ Len(in[s]) = Len(in'[s]) + 1
  BY <1>2, <1>5
<1>8. Cap \in Nat
  BY SocksAssumption
<1>9. \A r \in Side : Len(in'[r]) <= Cap
  <2>1. Len(in'[s]) <= Cap
    BY <1>1, <1>7, <1>8
  <2>2. Len(in'[Other(s)]) <= Cap
    BY <1>5, Sides DEF TypeOK
  <2> QED
    BY <1>6, <2>1, <2>2
<1>10. \A r \in Side : response'[r] # <<>> <=> Write(r) \in pending'
  BY <1>3, <1>4, <1>5, <1>6, Operations, Sides DEF TypeOK
<1>11. \A r \in Side : ~(Read(r) \in pending' /\ Write(Other(r)) \in pending')
  BY <1>3, <1>6, Operations, Sides DEF TypeOK
<1>12. pending' \subseteq Operation
  BY <1>3, Operations, Sides DEF TypeOK
<1>13. TypeOK'
  BY <1>3, <1>5, <1>9, <1>10, <1>11, <1>12 DEF TypeOK
<1> QED
  BY <1>2, <1>5, <1>7, <1>13

\* A unit that was written, or that could not be, leaves the buffer.
LEMMA WriteTyped ==
    ASSUME TypeOK, NEW s \in Side, WriteUnit(s) \/ WriteToNobody(s) \/ WriteFails(s)
    PROVE  TypeOK'
<1>1. /\ Write(s) \in pending /\ response' = [response EXCEPT ![s] = <<>>]
      /\ pending' = (pending \ {Write(s)}) \cup {Read(Other(s))} \/ pending' = pending \ {Write(s)}
      /\ UNCHANGED <<rules, req, socket, peer, in, up, sent, got>>
  BY DEF WriteUnit, WriteToNobody, WriteFails, Written
<1>2. out' \in [Side -> Seq(Item)]
  <2>1. CASE WriteUnit(s)
    <3>1. response[s] \in Item
      BY <2>1 DEF WriteUnit, TypeOK
    <3> QED
      BY <2>1, <3>1, AppendGrows DEF WriteUnit
  <2>2. CASE ~WriteUnit(s)
    BY <2>2 DEF WriteToNobody, WriteFails, TypeOK
  <2> QED
    BY <2>1, <2>2
<1>3. /\ response' \in [Side -> Item \cup {<<>>}]
      /\ \A r \in Side : response'[r] # <<>> <=> Write(r) \in pending'
  BY <1>1, Operations, Sides DEF TypeOK
<1>4. \A r \in Side : ~(Read(r) \in pending' /\ Write(Other(r)) \in pending')
  <2>1. \A r \in Side : r = s \/ r = Other(s)
    BY DEF Side, Other
  <2> QED
    BY <1>1, <2>1, Operations, Sides DEF TypeOK
<1>5. pending' \subseteq Operation
  BY <1>1, Operations, Sides DEF TypeOK
<1> QED
  BY <1>1, <1>2, <1>3, <1>4, <1>5 DEF TypeOK

LEMMA CloseTyped ==
    ASSUME TypeOK, (\E s \in Side : ReadFails(s)) \/ Ends
    PROVE  TypeOK'
<1>1. /\ CloseBoth /\ up' \in BOOLEAN
      /\ UNCHANGED <<rules, req, response, peer, in, sent, got>>
  BY DEF ReadFails, Ends, TypeOK
<1>2. /\ pending' \subseteq pending
      /\ \A s \in Side : Write(s) \in pending => Write(s) \in pending'
  BY Operations DEF ReadFails, Ends
<1>3. socket' \in [Side -> {"none", "open", "closed"}]
  BY <1>1 DEF CloseBoth, TypeOK
<1>4. out' \in [Side -> Seq(Item)]
  BY <1>1, CloseCuts
<1> QED
  BY <1>1, <1>2, <1>3, <1>4 DEF TypeOK

LEMMA PeerTyped ==
    ASSUME TypeOK, NEW s \in Side,
           Send(s) \/ SendTooLate(s) \/ Receive(s) \/ Shut(s) \/ Leave(s)
    PROVE  TypeOK'
<1>1. CASE Send(s)
  <2>1. in[s] \in Seq(Item) /\ Len(in[s]) < Cap /\ sent[s] \in Nat /\ Cap \in Nat
    BY <1>1, SocksAssumption DEF Send, TypeOK
  <2>2. Unit(s, sent[s] + 1) \in Item
    BY <2>1 DEF Unit, Item
  <2>3. /\ Append(in[s], Unit(s, sent[s] + 1)) \in Seq(Item)
        /\ Len(Append(in[s], Unit(s, sent[s] + 1))) <= Cap
    BY <2>1, <2>2, AppendProperties, LenProperties
  <2>4. /\ in' = [in EXCEPT ![s] = Append(in[s], Unit(s, sent[s] + 1))]
        /\ sent' = [sent EXCEPT ![s] = sent[s] + 1]
        /\ UNCHANGED <<rules, req, pending, socket, response, peer, out, up, got>>
    BY <1>1 DEF Send, TypeOK
  <2>5. in' \in [Side -> Seq(Item)] /\ sent' \in [Side -> Nat] /\ \A r \in Side : Len(in'[r]) <= Cap
    BY <2>1, <2>3, <2>4 DEF TypeOK
  <2> QED
    BY <2>4, <2>5 DEF TypeOK
<1>2. CASE SendTooLate(s)
  <2>1. sent' \in [Side -> Nat]
    BY <1>2 DEF SendTooLate, TypeOK
  <2>2. out' \in [Side -> Seq(Item)]
    BY <1>2, LeaveCuts
  <2> QED
    BY <1>2, <2>1, <2>2 DEF SendTooLate, TypeOK
<1>3. CASE Receive(s)
  BY <1>3, ReceiveKeeps DEF Receive, TypeOK
<1>4. CASE Shut(s)
  BY <1>4 DEF Shut, TypeOK
<1>5. CASE Leave(s)
  <2>1. out' \in [Side -> Seq(Item)]
    BY <1>5, LeaveCuts
  <2> QED
    BY <1>5, <2>1 DEF Leave, TypeOK
<1> QED
  BY <1>1, <1>2, <1>3, <1>4, <1>5

-----------------------------------------------------------------------------
(* The stages.                                                             *)

\* While the destination is being joined, what there is to do for it is one thing.
LEMMA RequestStage ==
    ASSUME TypeOK, StageInv,
           (\E r \in Requests : Allow(r) \/ Refuse(r)) \/ NoneCame
    PROVE  StageInv'
<1>1. pending = {"request"} /\ ~Relaying /\ socket["src"] = "open"
  BY DEF Allow, Refuse, NoneCame, StageInv
<1>2. CASE NoneCame
  BY <1>1, <1>2 DEF NoneCame, StageInv, Relaying
<1>3. ASSUME NEW r \in Requests, Allow(r) PROVE StageInv'
  <2>1. r.cd \in {"connect", "bind"}
    BY SocksAssumption DEF Request, Command
  <2>2. /\ req' = r /\ socket' = socket
        /\ \/ r.cd = "bind" /\ pending' = {"ftp_resolve", "accept"}
           \/ r.cd = "connect" /\ pending' = {"resolve"}
           \/ r.cd = "connect" /\ pending' = {"connect"}
    BY <1>3, <2>1 DEF Allow
  <2>3. \A s \in Side : Read(s) \notin pending' /\ Write(s) \notin pending'
    BY <2>2 DEF Read, Write
  <2> QED
    BY <1>1, <2>2, <2>3 DEF StageInv, Relaying, Joining
<1>4. ASSUME NEW r \in Requests, Refuse(r) PROVE StageInv'
  <2>1. /\ socket' = [socket EXCEPT !["src"] = "closed"]
        /\ pending' \subseteq {"ftp_resolve"}
    BY <1>4 DEF Refuse
  <2>2. socket'["src"] = "closed" /\ socket'["dst"] = socket["dst"]
    BY <2>1, Sides DEF TypeOK
  <2>3. \A s \in Side : Read(s) \notin pending' /\ Write(s) \notin pending'
    BY <2>1 DEF Read, Write
  <2> QED
    BY <1>1, <2>1, <2>2, <2>3 DEF StageInv, Relaying, Joining
<1> QED
  BY <1>2, <1>3, <1>4

LEMMA JoinStage ==
    ASSUME TypeOK, StageInv,
           Resolved \/ FtpResolved \/ Connected \/ NotConnected \/ Called
    PROVE  StageInv'
<1>1. CASE Resolved \/ FtpResolved \/ NotConnected
  <2>1. /\ UNCHANGED <<socket, req>>
        /\ \/ /\ "resolve" \in pending
              /\ pending' = (pending \ {"resolve"}) \cup {"connect"}
           \/ pending' \subseteq pending
    BY <1>1 DEF Resolved, FtpResolved, NotConnected
  <2>2. CASE pending' \subseteq pending
    BY <2>1, <2>2 DEF StageInv, Relaying
  <2>3. CASE "resolve" \in pending /\ pending' = (pending \ {"resolve"}) \cup {"connect"}
    <3>1. \A op \in Joining \cup {"request"} : op \in pending' => op = "connect"
      BY <2>3 DEF StageInv, Joining
    <3>2. ~Relaying /\ socket["src"] = "open" /\ req.cd = "connect"
      BY <2>3 DEF StageInv, Joining
    <3>3. \A s \in Side : Read(s) \notin pending' /\ Write(s) \notin pending'
      BY <2>3, <3>2, Operations DEF StageInv, Joining
    <3> QED
      BY <2>1, <3>1, <3>2, <3>3 DEF StageInv, Relaying, Joining
  <2> QED
    BY <2>1, <2>2, <2>3
<1>2. CASE Connected \/ Called
  <2>1. /\ pending' = (pending \ {"connect", "accept"}) \cup {Read("src"), Read("dst")}
        /\ socket' = [socket EXCEPT !["dst"] = "open"] /\ UNCHANGED req
        /\ "connect" \in pending \/ "accept" \in pending
    BY <1>2 DEF Connected, Called, Relay, Joined
  <2>2. socket["src"] = "open" /\ \A op \in Joining \cup {"request"} : op \notin pending'
    BY <2>1, Operations, Sides DEF StageInv, Joining
  <2>3. socket'["dst"] = "open" /\ socket'["src"] = "open"
    BY <2>1, <2>2, Sides DEF TypeOK
  <2> QED
    BY <2>2, <2>3 DEF StageInv, Relaying, Joining
<1> QED
  BY <1>1, <1>2

\* The relay, once it has begun, is all there is.
RelayStep ==
    \/ \E s \in Side : \/ ReadUnit(s) \/ ReadFails(s)
                       \/ WriteUnit(s) \/ WriteToNobody(s) \/ WriteFails(s)
    \/ Ends

LEMMA RelayStage ==
    ASSUME TypeOK, StageInv, RelayStep
    PROVE  /\ StageInv' /\ (Relaying \/ pending = {}) /\ UNCHANGED <<rules, req>>
           /\ (Relaying' <=> Relaying)
           /\ \A op \in Joining \cup {"request"} : op \in pending' <=> op \in pending
<1>1. CASE Ends
  <2>1. pending = {} /\ pending' = {} /\ CloseBoth /\ UNCHANGED <<rules, req>>
    BY <1>1 DEF Ends
  <2>2. /\ socket'["src"] \in {"none", "closed"} /\ socket'["dst"] \in {"none", "closed"}
        /\ (socket'["src"] = "none" <=> socket["src"] = "none")
        /\ (socket'["dst"] = "none" <=> socket["dst"] = "none")
    BY <2>1, Sides DEF CloseBoth
  <2> QED
    BY <2>1, <2>2 DEF StageInv, Relaying
<1>2. ASSUME NEW s \in Side, ReadFails(s)
      PROVE  /\ StageInv' /\ Relaying /\ Relaying' /\ UNCHANGED <<rules, req>>
             /\ \A op \in Joining \cup {"request"} : op \notin pending'
  <2>1. Read(s) \in pending /\ pending' \subseteq pending /\ CloseBoth /\ UNCHANGED <<rules, req>>
    BY <1>2 DEF ReadFails
  <2>2. Relaying /\ \A op \in Joining \cup {"request"} : op \notin pending
    BY <2>1 DEF StageInv
  <2>3. /\ socket'["src"] \in {"none", "closed"} /\ socket'["dst"] = "closed"
        /\ (socket'["src"] = "none" <=> socket["src"] = "none")
    BY <2>1, <2>2, Sides DEF CloseBoth, Relaying
  <2> QED
    BY <2>1, <2>2, <2>3 DEF StageInv, Relaying, Joining
<1>3. ASSUME NEW s \in Side, ReadUnit(s) \/ WriteUnit(s) \/ WriteToNobody(s) \/ WriteFails(s)
      PROVE  /\ StageInv' /\ Relaying /\ Relaying' /\ UNCHANGED <<rules, req>>
             /\ \A op \in Joining \cup {"request"} : op \notin pending'
  <2>1. /\ Read(s) \in pending \/ Write(s) \in pending
        /\ pending' \subseteq pending \cup {Write(Other(s)), Read(Other(s))}
        /\ UNCHANGED <<socket, req, rules>>
    BY <1>3 DEF ReadUnit, WriteUnit, WriteToNobody, WriteFails, Written
  <2>2. Relaying /\ \A op \in Joining \cup {"request"} : op \notin pending
    BY <2>1 DEF StageInv
  <2>3. \A op \in Joining \cup {"request"} : op \notin pending'
    BY <2>1, <2>2, Operations, Sides
  <2> QED
    BY <2>1, <2>2, <2>3 DEF StageInv, Relaying, Joining
<1>4. ASSUME Relaying PROVE \A op \in Joining \cup {"request"} : op \notin pending
  BY <1>4 DEF StageInv
<1> QED
  <2>1. CASE \E s \in Side : ReadFails(s)
    BY <1>2, <1>4, <2>1
  <2>2. CASE \E s \in Side : ReadUnit(s) \/ WriteUnit(s) \/ WriteToNobody(s) \/ WriteFails(s)
    BY <1>3, <1>4, <2>2
  <2> QED
    BY <1>1, <2>1, <2>2 DEF RelayStep

LEMMA PeerStage ==
    ASSUME StageInv, NEW s \in Side,
           Send(s) \/ SendTooLate(s) \/ Receive(s) \/ Shut(s) \/ Leave(s)
    PROVE  StageInv' /\ UNCHANGED <<rules, req, pending, socket, response>>
BY DEF Send, SendTooLate, Receive, Shut, Leave, StageInv, Relaying

-----------------------------------------------------------------------------
(* The flow of units and replies.                                          *)

LEMMA SameCut == \A q : Len(q) \in Nat => CutBack(q, q)
BY DEF CutBack

\* A client stays admitted, or not.
LEMMA CutAdmitted ==
    ASSUME TypeOK, TypeOK', AdmittedInv, UNCHANGED <<rules, req>>, Admitted' => Admitted,
           CutBack(Stream("src")', Stream("src"))
    PROVE  AdmittedInv'
<1> SUFFICES ASSUME Admitted, NEW i \in 1 .. Len(Stream("src")')
             PROVE  Stream("src")'[i] # Rejected
  BY DEF AdmittedInv, fire_wall, Permits, Asked
<1>1. Len(Stream("src")) \in Nat /\ Len(Stream("src")') \in Nat
  BY StreamTyped, Sides
<1> QED
  BY <1>1 DEF AdmittedInv, CutBack

LEMMA GrowAdmitted ==
    ASSUME TypeOK, TypeOK', AdmittedInv, UNCHANGED <<rules, req>>, Admitted' => Admitted,
           NEW u, u # Rejected, Extended(Stream("src")', Stream("src"), u)
    PROVE  AdmittedInv'
<1> SUFFICES ASSUME Admitted, NEW i \in 1 .. Len(Stream("src")')
             PROVE  Stream("src")'[i] # Rejected
  BY DEF AdmittedInv, fire_wall, Permits, Asked
<1>1. Len(Stream("src")) \in Nat /\ Len(Stream("src")') = Len(Stream("src")) + 1
  BY StreamTyped, Sides DEF Extended
<1>2. CASE i = Len(Stream("src")')
  BY <1>2 DEF Extended
<1>3. CASE i # Len(Stream("src")')
  <2>1. i \in 1 .. Len(Stream("src"))
    BY <1>1, <1>3
  <2> QED
    BY <2>1 DEF AdmittedInv, Extended
<1> QED
  BY <1>2, <1>3

\* A direction in which nothing moves.
Still(s) ==
    /\ in'[s] = in[s] /\ sent'[s] = sent[s]
    /\ socket'[s] # "closed" => socket[s] # "closed"
    /\ socket'[s] = "open" /\ Relaying' =>
          /\ socket[s] = "open" /\ Relaying
          /\ Write(Other(s)) \in pending' <=> Write(Other(s)) \in pending
          /\ response'[Other(s)] = response[Other(s)]
          /\ peer'[Other(s)] # "gone" =>
                peer[Other(s)] # "gone" /\ Stream(Other(s))' = Stream(Other(s))

LEMMA FlowStays ==
    ASSUME req' = req, NEW s \in Side, Flows(s), Still(s)
    PROVE  Flows(s)'
<1>1. Taken(s)' = Taken(s) /\ Owed(Other(s))' = Owed(Other(s))
  BY DEF Still, Taken, Owed
<1>2. socket'[s] # "closed" =>
          /\ Len(in'[s]) <= sent'[s]
          /\ \A i \in 1 .. Len(in'[s]) : in'[s][i] = Unit(s, Taken(s)' + i)
  BY <1>1 DEF Still, Flows
<1>3. ASSUME socket'[s] = "open", Relaying'
      PROVE  /\ Write(Other(s)) \in pending' =>
                   Taken(s)' > 0 /\ response'[Other(s)] = Unit(s, Taken(s)')
             /\ peer'[Other(s)] # "gone" =>
                   Len(Stream(Other(s))') = Owed(Other(s))' + Delivered(s)'
  <2>1. Delivered(s)' = Delivered(s)
    BY <1>1, <1>3 DEF Delivered, Still
  <2> QED
    BY <1>1, <1>3, <2>1 DEF Still, Flows
<1> QED
  BY <1>2, <1>3 DEF Flows

\* A step that leaves the streams and what goes into them alone.
LEMMA StillOnes ==
    ASSUME TypeOK, TypeOK', AdmittedInv, EarlyInv, FlowInv, RelayedInOrder,
           UNCHANGED <<rules, req>>, Admitted' => Admitted, Relaying' <=> Relaying,
           "request" \in pending' => "request" \in pending,
           \A s \in Side : Still(s) /\ Stream(s)' = Stream(s),
           socket'["src"] = "open" => socket["src"] = "open",
           peer["src"] = "gone" => peer'["src"] = "gone"
    PROVE  AdmittedInv' /\ EarlyInv' /\ FlowInv' /\ RelayedInOrder'
<1>1. \A s \in Side : CutBack(Stream(s)', Stream(s))
  BY SameCut, StreamTyped
<1>2. AdmittedInv' /\ RelayedInOrder'
  BY <1>1, CutAdmitted, CutOrdered, Sides
<1>3. FlowInv'
  BY FlowStays DEF FlowInv
<1>4. EarlyInv'
  BY Sides DEF EarlyInv, Still
<1> QED
  BY <1>2, <1>3, <1>4

\* The client is answered, and nothing else has come or gone yet.
LEMMA RequestFlow ==
    ASSUME TypeOK, TypeOK', StageInv, AdmittedInv, EarlyInv, FlowInv, RelayedInOrder,
           (\E r \in Requests : Allow(r) \/ Refuse(r)) \/ NoneCame
    PROVE  AdmittedInv' /\ EarlyInv' /\ FlowInv' /\ RelayedInOrder'
<1>1. /\ pending = {"request"} /\ ~Relaying /\ socket["src"] = "open"
      /\ UNCHANGED <<in, sent, peer, response, got>> /\ socket'["dst"] = socket["dst"]
      /\ socket'["src"] \in {"open", "closed"}
  BY Sides DEF Allow, Refuse, NoneCame, StageInv, TypeOK
<1>2. /\ in["dst"] = <<>> /\ sent["dst"] = 0 /\ Stream("dst") = <<>> /\ Stream("src") = <<>>
      /\ in["src"] = <<>> /\ sent["src"] = 0
  BY <1>1 DEF EarlyInv
<1>3. Len(<<>>) = 0
  OBVIOUS
<1>4. ~Relaying'
  BY <1>1 DEF Relaying
<1>5. FlowInv'
  <2> SUFFICES ASSUME NEW s \in Side PROVE Flows(s)'
    BY DEF FlowInv
  <2>1. in'[s] = <<>> /\ sent'[s] = 0
    BY <1>1, <1>2, Sides
  <2> QED
    BY <1>3, <1>4, <2>1 DEF Flows
<1>6. CASE NoneCame
  <2>1. /\ pending' = {} /\ Stream("src")' = <<>> /\ Stream("dst")' = <<>>
    BY <1>2, <1>6 DEF NoneCame, Stream
  <2>2. ~Admitted'
    BY <1>4, <2>1 DEF Admitted
  <2>3. EarlyInv' /\ AdmittedInv'
    BY <1>1, <1>2, <1>3, <2>1, <2>2 DEF EarlyInv, AdmittedInv
  <2>4. RelayedInOrder'
    BY <1>3, <2>1, Sides DEF RelayedInOrder
  <2> QED
    BY <1>5, <2>3, <2>4
<1>7. ASSUME NEW r \in Requests, Allow(r) \/ Refuse(r)
      PROVE  AdmittedInv' /\ EarlyInv' /\ RelayedInOrder'
  <2>1. PICK u \in {Accepted, Rejected} :
            /\ Reply(u) /\ (Refuse(r) \/ (u = Accepted /\ Allow(r)))
    BY <1>7 DEF Allow, Refuse
  <2>2. /\ Stream("dst")' = <<>> /\ Len(Stream("src")') = 1 /\ Stream("src")'[1] = u
    <3>1. peer["src"] # "gone"
      BY <1>7 DEF Allow, Refuse
    <3>2. Stream("dst")' = Stream("dst") /\ Extended(Stream("src")', Stream("src"), u)
      BY <1>1, <2>1, <3>1, ReplyGrows
    <3>3. Len(Stream("src")') = 0 + 1 /\ Stream("src")'[Len(Stream("src")')] = u
      BY <1>2, <1>3, <3>2 DEF Extended
    <3> QED
      BY <1>2, <3>2, <3>3
  <2>3. "request" \notin pending' /\ (Refuse(r) => \A op \in Joining : op \notin pending')
    BY <1>7 DEF Allow, Refuse, Joining
  <2>4. AdmittedInv'
    <3>1. CASE Refuse(r)
      BY <1>4, <2>3, <3>1 DEF AdmittedInv, Admitted
    <3>2. CASE Allow(r) /\ u = Accepted
      <4>1. fire_wall(rules', req')
        BY <3>2 DEF Allow
      <4>2. Accepted # Rejected
        BY DEF Accepted, Rejected
      <4>3. \A i \in 1 .. Len(Stream("src")') : Stream("src")'[i] # Rejected
        BY <2>2, <3>2, <4>2
      <4> QED
        BY <4>1, <4>3 DEF AdmittedInv, fire_wall, Permits, Asked
    <3> QED
      BY <2>1, <3>1, <3>2
  <2>5. EarlyInv'
    <3>1. socket'["src"] = "open" => Len(in'["src"]) = sent'["src"]
      BY <1>1, <1>2, <1>3
    <3>2. in'["dst"] = <<>> /\ sent'["dst"] = 0
      BY <1>1, <1>2
    <3>3. Len(Stream("src")') = 1
      BY <2>2
    <3>4. Len(Stream("src")') <= 1
      BY <3>3
    <3> QED
      BY <2>2, <2>3, <3>1, <3>2, <3>3, <3>4 DEF EarlyInv
  <2>6. RelayedInOrder'
    <3> SUFFICES ASSUME NEW s \in Side, NEW i \in 1 .. Len(Stream(s)')
                 PROVE  i <= Owed(s)' /\ Stream(s)'[i] \in {Accepted, Rejected}
      BY DEF RelayedInOrder
    <3>1. s = "src"
      BY <1>3, <2>2, Sides
    <3> QED
      BY <2>2, <3>1 DEF Owed
  <2> QED
    BY <2>4, <2>5, <2>6
<1> QED
  BY <1>5, <1>6, <1>7

\* The destination is joined: the streams have the replies that are owed.
LEMMA JoinFlow ==
    ASSUME TypeOK, TypeOK', StageInv, StageInv', AdmittedInv, EarlyInv, FlowInv, RelayedInOrder,
           Resolved \/ FtpResolved \/ Connected \/ NotConnected \/ Called
    PROVE  AdmittedInv' /\ EarlyInv' /\ FlowInv' /\ RelayedInOrder'
<1>1. CASE Resolved \/ FtpResolved \/ NotConnected
  <2>1. /\ UNCHANGED <<rules, req, socket, response, peer, in, out, up, sent, got>>
        /\ \/ /\ "resolve" \in pending
              /\ pending' = (pending \ {"resolve"}) \cup {"connect"}
           \/ pending' \subseteq pending
        /\ \A s \in Side : Write(s) \in pending' <=> Write(s) \in pending
    BY <1>1, Operations DEF Resolved, FtpResolved, NotConnected, Joining
  <2>2. /\ Relaying' <=> Relaying
        /\ Admitted' => Admitted
        /\ "request" \in pending' => "request" \in pending
    BY <2>1 DEF Relaying, Admitted, Joining
  <2>3. \A s \in Side : Still(s) /\ Stream(s)' = Stream(s)
    BY <2>1, <2>2, Sides DEF Still, Stream
  <2> QED
    BY <2>1, <2>2, <2>3, StillOnes
<1>2. CASE Connected \/ Called
  <2>1. /\ pending' = (pending \ {"connect", "accept"}) \cup {Read("src"), Read("dst")}
        /\ socket' = [socket EXCEPT !["dst"] = "open"] /\ peer' = [peer EXCEPT !["dst"] = "open"]
        /\ UNCHANGED <<rules, req, response, in, up, sent, got>>
        /\ "connect" \in pending \/ "accept" \in pending
    BY <1>2 DEF Connected, Called, Relay, Joined
  <2>2. /\ Admitted /\ ~Relaying /\ socket["src"] = "open"
        /\ \A s \in Side : Write(s) \notin pending'
    BY <2>1, Operations, Sides DEF StageInv, Joining, Admitted
  <2>3. socket'["src"] = "open" /\ peer'["src"] = peer["src"] /\ Relaying'
    BY <2>1, <2>2, Sides DEF TypeOK, Relaying
  <2>4. /\ Stream("dst") = <<>> /\ in["dst"] = <<>> /\ sent["dst"] = 0
        /\ Len(in["src"]) = sent["src"]
        /\ peer["src"] # "gone" => Len(Stream("src")) = 1
    BY <2>2 DEF EarlyInv
  <2>5. /\ Stream("dst")' = <<>>
        /\ peer["src"] # "gone" => Len(Stream("src")') = Owed("src")'
        /\ AdmittedInv' /\ RelayedInOrder'
    <3>1. CASE Connected
      <4>1. \A s \in Side : Stream(s)' = Stream(s)
        BY <3>1 DEF Connected, Stream
      <4>2. req.cd = "connect"
        BY <3>1 DEF Connected, StageInv
      <4>3. \A s \in Side : CutBack(Stream(s)', Stream(s))
        BY <4>1, SameCut, StreamTyped
      <4> QED
        BY <2>1, <2>2, <2>4, <4>1, <4>2, <4>3, CutAdmitted, CutOrdered, Sides DEF Owed
    <3>2. CASE Called
      <4>1. Reply(Accepted) /\ req.cd = "bind"
        BY <3>2 DEF Called, StageInv
      <4>2. Stream("dst")' = Stream("dst")
        BY <2>1, <4>1, ReplyGrows
      <4>3. CASE peer["src"] = "gone"
        <5>1. Stream("src")' = Stream("src")
          BY <2>1, <4>1, <4>3, ReplyGrows
        <5>2. \A s \in Side : CutBack(Stream(s)', Stream(s))
          BY <4>2, <5>1, SameCut, StreamTyped, Sides
        <5> QED
          BY <2>1, <2>2, <2>4, <4>2, <4>3, <5>2, CutAdmitted, CutOrdered, Sides
      <4>4. CASE peer["src"] # "gone"
        <5>1. Extended(Stream("src")', Stream("src"), Accepted)
          BY <2>1, <4>1, <4>4, ReplyGrows
        <5>2. Accepted # Rejected
          BY DEF Accepted, Rejected
        <5>3. Owed("src") = 2 /\ Owed("src")' = 2
          BY <2>1, <4>1 DEF Owed
        <5>4. Len(Stream("src")) = 1 /\ Len(Stream("src")') = Len(Stream("src")) + 1
          BY <2>4, <4>4, <5>1 DEF Extended
        <5>5. Len(Stream("src")) + 1 = 2 /\ Len(Stream("src")) + 1 <= Owed("src")
          <6>1. \A n, m : n = 1 /\ m = 2 => n + 1 = 2 /\ n + 1 <= m
            OBVIOUS
          <6>2. Len(Stream("src")) = 1 /\ Owed("src") = 2
            BY ONLY <5>3, <5>4
          <6> QED
            BY ONLY <6>1, <6>2
        <5>6. NextOf("src", Accepted) /\ Len(Stream("src")') = 2
          BY <5>4, <5>5 DEF NextOf
        <5> QED
          BY <2>1, <2>2, <2>4, <4>2, <5>1, <5>2, <5>3, <5>6, GrowAdmitted, GrowOrdered, Sides
      <4> QED
        BY <4>3, <4>4
    <3> QED
      BY <1>2, <3>1, <3>2
  <2>6. EarlyInv'
    BY <2>3 DEF EarlyInv
  <2>7. Flows("src")'
    <3>1. /\ Len(in'["src"]) <= sent'["src"] /\ in' = in /\ Taken("src")' = Taken("src")
          /\ Taken("src") = 0 /\ Len(<<>>) = 0 /\ Owed("dst")' = 0
      BY <2>1, <2>4, Sides DEF Taken, Owed, TypeOK
    <3>2. \A i \in 1 .. Len(in["src"]) : in["src"][i] = Unit("src", Taken("src") + i)
      BY <2>2, Sides DEF FlowInv, Flows
    <3>3. Delivered("src")' = 0
      BY <2>2, <3>1, Sides DEF Delivered
    <3>4. Len(Stream("dst")') = Owed("dst")' + Delivered("src")'
      BY <2>5, <3>1, <3>3
    <3>5. \A i \in 1 .. Len(in'["src"]) : in'["src"][i] = Unit("src", Taken("src")' + i)
      BY <3>1, <3>2
    <3>6. Write("dst") \notin pending' /\ Other("src") = "dst" /\ Len(in'["src"]) <= sent'["src"]
      BY <2>2, <3>1, Sides
    <3> QED
      BY <3>4, <3>5, <3>6 DEF Flows
  <2>8. Flows("dst")'
    <3>1. in'["dst"] = <<>> /\ sent'["dst"] = 0 /\ Len(<<>>) = 0
      BY <2>1, <2>4
    <3>2. Taken("dst")' = 0 /\ Len(in'["dst"]) = 0
      <4>1. Len(in'["dst"]) = 0
        BY <3>1
      <4>2. Taken("dst")' = 0 - 0
        BY <3>1, <4>1 DEF Taken
      <4> QED
        BY <4>1, <4>2
    <3>3. Delivered("dst")' = 0
      BY <2>2, <3>2, Sides DEF Delivered
    <3>4. Owed("src")' \in Nat
      BY DEF Owed
    <3> QED
      BY <2>2, <2>3, <2>5, <3>1, <3>2, <3>3, <3>4, Sides DEF Flows
  <2> QED
    BY <2>5, <2>6, <2>7, <2>8, Sides DEF FlowInv
<1> QED
  BY <1>1, <1>2

\* Nothing is left on a stream that was empty.
LEMMA EmptyCut ==
    ASSUME TypeOK', NEW s \in Side, Stream(s) = <<>>, CutBack(Stream(s)', Stream(s))
    PROVE  Stream(s)' = <<>>
<1>1. Stream(s)' \in Seq(Item) /\ Len(Stream(s)') \in Nat
  <2>1. got'[s] \in Seq(Item) /\ out'[s] \in Seq(Item)
    BY DEF TypeOK
  <2> QED
    BY <2>1, ConcatProperties, LenProperties DEF Stream
<1>2. Len(<<>>) = 0
  OBVIOUS
<1>3. Len(Stream(s)') <= 0
  BY <1>2 DEF CutBack
<1>4. Len(Stream(s)') = 0
  BY <1>1, <1>3
<1> QED
  BY <1>1, <1>4, EmptySeq

\* A unit goes from the queue to the buffer.
LEMMA ReadFlow ==
    ASSUME TypeOK, TypeOK', StageInv, AdmittedInv, FlowInv, RelayedInOrder,
           NEW s \in Side, ReadUnit(s), Relaying, Relaying'
    PROVE  AdmittedInv' /\ FlowInv' /\ RelayedInOrder'
<1> DEFINE o == Other(s)
<1>1. /\ socket[s] = "open" /\ in[s] # <<>> /\ Write(o) \notin pending
      /\ in' = [in EXCEPT ![s] = Tail(in[s])] /\ response' = [response EXCEPT ![o] = Head(in[s])]
      /\ pending' = (pending \ {Read(s)}) \cup {Write(o)}
      /\ UNCHANGED <<rules, req, socket, peer, out, up, sent, got>>
  BY DEF ReadUnit, TypeOK
<1>2. /\ \A r \in Side : Stream(r)' = Stream(r)
      /\ \A r \in Side : CutBack(Stream(r)', Stream(r))
  <2>1. \A r \in Side : Stream(r)' = Stream(r)
    BY <1>1 DEF Stream
  <2> QED
    BY <2>1, SameCut, StreamTyped
<1>3. Admitted
  BY DEF Admitted
<1>4. AdmittedInv' /\ RelayedInOrder'
  BY <1>1, <1>2, <1>3, CutAdmitted, CutOrdered, Sides
<1>5. Flows(o)'
  <2>1. Write(s) \in pending' <=> Write(s) \in pending
    BY <1>1, Operations, Sides
  <2>2. in'[o] = in[o] /\ response'[s] = response[s]
    BY <1>1, Sides DEF TypeOK
  <2>3. Still(o)
    BY <1>1, <1>2, <2>1, <2>2, Sides DEF Still
  <2> QED
    BY <1>1, <2>3, FlowStays, Sides DEF FlowInv
<1>6. Flows(s)'
  <2>1. /\ in[s] \in Seq(Item) /\ sent[s] \in Nat /\ Len(in[s]) \in Nat \ {0}
        /\ Len(in[s]) <= sent[s]
        /\ \A i \in 1 .. Len(in[s]) : in[s][i] = Unit(s, Taken(s) + i)
    <3>1. in[s] \in Seq(Item) /\ sent[s] \in Nat
      BY DEF TypeOK
    <3> QED
      BY <1>1, <3>1, EmptySeq, LenProperties DEF FlowInv, Flows
  <2>2. /\ Len(in[s]) = Len(in'[s]) + 1 /\ Len(in'[s]) \in Nat
        /\ \A i \in 1 .. Len(in'[s]) : in'[s][i] = in[s][i + 1]
    BY ReadTyped
  <2>3. response'[o] = in[s][1]
    BY ReadTyped
  <2>4. /\ Taken(s) \in Nat /\ Taken(s)' = Taken(s) + 1
        /\ Delivered(s)' = Delivered(s) /\ Delivered(s) = Taken(s)
    <3>1. Taken(s) = sent[s] - Len(in[s]) /\ Taken(s)' = sent[s] - Len(in'[s])
      BY <1>1 DEF Taken
    <3>2. Taken(s) \in Nat /\ Taken(s)' = Taken(s) + 1
      BY <2>1, <2>2, <3>1
    <3>3. Delivered(s) = Taken(s) /\ Delivered(s)' = Taken(s)' - 1
      BY <1>1 DEF Delivered
    <3> QED
      BY <3>2, <3>3
  <2>5. Len(in'[s]) <= sent'[s]
    BY <1>1, <2>1, <2>2
  <2>6. ASSUME NEW i \in 1 .. Len(in'[s]) PROVE in'[s][i] = Unit(s, Taken(s)' + i)
    <3>1. i + 1 \in 1 .. Len(in[s])
      BY <2>1, <2>2
    <3>2. Taken(s) + (i + 1) = (Taken(s) + 1) + i
      BY <2>4
    <3> QED
      BY <2>1, <2>2, <2>4, <3>1, <3>2
  <2>7. Taken(s)' > 0 /\ response'[o] = Unit(s, Taken(s)')
    <3>1. 1 \in 1 .. Len(in[s]) /\ Taken(s) + 1 > 0
      BY <2>1, <2>4
    <3> QED
      BY <2>1, <2>3, <2>4, <3>1
  <2>8. peer'[o] # "gone" => Len(Stream(o)') = Owed(o)' + Delivered(s)'
    <3>1. peer[o] # "gone" => Len(Stream(o)) = Owed(o) + Delivered(s)
      BY <1>1 DEF FlowInv, Flows
    <3>2. Owed(o)' = Owed(o)
      BY <1>1 DEF Owed
    <3>3. Stream(o)' = Stream(o)
      BY <1>2, Sides
    <3> QED
      BY <1>1, <2>4, <3>1, <3>2, <3>3
  <2> QED
    BY <2>5, <2>6, <2>7, <2>8 DEF Flows
<1> QED
  BY <1>4, <1>5, <1>6, Sides DEF FlowInv

\* Both sockets are closed: what was on its way may be lost from any place on.
LEMMA CloseFlow ==
    ASSUME TypeOK, TypeOK', AdmittedInv, EarlyInv, FlowInv, RelayedInOrder,
           (\E s \in Side : ReadFails(s)) \/ Ends,
           Relaying \/ pending = {}, Relaying' <=> Relaying,
           \A op \in Joining \cup {"request"} : op \in pending' <=> op \in pending
    PROVE  AdmittedInv' /\ EarlyInv' /\ FlowInv' /\ RelayedInOrder'
<1>1. CloseBoth /\ UNCHANGED <<rules, req, response, peer, in, sent, got>>
  BY DEF ReadFails, Ends
<1>2. \A s \in Side : CutBack(Stream(s)', Stream(s))
  BY <1>1, CloseCuts
<1>3. Admitted' <=> Admitted
  BY DEF Admitted
<1>4. AdmittedInv' /\ RelayedInOrder'
  BY <1>1, <1>2, <1>3, CutAdmitted, CutOrdered, Sides
<1>5. \A s \in Side : socket'[s] = IF socket[s] = "none" THEN "none" ELSE "closed"
  BY <1>1 DEF CloseBoth
<1>6. FlowInv'
  <2> SUFFICES ASSUME NEW s \in Side PROVE Flows(s)'
    BY DEF FlowInv
  <2>1. Taken(s)' = Taken(s)
    BY <1>1 DEF Taken
  <2> QED
    BY <1>1, <1>5, <2>1 DEF FlowInv, Flows
<1>7. ASSUME ~Relaying' PROVE EarlyInv'
  <2>1. ~Relaying /\ pending = {} /\ ~Admitted' /\ "request" \notin pending'
    BY <1>7 DEF Admitted
  <2>2. Stream("dst")' = <<>>
    BY <1>2, <2>1, EmptyCut, Sides DEF EarlyInv
  <2>3. Len(Stream("src")') <= 1
    <3>1. Len(Stream("src")) \in Nat /\ Len(Stream("src")') \in Nat /\ Len(Stream("src")) <= 1
      BY <2>1, StreamTyped, Sides DEF EarlyInv
    <3> QED
      BY <1>2, <3>1, Sides DEF CutBack
  <2>4. socket'["src"] # "open"
    BY <1>5, Sides
  <2> QED
    BY <1>1, <2>1, <2>2, <2>3, <2>4 DEF EarlyInv
<1> QED
  BY <1>4, <1>6, <1>7 DEF EarlyInv

\* A write has both sockets open, or the peer it is for cannot be written to.
LEMMA BothOpen ==
    ASSUME StageInv, Relaying, NEW s \in Side
    PROVE  socket[s] = "closed" => socket[Other(s)] # "open"
BY Sides DEF StageInv, Relaying

\* A unit goes from the buffer to the other side.
LEMMA WriteFlow ==
    ASSUME TypeOK, TypeOK', StageInv, AdmittedInv, FlowInv, RelayedInOrder,
           NEW s \in Side, WriteUnit(s), Relaying, Relaying'
    PROVE  AdmittedInv' /\ FlowInv' /\ RelayedInOrder'
<1> DEFINE o == Other(s)
           u == response[s]
<1>1. /\ socket[s] = "open" /\ peer[s] # "gone" /\ Write(s) \in pending
      /\ out' = [out EXCEPT ![s] = Append(@, u)]
      /\ pending' = (pending \ {Write(s)}) \cup {Read(o)}
      /\ response' = [response EXCEPT ![s] = <<>>]
      /\ UNCHANGED <<rules, req, socket, peer, in, up, sent, got>>
  BY DEF WriteUnit, Written
<1>2. socket[o] = "open"
  <2>1. CASE s = "src"
    <3>1. socket["dst"] \in {"open", "none", "closed"} /\ o = "dst"
      BY <2>1, Sides DEF TypeOK
    <3> QED
      BY <1>1, <2>1, <3>1 DEF StageInv, Relaying
  <2>2. CASE s = "dst"
    BY <1>1, <2>2, Sides DEF StageInv
  <2> QED
    BY <2>1, <2>2 DEF Side
<1>3. Taken(o) > 0 /\ u = Unit(o, Taken(o)) /\ Len(Stream(s)) = Owed(s) + (Taken(o) - 1)
  BY <1>1, <1>2, Sides DEF FlowInv, Flows, Delivered
<1>4. Len(Stream(s)) \in Nat /\ Owed(s) \in Nat /\ Taken(o) \in Int
  <2>1. sent[o] \in Nat /\ Len(in[o]) \in Nat
    BY Sides, LenProperties DEF TypeOK
  <2>2. Taken(o) \in Int
    BY <2>1 DEF Taken
  <2> QED
    BY <2>2, StreamTyped DEF Owed
<1>5. u \in Item
  BY <1>1 DEF TypeOK
<1>6. Extended(Stream(s)', Stream(s), u) /\ Stream(o)' = Stream(o)
  BY <1>1, <1>5, AppendGrows
<1>7. Admitted
  BY DEF Admitted
<1>8. NextOf(s, u)
  <2>1. /\ ~(Len(Stream(s)) + 1 <= Owed(s)) /\ (Len(Stream(s)) + 1) - Owed(s) = Taken(o)
        /\ Owed(s) <= Len(Stream(s))
    BY <1>3, <1>4
  <2>2. ASSUME NEW j \in 1 .. Owed(s) PROVE Stream(s)[j] = Accepted
    <3>1. s = "src"
      BY <2>2 DEF Owed, Side
    <3>2. j \in 1 .. Len(Stream(s)) /\ j <= Owed(s)
      BY <1>4, <2>1
    <3>3. Stream(s)[j] \in {Accepted, Rejected}
      BY <3>2 DEF RelayedInOrder
    <3>4. Stream(s)[j] # Rejected
      BY <1>7, <3>1, <3>2 DEF AdmittedInv
    <3> QED
      BY <3>3, <3>4
  <2>3. u = Unit(o, (Len(Stream(s)) + 1) - Owed(s))
    BY <1>3, <2>1
  <2> QED
    BY <2>1, <2>2, <2>3 DEF NextOf
<1>9. RelayedInOrder'
  BY <1>1, <1>6, <1>8, GrowOrdered
<1>10. AdmittedInv'
  <2>1. CASE s = "src"
    <3>1. u # Rejected
      BY <1>3, Sides DEF Unit, Rejected, Side
    <3> QED
      BY <1>1, <1>6, <1>7, <2>1, <3>1, GrowAdmitted
  <2>2. CASE s = "dst"
    <3>1. Stream("src")' = Stream("src") /\ CutBack(Stream("src"), Stream("src"))
      BY <1>6, <2>2, SameCut, StreamTyped, Sides
    <3> QED
      BY <1>1, <1>7, <3>1, CutAdmitted
  <2> QED
    BY <2>1, <2>2 DEF Side
<1>11. Flows(s)'
  <2>1. Write(o) \in pending' <=> Write(o) \in pending
    BY <1>1, Operations, Sides
  <2>2. response'[o] = response[o]
    BY <1>1, Sides DEF TypeOK
  <2>3. Still(s)
    BY <1>1, <1>6, <2>1, <2>2 DEF Still
  <2> QED
    BY <1>1, <2>3, FlowStays DEF FlowInv
<1>12. Flows(o)'
  <2>1. Write(s) \notin pending'
    BY <1>1, Operations, Sides
  <2>2. Taken(o)' = Taken(o) /\ Owed(s)' = Owed(s)
    BY <1>1 DEF Taken, Owed
  <2>3. Delivered(o)' = Taken(o)
    BY <2>1, <2>2, Sides DEF Delivered
  <2>4. Len(Stream(s)') = Len(Stream(s)) + 1
    BY <1>6 DEF Extended
  <2>5. Len(Stream(s)') = Owed(s)' + Delivered(o)'
    BY <1>3, <1>4, <2>2, <2>3, <2>4
  <2>6. /\ Len(in'[o]) <= sent'[o]
        /\ \A i \in 1 .. Len(in'[o]) : in'[o][i] = Unit(o, Taken(o)' + i)
    BY <1>1, <1>2, <2>2, Sides DEF FlowInv, Flows
  <2> QED
    BY <2>1, <2>5, <2>6, Sides DEF Flows
<1> QED
  BY <1>9, <1>10, <1>11, <1>12, Sides DEF FlowInv

\* A unit that cannot be written is lost, and nothing comes after it.
LEMMA LostFlow ==
    ASSUME TypeOK, TypeOK', StageInv, AdmittedInv, FlowInv, RelayedInOrder,
           NEW s \in Side, WriteToNobody(s) \/ WriteFails(s), Relaying, Relaying'
    PROVE  AdmittedInv' /\ FlowInv' /\ RelayedInOrder'
<1> DEFINE o == Other(s)
<1>1. /\ socket[s] = "closed" \/ peer[s] = "gone"
      /\ \/ pending' = (pending \ {Write(s)}) \cup {Read(o)}
         \/ pending' = pending \ {Write(s)}
      /\ response' = [response EXCEPT ![s] = <<>>]
      /\ UNCHANGED <<rules, req, socket, peer, in, out, up, sent, got>>
  BY DEF WriteToNobody, WriteFails, Failed, Written
<1>2. /\ \A r \in Side : Stream(r)' = Stream(r)
      /\ \A r \in Side : CutBack(Stream(r)', Stream(r))
  <2>1. \A r \in Side : Stream(r)' = Stream(r)
    BY <1>1 DEF Stream
  <2> QED
    BY <2>1, SameCut, StreamTyped
<1>3. AdmittedInv' /\ RelayedInOrder'
  BY <1>1, <1>2, CutAdmitted, CutOrdered, Sides DEF Admitted
<1>4. Flows(s)'
  <2>1. Write(o) \in pending' <=> Write(o) \in pending
    BY <1>1, Operations, Sides
  <2>2. response'[o] = response[o]
    BY <1>1, Sides DEF TypeOK
  <2>3. Still(s)
    BY <1>1, <1>2, <2>1, <2>2, Sides DEF Still
  <2> QED
    BY <1>1, <2>3, FlowStays DEF FlowInv
<1>5. Flows(o)'
  <2>1. Taken(o)' = Taken(o) /\ Write(s) \notin pending' /\ Other(o) = s
    BY <1>1, Operations, Sides DEF Taken
  <2>2. socket'[o] # "open" \/ peer'[s] = "gone"
    BY <1>1, BothOpen
  <2>3. socket'[o] # "closed" =>
            /\ Len(in'[o]) <= sent'[o]
            /\ \A i \in 1 .. Len(in'[o]) : in'[o][i] = Unit(o, Taken(o)' + i)
    BY <1>1, <2>1, Sides DEF FlowInv, Flows
  <2> QED
    BY <2>1, <2>2, <2>3 DEF Flows
<1> QED
  BY <1>3, <1>4, <1>5, Sides DEF FlowInv

LEMMA RelayFlow ==
    ASSUME TypeOK, TypeOK', StageInv, AdmittedInv, EarlyInv, FlowInv, RelayedInOrder, RelayStep
    PROVE  AdmittedInv' /\ EarlyInv' /\ FlowInv' /\ RelayedInOrder'
<1>1. CASE (\E s \in Side : ReadFails(s)) \/ Ends
  BY <1>1, RelayStage, CloseFlow
<1>2. ASSUME NEW s \in Side, ReadUnit(s) \/ WriteUnit(s) \/ WriteToNobody(s) \/ WriteFails(s)
      PROVE  AdmittedInv' /\ EarlyInv' /\ FlowInv' /\ RelayedInOrder'
  <2>1. Relaying /\ Relaying'
    <3>1. Read(s) \in pending \/ Write(s) \in pending
      BY <1>2 DEF ReadUnit, WriteUnit, WriteToNobody, WriteFails
    <3>2. Relaying
      BY <3>1 DEF StageInv
    <3> QED
      BY <3>2, RelayStage
  <2>2. EarlyInv'
    BY <2>1 DEF EarlyInv
  <2> QED
    BY <1>2, <2>1, <2>2, ReadFlow, WriteFlow, LostFlow
<1> QED
  BY <1>1, <1>2 DEF RelayStep

\* A client that was not answered does not send.
LEMMA AnsweredFirst ==
    ASSUME TypeOK, Stream("src") = <<>>
    PROVE  ~MaySend("src")
<1>1. got["src"] \in Seq(Item) /\ out["src"] \in Seq(Item)
  BY Sides DEF TypeOK
<1>2. got["src"] = <<>>
  BY <1>1, ConcatEqualIffEmpty DEF Stream
<1> QED
  BY <1>2 DEF MaySend, Replies

LEMMA SendFlow ==
    ASSUME TypeOK, TypeOK', StageInv, AdmittedInv, EarlyInv, FlowInv, RelayedInOrder,
           NEW s \in Side, Send(s)
    PROVE  AdmittedInv' /\ EarlyInv' /\ FlowInv' /\ RelayedInOrder'
<1> DEFINE o == Other(s)
           u == Unit(s, sent[s] + 1)
<1>1. /\ MaySend(s) /\ socket[s] = "open"
      /\ sent' = [sent EXCEPT ![s] = @ + 1] /\ in' = [in EXCEPT ![s] = Append(@, u)]
      /\ UNCHANGED <<rules, req, pending, socket, response, peer, out, up, got>>
  BY DEF Send
<1>2. /\ \A r \in Side : Stream(r)' = Stream(r)
      /\ \A r \in Side : CutBack(Stream(r)', Stream(r))
  <2>1. \A r \in Side : Stream(r)' = Stream(r)
    BY <1>1 DEF Stream
  <2> QED
    BY <2>1, SameCut, StreamTyped
<1>3. (Relaying' <=> Relaying) /\ (Admitted' <=> Admitted)
  BY <1>1 DEF Relaying, Admitted
<1>4. AdmittedInv' /\ RelayedInOrder'
  BY <1>1, <1>2, <1>3, CutAdmitted, CutOrdered, Sides
<1>5. /\ in[s] \in Seq(Item) /\ Len(in[s]) \in Nat /\ sent[s] \in Nat /\ u \in Item
      /\ in'[s] = Append(in[s], u) /\ sent'[s] = sent[s] + 1
      /\ in'[o] = in[o] /\ sent'[o] = sent[o]
  <2>1. in[s] \in Seq(Item) /\ sent[s] \in Nat
    BY DEF TypeOK
  <2>2. u \in Item
    BY <2>1 DEF Unit, Item
  <2> QED
    BY <1>1, <2>1, <2>2, LenProperties, Sides DEF TypeOK
<1>6. /\ Len(in'[s]) = Len(in[s]) + 1 /\ in'[s][Len(in[s]) + 1] = u
      /\ \A i \in 1 .. Len(in[s]) : in'[s][i] = in[s][i]
  BY <1>5, AppendProperties
<1>7. Flows(s)'
  <2>1. /\ Len(in[s]) <= sent[s]
        /\ \A i \in 1 .. Len(in[s]) : in[s][i] = Unit(s, Taken(s) + i)
    BY <1>1 DEF FlowInv, Flows
  <2>2. Taken(s)' = Taken(s) /\ Taken(s) + (Len(in[s]) + 1) = sent[s] + 1
    <3>1. Taken(s)' = (sent[s] + 1) - (Len(in[s]) + 1) /\ Taken(s) = sent[s] - Len(in[s])
      BY <1>5, <1>6 DEF Taken
    <3> QED
      BY <1>5, <3>1
  <2>3. ASSUME NEW i \in 1 .. Len(in'[s]) PROVE in'[s][i] = Unit(s, Taken(s)' + i)
    <3>1. CASE i = Len(in[s]) + 1
      BY <1>6, <2>2, <3>1
    <3>2. CASE i # Len(in[s]) + 1
      <4>1. i \in 1 .. Len(in[s])
        BY <1>5, <1>6, <3>2
      <4> QED
        BY <1>6, <2>1, <2>2, <4>1
    <3> QED
      BY <3>1, <3>2
  <2>4. Len(in'[s]) <= sent'[s]
    BY <1>5, <1>6, <2>1
  <2>5. Delivered(s)' = Delivered(s) /\ Owed(o)' = Owed(o) /\ Stream(o)' = Stream(o)
    BY <1>1, <1>2, <2>2, Sides DEF Delivered, Owed
  <2>6. Relaying' =>
            /\ Write(o) \in pending' => Taken(s)' > 0 /\ response'[o] = Unit(s, Taken(s)')
            /\ peer'[o] # "gone" => Len(Stream(o)') = Owed(o)' + Delivered(s)'
    BY <1>1, <1>3, <2>2, <2>5 DEF FlowInv, Flows
  <2> QED
    BY <2>3, <2>4, <2>6 DEF Flows
<1>8. Flows(o)'
  <2>1. Still(o)
    BY <1>1, <1>2, <1>3, <1>5, Sides DEF Still
  <2> QED
    BY <1>1, <2>1, FlowStays, Sides DEF FlowInv
<1>9. ASSUME ~Relaying PROVE EarlyInv'
  <2>1. s = "src" /\ o = "dst"
    BY <1>1, <1>9, Sides DEF Relaying, Side
  <2>2. "request" \notin pending
    BY <1>1, <1>9, <2>1, AnsweredFirst DEF EarlyInv
  <2>3. in'["dst"] = <<>> /\ sent'["dst"] = 0
    BY <1>5, <1>9, <2>1 DEF EarlyInv
  <2>4. Len(in'["src"]) = sent'["src"]
    <3>1. Len(in[s]) = sent[s]
      BY <1>1, <1>9, <2>1 DEF EarlyInv
    <3> QED
      BY <1>5, <1>6, <2>1, <3>1
  <2>5. /\ Stream("dst")' = <<>> /\ Len(Stream("src")') <= 1
        /\ Admitted' /\ peer'["src"] # "gone" => Len(Stream("src")') = 1
    BY <1>1, <1>2, <1>3, <1>9, Sides DEF EarlyInv
  <2> QED
    BY <1>1, <2>2, <2>3, <2>4, <2>5 DEF EarlyInv
<1> QED
  BY <1>3, <1>4, <1>7, <1>8, <1>9, Sides DEF FlowInv, EarlyInv

\* A peer that goes, or that sends to a closed socket, loses what was on its way.
LEMMA LeaveFlow ==
    ASSUME TypeOK, TypeOK', StageInv, AdmittedInv, EarlyInv, FlowInv, RelayedInOrder,
           NEW s \in Side, Leave(s) \/ SendTooLate(s)
    PROVE  AdmittedInv' /\ EarlyInv' /\ FlowInv' /\ RelayedInOrder'
<1> DEFINE o == Other(s)
<1>1. /\ UNCHANGED <<rules, req, pending, socket, response, in>>
      /\ peer'[o] = peer[o] /\ sent'[o] = sent[o]
      /\ \/ peer'[s] = "gone" /\ sent'[s] = sent[s]
         \/ peer'[s] = peer[s] /\ socket[s] = "closed"
  BY Sides DEF Leave, SendTooLate, TypeOK
<1>2. \A r \in Side : CutBack(Stream(r)', Stream(r))
  BY LeaveCuts
<1>3. Stream(o)' = Stream(o)
  BY LeaveCuts
<1>4. (Relaying' <=> Relaying) /\ (Admitted' <=> Admitted)
  BY <1>1 DEF Relaying, Admitted
<1>5. AdmittedInv' /\ RelayedInOrder'
  BY <1>1, <1>2, <1>4, CutAdmitted, CutOrdered, Sides
<1>6. Flows(o)'
  <2>1. socket[o] = "open" /\ Relaying => peer'[s] = "gone"
    BY <1>1, BothOpen
  <2>2. Still(o)
    BY <1>1, <1>4, <2>1, Sides DEF Still
  <2> QED
    BY <1>1, <2>2, FlowStays, Sides DEF FlowInv
<1>7. Flows(s)'
  <2>1. CASE socket[s] = "closed"
    BY <1>1, <2>1 DEF Flows
  <2>2. CASE socket[s] # "closed"
    <3>1. Still(s)
      BY <1>1, <1>3, <1>4, <2>2, Sides DEF Still
    <3> QED
      BY <1>1, <3>1, FlowStays DEF FlowInv
  <2> QED
    BY <2>1, <2>2
<1>8. ASSUME ~Relaying PROVE EarlyInv'
  <2>1. /\ in'["dst"] = <<>> /\ Stream("dst")' = <<>>
        /\ "request" \in pending' => Stream("src")' = <<>> /\ in'["src"] = <<>>
    BY <1>1, <1>2, <1>8, EmptyCut, Sides DEF EarlyInv
  <2>2. Len(Stream("src")') <= 1
    <3>1. Len(Stream("src")) \in Nat /\ Len(Stream("src")') \in Nat /\ Len(Stream("src")) <= 1
      BY <1>8, StreamTyped, Sides DEF EarlyInv
    <3> QED
      BY <1>2, <3>1, Sides DEF CutBack
  <2>3. sent'["dst"] = 0
    BY <1>1, <1>8, Sides DEF EarlyInv, Relaying
  <2>4. CASE socket["src"] = "closed"
    <3>1. ~Admitted /\ "request" \notin pending
      BY <1>8, <2>4, Sides DEF StageInv, Admitted
    <3> QED
      BY <1>1, <1>4, <2>1, <2>2, <2>3, <2>4, <3>1 DEF EarlyInv
  <2>5. CASE socket["src"] # "closed"
    <3>1. sent'["src"] = sent["src"]
      BY <1>1, <2>5, Sides
    <3>2. Admitted' /\ peer'["src"] # "gone" => Len(Stream("src")') = 1
      <4>1. peer'["src"] # "gone" => s # "src" /\ o = "src"
        BY <1>1, <2>5, Sides DEF Side
      <4> QED
        BY <1>1, <1>3, <1>4, <1>8, <4>1 DEF EarlyInv
    <3>3. /\ "request" \in pending' => sent'["src"] = 0
          /\ socket'["src"] = "open" => Len(in'["src"]) = sent'["src"]
      BY <1>1, <1>8, <3>1 DEF EarlyInv
    <3> QED
      BY <2>1, <2>2, <2>3, <3>2, <3>3 DEF EarlyInv
  <2> QED
    BY <2>4, <2>5
<1> QED
  BY <1>4, <1>5, <1>6, <1>7, <1>8, Sides DEF FlowInv, EarlyInv

LEMMA PeerFlow ==
    ASSUME TypeOK, TypeOK', StageInv, AdmittedInv, EarlyInv, FlowInv, RelayedInOrder,
           NEW s \in Side, Send(s) \/ SendTooLate(s) \/ Receive(s) \/ Shut(s) \/ Leave(s)
    PROVE  AdmittedInv' /\ EarlyInv' /\ FlowInv' /\ RelayedInOrder'
<1>1. CASE Receive(s) \/ Shut(s)
  <2>1. /\ UNCHANGED <<rules, req, pending, socket, response, in, sent>>
        /\ \A r \in Side : peer'[r] = "gone" <=> peer[r] = "gone"
    BY <1>1 DEF Receive, Shut, TypeOK
  <2>2. \A r \in Side : Stream(r)' = Stream(r)
    <3>1. CASE Receive(s)
      BY <3>1, ReceiveKeeps
    <3>2. CASE Shut(s)
      BY <3>2 DEF Shut, Stream
    <3> QED
      BY <1>1, <3>1, <3>2
  <2>3. (Relaying' <=> Relaying) /\ (Admitted' <=> Admitted)
    BY <2>1 DEF Relaying, Admitted
  <2>4. \A r \in Side : Still(r) /\ Stream(r)' = Stream(r)
    BY <2>1, <2>2, <2>3, Sides DEF Still
  <2> QED
    BY <2>1, <2>3, <2>4, StillOnes, Sides
<1> QED
  BY <1>1, SendFlow, LeaveFlow

-----------------------------------------------------------------------------
(* The invariant.                                                          *)

LEMMA InitIInv == ASSUME Init PROVE IInv
<1>1. /\ Len(<<>>) = 0 /\ \A S : <<>> \in Seq(S)
      /\ \A S : \A q \in Seq(S) : q \o <<>> = q
  BY EmptySeq, ConcatEmptySeq
<1>2. \A s \in Side : Stream(s) = <<>> /\ sent[s] = 0 /\ in[s] = <<>>
  <2> SUFFICES ASSUME NEW s \in Side PROVE Stream(s) = <<>>
    BY DEF Init
  <2>1. got[s] = <<>> /\ out[s] = <<>>
    BY DEF Init
  <2> QED
    BY <1>1, <2>1 DEF Stream
<1>3. ~Relaying /\ ~Admitted
  BY Sides DEF Init, Relaying, Admitted, Joining
<1>4. TypeOK
  <2>1. /\ in \in [Side -> Seq(Item)] /\ out \in [Side -> Seq(Item)] /\ got \in [Side -> Seq(Item)]
        /\ sent \in [Side -> Nat] /\ response \in [Side -> Item \cup {<<>>}]
    BY <1>1 DEF Init
  <2>2. \A s \in Side : Len(in[s]) <= Cap
    BY <1>1, <1>2, SocksAssumption
  <2>3. /\ socket \in [Side -> {"none", "open", "closed"}] /\ up \in BOOLEAN
        /\ peer \in [Side -> {"none", "open", "shut", "gone"}]
    BY DEF Init
  <2>4. /\ \A s \in Side : Read(s) \notin pending /\ Write(s) \notin pending /\ response[s] = <<>>
        /\ pending \subseteq Operation
    BY DEF Init, Read, Write, Operation
  <2>5. rules = <<>> /\ req = NoRequest
    BY DEF Init
  <2> QED
    BY <2>1, <2>2, <2>3, <2>4, <2>5 DEF TypeOK
<1>5. StageInv
  BY <1>3, Sides DEF Init, StageInv, Joining, Read, Write
<1>6. AdmittedInv
  BY <1>3 DEF AdmittedInv
<1>7. EarlyInv
  <2>1. Len(Stream("src")) = 0 /\ Len(in["src"]) = 0
    BY <1>1, <1>2, Sides
  <2>2. Len(Stream("src")) <= 1 /\ Len(in["src"]) = sent["src"]
    BY <1>2, <2>1, Sides
  <2> QED
    BY <1>2, <1>3, <2>2, Sides DEF EarlyInv
<1>8. FlowInv
  BY <1>1, <1>2, <1>3 DEF FlowInv, Flows
<1>9. RelayedInOrder
  BY <1>1, <1>2 DEF RelayedInOrder
<1> QED
  BY <1>4, <1>5, <1>6, <1>7, <1>8, <1>9 DEF IInv

LEMMA NextIInv ==
    ASSUME IInv, [Next]_vars
    PROVE  IInv'
<1> USE DEF IInv
<1>1. CASE (\E r \in Requests : Allow(r) \/ Refuse(r)) \/ NoneCame
  BY <1>1, RequestTyped, RequestStage, RequestFlow
<1>2. CASE Resolved \/ FtpResolved \/ Connected \/ NotConnected \/ Called
  <2>1. TypeOK' /\ StageInv'
    BY <1>2, JoinTyped, JoinStage
  <2> QED
    BY <1>2, <2>1, JoinFlow
<1>3. CASE RelayStep
  <2>1. TypeOK'
    BY <1>3, ReadTyped, WriteTyped, CloseTyped DEF RelayStep
  <2> QED
    BY <1>3, <2>1, RelayStage, RelayFlow
<1>4. ASSUME NEW s \in Side, Send(s) \/ SendTooLate(s) \/ Receive(s) \/ Shut(s) \/ Leave(s)
      PROVE  IInv'
  <2>1. TypeOK' /\ StageInv'
    BY <1>4, PeerTyped, PeerStage
  <2> QED
    BY <1>4, <2>1, PeerFlow
<1>5. CASE UNCHANGED vars
  BY <1>5 DEF vars, TypeOK, StageInv, AdmittedInv, EarlyInv, FlowInv, Flows, RelayedInOrder,
              Relaying, Admitted, Stream, Owed, Taken, Delivered, fire_wall, Permits, Asked
<1> QED
  BY <1>1, <1>2, <1>3, <1>4, <1>5 DEF Next, Handler, Peer, RelayStep

-----------------------------------------------------------------------------
(* Theorems.                                                               *)

\* The invariant holds in every session.
THEOREM Invariance == Spec => []IInv
<1>1. Init => IInv
  BY InitIInv
<1>2. IInv /\ [Next]_vars => IInv'
  BY NextIInv
<1> QED
  BY <1>1, <1>2, PTL DEF Spec, Safety

\* Every variable keeps its type, a queue its length, and a direction of the relay
\* (do_read_* and do_write_*) its one operation.
THEOREM TypeCorrect == Spec => []TypeOK
<1>1. IInv => TypeOK
  BY DEF IInv
<1> QED
  BY <1>1, Invariance, PTL

\* Whatever the sizes of the queues, and wherever a socket is closed or a peer goes,
\* what a side reads is its replies and then the other's units, none left out.
THEOREM RelayedAlwaysInOrder == Spec => []RelayedInOrder
<1>1. IInv => RelayedInOrder
  BY DEF IInv
<1> QED
  BY <1>1, Invariance, PTL

\* For every socks.conf and every request: what is relayed was permitted, and the
\* client was not told that it is not.
THEOREM RulesAlwaysKept == Spec => []RulesKept
<1>1. ASSUME IInv PROVE RulesKept
  <2> SUFFICES ASSUME Relaying
               PROVE  /\ \A i \in DOMAIN got["src"] : got["src"][i] # Rejected
                      /\ \/ rules = <<>>
                         \/ \E i \in DOMAIN rules : rules[i].cd = req.cd /\
                                (IF req.named THEN Unset ELSE req.host) \in rules[i].ips
    BY DEF RulesKept
  <2>1. /\ fire_wall(rules, req)
        /\ \A i \in 1 .. Len(Stream("src")) : Stream("src")[i] # Rejected
    BY <1>1 DEF IInv, AdmittedInv, Admitted
  <2>2. ASSUME NEW i \in DOMAIN got["src"] PROVE got["src"][i] # Rejected
    <3>1. got["src"] \in Seq(Item) /\ out["src"] \in Seq(Item)
      BY <1>1, Sides DEF IInv, TypeOK
    <3>2. i \in 1 .. Len(got["src"]) /\ Len(got["src"]) \in Nat /\ Len(out["src"]) \in Nat
      BY <3>1, LenProperties
    <3> DEFINE g == got["src"]
               q == out["src"]
    <3>3. (g \o q)[i] = g[i] /\ i \in 1 .. Len(g \o q)
      <4> g \in Seq(Item) /\ q \in Seq(Item)
        BY <3>1
      <4> HIDE DEF g, q
      <4>1. Len(g \o q) = Len(g) + Len(q) /\ \A j \in 1 .. Len(g) : (g \o q)[j] = g[j]
        BY ConcatProperties
      <4>2. i \in 1 .. Len(g) /\ Len(g) \in Nat /\ Len(q) \in Nat
        BY <3>2 DEF g, q
      <4>3. i \in 1 .. (Len(g) + Len(q))
        BY <4>2
      <4> QED
        BY <4>1, <4>2, <4>3
    <3>4. Stream("src")[i] = got["src"][i] /\ i \in 1 .. Len(Stream("src"))
      BY <3>3 DEF Stream
    <3> QED
      BY <2>1, <3>4
  <2> QED
    BY <2>1, <2>2 DEF fire_wall, Permits, Asked
<1> QED
  BY <1>1, Invariance, PTL

-----------------------------------------------------------------------------
(* The session is a tunnel.                                                *)

\* What the client has been told is what the rules say of the request that was read,
\* and the destination is not there before it is joined.
ToldInv ==
    /\ "request" \in pending => req = NoRequest
    /\ Relaying => req # NoRequest
    /\ ~Relaying => peer["dst"] = "none"
    /\ \A i \in 1 .. Len(Stream("src")) :
          /\ Stream("src")[i] = Rejected => req # NoRequest /\ ~fire_wall(rules, req)
          /\ Stream("src")[i] = Accepted => req # NoRequest /\ fire_wall(rules, req)

\* Before the request is read nothing has come or gone.
LEMMA AskedEmpty ==
    ASSUME IInv, ToldInv, req = NoRequest
    PROVE  ~Relaying /\ Stream("src") = <<>> /\ Stream("dst") = <<>>
<1>1. ~Relaying /\ Stream("dst") = <<>> /\ Len(Stream("src")) <= 1
  BY DEF ToldInv, IInv, EarlyInv
<1>2. Stream("src") \in Seq(Item) /\ Len(Stream("src")) \in Nat /\ Owed("src") = 1
  BY StreamTyped, Sides DEF IInv, Owed, NoRequest
<1>3. Len(Stream("src")) # 1
  <2> SUFFICES ASSUME Len(Stream("src")) = 1 PROVE FALSE
    OBVIOUS
  <2>1. Stream("src")[1] \in {Accepted, Rejected}
    BY <1>2, Sides DEF IInv, RelayedInOrder
  <2> QED
    BY <2>1 DEF ToldInv
<1>4. \A q \in Seq(Item) : Len(q) = 0 => q = <<>>
  BY EmptySeq
<1>5. \A n \in Nat : n <= 1 /\ n # 1 => n = 0
  OBVIOUS
<1>6. Len(Stream("src")) = 0
  BY <1>1, <1>2, <1>3, <1>5
<1> QED
  BY <1>1, <1>2, <1>4, <1>6

\* A step after the request was read leaves what each side is sent, cuts it, or adds
\* a unit or the second reply to it.
LEMMA StreamsMove ==
    ASSUME IInv, IInv', Next, ~(\E r \in Requests : Allow(r) \/ Refuse(r)), NEW s \in Side
    PROVE  /\ UNCHANGED <<rules, req>>
           /\ "request" \in pending' => "request" \in pending
           /\ \/ CutBack(Stream(s)', Stream(s))
              \/ /\ WriteUnit(s) /\ Extended(Stream(s)', Stream(s), response[s])
                 /\ Stream(Other(s))' = Stream(Other(s))
              \/ Called /\ s = "src" /\ Extended(Stream(s)', Stream(s), Accepted)
<1> DEFINE asked == "request" \in pending' => "request" \in pending
<1>1. TypeOK /\ TypeOK' /\ StageInv
  BY DEF IInv
<1>3. CutBack(Stream(s), Stream(s))
  BY <1>1, SameCut, StreamTyped
<1>4. CASE NoneCame \/ Resolved \/ FtpResolved \/ Connected \/ NotConnected
  <2>1. UNCHANGED <<rules, req, got, out>> /\ asked
    BY <1>4 DEF NoneCame, Resolved, FtpResolved, Connected, NotConnected, Relay, Read, Side
  <2> QED
    BY <1>3, <2>1 DEF Stream
<1>5. CASE Called
  <2>1. UNCHANGED <<rules, req, got>> /\ asked /\ Reply(Accepted)
    BY <1>5 DEF Called, Relay, Read, Side
  <2>2. /\ Stream("dst")' = Stream("dst")
        /\ IF peer["src"] = "gone" THEN Stream("src")' = Stream("src")
           ELSE Extended(Stream("src")', Stream("src"), Accepted)
    BY <1>1, <2>1, ReplyGrows
  <2> QED
    BY <1>3, <1>5, <2>1, <2>2 DEF Side
<1>6. ASSUME NEW r \in Side, ReadUnit(r) \/ WriteToNobody(r) \/ WriteFails(r) \/ Send(r) \/ Shut(r)
      PROVE  UNCHANGED <<rules, req, got, out>> /\ asked
  BY <1>6 DEF ReadUnit, WriteToNobody, WriteFails, Send, Shut, Written, Read, Write, Side, Other
<1>7. ASSUME NEW r \in Side, ReadFails(r)
      PROVE  UNCHANGED <<rules, req>> /\ asked /\ CutBack(Stream(s)', Stream(s))
  <2>1. UNCHANGED <<rules, req, got>> /\ asked /\ CloseBoth
    BY <1>7 DEF ReadFails
  <2> QED
    BY <1>1, <2>1, CloseCuts
<1>8. CASE Ends
  <2>1. UNCHANGED <<rules, req, got>> /\ asked /\ CloseBoth
    BY <1>8 DEF Ends
  <2> QED
    BY <1>1, <2>1, CloseCuts
<1>9. ASSUME NEW r \in Side, WriteUnit(r)
      PROVE  /\ UNCHANGED <<rules, req>> /\ asked
             /\ Extended(Stream(r)', Stream(r), response[r]) /\ Stream(Other(r))' = Stream(Other(r))
  <2>1. /\ UNCHANGED <<rules, req, got>> /\ asked
        /\ out' = [out EXCEPT ![r] = Append(@, response[r])] /\ Write(r) \in pending
    BY <1>9 DEF WriteUnit, Written, Read, Write, Side, Other
  <2>2. response[r] \in Item
    BY <1>1, <2>1 DEF TypeOK
  <2> QED
    BY <1>1, <2>1, <2>2, AppendGrows
<1>10. ASSUME NEW r \in Side, Receive(r)
       PROVE  UNCHANGED <<rules, req>> /\ asked /\ Stream(s)' = Stream(s)
  <2>1. Stream(s)' = Stream(s)
    BY <1>1, <1>10, ReceiveKeeps
  <2> QED
    BY <1>10, <2>1 DEF Receive
<1>11. ASSUME NEW r \in Side, Leave(r) \/ SendTooLate(r)
       PROVE  UNCHANGED <<rules, req>> /\ asked /\ CutBack(Stream(s)', Stream(s))
  <2>1. CutBack(Stream(s)', Stream(s))
    BY <1>1, <1>11, LeaveCuts
  <2> QED
    BY <1>11, <2>1 DEF Leave, SendTooLate
<1>12. ASSUME NEW r \in Side, WriteUnit(r)
       PROVE  CutBack(Stream(s)', Stream(s)) \/ s = r
  <2>1. s # r => s = Other(r)
    BY DEF Side, Other
  <2> QED
    BY <1>3, <1>9, <1>12, <2>1
<1> QED
  BY <1>3, <1>4, <1>5, <1>6, <1>7, <1>8, <1>9, <1>10, <1>11, <1>12
     DEF Next, Handler, Peer, Stream

\* Every step keeps what the client has been told true.
LEMMA NextKeepsTold ==
    ASSUME IInv, IInv', ToldInv, Next
    PROVE  ToldInv'
<1>1. TypeOK /\ StageInv /\ AdmittedInv /\ EarlyInv /\ FlowInv
  BY DEF IInv
<1>2. NoRequest.cd = "none" /\ NoRequest \notin Requests
  <2>1. \A r \in Requests : r.cd \in {"connect", "bind"}
    BY SocksAssumption DEF Request, Command
  <2> QED
    BY <2>1 DEF NoRequest
<1>3. ASSUME NEW r \in Requests, Allow(r) \/ Refuse(r)
      PROVE  ToldInv'
  <2>1. /\ "request" \in pending /\ req' = r /\ got' = got /\ r # NoRequest
        /\ "request" \notin pending' /\ ~Relaying /\ (Relaying' <=> Relaying)
        /\ Stream("src") = <<>> /\ peer' = peer
    <3>1. /\ "request" \in pending /\ req' = r /\ got' = got /\ "request" \notin pending'
          /\ peer' = peer
      BY <1>3 DEF Allow, Refuse
    <3>2. ~Relaying /\ (Relaying' <=> Relaying)
      BY <1>1, <1>3, <3>1 DEF StageInv, Relaying, Allow, Refuse, TypeOK, Side
    <3> QED
      BY <1>1, <1>2, <3>1, <3>2 DEF EarlyInv
  <2>2. \/ fire_wall(rules', r) /\ Reply(Accepted)
        \/ ~fire_wall(rules', r) /\ Reply(Rejected)
    BY <1>3 DEF Allow, Refuse
  <2>3. PICK u \in {Accepted, Rejected} :
            Reply(u) /\ (u = Accepted <=> fire_wall(rules', r))
    BY <2>2 DEF Accepted, Rejected
  <2>4. \/ Stream("src")' = <<>>
        \/ Extended(Stream("src")', <<>>, u)
    BY <1>1, <2>1, <2>3, ReplyGrows
  <2>5. \A i \in 1 .. Len(Stream("src")') : Stream("src")'[i] = u
    <3>1. Len(<<>>) = 0
      BY EmptySeq
    <3> QED
      BY <2>4, <3>1 DEF Extended
  <2>6. \A i \in 1 .. Len(Stream("src")') :
            /\ Stream("src")'[i] = Rejected => ~fire_wall(rules', r)
            /\ Stream("src")'[i] = Accepted => fire_wall(rules', r)
    BY <2>3, <2>5 DEF Accepted, Rejected
  <2> QED
    BY <2>1, <2>6 DEF ToldInv, fire_wall, Permits, Asked
<1>4. CASE ~(\E r \in Requests : Allow(r) \/ Refuse(r))
  <2> DEFINE new == Stream("src")'
             old == Stream("src")
  <2>1. /\ UNCHANGED <<rules, req>> /\ ("request" \in pending' => "request" \in pending)
        /\ \/ CutBack(new, old)
           \/ WriteUnit("src") /\ Extended(new, old, response["src"])
           \/ Called /\ Extended(new, old, Accepted)
    BY <1>4, StreamsMove, Sides
  <2>2. Relaying' => req # NoRequest
    <3>1. CASE Relaying
      BY <3>1 DEF ToldInv
    <3>2. CASE ~Relaying /\ Relaying'
      <4>1. Connected \/ Called
        BY <1>4, <3>2 DEF Next, Handler, Peer, NoneCame, Resolved, FtpResolved, NotConnected,
             ReadUnit, ReadFails, WriteUnit, WriteToNobody, WriteFails, Ends, CloseBoth, Send,
             SendTooLate, Receive, Shut, Leave, Relaying, Side
      <4>2. req.cd \in {"connect", "bind"}
        BY <1>1, <4>1 DEF Connected, Called, StageInv
      <4> QED
        BY <1>2, <4>2
    <3> QED
      BY <3>1, <3>2
  <2>9. ~Relaying' => peer'["dst"] = "none"
    <3>1. CASE Connected \/ Called
      BY <1>1, <3>1, Sides DEF Connected, Called, Joined, Relaying, TypeOK
    <3>2. CASE ~(Connected \/ Called)
      <4>1. ~Relaying' => ~Relaying
        BY <1>1, <1>4, <3>2, Sides DEF Next, Handler, Peer, NoneCame, Resolved, FtpResolved,
           NotConnected, ReadUnit, ReadFails, WriteUnit, WriteToNobody, WriteFails, Ends,
           CloseBoth, Send, SendTooLate, Receive, Shut, Leave, Relaying
      <4>2. peer["dst"] = "none" => peer'["dst"] = "none"
        BY <1>1, <1>4, <3>2, Sides DEF Next, Handler, Peer, NoneCame, Resolved, FtpResolved,
           NotConnected, ReadUnit, ReadFails, WriteUnit, WriteToNobody, WriteFails, Ends,
           CloseBoth, Send, SendTooLate, Receive, Shut, Leave, TypeOK
      <4> QED
        BY <4>1, <4>2 DEF ToldInv
    <3> QED
      BY <3>1, <3>2
  <2>3. Len(old) \in Nat /\ Len(new) \in Nat
    BY StreamTyped, Sides DEF IInv
  <2>4. \A i \in 1 .. Len(old) :
            /\ old[i] = Rejected => req # NoRequest /\ ~fire_wall(rules, req)
            /\ old[i] = Accepted => req # NoRequest /\ fire_wall(rules, req)
    BY DEF ToldInv
  <2>5. WriteUnit("src") => response["src"] \notin {Accepted, Rejected}
    <3> SUFFICES ASSUME WriteUnit("src") PROVE response["src"] \notin {Accepted, Rejected}
      OBVIOUS
    <3>1. /\ Write("src") \in pending /\ socket["src"] = "open" /\ Relaying
      BY <1>1, Sides DEF WriteUnit, StageInv
    <3>2. socket["dst"] = "open"
      BY <1>1, <3>1, Sides DEF StageInv, Relaying, TypeOK
    <3>3. response["src"] = Unit("dst", Taken("dst"))
      BY <1>1, <3>1, <3>2, Sides DEF FlowInv, Flows
    <3> QED
      BY <3>3 DEF Unit, Accepted, Rejected
  <2>6. Called => req # NoRequest /\ fire_wall(rules, req)
    <3> SUFFICES ASSUME Called PROVE req # NoRequest /\ fire_wall(rules, req)
      OBVIOUS
    <3>1. "accept" \in pending
      BY DEF Called
    <3>2. Admitted /\ req.cd = "bind"
      BY <1>1, <3>1 DEF Admitted, Joining, StageInv
    <3> QED
      BY <1>1, <1>2, <3>2 DEF AdmittedInv
  <2>7. ASSUME NEW u, Extended(new, old, u), NEW i \in 1 .. Len(new)
        PROVE  new[i] = u \/ (i \in 1 .. Len(old) /\ new[i] = old[i])
    BY <2>3, <2>7 DEF Extended
  <2>8. \A i \in 1 .. Len(new) :
            /\ new[i] = Rejected => req # NoRequest /\ ~fire_wall(rules, req)
            /\ new[i] = Accepted => req # NoRequest /\ fire_wall(rules, req)
    <3> HIDE DEF new, old
    <3>1. CASE CutBack(new, old)
      BY <2>3, <2>4, <3>1 DEF CutBack
    <3>2. CASE WriteUnit("src") /\ Extended(new, old, response["src"])
      BY <2>4, <2>5, <2>7, <3>2
    <3>3. CASE Called /\ Extended(new, old, Accepted)
      BY <2>4, <2>6, <2>7, <3>3 DEF Accepted, Rejected
    <3> QED
      BY <2>1, <3>1, <3>2, <3>3
  <2> QED
    BY <2>1, <2>2, <2>8, <2>9 DEF ToldInv, fire_wall, Permits, Asked
<1> QED
  BY <1>3, <1>4

-----------------------------------------------------------------------------
(* What has come, what is carried and what is lost.                        *)

LEMMA ConcatFront ==
    ASSUME NEW S, NEW g \in Seq(S), NEW q \in Seq(S)
    PROVE  /\ Len(g) \in Nat /\ Len(q) \in Nat /\ Len(g \o q) = Len(g) + Len(q)
           /\ \A i \in 1 .. Len(g) : (g \o q)[i] = g[i]
BY ConcatProperties, LenProperties

LEMMA TunnelTyped ==
    ASSUME IInv, NEW s \in Side
    PROVE  /\ T!Other(s) = Other(s) /\ T!Side = Side /\ T!First(s) = Owed(s)
           /\ T!Came(s) = IF Len(got[s]) > Owed(s) THEN Len(got[s]) - Owed(s) ELSE 0
           /\ Owed(s) \in Nat /\ T!Came(s) \in Nat /\ Carried(s) \in Nat /\ T!Came(s) <= Carried(s)
           /\ got[s] \in Seq(Item) /\ Len(got[s]) \in Nat /\ Len(got[s]) <= Len(Stream(s))
           /\ \A i \in 1 .. Len(got[s]) : Stream(s)[i] = got[s][i]
           /\ sent[s] \in Nat /\ Reach[s] = IF Cut(s) THEN Carried(Other(s)) ELSE sent[s]
<1>1. T!Other(s) = Other(s) /\ T!Side = Side /\ T!First(s) = Owed(s)
  BY DEF T!Other, Other, T!Side, Side, T!First, Owed
<1>2. got[s] \in Seq(Item) /\ out[s] \in Seq(Item) /\ sent[s] \in Nat
  BY DEF IInv, TypeOK
<1>3. /\ Len(got[s]) \in Nat /\ Len(out[s]) \in Nat
      /\ Len(Stream(s)) = Len(got[s]) + Len(out[s])
      /\ \A i \in 1 .. Len(got[s]) : Stream(s)[i] = got[s][i]
  BY <1>2, ConcatFront DEF Stream
<1>4. T!Came(s) = IF Len(got[s]) > Owed(s) THEN Len(got[s]) - Owed(s) ELSE 0
  BY <1>1 DEF T!Came
<1>5. Owed(s) \in Nat
  BY DEF Owed
<1>8. Len(got[s]) <= Len(Stream(s)) /\ Len(Stream(s)) \in Nat
  <2>1. \A n, m \in Nat : n <= n + m /\ n + m \in Nat
    OBVIOUS
  <2> QED
    BY <1>3, <2>1
<1>6. T!Came(s) \in Nat /\ Carried(s) \in Nat /\ T!Came(s) <= Carried(s)
  <2> DEFINE n == Owed(s)
             k == Len(got[s])
             m == Len(Stream(s))
  <2>1. n \in Nat /\ k \in Nat /\ m \in Nat /\ k <= m
    BY <1>3, <1>5, <1>8
  <2>2. /\ T!Came(s) = IF k > n THEN k - n ELSE 0
        /\ Carried(s) = IF m > n THEN m - n ELSE 0
    BY <1>4 DEF Carried
  <2> HIDE DEF n, k, m
  <2> QED
    BY <2>1, <2>2
<1>7. Reach[s] = IF Cut(s) THEN Carried(Other(s)) ELSE sent[s]
  BY DEF Reach
<1> QED
  BY <1>1, <1>2, <1>3, <1>4, <1>5, <1>6, <1>7, <1>8

LEMMA ReachTyped ==
    ASSUME IInv
    PROVE  Reach \in [Side -> Nat]
<1>1. \A s \in Side : (IF Cut(s) THEN Carried(Other(s)) ELSE sent[s]) \in Nat
  BY TunnelTyped, Sides
<1> QED
  BY <1>1 DEF Reach

\* No more units are carried than were sent.
LEMMA CarriedSent ==
    ASSUME IInv, NEW s \in Side, ~Cut(s)
    PROVE  Carried(Other(s)) <= sent[s]
<1> DEFINE o == Other(s)
<1>1. o \in Side /\ Other(o) = s /\ sent[s] \in Nat /\ Len(Stream(o)) \in Nat /\ Owed(o) \in Nat
  BY Sides, TunnelTyped, StreamTyped DEF IInv
<1>2. socket[s] \in {"none", "open"} /\ peer[o] # "gone"
  BY DEF Cut, IInv, TypeOK
<1>3. CASE ~Relaying
  <2>1. Len(Stream(o)) <= Owed(o)
    <3>1. CASE o = "dst"
      <4>1. Stream(o) = <<>> /\ Owed(o) = 0
        BY <1>3, <3>1 DEF IInv, EarlyInv, Owed
      <4> QED
        BY <4>1, EmptySeq
    <3>2. CASE o = "src"
      <4>1. Len(Stream(o)) <= 1 /\ Owed(o) \in {1, 2}
        BY <1>3, <3>2 DEF IInv, EarlyInv, Owed
      <4> QED
        BY <1>1, <4>1
    <3> QED
      BY <1>1, <3>1, <3>2 DEF Side
  <2> QED
    BY <1>1, <2>1 DEF Carried
<1>4. CASE Relaying
  <2>1. socket[s] = "open"
    BY <1>2, <1>4, Sides DEF IInv, StageInv, Relaying, Side
  <2>2. Len(Stream(o)) = Owed(o) + Delivered(s) /\ Len(in[s]) <= sent[s]
    BY <1>2, <1>4, <2>1 DEF IInv, FlowInv, Flows
  <2>3. Len(in[s]) \in Nat
    BY LenProperties DEF IInv, TypeOK
  <2>4. Delivered(s) \in Int /\ Delivered(s) <= sent[s]
    BY <1>1, <2>3 DEF Delivered, Taken
  <2> QED
    BY <1>1, <2>2, <2>4 DEF Carried
<1> QED
  BY <1>3, <1>4

\* What was cut stays so.
LEMMA CutStays ==
    ASSUME IInv, ToldInv, Next, NEW s \in Side, Cut(s)
    PROVE  Cut(s)'
<1>1. TypeOK /\ StageInv
  BY DEF IInv
<1>2. CASE Connected \/ Called
  <2>1. ~Relaying /\ socket["src"] = "open" /\ Joined
    BY <1>1, <1>2 DEF Connected, Called, StageInv, Joining
  <2>2. peer["dst"] = "none" /\ socket["dst"] = "none"
    BY <2>1 DEF ToldInv, Relaying
  <2>3. s = "dst" /\ peer["src"] = "gone"
    BY <2>1, <2>2, Sides DEF Cut, Side
  <2> QED
    BY <1>1, <2>1, <2>3, Sides DEF Cut, Joined, TypeOK
<1>3. CASE ~(Connected \/ Called)
  <2>1. /\ \A r \in Side : socket[r] = "closed" => socket'[r] = "closed"
        /\ \A r \in Side : peer[r] = "gone" => peer'[r] = "gone"
    BY <1>1, <1>3 DEF Next, Handler, Peer, Allow, Refuse, NoneCame, Resolved, FtpResolved,
       NotConnected, ReadUnit, ReadFails, WriteUnit, WriteToNobody, WriteFails, Ends,
       CloseBoth, Send, SendTooLate, Receive, Shut, Leave, TypeOK
  <2> QED
    BY <2>1, Sides DEF Cut
<1> QED
  BY <1>2, <1>3

\* What was cut stays so, and then no more is carried.
LEMMA ReachFalls ==
    ASSUME IInv, IInv', ToldInv, Next, NEW s \in Side,
           ~(\E r \in Requests : Allow(r) \/ Refuse(r)),
           sent'[s] = sent[s] \/ Cut(s)
    PROVE  Reach'[s] <= Reach[s] /\ Reach'[s] \in Nat /\ (Cut(s) => Cut(s)')
<1> DEFINE o == Other(s)
<1>1. o \in Side /\ Other(o) = s
  BY Sides
<1>3. /\ UNCHANGED <<rules, req>>
      /\ \/ CutBack(Stream(o)', Stream(o))
         \/ WriteUnit(o) /\ Extended(Stream(o)', Stream(o), response[o])
         \/ Called /\ o = "src" /\ Extended(Stream(o)', Stream(o), Accepted)
  BY <1>1, StreamsMove
<1>4. Len(Stream(o)) \in Nat /\ Len(Stream(o)') \in Nat /\ Owed(o) \in Nat /\ Owed(o)' = Owed(o)
  BY <1>1, <1>3, StreamTyped DEF IInv, Owed
<1>5. Cut(s) => Cut(s)'
  BY CutStays
<1>6. Carried(o) \in Nat /\ Carried(o)' \in Nat /\ sent[s] \in Nat /\ sent'[s] \in Nat
  BY <1>4 DEF Carried, IInv, TypeOK
<1>2. /\ Reach[s] = IF Cut(s) THEN Carried(o) ELSE sent[s]
      /\ Reach'[s] = IF Cut(s)' THEN Carried(o)' ELSE sent'[s]
      /\ Reach[s] \in Nat /\ Reach'[s] \in Nat
  BY <1>6 DEF Reach
<1>7. CASE CutBack(Stream(o)', Stream(o))
  <2>1. Carried(o)' <= Carried(o)
    BY <1>4, <1>7 DEF Carried, CutBack
  <2>2. ~Cut(s) => Carried(o) <= sent[s] /\ sent'[s] = sent[s]
    BY CarriedSent
  <2>3. \A a, b, c \in Nat : a <= b /\ b <= c => a <= c
    OBVIOUS
  <2>4. \A a \in Nat : a <= a
    OBVIOUS
  <2> HIDE DEF o
  <2> QED
    BY <1>2, <1>5, <1>6, <2>1, <2>2, <2>3, <2>4
<1>8. CASE WriteUnit(o) /\ Extended(Stream(o)', Stream(o), response[o])
  <2>1. /\ Write(o) \in pending /\ socket[o] = "open" /\ peer[o] # "gone"
        /\ UNCHANGED <<socket, peer, sent>>
    BY <1>8 DEF WriteUnit
  <2>2. Relaying /\ StageInv
    BY <1>1, <2>1 DEF IInv, StageInv
  <2>3. ~Cut(s)
    BY <1>1, <2>1, <2>2, BothOpen DEF Cut
  <2>4. ~Cut(s)'
    BY <2>1, <2>3 DEF Cut
  <2> QED
    BY <1>2, <1>6, <2>1, <2>3, <2>4
<1>9. CASE Called /\ o = "src" /\ Extended(Stream(o)', Stream(o), Accepted)
  <2>1. "accept" \in pending /\ sent' = sent
    BY <1>9 DEF Called
  <2>2. ~Relaying /\ req.cd = "bind" /\ Len(Stream(o)) <= 1
    BY <1>9, <2>1 DEF IInv, StageInv, EarlyInv, Joining
  <2>3. Len(Stream(o)') <= 2 /\ Owed(o) = 2
    BY <1>4, <1>9, <2>2 DEF Extended, Owed
  <2>4. Carried(o)' = 0
    BY <1>4, <2>3 DEF Carried
  <2>5. \A a \in Nat : 0 <= a /\ a <= a
    OBVIOUS
  <2> HIDE DEF o
  <2> QED
    BY <1>2, <1>5, <1>6, <2>1, <2>4, <2>5
<1> QED
  BY <1>3, <1>7, <1>8, <1>9

\* What is carried to a side, and so what came to it, has not been lost.
ReachInv ==
    /\ Reach \in [Side -> Nat]
    /\ \A s \in Side : T!Came(s) <= Reach[Other(s)] /\ Carried(s) <= Reach[Other(s)]

LEMMA CarriedReach == IInv => ReachInv
<1> SUFFICES ASSUME IInv PROVE ReachInv
  OBVIOUS
<1>1. ASSUME NEW s \in Side PROVE T!Came(s) <= Reach[Other(s)] /\ Carried(s) <= Reach[Other(s)]
  <2> DEFINE o == Other(s)
  <2>1. o \in Side /\ Other(o) = s
    BY Sides
  <2>2. T!Came(s) \in Nat /\ Carried(s) \in Nat /\ T!Came(s) <= Carried(s)
    BY TunnelTyped
  <2>3. sent[o] \in Nat /\ Reach[o] = IF Cut(o) THEN Carried(s) ELSE sent[o]
    BY <2>1, TunnelTyped
  <2>4. ~Cut(o) => Carried(s) <= sent[o]
    BY <2>1, CarriedSent
  <2> QED
    BY <2>2, <2>3, <2>4
<1> QED
  BY <1>1, ReachTyped DEF ReachInv

LEMMA CarriedReachNext == (IInv => ReachInv)'
BY CarriedReach, PTL

\* Nothing is carried before the destination is joined.
LEMMA EarlyCarried ==
    IInv /\ ~Relaying => \A s \in Side : Carried(s) = 0
<1> SUFFICES ASSUME IInv, ~Relaying, NEW s \in Side PROVE Carried(s) = 0
  OBVIOUS
<1>1. EarlyInv /\ Len(Stream(s)) \in Nat
  BY StreamTyped DEF IInv
<1>2. CASE s = "dst"
  <2>1. Stream(s) = <<>> /\ Owed(s) = 0
    BY <1>1, <1>2 DEF EarlyInv, Owed
  <2>2. Len(Stream(s)) = 0
    BY <2>1, EmptySeq
  <2> QED
    BY <2>1, <2>2 DEF Carried
<1>3. CASE s = "src"
  <2>1. Len(Stream(s)) <= 1 /\ Owed(s) \in {1, 2}
    BY <1>1, <1>3 DEF EarlyInv, Owed
  <2> QED
    BY <1>1, <2>1 DEF Carried
<1> QED
  BY <1>2, <1>3 DEF Side

LEMMA EarlyCarriedNext ==
    (IInv /\ ~Relaying => \A s \in Side : Carried(s) = 0)'
BY EarlyCarried, PTL

\* The answer to the request is the tunnel's decision.
LEMMA RequestDecides ==
    ASSUME IInv, IInv', ToldInv, NEW r \in Requests, Allow(r) \/ Refuse(r)
    PROVE  T!Decide
<1>1. /\ "request" \in pending /\ req' = r /\ UNCHANGED <<got, sent>>
      /\ fire_wall(rules', r) \/ ~fire_wall(rules', r)
  BY DEF Allow, Refuse
<1>2. r # NoRequest /\ req = NoRequest
  BY <1>1, SocksAssumption DEF Request, Command, NoRequest, ToldInv
<1>3. ~Relaying /\ (Relaying' <=> Relaying)
  BY <1>1, Sides DEF IInv, StageInv, Relaying, Allow, Refuse, TypeOK
<1>4. Phase = "asked" /\ Phase' \in {"allowed", "refused"}
  BY <1>1, <1>2, <1>3 DEF Phase, Relaying
<1>5. Owed("src")' \in {1, 2}
  BY DEF Owed
<1>6. \A s \in Side : sent[s] = 0 /\ sent'[s] = 0 /\ Carried(s) = 0 /\ Carried(s)' = 0
  <2>1. sent["src"] = 0 /\ sent["dst"] = 0
    BY <1>1, <1>3 DEF IInv, EarlyInv
  <2> QED
    BY <1>1, <1>3, <2>1, EarlyCarried, EarlyCarriedNext DEF Side
<1>7. Reach' = Reach
  <2>1. Reach = [s \in Side |-> 0]
    BY <1>6, Sides DEF Reach
  <2>2. Reach' = [s \in Side |-> 0]
    BY <1>6, Sides DEF Reach
  <2> QED
    BY <2>1, <2>2
<1> QED
  BY <1>1, <1>4, <1>5, <1>7 DEF T!Decide, Owed

\* The destination is joined.
LEMMA ConnectionJoins ==
    ASSUME IInv, IInv', ToldInv, Connected \/ Called
    PROVE  T!Join
<1>1. TypeOK /\ StageInv /\ AdmittedInv /\ Next
  BY DEF IInv, Next, Handler
<1>2. /\ ~Relaying /\ socket["src"] = "open" /\ Joined /\ UNCHANGED <<rules, req, got, sent>>
      /\ Admitted /\ req.cd \in {"connect", "bind"}
  BY <1>1 DEF Connected, Called, StageInv, Joining, Admitted
<1>3. fire_wall(rules, req) /\ req # NoRequest
  BY <1>1, <1>2 DEF AdmittedInv, NoRequest
<1>4. socket' = [socket EXCEPT !["dst"] = "open"] /\ peer' = [peer EXCEPT !["dst"] = "open"]
  BY <1>2 DEF Joined
<1>5. Relaying' /\ socket'["dst"] = "open"
  BY <1>1, <1>4, Sides DEF Relaying, TypeOK
<1>6. Phase = "allowed" /\ Phase' = "joined"
  BY <1>2, <1>3, <1>5 DEF Phase, Relaying
<1>7. Owed("src")' = Owed("src")
  BY <1>2 DEF Owed
<1>8. ~(\E r \in Requests : Allow(r) \/ Refuse(r))
  <2>1. "request" \notin pending
    BY <1>1 DEF Connected, Called, StageInv, Joining
  <2> QED
    BY <2>1 DEF Allow, Refuse
<1>9. ASSUME NEW s \in Side PROVE Reach'[s] = Reach[s]
  <2>1. Reach'[s] <= Reach[s] /\ Reach'[s] \in Nat /\ (Cut(s) => Cut(s)')
    BY <1>1, <1>2, <1>8, ReachFalls
  <2>2. CASE Cut(s)
    <3>1. Carried(Other(s)) = 0
      BY <1>2, EarlyCarried, Sides
    <3>2. Reach[s] = 0
      BY <2>2, <3>1 DEF Reach
    <3> QED
      BY <2>1, <3>2
  <2>3. CASE ~Cut(s)
    <3>1. ~Cut(s)'
      BY <1>1, <1>2, <1>4, <1>5, <2>3, Sides DEF Cut, TypeOK
    <3> QED
      BY <1>2, <2>3, <3>1 DEF Reach
  <2> QED
    BY <2>2, <2>3
<1>10. Reach' = Reach
  BY <1>9 DEF Reach
<1> QED
  BY <1>2, <1>6, <1>7, <1>10 DEF T!Join

\* Where nothing is sent or read, units may be lost, and not those that have come.
LEMMA QuietLoses ==
    ASSUME IInv, IInv', ToldInv, Next, ~(\E r \in Requests : Allow(r) \/ Refuse(r)),
           got' = got, \A s \in Side : sent'[s] = sent[s] \/ Cut(s)
    PROVE  T!Lost
<1>1. UNCHANGED <<rules, req>>
  BY StreamsMove, Sides
<1>2. Reach' \in [Side -> Nat] /\ \A s \in Side : (T!Came(s))' <= Reach'[Other(s)]
  BY CarriedReachNext DEF ReachInv
<1>3. \A s \in Side : (T!Came(s))' = T!Came(s) /\ T!Came(s) \in Nat
  <2>1. \A s \in Side : T!Came(s) \in Nat
    BY TunnelTyped
  <2>2. Owed("src")' = Owed("src")
    BY <1>1 DEF Owed
  <2>3. ASSUME NEW s \in Side PROVE (T!Came(s))' = T!Came(s)
    BY <2>2 DEF T!Came, T!First
  <2> QED
    BY <2>1, <2>3
<1>4. ASSUME NEW s \in Side
      PROVE  Reach'[s] \in T!Came(T!Other(s)) .. Reach[s]
  <2>1. Reach'[s] <= Reach[s] /\ Reach'[s] \in Nat
    BY ReachFalls
  <2>2. T!Other(s) = Other(s) /\ Other(s) \in Side /\ Other(Other(s)) = s
    BY TunnelTyped, Sides
  <2>3. T!Came(Other(s)) \in Nat /\ T!Came(Other(s)) <= Reach'[s]
    BY <1>2, <1>3, <2>2
  <2>4. Reach[s] \in Nat
    BY ReachTyped
  <2> QED
    BY <2>1, <2>2, <2>3, <2>4
<1> QED
  BY <1>2, <1>4 DEF T!Lost, T!Side, Side

\* What a handler does then, and a peer that sends no more or leaves.
LEMMA HandlerLoses ==
    ASSUME IInv, IInv', ToldInv, Next, ~(\E r \in Requests : Allow(r) \/ Refuse(r)),
           ~(Connected \/ Called), UNCHANGED <<got, sent>>
    PROVE  T!Lose
<1>1. T!Lost
  BY QuietLoses
<1>2. UNCHANGED <<rules, req>>
  BY StreamsMove, Sides
<1>3. Relaying' <=> Relaying
  <2>1. CASE CloseBoth
    BY <2>1, Sides DEF CloseBoth, Relaying
  <2>2. CASE ~CloseBoth
    <3>1. socket' = socket
      BY <2>2 DEF Next, Handler, Peer, NoneCame, Resolved, FtpResolved, NotConnected, ReadUnit,
         ReadFails, WriteUnit, WriteToNobody, WriteFails, Ends, Send, SendTooLate, Receive,
         Shut, Leave
    <3> QED
      BY <3>1 DEF Relaying
  <2> QED
    BY <2>1, <2>2
<1>4. Phase' = Phase
  BY <1>2, <1>3 DEF Phase, Relaying, fire_wall, Permits, Asked
<1>5. Owed("src")' = Owed("src")
  BY <1>2 DEF Owed
<1> QED
  BY <1>1, <1>4, <1>5 DEF T!Lose

\* A client sends when it has heard what it is owed, and the destination when it is
\* there.
LEMMA SendGuarded ==
    ASSUME IInv, ToldInv, NEW s \in Side, peer[s] = "open", MaySend(s)
    PROVE  IF s = "src" THEN Phase \in {"allowed", "joined"} /\ Len(got["src"]) >= Owed("src")
           ELSE Phase = "joined"
<1>1. CASE s = "dst"
  <2>1. Relaying
    BY <1>1 DEF ToldInv
  <2> QED
    BY <1>1, <2>1 DEF ToldInv, Phase, Relaying
<1>2. CASE s = "src"
  <2>1. PICK i \in DOMAIN got["src"] : got["src"][i] = Accepted
    BY <1>2 DEF MaySend, Replies
  <2>2. got["src"] \in Seq(Item) /\ Len(got["src"]) \in Nat /\ DOMAIN got["src"] = 1 .. Len(got["src"])
    BY Sides, TunnelTyped, LenProperties
  <2>3. i \in 1 .. Len(Stream("src")) /\ Stream("src")[i] = Accepted
    <3>1. /\ Len(got["src"]) <= Len(Stream("src")) /\ Len(Stream("src")) \in Nat
          /\ \A k \in 1 .. Len(got["src"]) : Stream("src")[k] = got["src"][k]
      BY Sides, TunnelTyped, StreamTyped DEF IInv
    <3> QED
      BY <2>1, <2>2, <3>1
  <2>4. req # NoRequest /\ fire_wall(rules, req)
    BY <2>3 DEF ToldInv
  <2>5. Phase \in {"allowed", "joined"}
    BY <2>4 DEF Phase
  <2>6. Len(got["src"]) >= Owed("src")
    <3>1. CASE req.cd = "bind"
      <4>1. PICK a, b \in DOMAIN got["src"] : a # b
        BY <1>2, <3>1 DEF MaySend, Replies
      <4> QED
        BY <2>2, <3>1, <4>1 DEF Owed
    <3>2. CASE req.cd # "bind"
      BY <2>1, <2>2, <3>2 DEF Owed
    <3> QED
      BY <3>1, <3>2
  <2> QED
    BY <1>2, <2>5, <2>6
<1> QED
  BY <1>1, <1>2 DEF Side

LEMMA SendMaps ==
    ASSUME IInv, IInv', ToldInv, NEW s \in Side, Send(s) \/ SendTooLate(s)
    PROVE  T!Send(s)
<1>1. TypeOK /\ Next
  BY DEF IInv, Next, Peer
<1>2. /\ UNCHANGED <<rules, req, pending, socket, peer, got>>
      /\ sent' = [sent EXCEPT ![s] = @ + 1]
      /\ peer[s] = "open" /\ MaySend(s)
  BY DEF Send, SendTooLate
<1>3. IF s = "src" THEN Phase \in {"allowed", "joined"} /\ Len(got["src"]) >= Owed("src")
      ELSE Phase = "joined"
  BY <1>2, SendGuarded
<1>4. Phase' = Phase /\ Owed("src")' = Owed("src")
  BY <1>2 DEF Phase, Owed, fire_wall, Permits, Asked
<1>5. \A r \in Side : Cut(r)' <=> Cut(r)
  BY <1>2 DEF Cut
<1>6. ~(\E r \in Requests : Allow(r) \/ Refuse(r))
  BY <1>1, <1>2, Sides DEF TypeOK, Allow, Refuse
<1>7. CASE Cut(s)
  <2>1. \A r \in Side : sent'[r] = sent[r] \/ Cut(r)
    BY <1>1, <1>2, <1>7 DEF TypeOK
  <2>2. T!Lost
    BY <1>1, <1>2, <1>6, <2>1, QuietLoses
  <2> QED
    BY <1>2, <1>3, <1>4, <2>2 DEF T!Send
<1>8. CASE ~Cut(s)
  <2>1. Send(s)
    BY <1>8 DEF SendTooLate, Cut
  <2>2. out' = out /\ \A r \in Side : Carried(r)' = Carried(r)
    BY <1>2, <2>1 DEF Send, Carried, Stream, Owed
  <2>3. Reach[s] = sent[s] /\ Reach' = [Reach EXCEPT ![s] = @ + 1]
    <3>1. Reach[s] = sent[s] /\ Reach'[s] = sent[s] + 1
      BY <1>1, <1>2, <1>5, <1>8 DEF Reach, TypeOK
    <3>2. \A r \in Side : r # s => Reach'[r] = Reach[r]
      BY <1>1, <1>2, <1>5, <2>2, Sides DEF Reach, TypeOK
    <3> QED
      BY <3>1, <3>2 DEF Reach
  <2> QED
    BY <1>2, <1>3, <1>4, <2>3 DEF T!Send
<1> QED
  BY <1>7, <1>8

\* What a peer reads next is the reply or the unit that the tunnel has next for it.
LEMMA ReceiveMaps ==
    ASSUME IInv, IInv', ToldInv, NEW s \in Side, Receive(s)
    PROVE  T!Hear \/ T!Receive(s)
<1> DEFINE n == Len(got[s])
           i == n + 1
           u == Head(out[s])
           o == Other(s)
<1>1. TypeOK /\ EarlyInv /\ AdmittedInv /\ RelayedInOrder
  BY DEF IInv
<1>2. /\ UNCHANGED <<rules, req, socket, peer, sent>> /\ out[s] # <<>>
      /\ got' = [got EXCEPT ![s] = Append(@, u)]
  BY DEF Receive
<1>3. \A r \in Side : Stream(r)' = Stream(r)
  BY <1>1, ReceiveKeeps
<1>4. Phase' = Phase /\ \A r \in Side : Owed(r)' = Owed(r)
  BY <1>2 DEF Phase, Owed, fire_wall, Permits, Asked
<1>5. Reach' = Reach
  <2>1. \A r \in Side : Carried(r)' = Carried(r) /\ (Cut(r)' <=> Cut(r))
    BY <1>2, <1>3, <1>4 DEF Carried, Cut
  <2> QED
    BY <1>2, <2>1, Sides DEF Reach
<1>6. /\ n \in Nat /\ Owed(s) \in Nat /\ Len(Stream(s)) \in Nat /\ i \in 1 .. Len(Stream(s))
      /\ Stream(s)[i] = u
  <2>1. got[s] \in Seq(Item) /\ out[s] \in Seq(Item)
    BY <1>1 DEF TypeOK
  <2>2. u = out[s][1] /\ Len(out[s]) \in Nat \ {0} /\ n \in Nat
    BY <1>2, <2>1, EmptySeq
  <2>3. Len(Stream(s)) = n + Len(out[s])
    BY <2>1, ConcatProperties DEF Stream
  <2>4. i \in n + 1 .. n + Len(out[s]) /\ i - n = 1 /\ i \in 1 .. n + Len(out[s])
    <3>1. \A a \in Nat, b \in Nat \ {0} :
              a + 1 \in a + 1 .. a + b /\ (a + 1) - a = 1 /\ a + 1 \in 1 .. a + b /\ a + b \in Nat
      OBVIOUS
    <3> HIDE DEF n, u
    <3> QED
      BY <2>2, <3>1
  <2>5. Stream(s)[i] = out[s][i - n]
    BY <2>1, <2>4, ConcatProperties DEF Stream
  <2>6. Owed(s) \in Nat
    BY DEF Owed
  <2>7. Len(Stream(s)) \in Nat
    BY <1>1, StreamTyped
  <2>8. i \in 1 .. Len(Stream(s)) /\ Stream(s)[i] = u
    <3>1. out[s][i - n] = u
      BY <2>2, <2>4
    <3> HIDE DEF n, u
    <3> QED
      BY <2>3, <2>4, <2>5, <3>1
  <2> HIDE DEF n, u
  <2> QED
    BY <2>2, <2>6, <2>7, <2>8
<1>7. IF i <= Owed(s) THEN u \in {Accepted, Rejected} ELSE u = Unit(o, i - Owed(s))
  BY <1>1, <1>6 DEF RelayedInOrder
<1>8. ~Relaying => s = "src" /\ Len(Stream(s)) <= 1 /\ i = 1
  <2>1. ~Relaying => s = "src"
    <3>1. Stream("dst") = <<>> => Len(Stream("dst")) = 0
      BY EmptySeq
    <3> QED
      BY <1>1, <1>6, <3>1 DEF EarlyInv, Side
  <2> QED
    BY <1>1, <1>6, <2>1 DEF EarlyInv
<1>9. req = NoRequest => ~Relaying /\ Stream("src") = <<>>
  BY AskedEmpty
<1>10. req # NoRequest
  <2>1. <<>> = Stream("src") => Len(Stream("src")) = 0
    BY EmptySeq
  <2> QED
    BY <1>6, <1>8, <1>9, <2>1
<1>11. Phase = IF Relaying THEN "joined" ELSE IF fire_wall(rules, req) THEN "allowed" ELSE "refused"
  BY <1>10 DEF Phase, Relaying
<1> HIDE DEF u
<1>12. CASE i <= Owed(s)
  <2>1. s = "src"
    BY <1>6, <1>12 DEF Owed, Side
  <2>2. u = Rejected => ~fire_wall(rules, req)
    BY <1>6, <2>1 DEF ToldInv
  <2>3. u = Accepted => fire_wall(rules, req)
    BY <1>6, <2>1 DEF ToldInv
  <2>4. Relaying => fire_wall(rules, req)
    BY <1>1 DEF AdmittedInv, Admitted
  <2>5. CASE u = Rejected
    <3>1. Phase = "refused" /\ ~Relaying
      BY <1>11, <2>2, <2>4, <2>5
    <3>2. got["src"] = <<>>
      <4>1. n = 0
        BY <1>6, <1>8, <3>1
      <4>2. got["src"] \in Seq(Item)
        BY <1>1, Sides DEF TypeOK
      <4> QED
        BY <2>1, <4>1, <4>2, EmptySeq
    <3>3. got' = [got EXCEPT !["src"] = Append(@, T!Rejected)]
      BY <1>2, <2>1, <2>5 DEF T!Rejected, Rejected
    <3>4. T!Hear
      BY <1>2, <1>4, <1>5, <2>1, <3>1, <3>2, <3>3 DEF T!Hear
    <3> QED
      BY <3>4
  <2>6. CASE u = Accepted
    <3>1. Phase \in {"allowed", "joined"}
      BY <1>11, <2>3, <2>6
    <3>2. Len(got["src"]) < IF Phase = "joined" THEN Owed("src") ELSE 1
      BY <1>6, <1>8, <1>11, <1>12, <2>1
    <3>3. got' = [got EXCEPT !["src"] = Append(@, T!Accepted)]
      BY <1>2, <2>1, <2>6 DEF T!Accepted, Accepted
    <3>4. T!Hear
      BY <1>2, <1>4, <1>5, <2>1, <3>1, <3>2, <3>3 DEF T!Hear
    <3> QED
      BY <3>4
  <2> QED
    BY <1>7, <1>12, <2>5, <2>6
<1>13. CASE ~(i <= Owed(s))
  <2>1. Relaying
    <3>1. Owed("src") \in {1, 2}
      BY DEF Owed
    <3> QED
      BY <1>6, <1>8, <1>13, <3>1
  <2>2. Phase = "joined"
    BY <1>11, <2>1
  <2>3. /\ T!Other(s) = o /\ T!First(s) = Owed(s)
        /\ T!Came(s) = IF n > Owed(s) THEN n - Owed(s) ELSE 0
    BY TunnelTyped
  <2>4. T!Came(s) + 1 = i - Owed(s) /\ n >= T!First(s)
    BY <1>6, <1>13, <2>3
  <2>5. T!Came(s) < Reach[o]
    <3>1. Carried(s) <= Reach[o] /\ Reach[o] \in Nat
      BY CarriedReach, Sides DEF ReachInv
    <3>2. Carried(s) = Len(Stream(s)) - Owed(s)
      BY <1>6, <1>13 DEF Carried
    <3>3. \A a, b, c, d, e \in Int :
              e + 1 = a - b /\ a <= c /\ c - b <= d => e < d
      OBVIOUS
    <3>4. i \in Int /\ Owed(s) \in Int /\ Len(Stream(s)) \in Int /\ i <= Len(Stream(s))
      BY <1>6
    <3>5. T!Came(s) \in Int
      BY TunnelTyped
    <3> HIDE DEF o, i
    <3> QED
      BY <2>4, <3>1, <3>2, <3>3, <3>4, <3>5
  <2>6. got' = [got EXCEPT ![s] = Append(@, <<T!Other(s), T!Came(s) + 1>>)]
    BY <1>2, <1>7, <1>13, <2>3, <2>4 DEF Unit
  <2>7. T!Receive(s)
    BY <1>2, <1>4, <1>5, <2>2, <2>3, <2>4, <2>5, <2>6, Sides DEF T!Receive
  <2> QED
    BY <2>7
<1> QED
  BY <1>12, <1>13

\* What the client is told, and what the destination sends, at every step: the
\* invariant that the refinement rests on.
LEMMA ToldInvariance == Spec => []ToldInv
<1>1. Init => ToldInv
  <2> SUFFICES ASSUME Init PROVE ToldInv
    OBVIOUS
  <2>1. req = NoRequest /\ ~Relaying /\ peer["dst"] = "none"
    BY Sides DEF Init, Relaying
  <2>2. Stream("src") = <<>> \o <<>>
    BY Sides DEF Init, Stream
  <2>3. Len(<<>> \o <<>>) = 0
    <3>1. <<>> \in Seq(Item) /\ Len(<<>>) = 0
      BY EmptySeq
    <3> QED
      BY <3>1, ConcatProperties
  <2> QED
    BY <2>1, <2>2, <2>3 DEF ToldInv
<1>2. IInv /\ IInv' /\ ToldInv /\ [Next]_vars => ToldInv'
  <2> SUFFICES ASSUME IInv, IInv', ToldInv, UNCHANGED vars PROVE ToldInv'
    BY NextKeepsTold
  <2> QED
    BY DEF vars, ToldInv, Relaying, Stream, fire_wall, Permits, Asked
<1> QED
  BY <1>1, <1>2, Invariance, PTL DEF Spec, Safety

LEMMA TunnelStarts == Init => T!Init
<1> SUFFICES ASSUME Init PROVE T!Init
  OBVIOUS
<1>1. Phase = "asked" /\ Owed("src") = 1
  BY DEF Init, Phase, Owed, NoRequest
<1>2. \A s \in Side : ~Cut(s) /\ sent[s] = 0
  BY Sides DEF Init, Cut, Side
<1>3. Reach = [s \in Side |-> 0]
  BY <1>2 DEF Reach
<1> QED
  BY <1>1, <1>3 DEF Init, T!Init, T!Side, Side

\* Every step is one of the tunnel, or changes nothing of it.
LEMMA StepMaps ==
    ASSUME IInv, IInv', ToldInv, Next
    PROVE  T!Next
<1>1. CASE \E r \in Requests : Allow(r) \/ Refuse(r)
  BY <1>1, RequestDecides DEF T!Next
<1>2. CASE Connected \/ Called
  BY <1>2, ConnectionJoins DEF T!Next
<1>3. ASSUME NEW s \in Side, Send(s) \/ SendTooLate(s) PROVE T!Next
  <2>1. T!Send(s)
    BY <1>3, SendMaps
  <2> QED
    BY <2>1, TunnelTyped DEF T!Next
<1>4. ASSUME NEW s \in Side, Receive(s) PROVE T!Next
  <2>1. T!Hear \/ T!Receive(s)
    BY <1>4, ReceiveMaps
  <2> QED
    BY <2>1, TunnelTyped DEF T!Next
<1>5. CASE /\ ~(\E r \in Requests : Allow(r) \/ Refuse(r)) /\ ~(Connected \/ Called)
           /\ \A s \in Side : ~Send(s) /\ ~SendTooLate(s) /\ ~Receive(s)
  <2>1. UNCHANGED <<got, sent>>
    BY <1>5 DEF Next, Handler, Peer, NoneCame, Resolved, FtpResolved, NotConnected,
       ReadUnit, ReadFails, WriteUnit, WriteToNobody, WriteFails, Ends, Shut, Leave
  <2>2. T!Lose
    BY <1>5, <2>1, HandlerLoses
  <2> QED
    BY <2>2 DEF T!Next
<1> QED
  BY <1>1, <1>2, <1>3, <1>4, <1>5

\* Whatever the request, the rules, the queues and the amount of data, and however a
\* session is closed, it is a tunnel: replies first, then the other side's units in
\* order, and nothing behind one that was lost.
THEOREM TunnelRefined == Spec => TunnelImplemented
<1>1. Init => T!Init
  BY TunnelStarts
<1>2. IInv /\ IInv' /\ ToldInv /\ [Next]_vars => [T!Next]_T!vars
  <2> SUFFICES ASSUME IInv, IInv', ToldInv, UNCHANGED vars PROVE UNCHANGED T!vars
    BY StepMaps
  <2>1. UNCHANGED <<rules, req, socket, peer, out, sent, got>>
    BY DEF vars
  <2>2. Phase' = Phase
    BY <2>1 DEF Phase, fire_wall, Permits, Asked
  <2>3. Owed("src")' = Owed("src")
    BY <2>1 DEF Owed
  <2>4. Reach' = Reach
    BY <2>1 DEF Reach, Cut, Carried, Stream, Owed
  <2> QED
    BY <2>1, <2>2, <2>3, <2>4 DEF T!vars
<1> QED
  BY <1>1, <1>2, Invariance, ToldInvariance, PTL DEF Spec, Safety, TunnelImplemented, T!Spec
=============================================================================
