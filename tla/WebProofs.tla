------------------------------- MODULE WebProofs -------------------------------
(***************************************************************************)
(* What holds of http_server and of the console it starts.                 *)
(*                                                                         *)
(* The server, for any number of clients, requests and processes: a program*)
(* has its own query, pages do not mix, and clients that leave do not end  *)
(* the server.  The processes that are in run() are the first one and the  *)
(* strays.  Each child was forked by one of them and still writes where    *)
(* that one does, until it has made its connection its output; a stray     *)
(* writes to the client of its own request for good.  A connection is      *)
(* answered twice only if a copy of its session is in a second server, and *)
(* that one was started for another client: the session of its own client  *)
(* had been closed before.  So it is with a connection that its client only*)
(* closed: it is reset when a process writes to it, and a server that then *)
(* still has its session has a second copy.                                *)
(*                                                                         *)
(* The console, for any size of _data, any file and any cut of what the    *)
(* shell writes into reads: no line is sent before its prompt, and the page*)
(* has all that came, once and in order.                                   *)
(***************************************************************************)
EXTENDS HttpServer, Console, FiniteSetTheorems, SequenceTheorems, WellFoundedInduction, TLAPS

-----------------------------------------------------------------------------
(* http_server.                                                            *)

\* A process that may be in run(): the first one writes to the terminal and sets no
\* variable, a stray writes to its own client.
Server(p) == p = Main \/ proc[p].stray
ServerOk(p) ==
    /\ p = Main => /\ proc[p].st \in {"loop", "dead"} /\ ~proc[p].stray /\ proc[p].cur = 0
                   /\ proc[p].out = Terminal /\ proc[p].env = NoQuery
    /\ proc[p].st = "none" => proc[p].cur = 0
    /\ proc[p].st = "loop" => Server(p)
    /\ proc[p].stray => /\ proc[p].st \in {"loop", "dead"}
                        /\ proc[p].cur \in Clients /\ proc[p].out = proc[p].cur
ServersInv == \A p \in Proc : ServerOk(p)

\* A child has its connection, the output of the server that forked it until it has
\* its own, and, from the first server, no query but that of its request.
Own(c) == IF request[c].query THEN c ELSE NoQuery
ChildOk(k) ==
    /\ proc[k].st \in {"child", "exec", "cgi"} =>
          proc[k].cur \in Clients /\ proc[k].boss \in Proc /\ Server(proc[k].boss)
    /\ proc[k].st \in {"child", "exec"} => proc[k].sess[proc[k].cur] \in Due
    /\ proc[k].st = "child" => /\ proc[k].out = proc[proc[k].boss].out
                               /\ proc[k].boss = Main => proc[k].env = NoQuery
    /\ proc[k].st \in {"exec", "cgi"} => proc[k].out = proc[k].cur
    /\ proc[k].st = "exec" /\ proc[k].boss = Main =>
          proc[k].env = IF proc[k].sess[proc[k].cur] = "match" THEN Own(proc[k].cur)
                        ELSE NoQuery
    /\ proc[k].st = "cgi" /\ proc[k].boss = Main => proc[k].env = Own(proc[k].cur)
ChildrenInv == \A k \in Proc : ChildOk(k)

\* Nobody has anything of a client that is yet to come.
AwayInv ==
    \A c \in Clients : client[c] = "away" =>
        c \notin queued /\ \A p \in Proc : proc[p].cur # c /\ proc[p].sess[c] = "none"

\* The head of a page is written by the process that has its connection.
HeadsInv ==
    \A c \in Clients : \A i \in page[c] :
        i.what = "head" => i.req = c /\ proc[i.by].cur = c

\* When every stray is one of client c, one process has been started for c, and then
\* no server has c's session any more.
OwnStrays(c) == \A p \in Proc : proc[p].stray => proc[p].out = c
OnceInv ==
    \A c \in Clients : \A k \in Proc : OwnStrays(c) /\ proc[k].cur = c =>
        /\ \A j \in Proc : proc[j].cur = c => j = k
        /\ c \notin queued
        /\ \A p \in Proc : proc[p].st = "loop" => proc[p].sess[c] = "none"

\* Only the processes that were started for a client write to it.
ToldInv ==
    \A c \in Clients :
        client[c] \in {"told", "broken"} => \E k \in Proc : proc[k].cur = c

IInv == TypeOK /\ ServersInv /\ ChildrenInv /\ AwayInv /\ HeadsInv /\ OnceInv
        /\ ToldInv /\ OwnAnswer /\ ServersStay

-----------------------------------------------------------------------------
(* Facts that the actions share.                                           *)

\* The numbers of the processes, and what is not a client.
LEMMA Numbers ==
    /\ Main \in Proc /\ Proc \subseteq Nat /\ Terminal \notin Clients /\ NoQuery \notin Clients
    /\ 0 \notin Clients
BY HttpAssumption DEF Main, Proc, Terminal, NoQuery

\* The parts of a process.
LEMMA ProcTypes ==
    ASSUME TypeOK, NEW p \in Proc
    PROVE  /\ proc[p] \in ProcRecord /\ proc[p].sess \in [Clients -> Session]
           /\ proc[p].out \in Clients \cup {Terminal} /\ proc[p].env \in Clients \cup {NoQuery}
           /\ proc[p].cur \in Clients \cup {0} /\ proc[p].boss \in Proc
           /\ proc[p].stray \in BOOLEAN
BY DEF TypeOK, ProcRecord

\* Whoever is written to, the pages only grow, by the lines for them, and only a
\* connection that its client closed gets on, if it was written to.
LEMMA Shown ==
    ASSUME TypeOK, NEW lines \in SUBSET ((Clients \cup {Terminal}) \X Item), NEW cut,
           cut = Terminal \/ MayBeKilled(cut), Writes(lines, cut)
    PROVE  /\ page' \in [Clients -> SUBSET Item]
           /\ \A c \in Clients : \A i \in page'[c] : i \in page[c] \/ <<c, i>> \in lines
           /\ client' \in [Clients -> Phase]
           /\ \A c \in Clients :
                 \/ client'[c] = client[c]
                 \/ /\ client[c] \in {"left", "told"} /\ client'[c] \in {"told", "broken"}
                    /\ c = cut \/ \E i \in Item : <<c, i>> \in lines
<1>1. \A d \in Clients :
         page'[d] = IF client[d] # "open" THEN page[d]
                    ELSE page[d] \cup {l[2] : l \in {m \in lines : m[1] = d}}
  BY DEF Writes
<1>2. \A d \in Clients : {l[2] : l \in {m \in lines : m[1] = d}} \subseteq Item
  OBVIOUS
<1>3. \A d \in Clients : page'[d] \in SUBSET Item
  BY <1>1, <1>2 DEF TypeOK
<1>4. page' \in [Clients -> SUBSET Item]
  BY <1>3 DEF Writes
<1>5. ASSUME NEW c \in Clients, NEW i \in page'[c], i \notin page[c] PROVE <<c, i>> \in lines
  <2>0. i \in {l[2] : l \in {m \in lines : m[1] = c}}
    BY <1>1, <1>5
  <2>1. PICK l \in lines : l[1] = c /\ i = l[2]
    BY <2>0
  <2>2. l = <<l[1], l[2]>>
    OBVIOUS
  <2> QED
    BY <2>1, <2>2
<1>6. ASSUME NEW c \in Clients
      PROVE  /\ client'[c] \in Phase
             /\ \/ client'[c] = client[c]
                \/ /\ client[c] \in {"left", "told"} /\ client'[c] \in {"told", "broken"}
                   /\ c = cut \/ \E i \in Item : <<c, i>> \in lines
  <2>1. client'[c] = IF c = cut /\ client[c] # "reset" THEN "broken"
                     ELSE IF client[c] = "left" /\ \E l \in lines : l[1] = c THEN "told"
                     ELSE client[c]
    BY DEF Writes
  <2>2. client[c] \in Phase
    BY DEF TypeOK
  <2>3. c = cut => client[c] \in {"left", "told", "broken", "reset"}
    BY Numbers DEF MayBeKilled, Gone
  <2>4. ASSUME NEW l \in lines, l[1] = c PROVE \E i \in Item : <<c, i>> \in lines
    <3>1. l = <<c, l[2]>> /\ l[2] \in Item
      BY <2>4
    <3> QED
      BY <3>1
  <2> QED
    BY <2>1, <2>2, <2>3, <2>4 DEF Phase
<1>7. client' \in [Clients -> Phase]
  BY <1>6 DEF Writes
<1> QED
  BY <1>4, <1>5, <1>6, <1>7

\* The lines are of that kind.
LEMMA Lines ==
    ASSUME NEW out \in Clients \cup {Terminal}, NEW what \in {"log", "head", "hello", "cgi"},
           NEW c \in Clients, NEW p \in Proc
    PROVE  /\ Line(out, what, c, p) \in (Clients \cup {Terminal}) \X Item
           /\ Line(out, what, c, p) = <<out, [what |-> what, req |-> c, by |-> p]>>
BY DEF Line, Item

\* A step in which the processes but those of S stay as they are, the servers go on
\* as they were and the clients stay what they are, keeps what was said about the
\* others.
Others(S) == \A j \in Proc \ S : proc'[j] = proc[j]
ServersGoOn ==
    \A p \in Proc : Server(p) => /\ proc'[p].stray = proc[p].stray /\ proc'[p].out = proc[p].out
                                 /\ proc'[p].cur = proc[p].cur
LEMMA OthersKeep ==
    ASSUME IInv, NEW S \in SUBSET Proc, Others(S), ServersGoOn,
           request' = request, \A p \in S : ServerOk(p)' /\ ChildOk(p)'
    PROVE  ServersInv' /\ ChildrenInv'
<1>1. ASSUME NEW p \in Proc, p \notin S PROVE ServerOk(p)'
  <2>1. ServerOk(p) /\ proc'[p] = proc[p]
    BY <1>1 DEF IInv, ServersInv, Others
  <2> QED
    BY <2>1 DEF ServerOk, Server
<1>2. ASSUME NEW k \in Proc, k \notin S PROVE ChildOk(k)'
  <2>1. ChildOk(k) /\ proc'[k] = proc[k]
    BY <1>2 DEF IInv, ChildrenInv, Others
  <2>2. proc[k].st \in {"child", "exec", "cgi"} =>
           /\ Server(proc[k].boss)' /\ proc'[k].boss = proc[k].boss
           /\ proc'[proc[k].boss].out = proc[proc[k].boss].out
    BY <2>1 DEF ChildOk, ServersGoOn, Server
  <2> QED
    BY <2>1, <2>2 DEF ChildOk, Own
<1> QED
  BY <1>1, <1>2 DEF ServersInv, ChildrenInv

\* A connection that is closed stays so, and one that is reset.
ClientsGoOn ==
    \A c \in Clients : /\ client[c] \in {"reset", "broken"} => client'[c] = client[c]
                       /\ Gone(c) => Gone(c)'

\* A server that was not ended goes on in no worse a state.
LEMMA StaysKept ==
    ASSUME IInv, NEW S \in SUBSET Proc, Others(S), ServersGoOn, ClientsGoOn,
           \A p \in S : proc'[p].st = "dead" => ~Server(p)'
    PROVE  ServersStay'
<1> SUFFICES ASSUME NEW p \in Proc, proc'[p].st = "dead", p = Main \/ proc'[p].stray
             PROVE  \/ \E c \in Clients : /\ proc'[p].sess[c] = "match"
                                          /\ client'[c] = "reset" \/ BrokenByCopy(c)'
                    \/ p # Main /\ Gone(proc[p].out)'
  BY DEF ServersStay
<1>1. p \notin S /\ proc'[p] = proc[p]
  BY DEF Others, Server
<1>2. \/ \E c \in Clients : /\ proc[p].sess[c] = "match"
                            /\ client[c] = "reset" \/ BrokenByCopy(c)
      \/ p # Main /\ Gone(proc[p].out)
  BY <1>1 DEF IInv, ServersStay
<1>3. \A c \in Clients : BrokenByCopy(c) => BrokenByCopy(c)'
  BY DEF BrokenByCopy, Strays, ServersGoOn, Server, ClientsGoOn
<1>4. p # Main => proc[p].out \in Clients
  BY <1>1 DEF IInv, ServersInv, ServerOk
<1>5. CASE p # Main /\ Gone(proc[p].out)
  BY <1>1, <1>4, <1>5 DEF ClientsGoOn, Gone
<1> QED
  BY <1>1, <1>2, <1>3, <1>5 DEF ClientsGoOn

-----------------------------------------------------------------------------
(* The clients.                                                            *)

\* A connection comes, is written to by its client, closed or reset.
LEMMA ClientKeeps ==
    ASSUME IInv, NEW c \in Clients, Connect(c) \/ Send(c) \/ Leave(c) \/ Break(c)
    PROVE  IInv'
<1>1. /\ request' = request /\ taken' = taken /\ proc' = proc /\ page' = page
      /\ \/ sent' = sent
         \/ /\ sent[c] < Pieces
            /\ sent' = [sent EXCEPT ![c] = @ + 1]
  BY DEF Connect, Send, Leave, Break
<1>2. /\ client \in [Clients -> Phase] /\ queued \subseteq Clients
      /\ sent \in [Clients -> 0 .. Pieces]
  BY DEF IInv, TypeOK
<1>3. /\ client' \in [Clients -> Phase] /\ queued' \subseteq Clients
      /\ \A d \in Clients : /\ d \in queued' => d \in queued \/ client[d] = "away"
                            /\ client'[d] = "away" => client[d] = "away"
                            /\ d \in queued' => d \in queued \/ client'[d] # "away"
                            /\ client[d] \in {"reset", "broken"} => client'[d] = client[d]
                            /\ Gone(d) => Gone(d)'
                            /\ client'[d] \in {"told", "broken"} =>
                                  client[d] \in {"told", "broken"}
  <2>1. CASE Connect(c)
    BY <1>2, <2>1 DEF Connect, Become, Phase, Gone
  <2>2. CASE Send(c)
    BY <1>2, <2>2 DEF Send, Gone
  <2>3. CASE Leave(c)
    <3>1. queued' = queued /\ (Become(c, "open", "left") \/ Become(c, "open", "reset"))
      BY <2>3 DEF Leave
    <3> QED
      BY <1>2, <3>1 DEF Become, Phase, Gone
  <2>4. CASE Break(c)
    BY <1>2, <2>4 DEF Break, Become, Phase, Gone
  <2> QED
    BY <2>1, <2>2, <2>3, <2>4
<1>4. sent' \in [Clients -> 0 .. Pieces]
  BY <1>1, <1>2 DEF Pieces
<1>5. TypeOK'
  <2>1. \A d \in queued', p \in Proc : proc'[p].sess[d] = "none"
    BY <1>1, <1>3 DEF IInv, TypeOK, AwayInv
  <2> QED
    BY <1>1, <1>3, <1>4, <2>1 DEF IInv, TypeOK
<1>6. ServersInv' /\ ChildrenInv'
  BY <1>1 DEF IInv, ServersInv, ChildrenInv, ServerOk, ChildOk, Server, Own
<1>7. AwayInv'
  BY <1>1, <1>3 DEF IInv, AwayInv
<1>8. HeadsInv' /\ OwnAnswer'
  BY <1>1 DEF IInv, HeadsInv, OwnAnswer, Strays
<1>9. OnceInv'
  BY <1>1, <1>3 DEF IInv, OnceInv, OwnStrays, AwayInv
<1>10. ServersStay'
  <2>1. Others({}) /\ ServersGoOn /\ ClientsGoOn
    BY <1>1, <1>3 DEF Others, ServersGoOn, ClientsGoOn
  <2> QED
    BY <2>1, StaysKept
<1>11. ToldInv'
  BY <1>1, <1>3 DEF IInv, ToldInv
<1> QED
  BY <1>5, <1>6, <1>7, <1>8, <1>9, <1>10, <1>11 DEF IInv

-----------------------------------------------------------------------------
(* The sessions of a server.                                               *)

\* Accept, do_accept and do_read: a session of a server gets to another state, and
\* the connection is not in the backlog any more.
Session1(p, c, s) ==
    /\ InLoop(p) /\ Set(p, c, s)
    /\ proc[p].sess[c] # "none" \/ c \in queued
    /\ queued' = queued \ {c}
    /\ UNCHANGED <<outside, page>>
LEMMA SessionKeeps ==
    ASSUME IInv, NEW p \in Proc, NEW c \in Clients, NEW s \in Session \ {"none"},
           Session1(p, c, s), taken' \in [Clients -> 0 .. Pieces]
    PROVE  IInv'
<1>1. /\ request' = request /\ client' = client /\ sent' = sent /\ page' = page
      /\ queued' = queued \ {c} /\ queued \subseteq Clients
      /\ proc' = [proc EXCEPT ![p].sess[c] = s]
      /\ proc \in [Proc -> ProcRecord] /\ proc[p].st = "loop"
      /\ proc[p].sess[c] # "none" \/ c \in queued
  BY DEF Session1, InLoop, Set, outside, offers, IInv, TypeOK
<1>2. proc[p] \in ProcRecord /\ proc[p].sess \in [Clients -> Session]
  BY ProcTypes DEF IInv
<1>3. /\ \A j \in Proc : j # p => proc'[j] = proc[j]
      /\ proc'[p] = [proc[p] EXCEPT !.sess = [@ EXCEPT ![c] = s]]
  BY <1>1
<1>4. /\ proc'[p].st = proc[p].st /\ proc'[p].out = proc[p].out /\ proc'[p].env = proc[p].env
      /\ proc'[p].cur = proc[p].cur /\ proc'[p].boss = proc[p].boss
      /\ proc'[p].stray = proc[p].stray
      /\ proc'[p].sess[c] = s /\ \A d \in Clients : d # c => proc'[p].sess[d] = proc[p].sess[d]
      /\ proc'[p] \in ProcRecord
  BY <1>2, <1>3 DEF ProcRecord
<1>5. Server(p) /\ ServerOk(p) /\ ServerOk(p)' /\ ChildOk(p)'
  BY <1>1, <1>4 DEF IInv, ServersInv, ServerOk, ChildOk, Server
<1>6. TypeOK'
  <2>1. proc' \in [Proc -> ProcRecord]
    BY <1>1, <1>3, <1>4
  <2>2. \A d \in queued', j \in Proc : proc'[j].sess[d] = "none"
    BY <1>1, <1>3, <1>4 DEF IInv, TypeOK
  <2> QED
    BY <1>1, <2>1, <2>2 DEF IInv, TypeOK
<1>7. ServersInv' /\ ChildrenInv'
  <2>1. Others({p}) /\ ServersGoOn /\ \A j \in {p} : ServerOk(j)' /\ ChildOk(j)'
    BY <1>3, <1>4, <1>5 DEF Others, ServersGoOn
  <2> QED
    BY <1>1, <2>1, OthersKeep
<1>8. AwayInv'
  BY <1>1, <1>3, <1>4 DEF IInv, AwayInv
<1>9. \A j \in Proc : /\ proc'[j].stray = proc[j].stray /\ proc'[j].out = proc[j].out
                      /\ proc'[j].cur = proc[j].cur /\ proc'[j].st = proc[j].st
  BY <1>3, <1>4
<1>10. HeadsInv' /\ OwnAnswer'
  BY <1>1, <1>9 DEF IInv, HeadsInv, OwnAnswer, Strays, TypeOK, Item
<1>11. OnceInv'
  <2> SUFFICES ASSUME NEW d \in Clients, NEW k \in Proc, OwnStrays(d)', proc'[k].cur = d
               PROVE  /\ \A j \in Proc : proc'[j].cur = d => j = k
                      /\ d \notin queued'
                      /\ \A j \in Proc : proc'[j].st = "loop" => proc'[j].sess[d] = "none"
    BY DEF OnceInv
  <2>1. OwnStrays(d) /\ proc[k].cur = d
    BY <1>9 DEF OwnStrays
  <2>2. /\ \A j \in Proc : proc[j].cur = d => j = k
        /\ d \notin queued
        /\ \A j \in Proc : proc[j].st = "loop" => proc[j].sess[d] = "none"
    BY <2>1 DEF IInv, OnceInv
  <2>3. d # c
    BY <1>1, <2>2
  <2> QED
    BY <1>1, <1>3, <1>4, <1>9, <2>2, <2>3
<1>12. ServersStay'
  <2>1. Others({p}) /\ \A j \in {p} : proc'[j].st # "dead"
    BY <1>1, <1>3, <1>4 DEF Others
  <2>2. ServersGoOn /\ ClientsGoOn
    BY <1>1, <1>9 DEF ServersGoOn, ClientsGoOn, Gone
  <2> QED
    BY <2>1, <2>2, StaysKept
<1>13. ToldInv'
  BY <1>1, <1>9 DEF IInv, ToldInv
<1> QED
  BY <1>6, <1>7, <1>8, <1>10, <1>11, <1>12, <1>13 DEF IInv

\* A connection is accepted.
LEMMA AcceptKeeps ==
    ASSUME IInv, NEW p \in Proc, NEW c \in Clients, Accept(p, c) PROVE IInv'
<1>1. Session1(p, c, "accepted") /\ taken' = taken
  BY DEF Accept, Session1, outside
<1> QED
  BY <1>1, SessionKeeps DEF IInv, TypeOK, Session

\* The handler of an accept.
LEMMA AcceptedKeeps ==
    ASSUME IInv, NEW p \in Proc, NEW c \in Clients, do_accept(p, c) PROVE IInv'
<1>1. c \notin queued
  BY DEF do_accept, IInv, TypeOK
<1>2. Session1(p, c, "reading") /\ taken' = taken
  BY <1>1 DEF do_accept, Session1, outside
<1> QED
  BY <1>2, SessionKeeps DEF IInv, TypeOK, Session

\* A read completes.
LEMMA ReadKeeps ==
    ASSUME IInv, NEW p \in Proc, NEW c \in Clients, do_read(p, c) PROVE IInv'
<1>1. c \notin queued
  BY DEF do_read, IInv, TypeOK
<1>2. PICK s \in {"match", "nomatch"} : Session1(p, c, s)
  BY <1>1 DEF do_read, Session1, outside
<1>3. taken' \in [Clients -> 0 .. Pieces]
  <2>1. PICK n \in 0 .. sent[c] - taken[c] : taken' = [taken EXCEPT ![c] = @ + n]
    BY DEF do_read
  <2>2. /\ taken \in [Clients -> 0 .. Pieces] /\ sent[c] \in 0 .. Pieces
        /\ taken[c] \in 0 .. Pieces
    BY DEF IInv, TypeOK
  <2>3. taken[c] + n \in 0 .. Pieces
    BY <2>2 DEF Pieces
  <2> QED
    BY <2>1, <2>2, <2>3
<1> QED
  BY <1>2, <1>3, SessionKeeps DEF Session
-----------------------------------------------------------------------------
(* The end of a process, and what a child does.                            *)

\* What was written is for the client whose request it is, or the log of a stray, and
\* only a connection that a process was started for gets on by it.
LineRight(c, i) ==
    \/ i.req = c /\ i.by \in Proc /\ proc[i.by].cur = c
    \/ i.what = "log" /\ \E q \in Strays : proc[q].out = c
PagesRight ==
    /\ page' \in [Clients -> SUBSET Item]
    /\ \A c \in Clients : \A i \in page'[c] : i \in page[c] \/ LineRight(c, i)
    /\ client' \in [Clients -> Phase]
    /\ \A c \in Clients :
          \/ client'[c] = client[c]
          \/ /\ client[c] \in {"left", "told"} /\ client'[c] \in {"told", "broken"}
             /\ \E k \in Proc : proc[k].cur = c

\* Writing right lines, and being killed at a connection that had a process, is right.
LEMMA WritesRight ==
    ASSUME IInv, NEW lines \in SUBSET ((Clients \cup {Terminal}) \X Item), NEW cut,
           Writes(lines, cut), cut = Terminal \/ MayBeKilled(cut),
           cut = Terminal \/ \E k \in Proc : proc[k].cur = cut,
           \A c \in Clients : \A i \in Item : <<c, i>> \in lines => LineRight(c, i)
    PROVE  PagesRight
<1>1. TypeOK
  BY DEF IInv
<1>2. /\ page' \in [Clients -> SUBSET Item]
      /\ \A c \in Clients : \A i \in page'[c] : i \in page[c] \/ <<c, i>> \in lines
      /\ client' \in [Clients -> Phase]
      /\ \A c \in Clients :
            \/ client'[c] = client[c]
            \/ /\ client[c] \in {"left", "told"} /\ client'[c] \in {"told", "broken"}
               /\ c = cut \/ \E i \in Item : <<c, i>> \in lines
  BY <1>1, Shown
<1>3. \A c \in Clients : \A i \in page'[c] : i \in page[c] \/ LineRight(c, i)
  BY <1>2
<1>4. \A q \in Strays : q \in Proc /\ proc[q].cur = proc[q].out
  BY DEF Strays, IInv, ServersInv, ServerOk
<1>5. \A c \in Clients, i \in Item : LineRight(c, i) => \E k \in Proc : proc[k].cur = c
  BY <1>4 DEF LineRight
<1>6. \A c \in Clients :
         c = cut \/ (\E i \in Item : <<c, i>> \in lines) => \E k \in Proc : proc[k].cur = c
  BY <1>5, Numbers
<1> QED
  BY <1>2, <1>3, <1>6 DEF PagesRight

\* A line that a process writes for the client it was started for is right.
LEMMA OwnLine ==
    ASSUME IInv, NEW k \in Proc, NEW what \in {"log", "head", "hello", "cgi"},
           proc[k].cur \in Clients
    PROVE  /\ Line(proc[k].cur, what, proc[k].cur, k) \in (Clients \cup {Terminal}) \X Item
           /\ \A c \in Clients, i \in Item :
                 <<c, i>> = Line(proc[k].cur, what, proc[k].cur, k) => LineRight(c, i)
<1> DEFINE c == proc[k].cur
           l == Line(c, what, c, k)
<1>1. /\ l \in (Clients \cup {Terminal}) \X Item
      /\ l = <<c, [what |-> what, req |-> c, by |-> k]>>
  BY Lines
<1> HIDE DEF l
<1>2. ASSUME NEW d \in Clients, NEW i \in Item, <<d, i>> = l PROVE LineRight(d, i)
  <2>1. d = c /\ i.req = c /\ i.by = k
    BY <1>1, <1>2
  <2> QED
    BY <2>1 DEF LineRight
<1> QED
  BY <1>1, <1>2 DEF l

\* A server writes to the terminal or to its own client, and so does its child at first.
LEMMA LogLine ==
    ASSUME IInv, NEW p \in Proc, NEW c \in Clients, NEW b \in Proc, Server(b),
           proc[p].out = proc[b].out
    PROVE  /\ Line(proc[p].out, "log", c, p) \in (Clients \cup {Terminal}) \X Item
           /\ \A d \in Clients, i \in Item :
                 <<d, i>> = Line(proc[p].out, "log", c, p) => LineRight(d, i)
           /\ proc[p].out = Terminal \/ \E k \in Proc : proc[k].cur = proc[p].out
           /\ proc[p].out # Terminal => b # Main
<1> DEFINE out == proc[p].out
           l == Line(out, "log", c, p)
<1>1. out \in Clients \cup {Terminal}
  BY ProcTypes DEF IInv
<1>2. /\ l \in (Clients \cup {Terminal}) \X Item
      /\ l = <<out, [what |-> "log", req |-> c, by |-> p]>>
  BY <1>1, Lines
<1>3. ServerOk(b)
  BY DEF IInv, ServersInv
<1>4. out # Terminal => b # Main /\ b \in Strays /\ proc[b].cur = out
  BY <1>3 DEF ServerOk, Server, Strays
<1> HIDE DEF l
<1>5. ASSUME NEW d \in Clients, NEW i \in Item, <<d, i>> = l PROVE LineRight(d, i)
  <2>1. d = out /\ i.what = "log"
    BY <1>2, <1>5
  <2> QED
    BY <1>4, <2>1, Numbers DEF LineRight
<1> QED
  BY <1>2, <1>4, <1>5 DEF l

\* A step that changes process p, no server or one that dies, and lets it write
\* lines: what it has to see to.
LEMMA ProcessKeeps ==
    ASSUME IInv, NEW p \in Proc, NEW P \in ProcRecord, proc' = [proc EXCEPT ![p] = P],
           UNCHANGED <<offers, queued, taken>>,
           P.cur = proc[p].cur, P.boss = proc[p].boss,
           \A d \in Clients : proc[p].sess[d] = "none" => P.sess[d] = "none",
           Server(p) => P.stray = proc[p].stray /\ P.out = proc[p].out,
           ServerOk(p)', ChildOk(p)',
           P.st = "loop" /\ proc[p].st # "loop" => ~proc[p].stray /\ P.stray
              /\ \A d \in Clients : P.out = d => P.sess[d] = "none",
           P.st # "none",
           P.st = "dead" /\ Server(p)' =>
              \/ \E d \in Clients : /\ P.sess[d] = "match"
                                    /\ client[d] = "reset" \/ BrokenByCopy(d)
              \/ p # Main /\ P.out \in Clients /\ Gone(P.out),
           PagesRight
    PROVE  IInv'
<1>1. /\ request' = request /\ sent' = sent /\ queued' = queued
      /\ taken' = taken /\ queued \subseteq Clients
      /\ proc \in [Proc -> ProcRecord]
  BY DEF offers, IInv, TypeOK
<1>2. proc'[p] = P /\ \A j \in Proc : j # p => proc'[j] = proc[j]
  BY <1>1
<1>3. \A j \in Proc : /\ proc'[j].cur = proc[j].cur
                      /\ Server(j) => /\ proc'[j].stray = proc[j].stray
                                      /\ proc'[j].out = proc[j].out
                      /\ \A d \in Clients : proc[j].sess[d] = "none" => proc'[j].sess[d] = "none"
  BY <1>2
<1>4. TypeOK'
  <2>1. proc' \in [Proc -> ProcRecord]
    BY <1>1
  <2>2. \A d \in queued', j \in Proc : proc'[j].sess[d] = "none"
    BY <1>1, <1>3 DEF IInv, TypeOK
  <2> QED
    BY <1>1, <2>1, <2>2 DEF IInv, TypeOK, PagesRight
<1>5. ServersInv' /\ ChildrenInv'
  <2>1. Others({p}) /\ ServersGoOn /\ \A j \in {p} : ServerOk(j)' /\ ChildOk(j)'
    BY <1>2, <1>3 DEF Others, ServersGoOn
  <2> QED
    BY <1>1, <2>1, OthersKeep
<1>6. AwayInv'
  BY <1>1, <1>3 DEF IInv, AwayInv, PagesRight
<1>7. \A q \in Strays : q \in Strays' /\ proc'[q].out = proc[q].out
  BY <1>3 DEF Strays, Server
<1>8. OwnAnswer'
  BY <1>1, <1>7 DEF IInv, OwnAnswer, PagesRight, LineRight
<1>9. HeadsInv'
  <2> SUFFICES ASSUME NEW c \in Clients, NEW i \in page'[c], i.what = "head"
               PROVE  i.req = c /\ proc'[i.by].cur = c
    BY DEF HeadsInv
  <2>1. i.req = c /\ proc[i.by].cur = c
    BY DEF IInv, HeadsInv, PagesRight, LineRight
  <2>2. i.by \in Proc
    BY DEF Item, PagesRight
  <2> QED
    BY <1>3, <2>1, <2>2
<1>10. OnceInv'
  <2> SUFFICES ASSUME NEW d \in Clients, NEW k \in Proc, OwnStrays(d)', proc'[k].cur = d
               PROVE  /\ \A j \in Proc : proc'[j].cur = d => j = k
                      /\ d \notin queued'
                      /\ \A j \in Proc : proc'[j].st = "loop" => proc'[j].sess[d] = "none"
    BY DEF OnceInv
  <2>1. OwnStrays(d) /\ proc[k].cur = d
    BY <1>3 DEF OwnStrays, Server
  <2>2. /\ \A j \in Proc : proc[j].cur = d => j = k
        /\ d \notin queued
        /\ \A j \in Proc : proc[j].st = "loop" => proc[j].sess[d] = "none"
    BY <2>1 DEF IInv, OnceInv
  <2>3. P.st = "loop" => P.sess[d] = "none"
    BY <1>2, <2>2 DEF OwnStrays
  <2> QED
    BY <1>1, <1>2, <1>3, <2>2, <2>3
<1>11. ClientsGoOn
  BY DEF PagesRight, ClientsGoOn, Gone
<1>12. ServersStay'
  <2>1. CASE P.st = "dead" /\ Server(p)'
    <3>1. Others({p}) /\ ServersGoOn
      BY <1>2, <1>3 DEF Others, ServersGoOn
    <3>2. \A d \in Clients : BrokenByCopy(d) => BrokenByCopy(d)'
      BY <1>7, <1>11 DEF BrokenByCopy, ClientsGoOn
    <3>3. \/ \E d \in Clients : /\ P.sess[d] = "match"
                                /\ client'[d] = "reset" \/ BrokenByCopy(d)'
          \/ p # Main /\ P.out \in Clients /\ Gone(P.out)'
      BY <1>11, <2>1, <3>2 DEF ClientsGoOn, Gone
    <3>4. ASSUME NEW q \in Proc, q # p, proc'[q].st = "dead", q = Main \/ proc'[q].stray
          PROVE  \/ \E d \in Clients : /\ proc'[q].sess[d] = "match"
                                       /\ client'[d] = "reset" \/ BrokenByCopy(d)'
                 \/ q # Main /\ Gone(proc[q].out)'
      <4>1. proc'[q] = proc[q]
        BY <1>2, <3>4
      <4>2. \/ \E d \in Clients : /\ proc[q].sess[d] = "match"
                                  /\ client[d] = "reset" \/ BrokenByCopy(d)
            \/ q # Main /\ Gone(proc[q].out)
        BY <3>4, <4>1 DEF IInv, ServersStay
      <4>3. q # Main => proc[q].out \in Clients
        BY <3>4, <4>1 DEF IInv, ServersInv, ServerOk
      <4> QED
        BY <1>11, <3>2, <4>1, <4>2, <4>3 DEF ClientsGoOn, Gone
    <3> QED
      BY <1>2, <3>3, <3>4 DEF ServersStay, Gone
  <2>2. CASE ~(P.st = "dead" /\ Server(p)')
    <3>1. Others({p}) /\ ServersGoOn /\ \A j \in {p} : proc'[j].st = "dead" => ~Server(j)'
      BY <1>2, <1>3, <2>2 DEF Others, ServersGoOn
    <3> QED
      BY <1>11, <3>1, StaysKept
  <2> QED
    BY <2>1, <2>2
<1>13. ToldInv'
  BY <1>3 DEF IInv, ToldInv, PagesRight
<1> QED
  BY <1>4, <1>5, <1>6, <1>8, <1>9, <1>10, <1>12, <1>13 DEF IInv

\* A process that dies is no server, or there was a reason.
LEMMA DiesKeeps ==
    ASSUME IInv, NEW p \in Proc, Dies(p), proc[p].st \in {"loop", "child", "exec"},
           UNCHANGED <<offers, queued, taken>>, PagesRight,
           Server(p) => \/ \E d \in Clients : /\ proc[p].sess[d] = "match"
                                              /\ client[d] = "reset" \/ BrokenByCopy(d)
                        \/ p # Main /\ proc[p].out \in Clients /\ Gone(proc[p].out)
    PROVE  IInv'
<1> DEFINE P == [proc[p] EXCEPT !.st = "dead"]
<1>1. proc' = [proc EXCEPT ![p] = P]
  BY DEF Dies
<1>2. /\ proc[p] \in ProcRecord /\ proc \in [Proc -> ProcRecord]
  BY ProcTypes DEF IInv, TypeOK
<1>3. /\ P \in ProcRecord /\ P.cur = proc[p].cur /\ P.boss = proc[p].boss /\ P.out = proc[p].out
      /\ P.env = proc[p].env /\ P.sess = proc[p].sess /\ P.stray = proc[p].stray /\ P.st = "dead"
  BY <1>2 DEF ProcRecord
<1>4. proc'[p] = P
  BY <1>1, <1>2
<1> HIDE DEF P
<1>5. ServerOk(p)' /\ ChildOk(p)'
  BY <1>3, <1>4 DEF IInv, ServersInv, ServerOk, ChildOk, Server
<1>7. Server(p)' => Server(p)
  BY <1>3, <1>4 DEF Server
<1>8. /\ Server(p) => P.stray = proc[p].stray /\ P.out = proc[p].out
      /\ P.st # "loop" /\ P.st # "none"
      /\ Server(p)' => \/ \E d \in Clients : /\ P.sess[d] = "match"
                                             /\ client[d] = "reset" \/ BrokenByCopy(d)
                       \/ p # Main /\ P.out \in Clients /\ Gone(P.out)
      /\ \A d \in Clients : proc[p].sess[d] = "none" => P.sess[d] = "none"
  BY <1>3, <1>7
<1> QED
  BY <1>1, <1>3, <1>5, <1>8, ProcessKeeps
\* A server forks.
Forks(p, c, k) ==
    /\ InLoop(p) /\ proc[p].sess[c] \in Due /\ proc[k].st = "none"
    /\ proc' = [proc EXCEPT ![p] = Parent(p, c), ![k] = Child(p, c)]
    /\ UNCHANGED <<offers, queued, taken>>
LEMMA ForkKeeps ==
    ASSUME IInv, NEW p \in Proc, NEW c \in Clients, NEW k \in Proc, Forks(p, c, k), PagesRight
    PROVE  IInv'
<1>1. /\ request' = request /\ sent' = sent /\ queued' = queued
      /\ taken' = taken /\ queued \subseteq Clients
      /\ proc \in [Proc -> ProcRecord] /\ proc[p] \in ProcRecord
      /\ proc[p].sess \in [Clients -> Session] /\ proc[p].sess[c] \in Due
      /\ proc[p].st = "loop" /\ proc[k].st = "none" /\ p # k
      /\ proc' = [proc EXCEPT ![p] = Parent(p, c), ![k] = Child(p, c)]
  BY ProcTypes DEF Forks, InLoop, offers, IInv, TypeOK
<1>2. /\ proc'[p] = Parent(p, c) /\ proc'[k] = Child(p, c)
      /\ \A j \in Proc : j # p /\ j # k => proc'[j] = proc[j]
  BY <1>1
<1>3. /\ proc'[p].st = "loop" /\ proc'[p].out = proc[p].out /\ proc'[p].env = proc[p].env
      /\ proc'[p].cur = proc[p].cur /\ proc'[p].boss = proc[p].boss
      /\ proc'[p].stray = proc[p].stray /\ proc'[p].sess[c] = "none"
      /\ \A d \in Clients : d # c => proc'[p].sess[d] = proc[p].sess[d]
      /\ proc'[p] \in ProcRecord
  BY <1>1, <1>2 DEF Parent, ProcRecord, Session
<1>4. /\ proc'[k].st = "child" /\ proc'[k].out = proc[p].out /\ proc'[k].env = proc[p].env
      /\ proc'[k].cur = c /\ proc'[k].boss = p /\ proc'[k].stray = FALSE
      /\ proc'[k].sess = proc[p].sess /\ proc'[k] \in ProcRecord
  BY <1>1, <1>2 DEF Child, ProcRecord
<1>5. ServerOk(p) /\ ServerOk(k) /\ ServerOk(Main) /\ ChildOk(p)
  BY Numbers DEF IInv, ServersInv, ChildrenInv
<1>6. /\ Server(p) /\ k # Main /\ ~proc[k].stray /\ proc[k].cur = 0
      /\ p # Main => proc[p].stray /\ proc[p].out = proc[p].cur /\ proc[p].cur \in Clients
      /\ p = Main => proc[p].out = Terminal /\ proc[p].env = NoQuery
  BY <1>1, <1>5 DEF ServerOk, Server
<1>7. c \notin queued /\ client[c] # "away"
  BY <1>1 DEF IInv, TypeOK, AwayInv, Due
<1>8. /\ page' \in [Clients -> SUBSET Item] /\ client' \in [Clients -> Phase]
      /\ \A d \in Clients : client'[d] = "away" => client[d] = "away"
  BY DEF PagesRight
<1>9. TypeOK'
  <2>1. proc' \in [Proc -> ProcRecord]
    BY <1>1, <1>2, <1>3, <1>4
  <2>2. \A d \in queued', j \in Proc : proc'[j].sess[d] = "none"
    BY <1>1, <1>2, <1>3, <1>4, <1>7 DEF IInv, TypeOK
  <2> QED
    BY <1>1, <1>8, <2>1, <2>2 DEF IInv, TypeOK
<1>10. ServersInv' /\ ChildrenInv'
  <2>1. Others({p, k})
    BY <1>2 DEF Others
  <2>2. ServersGoOn
    BY <1>2, <1>3, <1>6 DEF ServersGoOn, Server
  <2>3. ServerOk(p)' /\ ServerOk(k)'
    BY <1>3, <1>4, <1>5, <1>6 DEF ServerOk, Server
  <2>4. ChildOk(p)' /\ ChildOk(k)'
    BY <1>1, <1>3, <1>4, <1>6 DEF ChildOk, Server
  <2>5. \A j \in {p, k} : ServerOk(j)' /\ ChildOk(j)'
    BY <2>3, <2>4
  <2> QED
    BY <1>1, <2>1, <2>2, <2>5, OthersKeep
<1>11. AwayInv'
  BY <1>1, <1>2, <1>3, <1>4, <1>7, <1>8 DEF IInv, AwayInv
<1>12. OwnAnswer'
  <2>1. \A q \in Strays : q \in Strays' /\ proc'[q].out = proc[q].out
    BY <1>2, <1>3, <1>6 DEF Strays
  <2>2. \A d \in Clients : \A i \in page'[d] :
           i.req = d \/ (i.what = "log" /\ \E q \in Strays : proc[q].out = d)
    BY DEF IInv, OwnAnswer, PagesRight, LineRight
  <2> QED
    BY <2>1, <2>2 DEF OwnAnswer
<1>13. HeadsInv'
  <2> SUFFICES ASSUME NEW d \in Clients, NEW i \in page'[d], i.what = "head"
               PROVE  i.req = d /\ proc'[i.by].cur = d
    BY DEF HeadsInv
  <2>1. i.req = d /\ proc[i.by].cur = d /\ i.by \in Proc
    BY <1>8 DEF IInv, HeadsInv, Item, PagesRight, LineRight
  <2>2. i.by # k
    BY <1>6, <2>1, Numbers
  <2> QED
    BY <1>2, <1>3, <2>1, <2>2
<1>14. OnceInv'
  <2> SUFFICES ASSUME NEW d \in Clients, NEW m \in Proc, OwnStrays(d)', proc'[m].cur = d
               PROVE  /\ \A j \in Proc : proc'[j].cur = d => j = m
                      /\ d \notin queued'
                      /\ \A j \in Proc : proc'[j].st = "loop" => proc'[j].sess[d] = "none"
    BY DEF OnceInv
  <2>1. OwnStrays(d)
    BY <1>2, <1>3, <1>6 DEF OwnStrays
  <2>2. \A n \in Proc : proc[n].cur = d =>
           /\ \A j \in Proc : proc[j].cur = d => j = n
           /\ d \notin queued
           /\ \A j \in Proc : proc[j].st = "loop" => proc[j].sess[d] = "none"
    BY <2>1 DEF IInv, OnceInv
  <2>3. CASE d # c
    BY <1>1, <1>2, <1>3, <1>4, <2>2, <2>3
  <2>4. CASE d = c
    <3>1. \A n \in Proc : proc[n].cur # c
      BY <1>1, <2>2, <2>4 DEF Due
    <3>2. \A q \in Proc : ~proc[q].stray
      BY <2>1, <2>4, <3>1 DEF IInv, ServersInv, ServerOk, OwnStrays
    <3>3. \A q \in Proc : proc[q].st = "loop" => q = p
      BY <1>6, <3>2 DEF IInv, ServersInv, ServerOk, Server
    <3> QED
      BY <1>1, <1>2, <1>3, <1>4, <1>7, <2>4, <3>1, <3>3
  <2> QED
    BY <2>3, <2>4
<1>15. ServersStay'
  <2>1. Others({p, k}) /\ \A j \in {p, k} : proc'[j].st # "dead"
    BY <1>2, <1>3, <1>4 DEF Others
  <2>2. ServersGoOn
    BY <1>2, <1>3, <1>6 DEF ServersGoOn, Server
  <2>3. ClientsGoOn
    BY DEF PagesRight, ClientsGoOn, Gone
  <2> QED
    BY <2>1, <2>2, <2>3, StaysKept
<1>16. ToldInv'
  <2>1. \A j \in Proc : proc[j].cur \in Clients => proc'[j].cur = proc[j].cur
    BY <1>2, <1>3, <1>6, Numbers
  <2> QED
    BY <2>1 DEF IInv, ToldInv, PagesRight
<1> QED
  BY <1>9, <1>10, <1>11, <1>12, <1>13, <1>14, <1>15, <1>16 DEF IInv

\* The handler of a read, whatever it comes to.
LEMMA HandleKeeps ==
    ASSUME IInv, NEW p \in Proc, NEW c \in Clients, Handle(p, c) PROVE IInv'
<1> DEFINE out == proc[p].out
           log == {Line(out, "log", c, p)}
<1>1. /\ proc[p].st = "loop" /\ proc[p].sess[c] \in Due /\ ServerOk(p) /\ Server(p)
      /\ UNCHANGED <<offers, queued, taken>>
  BY DEF Handle, InLoop, IInv, ServersInv, ServerOk
<1>2. /\ log \in SUBSET ((Clients \cup {Terminal}) \X Item)
      /\ \A d \in Clients, i \in Item : <<d, i>> \in log => LineRight(d, i)
      /\ out = Terminal \/ \E k \in Proc : proc[k].cur = out
      /\ out # Terminal => p # Main
      /\ out \in Clients \cup {Terminal}
  BY <1>1, LogLine, ProcTypes DEF IInv
<1> HIDE DEF log, out
<1>3. CASE MayBeKilled(out) /\ Dies(p) /\ Writes({}, out)
  <2>1. p # Main /\ out \in Clients /\ Gone(out)
    BY <1>2, <1>3 DEF MayBeKilled
  <2>2. PagesRight
    BY <1>2, <1>3, WritesRight
  <2> QED
    BY <1>1, <1>3, <2>1, <2>2, DiesKeeps DEF out
<1>4. ASSUME Writes(log, Terminal) PROVE PagesRight
  BY <1>2, <1>4, WritesRight
<1>5. CASE Throws(p, c) /\ Dies(p) /\ Writes(log, Terminal)
  <2>1. proc[p].sess[c] = "match" /\ client[c] \in {"reset", "broken"}
    BY <1>5 DEF Throws
  <2>2. client[c] = "broken" => BrokenByCopy(c)
    <3>1. SUFFICES ASSUME client[c] = "broken", OwnStrays(c) PROVE FALSE
      BY DEF BrokenByCopy, OwnStrays, Strays
    <3>2. PICK k \in Proc : proc[k].cur = c
      BY <3>1 DEF IInv, ToldInv
    <3> QED
      BY <1>1, <2>1, <3>1, <3>2 DEF IInv, OnceInv
  <2> QED
    BY <1>1, <1>4, <1>5, <2>1, <2>2, DiesKeeps
<1>6. CASE /\ \E k \in NextProc :
                 proc' = [proc EXCEPT ![p] = Parent(p, c), ![k] = Child(p, c)]
           /\ Writes(log, Terminal)
  <2>1. PICK k \in NextProc : proc' = [proc EXCEPT ![p] = Parent(p, c), ![k] = Child(p, c)]
    BY <1>6
  <2>2. k \in Proc /\ Forks(p, c, k)
    BY <1>1, <2>1 DEF NextProc, Forks, InLoop
  <2> QED
    BY <1>4, <1>6, <2>2, ForkKeeps
<1>7. \/ MayBeKilled(out) /\ Dies(p) /\ Writes({}, out)
      \/ Throws(p, c) /\ Dies(p) /\ Writes(log, Terminal)
      \/ /\ \E k \in NextProc :
               proc' = [proc EXCEPT ![p] = Parent(p, c), ![k] = Child(p, c)]
         /\ Writes(log, Terminal)
  BY DEF Handle, out, log
<1> QED
  BY <1>3, <1>5, <1>6, <1>7

\* What a process that is no server is, while it runs.
LEMMA ChildFacts ==
    ASSUME IInv, NEW k \in Proc, proc[k].st \in {"child", "exec", "cgi"}
    PROVE  /\ proc[k].cur \in Clients /\ ~Server(k) /\ k # Main /\ proc[k].stray = FALSE
           /\ proc[k] \in ProcRecord /\ proc[k].sess \in [Clients -> Session]
           /\ proc[k].boss \in Proc /\ Server(proc[k].boss) /\ ServerOk(proc[k].boss)
           /\ ServerOk(k) /\ ChildOk(k) /\ proc \in [Proc -> ProcRecord]
           /\ page \in [Clients -> SUBSET Item]
           /\ proc[k].out \in Clients \cup {Terminal}
<1>1. ServerOk(k) /\ ChildOk(k) /\ proc[k].stray \in BOOLEAN
  BY ProcTypes DEF IInv, ServersInv, ChildrenInv
<1>2. proc[k].boss \in Proc /\ ServerOk(proc[k].boss)
  BY <1>1 DEF IInv, ServersInv, ChildOk
<1> QED
  BY <1>1, <1>2, ProcTypes DEF IInv, TypeOK, ServerOk, ChildOk, Server

\* A child makes its connection its own.
LEMMA PrepareKeeps ==
    ASSUME IInv, NEW k \in Proc, PrepareChild(k) PROVE IInv'
<1> DEFINE c == proc[k].cur
           old == proc[k].out
           b == proc[k].boss
           P == [proc[k] EXCEPT !.st = "exec", !.env = QueryOf(k, c), !.out = c]
           log == IF proc[k].sess[c] = "match" THEN {Line(old, "log", c, k)} ELSE {}
           head == Line(c, "head", c, k)
<1>1. proc[k].st = "child" /\ UNCHANGED <<offers, queued, taken>>
  BY DEF PrepareChild
<1>2. /\ c \in Clients /\ ~Server(k) /\ k # Main /\ proc[k].stray = FALSE
      /\ proc[k] \in ProcRecord /\ proc[k].sess \in [Clients -> Session]
      /\ b \in Proc /\ Server(b) /\ ServerOk(b)
      /\ ServerOk(k) /\ ChildOk(k) /\ proc \in [Proc -> ProcRecord]
      /\ page \in [Clients -> SUBSET Item] /\ old \in Clients \cup {Terminal}
  BY <1>1, ChildFacts
<1>3. /\ \A l \in log : l \in (Clients \cup {Terminal}) \X Item
      /\ \A d \in Clients, i \in Item : <<d, i>> \in log => LineRight(d, i)
      /\ old = Terminal \/ \E j \in Proc : proc[j].cur = old
  <2>1. old = proc[b].out
    BY <1>1, <1>2 DEF ChildOk
  <2>2. /\ Line(old, "log", c, k) \in (Clients \cup {Terminal}) \X Item
        /\ \A d \in Clients, i \in Item : <<d, i>> = Line(old, "log", c, k) => LineRight(d, i)
        /\ old = Terminal \/ \E j \in Proc : proc[j].cur = old
    BY <1>2, <2>1, LogLine
  <2> QED
    BY <2>2
<1>4. /\ head \in (Clients \cup {Terminal}) \X Item
      /\ \A d \in Clients, i \in Item : <<d, i>> = head => LineRight(d, i)
  BY <1>2, OwnLine
<1>5. \/ MayBeKilled(old) /\ Dies(k) /\ Writes({}, old)
      \/ MayBeKilled(c) /\ Dies(k) /\ Writes(log, c)
      \/ proc' = [proc EXCEPT ![k] = P] /\ Writes({head} \cup log, Terminal)
  BY DEF PrepareChild
<1> HIDE DEF head, log
<1>6. PagesRight
  <2>1. ASSUME MayBeKilled(old), Writes({}, old) PROVE PagesRight
    BY <1>3, <2>1, WritesRight
  <2>2. ASSUME MayBeKilled(c), Writes(log, c) PROVE PagesRight
    <3>1. log \in SUBSET ((Clients \cup {Terminal}) \X Item)
      BY <1>3
    <3> QED
      BY <1>2, <1>3, <2>2, <3>1, WritesRight
  <2>3. ASSUME Writes({head} \cup log, Terminal) PROVE PagesRight
    <3> DEFINE lines == {head} \cup log
    <3>1. lines \in SUBSET ((Clients \cup {Terminal}) \X Item)
      BY <1>3, <1>4
    <3>2. \A d \in Clients : \A i \in Item : <<d, i>> \in lines => LineRight(d, i)
      BY <1>3, <1>4
    <3>3. Writes(lines, Terminal)
      BY <2>3
    <3> HIDE DEF lines
    <3> QED
      BY <3>1, <3>2, <3>3, WritesRight
  <2> QED
    BY <1>5, <2>1, <2>2, <2>3
<1>7. CASE Dies(k)
  BY <1>1, <1>2, <1>6, <1>7, DiesKeeps
<1>8. ASSUME proc' = [proc EXCEPT ![k] = P] PROVE IInv'
  <2>1. /\ P \in ProcRecord /\ P.cur = c /\ P.boss = b /\ P.out = c /\ P.st = "exec"
        /\ P.sess = proc[k].sess /\ P.stray = FALSE /\ P.env = QueryOf(k, c)
    <3>1. QueryOf(k, c) \in Clients \cup {NoQuery}
      BY <1>2 DEF QueryOf, ProcRecord
    <3> QED
      BY <1>2, <3>1 DEF ProcRecord
  <2>2. proc'[k] = P /\ proc'[Main] = proc[Main] /\ request' = request
        /\ \A j \in Proc : j # k => proc'[j] = proc[j]
    BY <1>1, <1>2, <1>8, Numbers DEF offers
  <2>3. b = Main => /\ proc[k].sess[c] \in Due
                    /\ QueryOf(k, c) = IF proc[k].sess[c] = "match" THEN Own(c) ELSE NoQuery
    BY <1>1, <1>2 DEF QueryOf, Own, ChildOk
  <2>4. proc[k].sess[c] \in Due
    BY <1>1, <1>2 DEF ChildOk
  <2> HIDE DEF P
  <2>5. ServerOk(k)'
    BY <1>2, <2>1, <2>2 DEF ServerOk
  <2>6. ChildOk(k)'
    <3>1. Server(b)'
      BY <1>2, <2>1, <2>2 DEF Server
    <3> QED
      BY <1>2, <2>1, <2>2, <2>3, <2>4, <3>1 DEF ChildOk, Own
  <2>7. P.st # "loop" /\ P.st # "none" /\ P.st # "dead"
        /\ \A d \in Clients : proc[k].sess[d] = "none" => P.sess[d] = "none"
    BY <2>1
  <2> QED
    BY <1>1, <1>2, <1>6, <1>8, <2>1, <2>5, <2>6, <2>7, ProcessKeeps
<1> QED
  BY <1>5, <1>7, <1>8

\* It executes its program.
LEMMA ExecCgiKeeps ==
    ASSUME IInv, NEW k \in Proc, ExecCgi(k) PROVE IInv'
<1> DEFINE c == proc[k].cur
           b == proc[k].boss
           held == [d \in Clients |-> IF d = c \/ proc[k].sess[d] = "none" THEN "none" ELSE "held"]
           P == [proc[k] EXCEPT !.st = "cgi", !.sess = held]
<1>1. proc[k].st = "exec" /\ proc[k].sess[c] = "match" /\ page' = page /\ client' = client
      /\ UNCHANGED <<offers, queued, taken>>
  BY DEF ExecCgi, Executes, outside
<1>2. /\ c \in Clients /\ ~Server(k) /\ k # Main /\ proc[k].stray = FALSE
      /\ proc[k] \in ProcRecord /\ proc[k].sess \in [Clients -> Session]
      /\ b \in Proc /\ Server(b) /\ ServerOk(k) /\ ChildOk(k) /\ proc \in [Proc -> ProcRecord]
      /\ page \in [Clients -> SUBSET Item]
  BY <1>1, ChildFacts
<1>3. proc' = [proc EXCEPT ![k] = P]
  BY <1>2 DEF ExecCgi
<1>4. /\ P \in ProcRecord /\ P.cur = c /\ P.boss = b /\ P.out = proc[k].out /\ P.st = "cgi"
      /\ P.sess = held /\ P.stray = FALSE /\ P.env = proc[k].env
  BY <1>2 DEF ProcRecord, Session
<1>5. /\ proc'[k] = P /\ request' = request
      /\ \A j \in Proc : j # k => proc'[j] = proc[j]
  BY <1>1, <1>2, <1>3 DEF offers
<1>6. \A d \in Clients : proc[k].sess[d] = "none" => P.sess[d] = "none"
  BY <1>4
<1> HIDE DEF P
<1>7. ServerOk(k)'
  BY <1>2, <1>4, <1>5 DEF ServerOk
<1>8. ChildOk(k)'
  <2>1. Server(b)' /\ proc[k].out = c /\ (b = Main => proc[k].env = Own(c))
    BY <1>1, <1>2, <1>4, <1>5 DEF Server, ChildOk
  <2> QED
    BY <1>2, <1>4, <1>5, <2>1 DEF ChildOk, Own
<1>9. PagesRight
  BY <1>1, <1>2 DEF PagesRight, IInv, TypeOK
<1>10. P.st # "loop" /\ P.st # "none" /\ P.st # "dead"
  BY <1>4
<1> QED
  BY <1>1, <1>2, <1>3, <1>4, <1>6, <1>7, <1>8, <1>9, <1>10, ProcessKeeps

\* A process writes to its own client and goes on, or is killed by that.
LEMMA OwnWrite ==
    ASSUME IInv, NEW k \in Proc, NEW what \in {"hello", "cgi"}, proc[k].st \in {"exec", "cgi"},
           \/ Writes({Line(proc[k].out, what, proc[k].cur, k)}, Terminal)
           \/ MayBeKilled(proc[k].out) /\ Writes({}, proc[k].out)
    PROVE  PagesRight
<1> DEFINE c == proc[k].cur
           l == Line(c, what, c, k)
<1>1. c \in Clients /\ proc[k].out = c
  BY ChildFacts DEF ChildOk
<1>2. /\ l \in (Clients \cup {Terminal}) \X Item
      /\ \A d \in Clients, i \in Item : <<d, i>> = l => LineRight(d, i)
  BY <1>1, OwnLine
<1>3. Writes({l}, Terminal) \/ (MayBeKilled(c) /\ Writes({}, c))
  BY <1>1
<1> HIDE DEF l
<1>4. CASE Writes({l}, Terminal)
  BY <1>2, <1>4, WritesRight
<1>5. CASE MayBeKilled(c) /\ Writes({}, c)
  BY <1>1, <1>5, WritesRight
<1> QED
  BY <1>3, <1>4, <1>5

\* There is no program: a stray, with its own client as output, and no session of it.
LEMMA ExecFailsKeeps ==
    ASSUME IInv, NEW k \in Proc, ExecFails(k) PROVE IInv'
<1> DEFINE c == proc[k].cur
           b == proc[k].boss
           P == [proc[k] EXCEPT !.st = "loop", !.stray = TRUE,
                                !.sess = [@ EXCEPT ![c] = "none"]]
<1>1. proc[k].st = "exec" /\ UNCHANGED <<offers, queued, taken>>
  BY DEF ExecFails
<1>2. /\ c \in Clients /\ ~Server(k) /\ k # Main /\ proc[k].stray = FALSE
      /\ proc[k] \in ProcRecord /\ proc[k].sess \in [Clients -> Session]
      /\ b \in Proc /\ Server(b) /\ ServerOk(k) /\ ChildOk(k) /\ proc \in [Proc -> ProcRecord]
      /\ page \in [Clients -> SUBSET Item]
  BY <1>1, ChildFacts
<1>3. PagesRight
  BY <1>1, OwnWrite DEF ExecFails
<1>4. CASE Dies(k)
  BY <1>1, <1>2, <1>3, <1>4, DiesKeeps
<1>5. ASSUME proc' = [proc EXCEPT ![k].st = "loop", ![k].stray = TRUE,
                                  ![k].sess[proc[k].cur] = "none"]
      PROVE  IInv'
  <2>1. proc' = [proc EXCEPT ![k] = P]
    BY <1>2, <1>5
  <2>2. /\ P \in ProcRecord /\ P.cur = c /\ P.boss = b /\ P.out = c /\ P.st = "loop"
        /\ P.stray = TRUE /\ P.sess[c] = "none"
        /\ \A d \in Clients : proc[k].sess[d] = "none" => P.sess[d] = "none"
    BY <1>1, <1>2 DEF ProcRecord, Session, ChildOk
  <2>3. proc'[k] = P
    BY <1>2, <2>1
  <2> HIDE DEF P
  <2>4. ServerOk(k)' /\ ChildOk(k)'
    BY <1>2, <2>2, <2>3 DEF ServerOk, ChildOk, Server
  <2>5. P.st # "none" /\ P.st # "dead" /\ \A d \in Clients : P.out = d => P.sess[d] = "none"
    BY <2>2
  <2> QED
    BY <1>1, <1>2, <1>3, <2>1, <2>2, <2>4, <2>5, ProcessKeeps
<1> QED
  BY <1>4, <1>5 DEF ExecFails

\* The program writes its page and ends.
LEMMA CgiKeeps ==
    ASSUME IInv, NEW k \in Proc, CgiRuns(k) PROVE IInv'
<1> DEFINE P == [proc[k] EXCEPT !.st = "dead"]
<1>1. /\ proc[k].st = "cgi" /\ proc' = [proc EXCEPT ![k] = P]
      /\ Writes({Line(proc[k].out, "cgi", proc[k].cur, k)}, Terminal)
      /\ UNCHANGED <<offers, queued, taken>>
  BY DEF CgiRuns
<1>2. /\ ~Server(k) /\ k # Main /\ proc[k].stray = FALSE
      /\ proc[k] \in ProcRecord /\ ServerOk(k) /\ proc \in [Proc -> ProcRecord]
  BY <1>1, ChildFacts
<1>3. /\ P \in ProcRecord /\ P.cur = proc[k].cur /\ P.boss = proc[k].boss
      /\ P.sess = proc[k].sess /\ P.stray = FALSE /\ P.st = "dead"
  BY <1>2 DEF ProcRecord
<1>4. proc'[k] = P
  BY <1>1, <1>2
<1>5. PagesRight
  BY <1>1, OwnWrite
<1> HIDE DEF P
<1>6. ServerOk(k)' /\ ChildOk(k)' /\ ~Server(k)'
  BY <1>2, <1>3, <1>4 DEF ServerOk, ChildOk, Server
<1>7. /\ P.st # "loop" /\ P.st # "none"
      /\ \A d \in Clients : proc[k].sess[d] = "none" => P.sess[d] = "none"
  BY <1>3
<1> QED
  BY <1>1, <1>2, <1>3, <1>5, <1>6, <1>7, ProcessKeeps
-----------------------------------------------------------------------------
(* The theorems.                                                           *)

\* The first process, alone and in run().
LEMMA InitIInv == Init => IInv
<1> SUFFICES ASSUME Init PROVE IInv
  OBVIOUS
<1>1. /\ request \in Asked /\ client = [c \in Clients |-> "away"] /\ queued = {}
      /\ sent = [c \in Clients |-> 0] /\ taken = [c \in Clients |-> 0]
      /\ proc = [p \in Proc |-> IF p = Main THEN [Nobody EXCEPT !.st = "loop"] ELSE Nobody]
      /\ page = [c \in Clients |-> {}]
  BY DEF Init
<1>2. \A p \in Proc :
         /\ proc[p].st = IF p = Main THEN "loop" ELSE "none"
         /\ proc[p].out = Terminal /\ proc[p].env = NoQuery /\ proc[p].cur = 0
         /\ proc[p].stray = FALSE /\ \A c \in Clients : proc[p].sess[c] = "none"
         /\ proc[p] \in ProcRecord
  BY <1>1, Numbers DEF Nobody, NoSession, ProcRecord, Session
<1>3. TypeOK
  <2>1. proc \in [Proc -> ProcRecord]
    BY <1>1, <1>2
  <2>2. /\ client \in [Clients -> Phase]
        /\ page \in [Clients -> SUBSET Item]
    BY <1>1 DEF Phase
  <2>3. sent \in [Clients -> 0 .. Pieces] /\ taken \in [Clients -> 0 .. Pieces]
    BY <1>1 DEF Pieces
  <2> QED
    BY <1>1, <2>1, <2>2, <2>3 DEF TypeOK
<1>4. ServersInv /\ ChildrenInv
  BY <1>2 DEF ServersInv, ServerOk, Server, ChildrenInv, ChildOk
<1>5. AwayInv /\ HeadsInv /\ OnceInv /\ ToldInv /\ OwnAnswer
  BY <1>1, <1>2, Numbers DEF AwayInv, HeadsInv, OnceInv, ToldInv, OwnAnswer
<1>6. ServersStay
  BY <1>2 DEF ServersStay
<1> QED
  BY <1>3, <1>4, <1>5, <1>6 DEF IInv

\* Every step keeps it.
LEMMA NextIInv == IInv /\ [Next]_vars => IInv'
<1> SUFFICES ASSUME IInv, [Next]_vars PROVE IInv'
  OBVIOUS
<1>1. CASE UNCHANGED vars
  <2>1. /\ request' = request /\ client' = client /\ queued' = queued /\ sent' = sent
        /\ taken' = taken /\ proc' = proc /\ page' = page
    BY <1>1 DEF vars
  <2>2. TypeOK'
    BY <2>1 DEF IInv, TypeOK
  <2>3. ServersInv' /\ ChildrenInv'
    BY <2>1 DEF IInv, ServersInv, ServerOk, Server, ChildrenInv, ChildOk, Own
  <2>4. AwayInv' /\ HeadsInv' /\ ToldInv' /\ OwnAnswer' /\ ServersStay'
    BY <2>1 DEF IInv, AwayInv, HeadsInv, ToldInv, OwnAnswer, Strays, ServersStay, BrokenByCopy,
       Gone
  <2>5. OnceInv'
    BY <2>1 DEF IInv, OnceInv, OwnStrays
  <2> QED
    BY <2>2, <2>3, <2>4, <2>5 DEF IInv
<1>2. ASSUME NEW c \in Clients, Connect(c) \/ Send(c) \/ Leave(c) \/ Break(c) PROVE IInv'
  BY <1>2, ClientKeeps
<1>3. ASSUME NEW p \in Proc, Runs(p) PROVE IInv'
  BY <1>3, AcceptKeeps, AcceptedKeeps, ReadKeeps, HandleKeeps, PrepareKeeps, ExecCgiKeeps,
     ExecFailsKeeps, CgiKeeps DEF Runs
<1> QED
  BY <1>1, <1>2, <1>3 DEF Next

\* The inductive invariant holds in every state of http_server, for every number of
\* clients and processes, whatever the clients ask for and whenever they leave.
THEOREM Invariance == Spec => []IInv
BY InitIInv, NextIInv, PTL DEF Spec

\* The variables keep their types, and no server has a connection of the backlog.
THEOREM TypeCorrect == Spec => []TypeOK
<1>1. IInv => TypeOK
  BY DEF IInv
<1> QED
  BY <1>1, Invariance, PTL

\* A program that no stray has started finds the query of its request, and none when
\* the request has none, however many queries the server has seen.
THEOREM QueryAlwaysOwn == Spec => []OwnQuery
<1>1. IInv => OwnQuery
  <2> SUFFICES ASSUME IInv, NEW k \in Proc, proc[k].st = "cgi", proc[k].boss \notin Strays
               PROVE  proc[k].env = Own(proc[k].cur)
    BY DEF OwnQuery, Own
  <2>1. ChildOk(k) /\ Server(proc[k].boss) /\ proc[k].boss \in Proc
    BY ChildFacts
  <2>2. proc[k].boss = Main
    BY <2>1 DEF Server, Strays
  <2> QED
    BY <2>1, <2>2 DEF ChildOk
<1> QED
  BY <1>1, Invariance, PTL

\* No client is sent what another one's request gave, and none is answered by two
\* processes, but through the strays that requests without a program have added.
THEOREM PagesAlwaysApart == Spec => []PagesApart
<1>1. IInv => PagesApart
  <2> SUFFICES ASSUME IInv, NEW c \in Clients, ~\E p \in Strays : proc[p].out # c
               PROVE  ~(Cardinality(Answers(c)) > 1)
    BY DEF PagesApart, AnsweredOnce, IInv
  <2>1. OwnStrays(c)
    BY DEF OwnStrays, Strays
  <2>2. \A i \in Answers(c) : /\ i \in Item /\ i.what = "head" /\ i.req = c
                              /\ i.by \in Proc /\ proc[i.by].cur = c
    BY DEF Answers, IInv, HeadsInv, TypeOK, Item
  <2>3. \A i, j \in Answers(c) : i = j
    <3> SUFFICES ASSUME NEW i \in Answers(c), NEW j \in Answers(c) PROVE i = j
      OBVIOUS
    <3>1. i.by = j.by
      BY <2>1, <2>2 DEF IInv, OnceInv
    <3> QED
      BY <2>2, <3>1 DEF Item
  <2>4. CASE Answers(c) = {}
    BY <2>4, FS_EmptySet
  <2>5. CASE Answers(c) # {}
    <3>1. PICK i : i \in Answers(c)
      BY <2>5
    <3>2. Answers(c) = {i}
      BY <2>3, <3>1
    <3>3. Cardinality({i}) = 1
      BY FS_Singleton
    <3> QED
      BY <3>2, <3>3
  <2> QED
    BY <2>4, <2>5
<1> QED
  BY <1>1, Invariance, PTL

\* A client ends a server only by a reset between the read of its request and the
\* handler, or, when it merely closed, where a stray of another request had copied its
\* session and one copy was answered before the other; a stray may besides be killed when
\* its own client has gone.
THEOREM ServersAlwaysStay == Spec => []ServersStay
<1>1. IInv => ServersStay
  BY DEF IInv
<1> QED
  BY <1>1, Invariance, PTL

-----------------------------------------------------------------------------
(* The console.                                                            *)

\* Only the SOCKS server writes zeros.
CleanInv == version # "socks" => \A i \in 1 .. Len(down) : down[i] # Zero

\* Behind the longest read _data is as it was at the start, or filled with zeros.
KeptInv == ~shrunk => \A i \in 1 .. Size : i > longest => data[i] \in {Zero, Text}

ConsoleInv == ConsoleTypeOK /\ CleanInv /\ KeptInv /\ PacedByPrompts /\ ShownAsReceived

\* What a page may hold.
Mark == {"cmd", Beyond}
OnScreen == Cell \cup Mark

\* A set of places has a first one.
LEMMA Smallest ==
    ASSUME NEW M, M \subseteq Nat, M # {}
    PROVE  \E i \in M : \A j \in M : i <= j
<1> DEFINE Less == OpToRel(<, Nat)
<1>1. IsWellFoundedOn(Less, Nat)
  BY NatLessThanWellFounded
<1>2. \A x, y \in Nat : x < y => <<x, y>> \in Less
  BY DEF OpToRel
<1> HIDE DEF Less
<1>3. PICK x \in M : \A y \in M : ~ (<<y, x>> \in Less)
  BY <1>1, WFMin
<1>4. ASSUME NEW y \in M PROVE x <= y
  <2>1. x \in Nat /\ y \in Nat
    OBVIOUS
  <2>2. ~(y < x)
    BY <1>2, <1>3, <2>1
  <2> QED
    BY <2>1, <2>2
<1> QED
  BY <1>4

\* A read takes the front of what there is.
LEMMA ReadTakes ==
    ASSUME NEW S, NEW q \in Seq(S), NEW n \in 1 .. Len(q)
    PROVE  /\ SubSeq(q, 1, n) \in Seq(S) /\ Len(SubSeq(q, 1, n)) = n
           /\ \A i \in 1 .. n : SubSeq(q, 1, n)[i] = q[i]
           /\ SubSeq(q, n + 1, Len(q)) \in Seq(S)
           /\ \A i \in 1 .. Len(SubSeq(q, n + 1, Len(q))) :
                 n + i \in 1 .. Len(q) /\ SubSeq(q, n + 1, Len(q))[i] = q[n + i]
<1>1. n \in Nat /\ Len(q) \in Nat /\ n <= Len(q) /\ 1 <= n
  BY LenProperties
<1>2. \A i \in 1 .. Len(q) : q[i] \in S
  BY ElementOfSeq
<1>3. /\ SubSeq(q, 1, n) \in Seq(S) /\ Len(SubSeq(q, 1, n)) = IF 1 <= n THEN n - 1 + 1 ELSE 0
      /\ \A i \in 1 .. n - 1 + 1 : SubSeq(q, 1, n)[i] = q[1 + i - 1]
  <2>1. \A i \in 1 .. n : q[i] \in S
    BY <1>1, <1>2
  <2> QED
    BY <1>1, <2>1, SubSeqProperties
<1> DEFINE m == n + 1
           k == Len(q)
<1>4. m \in Int /\ k \in Int /\ \A i \in m .. k : q[i] \in S
  BY <1>1, <1>2
<1>5. /\ SubSeq(q, m, k) \in Seq(S) /\ Len(SubSeq(q, m, k)) = IF m <= k THEN k - m + 1 ELSE 0
      /\ \A i \in 1 .. k - m + 1 : SubSeq(q, m, k)[i] = q[m + i - 1]
  <2> HIDE DEF m, k
  <2> QED
    BY <1>4, SubSeqProperties
<1>6. \A i \in 1 .. Len(SubSeq(q, m, k)) : n + i \in 1 .. k /\ SubSeq(q, m, k)[i] = q[n + i]
  <2> TAKE i \in 1 .. Len(SubSeq(q, m, k))
  <2>1. m <= k /\ i \in 1 .. k - m + 1
    BY <1>1, <1>5
  <2>2. n + i \in 1 .. k /\ m + i - 1 = n + i
    BY <1>1, <2>1
  <2> QED
    BY <1>5, <2>1, <2>2
<1> QED
  BY <1>1, <1>3, <1>5, <1>6

\* What a read leaves of an array.
LEMMA OverProperties ==
    ASSUME NEW d \in [1 .. Size -> Cell], NEW came \in Seq(Cell), Len(came) <= Size
    PROVE  /\ Over(d, came) \in [1 .. Size -> Cell]
           /\ \A i \in 1 .. Size : Over(d, came)[i] = IF i <= Len(came) THEN came[i] ELSE d[i]
<1>1. Size \in Nat /\ Len(came) \in Nat
  BY ConsoleAssumption, LenProperties
<1> DEFINE n == Len(came)
           rest == SubSeq(d, n + 1, Size)
<1>2. /\ rest \in Seq(Cell) /\ Len(rest) = Size - n
      /\ \A i \in 1 .. Size - n : rest[i] = d[n + i]
  <2> DEFINE m == n + 1
  <2>1. m \in Int /\ Size \in Int /\ \A i \in m .. Size : d[i] \in Cell
    BY <1>1
  <2>2. /\ SubSeq(d, m, Size) \in Seq(Cell)
        /\ Len(SubSeq(d, m, Size)) = IF m <= Size THEN Size - m + 1 ELSE 0
        /\ \A i \in 1 .. Size - m + 1 : SubSeq(d, m, Size)[i] = d[m + i - 1]
    <3> HIDE DEF m
    <3> QED
      BY <2>1, SubSeqProperties
  <2>3. ASSUME NEW i \in 1 .. Size - n PROVE rest[i] = d[n + i]
    <3>1. i \in 1 .. Size - m + 1 /\ m + i - 1 = n + i
      BY <1>1
    <3> QED
      BY <2>2, <3>1
  <2>4. Len(rest) = Size - n
    BY <1>1, <2>2
  <2> QED
    BY <2>2, <2>3, <2>4
<1> HIDE DEF rest
<1>3. /\ came \o rest \in Seq(Cell) /\ Len(came \o rest) = n + Len(rest)
      /\ \A i \in 1 .. n + Len(rest) : (came \o rest)[i] = IF i <= n THEN came[i] ELSE rest[i - n]
  BY <1>2, ConcatProperties
<1>4. n + Len(rest) = Size
  BY <1>1, <1>2
<1>5. ASSUME NEW i \in 1 .. Size, ~(i <= n) PROVE rest[i - n] = d[i]
  <2>1. i - n \in 1 .. Size - n /\ n + (i - n) = i
    BY <1>1, <1>5
  <2> QED
    BY <1>2, <2>1
<1>6. came \o rest \in [1 .. Size -> Cell]
  BY <1>3, <1>4, LenProperties
<1> QED
  BY <1>3, <1>4, <1>5, <1>6 DEF Over, rest

\* A string is the array up to a zero, or all of it and what lies behind.
LEMMA CStringProperties ==
    ASSUME NEW d \in [1 .. Size -> Cell]
    PROVE  /\ CString(d) \in Seq(Cell \cup {Beyond})
           /\ \A i \in 1 .. Len(CString(d)) :
                 (i \in 1 .. Size /\ CString(d)[i] = d[i]) \/ CString(d)[i] = Beyond
           /\ \A n \in 0 .. Size :
                 (\A i \in 1 .. n : d[i] # Zero) /\ (n < Size => d[n + 1] = Zero) =>
                     /\ Len(CString(d)) >= n /\ \A i \in 1 .. n : CString(d)[i] = d[i]
                     /\ \A i \in 1 .. Len(CString(d)) : i > n => CString(d)[i] = Beyond
<1>1. Size \in Nat /\ Size >= 1 /\ DOMAIN d = 1 .. Size
  BY ConsoleAssumption
<1>2. d \in Seq(Cell) /\ Len(d) = Size /\ d \in Seq(Cell \cup {Beyond})
  BY <1>1
<1>3. CASE \A i \in 1 .. Size : d[i] # Zero
  <2>1. CString(d) = Append(d, Beyond)
    BY <1>1, <1>3 DEF CString
  <2>2. /\ Append(d, Beyond) \in Seq(Cell \cup {Beyond}) /\ Len(Append(d, Beyond)) = Size + 1
        /\ \A i \in 1 .. Size : Append(d, Beyond)[i] = d[i]
        /\ Append(d, Beyond)[Size + 1] = Beyond
    BY <1>2, AppendProperties
  <2>3. ASSUME NEW n \in 0 .. Size, n < Size => d[n + 1] = Zero
        PROVE  n = Size
    BY <1>1, <1>3, <2>3
  <2> HIDE DEF Beyond
  <2>4. \A i \in 1 .. Size + 1 : i \in 1 .. Size \/ i = Size + 1
    BY <1>1
  <2>5. \A i \in 1 .. Size + 1 : i > Size => i = Size + 1
    BY <1>1
  <2> QED
    BY <1>1, <2>1, <2>2, <2>3, <2>4, <2>5
<1>4. CASE \E i \in 1 .. Size : d[i] = Zero
  <2> DEFINE first(i) == i \in DOMAIN d /\ d[i] = Zero /\ \A j \in 1 .. i - 1 : d[j] # Zero
             z == CHOOSE i \in DOMAIN d : d[i] = Zero /\ \A j \in 1 .. i - 1 : d[j] # Zero
  <2>1. \E i \in DOMAIN d : d[i] = Zero /\ \A j \in 1 .. i - 1 : d[j] # Zero
    <3> DEFINE zs == {i \in 1 .. Size : d[i] = Zero}
    <3>1. zs \subseteq Nat /\ zs # {}
      BY <1>1, <1>4
    <3>2. PICK i \in zs : \A j \in zs : i <= j
      BY <3>1, Smallest
    <3>3. \A j \in 1 .. i - 1 : j \in 1 .. Size /\ ~(i <= j)
      BY <1>1, <3>2
    <3> QED
      BY <1>1, <3>2, <3>3
  <2>2. z \in 1 .. Size /\ d[z] = Zero /\ \A j \in 1 .. z - 1 : d[j] # Zero
    BY <1>1, <2>1
  <2>3. CString(d) = SubSeq(d, 1, z - 1)
    BY <1>1, <1>4 DEF CString
  <2> HIDE DEF z
  <2> DEFINE k == z - 1
  <2>4. /\ SubSeq(d, 1, k) \in Seq(Cell \cup {Beyond}) /\ Len(SubSeq(d, 1, k)) = k
        /\ \A i \in 1 .. k : SubSeq(d, 1, k)[i] = d[i]
    <3>1. k \in Nat /\ \A i \in 1 .. k : d[i] \in Cell \cup {Beyond}
      BY <1>1, <2>2
    <3> HIDE DEF k
    <3>2. /\ SubSeq(d, 1, k) \in Seq(Cell \cup {Beyond})
          /\ Len(SubSeq(d, 1, k)) = IF 1 <= k THEN k - 1 + 1 ELSE 0
          /\ \A i \in 1 .. k - 1 + 1 : SubSeq(d, 1, k)[i] = d[1 + i - 1]
      BY <3>1, SubSeqProperties
    <3> QED
      BY <3>1, <3>2
  <2>5. \A i \in 1 .. k : i \in 1 .. Size
    BY <1>1, <2>2
  <2>6. ASSUME NEW n \in 0 .. Size, \A i \in 1 .. n : d[i] # Zero, n < Size => d[n + 1] = Zero
        PROVE  n = k
    <3>1. ~(n >= z)
      BY <1>1, <2>2, <2>6
    <3>2. ~(n + 1 < z)
      <4> SUFFICES ASSUME n + 1 < z PROVE FALSE
        OBVIOUS
      <4>1. n < Size /\ n + 1 \in 1 .. z - 1
        BY <1>1, <2>2
      <4> QED
        BY <2>2, <2>6, <4>1
    <3> QED
      BY <1>1, <2>2, <3>1, <3>2
  <2>7. k \in Nat /\ \A i \in 1 .. k : ~(i > k)
    BY <1>1, <2>2
  <2> HIDE DEF k
  <2>8. CString(d) = SubSeq(d, 1, k)
    BY <2>3 DEF k
  <2> QED
    BY <2>4, <2>5, <2>6, <2>7, <2>8
<1> QED
  BY <1>3, <1>4

\* What the three programs make of a read.
LEMMA ReadProperties ==
    ASSUME version \in Version, data \in [1 .. Size -> Cell],
           NEW came \in Seq(Cell), Len(came) <= Size
    PROVE  /\ Read(came).data \in [1 .. Size -> Cell]
           /\ \A i \in 1 .. Size : i > Len(came) => Read(came).data[i] \in {Zero, data[i]}
           /\ Read(came).buf \in Seq(Cell \cup {Beyond})
           /\ \A i \in 1 .. Len(Read(came).buf) :
                 \/ i \in 1 .. Len(came) /\ Read(came).buf[i] = came[i]
                 \/ version = "socks" /\ i \in 1 .. Size /\ i > Len(came) /\ Read(came).buf[i] = data[i]
                 \/ Read(came).buf[i] \in {Zero, Beyond}
           /\ version # "socks" /\ (\A i \in 1 .. Len(came) : came[i] # Zero) =>
                 /\ Len(Read(came).buf) >= Len(came)
                 /\ \A i \in 1 .. Len(came) : Read(came).buf[i] = came[i]
                 /\ \A i \in 1 .. Len(Read(came).buf) : i > Len(came) => Read(came).buf[i] = Beyond
<1> DEFINE n == Len(came)
<1>1. Size \in Nat /\ n \in Nat /\ n <= Size
  BY ConsoleAssumption, LenProperties
<1>2. Zeros \in [1 .. Size -> Cell] /\ \A i \in 1 .. Size : Zeros[i] = Zero
  BY DEF Zeros, Cell
<1>3. CASE version = "console"
  <2> DEFINE d == Over(Zeros, came)
  <2>1. Read(came) = [data |-> d, buf |-> CString(d)]
    BY <1>3 DEF Read, ReadCleared
  <2>2. d \in [1 .. Size -> Cell] /\ \A i \in 1 .. Size : d[i] = IF i <= n THEN came[i] ELSE Zero
    <3>1. /\ d \in [1 .. Size -> Cell]
          /\ \A i \in 1 .. Size : d[i] = IF i <= n THEN came[i] ELSE Zeros[i]
      BY <1>1, <1>2, OverProperties
    <3> QED
      BY <1>2, <3>1
  <2> HIDE DEF d
  <2>3. Read(came).data = d /\ Read(came).buf = CString(d)
    BY <2>1
  <2>4. /\ CString(d) \in Seq(Cell \cup {Beyond})
        /\ \A i \in 1 .. Len(CString(d)) :
              (i \in 1 .. Size /\ CString(d)[i] = d[i]) \/ CString(d)[i] = Beyond
    BY <2>2, CStringProperties
  <2>5. \A i \in 1 .. Size : i > n => d[i] = Zero
    BY <1>1, <2>2
  <2>6. \A i \in 1 .. n : i \in 1 .. Size /\ d[i] = came[i]
    BY <1>1, <2>2
  <2>7. n < Size => d[n + 1] = Zero
    <3>1. n < Size => n + 1 \in 1 .. Size /\ n + 1 > n
      BY <1>1
    <3> QED
      BY <2>5, <3>1
  <2>8. ASSUME NEW i \in 1 .. Len(CString(d))
        PROVE  \/ i \in 1 .. n /\ CString(d)[i] = came[i]
               \/ CString(d)[i] \in {Zero, Beyond}
    <3>1. i \in 1 .. Size => i \in 1 .. n \/ i > n
      BY <1>1
    <3> QED
      BY <2>4, <2>5, <2>6, <3>1
  <2>9. (\A i \in 1 .. n : came[i] # Zero) =>
            /\ Len(CString(d)) >= n /\ \A i \in 1 .. n : CString(d)[i] = came[i]
            /\ \A i \in 1 .. Len(CString(d)) : i > n => CString(d)[i] = Beyond
    <3> SUFFICES ASSUME \A i \in 1 .. n : came[i] # Zero
                 PROVE  /\ Len(CString(d)) >= n /\ \A i \in 1 .. n : CString(d)[i] = came[i]
                        /\ \A i \in 1 .. Len(CString(d)) : i > n => CString(d)[i] = Beyond
      OBVIOUS
    <3>1. n \in 0 .. Size /\ \A i \in 1 .. n : d[i] # Zero
      BY <1>1, <2>6
    <3>2. /\ Len(CString(d)) >= n /\ \A i \in 1 .. n : CString(d)[i] = d[i]
          /\ \A i \in 1 .. Len(CString(d)) : i > n => CString(d)[i] = Beyond
      BY <2>2, <2>7, <3>1, CStringProperties
    <3> QED
      BY <2>6, <3>2
  <2> QED
    BY <2>2, <2>3, <2>4, <2>5, <2>8, <2>9
<1>4. CASE version = "socks"
  <2> DEFINE d == Over(data, came)
  <2>1. Read(came) = [data |-> d, buf |-> CString(d)]
    BY <1>4 DEF Read, ReadKept
  <2>2. d \in [1 .. Size -> Cell] /\ \A i \in 1 .. Size : d[i] = IF i <= n THEN came[i] ELSE data[i]
    BY <1>1, OverProperties
  <2> HIDE DEF d
  <2>3. Read(came).data = d /\ Read(came).buf = CString(d)
    BY <2>1
  <2>4. /\ CString(d) \in Seq(Cell \cup {Beyond})
        /\ \A i \in 1 .. Len(CString(d)) :
              (i \in 1 .. Size /\ CString(d)[i] = d[i]) \/ CString(d)[i] = Beyond
    BY <2>2, CStringProperties
  <2>5. \A i \in 1 .. Size : i > n => d[i] = data[i]
    BY <1>1, <2>2
  <2>6. \A i \in 1 .. n : i \in 1 .. Size /\ d[i] = came[i]
    BY <1>1, <2>2
  <2>8. ASSUME NEW i \in 1 .. Len(CString(d))
        PROVE  \/ i \in 1 .. n /\ CString(d)[i] = came[i]
               \/ i \in 1 .. Size /\ i > n /\ CString(d)[i] = data[i]
               \/ CString(d)[i] = Beyond
    <3>1. i \in 1 .. Size => i \in 1 .. n \/ i > n
      BY <1>1
    <3> QED
      BY <2>4, <2>5, <2>6, <3>1
  <2> QED
    BY <1>4, <2>2, <2>3, <2>4, <2>5, <2>8
<1>5. CASE version = "cgi"
  <2> DEFINE d == Over(data, came)
  <2>1. Read(came) = [data |-> d, buf |-> came]
    BY <1>5 DEF Read, ReadByLength
  <2>2. d \in [1 .. Size -> Cell] /\ \A i \in 1 .. Size : d[i] = IF i <= n THEN came[i] ELSE data[i]
    BY <1>1, OverProperties
  <2> HIDE DEF d
  <2>3. Read(came).data = d /\ Read(came).buf = came
    BY <2>1
  <2>4. came \in Seq(Cell \cup {Beyond}) /\ \A i \in 1 .. n : ~(i > n)
    BY <1>1, SeqMonotonic
  <2>5. \A i \in 1 .. Size : i > n => d[i] = data[i]
    BY <1>1, <2>2
  <2> QED
    BY <1>1, <2>2, <2>3, <2>4, <2>5
<1> QED
  BY <1>3, <1>4, <1>5 DEF Version

\* A prompt that is found came, where _data has kept none.
LEMMA PromptCame ==
    ASSUME version \in Version, data \in [1 .. Size -> Cell],
           NEW came \in Seq(Cell), Len(came) <= Size,
           version = "socks" => \A i \in 1 .. Size : i > Len(came) => data[i] \in {Zero, Text},
           HasPrompt(Read(came).buf)
    PROVE  HasPrompt(came)
<1> DEFINE b == Read(came).buf
<1>1. b \in Seq(Cell \cup {Beyond}) /\ DOMAIN b = 1 .. Len(b) /\ DOMAIN came = 1 .. Len(came)
  BY ReadProperties, LenProperties
<1>2. PICK i \in DOMAIN b : i + 1 \in DOMAIN b /\ <<b[i], b[i + 1]>> = Prompt
  BY DEF HasPrompt, PromptAt
<1>3. b[i] = "%" /\ b[i + 1] = " "
  BY <1>2 DEF Prompt
<1>4. ASSUME NEW j \in 1 .. Len(b), b[j] \in {"%", " "}
      PROVE  j \in 1 .. Len(came) /\ b[j] = came[j]
  <2>1. \/ j \in 1 .. Len(came) /\ b[j] = came[j]
        \/ version = "socks" /\ j \in 1 .. Size /\ j > Len(came) /\ b[j] = data[j]
        \/ b[j] \in {Zero, Beyond}
    BY ReadProperties
  <2> QED
    BY <1>4, <2>1 DEF Zero, Text, Beyond
<1>5. i \in DOMAIN came /\ i + 1 \in DOMAIN came /\ <<came[i], came[i + 1]>> = Prompt
  BY <1>1, <1>2, <1>3, <1>4 DEF Prompt
<1> QED
  BY <1>5 DEF HasPrompt, PromptAt

\* More that was received has no fewer prompts, and one more if it has a prompt.
LEMMA PromptsGrow ==
    ASSUME NEW s \in Seq(Cell), NEW came \in Seq(Cell)
    PROVE  /\ NumPrompts(s) \in Nat /\ NumPrompts(s \o came) \in Nat
           /\ NumPrompts(s) <= NumPrompts(s \o came)
           /\ HasPrompt(came) => NumPrompts(s) + 1 <= NumPrompts(s \o came)
<1> DEFINE P(q) == {i \in DOMAIN q : PromptAt(q, i)}
           t == s \o came
           n == Len(s)
<1>1. /\ t \in Seq(Cell) /\ n \in Nat /\ Len(came) \in Nat /\ Len(t) = n + Len(came)
      /\ \A i \in 1 .. n + Len(came) : t[i] = IF i <= n THEN s[i] ELSE came[i - n]
      /\ DOMAIN s = 1 .. n /\ DOMAIN came = 1 .. Len(came) /\ DOMAIN t = 1 .. n + Len(came)
  BY ConcatProperties, LenProperties
<1> HIDE DEF t
<1>2. IsFiniteSet(P(s)) /\ IsFiniteSet(P(t))
  <2>1. IsFiniteSet(1 .. n) /\ IsFiniteSet(1 .. n + Len(came))
    BY <1>1, FS_Interval
  <2>2. P(s) \in SUBSET (1 .. n) /\ P(t) \in SUBSET (1 .. n + Len(came))
    BY <1>1
  <2> QED
    BY <2>1, <2>2, FS_Subset
<1>3. P(s) \subseteq P(t)
  <2> SUFFICES ASSUME NEW i \in P(s) PROVE i \in P(t)
    OBVIOUS
  <2>1. i \in 1 .. n /\ i + 1 \in 1 .. n /\ <<s[i], s[i + 1]>> = Prompt
    BY <1>1 DEF PromptAt
  <2>2. i \in 1 .. n + Len(came) /\ i + 1 \in 1 .. n + Len(came) /\ i <= n /\ i + 1 <= n
    BY <1>1, <2>1
  <2>3. t[i] = s[i] /\ t[i + 1] = s[i + 1]
    BY <1>1, <2>2
  <2> QED
    BY <1>1, <2>1, <2>2, <2>3 DEF PromptAt
<1>4. ASSUME NEW i \in DOMAIN came, PromptAt(came, i)
      PROVE  n + i \in P(t) \ P(s)
  <2>1. i \in 1 .. Len(came) /\ i + 1 \in 1 .. Len(came) /\ <<came[i], came[i + 1]>> = Prompt
    BY <1>1, <1>4 DEF PromptAt
  <2> DEFINE k == n + i
  <2>2. /\ k \in 1 .. n + Len(came) /\ k + 1 \in 1 .. n + Len(came)
        /\ ~(k <= n) /\ ~(k + 1 <= n) /\ k - n = i /\ (k + 1) - n = i + 1 /\ k \notin 1 .. n
    BY <1>1, <2>1
  <2>3. t[k] = came[i] /\ t[k + 1] = came[i + 1]
    <3> HIDE DEF k
    <3>1. t[k] = came[k - n] /\ t[k + 1] = came[(k + 1) - n]
      BY <1>1, <2>2
    <3> QED
      BY <2>2, <3>1
  <2> HIDE DEF k
  <2>4. k \in P(t) /\ k \notin P(s)
    BY <1>1, <2>1, <2>2, <2>3 DEF PromptAt
  <2> QED
    BY <2>4 DEF k
<1>5. Cardinality(P(s)) \in Nat /\ Cardinality(P(t)) \in Nat /\ Cardinality(P(s)) <= Cardinality(P(t))
  BY <1>2, <1>3, FS_CardinalityType, FS_Subset
<1>6. ASSUME HasPrompt(came) PROVE Cardinality(P(s)) + 1 <= Cardinality(P(t))
  <2>1. PICK i \in DOMAIN came : PromptAt(came, i)
    BY <1>6 DEF HasPrompt
  <2>2. PICK k : k \in P(t) \ P(s)
    BY <1>4, <2>1
  <2> HIDE DEF P
  <2>3. Cardinality(P(s)) # Cardinality(P(t))
    BY <1>2, <1>3, <2>2, FS_Subset
  <2> QED
    BY <1>5, <2>3
<1> QED
  BY <1>5, <1>6 DEF NumPrompts, t

\* A page as a sequence of its own: what is on it that is no mark, and that this is
\* what was received.
Placed(shown) == {i \in DOMAIN shown : shown[i] \notin Mark}
InOrder(shown, q) ==
    /\ Cardinality(Placed(shown)) = Len(q)
    /\ \A i \in Placed(shown) : shown[i] = q[Cardinality(Placed(shown) \cap 1 .. i)]

\* What came is put on the page, and marks behind it.
Shows(add, came) ==
    /\ Len(add) >= Len(came)
    /\ \A i \in 1 .. Len(came) : add[i] = came[i]
    /\ \A i \in 1 .. Len(add) : i > Len(came) => add[i] \in Mark

LEMMA PageGrows ==
    ASSUME NEW shown \in Seq(OnScreen), NEW q \in Seq(Cell), InOrder(shown, q),
           NEW add \in Seq(OnScreen), NEW came \in Seq(Cell), Shows(add, came)
    PROVE  InOrder(shown \o add, q \o came)
<1> DEFINE t == shown \o add
           r == q \o came
           m == Len(shown)
           n == Len(came)
           a == Len(add)
           A == Placed(shown)
           B == m + 1 .. m + n
<1>1. /\ m \in Nat /\ n \in Nat /\ a \in Nat /\ n <= a /\ Len(q) \in Nat
      /\ DOMAIN shown = 1 .. m /\ DOMAIN t = 1 .. m + a /\ Len(r) = Len(q) + n
      /\ \A i \in 1 .. m + a : t[i] = IF i <= m THEN shown[i] ELSE add[i - m]
      /\ \A i \in 1 .. Len(q) + n : r[i] = IF i <= Len(q) THEN q[i] ELSE came[i - Len(q)]
  <2>1. t \in Seq(OnScreen) /\ Len(t) = m + a
        /\ \A i \in 1 .. m + a : t[i] = IF i <= m THEN shown[i] ELSE add[i - m]
    BY ConcatProperties
  <2>2. Len(r) = Len(q) + n
        /\ \A i \in 1 .. Len(q) + n : r[i] = IF i <= Len(q) THEN q[i] ELSE came[i - Len(q)]
    BY ConcatProperties
  <2> HIDE DEF t, r
  <2> QED
    BY <2>1, <2>2, LenProperties DEF Shows
<1> HIDE DEF t, r
<1>2. \A i \in 1 .. n : came[i] \in Cell /\ came[i] \notin Mark
  <2> TAKE i \in 1 .. n
  <2>1. came[i] \in Cell
    BY ElementOfSeq
  <2>2. \A c \in Cell : c \notin Mark
    BY DEF Cell, Mark, Zero, Text, Beyond
  <2> QED
    BY <2>1, <2>2
<1>3. ASSUME NEW i \in 1 .. m + a
      PROVE  /\ i \in 1 .. m => t[i] = shown[i]
             /\ i \in B => i - m \in 1 .. n /\ t[i] = came[i - m]
             /\ i \notin 1 .. m /\ i \notin B => t[i] \in Mark
  <2>1. i <= m \/ (i - m \in 1 .. a /\ ~(i <= m))
    BY <1>1
  <2>2. i \in B => i - m \in 1 .. n /\ ~(i <= m) /\ i - m \in 1 .. a
    BY <1>1
  <2>3. i \notin 1 .. m /\ i \notin B => ~(i <= m) /\ i - m \in 1 .. a /\ i - m > n
    BY <1>1
  <2>4. i \in 1 .. m => i <= m
    BY <1>1
  <2>5. i \in B => t[i] = came[i - m]
    <3>1. ~(i <= m) => t[i] = add[i - m]
      BY <1>1
    <3> QED
      BY <2>2, <3>1 DEF Shows
  <2>6. i \notin 1 .. m /\ i \notin B => t[i] \in Mark
    <3>1. ~(i <= m) => t[i] = add[i - m]
      BY <1>1
    <3> QED
      BY <2>3, <3>1 DEF Shows
  <2> QED
    BY <1>1, <2>2, <2>4, <2>5, <2>6
<1>4. Placed(t) = A \cup B
  <2>1. \A i \in 1 .. m : i \in 1 .. m + a
    BY <1>1
  <2>2. \A i \in B : i \in 1 .. m + a
    BY <1>1
  <2> HIDE DEF B
  <2>3. ASSUME NEW i \in 1 .. m + a PROVE i \in Placed(t) <=> i \in A \cup B
    <3>1. i \in B => t[i] \notin Mark
      BY <1>2, <1>3
    <3>2. i \in 1 .. m => (i \in A <=> t[i] \notin Mark)
      BY <1>1, <1>3 DEF Placed
    <3>3. i \notin 1 .. m => i \notin A
      BY <1>1 DEF Placed
    <3> QED
      BY <1>1, <1>3, <3>1, <3>2, <3>3 DEF Placed
  <2>4. A \subseteq 1 .. m /\ Placed(t) \subseteq 1 .. m + a
    BY <1>1 DEF Placed
  <2> QED
    BY <2>1, <2>2, <2>3, <2>4
<1>5. IsFiniteSet(A) /\ A \subseteq 1 .. m /\ Cardinality(A) = Len(q)
  <2>1. A \in SUBSET (1 .. m) /\ IsFiniteSet(1 .. m)
    BY <1>1, FS_Interval DEF Placed
  <2> QED
    BY <2>1, FS_Subset DEF InOrder
<1>6. \A k \in 0 .. n : Cardinality(A \cup m + 1 .. m + k) = Len(q) + k
  <2> TAKE k \in 0 .. n
  <2>1. k \in Nat
    BY <1>1
  <2>2. IsFiniteSet(m + 1 .. m + k) /\ Cardinality(m + 1 .. m + k) = k
    <3> DEFINE x == m + 1
               y == m + k
    <3>1. x \in Int /\ y \in Int /\ (IF x > y THEN 0 ELSE y - x + 1) = k
      BY <1>1, <2>1
    <3> HIDE DEF x, y
    <3>2. IsFiniteSet(x .. y) /\ Cardinality(x .. y) = k
      BY <3>1, FS_Interval
    <3> QED
      BY <3>2 DEF x, y
  <2>3. A \cap m + 1 .. m + k = {}
    BY <1>1, <1>5
  <2>4. Cardinality({}) = 0
    BY FS_EmptySet
  <2> DEFINE K == m + 1 .. m + k
  <2>5. IsFiniteSet(K) /\ Cardinality(K) = k /\ A \cap K = {}
    BY <2>2, <2>3
  <2> HIDE DEF K, A
  <2>6. Cardinality(A \cup K) = Cardinality(A) + Cardinality(K) - Cardinality(A \cap K)
    BY <1>5, <2>5, FS_Union
  <2>7. Cardinality(A \cup K) = Len(q) + k
    <3>1. Cardinality(A) = Len(q) /\ Cardinality(K) = k /\ Cardinality(A \cap K) = 0
      BY <1>5, <2>4, <2>5
    <3>2. Len(q) + k - 0 = Len(q) + k
      BY <1>1, <2>1
    <3> QED
      BY <2>6, <3>1, <3>2
  <2> QED
    BY <2>7 DEF K
<1>7. Cardinality(Placed(t)) = Len(r)
  <2>1. n \in 0 .. n
    BY <1>1
  <2> QED
    BY <1>1, <1>4, <1>6, <2>1
<1>8. ASSUME NEW i \in A PROVE t[i] = r[Cardinality(Placed(t) \cap 1 .. i)]
  <2>1. i \in 1 .. m /\ i \in 1 .. m + a
    BY <1>1, <1>5
  <2>2. Placed(t) \cap 1 .. i = A \cap 1 .. i
    <3>1. B \cap 1 .. i = {}
      BY <1>1, <2>1
    <3> QED
      BY <1>4, <3>1
  <2>3. shown[i] = q[Cardinality(A \cap 1 .. i)]
    BY DEF InOrder
  <2>4. Cardinality(A \cap 1 .. i) \in 1 .. Len(q)
    <3>1. IsFiniteSet(A \cap 1 .. i) /\ Cardinality(A \cap 1 .. i) <= Len(q)
      BY <1>5, FS_Subset
    <3>2. A \cap 1 .. i # {}
      BY <1>1, <2>1
    <3>3. Cardinality(A \cap 1 .. i) \in Nat /\ Cardinality(A \cap 1 .. i) # 0
      BY <3>1, <3>2, FS_CardinalityType, FS_EmptySet
    <3> QED
      BY <1>1, <3>1, <3>3
  <2>5. r[Cardinality(A \cap 1 .. i)] = q[Cardinality(A \cap 1 .. i)]
    <3> DEFINE c == Cardinality(A \cap 1 .. i)
    <3>1. c \in 1 .. Len(q)
      BY <2>4
    <3> HIDE DEF c
    <3>2. c \in 1 .. Len(q) + n /\ c <= Len(q)
      BY <1>1, <3>1
    <3>3. r[c] = q[c]
      BY <1>1, <3>2
    <3> QED
      BY <3>3 DEF c
  <2> QED
    BY <1>3, <2>1, <2>2, <2>3, <2>5
<1>9. ASSUME NEW i \in B PROVE t[i] = r[Cardinality(Placed(t) \cap 1 .. i)]
  <2> DEFINE k == i - m
  <2>1. k \in 1 .. n /\ i = m + k /\ i \in 1 .. m + a
    BY <1>1
  <2>2. Placed(t) \cap 1 .. i = A \cup m + 1 .. m + k
    <3>1. A \subseteq 1 .. i
      BY <1>1, <1>5, <2>1
    <3>2. B \cap 1 .. i = m + 1 .. m + k
      BY <1>1, <2>1
    <3> QED
      BY <1>4, <3>1, <3>2
  <2>3. k \in 0 .. n
    BY <1>1, <2>1
  <2>4. Cardinality(Placed(t) \cap 1 .. i) = Len(q) + k
    BY <1>6, <2>2, <2>3
  <2>5. r[Len(q) + k] = came[k]
    <3> DEFINE c == Len(q) + k
    <3>1. c \in 1 .. Len(q) + n /\ ~(c <= Len(q)) /\ c - Len(q) = k
      BY <1>1, <2>1
    <3> HIDE DEF c
    <3>2. r[c] = came[c - Len(q)]
      BY <1>1, <3>1
    <3>3. r[c] = came[k]
      BY <3>1, <3>2
    <3> QED
      BY <3>3 DEF c
  <2>6. t[i] = came[k]
    BY <1>3, <2>1
  <2> QED
    BY <2>4, <2>5, <2>6
<1>10. \A i \in Placed(t) : t[i] = r[Cardinality(Placed(t) \cap 1 .. i)]
  BY <1>4, <1>8, <1>9
<1>11. InOrder(t, r)
  BY <1>7, <1>10 DEF InOrder
<1> QED
  BY <1>11 DEF t, r

\* A read: what it puts on the page, and what it does to _data and to the prompts.
LEMMA ReceiveKeeps ==
    ASSUME ConsoleInv, NEW n \in 1 .. Size, Receive(n)
    PROVE  ConsoleInv'
<1> DEFINE came == SubSeq(down, 1, n)
           r == Read(came)
           seen == recv \o came
<1>1. /\ version \in Version /\ data \in [1 .. Size -> Cell] /\ down \in Seq(Cell)
      /\ recv \in Seq(Cell) /\ screen \in Seq(OnScreen) /\ Size \in Nat
      /\ longest \in 0 .. Size /\ lines_sent \in Nat
  BY ConsoleAssumption DEF ConsoleInv, ConsoleTypeOK, OnScreen, Mark
<1>2. /\ n \in 1 .. Len(down) /\ n <= Size /\ pending = "read"
      /\ data' = r.data /\ down' = SubSeq(down, n + 1, Len(down)) /\ recv' = seen
      /\ IF HasPrompt(r.buf) THEN do_send_cmd(r.buf)
         ELSE output_to_shell(r.buf) /\ UNCHANGED <<pending, test_file, up, lines_sent>>
      /\ missed' \in BOOLEAN
      /\ longest' = IF n > longest THEN n ELSE longest
      /\ shrunk' = (shrunk \/ n < longest)
      /\ UNCHANGED <<version, shell, texts>>
  BY DEF Receive, ConsoleInv, ConsoleTypeOK
<1>3. /\ came \in Seq(Cell) /\ Len(came) = n /\ \A i \in 1 .. n : came[i] = down[i]
      /\ down' \in Seq(Cell)
      /\ \A i \in 1 .. Len(down') : n + i \in 1 .. Len(down) /\ down'[i] = down[n + i]
  BY <1>1, <1>2, ReadTakes
<1> HIDE DEF came
<1>4. /\ r.data \in [1 .. Size -> Cell] /\ r.buf \in Seq(Cell \cup {Beyond})
      /\ \A i \in 1 .. Size : i > n => r.data[i] \in {Zero, data[i]}
  BY <1>1, <1>2, <1>3, ReadProperties
<1>5. seen \in Seq(Cell)
  BY <1>1, <1>3, ConcatProperties
<1>6. r.buf \in Seq(OnScreen) /\ "cmd" \in OnScreen
  BY <1>4, SeqMonotonic DEF OnScreen, Mark
<1>7. PICK add \in Seq(OnScreen) :
          /\ screen' = screen \o add
          /\ IF HasPrompt(r.buf) THEN add = Append(r.buf, "cmd") ELSE add = r.buf
  <2>1. Append(r.buf, "cmd") \in Seq(OnScreen)
    BY <1>6, AppendProperties
  <2> QED
    BY <1>2, <1>6, <2>1 DEF do_send_cmd, output_to_shell
<1>8. ConsoleTypeOK'
  <2>1. screen' \in Seq(OnScreen)
    BY <1>1, <1>7, ConcatProperties
  <2>2. longest' \in 0 .. Size /\ shrunk' \in BOOLEAN
    BY <1>1, <1>2 DEF ConsoleInv, ConsoleTypeOK
  <2>3. /\ test_file' \in Seq({"cmd", "exit"}) /\ up' \in Seq(Sendable) /\ lines_sent' \in Nat
        /\ pending' \in {"read", "send"}
    <3>1. CASE HasPrompt(r.buf)
      <4>1. RestOf(test_file) \in Seq({"cmd", "exit"}) /\ NextLine \in Sendable
        <5>1. test_file \in Seq({"cmd", "exit"})
          BY DEF ConsoleInv, ConsoleTypeOK
        <5>2. test_file # <<>> => /\ Head(test_file) \in {"cmd", "exit"}
                                  /\ Tail(test_file) \in Seq({"cmd", "exit"})
          BY <5>1, HeadTailProperties
        <5>3. <<>> \in Seq({"cmd", "exit"})
          BY EmptySeq
        <5> QED
          BY <5>2, <5>3 DEF RestOf, NextLine, Sendable
      <4>2. up \in Seq(Sendable)
        BY DEF ConsoleInv, ConsoleTypeOK
      <4>3. Append(up, NextLine) \in Seq(Sendable)
        BY <4>1, <4>2, AppendProperties
      <4>4. do_send_cmd(r.buf)
        BY <1>2, <3>1
      <4>5. /\ test_file' = RestOf(test_file) /\ lines_sent' = lines_sent + 1 /\ pending' = "send"
            /\ up' = IF shell = "gone" THEN up ELSE Append(up, NextLine)
        BY <4>4 DEF do_send_cmd
      <4>6. lines_sent \in Nat
        BY DEF ConsoleInv, ConsoleTypeOK
      <4> HIDE DEF r
      <4> QED
        BY <4>1, <4>2, <4>3, <4>5, <4>6
    <3>2. CASE ~HasPrompt(r.buf)
      <4>1. UNCHANGED <<pending, test_file, up, lines_sent>>
        BY <1>2, <3>2
      <4>2. pending = "read"
        BY DEF Receive
      <4> HIDE DEF r
      <4> QED
        BY <4>1, <4>2 DEF ConsoleInv, ConsoleTypeOK
    <3> QED
      BY <3>1, <3>2
  <2> QED
    BY <1>2, <1>3, <1>4, <1>5, <2>1, <2>2, <2>3 DEF ConsoleInv, ConsoleTypeOK, OnScreen, Mark
<1>9. CleanInv'
  BY <1>2, <1>3 DEF ConsoleInv, CleanInv
<1>10. ~shrunk' => \A i \in 1 .. Size : i > n => data[i] \in {Zero, Text}
  <2> SUFFICES ASSUME ~shrunk', NEW i \in 1 .. Size, i > n PROVE data[i] \in {Zero, Text}
    OBVIOUS
  <2>1. ~shrunk /\ ~(n < longest)
    BY <1>2
  <2>2. i > longest
    BY <1>1, <1>2, <2>1
  <2> QED
    BY <2>1, <2>2 DEF ConsoleInv, KeptInv
<1>11. KeptInv'
  <2> SUFFICES ASSUME ~shrunk', NEW i \in 1 .. Size, i > longest' PROVE r.data[i] \in {Zero, Text}
    BY <1>2 DEF KeptInv
  <2>1. i > n
    BY <1>1, <1>2
  <2> QED
    BY <1>4, <1>10, <2>1
<1>12. PacedByPrompts'
  <2> SUFFICES ASSUME version # "socks" \/ ~shrunk' PROVE lines_sent' <= NumPrompts(seen)
    BY <1>2 DEF PacedByPrompts
  <2>1. lines_sent <= NumPrompts(recv)
    BY <1>2 DEF ConsoleInv, PacedByPrompts
  <2>2. /\ NumPrompts(recv) \in Nat /\ NumPrompts(seen) \in Nat
        /\ NumPrompts(recv) <= NumPrompts(seen)
        /\ HasPrompt(came) => NumPrompts(recv) + 1 <= NumPrompts(seen)
    BY <1>1, <1>3, PromptsGrow
  <2>3. HasPrompt(r.buf) => HasPrompt(came)
    BY <1>1, <1>2, <1>3, <1>10, PromptCame
  <2>4. lines_sent' = IF HasPrompt(r.buf) THEN lines_sent + 1 ELSE lines_sent
    BY <1>2 DEF do_send_cmd
  <2> HIDE DEF seen, r
  <2> QED
    BY <1>1, <2>1, <2>2, <2>3, <2>4
<1>13. ShownAsReceived'
  <2> SUFFICES ASSUME version # "socks" PROVE InOrder(screen', seen)
    BY <1>2 DEF ShownAsReceived, OnPage, InOrder, Placed, Mark
  <2>1. InOrder(screen, recv)
    BY DEF ConsoleInv, ShownAsReceived, OnPage, InOrder, Placed, Mark
  <2>2. \A i \in 1 .. Len(came) : came[i] # Zero
    <3>1. \A i \in 1 .. n : i \in 1 .. Len(down)
      BY <1>1, <1>2, LenProperties
    <3> QED
      BY <1>3, <3>1 DEF ConsoleInv, CleanInv
  <2>3. Shows(r.buf, came)
    BY <1>1, <1>2, <1>3, <2>2, ReadProperties DEF Shows, Mark
  <2>4. Shows(add, came)
    <3>1. CASE HasPrompt(r.buf)
      <4> DEFINE b == r.buf
      <4>1. /\ add = Append(b, "cmd") /\ Len(add) = Len(b) + 1
            /\ \A i \in 1 .. Len(b) : add[i] = b[i]
            /\ add[Len(b) + 1] = "cmd" /\ Len(b) \in Nat
        BY <1>6, <1>7, <3>1, AppendProperties, LenProperties
      <4>2. Len(came) \in Nat /\ Len(came) <= Len(b)
        BY <1>3, <2>3, LenProperties DEF Shows
      <4> HIDE DEF b
      <4>3. \A i \in 1 .. Len(add) : i \in 1 .. Len(b) \/ i = Len(b) + 1
        BY <4>1
      <4>4. \A i \in 1 .. Len(came) : i \in 1 .. Len(b)
        BY <4>1, <4>2
      <4>5. "cmd" \in Mark
        BY DEF Mark
      <4>6. Shows(b, came)
        BY <2>3 DEF b
      <4>7. Len(add) >= Len(came)
        BY <4>1, <4>2
      <4> QED
        BY <4>1, <4>3, <4>4, <4>5, <4>6, <4>7 DEF Shows
    <3>2. CASE ~HasPrompt(r.buf)
      BY <1>7, <2>3, <3>2
    <3> QED
      BY <3>1, <3>2
  <2>5. InOrder(screen \o add, seen)
    BY <1>1, <1>3, <2>1, <2>4, PageGrows
  <2> QED
    BY <1>7, <2>5
<1> QED
  BY <1>8, <1>9, <1>11, <1>12, <1>13 DEF ConsoleInv

\* The others put nothing on the page, and what comes is appended or lost.
LEMMA OthersKeepConsole ==
    ASSUME ConsoleInv, ConsoleNext, ~(\E n \in 1 .. Size : Receive(n))
    PROVE  ConsoleInv'
<1>1. ConsoleTypeOK
  BY DEF ConsoleInv
<1>2. UNCHANGED <<version, test_file, data, past>>
  BY DEF ConsoleNext, Handler, Remote, ResolveDest, Resolve, Then, ConnectShell, ConnectSocks,
     SendRequest, ReadFails, SendDone, ProxyReplies, ShellAsks, ShellRuns, ShellExits, ShellWrites
<1>3. /\ pending' \in {"resolve_dest", "resolve", "connect", "request", "read", "send", "none"}
      /\ shell' \in {"away", "busy", "asks", "gone"} /\ texts' \in 0 .. MaxText
  <2>1. MaxText \in Nat
    BY ConsoleAssumption
  <2> QED
    BY <1>1, <2>1 DEF ConsoleNext, Handler, Remote, ResolveDest, Resolve, Then, ConnectShell, ConnectSocks,
       SendRequest, ReadFails, SendDone, ProxyReplies, ShellAsks, ShellRuns, ShellExits, ShellWrites,
       close, remote, ConsoleTypeOK
<1>4. up' \in Seq(Sendable)
  <2>1. up # <<>> => Tail(up) \in Seq(Sendable)
    BY <1>1, HeadTailProperties DEF ConsoleTypeOK
  <2>2. <<>> \in Seq(Sendable)
    BY EmptySeq
  <2>3. up' = up \/ (up # <<>> /\ up' = Tail(up)) \/ up' = <<>>
    BY DEF ConsoleNext, Handler, Remote, ResolveDest, Resolve, Then, ConnectShell, ConnectSocks,
       SendRequest, ReadFails, SendDone, ProxyReplies, ShellAsks, ShellRuns, ShellExits, ShellWrites,
       remote
  <2> QED
    BY <1>1, <2>1, <2>2, <2>3 DEF ConsoleTypeOK
<1>5. down' \in Seq(Cell) /\ CleanInv'
  <2>1. down \in Seq(Cell) /\ Len(down) \in Nat
    BY <1>1, LenProperties DEF ConsoleTypeOK
  <2>2. CASE down' = down
    BY <1>2, <2>1, <2>2 DEF ConsoleInv, CleanInv
  <2>3. CASE down' = <<>>
    <3>1. down' \in Seq(Cell) /\ Len(down') = 0
      BY <2>3, EmptySeq
    <3> QED
      BY <3>1 DEF CleanInv
  <2>4. CASE ProxyReplies
    BY <1>2, <2>4 DEF ProxyReplies, CleanInv, Cell
  <2>5. CASE ShellWrites
    <3>1. /\ down' \in Seq(Cell) /\ Len(down') = Len(down) + 1
          /\ \A i \in 1 .. Len(down) : down'[i] = down[i]
          /\ down'[Len(down) + 1] = Text
      <4>1. down' = Append(down, Text) /\ Text \in Cell
        BY <2>5 DEF ShellWrites, Cell
      <4> QED
        BY <2>1, <4>1, AppendProperties
    <3>2. \A i \in 1 .. Len(down') : i \in 1 .. Len(down) \/ i = Len(down) + 1
      BY <2>1, <3>1
    <3> QED
      BY <1>2, <3>1, <3>2 DEF ConsoleInv, CleanInv, Text, Zero
  <2>6. CASE ShellAsks
    <3>1. Prompt \in Seq(Cell) /\ Len(Prompt) = 2 /\ \A i \in 1 .. 2 : Prompt[i] # Zero
      BY DEF Prompt, Cell, Zero
    <3>2. /\ down' \in Seq(Cell) /\ Len(down') = Len(down) + 2
          /\ \A i \in 1 .. Len(down) + 2 :
                down'[i] = IF i <= Len(down) THEN down[i] ELSE Prompt[i - Len(down)]
      <4> DEFINE p == Prompt
      <4>1. down' = down \o p /\ p \in Seq(Cell) /\ Len(p) = 2
        BY <2>6, <3>1 DEF ShellAsks
      <4> HIDE DEF p
      <4>2. /\ down \o p \in Seq(Cell) /\ Len(down \o p) = Len(down) + Len(p)
            /\ \A i \in 1 .. Len(down) + Len(p) :
                  (down \o p)[i] = IF i <= Len(down) THEN down[i] ELSE p[i - Len(down)]
        BY <2>1, <4>1, ConcatProperties
      <4> QED
        BY <4>1, <4>2 DEF p
    <3>3. ASSUME NEW i \in 1 .. Len(down')
          PROVE  (i \in 1 .. Len(down) /\ down'[i] = down[i]) \/ \E j \in 1 .. 2 : down'[i] = Prompt[j]
      <4>1. i \in 1 .. Len(down) + 2
        BY <2>1, <3>2
      <4>2. i <= Len(down) => i \in 1 .. Len(down)
        BY <2>1
      <4>3. ~(i <= Len(down)) => i - Len(down) \in 1 .. 2
        BY <2>1, <4>1
      <4> QED
        BY <3>2, <4>1, <4>2, <4>3
    <3> QED
      BY <1>2, <3>1, <3>2, <3>3 DEF ConsoleInv, CleanInv
  <2> QED
    BY <2>2, <2>3, <2>4, <2>5, <2>6 DEF ConsoleNext, Handler, Remote, ResolveDest, Resolve, Then,
       ConnectShell, ConnectSocks, SendRequest, ReadFails, SendDone, ShellRuns, ShellExits
<1>6. ConsoleTypeOK'
  BY <1>1, <1>2, <1>3, <1>4, <1>5 DEF ConsoleTypeOK, past
<1> QED
  BY <1>2, <1>5, <1>6 DEF ConsoleInv, KeptInv, PacedByPrompts, ShownAsReceived, OnPage, past

\* At the start nothing came and nothing is on the page.
LEMMA ConsoleStarts == ConsoleInit => ConsoleInv
<1> SUFFICES ASSUME ConsoleInit PROVE ConsoleInv
  OBVIOUS
<1>1. Size \in Nat /\ MaxText \in Nat /\ Versions \subseteq Version /\ Files \subseteq Seq({"cmd", "exit"})
  BY ConsoleAssumption
<1>2. \A i \in 1 .. Size : data[i] \in {Zero, Text}
  BY DEF ConsoleInit, StartConsole, StartSocks, StartCgi, Zeros, Unwritten
<1>3. data \in [1 .. Size -> Cell]
  BY DEF ConsoleInit, StartConsole, StartSocks, StartCgi, Zeros, Unwritten, Cell
<1>4. /\ <<>> \in Seq(Cell) /\ <<>> \in Seq(Sendable) /\ <<>> \in Seq(Cell \cup {"cmd", Beyond})
      /\ Len(<<>>) = 0
  BY EmptySeq
<1>5. ConsoleTypeOK
  <2>1. version \in Versions /\ test_file \in Seq({"cmd", "exit"})
    BY <1>1 DEF ConsoleInit
  <2>2. pending \in {"resolve_dest", "resolve", "connect", "request", "read", "send", "none"}
    BY DEF ConsoleInit, StartConsole, StartSocks, StartCgi
  <2>3. shell \in {"away", "busy", "asks", "gone"} /\ missed \in BOOLEAN /\ shrunk \in BOOLEAN
    BY DEF ConsoleInit
  <2>4. down \in Seq(Cell) /\ recv \in Seq(Cell) /\ up \in Seq(Sendable)
    BY <1>4 DEF ConsoleInit
  <2>5. screen \in Seq(Cell \cup {"cmd", Beyond})
    BY <1>4 DEF ConsoleInit
  <2>6. texts \in 0 .. MaxText /\ lines_sent \in Nat /\ longest \in 0 .. Size
    BY <1>1 DEF ConsoleInit
  <2> QED
    BY <1>3, <2>1, <2>2, <2>3, <2>4, <2>5, <2>6 DEF ConsoleTypeOK
<1>6. CleanInv /\ KeptInv
  BY <1>2, <1>4 DEF CleanInv, KeptInv, ConsoleInit
<1>7. NumPrompts(recv) \in Nat /\ lines_sent = 0
  <2>1. NumPrompts(recv) \in Nat
    BY <1>4, PromptsGrow DEF ConsoleInit
  <2> QED
    BY <2>1 DEF ConsoleInit
<1>8. ShownAsReceived
  <2>1. OnPage = {}
    <3>1. DOMAIN screen = 1 .. 0
      BY <1>4, LenProperties DEF ConsoleInit
    <3> QED
      BY <3>1 DEF OnPage
  <2>2. Cardinality(OnPage) = Len(recv)
    BY <1>4, <2>1, FS_EmptySet DEF ConsoleInit
  <2> QED
    BY <2>1, <2>2 DEF ShownAsReceived
<1> QED
  BY <1>5, <1>6, <1>7, <1>8 DEF ConsoleInv, PacedByPrompts

\* The console's invariant: what came is on the page, and a prompt that is found in
\* _data came.
THEOREM ConsoleInvariance == ConsoleSpec => []ConsoleInv
<1>1. ConsoleInv /\ [ConsoleNext]_console_vars => ConsoleInv'
  <2> SUFFICES ASSUME ConsoleInv, [ConsoleNext]_console_vars PROVE ConsoleInv'
    OBVIOUS
  <2>1. CASE \E n \in 1 .. Size : Receive(n)
    BY <2>1, ReceiveKeeps
  <2>2. CASE ConsoleNext /\ ~(\E n \in 1 .. Size : Receive(n))
    BY <2>2, OthersKeepConsole
  <2>3. CASE UNCHANGED console_vars
    BY <2>3 DEF console_vars, ConsoleInv, ConsoleTypeOK, CleanInv, KeptInv, PacedByPrompts,
       ShownAsReceived, OnPage
  <2> QED
    BY <2>1, <2>2, <2>3
<1> QED
  BY <1>1, ConsoleStarts, PTL DEF ConsoleSpec

\* _data keeps its length, and the session is at one operation.
THEOREM ConsoleTypeCorrect == ConsoleSpec => []ConsoleTypeOK
<1>1. ConsoleInv => ConsoleTypeOK
  BY DEF ConsoleInv
<1> QED
  BY <1>1, ConsoleInvariance, PTL

\* However the reads cut what comes, no line of the file is sent before its prompt, in
\* do_read of NP_HW4 as long as no read is shorter than an earlier one.
THEOREM AlwaysPaced == ConsoleSpec => []PacedByPrompts
<1>1. ConsoleInv => PacedByPrompts
  BY DEF ConsoleInv
<1> QED
  BY <1>1, ConsoleInvariance, PTL

\* However the reads cut what comes and whatever the size of _data, the page has all
\* of it, once and in order, in the two consoles that do not look at old bytes.
THEOREM AlwaysShown == ConsoleSpec => []ShownAsReceived
<1>1. ConsoleInv => ShownAsReceived
  BY DEF ConsoleInv
<1> QED
  BY <1>1, ConsoleInvariance, PTL
=============================================================================
