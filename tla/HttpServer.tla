------------------------------ MODULE HttpServer ------------------------------
(***************************************************************************)
(* NP_HW3/http_server.cpp: a session per connection, all on one io_service.*)
(* A session reads once, whatever comes; its handler forks, the parent     *)
(* closes the socket and the child sets the environment, makes the         *)
(* connection its descriptors 0 to 2 and executes the program of the       *)
(* request.                                                                *)
(*                                                                         *)
(* When execvp fails the child writes "Hello World" and returns from the   *)
(* handler into the run() it was forked in: it goes on as a server, a      *)
(* stray, with a copy of the acceptor and of every session of its parent,  *)
(* also of those whose operation had completed and whose handler was due.  *)
(* So a request that names no program ("/", "/favicon.ico"), and one whose *)
(* first bytes come alone, adds a server, whose terminal is the client.    *)
(*                                                                         *)
(* All copies of a session are one connection.  When its client has closed *)
(* it, what any process writes to it is answered by a reset, which all the *)
(* processes that still have it get to see.                                *)
(*                                                                         *)
(* Left out: bytes after a request's second piece, data unread at a close, *)
(* a failing fork or accept, and SIGCHLD, whose handler only reaps.        *)
(***************************************************************************)
EXTENDS Naturals, FiniteSets

CONSTANTS
    Clients, \* the connections
    Asked,   \* what the clients may ask for, together
    MaxProc  \* processes, the first one included

Request == [prog : BOOLEAN, query : BOOLEAN]  \* names a program; has a query
Pieces == 2   \* a request may come in two reads; both have to come in one to match
Main == 0
Proc == 0 .. MaxProc - 1
Terminal == 0 \* as an out: not a client
NoQuery == 0  \* as an env: no QUERY_STRING

ASSUME HttpAssumption ==
    /\ IsFiniteSet(Clients) /\ Terminal \notin Clients
    /\ Asked \subseteq [Clients -> Request] /\ MaxProc \in Nat \ {0}

VARIABLES
    request, \* what each client asks for
    client,  \* how far each connection is, one of Phase
    queued,  \* connections in the backlog
    sent,    \* pieces that the client has sent
    taken,   \* pieces that were read
    proc,    \* the processes
    page     \* what the client was written while it was there

vars == <<request, client, queued, sent, taken, proc, page>>
offers == <<request, sent>>
outside == <<client, offers>>

\* "left": the client closed.  "told": it closed and was written to since; its answer
\* to that is on the way.  "broken": that reset has come.  "reset": the client itself
\* has reset the connection.
Phase == {"away", "open", "left", "told", "broken", "reset"}

\* The states of a session in a process.  "held" is a descriptor without a
\* session, in an executed program.
Session == {"none", "accepted", "reading", "match", "nomatch", "held"}
Due == {"match", "nomatch"}

\* st: "loop" in run(), "child" between fork and the end of its handler, "exec"
\* when its descriptors are set, "cgi" another program.  cur is the connection of
\* a child, boss the process that forked it.
ProcRecord ==
    [st : {"none", "loop", "child", "exec", "cgi", "dead"}, out : Clients \cup {Terminal},
     env : Clients \cup {NoQuery}, sess : [Clients -> Session],
     cur : Clients \cup {0}, boss : Proc, stray : BOOLEAN]
Item == [what : {"log", "head", "hello", "cgi"}, req : Clients, by : Proc]

NoSession == [c \in Clients |-> "none"]
Nobody == [st |-> "none", out |-> Terminal, env |-> NoQuery, sess |-> NoSession,
           cur |-> 0, boss |-> Main, stray |-> FALSE]

\* main: clearenv, the acceptor, run.
Init ==
    /\ request \in Asked
    /\ client = [c \in Clients |-> "away"]
    /\ queued = {}
    /\ sent = [c \in Clients |-> 0] /\ taken = [c \in Clients |-> 0]
    /\ proc = [p \in Proc |-> IF p = Main THEN [Nobody EXCEPT !.st = "loop"] ELSE Nobody]
    /\ page = [c \in Clients |-> {}]

-----------------------------------------------------------------------------
(* The clients.                                                            *)

Become(c, from, to) ==
    /\ client[c] = from
    /\ client' = [client EXCEPT ![c] = to]

Connect(c) ==
    /\ Become(c, "away", "open")
    /\ queued' = queued \cup {c}
    /\ UNCHANGED <<request, sent, taken, proc, page>>

Send(c) ==
    /\ client[c] = "open" /\ sent[c] < Pieces
    /\ sent' = [sent EXCEPT ![c] = @ + 1]
    /\ UNCHANGED <<request, client, queued, taken, proc, page>>

Leave(c) ==
    /\ Become(c, "open", "left") \/ Become(c, "open", "reset")
    /\ UNCHANGED <<request, queued, sent, taken, proc, page>>

\* The reset that answers what was written to a closed connection.
Break(c) ==
    /\ Become(c, "told", "broken")
    /\ UNCHANGED <<request, queued, sent, taken, proc, page>>

-----------------------------------------------------------------------------
(* The io_service of a process.                                            *)

InLoop(p) == proc[p].st = "loop"
Set(p, c, s) == proc' = [proc EXCEPT ![p].sess[c] = s]

\* Variant: the next accept is started when the session is over.
AcceptOneByOne(p, c) ==
    /\ InLoop(p) /\ c \in queued /\ proc[p].sess = NoSession
    /\ queued' = queued \ {c} /\ Set(p, c, "accepted")
    /\ UNCHANGED <<outside, taken, page>>

\* async_accept completes; until its handler has run there is no other one.
Accept(p, c) ==
    /\ InLoop(p) /\ c \in queued
    /\ \A d \in Clients : proc[p].sess[d] # "accepted"
    /\ queued' = queued \ {c}
    /\ Set(p, c, "accepted")
    /\ UNCHANGED <<outside, taken, page>>

\* Its handler: ServerSession::start, and do_accept again.
do_accept(p, c) ==
    /\ InLoop(p) /\ proc[p].sess[c] = "accepted"
    /\ Set(p, c, "reading")
    /\ UNCHANGED <<outside, queued, taken, page>>

\* async_read_some completes, with some of the bytes there are or, at the end of
\* the connection or its reset, with none; do_read does not look at ec.
do_read(p, c) ==
    /\ InLoop(p) /\ proc[p].sess[c] = "reading"
    /\ \E n \in 0 .. sent[c] - taken[c] :
           /\ n = 0 => taken[c] = sent[c] /\ client[c] # "open"
           /\ taken' = [taken EXCEPT ![c] = @ + n]
           /\ Set(p, c, IF n = Pieces THEN "match" ELSE "nomatch")
    /\ UNCHANGED <<outside, queued, page>>

-----------------------------------------------------------------------------
(* The handler of the read.                                                *)

Gone(c) == client[c] \in {"left", "told", "broken", "reset"}
Line(out, what, c, p) == <<out, [what |-> what, req |-> c, by |-> p]>>

\* What is written is seen by a client that is there; one that closed resets the
\* connection.  At cut, unless it is Terminal, the writer is killed: the reset is there.
Writes(lines, cut) ==
    /\ page' = [d \in Clients |-> IF client[d] # "open" THEN page[d]
                    ELSE page[d] \cup {l[2] : l \in {m \in lines : m[1] = d}}]
    /\ client' = [d \in Clients |->
           IF d = cut /\ client[d] # "reset" THEN "broken"
           ELSE IF client[d] = "left" /\ \E l \in lines : l[1] = d THEN "told" ELSE client[d]]

\* A process that writes to a client that is gone may be killed by SIGPIPE, at its
\* second line at the latest: every handler writes more than one.
MayBeKilled(out) == out # Terminal /\ Gone(out)
Dies(p) == proc' = [proc EXCEPT ![p].st = "dead"]

ThrowsIfGone(p, c) == proc[p].sess[c] = "match" /\ Gone(c) \* variant

\* remote_endpoint of a connection that was reset, by its client or in answer to what
\* another process wrote, throws; run() is left.
Throws(p, c) == proc[p].sess[c] = "match" /\ client[c] \in {"reset", "broken"}

NextProc == {k \in Proc : proc[k].st = "none" /\ \A j \in 0 .. k - 1 : proc[j].st # "none"}
Child(p, c) == [proc[p] EXCEPT !.st = "child", !.cur = c, !.boss = p, !.stray = FALSE]

QueryOf(p, c) == IF proc[p].sess[c] = "match" /\ request[c].query THEN c ELSE proc[p].env

\* Variants: the parent keeps the socket; it sets the environment; dup2 comes
\* before fork.
ParentHolds(p, c) == [proc[p] EXCEPT !.sess[c] = "held"]
ParentSets(p, c) == [proc[p] EXCEPT !.sess[c] = "none", !.env = QueryOf(p, c)]
ParentSpeaks(p, c) == [proc[p] EXCEPT !.sess[c] = "none", !.out = c]
Parent(p, c) == [proc[p] EXCEPT !.sess[c] = "none"]

\* The log, in which remote_endpoint is asked, fork, and in the parent close.
Handle(p, c) ==
    LET out == proc[p].out
        log == {Line(out, "log", c, p)}
    IN  /\ InLoop(p) /\ proc[p].sess[c] \in Due
        /\ \/ MayBeKilled(out) /\ Dies(p) /\ Writes({}, out)
           \/ Throws(p, c) /\ Dies(p) /\ Writes(log, Terminal)
           \/ /\ ~Throws(p, c)
              /\ \E k \in NextProc :
                     proc' = [proc EXCEPT ![p] = Parent(p, c), ![k] = Child(p, c)]
              /\ Writes(log, Terminal)
        /\ UNCHANGED <<offers, queued, taken>>

\* setenv and its log, before dup2; close; what it writes before execvp.
PrepareChild(k) ==
    LET c == proc[k].cur
        old == proc[k].out
        log == IF proc[k].sess[c] = "match" THEN {Line(old, "log", c, k)} ELSE {}
    IN  /\ proc[k].st = "child"
        /\ \/ log # {} /\ MayBeKilled(old) /\ Dies(k) /\ Writes({}, old)
           \/ MayBeKilled(c) /\ Dies(k) /\ Writes(log, c)
           \/ /\ proc' = [proc EXCEPT ![k].st = "exec", ![k].env = QueryOf(k, c), ![k].out = c]
              /\ Writes({Line(c, "head", c, k)} \cup log, Terminal)
        /\ UNCHANGED <<offers, queued, taken>>

Executes(k) == proc[k].sess[proc[k].cur] = "match" /\ request[proc[k].cur].prog

\* execvp: the program has every descriptor that the server had.
ExecCgi(k) ==
    /\ proc[k].st = "exec" /\ Executes(k)
    /\ proc' = [proc EXCEPT ![k].st = "cgi",
                    ![k].sess = [d \in Clients |->
                        IF d = proc[k].cur \/ @[d] = "none" THEN "none" ELSE "held"]]
    /\ UNCHANGED <<outside, queued, taken, page>>

\* "./", or no such program: the handler returns.
ExecFails(k) ==
    /\ proc[k].st = "exec" /\ ~Executes(k)
    /\ \/ MayBeKilled(proc[k].out) /\ Dies(k) /\ Writes({}, proc[k].out)
       \/ /\ proc' = [proc EXCEPT ![k].st = "loop", ![k].stray = TRUE,
                                  ![k].sess[proc[k].cur] = "none"]
          /\ Writes({Line(proc[k].out, "hello", proc[k].cur, k)}, Terminal)
    /\ UNCHANGED <<offers, queued, taken>>

\* The program, console.cgi or another: it writes its page and ends.
CgiRuns(k) ==
    /\ proc[k].st = "cgi"
    /\ proc' = [proc EXCEPT ![k].st = "dead"]
    /\ Writes({Line(proc[k].out, "cgi", proc[k].cur, k)}, Terminal)
    /\ UNCHANGED <<offers, queued, taken>>

-----------------------------------------------------------------------------
Runs(p) ==
    \/ \E c \in Clients : Accept(p, c) \/ do_accept(p, c) \/ do_read(p, c) \/ Handle(p, c)
    \/ PrepareChild(p) \/ ExecCgi(p) \/ ExecFails(p) \/ CgiRuns(p)

Next ==
    \/ \E c \in Clients : Connect(c) \/ Send(c) \/ Leave(c) \/ Break(c)
    \/ \E p \in Proc : Runs(p)

\* Every process runs; programs end.  The clients may stop at any point.
Spec == Init /\ [][Next]_vars /\ \A p \in Proc : WF_vars(Runs(p))

-----------------------------------------------------------------------------
(* Properties.                                                             *)

Live == {"loop", "child", "exec", "cgi"}
Strays == {p \in Proc : proc[p].stray}

\* The variables have their types; a connection is in the backlog or with servers.
TypeOK ==
    /\ request \in Asked
    /\ client \in [Clients -> Phase]
    /\ queued \subseteq Clients
    /\ \A c \in queued, p \in Proc : proc[p].sess[c] = "none"
    /\ sent \in [Clients -> 0 .. Pieces] /\ taken \in [Clients -> 0 .. Pieces]
    /\ proc \in [Proc -> ProcRecord]
    /\ page \in [Clients -> SUBSET Item]

\* A program finds the QUERY_STRING of its request, and none when the request has
\* none, unless a stray started it: that one has the query of its own request.
OwnQuery ==
    \A k \in Proc : proc[k].st = "cgi" /\ proc[k].boss \notin Strays =>
        proc[k].env = IF request[proc[k].cur].query THEN proc[k].cur ELSE NoQuery

\* A client is only sent what its own request gave, but for the log lines of a
\* server that its own request, naming no program, has added.
OwnAnswer ==
    \A c \in Clients : \A i \in page[c] :
        i.req = c \/ (i.what = "log" /\ \E p \in Strays : proc[p].out = c)

Answers(c) == {i \in page[c] : i.what = "head"}

\* A request is answered by one process, unless another one has added a server
\* that had a copy of its session.
AnsweredOnce ==
    \A c \in Clients : Cardinality(Answers(c)) > 1 => \E p \in Strays : proc[p].out # c

\* Pages do not mix, and nothing but a stray makes a page twice, although every
\* child is a copy of the server with all its sessions.
PagesApart == OwnAnswer /\ AnsweredOnce

\* A connection whose client had only closed it: it was reset when a process wrote to
\* it, and a stray of another request had its session copied.
BrokenByCopy(c) == client[c] = "broken" /\ \E q \in Strays : proc[q].out # c

\* A client ends a server only by a reset between the read of its request and the
\* handler.  One that merely closes does so only when the server has one of two copies
\* of its session, made by a stray of another request, and the other copy answered
\* first.  A stray may also be killed when its own client has gone.
ServersStay ==
    \A p \in Proc : proc[p].st = "dead" /\ (p = Main \/ proc[p].stray) =>
        \/ \E c \in Clients : /\ proc[p].sess[c] = "match"
                              /\ client[c] = "reset" \/ BrokenByCopy(c)
        \/ p # Main /\ Gone(proc[p].out)

\* The server that had the connection died with it, or no server is left.
Lost(c) ==
    \/ \E p \in Proc : proc[p].st = "dead" /\ proc[p].sess[c] \notin {"none", "held"}
    \/ \A p \in Proc : proc[p].st \in {"none", "cgi", "dead"}

\* Whoever sends a whole request and waits is answered, however many others are
\* silent or leave, unless the process that had its session died.
Answered ==
    \A c \in Clients :
        client[c] = "open" /\ sent[c] = Pieces ~> Answers(c) # {} \/ Gone(c) \/ Lost(c)

Holders(c) ==
    {p \in Proc : proc[p].st \in Live /\ (proc[p].out = c \/ proc[p].sess[c] # "none")}

\* With strays there may be copies of a session, and one of them reads: the others
\* wait for bytes until the client closes.
CopiesOf(c) == {p \in Proc : Strays # {} /\ proc[p].sess[c] = "reading"}

\* A page comes to its end: when it was answered, nobody keeps the connection for
\* good but the strays, which never close their client's, and unread copies.
PageEnds ==
    \A c \in Clients : Answers(c) # {} ~> Holders(c) \subseteq Strays \cup CopiesOf(c)
=============================================================================
