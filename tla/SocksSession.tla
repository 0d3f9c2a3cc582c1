----------------------------- MODULE SocksSession -----------------------------
(***************************************************************************)
(* NP_HW4/socks_server4a.cpp: the process that serves one SOCKS4 client.   *)
(*                                                                         *)
(* It is one thread that runs the handlers of asynchronous operations: it  *)
(* reads the request, answers it, connects to the destination or waits for *)
(* the destination to connect, and then relays both ways.  pending is the  *)
(* set of operations whose handler has yet to run; a handler starts the    *)
(* next ones.  When none is pending, run() returns and the process ends.   *)
(*                                                                         *)
(* The two directions are the same code with src and dst exchanged, so the *)
(* relay is written once, for a side.  The peers, and the queues between   *)
(* them and the process, are the outside: a queue holds Cap units, a unit  *)
(* is what one async_read_some returns.                                    *)
(***************************************************************************)
EXTENDS Naturals, Sequences

CONSTANTS
    Host,      \* addresses that can be asked for
    Unset,     \* 0.0.0.x, the address in a request that names a domain
    Requests,  \* the requests that clients send
    RuleFiles, \* what socks.conf may hold: sequences of rules
    Cap,       \* units in a queue of the network
    MaxSend    \* bound on what each side sends

Side == {"src", "dst"}
Other(s) == IF s = "src" THEN "dst" ELSE "src"
Command == {"connect", "bind"}
Request == [cd : Command, host : Host, named : BOOLEAN]

\* A line of socks.conf: the command and the addresses it permits.  A line that
\* the pattern does not match has the command "none".
Rule == [cd : Command \cup {"none"}, ips : SUBSET (Host \cup {Unset})]

ASSUME SocksAssumption ==
    /\ Unset \notin Host
    /\ Requests \subseteq Request /\ RuleFiles \subseteq Seq(Rule)
    /\ Cap \in Nat \ {0} /\ MaxSend \in [Side -> Nat]

VARIABLES
    rules,    \* the lines of socks.conf when the request came
    req,      \* the request that was read
    pending,  \* operations started whose handler has not run
    socket,   \* src_socket and dst_socket: "none", "open" or "closed"
    response, \* src_response and dst_response: the unit being written
    peer,     \* the client and the destination: "none", "open", "shut" when it
              \* sends no more but reads, "gone" when it does neither
    in,       \* sent by each peer and not yet read by the process
    out,      \* sent to each peer and not yet read by it
    up,       \* the process has not ended
    \* History:
    sent,     \* units that each peer sent
    got       \* what each peer has read: units and replies

vars == <<rules, req, pending, socket, response, peer, in, out, up, sent, got>>

NoRequest == [cd |-> "none", host |-> Unset, named |-> FALSE]
Read(s) == IF s = "src" THEN "read_src" ELSE "read_dst"
Write(s) == IF s = "src" THEN "write_src" ELSE "write_dst"
Unit(s, n) == <<s, n>>
Accepted == <<"reply", 90>>
Rejected == <<"reply", 91>>

Init ==
    /\ rules = <<>> /\ req = NoRequest
    /\ pending = {"request"}
    /\ socket = [s \in Side |-> IF s = "src" THEN "open" ELSE "none"]
    /\ response = [s \in Side |-> <<>>]
    /\ peer = [s \in Side |-> IF s = "src" THEN "open" ELSE "none"]
    /\ in = [s \in Side |-> <<>>] /\ out = [s \in Side |-> <<>>]
    /\ up = TRUE
    /\ sent = [s \in Side |-> 0] /\ got = [s \in Side |-> <<>>]

-----------------------------------------------------------------------------
(* The request.                                                            *)

\* fire_wall: a line permits, or there is no line.  The address is the one in
\* the request, which for a domain is 0.0.0.x.
Asked(r) == IF r.named THEN Unset ELSE r.host
Permits(rule, r) == rule.cd = r.cd /\ Asked(r) \in rule.ips
\* Variant: a line for the other command permits too.
fire_wall_any(file, r) == file = <<>> \/ \E i \in DOMAIN file : file[i].cd # r.cd \/ Permits(file[i], r)
fire_wall(file, r) == file = <<>> \/ \E i \in DOMAIN file : Permits(file[i], r)

\* do_send_response: eight bytes go to the socket at once.  Nothing comes to a
\* peer that is gone.
Reply(what) == out' = IF peer["src"] = "gone" THEN out
                      ELSE [out EXCEPT !["src"] = Append(@, what)]

\* What comes to the client of a connect before anything is connected, and what
\* comes to one that binds before the destination has called.
Allow(r) ==
    /\ "request" \in pending /\ peer["src"] = "open"
    /\ \E file \in RuleFiles : fire_wall(file, r) /\ rules' = file
    /\ req' = r
    /\ Reply(Accepted)
    /\ pending' = CASE r.cd = "bind" -> {"ftp_resolve", "accept"}
                    [] r.cd = "connect" /\ r.named -> {"resolve"}
                    [] OTHER -> {"connect"}
    /\ UNCHANGED <<socket, response, peer, in, up, sent, got>>

Refuse(r) ==
    /\ "request" \in pending /\ peer["src"] = "open"
    /\ \E file \in RuleFiles : ~fire_wall(file, r) /\ rules' = file
    /\ req' = r
    /\ Reply(Rejected)
    /\ socket' = [socket EXCEPT !["src"] = "closed"]
    /\ pending' = IF r.cd = "bind" THEN {"ftp_resolve"} ELSE {}
    /\ UNCHANGED <<response, peer, in, up, sent, got>>

\* The client leaves without a request.
NoneCame ==
    /\ "request" \in pending /\ peer["src"] # "open"
    /\ pending' = {}
    /\ UNCHANGED <<rules, req, socket, response, peer, in, out, up, sent, got>>

-----------------------------------------------------------------------------
(* The destination.                                                        *)

\* Variant: after a name that is not found another request is read.
ResolvedAnew ==
    /\ "resolve" \in pending
    /\ \/ pending' = (pending \ {"resolve"}) \cup {"connect"}
       \/ pending' = {"request"}
    /\ UNCHANGED <<rules, req, socket, response, peer, in, out, up, sent, got>>

Resolved ==
    /\ "resolve" \in pending
    /\ \/ pending' = (pending \ {"resolve"}) \cup {"connect"}
       \/ pending' = pending \ {"resolve"}
    /\ UNCHANGED <<rules, req, socket, response, peer, in, out, up, sent, got>>

\* The address found for a bind is printed and not used.
FtpResolved ==
    /\ "ftp_resolve" \in pending
    /\ pending' = pending \ {"ftp_resolve"}
    /\ UNCHANGED <<rules, req, socket, response, peer, in, out, up, sent, got>>

Relay == pending' = (pending \ {"connect", "accept"}) \cup {Read("src"), Read("dst")}
Joined ==
    /\ socket' = [socket EXCEPT !["dst"] = "open"]
    /\ peer' = [peer EXCEPT !["dst"] = "open"]

Connected ==
    /\ "connect" \in pending
    /\ Joined /\ Relay
    /\ UNCHANGED <<rules, req, response, in, out, up, sent, got>>

NotConnected ==
    /\ "connect" \in pending
    /\ pending' = pending \ {"connect"}
    /\ UNCHANGED <<rules, req, socket, response, peer, in, out, up, sent, got>>

\* do_ftp_accept: the destination connects to the port that the client was told
\* in the first reply; the client gets the second.
Called ==
    /\ "accept" \in pending /\ got["src"] # <<>>
    /\ Joined /\ Relay
    /\ Reply(Accepted)
    /\ UNCHANGED <<rules, req, response, in, up, sent, got>>

-----------------------------------------------------------------------------
(* The relay.  An operation on a socket that is closed fails, also one     *)
(* that had been started.                                                  *)

\* A socket closed with data in it that nobody read is reset, and what was on the
\* way to its peer may be lost from any place on.
Prefixes(q) == {SubSeq(q, 1, n) : n \in 0 .. Len(q)}
LeftOut(s) == IF in[s] = <<>> THEN {out[s]} ELSE Prefixes(out[s])
CloseBoth ==
    /\ socket' = [s \in Side |-> IF socket[s] = "none" THEN "none" ELSE "closed"]
    /\ \E a \in LeftOut("src"), b \in LeftOut("dst") :
          out' = IF "open" \in {socket[s] : s \in Side}
                 THEN [s \in Side |-> IF s = "src" THEN a ELSE b] ELSE out

\* Variant: the next read is started before the unit is written.
ReadUnitAhead(s) ==
    /\ Read(s) \in pending /\ socket[s] = "open" /\ in[s] # <<>>
    /\ in' = [in EXCEPT ![s] = Tail(@)]
    /\ response' = [response EXCEPT ![Other(s)] = Head(in[s])]
    /\ pending' = pending \cup {Write(Other(s))}
    /\ UNCHANGED <<rules, req, socket, peer, out, up, sent, got>>

\* do_read_src and do_read_dst: the unit is copied and written on.
ReadUnit(s) ==
    /\ Read(s) \in pending /\ socket[s] = "open" /\ in[s] # <<>>
    /\ in' = [in EXCEPT ![s] = Tail(@)]
    /\ response' = [response EXCEPT ![Other(s)] = Head(in[s])]
    /\ pending' = (pending \ {Read(s)}) \cup {Write(Other(s))}
    /\ UNCHANGED <<rules, req, socket, peer, out, up, sent, got>>

Failed(s) == socket[s] = "closed" \/ peer[s] = "gone"

\* Variant: only the socket that failed is closed.
ReadFailsAlone(s) ==
    /\ Read(s) \in pending
    /\ Failed(s) \/ (in[s] = <<>> /\ peer[s] = "shut")
    /\ socket' = [socket EXCEPT ![s] = "closed"]
    /\ pending' = pending \ {Read(s)}
    /\ UNCHANGED <<rules, req, response, peer, in, out, up, sent, got>>

\* End of file, or an error: both sockets are closed, whatever is on its way in
\* the other direction.
ReadFails(s) ==
    /\ Read(s) \in pending
    /\ Failed(s) \/ (in[s] = <<>> /\ peer[s] = "shut")
    /\ CloseBoth
    /\ pending' = pending \ {Read(s)}
    /\ UNCHANGED <<rules, req, response, peer, in, up, sent, got>>

Written(s) == (pending \ {Write(s)}) \cup {Read(Other(s))}

\* Variant: the other side is not read again.
WriteUnitLast(s) ==
    /\ Write(s) \in pending /\ socket[s] = "open"
    /\ peer[s] # "gone" /\ Len(out[s]) < Cap
    /\ out' = [out EXCEPT ![s] = Append(@, response[s])]
    /\ pending' = pending \ {Write(s)}
    /\ response' = [response EXCEPT ![s] = <<>>]
    /\ UNCHANGED <<rules, req, socket, peer, in, up, sent, got>>

\* do_write_src and do_write_dst: when there is room, and then the other side is
\* read again.
WriteUnit(s) ==
    /\ Write(s) \in pending /\ socket[s] = "open"
    /\ peer[s] # "gone" /\ Len(out[s]) < Cap
    /\ out' = [out EXCEPT ![s] = Append(@, response[s])]
    /\ pending' = Written(s)
    /\ response' = [response EXCEPT ![s] = <<>>]
    /\ UNCHANGED <<rules, req, socket, peer, in, up, sent, got>>

\* The peer has closed, which the first write does not notice.
WriteToNobody(s) ==
    /\ Write(s) \in pending /\ socket[s] = "open" /\ peer[s] = "gone"
    /\ pending' = Written(s)
    /\ response' = [response EXCEPT ![s] = <<>>]
    /\ UNCHANGED <<rules, req, socket, peer, in, out, up, sent, got>>

\* An error: nothing more is read from the other side, and nothing is closed.
WriteFails(s) ==
    /\ Write(s) \in pending /\ Failed(s)
    /\ pending' = pending \ {Write(s)}
    /\ response' = [response EXCEPT ![s] = <<>>]
    /\ UNCHANGED <<rules, req, socket, peer, in, out, up, sent, got>>

\* run() returns and the process ends; its sockets are closed for it.
Ends ==
    /\ up /\ pending = {}
    /\ up' = FALSE
    /\ CloseBoth
    /\ UNCHANGED <<rules, req, pending, response, peer, in, sent, got>>

-----------------------------------------------------------------------------
(* The client and the destination.  The client sends when it was told that *)
(* it may: after the first reply, or the second if it binds.               *)

Replies(q) == {i \in DOMAIN q : q[i] = Accepted}
MaySend(s) == s = "src" =>
    /\ Replies(got["src"]) # {}
    /\ req.cd = "bind" => \E i, j \in Replies(got["src"]) : i # j

Send(s) ==
    /\ peer[s] = "open" /\ MaySend(s)
    /\ sent[s] < MaxSend[s] /\ Len(in[s]) < Cap
    /\ socket[s] = "open"
    /\ sent' = [sent EXCEPT ![s] = @ + 1]
    /\ in' = [in EXCEPT ![s] = Append(@, Unit(s, sent[s] + 1))]
    /\ UNCHANGED <<rules, req, pending, socket, response, peer, out, up, got>>

\* To a socket that was closed: it is reset.
SendTooLate(s) ==
    /\ peer[s] = "open" /\ MaySend(s)
    /\ sent[s] < MaxSend[s] /\ socket[s] = "closed"
    /\ sent' = [sent EXCEPT ![s] = @ + 1]
    /\ \E q \in Prefixes(out[s]) : out' = [out EXCEPT ![s] = q]
    /\ UNCHANGED <<rules, req, pending, socket, response, peer, in, up, got>>

Receive(s) ==
    /\ peer[s] \in {"open", "shut"} /\ out[s] # <<>>
    /\ out' = [out EXCEPT ![s] = Tail(@)]
    /\ got' = [got EXCEPT ![s] = Append(@, Head(out[s]))]
    /\ UNCHANGED <<rules, req, pending, socket, response, peer, in, up, sent>>

Shut(s) ==
    /\ peer[s] = "open"
    /\ peer' = [peer EXCEPT ![s] = "shut"]
    /\ UNCHANGED <<rules, req, pending, socket, response, in, out, up, sent, got>>

Leave(s) ==
    /\ peer[s] \in {"open", "shut"}
    /\ peer' = [peer EXCEPT ![s] = "gone"]
    /\ out' = [out EXCEPT ![s] = <<>>]
    /\ UNCHANGED <<rules, req, pending, socket, response, in, up, sent, got>>

-----------------------------------------------------------------------------

Handler ==
    \/ \E r \in Requests : Allow(r) \/ Refuse(r)
    \/ NoneCame
    \/ Resolved \/ FtpResolved \/ Connected \/ NotConnected \/ Called
    \/ \E s \in Side : \/ ReadUnit(s) \/ ReadFails(s)
                       \/ WriteUnit(s) \/ WriteToNobody(s) \/ WriteFails(s)
    \/ Ends

Peer == \E s \in Side :
    Send(s) \/ SendTooLate(s) \/ Receive(s) \/ Shut(s) \/ Leave(s)

Next == Handler \/ Peer

Safety == Init /\ [][Next]_vars

(* run() runs each handler whose operation is done, a resolver and a       *)
(* connect end one way or the other, and a peer reads what comes to it.    *)
(* Requests, calls of a destination and data need not come.                *)
Spec ==
    /\ Safety
    /\ WF_vars(NoneCame) /\ WF_vars(Ends)
    /\ WF_vars(Resolved) /\ WF_vars(FtpResolved) /\ WF_vars(Connected \/ NotConnected)
    /\ \A s \in Side :
          /\ WF_vars(ReadUnit(s) \/ ReadFails(s))
          /\ WF_vars(WriteUnit(s) \/ WriteToNobody(s) \/ WriteFails(s))
          /\ WF_vars(Receive(s))

-----------------------------------------------------------------------------
(* Properties.                                                             *)

Operation == {"request", "resolve", "ftp_resolve", "connect", "accept"}
                 \cup {Read(s) : s \in Side} \cup {Write(s) : s \in Side}

\* What is on its way to a side: units of the other, and replies.
Item == (Side \X Nat) \cup {Accepted, Rejected}

\* Every variable has its type, and a direction has one operation at most.
TypeOK ==
    /\ rules \in RuleFiles \cup {<<>>}
    /\ req \in Requests \cup {NoRequest}
    /\ pending \subseteq Operation
    /\ \A s \in Side : ~(Read(s) \in pending /\ Write(Other(s)) \in pending)
    /\ socket \in [Side -> {"none", "open", "closed"}]
    /\ response \in [Side -> Item \cup {<<>>}]
    /\ \A s \in Side : response[s] # <<>> <=> Write(s) \in pending
    /\ peer \in [Side -> {"none", "open", "shut", "gone"}]
    /\ in \in [Side -> Seq(Item)] /\ out \in [Side -> Seq(Item)]
    /\ \A s \in Side : Len(in[s]) <= Cap
    /\ up \in BOOLEAN
    /\ sent \in [Side -> Nat]
    /\ got \in [Side -> Seq(Item)]

\* What a side has read and will read, and the replies it is owed before it reads
\* anything of the other: one for a connect and two for a bind.
Stream(s) == got[s] \o out[s]
Owed(s) == IF s = "dst" THEN 0 ELSE IF req.cd = "bind" THEN 2 ELSE 1

\* What a side reads is whole, although replies and data are written from one
\* buffer: the replies it is owed, and then what the other one sent, from its first
\* unit on and in its order, with nothing left out, twice or overwritten on the way.
RelayedInOrder ==
    \A s \in Side : \A i \in 1 .. Len(Stream(s)) :
        IF i <= Owed(s) THEN Stream(s)[i] \in {Accepted, Rejected}
        ELSE /\ Stream(s)[i] = Unit(Other(s), i - Owed(s))
             /\ \A j \in 1 .. Owed(s) : Stream(s)[j] = Accepted

\* Units sent to a side that have come or are about to.
Carried(s) == IF Len(Stream(s)) > Owed(s) THEN Len(Stream(s)) - Owed(s) ELSE 0

\* What s sends from now on does not come to the other side.
Cut(s) == socket[s] = "closed" \/ peer[Other(s)] = "gone"

Phase ==
    IF req = NoRequest THEN "asked"
    ELSE IF socket["dst"] # "none" THEN "joined"
    ELSE IF fire_wall(rules, req) THEN "allowed" ELSE "refused"

\* How many of the units sent by each side have not been lost.
Reach == [s \in Side |-> IF Cut(s) THEN Carried(Other(s)) ELSE sent[s]]

T == INSTANCE Tunnel WITH phase <- Phase, owed <- Owed("src"), reach <- Reach

\* However the sockets are closed, a client hears the replies it is owed, each side
\* then reads units of the other in order, and none behind one that was lost; one
\* that was refused sends nothing and is sent nothing.
TunnelImplemented == T!Spec

Relaying == socket["dst"] # "none"

\* Nothing is relayed that no line of socks.conf permits, unless it has no line,
\* and nothing for a client that was told no.  The rules see a domain as 0.0.0.x.
RulesKept ==
    Relaying =>
        /\ \A i \in DOMAIN got["src"] : got["src"][i] # Rejected
        /\ \/ rules = <<>>
           \/ \E i \in DOMAIN rules : rules[i].cd = req.cd /\
                  (IF req.named THEN Unset ELSE req.host) \in rules[i].ips

\* When a side sends no more, or is gone, the process ends, since the other side
\* reads what it is sent or goes too: no operation is left that nothing completes,
\* but a bind that nobody has called.
SessionEnds ==
    \A s \in Side : peer[s] \in {"shut", "gone"} ~> ~up \/ "accept" \in pending

\* The reply is sent before the connection is tried: a client that was told yes is
\* connected after that, or the process ends and its connection with it.
PromiseKept == req.cd = "connect" ~> Relaying \/ ~up

\* What the units of q are, replies left out.
DataOf(q) == SelectSeq(q, LAMBDA u : u[1] # "reply")

\* A transfer one way is complete: if the other side only reads, it has read all
\* when the sender is done.
TransferComplete ==
    \A s \in Side :
        [](sent[Other(s)] = 0 /\ peer[Other(s)] \notin {"shut", "gone"} /\ peer[s] # "gone") =>
            (Relaying /\ peer[s] = "shut" ~> Len(DataOf(got[Other(s)])) = sent[s])
=============================================================================
