-------------------------------- MODULE MCSocks --------------------------------
(***************************************************************************)
(* The clients and rule files that TLC gives SocksSession.                 *)
(***************************************************************************)
EXTENDS SocksSession

CONSTANTS near, far  \* two addresses

\* A plain request, one that names a domain, and a bind.
ToNear == [cd |-> "connect", host |-> near, named |-> FALSE]
ByName == [cd |-> "connect", host |-> near, named |-> TRUE]
BindNear == [cd |-> "bind", host |-> near, named |-> FALSE]
AllRequests == {ToNear, ByName, BindNear}

\* permit c *.*.*.* and permit b *.*.*.*; one address; a line that is no rule.
\* A file may have no line.
Everywhere == {near, far, Unset}
PermitAll == <<[cd |-> "connect", ips |-> Everywhere], [cd |-> "bind", ips |-> Everywhere]>>
PermitNear == <<[cd |-> "none", ips |-> {}], [cd |-> "connect", ips |-> {near}]>>
PermitFar == <<[cd |-> "connect", ips |-> {far}]>>

AllFiles == {PermitAll, PermitNear, PermitFar, <<>>}

ThreeEach == [s \in Side |-> 3]
=============================================================================
