---------------------------- MODULE TunnelStore ----------------------------
(***************************************************************************)
(* The tunnel registry of the control plane as the in-memory Store keeps   *)
(* it (apps/api-server/internal/platform/store.go): tunnels, the ports and *)
(* domains they reserve, and the subscriptions that entitle a user to      *)
(* them.  Every exported method of Store runs under the one mutex s.mu, so *)
(* each is a single action here; interleaving is between whole methods.    *)
(*                                                                         *)
(* A Go map is a function whose DOMAIN is the set of keys present.         *)
(* Clocks, identifiers and traffic are bounded by MaxTime, MaxTunnelID and *)
(* MaxTraffic; nothing else is.                                            *)
(***************************************************************************)
EXTENDS Integers, FiniteSets

CONSTANTS
  Users,        \* identifiers of users
  Nodes,        \* NodeID values a request may carry (0 is "no node")
  NatNodes,     \* the nodes of kind narwhal_nat: the forward call may fail
  Plans,        \* identifiers of the terms a subscription can be granted
  Terms,        \* [Plans -> PlanTerms]: what planToSub copies from a plan
  Types,        \* tunnel types that are requested
  Domains,      \* non-empty domain names
  NoDomain,     \* the empty domain of a tcp or udp tunnel
  SpeedDomain,  \* [1..MaxTunnelID -> Domains]: speed-<id>.<entry domain>
  PoolStart,    \* first port of the pool
  PoolEnd,      \* last port of the pool
  SpeedTTL,     \* lifetime of a speed-test tunnel
  MaxTunnelID,  \* bound: identifiers handed out
  MaxTime,      \* bound: the clock
  MaxTraffic    \* bound: bytes charged to one subscription

PortTypes   == {"tcp", "udp"}
DomainTypes == {"http", "https"}
AllTypes    == PortTypes \cup DomainTypes
TunnelIds   == 1..MaxTunnelID
Pool        == PoolStart..PoolEnd

PlanTerms ==
  [days : Nat, trafficLimit : Nat, maxTunnels : Nat, maxOfType : [AllTypes -> Nat],
   maxDomains : Nat, allow : SUBSET AllTypes, customDomain : BOOLEAN, autoCert : BOOLEAN]

ASSUME TypesAssumption   == Types \subseteq AllTypes
ASSUME PlanAssumption    == Terms \in [Plans -> PlanTerms]
ASSUME PoolAssumption    == PoolStart \in Nat \ {0} /\ PoolEnd \in Nat
ASSUME BoundAssumption   == MaxTunnelID \in Nat /\ MaxTime \in Nat /\ MaxTraffic \in Nat
ASSUME TTLAssumption     == SpeedTTL \in Nat
ASSUME DomainAssumption  == /\ NoDomain \notin Domains
                            /\ SpeedDomain \in [TunnelIds -> Domains]

VARIABLES
  tunnels,       \* s.tunnels: records are kept after deletion
  nextTunnelID,  \* s.nextTunnelID
  usedPorts,     \* s.usedPorts: the keys present
  domains,       \* s.domains: domain -> tunnel ID
  subs,          \* s.subscriptions: user -> terms, expiry and traffic used
  now            \* time.Now()

vars == <<tunnels, nextTunnelID, usedPorts, domains, subs, now>>

Statuses == {"active", "disabled", "deleted", "pending_domain_check", "pending_certificate"}

Tunnel ==
  [user : Users, node : Nodes, type : AllTypes, port : Nat, domain : Domains \cup {NoDomain},
   status : Statuses, speedTest : BOOLEAN, expires : Nat]

Subscription == [plan : Plans, expires : Nat, used : 0..MaxTraffic]

PortKeys == Nodes \X AllTypes \X Nat

TypeOK ==
  /\ tunnels \in [DOMAIN tunnels -> Tunnel]
  /\ DOMAIN tunnels \subseteq 1..(nextTunnelID - 1)
  /\ nextTunnelID \in 1..(MaxTunnelID + 1)
  /\ usedPorts \subseteq PortKeys
  /\ domains \in [DOMAIN domains -> TunnelIds]
  /\ DOMAIN domains \subseteq Domains
  /\ subs \in [DOMAIN subs -> Subscription]
  /\ DOMAIN subs \subseteq Users
  /\ now \in 0..MaxTime

Init ==
  /\ tunnels = [i \in {} |-> {}]
  /\ nextTunnelID = 1
  /\ usedPorts = {}
  /\ domains = [d \in {} |-> 0]
  /\ subs = [u \in {} |-> {}]
  /\ now = 0

-----------------------------------------------------------------------------
(* Reservations                                                            *)

PortKey(t) == <<t.node, t.type, t.port>>

\* The keys and domains that releaseTunnelLocked removes for the tunnels of S.
KeysOf(S)    == {PortKey(tunnels[i]) : i \in {j \in S : tunnels[j].port > 0}}
DomainsOf(S) == {tunnels[i].domain : i \in S}

Deleted(S)        == [i \in DOMAIN tunnels |->
                        IF i \in S THEN [tunnels[i] EXCEPT !.status = "deleted"] ELSE tunnels[i]]
PortsWithout(S)   == usedPorts \ KeysOf(S)
\* Fault: a release that forgets the domain index.
DomainsKept(S)    == [d \in DOMAIN domains |-> domains[d]]
DomainsWithout(S) == [d \in DOMAIN domains \ DomainsOf(S) |-> domains[d]]

\* Mark the tunnels of S deleted and release what they reserve.
Retire(S) ==
  /\ tunnels' = Deleted(S)
  /\ usedPorts' = PortsWithout(S)
  /\ domains' = DomainsWithout(S)

\* Speed tests past their deadline: what cleanupExpiredSpeedTestTunnelsLocked deletes.
Expired == {i \in DOMAIN tunnels : /\ tunnels[i].speedTest
                                   /\ tunnels[i].status # "deleted"
                                   /\ now >= tunnels[i].expires}

\* The ports allocatePortLocked finds free, after the clean-up that precedes it.
FreePorts(n, typ) == {p \in Pool : <<n, typ, p>> \notin PortsWithout(Expired)}

-----------------------------------------------------------------------------
(* What a subscription allows                                              *)

\* planToSub stores status "active"; a stored subscription never leaves it.
Entitled(u) ==
  /\ u \in DOMAIN subs
  /\ now <= subs[u].expires
  /\ LET limit == Terms[subs[u].plan].trafficLimit
     IN  limit > 0 => subs[u].used < limit

\* The tunnels of u that checkTunnelLimitsLocked counts (speed tests included).
Counted(ts, u) == {i \in DOMAIN ts : ts[i].user = u /\ ts[i].status \notin {"deleted", "disabled"}}

\* Fault: a limit that lets one more through.
UpTo(S, limit) == limit > 0 => Cardinality(S) <= limit

Below(S, limit) == limit > 0 => Cardinality(S) < limit

WithinLimits(u, typ) ==
  LET terms     == Terms[subs[u].plan]
      swept     == Deleted(Expired)
      counted   == Counted(swept, u)
      OfType(T) == {i \in counted : swept[i].type \in T}
  IN  /\ Below(counted, terms.maxTunnels)
      /\ Below(OfType({typ}), terms.maxOfType[typ])
      /\ typ \in DomainTypes => Below(OfType(DomainTypes), terms.maxDomains)

\* The protocol permissions; a speed test needs no custom domain and no certificate.
Permits(u, typ, speedTest) ==
  LET terms == Terms[subs[u].plan]
  IN  /\ typ \in terms.allow
      /\ typ \in DomainTypes /\ ~speedTest => terms.customDomain
      /\ typ = "https" /\ ~speedTest => terms.autoCert

-----------------------------------------------------------------------------
(* Creation.  Both constructors clean up expired speed tests first, even   *)
(* when they then refuse; both take an identifier before the last checks.  *)

InitialStatus(typ, speedTest) ==
  CASE speedTest \/ typ \in PortTypes -> "active"
    [] ~speedTest /\ typ = "http"     -> "pending_domain_check"
    [] OTHER                          -> "pending_certificate"

NewTunnel(u, n, typ, p, d, speedTest) ==
  [user |-> u, node |-> n, type |-> typ, port |-> p, domain |-> d,
   status |-> InitialStatus(typ, speedTest), speedTest |-> speedTest,
   expires |-> IF speedTest THEN now + SpeedTTL ELSE 0]

\* tunnels after the clean-up, with t stored under the identifier just taken.
Store(t) ==
  tunnels' = [i \in DOMAIN tunnels \cup {nextTunnelID} |->
                IF i = nextTunnelID THEN t ELSE Deleted(Expired)[i]]

GrantPort(u, n, typ, speedTest) ==
  /\ typ \in PortTypes
  /\ \E p \in FreePorts(n, typ) :
       /\ \A q \in FreePorts(n, typ) : p <= q
       /\ usedPorts' = PortsWithout(Expired) \cup {<<n, typ, p>>}
       /\ Store(NewTunnel(u, n, typ, p, NoDomain, speedTest))
  /\ domains' = DomainsWithout(Expired)

\* Fault: the domain is stored with the tunnel but not in the index.
GrantUnindexed(u, n, typ, d, speedTest) ==
  /\ typ \in DomainTypes
  /\ d \notin DOMAIN DomainsWithout(Expired)
  /\ domains' = DomainsWithout(Expired)
  /\ Store(NewTunnel(u, n, typ, 0, d, speedTest))
  /\ usedPorts' = PortsWithout(Expired)

\* Fault: the index is overwritten without a look at who holds the domain.
GrantTaken(u, n, typ, d, speedTest) ==
  /\ typ \in DomainTypes
  /\ domains' = [e \in DOMAIN DomainsWithout(Expired) \cup {d} |->
                   IF e = d THEN nextTunnelID ELSE domains[e]]
  /\ Store(NewTunnel(u, n, typ, 0, d, speedTest))
  /\ usedPorts' = PortsWithout(Expired)

GrantDomain(u, n, typ, d, speedTest) ==
  /\ typ \in DomainTypes
  /\ d \notin DOMAIN DomainsWithout(Expired)
  /\ domains' = [e \in DOMAIN DomainsWithout(Expired) \cup {d} |->
                   IF e = d THEN nextTunnelID ELSE domains[e]]
  /\ Store(NewTunnel(u, n, typ, 0, d, speedTest))
  /\ usedPorts' = PortsWithout(Expired)

\* Fault: the port of a failed forward is not given back.
ForwardFailsKeepsPort(n, typ, d) ==
  /\ n \in NatNodes
  /\ typ \in PortTypes
  /\ \E p \in FreePorts(n, typ) : usedPorts' = PortsWithout(Expired) \cup {<<n, typ, p>>}
  /\ tunnels' = Deleted(Expired)
  /\ domains' = DomainsWithout(Expired)

\* The NAT forward of a fresh port or virtual host failed: the reservation just
\* made is rolled back, the identifier is lost.
ForwardFails(n, typ, d) ==
  /\ n \in NatNodes
  /\ IF typ \in PortTypes THEN FreePorts(n, typ) # {} ELSE d \notin DOMAIN DomainsWithout(Expired)
  /\ Retire(Expired)

\* Nothing can be reserved: protocol not in the plan, pool exhausted, domain taken.
NothingToGrant(u, n, typ, d, speedTest) ==
  /\ \/ ~Permits(u, typ, speedTest)
     \/ typ \in PortTypes /\ FreePorts(n, typ) = {}
     \/ typ \in DomainTypes /\ d \in DOMAIN DomainsWithout(Expired)
  /\ Retire(Expired)

Admit(u, n, typ, d, speedTest) ==
  /\ nextTunnelID <= MaxTunnelID
  /\ nextTunnelID' = nextTunnelID + 1
  /\ \/ NothingToGrant(u, n, typ, d, speedTest)
     \/ Permits(u, typ, speedTest) /\ ForwardFails(n, typ, d)
     \/ Permits(u, typ, speedTest) /\ GrantPort(u, n, typ, speedTest)
     \/ Permits(u, typ, speedTest) /\ GrantDomain(u, n, typ, d, speedTest)
  /\ UNCHANGED <<subs, now>>

\* A request refused before an identifier is taken (no entitlement, over a limit,
\* malformed, unknown node) has still swept the expired speed tests.
Refuse ==
  /\ Retire(Expired)
  /\ UNCHANGED <<nextTunnelID, subs, now>>

CreateTunnel(u, n, typ, d) ==
  \/ Refuse
  \/ Entitled(u) /\ WithinLimits(u, typ) /\ Admit(u, n, typ, d, FALSE)

CreateSpeedTestTunnel(u, n, typ) ==
  \/ Refuse
  \/ /\ Entitled(u)
     /\ nextTunnelID \in TunnelIds
     /\ Admit(u, n, typ, SpeedDomain[nextTunnelID], TRUE)

-----------------------------------------------------------------------------
(* The other operations on a tunnel                                        *)

Owned(u, i) == i \in DOMAIN tunnels /\ tunnels[i].user = u

\* No test of the status: a speed test that is already deleted is released again.
FinishSpeedTestTunnel(u, i) ==
  /\ Owned(u, i)
  /\ tunnels[i].speedTest
  /\ Retire({i})
  /\ UNCHANGED <<nextTunnelID, subs, now>>

\* Fault: a deleted tunnel can be enabled again.
UpdateDeletedTunnel(u, i, status) ==
  /\ Owned(u, i)
  /\ ~tunnels[i].speedTest
  /\ status = "active" => Entitled(u)
  /\ tunnels' = [tunnels EXCEPT ![i].status = status]
  /\ UNCHANGED <<nextTunnelID, usedPorts, domains, subs, now>>

\* status is "active" or "disabled"; the limits are not consulted.
UpdateTunnelStatus(u, i, status) ==
  /\ Owned(u, i)
  /\ ~tunnels[i].speedTest
  /\ tunnels[i].status # "deleted"
  /\ status = "active" => Entitled(u)
  /\ tunnels' = [tunnels EXCEPT ![i].status = status]
  /\ UNCHANGED <<nextTunnelID, usedPorts, domains, subs, now>>

\* Fault: deleting twice releases twice.
DeleteAgain(u, i) ==
  /\ Owned(u, i)
  /\ Retire({i})
  /\ UNCHANGED <<nextTunnelID, subs, now>>

DeleteTunnel(u, i) ==
  /\ Owned(u, i)
  /\ tunnels[i].status # "deleted"
  /\ Retire({i})
  /\ UNCHANGED <<nextTunnelID, subs, now>>

\* Called by clientTunnels (every configuration sync) and by the constructors.
CleanupExpiredSpeedTestTunnels ==
  /\ Retire(Expired)
  /\ UNCHANGED <<nextTunnelID, subs, now>>

\* A report for tunnel i (0: for no tunnel in particular) of b bytes; a deleted
\* tunnel of the user still counts, one of somebody else is skipped.
ReportTraffic(u, i, b) ==
  /\ u \in DOMAIN subs
  /\ i = 0 \/ Owned(u, i)
  /\ subs[u].used + b <= MaxTraffic
  /\ subs' = [subs EXCEPT ![u].used = @ + b]
  /\ UNCHANGED <<tunnels, nextTunnelID, usedPorts, domains, now>>

\* A paid order, a redeemed code or an administrator replaces the subscription:
\* planToSub starts a new period with no traffic used.
GrantPlan(u, p) ==
  /\ subs' = [v \in DOMAIN subs \cup {u} |->
                IF v = u THEN [plan |-> p, expires |-> now + Terms[p].days, used |-> 0] ELSE subs[v]]
  /\ UNCHANGED <<tunnels, nextTunnelID, usedPorts, domains, now>>

Tick ==
  /\ now < MaxTime
  /\ now' = now + 1
  /\ UNCHANGED <<tunnels, nextTunnelID, usedPorts, domains, subs>>

\* Only http and https requests name a domain.
Requested(typ) == IF typ \in DomainTypes THEN Domains ELSE {NoDomain}

Next ==
  \/ \E u \in Users :
       \/ \E n \in Nodes, typ \in Types :
            \/ \E d \in Requested(typ) : CreateTunnel(u, n, typ, d)
            \/ CreateSpeedTestTunnel(u, n, typ)
       \/ \E i \in TunnelIds :
            \/ FinishSpeedTestTunnel(u, i)
            \/ \E status \in {"active", "disabled"} : UpdateTunnelStatus(u, i, status)
            \/ DeleteTunnel(u, i)
       \/ \E i \in 0..MaxTunnelID, b \in 1..MaxTraffic : ReportTraffic(u, i, b)
       \/ \E p \in Plans : GrantPlan(u, p)
  \/ CleanupExpiredSpeedTestTunnels
  \/ Tick

Spec == Init /\ [][Next]_vars

-----------------------------------------------------------------------------
(* Properties                                                              *)

Live(i)     == i \in DOMAIN tunnels /\ tunnels[i].status # "deleted"
HasPort(i)  == tunnels[i].port > 0
HasName(i)  == tunnels[i].domain # NoDomain

\* Two tunnels that compete for one public entry point of a node.
SamePort(i, j) == HasPort(i) /\ HasPort(j) /\ PortKey(tunnels[i]) = PortKey(tunnels[j])
SameName(i, j) == HasName(i) /\ HasName(j) /\ tunnels[i].domain = tunnels[j].domain

\* No reservation outlives its tunnel: every used port is the port of a live
\* tunnel, so a full pool is full of live tunnels (store.go releaseTunnelLocked on
\* every path that deletes, the roll-back when the NAT forward fails).
NoPortLeak ==
  \A k \in usedPorts : \E i \in DOMAIN tunnels : Live(i) /\ HasPort(i) /\ PortKey(tunnels[i]) = k

\* The domain index points to live tunnels that bear the domain: a deleted tunnel
\* never keeps a domain from being bound again, and userOwnsDomain's owner is real.
NoDomainLeak ==
  \A d \in DOMAIN domains : Live(domains[d]) /\ tunnels[domains[d]].domain = d

\* A deleted speed test had the same entry point.  FinishSpeedTestTunnel does not test the
\* status, so finishing that test again releases the entry point, whoever has it by then.
\* Whether that was done is not recorded.
TestHadPort(i) == \E k \in DOMAIN tunnels : tunnels[k].speedTest /\ ~Live(k) /\ SamePort(i, k)
TestHadName(i) == \E k \in DOMAIN tunnels : tunnels[k].speedTest /\ ~Live(k) /\ SameName(i, k)

\* A live tunnel still holds the reservation of its port, or a deleted speed test had
\* that very port before.
PortHeld ==
  \A i \in DOMAIN tunnels :
    Live(i) /\ HasPort(i) => PortKey(tunnels[i]) \in usedPorts \/ TestHadPort(i)

\* A live tunnel is still indexed under its domain, or a deleted speed test had that
\* very domain before.
NameHeld ==
  \A i \in DOMAIN tunnels :
    Live(i) /\ HasName(i) => tunnels[i].domain \in DOMAIN domains \/ TestHadName(i)

\* Two live tunnels share a public port of one node and protocol only where a
\* deleted speed test once held that very port.
PortConflictsExplained ==
  \A i, j \in DOMAIN tunnels :
    Live(i) /\ Live(j) /\ i # j /\ SamePort(i, j) => TestHadPort(i)

\* Two live tunnels share a domain only where a deleted speed test once held it.
NameConflictsExplained ==
  \A i, j \in DOMAIN tunnels :
    Live(i) /\ Live(j) /\ i # j /\ SameName(i, j) => TestHadName(i)

\* What the documents promise outright: a port is unique per node and protocol.
PortUnique ==
  \A i, j \in DOMAIN tunnels : Live(i) /\ Live(j) /\ i # j => ~SamePort(i, j)

\* The tunnels ts of user u, one of type typ among them, fit the plan of u.
FitsPlan(ts, u, typ) ==
  LET terms == Terms[subs[u].plan]
      AtMost(T, limit) ==
        limit > 0 => Cardinality({j \in Counted(ts, u) : ts[j].type \in T}) <= limit
  IN  /\ AtMost(AllTypes, terms.maxTunnels)
      /\ AtMost({typ}, terms.maxOfType[typ])
      /\ typ \in DomainTypes => AtMost(DomainTypes, terms.maxDomains)

CreationsFit ==
  \A i \in DOMAIN tunnels' \ DOMAIN tunnels :
    ~tunnels'[i].speedTest => FitsPlan(tunnels', tunnels'[i].user, tunnels'[i].type)

\* Creating a tunnel never takes its owner past the limits of the current plan,
\* whatever was enabled, disabled, deleted or re-granted before (CreateTunnel,
\* checkTunnelLimitsLocked).  Speed tests are not limited.
CreationWithinLimits == [][CreationsFit]_vars

-----------------------------------------------------------------------------
(* What the store implements                                               *)

\* The entry point of a tunnel is a port of its node or a domain, never both.
PointOf(t)  == IF t.port > 0 THEN <<"port", PortKey(t)>> ELSE <<"name", t.domain>>
GrantOf(t)  == [owner |-> t.user, point |-> PointOf(t), temporary |-> t.speedTest]
LiveTunnels == {i \in DOMAIN tunnels : Live(i)}
EndedTests  == {i \in DOMAIN tunnels : tunnels[i].speedTest /\ ~Live(i)}

\* What ports P and domains N make of the entry points.
AsPoints(P, N) == {<<"port", k>> : k \in P} \cup {<<"name", d>> : d \in N}

E == INSTANCE EntryPoints WITH
       Ids      <- TunnelIds,
       Owners   <- Users,
       Points   <- AsPoints(Nodes \X PortTypes \X Pool, Domains),
       live     <- [i \in LiveTunnels |-> GrantOf(tunnels[i])],
       known    <- DOMAIN tunnels,
       reserved <- AsPoints(usedPorts, DOMAIN domains),
       loose    <- {PointOf(tunnels[i]) : i \in EndedTests}

\* Seen from outside, the store grants entry points that are free, to one tunnel each,
\* and takes them back when that tunnel ends; only the second end of a speed test is
\* not what a caller of Backend would expect (every method of Store).
ImplementsEntryPoints == E!Spec
=============================================================================
