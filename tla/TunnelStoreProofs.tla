------------------------- MODULE TunnelStoreProofs -------------------------
(***************************************************************************)
(* Theorems about TunnelStore, for every value of its constants: the type  *)
(* invariant, and the ownership of ports and domains.                      *)
(*                                                                         *)
(* Ownership is proved from one inductive invariant, IInv.  Its lemmas     *)
(* follow the shape of the code: every step that releases something does   *)
(* it by retiring a set of tunnels (Retirable), the constructors retire    *)
(* the expired speed tests and then add one tunnel.                        *)
(***************************************************************************)
EXTENDS TunnelStore, FiniteSetTheorems, TLAPS

USE PoolAssumption, BoundAssumption, TTLAssumption, DomainAssumption, TypesAssumption, PlanAssumption

LEMMA InitType == Init => TypeOK
  BY DEF Init, TypeOK, TunnelIds

LEMMA DeletedType ==
  ASSUME TypeOK, NEW S
  PROVE  /\ Deleted(S) \in [DOMAIN tunnels -> Tunnel]
         /\ PortsWithout(S) \subseteq PortKeys
         /\ DomainsWithout(S) \in [DOMAIN DomainsWithout(S) -> TunnelIds]
         /\ DOMAIN DomainsWithout(S) \subseteq DOMAIN domains
  BY DEF TypeOK, Deleted, PortsWithout, DomainsWithout, Tunnel, Statuses

\* Retiring tunnels is well typed, whatever the set.
LEMMA RetireType ==
  ASSUME TypeOK, NEW S, Retire(S)
  PROVE  /\ tunnels' \in [DOMAIN tunnels -> Tunnel] /\ DOMAIN tunnels' = DOMAIN tunnels
         /\ usedPorts' \subseteq PortKeys
         /\ domains' \in [DOMAIN domains' -> TunnelIds] /\ DOMAIN domains' \subseteq Domains
  <1>1. DOMAIN Deleted(S) = DOMAIN tunnels
    BY DEF Deleted
  <1>2. QED
    BY <1>1, DeletedType DEF Retire, TypeOK

LEMMA NewTunnelType ==
  ASSUME TypeOK, NEW u \in Users, NEW n \in Nodes, NEW typ \in AllTypes, NEW p \in Nat,
         NEW d \in Domains \cup {NoDomain}, NEW b \in BOOLEAN
  PROVE  NewTunnel(u, n, typ, p, d, b) \in Tunnel
  <1>1. InitialStatus(typ, b) \in Statuses
    BY DEF InitialStatus, Statuses, AllTypes, PortTypes, DomainTypes
  <1>2. (IF b THEN now + SpeedTTL ELSE 0) \in Nat
    BY DEF TypeOK
  <1>3. QED
    BY <1>1, <1>2 DEF NewTunnel, Tunnel

LEMMA StoreType ==
  ASSUME TypeOK, NEW t \in Tunnel, Store(t)
  PROVE  /\ tunnels' \in [DOMAIN tunnels' -> Tunnel]
         /\ DOMAIN tunnels' = DOMAIN tunnels \cup {nextTunnelID}
  BY DeletedType DEF Store

LEMMA AdmitType ==
  ASSUME TypeOK, NEW u \in Users, NEW n \in Nodes, NEW typ \in Types,
         NEW d \in Domains \cup {NoDomain}, typ \in DomainTypes => d \in Domains,
         NEW b \in BOOLEAN, Admit(u, n, typ, d, b)
  PROVE  TypeOK'
  <1>1. /\ nextTunnelID \in TunnelIds /\ nextTunnelID' = nextTunnelID + 1
        /\ nextTunnelID' \in 1..(MaxTunnelID + 1)
    BY DEF Admit, TypeOK, TunnelIds
  <1>2. typ \in AllTypes
    OBVIOUS
  <1>3. CASE Retire(Expired)
    BY <1>1, <1>3, RetireType DEF Admit, TypeOK
  <1>4. CASE GrantPort(u, n, typ, b)
    <2>1. PICK p \in Pool : /\ usedPorts' = PortsWithout(Expired) \cup {<<n, typ, p>>}
                            /\ Store(NewTunnel(u, n, typ, p, NoDomain, b))
      BY <1>4 DEF GrantPort, FreePorts
    <2>2. p \in Nat
      BY DEF Pool
    <2>3. usedPorts' \subseteq PortKeys
      BY <1>2, <2>1, <2>2, DeletedType DEF PortKeys
    <2>4. NewTunnel(u, n, typ, p, NoDomain, b) \in Tunnel
      BY <1>2, <2>2, NewTunnelType
    <2>5. QED
      BY <1>1, <1>4, <2>1, <2>3, <2>4, StoreType, DeletedType DEF GrantPort, Admit, TypeOK
  <1>5. CASE GrantDomain(u, n, typ, d, b)
    <2>1. d \in Domains
      BY <1>5 DEF GrantDomain
    <2>2. NewTunnel(u, n, typ, 0, d, b) \in Tunnel
      BY <1>2, <2>1, NewTunnelType
    <2>3. DOMAIN domains' \subseteq Domains /\ domains' \in [DOMAIN domains' -> TunnelIds]
      BY <1>1, <1>5, <2>1, DeletedType DEF GrantDomain, TypeOK, DomainsWithout
    <2>4. usedPorts' \subseteq PortKeys
      BY <1>5, DeletedType DEF GrantDomain
    <2>5. QED
      BY <1>1, <1>5, <2>2, <2>3, <2>4, StoreType DEF GrantDomain, Admit, TypeOK
  <1>6. QED
    BY <1>3, <1>4, <1>5 DEF Admit, NothingToGrant, ForwardFails

\* Every step keeps the types: one step of the proof per action.
LEMMA NextType == TypeOK /\ [Next]_vars => TypeOK'
  <1> SUFFICES ASSUME TypeOK, [Next]_vars PROVE TypeOK'
    OBVIOUS
  <1>1. CASE Refuse \/ CleanupExpiredSpeedTestTunnels
    BY <1>1, RetireType DEF Refuse, CleanupExpiredSpeedTestTunnels, TypeOK
  <1>2. ASSUME NEW u \in Users, NEW n \in Nodes, NEW typ \in Types, NEW d \in Requested(typ),
               CreateTunnel(u, n, typ, d)
        PROVE  TypeOK'
    <2>1. d \in Domains \cup {NoDomain} /\ (typ \in DomainTypes => d \in Domains)
      BY DEF Requested
    <2>2. QED
      BY <1>1, <1>2, <2>1, AdmitType DEF CreateTunnel
  <1>3. ASSUME NEW u \in Users, NEW n \in Nodes, NEW typ \in Types, CreateSpeedTestTunnel(u, n, typ)
        PROVE  TypeOK'
    BY <1>1, <1>3, AdmitType DEF CreateSpeedTestTunnel
  <1>4. ASSUME NEW u \in Users, NEW i \in TunnelIds,
               FinishSpeedTestTunnel(u, i) \/ DeleteTunnel(u, i)
        PROVE  TypeOK'
    BY <1>4, RetireType DEF FinishSpeedTestTunnel, DeleteTunnel, TypeOK
  <1>5. ASSUME NEW u \in Users, NEW i \in TunnelIds, NEW status \in {"active", "disabled"},
               UpdateTunnelStatus(u, i, status)
        PROVE  TypeOK'
    BY <1>5 DEF UpdateTunnelStatus, Owned, TypeOK, Tunnel, Statuses
  <1>6. ASSUME NEW u \in Users, NEW i \in 0..MaxTunnelID, NEW b \in 1..MaxTraffic,
               ReportTraffic(u, i, b)
        PROVE  TypeOK'
    BY <1>6 DEF ReportTraffic, TypeOK, Subscription
  <1>7. ASSUME NEW u \in Users, NEW p \in Plans, GrantPlan(u, p)
        PROVE  TypeOK'
    <2>1. Terms[p].days \in Nat
      BY DEF PlanTerms
    <2>2. [plan |-> p, expires |-> now + Terms[p].days, used |-> 0] \in Subscription
      BY <2>1 DEF Subscription, TypeOK
    <2>3. QED
      BY <1>7, <2>2 DEF GrantPlan, TypeOK
  <1>8. CASE Tick
    BY <1>8 DEF Tick, TypeOK
  <1>9. CASE UNCHANGED vars
    BY <1>9 DEF vars, TypeOK
  <1>10. QED
    BY <1>1, <1>2, <1>3, <1>4, <1>5, <1>6, <1>7, <1>8, <1>9 DEF Next

\* The variables of the store always have the types its methods rely on.
THEOREM TypeCorrect == Spec => []TypeOK
  BY InitType, NextType, PTL DEF Spec

-----------------------------------------------------------------------------
(* Ownership of ports and domains                                          *)

IInv ==
  /\ NoPortLeak /\ PortHeld /\ PortConflictsExplained
  /\ NoDomainLeak /\ NameHeld /\ NameConflictsExplained

\* The code retires live tunnels, and speed tests in whatever state they are.
Retirable(S) == S \subseteq DOMAIN tunnels /\ \A i \in S : Live(i) \/ tunnels[i].speedTest

\* The next state still has every tunnel, those of S deleted.
Carried(S) == \A i \in DOMAIN tunnels : i \in DOMAIN tunnels' /\ tunnels'[i] = Deleted(S)[i]

LEMMA ExpiredRetirable == Retirable(Expired)
  BY DEF Retirable, Expired, Live

\* What a carried tunnel keeps.
LEMMA CarriedFields ==
  ASSUME TypeOK, NEW S, Carried(S), NEW i \in DOMAIN tunnels
  PROVE  /\ tunnels'[i].node = tunnels[i].node /\ tunnels'[i].type = tunnels[i].type
         /\ tunnels'[i].port = tunnels[i].port /\ tunnels'[i].domain = tunnels[i].domain
         /\ tunnels'[i].speedTest = tunnels[i].speedTest
         /\ i \in DOMAIN tunnels'
         /\ Live(i)' <=> Live(i) /\ i \notin S
  <1>1. i \in DOMAIN tunnels' /\ tunnels'[i] = Deleted(S)[i]
    BY DEF Carried
  <1>2. Deleted(S)[i] = IF i \in S THEN [tunnels[i] EXCEPT !.status = "deleted"] ELSE tunnels[i]
    BY DEF Deleted
  <1>3. tunnels[i] \in Tunnel
    BY DEF TypeOK
  <1>4. CASE i \in S
    <2>1. tunnels'[i] = [tunnels[i] EXCEPT !.status = "deleted"]
      BY <1>1, <1>2, <1>4
    <2>2. /\ tunnels'[i].node = tunnels[i].node /\ tunnels'[i].type = tunnels[i].type
          /\ tunnels'[i].port = tunnels[i].port /\ tunnels'[i].domain = tunnels[i].domain
          /\ tunnels'[i].speedTest = tunnels[i].speedTest
          /\ tunnels'[i].status = "deleted"
      BY <1>3, <2>1 DEF Tunnel
    <2>3. QED
      BY <1>1, <1>4, <2>2 DEF Live
  <1>5. CASE i \notin S
    <2>1. tunnels'[i] = tunnels[i]
      BY <1>1, <1>2, <1>5
    <2>2. QED
      BY <1>1, <1>5, <2>1 DEF Live
  <1>6. QED
    BY <1>4, <1>5

\* So entry points compare as before, and a double release stays one.
LEMMA CarriedKeys ==
  ASSUME TypeOK, NEW S, Carried(S), NEW i \in DOMAIN tunnels
  PROVE  /\ PortKey(tunnels[i])' = PortKey(tunnels[i]) /\ (HasPort(i)' <=> HasPort(i))
         /\ HasName(i)' <=> HasName(i)
         /\ \A j \in DOMAIN tunnels : /\ SamePort(i, j)' <=> SamePort(i, j)
                                      /\ SameName(i, j)' <=> SameName(i, j)
         /\ TestHadPort(i) => TestHadPort(i)'
         /\ TestHadName(i) => TestHadName(i)'
  <1>1. \A j \in DOMAIN tunnels : /\ PortKey(tunnels[j])' = PortKey(tunnels[j])
                                  /\ (HasPort(j)' <=> HasPort(j)) /\ (HasName(j)' <=> HasName(j))
    BY CarriedFields DEF PortKey, HasPort, HasName
  <1>2. \A j \in DOMAIN tunnels : /\ SamePort(i, j)' <=> SamePort(i, j)
                                  /\ SameName(i, j)' <=> SameName(i, j)
    BY <1>1, CarriedFields DEF SamePort, SameName
  <1>3. \A k \in DOMAIN tunnels : tunnels[k].speedTest /\ ~Live(k) =>
                                 k \in DOMAIN tunnels' /\ tunnels'[k].speedTest /\ ~Live(k)'
    BY CarriedFields
  <1>4. QED
    BY <1>1, <1>2, <1>3 DEF TestHadPort, TestHadName

\* Retiring S removes the key of a surviving tunnel only by a double release.
LEMMA RetireKeepsPorts ==
  ASSUME TypeOK, IInv, NEW S, Retirable(S), Carried(S)
  PROVE  /\ \A k \in PortsWithout(S) :
               \E i \in DOMAIN tunnels : Live(i)' /\ HasPort(i)' /\ PortKey(tunnels[i])' = k
         /\ \A i \in DOMAIN tunnels : Live(i)' /\ HasPort(i)' =>
               PortKey(tunnels[i])' \in PortsWithout(S) \/ TestHadPort(i)'
         /\ \A i, j \in DOMAIN tunnels :
               Live(i)' /\ Live(j)' /\ i # j /\ SamePort(i, j)' => TestHadPort(i)'
  <1>1. ASSUME NEW k \in PortsWithout(S)
        PROVE  \E i \in DOMAIN tunnels : Live(i)' /\ HasPort(i)' /\ PortKey(tunnels[i])' = k
    <2>1. PICK i \in DOMAIN tunnels : Live(i) /\ HasPort(i) /\ PortKey(tunnels[i]) = k
      BY DEF PortsWithout, IInv, NoPortLeak
    <2>2. i \notin S
      BY <2>1 DEF PortsWithout, KeysOf, HasPort
    <2>3. QED
      BY <2>1, <2>2, CarriedFields, CarriedKeys
  <1>2. ASSUME NEW i \in DOMAIN tunnels, Live(i)', HasPort(i)'
        PROVE  PortKey(tunnels[i])' \in PortsWithout(S) \/ TestHadPort(i)'
    <2>1. Live(i) /\ HasPort(i) /\ i \notin S
      BY <1>2, CarriedFields, CarriedKeys
    <2>2. CASE TestHadPort(i)
      BY <2>2, CarriedKeys
    <2>3. CASE PortKey(tunnels[i]) \in usedPorts /\ PortKey(tunnels[i]) \notin KeysOf(S)
      BY <2>3, CarriedKeys DEF PortsWithout
    <2>4. CASE PortKey(tunnels[i]) \in KeysOf(S)
      <3>1. PICK k \in S : HasPort(k) /\ PortKey(tunnels[k]) = PortKey(tunnels[i])
        BY <2>4 DEF KeysOf, HasPort
      <3>2. k \in DOMAIN tunnels /\ k # i /\ SamePort(i, k)
        BY <2>1, <3>1 DEF Retirable, SamePort
      <3>3. CASE Live(k)
        BY <2>1, <3>2, <3>3, CarriedKeys DEF IInv, PortConflictsExplained
      <3>4. CASE tunnels[k].speedTest
        <4>1. tunnels'[k].speedTest /\ ~Live(k)' /\ SamePort(i, k)' /\ k \in DOMAIN tunnels'
          BY <3>2, <3>4, CarriedFields, CarriedKeys
        <4>2. QED
          BY <4>1 DEF TestHadPort
      <3>5. QED
        BY <3>3, <3>4 DEF Retirable
    <2>5. QED
      BY <2>1, <2>2, <2>3, <2>4 DEF IInv, PortHeld
  <1>3. ASSUME NEW i \in DOMAIN tunnels, NEW j \in DOMAIN tunnels,
               Live(i)', Live(j)', i # j, SamePort(i, j)'
        PROVE  TestHadPort(i)'
    BY <1>3, CarriedFields, CarriedKeys DEF IInv, PortConflictsExplained
  <1>4. QED
    BY <1>1, <1>2, <1>3

\* The same of domains; the index never names a tunnel of S.
LEMMA RetireKeepsNames ==
  ASSUME TypeOK, IInv, NEW S, Retirable(S), Carried(S)
  PROVE  /\ \A d \in DOMAIN DomainsWithout(S) : \E i \in DOMAIN tunnels :
               DomainsWithout(S)[d] = i /\ Live(i)' /\ tunnels'[i].domain = d
         /\ \A i \in DOMAIN tunnels : Live(i)' /\ HasName(i)' =>
               tunnels'[i].domain \in DOMAIN DomainsWithout(S) \/ TestHadName(i)'
         /\ \A i, j \in DOMAIN tunnels :
               Live(i)' /\ Live(j)' /\ i # j /\ SameName(i, j)' => TestHadName(i)'
  <1>1. ASSUME NEW d \in DOMAIN DomainsWithout(S)
        PROVE  \E i \in DOMAIN tunnels : DomainsWithout(S)[d] = i /\ Live(i)' /\ tunnels'[i].domain = d
    <2>1. d \in DOMAIN domains /\ DomainsWithout(S)[d] = domains[d] /\ d \notin DomainsOf(S)
      BY DEF DomainsWithout
    <2>2. Live(domains[d]) /\ tunnels[domains[d]].domain = d
      BY <2>1 DEF IInv, NoDomainLeak
    <2>3. domains[d] \in DOMAIN tunnels /\ domains[d] \notin S
      BY <2>1, <2>2 DEF DomainsOf, Live
    <2>4. QED
      BY <2>1, <2>2, <2>3, CarriedFields
  <1>2. ASSUME NEW i \in DOMAIN tunnels, Live(i)', HasName(i)'
        PROVE  tunnels'[i].domain \in DOMAIN DomainsWithout(S) \/ TestHadName(i)'
    <2>1. Live(i) /\ HasName(i) /\ i \notin S /\ tunnels'[i].domain = tunnels[i].domain
      BY <1>2, CarriedFields, CarriedKeys
    <2>2. CASE TestHadName(i)
      BY <2>2, CarriedKeys
    <2>3. CASE tunnels[i].domain \in DOMAIN domains /\ tunnels[i].domain \notin DomainsOf(S)
      BY <2>1, <2>3 DEF DomainsWithout
    <2>4. CASE tunnels[i].domain \in DomainsOf(S)
      <3>1. PICK k \in S : tunnels[k].domain = tunnels[i].domain
        BY <2>4 DEF DomainsOf
      <3>2. k \in DOMAIN tunnels /\ k # i /\ SameName(i, k)
        BY <2>1, <3>1 DEF Retirable, SameName, HasName
      <3>3. CASE Live(k)
        BY <2>1, <3>2, <3>3, CarriedKeys DEF IInv, NameConflictsExplained
      <3>4. CASE tunnels[k].speedTest
        <4>1. tunnels'[k].speedTest /\ ~Live(k)' /\ SameName(i, k)' /\ k \in DOMAIN tunnels'
          BY <3>2, <3>4, CarriedFields, CarriedKeys
        <4>2. QED
          BY <4>1 DEF TestHadName
      <3>5. QED
        BY <3>3, <3>4 DEF Retirable
    <2>5. QED
      BY <2>1, <2>2, <2>3, <2>4 DEF IInv, NameHeld
  <1>3. ASSUME NEW i \in DOMAIN tunnels, NEW j \in DOMAIN tunnels,
               Live(i)', Live(j)', i # j, SameName(i, j)'
        PROVE  TestHadName(i)'
    BY <1>3, CarriedFields, CarriedKeys DEF IInv, NameConflictsExplained
  <1>4. QED
    BY <1>1, <1>2, <1>3

LEMMA RetireSound ==
  ASSUME TypeOK, IInv, NEW S, Retirable(S), Retire(S)
  PROVE  IInv'
  <1>1. Carried(S) /\ DOMAIN tunnels' = DOMAIN tunnels
    BY DEF Retire, Carried, Deleted
  <1>2. usedPorts' = PortsWithout(S) /\ domains' = DomainsWithout(S)
    BY DEF Retire
  <1>3. NoPortLeak' /\ PortHeld' /\ PortConflictsExplained'
    BY <1>1, <1>2, RetireKeepsPorts DEF NoPortLeak, PortHeld, PortConflictsExplained
  <1>4. NoDomainLeak'
    BY <1>1, <1>2, RetireKeepsNames DEF NoDomainLeak
  <1>5. NameHeld' /\ NameConflictsExplained'
    BY <1>1, <1>2, RetireKeepsNames DEF NameHeld, NameConflictsExplained
  <1>6. QED
    BY <1>3, <1>4, <1>5 DEF IInv

\* A constructor retires the expired tests and adds one tunnel, new, which is live.
Added(new) ==
  /\ new \in TunnelIds /\ new \notin DOMAIN tunnels
  /\ DOMAIN tunnels' = DOMAIN tunnels \cup {new}
  /\ Carried(Expired)
  /\ tunnels'[new].status # "deleted"

LEMMA StoreAdds ==
  ASSUME TypeOK, NEW u, NEW n, NEW typ \in AllTypes, NEW p, NEW d, NEW b \in BOOLEAN,
         nextTunnelID \in TunnelIds, Store(NewTunnel(u, n, typ, p, d, b))
  PROVE  Added(nextTunnelID) /\ tunnels'[nextTunnelID] = NewTunnel(u, n, typ, p, d, b)
  <1>1. nextTunnelID \notin DOMAIN tunnels
    BY DEF TypeOK
  <1>2. tunnels'[nextTunnelID] = NewTunnel(u, n, typ, p, d, b)
    BY DEF Store
  <1>3. InitialStatus(typ, b) # "deleted"
    BY DEF InitialStatus
  <1>4. Carried(Expired) /\ DOMAIN tunnels' = DOMAIN tunnels \cup {nextTunnelID}
    BY <1>1 DEF Store, Carried
  <1>5. QED
    BY <1>1, <1>2, <1>3, <1>4 DEF Added, NewTunnel

\* Adding a tunnel with a key that no reservation bears.
LEMMA AddWithPort ==
  ASSUME TypeOK, IInv, NEW new, Added(new), NEW key,
         tunnels'[new].port > 0, PortKey(tunnels'[new]) = key,
         key \notin PortsWithout(Expired), usedPorts' = PortsWithout(Expired) \cup {key}
  PROVE  NoPortLeak' /\ PortHeld' /\ PortConflictsExplained'
  <1>1. Live(new)' /\ HasPort(new)' /\ PortKey(tunnels[new])' = key
    BY DEF Added, Live, HasPort, PortKey
  <1>2. \A i \in DOMAIN tunnels' : i = new \/ i \in DOMAIN tunnels
    BY DEF Added
  <1>3. NoPortLeak'
    BY <1>1, ExpiredRetirable, RetireKeepsPorts DEF NoPortLeak, Added
  <1>4. PortHeld'
    BY <1>1, <1>2, ExpiredRetirable, RetireKeepsPorts DEF PortHeld, Added
  <1>5. ASSUME NEW j \in DOMAIN tunnels, Live(j)', SamePort(new, j)' \/ SamePort(j, new)'
        PROVE  TestHadPort(j)' /\ TestHadPort(new)'
    <2>1. HasPort(j)' /\ PortKey(tunnels[j])' = key
      BY <1>1, <1>5 DEF SamePort
    <2>2. TestHadPort(j)'
      BY <1>5, <2>1, ExpiredRetirable, RetireKeepsPorts DEF Added
    <2>3. QED
      BY <1>1, <2>1, <2>2 DEF TestHadPort, SamePort
  <1>6. PortConflictsExplained'
    BY <1>2, <1>5, ExpiredRetirable, RetireKeepsPorts DEF PortConflictsExplained, Added
  <1>7. QED
    BY <1>3, <1>4, <1>6

\* Adding a tunnel without a port leaves the ports as the clean-up left them.
LEMMA AddWithoutPort ==
  ASSUME TypeOK, IInv, NEW new, Added(new), tunnels'[new].port = 0,
         usedPorts' = PortsWithout(Expired)
  PROVE  NoPortLeak' /\ PortHeld' /\ PortConflictsExplained'
  <1>1. ~HasPort(new)'
    BY DEF HasPort
  <1>2. \A i \in DOMAIN tunnels' : i = new \/ i \in DOMAIN tunnels
    BY DEF Added
  <1>3. NoPortLeak'
    BY ExpiredRetirable, RetireKeepsPorts DEF NoPortLeak, Added
  <1>4. PortHeld'
    BY <1>1, <1>2, ExpiredRetirable, RetireKeepsPorts DEF PortHeld, Added
  <1>5. PortConflictsExplained'
    BY <1>1, <1>2, ExpiredRetirable, RetireKeepsPorts DEF PortConflictsExplained, SamePort, Added
  <1>6. QED
    BY <1>3, <1>4, <1>5

\* Adding a tunnel under a domain that is not in the index.
LEMMA AddWithName ==
  ASSUME TypeOK, IInv, NEW new, Added(new), NEW d \in Domains,
         tunnels'[new].domain = d, d \notin DOMAIN DomainsWithout(Expired),
         domains' = [e \in DOMAIN DomainsWithout(Expired) \cup {d} |->
                       IF e = d THEN new ELSE domains[e]]
  PROVE  NoDomainLeak' /\ NameHeld' /\ NameConflictsExplained'
  <1>1. Live(new)' /\ HasName(new)'
    BY DEF Added, Live, HasName
  <1>2. \A i \in DOMAIN tunnels' : i = new \/ i \in DOMAIN tunnels
    BY DEF Added
  <1>3. \A e \in DOMAIN DomainsWithout(Expired) : DomainsWithout(Expired)[e] = domains[e]
    BY DEF DomainsWithout
  <1>4. NoDomainLeak'
    BY <1>1, <1>3, ExpiredRetirable, RetireKeepsNames DEF NoDomainLeak, Added
  <1>5. NameHeld'
    BY <1>1, <1>2, ExpiredRetirable, RetireKeepsNames DEF NameHeld, Added
  <1>6. ASSUME NEW j \in DOMAIN tunnels, Live(j)', SameName(new, j)' \/ SameName(j, new)'
        PROVE  TestHadName(j)' /\ TestHadName(new)'
    <2>1. HasName(j)' /\ tunnels'[j].domain = d
      BY <1>6 DEF SameName
    <2>2. TestHadName(j)'
      BY <1>6, <2>1, ExpiredRetirable, RetireKeepsNames DEF Added
    <2>3. QED
      BY <1>1, <2>1, <2>2 DEF TestHadName, SameName
  <1>7. NameConflictsExplained'
    BY <1>2, <1>6, ExpiredRetirable, RetireKeepsNames DEF NameConflictsExplained, Added
  <1>8. QED
    BY <1>4, <1>5, <1>7

\* Adding a tunnel without a domain leaves the index as the clean-up left it.
LEMMA AddWithoutName ==
  ASSUME TypeOK, IInv, NEW new, Added(new), tunnels'[new].domain = NoDomain,
         domains' = DomainsWithout(Expired)
  PROVE  NoDomainLeak' /\ NameHeld' /\ NameConflictsExplained'
  <1>1. ~HasName(new)'
    BY DEF HasName
  <1>2. \A i \in DOMAIN tunnels' : i = new \/ i \in DOMAIN tunnels
    BY DEF Added
  <1>3. NoDomainLeak'
    BY ExpiredRetirable, RetireKeepsNames DEF NoDomainLeak, Added
  <1>4. NameHeld'
    BY <1>1, <1>2, ExpiredRetirable, RetireKeepsNames DEF NameHeld, Added
  <1>5. NameConflictsExplained'
    BY <1>1, <1>2, ExpiredRetirable, RetireKeepsNames DEF NameConflictsExplained, SameName, Added
  <1>6. QED
    BY <1>3, <1>4, <1>5

LEMMA AdmitSound ==
  ASSUME TypeOK, IInv, NEW u \in Users, NEW n \in Nodes, NEW typ \in AllTypes,
         NEW d, NEW b \in BOOLEAN, typ \in DomainTypes => d \in Domains, Admit(u, n, typ, d, b)
  PROVE  IInv'
  <1>1. nextTunnelID \in TunnelIds
    BY DEF Admit, TypeOK, TunnelIds
  <1>2. CASE Retire(Expired)
    BY <1>2, ExpiredRetirable, RetireSound
  <1>3. CASE GrantPort(u, n, typ, b)
    <2>1. PICK p \in FreePorts(n, typ) :
            /\ usedPorts' = PortsWithout(Expired) \cup {<<n, typ, p>>}
            /\ Store(NewTunnel(u, n, typ, p, NoDomain, b))
      BY <1>3 DEF GrantPort
    <2>2. Added(nextTunnelID) /\ tunnels'[nextTunnelID] = NewTunnel(u, n, typ, p, NoDomain, b)
      BY <1>1, <2>1, StoreAdds
    <2>3. /\ tunnels'[nextTunnelID].port > 0 /\ tunnels'[nextTunnelID].domain = NoDomain
          /\ PortKey(tunnels'[nextTunnelID]) = <<n, typ, p>>
          /\ <<n, typ, p>> \notin PortsWithout(Expired)
      BY <2>2 DEF NewTunnel, PortKey, FreePorts, Pool
    <2>4. domains' = DomainsWithout(Expired)
      BY <1>3 DEF GrantPort
    <2>5. QED
      BY <2>1, <2>2, <2>3, <2>4, AddWithPort, AddWithoutName DEF IInv
  <1>4. CASE GrantDomain(u, n, typ, d, b)
    <2>1. /\ d \in Domains /\ d \notin DOMAIN DomainsWithout(Expired)
          /\ usedPorts' = PortsWithout(Expired)
          /\ domains' = [e \in DOMAIN DomainsWithout(Expired) \cup {d} |->
                           IF e = d THEN nextTunnelID ELSE domains[e]]
          /\ Store(NewTunnel(u, n, typ, 0, d, b))
      BY <1>4 DEF GrantDomain
    <2>2. Added(nextTunnelID) /\ tunnels'[nextTunnelID] = NewTunnel(u, n, typ, 0, d, b)
      BY <1>1, <2>1, StoreAdds
    <2>3. tunnels'[nextTunnelID].port = 0 /\ tunnels'[nextTunnelID].domain = d
      BY <2>2 DEF NewTunnel
    <2>4. QED
      BY <2>1, <2>2, <2>3, AddWithName, AddWithoutPort DEF IInv
  <1>5. QED
    BY <1>2, <1>3, <1>4 DEF Admit, NothingToGrant, ForwardFails

\* Enabling or disabling a tunnel moves no reservation.
LEMMA UpdateSound ==
  ASSUME TypeOK, IInv, NEW u, NEW i, NEW status \in {"active", "disabled"},
         UpdateTunnelStatus(u, i, status)
  PROVE  IInv'
  <1>1. /\ i \in DOMAIN tunnels /\ tunnels[i].status # "deleted"
        /\ tunnels' = [tunnels EXCEPT ![i].status = status]
        /\ usedPorts' = usedPorts /\ domains' = domains
    BY DEF UpdateTunnelStatus, Owned
  <1>2. DOMAIN tunnels' = DOMAIN tunnels
    BY <1>1 DEF TypeOK
  <1>3. \A j \in DOMAIN tunnels :
          /\ tunnels'[j].node = tunnels[j].node /\ tunnels'[j].type = tunnels[j].type
          /\ tunnels'[j].port = tunnels[j].port /\ tunnels'[j].domain = tunnels[j].domain
          /\ tunnels'[j].speedTest = tunnels[j].speedTest
          /\ tunnels'[j].status = "deleted" <=> tunnels[j].status = "deleted"
    BY <1>1 DEF TypeOK, Tunnel
  <1>4. \A j \in DOMAIN tunnels :
          /\ Live(j)' <=> Live(j)
          /\ HasPort(j)' <=> HasPort(j)
          /\ HasName(j)' <=> HasName(j)
          /\ PortKey(tunnels[j])' = PortKey(tunnels[j])
    BY <1>2, <1>3 DEF Live, HasPort, HasName, PortKey
  <1>5. \A j, k \in DOMAIN tunnels :
          (SamePort(j, k)' <=> SamePort(j, k)) /\ (SameName(j, k)' <=> SameName(j, k))
    BY <1>3, <1>4 DEF SamePort, SameName
  <1>6. \A j \in DOMAIN tunnels : /\ TestHadPort(j)' <=> TestHadPort(j)
                                  /\ TestHadName(j)' <=> TestHadName(j)
    BY <1>2, <1>3, <1>4, <1>5 DEF TestHadPort, TestHadName
  <1>7. NoPortLeak' /\ PortHeld' /\ PortConflictsExplained'
    BY <1>1, <1>2, <1>4, <1>5, <1>6 DEF IInv, NoPortLeak, PortHeld, PortConflictsExplained
  <1>8. \A d \in DOMAIN domains : domains[d] \in DOMAIN tunnels
    BY DEF IInv, NoDomainLeak, Live
  <1>9. NoDomainLeak'
    BY <1>1, <1>2, <1>3, <1>4, <1>8 DEF IInv, NoDomainLeak
  <1>10. NameHeld' /\ NameConflictsExplained'
    BY <1>1, <1>2, <1>3, <1>4, <1>5, <1>6 DEF IInv, NameHeld, NameConflictsExplained
  <1>11. QED
    BY <1>7, <1>9, <1>10 DEF IInv

\* Steps that touch neither tunnels nor reservations.
LEMMA UnchangedSound ==
  ASSUME IInv, UNCHANGED <<tunnels, usedPorts, domains>>
  PROVE  IInv'
  <1>1. NoPortLeak'
    BY DEF IInv, NoPortLeak, HasPort, Live, PortKey
  <1>2. PortHeld' /\ PortConflictsExplained'
    BY DEF IInv, PortHeld, PortConflictsExplained, TestHadPort, SamePort, HasPort, Live, PortKey
  <1>3. NoDomainLeak'
    BY DEF IInv, NoDomainLeak, Live
  <1>4. NameHeld' /\ NameConflictsExplained'
    BY DEF IInv, NameHeld, NameConflictsExplained, TestHadName, SameName, HasName, Live
  <1>5. QED
    BY <1>1, <1>2, <1>3, <1>4 DEF IInv

LEMMA InitSound == Init => IInv
  BY DEF Init, IInv, NoPortLeak, PortHeld, PortConflictsExplained, NoDomainLeak, NameHeld,
         NameConflictsExplained

LEMMA NextSound == TypeOK /\ IInv /\ [Next]_vars => IInv'
  <1> SUFFICES ASSUME TypeOK, IInv, [Next]_vars PROVE IInv'
    OBVIOUS
  <1>1. CASE Refuse \/ CleanupExpiredSpeedTestTunnels
    BY <1>1, ExpiredRetirable, RetireSound DEF Refuse, CleanupExpiredSpeedTestTunnels
  <1>2. ASSUME NEW u \in Users, NEW n \in Nodes, NEW typ \in Types, NEW d \in Requested(typ),
               CreateTunnel(u, n, typ, d)
        PROVE  IInv'
    <2>1. typ \in DomainTypes => d \in Domains
      BY DEF Requested
    <2>2. QED
      BY <1>1, <1>2, <2>1, AdmitSound DEF CreateTunnel
  <1>3. ASSUME NEW u \in Users, NEW n \in Nodes, NEW typ \in Types, CreateSpeedTestTunnel(u, n, typ)
        PROVE  IInv'
    BY <1>1, <1>3, AdmitSound DEF CreateSpeedTestTunnel
  <1>4. ASSUME NEW u \in Users, NEW i \in TunnelIds,
               FinishSpeedTestTunnel(u, i) \/ DeleteTunnel(u, i)
        PROVE  IInv'
    <2>1. Retirable({i}) /\ Retire({i})
      BY <1>4 DEF FinishSpeedTestTunnel, DeleteTunnel, Owned, Retirable, Live
    <2>2. QED
      BY <2>1, RetireSound
  <1>5. ASSUME NEW u \in Users, NEW i \in TunnelIds, NEW status \in {"active", "disabled"},
               UpdateTunnelStatus(u, i, status)
        PROVE  IInv'
    BY <1>5, UpdateSound
  <1>6. ASSUME NEW u \in Users, NEW i \in 0..MaxTunnelID, NEW b \in 1..MaxTraffic,
               ReportTraffic(u, i, b)
        PROVE  IInv'
    BY <1>6, UnchangedSound DEF ReportTraffic
  <1>7. ASSUME NEW u \in Users, NEW p \in Plans, GrantPlan(u, p)
        PROVE  IInv'
    BY <1>7, UnchangedSound DEF GrantPlan
  <1>8. CASE Tick \/ UNCHANGED vars
    BY <1>8, UnchangedSound DEF Tick, vars
  <1>9. QED
    BY <1>1, <1>2, <1>3, <1>4, <1>5, <1>6, <1>7, <1>8 DEF Next

LEMMA Sound == Spec => []IInv
  BY InitSound, NextSound, TypeCorrect, PTL DEF Spec

\* Whatever the pool, the users and the order of calls, a used port always belongs
\* to a live tunnel: neither a failed creation nor a deletion strands one.
THEOREM PortsNeverLeak == Spec => []NoPortLeak
  BY Sound, PTL DEF IInv

\* The domain index always points to a live tunnel that bears the domain.
THEOREM DomainsNeverLeak == Spec => []NoDomainLeak
  BY Sound, PTL DEF IInv

\* Two live tunnels share a port only where a deleted speed test had it before, so
\* that finishing that test again could release it.
THEOREM PortsUniqueButForTests == Spec => []PortConflictsExplained
  BY Sound, PTL DEF IInv

\* Two live tunnels share a domain only where a deleted speed test had it before.
THEOREM NamesUniqueButForTests == Spec => []NameConflictsExplained
  BY Sound, PTL DEF IInv

\* A live tunnel with a port keeps its reservation until it is deleted, but for ports
\* that a deleted speed test had before.
THEOREM PortsHeldButForTests == Spec => []PortHeld
  BY Sound, PTL DEF IInv

\* A live tunnel with a domain stays in the index until it is deleted, but for domains
\* that a deleted speed test had before.
THEOREM NamesHeldButForTests == Spec => []NameHeld
  BY Sound, PTL DEF IInv

-----------------------------------------------------------------------------
(* What a step may do                                                      *)

\* Only the constructors add to the table; every other step keeps its domain, and
\* only an update to "active" makes a tunnel active again.
LEMMA StepKinds ==
  ASSUME TypeOK, [Next]_vars
  PROVE  \/ \E S \in SUBSET DOMAIN tunnels : Retire(S) /\ subs' = subs
         \/ \E u \in Users, i \in TunnelIds, status \in {"active", "disabled"} :
              UpdateTunnelStatus(u, i, status)
         \/ UNCHANGED tunnels
         \/ \E u \in Users, n \in Nodes, typ \in Types : \E d \in Requested(typ) :
              Entitled(u) /\ WithinLimits(u, typ) /\ Admit(u, n, typ, d, FALSE)
         \/ \E u \in Users, n \in Nodes, typ \in Types : \E d \in Domains :
              Entitled(u) /\ Admit(u, n, typ, d, TRUE)
  <1>1. Expired \in SUBSET DOMAIN tunnels
    BY DEF Expired
  <1>2. CASE Refuse \/ CleanupExpiredSpeedTestTunnels
    BY <1>1, <1>2 DEF Refuse, CleanupExpiredSpeedTestTunnels
  <1>3. ASSUME NEW u \in Users, NEW n \in Nodes, NEW typ \in Types, CreateSpeedTestTunnel(u, n, typ)
        PROVE  Refuse \/ \E d \in Domains : Entitled(u) /\ Admit(u, n, typ, d, TRUE)
    BY <1>3 DEF CreateSpeedTestTunnel
  <1>4. ASSUME NEW u \in Users, NEW i \in TunnelIds,
               FinishSpeedTestTunnel(u, i) \/ DeleteTunnel(u, i)
        PROVE  {i} \in SUBSET DOMAIN tunnels /\ Retire({i}) /\ subs' = subs
    BY <1>4 DEF FinishSpeedTestTunnel, DeleteTunnel, Owned
  <1>5. CASE Tick \/ UNCHANGED vars
    BY <1>5 DEF Tick, vars
  <1>6. ASSUME NEW u \in Users, NEW n \in Nodes, NEW typ \in Types, NEW d \in Requested(typ),
               CreateTunnel(u, n, typ, d)
        PROVE  Refuse \/ (Entitled(u) /\ WithinLimits(u, typ) /\ Admit(u, n, typ, d, FALSE))
    BY <1>6 DEF CreateTunnel
  <1>7. ASSUME NEW u \in Users, NEW i \in 0..MaxTunnelID, NEW b \in 1..MaxTraffic, ReportTraffic(u, i, b)
        PROVE  UNCHANGED tunnels
    BY <1>7 DEF ReportTraffic
  <1>8. ASSUME NEW u \in Users, NEW p \in Plans, GrantPlan(u, p) PROVE UNCHANGED tunnels
    BY <1>8 DEF GrantPlan
  <1>9. QED
    BY <1>2, <1>3, <1>4, <1>5, <1>6, <1>7, <1>8 DEF Next

\* A constructor either retires the expired tests or adds one tunnel of the caller.
LEMMA AdmitAdds ==
  ASSUME TypeOK, NEW u \in Users, NEW n \in Nodes, NEW typ \in Types, NEW d, NEW b \in BOOLEAN,
         Admit(u, n, typ, d, b)
  PROVE  /\ subs' = subs
         /\ \/ Retire(Expired)
            \/ \E p, e : /\ Added(nextTunnelID)
                         /\ tunnels'[nextTunnelID] = NewTunnel(u, n, typ, p, e, b)
  <1>1. nextTunnelID \in TunnelIds /\ subs' = subs /\ typ \in AllTypes
    BY DEF Admit, TypeOK, TunnelIds
  <1>2. CASE GrantPort(u, n, typ, b)
    <2>1. PICK p \in Pool : Store(NewTunnel(u, n, typ, p, NoDomain, b))
      BY <1>2 DEF GrantPort, FreePorts
    <2>2. QED
      BY <1>1, <2>1, StoreAdds
  <1>3. CASE GrantDomain(u, n, typ, d, b)
    <2>1. Store(NewTunnel(u, n, typ, 0, d, b))
      BY <1>3 DEF GrantDomain
    <2>2. QED
      BY <1>1, <2>1, StoreAdds
  <1>4. QED
    BY <1>1, <1>2, <1>3 DEF Admit, NothingToGrant, ForwardFails

\* Counting one tunnel more after the clean-up stays at or below a limit that the
\* tunnels counted before were strictly below.
LEMMA OneMoreFits ==
  ASSUME TypeOK, NEW new, Added(new), NEW u, NEW T, NEW limit \in Nat, limit > 0,
         Cardinality({i \in Counted(Deleted(Expired), u) : Deleted(Expired)[i].type \in T}) < limit
  PROVE  Cardinality({j \in Counted(tunnels', u) : tunnels'[j].type \in T}) <= limit
  <1> DEFINE before == {i \in Counted(Deleted(Expired), u) : Deleted(Expired)[i].type \in T}
             after  == {j \in Counted(tunnels', u) : tunnels'[j].type \in T}
  <1>1. DOMAIN Deleted(Expired) = DOMAIN tunnels
    BY DEF Deleted
  <1>2. after \subseteq before \cup {new}
    BY <1>1 DEF Counted, Added, Carried
  <1>3. IsFiniteSet(1..(nextTunnelID - 1))
    <2>1. nextTunnelID - 1 \in Int
      BY DEF TypeOK
    <2>2. QED
      BY <2>1, FS_Interval
  <1>4. before \subseteq 1..(nextTunnelID - 1)
    BY <1>1 DEF Counted, TypeOK
  <1>5. IsFiniteSet(before)
    BY <1>3, <1>4, FS_Subset
  <1>6. Cardinality(before) < limit
    OBVIOUS
  <1> HIDE DEF before, after
  <1>7. /\ IsFiniteSet(before \cup {new}) /\ Cardinality(before) \in Nat
        /\ Cardinality(before \cup {new}) <= Cardinality(before) + 1
    <2>1. Cardinality(before) \in Nat
      BY <1>5, FS_CardinalityType
    <2>2. /\ IsFiniteSet(before \cup {new})
          /\ Cardinality(before \cup {new}) =
               IF new \in before THEN Cardinality(before) ELSE Cardinality(before) + 1
      BY <1>5, FS_AddElement
    <2>3. QED
      BY <2>1, <2>2
  <1>8. Cardinality(after) <= Cardinality(before \cup {new}) /\ IsFiniteSet(after)
    BY <1>2, <1>7, FS_Subset
  <1>9. Cardinality(after) \in Nat /\ Cardinality(before \cup {new}) \in Nat
    BY <1>7, <1>8, FS_CardinalityType
  <1>10. Cardinality(after) <= limit
    BY <1>6, <1>7, <1>8, <1>9
  <1>11. QED
    BY <1>10 DEF after

\* The tunnel that a checked creation adds leaves its owner within the plan.
LEMMA CreationFits ==
  ASSUME TypeOK, NEW u \in Users, NEW n, NEW typ \in AllTypes, NEW p, NEW e,
         Entitled(u), WithinLimits(u, typ),
         NEW new, Added(new), tunnels'[new] = NewTunnel(u, n, typ, p, e, FALSE)
  PROVE  FitsPlan(tunnels', u, typ)
  <1> DEFINE terms     == Terms[subs[u].plan]
             OfType(T) == {i \in Counted(Deleted(Expired), u) : Deleted(Expired)[i].type \in T}
  <1>1. terms \in PlanTerms
    BY DEF Entitled, TypeOK, Subscription
  <1>2. terms.maxTunnels \in Nat /\ terms.maxOfType[typ] \in Nat /\ terms.maxDomains \in Nat
    BY <1>1 DEF PlanTerms
  <1>3. OfType(AllTypes) = Counted(Deleted(Expired), u)
    <2>1. \A i \in DOMAIN Deleted(Expired) : Deleted(Expired)[i].type \in AllTypes
      BY DeletedType DEF Tunnel
    <2>2. QED
      BY <2>1 DEF Counted
  <1>4. /\ terms.maxTunnels > 0 => Cardinality(OfType(AllTypes)) < terms.maxTunnels
        /\ terms.maxOfType[typ] > 0 => Cardinality(OfType({typ})) < terms.maxOfType[typ]
        /\ typ \in DomainTypes /\ terms.maxDomains > 0 => Cardinality(OfType(DomainTypes)) < terms.maxDomains
    BY <1>3 DEF WithinLimits, Below
  <1>5. ASSUME NEW T, NEW limit \in Nat, limit > 0, Cardinality(OfType(T)) < limit
        PROVE  Cardinality({j \in Counted(tunnels', u) : tunnels'[j].type \in T}) <= limit
    BY <1>5, OneMoreFits
  <1> HIDE DEF OfType
  <1>6. QED
    BY <1>2, <1>4, <1>5 DEF FitsPlan

LEMMA StepWithinLimits == TypeOK /\ [Next]_vars => CreationsFit
  <1> SUFFICES ASSUME TypeOK, [Next]_vars,
                      NEW i \in DOMAIN tunnels' \ DOMAIN tunnels, ~tunnels'[i].speedTest
               PROVE  FitsPlan(tunnels', tunnels'[i].user, tunnels'[i].type)
    BY DEF CreationsFit
  <1>1. ASSUME NEW S, Retire(S) PROVE FALSE
    BY <1>1 DEF Retire, Deleted
  <1>2. ASSUME NEW u \in Users, NEW j \in TunnelIds, NEW status, UpdateTunnelStatus(u, j, status)
        PROVE  FALSE
    BY <1>2 DEF UpdateTunnelStatus, Owned, TypeOK
  <1>3. PICK u \in Users, n \in Nodes, typ \in Types :
          \/ \E d \in Requested(typ) : Entitled(u) /\ WithinLimits(u, typ) /\ Admit(u, n, typ, d, FALSE)
          \/ \E d \in Domains : Entitled(u) /\ Admit(u, n, typ, d, TRUE)
    BY <1>1, <1>2, StepKinds
  <1>4. ASSUME NEW d, NEW b \in BOOLEAN, Admit(u, n, typ, d, b)
        PROVE  \E p, e : Added(i) /\ tunnels'[i] = NewTunnel(u, n, typ, p, e, b)
    <2>1. PICK p, e : Added(nextTunnelID) /\ tunnels'[nextTunnelID] = NewTunnel(u, n, typ, p, e, b)
      BY <1>1, <1>4, AdmitAdds
    <2>2. i = nextTunnelID
      BY <2>1 DEF Added
    <2>3. QED
      BY <2>1, <2>2
  <1>5. ASSUME NEW d \in Domains, Admit(u, n, typ, d, TRUE)
        PROVE  FALSE
    <2>1. PICK p, e : tunnels'[i] = NewTunnel(u, n, typ, p, e, TRUE)
      BY <1>4, <1>5
    <2>2. QED
      BY <2>1 DEF NewTunnel
  <1>6. PICK d \in Requested(typ) : Entitled(u) /\ WithinLimits(u, typ) /\ Admit(u, n, typ, d, FALSE)
    BY <1>3, <1>5
  <1>7. PICK p, e : Added(i) /\ tunnels'[i] = NewTunnel(u, n, typ, p, e, FALSE)
    BY <1>4, <1>6
  <1>8. tunnels'[i].user = u /\ tunnels'[i].type = typ /\ typ \in AllTypes
    BY <1>7 DEF NewTunnel
  <1>9. QED
    BY <1>6, <1>7, <1>8, CreationFits

\* No creation takes a user past the limits of the plan, for every plan and history.
THEOREM CreationsRespectPlans == Spec => CreationWithinLimits
  <1>1. TypeOK /\ [Next]_vars => [CreationsFit]_vars
    BY StepWithinLimits
  <1>2. QED
    BY <1>1, TypeCorrect, PTL DEF Spec, CreationWithinLimits

-----------------------------------------------------------------------------
(* The store implements EntryPoints                                        *)

\* A tunnel with a port has no domain, so one entry point is all it can release.
OneKind == \A i \in DOMAIN tunnels : tunnels[i].port > 0 => tunnels[i].domain = NoDomain

LEMMA OneKindStep == TypeOK /\ OneKind /\ [Next]_vars => OneKind'
  <1> SUFFICES ASSUME TypeOK, OneKind, [Next]_vars PROVE OneKind'
    OBVIOUS
  <1>1. ASSUME NEW S, Retire(S) PROVE OneKind'
    <2>1. Carried(S) /\ DOMAIN tunnels' = DOMAIN tunnels
      BY <1>1 DEF Retire, Carried, Deleted
    <2>2. QED
      BY <2>1, CarriedFields DEF OneKind
  <1>2. ASSUME NEW u \in Users, NEW i \in TunnelIds, NEW status, UpdateTunnelStatus(u, i, status)
        PROVE  OneKind'
    BY <1>2 DEF UpdateTunnelStatus, TypeOK, OneKind, Tunnel
  <1>3. CASE UNCHANGED tunnels
    BY <1>3 DEF OneKind
  <1>4. ASSUME NEW u \in Users, NEW n \in Nodes, NEW typ \in Types, NEW d, NEW b \in BOOLEAN,
               Admit(u, n, typ, d, b)
        PROVE  OneKind'
    <2>1. typ \in AllTypes /\ nextTunnelID \in TunnelIds
      BY <1>4 DEF Admit, TypeOK, TunnelIds
    <2>2. ASSUME NEW p, NEW e, Store(NewTunnel(u, n, typ, p, e, b)), p = 0 \/ e = NoDomain
          PROVE  OneKind'
      <3>1. Added(nextTunnelID) /\ tunnels'[nextTunnelID] = NewTunnel(u, n, typ, p, e, b)
        BY <2>1, <2>2, StoreAdds
      <3>2. tunnels'[nextTunnelID].port = p /\ tunnels'[nextTunnelID].domain = e
        BY <3>1 DEF NewTunnel
      <3>3. \A i \in DOMAIN tunnels' : i = nextTunnelID \/ i \in DOMAIN tunnels
        BY <3>1 DEF Added
      <3>4. Carried(Expired)
        BY <3>1 DEF Added
      <3>5. QED
        BY <2>2, <3>2, <3>3, <3>4, CarriedFields DEF OneKind
    <2>3. QED
      BY <1>1, <1>4, <2>2 DEF Admit, NothingToGrant, ForwardFails, GrantPort, GrantDomain
  <1>5. QED
    BY <1>1, <1>2, <1>3, <1>4, StepKinds

\* How the entry points of the tunnels read in EntryPoints.
LEMMA AbstractPoints ==
  ASSUME NEW S \in SUBSET LiveTunnels
  PROVE  /\ E!PointsOf(S) = {PointOf(tunnels[i]) : i \in S}
         /\ E!Temporary(S) = {i \in S : tunnels[i].speedTest}
         /\ E!PointsOf(E!Temporary(S)) = {PointOf(tunnels[i]) : i \in {j \in S : tunnels[j].speedTest}}
  BY DEF E!PointsOf, E!Temporary, GrantOf

\* Releasing the keys and domains of S releases exactly the entry points of S.
LEMMA Released ==
  ASSUME TypeOK, OneKind, NEW S \in SUBSET DOMAIN tunnels
  PROVE  AsPoints(PortsWithout(S), DOMAIN DomainsWithout(S))
           = AsPoints(usedPorts, DOMAIN domains) \ {PointOf(tunnels[i]) : i \in S}
  <1>1. \A i \in S : tunnels[i].port \in Nat
    BY DEF TypeOK, Tunnel
  <1>2. ASSUME NEW k \in usedPorts
        PROVE  k \in KeysOf(S) <=> <<"port", k>> \in {PointOf(tunnels[i]) : i \in S}
    BY <1>1 DEF KeysOf, PointOf
  <1>3. ASSUME NEW d \in DOMAIN domains
        PROVE  d \in DomainsOf(S) <=> <<"name", d>> \in {PointOf(tunnels[i]) : i \in S}
    <2>1. d # NoDomain
      BY DEF TypeOK
    <2>2. \A i \in S : tunnels[i].domain = d => ~(tunnels[i].port > 0)
      BY <2>1 DEF OneKind
    <2>3. QED
      BY <2>2 DEF DomainsOf, PointOf
  <1>4. DOMAIN DomainsWithout(S) = DOMAIN domains \ DomainsOf(S)
    BY DEF DomainsWithout
  <1>5. QED
    BY <1>2, <1>3, <1>4 DEF AsPoints, PortsWithout

\* What the abstract tunnels are after the live tunnels of S were retired, and perhaps
\* others added.
LEMMA CarriedGrants ==
  ASSUME TypeOK, NEW S \in SUBSET LiveTunnels, Carried(S)
  PROVE  /\ \A i \in DOMAIN tunnels : GrantOf(tunnels[i])' = GrantOf(tunnels[i])
         /\ \A i \in DOMAIN tunnels : PointOf(tunnels[i])' = PointOf(tunnels[i])
         /\ \A i \in DOMAIN tunnels : i \in LiveTunnels' <=> i \in LiveTunnels \ S
         /\ \A i \in DOMAIN tunnels :
              i \in EndedTests' <=> i \in EndedTests \cup {j \in S : tunnels[j].speedTest}
  <1>1. \A i \in DOMAIN tunnels : PointOf(tunnels[i])' = PointOf(tunnels[i])
    BY CarriedFields DEF PointOf, PortKey
  <1>2. \A i \in DOMAIN tunnels : tunnels'[i].user = tunnels[i].user
    <2> SUFFICES ASSUME NEW i \in DOMAIN tunnels PROVE tunnels'[i].user = tunnels[i].user
      OBVIOUS
    <2>1. tunnels'[i] = IF i \in S THEN [tunnels[i] EXCEPT !.status = "deleted"] ELSE tunnels[i]
      BY DEF Carried, Deleted
    <2>2. QED
      BY <2>1 DEF TypeOK, Tunnel
  <1>3. \A i \in DOMAIN tunnels : GrantOf(tunnels[i])' = GrantOf(tunnels[i])
    BY <1>1, <1>2, CarriedFields DEF GrantOf
  <1>4. \A i \in DOMAIN tunnels : i \in LiveTunnels' <=> i \in LiveTunnels \ S
    BY CarriedFields DEF LiveTunnels
  <1>5. \A i \in DOMAIN tunnels :
          i \in EndedTests' <=> i \in EndedTests \cup {j \in S : tunnels[j].speedTest}
    BY CarriedFields DEF EndedTests, LiveTunnels
  <1>6. QED
    BY <1>1, <1>3, <1>4, <1>5

\* In both the constructors and the deletions, the points of the temporary tunnels of S
\* become loose; no other point does.
LEMMA CarriedLoose ==
  ASSUME TypeOK, NEW S \in SUBSET LiveTunnels, Carried(S),
         \A i \in DOMAIN tunnels' \ DOMAIN tunnels : i \in LiveTunnels'
  PROVE  {PointOf(tunnels[i]) : i \in EndedTests}'
           = {PointOf(tunnels[i]) : i \in EndedTests}
               \cup {PointOf(tunnels[i]) : i \in {j \in S : tunnels[j].speedTest}}
  <1>1. EndedTests' = EndedTests \cup {j \in S : tunnels[j].speedTest}
    <2>1. EndedTests' \subseteq DOMAIN tunnels
      BY DEF EndedTests, LiveTunnels
    <2>2. EndedTests \subseteq DOMAIN tunnels /\ S \subseteq DOMAIN tunnels
      BY DEF EndedTests, LiveTunnels
    <2>3. QED
      BY <2>1, <2>2, CarriedGrants
  <1>2. EndedTests' \subseteq DOMAIN tunnels
    BY <1>1 DEF EndedTests, LiveTunnels
  <1>3. QED
    BY <1>1, <1>2, CarriedGrants

\* Retiring live tunnels, one or all of them temporary, ends them.
LEMMA RetireEnds ==
  ASSUME TypeOK, OneKind, NEW S \in SUBSET LiveTunnels, Retire(S),
         (\A i \in S : tunnels[i].speedTest) \/ \E i \in LiveTunnels : S = {i}
  PROVE  E!Next
  <1> DEFINE T == {PointOf(tunnels[i]) : i \in {j \in S : tunnels[j].speedTest}}
  <1>1. Carried(S) /\ DOMAIN tunnels' = DOMAIN tunnels
    BY DEF Retire, Carried, Deleted
  <1>2. E!PointsOf(S) = {PointOf(tunnels[i]) : i \in S} /\ E!PointsOf(E!Temporary(S)) = T
    BY AbstractPoints
  <1>3. E!Leave(S, T)
    BY <1>1, <1>2, CarriedLoose DEF E!Leave
  <1>4. LiveTunnels' = LiveTunnels \ S
    BY <1>1, CarriedGrants DEF LiveTunnels
  <1>5. [i \in LiveTunnels |-> GrantOf(tunnels[i])]'
          = [i \in LiveTunnels \ S |-> GrantOf(tunnels[i])]
    <2>1. \A i \in LiveTunnels \ S : GrantOf(tunnels[i])' = GrantOf(tunnels[i])
      BY <1>1, CarriedGrants DEF LiveTunnels
    <2>2. QED
      BY <1>4, <2>1
  <1>6. AsPoints(usedPorts, DOMAIN domains)' = AsPoints(usedPorts, DOMAIN domains) \ E!PointsOf(S)
    <2>1. S \in SUBSET DOMAIN tunnels
      BY DEF LiveTunnels
    <2>2. QED
      BY <1>2, <2>1, Released DEF Retire, AsPoints
  <1>7. S = E!Temporary(S) \/ \E i \in LiveTunnels : S = {i}
    BY AbstractPoints
  <1> HIDE DEF T
  <1>8. E!End(S, T)
    BY <1>1, <1>3, <1>5, <1>6, <1>7 DEF E!End
  <1>9. T \in SUBSET E!PointsOf(S)
    BY <1>2 DEF E!PointsOf, E!Temporary
  <1>10. QED
    BY <1>8, <1>9 DEF E!Next

\* A creation ends the expired tests and grants one free entry point.
LEMMA CreationGrants ==
  ASSUME TypeOK, OneKind, NEW new, Added(new), tunnels'[new].user \in Users,
         tunnels'[new].speedTest \in BOOLEAN,
         PointOf(tunnels'[new]) \in AsPoints(Nodes \X PortTypes \X Pool, Domains),
         PointOf(tunnels'[new]) \notin AsPoints(PortsWithout(Expired), DOMAIN DomainsWithout(Expired)),
         AsPoints(usedPorts', DOMAIN domains')
           = AsPoints(PortsWithout(Expired), DOMAIN DomainsWithout(Expired)) \cup {PointOf(tunnels'[new])}
  PROVE  E!Next
  <1> DEFINE S == Expired
             T == {PointOf(tunnels[i]) : i \in {j \in S : tunnels[j].speedTest}}
             g == GrantOf(tunnels'[new])
  <1>1. S \in SUBSET LiveTunnels /\ S \in SUBSET DOMAIN tunnels
    BY DEF Expired, LiveTunnels, Live
  <1>2. E!PointsOf(S) = {PointOf(tunnels[i]) : i \in S} /\ E!PointsOf(E!Temporary(S)) = T
    BY <1>1, AbstractPoints
  <1>3. S = E!Temporary(S)
    BY <1>1, AbstractPoints DEF Expired
  <1>4. Carried(S) /\ DOMAIN tunnels' = DOMAIN tunnels \cup {new} /\ new \in LiveTunnels'
    BY DEF Added, LiveTunnels, Live
  <1>5. E!Leave(S, T)
    <2>1. \A i \in DOMAIN tunnels' \ DOMAIN tunnels : i \in LiveTunnels'
      BY <1>4
    <2>2. QED
      BY <1>1, <1>2, <1>4, <2>1, CarriedLoose DEF E!Leave
  <1>6. LiveTunnels' = (LiveTunnels \ S) \cup {new}
    BY <1>1, <1>4, CarriedGrants DEF LiveTunnels
  <1>7. [i \in LiveTunnels |-> GrantOf(tunnels[i])]'
          = [i \in (LiveTunnels \ S) \cup {new} |->
               IF i = new THEN g ELSE [j \in LiveTunnels |-> GrantOf(tunnels[j])][i]]
    <2>1. \A i \in LiveTunnels \ S : i # new /\ GrantOf(tunnels[i])' = GrantOf(tunnels[i])
      BY <1>1, <1>4, CarriedGrants DEF LiveTunnels, Added
    <2>2. GrantOf(tunnels[new])' = g
      BY DEF GrantOf, PointOf, PortKey
    <2>3. QED
      BY <1>6, <2>1, <2>2
  <1>8. AsPoints(PortsWithout(S), DOMAIN DomainsWithout(S))
          = AsPoints(usedPorts, DOMAIN domains) \ E!PointsOf(S)
    BY <1>1, <1>2, Released
  <1>9. g \in E!Grants /\ g.point = PointOf(tunnels'[new])
    BY DEF E!Grants, GrantOf
  <1>10. /\ g.point \notin AsPoints(usedPorts, DOMAIN domains) \ E!PointsOf(S)
         /\ AsPoints(usedPorts, DOMAIN domains)'
              = (AsPoints(usedPorts, DOMAIN domains) \ E!PointsOf(S)) \cup {g.point}
    <2>1. AsPoints(usedPorts, DOMAIN domains)' = AsPoints(usedPorts', DOMAIN domains')
      BY DEF AsPoints
    <2>2. QED
      BY <1>8, <1>9, <2>1
  <1>11. new \in TunnelIds \ DOMAIN tunnels
    BY DEF Added
  <1>12. DOMAIN [i \in LiveTunnels |-> GrantOf(tunnels[i])] = LiveTunnels
    OBVIOUS
  <1> HIDE DEF S, T, g
  <1>13. E!Grant(S, T)
    <2>1. [i \in LiveTunnels |-> GrantOf(tunnels[i])]'
            = [j \in (DOMAIN [i \in LiveTunnels |-> GrantOf(tunnels[i])] \ S) \cup {new} |->
                 IF j = new THEN g ELSE [i \in LiveTunnels |-> GrantOf(tunnels[i])][j]]
      BY <1>7, <1>12
    <2>2. (DOMAIN tunnels)' = DOMAIN tunnels \cup {new}
      BY <1>4
    <2>3. QED
      BY <1>3, <1>5, <1>9, <1>10, <1>11, <2>1, <2>2 DEF E!Grant
  <1>14. S \in SUBSET LiveTunnels /\ T \in SUBSET E!PointsOf(S)
    BY <1>1, <1>2, <1>3
  <1>15. QED
    BY <1>12, <1>13, <1>14 DEF E!Next

\* A second end of a speed test gives its entry point up again.
LEMMA RetireAgain ==
  ASSUME TypeOK, OneKind, NEW i \in EndedTests, Retire({i})
  PROVE  E!Next
  <1>1. Carried({i}) /\ Carried({}) /\ DOMAIN tunnels' = DOMAIN tunnels
    <2>1. Carried({i}) /\ DOMAIN tunnels' = DOMAIN tunnels
      BY DEF Retire, Carried, Deleted
    <2>2. [tunnels[i] EXCEPT !.status = "deleted"] = tunnels[i]
      BY DEF EndedTests, Live, TypeOK, Tunnel
    <2>3. QED
      BY <2>1, <2>2 DEF Carried, Deleted
  <1>2. LiveTunnels' = LiveTunnels /\ {} \in SUBSET LiveTunnels
    BY <1>1, CarriedGrants DEF LiveTunnels
  <1>3. [j \in LiveTunnels |-> GrantOf(tunnels[j])]' = [j \in LiveTunnels |-> GrantOf(tunnels[j])]
    <2>1. \A j \in LiveTunnels : GrantOf(tunnels[j])' = GrantOf(tunnels[j])
      BY <1>1, <1>2, CarriedGrants DEF LiveTunnels
    <2>2. QED
      BY <1>2, <2>1
  <1>4. {PointOf(tunnels[j]) : j \in EndedTests}' = {PointOf(tunnels[j]) : j \in EndedTests}
    BY <1>1, <1>2, CarriedLoose
  <1>5. AsPoints(usedPorts, DOMAIN domains)' = AsPoints(usedPorts, DOMAIN domains) \ {PointOf(tunnels[i])}
    <2>1. {i} \in SUBSET DOMAIN tunnels /\ {PointOf(tunnels[j]) : j \in {i}} = {PointOf(tunnels[i])}
      BY DEF EndedTests
    <2>2. QED
      BY <2>1, Released DEF Retire, AsPoints
  <1>6. PointOf(tunnels[i]) \in {PointOf(tunnels[j]) : j \in EndedTests}
    OBVIOUS
  <1>7. E!EndAgain(PointOf(tunnels[i]))
    BY <1>1, <1>3, <1>4, <1>5, <1>6 DEF E!EndAgain
  <1>8. QED
    BY <1>6, <1>7 DEF E!Next

LEMMA AdmitImplements ==
  ASSUME TypeOK, OneKind, NEW u \in Users, NEW n \in Nodes, NEW typ \in Types,
         NEW d \in Domains \cup {NoDomain}, typ \in DomainTypes => d \in Domains,
         NEW b \in BOOLEAN, Admit(u, n, typ, d, b)
  PROVE  E!Next
  <1>1. typ \in AllTypes /\ nextTunnelID \in TunnelIds
    BY DEF Admit, TypeOK, TunnelIds
  <1>2. CASE Retire(Expired)
    BY <1>2, RetireEnds DEF Expired, LiveTunnels, Live
  <1>3. CASE GrantPort(u, n, typ, b)
    <2>1. PICK p \in Pool : /\ <<n, typ, p>> \notin PortsWithout(Expired)
                            /\ usedPorts' = PortsWithout(Expired) \cup {<<n, typ, p>>}
                            /\ Store(NewTunnel(u, n, typ, p, NoDomain, b))
      BY <1>3 DEF GrantPort, FreePorts
    <2>2. typ \in PortTypes /\ domains' = DomainsWithout(Expired) /\ p > 0
      BY <1>3 DEF GrantPort, Pool
    <2>3. Added(nextTunnelID) /\ tunnels'[nextTunnelID] = NewTunnel(u, n, typ, p, NoDomain, b)
      BY <1>1, <2>1, StoreAdds
    <2>4. /\ PointOf(tunnels'[nextTunnelID]) = <<"port", <<n, typ, p>>>>
          /\ tunnels'[nextTunnelID].user = u /\ tunnels'[nextTunnelID].speedTest = b
      BY <2>2, <2>3 DEF NewTunnel, PointOf, PortKey
    <2>5. <<"port", <<n, typ, p>>>> \in AsPoints(Nodes \X PortTypes \X Pool, Domains)
      BY <2>2 DEF AsPoints
    <2>6. <<"port", <<n, typ, p>>>> \notin AsPoints(PortsWithout(Expired), DOMAIN DomainsWithout(Expired))
      BY <2>1 DEF AsPoints
    <2>7. AsPoints(usedPorts', DOMAIN domains')
            = AsPoints(PortsWithout(Expired), DOMAIN DomainsWithout(Expired)) \cup {<<"port", <<n, typ, p>>>>}
      BY <2>1, <2>2 DEF AsPoints
    <2>8. QED
      BY <2>3, <2>4, <2>5, <2>6, <2>7, CreationGrants
  <1>4. CASE GrantDomain(u, n, typ, d, b)
    <2>1. /\ typ \in DomainTypes /\ d \in Domains /\ d \notin DOMAIN DomainsWithout(Expired)
          /\ DOMAIN domains' = DOMAIN DomainsWithout(Expired) \cup {d}
          /\ usedPorts' = PortsWithout(Expired)
          /\ Store(NewTunnel(u, n, typ, 0, d, b))
      BY <1>4 DEF GrantDomain
    <2>2. Added(nextTunnelID) /\ tunnels'[nextTunnelID] = NewTunnel(u, n, typ, 0, d, b)
      BY <1>1, <2>1, StoreAdds
    <2>3. /\ PointOf(tunnels'[nextTunnelID]) = <<"name", d>>
          /\ tunnels'[nextTunnelID].user = u /\ tunnels'[nextTunnelID].speedTest = b
      BY <2>2 DEF NewTunnel, PointOf
    <2>4. <<"name", d>> \in AsPoints(Nodes \X PortTypes \X Pool, Domains)
      BY <2>1 DEF AsPoints
    <2>5. <<"name", d>> \notin AsPoints(PortsWithout(Expired), DOMAIN DomainsWithout(Expired))
      BY <2>1 DEF AsPoints
    <2>6. AsPoints(usedPorts', DOMAIN domains')
            = AsPoints(PortsWithout(Expired), DOMAIN DomainsWithout(Expired)) \cup {<<"name", d>>}
      BY <2>1 DEF AsPoints
    <2>7. QED
      BY <2>2, <2>3, <2>4, <2>5, <2>6, CreationGrants
  <1>5. QED
    BY <1>2, <1>3, <1>4 DEF Admit, NothingToGrant, ForwardFails

\* Steps that leave tunnels and reservations alone, and updates, are not seen.
LEMMA UpdateStutters ==
  ASSUME TypeOK, NEW u, NEW i, NEW status \in {"active", "disabled"}, UpdateTunnelStatus(u, i, status)
  PROVE  UNCHANGED E!abstractVars
  <1>1. /\ i \in DOMAIN tunnels /\ tunnels[i].status # "deleted"
        /\ tunnels' = [tunnels EXCEPT ![i].status = status]
        /\ usedPorts' = usedPorts /\ domains' = domains
    BY DEF UpdateTunnelStatus, Owned
  <1>2. DOMAIN tunnels' = DOMAIN tunnels
    BY <1>1 DEF TypeOK
  <1>3. \A j \in DOMAIN tunnels :
          /\ tunnels'[j].node = tunnels[j].node /\ tunnels'[j].type = tunnels[j].type
          /\ tunnels'[j].port = tunnels[j].port /\ tunnels'[j].domain = tunnels[j].domain
          /\ tunnels'[j].speedTest = tunnels[j].speedTest /\ tunnels'[j].user = tunnels[j].user
          /\ Live(j)' <=> Live(j)
    BY <1>1, <1>2 DEF TypeOK, Tunnel, Live
  <1>4. \A j \in DOMAIN tunnels : PointOf(tunnels[j])' = PointOf(tunnels[j])
    BY <1>3 DEF PointOf, PortKey
  <1>5. \A j \in DOMAIN tunnels : GrantOf(tunnels[j])' = GrantOf(tunnels[j])
    BY <1>3, <1>4 DEF GrantOf
  <1>6. LiveTunnels' = LiveTunnels /\ EndedTests' = EndedTests
    BY <1>2, <1>3 DEF LiveTunnels, EndedTests
  <1>7. [j \in LiveTunnels |-> GrantOf(tunnels[j])]' = [j \in LiveTunnels |-> GrantOf(tunnels[j])]
    BY <1>5, <1>6 DEF LiveTunnels
  <1>8. {PointOf(tunnels[j]) : j \in EndedTests}' = {PointOf(tunnels[j]) : j \in EndedTests}
    BY <1>4, <1>6 DEF EndedTests
  <1>9. AsPoints(usedPorts, DOMAIN domains)' = AsPoints(usedPorts, DOMAIN domains)
    BY <1>1 DEF AsPoints
  <1>10. QED
    BY <1>2, <1>7, <1>8, <1>9 DEF E!abstractVars

LEMMA QuietStutters ==
  ASSUME UNCHANGED <<tunnels, usedPorts, domains>>
  PROVE  UNCHANGED E!abstractVars
  BY DEF E!abstractVars, LiveTunnels, EndedTests, Live, GrantOf, PointOf, PortKey, AsPoints

LEMMA StepImplements == TypeOK /\ OneKind /\ [Next]_vars => [E!Next]_E!abstractVars
  <1> SUFFICES ASSUME TypeOK, OneKind, [Next]_vars PROVE E!Next \/ UNCHANGED E!abstractVars
    OBVIOUS
  <1>1. ASSUME Refuse \/ CleanupExpiredSpeedTestTunnels PROVE E!Next
    BY <1>1, RetireEnds DEF Refuse, CleanupExpiredSpeedTestTunnels, Expired, LiveTunnels, Live
  <1>2. ASSUME NEW u \in Users, NEW n \in Nodes, NEW typ \in Types, NEW d \in Requested(typ),
               CreateTunnel(u, n, typ, d)
        PROVE  E!Next
    <2>1. d \in Domains \cup {NoDomain} /\ (typ \in DomainTypes => d \in Domains)
      BY DEF Requested
    <2>2. QED
      BY <1>1, <1>2, <2>1, AdmitImplements DEF CreateTunnel
  <1>3. ASSUME NEW u \in Users, NEW n \in Nodes, NEW typ \in Types, CreateSpeedTestTunnel(u, n, typ)
        PROVE  E!Next
    <2>1. CASE Refuse
      BY <1>1, <2>1
    <2>2. CASE nextTunnelID \in TunnelIds /\ Admit(u, n, typ, SpeedDomain[nextTunnelID], TRUE)
      BY <2>2, AdmitImplements
    <2>3. QED
      BY <1>3, <2>1, <2>2 DEF CreateSpeedTestTunnel
  <1>4. ASSUME NEW u \in Users, NEW i \in TunnelIds,
               FinishSpeedTestTunnel(u, i) \/ DeleteTunnel(u, i)
        PROVE  E!Next
    <2>1. Retire({i}) /\ i \in DOMAIN tunnels /\ (Live(i) \/ tunnels[i].speedTest)
      BY <1>4 DEF FinishSpeedTestTunnel, DeleteTunnel, Owned, Live
    <2>2. CASE Live(i)
      BY <2>1, <2>2, RetireEnds DEF LiveTunnels
    <2>3. CASE ~Live(i)
      BY <2>1, <2>3, RetireAgain DEF EndedTests
    <2>4. QED
      BY <2>2, <2>3
  <1>5. ASSUME NEW u \in Users, NEW i \in TunnelIds, NEW status \in {"active", "disabled"},
               UpdateTunnelStatus(u, i, status)
        PROVE  UNCHANGED E!abstractVars
    BY <1>5, UpdateStutters
  <1>6. ASSUME NEW u \in Users, NEW i \in 0..MaxTunnelID, NEW b \in 1..MaxTraffic,
               ReportTraffic(u, i, b)
        PROVE  UNCHANGED E!abstractVars
    BY <1>6, QuietStutters DEF ReportTraffic
  <1>7. ASSUME NEW u \in Users, NEW p \in Plans, GrantPlan(u, p)
        PROVE  UNCHANGED E!abstractVars
    BY <1>7, QuietStutters DEF GrantPlan
  <1>8. CASE Tick \/ UNCHANGED vars
    BY <1>8, QuietStutters DEF Tick, vars
  <1>9. QED
    BY <1>1, <1>2, <1>3, <1>4, <1>5, <1>6, <1>7, <1>8 DEF Next

\* Whatever the plans, pools and orders of calls, the in-memory store does what
\* EntryPoints promises.
THEOREM StoreImplementsEntryPoints == Spec => ImplementsEntryPoints
  <1>1. Init => E!Init
    BY DEF Init, E!Init, LiveTunnels, EndedTests, AsPoints
  <1>2. Init => OneKind
    BY DEF Init, OneKind
  <1>3. QED
    BY <1>1, <1>2, OneKindStep, StepImplements, TypeCorrect, PTL DEF Spec, ImplementsEntryPoints, E!Spec
=============================================================================
