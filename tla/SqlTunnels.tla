---------------------------- MODULE SqlTunnels ----------------------------
(***************************************************************************)
(* The tunnel registry as the production backend keeps it, in PostgreSQL   *)
(* (apps/api-server/internal/platform/sql_store.go).  Requests run         *)
(* concurrently; a request is a sequence of statements, some of them in a  *)
(* transaction, and other requests run between any two statements.         *)
(*                                                                         *)
(* The tables hold committed rows.  What a transaction has inserted and    *)
(* not committed is in the record of its request, and makes others wait.   *)
(* A transaction that reads, writes and commits under row locks taken by   *)
(* its first statement (SELECT .. FOR UPDATE) is one action: until it      *)
(* commits the others can only wait for it.                                *)
(*                                                                         *)
(* One protocol and one plan; TunnelStore has the protocols and the plans. *)
(***************************************************************************)
EXTENDS Integers, FiniteSets

CONSTANTS
  Requests,     \* identifiers of concurrent calls
  Users,        \* identifiers of users
  Nodes,        \* node identifiers
  NatNodes,     \* those whose ports are forwarded by the NAT provider
  PoolStart,    \* first port of the pool of a node
  PoolEnd,      \* last port
  Domains,      \* domain names, never equal to an integer
  MaxTunnels,   \* the plan's limit, 0 for none
  MaxTunnelID,  \* bound: identifiers taken from the sequence
  None          \* SQL NULL, and "no request"

Pool      == PoolStart..PoolEnd
TunnelIds == 1..MaxTunnelID

ASSUME PoolAssumption  == PoolStart \in Nat \ {0} /\ PoolEnd \in Nat
ASSUME LimitAssumption == MaxTunnels \in Nat /\ MaxTunnelID \in Nat
ASSUME NoneAssumption  == None \notin Requests /\ None \notin Pool /\ None \notin Domains
ASSUME NodeAssumption  == NatNodes \subseteq Nodes
ASSUME CallAssumption  == IsFiniteSet(Requests)

VARIABLES
  rows,      \* table tunnels: id -> row
  lastID,    \* the sequence of table tunnels: never rolled back
  alloc,     \* table port_allocations: <<node, port>> -> tunnel id
  entitled,  \* users whose subscription is active and within its quota
  locks,     \* advisory lock of a user -> the request that holds it
  forwards,  \* <<node, guest port>> mapped at the NAT provider; None: the virtual hosts' port
  req        \* request -> its program counter and locals

vars == <<rows, lastID, alloc, entitled, locks, forwards, req>>

\* restarted is history: set when UpdateTunnelStatus made the tunnel active again.
Row ==
  [user : Users, node : Nodes, port : Pool \cup {None}, domain : Domains \cup {None},
   speedTest : BOOLEAN, overdue : BOOLEAN, restarted : BOOLEAN,
   status : {"active", "disabled", "deleted"}]

\* domain = None: the request wants a port.
Call ==
  [user : Users, node : Nodes, domain : Domains \cup {None}, speedTest : BOOLEAN,
   port : Pool \cup {None}, tunnel : TunnelIds \cup {None},
   pc : {"swept", "locked", "admitted", "reserved", "forwarded", "starting"}]

\* A call that is over remembers only whether it failed for want of a port.
Ended == [pc : {"idle", "no port"}]

TypeOK ==
  /\ rows \in [DOMAIN rows -> Row]
  /\ DOMAIN rows \subseteq 1..lastID
  /\ lastID \in 0..MaxTunnelID
  /\ alloc \in [DOMAIN alloc -> TunnelIds]
  /\ DOMAIN alloc \subseteq Nodes \X Pool
  /\ entitled \subseteq Users
  /\ locks \in [Users -> Requests \cup {None}]
  /\ forwards \subseteq Nodes \X (Pool \cup {None})
  /\ req \in [Requests -> Call \cup Ended]

Init ==
  /\ rows = [i \in {} |-> {}]
  /\ lastID = 0
  /\ alloc = [k \in {} |-> 0]
  /\ entitled \in SUBSET Users
  /\ locks = [u \in Users |-> None]
  /\ forwards = {}
  /\ req = [r \in Requests |-> [pc |-> "idle"]]

-----------------------------------------------------------------------------
(* Tables                                                                  *)

PortKey(row) == <<row.node, row.port>>

Live(i)    == i \in DOMAIN rows /\ rows[i].status # "deleted"
HasPort(i) == rows[i].port # None

\* Fault: a deleted row keeps its domain.
DeletedWithDomain(S) == [i \in DOMAIN rows |->
                           IF i \in S THEN [rows[i] EXCEPT !.status = "deleted"] ELSE rows[i]]

\* UPDATE tunnels SET status='deleted',domain=NULL and DELETE FROM port_allocations.
Deleted(S) == [i \in DOMAIN rows |->
                 IF i \in S THEN [rows[i] EXCEPT !.status = "deleted", !.domain = None] ELSE rows[i]]

\* Fault: the allocation is left behind.
RetireKeepsPort(S) == rows' = Deleted(S) /\ UNCHANGED alloc

Retire(S) ==
  /\ rows' = Deleted(S)
  /\ alloc' = [k \in DOMAIN alloc \ {PortKey(rows[i]) : i \in S} |-> alloc[k]]

Overdue == {i \in DOMAIN rows : Live(i) /\ rows[i].speedTest /\ rows[i].overdue}

\* checkSQLTunnelLimitsTx: running tunnels, speed tests apart.
Counted(u) == {i \in DOMAIN rows : rows[i].user = u /\ rows[i].status = "active" /\ ~rows[i].speedTest}

-----------------------------------------------------------------------------
(* Calls                                                                   *)

At(r, pc)   == req[r].pc = pc
Over(r)     == req[r].pc \in {"idle", "no port"}
Goto(r, pc) == req' = [req EXCEPT ![r].pc = pc]
End(r, pc)  == req' = [req EXCEPT ![r] = [pc |-> pc]]

\* Fault: a lock of the session, which outlives the transaction.
UnlockSession(r) == UNCHANGED locks

\* COMMIT and ROLLBACK end the transaction and with it the advisory lock.
Unlock(r) == locks' = [u \in Users |-> IF locks[u] = r THEN None ELSE locks[u]]
Rollback(r, pc) ==
  /\ End(r, pc)
  /\ Unlock(r)
  /\ UNCHANGED <<rows, alloc>>

\* The bound: every creation under way can still take an identifier.
Creating    == {q \in Requests : ~Over(q) /\ ~At(q, "starting")}
WithinBound == lastID + Cardinality(Creating) < MaxTunnelID

\* Both constructors begin with CleanupExpiredSpeedTestTunnels, in a transaction of
\* its own whose failure they ignore.
Begin(r, u, n, d, speedTest) ==
  /\ Over(r)
  /\ WithinBound
  /\ req' = [req EXCEPT ![r] = [user |-> u, node |-> n, domain |-> d, speedTest |-> speedTest,
                                port |-> None, tunnel |-> None, pc |-> "swept"]]
  /\ Retire(Overdue) \/ UNCHANGED <<rows, alloc>>
  /\ UNCHANGED <<lastID, entitled, locks, forwards>>

\* Fault: the lock is keyed by the call and not by the user.
LockAlone(r) ==
  /\ At(r, "swept")
  /\ ~req[r].speedTest
  /\ Goto(r, "locked")
  /\ UNCHANGED <<rows, lastID, alloc, entitled, locks, forwards>>

\* CreateTunnel: BEGIN; SELECT pg_advisory_xact_lock(user).
Lock(r) ==
  /\ At(r, "swept")
  /\ ~req[r].speedTest
  /\ locks[req[r].user] = None
  /\ locks' = [locks EXCEPT ![req[r].user] = r]
  /\ Goto(r, "locked")
  /\ UNCHANGED <<rows, lastID, alloc, entitled, forwards>>

Admissible(u) == u \in entitled /\ (MaxTunnels > 0 => Cardinality(Counted(u)) < MaxTunnels)

\* Subscription, limits and the checks of the request, inside the transaction.
Check(r) ==
  /\ At(r, "locked")
  /\ \/ Admissible(req[r].user) /\ Goto(r, "admitted") /\ UNCHANGED <<rows, alloc, locks>>
     \/ Rollback(r, "idle")
  /\ UNCHANGED <<lastID, entitled, forwards>>

\* CreateSpeedTestTunnel reads the subscription before it begins its transaction,
\* takes no lock and looks at no limit.
CheckSpeedTest(r) ==
  /\ At(r, "swept")
  /\ req[r].speedTest
  /\ \/ req[r].user \in entitled /\ Goto(r, "admitted")
     \/ End(r, "idle")
  /\ UNCHANGED <<rows, lastID, alloc, entitled, locks, forwards>>

\* A port inserted by a transaction that is still open.
Pending(k) ==
  \E q \in Requests : (At(q, "reserved") \/ At(q, "forwarded")) /\ <<req[q].node, req[q].port>> = k

\* allocateSQLPort: INSERT INTO port_allocations for the first port of the pool, after
\* any open transaction that inserted it has ended.  When the row exists, the failed
\* INSERT aborts the transaction: PostgreSQL then rejects the INSERT of the next port
\* with an error that is not a unique violation, and the loop gives up.
Reserve(r) ==
  LET first == <<req[r].node, PoolStart>>
  IN  /\ At(r, "admitted")
      /\ req[r].domain = None
      /\ ~Pending(first)
      /\ IF Pool # {} /\ first \notin DOMAIN alloc
           THEN /\ req' = [req EXCEPT ![r].port = PoolStart, ![r].pc = "reserved"]
                /\ UNCHANGED <<rows, alloc, locks>>
           ELSE Rollback(r, "no port")
      /\ UNCHANGED <<lastID, entitled, forwards>>

\* The port, or nothing for a domain, is settled and the row can be inserted.
Settled(r) == At(r, "reserved") \/ (At(r, "admitted") /\ req[r].domain # None)

\* Fault: the tunnel is created although the mapping was not made.
ForwardIgnored(r) ==
  /\ Settled(r)
  /\ req[r].node \in NatNodes
  /\ Goto(r, "forwarded")
  /\ UNCHANGED <<rows, lastID, alloc, entitled, locks, forwards>>

\* The call of the NAT provider, inside the transaction: when it fails the mapping may
\* have been made all the same, and no code removes a mapping.
Forward(r) ==
  LET mapping == <<req[r].node, req[r].port>>
  IN  /\ Settled(r)
      /\ req[r].node \in NatNodes
      /\ \/ /\ forwards' = forwards \cup {mapping}
            /\ Goto(r, "forwarded")
            /\ UNCHANGED <<rows, alloc, locks>>
         \/ /\ forwards' \in {forwards, forwards \cup {mapping}}
            /\ Rollback(r, "idle")
      /\ UNCHANGED <<lastID, entitled>>

\* "active" stands for the pending states of http and https too: all of them run.
NewRow(c) ==
  [user |-> c.user, node |-> c.node, port |-> c.port, domain |-> c.domain,
   speedTest |-> c.speedTest, overdue |-> FALSE, restarted |-> FALSE, status |-> "active"]

\* INSERT INTO tunnels, UPDATE port_allocations and COMMIT.  The reply may be lost
\* after the commit.  The identifier is spent even when the domain is taken.
Insert(r) ==
  LET id == lastID + 1
      c  == req[r]
  IN  /\ At(r, "forwarded") \/ (Settled(r) /\ c.node \notin NatNodes)
      /\ lastID' = id
      /\ IF c.domain # None /\ \E i \in DOMAIN rows : rows[i].domain = c.domain
           THEN Rollback(r, "idle")
           ELSE /\ rows' = [i \in DOMAIN rows \cup {id} |-> IF i = id THEN NewRow(c) ELSE rows[i]]
                /\ alloc' = [k \in DOMAIN alloc \cup (IF c.port = None THEN {} ELSE {PortKey(c)}) |->
                               IF k = PortKey(c) THEN id ELSE alloc[k]]
                /\ Unlock(r)
                /\ End(r, "idle")
      /\ UNCHANGED <<entitled, forwards>>

\* The server or its connection dies, or a statement fails: PostgreSQL rolls back.
Lose(r) ==
  /\ ~Over(r)
  /\ Rollback(r, "idle")
  /\ UNCHANGED <<lastID, entitled, forwards>>

-----------------------------------------------------------------------------
(* The other operations                                                    *)

Owned(u, i) == i \in DOMAIN rows /\ rows[i].user = u

\* The status of the row is not tested, and the port released is the one the row
\* still records, whoever holds it now.
FinishSpeedTestTunnel(u, i) ==
  /\ Owned(u, i)
  /\ rows[i].speedTest
  /\ Retire({i})
  /\ UNCHANGED <<lastID, entitled, locks, forwards, req>>

\* Fault: deleting twice releases twice.
DeleteAgain(u, i) ==
  /\ Owned(u, i)
  /\ Retire({i})
  /\ UNCHANGED <<lastID, entitled, locks, forwards, req>>

DeleteTunnel(u, i) ==
  /\ Owned(u, i)
  /\ Live(i)
  /\ Retire({i})
  /\ UNCHANGED <<lastID, entitled, locks, forwards, req>>

CleanupExpiredSpeedTestTunnels ==
  /\ Retire(Overdue)
  /\ UNCHANGED <<lastID, entitled, locks, forwards, req>>

\* UpdateTunnelStatus: "active" reads the subscription first, in another statement.
CheckStart(r, u, i) ==
  /\ Over(r)
  /\ i \in DOMAIN rows
  /\ u \in entitled
  /\ req' = [req EXCEPT ![r] = [user |-> u, node |-> rows[i].node, domain |-> None, speedTest |-> FALSE,
                                port |-> None, tunnel |-> i, pc |-> "starting"]]
  /\ UNCHANGED <<rows, lastID, alloc, entitled, locks, forwards>>

Updatable(u, i) == Owned(u, i) /\ Live(i) /\ ~rows[i].speedTest

\* UPDATE tunnels SET status='active' WHERE ... status <> 'deleted'.
Start(r) ==
  LET i == req[r].tunnel
  IN  /\ At(r, "starting")
      /\ IF Updatable(req[r].user, i)
           THEN rows' = [rows EXCEPT ![i].status = "active", ![i].restarted = TRUE] /\ End(r, "idle")
           ELSE End(r, "idle") /\ UNCHANGED rows
      /\ UNCHANGED <<lastID, alloc, entitled, locks, forwards>>

Stop(u, i) ==
  /\ Updatable(u, i)
  /\ rows' = [rows EXCEPT ![i].status = "disabled"]
  /\ UNCHANGED <<lastID, alloc, entitled, locks, forwards, req>>

-----------------------------------------------------------------------------
(* The environment                                                         *)

\* A speed test passes its expires_at.
Age(i) ==
  /\ Live(i)
  /\ rows[i].speedTest /\ ~rows[i].overdue
  /\ rows' = [rows EXCEPT ![i].overdue = TRUE]
  /\ UNCHANGED <<lastID, alloc, entitled, locks, forwards, req>>

\* A payment, a code or an administrator grants the user a plan, or the last one passes
\* its expires_at or is used up.
Subscribe(u) ==
  /\ entitled' \in {entitled \cup {u}, entitled \ {u}}
  /\ UNCHANGED <<rows, lastID, alloc, locks, forwards, req>>

\* What the call r does next.
Step(r) ==
  \/ Lock(r)
  \/ Check(r)
  \/ CheckSpeedTest(r)
  \/ Reserve(r)
  \/ Forward(r)
  \/ Insert(r)
  \/ Start(r)

Next ==
  \/ \E r \in Requests, u \in Users :
       \/ \E n \in Nodes, d \in Domains \cup {None}, s \in BOOLEAN : Begin(r, u, n, d, s)
       \/ \E i \in TunnelIds : CheckStart(r, u, i)
  \/ \E r \in Requests : Step(r) \/ Lose(r)
  \/ \E u \in Users :
       \/ Subscribe(u)
       \/ \E i \in TunnelIds : FinishSpeedTestTunnel(u, i) \/ DeleteTunnel(u, i) \/ Stop(u, i)
  \/ \E i \in TunnelIds : Age(i)
  \/ CleanupExpiredSpeedTestTunnels

Spec == Init /\ [][Next]_vars

\* A call goes on as long as its statements can be executed; PostgreSQL serves those
\* who wait for a lock in turn.
Fairness ==
  \A r \in Requests :
    /\ WF_vars(Check(r) \/ CheckSpeedTest(r) \/ Forward(r) \/ Insert(r) \/ Start(r))
    /\ SF_vars(Lock(r))
    /\ SF_vars(Reserve(r))

FairSpec == Spec /\ Fairness

-----------------------------------------------------------------------------
(* Properties                                                              *)

\* Every allocated port belongs to a live tunnel that has it: no interleaving of
\* creations, deletions, second finishes and lost connections leaks a port.
AllocationsLive ==
  \A k \in DOMAIN alloc :
    LET i == alloc[k] IN Live(i) /\ HasPort(i) /\ PortKey(rows[i]) = k

\* Concurrent creations do not pass the limit of the plan: what a user runs beyond it
\* was stopped and started again (checkSQLTunnelLimitsTx under the advisory lock).
WithinPlanUnlessRestarted ==
  \A u \in Users :
    MaxTunnels > 0 => Cardinality({i \in Counted(u) : ~rows[i].restarted}) <= MaxTunnels

\* A port tunnel on a NAT node is reachable: its mapping was made before its row.
LiveForwarded ==
  \A i \in DOMAIN rows :
    Live(i) /\ rows[i].node \in NatNodes => <<rows[i].node, rows[i].port>> \in forwards

\* What keeps r from going on: q has the advisory lock of its user, or has inserted the
\* port r wants and is not yet committed (the two waits of CreateTunnel).
WaitsFor(r, q) ==
  \/ At(r, "swept") /\ ~req[r].speedTest /\ locks[req[r].user] = q
  \/ /\ At(r, "admitted") /\ req[r].domain = None
     /\ At(q, "reserved") \/ At(q, "forwarded")
     /\ <<req[q].node, req[q].port>> = <<req[r].node, PoolStart>>

\* Who waits, waits for a call under way, and that one for another that can go on: no
\* waits form a circle, and no call that is over is waited for, wherever it was cut.
WaitsAreShort ==
  \A r, q \in Requests :
    WaitsFor(r, q) =>
      /\ ~Over(q)
      /\ \A s \in Requests : WaitsFor(q, s) => ~Over(s) /\ \A w \in Requests : ~WaitsFor(s, w)

\* Every call comes to an end: waiting for the advisory lock and for the port of an
\* open transaction never turns into a deadlock.
CallsEnd == \A r \in Requests : ~Over(r) ~> Over(r)

\* A creation finds no port only when the pool of the node is all taken.
NoPortOnlyWhenExhausted ==
  [][\A r \in Requests :
       ~Over(r) /\ req'[r].pc = "no port"
         => \A p \in Pool : <<req[r].node, p>> \in DOMAIN alloc \/ Pending(<<req[r].node, p>>)]_vars

-----------------------------------------------------------------------------
(* What the tables implement                                               *)

PointOf(row) == IF row.port # None THEN <<"port", PortKey(row)>> ELSE <<"name", row.domain>>
GrantOf(row) == [owner |-> row.user, point |-> PointOf(row), temporary |-> row.speedTest]
LiveRows     == {i \in DOMAIN rows : Live(i)}
EndedTests   == {i \in DOMAIN rows : rows[i].speedTest /\ ~Live(i) /\ HasPort(i)}
Named        == {i \in DOMAIN rows : rows[i].domain # None}

\* What ports P and domains N make of the entry points.
AsPoints(P, N) == {<<"port", k>> : k \in P} \cup {<<"name", d>> : d \in N}

\* A deleted row that recorded a domain has lost it, so only a port is loose.
E == INSTANCE EntryPoints WITH
       Ids      <- TunnelIds,
       Owners   <- Users,
       Points   <- AsPoints(Nodes \X Pool, Domains),
       live     <- [i \in LiveRows |-> GrantOf(rows[i])],
       known    <- DOMAIN rows,
       reserved <- AsPoints(DOMAIN alloc, {rows[i].domain : i \in Named}),
       loose    <- {PointOf(rows[i]) : i \in EndedTests}

\* Concurrent requests, cut anywhere, look like a sequence of grants and ends of single
\* tunnels: a port that a creation has checked and not yet committed is never given to
\* another, a deleted row gives up its domain, and only the second end of a speed test
\* takes a port from its new tunnel (CreateTunnel, DeleteTunnel, FinishSpeedTestTunnel).
ImplementsEntryPoints == E!Spec
=============================================================================
