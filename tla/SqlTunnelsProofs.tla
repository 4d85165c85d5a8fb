------------------------- MODULE SqlTunnelsProofs --------------------------
(***************************************************************************)
(* Theorems about SqlTunnels, for any number of concurrent requests, users,*)
(* nodes and ports: the type invariant, the ownership of allocations, that *)
(* the tables implement EntryPoints, that a live row has its mapping, and  *)
(* that creations stay within their owner's plan.                          *)
(*                                                                         *)
(* What makes the ownership inductive is Claims: the port a creation has   *)
(* inserted and not committed is neither allocated nor claimed by another  *)
(* creation. What makes the plan's limit inductive is LocksHeld: a request *)
(* holds its user's advisory lock from its check to its commit.  That no   *)
(* waits form a circle is its converse, HoldersUnderWay.                   *)
(***************************************************************************)
EXTENDS SqlTunnels, FiniteSetTheorems, TLAPS

USE PoolAssumption, LimitAssumption, NoneAssumption, NodeAssumption, CallAssumption

-----------------------------------------------------------------------------
(* Types, and the bound on identifiers                                     *)

Budget == lastID + Cardinality(Creating) <= MaxTunnelID

Typed == TypeOK /\ Budget

LEMMA CreatingFinite == IsFiniteSet(Creating) /\ Cardinality(Creating) \in Nat
  <1>1. IsFiniteSet(Creating)
    BY FS_Subset DEF Creating
  <1>2. QED
    BY <1>1, FS_CardinalityType

LEMMA CreatingShrinks ==
  ASSUME Typed, lastID' = lastID, Creating' \subseteq Creating
  PROVE  Budget'
  <1>1. IsFiniteSet(Creating') /\ Cardinality(Creating') <= Cardinality(Creating)
    BY CreatingFinite, FS_Subset
  <1>2. Cardinality(Creating') \in Nat
    BY <1>1, FS_CardinalityType
  <1>3. lastID \in Nat
    BY DEF Typed, TypeOK
  <1>4. QED
    BY <1>1, <1>2, <1>3, CreatingFinite DEF Typed, Budget

LEMMA CreatingGrows ==
  ASSUME Typed, NEW r, WithinBound, lastID' = lastID, Creating' \subseteq Creating \cup {r}
  PROVE  Budget'
  <1>1. /\ IsFiniteSet(Creating \cup {r})
        /\ Cardinality(Creating \cup {r}) <= Cardinality(Creating) + 1
    <2>1. /\ IsFiniteSet(Creating \cup {r})
          /\ Cardinality(Creating \cup {r}) =
               IF r \in Creating THEN Cardinality(Creating) ELSE Cardinality(Creating) + 1
      BY CreatingFinite, FS_AddElement
    <2>2. QED
      BY <2>1, CreatingFinite
  <1>2. IsFiniteSet(Creating') /\ Cardinality(Creating') <= Cardinality(Creating \cup {r})
    BY <1>1, FS_Subset
  <1>3. Cardinality(Creating') \in Nat /\ Cardinality(Creating \cup {r}) \in Nat
    BY <1>1, <1>2, FS_CardinalityType
  <1>4. lastID \in Nat
    BY DEF Typed, TypeOK
  <1>5. QED
    BY <1>1, <1>2, <1>3, <1>4, CreatingFinite DEF WithinBound, Budget

\* The identifier an insertion takes was counted for its call.
LEMMA CreatingTakes ==
  ASSUME Typed, NEW r \in Creating
  PROVE  /\ lastID + 1 \in 0..MaxTunnelID /\ lastID + 1 \in TunnelIds
         /\ lastID' = lastID + 1 /\ Creating' = Creating \ {r} => Budget'
  <1>1. /\ IsFiniteSet(Creating \ {r})
        /\ Cardinality(Creating \ {r}) = Cardinality(Creating) - 1
    BY CreatingFinite, FS_RemoveElement
  <1>2. Cardinality(Creating \ {r}) \in Nat
    BY <1>1, FS_CardinalityType
  <1>3. lastID \in Nat
    BY DEF Typed, TypeOK
  <1>4. lastID + 1 + Cardinality(Creating \ {r}) <= MaxTunnelID
    BY <1>1, <1>3, CreatingFinite DEF Typed, Budget
  <1>5. lastID + 1 \in 0..MaxTunnelID /\ lastID + 1 \in TunnelIds
    BY <1>2, <1>3, <1>4 DEF TunnelIds
  <1>6. ASSUME lastID' = lastID + 1, Creating' = Creating \ {r}
        PROVE  Budget'
    BY <1>4, <1>6 DEF Budget
  <1>7. QED
    BY <1>5, <1>6

\* What a request does with its own record.
LEMMA CallOf ==
  ASSUME TypeOK, NEW r \in Requests, ~Over(r)
  PROVE  req[r] \in Call
  BY DEF TypeOK, Over, Call, Ended

LEMMA GotoType ==
  ASSUME TypeOK, NEW r \in Requests, ~Over(r), Goto(r, "locked") \/ Goto(r, "admitted") \/ Goto(r, "forwarded")
  PROVE  req' \in [Requests -> Call \cup Ended]
  <1>1. req[r] \in Call
    BY CallOf
  <1>2. ASSUME NEW pc \in {"locked", "admitted", "forwarded"}
        PROVE  [req[r] EXCEPT !.pc = pc] \in Call
    BY <1>1 DEF Call
  <1>3. QED
    BY <1>2 DEF Goto, TypeOK

LEMMA EndType ==
  ASSUME TypeOK, NEW r \in Requests, End(r, "idle") \/ End(r, "no port")
  PROVE  req' \in [Requests -> Call \cup Ended]
  <1>1. \A pc \in {"idle", "no port"} : [pc |-> pc] \in Ended
    BY DEF Ended
  <1>2. QED
    BY <1>1 DEF End, TypeOK

LEMMA RetireType ==
  ASSUME TypeOK, NEW S, Retire(S)
  PROVE  /\ rows' \in [DOMAIN rows -> Row] /\ DOMAIN rows' = DOMAIN rows
         /\ alloc' \in [DOMAIN alloc' -> TunnelIds] /\ DOMAIN alloc' \subseteq DOMAIN alloc
  <1>1. ASSUME NEW row \in Row
        PROVE  [row EXCEPT !.status = "deleted", !.domain = None] \in Row
    <2>1. [row EXCEPT !.status = "deleted"] \in Row
      BY DEF Row
    <2>2. [row EXCEPT !.status = "deleted", !.domain = None] = [[row EXCEPT !.status = "deleted"] EXCEPT !.domain = None]
      BY DEF Row
    <2>3. \A t \in Row : [t EXCEPT !.domain = None] \in Row
      BY DEF Row
    <2>4. QED
      BY <2>1, <2>2, <2>3
  <1>2. QED
    BY <1>1 DEF Retire, Deleted, TypeOK

LEMMA UnlockType ==
  ASSUME TypeOK, NEW r, Unlock(r)
  PROVE  locks' \in [Users -> Requests \cup {None}]
  BY DEF Unlock, TypeOK

\* Whatever ends, the calls under way are fewer.
LEMMA OthersKept ==
  ASSUME TypeOK, NEW r \in Requests, NEW c, req' = [req EXCEPT ![r] = c]
  PROVE  /\ req'[r] = c
         /\ \A q \in Requests \ {r} : req'[q] = req[q]
         /\ \A q \in Requests \ {r} : q \in Creating' <=> q \in Creating
  BY DEF TypeOK, Creating, Over, At

LEMMA EndCreating ==
  ASSUME TypeOK, NEW r \in Requests, End(r, "idle") \/ End(r, "no port")
  PROVE  Creating' = Creating \ {r}
  <1>1. PICK pc \in {"idle", "no port"} : req' = [req EXCEPT ![r] = [pc |-> pc]]
    BY DEF End
  <1>2. req'[r].pc = pc
    BY <1>1 DEF TypeOK
  <1>3. r \notin Creating'
    BY <1>2 DEF Creating, Over
  <1>4. Creating \subseteq Requests /\ Creating' \subseteq Requests
    BY DEF Creating
  <1>5. QED
    BY <1>1, <1>3, <1>4, OthersKept

LEMMA GotoCreating ==
  ASSUME TypeOK, NEW r \in Requests, NEW pc, Goto(r, pc), ~Over(r), ~At(r, "starting")
  PROVE  Creating' \subseteq Creating
  <1>1. req' = [req EXCEPT ![r] = [req[r] EXCEPT !.pc = pc]]
    BY DEF Goto
  <1>2. r \in Creating /\ Creating' \subseteq Requests
    BY DEF Creating
  <1>3. QED
    BY <1>1, <1>2, OthersKept

LEMMA RollbackType ==
  ASSUME Typed, NEW r \in Requests, Rollback(r, "idle") \/ Rollback(r, "no port"),
         lastID' = lastID, UNCHANGED entitled, forwards' \subseteq Nodes \X (Pool \cup {None})
  PROVE  Typed'
  <1>1. (End(r, "idle") \/ End(r, "no port")) /\ Unlock(r) /\ rows' = rows /\ alloc' = alloc
    BY DEF Rollback
  <1>2. TypeOK /\ Creating' \subseteq Creating
    BY <1>1, EndCreating DEF Typed
  <1>3. req' \in [Requests -> Call \cup Ended] /\ locks' \in [Users -> Requests \cup {None}]
    BY <1>1, <1>2, EndType, UnlockType
  <1>4. QED
    BY <1>1, <1>2, <1>3, CreatingShrinks DEF Typed, TypeOK

LEMMA RetireTyped ==
  ASSUME Typed, NEW S, Retire(S), UNCHANGED <<lastID, entitled, locks, forwards, req>>
  PROVE  Typed'
  <1>1. TypeOK /\ Creating' = Creating
    BY DEF Typed, Creating, Over, At
  <1>2. TypeOK'
    BY <1>1, RetireType DEF TypeOK
  <1>3. QED
    BY <1>1, <1>2, CreatingShrinks DEF Typed

LEMMA BeginTyped ==
  ASSUME Typed, NEW r \in Requests, NEW u \in Users, NEW n \in Nodes, NEW d \in Domains \cup {None},
         NEW b \in BOOLEAN, Begin(r, u, n, d, b)
  PROVE  Typed'
  <1> DEFINE c == [user |-> u, node |-> n, domain |-> d, speedTest |-> b,
                   port |-> None, tunnel |-> None, pc |-> "swept"]
  <1>1. c \in Call
    BY DEF Call
  <1>2. TypeOK /\ WithinBound /\ req' = [req EXCEPT ![r] = c] /\ UNCHANGED <<lastID, entitled, locks, forwards>>
    BY DEF Begin, Typed
  <1> HIDE DEF c
  <1>3. req' \in [Requests -> Call \cup Ended]
    BY <1>1, <1>2 DEF TypeOK
  <1>4. Creating' \subseteq Requests
    BY DEF Creating
  <1>5. Creating' \subseteq Creating \cup {r}
    BY <1>2, <1>4, OthersKept
  <1>6. Budget'
    BY <1>2, <1>5, CreatingGrows
  <1>7. Retire(Overdue) \/ UNCHANGED <<rows, alloc>>
    BY DEF Begin
  <1>8. TypeOK'
    BY <1>2, <1>3, <1>7, RetireType DEF TypeOK
  <1>9. QED
    BY <1>6, <1>8 DEF Typed

LEMMA InsertTyped ==
  ASSUME Typed, NEW r \in Requests, Insert(r)
  PROVE  Typed'
  <1> DEFINE c == req[r]
  <1>1. ~Over(r) /\ ~At(r, "starting")
    BY DEF Insert, Settled, At, Over
  <1>2. TypeOK /\ c \in Call /\ r \in Creating
    BY <1>1, CallOf DEF Typed, Creating
  <1>3. lastID + 1 \in 0..MaxTunnelID /\ lastID + 1 \in TunnelIds /\ lastID' = lastID + 1
    BY <1>2, CreatingTakes DEF Insert
  <1>4. /\ End(r, "idle") /\ Unlock(r) /\ UNCHANGED <<entitled, forwards>>
    BY DEF Insert, Rollback
  <1>5. Budget'
    BY <1>2, <1>3, <1>4, EndCreating, CreatingTakes
  <1>6. req' \in [Requests -> Call \cup Ended] /\ locks' \in [Users -> Requests \cup {None}]
    BY <1>2, <1>4, EndType, UnlockType
  <1>7. DOMAIN rows \subseteq 1..lastID' /\ lastID + 1 \in 1..lastID'
    BY <1>2, <1>3 DEF TypeOK
  <1>8. CASE UNCHANGED <<rows, alloc>>
    BY <1>2, <1>3, <1>4, <1>5, <1>6, <1>7, <1>8 DEF Typed, TypeOK
  <1>9. CASE /\ rows' = [i \in DOMAIN rows \cup {lastID + 1} |-> IF i = lastID + 1 THEN NewRow(c) ELSE rows[i]]
             /\ alloc' = [k \in DOMAIN alloc \cup (IF c.port = None THEN {} ELSE {PortKey(c)}) |->
                            IF k = PortKey(c) THEN lastID + 1 ELSE alloc[k]]
    <2>1. NewRow(c) \in Row
      BY <1>2 DEF NewRow, Row, Call
    <2>2. rows' \in [DOMAIN rows' -> Row] /\ DOMAIN rows' \subseteq 1..lastID'
      BY <1>2, <1>7, <1>9, <2>1 DEF TypeOK
    <2>3. c.port # None => PortKey(c) \in Nodes \X Pool
      BY <1>2 DEF Call, PortKey
    <2>4. alloc' \in [DOMAIN alloc' -> TunnelIds] /\ DOMAIN alloc' \subseteq Nodes \X Pool
      BY <1>2, <1>3, <1>9, <2>3 DEF TypeOK
    <2>5. QED
      BY <1>2, <1>3, <1>4, <1>5, <1>6, <2>2, <2>4 DEF Typed, TypeOK
  <1>10. QED
    BY <1>8, <1>9 DEF Insert, Rollback

\* The statements of a call that stay within its own record.
LEMMA StepTyped ==
  ASSUME Typed, NEW r \in Requests, Step(r)
  PROVE  Typed'
  <1>1. TypeOK
    BY DEF Typed
  <1>2. ASSUME ~Over(r), ~At(r, "starting"),
               Goto(r, "locked") \/ Goto(r, "admitted") \/ Goto(r, "forwarded"),
               UNCHANGED <<rows, lastID, alloc, entitled>>,
               locks' \in [Users -> Requests \cup {None}], forwards' \subseteq Nodes \X (Pool \cup {None})
        PROVE  Typed'
    <2>1. req' \in [Requests -> Call \cup Ended]
      BY <1>1, <1>2, GotoType
    <2>2. Budget'
      BY <1>1, <1>2, GotoCreating, CreatingShrinks
    <2>3. QED
      BY <1>1, <1>2, <2>1, <2>2 DEF Typed, TypeOK
  <1>3. CASE Lock(r)
    <2>1. locks' \in [Users -> Requests \cup {None}]
      BY <1>1, <1>3 DEF Lock, TypeOK
    <2>2. QED
      BY <1>1, <1>2, <1>3, <2>1 DEF Lock, At, Over, TypeOK
  <1>4. CASE Check(r)
    BY <1>1, <1>2, <1>4, RollbackType DEF Check, At, Over, TypeOK
  <1>5. CASE CheckSpeedTest(r)
    <2>1. CASE Goto(r, "admitted")
      BY <1>1, <1>2, <1>5, <2>1 DEF CheckSpeedTest, At, Over, TypeOK
    <2>2. CASE End(r, "idle")
      <3>1. req' \in [Requests -> Call \cup Ended] /\ Creating' \subseteq Creating
        BY <1>1, <2>2, EndType, EndCreating
      <3>2. QED
        BY <1>1, <1>5, <3>1, CreatingShrinks DEF CheckSpeedTest, Typed, TypeOK
    <2>3. QED
      BY <1>5, <2>1, <2>2 DEF CheckSpeedTest
  <1>6. CASE Reserve(r)
    <2>1. ~Over(r) /\ ~At(r, "starting")
      BY <1>6 DEF Reserve, At, Over
    <2>2. CASE Rollback(r, "no port")
      BY <1>1, <1>6, <2>2, RollbackType DEF Reserve, TypeOK
    <2>3. CASE /\ Pool # {} /\ req' = [req EXCEPT ![r].port = PoolStart, ![r].pc = "reserved"]
               /\ UNCHANGED <<rows, alloc, locks>>
      <3> DEFINE c == [req[r] EXCEPT !.port = PoolStart, !.pc = "reserved"]
      <3>1. req[r] \in Call /\ PoolStart \in Pool
        BY <1>1, <2>1, <2>3, CallOf DEF Pool
      <3>2. c \in Call
        BY <3>1 DEF Call
      <3>3. req' = [req EXCEPT ![r] = c]
        BY <1>1, <2>3 DEF TypeOK
      <3> HIDE DEF c
      <3>4. req' \in [Requests -> Call \cup Ended]
        BY <1>1, <3>2, <3>3 DEF TypeOK
      <3>5. Creating' \subseteq Creating
        BY <1>1, <2>1, <3>3, OthersKept DEF Creating
      <3>6. QED
        BY <1>1, <1>6, <2>3, <3>4, <3>5, CreatingShrinks DEF Reserve, Typed, TypeOK
    <2>4. QED
      BY <1>6, <2>2, <2>3 DEF Reserve
  <1>7. CASE Forward(r)
    <2>1. ~Over(r) /\ ~At(r, "starting")
      BY <1>7 DEF Forward, Settled, At, Over
    <2>2. req[r] \in Call
      BY <1>1, <2>1, CallOf
    <2>3. forwards' \subseteq Nodes \X (Pool \cup {None})
      BY <1>1, <1>7, <2>2 DEF Forward, TypeOK, Call
    <2>4. QED
      BY <1>1, <1>2, <1>7, <2>1, <2>3, RollbackType DEF Forward, TypeOK
  <1>8. CASE Insert(r)
    BY <1>8, InsertTyped
  <1>9. CASE Start(r)
    <2>1. End(r, "idle") /\ UNCHANGED <<lastID, alloc, entitled, locks, forwards>>
      BY <1>9 DEF Start
    <2>2. req' \in [Requests -> Call \cup Ended] /\ Creating' \subseteq Creating
      BY <1>1, <2>1, EndType, EndCreating
    <2>3. rows' \in [DOMAIN rows -> Row]
      <3>1. ASSUME NEW row \in Row PROVE [row EXCEPT !.status = "active", !.restarted = TRUE] \in Row
        BY DEF Row
      <3>2. CASE UNCHANGED rows
        BY <1>1, <3>2 DEF TypeOK
      <3>3. ASSUME NEW i \in DOMAIN rows,
                   rows' = [rows EXCEPT ![i].status = "active", ![i].restarted = TRUE]
            PROVE  rows' \in [DOMAIN rows -> Row]
        <4>1. rows[i] \in Row
          BY <1>1 DEF TypeOK
        <4>2. rows' = [rows EXCEPT ![i] = [rows[i] EXCEPT !.status = "active", !.restarted = TRUE]]
          BY <1>1, <3>3 DEF TypeOK
        <4>3. QED
          BY <1>1, <3>1, <4>1, <4>2 DEF TypeOK
      <3>4. QED
        BY <1>9, <3>2, <3>3 DEF Start, Updatable, Owned
    <2>4. QED
      BY <1>1, <2>1, <2>2, <2>3, CreatingShrinks DEF Typed, TypeOK
  <1>10. QED
    BY <1>3, <1>4, <1>5, <1>6, <1>7, <1>8, <1>9 DEF Step

LEMMA NextTyped == Typed /\ [Next]_vars => Typed'
  <1> SUFFICES ASSUME Typed, [Next]_vars PROVE Typed'
    OBVIOUS
  <1>1. TypeOK
    BY DEF Typed
  <1>2. ASSUME NEW r \in Requests, NEW u \in Users, NEW i \in TunnelIds, CheckStart(r, u, i)
        PROVE  Typed'
    <2> DEFINE c == [user |-> u, node |-> rows[i].node, domain |-> None, speedTest |-> FALSE,
                     port |-> None, tunnel |-> i, pc |-> "starting"]
    <2>1. c \in Call
      BY <1>1, <1>2 DEF CheckStart, Call, TypeOK, Row
    <2>2. req' = [req EXCEPT ![r] = c] /\ UNCHANGED <<rows, lastID, alloc, entitled, locks, forwards>>
      BY <1>2 DEF CheckStart
    <2>3. c.pc = "starting"
      OBVIOUS
    <2> HIDE DEF c
    <2>4. r \notin Creating'
      BY <1>1, <2>2, <2>3 DEF Creating, At, TypeOK
    <2>5. Creating' \subseteq Creating
      BY <1>1, <2>2, <2>4, OthersKept DEF Creating
    <2>6. QED
      BY <1>1, <2>1, <2>2, <2>5, CreatingShrinks DEF Typed, TypeOK
  <1>3. ASSUME NEW r \in Requests, Lose(r) PROVE Typed'
    BY <1>1, <1>3, RollbackType DEF Lose, TypeOK
  <1>4. ASSUME UNCHANGED <<lastID, alloc, locks, forwards, req>>, entitled' \subseteq Users,
               rows' \in [DOMAIN rows -> Row]
        PROVE  Typed'
    <2>1. Creating' \subseteq Creating
      BY <1>4 DEF Creating, Over, At
    <2>2. QED
      BY <1>1, <1>4, <2>1, CreatingShrinks DEF Typed, TypeOK
  <1>5. ASSUME NEW u \in Users, NEW i \in TunnelIds,
               FinishSpeedTestTunnel(u, i) \/ DeleteTunnel(u, i)
        PROVE  Typed'
    BY <1>5, RetireTyped DEF FinishSpeedTestTunnel, DeleteTunnel
  <1>6. CASE CleanupExpiredSpeedTestTunnels
    BY <1>6, RetireTyped DEF CleanupExpiredSpeedTestTunnels
  <1>7. ASSUME NEW u \in Users, NEW i \in TunnelIds, Stop(u, i) PROVE Typed'
    <2>1. rows' \in [DOMAIN rows -> Row]
      BY <1>1, <1>7 DEF Stop, Updatable, Owned, TypeOK, Row
    <2>2. QED
      BY <1>1, <1>4, <1>7, <2>1 DEF Stop, TypeOK
  <1>8. ASSUME NEW i \in TunnelIds, Age(i) PROVE Typed'
    <2>1. rows' \in [DOMAIN rows -> Row]
      <3>1. \A row \in Row : [row EXCEPT !.overdue = TRUE] \in Row
        BY DEF Row
      <3>2. QED
        BY <1>1, <1>8, <3>1 DEF Age, Live, TypeOK
    <2>2. QED
      BY <1>1, <1>4, <1>8, <2>1 DEF Age, TypeOK
  <1>9. ASSUME NEW u \in Users, Subscribe(u) PROVE Typed'
    BY <1>1, <1>4, <1>9 DEF Subscribe, TypeOK
  <1>10. CASE UNCHANGED vars
    BY <1>1, <1>4, <1>10 DEF vars, TypeOK
  <1>11. QED
    BY <1>2, <1>3, <1>5, <1>6, <1>7, <1>8, <1>9, <1>10, BeginTyped, StepTyped DEF Next

LEMMA AlwaysTyped == Spec => []Typed
  <1>1. Init => Typed
    <2> SUFFICES ASSUME Init PROVE Typed
      OBVIOUS
    <2>1. TypeOK
      BY DEF Init, TypeOK, Ended
    <2>2. Creating = {}
      BY DEF Init, Creating, Over
    <2>3. Cardinality(Creating) = 0
      BY <2>2, FS_EmptySet
    <2>4. QED
      BY <2>1, <2>3 DEF Typed, Budget, Init
  <1>2. QED
    BY <1>1, NextTyped, PTL DEF Spec

\* The tables, the locks and the records of the requests always have their types, and
\* the identifiers taken stay within the bound.
THEOREM TypeCorrect == Spec => []TypeOK
  BY AlwaysTyped, PTL DEF Typed

-----------------------------------------------------------------------------
(* Ownership                                                               *)

\* What a call holds depends on how far it has come.
ShapeOf(c) ==
  c.pc \notin {"idle", "no port"} =>
    /\ c.port # None => c.domain = None /\ c.pc \in {"reserved", "forwarded"}
    /\ c.pc = "reserved" => c.port # None
    /\ c.pc = "forwarded" => c.port # None \/ c.domain # None

CallShape == \A q \in Requests : ShapeOf(req[q])

\* A creation holds a port that its open transaction has inserted.
Claiming(c) == c.pc \in {"reserved", "forwarded"} /\ c.port # None

Claims ==
  /\ \A q \in Requests : Claiming(req[q]) => PortKey(req[q]) \notin DOMAIN alloc
  /\ \A p, q \in Requests :
       p # q /\ Claiming(req[p]) /\ Claiming(req[q]) => PortKey(req[p]) # PortKey(req[q])

RowShape ==
  \A i \in DOMAIN rows : /\ HasPort(i) => rows[i].domain = None
                         /\ Live(i) => HasPort(i) \/ rows[i].domain # None
                         /\ ~Live(i) => rows[i].domain = None

NamesUnique ==
  \A i, j \in DOMAIN rows : rows[i].domain # None /\ rows[i].domain = rows[j].domain => i = j

RowInv  == RowShape /\ NamesUnique /\ AllocationsLive
CallInv == CallShape /\ Claims

\* A call moves on: what it claims afterwards it claimed before.
LEMMA CallStep ==
  ASSUME TypeOK, CallInv, NEW r \in Requests, NEW c, req' = [req EXCEPT ![r] = c], ShapeOf(c),
         DOMAIN alloc' \subseteq DOMAIN alloc,
         Claiming(c) => Claiming(req[r]) /\ PortKey(c) = PortKey(req[r])
  PROVE  CallInv'
  <1>1. \A q \in Requests : req'[q] = IF q = r THEN c ELSE req[q]
    BY DEF TypeOK
  <1>2. CallShape'
    BY <1>1 DEF CallInv, CallShape, ShapeOf
  <1>3. \A q \in Requests : Claiming(req'[q]) => Claiming(req[q]) /\ PortKey(req'[q]) = PortKey(req[q])
    BY <1>1
  <1>4. ASSUME NEW q \in Requests, Claiming(req'[q])
        PROVE  PortKey(req'[q]) \notin DOMAIN alloc'
    BY <1>3, <1>4 DEF CallInv, Claims
  <1>5. ASSUME NEW p \in Requests, NEW q \in Requests, p # q, Claiming(req'[p]), Claiming(req'[q])
        PROVE  PortKey(req'[p]) # PortKey(req'[q])
    BY <1>3, <1>5 DEF CallInv, Claims
  <1>6. Claims'
    BY <1>4, <1>5 DEF Claims, Claiming, PortKey
  <1>7. QED
    BY <1>2, <1>6 DEF CallInv

LEMMA CallsIdle ==
  ASSUME CallInv, req' = req, DOMAIN alloc' \subseteq DOMAIN alloc
  PROVE  CallInv'
  BY DEF CallInv, CallShape, ShapeOf, Claims, Claiming, PortKey

LEMMA CallEnds ==
  ASSUME TypeOK, CallInv, NEW r \in Requests, End(r, "idle") \/ End(r, "no port"),
         DOMAIN alloc' \subseteq DOMAIN alloc
  PROVE  CallInv'
  <1>1. PICK pc \in {"idle", "no port"} : req' = [req EXCEPT ![r] = [pc |-> pc]]
    BY DEF End
  <1>2. ShapeOf([pc |-> pc]) /\ ~Claiming([pc |-> pc])
    BY DEF ShapeOf, Claiming
  <1>3. QED
    BY <1>1, <1>2, CallStep

\* What the rows of S and the others keep when S is retired.
LEMMA RetiredRows ==
  ASSUME TypeOK, NEW S, Retire(S), NEW i \in DOMAIN rows
  PROVE  /\ i \in DOMAIN rows'
         /\ rows'[i].user = rows[i].user /\ rows'[i].node = rows[i].node
         /\ rows'[i].port = rows[i].port /\ rows'[i].speedTest = rows[i].speedTest
         /\ rows'[i].domain = IF i \in S THEN None ELSE rows[i].domain
         /\ Live(i)' <=> Live(i) /\ i \notin S
  <1>1. rows[i] \in Row /\ i \in DOMAIN rows'
    BY DEF TypeOK, Retire, Deleted
  <1>2. rows'[i] = IF i \in S THEN [rows[i] EXCEPT !.status = "deleted", !.domain = None] ELSE rows[i]
    BY DEF Retire, Deleted
  <1>3. CASE i \in S
    <2>1. /\ rows'[i].user = rows[i].user /\ rows'[i].node = rows[i].node
          /\ rows'[i].port = rows[i].port /\ rows'[i].speedTest = rows[i].speedTest
          /\ rows'[i].domain = None /\ rows'[i].status = "deleted"
      BY <1>1, <1>2, <1>3 DEF Row
    <2>2. QED
      BY <1>1, <1>3, <2>1 DEF Live
  <1>4. CASE i \notin S
    <2>1. rows'[i] = rows[i]
      BY <1>2, <1>4
    <2>2. QED
      BY <1>1, <1>4, <2>1 DEF Live
  <1>5. QED
    BY <1>3, <1>4

LEMMA RetireSound ==
  ASSUME TypeOK, RowInv, NEW S, Retire(S)
  PROVE  RowInv' /\ DOMAIN alloc' \subseteq DOMAIN alloc /\ DOMAIN rows' = DOMAIN rows
  <1>1. DOMAIN rows' = DOMAIN rows
    BY DEF Retire, Deleted
  <1>2. /\ DOMAIN alloc' = DOMAIN alloc \ {PortKey(rows[i]) : i \in S}
        /\ \A k \in DOMAIN alloc' : alloc'[k] = alloc[k]
    BY DEF Retire
  <1>3. RowShape'
    BY <1>1, RetiredRows DEF RowInv, RowShape, HasPort
  <1>4. NamesUnique'
    BY <1>1, RetiredRows DEF RowInv, NamesUnique
  <1>5. AllocationsLive'
    <2> SUFFICES ASSUME NEW k \in DOMAIN alloc'
                 PROVE  Live(alloc[k])' /\ HasPort(alloc[k])' /\ PortKey(rows'[alloc[k]]) = k
      BY <1>2 DEF AllocationsLive, Live, HasPort, PortKey
    <2>1. Live(alloc[k]) /\ HasPort(alloc[k]) /\ PortKey(rows[alloc[k]]) = k
      BY <1>2 DEF RowInv, AllocationsLive
    <2>2. alloc[k] \in DOMAIN rows /\ alloc[k] \notin S
      BY <1>2, <2>1 DEF Live
    <2>3. QED
      BY <2>1, <2>2, <1>2, RetiredRows DEF HasPort, PortKey
  <1>6. QED
    BY <1>1, <1>2, <1>3, <1>4, <1>5 DEF RowInv

\* The next state has the same rows, but for stops, starts and deadlines.
Alike ==
  /\ DOMAIN rows' = DOMAIN rows /\ alloc' = alloc
  /\ \A i \in DOMAIN rows :
       /\ rows'[i].user = rows[i].user /\ rows'[i].node = rows[i].node
       /\ rows'[i].port = rows[i].port /\ rows'[i].domain = rows[i].domain
       /\ rows'[i].speedTest = rows[i].speedTest
       /\ rows'[i].status = "deleted" <=> rows[i].status = "deleted"

LEMMA AlikeSound ==
  ASSUME RowInv, Alike
  PROVE  RowInv' /\ UNCHANGED E!abstractVars
  <1>1. \A i \in DOMAIN rows : /\ Live(i)' <=> Live(i)
                               /\ HasPort(i)' <=> HasPort(i)
                               /\ PortKey(rows[i])' = PortKey(rows[i])
    BY DEF Alike, Live, HasPort, PortKey
  <1>2. RowShape' /\ NamesUnique'
    BY <1>1 DEF Alike, RowInv, RowShape, NamesUnique
  <1>3. AllocationsLive'
    <2>1. \A k \in DOMAIN alloc : alloc[k] \in DOMAIN rows
      BY DEF RowInv, AllocationsLive, Live
    <2>2. QED
      BY <1>1, <2>1 DEF Alike, RowInv, AllocationsLive
  <1>4. \A i \in DOMAIN rows : PointOf(rows[i])' = PointOf(rows[i])
    BY <1>1 DEF Alike, PointOf, HasPort
  <1>5. \A i \in DOMAIN rows : GrantOf(rows[i])' = GrantOf(rows[i])
    BY <1>4 DEF Alike, GrantOf
  <1>6. LiveRows' = LiveRows /\ EndedTests' = EndedTests /\ Named' = Named
    BY <1>1 DEF Alike, LiveRows, EndedTests, Named
  <1>7. [i \in LiveRows |-> GrantOf(rows[i])]' = [i \in LiveRows |-> GrantOf(rows[i])]
    BY <1>5, <1>6 DEF LiveRows
  <1>8. {PointOf(rows[i]) : i \in EndedTests}' = {PointOf(rows[i]) : i \in EndedTests}
    BY <1>4, <1>6 DEF EndedTests
  <1>9. {rows[i].domain : i \in Named}' = {rows[i].domain : i \in Named}
    BY <1>6 DEF Alike, Named
  <1>10. AsPoints(DOMAIN alloc, {rows[i].domain : i \in Named})'
           = AsPoints(DOMAIN alloc, {rows[i].domain : i \in Named})
    BY <1>9 DEF AsPoints, Alike
  <1>11. (DOMAIN rows)' = DOMAIN rows
    BY DEF Alike
  <1>12. QED
    BY <1>2, <1>3, <1>7, <1>8, <1>10, <1>11 DEF RowInv, E!abstractVars

LEMMA UpdateAlike ==
  ASSUME TypeOK, alloc' = alloc, NEW i \in DOMAIN rows,
         \/ Live(i) /\ rows' = [rows EXCEPT ![i].status = "active", ![i].restarted = TRUE]
         \/ Live(i) /\ rows' = [rows EXCEPT ![i].status = "disabled"]
         \/ rows' = [rows EXCEPT ![i].overdue = TRUE]
  PROVE  Alike
  <1>1. rows[i] \in Row /\ DOMAIN rows' = DOMAIN rows
    BY DEF TypeOK
  <1>2. \A j \in DOMAIN rows : j # i => rows'[j] = rows[j]
    OBVIOUS
  <1>3. /\ rows'[i].user = rows[i].user /\ rows'[i].node = rows[i].node
        /\ rows'[i].port = rows[i].port /\ rows'[i].domain = rows[i].domain
        /\ rows'[i].speedTest = rows[i].speedTest
    BY <1>1 DEF Row
  <1>4. rows'[i].status = "deleted" <=> rows[i].status = "deleted"
    BY <1>1 DEF Row, Live
  <1>5. QED
    BY <1>1, <1>2, <1>3, <1>4 DEF Alike

-----------------------------------------------------------------------------
(* The tables implement EntryPoints                                        *)

LEMMA AbstractPoints ==
  ASSUME NEW S \in SUBSET LiveRows
  PROVE  /\ E!PointsOf(S) = {PointOf(rows[i]) : i \in S}
         /\ E!Temporary(S) = {i \in S : rows[i].speedTest}
  BY DEF E!PointsOf, E!Temporary, GrantOf

\* Retiring live rows, one or all of them temporary, ends them.
LEMMA RetireEnds ==
  ASSUME TypeOK, RowInv, NEW S \in SUBSET LiveRows, Retire(S),
         (\A i \in S : rows[i].speedTest) \/ \E i \in LiveRows : S = {i}
  PROVE  E!Next
  <1> DEFINE T == {PointOf(rows[i]) : i \in {j \in S : rows[j].speedTest /\ HasPort(j)}}
             names == {rows[i].domain : i \in Named}
  <1>1. S \subseteq DOMAIN rows /\ DOMAIN rows' = DOMAIN rows
    BY DEF LiveRows, Retire, Deleted
  <1>2. E!PointsOf(S) = {PointOf(rows[i]) : i \in S} /\ E!Temporary(S) = {i \in S : rows[i].speedTest}
    BY AbstractPoints
  <1>3. T \subseteq E!PointsOf(E!Temporary(S)) /\ T \subseteq E!PointsOf(S)
    <2>1. E!Temporary(S) \in SUBSET LiveRows
      BY <1>2
    <2>2. E!PointsOf(E!Temporary(S)) = {PointOf(rows[i]) : i \in E!Temporary(S)}
      BY <2>1, AbstractPoints
    <2>3. QED
      BY <1>2, <2>2
  <1>4. \A i \in DOMAIN rows : HasPort(i)' = HasPort(i) /\ PortKey(rows[i])' = PortKey(rows[i])
    BY RetiredRows DEF HasPort, PortKey
  <1>5. \A i \in DOMAIN rows : i \notin S \/ HasPort(i) => PointOf(rows[i])' = PointOf(rows[i])
    BY <1>4, RetiredRows DEF PointOf, HasPort
  <1>6. LiveRows' = LiveRows \ S
    BY <1>1, RetiredRows DEF LiveRows
  <1>7. EndedTests' = EndedTests \cup {j \in S : rows[j].speedTest /\ HasPort(j)}
    BY <1>1, <1>4, RetiredRows DEF EndedTests, LiveRows
  <1>8. {PointOf(rows[i]) : i \in EndedTests}' = {PointOf(rows[i]) : i \in EndedTests} \cup T
    <2>1. \A i \in EndedTests' : i \in DOMAIN rows /\ PointOf(rows[i])' = PointOf(rows[i])
      BY <1>1, <1>5, <1>7 DEF EndedTests
    <2>2. QED
      BY <1>7, <2>1
  <1>9. [i \in LiveRows |-> GrantOf(rows[i])]' = [i \in LiveRows \ S |-> GrantOf(rows[i])]
    <2>1. \A i \in LiveRows \ S : GrantOf(rows[i])' = GrantOf(rows[i])
      BY <1>5, RetiredRows DEF GrantOf, LiveRows
    <2>2. QED
      BY <1>6, <2>1
  <1>10. AsPoints(DOMAIN alloc, names)' = AsPoints(DOMAIN alloc, names) \ {PointOf(rows[i]) : i \in S}
    <2>1. DOMAIN alloc' = DOMAIN alloc \ {PortKey(rows[i]) : i \in S}
      BY DEF Retire
    <2>2. ASSUME NEW k \in DOMAIN alloc
          PROVE  k \in {PortKey(rows[i]) : i \in S} <=> <<"port", k>> \in {PointOf(rows[i]) : i \in S}
      <3>1. \A i \in S : PortKey(rows[i]) = k => HasPort(i)
        BY DEF TypeOK, PortKey, HasPort
      <3>2. QED
        BY <3>1 DEF PointOf, HasPort
    <2>3. ASSUME NEW d \in names
          PROVE  d \in names' <=> <<"name", d>> \notin {PointOf(rows[i]) : i \in S}
      <3>1. PICK j \in DOMAIN rows : rows[j].domain = d /\ d # None
        BY DEF Named
      <3>2. \A i \in DOMAIN rows : rows[i].domain = d => i = j
        BY <3>1 DEF RowInv, NamesUnique
      <3>3. d \in names' <=> j \notin S
        BY <1>1, <3>1, <3>2, RetiredRows DEF Named
      <3>4. ~HasPort(j) /\ PointOf(rows[j]) = <<"name", d>>
        BY <3>1 DEF RowInv, RowShape, PointOf, HasPort
      <3>5. \A i \in S : PointOf(rows[i]) = <<"name", d>> => i = j
        BY <1>1, <3>2 DEF PointOf
      <3>6. QED
        BY <3>3, <3>4, <3>5
    <2>4. names' \subseteq names
      BY <1>1, RetiredRows DEF Named
    <2>5. AsPoints(DOMAIN alloc, names)' = AsPoints(DOMAIN alloc', names')
      BY DEF AsPoints
    <2> HIDE DEF names
    <2>6. QED
      BY <2>1, <2>2, <2>3, <2>4, <2>5 DEF AsPoints
  <1>11. E!Leave(S, T)
    BY <1>3, <1>8 DEF E!Leave
  <1>12. S = E!Temporary(S) \/ \E i \in LiveRows : S = {i}
    BY <1>2
  <1> HIDE DEF T
  <1>13. E!End(S, T)
    BY <1>1, <1>2, <1>9, <1>10, <1>11, <1>12 DEF E!End
  <1>14. QED
    BY <1>3, <1>13 DEF E!Next

\* A second end of a speed test gives its port up again, if it had one.
LEMMA RetireAgain ==
  ASSUME TypeOK, RowInv, NEW i \in DOMAIN rows, ~Live(i), rows[i].speedTest, Retire({i})
  PROVE  E!Next \/ UNCHANGED E!abstractVars
  <1> DEFINE names == {rows[j].domain : j \in Named}
  <1>1. rows[i] \in Row /\ rows[i].status = "deleted" /\ rows[i].domain = None
    BY DEF TypeOK, Live, RowInv, RowShape
  <1>2. [rows[i] EXCEPT !.status = "deleted", !.domain = None] = rows[i]
    BY <1>1 DEF Row
  <1>3. rows' = rows
    <2>1. rows' = [j \in DOMAIN rows |-> rows[j]]
      BY <1>2 DEF Retire, Deleted
    <2>2. QED
      BY <2>1 DEF TypeOK
  <1>4. DOMAIN alloc' = DOMAIN alloc \ {PortKey(rows[i])}
    BY DEF Retire
  <1>5. /\ LiveRows' = LiveRows /\ EndedTests' = EndedTests /\ Named' = Named
        /\ (DOMAIN rows)' = DOMAIN rows /\ names' = names
        /\ [j \in LiveRows |-> GrantOf(rows[j])]' = [j \in LiveRows |-> GrantOf(rows[j])]
        /\ {PointOf(rows[j]) : j \in EndedTests}' = {PointOf(rows[j]) : j \in EndedTests}
    BY <1>3 DEF LiveRows, EndedTests, Named, Live, HasPort, GrantOf, PointOf, PortKey
  <1>6. AsPoints(DOMAIN alloc, names)' = AsPoints(DOMAIN alloc \ {PortKey(rows[i])}, names)
    BY <1>4, <1>5 DEF AsPoints
  <1>7. CASE HasPort(i)
    <2>1. PointOf(rows[i]) = <<"port", PortKey(rows[i])>>
      BY <1>7 DEF PointOf, HasPort
    <2>2. AsPoints(DOMAIN alloc, names)' = AsPoints(DOMAIN alloc, names) \ {PointOf(rows[i])}
      BY <1>6, <2>1 DEF AsPoints
    <2>3. PointOf(rows[i]) \in {PointOf(rows[j]) : j \in EndedTests}
      BY <1>7 DEF EndedTests
    <2> HIDE DEF names
    <2>4. E!EndAgain(PointOf(rows[i]))
      BY <1>5, <2>2, <2>3 DEF E!EndAgain, names
    <2>5. QED
      BY <2>3, <2>4 DEF E!Next
  <1>8. CASE ~HasPort(i)
    <2>1. PortKey(rows[i]) \notin DOMAIN alloc
      BY <1>8 DEF TypeOK, PortKey, HasPort
    <2>2. DOMAIN alloc \ {PortKey(rows[i])} = DOMAIN alloc
      BY <2>1
    <2>3. AsPoints(DOMAIN alloc, names)' = AsPoints(DOMAIN alloc, names)
      BY <1>6, <2>2
    <2>4. QED
      BY <1>5, <2>3 DEF E!abstractVars
  <1>9. QED
    BY <1>7, <1>8

\* What a committed insertion does: it grants the one entry point of the call.
LEMMA InsertGrants ==
  ASSUME TypeOK, RowInv, CallInv, NEW r \in Requests, lastID + 1 \in TunnelIds, Insert(r)
  PROVE  \/ RowInv' /\ CallInv' /\ E!Next
         \/ UNCHANGED <<rows, alloc>> /\ End(r, "idle")
  <1> DEFINE names == {rows[j].domain : j \in Named}
  <1>a. PICK c : c = req[r]
    OBVIOUS
  <1>b. PICK id : id = lastID + 1
    OBVIOUS
  <1>1. ~Over(r) /\ c.pc \in {"admitted", "reserved", "forwarded"} /\ (c.pc = "admitted" => c.domain # None)
    BY <1>a DEF Insert, Settled, At, Over
  <1>2. c \in Call /\ ShapeOf(c)
    BY <1>a, <1>1, CallOf DEF CallInv, CallShape
  <1>3. /\ c.port # None => c.domain = None /\ Claiming(c)
        /\ c.port # None \/ c.domain # None
    BY <1>1, <1>2 DEF ShapeOf, Claiming
  <1>4. SUFFICES ASSUME ~(UNCHANGED <<rows, alloc>> /\ End(r, "idle"))
                 PROVE  RowInv' /\ CallInv' /\ E!Next
    OBVIOUS
  <1>5. /\ c.domain = None \/ \A i \in DOMAIN rows : rows[i].domain # c.domain
        /\ rows' = [i \in DOMAIN rows \cup {id} |-> IF i = id THEN NewRow(c) ELSE rows[i]]
        /\ alloc' = [k \in DOMAIN alloc \cup (IF c.port = None THEN {} ELSE {PortKey(c)}) |->
                       IF k = PortKey(c) THEN id ELSE alloc[k]]
        /\ End(r, "idle")
    BY <1>a, <1>b, <1>4 DEF Insert, Rollback
  <1>6. id \notin DOMAIN rows /\ id \in TunnelIds
    BY <1>b DEF TypeOK
  <1>7. /\ DOMAIN rows' = DOMAIN rows \cup {id} /\ rows'[id] = NewRow(c)
        /\ \A i \in DOMAIN rows : rows'[i] = rows[i]
    BY <1>5, <1>6
  <1>8. /\ NewRow(c).user = c.user /\ NewRow(c).node = c.node /\ NewRow(c).port = c.port
        /\ NewRow(c).domain = c.domain /\ NewRow(c).speedTest = c.speedTest
        /\ NewRow(c).status = "active"
    BY DEF NewRow
  <1>9. c.port = None => PortKey(c) \notin DOMAIN alloc
    BY DEF TypeOK, PortKey
  <1>10. PortKey(c) \notin DOMAIN alloc
    BY <1>a, <1>3, <1>9 DEF CallInv, Claims
  <1>11. /\ DOMAIN alloc' = DOMAIN alloc \cup (IF c.port = None THEN {} ELSE {PortKey(c)})
         /\ \A k \in DOMAIN alloc : alloc'[k] = alloc[k]
         /\ c.port # None => alloc'[PortKey(c)] = id
    BY <1>5, <1>10
  <1>12. \A i \in DOMAIN rows : /\ Live(i)' <=> Live(i)
                                /\ HasPort(i)' <=> HasPort(i)
                                /\ PortKey(rows[i])' = PortKey(rows[i])
    BY <1>7 DEF Live, HasPort, PortKey
  <1>13. /\ Live(id)' /\ (HasPort(id)' <=> c.port # None)
         /\ PortKey(rows[id])' = PortKey(c)
    BY <1>7, <1>8 DEF Live, HasPort, PortKey
  <1> HIDE DEF names
  <1>14. RowShape'
    BY <1>3, <1>7, <1>8, <1>12, <1>13 DEF RowInv, RowShape
  <1>15. NamesUnique'
    BY <1>5, <1>7, <1>8 DEF RowInv, NamesUnique
  <1>16. AllocationsLive'
    <2> SUFFICES ASSUME NEW k \in DOMAIN alloc', NEW i, i = alloc'[k]
                 PROVE  Live(i)' /\ HasPort(i)' /\ PortKey(rows[i])' = k
      BY DEF AllocationsLive
    <2>1. CASE k \in DOMAIN alloc
      <3>1. i = alloc[k] /\ Live(i) /\ HasPort(i) /\ PortKey(rows[i]) = k
        BY <1>11, <2>1 DEF RowInv, AllocationsLive
      <3>2. i \in DOMAIN rows
        BY <3>1 DEF Live
      <3>3. QED
        BY <1>12, <3>1, <3>2
    <2>2. CASE k \notin DOMAIN alloc
      <3>1. c.port # None /\ k = PortKey(c) /\ i = id
        BY <1>11, <2>2
      <3>2. QED
        BY <1>13, <3>1
    <2>3. QED
      BY <2>1, <2>2
  <1>17. CallInv'
    <2>1. req' = [req EXCEPT ![r] = [pc |-> "idle"]]
      BY <1>5 DEF End
    <2>2. \A q \in Requests : req'[q] = IF q = r THEN [pc |-> "idle"] ELSE req[q]
      BY <2>1 DEF TypeOK
    <2>3. CallShape'
      <3>1. ShapeOf([pc |-> "idle"])
        BY DEF ShapeOf
      <3>2. \A q \in Requests : ShapeOf(req'[q])
        BY <2>2, <3>1 DEF CallInv, CallShape
      <3>3. QED
        BY <3>2 DEF CallShape, ShapeOf
    <2>4. \A q \in Requests : Claiming(req'[q]) => q # r /\ req'[q] = req[q] /\ Claiming(req[q])
      BY <2>2 DEF Claiming
    <2>5. ASSUME NEW q \in Requests, Claiming(req'[q])
          PROVE  PortKey(req'[q]) \notin DOMAIN alloc'
      <3>1. q # r /\ Claiming(req[q]) /\ PortKey(req[q]) \notin DOMAIN alloc /\ req'[q] = req[q]
        BY <2>4, <2>5 DEF CallInv, Claims
      <3>2. c.port # None => PortKey(req[q]) # PortKey(c)
        BY <1>a, <1>3, <3>1 DEF CallInv, Claims
      <3>3. QED
        BY <1>11, <3>1, <3>2
    <2>6. ASSUME NEW p \in Requests, NEW q \in Requests, p # q, Claiming(req'[p]), Claiming(req'[q])
          PROVE  PortKey(req'[p]) # PortKey(req'[q])
      BY <2>4, <2>6 DEF CallInv, Claims
    <2>7. Claims'
      BY <2>5, <2>6 DEF Claims, Claiming, PortKey
    <2>8. QED
      BY <2>3, <2>7 DEF CallInv
  <1>18. E!Next
    <2> DEFINE g == GrantOf(NewRow(c))
    <2>1. g.point = (IF c.port # None THEN <<"port", PortKey(c)>> ELSE <<"name", c.domain>>)
      BY <1>8 DEF GrantOf, PointOf, PortKey
    <2>2. g \in E!Grants
      <3>1. c.port # None => PortKey(c) \in Nodes \X Pool
        BY <1>2 DEF Call, PortKey
      <3>2. c.port = None => c.domain \in Domains
        BY <1>2, <1>3 DEF Call
      <3>3. g.point \in AsPoints(Nodes \X Pool, Domains)
        BY <2>1, <3>1, <3>2 DEF AsPoints
      <3>4. c.user \in Users /\ c.speedTest \in BOOLEAN
        BY <1>2 DEF Call
      <3>5. g = [owner |-> c.user, point |-> g.point, temporary |-> c.speedTest]
        BY <1>8 DEF GrantOf
      <3> HIDE DEF g
      <3>6. QED
        BY <3>3, <3>4, <3>5 DEF E!Grants
    <2>3. g.point \notin AsPoints(DOMAIN alloc, names)
      <3>1. c.port = None => c.domain \notin names
        BY <1>3, <1>5 DEF names, Named
      <3>2. QED
        BY <1>10, <2>1, <3>1 DEF AsPoints
    <2>4. names' = names \cup (IF c.domain # None THEN {c.domain} ELSE {})
      BY <1>7, <1>8 DEF names, Named
    <2>5. AsPoints(DOMAIN alloc, names)' = AsPoints(DOMAIN alloc, names) \cup {g.point}
      <3>1. AsPoints(DOMAIN alloc, names)' = AsPoints(DOMAIN alloc', names')
        BY DEF AsPoints
      <3>2. CASE c.port # None
        BY <1>3, <1>11, <2>1, <2>4, <3>1, <3>2 DEF AsPoints
      <3>3. CASE c.port = None
        BY <1>3, <1>11, <2>1, <2>4, <3>1, <3>3 DEF AsPoints
      <3>4. QED
        BY <3>2, <3>3
    <2>6. LiveRows' = LiveRows \cup {id} /\ id \notin LiveRows
      BY <1>6, <1>7, <1>12, <1>13 DEF LiveRows
    <2>7. /\ GrantOf(rows[id])' = g
          /\ \A i \in LiveRows : GrantOf(rows[i])' = GrantOf(rows[i])
      BY <1>7 DEF GrantOf, PointOf, PortKey, LiveRows
    <2>8. [i \in LiveRows |-> GrantOf(rows[i])]'
            = [j \in (DOMAIN [i \in LiveRows |-> GrantOf(rows[i])] \ {}) \cup {id} |->
                 IF j = id THEN g ELSE [i \in LiveRows |-> GrantOf(rows[i])][j]]
      BY <2>6, <2>7
    <2>9. {PointOf(rows[i]) : i \in EndedTests}' = {PointOf(rows[i]) : i \in EndedTests} \cup {}
      <3>1. EndedTests' = EndedTests
        BY <1>7, <1>12, <1>13 DEF EndedTests
      <3>2. \A i \in EndedTests : PointOf(rows[i])' = PointOf(rows[i])
        BY <1>7 DEF EndedTests, PointOf, PortKey
      <3>3. QED
        BY <3>1, <3>2
    <2>10. E!PointsOf({}) = {} /\ E!Temporary({}) = {}
      BY DEF E!PointsOf, E!Temporary
    <2>11. E!Leave({}, {})
      BY <2>9, <2>10 DEF E!Leave
    <2>12. (DOMAIN rows)' = DOMAIN rows \cup {id} /\ id \in TunnelIds \ DOMAIN rows
      BY <1>6, <1>7
    <2>13. /\ g.point \notin AsPoints(DOMAIN alloc, {rows[i].domain : i \in Named}) \ E!PointsOf({})
           /\ AsPoints(DOMAIN alloc, {rows[i].domain : i \in Named})'
                = (AsPoints(DOMAIN alloc, {rows[i].domain : i \in Named}) \ E!PointsOf({})) \cup {g.point}
      BY <2>3, <2>5, <2>10 DEF names
    <2> HIDE DEF g
    <2>14. E!Grant({}, {})
      BY <2>2, <2>8, <2>10, <2>11, <2>12, <2>13 DEF E!Grant
    <2>15. QED
      BY <2>10, <2>14 DEF E!Next
  <1>19. QED
    BY <1>14, <1>15, <1>16, <1>17, <1>18 DEF RowInv

\* A call that claims a port nobody has.
LEMMA ReserveSound ==
  ASSUME TypeOK, CallInv, NEW r \in Requests, Reserve(r)
  PROVE  CallInv' /\ UNCHANGED <<rows, alloc>>
  <1>1. UNCHANGED <<rows, alloc>> /\ At(r, "admitted") /\ req[r].domain = None
    BY DEF Reserve, Rollback
  <1>2. CASE End(r, "no port")
    BY <1>1, <1>2, CallEnds
  <1>3. CASE /\ <<req[r].node, PoolStart>> \notin DOMAIN alloc /\ Pool # {}
             /\ ~Pending(<<req[r].node, PoolStart>>)
             /\ req' = [req EXCEPT ![r].port = PoolStart, ![r].pc = "reserved"]
    <2>1. PICK c : c = [req[r] EXCEPT !.port = PoolStart, !.pc = "reserved"]
      OBVIOUS
    <2>2. req[r] \in Call /\ PoolStart # None
      <3>1. PoolStart \in Pool
        BY <1>3 DEF Pool
      <3>2. QED
        BY <1>1, <3>1, CallOf DEF At, Over
    <2>3. /\ c.port = PoolStart /\ c.pc = "reserved" /\ c.domain = None
          /\ PortKey(c) = <<req[r].node, PoolStart>>
      BY <1>1, <2>1, <2>2 DEF Call, PortKey
    <2>4. \A q \in Requests : req'[q] = IF q = r THEN c ELSE req[q]
      BY <1>3, <2>1 DEF TypeOK
    <2>5. CallShape'
      BY <2>2, <2>3, <2>4 DEF CallInv, CallShape, ShapeOf
    <2>6. \A q \in Requests : Claiming(req[q]) => PortKey(req[q]) # PortKey(c)
      BY <1>3, <2>3 DEF Pending, Claiming, At, PortKey
    <2>7. \A q \in Requests : Claiming(req'[q]) => PortKey(req'[q]) \notin DOMAIN alloc'
      BY <1>1, <1>3, <2>3, <2>4 DEF CallInv, Claims
    <2>8. ASSUME NEW p \in Requests, NEW q \in Requests, p # q, Claiming(req'[p]), Claiming(req'[q])
          PROVE  PortKey(req'[p]) # PortKey(req'[q])
      BY <2>4, <2>6, <2>8 DEF CallInv, Claims
    <2>9. Claims'
      BY <2>7, <2>8 DEF Claims, Claiming, PortKey
    <2>10. QED
      BY <1>1, <2>5, <2>9 DEF CallInv
  <1>4. QED
    BY <1>1, <1>2, <1>3 DEF Reserve, Rollback

\* The other statements of a call leave the tables alone.
LEMMA QuietStep ==
  ASSUME TypeOK, CallInv, NEW r \in Requests,
         Lock(r) \/ Check(r) \/ CheckSpeedTest(r) \/ Forward(r) \/ Lose(r)
  PROVE  CallInv' /\ UNCHANGED <<rows, alloc>>
  <1>1. UNCHANGED <<rows, alloc>>
    BY DEF Lock, Check, CheckSpeedTest, Forward, Lose, Rollback
  <1>2. CASE End(r, "idle")
    BY <1>1, <1>2, CallEnds
  <1>3. CASE /\ At(r, "swept") \/ At(r, "locked")
             /\ Goto(r, "locked") \/ Goto(r, "admitted")
    <2>1. req[r] \in Call /\ ShapeOf(req[r]) /\ req[r].port = None
      BY <1>3, CallOf DEF At, Over, CallInv, CallShape, ShapeOf
    <2>2. PICK pc \in {"locked", "admitted"} : req' = [req EXCEPT ![r].pc = pc]
      BY <1>3 DEF Goto
    <2>3. req' = [req EXCEPT ![r] = [req[r] EXCEPT !.pc = pc]]
      BY <2>2 DEF TypeOK
    <2>4. /\ [req[r] EXCEPT !.pc = pc].pc = pc /\ [req[r] EXCEPT !.pc = pc].port = None
      BY <2>1 DEF Call
    <2>5. ShapeOf([req[r] EXCEPT !.pc = pc]) /\ ~Claiming([req[r] EXCEPT !.pc = pc])
      BY <2>4 DEF ShapeOf, Claiming
    <2>6. QED
      BY <1>1, <2>3, <2>5, CallStep
  <1>4. CASE Settled(r) /\ Goto(r, "forwarded")
    <2>1. req[r] \in Call /\ ShapeOf(req[r])
      BY <1>4, CallOf DEF Settled, At, Over, CallInv, CallShape
    <2>2. PICK c : c = [req[r] EXCEPT !.pc = "forwarded"]
      OBVIOUS
    <2>3. req' = [req EXCEPT ![r] = c]
      BY <1>4, <2>2 DEF Goto, TypeOK
    <2>4. c.pc = "forwarded" /\ c.port = req[r].port /\ c.domain = req[r].domain /\ c.node = req[r].node
      BY <2>1, <2>2 DEF Call
    <2>5. ShapeOf(c)
      BY <1>4, <2>1, <2>4 DEF ShapeOf, Settled, At
    <2>6. Claiming(c) => Claiming(req[r]) /\ PortKey(c) = PortKey(req[r])
      BY <1>4, <2>1, <2>4 DEF Claiming, Settled, At, PortKey, ShapeOf
    <2>7. QED
      BY <1>1, <2>3, <2>5, <2>6, CallStep
  <1>5. QED
    BY <1>1, <1>2, <1>3, <1>4 DEF Lock, Check, CheckSpeedTest, Forward, Lose, Rollback

LEMMA QuietTables ==
  ASSUME RowInv, UNCHANGED <<rows, alloc>>
  PROVE  RowInv' /\ UNCHANGED E!abstractVars
  BY AlikeSound DEF Alike

LEMMA BeginSound ==
  ASSUME TypeOK, RowInv, CallInv, NEW r \in Requests, NEW u \in Users, NEW n \in Nodes,
         NEW d \in Domains \cup {None}, NEW b \in BOOLEAN, Begin(r, u, n, d, b)
  PROVE  RowInv' /\ CallInv' /\ (E!Next \/ UNCHANGED E!abstractVars)
  <1>1. PICK c : c = [user |-> u, node |-> n, domain |-> d, speedTest |-> b,
                      port |-> None, tunnel |-> None, pc |-> "swept"]
    OBVIOUS
  <1>2. req' = [req EXCEPT ![r] = c] /\ c.pc = "swept" /\ c.port = None
    BY <1>1 DEF Begin
  <1>3. ShapeOf(c) /\ ~Claiming(c)
    BY <1>2 DEF ShapeOf, Claiming
  <1>4. CASE UNCHANGED <<rows, alloc>>
    <2>1. CallInv'
      BY <1>2, <1>3, <1>4, CallStep
    <2>2. QED
      BY <1>4, <2>1, QuietTables
  <1>5. CASE Retire(Overdue)
    <2>1. Overdue \in SUBSET LiveRows /\ \A i \in Overdue : rows[i].speedTest
      BY DEF Overdue, LiveRows
    <2>2. RowInv' /\ DOMAIN alloc' \subseteq DOMAIN alloc
      BY <1>5, RetireSound
    <2>3. E!Next
      BY <1>5, <2>1, RetireEnds
    <2>4. QED
      BY <1>2, <1>3, <2>2, <2>3, CallStep
  <1>6. QED
    BY <1>4, <1>5 DEF Begin

LEMMA StepSound ==
  ASSUME Typed, RowInv, CallInv, NEW r \in Requests, Step(r) \/ Lose(r)
  PROVE  RowInv' /\ CallInv' /\ (E!Next \/ UNCHANGED E!abstractVars)
  <1>1. TypeOK
    BY DEF Typed
  <1>2. CASE Lock(r) \/ Check(r) \/ CheckSpeedTest(r) \/ Forward(r) \/ Lose(r)
    BY <1>1, <1>2, QuietStep, QuietTables
  <1>3. CASE Reserve(r)
    BY <1>1, <1>3, ReserveSound, QuietTables
  <1>4. CASE Insert(r)
    <2>1. r \in Creating
      BY <1>4 DEF Insert, Settled, At, Over, Creating
    <2>2. lastID + 1 \in TunnelIds
      BY <2>1, CreatingTakes
    <2>3. CASE RowInv' /\ CallInv' /\ E!Next
      BY <2>3
    <2>4. CASE UNCHANGED <<rows, alloc>> /\ End(r, "idle")
      BY <1>1, <2>4, CallEnds, QuietTables
    <2>5. QED
      BY <1>1, <1>4, <2>2, <2>3, <2>4, InsertGrants
  <1>5. CASE Start(r)
    <2>1. End(r, "idle") /\ alloc' = alloc
      BY <1>5 DEF Start
    <2>2. CallInv'
      BY <1>1, <2>1, CallEnds
    <2>3. CASE UNCHANGED rows
      BY <2>1, <2>2, <2>3, QuietTables
    <2>4. CASE ~UNCHANGED rows
      <3>1. PICK i \in DOMAIN rows :
              Live(i) /\ rows' = [rows EXCEPT ![i].status = "active", ![i].restarted = TRUE]
        BY <1>5, <2>4 DEF Start, Updatable, Live
      <3>2. QED
        BY <1>1, <2>1, <2>2, <3>1, UpdateAlike, AlikeSound
    <2>5. QED
      BY <2>3, <2>4
  <1>6. QED
    BY <1>2, <1>3, <1>4, <1>5 DEF Step

\* Every step keeps what the tables and the open transactions own, and is a step of
\* EntryPoints or none.
LEMMA NextSound ==
  ASSUME Typed, RowInv, CallInv, [Next]_vars
  PROVE  RowInv' /\ CallInv' /\ (E!Next \/ UNCHANGED E!abstractVars)
  <1>1. TypeOK
    BY DEF Typed
  <1>2. ASSUME NEW S, Retire(S), req' = req PROVE RowInv' /\ CallInv'
    BY <1>1, <1>2, RetireSound, CallsIdle
  <1>3. ASSUME NEW u \in Users, NEW i \in TunnelIds,
               FinishSpeedTestTunnel(u, i) \/ DeleteTunnel(u, i)
        PROVE  RowInv' /\ CallInv' /\ (E!Next \/ UNCHANGED E!abstractVars)
    <2>1. Retire({i}) /\ req' = req /\ i \in DOMAIN rows /\ (Live(i) \/ rows[i].speedTest)
      BY <1>3 DEF FinishSpeedTestTunnel, DeleteTunnel, Owned
    <2>2. CASE Live(i)
      <3>1. {i} \in SUBSET LiveRows
        BY <2>1, <2>2 DEF LiveRows
      <3>2. QED
        BY <1>1, <1>2, <2>1, <3>1, RetireEnds
    <2>3. CASE ~Live(i)
      BY <1>1, <1>2, <2>1, <2>3, RetireAgain
    <2>4. QED
      BY <2>2, <2>3
  <1>4. ASSUME CleanupExpiredSpeedTestTunnels
        PROVE  RowInv' /\ CallInv' /\ E!Next
    <2>1. Overdue \in SUBSET LiveRows /\ \A i \in Overdue : rows[i].speedTest
      BY DEF Overdue, LiveRows
    <2>2. Retire(Overdue) /\ req' = req
      BY <1>4 DEF CleanupExpiredSpeedTestTunnels
    <2>3. QED
      BY <1>1, <1>2, <2>1, <2>2, RetireEnds
  <1>5. ASSUME NEW i, Age(i) \/ \E u \in Users : Stop(u, i)
        PROVE  RowInv' /\ CallInv' /\ UNCHANGED E!abstractVars
    <2>1. i \in DOMAIN rows /\ alloc' = alloc /\ req' = req
      BY <1>5 DEF Age, Stop, Updatable, Live
    <2>2. Alike
      BY <1>1, <1>5, <2>1, UpdateAlike DEF Age, Stop, Updatable
    <2>3. QED
      BY <2>1, <2>2, AlikeSound, CallsIdle
  <1>6. ASSUME NEW r \in Requests, NEW u \in Users, NEW i \in TunnelIds, CheckStart(r, u, i)
        PROVE  RowInv' /\ CallInv' /\ UNCHANGED E!abstractVars
    <2>1. PICK c : c = [user |-> u, node |-> rows[i].node, domain |-> None, speedTest |-> FALSE,
                        port |-> None, tunnel |-> i, pc |-> "starting"]
      OBVIOUS
    <2>2. req' = [req EXCEPT ![r] = c] /\ c.pc = "starting" /\ c.port = None /\ UNCHANGED <<rows, alloc>>
      BY <1>6, <2>1 DEF CheckStart
    <2>3. ShapeOf(c) /\ ~Claiming(c)
      BY <2>2 DEF ShapeOf, Claiming
    <2>4. QED
      BY <1>1, <2>2, <2>3, CallStep, QuietTables
  <1>7. ASSUME (\E u \in Users : Subscribe(u)) \/ UNCHANGED vars
        PROVE  RowInv' /\ CallInv' /\ UNCHANGED E!abstractVars
    <2>1. UNCHANGED <<rows, alloc, req>>
      BY <1>7 DEF Subscribe, vars
    <2>2. QED
      BY <2>1, CallsIdle, QuietTables
  <1>8. QED
    BY <1>1, <1>3, <1>4, <1>5, <1>6, <1>7, BeginSound, StepSound DEF Next

LEMMA InitSound == Init => RowInv /\ CallInv /\ E!Init
  <1> SUFFICES ASSUME Init PROVE RowInv /\ CallInv /\ E!Init
    OBVIOUS
  <1>1. DOMAIN rows = {} /\ DOMAIN alloc = {}
    BY DEF Init
  <1>2. RowInv
    BY <1>1 DEF RowInv, RowShape, NamesUnique, AllocationsLive
  <1>3. CallInv
    BY <1>1 DEF Init, CallInv, CallShape, ShapeOf, Claims, Claiming
  <1>4. E!Init
    BY <1>1 DEF E!Init, LiveRows, EndedTests, Named, AsPoints
  <1>5. QED
    BY <1>2, <1>3, <1>4

LEMMA Sound == Spec => [](RowInv /\ CallInv)
  BY InitSound, NextSound, AlwaysTyped, PTL DEF Spec

\* Whatever number of requests are under way and wherever they are cut, an allocated
\* port belongs to a live row that records it.
THEOREM AllocationsStayLive == Spec => []AllocationsLive
  BY Sound, PTL DEF RowInv

\* No interleaving of concurrent requests shows a caller anything that EntryPoints does
\* not allow.
THEOREM TablesImplementEntryPoints == Spec => ImplementsEntryPoints
  <1>1. Typed /\ RowInv /\ CallInv /\ [Next]_vars => [E!Next]_E!abstractVars
    BY NextSound
  <1>2. QED
    BY <1>1, InitSound, Sound, AlwaysTyped, PTL DEF Spec, ImplementsEntryPoints, E!Spec

-----------------------------------------------------------------------------
(* Mappings are made before rows                                           *)

Mapped(c) == c.node \in NatNodes => <<c.node, c.port>> \in forwards

\* LiveForwarded, of deleted rows as well, and of creations that were told so.
MappingInv ==
  /\ \A i \in DOMAIN rows : Mapped(rows[i])
  /\ \A q \in Requests : At(q, "forwarded") => Mapped(req[q])

\* What an update of a row may change does not matter here.
SamePlaces ==
  /\ DOMAIN rows' = DOMAIN rows
  /\ \A i \in DOMAIN rows : rows'[i].node = rows[i].node /\ rows'[i].port = rows[i].port

LEMMA RetirePlaces ==
  ASSUME TypeOK, NEW S, Retire(S)
  PROVE  SamePlaces
  <1>1. DOMAIN rows' = DOMAIN rows
    BY DEF Retire, Deleted
  <1>2. QED
    BY <1>1, RetiredRows DEF SamePlaces

LEMMA MappingCarried ==
  ASSUME MappingInv, SamePlaces, forwards \subseteq forwards',
         \A q \in Requests : At(q, "forwarded")' =>
           \/ At(q, "forwarded") /\ req'[q].node = req[q].node /\ req'[q].port = req[q].port
           \/ Mapped(req[q])'
  PROVE  MappingInv'
  <1>1. ASSUME NEW i \in DOMAIN rows' PROVE Mapped(rows[i])'
    <2>1. Mapped(rows[i]) /\ rows'[i].node = rows[i].node /\ rows'[i].port = rows[i].port
      BY <1>1 DEF MappingInv, SamePlaces
    <2>2. QED
      BY <2>1 DEF Mapped
  <1>2. ASSUME NEW q \in Requests, At(q, "forwarded")' PROVE Mapped(req[q])'
    BY <1>2 DEF MappingInv, Mapped
  <1>3. QED
    BY <1>1, <1>2 DEF MappingInv

\* A request that moves on to anything but "forwarded".
LEMMA MappingMoved ==
  ASSUME TypeOK, MappingInv, SamePlaces, forwards \subseteq forwards',
         NEW r \in Requests, NEW c, req' = [req EXCEPT ![r] = c], c.pc # "forwarded"
  PROVE  MappingInv'
  <1>1. \A q \in Requests : req'[q] = IF q = r THEN c ELSE req[q]
    BY DEF TypeOK
  <1>2. \A q \in Requests : At(q, "forwarded")' =>
          At(q, "forwarded") /\ req'[q].node = req[q].node /\ req'[q].port = req[q].port
    BY <1>1 DEF At
  <1>3. QED
    BY <1>2, MappingCarried

LEMMA MappingEnds ==
  ASSUME TypeOK, MappingInv, SamePlaces, forwards \subseteq forwards',
         NEW r \in Requests, End(r, "idle") \/ End(r, "no port")
  PROVE  MappingInv'
  <1>1. PICK pc \in {"idle", "no port"} : req' = [req EXCEPT ![r] = [pc |-> pc]]
    BY DEF End
  <1>2. [pc |-> pc].pc # "forwarded"
    OBVIOUS
  <1>3. QED
    BY <1>1, <1>2, MappingMoved

LEMMA ForwardMaps ==
  ASSUME TypeOK, MappingInv, NEW r \in Requests, Forward(r)
  PROVE  MappingInv'
  <1>1. SamePlaces /\ forwards \subseteq forwards'
    BY DEF Forward, Rollback, SamePlaces
  <1>2. CASE End(r, "idle")
    BY <1>1, <1>2, MappingEnds
  <1>3. CASE Goto(r, "forwarded") /\ forwards' = forwards \cup {<<req[r].node, req[r].port>>}
    <2>1. req[r] \in Call
      BY CallOf DEF Forward, Settled, At, Over
    <2>2. req'[r].node = req[r].node /\ req'[r].port = req[r].port
      BY <1>3, <2>1 DEF Goto, TypeOK, Call
    <2>3. \A q \in Requests \ {r} : req'[q] = req[q]
      BY <1>3 DEF Goto, TypeOK
    <2>4. Mapped(req[r])'
      BY <1>3, <2>2 DEF Mapped
    <2>5. \A q \in Requests : At(q, "forwarded")' =>
            \/ At(q, "forwarded") /\ req'[q].node = req[q].node /\ req'[q].port = req[q].port
            \/ Mapped(req[q])'
      BY <2>3, <2>4 DEF At
    <2>6. QED
      BY <1>1, <2>5, MappingCarried
  <1>4. QED
    BY <1>2, <1>3 DEF Forward, Rollback

LEMMA InsertMapped ==
  ASSUME TypeOK, MappingInv, NEW r \in Requests, Insert(r)
  PROVE  MappingInv'
  <1> DEFINE c == req[r]
             id == lastID + 1
  <1>1. End(r, "idle") /\ forwards' = forwards
    BY DEF Insert, Rollback
  <1>2. Mapped(c)
    BY DEF Insert, MappingInv, Mapped, Settled
  <1>3. CASE UNCHANGED rows
    <2>1. SamePlaces
      BY <1>3 DEF SamePlaces
    <2>2. QED
      BY <1>1, <2>1, MappingEnds
  <1>4. CASE rows' = [i \in DOMAIN rows \cup {id} |-> IF i = id THEN NewRow(c) ELSE rows[i]]
    <2>1. NewRow(c).node = c.node /\ NewRow(c).port = c.port
      BY DEF NewRow
    <2>2. \A i \in DOMAIN rows' : Mapped(rows[i])'
      BY <1>1, <1>2, <1>4, <2>1 DEF MappingInv, Mapped
    <2>3. PICK pc \in {"idle"} : req' = [req EXCEPT ![r] = [pc |-> pc]]
      BY <1>1 DEF End
    <2>4. \A q \in Requests : req'[q] = IF q = r THEN [pc |-> pc] ELSE req[q]
      BY <2>3 DEF TypeOK
    <2>5. \A q \in Requests : At(q, "forwarded")' => Mapped(req[q])'
      BY <1>1, <2>4 DEF At, MappingInv, Mapped
    <2>6. QED
      BY <2>2, <2>5 DEF MappingInv
  <1>5. QED
    BY <1>3, <1>4 DEF Insert, Rollback

LEMMA MappingStep == TypeOK /\ MappingInv /\ [Next]_vars => MappingInv'
  <1> SUFFICES ASSUME TypeOK, MappingInv, [Next]_vars PROVE MappingInv'
    OBVIOUS
  <1>1. ASSUME SamePlaces, UNCHANGED <<forwards, req>> PROVE MappingInv'
    BY <1>1, MappingCarried DEF At
  <1>2. UNCHANGED rows => SamePlaces
    BY DEF SamePlaces
  <1>3. ASSUME NEW r \in Requests, NEW u \in Users, NEW n \in Nodes, NEW d \in Domains \cup {None},
               NEW b \in BOOLEAN, Begin(r, u, n, d, b)
        PROVE  MappingInv'
    <2>1. SamePlaces /\ forwards' = forwards
      BY <1>2, <1>3, RetirePlaces DEF Begin
    <2>2. PICK c : req' = [req EXCEPT ![r] = c] /\ c.pc # "forwarded"
      <3> DEFINE c == [user |-> u, node |-> n, domain |-> d, speedTest |-> b,
                       port |-> None, tunnel |-> None, pc |-> "swept"]
      <3>1. req' = [req EXCEPT ![r] = c] /\ c.pc # "forwarded"
        BY <1>3 DEF Begin
      <3> HIDE DEF c
      <3>2. QED
        BY <3>1
    <2>3. QED
      BY <2>1, <2>2, MappingMoved
  <1>4. ASSUME NEW r \in Requests, NEW u \in Users, NEW i \in TunnelIds, CheckStart(r, u, i)
        PROVE  MappingInv'
    <2>1. PICK c : req' = [req EXCEPT ![r] = c] /\ c.pc # "forwarded"
      <3> DEFINE c == [user |-> u, node |-> rows[i].node, domain |-> None, speedTest |-> FALSE,
                       port |-> None, tunnel |-> i, pc |-> "starting"]
      <3>1. req' = [req EXCEPT ![r] = c] /\ c.pc # "forwarded"
        BY <1>4 DEF CheckStart
      <3> HIDE DEF c
      <3>2. QED
        BY <3>1
    <2>2. UNCHANGED <<rows, forwards>>
      BY <1>4 DEF CheckStart
    <2>3. QED
      BY <1>2, <2>1, <2>2, MappingMoved
  <1>5. ASSUME NEW r \in Requests, Lock(r) \/ Check(r) \/ CheckSpeedTest(r) \/ Reserve(r) \/ Lose(r)
        PROVE  MappingInv'
    <2>1. UNCHANGED <<rows, forwards>>
      BY <1>5 DEF Lock, Check, CheckSpeedTest, Reserve, Lose, Rollback
    <2>2. CASE End(r, "idle") \/ End(r, "no port")
      BY <1>2, <2>1, <2>2, MappingEnds
    <2>3. CASE Goto(r, "locked") \/ Goto(r, "admitted") \/ req' = [req EXCEPT ![r].port = PoolStart, ![r].pc = "reserved"]
      <3>1. req[r] \in Call
        BY <1>5, <2>3, CallOf DEF Lock, Check, CheckSpeedTest, Reserve, Lose, At, Over
      <3>2. ASSUME NEW pc \in {"locked", "admitted"}, Goto(r, pc)
            PROVE  MappingInv'
        <4>1. [req[r] EXCEPT !.pc = pc].pc # "forwarded"
          BY <3>1 DEF Call
        <4>2. QED
          BY <1>2, <2>1, <3>2, <4>1, MappingMoved DEF Goto
      <3>3. ASSUME req' = [req EXCEPT ![r].port = PoolStart, ![r].pc = "reserved"]
            PROVE  MappingInv'
        <4>1. [req[r] EXCEPT !.port = PoolStart, !.pc = "reserved"].pc # "forwarded"
          BY <3>1 DEF Call
        <4>2. req' = [req EXCEPT ![r] = [req[r] EXCEPT !.port = PoolStart, !.pc = "reserved"]]
          BY <3>3 DEF TypeOK
        <4>3. QED
          BY <1>2, <2>1, <4>1, <4>2, MappingMoved
      <3>4. QED
        BY <2>3, <3>2, <3>3
    <2>4. QED
      BY <1>5, <2>2, <2>3 DEF Lock, Check, CheckSpeedTest, Reserve, Lose, Rollback
  <1>6. ASSUME NEW r \in Requests, Start(r) PROVE MappingInv'
    <2>1. SamePlaces
      BY <1>6 DEF Start, SamePlaces, TypeOK, Row
    <2>2. QED
      BY <1>6, <2>1, MappingEnds DEF Start
  <1>7. ASSUME NEW u \in Users, NEW i \in TunnelIds, FinishSpeedTestTunnel(u, i) \/ DeleteTunnel(u, i)
        PROVE  MappingInv'
    BY <1>1, <1>7, RetirePlaces DEF FinishSpeedTestTunnel, DeleteTunnel
  <1>8. CASE CleanupExpiredSpeedTestTunnels
    BY <1>1, <1>8, RetirePlaces DEF CleanupExpiredSpeedTestTunnels
  <1>9. ASSUME NEW i \in TunnelIds, Age(i) \/ \E u \in Users : Stop(u, i) PROVE MappingInv'
    <2>1. SamePlaces
      BY <1>9 DEF Age, Stop, SamePlaces, TypeOK, Row
    <2>2. QED
      BY <1>1, <1>9, <2>1 DEF Age, Stop
  <1>10. CASE (\E u \in Users : Subscribe(u)) \/ UNCHANGED vars
    BY <1>1, <1>2, <1>10 DEF Subscribe, vars
  <1>11. QED
    BY <1>3, <1>4, <1>5, <1>6, <1>7, <1>8, <1>9, <1>10, ForwardMaps, InsertMapped DEF Next, Step

\* Every live tunnel on a NAT node has its mapping at the provider, wherever calls
\* of the provider failed or were cut.
THEOREM TunnelsForwarded == Spec => []LiveForwarded
  <1>1. Init => MappingInv
    BY DEF Init, MappingInv, At
  <1>2. MappingInv => LiveForwarded
    BY DEF MappingInv, Mapped, LiveForwarded
  <1>3. QED
    BY <1>1, <1>2, MappingStep, TypeCorrect, PTL DEF Spec

-----------------------------------------------------------------------------
(* Concurrent creations stay within the plan                               *)

\* The tunnels of u that count and were not started again.
Plain(u) == {i \in Counted(u) : ~rows[i].restarted}

\* A creation that holds the lock of its user, and one that has passed the check.
Locking(c)  == c.pc \in {"locked", "admitted", "reserved", "forwarded"} /\ ~c.speedTest
Admitted(c) == c.pc \in {"admitted", "reserved", "forwarded"} /\ ~c.speedTest

LocksHeld == \A q \in Requests : Locking(req[q]) => locks[req[q].user] = q

\* The check holds until the insertion: nobody else adds to what was counted.
RoomLeft ==
  MaxTunnels > 0 =>
    \A u \in Users :
      /\ Cardinality(Plain(u)) <= MaxTunnels
      /\ \A q \in Requests : Admitted(req[q]) /\ req[q].user = u => Cardinality(Plain(u)) < MaxTunnels

PlanInv == LocksHeld /\ RoomLeft

LEMMA PlainFinite ==
  ASSUME TypeOK, NEW u
  PROVE  IsFiniteSet(Plain(u)) /\ Cardinality(Plain(u)) \in Nat
  <1>1. lastID \in Nat /\ Plain(u) \subseteq 1..lastID
    BY DEF TypeOK, Plain, Counted
  <1>2. IsFiniteSet(1..lastID)
    BY <1>1, FS_Interval
  <1>3. IsFiniteSet(Plain(u))
    BY <1>1, <1>2, FS_Subset
  <1>4. QED
    BY <1>3, FS_CardinalityType

LEMMA PlainShrinks ==
  ASSUME DOMAIN rows' = DOMAIN rows,
         \A i \in DOMAIN rows :
           \/ rows'[i].status # "active" \/ rows'[i].restarted
           \/ /\ rows'[i].user = rows[i].user /\ rows'[i].speedTest = rows[i].speedTest
              /\ rows'[i].status = rows[i].status /\ rows'[i].restarted = rows[i].restarted
  PROVE  \A u \in Users : Plain(u)' \subseteq Plain(u)
  BY DEF Plain, Counted

LEMMA RetirePlain ==
  ASSUME TypeOK, NEW S, Retire(S)
  PROVE  \A u \in Users : Plain(u)' \subseteq Plain(u)
  <1>1. DOMAIN rows' = DOMAIN rows
    BY DEF Retire, Deleted
  <1>2. ASSUME NEW i \in DOMAIN rows
        PROVE  rows'[i].status # "active" \/ rows'[i] = rows[i]
    <2>1. rows[i] \in Row
      BY DEF TypeOK
    <2>2. rows'[i] = IF i \in S THEN [rows[i] EXCEPT !.status = "deleted", !.domain = None] ELSE rows[i]
      BY DEF Retire, Deleted
    <2>3. [rows[i] EXCEPT !.status = "deleted", !.domain = None].status = "deleted"
      BY <2>1 DEF Row
    <2>4. QED
      BY <2>2, <2>3
  <1>3. QED
    BY <1>1, <1>2, PlainShrinks

LEMMA FewerPlain ==
  ASSUME TypeOK, NEW u \in Users, Plain(u)' \subseteq Plain(u)
  PROVE  Cardinality(Plain(u)') \in Nat /\ Cardinality(Plain(u)') <= Cardinality(Plain(u))
  <1>1. IsFiniteSet(Plain(u)') /\ Cardinality(Plain(u)') <= Cardinality(Plain(u))
    BY PlainFinite, FS_Subset
  <1>2. QED
    BY <1>1, FS_CardinalityType

LEMMA LockStep ==
  ASSUME TypeOK, LocksHeld, NEW r \in Requests, NEW c, req' = [req EXCEPT ![r] = c],
         \/ locks' = locks
         \/ Unlock(r)
         \/ locks[req[r].user] = None /\ locks' = [locks EXCEPT ![req[r].user] = r],
         Locking(c) => locks'[c.user] = r
  PROVE  LocksHeld'
  <1>1. \A q \in Requests : req'[q] = IF q = r THEN c ELSE req[q]
    BY DEF TypeOK
  <1>2. ASSUME NEW q \in Requests, q # r, Locking(req[q])
        PROVE  locks'[req[q].user] = q
    <2>1. req[q] \in Call /\ q # None
      BY <1>2, CallOf DEF Locking, Over
    <2>2. req[q].user \in Users /\ locks[req[q].user] = q
      BY <1>2, <2>1 DEF Call, LocksHeld
    <2>3. QED
      BY <1>2, <2>1, <2>2 DEF Unlock, TypeOK
  <1>3. \A q \in Requests : Locking(req'[q]) => locks'[req'[q].user] = q
    BY <1>1, <1>2
  <1>4. QED
    BY <1>3 DEF LocksHeld, Locking

LEMMA RoomStep ==
  ASSUME TypeOK, RoomLeft, \A u \in Users : Plain(u)' \subseteq Plain(u),
         \A q \in Requests : Admitted(req'[q]) =>
           \/ Admitted(req[q]) /\ req'[q].user = req[q].user
           \/ \A u \in Users : u = req'[q].user /\ MaxTunnels > 0 => Cardinality(Plain(u)) < MaxTunnels
  PROVE  RoomLeft'
  <1> SUFFICES ASSUME MaxTunnels > 0, NEW u \in Users
               PROVE  /\ Cardinality(Plain(u)') <= MaxTunnels
                      /\ \A q \in Requests :
                           Admitted(req'[q]) /\ req'[q].user = u => Cardinality(Plain(u)') < MaxTunnels
    BY DEF RoomLeft, Admitted
  <1>1. Cardinality(Plain(u)) \in Nat /\ Cardinality(Plain(u)') \in Nat
        /\ Cardinality(Plain(u)') <= Cardinality(Plain(u))
    BY PlainFinite, FewerPlain
  <1>2. Cardinality(Plain(u)) <= MaxTunnels
    BY DEF RoomLeft
  <1>3. ASSUME NEW q \in Requests, Admitted(req'[q]), req'[q].user = u
        PROVE  Cardinality(Plain(u)) < MaxTunnels
    BY <1>3 DEF RoomLeft
  <1>4. QED
    BY <1>1, <1>2, <1>3

\* A call moves on and adds nothing to what its user runs.
LEMMA PlanStep ==
  ASSUME TypeOK, PlanInv, NEW r \in Requests, NEW c, req' = [req EXCEPT ![r] = c],
         \A u \in Users : Plain(u)' \subseteq Plain(u),
         \/ locks' = locks
         \/ Unlock(r)
         \/ locks[req[r].user] = None /\ locks' = [locks EXCEPT ![req[r].user] = r],
         Locking(c) => locks'[c.user] = r,
         Admitted(c) => \/ Admitted(req[r]) /\ c.user = req[r].user
                        \/ MaxTunnels > 0 => Cardinality(Plain(c.user)) < MaxTunnels
  PROVE  PlanInv'
  <1>1. LocksHeld'
    BY LockStep DEF PlanInv
  <1>2. \A q \in Requests : req'[q] = IF q = r THEN c ELSE req[q]
    BY DEF TypeOK
  <1>3. ASSUME NEW q \in Requests, q # r, Admitted(req'[q])
        PROVE  Admitted(req[q]) /\ req'[q].user = req[q].user
    BY <1>2, <1>3
  <1>4. RoomLeft'
    BY <1>2, <1>3, RoomStep DEF PlanInv
  <1>5. QED
    BY <1>1, <1>4 DEF PlanInv

LEMMA PlanIdle ==
  ASSUME TypeOK, PlanInv, UNCHANGED <<locks, req>>, \A u \in Users : Plain(u)' \subseteq Plain(u)
  PROVE  PlanInv'
  <1>1. LocksHeld'
    BY DEF PlanInv, LocksHeld, Locking
  <1>2. RoomLeft'
    BY RoomStep DEF PlanInv
  <1>3. QED
    BY <1>1, <1>2 DEF PlanInv

LEMMA PlanEnds ==
  ASSUME TypeOK, PlanInv, NEW r \in Requests, End(r, "idle") \/ End(r, "no port"),
         locks' = locks \/ Unlock(r), \A u \in Users : Plain(u)' \subseteq Plain(u)
  PROVE  PlanInv'
  <1>1. PICK pc \in {"idle", "no port"} : req' = [req EXCEPT ![r] = [pc |-> pc]]
    BY DEF End
  <1>2. ~Locking([pc |-> pc]) /\ ~Admitted([pc |-> pc])
    BY DEF Locking, Admitted
  <1>3. QED
    BY <1>1, <1>2, PlanStep

\* A creation's row counts at the commit, which gives up the lock.
LEMMA InsertWithinPlan ==
  ASSUME TypeOK, PlanInv, NEW r \in Requests, Insert(r)
  PROVE  PlanInv'
  <1> DEFINE c == req[r]
             id == lastID + 1
  <1>1. End(r, "idle") /\ Unlock(r)
    BY DEF Insert, Rollback
  <1>2. c \in Call /\ c.pc \in {"admitted", "reserved", "forwarded"}
    BY CallOf DEF Insert, Settled, At, Over
  <1>3. CASE UNCHANGED rows
    <2>1. \A u \in Users : Plain(u)' \subseteq Plain(u)
      BY <1>3 DEF Plain, Counted
    <2>2. QED
      BY <1>1, <2>1, PlanEnds
  <1>4. CASE rows' = [i \in DOMAIN rows \cup {id} |-> IF i = id THEN NewRow(c) ELSE rows[i]]
    <2> PICK v \in Users : v = c.user
      BY <1>2 DEF Call
    <2>1. NewRow(c).user = v /\ NewRow(c).speedTest = c.speedTest
      BY DEF NewRow
    <2>2. id \notin DOMAIN rows
      BY DEF TypeOK
    <2>3. \A u \in Users : u # v \/ c.speedTest => Plain(u)' \subseteq Plain(u)
      BY <1>2, <1>4, <2>1 DEF Plain, Counted, Call
    <2>4. CASE c.speedTest
      BY <1>1, <2>3, <2>4, PlanEnds
    <2>5. CASE ~c.speedTest
      <3>1. PICK n : n = id
        OBVIOUS
      <3>2. Plain(v)' \subseteq Plain(v) \cup {n}
        BY <1>4, <3>1 DEF Plain, Counted
      <3>3. LocksHeld'
        <4>1. ~Locking([pc |-> "idle"])
          BY DEF Locking
        <4>2. QED
          BY <1>1, <4>1, LockStep DEF End, PlanInv
      <3>4. \A q \in Requests : req'[q] = IF q = r THEN [pc |-> "idle"] ELSE req[q]
        BY <1>1 DEF End, TypeOK
      <3>5. ASSUME MaxTunnels > 0, NEW u \in Users
            PROVE  /\ Cardinality(Plain(u)') <= MaxTunnels
                   /\ \A q \in Requests :
                        Admitted(req'[q]) /\ req'[q].user = u => Cardinality(Plain(u)') < MaxTunnels
        <4>1. Cardinality(Plain(u)) \in Nat /\ Cardinality(Plain(u)) <= MaxTunnels
          BY <3>5, PlainFinite DEF PlanInv, RoomLeft
        <4>2. CASE u # v
          <5>1. Cardinality(Plain(u)') \in Nat /\ Cardinality(Plain(u)') <= Cardinality(Plain(u))
            BY <2>3, <4>2, FewerPlain
          <5>2. ASSUME NEW q \in Requests, Admitted(req'[q]), req'[q].user = u
                PROVE  Cardinality(Plain(u)) < MaxTunnels
            <6>1. req'[q] = req[q]
              BY <3>4, <5>2 DEF Admitted
            <6>2. QED
              BY <3>5, <5>2, <6>1 DEF PlanInv, RoomLeft
          <5>3. QED
            BY <4>1, <5>1, <5>2
        <4>3. CASE u = v
          <5>1. Cardinality(Plain(u)) < MaxTunnels
            BY <1>2, <2>5, <3>5, <4>3 DEF PlanInv, RoomLeft, Admitted
          <5>2. /\ IsFiniteSet(Plain(u) \cup {n})
                /\ Cardinality(Plain(u) \cup {n}) =
                     IF n \in Plain(u) THEN Cardinality(Plain(u)) ELSE Cardinality(Plain(u)) + 1
            BY PlainFinite, FS_AddElement
          <5>3. IsFiniteSet(Plain(u)') /\ Cardinality(Plain(u)') <= Cardinality(Plain(u) \cup {n})
            BY <3>2, <4>3, <5>2, FS_Subset
          <5>4. Cardinality(Plain(u)') \in Nat
            BY <5>3, FS_CardinalityType
          <5>5. ASSUME NEW q \in Requests, Admitted(req'[q]), req'[q].user = u
                PROVE  FALSE
            <6>1. q # r /\ req'[q] = req[q]
              BY <3>4, <5>5 DEF Admitted
            <6>2. Locking(req[q]) /\ Locking(c)
              BY <1>2, <2>5, <5>5, <6>1 DEF Admitted, Locking
            <6>3. QED
              BY <4>3, <5>5, <6>1, <6>2 DEF PlanInv, LocksHeld
          <5>6. QED
            BY <4>1, <5>1, <5>2, <5>3, <5>4, <5>5
        <4>4. QED
          BY <4>2, <4>3
      <3>6. RoomLeft'
        BY <3>5 DEF RoomLeft, Admitted
      <3>7. QED
        BY <3>3, <3>6 DEF PlanInv
    <2>6. QED
      BY <2>4, <2>5
  <1>5. QED
    BY <1>3, <1>4 DEF Insert, Rollback

LEMMA PlanNext == TypeOK /\ PlanInv /\ [Next]_vars => PlanInv'
  <1> SUFFICES ASSUME TypeOK, PlanInv, [Next]_vars PROVE PlanInv'
    OBVIOUS
  <1>1. UNCHANGED rows => \A u \in Users : Plain(u)' \subseteq Plain(u)
    BY DEF Plain, Counted
  <1>2. ASSUME NEW r \in Requests, NEW u \in Users, NEW n \in Nodes, NEW d \in Domains \cup {None},
               NEW b \in BOOLEAN, Begin(r, u, n, d, b)
        PROVE  PlanInv'
    <2>1. (\A v \in Users : Plain(v)' \subseteq Plain(v)) /\ locks' = locks
      BY <1>1, <1>2, RetirePlain DEF Begin
    <2>2. PICK c : req' = [req EXCEPT ![r] = c] /\ c.pc = "swept"
      <3> DEFINE c == [user |-> u, node |-> n, domain |-> d, speedTest |-> b,
                       port |-> None, tunnel |-> None, pc |-> "swept"]
      <3>1. req' = [req EXCEPT ![r] = c] /\ c.pc = "swept"
        BY <1>2 DEF Begin
      <3> HIDE DEF c
      <3>2. QED
        BY <3>1
    <2>3. ~Locking(c) /\ ~Admitted(c)
      BY <2>2 DEF Locking, Admitted
    <2>4. QED
      BY <2>1, <2>2, <2>3, PlanStep
  <1>3. ASSUME NEW r \in Requests, NEW u \in Users, NEW i \in TunnelIds, CheckStart(r, u, i)
        PROVE  PlanInv'
    <2>1. PICK c : req' = [req EXCEPT ![r] = c] /\ c.pc = "starting"
      <3> DEFINE c == [user |-> u, node |-> rows[i].node, domain |-> None, speedTest |-> FALSE,
                       port |-> None, tunnel |-> i, pc |-> "starting"]
      <3>1. req' = [req EXCEPT ![r] = c] /\ c.pc = "starting"
        BY <1>3 DEF CheckStart
      <3> HIDE DEF c
      <3>2. QED
        BY <3>1
    <2>2. ~Locking(c) /\ ~Admitted(c)
      BY <2>1 DEF Locking, Admitted
    <2>3. UNCHANGED <<rows, locks>>
      BY <1>3 DEF CheckStart
    <2>4. QED
      BY <1>1, <2>1, <2>2, <2>3, PlanStep
  <1>4. ASSUME NEW r \in Requests, UNCHANGED rows, (End(r, "idle") \/ End(r, "no port")), (locks' = locks \/ Unlock(r))
        PROVE  PlanInv'
    BY <1>1, <1>4, PlanEnds
  <1>5. ASSUME NEW r \in Requests, Lose(r) PROVE PlanInv'
    BY <1>4, <1>5 DEF Lose, Rollback
  <1>6. ASSUME NEW r \in Requests, ~Over(r), NEW pc \in {"locked", "admitted", "forwarded"}, Goto(r, pc),
               UNCHANGED <<rows, locks>>, Locking(req[r]) \/ req[r].speedTest,
               \/ Admitted(req[r]) \/ req[r].speedTest
               \/ MaxTunnels > 0 => Cardinality(Plain(req[r].user)) < MaxTunnels
        PROVE  PlanInv'
    <2>1. req[r] \in Call
      BY <1>6, CallOf
    <2>2. PICK c : c = [req[r] EXCEPT !.pc = pc]
      OBVIOUS
    <2>3. req' = [req EXCEPT ![r] = c]
      BY <1>6, <2>2 DEF Goto
    <2>4. c.user = req[r].user /\ c.speedTest = req[r].speedTest /\ c.user \in Users
      BY <2>1, <2>2 DEF Call
    <2>5. Locking(c) => locks'[c.user] = r
      BY <1>6, <2>4 DEF Locking, PlanInv, LocksHeld
    <2>6. Admitted(c) => \/ Admitted(req[r]) /\ c.user = req[r].user
                         \/ MaxTunnels > 0 => Cardinality(Plain(c.user)) < MaxTunnels
      BY <1>6, <2>4 DEF Admitted
    <2>7. QED
      BY <1>1, <1>6, <2>3, <2>4, <2>5, <2>6, PlanStep
  <1>7. ASSUME NEW r \in Requests, Lock(r) PROVE PlanInv'
    <2>1. req[r] \in Call
      BY <1>7, CallOf DEF Lock, At, Over
    <2>2. PICK c : c = [req[r] EXCEPT !.pc = "locked"]
      OBVIOUS
    <2>3. req' = [req EXCEPT ![r] = c]
      BY <1>7, <2>2 DEF Lock, Goto
    <2>4. c.user = req[r].user /\ c.pc = "locked" /\ c.user \in Users
      BY <2>1, <2>2 DEF Call
    <2>5. locks' = [locks EXCEPT ![req[r].user] = r] /\ locks[req[r].user] = None /\ UNCHANGED rows
      BY <1>7 DEF Lock
    <2>6. locks'[c.user] = r /\ ~Admitted(c)
      BY <2>4, <2>5 DEF TypeOK, Admitted
    <2>7. QED
      BY <1>1, <2>3, <2>5, <2>6, PlanStep
  <1>8. ASSUME NEW r \in Requests, Check(r) PROVE PlanInv'
    <2>1. CASE Rollback(r, "idle")
      BY <1>4, <2>1 DEF Rollback
    <2>2. CASE Admissible(req[r].user) /\ Goto(r, "admitted") /\ UNCHANGED <<rows, alloc, locks>>
      <3>1. req[r] \in Call /\ ~Over(r)
        BY <1>8, CallOf DEF Check, At, Over
      <3>2. Locking(req[r]) \/ req[r].speedTest
        BY <1>8 DEF Check, At, Locking
      <3>3. ASSUME MaxTunnels > 0 PROVE Cardinality(Plain(req[r].user)) < MaxTunnels
        <4> DEFINE u == req[r].user
        <4>1. IsFiniteSet(Counted(u)) /\ Cardinality(Counted(u)) < MaxTunnels
          <5>1. lastID \in Nat /\ Counted(u) \subseteq 1..lastID
            BY DEF TypeOK, Counted
          <5>2. QED
            BY <2>2, <3>3, <5>1, FS_Interval, FS_Subset DEF Admissible
        <4>2. Plain(u) \subseteq Counted(u)
          BY DEF Plain
        <4>3. Cardinality(Plain(u)) <= Cardinality(Counted(u)) /\ Cardinality(Counted(u)) \in Nat
          BY <4>1, <4>2, FS_Subset, FS_CardinalityType
        <4>4. QED
          BY <4>1, <4>3, PlainFinite
      <3>4. QED
        BY <1>6, <2>2, <3>1, <3>2, <3>3
    <2>3. QED
      BY <1>8, <2>1, <2>2 DEF Check
  <1>9. ASSUME NEW r \in Requests, CheckSpeedTest(r) PROVE PlanInv'
    <2>1. UNCHANGED <<rows, locks>> /\ ~Over(r) /\ req[r].speedTest
      BY <1>9 DEF CheckSpeedTest, At, Over
    <2>2. QED
      BY <1>4, <1>6, <1>9, <2>1 DEF CheckSpeedTest
  <1>10. ASSUME NEW r \in Requests, Reserve(r) PROVE PlanInv'
    <2>1. CASE Rollback(r, "no port")
      BY <1>4, <2>1 DEF Rollback
    <2>2. CASE req' = [req EXCEPT ![r].port = PoolStart, ![r].pc = "reserved"] /\ UNCHANGED <<rows, locks>>
      <3>1. req[r] \in Call /\ req[r].pc = "admitted"
        BY <1>10, CallOf DEF Reserve, At, Over
      <3>2. PICK c : c = [req[r] EXCEPT !.port = PoolStart, !.pc = "reserved"]
        OBVIOUS
      <3>3. req' = [req EXCEPT ![r] = c]
        BY <2>2, <3>2 DEF TypeOK
      <3>4. c.user = req[r].user /\ c.speedTest = req[r].speedTest /\ c.user \in Users
        BY <3>1, <3>2 DEF Call
      <3>5. Locking(c) => locks'[c.user] = r
        BY <2>2, <3>1, <3>4 DEF Locking, PlanInv, LocksHeld
      <3>6. Admitted(c) => Admitted(req[r])
        BY <3>1, <3>4 DEF Admitted
      <3>7. QED
        BY <1>1, <2>2, <3>3, <3>4, <3>5, <3>6, PlanStep
    <2>3. QED
      BY <1>10, <2>1, <2>2 DEF Reserve
  <1>11. ASSUME NEW r \in Requests, Forward(r) PROVE PlanInv'
    <2>1. CASE Rollback(r, "idle")
      BY <1>4, <2>1 DEF Rollback
    <2>2. CASE Goto(r, "forwarded") /\ UNCHANGED <<rows, alloc, locks>>
      <3>1. ~Over(r) /\ (Admitted(req[r]) \/ req[r].speedTest) /\ (Locking(req[r]) \/ req[r].speedTest)
        BY <1>11 DEF Forward, Settled, At, Over, Admitted, Locking
      <3>2. QED
        BY <1>6, <2>2, <3>1
    <2>3. QED
      BY <1>11, <2>1, <2>2 DEF Forward
  <1>12. ASSUME NEW r \in Requests, Start(r) PROVE PlanInv'
    <2>1. \A u \in Users : Plain(u)' \subseteq Plain(u)
      <3>1. CASE UNCHANGED rows
        BY <1>1, <3>1
      <3>2. ASSUME NEW i \in DOMAIN rows, rows' = [rows EXCEPT ![i].status = "active", ![i].restarted = TRUE]
            PROVE  \A u \in Users : Plain(u)' \subseteq Plain(u)
        <4>1. rows'[i].restarted
          BY <3>2 DEF TypeOK, Row
        <4>2. DOMAIN rows' = DOMAIN rows /\ \A j \in DOMAIN rows : j # i => rows'[j] = rows[j]
          BY <3>2 DEF TypeOK
        <4>3. QED
          BY <4>1, <4>2, PlainShrinks
      <3>3. QED
        BY <1>12, <3>1, <3>2 DEF Start, Updatable, Owned
    <2>2. QED
      BY <1>12, <2>1, PlanEnds DEF Start
  <1>13. ASSUME NEW u \in Users, NEW i \in TunnelIds, FinishSpeedTestTunnel(u, i) \/ DeleteTunnel(u, i)
         PROVE  PlanInv'
    BY <1>13, PlanIdle, RetirePlain DEF FinishSpeedTestTunnel, DeleteTunnel
  <1>14. CASE CleanupExpiredSpeedTestTunnels
    BY <1>14, PlanIdle, RetirePlain DEF CleanupExpiredSpeedTestTunnels
  <1>15. ASSUME NEW u \in Users, NEW i \in TunnelIds, Stop(u, i) PROVE PlanInv'
    <2>1. i \in DOMAIN rows /\ rows' = [rows EXCEPT ![i].status = "disabled"] /\ UNCHANGED <<locks, req>>
      BY <1>15 DEF Stop, Updatable, Owned
    <2>2. rows'[i].status # "active" /\ DOMAIN rows' = DOMAIN rows /\ \A j \in DOMAIN rows : j # i => rows'[j] = rows[j]
      BY <2>1 DEF TypeOK, Row
    <2>3. QED
      BY <2>1, <2>2, PlainShrinks, PlanIdle
  <1>16. ASSUME NEW i \in TunnelIds, Age(i) PROVE PlanInv'
    <2>1. i \in DOMAIN rows /\ rows' = [rows EXCEPT ![i].overdue = TRUE] /\ UNCHANGED <<locks, req>>
      BY <1>16 DEF Age, Live
    <2>2. /\ DOMAIN rows' = DOMAIN rows
          /\ \A j \in DOMAIN rows :
               /\ rows'[j].user = rows[j].user /\ rows'[j].speedTest = rows[j].speedTest
               /\ rows'[j].status = rows[j].status /\ rows'[j].restarted = rows[j].restarted
      BY <2>1 DEF TypeOK, Row
    <2>3. QED
      BY <2>1, <2>2, PlainShrinks, PlanIdle
  <1>17. CASE (\E u \in Users : Subscribe(u)) \/ UNCHANGED vars
    BY <1>1, <1>17, PlanIdle DEF Subscribe, vars
  <1>18. QED
    BY <1>2, <1>3, <1>5, <1>7, <1>8, <1>9, <1>10, <1>11, <1>12, <1>13, <1>14, <1>15, <1>16, <1>17,
       InsertWithinPlan DEF Next, Step

\* However many creations of a user run at once, what the user runs beyond the plan's
\* number of tunnels was stopped and started again.
THEOREM CreationsWithinPlan == Spec => []WithinPlanUnlessRestarted
  <1>1. Init => PlanInv
    <2> SUFFICES ASSUME Init PROVE PlanInv
      OBVIOUS
    <2>1. \A u : Plain(u) = {}
      BY DEF Init, Plain, Counted
    <2>2. \A u : Cardinality(Plain(u)) = 0
      BY <2>1, FS_EmptySet
    <2>3. QED
      BY <2>2 DEF Init, PlanInv, LocksHeld, Locking, RoomLeft, Admitted
  <1>2. PlanInv => WithinPlanUnlessRestarted
    BY DEF PlanInv, RoomLeft, WithinPlanUnlessRestarted, Plain
  <1>3. QED
    BY <1>1, <1>2, PlanNext, TypeCorrect, PTL DEF Spec

-----------------------------------------------------------------------------
(* Waiting                                                                 *)

\* Who has the lock of a user is a creation of that user, past the statement that took it.
HoldersUnderWay ==
  \A u \in Users, q \in Requests : locks[u] = q => Locking(req[q]) /\ req[q].user = u

LEMMA HolderStep ==
  ASSUME TypeOK, HoldersUnderWay, NEW r \in Requests, NEW c, req' = [req EXCEPT ![r] = c],
         \/ locks' = locks /\ (Locking(req[r]) => Locking(c) /\ c.user = req[r].user)
         \/ Unlock(r)
         \/ locks' = [locks EXCEPT ![c.user] = r] /\ Locking(c) /\ ~Locking(req[r])
  PROVE  HoldersUnderWay'
  <1>1. \A q \in Requests : req'[q] = IF q = r THEN c ELSE req[q]
    BY DEF TypeOK
  <1>2. locks \in [Users -> Requests \cup {None}] /\ r # None
    BY DEF TypeOK
  <1>3. ASSUME NEW u \in Users, NEW q \in Requests, locks'[u] = q
        PROVE  Locking(req'[q]) /\ req'[q].user = u
    <2>1. CASE locks' = locks /\ (Locking(req[r]) => Locking(c) /\ c.user = req[r].user)
      <3>1. Locking(req[q]) /\ req[q].user = u
        BY <1>3, <2>1 DEF HoldersUnderWay
      <3>2. QED
        BY <1>1, <2>1, <3>1
    <2>2. CASE Unlock(r)
      <3>1. locks[u] = q /\ q # r
        BY <1>2, <1>3, <2>2 DEF Unlock
      <3>2. QED
        BY <1>1, <3>1 DEF HoldersUnderWay
    <2>3. CASE locks' = [locks EXCEPT ![c.user] = r] /\ Locking(c) /\ ~Locking(req[r])
      <3>1. locks'[u] = IF u = c.user THEN r ELSE locks[u]
        BY <1>2, <2>3
      <3>2. CASE u = c.user
        BY <1>1, <1>3, <2>3, <3>1, <3>2
      <3>3. CASE u # c.user
        <4>1. Locking(req[q]) /\ req[q].user = u
          BY <1>3, <3>1, <3>3 DEF HoldersUnderWay
        <4>2. QED
          BY <1>1, <2>3, <4>1
      <3>4. QED
        BY <3>2, <3>3
    <2>4. QED
      BY <2>1, <2>2, <2>3
  <1>4. QED
    BY <1>3 DEF HoldersUnderWay, Locking

\* A call that has no lock ends, or one that has gives it up.
LEMMA HolderEnds ==
  ASSUME TypeOK, HoldersUnderWay, NEW r \in Requests, NEW pc, End(r, pc),
         Unlock(r) \/ (locks' = locks /\ ~Locking(req[r]))
  PROVE  HoldersUnderWay'
  BY HolderStep DEF End

\* A call goes on in its transaction, or a speed test, which has no lock, does.
LEMMA HolderGoes ==
  ASSUME TypeOK, HoldersUnderWay, NEW r \in Requests, ~Over(r),
         NEW pc \in {"admitted", "forwarded"}, Goto(r, pc), locks' = locks
  PROVE  HoldersUnderWay'
  <1>1. PICK c : c = [req[r] EXCEPT !.pc = pc]
    OBVIOUS
  <1>2. req' = [req EXCEPT ![r] = c]
    BY <1>1 DEF Goto
  <1>3. c.pc = pc /\ c.user = req[r].user /\ c.speedTest = req[r].speedTest
    BY <1>1, CallOf DEF Call
  <1>4. Locking(req[r]) => Locking(c)
    BY <1>3 DEF Locking
  <1>5. QED
    BY <1>2, <1>3, <1>4, HolderStep

LEMMA HolderNext == TypeOK /\ HoldersUnderWay /\ [Next]_vars => HoldersUnderWay'
  <1> SUFFICES ASSUME TypeOK, HoldersUnderWay, [Next]_vars PROVE HoldersUnderWay'
    OBVIOUS
  <1>1. ASSUME NEW r \in Requests, NEW c, Over(r), req' = [req EXCEPT ![r] = c], locks' = locks
        PROVE  HoldersUnderWay'
    <2>1. ~Locking(req[r])
      BY <1>1 DEF Over, Locking
    <2>2. QED
      BY <1>1, <2>1, HolderStep
  <1>2. ASSUME NEW r \in Requests, NEW u \in Users, NEW n \in Nodes, NEW d \in Domains \cup {None},
               NEW b \in BOOLEAN, Begin(r, u, n, d, b)
        PROVE  HoldersUnderWay'
    BY <1>1, <1>2 DEF Begin
  <1>3. ASSUME NEW r \in Requests, NEW u \in Users, NEW i \in TunnelIds, CheckStart(r, u, i)
        PROVE  HoldersUnderWay'
    BY <1>1, <1>3 DEF CheckStart
  <1>4. ASSUME NEW r \in Requests, NEW pc, Rollback(r, pc) PROVE HoldersUnderWay'
    BY <1>4, HolderEnds DEF Rollback
  <1>5. ASSUME NEW r \in Requests, Lock(r) PROVE HoldersUnderWay'
    <2>1. req[r] \in Call /\ req[r].pc = "swept"
      BY <1>5, CallOf DEF Lock, At, Over
    <2>2. PICK c : c = [req[r] EXCEPT !.pc = "locked"]
      OBVIOUS
    <2>3. c.pc = "locked" /\ c.user = req[r].user /\ c.speedTest = req[r].speedTest
      BY <2>1, <2>2 DEF Call
    <2>4. Locking(c) /\ ~Locking(req[r])
      BY <1>5, <2>1, <2>3 DEF Lock, Locking
    <2>5. req' = [req EXCEPT ![r] = c] /\ locks' = [locks EXCEPT ![c.user] = r]
      BY <1>5, <2>2, <2>3 DEF Lock, Goto
    <2>6. QED
      BY <2>4, <2>5, HolderStep
  <1>6. ASSUME NEW r \in Requests, Check(r) \/ Forward(r) PROVE HoldersUnderWay'
    <2>1. ~Over(r)
      BY <1>6 DEF Check, Forward, Settled, At, Over
    <2>2. QED
      BY <1>4, <1>6, <2>1, HolderGoes DEF Check, Forward
  <1>7. ASSUME NEW r \in Requests, CheckSpeedTest(r) PROVE HoldersUnderWay'
    <2>1. ~Over(r) /\ ~Locking(req[r]) /\ locks' = locks
      BY <1>7 DEF CheckSpeedTest, At, Over, Locking
    <2>2. QED
      BY <1>7, <2>1, HolderGoes, HolderEnds DEF CheckSpeedTest
  <1>8. ASSUME NEW r \in Requests, Reserve(r) PROVE HoldersUnderWay'
    <2>1. CASE req' = [req EXCEPT ![r].port = PoolStart, ![r].pc = "reserved"] /\ locks' = locks
      <3>1. req[r] \in Call /\ req[r].pc = "admitted"
        BY <1>8, CallOf DEF Reserve, At, Over
      <3>2. PICK c : c = [req[r] EXCEPT !.port = PoolStart, !.pc = "reserved"]
        OBVIOUS
      <3>3. req' = [req EXCEPT ![r] = c]
        BY <2>1, <3>2 DEF TypeOK
      <3>4. c.pc = "reserved" /\ c.user = req[r].user /\ c.speedTest = req[r].speedTest
        BY <3>1, <3>2 DEF Call
      <3>5. QED
        BY <2>1, <3>3, <3>4, HolderStep DEF Locking
    <2>2. QED
      BY <1>4, <1>8, <2>1 DEF Reserve
  <1>9. ASSUME NEW r \in Requests, Insert(r) PROVE HoldersUnderWay'
    BY <1>4, <1>9, HolderEnds DEF Insert
  <1>10. ASSUME NEW r \in Requests, Start(r) PROVE HoldersUnderWay'
    <2>1. ~Locking(req[r]) /\ locks' = locks /\ End(r, "idle")
      BY <1>10 DEF Start, At, Locking
    <2>2. QED
      BY <2>1, HolderEnds
  <1>11. ASSUME NEW r \in Requests, Lose(r) PROVE HoldersUnderWay'
    BY <1>4, <1>11 DEF Lose
  <1>12. CASE UNCHANGED <<locks, req>>
    BY <1>12 DEF HoldersUnderWay, Locking
  <1>13. ASSUME NEW u \in Users, NEW i \in TunnelIds,
                FinishSpeedTestTunnel(u, i) \/ DeleteTunnel(u, i) \/ Stop(u, i) \/ Subscribe(u)
         PROVE  UNCHANGED <<locks, req>>
    BY <1>13 DEF FinishSpeedTestTunnel, DeleteTunnel, Stop, Subscribe
  <1>14. ASSUME NEW u \in Users, Subscribe(u) PROVE UNCHANGED <<locks, req>>
    BY <1>14 DEF Subscribe
  <1>15. ASSUME NEW i \in TunnelIds, Age(i) PROVE UNCHANGED <<locks, req>>
    BY <1>15 DEF Age
  <1>16. CASE CleanupExpiredSpeedTestTunnels
    BY <1>12, <1>16 DEF CleanupExpiredSpeedTestTunnels
  <1>17. CASE UNCHANGED vars
    BY <1>12, <1>17 DEF vars
  <1>18. QED
    BY <1>2, <1>3, <1>5, <1>6, <1>7, <1>8, <1>9, <1>10, <1>11, <1>12, <1>13, <1>14, <1>15, <1>16, <1>17
       DEF Next, Step

\* However many calls there are and wherever they are cut, one that waits for the
\* advisory lock or for a port waits for a call under way, and that one at most for
\* another, which can go on: the two waits of CreateTunnel never form a deadlock.
THEOREM WaitsStayShort == Spec => []WaitsAreShort
  <1>1. Init => HoldersUnderWay
    BY DEF Init, HoldersUnderWay
  <1>2. TypeOK /\ HoldersUnderWay => WaitsAreShort
    <2> SUFFICES ASSUME TypeOK, HoldersUnderWay, NEW r \in Requests, NEW q \in Requests, WaitsFor(r, q)
                 PROVE  /\ ~Over(q)
                        /\ \A s \in Requests :
                             WaitsFor(q, s) => ~Over(s) /\ \A w \in Requests : ~WaitsFor(s, w)
      BY DEF WaitsAreShort
    <2>1. At(q, "reserved") \/ At(q, "forwarded") \/ Locking(req[q])
      <3>1. CASE At(r, "swept") /\ locks[req[r].user] = q
        <4>1. req[r].user \in Users
          BY <3>1, CallOf DEF At, Over, Call
        <4>2. QED
          BY <3>1, <4>1 DEF HoldersUnderWay
      <3>2. QED
        BY <3>1 DEF WaitsFor
    <2>2. ~Over(q) /\ ~At(q, "swept")
      BY <2>1 DEF Locking, Over, At
    <2>3. ASSUME NEW s \in Requests, WaitsFor(q, s)
          PROVE  ~Over(s) /\ \A w \in Requests : ~WaitsFor(s, w)
      <3>1. At(s, "reserved") \/ At(s, "forwarded")
        BY <2>2, <2>3 DEF WaitsFor
      <3>2. QED
        BY <3>1 DEF WaitsFor, At, Over
    <2>4. QED
      BY <2>2, <2>3
  <1>3. QED
    BY <1>1, <1>2, HolderNext, TypeCorrect, PTL DEF Spec
=============================================================================
