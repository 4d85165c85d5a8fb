------------------------- MODULE CertificatesProofs -------------------------
(***************************************************************************)
(* Theorems about Certificates, for every value of its constants: the type *)
(* invariant, that no row promises more than the certificate on disk, and  *)
(* that owners stay.                                                       *)
(*                                                                         *)
(* The second is proved from IInv: a date in the table, in a renewal's     *)
(* list or in a call's hands was once read from disk or from such a date,  *)
(* and the dates on disk only move forward.                                *)
(***************************************************************************)
EXTENDS Certificates, TLAPS

USE DaysAssumption, BoundAssumption, NilAssumption

\* A date e for d that the certificate on disk (when disk is dk) lives up to.
Backed(dk, d, e) == e # nil => dk[d] # nil /\ e <= dk[d]

CallBacked(dk, c) ==
  c # Idle => /\ Backed(dk, c.domain, c.prior)
              /\ Backed(dk, c.domain, c.found)
              /\ \A row \in c.todo : Backed(dk, row.domain, row.expires)

RowsBacked  == \A d \in Domains : record[d] # nil => Backed(disk, d, record[d].expires)
CallsBacked == \A w \in Callers : CallBacked(disk, call[w])
DiskBounded == \A d \in Domains : disk[d] # nil => disk[d] <= now + Validity

IInv == TypeOK /\ DiskBounded /\ RowsBacked /\ CallsBacked

-----------------------------------------------------------------------------
(* Types                                                                   *)

LEMMA InitType == Init => TypeOK
  BY DEF Init, TypeOK, Callers

LEMMA Working0Type ==
  ASSUME NEW d \in Domains, NEW by \in Users \cup {nil}, NEW prior \in Int \cup {nil},
         NEW todo \in SUBSET Listing
  PROVE  /\ Working0(d, by, prior, todo) \in Working
         /\ Working0(d, by, prior, todo) # Idle
  BY DEF Working0, Working, Idle

LEMMA ListType == TypeOK => List \in SUBSET Listing
  BY DEF TypeOK, List, Top, Listing, Row

LEMMA ProceedType ==
  ASSUME TypeOK, NEW w \in Callers, NEW todo \in SUBSET Listing, Proceed(w, todo)
  PROVE  call' \in [Callers -> Working \cup {Idle}]
  <1>1. CASE todo = {} /\ call' = [call EXCEPT ![w] = Idle]
    BY <1>1 DEF TypeOK
  <1>2. CASE \E row \in todo :
               call' = [call EXCEPT ![w] = Working0(row.domain, nil, row.expires, todo \ {row})]
    <2>1. PICK row \in todo :
            call' = [call EXCEPT ![w] = Working0(row.domain, nil, row.expires, todo \ {row})]
      BY <1>2
    <2>2. Working0(row.domain, nil, row.expires, todo \ {row}) \in Working
      BY Working0Type DEF Listing
    <2>3. QED
      BY <2>1, <2>2 DEF TypeOK
  <1>3. QED
    BY <1>1, <1>2 DEF Proceed

LEMMA AtWorking ==
  ASSUME TypeOK, NEW w \in Callers, call[w] # Idle
  PROVE  call[w] \in Working
  BY DEF TypeOK

LEMMA TouchedType ==
  ASSUME TypeOK, NEW d \in Domains
  PROVE  /\ Touched(d) \in [Domains -> Nat]
         /\ \A e \in Domains : Touched(d)[e] = 0 <=> e # d /\ rank[e] = 0
         /\ \A e, f \in Domains : e # f /\ Touched(d)[e] = Touched(d)[f] => Touched(d)[e] = 0
  BY DEF TypeOK, Touched

LEMMA RowType ==
  ASSUME TypeOK, NEW c \in Working
  PROVE  RowOf(c) \in Row /\ RowOf(c) # nil
  <1>1. OwnerOf(c.domain) \in Users \cup {nil}
    BY DEF TypeOK, OwnerOf, Row, Working
  <1>2. RowOf(c) \in Row
    BY <1>1 DEF RowOf, Row, Working
  <1>3. QED
    BY <1>2

LEMMA SaveType ==
  ASSUME TypeOK, NEW w \in Callers, Save(w)
  PROVE  TypeOK'
  <1>1. call[w] \in Working
    BY AtWorking DEF Save, At, Idle
  <1>2. call[w].domain \in Domains /\ call[w].todo \in SUBSET Listing
    BY <1>1 DEF Working
  <1>3. RowOf(call[w]) \in Row /\ RowOf(call[w]) # nil
    BY <1>1, RowType
  <1>4. call' \in [Callers -> Working \cup {Idle}]
    BY <1>2, ProceedType DEF Save
  <1>5. /\ record' \in [Domains -> Row \cup {nil}]
        /\ \A d \in Domains : record'[d] = nil <=> d # call[w].domain /\ record[d] = nil
    BY <1>2, <1>3 DEF Save, TypeOK
  <1>6. /\ rank' \in [Domains -> Nat]
        /\ \A d \in Domains : rank'[d] = 0 <=> d # call[w].domain /\ rank[d] = 0
        /\ \A d, e \in Domains : d # e /\ rank'[d] = rank'[e] => rank'[d] = 0
    BY <1>2, TouchedType DEF Save
  <1>7. now' = now /\ disk' = disk /\ faults' = faults
    BY DEF Save
  <1>8. QED
    BY <1>4, <1>5, <1>6, <1>7 DEF TypeOK

LEMMA StepType ==
  ASSUME TypeOK, NEW w \in Callers, Step(w)
  PROVE  TypeOK'
  <1>1. call[w] # Idle
    BY DEF Step, Issue, IssueNothing, InspectFails, Inspect, Save, At, Idle
  <1>2. call[w] \in Working
    BY <1>1, AtWorking
  <1>3. CASE Issue(w)
    <2>1. disk' \in [Domains -> Int \cup {nil}]
      <3>1. now + Validity \in Int
        BY DEF TypeOK
      <3>2. QED
        BY <1>3, <3>1 DEF Issue, TypeOK
    <2>2. [call[w] EXCEPT !.pc = "inspect"] \in Working
      BY <1>2 DEF Working
    <2>3. QED
      BY <1>3, <2>1, <2>2 DEF Issue, TypeOK
  <1>4. CASE IssueNothing(w)
    <2>1. [call[w] EXCEPT !.pc = "inspect"] \in Working
      BY <1>2 DEF Working
    <2>2. faults' \in 0..MaxFaults
      BY <1>4 DEF IssueNothing, Fault, TypeOK
    <2>3. QED
      BY <1>4, <2>1, <2>2 DEF IssueNothing, TypeOK
  <1>5. CASE InspectFails(w)
    <2>1. [call[w] EXCEPT !.found = nil, !.pc = "save"] \in Working
      BY <1>2 DEF Working
    <2>2. faults' \in 0..MaxFaults
      BY <1>5 DEF InspectFails, Fault, TypeOK
    <2>3. QED
      BY <1>5, <2>1, <2>2 DEF InspectFails, TypeOK
  <1>6. CASE Inspect(w)
    <2>1. disk[call[w].domain] \in Int \cup {nil}
      BY <1>2 DEF Working, TypeOK
    <2>2. [call[w] EXCEPT !.found = disk[call[w].domain], !.pc = "save"] \in Working
      BY <1>2, <2>1 DEF Working
    <2>3. QED
      BY <1>6, <2>2 DEF Inspect, TypeOK
  <1>7. CASE Save(w)
    BY <1>7, SaveType
  <1>8. QED
    BY <1>3, <1>4, <1>5, <1>6, <1>7 DEF Step

LEMMA NextType == TypeOK /\ [Next]_vars => TypeOK'
  <1> SUFFICES ASSUME TypeOK, [Next]_vars PROVE TypeOK'
    OBVIOUS
  <1>1. ASSUME NEW w \in Workers, NEW d \in Domains, AdminRequest(w, d) PROVE TypeOK'
    <2>1. Working0(d, nil, nil, {}) \in Working
      BY Working0Type
    <2>2. QED
      BY <1>1, <2>1 DEF AdminRequest, TypeOK, Callers
  <1>2. ASSUME NEW w \in Workers, NEW d \in Domains, NEW u \in Users, Request(w, u, d) PROVE TypeOK'
    <2>1. Working0(d, u, nil, {}) \in Working
      BY Working0Type
    <2>2. QED
      BY <1>2, <2>1 DEF Request, TypeOK, Callers
  <1>3. ASSUME NEW w \in Callers, NEW force \in BOOLEAN, RenewDue(w, force) PROVE TypeOK'
    <2>1. {row \in List : force \/ Due(row.expires)} \in SUBSET Listing
      BY ListType
    <2>2. call' \in [Callers -> Working \cup {Idle}]
      BY <1>3, <2>1, ProceedType DEF RenewDue
    <2>3. QED
      BY <1>3, <2>2 DEF RenewDue, TypeOK
  <1>4. ASSUME NEW w \in Callers, Step(w) PROVE TypeOK'
    BY <1>4, StepType
  <1>5. ASSUME NEW w \in Callers, Abort(w) PROVE TypeOK'
    <2>1. faults' \in 0..MaxFaults
      BY <1>5 DEF Abort, Fault, TypeOK
    <2>2. QED
      BY <1>5, <2>1 DEF Abort, TypeOK
  <1>6. CASE Tick
    BY <1>6 DEF Tick, TypeOK
  <1>7. CASE UNCHANGED vars
    BY <1>7 DEF vars, TypeOK
  <1>8. QED
    BY <1>1, <1>2, <1>3, <1>4, <1>5, <1>6, <1>7 DEF Next, Callers

\* Every reachable state of the certificates has its type; in particular a domain has
\* a row exactly when it has a place in the list, and no two rows share a place.
THEOREM TypeCorrect == Spec => []TypeOK
  <1>1. QED
    BY InitType, NextType, PTL DEF Spec

-----------------------------------------------------------------------------
(* No row runs ahead of the disk                                           *)

\* Certificates on disk are only ever replaced by later ones.
LEMMA DiskForward ==
  ASSUME IInv, [Next]_vars, NEW d \in Domains, disk[d] # nil
  PROVE  disk'[d] # nil /\ disk[d] <= disk'[d]
  <1>0. disk[d] \in Int /\ disk[d] <= now + Validity
    BY DEF IInv, TypeOK, DiskBounded
  <1>1. ASSUME NEW w \in Callers, Issue(w) PROVE disk'[d] # nil /\ disk[d] <= disk'[d]
    <2>1. now + Validity \in Int
      BY DEF IInv, TypeOK
    <2>2. disk'[d] = disk[d] \/ disk'[d] = now + Validity
      BY <1>1 DEF Issue, IInv, TypeOK
    <2>3. QED
      BY <1>0, <2>1, <2>2
  <1>2. CASE disk' = disk
    BY <1>0, <1>2
  <1>3. disk' = disk \/ \E w \in Callers : Issue(w)
    BY DEF Next, vars, AdminRequest, Request, RenewDue, Step, IssueNothing, InspectFails,
           Inspect, Save, Abort, Tick
  <1>4. QED
    BY <1>1, <1>2, <1>3

LEMMA DiskBoundedKept == IInv /\ [Next]_vars => DiskBounded'
  <1> SUFFICES ASSUME IInv, [Next]_vars, NEW d \in Domains, disk'[d] # nil
               PROVE  disk'[d] <= now' + Validity
    BY DEF DiskBounded
  <1>0. now \in Int /\ disk[d] \in Int \cup {nil} /\ (disk[d] # nil => disk[d] <= now + Validity)
    BY DEF IInv, TypeOK, DiskBounded
  <1>1. ASSUME NEW w \in Callers, Issue(w) PROVE disk'[d] <= now' + Validity
    <2>1. now' = now /\ (disk'[d] = disk[d] \/ disk'[d] = now + Validity)
      BY <1>1 DEF Issue, IInv, TypeOK
    <2>2. QED
      BY <1>0, <2>1
  <1>2. CASE Tick
    <2>1. disk' = disk /\ now' = now + 1
      BY <1>2 DEF Tick
    <2>2. QED
      BY <1>0, <2>1
  <1>3. CASE disk' = disk /\ now' = now
    BY <1>0, <1>3
  <1>4. (disk' = disk /\ now' = now) \/ Tick \/ \E w \in Callers : Issue(w)
    BY DEF Next, vars, AdminRequest, Request, RenewDue, Step, IssueNothing, InspectFails,
           Inspect, Save, Abort
  <1>5. QED
    BY <1>1, <1>2, <1>3, <1>4

LEMMA BackedForward ==
  ASSUME IInv, [Next]_vars, NEW d \in Domains, NEW e \in Int \cup {nil}, Backed(disk, d, e)
  PROVE  Backed(disk', d, e)
  <1>1. TypeOK'
    BY NextType DEF IInv
  <1>2. disk[d] \in Int \cup {nil} /\ disk'[d] \in Int \cup {nil}
    BY <1>1 DEF IInv, TypeOK
  <1>3. QED
    BY <1>2, DiskForward DEF Backed

\* What a call knew stays backed as long as it knows nothing new.
LEMMA CallForward ==
  ASSUME IInv, [Next]_vars, NEW c \in Working, CallBacked(disk, c)
  PROVE  CallBacked(disk', c)
  <1>1. /\ c.domain \in Domains /\ c.prior \in Int \cup {nil} /\ c.found \in Int \cup {nil}
        /\ \A row \in c.todo : row.domain \in Domains /\ row.expires \in Int \cup {nil}
    BY DEF Working, Listing
  <1>2. c # Idle
    BY DEF Working, Idle
  <1>3. QED
    BY <1>1, <1>2, BackedForward DEF CallBacked

LEMMA ListBacked ==
  ASSUME IInv, NEW row \in List
  PROVE  Backed(disk, row.domain, row.expires)
  <1>1. PICK d \in Domains : rank[d] > 0 /\ row = [domain |-> d, expires |-> record[d].expires]
    BY DEF List, Top
  <1>2. record[d] # nil
    BY <1>1 DEF IInv, TypeOK
  <1>3. QED
    BY <1>1, <1>2 DEF IInv, RowsBacked

LEMMA ProceedBacked ==
  ASSUME IInv, NEW w \in Callers, NEW todo \in SUBSET Listing, Proceed(w, todo), disk' = disk,
         \A row \in todo : Backed(disk, row.domain, row.expires)
  PROVE  CallsBacked'
  <1>1. CASE todo = {} /\ call' = [call EXCEPT ![w] = Idle]
    BY <1>1 DEF CallsBacked, CallBacked, IInv, TypeOK
  <1>2. CASE \E row \in todo :
               call' = [call EXCEPT ![w] = Working0(row.domain, nil, row.expires, todo \ {row})]
    <2>1. PICK row \in todo :
            call' = [call EXCEPT ![w] = Working0(row.domain, nil, row.expires, todo \ {row})]
      BY <1>2
    <2>2. CallBacked(disk, Working0(row.domain, nil, row.expires, todo \ {row}))
      BY DEF CallBacked, Working0, Backed
    <2>3. QED
      BY <2>1, <2>2 DEF CallsBacked, IInv, TypeOK
  <1>3. QED
    BY <1>1, <1>2 DEF Proceed

\* The one call that moves is backed, and the others stay so.
LEMMA OthersBacked ==
  ASSUME IInv, [Next]_vars, NEW w \in Callers, NEW c, call' = [call EXCEPT ![w] = c],
         CallBacked(disk', c)
  PROVE  CallsBacked'
  <1> SUFFICES ASSUME NEW v \in Callers PROVE CallBacked(disk', call'[v])
    BY DEF CallsBacked
  <1>1. CASE v = w
    BY <1>1 DEF IInv, TypeOK
  <1>2. CASE v # w
    <2>1. call'[v] = call[v] /\ call[v] \in Working \cup {Idle} /\ CallBacked(disk, call[v])
      BY <1>2 DEF IInv, TypeOK, CallsBacked
    <2>2. CASE call[v] = Idle
      BY <2>1, <2>2 DEF CallBacked
    <2>3. CASE call[v] \in Working
      BY <2>1, <2>3, CallForward
    <2>4. QED
      BY <2>1, <2>2, <2>3
  <1>3. QED
    BY <1>1, <1>2

LEMMA StepCallsBacked ==
  ASSUME IInv, [Next]_vars, NEW w \in Callers, Step(w)
  PROVE  CallsBacked'
  <1>1. call[w] # Idle /\ call[w] \in Working
    BY AtWorking DEF IInv, Step, Issue, IssueNothing, InspectFails, Inspect, Save, At, Idle
  <1>2. CallBacked(disk, call[w]) /\ CallBacked(disk', call[w])
    BY <1>1, CallForward DEF IInv, CallsBacked
  <1>3. CASE Issue(w) \/ IssueNothing(w)
    <2> DEFINE c == [call[w] EXCEPT !.pc = "inspect"]
    <2>1. c.domain = call[w].domain /\ c.prior = call[w].prior /\ c.found = call[w].found
          /\ c.todo = call[w].todo
      BY <1>1 DEF Working
    <2>2. CallBacked(disk', c)
      BY <1>1, <1>2, <2>1 DEF CallBacked
    <2>3. call' = [call EXCEPT ![w] = c]
      BY <1>3 DEF Issue, IssueNothing
    <2>4. QED
      BY <2>2, <2>3, OthersBacked
  <1>4. CASE InspectFails(w) \/ Inspect(w)
    <2> PICK e \in {nil, disk[call[w].domain]} :
          call' = [call EXCEPT ![w] = [call[w] EXCEPT !.found = e, !.pc = "save"]] /\ disk' = disk
      BY <1>4 DEF InspectFails, Inspect
    <2> DEFINE c == [call[w] EXCEPT !.found = e, !.pc = "save"]
    <2>1. c.domain = call[w].domain /\ c.prior = call[w].prior /\ c.found = e
          /\ c.todo = call[w].todo
      BY <1>1 DEF Working
    <2>2. disk[call[w].domain] \in Int \cup {nil}
      BY <1>1 DEF Working, IInv, TypeOK
    <2>3. Backed(disk', call[w].domain, e)
      BY <2>2 DEF Backed
    <2>4. CallBacked(disk', c)
      BY <1>1, <1>2, <2>1, <2>3 DEF CallBacked
    <2>5. QED
      BY <2>4, OthersBacked
  <1>5. CASE Save(w)
    <2>1. call[w].todo \in SUBSET Listing
      BY <1>1 DEF Working
    <2>2. QED
      BY <1>1, <1>2, <1>5, <2>1, ProceedBacked DEF Save, CallBacked
  <1>6. QED
    BY <1>3, <1>4, <1>5 DEF Step

LEMMA CallsBackedKept == IInv /\ [Next]_vars => CallsBacked'
  <1> SUFFICES ASSUME IInv, [Next]_vars PROVE CallsBacked'
    OBVIOUS
  <1>1. ASSUME NEW w \in Callers, NEW d \in Domains, NEW u,
               call' = [call EXCEPT ![w] = Working0(d, u, nil, {})]
        PROVE  CallsBacked'
    <2>1. CallBacked(disk', Working0(d, u, nil, {}))
      BY DEF CallBacked, Working0, Backed
    <2>2. QED
      BY <1>1, <2>1, OthersBacked
  <1>2. ASSUME NEW w \in Callers, NEW force \in BOOLEAN, RenewDue(w, force) PROVE CallsBacked'
    <2>1. {row \in List : force \/ Due(row.expires)} \in SUBSET Listing
      BY ListType DEF IInv
    <2>2. QED
      BY <1>2, <2>1, ListBacked, ProceedBacked DEF RenewDue
  <1>3. ASSUME NEW w \in Callers, Step(w) PROVE CallsBacked'
    BY <1>3, StepCallsBacked
  <1>4. ASSUME NEW w \in Callers, Abort(w) PROVE CallsBacked'
    <2>1. CallBacked(disk', Idle)
      BY DEF CallBacked
    <2>2. QED
      BY <1>4, <2>1, OthersBacked DEF Abort
  <1>5. CASE disk' = disk /\ call' = call
    BY <1>5 DEF IInv, CallsBacked
  <1>6. QED
    BY <1>1, <1>2, <1>3, <1>4, <1>5 DEF Next, vars, Tick, AdminRequest, Request, Callers

LEMMA SaveRowsBacked ==
  ASSUME IInv, NEW w \in Callers, Save(w)
  PROVE  RowsBacked'
  <1>1. call[w] # Idle /\ call[w] \in Working
    BY AtWorking DEF IInv, Save, At, Idle
  <1>2. Backed(disk, call[w].domain, RowOf(call[w]).expires)
    BY <1>1 DEF IInv, CallsBacked, CallBacked, RowOf, Backed
  <1>3. call[w].domain \in Domains
    BY <1>1 DEF Working
  <1>4. QED
    BY <1>2, <1>3 DEF Save, IInv, TypeOK, RowsBacked

LEMMA RowsBackedKept == IInv /\ [Next]_vars => RowsBacked'
  <1> SUFFICES ASSUME IInv, [Next]_vars PROVE RowsBacked'
    OBVIOUS
  <1>1. ASSUME NEW w \in Callers, Save(w) PROVE RowsBacked'
    BY <1>1, SaveRowsBacked
  <1>2. CASE record' = record
    <2> SUFFICES ASSUME NEW d \in Domains, record[d] # nil
                 PROVE  Backed(disk', d, record[d].expires)
      BY <1>2 DEF RowsBacked
    <2>1. record[d].expires \in Int \cup {nil} /\ Backed(disk, d, record[d].expires)
      BY DEF IInv, TypeOK, Row, RowsBacked
    <2>2. QED
      BY <2>1, BackedForward
  <1>3. record' = record \/ \E w \in Callers : Save(w)
    BY DEF Next, vars, AdminRequest, Request, RenewDue, Step, Issue, IssueNothing, InspectFails,
           Inspect, Abort, Tick
  <1>4. QED
    BY <1>1, <1>2, <1>3

\* Whatever calls overlap and whichever saves last, a row never gives its certificate
\* longer than the certificate on disk has, so one near its end is seen as such.
THEOREM RowsNeverAhead == Spec => []RecordNeverAhead
  <1>1. Init => IInv
    BY InitType DEF Init, IInv, DiskBounded, RowsBacked, CallsBacked, CallBacked
  <1>2. IInv /\ [Next]_vars => IInv'
    BY NextType, DiskBoundedKept, RowsBackedKept, CallsBackedKept DEF IInv
  <1>3. IInv => RecordNeverAhead
    BY DEF IInv, RowsBacked, Backed, RecordNeverAhead
  <1>4. QED
    BY <1>1, <1>2, <1>3, PTL DEF Spec

-----------------------------------------------------------------------------
(* Owners stay                                                             *)

\* The scheduler asks for nobody: it only renews.
Unsigned == \A w \in Callers \ Workers : call[w] # Idle => call[w].by = nil

\* What a call may be replaced by, so that the scheduler stays without a user.
LEMMA UnsignedKept ==
  ASSUME Unsigned, NEW w \in Callers, NEW c, call' = [call EXCEPT ![w] = c],
         call \in [Callers -> Working \cup {Idle}],
         w \in Workers \/ c = Idle \/ c.by = nil
  PROVE  Unsigned'
  BY DEF Unsigned

LEMMA NextUnsigned == TypeOK /\ Unsigned /\ [Next]_vars => Unsigned'
  <1> SUFFICES ASSUME TypeOK, Unsigned, [Next]_vars PROVE Unsigned'
    OBVIOUS
  <1>0. call \in [Callers -> Working \cup {Idle}]
    BY DEF TypeOK
  <1>1. ASSUME NEW w \in Callers, NEW todo \in SUBSET Listing, Proceed(w, todo) PROVE Unsigned'
    <2>1. CASE call' = [call EXCEPT ![w] = Idle]
      BY <1>0, <2>1, UnsignedKept
    <2>2. ASSUME NEW row \in todo,
                 call' = [call EXCEPT ![w] = Working0(row.domain, nil, row.expires, todo \ {row})]
          PROVE  Unsigned'
      <3>1. Working0(row.domain, nil, row.expires, todo \ {row}).by = nil
        BY DEF Working0
      <3>2. QED
        BY <1>0, <2>2, <3>1, UnsignedKept
    <2>3. QED
      BY <1>1, <2>1, <2>2 DEF Proceed
  <1>2. ASSUME NEW w \in Workers, NEW c, call' = [call EXCEPT ![w] = c] PROVE Unsigned'
    BY <1>0, <1>2, UnsignedKept DEF Callers
  <1>3. ASSUME NEW w \in Callers, NEW force \in BOOLEAN, RenewDue(w, force) PROVE Unsigned'
    <2>1. {row \in List : force \/ Due(row.expires)} \in SUBSET Listing
      BY ListType
    <2>2. QED
      BY <1>1, <1>3, <2>1 DEF RenewDue
  <1>4. ASSUME NEW w \in Callers, Step(w) PROVE Unsigned'
    <2>1. call[w] # Idle
      BY <1>4 DEF Step, Issue, IssueNothing, InspectFails, Inspect, Save, At, Idle
    <2>2. call[w] \in Working
      BY <2>1, AtWorking
    <2>3. CASE Save(w)
      BY <1>1, <2>2, <2>3 DEF Save, Working
    <2>4. CASE ~Save(w)
      <3>1. PICK c : call' = [call EXCEPT ![w] = c] /\ c.by = call[w].by
        <4>1. CASE Issue(w) \/ IssueNothing(w)
          <5>1. [call[w] EXCEPT !.pc = "inspect"].by = call[w].by
            BY <2>2 DEF Working
          <5>2. QED
            BY <4>1, <5>1 DEF Issue, IssueNothing
        <4>2. CASE InspectFails(w) \/ Inspect(w)
          <5>1. \A e : [call[w] EXCEPT !.found = e, !.pc = "save"].by = call[w].by
            BY <2>2 DEF Working
          <5>2. QED
            BY <4>2, <5>1 DEF InspectFails, Inspect
        <4>3. QED
          BY <1>4, <2>4, <4>1, <4>2 DEF Step
      <3>2. w \in Workers \/ call[w].by = nil
        BY <2>1 DEF Unsigned
      <3>3. QED
        BY <1>0, <3>1, <3>2, UnsignedKept
    <2>5. QED
      BY <2>3, <2>4
  <1>5. ASSUME NEW w \in Callers, Abort(w) PROVE Unsigned'
    BY <1>0, <1>5, UnsignedKept DEF Abort
  <1>6. CASE call' = call
    BY <1>6 DEF Unsigned
  <1>7. QED
    BY <1>2, <1>3, <1>4, <1>5, <1>6 DEF Next, vars, Tick, AdminRequest, Request, Callers

LEMMA OwnerChange ==
  ASSUME TypeOK, Unsigned, [Next]_vars, NEW d \in Domains, OwnerOf(d)' # OwnerOf(d)
  PROVE  \E w \in Workers : /\ At(w, "save") /\ On(w, d)
                            /\ call[w].by # nil /\ OwnerOf(d)' = call[w].by
  <1>1. record' # record
    BY DEF OwnerOf
  <1>2. PICK w \in Callers : Save(w)
    BY <1>1 DEF Next, vars, AdminRequest, Request, RenewDue, Step, Issue, IssueNothing, InspectFails,
                Inspect, Abort, Tick
  <1>3. call[w] # Idle
    BY <1>2 DEF Save, At, Idle
  <1>4. call[w] \in Working
    BY <1>3, AtWorking
  <1>5. record' = [record EXCEPT ![call[w].domain] = RowOf(call[w])] /\ record \in [Domains -> Row \cup {nil}]
    BY <1>2 DEF Save, TypeOK
  <1>6. call[w].domain = d
    BY <1>5 DEF OwnerOf
  <1>7. OwnerOf(d)' = RowOf(call[w]).owner
    <2>1. RowOf(call[w]) # nil
      BY <1>4, RowType
    <2>2. record'[d] = RowOf(call[w])
      BY <1>5, <1>6
    <2>3. QED
      BY <2>1, <2>2 DEF OwnerOf
  <1>8. call[w].by # nil /\ OwnerOf(d)' = call[w].by
    BY <1>6, <1>7 DEF RowOf
  <1>9. w \in Workers
    BY <1>3, <1>8 DEF Unsigned
  <1>10. QED
    BY <1>2, <1>3, <1>6, <1>8, <1>9 DEF Save, On

\* The owner of a certificate changes only when a user's own request on the domain is
\* saved, whatever renewals and administrators do beside it.
THEOREM OwnersStay == Spec => OwnerKept
  <1>1. Init => Unsigned
    BY DEF Init, Unsigned, Callers
  <1>2. TypeOK /\ Unsigned /\ [Next]_vars =>
          [\A d \in Domains :
             OwnerOf(d) # nil /\ OwnerOf(d)' # OwnerOf(d) =>
               \E w \in Workers : /\ At(w, "save") /\ On(w, d)
                                  /\ call[w].by # nil /\ OwnerOf(d)' = call[w].by]_vars
    BY OwnerChange
  <1>3. QED
    BY <1>1, <1>2, NextUnsigned, TypeCorrect, PTL DEF Spec, OwnerKept
=============================================================================
