---------------------------- MODULE SqlBilling ----------------------------
(***************************************************************************)
(* Orders, redeem codes, subscriptions and traffic accounting as the       *)
(* production backend keeps them in PostgreSQL (sql_store.go), with the    *)
(* payment callback that drives them (payment.go).                         *)
(*                                                                         *)
(* A paid order, a redeemed code and an administrator grant a plan in the  *)
(* same way: mark the source, UPDATE the active subscriptions to replaced, *)
(* INSERT the new one, COMMIT.  Transactions run at READ COMMITTED: an     *)
(* UPDATE sees the rows that were committed when it began, waits for the   *)
(* transactions that have changed them, and tests them again.              *)
(***************************************************************************)
EXTENDS Integers, Sequences, FiniteSets

CONSTANTS
  Calls,    \* identifiers of concurrent calls
  Users, Plans, Orders, Codes,
  MaxSubs,  \* bound: rows of table subscriptions
  MaxBytes, \* bound: units of traffic reported by a user
  None

ASSUME BoundAssumption   == MaxSubs \in Nat /\ MaxBytes \in Nat
ASSUME NoneAssumption    == None \notin Users /\ None \notin Plans

VARIABLES
  offered,  \* plans with status active
  orders,   \* table payment_orders
  codes,    \* table redeem_codes
  subs,     \* table subscriptions, by id
  settled,  \* orders the payer has paid at the payment provider
  acked,    \* orders whose notification was answered "success"
  metered,  \* user -> traffic reported while subscribed (table traffic_logs)
  call      \* call -> its program counter and locals

vars == <<offered, orders, codes, subs, settled, acked, metered, call>>

Ids     == Nat \ {0}
Sources == ({"order"} \X Orders) \cup ({"code"} \X Codes) \cup ({"admin"} \X Plans)

Order == [user : Users \cup {None}, plan : Plans \cup {None}, status : {"none", "pending", "paid"}]
Code  == [plan : Plans \cup {None}, status : {"none", "unused", "redeemed"}]

\* source and padded are history: what the row was inserted for, and whether a code
\* was sent with blanks around it.
Sub == [user : Users, plan : Plans, status : {"active", "replaced"}, used : Nat, source : Sources,
        padded : BOOLEAN]

Grant  == [user : Users, plan : Plans, source : Sources, padded : BOOLEAN,
           rows : SUBSET Ids, pc : {"marked", "replacing", "replaced"}]
Charge == [user : Users, rows : SUBSET Ids, pc : {"charging"}]
Idle   == [pc |-> "idle"]

TypeOK ==
  /\ offered \subseteq Plans
  /\ orders \in [Orders -> Order]
  /\ codes \in [Codes -> Code]
  /\ subs \in Seq(Sub)
  /\ settled \subseteq Orders /\ acked \subseteq Orders
  /\ metered \in [Users -> Nat]
  /\ call \in [Calls -> Grant \cup Charge \cup {Idle}]

Init ==
  /\ offered \in SUBSET Plans
  /\ orders = [o \in Orders |-> [user |-> None, plan |-> None, status |-> "none"]]
  /\ codes = [c \in Codes |-> [plan |-> None, status |-> "none"]]
  /\ subs = <<>>
  /\ settled = {} /\ acked = {}
  /\ metered = [u \in Users |-> 0]
  /\ call = [t \in Calls |-> Idle]

-----------------------------------------------------------------------------
(* Tables and locks                                                        *)

At(t, pc)   == call[t].pc = pc
Granting(t) == call[t].pc \in {"marked", "replacing", "replaced"}

Active(u) == {i \in DOMAIN subs : subs[i].user = u /\ subs[i].status = "active"}

\* Fault: the row of the source is read without FOR UPDATE.
SourceShared(source) == source \in Sources

\* SELECT .. FOR UPDATE on an order or a code waits for the grant that has it.
SourceFree(source) == \A t \in Calls : Granting(t) => call[t].source # source

\* A row of subscriptions that an open transaction has set to replaced.
Locked(i) == \E t \in Calls : At(t, "replaced") /\ i \in call[t].rows

\* Of the rows an UPDATE .. WHERE status='active' saw, those it changes once nobody
\* holds them: the condition is tested again on what is committed by then.
Changed(t) == {i \in call[t].rows : subs[i].status = "active"}

\* Bound: every grant under way can still insert its row, and so can every order.
RoomFor(source) ==
  LET taken   == Len(subs) + Cardinality({t \in Calls : Granting(t)})
      waiting == {o \in Orders : orders[o].status # "paid" /\ SourceFree(<<"order", o>>)}
  IN  source[1] = "order" \/ taken + Cardinality(waiting) < MaxSubs

Open(t, u, p, source, padded) ==
  /\ RoomFor(source)
  /\ call' = [call EXCEPT ![t] = [user |-> u, plan |-> p, source |-> source, padded |-> padded,
                                  rows |-> {}, pc |-> "marked"]]

-----------------------------------------------------------------------------
(* What starts a grant                                                     *)

\* Fault: the notification is acknowledged when it arrives, not when it is committed.
NotifyEarly(t, o) ==
  /\ At(t, "idle")
  /\ o \in settled
  /\ SourceFree(<<"order", o>>)
  /\ orders[o].plan \in offered
  /\ acked' = acked \cup {o}
  /\ Open(t, orders[o].user, orders[o].plan, <<"order", o>>, FALSE)
  /\ UNCHANGED <<offered, orders, codes, subs, settled, metered>>

\* epayNotify for a settled order; the provider repeats it until it reads "success",
\* and may repeat it after.  A plan that is no longer offered makes it fail, also for
\* an order that is already paid; a paid order is otherwise acknowledged again.
Notify(t, o) ==
  /\ At(t, "idle")
  /\ o \in settled
  /\ SourceFree(<<"order", o>>)
  /\ orders[o].plan \in offered
  /\ IF orders[o].status = "paid"
       THEN acked' = acked \cup {o} /\ UNCHANGED call
       ELSE Open(t, orders[o].user, orders[o].plan, <<"order", o>>, FALSE) /\ UNCHANGED acked
  /\ UNCHANGED <<offered, orders, codes, subs, settled, metered>>

\* Redeem: the code is looked up trimmed.  No code of the platform sets expires_at.
Redeem(t, u, c, padded) ==
  /\ At(t, "idle")
  /\ SourceFree(<<"code", c>>)
  /\ codes[c].status = "unused"
  /\ codes[c].plan \in offered
  /\ Open(t, u, codes[c].plan, <<"code", c>>, padded)
  /\ UNCHANGED <<offered, orders, codes, subs, settled, acked, metered>>

\* UpdateUser with a plan.
UpdateUser(t, u, p) ==
  /\ At(t, "idle")
  /\ p \in offered
  /\ Open(t, u, p, <<"admin", p>>, FALSE)
  /\ UNCHANGED <<offered, orders, codes, subs, settled, acked, metered>>

-----------------------------------------------------------------------------
(* The steps of a grant                                                    *)

\* UPDATE subscriptions SET status='replaced' WHERE user_id=.. AND status='active' begins.
Replace(t) ==
  /\ At(t, "marked")
  /\ call' = [call EXCEPT ![t].rows = Active(call[t].user), ![t].pc = "replacing"]
  /\ UNCHANGED <<offered, orders, codes, subs, settled, acked, metered>>

\* It has waited for those who hold its rows, and holds those it changes.
Replaced(t) ==
  /\ At(t, "replacing")
  /\ \A i \in call[t].rows : ~Locked(i)
  /\ call' = [call EXCEPT ![t].rows = Changed(t), ![t].pc = "replaced"]
  /\ UNCHANGED <<offered, orders, codes, subs, settled, acked, metered>>

MarkOrder(g) ==
  IF g.source[1] = "order" THEN orders' = [orders EXCEPT ![g.source[2]].status = "paid"]
                           ELSE UNCHANGED orders

\* UPDATE redeem_codes .. WHERE code=$3 with the code as it was sent: blanks around it
\* and no row is updated.
MarkCode(g) ==
  IF g.source[1] = "code" /\ ~g.padded
    THEN codes' = [codes EXCEPT ![g.source[2]].status = "redeemed"]
    ELSE UNCHANGED codes

WithReplaced(rows) ==
  [i \in DOMAIN subs |-> IF i \in rows THEN [subs[i] EXCEPT !.status = "replaced"] ELSE subs[i]]

\* INSERT INTO subscriptions and COMMIT: source and subscriptions change together.
\* The notification is answered, unless the answer is lost.
Commit(t) ==
  LET g   == call[t]
      new == [user |-> g.user, plan |-> g.plan, status |-> "active", used |-> 0, source |-> g.source,
              padded |-> g.padded]
  IN  /\ At(t, "replaced")
      /\ subs' = Append(WithReplaced(g.rows), new)
      /\ MarkOrder(g)
      /\ MarkCode(g)
      /\ \/ UNCHANGED acked
         \/ g.source[1] = "order" /\ acked' = acked \cup {g.source[2]}
      /\ call' = [call EXCEPT ![t] = Idle]
      /\ UNCHANGED <<offered, settled, metered>>

\* Fault: each statement commits for itself.
LoseInsert(t) ==
  /\ ~At(t, "idle")
  /\ subs' = IF At(t, "replaced") THEN WithReplaced(call[t].rows) ELSE subs
  /\ call' = [call EXCEPT ![t] = Idle]
  /\ UNCHANGED <<offered, orders, codes, settled, acked, metered>>

\* The server or its connection dies: PostgreSQL rolls everything back.
Lose(t) ==
  /\ ~At(t, "idle")
  /\ call' = [call EXCEPT ![t] = Idle]
  /\ UNCHANGED <<offered, orders, codes, subs, settled, acked, metered>>

-----------------------------------------------------------------------------
(* Traffic                                                                 *)

\* ReportTraffic inserts into traffic_logs and begins UPDATE subscriptions SET
\* traffic_used_bytes=traffic_used_bytes+$1 WHERE user_id=.. AND status='active'.
Report(t, u) ==
  /\ At(t, "idle")
  /\ Active(u) # {}
  /\ metered[u] + Cardinality({q \in Calls : At(q, "charging") /\ call[q].user = u}) < MaxBytes
  /\ call' = [call EXCEPT ![t] = [user |-> u, rows |-> Active(u), pc |-> "charging"]]
  /\ UNCHANGED <<offered, orders, codes, subs, settled, acked, metered>>

\* It has waited for those who hold its rows; charge one unit and COMMIT.
Charged(t) ==
  /\ At(t, "charging")
  /\ \A i \in call[t].rows : ~Locked(i)
  /\ subs' = [i \in DOMAIN subs |->
                IF i \in Changed(t) THEN [subs[i] EXCEPT !.used = @ + 1] ELSE subs[i]]
  /\ metered' = [metered EXCEPT ![call[t].user] = @ + 1]
  /\ call' = [call EXCEPT ![t] = Idle]
  /\ UNCHANGED <<offered, orders, codes, settled, acked>>

-----------------------------------------------------------------------------
(* Orders, codes and plans                                                 *)

NewOrder(u, p) == [user |-> u, plan |-> p, status |-> "pending"]

CreatePaymentOrder(o, u, p) ==
  /\ orders[o].status = "none"
  /\ p \in offered
  /\ orders' = [orders EXCEPT ![o] = NewOrder(u, p)]
  /\ UNCHANGED <<offered, codes, subs, settled, acked, metered, call>>

\* The payer pays at the provider.
Pay(o) ==
  /\ orders[o].status = "pending"
  /\ settled' = settled \cup {o}
  /\ UNCHANGED <<offered, orders, codes, subs, acked, metered, call>>

\* The plan must exist, it need not be offered.
CreateRedeemCodes(c, p) ==
  /\ codes[c].status = "none"
  /\ codes' = [codes EXCEPT ![c] = [plan |-> p, status |-> "unused"]]
  /\ UNCHANGED <<offered, orders, subs, settled, acked, metered, call>>

\* An administrator offers a plan or withdraws it (UpdatePlan).
UpdatePlan(p) ==
  /\ offered' \in {offered \cup {p}, offered \ {p}}
  /\ UNCHANGED <<orders, codes, subs, settled, acked, metered, call>>

Next ==
  \/ \E t \in Calls :
       \/ \E o \in Orders : Notify(t, o)
       \/ \E u \in Users :
            \/ \E c \in Codes, padded \in BOOLEAN : Redeem(t, u, c, padded)
            \/ \E p \in Plans : UpdateUser(t, u, p)
            \/ Report(t, u)
       \/ Replace(t) \/ Replaced(t) \/ Commit(t)
       \/ Charged(t)
       \/ Lose(t)
  \/ \E p \in Plans :
       \/ \E o \in Orders, u \in Users : CreatePaymentOrder(o, u, p)
       \/ \E c \in Codes : CreateRedeemCodes(c, p)
       \/ UpdatePlan(p)
  \/ \E o \in Orders : Pay(o)

Spec == Init /\ [][Next]_vars

\* A call executes its statements, and waits for nobody for ever.  The payment provider
\* repeats a notification that was not acknowledged.  In the end calls stop dying.
Fairness ==
  /\ \A t \in Calls : WF_vars(Replace(t) \/ Replaced(t) \/ Commit(t) \/ Charged(t))
  /\ \A o \in Orders : SF_vars(\E t \in Calls : o \notin acked /\ Notify(t, o))
  /\ <>[][\A t \in Calls : ~Lose(t)]_vars

FairSpec == Spec /\ Fairness

-----------------------------------------------------------------------------
(* Properties                                                              *)

GrantedFor(source) == {i \in DOMAIN subs : subs[i].source = source}

\* An order is paid exactly when one subscription was granted for it, however often the
\* provider notifies, in whatever order, and wherever a call dies.
PaidIffActivatedOnce ==
  \A o \in Orders :
    Cardinality(GrantedFor(<<"order", o>>)) = IF orders[o].status = "paid" THEN 1 ELSE 0

\* The provider reads "success" only for an order whose subscription is committed: it
\* stops repeating then.
AckedOnlyWhenActivated == \A o \in acked : GrantedFor(<<"order", o>>) # {}

\* What the documents promise outright: a code is consumed once.  Redeem looks it up
\* trimmed and marks it as it was sent, so that with blanks around it it stays unused.
CodeConsumedOnce == \A c \in Codes : Cardinality(GrantedFor(<<"code", c>>)) <= 1

\* What the code keeps of that: once it was sent as it is stored a code grants no more,
\* also when calls race for it; every grant of it but the last was for the padded code.
NoGrantAfterPlainUse ==
  \A c \in Codes : \A i, j \in GrantedFor(<<"code", c>>) : i < j => subs[i].padded

\* Replacing a subscription never leaves its owner without one.
SubscribersStaySubscribed == \A i \in DOMAIN subs : Active(subs[i].user) # {}

\* Traffic reported by a subscribed user is charged to the subscription once.
TrafficChargedOnce ==
  \A u \in Users :
    LET Used[n \in 0..MaxSubs] ==
          IF n = 0 THEN 0
          ELSE Used[n - 1] + (IF n \in DOMAIN subs /\ subs[n].user = u THEN subs[n].used ELSE 0)
    IN  Used[MaxSubs] = metered[u]

\* What a user has paid for is granted in the end, if the plan stays on offer: the
\* provider's retries get through.
PaidIsActivated ==
  \A o \in Orders :
    (o \in settled /\ [](orders[o].plan \in offered)) ~> (orders[o].status = "paid")
=============================================================================
