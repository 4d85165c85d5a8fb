-------------------------- MODULE SqlBillingProofs --------------------------
(***************************************************************************)
(* What the grants of SqlBilling promise for any number of calls, users,   *)
(* plans, orders and codes.  A grant holds the row of its source from the  *)
(* moment it reads it to its end; what it read there (the order is not     *)
(* paid, the code is unused) therefore still holds when it commits, and    *)
(* that is the strengthening the invariants need.                          *)
(***************************************************************************)
EXTENDS SqlBilling, SequenceTheorems, FiniteSetTheorems, TLAPS

Key == ({"order"} \X Orders) \cup ({"code"} \X Codes)

\* One grant at most is under way for an order or a code.
Exclusive ==
  \A t, q \in Calls : Granting(t) /\ Granting(q) /\ call[t].source = call[q].source /\ call[t].source \in Key => t = q

\* What a grant read of its source still holds, and the rows it has seen are its user's.
Current(t) ==
  Granting(t) =>
    /\ \A o \in Orders : call[t].source = <<"order", o>> => orders[o].status = "pending"
    /\ \A c \in Codes : call[t].source = <<"code", c>> => codes[c].status = "unused"
    /\ \A i \in call[t].rows : i \in DOMAIN subs /\ subs[i].user = call[t].user

Placed ==
  /\ \A o \in Orders : orders[o].status # "none" => orders[o].user \in Users /\ orders[o].plan \in Plans
  /\ \A o \in settled : orders[o].status # "none"

\* An order has its one subscription when it is paid and none before.
PaidOnce(o) ==
  IF orders[o].status = "paid" THEN \E i \in DOMAIN subs : GrantedFor(<<"order", o>>) = {i}
                               ELSE GrantedFor(<<"order", o>>) = {}

Acknowledged == \A o \in acked : orders[o].status = "paid"

\* As long as a code is not redeemed, all it was redeemed for was sent with blanks.
Unspent == \A c \in Codes : codes[c].status # "redeemed" => \A i \in GrantedFor(<<"code", c>>) : subs[i].padded

\* SubscribersStaySubscribed, with the row that shows it.
Subscribed ==
  \A i \in DOMAIN subs : \E k \in DOMAIN subs : subs[k].user = subs[i].user /\ subs[k].status = "active"

Inv ==
  /\ TypeOK
  /\ Exclusive
  /\ \A t \in Calls : Current(t)
  /\ Placed
  /\ \A o \in Orders : PaidOnce(o)
  /\ Acknowledged /\ Unspent
  /\ NoGrantAfterPlainUse
  /\ Subscribed

-----------------------------------------------------------------------------
(* Calls and rows                                                          *)

LEMMA CallKinds ==
  ASSUME TypeOK, NEW t \in Calls
  PROVE  /\ Granting(t) => call[t] \in Grant
         /\ At(t, "charging") => call[t] \in Charge
         /\ call[t] \in Grant => call[t].pc \in {"marked", "replacing", "replaced"}
  <1>1. call[t] \in Grant \/ call[t] \in Charge \/ call[t] = Idle
    BY DEF TypeOK
  <1>2. call[t] \in Charge => call[t].pc = "charging"
    BY DEF Charge
  <1>3. call[t] = Idle => call[t].pc = "idle"
    BY DEF Idle
  <1>4. call[t] \in Grant => call[t].pc \in {"marked", "replacing", "replaced"}
    BY DEF Grant
  <1> QED BY <1>1, <1>2, <1>3, <1>4 DEF Granting, At

LEMMA SubsAre ==
  TypeOK => /\ DOMAIN subs = 1 .. Len(subs) /\ Len(subs) \in Nat /\ DOMAIN subs \subseteq Ids
            /\ \A i \in DOMAIN subs : subs[i] \in Sub
  BY LenProperties, ElementOfSeq DEF TypeOK, Ids

LEMMA Replaced1 ==
  ASSUME NEW S, NEW T, NEW f \in [S -> T], NEW a \in S, NEW t \in T, NEW g, g = [f EXCEPT ![a] = t]
  PROVE  /\ g \in [S -> T] /\ g[a] = t
         /\ \A c \in S : c # a => g[c] = f[c]
  OBVIOUS

\* Rows are rewritten, but for whom, for what and with which blanks they were granted stays.
RowsStay(rows) ==
  /\ rows \in Seq(Sub) /\ Len(rows) = Len(subs) /\ DOMAIN rows = DOMAIN subs
  /\ \A i \in DOMAIN subs : /\ rows[i].user = subs[i].user
                            /\ rows[i].source = subs[i].source /\ rows[i].padded = subs[i].padded

LEMMA Rewritten ==
  ASSUME TypeOK, NEW q, q \in [DOMAIN subs -> Sub],
         \A i \in DOMAIN subs : q[i].user = subs[i].user /\ q[i].source = subs[i].source /\ q[i].padded = subs[i].padded
  PROVE  RowsStay(q)
  <1>1. Len(subs) \in Nat /\ DOMAIN subs = 1 .. Len(subs)
    BY SubsAre
  <1>2. q \in [1 .. Len(subs) -> Sub]
    BY <1>1
  <1>3. q \in Seq(Sub)
    BY <1>1, <1>2, SeqDef
  <1> QED BY <1>1, <1>2, <1>3, LenProperties DEF RowsStay

LEMMA WithReplacedStay ==
  ASSUME TypeOK, NEW rows
  PROVE  /\ RowsStay(WithReplaced(rows))
         /\ \A i \in DOMAIN subs : i \notin rows => WithReplaced(rows)[i] = subs[i]
  <1>1. ASSUME NEW i \in DOMAIN subs
        PROVE  /\ WithReplaced(rows)[i] \in Sub
               /\ WithReplaced(rows)[i].user = subs[i].user
               /\ WithReplaced(rows)[i].source = subs[i].source /\ WithReplaced(rows)[i].padded = subs[i].padded
               /\ i \notin rows => WithReplaced(rows)[i] = subs[i]
    <2> DEFINE s == [subs[i] EXCEPT !.status = "replaced"]
    <2>1. subs[i] \in Sub
      BY SubsAre
    <2>2. s \in Sub /\ s.user = subs[i].user /\ s.source = subs[i].source /\ s.padded = subs[i].padded
      BY <2>1 DEF Sub
    <2>3. WithReplaced(rows)[i] = IF i \in rows THEN s ELSE subs[i]
      BY DEF WithReplaced
    <2> HIDE DEF s
    <2> QED BY <2>1, <2>2, <2>3
  <1>2. WithReplaced(rows) \in [DOMAIN subs -> Sub]
    BY <1>1 DEF WithReplaced
  <1> QED BY <1>1, <1>2, Rewritten

LEMMA GrantedKept ==
  ASSUME RowsStay(subs')
  PROVE  \A source \in Sources : GrantedFor(source)' = GrantedFor(source)
  BY DEF RowsStay, GrantedFor

LEMMA SourcesAre ==
  /\ \A o \in Orders : <<"order", o>> \in Sources /\ <<"order", o>> \in Key
  /\ \A c \in Codes : <<"code", c>> \in Sources /\ <<"code", c>> \in Key
  /\ \A p \in Plans : <<"admin", p>> \in Sources /\ <<"admin", p>> \notin Key
  BY DEF Sources, Key

\* A grant under way goes on as it is, with rows of its user.
GrantStays(q) ==
  Granting(q)' => /\ Granting(q)
                  /\ call'[q].source = call[q].source /\ call'[q].user = call[q].user
                  /\ \A i \in call'[q].rows : i \in call[q].rows \/ i \in Active(call[q].user)

LEMMA CurrentKept ==
  ASSUME NEW q \in Calls, Current(q), GrantStays(q), RowsStay(subs'),
         \A o \in Orders : orders[o].status = "pending" => orders'[o].status = "pending",
         \A c \in Codes : codes[c].status = "unused" => codes'[c].status = "unused"
  PROVE  Current(q)'
  <1> SUFFICES ASSUME Granting(q)'
               PROVE  /\ \A o \in Orders : call'[q].source = <<"order", o>> => orders'[o].status = "pending"
                      /\ \A c \in Codes : call'[q].source = <<"code", c>> => codes'[c].status = "unused"
                      /\ \A i \in call'[q].rows : i \in DOMAIN subs' /\ subs'[i].user = call'[q].user
    BY DEF Current
  <1>1. /\ Granting(q) /\ call'[q].source = call[q].source /\ call'[q].user = call[q].user
        /\ \A i \in call'[q].rows : i \in call[q].rows \/ i \in Active(call[q].user)
    BY DEF GrantStays
  <1>2. /\ \A o \in Orders : call[q].source = <<"order", o>> => orders[o].status = "pending"
        /\ \A c \in Codes : call[q].source = <<"code", c>> => codes[c].status = "unused"
        /\ \A i \in call[q].rows : i \in DOMAIN subs /\ subs[i].user = call[q].user
    BY <1>1 DEF Current
  <1>3. ASSUME NEW i \in call'[q].rows PROVE i \in DOMAIN subs' /\ subs'[i].user = call'[q].user
    <2>1. i \in DOMAIN subs /\ subs[i].user = call[q].user
      BY <1>1, <1>2 DEF Active
    <2> QED BY <1>1, <2>1 DEF RowsStay
  <1> QED BY <1>1, <1>2, <1>3

\* A step that grants nothing keeps Inv.
LEMMA NothingGranted ==
  ASSUME Inv, TypeOK', RowsStay(subs'), \A q \in Calls : GrantStays(q),
         UNCHANGED <<orders, codes, settled>>, \A o \in acked' : orders[o].status = "paid", Subscribed'
  PROVE  Inv'
  <1>1. Exclusive'
    <2> SUFFICES ASSUME NEW t \in Calls, NEW q \in Calls, Granting(t)', Granting(q)',
                        call'[t].source = call'[q].source, call'[t].source \in Key
                 PROVE  t = q
      BY DEF Exclusive, Key
    <2>1. /\ Granting(t) /\ call'[t].source = call[t].source
          /\ Granting(q) /\ call'[q].source = call[q].source
      BY DEF GrantStays
    <2> QED BY <2>1 DEF Inv, Exclusive
  <1>2. \A q \in Calls : Current(q)'
    BY CurrentKept DEF Inv
  <1>3. \A o \in Orders : PaidOnce(o)'
    <2>1. ASSUME NEW o \in Orders PROVE PaidOnce(o)'
      <3>1. GrantedFor(<<"order", o>>)' = GrantedFor(<<"order", o>>)
        BY GrantedKept, SourcesAre
      <3>2. PaidOnce(o) /\ orders' = orders /\ DOMAIN subs' = DOMAIN subs
        BY DEF Inv, RowsStay
      <3> QED BY <3>1, <3>2 DEF PaidOnce
    <2> QED BY <2>1
  <1>4. Unspent' /\ NoGrantAfterPlainUse'
    <2>1. ASSUME NEW c \in Codes
          PROVE  /\ codes'[c].status # "redeemed" => \A i \in GrantedFor(<<"code", c>>)' : subs'[i].padded
                 /\ \A i, j \in GrantedFor(<<"code", c>>)' : i < j => subs'[i].padded
      <3>1. GrantedFor(<<"code", c>>)' = GrantedFor(<<"code", c>>) /\ codes' = codes
        BY GrantedKept, SourcesAre
      <3>2. \A i \in GrantedFor(<<"code", c>>) : subs'[i].padded = subs[i].padded
        BY DEF RowsStay, GrantedFor
      <3>3. /\ codes[c].status # "redeemed" => \A i \in GrantedFor(<<"code", c>>) : subs[i].padded
            /\ \A i, j \in GrantedFor(<<"code", c>>) : i < j => subs[i].padded
        BY DEF Inv, Unspent, NoGrantAfterPlainUse
      <3> QED BY <3>1, <3>2, <3>3
    <2> QED BY <2>1 DEF Unspent, NoGrantAfterPlainUse
  <1>5. Placed' /\ Acknowledged'
    BY DEF Inv, Placed, Acknowledged
  <1> QED BY <1>1, <1>2, <1>3, <1>4, <1>5 DEF Inv

LEMMA ActiveKept ==
  ASSUME Inv, RowsStay(subs'), \A i \in DOMAIN subs : subs'[i].status = subs[i].status
  PROVE  Subscribed'
  <1> SUFFICES ASSUME NEW i \in DOMAIN subs'
               PROVE  \E k \in DOMAIN subs' : subs'[k].user = subs'[i].user /\ subs'[k].status = "active"
    BY DEF Subscribed
  <1>1. i \in DOMAIN subs /\ subs'[i].user = subs[i].user
    BY DEF RowsStay
  <1>2. PICK k \in DOMAIN subs : subs[k].user = subs[i].user /\ subs[k].status = "active"
    BY <1>1 DEF Inv, Subscribed
  <1>3. k \in DOMAIN subs' /\ subs'[k].user = subs'[i].user /\ subs'[k].status = "active"
    BY <1>1, <1>2 DEF RowsStay
  <1> QED BY <1>3

LEMMA SubsUnchanged ==
  ASSUME Inv, UNCHANGED subs
  PROVE  RowsStay(subs') /\ Subscribed'
  <1>1. RowsStay(subs')
    BY DEF Inv, TypeOK, RowsStay
  <1> QED BY <1>1, ActiveKept

\* A grant is opened with what was read of its source.
LEMMA Opens ==
  ASSUME Inv, NEW t \in Calls, NEW u \in Users, NEW p \in Plans, NEW source \in Sources, NEW padded \in BOOLEAN,
         Open(t, u, p, source, padded), source \in Key => SourceFree(source),
         UNCHANGED <<offered, orders, codes, subs, settled, acked, metered>>,
         \A o \in Orders : source = <<"order", o>> => orders[o].status = "pending",
         \A c \in Codes : source = <<"code", c>> => codes[c].status = "unused"
  PROVE  Inv'
  <1> DEFINE g == [user |-> u, plan |-> p, source |-> source, padded |-> padded, rows |-> {}, pc |-> "marked"]
  <1>1. call' = [call EXCEPT ![t] = g]
    BY DEF Open
  <1>2. g \in Grant /\ g.source = source /\ g.rows = {}
    BY DEF Grant
  <1> HIDE DEF g
  <1>3. /\ call' \in [Calls -> Grant \cup Charge \cup {Idle}] /\ call'[t] = g
        /\ \A q \in Calls : q # t => call'[q] = call[q]
    BY <1>1, <1>2, Replaced1 DEF Inv, TypeOK
  <1>4. TypeOK'
    BY <1>3 DEF Inv, TypeOK
  <1>5. RowsStay(subs') /\ Subscribed'
    BY SubsUnchanged
  <1>6. \A q \in Calls : Current(q)'
    <2>1. ASSUME NEW q \in Calls, q # t PROVE Current(q)'
      BY <1>3, <2>1 DEF Inv, Current, Granting
    <2>2. Current(t)'
      BY <1>2, <1>3 DEF Current
    <2> QED BY <2>1, <2>2
  <1>7. Exclusive'
    <2> SUFFICES ASSUME NEW r \in Calls, NEW q \in Calls, Granting(r)', Granting(q)',
                        call'[r].source = call'[q].source, call'[r].source \in Key, r # q
                 PROVE  FALSE
      BY DEF Exclusive, Key
    <2>1. CASE r # t /\ q # t
      BY <1>3, <2>1 DEF Inv, Exclusive, Granting
    <2>2. CASE r = t
      BY <1>2, <1>3, <2>2 DEF SourceFree, Granting
    <2>3. CASE q = t
      BY <1>2, <1>3, <2>3 DEF SourceFree, Granting
    <2> QED BY <2>1, <2>2, <2>3
  <1>8. \A o \in Orders : PaidOnce(o)'
    BY DEF Inv, PaidOnce, GrantedFor
  <1>9. Unspent' /\ NoGrantAfterPlainUse'
    BY DEF Inv, GrantedFor, Unspent, NoGrantAfterPlainUse
  <1>10. Placed' /\ Acknowledged'
    BY DEF Inv, Placed, Acknowledged
  <1> QED BY <1>4, <1>5, <1>6, <1>7, <1>8, <1>9, <1>10 DEF Inv

-----------------------------------------------------------------------------
(* The commit of a grant                                                   *)

\* The row the grant of call t inserts.
New(t) ==
  [user |-> call[t].user, plan |-> call[t].plan, status |-> "active", used |-> 0, source |-> call[t].source,
   padded |-> call[t].padded]

LEMMA CommitRows ==
  ASSUME TypeOK, NEW t \in Calls, Commit(t)
  PROVE  /\ call[t] \in Grant /\ New(t) \in Sub
         /\ subs' \in Seq(Sub) /\ DOMAIN subs' = DOMAIN subs \cup {Len(subs) + 1} /\ Len(subs) + 1 \notin DOMAIN subs
         /\ subs'[Len(subs) + 1] = New(t)
         /\ \A i \in DOMAIN subs : i < Len(subs) + 1
         /\ \A i \in DOMAIN subs : /\ subs'[i].user = subs[i].user
                                   /\ subs'[i].source = subs[i].source /\ subs'[i].padded = subs[i].padded
         /\ \A i \in DOMAIN subs : i \notin call[t].rows => subs'[i] = subs[i]
  <1> DEFINE w == WithReplaced(call[t].rows)
  <1>1. call[t] \in Grant
    BY CallKinds DEF Commit, At, Granting
  <1>2. New(t) \in Sub
    BY <1>1 DEF New, Grant, Sub
  <1>3. RowsStay(w) /\ \A i \in DOMAIN subs : i \notin call[t].rows => w[i] = subs[i]
    BY WithReplacedStay
  <1>4. subs' = Append(w, New(t))
    BY DEF Commit, New
  <1> HIDE DEF w
  <1>5. /\ w \in Seq(Sub) /\ Len(w) = Len(subs) /\ Len(subs) \in Nat /\ DOMAIN subs = 1 .. Len(subs)
    BY <1>3, SubsAre DEF RowsStay
  <1>6. /\ subs' \in Seq(Sub) /\ Len(subs') = Len(subs) + 1
        /\ \A i \in 1 .. Len(subs) : subs'[i] = w[i]
        /\ subs'[Len(subs) + 1] = New(t)
    BY <1>2, <1>4, <1>5, AppendProperties
  <1>7. DOMAIN subs' = DOMAIN subs \cup {Len(subs) + 1} /\ Len(subs) + 1 \notin DOMAIN subs
    BY <1>5, <1>6, LenProperties
  <1>8. \A i \in DOMAIN subs : i < Len(subs) + 1
    BY <1>5
  <1> QED BY <1>1, <1>2, <1>3, <1>5, <1>6, <1>7, <1>8 DEF RowsStay

LEMMA CommitGrants ==
  ASSUME TypeOK, NEW t \in Calls, Commit(t), NEW source \in Sources
  PROVE  GrantedFor(source)' = GrantedFor(source) \cup (IF source = call[t].source THEN {Len(subs) + 1} ELSE {})
  <1>1. New(t).source = call[t].source
    BY DEF New
  <1> DEFINE n == Len(subs) + 1
  <1>2. /\ DOMAIN subs' = DOMAIN subs \cup {n} /\ n \notin DOMAIN subs
        /\ \A i \in DOMAIN subs : subs'[i].source = subs[i].source
        /\ subs'[n].source = call[t].source
    <2>1. /\ subs'[Len(subs) + 1] = New(t) /\ DOMAIN subs' = DOMAIN subs \cup {Len(subs) + 1} /\ Len(subs) + 1 \notin DOMAIN subs
          /\ \A i \in DOMAIN subs : subs'[i].source = subs[i].source
      BY CommitRows
    <2> QED BY <1>1, <2>1
  <1>3. GrantedFor(source)' = {i \in DOMAIN subs' : subs'[i].source = source}
    BY DEF GrantedFor
  <1> HIDE DEF n
  <1>4. CASE source = call[t].source
    BY <1>2, <1>3, <1>4 DEF GrantedFor, n
  <1>5. CASE source # call[t].source
    BY <1>2, <1>3, <1>5 DEF GrantedFor, n
  <1> QED BY <1>4, <1>5

\* What the commit makes of the orders and the codes.
LEMMA CommitMarks ==
  ASSUME TypeOK, NEW t \in Calls, Commit(t), call[t] \in Grant
  PROVE  /\ orders' \in [Orders -> Order] /\ codes' \in [Codes -> Code] /\ acked' \subseteq Orders
         /\ \A o \in Orders : IF call[t].source = <<"order", o>>
                              THEN orders'[o] = [orders[o] EXCEPT !.status = "paid"] ELSE orders'[o] = orders[o]
         /\ \A c \in Codes : IF call[t].source = <<"code", c>> /\ ~call[t].padded
                             THEN codes'[c] = [codes[c] EXCEPT !.status = "redeemed"] ELSE codes'[c] = codes[c]
         /\ \A o \in acked' : o \in acked \/ call[t].source = <<"order", o>>
  <1> DEFINE source == call[t].source
  <1>1. source \in Sources /\ call[t].padded \in BOOLEAN
    BY DEF Grant
  <1>2. /\ MarkOrder(call[t]) /\ MarkCode(call[t])
        /\ UNCHANGED acked \/ (source[1] = "order" /\ acked' = acked \cup {source[2]})
    BY DEF Commit
  <1>3. orders \in [Orders -> Order] /\ codes \in [Codes -> Code] /\ acked \subseteq Orders
    BY DEF TypeOK
  <1>4. CASE source \in {"order"} \X Orders
    <2>1. PICK o \in Orders : source = <<"order", o>>
      BY <1>4
    <2>2. source[1] = "order" /\ source[2] = o
      BY <2>1
    <2> DEFINE r == [orders[o] EXCEPT !.status = "paid"]
    <2>3. orders' = [orders EXCEPT ![o] = r] /\ codes' = codes
      BY <1>2, <2>2 DEF MarkOrder, MarkCode
    <2>4. r \in Order
      BY <1>3 DEF Order
    <2> HIDE DEF r
    <2>5. orders' \in [Orders -> Order] /\ orders'[o] = r /\ \A k \in Orders : k # o => orders'[k] = orders[k]
      BY <1>3, <2>3, <2>4, Replaced1
    <2>6. /\ \A k \in Orders : source = <<"order", k>> <=> k = o
          /\ \A c \in Codes : source # <<"code", c>>
      BY <2>1
    <2>7. \A k \in acked' : k \in acked \/ k = o
      BY <1>2, <2>2
    <2> HIDE DEF source
    <2>8. \A k \in Orders : IF source = <<"order", k>> THEN orders'[k] = [orders[k] EXCEPT !.status = "paid"] ELSE orders'[k] = orders[k]
      BY <2>5, <2>6 DEF r
    <2> QED BY <1>3, <2>3, <2>5, <2>6, <2>7, <2>8 DEF source
  <1>5. CASE source \in {"code"} \X Codes
    <2>1. PICK c \in Codes : source = <<"code", c>>
      BY <1>5
    <2>2. source[1] = "code" /\ source[2] = c
      BY <2>1
    <2>3. orders' = orders /\ acked' = acked
      BY <1>2, <2>2 DEF MarkOrder
    <2>4. /\ \A k \in Codes : source = <<"code", k>> <=> k = c
          /\ \A o \in Orders : source # <<"order", o>>
      BY <2>1
    <2>5. CASE call[t].padded
      <3>1. codes' = codes
        BY <1>2, <2>5 DEF MarkCode
      <3> QED BY <1>3, <2>3, <2>4, <2>5, <3>1
    <2>6. CASE ~call[t].padded
      <3> DEFINE r == [codes[c] EXCEPT !.status = "redeemed"]
      <3>1. codes' = [codes EXCEPT ![c] = r]
        BY <1>2, <2>2, <2>6 DEF MarkCode
      <3>2. r \in Code
        BY <1>3 DEF Code
      <3> HIDE DEF r
      <3>3. codes' \in [Codes -> Code] /\ codes'[c] = r /\ \A k \in Codes : k # c => codes'[k] = codes[k]
        BY <1>3, <3>1, <3>2, Replaced1
      <3> HIDE DEF source
      <3>4. \A k \in Codes : IF source = <<"code", k>> THEN codes'[k] = [codes[k] EXCEPT !.status = "redeemed"] ELSE codes'[k] = codes[k]
        BY <2>4, <3>3 DEF r
      <3> QED BY <1>3, <2>3, <2>4, <2>6, <3>3, <3>4 DEF source
    <2> QED BY <2>5, <2>6
  <1>6. CASE source \in {"admin"} \X Plans
    <2>1. PICK p \in Plans : source = <<"admin", p>>
      BY <1>6
    <2>2. source[1] = "admin"
      BY <2>1
    <2>3. orders' = orders /\ codes' = codes /\ acked' = acked
      BY <1>2, <2>2 DEF MarkOrder, MarkCode
    <2>4. (\A k \in Codes : source # <<"code", k>>) /\ (\A o \in Orders : source # <<"order", o>>)
      BY <2>1
    <2> QED BY <1>3, <2>3, <2>4
  <1> QED BY <1>1, <1>4, <1>5, <1>6 DEF Sources

LEMMA CommitKeeps ==
  ASSUME Inv, NEW t \in Calls, Commit(t)
  PROVE  Inv'
  <1> DEFINE n == Len(subs) + 1
  <1>T. TypeOK /\ Granting(t) /\ Current(t)
    BY DEF Inv, Commit, At, Granting
  <1>G. /\ call[t] \in Grant /\ New(t) \in Sub
        /\ subs' \in Seq(Sub) /\ DOMAIN subs' = DOMAIN subs \cup {n} /\ n \notin DOMAIN subs
        /\ subs'[n] = New(t)
        /\ \A i \in DOMAIN subs : i < n
        /\ \A i \in DOMAIN subs : /\ subs'[i].user = subs[i].user
                                  /\ subs'[i].source = subs[i].source /\ subs'[i].padded = subs[i].padded
        /\ \A i \in DOMAIN subs : i \notin call[t].rows => subs'[i] = subs[i]
    BY <1>T, CommitRows
  <1>D. DOMAIN subs' = DOMAIN subs \cup {n} /\ subs'[n].user = call[t].user /\ subs'[n].status = "active"
    BY <1>G DEF New
  <1>R. \A i \in DOMAIN subs : /\ subs'[i].user = subs[i].user
                               /\ subs'[i].source = subs[i].source /\ subs'[i].padded = subs[i].padded
    BY <1>G
  <1>M. /\ orders' \in [Orders -> Order] /\ codes' \in [Codes -> Code] /\ acked' \subseteq Orders
        /\ \A o \in Orders : IF call[t].source = <<"order", o>>
                             THEN orders'[o] = [orders[o] EXCEPT !.status = "paid"] ELSE orders'[o] = orders[o]
        /\ \A c \in Codes : IF call[t].source = <<"code", c>> /\ ~call[t].padded
                            THEN codes'[c] = [codes[c] EXCEPT !.status = "redeemed"] ELSE codes'[c] = codes[c]
        /\ \A o \in acked' : o \in acked \/ call[t].source = <<"order", o>>
    BY <1>T, <1>G, CommitMarks
  <1>F. \A source \in Sources :
          GrantedFor(source)' = GrantedFor(source) \cup (IF source = call[t].source THEN {n} ELSE {})
    BY <1>T, CommitGrants
  <1>N. New(t).padded = call[t].padded /\ New(t).user = call[t].user /\ New(t).status = "active"
    BY DEF New
  <1>C. /\ call' \in [Calls -> Grant \cup Charge \cup {Idle}] /\ call'[t] = Idle
        /\ \A q \in Calls : q # t => call'[q] = call[q]
    BY <1>T, Replaced1 DEF TypeOK, Commit
  <1>I. ~Granting(t)'
    BY <1>C DEF Granting, Idle
  <1>U. /\ \A o \in Orders : call[t].source = <<"order", o>> => orders[o].status = "pending"
        /\ \A c \in Codes : call[t].source = <<"code", c>> => codes[c].status = "unused"
        /\ \A i \in call[t].rows : i \in DOMAIN subs /\ subs[i].user = call[t].user
    BY <1>T DEF Current
  <1> HIDE DEF n
  <1>1. TypeOK'
    BY <1>T, <1>G, <1>M, <1>C DEF TypeOK, Commit
  <1>2. Exclusive'
    BY <1>C, <1>I DEF Inv, Exclusive, Granting
  <1>3. ASSUME NEW q \in Calls PROVE Current(q)'
    <2>1. CASE q = t
      BY <1>I, <2>1 DEF Current
    <2>2. CASE q # t
      <3> SUFFICES ASSUME Granting(q)'
                   PROVE  /\ \A o \in Orders : call'[q].source = <<"order", o>> => orders'[o].status = "pending"
                          /\ \A c \in Codes : call'[q].source = <<"code", c>> => codes'[c].status = "unused"
                          /\ \A i \in call'[q].rows : i \in DOMAIN subs' /\ subs'[i].user = call'[q].user
        BY DEF Current
      <3>1. call'[q] = call[q] /\ Granting(q)
        BY <1>C, <2>2 DEF Granting
      <3>2. /\ \A o \in Orders : call[q].source = <<"order", o>> => orders[o].status = "pending"
            /\ \A c \in Codes : call[q].source = <<"code", c>> => codes[c].status = "unused"
            /\ \A i \in call[q].rows : i \in DOMAIN subs /\ subs[i].user = call[q].user
        BY <3>1 DEF Inv, Current
      <3>3. call[q].source \in Key => call[t].source # call[q].source
        BY <1>T, <2>2, <3>1 DEF Inv, Exclusive
      <3>4. ASSUME NEW o \in Orders, call[q].source = <<"order", o>> PROVE orders'[o].status = "pending"
        BY <1>M, <3>2, <3>3, <3>4, SourcesAre
      <3>5. ASSUME NEW c \in Codes, call[q].source = <<"code", c>> PROVE codes'[c].status = "unused"
        BY <1>M, <3>2, <3>3, <3>5, SourcesAre
      <3>6. ASSUME NEW i \in call[q].rows PROVE i \in DOMAIN subs' /\ subs'[i].user = call[q].user
        <4>1. i \in DOMAIN subs /\ subs[i].user = call[q].user
          BY <3>2
        <4> QED BY <1>D, <1>R, <4>1
      <3> QED BY <3>1, <3>4, <3>5, <3>6
    <2> QED BY <2>1, <2>2
  <1>4. ASSUME NEW o \in Orders
        PROVE  /\ PaidOnce(o)'
               /\ orders[o].status = "paid" => orders'[o].status = "paid"
               /\ call[t].source = <<"order", o>> => orders'[o].status = "paid"
               /\ orders[o].status # "none" <=> orders'[o].status # "none"
               /\ orders'[o].user = orders[o].user /\ orders'[o].plan = orders[o].plan
    <2>1. orders[o] \in Order
      BY <1>T DEF TypeOK
    <2>2. CASE call[t].source = <<"order", o>>
      <3>1. orders'[o] = [orders[o] EXCEPT !.status = "paid"] /\ orders[o].status = "pending"
        BY <1>M, <1>U, <2>2
      <3>2. orders'[o].status = "paid" /\ orders'[o].user = orders[o].user /\ orders'[o].plan = orders[o].plan
        BY <2>1, <3>1 DEF Order
      <3>3. GrantedFor(<<"order", o>>) = {}
        BY <3>1 DEF Inv, PaidOnce
      <3>4. GrantedFor(<<"order", o>>)' = {n}
        BY <1>F, <2>2, <3>3, SourcesAre
      <3>5. n \in DOMAIN subs'
        BY <1>G
      <3>6. PaidOnce(o)'
        BY <3>2, <3>4, <3>5 DEF PaidOnce
      <3> QED BY <3>1, <3>2, <3>6
    <2>3. CASE call[t].source # <<"order", o>>
      <3>1. orders'[o] = orders[o]
        BY <1>M, <2>3
      <3>2. GrantedFor(<<"order", o>>)' = GrantedFor(<<"order", o>>)
        BY <1>F, <2>3, SourcesAre
      <3>3. PaidOnce(o)'
        BY <1>G, <3>1, <3>2 DEF Inv, PaidOnce
      <3> QED BY <2>3, <3>1, <3>3
    <2> QED BY <2>2, <2>3
  <1>5. Placed' /\ Acknowledged'
    <2>1. settled' = settled /\ settled \subseteq Orders
      BY <1>T DEF Commit, TypeOK
    <2>2. Placed'
      BY <1>4, <2>1 DEF Inv, Placed
    <2>3. Acknowledged'
      BY <1>4, <1>M DEF Inv, Acknowledged
    <2> QED BY <2>2, <2>3
  <1>6. ASSUME NEW c \in Codes
        PROVE  /\ codes'[c].status # "redeemed" => \A i \in GrantedFor(<<"code", c>>)' : subs'[i].padded
               /\ \A i, j \in GrantedFor(<<"code", c>>)' : i < j => subs'[i].padded
    <2>1. /\ codes[c].status # "redeemed" => \A i \in GrantedFor(<<"code", c>>) : subs[i].padded
          /\ \A i, j \in GrantedFor(<<"code", c>>) : i < j => subs[i].padded
      BY DEF Inv, Unspent, NoGrantAfterPlainUse
    <2>2. \A i \in GrantedFor(<<"code", c>>) : subs'[i].padded = subs[i].padded /\ i \in Nat /\ i < n
      <3> SUFFICES ASSUME NEW i \in GrantedFor(<<"code", c>>) PROVE subs'[i].padded = subs[i].padded /\ i \in Nat /\ i < n
        OBVIOUS
      <3>1. i \in DOMAIN subs
        BY DEF GrantedFor
      <3>2. i \in Nat
        BY <1>T, <3>1, SubsAre DEF Ids
      <3>3. i < n
        BY <1>G, <3>1
      <3> QED BY <1>R, <3>1, <3>2, <3>3
    <2>3. CASE call[t].source = <<"code", c>>
      <3>1. \A i \in GrantedFor(<<"code", c>>) : subs'[i].padded
        BY <1>U, <2>1, <2>2, <2>3
      <3>2. GrantedFor(<<"code", c>>)' = GrantedFor(<<"code", c>>) \cup {n}
        BY <1>F, <2>3, SourcesAre
      <3>3. n \in Nat
        BY <1>T, SubsAre DEF n
      <3>4. \A i, j \in GrantedFor(<<"code", c>>)' : i < j => subs'[i].padded
        <4> SUFFICES ASSUME NEW i \in GrantedFor(<<"code", c>>)', NEW j \in GrantedFor(<<"code", c>>)', i < j
                     PROVE  subs'[i].padded
          OBVIOUS
        <4>1. CASE i \in GrantedFor(<<"code", c>>)
          BY <3>1, <4>1
        <4>2. CASE i = n
          BY <2>2, <3>2, <3>3, <4>2
        <4> QED BY <3>2, <4>1, <4>2
      <3>5. CASE call[t].padded
        BY <1>G, <1>N, <3>1, <3>2, <3>4, <3>5
      <3>6. CASE ~call[t].padded
        <4>1. codes'[c] = [codes[c] EXCEPT !.status = "redeemed"] /\ codes[c] \in Code
          BY <1>M, <1>T, <2>3, <3>6 DEF TypeOK
        <4>2. codes'[c].status = "redeemed"
          BY <4>1 DEF Code
        <4> QED BY <3>4, <4>2
      <3> QED BY <3>5, <3>6
    <2>4. CASE call[t].source # <<"code", c>>
      <3>1. codes'[c] = codes[c]
        BY <1>M, <2>4
      <3>2. GrantedFor(<<"code", c>>)' = GrantedFor(<<"code", c>>)
        BY <1>F, <2>4, SourcesAre
      <3> QED BY <2>1, <2>2, <3>1, <3>2
    <2> QED BY <2>3, <2>4
  <1>7. Unspent' /\ NoGrantAfterPlainUse'
    BY <1>6 DEF Unspent, NoGrantAfterPlainUse
  <1>8. Subscribed'
    <2> SUFFICES ASSUME NEW i \in DOMAIN subs'
                 PROVE  \E k \in DOMAIN subs' : subs'[k].user = subs'[i].user /\ subs'[k].status = "active"
      BY DEF Subscribed
    <2>1. CASE subs'[i].user = call[t].user
      BY <1>D, <2>1
    <2>2. CASE subs'[i].user # call[t].user
      <3>1. i \in DOMAIN subs /\ subs'[i].user = subs[i].user
        BY <1>D, <1>R, <2>2
      <3>2. PICK k \in DOMAIN subs : subs[k].user = subs[i].user /\ subs[k].status = "active"
        BY <3>1 DEF Inv, Subscribed
      <3>3. subs'[k] = subs[k]
        <4>1. k \notin call[t].rows
          BY <1>U, <2>2, <3>1, <3>2
        <4> QED BY <1>G, <4>1
      <3> QED BY <1>D, <3>1, <3>2, <3>3
    <2> QED BY <2>1, <2>2
  <1> QED BY <1>1, <1>2, <1>3, <1>4, <1>5, <1>7, <1>8 DEF Inv

-----------------------------------------------------------------------------
(* The other steps                                                         *)

\* Call t is in state r now.
LEMMA CallMoves ==
  ASSUME TypeOK, NEW t \in Calls, NEW r \in Grant \cup Charge \cup {Idle}, call' = [call EXCEPT ![t] = r]
  PROVE  /\ call' \in [Calls -> Grant \cup Charge \cup {Idle}] /\ call'[t] = r
         /\ \A q \in Calls : q # t => call'[q] = call[q]
         /\ GrantStays(t) => \A q \in Calls : GrantStays(q)
  <1>1. /\ call' \in [Calls -> Grant \cup Charge \cup {Idle}] /\ call'[t] = r
        /\ \A q \in Calls : q # t => call'[q] = call[q]
    BY Replaced1 DEF TypeOK
  <1>2. ASSUME NEW q \in Calls, q # t PROVE GrantStays(q)
    <2>1. call'[q] = call[q]
      BY <1>1, <1>2
    <2> QED BY <2>1 DEF GrantStays, Granting
  <1> QED BY <1>1, <1>2

\* A call changes and nothing else does.
LEMMA OnlyCall ==
  ASSUME Inv, NEW t \in Calls, NEW r \in Grant \cup Charge \cup {Idle}, call' = [call EXCEPT ![t] = r], GrantStays(t),
         UNCHANGED <<offered, orders, codes, subs, settled, acked, metered>>
  PROVE  Inv'
  <1>1. call' \in [Calls -> Grant \cup Charge \cup {Idle}] /\ \A q \in Calls : GrantStays(q)
    BY CallMoves DEF Inv
  <1>2. TypeOK'
    BY <1>1 DEF Inv, TypeOK
  <1>3. RowsStay(subs') /\ Subscribed'
    BY SubsUnchanged
  <1>4. \A o \in acked' : orders[o].status = "paid"
    BY DEF Inv, Acknowledged
  <1> QED BY <1>1, <1>2, <1>3, <1>4, NothingGranted

LEMMA NotifyKeeps ==
  ASSUME Inv, NEW t \in Calls, NEW o \in Orders, Notify(t, o)
  PROVE  Inv'
  <1>1. /\ o \in settled /\ SourceFree(<<"order", o>>) /\ orders[o].plan \in offered
        /\ UNCHANGED <<offered, orders, codes, subs, settled, metered>>
    BY DEF Notify
  <1>2. /\ orders[o] \in Order /\ orders[o].user \in Users /\ orders[o].plan \in Plans /\ orders[o].status # "none"
    BY <1>1 DEF Inv, TypeOK, Placed
  <1>3. CASE orders[o].status = "paid"
    <2>1. acked' = acked \cup {o} /\ UNCHANGED call
      BY <1>3 DEF Notify
    <2>2. TypeOK'
      BY <1>1, <2>1 DEF Inv, TypeOK
    <2>3. \A q \in Calls : GrantStays(q)
      BY <2>1 DEF GrantStays, Granting
    <2>4. \A k \in acked' : orders[k].status = "paid"
      BY <1>3, <2>1 DEF Inv, Acknowledged
    <2>5. RowsStay(subs') /\ Subscribed'
      BY <1>1, SubsUnchanged
    <2> QED BY <1>1, <2>2, <2>3, <2>4, <2>5, NothingGranted
  <1>4. CASE orders[o].status # "paid"
    <2>1. Open(t, orders[o].user, orders[o].plan, <<"order", o>>, FALSE) /\ UNCHANGED acked
      BY <1>4 DEF Notify
    <2>2. orders[o].status = "pending"
      BY <1>2, <1>4 DEF Order
    <2>3. \A k \in Orders : <<"order", o>> = <<"order", k>> => orders[k].status = "pending"
      BY <2>2
    <2>4. \A c \in Codes : <<"order", o>> = <<"code", c>> => codes[c].status = "unused"
      OBVIOUS
    <2>5. <<"order", o>> \in Sources
      BY SourcesAre
    <2> QED BY <1>1, <1>2, <2>1, <2>3, <2>4, <2>5, Opens
  <1> QED BY <1>3, <1>4

LEMMA RedeemKeeps ==
  ASSUME Inv, NEW t \in Calls, NEW u \in Users, NEW c \in Codes, NEW padded \in BOOLEAN, Redeem(t, u, c, padded)
  PROVE  Inv'
  <1>1. /\ SourceFree(<<"code", c>>) /\ codes[c].status = "unused" /\ codes[c].plan \in offered
        /\ Open(t, u, codes[c].plan, <<"code", c>>, padded)
        /\ UNCHANGED <<offered, orders, codes, subs, settled, acked, metered>>
    BY DEF Redeem
  <1>2. codes[c].plan \in Plans
    BY <1>1 DEF Inv, TypeOK
  <1>3. \A k \in Codes : <<"code", c>> = <<"code", k>> => codes[k].status = "unused"
    BY <1>1
  <1>4. \A o \in Orders : <<"code", c>> = <<"order", o>> => orders[o].status = "pending"
    OBVIOUS
  <1>5. <<"code", c>> \in Sources
    BY SourcesAre
  <1> QED BY <1>1, <1>2, <1>3, <1>4, <1>5, Opens

LEMMA UpdateUserKeeps ==
  ASSUME Inv, NEW t \in Calls, NEW u \in Users, NEW p \in Plans, UpdateUser(t, u, p)
  PROVE  Inv'
  <1>1. /\ Open(t, u, p, <<"admin", p>>, FALSE)
        /\ UNCHANGED <<offered, orders, codes, subs, settled, acked, metered>>
    BY DEF UpdateUser
  <1>2. \A k \in Codes : <<"admin", p>> = <<"code", k>> => codes[k].status = "unused"
    OBVIOUS
  <1>3. \A o \in Orders : <<"admin", p>> = <<"order", o>> => orders[o].status = "pending"
    OBVIOUS
  <1>4. <<"admin", p>> \in Sources /\ <<"admin", p>> \notin Key
    BY SourcesAre
  <1> QED BY <1>1, <1>2, <1>3, <1>4, Opens

LEMMA ReplaceKeeps ==
  ASSUME Inv, NEW t \in Calls, Replace(t) \/ Replaced(t)
  PROVE  Inv'
  <1>1. Granting(t) /\ call[t] \in Grant /\ UNCHANGED <<offered, orders, codes, subs, settled, acked, metered>>
    BY CallKinds DEF Inv, Replace, Replaced, At, Granting
  <1>2. PICK rows, pc : /\ call' = [call EXCEPT ![t].rows = rows, ![t].pc = pc] /\ pc \in {"replacing", "replaced"}
                        /\ rows = Active(call[t].user) \/ rows = Changed(t)
    BY DEF Replace, Replaced
  <1>3. /\ rows \in SUBSET Ids
        /\ \A i \in rows : i \in call[t].rows \/ i \in Active(call[t].user)
    BY <1>1, <1>2, SubsAre DEF Active, Changed, Grant, Inv
  <1> DEFINE r == [call[t] EXCEPT !.rows = rows, !.pc = pc]
  <1>4. call' = [call EXCEPT ![t] = r]
    BY <1>2 DEF Inv, TypeOK
  <1>5. r \in Grant /\ r.source = call[t].source /\ r.user = call[t].user /\ r.rows = rows
    BY <1>1, <1>2, <1>3 DEF Grant
  <1> HIDE DEF r
  <1>6. call'[t] = r
    BY <1>4, <1>5, CallMoves DEF Inv
  <1>7. GrantStays(t)
    BY <1>1, <1>3, <1>5, <1>6 DEF GrantStays
  <1> QED BY <1>1, <1>4, <1>5, <1>7, OnlyCall

LEMMA LoseKeeps ==
  ASSUME Inv, NEW t \in Calls, Lose(t)
  PROVE  Inv'
  <1>1. call' = [call EXCEPT ![t] = Idle] /\ UNCHANGED <<offered, orders, codes, subs, settled, acked, metered>>
    BY DEF Lose
  <1>2. call'[t] = Idle
    BY <1>1, CallMoves DEF Inv
  <1>3. GrantStays(t)
    BY <1>2 DEF GrantStays, Granting, Idle
  <1> QED BY <1>1, <1>3, OnlyCall

LEMMA ReportKeeps ==
  ASSUME Inv, NEW t \in Calls, NEW u \in Users, Report(t, u)
  PROVE  Inv'
  <1> DEFINE r == [user |-> u, rows |-> Active(u), pc |-> "charging"]
  <1>1. call' = [call EXCEPT ![t] = r] /\ UNCHANGED <<offered, orders, codes, subs, settled, acked, metered>>
    BY DEF Report
  <1>2. r \in Charge /\ r.pc = "charging"
    BY SubsAre DEF Charge, Active, Inv
  <1> HIDE DEF r
  <1>3. call'[t] = r
    BY <1>1, <1>2, CallMoves DEF Inv
  <1>4. GrantStays(t)
    BY <1>2, <1>3 DEF GrantStays, Granting
  <1> QED BY <1>1, <1>2, <1>4, OnlyCall

LEMMA ChargedKeeps ==
  ASSUME Inv, NEW t \in Calls, Charged(t)
  PROVE  Inv'
  <1>1. /\ call' = [call EXCEPT ![t] = Idle] /\ UNCHANGED <<offered, orders, codes, settled, acked>>
        /\ metered' = [metered EXCEPT ![call[t].user] = @ + 1]
        /\ subs' = [i \in DOMAIN subs |-> IF i \in Changed(t) THEN [subs[i] EXCEPT !.used = @ + 1] ELSE subs[i]]
    BY DEF Charged
  <1>2. call[t] \in Charge
    BY CallKinds DEF Inv, Charged
  <1>3. ASSUME NEW i \in DOMAIN subs
        PROVE  /\ subs'[i] \in Sub /\ subs'[i].user = subs[i].user /\ subs'[i].status = subs[i].status
               /\ subs'[i].source = subs[i].source /\ subs'[i].padded = subs[i].padded
    <2> DEFINE s == [subs[i] EXCEPT !.used = subs[i].used + 1]
    <2>1. subs[i] \in Sub
      BY SubsAre DEF Inv
    <2>2. /\ s \in Sub /\ s.user = subs[i].user /\ s.status = subs[i].status
          /\ s.source = subs[i].source /\ s.padded = subs[i].padded
      BY <2>1 DEF Sub
    <2>3. subs'[i] = IF i \in Changed(t) THEN s ELSE subs[i]
      BY <1>1
    <2> HIDE DEF s
    <2> QED BY <2>1, <2>2, <2>3
  <1>4. subs' \in [DOMAIN subs -> Sub]
    BY <1>1, <1>3
  <1>5. RowsStay(subs') /\ Subscribed'
    BY <1>3, <1>4, Rewritten, ActiveKept DEF Inv
  <1>6. call'[t] = Idle /\ call' \in [Calls -> Grant \cup Charge \cup {Idle}]
    BY <1>1, CallMoves DEF Inv
  <1>7. GrantStays(t)
    BY <1>6 DEF GrantStays, Granting, Idle
  <1>8. \A q \in Calls : GrantStays(q)
    BY <1>1, <1>7, CallMoves DEF Inv
  <1>9. metered' \in [Users -> Nat]
    <2>1. metered \in [Users -> Nat] /\ call[t].user \in Users
      BY <1>2 DEF Inv, TypeOK, Charge
    <2>2. metered[call[t].user] + 1 \in Nat
      BY <2>1
    <2> QED BY <1>1, <2>1, <2>2
  <1>10. TypeOK'
    BY <1>1, <1>5, <1>6, <1>9 DEF Inv, TypeOK, RowsStay
  <1>11. \A o \in acked' : orders[o].status = "paid"
    BY <1>1 DEF Inv, Acknowledged
  <1> QED BY <1>1, <1>5, <1>8, <1>10, <1>11, NothingGranted

\* A step that changes orders, codes or plans and no call or subscription.
LEMMA SourcesChange ==
  ASSUME Inv, TypeOK', UNCHANGED <<subs, acked, metered, call>>, Placed',
         \A o \in Orders : /\ orders[o].status = "pending" => orders'[o].status = "pending"
                           /\ orders[o].status = "paid" <=> orders'[o].status = "paid",
         \A c \in Codes : /\ codes[c].status = "unused" => codes'[c].status = "unused"
                          /\ codes[c].status = "redeemed" => codes'[c].status = "redeemed"
  PROVE  Inv'
  <1>1. RowsStay(subs') /\ Subscribed'
    BY SubsUnchanged
  <1>2. \A q \in Calls : GrantStays(q)
    BY DEF GrantStays, Granting
  <1>3. \A q \in Calls : Current(q)'
    <2>1. \A o \in Orders : orders[o].status = "pending" => orders'[o].status = "pending"
      OBVIOUS
    <2>2. \A c \in Codes : codes[c].status = "unused" => codes'[c].status = "unused"
      OBVIOUS
    <2>3. \A q \in Calls : Current(q)
      BY DEF Inv
    <2> QED BY <1>1, <1>2, <2>1, <2>2, <2>3, CurrentKept
  <1>4. Exclusive'
    BY DEF Inv, Exclusive, Granting
  <1>5. \A o \in Orders : PaidOnce(o)'
    BY DEF Inv, PaidOnce, GrantedFor
  <1>6. Unspent' /\ NoGrantAfterPlainUse'
    BY DEF Inv, Unspent, NoGrantAfterPlainUse, GrantedFor
  <1>7. Acknowledged'
    BY DEF Inv, Acknowledged, TypeOK
  <1> QED BY <1>1, <1>3, <1>4, <1>5, <1>6, <1>7 DEF Inv

LEMMA OrderKeeps ==
  ASSUME Inv, NEW o \in Orders, NEW u \in Users, NEW p \in Plans, CreatePaymentOrder(o, u, p)
  PROVE  Inv'
  <1>1. /\ orders[o].status = "none" /\ orders' = [orders EXCEPT ![o] = NewOrder(u, p)]
        /\ UNCHANGED <<offered, codes, subs, settled, acked, metered, call>>
    BY DEF CreatePaymentOrder
  <1>2. NewOrder(u, p) \in Order /\ NewOrder(u, p).user = u /\ NewOrder(u, p).plan = p /\ NewOrder(u, p).status = "pending"
    BY DEF NewOrder, Order
  <1>3. /\ orders' \in [Orders -> Order] /\ orders'[o] = NewOrder(u, p)
        /\ \A k \in Orders : k # o => orders'[k] = orders[k]
    BY <1>1, <1>2, Replaced1 DEF Inv, TypeOK
  <1>4. TypeOK'
    BY <1>1, <1>3 DEF Inv, TypeOK
  <1>5. Placed'
    BY <1>1, <1>2, <1>3 DEF Inv, Placed, TypeOK
  <1>6. ASSUME NEW k \in Orders
        PROVE  /\ orders[k].status = "pending" => orders'[k].status = "pending"
               /\ orders[k].status = "paid" <=> orders'[k].status = "paid"
    <2>1. CASE k = o
      BY <1>1, <1>2, <1>3, <2>1
    <2>2. CASE k # o
      BY <1>3, <2>2
    <2> QED BY <2>1, <2>2
  <1> QED BY <1>1, <1>4, <1>5, <1>6, SourcesChange

LEMMA PayKeeps ==
  ASSUME Inv, NEW o \in Orders, Pay(o)
  PROVE  Inv'
  <1>1. orders[o].status = "pending" /\ settled' = settled \cup {o} /\ UNCHANGED <<offered, orders, codes, subs, acked, metered, call>>
    BY DEF Pay
  <1>2. TypeOK' /\ Placed'
    BY <1>1 DEF Inv, TypeOK, Placed
  <1> QED BY <1>1, <1>2, SourcesChange

LEMMA CodesKeep ==
  ASSUME Inv, NEW c \in Codes, NEW p \in Plans, CreateRedeemCodes(c, p)
  PROVE  Inv'
  <1> DEFINE r == [plan |-> p, status |-> "unused"]
  <1>1. /\ codes[c].status = "none" /\ codes' = [codes EXCEPT ![c] = r]
        /\ UNCHANGED <<offered, orders, subs, settled, acked, metered, call>>
    BY DEF CreateRedeemCodes
  <1>2. r \in Code /\ r.status = "unused"
    BY DEF Code
  <1> HIDE DEF r
  <1>3. /\ codes' \in [Codes -> Code] /\ codes'[c] = r
        /\ \A k \in Codes : k # c => codes'[k] = codes[k]
    BY <1>1, <1>2, Replaced1 DEF Inv, TypeOK
  <1>4. TypeOK' /\ Placed'
    BY <1>1, <1>3 DEF Inv, TypeOK, Placed
  <1>5. ASSUME NEW k \in Codes
        PROVE  /\ codes[k].status = "unused" => codes'[k].status = "unused"
               /\ codes[k].status = "redeemed" => codes'[k].status = "redeemed"
    <2>1. CASE k = c
      BY <1>1, <1>2, <1>3, <2>1
    <2>2. CASE k # c
      BY <1>3, <2>2
    <2> QED BY <2>1, <2>2
  <1> QED BY <1>1, <1>4, <1>5, SourcesChange

LEMMA PlanKeeps ==
  ASSUME Inv, NEW p \in Plans, UpdatePlan(p)
  PROVE  Inv'
  <1>1. UNCHANGED <<orders, codes, subs, settled, acked, metered, call>> /\ offered' \subseteq Plans
    BY DEF UpdatePlan, Inv, TypeOK
  <1>2. TypeOK' /\ Placed'
    BY <1>1 DEF Inv, TypeOK, Placed
  <1> QED BY <1>1, <1>2, SourcesChange

LEMMA InvInit == Init => Inv
  <1> SUFFICES ASSUME Init PROVE Inv
    OBVIOUS
  <1>1. subs = <<>> /\ subs \in Seq(Sub) /\ DOMAIN subs = {}
    BY DEF Init
  <1>2. \A t \in Calls : call[t] = Idle /\ ~Granting(t)
    BY DEF Init, Idle, Granting
  <1>3. \A o \in Orders : orders[o].status = "none"
    BY DEF Init
  <1>4. orders \in [Orders -> Order] /\ codes \in [Codes -> Code]
    BY DEF Init, Order, Code
  <1>5. call \in [Calls -> Grant \cup Charge \cup {Idle}]
    BY DEF Init
  <1>6. TypeOK
    BY <1>1, <1>4, <1>5 DEF Init, TypeOK
  <1>7. \A source \in Sources : GrantedFor(source) = {}
    BY <1>1 DEF GrantedFor
  <1>8. (\A o \in Orders : PaidOnce(o)) /\ Unspent /\ NoGrantAfterPlainUse
    BY <1>3, <1>7, SourcesAre DEF PaidOnce, Unspent, NoGrantAfterPlainUse
  <1>9. Exclusive /\ \A t \in Calls : Current(t)
    BY <1>2 DEF Exclusive, Current
  <1>10. Placed /\ Acknowledged /\ Subscribed
    BY <1>1, <1>3 DEF Init, Placed, Acknowledged, Subscribed
  <1> QED BY <1>6, <1>8, <1>9, <1>10 DEF Inv

LEMMA InvStep == Inv /\ [Next]_vars => Inv'
  <1> SUFFICES ASSUME Inv, [Next]_vars PROVE Inv'
    OBVIOUS
  <1>1. ASSUME NEW t \in Calls, NEW o \in Orders, Notify(t, o) PROVE Inv'
    BY <1>1, NotifyKeeps
  <1>2. ASSUME NEW t \in Calls, NEW u \in Users, NEW c \in Codes, NEW padded \in BOOLEAN, Redeem(t, u, c, padded) PROVE Inv'
    BY <1>2, RedeemKeeps
  <1>3. ASSUME NEW t \in Calls, NEW u \in Users, NEW p \in Plans, UpdateUser(t, u, p) PROVE Inv'
    BY <1>3, UpdateUserKeeps
  <1>4. ASSUME NEW t \in Calls, NEW u \in Users, Report(t, u) PROVE Inv'
    BY <1>4, ReportKeeps
  <1>5. ASSUME NEW t \in Calls, Replace(t) \/ Replaced(t) \/ Commit(t) \/ Charged(t) \/ Lose(t) PROVE Inv'
    BY <1>5, ReplaceKeeps, CommitKeeps, ChargedKeeps, LoseKeeps
  <1>6. ASSUME NEW p \in Plans, NEW o \in Orders, NEW u \in Users, CreatePaymentOrder(o, u, p) PROVE Inv'
    BY <1>6, OrderKeeps
  <1>7. ASSUME NEW p \in Plans, NEW c \in Codes, CreateRedeemCodes(c, p) PROVE Inv'
    BY <1>7, CodesKeep
  <1>8. ASSUME NEW p \in Plans, UpdatePlan(p) PROVE Inv'
    BY <1>8, PlanKeeps
  <1>9. ASSUME NEW o \in Orders, Pay(o) PROVE Inv'
    BY <1>9, PayKeeps
  <1>10. CASE UNCHANGED vars
    <2>1. UNCHANGED <<offered, orders, codes, subs, settled, acked, metered, call>>
      BY <1>10 DEF vars
    <2>2. TypeOK' /\ Placed'
      BY <2>1 DEF Inv, TypeOK, Placed
    <2> QED BY <2>1, <2>2, SourcesChange
  <1> QED BY <1>1, <1>2, <1>3, <1>4, <1>5, <1>6, <1>7, <1>8, <1>9, <1>10 DEF Next

-----------------------------------------------------------------------------
(* The theorems                                                            *)

LEMMA Invariant == Spec => []Inv
  BY InvInit, InvStep, PTL DEF Spec

\* Every row, order, code and call is well formed (sql_migrations.go).
THEOREM TypeCorrect == Spec => []TypeOK
  <1>1. Inv => TypeOK
    BY DEF Inv
  <1> QED BY <1>1, Invariant, PTL

\* However notifications are repeated, overlap and die, an order is paid exactly when
\* one subscription was granted for it (sql_store.go, MarkPaymentOrderPaid).
THEOREM OrdersActivatedOnce == Spec => []PaidIffActivatedOnce
  <1>1. Inv => PaidIffActivatedOnce
    <2> SUFFICES ASSUME Inv, NEW o \in Orders
                 PROVE  Cardinality(GrantedFor(<<"order", o>>)) = IF orders[o].status = "paid" THEN 1 ELSE 0
      BY DEF PaidIffActivatedOnce
    <2>1. PaidOnce(o)
      BY DEF Inv
    <2>2. CASE orders[o].status = "paid"
      <3>1. PICK i \in DOMAIN subs : GrantedFor(<<"order", o>>) = {i}
        BY <2>1, <2>2 DEF PaidOnce
      <3> QED BY <2>2, <3>1, FS_Singleton
    <2>3. CASE orders[o].status # "paid"
      BY <2>1, <2>3, FS_EmptySet DEF PaidOnce
    <2> QED BY <2>2, <2>3
  <1> QED BY <1>1, Invariant, PTL

\* The payment provider reads "success" only for what is committed (payment.go, epayNotify).
THEOREM SuccessMeansActivated == Spec => []AckedOnlyWhenActivated
  <1>1. Inv => AckedOnlyWhenActivated
    <2> SUFFICES ASSUME Inv, NEW o \in acked PROVE GrantedFor(<<"order", o>>) # {}
      BY DEF AckedOnlyWhenActivated
    <2>1. o \in Orders /\ orders[o].status = "paid"
      BY DEF Inv, Acknowledged, TypeOK
    <2>2. PaidOnce(o)
      BY <2>1 DEF Inv
    <2> QED BY <2>1, <2>2 DEF PaidOnce
  <1> QED BY <1>1, Invariant, PTL

\* Once a code was sent as it is stored it grants no more, however calls race for it:
\* any number of grants for the padded code may come before (sql_store.go, Redeem).
THEOREM PlainUseSpendsCode == Spec => []NoGrantAfterPlainUse
  <1>1. Inv => NoGrantAfterPlainUse
    BY DEF Inv
  <1> QED BY <1>1, Invariant, PTL

\* Overlapping grants never leave a user with none of them active (sql_store.go, the
\* UPDATE and INSERT of every grant).
THEOREM NobodyLosesThePlan == Spec => []SubscribersStaySubscribed
  <1>1. Inv => SubscribersStaySubscribed
    BY DEF Inv, Subscribed, SubscribersStaySubscribed, Active
  <1> QED BY <1>1, Invariant, PTL

=============================================================================
