--------------------------- MODULE BackendProofs ----------------------------
(***************************************************************************)
(* Theorems about what a Backend (backend.go) gives its callers, for every *)
(* value of the constants: entry points (EntryPoints, under the name E),   *)
(* accounts and sessions (Accounts) and the configuration that the local   *)
(* client asks for (ClientConfig).  The three have nothing to say of each  *)
(* other's state: each theorem is about one of E!Spec, AccountsSpec and    *)
(* Spec, the last being that of ClientConfig.                              *)
(***************************************************************************)
EXTENDS Accounts, ClientConfig, TLAPS

\* The parameters of EntryPoints.
CONSTANTS TunnelIds, Owners, Points
VARIABLES live, known, reserved, loose

E == INSTANCE EntryPoints WITH Ids <- TunnelIds

USE AccountsAssumption, ConfigAssumption

-----------------------------------------------------------------------------
(* Entry points: no reservation leaks, and a live tunnel holds its point   *)
(* alone, but for the points that an ended temporary tunnel had.  The      *)
(* three facts are proved together: each step of one needs another before  *)
(* it.                                                                     *)

Promise == E!NothingLeaks /\ E!Kept /\ E!Exclusive /\ DOMAIN live \subseteq known

\* What is left when the tunnels of S are taken off, whatever comes next.
LEMMA LeftAlone ==
  ASSUME Promise, NEW S \in SUBSET DOMAIN live, NEW T, E!Leave(S, T)
  PROVE  /\ \A p \in reserved \ E!PointsOf(S) : \E i \in DOMAIN live \ S : live[i].point = p
         /\ \A i \in DOMAIN live \ S : live[i].point \in (reserved \ E!PointsOf(S)) \cup loose'
         /\ \A i, j \in DOMAIN live \ S : i # j /\ live[i].point = live[j].point => live[i].point \in loose'
  <1>1. loose \subseteq loose'
    BY DEF E!Leave
  <1>2. ASSUME NEW p \in reserved \ E!PointsOf(S)
        PROVE  \E i \in DOMAIN live \ S : live[i].point = p
    BY DEF Promise, E!NothingLeaks, E!PointsOf
  <1>3. ASSUME NEW i \in DOMAIN live \ S
        PROVE  live[i].point \in (reserved \ E!PointsOf(S)) \cup loose'
    <2>1. CASE live[i].point \in E!PointsOf(S)
      <3>1. PICK j \in S : live[j].point = live[i].point
        BY <2>1 DEF E!PointsOf
      <3>2. live[i].point \in loose
        BY <3>1 DEF Promise, E!Exclusive
      <3>3. QED
        BY <1>1, <3>2
    <2>2. QED
      BY <1>1, <2>1 DEF Promise, E!Kept
  <1>4. QED
    BY <1>1, <1>2, <1>3 DEF Promise, E!Exclusive

LEMMA EndKeeps ==
  ASSUME Promise, NEW S \in SUBSET DOMAIN live, NEW T, E!End(S, T)
  PROVE  Promise'
  <1>1. E!Leave(S, T) /\ reserved' = reserved \ E!PointsOf(S) /\ known' = known
    BY DEF E!End
  <1>2. DOMAIN live' = DOMAIN live \ S /\ \A i \in DOMAIN live' : live'[i] = live[i]
    BY DEF E!End
  <1>3. E!NothingLeaks'
    BY <1>1, <1>2, LeftAlone DEF E!NothingLeaks
  <1>4. E!Kept' /\ E!Exclusive'
    BY <1>1, <1>2, LeftAlone DEF E!Kept, E!Exclusive
  <1>5. QED
    BY <1>1, <1>2, <1>3, <1>4 DEF Promise

LEMMA GrantKeeps ==
  ASSUME Promise, NEW S \in SUBSET DOMAIN live, NEW T, E!Grant(S, T)
  PROVE  Promise'
  <1>1. PICK i \in TunnelIds \ known, g \in E!Grants :
          /\ known' = known \cup {i}
          /\ g.point \notin reserved \ E!PointsOf(S)
          /\ reserved' = (reserved \ E!PointsOf(S)) \cup {g.point}
          /\ live' = [j \in (DOMAIN live \ S) \cup {i} |-> IF j = i THEN g ELSE live[j]]
    BY DEF E!Grant
  <1>2. E!Leave(S, T)
    BY DEF E!Grant
  <1>3. i \notin DOMAIN live
    BY DEF Promise
  <1>4. /\ DOMAIN live' = (DOMAIN live \ S) \cup {i}
        /\ live'[i] = g
        /\ \A j \in DOMAIN live \ S : live'[j] = live[j] /\ j # i
    BY <1>1, <1>3
  <1>5. E!NothingLeaks'
    <2>1. ASSUME NEW p \in reserved \ E!PointsOf(S)
          PROVE  \E j \in DOMAIN live' : live'[j].point = p
      <3>1. PICK j \in DOMAIN live \ S : live[j].point = p
        BY <1>2, LeftAlone
      <3>2. QED
        BY <1>4, <3>1
    <2>2. \E j \in DOMAIN live' : live'[j].point = g.point
      BY <1>4
    <2>3. QED
      BY <1>1, <2>1, <2>2 DEF E!NothingLeaks
  <1>6. E!Kept'
    BY <1>1, <1>2, <1>4, LeftAlone DEF E!Kept
  <1>7. \A j \in DOMAIN live \ S : live[j].point = g.point => g.point \in loose'
    BY <1>1, <1>2, LeftAlone
  <1>8. E!Exclusive'
    <2> SUFFICES ASSUME NEW j \in DOMAIN live', NEW k \in DOMAIN live', j # k,
                        live'[j].point = live'[k].point
                 PROVE  live'[j].point \in loose'
      BY DEF E!Exclusive
    <2>1. CASE j = i \/ k = i
      BY <1>4, <1>7, <2>1
    <2>2. CASE j # i /\ k # i
      BY <1>2, <1>4, <2>2, LeftAlone
    <2>3. QED
      BY <2>1, <2>2
  <1>9. QED
    BY <1>1, <1>4, <1>5, <1>6, <1>8 DEF Promise

LEMMA EndAgainKeeps ==
  ASSUME Promise, NEW p, E!EndAgain(p)
  PROVE  Promise'
  BY DEF Promise, E!EndAgain, E!NothingLeaks, E!Kept, E!Exclusive

LEMMA PromiseKept == E!Spec => []Promise
  <1>1. E!Init => Promise
    BY DEF E!Init, Promise, E!NothingLeaks, E!Kept, E!Exclusive
  <1>2. Promise /\ [E!Next]_E!abstractVars => Promise'
    <2> SUFFICES ASSUME Promise, [E!Next]_E!abstractVars PROVE Promise'
      OBVIOUS
    <2>1. CASE UNCHANGED E!abstractVars
      BY <2>1 DEF E!abstractVars, Promise, E!NothingLeaks, E!Kept, E!Exclusive
    <2>2. QED
      BY <2>1, EndKeeps, GrantKeeps, EndAgainKeeps DEF E!Next
  <1>3. QED
    BY <1>1, <1>2, PTL DEF E!Spec

\* An entry point is never lost to everybody: what is reserved has a live tunnel.
THEOREM NothingEverLeaks == E!Spec => []E!NothingLeaks
  BY PromiseKept, PTL DEF Promise

\* A live tunnel keeps its entry point, except one that an ended temporary tunnel had
\* before.
THEOREM EntryPointsKept == E!Spec => []E!Kept
  BY PromiseKept, PTL DEF Promise

\* Two live tunnels share an entry point only where a temporary tunnel had it before.
THEOREM EntryPointsExclusive == E!Spec => []E!Exclusive
  BY PromiseKept, PTL DEF Promise

-----------------------------------------------------------------------------
(* Accounts: types                                                         *)

Coded == [email : Emails, state : {"fresh", "expired", "used", "lost"}]

Account == [status : UserStatuses \cup {"none"}, code : 0..MaxCodes]

Called == [op : {"none", "register", "login", "update", "request"},
           pc : {"idle", "check", "insert", "spend", "read", "session", "set", "plan", "commit", "auth", "act", "done"},
           email : Emails \cup {None}, code : 0..MaxCodes, status : UserStatuses \cup {""}, plan : BOOLEAN,
           result : {"", "ok", "refused", "failed"}, active : BOOLEAN]

\* One call is replaced; the tables and the history are not.
LEMMA CallTyped ==
  ASSUME AccountsTypeOK, NEW c \in Calls, NEW r \in Called, call' = [call EXCEPT ![c] = r],
         UNCHANGED <<codes, mailed, users, set, granted>>, sessions' \subseteq Emails
  PROVE  AccountsTypeOK'
  <1>1. call' \in [Calls -> Called]
    BY DEF AccountsTypeOK, Called
  <1>2. QED
    BY <1>1 DEF AccountsTypeOK, Called

\* Whatever is given, if it is of its type.
LEMMA MovedTyped ==
  ASSUME NEW r \in Called,
         NEW pc \in {"idle", "check", "insert", "spend", "read", "session", "set", "plan", "commit", "auth", "act", "done"}
  PROVE  [r EXCEPT !.pc = pc] \in Called
  BY DEF Called

LEMMA EndedTyped ==
  ASSUME NEW r \in Called, NEW how \in {"ok", "refused", "failed"}
  PROVE  /\ Ended(r, how) \in Called
         /\ Ended(r, how).pc = "done" /\ Ended(r, how).result = how
         /\ Ended(r, how).op = r.op /\ Ended(r, how).plan = r.plan /\ Ended(r, how).active = r.active
  <1>1. PICK s : s = [r EXCEPT !.pc = "done", !.result = how]
    OBVIOUS
  <1>2. s \in Called /\ s.pc = "done" /\ s.result = how /\ s.op = r.op /\ s.plan = r.plan /\ s.active = r.active
    BY <1>1 DEF Called
  <1>3. PICK t : t = [s EXCEPT !.email = None]
    OBVIOUS
  <1>4. t \in Called /\ t.pc = "done" /\ t.result = how /\ t.op = r.op /\ t.plan = r.plan /\ t.active = r.active
    BY <1>2, <1>3 DEF Called
  <1>5. PICK u : u = [t EXCEPT !.code = 0]
    OBVIOUS
  <1>6. u \in Called /\ u.pc = "done" /\ u.result = how /\ u.op = r.op /\ u.plan = r.plan /\ u.active = r.active
    <2>1. 0 \in 0..MaxCodes
      OBVIOUS
    <2>2. u.code = 0
      BY <1>4, <1>5 DEF Called
    <2>3. QED
      BY <1>4, <1>5, <2>1, <2>2 DEF Called
  <1>7. Ended(r, how) = [u EXCEPT !.status = ""]
    BY <1>1, <1>3, <1>5 DEF Ended
  <1>8. QED
    BY <1>6, <1>7 DEF Called

LEMMA CodesTyped == AccountsTypeOK => \A k \in DOMAIN codes : codes[k] \in Coded /\ k \in CodeIds
  <1> SUFFICES ASSUME AccountsTypeOK PROVE \A k \in DOMAIN codes : codes[k] \in Coded /\ k \in CodeIds
    OBVIOUS
  <1>1. PICK n \in 0..MaxCodes : codes \in [1..n -> Coded]
    BY DEF AccountsTypeOK, Coded
  <1>2. QED
    BY <1>1 DEF CodeIds

LEMMA UsersTyped == AccountsTypeOK => \A e \in Emails : users[e] \in Account
  BY DEF AccountsTypeOK, Account

LEMMA CallsTyped == AccountsTypeOK => \A c \in Calls : call[c] \in Called
  BY DEF AccountsTypeOK, Called

-----------------------------------------------------------------------------
(* Accounts: the invariant.  What a user was given is settled by what each *)
(* call has done and may still do, so the state of a call is most of it.   *)

\* A registration between its INSERT and its end.
InTransaction(r) == r.op = "register" /\ r.pc \in {"spend", "commit"}

\* What the call c, in the state r, has done and may still do.
Sound(c, r) ==
  /\ r.pc \in {"check", "insert", "spend"} => r.op = "register"
  /\ r.pc = "commit" => r.op \in {"register", "update"}
  /\ r.pc \in {"read", "session"} => r.op = "login"
  /\ r.pc \in {"set", "plan"} => r.op = "update"
  /\ r.pc \in {"auth", "act"} => r.op = "request"
  /\ r.pc \notin {"idle", "done"} => r.email \in Emails /\ (IsActive(r.email) => r.active)
  /\ r.pc # "done" => r.result = "" /\ c \notin set \cup granted
  /\ r.pc = "insert" \/ InTransaction(r) => r.code \in DOMAIN codes /\ codes[r.code].email = r.email
  /\ InTransaction(r) => ~Exists(r.email)
  /\ r.op = "update" /\ r.pc \in {"plan", "commit"} => Exists(r.email)
  /\ r.op = "request" /\ (r.pc = "act" \/ r.result = "ok") => r.active
  /\ r.result = "refused" => c \notin set \cup granted
  /\ c \in set /\ r.plan => c \in granted

CallsSound == \A c \in Calls : Sound(c, call[c])

\* One transaction at a time has the address.
Alone ==
  \A c, d \in Calls :
    c # d /\ InTransaction(call[c]) /\ InTransaction(call[d]) => call[c].email # call[d].email

\* A user's code was sent to the user, and who is not there has none.
UsersCoded ==
  \A e \in Emails :
    /\ users[e].code # 0 => users[e].code \in DOMAIN codes /\ codes[users[e].code].email = e
    /\ users[e].status = "none" => users[e].code = 0

AccountsInv == CallsSound /\ Alone /\ UsersCoded /\ CodeSpentWithAccount

-----------------------------------------------------------------------------
(* Accounts: steps of one call that leave the tables alone                 *)

\* The call c goes on as r.
Goes(c, r) ==
  /\ call' = [call EXCEPT ![c] = r]
  /\ UNCHANGED <<codes, mailed, users, set, granted>>
  /\ sessions' \subseteq Emails

LEMMA GoesSound ==
  ASSUME AccountsTypeOK, AccountsInv, NEW c \in Calls, NEW r \in Called, Goes(c, r), Sound(c, r),
         InTransaction(r) =>
           \A d \in Calls \ {c} : InTransaction(call[d]) => call[d].email # r.email
  PROVE  AccountsTypeOK' /\ AccountsInv'
  <1>1. AccountsTypeOK'
    BY CallTyped DEF Goes
  <1>2. \A d \in Calls : call'[d] = IF d = c THEN r ELSE call[d]
    BY DEF Goes, AccountsTypeOK
  <1>3. UNCHANGED <<codes, users, set, granted>>
    BY DEF Goes
  <1>4. ASSUME NEW d \in Calls PROVE Sound(d, call[d])'
    <2>1. PICK x : x = call'[d]
      OBVIOUS
    <2>2. Sound(d, x)
      BY <1>2, <2>1 DEF AccountsInv, CallsSound
    <2>3. Sound(d, x)'
      BY <1>3, <2>2 DEF Sound, IsActive, Exists
    <2>4. QED
      BY <2>1, <2>3
  <1>5. CallsSound'
    BY <1>4 DEF CallsSound
  <1>6. Alone'
    BY <1>2 DEF AccountsInv, Alone, InTransaction
  <1>7. UsersCoded' /\ CodeSpentWithAccount'
    BY <1>3 DEF AccountsInv, UsersCoded, CodeSpentWithAccount
  <1>8. QED
    BY <1>1, <1>5, <1>6, <1>7 DEF AccountsInv

\* A call that is not done ends, without having changed anything.
LEMMA EndSound ==
  ASSUME AccountsTypeOK, AccountsInv, NEW c \in Calls,
         NEW how \in {"ok", "refused", "failed"}, End(c, how),
         call[c].pc # "done", how = "ok" /\ call[c].op = "request" => call[c].active,
         UNCHANGED <<codes, mailed, users, set, granted>>, sessions' \subseteq Emails
  PROVE  AccountsTypeOK' /\ AccountsInv'
  <1>1. PICK r : r = Ended(call[c], how)
    OBVIOUS
  <1>2. /\ r \in Called /\ r.pc = "done" /\ r.result = how
        /\ r.op = call[c].op /\ r.plan = call[c].plan /\ r.active = call[c].active
    BY <1>1, CallsTyped, EndedTyped
  <1>3. c \notin set \cup granted
    BY DEF AccountsInv, CallsSound, Sound
  <1>4. Sound(c, r) /\ ~InTransaction(r)
    BY <1>2, <1>3 DEF Sound, InTransaction
  <1>5. Goes(c, r)
    BY <1>1 DEF Goes, End
  <1>6. QED
    BY <1>2, <1>4, <1>5, GoesSound

\* A call moves on to pc.
LEMMA GoSound ==
  ASSUME AccountsTypeOK, AccountsInv, NEW c \in Calls,
         NEW pc \in {"insert", "spend", "session", "plan", "commit", "act"}, Go(c, pc),
         UNCHANGED <<codes, mailed, users, set, granted>>, sessions' \subseteq Emails,
         Sound(c, [call[c] EXCEPT !.pc = pc]),
         pc = "spend" => \A d \in Calls \ {c} : InTransaction(call[d]) => call[d].email # call[c].email,
         pc = "commit" /\ call[c].op = "register" => call[c].pc = "spend"
  PROVE  AccountsTypeOK' /\ AccountsInv'
  <1>1. PICK r : r = [call[c] EXCEPT !.pc = pc]
    OBVIOUS
  <1>2. call[c] \in Called
    BY CallsTyped
  <1>3. r \in Called
    BY <1>1, <1>2, MovedTyped
  <1>4. r.pc = pc /\ r.op = call[c].op /\ r.email = call[c].email
    BY <1>1, <1>2 DEF Called
  <1>5. Goes(c, r)
    BY <1>1 DEF Goes, Go
  <1>6. InTransaction(r) => \A d \in Calls \ {c} : InTransaction(call[d]) => call[d].email # r.email
    BY <1>4 DEF InTransaction, AccountsInv, Alone
  <1>7. QED
    BY <1>1, <1>3, <1>5, <1>6, GoesSound

LEMMA BeginSound ==
  ASSUME AccountsTypeOK, AccountsInv, NEW c \in Calls, NEW op, NEW pc, NEW e \in Emails,
         NEW args \in Called, Begin(c, op, pc, e, args),
         \/ op = "register" /\ pc = "check"
         \/ op = "login" /\ pc = "read"
         \/ op = "update" /\ pc = "set"
         \/ op = "request" /\ pc = "auth",
         args.result = ""
  PROVE  AccountsTypeOK' /\ AccountsInv'
  <1>1. PICK r : r = [args EXCEPT !.op = op, !.pc = pc, !.email = e, !.active = IsActive(e)]
    OBVIOUS
  <1>2. /\ r \in Called /\ r.op = op /\ r.pc = pc /\ r.email = e /\ r.result = ""
        /\ r.active = IsActive(e)
    BY <1>1 DEF Called, IsActive
  <1>3. c \notin set \cup granted
    BY DEF Begin, CallAt, AccountsInv, CallsSound, Sound
  <1>4. Sound(c, r) /\ ~InTransaction(r)
    BY <1>2, <1>3 DEF Sound, InTransaction
  <1>5. Goes(c, r)
    BY <1>1 DEF Goes, Begin, AccountsTypeOK
  <1>6. QED
    BY <1>2, <1>4, <1>5, GoesSound

LEMMA IdleCalled == /\ Idle \in Called /\ Idle.result = ""
  /\ \A k \in CodeIds \cup {0} : [Idle EXCEPT !.code = k] \in Called /\ [Idle EXCEPT !.code = k].result = ""
  /\ \A status \in UserStatuses \cup {""}, plan \in BOOLEAN :
       LET r == [Idle EXCEPT !.status = status, !.plan = plan] IN r \in Called /\ r.result = ""
  <1>1. 0 \in 0..MaxCodes /\ CodeIds \cup {0} \subseteq 0..MaxCodes
    BY DEF CodeIds
  <1>2. Idle \in Called /\ Idle.result = ""
    BY <1>1 DEF Idle, Called
  <1>3. QED
    BY <1>1, <1>2 DEF Called

LEMMA ArriveSound ==
  ASSUME AccountsTypeOK, AccountsInv, NEW c \in Calls, NEW e \in Emails, Arrive(c, e)
  PROVE  AccountsTypeOK' /\ AccountsInv'
  BY BeginSound, IdleCalled DEF Arrive, Register, Login, UserRequest, UpdateUser

\* What a call keeps as it moves on, and what is known of it before.
LEMMA Moved ==
  ASSUME AccountsTypeOK, AccountsInv, NEW c \in Calls, NEW pc, NEW r, r = [call[c] EXCEPT !.pc = pc]
  PROVE  /\ r.pc = pc /\ r.op = call[c].op /\ r.email = call[c].email /\ r.code = call[c].code
         /\ r.plan = call[c].plan /\ r.result = call[c].result /\ r.active = call[c].active
         /\ call[c] \in Called /\ Sound(c, call[c])
  BY CallsTyped DEF Called, AccountsInv, CallsSound

LEMMA MovedSound ==
  ASSUME AccountsTypeOK, AccountsInv, NEW c \in Calls, call[c].pc \notin {"idle", "done"},
         NEW pc \in {"insert", "spend", "session", "plan", "commit", "act"}, NEW r,
         r = [call[c] EXCEPT !.pc = pc],
         pc \in {"insert", "spend"} => call[c].op = "register",
         pc = "commit" => call[c].op \in {"register", "update"},
         pc = "session" => call[c].op = "login",
         pc = "plan" => call[c].op = "update",
         pc = "act" => call[c].op = "request" /\ call[c].active,
         call[c].op = "register" => call[c].code \in DOMAIN codes /\ codes[call[c].code].email = call[c].email,
         call[c].op = "register" /\ pc # "insert" => ~Exists(call[c].email),
         call[c].op = "update" => Exists(call[c].email)
  PROVE  Sound(c, r)
  <1>1. /\ r.pc = pc /\ r.op = call[c].op /\ r.email = call[c].email /\ r.code = call[c].code
        /\ r.plan = call[c].plan /\ r.result = call[c].result /\ r.active = call[c].active
        /\ Sound(c, call[c])
    BY Moved
  <1>2. /\ r.email \in Emails /\ (IsActive(r.email) => r.active)
        /\ r.result = "" /\ c \notin set \cup granted
    BY <1>1 DEF Sound
  <1>3. r.pc = "insert" \/ InTransaction(r) => r.code \in DOMAIN codes /\ codes[r.code].email = r.email
    BY <1>1 DEF InTransaction
  <1>4. InTransaction(r) => ~Exists(r.email)
    BY <1>1 DEF InTransaction
  <1>5. r.op = "update" => Exists(r.email)
    BY <1>1
  <1>6. r.op = "request" /\ r.pc = "act" => r.active
    BY <1>1
  <1>7. QED
    BY <1>1, <1>2, <1>3, <1>4, <1>5, <1>6 DEF Sound

LEMMA RegisterStep ==
  ASSUME AccountsTypeOK, AccountsInv, NEW c \in Calls,
         CheckCode(c) \/ InsertUser(c) \/ SpendCode(c)
  PROVE  AccountsTypeOK' /\ AccountsInv'
  <1>0. /\ UNCHANGED <<codes, mailed, users, set, granted>> /\ sessions' \subseteq Emails
        /\ Sound(c, call[c]) /\ call[c].op = "register" /\ call[c].pc # "done"
    BY DEF CheckCode, InsertUser, SpendCode, CallAt, AccountsTypeOK, AccountsInv, CallsSound, Sound
  <1>1. CASE End(c, "refused")
    BY <1>0, <1>1, EndSound
  <1>2. CASE CheckCode(c) /\ Go(c, "insert")
    <2>1. PICK r : r = [call[c] EXCEPT !.pc = "insert"]
      OBVIOUS
    <2>2. Newest(call[c].email, call[c].code)
      <3>1. CASE ~Newest(call[c].email, call[c].code)
        <4>1. call' = [call EXCEPT ![c] = Ended(call[c], "refused")]
          BY <1>2, <3>1 DEF CheckCode, End
        <4>2. call'[c].pc = "done"
          BY <4>1, CallsTyped, EndedTyped DEF AccountsTypeOK
        <4>3. call'[c].pc = "insert"
          BY <1>2 DEF Go, AccountsTypeOK
        <4>4. QED
          BY <4>2, <4>3
      <3>2. QED
        BY <3>1
    <2>3. Sound(c, r)
      BY <1>0, <1>2, <2>1, <2>2, MovedSound DEF CheckCode, CallAt, Newest, Fresh
    <2>4. QED
      BY <1>0, <1>2, <2>1, <2>3, GoSound
  <1>3. CASE InsertUser(c) /\ ~Exists(call[c].email) /\ Go(c, "spend")
    <2>1. PICK r : r = [call[c] EXCEPT !.pc = "spend"]
      OBVIOUS
    <2>2. Sound(c, r)
      <3>1. call[c].pc = "insert"
        BY <1>3 DEF InsertUser, CallAt
      <3>2. call[c].code \in DOMAIN codes /\ codes[call[c].code].email = call[c].email
        BY <1>0, <3>1 DEF Sound
      <3>3. QED
        BY <1>0, <1>3, <2>1, <3>1, <3>2, MovedSound
    <2>3. \A d \in Calls \ {c} : InTransaction(call[d]) => call[d].email # call[c].email
      BY <1>3 DEF InsertUser, Inserting, InTransaction
    <2>4. QED
      BY <1>0, <1>3, <2>1, <2>2, <2>3, GoSound
  <1>4. CASE SpendCode(c)
    <2>1. PICK r : r = [call[c] EXCEPT !.pc = "commit"]
      OBVIOUS
    <2>2. Sound(c, r)
      <3>1. call[c].pc = "spend"
        BY <1>4 DEF SpendCode, CallAt
      <3>2. /\ call[c].code \in DOMAIN codes /\ codes[call[c].code].email = call[c].email
            /\ ~Exists(call[c].email)
        BY <1>0, <3>1 DEF Sound, InTransaction
      <3>3. QED
        BY <1>0, <2>1, <3>1, <3>2, MovedSound
    <2>3. QED
      BY <1>0, <1>4, <2>1, <2>2, GoSound DEF SpendCode, CallAt
  <1>5. QED
    BY <1>1, <1>2, <1>3, <1>4 DEF CheckCode, InsertUser

LEMMA SessionStep ==
  ASSUME AccountsTypeOK, AccountsInv, NEW c \in Calls,
         ReadUser(c) \/ InsertSession(c) \/ Authenticate(c) \/ Act(c)
  PROVE  AccountsTypeOK' /\ AccountsInv'
  <1>0. /\ UNCHANGED <<codes, mailed, users, set, granted>>
        /\ Sound(c, call[c]) /\ call[c].op \in {"login", "request"}
        /\ call[c].pc \in {"read", "session", "auth", "act"} /\ call[c].email \in Emails
    BY DEF ReadUser, InsertSession, Authenticate, Act, CallAt, AccountsInv, CallsSound, Sound
  <1>1. sessions' \subseteq Emails
    BY <1>0 DEF ReadUser, InsertSession, Authenticate, Act, AccountsTypeOK
  <1>2. CASE End(c, "refused")
    BY <1>0, <1>1, <1>2, EndSound
  <1>3. CASE InsertSession(c) \/ Act(c)
    <2>1. End(c, "ok") /\ (call[c].op = "request" => call[c].active)
      BY <1>0, <1>3 DEF InsertSession, Act, CallAt, Sound
    <2>2. QED
      BY <1>0, <1>1, <2>1, EndSound
  <1>4. CASE ReadUser(c) /\ Go(c, "session")
    <2>1. PICK r : r = [call[c] EXCEPT !.pc = "session"]
      OBVIOUS
    <2>2. Sound(c, r)
      <3>1. call[c].pc = "read"
        BY <1>4 DEF ReadUser, CallAt
      <3>2. call[c].op = "login"
        BY <1>0, <3>1 DEF Sound
      <3>3. QED
        BY <2>1, <3>1, <3>2, MovedSound
    <2>3. QED
      BY <1>0, <1>1, <1>4, <2>1, <2>2, GoSound
  <1>5. CASE Authenticate(c) /\ UserByToken(call[c].email) /\ Go(c, "act")
    <2>1. PICK r : r = [call[c] EXCEPT !.pc = "act"]
      OBVIOUS
    <2>2. Sound(c, r)
      <3>1. call[c].pc = "auth" /\ IsActive(call[c].email)
        BY <1>5 DEF Authenticate, UserByToken, CallAt
      <3>2. call[c].op = "request" /\ call[c].active
        BY <1>0, <3>1 DEF Sound
      <3>3. QED
        BY <2>1, <3>1, <3>2, MovedSound
    <2>3. QED
      BY <1>0, <1>1, <1>5, <2>1, <2>2, GoSound
  <1>6. QED
    BY <1>2, <1>3, <1>4, <1>5 DEF ReadUser, Authenticate

LEMMA UpdateStep ==
  ASSUME AccountsTypeOK, AccountsInv, NEW c \in Calls, SetStatus(c) \/ ReadPlan(c)
  PROVE  AccountsTypeOK' /\ AccountsInv'
  <1>0. /\ UNCHANGED <<codes, mailed, users, set, granted>> /\ sessions' \subseteq Emails
        /\ Sound(c, call[c]) /\ call[c].op = "update" /\ call[c].pc \in {"set", "plan"}
    BY DEF SetStatus, ReadPlan, CallAt, AccountsTypeOK, AccountsInv, CallsSound, Sound
  <1>1. CASE End(c, "refused")
    BY <1>0, <1>1, EndSound
  <1>2. ASSUME NEW pc \in {"plan", "commit"}, Go(c, pc), Exists(call[c].email)
        PROVE  AccountsTypeOK' /\ AccountsInv'
    <2>1. PICK r : r = [call[c] EXCEPT !.pc = pc]
      OBVIOUS
    <2>2. Sound(c, r)
      BY <1>0, <1>2, <2>1, MovedSound
    <2>3. QED
      BY <1>0, <1>2, <2>1, <2>2, GoSound
  <1>3. CASE ReadPlan(c)
    <2>1. Exists(call[c].email)
      BY <1>0, <1>3 DEF ReadPlan, CallAt, Sound
    <2>2. QED
      BY <1>1, <1>2, <1>3, <2>1 DEF ReadPlan
  <1>4. CASE SetStatus(c)
    BY <1>1, <1>2, <1>4 DEF SetStatus
  <1>5. QED
    BY <1>3, <1>4

LEMMA LoseStep ==
  ASSUME AccountsTypeOK, AccountsInv, NEW c \in Calls, Lose(c)
  PROVE  AccountsTypeOK' /\ AccountsInv'
  BY EndSound DEF Lose, AccountsTypeOK

-----------------------------------------------------------------------------
(* Accounts: steps that change the tables                                  *)

\* Codes come and expire, and none becomes or stops being used.
LEMMA CodesGrow ==
  ASSUME AccountsTypeOK, AccountsInv, UNCHANGED <<users, sessions, call, set, granted>>,
         \E n \in 0..MaxCodes : codes' \in [1..n -> Coded], mailed' \subseteq DOMAIN codes',
         \A k \in DOMAIN codes : /\ k \in DOMAIN codes' /\ codes'[k].email = codes[k].email
                                 /\ codes'[k].state = "used" <=> codes[k].state = "used",
         \A k \in DOMAIN codes' \ DOMAIN codes : codes'[k].state # "used"
  PROVE  AccountsTypeOK' /\ AccountsInv'
  <1>1. AccountsTypeOK'
    BY DEF AccountsTypeOK, Coded
  <1>2. ASSUME NEW c \in Calls PROVE Sound(c, call[c])'
    <2>1. Sound(c, call[c])
      BY DEF AccountsInv, CallsSound
    <2>2. QED
      BY <2>1 DEF Sound, IsActive, Exists, InTransaction
  <1>3. CallsSound' /\ Alone'
    BY <1>2 DEF AccountsInv, CallsSound, Alone, InTransaction
  <1>4. UsersCoded'
    BY DEF AccountsInv, UsersCoded
  <1>5. CodeSpentWithAccount'
    <2> SUFFICES ASSUME NEW k \in DOMAIN codes'
                 PROVE  codes'[k].state = "used" <=> users[codes'[k].email].code = k
      BY DEF CodeSpentWithAccount
    <2>1. CASE k \in DOMAIN codes
      BY <2>1 DEF AccountsInv, CodeSpentWithAccount
    <2>2. CASE k \notin DOMAIN codes
      <3>1. codes'[k].email \in Emails /\ k # 0
        <4>1. PICK n \in 0..MaxCodes : codes' \in [1..n -> Coded]
          OBVIOUS
        <4>2. k \in 1..n /\ codes'[k] \in Coded
          BY <4>1
        <4>3. QED
          BY <4>2 DEF Coded
      <3>2. users[codes'[k].email].code # k
        BY <2>2, <3>1 DEF AccountsInv, UsersCoded
      <3>3. QED
        BY <2>2, <3>2
    <2>3. QED
      BY <2>1, <2>2
  <1>6. QED
    BY <1>1, <1>3, <1>4, <1>5 DEF AccountsInv

LEMMA SendCodeStep ==
  ASSUME AccountsTypeOK, AccountsInv, NEW e \in Emails, SendCode(e)
  PROVE  AccountsTypeOK' /\ AccountsInv'
  <1>1. PICK k \in CodeIds \ DOMAIN codes, state \in {"fresh", "lost"} :
          /\ \A j \in CodeIds \ DOMAIN codes : k <= j
          /\ codes' = [j \in DOMAIN codes \cup {k} |-> IF j = k THEN [email |-> e, state |-> state] ELSE codes[j]]
          /\ mailed' \in {mailed, mailed \cup {k}}
          /\ UNCHANGED <<users, sessions, call, set, granted>>
    BY DEF SendCode
  <1>2. PICK n \in 0..MaxCodes : codes \in [1..n -> Coded]
    BY DEF AccountsTypeOK, Coded
  <1>3. k = n + 1 /\ n + 1 \in 0..MaxCodes
    <2>1. k \in 1..MaxCodes /\ k \notin 1..n
      BY <1>1, <1>2 DEF CodeIds
    <2>2. n + 1 \in CodeIds \ DOMAIN codes
      BY <1>2, <2>1 DEF CodeIds
    <2>3. QED
      BY <1>1, <2>1, <2>2
  <1>4. DOMAIN codes \cup {k} = 1..(n + 1)
    BY <1>2, <1>3
  <1>5. [email |-> e, state |-> state] \in Coded
    BY DEF Coded
  <1>6. codes' \in [1..(n + 1) -> Coded]
    BY <1>1, <1>2, <1>4, <1>5
  <1>7. mailed' \subseteq DOMAIN codes'
    BY <1>1 DEF AccountsTypeOK
  <1>8. \A j \in DOMAIN codes : j \in DOMAIN codes' /\ codes'[j] = codes[j]
    BY <1>1
  <1>9. \A j \in DOMAIN codes' \ DOMAIN codes : codes'[j].state # "used"
    BY <1>1
  <1>10. QED
    BY <1>1, <1>3, <1>6, <1>7, <1>8, <1>9, CodesGrow

LEMMA ExpireCodeStep ==
  ASSUME AccountsTypeOK, AccountsInv, NEW k \in DOMAIN codes, ExpireCode(k)
  PROVE  AccountsTypeOK' /\ AccountsInv'
  <1>1. codes[k].state = "fresh" /\ codes' = [codes EXCEPT ![k].state = "expired"]
    BY DEF ExpireCode
  <1>2. PICK n \in 0..MaxCodes : codes \in [1..n -> Coded]
    BY DEF AccountsTypeOK, Coded
  <1>3. [codes[k] EXCEPT !.state = "expired"] \in Coded
    BY <1>2 DEF Coded
  <1>4. /\ codes' \in [1..n -> Coded] /\ DOMAIN codes' = DOMAIN codes
        /\ \A j \in DOMAIN codes : j # k => codes'[j] = codes[j]
        /\ codes'[k] = [codes[k] EXCEPT !.state = "expired"]
    BY <1>1, <1>2, <1>3
  <1>5. codes'[k].email = codes[k].email /\ codes'[k].state = "expired"
    BY <1>2, <1>4 DEF Coded
  <1>6. QED
    BY <1>1, <1>4, <1>5, CodesGrow DEF ExpireCode, AccountsTypeOK

LEMMA StoreCalls ==
  ASSUME AccountsTypeOK, NEW c \in Calls, NEW e \in Emails, NEW row \in Account,
         WriteUser(c, e, row)
  PROVE  /\ call' \in [Calls -> Called]
         /\ call'[c].pc = "done" /\ call'[c].result = "ok" /\ call'[c].op = call[c].op
         /\ call'[c].plan = call[c].plan
         /\ \A d \in Calls \ {c} :
              /\ call'[d].pc = call[d].pc /\ call'[d].op = call[d].op /\ call'[d].email = call[d].email
              /\ call'[d].code = call[d].code /\ call'[d].plan = call[d].plan
              /\ call'[d].result = call[d].result
              /\ call[d].active => call'[d].active
              /\ call[d].email = e /\ row.status = "active" => call'[d].active
  <1> DEFINE noted(d) == call[d].active \/ (call[d].email = e /\ row.status = "active")
             seen(d)  == [call[d] EXCEPT !.active = @ \/ (call[d].email = e /\ row.status = "active")]
  <1>1. \A d \in Calls : call'[d] = IF d = c THEN Ended(seen(d), "ok") ELSE seen(d)
    BY DEF WriteUser
  <1>2. ASSUME NEW d \in Calls
        PROVE  /\ seen(d) \in Called
               /\ seen(d).pc = call[d].pc /\ seen(d).op = call[d].op /\ seen(d).email = call[d].email
               /\ seen(d).code = call[d].code /\ seen(d).plan = call[d].plan
               /\ seen(d).result = call[d].result
               /\ seen(d).active = noted(d)
    <2>1. call[d] \in Called
      BY CallsTyped
    <2>2. noted(d) \in BOOLEAN
      BY <2>1 DEF Called
    <2>3. seen(d) = [call[d] EXCEPT !.active = noted(d)]
      BY <2>1 DEF Called
    <2>4. QED
      BY <2>1, <2>2, <2>3 DEF Called
  <1> HIDE DEF seen
  <1>3. /\ Ended(seen(c), "ok") \in Called
        /\ Ended(seen(c), "ok").pc = "done" /\ Ended(seen(c), "ok").result = "ok"
        /\ Ended(seen(c), "ok").op = call[c].op /\ Ended(seen(c), "ok").plan = call[c].plan
    BY <1>2, EndedTyped
  <1>4. call' \in [Calls -> Called]
    <2>1. \A d \in Calls : call'[d] \in Called
      BY <1>1, <1>2, <1>3
    <2>2. call' = [d \in Calls |-> call'[d]]
      BY DEF WriteUser
    <2>3. QED
      BY <2>1, <2>2
  <1>5. QED
    BY <1>1, <1>2, <1>3, <1>4

\* A commit disturbs no call but its own.
LEMMA StoreOthers ==
  ASSUME AccountsTypeOK, AccountsInv, NEW c \in Calls, NEW e \in Emails,
         NEW row \in Account, WriteUser(c, e, row),
         row.status # "none",
         \A k \in DOMAIN codes : k \in DOMAIN codes' /\ codes'[k].email = codes[k].email,
         \A d \in Calls \ {c} : (d \in set' <=> d \in set) /\ (d \in granted' <=> d \in granted),
         \A d \in Calls \ {c} : InTransaction(call[d]) => call[d].email # e
  PROVE  (\A d \in Calls \ {c} : Sound(d, call[d])') /\ Alone'
  <1>1. \A f \in Emails : users'[f] = IF f = e THEN row ELSE users[f]
    BY DEF WriteUser, AccountsTypeOK
  <1>2. \A f \in Emails : Exists(f)' <=> Exists(f) \/ f = e
    BY <1>1 DEF Exists
  <1>3. \A f \in Emails : IsActive(f)' <=> IF f = e THEN row.status = "active" ELSE IsActive(f)
    BY <1>1 DEF IsActive
  <1>4. ASSUME NEW d \in Calls \ {c} PROVE Sound(d, call[d])'
    <2>1. PICK q, r : q = call[d] /\ r = call'[d]
      OBVIOUS
    <2>2. /\ r.pc = q.pc /\ r.op = q.op /\ r.email = q.email /\ r.code = q.code /\ r.plan = q.plan
          /\ r.result = q.result /\ (q.active => r.active) /\ (q.email = e /\ row.status = "active" => r.active)
      BY <2>1, StoreCalls
    <2>3. Sound(d, q)
      BY <2>1 DEF AccountsInv, CallsSound
    <2>4. r.pc \notin {"idle", "done"} => r.email \in Emails /\ (IsActive(r.email)' => r.active)
      BY <1>3, <2>2, <2>3 DEF Sound
    <2>5. r.pc = "insert" \/ InTransaction(r) => r.code \in DOMAIN codes' /\ codes'[r.code].email = r.email
      BY <2>2, <2>3 DEF Sound, InTransaction
    <2>6. InTransaction(r) => ~Exists(r.email)'
      <3>1. InTransaction(r) => InTransaction(q) /\ q.email \in Emails /\ q.email # e
        BY <2>1, <2>2, <2>3 DEF InTransaction, Sound
      <3>2. InTransaction(q) => ~Exists(q.email)
        BY <2>3 DEF Sound
      <3>3. QED
        BY <1>2, <2>2, <3>1, <3>2
    <2>7. r.op = "update" /\ r.pc \in {"plan", "commit"} => Exists(r.email)'
      <3>1. r.op = "update" /\ r.pc \in {"plan", "commit"} => r.email \in Emails /\ Exists(r.email)
        BY <2>2, <2>3 DEF Sound
      <3>2. QED
        BY <1>2, <3>1
    <2>8. /\ r.pc \in {"check", "insert", "spend"} => r.op = "register"
          /\ r.pc = "commit" => r.op \in {"register", "update"}
          /\ r.pc \in {"read", "session"} => r.op = "login"
          /\ r.pc \in {"set", "plan"} => r.op = "update"
          /\ r.pc \in {"auth", "act"} => r.op = "request"
          /\ r.pc # "done" => r.result = "" /\ d \notin set' \cup granted'
          /\ r.op = "request" /\ (r.pc = "act" \/ r.result = "ok") => r.active
          /\ r.result = "refused" => d \notin set' \cup granted'
          /\ d \in set' /\ r.plan => d \in granted'
      BY <2>2, <2>3 DEF Sound
    <2>9. Sound(d, r)'
      BY <2>4, <2>5, <2>6, <2>7, <2>8 DEF Sound, InTransaction
    <2>10. QED
      BY <2>1, <2>9
  <1>5. ~InTransaction(call'[c])
    BY StoreCalls DEF InTransaction
  <1>6. \A d \in Calls \ {c} : /\ InTransaction(call'[d]) <=> InTransaction(call[d])
                               /\ call'[d].email = call[d].email
    BY StoreCalls DEF InTransaction
  <1>7. Alone'
    BY <1>5, <1>6 DEF AccountsInv, Alone, InTransaction
  <1>8. QED
    BY <1>4, <1>7

LEMMA CommitUserStep ==
  ASSUME AccountsTypeOK, AccountsInv, NEW c \in Calls, CommitUser(c)
  PROVE  AccountsTypeOK' /\ AccountsInv'
  <1>1. PICK e, k : e = call[c].email /\ k = call[c].code
    OBVIOUS
  <1>2. /\ call[c].pc = "commit" /\ call[c].op = "register"
        /\ codes' = [codes EXCEPT ![k].state = "used"]
        /\ WriteUser(c, e, [status |-> "active", code |-> k])
        /\ UNCHANGED <<mailed, sessions, set, granted>>
    BY <1>1 DEF CommitUser, CallAt, Spent
  <1>3. InTransaction(call[c]) /\ Sound(c, call[c])
    BY <1>2 DEF InTransaction, AccountsInv, CallsSound
  <1>4. e \in Emails /\ k \in DOMAIN codes /\ codes[k].email = e /\ ~Exists(e)
    BY <1>1, <1>2, <1>3 DEF Sound
  <1>5. PICK row : row = [status |-> "active", code |-> k]
    OBVIOUS
  <1>6. row \in Account /\ row.status = "active" /\ row.code = k
    <2>1. k \in 0..MaxCodes
      BY <1>1, CallsTyped DEF Called
    <2>2. QED
      BY <1>5, <2>1 DEF Account, UserStatuses
  <1>7. PICK n \in 0..MaxCodes : codes \in [1..n -> Coded]
    BY DEF AccountsTypeOK, Coded
  <1>8. [codes[k] EXCEPT !.state = "used"] \in Coded
    BY <1>4, <1>7 DEF Coded
  <1>9. /\ codes' \in [1..n -> Coded] /\ DOMAIN codes' = DOMAIN codes
        /\ \A j \in DOMAIN codes : j # k => codes'[j] = codes[j]
        /\ codes'[k] = [codes[k] EXCEPT !.state = "used"]
    BY <1>2, <1>4, <1>7, <1>8
  <1>10. codes'[k].email = e /\ codes'[k].state = "used"
    BY <1>4, <1>7, <1>9 DEF Coded
  <1>11. \A d \in Calls \ {c} : InTransaction(call[d]) => call[d].email # e
    BY <1>1, <1>3 DEF AccountsInv, Alone
  <1>12. WriteUser(c, e, row)
    BY <1>2, <1>5
  <1>13. (\A d \in Calls \ {c} : Sound(d, call[d])') /\ Alone'
    BY <1>2, <1>4, <1>6, <1>9, <1>10, <1>11, <1>12, StoreOthers
  <1>14. Sound(c, call[c])'
    <2>1. PICK r : r = call'[c]
      OBVIOUS
    <2>2. r.pc = "done" /\ r.result = "ok" /\ r.op = "register"
      BY <1>2, <1>4, <1>6, <1>12, <2>1, StoreCalls
    <2>3. c \notin set'
      BY <1>2, <1>3 DEF Sound
    <2>4. Sound(c, r)'
      BY <2>2, <2>3 DEF Sound, InTransaction
    <2>5. QED
      BY <2>1, <2>4
  <1>15. CallsSound'
    BY <1>13, <1>14 DEF CallsSound
  <1>16. users' = [users EXCEPT ![e] = row]
    BY <1>12 DEF WriteUser
  <1>17. \A f \in Emails : users'[f] = IF f = e THEN row ELSE users[f]
    BY <1>16 DEF AccountsTypeOK
  <1>18. users[e].code = 0
    BY <1>4 DEF AccountsInv, UsersCoded, Exists
  <1>19. UsersCoded'
    <2>1. \A j \in DOMAIN codes : j \in DOMAIN codes' /\ codes'[j].email = codes[j].email
      BY <1>4, <1>9, <1>10
    <2>2. ASSUME NEW f \in Emails, f # e
          PROVE  /\ users'[f].code # 0 => users'[f].code \in DOMAIN codes' /\ codes'[users'[f].code].email = f
                 /\ users'[f].status = "none" => users'[f].code = 0
      BY <1>17, <2>1, <2>2 DEF AccountsInv, UsersCoded
    <2>3. users'[e].code = k /\ users'[e].status # "none"
      BY <1>4, <1>6, <1>17
    <2>4. QED
      BY <1>4, <2>1, <2>2, <2>3 DEF UsersCoded
  <1>20. CodeSpentWithAccount'
    <2> SUFFICES ASSUME NEW j \in DOMAIN codes'
                 PROVE  codes'[j].state = "used" <=> users'[codes'[j].email].code = j
      BY DEF CodeSpentWithAccount
    <2>1. CASE j = k
      BY <1>4, <1>6, <1>10, <1>17, <2>1
    <2>2. CASE j # k
      <3>1. /\ codes'[j] = codes[j] /\ codes[j].email \in Emails /\ j # 0
            /\ codes[j].state = "used" <=> users[codes[j].email].code = j
        BY <1>7, <1>9, <2>2 DEF Coded, AccountsInv, CodeSpentWithAccount
      <3>2. QED
        BY <1>6, <1>17, <1>18, <2>2, <3>1
    <2>3. QED
      BY <2>1, <2>2
  <1>21. AccountsTypeOK'
    <2>1. call' \in [Calls -> Called]
      BY <1>4, <1>6, <1>12, StoreCalls
    <2>2. users' \in [Emails -> Account]
      BY <1>6, <1>16 DEF AccountsTypeOK, Account
    <2>3. QED
      BY <1>2, <1>9, <2>1, <2>2 DEF AccountsTypeOK, Called, Coded, Account
  <1>22. QED
    BY <1>13, <1>15, <1>19, <1>20, <1>21 DEF AccountsInv

LEMMA CommitUpdateStep ==
  ASSUME AccountsTypeOK, AccountsInv, NEW c \in Calls, CommitUpdate(c)
  PROVE  AccountsTypeOK' /\ AccountsInv'
  <1>1. PICK e, u, row : /\ e = call[c].email /\ u = users[e]
                         /\ row = IF call[c].status = "" THEN u ELSE [u EXCEPT !.status = call[c].status]
    OBVIOUS
  <1>2. /\ call[c].pc = "commit" /\ call[c].op = "update"
        /\ WriteUser(c, e, row)
        /\ set' = IF call[c].status = "" THEN set ELSE set \cup {c}
        /\ granted' = IF call[c].plan THEN granted \cup {c} ELSE granted
        /\ UNCHANGED <<codes, mailed, sessions>>
    BY <1>1 DEF CommitUpdate, CallAt
  <1>3. Sound(c, call[c]) /\ call[c] \in Called
    BY CallsTyped DEF AccountsInv, CallsSound
  <1>4. e \in Emails /\ Exists(e)
    BY <1>1, <1>2, <1>3 DEF Sound
  <1>5. u \in Account /\ u.status # "none"
    BY <1>1, <1>4, UsersTyped DEF Exists
  <1>6. row \in Account /\ row.status # "none" /\ row.code = u.code
    <2>1. CASE call[c].status = ""
      BY <1>1, <1>5, <2>1
    <2>2. CASE call[c].status # ""
      <3>1. PICK status \in UserStatuses : status = call[c].status
        BY <1>3, <2>2 DEF Called
      <3>2. row = [u EXCEPT !.status = status]
        BY <1>1, <2>2, <3>1
      <3>3. status # "none"
        BY DEF UserStatuses
      <3>4. QED
        BY <1>5, <3>2, <3>3 DEF Account
    <2>3. QED
      BY <2>1, <2>2
  <1>7. \A d \in Calls \ {c} : InTransaction(call[d]) => call[d].email # e
    BY <1>4 DEF AccountsInv, CallsSound, Sound
  <1>8. \A d \in Calls \ {c} : (d \in set' <=> d \in set) /\ (d \in granted' <=> d \in granted)
    BY <1>2
  <1>9. (\A d \in Calls \ {c} : Sound(d, call[d])') /\ Alone'
    BY <1>2, <1>4, <1>6, <1>7, <1>8, StoreOthers
  <1>10. Sound(c, call[c])'
    <2>1. PICK r : r = call'[c]
      OBVIOUS
    <2>2. r.pc = "done" /\ r.result = "ok" /\ r.op = "update" /\ r.plan = call[c].plan
      BY <1>2, <1>4, <1>6, <2>1, StoreCalls
    <2>3. c \in set' /\ r.plan => c \in granted'
      BY <1>2, <2>2
    <2>4. Sound(c, r)'
      BY <2>2, <2>3 DEF Sound, InTransaction
    <2>5. QED
      BY <2>1, <2>4
  <1>11. CallsSound'
    BY <1>9, <1>10 DEF CallsSound
  <1>12. users' = [users EXCEPT ![e] = row]
    BY <1>2 DEF WriteUser
  <1>13. \A f \in Emails : /\ users'[f].code = users[f].code
                           /\ users'[f].status = "none" => users[f].status = "none"
    BY <1>1, <1>6, <1>12 DEF AccountsTypeOK
  <1>14. UsersCoded'
    <2> SUFFICES ASSUME NEW f \in Emails
                 PROVE  /\ users'[f].code # 0 => users'[f].code \in DOMAIN codes' /\ codes'[users'[f].code].email = f
                        /\ users'[f].status = "none" => users'[f].code = 0
      BY DEF UsersCoded
    <2>1. /\ users[f].code # 0 => users[f].code \in DOMAIN codes /\ codes[users[f].code].email = f
          /\ users[f].status = "none" => users[f].code = 0
      BY DEF AccountsInv, UsersCoded
    <2>2. codes' = codes
      BY <1>2
    <2>3. QED
      BY <1>13, <2>1, <2>2
  <1>15. CodeSpentWithAccount'
    <2>1. \A k \in DOMAIN codes : codes[k].email \in Emails
      BY CodesTyped DEF Coded
    <2>2. codes' = codes
      BY <1>2
    <2>3. ASSUME NEW k \in DOMAIN codes PROVE codes[k].state = "used" <=> users'[codes[k].email].code = k
      BY <1>13, <2>1 DEF AccountsInv, CodeSpentWithAccount
    <2>4. QED
      BY <2>2, <2>3 DEF CodeSpentWithAccount
  <1>16. AccountsTypeOK'
    <2>1. call' \in [Calls -> Called]
      BY <1>2, <1>4, <1>6, StoreCalls
    <2>2. users' \in [Emails -> Account]
      BY <1>6, <1>12 DEF AccountsTypeOK, Account
    <2>3. set' \subseteq Calls /\ granted' \subseteq Calls
      BY <1>2 DEF AccountsTypeOK
    <2>4. QED
      BY <1>2, <2>1, <2>2, <2>3 DEF AccountsTypeOK, Called, Account
  <1>17. QED
    BY <1>9, <1>11, <1>14, <1>15, <1>16 DEF AccountsInv

-----------------------------------------------------------------------------
(* Accounts: the theorems                                                  *)

LEMMA AccountsInvInit == AccountsInit => AccountsTypeOK /\ AccountsInv
  <1> SUFFICES ASSUME AccountsInit PROVE AccountsTypeOK /\ AccountsInv
    OBVIOUS
  <1>0. 0 \in 0..MaxCodes
    OBVIOUS
  <1>1. codes \in [1..0 -> Coded] /\ DOMAIN codes = {}
    BY DEF AccountsInit
  <1>2. call \in [Calls -> Called] /\ \A c \in Calls : call[c] = Idle
    BY IdleCalled DEF AccountsInit
  <1>3. users \in [Emails -> Account] /\ \A e \in Emails : users[e].code = 0
    BY <1>0 DEF AccountsInit, Account, UserStatuses
  <1>4. AccountsTypeOK
    BY <1>0, <1>1, <1>2, <1>3 DEF AccountsInit, AccountsTypeOK, Coded, Called, Account
  <1>5. CallsSound /\ Alone
    <2>1. Idle.pc = "idle" /\ Idle.op = "none" /\ Idle.result = ""
      BY DEF Idle
    <2>2. ASSUME NEW c \in Calls PROVE Sound(c, Idle)
      BY <2>1 DEF Sound, InTransaction, AccountsInit
    <2>3. QED
      BY <1>2, <2>1, <2>2 DEF CallsSound, Alone, InTransaction
  <1>6. UsersCoded /\ CodeSpentWithAccount
    BY <1>1, <1>3 DEF UsersCoded, CodeSpentWithAccount
  <1>7. QED
    BY <1>4, <1>5, <1>6 DEF AccountsInv

LEMMA AccountsInvNext == AccountsTypeOK /\ AccountsInv /\ [AccountsNext]_(accountsVars) => AccountsTypeOK' /\ AccountsInv'
  <1> SUFFICES ASSUME AccountsTypeOK, AccountsInv, [AccountsNext]_(accountsVars) PROVE AccountsTypeOK' /\ AccountsInv'
    OBVIOUS
  <1>1. ASSUME NEW c \in Calls, Step(c) PROVE AccountsTypeOK' /\ AccountsInv'
    BY <1>1, RegisterStep, CommitUserStep, SessionStep, UpdateStep, CommitUpdateStep DEF Step
  <1>2. ASSUME UNCHANGED <<codes, mailed, users, call, set, granted>>, sessions' \subseteq Emails
        PROVE  AccountsTypeOK' /\ AccountsInv'
    <2>1. AccountsTypeOK'
      BY <1>2 DEF AccountsTypeOK
    <2>2. CallsSound'
      BY <1>2 DEF AccountsInv, CallsSound, Sound, InTransaction, IsActive, Exists
    <2>3. Alone' /\ UsersCoded' /\ CodeSpentWithAccount'
      BY <1>2 DEF AccountsInv, Alone, InTransaction, UsersCoded, CodeSpentWithAccount
    <2>4. QED
      BY <2>1, <2>2, <2>3 DEF AccountsInv
  <1>3. ASSUME NEW e \in Emails, ExpireSession(e) PROVE AccountsTypeOK' /\ AccountsInv'
    BY <1>2, <1>3 DEF ExpireSession, AccountsTypeOK
  <1>4. CASE UNCHANGED accountsVars
    BY <1>2, <1>4 DEF accountsVars, AccountsTypeOK
  <1>5. QED
    BY <1>1, <1>3, <1>4, LoseStep, ArriveSound, SendCodeStep, ExpireCodeStep DEF AccountsNext

LEMMA AccountsInvariant == AccountsSpec => [](AccountsTypeOK /\ AccountsInv)
  BY AccountsInvInit, AccountsInvNext, PTL DEF AccountsSpec

\* Whatever calls overlap and wherever they fail, the tables and the calls have their
\* types: an account is disabled or active, and codes are numbered without gaps.
THEOREM AccountsTypeCorrect == AccountsSpec => []AccountsTypeOK
  BY AccountsInvariant, PTL

\* However many registrations with one code or one address overlap, and wherever each
\* ends, a code is spent exactly when it made the account of its address (Register: the
\* user and the code in one transaction, the unique address, the spending ignored).
THEOREM CodesSpentWithAccounts == AccountsSpec => []CodeSpentWithAccount
  BY AccountsInvariant, PTL DEF AccountsInv

\* An administrator's update that was refused for its plan left the user's status and
\* subscription alone, and one that set a status granted the plan it came with, however
\* the calls overlap (UpdateUser).
THEOREM UpdatesAreAtomic == AccountsSpec => []UpdateIsAtomic
  <1>1. AccountsInv => UpdateIsAtomic
    BY DEF AccountsInv, CallsSound, Sound, UpdateIsAtomic
  <1>2. QED
    BY <1>1, AccountsInvariant, PTL

\* A request that arrives when its user is disabled gets nothing done, whatever sessions
\* there were and whichever login was half way (UserByToken, Login).
THEOREM DisabledGetNothing == AccountsSpec => []DisabledStayOut
  <1>1. AccountsInv => DisabledStayOut
    BY DEF AccountsInv, CallsSound, Sound, DisabledStayOut
  <1>2. QED
    BY <1>1, AccountsInvariant, PTL

-----------------------------------------------------------------------------
(* Client configuration: types, and what no step does to a tunnel          *)

Tables ==
  /\ nodes \in [DOMAIN nodes -> BOOLEAN] /\ DOMAIN nodes \subseteq Nodes
  /\ DOMAIN tunnels \subseteq Ids /\ tunnels \in [DOMAIN tunnels -> Tunnel]
  /\ sub \in [status : {"none", "active", "expired"}, band : Bandwidths \cup {0}]

SyncRecord == [pc : {"idle", "plan", "tunnels", "node", "write"}, only : Ids \cup {0}, band : Bandwidths \cup {0},
             running : SUBSET Ids, chosen : Places, server : Places, w : Window]

LEMMA BandNat == \A b \in Bandwidths \cup {0} : b \in Nat
  OBVIOUS

LEMMA KBytesBound ==
  ASSUME NEW b \in Nat
  PROVE  /\ KBytes(b) \in Nat
         /\ b = 0 => KBytes(b) = 0
         /\ b > 0 => KBytes(b) > 0 /\ 8 * KBytes(b) < b + 8
  BY DEF KBytes

LEMMA NewTyped == ASSUME Tables' PROVE NewWindow' \in Window
  BY DEF Tables, NewWindow, Window, Undeleted, Running, Band

LEMMA WidenedTyped ==
  ASSUME Tables', NEW w \in Window, sync.w = w
  PROVE  Widened(sync.w) \in Window
  BY DEF Tables, Widened, Window, Undeleted, Running, Band

LEMMA ChangeTyped ==
  ASSUME TypeOK, Tables', Change
  PROVE  TypeOK'
  <1>1. sync' \in SyncRecord
    <2>1. sync \in SyncRecord /\ sync.w \in Window
      BY DEF TypeOK, SyncRecord
    <2>2. Widened(sync.w) \in Window
      BY <2>1, WidenedTyped
    <2>3. [sync EXCEPT !.w = Widened(sync.w)] \in SyncRecord
      BY <2>1, <2>2 DEF SyncRecord
    <2>4. QED
      BY <2>1, <2>3 DEF Change
  <1>2. changes' \in 0..MaxChanges
    BY DEF Change, TypeOK
  <1>3. QED
    BY <1>1, <1>2 DEF Change, TypeOK, Tables, SyncRecord

LEMMA WithoutTyped ==
  ASSUME Tables, NEW S
  PROVE  /\ DOMAIN Without(S) = DOMAIN tunnels
         /\ \A i \in DOMAIN tunnels : /\ Without(S)[i] \in Tunnel
                                      /\ Without(S)[i] = IF i \in S THEN [tunnels[i] EXCEPT !.status = "deleted"]
                                                         ELSE tunnels[i]
  BY DEF Tables, Without, Tunnel

\* What makes a record of the user's tunnels the same tunnel.
SameTunnel(t, u) == t.node = u.node /\ t.own = u.own /\ t.speedTest = u.speedTest /\ t.granted = u.granted

\* A tunnel keeps its node, its limit and its kind, and its record is never removed.
Steady == \A i \in DOMAIN tunnels : i \in DOMAIN tunnels' /\ SameTunnel(tunnels'[i], tunnels[i])

\* The limit that the user set was within the plan of the day.
Bounded(t) == t.own > 0 => t.own <= t.granted

\* What a step makes of the tunnels: none changes its identity, and a new one is within the plan.
Onward ==
  /\ Tables'
  /\ Steady
  /\ \A i \in DOMAIN tunnels' \ DOMAIN tunnels : Bounded(tunnels'[i])

LEMMA WithoutOnward ==
  ASSUME Tables, NEW S, tunnels' = Without(S), UNCHANGED <<nodes, sub>>
  PROVE  Onward
  <1>1. /\ DOMAIN tunnels' = DOMAIN tunnels
        /\ \A i \in DOMAIN tunnels : tunnels'[i] \in Tunnel
    BY WithoutTyped
  <1>2. tunnels' \in [DOMAIN tunnels' -> Tunnel]
    BY <1>1 DEF Without
  <1>3. Tables'
    BY <1>1, <1>2 DEF Tables
  <1>4. ASSUME NEW i \in DOMAIN tunnels
        PROVE  SameTunnel(tunnels'[i], tunnels[i])
    <2>1. tunnels[i] \in Tunnel
      BY DEF Tables
    <2>2. tunnels'[i] = IF i \in S THEN [tunnels[i] EXCEPT !.status = "deleted"] ELSE tunnels[i]
      BY WithoutTyped
    <2>3. QED
      BY <2>1, <2>2 DEF SameTunnel, Tunnel
  <1>5. QED
    BY <1>1, <1>3, <1>4 DEF Onward, Steady

LEMMA SameOnward ==
  ASSUME Tables', tunnels' = tunnels
  PROVE  Onward
  BY DEF Onward, Steady, SameTunnel

LEMMA CreateOnward ==
  ASSUME Tables, NEW n \in Places, NEW own \in Bandwidths, NEW speedTest \in BOOLEAN,
         NEW blank \in BOOLEAN,
         CreateTunnel(n, own, speedTest, blank)
  PROVE  Onward
  <1> DEFINE new == [node |-> n, own |-> own, speedTest |-> speedTest, blank |-> blank,
                     status |-> "active", granted |-> sub.band]
  <1>1. new \in Tunnel /\ Bounded(new)
    BY DEF Tables, Tunnel, Bounded, CreateTunnel, BandwidthAllowed
  <1>2. PICK i \in Ids \ DOMAIN tunnels, S \in Overdue :
          tunnels' = [j \in DOMAIN tunnels \cup {i} |-> IF j = i THEN new ELSE Without(S)[j]]
    BY DEF CreateTunnel
  <1> HIDE DEF new
  <1>3. /\ DOMAIN tunnels' = DOMAIN tunnels \cup {i}
        /\ tunnels'[i] = new
        /\ \A j \in DOMAIN tunnels : tunnels'[j] = Without(S)[j]
    BY <1>2
  <1>4. \A j \in DOMAIN tunnels' : tunnels'[j] \in Tunnel
    BY <1>1, <1>3, WithoutTyped
  <1>5. Tables'
    <2>1. tunnels' \in [DOMAIN tunnels' -> Tunnel]
      BY <1>2, <1>4
    <2>2. DOMAIN tunnels' \subseteq Ids
      BY <1>3 DEF Tables
    <2>3. UNCHANGED <<nodes, sub>>
      BY DEF CreateTunnel
    <2>4. QED
      BY <2>1, <2>2, <2>3 DEF Tables
  <1>6. Steady
    <2> SUFFICES ASSUME NEW j \in DOMAIN tunnels PROVE j \in DOMAIN tunnels' /\ SameTunnel(tunnels'[j], tunnels[j])
      BY DEF Steady
    <2>1. tunnels[j] \in Tunnel
      BY DEF Tables
    <2>2. tunnels'[j] = IF j \in S THEN [tunnels[j] EXCEPT !.status = "deleted"] ELSE tunnels[j]
      BY <1>3, WithoutTyped
    <2>3. j \in DOMAIN tunnels'
      BY <1>3
    <2>4. SameTunnel(tunnels'[j], tunnels[j])
      BY <2>1, <2>2 DEF SameTunnel, Tunnel
    <2>5. QED
      BY <2>3, <2>4
  <1>7. QED
    BY <1>1, <1>3, <1>5, <1>6 DEF Onward

\* The steps of the user, the administrator and the clock.
Environment ==
  \/ \E n \in Places, own \in Bandwidths, speedTest, blank \in BOOLEAN : CreateTunnel(n, own, speedTest, blank)
  \/ \E i \in Ids : DeleteTunnel(i)
  \/ \E i \in Ids, status \in {"active", "disabled"} : UpdateTunnelStatus(i, status)
  \/ \E band \in Bandwidths : Grant(band)
  \/ RunOut
  \/ \E n \in Nodes : BindNode(n) \/ DeleteNode(n)

LEMMA EnvironmentOnward == TypeOK /\ Environment => Onward /\ Change
  <1> SUFFICES ASSUME TypeOK, Environment PROVE Onward /\ Change
    OBVIOUS
  <1>0. Tables
    BY DEF TypeOK, Tables
  <1>1. ASSUME NEW n \in Places, NEW own \in Bandwidths, NEW speedTest \in BOOLEAN,
               NEW blank \in BOOLEAN,
               CreateTunnel(n, own, speedTest, blank)
        PROVE  Onward /\ Change
    BY <1>0, <1>1, CreateOnward DEF CreateTunnel
  <1>2. ASSUME NEW i \in Ids, DeleteTunnel(i) PROVE Onward /\ Change
    BY <1>0, <1>2, WithoutOnward DEF DeleteTunnel
  <1>3. ASSUME NEW i \in Ids, NEW status \in {"active", "disabled"}, UpdateTunnelStatus(i, status)
        PROVE  Onward /\ Change
    <2>1. i \in DOMAIN tunnels /\ tunnels' = [tunnels EXCEPT ![i].status = status] /\ UNCHANGED <<nodes, sub>> /\ Change
      BY <1>3 DEF UpdateTunnelStatus, Undeleted
    <2>2. /\ DOMAIN tunnels' = DOMAIN tunnels
          /\ tunnels'[i] = [tunnels[i] EXCEPT !.status = status]
          /\ \A j \in DOMAIN tunnels : j # i => tunnels'[j] = tunnels[j]
      BY <1>0, <2>1 DEF Tables
    <2>3. \A j \in DOMAIN tunnels : tunnels'[j] \in Tunnel /\ SameTunnel(tunnels'[j], tunnels[j])
      <3> SUFFICES ASSUME NEW j \in DOMAIN tunnels PROVE tunnels'[j] \in Tunnel /\ SameTunnel(tunnels'[j], tunnels[j])
        OBVIOUS
      <3>1. tunnels[j] \in Tunnel
        BY <1>0 DEF Tables
      <3>2. QED
        BY <2>2, <3>1 DEF Tunnel, SameTunnel
    <2>4. tunnels' \in [DOMAIN tunnels' -> Tunnel]
      BY <1>0, <2>1, <2>2, <2>3 DEF Tables
    <2>5. QED
      BY <1>0, <2>1, <2>2, <2>3, <2>4 DEF Onward, Steady, Tables
  <1>4. ASSUME NEW band \in Bandwidths, Grant(band) PROVE Onward /\ Change
    <2>1. Tables'
      BY <1>0, <1>4 DEF Grant, Tables
    <2>2. QED
      BY <1>4, <2>1, SameOnward DEF Grant
  <1>5. ASSUME RunOut PROVE Onward /\ Change
    <2>1. Tables'
      BY <1>0, <1>5 DEF RunOut, Tables
    <2>2. QED
      BY <1>5, <2>1, SameOnward DEF RunOut
  <1>6. ASSUME NEW n \in Nodes, BindNode(n) \/ DeleteNode(n) PROVE Onward /\ Change
    <2>1. Tables'
      BY <1>0, <1>6 DEF BindNode, DeleteNode, Tables
    <2>2. QED
      BY <1>6, <2>1, SameOnward DEF BindNode, DeleteNode
  <1>7. QED
    BY <1>1, <1>2, <1>3, <1>4, <1>5, <1>6 DEF Environment

LEMMA RequestOnward ==
  ASSUME TypeOK, NEW only \in Ids \cup {0}, Request(only)
  PROVE  Onward /\ TypeOK'
  <1>1. Onward
    BY WithoutOnward DEF Request, TypeOK, Tables
  <1>2. NewWindow' \in Window
    BY <1>1, NewTyped DEF Onward
  <1>3. [IdleSync EXCEPT !.pc = "plan", !.only = only, !.w = NewWindow'] \in SyncRecord
    BY <1>2 DEF IdleSync, SyncRecord, Places
  <1>4. QED
    BY <1>1, <1>3 DEF Request, Onward, TypeOK, Tables, SyncRecord

\* What has been read of the tunnels is about tunnels there are.
RunningKnown == sync.running \subseteq DOMAIN tunnels

LEMMA ConfigNextTyped == TypeOK /\ RunningKnown /\ [Next]_(vars) => TypeOK' /\ Onward
  <1> SUFFICES ASSUME TypeOK, RunningKnown, [Next]_(vars) PROVE TypeOK' /\ Onward
    OBVIOUS
  <1>0. Tables /\ sync \in SyncRecord
    BY DEF TypeOK, Tables, SyncRecord
  <1>1. CASE Environment
    BY <1>1, EnvironmentOnward, ChangeTyped DEF Onward
  <1>2. ASSUME NEW only \in Ids \cup {0}, Request(only) PROVE TypeOK' /\ Onward
    BY <1>2, RequestOnward
  <1>3. ASSUME UNCHANGED <<nodes, tunnels, sub, changes>>, sync' \in SyncRecord,
               file' \in [only : Ids \cup {0}, server : Places, proxies : SUBSET Proxy, w : Window]
        PROVE  TypeOK' /\ Onward
    <2>1. TypeOK'
      BY <1>3 DEF TypeOK, SyncRecord
    <2>2. QED
      BY <1>3, <2>1, SameOnward DEF TypeOK, Tables
  <1>4. CASE ReadSubscription
    <2>1. sync' \in SyncRecord
      BY <1>0, <1>4 DEF ReadSubscription, SyncRecord, Tables, Band
    <2>2. QED
      BY <1>3, <1>4, <2>1 DEF ReadSubscription, TypeOK
  <1>5. CASE ReadTunnels
    <2>1. \A S : Kept(S) \subseteq Ids
      BY <1>0 DEF Kept, Running, Tables
    <2>2. PICK n : /\ n \in IF OnNodes(Filtered(sync.only)) = {} THEN {Platform}
                           ELSE {tunnels[i].node : i \in OnNodes(Filtered(sync.only))}
                   /\ sync' = [sync EXCEPT !.pc = "node", !.running = Kept(Filtered(sync.only)), !.chosen = n]
      BY <1>5 DEF ReadTunnels
    <2>3. n \in Places
      BY <1>0, <2>2 DEF OnNodes, OnNodesOf, Filtered, Undeleted, Tables, Tunnel, Places
    <2>4. sync' \in SyncRecord
      BY <1>0, <2>1, <2>2, <2>3 DEF SyncRecord
    <2>5. QED
      BY <1>3, <1>5, <2>4 DEF ReadTunnels, TypeOK
  <1>6. CASE ReadNode
    <2>1. sync' \in SyncRecord
      BY <1>0, <1>6 DEF ReadNode, SyncRecord, Tables, Address, Places
    <2>2. QED
      BY <1>3, <1>6, <2>1 DEF ReadNode, TypeOK
  <1>7. IdleSync \in SyncRecord
    BY DEF IdleSync, SyncRecord, NoWindow, Window, Places
  <1>8. CASE WriteConfig
    <2>1. ASSUME NEW i \in sync.running PROVE [id |-> i, limit |-> Limit(i)] \in Proxy
      <3>1. tunnels[i] \in Tunnel /\ i \in Ids
        BY <1>0, <2>1 DEF RunningKnown, Tables
      <3>2. tunnels[i].own \in Nat
        BY <3>1 DEF Tunnel
      <3>3. sync.band \in Nat
        <4>1. sync.band \in Bandwidths \cup {0}
          BY <1>0 DEF SyncRecord
        <4>2. QED
          BY <4>1, BandNat
      <3>4. Limit(i) \in Nat
        BY <3>2, <3>3, KBytesBound DEF Limit
      <3>5. QED
        BY <3>1, <3>4 DEF Proxy
    <2>2. {[id |-> i, limit |-> Limit(i)] : i \in sync.running} \in SUBSET Proxy
      BY <2>1
    <2>3. QED
      BY <1>0, <1>3, <1>7, <1>8, <2>2 DEF WriteConfig, SyncRecord
  <1>9. CASE KeepConfig
    BY <1>3, <1>7, <1>9 DEF KeepConfig, TypeOK
  <1>10. CASE UNCHANGED vars
    BY <1>0, <1>3, <1>10 DEF vars, TypeOK
  <1>11. QED
    BY <1>1, <1>2, <1>4, <1>5, <1>6, <1>8, <1>9, <1>10 DEF Next, Environment

-----------------------------------------------------------------------------
(* Client configuration: the invariant.  The window of a request holds all *)
(* that was true of the tables since it began; what the handler has read   *)
(* out of them, and then the file it wrote, is explained by the window.    *)

\* The tunnels of S that a request about only is about.
AboutOf(only, S) == IF only = 0 THEN S ELSE {i \in S : i = only /\ tunnels[i].speedTest}

\* The window holds what there is now, and what has not changed since the request.
Current(w) ==
  /\ Undeleted \subseteq w.present /\ w.present \subseteq DOMAIN tunnels
  /\ Running \subseteq w.seen /\ w.seen \subseteq w.present
  /\ w.stayed \subseteq Running
  /\ Band \in w.bands
  /\ \A n \in w.led : Address(n) = n
  /\ \A n \in w.bare : Address(n) = Platform

\* The tunnels of S are what a request about only may answer.
Answers(only, w, S) == AboutOf(only, w.stayed) \subseteq S /\ S \subseteq AboutOf(only, w.seen)

\* The frps is where a tunnel on n is served.
Dialled(n, server, w) ==
  /\ n = Platform \/ n \in w.bare => server = Platform
  /\ n \in w.led => server = n

\* The frps is where one of the tunnels that the request is about is served.
Chosen(only, w, server) == \E i \in AboutOf(only, w.present) : Dialled(tunnels[i].node, server, w)

\* What the handler has read so far, at each of its steps.
RequestInv ==
  /\ sync.pc = "idle" => sync.running = {}
  /\ sync.pc # "idle" => Current(sync.w)
  /\ sync.pc \notin {"idle", "plan"} => sync.band \in sync.w.bands
  /\ sync.pc \in {"node", "write"} => Answers(sync.only, sync.w, sync.running)
  /\ sync.pc \notin {"node", "write"} => sync.running = {}
  /\ sync.pc = "node" /\ sync.running # {} =>
       \E i \in AboutOf(sync.only, sync.w.present) : tunnels[i].node = sync.chosen
  /\ sync.pc = "write" /\ sync.running # {} => Chosen(sync.only, sync.w, sync.server)

\* What the client is told for t under a plan of b.
LimitOf(t, b) == KBytes(IF t.own > 0 THEN t.own ELSE b)

\* The same of the last file written.
FileInv ==
  /\ file.w.present \subseteq DOMAIN tunnels /\ file.w.seen \subseteq DOMAIN tunnels
  /\ file.w.stayed \subseteq DOMAIN tunnels
  /\ Answers(file.only, file.w, Served)
  /\ file.proxies # {} => Chosen(file.only, file.w, file.server)
  /\ \A p \in file.proxies : \E b \in file.w.bands : p.limit = LimitOf(tunnels[p.id], b)

\* A tunnel's own limit was within the plan of the day it was created.
WithinGranted == \A i \in DOMAIN tunnels : Bounded(tunnels[i])

ConfigInv == RequestInv /\ FileInv /\ WithinGranted

LEMMA AboutSteady ==
  ASSUME Steady, NEW only, NEW S \in SUBSET DOMAIN tunnels
  PROVE  AboutOf(only, S)' = AboutOf(only, S)
  BY DEF Steady, SameTunnel, AboutOf

LEMMA AnswersSteady ==
  ASSUME Steady, NEW only, NEW w, NEW S, Answers(only, w, S),
         w.stayed \subseteq DOMAIN tunnels, w.seen \subseteq DOMAIN tunnels
  PROVE  Answers(only, w, S)'
  BY AboutSteady DEF Answers

LEMMA ChosenSteady ==
  ASSUME Steady, NEW only, NEW w, NEW server, Chosen(only, w, server),
         w.present \subseteq DOMAIN tunnels
  PROVE  Chosen(only, w, server)'
  <1>1. PICK i \in AboutOf(only, w.present) : Dialled(tunnels[i].node, server, w)
    BY DEF Chosen
  <1>2. i \in AboutOf(only, w.present)' /\ i \in DOMAIN tunnels
    BY <1>1, AboutSteady DEF AboutOf
  <1>3. tunnels'[i].node = tunnels[i].node
    BY <1>2 DEF Steady, SameTunnel
  <1>4. QED
    BY <1>1, <1>2, <1>3 DEF Chosen, Dialled

\* A written file stays explained whatever happens to the tunnels.
LEMMA FileSteady ==
  ASSUME TypeOK, Steady, FileInv, file' = file
  PROVE  FileInv'
  <1>1. PICK g : g = file /\ g = file'
    OBVIOUS
  <1>2. DOMAIN tunnels \subseteq DOMAIN tunnels'
    BY DEF Steady
  <1>3. Answers(g.only, g.w, Served)'
    <2>1. PICK S : S = Served /\ S = Served'
      BY DEF Served
    <2>2. Answers(g.only, g.w, S)
      BY <1>1, <2>1 DEF FileInv
    <2>3. Answers(g.only, g.w, S)'
      BY <1>1, <2>2, AnswersSteady DEF FileInv
    <2>4. QED
      BY <2>1, <2>3
  <1>4. g.proxies # {} => Chosen(g.only, g.w, g.server)'
    BY <1>1, ChosenSteady DEF FileInv
  <1>5. ASSUME NEW p \in g.proxies
        PROVE  \E b \in g.w.bands : p.limit = LimitOf(tunnels'[p.id], b)
    <2>1. p.id \in DOMAIN tunnels
      BY <1>1 DEF FileInv, Served, Answers, AboutOf
    <2>2. tunnels'[p.id].own = tunnels[p.id].own
      BY <2>1 DEF Steady, SameTunnel
    <2>3. QED
      BY <1>1, <2>2 DEF FileInv, LimitOf
  <1>6. QED
    BY <1>1, <1>2, <1>3, <1>4, <1>5 DEF FileInv

LEMMA GrantedSteady ==
  ASSUME Onward, WithinGranted
  PROVE  WithinGranted'
  BY DEF Onward, Steady, SameTunnel, WithinGranted, Bounded

-----------------------------------------------------------------------------
(* Client configuration: a request, while others act and as it goes on     *)

LEMMA WidenedCurrent ==
  ASSUME Steady, NEW w, Current(w), NEW k, k = Widened(w)
  PROVE  Current(k)'
  <1>1. /\ k.present = w.present \cup Undeleted' /\ k.seen = w.seen \cup Running'
        /\ k.stayed = w.stayed \cap Running' /\ k.bands = w.bands \cup {Band'}
        /\ k.led = {n \in w.led : Address(n)' = n} /\ k.bare = {n \in w.bare : Address(n)' = Platform}
    BY DEF Widened
  <1>2. Undeleted' \subseteq DOMAIN tunnels' /\ Running' \subseteq Undeleted'
    BY DEF Undeleted, Running
  <1>3. w.present \subseteq DOMAIN tunnels'
    BY DEF Current, Steady
  <1>4. QED
    BY <1>1, <1>2, <1>3 DEF Current

LEMMA WidenedWindow ==
  ASSUME NEW w, NEW k, k = Widened(w)
  PROVE  /\ w.present \subseteq k.present /\ w.seen \subseteq k.seen /\ k.stayed \subseteq w.stayed
         /\ w.bands \subseteq k.bands /\ k.led \subseteq w.led /\ k.bare \subseteq w.bare
  BY DEF Widened

LEMMA ChangeRequest ==
  ASSUME TypeOK, Steady, Change, RequestInv
  PROVE  RequestInv'
  <1>1. CASE sync.pc = "idle"
    BY <1>1 DEF Change, RequestInv
  <1>2. CASE sync.pc # "idle"
    <2>1. PICK q, w, k : /\ q = sync /\ w = q.w /\ k = Widened(w) /\ sync' = [q EXCEPT !.w = k]
      BY <1>2 DEF Change
    <2>2. /\ sync'.w = k /\ sync'.pc = q.pc /\ sync'.band = q.band /\ sync'.running = q.running
          /\ sync'.only = q.only /\ sync'.chosen = q.chosen /\ sync'.server = q.server
      BY <2>1 DEF TypeOK
    <2>3. Current(w)
      BY <1>2, <2>1 DEF RequestInv
    <2>4. Current(k)'
      BY <2>1, <2>3, WidenedCurrent
    <2>5. /\ w.present \subseteq k.present /\ w.seen \subseteq k.seen /\ k.stayed \subseteq w.stayed
          /\ w.bands \subseteq k.bands /\ k.led \subseteq w.led /\ k.bare \subseteq w.bare
      BY <2>1, WidenedWindow
    <2>6. /\ w.present \subseteq DOMAIN tunnels /\ w.seen \subseteq DOMAIN tunnels
          /\ w.stayed \subseteq DOMAIN tunnels
      BY <2>3 DEF Current, Running
    <2>7. \A i \in AboutOf(q.only, w.present) :
            i \in AboutOf(q.only, k.present)' /\ tunnels'[i].node = tunnels[i].node
      BY <2>5, <2>6 DEF AboutOf, Steady, SameTunnel
    <2>8. CASE q.pc \in {"node", "write"}
      <3>1. Answers(q.only, w, q.running)
        BY <2>1, <2>8 DEF RequestInv
      <3>2. Answers(q.only, w, q.running)'
        BY <2>6, <3>1, AnswersSteady
      <3>3. Answers(q.only, k, q.running)'
        BY <2>5, <3>2 DEF Answers, AboutOf
      <3>4. q.pc = "node" /\ q.running # {} =>
              \E i \in AboutOf(q.only, k.present)' : tunnels'[i].node = q.chosen
        BY <2>1, <2>7 DEF RequestInv
      <3>5. q.pc = "write" /\ q.running # {} => Chosen(q.only, k, q.server)'
        <4> SUFFICES ASSUME q.pc = "write", q.running # {} PROVE Chosen(q.only, k, q.server)'
          OBVIOUS
        <4>1. PICK i \in AboutOf(q.only, w.present) : Dialled(tunnels[i].node, q.server, w)
          BY <2>1 DEF RequestInv, Chosen
        <4>2. Dialled(tunnels'[i].node, q.server, k)
          BY <2>5, <2>7, <4>1 DEF Dialled
        <4>3. QED
          BY <2>7, <4>1, <4>2 DEF Chosen, Dialled
      <3>6. q.band \in k.bands
        BY <2>1, <2>5, <2>8 DEF RequestInv
      <3>7. QED
        BY <2>2, <2>4, <2>8, <3>3, <3>4, <3>5, <3>6 DEF RequestInv
    <2>9. CASE q.pc \notin {"node", "write"}
      <3>1. q.pc # "plan" => q.band \in k.bands
        BY <1>2, <2>1, <2>5, <2>9 DEF RequestInv
      <3>2. q.running = {}
        BY <2>1, <2>9 DEF RequestInv
      <3>3. QED
        BY <1>2, <2>1, <2>2, <2>4, <2>9, <3>1, <3>2 DEF RequestInv
    <2>10. QED
      BY <2>8, <2>9
  <1>3. QED
    BY <1>1, <1>2

LEMMA IdleSound == sync = IdleSync => RequestInv
  BY DEF IdleSync, RequestInv

LEMMA RequestSound ==
  ASSUME TypeOK, NEW only \in Ids \cup {0}, Request(only)
  PROVE  RequestInv'
  <1>1. PICK k : k = NewWindow'
    OBVIOUS
  <1>2. sync'.pc = "plan" /\ sync'.running = {} /\ sync'.w = k
    BY <1>1 DEF Request, IdleSync
  <1>3. Current(k)'
    BY <1>1 DEF NewWindow, Current, Undeleted, Running
  <1>4. QED
    BY <1>2, <1>3 DEF RequestInv

LEMMA ReadSubscriptionSound ==
  ASSUME TypeOK, RequestInv, ReadSubscription
  PROVE  RequestInv'
  <1>1. PICK w : w = sync.w
    OBVIOUS
  <1>2. sync'.pc = "tunnels" /\ sync'.running = sync.running /\ sync'.w = w /\ sync'.band = Band
    BY <1>1 DEF ReadSubscription, TypeOK
  <1>3. Current(w) /\ sync.running = {}
    BY <1>1 DEF ReadSubscription, At, RequestInv
  <1>4. Current(w)'
    BY <1>3 DEF ReadSubscription, Current, Undeleted, Running, Band, Address
  <1>5. Band \in w.bands
    BY <1>3 DEF Current
  <1>6. QED
    BY <1>2, <1>3, <1>4, <1>5 DEF RequestInv

LEMMA ReadTunnelsSound ==
  ASSUME TypeOK, RequestInv, ReadTunnels
  PROVE  RequestInv'
  <1>1. PICK w, only, list : w = sync.w /\ only = sync.only /\ list = Filtered(only)
    OBVIOUS
  <1>2. PICK n : /\ n \in IF OnNodes(list) = {} THEN {Platform} ELSE {tunnels[i].node : i \in OnNodes(list)}
                 /\ sync' = [sync EXCEPT !.pc = "node", !.running = Kept(list), !.chosen = n]
    BY <1>1 DEF ReadTunnels
  <1>3. /\ sync'.pc = "node" /\ sync'.running = Kept(list) /\ sync'.w = w /\ sync'.band = sync.band
        /\ sync'.chosen = n /\ sync'.only = only
    BY <1>1, <1>2 DEF TypeOK
  <1>4. Current(w) /\ sync.band \in w.bands
    BY <1>1 DEF ReadTunnels, At, RequestInv
  <1>5. UNCHANGED <<nodes, tunnels, sub>>
    BY DEF ReadTunnels
  <1>6. Current(w)'
    BY <1>4, <1>5 DEF Current, Undeleted, Running, Band, Address
  <1>7. Answers(only, w, Kept(list))
    BY <1>1, <1>4 DEF Current, Answers, AboutOf, Kept, Filtered, Running, Undeleted
  <1>8. list \subseteq AboutOf(only, w.present)
    BY <1>1, <1>4 DEF Current, AboutOf, Filtered
  <1>9. Kept(list) # {} => \E i \in AboutOf(only, w.present) : tunnels[i].node = n
    <2>1. CASE OnNodes(list) = {}
      BY <1>2, <1>8, <2>1 DEF OnNodes, OnNodesOf, Kept
    <2>2. CASE OnNodes(list) # {}
      BY <1>2, <1>8, <2>2 DEF OnNodes, OnNodesOf
    <2>3. QED
      BY <2>1, <2>2
  <1>10. PICK K : K = Kept(list)
    OBVIOUS
  <1>11. Answers(only, w, K)' /\ (K # {} => \E i \in AboutOf(only, w.present)' : tunnels'[i].node = n)
    BY <1>5, <1>7, <1>9, <1>10 DEF Answers, AboutOf
  <1>12. QED
    BY <1>3, <1>4, <1>6, <1>10, <1>11 DEF RequestInv

LEMMA ReadNodeSound ==
  ASSUME TypeOK, RequestInv, ReadNode
  PROVE  RequestInv'
  <1>1. PICK q, w, server : q = sync /\ w = q.w /\ server = Address(q.chosen)
    OBVIOUS
  <1>2. /\ sync'.pc = "write" /\ sync'.running = q.running /\ sync'.w = w /\ sync'.band = q.band
        /\ sync'.server = server /\ sync'.only = q.only
    BY <1>1 DEF ReadNode, TypeOK
  <1>3. q.pc = "node" /\ Current(w) /\ q.band \in w.bands /\ Answers(q.only, w, q.running)
    BY <1>1 DEF ReadNode, At, RequestInv
  <1>4. UNCHANGED <<nodes, tunnels, sub>>
    BY DEF ReadNode
  <1>5. Current(w)' /\ Answers(q.only, w, q.running)'
    BY <1>3, <1>4 DEF Current, Undeleted, Running, Band, Address, Answers, AboutOf
  <1>6. Dialled(q.chosen, server, w)
    <2>1. Address(Platform) = Platform
      BY DEF Address, TypeOK
    <2>2. QED
      BY <1>1, <1>3, <2>1 DEF Dialled, Current
  <1>7. q.running # {} => Chosen(q.only, w, server)'
    <2>1. q.running # {} => \E i \in AboutOf(q.only, w.present) : tunnels[i].node = q.chosen
      BY <1>1, <1>3 DEF RequestInv
    <2>2. QED
      BY <1>4, <1>6, <2>1 DEF Chosen, Dialled, AboutOf
  <1>8. QED
    BY <1>2, <1>3, <1>5, <1>7 DEF RequestInv

LEMMA WriteSound ==
  ASSUME TypeOK, RequestInv, WriteConfig
  PROVE  FileInv'
  <1>1. PICK q, w, S : q = sync /\ w = q.w /\ S = q.running
    OBVIOUS
  <1>2. PICK P : P = {[id |-> i, limit |-> Limit(i)] : i \in S}
    OBVIOUS
  <1>3. file'.only = q.only /\ file'.server = q.server /\ file'.w = w /\ file'.proxies = P
    BY <1>1, <1>2 DEF WriteConfig
  <1>4. /\ Current(w) /\ q.band \in w.bands /\ Answers(q.only, w, S)
        /\ S # {} => Chosen(q.only, w, q.server)
    BY <1>1 DEF WriteConfig, At, RequestInv
  <1>5. {p.id : p \in P} = S /\ (P # {} => S # {})
    <2>1. \A i \in S : \E p \in P : p.id = i
      <3> SUFFICES ASSUME NEW i \in S PROVE \E p \in P : p.id = i
        OBVIOUS
      <3>1. [id |-> i, limit |-> Limit(i)] \in P
        BY <1>2
      <3>2. [id |-> i, limit |-> Limit(i)].id = i
        OBVIOUS
      <3>3. QED
        BY <3>1, <3>2
    <2>2. \A p \in P : p.id \in S
      BY <1>2
    <2>3. QED
      BY <2>1, <2>2
  <1>6. \A p \in P : p.limit = LimitOf(tunnels[p.id], q.band)
    BY <1>1, <1>2 DEF Limit, LimitOf
  <1>7. tunnels' = tunnels
    BY DEF WriteConfig
  <1>8. w.present \subseteq DOMAIN tunnels /\ w.seen \subseteq DOMAIN tunnels /\ w.stayed \subseteq DOMAIN tunnels
    BY <1>4 DEF Current, Running
  <1>9. Answers(q.only, w, S)' /\ (P # {} => Chosen(q.only, w, q.server)')
    BY <1>4, <1>5, <1>7 DEF Answers, Chosen, Dialled, AboutOf
  <1>10. Served' = S
    BY <1>3, <1>5 DEF Served
  <1>11. \A p \in P : \E b \in w.bands : p.limit = LimitOf(tunnels'[p.id], b)
    BY <1>4, <1>6, <1>7
  <1>12. QED
    BY <1>3, <1>7, <1>8, <1>9, <1>10, <1>11 DEF FileInv

LEMMA ConfigInvKnown == TypeOK /\ ConfigInv => RunningKnown
  BY DEF TypeOK, ConfigInv, RequestInv, RunningKnown, Answers, AboutOf, Current

LEMMA ConfigInvNext == TypeOK /\ ConfigInv /\ [Next]_(vars) => TypeOK' /\ ConfigInv'
  <1> SUFFICES ASSUME TypeOK, ConfigInv, [Next]_(vars) PROVE TypeOK' /\ ConfigInv'
    OBVIOUS
  <1>1. TypeOK' /\ Onward /\ Steady
    BY ConfigNextTyped, ConfigInvKnown DEF Onward
  <1>2. WithinGranted'
    BY <1>1, GrantedSteady DEF ConfigInv
  <1>3. CASE Environment
    <2>1. Change
      BY <1>3, EnvironmentOnward
    <2>2. RequestInv'
      BY <1>1, <2>1, ChangeRequest DEF ConfigInv
    <2>3. FileInv'
      BY <1>1, <2>1, FileSteady DEF ConfigInv, Change
    <2>4. QED
      BY <1>1, <1>2, <2>2, <2>3 DEF ConfigInv
  <1>4. ASSUME NEW only \in Ids \cup {0}, Request(only) PROVE RequestInv' /\ FileInv'
    BY <1>1, <1>4, RequestSound, FileSteady DEF ConfigInv, Request
  <1>5. CASE ReadSubscription
    <2>1. RequestInv'
      BY <1>5, ReadSubscriptionSound DEF ConfigInv
    <2>2. FileInv'
      BY <1>1, <1>5, FileSteady DEF ConfigInv, ReadSubscription
    <2>3. QED
      BY <1>1, <1>2, <2>1, <2>2 DEF ConfigInv
  <1>6. CASE ReadTunnels
    <2>1. RequestInv'
      BY <1>6, ReadTunnelsSound DEF ConfigInv
    <2>2. FileInv'
      BY <1>1, <1>6, FileSteady DEF ConfigInv, ReadTunnels
    <2>3. QED
      BY <1>1, <1>2, <2>1, <2>2 DEF ConfigInv
  <1>7. CASE ReadNode
    <2>1. RequestInv'
      BY <1>7, ReadNodeSound DEF ConfigInv
    <2>2. FileInv'
      BY <1>1, <1>7, FileSteady DEF ConfigInv, ReadNode
    <2>3. QED
      BY <1>1, <1>2, <2>1, <2>2 DEF ConfigInv
  <1>8. (sync = IdleSync)' => RequestInv'
    BY DEF IdleSync, RequestInv
  <1>9. CASE WriteConfig
    <2>1. RequestInv'
      BY <1>8, <1>9 DEF WriteConfig
    <2>2. QED
      BY <1>1, <1>2, <1>9, <2>1, WriteSound DEF ConfigInv
  <1>10. CASE KeepConfig
    <2>1. RequestInv'
      BY <1>8, <1>10 DEF KeepConfig
    <2>2. QED
      BY <1>1, <1>2, <1>10, <2>1, FileSteady DEF ConfigInv, KeepConfig
  <1>11. CASE UNCHANGED vars
    <2>1. FileInv'
      BY <1>1, <1>11, FileSteady DEF ConfigInv, vars
    <2>2. RequestInv'
      BY <1>11 DEF ConfigInv, vars, RequestInv, Current, Answers, Chosen, Dialled, AboutOf, Undeleted, Running,
                   Band, Address
    <2>3. QED
      BY <1>1, <1>2, <2>1, <2>2 DEF ConfigInv
  <1>12. QED
    BY <1>1, <1>2, <1>3, <1>4, <1>5, <1>6, <1>7, <1>9, <1>10, <1>11 DEF Next, Environment, ConfigInv

LEMMA ConfigInvInit == Init => TypeOK /\ ConfigInv
  <1> SUFFICES ASSUME Init PROVE TypeOK /\ ConfigInv
    OBVIOUS
  <1>1. TypeOK
    <2>1. sync \in SyncRecord
      BY DEF Init, IdleSync, SyncRecord, NoWindow, Window, Places
    <2>2. file \in [only : Ids \cup {0}, server : Places, proxies : SUBSET Proxy, w : Window]
      BY DEF Init, NoWindow, Window, Places
    <2>3. sub \in [status : {"none", "active", "expired"}, band : Bandwidths \cup {0}]
      BY DEF Init
    <2>4. QED
      BY <2>1, <2>2, <2>3 DEF Init, TypeOK, SyncRecord
  <1>2. RequestInv
    BY IdleSound DEF Init
  <1>3. FileInv
    <2>1. Served = {}
      BY DEF Init, Served
    <2>2. QED
      BY <2>1 DEF Init, FileInv, NoWindow, Answers, AboutOf
  <1>4. WithinGranted
    BY DEF Init, WithinGranted
  <1>5. QED
    BY <1>1, <1>2, <1>3, <1>4 DEF ConfigInv

LEMMA ConfigInvariant == Spec => [](TypeOK /\ ConfigInv)
  BY ConfigInvInit, ConfigInvNext, PTL DEF Spec

-----------------------------------------------------------------------------
(* Client configuration: the theorems                                      *)

\* Tunnels are on nodes of the platform or on none, limits are those of plans, and a
\* request and the file it writes hold only what can be read (clientTunnels,
\* RenderFRPCConfig).
THEOREM ConfigTypeCorrect == Spec => []TypeOK
  BY ConfigInvariant, PTL

\* A written configuration holds every tunnel that ran all the time of its request and
\* none that did not run at some time in it, for any tunnels and nodes, and any changes
\* between the reads of the handler (clientTunnels).
THEOREM RunningServed == Spec => []RunningAreServed
  <1>1. TypeOK /\ ConfigInv => RunningAreServed
    BY DEF ConfigInv, FileInv, RunningAreServed, Answers, About, AboutOf
  <1>2. QED
    BY <1>1, ConfigInvariant, PTL

\* If the tunnels that a request may be about are all on one node while it runs, its file
\* dials the frps of that node, or the platform's where the node has none, although the
\* node is read after the tunnels and may be bound, deleted or missing by then
\* (clientTunnels, Node).
THEOREM NodeDialled == Spec => []OneNodeIsDialled
  <1>1. ConfigInv => OneNodeIsDialled
    <2> SUFFICES ASSUME ConfigInv, NEW n \in Places, file.proxies # {},
                        {tunnels[i].node : i \in About(file.w.present)} = {n}
                 PROVE  Dialled(n, file.server, file.w)
      BY DEF OneNodeIsDialled, Dialled
    <2>1. PICK i \in AboutOf(file.only, file.w.present) : Dialled(tunnels[i].node, file.server, file.w)
      BY DEF ConfigInv, FileInv, Chosen
    <2>2. i \in About(file.w.present)
      BY <2>1 DEF About, AboutOf
    <2>3. QED
      BY <2>1, <2>2
  <1>2. QED
    BY <1>1, ConfigInvariant, PTL

\* Every limit in a written configuration is the tunnel's own or one of a plan of the time
\* of the request, or of the day the tunnel was created, rounded up to a kilobyte; where
\* there is none, the tunnel sets none and no plan with a bandwidth ran at some time in
\* the request (CreateTunnel, clientTunnels, RenderFRPCConfig).
THEOREM EveryLimitExplained == Spec => []LimitsExplained
  <1>1. TypeOK /\ ConfigInv => LimitsExplained
    <2> SUFFICES ASSUME TypeOK, ConfigInv, NEW p \in file.proxies
                 PROVE  LET t     == tunnels[p.id]
                            Is(b) == b > 0 /\ 8 * p.limit < b + 8
                        IN  IF p.limit = 0 THEN t.own = 0 /\ 0 \in file.w.bands
                            ELSE /\ t.own > 0 => Is(t.own)
                                 /\ \E b \in file.w.bands \cup {t.granted} : Is(b)
      BY DEF LimitsExplained
    <2>1. PICK t : t = tunnels[p.id]
      OBVIOUS
    <2>2. p.id \in DOMAIN tunnels
      BY DEF ConfigInv, FileInv, Served, Answers, AboutOf
    <2>3. t.own \in Nat /\ t.granted \in Nat /\ (t.own > 0 => t.own <= t.granted)
      <3>1. t \in Tunnel
        BY <2>1, <2>2 DEF TypeOK
      <3>2. t.own \in Nat /\ t.granted \in Bandwidths \cup {0}
        BY <3>1 DEF Tunnel
      <3>3. Bounded(t)
        BY <2>1, <2>2 DEF ConfigInv, WithinGranted
      <3>4. QED
        BY <3>2, <3>3, BandNat DEF Bounded
    <2>4. PICK b \in file.w.bands : p.limit = LimitOf(t, b)
      BY <2>1 DEF ConfigInv, FileInv
    <2>5. b \in Nat
      BY BandNat DEF TypeOK, Window
    <2>6. CASE t.own > 0
      <3>1. p.limit = KBytes(t.own)
        BY <2>4, <2>6 DEF LimitOf
      <3>2. p.limit \in Nat /\ p.limit > 0 /\ 8 * p.limit < t.own + 8
        BY <2>3, <2>6, <3>1, KBytesBound
      <3>3. t.granted > 0 /\ 8 * p.limit < t.granted + 8
        BY <2>3, <2>6, <3>2
      <3>4. QED
        BY <2>1, <2>6, <3>2, <3>3
    <2>7. CASE ~(t.own > 0)
      <3>1. p.limit = KBytes(b) /\ t.own = 0
        BY <2>3, <2>4, <2>7 DEF LimitOf
      <3>2. p.limit \in Nat /\ (p.limit = 0 => b = 0) /\ (p.limit # 0 => b > 0 /\ 8 * p.limit < b + 8)
        BY <2>5, <3>1, KBytesBound
      <3>3. QED
        BY <2>1, <2>4, <2>7, <3>1, <3>2
    <2>8. QED
      BY <2>6, <2>7
  <1>2. QED
    BY <1>1, ConfigInvariant, PTL
=============================================================================
