------------------------------ MODULE Accounts ------------------------------
(***************************************************************************)
(* Users, the codes they are mailed and their sessions, as the SQLStore    *)
(* keeps them: registration reads the newest code before the transaction   *)
(* that inserts the user and spends the code, a login reads the user in    *)
(* one statement and inserts the session in another, an administrator's    *)
(* change of status and plan is one transaction, and a request checks its  *)
(* session first and acts afterwards.  A call is cut at every statement by *)
(* the other calls, and ends anywhere with its connection.                 *)
(*                                                                         *)
(* An email stands for its normalised form and its user; passwords are     *)
(* right.  Codes are numbered as they are made, and two of them differ.    *)
(*                                                                         *)
(* Names that other modules have as well carry the prefix Accounts, so     *)
(* that one module can extend this one beside another component's.         *)
(***************************************************************************)
EXTENDS Naturals

CONSTANTS
  Emails,    \* addresses, one user each
  Calls,     \* calls of the API, each made at most once
  MaxCodes,  \* bound: codes made
  None       \* no address

ASSUME AccountsAssumption == MaxCodes \in Nat /\ None \notin Emails

VARIABLES
  codes,     \* table email_verification_codes: number -> address and state; "lost" was never stored
  mailed,    \* the codes whose mail arrived
  users,     \* table users: address -> status, and the code that made the account
  sessions,  \* the addresses with an unexpired row of table sessions
  call,      \* the state of each call
  set,       \* history: the calls that changed a status
  granted    \* history: the calls that inserted a subscription

accountsVars == <<codes, mailed, users, sessions, call, set, granted>>

CodeIds  == 1..MaxCodes
UserStatuses == {"active", "disabled"}
Idle     == [op |-> "none", pc |-> "idle", email |-> None, code |-> 0, status |-> "", plan |-> FALSE,
             result |-> "", active |-> FALSE]

AccountsTypeOK ==
  /\ \E n \in 0..MaxCodes : codes \in [1..n -> [email : Emails, state : {"fresh", "expired", "used", "lost"}]]
  /\ mailed \subseteq DOMAIN codes
  /\ users \in [Emails -> [status : UserStatuses \cup {"none"}, code : 0..MaxCodes]]
  /\ sessions \subseteq Emails
  /\ call \in [Calls -> [op : {"none", "register", "login", "update", "request"},
                         pc : {"idle", "check", "insert", "spend", "read", "session", "set", "plan", "commit", "auth", "act", "done"},
                         email : Emails \cup {None}, code : 0..MaxCodes, status : UserStatuses \cup {""}, plan : BOOLEAN,
                         result : {"", "ok", "refused", "failed"}, active : BOOLEAN]]
  /\ set \subseteq Calls /\ granted \subseteq Calls

AccountsInit ==
  /\ codes = [k \in {} |-> {}] /\ mailed = {}
  /\ users \in [Emails -> [status : {"none", "active"}, code : {0}]]  \* accounts of before
  /\ sessions = {} /\ set = {} /\ granted = {}
  /\ call = [c \in Calls |-> Idle]

CallAt(c, pc) == call[c].pc = pc
Go(c, pc)    == call' = [call EXCEPT ![c].pc = pc]
Ended(r, how) == [r EXCEPT !.pc = "done", !.result = how, !.email = None, !.code = 0, !.status = ""]
End(c, how)  == call' = [call EXCEPT ![c] = Ended(call[c], how)]
Exists(e)    == users[e].status # "none"
IsActive(e)  == users[e].status = "active"

Begin(c, op, pc, e, args) ==
  /\ CallAt(c, "idle")
  /\ call' = [call EXCEPT ![c] = [args EXCEPT !.op = op, !.pc = pc, !.email = e, !.active = IsActive(e)]]
  /\ UNCHANGED <<codes, mailed, users, sessions, set, granted>>

\* The user's row as the transaction of c commits it; calls under way take note.
WriteUser(c, e, row) ==
  /\ users' = [users EXCEPT ![e] = row]
  /\ call' = [d \in Calls |->
       LET seen == [call[d] EXCEPT !.active = @ \/ (call[d].email = e /\ row.status = "active")]
       IN  IF d = c THEN Ended(seen, "ok") ELSE seen]

-----------------------------------------------------------------------------
(* Codes                                                                   *)

\* SendEmailCode ignores a failed INSERT; the mail with the code may get lost.
SendCode(e) ==
  \E k \in CodeIds \ DOMAIN codes, state \in {"fresh", "lost"} :
    /\ \A j \in CodeIds \ DOMAIN codes : k <= j
    /\ codes' = [j \in DOMAIN codes \cup {k} |-> IF j = k THEN [email |-> e, state |-> state] ELSE codes[j]]
    /\ mailed' \in {mailed, mailed \cup {k}}
    /\ UNCHANGED <<users, sessions, call, set, granted>>

\* Ten minutes after it was made; the oldest first.
ExpireCode(k) ==
  /\ codes[k].state = "fresh"
  /\ \A j \in 1..(k - 1) : codes[j].state # "fresh"
  /\ codes' = [codes EXCEPT ![k].state = "expired"]
  /\ UNCHANGED <<mailed, users, sessions, call, set, granted>>

Fresh(e)     == {k \in DOMAIN codes : codes[k].email = e /\ codes[k].state = "fresh"}
Newest(e, k) == k \in Fresh(e) /\ \A j \in Fresh(e) : j <= k

-----------------------------------------------------------------------------
(* Registration                                                            *)

\* The user enters a code from a mail, or a wrong one.
Register(c, e, k) ==
  /\ k \in mailed \cup {0}
  /\ Begin(c, "register", "check", e, [Idle EXCEPT !.code = k])

CheckCode(c) ==
  /\ CallAt(c, "check")
  /\ IF Newest(call[c].email, call[c].code) THEN Go(c, "insert") ELSE End(c, "refused")
  /\ UNCHANGED <<codes, mailed, users, sessions, set, granted>>

\* Another transaction has inserted the address and is not yet committed.
Inserting(c) == \E d \in Calls \ {c} : call[d].op = "register" /\ call[d].pc \in {"spend", "commit"}
                                         /\ call[d].email = call[c].email

\* INSERT INTO users waits for such a transaction and fails if there is the user.
InsertUser(c) ==
  /\ CallAt(c, "insert")
  /\ ~Inserting(c)
  /\ IF Exists(call[c].email) THEN End(c, "refused") ELSE Go(c, "spend")
  /\ UNCHANGED <<codes, mailed, users, sessions, set, granted>>

Spent(k) == [codes EXCEPT ![k].state = "used"]

\* Fault: the code is spent outside the transaction.
SpendNow(c) ==
  /\ CallAt(c, "spend")
  /\ Go(c, "commit")
  /\ codes' = Spent(call[c].code)
  /\ UNCHANGED <<mailed, users, sessions, set, granted>>

\* UPDATE .. SET used_at: its error is ignored, but a transaction with a failed
\* statement cannot commit; Lose stands for that.
SpendCode(c) ==
  /\ CallAt(c, "spend")
  /\ Go(c, "commit")
  /\ UNCHANGED <<codes, mailed, users, sessions, set, granted>>

CommitUser(c) ==
  /\ CallAt(c, "commit") /\ call[c].op = "register"
  /\ codes' = Spent(call[c].code)
  /\ WriteUser(c, call[c].email, [status |-> "active", code |-> call[c].code])
  /\ UNCHANGED <<mailed, sessions, set, granted>>

-----------------------------------------------------------------------------
(* Sessions                                                                *)

Login(c, e) == Begin(c, "login", "read", e, Idle)

ReadUser(c) ==
  /\ CallAt(c, "read")
  /\ IF IsActive(call[c].email) THEN Go(c, "session") ELSE End(c, "refused")
  /\ UNCHANGED <<codes, mailed, users, sessions, set, granted>>

InsertSession(c) ==
  /\ CallAt(c, "session")
  /\ sessions' = sessions \cup {call[c].email}
  /\ End(c, "ok")
  /\ UNCHANGED <<codes, mailed, users, set, granted>>

ExpireSession(e) ==
  /\ e \in sessions
  /\ sessions' = sessions \ {e}
  /\ UNCHANGED <<codes, mailed, users, call, set, granted>>

\* A request with a token: auth asks UserByToken, the handler acts after it.
UserRequest(c, e) == Begin(c, "request", "auth", e, Idle)

\* Fault: the session alone decides.
SessionOnly(e) == e \in sessions

UserByToken(e) == e \in sessions /\ IsActive(e)

Authenticate(c) ==
  /\ CallAt(c, "auth")
  /\ IF UserByToken(call[c].email) THEN Go(c, "act") ELSE End(c, "refused")
  /\ UNCHANGED <<codes, mailed, users, sessions, set, granted>>

Act(c) ==
  /\ CallAt(c, "act")
  /\ End(c, "ok")
  /\ UNCHANGED <<codes, mailed, users, sessions, set, granted>>

-----------------------------------------------------------------------------
(* The administrator                                                       *)

\* UpdateUser with a status, a plan, or both.
UpdateUser(c, e, status, plan) == Begin(c, "update", "set", e, [Idle EXCEPT !.status = status, !.plan = plan])

\* Another transaction holds the row of the user.
RowHeld(c) == \E d \in Calls \ {c} : call[d].op = "update" /\ call[d].pc \in {"plan", "commit"}
                                       /\ call[d].email = call[c].email /\ call[d].status # ""

\* Fault: the status is stored before the plan is looked up, as the in-memory Store does.
SetAtOnce(c) ==
  /\ CallAt(c, "set")
  /\ Exists(call[c].email)
  /\ users' = IF call[c].status = "" THEN users ELSE [users EXCEPT ![call[c].email].status = call[c].status]
  /\ set' = IF call[c].status = "" THEN set ELSE set \cup {c}
  /\ Go(c, IF call[c].plan THEN "plan" ELSE "commit")
  /\ UNCHANGED <<codes, mailed, sessions, granted>>

\* UPDATE users and the SELECT after it.
SetStatus(c) ==
  /\ CallAt(c, "set")
  /\ call[c].status = "" \/ ~RowHeld(c)
  /\ IF ~Exists(call[c].email) THEN End(c, "refused") ELSE Go(c, IF call[c].plan THEN "plan" ELSE "commit")
  /\ UNCHANGED <<codes, mailed, users, sessions, set, granted>>

\* The plan is on offer, or the whole transaction is rolled back.
ReadPlan(c) ==
  /\ CallAt(c, "plan")
  /\ Go(c, "commit") \/ End(c, "refused")
  /\ UNCHANGED <<codes, mailed, users, sessions, set, granted>>

CommitUpdate(c) ==
  /\ CallAt(c, "commit") /\ call[c].op = "update"
  /\ LET u == users[call[c].email] IN
     WriteUser(c, call[c].email, IF call[c].status = "" THEN u ELSE [u EXCEPT !.status = call[c].status])
  /\ set' = IF call[c].status = "" THEN set ELSE set \cup {c}
  /\ granted' = IF call[c].plan THEN granted \cup {c} ELSE granted
  /\ UNCHANGED <<codes, mailed, sessions>>

\* The connection is lost, the server stops or a statement fails: what is not committed is gone.
Lose(c) ==
  /\ call[c].pc \notin {"idle", "done"}
  /\ End(c, "failed")
  /\ UNCHANGED <<codes, mailed, users, sessions, set, granted>>

-----------------------------------------------------------------------------
Step(c) ==
  \/ CheckCode(c) \/ InsertUser(c) \/ SpendCode(c) \/ CommitUser(c)
  \/ ReadUser(c) \/ InsertSession(c) \/ Authenticate(c) \/ Act(c)
  \/ SetStatus(c) \/ ReadPlan(c) \/ CommitUpdate(c)

Arrive(c, e) ==
  \/ \E k \in CodeIds \cup {0} : Register(c, e, k)
  \/ Login(c, e) \/ UserRequest(c, e)
  \/ \E status \in UserStatuses \cup {""}, plan \in BOOLEAN : UpdateUser(c, e, status, plan)

AccountsNext ==
  \/ \E c \in Calls : Step(c) \/ Lose(c) \/ \E e \in Emails : Arrive(c, e)
  \/ \E e \in Emails : SendCode(e) \/ ExpireSession(e)
  \/ \E k \in DOMAIN codes : ExpireCode(k)

AccountsSpec == AccountsInit /\ [][AccountsNext]_accountsVars

-----------------------------------------------------------------------------
(* Properties                                                              *)

\* A code is spent exactly when it made an account, though its UPDATE ignores
\* errors and calls end anywhere: nobody is left with a spent code and no
\* account, and an account's code makes no second one (Register).
CodeSpentWithAccount ==
  \A k \in DOMAIN codes :
    codes[k].state = "used" <=> users[codes[k].email].code = k

\* An update that was refused for its plan changed neither status nor plan, and
\* one that changed a status granted the plan it came with (UpdateUser's
\* transaction; the in-memory Store keeps the status).
UpdateIsAtomic ==
  \A c \in Calls :
    /\ call[c].result = "refused" => c \notin set \cup granted
    /\ c \in set /\ call[c].plan => c \in granted

\* A user whom an administrator has disabled gets nothing done by requests that
\* arrive afterwards, however many sessions were open or being opened by a login
\* that had already read the user (UserByToken joins the user).
DisabledStayOut ==
  \A c \in Calls : call[c].op = "request" /\ call[c].result = "ok" => call[c].active
=============================================================================
