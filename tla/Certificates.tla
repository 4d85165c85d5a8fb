---------------------------- MODULE Certificates ----------------------------
(***************************************************************************)
(* Certificates of the control plane: what certbot keeps on disk, what the *)
(* certificates table says of it, and the calls that bring the two closer: *)
(* a user's request, an administrator's request, an administrator's        *)
(* renewal and the renewal scheduler (apps/api-server/internal/platform,   *)
(* server.go, cert_renewer.go, automation.go, store.go, sql_store.go).     *)
(*                                                                         *)
(* A call runs certbot for up to two minutes, reads the certificate it     *)
(* finds, and stores a record; nothing excludes other calls meanwhile.  A  *)
(* renewal works through the list it read at its start.  The record's      *)
(* status, paths and output are display only and left out, and with them   *)
(* the dry-run mode, in which certbot never runs.                          *)
(*                                                                         *)
(* Bounds: MaxTime on the clock, and with it the expiry dates; MaxFaults on *)
(* how often certbot, an inspection or a call as a whole fails.            *)
(***************************************************************************)
EXTENDS Integers

CONSTANTS
  Domains,      \* the domains certificates are requested for
  Users,        \* users with an active plan that allows certificates
  Workers,      \* goroutines that serve HTTP requests
  Scheduler,    \* the goroutine of StartCertificateRenewalScheduler
  BeforeDays,   \* CERT_RENEW_BEFORE_DAYS: how long before its end a record is due
  CertbotDays,  \* how long before its end certbot replaces a certificate
  Validity,     \* lifetime of a new certificate
  ListLimit,    \* how many records Certificates() returns at most
  MaxTime,      \* bound on the clock
  MaxFaults,    \* bound on the failures
  nil           \* no expiry known, no certificate, no owner, no record

VARIABLES
  now,     \* the clock, in days
  disk,    \* disk[d]: when the certificate of d on disk expires
  record,  \* record[d]: the row of d in certificates
  rank,    \* rank[d]: place of the row of d by updated_at, 1 the latest, 0 without a row
  call,    \* call[w]: what goroutine w is doing
  faults   \* failures so far

vars == <<now, disk, record, rank, call, faults>>

Callers == Workers \cup {Scheduler}

Row      == [owner : Users \cup {nil}, expires : Int \cup {nil}]
\* What a renewal remembers of a row it listed.
Listing  == [domain : Domains, expires : Int \cup {nil}]
Idle     == [pc |-> "idle"]

\* A call at work on domain: by is the user who asked, prior the expiry listed
\* before, found the expiry just read, todo the rest of a renewal's list.
Working  == [pc : {"certbot", "inspect", "save"}, domain : Domains, by : Users \cup {nil},
             prior : Int \cup {nil}, found : Int \cup {nil}, todo : SUBSET Listing]

ASSUME DaysAssumption == BeforeDays \in Nat /\ CertbotDays \in Nat /\ Validity \in Nat
ASSUME BoundAssumption == ListLimit \in Nat /\ MaxTime \in Nat /\ MaxFaults \in Nat
ASSUME NilAssumption == nil \notin Users /\ nil \notin Int /\ nil \notin Row

TypeOK ==
  /\ now \in Nat
  /\ disk \in [Domains -> Int \cup {nil}]
  /\ record \in [Domains -> Row \cup {nil}]
  /\ rank \in [Domains -> Nat]
  /\ \A d \in Domains : record[d] = nil <=> rank[d] = 0
  /\ \A d, e \in Domains : d # e /\ rank[d] = rank[e] => rank[d] = 0
  /\ call \in [Callers -> Working \cup {Idle}]
  /\ faults \in 0..MaxFaults

Init ==
  /\ now = 0
  /\ disk = [d \in Domains |-> nil]
  /\ record = [d \in Domains |-> nil]
  /\ rank = [d \in Domains |-> 0]
  /\ call = [w \in Callers |-> Idle]
  /\ faults = 0

-----------------------------------------------------------------------------
(* How a call starts                                                       *)

Working0(d, by, prior, todo) ==
  [pc |-> "certbot", domain |-> d, by |-> by, prior |-> prior, found |-> nil, todo |-> todo]

\* userRequestCertificate.  The plan and the tunnel that prove the right to d are
\* looked at here and not again, however long certbot takes; who has such a tunnel is
\* the matter of TunnelStore and SqlTunnels, and any user may have had one.
Request(w, u, d) ==
  /\ call[w] = Idle
  /\ call' = [call EXCEPT ![w] = Working0(d, u, nil, {})]
  /\ UNCHANGED <<now, disk, record, rank, faults>>

\* adminRequestCertificate: any domain, and no owner.
AdminRequest(w, d) ==
  /\ call[w] = Idle
  /\ call' = [call EXCEPT ![w] = Working0(d, nil, nil, {})]
  /\ UNCHANGED <<now, disk, record, rank, faults>>

\* Certificates(): ORDER BY updated_at DESC LIMIT ListLimit.
Top(limit) == {[domain |-> d, expires |-> record[d].expires] :
                 d \in {e \in Domains : rank[e] > 0 /\ rank[e] <= limit}}

\* Fault: the list is one row short.
ListShort == Top(ListLimit - 1)

List == Top(ListLimit)

Due(expires) == expires # nil /\ expires <= now + BeforeDays

\* Go on with one of the rows left, or end.
Proceed(w, todo) ==
  \/ todo = {} /\ call' = [call EXCEPT ![w] = Idle]
  \/ \E row \in todo :
       call' = [call EXCEPT ![w] = Working0(row.domain, nil, row.expires, todo \ {row})]

\* RenewDue reads the list and the clock once; which rows it will skip is fixed.
RenewDue(w, force) ==
  /\ call[w] = Idle
  /\ \E row \in List : force \/ Due(row.expires)
  /\ Proceed(w, {row \in List : force \/ Due(row.expires)})
  /\ UNCHANGED <<now, disk, record, rank, faults>>

-----------------------------------------------------------------------------
(* RequestCertificate, InspectCertificate, SaveCertificate                 *)

At(w, pc) == call[w].pc = pc

\* certbot replaces what is missing or near its end.
Replaceable(d) == disk[d] # nil => disk[d] <= now + CertbotDays

Fault == faults < MaxFaults /\ faults' = faults + 1

\* certbot obtains a certificate; its answer may still be an error (a timeout).
Issue(w) ==
  /\ At(w, "certbot")
  /\ Replaceable(call[w].domain)
  /\ disk' = [disk EXCEPT ![call[w].domain] = now + Validity]
  /\ call' = [call EXCEPT ![w].pc = "inspect"]
  /\ UNCHANGED <<now, record, rank, faults>>

\* certbot fails, or keeps a certificate that is not near its end; the call goes on.
IssueNothing(w) ==
  /\ At(w, "certbot")
  /\ IF Replaceable(call[w].domain) THEN Fault ELSE UNCHANGED faults
  /\ call' = [call EXCEPT ![w].pc = "inspect"]
  /\ UNCHANGED <<now, disk, record, rank>>

\* Fault: a certificate that cannot be read is taken for a new one.
InspectAssumed(w) ==
  /\ At(w, "inspect")
  /\ call' = [call EXCEPT ![w].found = now + Validity, ![w].pc = "save"]
  /\ Fault
  /\ UNCHANGED <<now, disk, record, rank>>

\* The node agent does not answer, or the file cannot be read.
InspectFails(w) ==
  /\ At(w, "inspect")
  /\ call' = [call EXCEPT ![w].found = nil, ![w].pc = "save"]
  /\ Fault
  /\ UNCHANGED <<now, disk, record, rank>>

Inspect(w) ==
  /\ At(w, "inspect")
  /\ disk[call[w].domain] # nil
  /\ call' = [call EXCEPT ![w].found = disk[call[w].domain], ![w].pc = "save"]
  /\ UNCHANGED <<now, disk, record, rank, faults>>

OwnerOf(d) == IF record[d] = nil THEN nil ELSE record[d].owner

\* Fault: the upsert takes over the caller's owner even when it has none.
RowOwnerless(c) ==
  [owner |-> c.by, expires |-> IF c.found = nil THEN c.prior ELSE c.found]

\* The row stored: a caller without an owner leaves the owner alone; only a renewal
\* has an earlier expiry to fall back to.
RowOf(c) ==
  [owner |-> IF c.by = nil THEN OwnerOf(c.domain) ELSE c.by,
   expires |-> IF c.found = nil THEN c.prior ELSE c.found]

\* updated_at of the row of d is now the latest.
Touched(d) ==
  [e \in Domains |-> IF e = d THEN 1
                     ELSE IF rank[e] > 0 /\ (rank[d] = 0 \/ rank[e] < rank[d])
                     THEN rank[e] + 1 ELSE rank[e]]

Save(w) ==
  /\ At(w, "save")
  /\ record' = [record EXCEPT ![call[w].domain] = RowOf(call[w])]
  /\ rank' = Touched(call[w].domain)
  /\ Proceed(w, call[w].todo)
  /\ UNCHANGED <<now, disk, faults>>

\* The row cannot be stored, which also ends a renewal before its remaining rows; or
\* the server goes down in the middle of the call.
Abort(w) ==
  /\ call[w] # Idle
  /\ call' = [call EXCEPT ![w] = Idle]
  /\ Fault
  /\ UNCHANGED <<now, disk, record, rank>>

Tick ==
  /\ now < MaxTime
  /\ now' = now + 1
  /\ UNCHANGED <<disk, record, rank, call, faults>>

Step(w) == Issue(w) \/ IssueNothing(w) \/ InspectFails(w) \/ Inspect(w) \/ Save(w)

Next ==
  \/ \E w \in Workers :
       \/ \E d \in Domains : AdminRequest(w, d) \/ \E u \in Users : Request(w, u, d)
       \/ \E force \in BOOLEAN : RenewDue(w, force)
  \/ RenewDue(Scheduler, FALSE)
  \/ \E w \in Callers : Step(w) \/ Abort(w)
  \/ Tick

On(w, d) == call[w] # Idle /\ call[w].domain = d

\* The ticker of the scheduler fires again and again, and a renewal under way goes on:
\* both are loops of a goroutine.  Nothing is assumed of the requests.
Fairness == WF_vars(RenewDue(Scheduler, FALSE)) /\ WF_vars(Step(Scheduler))

Spec == Init /\ [][Next]_vars
FairSpec == Spec /\ Fairness

-----------------------------------------------------------------------------
(* Properties                                                              *)

\* No row promises more than the certificate on disk: whatever calls overlap and
\* whichever saves last, a certificate near its end never looks far from it to
\* RenewDue (found is read from disk, prior was, and certificates only get newer).
RecordNeverAhead ==
  \A d \in Domains :
    record[d] # nil /\ record[d].expires # nil =>
      disk[d] # nil /\ record[d].expires <= disk[d]

\* The owner of a row is replaced only by a user whose own request on that domain is
\* being saved; renewals and administrators, who save without one, leave it.
OwnerKept ==
  [][\A d \in Domains :
       OwnerOf(d) # nil /\ OwnerOf(d)' # OwnerOf(d) =>
         \E w \in Workers : /\ At(w, "save") /\ On(w, d)
                            /\ call[w].by # nil /\ OwnerOf(d)' = call[w].by]_vars

\* A row that is due gets renewed: the scheduler reaches every due row in the end,
\* however requests and other renewals overlap with it and wherever a renewal was cut
\* short, unless a request loses the row's expiry (InspectFails).  The table has to
\* fit the list the scheduler reads (ListLimit).
NearEnd(d) ==
  record[d] # nil /\ record[d].expires # nil /\ record[d].expires <= now + BeforeDays

DueIsRenewed == \A d \in Domains : NearEnd(d) ~> ~NearEnd(d)
=============================================================================
