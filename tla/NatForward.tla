----------------------------- MODULE NatForward -----------------------------
(***************************************************************************)
(* How a port of a NAT node becomes reachable: NarwhalForwarder.ForwardPort*)
(* (apps/api-server/internal/platform/nat.go) looks for a mapping of the   *)
(* guest port at the provider, else asks for one at a random host port,    *)
(* again at another one when refused, and reads back what it got.  Every   *)
(* http tunnel of a node shares guest port 80 and every https tunnel 443.  *)
(* With the PostgreSQL store these dialogues overlap; with the in-memory   *)
(* store, which holds its mutex, there is one caller.                      *)
(*                                                                         *)
(* A guest is a port and a protocol of one instance.  The provider is      *)
(* external: it takes a host port once, it may lose a request or an answer,*)
(* and it may acknowledge a mapping that never appears.  Nothing in the    *)
(* code ever removes a mapping.  Bound: MaxFaults on the failures.         *)
(***************************************************************************)
EXTENDS Integers

CONSTANTS
  Callers,      \* requests that create a tunnel on a NAT node
  Guests,       \* guest ports with their protocol
  HostPorts,    \* the host ports chooseNATPort draws from, 1024..65535
  MaxAttempts,  \* how many host ports one call tries, 10
  MaxFaults,    \* bound on the failures of the provider
  NoPort        \* what chooseNATPort returns when no port is left, 0

ASSUME AttemptsAssumption == MaxAttempts \in Nat \ {0} /\ MaxFaults \in Nat
ASSUME NoPortAssumption == NoPort \notin HostPorts

VARIABLES
  mappings,  \* the mappings of this instance at the provider
  foreign,   \* host ports that other instances of the machine have
  call,      \* call[c]: the dialogue of c
  entries,   \* mappings behind the public addresses handed out
  faults,    \* failures so far
  excused    \* guests of whose mapping a call could not know (see DuplicatesExplained)

vars == <<mappings, foreign, call, entries, faults, excused>>

Mapping  == [guest : Guests, host : HostPorts]
Idle     == [pc |-> "idle"]
Dialogue == [pc : {"list", "post", "verify"}, guest : Guests, host : HostPorts \cup {NoPort},
             used : SUBSET (HostPorts \cup {NoPort}), attempts : 0..MaxAttempts - 1]

TypeOK ==
  /\ mappings \subseteq Mapping
  /\ \A m, n \in mappings : m.host = n.host => m = n
  /\ foreign \subseteq HostPorts
  /\ call \in [Callers -> Dialogue \cup {Idle}]
  /\ entries \subseteq Mapping
  /\ faults \in 0..MaxFaults
  /\ excused \subseteq Guests

Init ==
  /\ mappings = {}
  /\ foreign \in SUBSET HostPorts
  /\ call = [c \in Callers |-> Idle]
  /\ entries = {}
  /\ faults = 0
  /\ excused = {}

-----------------------------------------------------------------------------
(* The provider                                                            *)

Hosts(S)   == {m.host : m \in S}
MappingsOf(g) == {m \in mappings : m.guest = g}
Grantable(h)  == h \in HostPorts \ (foreign \cup Hosts(mappings))

Fault == faults < MaxFaults /\ faults' = faults + 1

At(c, pc) == call[c].pc = pc

\* Another call is past its look at the list for the same guest.
Overlapped(c) ==
  \E b \in Callers \ {c} : (At(b, "post") \/ At(b, "verify")) /\ call[b].guest = call[c].guest

\* The mapping is made, for the guest of c.
Make(c, h) ==
  /\ Grantable(h)
  /\ mappings' = mappings \cup {[guest |-> call[c].guest, host |-> h]}

-----------------------------------------------------------------------------
(* ForwardPort                                                             *)

Begin(c, g) ==
  /\ call[c] = Idle
  /\ call' = [call EXCEPT ![c] = [pc |-> "list", guest |-> g, host |-> NoPort,
                                  used |-> {}, attempts |-> 0]]
  /\ UNCHANGED <<mappings, foreign, entries, faults, excused>>

GiveUp(c) == call' = [call EXCEPT ![c] = Idle]

\* The mapping m is there: its address becomes the tunnel's.
Deliver(c, m) == GiveUp(c) /\ entries' = entries \cup {m}

Reuse(c) ==
  /\ At(c, "list")
  /\ \E m \in MappingsOf(call[c].guest) : Deliver(c, m)
  /\ UNCHANGED <<mappings, foreign, faults, excused>>

\* No mapping of the guest: remember the host ports that are gone and ask for one.
FoundNone(c) ==
  /\ At(c, "list")
  /\ MappingsOf(call[c].guest) = {}
  /\ call' = [call EXCEPT ![c].used = Hosts(mappings), ![c].pc = "post"]
  /\ UNCHANGED <<mappings, foreign, entries, faults, excused>>

\* The instance cannot be resolved, or one of the two lists cannot be read.
ListFails(c) ==
  /\ At(c, "list") \/ At(c, "verify")
  /\ GiveUp(c)
  /\ Fault
  /\ UNCHANGED <<mappings, foreign, entries, excused>>

\* chooseNATPort: a port not tried and not listed; NoPort when none is left.
Choices(c) == IF HostPorts \ call[c].used = {} THEN {NoPort} ELSE HostPorts \ call[c].used

\* Fault: the attempts are not counted.
RetryForever(c, h) ==
  call' = [call EXCEPT ![c].used = @ \cup {h}, ![c].host = h, ![c].pc = "post"]

\* The next of MaxAttempts attempts, or the end of the loop.
Retry(c, h) ==
  IF call[c].attempts + 1 >= MaxAttempts THEN GiveUp(c)
  ELSE call' = [call EXCEPT ![c].used = @ \cup {h}, ![c].host = h,
                            ![c].attempts = @ + 1, ![c].pc = "post"]

Posted(c, h) ==
  call' = [call EXCEPT ![c].used = @ \cup {h}, ![c].host = h, ![c].pc = "verify"]

\* The provider makes the mapping and says so.
PostAccepted(c, h) ==
  /\ At(c, "post")
  /\ h \in Choices(c)
  /\ Make(c, h)
  /\ Posted(c, h)
  /\ excused' = excused \cup {g \in {call[c].guest} : Overlapped(c)}
  /\ UNCHANGED <<foreign, entries, faults>>

\* The provider says so, and the mapping does not appear.
PostIgnored(c, h) ==
  /\ At(c, "post")
  /\ h \in Choices(c)
  /\ Posted(c, h)
  /\ Fault
  /\ UNCHANGED <<mappings, foreign, entries, excused>>

\* The host port is taken: a conflict in the provider's words is tried again.
PostRefused(c, h) ==
  /\ At(c, "post")
  /\ h \in Choices(c)
  /\ ~Grantable(h)
  /\ Retry(c, h)
  /\ UNCHANGED <<mappings, foreign, entries, faults, excused>>

\* The request or its answer is lost.  The text of such an error holds the URL, which
\* says port-forwards, so it is taken for a conflict: the call tries again, whether or
\* not the mapping was made.
PostLost(c, h) ==
  /\ At(c, "post")
  /\ h \in Choices(c)
  /\ \/ Make(c, h) /\ excused' = excused \cup {call[c].guest}
     \/ UNCHANGED <<mappings, excused>>
  /\ Retry(c, h)
  /\ Fault
  /\ UNCHANGED <<foreign, entries>>

\* Fault: every error counts as a conflict.
PostFailsRetried(c, h) ==
  /\ At(c, "post")
  /\ h \in Choices(c)
  /\ \/ Make(c, h) /\ excused' = excused \cup {g \in {call[c].guest} : Overlapped(c)}
     \/ UNCHANGED <<mappings, excused>>
  /\ Retry(c, h)
  /\ Fault
  /\ UNCHANGED <<foreign, entries>>

\* An error in other words, or an answer that is no JSON: the call ends, whether or
\* not the mapping was made.
PostFails(c, h) ==
  /\ At(c, "post")
  /\ h \in Choices(c)
  /\ \/ Make(c, h) /\ excused' = excused \cup {g \in {call[c].guest} : Overlapped(c)}
     \/ UNCHANGED <<mappings, excused>>
  /\ GiveUp(c)
  /\ Fault
  /\ UNCHANGED <<foreign, entries>>

Requested(c) == [guest |-> call[c].guest, host |-> call[c].host]

\* Fault: what was acknowledged is not read back.
Trust(c) ==
  /\ At(c, "verify")
  /\ Deliver(c, Requested(c))
  /\ UNCHANGED <<mappings, foreign, faults, excused>>

Verified(c) ==
  /\ At(c, "verify")
  /\ Requested(c) \in mappings
  /\ Deliver(c, Requested(c))
  /\ UNCHANGED <<mappings, foreign, faults, excused>>

\* The read-back does not show the mapping: try another host port.
NotThere(c) ==
  /\ At(c, "verify")
  /\ Requested(c) \notin mappings
  /\ Retry(c, call[c].host)
  /\ UNCHANGED <<mappings, foreign, entries, faults, excused>>

Post(c) ==
  \E h \in HostPorts \cup {NoPort} :
    \/ PostAccepted(c, h) \/ PostIgnored(c, h) \/ PostRefused(c, h)
    \/ PostLost(c, h) \/ PostFails(c, h)

Step(c) == Reuse(c) \/ FoundNone(c) \/ ListFails(c) \/ Post(c) \/ Verified(c) \/ NotThere(c)

Next == \E c \in Callers : Step(c) \/ \E g \in Guests : Begin(c, g)

Spec == Init /\ [][Next]_vars

\* A goroutine that handles a request runs on.  (Each HTTP call to the provider ends
\* within 30 seconds.)
FairSpec == Spec /\ \A c \in Callers : WF_vars(Step(c))

-----------------------------------------------------------------------------
(* Properties                                                              *)

\* Every public address handed out leads to its own guest port: what was acknowledged
\* is read back, and what is reused was found under the same guest port (ForwardPort).
EntriesMapped == entries \subseteq mappings

\* A guest port has two mappings only if a call could not know of the first: the answer
\* to its POST was lost and the call tried again, or another call was past its list.
\* Failures of the list, of the read-back and of the store's transaction leave mappings
\* that the next call finds and reuses.
DuplicatesExplained ==
  \A m, n \in mappings : m # n /\ m.guest = n.guest => m.guest \in excused

\* Every call comes to an end, with a mapping or without: whatever the provider refuses,
\* ignores or loses, MaxAttempts bounds it.
CallsEnd == \A c \in Callers : ~At(c, "idle") ~> At(c, "idle")
=============================================================================
