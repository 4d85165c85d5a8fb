-------------------------- MODULE NatForwardProofs --------------------------
(***************************************************************************)
(* Theorems about NatForward, for every value of its constants: the type   *)
(* invariant, that every address handed out leads to its own guest port,   *)
(* when a guest port can have two mappings, and how long a call can be.    *)
(*                                                                         *)
(* The third needs IInv: a call that has looked at the list knows all the  *)
(* mappings of its guest (none, or the one it has just asked for), unless  *)
(* the guest is excused.                                                   *)
(***************************************************************************)
EXTENDS NatForward, TLAPS

USE AttemptsAssumption, NoPortAssumption

Unique == \A m, n \in mappings : m # n /\ m.guest = n.guest => m.guest \in excused

\* What a call past its list knows of the mappings of its guest.
Knows(c) ==
  call[c] # Idle /\ call[c].guest \notin excused =>
    /\ At(c, "post") => MappingsOf(call[c].guest) = {}
    /\ At(c, "verify") => \A m \in MappingsOf(call[c].guest) : m.host = call[c].host

IInv == TypeOK /\ Unique /\ \A c \in Callers : Knows(c)

-----------------------------------------------------------------------------
(* Types                                                                   *)

LEMMA InitType == Init => TypeOK
  BY DEF Init, TypeOK

LEMMA AtDialogue ==
  ASSUME TypeOK, NEW c \in Callers, call[c] # Idle
  PROVE  call[c] \in Dialogue
  BY DEF TypeOK

LEMMA GiveUpType ==
  ASSUME TypeOK, NEW c \in Callers, GiveUp(c)
  PROVE  call' \in [Callers -> Dialogue \cup {Idle}]
  BY DEF TypeOK, GiveUp

LEMMA RetryType ==
  ASSUME TypeOK, NEW c \in Callers, call[c] \in Dialogue, NEW h \in HostPorts \cup {NoPort},
         Retry(c, h)
  PROVE  call' \in [Callers -> Dialogue \cup {Idle}]
  <1>1. CASE call[c].attempts + 1 >= MaxAttempts
    BY <1>1, GiveUpType DEF Retry
  <1>2. CASE ~(call[c].attempts + 1 >= MaxAttempts)
    <2> DEFINE d == [call[c] EXCEPT !.used = @ \cup {h}, !.host = h, !.attempts = @ + 1, !.pc = "post"]
    <2>1. call[c].attempts + 1 \in 0..MaxAttempts - 1
      BY <1>2 DEF Dialogue
    <2>2. d \in Dialogue
      BY <2>1 DEF Dialogue
    <2>3. call' = [call EXCEPT ![c] = d]
      BY <1>2 DEF Retry
    <2>4. QED
      BY <2>2, <2>3 DEF TypeOK
  <1>3. QED
    BY <1>1, <1>2

LEMMA PostedType ==
  ASSUME TypeOK, NEW c \in Callers, call[c] \in Dialogue, NEW h \in HostPorts \cup {NoPort},
         Posted(c, h)
  PROVE  call' \in [Callers -> Dialogue \cup {Idle}]
  <1>1. [call[c] EXCEPT !.used = @ \cup {h}, !.host = h, !.pc = "verify"] \in Dialogue
    BY DEF Dialogue
  <1>2. QED
    BY <1>1 DEF Posted, TypeOK

\* The provider never gives a host port twice.
LEMMA MakeType ==
  ASSUME TypeOK, NEW c \in Callers, call[c] \in Dialogue, NEW h, Make(c, h)
  PROVE  /\ mappings' \subseteq Mapping
         /\ \A m, n \in mappings' : m.host = n.host => m = n
  BY DEF TypeOK, Make, Grantable, Hosts, Mapping, Dialogue

LEMMA PostType ==
  ASSUME TypeOK, NEW c \in Callers, NEW h \in HostPorts \cup {NoPort}, At(c, "post"),
         PostAccepted(c, h) \/ PostIgnored(c, h) \/ PostRefused(c, h)
           \/ PostLost(c, h) \/ PostFails(c, h)
  PROVE  TypeOK'
  <1>1. call[c] \in Dialogue /\ call[c].guest \in Guests
    BY AtDialogue DEF At, Idle, Dialogue
  <1>2. call' \in [Callers -> Dialogue \cup {Idle}]
    BY <1>1, RetryType, PostedType, GiveUpType
       DEF PostAccepted, PostIgnored, PostRefused, PostLost, PostFails
  <1>3. mappings' \subseteq Mapping /\ \A m, n \in mappings' : m.host = n.host => m = n
    <2>1. CASE Make(c, h)
      BY <1>1, <2>1, MakeType
    <2>2. CASE mappings' = mappings
      BY <2>2 DEF TypeOK
    <2>3. QED
      BY <2>1, <2>2 DEF PostAccepted, PostIgnored, PostRefused, PostLost, PostFails
  <1>4. faults' \in 0..MaxFaults /\ excused' \subseteq Guests
    BY <1>1 DEF PostAccepted, PostIgnored, PostRefused, PostLost, PostFails, Fault, TypeOK
  <1>5. foreign' = foreign /\ entries' = entries
    BY DEF PostAccepted, PostIgnored, PostRefused, PostLost, PostFails
  <1>6. QED
    BY <1>2, <1>3, <1>4, <1>5 DEF TypeOK

LEMMA BeginType ==
  ASSUME TypeOK, NEW c \in Callers, NEW g \in Guests, Begin(c, g)
  PROVE  TypeOK'
  <1>1. [pc |-> "list", guest |-> g, host |-> NoPort, used |-> {}, attempts |-> 0] \in Dialogue
    BY DEF Dialogue
  <1>2. QED
    BY <1>1 DEF Begin, TypeOK

LEMMA FoundNoneType ==
  ASSUME TypeOK, NEW c \in Callers, FoundNone(c)
  PROVE  TypeOK'
  <1>1. call[c] \in Dialogue
    BY AtDialogue DEF FoundNone, At, Idle
  <1>2. Hosts(mappings) \subseteq HostPorts
    BY DEF Hosts, TypeOK, Mapping
  <1>3. [call[c] EXCEPT !.used = Hosts(mappings), !.pc = "post"] \in Dialogue
    BY <1>1, <1>2 DEF Dialogue
  <1>4. QED
    BY <1>3 DEF FoundNone, TypeOK

\* An address is handed out only for a mapping that is there.
LEMMA DeliverType ==
  ASSUME TypeOK, NEW c \in Callers, NEW m \in mappings, Deliver(c, m)
  PROVE  call' \in [Callers -> Dialogue \cup {Idle}] /\ entries' \subseteq Mapping
  BY GiveUpType DEF Deliver, TypeOK

LEMMA NextType == TypeOK /\ [Next]_vars => TypeOK'
  <1> SUFFICES ASSUME TypeOK, [Next]_vars PROVE TypeOK'
    OBVIOUS
  <1>1. ASSUME NEW c \in Callers, NEW g \in Guests, Begin(c, g) PROVE TypeOK'
    BY <1>1, BeginType
  <1>2. ASSUME NEW c \in Callers, Reuse(c) \/ Verified(c) PROVE TypeOK'
    <2>1. PICK m \in mappings : Deliver(c, m)
      BY <1>2 DEF Reuse, Verified, MappingsOf
    <2>2. UNCHANGED <<mappings, foreign, faults, excused>>
      BY <1>2 DEF Reuse, Verified
    <2>3. QED
      BY <2>1, <2>2, DeliverType DEF TypeOK
  <1>3. ASSUME NEW c \in Callers, FoundNone(c) PROVE TypeOK'
    BY <1>3, FoundNoneType
  <1>4. ASSUME NEW c \in Callers, ListFails(c) PROVE TypeOK'
    BY <1>4, GiveUpType DEF ListFails, Fault, TypeOK
  <1>5. ASSUME NEW c \in Callers, Post(c) PROVE TypeOK'
    BY <1>5, PostType DEF Post, PostAccepted, PostIgnored, PostRefused, PostLost, PostFails
  <1>6. ASSUME NEW c \in Callers, NotThere(c) PROVE TypeOK'
    <2>1. call[c] \in Dialogue /\ call[c].host \in HostPorts \cup {NoPort}
      BY <1>6, AtDialogue DEF NotThere, At, Idle, Dialogue
    <2>2. QED
      BY <1>6, <2>1, RetryType DEF NotThere, TypeOK
  <1>7. CASE UNCHANGED vars
    BY <1>7 DEF vars, TypeOK
  <1>8. QED
    BY <1>1, <1>2, <1>3, <1>4, <1>5, <1>6, <1>7 DEF Next, Step

\* Every reachable state has its type; in particular two mappings never share a host
\* port and no call makes more than MaxAttempts attempts.
THEOREM TypeCorrect == Spec => []TypeOK
  <1>1. QED
    BY InitType, NextType, PTL DEF Spec

-----------------------------------------------------------------------------
(* What a call can know                                                    *)

LEMMA RetryForm ==
  ASSUME NEW c \in Callers, call[c] \in Dialogue, NEW h, Retry(c, h)
  PROVE  \E x : /\ call' = [call EXCEPT ![c] = x]
                /\ x = Idle \/ (x.pc = "post" /\ x.guest = call[c].guest)
  <1>1. CASE call[c].attempts + 1 >= MaxAttempts
    BY <1>1 DEF Retry, GiveUp
  <1>2. CASE ~(call[c].attempts + 1 >= MaxAttempts)
    <2> DEFINE x == [call[c] EXCEPT !.used = @ \cup {h}, !.host = h, !.attempts = @ + 1, !.pc = "post"]
    <2>1. x.pc = "post" /\ x.guest = call[c].guest
      BY DEF Dialogue
    <2>2. call' = [call EXCEPT ![c] = x]
      BY <1>2 DEF Retry
    <2>3. QED
      BY <2>1, <2>2
  <1>3. QED
    BY <1>1, <1>2

LEMMA PostedForm ==
  ASSUME NEW c \in Callers, call[c] \in Dialogue, NEW h, Posted(c, h)
  PROVE  \E x : /\ call' = [call EXCEPT ![c] = x]
                /\ x.pc = "verify" /\ x.guest = call[c].guest /\ x.host = h
  <1> DEFINE x == [call[c] EXCEPT !.used = @ \cup {h}, !.host = h, !.pc = "verify"]
  <1>1. x.pc = "verify" /\ x.guest = call[c].guest /\ x.host = h
    BY DEF Dialogue
  <1>2. call' = [call EXCEPT ![c] = x]
    BY DEF Posted
  <1>3. QED
    BY <1>1, <1>2

\* Without a new mapping, a call that goes on must know that there is none yet.
LEMMA MoveKnows ==
  ASSUME IInv, NEW c \in Callers, NEW x, call' = [call EXCEPT ![c] = x],
         mappings' = mappings, excused' = excused,
         \/ x = Idle
         \/ x.pc = "list"
         \/ x.guest \notin excused => MappingsOf(x.guest) = {}
  PROVE  Unique' /\ \A b \in Callers : Knows(b)'
  <1>1. Unique'
    BY DEF IInv, Unique
  <1>2. ASSUME NEW b \in Callers PROVE Knows(b)'
    <2>1. CASE b = c
      <3>1. call'[b] = x
        BY <2>1 DEF IInv, TypeOK
      <3>2. QED
        BY <3>1 DEF Knows, At, MappingsOf
    <2>2. CASE b # c
      <3>1. call'[b] = call[b] /\ Knows(b)
        BY <2>2 DEF IInv, TypeOK
      <3>2. QED
        BY <3>1 DEF Knows, At, MappingsOf
    <2>3. QED
      BY <2>1, <2>2
  <1>3. QED
    BY <1>1, <1>2

\* A new mapping: the call that asked knows of it or the guest is excused, and so for
\* every other call that is past its list.
LEMMA MakeKnows ==
  ASSUME IInv, NEW c \in Callers, At(c, "post"), NEW h, Make(c, h),
         NEW x, call' = [call EXCEPT ![c] = x],
         excused \subseteq excused', Overlapped(c) => call[c].guest \in excused',
         \/ x = Idle
         \/ x.pc = "verify" /\ x.guest = call[c].guest /\ x.host = h
         \/ x.pc = "post" /\ x.guest = call[c].guest /\ call[c].guest \in excused'
  PROVE  Unique' /\ \A b \in Callers : Knows(b)'
  <1> DEFINE g == call[c].guest
             new == [guest |-> g, host |-> h]
  <1>0. call[c] # Idle
    BY DEF At, Idle
  <1>1. g \notin excused => MappingsOf(g) = {}
    BY <1>0 DEF IInv, Knows
  <1>2. mappings' = mappings \cup {new} /\ new.guest = g /\ new.host = h
    BY DEF Make
  <1>3. Unique'
    BY <1>1, <1>2 DEF IInv, Unique, MappingsOf
  <1>4. ASSUME NEW b \in Callers PROVE Knows(b)'
    <2>1. CASE b = c
      <3>1. call'[b] = x
        BY <2>1 DEF IInv, TypeOK
      <3>2. ASSUME g \notin excused', NEW m \in mappings', m.guest = g PROVE m.host = h
        <4>1. m \notin mappings
          BY <1>1, <3>2 DEF MappingsOf
        <4>2. m = new
          BY <1>2, <4>1, <3>2
        <4>3. QED
          BY <1>2, <4>2
      <3>3. CASE x = Idle
        BY <3>1, <3>3 DEF Knows
      <3>4. CASE x.pc = "verify" /\ x.guest = g /\ x.host = h
        BY <3>1, <3>2, <3>4 DEF Knows, At, MappingsOf
      <3>5. CASE x.pc = "post" /\ x.guest = g /\ g \in excused'
        BY <3>1, <3>5 DEF Knows
      <3>6. QED
        BY <3>3, <3>4, <3>5
    <2>2. CASE b # c
      <3>1. call'[b] = call[b] /\ Knows(b)
        BY <2>2 DEF IInv, TypeOK
      <3>2. CASE call[b].guest = g
        <4>1. (At(b, "post") \/ At(b, "verify")) => g \in excused'
          BY <2>2, <3>2 DEF Overlapped
        <4>2. QED
          BY <3>1, <3>2, <4>1 DEF Knows, At
      <3>3. CASE call[b].guest # g
        <4>1. MappingsOf(call[b].guest)' = MappingsOf(call[b].guest)
          BY <1>2, <3>1, <3>3 DEF MappingsOf
        <4>2. QED
          BY <3>1, <4>1 DEF Knows, At
      <3>4. QED
        BY <3>2, <3>3
    <2>3. QED
      BY <2>1, <2>2
  <1>5. QED
    BY <1>3, <1>4

LEMMA PostKnows ==
  ASSUME IInv, NEW c \in Callers, NEW h,
         PostAccepted(c, h) \/ PostIgnored(c, h) \/ PostRefused(c, h)
           \/ PostLost(c, h) \/ PostFails(c, h)
  PROVE  Unique' /\ \A b \in Callers : Knows(b)'
  <1>1. At(c, "post") /\ call[c] # Idle /\ call[c] \in Dialogue
    BY AtDialogue DEF IInv, PostAccepted, PostIgnored, PostRefused, PostLost, PostFails, At, Idle
  <1>2. call[c].guest \notin excused => MappingsOf(call[c].guest) = {}
    BY <1>1 DEF IInv, Knows
  <1>3. CASE PostAccepted(c, h)
    <2>1. PICK x : /\ call' = [call EXCEPT ![c] = x]
                   /\ x.pc = "verify" /\ x.guest = call[c].guest /\ x.host = h
      BY <1>1, <1>3, PostedForm DEF PostAccepted
    <2>2. Make(c, h) /\ excused \subseteq excused' /\ (Overlapped(c) => call[c].guest \in excused')
      BY <1>3 DEF PostAccepted
    <2>3. QED
      BY <1>1, <2>1, <2>2, MakeKnows
  <1>4. CASE PostIgnored(c, h)
    <2>1. PICK x : call' = [call EXCEPT ![c] = x] /\ x.guest = call[c].guest
      BY <1>1, <1>4, PostedForm DEF PostIgnored
    <2>2. QED
      BY <1>2, <1>4, <2>1, MoveKnows DEF PostIgnored
  <1>5. CASE PostRefused(c, h)
    <2>1. PICK x : /\ call' = [call EXCEPT ![c] = x]
                   /\ x = Idle \/ (x.pc = "post" /\ x.guest = call[c].guest)
      BY <1>1, <1>5, RetryForm DEF PostRefused
    <2>2. QED
      BY <1>2, <1>5, <2>1, MoveKnows DEF PostRefused
  <1>6. CASE PostLost(c, h)
    <2>1. PICK x : /\ call' = [call EXCEPT ![c] = x]
                   /\ x = Idle \/ (x.pc = "post" /\ x.guest = call[c].guest)
      BY <1>1, <1>6, RetryForm DEF PostLost
    <2>2. CASE Make(c, h) /\ excused' = excused \cup {call[c].guest}
      BY <1>1, <2>1, <2>2, MakeKnows
    <2>3. CASE mappings' = mappings /\ excused' = excused
      BY <1>2, <2>1, <2>3, MoveKnows
    <2>4. QED
      BY <1>6, <2>2, <2>3 DEF PostLost
  <1>7. CASE PostFails(c, h)
    <2>1. call' = [call EXCEPT ![c] = Idle]
      BY <1>7 DEF PostFails, GiveUp
    <2>2. CASE /\ Make(c, h)
               /\ excused' = excused \cup {g \in {call[c].guest} : Overlapped(c)}
      BY <1>1, <2>1, <2>2, MakeKnows
    <2>3. CASE mappings' = mappings /\ excused' = excused
      BY <2>1, <2>3, MoveKnows
    <2>4. QED
      BY <1>7, <2>2, <2>3 DEF PostFails
  <1>8. QED
    BY <1>3, <1>4, <1>5, <1>6, <1>7

\* A read-back without the mapping asked for shows that the guest has none.
LEMMA NotThereKnows ==
  ASSUME IInv, NEW c \in Callers, NotThere(c)
  PROVE  Unique' /\ \A b \in Callers : Knows(b)'
  <1>1. At(c, "verify") /\ call[c] # Idle /\ call[c] \in Dialogue
    BY AtDialogue DEF IInv, NotThere, At, Idle
  <1>2. PICK x : /\ call' = [call EXCEPT ![c] = x]
                 /\ x = Idle \/ (x.pc = "post" /\ x.guest = call[c].guest)
    BY <1>1, RetryForm DEF NotThere
  <1>3. ASSUME call[c].guest \notin excused, NEW m \in MappingsOf(call[c].guest) PROVE FALSE
    <2>1. m.guest = call[c].guest /\ m.host = call[c].host /\ m \in mappings
      BY <1>1, <1>3 DEF IInv, Knows, MappingsOf
    <2>2. m = Requested(c)
      BY <2>1 DEF IInv, TypeOK, Mapping, Requested
    <2>3. QED
      BY <2>1, <2>2 DEF NotThere
  <1>4. QED
    BY <1>2, <1>3, MoveKnows DEF NotThere

LEMMA NextKnows == IInv /\ [Next]_vars => Unique' /\ \A b \in Callers : Knows(b)'
  <1> SUFFICES ASSUME IInv, [Next]_vars PROVE Unique' /\ \A b \in Callers : Knows(b)'
    OBVIOUS
  <1>1. ASSUME NEW c \in Callers, NEW g \in Guests, Begin(c, g)
        PROVE  Unique' /\ \A b \in Callers : Knows(b)'
    BY <1>1, MoveKnows DEF Begin
  <1>2. ASSUME NEW c \in Callers, Reuse(c) \/ Verified(c) \/ ListFails(c)
        PROVE  Unique' /\ \A b \in Callers : Knows(b)'
    BY <1>2, MoveKnows DEF Reuse, Verified, ListFails, Deliver, GiveUp
  <1>3. ASSUME NEW c \in Callers, FoundNone(c)
        PROVE  Unique' /\ \A b \in Callers : Knows(b)'
    <2> DEFINE x == [call[c] EXCEPT !.used = Hosts(mappings), !.pc = "post"]
    <2>1. call[c] \in Dialogue
      BY <1>3, AtDialogue DEF IInv, FoundNone, At, Idle
    <2>2. x.guest = call[c].guest
      BY <2>1 DEF Dialogue
    <2>3. call' = [call EXCEPT ![c] = x]
      BY <1>3 DEF FoundNone
    <2>4. QED
      BY <1>3, <2>2, <2>3, MoveKnows DEF FoundNone
  <1>4. ASSUME NEW c \in Callers, Post(c) PROVE Unique' /\ \A b \in Callers : Knows(b)'
    BY <1>4, PostKnows DEF Post
  <1>5. ASSUME NEW c \in Callers, NotThere(c) PROVE Unique' /\ \A b \in Callers : Knows(b)'
    BY <1>5, NotThereKnows
  <1>6. CASE UNCHANGED vars
    BY <1>6 DEF vars, IInv, Unique, Knows, At, MappingsOf
  <1>7. QED
    BY <1>1, <1>2, <1>3, <1>4, <1>5, <1>6 DEF Next, Step

\* A guest port has two mappings only where the answer to a POST was lost and the call
\* tried again, or where two calls for the guest overlapped past their lists.
THEOREM DuplicatesOnlyUnknown == Spec => []DuplicatesExplained
  <1>1. Init => IInv
    BY InitType DEF Init, IInv, Unique, Knows
  <1>2. IInv /\ [Next]_vars => IInv'
    BY NextType, NextKnows DEF IInv
  <1>3. IInv => DuplicatesExplained
    BY DEF IInv, Unique, DuplicatesExplained
  <1>4. QED
    BY <1>1, <1>2, <1>3, PTL DEF Spec

\* Every address handed out leads to a mapping of its own guest port, for good: the
\* code removes no mapping.
THEOREM EntriesStayMapped == Spec => []EntriesMapped
  <1>1. Init => EntriesMapped
    BY DEF Init, EntriesMapped
  <1>2. EntriesMapped /\ [Next]_vars => EntriesMapped'
    <2> SUFFICES ASSUME EntriesMapped, [Next]_vars PROVE EntriesMapped'
      OBVIOUS
    <2>1. ASSUME NEW c \in Callers, Reuse(c) \/ Verified(c) PROVE EntriesMapped'
      BY <2>1 DEF Reuse, Verified, Deliver, MappingsOf, EntriesMapped
    <2>2. CASE entries' = entries /\ mappings \subseteq mappings'
      BY <2>2 DEF EntriesMapped
    <2>3. ASSUME NEW c \in Callers, Post(c) PROVE entries' = entries /\ mappings \subseteq mappings'
      BY <2>3 DEF Post, PostAccepted, PostIgnored, PostRefused, PostLost, PostFails, Make
    <2>4. ASSUME NEW c \in Callers, FoundNone(c) \/ ListFails(c) \/ NotThere(c)
          PROVE  entries' = entries /\ mappings \subseteq mappings'
      BY <2>4 DEF FoundNone, ListFails, NotThere
    <2>5. ASSUME NEW c \in Callers, Step(c) PROVE EntriesMapped'
      BY <2>1, <2>2, <2>3, <2>4, <2>5 DEF Step
    <2>6. ASSUME NEW c \in Callers, NEW g \in Guests, Begin(c, g)
          PROVE  entries' = entries /\ mappings \subseteq mappings'
      BY <2>6 DEF Begin
    <2>7. CASE UNCHANGED vars
      BY <2>2, <2>7 DEF vars
    <2>8. QED
      BY <2>2, <2>5, <2>6, <2>7 DEF Next
  <1>3. QED
    BY <1>1, <1>2, PTL DEF Spec

-----------------------------------------------------------------------------
(* How long a call can be                                                  *)

\* The steps a call has left at most: the list, then two for each attempt.
StepsLeft(d) ==
  CASE d.pc = "idle"   -> 0
    [] d.pc = "list"   -> 2 * MaxAttempts + 1
    [] d.pc = "post"   -> 2 * (MaxAttempts - d.attempts)
    [] d.pc = "verify" -> 2 * (MaxAttempts - d.attempts) - 1

\* No call has more to do than its list and MaxAttempts attempts.
Short == \A c \in Callers : StepsLeft(call[c]) \in 0..(2 * MaxAttempts + 1)

\* Every step of a call brings it nearer its end, and no other call sets it back.
Nearer ==
  \A c \in Callers :
    call[c] # Idle => \/ call'[c] = call[c]
                      \/ StepsLeft(call'[c]) < StepsLeft(call[c])

\* A call under way is not at its end.
LEMMA StepsLeftNat ==
  ASSUME NEW d \in Dialogue
  PROVE  StepsLeft(d) \in Nat /\ StepsLeft(d) > 0 /\ StepsLeft(Idle) = 0
  BY DEF Dialogue, StepsLeft, Idle

LEMMA MovesNearer ==
  ASSUME TypeOK, NEW c \in Callers, NEW x, call' = [call EXCEPT ![c] = x],
         call[c] # Idle => StepsLeft(x) < StepsLeft(call[c])
  PROVE  Nearer
  <1>1. \A b \in Callers : call'[b] = IF b = c THEN x ELSE call[b]
    BY DEF TypeOK
  <1>2. QED
    BY <1>1 DEF Nearer

LEMMA GiveUpNearer ==
  ASSUME TypeOK, NEW c \in Callers, GiveUp(c)
  PROVE  Nearer
  <1>1. call[c] # Idle => StepsLeft(Idle) < StepsLeft(call[c])
    BY AtDialogue, StepsLeftNat
  <1>2. QED
    BY <1>1, MovesNearer DEF GiveUp

\* Another attempt is one attempt less.
LEMMA RetryNearer ==
  ASSUME TypeOK, NEW c \in Callers, call[c] \in Dialogue, call[c].pc # "list", NEW h, Retry(c, h)
  PROVE  Nearer
  <1>1. CASE call[c].attempts + 1 >= MaxAttempts
    BY <1>1, GiveUpNearer DEF Retry
  <1>2. CASE ~(call[c].attempts + 1 >= MaxAttempts)
    <2>1. PICK x : x = [call[c] EXCEPT !.used = @ \cup {h}, !.host = h, !.attempts = @ + 1, !.pc = "post"]
      OBVIOUS
    <2>2. x.pc = "post" /\ x.attempts = call[c].attempts + 1
      BY <2>1 DEF Dialogue
    <2>3. StepsLeft(x) = 2 * (MaxAttempts - (call[c].attempts + 1))
      BY <2>2 DEF StepsLeft
    <2>4. call[c].attempts \in Nat /\ call[c].pc \in {"post", "verify"}
      BY DEF Dialogue
    <2>5. StepsLeft(call[c]) >= 2 * (MaxAttempts - call[c].attempts) - 1
      BY <2>4 DEF StepsLeft
    <2>6. StepsLeft(x) < StepsLeft(call[c])
      BY <2>3, <2>4, <2>5, StepsLeftNat
    <2>7. call' = [call EXCEPT ![c] = x]
      BY <1>2, <2>1 DEF Retry
    <2>8. QED
      BY <2>6, <2>7, MovesNearer
  <1>3. QED
    BY <1>1, <1>2

LEMMA PostNearer ==
  ASSUME TypeOK, NEW c \in Callers, Post(c)
  PROVE  Nearer
  <1>1. PICK h : PostAccepted(c, h) \/ PostIgnored(c, h) \/ PostRefused(c, h)
                 \/ PostLost(c, h) \/ PostFails(c, h)
    BY DEF Post
  <1>2. call[c].pc = "post" /\ call[c] \in Dialogue
    <2>1. call[c].pc = "post"
      BY <1>1 DEF PostAccepted, PostIgnored, PostRefused, PostLost, PostFails, At
    <2>2. QED
      BY <2>1, AtDialogue DEF Idle
  <1>3. CASE Posted(c, h)
    <2>1. PICK x : x = [call[c] EXCEPT !.used = @ \cup {h}, !.host = h, !.pc = "verify"]
      OBVIOUS
    <2>2. x.pc = "verify" /\ x.attempts = call[c].attempts /\ call[c].attempts \in Nat
      BY <2>1, <1>2 DEF Dialogue
    <2>3. StepsLeft(x) < StepsLeft(call[c])
      BY <1>2, <2>2 DEF StepsLeft
    <2>4. call' = [call EXCEPT ![c] = x]
      BY <1>3, <2>1 DEF Posted
    <2>5. QED
      BY <2>3, <2>4, MovesNearer
  <1>4. QED
    BY <1>1, <1>2, <1>3, RetryNearer, GiveUpNearer
       DEF PostAccepted, PostIgnored, PostRefused, PostLost, PostFails

LEMMA StepNearer == TypeOK /\ [Next]_vars => Nearer
  <1> SUFFICES ASSUME TypeOK, [Next]_vars PROVE Nearer
    OBVIOUS
  <1>1. ASSUME NEW c \in Callers, NEW g \in Guests, Begin(c, g) PROVE Nearer
    BY <1>1, MovesNearer DEF Begin
  <1>2. ASSUME NEW c \in Callers, Reuse(c) \/ Verified(c) \/ ListFails(c) PROVE Nearer
    BY <1>2, GiveUpNearer DEF Reuse, Verified, ListFails, Deliver
  <1>3. ASSUME NEW c \in Callers, FoundNone(c) PROVE Nearer
    <2>1. call[c].pc = "list" /\ call[c] \in Dialogue
      BY <1>3, AtDialogue DEF FoundNone, At, Idle
    <2>2. PICK x : x = [call[c] EXCEPT !.used = Hosts(mappings), !.pc = "post"]
      OBVIOUS
    <2>3. x.pc = "post" /\ x.attempts = call[c].attempts /\ call[c].attempts \in Nat
      BY <2>1, <2>2 DEF Dialogue
    <2>4. StepsLeft(x) < StepsLeft(call[c])
      BY <2>1, <2>3 DEF StepsLeft
    <2>5. call' = [call EXCEPT ![c] = x]
      BY <1>3, <2>2 DEF FoundNone
    <2>6. QED
      BY <2>4, <2>5, MovesNearer
  <1>4. ASSUME NEW c \in Callers, NotThere(c) PROVE Nearer
    <2>1. call[c].pc = "verify" /\ call[c] \in Dialogue
      BY <1>4, AtDialogue DEF NotThere, At, Idle
    <2>2. QED
      BY <1>4, <2>1, RetryNearer DEF NotThere
  <1>5. CASE UNCHANGED vars
    BY <1>5 DEF vars, Nearer
  <1>6. QED
    BY <1>1, <1>2, <1>3, <1>4, <1>5, PostNearer DEF Next, Step

\* However the provider refuses, ignores or loses what it is asked, and whatever other
\* calls do meanwhile, a call of ForwardPort makes at most one step for its list and two
\* for each of MaxAttempts attempts: the safety half of CallsEnd.
THEOREM CallsAreBounded ==
  Spec => []Short /\ [][Nearer]_vars
  <1>1. TypeOK => Short
    <2> SUFFICES ASSUME TypeOK, NEW c \in Callers
                 PROVE  StepsLeft(call[c]) \in 0..(2 * MaxAttempts + 1)
      BY DEF Short
    <2>1. CASE call[c] = Idle
      BY <2>1 DEF StepsLeft, Idle
    <2>2. CASE call[c] \in Dialogue
      <3>1. PICK a \in 0..(MaxAttempts - 1) : a = call[c].attempts
        BY <2>2 DEF Dialogue
      <3>2. StepsLeft(call[c]) \in {2 * MaxAttempts + 1, 2 * (MaxAttempts - a), 2 * (MaxAttempts - a) - 1}
        BY <2>2, <3>1 DEF Dialogue, StepsLeft
      <3>3. QED
        BY <3>2
    <2>3. QED
      BY <2>1, <2>2 DEF TypeOK
  <1>2. QED
    BY <1>1, TypeCorrect, StepNearer, PTL DEF Spec
=============================================================================
