------------------------- MODULE FrpcManagerProofs -------------------------
(***************************************************************************)
(* What the local client promises for any number of overlapping requests   *)
(* and crashes.  The argument has three parts: what holds of a request by  *)
(* itself, wherever it is (InOrder); which frpc serve (OneServing and      *)
(* StoppedStayDown, inductive together); and what a request knows of the   *)
(* server, of the configuration and of the benchmark services (Shared).    *)
(***************************************************************************)
EXTENDS FrpcManager, SequenceTheorems, TLAPS

\* A request with respect to itself: where it can be, and what it has done by then.
InOrder(r) ==
  /\ r.pc = "idle" => r.op = "none" /\ ~r.cleaned
  /\ r.held # None => r.pc = "close" /\ r.op # "run"
  /\ r.cleaned => r.op = "run"
  /\ r.finished => r.cleaned
  /\ r.restored => r.cleaned /\ r.pc \in {"stop", "start", "close", "done"}
  /\ r.pc = "create" => r.op = "run" /\ ~r.cleaned
  /\ r.pc = "finish" => r.cleaned
  /\ r.pc = "probe" => r.op = "run"
  /\ r.pc = "swap" => r.op = "prepare"
  /\ r.pc = "take" => r.op = "cleanup"
  /\ r.op = "run" /\ r.pc \in {"close", "done"} /\ r.result \notin {"not_created", "died"} => r.cleaned

Requests == \A c \in Calls : InOrder(call[c])

\* Request c is in state r now; nothing else is said to have changed.
Moved(c, r) == call' = [call EXCEPT ![c] = r]

\* What a request may become: mark is touched by Stop only, held by Swap, Take and Close.
Quiet(c, r) == r \in Request /\ InOrder(r) /\ r.mark = call[c].mark

LEMMA Replaced ==
  ASSUME NEW S, NEW T, NEW f \in [S -> T], NEW a \in S, NEW t \in T, NEW g, g = [f EXCEPT ![a] = t]
  PROVE  /\ g \in [S -> T] /\ g[a] = t
         /\ \A c \in S : c # a => g[c] = f[c]
  OBVIOUS

LEMMA Rewritten ==
  ASSUME procs \in Seq(Process), NEW q, q \in [Procs -> Process]
  PROVE  q \in Seq(Process) /\ Len(q) = Len(procs) /\ DOMAIN q = DOMAIN procs
  <1>1. Len(procs) \in Nat /\ Procs = 1 .. Len(procs)
    BY LenProperties DEF Procs
  <1>2. q \in [1 .. Len(procs) -> Process]
    BY <1>1
  <1>3. q \in Seq(Process)
    BY <1>1, <1>2, SeqDef
  <1> QED BY <1>1, <1>2, <1>3, LenProperties

-----------------------------------------------------------------------------
(* What the steps make of a request                                        *)

LEMMA FailedInOrder ==
  ASSUME TypeOK, Requests, NEW c \in Calls,
         call[c].pc \in {"fetch", "write", "start", "stop"},
         NEW r \in Request, r.op = call[c].op, r.pc = call[c].pc, r.cleaned = call[c].cleaned,
         r.finished = call[c].finished, r.restored = call[c].restored, r.held = call[c].held,
         NEW why \in {"failed", "not_launched", "not_stopped"}
  PROVE  /\ Failed(r, CleanUp(c), why) \in Request /\ InOrder(Failed(r, CleanUp(c), why))
         /\ Failed(r, CleanUp(c), why).mark = r.mark
         /\ Failed(r, CleanUp(c), why).finished = r.finished
         /\ Failed(r, CleanUp(c), why).held = None
         /\ Failed(r, CleanUp(c), why).op = r.op
         /\ Failed(r, CleanUp(c), why).restored = r.restored
         /\ Failed(r, CleanUp(c), why).pc \in {"finish", "close", "done"}
         /\ r.op = "run" => Failed(r, CleanUp(c), why).pc # "done"
  <1> DEFINE pc == CleanUp(c)
             f  == Failed(r, pc, why)
  <1>1. InOrder(call[c]) /\ call[c] \in Request
    BY DEF Requests, TypeOK
  <1>2. /\ pc \in {"finish", "close", "done"}
        /\ pc = "finish" <=> (r.op = "run" /\ ~r.cleaned)
        /\ pc = "done" <=> r.op # "run"
    BY DEF CleanUp, Testing, Closing
  <1>3. r.cleaned \in BOOLEAN /\ r.result \in Results
    BY DEF Request
  <1> HIDE DEF pc
  <1>4. /\ f \in Request
        /\ f.pc = pc /\ f.cleaned = (r.cleaned \/ pc = "finish") /\ f.op = r.op /\ f.finished = r.finished
        /\ f.restored = r.restored /\ f.held = r.held /\ f.mark = r.mark
    BY <1>2, <1>3 DEF Failed, Request, Places, Results
  <1>5. r.held = None
    BY <1>1 DEF InOrder
  <1> HIDE DEF f
  <1>6. InOrder(f)
    BY <1>1, <1>2, <1>4, <1>5 DEF InOrder
  <1> QED BY <1>2, <1>4, <1>5, <1>6 DEF f, pc

\* A request has moved on, in order; the others have not moved.
Turn(c) ==
  /\ call' \in [Calls -> Request]
  /\ InOrder(call'[c])
  /\ \A d \in Calls : d # c => call'[d] = call[d]

\* A step that has nothing to do with the slot or the benchmark services.
Ordinary(c) ==
  /\ Turn(c)
  /\ call[c].pc \notin {"idle", "swap", "take", "close", "done"}
  /\ call'[c].op = call[c].op /\ call'[c].held = None
  /\ call[c].op = "run" => call'[c].pc # "done"
  /\ UNCHANGED <<slot, open, crashes>>

LEMMA Turned ==
  ASSUME TypeOK, NEW c \in Calls, NEW r \in Request, InOrder(r), call' = [call EXCEPT ![c] = r]
  PROVE  Turn(c) /\ call'[c] = r
  <1>1. call \in [Calls -> Request]
    BY DEF TypeOK
  <1>2. call' \in [Calls -> Request] /\ call'[c] = r /\ \A d \in Calls : d # c => call'[d] = call[d]
    BY <1>1, Replaced
  <1> QED BY <1>2 DEF Turn

LEMMA FailTurns ==
  ASSUME TypeOK, Requests, NEW c \in Calls, call[c].pc \in {"fetch", "write", "start"},
         NEW why \in {"failed", "not_launched", "not_stopped"}, Fail(c, why), UNCHANGED <<slot, open, crashes>>
  PROVE  /\ Ordinary(c) /\ call'[c].mark = call[c].mark /\ call'[c].finished = call[c].finished
         /\ call'[c].restored = call[c].restored /\ call'[c].pc # "write"
  <1> DEFINE r == Failed(call[c], CleanUp(c), why)
  <1>1. call[c] \in Request
    BY DEF TypeOK
  <1>2. /\ r \in Request /\ InOrder(r) /\ r.mark = call[c].mark /\ r.finished = call[c].finished
        /\ r.held = None /\ r.op = call[c].op /\ r.restored = call[c].restored /\ r.pc \in {"finish", "close", "done"}
        /\ call[c].op = "run" => r.pc # "done"
    BY <1>1, FailedInOrder
  <1>3. call' = [call EXCEPT ![c] = r]
    BY DEF Fail
  <1> HIDE DEF r
  <1>4. Turn(c) /\ call'[c] = r
    BY <1>2, <1>3, Turned
  <1> QED BY <1>2, <1>4 DEF Ordinary

LEMMA FetchTurns ==
  ASSUME TypeOK, Requests, NEW c \in Calls, Fetch(c)
  PROVE  /\ Ordinary(c) /\ UNCHANGED <<procs, cmd, file, remote>>
         /\ call'[c].mark = call[c].mark /\ call'[c].finished = call[c].finished /\ ~call'[c].restored
         /\ call'[c].pc = "write" => call'[c].got \in Answers(c)
  <1>1. call[c] \in Request /\ InOrder(call[c]) /\ call[c].pc = "fetch" /\ UNCHANGED <<procs, cmd, file, remote, slot, open, crashes>>
    BY DEF TypeOK, Requests, Fetch, At
  <1>2. ~call[c].restored /\ call[c].held = None
    BY <1>1 DEF InOrder
  <1>3. ASSUME NEW got \in Answers(c), call' = [call EXCEPT ![c].got = got, ![c].pc = "write"]
        PROVE  /\ Ordinary(c) /\ call'[c].mark = call[c].mark /\ call'[c].finished = call[c].finished /\ ~call'[c].restored
               /\ call'[c].got = got
    <2> DEFINE r == [call[c] EXCEPT !.got = got, !.pc = "write"]
    <2>1. call' = [call EXCEPT ![c] = r]
      BY <1>3 DEF TypeOK
    <2>2. got \subseteq Calls
      BY DEF Answers, TypeOK
    <2>3. /\ r \in Request /\ r.pc = "write" /\ r.got = got
          /\ r.op = call[c].op /\ r.cleaned = call[c].cleaned /\ r.finished = call[c].finished /\ r.restored = call[c].restored
          /\ r.held = call[c].held /\ r.mark = call[c].mark /\ r.result = call[c].result
      BY <1>1, <2>2 DEF Request, Places
    <2> HIDE DEF r
    <2>4. InOrder(r)
      BY <1>1, <1>2, <2>3 DEF InOrder
    <2>5. Turn(c) /\ call'[c] = r
      BY <2>1, <2>3, <2>4, Turned
    <2> QED BY <1>1, <1>2, <2>3, <2>5 DEF Ordinary
  <1>4. ASSUME Fail(c, "failed")
        PROVE  /\ Ordinary(c) /\ call'[c].mark = call[c].mark /\ call'[c].finished = call[c].finished /\ ~call'[c].restored
               /\ call'[c].pc # "write"
    BY <1>1, <1>2, <1>4, FailTurns
  <1> QED BY <1>1, <1>3, <1>4 DEF Fetch

LEMMA WriteTurns ==
  ASSUME TypeOK, Requests, NEW c \in Calls, WriteConfig(c)
  PROVE  /\ Ordinary(c) /\ UNCHANGED <<procs, cmd, remote>>
         /\ call'[c].mark = call[c].mark /\ call'[c].finished = call[c].finished /\ call'[c].pc # "write"
         /\ call[c].pc = "write"
         /\ (UNCHANGED file /\ ~call'[c].restored) \/ file' = Rendered(c)
  <1>1. call[c] \in Request /\ InOrder(call[c]) /\ call[c].pc = "write" /\ UNCHANGED <<procs, cmd, remote, slot, open, crashes>>
    BY DEF TypeOK, Requests, WriteConfig, At
  <1>2. ~call[c].restored /\ call[c].held = None
    BY <1>1 DEF InOrder
  <1> DEFINE pc == IF call[c].op = "run" THEN "stop" ELSE "done"
  <1>3. ASSUME call' = [call EXCEPT ![c].pc = pc, ![c].restored = call[c].cleaned]
        PROVE  Ordinary(c) /\ call'[c].mark = call[c].mark /\ call'[c].finished = call[c].finished /\ call'[c].pc # "write"
    <2> DEFINE r == [call[c] EXCEPT !.pc = pc, !.restored = call[c].cleaned]
    <2>1. call' = [call EXCEPT ![c] = r]
      BY <1>3 DEF TypeOK
    <2>2. pc \in {"stop", "done"} /\ (pc = "done" <=> call[c].op # "run")
      OBVIOUS
    <2> HIDE DEF pc
    <2>3. /\ r \in Request /\ r.pc = pc /\ r.restored = call[c].cleaned
          /\ r.op = call[c].op /\ r.cleaned = call[c].cleaned /\ r.finished = call[c].finished
          /\ r.held = call[c].held /\ r.mark = call[c].mark /\ r.result = call[c].result
      BY <1>1, <2>2 DEF Request, Places
    <2> HIDE DEF r
    <2>4. InOrder(r)
      BY <1>1, <1>2, <2>2, <2>3 DEF InOrder
    <2>5. Turn(c) /\ call'[c] = r
      BY <2>1, <2>3, <2>4, Turned
    <2> QED BY <1>1, <1>2, <2>2, <2>3, <2>5 DEF Ordinary
  <1>4. ASSUME Fail(c, "failed")
        PROVE  /\ Ordinary(c) /\ call'[c].mark = call[c].mark /\ call'[c].finished = call[c].finished /\ ~call'[c].restored
               /\ call'[c].pc # "write"
    BY <1>1, <1>2, <1>4, FailTurns
  <1>5. (file' = Rendered(c) /\ call' = [call EXCEPT ![c].pc = pc, ![c].restored = call[c].cleaned]) \/ (Fail(c, "failed") /\ UNCHANGED file)
    BY DEF WriteConfig, NotWritten
  <1> HIDE DEF pc
  <1> QED BY <1>1, <1>3, <1>4, <1>5

LEMMA StopTurns ==
  ASSUME TypeOK, Requests, NEW c \in Calls, Stop(c)
  PROVE  /\ Ordinary(c) /\ UNCHANGED <<file, remote>>
         /\ call'[c].mark = Len(procs) /\ call'[c].finished = call[c].finished
         /\ call'[c].restored = call[c].restored /\ call'[c].pc # "write"
  <1> DEFINE n == Len(procs)
             stopped == [call[c] EXCEPT !.mark = n]
             ok == cmd = 0 \/ Killable(cmd)
             r == AfterStop(c, ok)
             pc == IF call[c].op = "stop" THEN "done" ELSE "start"
  <1>1. call[c] \in Request /\ InOrder(call[c]) /\ call[c].pc = "stop" /\ UNCHANGED <<file, remote, slot, open, crashes>>
    BY DEF TypeOK, Requests, Stop, At
  <1>2. call[c].held = None
    BY <1>1 DEF InOrder
  <1>3. n \in Nat
    BY LenProperties DEF TypeOK
  <1>4. call' = [call EXCEPT ![c] = r]
    BY DEF Stop
  <1>5. r = IF ok THEN [stopped EXCEPT !.pc = pc] ELSE Failed(stopped, CleanUp(c), "not_stopped")
    BY DEF AfterStop
  <1>6. pc \in {"start", "done"} /\ (pc = "done" <=> call[c].op = "stop")
    OBVIOUS
  <1> HIDE DEF ok, r, pc, n
  <1>7. /\ stopped \in Request /\ stopped.mark = n /\ stopped.pc = "stop"
        /\ stopped.op = call[c].op /\ stopped.cleaned = call[c].cleaned /\ stopped.finished = call[c].finished
        /\ stopped.restored = call[c].restored /\ stopped.held = None /\ stopped.result = call[c].result
    BY <1>1, <1>2, <1>3 DEF Request
  <1> HIDE DEF stopped
  <1>8. /\ r \in Request /\ InOrder(r) /\ r.mark = n /\ r.finished = call[c].finished
        /\ r.held = None /\ r.op = call[c].op /\ r.restored = call[c].restored /\ r.pc # "write"
        /\ call[c].op = "run" => r.pc # "done"
    <2>1. CASE ok
      <3>1. /\ r \in Request /\ r.pc = pc /\ r.mark = n /\ r.result = call[c].result
            /\ r.op = call[c].op /\ r.cleaned = call[c].cleaned /\ r.finished = call[c].finished
            /\ r.restored = call[c].restored /\ r.held = None
        BY <1>5, <1>6, <1>7, <2>1 DEF Request, Places
      <3> QED BY <1>1, <1>6, <3>1 DEF InOrder
    <2>2. CASE ~ok
      <3>1. r = Failed(stopped, CleanUp(c), "not_stopped")
        BY <1>5, <2>2
      <3> QED BY <1>1, <1>2, <1>7, <3>1, FailedInOrder
    <2> QED BY <2>1, <2>2
  <1>9. Turn(c) /\ call'[c] = r
    BY <1>4, <1>8, Turned
  <1> QED BY <1>1, <1>8, <1>9 DEF Ordinary, n

LEMMA StartTurns ==
  ASSUME TypeOK, Requests, NEW c \in Calls, Start(c)
  PROVE  /\ Ordinary(c) /\ UNCHANGED <<file, remote>>
         /\ call'[c].mark = call[c].mark /\ call'[c].finished = call[c].finished
         /\ call'[c].restored = call[c].restored /\ call'[c].pc # "write"
  <1>1. call[c] \in Request /\ InOrder(call[c]) /\ call[c].pc = "start" /\ UNCHANGED <<file, remote, slot, open, crashes>>
    BY DEF TypeOK, Requests, Start, At
  <1>2. call[c].held = None
    BY <1>1 DEF InOrder
  <1>3. ASSUME Go(c, Started(c))
        PROVE  /\ Ordinary(c) /\ call'[c].mark = call[c].mark /\ call'[c].finished = call[c].finished
               /\ call'[c].restored = call[c].restored /\ call'[c].pc # "write"
    <2> DEFINE pc == Started(c)
               r == [call[c] EXCEPT !.pc = pc]
    <2>1. call' = [call EXCEPT ![c] = r]
      BY <1>3 DEF Go
    <2>2. /\ pc \in {"probe", "close", "done"}
          /\ pc = "probe" <=> (call[c].op = "run" /\ ~call[c].cleaned)
          /\ pc = "done" <=> call[c].op # "run"
      BY DEF Started, Testing, Closing
    <2> HIDE DEF pc
    <2>3. /\ r \in Request /\ r.pc = pc /\ r.mark = call[c].mark /\ r.result = call[c].result
          /\ r.op = call[c].op /\ r.cleaned = call[c].cleaned /\ r.finished = call[c].finished
          /\ r.restored = call[c].restored /\ r.held = None
      BY <1>1, <1>2, <2>2 DEF Request, Places
    <2> HIDE DEF r
    <2>4. InOrder(r)
      BY <1>1, <2>2, <2>3 DEF InOrder
    <2>5. Turn(c) /\ call'[c] = r
      BY <2>1, <2>3, <2>4, Turned
    <2> QED BY <1>1, <2>2, <2>3, <2>5 DEF Ordinary
  <1>4. ASSUME Fail(c, "not_launched")
        PROVE  /\ Ordinary(c) /\ call'[c].mark = call[c].mark /\ call'[c].finished = call[c].finished
               /\ call'[c].restored = call[c].restored /\ call'[c].pc # "write"
    BY <1>1, <1>4, FailTurns
  <1> QED BY <1>1, <1>3, <1>4 DEF Start, NotLaunched

LEMMA CreateTurns ==
  ASSUME TypeOK, Requests, NEW c \in Calls, Create(c)
  PROVE  /\ Ordinary(c) /\ UNCHANGED <<procs, cmd, file>> /\ remote' \subseteq remote \union {c}
         /\ call'[c].mark = call[c].mark /\ ~call'[c].finished /\ ~call'[c].restored /\ call'[c].pc # "write"
  <1>1. /\ call[c] \in Request /\ InOrder(call[c]) /\ call[c].pc = "create"
        /\ UNCHANGED <<procs, cmd, file, slot, open, crashes>> /\ remote' \subseteq remote \union {c}
    BY DEF TypeOK, Requests, Create, At
  <1>2. /\ call[c].held = None /\ call[c].op = "run" /\ call[c].cleaned \in BOOLEAN /\ ~call[c].cleaned
        /\ ~call[c].finished /\ ~call[c].restored
    BY <1>1 DEF InOrder, Request
  <1>3. ASSUME NEW pc \in {"fetch", "close"}, NEW result \in Results, pc = "close" => result = "not_created",
               NEW r, r = [call[c] EXCEPT !.pc = pc, !.result = result], call' = [call EXCEPT ![c] = r]
        PROVE  Ordinary(c) /\ call'[c].mark = call[c].mark /\ ~call'[c].finished /\ ~call'[c].restored /\ call'[c].pc # "write"
    <2>1. /\ r \in Request /\ r.pc = pc /\ r.result = result
          /\ r.op = call[c].op /\ r.cleaned = call[c].cleaned /\ r.finished = call[c].finished
          /\ r.restored = call[c].restored /\ r.held = call[c].held /\ r.mark = call[c].mark
      BY <1>1, <1>3 DEF Request, Places
    <2>2. InOrder(r)
      BY <1>2, <1>3, <2>1 DEF InOrder
    <2>3. Turn(c) /\ call'[c] = r
      BY <1>3, <2>1, <2>2, Turned
    <2> QED BY <1>1, <1>2, <1>3, <2>1, <2>3 DEF Ordinary
  <1>4. CASE Go(c, "fetch")
    <2> DEFINE r == [call[c] EXCEPT !.pc = "fetch", !.result = call[c].result]
    <2>1. call' = [call EXCEPT ![c] = r]
      <3>1. r = [call[c] EXCEPT !.pc = "fetch"]
        BY <1>1 DEF Request
      <3> QED BY <1>4, <3>1 DEF Go
    <2>2. call[c].result \in Results
      BY <1>1 DEF Request
    <2>3. r = [call[c] EXCEPT !.pc = "fetch", !.result = call[c].result]
      OBVIOUS
    <2> HIDE DEF r
    <2> QED BY <1>1, <1>3, <2>1, <2>2, <2>3
  <1>5. CASE call' = [call EXCEPT ![c].pc = "close", ![c].result = "not_created"]
    <2> DEFINE r == [call[c] EXCEPT !.pc = "close", !.result = "not_created"]
    <2>1. call' = [call EXCEPT ![c] = r]
      BY <1>5 DEF TypeOK
    <2>2. r = [call[c] EXCEPT !.pc = "close", !.result = "not_created"]
      OBVIOUS
    <2>3. "not_created" \in Results
      BY DEF Results
    <2> HIDE DEF r
    <2> QED BY <1>1, <1>3, <2>1, <2>2, <2>3
  <1> QED BY <1>4, <1>5 DEF Create

LEMMA ProbeTurns ==
  ASSUME TypeOK, Requests, NEW c \in Calls, Probe(c)
  PROVE  /\ Ordinary(c) /\ UNCHANGED <<procs, cmd, file, remote>>
         /\ call'[c].mark = call[c].mark /\ call'[c].finished = call[c].finished /\ ~call'[c].restored /\ call'[c].pc # "write"
  <1> DEFINE r == [call[c] EXCEPT !.pc = "finish", !.cleaned = TRUE]
  <1>1. /\ call[c] \in Request /\ InOrder(call[c]) /\ call[c].pc = "probe"
        /\ UNCHANGED <<procs, cmd, file, remote, slot, open, crashes>>
    BY DEF TypeOK, Requests, Probe, At
  <1>2. call[c].held = None /\ call[c].op = "run" /\ ~call[c].restored
    BY <1>1 DEF InOrder
  <1>3. call' = [call EXCEPT ![c] = r]
    BY DEF Probe, TypeOK
  <1>4. /\ r \in Request /\ r.pc = "finish" /\ r.cleaned = TRUE /\ r.result = call[c].result
        /\ r.op = call[c].op /\ r.finished = call[c].finished
        /\ r.restored = call[c].restored /\ r.held = call[c].held /\ r.mark = call[c].mark
    BY <1>1 DEF Request, Places
  <1> HIDE DEF r
  <1>5. InOrder(r)
    BY <1>1, <1>2, <1>4 DEF InOrder
  <1>6. Turn(c) /\ call'[c] = r
    BY <1>3, <1>4, <1>5, Turned
  <1> QED BY <1>1, <1>2, <1>4, <1>6 DEF Ordinary

LEMMA FinishTurns ==
  ASSUME TypeOK, Requests, NEW c \in Calls, Finish(c)
  PROVE  /\ Ordinary(c) /\ UNCHANGED <<procs, cmd, file>> /\ remote' \subseteq remote
         /\ call'[c].mark = call[c].mark /\ (call'[c].finished => c \notin remote') /\ ~call'[c].restored /\ call'[c].pc # "write"
  <1> DEFINE ended == c \notin remote'
             r == [call[c] EXCEPT !.pc = "fetch", !.finished = ended]
  <1>1. /\ call[c] \in Request /\ InOrder(call[c]) /\ call[c].pc = "finish"
        /\ UNCHANGED <<procs, cmd, file, slot, open, crashes>> /\ remote' \subseteq remote
    BY DEF TypeOK, Requests, Finish, At, Ended
  <1>2. call[c].held = None /\ call[c].op = "run" /\ call[c].cleaned /\ ~call[c].restored
    BY <1>1 DEF InOrder
  <1>3. call' = [call EXCEPT ![c] = r]
    BY DEF Finish, TypeOK
  <1>4. ended \in BOOLEAN /\ (ended => c \notin remote')
    OBVIOUS
  <1> HIDE DEF ended
  <1>5. /\ r \in Request /\ r.pc = "fetch" /\ r.finished = ended /\ r.result = call[c].result
        /\ r.op = call[c].op /\ r.cleaned = call[c].cleaned
        /\ r.restored = call[c].restored /\ r.held = call[c].held /\ r.mark = call[c].mark
    BY <1>1, <1>4 DEF Request, Places
  <1> HIDE DEF r
  <1>6. InOrder(r)
    BY <1>1, <1>2, <1>5 DEF InOrder
  <1>7. Turn(c) /\ call'[c] = r
    BY <1>3, <1>5, <1>6, Turned
  <1> QED BY <1>1, <1>2, <1>4, <1>5, <1>7 DEF Ordinary

\* The steps of a request that are not ordinary.
LEMMA BeginTurns ==
  ASSUME TypeOK, Requests, NEW c \in Calls, NEW op \in Operations, NEW got \in SUBSET Calls, Begin(c, op, got)
  PROVE  /\ Turn(c) /\ UNCHANGED <<procs, cmd, file, remote, slot, crashes>> /\ open' = open \union Opened(c, op)
         /\ call'[c].mark = call[c].mark /\ ~call'[c].finished /\ ~call'[c].restored
         /\ call'[c].op = op /\ call'[c].pc = First(op) /\ call'[c].held = None /\ call[c].held = None /\ call[c].pc = "idle"
  <1> DEFINE pc == First(op)
             r == [call[c] EXCEPT !.op = op, !.pc = pc, !.got = got]
  <1>1. /\ call[c] \in Request /\ InOrder(call[c]) /\ call[c].pc = "idle" /\ open' = open \union Opened(c, op)
        /\ UNCHANGED <<procs, cmd, file, remote, slot, crashes>>
    BY DEF TypeOK, Requests, Begin, At
  <1>2. call[c].cleaned \in BOOLEAN /\ call[c].held = None /\ ~call[c].cleaned /\ ~call[c].finished /\ ~call[c].restored
    BY <1>1 DEF InOrder, Request
  <1>3. call' = [call EXCEPT ![c] = r]
    BY DEF Begin, TypeOK
  <1>4. /\ pc \in {"start", "stop", "fetch", "write", "create", "swap", "take"}
        /\ pc = "create" => op = "run"
        /\ pc = "swap" => op = "prepare"
        /\ pc = "take" => op = "cleanup"
    BY DEF First, Operations
  <1> HIDE DEF pc
  <1>5. /\ r \in Request /\ r.pc = pc /\ r.op = op /\ r.finished = call[c].finished /\ r.result = call[c].result
        /\ r.cleaned = call[c].cleaned
        /\ r.restored = call[c].restored /\ r.held = call[c].held /\ r.mark = call[c].mark
    BY <1>1, <1>4 DEF Request, Places
  <1> HIDE DEF r
  <1>6. InOrder(r)
    BY <1>1, <1>2, <1>4, <1>5 DEF InOrder
  <1>7. Turn(c) /\ call'[c] = r
    BY <1>3, <1>5, <1>6, Turned
  <1> QED BY <1>1, <1>2, <1>5, <1>7 DEF pc

\* Swap and Take.
LEMMA ExchangeTurns ==
  ASSUME TypeOK, Requests, NEW c \in Calls, call[c].pc \in {"swap", "take"},
         call' = [call EXCEPT ![c].held = slot, ![c].pc = "close"]
  PROVE  /\ Turn(c) /\ call'[c].mark = call[c].mark /\ call'[c].finished = call[c].finished /\ ~call'[c].restored
         /\ call'[c].held = slot /\ call[c].held = None /\ call'[c].pc = "close" /\ call[c].op # "run" /\ call'[c].op = call[c].op
  <1> DEFINE r == [call[c] EXCEPT !.held = slot, !.pc = "close"]
  <1>1. call[c] \in Request /\ InOrder(call[c]) /\ slot \in Calls \union {None}
    BY DEF TypeOK, Requests
  <1>2. call[c].held = None /\ call[c].op # "run" /\ ~call[c].restored /\ ~call[c].cleaned /\ ~call[c].finished
    BY <1>1 DEF InOrder
  <1>3. call' = [call EXCEPT ![c] = r]
    BY DEF TypeOK
  <1>4. /\ r \in Request /\ r.pc = "close" /\ r.held = slot /\ r.finished = call[c].finished /\ r.result = call[c].result
        /\ r.op = call[c].op /\ r.cleaned = call[c].cleaned /\ r.restored = call[c].restored /\ r.mark = call[c].mark
    BY <1>1 DEF Request, Places
  <1> HIDE DEF r
  <1>5. InOrder(r)
    BY <1>2, <1>4 DEF InOrder
  <1>6. Turn(c) /\ call'[c] = r
    BY <1>3, <1>4, <1>5, Turned
  <1> QED BY <1>1, <1>2, <1>4, <1>6

LEMMA CloseTurns ==
  ASSUME TypeOK, Requests, NEW c \in Calls, Close(c)
  PROVE  /\ Turn(c) /\ UNCHANGED <<procs, cmd, file, remote, slot, crashes>>
         /\ call'[c].mark = call[c].mark /\ call'[c].finished = call[c].finished /\ call'[c].restored = call[c].restored
         /\ call'[c].pc = "done" /\ call[c].pc = "close" /\ call'[c].op = call[c].op
         /\ open' = open \ {IF call[c].op = "run" THEN c ELSE call[c].held}
  <1> DEFINE r == [call[c] EXCEPT !.held = None, !.pc = "done"]
  <1>1. /\ call[c] \in Request /\ InOrder(call[c]) /\ call[c].pc = "close"
        /\ open' = open \ {IF call[c].op = "run" THEN c ELSE call[c].held}
        /\ UNCHANGED <<procs, cmd, file, remote, slot, crashes>>
    BY DEF TypeOK, Requests, Close, At
  <1>3. call' = [call EXCEPT ![c] = r]
    BY DEF Close, TypeOK
  <1>4. /\ r \in Request /\ r.pc = "done" /\ r.held = None /\ r.finished = call[c].finished /\ r.result = call[c].result
        /\ r.op = call[c].op /\ r.cleaned = call[c].cleaned /\ r.restored = call[c].restored /\ r.mark = call[c].mark
    BY <1>1 DEF Request, Places
  <1> HIDE DEF r
  <1>5. InOrder(r)
    BY <1>1, <1>4 DEF InOrder
  <1>6. Turn(c) /\ call'[c] = r
    BY <1>3, <1>4, <1>5, Turned
  <1> QED BY <1>1, <1>4, <1>6

LEMMA CrashTurns ==
  ASSUME TypeOK, Requests, Crash
  PROVE  /\ call' \in [Calls -> Request] /\ Requests'
         /\ \A c \in Calls : /\ call'[c].mark = call[c].mark /\ call'[c].finished = call[c].finished
                             /\ call'[c].restored = call[c].restored /\ call'[c].pc # "write"
  <1>1. call' = [c \in Calls |-> IF call[c].pc \in {"idle", "done"} THEN call[c]
                                ELSE [call[c] EXCEPT !.pc = "done", !.held = None, !.result = "died"]]
    BY DEF Crash
  <1>2. ASSUME NEW c \in Calls
        PROVE  /\ call'[c] \in Request /\ InOrder(call'[c])
               /\ call'[c].mark = call[c].mark /\ call'[c].finished = call[c].finished
               /\ call'[c].restored = call[c].restored /\ call'[c].pc # "write"
    <2>1. call[c] \in Request /\ InOrder(call[c])
      BY DEF TypeOK, Requests
    <2>2. CASE call[c].pc \in {"idle", "done"}
      <3>1. call'[c] = call[c]
        BY <1>1, <2>2
      <3> QED BY <2>1, <2>2, <3>1
    <2>3. CASE call[c].pc \notin {"idle", "done"}
      <3> DEFINE r == [call[c] EXCEPT !.pc = "done", !.held = None, !.result = "died"]
      <3>1. call'[c] = r
        BY <1>1, <2>3
      <3>2. /\ r \in Request /\ r.pc = "done" /\ r.held = None /\ r.finished = call[c].finished /\ r.result = "died"
            /\ r.op = call[c].op /\ r.cleaned = call[c].cleaned /\ r.restored = call[c].restored /\ r.mark = call[c].mark
        BY <2>1 DEF Request, Places, Results
      <3> HIDE DEF r
      <3>3. InOrder(r)
        BY <2>1, <3>2 DEF InOrder
      <3> QED BY <3>1, <3>2, <3>3
    <2> QED BY <2>2, <2>3
  <1>3. call' \in [Calls -> Request]
    <2>1. DOMAIN call' = Calls /\ call' = [c \in Calls |-> call'[c]]
      BY <1>1
    <2> QED BY <1>2, <2>1
  <1> QED BY <1>2, <1>3 DEF Requests

-----------------------------------------------------------------------------
(* The processes                                                           *)

\* No frpc that did not serve begins to, except one launched as m.cmd.
LifeGoesOn ==
  /\ procs' \in Seq(Process) /\ cmd' \in {0} \union Procs'
  /\ Len(procs) <= Len(procs')
  /\ OneServing'
  /\ \A p \in Procs : Serving(p)' => Serving(p)

LEMMA ProcsAre == TypeOK => Procs = 1 .. Len(procs) /\ Len(procs) \in Nat /\ \A p \in Procs : procs[p] \in Process
  BY LenProperties, ElementOfSeq DEF TypeOK, Procs

\* Processes change, none is launched.
LEMMA LivesOn ==
  ASSUME TypeOK, OneServing, procs' \in [Procs -> Process], cmd' \in {0, cmd},
         \A p \in Procs : Serving(p)' => Serving(p) /\ cmd' = cmd
  PROVE  LifeGoesOn
  <1>1. procs' \in Seq(Process) /\ Len(procs') = Len(procs) /\ Procs' = Procs
    BY Rewritten DEF TypeOK, Procs
  <1>2. cmd' \in {0} \union Procs'
    BY <1>1 DEF TypeOK
  <1>3. OneServing'
    <2> SUFFICES ASSUME NEW p \in Procs', Serving(p)' PROVE p = cmd'
      BY DEF OneServing
    <2> QED BY <1>1 DEF OneServing
  <1>4. Len(procs) \in Nat
    BY ProcsAre
  <1> QED BY <1>1, <1>2, <1>3, <1>4 DEF LifeGoesOn

LEMMA LivesUnchanged ==
  ASSUME TypeOK, OneServing, UNCHANGED <<procs, cmd>>
  PROVE  LifeGoesOn
  <1>1. Procs' = Procs /\ Len(procs) \in Nat
    BY ProcsAre DEF Procs
  <1>2. ASSUME NEW p \in Procs PROVE Serving(p)' <=> Serving(p)
    BY DEF Serving, Alive
  <1> QED BY <1>1, <1>2 DEF LifeGoesOn, TypeOK, OneServing

LEMMA StopLives ==
  ASSUME TypeOK, OneServing, NEW c \in Calls, Stop(c)
  PROVE  LifeGoesOn /\ \A p \in Procs : ~Serving(p)'
  <1>1. /\ cmd' = 0
        /\ procs' = [p \in Procs |-> IF p = cmd /\ Killable(p) THEN [procs[p] EXCEPT !.killed = TRUE] ELSE procs[p]]
    BY DEF Stop
  <1>2. ASSUME NEW p \in Procs PROVE procs'[p] \in Process /\ ~Serving(p)'
    <2>1. procs[p] \in Process
      BY ProcsAre
    <2>2. CASE p = cmd /\ Killable(p)
      <3>1. procs'[p] = [procs[p] EXCEPT !.killed = TRUE]
        BY <1>1, <2>2
      <3>2. procs'[p] \in Process /\ procs'[p].killed
        BY <2>1, <3>1 DEF Process
      <3> QED BY <3>2 DEF Serving
    <2>3. CASE ~(p = cmd /\ Killable(p))
      <3>1. procs'[p] = procs[p]
        BY <1>1, <2>3
      <3>2. Serving(p) => p = cmd /\ Killable(p)
        BY DEF OneServing, Serving, Alive, Killable
      <3> QED BY <2>1, <2>3, <3>1, <3>2 DEF Serving, Alive
    <2> QED BY <2>2, <2>3
  <1>3. procs' \in [Procs -> Process]
    BY <1>1, <1>2
  <1> QED BY <1>1, <1>2, <1>3, LivesOn

LEMMA StartLives ==
  ASSUME TypeOK, OneServing, NEW c \in Calls, Start(c)
  PROVE  LifeGoesOn
  <1> DEFINE new == [life |-> "alive", killed |-> FALSE, mine |-> TRUE]
  <1>1. CASE UNCHANGED <<procs, cmd>>
    BY <1>1, LivesUnchanged
  <1>2. ASSUME FALSE \in SeenRunning, procs' = Append(procs, new), cmd' = Len(procs') PROVE LifeGoesOn
    <2>1. new \in Process
      BY DEF Process
    <2>2. Procs = 1 .. Len(procs) /\ Len(procs) \in Nat /\ procs \in Seq(Process) /\ cmd \in {0} \union Procs
      BY ProcsAre DEF TypeOK
    <2> HIDE DEF new
    <2>3. /\ procs' \in Seq(Process) /\ Len(procs') = Len(procs) + 1
          /\ \A p \in 1 .. Len(procs) : procs'[p] = procs[p]
      BY <1>2, <2>1, <2>2, AppendProperties
    <2>4. Procs' = 1 .. Len(procs) + 1
      BY <2>2, <2>3, LenProperties DEF Procs
    <2>5. cmd = 0 \/ ~Killable(cmd)
      BY <1>2 DEF SeenRunning
    <2>6. ASSUME NEW p \in Procs PROVE ~Serving(p)'
      <3>1. procs'[p] = procs[p]
        BY <2>2, <2>3
      <3>2. ~Serving(p)
        <4>1. Serving(p) => p = cmd /\ Killable(p) /\ p # 0
          BY <2>2 DEF OneServing, Serving, Alive, Killable
        <4> QED BY <2>5, <4>1
      <3> QED BY <3>1, <3>2 DEF Serving, Alive
    <2>7. OneServing'
      <3> SUFFICES ASSUME NEW p \in Procs', Serving(p)' PROVE p = cmd'
        BY DEF OneServing
      <3>1. p \notin Procs
        BY <2>6
      <3> QED BY <1>2, <2>2, <2>3, <2>4, <3>1
    <2>8. cmd' \in Procs' /\ Len(procs) <= Len(procs')
      BY <1>2, <2>2, <2>3, <2>4
    <2> QED BY <2>3, <2>6, <2>7, <2>8 DEF LifeGoesOn
  <1> QED BY <1>1, <1>2 DEF Start, NotLaunched

LEMMA OsLives ==
  ASSUME TypeOK, OneServing, NEW p \in Procs, Exit(p) \/ Reap(p) \/ Clear(p)
  PROVE  LifeGoesOn
  <1>1. PICK life \in {"exited", "reaped", "cleared"} : procs' = [procs EXCEPT ![p].life = life]
    BY DEF Exit, Reap, Clear
  <1>2. cmd' \in {0, cmd} /\ (cmd' # cmd => cmd = p)
    BY DEF Exit, Reap, Clear
  <1>3. procs \in [Procs -> Process]
    <2>1. Procs = 1 .. Len(procs) /\ procs \in Seq(Process)
      BY ProcsAre DEF TypeOK
    <2> QED BY <2>1, LenProperties
  <1>4. [procs[p] EXCEPT !.life = life] \in Process /\ [procs[p] EXCEPT !.life = life].life # "alive"
    BY <1>3 DEF Process
  <1> DEFINE t == [procs[p] EXCEPT !.life = life]
  <1>5. procs' = [procs EXCEPT ![p] = t]
    BY <1>1
  <1>6. t \in Process /\ t.life # "alive"
    BY <1>4
  <1> HIDE DEF t
  <1>7. procs' \in [Procs -> Process] /\ procs'[p] = t /\ \A q \in Procs : q # p => procs'[q] = procs[q]
    BY <1>3, <1>5, <1>6, Replaced
  <1>8. ASSUME NEW q \in Procs, Serving(q)' PROVE Serving(q) /\ cmd' = cmd
    <2>1. q # p
      BY <1>6, <1>7, <1>8 DEF Serving, Alive
    <2>2. Serving(q)
      BY <1>7, <1>8, <2>1 DEF Serving, Alive
    <2>3. q = cmd
      BY <2>2 DEF OneServing
    <2> QED BY <1>2, <2>1, <2>2, <2>3
  <1> QED BY <1>2, <1>7, <1>8, LivesOn

LEMMA CrashLives ==
  ASSUME TypeOK, OneServing, Crash
  PROVE  LifeGoesOn
  <1>1. cmd' = 0 /\ procs' = [p \in Procs |-> [procs[p] EXCEPT !.mine = FALSE, !.life = IF @ = "reaped" THEN "cleared" ELSE @]]
    BY DEF Crash
  <1>2. ASSUME NEW p \in Procs PROVE procs'[p] \in Process /\ ~Serving(p)'
    <2>1. procs[p] \in Process
      BY ProcsAre
    <2> DEFINE life == IF procs[p].life = "reaped" THEN "cleared" ELSE procs[p].life
               t == [procs[p] EXCEPT !.mine = FALSE, !.life = life]
    <2>2. procs'[p] = t
      BY <1>1, <2>1
    <2>3. life \in {"alive", "exited", "reaped", "cleared"}
      BY <2>1 DEF Process
    <2> HIDE DEF life
    <2>4. t \in Process /\ t.mine = FALSE
      BY <2>1, <2>3 DEF Process
    <2> QED BY <2>2, <2>4 DEF Serving
  <1>3. procs' \in [Procs -> Process]
    BY <1>1, <1>2
  <1> QED BY <1>1, <1>2, <1>3, LivesOn

-----------------------------------------------------------------------------
(* What requests share                                                     *)

\* A test the server was told to end is not in what the request is about to write.
EndedOf(c)  == call[c].finished => c \notin remote /\ (call[c].pc = "write" => c \notin call[c].got)
EndedTests  == \A c \in Calls : EndedOf(c)

RestoredOf(c) == call[c].finished /\ call[c].restored /\ file.by = c => c \notin file.cfg

LEMMA SharedStep ==
  ASSUME EndedTests, ConfigRestored, NEW c \in Calls, Turn(c), remote' \subseteq remote \union {c},
         UNCHANGED file \/ file'.by = c, EndedOf(c)', RestoredOf(c)'
  PROVE  EndedTests' /\ ConfigRestored'
  <1>1. ASSUME NEW d \in Calls, d # c PROVE EndedOf(d)' /\ RestoredOf(d)'
    <2>1. call'[d] = call[d]
      BY <1>1 DEF Turn
    <2>2. EndedOf(d) /\ RestoredOf(d)
      BY DEF EndedTests, ConfigRestored, RestoredOf
    <2> QED BY <1>1, <2>1, <2>2 DEF EndedOf, RestoredOf
  <1>2. \A d \in Calls : EndedOf(d)' /\ RestoredOf(d)'
    <2>1. ASSUME NEW d \in Calls PROVE EndedOf(d)' /\ RestoredOf(d)'
      <3>1. CASE d = c
        BY <3>1
      <3>2. CASE d # c
        BY <1>1, <3>2
      <3> QED BY <3>1, <3>2
    <2> QED BY <2>1
  <1> QED BY <1>2 DEF EndedTests, ConfigRestored, RestoredOf

\* Who can still close benchmark b.
Owned(b) ==
  \/ slot = b
  \/ At(b, "swap") \/ (call[b].op = "run" /\ ~Done(b))
  \/ \E c \in Calls : call[c].held = b /\ ~Done(c)

LEMMA OrdinaryOwned ==
  ASSUME TypeOK, Requests, BenchmarksOwned, NEW c \in Calls, Ordinary(c)
  PROVE  BenchmarksOwned'
  <1>1. ASSUME NEW b \in open PROVE Owned(b)'
    <2>1. b \in Calls /\ Owned(b) /\ b # None
      BY FrpcConstants DEF TypeOK, BenchmarksOwned, Owned
    <2>2. CASE slot = b
      BY <2>2 DEF Ordinary, Owned
    <2>3. CASE At(b, "swap")
      <3>1. call'[b] = call[b]
        BY <2>1, <2>3 DEF Ordinary, Turn, At
      <3> QED BY <2>3, <3>1 DEF Owned, At
    <2>4. CASE call[b].op = "run" /\ ~Done(b)
      <3>1. CASE b = c
        BY <2>4, <3>1 DEF Ordinary, Owned, Done
      <3>2. CASE b # c
        <4>1. call'[b] = call[b]
          BY <2>1, <3>2 DEF Ordinary, Turn
        <4> QED BY <2>4, <4>1 DEF Owned, Done
      <3> QED BY <3>1, <3>2
    <2>5. ASSUME NEW d \in Calls, call[d].held = b, ~Done(d) PROVE Owned(b)'
      <3>1. d # c
        <4>1. call[c].held = None
          BY DEF Requests, InOrder, Ordinary
        <4> QED BY <2>1, <2>5, <4>1
      <3>2. call'[d] = call[d]
        BY <3>1 DEF Ordinary, Turn
      <3> QED BY <2>5, <3>2 DEF Owned, Done
    <2> QED BY <2>1, <2>2, <2>3, <2>4, <2>5 DEF Owned
  <1>2. open' = open
    BY DEF Ordinary
  <1> QED BY <1>1, <1>2 DEF BenchmarksOwned, Owned

LEMMA BeginOwned ==
  ASSUME TypeOK, Requests, BenchmarksOwned, NEW c \in Calls, NEW op \in Operations, NEW got \in SUBSET Calls, Begin(c, op, got)
  PROVE  BenchmarksOwned'
  <1>1. /\ \A d \in Calls : d # c => call'[d] = call[d]
        /\ slot' = slot /\ open' = open \union Opened(c, op)
        /\ call'[c].op = op /\ call'[c].pc = First(op) /\ call[c].pc = "idle" /\ call[c].held = None
    BY BeginTurns DEF Turn
  <1>2. call[c].op = "none"
    BY <1>1 DEF Requests, InOrder
  <1>3. ASSUME NEW b \in open PROVE Owned(b)'
    <2>1. b \in Calls /\ Owned(b) /\ b # None
      BY FrpcConstants DEF TypeOK, BenchmarksOwned, Owned
    <2>2. CASE slot = b
      BY <1>1, <2>2 DEF Owned
    <2>3. CASE At(b, "swap") \/ (call[b].op = "run" /\ ~Done(b))
      <3>1. b # c
        BY <1>1, <1>2, <2>3 DEF At
      <3>2. call'[b] = call[b]
        BY <1>1, <2>1, <3>1
      <3> QED BY <2>3, <3>2 DEF Owned, At, Done
    <2>4. ASSUME NEW d \in Calls, call[d].held = b, ~Done(d) PROVE Owned(b)'
      <3>1. call'[d] = call[d]
        BY <1>1, <2>1, <2>4
      <3> QED BY <2>4, <3>1 DEF Owned, Done
    <2> QED BY <2>1, <2>2, <2>3, <2>4 DEF Owned
  <1>4. ASSUME NEW b \in Opened(c, op) PROVE Owned(b)'
    <2>1. b = c /\ op \in {"run", "prepare"}
      BY DEF Opened
    <2>2. CASE op = "run"
      <3>1. First(op) = "create"
        BY <2>2 DEF First
      <3> QED BY <1>1, <2>1, <2>2, <3>1 DEF Owned, Done
    <2>3. CASE op = "prepare"
      <3>1. First(op) = "swap"
        BY <2>3 DEF First
      <3> QED BY <1>1, <2>1, <3>1 DEF Owned, At
    <2> QED BY <2>1, <2>2, <2>3
  <1> QED BY <1>1, <1>3, <1>4 DEF BenchmarksOwned, Owned

LEMMA ExchangeOwned ==
  ASSUME TypeOK, Requests, BenchmarksOwned, NEW c \in Calls, Swap(c) \/ Take(c)
  PROVE  BenchmarksOwned'
  <1>1. /\ call[c].pc \in {"swap", "take"} /\ call' = [call EXCEPT ![c].held = slot, ![c].pc = "close"]
        /\ UNCHANGED open /\ (call[c].pc = "swap" => slot' = c)
    BY DEF Swap, Take, At
  <1>2. /\ \A d \in Calls : d # c => call'[d] = call[d]
        /\ call'[c].held = slot /\ call[c].held = None /\ call'[c].pc = "close" /\ call[c].op # "run"
    BY <1>1, ExchangeTurns DEF Turn
  <1>3. ASSUME NEW b \in open PROVE Owned(b)'
    <2>1. b \in Calls /\ Owned(b) /\ b # None
      BY FrpcConstants DEF TypeOK, BenchmarksOwned, Owned
    <2>2. CASE slot = b
      BY <1>2, <2>2 DEF Owned, Done
    <2>3. CASE At(b, "swap") \/ (call[b].op = "run" /\ ~Done(b))
      <3>1. CASE b = c
        BY <1>1, <1>2, <2>3, <3>1 DEF Owned, At
      <3>2. CASE b # c
        <4>1. call'[b] = call[b]
          BY <1>2, <2>1, <3>2
        <4> QED BY <2>3, <4>1 DEF Owned, At, Done
      <3> QED BY <3>1, <3>2
    <2>4. ASSUME NEW d \in Calls, call[d].held = b, ~Done(d) PROVE Owned(b)'
      <3>1. call'[d] = call[d]
        BY <1>2, <2>1, <2>4
      <3> QED BY <2>4, <3>1 DEF Owned, Done
    <2> QED BY <2>1, <2>2, <2>3, <2>4 DEF Owned
  <1> QED BY <1>1, <1>3 DEF BenchmarksOwned, Owned

LEMMA CloseOwned ==
  ASSUME TypeOK, Requests, BenchmarksOwned, NEW c \in Calls, Close(c)
  PROVE  BenchmarksOwned'
  <1>1. /\ \A d \in Calls : d # c => call'[d] = call[d]
        /\ slot' = slot /\ open' = open \ {IF call[c].op = "run" THEN c ELSE call[c].held} /\ call[c].pc = "close"
    BY CloseTurns DEF Turn
  <1>2. ASSUME NEW b \in open, b # IF call[c].op = "run" THEN c ELSE call[c].held PROVE Owned(b)'
    <2>1. b \in Calls /\ Owned(b) /\ b # None
      BY FrpcConstants DEF TypeOK, BenchmarksOwned, Owned
    <2>2. CASE slot = b
      BY <1>1, <2>2 DEF Owned
    <2>3. CASE At(b, "swap") \/ (call[b].op = "run" /\ ~Done(b))
      <3>1. b # c
        BY <1>1, <1>2, <2>3 DEF At
      <3>2. call'[b] = call[b]
        BY <1>1, <2>1, <3>1
      <3> QED BY <2>3, <3>2 DEF Owned, At, Done
    <2>4. ASSUME NEW d \in Calls, call[d].held = b, ~Done(d) PROVE Owned(b)'
      <3>1. d # c
        BY <1>2, <2>1, <2>4 DEF Requests, InOrder
      <3>2. call'[d] = call[d]
        BY <1>1, <3>1
      <3> QED BY <2>4, <3>2 DEF Owned, Done
    <2> QED BY <2>1, <2>2, <2>3, <2>4 DEF Owned
  <1> QED BY <1>1, <1>2 DEF BenchmarksOwned, Owned

-----------------------------------------------------------------------------
(* The invariant                                                           *)

Inv == TypeOK /\ Requests /\ OneServing /\ StoppedStayDown /\ EndedTests /\ ConfigRestored /\ BenchmarksOwned

\* The processes below a mark stay down when no frpc that did not serve begins to.
LEMMA MarksKept ==
  ASSUME TypeOK, StoppedStayDown, LifeGoesOn,
         \A d \in Calls : call'[d].mark = call[d].mark \/ (call'[d].mark = Len(procs) /\ \A p \in Procs : ~Serving(p)')
  PROVE  StoppedStayDown' /\ \A d \in Calls : call'[d].mark <= Len(procs')
  <1>1. Procs = 1 .. Len(procs) /\ Len(procs) \in Nat /\ Len(procs') \in Nat /\ Len(procs) <= Len(procs')
    BY ProcsAre, LenProperties DEF LifeGoesOn
  <1>2. \A d \in Calls : call[d].mark \in Nat /\ call[d].mark <= Len(procs)
    BY DEF TypeOK, Request
  <1>3. ASSUME NEW d \in Calls PROVE call'[d].mark <= Len(procs') /\ \A p \in 1 .. call'[d].mark : ~Serving(p)'
    <2>1. CASE call'[d].mark = call[d].mark
      <3>1. \A p \in 1 .. call[d].mark : p \in Procs /\ ~Serving(p)
        BY <1>1, <1>2 DEF StoppedStayDown
      <3>2. \A p \in 1 .. call[d].mark : ~Serving(p)'
        BY <3>1 DEF LifeGoesOn
      <3> QED BY <1>1, <1>2, <2>1, <3>2
    <2>2. CASE call'[d].mark = Len(procs) /\ \A p \in Procs : ~Serving(p)'
      BY <1>1, <2>2
    <2> QED BY <2>1, <2>2
  <1> QED BY <1>3 DEF StoppedStayDown

\* A step of one request keeps Inv.
LEMMA Assembled ==
  ASSUME Inv, LifeGoesOn, NEW c \in Calls, Turn(c),
         call'[c].mark = call[c].mark \/ (call'[c].mark = Len(procs) /\ \A p \in Procs : ~Serving(p)'),
         UNCHANGED file \/ file' = Rendered(c), remote' \subseteq remote \union {c}, open' \subseteq Calls,
         slot' \in Calls \union {None}, UNCHANGED crashes,
         EndedOf(c)', RestoredOf(c)', BenchmarksOwned'
  PROVE  Inv'
  <1>1. StoppedStayDown' /\ \A d \in Calls : call'[d].mark <= Len(procs')
    <2>1. \A d \in Calls : call'[d].mark = call[d].mark \/ (call'[d].mark = Len(procs) /\ \A p \in Procs : ~Serving(p)')
      BY DEF Turn
    <2> QED BY <2>1, MarksKept DEF Inv
  <1>2. Requests'
    BY DEF Inv, Requests, Turn
  <1>3. file' = file \/ (file'.by = c /\ file' \in [there : BOOLEAN, cfg : SUBSET Calls, by : Calls \union {None}])
    <2>1. call[c] \in Request
      BY DEF Inv, TypeOK
    <2>2. call[c].got \in SUBSET Calls
      BY <2>1 DEF Request
    <2>3. Rendered(c) \in [there : BOOLEAN, cfg : SUBSET Calls, by : Calls \union {None}] /\ Rendered(c).by = c
      BY <2>2 DEF Rendered
    <2> QED BY <2>3
  <1>4. TypeOK'
    BY <1>1, <1>3 DEF Inv, TypeOK, LifeGoesOn, Turn
  <1>5. EndedTests' /\ ConfigRestored'
    BY <1>3, SharedStep DEF Inv
  <1> QED BY <1>1, <1>2, <1>4, <1>5 DEF Inv, LifeGoesOn

\* A step in which no request moves keeps Inv.
LEMMA RequestsStill ==
  ASSUME Inv, LifeGoesOn, UNCHANGED <<call, file, slot, open, crashes>>, remote' \subseteq remote
  PROVE  Inv'
  <1>1. StoppedStayDown' /\ \A d \in Calls : call'[d].mark <= Len(procs')
    BY MarksKept DEF Inv
  <1>2. TypeOK'
    BY <1>1 DEF Inv, TypeOK, LifeGoesOn
  <1>3. Requests' /\ EndedTests' /\ ConfigRestored'
    BY DEF Inv, Requests, EndedTests, EndedOf, ConfigRestored
  <1>4. BenchmarksOwned'
    BY DEF Inv, BenchmarksOwned, At, Done
  <1> QED BY <1>1, <1>2, <1>3, <1>4 DEF Inv, LifeGoesOn

LEMMA InvInit == Init => Inv
  <1> SUFFICES ASSUME Init PROVE Inv
    OBVIOUS
  <1>1. /\ procs = <<>> /\ cmd = 0 /\ remote = {} /\ slot = None /\ open = {} /\ crashes = 0
        /\ call = [c \in Calls |-> Idle]
        /\ file \in [there : BOOLEAN, cfg : SUBSET Calls, by : Calls \union {None}]
    BY DEF Init
  <1>2. Len(procs) = 0 /\ procs \in Seq(Process) /\ Procs = {}
    BY <1>1 DEF Procs
  <1>3. /\ Idle \in Request /\ InOrder(Idle) /\ Idle.mark = 0 /\ ~Idle.finished
    BY DEF Idle, Request, Places, Results, InOrder
  <1>4. \A c \in Calls : call[c] = Idle
    BY <1>1
  <1>5. call \in [Calls -> Request]
    BY <1>1, <1>3
  <1>6. crashes \in 0 .. MaxCrashes
    BY <1>1, FrpcConstants
  <1>7. \A c \in Calls : call[c].mark = 0 /\ InOrder(call[c]) /\ ~call[c].finished
    BY <1>3, <1>4
  <1>8. TypeOK
    BY <1>1, <1>2, <1>5, <1>6, <1>7 DEF TypeOK
  <1> QED BY <1>1, <1>2, <1>7, <1>8 DEF Inv, Requests, OneServing, StoppedStayDown, EndedTests, EndedOf, ConfigRestored, BenchmarksOwned

\* Stop, Start and Probe.
LEMMA PlainStep ==
  ASSUME Inv, LifeGoesOn, NEW c \in Calls, Ordinary(c), UNCHANGED <<file, remote>>,
         call'[c].mark = call[c].mark \/ (call'[c].mark = Len(procs) /\ \A p \in Procs : ~Serving(p)'),
         call'[c].finished = call[c].finished, call'[c].restored => call[c].restored, call'[c].pc # "write"
  PROVE  Inv'
  <1>1. EndedOf(c)' /\ RestoredOf(c)'
    BY DEF Inv, EndedTests, EndedOf, ConfigRestored, RestoredOf
  <1>2. BenchmarksOwned'
    BY OrdinaryOwned DEF Inv
  <1>3. Turn(c) /\ UNCHANGED crashes /\ open' \subseteq Calls /\ slot' \in Calls \union {None} /\ remote' \subseteq remote \union {c}
    BY DEF Ordinary, Inv, TypeOK
  <1> QED BY <1>1, <1>2, <1>3, Assembled

LEMMA StepKeeps ==
  ASSUME Inv, NEW c \in Calls, Step(c)
  PROVE  Inv'
  <1>T. TypeOK /\ Requests /\ OneServing /\ BenchmarksOwned
    BY DEF Inv
  <1>O. ASSUME Ordinary(c) PROVE /\ Turn(c) /\ UNCHANGED crashes /\ open' \subseteq Calls /\ slot' \in Calls \union {None}
                                 /\ BenchmarksOwned'
    BY <1>T, <1>O, OrdinaryOwned DEF Ordinary, TypeOK
  <1>1. CASE Fetch(c)
    <2>1. /\ Ordinary(c) /\ UNCHANGED <<procs, cmd, file, remote>>
          /\ call'[c].mark = call[c].mark /\ call'[c].finished = call[c].finished /\ ~call'[c].restored
          /\ call'[c].pc = "write" => call'[c].got \in Answers(c)
      BY <1>1, <1>T, FetchTurns
    <2>2. EndedOf(c)'
      <3> SUFFICES ASSUME call'[c].finished PROVE c \notin remote' /\ (call'[c].pc = "write" => c \notin call'[c].got)
        BY DEF EndedOf
      <3>1. call[c].op = "run" /\ c \notin remote
        BY <1>T, <2>1 DEF Requests, InOrder, Inv, EndedTests, EndedOf
      <3>2. Answers(c) = {remote}
        BY <3>1 DEF Answers
      <3> QED BY <2>1, <3>1, <3>2
    <2>3. RestoredOf(c)' /\ LifeGoesOn
      BY <1>T, <2>1, LivesUnchanged DEF RestoredOf
    <2> QED BY <1>O, <2>1, <2>2, <2>3, Assembled
  <1>2. CASE WriteConfig(c)
    <2>1. /\ Ordinary(c) /\ UNCHANGED <<procs, cmd, remote>>
          /\ call'[c].mark = call[c].mark /\ call'[c].finished = call[c].finished /\ call'[c].pc # "write"
          /\ call[c].pc = "write"
          /\ (UNCHANGED file /\ ~call'[c].restored) \/ file' = Rendered(c)
      BY <1>2, <1>T, WriteTurns
    <2>2. EndedOf(c)
      BY DEF Inv, EndedTests
    <2>3. EndedOf(c)'
      BY <2>1, <2>2 DEF EndedOf
    <2>4. RestoredOf(c)'
      <3> SUFFICES ASSUME call'[c].finished, call'[c].restored PROVE c \notin file'.cfg
        BY DEF RestoredOf
      <3>1. file'.cfg = call[c].got
        BY <2>1 DEF Rendered
      <3> QED BY <2>1, <2>2, <3>1 DEF EndedOf
    <2>5. LifeGoesOn
      BY <1>T, <2>1, LivesUnchanged
    <2> QED BY <1>O, <2>1, <2>3, <2>4, <2>5, Assembled
  <1>3. CASE Stop(c)
    BY <1>3, <1>T, StopTurns, StopLives, PlainStep
  <1>4. CASE Start(c)
    BY <1>4, <1>T, StartTurns, StartLives, PlainStep
  <1>5. CASE Create(c)
    <2>1. /\ Ordinary(c) /\ UNCHANGED <<procs, cmd, file>> /\ remote' \subseteq remote \union {c}
          /\ call'[c].mark = call[c].mark /\ ~call'[c].finished
      BY <1>5, <1>T, CreateTurns
    <2>2. EndedOf(c)' /\ RestoredOf(c)' /\ LifeGoesOn
      BY <1>T, <2>1, LivesUnchanged DEF EndedOf, RestoredOf
    <2> QED BY <1>O, <2>1, <2>2, Assembled
  <1>6. CASE Probe(c)
    BY <1>6, <1>T, ProbeTurns, LivesUnchanged, PlainStep
  <1>7. CASE Finish(c)
    <2>1. /\ Ordinary(c) /\ UNCHANGED <<procs, cmd, file>> /\ remote' \subseteq remote
          /\ call'[c].mark = call[c].mark /\ (call'[c].finished => c \notin remote') /\ ~call'[c].restored /\ call'[c].pc # "write"
      BY <1>7, <1>T, FinishTurns
    <2>2. EndedOf(c)' /\ RestoredOf(c)' /\ LifeGoesOn
      BY <1>T, <2>1, LivesUnchanged DEF EndedOf, RestoredOf
    <2> QED BY <1>O, <2>1, <2>2, Assembled
  <1>8. CASE Swap(c) \/ Take(c)
    <2>1. /\ UNCHANGED <<procs, cmd, file, remote, open, crashes>> /\ slot' \in Calls \union {None}
          /\ call[c].pc \in {"swap", "take"} /\ call' = [call EXCEPT ![c].held = slot, ![c].pc = "close"]
      BY <1>8 DEF Swap, Take, At
    <2>2. /\ Turn(c) /\ call'[c].mark = call[c].mark /\ call'[c].finished = call[c].finished /\ ~call'[c].restored
          /\ call'[c].pc = "close"
      BY <1>T, <2>1, ExchangeTurns
    <2>3. EndedOf(c)' /\ RestoredOf(c)' /\ LifeGoesOn
      <3>1. EndedOf(c)'
        BY <2>1, <2>2 DEF Inv, EndedTests, EndedOf
      <3> QED BY <1>T, <2>1, <2>2, <3>1, LivesUnchanged DEF RestoredOf
    <2>4. BenchmarksOwned'
      BY <1>8, <1>T, ExchangeOwned
    <2>5. open' \subseteq Calls
      BY <1>T, <2>1 DEF TypeOK
    <2> QED BY <2>1, <2>2, <2>3, <2>4, <2>5, Assembled
  <1>9. CASE Close(c)
    <2>1. /\ Turn(c) /\ UNCHANGED <<procs, cmd, file, remote, slot, crashes>>
          /\ call'[c].mark = call[c].mark /\ call'[c].finished = call[c].finished /\ call'[c].restored = call[c].restored
          /\ call'[c].pc = "done" /\ open' \subseteq open
      BY <1>9, <1>T, CloseTurns
    <2>2. EndedOf(c)' /\ RestoredOf(c)'
      BY <2>1 DEF Inv, EndedTests, EndedOf, ConfigRestored, RestoredOf
    <2>3. BenchmarksOwned' /\ LifeGoesOn
      BY <1>9, <1>T, <2>1, CloseOwned, LivesUnchanged
    <2>4. open' \subseteq Calls /\ slot' \in Calls \union {None}
      BY <1>T, <2>1 DEF TypeOK
    <2> QED BY <2>1, <2>2, <2>3, <2>4, Assembled
  <1> QED BY <1>1, <1>2, <1>3, <1>4, <1>5, <1>6, <1>7, <1>8, <1>9 DEF Step

LEMMA InvStep == Inv /\ [Next]_vars => Inv'
  <1> SUFFICES ASSUME Inv, [Next]_vars PROVE Inv'
    OBVIOUS
  <1>T. TypeOK /\ Requests /\ OneServing /\ BenchmarksOwned
    BY DEF Inv
  <1>1. ASSUME NEW c \in Calls, Step(c) PROVE Inv'
    BY <1>1, StepKeeps
  <1>2. ASSUME NEW c \in Calls, Expire(c) PROVE Inv'
    <2>1. UNCHANGED <<procs, cmd, call, file, slot, open, crashes>> /\ remote' \subseteq remote
      BY <1>2 DEF Expire
    <2> QED BY <1>T, <2>1, LivesUnchanged, RequestsStill
  <1>3. ASSUME NEW c \in Calls, NEW op \in Ops[c], NEW got \in {{}, remote}, Begin(c, op, got) PROVE Inv'
    <2>1. op \in Operations /\ got \in SUBSET Calls
      BY <1>T, FrpcConstants DEF TypeOK
    <2>2. /\ Turn(c) /\ UNCHANGED <<procs, cmd, file, remote, slot, crashes>> /\ open' = open \union Opened(c, op)
          /\ call'[c].mark = call[c].mark /\ ~call'[c].finished
      BY <1>3, <1>T, <2>1, BeginTurns
    <2>3. EndedOf(c)' /\ RestoredOf(c)' /\ LifeGoesOn
      BY <1>T, <2>2, LivesUnchanged DEF EndedOf, RestoredOf
    <2>4. BenchmarksOwned'
      BY <1>3, <1>T, <2>1, BeginOwned
    <2>5. open' \subseteq Calls /\ slot' \in Calls \union {None}
      BY <1>T, <2>2 DEF TypeOK, Opened
    <2> QED BY <2>2, <2>3, <2>4, <2>5, Assembled
  <1>4. ASSUME NEW p \in Procs, Exit(p) \/ Reap(p) \/ Clear(p) PROVE Inv'
    <2>1. UNCHANGED <<call, file, remote, slot, open, crashes>>
      BY <1>4 DEF Exit, Reap, Clear
    <2> QED BY <1>4, <1>T, <2>1, OsLives, RequestsStill
  <1>5. CASE Crash
    <2>1. /\ slot' = None /\ open' = {} /\ UNCHANGED <<file, remote>> /\ crashes < MaxCrashes /\ crashes' = crashes + 1
      BY <1>5 DEF Crash
    <2>2. /\ call' \in [Calls -> Request] /\ Requests'
          /\ \A c \in Calls : /\ call'[c].mark = call[c].mark /\ call'[c].finished = call[c].finished
                              /\ call'[c].restored = call[c].restored /\ call'[c].pc # "write"
      BY <1>5, <1>T, CrashTurns
    <2>3. LifeGoesOn
      BY <1>5, <1>T, CrashLives
    <2>4. StoppedStayDown' /\ \A d \in Calls : call'[d].mark <= Len(procs')
      BY <2>2, <2>3, MarksKept DEF Inv
    <2>5. crashes' \in 0 .. MaxCrashes
      BY <1>T, <2>1, FrpcConstants DEF TypeOK
    <2>6. TypeOK'
      BY <1>T, <2>1, <2>2, <2>3, <2>4, <2>5 DEF TypeOK, LifeGoesOn
    <2>7. EndedTests' /\ ConfigRestored'
      BY <2>1, <2>2 DEF Inv, EndedTests, EndedOf, ConfigRestored
    <2>8. BenchmarksOwned'
      BY <2>1 DEF BenchmarksOwned
    <2> QED BY <2>2, <2>3, <2>4, <2>6, <2>7, <2>8 DEF Inv, LifeGoesOn
  <1>6. CASE UNCHANGED vars
    <2>1. UNCHANGED <<procs, cmd, call, file, remote, slot, open, crashes>>
      BY <1>6 DEF vars
    <2> QED BY <1>T, <2>1, LivesUnchanged, RequestsStill
  <1> QED BY <1>1, <1>2, <1>3, <1>4, <1>5, <1>6 DEF Next

-----------------------------------------------------------------------------
(* The theorems                                                            *)

LEMMA Invariant == Spec => []Inv
  BY InvInit, InvStep, PTL DEF Spec

\* m.cmd is nil or an frpc the client launched, and no request marks processes that
\* were not launched yet (manager.go, Start and Stop).
THEOREM TypeCorrect == Spec => []TypeOK
  <1>1. Inv => TypeOK
    BY DEF Inv
  <1> QED BY <1>1, Invariant, PTL

\* However starts, stops, restarts, syncs, tests and crashes overlap, an frpc that
\* serves is the one the Manager knows of.
THEOREM OnlyOneServes == Spec => []OneServing
  <1>1. Inv => OneServing
    BY DEF Inv
  <1> QED BY <1>1, Invariant, PTL

\* What a Stop found launched never serves again.
THEOREM StoppedForGood == Spec => []StoppedStayDown
  <1>1. Inv => StoppedStayDown
    BY DEF Inv
  <1> QED BY <1>1, Invariant, PTL

\* No benchmark service listens that nobody will close.
THEOREM NoBenchmarkIsLost == Spec => []BenchmarksOwned
  <1>1. Inv => BenchmarksOwned
    BY DEF Inv
  <1> QED BY <1>1, Invariant, PTL

\* A speed test whose tunnel exists asks the server to end it, wherever it fails.
THEOREM EveryTestCleansUp == Spec => []TestsCleanUp
  <1>1. Inv => TestsCleanUp
    BY DEF Inv, Requests, InOrder, TestsCleanUp, Done
  <1> QED BY <1>1, Invariant, PTL

\* A test that ended its tunnel and wrote frpc.toml last left no trace in it.
THEOREM ConfigIsRestored == Spec => []ConfigRestored
  <1>1. Inv => ConfigRestored
    BY DEF Inv
  <1> QED BY <1>1, Invariant, PTL

=============================================================================
