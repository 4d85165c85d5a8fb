---------------------------- MODULE FrpcManager ----------------------------
(***************************************************************************)
(* The local client: one Manager that keeps frpc.toml and launches, kills  *)
(* and watches frpc, driven by concurrent requests of the local API.       *)
(*                                                                         *)
(* A request is a process of its own.  What the code does under m.mu is    *)
(* one step; a request that takes the lock twice (Restart, SyncFromServer  *)
(* and WriteConfig, RunSpeedTest) can be interleaved with all the others   *)
(* in between.  A launched frpc is alive until it exits by itself or dies  *)
(* of a kill, is then reaped by the goroutine that waits for it, and       *)
(* forgotten by that goroutine once it gets the lock.                      *)
(*                                                                         *)
(* Of a configuration only the temporary speed test tunnels in it are      *)
(* kept, each named after the request that runs the test.  The server is   *)
(* the set `remote' of those it has not ended.                             *)
(***************************************************************************)
EXTENDS Naturals, Sequences, FiniteSets

CONSTANTS
  Calls,       \* requests of the local API, each made at most once
  Ops,         \* the operations each of them may ask for
  MaxCrashes,  \* bound: how often the client process may die
  None         \* no request

Operations == {"start", "stop", "restart", "sync", "render", "run", "prepare", "cleanup"}

ASSUME FrpcConstants ==
  /\ None \notin Calls
  /\ Ops \in [Calls -> SUBSET Operations]
  /\ MaxCrashes \in Nat

VARIABLES
  procs,    \* every frpc launched so far: its life, whether it was killed, whether the running client launched it
  cmd,      \* m.cmd: an index of procs, 0 for nil
  file,     \* frpc.toml: is it there, its speed test tunnels, who wrote it
  remote,   \* the speed test tunnels the server has not ended
  slot,     \* m.speedBench: the request that opened it, or None
  open,     \* the requests whose benchmark service listens
  call,     \* the state of each request
  crashes   \* how often the client died

vars == <<procs, cmd, file, remote, slot, open, call, crashes>>

Procs  == DOMAIN procs
Alive(p)   == procs[p].life = "alive"
Serving(p) == Alive(p) /\ ~procs[p].killed /\ procs[p].mine
Done(c)    == call[c].pc = "done"

Process == [life : {"alive", "exited", "reaped", "cleared"}, killed : BOOLEAN, mine : BOOLEAN]
Places  == {"idle", "fetch", "write", "stop", "start", "create", "probe", "finish", "swap", "take", "close", "done"}
Results == {"ok", "failed", "not_created", "not_launched", "not_stopped", "died"}
Request == [op : Operations \union {"none"}, pc : Places, got : SUBSET Calls, cleaned : BOOLEAN, finished : BOOLEAN,
            restored : BOOLEAN, held : Calls \union {None}, mark : Nat, result : Results]
Idle == [op |-> "none", pc |-> "idle", got |-> {}, cleaned |-> FALSE, finished |-> FALSE, restored |-> FALSE,
         held |-> None, mark |-> 0, result |-> "ok"]

TypeOK ==
  /\ procs \in Seq(Process)
  /\ cmd \in {0} \union Procs
  /\ file \in [there : BOOLEAN, cfg : SUBSET Calls, by : Calls \union {None}]
  /\ remote \subseteq Calls /\ open \subseteq Calls /\ slot \in Calls \union {None}
  /\ call \in [Calls -> Request]
  /\ \A c \in Calls : call[c].mark <= Len(procs)
  /\ crashes \in 0 .. MaxCrashes

Init ==
  /\ procs = <<>> /\ cmd = 0 /\ remote = {} /\ slot = None /\ open = {} /\ crashes = 0
  /\ \E there \in BOOLEAN : file = [there |-> there, cfg |-> {}, by |-> None]
  /\ call = [c \in Calls |-> Idle]

-----------------------------------------------------------------------------
(* How a request goes on.  A speed test ends the remote tunnel and restores *)
(* the configuration on every way out once the tunnel is created; what      *)
(* fails during that cleanup is ignored.                                    *)

At(c, pc)  == call[c].pc = pc
Go(c, pc)  == call' = [call EXCEPT ![c].pc = pc]
Testing(c) == call[c].op = "run" /\ ~call[c].cleaned

Closing(c) == IF call[c].op = "run" THEN "close" ELSE "done"
(* A plausible bug: a test that fails midway returns without the cleanup. *)
ReturnEarly(c) == Closing(c)

CleanUp(c) == IF Testing(c) THEN "finish" ELSE Closing(c)
Failed(r, pc, why) ==
  [r EXCEPT !.pc = pc, !.cleaned = @ \/ pc = "finish", !.result = IF @ = "ok" THEN why ELSE @]
Fail(c, why) == call' = [call EXCEPT ![c] = Failed(call[c], CleanUp(c), why)]

First(op) ==
  CASE op = "start" -> "start" [] op \in {"stop", "restart"} -> "stop" [] op = "sync" -> "fetch"
    [] op = "render" -> "write" [] op = "run" -> "create" [] op = "prepare" -> "swap" [] op = "cleanup" -> "take"

(* A request arrives.  RunSpeedTest and PrepareSpeedBenchmark first open a *)
(* benchmark service; /api/config/render brings its configuration along.   *)
Opened(c, op) == IF op \in {"run", "prepare"} THEN {c} ELSE {}

Begin(c, op, got) ==
  /\ At(c, "idle")
  /\ op # "render" => got = {}
  /\ call' = [call EXCEPT ![c].op = op, ![c].pc = First(op), ![c].got = got]
  /\ open' = open \union Opened(c, op)
  /\ UNCHANGED <<procs, cmd, file, remote, slot, crashes>>

-----------------------------------------------------------------------------
(* SyncFromServer: the answer is fetched without the lock, written with it. *)

(* What the server answers: every tunnel, or the one speed test that a sync *)
(* names (speed_test_id); of a speed test's own syncs never only one.      *)
Answers(c) ==
  {remote} \union (IF call[c].op = "sync" THEN {remote \intersect {t} : t \in Calls} ELSE {})

Fetch(c) ==
  /\ At(c, "fetch")
  /\ \/ \E got \in Answers(c) : call' = [call EXCEPT ![c].got = got, ![c].pc = "write"]
     \/ Fail(c, "failed")
  /\ UNCHANGED <<procs, cmd, file, remote, slot, open, crashes>>

(* RenderFRPCConfig leaves out the tunnels that have ended; those that have *)
(* not are all that got keeps of the answer.                               *)
Rendered(c) == [there |-> TRUE, cfg |-> call[c].got, by |-> c]

(* atomicWriteFile renames a complete file into place or leaves the old one. *)
NotWritten(c) == Fail(c, "failed") /\ UNCHANGED file

WriteConfig(c) ==
  /\ At(c, "write")
  /\ \/ /\ file' = Rendered(c)
        /\ call' = [call EXCEPT ![c].pc = IF call[c].op = "run" THEN "stop" ELSE "done", ![c].restored = call[c].cleaned]
     \/ NotWritten(c)
  /\ UNCHANGED <<procs, cmd, remote, slot, open, crashes>>

-----------------------------------------------------------------------------
(* Stop kills the frpc it knows of and forgets it without waiting.  Kill    *)
(* refuses a process that was already reaped, and Restart then gives up.    *)

Killable(p) == procs[p].life \in {"alive", "exited"}
AfterStop(c, ok) ==
  LET stopped == [call[c] EXCEPT !.mark = Len(procs)] IN
  IF ok THEN [stopped EXCEPT !.pc = IF call[c].op = "stop" THEN "done" ELSE "start"]
  ELSE Failed(stopped, CleanUp(c), "not_stopped")

Stop(c) ==
  /\ At(c, "stop")
  /\ cmd' = 0
  /\ procs' = [p \in Procs |-> IF p = cmd /\ Killable(p) THEN [procs[p] EXCEPT !.killed = TRUE] ELSE procs[p]]
  /\ call' = [call EXCEPT ![c] = AfterStop(c, cmd = 0 \/ Killable(cmd))]
  /\ UNCHANGED <<file, remote, slot, open, crashes>>

(* A plausible bug: Start does not ask whether frpc already runs. *)
NeverSeen == {FALSE}

(* cmd.ProcessState is written by the waiting goroutine without the lock:  *)
(* once frpc is reaped, Start may or may not see it.                       *)
SeenRunning ==
  IF cmd = 0 THEN {FALSE} ELSE IF Killable(cmd) THEN {TRUE} ELSE BOOLEAN

Started(c) == IF Testing(c) THEN "probe" ELSE Closing(c)

NotLaunched(c) == Fail(c, "not_launched") /\ UNCHANGED <<procs, cmd>>

Start(c) ==
  /\ At(c, "start")
  /\ \/ /\ TRUE \in SeenRunning
        /\ Go(c, Started(c))
        /\ UNCHANGED <<procs, cmd>>
     \/ /\ FALSE \in SeenRunning /\ file.there
        /\ procs' = Append(procs, [life |-> "alive", killed |-> FALSE, mine |-> TRUE])
        /\ cmd' = Len(procs')
        /\ Go(c, Started(c))
     \/ FALSE \in SeenRunning /\ NotLaunched(c)
  /\ UNCHANGED <<file, remote, slot, open, crashes>>

-----------------------------------------------------------------------------
(* The operating system, and the goroutine that waits for an frpc.  *)

Exit(p) ==
  /\ Alive(p)
  /\ procs' = [procs EXCEPT ![p].life = "exited"]
  /\ UNCHANGED <<cmd, file, remote, slot, open, call, crashes>>

Reap(p) ==
  /\ procs[p].life = "exited"
  /\ procs' = [procs EXCEPT ![p].life = "reaped"]
  /\ UNCHANGED <<cmd, file, remote, slot, open, call, crashes>>

(* Plausible bugs: the goroutine forgets whatever frpc the Manager knows   *)
(* of, or it only waits.                                                   *)
ClearAny(p) ==
  /\ procs[p].life = "reaped"
  /\ procs' = [procs EXCEPT ![p].life = "cleared"]
  /\ cmd' = 0
  /\ UNCHANGED <<file, remote, slot, open, call, crashes>>
ClearNone(p) ==
  /\ procs[p].life = "reaped"
  /\ procs' = [procs EXCEPT ![p].life = "cleared"]
  /\ UNCHANGED <<cmd, file, remote, slot, open, call, crashes>>

Clear(p) ==
  /\ procs[p].life = "reaped"
  /\ procs' = [procs EXCEPT ![p].life = "cleared"]
  /\ cmd' = IF cmd = p THEN 0 ELSE cmd
  /\ UNCHANGED <<file, remote, slot, open, call, crashes>>

-----------------------------------------------------------------------------
(* RunSpeedTest's remote calls.  Each may fail, and may fail for the client *)
(* only, after the server did it.                                          *)

Create(c) ==
  /\ At(c, "create")
  /\ \/ remote' = remote \union {c} /\ Go(c, "fetch")
     \/ /\ remote' \in {remote, remote \union {c}}
        /\ call' = [call EXCEPT ![c].pc = "close", ![c].result = "not_created"]
  /\ UNCHANGED <<procs, cmd, file, slot, open, crashes>>

Probe(c) ==
  /\ At(c, "probe")
  /\ call' = [call EXCEPT ![c].pc = "finish", ![c].cleaned = TRUE]
  /\ UNCHANGED <<procs, cmd, file, remote, slot, open, crashes>>

(* The server after a request to end the test of c, which may be lost. *)
Ended(c) == {remote, remote \ {c}}

(* A plausible bug: the cleanup writes the configuration it has already. *)
FinishUnsynced(c) ==
  /\ At(c, "finish")
  /\ remote' \in Ended(c)
  /\ call' = [call EXCEPT ![c].pc = "write", ![c].finished = c \notin remote']
  /\ UNCHANGED <<procs, cmd, file, slot, open, crashes>>

Finish(c) ==
  /\ At(c, "finish")
  /\ remote' \in Ended(c)
  /\ call' = [call EXCEPT ![c].pc = "fetch", ![c].finished = c \notin remote']
  /\ UNCHANGED <<procs, cmd, file, slot, open, crashes>>

(* The server ends a speed test tunnel nobody finished once it is too old. *)
Expire(c) ==
  /\ Done(c) /\ c \in remote
  /\ remote' = remote \ {c}
  /\ UNCHANGED <<procs, cmd, file, slot, open, call, crashes>>

-----------------------------------------------------------------------------
(* The benchmark service: PrepareSpeedBenchmark puts its own in the slot    *)
(* and CloseSpeedBenchmark empties it; both close the old one unlocked.     *)

(* A plausible bug: the service in the slot is dropped and not closed. *)
SwapDrops(c) ==
  /\ At(c, "swap")
  /\ slot' = c
  /\ Go(c, "done")
  /\ UNCHANGED <<procs, cmd, file, remote, open, crashes>>

Swap(c) ==
  /\ At(c, "swap")
  /\ slot' = c
  /\ call' = [call EXCEPT ![c].held = slot, ![c].pc = "close"]
  /\ UNCHANGED <<procs, cmd, file, remote, open, crashes>>

Take(c) ==
  /\ At(c, "take")
  /\ slot' = None
  /\ call' = [call EXCEPT ![c].held = slot, ![c].pc = "close"]
  /\ UNCHANGED <<procs, cmd, file, remote, open, crashes>>

Close(c) ==
  /\ At(c, "close")
  /\ open' = open \ {IF call[c].op = "run" THEN c ELSE call[c].held}
  /\ call' = [call EXCEPT ![c].held = None, ![c].pc = "done"]
  /\ UNCHANGED <<procs, cmd, file, remote, slot, crashes>>

(* The client dies.  frpc is not tied to it and lives on; the requests,    *)
(* the waiting goroutines, the services and m.cmd are gone.                *)
Crash ==
  /\ crashes < MaxCrashes
  /\ crashes' = crashes + 1
  /\ cmd' = 0 /\ slot' = None /\ open' = {}
  /\ procs' = [p \in Procs |-> [procs[p] EXCEPT !.mine = FALSE, !.life = IF @ = "reaped" THEN "cleared" ELSE @]]
  /\ call' = [c \in Calls |-> IF call[c].pc \in {"idle", "done"} THEN call[c]
                              ELSE [call[c] EXCEPT !.pc = "done", !.held = None, !.result = "died"]]
  /\ UNCHANGED <<file, remote>>

-----------------------------------------------------------------------------
Step(c) ==
  \/ Fetch(c) \/ WriteConfig(c) \/ Stop(c) \/ Start(c)
  \/ Create(c) \/ Probe(c) \/ Finish(c) \/ Swap(c) \/ Take(c) \/ Close(c)

Next ==
  \/ \E c \in Calls : Step(c) \/ Expire(c)
  \/ \E c \in Calls : \E op \in Ops[c], got \in {{}, remote} : Begin(c, op, got)
  \/ \E p \in Procs : Exit(p) \/ Reap(p) \/ Clear(p)
  \/ Crash

Spec == Init /\ [][Next]_vars

(* A request's goroutine and the waiting goroutine are scheduled and get a *)
(* mutex they wait for; the kernel kills what was sent SIGKILL.  Nothing   *)
(* makes a request arrive, frpc exit or the client die.                    *)
MaxProcs == 2 * Cardinality(Calls)
FairSpec ==
  /\ Spec
  /\ \A c \in Calls : WF_vars(Step(c))
  /\ \A p \in 1 .. MaxProcs : WF_vars(p \in Procs /\ (Reap(p) \/ Clear(p) \/ (procs[p].killed /\ Exit(p))))

-----------------------------------------------------------------------------
(* Safety *)

(* At most one frpc serves the user's tunnels: any that is alive, was not  *)
(* killed and belongs to the running client is the one the Manager knows   *)
(* of and would stop.  The waiting goroutine of an earlier frpc must not   *)
(* make it forget a later one (Manager.Start).                             *)
OneServing == \A p \in Procs : Serving(p) => p = cmd

(* Once a Stop or the Stop half of a Restart answered, no frpc launched    *)
(* before it serves any more, whatever the other requests do (Manager.Stop,*)
(* which forgets the process even when the kill fails).                    *)
StoppedStayDown == \A c \in Calls : \A p \in 1 .. call[c].mark : ~Serving(p)

(* Every listening benchmark service can still be closed: it is the one in *)
(* the slot, or a request that has not ended holds it (CloseSpeedBenchmark *)
(* and PrepareSpeedBenchmark close what they take out of the slot).        *)
BenchmarksOwned ==
  \A b \in open :
    \/ slot = b
    \/ At(b, "swap") \/ (call[b].op = "run" /\ ~Done(b))
    \/ \E c \in Calls : call[c].held = b /\ ~Done(c)

(* Every way out of RunSpeedTest once the remote tunnel exists asks the    *)
(* server to end it, however early it fails (the deferred cleanup).        *)
TestsCleanUp ==
  \A c \in Calls :
    call[c].op = "run" /\ Done(c) /\ call[c].result \notin {"not_created", "died"} => call[c].cleaned

(* A test that ended its tunnel and then wrote the configuration last left *)
(* no trace of the tunnel in frpc.toml: the cleanup syncs after the finish *)
(* (RunSpeedTest's cleanup).                                               *)
ConfigRestored ==
  \A c \in Calls :
    call[c].finished /\ call[c].restored /\ file.by = c => c \notin file.cfg

(* Liveness: an frpc that is gone does not stay the Manager's: Status stops *)
(* reporting it as running and Start launches again (the waiting goroutine).*)
StatusSettles == \A p \in 1 .. MaxProcs : (p \in Procs /\ ~Alive(p)) ~> (cmd # p)

=============================================================================
