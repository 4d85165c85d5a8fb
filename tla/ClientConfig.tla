---------------------------- MODULE ClientConfig ----------------------------
(***************************************************************************)
(* How one user's tunnels become the frpc.toml of the user's machine.  The *)
(* local client asks the control plane for its tunnels (clientTunnels of   *)
(* the API server), which puts the answer together from four separate      *)
(* reads of the store - the subscription, the tunnels, the node of one of  *)
(* them - and the client renders what it gets (RenderFRPCConfig), with one *)
(* frps to dial, one proxy per running tunnel and a limit on each.  The    *)
(* user, the administrator and the clock act between the reads.            *)
(*                                                                         *)
(* An address is the place it leads to: a node, or the platform's frps.    *)
(* Whether a speed test is past its deadline is left open at every clean-  *)
(* up, and the plan's limits other than bandwidth are TunnelStore's; of    *)
(* the statuses of a tunnel only stopped and deleted matter here.  What a  *)
(* sync could have seen - the tunnels, plans and nodes during it - is kept *)
(* beside it in history fields that no step reads.                         *)
(***************************************************************************)
EXTENDS Naturals, FiniteSets

CONSTANTS
  Nodes,       \* managed nodes
  Platform,    \* NodeID 0, no node: the platform's own frps
  Bandwidths,  \* bandwidths of plans and of tunnels; 0 is "none set"
  MaxTunnels,  \* bound: tunnels of the user
  MaxChanges   \* bound: what the user, the administrator and the clock do

ASSUME ConfigAssumption ==
  /\ Platform \notin Nodes
  /\ Bandwidths \subseteq Nat
  /\ MaxTunnels \in Nat /\ MaxChanges \in Nat

VARIABLES
  nodes,    \* the nodes there are: node -> has it an address of its own?
  tunnels,  \* the user's tunnels by identifier, deleted ones included
  sub,      \* the user's subscription
  sync,     \* the client's request
  file,     \* frpc.toml as last written
  changes   \* counts changes

vars == <<nodes, tunnels, sub, sync, file, changes>>

Ids    == 1..MaxTunnels
Places == Nodes \cup {Platform}

\* granted is history: the bandwidth of the plan the tunnel was created under.
Tunnel == [node : Places, own : Bandwidths, speedTest : BOOLEAN, blank : BOOLEAN,
           status : {"active", "disabled", "deleted"}, granted : Bandwidths \cup {0}]

Window == [present : SUBSET Ids, seen : SUBSET Ids, stayed : SUBSET Ids,
           bands : SUBSET (Bandwidths \cup {0}), led : SUBSET Nodes, bare : SUBSET Nodes]

\* A limit is in the units frpc is given: KB per second.
Proxy  == [id : Ids, limit : Nat]

TypeOK ==
  /\ nodes \in [DOMAIN nodes -> BOOLEAN] /\ DOMAIN nodes \subseteq Nodes
  /\ DOMAIN tunnels \subseteq Ids /\ tunnels \in [DOMAIN tunnels -> Tunnel]
  /\ sub \in [status : {"none", "active", "expired"}, band : Bandwidths \cup {0}]
  /\ sync \in [pc : {"idle", "plan", "tunnels", "node", "write"}, only : Ids \cup {0}, band : Bandwidths \cup {0},
               running : SUBSET Ids, chosen : Places, server : Places, w : Window]
  /\ file \in [only : Ids \cup {0}, server : Places, proxies : SUBSET Proxy, w : Window]
  /\ changes \in 0..MaxChanges

Undeleted == {i \in DOMAIN tunnels : tunnels[i].status # "deleted"}
Running   == {i \in DOMAIN tunnels : tunnels[i].status = "active"}
Band      == IF sub.status = "active" THEN sub.band ELSE 0

\* The frps a tunnel on n is served by: a node without an address of its own,
\* or that is gone, leaves the platform's (settingsFromNode).
Address(n) == IF n \in DOMAIN nodes /\ nodes[n] THEN n ELSE Platform

\* What a sync that has just begun has seen.
NoWindow  == [present |-> {}, seen |-> {}, stayed |-> {}, bands |-> {}, led |-> {}, bare |-> {}]
NewWindow == [present |-> Undeleted, seen |-> Running, stayed |-> Running, bands |-> {Band},
              led |-> {n \in Nodes : Address(n) = n}, bare |-> {n \in Nodes : Address(n) = Platform}]
IdleSync == [pc |-> "idle", only |-> 0, band |-> 0, running |-> {}, chosen |-> Platform, server |-> Platform, w |-> NoWindow]

Init ==
  /\ nodes \in [Nodes -> BOOLEAN]
  /\ tunnels = [i \in {} |-> {}]
  /\ \/ sub = [status |-> "none", band |-> 0]
     \/ \E band \in Bandwidths : sub = [status |-> "active", band |-> band]
  /\ sync = IdleSync
  /\ file = [only |-> 0, server |-> Platform, proxies |-> {}, w |-> NoWindow]
  /\ changes = 0

-----------------------------------------------------------------------------
(* What happens besides: each change is noted in the history of the sync.  *)

Widened(w) ==
  [present |-> w.present \cup Undeleted', seen |-> w.seen \cup Running', stayed |-> w.stayed \cap Running',
   bands |-> w.bands \cup {Band'}, led |-> {n \in w.led : Address(n)' = n}, bare |-> {n \in w.bare : Address(n)' = Platform}]

Change ==
  /\ changes < MaxChanges
  /\ changes' = changes + 1
  /\ sync' = IF sync.pc = "idle" THEN sync ELSE [sync EXCEPT !.w = Widened(sync.w)]
  /\ UNCHANGED file

\* The tunnels with those of S marked deleted.
Without(S) == [i \in DOMAIN tunnels |-> IF i \in S THEN [tunnels[i] EXCEPT !.status = "deleted"] ELSE tunnels[i]]

\* The speed tests a clean-up may find past their deadline.
Overdue == SUBSET {i \in Undeleted : tunnels[i].speedTest}

\* Fault: a limit of its own is not compared with the plan.
NotNegative(own) == own >= 0

\* validateTunnelBandwidth: with a plan that sets no bandwidth a tunnel may not either.
BandwidthAllowed(own) == own > 0 => own <= sub.band

CreateTunnel(n, own, speedTest, blank) ==
  /\ sub.status = "active"
  /\ n \in DOMAIN nodes \cup {Platform}
  /\ BandwidthAllowed(own)
  /\ speedTest => own = 0 /\ ~blank
  /\ \E i \in Ids \ DOMAIN tunnels, S \in Overdue :
       /\ \A j \in Ids \ DOMAIN tunnels : i <= j
       /\ tunnels' = [j \in DOMAIN tunnels \cup {i} |->
            IF j = i THEN [node |-> n, own |-> own, speedTest |-> speedTest, blank |-> blank,
                           status |-> "active", granted |-> sub.band]
            ELSE Without(S)[j]]
  /\ UNCHANGED <<nodes, sub>>
  /\ Change

\* DeleteTunnel, and FinishSpeedTestTunnel for a speed test.
DeleteTunnel(i) ==
  /\ i \in Undeleted
  /\ tunnels' = Without({i})
  /\ UNCHANGED <<nodes, sub>>
  /\ Change

UpdateTunnelStatus(i, status) ==
  /\ i \in Undeleted /\ ~tunnels[i].speedTest
  /\ status = "active" => sub.status = "active"
  /\ tunnels' = [tunnels EXCEPT ![i].status = status]
  /\ UNCHANGED <<nodes, sub>>
  /\ Change

\* An order, a code or the administrator gives the user a plan of this bandwidth.
Grant(band) ==
  /\ sub' = [status |-> "active", band |-> band]
  /\ UNCHANGED <<nodes, tunnels>>
  /\ Change

\* The subscription's last day passes.
RunOut ==
  /\ sub.status = "active"
  /\ sub' = [sub EXCEPT !.status = "expired"]
  /\ UNCHANGED <<nodes, tunnels>>
  /\ Change

\* An agent binds the node and reports the node's own address.
BindNode(n) ==
  /\ n \in DOMAIN nodes
  /\ nodes' = [nodes EXCEPT ![n] = TRUE]
  /\ UNCHANGED <<tunnels, sub>>
  /\ Change

\* The administrator deletes a node; the tunnels on it stay.
DeleteNode(n) ==
  /\ n \in DOMAIN nodes
  /\ nodes' = [m \in DOMAIN nodes \ {n} |-> nodes[m]]
  /\ UNCHANGED <<tunnels, sub>>
  /\ Change

-----------------------------------------------------------------------------
(* clientTunnels                                                           *)

At(pc) == sync.pc = pc

\* The request arrives, for every tunnel or for one speed test (speed_test_id).
Request(only) ==
  /\ At("idle")
  /\ \E S \in Overdue : tunnels' = Without(S)
  /\ UNCHANGED <<nodes, sub, file, changes>>
  /\ sync' = [IdleSync EXCEPT !.pc = "plan", !.only = only, !.w = NewWindow']

ReadSubscription ==
  /\ At("plan")
  /\ sync' = [sync EXCEPT !.pc = "tunnels", !.band = Band]
  /\ UNCHANGED <<nodes, tunnels, sub, file, changes>>

\* The tunnels the answer is about.
Filtered(only) == {i \in Undeleted : only = 0 \/ (i = only /\ tunnels[i].speedTest)}

\* Fault: stopped tunnels become proxies as well.
KeptAll(list) == {i \in list : i \in Undeleted}

\* The tunnels that will become proxies: RenderFRPCConfig skips the stopped ones.
Kept(list) == {i \in list : i \in Running}

OnNodesOf(S) == {i \in S : tunnels[i].node # Platform}

\* Fault: deleted tunnels choose the node as well.
OnNodesEver(list) == OnNodesOf(list \cup DOMAIN tunnels)

OnNodes(list) == OnNodesOf(list)

\* The frps is that of the first tunnel on a node: whichever a Go map yields
\* first from the Store, the newest from the SQLStore.
ReadTunnels ==
  /\ At("tunnels")
  /\ LET list == Filtered(sync.only) IN
     \E n \in IF OnNodes(list) = {} THEN {Platform} ELSE {tunnels[i].node : i \in OnNodes(list)} :
       sync' = [sync EXCEPT !.pc = "node", !.running = Kept(list), !.chosen = n]
  /\ UNCHANGED <<nodes, tunnels, sub, file, changes>>

ReadNode ==
  /\ At("node")
  /\ sync' = [sync EXCEPT !.pc = "write", !.chosen = Platform, !.server = Address(sync.chosen)]
  /\ UNCHANGED <<nodes, tunnels, sub, file, changes>>

-----------------------------------------------------------------------------
(* RenderFRPCConfig and WriteConfig, on the client                         *)

\* frpcBandwidthLimit: kilobits to kilobytes, rounded up.
KBytes(kbps) == (kbps + 7) \div 8

\* effectiveBandwidth, and the client's fall-backs: a limit of its own, else the plan's, else none.
Limit(i) == KBytes(IF tunnels[i].own > 0 THEN tunnels[i].own ELSE sync.band)

\* validateTunnel: one name or local host of blanks and nothing is written.
Valid == \A i \in sync.running : ~tunnels[i].blank

WriteConfig ==
  /\ At("write")
  /\ Valid
  /\ file' = [only |-> sync.only, server |-> sync.server, w |-> sync.w,
              proxies |-> {[id |-> i, limit |-> Limit(i)] : i \in sync.running}]
  /\ sync' = IdleSync
  /\ UNCHANGED <<nodes, tunnels, sub, changes>>

\* The answer is lost, no token is configured, a tunnel is invalid or the disk refuses.
KeepConfig ==
  /\ ~At("idle")
  /\ sync' = IdleSync
  /\ UNCHANGED <<nodes, tunnels, sub, file, changes>>

Next ==
  \/ \E n \in Places, own \in Bandwidths, speedTest, blank \in BOOLEAN : CreateTunnel(n, own, speedTest, blank)
  \/ \E i \in Ids : DeleteTunnel(i)
  \/ \E i \in Ids, status \in {"active", "disabled"} : UpdateTunnelStatus(i, status)
  \/ \E band \in Bandwidths : Grant(band)
  \/ RunOut
  \/ \E n \in Nodes : BindNode(n) \/ DeleteNode(n)
  \/ \E only \in Ids \cup {0} : Request(only)
  \/ ReadSubscription \/ ReadTunnels \/ ReadNode \/ WriteConfig \/ KeepConfig

Spec == Init /\ [][Next]_vars

-----------------------------------------------------------------------------
(* Properties of a configuration that was written                          *)

Served == {p.id : p \in file.proxies}

\* The tunnels the request was about.
About(S) == IF file.only = 0 THEN S ELSE {i \in S : i = file.only /\ tunnels[i].speedTest}

\* However tunnels come and go between the reads, a written configuration holds
\* every tunnel that ran from the request to the answer and none that did not
\* run at some time in between; one asked for a single speed test holds that
\* test alone (clientTunnels filters, RenderFRPCConfig skips).
RunningAreServed == About(file.w.stayed) \subseteq Served /\ Served \subseteq About(file.w.seen)

\* When all tunnels of a request, stopped ones included, are on one node from
\* the request to the answer, the client dials the frps of that node, whose
\* ports they were given: clients with tunnels on several nodes are the only
\* ones sent elsewhere (clientTunnels takes the node of one tunnel).
OneNodeIsDialled ==
  \A n \in Places :
    file.proxies # {} /\ {tunnels[i].node : i \in About(file.w.present)} = {n} =>
      /\ n = Platform \/ n \in file.w.bare => file.server = Platform
      /\ n \in file.w.led => file.server = n

\* A proxy goes without a limit only where the tunnel sets none and, at some
\* time during the request, the user had no running plan or one without a
\* bandwidth.  Else its limit, but for rounding up to whole kilobytes, is within
\* the tunnel's own and within a plan of the time of the request, or of the time
\* the tunnel was created: later plans do not cut what a tunnel may set for
\* itself (CreateTunnel checks, clientTunnels combines).
LimitsExplained ==
  \A p \in file.proxies :
    LET t     == tunnels[p.id]
        Is(b) == b > 0 /\ 8 * p.limit < b + 8
    IN  IF p.limit = 0 THEN t.own = 0 /\ 0 \in file.w.bands
        ELSE /\ t.own > 0 => Is(t.own)
             /\ \E b \in file.w.bands \cup {t.granted} : Is(b)
=============================================================================
