------------------------------ MODULE NodeBind ------------------------------
(***************************************************************************)
(* How a node agent becomes the agent of a node.  The administrator creates*)
(* the node and pastes its bind token into the agent's environment; the    *)
(* agent exchanges it once for the agent token, writes that to its disk    *)
(* and serves.  Every accepted exchange gives the node a new bind token.   *)
(* An agent that fails exits, and the container runtime starts it again.   *)
(*                                                                         *)
(* Bind tokens are numbered in the order they are made.  The agent token of*)
(* a node never changes, so a node stands for its agent token.             *)
(***************************************************************************)
EXTENDS Naturals, FiniteSets

CONSTANTS
  Nodes,      \* node records the administrator may create
  Agents,     \* machines that run a node agent
  MaxLosses,  \* bound: requests and answers lost, crashes and failed writes
  None        \* no agent token

ASSUME BindNone   == None \notin Nodes
ASSUME BindLosses == MaxLosses \in Nat

VARIABLES
  bind,    \* the current bind token of each node, 0 when there is no such node
  gone,    \* the deleted nodes
  next,    \* the number of the next bind token
  agent,   \* per agent: pc, pasted bind token, token in memory, token on disk and the bind token that gave it
  late,    \* bind tokens of requests that the server will handle though nobody waits for the answer
  losses   \* losses so far

vars == <<bind, gone, next, agent, late, losses>>

TypeOK ==
  /\ next \in Nat \ {0}
  /\ bind \in [Nodes -> 0 .. next - 1] /\ gone \subseteq Nodes
  /\ agent \in [Agents -> [pc : {"down", "waiting", "answered", "serving"}, env : 0 .. next - 1, via : 0 .. next - 1,
                           token : Nodes \union {None}, disk : Nodes \union {None}]]
  /\ late \subseteq 1 .. next - 1
  /\ losses \in 0 .. MaxLosses
  /\ \A m, n \in Nodes : bind[m] = bind[n] /\ bind[m] # 0 => m = n

Init ==
  /\ bind = [n \in Nodes |-> 0] /\ gone = {} /\ next = 1
  /\ agent = [a \in Agents |-> [pc |-> "down", env |-> 0, via |-> 0, token |-> None, disk |-> None]]
  /\ late = {} /\ losses = 0

-----------------------------------------------------------------------------
(* The administrator *)

CreateNode(n) ==
  /\ bind[n] = 0 /\ n \notin gone
  /\ bind' = [bind EXCEPT ![n] = next] /\ next' = next + 1
  /\ UNCHANGED <<gone, agent, late, losses>>

DeleteNode(n) ==
  /\ bind[n] # 0
  /\ bind' = [bind EXCEPT ![n] = 0] /\ gone' = gone \union {n}
  /\ UNCHANGED <<next, agent, late, losses>>

(* The node's present bind token is pasted into the environment of an agent *)
(* that has no agent token and whose bind token is of no use.               *)
Paste(a, n) ==
  /\ agent[a].pc = "down" /\ agent[a].disk = None
  /\ bind[n] # 0 /\ \A m \in Nodes : agent[a].env = 0 \/ bind[m] # agent[a].env
  /\ agent' = [agent EXCEPT ![a].env = bind[n]]
  /\ UNCHANGED <<bind, gone, next, late, losses>>

-----------------------------------------------------------------------------
(* The control plane: BindNode looks the token up and rotates it.  *)

(* A plausible bug: the token is not rotated. *)
KeepToken(n) == UNCHANGED <<bind, next>>

Rotate(n) == bind' = [bind EXCEPT ![n] = next] /\ next' = next + 1

Accept(a, n) ==
  /\ bind[n] = agent[a].env
  /\ Rotate(n)
  /\ agent' = [agent EXCEPT ![a].pc = "answered", ![a].token = n, ![a].via = agent[a].env]

Refused(a) == \A n \in Nodes : bind[n] # agent[a].env

(* A plausible bug: the refused agent tries the same bind token again. *)
RetrySpent(a) ==
  /\ agent[a].pc = "waiting"
  /\ (\E n \in Nodes : Accept(a, n)) \/ (Refused(a) /\ UNCHANGED <<bind, next, agent>>)
  /\ UNCHANGED <<gone, late, losses>>

Bind(a) ==
  /\ agent[a].pc = "waiting"
  /\ \/ \E n \in Nodes : Accept(a, n)
     \/ /\ Refused(a)
        /\ agent' = [agent EXCEPT ![a].pc = "down"]
        /\ UNCHANGED <<bind, next>>
  /\ UNCHANGED <<gone, late, losses>>

BindLate(b) ==
  /\ b \in late
  /\ late' = late \ {b}
  /\ IF \E n \in Nodes : bind[n] = b THEN \E n \in Nodes : bind[n] = b /\ Rotate(n)
     ELSE UNCHANGED <<bind, next>>
  /\ UNCHANGED <<gone, agent, losses>>

-----------------------------------------------------------------------------
(* The agent *)

(* main: the token on disk is used if there is one, else the bind token is *)
(* exchanged; with neither the agent exits at once.                        *)
Boot(a) ==
  /\ agent[a].pc = "down"
  /\ \/ /\ agent[a].disk # None
        /\ agent' = [agent EXCEPT ![a].token = agent[a].disk, ![a].pc = "serving"]
     \/ /\ agent[a].disk = None /\ agent[a].env # 0
        /\ agent' = [agent EXCEPT ![a].pc = "waiting"]
  /\ UNCHANGED <<bind, gone, next, late, losses>>

(* A plausible bug: the agent serves before its token is on disk. *)
ServeFirst(a) ==
  /\ agent[a].pc = "answered"
  /\ agent' = [agent EXCEPT ![a].pc = "serving"]
  /\ UNCHANGED <<bind, gone, next, late, losses>>

Persist(a) ==
  /\ agent[a].pc = "answered"
  /\ agent' = [agent EXCEPT ![a].disk = agent[a].token, ![a].pc = "serving"]
  /\ UNCHANGED <<bind, gone, next, late, losses>>

(* The agent ends: it crashed, gave up waiting (the request may still reach *)
(* the server), never saw the answer, or could not write its token.         *)
Fall(a) ==
  /\ agent[a].pc # "down" /\ losses < MaxLosses
  /\ losses' = losses + 1
  /\ late' \in IF agent[a].pc = "waiting" THEN {late, late \union {agent[a].env}} ELSE {late}
  /\ agent' = [agent EXCEPT ![a].pc = "down", ![a].token = None, ![a].via = IF agent[a].disk = None THEN 0 ELSE @]
  /\ UNCHANGED <<bind, gone, next>>

-----------------------------------------------------------------------------
Next ==
  \/ \E n \in Nodes : CreateNode(n) \/ DeleteNode(n)
  \/ \E a \in Agents, n \in Nodes : Paste(a, n)
  \/ \E a \in Agents : Bind(a) \/ Boot(a) \/ Persist(a) \/ Fall(a)
  \/ \E b \in late : BindLate(b)

Spec == Init /\ [][Next]_vars

(* The runtime restarts the agent, the server handles what it receives, and *)
(* the administrator gives an agent that is stuck the present bind token.   *)
FairSpec ==
  /\ Spec
  /\ \A a \in Agents : WF_vars(Boot(a)) /\ WF_vars(Bind(a)) /\ WF_vars(Persist(a))
  /\ \A a \in Agents : SF_vars(\E n \in Nodes : Paste(a, n))

-----------------------------------------------------------------------------
(* A bind token makes one agent: no two machines that were given the same  *)
(* bind token both come to hold an agent token through it, whichever       *)
(* requests were repeated, delayed or lost (BindNode rotates the token in  *)
(* the step that accepts it).                                              *)
OneAgentPerBindToken ==
  \A a, c \in Agents : agent[a].via = agent[c].via /\ agent[a].via # 0 => a = c

(* An agent that serves needs no bind token after a restart, which would   *)
(* be refused: its token is on disk (main persists before it listens).     *)
ServingSurvivesRestart == \A a \in Agents : agent[a].pc = "serving" => agent[a].disk = agent[a].token

(* Liveness: an agent with a bind token serves in the end, however many    *)
(* answers were lost, if the administrator pastes the present token when   *)
(* it is stuck and does not delete the node (adminNodes shows the rotated token).*)
ServesInTheEnd ==
  \A a \in Agents : (agent[a].env # 0) ~> (agent[a].pc = "serving" \/ \A n \in Nodes : bind[n] = 0)

=============================================================================
