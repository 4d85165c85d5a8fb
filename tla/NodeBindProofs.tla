--------------------------- MODULE NodeBindProofs ---------------------------
(***************************************************************************)
(* What NodeBind promises for any number of nodes, agents and losses: a    *)
(* bind token makes one agent, and an agent that serves survives a         *)
(* restart.  Tokens are numbered in the order they are made, so a fresh    *)
(* one differs from every token an agent was ever given; what has to be    *)
(* added to the first property is that a token through which an agent came *)
(* to its agent token is no node's present one any more.                   *)
(***************************************************************************)
EXTENDS NodeBind, TLAPS

AgentState == [pc : {"down", "waiting", "answered", "serving"}, env : 0 .. next - 1, via : 0 .. next - 1,
               token : Nodes \union {None}, disk : Nodes \union {None}]

Distinct == \A m, n \in Nodes : bind[m] = bind[n] /\ bind[m] # 0 => m = n

\* A token that made an agent is nobody's present bind token.
Spent == \A a \in Agents, n \in Nodes : agent[a].via # 0 => bind[n] # agent[a].via

\* An agent waits only for the answer to a request with a bind token.
Armed == \A a \in Agents : agent[a].pc = "waiting" => agent[a].env # 0

\* A fresh token keeps what was known of the others.
LEMMA FreshToken ==
  ASSUME TypeOK, NEW n \in Nodes, Rotate(n)
  PROVE  /\ next' \in Nat \ {0} /\ next' = next + 1
         /\ bind' \in [Nodes -> 0 .. next' - 1]
         /\ bind'[n] = next
         /\ \A m \in Nodes \ {n} : bind'[m] = bind[m]
         /\ Distinct'
         /\ 0 .. next - 1 \subseteq 0 .. next' - 1
  <1>1. next' \in Nat \ {0} /\ next' = next + 1 /\ 0 .. next - 1 \subseteq 0 .. next' - 1
    BY DEF TypeOK, Rotate
  <1>2. bind' = [bind EXCEPT ![n] = next] /\ bind \in [Nodes -> 0 .. next - 1]
    BY DEF TypeOK, Rotate
  <1>3. bind'[n] = next /\ \A m \in Nodes \ {n} : bind'[m] = bind[m]
    BY <1>2
  <1>4. bind' \in [Nodes -> 0 .. next' - 1]
    <2>1. bind \in [Nodes -> 0 .. next' - 1] /\ next \in 0 .. next' - 1
      BY <1>1, <1>2 DEF TypeOK
    <2> QED BY <1>2, <2>1
  <1>5. \A m \in Nodes : bind[m] # next
    BY <1>1, <1>2 DEF TypeOK
  <1>6. Distinct
    BY DEF TypeOK, Distinct
  <1>7. Distinct'
    <2> SUFFICES ASSUME NEW k \in Nodes, NEW m \in Nodes, bind'[k] = bind'[m], bind'[k] # 0 PROVE k = m
      BY DEF Distinct
    <2>1. CASE k # n /\ m # n
      BY <1>3, <1>6, <2>1 DEF Distinct
    <2>2. CASE k = n \/ m = n
      BY <1>3, <1>5, <2>2
    <2> QED BY <2>1, <2>2
  <1> QED BY <1>1, <1>3, <1>4, <1>7

LEMMA Wider ==
  ASSUME NEW x \in Nat, NEW y \in Nat, x <= y
  PROVE  1 .. x - 1 \subseteq 1 .. y - 1
  OBVIOUS

\* The states of agents stay well formed when more tokens exist.
LEMMA AgentsWiden ==
  ASSUME TypeOK, next' \in Nat, next <= next'
  PROVE  agent \in [Agents -> AgentState'] /\ late \subseteq 1 .. next' - 1
  <1>1. ASSUME NEW s \in AgentState PROVE s \in AgentState'
    <2>1. s.env \in 0 .. next' - 1 /\ s.via \in 0 .. next' - 1
      BY DEF TypeOK, AgentState
    <2>2. s = [pc |-> s.pc, env |-> s.env, via |-> s.via, token |-> s.token, disk |-> s.disk]
      BY DEF AgentState
    <2>3. s.pc \in {"down", "waiting", "answered", "serving"} /\ s.token \in Nodes \union {None} /\ s.disk \in Nodes \union {None}
      BY DEF AgentState
    <2> QED BY <2>1, <2>2, <2>3 DEF AgentState
  <1>2. agent \in [Agents -> AgentState]
    BY DEF TypeOK, AgentState
  <1>3. late \subseteq 1 .. next' - 1
    <2>1. next \in Nat /\ late \subseteq 1 .. next - 1
      BY DEF TypeOK
    <2>2. 1 .. next - 1 \subseteq 1 .. next' - 1
      BY <2>1, Wider
    <2> QED BY <2>1, <2>2
  <1> QED BY <1>1, <1>2, <1>3

\* A change of one value of a function.
LEMMA Replaced ==
  ASSUME NEW S, NEW T, NEW f \in [S -> T], NEW a \in S, NEW t \in T, NEW g, g = [f EXCEPT ![a] = t]
  PROVE  /\ g \in [S -> T] /\ g[a] = t
         /\ \A c \in S : c # a => g[c] = f[c]
  OBVIOUS

LEMMA TypeInit == Init => TypeOK
  BY BindNone, BindLosses DEF Init, TypeOK

LEMMA TypeStep == TypeOK /\ Armed /\ [Next]_vars => TypeOK'
  <1> SUFFICES ASSUME TypeOK, Armed, [Next]_vars PROVE TypeOK'
    OBVIOUS
  <1>T. /\ next \in Nat \ {0} /\ bind \in [Nodes -> 0 .. next - 1] /\ gone \subseteq Nodes
        /\ agent \in [Agents -> AgentState] /\ late \subseteq 1 .. next - 1 /\ losses \in 0 .. MaxLosses /\ Distinct
    BY DEF TypeOK, AgentState, Distinct
  <1>G. ASSUME next' \in Nat \ {0}, bind' \in [Nodes -> 0 .. next' - 1], gone' \subseteq Nodes,
               agent' \in [Agents -> AgentState'], late' \subseteq 1 .. next' - 1, losses' \in 0 .. MaxLosses, Distinct'
        PROVE  TypeOK'
    BY <1>G DEF TypeOK, AgentState, Distinct
  <1>1. ASSUME NEW n \in Nodes, CreateNode(n) PROVE TypeOK'
    <2>1. Rotate(n) /\ UNCHANGED <<gone, agent, late, losses>>
      BY <1>1 DEF CreateNode, Rotate
    <2> QED BY <1>G, <1>T, <2>1, FreshToken, AgentsWiden
  <1>2. ASSUME NEW n \in Nodes, DeleteNode(n) PROVE TypeOK'
    <2>1. /\ bind' = [bind EXCEPT ![n] = 0] /\ gone' = gone \union {n} /\ UNCHANGED <<next, agent, late, losses>>
      BY <1>2 DEF DeleteNode
    <2>2. bind' \in [Nodes -> 0 .. next' - 1]
      BY <1>T, <2>1
    <2>3. Distinct'
      BY <1>T, <2>1 DEF Distinct
    <2>4. AgentState' = AgentState
      BY <2>1 DEF AgentState
    <2> QED BY <1>G, <1>T, <2>1, <2>2, <2>3, <2>4
  <1>3. ASSUME agent' \in [Agents -> AgentState], late' \subseteq 1 .. next - 1,
               losses' \in 0 .. MaxLosses, UNCHANGED <<bind, gone, next>>
        PROVE  TypeOK'
    <2>1. AgentState' = AgentState
      BY <1>3 DEF AgentState
    <2>2. agent' \in [Agents -> AgentState']
      BY <1>3, <2>1
    <2>3. Distinct'
      BY <1>3, <1>T DEF Distinct
    <2> QED BY <1>G, <1>3, <1>T, <2>2, <2>3
  <1>4. ASSUME NEW a \in Agents, NEW n \in Nodes, Paste(a, n) PROVE TypeOK'
    <2>1. agent' = [agent EXCEPT ![a] = [agent[a] EXCEPT !.env = bind[n]]] /\ UNCHANGED <<bind, gone, next, late, losses>>
      BY <1>4 DEF Paste
    <2>2. [agent[a] EXCEPT !.env = bind[n]] \in AgentState'
      BY <1>T, <2>1 DEF AgentState
    <2>3. agent' \in [Agents -> AgentState]
      <3>1. AgentState' = AgentState
        BY <2>1 DEF AgentState
      <3> QED BY ONLY <1>T, <2>1, <2>2, <3>1, Replaced
    <2> QED BY <1>3, <1>T, <2>1, <2>3
  <1>5. ASSUME NEW a \in Agents, Bind(a) PROVE TypeOK'
    <2>0. UNCHANGED <<gone, late, losses>>
      BY <1>5 DEF Bind
    <2>1. ASSUME NEW n \in Nodes, Accept(a, n) PROVE TypeOK'
      <3>1. Rotate(n) /\ agent' = [agent EXCEPT ![a].pc = "answered", ![a].token = n, ![a].via = agent[a].env]
        BY <2>1 DEF Accept
      <3>2. next' \in Nat \ {0} /\ next' = next + 1 /\ bind' \in [Nodes -> 0 .. next' - 1] /\ Distinct'
        BY <3>1, FreshToken
      <3>3. agent \in [Agents -> AgentState'] /\ late' \subseteq 1 .. next' - 1
        BY <1>T, <2>0, <3>2, AgentsWiden
      <3>4. agent' \in [Agents -> AgentState']
        <4>1. agent[a].env \in 0 .. next' - 1 /\ agent[a] \in AgentState'
          BY <3>3 DEF AgentState
        <4>2. agent' = [agent EXCEPT ![a] = [agent[a] EXCEPT !.pc = "answered", !.token = n, !.via = agent[a].env]]
          BY <1>T, <3>1
        <4>3. [agent[a] EXCEPT !.pc = "answered", !.token = n, !.via = agent[a].env] \in AgentState'
          BY <4>1 DEF AgentState
        <4> QED BY <3>3, <4>2, <4>3
      <3> QED BY <1>G, <1>T, <2>0, <3>2, <3>3, <3>4
    <2>2. ASSUME agent' = [agent EXCEPT ![a].pc = "down"], UNCHANGED <<bind, next>> PROVE TypeOK'
      <3>1. [agent[a] EXCEPT !.pc = "down"] \in AgentState
        BY <1>T DEF AgentState
      <3>2. agent' \in [Agents -> AgentState]
        BY <1>T, <2>2, <3>1
      <3> QED BY <1>3, <1>T, <2>0, <2>2, <3>2
    <2> QED BY <1>5, <2>1, <2>2 DEF Bind
  <1>6. ASSUME NEW a \in Agents, Boot(a) PROVE TypeOK'
    <2>0. UNCHANGED <<bind, gone, next, late, losses>>
      BY <1>6 DEF Boot
    <2>1. ASSUME agent' = [agent EXCEPT ![a].token = agent[a].disk, ![a].pc = "serving"] PROVE TypeOK'
      <3>1. [agent[a] EXCEPT !.token = agent[a].disk, !.pc = "serving"] \in AgentState'
        BY <1>T, <2>0 DEF AgentState
      <3>2. agent' = [agent EXCEPT ![a] = [agent[a] EXCEPT !.token = agent[a].disk, !.pc = "serving"]]
        BY <1>T, <2>1
      <3>3. agent' \in [Agents -> AgentState]
        <4>1. AgentState' = AgentState
          BY <2>0 DEF AgentState
        <4> QED BY ONLY <1>T, <3>1, <3>2, <4>1, Replaced
      <3> QED BY <1>3, <1>T, <2>0, <3>3
    <2>2. ASSUME agent' = [agent EXCEPT ![a].pc = "waiting"] PROVE TypeOK'
      <3>1. [agent[a] EXCEPT !.pc = "waiting"] \in AgentState
        BY <1>T DEF AgentState
      <3>2. agent' \in [Agents -> AgentState]
        BY <1>T, <2>2, <3>1
      <3> QED BY <1>3, <1>T, <2>0, <2>2, <3>2
    <2> QED BY <1>6, <2>1, <2>2 DEF Boot
  <1>7. ASSUME NEW a \in Agents, Persist(a) PROVE TypeOK'
    <2>1. UNCHANGED <<bind, gone, next, late, losses>> /\ agent' = [agent EXCEPT ![a].disk = agent[a].token, ![a].pc = "serving"]
      BY <1>7 DEF Persist
    <2>2. [agent[a] EXCEPT !.disk = agent[a].token, !.pc = "serving"] \in AgentState'
      BY <1>T, <2>1 DEF AgentState
    <2>3. agent' = [agent EXCEPT ![a] = [agent[a] EXCEPT !.disk = agent[a].token, !.pc = "serving"]]
      BY <1>T, <2>1
    <2>4. agent' \in [Agents -> AgentState]
      <3>1. AgentState' = AgentState
        BY <2>1 DEF AgentState
      <3> QED BY ONLY <1>T, <2>2, <2>3, <3>1, Replaced
    <2> QED BY <1>3, <1>T, <2>1, <2>4
  <1>8. ASSUME NEW a \in Agents, Fall(a) PROVE TypeOK'
    <2> DEFINE via == IF agent[a].disk = None THEN 0 ELSE agent[a].via
               s   == [agent[a] EXCEPT !.pc = "down", !.token = None, !.via = via]
    <2>1. /\ losses < MaxLosses /\ losses' = losses + 1 /\ UNCHANGED <<bind, gone, next>>
          /\ late' \in IF agent[a].pc = "waiting" THEN {late, late \union {agent[a].env}} ELSE {late}
      BY <1>8 DEF Fall
    <2>2. agent' = [agent EXCEPT ![a] = s]
      BY <1>8, <1>T DEF Fall
    <2>3. s \in AgentState
      <3>1. via \in 0 .. next - 1 /\ agent[a] \in AgentState
        BY <1>T DEF AgentState
      <3> HIDE DEF via
      <3> QED BY <3>1 DEF AgentState
    <2>4. agent[a].env \in 0 .. next - 1
      BY <1>T DEF AgentState
    <2>5. late' \subseteq 1 .. next - 1
      <3>1. agent[a].pc = "waiting" => agent[a].env \in 1 .. next - 1
        BY <1>T, <2>4 DEF Armed
      <3>2. CASE agent[a].pc = "waiting"
        BY <1>T, <2>1, <3>1, <3>2
      <3>3. CASE agent[a].pc # "waiting"
        BY <1>T, <2>1, <3>3
      <3> QED BY <3>2, <3>3
    <2>6. losses' \in 0 .. MaxLosses
      BY <1>T, <2>1, BindLosses
    <2> HIDE DEF s
    <2>7. agent' \in [Agents -> AgentState]
      BY <1>T, <2>2, <2>3
    <2> QED BY <1>3, <2>1, <2>5, <2>6, <2>7
  <1>9. ASSUME NEW b \in late, BindLate(b) PROVE TypeOK'
    <2>1. late' = late \ {b} /\ UNCHANGED <<gone, agent, losses>>
      BY <1>9 DEF BindLate
    <2>2. ASSUME NEW n \in Nodes, Rotate(n) PROVE TypeOK'
      <3>1. agent \in [Agents -> AgentState'] /\ late \subseteq 1 .. next' - 1
        BY <1>T, <2>2, FreshToken, AgentsWiden
      <3> QED BY <1>G, <1>T, <2>1, <2>2, <3>1, FreshToken
    <2>3. ASSUME UNCHANGED <<bind, next>> PROVE TypeOK'
      <3>1. AgentState' = AgentState
        BY <2>3 DEF AgentState
      <3>2. Distinct'
        BY <1>T, <2>3 DEF Distinct
      <3> QED BY <1>G, <1>T, <2>1, <2>3, <3>1, <3>2
    <2> QED BY <1>9, <2>2, <2>3 DEF BindLate
  <1>10. ASSUME UNCHANGED vars PROVE TypeOK'
    <2>1. AgentState' = AgentState
      BY <1>10 DEF AgentState, vars
    <2>2. Distinct'
      BY <1>T, <1>10 DEF Distinct, vars
    <2> QED BY <1>G, <1>T, <1>10, <2>1, <2>2 DEF vars
  <1> QED BY <1>1, <1>2, <1>4, <1>5, <1>6, <1>7, <1>8, <1>9, <1>10 DEF Next

-----------------------------------------------------------------------------
(* The invariant                                                           *)

Inv == TypeOK /\ Armed /\ Spent /\ OneAgentPerBindToken /\ ServingSurvivesRestart

\* Bind tokens stay, go or are made afresh.
BindsKept == \A n \in Nodes : bind'[n] = bind[n] \/ bind'[n] = 0 \/ bind'[n] = next

\* An agent in state s instead of r came to no agent token and is still in order.
InOrder(r, s) ==
  /\ s.via = r.via \/ s.via = 0
  /\ s.pc = "waiting" => s.env # 0
  /\ s.pc = "serving" => s.disk = s.token

LEMMA AgentsKept ==
  ASSUME Inv, TypeOK', BindsKept, \A a \in Agents : InOrder(agent[a], agent'[a])
  PROVE  Inv'
  <1>1. \A a \in Agents : agent[a].via \in 0 .. next - 1
    BY DEF Inv, TypeOK
  <1>2. next \in Nat \ {0}
    BY DEF Inv, TypeOK
  <1>3. Spent'
    <2> SUFFICES ASSUME NEW a \in Agents, NEW n \in Nodes, agent'[a].via # 0 PROVE bind'[n] # agent'[a].via
      BY DEF Spent
    <2>1. agent'[a].via = agent[a].via /\ bind[n] # agent[a].via
      BY DEF Inv, Spent, InOrder
    <2>2. bind'[n] = bind[n] \/ bind'[n] = 0 \/ bind'[n] = next
      BY DEF BindsKept
    <2>3. agent[a].via \in 0 .. next - 1
      BY <1>1
    <2> QED BY <1>2, <2>1, <2>2, <2>3
  <1>4. OneAgentPerBindToken'
    <2> SUFFICES ASSUME NEW a \in Agents, NEW c \in Agents, agent'[a].via = agent'[c].via, agent'[a].via # 0 PROVE a = c
      BY DEF OneAgentPerBindToken
    <2>1. agent'[a].via = agent[a].via /\ agent'[c].via = agent[c].via
      BY DEF InOrder
    <2> QED BY <2>1 DEF Inv, OneAgentPerBindToken
  <1>5. Armed' /\ ServingSurvivesRestart'
    BY DEF Armed, ServingSurvivesRestart, InOrder
  <1> QED BY <1>3, <1>4, <1>5 DEF Inv

\* The same when one agent at most changed.
LEMMA AgentKept ==
  ASSUME Inv, TypeOK', BindsKept, NEW a \in Agents, NEW s \in AgentState,
         agent' = [agent EXCEPT ![a] = s], InOrder(agent[a], s)
  PROVE  Inv'
  <1>1. agent \in [Agents -> AgentState]
    BY DEF Inv, TypeOK, AgentState
  <1>2. agent'[a] = s /\ \A c \in Agents : c # a => agent'[c] = agent[c]
    BY <1>1, Replaced
  <1>3. ASSUME NEW c \in Agents PROVE InOrder(agent[c], agent'[c])
    <2>1. CASE c = a
      BY <1>2, <2>1
    <2>2. CASE c # a
      <3>1. agent'[c] = agent[c]
        BY <1>2, <2>2
      <3>2. InOrder(agent[c], agent[c])
        BY DEF Inv, Armed, ServingSurvivesRestart, InOrder
      <3> QED BY <3>1, <3>2
    <2> QED BY <2>1, <2>2
  <1> QED BY <1>3, AgentsKept

LEMMA InvInit == Init => Inv
  BY TypeInit DEF Init, Inv, Armed, Spent, OneAgentPerBindToken, ServingSurvivesRestart

LEMMA InvStep == Inv /\ [Next]_vars => Inv'
  <1> SUFFICES ASSUME Inv, [Next]_vars PROVE Inv'
    OBVIOUS
  <1>T. TypeOK /\ TypeOK' /\ next \in Nat \ {0} /\ bind \in [Nodes -> 0 .. next - 1] /\ agent \in [Agents -> AgentState]
    BY TypeStep DEF Inv, TypeOK, AgentState
  <1>B. UNCHANGED bind => BindsKept
    BY DEF BindsKept
  <1>S. ASSUME BindsKept, UNCHANGED agent PROVE Inv'
    <2>1. \A a \in Agents : InOrder(agent[a], agent'[a])
      BY <1>S DEF InOrder, Inv, Armed, ServingSurvivesRestart
    <2> QED BY <1>T, <1>S, <2>1, AgentsKept
  <1>1. ASSUME NEW n \in Nodes, CreateNode(n) \/ DeleteNode(n) PROVE Inv'
    <2>1. BindsKept /\ UNCHANGED agent
      BY <1>1, <1>T DEF CreateNode, DeleteNode, BindsKept
    <2> QED BY <1>S, <2>1
  <1>2. ASSUME NEW a \in Agents, NEW n \in Nodes, Paste(a, n) PROVE Inv'
    <2> DEFINE s == [agent[a] EXCEPT !.env = bind[n]]
    <2>1. agent' = [agent EXCEPT ![a] = s] /\ UNCHANGED bind /\ agent[a].pc = "down"
      BY <1>2 DEF Paste
    <2>2. s \in AgentState /\ InOrder(agent[a], s)
      BY <1>T, <2>1 DEF AgentState, InOrder
    <2> HIDE DEF s
    <2> QED BY <1>T, <1>B, <2>1, <2>2, AgentKept
  <1>3. ASSUME NEW a \in Agents, NEW n \in Nodes, Accept(a, n), agent[a].pc = "waiting" PROVE Inv'
    <2>1. /\ bind[n] = agent[a].env /\ Rotate(n)
          /\ agent' = [agent EXCEPT ![a].pc = "answered", ![a].token = n, ![a].via = agent[a].env]
      BY <1>3 DEF Accept
    <2>2. bind[n] # 0 /\ bind[n] \in 0 .. next - 1
      <3>1. agent[a].env # 0
        BY <1>3 DEF Inv, Armed
      <3>2. bind[n] \in 0 .. next - 1
        BY <1>T
      <3> QED BY <2>1, <3>1, <3>2
    <2>3. /\ agent'[a].via = bind[n] /\ agent'[a].pc = "answered" /\ agent'[a].env = bind[n]
          /\ \A c \in Agents \ {a} : agent'[c] = agent[c]
      BY <1>T, <2>1 DEF AgentState
    <2>4. \A c \in Agents : agent[c].via # bind[n]
      BY <2>2 DEF Inv, Spent
    <2>5. \A m \in Nodes : bind'[m] # bind[n]
      <3>1. bind'[n] = next /\ \A m \in Nodes \ {n} : bind'[m] = bind[m]
        BY <1>T, <2>1, FreshToken
      <3>2. \A m \in Nodes \ {n} : bind[m] # bind[n]
        BY <1>T, <2>2 DEF TypeOK
      <3> QED BY <1>T, <2>2, <3>1, <3>2
    <2>6. Spent'
      <3> SUFFICES ASSUME NEW c \in Agents, NEW m \in Nodes, agent'[c].via # 0 PROVE bind'[m] # agent'[c].via
        BY DEF Spent
      <3>1. CASE c = a
        BY <2>3, <2>5, <3>1
      <3>2. CASE c # a
        <4>1. agent'[c].via = agent[c].via /\ bind[m] # agent[c].via /\ agent[c].via \in 0 .. next - 1
          BY <1>T, <2>3, <3>2 DEF AgentState, Inv, Spent
        <4>2. bind'[m] = bind[m] \/ bind'[m] = next
          BY <1>T, <2>1, FreshToken
        <4> QED BY <1>T, <4>1, <4>2
      <3> QED BY <3>1, <3>2
    <2>7. OneAgentPerBindToken'
      <3> SUFFICES ASSUME NEW c \in Agents, NEW d \in Agents, agent'[c].via = agent'[d].via, agent'[c].via # 0, c # d PROVE FALSE
        BY DEF OneAgentPerBindToken
      <3>1. CASE c # a /\ d # a
        BY <2>3, <3>1 DEF Inv, OneAgentPerBindToken
      <3>2. CASE c = a \/ d = a
        BY <2>3, <2>4, <3>2
      <3> QED BY <3>1, <3>2
    <2>8. Armed' /\ ServingSurvivesRestart'
      <3> SUFFICES ASSUME NEW c \in Agents PROVE /\ agent'[c].pc = "waiting" => agent'[c].env # 0
                                                 /\ agent'[c].pc = "serving" => agent'[c].disk = agent'[c].token
        BY DEF Armed, ServingSurvivesRestart
      <3>1. CASE c = a
        BY <2>3, <3>1
      <3>2. CASE c # a
        <4>1. agent'[c] = agent[c]
          BY <2>3, <3>2
        <4> QED BY <4>1 DEF Inv, Armed, ServingSurvivesRestart
      <3> QED BY <3>1, <3>2
    <2> QED BY <1>T, <2>6, <2>7, <2>8 DEF Inv
  <1>4. ASSUME NEW a \in Agents, agent' = [agent EXCEPT ![a].pc = "down"], UNCHANGED <<bind, next>> PROVE Inv'
    <2> DEFINE s == [agent[a] EXCEPT !.pc = "down"]
    <2>1. agent' = [agent EXCEPT ![a] = s]
      BY <1>4
    <2>2. s \in AgentState /\ InOrder(agent[a], s)
      BY <1>T DEF AgentState, InOrder
    <2> HIDE DEF s
    <2> QED BY <1>T, <1>B, <1>4, <2>1, <2>2, AgentKept
  <1>5. ASSUME NEW a \in Agents, Boot(a) PROVE Inv'
    <2>0. UNCHANGED bind
      BY <1>5 DEF Boot
    <2>1. ASSUME agent' = [agent EXCEPT ![a].token = agent[a].disk, ![a].pc = "serving"] PROVE Inv'
      <3> DEFINE s == [agent[a] EXCEPT !.token = agent[a].disk, !.pc = "serving"]
      <3>1. agent' = [agent EXCEPT ![a] = s]
        BY <1>T, <2>1
      <3>2. s \in AgentState /\ InOrder(agent[a], s)
        BY <1>T DEF AgentState, InOrder
      <3> HIDE DEF s
      <3> QED BY <1>T, <1>B, <2>0, <3>1, <3>2, AgentKept
    <2>2. ASSUME agent' = [agent EXCEPT ![a].pc = "waiting"], agent[a].env # 0 PROVE Inv'
      <3> DEFINE s == [agent[a] EXCEPT !.pc = "waiting"]
      <3>1. agent' = [agent EXCEPT ![a] = s]
        BY <2>2
      <3>2. s \in AgentState /\ InOrder(agent[a], s)
        BY <1>T, <2>2 DEF AgentState, InOrder
      <3> HIDE DEF s
      <3> QED BY <1>T, <1>B, <2>0, <3>1, <3>2, AgentKept
    <2> QED BY <1>5, <2>1, <2>2 DEF Boot
  <1>6. ASSUME NEW a \in Agents, Persist(a) PROVE Inv'
    <2> DEFINE s == [agent[a] EXCEPT !.disk = agent[a].token, !.pc = "serving"]
    <2>1. agent' = [agent EXCEPT ![a] = s] /\ UNCHANGED bind
      BY <1>6, <1>T DEF Persist
    <2>2. s \in AgentState /\ InOrder(agent[a], s)
      BY <1>T DEF AgentState, InOrder
    <2> HIDE DEF s
    <2> QED BY <1>T, <1>B, <2>1, <2>2, AgentKept
  <1>7. ASSUME NEW a \in Agents, Fall(a) PROVE Inv'
    <2> DEFINE via == IF agent[a].disk = None THEN 0 ELSE agent[a].via
               s   == [agent[a] EXCEPT !.pc = "down", !.token = None, !.via = via]
    <2>1. agent' = [agent EXCEPT ![a] = s] /\ UNCHANGED bind
      BY <1>7, <1>T DEF Fall
    <2>2. s \in AgentState /\ InOrder(agent[a], s)
      <3>1. via \in 0 .. next - 1 /\ agent[a] \in AgentState /\ (via = agent[a].via \/ via = 0)
        BY <1>T DEF AgentState
      <3> HIDE DEF via
      <3>2. s \in AgentState
        BY <3>1 DEF AgentState
      <3>3. s.pc = "down" /\ s.via = via
        BY <3>1 DEF AgentState
      <3> QED BY <3>1, <3>2, <3>3 DEF InOrder
    <2> HIDE DEF s
    <2> QED BY <1>T, <1>B, <2>1, <2>2, AgentKept
  <1>8. ASSUME NEW b \in late, BindLate(b) PROVE Inv'
    <2>1. UNCHANGED agent
      BY <1>8 DEF BindLate
    <2>2. ASSUME NEW n \in Nodes, Rotate(n) PROVE BindsKept
      <3>1. bind'[n] = next /\ \A m \in Nodes \ {n} : bind'[m] = bind[m]
        BY <1>T, <2>2, FreshToken
      <3> QED BY <3>1 DEF BindsKept
    <2>3. BindsKept
      BY <1>8, <1>B, <2>2 DEF BindLate
    <2> QED BY <1>S, <2>1, <2>3
  <1>9. ASSUME UNCHANGED vars PROVE Inv'
    BY <1>9, <1>B, <1>S DEF vars
  <1>10. ASSUME NEW a \in Agents, Bind(a) PROVE Inv'
    BY <1>3, <1>4, <1>10 DEF Bind
  <1> QED BY <1>1, <1>2, <1>5, <1>6, <1>7, <1>8, <1>9, <1>10 DEF Next

-----------------------------------------------------------------------------
(* The theorems                                                            *)

LEMMA Invariant == Spec => []Inv
  BY InvInit, InvStep, PTL DEF Spec

\* Tokens are fresh: every token an agent was given is older than the next one,
\* and no two nodes share one (store.go, BindNode and CreateNode).
THEOREM TypeCorrect == Spec => []TypeOK
  <1>1. Inv => TypeOK
    BY DEF Inv
  <1> QED BY <1>1, Invariant, PTL

\* However many machines were given a bind token and however their requests are
\* repeated, delayed or lost, one of them at most becomes an agent through it.
THEOREM OneAgent == Spec => []OneAgentPerBindToken
  <1>1. Inv => OneAgentPerBindToken
    BY DEF Inv
  <1> QED BY <1>1, Invariant, PTL

\* An agent that serves has its token on disk.
THEOREM ServingAgentsSurvive == Spec => []ServingSurvivesRestart
  <1>1. Inv => ServingSurvivesRestart
    BY DEF Inv
  <1> QED BY <1>1, Invariant, PTL
=============================================================================
