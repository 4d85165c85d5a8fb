---------------------------- MODULE EntryPoints ----------------------------
(***************************************************************************)
(* What Backend (apps/api-server/internal/platform/backend.go) promises    *)
(* its callers about public entry points, whichever store is behind it: a  *)
(* port of a node or a domain is granted to one tunnel at a time, stays    *)
(* with it until the tunnel ends, and is free afterwards.                  *)
(*                                                                         *)
(* Nothing is said of requests, transactions, clocks, plans or limits.     *)
(* TunnelStore and SqlTunnels are shown to implement this module.          *)
(***************************************************************************)
CONSTANTS
  Ids,     \* identifiers of tunnels
  Owners,  \* users
  Points   \* entry points: ports of nodes, and domains

VARIABLES
  live,      \* the tunnels that have not ended: id -> owner, entry point, temporary
  known,     \* identifiers ever granted
  reserved,  \* entry points nobody else can be granted
  loose      \* entry points a temporary tunnel had, which ending it again gives up again

abstractVars == <<live, known, reserved, loose>>

Grants == [owner : Owners, point : Points, temporary : BOOLEAN]

Init ==
  /\ live = [i \in {} |-> {}]
  /\ known = {}
  /\ reserved = {}
  /\ loose = {}

PointsOf(S)   == {live[i].point : i \in S}
Temporary(S)  == {i \in S : live[i].temporary}

\* The tunnels of S are gone and what they had is free; T is what those of them that
\* are temporary may give up once more.
Leave(S, T) ==
  /\ T \subseteq PointsOf(Temporary(S))
  /\ loose' = loose \cup T

\* One call ends one tunnel, or any number of temporary ones.
End(S, T) ==
  /\ S = Temporary(S) \/ \E i \in DOMAIN live : S = {i}
  /\ Leave(S, T)
  /\ UNCHANGED known
  /\ reserved' = reserved \ PointsOf(S)
  /\ live' = [i \in DOMAIN live \ S |-> live[i]]

\* A creation may end temporary tunnels first.  It takes an entry point that is free by
\* then, under an identifier that was never used.
Grant(S, T) ==
  /\ S = Temporary(S)
  /\ Leave(S, T)
  /\ \E i \in Ids \ known :
       /\ known' = known \cup {i}
       /\ \E g \in Grants :
            /\ g.point \notin reserved \ PointsOf(S)
            /\ reserved' = (reserved \ PointsOf(S)) \cup {g.point}
            /\ live' = [j \in (DOMAIN live \ S) \cup {i} |-> IF j = i THEN g ELSE live[j]]

\* A temporary tunnel that has ended is ended again, which the stores do not refuse.
EndAgain(p) ==
  /\ p \in loose
  /\ reserved' = reserved \ {p}
  /\ UNCHANGED <<live, known, loose>>

Next ==
  \/ \E S \in SUBSET DOMAIN live : \E T \in SUBSET PointsOf(S) : End(S, T) \/ Grant(S, T)
  \/ \E p \in loose : EndAgain(p)

Spec == Init /\ [][Next]_abstractVars

-----------------------------------------------------------------------------
(* What follows for every store that implements this                      *)

\* No reservation outlives its tunnel.
NothingLeaks == \A p \in reserved : \E i \in DOMAIN live : live[i].point = p

\* A live tunnel keeps its entry point, except one that an ended temporary tunnel had
\* before and may give up again.
Kept == \A i \in DOMAIN live : live[i].point \in reserved \cup loose

\* Two live tunnels never share an entry point, with the same exception.
Exclusive ==
  \A i, j \in DOMAIN live : i # j /\ live[i].point = live[j].point => live[i].point \in loose
=============================================================================
