----------------------------- MODULE MCBackend -----------------------------
(***************************************************************************)
(* An instance of TunnelStore and one of Accounts for TLC: what a Backend  *)
(* keeps of tunnels and of users.                                          *)
(*                                                                         *)
(* The two have no variable in common and no property speaks of both, so   *)
(* that a step of one changes nothing for the other: in each behaviour one *)
(* of them does all that it can do, and the other rests at its beginning.  *)
(***************************************************************************)
EXTENDS MCTunnelStore, Accounts

CONSTANTS e1, c1, c2, c3

VARIABLE part  \* the one that moves in this behaviour

BackendInit ==
  /\ Init /\ AccountsInit
  /\ \/ part = "accounts"
     \/ part = "tunnels" /\ \A e \in Emails : ~Exists(e)

BackendNext ==
  \/ part = "tunnels" /\ Next /\ UNCHANGED <<accountsVars, part>>
  \/ part = "accounts" /\ AccountsNext /\ UNCHANGED <<vars, part>>

BackendSpec == BackendInit /\ [][BackendNext]_<<vars, accountsVars, part>>

CallSymmetry == Permutations(Calls)
=============================================================================
