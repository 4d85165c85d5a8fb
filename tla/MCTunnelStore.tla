--------------------------- MODULE MCTunnelStore ---------------------------
(* Instances of TunnelStore for TLC. *)
EXTENDS TunnelStore, TLC

CONSTANTS u1, u2

MCSymmetry == Permutations(Users)

Limits(tcp, udp, http, https) == [tcp |-> tcp, udp |-> udp, http |-> http, https |-> https]

\* "small" allows one counted tunnel and one unit of traffic, "wide" two tunnels.
MCTerms ==
  [p \in Plans |->
     [days |-> IF p = "small" THEN 0 ELSE 1, trafficLimit |-> IF p = "small" THEN 1 ELSE 0,
      maxTunnels |-> IF p = "small" THEN 1 ELSE 2, maxOfType |-> Limits(0, 1, 1, 1),
      maxDomains |-> 1, allow |-> IF p = "small" THEN {"tcp", "http"} ELSE AllTypes,
      customDomain |-> TRUE, autoCert |-> p # "small"]]

\* The name of every speed test is one a user could also ask for; s is the first.
MCSpeedDomain == [i \in 1..MaxTunnelID |-> <<"speed", i>>]
MCDomains     == {<<"user", 1>>} \cup {<<"speed", i>> : i \in 1..MaxTunnelID}
MCNoDomain    == <<"none", 0>>
=============================================================================
