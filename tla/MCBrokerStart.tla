--------------------------- MODULE MCBrokerStart ---------------------------
(* Two Pis on one computer: a development build that works locally, and a   *)
(* release that hosts a group open to the network.                          *)
EXTENDS BrokerStart, TLC

CONSTANTS p1, p2

Runs(mode, version, channel) ==
  [mode |-> mode, version |-> version, channel |-> channel]

MCPis == {p1, p2}
MCTeams ==
  {p1 :> Runs("local", 2, "development") @@ p2 :> Runs("lan-host", 2, "release")}

\* Bound: a behaviour is followed to the first theft of a lock.  What the run's
\* properties say of what comes after it holds by their disjunct `stolen', and
\* `stolen' stays; the theorem on ServedByOwner covers the rest.
UntilTheft == ~stolen

=============================================================================
