--------------------------- MODULE MCControlPlane ---------------------------
(***************************************************************************)
(* A small instance of ControlPlane.  One update is enough: versions tell  *)
(* the files apart, and what updates do to a configuration is checked with *)
(* ConfigStore.                                                            *)
(***************************************************************************)
EXTENDS ControlPlane, TLC

MCCatalog     == {"http"}
MCDefaultPort == [s \in MCCatalog |-> 1]
MCUpdates     == {
  [NodeID |-> "node", IgnoreIPs |-> [a \in {} |-> 1],
   Services |-> [s \in MCCatalog |-> [Enabled |-> TRUE, Port |-> 2]],
   Webhook  |-> [Enabled |-> FALSE, Kind |-> "generic", URL |-> "", Clear |-> FALSE]]}

Symmetry == Permutations(Handlers) \cup Permutations(Procs)
=============================================================================
