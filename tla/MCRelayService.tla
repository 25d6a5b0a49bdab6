--------------------------- MODULE MCRelayService ---------------------------
(* RelayService with small sets of connections, names and callers.         *)
EXTENDS RelayService, TLC

\* Connections play the same part; no liveness is checked under it.
HandlerSymmetry == Permutations(Handlers)
=============================================================================
