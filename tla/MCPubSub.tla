------------------------------ MODULE MCPubSub ------------------------------
(* PubSub with few subscribers, few tags and short queues.                 *)
EXTENDS PubSub, TLC

\* Subscribers play the same part; no liveness is checked under it.
SubSymmetry == Permutations(Subs)
=============================================================================
