---------------------------- MODULE MCPollServer ----------------------------
(***************************************************************************)
(* PollServer with interchangeable connections.                            *)
(***************************************************************************)
EXTENDS PollServer, TLC

\* Sound where every connection is allowed and none is a ping, for invariants.
ConnSymmetry == Permutations(Conns)
=============================================================================
