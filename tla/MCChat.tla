------------------------------- MODULE MCChat -------------------------------
(* Instances of Chat for TLC.                                              *)
EXTENDS Chat, TLC

MCSymmetry == Permutations(Turn) \cup Permutations(Route) \cup Permutations(AcpSession)
=============================================================================
