-------------------------- MODULE MCPlayerSessions --------------------------
(* Instances of PlayerSessions for TLC. *)
EXTENDS PlayerSessions, TLC

\* Connections are interchangeable, and so are Gates when all or none may stop.
ConnSymmetry == Permutations(Conns)
FullSymmetry == Permutations(Conns) \cup Permutations(Gates)
=============================================================================
