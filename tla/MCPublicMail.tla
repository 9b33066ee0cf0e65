---------------------------- MODULE MCPublicMail ----------------------------
(* Instances of PublicMail for TLC. *)
EXTENDS PublicMail, TLC

\* Requests are interchangeable.
ReqSymmetry == Permutations(Reqs)
=============================================================================
