---------------------------- MODULE MCSelfServe ----------------------------
(* Small instances of SelfServe for TLC.                                   *)
EXTENDS SelfServe, TLC

(* Requests and the ids of rows are interchangeable.                       *)
Symmetry == Permutations(Requests) \cup Permutations(Candidates)
              \cup Permutations(Assignments) \cup Permutations(Invitations)
=============================================================================
