-------------------------- MODULE MCTestAuthoring --------------------------
(* Small instances of TestAuthoring for TLC.                               *)
EXTENDS TestAuthoring, TLC

(* Admins and the ids of rows are interchangeable.                         *)
Symmetry == Permutations(Admins) \cup Permutations(Tests)
              \cup Permutations(Questions)
=============================================================================
