------------------------------ MODULE MCSignIn ------------------------------
(***************************************************************************)
(* The two ways in, for TLC: the codes that open a visitor's session and   *)
(* the accounts behind an admin's.  They share no state and no code, so a  *)
(* behaviour takes the steps of one of them.                               *)
(***************************************************************************)
EXTENDS VerificationCodes, Accounts, TLC

VARIABLE entrance

SignInInit == Init /\ InitAccounts /\ entrance \in {"visitor", "admin"}

SignInNext ==
  \/ entrance = "visitor" /\ Next /\ UNCHANGED <<accountVars, entrance>>
  \/ entrance = "admin" /\ NextAccounts /\ UNCHANGED <<vars, entrance>>

SignInSpec == SignInInit /\ [][SignInNext]_<<vars, accountVars, entrance>>

(* Two overlapping requests that do not differ.                            *)
RequestSymmetry == Permutations(Requests) \cup Permutations(Codes)
=============================================================================
