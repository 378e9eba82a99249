------------------------------ MODULE MCSignIn ------------------------------
(***************************************************************************)
(* Small instances of SignIn: the bootstrap admin and two colleagues.      *)
(***************************************************************************)
EXTENDS SignIn, TLC

CONSTANTS boss, ann, bob

Colleagues == Permutations({ann, bob})
=============================================================================
