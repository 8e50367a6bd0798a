------------------------------ MODULE MCDispatch ------------------------------
(* Dispatch for TLC: partners are interchangeable. *)
EXTENDS Dispatch, TLC

PartnerSymmetry == Permutations(Partners)
===============================================================================
