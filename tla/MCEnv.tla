------------------------------- MODULE MCEnv --------------------------------
(* Env for TLC: three values of two lengths. *)
EXTENDS Env

MCValues == {[len |-> 0, text |-> "x"], [len |-> 1, text |-> "x"], [len |-> 1, text |-> "y"]}
=============================================================================
