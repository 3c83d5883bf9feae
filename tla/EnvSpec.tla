------------------------------ MODULE EnvSpec -------------------------------
(***************************************************************************)
(* The environment that getenv, getenv_r, setenv and unsetenv promise      *)
(* their callers: a partial map from names to values.  A call that fails   *)
(* changes nothing.                                                        *)
(***************************************************************************)
CONSTANTS Names, Values, NULL

VARIABLE store

Init == store = [n \in Names |-> NULL]

\* setenv, of a new name or with overwrite
Set(n, v) == store' = [store EXCEPT ![n] = v]

Unset(n) == store' = [store EXCEPT ![n] = NULL]

Next == \E n \in Names : Unset(n) \/ \E v \in Values : Set(n, v)
Spec == Init /\ [][Next]_store
=============================================================================
