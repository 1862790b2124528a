-------------------------- MODULE MCRunLifecycle ----------------------------
(* Model-checking instances of RunLifecycle: calls are interchangeable.    *)
EXTENDS RunProperties, TLC
CallSymmetry == Permutations(Calls)
=============================================================================
