---------------------------- MODULE MCAdminApps -----------------------------
(* Model checking AdminApps: the requests are interchangeable.             *)
EXTENDS AdminApps, TLC

RequestSymmetry == Permutations(Requests)
=============================================================================
