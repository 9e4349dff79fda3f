----------------------------- MODULE MCAppStore -----------------------------
(* Model checking AppStore on small instances.                             *)
EXTENDS AppStore, TLC

CONSTANTS Promised,      \* the 60 seconds the admin page promises
          MaxRevoked     \* bound: how many answers the administrators revoke

FewRevoked ==
    Cardinality({p \in Keys \X Infos : leftAt[p[1]][p[2]] # Never}) <= MaxRevoked

CallSymmetry == Permutations(Calls)

(* An old key stops working when the text beside the button that resets a  *)
(* key says (index.html), about the cache Authenticate answers from.       *)
OldKeyStops == [][OldKeyStopsWithin(Promised)]_vars

(* No row outlives its app: DELETE /api/apps deletes the app and its       *)
(* related data (README.md), against the handlers that write such rows.    *)
NoOrphanRows == rows \subseteq DOMAIN registry
=============================================================================
