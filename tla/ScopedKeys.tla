----------------------------- MODULE ScopedKeys -----------------------------
(***************************************************************************)
(* The unique key the tables vocabulary_profile and local_asr_config       *)
(* share: (app_id, subject_id, scope_type, scope_id).  A scope stands for  *)
(* a scope type with an id.  The columns collate without case, so an id    *)
(* stands for all its spellings.                                           *)
(***************************************************************************)
EXTENDS Integers

CONSTANTS Apps,       \* app ids AuthMiddleware puts in the context
          Subjects,   \* subject_id
          Scopes,     \* scope_type and scope_id, the type a valid one
          Global      \* the scope "global", "default"

ASSUME ScopeConstant == Global \in Scopes

Place(app, subject, scope) ==
    [app |-> app, subject |-> subject, scope |-> scope]

AppPlaces == [app : Apps, subject : Subjects, scope : Scopes]

(* INSERT ... ON DUPLICATE KEY UPDATE as a partial function, and DELETE.   *)
With(table, place, row) ==
    [p \in DOMAIN table \cup {place} |-> IF p = place THEN row ELSE table[p]]

Without(table, places) == [p \in DOMAIN table \ places |-> table[p]]

(* The statement of AppStore.Delete on either table.                       *)
OfApp(table, app) == {p \in DOMAIN table : p.app = app}
=============================================================================
