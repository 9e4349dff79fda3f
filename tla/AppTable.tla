------------------------------ MODULE AppTable ------------------------------
(***************************************************************************)
(* The table app_registry as the statements of internal/store/app.go use   *)
(* it.  A table is a partial function from app ids to rows; the columns    *)
(* that matter are the stored key hash and the status.  Hashing the key is *)
(* injective for the generated keys, so a key stands for its hash.  Both   *)
(* columns app_id and api_key are UNIQUE in the schema.                    *)
(***************************************************************************)
EXTENDS Integers

CONSTANTS Apps,             \* app ids GenerateAppID may return
          Keys,             \* api keys GenerateAPIKey may return
          ClientFoundRows   \* the DSN flag: RowsAffected counts found rows

Statuses == {0, 1}          \* 0: disabled, 1: enabled
Rows     == [key : Keys, status : Statuses]
IsTable(table) == DOMAIN table \subseteq Apps /\ table \in [DOMAIN table -> Rows]

(* What SELECT app_id, status ... WHERE api_key = ? scans: an AppInfo.     *)
Infos == [app : Apps, status : Statuses]

Resolves(table, key, info) ==
    /\ info.app \in DOMAIN table
    /\ table[info.app].key = key
    /\ table[info.app].status = info.status

Unresolved(table, key) == \A a \in DOMAIN table : table[a].key # key

UniqueKeys(table) ==
    \A a, b \in DOMAIN table : table[a].key = table[b].key => a = b

(* Mutant of Insert: the column has a default that is no status.           *)
InsertUndefined(table, app, key) ==
    [a \in DOMAIN table \cup {app} |->
        IF a = app THEN [key |-> key, status |-> 2] ELSE table[a]]

(* INSERT: the row starts enabled (the default of the column status) and   *)
(* is refused when it repeats an app id or a key.                          *)
CanInsert(table, app, key) == app \notin DOMAIN table /\ Unresolved(table, key)

Insert(table, app, key) ==
    [a \in DOMAIN table \cup {app} |->
        IF a = app THEN [key |-> key, status |-> 1] ELSE table[a]]

(* UPDATE ... WHERE app_id = ?: the new table, and whether RowsAffected is *)
(* positive.  MySQL counts the rows it changed, unless the connection asks *)
(* for the rows it found.                                                  *)
SetStatus(table, app, status) ==
    [a \in DOMAIN table |->
        IF a = app THEN [table[a] EXCEPT !.status = status] ELSE table[a]]

(* Mutants of SetKey: the hash is not stored; the app is enabled as well.  *)
SetKeyNothing(table, app, key) == table
SetKeyEnabling(table, app, key) ==
    [a \in DOMAIN table |-> IF a = app THEN [key |-> key, status |-> 1] ELSE table[a]]

SetKey(table, app, key) ==
    [a \in DOMAIN table |->
        IF a = app THEN [table[a] EXCEPT !.key = key] ELSE table[a]]

StatusAffects(table, app, status) ==
    app \in DOMAIN table /\ (ClientFoundRows \/ table[app].status # status)

KeyAffects(table, app, key) ==
    app \in DOMAIN table /\ (ClientFoundRows \/ table[app].key # key)

(* DELETE ... WHERE app_id = ?                                             *)
Remove(table, app) == [a \in DOMAIN table \ {app} |-> table[a]]
=============================================================================
