---------------------------- MODULE LocalConfig -----------------------------
(***************************************************************************)
(* The configuration of the clients' local speech models:                  *)
(* internal/api/local_config.go over internal/store/local_config.go.  PUT  *)
(* always writes enabled and of the other columns those the request names; *)
(* reset writes NULL to them; a query puts the server's default in the     *)
(* place of NULL and of a missing row.  Each is one statement.             *)
(***************************************************************************)
EXTENDS ScopedKeys

CONSTANTS Fields,           \* timeout_ms, probe_url, transcribe_url
          Values,           \* values that pass the checks of PUT
          Null,             \* NULL
          DefaultEnabled,   \* cfg.LocalEnabled
          Defaults          \* cfg.LocalTimeoutMs and so on, by field

ASSUME DefaultConstants ==
    /\ Null \notin Values \cup BOOLEAN
    /\ DefaultEnabled \in BOOLEAN
    /\ Defaults = [f \in Fields |-> Defaults[f]]

VARIABLES
    configs,   \* local_asr_config
    named      \* history: what requests said of a place since its last delete

localVars == <<configs, named>>

Columns == [Fields -> Values \cup {Null}]
Configs == [enabled : BOOLEAN, columns : Columns]
NoColumns == [f \in Fields |-> Null]

(* The fields a PUT names, with their values.                              *)
Updates == UNION {[F -> Values] : F \in SUBSET Fields}

Unnamed == [enabled |-> Null, columns |-> NoColumns]

LocalInit ==
    /\ configs = [p \in {} |-> {}]
    /\ named = [p \in AppPlaces |-> Unnamed]

-----------------------------------------------------------------------------
(* Mutant of Updated: the columns that are not named are written as well.  *)
UpdatedWhole(columns, update) ==
    [f \in Fields |-> IF f \in DOMAIN update THEN update[f] ELSE Null]

Updated(columns, update) ==
    [f \in Fields |-> IF f \in DOMAIN update THEN update[f] ELSE columns[f]]

(* The columns an upsert starts from: those of the row, or a new row's.    *)
ColumnsOf(place) ==
    IF place \in DOMAIN configs THEN configs[place].columns ELSE NoColumns

PutConfig(place, enabled, update) ==
    /\ configs' = With(configs, place,
                       [enabled |-> enabled,
                        columns |-> Updated(ColumnsOf(place), update)])
    /\ named' = [named EXCEPT ![place] =
                    [enabled |-> enabled,
                     columns |-> [f \in Fields |->
                        IF f \in DOMAIN update THEN update[f] ELSE @.columns[f]]]]

(* Mutant of ResetRow: without the NULLs of the ON DUPLICATE KEY UPDATE.   *)
ResetRowKeeping(place, enabled) ==
    [enabled |-> enabled, columns |-> ColumnsOf(place)]

ResetRow(place, enabled) == [enabled |-> enabled, columns |-> NoColumns]

ResetConfig(place, enabled) ==
    /\ configs' = With(configs, place, ResetRow(place, enabled))
    /\ named' = [named EXCEPT ![place] = [enabled |-> enabled, columns |-> NoColumns]]

DeleteConfig(place) ==
    /\ configs' = Without(configs, {place})
    /\ named' = [named EXCEPT ![place] = Unnamed]

RemoveConfigs(app) ==
    /\ configs' = Without(configs, OfApp(configs, app))
    /\ named' = [p \in AppPlaces |-> IF p.app = app THEN Unnamed ELSE named[p]]

LocalNext ==
    \E p \in AppPlaces :
        \/ \E e \in BOOLEAN, u \in Updates : PutConfig(p, e, u)
        \/ \E e \in BOOLEAN : ResetConfig(p, e)
        \/ DeleteConfig(p)

-----------------------------------------------------------------------------
(* What GET and /config answer for a place of a table.                     *)
Effective(columns) ==
    [f \in Fields |-> IF columns[f] # Null THEN columns[f] ELSE Defaults[f]]

Query(table, place) ==
    IF place \in DOMAIN table
    THEN [enabled |-> table[place].enabled, fields |-> Effective(table[place].columns)]
    ELSE [enabled |-> DefaultEnabled, fields |-> Defaults]

(* Reset answers from the configuration, it does not read the row again.   *)
ResetAnswer(enabled) == [enabled |-> enabled, fields |-> Defaults]

-----------------------------------------------------------------------------
(* Every variable keeps its type.                                          *)
LocalTypes ==
    /\ DOMAIN configs \subseteq AppPlaces
    /\ configs \in [DOMAIN configs -> Configs]
    /\ named \in [AppPlaces -> [enabled : BOOLEAN \cup {Null}, columns : Columns]]

(* Whatever the order of partial updates, resets and deletes of several    *)
(* clients, a field has the value last named for it since the last reset   *)
(* or delete of its place, and otherwise the server's default: no update   *)
(* loses what another client set in a field it does not name.              *)
LastNamedCounts ==
    \A p \in AppPlaces :
        LET answer == Query(configs, p)
        IN  /\ answer.enabled = IF named[p].enabled = Null THEN DefaultEnabled
                                ELSE named[p].enabled
            /\ \A f \in Fields :
                  answer.fields[f] = IF named[p].columns[f] = Null THEN Defaults[f]
                                     ELSE named[p].columns[f]

(* The answer of a reset, made without reading the row, is what a query of *)
(* the row it leaves will say, whatever was in the row before.             *)
ResetTellsTheTruth ==
    \A p \in AppPlaces, e \in BOOLEAN :
        Query(With(configs, p, ResetRow(p, e)), p) = ResetAnswer(e)
=============================================================================
