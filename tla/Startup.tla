------------------------------ MODULE Startup -------------------------------
(***************************************************************************)
(* internal/migration and the beginning of cmd/speech/main.go and          *)
(* cmd/admin/main.go: both services bring the same schema up to date       *)
(* before they serve, end when that fails, and are started again.          *)
(*                                                                         *)
(* sql-migrate is external: it plans the migrations that have no record,   *)
(* and takes them one after the other, the statement and then the record.  *)
(* MySQL commits a CREATE or ALTER at once, nothing keeps two services     *)
(* apart, a table that exists cannot be created again and a record that    *)
(* exists cannot be inserted again.                                        *)
(***************************************************************************)
EXTENDS Integers, FiniteSetsExt

CONSTANTS Services,     \* the processes that start on one database
          Migrations,   \* how many files there are
          Creates,      \* those that create a table; the others alter one
          MaxKills      \* bound: processes that are killed

ASSUME StartupConstants ==
    Migrations \in Nat /\ Creates \subseteq 1..Migrations /\ MaxKills \in Nat

VARIABLES
    schema,    \* the migrations whose statement is in effect
    records,   \* those with a row in gorp_migrations
    service,   \* where each process is
    plan,      \* the migrations a process has yet to make
    kills      \* how many were killed

startupVars == <<schema, records, service, plan, kills>>

StartupInit ==
    /\ schema = {} /\ records = {}
    /\ service = [p \in Services |-> "down"]
    /\ plan = [p \in Services |-> {}]
    /\ kills = 0

Goes(p, to) == service' = [service EXCEPT ![p] = to]

(* logger.Fatal, or the end of a process that is killed.                   *)
Ends(p) ==
    /\ Goes(p, "down")
    /\ plan' = [plan EXCEPT ![p] = {}]

-----------------------------------------------------------------------------
(* Mutant of Start: the files are run without regard to the records.       *)
StartOver(p) ==
    /\ service[p] = "down"
    /\ Goes(p, "migrating")
    /\ plan' = [plan EXCEPT ![p] = 1..Migrations]
    /\ UNCHANGED <<schema, records, kills>>

(* main, up to the plan of migrate.Exec.                                   *)
Start(p) ==
    /\ service[p] = "down"
    /\ Goes(p, "migrating")
    /\ plan' = [plan EXCEPT ![p] = (1..Migrations) \ records]
    /\ UNCHANGED <<schema, records, kills>>

(* Mutant of Execute: the record is made, the statement is not.            *)
ExecuteNothing(p) ==
    /\ service[p] = "migrating" /\ plan[p] # {}
    /\ Goes(p, "recording")
    /\ UNCHANGED <<schema, plan, records, kills>>

Execute(p) ==
    /\ service[p] = "migrating" /\ plan[p] # {}
    /\ LET m == Min(plan[p]) IN
       IF m \in Creates \cap schema
       THEN Ends(p) /\ UNCHANGED schema
       ELSE Goes(p, "recording") /\ schema' = schema \cup {m} /\ UNCHANGED plan
    /\ UNCHANGED <<records, kills>>

Record(p) ==
    /\ service[p] = "recording"
    /\ LET m == Min(plan[p]) IN
       IF m \in records
       THEN Ends(p) /\ UNCHANGED records
       ELSE /\ records' = records \cup {m}
            /\ plan' = [plan EXCEPT ![p] = @ \ {m}]
            /\ Goes(p, "migrating")
    /\ UNCHANGED <<schema, kills>>

(* Mutant of Migrated: an error of the migrations is only logged.          *)
MigratedOrNot(p) == service[p] = "migrating"

Migrated(p) == service[p] = "migrating" /\ plan[p] = {}

Serve(p) ==
    /\ Migrated(p)
    /\ Goes(p, "serving")
    /\ plan' = [plan EXCEPT ![p] = {}]
    /\ UNCHANGED <<schema, records, kills>>

Kill(p) ==
    /\ service[p] # "down" /\ kills < MaxKills
    /\ Ends(p)
    /\ kills' = kills + 1
    /\ UNCHANGED <<schema, records>>

StartupStep(p) == Start(p) \/ Execute(p) \/ Record(p) \/ Serve(p)

-----------------------------------------------------------------------------
(* Every variable of the start holds a value of its type.                  *)
StartupTypeOK ==
    /\ records \subseteq schema /\ schema \subseteq 1..Migrations
    /\ service \in [Services -> {"down", "migrating", "recording", "serving"}]
    /\ plan \in [Services -> SUBSET (1..Migrations)]
    /\ kills \in 0..MaxKills

(* A service takes requests on the whole schema only, and on one made in   *)
(* the order of the files, whoever made it.                                *)
ServesOnCompleteSchema ==
    /\ \A p \in Services : service[p] = "serving" => schema = 1..Migrations
    /\ \A m \in schema : 1..(m - 1) \subseteq records

(* A table without a record that nobody is about to make is in the way of  *)
(* every later start.                                                      *)
Stuck ==
    \E m \in (schema \ records) \cap Creates :
        \A p \in Services : ~(service[p] = "recording" /\ Min(plan[p]) = m)

(* Both services serve in the end, however their migrations get into each  *)
(* other's way, unless one was killed between the statement and the record *)
(* of a CREATE.                                                            *)
StartsInTheEnd ==
    \A p \in Services : (service[p] = "down") ~> (service[p] = "serving" \/ Stuck)
=============================================================================
