----------------------------- MODULE AdminApps ------------------------------
(***************************************************************************)
(* The handlers of internal/admin/handler.go that change app_registry:     *)
(* CreateApp, UpdateStatus, DeleteApp and ResetKey.  Each runs a statement *)
(* of the store, looks up the app's name for the record, writes the audit  *)
(* record and answers; requests of several administrators interleave       *)
(* between these steps.  A statement can fail, it can take effect and fail *)
(* to report it, and a client that goes away cancels the context the rest  *)
(* of its handler works with.  The cache of the store is left to AppStore. *)
(***************************************************************************)
EXTENDS AppTable, Sequences, FiniteSets

CONSTANTS Requests,   \* each stands for one HTTP request
          NoKey       \* the key of a request that draws none

ASSUME NoKeyDrawn == NoKey \notin Keys

VARIABLES
    registry,   \* app_registry
    audit,      \* audit_log: the records in the order they were inserted
    reqs,       \* the state of every request
    commits     \* history: the requests whose statement took effect, in order

vars == <<registry, audit, reqs, commits>>

Kinds == {"create", "enable", "disable", "delete", "reset_key"}

(* What a request was answered: 200 or 201, 404, 500, or nothing when the  *)
(* process ended under it.                                                 *)
Answers == {"ok", "not_found", "failed", "crashed"}

New == [pc |-> "new"]

Working == [pc : {"lookup", "exec", "audit"} \cup Answers, kind : Kinds,
            app : Apps, key : Keys \cup {NoKey}, named : BOOLEAN]

InFlight(r) == reqs[r].pc \in {"lookup", "exec", "audit"}
Committed(r) == \E n \in DOMAIN commits : commits[n] = r

Init ==
    /\ registry = [a \in {} |-> {}]
    /\ audit = <<>>
    /\ reqs = [r \in Requests |-> New]
    /\ commits = <<>>

Goto(r, pc) == reqs' = [reqs EXCEPT ![r].pc = pc]

-----------------------------------------------------------------------------
(* The checks of the input are passed.  The name of an app to delete is    *)
(* looked up first, the name of any other when its statement is done.      *)
Submit(r, kind, a, k) ==
    /\ reqs[r].pc = "new"
    /\ reqs' = [reqs EXCEPT ![r] =
                   [pc |-> IF kind = "delete" THEN "lookup" ELSE "exec",
                    kind |-> kind, app |-> a, key |-> k, named |-> kind = "create"]]
    /\ UNCHANGED <<registry, audit, commits>>

(* Ids and keys are random: no other request has drawn them.               *)
Submitted == {r \in Requests : reqs[r].pc # "new"}

FreshKey(k) == \A r \in Submitted : reqs[r].key # k

FreshApp(a) == \A r \in Submitted : ~(reqs[r].kind = "create" /\ reqs[r].app = a)

SubmitCreate(r, a, k) == FreshApp(a) /\ FreshKey(k) /\ Submit(r, "create", a, k)

SubmitReset(r, a, k) == FreshKey(k) /\ Submit(r, "reset_key", a, k)

SubmitOther(r, kind, a) == Submit(r, kind, a, NoKey)

(* GetByAppID: an error and a missing row leave the name empty.            *)
LookupName(r, failed) ==
    /\ reqs[r].pc = "lookup"
    /\ reqs' = [reqs EXCEPT
                   ![r].pc = IF reqs[r].kind = "delete" THEN "exec" ELSE "audit",
                   ![r].named = ~failed /\ reqs[r].app \in DOMAIN registry]
    /\ UNCHANGED <<registry, audit, commits>>

-----------------------------------------------------------------------------
(* The statement of each handler: the table after it, and whether a row    *)
(* was affected.                                                           *)
Status(kind) == IF kind = "enable" THEN 1 ELSE 0

Effect(r) ==
    CASE reqs[r].kind = "create"    -> Insert(registry, reqs[r].app, reqs[r].key)
      [] reqs[r].kind = "delete"    -> Remove(registry, reqs[r].app)
      [] reqs[r].kind = "reset_key" -> SetKey(registry, reqs[r].app, reqs[r].key)
      [] OTHER -> SetStatus(registry, reqs[r].app, Status(reqs[r].kind))

Affects(r) ==
    CASE reqs[r].kind = "create"    -> CanInsert(registry, reqs[r].app, reqs[r].key)
      [] reqs[r].kind = "delete"    -> reqs[r].app \in DOMAIN registry
      [] reqs[r].kind = "reset_key" -> KeyAffects(registry, reqs[r].app, reqs[r].key)
      [] OTHER -> StatusAffects(registry, reqs[r].app, Status(reqs[r].kind))

(* After a reset or a change of status the name is still to be looked up.  *)
AfterExec(kind) == IF kind \in {"create", "delete"} THEN "audit" ELSE "lookup"

Exec(r, lost) ==
    /\ reqs[r].pc = "exec"
    /\ Affects(r)
    /\ registry' = Effect(r)
    /\ commits' = Append(commits, r)
    /\ Goto(r, IF lost THEN "failed" ELSE AfterExec(reqs[r].kind))
    /\ UNCHANGED audit

(* Mutants of ExecNotFound and ExecFail: RowsAffected is not looked at;    *)
(* the error is logged and the handler goes on.                            *)
ExecNotFoundIgnored(r) ==
    /\ reqs[r].pc = "exec"
    /\ ~Affects(r)
    /\ Goto(r, AfterExec(reqs[r].kind))
    /\ UNCHANGED <<registry, audit, commits>>

ExecFailIgnored(r) ==
    /\ reqs[r].pc = "exec"
    /\ Goto(r, AfterExec(reqs[r].kind))
    /\ UNCHANGED <<registry, audit, commits>>

(* ErrAppNotFound: no row was affected; CreateApp knows no such answer.    *)
ExecNotFound(r) ==
    /\ reqs[r].pc = "exec"
    /\ ~Affects(r)
    /\ Goto(r, IF reqs[r].kind = "create" THEN "failed" ELSE "not_found")
    /\ UNCHANGED <<registry, audit, commits>>

ExecFail(r) ==
    /\ reqs[r].pc = "exec"
    /\ Goto(r, "failed")
    /\ UNCHANGED <<registry, audit, commits>>

(* AuditStore.Log: an error is logged and the answer stays a success.      *)
Log(r, written) ==
    /\ reqs[r].pc = "audit"
    /\ audit' = IF written
                THEN Append(audit, [req |-> r, action |-> reqs[r].kind,
                                    app |-> reqs[r].app, named |-> reqs[r].named])
                ELSE audit
    /\ Goto(r, "ok")
    /\ UNCHANGED <<registry, commits>>

(* The process ends: the tables stay, the requests in flight get nothing.  *)
Crash ==
    /\ \E r \in Requests : InFlight(r)
    /\ reqs' = [r \in Requests |-> IF InFlight(r)
                                   THEN [reqs[r] EXCEPT !.pc = "crashed"]
                                   ELSE reqs[r]]
    /\ UNCHANGED <<registry, audit, commits>>

-----------------------------------------------------------------------------
Handle(r) ==
    \/ \E a \in Apps, k \in Keys : SubmitCreate(r, a, k) \/ SubmitReset(r, a, k)
    \/ \E a \in Apps, kind \in {"enable", "disable", "delete"} : SubmitOther(r, kind, a)
    \/ \E failed \in BOOLEAN : LookupName(r, failed)
    \/ \E lost \in BOOLEAN : Exec(r, lost)
    \/ ExecNotFound(r)
    \/ ExecFail(r)
    \/ \E written \in BOOLEAN : Log(r, written)

Next == Crash \/ \E r \in Requests : Handle(r)

Spec == Init /\ [][Next]_vars

-----------------------------------------------------------------------------
(* Every variable holds a value of its type.                               *)
TypeOK ==
    /\ IsTable(registry)
    /\ reqs \in [Requests -> {New} \cup Working]
    /\ audit \in Seq([req : Requests, action : Kinds, app : Apps, named : BOOLEAN])
    /\ commits \in Seq(Requests)

(* A record is written only for a change that is in the table, once, and   *)
(* under the action that was asked for: no record without its change.      *)
AuditedOnlyIfDone ==
    \A n \in DOMAIN audit :
        LET record == audit[n]
        IN  /\ Committed(record.req)
            /\ record.action = reqs[record.req].kind
            /\ record.app = reqs[record.req].app
            /\ \A m \in DOMAIN audit : audit[m].req = record.req => m = n

(* A success was done, a 404 changed nothing; only a 500 and a crash leave *)
(* the administrator in doubt.                                             *)
AnswersTellTheTruth ==
    \A r \in Requests :
        /\ reqs[r].pc = "ok" => Committed(r)
        /\ reqs[r].pc = "not_found" => ~Committed(r)

(* What the service says happened: neither the audit table nor an answer   *)
(* claims what the table of apps does not have, whatever fails, gets lost  *)
(* or ends between the statement, the record and the answer.               *)
ClaimsAreTrue == AuditedOnlyIfDone /\ AnswersTellTheTruth

(* The request that gave an app the key it has now.                        *)
SetsKey(r, a) == Committed(r) /\ reqs[r].kind \in {"create", "reset_key"}
                   /\ reqs[r].app = a

LastSetter(r, a) ==
    \E n \in DOMAIN commits :
        /\ commits[n] = r /\ SetsKey(r, a)
        /\ \A m \in DOMAIN commits : SetsKey(commits[m], a) => m <= n

(* The key an app has is the one drawn, and if it answers shown, by the    *)
(* last request that set it, whatever order the requests answer in: the    *)
(* loser of two concurrent resets is the one that committed first.         *)
LiveKeyIsLastDrawn ==
    \A a \in DOMAIN registry :
        \E r \in Requests :
            /\ LastSetter(r, a)
            /\ registry[a].key = reqs[r].key

(* A disabled app was disabled by a request, and no later one enabled it:  *)
(* neither a reset nor a failed request brings a disabled app back.        *)
StatusIsLastSet ==
    \A a \in DOMAIN registry :
        LET Sets(n) == /\ reqs[commits[n]].app = a
                       /\ reqs[commits[n]].kind \in {"create", "enable", "disable"}
        IN  \E n \in DOMAIN commits :
                /\ Sets(n)
                /\ \A m \in DOMAIN commits : Sets(m) => m <= n
                /\ registry[a].status = IF reqs[commits[n]].kind = "disable" THEN 0 ELSE 1

(* Key and status of an app are each what the last request that set it     *)
(* made of it: requests that change the one never touch the other, in any  *)
(* order of statements, answers, failures and lost results.                *)
RowsAreLastSet == LiveKeyIsLastDrawn /\ StatusIsLastSet

(* An app that is there when a request for it is served is not reported    *)
(* missing: a 404 means that there is no such app ("app not found").       *)
NotFoundMeansAbsent ==
    [][\A r \in Requests :
          (reqs[r].pc = "exec" /\ reqs'[r].pc = "not_found")
            => reqs[r].app \notin DOMAIN registry]_vars
=============================================================================
