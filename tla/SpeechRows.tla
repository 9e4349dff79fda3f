----------------------------- MODULE SpeechRows -----------------------------
(***************************************************************************)
(* The rows that the speech service keeps for the apps, in two tables, and *)
(* the transaction of AppStore.Delete that removes an app's rows of both.  *)
(* Requests authenticated before it, or from a cache after it, go on       *)
(* writing under the id of the app (module AppStore).                      *)
(***************************************************************************)
EXTENDS Vocabulary, LocalConfig

VARIABLE registered   \* the apps in app_registry

vars == <<profiles, reads, overtaken, configs, named, registered>>

Init == VocabularyInit /\ LocalInit /\ registered = Apps

(* The transaction is rolled back when app_registry has no such app.       *)
DeleteApp(app) ==
    /\ app \in registered
    /\ registered' = registered \ {app}
    /\ RemoveProfiles(app)
    /\ RemoveConfigs(app)

Next ==
    \/ VocabularyNext /\ UNCHANGED <<localVars, registered>>
    \/ LocalNext /\ UNCHANGED <<vocabularyVars, registered>>
    \/ \E a \in Apps : DeleteApp(a)

Spec == Init /\ [][Next]_vars

(* Every variable keeps its type.                                          *)
TypeOK == VocabularyTypes /\ LocalTypes /\ registered \subseteq Apps
=============================================================================
