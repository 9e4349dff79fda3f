---------------------------- MODULE AdminService ----------------------------
(***************************************************************************)
(* cmd/admin/main.go: the admin service starts on the database it shares   *)
(* with the speech service, serves the tabs of its page, ends, and is      *)
(* started again.                                                          *)
(***************************************************************************)
EXTENDS Startup, AdminSession

ASSUME AdminIsAService == "admin" \in Services

vars == <<startupVars, sessionVars>>

Init == StartupInit /\ SessionInit

(* A process loads its configuration before it migrates.                   *)
StartUp(p) ==
    /\ StartupStep(p)
    /\ IF p = "admin" /\ service[p] = "down" THEN LoadSecret ELSE UNCHANGED sessionVars

(* The requests a process has not answered go with it.                     *)
Die(p) ==
    /\ Kill(p)
    /\ request' = IF p # "admin" THEN request
                  ELSE [i \in Id |-> IF request[i].at = "sent"
                                     THEN At("over", Blank) ELSE request[i]]
    /\ UNCHANGED <<clock, signed, jar, session, loggedOut>>

(* The page comes from the service, and a tab that has it may stay open.   *)
(* (Bound: it is first opened when all services are up.)                   *)
Browser ==
    /\ \E i \in Id :
        \/ /\ i = 1 => \A p \in Services : service[p] = "serving"
           /\ \E kind \in {"login", "logout", "read", "change"} : Make(i, kind)
        \/ service["admin"] = "serving" /\ (Send(i) \/ Handle(i))
        \/ Lose(i)
        \/ Receive(i)
    /\ UNCHANGED startupVars

Next ==
    \/ \E p \in Services : StartUp(p) \/ Die(p)
    \/ Browser
    \/ Hour /\ UNCHANGED startupVars

(* A process that has ended is started again, and runs.                    *)
Spec == Init /\ [][Next]_vars /\ \A p \in Services : WF_vars(StartUp(p))

-----------------------------------------------------------------------------
(* Every variable holds a value of its type.                               *)
TypeOK == StartupTypeOK /\ SessionTypeOK
=============================================================================
