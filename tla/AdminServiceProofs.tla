------------------------- MODULE AdminServiceProofs -------------------------
(***************************************************************************)
(* Theorems about AdminService for any set of services, any number of      *)
(* migrations, kills, requests and hours: the schema is complete where a   *)
(* service serves, and a logout ends what the browser does in its session. *)
(***************************************************************************)
EXTENDS AdminService, WellFoundedInduction, TLAPS

LEMMA LeastElement ==
    ASSUME NEW S, S \subseteq Nat, S # {}
    PROVE  Min(S) \in S /\ \A y \in S : Min(S) <= y
<1> DEFINE Less == OpToRel(<, Nat)
<1>1. ASSUME NEW a \in Nat, NEW b \in Nat, a < b PROVE <<a, b>> \in Less
  <2>1. <<a, b>> \in Nat \X Nat /\ <<a, b>>[1] = a /\ <<a, b>>[2] = b
    OBVIOUS
  <2> QED BY <1>1, <2>1, Zenon DEF OpToRel
<1>2. IsWellFoundedOn(Less, Nat)
  BY NatLessThanWellFounded
<1> HIDE DEF Less
<1>3. PICK x \in S : \A y \in S : ~ (<<y, x>> \in Less)
  BY <1>2, WFMin
<1>4. ASSUME NEW y \in S PROVE x <= y
  <2>1. x \in Nat /\ y \in Nat
    OBVIOUS
  <2>2. ~ (<<y, x>> \in Less)
    BY <1>3
  <2>3. ~ (y < x)
    BY <1>1, <2>1, <2>2, Zenon
  <2> QED BY <2>1, <2>3
<1> QED BY <1>4 DEF Min

-----------------------------------------------------------------------------
(* What a service has yet to make holds everything without a record, so    *)
(* that the least of it has everything before it on record, even when      *)
(* another service made some of it in the meantime.                        *)
InOrderOfFiles ==
    /\ records \subseteq schema /\ schema \subseteq 1..Migrations
    /\ \A m \in schema : 1..(m - 1) \subseteq records

PlansHoldTheRest ==
    /\ plan \in [Services -> SUBSET (1..Migrations)]
    /\ service \in [Services -> {"down", "migrating", "recording", "serving"}]
    /\ \A p \in Services :
        /\ service[p] \in {"migrating", "recording"} => (1..Migrations) \ records \subseteq plan[p]
        /\ service[p] = "recording" => plan[p] # {} /\ Min(plan[p]) \in schema
        /\ service[p] = "serving" => records = 1..Migrations

SchemaInv == InOrderOfFiles /\ PlansHoldTheRest

LEMMA SchemaInit == StartupInit => SchemaInv
<1> SUFFICES ASSUME StartupInit PROVE SchemaInv
  OBVIOUS
<1> USE DEF StartupInit
<1>1. InOrderOfFiles
  BY DEF InOrderOfFiles
<1>2. PlansHoldTheRest
  BY DEF PlansHoldTheRest
<1> QED BY <1>1, <1>2 DEF SchemaInv

LEMMA SchemaEnds ==
    ASSUME SchemaInv, NEW p \in Services, Ends(p), UNCHANGED <<schema, records>>
    PROVE  SchemaInv'
BY DEF SchemaInv, InOrderOfFiles, PlansHoldTheRest, Ends, Goes

LEMMA NextOfPlan ==
    ASSUME SchemaInv, NEW p \in Services, plan[p] # {}
    PROVE  /\ Min(plan[p]) \in plan[p] /\ Min(plan[p]) \in 1..Migrations
           /\ \A k \in plan[p] : Min(plan[p]) <= k
<1>1. plan[p] \subseteq 1..Migrations /\ plan[p] \subseteq Nat
  BY StartupConstants DEF SchemaInv, PlansHoldTheRest
<1> QED BY <1>1, LeastElement

LEMMA SchemaExecute ==
    ASSUME SchemaInv, NEW p \in Services, Execute(p) PROVE SchemaInv'
<1> DEFINE m == Min(plan[p])
<1>1. /\ service[p] = "migrating" /\ plan[p] # {} /\ records' = records
      /\ \/ Ends(p) /\ UNCHANGED schema
         \/ Goes(p, "recording") /\ schema' = schema \cup {m} /\ UNCHANGED plan
  BY DEF Execute
<1>2. /\ m \in plan[p] /\ m \in 1..Migrations /\ \A k \in plan[p] : m <= k
  BY <1>1, NextOfPlan
<1> HIDE DEF m
<1>3. CASE Ends(p) /\ UNCHANGED schema
  BY <1>1, <1>3, SchemaEnds
<1>4. CASE Goes(p, "recording") /\ schema' = schema \cup {m} /\ UNCHANGED plan
  <2>1. 1..(m - 1) \subseteq records
    <3> SUFFICES ASSUME NEW k \in 1..(m - 1), k \notin records PROVE FALSE
      OBVIOUS
    <3>1. k \in 1..Migrations /\ ~(m <= k)
      BY <1>2, StartupConstants
    <3>2. k \in plan[p]
      BY <1>1, <3>1 DEF SchemaInv, PlansHoldTheRest
    <3> QED BY <1>2, <3>1, <3>2
  <2>2. InOrderOfFiles'
    BY <1>1, <1>2, <1>4, <2>1 DEF SchemaInv, InOrderOfFiles
  <2>3. PlansHoldTheRest'
    BY <1>1, <1>4 DEF SchemaInv, PlansHoldTheRest, Goes, m
  <2> QED BY <2>2, <2>3 DEF SchemaInv
<1> QED BY <1>1, <1>3, <1>4

LEMMA SchemaRecord ==
    ASSUME SchemaInv, NEW p \in Services, Record(p) PROVE SchemaInv'
<1> DEFINE m == Min(plan[p])
<1>1. /\ service[p] = "recording" /\ schema' = schema
      /\ \/ Ends(p) /\ UNCHANGED records
         \/ /\ records' = records \cup {m} /\ Goes(p, "migrating")
            /\ plan' = [plan EXCEPT ![p] = @ \ {m}]
  BY DEF Record
<1>2. m \in schema
  BY <1>1 DEF SchemaInv, PlansHoldTheRest
<1> HIDE DEF m
<1>3. CASE Ends(p) /\ UNCHANGED records
  BY <1>1, <1>3, SchemaEnds
<1>4. CASE /\ records' = records \cup {m} /\ Goes(p, "migrating")
           /\ plan' = [plan EXCEPT ![p] = @ \ {m}]
  <2>1. InOrderOfFiles'
    BY <1>1, <1>2, <1>4 DEF SchemaInv, InOrderOfFiles
  <2>2. records \subseteq 1..Migrations /\ m \in 1..Migrations
    BY <1>2 DEF SchemaInv, InOrderOfFiles
  <2>3. PlansHoldTheRest'
    BY <1>1, <1>4, <2>2 DEF SchemaInv, PlansHoldTheRest, Goes
  <2> QED BY <2>1, <2>3 DEF SchemaInv
<1> QED BY <1>1, <1>3, <1>4

LEMMA SchemaServe ==
    ASSUME SchemaInv, NEW p \in Services, Serve(p) PROVE SchemaInv'
<1>1. /\ service[p] = "migrating" /\ plan[p] = {} /\ UNCHANGED <<schema, records>>
      /\ service' = [service EXCEPT ![p] = "serving"] /\ plan' = [plan EXCEPT ![p] = {}]
  BY DEF Serve, Migrated, Goes
<1>2. records = 1..Migrations
  BY <1>1 DEF SchemaInv, PlansHoldTheRest, InOrderOfFiles
<1>3. InOrderOfFiles'
  BY <1>1 DEF SchemaInv, InOrderOfFiles
<1>4. PlansHoldTheRest'
  BY <1>1, <1>2 DEF SchemaInv, PlansHoldTheRest
<1> QED BY <1>3, <1>4 DEF SchemaInv

LEMMA SchemaStep == SchemaInv /\ [Next]_vars => SchemaInv'
<1> SUFFICES ASSUME SchemaInv, [Next]_vars PROVE SchemaInv'
  OBVIOUS
<1>1. ASSUME NEW p \in Services, StartupStep(p) PROVE SchemaInv'
  <2>1. CASE Start(p)
    BY <2>1 DEF Start, Goes, SchemaInv, InOrderOfFiles, PlansHoldTheRest
  <2> QED BY <1>1, <2>1, SchemaExecute, SchemaRecord, SchemaServe DEF StartupStep
<1>2. ASSUME NEW p \in Services, Kill(p) PROVE SchemaInv'
  BY <1>2, SchemaEnds DEF Kill
<1>3. CASE UNCHANGED startupVars
  BY <1>3 DEF startupVars, SchemaInv, InOrderOfFiles, PlansHoldTheRest
<1>4. Browser \/ (Hour /\ UNCHANGED startupVars) \/ UNCHANGED vars => UNCHANGED startupVars
  BY DEF Browser, vars
<1> QED BY <1>1, <1>2, <1>3, <1>4 DEF Next, StartUp, Die

(* However many services start on one database, and are killed and started *)
(* again between any two of their statements and records, the one that     *)
(* serves has the whole schema, and every migration was made after those   *)
(* of the files before it.                                                 *)
THEOREM CompleteSchemaServed == Spec => []ServesOnCompleteSchema
<1>1. Init => SchemaInv
  BY SchemaInit DEF Init
<1>2. SchemaInv => ServesOnCompleteSchema
  BY DEF SchemaInv, InOrderOfFiles, PlansHoldTheRest, ServesOnCompleteSchema
<1> QED BY <1>1, <1>2, SchemaStep, PTL DEF Spec

-----------------------------------------------------------------------------
(* The types, with names for those of a request.                           *)
Kinds == {"login", "logout", "read", "change"}
Statuses == {0, 200, 401, 403}
Content == [kind : Kinds, header : 0..Requests, token : 0..Requests, csrf : 0..Requests,
            status : Statuses, user : 0..Requests,
            stale : BOOLEAN, overtaken : BOOLEAN]
Places == {"unmade", "made", "sent", "answered", "over"}
RequestTypeOK == request \in [Id -> [at : Places, r : Content]]
JarTypeOK == jar \in [Cookies -> [of : 0..Requests, until : 0..(MaxHours + TokenExpire)]]
OthersTypeOK ==
    /\ clock \in 0..MaxHours
    /\ signed \in [Id -> 0..(MaxHours + TokenExpire)]
    /\ session \in 0..Requests /\ loggedOut \subseteq Id

LEMMA SessionTypes == SessionTypeOK <=> RequestTypeOK /\ JarTypeOK /\ OthersTypeOK
BY DEF SessionTypeOK, RequestTypeOK, JarTypeOK, OthersTypeOK, Content, Places, Kinds, Statuses

LEMMA SessionTypesNext ==
    RequestTypeOK' /\ JarTypeOK' /\ OthersTypeOK' => SessionTypeOK'
BY DEF SessionTypeOK, RequestTypeOK, JarTypeOK, OthersTypeOK, Content, Places, Kinds, Statuses

LEMMA BlankType ==
    /\ Blank \in Content /\ \A place \in Places : At(place, Blank) \in [at : Places, r : Content]
    /\ NoCookie \in [of : 0..Requests, until : 0..(MaxHours + TokenExpire)]
BY SessionConstants DEF Blank, Content, At, Places, NoCookie, Kinds, Statuses

LEMMA CookieType == ASSUME SessionTypeOK, NEW c \in Cookies PROVE Cookie(c) \in 0..Requests
BY SessionConstants, SessionTypes DEF JarTypeOK, Cookie

LEMMA ContentMade ==
    ASSUME NEW r \in Content,
           NEW kind \in Kinds, NEW header \in 0..Requests
    PROVE  [r EXCEPT !.kind = kind, !.header = header] \in Content
BY DEF Content

LEMMA ContentSent ==
    ASSUME NEW r \in Content, NEW token \in 0..Requests, NEW csrf \in 0..Requests,
           NEW user \in 0..Requests, NEW stale \in BOOLEAN
    PROVE  [r EXCEPT !.token = token, !.csrf = csrf, !.user = user, !.stale = stale] \in Content
BY DEF Content

LEMMA TypeOfOneRequest ==
    ASSUME RequestTypeOK, NEW i \in Id, NEW place \in Places, NEW r \in Content,
           request' = [request EXCEPT ![i] = At(place, r)]
    PROVE  RequestTypeOK'
BY DEF RequestTypeOK, At

LEMMA SessionTypeInit == SessionInit => SessionTypeOK
<1> SUFFICES ASSUME SessionInit PROVE SessionTypeOK
  OBVIOUS
<1> USE SessionConstants DEF SessionInit
<1>1. RequestTypeOK
  BY BlankType DEF RequestTypeOK, Places
<1>2. JarTypeOK
  BY BlankType DEF JarTypeOK
<1>3. OthersTypeOK
  BY DEF OthersTypeOK
<1> QED BY <1>1, <1>2, <1>3, SessionTypes

LEMMA MakeType ==
    ASSUME SessionTypeOK, NEW i \in Id, NEW kind \in Kinds,
           Make(i, kind)
    PROVE  SessionTypeOK'
<1> DEFINE r == [Blank EXCEPT !.kind = kind,
                              !.header = IF kind = "read" THEN 0 ELSE Cookie("csrf_token")]
<1>1. request' = [request EXCEPT ![i] = At("made", r)] /\ UNCHANGED <<clock, signed, jar, session, loggedOut>>
  BY DEF Make
<1>2. Cookie("csrf_token") \in 0..Requests /\ 0 \in 0..Requests
  BY CookieType, SessionConstants DEF Cookies
<1>3. r \in Content
  BY <1>2, BlankType, ContentMade
<1>4. RequestTypeOK'
  BY <1>1, <1>3, SessionTypes, TypeOfOneRequest DEF Places
<1>5. JarTypeOK' /\ OthersTypeOK'
  BY <1>1, SessionTypes DEF JarTypeOK, OthersTypeOK
<1> QED BY <1>4, <1>5, SessionTypesNext

LEMMA SendType ==
    ASSUME SessionTypeOK, NEW i \in Id, Send(i) PROVE SessionTypeOK'
<1> DEFINE r == [request[i].r EXCEPT
                    !.token = Cookie("token"), !.csrf = Cookie("csrf_token"),
                    !.user = IF request[i].r.kind = "login" THEN 0 ELSE session,
                    !.stale = request[i].r.kind # "login" /\ Cookie("token") \in loggedOut]
<1>1. request[i] \in [at : Places, r : Content] /\ session \in 0..Requests
  BY SessionTypes DEF RequestTypeOK, OthersTypeOK
<1>2. request' = [request EXCEPT ![i] = At("sent", r)] /\ UNCHANGED <<clock, signed, jar, session, loggedOut>>
  BY DEF Send
<1>3. /\ Cookie("csrf_token") \in 0..Requests /\ Cookie("token") \in 0..Requests
      /\ 0 \in 0..Requests
  BY CookieType, SessionConstants DEF Cookies
<1>4. r \in Content
  <2> DEFINE user  == IF request[i].r.kind = "login" THEN 0 ELSE session
             stale == request[i].r.kind # "login" /\ Cookie("token") \in loggedOut
  <2>1. user \in 0..Requests /\ stale \in BOOLEAN /\ request[i].r \in Content
    BY <1>1, <1>3
  <2> HIDE DEF user, stale
  <2>2. [request[i].r EXCEPT !.token = Cookie("token"), !.csrf = Cookie("csrf_token"),
                             !.user = user, !.stale = stale] \in Content
    BY <1>3, <2>1, ContentSent
  <2> QED BY <2>2 DEF user, stale
<1>5. RequestTypeOK'
  BY <1>2, <1>4, SessionTypes, TypeOfOneRequest DEF Places
<1>6. JarTypeOK' /\ OthersTypeOK'
  BY <1>2, SessionTypes DEF JarTypeOK, OthersTypeOK
<1> QED BY <1>5, <1>6, SessionTypesNext

LEMMA LoseType ==
    ASSUME SessionTypeOK, NEW i \in Id, Lose(i) PROVE SessionTypeOK'
<1>1. /\ request' = [request EXCEPT ![i] = At("over", Blank)]
      /\ UNCHANGED <<clock, signed, jar, session, loggedOut>>
  BY DEF Lose
<1>2. RequestTypeOK'
  BY <1>1, BlankType, SessionTypes, TypeOfOneRequest DEF Places
<1>3. JarTypeOK' /\ OthersTypeOK'
  BY <1>1, SessionTypes DEF JarTypeOK, OthersTypeOK
<1> QED BY <1>2, <1>3, SessionTypesNext

(* What Handle does to its request, and to the token of a login.           *)
LEMMA Handled ==
    ASSUME NEW i \in Id, Handle(i)
    PROVE  /\ request[i].at = "sent" /\ UNCHANGED <<clock, jar, session, loggedOut>>
           /\ \E status \in {200, 401, 403} :
                /\ Answer(i, status)
                /\ status = 200 /\ request[i].r.kind # "login" => JWT(request[i].r)
                /\ status = 401 /\ request[i].r.kind # "login" => ~JWT(request[i].r)
                /\ status = 403 => request[i].r.kind = "change"
           /\ \/ UNCHANGED signed
              \/ /\ request[i].r.kind = "login"
                 /\ signed' = [signed EXCEPT ![i] = clock + TokenExpire]
<1>1. request[i].at = "sent" /\ UNCHANGED <<clock, jar, session, loggedOut>>
  BY DEF Handle
<1>2. CASE request[i].r.kind = "login"
  BY <1>1, <1>2 DEF Handle, Login
<1>3. CASE request[i].r.kind # "login"
  <2>1. Protected(i)
    BY <1>3 DEF Handle
  <2>2. CASE ~JWT(request[i].r)
    BY <1>1, <1>3, <2>1, <2>2 DEF Protected
  <2>3. CASE JWT(request[i].r) /\ request[i].r.kind = "change" /\ ~CSRF(request[i].r)
    BY <1>1, <1>3, <2>1, <2>3 DEF Protected
  <2>4. CASE JWT(request[i].r) /\ ~(request[i].r.kind = "change" /\ ~CSRF(request[i].r))
    BY <1>1, <1>3, <2>1, <2>4 DEF Protected
  <2> QED BY <2>2, <2>3, <2>4
<1> QED BY <1>2, <1>3

LEMMA AnswerType ==
    ASSUME SessionTypeOK, NEW i \in Id, NEW status \in {200, 401, 403}, Answer(i, status)
    PROVE  RequestTypeOK'
<1> DEFINE r == [Blank EXCEPT
                    !.kind = request[i].r.kind, !.status = status, !.stale = request[i].r.stale,
                    !.token = IF request[i].r.kind = "logout" THEN request[i].r.token ELSE 0]
<1>1. request' = [request EXCEPT ![i] = At("answered", r)]
  BY DEF Answer
<1>2. request[i].r \in Content /\ 0 \in 0..Requests
  BY SessionTypes, SessionConstants DEF RequestTypeOK
<1>3. r \in Content
  <2> DEFINE token == IF request[i].r.kind = "logout" THEN request[i].r.token ELSE 0
             kind  == request[i].r.kind
             stale == request[i].r.stale
  <2>1. token \in 0..Requests /\ stale \in BOOLEAN /\ kind \in Kinds /\ status \in Statuses
    BY <1>2 DEF Content, Statuses
  <2> HIDE DEF token, kind, stale
  <2>2. Blank \in Content
    BY BlankType
  <2>3. [Blank EXCEPT !.kind = kind, !.status = status, !.stale = stale,
                      !.token = token] \in Content
    BY <2>1, <2>2 DEF Content
  <2> QED BY <2>3 DEF token, kind, stale
<1>4. RequestTypeOK /\ "answered" \in Places
  BY SessionTypes DEF Places
<1> HIDE DEF r
<1> QED BY <1>1, <1>3, <1>4, TypeOfOneRequest

LEMMA HandleType ==
    ASSUME SessionTypeOK, NEW i \in Id, Handle(i) PROVE SessionTypeOK'
<1>1. RequestTypeOK'
  BY Handled, AnswerType
<1>2. JarTypeOK'
  BY Handled, SessionTypes DEF JarTypeOK
<1>3. clock \in 0..MaxHours /\ clock + TokenExpire \in 0..(MaxHours + TokenExpire)
  BY SessionTypes, SessionConstants DEF OthersTypeOK
<1>4. OthersTypeOK'
  BY <1>3, Handled, SessionTypes DEF OthersTypeOK
<1> QED BY <1>1, <1>2, <1>4, SessionTypesNext

(* What Receive does: its request is over, those made but not sent may be  *)
(* overtaken, and the cookies change with a login or a logout.             *)
LEMMA Received ==
    ASSUME NEW i \in Id, Receive(i)
    PROVE  /\ request[i].at = "answered" /\ UNCHANGED <<clock, signed>>
           /\ \/ request' = [request EXCEPT ![i] = At("over", Blank)]
              \/ request' = [j \in Id |-> IF j = i THEN At("over", Blank) ELSE Overtake(j)]
           /\ \/ /\ request[i].r.kind = "login"
                 /\ jar' = setAuthCookies(i) /\ session' = i
              \/ /\ request[i].r.kind = "logout"
                 /\ jar' = clearAuthCookies /\ session' = 0
              \/ /\ ~(request[i].r.kind = "logout" /\ request[i].r.status = 200)
                 /\ UNCHANGED <<jar, session>>
           /\ loggedOut' = IF request[i].r.kind = "logout"
                           THEN loggedOut \cup ({request[i].r.token} \ {0}) ELSE loggedOut
<1>1. CASE request[i].r.kind = "login" /\ request[i].r.status = 200
  BY <1>1 DEF Receive
<1>2. CASE request[i].r.kind = "logout" /\ request[i].r.status = 200
  BY <1>2 DEF Receive
<1>3. CASE /\ ~(request[i].r.kind = "login" /\ request[i].r.status = 200)
           /\ ~(request[i].r.kind = "logout" /\ request[i].r.status = 200)
  BY <1>3 DEF Receive
<1> QED BY <1>1, <1>2, <1>3

LEMMA OvertakeType ==
    ASSUME RequestTypeOK, NEW j \in Id
    PROVE  Overtake(j) \in [at : Places, r : Content]
<1>1. request[j] \in [at : Places, r : Content] /\ request[j].r \in Content
  BY DEF RequestTypeOK
<1>2. [request[j].r EXCEPT !.overtaken = TRUE] \in Content
  BY <1>1 DEF Content
<1> QED BY <1>1, <1>2 DEF Overtake

LEMMA ReceiveType ==
    ASSUME SessionTypeOK, NEW i \in Id, Receive(i) PROVE SessionTypeOK'
<1>1. RequestTypeOK /\ JarTypeOK /\ OthersTypeOK /\ "over" \in Places
  BY SessionTypes DEF Places
<1>2. RequestTypeOK'
  <2>1. At("over", Blank) \in [at : Places, r : Content]
    BY <1>1, BlankType
  <2>2. \A j \in Id : Overtake(j) \in [at : Places, r : Content]
    BY <1>1, OvertakeType
  <2> QED BY <1>1, <2>1, <2>2, Received DEF RequestTypeOK
<1>3. i \in 0..Requests /\ 0 \in 0..Requests
  BY SessionConstants DEF Id
<1>4. JarTypeOK'
  <2>1. setAuthCookies(i) \in [Cookies -> [of : 0..Requests, until : 0..(MaxHours + TokenExpire)]]
    <3>1. clock + TokenExpire \in 0..(MaxHours + TokenExpire)
      BY <1>1, SessionConstants DEF OthersTypeOK
    <3> QED BY <1>3, <3>1 DEF setAuthCookies
  <2>2. clearAuthCookies \in [Cookies -> [of : 0..Requests, until : 0..(MaxHours + TokenExpire)]]
    BY BlankType DEF clearAuthCookies
  <2> QED BY <1>1, <2>1, <2>2, Received DEF JarTypeOK
<1>5. OthersTypeOK'
  <2>1. request[i].r.token \in 0..Requests
    BY <1>1 DEF RequestTypeOK, Content
  <2>2. {request[i].r.token} \ {0} \subseteq Id
    BY <2>1, SessionConstants DEF Id
  <2>3. UNCHANGED <<clock, signed>>
    BY Received
  <2>4. session' = session \/ session' = i \/ session' = 0
    BY Received
  <2>5. loggedOut' \subseteq loggedOut \cup ({request[i].r.token} \ {0})
    BY Received
  <2>6. session' \in 0..Requests
    BY <1>1, <1>3, <2>4 DEF OthersTypeOK
  <2>7. loggedOut' \subseteq Id
    BY <1>1, <2>2, <2>5 DEF OthersTypeOK
  <2> QED BY <1>1, <2>3, <2>6, <2>7 DEF OthersTypeOK
<1> QED BY <1>2, <1>4, <1>5, SessionTypesNext

LEMMA OthersType ==
    ASSUME SessionTypeOK, Hour \/ LoadSecret \/ UNCHANGED sessionVars PROVE SessionTypeOK'
<1>1. /\ UNCHANGED <<jar, request, session, loggedOut>>
      /\ clock' = clock \/ (clock' = clock + 1 /\ clock < MaxHours)
      /\ signed' = signed \/ signed' = [i \in Id |-> 0]
  BY DEF Hour, LoadSecret, sessionVars
<1>2. RequestTypeOK' /\ JarTypeOK'
  BY <1>1, SessionTypes DEF RequestTypeOK, JarTypeOK
<1>3. clock' \in 0..MaxHours
  BY <1>1, SessionTypes, SessionConstants DEF OthersTypeOK
<1>4. signed' \in [Id -> 0..(MaxHours + TokenExpire)]
  BY <1>1, SessionTypes, SessionConstants DEF OthersTypeOK
<1>5. OthersTypeOK'
  BY <1>1, <1>3, <1>4, SessionTypes DEF OthersTypeOK
<1> QED BY <1>2, <1>5, SessionTypesNext

LEMMA DieType ==
    ASSUME SessionTypeOK, NEW p \in Services, Die(p) PROVE SessionTypeOK'
<1>1. /\ UNCHANGED <<clock, signed, jar, session, loggedOut>>
      /\ \/ request' = request
         \/ request' = [i \in Id |-> IF request[i].at = "sent" THEN At("over", Blank) ELSE request[i]]
  BY DEF Die
<1>2. At("over", Blank) \in [at : Places, r : Content]
  BY BlankType DEF Places
<1>3. RequestTypeOK'
  BY <1>1, <1>2, SessionTypes DEF RequestTypeOK
<1>4. JarTypeOK' /\ OthersTypeOK'
  BY <1>1, SessionTypes DEF JarTypeOK, OthersTypeOK
<1> QED BY <1>3, <1>4, SessionTypesNext

LEMMA SessionTypeStep == SessionTypeOK /\ [Next]_vars => SessionTypeOK'
<1> SUFFICES ASSUME SessionTypeOK, [Next]_vars PROVE SessionTypeOK'
  OBVIOUS
<1>1. Browser => SessionTypeOK'
  BY MakeType, SendType, LoseType, HandleType, ReceiveType DEF Browser, Kinds
<1> QED BY <1>1, OthersType, DieType DEF Next, StartUp, vars

LEMMA KillsType ==
    /\ StartupInit => kills \in 0..MaxKills
    /\ kills \in 0..MaxKills /\ [Next]_vars => kills' \in 0..MaxKills
<1>1. ASSUME kills \in 0..MaxKills, [Next]_vars PROVE kills' \in 0..MaxKills
  <2>1. kills' = kills \/ (kills' = kills + 1 /\ kills < MaxKills)
    BY <1>1 DEF Next, StartUp, StartupStep, Start, Execute, Record, Serve, Die, Kill, Browser,
                startupVars, vars
  <2> QED BY <1>1, <2>1, StartupConstants
<1> QED BY <1>1, StartupConstants DEF StartupInit

(* Every variable of the admin service keeps its type.                     *)
THEOREM AdminServiceTypes == Spec => []TypeOK
<1> DEFINE Inv == SchemaInv /\ SessionTypeOK /\ kills \in 0..MaxKills
<1>1. Init => Inv
  BY SchemaInit, SessionTypeInit, KillsType DEF Init
<1>2. Inv /\ [Next]_vars => Inv'
  BY SchemaStep, SessionTypeStep, KillsType
<1>3. Inv => TypeOK
  BY DEF SchemaInv, InOrderOfFiles, PlansHoldTheRest, TypeOK, StartupTypeOK
<1> QED BY <1>1, <1>2, <1>3, PTL DEF Spec

-----------------------------------------------------------------------------
(* A token is known to the browser when the request that logged in is over,*)
(* so that no answer that is still on its way brings it back.  A token that*)
(* was logged out is out of the cookies or refused already, and a refused  *)
(* token stays so: only its own login would sign it again.                 *)
Ended(t) == request[t].at = "over"

Fine(i) ==
    LET q == request[i] IN
    /\ q.r.token # 0 => Ended(q.r.token)
    /\ q.r.stale => q.at \in {"sent", "answered"} /\ q.r.status # 200
    /\ q.at = "made" => q.r.status = 0
    /\ q.at = "sent" /\ q.r.stale =>
           q.r.token # 0 /\ q.r.kind # "login" /\ ~verifyJWT(q.r.token)
    /\ q.at = "answered" /\ q.r.kind = "logout" /\ q.r.status # 200 /\ q.r.token # 0 =>
           ~verifyJWT(q.r.token)

CookiesFine ==
    /\ \A c \in Cookies : jar[c].of # 0 => Ended(jar[c].of)
    /\ \A t \in loggedOut : Ended(t)
    /\ jar["token"].of \in loggedOut => ~verifyJWT(jar["token"].of)

LogoutInv == SessionTypeOK /\ (\A i \in Id : Fine(i)) /\ CookiesFine

(* What every step keeps.                                                  *)
EndedStay ==
    \A t \in Id : Ended(t) => /\ request'[t].at = "over"
                              /\ ~verifyJWT(t) => ~(clock' < signed'[t])

SameContent(j) ==
    /\ request'[j].at = request[j].at
    /\ request'[j].r.kind = request[j].r.kind /\ request'[j].r.token = request[j].r.token
    /\ request'[j].r.stale = request[j].r.stale /\ request'[j].r.status = request[j].r.status

LEMMA TokenIds ==
    ASSUME SessionTypeOK
    PROVE  /\ \A i \in Id : request[i].r.token # 0 => request[i].r.token \in Id
           /\ \A c \in Cookies : jar[c].of # 0 => jar[c].of \in Id
           /\ loggedOut \subseteq Id /\ 0 \notin Id
<1>1. \A t \in 0..Requests : t # 0 => t \in Id
  BY SessionConstants DEF Id
<1>2. \A i \in Id : request[i].r.token \in 0..Requests
  BY SessionTypes DEF RequestTypeOK, Content
<1>3. \A c \in Cookies : jar[c].of \in 0..Requests
  BY SessionTypes DEF JarTypeOK
<1>4. loggedOut \subseteq Id /\ 0 \notin Id
  BY SessionTypes, SessionConstants DEF OthersTypeOK, Id
<1> QED BY <1>1, <1>2, <1>3, <1>4

LEMMA FineStays ==
    ASSUME LogoutInv, EndedStay, NEW j \in Id, SameContent(j)
    PROVE  Fine(j)'
<1>1. Fine(j) /\ (request[j].r.token # 0 => request[j].r.token \in Id)
  BY TokenIds DEF LogoutInv
<1> DEFINE t == request[j].r.token
<1>2. request'[j].r.token = t
  BY DEF SameContent
<1>3. t # 0 /\ Ended(t) => /\ request'[t].at = "over"
                           /\ ~verifyJWT(t) => ~(clock' < signed'[t])
  BY <1>1 DEF EndedStay
<1>4. t # 0 => request'[t].at = "over"
  BY <1>1, <1>3 DEF Fine
<1>5. request[j].at = "sent" /\ request[j].r.stale =>
          t # 0 /\ request[j].r.kind # "login" /\ ~(clock' < signed'[t])
  BY <1>1, <1>3 DEF Fine
<1>6. /\ request[j].at = "answered" /\ request[j].r.kind = "logout"
      /\ request[j].r.status # 200 /\ t # 0
      => ~(clock' < signed'[t])
  BY <1>1, <1>3 DEF Fine
<1>7. /\ request[j].r.stale => request[j].at \in {"sent", "answered"} /\ request[j].r.status # 200
      /\ request[j].at = "made" => request[j].r.status = 0
  BY <1>1 DEF Fine
<1> HIDE DEF t
<1> QED BY <1>2, <1>4, <1>5, <1>6, <1>7 DEF Fine, SameContent, Ended, verifyJWT

LEMMA BlankFine ==
    ASSUME NEW j \in Id, request'[j] \in {At("over", Blank)} PROVE Fine(j)'
BY DEF Fine, At, Blank

LEMMA CookiesStay ==
    ASSUME LogoutInv, EndedStay, UNCHANGED <<jar, loggedOut>> PROVE CookiesFine'
<1>1. CookiesFine /\ "token" \in Cookies
  BY DEF LogoutInv, Cookies
<1>2. /\ \A c \in Cookies : jar[c].of # 0 => jar[c].of \in Id
      /\ loggedOut \subseteq Id /\ 0 \notin Id
  BY TokenIds DEF LogoutInv
<1>3. \A c \in Cookies : jar[c].of # 0 => request'[jar[c].of].at = "over"
  BY <1>1, <1>2 DEF CookiesFine, EndedStay
<1>4. \A t \in loggedOut : request'[t].at = "over"
  BY <1>1, <1>2 DEF CookiesFine, EndedStay
<1>5. jar["token"].of \in loggedOut => ~(clock' < signed'[jar["token"].of])
  BY <1>1, <1>2 DEF CookiesFine, EndedStay
<1> QED BY <1>3, <1>4, <1>5 DEF CookiesFine, Ended, verifyJWT

LEMMA LogoutInit == SessionInit => LogoutInv
<1> SUFFICES ASSUME SessionInit PROVE LogoutInv
  OBVIOUS
<1>1. \A i \in Id : Fine(i)
  BY DEF SessionInit, Fine, At, Blank
<1>2. CookiesFine
  BY SessionConstants DEF SessionInit, CookiesFine, NoCookie, Cookies
<1> QED BY <1>1, <1>2, SessionTypeInit DEF LogoutInv

LEMMA LogoutMake ==
    ASSUME LogoutInv, NEW i \in Id, NEW kind \in Kinds, Make(i, kind)
    PROVE  (\A j \in Id : Fine(j)') /\ CookiesFine'
<1>1. request \in [Id -> [at : Places, r : Content]]
  BY SessionTypes DEF LogoutInv, RequestTypeOK
<1>2. /\ request[i].at = "unmade" /\ UNCHANGED <<clock, signed, jar, loggedOut>>
      /\ \A j \in Id \ {i} : request'[j] = request[j]
  BY <1>1 DEF Make
<1>3. /\ request'[i].at = "made" /\ request'[i].r.token = 0 /\ request'[i].r.status = 0
      /\ request'[i].r.stale = FALSE
  BY <1>1 DEF Make, At, Blank
<1>4. EndedStay
  BY <1>2 DEF EndedStay, Ended, verifyJWT
<1>5. Fine(i)'
  BY <1>3 DEF Fine
<1>6. \A j \in Id \ {i} : Fine(j)'
  BY <1>2, <1>4, FineStays DEF SameContent
<1> QED BY <1>2, <1>4, <1>5, <1>6, CookiesStay

LEMMA LogoutSend ==
    ASSUME LogoutInv, NEW i \in Id, Send(i)
    PROVE  (\A j \in Id : Fine(j)') /\ CookiesFine'
<1>1. request \in [Id -> [at : Places, r : Content]]
  BY SessionTypes DEF LogoutInv, RequestTypeOK
<1>2. /\ request[i].at = "made" /\ UNCHANGED <<clock, signed, jar, loggedOut>>
      /\ \A j \in Id \ {i} : request'[j] = request[j]
  BY <1>1 DEF Send
<1>3. /\ request'[i].at = "sent" /\ request'[i].r.token = Cookie("token")
      /\ request'[i].r.status = request[i].r.status
      /\ request'[i].r.kind = request[i].r.kind
      /\ request'[i].r.stale <=> request[i].r.kind # "login" /\ Cookie("token") \in loggedOut
  <2> DEFINE user  == IF request[i].r.kind = "login" THEN 0 ELSE session
             stale == request[i].r.kind # "login" /\ Cookie("token") \in loggedOut
             r     == [request[i].r EXCEPT !.token = Cookie("token"), !.csrf = Cookie("csrf_token"),
                                           !.user = user, !.stale = stale]
  <2>1. request[i].r \in Content
    BY <1>1
  <2>2. request'[i] = At("sent", r)
    BY <1>1 DEF Send
  <2> HIDE DEF user, stale
  <2>3. /\ r.token = Cookie("token") /\ r.stale = stale
        /\ r.status = request[i].r.status /\ r.kind = request[i].r.kind
    BY <2>1 DEF Content
  <2> HIDE DEF r
  <2>4. request'[i].at = "sent" /\ request'[i].r = r
    BY <2>2 DEF At
  <2> QED BY <2>3, <2>4 DEF stale
<1>4. EndedStay
  BY <1>2 DEF EndedStay, Ended, verifyJWT
<1>5. /\ Fine(i) /\ CookiesFine /\ "token" \in Cookies
      /\ loggedOut \subseteq Id /\ 0 \notin Id
  BY TokenIds DEF LogoutInv, Cookies
<1>6. Cookie("token") # 0 => /\ Cookie("token") = jar["token"].of
                             /\ Ended(Cookie("token"))
                             /\ Cookie("token") # i
  BY <1>2, <1>5 DEF CookiesFine, Cookie, Ended
<1>7. Cookie("token") # 0 => request'[Cookie("token")].at = "over"
  BY <1>4, <1>5, <1>6, TokenIds DEF EndedStay, LogoutInv
<1>8. Cookie("token") \in loggedOut => Cookie("token") # 0 /\ ~verifyJWT(Cookie("token"))
  BY <1>5, <1>6 DEF CookiesFine
<1>9. Fine(i)'
  <2>1. request'[i].r.token # 0 => request'[request'[i].r.token].at = "over"
    BY <1>3, <1>7
  <2>2. request'[i].r.status # 200
    BY <1>2, <1>3, <1>5 DEF Fine
  <2>3. request'[i].r.stale => /\ request'[i].r.token # 0 /\ request'[i].r.kind # "login"
                               /\ ~(clock' < signed'[request'[i].r.token])
    BY <1>2, <1>3, <1>8 DEF verifyJWT
  <2> QED BY <1>3, <2>1, <2>2, <2>3 DEF Fine, Ended, verifyJWT
<1>10. \A j \in Id \ {i} : Fine(j)'
  BY <1>2, <1>4, FineStays DEF SameContent
<1> QED BY <1>2, <1>4, <1>9, <1>10, CookiesStay

LEMMA LogoutLose ==
    ASSUME LogoutInv, NEW i \in Id, Lose(i)
    PROVE  (\A j \in Id : Fine(j)') /\ CookiesFine'
<1>1. request \in [Id -> [at : Places, r : Content]]
  BY SessionTypes DEF LogoutInv, RequestTypeOK
<1>2. /\ request'[i] = At("over", Blank) /\ UNCHANGED <<clock, signed, jar, loggedOut>>
      /\ \A j \in Id \ {i} : request'[j] = request[j]
  BY <1>1 DEF Lose
<1>3. EndedStay
  BY <1>2 DEF EndedStay, Ended, verifyJWT, At
<1>4. \A j \in Id : Fine(j)'
  BY <1>2, <1>3, FineStays, BlankFine DEF SameContent
<1> QED BY <1>2, <1>3, <1>4, CookiesStay

LEMMA LogoutHandle ==
    ASSUME LogoutInv, NEW i \in Id, Handle(i)
    PROVE  (\A j \in Id : Fine(j)') /\ CookiesFine'
<1>1. request \in [Id -> [at : Places, r : Content]]
  BY SessionTypes DEF LogoutInv, RequestTypeOK
<1>2. PICK status \in {200, 401, 403} :
        /\ Answer(i, status)
        /\ status = 200 /\ request[i].r.kind # "login" => JWT(request[i].r)
        /\ status = 401 /\ request[i].r.kind # "login" => ~JWT(request[i].r)
        /\ status = 403 => request[i].r.kind = "change"
  BY Handled
<1>3. /\ request[i].at = "sent" /\ UNCHANGED <<clock, jar, loggedOut>>
      /\ \/ UNCHANGED signed
         \/ /\ request[i].r.kind = "login"
            /\ signed' = [signed EXCEPT ![i] = clock + TokenExpire]
  BY Handled
<1>4. /\ \A j \in Id \ {i} : request'[j] = request[j]
      /\ request'[i].at = "answered" /\ request'[i].r.kind = request[i].r.kind
      /\ request'[i].r.status = status /\ request'[i].r.stale = request[i].r.stale
      /\ request'[i].r.token = IF request[i].r.kind = "logout" THEN request[i].r.token ELSE 0
  BY <1>1, <1>2 DEF Answer, At, Blank
<1>5. signed \in [Id -> 0..(MaxHours + TokenExpire)]
  BY SessionTypes DEF LogoutInv, OthersTypeOK
<1>6. EndedStay
  <2> SUFFICES ASSUME NEW t \in Id, Ended(t)
               PROVE  request'[t].at = "over" /\ signed'[t] = signed[t]
    BY <1>3 DEF EndedStay, verifyJWT
  <2>1. t # i
    BY <1>3 DEF Ended
  <2> QED BY <1>3, <1>4, <1>5, <2>1 DEF Ended
<1>7. Fine(i) /\ (request[i].r.token # 0 => request[i].r.token \in Id)
  BY TokenIds DEF LogoutInv
<1> DEFINE token == request[i].r.token
<1>8. token # 0 => /\ request'[token].at = "over"
                   /\ ~verifyJWT(token) => ~(clock' < signed'[token])
  <2>1. token # 0 => token \in Id /\ Ended(token)
    BY <1>7 DEF Fine
  <2> HIDE DEF token
  <2> QED BY <1>6, <2>1 DEF EndedStay
<1>9. request[i].r.stale => token # 0 /\ request[i].r.kind # "login" /\ ~verifyJWT(token)
  BY <1>3, <1>7 DEF Fine
<1>10. request[i].r.stale => status # 200
  BY <1>2, <1>9 DEF JWT
<1>11. request[i].r.kind = "logout" /\ status # 200 /\ token # 0 => ~verifyJWT(token)
  BY <1>2 DEF JWT
<1>12. Fine(i)'
  <2> HIDE DEF token
  <2>1. request'[i].r.token # 0 =>
            request'[i].r.token = token /\ request[i].r.kind = "logout" /\ token # 0
    BY <1>4 DEF token
  <2>2. request'[i].r.token # 0 => request'[request'[i].r.token].at = "over"
    BY <1>8, <2>1
  <2>3. request'[i].r.status # 200 /\ request'[i].r.token # 0 =>
            ~(clock' < signed'[request'[i].r.token])
    BY <1>4, <1>8, <1>11, <2>1
  <2>4. request'[i].r.stale => request'[i].r.status # 200
    BY <1>4, <1>10
  <2> QED BY <1>4, <2>2, <2>3, <2>4 DEF Fine, Ended, verifyJWT
<1>13. \A j \in Id \ {i} : Fine(j)'
  BY <1>4, <1>6, FineStays DEF SameContent
<1> QED BY <1>3, <1>6, <1>12, <1>13, CookiesStay

LEMMA LogoutReceive ==
    ASSUME LogoutInv, NEW i \in Id, Receive(i)
    PROVE  (\A j \in Id : Fine(j)') /\ CookiesFine'
<1>1. request \in [Id -> [at : Places, r : Content]]
  BY SessionTypes DEF LogoutInv, RequestTypeOK
<1>2. /\ request[i].at = "answered" /\ UNCHANGED <<clock, signed>>
      /\ request'[i] = At("over", Blank)
      /\ \A j \in Id \ {i} : request'[j] = request[j] \/ request'[j] = Overtake(j)
  BY <1>1, Received
<1>3. \A j \in Id \ {i} : SameContent(j)
  <2>1. ASSUME NEW j \in Id PROVE
            /\ Overtake(j).at = request[j].at
            /\ Overtake(j).r.kind = request[j].r.kind
            /\ Overtake(j).r.token = request[j].r.token
            /\ Overtake(j).r.stale = request[j].r.stale
            /\ Overtake(j).r.status = request[j].r.status
    BY <1>1 DEF Overtake, Content
  <2> QED BY <1>2, <2>1 DEF SameContent
<1>4. request'[i].at = "over"
  BY <1>2 DEF At
<1>5. EndedStay
  BY <1>2, <1>3, <1>4 DEF EndedStay, Ended, SameContent, verifyJWT
<1>6. \A j \in Id : Fine(j)'
  BY <1>2, <1>3, <1>5, FineStays, BlankFine
<1>7. /\ Fine(i) /\ CookiesFine /\ "token" \in Cookies /\ i # 0
      /\ request[i].r.token # 0 => request[i].r.token \in Id
      /\ \A c \in Cookies : jar[c].of # 0 => jar[c].of \in Id
      /\ loggedOut \subseteq Id /\ 0 \notin Id
  BY TokenIds DEF LogoutInv, Cookies
<1>8. \A t \in loggedOut' : t \in Id /\ (t \in loggedOut \/ t = request[i].r.token)
  BY <1>7, Received
<1>9. \A t \in loggedOut' : Ended(t)
  BY <1>7, <1>8 DEF Fine, CookiesFine
<1>10. \A t \in loggedOut' : request'[t].at = "over"
  BY <1>5, <1>8, <1>9 DEF EndedStay
<1>11. CASE jar' = setAuthCookies(i) /\ request[i].r.kind = "login"
  <2>1. \A c \in Cookies : jar'[c].of = i
    BY <1>11 DEF setAuthCookies
  <2>2. i \notin loggedOut'
    BY <1>2, <1>9 DEF Ended
  <2> QED BY <1>4, <1>6, <1>7, <1>10, <2>1, <2>2 DEF CookiesFine, Ended
<1>12. CASE jar' = clearAuthCookies
  <2>1. \A c \in Cookies : jar'[c].of = 0
    BY <1>12 DEF clearAuthCookies, NoCookie
  <2>2. 0 \notin loggedOut'
    BY <1>7, <1>8
  <2> QED BY <1>6, <1>7, <1>10, <2>1, <2>2 DEF CookiesFine, Ended
<1>13. CASE /\ ~(request[i].r.kind = "logout" /\ request[i].r.status = 200)
            /\ UNCHANGED jar
  <2>1. \A c \in Cookies : jar[c].of # 0 => request'[jar[c].of].at = "over"
    BY <1>5, <1>7 DEF CookiesFine, EndedStay
  <2>2. \A t \in loggedOut' : t \in loggedOut \/ ~verifyJWT(t)
    <3> SUFFICES ASSUME NEW t \in loggedOut', t \notin loggedOut PROVE ~verifyJWT(t)
      OBVIOUS
    <3>1. /\ request[i].r.kind = "logout" /\ request[i].r.status # 200
          /\ t = request[i].r.token /\ t # 0
      BY <1>7, <1>8, <1>13, Received
    <3> QED BY <1>2, <1>7, <3>1 DEF Fine
  <2>3. jar["token"].of \in loggedOut' => ~verifyJWT(jar["token"].of)
    BY <1>7, <2>2 DEF CookiesFine
  <2>4. jar["token"].of \in loggedOut' => ~(clock' < signed'[jar["token"].of])
    BY <1>2, <2>3 DEF verifyJWT
  <2> QED BY <1>6, <1>10, <1>13, <2>1, <2>4 DEF CookiesFine, Ended, verifyJWT
<1> QED BY <1>11, <1>12, <1>13, Received

LEMMA LogoutOthers ==
    ASSUME LogoutInv, Hour \/ LoadSecret \/ UNCHANGED sessionVars
    PROVE  (\A j \in Id : Fine(j)') /\ CookiesFine'
<1>1. /\ UNCHANGED <<jar, request, loggedOut>>
      /\ clock' = clock \/ clock' = clock + 1
      /\ signed' = signed \/ signed' = [i \in Id |-> 0]
  BY DEF Hour, LoadSecret, sessionVars
<1>2. /\ clock \in Nat /\ \A t \in Id : signed[t] \in Nat
  BY SessionTypes, SessionConstants DEF LogoutInv, OthersTypeOK
<1>3. EndedStay
  BY <1>1, <1>2 DEF EndedStay, Ended, verifyJWT
<1>4. \A j \in Id : Fine(j)'
  BY <1>1, <1>3, FineStays DEF SameContent
<1> QED BY <1>1, <1>3, <1>4, CookiesStay

LEMMA LogoutDie ==
    ASSUME LogoutInv, NEW p \in Services, Die(p)
    PROVE  (\A j \in Id : Fine(j)') /\ CookiesFine'
<1>1. /\ UNCHANGED <<clock, signed, jar, loggedOut>>
      /\ \A j \in Id : request'[j] = request[j] \/ request'[j] = At("over", Blank)
  BY DEF Die
<1>2. EndedStay
  BY <1>1 DEF EndedStay, Ended, verifyJWT, At
<1>3. \A j \in Id : Fine(j)'
  BY <1>1, <1>2, FineStays, BlankFine DEF SameContent
<1> QED BY <1>1, <1>2, <1>3, CookiesStay

LEMMA LogoutStep == LogoutInv /\ [Next]_vars => LogoutInv'
<1> SUFFICES ASSUME LogoutInv, [Next]_vars PROVE LogoutInv'
  OBVIOUS
<1>1. SessionTypeOK'
  BY SessionTypeStep DEF LogoutInv
<1>2. Browser => (\A j \in Id : Fine(j)') /\ CookiesFine'
  BY LogoutMake, LogoutSend, LogoutLose, LogoutHandle, LogoutReceive DEF Browser, Kinds
<1>3. (\A j \in Id : Fine(j)') /\ CookiesFine'
  BY <1>2, LogoutOthers, LogoutDie DEF Next, StartUp, vars
<1> QED BY <1>1, <1>3 DEF LogoutInv

(* Of any number of tabs, requests and logins, lost and late answers, and  *)
(* restarts with the old secret or a new one: once the page has the answer *)
(* to its logout, no request is served under that session.                 *)
THEOREM LogoutEndsSession == Spec => []LogoutEnds
<1>1. Init => LogoutInv
  BY LogoutInit DEF Init
<1>2. LogoutInv => LogoutEnds
  BY DEF LogoutInv, Fine, LogoutEnds
<1> QED BY <1>1, <1>2, LogoutStep, PTL DEF Spec

-----------------------------------------------------------------------------
(* While the page is in a session its two cookies are of that session, and *)
(* last as long as the token at least; what a request was made with it is  *)
(* also sent with, unless the cookies changed or are expired by then, and  *)
(* with them the token.                                                    *)
InSession ==
    session # 0 => /\ session \in Id /\ Ended(session)
                   /\ \A c \in Cookies : jar[c].of = session /\ signed[session] <= jar[c].until

MadeInSession(i) ==
    LET q == request[i] IN
    /\ q.at = "made" => q.r.user = 0 /\ q.r.status = 0
    /\ /\ q.at = "made" /\ ~q.r.overtaken /\ q.r.kind = "change"
       /\ session # 0 /\ clock < jar["csrf_token"].until
       => q.r.header = session

SentInSession(i) ==
    LET q == request[i] IN
    q.r.user # 0 =>
        /\ q.r.user \in Id /\ Ended(q.r.user)
        /\ q.at = "sent" /\ q.r.status = 0 /\ q.r.kind # "login"
        /\ ~q.r.overtaken /\ verifyJWT(q.r.user) =>
               /\ q.r.token = q.r.user
               /\ q.r.kind = "change" => q.r.csrf = q.r.user /\ q.r.header = q.r.user

NotSignedLonger == \A i \in Id : signed[i] <= clock + TokenExpire

SessionInv ==
    /\ LogoutInv /\ InSession /\ NotSignedLonger
    /\ \A i \in Id : MadeInSession(i) /\ SentInSession(i)

LEMMA SessionNumbers ==
    ASSUME SessionTypeOK
    PROVE  /\ clock \in Nat /\ session \in 0..Requests
           /\ \A t \in Id : signed[t] \in Nat
           /\ \A c \in Cookies : jar[c].until \in Nat /\ jar[c].of \in 0..Requests
           /\ request \in [Id -> [at : Places, r : Content]]
           /\ \A i \in Id : request[i].r \in Content
<1>1. 0..(MaxHours + TokenExpire) \subseteq Nat /\ 0..MaxHours \subseteq Nat
  BY SessionConstants
<1>2. RequestTypeOK /\ JarTypeOK /\ OthersTypeOK
  BY SessionTypes
<1> QED BY <1>1, <1>2 DEF RequestTypeOK, JarTypeOK, OthersTypeOK

(* A login that is over never signs again.                                 *)
SignedForGood ==
    /\ clock' \in Nat /\ clock <= clock'
    /\ \A t \in Id : Ended(t) => /\ request'[t].at = "over"
                                 /\ signed'[t] \in Nat /\ signed'[t] <= signed[t]

(* A session goes on while the cookies stay: for every request that is not *)
(* new in its place nothing changes but the clock.                         *)
LEMMA SessionGoesOn ==
    ASSUME SessionInv, SignedForGood, UNCHANGED <<jar, session>>,
           \A j \in Id : \/ request'[j] = request[j]
                         \/ request'[j] = At("over", Blank)
                         \/ MadeInSession(j)' /\ SentInSession(j)'
    PROVE  InSession' /\ \A j \in Id : MadeInSession(j)' /\ SentInSession(j)'
<1>1. /\ InSession /\ SessionTypeOK
      /\ \A j \in Id : MadeInSession(j) /\ SentInSession(j)
  BY DEF SessionInv, LogoutInv
<1>2. InSession'
  <2>1. ASSUME session # 0
        PROVE  /\ session \in Id /\ request'[session].at = "over"
               /\ \A c \in Cookies : jar[c].of = session /\ signed'[session] <= jar[c].until
    <3>1. /\ session \in Id /\ Ended(session)
          /\ \A c \in Cookies : jar[c].of = session /\ signed[session] <= jar[c].until
      BY <1>1, <2>1 DEF InSession
    <3>2. request'[session].at = "over" /\ signed'[session] \in Nat /\ signed'[session] <= signed[session]
      BY <3>1 DEF SignedForGood
    <3>3. signed[session] \in Nat /\ \A c \in Cookies : jar[c].until \in Nat
      BY <1>1, <3>1, SessionNumbers
    <3> QED BY <3>1, <3>2, <3>3
  <2> QED BY <2>1 DEF InSession, Ended
<1>3. ASSUME NEW j \in Id, request'[j] = request[j]
      PROVE  MadeInSession(j)' /\ SentInSession(j)'
  <2>1. clock' < jar["csrf_token"].until => clock < jar["csrf_token"].until
    <3>1. clock \in Nat /\ jar["csrf_token"].until \in Nat
      BY <1>1, SessionNumbers DEF Cookies
    <3> QED BY <3>1 DEF SignedForGood
  <2>2. MadeInSession(j)'
    BY <1>1, <1>3, <2>1 DEF MadeInSession
  <2> DEFINE u == request[j].r.user
  <2>3. u # 0 => /\ u \in Id /\ request'[u].at = "over"
                 /\ clock' < signed'[u] => verifyJWT(u)
    <3> SUFFICES ASSUME u # 0
                 PROVE  /\ u \in Id /\ request'[u].at = "over"
                        /\ clock' < signed'[u] => verifyJWT(u)
      OBVIOUS
    <3>1. u \in Id /\ Ended(u)
      BY <1>1 DEF SentInSession
    <3> HIDE DEF u
    <3>2. /\ request'[u].at = "over" /\ signed'[u] \in Nat /\ signed'[u] <= signed[u]
          /\ clock' \in Nat /\ clock <= clock'
      BY <3>1 DEF SignedForGood
    <3>3. signed[u] \in Nat /\ clock \in Nat
      BY <1>1, <3>1, SessionNumbers
    <3> QED BY <3>1, <3>2, <3>3 DEF verifyJWT
  <2>4. request'[j].r.user = u
    BY <1>3
  <2>5. u # 0 => /\ request[j].at = "sent" /\ request[j].r.status = 0 /\ request[j].r.kind # "login"
                 /\ ~request[j].r.overtaken /\ verifyJWT(u) =>
                       /\ request[j].r.token = u
                       /\ request[j].r.kind = "change" =>
                             request[j].r.csrf = u /\ request[j].r.header = u
    BY <1>1 DEF SentInSession
  <2> HIDE DEF u
  <2>6. SentInSession(j)'
    BY <1>3, <2>3, <2>4, <2>5 DEF SentInSession, Ended, verifyJWT
  <2> QED BY <2>2, <2>6
<1>4. ASSUME NEW j \in Id, request'[j] = At("over", Blank)
      PROVE  MadeInSession(j)' /\ SentInSession(j)'
  BY <1>4 DEF MadeInSession, SentInSession, At, Blank
<1> QED BY <1>2, <1>3, <1>4

LEMMA SessionMake ==
    ASSUME SessionInv, NEW i \in Id, NEW kind \in Kinds, Make(i, kind)
    PROVE  InSession' /\ NotSignedLonger' /\ \A j \in Id : MadeInSession(j)' /\ SentInSession(j)'
<1>1. /\ SessionTypeOK /\ InSession /\ NotSignedLonger
      /\ request[i].at = "unmade" /\ UNCHANGED <<clock, signed, jar, session>>
      /\ request \in [Id -> [at : Places, r : Content]]
  BY SessionNumbers DEF SessionInv, LogoutInv, Make
<1>2. \A j \in Id \ {i} : request'[j] = request[j]
  BY <1>1 DEF Make
<1>3. /\ request'[i].at = "made" /\ request'[i].r.user = 0 /\ request'[i].r.status = 0
      /\ request'[i].r.kind = kind
      /\ kind # "read" => request'[i].r.header = Cookie("csrf_token")
  BY <1>1 DEF Make, At, Blank
<1>4. SignedForGood
  <2>1. clock \in Nat /\ \A t \in Id : signed[t] \in Nat
    BY <1>1, SessionNumbers
  <2>2. \A t \in Id : Ended(t) => t # i
    BY <1>1 DEF Ended
  <2> QED BY <1>1, <1>2, <2>1, <2>2 DEF SignedForGood, Ended
<1>5. session # 0 /\ clock < jar["csrf_token"].until => Cookie("csrf_token") = session
  BY <1>1 DEF InSession, Cookie, Cookies
<1>6. MadeInSession(i)' /\ SentInSession(i)'
  BY <1>1, <1>3, <1>5 DEF MadeInSession, SentInSession
<1>7. NotSignedLonger'
  BY <1>1 DEF NotSignedLonger
<1> QED BY <1>1, <1>2, <1>4, <1>6, <1>7, SessionGoesOn

LEMMA SessionSend ==
    ASSUME SessionInv, NEW i \in Id, Send(i)
    PROVE  InSession' /\ NotSignedLonger' /\ \A j \in Id : MadeInSession(j)' /\ SentInSession(j)'
<1>1. /\ SessionTypeOK /\ InSession /\ NotSignedLonger /\ MadeInSession(i)
      /\ request[i].at = "made" /\ UNCHANGED <<clock, signed, jar, session>>
      /\ request \in [Id -> [at : Places, r : Content]] /\ request[i].r \in Content
  BY SessionNumbers DEF SessionInv, LogoutInv, Send
<1>2. \A j \in Id \ {i} : request'[j] = request[j]
  BY <1>1 DEF Send
<1>3. SignedForGood
  <2>1. clock \in Nat /\ \A t \in Id : signed[t] \in Nat
    BY <1>1, SessionNumbers
  <2>2. \A t \in Id : Ended(t) => t # i
    BY <1>1 DEF Ended
  <2> QED BY <1>1, <1>2, <2>1, <2>2 DEF SignedForGood, Ended
<1>4. /\ request'[i].at = "sent" /\ request'[i].r.status = request[i].r.status
      /\ request'[i].r.kind = request[i].r.kind /\ request'[i].r.header = request[i].r.header
      /\ request'[i].r.overtaken = request[i].r.overtaken
      /\ request'[i].r.token = Cookie("token") /\ request'[i].r.csrf = Cookie("csrf_token")
      /\ request'[i].r.user = IF request[i].r.kind = "login" THEN 0 ELSE session
  <2> DEFINE user  == IF request[i].r.kind = "login" THEN 0 ELSE session
             stale == request[i].r.kind # "login" /\ Cookie("token") \in loggedOut
             r     == [request[i].r EXCEPT !.token = Cookie("token"), !.csrf = Cookie("csrf_token"),
                                           !.user = user, !.stale = stale]
  <2>1. request'[i] = At("sent", r)
    BY <1>1 DEF Send
  <2> HIDE DEF user, stale
  <2>2. /\ r.token = Cookie("token") /\ r.csrf = Cookie("csrf_token") /\ r.user = user
        /\ r.status = request[i].r.status /\ r.kind = request[i].r.kind
        /\ r.header = request[i].r.header /\ r.overtaken = request[i].r.overtaken
    BY <1>1 DEF Content
  <2> HIDE DEF r
  <2>3. request'[i].at = "sent" /\ request'[i].r = r
    BY <2>1 DEF At
  <2> QED BY <2>2, <2>3 DEF user
<1>5. session # 0 => /\ session \in Id /\ Ended(session) /\ session # i
                     /\ verifyJWT(session) =>
                          /\ Cookie("token") = session /\ Cookie("csrf_token") = session
                          /\ clock < jar["csrf_token"].until
  <2> SUFFICES ASSUME session # 0
               PROVE  /\ session \in Id /\ Ended(session) /\ session # i
                      /\ verifyJWT(session) =>
                           /\ Cookie("token") = session /\ Cookie("csrf_token") = session
                           /\ clock < jar["csrf_token"].until
    OBVIOUS
  <2>1. /\ session \in Id /\ Ended(session)
        /\ \A c \in Cookies : jar[c].of = session /\ signed[session] <= jar[c].until
    BY <1>1 DEF InSession
  <2>2. session # i
    BY <1>1, <2>1 DEF Ended
  <2>3. /\ clock \in Nat /\ signed[session] \in Nat
        /\ \A c \in Cookies : jar[c].until \in Nat
    BY <1>1, <2>1, SessionNumbers
  <2>4. verifyJWT(session) => \A c \in Cookies : clock < jar[c].until
    BY <2>1, <2>3 DEF verifyJWT
  <2> QED BY <2>1, <2>2, <2>4 DEF Cookie, Cookies
<1>6. request[i].r.user = 0 /\ request[i].r.status = 0
  BY <1>1 DEF MadeInSession
<1>7. MadeInSession(i)'
  BY <1>4 DEF MadeInSession
<1>8. SentInSession(i)'
  <2> SUFFICES ASSUME request[i].r.kind # "login", session # 0 PROVE SentInSession(i)'
    BY <1>4 DEF SentInSession
  <2>1. request'[i].r.user = session /\ session \in Id /\ request'[session].at = "over"
    BY <1>2, <1>4, <1>5 DEF Ended
  <2>2. ~request[i].r.overtaken /\ verifyJWT(session) =>
          /\ Cookie("token") = session
          /\ request[i].r.kind = "change" =>
                Cookie("csrf_token") = session /\ request[i].r.header = session
    BY <1>1, <1>5 DEF MadeInSession
  <2>3. (clock' < signed'[session]) <=> verifyJWT(session)
    BY <1>1 DEF verifyJWT
  <2> QED BY <1>4, <1>6, <2>1, <2>2, <2>3 DEF SentInSession, Ended, verifyJWT
<1>9. NotSignedLonger'
  BY <1>1 DEF NotSignedLonger
<1> QED BY <1>1, <1>2, <1>3, <1>7, <1>8, <1>9, SessionGoesOn

LEMMA SessionLose ==
    ASSUME SessionInv, NEW i \in Id, Lose(i)
    PROVE  InSession' /\ NotSignedLonger' /\ \A j \in Id : MadeInSession(j)' /\ SentInSession(j)'
<1>1. /\ SessionTypeOK /\ NotSignedLonger /\ UNCHANGED <<clock, signed, jar, session>>
      /\ request \in [Id -> [at : Places, r : Content]]
  BY SessionNumbers DEF SessionInv, LogoutInv, Lose
<1>2. request'[i] = At("over", Blank) /\ \A j \in Id \ {i} : request'[j] = request[j]
  BY <1>1 DEF Lose
<1>3. SignedForGood
  <2>1. clock \in Nat /\ \A t \in Id : signed[t] \in Nat
    BY <1>1, SessionNumbers
  <2> QED BY <1>1, <1>2, <2>1 DEF SignedForGood, Ended, At
<1>4. NotSignedLonger'
  BY <1>1 DEF NotSignedLonger
<1> QED BY <1>1, <1>2, <1>3, <1>4, SessionGoesOn

LEMMA SessionHandle ==
    ASSUME SessionInv, NEW i \in Id, Handle(i)
    PROVE  InSession' /\ NotSignedLonger' /\ \A j \in Id : MadeInSession(j)' /\ SentInSession(j)'
<1>1. /\ SessionTypeOK /\ NotSignedLonger /\ request[i].at = "sent"
      /\ UNCHANGED <<clock, jar, session>>
      /\ signed' = signed \/ signed' = [signed EXCEPT ![i] = clock + TokenExpire]
      /\ request \in [Id -> [at : Places, r : Content]]
  BY Handled, SessionNumbers DEF SessionInv, LogoutInv
<1>2. PICK status \in {200, 401, 403} : Answer(i, status)
  BY Handled
<1>3. /\ \A j \in Id \ {i} : request'[j] = request[j]
      /\ request'[i].at = "answered" /\ request'[i].r.user = 0
  BY <1>1, <1>2 DEF Answer, At, Blank
<1>4. /\ clock \in Nat /\ \A t \in Id : signed[t] \in Nat
      /\ signed \in [Id -> 0..(MaxHours + TokenExpire)]
  BY <1>1, SessionNumbers, SessionTypes DEF OthersTypeOK
<1>5. SignedForGood
  <2>1. \A t \in Id : Ended(t) => t # i
    BY <1>1 DEF Ended
  <2> QED BY <1>1, <1>3, <1>4, <2>1 DEF SignedForGood, Ended
<1>6. MadeInSession(i)' /\ SentInSession(i)'
  BY <1>3 DEF MadeInSession, SentInSession
<1>7. NotSignedLonger'
  <2> SUFFICES ASSUME NEW t \in Id PROVE signed'[t] <= clock + TokenExpire
    BY <1>1 DEF NotSignedLonger
  <2>1. signed[t] <= clock + TokenExpire
    BY <1>1 DEF NotSignedLonger
  <2>2. signed'[t] = signed[t] \/ signed'[t] = clock + TokenExpire
    BY <1>1, <1>4
  <2>3. clock + TokenExpire \in Nat
    BY <1>4, SessionConstants
  <2> QED BY <2>1, <2>2, <2>3
<1> QED BY <1>1, <1>3, <1>5, <1>6, <1>7, SessionGoesOn

LEMMA SessionOthers ==
    ASSUME SessionInv, Hour \/ LoadSecret \/ UNCHANGED sessionVars
    PROVE  InSession' /\ NotSignedLonger' /\ \A j \in Id : MadeInSession(j)' /\ SentInSession(j)'
<1>1. /\ UNCHANGED <<jar, request, session>>
      /\ clock' = clock \/ clock' = clock + 1
      /\ signed' = signed \/ signed' = [i \in Id |-> 0]
      /\ SessionTypeOK /\ NotSignedLonger
  BY DEF Hour, LoadSecret, sessionVars, SessionInv, LogoutInv
<1>2. clock \in Nat /\ \A t \in Id : signed[t] \in Nat
  BY <1>1, SessionNumbers
<1>3. \A t \in Id : signed'[t] \in Nat /\ signed'[t] <= signed[t]
  BY <1>1, <1>2
<1>4. SignedForGood
  BY <1>1, <1>2, <1>3 DEF SignedForGood, Ended
<1>5. NotSignedLonger'
  BY <1>1, <1>2, <1>3, SessionConstants DEF NotSignedLonger
<1> QED BY <1>1, <1>4, <1>5, SessionGoesOn

LEMMA SessionDie ==
    ASSUME SessionInv, NEW p \in Services, Die(p)
    PROVE  InSession' /\ NotSignedLonger' /\ \A j \in Id : MadeInSession(j)' /\ SentInSession(j)'
<1>1. /\ UNCHANGED <<clock, signed, jar, session>> /\ SessionTypeOK /\ NotSignedLonger
      /\ \A j \in Id : request'[j] = request[j] \/ request'[j] = At("over", Blank)
  BY DEF Die, SessionInv, LogoutInv
<1>2. clock \in Nat /\ \A t \in Id : signed[t] \in Nat
  BY <1>1, SessionNumbers
<1>3. SignedForGood
  BY <1>1, <1>2 DEF SignedForGood, Ended, At
<1>4. NotSignedLonger'
  BY <1>1 DEF NotSignedLonger
<1> QED BY <1>1, <1>3, <1>4, SessionGoesOn

(* The cookies change for all tabs: what they have made and not sent is    *)
(* overtaken.                                                              *)
LEMMA CookiesSet ==
    ASSUME NEW i \in Id, Receive(i)
    PROVE  \/ /\ request[i].r.kind = "login" /\ jar' = setAuthCookies(i) /\ session' = i
              /\ request' = [j \in Id |-> IF j = i THEN At("over", Blank) ELSE Overtake(j)]
           \/ /\ request[i].r.kind = "logout" /\ jar' = clearAuthCookies /\ session' = 0
              /\ request' = [j \in Id |-> IF j = i THEN At("over", Blank) ELSE Overtake(j)]
           \/ /\ request' = [request EXCEPT ![i] = At("over", Blank)]
              /\ UNCHANGED <<jar, session>>
<1>1. CASE request[i].r.kind = "login" /\ request[i].r.status = 200
  BY <1>1 DEF Receive
<1>2. CASE request[i].r.kind = "logout" /\ request[i].r.status = 200
  BY <1>2 DEF Receive
<1>3. CASE /\ ~(request[i].r.kind = "login" /\ request[i].r.status = 200)
           /\ ~(request[i].r.kind = "logout" /\ request[i].r.status = 200)
  BY <1>3 DEF Receive
<1> QED BY <1>1, <1>2, <1>3

LEMMA OvertakenInSession ==
    ASSUME SessionInv, SignedForGood, NEW j \in Id, request'[j] = Overtake(j)
    PROVE  MadeInSession(j)' /\ SentInSession(j)'
<1>1. /\ SessionTypeOK /\ MadeInSession(j) /\ SentInSession(j)
      /\ request[j] \in [at : Places, r : Content] /\ request[j].r \in Content
  BY SessionNumbers DEF SessionInv, LogoutInv
<1>2. CASE request[j].at = "made"
  <2>1. /\ Overtake(j).at = "made" /\ Overtake(j).r.overtaken = TRUE
        /\ Overtake(j).r.user = request[j].r.user /\ Overtake(j).r.status = request[j].r.status
    BY <1>1, <1>2 DEF Overtake, Content
  <2>2. request[j].r.user = 0 /\ request[j].r.status = 0
    BY <1>1, <1>2 DEF MadeInSession
  <2> QED BY <2>1, <2>2 DEF MadeInSession, SentInSession
<1>3. CASE request[j].at # "made"
  <2>1. request'[j] = request[j]
    BY <1>3 DEF Overtake
  <2>2. MadeInSession(j)'
    BY <1>3, <2>1 DEF MadeInSession
  <2> DEFINE u == request[j].r.user
  <2>3. u # 0 => /\ u \in Id /\ request'[u].at = "over"
                 /\ clock' < signed'[u] => verifyJWT(u)
    <3> SUFFICES ASSUME u # 0
                 PROVE  /\ u \in Id /\ request'[u].at = "over"
                        /\ clock' < signed'[u] => verifyJWT(u)
      OBVIOUS
    <3>1. u \in Id /\ Ended(u)
      BY <1>1 DEF SentInSession
    <3> HIDE DEF u
    <3>2. /\ request'[u].at = "over" /\ signed'[u] \in Nat /\ signed'[u] <= signed[u]
          /\ clock' \in Nat /\ clock <= clock'
      BY <3>1 DEF SignedForGood
    <3>3. signed[u] \in Nat /\ clock \in Nat
      BY <1>1, <3>1, SessionNumbers
    <3> QED BY <3>1, <3>2, <3>3 DEF verifyJWT
  <2>4. request'[j].r.user = u
    BY <2>1
  <2>5. u # 0 => /\ request[j].at = "sent" /\ request[j].r.status = 0 /\ request[j].r.kind # "login"
                 /\ ~request[j].r.overtaken /\ verifyJWT(u) =>
                       /\ request[j].r.token = u
                       /\ request[j].r.kind = "change" =>
                             request[j].r.csrf = u /\ request[j].r.header = u
    BY <1>1 DEF SentInSession
  <2> HIDE DEF u
  <2>6. SentInSession(j)'
    BY <2>1, <2>3, <2>4, <2>5 DEF SentInSession, Ended, verifyJWT
  <2> QED BY <2>2, <2>6
<1> QED BY <1>2, <1>3

LEMMA SessionReceive ==
    ASSUME SessionInv, NEW i \in Id, Receive(i)
    PROVE  InSession' /\ NotSignedLonger' /\ \A j \in Id : MadeInSession(j)' /\ SentInSession(j)'
<1>1. /\ SessionTypeOK /\ NotSignedLonger
      /\ request \in [Id -> [at : Places, r : Content]]
      /\ request[i].at = "answered" /\ UNCHANGED <<clock, signed>>
  BY SessionNumbers, Received DEF SessionInv, LogoutInv
<1>2. request'[i] = At("over", Blank)
  BY <1>1, CookiesSet
<1>3. \A j \in Id \ {i} : request'[j] = request[j] \/ request'[j] = Overtake(j)
  BY <1>1, CookiesSet
<1>4. clock \in Nat /\ \A t \in Id : signed[t] \in Nat
  BY <1>1, SessionNumbers
<1>5. SignedForGood
  <2>1. \A t \in Id : Ended(t) => request'[t].at = "over"
    <3>1. request'[i].at = "over"
      BY <1>2 DEF At
    <3>2. \A j \in Id : Overtake(j).at = request[j].at
      BY <1>1 DEF Overtake
    <3> QED BY <1>3, <3>1, <3>2 DEF Ended
  <2> QED BY <1>1, <1>4, <2>1 DEF SignedForGood
<1>6. NotSignedLonger'
  BY <1>1 DEF NotSignedLonger
<1>7. MadeInSession(i)' /\ SentInSession(i)'
  BY <1>2 DEF MadeInSession, SentInSession, At, Blank
<1>8. ASSUME request' = [j \in Id |-> IF j = i THEN At("over", Blank) ELSE Overtake(j)]
      PROVE  \A j \in Id : MadeInSession(j)' /\ SentInSession(j)'
  <2>1. \A j \in Id \ {i} : request'[j] = Overtake(j)
    BY <1>8
  <2> QED BY <1>5, <1>7, <2>1, OvertakenInSession
<1>9. CASE /\ jar' = setAuthCookies(i) /\ session' = i
           /\ request' = [j \in Id |-> IF j = i THEN At("over", Blank) ELSE Overtake(j)]
  <2>1. \A c \in Cookies : jar'[c].of = i /\ jar'[c].until = clock + TokenExpire
    BY <1>9 DEF setAuthCookies
  <2>2. signed'[i] <= clock + TokenExpire
    BY <1>1 DEF NotSignedLonger
  <2>3. request'[i].at = "over"
    BY <1>2 DEF At
  <2>4. InSession'
    BY <1>9, <2>1, <2>2, <2>3 DEF InSession, Ended
  <2> QED BY <1>6, <1>8, <1>9, <2>4
<1>10. CASE /\ session' = 0
            /\ request' = [j \in Id |-> IF j = i THEN At("over", Blank) ELSE Overtake(j)]
  <2>1. InSession'
    BY <1>10 DEF InSession
  <2> QED BY <1>6, <1>8, <1>10, <2>1
<1>11. CASE request' = [request EXCEPT ![i] = At("over", Blank)] /\ UNCHANGED <<jar, session>>
  <2>1. \A j \in Id \ {i} : request'[j] = request[j]
    BY <1>11
  <2> QED BY <1>2, <1>5, <1>6, <1>11, <2>1, SessionGoesOn
<1> QED BY <1>9, <1>10, <1>11, CookiesSet

LEMMA SessionStep == SessionInv /\ [Next]_vars => SessionInv'
<1> SUFFICES ASSUME SessionInv, [Next]_vars PROVE SessionInv'
  OBVIOUS
<1> DEFINE Rest == InSession /\ NotSignedLonger /\ \A j \in Id : MadeInSession(j) /\ SentInSession(j)
<1>1. LogoutInv'
  BY LogoutStep DEF SessionInv
<1>2. Browser => Rest'
  BY SessionMake, SessionSend, SessionLose, SessionHandle, SessionReceive DEF Browser, Kinds
<1>3. ASSUME NEW p \in Services, StartUp(p) \/ Die(p) PROVE Rest'
  BY <1>3, SessionOthers, SessionDie DEF StartUp
<1>4. Hour \/ UNCHANGED vars => Rest'
  BY SessionOthers DEF vars
<1>5. Rest'
  BY <1>2, <1>3, <1>4 DEF Next
<1> QED BY <1>1, <1>5 DEF SessionInv

LEMMA SessionInvInit == Init => SessionInv
<1> SUFFICES ASSUME Init PROVE SessionInv
  OBVIOUS
<1>1. LogoutInv /\ SessionInit
  BY LogoutInit DEF Init
<1>2. InSession
  BY <1>1 DEF SessionInit, InSession
<1>3. NotSignedLonger
  BY <1>1, SessionConstants DEF SessionInit, NotSignedLonger
<1>4. \A j \in Id : MadeInSession(j) /\ SentInSession(j)
  BY <1>1 DEF SessionInit, MadeInSession, SentInSession, At, Blank
<1> QED BY <1>1, <1>2, <1>3, <1>4 DEF SessionInv

(* A request sent in a session is answered by Handle alone, and then it is *)
(* not refused unless its token is, or the cookies changed.                *)
LEMMA HandledInSession ==
    ASSUME SessionInv, NEW i \in Id, Handle(i), request[i].r.user # 0,
           ~request[i].r.overtaken, verifyJWT(request[i].r.user)
    PROVE  request'[i].r.status = 200
<1>1. /\ SentInSession(i) /\ request \in [Id -> [at : Places, r : Content]]
  BY SessionNumbers DEF SessionInv, LogoutInv
<1> DEFINE u == request[i].r.user
<1>2. /\ request[i].r.token = u /\ request[i].r.kind # "login"
      /\ request[i].r.kind = "change" => request[i].r.csrf = u /\ request[i].r.header = u
  BY <1>1 DEF SentInSession
<1>3. JWT(request[i].r) /\ (request[i].r.kind = "change" => CSRF(request[i].r))
  BY <1>2 DEF JWT, CSRF
<1>4. Answer(i, 200)
  BY <1>2, <1>3 DEF Handle, Protected
<1> QED BY <1>1, <1>4 DEF Answer, At, Blank

(* For any number of tabs, requests, logins and logouts, lost and late     *)
(* answers, restarts and any lifetime of the token: who is in a session is *)
(* refused only when the token is, or when another tab changed the cookies *)
(* between the making of the request and its sending.                      *)
THEOREM NoRefusalWithoutCause == Spec => NoSpuriousRefusal
<1>1. ASSUME SessionInv, [Next]_vars, NEW i \in Id,
             request[i].r.user # 0, request'[i].r.status \in {401, 403},
             verifyJWT(request[i].r.user), ~request[i].r.overtaken
      PROVE  FALSE
  <2>1. /\ request[i].at = "sent" /\ request[i].r.status = 0
        /\ request \in [Id -> [at : Places, r : Content]]
    BY <1>1, SessionNumbers DEF SessionInv, LogoutInv, SentInSession
  <2>2. request'[i] # request[i]
    BY <1>1, <2>1
  <2>3. request'[i] # At("over", Blank)
    BY <1>1 DEF At, Blank
  <2>4. ~Handle(i)
    BY <1>1, HandledInSession
  <2>5. ASSUME NEW k \in Id, k # i, Handle(k) PROVE FALSE
    <3>1. PICK status \in {200, 401, 403} : Answer(k, status)
      BY <2>5, Handled
    <3>2. request'[i] = request[i]
      BY <2>1, <2>5, <3>1 DEF Answer
    <3> QED BY <2>2, <3>2
  <2>6. ASSUME NEW k \in Id, NEW kind \in Kinds, Make(k, kind) PROVE FALSE
    BY <2>1, <2>2, <2>6 DEF Make
  <2>7. ASSUME NEW k \in Id, Send(k) \/ Lose(k) PROVE FALSE
    BY <2>1, <2>2, <2>3, <2>7 DEF Send, Lose
  <2>8. ASSUME NEW k \in Id, Receive(k) PROVE FALSE
    <3>1. Overtake(i) = request[i]
      BY <2>1 DEF Overtake
    <3> QED BY <2>1, <2>2, <2>3, <2>8, <3>1, Received
  <2>9. ~Browser
    BY <2>4, <2>5, <2>6, <2>7, <2>8 DEF Browser, Kinds
  <2>10. ASSUME NEW p \in Services, Die(p) PROVE FALSE
    BY <2>2, <2>3, <2>10 DEF Die
  <2>11. ASSUME NEW p \in Services, StartUp(p) PROVE FALSE
    BY <2>2, <2>11 DEF StartUp, LoadSecret, sessionVars
  <2> QED BY <1>1, <2>2, <2>9, <2>10, <2>11 DEF Next, Hour, vars, sessionVars
<1>2. ASSUME SessionInv, [Next]_vars
      PROVE  [\A i \in Id :
                LET r == request[i].r IN
                r.user # 0 /\ request'[i].r.status \in {401, 403}
                    => ~verifyJWT(r.user) \/ r.overtaken]_request
  BY <1>1, <1>2
<1> QED BY <1>2, SessionInvInit, SessionStep, PTL DEF Spec, NoSpuriousRefusal
=============================================================================
