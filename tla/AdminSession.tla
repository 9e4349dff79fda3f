---------------------------- MODULE AdminSession ----------------------------
(***************************************************************************)
(* The session of the admin page: internal/admin/auth.go and middleware.go,*)
(* Login and Logout of handler.go, and api() of static/index.html in the   *)
(* tabs of one browser, which share its cookies.  The server keeps nothing *)
(* but its secret: a session is a token and a CSRF value, in two cookies.  *)
(*                                                                         *)
(* A page reads the CSRF cookie when it makes its request, the browser     *)
(* takes the cookies along when it sends it, and an answer of another tab  *)
(* may change them in between.  Requests and answers get lost.  A session  *)
(* is named by the request that logged in, 0 is none.                      *)
(***************************************************************************)
EXTENDS Integers

CONSTANTS Requests,      \* how many requests the tabs make
          TokenExpire,   \* ADMIN_TOKEN_EXPIRE, hours
          MaxHours       \* bound: the clock stops there

ASSUME SessionConstants ==
    /\ Requests \in Nat /\ TokenExpire \in Nat \ {0} /\ MaxHours \in Nat

VARIABLES
    clock,       \* hours
    signed,      \* when the token of a session expires; 0 if its secret is gone
    jar,         \* the cookies: of which session, and until when
    request,     \* the requests, those that are over without their content
    session,     \* history: the last session the browser was told of, or 0
    loggedOut    \* history: the sessions whose logout was answered

sessionVars == <<clock, signed, jar, request, session, loggedOut>>

Id == 1..Requests
Cookies == {"token", "csrf_token"}
NoCookie == [of |-> 0, until |-> 0]

(* What a request carries, its answer, and for the properties: the session *)
(* it was sent in, whether its token was logged out when it was sent, and  *)
(* whether the cookies changed after it was made and before it was sent.   *)
Blank == [kind |-> "read", header |-> 0, token |-> 0, csrf |-> 0, status |-> 0,
          user |-> 0, stale |-> FALSE, overtaken |-> FALSE]

At(place, r) == [at |-> place, r |-> r]

SessionInit ==
    /\ clock = 0
    /\ signed = [i \in Id |-> 0]
    /\ jar = [c \in Cookies |-> NoCookie]
    /\ request = [i \in Id |-> At("unmade", Blank)]
    /\ session = 0 /\ loggedOut = {}

Hour ==
    /\ clock < MaxHours
    /\ clock' = clock + 1
    /\ UNCHANGED <<signed, jar, request, session, loggedOut>>

Cookie(c) == IF clock < jar[c].until THEN jar[c].of ELSE 0

-----------------------------------------------------------------------------
(* api() of the page, and fetch.                                           *)
Make(i, kind) ==
    /\ request[i].at = "unmade"
    /\ \A j \in 1..(i - 1) : request[j].at # "unmade"
    /\ request' = [request EXCEPT ![i] = At("made",
            [Blank EXCEPT !.kind = kind,
                          !.header = IF kind = "read" THEN 0 ELSE Cookie("csrf_token")])]
    /\ UNCHANGED <<clock, signed, jar, session, loggedOut>>

Send(i) ==
    /\ request[i].at = "made"
    /\ request' = [request EXCEPT ![i] = At("sent",
            [@.r EXCEPT !.token = Cookie("token"), !.csrf = Cookie("csrf_token"),
                        !.user = IF request[i].r.kind = "login" THEN 0 ELSE session,
                        !.stale = request[i].r.kind # "login" /\ Cookie("token") \in loggedOut])]
    /\ UNCHANGED <<clock, signed, jar, session, loggedOut>>

Lose(i) ==
    /\ request[i].at \in {"sent", "answered"}
    /\ request' = [request EXCEPT ![i] = At("over", Blank)]
    /\ UNCHANGED <<clock, signed, jar, session, loggedOut>>

-----------------------------------------------------------------------------
(* The server.                                                             *)
verifyJWT(t) == clock < signed[t]

JWT(r)  == r.token # 0 /\ verifyJWT(r.token)
CSRF(r) == r.csrf # 0 /\ r.header = r.csrf

(* Of the request, what its answer is judged by.                           *)
Answer(i, status) ==
    LET r == request[i].r IN
    request' = [request EXCEPT ![i] = At("answered",
        [Blank EXCEPT !.kind = r.kind, !.status = status, !.stale = r.stale,
                      !.token = IF r.kind = "logout" THEN r.token ELSE 0])]

(* The rate limiter and the password may refuse it.                        *)
Login(i) ==
    \/ /\ Answer(i, 200)
       /\ signed' = [signed EXCEPT ![i] = clock + TokenExpire]
    \/ Answer(i, 401) /\ UNCHANGED signed

Protected(i) ==
    LET r == request[i].r IN
    /\ Answer(i, IF ~JWT(r) THEN 401 ELSE IF r.kind = "change" /\ ~CSRF(r) THEN 403 ELSE 200)
    /\ UNCHANGED signed

Handle(i) ==
    /\ request[i].at = "sent"
    /\ IF request[i].r.kind = "login" THEN Login(i) ELSE Protected(i)
    /\ UNCHANGED <<clock, jar, session, loggedOut>>

(* A process that starts has the secret of ADMIN_JWT_SECRET, or a new one. *)
LoadSecret ==
    /\ \E configured \in BOOLEAN :
        signed' = IF configured THEN signed ELSE [i \in Id |-> 0]
    /\ UNCHANGED <<clock, jar, request, session, loggedOut>>

-----------------------------------------------------------------------------
(* The answer is back: the cookies it sets, whose Max-Age counts from now. *)

(* Mutants of setAuthCookies and clearAuthCookies: hours taken for seconds;*)
(* the token is left.                                                      *)
setAuthCookiesShort(i) == [c \in Cookies |-> [of |-> i, until |-> clock]]
clearCSRFCookie == [jar EXCEPT !["csrf_token"] = NoCookie]

setAuthCookies(i) == [c \in Cookies |-> [of |-> i, until |-> clock + TokenExpire]]
clearAuthCookies == [c \in Cookies |-> NoCookie]

Overtake(j) ==
    IF request[j].at = "made" THEN [request[j] EXCEPT !.r.overtaken = TRUE] ELSE request[j]

Receive(i) ==
    LET r    == request[i].r
        over == At("over", Blank)
        setCookies(cookies, of) ==
            /\ jar' = cookies
            /\ session' = of
            /\ request' = [j \in Id |-> IF j = i THEN over ELSE Overtake(j)]
    IN
    /\ request[i].at = "answered"
    /\ CASE r.kind = "login" /\ r.status = 200 -> setCookies(setAuthCookies(i), i)
         [] r.kind = "logout" /\ r.status = 200 -> setCookies(clearAuthCookies, 0)
         [] OTHER -> request' = [request EXCEPT ![i] = over] /\ UNCHANGED <<jar, session>>
    /\ loggedOut' = IF r.kind = "logout" THEN loggedOut \cup ({r.token} \ {0}) ELSE loggedOut
    /\ UNCHANGED <<clock, signed>>

-----------------------------------------------------------------------------
(* Every variable of the session holds a value of its type.                *)
SessionTypeOK ==
    /\ clock \in 0..MaxHours
    /\ signed \in [Id -> 0..(MaxHours + TokenExpire)]
    /\ jar \in [Cookies -> [of : 0..Requests, until : 0..(MaxHours + TokenExpire)]]
    /\ request \in [Id -> [at : {"unmade", "made", "sent", "answered", "over"},
                            r : [kind : {"login", "logout", "read", "change"},
                                 header : 0..Requests, token : 0..Requests,
                                 csrf : 0..Requests, status : {0, 200, 401, 403},
                                 user : 0..Requests,
                                 stale : BOOLEAN, overtaken : BOOLEAN]]]
    /\ session \in 0..Requests /\ loggedOut \subseteq Id

(* When the page has the answer to a logout, whatever it says, the browser *)
(* sends no request that is served under that session: the cookies are     *)
(* gone, or the token was refused and stays so, across other tabs' logins, *)
(* answers that come late and restarts.  (The server itself still accepts  *)
(* the token.)                                                             *)
LogoutEnds ==
    \A i \in Id : request[i].r.stale => request[i].r.status # 200

(* Who has been told of a session and not of its end is refused only       *)
(* because the token has expired or its secret is gone, or because the     *)
(* cookies changed between the making of the request and its sending: the  *)
(* two cookies go together, and neither goes before the token.             *)
NoSpuriousRefusal ==
    [][\A i \in Id :
        LET r == request[i].r IN
        r.user # 0 /\ request'[i].r.status \in {401, 403}
            => ~verifyJWT(r.user) \/ r.overtaken]_request
=============================================================================
