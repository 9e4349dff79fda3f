----------------------------- MODULE Vocabulary -----------------------------
(***************************************************************************)
(* The vocabulary profiles: internal/api/vocabulary.go over                *)
(* internal/store/vocabulary.go.  PUT and DELETE are one statement each.   *)
(* GET looks in the scope asked for, in the subject's global scope, and    *)
(* among the profiles of app '*', with one SELECT after the other and no   *)
(* transaction: the table changes in between.                              *)
(*                                                                         *)
(* Nothing in the repository writes the rows of app '*'; whoever runs the  *)
(* service puts them in the database.                                      *)
(***************************************************************************)
EXTENDS ScopedKeys

CONSTANTS Anyone,     \* the app id '*'
          Unscoped,   \* a GET or DELETE that names no scope
          Texts,      \* contents that pass the checks of PUT
          Readers     \* GET requests in flight

ASSUME AnyoneIsNoApp == Anyone \notin Apps

VARIABLES
    profiles,    \* vocabulary_profile
    reads,       \* the GETs in QueryWithPriority
    overtaken    \* history: GETs for which a place found empty was filled since

vocabularyVars == <<profiles, reads, overtaken>>

Owners == Apps \cup {Anyone}
ProfilePlaces == [app : Owners, subject : Subjects, scope : Scopes]

(* A content tells for whom it was put.                                    *)
Contents == [app : Owners, subject : Subjects, text : Texts]

IdleReads  == [pc : {"idle"}]
QueryReads == [pc : {"query"}, place : AppPlaces, level : 1..3]
FoundReads == [pc : {"found"}, place : AppPlaces, content : Contents]
NoneReads  == [pc : {"none"}, place : AppPlaces]
ErrorReads == [pc : {"error"}]
AllReads   == IdleReads \cup QueryReads \cup FoundReads \cup NoneReads \cup ErrorReads

VocabularyInit ==
    /\ profiles = [p \in {} |-> {}]
    /\ reads = [r \in Readers |-> [pc |-> "idle"]]
    /\ overtaken = {}

-----------------------------------------------------------------------------
(* Mutant of Chain: the global profile shadows the one of the scope.       *)
ChainGlobalFirst(place) ==
    <<[place EXCEPT !.scope = Global], place, Place(Anyone, place.subject, Global)>>

(* Where QueryWithPriority looks, in this order.                           *)
Chain(place) ==
    <<place, [place EXCEPT !.scope = Global], Place(Anyone, place.subject, Global)>>

FoundEmpty(read) == {Chain(read.place)[i] : i \in 1..(read.level - 1)}

Overtaken(place) ==
    {r \in Readers : reads[r].pc = "query" /\ place \in FoundEmpty(reads[r])}

(* Mutant of ScopeOf: the default is forgotten.                            *)
ScopeAsAsked(asked) == asked

(* No scope type and no scope id: both get their default.                  *)
ScopeOf(asked) == IF asked = Unscoped THEN Global ELSE asked

Ask(r, app, subject, asked) ==
    /\ reads[r].pc = "idle"
    /\ reads' = [reads EXCEPT ![r] =
                    [pc |-> "query", place |-> Place(app, subject, ScopeOf(asked)),
                     level |-> 1]]
    /\ UNCHANGED <<profiles, overtaken>>

Tried(r) == Chain(reads[r].place)[reads[r].level]

Find(r) ==
    /\ reads[r].pc = "query"
    /\ Tried(r) \in DOMAIN profiles
    /\ reads' = [reads EXCEPT ![r] = [pc |-> "found", place |-> reads[r].place,
                                      content |-> profiles[Tried(r)]]]
    /\ UNCHANGED <<profiles, overtaken>>

(* sql.ErrNoRows goes on to the next SELECT, after the last one to none.   *)
Miss(r) ==
    /\ reads[r].pc = "query"
    /\ Tried(r) \notin DOMAIN profiles
    /\ reads' = [reads EXCEPT ![r] =
                    IF reads[r].level < 3 THEN [reads[r] EXCEPT !.level = @ + 1]
                    ELSE [pc |-> "none", place |-> reads[r].place]]
    /\ UNCHANGED <<profiles, overtaken>>

(* Any other error ends the query.                                         *)
Break(r) ==
    /\ reads[r].pc = "query"
    /\ reads' = [reads EXCEPT ![r] = [pc |-> "error"]]
    /\ UNCHANGED <<profiles, overtaken>>

EndRead(r) ==
    /\ reads[r].pc \in {"found", "none", "error"}
    /\ reads' = [reads EXCEPT ![r] = [pc |-> "idle"]]
    /\ overtaken' = overtaken \ {r}
    /\ UNCHANGED profiles

-----------------------------------------------------------------------------
(* Mutant of Write: the unique key lacks the app.                          *)
WriteForAllApps(place, text) ==
    /\ profiles' = [p \in DOMAIN profiles \cup {place} |->
                      IF p.subject = place.subject /\ p.scope = place.scope
                      THEN [app |-> place.app, subject |-> place.subject, text |-> text]
                      ELSE profiles[p]]
    /\ overtaken' = overtaken \cup Overtaken(place)
    /\ UNCHANGED reads

(* A write takes effect whether or not its result arrives; one that fails  *)
(* changes nothing.                                                        *)
Write(place, text) ==
    /\ profiles' = With(profiles, place,
                        [app |-> place.app, subject |-> place.subject, text |-> text])
    /\ overtaken' = overtaken \cup Overtaken(place)
    /\ UNCHANGED reads

PutProfile(app, subject, scope, text) == Write(Place(app, subject, scope), text)

DeleteProfile(app, subject, asked) ==
    /\ profiles' = Without(profiles, {Place(app, subject, ScopeOf(asked))})
    /\ UNCHANGED <<reads, overtaken>>

SeedProfile(subject, text) == Write(Place(Anyone, subject, Global), text)

RemoveProfiles(app) ==
    /\ profiles' = Without(profiles, OfApp(profiles, app))
    /\ UNCHANGED <<reads, overtaken>>

GetProfile(r) ==
    \/ \E a \in Apps, s \in Subjects, asked \in Scopes \cup {Unscoped} :
          Ask(r, a, s, asked)
    \/ Find(r)
    \/ Miss(r)
    \/ Break(r)
    \/ EndRead(r)

VocabularyNext ==
    \/ \E r \in Readers : GetProfile(r)
    \/ \E a \in Apps, s \in Subjects, c \in Scopes, t \in Texts : PutProfile(a, s, c, t)
    \/ \E a \in Apps, s \in Subjects, asked \in Scopes \cup {Unscoped} :
          DeleteProfile(a, s, asked)
    \/ \E s \in Subjects, t \in Texts : SeedProfile(s, t)

-----------------------------------------------------------------------------
(* Every variable keeps its type.                                          *)
VocabularyTypes ==
    /\ DOMAIN profiles \subseteq ProfilePlaces
    /\ profiles \in [DOMAIN profiles -> Contents]
    /\ reads \in [Readers -> AllReads]
    /\ overtaken \subseteq Readers

(* What the priority of the scopes makes of one state of the table: no     *)
(* content, or one.                                                        *)
Choice(place) ==
    LET global == Place(place.app, place.subject, Global)
        common == Place(Anyone, place.subject, Global)
        of(p)  == {profiles[q] : q \in {p} \cap DOMAIN profiles}
    IN  IF of(place) # {} THEN of(place)
        ELSE IF of(global) # {} THEN of(global) ELSE of(common)

Answered(read) == read.pc \in {"found", "none"}
Answer(read) == IF read.pc = "found" THEN {read.content} ELSE {}

(* The three SELECTs of a GET are no snapshot, but its answer is the one   *)
(* the priority makes of the table at the last of them, unless meanwhile a *)
(* profile was put where the GET had already looked.  Profiles that are    *)
(* deleted, replaced, or put further down the chain never mislead it.      *)
ChosenByPriority ==
    [][\A r \in Readers :
          (reads[r].pc = "query" /\ Answered(reads'[r]) /\ r \notin overtaken)
            => Answer(reads'[r]) = Choice(reads[r].place)]_vocabularyVars

(* A GET never shows a content that was put for another subject, or by     *)
(* another app than the one authenticated, those of app '*' excepted.      *)
NothingForeign ==
    \A r \in Readers :
        reads[r].pc = "found" =>
            /\ reads[r].content.subject = reads[r].place.subject
            /\ reads[r].content.app \in {reads[r].place.app, Anyone}
=============================================================================
