-------------------------- MODULE SpeechRowsProofs --------------------------
(***************************************************************************)
(* Proofs about SpeechRows, for every set of apps, subjects, scopes,       *)
(* contents, readers, fields and values.                                   *)
(***************************************************************************)
EXTENDS SpeechRows, TLAPS

-----------------------------------------------------------------------------
(* The places a GET tries.                                                 *)
LEMMA ChainTyping ==
    ASSUME NEW place \in AppPlaces
    PROVE  /\ Chain(place)[1] = place
           /\ Chain(place)[2] = Place(place.app, place.subject, Global)
           /\ Chain(place)[3] = Place(Anyone, place.subject, Global)
           /\ \A i \in 1..3 : /\ Chain(place)[i] \in ProfilePlaces
                              /\ Chain(place)[i].subject = place.subject
                              /\ Chain(place)[i].app \in {place.app, Anyone}
<1>1. [place EXCEPT !.scope = Global] = Place(place.app, place.subject, Global)
  BY DEF AppPlaces, Place
<1>2. /\ Chain(place)[1] = place
      /\ Chain(place)[2] = Place(place.app, place.subject, Global)
      /\ Chain(place)[3] = Place(Anyone, place.subject, Global)
  BY <1>1 DEF Chain
<1>3. \A p \in {place, Place(place.app, place.subject, Global),
                Place(Anyone, place.subject, Global)} :
         /\ p \in ProfilePlaces
         /\ p.subject = place.subject
         /\ p.app \in {place.app, Anyone}
  BY ScopeConstant DEF AppPlaces, ProfilePlaces, Owners, Place
<1>4. \A i \in 1..3 : i = 1 \/ i = 2 \/ i = 3
  OBVIOUS
<1> QED BY <1>2, <1>3, <1>4

-----------------------------------------------------------------------------
(* The steps, one by one: what an invariant has to survive.                *)
LEMMA Steps ==
    ASSUME [Next]_vars
    PROVE  \/ /\ UNCHANGED localVars
              /\ \/ \E r \in Readers, p \in AppPlaces :
                       /\ reads[r].pc = "idle"
                       /\ reads' = [reads EXCEPT ![r] =
                                       [pc |-> "query", place |-> p, level |-> 1]]
                       /\ UNCHANGED <<profiles, overtaken>>
                 \/ \E r \in Readers : Find(r) \/ Miss(r) \/ Break(r) \/ EndRead(r)
                 \/ \E p \in ProfilePlaces, t \in Texts : Write(p, t)
                 \/ \E ps : /\ profiles' = Without(profiles, ps)
                            /\ UNCHANGED <<reads, overtaken>>
           \/ UNCHANGED vocabularyVars /\ LocalNext
           \/ \E a \in Apps : DeleteApp(a)
           \/ UNCHANGED vars
<1>1. CASE VocabularyNext /\ UNCHANGED <<localVars, registered>>
  <2>1. ASSUME NEW r \in Readers, NEW a \in Apps, NEW s \in Subjects,
               NEW asked \in Scopes \cup {Unscoped}, Ask(r, a, s, asked)
        PROVE  \E p \in AppPlaces :
                  /\ reads[r].pc = "idle"
                  /\ reads' = [reads EXCEPT ![r] =
                                  [pc |-> "query", place |-> p, level |-> 1]]
                  /\ UNCHANGED <<profiles, overtaken>>
    <3>1. Place(a, s, ScopeOf(asked)) \in AppPlaces
      BY ScopeConstant DEF Place, AppPlaces, ScopeOf
    <3> QED BY <3>1, <2>1 DEF Ask
  <2>2. ASSUME NEW a \in Apps, NEW s \in Subjects, NEW c \in Scopes, NEW t \in Texts,
               PutProfile(a, s, c, t)
        PROVE  \E p \in ProfilePlaces : Write(p, t)
    <3>1. Place(a, s, c) \in ProfilePlaces
      BY DEF Place, ProfilePlaces, Owners
    <3> QED BY <3>1, <2>2 DEF PutProfile
  <2>3. ASSUME NEW s \in Subjects, NEW t \in Texts, SeedProfile(s, t)
        PROVE  \E p \in ProfilePlaces : Write(p, t)
    <3>1. Place(Anyone, s, Global) \in ProfilePlaces
      BY ScopeConstant DEF Place, ProfilePlaces, Owners
    <3> QED BY <3>1, <2>3 DEF SeedProfile
  <2> QED BY <1>1, <2>1, <2>2, <2>3 DEF VocabularyNext, GetProfile, DeleteProfile
<1>2. CASE LocalNext /\ UNCHANGED <<vocabularyVars, registered>>
  BY <1>2
<1>3. CASE \E a \in Apps : DeleteApp(a)
  BY <1>3
<1> QED BY <1>1, <1>2, <1>3 DEF Next

-----------------------------------------------------------------------------
(* Types.                                                                  *)
LEMMA ReadTyping ==
    ASSUME NEW read \in AllReads
    PROVE  /\ read.pc = "query" => read.place \in AppPlaces /\ read.level \in 1..3
           /\ read.pc = "found" => read.place \in AppPlaces /\ read.content \in Contents
           /\ read.pc = "none" => read.place \in AppPlaces
BY DEF AllReads, IdleReads, QueryReads, FoundReads, NoneReads, ErrorReads

(* The outcome of a SELECT without a row.                                  *)
LEMMA MissTyping ==
    ASSUME VocabularyTypes, NEW r \in Readers, Miss(r)
    PROVE  /\ reads[r].place \in AppPlaces
           /\ reads[r].level \in 1..3
           /\ reads'[r] \in AllReads
           /\ \/ /\ reads[r].level < 3
                 /\ reads'[r].pc = "query"
                 /\ reads'[r].place = reads[r].place
                 /\ reads'[r].level = reads[r].level + 1
              \/ /\ reads[r].level = 3
                 /\ reads'[r].pc = "none"
<1>1. reads[r] \in QueryReads
  BY DEF Miss, VocabularyTypes, AllReads, IdleReads, QueryReads, FoundReads,
         NoneReads, ErrorReads
<1>2. reads'[r] = IF reads[r].level < 3 THEN [reads[r] EXCEPT !.level = @ + 1]
                  ELSE [pc |-> "none", place |-> reads[r].place]
  BY DEF Miss, VocabularyTypes
<1>3. CASE reads[r].level < 3
  <2>1. reads'[r] = [reads[r] EXCEPT !.level = @ + 1]
    BY <1>2, <1>3
  <2>2. reads'[r] \in QueryReads
    BY <1>1, <1>3, <2>1 DEF QueryReads
  <2> QED BY <1>1, <1>3, <2>1, <2>2 DEF QueryReads, AllReads
<1>4. CASE ~(reads[r].level < 3)
  <2>1. reads'[r] = [pc |-> "none", place |-> reads[r].place]
    BY <1>2, <1>4
  <2>2. reads'[r] \in NoneReads
    BY <1>1, <2>1 DEF QueryReads, NoneReads
  <2> QED BY <1>1, <1>4, <2>1, <2>2 DEF QueryReads, AllReads
<1> QED BY <1>3, <1>4

LEMMA VocabularyInitTypes == VocabularyInit => VocabularyTypes
<1> SUFFICES ASSUME VocabularyInit PROVE VocabularyTypes
  OBVIOUS
<1>1. [pc |-> "idle"] \in AllReads
  BY DEF AllReads, IdleReads
<1>2. DOMAIN profiles = {}
  BY DEF VocabularyInit
<1>3. profiles \in [DOMAIN profiles -> Contents]
  BY <1>2 DEF VocabularyInit
<1> QED BY <1>1, <1>2, <1>3 DEF VocabularyInit, VocabularyTypes

LEMMA VocabularyTypeStep == VocabularyTypes /\ [Next]_vars => VocabularyTypes'
<1> SUFFICES ASSUME VocabularyTypes, [Next]_vars PROVE VocabularyTypes'
  OBVIOUS
<1>1. ASSUME NEW r \in Readers, NEW p \in AppPlaces,
             reads' = [reads EXCEPT ![r] = [pc |-> "query", place |-> p, level |-> 1]],
             UNCHANGED <<profiles, overtaken>>
      PROVE  VocabularyTypes'
  <2>1. [pc |-> "query", place |-> p, level |-> 1] \in AllReads
    BY DEF AllReads, QueryReads
  <2> QED BY <1>1, <2>1 DEF VocabularyTypes
<1>2. ASSUME NEW r \in Readers, Find(r) PROVE VocabularyTypes'
  <2>1. reads[r].place \in AppPlaces
    BY <1>2, ReadTyping DEF Find, VocabularyTypes
  <2>2. profiles[Tried(r)] \in Contents
    BY <1>2 DEF Find, VocabularyTypes
  <2>3. [pc |-> "found", place |-> reads[r].place, content |-> profiles[Tried(r)]]
           \in AllReads
    BY <2>1, <2>2 DEF AllReads, FoundReads
  <2> QED BY <1>2, <2>3 DEF Find, VocabularyTypes
<1>3. ASSUME NEW r \in Readers, Miss(r) PROVE VocabularyTypes'
  BY <1>3, MissTyping DEF Miss, VocabularyTypes
<1>4. ASSUME NEW r \in Readers, Break(r) PROVE VocabularyTypes'
  <2>1. [pc |-> "error"] \in AllReads
    BY DEF AllReads, ErrorReads
  <2> QED BY <1>4, <2>1 DEF Break, VocabularyTypes
<1>5. ASSUME NEW r \in Readers, EndRead(r) PROVE VocabularyTypes'
  <2>1. [pc |-> "idle"] \in AllReads
    BY DEF AllReads, IdleReads
  <2> QED BY <1>5, <2>1 DEF EndRead, VocabularyTypes
<1>6. ASSUME NEW p \in ProfilePlaces, NEW t \in Texts, Write(p, t) PROVE VocabularyTypes'
  <2>1. [app |-> p.app, subject |-> p.subject, text |-> t] \in Contents
    BY DEF ProfilePlaces, Contents
  <2>2. /\ DOMAIN profiles' \subseteq ProfilePlaces
        /\ profiles' \in [DOMAIN profiles' -> Contents]
    BY <1>6, <2>1 DEF Write, With, VocabularyTypes
  <2> QED BY <1>6, <2>2 DEF Write, Overtaken, VocabularyTypes
<1>7. ASSUME NEW ps, profiles' = Without(profiles, ps), UNCHANGED <<reads, overtaken>>
      PROVE  VocabularyTypes'
  <2>1. /\ DOMAIN profiles' \subseteq ProfilePlaces
        /\ profiles' \in [DOMAIN profiles' -> Contents]
    BY <1>7 DEF Without, VocabularyTypes
  <2> QED BY <1>7, <2>1 DEF VocabularyTypes
<1>8. CASE UNCHANGED vocabularyVars
  BY <1>8 DEF vocabularyVars, VocabularyTypes
<1> QED BY <1>1, <1>2, <1>3, <1>4, <1>5, <1>6, <1>7, <1>8, Steps
        DEF DeleteApp, RemoveProfiles, vars, vocabularyVars

LEMMA LocalInitTypes == LocalInit => LocalTypes
<1> SUFFICES ASSUME LocalInit PROVE LocalTypes
  OBVIOUS
<1>1. DOMAIN configs = {}
  BY DEF LocalInit
<1>2. Unnamed \in [enabled : BOOLEAN \cup {Null}, columns : Columns]
  BY DEF Unnamed, NoColumns, Columns
<1> QED BY <1>1, <1>2 DEF LocalInit, LocalTypes

LEMMA UpdateTyping ==
    ASSUME NEW columns \in Columns, NEW update \in Updates
    PROVE  Updated(columns, update) \in Columns
BY DEF Updated, Updates, Columns

LEMMA ColumnsTyping ==
    ASSUME LocalTypes, NEW place
    PROVE  ColumnsOf(place) \in Columns /\ NoColumns \in Columns
BY DEF ColumnsOf, LocalTypes, Configs, NoColumns, Columns

(* A row goes in, and what was said of its place is noted.                 *)
LEMMA LocalWriteTypes ==
    ASSUME LocalTypes, NEW p \in AppPlaces, NEW e \in BOOLEAN,
           NEW columns \in Columns, NEW said \in Columns,
           configs' = With(configs, p, [enabled |-> e, columns |-> columns]),
           named' = [named EXCEPT ![p] = [enabled |-> e, columns |-> said]]
    PROVE  LocalTypes'
<1>1. [enabled |-> e, columns |-> columns] \in Configs
  BY DEF Configs
<1>2. /\ DOMAIN configs' \subseteq AppPlaces
      /\ configs' \in [DOMAIN configs' -> Configs]
  BY <1>1 DEF With, LocalTypes
<1>3. named' \in [AppPlaces -> [enabled : BOOLEAN \cup {Null}, columns : Columns]]
  BY DEF LocalTypes
<1> QED BY <1>2, <1>3 DEF LocalTypes

LEMMA LocalTypeStep == LocalTypes /\ [Next]_vars => LocalTypes'
<1> SUFFICES ASSUME LocalTypes, [Next]_vars PROVE LocalTypes'
  OBVIOUS
<1>0. Unnamed \in [enabled : BOOLEAN \cup {Null}, columns : Columns]
  BY DEF Unnamed, NoColumns, Columns
<1>1. ASSUME NEW p \in AppPlaces, NEW e \in BOOLEAN, NEW u \in Updates,
             PutConfig(p, e, u)
      PROVE  LocalTypes'
  <2>1. Updated(ColumnsOf(p), u) \in Columns
    BY UpdateTyping, ColumnsTyping
  <2>2. named[p].columns \in Columns
    BY DEF LocalTypes
  <2>3. Updated(named[p].columns, u) \in Columns
    BY <2>2, UpdateTyping
  <2> QED BY <1>1, <2>1, <2>3, LocalWriteTypes DEF PutConfig, Updated, LocalTypes
<1>2. ASSUME NEW p \in AppPlaces, NEW e \in BOOLEAN, ResetConfig(p, e)
      PROVE  LocalTypes'
  BY <1>2, ColumnsTyping, LocalWriteTypes DEF ResetConfig, ResetRow
<1>3. ASSUME NEW p \in AppPlaces, DeleteConfig(p) PROVE LocalTypes'
  BY <1>0, <1>3 DEF DeleteConfig, Without, LocalTypes
<1>4. ASSUME NEW a \in Apps, RemoveConfigs(a) PROVE LocalTypes'
  BY <1>0, <1>4 DEF RemoveConfigs, Without, LocalTypes
<1>5. CASE UNCHANGED localVars
  BY <1>5 DEF localVars, LocalTypes
<1> QED BY <1>1, <1>2, <1>3, <1>4, <1>5, Steps
        DEF LocalNext, DeleteApp, vars, localVars

(* Every variable keeps its type.                                          *)
THEOREM TypeCorrect == Spec => []TypeOK
<1>1. Init => TypeOK
  BY VocabularyInitTypes, LocalInitTypes DEF Init, TypeOK
<1>2. TypeOK /\ [Next]_vars => TypeOK'
  <2>1. registered \subseteq Apps /\ [Next]_vars => registered' \subseteq Apps
    BY DEF Next, DeleteApp, vars
  <2> QED BY <2>1, VocabularyTypeStep, LocalTypeStep DEF TypeOK
<1> QED BY <1>1, <1>2, PTL DEF Spec

-----------------------------------------------------------------------------
(* Isolation: a profile lies where the one it was put for is looked up.    *)
OwnProfiles ==
    \A p \in DOMAIN profiles :
        profiles[p].app = p.app /\ profiles[p].subject = p.subject

OwnInv == VocabularyTypes /\ OwnProfiles /\ NothingForeign

LEMMA OwnStep == OwnInv /\ [Next]_vars => OwnInv'
<1> SUFFICES ASSUME OwnInv, [Next]_vars PROVE OwnProfiles' /\ NothingForeign'
  BY VocabularyTypeStep DEF OwnInv
<1> USE DEF OwnInv
<1>1. ASSUME NEW r \in Readers, NEW p \in AppPlaces,
             reads' = [reads EXCEPT ![r] = [pc |-> "query", place |-> p, level |-> 1]],
             UNCHANGED <<profiles, overtaken>>
      PROVE  OwnProfiles' /\ NothingForeign'
  BY <1>1 DEF OwnProfiles, NothingForeign, VocabularyTypes
<1>2. ASSUME NEW r \in Readers, Find(r) PROVE OwnProfiles' /\ NothingForeign'
  <2>1. /\ reads[r].place \in AppPlaces
        /\ reads[r].level \in 1..3
    BY <1>2, ReadTyping DEF Find, VocabularyTypes
  <2>2. /\ Tried(r).subject = reads[r].place.subject
        /\ Tried(r).app \in {reads[r].place.app, Anyone}
    BY <2>1, ChainTyping DEF Tried
  <2>3. /\ profiles[Tried(r)].subject = reads[r].place.subject
        /\ profiles[Tried(r)].app \in {reads[r].place.app, Anyone}
    BY <1>2, <2>2 DEF Find, OwnProfiles
  <2> QED BY <1>2, <2>3 DEF Find, OwnProfiles, NothingForeign, VocabularyTypes
<1>3. ASSUME NEW r \in Readers, Miss(r) \/ Break(r) \/ EndRead(r)
      PROVE  OwnProfiles' /\ NothingForeign'
  <2>1. reads'[r].pc # "found"
    <3>1. CASE Miss(r)
      BY <3>1, MissTyping
    <3>2. CASE Break(r) \/ EndRead(r)
      BY <3>2 DEF Break, EndRead, VocabularyTypes
    <3> QED BY <1>3, <3>1, <3>2
  <2>2. UNCHANGED profiles /\ \A q \in Readers \ {r} : reads'[q] = reads[q]
    BY <1>3 DEF Miss, Break, EndRead, VocabularyTypes
  <2> QED BY <2>1, <2>2 DEF OwnProfiles, NothingForeign
<1>4. ASSUME NEW p \in ProfilePlaces, NEW t \in Texts, Write(p, t)
      PROVE  OwnProfiles' /\ NothingForeign'
  BY <1>4 DEF Write, With, OwnProfiles, NothingForeign
<1>5. ASSUME NEW ps, profiles' = Without(profiles, ps), UNCHANGED <<reads, overtaken>>
      PROVE  OwnProfiles' /\ NothingForeign'
  BY <1>5 DEF Without, OwnProfiles, NothingForeign
<1>6. CASE UNCHANGED vocabularyVars
  BY <1>6 DEF vocabularyVars, OwnProfiles, NothingForeign
<1> QED BY <1>1, <1>2, <1>3, <1>4, <1>5, <1>6, Steps
        DEF DeleteApp, RemoveProfiles, vars, vocabularyVars

(* No GET shows a content put for another subject or by another app.       *)
THEOREM Isolation == Spec => []NothingForeign
<1>1. Init => OwnInv
  BY VocabularyInitTypes
     DEF Init, VocabularyInit, OwnInv, OwnProfiles, NothingForeign
<1>2. OwnInv => NothingForeign
  BY DEF OwnInv
<1> QED BY <1>1, <1>2, OwnStep, PTL DEF Spec

-----------------------------------------------------------------------------
(* Priority: what a GET found empty stays empty until it is overtaken.     *)
EmptyStays ==
    \A r \in Readers :
        (reads[r].pc = "query" /\ r \notin overtaken)
          => FoundEmpty(reads[r]) \cap DOMAIN profiles = {}

ChainInv == VocabularyTypes /\ EmptyStays

LEMMA ChainStep == ChainInv /\ [Next]_vars => ChainInv'
<1> SUFFICES ASSUME ChainInv, [Next]_vars PROVE EmptyStays'
  BY VocabularyTypeStep DEF ChainInv
<1> USE DEF ChainInv
<1>1. ASSUME NEW r \in Readers, NEW p \in AppPlaces,
             reads' = [reads EXCEPT ![r] = [pc |-> "query", place |-> p, level |-> 1]],
             UNCHANGED <<profiles, overtaken>>
      PROVE  EmptyStays'
  <2>1. FoundEmpty(reads'[r]) = {}
    BY <1>1 DEF FoundEmpty, VocabularyTypes
  <2>2. \A q \in Readers \ {r} : reads'[q] = reads[q]
    BY <1>1 DEF VocabularyTypes
  <2> QED BY <1>1, <2>1, <2>2 DEF EmptyStays, FoundEmpty
<1>2. ASSUME NEW r \in Readers, Miss(r) PROVE EmptyStays'
  <2>1. \A q \in Readers \ {r} : reads'[q] = reads[q]
    BY <1>2 DEF Miss, VocabularyTypes
  <2>2. ASSUME reads'[r].pc = "query", r \notin overtaken
        PROVE  FoundEmpty(reads'[r]) \cap DOMAIN profiles = {}
    <3>1. /\ reads[r].level < 3
          /\ reads[r].level \in 1..3
          /\ reads'[r].place = reads[r].place
          /\ reads'[r].level = reads[r].level + 1
      BY <1>2, <2>2, MissTyping
    <3>2. FoundEmpty(reads'[r]) = FoundEmpty(reads[r]) \cup {Tried(r)}
      BY <3>1 DEF FoundEmpty, Tried
    <3> QED BY <1>2, <2>2, <3>2 DEF Miss, EmptyStays
  <2> QED BY <1>2, <2>1, <2>2 DEF Miss, EmptyStays, FoundEmpty
<1>3. ASSUME NEW r \in Readers, Find(r) \/ Break(r) \/ EndRead(r) PROVE EmptyStays'
  <2>1. reads'[r].pc # "query"
    BY <1>3 DEF Find, Break, EndRead, VocabularyTypes
  <2>2. /\ UNCHANGED profiles
        /\ \A q \in Readers \ {r} : /\ reads'[q] = reads[q]
                                     /\ (q \in overtaken' <=> q \in overtaken)
    BY <1>3 DEF Find, Break, EndRead, VocabularyTypes
  <2> QED BY <2>1, <2>2 DEF EmptyStays, FoundEmpty
<1>4. ASSUME NEW p \in ProfilePlaces, NEW t \in Texts, Write(p, t) PROVE EmptyStays'
  <2>1. DOMAIN profiles' = DOMAIN profiles \cup {p}
    BY <1>4 DEF Write, With
  <2>2. \A r \in Readers :
           (reads[r].pc = "query" /\ r \notin overtaken') => p \notin FoundEmpty(reads[r])
    BY <1>4 DEF Write, Overtaken
  <2> QED BY <1>4, <2>1, <2>2 DEF Write, EmptyStays, FoundEmpty
<1>5. ASSUME NEW ps, profiles' = Without(profiles, ps), UNCHANGED <<reads, overtaken>>
      PROVE  EmptyStays'
  <2>1. DOMAIN profiles' \subseteq DOMAIN profiles
    BY <1>5 DEF Without
  <2> QED BY <1>5, <2>1 DEF EmptyStays, FoundEmpty
<1>6. CASE UNCHANGED vocabularyVars
  BY <1>6 DEF vocabularyVars, EmptyStays, FoundEmpty
<1> QED BY <1>1, <1>2, <1>3, <1>4, <1>5, <1>6, Steps
        DEF DeleteApp, RemoveProfiles, vars, vocabularyVars

(* The choice among the places of the chain, when those before are empty.  *)
LEMMA ChoiceAlongChain ==
    ASSUME NEW place \in AppPlaces, NEW level \in 1..3,
           \A i \in 1..(level - 1) : Chain(place)[i] \notin DOMAIN profiles
    PROVE  /\ Chain(place)[level] \in DOMAIN profiles
                 => Choice(place) = {profiles[Chain(place)[level]]}
           /\ level = 3 /\ Chain(place)[3] \notin DOMAIN profiles => Choice(place) = {}
<1> DEFINE first  == Chain(place)[1]
           second == Chain(place)[2]
           third  == Chain(place)[3]
           of(p)  == {profiles[q] : q \in {p} \cap DOMAIN profiles}
<1>1. Choice(place) = IF of(first) # {} THEN of(first)
                      ELSE IF of(second) # {} THEN of(second) ELSE of(third)
  BY ChainTyping DEF Choice
<1>2. \A p : /\ p \in DOMAIN profiles => of(p) = {profiles[p]}
             /\ p \notin DOMAIN profiles => of(p) = {}
  OBVIOUS
<1> HIDE DEF of
<1>3. CASE level = 1
  BY <1>1, <1>2, <1>3
<1>4. CASE level = 2
  <2>1. first \notin DOMAIN profiles
    BY <1>4
  <2> QED BY <1>1, <1>2, <1>4, <2>1
<1>5. CASE level = 3
  <2>1. first \notin DOMAIN profiles /\ second \notin DOMAIN profiles
    BY <1>5
  <2> QED BY <1>1, <1>2, <1>5, <2>1
<1> QED BY <1>3, <1>4, <1>5

LEMMA AnswerIsChoice ==
    ASSUME ChainInv, [Next]_vars, NEW r \in Readers,
           reads[r].pc = "query", Answered(reads'[r]), r \notin overtaken
    PROVE  Answer(reads'[r]) = Choice(reads[r].place)
<1>1. reads[r].place \in AppPlaces /\ reads[r].level \in 1..3
  BY ReadTyping DEF ChainInv, VocabularyTypes
<1>2. \A i \in 1..(reads[r].level - 1) :
         Chain(reads[r].place)[i] \notin DOMAIN profiles
  BY DEF ChainInv, EmptyStays, FoundEmpty
<1>3. CASE Find(r)
  <2>1. Answer(reads'[r]) = {profiles[Tried(r)]} /\ Tried(r) \in DOMAIN profiles
    BY <1>3 DEF Find, Answer, ChainInv, VocabularyTypes
  <2> QED BY <1>1, <1>2, <2>1, ChoiceAlongChain DEF Tried
<1>4. CASE Miss(r)
  <2>1. reads[r].level = 3 /\ Answer(reads'[r]) = {}
    BY <1>4, MissTyping DEF Answered, Answer, ChainInv
  <2>2. Chain(reads[r].place)[3] \notin DOMAIN profiles
    BY <1>4, <2>1 DEF Miss, Tried
  <2> QED BY <1>1, <1>2, <2>1, <2>2, ChoiceAlongChain
<1>5. Find(r) \/ Miss(r)
  <2>1. reads'[r] # reads[r]
    BY DEF Answered
  <2>2. ASSUME NEW q \in Readers, NEW p \in AppPlaces,
               reads' = [reads EXCEPT ![q] = [pc |-> "query", place |-> p, level |-> 1]]
        PROVE  FALSE
    BY <2>1, <2>2 DEF Answered, ChainInv, VocabularyTypes
  <2>3. ASSUME NEW q \in Readers, Find(q) \/ Miss(q) \/ Break(q) \/ EndRead(q)
        PROVE  Find(r) \/ Miss(r)
    <3>1. q = r
      BY <2>1, <2>3 DEF Find, Miss, Break, EndRead, ChainInv, VocabularyTypes
    <3>2. ~Break(r) /\ ~EndRead(r)
      BY DEF Break, EndRead, Answered, ChainInv, VocabularyTypes
    <3> QED BY <2>3, <3>1, <3>2
  <2>4. ~ UNCHANGED reads
    BY <2>1
  <2> QED BY <2>2, <2>3, <2>4, Steps
          DEF Write, vocabularyVars, vars, DeleteApp, RemoveProfiles
<1> QED BY <1>3, <1>4, <1>5

(* The answer of a GET is the one of highest priority at its last SELECT,  *)
(* unless a profile was put meanwhile where it had found none.             *)
THEOREM PriorityHolds == Spec => ChosenByPriority
<1>1. Init => ChainInv
  BY VocabularyInitTypes DEF Init, VocabularyInit, ChainInv, EmptyStays
<1>2. ASSUME ChainInv, [Next]_vars
      PROVE  [\A r \in Readers :
                 (reads[r].pc = "query" /\ Answered(reads'[r]) /\ r \notin overtaken)
                   => Answer(reads'[r]) = Choice(reads[r].place)]_vocabularyVars
  BY <1>2, AnswerIsChoice
<1> QED BY <1>1, <1>2, ChainStep, PTL DEF Spec, ChosenByPriority

-----------------------------------------------------------------------------
(* The local configurations: a row holds what was said of its place.       *)
RowsAsNamed ==
    \A p \in AppPlaces :
        IF p \in DOMAIN configs
        THEN /\ named[p].enabled = configs[p].enabled
             /\ named[p].columns = configs[p].columns
        ELSE named[p] = Unnamed

NamedInv == LocalTypes /\ RowsAsNamed

LEMMA NamedStep == NamedInv /\ [Next]_vars => NamedInv'
<1> SUFFICES ASSUME NamedInv, [Next]_vars PROVE RowsAsNamed'
  BY LocalTypeStep DEF NamedInv
<1> USE DEF NamedInv
<1>1. ASSUME NEW p \in AppPlaces, NEW e \in BOOLEAN, NEW u \in Updates,
             PutConfig(p, e, u)
      PROVE  RowsAsNamed'
  <2>1. named[p].columns = ColumnsOf(p)
    BY DEF RowsAsNamed, ColumnsOf, Unnamed
  <2>2. /\ configs'[p].enabled = e
        /\ configs'[p].columns = Updated(ColumnsOf(p), u)
        /\ DOMAIN configs' = DOMAIN configs \cup {p}
        /\ \A q \in DOMAIN configs \ {p} : configs'[q] = configs[q]
    BY <1>1 DEF PutConfig, With
  <2>3. /\ named'[p].enabled = e
        /\ named'[p].columns = Updated(named[p].columns, u)
        /\ \A q \in AppPlaces \ {p} : named'[q] = named[q]
    BY <1>1 DEF PutConfig, Updated, LocalTypes
  <2> QED BY <2>1, <2>2, <2>3 DEF RowsAsNamed
<1>2. ASSUME NEW p \in AppPlaces, NEW e \in BOOLEAN, ResetConfig(p, e)
      PROVE  RowsAsNamed'
  BY <1>2 DEF ResetConfig, ResetRow, With, RowsAsNamed, LocalTypes
<1>3. ASSUME NEW p \in AppPlaces, DeleteConfig(p) PROVE RowsAsNamed'
  BY <1>3 DEF DeleteConfig, Without, RowsAsNamed, LocalTypes
<1>4. ASSUME NEW a \in Apps, RemoveConfigs(a) PROVE RowsAsNamed'
  BY <1>4 DEF RemoveConfigs, OfApp, Without, RowsAsNamed, LocalTypes
<1>5. CASE UNCHANGED localVars
  BY <1>5 DEF localVars, RowsAsNamed
<1> QED BY <1>1, <1>2, <1>3, <1>4, <1>5, Steps
        DEF LocalNext, DeleteApp, vars, localVars

LEMMA NamedCounts == NamedInv => LastNamedCounts
<1> SUFFICES ASSUME NamedInv, NEW p \in AppPlaces
    PROVE  /\ Query(configs, p).enabled =
                 IF named[p].enabled = Null THEN DefaultEnabled ELSE named[p].enabled
           /\ \A f \in Fields : Query(configs, p).fields[f] =
                 IF named[p].columns[f] = Null THEN Defaults[f] ELSE named[p].columns[f]
  BY DEF LastNamedCounts
<1>1. CASE p \in DOMAIN configs
  <2>1. /\ named[p].enabled = configs[p].enabled
        /\ named[p].columns = configs[p].columns
        /\ configs[p].enabled \in BOOLEAN
    BY <1>1 DEF NamedInv, RowsAsNamed, LocalTypes, Configs
  <2>2. named[p].enabled # Null
    BY <2>1, DefaultConstants, Zenon
  <2>3. Query(configs, p) = [enabled |-> configs[p].enabled,
                             fields |-> Effective(configs[p].columns)]
    BY <1>1 DEF Query
  <2> QED BY <2>1, <2>2, <2>3 DEF Effective
<1>2. CASE p \notin DOMAIN configs
  <2>1. named[p] = Unnamed
    BY <1>2 DEF NamedInv, RowsAsNamed
  <2>2. Query(configs, p) = [enabled |-> DefaultEnabled, fields |-> Defaults]
    BY <1>2 DEF Query
  <2> QED BY <2>1, <2>2 DEF Unnamed, NoColumns
<1> QED BY <1>1, <1>2

(* No partial update loses a field it does not name, in any order of       *)
(* updates, resets and deletes.                                            *)
THEOREM UpdatesAreKept == Spec => []LastNamedCounts
<1>1. Init => NamedInv
  BY LocalInitTypes DEF Init, LocalInit, NamedInv, RowsAsNamed
<1> QED BY <1>1, NamedStep, NamedCounts, PTL DEF Spec

(* The answer of a reset, for which the row is not read, is what a query   *)
(* will say, whatever was in the table before: NULL in every column and    *)
(* the defaults of the configuration come to the same.                     *)
THEOREM ResetIsTrue == Spec => []ResetTellsTheTruth
<1>1. ASSUME NEW p \in AppPlaces, NEW e \in BOOLEAN
      PROVE  Query(With(configs, p, ResetRow(p, e)), p) = ResetAnswer(e)
  <2>1. /\ p \in DOMAIN With(configs, p, ResetRow(p, e))
        /\ With(configs, p, ResetRow(p, e))[p] = [enabled |-> e, columns |-> NoColumns]
    BY DEF With, ResetRow
  <2>2. Effective(NoColumns) = Defaults
    BY DefaultConstants DEF Effective, NoColumns
  <2> QED BY <2>1, <2>2 DEF Query, ResetAnswer
<1>2. ResetTellsTheTruth
  BY <1>1 DEF ResetTellsTheTruth
<1> QED BY <1>2, PTL
=============================================================================
