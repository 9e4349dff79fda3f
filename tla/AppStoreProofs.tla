--------------------------- MODULE AppStoreProofs ---------------------------
(***************************************************************************)
(* Theorems about AppStore for every number of stores, apps, keys and      *)
(* requests, and for every TTL, size limit and delay.                      *)
(***************************************************************************)
EXTENDS AppStore, FiniteSetTheorems, TLAPS

CallTypes == /\ Idle \in IdleCalls
             /\ \A c \in AllCalls :
                  /\ c.pc = "query" => c \in QueryCalls
                  /\ c.pc = "fill" => c \in FillCalls
                  /\ c.pc = "handler" => c \in HandleCalls
                  /\ c.pc = "forbidden" => c \in DeniedCalls
                  /\ c.pc = "unauthorized" => c \in UnknownCalls
                  /\ c.pc \in {"idle", "query", "fill", "handler",
                               "forbidden", "unauthorized", "error"}

LEMMA CallTyping == CallTypes
<1>1. Idle \in IdleCalls
  BY DEF Idle, IdleCalls
<1>2. ASSUME NEW c \in AllCalls
      PROVE  /\ c.pc = "query" => c \in QueryCalls
             /\ c.pc = "fill" => c \in FillCalls
             /\ c.pc = "handler" => c \in HandleCalls
             /\ c.pc = "forbidden" => c \in DeniedCalls
             /\ c.pc = "unauthorized" => c \in UnknownCalls
             /\ c.pc \in {"idle", "query", "fill", "handler",
                          "forbidden", "unauthorized", "error"}
  BY <1>2 DEF AllCalls, IdleCalls, QueryCalls, FillCalls, HandleCalls,
              DeniedCalls, UnknownCalls, ErrorCalls
<1> QED BY <1>1, <1>2 DEF CallTypes

(* The answer of the middleware is a call state of its own.                *)
LEMMA AnswerType ==
    ASSUME now \in Nat, NEW k \in Keys, NEW i \in Infos
    PROVE  /\ Answer(k, i) \in AllCalls
           /\ Answer(k, i).pc \in {"handler", "forbidden"}
           /\ Answer(k, i).key = k
           /\ Answer(k, i).info = i
           /\ Answer(k, i).pc = "handler" => /\ i.status = 1
                                             /\ Answer(k, i).since = now
BY DEF Answer, AllCalls, HandleCalls, DeniedCalls, Infos, Statuses

-----------------------------------------------------------------------------
(* The statements keep the table a table.                                  *)
LEMMA InsertType ==
    ASSUME NEW t, IsTable(t), NEW a \in Apps, NEW k \in Keys
    PROVE  IsTable(Insert(t, a, k))
BY DEF IsTable, Insert, Rows, Statuses

LEMMA SetStatusType ==
    ASSUME NEW t, IsTable(t), NEW a \in Apps, NEW s \in Statuses
    PROVE  IsTable(SetStatus(t, a, s))
BY DEF IsTable, SetStatus, Rows, Statuses

LEMMA SetKeyType ==
    ASSUME NEW t, IsTable(t), NEW a \in Apps, NEW k \in Keys
    PROVE  IsTable(SetKey(t, a, k))
BY DEF IsTable, SetKey, Rows, Statuses

LEMMA RemoveType ==
    ASSUME NEW t, IsTable(t), NEW a \in Apps
    PROVE  IsTable(Remove(t, a))
BY DEF IsTable, Remove, Rows

LEMMA NoEntriesType == IsCache(NoEntries)
BY DEF IsCache, NoEntries

LEMMA WithEntryType ==
    ASSUME NEW f, IsCache(f), NEW k \in Keys, NEW e \in Entries
    PROVE  IsCache(WithEntry(f, k, e))
BY DEF IsCache, WithEntry

LEMMA MadeRoomType ==
    ASSUME NEW f, IsCache(f), NEW room \in MadeRoom(f)
    PROVE  /\ IsCache(room)
           /\ DOMAIN room \subseteq DOMAIN f
           /\ \A k \in DOMAIN room : room[k] = f[k]
BY DEF IsCache, MadeRoom, WithoutKey

LEMMA NeverType == Never \in Int /\ Staleness \in Nat
BY StoreConstants DEF Never, Staleness

LEMMA ChangeType ==
    ASSUME NEW new, IsTable(new), Change(new), TypeOK
    PROVE  IsTable(registry)' /\ (leftAt \in [Keys -> [Infos -> Int]])'
BY DEF Change, TypeOK

LEMMA ChangedType ==
    ASSUME NEW op \in Admins, NEW s \in AdminStores, NEW lost, Changed(op, s, lost),
           TypeOK
    PROVE  (ops \in [Admins -> IdleOps \cup PendingOps])'
BY DEF Changed, TypeOK, IdleOps, PendingOps, Idle

(* A call that only changes its own state to one of the allowed ones.      *)
LEMMA CallStepType ==
    ASSUME TypeOK, NEW c \in Calls, NEW new \in AllCalls,
           calls' = [calls EXCEPT ![c] = new]
    PROVE  (calls \in [Calls -> AllCalls])'
BY DEF TypeOK

LEMMA TypeInit == Init => TypeOK
<1> SUFFICES ASSUME Init PROVE TypeOK
  OBVIOUS
<1>1. IsTable(registry)
  BY DEF Init, IsTable
<1>2. DOMAIN cache = Stores /\ \A s \in Stores : IsCache(cache[s])
  BY NoEntriesType DEF Init
<1>3. calls \in [Calls -> AllCalls]
  BY DEF Init, AllCalls, IdleCalls, Idle
<1>4. ops \in [Admins -> IdleOps \cup PendingOps]
  BY DEF Init, IdleOps, Idle
<1>5. leftAt \in [Keys -> [Infos -> Int]]
  BY NeverType DEF Init
<1> QED BY <1>1, <1>2, <1>3, <1>4, <1>5 DEF Init, TypeOK

LEMMA TypeStep == TypeOK /\ [Next]_vars => TypeOK'
<1> SUFFICES ASSUME TypeOK, [Next]_vars PROVE TypeOK'
  OBVIOUS
<1>1. ASSUME NEW c \in Calls, NEW s \in AuthStores, NEW k \in Keys, Lookup(c, s, k)
      PROVE  TypeOK'
  <2> DEFINE new == IF Hit(s, k) THEN Answer(k, cache[s][k].info)
                    ELSE [pc |-> "query", store |-> s, key |-> k]
  <2>1. CASE Hit(s, k)
    <3>1. cache[s][k].info \in Infos
      BY <2>1 DEF Hit, TypeOK, IsCache, Entries, Stores
    <3>2. new \in AllCalls
      BY <2>1, <3>1, AnswerType DEF TypeOK
    <3> HIDE DEF new
    <3> QED BY <1>1, <3>2, CallStepType DEF Lookup, TypeOK, table, new
  <2>2. CASE ~Hit(s, k)
    <3>1. new \in AllCalls
      BY <2>2 DEF AllCalls, QueryCalls
    <3> HIDE DEF new
    <3> QED BY <1>1, <3>1, CallStepType DEF Lookup, TypeOK, table, new
  <2> QED BY <2>1, <2>2
<1>2. ASSUME NEW c \in Calls, QueryRow(c)
      PROVE  TypeOK'
  <2>1. calls[c] \in QueryCalls
    BY <1>2, CallTyping DEF QueryRow, TypeOK, CallTypes
  <2>2. PICK i \in Infos : calls' = [calls EXCEPT ![c] =
                          [pc |-> "fill", store |-> calls[c].store,
                           key |-> calls[c].key, info |-> i, readAt |-> now]]
    BY <1>2 DEF QueryRow
  <2>3. [pc |-> "fill", store |-> calls[c].store,
         key |-> calls[c].key, info |-> i, readAt |-> now] \in AllCalls
    BY <2>1 DEF QueryCalls, AllCalls, FillCalls, TypeOK
  <2> QED BY <1>2, <2>2, <2>3, CallStepType DEF QueryRow, TypeOK, table
<1>3. ASSUME NEW c \in Calls, QueryNone(c)
      PROVE  TypeOK'
  <2>1. calls[c] \in QueryCalls
    BY <1>3, CallTyping DEF QueryNone, TypeOK, CallTypes
  <2>2. [pc |-> "unauthorized", key |-> calls[c].key] \in AllCalls
    BY <2>1 DEF QueryCalls, AllCalls, UnknownCalls
  <2> QED BY <1>3, <2>2, CallStepType DEF QueryNone, TypeOK, table
<1>4. ASSUME NEW c \in Calls, QueryFail(c)
      PROVE  TypeOK'
  <2>1. [pc |-> "error"] \in AllCalls
    BY DEF AllCalls, ErrorCalls
  <2> QED BY <1>4, <2>1, CallStepType DEF QueryFail, TypeOK, table
<1>5. ASSUME NEW c \in Calls, Fill(c)
      PROVE  TypeOK'
  <2>1. calls[c] \in FillCalls
    BY <1>5, CallTyping DEF Fill, TypeOK, CallTypes
  <2> DEFINE st == calls[c].store
             k  == calls[c].key
             e  == [info |-> calls[c].info, expiresAt |-> now + TTL]
  <2>2. /\ st \in Stores /\ k \in Keys /\ calls[c].info \in Infos
        /\ e \in Entries
    BY <2>1, StoreConstants DEF FillCalls, Entries, Stores, TypeOK
  <2>3. PICK room \in MadeRoom(cache[st]) :
               cache' = [cache EXCEPT ![st] = WithEntry(room, k, e)]
    BY <1>5 DEF Fill
  <2>4. IsCache(WithEntry(room, k, e))
    BY <2>2, <2>3, MadeRoomType, WithEntryType DEF TypeOK
  <2>5. (DOMAIN cache = Stores /\ \A s \in Stores : IsCache(cache[s]))'
    BY <2>2, <2>3, <2>4 DEF TypeOK
  <2>6. Answer(k, calls[c].info) \in AllCalls
    BY <2>2, AnswerType DEF TypeOK
  <2> QED BY <1>5, <2>5, <2>6, CallStepType DEF Fill, TypeOK, table
<1>6. ASSUME NEW c \in Calls, WriteRow(c)
      PROVE  TypeOK'
  <2>1. calls[c] \in HandleCalls
    BY <1>6, CallTyping DEF WriteRow, TypeOK, CallTypes
  <2>2. calls[c].info.app \in Apps
    BY <2>1 DEF HandleCalls, Infos
  <2>3. Idle \in AllCalls
    BY CallTyping DEF CallTypes, AllCalls
  <2> QED BY <1>6, <2>2, <2>3, CallStepType DEF WriteRow, TypeOK
<1>7. ASSUME NEW c \in Calls, Finish(c)
      PROVE  TypeOK'
  <2>1. Idle \in AllCalls
    BY CallTyping DEF CallTypes, AllCalls
  <2> QED BY <1>7, <2>1, CallStepType DEF Finish, TypeOK, table
<1>8. ASSUME NEW op \in Admins, NEW a \in Apps, NEW k \in Keys, Create(op, a, k)
      PROVE  TypeOK'
  BY <1>8, InsertType, ChangeType DEF Create, TypeOK
<1>9. ASSUME NEW op \in Admins, NEW s \in AdminStores, NEW a \in Apps,
             NEW lost \in Losses, NEW status \in Statuses,
             UpdateStatus(op, s, a, status, lost)
      PROVE  TypeOK'
  BY <1>9, SetStatusType, ChangeType, ChangedType DEF UpdateStatus, TypeOK
<1>10. ASSUME NEW op \in Admins, NEW s \in AdminStores, NEW a \in Apps,
             NEW lost \in Losses, NEW k \in Keys, UpdateAPIKey(op, s, a, k, lost)
      PROVE  TypeOK'
  BY <1>10, SetKeyType, ChangeType, ChangedType DEF UpdateAPIKey, TypeOK
<1>11. ASSUME NEW op \in Admins, NEW s \in AdminStores, NEW a \in Apps,
             NEW lost \in Losses, Delete(op, s, a, lost)
      PROVE  TypeOK'
  BY <1>11, RemoveType, ChangeType, ChangedType DEF Delete, TypeOK
<1>12. ASSUME NEW op \in Admins, invalidateCache(op)
      PROVE  TypeOK'
  BY <1>12, NoEntriesType DEF invalidateCache, TypeOK, table, IdleOps, Idle
<1>13. ASSUME Tick
      PROVE  TypeOK'
  BY <1>13 DEF Tick, TypeOK, table
<1>14. CASE UNCHANGED vars
  BY <1>14 DEF TypeOK, vars
<1> QED BY <1>1, <1>2, <1>3, <1>4, <1>5, <1>6, <1>7, <1>8, <1>9, <1>10, <1>11,
           <1>12, <1>13, <1>14
        DEF Next, Request, Authenticate, Administer

(* The variables have their types in every reachable state.                *)
THEOREM TypeCorrect == Spec => []TypeOK
BY TypeInit, TypeStep, PTL DEF Spec

-----------------------------------------------------------------------------
(* The size of a cache.                                                    *)
Bounded(entries) == /\ IsFiniteSet(DOMAIN entries)
                    /\ Cardinality(DOMAIN entries) <= MaxSize

BoundedCaches == \A s \in Stores : Bounded(cache[s])

(* The insertion of Authenticate keeps a cache within its limit, whether   *)
(* or not the key was there and whether or not an entry had to go.         *)
LEMMA InsertionBounded ==
    ASSUME NEW f, Bounded(f), NEW room \in MadeRoom(f), NEW k, NEW e
    PROVE  Bounded(WithEntry(room, k, e))
<1> DEFINE D == DOMAIN f
<1>1. IsFiniteSet(D) /\ Cardinality(D) \in Nat /\ MaxSize \in Nat \ {0}
  BY FS_CardinalityType, StoreConstants DEF Bounded
<1>2. IsFiniteSet(DOMAIN room) /\ Cardinality(DOMAIN room) <= MaxSize - 1
  <2>1. CASE Full(f)
    <3>1. PICK l \in D : DOMAIN room = D \ {l}
      BY <2>1 DEF MadeRoom, Oldest, WithoutKey
    <3>2. /\ IsFiniteSet(D \ {l})
          /\ Cardinality(D \ {l}) = Cardinality(D) - 1
      BY <1>1, FS_RemoveElement
    <3> QED BY <1>1, <3>1, <3>2 DEF Bounded
  <2>2. CASE ~Full(f)
    <3>1. room = f /\ ~(Cardinality(D) >= MaxSize)
      BY <2>2 DEF MadeRoom, Full
    <3> QED BY <1>1, <3>1
  <2> QED BY <2>1, <2>2
<1>3. DOMAIN WithEntry(room, k, e) = DOMAIN room \cup {k}
  BY DEF WithEntry
<1>4. Cardinality(DOMAIN room) \in Nat
  BY <1>2, FS_CardinalityType
<1>5. /\ IsFiniteSet(DOMAIN room \cup {k})
      /\ Cardinality(DOMAIN room \cup {k}) <= Cardinality(DOMAIN room) + 1
  BY <1>2, <1>4, FS_AddElement
<1>6. Cardinality(DOMAIN room \cup {k}) \in Nat
  BY <1>5, FS_CardinalityType
<1> QED BY <1>1, <1>2, <1>3, <1>4, <1>5, <1>6 DEF Bounded

LEMMA EmptyBounded == Bounded(NoEntries)
BY FS_EmptySet, StoreConstants DEF Bounded, NoEntries

LEMMA LimitStep == TypeOK /\ BoundedCaches /\ [Next]_vars => BoundedCaches'
<1> SUFFICES ASSUME TypeOK, BoundedCaches, [Next]_vars PROVE BoundedCaches'
  OBVIOUS
<1>1. ASSUME NEW c \in Calls, Fill(c)
      PROVE  BoundedCaches'
  <2>1. calls[c] \in FillCalls
    BY <1>1, CallTyping DEF Fill, TypeOK, CallTypes
  <2> DEFINE st == calls[c].store
             e  == [info |-> calls[c].info, expiresAt |-> now + TTL]
  <2>2. st \in Stores
    BY <2>1 DEF FillCalls, Stores
  <2>3. PICK room \in MadeRoom(cache[st]) :
               cache' = [cache EXCEPT ![st] = WithEntry(room, calls[c].key, e)]
    BY <1>1 DEF Fill
  <2>4. Bounded(WithEntry(room, calls[c].key, e))
    BY <2>2, <2>3, InsertionBounded DEF BoundedCaches
  <2>5. \A s \in Stores : cache'[s] = IF s = st THEN WithEntry(room, calls[c].key, e)
                                       ELSE cache[s]
    BY <2>3 DEF TypeOK
  <2> QED BY <2>4, <2>5 DEF BoundedCaches, Bounded
<1>2. ASSUME NEW op \in Admins, invalidateCache(op)
      PROVE  BoundedCaches'
  BY <1>2, EmptyBounded DEF invalidateCache, BoundedCaches, Bounded, TypeOK
<1>3. CASE UNCHANGED cache
  BY <1>3 DEF BoundedCaches, Bounded
<1> QED BY <1>1, <1>2, <1>3
        DEF Next, Request, Authenticate, Administer, Lookup, QueryRow, QueryNone,
            QueryFail, WriteRow, Finish, Create, UpdateStatus, UpdateAPIKey,
            Delete, Tick, vars

(* No cache exceeds s.maxSize, for any number of concurrent fills.         *)
THEOREM LimitHolds == Spec => []CacheWithinLimit
<1>1. Init => BoundedCaches
  BY EmptyBounded DEF Init, BoundedCaches
<1>2. BoundedCaches => CacheWithinLimit
  BY DEF BoundedCaches, Bounded, CacheWithinLimit
<1> QED BY <1>1, <1>2, LimitStep, TypeCorrect, PTL DEF Spec

-----------------------------------------------------------------------------
(* Freshness.  Three facts about what is on its way from the table to an   *)
(* answer: a row in flight, an entry, and the answer a handler works with. *)
FreshFills ==
    \A c \in Calls :
        calls[c].pc = "fill" =>
            /\ calls[c].readAt <= now
            /\ now <= calls[c].readAt + MaxDelay
            /\ \/ Resolves(registry, calls[c].key, calls[c].info)
               \/ calls[c].readAt <= leftAt[calls[c].key][calls[c].info]

FreshEntries ==
    \A s \in Stores : \A k \in DOMAIN cache[s] :
        /\ cache[s][k].expiresAt <= now + TTL
        /\ \/ Resolves(registry, k, cache[s][k].info)
           \/ cache[s][k].expiresAt <= leftAt[k][cache[s][k].info] + MaxDelay + TTL

FreshHandlers ==
    \A c \in Calls :
        calls[c].pc = "handler" =>
            /\ calls[c].info.status = 1
            /\ calls[c].since <= now
            /\ now <= calls[c].since + MaxDelay
            /\ \/ Resolves(registry, calls[c].key, calls[c].info)
               \/ calls[c].since <= leftAt[calls[c].key][calls[c].info] + Staleness

FreshInv == TypeOK /\ FreshFills /\ FreshEntries /\ FreshHandlers

LEMMA FreshInit == Init => FreshInv
<1> SUFFICES ASSUME Init PROVE FreshFills /\ FreshEntries /\ FreshHandlers
  BY TypeInit DEF FreshInv
<1>1. \A c \in Calls : calls[c].pc = "idle"
  BY DEF Init, Idle
<1>2. \A s \in Stores : DOMAIN cache[s] = {}
  BY DEF Init, NoEntries
<1> QED BY <1>1, <1>2 DEF FreshFills, FreshEntries, FreshHandlers

(* What a change of the table does to the history of one answer.           *)
LEMMA ChangeHistory ==
    ASSUME NEW new, Change(new), NEW k \in Keys, NEW i \in Infos
    PROVE  \/ Resolves(registry', k, i)
           \/ ~Resolves(registry, k, i) /\ leftAt'[k][i] = leftAt[k][i]
           \/ leftAt'[k][i] = now
BY DEF Change

LEMMA ChangeKeepsFresh ==
    ASSUME FreshInv, NEW new, Change(new), TypeOK', UNCHANGED <<cache, calls, now>>
    PROVE  FreshInv'
<1>1. ASSUME NEW c \in Calls, calls[c].pc = "fill"
      PROVE  \/ Resolves(registry, calls[c].key, calls[c].info)'
             \/ (calls[c].readAt <= leftAt[calls[c].key][calls[c].info])'
  <2>1. calls[c] \in FillCalls
    BY <1>1, CallTyping DEF FreshInv, TypeOK, CallTypes
  <2>2. calls[c].key \in Keys /\ calls[c].info \in Infos
    BY <2>1 DEF FillCalls
  <2> QED BY <1>1, <2>2, ChangeHistory DEF FreshInv, FreshFills
<1>2. ASSUME NEW c \in Calls, calls[c].pc = "handler"
      PROVE  \/ Resolves(registry, calls[c].key, calls[c].info)'
             \/ (calls[c].since <= leftAt[calls[c].key][calls[c].info] + Staleness)'
  <2>1. calls[c] \in HandleCalls
    BY <1>2, CallTyping DEF FreshInv, TypeOK, CallTypes
  <2>2. /\ calls[c].key \in Keys /\ calls[c].info \in Infos
        /\ calls[c].since \in Nat
    BY <2>1 DEF HandleCalls
  <2>3. calls[c].since <= now + Staleness
    BY <1>2, <2>2, NeverType DEF FreshInv, FreshHandlers, TypeOK
  <2> QED BY <1>2, <2>2, <2>3, ChangeHistory DEF FreshInv, FreshHandlers
<1>3. ASSUME NEW s \in Stores, NEW k \in DOMAIN cache[s]
      PROVE  \/ Resolves(registry, k, cache[s][k].info)'
             \/ (cache[s][k].expiresAt
                    <= leftAt[k][cache[s][k].info] + MaxDelay + TTL)'
  <2>1. /\ k \in Keys /\ cache[s][k].info \in Infos
        /\ cache[s][k].expiresAt \in Nat
    BY <1>3 DEF FreshInv, TypeOK, IsCache, Entries
  <2>2. cache[s][k].expiresAt <= now + MaxDelay + TTL
    BY <1>3, <2>1, StoreConstants DEF FreshInv, FreshEntries, TypeOK
  <2> QED BY <1>3, <2>1, <2>2, ChangeHistory DEF FreshInv, FreshEntries
<1> QED BY <1>1, <1>2, <1>3 DEF FreshInv, FreshFills, FreshEntries, FreshHandlers

(* A call that neither holds a row nor is in its handler needs no proof.   *)
LEMMA OtherCallStep ==
    ASSUME FreshInv, TypeOK', NEW c \in Calls, NEW new,
           calls' = [calls EXCEPT ![c] = new],
           new.pc \notin {"fill", "handler"},
           UNCHANGED <<registry, leftAt, cache, now>>
    PROVE  FreshInv'
<1>1. \A d \in Calls : d # c => calls'[d] = calls[d]
  BY DEF FreshInv, TypeOK
<1>2. calls'[c] = new
  BY DEF FreshInv, TypeOK
<1>3. FreshFills'
  BY <1>1, <1>2 DEF FreshInv, FreshFills, Resolves
<1>4. FreshHandlers'
  BY <1>1, <1>2 DEF FreshInv, FreshHandlers, Resolves
<1>5. FreshEntries'
  BY DEF FreshInv, FreshEntries, Resolves
<1> QED BY <1>3, <1>4, <1>5 DEF FreshInv

(* An answer that is fresh now starts a handler that is.                   *)
LEMMA AnswerStep ==
    ASSUME FreshInv, TypeOK', NEW c \in Calls, NEW k \in Keys, NEW i \in Infos,
           calls' = [calls EXCEPT ![c] = Answer(k, i)],
           HeldWithin(k, i, Staleness),
           UNCHANGED <<registry, leftAt, now>>
    PROVE  FreshFills' /\ FreshHandlers'
<1>1. \A d \in Calls : d # c => calls'[d] = calls[d]
  BY DEF FreshInv, TypeOK
<1>2. calls'[c] = Answer(k, i)
  BY DEF FreshInv, TypeOK
<1>3. FreshFills'
  BY <1>1, <1>2, AnswerType DEF FreshInv, TypeOK, FreshFills, Resolves
<1>4. ASSUME NEW d \in Calls, calls'[d].pc = "handler"
      PROVE  /\ calls'[d].info.status = 1
             /\ calls'[d].since <= now
             /\ now <= calls'[d].since + MaxDelay
             /\ \/ Resolves(registry, calls'[d].key, calls'[d].info)
                \/ calls'[d].since
                     <= leftAt[calls'[d].key][calls'[d].info] + Staleness
  <2>1. CASE d # c
    BY <1>1, <1>4, <2>1 DEF FreshInv, FreshHandlers
  <2>2. CASE d = c
    <3>1. /\ calls'[d].info = i /\ calls'[d].key = k
          /\ calls'[d].since = now /\ i.status = 1
      BY <1>2, <1>4, <2>2, AnswerType DEF FreshInv, TypeOK
    <3>2. now \in Nat
      BY DEF FreshInv, TypeOK
    <3> QED BY <3>1, <3>2, StoreConstants DEF HeldWithin
  <2> QED BY <2>1, <2>2
<1>5. FreshHandlers'
  BY <1>4 DEF FreshHandlers, Resolves
<1> QED BY <1>3, <1>5

(* A live entry is an answer no staler than allowed.                       *)
LEMMA HitFresh ==
    ASSUME FreshInv, NEW s \in Stores, NEW k \in Keys, Hit(s, k)
    PROVE  /\ cache[s][k].info \in Infos
           /\ HeldWithin(k, cache[s][k].info, Staleness)
<1>1. k \in DOMAIN cache[s] /\ now < cache[s][k].expiresAt
  BY DEF Hit, Live
<1>2. /\ cache[s][k].info \in Infos /\ cache[s][k].expiresAt \in Nat
  BY <1>1 DEF FreshInv, TypeOK, IsCache, Entries
<1>3. leftAt[k][cache[s][k].info] \in Int /\ now \in Nat
  BY <1>2 DEF FreshInv, TypeOK
<1> QED BY <1>1, <1>2, <1>3, StoreConstants
        DEF FreshInv, FreshEntries, HeldWithin, Staleness

(* So is the row a request read a moment ago.                              *)
LEMMA FillFresh ==
    ASSUME FreshInv, NEW c \in Calls, calls[c].pc = "fill"
    PROVE  /\ calls[c] \in FillCalls
           /\ HeldWithin(calls[c].key, calls[c].info, Staleness)
<1>1. calls[c] \in FillCalls
  BY CallTyping DEF FreshInv, TypeOK, CallTypes
<1>2. /\ calls[c].key \in Keys /\ calls[c].info \in Infos
      /\ calls[c].readAt \in Nat
  BY <1>1 DEF FillCalls
<1>3. leftAt[calls[c].key][calls[c].info] \in Int /\ now \in Nat
  BY <1>2 DEF FreshInv, TypeOK
<1> QED BY <1>1, <1>2, <1>3, StoreConstants
        DEF FreshInv, FreshFills, HeldWithin, Staleness

LEMMA LookupKeepsFresh ==
    ASSUME FreshInv, TypeOK', NEW c \in Calls, NEW s \in AuthStores, NEW k \in Keys,
           Lookup(c, s, k)
    PROVE  FreshInv'
<1>1. CASE Hit(s, k)
  <2>1. /\ cache[s][k].info \in Infos
        /\ HeldWithin(k, cache[s][k].info, Staleness)
    BY <1>1, HitFresh DEF Stores
  <2>2. calls' = [calls EXCEPT ![c] = Answer(k, cache[s][k].info)]
    BY <1>1 DEF Lookup
  <2>3. FreshFills' /\ FreshHandlers'
    BY <2>1, <2>2, AnswerStep DEF Lookup, table
  <2>4. FreshEntries'
    BY DEF Lookup, table, FreshInv, FreshEntries, Resolves
  <2> QED BY <2>3, <2>4 DEF FreshInv
<1>2. CASE ~Hit(s, k)
  <2> DEFINE new == [pc |-> "query", store |-> s, key |-> k]
  <2>1. calls' = [calls EXCEPT ![c] = new] /\ new.pc \notin {"fill", "handler"}
    BY <1>2 DEF Lookup
  <2> HIDE DEF new
  <2> QED BY <2>1, OtherCallStep DEF Lookup, table
<1> QED BY <1>1, <1>2

LEMMA QueryRowKeepsFresh ==
    ASSUME FreshInv, TypeOK', NEW c \in Calls, QueryRow(c)
    PROVE  FreshInv'
<1>1. PICK i \in Infos :
         /\ Resolves(registry, calls[c].key, i)
         /\ calls' = [calls EXCEPT ![c] =
                         [pc |-> "fill", store |-> calls[c].store,
                          key |-> calls[c].key, info |-> i, readAt |-> now]]
  BY DEF QueryRow
<1>2. \A d \in Calls : d # c => calls'[d] = calls[d]
  BY <1>1 DEF FreshInv, TypeOK
<1>3. calls'[c] = [pc |-> "fill", store |-> calls[c].store,
                   key |-> calls[c].key, info |-> i, readAt |-> now]
  BY <1>1 DEF FreshInv, TypeOK
<1>4. now \in Nat /\ now <= now + MaxDelay
  BY StoreConstants DEF FreshInv, TypeOK
<1>5. FreshFills'
  <2> SUFFICES ASSUME NEW d \in Calls, calls'[d].pc = "fill"
               PROVE  /\ calls'[d].readAt <= now
                      /\ now <= calls'[d].readAt + MaxDelay
                      /\ \/ Resolves(registry, calls'[d].key, calls'[d].info)
                         \/ calls'[d].readAt <= leftAt[calls'[d].key][calls'[d].info]
    BY DEF FreshFills, QueryRow, table, Resolves
  <2>1. CASE d = c
    BY <1>1, <1>3, <1>4, <2>1
  <2>2. CASE d # c
    BY <1>2, <2>2 DEF FreshInv, FreshFills
  <2> QED BY <2>1, <2>2
<1>6. FreshHandlers'
  BY <1>2, <1>3 DEF FreshInv, FreshHandlers, QueryRow, table, Resolves
<1>7. FreshEntries'
  BY DEF FreshInv, FreshEntries, QueryRow, table, Resolves
<1> QED BY <1>5, <1>6, <1>7 DEF FreshInv

LEMMA FillKeepsFresh ==
    ASSUME FreshInv, TypeOK', NEW c \in Calls, Fill(c)
    PROVE  FreshInv'
<1> DEFINE st == calls[c].store
           k  == calls[c].key
           e  == [info |-> calls[c].info, expiresAt |-> now + TTL]
<1>1. calls[c].pc = "fill" /\ calls[c] \in FillCalls /\ HeldWithin(k, calls[c].info, Staleness)
  BY FillFresh DEF Fill
<1>2. /\ st \in Stores /\ k \in Keys /\ calls[c].info \in Infos
      /\ calls[c].readAt \in Nat /\ now \in Nat
  BY <1>1 DEF FillCalls, Stores, FreshInv, TypeOK
<1>3. FreshFills' /\ FreshHandlers'
  BY <1>1, <1>2, AnswerStep DEF Fill, table
<1>4. PICK room \in MadeRoom(cache[st]) :
             cache' = [cache EXCEPT ![st] = WithEntry(room, k, e)]
  BY DEF Fill
<1>5. \A l \in DOMAIN room : l \in DOMAIN cache[st] /\ room[l] = cache[st][l]
  BY <1>2, <1>4, MadeRoomType DEF FreshInv, TypeOK
<1>6. ASSUME NEW s \in Stores, NEW l \in DOMAIN cache'[s]
      PROVE  /\ cache'[s][l].expiresAt <= now + TTL
             /\ \/ Resolves(registry, l, cache'[s][l].info)
                \/ cache'[s][l].expiresAt
                     <= leftAt[l][cache'[s][l].info] + MaxDelay + TTL
  <2>1. CASE s = st /\ l = k
    <3>1. cache'[s][l] = e
      BY <1>4, <2>1 DEF WithEntry, FreshInv, TypeOK
    <3>2. leftAt[k][calls[c].info] \in Int /\ TTL \in Nat /\ MaxDelay \in Nat
      BY <1>2, StoreConstants DEF FreshInv, TypeOK
    <3>3. \/ Resolves(registry, k, calls[c].info)
          \/ now + TTL <= leftAt[k][calls[c].info] + MaxDelay + TTL
      BY <1>1, <1>2, <3>2 DEF FreshInv, FreshFills
    <3> QED BY <1>2, <2>1, <3>1, <3>2, <3>3
  <2>2. CASE s = st /\ l # k
    <3>1. l \in DOMAIN cache[s] /\ cache'[s][l] = cache[s][l]
      BY <1>4, <1>5, <1>6, <2>2 DEF WithEntry, FreshInv, TypeOK
    <3> QED BY <3>1 DEF FreshInv, FreshEntries
  <2>3. CASE s # st
    <3>1. cache'[s] = cache[s]
      BY <1>4, <2>3 DEF FreshInv, TypeOK
    <3> QED BY <1>6, <3>1 DEF FreshInv, FreshEntries
  <2> QED BY <2>1, <2>2, <2>3
<1>7. FreshEntries'
  BY <1>6 DEF FreshEntries, Fill, table, Resolves
<1> QED BY <1>3, <1>7 DEF FreshInv

LEMMA TickKeepsFresh ==
    ASSUME FreshInv, TypeOK', Tick
    PROVE  FreshInv'
<1>1. /\ now \in Nat /\ now' = now + 1
      /\ UNCHANGED <<registry, leftAt, cache, calls>>
  BY DEF Tick, table, FreshInv, TypeOK
<1>2. ASSUME NEW c \in Calls, calls[c].pc = "fill"
      PROVE  calls[c].readAt <= now + 1 /\ now + 1 <= calls[c].readAt + MaxDelay
  <2>1. calls[c] \in FillCalls
    BY <1>2, CallTyping DEF FreshInv, TypeOK, CallTypes
  <2>2. calls[c].readAt \in Nat
    BY <2>1 DEF FillCalls
  <2>3. now < calls[c].readAt + MaxDelay
    BY <1>2 DEF Tick, Started
  <2> QED BY <1>1, <1>2, <2>2, <2>3, StoreConstants DEF FreshInv, FreshFills
<1>3. ASSUME NEW c \in Calls, calls[c].pc = "handler"
      PROVE  calls[c].since <= now + 1 /\ now + 1 <= calls[c].since + MaxDelay
  <2>1. calls[c] \in HandleCalls
    BY <1>3, CallTyping DEF FreshInv, TypeOK, CallTypes
  <2>2. calls[c].since \in Nat
    BY <2>1 DEF HandleCalls
  <2>3. now < calls[c].since + MaxDelay
    BY <1>3 DEF Tick, Started
  <2> QED BY <1>1, <1>3, <2>2, <2>3, StoreConstants DEF FreshInv, FreshHandlers
<1>4. ASSUME NEW s \in Stores, NEW k \in DOMAIN cache[s]
      PROVE  cache[s][k].expiresAt <= now + 1 + TTL
  <2>1. cache[s][k].expiresAt \in Nat
    BY <1>4 DEF FreshInv, TypeOK, IsCache, Entries
  <2> QED BY <1>1, <1>4, <2>1, StoreConstants DEF FreshInv, FreshEntries
<1>5. FreshFills'
  BY <1>1, <1>2 DEF FreshInv, FreshFills, Resolves
<1>6. FreshHandlers'
  BY <1>1, <1>3 DEF FreshInv, FreshHandlers, Resolves
<1>7. FreshEntries'
  BY <1>1, <1>4 DEF FreshInv, FreshEntries, Resolves
<1> QED BY <1>5, <1>6, <1>7 DEF FreshInv

LEMMA InvalidateKeepsFresh ==
    ASSUME FreshInv, TypeOK', NEW op \in Admins, invalidateCache(op)
    PROVE  FreshInv'
<1>1. UNCHANGED <<registry, leftAt, calls, now>>
  BY DEF invalidateCache, table
<1>2. \A s \in Stores : cache'[s] = cache[s] \/ cache'[s] = NoEntries
  BY DEF invalidateCache, FreshInv, TypeOK
<1>3. DOMAIN NoEntries = {}
  BY DEF NoEntries
<1>4. FreshEntries'
  BY <1>1, <1>2, <1>3 DEF FreshInv, FreshEntries, Resolves
<1>5. FreshFills' /\ FreshHandlers'
  BY <1>1 DEF FreshInv, FreshFills, FreshHandlers, Resolves
<1> QED BY <1>4, <1>5 DEF FreshInv

LEMMA RequestKeepsFresh ==
    ASSUME FreshInv, TypeOK', NEW c \in Calls, Request(c)
    PROVE  FreshInv'
<1>1. CASE \E s \in AuthStores, k \in Keys : Lookup(c, s, k)
  BY <1>1, LookupKeepsFresh
<1>2. CASE QueryRow(c)
  BY <1>2, QueryRowKeepsFresh
<1>3. CASE QueryNone(c)
  <2> DEFINE new == [pc |-> "unauthorized", key |-> calls[c].key]
  <2>1. calls' = [calls EXCEPT ![c] = new] /\ new.pc \notin {"fill", "handler"}
    BY <1>3 DEF QueryNone
  <2> HIDE DEF new
  <2> QED BY <1>3, <2>1, OtherCallStep DEF QueryNone, table
<1>4. CASE QueryFail(c)
  <2> DEFINE new == [pc |-> "error"]
  <2>1. calls' = [calls EXCEPT ![c] = new] /\ new.pc \notin {"fill", "handler"}
    BY <1>4 DEF QueryFail
  <2> HIDE DEF new
  <2> QED BY <1>4, <2>1, OtherCallStep DEF QueryFail, table
<1>5. CASE Fill(c)
  BY <1>5, FillKeepsFresh
<1>6. CASE WriteRow(c) \/ Finish(c)
  <2>1. calls' = [calls EXCEPT ![c] = Idle] /\ Idle.pc \notin {"fill", "handler"}
    BY <1>6 DEF WriteRow, Finish, Idle
  <2> QED BY <1>6, <2>1, OtherCallStep DEF WriteRow, Finish, table
<1> QED BY <1>1, <1>2, <1>3, <1>4, <1>5, <1>6 DEF Request, Authenticate

LEMMA AdministerKeepsFresh ==
    ASSUME FreshInv, TypeOK', NEW op \in Admins, Administer(op)
    PROVE  FreshInv'
<1>1. CASE invalidateCache(op)
  BY <1>1, InvalidateKeepsFresh
<1>2. CASE ~invalidateCache(op)
  <2>1. /\ \E new : Change(new)
        /\ UNCHANGED <<cache, calls, now>>
    BY <1>2 DEF Administer, Create, UpdateStatus, UpdateAPIKey, Delete
  <2> QED BY <2>1, ChangeKeepsFresh
<1> QED BY <1>1, <1>2

LEMMA FreshStep == FreshInv /\ [Next]_vars => FreshInv'
<1> SUFFICES ASSUME FreshInv, [Next]_vars PROVE FreshInv'
  OBVIOUS
<1>1. TypeOK'
  BY TypeStep DEF FreshInv
<1>2. CASE \E c \in Calls : Request(c)
  BY <1>1, <1>2, RequestKeepsFresh
<1>3. CASE \E op \in Admins : Administer(op)
  BY <1>1, <1>3, AdministerKeepsFresh
<1>4. CASE Tick
  BY <1>1, <1>4, TickKeepsFresh
<1>5. CASE UNCHANGED vars
  BY <1>1, <1>5 DEF vars, FreshInv, FreshFills, FreshEntries, FreshHandlers, Resolves
<1> QED BY <1>2, <1>3, <1>4, <1>5 DEF Next

THEOREM Freshness == Spec => []FreshInv
BY FreshInit, FreshStep, PTL DEF Spec

-----------------------------------------------------------------------------
(* A step of one request leaves the others alone.                          *)
LEMMA OthersUntouched ==
    ASSUME TypeOK, NEW c \in Calls, Request(c), NEW d \in Calls, d # c
    PROVE  calls'[d] = calls[d]
BY DEF TypeOK, Request, Authenticate, Lookup, QueryRow, QueryNone, QueryFail, Fill,
       WriteRow, Finish

(* A request gets an answer in two ways: a live entry, or its own row.     *)
LEMMA DecidedBy ==
    ASSUME FreshInv, NEW c \in Calls, Request(c),
           ~Decided(calls[c]), Decided(calls'[c])
    PROVE  \E k \in Keys, i \in Infos :
              /\ calls' = [calls EXCEPT ![c] = Answer(k, i)]
              /\ HeldWithin(k, i, Staleness)
<1>0. calls \in [Calls -> AllCalls]
  BY DEF FreshInv, TypeOK
<1>1. CASE \E s \in AuthStores, k \in Keys : Lookup(c, s, k)
  <2>1. PICK s \in AuthStores, k \in Keys : Lookup(c, s, k)
    BY <1>1
  <2>2. CASE Hit(s, k)
    BY <2>1, <2>2, HitFresh DEF Lookup, Stores
  <2>3. CASE ~Hit(s, k)
    BY <1>0, <2>1, <2>3 DEF Lookup, Decided
  <2> QED BY <2>2, <2>3
<1>2. CASE Fill(c)
  BY <1>2, FillFresh DEF Fill, FillCalls
<1>3. CASE QueryRow(c) \/ QueryNone(c) \/ QueryFail(c)
  BY <1>0, <1>3 DEF QueryRow, QueryNone, QueryFail, Decided
<1>4. CASE WriteRow(c) \/ Finish(c)
  BY <1>0, <1>4 DEF WriteRow, Finish, Idle, Decided
<1> QED BY <1>1, <1>2, <1>3, <1>4 DEF Request, Authenticate

LEMMA StepsStayFresh ==
    ASSUME FreshInv, [Next]_vars, NEW c \in Calls,
           ~Decided(calls[c]), Decided(calls'[c])
    PROVE  HeldWithin(calls'[c].key, calls'[c].info, Staleness)
<1>1. calls' # calls
  OBVIOUS
<1>2. PICK d \in Calls : Request(d)
  BY <1>1 DEF Next, vars, Administer, Create, UpdateStatus, UpdateAPIKey, Delete,
              invalidateCache, Tick
<1>3. d = c
  BY <1>2, OthersUntouched DEF FreshInv
<1>4. PICK k \in Keys, i \in Infos :
         calls' = [calls EXCEPT ![c] = Answer(k, i)] /\ HeldWithin(k, i, Staleness)
  BY <1>2, <1>3, DecidedBy
<1>5. calls'[c] = Answer(k, i)
  BY <1>4 DEF FreshInv, TypeOK
<1> QED BY <1>4, <1>5, AnswerType DEF FreshInv, TypeOK

(* Whatever a request is answered was right at most Staleness ago: however *)
(* requests overtake one another and administrators change the table.      *)
THEOREM AnswersAreFresh == Spec => AnswersStayFresh
<1>1. FreshInv /\ [Next]_vars =>
        [\A c \in Calls :
            (~Decided(calls[c]) /\ Decided(calls'[c]))
              => HeldWithin(calls'[c].key, calls'[c].info, Staleness)]_vars
  BY StepsStayFresh
<1> QED BY <1>1, Freshness, PTL DEF Spec, AnswersStayFresh

LEMMA StepsStop ==
    ASSUME FreshInv, Next, NEW d \in Nat, Staleness <= d,
           NEW c \in Calls, NEW a \in DOMAIN registry,
           calls[c].pc # "handler", calls'[c].pc = "handler",
           calls'[c].info.app = a, registry[a].key # calls'[c].key
    PROVE  now <= leftAt[calls'[c].key][calls'[c].info] + d
<1>1. calls \in [Calls -> AllCalls] /\ calls'[c] \in HandleCalls
  <2>1. TypeOK'
    BY TypeStep DEF FreshInv
  <2>2. calls'[c] \in AllCalls
    BY <2>1 DEF TypeOK
  <2> QED BY <2>2, CallTyping DEF CallTypes, FreshInv, TypeOK
<1>2. ~Decided(calls[c])
  <2> SUFFICES ASSUME calls[c].pc = "forbidden" PROVE FALSE
    BY DEF Decided
  <2>1. PICK b \in Calls : Request(b)
    BY DEF Next, Administer, Create, UpdateStatus, UpdateAPIKey, Delete, invalidateCache, Tick
  <2>2. b = c
    BY <2>1, OthersUntouched DEF FreshInv
  <2>3. Finish(c)
    BY <2>1, <2>2 DEF Request, Authenticate, Lookup, QueryRow, QueryNone, QueryFail, Fill,
                      WriteRow
  <2> QED BY <1>1, <2>3 DEF Finish, Idle
<1>3. HeldWithin(calls'[c].key, calls'[c].info, Staleness)
  BY <1>2, StepsStayFresh DEF Decided
<1>4. now <= leftAt[calls'[c].key][calls'[c].info] + Staleness
  BY <1>3 DEF HeldWithin, Resolves
<1>5. now \in Nat /\ leftAt[calls'[c].key][calls'[c].info] \in Int /\ Staleness \in Nat
  BY <1>1, NeverType DEF HandleCalls, FreshInv, TypeOK
<1> QED BY <1>4, <1>5

(* What the page of the admin service promises of a reset key holds for    *)
(* every setting that keeps the time to live, and what a slow request adds *)
(* to it, within the promise; without such a setting it fails.             *)
THEOREM ResetTakesEffect ==
    ASSUME NEW CONSTANT d \in Nat, Staleness <= d
    PROVE  Spec => [][OldKeyStopsWithin(d)]_vars
<1>1. ASSUME FreshInv, [Next]_vars
      PROVE  [OldKeyStopsWithin(d)]_vars
  BY <1>1, StepsStop DEF OldKeyStopsWithin
<1> QED BY <1>1, Freshness, PTL DEF Spec

(* A row written for an app rests on an answer that was right at most      *)
(* Staleness + MaxDelay earlier.                                           *)
THEOREM WritesAreAuthorised == Spec => WritesStayAuthorised
<1>1. ASSUME FreshInv, [Next]_vars, NEW a \in rows' \ rows
      PROVE  \E k \in Keys : HeldWithin(k, [app |-> a, status |-> 1],
                                        Staleness + MaxDelay)
  <2>1. PICK c \in Calls : WriteRow(c)
    <3>1. ASSUME NEW c \in Calls, Request(c), ~WriteRow(c) PROVE rows' = rows
      BY <3>1 DEF Request, Authenticate, Lookup, QueryRow, QueryNone, QueryFail, Fill,
                  Finish, table
    <3>2. ASSUME NEW op \in Admins, Administer(op) PROVE rows' \subseteq rows
      BY <3>2 DEF Administer, Create, UpdateStatus, UpdateAPIKey, Delete,
                  invalidateCache, table
    <3>3. CASE Tick \/ UNCHANGED vars
      BY <3>3 DEF Tick, table, vars
    <3> QED BY <1>1, <3>1, <3>2, <3>3 DEF Next
  <2>2. calls[c].pc = "handler" /\ calls[c] \in HandleCalls
    BY <1>1, <2>1, CallTyping DEF WriteRow, FreshInv, TypeOK, CallTypes
  <2>3. /\ calls[c].key \in Keys /\ calls[c].info \in Infos
        /\ calls[c].since \in Nat
    BY <2>2 DEF HandleCalls
  <2>4. a = calls[c].info.app
    BY <1>1, <2>1 DEF WriteRow
  <2>5. calls[c].info = [app |-> a, status |-> 1]
    BY <1>1, <2>2, <2>3, <2>4 DEF Infos, FreshInv, FreshHandlers
  <2>6. leftAt[calls[c].key][calls[c].info] \in Int /\ now \in Nat
    BY <1>1, <2>3 DEF FreshInv, TypeOK
  <2>7. HeldWithin(calls[c].key, calls[c].info, Staleness + MaxDelay)
    BY <1>1, <2>2, <2>3, <2>6, NeverType, StoreConstants
       DEF FreshInv, FreshHandlers, HeldWithin
  <2> QED BY <2>3, <2>5, <2>7
<1>2. FreshInv /\ [Next]_vars =>
        [\A a \in rows' \ rows :
            \E k \in Keys : HeldWithin(k, [app |-> a, status |-> 1],
                                       Staleness + MaxDelay)]_vars
  BY <1>1
<1> QED BY <1>2, Freshness, PTL DEF Spec, WritesStayAuthorised

-----------------------------------------------------------------------------
(* A live entry is evicted only when every entry is live.                  *)
THEOREM EvictionSpares == Spec => EvictionSparesLive
<1>1. ASSUME TypeOK, [Next]_vars, NEW s \in Stores, NEW k \in Keys,
             k \in DOMAIN cache[s], k \notin DOMAIN cache'[s],
             DOMAIN cache'[s] # {}, Live(cache[s][k]),
             NEW l \in DOMAIN cache[s]
      PROVE  Live(cache[s][l])
  <2>1. CASE \E c \in Calls : Fill(c)
    <3>1. PICK c \in Calls : Fill(c)
      BY <2>1
    <3>2. PICK room \in MadeRoom(cache[calls[c].store]) :
             cache' = [cache EXCEPT ![calls[c].store] =
                          WithEntry(room, calls[c].key,
                                    [info |-> calls[c].info, expiresAt |-> now + TTL])]
      BY <3>1 DEF Fill
    <3>3. s = calls[c].store /\ k \notin DOMAIN room
      BY <1>1, <3>2 DEF TypeOK, WithEntry
    <3>4. k \in Oldest(cache[s])
      <4>1. room \in MadeRoom(cache[s]) /\ room # cache[s]
        BY <1>1, <3>2, <3>3
      <4>2. PICK m \in Oldest(cache[s]) : room = WithoutKey(cache[s], m)
        BY <4>1 DEF MadeRoom
      <4>3. DOMAIN room = DOMAIN cache[s] \ {m}
        BY <4>2 DEF WithoutKey
      <4> QED BY <1>1, <3>3, <4>2, <4>3
    <3>5. cache[s][k].expiresAt \in Nat /\ cache[s][l].expiresAt \in Nat /\ now \in Nat
      BY <1>1 DEF TypeOK, IsCache, Entries
    <3> QED BY <1>1, <3>4, <3>5 DEF Oldest, Live
  <2>2. CASE \E op \in Admins : invalidateCache(op)
    BY <1>1, <2>2 DEF invalidateCache, TypeOK, NoEntries
  <2>3. CASE UNCHANGED cache
    BY <1>1, <2>3
  <2> QED BY <1>1, <2>1, <2>2, <2>3
          DEF Next, Request, Authenticate, Administer, Lookup, QueryRow, QueryNone,
              QueryFail, WriteRow, Finish, Create, UpdateStatus, UpdateAPIKey,
              Delete, Tick, vars
<1>2. TypeOK /\ [Next]_vars =>
        [\A s \in Stores, k \in Keys :
            (k \in DOMAIN cache[s] /\ k \notin DOMAIN cache'[s]
               /\ DOMAIN cache'[s] # {} /\ Live(cache[s][k]))
              => \A l \in DOMAIN cache[s] : Live(cache[s][l])]_vars
  BY <1>1
<1> QED BY <1>2, TypeCorrect, PTL DEF Spec, EvictionSparesLive

-----------------------------------------------------------------------------
(* One shared store.  While an invalidation is pending a wrong entry may   *)
(* be as old as it likes; otherwise it was made at or after the change     *)
(* that made it wrong.                                                     *)
HistoryIsPast == \A k \in Keys, i \in Infos : leftAt[k][i] <= now

MadeSince(s, k) == leftAt[k][cache[s][k].info] <= cache[s][k].expiresAt - TTL

Pending == \E op \in Admins : ops[op].pc = "invalidate"

OldAreDoomed(s) == Pending \/ \A k \in DOMAIN cache[s] : Wrong(s, k) => MadeSince(s, k)

(* Without losses, for the one store s the administrators and the requests *)
(* share.                                                                  *)
SharedInv(s) == TypeOK /\ HistoryIsPast /\ OldAreDoomed(s)

LEMMA EntryTypes ==
    ASSUME TypeOK, NEW s \in Stores, NEW k \in DOMAIN cache[s]
    PROVE  /\ k \in Keys /\ cache[s][k].info \in Infos /\ cache[s][k].expiresAt \in Nat
           /\ leftAt[k][cache[s][k].info] \in Int
BY DEF TypeOK, IsCache, Entries

LEMMA PastStep == TypeOK /\ HistoryIsPast /\ [Next]_vars => HistoryIsPast'
<1> SUFFICES ASSUME TypeOK, HistoryIsPast, [Next]_vars PROVE HistoryIsPast'
  OBVIOUS
<1>1. ASSUME NEW new, Change(new), UNCHANGED now PROVE HistoryIsPast'
  <2>1. ASSUME NEW k \in Keys, NEW i \in Infos PROVE leftAt'[k][i] <= now'
    <3>1. leftAt'[k][i] = IF Resolves(registry, k, i) /\ ~Resolves(new, k, i)
                          THEN now ELSE leftAt[k][i]
      BY <1>1 DEF Change
    <3>2. leftAt[k][i] <= now /\ now \in Nat
      BY DEF HistoryIsPast, TypeOK
    <3> QED BY <1>1, <3>1, <3>2
  <2> QED BY <2>1 DEF HistoryIsPast
<1>2. CASE Tick
  BY <1>2 DEF Tick, table, HistoryIsPast, TypeOK
<1>3. UNCHANGED <<leftAt, now>> => HistoryIsPast'
  BY DEF HistoryIsPast
<1>4. ASSUME NEW op \in Admins, Administer(op) PROVE HistoryIsPast'
  <2>1. ASSUME NEW a \in Apps, NEW k \in Keys, Create(op, a, k) PROVE HistoryIsPast'
    BY <1>1, <2>1 DEF Create
  <2>2. ASSUME NEW s \in AdminStores, NEW a \in Apps, NEW lost \in Losses,
               \/ \E status \in Statuses : UpdateStatus(op, s, a, status, lost)
               \/ \E k \in Keys : UpdateAPIKey(op, s, a, k, lost)
               \/ Delete(op, s, a, lost)
        PROVE  HistoryIsPast'
    BY <1>1, <2>2 DEF UpdateStatus, UpdateAPIKey, Delete
  <2>3. invalidateCache(op) => HistoryIsPast'
    BY <1>3 DEF invalidateCache, table
  <2> QED BY <1>4, <2>1, <2>2, <2>3 DEF Administer
<1>5. ASSUME NEW c \in Calls, Request(c) PROVE HistoryIsPast'
  BY <1>3, <1>5 DEF Request, Authenticate, Lookup, QueryRow, QueryNone, QueryFail, Fill,
                    WriteRow, Finish, table
<1>6. UNCHANGED vars => HistoryIsPast'
  BY <1>3 DEF vars
<1> QED BY <1>2, <1>4, <1>5, <1>6 DEF Next

(* An insertion is made at the time of the clock.                          *)
LEMMA FillDooms ==
    ASSUME NEW s \in Stores, SharedInv(s), NEW c \in Calls, Fill(c)
    PROVE  OldAreDoomed(s)'
<1>1. /\ TypeOK /\ HistoryIsPast /\ OldAreDoomed(s) /\ calls[c] \in FillCalls
      /\ UNCHANGED <<registry, leftAt, ops>>
  BY CallTyping DEF SharedInv, Fill, TypeOK, CallTypes, table
<1>2. Pending' <=> Pending
  BY <1>1 DEF Pending
<1> DEFINE st == calls[c].store
           l  == calls[c].key
           e  == [info |-> calls[c].info, expiresAt |-> now + TTL]
<1>3. st \in Stores /\ l \in Keys /\ e.info \in Infos /\ e.expiresAt - TTL = now
  BY <1>1, StoreConstants DEF FillCalls, Stores, TypeOK
<1>4. PICK room \in MadeRoom(cache[st]) : cache' = [cache EXCEPT ![st] = WithEntry(room, l, e)]
  BY DEF Fill
<1>5. DOMAIN room \subseteq DOMAIN cache[st] /\ \A k \in DOMAIN room : room[k] = cache[st][k]
  BY <1>1, <1>3, <1>4, MadeRoomType DEF TypeOK
<1> HIDE DEF e
<1>6. ASSUME NEW k \in DOMAIN cache'[s]
      PROVE  \/ k \in DOMAIN cache[s] /\ cache'[s][k] = cache[s][k]
             \/ k = l /\ cache'[s][k] = e
  <2>1. cache'[s] = IF s = st THEN WithEntry(room, l, e) ELSE cache[s]
    BY <1>1, <1>3, <1>4 DEF TypeOK
  <2> QED BY <1>5, <1>6, <2>1 DEF WithEntry
<1>7. leftAt[l][e.info] <= e.expiresAt - TTL
  BY <1>1, <1>3 DEF HistoryIsPast
<1>8. ASSUME ~Pending', NEW k \in DOMAIN cache'[s], Wrong(s, k)'
      PROVE  MadeSince(s, k)'
  <2>1. CASE k \in DOMAIN cache[s] /\ cache'[s][k] = cache[s][k]
    BY <1>1, <1>2, <1>8, <2>1 DEF OldAreDoomed, Wrong, MadeSince
  <2>2. CASE k = l /\ cache'[s][k] = e
    BY <1>1, <1>7, <2>2 DEF MadeSince
  <2> QED BY <1>6, <1>8, <2>1, <2>2
<1> QED BY <1>8 DEF OldAreDoomed

(* A new app and a new key make no answer wrong.                           *)
LEMMA CreateDooms ==
    ASSUME NEW s \in Stores, SharedInv(s), NEW op \in Admins, NEW a \in Apps, NEW k \in Keys,
           Create(op, a, k)
    PROVE  OldAreDoomed(s)'
<1>1. /\ TypeOK /\ OldAreDoomed(s) /\ UNCHANGED <<cache, ops>>
      /\ a \notin DOMAIN registry /\ registry' = Insert(registry, a, k)
      /\ Change(Insert(registry, a, k))
  BY DEF SharedInv, Create, CanInsert, Change
<1>2. Pending' <=> Pending
  BY <1>1 DEF Pending
<1>3. ASSUME NEW l \in Keys, NEW i \in Infos, ~Resolves(registry', l, i)
      PROVE  ~Resolves(registry, l, i) /\ leftAt'[l][i] = leftAt[l][i]
  <2>1. ~Resolves(registry, l, i)
    BY <1>1, <1>3 DEF Resolves, Insert
  <2> QED BY <1>1, <2>1 DEF Change
<1>4. ASSUME ~Pending', NEW l \in DOMAIN cache'[s], Wrong(s, l)'
      PROVE  MadeSince(s, l)'
  <2>1. l \in DOMAIN cache[s] /\ cache'[s][l] = cache[s][l]
    BY <1>1, <1>4
  <2>2. l \in Keys /\ cache[s][l].info \in Infos
    BY <1>1, <2>1, EntryTypes
  <2>3. /\ ~Resolves(registry, l, cache[s][l].info)
        /\ leftAt'[l][cache[s][l].info] = leftAt[l][cache[s][l].info]
    BY <1>3, <1>4, <2>1, <2>2 DEF Wrong
  <2> QED BY <1>1, <1>2, <1>4, <2>1, <2>3 DEF OldAreDoomed, Wrong, MadeSince
<1> QED BY <1>4 DEF OldAreDoomed

(* Every other change is followed by its invalidation.                     *)
LEMMA ChangedIsPending ==
    ASSUME TypeOK, NEW op \in Admins, NEW s \in AdminStores, Changed(op, s, FALSE)
    PROVE  Pending'
<1>1. ops'[op].pc = "invalidate"
  BY DEF Changed, TypeOK
<1> QED BY <1>1 DEF Pending

LEMMA SharedStep ==
    ASSUME TRUE \notin Losses, NEW s \in Stores, AdminStores = {s}, SharedInv(s), [Next]_vars
    PROVE  SharedInv(s)'
<1>1. TypeOK' /\ HistoryIsPast'
  BY TypeStep, PastStep DEF SharedInv
<1>2. TypeOK /\ OldAreDoomed(s)
  BY DEF SharedInv
<1>3. ASSUME UNCHANGED <<registry, leftAt, cache, ops>> PROVE OldAreDoomed(s)'
  BY <1>2, <1>3 DEF OldAreDoomed, Pending, Wrong, MadeSince
<1>4. ASSUME NEW c \in Calls, Request(c) PROVE OldAreDoomed(s)'
  <2>1. Fill(c) \/ UNCHANGED <<registry, leftAt, cache, ops>>
    BY <1>4
       DEF Request, Authenticate, Lookup, QueryRow, QueryNone, QueryFail, WriteRow, Finish, table
  <2> QED BY <1>3, <2>1, FillDooms
<1>5. ASSUME NEW op \in Admins, invalidateCache(op) PROVE OldAreDoomed(s)'
  <2>1. ops[op].store = s
    BY <1>2, <1>5 DEF invalidateCache, TypeOK, IdleOps, PendingOps
  <2>2. DOMAIN cache'[s] = {}
    BY <1>2, <1>5, <2>1 DEF invalidateCache, TypeOK, NoEntries
  <2> QED BY <2>2 DEF OldAreDoomed
<1>6. ASSUME NEW op \in Admins, Administer(op) PROVE OldAreDoomed(s)'
  <2>1. ASSUME NEW t \in AdminStores, NEW a \in Apps, NEW lost \in Losses,
               \/ \E status \in Statuses : UpdateStatus(op, t, a, status, lost)
               \/ \E k \in Keys : UpdateAPIKey(op, t, a, k, lost)
               \/ Delete(op, t, a, lost)
        PROVE  OldAreDoomed(s)'
    <3>1. lost = FALSE
      BY StoreConstants
    <3>2. Changed(op, t, FALSE)
      BY <2>1, <3>1 DEF UpdateStatus, UpdateAPIKey, Delete
    <3> QED BY <1>2, <3>2, ChangedIsPending DEF OldAreDoomed
  <2>2. ASSUME NEW a \in Apps, NEW k \in Keys, Create(op, a, k) PROVE OldAreDoomed(s)'
    BY <2>2, CreateDooms
  <2>3. \/ \E a \in Apps, k \in Keys : Create(op, a, k)
        \/ \E t \in AdminStores, a \in Apps, lost \in Losses :
              \/ \E status \in Statuses : UpdateStatus(op, t, a, status, lost)
              \/ \E k \in Keys : UpdateAPIKey(op, t, a, k, lost)
              \/ Delete(op, t, a, lost)
        \/ invalidateCache(op)
    BY <1>6, Zenon DEF Administer
  <2> QED BY <1>5, <2>1, <2>2, <2>3
<1>7. OldAreDoomed(s)'
  BY <1>3, <1>4, <1>6 DEF Next, Tick, table, vars
<1> QED BY <1>1, <1>7 DEF SharedInv

(* When administrators and requests share one store and no result is lost, *)
(* the invalidation clears what was cached before the change: a wrong      *)
(* entry left after it was made by a request that overtook it.             *)
THEOREM InvalidationHolds == Spec => []InvalidationClears
<1>1. CASE TRUE \in Losses \/ \A s \in Stores : AdminStores # {s}
  <2>1. InvalidationClears
    BY <1>1 DEF InvalidationClears
  <2> QED BY <2>1, PTL
<1>2. CASE TRUE \notin Losses /\ \E s \in Stores : AdminStores = {s}
  <2>1. PICK s \in Stores : AdminStores = {s}
    BY <1>2
  <2>2. Init => SharedInv(s)
    <3> SUFFICES ASSUME Init PROVE HistoryIsPast /\ OldAreDoomed(s)
      BY TypeInit DEF SharedInv
    <3>1. DOMAIN cache[s] = {}
      BY DEF Init, NoEntries
    <3>2. Never <= 0
      BY StoreConstants DEF Never, Staleness
    <3>3. HistoryIsPast
      BY <3>2 DEF Init, HistoryIsPast
    <3> QED BY <3>1, <3>3 DEF OldAreDoomed
  <2>3. SharedInv(s) /\ [Next]_vars => SharedInv(s)'
    BY <1>2, <2>1, SharedStep
  <2>4. SharedInv(s) => InvalidationClears
    <3>1. \A t \in Stores : AdminStores = {t} => t = s
      BY <2>1
    <3> QED BY <3>1 DEF SharedInv, OldAreDoomed, MadeSince, Pending, InvalidationClears
  <2> QED BY <2>2, <2>3, <2>4, PTL DEF Spec
<1> QED BY <1>1, <1>2

-----------------------------------------------------------------------------
(* The refinement.  A step of Authenticate before the answer, and the      *)
(* invalidation, are stuttering steps of the promise.                      *)
Shown == [c \in Calls |-> Outcome(calls[c])]

LEMMA ShownStep ==
    ASSUME TypeOK, NEW c \in Calls, NEW new, calls' = [calls EXCEPT ![c] = new]
    PROVE  Shown' = [Shown EXCEPT ![c] = Outcome(new)]
BY DEF TypeOK, Shown

LEMMA ShownWaits ==
    ASSUME TypeOK, NEW c \in Calls
    PROVE  Shown[c] = Promise!Waiting <=> calls[c].pc \in {"idle", "query", "fill"}
BY CallTyping DEF TypeOK, CallTypes, Shown, Outcome, Promise!Waiting,
   HandleCalls, DeniedCalls, UnknownCalls, AllCalls, ErrorCalls

PromisedStep ==
    \/ \E c \in Calls : Promise!Decide(c) \/ Promise!RejectUnknown(c)
                         \/ Promise!Fail(c) \/ Promise!Leave(c)
    \/ Promise!Administer
    \/ Promise!Tick
    \/ UNCHANGED <<registry, now, leftAt, Shown>>

LEMMA AnswerRefines ==
    ASSUME FreshInv, NEW c \in Calls, calls[c].pc \in {"idle", "query", "fill"},
           NEW k \in Keys, NEW i \in Infos, HeldWithin(k, i, Staleness),
           calls' = [calls EXCEPT ![c] = Answer(k, i)],
           UNCHANGED <<registry, now, leftAt>>
    PROVE  Promise!Decide(c)
<1>1. Shown[c] = Promise!Waiting
  BY ShownWaits DEF FreshInv
<1>2. Shown' = [Shown EXCEPT ![c] = Outcome(Answer(k, i))]
  BY ShownStep DEF FreshInv
<1>3. Outcome(Answer(k, i)) = [pc   |-> IF i.status = 0 THEN "forbidden" ELSE "handler",
                               key  |-> k,
                               info |-> i]
  BY DEF Outcome, Answer
<1>4. Promise!Acceptable(k, i)
  BY DEF HeldWithin, Promise!Acceptable, Promise!Resolves, Resolves
<1>5. i \in Promise!Infos
  BY DEF Promise!Infos, Infos, Promise!Statuses, Statuses
<1>6. Promise!Answered(c, [pc   |-> IF i.status = 0 THEN "forbidden" ELSE "handler",
                           key  |-> k,
                           info |-> i])
  BY <1>1, <1>2, <1>3 DEF Promise!Answered, Shown
<1> QED BY <1>4, <1>5, <1>6 DEF Promise!Decide

LEMMA LeaveRefines ==
    ASSUME TypeOK, NEW c \in Calls, WriteRow(c) \/ Finish(c)
    PROVE  Promise!Leave(c)
<1>1. Shown[c] # Promise!Waiting
  BY ShownWaits DEF WriteRow, Finish
<1>2. calls' = [calls EXCEPT ![c] = Idle]
  BY DEF WriteRow, Finish
<1>3. Outcome(Idle) = Promise!Waiting
  BY DEF Outcome, Idle, Promise!Waiting
<1>4. Shown' = [Shown EXCEPT ![c] = Promise!Waiting]
  BY <1>2, <1>3, ShownStep
<1> QED BY <1>1, <1>4 DEF Promise!Leave, Shown, WriteRow, Finish, table

LEMMA RequestRefines ==
    ASSUME FreshInv, NEW c \in Calls, Request(c)
    PROVE  PromisedStep
<1>1. CASE \E s \in AuthStores, k \in Keys : Lookup(c, s, k)
  <2>1. PICK s \in AuthStores, k \in Keys : Lookup(c, s, k)
    BY <1>1
  <2>2. CASE Hit(s, k)
    <3>1. Promise!Decide(c)
      BY <2>1, <2>2, HitFresh, AnswerRefines DEF Lookup, Stores, table
    <3> QED BY <3>1 DEF PromisedStep
  <2>3. CASE ~Hit(s, k)
    <3>1. calls' = [calls EXCEPT ![c] = [pc |-> "query", store |-> s, key |-> k]]
      BY <2>1, <2>3 DEF Lookup
    <3>2. UNCHANGED <<registry, now, leftAt, Shown>>
      <4>1. TypeOK /\ calls[c].pc = "idle"
        BY <2>1 DEF Lookup, FreshInv
      <4>2. Shown' = [Shown EXCEPT ![c] = Outcome([pc |-> "query", store |-> s, key |-> k])]
        BY <3>1, <4>1, ShownStep, Zenon
      <4>3. Outcome([pc |-> "query", store |-> s, key |-> k]) = Shown[c]
        BY <4>1 DEF Outcome, Shown
      <4> QED BY <2>1, <4>2, <4>3 DEF Lookup, table, Shown
    <3> QED BY <3>2 DEF PromisedStep
  <2> QED BY <2>2, <2>3
<1>2. CASE QueryRow(c)
  <2>1. PICK i \in Infos : calls' = [calls EXCEPT ![c] =
                          [pc |-> "fill", store |-> calls[c].store,
                           key |-> calls[c].key, info |-> i, readAt |-> now]]
    BY <1>2 DEF QueryRow
  <2>2. UNCHANGED <<registry, now, leftAt, Shown>>
    BY <1>2, <2>1, ShownStep DEF QueryRow, table, Shown, Outcome, FreshInv
  <2> QED BY <2>2 DEF PromisedStep
<1>3. CASE QueryNone(c)
  <2>1. calls[c].key \in Keys
    BY <1>3, CallTyping DEF QueryNone, FreshInv, TypeOK, CallTypes, QueryCalls
  <2>2. Shown[c] = Promise!Waiting
    BY <1>3, ShownWaits DEF QueryNone, FreshInv
  <2>3. Shown' = [Shown EXCEPT ![c] = [pc |-> "unauthorized", key |-> calls[c].key]]
    BY <1>3, ShownStep DEF QueryNone, Outcome, FreshInv
  <2>4. Promise!Unresolved(registry, calls[c].key)
    BY <1>3 DEF QueryNone, Unresolved, Promise!Unresolved
  <2>5. Promise!RejectUnknown(c)
    BY <1>3, <2>1, <2>2, <2>3, <2>4
       DEF Promise!RejectUnknown, Promise!Answered, Shown, QueryNone, table
  <2> QED BY <2>5 DEF PromisedStep
<1>4. CASE QueryFail(c)
  <2>1. Shown[c] = Promise!Waiting
    BY <1>4, ShownWaits DEF QueryFail, FreshInv
  <2>2. Shown' = [Shown EXCEPT ![c] = [pc |-> "error"]]
    BY <1>4, ShownStep DEF QueryFail, Outcome, FreshInv
  <2>3. Promise!Fail(c)
    BY <1>4, <2>1, <2>2 DEF Promise!Fail, Promise!Answered, Shown, QueryFail, table
  <2> QED BY <2>3 DEF PromisedStep
<1>5. CASE Fill(c)
  <2>1. Promise!Decide(c)
    BY <1>5, FillFresh, AnswerRefines DEF Fill, FillCalls, table
  <2> QED BY <2>1 DEF PromisedStep
<1>6. CASE WriteRow(c) \/ Finish(c)
  BY <1>6, LeaveRefines DEF PromisedStep, FreshInv
<1> QED BY <1>1, <1>2, <1>3, <1>4, <1>5, <1>6 DEF Request, Authenticate

LEMMA AdministerRefines ==
    ASSUME FreshInv, TypeOK', NEW op \in Admins, Administer(op)
    PROVE  PromisedStep
<1>1. CASE invalidateCache(op)
  BY <1>1 DEF invalidateCache, table, Shown, PromisedStep
<1>2. CASE ~invalidateCache(op)
  <2>1. PICK new : Change(new) /\ UNCHANGED <<cache, calls, now>>
    BY <1>2 DEF Administer, Create, UpdateStatus, UpdateAPIKey, Delete
  <2>2. Promise!IsTable(registry')
    BY DEF TypeOK, IsTable, Promise!IsTable, Rows, Promise!Rows, Statuses,
           Promise!Statuses
  <2>3. leftAt' = [k \in Keys |-> [i \in Promise!Infos |->
                     IF Promise!Resolves(registry, k, i) /\ ~Promise!Resolves(registry', k, i)
                     THEN now ELSE leftAt[k][i]]]
    BY <2>1 DEF Change, Promise!Resolves, Resolves, Promise!Infos, Infos,
                Promise!Statuses, Statuses
  <2>4. UNCHANGED <<now, Shown>>
    BY <2>1 DEF Shown
  <2>5. Promise!Administer
    BY <2>2, <2>3, <2>4 DEF Promise!Administer, Shown
  <2> QED BY <2>5 DEF PromisedStep
<1> QED BY <1>1, <1>2

LEMMA StepRefines ==
    FreshInv /\ TypeOK' /\ [Next]_vars
      => [Promise!Next]_<<registry, now, leftAt, [c \in Calls |-> Outcome(calls[c])]>>
<1> SUFFICES ASSUME FreshInv, TypeOK', [Next]_vars
             PROVE  Promise!Next \/ UNCHANGED <<registry, now, leftAt, Shown>>
  BY DEF Shown
<1>1. CASE \E c \in Calls : Request(c)
  BY <1>1, RequestRefines DEF PromisedStep, Promise!Next
<1>2. CASE \E op \in Admins : Administer(op)
  BY <1>2, AdministerRefines DEF PromisedStep, Promise!Next
<1>3. CASE Tick
  <2>1. UNCHANGED <<registry, leftAt, Shown>> /\ now' = now + 1
    BY <1>3 DEF Tick, table, Shown
  <2> QED BY <2>1 DEF Promise!Tick, Promise!Next, Shown
<1>4. CASE UNCHANGED vars
  BY <1>4 DEF vars, Shown
<1> QED BY <1>1, <1>2, <1>3, <1>4 DEF Next

LEMMA InitRefines == Init => Promise!Init
<1> SUFFICES ASSUME Init PROVE Promise!Init
  OBVIOUS
<1>1. Shown = [c \in Calls |-> Promise!Waiting]
  BY DEF Init, Shown, Outcome, Idle, Promise!Waiting
<1>2. leftAt = [k \in Keys |-> [i \in Promise!Infos |-> Never]]
  BY DEF Init, Promise!Infos, Infos, Promise!Statuses, Statuses
<1> QED BY <1>1, <1>2 DEF Init, Promise!Init, Shown

(* The caches implement the promise: an unknown key is refused only while  *)
(* no app holds it, every other answer was right at most Staleness ago.    *)
THEOREM PromiseKept == Spec => KeepsPromise
BY InitRefines, StepRefines, TypeCorrect, Freshness, PTL
   DEF Spec, KeepsPromise, Promise!Spec
=============================================================================
