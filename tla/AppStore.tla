------------------------------ MODULE AppStore ------------------------------
(***************************************************************************)
(* internal/store/app.go shared by the two services: every instance of the *)
(* speech service and of the admin service has an AppStore, a cache of its *)
(* own over the one table app_registry.  Requests run Authenticate through *)
(* the middleware of internal/api/middleware.go and then, when accepted,   *)
(* a handler that may write rows owned by the app.  Administrators run     *)
(* Create, UpdateStatus, UpdateAPIKey and Delete, which clear the cache of *)
(* the store they are called on and no other.                              *)
(*                                                                         *)
(* Time is a clock read by time.Now().  A request that has read the table  *)
(* reaches its insertion, and an accepted one its write, within MaxDelay:  *)
(* the code sets no such bound, MaxDelay is whatever it takes.             *)
(***************************************************************************)
EXTENDS AppTable, FiniteSets

CONSTANTS AuthStores,   \* the stores of the speech service's instances
          AdminStores,  \* the stores of the admin service's instances
          Calls,        \* requests in flight
          Admins,       \* administrators' requests in flight
          TTL,          \* s.ttl, positive: LoadFromEnv ignores any other setting
          MaxSize,      \* s.maxSize
          MaxDelay,     \* longest time between two steps of one request
          Losses,       \* BOOLEAN if the result of a statement can be lost
          MaxTime       \* bound of the exploration

Stores == AuthStores \cup AdminStores

ASSUME StoreConstants ==
    /\ TTL \in Nat \ {0}
    /\ MaxSize \in Nat \ {0}
    /\ MaxDelay \in Nat
    /\ MaxTime \in Nat
    /\ ClientFoundRows \in BOOLEAN
    /\ Losses \subseteq BOOLEAN

VARIABLES
    registry,   \* app_registry
    rows,       \* the apps that own rows of vocabulary_profile, local_asr_config
    cache,      \* s.cache of every store
    calls,      \* the requests being authenticated and handled
    ops,        \* the administrators' requests
    now,        \* the clock
    leftAt      \* history: when a key last ceased to resolve to an info

table == <<registry, rows, leftAt>>
vars  == <<registry, rows, cache, calls, ops, now, leftAt>>

-----------------------------------------------------------------------------
(* Cache entries, and the states of a request: before its answer           *)
(* (idle, query, fill), then what the middleware answered.                 *)
Entries == [info : Infos, expiresAt : Nat]
IsCache(entries) ==
    DOMAIN entries \subseteq Keys /\ entries \in [DOMAIN entries -> Entries]

NoEntries == [k \in {} |-> {}]

IdleCalls   == [pc : {"idle"}]
QueryCalls  == [pc : {"query"}, store : AuthStores, key : Keys]
FillCalls   == [pc : {"fill"}, store : AuthStores, key : Keys,
                info : Infos, readAt : Nat]
HandleCalls == [pc : {"handler"}, key : Keys, info : Infos, since : Nat]
DeniedCalls == [pc : {"forbidden"}, key : Keys, info : Infos]
UnknownCalls == [pc : {"unauthorized"}, key : Keys]
ErrorCalls  == [pc : {"error"}]

AllCalls == IdleCalls \cup QueryCalls \cup FillCalls \cup HandleCalls
            \cup DeniedCalls \cup UnknownCalls \cup ErrorCalls

Idle == [pc |-> "idle"]

(* Mutant of Answer: the status is not looked at.                          *)
AnswerUnchecked(key, info) ==
    [pc |-> "handler", key |-> key, info |-> info, since |-> now]

(* AuthMiddleware after a nil error and a non-nil info.                    *)
Answer(key, info) ==
    IF info.status = 0 THEN [pc |-> "forbidden", key |-> key, info |-> info]
    ELSE [pc |-> "handler", key |-> key, info |-> info, since |-> now]

IdleOps    == [pc : {"idle"}]
PendingOps == [pc : {"invalidate"}, store : AdminStores]

(* How long an answer can outlive the row it came from: the row is read at *)
(* most MaxDelay before its entry is made, and the entry is used strictly  *)
(* before it expires.                                                      *)
Staleness == MaxDelay + TTL - 1

(* A time before any at which a revoked answer could still be in use.      *)
Never == 0 - (Staleness + MaxDelay + 1)

-----------------------------------------------------------------------------
Init ==
    /\ registry = [a \in {} |-> {}]
    /\ rows = {}
    /\ cache = [s \in Stores |-> NoEntries]
    /\ calls = [c \in Calls |-> Idle]
    /\ ops = [a \in Admins |-> Idle]
    /\ now = 0
    /\ leftAt = [k \in Keys |-> [i \in Infos |-> Never]]

-----------------------------------------------------------------------------
(* Authenticate.                                                           *)
(* Mutant of Live: an entry is used once more when it expires.             *)
LiveAtExpiry(entry) == now <= entry.expiresAt

Live(entry) == now < entry.expiresAt

Hit(s, k) == k \in DOMAIN cache[s] /\ Live(cache[s][k])

(* The key is looked up under the read lock; a live entry is the answer.   *)
Lookup(c, s, k) ==
    /\ calls[c].pc = "idle"
    /\ calls' = [calls EXCEPT ![c] =
                    IF Hit(s, k) THEN Answer(k, cache[s][k].info)
                    ELSE [pc |-> "query", store |-> s, key |-> k]]
    /\ UNCHANGED <<table, cache, ops, now>>

(* The lock is released: the row is read while others change it.           *)
QueryRow(c) ==
    /\ calls[c].pc = "query"
    /\ \E i \in Infos :
          /\ Resolves(registry, calls[c].key, i)
          /\ calls' = [calls EXCEPT ![c] =
                          [pc |-> "fill", store |-> calls[c].store,
                           key |-> calls[c].key, info |-> i, readAt |-> now]]
    /\ UNCHANGED <<table, cache, ops, now>>

QueryNone(c) ==
    /\ calls[c].pc = "query"
    /\ Unresolved(registry, calls[c].key)
    /\ calls' = [calls EXCEPT ![c] = [pc |-> "unauthorized", key |-> calls[c].key]]
    /\ UNCHANGED <<table, cache, ops, now>>

(* Mutant of QueryFail: every error is taken for sql.ErrNoRows.            *)
QueryFailUnknown(c) ==
    /\ calls[c].pc = "query"
    /\ calls' = [calls EXCEPT ![c] = [pc |-> "unauthorized", key |-> calls[c].key]]
    /\ UNCHANGED <<table, cache, ops, now>>

QueryFail(c) ==
    /\ calls[c].pc = "query"
    /\ calls' = [calls EXCEPT ![c] = [pc |-> "error"]]
    /\ UNCHANGED <<table, cache, ops, now>>

(* Mutants of Oldest and Full: the comparison the wrong way, off by one.   *)
Newest(entries) ==
    {k \in DOMAIN entries :
        \A l \in DOMAIN entries : entries[k].expiresAt >= entries[l].expiresAt}
OverFull(entries) == Cardinality(DOMAIN entries) > MaxSize

(* The entries evictOldest may pick: the map has no order, so any of those *)
(* that expire first.                                                      *)
Oldest(entries) ==
    {k \in DOMAIN entries :
        \A l \in DOMAIN entries : entries[k].expiresAt <= entries[l].expiresAt}

Full(entries) == Cardinality(DOMAIN entries) >= MaxSize

WithoutKey(entries, k) == [l \in DOMAIN entries \ {k} |-> entries[l]]

(* The map just before the assignment: the test of the size does not ask   *)
(* whether the key is there already.                                       *)
MadeRoom(entries) ==
    IF Full(entries) THEN {WithoutKey(entries, k) : k \in Oldest(entries)}
    ELSE {entries}

WithEntry(entries, k, entry) ==
    [l \in DOMAIN entries \cup {k} |-> IF l = k THEN entry ELSE entries[l]]

Fill(c) ==
    /\ calls[c].pc = "fill"
    /\ \E room \in MadeRoom(cache[calls[c].store]) :
          cache' = [cache EXCEPT ![calls[c].store] =
                       WithEntry(room, calls[c].key,
                                 [info |-> calls[c].info, expiresAt |-> now + TTL])]
    /\ calls' = [calls EXCEPT ![c] = Answer(calls[c].key, calls[c].info)]
    /\ UNCHANGED <<table, ops, now>>

(* The handlers that PUT a vocabulary or a local configuration write under *)
(* the app id the middleware put in the context; no handler asks again.    *)
WriteRow(c) ==
    /\ calls[c].pc = "handler"
    /\ rows' = rows \cup {calls[c].info.app}
    /\ calls' = [calls EXCEPT ![c] = Idle]
    /\ UNCHANGED <<registry, leftAt, cache, ops, now>>

(* The other handlers, and the requests the middleware aborted.            *)
Finish(c) ==
    /\ calls[c].pc \in {"handler", "forbidden", "unauthorized", "error"}
    /\ calls' = [calls EXCEPT ![c] = Idle]
    /\ UNCHANGED <<table, cache, ops, now>>

-----------------------------------------------------------------------------
(* The table changes; history records which answers ceased to be right.    *)
Change(new) ==
    /\ registry' = new
    /\ leftAt' = [k \in Keys |-> [i \in Infos |->
                    IF Resolves(registry, k, i) /\ ~Resolves(new, k, i)
                    THEN now ELSE leftAt[k][i]]]

(* Keys and ids are random: one that was used before is never drawn again. *)
FreshKey(k) == Unresolved(registry, k) /\ \A i \in Infos : leftAt[k][i] = Never
FreshApp(a) == /\ a \notin DOMAIN registry
               /\ \A k \in Keys, i \in Infos : i.app = a => leftAt[k][i] = Never

Create(op, a, k) ==
    /\ ops[op].pc = "idle"
    /\ FreshApp(a) /\ FreshKey(k)
    /\ CanInsert(registry, a, k)
    /\ Change(Insert(registry, a, k))
    /\ UNCHANGED <<rows, cache, calls, ops, now>>

(* Mutant of Changed: the cache is not invalidated.                        *)
ChangedOnly(op, s, lost) == ops' = [ops EXCEPT ![op] = Idle]

(* A statement that took effect is followed by the invalidation, unless    *)
(* its result was lost on the way: then the method returns the error.      *)
Changed(op, s, lost) ==
    ops' = [ops EXCEPT ![op] =
               IF lost THEN Idle ELSE [pc |-> "invalidate", store |-> s]]

UpdateStatus(op, s, a, status, lost) ==
    /\ ops[op].pc = "idle"
    /\ StatusAffects(registry, a, status)
    /\ Change(SetStatus(registry, a, status))
    /\ Changed(op, s, lost)
    /\ UNCHANGED <<rows, cache, calls, now>>

UpdateAPIKey(op, s, a, k, lost) ==
    /\ ops[op].pc = "idle"
    /\ FreshKey(k)
    /\ KeyAffects(registry, a, k)
    /\ Change(SetKey(registry, a, k))
    /\ Changed(op, s, lost)
    /\ UNCHANGED <<rows, cache, calls, now>>

(* The three DELETEs of the transaction take effect together.              *)
Delete(op, s, a, lost) ==
    /\ ops[op].pc = "idle"
    /\ a \in DOMAIN registry
    /\ Change(Remove(registry, a))
    /\ rows' = rows \ {a}
    /\ Changed(op, s, lost)
    /\ UNCHANGED <<cache, calls, now>>

invalidateCache(op) ==
    /\ ops[op].pc = "invalidate"
    /\ cache' = [cache EXCEPT ![ops[op].store] = NoEntries]
    /\ ops' = [ops EXCEPT ![op] = Idle]
    /\ UNCHANGED <<table, calls, now>>

-----------------------------------------------------------------------------
Started(call) == IF call.pc = "fill" THEN call.readAt ELSE call.since

Tick ==
    /\ now < MaxTime
    /\ \A c \in Calls : calls[c].pc \in {"fill", "handler"} =>
                            now < Started(calls[c]) + MaxDelay
    /\ now' = now + 1
    /\ UNCHANGED <<table, cache, calls, ops>>

Authenticate(c) ==
    \/ \E s \in AuthStores, k \in Keys : Lookup(c, s, k)
    \/ QueryRow(c)
    \/ QueryNone(c)
    \/ QueryFail(c)
    \/ Fill(c)

Request(c) == Authenticate(c) \/ WriteRow(c) \/ Finish(c)

Administer(op) ==
    \/ \E a \in Apps, k \in Keys : Create(op, a, k)
    \/ \E s \in AdminStores, a \in Apps, lost \in Losses :
          \/ \E status \in Statuses : UpdateStatus(op, s, a, status, lost)
          \/ \E k \in Keys : UpdateAPIKey(op, s, a, k, lost)
          \/ Delete(op, s, a, lost)
    \/ invalidateCache(op)

Next ==
    \/ \E c \in Calls : Request(c)
    \/ \E op \in Admins : Administer(op)
    \/ Tick

Spec == Init /\ [][Next]_vars

-----------------------------------------------------------------------------
(* Every variable holds a value of its type.                               *)
TypeOK ==
    /\ IsTable(registry)
    /\ rows \subseteq Apps
    /\ DOMAIN cache = Stores /\ \A s \in Stores : IsCache(cache[s])
    /\ calls \in [Calls -> AllCalls]
    /\ ops \in [Admins -> IdleOps \cup PendingOps]
    /\ now \in Nat
    /\ leftAt \in [Keys -> [Infos -> Int]]

(* No cache ever holds more entries than its limit, although the insertion *)
(* tests the size before it knows whether the key is new, and although     *)
(* several requests fill one cache after all of them missed it.            *)
CacheWithinLimit ==
    \A s \in Stores : Cardinality(DOMAIN cache[s]) <= MaxSize

(* An answer given for a key is right now, or was at most d ago.           *)
HeldWithin(key, info, d) ==
    Resolves(registry, key, info) \/ now <= leftAt[key][info] + d

Decided(call) == call.pc \in {"handler", "forbidden"}

(* Whatever the middleware lets pass or forbids, from the cache or from    *)
(* the table, was what the table said at most Staleness earlier: a         *)
(* slow request that overwrites a newer entry, or inserts after another    *)
(* store or an administrator changed the app, cannot prolong it further.   *)
AnswersStayFresh ==
    [][\A c \in Calls :
          (~Decided(calls[c]) /\ Decided(calls'[c]))
            => HeldWithin(calls'[c].key, calls'[c].info, Staleness)]_vars

(* A handler writes rows for an app only if a request with a key of that   *)
(* app was right at most Staleness + MaxDelay earlier: the time in which a *)
(* deleted or disabled app can still gain rows is bounded.                 *)
WritesStayAuthorised ==
    [][\A a \in rows' \ rows :
          \E k \in Keys : HeldWithin(k, [app |-> a, status |-> 1],
                                     Staleness + MaxDelay)]_vars

(* Once its app has another key, a key is not accepted later than d after  *)
(* the reset.                                                              *)
OldKeyStopsWithin(d) ==
    \A c \in Calls, a \in DOMAIN registry :
        LET call == calls'[c]
        IN  (/\ calls[c].pc # "handler" /\ call.pc = "handler"
             /\ call.info.app = a /\ registry[a].key # call.key)
              => now <= leftAt[call.key][call.info] + d

(* When administrators and requests share one store and no result is lost, *)
(* a wrong entry that is left once the administrators' calls have returned *)
(* was made at or after the change, by a request that had read the old row *)
(* and overtook it: what was cached before the change is gone.             *)
Wrong(s, k) == ~Resolves(registry, k, cache[s][k].info)

InvalidationClears ==
    (TRUE \notin Losses /\ \A op \in Admins : ops[op].pc = "idle")
      => \A s \in Stores :
            (AdminStores = {s})
              => \A k \in DOMAIN cache[s] :
                    Wrong(s, k) => leftAt[k][cache[s][k].info]
                                     <= cache[s][k].expiresAt - TTL

(* A live entry gives way to a new one only when no entry has expired: the *)
(* eviction never costs a valid app its entry while a dead one stays.      *)
EvictionSparesLive ==
    [][\A s \in Stores, k \in Keys :
          (k \in DOMAIN cache[s] /\ k \notin DOMAIN cache'[s]
             /\ DOMAIN cache'[s] # {} /\ Live(cache[s][k]))
            => \A l \in DOMAIN cache[s] : Live(cache[s][l])]_vars

-----------------------------------------------------------------------------
(* A request shows its answer and nothing of how it was found.             *)
Outcome(call) ==
    IF call.pc \in {"idle", "query", "fill"} THEN [pc |-> "waiting"]
    ELSE IF call.pc = "handler"
         THEN [pc |-> "handler", key |-> call.key, info |-> call.info]
         ELSE call

Promise == INSTANCE BoundedStaleAuth WITH
              NeverHeld <- Never,
              outcome   <- [c \in Calls |-> Outcome(calls[c])]

(* The caches of all stores together implement the promise: an unknown key *)
(* is refused only while no app holds it, and every other answer was right *)
(* at most Staleness ago.                                                  *)
KeepsPromise == Promise!Spec
=============================================================================
