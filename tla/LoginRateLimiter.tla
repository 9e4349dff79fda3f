-------------------------- MODULE LoginRateLimiter --------------------------
(***************************************************************************)
(* internal/admin/ratelimit.go: at most maxAttempts logins per window and  *)
(* client address.  isAllowed and the sweep of cleanup read the clock      *)
(* before they take the lock, so a decision is made with a time that is    *)
(* already past; another decision may have been made with a later one.     *)
(*                                                                         *)
(* An attempt is the request that made it: attempts[ip] is the set of      *)
(* requests whose times the slice holds, at[r] the time of request r.      *)
(* Filtering and counting are all the code does with the slice, and the    *)
(* order of its elements plays no part in either.                          *)
(***************************************************************************)
EXTENDS Integers, FiniteSets

CONSTANTS
    IPs,           \* client addresses, as clientIP reports them
    Requests,      \* POST /api/login requests, one attempt each
    maxAttempts,
    window,
    MaxSkew,       \* longest time from time.Now() to the decision
    MaxTime        \* bound of the exploration

ASSUME LimiterConstants ==
    /\ maxAttempts \in Nat \ {0}
    /\ window \in Nat \ {0}
    /\ MaxSkew \in Nat
    /\ MaxTime \in Nat
    /\ IsFiniteSet(Requests)

VARIABLES
    attempts,   \* rl.attempts
    state,      \* of each request: before, waiting for the lock, decided
    ip,         \* the address of each request
    at,         \* the clock each request read
    sweep,      \* the clock the cleanup goroutine read, or NoSweep
    now         \* the clock

vars == <<attempts, state, ip, at, sweep, now>>

NoSweep == 0 - 1

Init ==
    /\ attempts = [i \in IPs |-> {}]
    /\ state = [r \in Requests |-> "before"]
    /\ ip \in [Requests -> IPs]
    /\ at = [r \in Requests |-> 0]
    /\ sweep = NoSweep
    /\ now = 0

-----------------------------------------------------------------------------
(* now := time.Now(), before the lock.                                     *)
Arrive(r) ==
    /\ state[r] = "before"
    /\ state' = [state EXCEPT ![r] = "waiting"]
    /\ at' = [at EXCEPT ![r] = now]
    /\ UNCHANGED <<attempts, ip, sweep, now>>

(* The attempts that a filter with the clock at t keeps.                   *)
Valid(i, t) == {q \in attempts[i] : at[q] > t - window}

(* Mutant of Spent: one attempt more.                                      *)
OverSpent(i, t) == Cardinality(Valid(i, t)) > maxAttempts

Spent(i, t) == Cardinality(Valid(i, t)) >= maxAttempts

Allow(r) ==
    /\ state[r] = "waiting"
    /\ ~Spent(ip[r], at[r])
    /\ attempts' = [attempts EXCEPT ![ip[r]] = Valid(ip[r], at[r]) \cup {r}]
    /\ state' = [state EXCEPT ![r] = "allowed"]
    /\ UNCHANGED <<ip, at, sweep, now>>

(* Mutant of Reject: a rejected attempt is recorded too.                   *)
RejectCounted(r) ==
    /\ state[r] = "waiting"
    /\ Spent(ip[r], at[r])
    /\ attempts' = [attempts EXCEPT ![ip[r]] = Valid(ip[r], at[r]) \cup {r}]
    /\ state' = [state EXCEPT ![r] = "rejected"]
    /\ UNCHANGED <<ip, at, sweep, now>>

Reject(r) ==
    /\ state[r] = "waiting"
    /\ Spent(ip[r], at[r])
    /\ attempts' = [attempts EXCEPT ![ip[r]] = Valid(ip[r], at[r])]
    /\ state' = [state EXCEPT ![r] = "rejected"]
    /\ UNCHANGED <<ip, at, sweep, now>>

(* Mutant of SweepBegins: the sweep keeps the cutoff in place of the time. *)
SweepBeginsCutoff ==
    /\ sweep = NoSweep
    /\ sweep' = now - window
    /\ UNCHANGED <<attempts, state, ip, at, now>>

(* The ticker of cleanup fires; then the sweep under the lock.  An address *)
(* with no attempt left is deleted from the map, which reads as none.      *)
SweepBegins ==
    /\ sweep = NoSweep
    /\ sweep' = now
    /\ UNCHANGED <<attempts, state, ip, at, now>>

Sweep ==
    /\ sweep # NoSweep
    /\ attempts' = [i \in IPs |-> Valid(i, sweep)]
    /\ sweep' = NoSweep
    /\ UNCHANGED <<state, ip, at, now>>

Tick ==
    /\ now < MaxTime
    /\ \A r \in Requests : state[r] = "waiting" => now < at[r] + MaxSkew
    /\ now' = now + 1
    /\ UNCHANGED <<attempts, state, ip, at, sweep>>

Next ==
    \/ \E r \in Requests : Arrive(r) \/ Allow(r) \/ Reject(r)
    \/ SweepBegins
    \/ Sweep
    \/ Tick

Spec == Init /\ [][Next]_vars

-----------------------------------------------------------------------------
(* Every variable holds a value of its type.                               *)
TypeOK ==
    /\ attempts \in [IPs -> SUBSET Requests]
    /\ state \in [Requests -> {"before", "waiting", "allowed", "rejected"}]
    /\ ip \in [Requests -> IPs]
    /\ at \in [Requests -> Nat]
    /\ sweep \in Nat \cup {NoSweep}
    /\ now \in Nat

(* The logins of one address admitted with a time in an interval.          *)
Admitted(i, from, length) ==
    {r \in Requests : /\ state[r] = "allowed" /\ ip[r] = i
                      /\ from < at[r] /\ at[r] <= from + length}

(* No address gets more than maxAttempts logins in any interval that is    *)
(* shorter than the window by the skew, whatever the order in which the    *)
(* lock is taken and however often the sweep runs in between: an attempt   *)
(* another one has pruned too early is at least that old.                  *)
RateIsLimited ==
    \A i \in IPs, t \in -1..now :
        Cardinality(Admitted(i, t, window - MaxSkew)) <= maxAttempts

(* A login is rejected only on account of maxAttempts logins of the same   *)
(* address that were let through and are no older than the window: neither *)
(* rejected attempts nor other addresses count against it.                 *)
RejectionIsEarned ==
    [][\A r \in Requests :
          (state[r] = "waiting" /\ state'[r] = "rejected")
            => Cardinality({q \in Requests : /\ state[q] = "allowed" /\ ip[q] = ip[r]
                                             /\ at[q] > at[r] - window})
                 >= maxAttempts]_vars
=============================================================================
