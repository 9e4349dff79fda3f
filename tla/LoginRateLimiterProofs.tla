----------------------- MODULE LoginRateLimiterProofs -----------------------
(***************************************************************************)
(* Theorems about LoginRateLimiter for every limit, window and skew and    *)
(* any finite number of requests.                                          *)
(***************************************************************************)
EXTENDS LoginRateLimiter, FiniteSetTheorems, TLAPS

LEMMA FiniteRequests == ASSUME NEW S \in SUBSET Requests
                        PROVE  IsFiniteSet(S) /\ Cardinality(S) \in Nat
BY LimiterConstants, FS_Subset, FS_CardinalityType

LEMMA TypeInit == Init => TypeOK
BY DEF Init, TypeOK, NoSweep

LEMMA TypeStep == TypeOK /\ [Next]_vars => TypeOK'
<1> SUFFICES ASSUME TypeOK, [Next]_vars PROVE TypeOK'
  OBVIOUS
<1> USE DEF TypeOK
<1>1. ASSUME NEW r \in Requests, Arrive(r) PROVE TypeOK'
  BY <1>1 DEF Arrive
<1>2. ASSUME NEW r \in Requests, Allow(r) PROVE TypeOK'
  BY <1>2 DEF Allow, Valid
<1>3. ASSUME NEW r \in Requests, Reject(r) PROVE TypeOK'
  BY <1>3 DEF Reject, Valid
<1>4. ASSUME SweepBegins PROVE TypeOK'
  BY <1>4 DEF SweepBegins
<1>5. ASSUME Sweep PROVE TypeOK'
  BY <1>5 DEF Sweep, Valid
<1>6. ASSUME Tick PROVE TypeOK'
  BY <1>6 DEF Tick
<1>7. CASE UNCHANGED vars
  BY <1>7 DEF vars
<1> QED BY <1>1, <1>2, <1>3, <1>4, <1>5, <1>6, <1>7 DEF Next

(* Every variable keeps its type.                                          *)
THEOREM TypeCorrect == Spec => []TypeOK
BY TypeInit, TypeStep, PTL DEF Spec

-----------------------------------------------------------------------------
(* The clocks that were read are past, those in use by no more than the    *)
(* skew.                                                                   *)
ClocksArePast ==
    /\ \A r \in Requests : at[r] <= now
    /\ \A r \in Requests : state[r] = "waiting" => now <= at[r] + MaxSkew
    /\ sweep # NoSweep => sweep <= now

(* The slice of an address holds attempts of that address that were let    *)
(* through, never more than the limit, and all that are not yet older than *)
(* the window.                                                             *)
SlicesAreRight ==
    /\ \A i \in IPs : \A q \in attempts[i] : state[q] = "allowed" /\ ip[q] = i
    /\ \A i \in IPs : Cardinality(attempts[i]) <= maxAttempts
    /\ \A q \in Requests : state[q] = "allowed" =>
           q \in attempts[ip[q]] \/ at[q] <= now - window

RateAnywhere ==
    \A i \in IPs, t \in Int :
        Cardinality(Admitted(i, t, window - MaxSkew)) <= maxAttempts

RateInv == TypeOK /\ ClocksArePast /\ SlicesAreRight /\ RateAnywhere

LEMMA RateInit == Init => RateInv
<1> SUFFICES ASSUME Init PROVE RateInv
  OBVIOUS
<1>1. ClocksArePast
  BY LimiterConstants DEF Init, ClocksArePast
<1>2. Cardinality({}) <= maxAttempts
  BY FS_EmptySet, LimiterConstants
<1>3. SlicesAreRight
  BY <1>2 DEF Init, SlicesAreRight
<1>4. \A i \in IPs, t \in Int : Admitted(i, t, window - MaxSkew) = {}
  BY DEF Init, Admitted
<1>5. RateAnywhere
  BY <1>2, <1>4 DEF RateAnywhere
<1> QED BY <1>1, <1>3, <1>5, TypeInit DEF RateInv

(* A filter with a past clock keeps the slices right.                      *)
LEMMA ValidShrinks ==
    ASSUME RateInv, NEW i \in IPs, NEW t \in Int
    PROVE  /\ Valid(i, t) \subseteq attempts[i]
           /\ Cardinality(Valid(i, t)) <= maxAttempts
           /\ Cardinality(Valid(i, t)) \in Nat
<1>1. Valid(i, t) \subseteq attempts[i] /\ attempts[i] \in SUBSET Requests
  BY DEF Valid, RateInv, TypeOK
<1>2. /\ Cardinality(Valid(i, t)) <= Cardinality(attempts[i])
      /\ Cardinality(Valid(i, t)) \in Nat /\ Cardinality(attempts[i]) \in Nat
  BY <1>1, FiniteRequests, FS_Subset
<1> QED BY <1>1, <1>2, LimiterConstants DEF RateInv, SlicesAreRight

LEMMA AllowKeepsRate ==
    ASSUME RateInv, TypeOK', NEW r \in Requests, Allow(r)
    PROVE  RateInv'
<1> DEFINE i == ip[r]
           V == Valid(i, at[r])
<1>1. /\ i \in IPs /\ at[r] \in Nat /\ now \in Nat
      /\ state[r] = "waiting" /\ at[r] <= now /\ now <= at[r] + MaxSkew
      /\ UNCHANGED <<ip, at, sweep, now>>
  BY DEF Allow, RateInv, TypeOK, ClocksArePast
<1>2. /\ \A q \in Requests : q # r => state'[q] = state[q]
      /\ state'[r] = "allowed"
      /\ attempts'[i] = V \cup {r}
      /\ \A j \in IPs : j # i => attempts'[j] = attempts[j]
  BY <1>1 DEF Allow, RateInv, TypeOK
<1>3. V \subseteq attempts[i] /\ V \in SUBSET Requests /\ Cardinality(V) < maxAttempts
  <2>1. Cardinality(V) \in Nat /\ V \subseteq attempts[i]
    BY <1>1, ValidShrinks
  <2> QED BY <2>1, LimiterConstants DEF Allow, Spent, RateInv, TypeOK
<1>4. /\ IsFiniteSet(V \cup {r}) /\ Cardinality(V \cup {r}) \in Nat
      /\ Cardinality(V \cup {r}) <= maxAttempts
  <2>1. IsFiniteSet(V) /\ Cardinality(V) \in Nat
    BY <1>3, FiniteRequests
  <2>2. Cardinality(V \cup {r}) <= Cardinality(V) + 1
    <3> HIDE DEF V
    <3>1. Cardinality(V \cup {r}) = IF r \in V THEN Cardinality(V) ELSE Cardinality(V) + 1
      BY <2>1, FS_AddElement
    <3> QED BY <2>1, <3>1
  <2>3. V \cup {r} \in SUBSET Requests
    BY <1>3
  <2>4. IsFiniteSet(V \cup {r}) /\ Cardinality(V \cup {r}) \in Nat
    BY <2>3, FiniteRequests
  <2> QED BY <1>3, <2>1, <2>2, <2>4, LimiterConstants
<1>5. ClocksArePast'
  BY <1>1, <1>2 DEF RateInv, ClocksArePast
<1>6. SlicesAreRight'
  <2>1. ASSUME NEW j \in IPs, NEW q \in attempts'[j]
        PROVE  state'[q] = "allowed" /\ ip'[q] = j
    BY <1>1, <1>2, <1>3, <2>1 DEF RateInv, SlicesAreRight, TypeOK
  <2>2. ASSUME NEW j \in IPs PROVE Cardinality(attempts'[j]) <= maxAttempts
    BY <1>2, <1>4 DEF RateInv, SlicesAreRight
  <2>3. ASSUME NEW q \in Requests, state'[q] = "allowed"
        PROVE  q \in attempts'[ip'[q]] \/ at'[q] <= now' - window
    <3>1. CASE q = r
      BY <1>1, <1>2, <3>1
    <3>2. CASE q # r
      <4>1. q \in attempts[ip[q]] \/ at[q] <= now - window
        BY <1>2, <2>3, <3>2 DEF RateInv, SlicesAreRight
      <4>2. CASE q \in attempts[ip[q]] /\ ip[q] = i /\ at[q] > at[r] - window
        BY <1>1, <1>2, <4>2 DEF Valid
      <4>3. CASE ip[q] = i /\ ~(at[q] > at[r] - window)
        <5>1. at[q] \in Nat
          BY DEF RateInv, TypeOK
        <5> QED BY <1>1, <4>3, <5>1, LimiterConstants
      <4>4. CASE ip[q] # i
        BY <1>1, <1>2, <4>1, <4>4 DEF RateInv, TypeOK
      <4> QED BY <1>1, <4>1, <4>2, <4>3, <4>4
    <3> QED BY <3>1, <3>2
  <2> QED BY <2>1, <2>2, <2>3 DEF SlicesAreRight
<1>7. RateAnywhere'
  <2> SUFFICES ASSUME NEW j \in IPs, NEW t \in Int
               PROVE  Cardinality(Admitted(j, t, window - MaxSkew)') <= maxAttempts
    BY DEF RateAnywhere
  <2> DEFINE A == Admitted(j, t, window - MaxSkew)
  <2>1. CASE r \notin A'
    <3>1. A' \subseteq A
      BY <1>1, <1>2, <2>1 DEF Admitted
    <3>2. A \in SUBSET Requests /\ A' \in SUBSET Requests
      BY DEF Admitted
    <3>3. Cardinality(A') <= Cardinality(A) /\ Cardinality(A) \in Nat /\ Cardinality(A') \in Nat
      BY <3>1, <3>2, FiniteRequests, FS_Subset
    <3>4. Cardinality(A) <= maxAttempts
      BY DEF RateInv, RateAnywhere
    <3> QED BY <3>3, <3>4, LimiterConstants
  <2>2. CASE r \in A'
    <3>1. j = i /\ at[r] <= t + (window - MaxSkew)
      BY <1>1, <2>2 DEF Admitted
    <3>2. A' \subseteq V \cup {r}
      <4> SUFFICES ASSUME NEW q \in A', q # r PROVE q \in V
        OBVIOUS
      <4>1. q \in Requests /\ state[q] = "allowed" /\ ip[q] = i /\ t < at[q]
        BY <1>1, <1>2, <3>1 DEF Admitted
      <4>2. at[q] \in Nat
        BY <4>1 DEF RateInv, TypeOK
      <4>3. at[q] > now - window /\ at[q] > at[r] - window
        BY <1>1, <3>1, <4>1, <4>2, LimiterConstants
      <4>4. q \in attempts[i]
        BY <1>1, <4>1, <4>2, <4>3, LimiterConstants DEF RateInv, SlicesAreRight
      <4> QED BY <4>3, <4>4 DEF Valid
    <3>3. Cardinality(A') <= Cardinality(V \cup {r})
      BY <1>4, <3>2, FS_Subset
    <3>4. A' \in SUBSET Requests
      BY DEF Admitted
    <3>5. Cardinality(A') \in Nat
      BY <3>4, FiniteRequests
    <3> QED BY <1>4, <3>3, <3>5, LimiterConstants
  <2> QED BY <2>1, <2>2
<1> QED BY <1>5, <1>6, <1>7 DEF RateInv

(* Fewer attempts in the slices, of those that are old enough to go.       *)
LEMMA PruneKeepsRate ==
    ASSUME RateInv, TypeOK', NEW T \in [IPs -> Int],
           \A i \in IPs : attempts'[i] = Valid(i, T[i]) \/ attempts'[i] = attempts[i],
           \A i \in IPs : T[i] <= now,
           \A q \in Requests : (state'[q] = "allowed") <=> (state[q] = "allowed"),
           \A q \in Requests : state'[q] = "waiting" => state[q] = "waiting",
           UNCHANGED <<ip, at, now>>, sweep' # NoSweep => sweep' <= now
    PROVE  RateInv'
<1>1. ClocksArePast'
  BY DEF RateInv, ClocksArePast
<1>2. SlicesAreRight'
  <2>1. ASSUME NEW i \in IPs, NEW q \in attempts'[i]
        PROVE  state'[q] = "allowed" /\ ip'[q] = i
    BY <2>1 DEF Valid, RateInv, SlicesAreRight, TypeOK
  <2>2. ASSUME NEW i \in IPs PROVE Cardinality(attempts'[i]) <= maxAttempts
    BY <2>2, ValidShrinks DEF RateInv, SlicesAreRight
  <2>3. ASSUME NEW q \in Requests, state'[q] = "allowed"
        PROVE  q \in attempts'[ip'[q]] \/ at'[q] <= now' - window
    <3>1. /\ q \in attempts[ip[q]] \/ at[q] <= now - window
          /\ ip[q] \in IPs /\ at[q] \in Nat /\ now \in Nat
          /\ T[ip[q]] \in Int /\ T[ip[q]] <= now
      BY <2>3 DEF RateInv, SlicesAreRight, TypeOK
    <3>2. CASE q \in attempts'[ip[q]]
      BY <3>2
    <3>3. CASE q \notin attempts'[ip[q]]
      BY <3>1, <3>3, LimiterConstants DEF Valid
    <3> QED BY <3>2, <3>3
  <2> QED BY <2>1, <2>2, <2>3 DEF SlicesAreRight
<1>3. \A i \in IPs, t \in Int :
          Admitted(i, t, window - MaxSkew)' = Admitted(i, t, window - MaxSkew)
  BY DEF Admitted
<1>4. RateAnywhere'
  BY <1>3 DEF RateInv, RateAnywhere
<1> QED BY <1>1, <1>2, <1>4 DEF RateInv

LEMMA RateStep == RateInv /\ [Next]_vars => RateInv'
<1> SUFFICES ASSUME RateInv, [Next]_vars PROVE RateInv'
  OBVIOUS
<1>0. TypeOK /\ TypeOK' /\ ClocksArePast
  BY TypeStep DEF RateInv
<1>1. ASSUME NEW r \in Requests, Arrive(r) PROVE RateInv'
  <2>1. /\ now \in Nat /\ at'[r] = now /\ state'[r] = "waiting" /\ state[r] = "before"
        /\ \A q \in Requests : q # r => at'[q] = at[q] /\ state'[q] = state[q]
        /\ UNCHANGED <<attempts, ip, sweep, now>>
    BY <1>0, <1>1 DEF Arrive, TypeOK
  <2>2. ClocksArePast'
    BY <1>0, <2>1, LimiterConstants DEF ClocksArePast
  <2>3. SlicesAreRight'
    BY <1>0, <2>1 DEF RateInv, SlicesAreRight, TypeOK
  <2>4. \A i \in IPs, t \in Int :
            Admitted(i, t, window - MaxSkew)' = Admitted(i, t, window - MaxSkew)
    BY <2>1 DEF Admitted
  <2>5. RateAnywhere'
    BY <2>4 DEF RateInv, RateAnywhere
  <2> QED BY <1>0, <2>2, <2>3, <2>5 DEF RateInv
<1>2. ASSUME NEW r \in Requests, Allow(r) PROVE RateInv'
  BY <1>0, <1>2, AllowKeepsRate
<1>3. ASSUME NEW r \in Requests, Reject(r) PROVE RateInv'
  <2> DEFINE T == [i \in IPs |-> at[r]]
  <2>1. at[r] \in Nat /\ at[r] <= now /\ ip[r] \in IPs
    BY <1>0 DEF TypeOK, ClocksArePast
  <2>2. T \in [IPs -> Int] /\ \A i \in IPs : T[i] = at[r] /\ T[i] <= now
    BY <2>1
  <2>3. \A i \in IPs : attempts'[i] = Valid(i, T[i]) \/ attempts'[i] = attempts[i]
    BY <1>0, <1>3 DEF Reject, TypeOK
  <2>4. /\ \A q \in Requests : (state'[q] = "allowed") <=> (state[q] = "allowed")
        /\ \A q \in Requests : state'[q] = "waiting" => state[q] = "waiting"
        /\ UNCHANGED <<ip, at, now>> /\ (sweep' # NoSweep => sweep' <= now)
    BY <1>0, <1>3 DEF Reject, TypeOK, ClocksArePast
  <2> HIDE DEF T
  <2> QED BY <1>0, <2>2, <2>3, <2>4, PruneKeepsRate
<1>4. CASE SweepBegins
  BY <1>0, <1>4 DEF SweepBegins, RateInv, ClocksArePast, SlicesAreRight, RateAnywhere,
                    Admitted, TypeOK
<1>5. CASE Sweep
  <2> DEFINE T == [i \in IPs |-> sweep]
  <2>1. sweep \in Nat /\ sweep <= now
    BY <1>0, <1>5 DEF Sweep, TypeOK, ClocksArePast
  <2>2. T \in [IPs -> Int] /\ \A i \in IPs : T[i] = sweep /\ T[i] <= now
    BY <2>1
  <2>3. \A i \in IPs : attempts'[i] = Valid(i, T[i])
    BY <1>5, <2>2 DEF Sweep
  <2>4. UNCHANGED <<state, ip, at, now>> /\ sweep' = NoSweep
    BY <1>5 DEF Sweep
  <2> HIDE DEF T
  <2> QED BY <1>0, <2>2, <2>3, <2>4, PruneKeepsRate
<1>6. CASE Tick
  <2>1. now \in Nat /\ now' = now + 1 /\ UNCHANGED <<attempts, state, ip, at, sweep>>
    BY <1>0, <1>6 DEF Tick, TypeOK
  <2>2. \A r \in Requests : at[r] \in Nat
                              /\ (state[r] = "waiting" => now < at[r] + MaxSkew)
    BY <1>0, <1>6 DEF Tick, TypeOK
  <2>3. ClocksArePast'
    BY <1>0, <2>1, <2>2, LimiterConstants DEF ClocksArePast, TypeOK, NoSweep
  <2>4. SlicesAreRight'
    BY <1>0, <2>1, <2>2, LimiterConstants DEF RateInv, SlicesAreRight
  <2>5. RateAnywhere'
    BY <2>1 DEF RateInv, RateAnywhere, Admitted
  <2> QED BY <1>0, <2>3, <2>4, <2>5 DEF RateInv
<1>7. CASE UNCHANGED vars
  BY <1>0, <1>7 DEF vars, RateInv, ClocksArePast, SlicesAreRight, RateAnywhere, Admitted
<1> QED BY <1>1, <1>2, <1>3, <1>4, <1>5, <1>6, <1>7 DEF Next

(* No address gets more than maxAttempts logins in an interval shorter     *)
(* than the window by the skew.                                            *)
THEOREM RateHolds == Spec => []RateIsLimited
<1>1. RateInv => RateIsLimited
  <2> SUFFICES ASSUME RateInv, NEW i \in IPs, NEW t \in -1..now
               PROVE  Cardinality(Admitted(i, t, window - MaxSkew)) <= maxAttempts
    BY DEF RateIsLimited
  <2>1. t \in Int
    BY DEF RateInv, TypeOK
  <2> QED BY <2>1 DEF RateInv, RateAnywhere
<1> QED BY <1>1, RateInit, RateStep, PTL DEF Spec

(* A rejected login was preceded by maxAttempts admitted ones.             *)
THEOREM RejectionsAreEarned == Spec => RejectionIsEarned
<1>1. ASSUME RateInv, [Next]_vars, NEW r \in Requests,
             state[r] = "waiting", state'[r] = "rejected"
      PROVE  Cardinality({q \in Requests : /\ state[q] = "allowed" /\ ip[q] = ip[r]
                                           /\ at[q] > at[r] - window}) >= maxAttempts
  <2> DEFINE E == {q \in Requests : /\ state[q] = "allowed" /\ ip[q] = ip[r]
                                    /\ at[q] > at[r] - window}
  <2>1. Reject(r)
    <3>1. state'[r] # state[r]
      BY <1>1
    <3>2. PICK q \in Requests : Arrive(q) \/ Allow(q) \/ Reject(q)
      BY <1>1, <3>1 DEF Next, SweepBegins, Sweep, Tick, vars
    <3>3. q = r
      BY <1>1, <3>1, <3>2 DEF Arrive, Allow, Reject, RateInv, TypeOK
    <3> QED BY <1>1, <3>2, <3>3 DEF Arrive, Allow, RateInv, TypeOK
  <2>2. Valid(ip[r], at[r]) \subseteq E
    BY <1>1 DEF Valid, RateInv, SlicesAreRight, TypeOK
  <2>3. E \in SUBSET Requests /\ Valid(ip[r], at[r]) \in SUBSET Requests
    BY <2>2
  <2>4. Cardinality(Valid(ip[r], at[r])) <= Cardinality(E)
    BY <2>2, <2>3, FiniteRequests, FS_Subset
  <2>5. Cardinality(Valid(ip[r], at[r])) \in Nat /\ Cardinality(E) \in Nat
    BY <2>3, FiniteRequests
  <2>6. Cardinality(Valid(ip[r], at[r])) >= maxAttempts
    BY <2>1 DEF Reject, Spent
  <2> HIDE DEF E
  <2>7. Cardinality(E) >= maxAttempts
    BY <2>4, <2>5, <2>6, LimiterConstants
  <2> QED BY <2>7 DEF E
<1>2. RateInv /\ [Next]_vars =>
        [\A r \in Requests :
            (state[r] = "waiting" /\ state'[r] = "rejected")
              => Cardinality({q \in Requests : /\ state[q] = "allowed" /\ ip[q] = ip[r]
                                               /\ at[q] > at[r] - window})
                   >= maxAttempts]_vars
  BY <1>1
<1> QED BY <1>2, RateInit, RateStep, PTL DEF Spec, RejectionIsEarned
=============================================================================
