-------------------------- MODULE AdminAppsProofs ---------------------------
(***************************************************************************)
(* Theorems about AdminApps for any number of administrators, apps and     *)
(* keys: what the answers and the records say was done, and whose key and  *)
(* status an app has.                                                      *)
(***************************************************************************)
EXTENDS AdminApps, SequenceTheorems, TLAPS

Records == [req : Requests, action : Kinds, app : Apps, named : BOOLEAN]

(* What a step leaves alone of a request that has been submitted.          *)
Same(r) ==
    /\ reqs'[r].kind = reqs[r].kind
    /\ reqs'[r].app = reqs[r].app
    /\ reqs'[r].key = reqs[r].key

(* Where a request is tells whether its statement took effect: the lookup  *)
(* of the name comes before the statement of a delete and after that of a  *)
(* reset or a change of status.                                            *)
Progress ==
    \A r \in Requests :
        /\ reqs[r].pc \in {"new", "exec", "not_found"} => ~Committed(r)
        /\ reqs[r].pc = "lookup" => (Committed(r) <=> reqs[r].kind # "delete")
        /\ reqs[r].pc \in {"audit", "ok"} => Committed(r)
        /\ (reqs[r].pc # "new" /\ reqs[r].kind \in {"create", "reset_key"})
             => reqs[r].key \in Keys

(* A record comes with the answer, after which a request does nothing.     *)
Recorded ==
    \A n \in DOMAIN audit :
        LET record == audit[n]
        IN  /\ reqs[record.req].pc = "ok"
            /\ record.action = reqs[record.req].kind
            /\ record.app = reqs[record.req].app
            /\ \A m \in DOMAIN audit : audit[m].req = record.req => m = n

AdminInv == TypeOK /\ Progress /\ Recorded /\ LiveKeyIsLastDrawn /\ StatusIsLastSet

LEMMA Submission ==
    ASSUME TypeOK, NEW r \in Requests, reqs[r].pc # "new"
    PROVE  reqs[r] \in Working
BY DEF TypeOK, New

-----------------------------------------------------------------------------
(* Steps that leave the table alone leave to every app whose key and       *)
(* status it has.                                                          *)
LEMMA TableKept ==
    ASSUME AdminInv, UNCHANGED <<registry, commits>>,
           \A r \in Requests : Committed(r) => Same(r)
    PROVE  LiveKeyIsLastDrawn' /\ StatusIsLastSet'
<1>1. \A n \in DOMAIN commits : commits[n] \in Requests
  BY ElementOfSeq, LenProperties DEF AdminInv, TypeOK
<1>2. \A r : Committed(r)' <=> Committed(r)
  BY DEF Committed
<1>3. \A n \in DOMAIN commits : Same(commits[n])
  BY <1>1 DEF Committed
<1>4. \A a : \A n \in DOMAIN commits : SetsKey(commits[n], a)' <=> SetsKey(commits[n], a)
  BY <1>2, <1>3 DEF SetsKey, Same
<1>5. LiveKeyIsLastDrawn'
  <2> SUFFICES ASSUME NEW a \in DOMAIN registry
               PROVE  (\E r \in Requests : LastSetter(r, a) /\ registry[a].key = reqs[r].key)'
    BY DEF LiveKeyIsLastDrawn
  <2>1. PICK r \in Requests : LastSetter(r, a) /\ registry[a].key = reqs[r].key
    BY DEF AdminInv, LiveKeyIsLastDrawn
  <2>2. PICK n \in DOMAIN commits :
            /\ commits[n] = r /\ SetsKey(r, a)
            /\ \A m \in DOMAIN commits : SetsKey(commits[m], a) => m <= n
    BY <2>1 DEF LastSetter
  <2>3. LastSetter(r, a)'
    BY <1>4, <2>2 DEF LastSetter
  <2>4. reqs'[r].key = reqs[r].key
    BY <1>3, <2>2 DEF Same
  <2> QED BY <2>1, <2>3, <2>4
<1>6. StatusIsLastSet'
  <2> SUFFICES ASSUME NEW a \in DOMAIN registry
               PROVE  (LET Sets(n) == /\ reqs[commits[n]].app = a
                                      /\ reqs[commits[n]].kind \in {"create", "enable", "disable"}
                       IN  \E n \in DOMAIN commits :
                               /\ Sets(n)
                               /\ \A m \in DOMAIN commits : Sets(m) => m <= n
                               /\ registry[a].status = IF reqs[commits[n]].kind = "disable" THEN 0 ELSE 1)'
    BY DEF StatusIsLastSet
  <2>1. PICK n \in DOMAIN commits :
            /\ reqs[commits[n]].app = a
            /\ reqs[commits[n]].kind \in {"create", "enable", "disable"}
            /\ \A m \in DOMAIN commits :
                   (/\ reqs[commits[m]].app = a
                    /\ reqs[commits[m]].kind \in {"create", "enable", "disable"}) => m <= n
            /\ registry[a].status = IF reqs[commits[n]].kind = "disable" THEN 0 ELSE 1
    BY DEF AdminInv, StatusIsLastSet
  <2> QED BY <1>3, <2>1 DEF Same
<1> QED BY <1>5, <1>6

(* A step that writes no record and leaves answered requests alone.        *)
LEMMA RecordsKept ==
    ASSUME TypeOK, Recorded, UNCHANGED audit,
           \A r \in Requests : reqs[r].pc = "ok" => reqs'[r] = reqs[r]
    PROVE  Recorded'
<1>1. \A n \in DOMAIN audit : audit[n].req \in Requests
  <2>1. \A n \in DOMAIN audit : audit[n] \in Records
    BY ElementOfSeq, LenProperties DEF TypeOK, Records
  <2> QED BY <2>1 DEF Records
<1> QED BY <1>1 DEF Recorded

LEMMA GoesOn ==
    ASSUME TypeOK, NEW r \in Requests, reqs[r].pc # "new",
           NEW pc \in {"lookup", "exec", "audit"} \cup Answers, Goto(r, pc)
    PROVE  /\ reqs' \in [Requests -> {New} \cup Working]
           /\ reqs'[r].pc = pc
           /\ \A x \in Requests : Same(x) /\ (x # r => reqs'[x] = reqs[x])
<1>1. reqs[r] \in Working /\ reqs' = [reqs EXCEPT ![r] = [reqs[r] EXCEPT !.pc = pc]]
  BY Submission DEF Goto
<1>2. [reqs[r] EXCEPT !.pc = pc] \in Working
  BY <1>1 DEF Working
<1>3. /\ reqs' \in [Requests -> {New} \cup Working]
      /\ reqs'[r] = [reqs[r] EXCEPT !.pc = pc]
      /\ \A x \in Requests : x # r => reqs'[x] = reqs[x]
  BY <1>1, <1>2 DEF TypeOK
<1>4. reqs'[r].pc = pc /\ Same(r)
  BY <1>1, <1>3 DEF Same, Working
<1> QED BY <1>3, <1>4 DEF Same

-----------------------------------------------------------------------------
(* What the statement of a request makes of the table, by its kind.        *)
LEMMA EffectElsewhere ==
    ASSUME TypeOK, Progress, NEW r \in Requests, reqs[r].pc = "exec", Affects(r)
    PROVE  /\ IsTable(Effect(r))
           /\ \A b \in DOMAIN Effect(r) :
                  b # reqs[r].app => b \in DOMAIN registry /\ Effect(r)[b] = registry[b]
<1> DEFINE a == reqs[r].app
           k == reqs[r].key
<1>1. reqs[r] \in Working
  BY Submission
<1>2. a \in Apps /\ reqs[r].kind \in Kinds /\ IsTable(registry)
  BY <1>1 DEF Working, TypeOK
<1>3. CASE reqs[r].kind = "create"
  <2>1. k \in Keys
    BY <1>3 DEF Progress
  <2>2. Effect(r) = Insert(registry, a, k)
    BY <1>3 DEF Effect
  <2> QED BY <1>2, <2>1, <2>2 DEF Insert, IsTable, Rows, Statuses
<1>4. CASE reqs[r].kind = "delete"
  <2>1. Effect(r) = Remove(registry, a)
    BY <1>4 DEF Effect
  <2> QED BY <1>2, <2>1 DEF Remove, IsTable, Rows
<1>5. CASE reqs[r].kind = "reset_key"
  <2>1. k \in Keys
    BY <1>5 DEF Progress
  <2>2. Effect(r) = SetKey(registry, a, k)
    BY <1>5 DEF Effect
  <2> QED BY <1>2, <2>1, <2>2 DEF SetKey, IsTable, Rows
<1>6. CASE reqs[r].kind \in {"enable", "disable"}
  <2>1. Effect(r) = SetStatus(registry, a, Status(reqs[r].kind))
    BY <1>6 DEF Effect
  <2>2. Status(reqs[r].kind) \in {0, 1}
    BY DEF Status
  <2> QED BY <1>2, <2>1, <2>2 DEF SetStatus, IsTable, Rows, Statuses
<1> QED BY <1>2, <1>3, <1>4, <1>5, <1>6 DEF Kinds

(* The row of the app itself: a create and a reset give it the key, a      *)
(* create and a change of status its status, and nothing else does.        *)
LEMMA EffectHere ==
    ASSUME TypeOK, NEW r \in Requests, reqs[r].pc = "exec", Affects(r),
           reqs[r].app \in DOMAIN Effect(r)
    PROVE  LET a == reqs[r].app
           IN  /\ Effect(r)[a].key =
                     IF reqs[r].kind \in {"create", "reset_key"} THEN reqs[r].key ELSE registry[a].key
               /\ Effect(r)[a].status =
                     IF reqs[r].kind = "reset_key" THEN registry[a].status
                     ELSE IF reqs[r].kind = "disable" THEN 0 ELSE 1
               /\ reqs[r].kind # "create" => a \in DOMAIN registry
               /\ reqs[r].kind # "delete"
<1> DEFINE a == reqs[r].app
           k == reqs[r].key
<1>1. reqs[r] \in Working
  BY Submission
<1>2. a \in Apps /\ reqs[r].kind \in Kinds /\ IsTable(registry)
  BY <1>1 DEF Working, TypeOK
<1>3. CASE reqs[r].kind = "create"
  <2>1. Effect(r) = Insert(registry, a, k)
    BY <1>3 DEF Effect
  <2>2. Effect(r)[a] = [key |-> k, status |-> 1]
    BY <2>1 DEF Insert
  <2> QED BY <1>3, <2>2
<1>4. CASE reqs[r].kind = "delete"
  <2>1. Effect(r) = Remove(registry, a)
    BY <1>4 DEF Effect
  <2> QED BY <2>1 DEF Remove
<1>5. CASE reqs[r].kind = "reset_key"
  <2>1. Effect(r) = SetKey(registry, a, k)
    BY <1>5 DEF Effect
  <2>2. a \in DOMAIN registry
    BY <2>1 DEF SetKey
  <2>3. Effect(r)[a] = [registry[a] EXCEPT !.key = k]
    BY <2>1, <2>2 DEF SetKey
  <2>4. registry[a] \in Rows
    BY <1>2, <2>2 DEF IsTable
  <2> QED BY <1>5, <2>2, <2>3, <2>4 DEF Rows
<1>6. CASE reqs[r].kind \in {"enable", "disable"}
  <2>1. Effect(r) = SetStatus(registry, a, Status(reqs[r].kind))
    BY <1>6 DEF Effect
  <2>2. a \in DOMAIN registry
    BY <2>1 DEF SetStatus
  <2>3. Effect(r)[a] = [registry[a] EXCEPT !.status = Status(reqs[r].kind)]
    BY <2>1, <2>2 DEF SetStatus
  <2>4. registry[a] \in Rows
    BY <1>2, <2>2 DEF IsTable
  <2> QED BY <1>6, <2>2, <2>3, <2>4 DEF Rows, Status
<1> QED BY <1>2, <1>3, <1>4, <1>5, <1>6 DEF Kinds

(* The statement is the last in the history from then on, and the first    *)
(* of its request.                                                         *)
LEMMA Commits ==
    ASSUME AdminInv, NEW r \in Requests, NEW lost \in BOOLEAN, Exec(r, lost)
    PROVE  /\ commits' \in Seq(Requests) /\ Len(commits) \in Nat
           /\ DOMAIN commits = 1..Len(commits) /\ DOMAIN commits' = 1..(Len(commits) + 1)
           /\ \A n \in DOMAIN commits : commits'[n] = commits[n] /\ commits[n] \in Requests
           /\ commits'[Len(commits) + 1] = r
           /\ \A x : Committed(x)' <=> Committed(x) \/ x = r
<1>1. commits \in Seq(Requests) /\ commits' = Append(commits, r)
  BY DEF Exec, AdminInv, TypeOK
<1>2. Len(commits) \in Nat /\ DOMAIN commits = 1..Len(commits)
  BY <1>1, LenProperties
<1>3. /\ commits' \in Seq(Requests) /\ Len(commits') = Len(commits) + 1
      /\ \A n \in 1..Len(commits) : commits'[n] = commits[n]
      /\ commits'[Len(commits) + 1] = r
  BY <1>1, AppendProperties
<1>4. DOMAIN commits' = 1..(Len(commits) + 1)
  BY <1>3, LenProperties
<1>5. \A n \in DOMAIN commits : commits'[n] = commits[n] /\ commits[n] \in Requests
  BY <1>1, <1>2, <1>3, ElementOfSeq
<1>6. ASSUME NEW x PROVE Committed(x)' <=> Committed(x) \/ x = r
  <2>1. DOMAIN commits' = DOMAIN commits \cup {Len(commits) + 1}
    BY <1>2, <1>4
  <2> QED BY <1>3, <1>5, <2>1 DEF Committed
<1> QED BY <1>2, <1>3, <1>4, <1>5, <1>6

LEMMA ExecMoves ==
    ASSUME AdminInv, NEW r \in Requests, NEW lost \in BOOLEAN, Exec(r, lost)
    PROVE  /\ reqs' \in [Requests -> {New} \cup Working]
           /\ reqs'[r].pc = IF lost THEN "failed" ELSE AfterExec(reqs[r].kind)
           /\ \A x \in Requests : Same(x) /\ (x # r => reqs'[x] = reqs[x])
<1>1. reqs[r].pc = "exec" /\ TypeOK
  BY DEF Exec, AdminInv
<1>2. (IF lost THEN "failed" ELSE AfterExec(reqs[r].kind)) \in {"lookup", "exec", "audit"} \cup Answers
  BY DEF AfterExec, Answers
<1>3. Goto(r, IF lost THEN "failed" ELSE AfterExec(reqs[r].kind))
  BY DEF Exec
<1> QED BY <1>1, <1>2, <1>3, GoesOn

LEMMA ExecKey ==
    ASSUME AdminInv, NEW r \in Requests, NEW lost \in BOOLEAN, Exec(r, lost)
    PROVE  LiveKeyIsLastDrawn'
<1> DEFINE last == Len(commits) + 1
<1>1. /\ registry' = Effect(r) /\ reqs[r].pc = "exec" /\ Affects(r) /\ TypeOK /\ Progress
  BY DEF Exec, AdminInv
<1>2. \A x \in Requests : Same(x)
  BY ExecMoves
<1>3. /\ Len(commits) \in Nat
      /\ DOMAIN commits = 1..Len(commits) /\ DOMAIN commits' = 1..last
      /\ \A n \in DOMAIN commits : commits'[n] = commits[n] /\ commits[n] \in Requests
      /\ commits'[last] = r
      /\ \A x : Committed(x)' <=> Committed(x) \/ x = r
  BY Commits
<1>4. ASSUME NEW a, NEW n \in DOMAIN commits
      PROVE  SetsKey(commits[n], a)' <=> SetsKey(commits[n], a)
  <2>1. Committed(commits[n]) /\ Committed(commits[n])' /\ Same(commits[n]) /\ commits'[n] = commits[n]
    BY <1>2, <1>3 DEF Committed
  <2> QED BY <2>1 DEF SetsKey, Same
<1>5. ASSUME NEW a PROVE SetsKey(r, a)' <=> reqs[r].kind \in {"create", "reset_key"} /\ reqs[r].app = a
  BY <1>2, <1>3 DEF SetsKey, Same
<1> SUFFICES ASSUME NEW a \in DOMAIN Effect(r)
             PROVE  (\E x \in Requests : LastSetter(x, a) /\ registry[a].key = reqs[x].key)'
  BY <1>1 DEF LiveKeyIsLastDrawn
<1> HIDE DEF last
<1>6. CASE reqs[r].app = a /\ reqs[r].kind \in {"create", "reset_key"}
  <2>1. registry'[a].key = reqs'[r].key
    BY <1>1, <1>2, <1>6, EffectHere DEF Same
  <2>2. last \in DOMAIN commits' /\ \A m \in DOMAIN commits' : m <= last
    BY <1>3 DEF last
  <2>3. LastSetter(r, a)'
    BY <1>3, <1>5, <1>6, <2>2 DEF LastSetter
  <2> QED BY <2>1, <2>3
<1>7. CASE ~(reqs[r].app = a /\ reqs[r].kind \in {"create", "reset_key"})
  <2>1. a \in DOMAIN registry /\ registry'[a].key = registry[a].key
    <3>1. CASE reqs[r].app = a
      BY <1>1, <1>7, <3>1, EffectHere
    <3>2. CASE reqs[r].app # a
      BY <1>1, <3>2, EffectElsewhere
    <3> QED BY <3>1, <3>2
  <2>2. PICK x \in Requests : LastSetter(x, a) /\ registry[a].key = reqs[x].key
    BY <2>1 DEF AdminInv, LiveKeyIsLastDrawn
  <2>3. PICK n \in DOMAIN commits :
            /\ commits[n] = x /\ SetsKey(x, a)
            /\ \A m \in DOMAIN commits : SetsKey(commits[m], a) => m <= n
    BY <2>2 DEF LastSetter
  <2>4. ~SetsKey(r, a)'
    BY <1>5, <1>7
  <2>5. ASSUME NEW m \in DOMAIN commits', SetsKey(commits[m], a)' PROVE m <= n
    <3>1. CASE m = last
      BY <1>3, <2>4, <2>5, <3>1
    <3>2. CASE m \in DOMAIN commits
      <4>1. SetsKey(commits[m], a)
        BY <1>3, <1>4, <2>5, <3>2
      <4> QED BY <2>3, <3>2, <4>1
    <3> QED BY <1>3, <3>1, <3>2 DEF last
  <2>6. n \in DOMAIN commits' /\ commits'[n] = x
    BY <1>3, <2>3 DEF last
  <2>7. SetsKey(x, a)'
    <3>1. SetsKey(commits[n], a)
      BY <2>3
    <3>2. SetsKey(commits[n], a)'
      BY <1>4, <2>3, <3>1
    <3> QED BY <2>6, <3>2
  <2>8. LastSetter(x, a)'
    BY <2>5, <2>6, <2>7 DEF LastSetter
  <2> QED BY <1>2, <2>1, <2>2, <2>8 DEF Same
<1> QED BY <1>6, <1>7

LEMMA ExecStatus ==
    ASSUME AdminInv, NEW r \in Requests, NEW lost \in BOOLEAN, Exec(r, lost)
    PROVE  StatusIsLastSet'
<1> DEFINE last == Len(commits) + 1
           S    == {"create", "enable", "disable"}
<1>1. /\ registry' = Effect(r) /\ reqs[r].pc = "exec" /\ Affects(r) /\ TypeOK /\ Progress
  BY DEF Exec, AdminInv
<1>2. \A x \in Requests : Same(x)
  BY ExecMoves
<1>3. /\ Len(commits) \in Nat
      /\ DOMAIN commits = 1..Len(commits) /\ DOMAIN commits' = 1..last
      /\ \A n \in DOMAIN commits : commits'[n] = commits[n] /\ commits[n] \in Requests
      /\ commits'[last] = r
  BY Commits
<1> SUFFICES ASSUME NEW a \in DOMAIN Effect(r)
             PROVE  \E n \in DOMAIN commits' :
                        /\ reqs'[commits'[n]].app = a /\ reqs'[commits'[n]].kind \in S
                        /\ \A m \in DOMAIN commits' :
                               reqs'[commits'[m]].app = a /\ reqs'[commits'[m]].kind \in S => m <= n
                        /\ registry'[a].status =
                               IF reqs'[commits'[n]].kind = "disable" THEN 0 ELSE 1
  BY <1>1 DEF StatusIsLastSet
<1>4. /\ reqs'[commits'[last]].app = reqs[r].app /\ reqs'[commits'[last]].kind = reqs[r].kind
      /\ last \in DOMAIN commits'
  BY <1>2, <1>3 DEF Same
<1>5. \A n \in DOMAIN commits : /\ reqs'[commits'[n]].app = reqs[commits[n]].app
                               /\ reqs'[commits'[n]].kind = reqs[commits[n]].kind
                               /\ n \in DOMAIN commits'
  BY <1>2, <1>3 DEF Same
<1>6. \A m \in DOMAIN commits' : m <= last /\ (m = last \/ m \in DOMAIN commits)
  BY <1>3
<1> HIDE DEF last
<1>7. CASE reqs[r].app = a /\ reqs[r].kind \in S
  <2>1. registry'[a].status = IF reqs[r].kind = "disable" THEN 0 ELSE 1
    BY <1>1, <1>7, EffectHere
  <2> QED BY <1>4, <1>6, <1>7, <2>1
<1>8. CASE ~(reqs[r].app = a /\ reqs[r].kind \in S)
  <2>1. a \in DOMAIN registry /\ registry'[a].status = registry[a].status
    <3>1. CASE reqs[r].app = a
      <4>1. reqs[r].kind \in Kinds
        BY <1>1, Submission DEF Working
      <4>2. reqs[r].kind = "reset_key"
        BY <1>1, <1>8, <3>1, <4>1, EffectHere DEF Kinds
      <4> QED BY <1>1, <3>1, <4>2, EffectHere
    <3>2. CASE reqs[r].app # a
      BY <1>1, <3>2, EffectElsewhere
    <3> QED BY <3>1, <3>2
  <2>2. PICK n \in DOMAIN commits :
            /\ reqs[commits[n]].app = a /\ reqs[commits[n]].kind \in S
            /\ \A m \in DOMAIN commits :
                   reqs[commits[m]].app = a /\ reqs[commits[m]].kind \in S => m <= n
            /\ registry[a].status = IF reqs[commits[n]].kind = "disable" THEN 0 ELSE 1
    BY <2>1 DEF AdminInv, StatusIsLastSet
  <2>3. ASSUME NEW m \in DOMAIN commits',
               reqs'[commits'[m]].app = a /\ reqs'[commits'[m]].kind \in S
        PROVE  m <= n
    <3>1. CASE m = last
      BY <1>4, <1>8, <2>3, <3>1
    <3>2. CASE m \in DOMAIN commits
      BY <1>5, <2>2, <2>3, <3>2
    <3> QED BY <1>6, <3>1, <3>2
  <2>4. /\ reqs'[commits'[n]].app = a /\ reqs'[commits'[n]].kind \in S
        /\ n \in DOMAIN commits'
        /\ registry'[a].status = IF reqs'[commits'[n]].kind = "disable" THEN 0 ELSE 1
    BY <1>5, <2>1, <2>2
  <2> QED BY <2>3, <2>4
<1> QED BY <1>7, <1>8

LEMMA ExecInv ==
    ASSUME AdminInv, NEW r \in Requests, NEW lost \in BOOLEAN, Exec(r, lost)
    PROVE  AdminInv'
<1>1. /\ reqs[r].pc = "exec" /\ registry' = Effect(r) /\ audit' = audit /\ Affects(r)
      /\ TypeOK /\ Progress /\ Recorded
  BY DEF Exec, AdminInv
<1>2. /\ reqs' \in [Requests -> {New} \cup Working]
      /\ reqs'[r].pc = IF lost THEN "failed" ELSE AfterExec(reqs[r].kind)
      /\ \A x \in Requests : Same(x) /\ (x # r => reqs'[x] = reqs[x])
  BY ExecMoves
<1>3. TypeOK'
  BY <1>1, <1>2, EffectElsewhere, Commits DEF TypeOK
<1>4. Progress'
  <2> SUFFICES ASSUME NEW x \in Requests
               PROVE  (/\ reqs[x].pc \in {"new", "exec", "not_found"} => ~Committed(x)
                       /\ reqs[x].pc = "lookup" => (Committed(x) <=> reqs[x].kind # "delete")
                       /\ reqs[x].pc \in {"audit", "ok"} => Committed(x)
                       /\ (reqs[x].pc # "new" /\ reqs[x].kind \in {"create", "reset_key"})
                            => reqs[x].key \in Keys)'
    BY DEF Progress
  <2>1. CASE x = r
    <3>1. Committed(r)'
      BY Commits
    <3>2. /\ reqs'[r].pc \in {"failed", "audit", "lookup"}
          /\ reqs'[r].pc = "lookup" => reqs[r].kind # "delete"
      BY <1>2 DEF AfterExec
    <3>3. reqs[r].kind \in {"create", "reset_key"} => reqs[r].key \in Keys
      BY <1>1 DEF Progress
    <3> QED BY <1>2, <2>1, <3>1, <3>2, <3>3 DEF Same
  <2>2. CASE x # r
    <3>1. (Committed(x)' <=> Committed(x)) /\ reqs'[x] = reqs[x]
      BY <1>2, <2>2, Commits
    <3> QED BY <1>1, <3>1 DEF Progress
  <2> QED BY <2>1, <2>2
<1>5. Recorded'
  <2>1. \A x \in Requests : reqs[x].pc = "ok" => reqs'[x] = reqs[x]
    BY <1>1, <1>2
  <2> QED BY <1>1, <2>1, RecordsKept
<1> QED BY <1>3, <1>4, <1>5, ExecKey, ExecStatus DEF AdminInv

-----------------------------------------------------------------------------
(* The other steps change the state of one request, or log.                *)
LEMMA OnlyRequests ==
    ASSUME AdminInv, UNCHANGED <<registry, audit, commits>>,
           reqs' \in [Requests -> {New} \cup Working], Progress',
           \A r \in Requests : Committed(r) => Same(r),
           \A r \in Requests : reqs[r].pc = "ok" => reqs'[r] = reqs[r]
    PROVE  AdminInv'
<1>1. TypeOK'
  BY DEF AdminInv, TypeOK
<1>2. Recorded'
  BY RecordsKept DEF AdminInv
<1>3. LiveKeyIsLastDrawn' /\ StatusIsLastSet'
  BY TableKept
<1> QED BY <1>1, <1>2, <1>3 DEF AdminInv

LEMMA SubmitInv ==
    ASSUME AdminInv, NEW r \in Requests, NEW kind \in Kinds, NEW a \in Apps,
           NEW k \in Keys \cup {NoKey}, Submit(r, kind, a, k),
           kind \in {"create", "reset_key"} => k \in Keys
    PROVE  AdminInv'
<1> DEFINE pc  == IF kind = "delete" THEN "lookup" ELSE "exec"
           new == [pc |-> pc, kind |-> kind, app |-> a, key |-> k, named |-> kind = "create"]
<1>1. /\ reqs[r].pc = "new" /\ reqs' = [reqs EXCEPT ![r] = new]
      /\ UNCHANGED <<registry, audit, commits>>
  BY DEF Submit
<1>2. ~Committed(r) /\ Progress /\ reqs \in [Requests -> {New} \cup Working]
  BY <1>1 DEF AdminInv, Progress, TypeOK
<1>3. pc \in {"lookup", "exec"} /\ (pc = "lookup" => kind = "delete")
  OBVIOUS
<1>4. /\ new \in Working /\ new.pc \in {"lookup", "exec"}
      /\ new.pc = "lookup" => new.kind = "delete"
      /\ new.kind \in {"create", "reset_key"} => new.key \in Keys
  BY <1>3 DEF Working, Answers
<1> HIDE DEF new
<1>5. /\ reqs' \in [Requests -> {New} \cup Working] /\ reqs'[r] = new
      /\ \A x \in Requests : x # r => reqs'[x] = reqs[x]
  BY <1>1, <1>2, <1>4
<1>6. \A x : Committed(x)' <=> Committed(x)
  BY <1>1 DEF Committed
<1>7. Progress'
  BY <1>2, <1>4, <1>5, <1>6 DEF Progress
<1>8. \A x \in Requests : Committed(x) => Same(x)
  BY <1>2, <1>5 DEF Same
<1>9. \A x \in Requests : reqs[x].pc = "ok" => reqs'[x] = reqs[x]
  BY <1>1, <1>5
<1> QED BY <1>1, <1>5, <1>7, <1>8, <1>9, OnlyRequests

LEMMA LookupInv ==
    ASSUME AdminInv, NEW r \in Requests, NEW failed \in BOOLEAN, LookupName(r, failed)
    PROVE  AdminInv'
<1> DEFINE pc  == IF reqs[r].kind = "delete" THEN "exec" ELSE "audit"
           new == [reqs[r] EXCEPT !.pc = pc, !.named = ~failed /\ reqs[r].app \in DOMAIN registry]
<1>1. /\ reqs[r].pc = "lookup" /\ reqs' = [reqs EXCEPT ![r] = new]
      /\ UNCHANGED <<registry, audit, commits>>
  BY DEF LookupName
<1>2. Progress /\ TypeOK /\ reqs \in [Requests -> {New} \cup Working]
  BY DEF AdminInv, TypeOK
<1>3. reqs[r] \in Working
  BY <1>1, <1>2, Submission
<1>4. /\ new \in Working /\ new.pc = pc
      /\ new.kind = reqs[r].kind /\ new.app = reqs[r].app /\ new.key = reqs[r].key
  BY <1>3 DEF Working
<1>5. \/ pc = "exec" /\ reqs[r].kind = "delete"
      \/ pc = "audit" /\ reqs[r].kind # "delete"
  OBVIOUS
<1> HIDE DEF new, pc
<1>6. /\ reqs' \in [Requests -> {New} \cup Working] /\ reqs'[r] = new
      /\ \A x \in Requests : x # r => reqs'[x] = reqs[x]
  BY <1>1, <1>2, <1>4
<1>7. \A x : Committed(x)' <=> Committed(x)
  BY <1>1 DEF Committed
<1>8. Progress'
  BY <1>1, <1>2, <1>4, <1>5, <1>6, <1>7 DEF Progress
<1>9. \A x \in Requests : Same(x)
  BY <1>4, <1>6 DEF Same
<1>10. \A x \in Requests : reqs[x].pc = "ok" => reqs'[x] = reqs[x]
  BY <1>1, <1>6
<1> QED BY <1>1, <1>6, <1>8, <1>9, <1>10, OnlyRequests

(* The statement fails, or affects no row.                                 *)
LEMMA NoEffectInv ==
    ASSUME AdminInv, NEW r \in Requests, reqs[r].pc = "exec",
           NEW pc \in {"failed", "not_found"}, Goto(r, pc), UNCHANGED <<registry, audit, commits>>
    PROVE  AdminInv'
<1>1. /\ reqs' \in [Requests -> {New} \cup Working] /\ reqs'[r].pc = pc
      /\ \A x \in Requests : Same(x) /\ (x # r => reqs'[x] = reqs[x])
  BY GoesOn DEF Answers, AdminInv
<1>2. \A x : Committed(x)' <=> Committed(x)
  BY DEF Committed
<1>3. Progress'
  BY <1>1, <1>2 DEF Progress, AdminInv, Same
<1> QED BY <1>1, <1>3, OnlyRequests

LEMMA CrashInv == ASSUME AdminInv, Crash PROVE AdminInv'
<1>1. UNCHANGED <<registry, audit, commits>> /\ Progress /\ TypeOK
  BY DEF Crash, AdminInv
<1>2. ASSUME NEW r \in Requests
      PROVE  /\ reqs'[r] \in {New} \cup Working /\ Same(r)
             /\ \/ reqs'[r] = reqs[r]
                \/ InFlight(r) /\ reqs'[r].pc = "crashed"
  <2>1. CASE InFlight(r)
    <3>1. reqs[r] \in Working
      BY <1>1, <2>1, Submission DEF InFlight
    <3>2. reqs'[r] = [reqs[r] EXCEPT !.pc = "crashed"]
      BY <2>1 DEF Crash
    <3> QED BY <2>1, <3>1, <3>2 DEF Working, Answers, Same
  <2>2. CASE ~InFlight(r)
    <3>1. reqs'[r] = reqs[r]
      BY <2>2 DEF Crash
    <3> QED BY <1>1, <3>1 DEF Same, TypeOK
  <2> QED BY <2>1, <2>2
<1>3. reqs' \in [Requests -> {New} \cup Working]
  <2>1. reqs' = [r \in Requests |-> reqs'[r]]
    BY DEF Crash
  <2> QED BY <1>2, <2>1
<1>4. \A x : Committed(x)' <=> Committed(x)
  BY <1>1 DEF Committed
<1>5. Progress'
  BY <1>1, <1>2, <1>4 DEF Progress, InFlight, Same
<1>6. \A r \in Requests : reqs[r].pc = "ok" => reqs'[r] = reqs[r]
  BY <1>2 DEF InFlight
<1> QED BY <1>1, <1>2, <1>3, <1>5, <1>6, OnlyRequests

LEMMA LogInv ==
    ASSUME AdminInv, NEW r \in Requests, NEW written \in BOOLEAN, Log(r, written)
    PROVE  AdminInv'
<1> DEFINE record == [req |-> r, action |-> reqs[r].kind, app |-> reqs[r].app, named |-> reqs[r].named]
<1>1. /\ reqs[r].pc = "audit" /\ Goto(r, "ok") /\ UNCHANGED <<registry, commits>>
      /\ audit' = IF written THEN Append(audit, record) ELSE audit
      /\ TypeOK /\ Progress /\ Recorded
  BY DEF Log, AdminInv
<1>2. /\ reqs' \in [Requests -> {New} \cup Working] /\ reqs'[r].pc = "ok"
      /\ \A x \in Requests : Same(x) /\ (x # r => reqs'[x] = reqs[x])
  BY <1>1, GoesOn DEF Answers
<1>3. audit \in Seq(Records) /\ record \in Records
  <2>1. reqs[r] \in Working
    BY <1>1, Submission
  <2> QED BY <1>1, <2>1 DEF Working, TypeOK, Records
<1>4. /\ record.req = r /\ record.action = reqs'[r].kind /\ record.app = reqs'[r].app
  BY <1>2 DEF Same
<1> HIDE DEF record
<1>5. audit' \in Seq(Records)
  BY <1>1, <1>3, AppendProperties
<1>6. TypeOK'
  BY <1>1, <1>2, <1>5 DEF TypeOK, Records
<1>7. \A x : Committed(x)' <=> Committed(x)
  BY <1>1 DEF Committed
<1>8. Progress'
  BY <1>1, <1>2, <1>7 DEF Progress, Same
<1>9. Recorded'
  <2>1. \A x \in Requests : reqs[x].pc = "ok" => reqs'[x] = reqs[x]
    BY <1>1, <1>2
  <2>2. CASE ~written
    BY <1>1, <2>1, <2>2, RecordsKept
  <2>3. CASE written
    <3> DEFINE last == Len(audit) + 1
    <3>1. /\ Len(audit) \in Nat /\ DOMAIN audit = 1..Len(audit)
          /\ \A n \in DOMAIN audit : audit[n].req \in Requests
      <4>1. \A n \in 1..Len(audit) : audit[n] \in Records
        BY <1>3, ElementOfSeq
      <4> QED BY <1>3, <4>1, LenProperties DEF Records
    <3>2. /\ DOMAIN audit' = 1..last
          /\ audit'[last] = record
          /\ \A n \in DOMAIN audit : audit'[n] = audit[n]
      BY <1>1, <1>3, <1>5, <2>3, <3>1, AppendProperties, LenProperties
    <3>3. last \notin DOMAIN audit /\ \A n \in DOMAIN audit' : n = last \/ n \in DOMAIN audit
      BY <3>1, <3>2
    <3> HIDE DEF last
    <3>4. \A n \in DOMAIN audit : reqs[audit[n].req].pc = "ok" /\ audit[n].req # r
      BY <1>1 DEF Recorded
    <3> SUFFICES ASSUME NEW n \in DOMAIN audit'
                 PROVE  /\ reqs'[audit'[n].req].pc = "ok"
                        /\ audit'[n].action = reqs'[audit'[n].req].kind
                        /\ audit'[n].app = reqs'[audit'[n].req].app
                        /\ \A m \in DOMAIN audit' : audit'[m].req = audit'[n].req => m = n
      BY DEF Recorded
    <3>5. CASE n = last
      BY <1>2, <1>4, <3>2, <3>3, <3>4, <3>5
    <3>6. CASE n \in DOMAIN audit
      <4>1. /\ audit'[n] = audit[n] /\ reqs'[audit[n].req] = reqs[audit[n].req]
        BY <1>2, <3>1, <3>2, <3>4, <3>6
      <4>2. ASSUME NEW m \in DOMAIN audit', audit'[m].req = audit[n].req PROVE m = n
        <5>1. m # last
          BY <1>4, <3>2, <3>4, <3>6, <4>2
        <5>2. m \in DOMAIN audit /\ audit'[m] = audit[m]
          BY <3>2, <3>3, <5>1
        <5> QED BY <1>1, <3>6, <4>2, <5>2 DEF Recorded
      <4> QED BY <1>1, <3>6, <4>1, <4>2 DEF Recorded
    <3> QED BY <3>3, <3>5, <3>6
  <2> QED BY <2>2, <2>3
<1>10. LiveKeyIsLastDrawn' /\ StatusIsLastSet'
  BY <1>1, <1>2, TableKept
<1> QED BY <1>6, <1>8, <1>9, <1>10 DEF AdminInv

-----------------------------------------------------------------------------
LEMMA AdminInit == Init => AdminInv
<1> SUFFICES ASSUME Init PROVE AdminInv
  OBVIOUS
<1>1. /\ DOMAIN registry = {} /\ audit = << >> /\ commits = << >>
      /\ reqs = [r \in Requests |-> New]
  BY DEF Init
<1>2. /\ << >> \in Seq(Records) /\ << >> \in Seq(Requests) /\ DOMAIN << >> = {}
  BY EmptySeq
<1>3. DOMAIN audit = {} /\ DOMAIN commits = {}
  BY <1>1
<1>4. TypeOK
  <2>1. IsTable(registry)
    BY DEF Init, IsTable
  <2> QED BY <1>1, <2>1 DEF TypeOK
<1>5. Progress
  <2>1. \A r \in Requests : reqs[r].pc = "new" /\ ~Committed(r)
    BY <1>1, <1>3 DEF New, Committed
  <2> QED BY <2>1 DEF Progress
<1> QED BY <1>1, <1>3, <1>4, <1>5 DEF AdminInv, Recorded, LiveKeyIsLastDrawn, StatusIsLastSet

LEMMA AdminStep == AdminInv /\ [Next]_vars => AdminInv'
<1> SUFFICES ASSUME AdminInv, [Next]_vars PROVE AdminInv'
  OBVIOUS
<1>1. CASE UNCHANGED vars
  <2>1. UNCHANGED <<registry, audit, commits, reqs>>
    BY <1>1 DEF vars
  <2>2. \A r \in Requests : Same(r) /\ reqs'[r] = reqs[r]
    BY <2>1 DEF Same
  <2>3. Progress'
    BY <2>1 DEF AdminInv, Progress, Committed
  <2> QED BY <2>1, <2>2, <2>3, OnlyRequests DEF AdminInv, TypeOK
<1>2. ASSUME NEW r \in Requests, Handle(r) PROVE AdminInv'
  <2>1. ASSUME NEW a \in Apps, NEW k \in Keys, SubmitCreate(r, a, k) \/ SubmitReset(r, a, k)
        PROVE  AdminInv'
    BY <2>1, SubmitInv DEF SubmitCreate, SubmitReset, Kinds
  <2>2. ASSUME NEW a \in Apps, NEW kind \in {"enable", "disable", "delete"}, SubmitOther(r, kind, a)
        PROVE  AdminInv'
    BY <2>2, SubmitInv DEF SubmitOther, Kinds
  <2>3. ASSUME ExecNotFound(r) PROVE AdminInv'
    BY <2>3, NoEffectInv DEF ExecNotFound
  <2>4. ASSUME ExecFail(r) PROVE AdminInv'
    BY <2>4, NoEffectInv DEF ExecFail
  <2> QED BY <1>2, <2>1, <2>2, <2>3, <2>4, LookupInv, ExecInv, LogInv DEF Handle
<1> QED BY <1>1, <1>2, CrashInv DEF Next

-----------------------------------------------------------------------------
(* However many administrators act on however many apps, and wherever the  *)
(* process ends, every request, table and record is well typed.            *)
THEOREM AdminAppsTypes == Spec => []TypeOK
<1>1. AdminInv => TypeOK
  BY DEF AdminInv
<1> QED BY <1>1, AdminInit, AdminStep, PTL DEF Spec

(* No record without its change, one record at most for a request; what an *)
(* administrator is told was done was done, and what was reported missing  *)
(* was not done.                                                           *)
THEOREM ClaimsHold == Spec => []ClaimsAreTrue
<1>1. AdminInv => AuditedOnlyIfDone
  <2> SUFFICES ASSUME AdminInv PROVE AuditedOnlyIfDone
    OBVIOUS
  <2>1. \A n \in DOMAIN audit : audit[n].req \in Requests
    <3>1. \A n \in DOMAIN audit : audit[n] \in Records
      BY ElementOfSeq, LenProperties DEF AdminInv, TypeOK, Records
    <3> QED BY <3>1 DEF Records
  <2> QED BY <2>1 DEF AdminInv, AuditedOnlyIfDone, Recorded, Progress
<1>2. AdminInv => AnswersTellTheTruth
  BY DEF AdminInv, Progress, AnswersTellTheTruth
<1>3. AdminInv => ClaimsAreTrue
  BY <1>1, <1>2 DEF ClaimsAreTrue
<1> QED BY <1>3, AdminInit, AdminStep, PTL DEF Spec

(* The key of an app is that of the last create or reset to commit, its    *)
(* status that of the last create, enable or disable, for any number of    *)
(* concurrent ones.                                                        *)
THEOREM RowsHold == Spec => []RowsAreLastSet
<1>1. AdminInv => RowsAreLastSet
  BY DEF AdminInv, RowsAreLastSet
<1> QED BY <1>1, AdminInit, AdminStep, PTL DEF Spec

-----------------------------------------------------------------------------
(* Only a statement without effect is answered with a 404, and not that of *)
(* a create.                                                               *)
LEMMA WhoIsNotFound ==
    ASSUME TypeOK, [Next]_vars, NEW r \in Requests,
           reqs[r].pc = "exec", reqs'[r].pc = "not_found"
    PROVE  ~Affects(r) /\ reqs[r].kind # "create"
<1>1. ~UNCHANGED vars /\ ~Crash
  BY DEF vars, Crash, InFlight, TypeOK, Working, New
<1>2. PICK x \in Requests : Handle(x)
  BY <1>1 DEF Next
<1>3. x = r
  BY <1>2 DEF Handle, SubmitCreate, SubmitReset, SubmitOther, Submit, LookupName, Exec,
              ExecNotFound, ExecFail, Log, Goto, TypeOK
<1>4. reqs[r] \in Working
  BY Submission
<1>5. ~Log(r, TRUE) /\ ~Log(r, FALSE) /\ \A failed \in BOOLEAN : ~LookupName(r, failed)
  BY DEF Log, LookupName
<1>6. \A kind, a, k : ~Submit(r, kind, a, k)
  BY DEF Submit
<1>7. ASSUME NEW pc, pc # "not_found" PROVE ~Goto(r, pc)
  BY <1>4, <1>7 DEF Goto, TypeOK, Working
<1>8. \A lost \in BOOLEAN : ~Exec(r, lost)
  BY <1>7 DEF Exec, AfterExec
<1>9. ~ExecFail(r)
  BY <1>7 DEF ExecFail
<1>10. ExecNotFound(r)
  BY <1>2, <1>3, <1>5, <1>6, <1>8, <1>9 DEF Handle, SubmitCreate, SubmitReset, SubmitOther
<1> QED BY <1>7, <1>10 DEF ExecNotFound

(* What the DSN would have to say: on a connection that counts the rows    *)
(* found a 404 means that there is no such app, whoever acts on it at the  *)
(* same time.                                                              *)
THEOREM FoundRowsSuffice ==
    ASSUME ClientFoundRows = TRUE
    PROVE  Spec => NotFoundMeansAbsent
<1>1. AdminInv /\ [Next]_vars =>
         [\A r \in Requests :
             (reqs[r].pc = "exec" /\ reqs'[r].pc = "not_found")
               => reqs[r].app \notin DOMAIN registry]_vars
  <2> SUFFICES ASSUME AdminInv, [Next]_vars, NEW r \in Requests,
                      reqs[r].pc = "exec", reqs'[r].pc = "not_found"
               PROVE  reqs[r].app \notin DOMAIN registry
    OBVIOUS
  <2>1. ~Affects(r) /\ reqs[r].kind # "create"
    BY WhoIsNotFound DEF AdminInv
  <2> QED BY <2>1 DEF Affects, KeyAffects, StatusAffects
<1> QED BY <1>1, AdminInit, AdminStep, PTL DEF Spec, NotFoundMeansAbsent
=============================================================================
