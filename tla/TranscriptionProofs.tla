------------------------ MODULE TranscriptionProofs -------------------------
(***************************************************************************)
(* Theorems about Transcription for any lists of models and any timeouts:  *)
(* the order of the failover, the turn of every model, whose answer takes  *)
(* the place of the text in the buffer, and what becomes of that text.     *)
(***************************************************************************)
EXTENDS Transcription, SequenceTheorems, WellFoundedInduction, TLAPS

LEMMA TimeoutsPositive ==
    ASSUME config \in Configs
    PROVE  EffectiveTimeout \in Nat \ {0}
<1>1. config.qwenTimeout \in Nat
  BY TranscriptionConstants DEF Configs
<1>2. CASE Engine = "qwen" /\ config.qwenTimeout > 0
  BY <1>1, <1>2 DEF EffectiveTimeout
<1>3. CASE ~(Engine = "qwen" /\ config.qwenTimeout > 0)
  BY <1>3, TranscriptionConstants DEF EffectiveTimeout
<1> QED BY <1>2, <1>3

LEMMA ListOfModels ==
    ASSUME config \in Configs, req \in Requests
    PROVE  Wanted \in Seq(Models)
<1>1. ModelsForEngine(Engine) \in Seq(Models)
  BY TranscriptionConstants DEF ModelsForEngine
<1>2. CASE req.model = NoModel
  BY <1>1, <1>2 DEF Wanted
<1>3. CASE req.model # NoModel
  <2>1. req.model \in Models
    BY <1>3 DEF Requests
  <2>2. <<req.model>> \in Seq(Models)
    BY <2>1
  <2> QED BY <1>1, <1>3, <2>2, ConcatProperties DEF Wanted
<1> QED BY <1>2, <1>3

-----------------------------------------------------------------------------
Call == [model : Models, outcome : Outcomes]

Called == [n \in DOMAIN tried |-> tried[n].model]

(* Until Transcribe returns every call it is done with failed in a way     *)
(* worth another try, and the time that has gone by is at most that of the *)
(* calls it made.                                                          *)
InOrder ==
    /\ pc = "start" => tried = << >> /\ clock = 0
    /\ pc \in {"next", "calling"} => Called \o queue = Wanted
    /\ pc # "done" => answer = Pending /\ \A n \in DOMAIN tried : tried[n].outcome \notin {"ok", "status_4xx"}
    /\ pc = "calling" => queue # << >>
    /\ pc = "done" => FailsOverInOrder

InTime ==
    /\ pc \in {"start", "next"} => clock <= Len(tried) * EffectiveTimeout
    /\ pc = "calling" => clock <= deadline /\ deadline <= (Len(tried) + 1) * EffectiveTimeout
    /\ pc = "done" => TurnsGuaranteed

(* GPT never got a text to edit.                                           *)
InBuffer ==
    /\ pc \in {"next", "calling"} => ~(Engine = "gpt" /\ Mode = "edit_only")
    /\ pc = "done" => OnlyEditorsRewrite

CallInv == TypeOK /\ InOrder /\ InTime /\ InBuffer

LEMMA Clocks ==
    ASSUME CallInv
    PROVE  clock \in Nat /\ deadline \in Nat /\ TotalTimeout \in Nat
BY TranscriptionConstants DEF CallInv, TypeOK

LEMMA CallInit == Init => CallInv
<1> SUFFICES ASSUME Init PROVE CallInv
  OBVIOUS
<1>1. << >> \in Seq(Models) /\ << >> \in Seq(Call) /\ Len(<< >>) = 0 /\ DOMAIN << >> = {}
  BY EmptySeq
<1>2. /\ pc = "start" /\ queue = << >> /\ tried = << >> /\ clock = 0 /\ deadline = 0
      /\ answer = Pending /\ config \in Configs /\ req \in Requests
  BY DEF Init
<1>3. queue \in Seq(Models) /\ tried \in Seq(Call) /\ Len(tried) = 0 /\ DOMAIN tried = {}
  BY <1>1, <1>2, Zenon
<1>4. TypeOK
  <2>1. 0 \in 0..TotalTimeout
    BY TranscriptionConstants
  <2>2. answer \in Answers
    BY <1>2 DEF Answers, Pending
  <2> QED BY <1>2, <1>3, <2>1, <2>2 DEF TypeOK, Call
<1>5. InOrder
  BY <1>2, <1>3 DEF InOrder
<1>6. InTime
  <2>1. 0 <= 0 * EffectiveTimeout
    BY <1>2, TimeoutsPositive
  <2> QED BY <1>2, <1>3, <2>1 DEF InTime
<1>7. InBuffer
  BY <1>2 DEF InBuffer
<1> QED BY <1>4, <1>5, <1>6, <1>7 DEF CallInv

(* What does not change config and req keeps what is computed from them.   *)
LEMMA RequestStays ==
    ASSUME UNCHANGED request
    PROVE  /\ UNCHANGED Wanted /\ UNCHANGED EffectiveTimeout /\ UNCHANGED Engine
           /\ UNCHANGED Mode /\ UNCHANGED Task
<1>1. UNCHANGED Mode
  BY DEF request, Mode, Fallback, Engine
<1> QED BY <1>1 DEF request, Wanted, EffectiveTimeout, Engine, ModelsForEngine, Task

LEMMA CallRefused == ASSUME CallInv, EditRefused PROVE CallInv'
<1>1. /\ UNCHANGED <<config, req, queue, clock, deadline, tried>>
      /\ pc = "start" /\ pc' = "done" /\ answer' = [kind |-> "not_supported"]
  BY DEF EditRefused, Return, request
<1>2. TypeOK'
  BY <1>1 DEF CallInv, TypeOK, Answers
<1>3. tried' = << >>
  BY <1>1 DEF CallInv, InOrder
<1>4. DOMAIN tried' = {} /\ Len(tried') = 0
  BY <1>3
<1>5. FailsOverInOrder'
  BY <1>1, <1>4 DEF FailsOverInOrder
<1>6. TurnsGuaranteed'
  BY <1>1 DEF TurnsGuaranteed
<1>7. OnlyEditorsRewrite'
  BY <1>1 DEF OnlyEditorsRewrite
<1> QED BY <1>1, <1>2, <1>5, <1>6, <1>7 DEF CallInv, InOrder, InTime, InBuffer

LEMMA CallStart == ASSUME CallInv, Start PROVE CallInv'
<1>1. /\ UNCHANGED <<config, req, clock, deadline, tried, answer>> /\ UNCHANGED request
      /\ pc = "start" /\ pc' = "next" /\ queue' = Wanted
      /\ ~(Engine = "gpt" /\ Mode = "edit_only")
  BY DEF Start, request
<1>2. Wanted \in Seq(Models)
  BY ListOfModels DEF CallInv, TypeOK, Call
<1>3. TypeOK'
  BY <1>1, <1>2 DEF CallInv, TypeOK, Call
<1>4. tried = << >> /\ DOMAIN tried = {}
  BY <1>1 DEF CallInv, InOrder
<1>5. Called' = << >>
  BY <1>1, <1>4 DEF Called
<1>6. << >> \o Wanted = Wanted
  BY <1>2, ConcatEmptySeq
<1>7. InOrder'
  BY <1>1, <1>5, <1>6, RequestStays DEF CallInv, InOrder
<1>8. InTime'
  BY <1>1, RequestStays DEF CallInv, InTime
<1>9. InBuffer'
  BY <1>1, RequestStays DEF InBuffer
<1> QED BY <1>3, <1>7, <1>8, <1>9 DEF CallInv

LEMMA CallNext == ASSUME CallInv, CallModel PROVE CallInv'
<1>1. /\ UNCHANGED <<config, req, queue, clock, tried, answer>> /\ UNCHANGED request
      /\ pc = "next" /\ pc' = "calling" /\ queue # << >> /\ clock < TotalTimeout
      /\ deadline' = Earlier(clock + EffectiveTimeout, TotalTimeout)
  BY DEF CallModel, request
<1>2. EffectiveTimeout \in Nat /\ clock \in Nat /\ TotalTimeout \in Nat /\ Len(tried) \in Nat
  BY TimeoutsPositive, Clocks, LenProperties DEF CallInv, TypeOK, Call
<1>3. deadline' \in 0..TotalTimeout /\ clock <= deadline' /\ deadline' <= clock + EffectiveTimeout
  BY <1>1, <1>2 DEF Earlier
<1>4. TypeOK'
  BY <1>1, <1>3 DEF CallInv, TypeOK, Call
<1>5. Called' = Called
  BY <1>1 DEF Called
<1>6. InOrder'
  BY <1>1, <1>5, RequestStays DEF CallInv, InOrder
<1>7. clock <= Len(tried) * EffectiveTimeout
  BY <1>1 DEF CallInv, InTime
<1>8. (Len(tried) + 1) * EffectiveTimeout = Len(tried) * EffectiveTimeout + EffectiveTimeout
  BY <1>2
<1>9. deadline' <= (Len(tried) + 1) * EffectiveTimeout
  <2> DEFINE time == Len(tried) * EffectiveTimeout
  <2>1. time \in Nat
    BY <1>2
  <2> HIDE DEF time
  <2> QED BY <1>2, <1>3, <1>7, <1>8, <2>1 DEF time
<1>10. InTime'
  BY <1>1, <1>3, <1>9, RequestStays DEF InTime
<1>11. InBuffer'
  BY <1>1, RequestStays DEF CallInv, InBuffer
<1> QED BY <1>4, <1>6, <1>10, <1>11 DEF CallInv

LEMMA CallGivenUp == ASSUME CallInv, GiveUp PROVE CallInv'
<1>1. /\ UNCHANGED <<config, req, queue, clock, deadline, tried>> /\ UNCHANGED request
      /\ pc = "next" /\ pc' = "done" /\ answer'.kind = "failed"
      /\ answer' = [kind  |-> "failed",
                    cause |-> IF tried = << >> THEN "no_models" ELSE tried[Len(tried)].outcome]
      /\ queue = << >> \/ clock >= TotalTimeout
  BY DEF GiveUp, Return, request
<1>2. TypeOK'
  <2>1. ASSUME tried # << >> PROVE tried[Len(tried)].outcome \in Outcomes \ {"ok"}
    <3>1. tried \in Seq(Call)
      BY DEF CallInv, TypeOK, Call
    <3>2. Len(tried) \in 1..Len(tried) /\ DOMAIN tried = 1..Len(tried)
      BY <2>1, <3>1, EmptySeq, LenProperties
    <3>3. tried[Len(tried)] \in Call
      BY <3>1, <3>2, ElementOfSeq
    <3>4. tried[Len(tried)].outcome # "ok"
      BY <1>1, <3>2 DEF CallInv, InOrder
    <3> QED BY <3>3, <3>4 DEF Call
  <2>2. answer'.cause \in (Outcomes \ {"ok"}) \cup {"no_models"}
    BY <1>1, <2>1
  <2>3. answer' = [kind |-> "failed", cause |-> answer'.cause]
    BY <1>1
  <2>4. answer' \in Answers
    BY <2>2, <2>3 DEF Answers
  <2> QED BY <1>1, <2>4 DEF CallInv, TypeOK
<1>3. Called' = Called /\ Called \o queue = Wanted
  BY <1>1 DEF Called, CallInv, InOrder
<1>4. \A n \in DOMAIN tried : tried[n].outcome \notin {"ok", "status_4xx"}
  BY <1>1 DEF CallInv, InOrder
<1>5. DOMAIN tried = 1..Len(tried) /\ Len(tried) \in Nat
  BY LenProperties DEF CallInv, TypeOK, Call
<1>6. FailsOverInOrder'
  <2>1. (Called \o queue = Wanted)'
    BY <1>1, <1>3, RequestStays
  <2>2. \A n \in 1..(Len(tried) - 1) : tried[n].outcome \notin {"ok", "status_4xx"}
    BY <1>4, <1>5
  <2> QED BY <1>1, <2>1, <2>2 DEF FailsOverInOrder, Called
<1>7. TurnsGuaranteed'
  <2>1. clock <= Len(tried) * EffectiveTimeout
    BY <1>1 DEF CallInv, InTime
  <2> DEFINE time == Len(tried) * EffectiveTimeout
  <2>2. time \in Nat /\ clock \in Nat /\ TotalTimeout \in Nat
    BY <1>5, TimeoutsPositive, Clocks DEF CallInv, TypeOK
  <2>3. clock >= TotalTimeout => time >= TotalTimeout
    <3> HIDE DEF time
    <3>1. clock <= time
      BY <2>1 DEF time
    <3> QED BY <2>2, <3>1
  <2>4. queue' # << >> => (Len(tried) * EffectiveTimeout >= TotalTimeout)'
    BY <1>1, <2>3, RequestStays
  <2> QED BY <2>4 DEF TurnsGuaranteed
<1>8. OnlyEditorsRewrite'
  BY <1>1 DEF OnlyEditorsRewrite
<1> QED BY <1>1, <1>2, <1>6, <1>7, <1>8 DEF CallInv, InOrder, InTime, InBuffer

LEMMA SeqOfFunction ==
    ASSUME NEW S, NEW n \in Nat, NEW f \in [1..n -> S]
    PROVE  f \in Seq(S) /\ Len(f) = n
OBVIOUS

LEMMA ModelsOfCalls ==
    ASSUME NEW calls \in Seq(Call)
    PROVE  /\ [n \in DOMAIN calls |-> calls[n].model] \in Seq(Models)
           /\ Len([n \in DOMAIN calls |-> calls[n].model]) = Len(calls)
<1> DEFINE f == [n \in DOMAIN calls |-> calls[n].model]
<1>1. DOMAIN calls = 1..Len(calls) /\ Len(calls) \in Nat
  BY LenProperties
<1>2. ASSUME NEW n \in DOMAIN calls PROVE calls[n].model \in Models
  <2>1. calls[n] \in Call
    BY <1>1, <1>2, ElementOfSeq
  <2> QED BY <2>1 DEF Call
<1>3. f \in [1..Len(calls) -> Models]
  BY <1>1, <1>2
<1> HIDE DEF f
<1>4. f \in Seq(Models) /\ Len(f) = Len(calls)
  BY <1>1, <1>3, SeqOfFunction
<1> QED BY <1>4 DEF f

(* A call that ends moves one model from the queue to those called.        *)
LEMMA CallMoves ==
    ASSUME CallInv, NEW outcome \in Outcomes, Ended(outcome)
    PROVE  /\ queue' \in Seq(Models) /\ tried' \in Seq(Call)
           /\ (Called \o queue = Wanted)'
           /\ Len(tried') = Len(tried) + 1 /\ DOMAIN tried' = 1..(Len(tried) + 1)
           /\ \A n \in 1..Len(tried) : tried'[n] = tried[n]
           /\ tried'[Len(tried) + 1] = [model |-> Head(queue), outcome |-> outcome]
<1> DEFINE call == [model |-> Head(queue), outcome |-> outcome]
<1>1. /\ UNCHANGED <<config, req, clock, deadline>> /\ UNCHANGED request /\ pc = "calling"
      /\ tried' = Append(tried, call) /\ queue' = Tail(queue)
  BY DEF Ended, request
<1>2. queue \in Seq(Models) /\ queue # << >> /\ tried \in Seq(Call) /\ Called \o queue = Wanted
  BY <1>1 DEF CallInv, TypeOK, Call, InOrder
<1>3. Head(queue) \in Models /\ Tail(queue) \in Seq(Models)
  BY <1>2, HeadTailProperties
<1>4. call \in Call
  BY <1>3 DEF Call
<1> HIDE DEF call
<1>5. /\ tried' \in Seq(Call) /\ Len(tried') = Len(tried) + 1 /\ Len(tried) \in Nat
      /\ \A n \in 1..Len(tried) : tried'[n] = tried[n]
      /\ tried'[Len(tried) + 1] = call
  BY <1>1, <1>2, <1>4, AppendProperties, LenProperties
<1>6. DOMAIN tried = 1..Len(tried) /\ DOMAIN tried' = 1..(Len(tried) + 1)
  BY <1>2, <1>5, LenProperties
<1>7. queue' \in Seq(Models)
  BY <1>1, <1>3
<1>8. (Called \o queue = Wanted)'
  <2>1. Called \in Seq(Models) /\ Len(Called) = Len(tried)
    BY <1>2, ModelsOfCalls DEF Called
  <2>2. Called' = Append(Called, Head(queue))
    <3>1. /\ Append(Called, Head(queue)) \in Seq(Models)
          /\ Len(Append(Called, Head(queue))) = Len(tried) + 1
          /\ \A n \in 1..Len(tried) : Append(Called, Head(queue))[n] = Called[n]
          /\ Append(Called, Head(queue))[Len(tried) + 1] = Head(queue)
      BY <1>3, <2>1, AppendProperties
    <3>2. Called' \in Seq(Models) /\ Len(Called') = Len(tried) + 1
      BY <1>5, ModelsOfCalls DEF Called
    <3>3. \A n \in 1..(Len(tried) + 1) : Called'[n] = Append(Called, Head(queue))[n]
      <4> SUFFICES ASSUME NEW n \in 1..(Len(tried) + 1)
                   PROVE  Called'[n] = Append(Called, Head(queue))[n]
        OBVIOUS
      <4>1. Called'[n] = tried'[n].model
        BY <1>6 DEF Called
      <4>2. CASE n \in 1..Len(tried)
        <5>1. Called[n] = tried[n].model
          BY <1>6, <4>2 DEF Called
        <5>2. tried'[n] = tried[n]
          BY <1>5, <4>2
        <5>3. Append(Called, Head(queue))[n] = Called[n]
          BY <3>1, <4>2
        <5> QED BY <4>1, <5>1, <5>2, <5>3, Zenon
      <4>3. CASE n = Len(tried) + 1
        BY <1>5, <3>1, <4>1, <4>3 DEF call
      <4>4. Len(tried) \in Nat
        BY <1>2, LenProperties
      <4>5. n \in 1..Len(tried) \/ n = Len(tried) + 1
        BY <4>4
      <4> QED BY <4>2, <4>3, <4>5, Zenon
    <3> QED BY <3>1, <3>2, <3>3, SeqEqual
  <2>3. Append(Called, Head(queue)) = Called \o <<Head(queue)>>
    BY <1>3, <2>1, AppendIsConcat
  <2>4. <<Head(queue)>> \o Tail(queue) = queue
    BY <1>2, <1>3
  <2>5. (Called \o <<Head(queue)>>) \o Tail(queue) = Called \o (<<Head(queue)>> \o Tail(queue))
    <3>1. <<Head(queue)>> \in Seq(Models)
      BY <1>3
    <3> QED BY <1>3, <2>1, <3>1, ConcatAssociative
  <2>6. Called' \o queue' = Wanted
    BY <1>1, <1>2, <2>2, <2>3, <2>4, <2>5
  <2> QED BY <1>1, <2>6, RequestStays
<1> QED BY <1>5, <1>6, <1>7, <1>8 DEF call

(* The answer to the last call made: a text, or a refusal.                 *)
LEMMA CallLast ==
    ASSUME CallInv, NEW outcome \in Outcomes, Ended(outcome), pc' = "done",
           \/ outcome = "ok" /\ answer'.kind = "ok" /\ answer'.model = Head(queue)
           \/ outcome = "status_4xx" /\ answer'.kind = "failed",
           answer' \in Answers, OnlyEditorsRewrite'
    PROVE  CallInv'
<1>1. /\ UNCHANGED <<config, req, clock, deadline>> /\ pc = "calling"
  BY DEF Ended, request
<1>2. TypeOK'
  BY <1>1, CallMoves DEF CallInv, TypeOK, Call
<1>3. Len(tried) \in Nat /\ DOMAIN tried = 1..Len(tried)
  BY LenProperties DEF CallInv, TypeOK, Call
<1>4. \A n \in DOMAIN tried : tried[n].outcome \notin {"ok", "status_4xx"}
  BY <1>1 DEF CallInv, InOrder
<1>5. FailsOverInOrder'
  <2>1. (Called \o queue = Wanted)'
    BY CallMoves
  <2>2. (\A n \in 1..(Len(tried) - 1) : tried[n].outcome \notin {"ok", "status_4xx"})'
    <3>1. Len(tried') = Len(tried) + 1 /\ \A n \in 1..Len(tried) : tried'[n] = tried[n]
      BY CallMoves
    <3>2. Len(tried') - 1 = Len(tried)
      BY <1>3, <3>1
    <3>3. \A n \in 1..Len(tried) : tried'[n].outcome \notin {"ok", "status_4xx"}
      BY <1>3, <1>4, <3>1
    <3> QED BY <3>2, <3>3
  <2>3. (answer.kind = "ok" => tried[Len(tried)] = [model |-> answer.model, outcome |-> "ok"])'
    BY CallMoves
  <2> QED BY <2>1, <2>2, <2>3 DEF FailsOverInOrder, Called
<1>6. TurnsGuaranteed'
  <2>1. tried'[Len(tried')] = [model |-> Head(queue), outcome |-> outcome]
    BY CallMoves
  <2>2. answer'.kind = "failed" => tried'[Len(tried')].outcome = "status_4xx"
    BY <2>1
  <2> QED BY <2>2 DEF TurnsGuaranteed
<1> QED BY <1>2, <1>5, <1>6 DEF CallInv, InOrder, InTime, InBuffer

LEMMA ModeOfRequest ==
    ASSUME config \in Configs, req \in Requests
    PROVE  Mode \in Modes /\ (Engine = "gpt" => Mode # "edit")
<1>1. config.editMode \in {"edit", "append"} /\ req.mode \in {"append", "edit_only", "default"}
  BY DEF Configs, Requests
<1> QED BY <1>1 DEF Mode, Fallback, Modes

LEMMA MergeKeepsBuffer ==
    ASSUME CallInv, pc = "calling", NEW text \in Texts
    PROVE  /\ Merge(text) \in [buffer : BOOLEAN, said : Texts \cup {"nothing"}]
           /\ (req.buffer /\ ~Merge(text).buffer)
                 => Engine # "gpt" /\ Task \in {"edit", "edit_only"}
<1>1. config \in Configs /\ req \in Requests
  BY DEF CallInv, TypeOK
<1>2. Mode \in Modes /\ (Engine = "gpt" => Mode # "edit")
  BY <1>1, ModeOfRequest
<1>3. ~(Engine = "gpt" /\ Mode = "edit_only")
  BY DEF CallInv, InBuffer
<1>4. req.buffer \in BOOLEAN
  BY <1>1 DEF Requests
<1>5. Merge(text) \in [buffer : BOOLEAN, said : Texts \cup {"nothing"}]
  BY <1>4 DEF Merge
<1>6. ASSUME req.buffer, ~Merge(text).buffer PROVE Mode # "append"
  BY <1>6 DEF Merge
<1>7. ASSUME req.buffer PROVE Task = Mode
  BY <1>7 DEF Task, BuildUserMessage
<1> QED BY <1>2, <1>3, <1>5, <1>6, <1>7 DEF Modes

LEMMA CallAnswered == ASSUME CallInv, NEW text \in Texts, Answered(text) PROVE CallInv'
<1> DEFINE rest == Merge(text)
<1>1. /\ Ended("ok") /\ pc' = "done"
      /\ answer' = [kind |-> "ok", model |-> Head(queue), raw |-> text, text |-> rest]
  BY DEF Answered, Return
<1>2. /\ rest \in [buffer : BOOLEAN, said : Texts \cup {"nothing"}]
      /\ (req.buffer /\ ~rest.buffer) => Engine # "gpt" /\ Task \in {"edit", "edit_only"}
  BY <1>1, MergeKeepsBuffer DEF Ended
<1> HIDE DEF rest
<1>3. answer'.kind = "ok" /\ answer'.model = Head(queue) /\ "ok" \in Outcomes
  BY <1>1 DEF Outcomes
<1>4. Head(queue) \in Models
  BY <1>1, HeadTailProperties DEF Ended, CallInv, TypeOK, InOrder
<1>5. answer' \in Answers
  BY <1>1, <1>2, <1>4 DEF Answers
<1>6. UNCHANGED request
  BY <1>1 DEF Ended, request
<1>7. answer'.text = rest /\ req' = req
  BY <1>1, <1>6 DEF request
<1>8. OnlyEditorsRewrite'
  BY <1>2, <1>6, <1>7, RequestStays DEF OnlyEditorsRewrite
<1> QED BY <1>1, <1>3, <1>5, <1>8, CallLast

LEMMA CallRefusedUpstream ==
    ASSUME CallInv, NEW failure \in Failures, Refused(failure)
    PROVE  CallInv'
<1>1. /\ Ended(failure) /\ pc' = "done" /\ failure = "status_4xx"
      /\ answer' = [kind |-> "failed", cause |-> failure]
  BY DEF Refused, Return, NonRetryable
<1>2. failure \in Outcomes \ {"ok"}
  BY <1>1 DEF Outcomes, Failures
<1>3. answer' \in Answers
  BY <1>1, <1>2 DEF Answers
<1>4. OnlyEditorsRewrite'
  BY <1>1 DEF OnlyEditorsRewrite
<1> QED BY <1>1, <1>2, <1>3, <1>4, CallLast

(* A failure worth another try; one that comes by the clock is no later    *)
(* than the deadline either.                                               *)
LEMMA CallFailed ==
    ASSUME CallInv, NEW failure \in Failures \cup {"timeout"}, Failed(failure)
    PROVE  CallInv'
<1>1. /\ Ended(failure) /\ pc = "calling" /\ pc' = "next" /\ answer' = answer
      /\ UNCHANGED <<config, req, clock, deadline>> /\ UNCHANGED request
      /\ failure \in Outcomes /\ failure \notin {"ok", "status_4xx"}
  BY DEF Failed, Ended, NonRetryable, Outcomes, Failures, request
<1>2. TypeOK'
  BY <1>1, CallMoves DEF CallInv, TypeOK, Call
<1>3. Len(tried) \in Nat /\ DOMAIN tried = 1..Len(tried)
  BY LenProperties DEF CallInv, TypeOK, Call
<1>4. answer = Pending /\ \A n \in DOMAIN tried : tried[n].outcome \notin {"ok", "status_4xx"}
  BY <1>1 DEF CallInv, InOrder
<1>5. \A n \in DOMAIN tried' : tried'[n].outcome \notin {"ok", "status_4xx"}
  <2> SUFFICES ASSUME NEW n \in DOMAIN tried' PROVE tried'[n].outcome \notin {"ok", "status_4xx"}
    OBVIOUS
  <2>1. CASE n \in 1..Len(tried)
    <3>1. tried'[n] = tried[n]
      BY <1>1, <2>1, CallMoves
    <3> QED BY <1>3, <1>4, <2>1, <3>1
  <2>2. CASE n = Len(tried) + 1
    <3>1. tried'[n] = [model |-> Head(queue), outcome |-> failure]
      BY <1>1, <2>2, CallMoves
    <3> QED BY <1>1, <3>1
  <2>3. n \in 1..(Len(tried) + 1)
    BY <1>1, CallMoves
  <2> QED BY <1>3, <2>1, <2>2, <2>3
<1>6. InOrder'
  BY <1>1, <1>4, <1>5, CallMoves DEF InOrder, Pending
<1>7. clock <= (Len(tried) + 1) * EffectiveTimeout
  <2> DEFINE time == (Len(tried) + 1) * EffectiveTimeout
  <2>1. time \in Nat /\ clock \in Nat /\ deadline \in Nat
    BY <1>3, TimeoutsPositive, Clocks DEF CallInv, TypeOK
  <2>2. clock <= deadline /\ deadline <= time
    BY <1>1 DEF CallInv, InTime
  <2> HIDE DEF time
  <2>3. clock <= time
    BY <2>1, <2>2
  <2> QED BY <2>3 DEF time
<1>8. (clock <= Len(tried) * EffectiveTimeout)'
  BY <1>1, <1>7, CallMoves, RequestStays
<1>9. InTime'
  BY <1>1, <1>8 DEF InTime
<1>10. InBuffer'
  BY <1>1, RequestStays DEF CallInv, InBuffer
<1> QED BY <1>2, <1>6, <1>9, <1>10 DEF CallInv

LEMMA CallTick == ASSUME CallInv, Tick PROVE CallInv'
<1>1. /\ UNCHANGED <<config, req, pc, queue, deadline, tried, answer>> /\ UNCHANGED request
      /\ pc = "calling" /\ clock < deadline /\ clock' = clock + 1
  BY DEF Tick, request
<1>2. TypeOK' /\ clock' <= deadline'
  BY <1>1, Clocks DEF CallInv, TypeOK
<1>3. Called' = Called
  BY <1>1 DEF Called
<1>4. InOrder'
  BY <1>1, <1>3, RequestStays DEF CallInv, InOrder
<1>5. (deadline <= (Len(tried) + 1) * EffectiveTimeout)'
  BY <1>1, RequestStays DEF CallInv, InTime
<1>6. InBuffer'
  BY <1>1, RequestStays DEF CallInv, InBuffer
<1> QED BY <1>1, <1>2, <1>4, <1>5, <1>6 DEF CallInv, InTime

LEMMA CallStep == CallInv /\ [Next]_vars => CallInv'
<1> SUFFICES ASSUME CallInv, [Next]_vars PROVE CallInv'
  OBVIOUS
<1>1. CASE UNCHANGED vars
  <2>1. UNCHANGED <<config, req, pc, queue, clock, deadline, tried, answer>> /\ UNCHANGED request
    BY <1>1 DEF vars, request
  <2>2. Called' = Called
    BY <2>1 DEF Called
  <2>3. TypeOK'
    BY <2>1 DEF CallInv, TypeOK, Call
  <2>4. InOrder'
    BY <2>1, <2>2, RequestStays DEF CallInv, InOrder, FailsOverInOrder, Called
  <2>5. InTime'
    BY <2>1, RequestStays DEF CallInv, InTime, TurnsGuaranteed
  <2>6. InBuffer'
    BY <2>1, RequestStays DEF CallInv, InBuffer, OnlyEditorsRewrite
  <2> QED BY <2>3, <2>4, <2>5, <2>6 DEF CallInv
<1>2. TimedOut => CallInv'
  BY CallFailed DEF TimedOut
<1> QED BY <1>1, <1>2, CallRefused, CallStart, CallNext, CallGivenUp, CallTick, CallAnswered,
           CallRefusedUpstream, CallFailed DEF Next

LEMMA OrderedNow == CallInv => FailsOverInOrder
<1> SUFFICES ASSUME CallInv PROVE FailsOverInOrder
  OBVIOUS
<1>1. CASE pc = "done"
  BY <1>1 DEF CallInv, InOrder
<1>2. CASE pc = "start"
  <2>1. tried = << >> /\ answer = Pending
    BY <1>2 DEF CallInv, InOrder
  <2>2. Len(tried) = 0
    BY <2>1
  <2> QED BY <1>2, <2>1, <2>2 DEF FailsOverInOrder, Pending
<1>3. CASE pc \in {"next", "calling"}
  <2>1. /\ Called \o queue = Wanted /\ answer = Pending
        /\ \A n \in DOMAIN tried : tried[n].outcome \notin {"ok", "status_4xx"}
    BY <1>3 DEF CallInv, InOrder
  <2>2. Len(tried) \in Nat /\ DOMAIN tried = 1..Len(tried)
    BY LenProperties DEF CallInv, TypeOK, Call
  <2>3. answer.kind = "pending"
    BY <2>1 DEF Pending
  <2>4. \A n \in 1..(Len(tried) - 1) : tried[n].outcome \notin {"ok", "status_4xx"}
    BY <2>1, <2>2
  <2> QED BY <2>1, <2>3, <2>4 DEF FailsOverInOrder, Called
<1> QED BY <1>1, <1>2, <1>3 DEF CallInv, TypeOK, Call

-----------------------------------------------------------------------------
(* However long the lists of models and however the upstream service       *)
(* answers, Transcribe calls them in the order the request stands for,     *)
(* each one after a failure worth another try, and takes its text from the *)
(* last one.                                                               *)
THEOREM OrderOfFailover == Spec => []FailsOverInOrder
BY OrderedNow, CallInit, CallStep, PTL DEF Spec

LEMMA TurnsNow == CallInv => TurnsGuaranteed
<1> SUFFICES ASSUME CallInv PROVE TurnsGuaranteed
  OBVIOUS
<1>1. CASE pc = "done"
  BY <1>1 DEF CallInv, InTime
<1>2. CASE pc # "done"
  BY <1>2 DEF CallInv, InOrder, TurnsGuaranteed, Pending
<1> QED BY <1>1, <1>2

(* Whatever the timeouts and the lists, no model is passed over for the    *)
(* time while those before it can have used up less than the time for all: *)
(* a call costs its own timeout at most.                                   *)
THEOREM TurnsHold == Spec => []TurnsGuaranteed
BY TurnsNow, CallInit, CallStep, PTL DEF Spec

LEMMA EditorsNow == CallInv => OnlyEditorsRewrite
BY DEF CallInv, InBuffer, InOrder, OnlyEditorsRewrite, Pending

(* Whatever the engines, modes and answers, the text in the buffer is      *)
(* replaced only by an engine that was given it with the task to edit it.  *)
THEOREM EditorsOnly == Spec => []OnlyEditorsRewrite
BY EditorsNow, CallInit, CallStep, PTL DEF Spec

LEMMA TypesNow == CallInv => TypeOK
BY DEF CallInv

(* Every reachable state of a transcription is well typed.                 *)
THEOREM TranscriptionTypes == Spec => []TypeOK
BY TypesNow, CallInit, CallStep, PTL DEF Spec

-----------------------------------------------------------------------------
(* How many steps a transcription has left at most: each model costs two,  *)
(* the call and its end, and the clock one for every tick.                 *)
StepsLeft ==
    CASE pc = "start"   -> TotalTimeout + 2 * Len(Wanted) + 2
      [] pc = "next"    -> (TotalTimeout - clock) + 2 * Len(queue) + 1
      [] pc = "calling" -> (TotalTimeout - clock) + 2 * Len(queue)
      [] OTHER          -> 0

LEMMA StepsLeftIsNat ==
    ASSUME CallInv
    PROVE  /\ StepsLeft \in Nat /\ Len(queue) \in Nat /\ Len(Wanted) \in Nat
           /\ TotalTimeout - clock \in Nat /\ TotalTimeout \in Nat /\ clock \in Nat
           /\ pc \in {"start", "next", "calling", "done"}
<1>1. /\ Len(queue) \in Nat /\ TotalTimeout \in Nat /\ clock \in 0..TotalTimeout
      /\ pc \in {"start", "next", "calling", "done"}
  BY TranscriptionConstants, LenProperties DEF CallInv, TypeOK
<1>2. Len(Wanted) \in Nat
  BY ListOfModels, LenProperties DEF CallInv, TypeOK
<1>3. clock \in Nat /\ TotalTimeout - clock \in Nat
  BY <1>1
<1>4. StepsLeft \in Nat
  <2> DEFINE all  == Len(Wanted)
             rest == Len(queue)
             time == TotalTimeout - clock
  <2>1. all \in Nat /\ rest \in Nat /\ time \in Nat
    BY <1>1, <1>2, <1>3
  <2> HIDE DEF all, rest, time
  <2>2. TotalTimeout + 2 * all + 2 \in Nat /\ time + 2 * rest + 1 \in Nat /\ time + 2 * rest \in Nat
    BY <1>1, <2>1
  <2> QED BY <1>1, <2>2 DEF StepsLeft, all, rest, time
<1> QED BY <1>1, <1>2, <1>3, <1>4

LEMMA StepsLeftStaysNat == CallInv' => (StepsLeft \in Nat)'
<1>1. CallInv => StepsLeft \in Nat
  BY StepsLeftIsNat
<1> QED BY <1>1, PTL

LEMMA StepsGetFewer ==
    ASSUME CallInv, CallInv', Next
    PROVE  StepsLeft' < StepsLeft
<1> DEFINE rest == Len(queue)
           time == TotalTimeout - clock
<1>1. /\ StepsLeft \in Nat /\ rest \in Nat /\ Len(Wanted) \in Nat /\ time \in Nat
      /\ TotalTimeout \in Nat /\ clock \in Nat
  BY StepsLeftIsNat
<1>2. CASE EditRefused
  <2>1. pc = "start" /\ pc' = "done"
    BY <1>2 DEF EditRefused, Return
  <2>2. StepsLeft = TotalTimeout + 2 * Len(Wanted) + 2 /\ StepsLeft' = 0
    BY <2>1 DEF StepsLeft
  <2> QED BY <1>1, <2>2
<1>3. CASE Start
  <2>1. pc = "start" /\ pc' = "next" /\ clock' = clock /\ clock = 0 /\ queue' = Wanted
    BY <1>3 DEF Start, CallInv, InOrder
  <2>2. /\ StepsLeft = TotalTimeout + 2 * Len(Wanted) + 2
        /\ StepsLeft' = (TotalTimeout - 0) + 2 * Len(Wanted) + 1
    BY <2>1 DEF StepsLeft
  <2> QED BY <1>1, <2>2
<1>4. CASE CallModel
  <2>1. pc = "next" /\ pc' = "calling" /\ clock' = clock /\ queue' = queue
    BY <1>4 DEF CallModel
  <2>2. StepsLeft = time + 2 * rest + 1 /\ StepsLeft' = time + 2 * rest
    BY <2>1 DEF StepsLeft
  <2> QED BY <1>1, <2>2
<1>5. CASE GiveUp
  <2>1. pc = "next" /\ pc' = "done"
    BY <1>5 DEF GiveUp, Return
  <2>2. StepsLeft = time + 2 * rest + 1 /\ StepsLeft' = 0
    BY <2>1 DEF StepsLeft
  <2> QED BY <1>1, <2>2
<1>6. CASE Tick
  <2>1. pc = "calling" /\ pc' = "calling" /\ clock' = clock + 1 /\ queue' = queue
    BY <1>6 DEF Tick
  <2>2. StepsLeft = time + 2 * rest /\ StepsLeft' = (TotalTimeout - (clock + 1)) + 2 * rest
    BY <2>1 DEF StepsLeft
  <2> HIDE DEF rest
  <2> QED BY <1>1, <2>2 DEF time
<1>7. ASSUME NEW outcome, Ended(outcome), pc' \in {"next", "done"} PROVE StepsLeft' < StepsLeft
  <2>1. pc = "calling" /\ clock' = clock /\ queue' = Tail(queue)
    BY <1>7 DEF Ended
  <2>2. Len(queue') = rest - 1 /\ rest - 1 \in Nat
    <3>1. queue \in Seq(Models) /\ queue # << >>
      BY <2>1 DEF CallInv, TypeOK, InOrder
    <3>2. Tail(queue) \in Seq(Models) /\ Len(Tail(queue)) = Len(queue) - 1
      BY <3>1, HeadTailProperties
    <3>3. Len(Tail(queue)) \in Nat
      BY <3>2, LenProperties
    <3> QED BY <2>1, <3>2, <3>3
  <2>3. StepsLeft = time + 2 * rest
    BY <2>1 DEF StepsLeft
  <2>4. StepsLeft' = 0 \/ StepsLeft' = time + 2 * (rest - 1) + 1
    BY <1>7, <2>1, <2>2 DEF StepsLeft
  <2> HIDE DEF rest, time
  <2>5. 2 * (rest - 1) + 1 < 2 * rest /\ 0 < 2 * rest
    BY <1>1, <2>2
  <2> QED BY <1>1, <2>2, <2>3, <2>4, <2>5
<1>8. CASE TimedOut
  BY <1>7, <1>8 DEF TimedOut, Failed
<1>9. ASSUME NEW text \in Texts, Answered(text) PROVE StepsLeft' < StepsLeft
  BY <1>7, <1>9 DEF Answered, Return
<1>10. ASSUME NEW failure \in Failures, Refused(failure) \/ Failed(failure)
       PROVE StepsLeft' < StepsLeft
  BY <1>7, <1>10 DEF Refused, Failed, Return
<1> QED BY <1>2, <1>3, <1>4, <1>5, <1>6, <1>8, <1>9, <1>10 DEF Next

(* A transcription cannot go on for ever: with every step of the code, of  *)
(* the clock and of the upstream service fewer are left, whatever the      *)
(* lists and the timeouts and in whatever order answers and failures come. *)
THEOREM StepsRunOut == Spec => [](StepsLeft \in Nat) /\ [][StepsLeft' < StepsLeft]_vars
<1>1. CallInv => StepsLeft \in Nat
  BY StepsLeftIsNat
<1>2. CallInv /\ CallInv' /\ [Next]_vars => [StepsLeft' < StepsLeft]_vars
  BY StepsGetFewer
<1> QED BY <1>1, <1>2, CallInit, CallStep, PTL DEF Spec

-----------------------------------------------------------------------------
(* The one model that is called twice is the one the request names, first, *)
(* when the list has it too.                                               *)
RepeatsAreNamed ==
    IsInjective(ModelsForEngine(Engine)) =>
        \A m, n \in DOMAIN tried :
            m < n /\ tried[m].model = tried[n].model => m = 1 /\ tried[1].model = req.model

NoCallIfNotSupported == answer.kind = "not_supported" => tried = << >>

LEMMA NotSupportedStep ==
    ASSUME CallInv, NoCallIfNotSupported, [Next]_vars
    PROVE  NoCallIfNotSupported'
<1>1. CASE EditRefused
  <2>1. tried = << >> /\ tried' = tried
    BY <1>1 DEF EditRefused, CallInv, InOrder
  <2> QED BY <2>1 DEF NoCallIfNotSupported
<1>2. CASE Start \/ CallModel \/ Tick \/ UNCHANGED vars
  <2>1. UNCHANGED <<tried, answer>>
    BY <1>2 DEF Start, CallModel, Tick, vars
  <2> QED BY <2>1 DEF NoCallIfNotSupported
<1>3. CASE GiveUp
  BY <1>3 DEF GiveUp, Return, NoCallIfNotSupported
<1>4. ASSUME NEW failure, Failed(failure) PROVE NoCallIfNotSupported'
  <2>1. pc = "calling" /\ answer' = answer
    BY <1>4 DEF Failed, Ended
  <2>2. answer.kind = "pending"
    BY <2>1 DEF CallInv, InOrder, Pending
  <2> QED BY <2>1, <2>2 DEF NoCallIfNotSupported
<1>5. ASSUME NEW text \in Texts, Answered(text) PROVE NoCallIfNotSupported'
  BY <1>5 DEF Answered, Return, NoCallIfNotSupported
<1>6. ASSUME NEW failure, Refused(failure) PROVE NoCallIfNotSupported'
  BY <1>6 DEF Refused, Return, NoCallIfNotSupported
<1> QED BY <1>1, <1>2, <1>3, <1>4, <1>5, <1>6 DEF Next, TimedOut

LEMMA JoinedSeqs ==
    ASSUME NEW S, NEW s \in Seq(S), NEW t \in Seq(S)
    PROVE  /\ Len(s \o t) = Len(s) + Len(t) /\ Len(t) \in Nat
           /\ \A i \in 1..(Len(s) + Len(t)) :
                 (s \o t)[i] = IF i <= Len(s) THEN s[i] ELSE t[i - Len(s)]
BY ConcatProperties, LenProperties

LEMMA RepeatsNamed ==
    ASSUME CallInv, NoCallIfNotSupported
    PROVE  RepeatsAreNamed
<1> SUFFICES ASSUME IsInjective(ModelsForEngine(Engine)),
                    NEW m \in DOMAIN tried, NEW n \in DOMAIN tried,
                    m < n, tried[m].model = tried[n].model
             PROVE  m = 1 /\ tried[1].model = req.model
  BY DEF RepeatsAreNamed
<1> DEFINE list == ModelsForEngine(Engine)
<1>1. tried \in Seq(Call) /\ Len(tried) \in Nat /\ DOMAIN tried = 1..Len(tried)
  BY LenProperties DEF CallInv, TypeOK, Call
<1>2. tried # << >>
  <2>1. tried = << >> => Len(tried) = 0
    OBVIOUS
  <2> QED BY <1>1, <2>1
<1>3. Called \o queue = Wanted
  BY <1>2 DEF CallInv, InOrder, FailsOverInOrder, NoCallIfNotSupported, Called, TypeOK
<1>4. Called \in Seq(Models) /\ Len(Called) = Len(tried) /\ queue \in Seq(Models)
  BY <1>1, ModelsOfCalls DEF Called, CallInv, TypeOK
<1>5. Wanted[m] = tried[m].model /\ Wanted[n] = tried[n].model /\ Len(tried) <= Len(Wanted)
  <2>1. /\ Len(Called \o queue) = Len(Called) + Len(queue) /\ Len(queue) \in Nat
        /\ \A i \in 1..(Len(Called) + Len(queue)) :
              (Called \o queue)[i] = IF i <= Len(Called) THEN Called[i] ELSE queue[i - Len(Called)]
    BY <1>4, JoinedSeqs, Zenon
  <2>2. /\ m \in 1..(Len(Called) + Len(queue)) /\ m <= Len(Called)
        /\ n \in 1..(Len(Called) + Len(queue)) /\ n <= Len(Called)
    BY <1>1, <1>4, <2>1
  <2>3. Wanted[m] = Called[m] /\ Wanted[n] = Called[n]
    BY <1>3, <2>1, <2>2
  <2>4. Called[m] = tried[m].model /\ Called[n] = tried[n].model
    BY DEF Called
  <2> QED BY <1>1, <1>3, <1>4, <2>1, <2>3, <2>4
<1>6. list \in Seq(Models)
  BY TranscriptionConstants DEF ModelsForEngine
<1>7. /\ Len(list) \in Nat /\ DOMAIN list = 1..Len(list)
      /\ \A i, j \in DOMAIN list : list[i] = list[j] => i = j
  BY <1>6, LenProperties DEF IsInjective
<1> HIDE DEF list
<1>8. CASE req.model = NoModel
  <2>1. Wanted = list
    BY <1>8 DEF Wanted, list
  <2>2. m \in DOMAIN list /\ n \in DOMAIN list /\ m # n
    BY <1>1, <1>5, <1>7, <2>1
  <2> QED BY <1>5, <1>7, <2>1, <2>2
<1>9. CASE req.model # NoModel
  <2> DEFINE first == <<req.model>>
  <2>1. req.model \in Models /\ Wanted = first \o list
    BY <1>9 DEF Wanted, list, CallInv, TypeOK, Requests
  <2>2. first \in Seq(Models) /\ Len(first) = 1 /\ first[1] = req.model
    BY <2>1
  <2> HIDE DEF first
  <2>3. /\ Len(Wanted) = 1 + Len(list)
        /\ \A i \in 1..(1 + Len(list)) : Wanted[i] = IF i <= 1 THEN first[i] ELSE list[i - 1]
    BY <1>6, <2>1, <2>2, ConcatProperties
  <2>4. m \in 1..(1 + Len(list)) /\ n \in 1..(1 + Len(list))
    BY <1>1, <1>5, <1>7, <2>3
  <2>5. m = 1
    <3> SUFFICES ASSUME m # 1 PROVE FALSE
      OBVIOUS
    <3>1. ~(m <= 1) /\ ~(n <= 1) /\ m - 1 \in 1..Len(list) /\ n - 1 \in 1..Len(list) /\ m - 1 # n - 1
      BY <1>7, <2>4
    <3>2. Wanted[m] = list[m - 1] /\ Wanted[n] = list[n - 1]
      BY <2>3, <2>4, <3>1
    <3> QED BY <1>5, <1>7, <3>1, <3>2
  <2>6. Wanted[1] = req.model
    BY <1>7, <2>2, <2>3, <2>4, <2>5
  <2> QED BY <1>5, <2>5, <2>6
<1> QED BY <1>8, <1>9

(* A failed model is not tried again: when the list of the configuration   *)
(* holds no model twice, only the one the request names is called a second *)
(* time, and once.                                                         *)
THEOREM RepeatsHold == Spec => []RepeatsAreNamed
<1>1. Init => NoCallIfNotSupported
  BY DEF Init, NoCallIfNotSupported, Pending
<1>2. CallInv /\ NoCallIfNotSupported => RepeatsAreNamed
  BY RepeatsNamed
<1>3. CallInv /\ NoCallIfNotSupported /\ [Next]_vars => NoCallIfNotSupported'
  BY NotSupportedStep
<1> QED BY <1>1, <1>2, <1>3, CallInit, CallStep, PTL DEF Spec

-----------------------------------------------------------------------------
LEMMA MessagesAgree ==
    ASSUME config \in Configs, req \in Requests
    PROVE  PromptsAgree
<1> SUFFICES ASSUME NEW file \in PromptFiles,
                    NEW emotion \in BOOLEAN, NEW skipMention \in BOOLEAN,
                    NEW vocabulary \in BOOLEAN, Engine # "gpt"
             PROVE  LET system == BuildSystemMessage(file, emotion, skipMention, SystemMode(Mode))
                        user   == BuildUserMessage(Mode, req.buffer, vocabulary, emotion)
                        edits  == user.task \in {"edit", "edit_only"}
                        editor == "EDIT_SECTION" \in system.sections
                        lacks(sections) == /\ system.template \in DOMAIN file
                                           /\ file[system.template] \cap sections = {}
                    IN
                    /\ editor \/ system.template = "edit_only" => edits
                    /\ edits => \/ editor \/ lacks({"EDIT_SECTION"})
                                \/ system.template = "edit_only" /\ "edit_only" \notin DOMAIN file
                    /\ edits <=> user.buffer = "edit_input_buffer"
                    /\ system.sections \cap Emotional # {} => emotion
                    /\ user.emotion => system.sections \cap Emotional # {} \/ lacks(Emotional)
  BY DEF PromptsAgree
<1> DEFINE mode     == SystemMode(Mode)
           template == Template(file, mode)
           system   == BuildSystemMessage(file, emotion, skipMention, mode)
           user     == BuildUserMessage(Mode, req.buffer, vocabulary, emotion)
           edits    == user.task \in {"edit", "edit_only"}
           editor   == "EDIT_SECTION" \in system.sections
           lacks(sections) == template \in DOMAIN file /\ file[template] \cap sections = {}
<1>1. Mode \in {"append", "edit", "edit_only"} /\ req.buffer \in BOOLEAN
  BY ModeOfRequest DEF Modes, Requests
<1>2. edits <=> mode \in {"edit", "edit_only"}
  BY <1>1 DEF BuildUserMessage, SystemMode
<1>3. edits <=> user.buffer = "edit_input_buffer"
  <2>1. CASE ~req.buffer
    <3>1. user.task \in {"transcribe", "transcribe_with_vocab"}
      BY <2>1 DEF BuildUserMessage
    <3>2. user.buffer = "none"
      BY <2>1 DEF BuildUserMessage
    <3>3. ~edits /\ user.buffer # "edit_input_buffer"
      BY <3>1, <3>2
    <3> QED BY <3>3
  <2>2. CASE req.buffer /\ Mode # "append"
    <3>1. user.task = Mode
      BY <2>2 DEF BuildUserMessage
    <3>2. user.buffer = "edit_input_buffer"
      BY <2>2 DEF BuildUserMessage
    <3>3. edits
      BY <1>1, <2>2, <3>1
    <3> QED BY <3>2, <3>3
  <2>3. CASE req.buffer /\ Mode = "append"
    <3>1. user.task = "append"
      BY <2>3 DEF BuildUserMessage
    <3>2. user.buffer \in {"append_input_buffer", "append_input_buffer_no_vocab"}
      BY <2>3 DEF BuildUserMessage
    <3>3. ~edits /\ user.buffer # "edit_input_buffer"
      BY <3>1, <3>2
    <3> QED BY <3>3
  <2> QED BY <1>1, <2>1, <2>2, <2>3
<1>4. user.emotion => emotion
  BY <1>1 DEF BuildUserMessage
<1>5. /\ template \in {"system", "append", "edit_only"}
      /\ template # "system" => mode = template
  BY DEF Template
<1>6. /\ system.template = template
      /\ \A p : p \in system.sections <=>
               p \in Active(file)[template] /\ Resolved(p, emotion, skipMention, mode)
  BY DEF BuildSystemMessage
<1>7. /\ template \in DOMAIN file => Active(file)[template] = file[template]
      /\ template \notin DOMAIN file => Active(file)[template] = Defaults[template]
  BY <1>5 DEF Active, Templates
<1> HIDE DEF system, user, template, mode
<1>8. editor \/ template = "edit_only" => edits
  BY <1>2, <1>5, <1>6 DEF Resolved
<1>9. ASSUME edits
      PROVE  \/ editor \/ lacks({"EDIT_SECTION"})
             \/ template = "edit_only" /\ "edit_only" \notin DOMAIN file
  <2>1. template \in {"system", "edit_only"}
    BY <1>2, <1>5, <1>9
  <2>2. editor <=> "EDIT_SECTION" \in Active(file)[template]
    BY <1>2, <1>6, <1>9 DEF Resolved, Emotional
  <2>3. CASE template \in DOMAIN file
    BY <1>7, <2>2, <2>3
  <2>4. CASE template \notin DOMAIN file
    BY <1>7, <2>1, <2>2, <2>4 DEF Defaults
  <2> QED BY <2>3, <2>4
<1>10. system.sections \cap Emotional # {} => emotion
  BY <1>6 DEF Resolved
<1>11. ASSUME user.emotion PROVE system.sections \cap Emotional # {} \/ lacks(Emotional)
  <2>1. \A p \in Emotional : p \in system.sections <=> p \in Active(file)[template]
    BY <1>4, <1>6, <1>11 DEF Resolved, Emotional
  <2>2. CASE template \in DOMAIN file
    BY <1>7, <2>1, <2>2
  <2>3. CASE template \notin DOMAIN file
    <3>1. \E p \in Emotional : p \in Active(file)[template]
      BY <1>5, <1>7, <2>3 DEF Defaults, Emotional
    <3> QED BY <2>1, <3>1
  <2> QED BY <2>2, <2>3
<1> QED BY <1>3, <1>6, <1>8, <1>9, <1>10, <1>11 DEF system, user, mode

LEMMA AgreementNow == CallInv => PromptsAgree
BY MessagesAgree DEF CallInv, TypeOK

(* Whatever the configuration, the options and the texts in a file of      *)
(* prompts, the system message makes an editor of the model only when the  *)
(* user message asks it to edit, and then it does unless a text of the     *)
(* file has no place for the editor's section.                             *)
THEOREM AgreementOfMessages == Spec => []PromptsAgree
BY AgreementNow, CallInit, CallStep, PTL DEF Spec

-----------------------------------------------------------------------------
(* A set of numbers has a least one, and a bounded one a greatest.         *)
LEMMA LeastOf ==
    ASSUME NEW T \in SUBSET Nat, T # {}
    PROVE  \E x \in T : \A y \in T : x <= y
<1> DEFINE R == OpToRel(<, Nat)
<1>1. IsWellFoundedOn(R, Nat)
  BY NatLessThanWellFounded
<1>2. \A x \in Nat, y \in Nat : y < x => <<y, x>> \in R
  BY DEF OpToRel
<1> HIDE DEF R
<1>3. PICK x \in T : \A y \in T : ~(<<y, x>> \in R)
  BY <1>1, WFMin
<1>4. \A y \in T : x <= y
  <2> SUFFICES ASSUME NEW y \in T PROVE x <= y
    OBVIOUS
  <2>1. x \in Nat /\ y \in Nat
    OBVIOUS
  <2>2. ~(y < x)
    BY <1>2, <1>3, <2>1, Zenon
  <2> QED BY <2>1, <2>2
<1> QED BY <1>4

LEMMA GreatestOf ==
    ASSUME NEW n \in Nat, NEW T \in SUBSET (0..n), T # {}
    PROVE  \E x \in T : \A y \in T : y <= x
<1> DEFINE U == {k \in 0..n : n - k \in T}
<1>1. U \in SUBSET Nat
  OBVIOUS
<1>2. U # {}
  <2>1. PICK t \in T : TRUE
    OBVIOUS
  <2>2. t \in 0..n /\ n - t \in 0..n /\ n - (n - t) = t
    OBVIOUS
  <2>3. n - t \in U
    BY <2>1, <2>2
  <2> QED BY <2>3
<1>3. PICK u \in U : \A k \in U : u <= k
  <2> HIDE DEF U
  <2> QED BY <1>1, <1>2, LeastOf
<1>4. u \in 0..n /\ n - u \in T
  BY <1>3
<1>5. ASSUME NEW y \in T PROVE y <= n - u
  <2>1. y \in 0..n /\ n - y \in 0..n /\ n - (n - y) = y
    OBVIOUS
  <2>2. n - y \in U
    BY <1>5, <2>1
  <2>3. u <= n - y
    BY <1>3, <2>2
  <2> QED BY <1>4, <2>1, <2>3
<1> QED BY <1>4, <1>5

LEMMA Greatest ==
    ASSUME NEW n \in Nat, NEW T \in SUBSET (0..n), T # {}
    PROVE  Max(T) \in T /\ \A y \in T : y <= Max(T)
<1>1. PICK x \in T : \A y \in T : y <= x
  BY GreatestOf
<1>2. \A y \in T : x >= y
  BY <1>1
<1>3. Max(T) \in T /\ \A y \in T : Max(T) >= y
  BY <1>2, Zenon DEF Max
<1> QED BY <1>3

LEMMA Least ==
    ASSUME NEW T \in SUBSET Nat, T # {}
    PROVE  Min(T) \in T /\ \A y \in T : Min(T) <= y
BY LeastOf, Zenon DEF Min

Text == Seq(Chars)

(* What is cut off at the end is of the set, and nothing else is cut off.  *)
LEMMA RightTrimmed ==
    ASSUME NEW text \in Text, NEW set
    PROVE  \E n \in 0..Len(text) :
              /\ TrimRight(text, set) = SubSeq(text, 1, n)
              /\ TrimRight(text, set) \in Text
              /\ Len(TrimRight(text, set)) = n
              /\ \A k \in (n + 1)..Len(text) : text[k] \in set
              /\ n > 0 => text[n] \notin set
<1> DEFINE T == KeepTo(text, set) \cup {0}
           n == Max(T)
<1>1. Len(text) \in Nat /\ DOMAIN text = 1..Len(text) /\ \A k \in 1..Len(text) : text[k] \in Chars
  BY LenProperties, ElementOfSeq DEF Text
<1>2. T \in SUBSET (0..Len(text)) /\ T # {}
  BY <1>1 DEF KeepTo
<1>3. \A k \in T : k > 0 => k \in 1..Len(text) /\ text[k] \notin set
  BY <1>1 DEF KeepTo
<1>4. \A k \in 1..Len(text) : k \notin T => text[k] \in set
  BY <1>1 DEF KeepTo
<1>5. TrimRight(text, set) = SubSeq(text, 1, n)
  BY DEF TrimRight
<1> HIDE DEF T
<1>6. n \in T /\ \A k \in T : k <= n
  BY <1>1, <1>2, Greatest
<1>7. n \in 0..Len(text)
  BY <1>2, <1>6
<1> HIDE DEF n
<1>8. \A k \in (n + 1)..Len(text) : k \in 1..Len(text) /\ ~(k <= n)
  BY <1>1, <1>7
<1>9. \A k \in (n + 1)..Len(text) : text[k] \in set
  BY <1>4, <1>6, <1>8
<1>10. SubSeq(text, 1, n) \in Text /\ Len(SubSeq(text, 1, n)) = n
  <2>1. \A k \in 1..n : text[k] \in Chars
    BY <1>1, <1>7
  <2>2. 1 \in Int /\ n \in Int
    BY <1>7
  <2>3. SubSeq(text, 1, n) \in Text /\ Len(SubSeq(text, 1, n)) = IF 1 <= n THEN n - 1 + 1 ELSE 0
    BY <2>1, <2>2, SubSeqProperties DEF Text
  <2> QED BY <1>7, <2>3
<1> QED BY <1>3, <1>5, <1>6, <1>7, <1>9, <1>10

(* What is cut off at the beginning is of the set.                         *)
LEMMA LeftTrimmed ==
    ASSUME NEW text \in Text, NEW set
    PROVE  \E n \in 1..(Len(text) + 1) :
              /\ TrimLeft(text, set) = SubSeq(text, n, Len(text))
              /\ \A k \in 1..(n - 1) : text[k] \in set
<1> DEFINE T == KeepTo(text, set) \cup {Len(text) + 1}
           n == Min(T)
<1>1. Len(text) \in Nat /\ DOMAIN text = 1..Len(text)
  BY LenProperties DEF Text
<1>2. T \in SUBSET (1..(Len(text) + 1)) /\ T \in SUBSET Nat /\ T # {}
  BY <1>1 DEF KeepTo
<1>3. \A k \in 1..Len(text) : k \notin T => text[k] \in set
  BY <1>1 DEF KeepTo
<1>4. TrimLeft(text, set) = SubSeq(text, n, Len(text))
  BY DEF TrimLeft
<1> HIDE DEF T
<1>5. n \in T /\ \A k \in T : n <= k
  BY <1>2, Least
<1>6. n \in 1..(Len(text) + 1)
  BY <1>2, <1>5
<1> HIDE DEF n
<1>7. \A k \in 1..(n - 1) : k \in 1..Len(text) /\ ~(n <= k)
  BY <1>1, <1>6
<1>8. \A k \in 1..(n - 1) : text[k] \in set
  BY <1>3, <1>5, <1>7
<1> QED BY <1>4, <1>6, <1>8

-----------------------------------------------------------------------------
LEMMA SplitAt ==
    ASSUME NEW text \in Text, NEW n \in 0..Len(text)
    PROVE  /\ SubSeq(text, 1, n) \in Text /\ Len(SubSeq(text, 1, n)) = n
           /\ SubSeq(text, n + 1, Len(text)) \in Text
           /\ Len(SubSeq(text, n + 1, Len(text))) = Len(text) - n
           /\ \A k \in 1..(Len(text) - n) : SubSeq(text, n + 1, Len(text))[k] = text[n + k]
           /\ text = SubSeq(text, 1, n) \o SubSeq(text, n + 1, Len(text))
<1>1. Len(text) \in Nat /\ \A k \in 1..Len(text) : text[k] \in Chars
  BY LenProperties, ElementOfSeq DEF Text
<1>2. SubSeq(text, 1, n) \in Text /\ Len(SubSeq(text, 1, n)) = n
  <2>1. \A k \in 1..n : text[k] \in Chars
    BY <1>1
  <2>2. SubSeq(text, 1, n) \in Text /\ Len(SubSeq(text, 1, n)) = IF 1 <= n THEN n - 1 + 1 ELSE 0
    BY <2>1, SubSeqProperties DEF Text
  <2> QED BY <2>2
<1>3. /\ SubSeq(text, n + 1, Len(text)) \in Text
      /\ Len(SubSeq(text, n + 1, Len(text))) = Len(text) - n
      /\ \A k \in 1..(Len(text) - n) : SubSeq(text, n + 1, Len(text))[k] = text[n + k]
  <2>1. \A k \in (n + 1)..Len(text) : text[k] \in Chars
    BY <1>1
  <2>2. n + 1 \in Int /\ Len(text) \in Int
    BY <1>1
  <2>3. /\ SubSeq(text, n + 1, Len(text)) \in Text
        /\ Len(SubSeq(text, n + 1, Len(text)))
             = IF n + 1 <= Len(text) THEN Len(text) - (n + 1) + 1 ELSE 0
        /\ \A k \in 1..(Len(text) - (n + 1) + 1) :
              SubSeq(text, n + 1, Len(text))[k] = text[(n + 1) + k - 1]
    BY <2>1, <2>2, SubSeqProperties DEF Text
  <2>4. /\ Len(text) - (n + 1) + 1 = Len(text) - n
        /\ IF n + 1 <= Len(text) THEN Len(text) - (n + 1) + 1 = Len(text) - n
                                ELSE 0 = Len(text) - n
    BY <1>1
  <2>5. \A k \in 1..(Len(text) - n) : (n + 1) + k - 1 = n + k
    BY <1>1
  <2> DEFINE rest == SubSeq(text, n + 1, Len(text))
  <2> HIDE DEF rest
  <2>6. \A k \in 1..(Len(text) - n) : rest[k] = text[n + k]
    BY <2>3, <2>4, <2>5 DEF rest
  <2>7. Len(rest) = Len(text) - n
    BY <2>3, <2>4 DEF rest
  <2> QED BY <2>3, <2>6, <2>7 DEF rest
<1>4. text = SubSeq(text, 1, n) \o SubSeq(text, n + 1, Len(text))
  <2>1. 1 \in 1..(Len(text) + 1) /\ n \in (1 - 1)..Len(text) /\ Len(text) \in n..Len(text)
    BY <1>1
  <2>2. SubSeq(text, 1, n) \o SubSeq(text, n + 1, Len(text)) = SubSeq(text, 1, Len(text))
    BY <2>1, ConcatAdjacentSubSeq DEF Text
  <2> QED BY <2>2, SubSeqFull DEF Text
<1> QED BY <1>2, <1>3, <1>4

LEMMA PartsOfConcat ==
    ASSUME NEW s \in Text, NEW t \in Text
    PROVE  /\ s \o t \in Text /\ Len(s \o t) = Len(s) + Len(t)
           /\ Len(s) \in 0..Len(s \o t)
           /\ SubSeq(s \o t, 1, Len(s)) = s
           /\ SubSeq(s \o t, Len(s) + 1, Len(s \o t)) = t
<1>1. /\ s \o t \in Text /\ Len(s \o t) = Len(s) + Len(t) /\ Len(s) \in Nat /\ Len(t) \in Nat
      /\ \A k \in 1..(Len(s) + Len(t)) : (s \o t)[k] = IF k <= Len(s) THEN s[k] ELSE t[k - Len(s)]
  BY ConcatProperties, LenProperties DEF Text
<1> DEFINE u == s \o t
<1> HIDE DEF u
<1>2. u \in Text /\ Len(s) \in 0..Len(u) /\ Len(u) = Len(s) + Len(t)
  BY <1>1 DEF u
<1>3. /\ SubSeq(u, 1, Len(s)) \in Text /\ Len(SubSeq(u, 1, Len(s))) = Len(s)
      /\ SubSeq(u, Len(s) + 1, Len(u)) \in Text
      /\ Len(SubSeq(u, Len(s) + 1, Len(u))) = Len(u) - Len(s)
      /\ \A k \in 1..(Len(u) - Len(s)) : SubSeq(u, Len(s) + 1, Len(u))[k] = u[Len(s) + k]
  BY <1>2, SplitAt
<1>4. SubSeq(u, Len(s) + 1, Len(u)) = t
  <2>1. Len(u) - Len(s) = Len(t)
    BY <1>1, <1>2
  <2>2. ASSUME NEW k \in 1..Len(t) PROVE SubSeq(u, Len(s) + 1, Len(u))[k] = t[k]
    <3>1. Len(s) + k \in 1..(Len(s) + Len(t)) /\ ~(Len(s) + k <= Len(s)) /\ (Len(s) + k) - Len(s) = k
      BY <1>1
    <3>2. u[Len(s) + k] = t[k]
      BY <1>1, <3>1 DEF u
    <3> QED BY <1>3, <2>1, <3>2
  <2> QED BY <1>3, <2>1, <2>2, SeqEqual DEF Text
<1>5. SubSeq(u, 1, Len(s)) = s
  <2>1. ASSUME NEW k \in 1..Len(s) PROVE SubSeq(u, 1, Len(s))[k] = s[k]
    <3>1. k \in 1..(Len(s) + Len(t)) /\ k <= Len(s)
      BY <1>1
    <3>2. u[k] = s[k]
      BY <1>1, <3>1 DEF u
    <3>3. /\ \A i \in 1..Len(s) : u[i] \in Chars
          /\ 1 \in Int /\ Len(s) \in Int
      <4>1. \A i \in 1..Len(u) : u[i] \in Chars
        BY <1>2, ElementOfSeq DEF Text
      <4> QED BY <1>1, <1>2, <4>1
    <3>4. \A i \in 1..(Len(s) - 1 + 1) : SubSeq(u, 1, Len(s))[i] = u[1 + i - 1]
      BY <3>3, SubSeqProperties
    <3>5. k \in 1..(Len(s) - 1 + 1) /\ 1 + k - 1 = k
      BY <1>1
    <3> QED BY <3>2, <3>4, <3>5
  <2> QED BY <1>3, <2>1, SeqEqual DEF Text
<1> QED BY <1>1, <1>2, <1>4, <1>5 DEF u

LEMMA JoinedText ==
    ASSUME NEW s \in Text, NEW t \in Text
    PROVE  /\ s \o t \in Text /\ Len(s \o t) = Len(s) + Len(t)
           /\ Len(s) \in Nat /\ Len(t) \in Nat
           /\ \A k \in 1..(Len(s) + Len(t)) :
                 (s \o t)[k] = IF k <= Len(s) THEN s[k] ELSE t[k - Len(s)]
BY ConcatProperties, LenProperties DEF Text

LEMMA JoinedTexts ==
    ASSUME NEW s \in Text, NEW t \in Text, NEW u \in Text
    PROVE  (s \o t) \o u = s \o (t \o u)
<1>1. s \in Seq(Chars) /\ t \in Seq(Chars) /\ u \in Seq(Chars)
  BY DEF Text
<1> QED BY <1>1, ConcatAssociative

LEMMA CutInTwo ==
    ASSUME NEW s \in Text, NEW t \in Text, NEW u \in Text, NEW v, v = t \o u
    PROVE  s \o v = (s \o t) \o u
BY JoinedTexts

LEMMA EmptyConcat ==
    ASSUME NEW s \in Text, NEW t \in Text, s \o t = << >>
    PROVE  s = << >> /\ t = << >>
<1>1. Len(s) + Len(t) = 0 /\ Len(s) \in Nat /\ Len(t) \in Nat
  BY JoinedText
<1>2. Len(s) = 0 /\ Len(t) = 0
  BY <1>1
<1> QED BY <1>2, EmptySeq DEF Text

LEMMA EmptyText == << >> \in Text /\ Len(<< >>) = 0 /\ ToSet(<< >>) = {}
BY EmptySeq DEF Text, ToSet

LEMMA RightTrimmedOff ==
    ASSUME NEW text \in Text, NEW set
    PROVE  /\ TrimRight(text, set) \in Text
           /\ Len(TrimRight(text, set)) \in 0..Len(text)
           /\ SubSeq(text, Len(TrimRight(text, set)) + 1, Len(text)) \in Text
           /\ ToSet(SubSeq(text, Len(TrimRight(text, set)) + 1, Len(text))) \subseteq set
           /\ text = TrimRight(text, set) \o SubSeq(text, Len(TrimRight(text, set)) + 1, Len(text))
<1>1. PICK n \in 0..Len(text) :
              /\ TrimRight(text, set) = SubSeq(text, 1, n)
              /\ TrimRight(text, set) \in Text
              /\ Len(TrimRight(text, set)) = n
              /\ \A k \in (n + 1)..Len(text) : text[k] \in set
  BY RightTrimmed
<1> DEFINE off == SubSeq(text, n + 1, Len(text))
<1>2. /\ off \in Text /\ Len(off) = Len(text) - n
      /\ \A k \in 1..(Len(text) - n) : off[k] = text[n + k]
      /\ text = SubSeq(text, 1, n) \o off
  BY SplitAt
<1> HIDE DEF off
<1>3. ASSUME NEW k \in DOMAIN off PROVE off[k] \in set
  <2>1. k \in 1..(Len(text) - n) /\ Len(text) \in Nat
    BY <1>2, LenProperties DEF Text
  <2>2. n + k \in (n + 1)..Len(text)
    BY <2>1
  <2> QED BY <1>1, <1>2, <2>1, <2>2
<1>4. ToSet(off) \subseteq set
  BY <1>3 DEF ToSet
<1> QED BY <1>1, <1>2, <1>4 DEF off

LEMMA LeftTrimmedOff ==
    ASSUME NEW text \in Text, NEW set
    PROVE  /\ TrimLeft(text, set) \in Text
           /\ \E off \in Text : ToSet(off) \subseteq set /\ text = off \o TrimLeft(text, set)
<1>1. PICK n \in 1..(Len(text) + 1) :
              /\ TrimLeft(text, set) = SubSeq(text, n, Len(text))
              /\ \A k \in 1..(n - 1) : text[k] \in set
  BY LeftTrimmed
<1>2. Len(text) \in Nat /\ n - 1 \in 0..Len(text) /\ (n - 1) + 1 = n
  BY LenProperties DEF Text
<1> DEFINE off == SubSeq(text, 1, n - 1)
<1>3. /\ off \in Text /\ Len(off) = n - 1
      /\ SubSeq(text, (n - 1) + 1, Len(text)) \in Text
      /\ text = off \o SubSeq(text, (n - 1) + 1, Len(text))
  BY <1>2, SplitAt
<1>4. \A k \in 1..(n - 1) : off[k] = text[k]
  <2>1. \A k \in 1..(n - 1) : text[k] \in Chars
    <3>1. \A k \in 1..Len(text) : text[k] \in Chars
      BY ElementOfSeq DEF Text
    <3> QED BY <1>2, <3>1
  <2>2. 1 \in Int /\ n - 1 \in Int
    BY <1>2
  <2>3. \A k \in 1..((n - 1) - 1 + 1) : off[k] = text[1 + k - 1]
    BY <2>1, <2>2, SubSeqProperties
  <2>4. (n - 1) - 1 + 1 = n - 1 /\ \A k \in Nat : 1 + k - 1 = k
    BY <1>2
  <2> HIDE DEF off
  <2> QED BY <1>2, <2>3, <2>4
<1> HIDE DEF off
<1>5. DOMAIN off = 1..(n - 1)
  BY <1>3, LenProperties DEF Text
<1>6. ToSet(off) \subseteq set
  BY <1>1, <1>4, <1>5 DEF ToSet
<1> QED BY <1>1, <1>2, <1>3, <1>6

(* A prefix and what comes after it.                                       *)
LEMMA AfterPrefix ==
    ASSUME NEW s \in Text, NEW t \in Text, IsPrefix(s, t)
    PROVE  /\ SubSeq(t, Len(s) + 1, Len(t)) \in Text
           /\ t = s \o SubSeq(t, Len(s) + 1, Len(t))
<1>1. Len(s) \in 0..Len(t)
  BY LenProperties DEF Text, IsPrefix
<1>2. SubSeq(t, 1, Len(s)) = s
  BY SubSeqFull DEF Text, IsPrefix
<1> QED BY <1>1, <1>2, SplitAt

LEMMA PrefixOfConcat ==
    ASSUME NEW s \in Text, NEW t \in Text
    PROVE  IsPrefix(s, s \o t)
<1>1. Len(s) \in 0..Len(s \o t) /\ SubSeq(s \o t, 1, Len(s)) = s /\ SubSeq(s, 1, Len(s)) = s
  BY PartsOfConcat, SubSeqFull DEF Text
<1>2. Len(s) <= Len(s \o t)
  BY <1>1
<1> QED BY <1>1, <1>2 DEF IsPrefix

LEMMA ReversedText ==
    ASSUME NEW s \in Text
    PROVE  /\ Reverse(s) \in Text /\ Len(Reverse(s)) = Len(s)
           /\ \A k \in 1..Len(s) : Reverse(s)[k] = s[(Len(s) - k) + 1]
<1>1. Len(s) \in Nat /\ \A k \in 1..Len(s) : s[k] \in Chars
  BY LenProperties, ElementOfSeq DEF Text
<1>2. \A k \in 1..Len(s) : (Len(s) - k) + 1 \in 1..Len(s)
  BY <1>1
<1>3. Reverse(s) \in [1..Len(s) -> Chars]
  BY <1>1, <1>2 DEF Reverse
<1>4. \A n \in Nat : \A f \in [1..n -> Chars] : f \in Seq(Chars) /\ Len(f) = n
  OBVIOUS
<1>5. Reverse(s) \in Seq(Chars) /\ Len(Reverse(s)) = Len(s)
  BY <1>1, <1>3, <1>4
<1> QED BY <1>5 DEF Reverse, Text

LEMMA SuffixOfConcat ==
    ASSUME NEW s \in Text, NEW t \in Text
    PROVE  IsSuffix(t, s \o t)
<1> DEFINE u == s \o t
<1>1. /\ u \in Text /\ Len(u) = Len(s) + Len(t) /\ Len(s) \in Nat /\ Len(t) \in Nat
      /\ \A k \in 1..(Len(s) + Len(t)) : u[k] = IF k <= Len(s) THEN s[k] ELSE t[k - Len(s)]
  BY ConcatProperties, LenProperties DEF Text
<1> HIDE DEF u
<1>2. /\ Reverse(t) \in Text /\ Len(Reverse(t)) = Len(t)
      /\ Reverse(u) \in Text /\ Len(Reverse(u)) = Len(u)
  BY <1>1, ReversedText
<1>3. Len(Reverse(t)) \in 0..Len(Reverse(u))
  BY <1>1, <1>2
<1>4. ASSUME NEW k \in 1..Len(t) PROVE Reverse(u)[k] = Reverse(t)[k]
  <2>1. k \in 1..Len(u)
    BY <1>1
  <2>2. Reverse(u)[k] = u[(Len(u) - k) + 1] /\ Reverse(t)[k] = t[(Len(t) - k) + 1]
    BY <1>1, <2>1, ReversedText
  <2>3. /\ (Len(u) - k) + 1 \in 1..(Len(s) + Len(t)) /\ ~((Len(u) - k) + 1 <= Len(s))
        /\ (Len(u) - k) + 1 - Len(s) = (Len(t) - k) + 1
    BY <1>1
  <2>4. u[(Len(u) - k) + 1] = t[(Len(t) - k) + 1]
    BY <1>1, <2>3
  <2> QED BY <2>2, <2>4
<1>5. SubSeq(Reverse(u), 1, Len(t)) = Reverse(t)
  <2>1. /\ SubSeq(Reverse(u), 1, Len(t)) \in Text
        /\ Len(SubSeq(Reverse(u), 1, Len(t))) = Len(t)
    <3>1. Len(t) \in 0..Len(Reverse(u)) /\ Reverse(u) \in Text
      BY <1>2, <1>3
    <3> QED BY <3>1, SplitAt, Zenon
  <2>2. ASSUME NEW k \in 1..Len(t) PROVE SubSeq(Reverse(u), 1, Len(t))[k] = Reverse(t)[k]
    <3>1. \A i \in 1..Len(t) : Reverse(u)[i] \in Chars
      <4>1. \A i \in 1..Len(u) : Reverse(u)[i] \in Chars
        BY <1>2, ElementOfSeq DEF Text
      <4> QED BY <1>1, <4>1
    <3>2. \A i \in 1..(Len(t) - 1 + 1) : SubSeq(Reverse(u), 1, Len(t))[i] = Reverse(u)[1 + i - 1]
      <4>1. 1 \in Int /\ Len(t) \in Int
        BY <1>1
      <4> QED BY <3>1, <4>1, SubSeqProperties
    <3>3. k \in 1..(Len(t) - 1 + 1) /\ 1 + k - 1 = k
      BY <1>1
    <3> QED BY <1>4, <3>2, <3>3
  <2> QED BY <1>2, <2>1, <2>2, SeqEqual DEF Text
<1>6. SubSeq(Reverse(t), 1, Len(t)) = Reverse(t)
  BY <1>2, SubSeqFull DEF Text
<1>7. IsPrefix(Reverse(t), Reverse(u))
  BY <1>1, <1>2, <1>5, <1>6 DEF IsPrefix
<1> QED BY <1>7 DEF IsSuffix, u

-----------------------------------------------------------------------------
(* Texts that have everything in common but the white space between their  *)
(* beginning and their end.                                                *)
LEMMA SameUpToWhite ==
    ASSUME NEW first \in Text, NEW rest \in Text, NEW u \in Text, NEW v \in Text,
           ToSet(u) \subseteq White, ToSet(v) \subseteq White
    PROVE  DifferInWhite((first \o u) \o rest, (first \o v) \o rest)
<1> DEFINE s == (first \o u) \o rest
           t == (first \o v) \o rest
           n == Len(first)
           m == Len(first \o u)
           k == Len(first \o v)
<1>1. \A w \in Text :
         /\ first \o w \in Text /\ (first \o w) \o rest \in Text /\ w \o rest \in Text
         /\ (first \o w) \o rest = first \o (w \o rest)
         /\ Len(first) \in Nat
         /\ Len(first \o w) \in Len(first)..Len((first \o w) \o rest)
         /\ Len(first) \in 0..Len((first \o w) \o rest)
  <2> SUFFICES ASSUME NEW w \in Text
               PROVE  /\ first \o w \in Text /\ (first \o w) \o rest \in Text /\ w \o rest \in Text
                      /\ (first \o w) \o rest = first \o (w \o rest)
                      /\ Len(first) \in Nat
                      /\ Len(first \o w) \in Len(first)..Len((first \o w) \o rest)
                      /\ Len(first) \in 0..Len((first \o w) \o rest)
    OBVIOUS
  <2>1. /\ first \o w \in Text /\ Len(first) \in 0..Len(first \o w)
        /\ (first \o w) \o rest \in Text /\ Len(first \o w) \in 0..Len((first \o w) \o rest)
        /\ w \o rest \in Text
    BY PartsOfConcat
  <2>2. (first \o w) \o rest = first \o (w \o rest)
    BY JoinedTexts
  <2>3. /\ Len(first) \in Nat /\ Len(first \o w) \in Nat /\ Len((first \o w) \o rest) \in Nat
    BY <2>1, LenProperties DEF Text
  <2> QED BY <2>1, <2>2, <2>3
<1>2. \A w \in Text :
         /\ SubSeq((first \o w) \o rest, 1, Len(first)) = first
         /\ SubSeq((first \o w) \o rest, Len(first \o w) + 1, Len((first \o w) \o rest)) = rest
  <2> SUFFICES ASSUME NEW w \in Text
               PROVE  /\ SubSeq((first \o w) \o rest, 1, Len(first)) = first
                      /\ SubSeq((first \o w) \o rest, Len(first \o w) + 1,
                                Len((first \o w) \o rest)) = rest
    OBVIOUS
  <2>1. SubSeq(first \o (w \o rest), 1, Len(first)) = first
    BY <1>1, PartsOfConcat
  <2>2. SubSeq((first \o w) \o rest, Len(first \o w) + 1, Len((first \o w) \o rest)) = rest
    BY <1>1, PartsOfConcat
  <2> QED BY <1>1, <2>1, <2>2
<1>3. ASSUME NEW w \in Text, ToSet(w) \subseteq White
      PROVE  OnlyWhite(SubSeq((first \o w) \o rest, Len(first) + 1, Len(first \o w)))
  <2> DEFINE both == first \o w
             all  == both \o rest
             mid  == SubSeq(all, Len(first) + 1, Len(both))
  <2>1. /\ both \in Text /\ all \in Text /\ Len(both) = Len(first) + Len(w)
        /\ Len(first) \in Nat /\ Len(w) \in Nat /\ Len(rest) \in Nat
        /\ \A i \in 1..(Len(first) + Len(w)) :
              both[i] = IF i <= Len(first) THEN first[i] ELSE w[i - Len(first)]
    BY JoinedText
  <2> HIDE DEF both
  <2>2. /\ Len(all) = Len(both) + Len(rest)
        /\ \A i \in 1..(Len(both) + Len(rest)) :
              all[i] = IF i <= Len(both) THEN both[i] ELSE rest[i - Len(both)]
    BY <2>1, JoinedText
  <2> HIDE DEF all
  <2>3. \A i \in (Len(first) + 1)..Len(both) :
           i \in 1..Len(both) /\ i \in 1..(Len(both) + Len(rest)) /\ i \in 1..Len(all)
           /\ i - Len(first) \in 1..Len(w) /\ ~(i <= Len(first)) /\ i <= Len(both)
    BY <2>1, <2>2
  <2>4. \A i \in (Len(first) + 1)..Len(both) : all[i] = w[i - Len(first)]
    BY <2>1, <2>2, <2>3
  <2>5. \A i \in (Len(first) + 1)..Len(both) : all[i] \in Chars
    <3>1. \A i \in 1..Len(w) : w[i] \in Chars
      BY ElementOfSeq DEF Text
    <3> QED BY <2>3, <2>4, <3>1
  <2>6. /\ mid \in Text
        /\ Len(mid) = IF Len(first) + 1 <= Len(both) THEN Len(both) - (Len(first) + 1) + 1 ELSE 0
        /\ \A i \in 1..(Len(both) - (Len(first) + 1) + 1) : mid[i] = all[(Len(first) + 1) + i - 1]
    <3>1. Len(first) + 1 \in Int /\ Len(both) \in Int
      BY <2>1
    <3> QED BY <2>5, <3>1, SubSeqProperties DEF Text
  <2> HIDE DEF mid
  <2>7. ASSUME NEW i \in DOMAIN mid PROVE mid[i] \in White
    <3>1. i \in 1..Len(mid) /\ Len(mid) \in Nat
      BY <2>6, LenProperties DEF Text
    <3>2. i \in 1..(Len(both) - (Len(first) + 1) + 1)
      BY <2>1, <2>6, <3>1
    <3>3. /\ (Len(first) + 1) + i - 1 \in (Len(first) + 1)..Len(both)
          /\ ((Len(first) + 1) + i - 1) - Len(first) = i /\ i \in 1..Len(w)
      BY <2>1, <3>2
    <3>4. mid[i] = w[i]
      BY <2>4, <2>6, <3>2, <3>3
    <3>5. w[i] \in ToSet(w)
      <4>1. i \in DOMAIN w
        BY <3>3, LenProperties DEF Text
      <4> QED BY <4>1 DEF ToSet
    <3> QED BY <1>3, <3>4, <3>5
  <2>8. OnlyWhite(mid)
    BY <2>7 DEF OnlyWhite, ToSet
  <2> QED BY <2>8 DEF mid, all, both
<1>4. n \in 0..Len(s) /\ m \in n..Len(s) /\ k \in n..Len(t)
  BY <1>1
<1>5. /\ SubSeq(s, 1, n) = SubSeq(t, 1, n)
      /\ SubSeq(s, m + 1, Len(s)) = SubSeq(t, k + 1, Len(t))
  BY <1>2
<1>6. OnlyWhite(SubSeq(s, n + 1, m)) /\ OnlyWhite(SubSeq(t, n + 1, k))
  BY <1>3
<1> HIDE DEF s, t, n, m, k
<1>7. DifferInWhite(s, t)
  BY <1>4, <1>5, <1>6 DEF DifferInWhite
<1> QED BY <1>7 DEF s, t

LEMMA SameText == ASSUME NEW text \in Text PROVE DifferInWhite(text, text)
<1>1. DifferInWhite((text \o << >>) \o << >>, (text \o << >>) \o << >>)
  BY EmptyText, SameUpToWhite
<1>2. (text \o << >>) \o << >> = text
  BY ConcatEmptySeq DEF Text
<1> QED BY <1>1, <1>2

(* What the user typed last is restored, and the model's text is kept.     *)
LEMMA EditKept ==
    ASSUME NEW typed \in Text, NEW said \in Text
    PROVE  LET out  == RestoreTrailingWhitespace(typed, said)
               last == SubSeq(typed, Len(TrimRight(typed, White)) + 1, Len(typed))
           IN /\ DifferInWhite(said, out)
              /\ last # typed => IsPrefix(typed, out) \/ IsSuffix(last, out)
<1> DEFINE trimmed == TrimRight(typed, White)
           last    == SubSeq(typed, Len(trimmed) + 1, Len(typed))
           out     == RestoreTrailingWhitespace(typed, said)
<1>1. /\ trimmed \in Text /\ last \in Text /\ ToSet(last) \subseteq White
      /\ typed = trimmed \o last
  BY RightTrimmedOff
<1>2. CASE trimmed = << >>
  <2>1. out = said
    BY <1>2 DEF RestoreTrailingWhitespace
  <2>2. last = typed
    BY <1>1, <1>2, ConcatEmptySeq DEF Text
  <2> QED BY <2>1, <2>2, SameText
<1>3. CASE trimmed = typed
  <2>1. out = said
    BY <1>3 DEF RestoreTrailingWhitespace
  <2>2. last = << >>
    BY <1>1, <1>3, ConcatEqualIffEmpty DEF Text
  <2>3. IsSuffix(<< >>, said \o << >>) /\ said \o << >> = said
    BY EmptyText, SuffixOfConcat, ConcatEmptySeq DEF Text
  <2> QED BY <2>1, <2>2, <2>3, SameText
<1>4. CASE trimmed # << >> /\ trimmed # typed /\ IsPrefix(trimmed, said)
  <2> DEFINE rest == SubSeq(said, Len(trimmed) + 1, Len(said))
             more == TrimLeft(rest, {" "})
  <2>1. out = typed \o more
    BY <1>4 DEF RestoreTrailingWhitespace
  <2>2. rest \in Text /\ said = trimmed \o rest
    BY <1>1, <1>4, AfterPrefix
  <2> HIDE DEF rest
  <2>3. more \in Text
    BY <2>2, LeftTrimmedOff
  <2>4. PICK off \in Text : ToSet(off) \subseteq {" "} /\ rest = off \o more
    BY <2>2, LeftTrimmedOff
  <2> HIDE DEF more
  <2>5. said = (trimmed \o off) \o more
    <3>1. trimmed \in Text
      BY <1>1
    <3> HIDE DEF trimmed, last, out
    <3>2. rest = off \o more
      BY <2>4
    <3>3. trimmed \o rest = (trimmed \o off) \o more
      BY <3>1, <2>3, <3>2, CutInTwo, SMTT(30)
    <3> QED BY <2>2, <3>3
  <2>6. ToSet(off) \subseteq White
    BY <2>4 DEF White
  <2>7. DifferInWhite((trimmed \o off) \o more, (trimmed \o last) \o more)
    <3> HIDE DEF trimmed, last
    <3> QED BY <1>1, <2>3, <2>6, SameUpToWhite
  <2>8. DifferInWhite(said, out)
    BY <1>1, <2>1, <2>5, <2>7
  <2>9. IsPrefix(typed, out)
    BY <2>1, <2>3, PrefixOfConcat
  <2> QED BY <2>8, <2>9
<1>5. CASE trimmed # << >> /\ trimmed # typed /\ ~IsPrefix(trimmed, said)
  <2> DEFINE kept == TrimRight(said, White)
             off  == SubSeq(said, Len(kept) + 1, Len(said))
  <2>1. out = kept \o last
    BY <1>5 DEF RestoreTrailingWhitespace
  <2>2. kept \in Text /\ off \in Text /\ ToSet(off) \subseteq White /\ said = kept \o off
    BY RightTrimmedOff
  <2> HIDE DEF off, kept
  <2>3. DifferInWhite((kept \o off) \o << >>, (kept \o last) \o << >>)
    <3> HIDE DEF trimmed, last
    <3> QED BY <1>1, <2>2, EmptyText, SameUpToWhite
  <2>4. (kept \o off) \o << >> = said /\ (kept \o last) \o << >> = out
    <3>1. kept \o last \in Text
      BY <1>1, <2>2, PartsOfConcat
    <3> QED BY <2>1, <2>2, <3>1, ConcatEmptySeq DEF Text
  <2>5. IsSuffix(last, out)
    BY <1>1, <2>1, <2>2, SuffixOfConcat
  <2> QED BY <2>3, <2>4, <2>5
<1> HIDE DEF out
<1> QED BY <1>2, <1>3, <1>4, <1>5 DEF out

(* An answer is appended whole.                                            *)
LEMMA AppendKept ==
    ASSUME NEW typed \in Text, NEW said \in Text
    PROVE  LET out == JoinContextAndText(typed, said)
           IN /\ out \in {typed \o said, typed \o <<" ">> \o said}
              /\ typed = << >> => out = said
              /\ (typed # << >> /\ said # << >> /\ Last(typed) \in Letters /\ Head(said) \in Letters)
                    => out # typed \o said
<1> DEFINE out == JoinContextAndText(typed, said)
<1>1. out \in {typed \o said, typed \o <<" ">> \o said}
  BY DEF JoinContextAndText
<1>2. typed = << >> => out = said
  BY ConcatEmptySeq DEF JoinContextAndText, Text
<1>3. ASSUME typed # << >>, said # << >>, Last(typed) \in Letters, Head(said) \in Letters
      PROVE  out # typed \o said
  <2>1. out = typed \o <<" ">> \o said
    BY <1>3 DEF JoinContextAndText, Letters, White
  <2>2. <<" ">> \in Text /\ Len(<<" ">>) = 1
    <3>1. " " \in Chars
      BY DEF Chars, White
    <3> DEFINE space == " "
    <3> HIDE DEF space
    <3>2. <<space>> \in Seq(Chars) /\ Len(<<space>>) = 1
      <4>1. space \in Chars
        BY <3>1 DEF space
      <4> HIDE DEF Chars
      <4> QED BY <4>1
    <3> QED BY <3>2, Zenon DEF Text, space
  <2>3. /\ typed \o <<" ">> \in Text /\ Len(typed \o <<" ">>) = Len(typed) + 1
        /\ Len(typed \o said) = Len(typed) + Len(said)
    BY <2>2, PartsOfConcat
  <2>4. Len(typed \o <<" ">> \o said) = (Len(typed) + 1) + Len(said)
    BY <2>3, PartsOfConcat
  <2>5. Len(typed) \in Nat /\ Len(said) \in Nat
    BY LenProperties DEF Text
  <2>6. Len(out) # Len(typed \o said)
    <3>1. \A i, j \in Nat : (i + 1) + j # i + j
      OBVIOUS
    <3>2. (Len(typed) + 1) + Len(said) # Len(typed) + Len(said)
      BY <2>5, <3>1, Zenon
    <3>3. Len(out) = (Len(typed) + 1) + Len(said)
      BY <2>1, <2>4, Zenon
    <3> QED BY <2>3, <3>2, <3>3, Zenon
  <2> QED BY <2>6
<1> QED BY <1>1, <1>2, <1>3

(* The kind of a text says what the characters say.                        *)
LEMMA KindsOfTexts ==
    ASSUME NEW said \in Text
    PROVE  /\ KindOf(said) \in Texts
           /\ IsNoSpeech(KindOf(said)) <=> IsNoSpeechText(said)
           /\ KindOf(said) = "sentinel" <=> said = <<"NO_SPEECH">>
<1>1. "NO_SPEECH" \in ToSet(<<"NO_SPEECH">>) /\ <<"NO_SPEECH">> # << >>
  BY DEF ToSet
<1> QED BY <1>1 DEF KindOf, Texts, IsNoSpeech, IsNoSpeechText

LEMMA TextKept ==
    ASSUME config \in Configs, req \in Requests
    PROVE  TextSurvives
<1> SUFFICES ASSUME NEW typed \in TypedTexts, NEW said \in SaidTexts,
                    (typed # << >>) = req.buffer
             PROVE  LET out    == ResultText(Mode, typed, said)
                        merged == Merge(KindOf(said))
                        last   == SubSeq(typed, Len(TrimRight(typed, White)) + 1, Len(typed))
                    IN  /\ merged.said = "nothing" => out = typed
                        /\ merged.buffer /\ merged.said # "nothing" =>
                              /\ out \in {typed \o said, typed \o <<" ">> \o said}
                              /\ (Last(typed) \in Letters /\ Head(said) \in Letters)
                                    => out # typed \o said
                        /\ ~merged.buffer /\ merged.said # "nothing" =>
                              /\ DifferInWhite(said, out)
                              /\ last # typed => IsPrefix(typed, out) \/ IsSuffix(last, out)
  BY DEF TextSurvives
<1> DEFINE out    == ResultText(Mode, typed, said)
           merged == Merge(KindOf(said))
           last   == SubSeq(typed, Len(TrimRight(typed, White)) + 1, Len(typed))
<1>1. typed \in Text /\ said \in Text
  BY TranscriptionConstants DEF Text
<1>2. Mode \in Modes /\ req.buffer \in BOOLEAN
  BY ModeOfRequest DEF Requests
<1>3. /\ KindOf(said) \in Texts /\ KindOf(said) # "nothing"
      /\ IsNoSpeech(KindOf(said)) <=> IsNoSpeechText(said)
      /\ KindOf(said) = "sentinel" <=> said = <<"NO_SPEECH">>
  BY <1>1, KindsOfTexts DEF Texts
<1>4. CASE ~Heard(KindOf(said))
  <2>1. merged.said = "nothing"
    BY <1>4 DEF Merge
  <2>2. out = typed
    BY <1>3, <1>4 DEF ResultText, Heard
  <2> QED BY <2>1, <2>2
<1>5. CASE Heard(KindOf(said)) /\ Mode = "append"
  <2>1. merged.said # "nothing" /\ (merged.buffer <=> typed # << >>)
    BY <1>2, <1>3, <1>5 DEF Merge
  <2>2. out = JoinContextAndText(typed, said) /\ said # << >>
    BY <1>3, <1>5 DEF ResultText, Heard, IsNoSpeechText
  <2>3. typed = << >> => last = typed
    <3>1. typed = TrimRight(typed, White) \o last /\ TrimRight(typed, White) \in Text /\ last \in Text
      BY <1>1, RightTrimmedOff
    <3> HIDE DEF last
    <3> QED BY <3>1, EmptyConcat
  <2>4. typed = << >> => DifferInWhite(said, out)
    BY <1>1, <2>2, AppendKept, SameText
  <2> HIDE DEF merged, last
  <2>5. /\ out \in {typed \o said, typed \o <<" ">> \o said}
        /\ (typed # << >> /\ Last(typed) \in Letters /\ Head(said) \in Letters)
              => out # typed \o said
    <3> HIDE DEF out
    <3> QED BY <1>1, <2>2, AppendKept, Zenon
  <2> HIDE DEF out
  <2>6. /\ merged.said = "nothing" => out = typed
        /\ merged.buffer /\ merged.said # "nothing" =>
              /\ out \in {typed \o said, typed \o <<" ">> \o said}
              /\ (Last(typed) \in Letters /\ Head(said) \in Letters) => out # typed \o said
        /\ ~merged.buffer /\ merged.said # "nothing" =>
              /\ DifferInWhite(said, out)
              /\ last # typed => IsPrefix(typed, out) \/ IsSuffix(last, out)
    BY <2>1, <2>3, <2>4, <2>5
  <2> QED BY <2>6 DEF merged, out, last
<1>6. CASE Heard(KindOf(said)) /\ Mode # "append"
  <2>1. merged.said # "nothing" /\ ~merged.buffer
    BY <1>2, <1>3, <1>6 DEF Merge
  <2>2. said # <<"NO_SPEECH">>
    BY <1>3, <1>6 DEF Heard
  <2>3. DifferInWhite(said, out) /\ (last # typed => IsPrefix(typed, out) \/ IsSuffix(last, out))
    <3>1. CASE typed # << >>
      <4>1. out = RestoreTrailingWhitespace(typed, said)
        BY <1>6, <2>2, <3>1 DEF ResultText
      <4> QED BY <1>1, <4>1, EditKept
    <3>2. CASE typed = << >>
      <4>1. out = said
        BY <1>6, <2>2, <3>2 DEF ResultText
      <4>2. last = typed
        <5>1. /\ typed = TrimRight(typed, White) \o last
              /\ TrimRight(typed, White) \in Text /\ last \in Text
          BY <1>1, RightTrimmedOff
        <5> HIDE DEF last
        <5> QED BY <3>2, <5>1, EmptyConcat
      <4> QED BY <1>1, <4>1, <4>2, SameText
    <3> QED BY <3>1, <3>2
  <2> HIDE DEF merged, last, out
  <2>4. /\ merged.said = "nothing" => out = typed
        /\ merged.buffer /\ merged.said # "nothing" =>
              /\ out \in {typed \o said, typed \o <<" ">> \o said}
              /\ (Last(typed) \in Letters /\ Head(said) \in Letters) => out # typed \o said
        /\ ~merged.buffer /\ merged.said # "nothing" =>
              /\ DifferInWhite(said, out)
              /\ last # typed => IsPrefix(typed, out) \/ IsSuffix(last, out)
    BY <2>1, <2>3
  <2> QED BY <2>4 DEF merged, out, last
<1> QED BY <1>4, <1>5, <1>6

LEMMA TextNow == CallInv => TextSurvives
BY TextKept DEF CallInv, TypeOK

(* Whatever the user typed and whatever a model answers, of any length:    *)
(* an append keeps both texts whole with at most a space between them and  *)
(* runs no two words together; an edit keeps the model's text up to the    *)
(* white space at one place, and the white space the user had typed last.  *)
THEOREM TextIsKept == Spec => []TextSurvives
BY TextNow, CallInit, CallStep, PTL DEF Spec
=============================================================================
