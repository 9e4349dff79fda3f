---------------------- MODULE TranscribeHandlerProofs -----------------------
(***************************************************************************)
(* Theorems about TranscribeHandler for any environments, requests, limits *)
(* and timeouts.  What happens between a call and its end is that of       *)
(* Transcription, whose invariant is taken from its proofs.                *)
(***************************************************************************)
EXTENDS TranscribeHandler, TranscriptionProofs

(* Before the handler calls Transcribe, nothing of it has begun.           *)
Before == phase \in {"off", "fatal", "header", "body", "closed"} => pc = "start"

(* A service that runs has the configuration of its environment, and it    *)
(* was let pass.                                                           *)
Running ==
    phase \notin {"off", "fatal"} =>
        Validate /\ config.engine = LoadedEngine

(* The calls began when the form was complete.                             *)
Timely ==
    /\ phase \in {"body", "transcribing", "done"} => until >= WriteTimeout
    /\ phase = "transcribing" => now <= uploaded + clock
    /\ OnlyLateLoseAnswer

HandlerInv ==
    /\ CallInv /\ HandlerTypeOK
    /\ pc = "done" => answer # Pending
    /\ Before /\ Running /\ Timely /\ ConsentRespected
    /\ phase # "done" => entry = "none" /\ reply = NotSent

(* Transcribe may be given anything before it begins.                      *)
LEMMA FreshCall ==
    ASSUME CallInv, pc = "start", UNCHANGED <<pc, queue, clock, deadline, tried, answer>>,
           config' \in Configs, req' \in Requests
    PROVE  CallInv'
<1>1. TypeOK'
  BY DEF CallInv, TypeOK
<1>2. InOrder'
  BY DEF CallInv, InOrder
<1>3. InTime'
  <2>1. tried = << >> /\ clock = 0 /\ Len(tried) = 0
    BY EmptySeq DEF CallInv, InOrder
  <2>2. EffectiveTimeout' \in Nat
    <3>1. config'.qwenTimeout \in Nat /\ Timeout \in Nat
      BY TranscriptionConstants DEF Configs
    <3>2. EffectiveTimeout' \in {config'.qwenTimeout, Timeout}
      BY DEF EffectiveTimeout
    <3> QED BY <3>1, <3>2
  <2>3. clock' = 0 /\ Len(tried') = 0 /\ pc' = "start"
    BY <2>1
  <2>4. \A n \in Nat : 0 <= 0 * n
    OBVIOUS
  <2>5. 0 <= 0 * EffectiveTimeout'
    BY <2>2, <2>4, Zenon
  <2> QED BY <2>3, <2>5 DEF InTime
<1>4. InBuffer'
  BY DEF InBuffer
<1> QED BY <1>1, <1>2, <1>3, <1>4 DEF CallInv

LEMMA Loaded ==
    ASSUME env \in Environments
    PROVE  /\ LoadedEngine \in Engines
           /\ [engine |-> LoadedEngine, editMode |-> LoadedEditMode,
               qwenTimeout |-> env.qwenTimeout] \in Configs
           /\ NoConfig \in Configs
<1>1. env.qwenTimeout \in QwenTimeouts
  BY HandlerConstants DEF AllEnvironments
<1>2. LoadedEngine \in Engines
  BY DEF LoadedEngine, Engines
<1>3. LoadedEditMode \in {"edit", "append"} /\ (LoadedEngine = "gpt" => LoadedEditMode = "append")
  BY DEF LoadedEditMode
<1> QED BY <1>1, <1>2, <1>3 DEF Configs, NoConfig, Engines

LEMMA OptionsOfForm ==
    ASSUME form \in Forms, Acceptable
    PROVE  Options \in Requests
<1>1. form \in AllForms
  BY HandlerConstants
<1>2. /\ form.engine \in Engines \cup {"default"} /\ form.mode \in {"append", "edit_only", "default"}
      /\ form.model \in Models \cup {NoModel} /\ form.buffer \in BOOLEAN
      /\ form.mode = "edit_only" => form.buffer
  BY <1>1 DEF AllForms, Acceptable
<1> QED BY <1>2 DEF Options, Requests

LEMMA HandlerStarts == HandlerInit => HandlerInv
<1> SUFFICES ASSUME HandlerInit PROVE HandlerInv
  OBVIOUS
<1>1. CallInv
  BY CallInit DEF HandlerInit
<1>2. HandlerTypeOK
  BY <1>1 DEF HandlerInit, HandlerTypeOK, CallInv, NotSent
<1>3. Before /\ pc = "start"
  BY DEF HandlerInit, Init, Before
<1>4. Running /\ Timely /\ ConsentRespected
  BY DEF HandlerInit, Running, Timely, OnlyLateLoseAnswer, ConsentRespected
<1> QED BY <1>1, <1>2, <1>3, <1>4 DEF HandlerInv, HandlerInit

-----------------------------------------------------------------------------
(* The environment stays, and with it what is loaded.                      *)
LEMMA EnvironmentStays ==
    ASSUME UNCHANGED process
    PROVE  /\ UNCHANGED <<env, form>> /\ UNCHANGED LoadedEngine /\ UNCHANGED Validate
           /\ UNCHANGED LoadedEditMode
<1>1. env' = env /\ form' = form
  BY DEF process
<1>2. UNCHANGED LoadedEngine
  BY <1>1 DEF LoadedEngine
<1>3. UNCHANGED <<MaxFileSize, MaxUploadSize>>
  BY <1>1 DEF MaxFileSize, MaxUploadSize
<1> QED BY <1>1, <1>2, <1>3 DEF Validate, LoadedEditMode

LEMMA CallStays ==
    ASSUME CallInv, UNCHANGED vars
    PROVE  CallInv' /\ UNCHANGED <<config, req, pc, clock, answer>>
<1>1. CallInv'
  BY CallStep
<1> QED BY <1>1 DEF vars

LEMMA InvBoot == ASSUME HandlerInv, Boot PROVE HandlerInv'
<1>1. pc = "start" /\ env \in Environments
  BY DEF HandlerInv, Boot, Before, HandlerTypeOK
<1>2. UNCHANGED <<pc, queue, clock, deadline, tried, answer, req, env, form>> /\ UNCHANGED process
  BY DEF Boot, process
<1>3. config' \in Configs /\ config'.engine = LoadedEngine
  BY <1>1, Loaded DEF Boot
<1>4. req' \in Requests
  BY <1>2 DEF HandlerInv, CallInv, TypeOK
<1>5. CallInv'
  BY <1>1, <1>2, <1>3, <1>4, FreshCall DEF HandlerInv
<1>6. HandlerTypeOK'
  BY <1>2, <1>5 DEF HandlerInv, HandlerTypeOK, Boot, CallInv
<1>7. Before' /\ Timely' /\ ConsentRespected'
  BY <1>1, <1>2 DEF HandlerInv, Before, Timely, Boot, OnlyLateLoseAnswer, ConsentRespected
<1>8. Running'
  BY <1>2, <1>3, EnvironmentStays DEF Boot, Running
<1> QED BY <1>2, <1>5, <1>6, <1>7, <1>8 DEF HandlerInv, Boot

LEMMA InvReads ==
    ASSUME HandlerInv, BootFails \/ Wait \/ ReadHeader \/ HeaderLate \/ Receive
    PROVE  HandlerInv'
<1>1. UNCHANGED vars /\ UNCHANGED process /\ UNCHANGED <<entry, reply, uploaded>>
  BY DEF BootFails, Wait, ReadHeader, HeaderLate, Receive
<1>2. CallInv' /\ UNCHANGED <<config, req, pc, clock, answer>>
  BY <1>1, CallStays DEF HandlerInv
<1>3. phase \in {"off", "header", "body"}
  BY DEF BootFails, Wait, ReadHeader, HeaderLate, Receive
<1>4. phase' \in {"fatal", "header", "body", "closed"}
  BY DEF BootFails, Wait, ReadHeader, HeaderLate, Receive
<1>5. HandlerTypeOK'
  <2>1. now' \in Nat /\ received' \in Nat /\ until' \in Nat
    BY HandlerConstants DEF HandlerInv, HandlerTypeOK, BootFails, Wait, ReadHeader, HeaderLate, Receive
  <2>2. env' = env /\ form' = form
    BY <1>1 DEF process
  <2> QED BY <1>1, <1>2, <1>4, <2>1, <2>2 DEF HandlerInv, HandlerTypeOK, CallInv
<1>6. Before'
  BY <1>2, <1>3 DEF HandlerInv, Before
<1>7. Running'
  BY <1>1, <1>2, EnvironmentStays
     DEF HandlerInv, Running, BootFails, Wait, ReadHeader, HeaderLate, Receive
<1>8. Timely'
  <2>1. phase' = "body" => until' >= WriteTimeout
    BY HandlerConstants
       DEF HandlerInv, HandlerTypeOK, Timely, BootFails, Wait, ReadHeader, HeaderLate, Receive
  <2> QED BY <1>4, <2>1 DEF Timely, OnlyLateLoseAnswer
<1>9. entry' = "none" /\ reply' = NotSent
  BY <1>1, <1>3 DEF HandlerInv
<1> QED BY <1>2, <1>5, <1>6, <1>7, <1>8, <1>9 DEF HandlerInv, ConsentRespected

(* The answers the handler gives before it calls Transcribe.               *)
Turned == BodyTooLarge \/ BodyLate \/ NoFile \/ FileTooLarge \/ Reject

LEMMA MessageTypes ==
    ASSUME NEW msg, Answer(msg), msg \in {"no_audio", "too_large", "file_size", "invalid", "ok",
                         "not_supported", "timeout", "unavailable", "failed"}
    PROVE  reply' \in [msg : {"none", "no_audio", "too_large", "file_size", "invalid", "ok",
                         "not_supported", "timeout", "unavailable", "failed"},
                  through : BOOLEAN]
BY DEF Answer

LEMMA InvTurned == ASSUME HandlerInv, Turned PROVE HandlerInv'
<1>1. PICK msg \in {"no_audio", "too_large", "file_size", "invalid"} : Answer(msg)
  BY DEF Turned, BodyTooLarge, BodyLate, NoFile, FileTooLarge, Reject, TooLargeMessages
<1>2. phase = "body" /\ entry' = entry
  BY DEF Turned, BodyTooLarge, BodyLate, NoFile, FileTooLarge, Reject
<1>3. /\ phase' = "done"
      /\ UNCHANGED <<process, env, form, now, received, until, uploaded>> /\ UNCHANGED vars
  BY <1>1 DEF Answer, process
<1>4. CallInv' /\ UNCHANGED <<config, req, pc, clock, answer>>
  BY <1>3, CallStays DEF HandlerInv
<1>5. pc' = "start" /\ entry' = "none"
  BY <1>2, <1>4 DEF HandlerInv, Before
<1>6. HandlerTypeOK'
  BY <1>1, <1>3, <1>4, <1>5, MessageTypes DEF HandlerInv, HandlerTypeOK, CallInv
<1>7. Running'
  BY <1>2, <1>3, <1>4, EnvironmentStays DEF HandlerInv, Running
<1>8. Timely'
  BY <1>2, <1>3, <1>5 DEF HandlerInv, Timely, OnlyLateLoseAnswer
<1> QED BY <1>3, <1>4, <1>5, <1>6, <1>7, <1>8 DEF HandlerInv, Before, ConsentRespected

LEMMA InvAccept == ASSUME HandlerInv, Accept PROVE HandlerInv'
<1>1. phase = "body" /\ pc = "start" /\ form \in Forms
  BY DEF HandlerInv, Before, Accept, HandlerTypeOK
<1>2. /\ UNCHANGED <<process, env, form, now, received, until, entry, reply>>
      /\ UNCHANGED <<pc, queue, clock, deadline, tried, answer>> /\ config' = config
  BY DEF Accept, process
<1>3. req' \in Requests
  BY <1>1, OptionsOfForm DEF Accept
<1>4. CallInv'
  BY <1>1, <1>2, <1>3, FreshCall DEF HandlerInv, CallInv, TypeOK
<1>5. HandlerTypeOK'
  BY <1>2, <1>4 DEF HandlerInv, HandlerTypeOK, CallInv, Accept
<1>6. Running'
  BY <1>1, <1>2, EnvironmentStays DEF HandlerInv, Running
<1>7. Timely'
  <2>1. clock' = 0 /\ uploaded' = now' /\ now' \in Nat
    BY <1>1, <1>2 DEF HandlerInv, CallInv, InOrder, Accept, HandlerTypeOK
  <2>2. \A n \in Nat : n <= n + 0
    OBVIOUS
  <2>3. now' <= uploaded' + clock'
    BY <2>1, <2>2, Zenon
  <2> QED BY <1>1, <1>2, <2>3 DEF HandlerInv, Timely, OnlyLateLoseAnswer, Accept
<1> QED BY <1>1, <1>2, <1>4, <1>5, <1>6, <1>7 DEF HandlerInv, Before, ConsentRespected, Accept

(* No step of Transcribe takes back time, or changes what it was given.    *)
LEMMA TranscribeMoves ==
    ASSUME CallInv, Next
    PROVE  CallInv' /\ UNCHANGED request /\ clock' \in {clock, clock + 1} /\ clock \in Nat
<1>1. CallInv'
  BY CallStep
<1>2. UNCHANGED request /\ clock' \in {clock, clock + 1}
  BY DEF Next, EditRefused, Start, CallModel, GiveUp, TimedOut, Tick, Answered, Refused, Failed,
         Ended
<1> QED BY <1>1, <1>2, Clocks

(* Transcribe ends with an answer.                                         *)
LEMMA TranscribeReturns ==
    ASSUME Next, pc' = "done"
    PROVE  answer' # Pending
<1>1. pc # "done"
  BY DEF Next, EditRefused, Start, CallModel, GiveUp, TimedOut, Tick, Answered, Refused, Failed,
         Ended
<1>2. CASE EditRefused
  BY <1>2 DEF EditRefused, Return, Pending
<1>3. CASE GiveUp
  BY <1>3 DEF GiveUp, Return, Pending
<1>4. CASE \E text \in Texts : Answered(text)
  BY <1>4 DEF Answered, Return, Pending
<1>5. CASE \E failure \in Failures : Refused(failure)
  BY <1>5 DEF Refused, Return, Pending
<1>6. CASE Start \/ CallModel \/ TimedOut \/ Tick \/ \E failure \in Failures : Failed(failure)
  BY <1>1, <1>6 DEF Start, CallModel, TimedOut, Tick, Failed
<1> QED BY <1>2, <1>3, <1>4, <1>5, <1>6 DEF Next

LEMMA InvTranscribe == ASSUME HandlerInv, Transcribe PROVE HandlerInv'
<1>1. CallInv' /\ UNCHANGED request /\ clock' \in {clock, clock + 1} /\ clock \in Nat
  BY TranscribeMoves DEF HandlerInv, Transcribe
<1>2. phase = "transcribing" /\ now' = now + (clock' - clock)
  BY DEF Transcribe
<1>3. /\ UNCHANGED <<process, env, form, phase, received, until, uploaded, entry, reply>>
      /\ config' = config
  BY <1>1 DEF Transcribe, process, request
<1>4. now \in Nat /\ uploaded \in Nat /\ now <= uploaded + clock /\ entry = "none"
  BY <1>2 DEF HandlerInv, HandlerTypeOK, Timely
<1>5. now' \in Nat /\ now' <= uploaded' + clock'
  <2>1. \A n, u, c \in Nat : \A d \in {c, c + 1} :
            n <= u + c => n + (d - c) \in Nat /\ n + (d - c) <= u + d
    OBVIOUS
  <2>2. now + (clock' - clock) \in Nat /\ now + (clock' - clock) <= uploaded + clock'
    BY <1>1, <1>4, <2>1
  <2> QED BY <1>2, <1>3, <2>2
<1>6. HandlerTypeOK'
  BY <1>1, <1>3, <1>5 DEF HandlerInv, HandlerTypeOK, CallInv
<1>7. Running'
  BY <1>2, <1>3, EnvironmentStays DEF HandlerInv, Running
<1>8. Timely'
  BY <1>2, <1>3, <1>5 DEF HandlerInv, Timely, OnlyLateLoseAnswer
<1>9. pc' = "done" => answer' # Pending
  BY TranscribeReturns DEF Transcribe
<1> QED BY <1>1, <1>2, <1>3, <1>4, <1>6, <1>7, <1>8, <1>9
        DEF HandlerInv, Before, ConsentRespected

LEMMA InvAnswer == ASSUME HandlerInv, LogAndAnswer PROVE HandlerInv'
<1>1. phase = "transcribing" /\ pc = "done"
  BY DEF LogAndAnswer
<1>2. answer.kind \in {"ok", "failed", "not_supported"} \/ answer.kind = "pending"
  BY DEF HandlerInv, CallInv, TypeOK, Answers
<1>3. PICK msg \in Messages : Answer(msg)
  BY DEF LogAndAnswer
<1>4. msg \in {"ok", "not_supported", "timeout", "unavailable", "failed"}
  BY <1>3 DEF Messages, ErrorMessages
<1>5. /\ phase' = "done"
      /\ UNCHANGED <<process, env, form, now, received, until, uploaded>> /\ UNCHANGED vars
  BY <1>3 DEF Answer, process
<1>6. CallInv' /\ UNCHANGED <<config, req, pc, clock, answer>>
  BY <1>5, CallStays DEF HandlerInv
<1>7. answer.kind # "pending"
  BY <1>1 DEF HandlerInv, CallInv, TypeOK, Answers, Pending
<1>8. entry' \in {"none", answer.kind} /\ (entry' # "none" => ShouldLog)
  BY DEF LogAndAnswer
<1>9. HandlerTypeOK'
  BY <1>2, <1>3, <1>4, <1>5, <1>6, <1>7, <1>8, MessageTypes
     DEF HandlerInv, HandlerTypeOK, CallInv
<1>10. ConsentRespected'
  <2>1. form \in AllForms
    BY HandlerConstants DEF HandlerInv, HandlerTypeOK
  <2>2. form.feedback \in {"unset", "true", "false", "invalid"}
    BY <2>1 DEF AllForms
  <2>3. ShouldLog => /\ form.feedback \in {"unset", "true"}
                     /\ form.feedback = "unset" => env.allowFeedback = "true"
    BY <2>2 DEF ShouldLog
  <2> QED BY <1>1, <1>5, <1>6, <1>8, <2>3 DEF ConsentRespected
<1>11. Running'
  BY <1>1, <1>5, <1>6, EnvironmentStays DEF HandlerInv, Running
<1>12. Timely'
  <2>1. /\ now \in Nat /\ until \in Nat /\ uploaded \in Nat /\ until >= WriteTimeout
        /\ now <= uploaded + clock
    BY <1>1 DEF HandlerInv, HandlerTypeOK, Timely
  <2>2. clock \in 0..TotalTimeout /\ TotalTimeout \in Nat /\ WriteTimeout \in Nat
    BY TranscriptionConstants, HandlerConstants DEF HandlerInv, CallInv, TypeOK
  <2>3. ~reply'.through => now >= until
    BY <1>3 DEF Answer
  <2>4. now >= until => uploaded + TotalTimeout >= WriteTimeout
    BY <2>1, <2>2
  <2> QED BY <1>5, <2>1, <2>3, <2>4 DEF Timely, OnlyLateLoseAnswer
<1> QED BY <1>1, <1>5, <1>6, <1>9, <1>10, <1>11, <1>12, <1>7 DEF HandlerInv, Before, Pending

LEMMA HandlerStep == HandlerInv /\ [HandlerNext]_handlerVars => HandlerInv'
<1> SUFFICES ASSUME HandlerInv, [HandlerNext]_handlerVars PROVE HandlerInv'
  OBVIOUS
<1>1. CASE HandlerNext
  BY <1>1, InvBoot, InvReads, InvTurned, InvAccept, InvTranscribe, InvAnswer
     DEF HandlerNext, Turned
<1>2. CASE UNCHANGED handlerVars
  <2>1. /\ UNCHANGED <<process, env, form, phase, now, received, until, uploaded, entry, reply>>
        /\ UNCHANGED vars
    BY <1>2 DEF handlerVars, process
  <2>2. CallInv' /\ UNCHANGED <<config, req, pc, clock, answer>>
    BY <2>1, CallStays DEF HandlerInv
  <2>3. HandlerTypeOK' /\ Before' /\ Timely' /\ ConsentRespected'
    BY <2>1, <2>2 DEF HandlerInv, HandlerTypeOK, CallInv, Before, Timely, OnlyLateLoseAnswer,
                      ConsentRespected
  <2>4. Running'
    BY <2>1, <2>2, EnvironmentStays DEF HandlerInv, Running
  <2> QED BY <2>1, <2>2, <2>3, <2>4 DEF HandlerInv
<1> QED BY <1>1, <1>2

LEMMA HandlerInvariant == HandlerSpec => []HandlerInv
BY HandlerStarts, HandlerStep, PTL DEF HandlerSpec

(* Every variable has its type: what LoadFromEnv and the handler hand to   *)
(* Transcribe is what Transcribe takes for granted.                        *)
THEOREM HandlerTypes == HandlerSpec => []HandlerTypeOK
<1>1. HandlerInv => HandlerTypeOK
  BY DEF HandlerInv
<1> QED BY <1>1, HandlerInvariant, PTL

(* A configuration that Validate lets pass serves every request but those  *)
(* for another engine than Qwen when Qwen is the default: the URL and key  *)
(* it asked for are those the calls use.                                   *)
THEOREM ValidationSuffices == HandlerSpec => []ValidatedServes
<1>1. HandlerInv => ValidatedServes
  <2> SUFFICES ASSUME HandlerInv, pc = "calling", config.engine # "qwen" \/ Engine = "qwen"
               PROVE  HasURL /\ HasKey
    BY DEF ValidatedServes
  <2>1. phase \in {"transcribing", "done"}
    BY DEF HandlerInv, Before, HandlerTypeOK
  <2>2. Validate /\ config.engine = LoadedEngine
    BY <2>1 DEF HandlerInv, Running
  <2> QED BY <2>2 DEF Validate, HasURL, HasKey
<1> QED BY <1>1, HandlerInvariant, PTL

(* An answer is lost only to a client that was slow: the calls end within  *)
(* TotalTimeout of the complete form, whatever the models do.              *)
THEOREM AnswersGetThrough == HandlerSpec => []OnlyLateLoseAnswer
<1>1. HandlerInv => OnlyLateLoseAnswer
  BY DEF HandlerInv, Timely
<1> QED BY <1>1, HandlerInvariant, PTL

(* What the user says of the log is what counts.                           *)
THEOREM ConsentHolds == HandlerSpec => []ConsentRespected
<1>1. HandlerInv => ConsentRespected
  BY DEF HandlerInv
<1> QED BY <1>1, HandlerInvariant, PTL

(* Within the handler, too, whatever the environment and the request, a    *)
(* transcription keeps what Transcription promises of it: the handler puts *)
(* config and req in place before the first call and touches neither again.*)
THEOREM TranscriptionHolds ==
    HandlerSpec => [](/\ FailsOverInOrder /\ TurnsGuaranteed /\ OnlyEditorsRewrite
                      /\ PromptsAgree /\ TextSurvives)
<1>1. HandlerInv => /\ FailsOverInOrder /\ TurnsGuaranteed /\ OnlyEditorsRewrite
                    /\ PromptsAgree /\ TextSurvives
  BY OrderedNow, TurnsNow, EditorsNow, AgreementNow, TextNow DEF HandlerInv
<1> QED BY <1>1, HandlerInvariant, PTL

-----------------------------------------------------------------------------
(* Reading stops with ReadTimeout and at the limit of the body.            *)
Punctual ==
    /\ phase \notin {"transcribing", "done"} => now <= ReadTimeout
    /\ phase = "transcribing" => uploaded <= ReadTimeout
    /\ phase = "done" => now <= ReadTimeout + TotalTimeout
    /\ received <= MaxUploadSize

LEMMA Limits ==
    ASSUME HandlerInv
    PROVE  /\ ReadTimeout \in Nat /\ TotalTimeout \in Nat /\ MaxUploadSize \in Nat
           /\ now \in Nat /\ received \in Nat /\ uploaded \in Nat /\ clock \in 0..TotalTimeout
           /\ phase = "transcribing" => now <= uploaded + clock
<1>1. env.maxUploadSize \in Nat
  BY HandlerConstants DEF HandlerInv, HandlerTypeOK, AllEnvironments
<1>2. MaxUploadSize \in Nat
  BY <1>1 DEF MaxUploadSize, Positive, DefaultMaxUploadSize
<1> QED BY <1>2, TranscriptionConstants, HandlerConstants
        DEF HandlerInv, HandlerTypeOK, CallInv, TypeOK, Timely

LEMMA PunctualInit == HandlerInit => Punctual
<1> SUFFICES ASSUME HandlerInit PROVE Punctual
  OBVIOUS
<1>1. ReadTimeout \in Nat /\ MaxUploadSize \in Nat
  BY HandlerStarts, Limits
<1> QED BY <1>1 DEF HandlerInit, Punctual

LEMMA PunctualStep ==
    ASSUME HandlerInv, Punctual, [HandlerNext]_handlerVars
    PROVE  Punctual'
<1>1. /\ ReadTimeout \in Nat /\ TotalTimeout \in Nat /\ MaxUploadSize \in Nat
      /\ now \in Nat /\ received \in Nat /\ uploaded \in Nat /\ clock \in 0..TotalTimeout
      /\ phase = "transcribing" => now <= uploaded + clock
  BY Limits
<1>2. UNCHANGED process => UNCHANGED MaxUploadSize
  BY EnvironmentStays DEF MaxUploadSize
<1>3. CASE BootFails \/ Boot \/ ReadHeader \/ HeaderLate
  <2>1. /\ phase \notin {"transcribing", "done"} /\ phase' \notin {"transcribing", "done"}
        /\ UNCHANGED <<now, received>> /\ UNCHANGED process
    BY <1>3 DEF BootFails, Boot, ReadHeader, HeaderLate
  <2> QED BY <1>2, <2>1 DEF Punctual
<1>4. CASE Wait
  <2>1. /\ phase \in {"header", "body"} /\ phase' = phase /\ now < ReadTimeout /\ now' = now + 1
        /\ received' = received /\ UNCHANGED process
    BY <1>4 DEF Wait
  <2>2. now' <= ReadTimeout
    BY <1>1, <2>1
  <2> QED BY <1>2, <2>1, <2>2 DEF Punctual
<1>5. CASE Receive
  <2>1. /\ phase = "body" /\ phase' = phase /\ received < MaxUploadSize /\ received' = received + 1
        /\ now' = now /\ UNCHANGED process
    BY <1>5 DEF Receive
  <2>2. received' <= MaxUploadSize
    BY <1>1, <2>1
  <2> QED BY <1>2, <2>1, <2>2 DEF Punctual
<1>6. CASE Accept
  <2>1. /\ phase = "body" /\ phase' = "transcribing" /\ uploaded' = now
        /\ UNCHANGED <<now, received>> /\ UNCHANGED process
    BY <1>6 DEF Accept
  <2> QED BY <1>2, <2>1 DEF Punctual
<1>7. CASE Turned \/ LogAndAnswer
  <2>1. /\ phase \in {"body", "transcribing"} /\ phase' = "done"
        /\ UNCHANGED <<now, received>> /\ UNCHANGED process
    BY <1>7 DEF Turned, BodyTooLarge, BodyLate, NoFile, FileTooLarge, Reject, LogAndAnswer, Answer
  <2>2. phase = "body" => now <= ReadTimeout + TotalTimeout
    BY <1>1 DEF Punctual
  <2>3. phase = "transcribing" => now <= ReadTimeout + TotalTimeout
    BY <1>1 DEF Punctual
  <2> QED BY <1>2, <2>1, <2>2, <2>3 DEF Punctual
<1>8. CASE Transcribe
  <2>1. /\ phase = "transcribing" /\ phase' = phase /\ UNCHANGED <<uploaded, received>>
        /\ UNCHANGED process
    BY <1>8 DEF Transcribe
  <2> QED BY <1>2, <2>1 DEF Punctual
<1>9. CASE UNCHANGED handlerVars
  <2>1. UNCHANGED <<phase, now, received, uploaded>> /\ UNCHANGED process
    BY <1>9 DEF handlerVars, process
  <2> QED BY <1>2, <2>1 DEF Punctual
<1> QED BY <1>3, <1>4, <1>5, <1>6, <1>7, <1>8, <1>9 DEF HandlerNext, Turned

(* A request occupies the server no longer than ReadTimeout for its body   *)
(* and TotalTimeout for its calls, whatever client and models do.          *)
TimeIsBounded == now <= ReadTimeout + TotalTimeout

(* The timeouts of the server and of the calls bound a request together.   *)
THEOREM TimeHolds == HandlerSpec => []TimeIsBounded
<1>1. HandlerInv /\ Punctual => TimeIsBounded
  <2> SUFFICES ASSUME HandlerInv, Punctual PROVE TimeIsBounded
    OBVIOUS
  <2>1. /\ ReadTimeout \in Nat /\ TotalTimeout \in Nat /\ now \in Nat /\ uploaded \in Nat
        /\ clock \in 0..TotalTimeout
        /\ phase = "transcribing" => now <= uploaded + clock
    BY Limits
  <2> QED BY <2>1 DEF Punctual, TimeIsBounded
<1>2. HandlerInv /\ Punctual /\ [HandlerNext]_handlerVars => Punctual'
  BY PunctualStep
<1> QED BY <1>1, <1>2, PunctualInit, HandlerInvariant, PTL DEF HandlerSpec

-----------------------------------------------------------------------------
(* How many steps a request has left at most; ForCalls is what its         *)
(* transcription can need.                                                 *)
EngineOfForm == IF form.engine = "default" THEN LoadedEngine ELSE form.engine
ForCalls     == TotalTimeout + 2 * (1 + Len(ModelsForEngine(EngineOfForm))) + 2
Reading      == (ReadTimeout - now) + (MaxUploadSize - received)

RequestStepsLeft ==
    CASE phase = "off"          -> Reading + ForCalls + 4
      [] phase = "header"       -> Reading + ForCalls + 3
      [] phase = "body"         -> Reading + ForCalls + 2
      [] phase = "transcribing" -> StepsLeft + 1
      [] OTHER                  -> 0

LEMMA RequestStepsNat ==
    ASSUME HandlerInv, Punctual
    PROVE  /\ RequestStepsLeft \in Nat /\ StepsLeft \in Nat /\ ForCalls \in Nat
           /\ phase \in {"off", "header", "body"} => Reading \in Nat
<1>1. Len(ModelsForEngine(EngineOfForm)) \in Nat
  <2>1. ModelsForEngine(EngineOfForm) \in Seq(Models)
    BY TranscriptionConstants DEF ModelsForEngine
  <2> QED BY <2>1, LenProperties
<1>2. ForCalls \in Nat
  <2> DEFINE len == Len(ModelsForEngine(EngineOfForm))
  <2> HIDE DEF len
  <2>1. len \in Nat /\ TotalTimeout \in Nat
    BY <1>1, Limits DEF len
  <2>2. TotalTimeout + 2 * (1 + len) + 2 \in Nat
    BY <2>1
  <2> QED BY <2>2 DEF ForCalls, len
<1>3. StepsLeft \in Nat
  BY StepsLeftIsNat DEF HandlerInv
<1>4. phase \in {"off", "header", "body"} => Reading \in Nat
  BY Limits DEF Punctual, Reading
<1>5. RequestStepsLeft \in Nat
  BY <1>2, <1>3, <1>4 DEF RequestStepsLeft
<1> QED BY <1>2, <1>3, <1>4, <1>5

(* When the form is accepted its calls need no more than was set aside.    *)
LEMMA EnoughForCalls ==
    ASSUME HandlerInv, Punctual, Accept
    PROVE  StepsLeft' <= ForCalls /\ StepsLeft' \in Nat
<1>1. HandlerInv'
  BY InvAccept
<1>2. phase = "body" /\ pc = "start" /\ pc' = "start" /\ config.engine = LoadedEngine
  BY DEF HandlerInv, Before, Accept, Running
<1>3. req' = Options /\ config' = config
  BY DEF Accept
<1> DEFINE list == ModelsForEngine(EngineOfForm)
<1>4. Engine' = EngineOfForm
  BY <1>2, <1>3 DEF Engine, EngineOfForm, Options
<1>5. ModelsForEngine(Engine') = list
  BY <1>4
<1>6. list \in Seq(Models) /\ Len(list) \in Nat
  <2>1. list \in Seq(Models)
    BY TranscriptionConstants DEF ModelsForEngine
  <2> QED BY <2>1, LenProperties
<1>7. Wanted' = list \/ (req'.model \in Models /\ Wanted' = <<req'.model>> \o list)
  <2>1. req' \in Requests
    BY <1>1 DEF HandlerInv, CallInv, TypeOK
  <2>2. ModelsForEngine(Engine)' = list
    BY <1>5 DEF ModelsForEngine
  <2> HIDE DEF list
  <2> QED BY <2>1, <2>2 DEF Wanted, Requests
<1> HIDE DEF list
<1>8. Len(Wanted') \in Nat /\ Len(Wanted') <= 1 + Len(list)
  <2>1. CASE Wanted' = list
    BY <1>6, <2>1
  <2>2. CASE req'.model \in Models /\ Wanted' = <<req'.model>> \o list
    <3>1. <<req'.model>> \in Seq(Models) /\ Len(<<req'.model>>) = 1
      BY <2>2
    <3>2. Len(Wanted') = 1 + Len(list)
      BY <1>6, <2>2, <3>1, ConcatProperties
    <3> QED BY <1>6, <3>2
  <2> QED BY <1>7, <2>1, <2>2
<1>9. StepsLeft' = TotalTimeout + 2 * Len(Wanted') + 2
  BY <1>2 DEF StepsLeft
<1>10. \A t, m, n \in Nat : m <= 1 + n => t + 2 * m + 2 <= t + 2 * (1 + n) + 2
  OBVIOUS
<1>11. StepsLeft' <= TotalTimeout + 2 * (1 + Len(list)) + 2
  <2>1. TotalTimeout \in Nat
    BY Limits
  <2>2. TotalTimeout + 2 * Len(Wanted') + 2 <= TotalTimeout + 2 * (1 + Len(list)) + 2
    BY <1>6, <1>8, <1>10, <2>1, Zenon
  <2> QED BY <1>9, <2>2
<1>12. StepsLeft' \in Nat
  BY <1>1, StepsLeftStaysNat DEF HandlerInv
<1> QED BY <1>11, <1>12 DEF ForCalls, list

LEMMA RequestGetsFewer ==
    ASSUME HandlerInv, Punctual, HandlerInv', Punctual', HandlerNext
    PROVE  RequestStepsLeft' < RequestStepsLeft
<1>1. /\ RequestStepsLeft \in Nat /\ StepsLeft \in Nat /\ ForCalls \in Nat
      /\ phase \in {"off", "header", "body"} => Reading \in Nat
  BY RequestStepsNat
<1>2. UNCHANGED process => UNCHANGED ForCalls /\ UNCHANGED MaxUploadSize
  BY EnvironmentStays DEF ForCalls, EngineOfForm, ModelsForEngine, MaxUploadSize
<1>3. /\ ReadTimeout \in Nat /\ MaxUploadSize \in Nat /\ now \in Nat /\ received \in Nat
  BY Limits
<1>4. CASE Boot \/ ReadHeader
  <2>1. /\ UNCHANGED <<now, received>> /\ UNCHANGED process
        /\ \/ phase = "off" /\ phase' = "header"
           \/ phase = "header" /\ phase' = "body"
    BY <1>4 DEF Boot, ReadHeader
  <2>2. Reading' = Reading /\ ForCalls' = ForCalls
    BY <1>2, <2>1 DEF Reading
  <2>3. CASE phase = "off"
    <3>1. /\ RequestStepsLeft = Reading + ForCalls + 4
          /\ RequestStepsLeft' = Reading + ForCalls + 3
      BY <2>1, <2>2, <2>3 DEF RequestStepsLeft
    <3> QED BY <1>1, <2>3, <3>1
  <2>4. CASE phase = "header"
    <3>1. /\ RequestStepsLeft = Reading + ForCalls + 3
          /\ RequestStepsLeft' = Reading + ForCalls + 2
      BY <2>1, <2>2, <2>4 DEF RequestStepsLeft
    <3> QED BY <1>1, <2>4, <3>1
  <2> QED BY <2>1, <2>3, <2>4
<1>5. CASE Wait \/ Receive
  <2>1. /\ phase \in {"header", "body"} /\ phase' = phase /\ UNCHANGED process
        /\ \/ now' = now + 1 /\ received' = received
           \/ now' = now /\ received' = received + 1
    BY <1>5 DEF Wait, Receive
  <2>2. Reading' = Reading - 1 /\ ForCalls' = ForCalls
    BY <1>2, <1>3, <2>1 DEF Reading
  <2> QED BY <1>1, <2>1, <2>2 DEF RequestStepsLeft
<1>6. CASE BootFails \/ HeaderLate \/ Turned \/ LogAndAnswer
  <2>1. phase \in {"off", "header", "body", "transcribing"} /\ phase' \in {"fatal", "closed", "done"}
    BY <1>6 DEF BootFails, HeaderLate, Turned, BodyTooLarge, BodyLate, NoFile, FileTooLarge,
                Reject, LogAndAnswer, Answer
  <2>2. RequestStepsLeft' = 0
    BY <2>1 DEF RequestStepsLeft
  <2>3. RequestStepsLeft > 0
    BY <1>1, <2>1 DEF RequestStepsLeft
  <2> QED BY <1>1, <2>2, <2>3
<1>7. CASE Accept
  <2>1. phase = "body" /\ phase' = "transcribing"
    BY <1>7 DEF Accept
  <2>2. StepsLeft' <= ForCalls /\ StepsLeft' \in Nat
    BY <1>7, EnoughForCalls
  <2>3. RequestStepsLeft = Reading + ForCalls + 2 /\ RequestStepsLeft' = StepsLeft' + 1
    BY <2>1 DEF RequestStepsLeft
  <2> QED BY <1>1, <2>1, <2>2, <2>3
<1>8. CASE Transcribe
  <2>1. phase = "transcribing" /\ phase' = phase /\ Next
    BY <1>8 DEF Transcribe
  <2>2. StepsLeft' < StepsLeft /\ StepsLeft' \in Nat
    <3>1. CallInv /\ CallInv'
      BY DEF HandlerInv
    <3> QED BY <2>1, <3>1, StepsGetFewer, StepsLeftStaysNat
  <2>3. RequestStepsLeft = StepsLeft + 1 /\ RequestStepsLeft' = StepsLeft' + 1
    BY <2>1 DEF RequestStepsLeft
  <2>4. \A m, n \in Nat : m < n => m + 1 < n + 1
    OBVIOUS
  <2>5. StepsLeft' + 1 < StepsLeft + 1
    BY <1>1, <2>2, <2>4, Zenon
  <2> QED BY <2>3, <2>5, Zenon
<1> QED BY <1>4, <1>5, <1>6, <1>7, <1>8 DEF HandlerNext, Turned

(* A request cannot go on for ever: each step of client, clock, models and *)
(* code leaves fewer to come, whatever is set, sent and answered.          *)
THEOREM RequestStepsRunOut ==
    HandlerSpec => /\ [](RequestStepsLeft \in Nat)
                   /\ [][RequestStepsLeft' < RequestStepsLeft]_handlerVars
<1>1. HandlerInv /\ Punctual => RequestStepsLeft \in Nat
  BY RequestStepsNat
<1>2. HandlerInv /\ Punctual /\ [HandlerNext]_handlerVars => Punctual'
  BY PunctualStep
<1>3. HandlerInv /\ HandlerInv' /\ Punctual /\ Punctual' /\ [HandlerNext]_handlerVars
        => [RequestStepsLeft' < RequestStepsLeft]_handlerVars
  BY RequestGetsFewer
<1> QED BY <1>1, <1>2, <1>3, PunctualInit, HandlerInvariant, PTL DEF HandlerSpec
=============================================================================
