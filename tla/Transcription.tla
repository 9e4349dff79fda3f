--------------------------- MODULE Transcription ----------------------------
(***************************************************************************)
(* internal/service/transcribe.go: one transcription.  Transcribe resolves *)
(* engine, mode and the list of models from the configuration and the      *)
(* options of the request, calls the models one after the other until one  *)
(* answers, and makes the text for the client.  Each call has a time of    *)
(* its own and all of them together another.  Requests share nothing, so   *)
(* one is enough.                                                          *)
(*                                                                         *)
(* The upstream service is external: it may answer a call at any time, in  *)
(* any way the code tells apart, or never.  Texts are abstracted to what   *)
(* the code asks of them; TextMerge has their characters.  Building a      *)
(* request takes no time, and a context ends when it is due.               *)
(***************************************************************************)
EXTENDS Integers, Sequences, TextMerge, Prompts

CONSTANTS ChatModels, GPTModels, QwenModels,   \* the lists of the configuration
          Timeout, TotalTimeout,               \* of one call, of all of them
          QwenTimeouts,                        \* settings of QwenTimeout, 0: none
          NoModel,                             \* the request names no model
          TypedTexts, SaidTexts,               \* texts for TextSurvives
          PromptFiles                          \* files of prompts for PromptsAgree

Elements(list) == {list[n] : n \in DOMAIN list}
Models == Elements(ChatModels) \cup Elements(GPTModels) \cup Elements(QwenModels)

(* LoadFromEnv ignores a timeout that is not positive.                     *)
ASSUME TranscriptionConstants ==
    /\ Timeout \in Nat \ {0} /\ TotalTimeout \in Nat \ {0} /\ QwenTimeouts \subseteq Nat
    /\ \A list \in {ChatModels, GPTModels, QwenModels} : list \in Seq(Models)
    /\ NoModel \notin Models
    /\ TypedTexts \subseteq Seq(Chars) /\ SaidTexts \subseteq Seq(Chars)
    /\ \A file \in PromptFiles : IsFile(file)

VARIABLES
    config,    \* the settings of s.cfg that Transcribe reads
    req,       \* the options, and whether there is text in the input buffer
    pc,        \* where Transcribe is
    queue,     \* the models still to be called
    clock,     \* time since the context of all calls was made
    deadline,  \* when the context of the present call ends
    tried,     \* the models called and how each call ended, the last one lastErr
    answer     \* what Transcribe returned, or Pending

request == <<config, req>>
vars    == <<config, req, pc, queue, clock, deadline, tried, answer>>

-----------------------------------------------------------------------------
Engines == {"gemini", "gpt", "qwen"}
Modes   == {"append", "edit", "edit_only"}

(* LoadFromEnv leaves no edit mode to GPT.                                 *)
Configs ==
    {c \in [engine : Engines, editMode : {"edit", "append"}, qwenTimeout : QwenTimeouts] :
        c.engine = "gpt" => c.editMode = "append"}

(* The handler lets edit_only pass only with a text to edit.               *)
Requests ==
    {r \in [engine : Engines \cup {"default"}, mode : {"append", "edit_only", "default"},
            model : Models \cup {NoModel}, buffer : BOOLEAN] :
        r.mode = "edit_only" => r.buffer}

Engine == IF req.engine = "default" THEN config.engine ELSE req.engine

(* Mutant of Fallback: it looks at the engine of the configuration.        *)
FallbackOfConfig(mode) ==
    IF config.engine = "gpt" /\ mode = "edit" THEN "append" ELSE mode

(* GPT takes no text to edit: its smart mode appends.                      *)
Fallback(mode) == IF Engine = "gpt" /\ mode = "edit" THEN "append" ELSE mode

Mode == Fallback(IF req.mode = "default" THEN config.editMode ELSE req.mode)

ModelsForEngine(engine) ==
    CASE engine = "gpt"  -> GPTModels
      [] engine = "qwen" -> QwenModels
      [] OTHER           -> ChatModels

(* The model the request names goes first, whatever engine it belongs to.  *)
Wanted ==
    IF req.model = NoModel THEN ModelsForEngine(Engine)
    ELSE <<req.model>> \o ModelsForEngine(Engine)

EffectiveTimeout ==
    IF Engine = "qwen" /\ config.qwenTimeout > 0 THEN config.qwenTimeout ELSE Timeout

(* Mutant of Earlier: the context of a call is not derived from the other. *)
OwnDeadline(s, t) == s

Earlier(s, t) == IF s <= t THEN s ELSE t

-----------------------------------------------------------------------------
(* What the upstream service may answer: a text, which may be empty, the   *)
(* sentinel [NO_SPEECH], or a text around it; a status; or nothing of use: *)
(* another status, a body that cannot be read or parsed, no connection.    *)
Texts    == {"speech", "empty", "sentinel", "around"}
Failures == {"status_4xx", "status_429", "unusable"}

(* Mutants of NonRetryable: no status is final; 429 is final too.          *)
NothingFinal(failure) == FALSE
Any4xxFinal(failure) == failure \in {"status_4xx", "status_429"}

NonRetryable(failure) == failure = "status_4xx"

IsNoSpeech(text) == text \in {"empty", "sentinel", "around"}

(* What a text of TextMerge is here; the service has trimmed it.           *)
KindOf(said) ==
    IF said = <<>> THEN "empty"
    ELSE IF said = <<"NO_SPEECH">> THEN "sentinel"
    ELSE IF "NO_SPEECH" \in ToSet(said) THEN "around"
    ELSE "speech"

(* Append mode asks whether there was speech; the others compare with the  *)
(* sentinel.                                                               *)
Heard(text) == IF Mode = "append" THEN ~IsNoSpeech(text) ELSE text # "sentinel"

(* What the client gets: the text of the buffer or not, and what was said. *)
Merge(text) ==
    IF Heard(text) THEN [buffer |-> req.buffer /\ Mode = "append", said |-> text]
    ELSE [buffer |-> req.buffer, said |-> "nothing"]

(* The task of the user message: the vocabulary and the emotions choose    *)
(* its wording only.                                                       *)
Task == BuildUserMessage(Mode, req.buffer, FALSE, FALSE).task

(* Mutant of SystemMode: the empty buffer is not looked at.                *)
SystemModeAsIs(mode) == mode

SystemMode(mode) ==
    IF mode \in {"edit", "edit_only"} /\ ~req.buffer THEN "default" ELSE mode

-----------------------------------------------------------------------------
Pending == [kind |-> "pending"]

Init ==
    /\ config \in Configs /\ req \in Requests
    /\ pc = "start"
    /\ queue = <<>> /\ tried = <<>>
    /\ clock = 0 /\ deadline = 0
    /\ answer = Pending

Return(value) == pc' = "done" /\ answer' = value

EditRefused ==
    /\ pc = "start"
    /\ Engine = "gpt" /\ Mode = "edit_only"
    /\ Return([kind |-> "not_supported"])
    /\ UNCHANGED <<request, queue, clock, deadline, tried>>

Start ==
    /\ pc = "start"
    /\ ~(Engine = "gpt" /\ Mode = "edit_only")
    /\ pc' = "next"
    /\ queue' = Wanted
    /\ UNCHANGED <<request, clock, deadline, tried, answer>>

(* The head of the loop: the context of all calls is asked first.          *)
CallModel ==
    /\ pc = "next"
    /\ queue # <<>> /\ clock < TotalTimeout
    /\ pc' = "calling"
    /\ deadline' = Earlier(clock + EffectiveTimeout, TotalTimeout)
    /\ UNCHANGED <<request, queue, clock, tried, answer>>

(* Mutant of GiveUp: only the end of the list ends the loop.               *)
GiveUpAtEnd ==
    /\ pc = "next"
    /\ queue = <<>>
    /\ Return([kind  |-> "failed",
               cause |-> IF tried = <<>> THEN "no_models" ELSE tried[Len(tried)].outcome])
    /\ UNCHANGED <<request, queue, clock, deadline, tried>>

GiveUp ==
    /\ pc = "next"
    /\ queue = <<>> \/ clock >= TotalTimeout
    /\ Return([kind  |-> "failed",
               cause |-> IF tried = <<>> THEN "no_models" ELSE tried[Len(tried)].outcome])
    /\ UNCHANGED <<request, queue, clock, deadline, tried>>

Ended(outcome) ==
    /\ pc = "calling"
    /\ tried' = Append(tried, [model |-> Head(queue), outcome |-> outcome])
    /\ queue' = Tail(queue)
    /\ UNCHANGED <<request, clock, deadline>>

Answered(text) ==
    /\ Ended("ok")
    /\ Return([kind |-> "ok", model |-> Head(queue), raw |-> text, text |-> Merge(text)])

Refused(failure) ==
    /\ NonRetryable(failure)
    /\ Ended(failure)
    /\ Return([kind |-> "failed", cause |-> failure])

Failed(failure) ==
    /\ ~NonRetryable(failure)
    /\ Ended(failure)
    /\ pc' = "next"
    /\ UNCHANGED answer

TimedOut ==
    /\ clock = deadline
    /\ Failed("timeout")

Tick ==
    /\ pc = "calling"
    /\ clock < deadline
    /\ clock' = clock + 1
    /\ UNCHANGED <<request, pc, queue, deadline, tried, answer>>

Next ==
    \/ EditRefused \/ Start \/ CallModel \/ GiveUp \/ TimedOut \/ Tick
    \/ \E text \in Texts : Answered(text)
    \/ \E failure \in Failures : Refused(failure) \/ Failed(failure)

(* The code runs and its timers fire; the upstream service owes nothing.   *)
Fairness ==
    /\ WF_vars(EditRefused) /\ WF_vars(Start) /\ WF_vars(CallModel) /\ WF_vars(GiveUp)
    /\ WF_vars(TimedOut) /\ WF_vars(Tick)

Spec == Init /\ [][Next]_vars /\ Fairness

-----------------------------------------------------------------------------
Outcomes == Failures \cup {"timeout", "ok"}

Answers ==
    [kind : {"pending", "not_supported"}]
    \cup [kind : {"failed"}, cause : (Outcomes \ {"ok"}) \cup {"no_models"}]
    \cup [kind : {"ok"}, model : Models, raw : Texts,
          text : [buffer : BOOLEAN, said : Texts \cup {"nothing"}]]

(* Every variable holds a value of its type.                               *)
TypeOK ==
    /\ config \in Configs /\ req \in Requests
    /\ pc \in {"start", "next", "calling", "done"}
    /\ queue \in Seq(Models)
    /\ clock \in 0..TotalTimeout /\ deadline \in 0..TotalTimeout
    /\ tried \in Seq([model : Models, outcome : Outcomes])
    /\ answer \in Answers

(* The models are called in the order of the list the request stands for,  *)
(* each one only after a failure worth another try of the one before; a    *)
(* text comes from the last one called.                                    *)
FailsOverInOrder ==
    /\ pc # "start" /\ answer.kind # "not_supported" =>
          [n \in DOMAIN tried |-> tried[n].model] \o queue = Wanted
    /\ \A n \in 1..(Len(tried) - 1) : tried[n].outcome \notin {"ok", "status_4xx"}
    /\ answer.kind = "ok" =>
          tried[Len(tried)] = [model |-> answer.model, outcome |-> "ok"]

(* A model is passed over only when a refusal made another try pointless,  *)
(* or when so many were called that their own timeouts add up to the time  *)
(* for all: one model that hangs never costs the next ones their turn.     *)
TurnsGuaranteed ==
    (/\ answer.kind = "failed"
     /\ queue # <<>>
     /\ tried[Len(tried)].outcome # "status_4xx")
      => Len(tried) * EffectiveTimeout >= TotalTimeout

(* The text in the user's input buffer is replaced only by an engine that  *)
(* was given it, with the task to edit it: whatever the default engine and *)
(* mode, a transcription on its own never takes its place.                 *)
OnlyEditorsRewrite ==
    (answer.kind = "ok" /\ req.buffer /\ ~answer.text.buffer)
      => Engine # "gpt" /\ Task \in {"edit", "edit_only"}

(* The two messages a chat model is to get agree, whatever texts a file of *)
(* prompts puts in the place of the templates and whatever the options say *)
(* of emotions and mentions.  The system message makes an editor of the model only when    *)
(* the task is to edit, the comment in Transcribe about the first          *)
(* utterance; when it is, the message fails to only by a text of the file  *)
(* that does without the editor's section.  An editor is given the buffer  *)
(* as a text to edit.  Emotions are annotated only when they are on, and   *)
(* when the task speaks of them only a text of the file can be silent.     *)
PromptsAgree ==
    (pc = "start" /\ Engine # "gpt") =>
        \A file \in PromptFiles, emotion, skipMention, vocabulary \in BOOLEAN :
            LET system == BuildSystemMessage(file, emotion, skipMention, SystemMode(Mode))
                user   == BuildUserMessage(Mode, req.buffer, vocabulary, emotion)
                edits  == user.task \in {"edit", "edit_only"}
                editor == "EDIT_SECTION" \in system.sections
                lacks(sections) == /\ system.template \in DOMAIN file
                                   /\ file[system.template] \cap sections = {}
            IN
            /\ editor \/ system.template = "edit_only" => edits
            /\ edits => \/ editor \/ lacks({"EDIT_SECTION"})
                        \/ system.template = "edit_only" /\ "edit_only" \notin DOMAIN file
            /\ edits <=> user.buffer = "edit_input_buffer"
            /\ system.sections \cap Emotional # {} => emotion
            /\ user.emotion => system.sections \cap Emotional # {} \/ lacks(Emotional)

(* Two texts are the same up to white space, at one place.                 *)
OnlyWhite(text) == ToSet(text) \subseteq White

DifferInWhite(s, t) ==
    \E n \in 0..Len(s) : \E m \in n..Len(s), k \in n..Len(t) :
        /\ SubSeq(s, 1, n) = SubSeq(t, 1, n)
        /\ OnlyWhite(SubSeq(s, n + 1, m)) /\ OnlyWhite(SubSeq(t, n + 1, k))
        /\ SubSeq(s, m + 1, Len(s)) = SubSeq(t, k + 1, Len(t))

(* No text of the user gets lost, whatever characters meet where the typed *)
(* text, as far as the handler hands it on, and the answer are joined: the *)
(* answer to an append is the one, at most a space, and the other, with no *)
(* two words run together; an edit keeps the model's text up to the white  *)
(* space at one place, and the white space the user had typed last.        *)
TextSurvives ==
    pc = "start" => \A typed \in TypedTexts, said \in SaidTexts :
        LET out    == ResultText(Mode, typed, said)
            merged == Merge(KindOf(said))
            last   == SubSeq(typed, Len(TrimRight(typed, White)) + 1, Len(typed))
        IN (typed # <<>>) = req.buffer =>
            /\ merged.said = "nothing" => out = typed
            /\ merged.buffer /\ merged.said # "nothing" =>
                  /\ out \in {typed \o said, typed \o <<" ">> \o said}
                  /\ (Last(typed) \in Letters /\ Head(said) \in Letters) => out # typed \o said
            /\ ~merged.buffer /\ merged.said # "nothing" =>
                  /\ DifferInWhite(said, out)
                  /\ last # typed => IsPrefix(typed, out) \/ IsSuffix(last, out)

(* Every transcription ends, whatever the upstream service does.           *)
AlwaysAnswers == (pc = "start") ~> (pc = "done")
=============================================================================
