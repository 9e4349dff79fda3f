------------------------- MODULE TranscribeHandler --------------------------
(***************************************************************************)
(* internal/config/config.go and internal/api/transcribe.go around         *)
(* Transcription: the environment becomes a configuration that Validate    *)
(* lets pass or not, and one POST /v1/speech/transcribe comes in, piece by *)
(* piece, is checked, transcribed, logged and answered, under the timeouts *)
(* of the HTTP server.  Requests share nothing but the configuration, so   *)
(* one is enough.                                                          *)
(*                                                                         *)
(* A body is a sequence of pieces: the content of its parts, and what is   *)
(* between them, a boundary with the headers of the next part.  net/http   *)
(* and mime/multipart are external.  Authentication and the code between   *)
(* two waits take no time.  Numbers and names of the environment that meet *)
(* nothing here are the constants of Transcription.                        *)
(***************************************************************************)
EXTENDS Transcription

CONSTANTS Environments, Forms,        \* the instances to look at
          ReadTimeout, WriteTimeout,  \* of the HTTP server
          Sizes                       \* settings of the limits, of contents

(* What the variables of the environment say; a size of 0 stands for one   *)
(* that is not set or not a positive number, "other" for what the code     *)
(* takes for nothing.                                                      *)
AllEnvironments ==
    [engine : Engines \cup {"other"}, editMode : {"edit", "append", "other"},
     qwenTimeout : QwenTimeouts,
     dsn : BOOLEAN, liteLLMUrl : BOOLEAN, liteLLMKey : BOOLEAN,
     qwenUrl : BOOLEAN, qwenKey : BOOLEAN,
     maxFileSize : Sizes, maxUploadSize : Sizes,
     allowFeedback : {"unset", "true", "false", "invalid"}, asrLogDir : BOOLEAN]

(* What a client may send; valid says that channel_type is one of those    *)
(* the service knows and that the model is in one of its lists.            *)
AllForms ==
    [audio : Sizes, fields : Sizes, valid : BOOLEAN,
     mode : {"append", "edit_only", "default", "invalid"},
     engine : Engines \cup {"default", "invalid"},
     model : Models \cup {NoModel}, buffer : BOOLEAN,
     feedback : {"unset", "true", "false", "invalid"}]

ASSUME HandlerConstants ==
    /\ Environments \subseteq AllEnvironments /\ Forms \subseteq AllForms
    /\ ReadTimeout \in Nat \ {0} /\ WriteTimeout \in Nat \ {0}
    /\ Sizes \subseteq Nat

VARIABLES
    env, form,  \* the environment of the process, the request
    phase,      \* where process and request are
    now,        \* time since the server began to read the request
    received,   \* pieces of the body that have arrived
    until,      \* when the connection can no longer be written
    uploaded,   \* when the form was complete and in order
    entry,      \* what was handed to the logger
    reply       \* the answer, and whether it got through

process  == <<env, form>>
handlerVars == <<env, form, phase, now, received, until, uploaded, entry, reply, vars>>

-----------------------------------------------------------------------------
(* Sizes count pieces of half a megabyte.                                  *)
DefaultMaxUploadSize == 10
DefaultMaxFileSize   == 6

Positive(setting, default) == IF setting > 0 THEN setting ELSE default

LoadedEngine == IF env.engine \in Engines THEN env.engine ELSE "gemini"

(* Mutant of LoadedEditMode: GPT keeps what is set.                        *)
EditModeAsSet ==
    IF env.editMode \in {"edit", "append"} THEN env.editMode
    ELSE IF LoadedEngine = "gpt" THEN "append" ELSE "edit"

LoadedEditMode ==
    IF LoadedEngine = "gpt" \/ env.editMode = "append" THEN "append" ELSE "edit"

MaxFileSize   == Positive(env.maxFileSize, DefaultMaxFileSize)
MaxUploadSize == Positive(env.maxUploadSize, DefaultMaxUploadSize)

Loads == env.allowFeedback # "invalid"

(* Mutant of Validate: Qwen's own URL is enough.                           *)
ValidateUrls ==
    /\ env.dsn
    /\ MaxFileSize < MaxUploadSize
    /\ IF LoadedEngine = "qwen" THEN env.qwenUrl \/ (env.liteLLMUrl /\ env.liteLLMKey)
       ELSE env.liteLLMUrl /\ env.liteLLMKey

(* No list of models is ever empty: LoadFromEnv keeps the default then.    *)
Validate ==
    /\ env.dsn
    /\ MaxFileSize < MaxUploadSize
    /\ env.liteLLMUrl \/ (LoadedEngine = "qwen" /\ env.qwenUrl)
    /\ env.liteLLMKey \/ (LoadedEngine = "qwen" /\ env.qwenKey)

HasURL == env.liteLLMUrl \/ (Engine = "qwen" /\ env.qwenUrl)
HasKey == env.liteLLMKey \/ (Engine = "qwen" /\ env.qwenKey)

-----------------------------------------------------------------------------
Content(size) == [n \in 1..size |-> "content"]

(* The file, if there is one, the other fields, and the end.               *)
Body ==
    (IF form.audio > 0 THEN <<"between">> \o Content(form.audio) ELSE << >>)
    \o <<"between">> \o Content(form.fields) \o <<"between">>

Complete == received = Len(Body)

(* The handler looks for one text of the error, and mime/multipart hands   *)
(* it on bare only from the content of a part and from some of its         *)
(* headers; otherwise it says where it was.                                *)
TooLargeMessages ==
    IF Body[received + 1] = "content" THEN {"too_large"} ELSE {"too_large", "no_audio"}

(* Mutant of Acceptable: edit_only is not asked for a text.                *)
AcceptableAnyEdit ==
    /\ form.valid
    /\ form.mode # "invalid" /\ form.engine # "invalid" /\ form.feedback # "invalid"

Acceptable ==
    /\ form.valid
    /\ form.mode # "invalid" /\ form.engine # "invalid" /\ form.feedback # "invalid"
    /\ form.mode = "edit_only" => form.buffer

Options == [engine |-> form.engine, mode |-> form.mode,
            model |-> form.model, buffer |-> form.buffer]

ShouldLog ==
    IF form.feedback = "unset" THEN env.allowFeedback = "true" ELSE form.feedback = "true"

(* classifyTranscribeError: a connection can fail by a timeout, too.       *)
ErrorMessages(cause) ==
    IF cause = "timeout" THEN {"timeout"}
    ELSE IF cause = "unusable" THEN {"timeout", "unavailable", "failed"}
    ELSE {"failed"}

Messages ==
    IF answer.kind = "ok" THEN {"ok"}
    ELSE IF answer.kind = "not_supported" THEN {"not_supported"}
    ELSE ErrorMessages(answer.cause)

-----------------------------------------------------------------------------
NoConfig  == [engine |-> "gemini", editMode |-> "edit", qwenTimeout |-> env.qwenTimeout]
NoOptions == [engine |-> "default", mode |-> "default", model |-> NoModel, buffer |-> FALSE]
NotSent   == [msg |-> "none", through |-> FALSE]

HandlerInit ==
    /\ env \in Environments /\ form \in Forms
    /\ phase = "off"
    /\ now = 0 /\ received = 0 /\ until = 0 /\ uploaded = 0
    /\ entry = "none" /\ reply = NotSent
    /\ Init /\ config = NoConfig /\ req = NoOptions

BootFails ==
    /\ phase = "off"
    /\ ~(Loads /\ Validate)
    /\ phase' = "fatal"
    /\ UNCHANGED <<process, now, received, until, uploaded, entry, reply, vars>>

Boot ==
    /\ phase = "off"
    /\ Loads /\ Validate
    /\ phase' = "header"
    /\ config' = [engine |-> LoadedEngine, editMode |-> LoadedEditMode,
                  qwenTimeout |-> env.qwenTimeout]
    /\ UNCHANGED <<process, now, received, until, uploaded, entry, reply,
                   req, pc, queue, clock, deadline, tried, answer>>

(* The client takes its time.                                              *)
Wait ==
    /\ phase \in {"header", "body"}
    /\ now < ReadTimeout
    /\ now' = now + 1
    /\ UNCHANGED <<process, phase, received, until, uploaded, entry, reply, vars>>

ReadHeader ==
    /\ phase = "header"
    /\ now < ReadTimeout
    /\ phase' = "body"
    /\ until' = now + WriteTimeout
    /\ UNCHANGED <<process, now, received, uploaded, entry, reply, vars>>

HeaderLate ==
    /\ phase = "header"
    /\ now = ReadTimeout
    /\ phase' = "closed"
    /\ UNCHANGED <<process, now, received, until, uploaded, entry, reply, vars>>

Receive ==
    /\ phase = "body"
    /\ now < ReadTimeout
    /\ ~Complete /\ received < MaxUploadSize
    /\ received' = received + 1
    /\ UNCHANGED <<process, phase, now, until, uploaded, entry, reply, vars>>

(* At the very end of its time an answer may get through or not.           *)
Answer(msg) ==
    /\ \E through \in BOOLEAN :
          /\ through => now <= until
          /\ ~through => now >= until
          /\ reply' = [msg |-> msg, through |-> through]
    /\ phase' = "done"
    /\ UNCHANGED <<process, now, received, until, uploaded, vars>>

BodyTooLarge ==
    /\ phase = "body"
    /\ received = MaxUploadSize /\ ~Complete
    /\ \E msg \in TooLargeMessages : Answer(msg)
    /\ UNCHANGED entry

(* Mutant of BodyLate: the server has no ReadTimeout.                      *)
BodyNeverLate == FALSE /\ UNCHANGED handlerVars

BodyLate ==
    /\ phase = "body"
    /\ now = ReadTimeout /\ ~Complete
    /\ Answer("no_audio")
    /\ UNCHANGED entry

NoFile ==
    /\ phase = "body"
    /\ Complete
    /\ form.audio = 0
    /\ Answer("no_audio")
    /\ UNCHANGED entry

FileTooLarge ==
    /\ phase = "body"
    /\ Complete
    /\ form.audio > MaxFileSize
    /\ Answer("file_size")
    /\ UNCHANGED entry

Reject ==
    /\ phase = "body"
    /\ Complete
    /\ form.audio \in 1..MaxFileSize
    /\ ~Acceptable
    /\ Answer("invalid")
    /\ UNCHANGED entry

Accept ==
    /\ phase = "body"
    /\ Complete
    /\ form.audio \in 1..MaxFileSize
    /\ Acceptable
    /\ phase' = "transcribing"
    /\ req' = Options
    /\ uploaded' = now
    /\ UNCHANGED <<process, now, received, until, entry, reply,
                   config, pc, queue, clock, deadline, tried, answer>>

(* Transcribe runs; without a URL no call gets anywhere.                   *)
Transcribe ==
    /\ phase = "transcribing"
    /\ Next
    /\ pc = "calling" /\ ~HasURL => Failed("unusable")
    /\ now' = now + (clock' - clock)
    /\ UNCHANGED <<process, phase, received, until, uploaded, entry, reply>>

(* The entry goes to the logger before the answer to the client.           *)
LogAndAnswer ==
    /\ phase = "transcribing"
    /\ pc = "done"
    /\ entry' = IF env.asrLogDir /\ ShouldLog THEN answer.kind ELSE "none"
    /\ \E msg \in Messages : Answer(msg)

HandlerNext ==
    \/ BootFails \/ Boot
    \/ Wait \/ ReadHeader \/ HeaderLate \/ Receive
    \/ BodyTooLarge \/ BodyLate \/ NoFile \/ FileTooLarge \/ Reject \/ Accept
    \/ Transcribe \/ LogAndAnswer

(* Time passes and the code runs: while a call is out, its clock ticks.    *)
(* The client owes no further piece, the upstream service no answer.       *)
HandlerFairness ==
    /\ WF_handlerVars(Boot) /\ WF_handlerVars(Wait) /\ WF_handlerVars(HeaderLate)
    /\ WF_handlerVars(BodyTooLarge) /\ WF_handlerVars(BodyLate)
    /\ WF_handlerVars(NoFile \/ FileTooLarge \/ Reject \/ Accept)
    /\ WF_handlerVars(Transcribe) /\ WF_handlerVars(LogAndAnswer)

HandlerSpec == HandlerInit /\ [][HandlerNext]_handlerVars /\ HandlerFairness

-----------------------------------------------------------------------------
(* Every variable holds a value of its type; with those of Transcription   *)
(* this says that LoadFromEnv and the handler give Transcribe what it      *)
(* takes for granted: no edit mode for GPT, a text where one is edited.    *)
HandlerTypeOK ==
    /\ TypeOK
    /\ env \in Environments /\ form \in Forms
    /\ phase \in {"off", "fatal", "header", "body", "transcribing", "closed", "done"}
    /\ now \in Nat /\ received \in Nat /\ until \in Nat /\ uploaded \in Nat
    /\ entry \in {"none", "ok", "failed", "not_supported"}
    /\ reply \in [msg : {"none", "no_audio", "too_large", "file_size", "invalid", "ok",
                         "not_supported", "timeout", "unavailable", "failed"},
                  through : BOOLEAN]

(* What Validate lets pass can serve: every call goes to a URL with a key, *)
(* whichever engine and model the request names and however Qwen's own     *)
(* settings fall back to the others, except when a service whose default   *)
(* is Qwen is asked for another engine.                                    *)
ValidatedServes ==
    pc = "calling" =>
        (HasURL /\ HasKey) \/ (config.engine = "qwen" /\ Engine # "qwen")

(* An answer is lost only when the client took its time: if the form was   *)
(* complete so early that all calls fit before the end of WriteTimeout,    *)
(* the answer gets through, however many models hang or are called twice.  *)
(* WriteTimeout runs while the body is read, and the calls know nothing of *)
(* it.                                                                     *)
OnlyLateLoseAnswer ==
    (phase = "done" /\ pc = "done" /\ ~reply.through)
      => uploaded + TotalTimeout >= WriteTimeout

(* What a user says of the log overrules the service: an entry is made     *)
(* only if the request allows it, or says nothing and the service does;    *)
(* and no request that was turned down before its transcription leaves one.*)
ConsentRespected ==
    entry # "none" =>
        /\ pc = "done"
        /\ form.feedback \in {"unset", "true"}
        /\ form.feedback = "unset" => env.allowFeedback = "true"

(* Every request that reaches the service comes to an end, with an answer  *)
(* or a closed connection: a client that sends nothing more cannot hold it *)
(* (README.md:235, "slowloris protection"), nor can models that hang.      *)
EveryRequestEnds == (phase = "header") ~> (phase \in {"closed", "done"})
=============================================================================
