------------------------ MODULE MCTranscribeHandler -------------------------
(* Model checking TranscribeHandler: configurations of every kind, and     *)
(* forms that ask for every engine, are refused, or meet the limits.       *)
EXTENDS TranscribeHandler

CONSTANTS g1, g2, t1, q1

TwoChatModels == <<g1, g2>>
OneGPTModel   == <<t1>>
OneQwenModel  == <<q1>>

NoTexts == {}

-----------------------------------------------------------------------------
Standard ==
    [engine |-> "gemini", editMode |-> "edit", qwenTimeout |-> 0, dsn |-> TRUE,
     liteLLMUrl |-> TRUE, liteLLMKey |-> TRUE, qwenUrl |-> FALSE, qwenKey |-> FALSE,
     maxFileSize |-> 0, maxUploadSize |-> 0, allowFeedback |-> "unset", asrLogDir |-> TRUE]

(* Limits of their own and those of the code.                              *)
Limits == {[Standard EXCEPT !.maxFileSize = f, !.maxUploadSize = u] : f, u \in Sizes}

(* Every engine with every choice of URLs and keys.                        *)
Credentials ==
    {[Standard EXCEPT !.engine = e, !.liteLLMUrl = lu, !.liteLLMKey = lk, !.qwenUrl = qu,
                      !.qwenKey = qk, !.maxFileSize = 1, !.maxUploadSize = 4] :
        e \in Engines, lu, lk, qu, qk \in BOOLEAN}

(* The other mode, with both or neither of what an engine needs, and what  *)
(* else can keep a service from its start or from its log.                 *)
Services ==
    Limits \cup Credentials
    \cup {[c EXCEPT !.editMode = "append"] :
             c \in {d \in Credentials : d.liteLLMUrl = d.liteLLMKey /\ d.qwenUrl = d.qwenKey}}
    \cup {[Standard EXCEPT !.allowFeedback = a] : a \in {"true", "false", "invalid"}}
    \cup {[Standard EXCEPT !.allowFeedback = "true", !.asrLogDir = FALSE],
          [Standard EXCEPT !.engine = "other"], [Standard EXCEPT !.editMode = "other"],
          [Standard EXCEPT !.dsn = FALSE]}

-----------------------------------------------------------------------------
Plain ==
    [audio |-> 1, fields |-> 0, valid |-> TRUE, mode |-> "default", engine |-> "default",
     model |-> NoModel, buffer |-> FALSE, feedback |-> "unset"]

(* Files and fields around the limits; a model in front of the list.       *)
Uploads ==
    {[Plain EXCEPT !.audio = a, !.fields = f] : a, f \in Sizes}
    \cup {[Plain EXCEPT !.audio = a, !.model = g1] : a \in Sizes}

(* Every engine and mode, a model of another engine, and small forms, one  *)
(* for each way to be refused.                                             *)
Questions ==
    Uploads
    \cup {[Plain EXCEPT !.engine = e, !.mode = m, !.buffer = m = "edit_only"] :
             e \in Engines, m \in {"append", "edit_only", "default"}}
    \cup {[Plain EXCEPT !.mode = m, !.buffer = b] :
             m \in {"append", "edit_only", "default"}, b \in BOOLEAN}
    \cup {[Plain EXCEPT !.engine = e, !.model = t1] : e \in Engines}
    \cup {[Plain EXCEPT !.feedback = f] : f \in {"true", "false", "invalid"}}
    \cup {[Plain EXCEPT !.engine = "invalid"], [Plain EXCEPT !.mode = "invalid"],
          [Plain EXCEPT !.valid = FALSE]}
=============================================================================
