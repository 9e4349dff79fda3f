-------------------------- MODULE MCTranscription ---------------------------
(* Model checking Transcription: lists of several lengths, texts of a few  *)
(* characters, typed or, without white space around them, said, and files  *)
(* of prompts.                                                             *)
EXTENDS Transcription

CONSTANTS g1, g2, t1, q1, q2

TwoChatModels == <<g1, g2>>
OneGPTModel == <<t1>>
TwoQwenModels == <<q1, q2>>

Typed == BoundedSeq(Chars \ {"NO_SPEECH"}, 2)
Said  == {text \in BoundedSeq(Chars \ {"\n", "."}, 3) :
             TrimLeft(TrimRight(text, White), White) = text}

(* Files for any of the templates, each text with no placeholder, with the *)
(* one for the editor, with one about emotions, or with all there are.     *)
SomeFiles ==
    UNION {[overridden -> {{}, {"EDIT_SECTION"}, {"RULE5_TITLE"}, Placeholders}] :
              overridden \in SUBSET Templates}
=============================================================================
