----------------------------- MODULE TextMerge ------------------------------
(***************************************************************************)
(* The end of Transcribe in internal/service/transcribe.go on the          *)
(* characters of its texts: what was typed and what the model answered     *)
(* make the text for the client.  A character stands for those the code    *)
(* treats alike, and the sentinel [NO_SPEECH] is one.                      *)
(***************************************************************************)
EXTENDS Integers, SequencesExt

Letters == {"a", "b"}
White   == {" ", "\n"}      \* " " stands for the tab, too, "\n" for "\r"
Chars   == Letters \cup White \cup {"cjk", ".", "NO_SPEECH"}

KeepTo(text, set)   == {n \in DOMAIN text : text[n] \notin set}
TrimRight(text, set) == SubSeq(text, 1, Max(KeepTo(text, set) \cup {0}))
TrimLeft(text, set)  == SubSeq(text, Min(KeepTo(text, set) \cup {Len(text) + 1}), Len(text))

IsNoSpeechText(text) == text = <<>> \/ "NO_SPEECH" \in ToSet(text)

(* A space goes between two words, but not after white space, after        *)
(* punctuation or beside a CJK character.                                  *)
JoinContextAndText(typed, said) ==
    IF \/ typed = <<>> \/ said = <<>>
       \/ Last(typed) \in White \cup {"."}
       \/ "cjk" \in {Last(typed), Head(said)}
    THEN typed \o said
    ELSE typed \o <<" ">> \o said

(* Mutant of RestoreTrailingWhitespace: the white space is cut off the     *)
(* answer by its length.                                                   *)
RestoreByLength(typed, said) ==
    LET trimmed == TrimRight(typed, White) IN
    IF trimmed = <<>> \/ trimmed = typed THEN said
    ELSE IF IsPrefix(trimmed, said)
    THEN typed \o SubSeq(said, Len(typed) + 1, Len(said))
    ELSE TrimRight(said, White) \o SubSeq(typed, Len(trimmed) + 1, Len(typed))

RestoreTrailingWhitespace(typed, said) ==
    LET trimmed == TrimRight(typed, White) IN
    IF trimmed = <<>> \/ trimmed = typed THEN said
    ELSE IF IsPrefix(trimmed, said)
    THEN typed \o TrimLeft(SubSeq(said, Len(trimmed) + 1, Len(said)), {" "})
    ELSE TrimRight(said, White) \o SubSeq(typed, Len(trimmed) + 1, Len(typed))

(* result.Text                                                             *)
ResultText(mode, typed, said) ==
    IF mode = "append"
    THEN IF IsNoSpeechText(said) THEN typed ELSE JoinContextAndText(typed, said)
    ELSE IF said = <<"NO_SPEECH">> THEN typed
    ELSE IF typed # <<>> THEN RestoreTrailingWhitespace(typed, said)
    ELSE said
=============================================================================
