------------------------------ MODULE Prompts -------------------------------
(***************************************************************************)
(* internal/service/prompt.go and prompt_config.go: the system message is  *)
(* a template with placeholders, the user message a vocabulary, the input  *)
(* buffer and a task.  LoadPrompts may have put the texts of a file in the *)
(* place of the defaults.  Of a text the model keeps the placeholders in   *)
(* it, any or none in one of a file; what else a text says is left out.    *)
(***************************************************************************)

(* The templates, the general one and those of two modes, and what they    *)
(* may hold.                                                               *)
Templates == {"system", "append", "edit_only"}

Emotional == {"RULE5_TITLE", "EMOTION_SECTION", "EMOTION_EXAMPLES",
              "EDIT_ONLY_EMOTION_SECTION", "EDIT_ONLY_EMOTION_EXAMPLES"}

Placeholders == Emotional \cup {"MENTION_SECTION", "EDIT_SECTION"}

Defaults == [
    system    |-> {"RULE5_TITLE", "EMOTION_SECTION", "EMOTION_EXAMPLES",
                   "MENTION_SECTION", "EDIT_SECTION"},
    append    |-> {"RULE5_TITLE", "EMOTION_SECTION", "EMOTION_EXAMPLES", "MENTION_SECTION"},
    edit_only |-> {"EDIT_ONLY_EMOTION_SECTION", "EDIT_ONLY_EMOTION_EXAMPLES",
                   "MENTION_SECTION"}]

(* A file has a text for some templates, for none if it cannot be read or  *)
(* parsed.  A blank text counts as none; the others need no placeholder.   *)
IsFile(file) ==
    \E overridden \in SUBSET Templates : file \in [overridden -> SUBSET Placeholders]

Active(file) == [t \in Templates |-> IF t \in DOMAIN file THEN file[t] ELSE Defaults[t]]

(* The template of a mode is that of the mode if it has one, unless the    *)
(* file overrides the general one and not that of the mode.                *)
Template(file, mode) ==
    IF /\ mode \in {"append", "edit_only"}
       /\ "system" \in DOMAIN file => mode \in DOMAIN file
    THEN mode ELSE "system"

(* Mutant of Resolved: the section of the editor goes with the template.   *)
ResolvedAlways(placeholder, emotion, skipMention, mode) ==
    /\ placeholder \in Emotional => emotion
    /\ placeholder = "MENTION_SECTION" => ~skipMention

(* The placeholders whose section becomes part of the message.  Without    *)
(* emotions another title, left out here, takes the place of rule 5's.     *)
Resolved(placeholder, emotion, skipMention, mode) ==
    /\ placeholder \in Emotional => emotion
    /\ placeholder = "MENTION_SECTION" => ~skipMention
    /\ placeholder = "EDIT_SECTION" => mode \in {"edit", "edit_only"}

BuildSystemMessage(file, emotion, skipMention, mode) ==
    LET template == Template(file, mode) IN
    [template |-> template,
     sections |-> {p \in Active(file)[template] : Resolved(p, emotion, skipMention, mode)}]

(* Without a buffer every mode sets the task to transcribe, which has no   *)
(* variant for emotions but one for the vocabulary; the templates of the   *)
(* buffer are told apart by what the task does with it.                    *)
BuildUserMessage(mode, buffer, vocabulary, emotion) ==
    IF buffer
    THEN [task |-> mode, emotion |-> emotion,
          buffer |-> CASE mode # "append"                -> "edit_input_buffer"
                       [] mode = "append" /\ vocabulary -> "append_input_buffer"
                       [] OTHER                          -> "append_input_buffer_no_vocab"]
    ELSE [task |-> IF vocabulary THEN "transcribe_with_vocab" ELSE "transcribe",
          emotion |-> FALSE, buffer |-> "none"]
=============================================================================
