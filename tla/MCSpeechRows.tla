---------------------------- MODULE MCSpeechRows ----------------------------
(* Model checking SpeechRows: the apps are interchangeable.                *)
EXTENDS SpeechRows, FiniteSets, TLC

CONSTANTS default,       \* the value of every default
          other,         \* and one that requests name
          MaxProfiles,   \* bounds: rows of vocabulary_profile, alone
          MaxBeside,     \* and beside rows of local_asr_config
          MaxConfigs     \* rows of local_asr_config

AppSymmetry == Permutations(Apps)

(* The tables meet only where an app is deleted: what is left of one table *)
(* there needs few rows in the other.                                      *)
FewRows ==
    /\ Cardinality(DOMAIN configs) <= MaxConfigs
    /\ Cardinality(DOMAIN profiles) <=
          IF configs = [p \in {} |-> {}] THEN MaxProfiles ELSE MaxBeside

SameDefaults == [f \in Fields |-> default]
=============================================================================
