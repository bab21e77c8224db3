----------------------------- MODULE MCVoiceTurn -----------------------------
(* Instances of VoiceTurn for TLC. *)
EXTENDS VoiceTurn, TLC

CONSTANTS bn, hi, en, d1, d2

Heard(script, provider, words) ==
    [script |-> script, provider |-> provider, words |-> words, latin |-> TRUE]
(* Bengali script, a Latin transcription taken for Hindi, an English       *)
(* sentence and an utterance nothing can be told of                        *)
Sounds == {Heard(bn, hi, 0), Heard(NoLanguage, hi, 1),
           Heard(NoLanguage, en, 0), Heard(NoLanguage, NoLanguage, 0)}

=============================================================================
