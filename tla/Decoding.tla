------------------------------ MODULE Decoding ------------------------------
(***************************************************************************)
(* What a backend's generate() promises (l1/miner/backends/base.py): the   *)
(* text a language model continues its prompt with when every token is the *)
(* model's most probable one, up to an end-of-text token or max_tokens.    *)
(* How many tokens a step appends is the backend's affair.                 *)
(*                                                                         *)
(* A model is a function of the last Depth tokens after the prompt.        *)
(***************************************************************************)
EXTENDS Integers, Sequences

CONSTANTS
    Vocab,
    Stop,       \* eos and bos
    Depth,
    Models,     \* functions from Contexts to Vocab
    MaxTokens

Contexts == UNION {[1 .. n -> Vocab] : n \in 0 .. Depth}

VARIABLES lm, text, ended

vars == <<lm, text, ended>>

LastTokens(s) == IF Len(s) <= Depth THEN s ELSE SubSeq(s, Len(s) - Depth + 1, Len(s))

\* The greedy choice after the text s.
Predict(s) == lm[LastTokens(s)]

Init == lm \in Models /\ text = <<>> /\ ended = FALSE

IsNext(s, i) == s[i] = Predict(SubSeq(s, 1, i - 1)) /\ s[i] \notin Stop

Extends(s, t) == Len(t) >= Len(s) /\ SubSeq(t, 1, Len(s)) = s

Emit ==
    /\ ~ ended
    /\ UNCHANGED lm
    /\ Extends(text, text')
    /\ \A i \in Len(text) + 1 .. Len(text') : IsNext(text', i)
    /\ Len(text') <= MaxTokens
    /\ ended' \in BOOLEAN
    /\ ended' => Len(text') = MaxTokens \/ Predict(text') \in Stop
    /\ ~ ended' => text' # text /\ Len(text') < MaxTokens

Spec == Init /\ [][Emit]_vars
=============================================================================
