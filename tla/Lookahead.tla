----------------------------- MODULE Lookahead -----------------------------
(***************************************************************************)
(* Lookahead decoding (_lookahead_generate_inprocess of                    *)
(* l1/miner/backends/jacobi_backend.py): one forward pass evaluates a      *)
(* window of guessed tokens, of which the prefix the model itself would    *)
(* have chosen is kept.  Guesses come from a pool of continuations that    *)
(* earlier passes predicted.  One action is one pass of the while loop.    *)
(***************************************************************************)
EXTENDS Integers, Sequences, SequencesExt

CONSTANTS Vocab, Stop, Depth, Models, MaxTokens,
          W,            \* lookahead window width
          PoolDepth     \* continuations kept of one token (8)

ASSUME WindowAssumption ==
    W \in Nat \ {0} /\ PoolDepth \in Nat \ {0} /\ MaxTokens \in Nat \ {0}

VARIABLES
    lm,         \* the model, which greedily continues the prompt
    output,     \* output_tokens; n_past is the prompt and them
    starter,    \* the model's choice after output
    pool,       \* [Vocab -> continuations, the one added last first]
    done

vars == <<lm, output, starter, pool, done>>

Greedy == INSTANCE Decoding WITH text <- output, ended <- done
-----------------------------------------------------------------------------
Init ==
    /\ lm \in Models
    /\ output = <<>>
    /\ starter = Greedy!Predict(<<>>)
    /\ pool = [t \in Vocab |-> <<>>]
    /\ done = FALSE

Width(s) == IF W <= MaxTokens - Len(s) THEN W ELSE MaxTokens - Len(s)

\* The first continuation of a token in the pool, or the token again.
Guess(t) == IF pool[t] # <<>> THEN Head(pool[t]) ELSE t

IsWindow(w) == w[1] = starter /\ \A j \in 2 .. Len(w) : w[j] = Guess(w[j - 1])

\* What the forward pass predicts to follow the k-th token of the window.
After(w, k) == Greedy!Predict(output \o SubSeq(w, 1, k))

\* Mutant of Agrees: a guess is compared with what follows it.
Agrees_OffByOne(w, j) == After(w, j) = w[j]

Agrees(w, j) == After(w, j - 1) = w[j]

\* The first c tokens of the window converged, and no more.
Converged(w, c) ==
    /\ \A j \in 2 .. c : Agrees(w, j)
    /\ c < Len(w) => ~ Agrees(w, c + 1)

\* m of them are appended: all, or those before an end-of-text token.
Accepted(w, c, m) ==
    /\ \A k \in 1 .. m : w[k] \notin Stop
    /\ m < c => w[m + 1] \in Stop

Observe(p, obs) ==
    IF obs[2] \in {p[obs[1]][i] : i \in DOMAIN p[obs[1]]} THEN p
    ELSE [p EXCEPT ![obs[1]] = SubSeq(<<obs[2]>> \o @, 1,
                                      IF Len(@) < PoolDepth THEN Len(@) + 1 ELSE PoolDepth)]

\* Every token of the window with its prediction, also behind the converged.
Observed(w) == FoldLeft(Observe, pool, [k \in 1 .. Len(w) |-> <<w[k], After(w, k)>>])

NextStarter(w, c) == After(w, c)

Finished(c, m) == m < c \/ Len(output) + m >= MaxTokens

\* The starter is always accepted.
Sizes(w) == 1 .. Len(w)

Pass ==
    /\ ~ done /\ Len(output) < MaxTokens
    /\ \E w \in [1 .. Width(output) -> Vocab] : \E c \in Sizes(w) : \E m \in 0 .. c :
          /\ IsWindow(w) /\ Converged(w, c) /\ Accepted(w, c, m)
          /\ output' = output \o SubSeq(w, 1, m)
          /\ done' = Finished(c, m)
          /\ pool' = Observed(w)
          /\ starter' = IF Finished(c, m) THEN starter ELSE NextStarter(w, c)
    /\ UNCHANGED lm

Next == Pass

Spec == Init /\ [][Next]_vars
-----------------------------------------------------------------------------
(* Every variable has its type; the text and the pool keep their limits.   *)
TypeOK ==
    /\ lm \in Models
    /\ output \in Seq(Vocab) /\ Len(output) <= MaxTokens
    /\ starter \in Vocab
    /\ \A t \in Vocab : pool[t] \in Seq(Vocab) /\ Len(pool[t]) <= PoolDepth
    /\ done \in BOOLEAN

(* However good or stale the guesses are, the text is the one the model    *)
(* would have produced token by token: lookahead changes the speed only.   *)
EqualsGreedy == \A i \in 1 .. Len(output) : Greedy!IsNext(output, i)

(* Between passes the starter is the model's choice after the text.        *)
StarterIsNext == done \/ starter = Greedy!Predict(output)

(* Lookahead decoding implements generate(): every pass appends a run of   *)
(* greedy tokens, and it ends where the greedy text ends.                  *)
ImplementsGenerate == Greedy!Spec
=============================================================================
