---------------------------- MODULE MCLookahead ----------------------------
(* Every model of two words that sees the last two of them; what it would  *)
(* say after the end of a text is fixed.                                   *)
EXTENDS Lookahead

Words    == {"a", "b"}
Endings  == {"eos"}
WordContexts == UNION {[1 .. n -> Words] : n \in 0 .. Depth}

\* Greedy!Contexts (TLC's coverage report cannot follow it from a .cfg).
SeenContexts == UNION {[1 .. n -> Vocab] : n \in 0 .. Depth}

AllModels ==
    {[c \in SeenContexts |-> IF c \in WordContexts THEN f[c] ELSE "a"] :
        f \in [WordContexts -> Words \cup Endings]}
=============================================================================
