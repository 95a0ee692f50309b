----------------------------- MODULE TextProofs -----------------------------
(***************************************************************************)
(* What becomes of texts.  Lookahead decoding yields the greedy text, for  *)
(* every vocabulary, model, window, pool and limit: the pool plays no part *)
(* in the argument, the guesses may be anything.  What miners are told     *)
(* covers the prompt, and what a client or the next job of a chain reads   *)
(* is made of their answers, for every chain, mode and number of shards.   *)
(***************************************************************************)
EXTENDS Lookahead, JobTexts, TotalsTheorems, SequenceTheorems, TLAPS

Window(w, c, m) ==
    /\ w \in [1 .. Width(output) -> Vocab]
    /\ c \in Sizes(w) /\ m \in 0 .. c
    /\ IsWindow(w) /\ Converged(w, c) /\ Accepted(w, c, m)
    /\ output' = output \o SubSeq(w, 1, m)
    /\ done' = Finished(c, m)
    /\ starter' = IF Finished(c, m) THEN starter ELSE NextStarter(w, c)
    /\ UNCHANGED lm

IInv ==
    /\ output \in Seq(Vocab) /\ Len(output) <= MaxTokens
    /\ done \in BOOLEAN
    /\ ~ done => Len(output) < MaxTokens
    /\ EqualsGreedy
    /\ StarterIsNext
-----------------------------------------------------------------------------
(* A function on 1 .. n is a sequence of length n.                         *)
LEMMA FunctionIsSeq ==
    ASSUME NEW S, NEW n \in Nat, NEW w \in [1 .. n -> S]
    PROVE  w \in Seq(S) /\ Len(w) = n /\ \A i \in 1 .. n : w[i] \in S
  OBVIOUS

(* Appending the first m elements of a window: length and elements.        *)
LEMMA AppendPrefix ==
    ASSUME NEW S, NEW s \in Seq(S), NEW w \in Seq(S), NEW m \in 0 .. Len(w)
    PROVE  /\ s \o SubSeq(w, 1, m) \in Seq(S)
           /\ Len(s \o SubSeq(w, 1, m)) = Len(s) + m
           /\ \A i \in 1 .. Len(s) : (s \o SubSeq(w, 1, m))[i] = s[i]
           /\ \A k \in 1 .. m : (s \o SubSeq(w, 1, m))[Len(s) + k] = w[k]
<1>1. /\ SubSeq(w, 1, m) \in Seq(S) /\ Len(SubSeq(w, 1, m)) = m
      /\ \A i \in 1 .. m : SubSeq(w, 1, m)[i] = w[i]
  OBVIOUS
<1>2. QED
  BY <1>1

(* The prefixes of a text that grows by the first m elements of a window.  *)
LEMMA PrefixOfAppended ==
    ASSUME NEW S, NEW s \in Seq(S), NEW w \in Seq(S), NEW m \in 0 .. Len(w)
    PROVE  /\ \A i \in 0 .. Len(s) : SubSeq(s \o SubSeq(w, 1, m), 1, i) = SubSeq(s, 1, i)
           /\ \A k \in 0 .. m : SubSeq(s \o SubSeq(w, 1, m), 1, Len(s) + k) = s \o SubSeq(w, 1, k)
<1> DEFINE t == s \o SubSeq(w, 1, m)
<1>1. /\ t \in Seq(S) /\ Len(t) = Len(s) + m
      /\ \A i \in 1 .. Len(s) : t[i] = s[i]
      /\ \A k \in 1 .. m : t[Len(s) + k] = w[k]
  BY AppendPrefix
<1> HIDE DEF t
<1>2. ASSUME NEW i \in 0 .. Len(s)
      PROVE  SubSeq(t, 1, i) = SubSeq(s, 1, i)
  <2>1. /\ SubSeq(t, 1, i) \in Seq(S) /\ Len(SubSeq(t, 1, i)) = i
        /\ \A j \in 1 .. i : SubSeq(t, 1, i)[j] = s[j]
    BY <1>1, <1>2
  <2>2. /\ SubSeq(s, 1, i) \in Seq(S) /\ Len(SubSeq(s, 1, i)) = i
        /\ \A j \in 1 .. i : SubSeq(s, 1, i)[j] = s[j]
    BY <1>2
  <2>3. QED
    BY <2>1, <2>2, SeqEqual
<1>3. ASSUME NEW k \in 0 .. m
      PROVE  SubSeq(t, 1, Len(s) + k) = s \o SubSeq(w, 1, k)
  <2> DEFINE a == SubSeq(t, 1, Len(s) + k)
             b == s \o SubSeq(w, 1, k)
  <2>1. a \in Seq(S) /\ Len(a) = Len(s) + k /\ \A j \in 1 .. Len(s) + k : a[j] = t[j]
    BY <1>1, <1>3
  <2>2. /\ b \in Seq(S) /\ Len(b) = Len(s) + k
        /\ \A j \in 1 .. Len(s) : b[j] = s[j]
        /\ \A j \in 1 .. k : b[Len(s) + j] = w[j]
    BY <1>3, AppendPrefix
  <2> HIDE DEF a, b
  <2>3. ASSUME NEW j \in 1 .. Len(s) + k
        PROVE  a[j] = b[j]
    <3>1. CASE j <= Len(s)
      BY <1>1, <2>1, <2>2, <3>1
    <3>2. CASE j > Len(s)
      <4>1. PICK l \in 1 .. k : j = Len(s) + l
        <5>1. j - Len(s) \in 1 .. k /\ j = Len(s) + (j - Len(s))
          BY <3>2
        <5>2. QED
          BY <5>1
      <4>2. a[j] = w[l] /\ b[j] = w[l]
        BY <1>1, <2>1, <2>2, <4>1
      <4>3. QED
        BY <4>2
    <3>3. QED
      BY <3>1, <3>2
  <2>4. a = b
    BY <2>1, <2>2, <2>3, SeqEqual
  <2>5. QED
    BY <2>4 DEF a, b
<1>4. QED
  BY <1>2, <1>3 DEF t
-----------------------------------------------------------------------------
(* The tokens that converged are those the model chooses one by one.       *)
LEMMA ConvergedIsGreedy ==
    ASSUME IInv, ~ done, NEW w, NEW c, NEW m, Window(w, c, m)
    PROVE  /\ w \in Seq(Vocab) /\ c \in 1 .. Len(w) /\ m \in 0 .. c
           /\ Len(w) <= MaxTokens - Len(output)
           /\ \A k \in 1 .. c : w[k] = Greedy!Predict(output \o SubSeq(w, 1, k - 1))
<1>1. Width(output) \in Nat /\ Width(output) <= MaxTokens - Len(output)
  BY WindowAssumption DEF IInv, Width
<1>2. w \in Seq(Vocab) /\ Len(w) = Width(output) /\ c \in 1 .. Len(w) /\ m \in 0 .. c
  BY <1>1, FunctionIsSeq DEF Window, Sizes
<1>3. ASSUME NEW k \in 1 .. c
      PROVE  w[k] = Greedy!Predict(output \o SubSeq(w, 1, k - 1))
  <2>1. CASE k = 1
    <3>1. output \o SubSeq(w, 1, 0) = output
      BY <1>2 DEF IInv
    <3>2. w[1] = Greedy!Predict(output)
      BY DEF IInv, StarterIsNext, Window, IsWindow
    <3>3. k - 1 = 0
      BY <2>1
    <3>4. w[k] = w[1] /\ SubSeq(w, 1, k - 1) = SubSeq(w, 1, 0)
      BY <2>1, <3>3
    <3>5. QED
      BY <3>1, <3>2, <3>4
  <2>2. CASE k \in 2 .. c
    BY <2>2 DEF Window, Converged, Agrees, After
  <2>3. QED
    BY <1>2, <1>3, <2>1, <2>2
<1>4. QED
  BY <1>1, <1>2, <1>3

(* What a pass appends is greedy text, and the starter is what follows it. *)
LEMMA PassIsGreedy ==
    ASSUME IInv, ~ done, NEW w, NEW c, NEW m, Window(w, c, m)
    PROVE  /\ output' \in Seq(Vocab) /\ Len(output') = Len(output) + m
           /\ Len(output') <= MaxTokens
           /\ SubSeq(output', 1, Len(output)) = output
           /\ \A i \in 1 .. Len(output') : Greedy!IsNext(output', i)
           /\ Greedy!Predict(output') = Greedy!Predict(output \o SubSeq(w, 1, m))
           /\ \A i \in 1 .. Len(output) : output'[i] = output[i]
<1>1. /\ w \in Seq(Vocab) /\ c \in 1 .. Len(w) /\ m \in 0 .. c /\ m \in 0 .. Len(w)
      /\ Len(w) <= MaxTokens - Len(output)
      /\ \A k \in 1 .. c : w[k] = Greedy!Predict(output \o SubSeq(w, 1, k - 1))
  BY ConvergedIsGreedy
<1>2. output \in Seq(Vocab) /\ output' = output \o SubSeq(w, 1, m) /\ Len(output) \in Nat
  BY DEF IInv, Window
<1>3. /\ output' \in Seq(Vocab) /\ Len(output') = Len(output) + m
      /\ \A i \in 1 .. Len(output) : output'[i] = output[i]
      /\ \A k \in 1 .. m : output'[Len(output) + k] = w[k]
  BY <1>1, <1>2, AppendPrefix
<1>4. /\ \A i \in 0 .. Len(output) : SubSeq(output', 1, i) = SubSeq(output, 1, i)
      /\ \A k \in 0 .. m : SubSeq(output', 1, Len(output) + k) = output \o SubSeq(w, 1, k)
  BY <1>1, <1>2, PrefixOfAppended
<1>5. SubSeq(output, 1, Len(output)) = output
  BY <1>2
<1>6. ASSUME NEW i \in 1 .. Len(output')
      PROVE  Greedy!IsNext(output', i)
  <2>1. CASE i \in 1 .. Len(output)
    <3>1. Greedy!IsNext(output, i)
      BY <2>1 DEF IInv, EqualsGreedy
    <3>2. SubSeq(output', 1, i - 1) = SubSeq(output, 1, i - 1) /\ output'[i] = output[i]
      BY <1>2, <1>3, <1>4, <2>1
    <3>3. QED
      BY <3>1, <3>2 DEF Greedy!IsNext
  <2>2. CASE i \notin 1 .. Len(output)
    <3>1. PICK k \in 1 .. m : i = Len(output) + k
      <4>1. i - Len(output) \in 1 .. m /\ i = Len(output) + (i - Len(output))
        BY <1>1, <1>2, <1>3, <1>6, <2>2
      <4>2. QED
        BY <4>1
    <3>2. output'[i] = w[k] /\ w[k] \notin Stop
      BY <1>3, <3>1 DEF Window, Accepted
    <3>3. SubSeq(output', 1, i - 1) = output \o SubSeq(w, 1, k - 1)
      <4>1. k - 1 \in 0 .. m /\ i - 1 = Len(output) + (k - 1)
        BY <1>1, <1>2, <3>1
      <4>2. QED
        BY <1>4, <4>1
    <3>4. w[k] = Greedy!Predict(output \o SubSeq(w, 1, k - 1))
      <4>1. k \in 1 .. c
        BY <1>1, <3>1
      <4>2. QED
        BY <1>1, <4>1
    <3>5. QED
      BY <3>2, <3>3, <3>4 DEF Greedy!IsNext
  <2>3. QED
    BY <2>1, <2>2
<1>7. Len(output') <= MaxTokens
  <2>1. MaxTokens \in Nat
    BY WindowAssumption
  <2>2. QED
    BY <1>1, <1>2, <1>3, <2>1
<1>8. SubSeq(output', 1, Len(output)) = output
  <2>1. Len(output) \in 0 .. Len(output)
    BY <1>2
  <2>2. QED
    BY <1>4, <1>5, <2>1
<1>9. QED
  BY <1>2, <1>3, <1>6, <1>7, <1>8
-----------------------------------------------------------------------------
(* When the loop goes on, the whole converged prefix was accepted.         *)
LEMMA DoneIsFinished ==
    ASSUME NEW w, NEW c, NEW m, Window(w, c, m)
    PROVE  /\ done' \in BOOLEAN /\ lm' = lm
           /\ done' => m < c \/ Len(output) + m >= MaxTokens
           /\ ~ done' => ~ (m < c) /\ ~ (Len(output) + m >= MaxTokens)
           /\ ~ done' => starter' = Greedy!Predict(output \o SubSeq(w, 1, c))
<1>1. done' = Finished(c, m)
  BY DEF Window
<1>2. done' \in BOOLEAN
  BY <1>1 DEF Finished
<1>3. done' => m < c \/ Len(output) + m >= MaxTokens
  BY <1>1, Zenon DEF Finished
<1>4. ~ done' => ~ (m < c) /\ ~ (Len(output) + m >= MaxTokens)
  BY <1>1, Zenon DEF Finished
<1>5. ~ done' => starter' = Greedy!Predict(output \o SubSeq(w, 1, c))
  BY <1>1, Zenon DEF Window, NextStarter, After
<1>6. QED
  BY <1>2, <1>3, <1>4, <1>5 DEF Window

(* Every pass is one of these.                                             *)
LEMMA PassHasWindow ==
    ASSUME Pass
    PROVE  ~ done /\ \E w, c, m : Window(w, c, m)
  BY DEF Pass, Window

LEMMA InitInv == Init => IInv
<1> SUFFICES ASSUME Init
             PROVE  IInv
  OBVIOUS
<1>1. MaxTokens \in Nat \ {0}
  BY WindowAssumption
<1>2. output = <<>> /\ Len(output) = 0 /\ output \in Seq(Vocab)
  BY DEF Init
<1>3. EqualsGreedy
  BY <1>2 DEF EqualsGreedy
<1>4. StarterIsNext
  BY DEF Init, StarterIsNext
<1>5. done = FALSE /\ Len(output) <= MaxTokens /\ Len(output) < MaxTokens
  BY <1>1, <1>2 DEF Init
<1>6. QED
  BY <1>2, <1>3, <1>4, <1>5 DEF IInv

LEMMA StepInv == IInv /\ [Next]_vars => IInv'
<1> SUFFICES ASSUME IInv, [Next]_vars
             PROVE  IInv'
  OBVIOUS
<1>1. CASE Pass
  <2>1. ~ done
    BY <1>1, PassHasWindow
  <2>2. PICK w, c, m : Window(w, c, m)
    BY <1>1, PassHasWindow
  <2>3. /\ output' \in Seq(Vocab) /\ Len(output') = Len(output) + m /\ Len(output') <= MaxTokens
        /\ \A i \in 1 .. Len(output') : Greedy!IsNext(output', i)
        /\ Greedy!Predict(output') = Greedy!Predict(output \o SubSeq(w, 1, m))
    BY <2>1, <2>2, PassIsGreedy
  <2>4. c \in Nat /\ m \in 0 .. c
    BY <2>1, <2>2, ConvergedIsGreedy
  <2>5. /\ done' \in BOOLEAN /\ lm' = lm
        /\ ~ done' => ~ (m < c) /\ ~ (Len(output) + m >= MaxTokens)
        /\ ~ done' => starter' = Greedy!Predict(output \o SubSeq(w, 1, c))
    BY <2>2, DoneIsFinished
  <2>6. Len(output) \in Nat /\ MaxTokens \in Nat
    BY WindowAssumption DEF IInv
  <2>7. ~ done' => Len(output') < MaxTokens
    BY <2>3, <2>4, <2>5, <2>6
  <2>8. EqualsGreedy'
    BY <2>3, <2>5 DEF EqualsGreedy, Greedy!IsNext, Greedy!Predict
  <2>9. StarterIsNext'
    <3> SUFFICES ASSUME ~ done'
                 PROVE  starter' = Greedy!Predict(output)'
      BY DEF StarterIsNext
    <3>1. m = c
      BY <2>4, <2>5
    <3>2. starter' = Greedy!Predict(output')
      BY <2>3, <2>5, <3>1
    <3>3. QED
      BY <2>5, <3>2 DEF Greedy!Predict
  <2>10. QED
    BY <2>3, <2>5, <2>7, <2>8, <2>9 DEF IInv
<1>2. CASE UNCHANGED vars
  BY <1>2 DEF vars, IInv, EqualsGreedy, StarterIsNext, Greedy!IsNext, Greedy!Predict
<1>3. QED
  BY <1>1, <1>2 DEF Next

LEMMA InvHolds == Spec => []IInv
  BY InitInv, StepInv, PTL DEF Spec

(* The text is the greedy one after every pass.                            *)
THEOREM TextIsGreedy == Spec => []EqualsGreedy
<1>1. IInv => EqualsGreedy
  BY DEF IInv
<1>2. QED
  BY <1>1, InvHolds, PTL

(* Lookahead decoding implements the abstract generate().                  *)
THEOREM LookaheadImplementsGenerate == Spec => ImplementsGenerate
<1>1. Init => Greedy!Init
  BY DEF Init, Greedy!Init
<1>2. IInv /\ [Next]_vars => [Greedy!Emit]_Greedy!vars
  <2> SUFFICES ASSUME IInv, [Next]_vars
               PROVE  [Greedy!Emit]_Greedy!vars
    OBVIOUS
  <2>1. CASE Pass
    <3>1. ~ done
      BY <2>1, PassHasWindow
    <3>2. PICK w, c, m : Window(w, c, m)
      BY <2>1, PassHasWindow
    <3>3. /\ output' \in Seq(Vocab) /\ Len(output') = Len(output) + m /\ Len(output') <= MaxTokens
          /\ SubSeq(output', 1, Len(output)) = output
          /\ \A i \in 1 .. Len(output') : Greedy!IsNext(output', i)
          /\ Greedy!Predict(output') = Greedy!Predict(output \o SubSeq(w, 1, m))
      BY <3>1, <3>2, PassIsGreedy
    <3>4. /\ c \in 1 .. Len(w) /\ m \in 0 .. c
          /\ \A k \in 1 .. c : w[k] = Greedy!Predict(output \o SubSeq(w, 1, k - 1))
      BY <3>1, <3>2, ConvergedIsGreedy
    <3>5. /\ done' \in BOOLEAN /\ lm' = lm
          /\ done' => m < c \/ Len(output) + m >= MaxTokens
          /\ ~ done' => ~ (m < c) /\ ~ (Len(output) + m >= MaxTokens)
      BY <3>2, DoneIsFinished
    <3>6. Len(output) \in Nat /\ MaxTokens \in Nat /\ output \in Seq(Vocab)
      BY WindowAssumption DEF IInv
    <3>7. Greedy!Extends(output, output')
      BY <3>3, <3>4, <3>6 DEF Greedy!Extends
    <3>8. \A i \in Len(output) + 1 .. Len(output') : Greedy!IsNext(output', i)
      BY <3>3, <3>4, <3>6
    <3>9. done' => Len(output') = MaxTokens \/ Greedy!Predict(output') \in Stop
      <4>1. CASE m < c
        <5>1. m + 1 \in 1 .. c /\ (m + 1) - 1 = m
          BY <3>4, <4>1
        <5>2. w[m + 1] = Greedy!Predict(output \o SubSeq(w, 1, m))
          BY <3>4, <5>1
        <5>3. w[m + 1] \in Stop
          BY <3>2, <4>1 DEF Window, Accepted
        <5>4. QED
          BY <3>3, <5>2, <5>3
      <4>2. CASE ~ (m < c)
        <5> SUFFICES ASSUME done'
                     PROVE  Len(output') = MaxTokens
          OBVIOUS
        <5>1. Len(output) + m >= MaxTokens
          BY <3>5, <4>2, Zenon
        <5>2. m \in Nat
          BY <3>4
        <5>3. QED
          BY <3>3, <3>6, <5>1, <5>2
      <4>3. QED
        BY <4>1, <4>2
    <3>10. ~ done' => output' # output /\ Len(output') < MaxTokens
      <4>1. c >= 1 /\ c \in Nat /\ m \in Nat
        BY <3>4
      <4>2. QED
        BY <3>3, <3>4, <3>5, <3>6, <4>1
    <3>11. Greedy!Emit
      BY <3>1, <3>3, <3>5, <3>7, <3>8, <3>9, <3>10 DEF Greedy!Emit
    <3>12. QED
      BY <3>11
  <2>2. CASE UNCHANGED vars
    BY <2>2 DEF vars, Greedy!vars
  <2>3. QED
    BY <2>1, <2>2 DEF Next
<1>3. QED
  BY <1>1, <1>2, InvHolds, PTL DEF Spec, ImplementsGenerate, Greedy!Spec
-----------------------------------------------------------------------------
(* A recursion over the first n numbers defines a function.                *)
Recurses(V, v, step) ==
    \A n \in Nat : \E f \in [0 .. n -> V] :
        f[0] = v /\ \A i \in 1 .. n : f[i] = step[i][f[i - 1]]

LEMMA RecursionExists ==
  ASSUME NEW V, NEW v \in V, NEW step \in [Nat -> [V -> V]]
  PROVE  Recurses(V, v, step)
<1> DEFINE P(n, f) == f[0] = v /\ \A i \in 1 .. n : f[i] = step[i][f[i - 1]]
           S == {n \in Nat : \E f \in [0 .. n -> V] : P(n, f)}
<1>1. 0 \in S
  <2> DEFINE f == [i \in 0 .. 0 |-> v]
  <2>1. f \in [0 .. 0 -> V] /\ P(0, f)
    OBVIOUS
  <2> QED
    BY <2>1
<1>2. ASSUME NEW n \in Nat, n \in S PROVE n + 1 \in S
  <2>1. PICK f \in [0 .. n -> V] : P(n, f)
    BY <1>2
  <2> DEFINE g == [i \in 0 .. n + 1 |-> IF i <= n THEN f[i] ELSE step[n + 1][f[n]]]
  <2>2. step[n + 1][f[n]] \in V
    OBVIOUS
  <2>3. g \in [0 .. n + 1 -> V] /\ \A i \in 0 .. n : g[i] = f[i]
    BY <2>2
  <2>4. g[n + 1] = step[n + 1][f[n]]
    OBVIOUS
  <2> HIDE DEF g
  <2>5. ASSUME NEW i \in 1 .. n + 1 PROVE g[i] = step[i][g[i - 1]]
    <3>1. CASE i <= n
      <4>1. i \in 1 .. n /\ i - 1 \in 0 .. n /\ i \in 0 .. n
        BY <3>1
      <4> QED
        BY <2>1, <2>3, <4>1
    <3>2. CASE i = n + 1
      <4>1. n \in 0 .. n /\ i - 1 = n
        BY <3>2
      <4> QED
        BY <2>3, <2>4, <3>2, <4>1
    <3> QED
      BY <3>1, <3>2
  <2>6. g[0] = v
    BY <2>1, <2>3
  <2>7. P(n + 1, g)
    BY <2>5, <2>6
  <2> QED
    BY <2>3, <2>7
<1>3. Nat \subseteq S
  <2> HIDE DEF S
  <2> QED
    BY <1>1, <1>2, SetInduction
<1> QED
  BY <1>3 DEF Recurses
-----------------------------------------------------------------------------
(* The loop of split_prompt.                                               *)
StartsAre(len, n, f) ==
    f = [i \in 0 .. (n - 1) |-> IF i = 0 THEN 0 ELSE NextStart(SliceEnd(len, n, i - 1, f[i - 1]))]

LEMMA ChunkFacts ==
  ASSUME NEW len \in Nat, NEW n \in Nat \ {0}
  PROVE  ChunkSize(len, n) \in Nat /\ ChunkSize(len, n) >= 2 * Overlap
<1>1. len \div n \in Nat /\ Overlap \in Nat
  BY TextAssumption
<1> QED
  BY <1>1 DEF ChunkSize, Higher

LEMMA StartFacts ==
  ASSUME NEW len \in Nat, NEW n \in Nat \ {0}, NEW i \in Nat, NEW x \in Nat
  PROVE  NextStart(SliceEnd(len, n, i, x)) \in Nat /\ SliceEnd(len, n, i, x) \in Nat
<1>1. ChunkSize(len, n) \in Nat /\ Overlap \in Nat
  BY ChunkFacts, TextAssumption
<1>2. SliceEnd(len, n, i, x) \in Nat
  BY <1>1 DEF SliceEnd, Lower
<1> QED
  BY <1>1, <1>2 DEF NextStart, Higher

LEMMA StartsExist ==
  ASSUME NEW len \in Nat, NEW n \in Nat \ {0}
  PROVE  \E f : StartsAre(len, n, f)
<1> DEFINE step == [i \in Nat |-> [x \in Nat |->
                      IF i = 0 THEN 0 ELSE NextStart(SliceEnd(len, n, i - 1, x))]]
<1>1. ASSUME NEW i \in Nat, NEW x \in Nat, i # 0
      PROVE  NextStart(SliceEnd(len, n, i - 1, x)) \in Nat
  BY <1>1, StartFacts
<1>2. step \in [Nat -> [Nat -> Nat]]
  BY <1>1
<1>3. n - 1 \in Nat
  OBVIOUS
<1>4. PICK f \in [0 .. (n - 1) -> Nat] :
         f[0] = 0 /\ \A i \in 1 .. (n - 1) : f[i] = step[i][f[i - 1]]
  <2> HIDE DEF step
  <2>1. \A k \in Nat : \E g \in [0 .. k -> Nat] :
           g[0] = 0 /\ \A i \in 1 .. k : g[i] = step[i][g[i - 1]]
    <3>1. Recurses(Nat, 0, step)
      BY <1>2, RecursionExists
    <3> QED
      BY <3>1 DEF Recurses
  <2> QED
    BY <1>3, <2>1
<1>5. ASSUME NEW i \in 1 .. (n - 1)
      PROVE  f[i] = NextStart(SliceEnd(len, n, i - 1, f[i - 1]))
  <2>1. i \in Nat /\ i # 0 /\ f[i - 1] \in Nat
    OBVIOUS
  <2>2. step[i][f[i - 1]] = NextStart(SliceEnd(len, n, i - 1, f[i - 1]))
    BY <2>1
  <2> QED
    BY <1>4, <2>2
<1>6. f = [i \in 0 .. (n - 1) |->
             IF i = 0 THEN 0 ELSE NextStart(SliceEnd(len, n, i - 1, f[i - 1]))]
  <2>1. \A i \in 0 .. (n - 1) :
           f[i] = IF i = 0 THEN 0 ELSE NextStart(SliceEnd(len, n, i - 1, f[i - 1]))
    BY <1>4, <1>5
  <2> QED
    BY <2>1
<1> QED
  BY <1>6 DEF StartsAre

LEMMA StartsType ==
  ASSUME NEW len \in Nat, NEW n \in Nat \ {0}, NEW f, StartsAre(len, n, f)
  PROVE  \A i \in 0 .. (n - 1) : f[i] \in Nat
<1> DEFINE S == {i \in Nat : i <= n - 1 => f[i] \in Nat}
<1>0. \A i \in 0 .. (n - 1) :
         f[i] = IF i = 0 THEN 0 ELSE NextStart(SliceEnd(len, n, i - 1, f[i - 1]))
  BY DEF StartsAre
<1>1. 0 \in S
  BY <1>0
<1>2. ASSUME NEW i \in Nat, i \in S PROVE i + 1 \in S
  <2> SUFFICES ASSUME i + 1 <= n - 1 PROVE f[i + 1] \in Nat
    BY <1>2
  <2>1. f[i] \in Nat
    BY <1>2
  <2>2. i + 1 \in 0 .. (n - 1) /\ i + 1 # 0 /\ (i + 1) - 1 = i
    OBVIOUS
  <2>3. f[i + 1] = NextStart(SliceEnd(len, n, i, f[i]))
    BY <1>0, <2>2
  <2>4. NextStart(SliceEnd(len, n, i, f[i])) \in Nat
    BY <2>1, StartFacts
  <2> QED
    BY <2>3, <2>4
<1>3. Nat \subseteq S
  <2> HIDE DEF S
  <2> QED
    BY <1>1, <1>2, SetInduction
<1> QED
  BY <1>3

(* The slices of a split prompt are slices of it, cover it and overlap.    *)
LEMMA SplitCovers ==
  ASSUME NEW len \in Nat, NEW n \in Nat \ {0}
  PROVE  /\ SplitSlices(len, n) \in Seq(Nat \X Nat) /\ Len(SplitSlices(len, n)) = n
         /\ Covers(SplitSlices(len, n), len)
<1> DEFINE f == CHOOSE g : StartsAre(len, n, g)
           told == [k \in 1 .. n |-> <<f[k - 1], SliceEnd(len, n, k - 1, f[k - 1])>>]
<1>1. StartsAre(len, n, f)
  BY StartsExist
<1>2. SplitSlices(len, n) = told
  BY DEF SplitSlices, StartsAre
<1> HIDE DEF f
<1>3. \A i \in 0 .. (n - 1) : f[i] \in Nat
  BY <1>1, StartsType
<1>4. \A i \in 0 .. (n - 1) :
         f[i] = IF i = 0 THEN 0 ELSE NextStart(SliceEnd(len, n, i - 1, f[i - 1]))
  BY <1>1 DEF StartsAre
<1>5. \A k \in 1 .. n : told[k] \in Nat \X Nat
  <2> TAKE k \in 1 .. n
  <2>1. k - 1 \in 0 .. (n - 1) /\ k - 1 \in Nat
    OBVIOUS
  <2>2. f[k - 1] \in Nat
    BY <1>3, <2>1
  <2> QED
    BY <2>1, <2>2, StartFacts
<1>6. told \in Seq(Nat \X Nat) /\ Len(told) = n
  <2>1. told \in [1 .. n -> Nat \X Nat]
    BY <1>5
  <2> QED
    BY <2>1
<1>7. told[1][1] = 0 /\ told[n][2] = len
  <2>1. told[1] = <<f[0], SliceEnd(len, n, 0, f[0])>> /\ told[n] = <<f[n - 1], SliceEnd(len, n, n - 1, f[n - 1])>>
    OBVIOUS
  <2>2. f[0] = 0
    BY <1>4
  <2> QED
    BY <2>1, <2>2 DEF SliceEnd
<1>8. ASSUME NEW i \in 2 .. n
      PROVE  /\ told[i - 1][1] <= told[i][1] /\ told[i][1] <= told[i - 1][2]
             /\ told[i - 1][2] - told[i][1] = Lower(Overlap, told[i - 1][2])
  <2> DEFINE a == f[i - 2]
             b == f[i - 1]
             e == Lower(len, a + ChunkSize(len, n))
  <2>1. i - 2 \in 0 .. (n - 1) /\ i - 1 \in 0 .. (n - 1) /\ i - 1 # 0 /\ (i - 1) - 1 = i - 2
        /\ i - 2 # n - 1
    OBVIOUS
  <2>2. a \in Nat /\ b \in Nat
    BY <1>3, <2>1
  <2>3. SliceEnd(len, n, i - 2, a) = e
    BY <2>1 DEF SliceEnd
  <2>4. b = NextStart(e)
    BY <1>4, <2>1, <2>3
  <2>5. told[i - 1] = <<a, e>> /\ told[i][1] = b
    BY <2>1, <2>3
  <2>6. a = 0 \/ \E x \in Nat : x <= len /\ a = x - Overlap
    <3>1. CASE i - 2 = 0
      BY <1>4, <2>1, <3>1
    <3>2. CASE i - 2 # 0
      <4>1. i - 3 \in 0 .. (n - 1) /\ (i - 2) - 1 = i - 3 /\ i - 3 # n - 1
        BY <2>1, <3>2
      <4>2. f[i - 3] \in Nat
        BY <1>3, <4>1
      <4>3. a = NextStart(Lower(len, f[i - 3] + ChunkSize(len, n)))
        BY <1>4, <2>1, <3>2, <4>1 DEF SliceEnd
      <4>4. Lower(len, f[i - 3] + ChunkSize(len, n)) \in 0 .. len
        BY <4>2, ChunkFacts DEF Lower
      <4> QED
        BY <4>3, <4>4, TextAssumption DEF NextStart, Higher
    <3> QED
      BY <3>1, <3>2
  <2>7. ChunkSize(len, n) \in Nat /\ ChunkSize(len, n) >= 2 * Overlap /\ Overlap \in Nat \ {0}
    BY ChunkFacts, TextAssumption
  <2> HIDE DEF a, b
  <2>8. a <= b /\ b <= e /\ e - b = Lower(Overlap, e)
    BY <2>2, <2>4, <2>6, <2>7 DEF NextStart, Lower, Higher
  <2> QED
    BY <2>5, <2>8
<1> QED
  BY <1>2, <1>6, <1>7, <1>8 DEF Covers
-----------------------------------------------------------------------------
\* A results dictionary: one answer a shard.
Dict(q) == /\ q \in Outputs
           /\ \A k, l \in DOMAIN q : q[k].shard = q[l].shard => k = l

\* What the answers of a job may be.
Plausible(r, mode, a) ==
    /\ a.shard + 1 \in DOMAIN r.told
    /\ \/ a.kind \in {"text", "long", "empty"}
       \/ a.kind = "placeholder" /\ mode = "pipeline_parallel" /\ a.shard # 0

ToldSlices(r, asked) ==
    \/ r.told = <<>>
    \/ \E n \in ProtoShards(asked) : r.told = Slices(ProtoMode(asked), r.len, n)

\* An output is what the answers give.
IsAssembled(r, mode) ==
    /\ r.said # <<>> /\ r.final = Assembled(mode, r.said)
    /\ Ready(mode, Len(r.told), r.said)

(* The JobState r of a job that asked for asked.  A race has its first     *)
(* answer or none.                                                         *)
IsJobOf(r, asked) ==
    /\ asked.n <= NShards /\ ToldSlices(r, asked)
    /\ Dict(r.said) /\ \A k \in DOMAIN r.said : Plausible(r, ProtoMode(asked), r.said[k])
    /\ ~ r.known => r.told = <<>> /\ r.final = NoText
    /\ r.workers # {} => ProtoMode(asked) = "pipeline_parallel" /\ 0 \notin r.workers
    /\ ProtoMode(asked) = "parallel_sample" =>
          Len(r.said) = IF r.final = NoText THEN 0 ELSE 1
    /\ r.final # NoText => IsAssembled(r, ProtoMode(asked))

JobsInv ==
    /\ TextsTypeOK
    /\ \A j \in Jobs : IsJobOf(job[j], chain[j].asked) /\ Dict(chain[j].results)

\* A job that is not pending yet has been touched by nobody.
Untouched(j) ==
    /\ job[j] = NoJob /\ commits[j] = <<>>
    /\ \A d \in Dispatches : task[j][d] = NewTask
StartsFresh ==
    \A j \in Jobs :
        IF chain[j].status \in {"none", "posted", "waiting"} THEN Untouched(j)
        ELSE task[j][1].pc # "idle"

PostedTogether ==
    /\ \A j \in Jobs : chain[j].status = "waiting" => chain[j].parent # 0
    /\ (\E j \in Jobs : chain[j].status = "posted")
        => \A j \in Jobs : chain[j].status \in {"none", "posted"}

\* A job dispatched once has one JobState, and every commit is of its output.
OneOutput ==
    \A j \in Jobs : DispatchedOnce(j) =>
        /\ job[j].known => task[j][1].pc = "done"
        /\ \A k \in DOMAIN commits[j] :
              job[j].final # NoText /\ commits[j][k].output = job[j].final

Child(j, p) == chain[j].parent = p /\ chain[j].status \in {"pending", "complete"}
Reads(x, p) == DispatchedOnce(p) => job[p].final # NoText /\ x = job[p].final

ChildrenRead ==
    \A j \in Jobs :
        /\ \A p \in Jobs : Child(j, p) => Reads(chain[j].read, p)
        /\ \A d \in Dispatches : task[j][d].read # NoText =>
              \E p \in Jobs : Child(j, p) /\ Reads(task[j][d].read, p)

TextsInv == JobsInv /\ StartsFresh /\ PostedTogether /\ OneOutput /\ ChildrenRead
-----------------------------------------------------------------------------
(* Results.                                                                *)
LEMMA OfFacts ==
  ASSUME NEW q, Dict(q)
  PROVE  /\ ShardsOf(q) \subseteq Shards
         /\ \A k \in DOMAIN q : Of(q, q[k].shard) = q[k]
         /\ \A s \in ShardsOf(q) : Of(q, s) \in Answers /\ Of(q, s).shard = s /\ Of(q, s) \in AnswersIn(q)
         /\ AnswersIn(q) = {Of(q, s) : s \in ShardsOf(q)}
<1>1. \A k \in DOMAIN q : q[k] \in Answers /\ q[k].shard \in Shards
  <2>1. q \in Seq(Answers)
    BY DEF Dict, Outputs
  <2>2. \A k \in DOMAIN q : q[k] \in Answers
    BY <2>1
  <2> QED
    BY <2>2 DEF Answers
<1>2. ASSUME NEW k \in DOMAIN q PROVE Of(q, q[k].shard) = q[k]
  <2> DEFINE l == CHOOSE i \in DOMAIN q : q[i].shard = q[k].shard
  <2>1. l \in DOMAIN q /\ q[l].shard = q[k].shard
    OBVIOUS
  <2>2. l = k
    BY <2>1 DEF Dict
  <2> QED
    BY <2>2 DEF Of
<1>3. ASSUME NEW s \in ShardsOf(q) PROVE Of(q, s) \in Answers /\ Of(q, s).shard = s /\ Of(q, s) \in AnswersIn(q)
  <2>1. PICK k \in DOMAIN q : s = q[k].shard
    BY DEF ShardsOf
  <2> QED
    BY <1>1, <1>2, <2>1 DEF AnswersIn
<1>4. AnswersIn(q) = {Of(q, s) : s \in ShardsOf(q)}
  BY <1>2, <1>3 DEF AnswersIn, ShardsOf
<1> QED
  BY <1>1, <1>2, <1>3, <1>4 DEF ShardsOf

LEMMA PutFacts ==
  ASSUME NEW q \in Outputs, NEW a \in Answers
  PROVE  /\ Put(q, a) \in Outputs /\ Put(q, a) # <<>>
         /\ Dict(q) => Dict(Put(q, a))
         /\ ShardsOf(Put(q, a)) = ShardsOf(q) \cup {a.shard}
         /\ \A k \in DOMAIN Put(q, a) : Put(q, a)[k] = a \/ \E l \in DOMAIN q : Put(q, a)[k] = q[l]
         /\ q = <<>> => Len(Put(q, a)) = 1
<1>0. q \in Seq(Answers) /\ DOMAIN q = 1 .. Len(q) /\ Len(q) \in Nat
  BY DEF Outputs
<1>1. CASE a.shard \in ShardsOf(q)
  <2> DEFINE p == [k \in DOMAIN q |-> IF q[k].shard = a.shard THEN a ELSE q[k]]
  <2>1. Put(q, a) = p
    BY <1>1 DEF Put
  <2>2. p \in Seq(Answers) /\ Len(p) = Len(q) /\ DOMAIN p = DOMAIN q
    <3>1. p \in [1 .. Len(q) -> Answers]
      BY <1>0
    <3> QED
      BY <1>0, <3>1
  <2>3. \A k \in DOMAIN q : p[k].shard = q[k].shard /\ (p[k] = a \/ p[k] = q[k])
    OBVIOUS
  <2> HIDE DEF p
  <2>4. PICK k \in DOMAIN q : q[k].shard = a.shard
    BY <1>1 DEF ShardsOf
  <2>5. p # <<>> /\ q # <<>>
    BY <2>2, <2>4, <1>0
  <2>6. Dict(q) => Dict(p)
    BY <2>2, <2>3 DEF Dict, Outputs
  <2>7. ShardsOf(p) = ShardsOf(q)
    BY <2>2, <2>3 DEF ShardsOf
  <2>8. p \in Outputs
    BY <2>2 DEF Outputs
  <2>9. ShardsOf(p) = ShardsOf(q) \cup {a.shard}
    BY <1>1, <2>7
  <2>10. \A i \in DOMAIN p : p[i] = a \/ \E l \in DOMAIN q : p[i] = q[l]
    BY <2>2, <2>3
  <2> QED
    BY <2>1, <2>5, <2>6, <2>8, <2>9, <2>10
<1>2. CASE a.shard \notin ShardsOf(q)
  <2> DEFINE p == Append(q, a)
  <2>1. Put(q, a) = p
    BY <1>2 DEF Put
  <2>2. /\ p \in Seq(Answers) /\ Len(p) = Len(q) + 1 /\ DOMAIN p = 1 .. (Len(q) + 1)
        /\ p[Len(q) + 1] = a /\ \A k \in DOMAIN q : p[k] = q[k]
    BY <1>0
  <2> HIDE DEF p
  <2>3. \A k \in DOMAIN q : q[k].shard # a.shard
    BY <1>2 DEF ShardsOf
  <2>4. \A k \in DOMAIN p : k \in DOMAIN q \/ k = Len(q) + 1
    BY <1>0, <2>2
  <2>5. \A k \in DOMAIN q : k \in DOMAIN p
    BY <1>0, <2>2
  <2>6. Dict(q) => Dict(p)
    BY <1>0, <2>2, <2>3, <2>4 DEF Dict, Outputs
  <2>7. ShardsOf(p) = ShardsOf(q) \cup {a.shard}
    BY <1>0, <2>2, <2>4, <2>5 DEF ShardsOf
  <2>8. Len(q) + 1 \in DOMAIN p /\ p # <<>>
    BY <1>0, <2>2
  <2>9. \A k \in DOMAIN p : p[k] = a \/ \E l \in DOMAIN q : p[k] = q[l]
    BY <2>2, <2>4
  <2>10. q = <<>> => Len(p) = 1
    BY <2>2
  <2>11. p \in Outputs
    BY <2>2 DEF Outputs
  <2> QED
    BY <2>1, <2>6, <2>7, <2>8, <2>9, <2>10, <2>11
<1> QED
  BY <1>1, <1>2

(* Sorted, one shard number after the other.                               *)
SortedAre(q, S, f) ==
    f = [i \in 0 .. NShards |->
            IF i = 0 THEN <<>>
            ELSE IF i - 1 \in S THEN Append(f[i - 1], Of(q, i - 1))
            ELSE f[i - 1]]

LEMMA SortedFacts ==
  ASSUME NEW q, Dict(q), NEW S, S \subseteq ShardsOf(q)
  PROVE  /\ Sorted(q, S) \in Outputs /\ IsIncreasing(Sorted(q, S))
         /\ AnswersIn(Sorted(q, S)) = {Of(q, s) : s \in S}
<1> DEFINE step == [i \in Nat |-> [x \in Outputs |->
                      IF i - 1 \in S THEN Append(x, Of(q, i - 1)) ELSE x]]
<1>1. \A s \in S : s \in Shards /\ Of(q, s) \in Answers /\ Of(q, s).shard = s
  BY OfFacts
<1>2. NShards \in Nat \ {0, 1} /\ Shards = 0 .. (NShards - 1)
  BY AskedAssumption DEF Shards
<1>3. ASSUME NEW i \in Nat, NEW x \in Outputs
      PROVE  (IF i - 1 \in S THEN Append(x, Of(q, i - 1)) ELSE x) \in Outputs
  BY <1>1 DEF Outputs
<1>4. step \in [Nat -> [Outputs -> Outputs]]
  BY <1>3
<1>5. <<>> \in Outputs
  BY DEF Outputs
<1>6. PICK f \in [0 .. NShards -> Outputs] :
         f[0] = <<>> /\ \A i \in 1 .. NShards : f[i] = step[i][f[i - 1]]
  <2> HIDE DEF step
  <2>1. Recurses(Outputs, <<>>, step)
    BY <1>4, <1>5, RecursionExists
  <2> QED
    BY <1>2, <2>1 DEF Recurses
<1>7. ASSUME NEW i \in 1 .. NShards
      PROVE  f[i] = IF i - 1 \in S THEN Append(f[i - 1], Of(q, i - 1)) ELSE f[i - 1]
  <2>1. i \in Nat /\ i - 1 \in 0 .. NShards
    BY <1>2
  <2>2. f[i - 1] \in Outputs
    BY <2>1
  <2> QED
    BY <1>6, <2>1, <2>2
<1>8. SortedAre(q, S, f)
  <2>1. \A i \in 0 .. NShards :
           f[i] = IF i = 0 THEN <<>>
                  ELSE IF i - 1 \in S THEN Append(f[i - 1], Of(q, i - 1)) ELSE f[i - 1]
    <3> TAKE i \in 0 .. NShards
    <3>1. i = 0 \/ (i # 0 /\ i \in 1 .. NShards)
      BY <1>2
    <3>2. f[0] = <<>>
      BY <1>6
    <3> HIDE DEF step
    <3> QED
      BY <1>7, <3>1, <3>2
  <2> QED
    BY <2>1 DEF SortedAre
<1> HIDE DEF step
<1> DEFINE g == CHOOSE h : SortedAre(q, S, h)
<1>9. SortedAre(q, S, g)
  BY <1>8
<1>10. Sorted(q, S) = g[NShards]
  BY DEF Sorted, SortedAre
<1> HIDE DEF g
<1>11. \A i \in 0 .. NShards :
          g[i] = IF i = 0 THEN <<>>
                 ELSE IF i - 1 \in S THEN Append(g[i - 1], Of(q, i - 1)) ELSE g[i - 1]
  BY <1>9 DEF SortedAre
<1> DEFINE Good(i) ==
             /\ g[i] \in Outputs /\ IsIncreasing(g[i])
             /\ AnswersIn(g[i]) = {Of(q, s) : s \in {r \in S : r < i}}
           N == {i \in Nat : i <= NShards => Good(i)}
<1>12. 0 \in N
  <2>1. g[0] = <<>>
    BY <1>2, <1>11
  <2>2. {r \in S : r < 0} = {}
    BY <1>1, <1>2
  <2> QED
    BY <1>5, <2>1, <2>2 DEF IsIncreasing, AnswersIn
<1>13. ASSUME NEW i \in Nat, i \in N PROVE i + 1 \in N
  <2> SUFFICES ASSUME i + 1 <= NShards PROVE Good(i + 1)
    OBVIOUS
  <2>1. Good(i)
    BY <1>2, <1>13
  <2>2. i + 1 \in 0 .. NShards /\ (i + 1) - 1 = i /\ i + 1 # 0
    BY <1>2
  <2>3. g[i + 1] = IF i \in S THEN Append(g[i], Of(q, i)) ELSE g[i]
    BY <1>11, <2>2
  <2>4. CASE i \in S
    <3> DEFINE p == g[i]
               a == Of(q, i)
               u == Append(p, a)
    <3>1. p \in Seq(Answers) /\ a \in Answers /\ a.shard = i
      BY <1>1, <2>1, <2>4 DEF Outputs
    <3>2. /\ u \in Seq(Answers) /\ Len(p) \in Nat /\ DOMAIN p = 1 .. Len(p) /\ DOMAIN u = 1 .. (Len(p) + 1)
          /\ u[Len(p) + 1] = a /\ \A k \in DOMAIN p : u[k] = p[k]
      BY <3>1
    <3>3. ASSUME NEW k \in DOMAIN p PROVE p[k].shard < i
      <4>1. PICK s \in {r \in S : r < i} : p[k] = Of(q, s)
        BY <2>1 DEF AnswersIn
      <4> QED
        BY <1>1, <4>1
    <3>4. g[i + 1] = u
      BY <2>3, <2>4
    <3> HIDE DEF u
    <3>5. IsIncreasing(u)
      <4> SUFFICES ASSUME NEW k \in DOMAIN u, NEW l \in DOMAIN u, k < l
                   PROVE  u[k].shard < u[l].shard
        BY DEF IsIncreasing
      <4>1. k \in DOMAIN p /\ u[k] = p[k]
        BY <3>2
      <4>2. CASE l \in DOMAIN p
        BY <2>1, <3>2, <4>1, <4>2 DEF IsIncreasing
      <4>3. CASE l = Len(p) + 1
        BY <3>1, <3>2, <3>3, <4>1, <4>3
      <4> QED
        BY <3>2, <4>2, <4>3
    <3>6. AnswersIn(u) = AnswersIn(p) \cup {a}
      <4>1. \A k \in DOMAIN u : k \in DOMAIN p \/ k = Len(p) + 1
        BY <3>2
      <4>2. Len(p) + 1 \in DOMAIN u /\ DOMAIN p \subseteq DOMAIN u
        BY <3>2
      <4> HIDE DEF p, a
      <4> QED
        BY <3>2, <4>1, <4>2 DEF AnswersIn
    <3>7. {r \in S : r < i + 1} = {r \in S : r < i} \cup {i}
      <4>1. \A r \in S : r \in Nat
        BY <1>1, <1>2
      <4>2. \A r \in S : r < i + 1 <=> r < i \/ r = i
        BY <4>1
      <4> QED
        BY <2>4, <4>2
    <3>8. {Of(q, s) : s \in {r \in S : r < i} \cup {i}} = {Of(q, s) : s \in {r \in S : r < i}} \cup {Of(q, i)}
      OBVIOUS
    <3> QED
      BY <2>1, <3>2, <3>4, <3>5, <3>6, <3>7, <3>8 DEF Outputs
  <2>5. CASE i \notin S
    <3>1. {r \in S : r < i + 1} = {r \in S : r < i}
      BY <1>1, <1>2, <2>5
    <3> QED
      BY <2>1, <2>3, <2>5, <3>1
  <2> QED
    BY <2>4, <2>5
<1>14. Nat \subseteq N
  <2> HIDE DEF N
  <2> QED
    BY <1>12, <1>13, SetInduction
<1>15. Good(NShards)
  BY <1>2, <1>14
<1>16. {r \in S : r < NShards} = S
  BY <1>1, <1>2
<1> QED
  BY <1>10, <1>15, <1>16

(* What assemble makes of a results dictionary.                            *)
LEMMA StrippedFacts ==
  ASSUME NEW a \in Answers
  PROVE  /\ Stripped(a) \in Outputs /\ IsIncreasing(Stripped(a))
         /\ AnswersIn(Stripped(a)) = IF IsSaid(a) THEN {a} ELSE {}
         /\ Stripped(a) = <<>> => ~ IsSaid(a)
<1>1. CASE IsSaid(a)
  <2>1. Stripped(a) = <<a>>
    BY <1>1 DEF Stripped
  <2>2. <<a>> \in Seq(Answers) /\ DOMAIN <<a>> = {1} /\ <<a>>[1] = a /\ <<a>> # <<>>
    OBVIOUS
  <2>3. IsIncreasing(<<a>>)
    BY <2>2 DEF IsIncreasing
  <2>4. AnswersIn(<<a>>) = {a}
    BY <2>2 DEF AnswersIn
  <2> QED
    BY <1>1, <2>1, <2>2, <2>3, <2>4 DEF Outputs
<1>2. CASE ~ IsSaid(a)
  <2>1. Stripped(a) = <<>>
    BY <1>2 DEF Stripped
  <2>2. DOMAIN <<>> = {} /\ <<>> \in Seq(Answers)
    OBVIOUS
  <2>3. IsIncreasing(<<>>) /\ AnswersIn(<<>>) = {}
    BY <2>2 DEF IsIncreasing, AnswersIn
  <2> QED
    BY <1>2, <2>1, <2>2, <2>3 DEF Outputs
<1> QED
  BY <1>1, <1>2

(* All results, sorted: the first is the one of the least shard.           *)
LEMMA AllSorted ==
  ASSUME NEW q, Dict(q), q # <<>>, NEW r, r = Sorted(q, ShardsOf(q))
  PROVE  /\ r \in Seq(Answers) /\ IsIncreasing(r) /\ AnswersIn(r) = AnswersIn(q)
         /\ Len(r) \in Nat \ {0} /\ DOMAIN r = 1 .. Len(r) /\ 1 \in DOMAIN r /\ Len(r) \in DOMAIN r
         /\ \A k \in DOMAIN r : r[k] \in Answers /\ r[k] \in AnswersIn(q)
<1>1. r \in Seq(Answers) /\ IsIncreasing(r) /\ AnswersIn(r) = AnswersIn(q)
  BY SortedFacts, OfFacts DEF Outputs
<1>2. q \in Seq(Answers)
  BY DEF Dict, Outputs
<1>3. 1 \in DOMAIN q
  BY <1>2
<1>4. q[1] \in AnswersIn(r)
  BY <1>1, <1>3 DEF AnswersIn
<1>5. DOMAIN r # {}
  BY <1>4 DEF AnswersIn
<1>6. Len(r) \in Nat /\ DOMAIN r = 1 .. Len(r)
  BY <1>1
<1>7. Len(r) # 0
  BY <1>5, <1>6
<1>8. \A i \in DOMAIN r : r[i] \in Answers
  BY <1>1
<1>9. \A i \in DOMAIN r : r[i] \in AnswersIn(q)
  BY <1>1 DEF AnswersIn
<1>10. 1 \in DOMAIN r /\ Len(r) \in DOMAIN r
  BY <1>6, <1>7
<1> QED
  BY <1>1, <1>6, <1>7, <1>8, <1>9, <1>10

Honest(mode, q, out) ==
    /\ out \in Outputs /\ IsIncreasing(out)
    /\ AnswersIn(out) \subseteq {a \in AnswersIn(q) : IsSaid(a)}
    /\ mode = "context_split" => AnswersIn(out) = {a \in AnswersIn(q) : IsSaid(a)}

LEMMA RaceFacts ==
  ASSUME NEW q, Dict(q), q # <<>>
  PROVE  /\ Honest("parallel_sample", q, RaceOutput(q))
         /\ Len(q) = 1 /\ RaceOutput(q) = <<>> => \A a \in AnswersIn(q) : ~ IsSaid(a)
<1> DEFINE r == Sorted(q, ShardsOf(q))
<1>1. r[1] \in Answers /\ r[1] \in AnswersIn(q)
  BY AllSorted
<1>2. RaceOutput(q) = Stripped(r[1])
  BY DEF RaceOutput
<1> HIDE DEF r
<1>3. Honest("parallel_sample", q, RaceOutput(q))
  BY <1>1, <1>2, StrippedFacts DEF Honest
<1>4. ASSUME Len(q) = 1, RaceOutput(q) = <<>>, NEW a \in AnswersIn(q) PROVE ~ IsSaid(a)
  <2>1. q \in Seq(Answers)
    BY DEF Dict, Outputs
  <2>2. DOMAIN q = {1}
    BY <1>4, <2>1
  <2>3. a = q[1] /\ r[1] = q[1]
    BY <1>1, <2>2 DEF AnswersIn
  <2> QED
    BY <1>1, <1>2, <1>4, <2>3, StrippedFacts
<1> QED
  BY <1>3, <1>4

LEMMA SplitFacts ==
  ASSUME NEW q, Dict(q)
  PROVE  Honest("context_split", q, SplitOutput(q))
<1> DEFINE S == {s \in ShardsOf(q) : IsSaid(Of(q, s))}
<1>1. /\ SplitOutput(q) \in Outputs /\ IsIncreasing(SplitOutput(q))
      /\ AnswersIn(SplitOutput(q)) = {Of(q, s) : s \in S}
  BY SortedFacts DEF SplitOutput
<1>2. {Of(q, s) : s \in S} = {a \in AnswersIn(q) : IsSaid(a)}
  BY OfFacts
<1> QED
  BY <1>1, <1>2 DEF Honest

LEMMA SpeculativeFacts ==
  ASSUME NEW q, Dict(q), q # <<>>
  PROVE  /\ Honest("speculative", q, SpeculativeOutput(q))
         /\ ShardsOf(q) \subseteq {0, 1} /\ SpeculativeOutput(q) = <<>>
               => \A a \in AnswersIn(q) : ~ IsSaid(a)
<1> DEFINE r == Sorted(q, ShardsOf(q))
<1>1. /\ r \in Seq(Answers) /\ IsIncreasing(r) /\ AnswersIn(r) = AnswersIn(q)
      /\ Len(r) \in Nat \ {0} /\ DOMAIN r = 1 .. Len(r) /\ 1 \in DOMAIN r
      /\ \A k \in DOMAIN r : r[k] \in Answers /\ r[k] \in AnswersIn(q)
  BY AllSorted
<1>2. SpeculativeOutput(q) = IF Len(r) > 1 /\ IsSaid(r[2]) THEN <<r[2]>> ELSE Stripped(r[1])
  BY DEF SpeculativeOutput
<1>3. Len(r) > 1 => 2 \in DOMAIN r
  BY <1>1
<1> HIDE DEF r
<1>4. CASE Len(r) > 1 /\ IsSaid(r[2])
  <2>1. SpeculativeOutput(q) = Stripped(r[2]) /\ r[2] \in Answers /\ r[2] \in AnswersIn(q)
    BY <1>1, <1>2, <1>3, <1>4 DEF Stripped
  <2>2. SpeculativeOutput(q) # <<>>
    BY <1>4, <2>1, StrippedFacts
  <2> QED
    BY <2>1, <2>2, StrippedFacts DEF Honest
<1>5. CASE ~ (Len(r) > 1 /\ IsSaid(r[2]))
  <2>1. SpeculativeOutput(q) = Stripped(r[1]) /\ r[1] \in Answers /\ r[1] \in AnswersIn(q)
    BY <1>1, <1>2, <1>5
  <2>2. Honest("speculative", q, SpeculativeOutput(q))
    BY <2>1, StrippedFacts DEF Honest
  <2>3. ASSUME ShardsOf(q) \subseteq {0, 1}, SpeculativeOutput(q) = <<>>, NEW a \in AnswersIn(q)
        PROVE  ~ IsSaid(a)
    <3>1. PICK k \in DOMAIN r : a = r[k]
      BY <1>1 DEF AnswersIn
    <3>2. \A i \in DOMAIN r : r[i].shard \in {0, 1}
      <4>1. \A b \in AnswersIn(q) : b.shard \in ShardsOf(q)
        BY DEF AnswersIn, ShardsOf
      <4> QED
        BY <1>1, <2>3, <4>1
    <3>3. k = 1 \/ k = 2
      <4> SUFFICES ASSUME k # 1, k # 2 PROVE FALSE
        OBVIOUS
      <4>1. 1 \in DOMAIN r /\ 2 \in DOMAIN r /\ 1 < 2 /\ 2 < k
        BY <1>1, <3>1
      <4>2. r[1].shard < r[2].shard /\ r[2].shard < r[k].shard
        BY <1>1, <3>1, <4>1 DEF IsIncreasing
      <4>3. r[1].shard \in {0, 1} /\ r[2].shard \in {0, 1} /\ r[k].shard \in {0, 1}
        BY <3>1, <3>2, <4>1
      <4> QED
        BY <4>2, <4>3
    <3>4. ~ IsSaid(r[1])
      BY <2>1, <2>3, StrippedFacts
    <3>5. k = 2 => ~ IsSaid(r[2])
      BY <1>1, <1>5, <3>1
    <3> QED
      BY <3>1, <3>3, <3>4, <3>5
  <2> QED
    BY <2>2, <2>3
<1> QED
  BY <1>4, <1>5

LEMMA PipelineFacts ==
  ASSUME NEW q, Dict(q)
  PROVE  /\ Honest("pipeline_parallel", q, PipelineOutput(q))
         /\ 0 \in ShardsOf(q) /\ Of(q, 0).kind # "placeholder"
               => \A a \in AnswersIn(PipelineOutput(q)) : a = Of(q, 0)
<1> DEFINE S    == {s \in ShardsOf(q) : Of(q, s).kind # "placeholder"}
           real == Sorted(q, S)
<1>1. real \in Seq(Answers) /\ IsIncreasing(real) /\ AnswersIn(real) = {Of(q, s) : s \in S}
  BY SortedFacts DEF Outputs
<1>2. PipelineOutput(q) = IF real = <<>> THEN <<>> ELSE Stripped(real[1])
  BY DEF PipelineOutput
<1>3. \A s \in S : s \in Shards /\ Of(q, s) \in AnswersIn(q) /\ Of(q, s).shard = s
  BY OfFacts
<1>4. \A s \in S : s \in Nat
  BY <1>3, AskedAssumption DEF Shards
<1> HIDE DEF real
<1>5. CASE real = <<>>
  <2>1. PipelineOutput(q) = <<>> /\ DOMAIN <<>> = {} /\ <<>> \in Seq(Answers)
    BY <1>2, <1>5
  <2>2. AnswersIn(PipelineOutput(q)) = {} /\ IsIncreasing(PipelineOutput(q))
    BY <2>1 DEF AnswersIn, IsIncreasing
  <2> QED
    BY <2>1, <2>2 DEF Honest, Outputs
<1>6. CASE real # <<>>
  <2>1. 1 \in DOMAIN real /\ DOMAIN real = 1 .. Len(real) /\ Len(real) \in Nat
    BY <1>1, <1>6
  <2>2. real[1] \in Answers /\ real[1] \in {Of(q, s) : s \in S}
    <3>1. real[1] \in AnswersIn(real)
      BY <2>1 DEF AnswersIn
    <3> HIDE DEF S
    <3> QED
      BY <1>1, <2>1, <3>1
  <2>3. real[1] \in AnswersIn(q)
    BY <1>3, <2>2
  <2>4. PipelineOutput(q) = Stripped(real[1])
    BY <1>2, <1>6
  <2>5. Honest("pipeline_parallel", q, PipelineOutput(q))
    BY <2>2, <2>3, <2>4, StrippedFacts DEF Honest
  <2>6. ASSUME 0 \in S PROVE real[1] = Of(q, 0)
    <3>1. Of(q, 0) \in AnswersIn(real)
      BY <1>1, <2>6
    <3>2. PICK k \in DOMAIN real : Of(q, 0) = real[k]
      BY <3>1 DEF AnswersIn
    <3>3. real[k].shard = 0
      BY <1>3, <2>6, <3>2
    <3>4. real[1].shard \in Nat
      BY <1>3, <1>4, <2>2
    <3>5. k = 1
      <4> SUFFICES ASSUME k # 1 PROVE FALSE
        OBVIOUS
      <4>1. 1 < k
        BY <2>1, <3>2
      <4>2. real[1].shard < real[k].shard
        BY <1>1, <2>1, <3>2, <4>1 DEF IsIncreasing
      <4> QED
        BY <3>3, <3>4, <4>2
    <3> QED
      BY <3>2, <3>5
  <2>7. \A a \in AnswersIn(PipelineOutput(q)) : a = real[1]
    BY <2>2, <2>4, StrippedFacts
  <2> QED
    BY <2>5, <2>6, <2>7
<1> QED
  BY <1>5, <1>6

LEMMA AssembledFacts ==
  ASSUME NEW q, Dict(q), q # <<>>, NEW mode \in Modes
  PROVE  Honest(mode, q, Assembled(mode, q))
<1>1. CASE mode = "context_split"
  BY <1>1, SplitFacts DEF Assembled
<1>2. CASE mode = "speculative"
  BY <1>2, SpeculativeFacts DEF Assembled
<1>3. CASE mode = "pipeline_parallel"
  BY <1>3, PipelineFacts DEF Assembled
<1>4. CASE mode = "parallel_sample"
  BY <1>4, RaceFacts DEF Assembled
<1> QED
  BY <1>1, <1>2, <1>3, <1>4 DEF Modes

(* Jobs: one lemma for what each step makes of a JobState.                 *)
LEMMA RequestFacts ==
  ASSUME NEW asked \in Requests, NEW n \in ProtoShards(asked)
  PROVE  /\ ProtoMode(asked) \in Modes /\ n \in Nat \ {0}
         /\ ProtoMode(asked) = "speculative" => n = 2
         /\ asked.n <= NShards /\ ProtoMode(asked) = "pipeline_parallel" => n <= NShards
<1>1. asked.n \in Nat \ {0} /\ asked.mode \in Modes
  BY DEF Requests
<1>2. ProtoMode(asked) \in Modes
  BY <1>1 DEF ProtoMode, Modes
<1>3. CASE ProtoMode(asked) = "speculative"
  BY <1>2, <1>3 DEF ProtoShards
<1>4. CASE ProtoMode(asked) = "pipeline_parallel"
  BY <1>1, <1>2, <1>4, AskedAssumption DEF ProtoShards
<1>5. CASE ProtoMode(asked) \notin {"speculative", "pipeline_parallel"}
  BY <1>1, <1>2, <1>5 DEF ProtoShards
<1> QED
  BY <1>2, <1>3, <1>4, <1>5

LEMMA SlicesType ==
  ASSUME NEW mode, NEW len \in Nat, NEW n \in Nat \ {0}
  PROVE  Slices(mode, len, n) \in Seq(Nat \X Nat) /\ DOMAIN Slices(mode, len, n) = 1 .. n
<1>1. CASE mode = "context_split"
  BY <1>1, SplitCovers DEF Slices
<1>2. CASE mode = "pipeline_parallel"
  <2> DEFINE q == [k \in 1 .. n |-> IF k = 1 THEN <<0, len>> ELSE <<0, 0>>]
  <2>1. q \in [1 .. n -> Nat \X Nat]
    OBVIOUS
  <2>2. q \in Seq(Nat \X Nat) /\ DOMAIN q = 1 .. n
    BY <2>1
  <2>3. Slices(mode, len, n) = q
    BY <1>2 DEF Slices
  <2> QED
    BY <2>2, <2>3
<1>3. CASE mode \notin {"context_split", "pipeline_parallel"}
  <2> DEFINE q == [k \in 1 .. n |-> <<0, len>>]
  <2>1. q \in [1 .. n -> Nat \X Nat]
    OBVIOUS
  <2>2. q \in Seq(Nat \X Nat) /\ DOMAIN q = 1 .. n
    BY <2>1
  <2>3. Slices(mode, len, n) = q
    BY <1>3 DEF Slices
  <2> QED
    BY <2>2, <2>3
<1> QED
  BY <1>1, <1>2, <1>3

LEMMA EmptyFacts == <<>> \in Outputs /\ Dict(<<>>) /\ NoText \notin Outputs /\ DOMAIN <<>> = {} /\ Len(<<>>) = 0
<1>1. <<>> \in Outputs /\ DOMAIN <<>> = {} /\ Len(<<>>) = 0
  BY DEF Outputs
<1> QED
  BY <1>1, NoTextAssumption DEF Dict, Outputs

LEMMA NoSpecsOK ==
  ASSUME NEW asked \in Requests, asked.n <= NShards, NEW r,
         r.told = <<>>, r.said = <<>>, r.workers = {}, r.final = NoText
  PROVE  IsJobOf(r, asked)
BY EmptyFacts DEF IsJobOf, ToldSlices

LEMMA NoJobFacts ==
  /\ NoJob \in JobRec /\ NoJob.final = NoText /\ NoJob.said = <<>> /\ NoJob.told = <<>>
  /\ NoJob.workers = {} /\ NoJob.known = FALSE
  /\ \A d \in Dispatches : /\ [NoJob EXCEPT !.known = TRUE, !.by = d] \in JobRec
                           /\ [NoJob EXCEPT !.known = TRUE, !.by = d].final = NoText
                           /\ [NoJob EXCEPT !.known = TRUE, !.by = d].said = <<>>
                           /\ [NoJob EXCEPT !.known = TRUE, !.by = d].told = <<>>
                           /\ [NoJob EXCEPT !.known = TRUE, !.by = d].workers = {}
<1>1. 1 \in Dispatches
  BY StepsAssumption DEF Dispatches
<1>2. <<>> \in Seq(Nat \X Nat)
  OBVIOUS
<1> QED
  BY <1>1, <1>2, EmptyFacts DEF NoJob, JobRec

LEMMA DispatchedOK ==
  ASSUME NEW asked \in Requests, asked.n <= NShards, NEW n \in ProtoShards(asked),
         NEW d \in Dispatches, NEW len \in {0} \cup Lengths,
         NEW r, r = [known |-> TRUE, by |-> d, len |-> len,
                     told |-> Slices(ProtoMode(asked), len, n),
                     workers |-> IF ProtoMode(asked) = "pipeline_parallel" THEN 1 .. (n - 1) ELSE {},
                     said |-> <<>>, final |-> NoText]
  PROVE  r \in JobRec /\ IsJobOf(r, asked)
<1>1. n \in Nat \ {0} /\ len \in Nat
  BY RequestFacts, TextAssumption
<1>2. Slices(ProtoMode(asked), len, n) \in Seq(Nat \X Nat)
  BY <1>1, SlicesType
<1>3. r.workers \in SUBSET Shards /\ 0 \notin r.workers
  <2>1. CASE ProtoMode(asked) = "pipeline_parallel"
    <3>1. n <= NShards /\ NShards \in Nat
      BY <2>1, RequestFacts, AskedAssumption
    <3>2. r.workers = 1 .. (n - 1)
      BY <2>1
    <3> QED
      BY <1>1, <3>1, <3>2 DEF Shards
  <2>2. CASE ProtoMode(asked) # "pipeline_parallel"
    BY <2>2
  <2> QED
    BY <2>1, <2>2
<1>4. r \in JobRec
  BY <1>2, <1>3, EmptyFacts DEF JobRec
<1>5. ToldSlices(r, asked)
  BY DEF ToldSlices
<1>6. r.workers # {} => ProtoMode(asked) = "pipeline_parallel"
  OBVIOUS
<1>7. r.said = <<>> /\ r.final = NoText /\ r.known
  OBVIOUS
<1> QED
  BY <1>3, <1>4, <1>5, <1>6, <1>7, EmptyFacts DEF IsJobOf

LEMMA ReassignedOK ==
  ASSUME NEW asked, NEW r \in JobRec, IsJobOf(r, asked), NEW s,
         NEW t, t = [r EXCEPT !.workers = r.workers \ {s}]
  PROVE  t \in JobRec /\ IsJobOf(t, asked)
<1>1. t \in JobRec
  BY DEF JobRec
<1>2. /\ t.said = r.said /\ t.final = r.final /\ t.told = r.told /\ t.len = r.len
      /\ t.known = r.known /\ t.workers = r.workers \ {s}
  BY DEF JobRec
<1>3. \A a : Plausible(t, ProtoMode(asked), a) <=> Plausible(r, ProtoMode(asked), a)
  BY <1>2 DEF Plausible
<1>4. IsAssembled(t, ProtoMode(asked)) <=> IsAssembled(r, ProtoMode(asked))
  BY <1>2 DEF IsAssembled
<1>5. ToldSlices(t, asked)
  BY <1>2 DEF ToldSlices, IsJobOf
<1> QED
  BY <1>1, <1>2, <1>3, <1>4, <1>5 DEF IsJobOf

(* An answer that is heard, before the outcome is looked at.               *)
LEMMA HeardFacts ==
  ASSUME NEW asked \in Requests, NEW r \in JobRec, IsJobOf(r, asked), r.final = NoText,
         NEW s \in Shards, s + 1 \in DOMAIN r.told,
         NEW kind, kind \in (IF s \in r.workers THEN {"placeholder"} ELSE Says),
         NEW a, a = [shard |-> s, by |-> r.by, kind |-> kind], NEW said, said = Put(r.said, a)
  PROVE  /\ said \in Outputs /\ said # <<>> /\ Dict(said)
         /\ \A k \in DOMAIN said : Plausible(r, ProtoMode(asked), said[k])
         /\ ProtoMode(asked) = "parallel_sample" => Len(said) = 1
         /\ r.known
<1>1. a \in Answers
  BY SaysAssumption DEF Answers, Kinds, JobRec
<1>2. r.said \in Outputs /\ Dict(r.said)
  BY DEF JobRec, IsJobOf
<1>3. said \in Outputs /\ said # <<>> /\ Dict(said)
  BY <1>1, <1>2, PutFacts
<1>4. Plausible(r, ProtoMode(asked), a)
  <2>1. CASE s \in r.workers
    BY <2>1 DEF Plausible, IsJobOf
  <2>2. CASE s \notin r.workers
    BY <2>2, SaysAssumption DEF Plausible
  <2> QED
    BY <2>1, <2>2
<1>5. \A k \in DOMAIN said : Plausible(r, ProtoMode(asked), said[k])
  BY <1>1, <1>2, <1>4, PutFacts DEF IsJobOf
<1>6. ASSUME ProtoMode(asked) = "parallel_sample" PROVE Len(said) = 1
  <2>1. r.said \in Seq(Answers) /\ Len(r.said) = 0
    BY <1>2, <1>6 DEF IsJobOf, Outputs
  <2>2. r.said = <<>>
    BY <2>1
  <2> QED
    BY <1>1, <1>2, <2>2, PutFacts
<1>7. r.known
  <2> SUFFICES ASSUME ~ r.known PROVE FALSE
    OBVIOUS
  <2>1. r.told = <<>>
    BY DEF IsJobOf
  <2> QED
    BY <2>1, EmptyFacts
<1> QED
  BY <1>3, <1>5, <1>6, <1>7

LEMMA HeardOK ==
  ASSUME NEW asked \in Requests, NEW r \in JobRec, IsJobOf(r, asked), r.final = NoText,
         NEW said, said \in Outputs /\ said # <<>> /\ Dict(said),
         \A k \in DOMAIN said : Plausible(r, ProtoMode(asked), said[k]),
         ProtoMode(asked) = "parallel_sample" => Len(said) = 1,
         r.known
  PROVE  /\ Ready(ProtoMode(asked), Len(r.told), said)
              => LET t == [r EXCEPT !.said = said, !.final = Assembled(ProtoMode(asked), said)]
                 IN  t \in JobRec /\ IsJobOf(t, asked) /\ t.final \in Outputs
         /\ ~ Ready(ProtoMode(asked), Len(r.told), said)
              => LET t == [r EXCEPT !.said = said]
                 IN  t \in JobRec /\ IsJobOf(t, asked)
<1> DEFINE mode == ProtoMode(asked)
<1>0. mode \in Modes
  BY DEF ProtoMode, Requests, Modes
<1>1. ASSUME Ready(mode, Len(r.told), said), NEW t,
             t = [r EXCEPT !.said = said, !.final = Assembled(mode, said)]
      PROVE  t \in JobRec /\ IsJobOf(t, asked) /\ t.final \in Outputs
  <2>1. Assembled(mode, said) \in Outputs
    BY <1>0, AssembledFacts DEF Honest
  <2>2. t \in JobRec
    BY <1>1, <2>1 DEF JobRec
  <2>3. /\ t.said = said /\ t.final = Assembled(mode, said) /\ t.told = r.told /\ t.len = r.len
        /\ t.known = r.known /\ t.workers = r.workers
    BY <1>1 DEF JobRec
  <2>4. \A b : Plausible(t, mode, b) <=> Plausible(r, mode, b)
    BY <2>3 DEF Plausible
  <2>5. IsAssembled(t, mode)
    BY <1>1, <2>3 DEF IsAssembled
  <2>6. ToldSlices(t, asked)
    BY <2>3 DEF ToldSlices, IsJobOf
  <2>7. t.final # NoText
    BY <2>1, <2>3, EmptyFacts
  <2> HIDE DEF mode
  <2> QED
    BY <2>1, <2>2, <2>3, <2>4, <2>5, <2>6, <2>7 DEF IsJobOf, mode
<1>2. ASSUME ~ Ready(mode, Len(r.told), said), NEW t, t = [r EXCEPT !.said = said]
      PROVE  t \in JobRec /\ IsJobOf(t, asked)
  <2>1. t \in JobRec
    BY <1>2 DEF JobRec
  <2>2. /\ t.said = said /\ t.final = NoText /\ t.told = r.told /\ t.len = r.len
        /\ t.known = r.known /\ t.workers = r.workers
    BY <1>2 DEF JobRec
  <2>3. \A b : Plausible(t, mode, b) <=> Plausible(r, mode, b)
    BY <2>2 DEF Plausible
  <2>4. ToldSlices(t, asked)
    BY <2>2 DEF ToldSlices, IsJobOf
  <2>5. mode # "parallel_sample"
    BY <1>2 DEF Ready
  <2> HIDE DEF mode
  <2> QED
    BY <2>1, <2>2, <2>3, <2>4, <2>5 DEF IsJobOf, mode
<1> QED
  BY <1>1, <1>2

Fresh(j) == chain[j].status \in {"none", "posted", "waiting"}

LEMMA OneIsFirst == 1 \in Dispatches /\ \A d \in Dispatches : 1 <= d
  BY StepsAssumption DEF Dispatches

LEMMA NewTaskType == NewTask \in TaskRec /\ NewTask.read = NoText /\ NewTask.pc = "idle"
  BY DEF NewTask, TaskRec

LEMMA NewChainType ==
  /\ NewChainJob \in ChainRec /\ NewChainJob.status = "none" /\ NewChainJob.asked \in Requests
  /\ NewChainJob.asked.n <= NShards /\ Dict(NewChainJob.results)
<1>1. NewChainJob.asked = [mode |-> "parallel_sample", n |-> 1]
  BY DEF NewChainJob
<1>2. NewChainJob.asked \in Requests
  BY <1>1 DEF Requests, Modes
<1> QED
  BY <1>1, <1>2, EmptyFacts, AskedAssumption DEF NewChainJob, ChainRec

LEMMA TextsStart == TextsInit => TextsInv
<1> SUFFICES ASSUME TextsInit PROVE TextsInv
  OBVIOUS
<1>1. \A j \in Jobs : /\ chain[j] = NewChainJob /\ commits[j] = <<>> /\ job[j] = NoJob
                      /\ \A d \in Dispatches : task[j][d] = NewTask
  BY DEF TextsInit
<1>2. TextsTypeOK
  <2>1. chain \in [Jobs -> ChainRec] /\ job \in [Jobs -> JobRec]
    BY NewChainType, NoJobFacts DEF TextsInit
  <2>2. task \in [Jobs -> [Dispatches -> TaskRec]]
    BY NewTaskType DEF TextsInit
  <2>3. commits \in [Jobs -> Seq(CommitRec)]
    BY DEF TextsInit
  <2> QED
    BY <2>1, <2>2, <2>3 DEF TextsTypeOK
<1>3. \A j \in Jobs : IsJobOf(job[j], chain[j].asked) /\ Dict(chain[j].results)
  <2>1. ASSUME NEW j \in Jobs PROVE IsJobOf(NoJob, NewChainJob.asked) /\ Dict(NewChainJob.results)
    BY NewChainType, NoJobFacts, NoSpecsOK
  <2> QED
    BY <1>1, <2>1
<1>4. StartsFresh /\ PostedTogether
  BY <1>1, NewChainType DEF StartsFresh, PostedTogether, Untouched
<1>5. OneOutput
  BY <1>1, NoJobFacts, EmptyFacts DEF OneOutput
<1>6. ChildrenRead
  BY <1>1, NewChainType, NewTaskType DEF ChildrenRead, Child
<1> QED
  BY <1>2, <1>3, <1>4, <1>5, <1>6 DEF TextsInv, JobsInv

(* Dispatch tasks that are started.                                        *)
LEMMA TasksStart ==
  ASSUME NEW J, task \in [Jobs -> [Dispatches -> TaskRec]], StartTasks(J)
  PROVE  /\ task' \in [Jobs -> [Dispatches -> TaskRec]]
         /\ \A j \in Jobs : j \notin J => task'[j] = task[j]
         /\ \A j \in Jobs : j \in J => task'[j][1].pc # "idle"
         /\ \A j \in Jobs, d \in Dispatches :
               /\ task'[j][d].read = task[j][d].read
               /\ task[j][d].pc # "idle" => task'[j][d] = task[j][d]
<1> DEFINE after(j, d) == IF j \in J /\ IsFirst(j, d) THEN [task[j][d] EXCEPT !.pc = "started"] ELSE task[j][d]
<1>1. task' = [j \in Jobs |-> [d \in Dispatches |-> after(j, d)]]
  BY DEF StartTasks
<1>2. ASSUME NEW j \in Jobs, NEW d \in Dispatches
      PROVE  /\ after(j, d) \in TaskRec /\ after(j, d).read = task[j][d].read
             /\ task[j][d].pc # "idle" => after(j, d) = task[j][d]
             /\ j \in J /\ IsFirst(j, d) => after(j, d).pc = "started"
  <2>1. task[j][d] \in TaskRec
    OBVIOUS
  <2>2. IsFirst(j, d) => task[j][d].pc = "idle"
    BY DEF IsFirst, FreeSlots
  <2> QED
    BY <2>1, <2>2 DEF TaskRec
<1>3. task' \in [Jobs -> [Dispatches -> TaskRec]]
  BY <1>1, <1>2
<1>4. ASSUME NEW j \in Jobs, j \notin J PROVE task'[j] = task[j]
  <2>1. \A d \in Dispatches : after(j, d) = task[j][d]
    BY <1>4
  <2>2. task'[j] = [d \in Dispatches |-> after(j, d)]
    BY <1>1
  <2>3. task'[j] = [d \in Dispatches |-> task[j][d]]
    BY <2>1, <2>2
  <2>4. task[j] = [d \in Dispatches |-> task[j][d]]
    OBVIOUS
  <2> QED
    BY <2>3, <2>4
<1>5. ASSUME NEW j \in Jobs, j \in J PROVE task'[j][1].pc # "idle"
  <2>1. CASE task[j][1].pc = "idle"
    <3>1. IsFirst(j, 1)
      BY <2>1, OneIsFirst DEF IsFirst, FreeSlots
    <3>2. after(j, 1).pc = "started"
      BY <1>2, <1>5, <3>1, OneIsFirst
    <3> QED
      BY <1>1, <3>2, OneIsFirst
  <2>2. CASE task[j][1].pc # "idle"
    <3>1. after(j, 1) = task[j][1]
      BY <1>2, <2>2, OneIsFirst
    <3> QED
      BY <1>1, <2>2, <3>1, OneIsFirst
  <2> QED
    BY <2>1, <2>2
<1>6. ASSUME NEW j \in Jobs, NEW d \in Dispatches PROVE task'[j][d] = after(j, d)
  BY <1>1
<1> HIDE DEF after
<1> QED
  BY <1>2, <1>3, <1>4, <1>5, <1>6

(* A job dispatched once after a step was so before it.                    *)
LEMMA OnceBefore ==
  ASSUME NEW p \in Jobs,
         \A d \in Dispatches : task[p][d].pc # "idle" => task'[p][d].pc # "idle",
         DispatchedOnce(p)'
  PROVE  DispatchedOnce(p)
BY DEF DispatchedOnce

(* What is enough for the steps that leave the chain alone.                *)
LEMMA FreshSame ==
  ASSUME StartsFresh, PostedTogether, chain' = chain,
         \A j \in Jobs : Fresh(j) => job'[j] = job[j] /\ commits'[j] = commits[j] /\ task'[j] = task[j],
         \A j \in Jobs : task[j][1].pc # "idle" => task'[j][1].pc # "idle"
  PROVE  StartsFresh' /\ PostedTogether'
<1>1. PostedTogether'
  BY DEF PostedTogether
<1>2. ASSUME NEW j \in Jobs
      PROVE  IF chain'[j].status \in {"none", "posted", "waiting"} THEN Untouched(j)'
             ELSE task'[j][1].pc # "idle"
  BY DEF StartsFresh, Untouched, Fresh
<1> QED
  BY <1>1, <1>2 DEF StartsFresh

(* What children read is still true after a step.                          *)
LEMMA ChildrenStep ==
  ASSUME ChildrenRead,
         \A p \in Jobs : DispatchedOnce(p)' => DispatchedOnce(p),
         \A p \in Jobs : DispatchedOnce(p)' /\ job[p].final # NoText => job'[p].final = job[p].final,
         \A j, p \in Jobs : Child(j, p) => Child(j, p)',
         \A j, p \in Jobs : Child(j, p)' =>
            \/ Child(j, p) /\ chain'[j].read = chain[j].read
            \/ DispatchedOnce(p) => job[p].final # NoText /\ chain'[j].read = job[p].final,
         \A j \in Jobs, d \in Dispatches : task'[j][d].read # NoText =>
            \/ task'[j][d].read = task[j][d].read
            \/ \E p \in Jobs : /\ Child(j, p)
                               /\ DispatchedOnce(p) => /\ job[p].final # NoText
                                                       /\ task'[j][d].read = job[p].final
  PROVE  ChildrenRead'
<1>1. ASSUME NEW j \in Jobs, NEW p \in Jobs, Child(j, p)', DispatchedOnce(p)'
      PROVE  job'[p].final # NoText /\ chain'[j].read = job'[p].final
  BY <1>1 DEF ChildrenRead, Reads
<1>2. ASSUME NEW j \in Jobs, NEW d \in Dispatches, task'[j][d].read # NoText
      PROVE  \E p \in Jobs : /\ Child(j, p)'
                             /\ DispatchedOnce(p)' => /\ job'[p].final # NoText
                                                      /\ task'[j][d].read = job'[p].final
  <2>1. PICK p \in Jobs : /\ Child(j, p)
                          /\ DispatchedOnce(p) => /\ job[p].final # NoText
                                                  /\ task'[j][d].read = job[p].final
    BY <1>2 DEF ChildrenRead, Reads
  <2> QED
    BY <2>1
<1> QED
  BY <1>1, <1>2 DEF ChildrenRead, Reads
-----------------------------------------------------------------------------
LEMMA PostChainStep ==
  ASSUME TextsInv, NEW asked \in [Jobs -> UNION {Asked[j] : j \in Jobs}], NEW accepted \in SUBSET Jobs,
         \A j \in Jobs : asked[j] \in Asked[j], PostChain(asked, accepted)
  PROVE  TextsInv'
<1> DEFINE after(j) == IF j \in accepted
                       THEN [chain[j] EXCEPT !.status = "posted", !.asked = asked[j],
                                             !.parent = IF j - 1 \in accepted THEN j - 1 ELSE 0]
                       ELSE chain[j]
<1>1. /\ chain' = [j \in Jobs |-> after(j)] /\ UNCHANGED <<commits, task, job>>
      /\ \A j \in Jobs : chain[j].status = "none"
  BY DEF PostChain
<1>2. ASSUME NEW j \in Jobs PROVE asked[j] \in Requests /\ asked[j].n <= NShards
  BY AskedAssumption
<1>3. ASSUME NEW j \in Jobs
      PROVE  /\ after(j) \in ChainRec /\ after(j).status \in {"none", "posted"}
             /\ after(j).asked \in Requests /\ after(j).asked.n <= NShards
             /\ after(j).results = chain[j].results
  <2>1. chain[j] \in ChainRec /\ chain[j].asked.n <= NShards
    BY DEF TextsInv, JobsInv, TextsTypeOK, IsJobOf
  <2>2. (IF j - 1 \in accepted THEN j - 1 ELSE 0) \in {0} \cup Jobs
    OBVIOUS
  <2>3. CASE j \in accepted
    BY <1>2, <2>1, <2>2, <2>3 DEF ChainRec
  <2>4. CASE j \notin accepted
    BY <1>1, <2>1, <2>4 DEF ChainRec
  <2> QED
    BY <2>3, <2>4
<1>4. \A j \in Jobs : chain'[j] = after(j)
  BY <1>1
<1> HIDE DEF after
<1>5. TextsTypeOK'
  <2>1. chain' \in [Jobs -> ChainRec]
    BY <1>1, <1>3
  <2> QED
    BY <1>1, <2>1 DEF TextsInv, JobsInv, TextsTypeOK
<1>6. \A j \in Jobs : Untouched(j)
  BY <1>1 DEF TextsInv, StartsFresh
<1>7. \A j \in Jobs : IsJobOf(job'[j], chain'[j].asked) /\ Dict(chain'[j].results)
  BY <1>1, <1>3, <1>4, <1>6, NoSpecsOK, NoJobFacts DEF Untouched, TextsInv, JobsInv
<1>8. StartsFresh' /\ PostedTogether'
  <2>1. \A j \in Jobs : chain'[j].status \in {"none", "posted"} /\ Untouched(j)'
    BY <1>1, <1>3, <1>4, <1>6 DEF Untouched
  <2> QED
    BY <2>1 DEF StartsFresh, PostedTogether
<1>9. OneOutput'
  BY <1>1 DEF TextsInv, OneOutput, DispatchedOnce
<1>10. ChildrenRead'
  <2>1. \A j \in Jobs : chain'[j].status \notin {"pending", "complete"}
    BY <1>3, <1>4
  <2>2. \A j \in Jobs, d \in Dispatches : task'[j][d].read = NoText
    BY <1>1, <1>6, NewTaskType DEF Untouched
  <2> QED
    BY <2>1, <2>2 DEF ChildrenRead, Child
<1> QED
  BY <1>5, <1>7, <1>8, <1>9, <1>10 DEF TextsInv, JobsInv

(* The results on the chain, one commit after the other.                   *)
AppliedAre(j, n, f) ==
    f = [k \in 0 .. n |-> IF k = 0 THEN chain[j].results ELSE Put(f[k - 1], commits[j][k].answer)]

LEMMA AppliedType ==
  ASSUME NEW j, Dict(chain[j].results), commits[j] \in Seq(CommitRec)
  PROVE  Dict(Applied(j, Len(commits[j])))
<1> DEFINE Dicts == {q \in Outputs : Dict(q)}
           n == Len(commits[j])
           step == [k \in Nat |-> [x \in Dicts |->
                      IF k \in 1 .. n THEN Put(x, commits[j][k].answer) ELSE x]]
<1>1. n \in Nat /\ \A k \in 1 .. n : commits[j][k].answer \in Answers
  <2>1. n \in Nat /\ \A k \in 1 .. n : commits[j][k] \in CommitRec
    OBVIOUS
  <2> HIDE DEF n
  <2> QED
    BY <2>1 DEF CommitRec
<1>13. \A q : q \in Dicts <=> Dict(q)
  BY DEF Dict
<1> HIDE DEF Dicts
<1> HIDE DEF n
<1>2. \A x \in Dicts, k \in 1 .. n : Put(x, commits[j][k].answer) \in Dicts
  BY <1>1, <1>13, PutFacts DEF Dict
<1>3. step \in [Nat -> [Dicts -> Dicts]]
  BY <1>2
<1>4. PICK f \in [0 .. n -> Dicts] :
         f[0] = chain[j].results /\ \A i \in 1 .. n : f[i] = step[i][f[i - 1]]
  <2> HIDE DEF step
  <2>1. Recurses(Dicts, chain[j].results, step)
    BY <1>3, <1>13, RecursionExists
  <2> QED
    BY <1>1, <2>1 DEF Recurses
<1>5. AppliedAre(j, n, f)
  <2>1. \A k \in 0 .. n :
           f[k] = IF k = 0 THEN chain[j].results ELSE Put(f[k - 1], commits[j][k].answer)
    <3> TAKE k \in 0 .. n
    <3>1. CASE k = 0
      BY <1>4, <3>1
    <3>2. CASE k # 0
      <4>1. k \in 1 .. n /\ k \in Nat /\ k - 1 \in 0 .. n
        BY <1>1, <3>2
      <4>2. f[k - 1] \in Dicts
        BY <4>1
      <4>3. f[k] = step[k][f[k - 1]]
        BY <1>4, <4>1
      <4> QED
        BY <3>2, <4>1, <4>2, <4>3
    <3> QED
      BY <3>1, <3>2
  <2> QED
    BY <2>1 DEF AppliedAre
<1> DEFINE g == CHOOSE h : AppliedAre(j, n, h)
<1>6. AppliedAre(j, n, g)
  BY <1>5
<1>7. Applied(j, n) = g[n]
  BY DEF Applied, AppliedAre
<1> HIDE DEF g, step
<1>8. \A k \in 0 .. n :
         g[k] = IF k = 0 THEN chain[j].results ELSE Put(g[k - 1], commits[j][k].answer)
  BY <1>6 DEF AppliedAre
<1> DEFINE N == {k \in Nat : k <= n => g[k] \in Dicts}
<1>9. 0 \in N
  BY <1>1, <1>8, <1>13
<1>10. ASSUME NEW k \in Nat, k \in N PROVE k + 1 \in N
  <2> SUFFICES ASSUME k + 1 <= n PROVE g[k + 1] \in Dicts
    OBVIOUS
  <2>1. k + 1 \in 1 .. n /\ k + 1 \in 0 .. n /\ k + 1 # 0 /\ (k + 1) - 1 = k /\ k <= n
    BY <1>1
  <2>2. g[k] \in Dicts
    BY <1>10, <2>1
  <2>3. g[k + 1] = Put(g[k], commits[j][k + 1].answer)
    BY <1>8, <2>1
  <2> QED
    BY <1>2, <2>1, <2>2, <2>3
<1>11. Nat \subseteq N
  <2> HIDE DEF N
  <2> QED
    BY <1>9, <1>10, SetInduction
<1>12. g[n] \in Dicts
  BY <1>1, <1>11
<1> QED
  BY <1>7, <1>12, <1>13 DEF n

LEMMA RecordedFacts ==
  ASSUME NEW p, commits[p] \in Seq(CommitRec), DoneWith(p) # {}
  PROVE  \E i \in DOMAIN commits[p] : Recorded(p) = commits[p][i].output /\ Recorded(p) \in Outputs
<1>1. DoneWith(p) \subseteq DOMAIN commits[p] /\ DOMAIN commits[p] \subseteq Nat
  BY DEF DoneWith
<1>2. \E i \in DoneWith(p) : \A k \in DoneWith(p) : i <= k
  BY <1>1, LeastElement
<1> DEFINE i == CHOOSE x \in DoneWith(p) : \A k \in DoneWith(p) : x <= k
<1>3. i \in DOMAIN commits[p]
  BY <1>1, <1>2
<1>4. Recorded(p) = commits[p][i].output
  BY DEF Recorded
<1> HIDE DEF i
<1>5. commits[p][i].output \in Outputs
  <2>1. commits[p][i] \in CommitRec
    BY <1>3
  <2> QED
    BY <2>1 DEF CommitRec
<1> QED
  BY <1>3, <1>4, <1>5

(* What a block makes of the status of a job.                              *)
LEMMA StatusFacts ==
  ASSUME TextsInv, NEW j \in Jobs
  PROVE  /\ Fresh(j) => DoneWith(j) = {}
         /\ StatusAfter(j) \in {"none", "waiting", "pending", "complete"}
         /\ chain[j].status = "none" => StatusAfter(j) = "none" /\ ~ Cascades(j)
         /\ StatusAfter(j) = "none" => chain[j].status = "none"
         /\ StatusAfter(j) = "waiting" => chain[j].parent # 0 /\ chain[j].status \in {"posted", "waiting"}
         /\ ~ Fresh(j) => chain[j].status \in {"pending", "complete"}
                          /\ StatusAfter(j) \in {"pending", "complete"} /\ ~ Cascades(j)
         /\ chain[j].status \in {"posted", "waiting"} /\ StatusAfter(j) \notin {"none", "waiting"}
               => /\ StatusAfter(j) = "pending"
                  /\ chain[j].parent # 0 => Cascades(j)
         /\ Cascades(j) => chain[j].parent \in Jobs
<1>1. /\ chain[j] \in ChainRec /\ chain[j].parent \in {0} \cup Jobs
      /\ chain[j].status \in {"none", "posted", "waiting", "pending", "complete"}
  BY DEF TextsInv, JobsInv, TextsTypeOK, ChainRec
<1>2. Fresh(j) => DoneWith(j) = {}
  <2> SUFFICES ASSUME Fresh(j) PROVE DoneWith(j) = {}
    OBVIOUS
  <2>1. commits[j] = <<>>
    BY DEF TextsInv, StartsFresh, Untouched, Fresh
  <2> QED
    BY <2>1, EmptyFacts DEF DoneWith
<1>3. chain[j].status = "waiting" => chain[j].parent # 0
  BY DEF TextsInv, PostedTogether
<1>4. CASE chain[j].status = "none"
  BY <1>1, <1>2, <1>4 DEF StatusAfter, StatusAfterPosts, Cascades, Fresh
<1>5. CASE chain[j].status = "posted"
  <2>1. CASE chain[j].parent = 0
    BY <1>2, <1>5, <2>1 DEF StatusAfter, StatusAfterPosts, Cascades, Fresh
  <2>2. CASE chain[j].parent # 0
    <3>1. chain[j].parent \in Jobs
      BY <1>1, <2>2
    <3>2. chain[chain[j].parent].status # "complete"
      BY <1>5, <3>1 DEF TextsInv, PostedTogether
    <3>3. StatusAfterPosts(j) = "waiting"
      BY <1>5, <2>2, <3>2 DEF StatusAfterPosts
    <3> QED
      BY <1>2, <1>5, <2>2, <3>1, <3>3 DEF StatusAfter, Cascades, Fresh
  <2> QED
    BY <2>1, <2>2
<1>6. CASE chain[j].status = "waiting"
  <2>1. StatusAfterPosts(j) = "waiting" /\ chain[j].parent \in Jobs
    BY <1>1, <1>3, <1>6 DEF StatusAfterPosts
  <2> QED
    BY <1>2, <1>3, <1>6, <2>1 DEF StatusAfter, Cascades, Fresh
<1>7. CASE chain[j].status \in {"pending", "complete"}
  BY <1>1, <1>7 DEF StatusAfter, StatusAfterPosts, Cascades, Fresh
<1> QED
  BY <1>1, <1>4, <1>5, <1>6, <1>7

LEMMA ProduceBlockStep ==
  ASSUME TextsInv, ProduceBlock
  PROVE  TextsInv'
<1> DEFINE J == {j \in Jobs : chain[j].status \in {"posted", "waiting"} /\ StatusAfter(j) = "pending"}
           after(j) == [chain[j] EXCEPT
                          !.status  = StatusAfter(j),
                          !.results = Applied(j, Len(commits[j])),
                          !.read    = IF Cascades(j) THEN Recorded(chain[j].parent) ELSE @]
<1>1. /\ chain' = [j \in Jobs |-> after(j)]
      /\ commits' = [j \in Jobs |-> <<>>] /\ StartTasks(J) /\ job' = job
  BY DEF ProduceBlock
<1>2. TextsTypeOK /\ (\A j \in Jobs : IsJobOf(job[j], chain[j].asked) /\ Dict(chain[j].results))
      /\ StartsFresh /\ PostedTogether /\ OneOutput /\ ChildrenRead
  BY DEF TextsInv, JobsInv
<1>3. ASSUME NEW j \in Jobs
      PROVE  /\ after(j) \in ChainRec /\ after(j).asked = chain[j].asked /\ after(j).parent = chain[j].parent
             /\ after(j).status = StatusAfter(j) /\ Dict(after(j).results)
             /\ after(j).read = IF Cascades(j) THEN Recorded(chain[j].parent) ELSE chain[j].read
  <2>1. chain[j] \in ChainRec /\ commits[j] \in Seq(CommitRec)
    BY <1>2 DEF TextsTypeOK
  <2>2. Dict(Applied(j, Len(commits[j]))) /\ Applied(j, Len(commits[j])) \in Outputs
    BY <1>2, <2>1, AppliedType DEF Dict
  <2>3. Cascades(j) => Recorded(chain[j].parent) \in Outputs
    <3> SUFFICES ASSUME Cascades(j) PROVE Recorded(chain[j].parent) \in Outputs
      OBVIOUS
    <3>1. chain[j].parent \in Jobs /\ DoneWith(chain[j].parent) # {}
      BY StatusFacts DEF Cascades
    <3>2. commits[chain[j].parent] \in Seq(CommitRec)
      BY <1>2, <3>1 DEF TextsTypeOK
    <3> QED
      BY <3>1, <3>2, RecordedFacts
  <2>4. StatusAfter(j) \in {"none", "posted", "waiting", "pending", "complete"}
    BY StatusFacts
  <2> QED
    BY <2>1, <2>2, <2>3, <2>4 DEF ChainRec
<1>4. \A j \in Jobs : chain'[j] = after(j) /\ commits'[j] = <<>>
  BY <1>1
<1> HIDE DEF after
<1>5. task \in [Jobs -> [Dispatches -> TaskRec]]
  BY <1>2 DEF TextsTypeOK
<1>6. /\ task' \in [Jobs -> [Dispatches -> TaskRec]]
      /\ \A j \in Jobs : j \notin J => task'[j] = task[j]
      /\ \A j \in Jobs : j \in J => task'[j][1].pc # "idle"
      /\ \A j \in Jobs, d \in Dispatches :
            /\ task'[j][d].read = task[j][d].read
            /\ task[j][d].pc # "idle" => task'[j][d] = task[j][d]
  <2> HIDE DEF J
  <2> QED
    BY <1>1, <1>5, TasksStart
<1>7. TextsTypeOK'
  <2>1. chain' \in [Jobs -> ChainRec]
    BY <1>1, <1>3
  <2>2. commits' \in [Jobs -> Seq(CommitRec)]
    BY <1>1
  <2> QED
    BY <1>1, <1>2, <1>6, <2>1, <2>2 DEF TextsTypeOK
<1>8. \A j \in Jobs : IsJobOf(job'[j], chain'[j].asked) /\ Dict(chain'[j].results)
  BY <1>1, <1>2, <1>3, <1>4
<1>9. StartsFresh'
  <2> SUFFICES ASSUME NEW j \in Jobs
               PROVE  IF chain'[j].status \in {"none", "posted", "waiting"} THEN Untouched(j)'
                      ELSE task'[j][1].pc # "idle"
    BY DEF StartsFresh
  <2>1. chain'[j].status = StatusAfter(j)
    BY <1>3, <1>4
  <2>2. CASE Fresh(j) /\ StatusAfter(j) \in {"none", "waiting"}
    <3>1. Untouched(j) /\ j \notin J
      BY <1>2, <2>2 DEF StartsFresh, Fresh
    <3>2. job'[j] = job[j] /\ commits'[j] = commits[j] /\ task'[j] = task[j]
      BY <1>1, <1>4, <1>6, <3>1 DEF Untouched
    <3> QED
      BY <2>1, <2>2, <3>1, <3>2 DEF Untouched
  <2>3. CASE Fresh(j) /\ StatusAfter(j) \notin {"none", "waiting"}
    <3>1. chain[j].status \in {"posted", "waiting"} /\ StatusAfter(j) = "pending"
      BY <2>3, StatusFacts DEF Fresh
    <3> QED
      BY <1>6, <2>1, <3>1
  <2>4. CASE ~ Fresh(j)
    <3>1. task[j][1].pc # "idle"
      BY <1>2, <2>4 DEF StartsFresh, Fresh
    <3>2. task'[j][1].pc # "idle"
      BY <1>6, <3>1, OneIsFirst
    <3>3. StatusAfter(j) \in {"pending", "complete"}
      BY <2>4, StatusFacts
    <3> QED
      BY <2>1, <3>2, <3>3
  <2> QED
    BY <2>2, <2>3, <2>4
<1>10. PostedTogether'
  <2>1. \A j \in Jobs : chain'[j].status = StatusAfter(j) /\ chain'[j].parent = chain[j].parent
    BY <1>3, <1>4
  <2>2. \A j \in Jobs : chain'[j].status # "posted"
    BY <2>1, StatusFacts
  <2>3. \A j \in Jobs : chain'[j].status = "waiting" => chain'[j].parent # 0
    BY <2>1, StatusFacts
  <2> QED
    BY <2>2, <2>3 DEF PostedTogether
<1>11. \A p \in Jobs : DispatchedOnce(p)' => DispatchedOnce(p)
  BY <1>6, OnceBefore
<1>12. OneOutput'
  <2> SUFFICES ASSUME NEW j \in Jobs, DispatchedOnce(j)'
               PROVE  /\ job'[j].known => task'[j][1].pc = "done"
                      /\ \A k \in DOMAIN commits'[j] :
                            job'[j].final # NoText /\ commits'[j][k].output = job'[j].final
    BY DEF OneOutput
  <2>1. job[j].known => task[j][1].pc = "done"
    BY <1>2, <1>11 DEF OneOutput
  <2>2. job[j].known => task'[j][1].pc = "done"
    BY <1>6, <2>1, OneIsFirst
  <2> QED
    BY <1>1, <1>4, <2>2, EmptyFacts
<1>13. \A j, p \in Jobs : Child(j, p) => Child(j, p)' /\ chain'[j].read = chain[j].read
  <2> TAKE j, p \in Jobs
  <2> SUFFICES ASSUME Child(j, p) PROVE Child(j, p)' /\ chain'[j].read = chain[j].read
    OBVIOUS
  <2>1. ~ Fresh(j)
    BY DEF Child, Fresh
  <2> QED
    BY <1>3, <1>4, <2>1, StatusFacts DEF Child
<1>14. ASSUME NEW j \in Jobs, NEW p \in Jobs, Child(j, p)', ~ Child(j, p), DispatchedOnce(p)
       PROVE  job[p].final # NoText /\ chain'[j].read = job[p].final
  <2>1. chain[j].parent = p /\ StatusAfter(j) \in {"pending", "complete"} /\ p # 0
    BY <1>3, <1>4, <1>14 DEF Child, Jobs
  <2>2. chain[j].status \in {"posted", "waiting"}
    BY <1>14, <2>1, StatusFacts DEF Child, Fresh
  <2>3. Cascades(j)
    BY <2>1, <2>2, StatusFacts
  <2>4. DoneWith(p) # {} /\ chain'[j].read = Recorded(p)
    BY <1>3, <1>4, <2>1, <2>3 DEF Cascades
  <2>5. commits[p] \in Seq(CommitRec)
    BY <1>2 DEF TextsTypeOK
  <2>6. PICK i \in DOMAIN commits[p] : Recorded(p) = commits[p][i].output
    BY <2>4, <2>5, RecordedFacts
  <2> QED
    BY <1>2, <1>14, <2>4, <2>6 DEF OneOutput
<1>15. ChildrenRead'
  <2>1. \A j, p \in Jobs : Child(j, p)' =>
           \/ Child(j, p) /\ chain'[j].read = chain[j].read
           \/ DispatchedOnce(p) => job[p].final # NoText /\ chain'[j].read = job[p].final
    BY <1>13, <1>14
  <2> QED
    BY <1>1, <1>2, <1>6, <1>11, <1>13, <2>1, ChildrenStep
<1> QED
  BY <1>7, <1>8, <1>9, <1>10, <1>12, <1>15 DEF TextsInv, JobsInv

LEMMA PeerConnectedStep ==
  ASSUME TextsInv, PeerConnected
  PROVE  TextsInv'
<1> DEFINE J == {j \in Jobs : Lost(j)}
<1>1. StartTasks(J) /\ UNCHANGED <<chain, commits, job>>
  BY DEF PeerConnected
<1>2. TextsTypeOK /\ (\A j \in Jobs : IsJobOf(job[j], chain[j].asked) /\ Dict(chain[j].results))
      /\ StartsFresh /\ PostedTogether /\ OneOutput /\ ChildrenRead
  BY DEF TextsInv, JobsInv
<1>3. task \in [Jobs -> [Dispatches -> TaskRec]]
  BY <1>2 DEF TextsTypeOK
<1>4. /\ task' \in [Jobs -> [Dispatches -> TaskRec]]
      /\ \A j \in Jobs : j \notin J => task'[j] = task[j]
      /\ \A j \in Jobs, d \in Dispatches :
            /\ task'[j][d].read = task[j][d].read
            /\ task[j][d].pc # "idle" => task'[j][d] = task[j][d]
  <2> HIDE DEF J
  <2> QED
    BY <1>1, <1>3, TasksStart
<1>5. TextsTypeOK'
  BY <1>1, <1>2, <1>4 DEF TextsTypeOK
<1>6. \A j \in Jobs : Fresh(j) => j \notin J
  BY DEF Fresh, Lost
<1> HIDE DEF J
<1>7. \A j \in Jobs : IsJobOf(job'[j], chain'[j].asked) /\ Dict(chain'[j].results)
  BY <1>1, <1>2
<1>8. StartsFresh' /\ PostedTogether'
  <2>1. \A j \in Jobs : Fresh(j) => job'[j] = job[j] /\ commits'[j] = commits[j] /\ task'[j] = task[j]
    BY <1>1, <1>4, <1>6
  <2>2. \A j \in Jobs : task[j][1].pc # "idle" => task'[j][1].pc # "idle"
    BY <1>4, OneIsFirst
  <2> QED
    BY <1>1, <1>2, <2>1, <2>2, FreshSame
<1>9. \A p \in Jobs : DispatchedOnce(p)' => DispatchedOnce(p)
  BY <1>4, OnceBefore
<1>10. OneOutput'
  <2> SUFFICES ASSUME NEW j \in Jobs, DispatchedOnce(j)'
               PROVE  /\ job'[j].known => task'[j][1].pc = "done"
                      /\ \A k \in DOMAIN commits'[j] :
                            job'[j].final # NoText /\ commits'[j][k].output = job'[j].final
    BY DEF OneOutput
  <2>1. /\ job[j].known => task[j][1].pc = "done"
        /\ \A k \in DOMAIN commits[j] : job[j].final # NoText /\ commits[j][k].output = job[j].final
    BY <1>2, <1>9 DEF OneOutput
  <2>2. job[j].known => task'[j][1].pc = "done"
    BY <1>4, <2>1, OneIsFirst
  <2> QED
    BY <1>1, <2>1, <2>2
<1>11. ChildrenRead'
  <2>1. \A j, p \in Jobs : Child(j, p)' <=> Child(j, p)
    BY <1>1 DEF Child
  <2> QED
    BY <1>1, <1>2, <1>4, <1>9, <2>1, ChildrenStep
<1> QED
  BY <1>5, <1>7, <1>8, <1>10, <1>11 DEF TextsInv, JobsInv

LEMMA NotFresh ==
  ASSUME TextsInv, NEW j \in Jobs,
         \/ \E d \in Dispatches : task[j][d].pc # "idle"
         \/ job[j].told # <<>> \/ job[j].workers # {}
  PROVE  ~ Fresh(j)
BY NewTaskType, NoJobFacts DEF TextsInv, StartsFresh, Untouched, Fresh

LEMMA TaskStartsStep ==
  ASSUME TextsInv, NEW j \in Jobs, NEW d \in Dispatches, TaskStarts(j, d)
  PROVE  TextsInv'
<1>1. TextsTypeOK /\ (\A i \in Jobs : IsJobOf(job[i], chain[i].asked) /\ Dict(chain[i].results))
      /\ StartsFresh /\ PostedTogether /\ OneOutput /\ ChildrenRead
  BY DEF TextsInv, JobsInv
<1>2. task[j][d].pc = "started" /\ UNCHANGED <<chain, commits, job>>
  BY DEF TaskStarts
<1>3. task \in [Jobs -> [Dispatches -> TaskRec]] /\ chain[j] \in ChainRec /\ task[j][d] \in TaskRec
  BY <1>1 DEF TextsTypeOK
<1>4. PICK t \in TaskRec : /\ task' = [task EXCEPT ![j][d] = t] /\ t.pc # "idle"
                           /\ \/ t.read = task[j][d].read
                              \/ /\ t.read = ParentOutput(chain[j].parent)
                                 /\ chain[j].parent # 0 /\ chain[j].status = "pending"
                              \/ t.read = NoText
  <2>1. CASE chain[j].parent # 0 /\ chain[j].status # "pending"
    <3> DEFINE t == [task[j][d] EXCEPT !.pc = "done"]
    <3>1. task' = [task EXCEPT ![j][d] = t]
      BY <2>1, <1>3 DEF TaskStarts
    <3>2. t \in TaskRec /\ t.pc # "idle" /\ t.read = task[j][d].read
      BY <1>3 DEF TaskRec
    <3> QED
      BY <3>1, <3>2
  <2>2. CASE ~ (chain[j].parent # 0 /\ chain[j].status # "pending")
    <3> DEFINE text == IF chain[j].parent = 0 THEN NoText ELSE ParentOutput(chain[j].parent)
    <3>1. PICK len \in Lengths : task' = [task EXCEPT ![j][d] = [pc |-> "prompted", len |-> len, read |-> text]]
      BY <2>2 DEF TaskStarts
    <3>2. text \in Outputs \cup {NoText}
      <4> SUFFICES ASSUME chain[j].parent # 0 PROVE ParentOutput(chain[j].parent) \in Outputs \cup {NoText}
        OBVIOUS
      <4>1. PICK p \in Jobs : p = chain[j].parent
        BY <1>3 DEF ChainRec
      <4>2. Child(j, p)
        BY <2>2, <4>1 DEF Child
      <4>3. job[p] \in JobRec /\ Dict(chain[p].results)
        BY <1>1 DEF TextsTypeOK
      <4>4. CASE job[p].final # NoText
        BY <4>1, <4>3, <4>4 DEF ParentOutput, JobRec
      <4>5. CASE job[p].final = NoText
        <5>1. ParentOutput(p) = Sorted(chain[p].results, ShardsOf(chain[p].results))
          BY <4>5 DEF ParentOutput, Previews
        <5> QED
          BY <4>1, <4>3, <5>1, SortedFacts
      <4> QED
        BY <4>4, <4>5
    <3> DEFINE t == [pc |-> "prompted", len |-> len, read |-> text]
    <3>3. t \in TaskRec
      BY <3>2 DEF TaskRec
    <3> QED
      BY <2>2, <3>1, <3>3
  <2> QED
    BY <2>1, <2>2
<1>5. \A i \in Jobs, e \in Dispatches :
         task'[i][e] = IF i = j /\ e = d THEN t ELSE task[i][e]
  BY <1>3, <1>4
<1>6. task' \in [Jobs -> [Dispatches -> TaskRec]] /\ \A i \in Jobs : i # j => task'[i] = task[i]
  BY <1>3, <1>4
<1>7. TextsTypeOK'
  BY <1>1, <1>2, <1>6 DEF TextsTypeOK
<1>8. \A i \in Jobs : IsJobOf(job'[i], chain'[i].asked) /\ Dict(chain'[i].results)
  BY <1>1, <1>2
<1>9. StartsFresh' /\ PostedTogether'
  <2>1. ~ Fresh(j)
    BY <1>2, NotFresh
  <2>2. \A i \in Jobs : Fresh(i) => job'[i] = job[i] /\ commits'[i] = commits[i] /\ task'[i] = task[i]
    BY <1>2, <1>6, <2>1
  <2>3. \A i \in Jobs : task[i][1].pc # "idle" => task'[i][1].pc # "idle"
    BY <1>4, <1>5, OneIsFirst
  <2> QED
    BY <1>1, <1>2, <2>2, <2>3, FreshSame
<1>10. \A p \in Jobs : DispatchedOnce(p)' => DispatchedOnce(p)
  <2>1. \A p \in Jobs, e \in Dispatches : task[p][e].pc # "idle" => task'[p][e].pc # "idle"
    BY <1>4, <1>5
  <2> QED
    BY <2>1, OnceBefore
<1>11. OneOutput'
  <2> SUFFICES ASSUME NEW i \in Jobs, DispatchedOnce(i)'
               PROVE  /\ job'[i].known => task'[i][1].pc = "done"
                      /\ \A k \in DOMAIN commits'[i] :
                            job'[i].final # NoText /\ commits'[i][k].output = job'[i].final
    BY DEF OneOutput
  <2>1. /\ job[i].known => task[i][1].pc = "done"
        /\ \A k \in DOMAIN commits[i] : job[i].final # NoText /\ commits[i][k].output = job[i].final
    BY <1>1, <1>10 DEF OneOutput
  <2>2. ASSUME job[i].known PROVE task'[i][1].pc = "done"
    <3>1. ~ (i = j /\ d = 1)
      BY <1>2, <2>1, <2>2
    <3> QED
      BY <1>5, <2>1, <2>2, <3>1, OneIsFirst
  <2> QED
    BY <1>2, <2>1, <2>2
<1>12. ChildrenRead'
  <2>1. \A i, p \in Jobs : Child(i, p)' <=> Child(i, p)
    BY <1>2 DEF Child
  <2>2. ASSUME NEW i \in Jobs, NEW e \in Dispatches, task'[i][e].read # NoText
        PROVE  \/ task'[i][e].read = task[i][e].read
               \/ \E p \in Jobs : /\ Child(i, p)
                                  /\ DispatchedOnce(p) => /\ job[p].final # NoText
                                                          /\ task'[i][e].read = job[p].final
    <3>1. CASE i = j /\ e = d /\ t.read # task[j][d].read
      <4>1. /\ t.read = ParentOutput(chain[j].parent)
            /\ chain[j].parent # 0 /\ chain[j].status = "pending" /\ task'[i][e].read = t.read
        BY <1>4, <1>5, <2>2, <3>1
      <4>2. PICK p \in Jobs : p = chain[j].parent
        BY <1>3, <4>1 DEF ChainRec
      <4>3. Child(j, p)
        BY <4>1, <4>2 DEF Child
      <4>4. DispatchedOnce(p) => job[p].final # NoText
        BY <1>1, <4>3 DEF ChildrenRead, Reads
      <4>5. DispatchedOnce(p) => t.read = job[p].final
        BY <4>1, <4>2, <4>4 DEF ParentOutput
      <4> QED
        BY <3>1, <4>1, <4>3, <4>4, <4>5
    <3>2. CASE ~ (i = j /\ e = d /\ t.read # task[j][d].read)
      BY <1>5, <3>2
    <3> QED
      BY <3>1, <3>2
  <2> QED
    BY <1>1, <1>2, <1>10, <2>1, <2>2, ChildrenStep
<1> QED
  BY <1>7, <1>8, <1>9, <1>11, <1>12 DEF TextsInv, JobsInv

(* The steps that change the JobState of one job.                          *)
LEMMA OneJobStep ==
  ASSUME TextsInv, NEW j \in Jobs, NEW r \in JobRec,
         chain' = chain, job' = [job EXCEPT ![j] = r], IsJobOf(r, chain[j].asked),
         \/ \E d \in Dispatches : task[j][d].pc # "idle"
         \/ job[j].told # <<>> \/ job[j].workers # {},
         task' \in [Jobs -> [Dispatches -> TaskRec]],
         \A i \in Jobs : i # j => task'[i] = task[i],
         \A i \in Jobs, e \in Dispatches : task'[i][e].read = task[i][e].read
                                           /\ (task[i][e].pc # "idle" => task'[i][e].pc # "idle"),
         commits' \in [Jobs -> Seq(CommitRec)], \A i \in Jobs : i # j => commits'[i] = commits[i],
         DispatchedOnce(j)' => /\ r.known => task'[j][1].pc = "done"
                               /\ \A k \in DOMAIN commits'[j] :
                                     r.final # NoText /\ commits'[j][k].output = r.final
                               /\ job[j].final # NoText => r.final = job[j].final
  PROVE  TextsInv'
<1>1. TextsTypeOK /\ (\A i \in Jobs : IsJobOf(job[i], chain[i].asked) /\ Dict(chain[i].results))
      /\ StartsFresh /\ PostedTogether /\ OneOutput /\ ChildrenRead
  BY DEF TextsInv, JobsInv
<1>2. job \in [Jobs -> JobRec]
  BY <1>1 DEF TextsTypeOK
<1>3. job' \in [Jobs -> JobRec] /\ job'[j] = r /\ \A i \in Jobs : i # j => job'[i] = job[i]
  BY <1>2
<1>4. TextsTypeOK'
  BY <1>1, <1>3 DEF TextsTypeOK
<1>5. \A i \in Jobs : IsJobOf(job'[i], chain'[i].asked) /\ Dict(chain'[i].results)
  BY <1>1, <1>3
<1>6. StartsFresh' /\ PostedTogether'
  <2>1. ~ Fresh(j)
    BY NotFresh
  <2>2. \A i \in Jobs : Fresh(i) => job'[i] = job[i] /\ commits'[i] = commits[i] /\ task'[i] = task[i]
    BY <1>3, <2>1
  <2>3. \A i \in Jobs : task[i][1].pc # "idle" => task'[i][1].pc # "idle"
    BY OneIsFirst
  <2> QED
    BY <1>1, <2>2, <2>3, FreshSame
<1>7. \A p \in Jobs : DispatchedOnce(p)' => DispatchedOnce(p)
  BY OnceBefore
<1>8. OneOutput'
  <2> SUFFICES ASSUME NEW i \in Jobs, DispatchedOnce(i)'
               PROVE  /\ job'[i].known => task'[i][1].pc = "done"
                      /\ \A k \in DOMAIN commits'[i] :
                            job'[i].final # NoText /\ commits'[i][k].output = job'[i].final
    BY DEF OneOutput
  <2>1. CASE i = j
    BY <1>3, <2>1
  <2>2. CASE i # j
    <3>1. /\ job[i].known => task[i][1].pc = "done"
          /\ \A k \in DOMAIN commits[i] : job[i].final # NoText /\ commits[i][k].output = job[i].final
      BY <1>1, <1>7 DEF OneOutput
    <3> QED
      BY <1>3, <2>2, <3>1
  <2> QED
    BY <2>1, <2>2
<1>9. ChildrenRead'
  <2>1. \A i, p \in Jobs : Child(i, p)' <=> Child(i, p)
    BY DEF Child
  <2>2. \A p \in Jobs : DispatchedOnce(p)' /\ job[p].final # NoText => job'[p].final = job[p].final
    BY <1>3
  <2> QED
    BY <1>1, <1>7, <2>1, <2>2, ChildrenStep
<1> QED
  BY <1>4, <1>5, <1>6, <1>8, <1>9 DEF TextsInv, JobsInv

LEMMA DispatchJobStep ==
  ASSUME TextsInv, NEW j \in Jobs, NEW d \in Dispatches, DispatchJob(j, d)
  PROVE  TextsInv'
<1>1. TextsTypeOK /\ (\A i \in Jobs : IsJobOf(job[i], chain[i].asked))
      /\ OneOutput
  BY DEF TextsInv, JobsInv
<1>2. /\ task[j][d].pc = "prompted" /\ chain' = chain /\ commits' = commits
      /\ task' = [task EXCEPT ![j][d].pc = "done"]
  BY DEF DispatchJob
<1>3. /\ task \in [Jobs -> [Dispatches -> TaskRec]] /\ task[j][d] \in TaskRec
      /\ chain[j].asked \in Requests /\ chain[j].asked.n <= NShards
  BY <1>1 DEF TextsTypeOK, ChainRec, IsJobOf
<1>4. PICK r \in JobRec : /\ job' = [job EXCEPT ![j] = r] /\ IsJobOf(r, chain[j].asked)
                          /\ r.final = NoText
  <2>1. CASE \E n \in ProtoShards(chain[j].asked) : job' = [job EXCEPT ![j] = Dispatched(j, d, n)]
    <3>1. PICK n \in ProtoShards(chain[j].asked) : job' = [job EXCEPT ![j] = Dispatched(j, d, n)]
      BY <2>1
    <3>2. task[j][d].len \in {0} \cup Lengths
      BY <1>3 DEF TaskRec
    <3>3. Dispatched(j, d, n) \in JobRec /\ IsJobOf(Dispatched(j, d, n), chain[j].asked)
      BY <1>3, <3>2, DispatchedOK DEF Dispatched
    <3>4. Dispatched(j, d, n).final = NoText
      BY DEF Dispatched
    <3> QED
      BY <3>1, <3>3, <3>4
  <2>2. CASE job' = [job EXCEPT ![j] = [NoJob EXCEPT !.known = TRUE, !.by = d]]
    BY <1>3, <2>2, NoJobFacts, NoSpecsOK
  <2> QED
    BY <2>1, <2>2 DEF DispatchJob
<1>5. [task[j][d] EXCEPT !.pc = "done"] \in TaskRec
  BY <1>3 DEF TaskRec
<1>6. \A i \in Jobs, e \in Dispatches :
         task'[i][e] = IF i = j /\ e = d THEN [task[j][d] EXCEPT !.pc = "done"] ELSE task[i][e]
  BY <1>2, <1>3
<1>7. task' \in [Jobs -> [Dispatches -> TaskRec]] /\ \A i \in Jobs : i # j => task'[i] = task[i]
  BY <1>2, <1>3, <1>5
<1>8. \A i \in Jobs, e \in Dispatches : task'[i][e].read = task[i][e].read
                                        /\ (task[i][e].pc # "idle" => task'[i][e].pc # "idle")
  BY <1>3, <1>6 DEF TaskRec
<1>9. ASSUME DispatchedOnce(j)'
      PROVE  task'[j][1].pc = "done" /\ job[j].final = NoText /\ DOMAIN commits[j] = {}
  <2>1. DispatchedOnce(j)
    BY <1>8, <1>9, OnceBefore
  <2>2. d = 1
    BY <1>2, <2>1 DEF DispatchedOnce
  <2>3. task'[j][1].pc = "done"
    BY <1>3, <1>6, <2>2 DEF TaskRec
  <2>4. ~ job[j].known
    BY <1>1, <1>2, <2>1, <2>2 DEF OneOutput
  <2>5. job[j].final = NoText
    BY <1>1, <2>4 DEF IsJobOf
  <2>6. DOMAIN commits[j] = {}
    BY <1>1, <2>1, <2>5 DEF OneOutput
  <2> QED
    BY <2>3, <2>5, <2>6
<1>10. commits' \in [Jobs -> Seq(CommitRec)]
  BY <1>1, <1>2 DEF TextsTypeOK
<1>11. \E e \in Dispatches : task[j][e].pc # "idle"
  BY <1>2
<1> QED
  BY <1>2, <1>4, <1>7, <1>8, <1>9, <1>10, <1>11, OneJobStep

LEMMA ReassignStep ==
  ASSUME TextsInv, NEW j \in Jobs, NEW s \in Shards, Reassign(j, s)
  PROVE  TextsInv'
<1>1. TextsTypeOK /\ IsJobOf(job[j], chain[j].asked) /\ OneOutput
  BY DEF TextsInv, JobsInv
<1>2. job[j] \in JobRec /\ job \in [Jobs -> JobRec] /\ commits \in [Jobs -> Seq(CommitRec)]
      /\ task \in [Jobs -> [Dispatches -> TaskRec]]
  BY <1>1 DEF TextsTypeOK
<1> DEFINE r == [job[j] EXCEPT !.workers = job[j].workers \ {s}]
<1>3. /\ job' = [job EXCEPT ![j] = r] /\ UNCHANGED <<chain, commits, task>>
      /\ job[j].final = NoText /\ job[j].workers # {}
  BY <1>2 DEF Reassign
<1>4. r \in JobRec /\ IsJobOf(r, chain[j].asked)
  BY <1>1, <1>2, ReassignedOK
<1>5. r.known = job[j].known /\ r.final = job[j].final
  BY <1>2 DEF JobRec
<1> HIDE DEF r
<1>6. DispatchedOnce(j)' => /\ r.known => task'[j][1].pc = "done"
                            /\ \A k \in DOMAIN commits'[j] :
                                  r.final # NoText /\ commits'[j][k].output = r.final
  BY <1>1, <1>3, <1>5 DEF OneOutput, DispatchedOnce
<1> QED
  BY <1>2, <1>3, <1>4, <1>5, <1>6, OneJobStep

LEMMA CommitsOfFacts ==
  ASSUME NEW q, Dict(q), NEW S \in SUBSET ShardsOf(q), NEW out \in Outputs
  PROVE  /\ CommitsOf(q, S, out) \in Seq(CommitRec)
         /\ \A k \in DOMAIN CommitsOf(q, S, out) : CommitsOf(q, S, out)[k].output = out
<1> DEFINE r == Sorted(q, S)
           c == [k \in DOMAIN r |-> [answer |-> Preview(r[k]), output |-> out]]
<1>1. r \in Seq(Answers)
  BY SortedFacts DEF Outputs
<1>2. CommitsOf(q, S, out) = c
  BY DEF CommitsOf
<1> HIDE DEF r
<1>3. \A k \in DOMAIN r : Preview(r[k]) \in Answers
  <2> TAKE k \in DOMAIN r
  <2>1. r[k] \in Answers
    BY <1>1
  <2> QED
    BY <2>1 DEF Preview, Answers, Kinds
<1>4. c \in [1 .. Len(r) -> CommitRec] /\ Len(r) \in Nat
  BY <1>1, <1>3 DEF CommitRec
<1>5. c \in Seq(CommitRec)
  BY <1>4
<1>6. \A k \in DOMAIN c : c[k].output = out
  OBVIOUS
<1> QED
  BY <1>2, <1>5, <1>6

LEMMA ShardAnsweredStep ==
  ASSUME TextsInv, NEW j \in Jobs, NEW s \in Shards, NEW kind \in Kinds, ShardAnswered(j, s, kind)
  PROVE  TextsInv'
<1> DEFINE mode == ProtoMode(chain[j].asked)
           a    == [shard |-> s, by |-> job[j].by, kind |-> kind]
           said == Heard(j, s, kind)
<1>1. TextsTypeOK /\ IsJobOf(job[j], chain[j].asked) /\ OneOutput
  BY DEF TextsInv, JobsInv
<1>2. /\ job[j] \in JobRec /\ job \in [Jobs -> JobRec] /\ commits \in [Jobs -> Seq(CommitRec)]
      /\ task \in [Jobs -> [Dispatches -> TaskRec]] /\ chain[j].asked \in Requests
  BY <1>1 DEF TextsTypeOK, ChainRec
<1>3. /\ s + 1 \in DOMAIN job[j].told /\ job[j].final = NoText
      /\ kind \in (IF s \in job[j].workers THEN {"placeholder"} ELSE Says)
      /\ UNCHANGED <<chain, task>>
  BY DEF ShardAnswered, Sayable
<1>4. said = Put(job[j].said, a)
  BY DEF Heard
<1>5. /\ said \in Outputs /\ said # <<>> /\ Dict(said)
      /\ \A k \in DOMAIN said : Plausible(job[j], mode, said[k])
      /\ mode = "parallel_sample" => Len(said) = 1
      /\ job[j].known
  <2> HIDE DEF said
  <2> QED
    BY <1>1, <1>2, <1>3, <1>4, HeardFacts
<1>6. DispatchedOnce(j)' => task'[j][1].pc = "done" /\ DOMAIN commits[j] = {}
  BY <1>1, <1>3, <1>5 DEF OneOutput, DispatchedOnce
<1>7. job[j].told # <<>>
  BY <1>3, EmptyFacts
<1>8. CASE Ready(mode, Len(job[j].told), said)
  <2> DEFINE out == Assembled(mode, said)
             r   == [job[j] EXCEPT !.said = said, !.final = out]
  <2>1. PICK added \in SUBSET ShardsOf(said) :
           /\ job' = [job EXCEPT ![j] = [@ EXCEPT !.said = said, !.final = out]]
           /\ commits' = [commits EXCEPT ![j] = @ \o CommitsOf(said, added, out)]
    BY <1>8 DEF ShardAnswered
  <2>2. job' = [job EXCEPT ![j] = r]
    BY <1>2, <2>1
  <2>3. r \in JobRec /\ IsJobOf(r, chain[j].asked) /\ r.final \in Outputs
    <3> HIDE DEF said
    <3> QED
      BY <1>1, <1>2, <1>3, <1>5, <1>8, HeardOK
  <2>4. r.final = out
    BY <1>2 DEF JobRec
  <2> DEFINE c == CommitsOf(said, added, out)
  <2>5. c \in Seq(CommitRec) /\ \A k \in DOMAIN c : c[k].output = out
    <3> HIDE DEF said, out
    <3> QED
      BY <1>5, <2>3, <2>4, CommitsOfFacts
  <2>6. commits[j] \in Seq(CommitRec) /\ commits' = [commits EXCEPT ![j] = commits[j] \o c]
    BY <1>2, <2>1
  <2> HIDE DEF c, r, out, said
  <2>7. commits' \in [Jobs -> Seq(CommitRec)] /\ \A i \in Jobs : i # j => commits'[i] = commits[i]
    BY <1>2, <2>5, <2>6
  <2>8. commits'[j] = commits[j] \o c
    BY <1>2, <2>6
  <2>9. ASSUME DispatchedOnce(j)', NEW k \in DOMAIN commits'[j]
        PROVE  commits'[j][k].output = r.final
    <3>1. commits[j] = <<>>
      BY <1>6, <2>6, <2>9
    <3>2. commits'[j] = c
      BY <2>5, <2>8, <3>1
    <3> QED
      BY <2>4, <2>5, <2>9, <3>2
  <2>10. r.final # NoText
    BY <2>3, EmptyFacts
  <2>11. task' \in [Jobs -> [Dispatches -> TaskRec]]
         /\ \A i \in Jobs : task'[i] = task[i]
    BY <1>2, <1>3
  <2> QED
    BY <1>3, <1>6, <1>7, <2>2, <2>3, <2>7, <2>9, <2>10, <2>11, OneJobStep
<1>9. CASE ~ Ready(mode, Len(job[j].told), said)
  <2> DEFINE r == [job[j] EXCEPT !.said = said]
  <2>1. job' = [job EXCEPT ![j].said = said] /\ commits' = commits
    BY <1>9 DEF ShardAnswered
  <2>2. job' = [job EXCEPT ![j] = r]
    BY <1>2, <2>1
  <2>3. r \in JobRec /\ IsJobOf(r, chain[j].asked)
    <3> HIDE DEF said
    <3> QED
      BY <1>1, <1>2, <1>3, <1>5, <1>9, HeardOK
  <2> HIDE DEF r, said
  <2>4. task' \in [Jobs -> [Dispatches -> TaskRec]]
        /\ \A i \in Jobs : task'[i] = task[i]
    BY <1>2, <1>3
  <2>5. DispatchedOnce(j)' => task'[j][1].pc = "done" /\ DOMAIN commits'[j] = {}
    BY <1>6, <2>1
  <2> QED
    BY <1>2, <1>3, <1>7, <2>1, <2>2, <2>3, <2>4, <2>5, OneJobStep
<1> QED
  BY <1>8, <1>9

LEMMA TextsStep == TextsInv /\ [TextsNext]_textsVars => TextsInv'
<1> SUFFICES ASSUME TextsInv, [TextsNext]_textsVars PROVE TextsInv'
  OBVIOUS
<1>1. ASSUME NEW asked \in [Jobs -> UNION {Asked[j] : j \in Jobs}], NEW accepted \in SUBSET Jobs,
             \A j \in Jobs : asked[j] \in Asked[j], PostChain(asked, accepted)
      PROVE  TextsInv'
  BY <1>1, PostChainStep
<1>2. CASE ProduceBlock
  BY <1>2, ProduceBlockStep
<1>3. CASE PeerConnected
  BY <1>3, PeerConnectedStep
<1>4. ASSUME NEW j \in Jobs, NEW d \in Dispatches, TaskStarts(j, d) \/ DispatchJob(j, d)
      PROVE  TextsInv'
  BY <1>4, TaskStartsStep, DispatchJobStep
<1>5. ASSUME NEW j \in Jobs, NEW s \in Shards, Reassign(j, s)
      PROVE  TextsInv'
  BY <1>5, ReassignStep
<1>6. ASSUME NEW j \in Jobs, NEW s \in Shards, NEW kind \in Kinds, ShardAnswered(j, s, kind)
      PROVE  TextsInv'
  BY <1>6, ShardAnsweredStep
<1>7. CASE UNCHANGED textsVars
  <2>1. chain' = chain /\ commits' = commits /\ task' = task /\ job' = job
    BY <1>7 DEF textsVars
  <2> QED
    BY <2>1 DEF TextsInv, JobsInv, TextsTypeOK, StartsFresh, Untouched, PostedTogether, OneOutput,
                DispatchedOnce, ChildrenRead, Child, Reads
<1> QED
  BY <1>1, <1>2, <1>3, <1>4, <1>5, <1>6, <1>7 DEF TextsNext

(* The inductive invariant holds throughout.                               *)
THEOREM TextsInvariant == TextsSpec => []TextsInv
<1> QED
  BY TextsStart, TextsStep, PTL DEF TextsSpec

(* Every variable keeps its type, for any chain of jobs, modes, lengths    *)
(* and number of dispatches.                                               *)
THEOREM TextsTypeCorrect == TextsSpec => []TextsTypeOK
<1>1. TextsInv => TextsTypeOK
  BY DEF TextsInv, JobsInv
<1> QED
  BY <1>1, TextsInvariant, PTL

LEMMA JobParts ==
  ASSUME TextsInv, NEW j \in Jobs
  PROVE  /\ job[j] \in JobRec /\ chain[j].asked \in Requests /\ IsJobOf(job[j], chain[j].asked)
         /\ Dict(job[j].said) /\ Mode(j) = ProtoMode(chain[j].asked) /\ Mode(j) \in Modes
         /\ job[j].len \in Nat
         /\ job[j].final # NoText =>
               /\ job[j].said # <<>> /\ job[j].final = Assembled(Mode(j), job[j].said)
               /\ Honest(Mode(j), job[j].said, job[j].final)
<1>1. job[j] \in JobRec /\ chain[j].asked \in Requests /\ IsJobOf(job[j], chain[j].asked)
  BY DEF TextsInv, JobsInv, TextsTypeOK, ChainRec
<1>2. Mode(j) = ProtoMode(chain[j].asked) /\ Mode(j) \in Modes
  BY <1>1 DEF Mode, ProtoMode, Requests, Modes
<1>3. job[j].len \in Nat
  <2>1. job[j].len \in {0} \cup Lengths
    BY <1>1 DEF JobRec
  <2>2. 0 \in Nat /\ Lengths \subseteq Nat
    BY TextAssumption
  <2>3. {0} \cup Lengths \subseteq Nat
    BY <2>2
  <2> QED
    BY <2>1, <2>3
<1> QED
  BY <1>1, <1>2, <1>3, AssembledFacts DEF IsJobOf, IsAssembled

(* However long a prompt and however many its shards, the slices cover it  *)
(* and overlap as they should (split_prompt of context_split.py).          *)
THEOREM PromptsAreCovered == TextsSpec => []PromptIsCovered
<1>1. TextsInv => PromptIsCovered
  <2> SUFFICES ASSUME TextsInv, NEW j \in Jobs, Mode(j) = "context_split", job[j].told # <<>>
               PROVE  Covers(job[j].told, job[j].len)
    BY DEF PromptIsCovered
  <2>1. /\ job[j] \in JobRec /\ chain[j].asked \in Requests /\ IsJobOf(job[j], chain[j].asked)
        /\ Mode(j) = ProtoMode(chain[j].asked) /\ job[j].len \in Nat
    BY JobParts
  <2>2. PICK n \in ProtoShards(chain[j].asked) : job[j].told = Slices(Mode(j), job[j].len, n)
    BY <2>1 DEF IsJobOf, ToldSlices
  <2>3. n \in Nat \ {0} /\ job[j].len \in Nat
    BY <2>1, RequestFacts
  <2>4. job[j].told = SplitSlices(job[j].len, n)
    BY <2>2 DEF Slices
  <2> QED
    BY <2>3, <2>4, SplitCovers
<1> QED
  BY <1>1, TextsInvariant, PTL

(* In whatever order shards answer, and answer again, the output is made   *)
(* of their last answers in the order of the shards (assembler.py).        *)
THEOREM OutputsAreInOrder == TextsSpec => []OutputIsInOrder
<1>1. TextsInv => OutputIsInOrder
  BY JobParts DEF OutputIsInOrder, Honest
<1> QED
  BY <1>1, TextsInvariant, PTL

(* A client never reads a placeholder of a pipeline's worker, nor what a   *)
(* re-assigned worker answered to its empty slice.                         *)
THEOREM OutputsAreAnswers == TextsSpec => []OutputIsAnAnswer
<1>1. TextsInv => OutputIsAnAnswer
  <2> SUFFICES ASSUME TextsInv, NEW j \in Jobs, job[j].final # NoText, NEW a \in AnswersIn(job[j].final)
               PROVE  a.kind \in {"text", "long"} /\ (Mode(j) = "pipeline_parallel" => a.shard = 0)
    BY DEF OutputIsAnAnswer
  <2>1. /\ IsJobOf(job[j], chain[j].asked) /\ Dict(job[j].said)
        /\ Mode(j) = ProtoMode(chain[j].asked)
        /\ job[j].final = Assembled(Mode(j), job[j].said)
        /\ a \in AnswersIn(job[j].said) /\ IsSaid(a)
    BY JobParts DEF Honest
  <2>2. \A b \in AnswersIn(job[j].said) : Plausible(job[j], Mode(j), b)
    BY <2>1 DEF IsJobOf, AnswersIn
  <2>3. a.kind \in {"text", "long"} \/ (Mode(j) = "pipeline_parallel" /\ a.shard # 0)
    BY <2>1, <2>2 DEF Plausible, IsSaid
  <2>4. ASSUME Mode(j) = "pipeline_parallel" PROVE a.shard = 0
    <3>1. 0 \in ShardsOf(job[j].said)
      BY <2>1, <2>4 DEF IsJobOf, IsAssembled, Ready
    <3>2. Of(job[j].said, 0) \in AnswersIn(job[j].said) /\ Of(job[j].said, 0).shard = 0
      BY <2>1, <3>1, OfFacts
    <3>3. Of(job[j].said, 0).kind # "placeholder"
      BY <2>2, <3>2 DEF Plausible
    <3>4. job[j].final = PipelineOutput(job[j].said)
      BY <2>1, <2>4 DEF Assembled
    <3>5. a = Of(job[j].said, 0)
      BY <2>1, <3>1, <3>3, <3>4, PipelineFacts
    <3> QED
      BY <3>2, <3>5
  <2> QED
    BY <2>3, <2>4
<1> QED
  BY <1>1, TextsInvariant, PTL

(* No answer is lost in an empty output: a draft is used when the verifier *)
(* says nothing, and the other way round.                                  *)
THEOREM AnswersAreUsed == TextsSpec => []AnAnswerIsUsed
<1>1. TextsInv => AnAnswerIsUsed
  <2> SUFFICES ASSUME TextsInv, NEW j \in Jobs, job[j].final = <<>>, Mode(j) # "pipeline_parallel",
                      NEW a \in AnswersIn(job[j].said)
               PROVE  ~ IsSaid(a)
    BY DEF AnAnswerIsUsed
  <2>0. job[j].final # NoText
    BY EmptyFacts
  <2>1. /\ IsJobOf(job[j], chain[j].asked) /\ Dict(job[j].said) /\ chain[j].asked \in Requests
        /\ Mode(j) = ProtoMode(chain[j].asked) /\ Mode(j) \in Modes /\ job[j] \in JobRec
        /\ job[j].said # <<>> /\ job[j].final = Assembled(Mode(j), job[j].said)
        /\ Honest(Mode(j), job[j].said, job[j].final) /\ job[j].len \in Nat
    BY <2>0, JobParts
  <2>2. CASE Mode(j) = "context_split"
    <3>1. AnswersIn(job[j].final) = {}
      BY EmptyFacts DEF AnswersIn
    <3> QED
      BY <2>1, <2>2, <3>1 DEF Honest
  <2>3. CASE Mode(j) = "parallel_sample"
    <3>1. Len(job[j].said) = 1
      BY <2>0, <2>1, <2>3 DEF IsJobOf
    <3> QED
      BY <2>1, <2>3, <3>1, RaceFacts DEF Assembled
  <2>4. CASE Mode(j) = "speculative"
    <3>1. job[j].told # <<>>
      <4>1. 1 \in DOMAIN job[j].said
        BY <2>1 DEF JobRec, Outputs
      <4>2. job[j].said[1].shard + 1 \in DOMAIN job[j].told
        BY <2>1, <4>1 DEF IsJobOf, Plausible
      <4> QED
        BY <4>2, EmptyFacts
    <3>2. PICK n \in ProtoShards(chain[j].asked) : job[j].told = Slices(Mode(j), job[j].len, n)
      BY <2>1, <3>1 DEF IsJobOf, ToldSlices
    <3>3. n = 2 /\ job[j].len \in Nat
      BY <2>1, <2>4, RequestFacts
    <3>4. DOMAIN job[j].told = 1 .. 2
      BY <3>2, <3>3, SlicesType
    <3>5. ShardsOf(job[j].said) \subseteq {0, 1}
      <4> SUFFICES ASSUME NEW k \in DOMAIN job[j].said PROVE job[j].said[k].shard \in {0, 1}
        BY DEF ShardsOf
      <4>1. job[j].said[k].shard + 1 \in 1 .. 2
        BY <2>1, <3>4 DEF IsJobOf, Plausible
      <4>2. job[j].said[k].shard \in Nat
        <5>1. job[j].said[k].shard \in Shards
          BY <2>1, OfFacts DEF ShardsOf
        <5> QED
          BY <5>1, AskedAssumption DEF Shards
      <4> QED
        BY <4>1, <4>2
    <3> QED
      BY <2>1, <2>4, <3>5, SpeculativeFacts DEF Assembled
  <2> QED
    BY <2>1, <2>2, <2>3, <2>4 DEF Modes
<1> QED
  BY <1>1, TextsInvariant, PTL

(* Whatever the prompt's length, the overlap and the number of shards, it  *)
(* is split without a loss and the state keeps its types.                  *)
THEOREM SplitsAreSound == TextsSpec => []SplitIsSound
<1> QED
  BY TextsTypeCorrect, PromptsAreCovered, PTL DEF SplitIsSound

(* Whatever the order of the answers, the output is what the mode promises *)
(* to make of them.                                                        *)
THEOREM OutputsAreSound == TextsSpec => []OutputIsSound
<1> QED
  BY OutputsAreInOrder, OutputsAreAnswers, AnswersAreUsed, PTL DEF OutputIsSound

(* What a child's prompt has in the place of {prev_output} is the output   *)
(* whose hash the chain recorded, if the parent was dispatched once.       *)
THEOREM ChildrenReadTheRecord == TextsSpec => []ChildReadsWhatWasRecorded
<1>1. TextsInv => ChildReadsWhatWasRecorded
  <2> SUFFICES ASSUME TextsInv, NEW j \in Jobs, NEW d \in Dispatches,
                      task[j][d].read # NoText, DispatchedOnce(chain[j].parent)
               PROVE  task[j][d].read = chain[j].read
    BY DEF ChildReadsWhatWasRecorded
  <2>1. ChildrenRead
    BY DEF TextsInv
  <2>2. PICK p \in Jobs : Child(j, p) /\ Reads(task[j][d].read, p)
    BY <2>1 DEF ChildrenRead
  <2>3. chain[j].parent = p /\ Reads(chain[j].read, p)
    BY <2>1, <2>2 DEF ChildrenRead, Child
  <2> QED
    BY <2>2, <2>3 DEF Reads
<1> QED
  BY <1>1, TextsInvariant, PTL
=============================================================================
