----------------------------- MODULE TextProofs -----------------------------
(***************************************************************************)
(* What is read of a text, whatever its length: cut into parts, it says    *)
(* all its words once and in order.                                        *)
(*                                                                         *)
(* There is no induction rule here for formulas over data; a set of        *)
(* numbers that would hold the counterexamples has a least element, which  *)
(* is argued away. The functions that recur on a length are shown to exist *)
(* from that, and their steps by counting up.                              *)
(***************************************************************************)
EXTENDS SpeechText, FiniteSetTheorems, SequenceTheorems, WellFoundedInduction, TLAPS

-----------------------------------------------------------------------------
(* Numbers *)

(* A set of naturals has a least element. *)
LEMMA LeastNat ==
    ASSUME NEW T, T \subseteq Nat, T # {}
    PROVE  \E n \in T : \A m \in T : n <= m
<1> DEFINE R == {ss \in Nat \X Nat : ss[1] < ss[2]}
<1>1. IsWellFoundedOn(R, Nat)
  BY NatLessThanWellFounded DEF OpToRel
<1> HIDE DEF R
<1>2. PICK x \in T : \A y \in T : ~(<<y, x>> \in R)
  BY <1>1, WFMin
<1>3. \A y \in T : ~(y < x)
  BY <1>2 DEF R
<1> QED BY <1>3

(* Min of a set of naturals is its least element. *)
LEMMA MinOfNats ==
    ASSUME NEW T, T \subseteq Nat, T # {}
    PROVE  Min(T) \in T /\ \A m \in T : Min(T) <= m
<1>1. PICK n \in T : \A m \in T : n <= m
  BY LeastNat
<1> QED BY <1>1 DEF Min

LEMMA MinOfOne ==
    ASSUME NEW n \in Nat
    PROVE  Min({n}) = n
<1>1. Min({n}) \in {n}
  BY MinOfNats
<1> QED BY <1>1

-----------------------------------------------------------------------------
(* Recursion on the length of a sequence *)

(* What holds of 0 and, when it does of the number before, of the next.      *)
LEMMA CountUp ==
    ASSUME NEW L \in Nat, NEW S, 0 \in S, \A n \in 1 .. L : n - 1 \in S => n \in S
    PROVE  \A n \in 0 .. L : n \in S
<1> DEFINE Missing == {n \in 0 .. L : n \notin S}
<1> SUFFICES ASSUME Missing # {} PROVE FALSE
  OBVIOUS
<1>1. PICK n \in Missing : \A m \in Missing : n <= m
  <2>1. Missing \subseteq Nat
    OBVIOUS
  <2> HIDE DEF Missing
  <2> QED BY <2>1, LeastNat
<1>2. n \in 1 .. L /\ n - 1 \in 0 .. L /\ ~(n <= n - 1)
  OBVIOUS
<1>3. n - 1 \in S
  BY <1>1, <1>2
<1> QED BY <1>2, <1>3

(* A function that is given by its first value and its steps exists.         *)
Recurs(f, L, base, step) == f[0] = base /\ \A n \in 1 .. L : f[n] = step[n][f[n - 1]]
LEMMA Recursion ==
    ASSUME NEW L \in Nat, NEW V, NEW base \in V, NEW step \in [1 .. L -> [V -> V]]
    PROVE  \E f \in [0 .. L -> V] : Recurs(f, L, base, step)
<1> DEFINE Upto(m) == \E f \in [0 .. m -> V] : /\ f[0] = base
                                               /\ \A n \in 1 .. m : f[n] = step[n][f[n - 1]]
<1> DEFINE S == {m \in 0 .. L : Upto(m)}
<1>1. 0 \in S
  <2> DEFINE f == [n \in 0 .. 0 |-> base]
  <2>1. f \in [0 .. 0 -> V] /\ f[0] = base /\ \A n \in 1 .. 0 : FALSE
    OBVIOUS
  <2> HIDE DEF f
  <2>2. Upto(0)
    BY <2>1
  <2> QED BY <2>2
<1>2. ASSUME NEW n \in 1 .. L, n - 1 \in S
      PROVE  n \in S
  <2>1. PICK f \in [0 .. n - 1 -> V] :
          /\ f[0] = base
          /\ \A i \in 1 .. n - 1 : f[i] = step[i][f[i - 1]]
    BY <1>2
  <2> DEFINE g == [i \in 0 .. n |-> IF i = n THEN step[n][f[n - 1]] ELSE f[i]]
  <2>2. step[n][f[n - 1]] \in V
    <3>1. f[n - 1] \in V
      OBVIOUS
    <3> QED BY <3>1
  <2>3. g \in [0 .. n -> V]
    <3>1. \A i \in 0 .. n : i # n => i \in 0 .. n - 1
      OBVIOUS
    <3> QED BY <2>2, <3>1
  <2>4. g[0] = base
    BY <2>1
  <2>5. ASSUME NEW i \in 1 .. n
        PROVE  g[i] = step[i][g[i - 1]]
    <3>1. i - 1 \in 0 .. n - 1 /\ g[i - 1] = f[i - 1]
      OBVIOUS
    <3>2. CASE i = n
      BY <3>1, <3>2
    <3>3. CASE i # n
      <4>1. i \in 1 .. n - 1 /\ g[i] = f[i]
        BY <3>3
      <4> QED BY <2>1, <3>1, <4>1
    <3> QED BY <3>2, <3>3
  <2> HIDE DEF g
  <2>6. Upto(n)
    BY <2>3, <2>4, <2>5
  <2> QED BY <2>6
<1> HIDE DEF S
<1>3. \A n \in 0 .. L : n \in S
  BY <1>1, <1>2, CountUp, Zenon
<1> QED BY <1>3 DEF S, Recurs

(* Sequences one after another, each sequence of them.                       *)
LEMMA ConcatenatedSteps ==
    ASSUME NEW E, NEW seqs \in Seq(Seq(E))
    PROVE  \E upto \in [0 .. Len(seqs) -> Seq(E)] :
              /\ upto[0] = <<>>
              /\ \A n \in 1 .. Len(seqs) : upto[n] = upto[n - 1] \o seqs[n]
              /\ Concatenated(seqs) = upto[Len(seqs)]
<1> DEFINE L == Len(seqs)
<1> DEFINE V == Seq(E)
<1> DEFINE Law(f) == f = [n \in 0 .. L |-> IF n = 0 THEN <<>> ELSE f[n - 1] \o seqs[n]]
<1> DEFINE step == [n \in 1 .. L |-> [s \in V |-> s \o seqs[n]]]
<1>1. L \in Nat
  OBVIOUS
<1>2. ASSUME NEW s \in V, NEW n \in 1 .. L
      PROVE  s \o seqs[n] \in V
  <2>1. seqs[n] \in Seq(E)
    OBVIOUS
  <2> QED BY <2>1, ConcatProperties
<1>3. step \in [1 .. L -> [V -> V]]
  BY <1>2
<1>4. \A s \in V : \A n \in 1 .. L : step[n][s] = s \o seqs[n]
  OBVIOUS
<1> DEFINE none == <<>>
<1>5. none \in V
  OBVIOUS
<1> HIDE DEF step, L, V, Law, none
<1>6. PICK f \in [0 .. L -> V] : Recurs(f, L, none, step)
  BY <1>1, <1>3, <1>5, Recursion
<1>7. Law(f)
  <2>1. ASSUME NEW n \in 0 .. L
        PROVE  f[n] = IF n = 0 THEN <<>> ELSE f[n - 1] \o seqs[n]
    <3>1. CASE n = 0
      BY <1>6, <3>1 DEF none, Recurs
    <3>2. CASE n # 0
      <4>1. n \in 1 .. L /\ n - 1 \in 0 .. L
        BY <1>1, <3>2
      <4>2. f[n] = step[n][f[n - 1]] /\ f[n - 1] \in V
        BY <1>6, <4>1 DEF Recurs
      <4> QED BY <1>4, <3>2, <4>1, <4>2
    <3> QED BY <3>1, <3>2
  <2>2. f = [n \in 0 .. L |-> f[n]]
    OBVIOUS
  <2> QED BY <2>1, <2>2 DEF Law
<1>8. PICK upto : Law(upto) /\ Concatenated(seqs) = upto[L]
  <2>1. Concatenated(seqs) = (CHOOSE g : Law(g))[L]
    BY DEF Concatenated, L, Law
  <2>2. Law(CHOOSE g : Law(g))
    BY <1>7
  <2> QED BY <2>1, <2>2
<1>9. DOMAIN upto = 0 .. L /\ upto[0] = <<>> /\ \A n \in 1 .. L : upto[n] = upto[n - 1] \o seqs[n]
  <2>1. \A n \in 0 .. L : upto[n] = IF n = 0 THEN <<>> ELSE upto[n - 1] \o seqs[n]
    BY <1>8 DEF Law
  <2>2. DOMAIN upto = 0 .. L
    BY <1>8 DEF Law
  <2>3. 0 \in 0 .. L /\ \A n \in 1 .. L : n \in 0 .. L /\ n # 0
    BY <1>1
  <2> QED BY <2>1, <2>2, <2>3
<1> DEFINE S == {n \in 0 .. L : upto[n] \in V}
<1>10. 0 \in S
  <2>1. upto[0] \in V /\ 0 \in 0 .. L
    BY <1>1, <1>5, <1>9 DEF none
  <2> QED BY <2>1
<1>11. ASSUME NEW n \in 1 .. L, n - 1 \in S
       PROVE  n \in S
  <2>1. upto[n - 1] \in V
    BY <1>11
  <2>2. upto[n - 1] \o seqs[n] \in V
    BY <1>2, <2>1
  <2>3. upto[n] \in V
    BY <1>9, <2>2, Zenon
  <2> QED BY <1>1, <2>3
<1>12. \A n \in 0 .. L : n \in S
  <2> HIDE DEF S
  <2> QED BY <1>1, <1>10, <1>11, CountUp
<1>13. upto \in [0 .. L -> V]
  <2>1. upto = [n \in 0 .. L |-> upto[n]]
    BY <1>8 DEF Law
  <2> QED BY <1>12, <2>1
<1> QED BY <1>8, <1>9, <1>13 DEF L, V

LEMMA ConcatenatedTyped ==
    ASSUME NEW E, NEW seqs \in Seq(Seq(E))
    PROVE  Concatenated(seqs) \in Seq(E)
<1>1. PICK upto \in [0 .. Len(seqs) -> Seq(E)] : Concatenated(seqs) = upto[Len(seqs)]
  BY ConcatenatedSteps
<1> QED BY <1>1

LEMMA ConcatenatedNone == Concatenated(<<>>) = <<>>
<1> DEFINE E == {}
<1> DEFINE seqs == <<>>
<1>1. seqs \in Seq(Seq(E)) /\ Len(seqs) = 0
  OBVIOUS
<1> HIDE DEF E, seqs
<1>2. PICK upto \in [0 .. Len(seqs) -> Seq(E)] : upto[0] = <<>> /\ Concatenated(seqs) = upto[Len(seqs)]
  BY <1>1, ConcatenatedSteps
<1> QED BY <1>1, <1>2 DEF seqs

LEMMA Associates ==
    ASSUME NEW E, NEW s \in Seq(E), NEW t \in Seq(E), NEW u \in Seq(E)
    PROVE  (s \o t) \o u = s \o (t \o u)
  OBVIOUS

LEMMA ConcatAt ==
    ASSUME NEW S, NEW s \in Seq(S), NEW u \in Seq(S)
    PROVE  /\ s \o u \in Seq(S) /\ Len(s \o u) = Len(s) + Len(u)
           /\ Len(s) \in Nat /\ Len(u) \in Nat
           /\ \A n \in 1 .. Len(s) : (s \o u)[n] = s[n]
           /\ \A n \in 1 .. Len(u) : (s \o u)[Len(s) + n] = u[n]
<1>1. /\ s \o u \in Seq(S) /\ Len(s \o u) = Len(s) + Len(u)
      /\ Len(s) \in Nat /\ Len(u) \in Nat
  BY ConcatProperties
<1>2. \A i \in 1 .. Len(s) + Len(u) : (s \o u)[i] = IF i <= Len(s) THEN s[i] ELSE u[i - Len(s)]
  BY ConcatProperties
<1>3. ASSUME NEW n \in 1 .. Len(s)
      PROVE  (s \o u)[n] = s[n]
  <2>1. n \in 1 .. Len(s) + Len(u) /\ n <= Len(s)
    BY <1>1
  <2> QED BY <1>2, <2>1
<1>4. ASSUME NEW n \in 1 .. Len(u)
      PROVE  (s \o u)[Len(s) + n] = u[n]
  <2> DEFINE i == Len(s) + n
  <2>1. i \in 1 .. Len(s) + Len(u) /\ ~(i <= Len(s)) /\ i - Len(s) = n
    BY <1>1
  <2> HIDE DEF i
  <2>2. (s \o u)[i] = u[n]
    BY <1>2, <2>1
  <2> QED BY <2>2 DEF i
<1> QED BY <1>1, <1>3, <1>4

(* Those of two sequences of them.                                           *)
LEMMA ConcatenatedBoth ==
    ASSUME NEW E, NEW ss \in Seq(Seq(E)), NEW ts \in Seq(Seq(E))
    PROVE  Concatenated(ss \o ts) = Concatenated(ss) \o Concatenated(ts)
<1> DEFINE both == ss \o ts
<1> DEFINE K == Len(ss)
<1> DEFINE L == Len(ts)
<1>1. /\ both \in Seq(Seq(E)) /\ Len(both) = K + L /\ K \in Nat /\ L \in Nat
      /\ \A n \in 1 .. K : both[n] = ss[n]
      /\ \A n \in 1 .. L : both[K + n] = ts[n]
  <2> DEFINE V == Seq(E)
  <2> HIDE DEF V
  <2>1. ss \in Seq(V) /\ ts \in Seq(V)
    BY DEF V
  <2>2. both \in Seq(V) /\ Len(both) = K + L /\ K \in Nat /\ L \in Nat
    BY <2>1, ConcatAt
  <2>3. /\ \A n \in 1 .. K : both[n] = ss[n]
        /\ \A n \in 1 .. L : both[K + n] = ts[n]
    BY <2>1, ConcatAt
  <2> QED BY <2>2, <2>3 DEF V
<1>3. PICK f \in [0 .. K -> Seq(E)] :
        f[0] = <<>> /\ (\A n \in 1 .. K : f[n] = f[n - 1] \o ss[n]) /\ Concatenated(ss) = f[K]
  BY ConcatenatedSteps
<1>4. PICK g \in [0 .. L -> Seq(E)] :
        g[0] = <<>> /\ (\A n \in 1 .. L : g[n] = g[n - 1] \o ts[n]) /\ Concatenated(ts) = g[L]
  BY ConcatenatedSteps
<1>5. PICK h \in [0 .. Len(both) -> Seq(E)] :
        /\ h[0] = <<>> /\ \A n \in 1 .. Len(both) : h[n] = h[n - 1] \o both[n]
        /\ Concatenated(both) = h[Len(both)]
  BY <1>1, ConcatenatedSteps
<1>6. \A n \in 1 .. L : ts[n] \in Seq(E)
  OBVIOUS
<1> HIDE DEF both, K, L
<1> DEFINE S == {n \in 0 .. K : h[n] = f[n]}
<1>7. \A n \in 0 .. K : n \in S
  <2>1. 0 \in S
    BY <1>1, <1>3, <1>5
  <2>2. ASSUME NEW n \in 1 .. K, n - 1 \in S
        PROVE  n \in S
    <3>1. n \in 1 .. Len(both) /\ n \in 0 .. K
      BY <1>1
    <3>2. h[n] = h[n - 1] \o both[n] /\ f[n] = f[n - 1] \o ss[n] /\ both[n] = ss[n]
      BY <1>1, <1>3, <1>5, <3>1, Zenon
    <3>3. h[n - 1] = f[n - 1]
      BY <2>2
    <3>4. h[n] = f[n]
      BY <3>2, <3>3, Zenon
    <3> QED BY <3>1, <3>4
  <2> HIDE DEF S
  <2> QED BY <1>1, <2>1, <2>2, CountUp, Zenon
<1> DEFINE T == {n \in 0 .. L : h[K + n] = f[K] \o g[n]}
<1>8. \A n \in 0 .. L : n \in T
  <2>1. 0 \in T
    <3>1. h[K] = f[K] /\ K + 0 = K /\ 0 \in 0 .. L /\ f[K] \in Seq(E)
      BY <1>1, <1>7
    <3>2. f[K] \o <<>> = f[K]
      BY <3>1, ConcatEmptySeq
    <3>3. h[K + 0] = f[K] \o g[0]
      BY <1>4, <3>1, <3>2
    <3> QED BY <3>1, <3>3
  <2>2. ASSUME NEW n \in 1 .. L, n - 1 \in T
        PROVE  n \in T
    <3>1. K + n \in 1 .. Len(both) /\ n \in 0 .. L /\ n - 1 \in 0 .. L /\ K \in 0 .. K
      BY <1>1
    <3>2. h[K + n] = h[K + (n - 1)] \o both[K + n]
      <4> DEFINE i == K + n
      <4> HIDE DEF i
      <4>1. i \in 1 .. Len(both)
        BY <3>1 DEF i
      <4>2. h[i] = h[i - 1] \o both[i]
        BY <1>5, <4>1, Zenon
      <4>3. i - 1 = K + (n - 1)
        BY <1>1 DEF i
      <4> QED BY <4>2, <4>3, Zenon DEF i
    <3>7. g[n] = g[n - 1] \o ts[n] /\ both[K + n] = ts[n]
      BY <1>1, <1>4, Zenon
    <3>3. h[K + (n - 1)] = f[K] \o g[n - 1]
      BY <2>2
    <3>4. f[K] \in Seq(E) /\ g[n - 1] \in Seq(E) /\ ts[n] \in Seq(E)
      BY <1>6, <3>1
    <3>5. (f[K] \o g[n - 1]) \o ts[n] = f[K] \o (g[n - 1] \o ts[n])
      <4> DEFINE u == f[K]
      <4> DEFINE v == g[n - 1]
      <4> DEFINE w == ts[n]
      <4> HIDE DEF u, v, w
      <4>1. u \in Seq(E) /\ v \in Seq(E) /\ w \in Seq(E)
        BY <3>4 DEF u, v, w
      <4>2. (u \o v) \o w = u \o (v \o w)
        BY <4>1
      <4> QED BY <4>2, Zenon DEF u, v, w
    <3>6. h[K + n] = f[K] \o g[n]
      BY <3>1, <3>2, <3>3, <3>5, <3>7, Zenon
    <3> QED BY <3>1, <3>6
  <2> HIDE DEF T
  <2> QED BY <1>1, <2>1, <2>2, CountUp, Zenon
<1>9. h[K + L] = f[K] \o g[L]
  <2>1. L \in 0 .. L
    BY <1>1
  <2> QED BY <1>8, <2>1
<1>10. Concatenated(both) = Concatenated(ss) \o Concatenated(ts)
  BY <1>1, <1>3, <1>4, <1>5, <1>9
<1> QED BY <1>10 DEF both

LEMMA ConcatenatedOne ==
    ASSUME NEW E, NEW s \in Seq(E)
    PROVE  Concatenated(<<s>>) = s
<1> DEFINE seqs == <<s>>
<1>1. seqs \in Seq(Seq(E)) /\ Len(seqs) = 1 /\ seqs[1] = s
  OBVIOUS
<1> HIDE DEF seqs
<1>2. PICK upto \in [0 .. Len(seqs) -> Seq(E)] :
        /\ upto[0] = <<>> /\ \A n \in 1 .. Len(seqs) : upto[n] = upto[n - 1] \o seqs[n]
        /\ Concatenated(seqs) = upto[Len(seqs)]
  BY <1>1, ConcatenatedSteps
<1>3. upto[1] = upto[0] \o s
  <2>1. 1 \in 1 .. Len(seqs) /\ 1 - 1 = 0
    BY <1>1
  <2>2. upto[1] = upto[1 - 1] \o seqs[1]
    BY <1>2, <2>1, Zenon
  <2> QED BY <1>1, <2>1, <2>2, Zenon
<1>4. Concatenated(seqs) = <<>> \o s
  BY <1>1, <1>2, <1>3
<1>5. <<>> \o s = s
  BY ConcatEmptySeq
<1> QED BY <1>4, <1>5 DEF seqs

LEMMA ConcatenatedAppend ==
    ASSUME NEW E, NEW ss \in Seq(Seq(E)), NEW s \in Seq(E)
    PROVE  Concatenated(Append(ss, s)) = Concatenated(ss) \o s
<1> DEFINE V == Seq(E)
<1>1. Append(ss, s) = ss \o <<s>>
  <2>1. ss \in Seq(V) /\ s \in V
    OBVIOUS
  <2> HIDE DEF V
  <2> QED BY <2>1, AppendIsConcat
<1>2. <<s>> \in Seq(V)
  OBVIOUS
<1>3. Concatenated(ss \o <<s>>) = Concatenated(ss) \o Concatenated(<<s>>)
  BY <1>2, ConcatenatedBoth
<1> QED BY <1>1, <1>3, ConcatenatedOne

LEMMA ConcatenatedEmpties ==
    ASSUME NEW E, NEW seqs \in Seq(Seq(E)), \A n \in 1 .. Len(seqs) : seqs[n] = <<>>
    PROVE  Concatenated(seqs) = <<>>
<1>1. PICK upto \in [0 .. Len(seqs) -> Seq(E)] :
        /\ upto[0] = <<>> /\ \A n \in 1 .. Len(seqs) : upto[n] = upto[n - 1] \o seqs[n]
        /\ Concatenated(seqs) = upto[Len(seqs)]
  BY ConcatenatedSteps
<1>2. Len(seqs) \in Nat
  OBVIOUS
<1>3. <<>> \o <<>> = <<>>
  OBVIOUS
<1> DEFINE S == {n \in 0 .. Len(seqs) : upto[n] = <<>>}
<1>4. 0 \in S
  BY <1>1, <1>2
<1>5. ASSUME NEW n \in 1 .. Len(seqs), n - 1 \in S
      PROVE  n \in S
  <2>1. upto[n] = upto[n - 1] \o seqs[n] /\ seqs[n] = <<>> /\ upto[n - 1] = <<>>
    BY <1>1, <1>5
  <2>2. upto[n] = <<>>
    BY <1>3, <2>1, Zenon
  <2> QED BY <1>2, <2>2
<1>6. \A n \in 0 .. Len(seqs) : n \in S
  <2> HIDE DEF S
  <2> QED BY <1>2, <1>4, <1>5, CountUp, Zenon
<1>7. Len(seqs) \in 0 .. Len(seqs)
  BY <1>2
<1> QED BY <1>1, <1>6, <1>7

-----------------------------------------------------------------------------
(* The words of a text *)

Maps(f, E, F) == f \in [E -> F]
Mapped(seq, f) == [i \in 1 .. Len(seq) |-> f[seq[i]]]

LEMMA MappedTyped ==
    ASSUME NEW E, NEW F, NEW f, Maps(f, E, F), NEW s \in Seq(E)
    PROVE  /\ Mapped(s, f) \in Seq(F) /\ Len(Mapped(s, f)) = Len(s)
<1>1. \A i \in 1 .. Len(s) : f[s[i]] \in F
  BY DEF Maps
<1> QED BY <1>1 DEF Mapped

LEMMA MappedBoth ==
    ASSUME NEW E, NEW F, NEW f, Maps(f, E, F), NEW s \in Seq(E), NEW t \in Seq(E)
    PROVE  Mapped(s \o t, f) = Mapped(s, f) \o Mapped(t, f)
<1> DEFINE ms == Mapped(s, f)
<1> DEFINE mt == Mapped(t, f)
<1> DEFINE both == s \o t
<1>1. /\ both \in Seq(E) /\ Len(both) = Len(s) + Len(t) /\ Len(s) \in Nat /\ Len(t) \in Nat
      /\ \A n \in 1 .. Len(s) : both[n] = s[n]
      /\ \A n \in 1 .. Len(t) : both[Len(s) + n] = t[n]
  BY ConcatAt
<1>2. /\ ms \in Seq(F) /\ Len(ms) = Len(s) /\ \A i \in 1 .. Len(s) : ms[i] = f[s[i]]
      /\ mt \in Seq(F) /\ Len(mt) = Len(t) /\ \A i \in 1 .. Len(t) : mt[i] = f[t[i]]
  <2>1. ms \in Seq(F) /\ Len(ms) = Len(s) /\ mt \in Seq(F) /\ Len(mt) = Len(t)
    BY MappedTyped
  <2>2. \A i \in 1 .. Len(s) : ms[i] = f[s[i]]
    BY DEF Mapped
  <2>3. \A i \in 1 .. Len(t) : mt[i] = f[t[i]]
    BY DEF Mapped
  <2> QED BY <2>1, <2>2, <2>3
<1> HIDE DEF both, ms, mt
<1>3. /\ Mapped(both, f) \in Seq(F) /\ Len(Mapped(both, f)) = Len(both)
      /\ \A i \in 1 .. Len(both) : Mapped(both, f)[i] = f[both[i]]
  <2>1. both \in Seq(E)
    BY <1>1
  <2>2. Mapped(both, f) \in Seq(F) /\ Len(Mapped(both, f)) = Len(both)
    BY <2>1, MappedTyped
  <2> QED BY <2>2 DEF Mapped
<1>4. /\ ms \o mt \in Seq(F) /\ Len(ms \o mt) = Len(ms) + Len(mt)
      /\ \A n \in 1 .. Len(ms) : (ms \o mt)[n] = ms[n]
      /\ \A n \in 1 .. Len(mt) : (ms \o mt)[Len(ms) + n] = mt[n]
  <2>1. ms \in Seq(F) /\ mt \in Seq(F)
    BY <1>2
  <2> QED BY <2>1, ConcatAt
<1> DEFINE joined == ms \o mt
<1> DEFINE mapped == Mapped(both, f)
<1> HIDE DEF joined, mapped
<1>5. ASSUME NEW i \in 1 .. Len(mapped)
      PROVE  mapped[i] = joined[i]
  <2>1. i \in 1 .. Len(both) /\ mapped[i] = f[both[i]]
    BY <1>3 DEF mapped
  <2>2. CASE i <= Len(s)
    <3>1. i \in 1 .. Len(s) /\ i \in 1 .. Len(ms)
      BY <1>1, <1>2, <2>2
    <3>2. joined[i] = ms[i]
      BY <1>4, <3>1 DEF joined
    <3>3. ms[i] = f[s[i]] /\ both[i] = s[i]
      BY <1>1, <1>2, <3>1
    <3> QED BY <2>1, <3>2, <3>3
  <2>3. CASE ~(i <= Len(s))
    <3> DEFINE n == i - Len(s)
    <3>1. n \in 1 .. Len(t) /\ n \in 1 .. Len(mt) /\ i = Len(s) + n /\ i = Len(ms) + n
      BY <1>1, <1>2, <2>1, <2>3
    <3> HIDE DEF n
    <3>2. joined[i] = mt[n]
      <4>1. joined[Len(ms) + n] = mt[n]
        BY <1>4, <3>1 DEF joined
      <4> QED BY <3>1, <4>1
    <3>3. mt[n] = f[t[n]]
      BY <1>2, <3>1
    <3>4. both[i] = t[n]
      <4>1. both[Len(s) + n] = t[n]
        BY <1>1, <3>1
      <4> QED BY <3>1, <4>1
    <3> QED BY <2>1, <3>2, <3>3, <3>4
  <2> QED BY <2>2, <2>3
<1>6. mapped \in Seq(F) /\ joined \in Seq(F) /\ Len(mapped) = Len(joined)
  BY <1>1, <1>2, <1>3, <1>4 DEF mapped, joined
<1>7. mapped = joined
  BY <1>5, <1>6, SeqEqual
<1> QED BY <1>7 DEF mapped, joined, both, ms, mt

(* What a word is, and what is kept of it.                                   *)
WordKind == [norm : Seq(Letter) \cup {None}, page : Nat, n : Nat]
Kept == [word \in WordKind |-> IF word.norm # None THEN <<word>> ELSE <<>>]

LEMMA KeptTyped == Maps(Kept, WordKind, Seq(WordKind))
  BY DEF Kept, Maps

LEMMA TermsMapped ==
    ASSUME NEW words \in Seq(WordKind)
    PROVE  /\ Terms(words) = Concatenated(Mapped(words, Kept))
           /\ Mapped(words, Kept) \in Seq(Seq(WordKind))
<1>1. ASSUME NEW i \in 1 .. Len(words)
      PROVE  (IF i \in {k \in DOMAIN words : words[k].norm # None} THEN <<words[i]>> ELSE <<>>)
               = Kept[words[i]]
  <2>1. words[i] \in WordKind /\ i \in DOMAIN words
    OBVIOUS
  <2> HIDE DEF WordKind
  <2> QED BY <2>1 DEF Kept
<1>2. Terms(words) = Concatenated(Mapped(words, Kept))
  BY <1>1, Zenon DEF Terms, Picked, Mapped
<1>3. Mapped(words, Kept) \in Seq(Seq(WordKind))
  BY KeptTyped, MappedTyped
<1> QED BY <1>2, <1>3

LEMMA TermsBoth ==
    ASSUME NEW ss \in Seq(WordKind), NEW ts \in Seq(WordKind)
    PROVE  /\ Terms(ss \o ts) = Terms(ss) \o Terms(ts)
           /\ Terms(ss) \in Seq(WordKind)
<1>1. ss \o ts \in Seq(WordKind)
  BY ConcatAt
<1>2. Terms(ss \o ts) = Concatenated(Mapped(ss \o ts, Kept))
  BY <1>1, TermsMapped
<1>3. Mapped(ss \o ts, Kept) = Mapped(ss, Kept) \o Mapped(ts, Kept)
  BY KeptTyped, MappedBoth
<1>4. /\ Terms(ss) = Concatenated(Mapped(ss, Kept)) /\ Mapped(ss, Kept) \in Seq(Seq(WordKind))
      /\ Terms(ts) = Concatenated(Mapped(ts, Kept)) /\ Mapped(ts, Kept) \in Seq(Seq(WordKind))
  BY TermsMapped
<1>5. Concatenated(Mapped(ss, Kept) \o Mapped(ts, Kept)) = Terms(ss) \o Terms(ts)
  <2> DEFINE ms == Mapped(ss, Kept)
  <2> DEFINE mt == Mapped(ts, Kept)
  <2> HIDE DEF ms, mt
  <2>1. ms \in Seq(Seq(WordKind)) /\ mt \in Seq(Seq(WordKind))
    BY <1>4 DEF ms, mt
  <2>2. Concatenated(ms \o mt) = Concatenated(ms) \o Concatenated(mt)
    BY <2>1, ConcatenatedBoth
  <2> QED BY <1>4, <2>2, Zenon DEF ms, mt
<1>6. Terms(ss) \in Seq(WordKind)
  BY <1>4, ConcatenatedTyped
<1> QED BY <1>2, <1>3, <1>5, <1>6

LEMMA TermsOfOne ==
    ASSUME NEW word \in WordKind
    PROVE  Terms(<<word>>) = (IF word.norm # None THEN <<word>> ELSE <<>>)
<1> DEFINE words == <<word>>
<1>1. words \in Seq(WordKind)
  OBVIOUS
<1>2. Mapped(words, Kept) = <<Kept[word]>>
  BY DEF Mapped
<1>3. Kept[word] \in Seq(WordKind)
  BY KeptTyped DEF Maps
<1>4. Concatenated(<<Kept[word]>>) = Kept[word]
  BY <1>3, ConcatenatedOne
<1>5. Terms(words) = Kept[word]
  <2> HIDE DEF words
  <2> QED BY <1>1, <1>2, <1>4, TermsMapped
<1> QED BY <1>5 DEF Kept

LEMMA TermsOfNone == Terms(<<>>) = <<>>
<1>1. Terms(<<>>) = Concatenated(<<>>)
  BY DEF Terms, Picked
<1> QED BY <1>1, ConcatenatedNone

(* The terms of words one after another are theirs one after another.        *)
LEMMA TermsConcatenated ==
    ASSUME NEW seqs \in Seq(Seq(WordKind)), NEW terms \in Seq(Seq(WordKind)),
           Len(terms) = Len(seqs), \A n \in 1 .. Len(seqs) : terms[n] = Terms(seqs[n])
    PROVE  Terms(Concatenated(seqs)) = Concatenated(terms)
<1> DEFINE L == Len(seqs)
<1>1. PICK f \in [0 .. L -> Seq(WordKind)] :
        f[0] = <<>> /\ (\A n \in 1 .. L : f[n] = f[n - 1] \o seqs[n]) /\ Concatenated(seqs) = f[L]
  BY ConcatenatedSteps
<1>2. PICK g \in [0 .. Len(terms) -> Seq(WordKind)] :
        /\ g[0] = <<>> /\ (\A n \in 1 .. Len(terms) : g[n] = g[n - 1] \o terms[n])
        /\ Concatenated(terms) = g[Len(terms)]
  BY ConcatenatedSteps
<1>3. L \in Nat /\ \A n \in 1 .. L : seqs[n] \in Seq(WordKind)
  OBVIOUS
<1>4. Len(terms) = L
  OBVIOUS
<1> DEFINE S == {n \in 0 .. L : g[n] = Terms(f[n])}
<1> HIDE DEF L
<1>5. 0 \in S
  BY <1>1, <1>2, <1>3, TermsOfNone
<1>6. ASSUME NEW n \in 1 .. L, n - 1 \in S
      PROVE  n \in S
  <2>1. f[n] = f[n - 1] \o seqs[n] /\ g[n] = g[n - 1] \o terms[n]
    BY <1>1, <1>2, <1>4, Zenon
  <2>2. g[n - 1] = Terms(f[n - 1]) /\ terms[n] = Terms(seqs[n])
    BY <1>6 DEF L
  <2>3. f[n - 1] \in Seq(WordKind) /\ seqs[n] \in Seq(WordKind)
    <3>1. n - 1 \in 0 .. L
      BY <1>3
    <3> QED BY <1>3, <3>1
  <2>4. Terms(f[n - 1] \o seqs[n]) = Terms(f[n - 1]) \o Terms(seqs[n])
    BY <2>3, TermsBoth
  <2>5. g[n] = Terms(f[n])
    BY <2>1, <2>2, <2>4, Zenon
  <2> QED BY <1>3, <2>5
<1>7. \A n \in 0 .. L : n \in S
  <2> HIDE DEF S
  <2> QED BY <1>3, <1>5, <1>6, CountUp, Zenon
<1>8. L \in 0 .. L
  BY <1>3
<1> QED BY <1>1, <1>2, <1>4, <1>7, <1>8

(* What a text says: its terms, in their order.                              *)
Says == [s \in Printed |-> IF Term(s) THEN <<Word(s)>> ELSE <<>>]
Said(text) == Concatenated(Mapped(text, Says))

LEMMA WordTyped ==
    ASSUME NEW s \in Printed
    PROVE  Word(s) \in WordKind
  BY DEF Printed, Word, WordKind

LEMMA SaysTyped == Maps(Says, Printed, Seq(WordKind))
<1>1. \A s \in Printed : (IF Term(s) THEN <<Word(s)>> ELSE <<>>) \in Seq(WordKind)
  <2> HIDE DEF WordKind
  <2> QED BY WordTyped
<1> HIDE DEF Printed, WordKind
<1> QED BY <1>1 DEF Says, Maps

LEMMA SaidTyped ==
    ASSUME NEW text \in Seq(Printed)
    PROVE  /\ Said(text) \in Seq(WordKind)
           /\ Mapped(text, Says) \in Seq(Seq(WordKind)) /\ Len(Mapped(text, Says)) = Len(text)
<1>1. Mapped(text, Says) \in Seq(Seq(WordKind)) /\ Len(Mapped(text, Says)) = Len(text)
  BY SaysTyped, MappedTyped
<1> QED BY <1>1, ConcatenatedTyped DEF Said

LEMMA SaidBoth ==
    ASSUME NEW ss \in Seq(Printed), NEW ts \in Seq(Printed)
    PROVE  Said(ss \o ts) = Said(ss) \o Said(ts)
<1>1. Mapped(ss \o ts, Says) = Mapped(ss, Says) \o Mapped(ts, Says)
  BY SaysTyped, MappedBoth
<1> DEFINE ms == Mapped(ss, Says)
<1> DEFINE mt == Mapped(ts, Says)
<1>2. ms \in Seq(Seq(WordKind)) /\ mt \in Seq(Seq(WordKind))
  BY SaidTyped
<1> HIDE DEF ms, mt
<1>3. Concatenated(ms \o mt) = Concatenated(ms) \o Concatenated(mt)
  BY <1>2, ConcatenatedBoth
<1> QED BY <1>1, <1>3, Zenon DEF Said, ms, mt

LEMMA SaidNone == Said(<<>>) = <<>>
<1>1. Mapped(<<>>, Says) = <<>>
  BY DEF Mapped
<1> QED BY <1>1, ConcatenatedNone DEF Said

LEMMA BreakSilent == Break \in Printed /\ Says[Break] = <<>>
<1>1. Break \in Printed /\ ~Term(Break)
  <2>1. Para \in Seq(Letter)
    BY SpeechAssumption DEF Para
  <2>2. Break.sym = Para
    BY DEF Break, Symbol
  <2>3. ~Term(Break)
    BY <2>2, Zenon DEF Term
  <2>4. Break \in Printed
    BY <2>1 DEF Break, Symbol, Printed
  <2> QED BY <2>3, <2>4
<1> HIDE DEF Printed
<1> QED BY <1>1 DEF Says

LEMMA BreaksSilent ==
    ASSUME NEW text \in Seq(Printed), \A i \in 1 .. Len(text) : text[i] = Break
    PROVE  Said(text) = <<>>
<1> DEFINE pieces == Mapped(text, Says)
<1>1. pieces \in Seq(Seq(WordKind)) /\ Len(pieces) = Len(text)
  BY SaidTyped
<1>2. \A i \in 1 .. Len(text) : pieces[i] = <<>>
  BY BreakSilent, Zenon DEF Mapped
<1> HIDE DEF pieces
<1>3. Concatenated(pieces) = <<>>
  BY <1>1, <1>2, ConcatenatedEmpties
<1> QED BY <1>3 DEF Said, pieces

(* A word of the text, where it has one.                                     *)
Piece(text, i) == IF Term(text[i]) \/ Opens(text, i) THEN <<Word(text[i])>> ELSE <<>>
Pieces(text) == [i \in 1 .. Len(text) |-> Piece(text, i)]

LEMMA PieceTyped ==
    ASSUME NEW text \in Seq(Printed), NEW i \in 1 .. Len(text)
    PROVE  /\ Piece(text, i) \in Seq(WordKind) /\ Word(text[i]) \in WordKind
           /\ \/ Piece(text, i) = <<Word(text[i])>>
              \/ Piece(text, i) = <<>> /\ ~Term(text[i])
<1>1. text[i] \in Printed
  OBVIOUS
<1>2. Word(text[i]) \in WordKind
  BY <1>1, WordTyped
<1> HIDE DEF WordKind
<1>3. <<Word(text[i])>> \in Seq(WordKind) /\ <<>> \in Seq(WordKind)
  BY <1>2
<1> QED BY <1>2, <1>3, Zenon DEF Piece

LEMMA WordsAreSome ==
    ASSUME NEW text \in Seq(Printed)
    PROVE  /\ Pieces(text) \in Seq(Seq(WordKind)) /\ Len(Pieces(text)) = Len(text)
           /\ WordsOf(text) = Concatenated(Pieces(text))
<1> DEFINE K == {i \in 1 .. Len(text) : Term(text[i]) \/ Opens(text, i)}
<1> DEFINE words == [i \in 1 .. Len(text) |-> Word(text[i])]
<1> DEFINE pieces == [i \in 1 .. Len(words) |-> IF i \in K THEN <<words[i]>> ELSE <<>>]
<1>1. WordsOf(text) = Concatenated(pieces)
  BY DEF WordsOf, Picked
<1>2. Len(words) = Len(text) /\ \A i \in 1 .. Len(text) : words[i] = Word(text[i])
  OBVIOUS
<1>3. \A i \in 1 .. Len(text) : i \in K <=> Term(text[i]) \/ Opens(text, i)
  OBVIOUS
<1> HIDE DEF words, K
<1>4. pieces = Pieces(text)
  <2>1. \A i \in 1 .. Len(text) : (IF i \in K THEN <<words[i]>> ELSE <<>>) = Piece(text, i)
    BY <1>2, <1>3, Zenon DEF Piece
  <2> QED BY <1>2, <2>1, Zenon DEF Pieces
<1>5. Pieces(text) \in Seq(Seq(WordKind)) /\ Len(Pieces(text)) = Len(text)
  <2> DEFINE V == Seq(WordKind)
  <2> DEFINE L == Len(text)
  <2>1. L \in Nat /\ \A i \in 1 .. L : Piece(text, i) \in V
    BY PieceTyped
  <2> HIDE DEF V, L
  <2>2. [i \in 1 .. L |-> Piece(text, i)] \in Seq(V) /\ Len([i \in 1 .. L |-> Piece(text, i)]) = L
    BY <2>1
  <2> QED BY <2>2 DEF V, L, Pieces
<1> QED BY <1>1, <1>4, <1>5, Zenon

(* The terms among the words of a text.                                      *)
LEMMA TermsOfWords ==
    ASSUME NEW text \in Seq(Printed)
    PROVE  Terms(WordsOf(text)) = Said(text) /\ WordsOf(text) \in Seq(WordKind)
<1> DEFINE pieces == Pieces(text)
<1>1. /\ pieces \in Seq(Seq(WordKind)) /\ WordsOf(text) = Concatenated(pieces) /\ Len(pieces) = Len(text)
      /\ \A i \in 1 .. Len(text) : \/ pieces[i] = <<Word(text[i])>>
                                   \/ pieces[i] = <<>> /\ ~Term(text[i])
  <2>1. \A i \in 1 .. Len(text) : pieces[i] = Piece(text, i)
    BY Zenon DEF Pieces
  <2> HIDE DEF pieces
  <2>2. \A i \in 1 .. Len(text) : \/ Piece(text, i) = <<Word(text[i])>>
                                  \/ Piece(text, i) = <<>> /\ ~Term(text[i])
    BY PieceTyped
  <2> QED BY <2>1, <2>2, WordsAreSome, Zenon DEF pieces
<1> HIDE DEF pieces
<1>2. ASSUME NEW i \in 1 .. Len(text)
      PROVE  Says[text[i]] = Terms(pieces[i])
  <2>1. text[i] \in Printed /\ Word(text[i]) \in WordKind
    BY WordTyped
  <2>2. Term(text[i]) => Word(text[i]).norm # None
    <3>1. text[i].sym \in Seq(Letter)
      BY <2>1 DEF Printed
    <3> QED BY <3>1, SpeechAssumption DEF Word
  <2>3. ~Term(text[i]) => Word(text[i]).norm = None
    BY DEF Word
  <2>4. Says[text[i]] = IF Term(text[i]) THEN <<Word(text[i])>> ELSE <<>>
    <3> HIDE DEF Printed
    <3> QED BY <2>1 DEF Says
  <2>5. Terms(<<Word(text[i])>>) = IF Word(text[i]).norm # None THEN <<Word(text[i])>> ELSE <<>>
    <3> HIDE DEF WordKind
    <3> QED BY <2>1, TermsOfOne
  <2>6. Terms(<<>>) = <<>>
    BY TermsOfNone
  <2> QED BY <1>1, <2>2, <2>3, <2>4, <2>5, <2>6, Zenon
<1> DEFINE terms == Mapped(text, Says)
<1>3. terms \in Seq(Seq(WordKind)) /\ Len(terms) = Len(pieces)
  BY <1>1, SaidTyped
<1>4. \A i \in 1 .. Len(pieces) : terms[i] = Terms(pieces[i])
  <2>1. \A i \in 1 .. Len(text) : terms[i] = Says[text[i]]
    BY Zenon DEF Mapped
  <2> HIDE DEF terms
  <2> QED BY <1>1, <1>2, <2>1, Zenon
<1> HIDE DEF terms
<1>5. Terms(Concatenated(pieces)) = Concatenated(terms)
  BY <1>1, <1>3, <1>4, TermsConcatenated
<1>6. WordsOf(text) \in Seq(WordKind)
  BY <1>1, ConcatenatedTyped
<1> QED BY <1>1, <1>5, <1>6 DEF terms, Said

-----------------------------------------------------------------------------
(* Cutting a text into parts *)

LEMMA MaxOfBounded ==
    ASSUME NEW L \in Nat, NEW T, T \subseteq 1 .. L, T # {}
    PROVE  Max(T) \in T /\ \A m \in T : m <= Max(T)
<1> DEFINE R == {r \in Nat : \E m \in T : r = L - m}
<1>0. \A m \in T : m \in Nat /\ L - m \in R
  OBVIOUS
<1>1. PICK r \in R : \A x \in R : r <= x
  <2>1. R \subseteq Nat /\ R # {}
    BY <1>0
  <2> HIDE DEF R
  <2> QED BY <2>1, LeastNat
<1>2. PICK n \in T : r = L - n
  OBVIOUS
<1>3. \A m \in T : n >= m
  <2> SUFFICES ASSUME NEW m \in T PROVE n >= m
    OBVIOUS
  <2>1. r <= L - m
    BY <1>0, <1>1
  <2> HIDE DEF R
  <2> QED BY <1>0, <1>2, <2>1
<1>4. Max(T) \in T /\ \A m \in T : Max(T) >= m
  BY <1>3 DEF Max
<1> HIDE DEF R
<1> QED BY <1>0, <1>4

(* A text in two, at any place.                                              *)
LEMMA CutInTwo ==
    ASSUME NEW S, NEW text \in Seq(S), NEW k \in 0 .. Len(text)
    PROVE  /\ SubSeq(text, 1, k) \in Seq(S) /\ Len(SubSeq(text, 1, k)) = k
           /\ \A i \in 1 .. k : SubSeq(text, 1, k)[i] = text[i]
           /\ After(text, k) \in Seq(S) /\ Len(After(text, k)) = Len(text) - k
           /\ \A i \in 1 .. Len(text) - k : After(text, k)[i] = text[k + i]
           /\ SubSeq(text, 1, k) \o After(text, k) = text
<1> DEFINE L == Len(text)
<1>1. L \in Nat /\ (\A i \in 1 .. L : text[i] \in S) /\ k \in Nat /\ k <= L
  OBVIOUS
<1> HIDE DEF L
<1>2. /\ SubSeq(text, 1, k) \in Seq(S) /\ Len(SubSeq(text, 1, k)) = k
      /\ \A i \in 1 .. k : SubSeq(text, 1, k)[i] = text[i]
  <2>1. \A i \in 1 .. k : text[i] \in S
    BY <1>1
  <2>2. /\ SubSeq(text, 1, k) \in Seq(S)
        /\ Len(SubSeq(text, 1, k)) = IF 1 <= k THEN k - 1 + 1 ELSE 0
        /\ \A i \in 1 .. k - 1 + 1 : SubSeq(text, 1, k)[i] = text[1 + i - 1]
    BY <1>1, <2>1, SubSeqProperties
  <2> QED BY <1>1, <2>2
<1>3. /\ SubSeq(text, k + 1, L) \in Seq(S) /\ Len(SubSeq(text, k + 1, L)) = L - k
      /\ \A i \in 1 .. L - k : SubSeq(text, k + 1, L)[i] = text[k + i]
  <2>1. \A i \in k + 1 .. L : text[i] \in S
    BY <1>1
  <2>2. /\ SubSeq(text, k + 1, L) \in Seq(S)
        /\ Len(SubSeq(text, k + 1, L)) = IF k + 1 <= L THEN L - (k + 1) + 1 ELSE 0
        /\ \A i \in 1 .. L - (k + 1) + 1 : SubSeq(text, k + 1, L)[i] = text[k + 1 + i - 1]
    BY <1>1, <2>1, SubSeqProperties
  <2>3. L - (k + 1) + 1 = L - k /\ \A i \in 1 .. L - k : k + 1 + i - 1 = k + i
    BY <1>1
  <2>4. (IF k + 1 <= L THEN L - (k + 1) + 1 ELSE 0) = L - k
    BY <1>1
  <2> QED BY <2>2, <2>3, <2>4
<1>4. SubSeq(text, 1, k) \o SubSeq(text, k + 1, L) = text
  <2>1. SubSeq(text, 1, k) \o SubSeq(text, k + 1, L) = SubSeq(text, 1, L)
    <3>1. 1 \in 1 .. L + 1 /\ k \in 1 - 1 .. L /\ L \in k .. L
      BY <1>1
    <3> QED BY <3>1, ConcatAdjacentSubSeq DEF L
  <2>2. SubSeq(text, 1, L) = text
    BY SubSeqFull DEF L
  <2> QED BY <2>1, <2>2, Zenon
<1> QED BY <1>2, <1>3, <1>4 DEF After, L

(* Trim leaves out breaks, at the ends of a text.                            *)
Breaks(text) == \A i \in 1 .. Len(text) : text[i] = Break
LEMMA TrimInThree ==
    ASSUME NEW text \in Seq(Printed)
    PROVE  /\ Trim(text) \in Seq(Printed) /\ Len(Trim(text)) <= Len(text)
           /\ \E lead, back \in Seq(Printed) :
                 Breaks(lead) /\ Breaks(back) /\ (lead \o Trim(text)) \o back = text
<1> DEFINE L == Len(text)
<1> DEFINE kept == {i \in DOMAIN text : text[i] # Break}
<1>1. L \in Nat /\ kept \subseteq 1 .. L /\ \A i \in 1 .. L : i \in kept <=> text[i] # Break
  OBVIOUS
<1>2. Trim(text) = IF kept = {} THEN <<>> ELSE SubSeq(text, Min(kept), Max(kept))
  BY DEF Trim
<1> HIDE DEF kept, L, Printed
<1>3. CASE kept = {}
  <2>1. \A i \in 1 .. L : text[i] = Break
    BY <1>1, <1>3
  <2>2. Trim(text) = <<>> /\ <<>> \in Seq(Printed) /\ Len(<<>>) = 0
    BY <1>2, <1>3
  <2>3. (text \o <<>>) \o <<>> = text /\ Breaks(<<>>)
    BY ConcatEmptySeq DEF Breaks
  <2>4. Breaks(text)
    BY <2>1 DEF Breaks, L
  <2>5. \E lead, back \in Seq(Printed) :
           Breaks(lead) /\ Breaks(back) /\ (lead \o Trim(text)) \o back = text
    BY <2>2, <2>3, <2>4, Zenon
  <2> QED BY <1>1, <2>2, <2>5 DEF L
<1>4. CASE kept # {}
  <2> DEFINE a == Min(kept) - 1
  <2> DEFINE b == Max(kept)
  <2>1. Min(kept) \in kept /\ \A m \in kept : Min(kept) <= m
    <3>1. kept \subseteq Nat
      BY <1>1
    <3> QED BY <1>4, <3>1, MinOfNats
  <2>2. b \in kept /\ \A m \in kept : m <= b
    BY <1>1, <1>4, MaxOfBounded
  <2>3. /\ a \in Nat /\ b \in Nat /\ a < b /\ b <= L /\ a + 1 = Min(kept)
        /\ \A i \in 1 .. a : i \notin kept /\ i \in 1 .. L
        /\ \A i \in b + 1 .. L : i \notin kept /\ i \in 1 .. L
    <3>1. \A m \in kept : m \in Nat /\ 1 <= m /\ m <= L
      BY <1>1
    <3>2. /\ a \in Nat /\ a + 1 = Min(kept) /\ b \in Nat /\ a + 1 <= b /\ b <= L
          /\ \A m \in kept : a + 1 <= m /\ m <= b
      BY <2>1, <2>2, <3>1
    <3> HIDE DEF a, b
    <3>3. ASSUME NEW i \in 1 .. a
          PROVE  i \notin kept /\ i \in 1 .. L
      <4>1. i \in 1 .. L /\ ~(a + 1 <= i)
        BY <1>1, <3>2
      <4> QED BY <3>2, <4>1
    <3>4. ASSUME NEW i \in b + 1 .. L
          PROVE  i \notin kept /\ i \in 1 .. L
      <4>1. i \in 1 .. L /\ ~(i <= b)
        BY <1>1, <3>2
      <4> QED BY <3>2, <4>1
    <3> QED BY <1>1, <3>2, <3>3, <3>4
  <2> HIDE DEF a, b
  <2> DEFINE front == SubSeq(text, 1, b)
  <2> DEFINE back == After(text, b)
  <2>4. /\ front \in Seq(Printed) /\ Len(front) = b /\ \A i \in 1 .. b : front[i] = text[i]
        /\ back \in Seq(Printed) /\ Len(back) = L - b /\ \A i \in 1 .. L - b : back[i] = text[b + i]
        /\ front \o back = text
    <3>1. b \in 0 .. Len(text)
      BY <1>1, <2>3 DEF L
    <3> QED BY <3>1, CutInTwo DEF L
  <2> HIDE DEF front, back
  <2> DEFINE lead == SubSeq(front, 1, a)
  <2> DEFINE middle == After(front, a)
  <2>5. /\ lead \in Seq(Printed) /\ Len(lead) = a /\ \A i \in 1 .. a : lead[i] = front[i]
        /\ middle \in Seq(Printed) /\ Len(middle) = b - a /\ lead \o middle = front
        /\ \A i \in 1 .. b - a : middle[i] = front[a + i]
    <3>1. a \in 0 .. Len(front)
      BY <2>3, <2>4
    <3> QED BY <2>4, <3>1, CutInTwo, SMTT(30)
  <2>6. Breaks(back)
    <3>1. \A i \in 1 .. Len(back) : back[i] = Break
      <4> SUFFICES ASSUME NEW i \in 1 .. Len(back) PROVE back[i] = Break
        OBVIOUS
      <4>1. i \in 1 .. L - b /\ b + i \in b + 1 .. L
        BY <1>1, <2>3, <2>4
      <4>2. b + i \notin kept /\ b + i \in 1 .. L
        BY <2>3, <4>1
      <4>3. text[b + i] = Break
        BY <1>1, <4>2
      <4> QED BY <2>4, <4>1, <4>3
    <3> QED BY <3>1 DEF Breaks
  <2>7. Breaks(lead)
    <3>1. \A i \in 1 .. Len(lead) : lead[i] = Break
      <4> SUFFICES ASSUME NEW i \in 1 .. Len(lead) PROVE lead[i] = Break
        OBVIOUS
      <4>1. i \in 1 .. a /\ i \in 1 .. b /\ i \notin kept /\ i \in 1 .. L
        BY <2>3, <2>5
      <4>2. lead[i] = text[i]
        BY <2>4, <2>5, <4>1
      <4> QED BY <1>1, <4>1, <4>2
    <3> HIDE DEF lead
    <3> QED BY <3>1 DEF Breaks
  <2> HIDE DEF lead, middle
  <2>8. Trim(text) = middle
    <3>1. Trim(text) = SubSeq(text, a + 1, b)
      BY <1>2, <1>4, <2>3 DEF b
    <3> DEFINE trimmed == SubSeq(text, a + 1, b)
    <3>2. /\ trimmed \in Seq(Printed) /\ Len(trimmed) = b - a
          /\ \A i \in 1 .. b - a : trimmed[i] = text[a + i]
      <4>1. \A i \in a + 1 .. b : text[i] \in Printed
        <5>1. \A i \in 1 .. L : text[i] \in Printed
          BY DEF L
        <5>2. \A i \in a + 1 .. b : i \in 1 .. L
          BY <1>1, <2>3
        <5> QED BY <5>1, <5>2
      <4>2. /\ trimmed \in Seq(Printed)
            /\ Len(trimmed) = IF a + 1 <= b THEN b - (a + 1) + 1 ELSE 0
            /\ \A i \in 1 .. b - (a + 1) + 1 : trimmed[i] = text[a + 1 + i - 1]
        BY <2>3, <4>1, SubSeqProperties
      <4> QED BY <2>3, <4>2
    <3> HIDE DEF trimmed
    <3>3. \A i \in 1 .. b - a : trimmed[i] = middle[i]
      <4> SUFFICES ASSUME NEW i \in 1 .. b - a PROVE trimmed[i] = middle[i]
        OBVIOUS
      <4>1. a + i \in 1 .. b
        BY <2>3
      <4>2. front[a + i] = text[a + i]
        BY <2>4, <4>1
      <4> QED BY <2>5, <3>2, <4>2
    <3>4. trimmed = middle
      BY <2>5, <3>2, <3>3, SeqEqual
    <3> QED BY <3>1, <3>4 DEF trimmed
  <2>9. Len(middle) <= L
    BY <1>1, <2>3, <2>5
  <2>10. (lead \o middle) \o back = text
    BY <2>4, <2>5, Zenon
  <2> QED BY <2>4, <2>5, <2>6, <2>7, <2>8, <2>9, <2>10 DEF L
<1> QED BY <1>3, <1>4

(* What is left out at the ends of a text is silent.                         *)
LEMMA TrimKeeps ==
    ASSUME NEW text \in Seq(Printed)
    PROVE  /\ Trim(text) \in Seq(Printed) /\ Len(Trim(text)) <= Len(text)
           /\ Said(Trim(text)) = Said(text)
<1>1. Trim(text) \in Seq(Printed) /\ Len(Trim(text)) <= Len(text)
  BY TrimInThree
<1>2. PICK lead \in Seq(Printed), back \in Seq(Printed) :
        Breaks(lead) /\ Breaks(back) /\ (lead \o Trim(text)) \o back = text
  BY TrimInThree
<1> DEFINE middle == Trim(text)
<1> DEFINE front == lead \o middle
<1>3. middle \in Seq(Printed) /\ front \in Seq(Printed) /\ front \o back = text
  BY <1>1, <1>2, ConcatAt
<1>4. Said(lead) = <<>> /\ Said(back) = <<>>
  BY <1>2, BreaksSilent DEF Breaks
<1>5. Said(front \o back) = Said(front) \o Said(back)
  <2> HIDE DEF front
  <2> QED BY <1>3, SaidBoth
<1>6. Said(lead \o middle) = Said(lead) \o Said(middle)
  <2> HIDE DEF middle
  <2> QED BY <1>3, SaidBoth
<1> DEFINE sm == Said(middle)
<1>7. sm \in Seq(WordKind)
  BY <1>3, SaidTyped
<1>8. <<>> \o sm = sm /\ sm \o <<>> = sm
  <2> HIDE DEF sm, WordKind
  <2> QED BY <1>7, ConcatEmptySeq
<1>9. Said(text) = sm
  BY <1>3, <1>4, <1>5, <1>6, <1>8, Zenon
<1> QED BY <1>1, <1>9

-----------------------------------------------------------------------------
(* The words on both sides of a cut *)

(* What follows the cut has, at most, a closing mark more among its words,   *)
(* the one that stands at its start now.                                     *)
Mark(x) == x = <<>> \/ \E w \in WordKind : x = <<w>> /\ w.norm = None

LEMMA PiecesInTwo ==
    ASSUME NEW a \in Seq(Printed), NEW b \in Seq(Printed)
    PROVE  /\ a \o b \in Seq(Printed) /\ Len(a \o b) = Len(a) + Len(b)
           /\ Len(a) \in Nat /\ Len(b) \in Nat
           /\ \A i \in 1 .. Len(a) : Piece(a \o b, i) = Piece(a, i)
           /\ \A i \in 2 .. Len(b) : Piece(a \o b, Len(a) + i) = Piece(b, i)
           /\ b # <<>> =>
                \/ Piece(a \o b, Len(a) + 1) = Piece(b, 1)
                \/ /\ Piece(a \o b, Len(a) + 1) = <<>>
                   /\ ~Term(b[1]) /\ b[1] # Break /\ a # <<>> /\ a[Len(a)] # Break
<1> DEFINE ab == a \o b
<1> DEFINE A == Len(a)
<1> DEFINE B == Len(b)
<1> HIDE DEF Printed
<1>1. /\ ab \in Seq(Printed) /\ Len(ab) = A + B /\ A \in Nat /\ B \in Nat
      /\ \A n \in 1 .. A : ab[n] = a[n]
      /\ \A n \in 1 .. B : ab[A + n] = b[n]
  BY ConcatAt
<1>0. (a # <<>> <=> A # 0) /\ (b # <<>> <=> B # 0)
  OBVIOUS
<1> HIDE DEF ab, A, B
<1>2. ASSUME NEW i \in 1 .. A
      PROVE  Piece(ab, i) = Piece(a, i)
  <2>1. ab[i] = a[i]
    BY <1>1
  <2>2. i = 1 \/ i - 1 \in 1 .. A
    BY <1>1
  <2>3. i = 1 \/ ab[i - 1] = a[i - 1]
    BY <1>1, <2>2
  <2>4. Opens(ab, i) <=> Opens(a, i)
    BY <2>1, <2>3 DEF Opens
  <2> QED BY <2>1, <2>4, Zenon DEF Piece
<1>3. ASSUME NEW i \in 2 .. B
      PROVE  Piece(ab, A + i) = Piece(b, i)
  <2>1. /\ i \in 1 .. B /\ i - 1 \in 1 .. B /\ (A + i) - 1 = A + (i - 1)
        /\ i # 1 /\ A + i # 1
    BY <1>1
  <2>2. ab[A + i] = b[i] /\ ab[(A + i) - 1] = b[i - 1]
    BY <1>1, <2>1
  <2>3. Opens(ab, A + i) <=> Opens(b, i)
    <3>1. Opens(ab, A + i) <=> ab[A + i] # Break /\ ab[(A + i) - 1] = Break
      BY <2>1, Zenon DEF Opens
    <3>2. Opens(b, i) <=> b[i] # Break /\ b[i - 1] = Break
      BY <2>1, Zenon DEF Opens
    <3> QED BY <2>2, <3>1, <3>2, Zenon
  <2> QED BY <2>2, <2>3, Zenon DEF Piece
<1>4. ASSUME b # <<>>
      PROVE  \/ Piece(ab, A + 1) = Piece(b, 1)
             \/ Piece(ab, A + 1) = <<>> /\ ~Term(b[1]) /\ b[1] # Break /\ a # <<>> /\ a[A] # Break
  <2>1. 1 \in 1 .. B /\ (A + 1) - 1 = A
    BY <1>0, <1>1, <1>4
  <2>2. ab[A + 1] = b[1]
    BY <1>1, <2>1
  <2>3. A # 0 => A \in 1 .. A /\ ab[A] = a[A] /\ A + 1 # 1
    BY <1>1
  <2>4. Opens(ab, A + 1) <=> b[1] # Break /\ (A = 0 \/ a[A] = Break)
    BY <1>1, <2>1, <2>2, <2>3 DEF Opens
  <2>5. Opens(b, 1) <=> b[1] # Break
    BY DEF Opens
  <2>6. /\ Piece(ab, A + 1) = IF Term(b[1]) \/ Opens(ab, A + 1) THEN <<Word(b[1])>> ELSE <<>>
        /\ Piece(b, 1) = IF Term(b[1]) \/ Opens(b, 1) THEN <<Word(b[1])>> ELSE <<>>
    BY <2>2, Zenon DEF Piece
  <2>7. CASE Term(b[1]) \/ Opens(ab, A + 1)
    BY <2>4, <2>5, <2>6, <2>7, Zenon
  <2>8. CASE ~Term(b[1]) /\ ~Opens(ab, A + 1) /\ b[1] = Break
    BY <2>5, <2>6, <2>8, Zenon
  <2>9. CASE ~Term(b[1]) /\ ~Opens(ab, A + 1) /\ b[1] # Break
    <3>1. A # 0 /\ a[A] # Break
      BY <2>4, <2>9
    <3> QED BY <1>0, <2>6, <2>9, <3>1, Zenon
  <2> QED BY <2>7, <2>8, <2>9, Zenon
<1> QED BY <1>1, <1>2, <1>3, <1>4 DEF ab, A, B

LEMMA FirstAndRest ==
    ASSUME NEW E, NEW ps \in Seq(Seq(E)), NEW qs \in Seq(Seq(E)), Len(ps) = Len(qs), ps # <<>>,
           \A i \in 2 .. Len(ps) : ps[i] = qs[i]
    PROVE  \E r \in Seq(E) : Concatenated(ps) = ps[1] \o r /\ Concatenated(qs) = qs[1] \o r
<1> DEFINE V == Seq(E)
<1> DEFINE L == Len(ps)
<1>1. L \in Nat /\ 1 \in 0 .. L /\ 1 \in 1 .. L /\ ps \in Seq(V) /\ qs \in Seq(V) /\ Len(qs) = L
  OBVIOUS
<1> HIDE DEF V, L
<1>2. ps[1] \in V /\ qs[1] \in V
  BY <1>1 DEF L
<1> DEFINE First(s) == SubSeq(s, 1, 1)
<1>3. ASSUME NEW s \in Seq(V), Len(s) = L
      PROVE  /\ s = First(s) \o After(s, 1) /\ First(s) \in Seq(V) /\ After(s, 1) \in Seq(V)
             /\ First(s) = <<s[1]>>
             /\ Len(After(s, 1)) = L - 1 /\ \A i \in 1 .. L - 1 : After(s, 1)[i] = s[1 + i]
  <2>1. /\ s = First(s) \o After(s, 1) /\ First(s) \in Seq(V) /\ After(s, 1) \in Seq(V)
        /\ Len(First(s)) = 1 /\ \A i \in 1 .. 1 : First(s)[i] = s[i]
        /\ Len(After(s, 1)) = L - 1 /\ \A i \in 1 .. L - 1 : After(s, 1)[i] = s[1 + i]
    <3>1. 1 \in 0 .. Len(s)
      BY <1>1, <1>3
    <3>2. /\ SubSeq(s, 1, 1) \in Seq(V) /\ Len(SubSeq(s, 1, 1)) = 1
          /\ \A i \in 1 .. 1 : SubSeq(s, 1, 1)[i] = s[i]
          /\ After(s, 1) \in Seq(V) /\ Len(After(s, 1)) = Len(s) - 1
          /\ \A i \in 1 .. Len(s) - 1 : After(s, 1)[i] = s[1 + i]
          /\ SubSeq(s, 1, 1) \o After(s, 1) = s
      BY <1>3, <3>1, CutInTwo, Zenon
    <3> QED BY <1>3, <3>2, Zenon
  <2> DEFINE one == <<s[1]>>
  <2>2. s[1] \in V
    BY <1>1, <1>3
  <2>3. one \in Seq(V) /\ Len(one) = 1 /\ one[1] = s[1]
    BY <2>2
  <2> HIDE DEF one, First
  <2>4. First(s) = one
    <3>1. First(s)[1] = s[1]
      BY <2>1
    <3>2. \A i \in 1 .. 1 : First(s)[i] = one[i]
      BY <2>3, <3>1
    <3> QED BY <2>1, <2>3, <3>2, SeqEqual
  <2> QED BY <2>1, <2>4 DEF one
<1> HIDE DEF First
<1>4. After(ps, 1) = After(qs, 1)
  <2>1. \A i \in 1 .. L - 1 : 1 + i \in 2 .. Len(ps)
    BY <1>1 DEF L
  <2>2. \A i \in 1 .. L - 1 : After(ps, 1)[i] = After(qs, 1)[i]
    BY <1>1, <1>3, <2>1 DEF L
  <2> DEFINE u == After(ps, 1)
  <2> DEFINE v == After(qs, 1)
  <2>3. u \in Seq(V) /\ v \in Seq(V) /\ Len(u) = L - 1 /\ Len(v) = L - 1
    BY <1>1, <1>3 DEF L
  <2>4. \A i \in 1 .. Len(u) : u[i] = v[i]
    BY <2>2, <2>3
  <2> HIDE DEF u, v
  <2>5. u = v
    BY <2>3, <2>4, SeqEqual
  <2> QED BY <2>5 DEF u, v
<1>5. ASSUME NEW s \in Seq(V), Len(s) = L
      PROVE  Concatenated(s) = s[1] \o Concatenated(After(s, 1)) /\ Concatenated(After(s, 1)) \in V
  <2> DEFINE head == First(s)
  <2> DEFINE tail == After(s, 1)
  <2>1. head \in Seq(Seq(E)) /\ tail \in Seq(Seq(E)) /\ s = head \o tail /\ head = <<s[1]>>
    BY <1>3, <1>5 DEF V
  <2>2. s[1] \in Seq(E)
    BY <1>1, <1>5 DEF V
  <2> HIDE DEF head, tail
  <2>3. /\ Concatenated(head \o tail) = Concatenated(head) \o Concatenated(tail)
        /\ Concatenated(tail) \in Seq(E)
    BY <2>1, ConcatenatedBoth, ConcatenatedTyped
  <2>4. Concatenated(<<s[1]>>) = s[1]
    BY <2>2, ConcatenatedOne
  <2> QED BY <2>1, <2>3, <2>4, Zenon DEF V, tail
<1> QED BY <1>1, <1>4, <1>5 DEF V, L

LEMMA WordsInTwo ==
    ASSUME NEW a \in Seq(Printed), NEW b \in Seq(Printed)
    PROVE  \E x \in Seq(WordKind), X \in Seq(WordKind) :
              /\ WordsOf(b) = x \o X /\ WordsOf(a \o b) = WordsOf(a) \o X /\ Mark(x)
              /\ a = <<>> \/ b = <<>> \/ a[Len(a)] = Break \/ b[1] = Break \/ Term(b[1]) => x = <<>>
<1> DEFINE ab == a \o b
<1> DEFINE A == Len(a)
<1> DEFINE B == Len(b)
<1> DEFINE pa == Pieces(a)
<1> DEFINE pb == Pieces(b)
<1> DEFINE pq == [i \in 1 .. B |-> Piece(ab, A + i)]
<1> DEFINE V == Seq(WordKind)
<1>1. /\ ab \in Seq(Printed) /\ Len(ab) = A + B /\ A \in Nat /\ B \in Nat
      /\ \A i \in 1 .. A : Piece(ab, i) = Piece(a, i)
      /\ \A i \in 2 .. B : Piece(ab, A + i) = Piece(b, i)
      /\ b # <<>> =>
           \/ Piece(ab, A + 1) = Piece(b, 1)
           \/ /\ Piece(ab, A + 1) = <<>>
              /\ ~Term(b[1]) /\ b[1] # Break /\ a # <<>> /\ a[A] # Break
  BY PiecesInTwo
<1>2. /\ pa \in Seq(V) /\ Len(pa) = A /\ WordsOf(a) = Concatenated(pa)
      /\ pb \in Seq(V) /\ Len(pb) = B /\ WordsOf(b) = Concatenated(pb)
  BY WordsAreSome
<1> HIDE DEF ab, A, B, V
<1>3. /\ Pieces(ab) \in Seq(V) /\ Len(Pieces(ab)) = A + B /\ WordsOf(ab) = Concatenated(Pieces(ab))
  BY <1>1, WordsAreSome DEF V
<1>4. pq \in Seq(V) /\ Len(pq) = B /\ \A i \in 1 .. B : pq[i] = Piece(ab, A + i)
  <2>1. \A i \in 1 .. B : Piece(ab, A + i) \in V
    <3> SUFFICES ASSUME NEW i \in 1 .. B PROVE Piece(ab, A + i) \in V
      OBVIOUS
    <3>1. A + i \in 1 .. Len(ab)
      BY <1>1
    <3> QED BY <1>1, <3>1, PieceTyped DEF V
  <2> QED BY <1>1, <2>1
<1>5. /\ \A i \in 1 .. A : pa[i] = Piece(a, i)
      /\ \A i \in 1 .. B : pb[i] = Piece(b, i)
      /\ \A i \in 1 .. A + B : Pieces(ab)[i] = Piece(ab, i)
  BY <1>1 DEF Pieces, A, B
<1> HIDE DEF pa, pb, pq
<1>6. Pieces(ab) = pa \o pq
  <2> DEFINE both == pa \o pq
  <2>1. /\ both \in Seq(V) /\ Len(both) = A + B
        /\ \A i \in 1 .. A : both[i] = pa[i]
        /\ \A i \in 1 .. B : both[A + i] = pq[i]
    <3>1. /\ both \in Seq(V) /\ Len(both) = Len(pa) + Len(pq)
          /\ \A n \in 1 .. Len(pa) : both[n] = pa[n]
          /\ \A n \in 1 .. Len(pq) : both[Len(pa) + n] = pq[n]
      <4>1. pa \in Seq(V) /\ pq \in Seq(V)
        BY <1>2, <1>4
      <4> QED BY <4>1, ConcatAt
    <3> QED BY <1>2, <1>4, <3>1, Zenon
  <2> HIDE DEF both
  <2>2. ASSUME NEW i \in 1 .. A + B
        PROVE  Pieces(ab)[i] = both[i]
    <3>1. CASE i \in 1 .. A
      BY <1>1, <1>5, <2>1, <3>1
    <3>2. CASE i \notin 1 .. A
      <4>1. PICK j \in 1 .. B : i = A + j
        <5>1. i - A \in 1 .. B /\ i = A + (i - A)
          BY <1>1, <3>2
        <5> QED BY <5>1
      <4> QED BY <1>4, <1>5, <2>1, <4>1
    <3> QED BY <3>1, <3>2
  <2>3. Pieces(ab) = both
    BY <1>3, <2>1, <2>2, SeqEqual
  <2> QED BY <2>3 DEF both
<1> DEFINE X == Concatenated(pq)
<1>7. WordsOf(ab) = WordsOf(a) \o X /\ X \in V
  <2>1. pa \in Seq(Seq(WordKind)) /\ pq \in Seq(Seq(WordKind))
    BY <1>2, <1>4 DEF V
  <2>2. Concatenated(pa \o pq) = Concatenated(pa) \o Concatenated(pq) /\ Concatenated(pq) \in V
    BY <2>1, ConcatenatedBoth, ConcatenatedTyped DEF V
  <2> QED BY <1>2, <1>3, <1>6, <2>2, Zenon
<1>8. <<>> \in V /\ \A s \in V : <<>> \o s = s
  <2>1. \A s \in Seq(WordKind) : <<>> \o s = s
    <3> HIDE DEF WordKind
    <3> QED BY ConcatEmptySeq
  <2> QED BY <2>1 DEF V
<1>9. CASE b = <<>> \/ pq[1] = pb[1]
  <2>1. pq = pb
    <3>1. CASE b = <<>>
      <4>1. B = 0 /\ \A i \in 1 .. B : pq[i] = pb[i]
        BY <3>1 DEF B
      <4> QED BY <1>2, <1>4, <4>1, SeqEqual
    <3>2. CASE pq[1] = pb[1]
      <4>1. \A i \in 1 .. B : i = 1 \/ i \in 2 .. B
        BY <1>1
      <4>2. \A i \in 1 .. B : pq[i] = pb[i]
        BY <1>1, <1>4, <1>5, <3>2, <4>1
      <4> QED BY <1>2, <1>4, <4>2, SeqEqual
    <3> QED BY <1>9, <3>1, <3>2
  <2>2. WordsOf(b) = <<>> \o X /\ Mark(<<>>)
    BY <1>2, <1>7, <1>8, <2>1 DEF Mark
  <2> HIDE DEF X
  <2> QED BY <1>7, <1>8, <2>2, Zenon DEF V, ab
<1>10. CASE b # <<>> /\ pq[1] # pb[1]
  <2>1. 1 \in 1 .. B
    <3>1. B # 0
      BY <1>10 DEF B
    <3> QED BY <1>1, <3>1
  <2>2. pq[1] = Piece(ab, A + 1) /\ pb[1] = Piece(b, 1)
    BY <1>4, <1>5, <2>1
  <2>3. /\ pq[1] = <<>> /\ ~Term(b[1]) /\ b[1] # Break /\ a # <<>> /\ a[A] # Break
    BY <1>1, <1>10, <2>2
  <2>4. Word(b[1]) \in WordKind /\ pb[1] = <<Word(b[1])>> /\ pb[1] \in V
    <3>1. /\ Piece(b, 1) \in Seq(WordKind) /\ Word(b[1]) \in WordKind
          /\ Piece(b, 1) = <<Word(b[1])>> \/ Piece(b, 1) = <<>>
      BY <2>1, PieceTyped DEF B
    <3> QED BY <1>10, <2>2, <2>3, <3>1 DEF V
  <2>5. Word(b[1]).norm = None
    BY <2>3 DEF Word
  <2>6. PICK r \in V : Concatenated(pq) = pq[1] \o r /\ Concatenated(pb) = pb[1] \o r
    <3>1. /\ pq \in Seq(Seq(WordKind)) /\ pb \in Seq(Seq(WordKind))
          /\ Len(pq) = Len(pb) /\ pq # <<>> /\ \A i \in 2 .. Len(pq) : pq[i] = pb[i]
      <4>1. \A i \in 2 .. B : i \in 1 .. B
        BY <1>1
      <4>2. \A i \in 2 .. B : pq[i] = pb[i]
        BY <1>1, <1>4, <1>5, <4>1
      <4> QED BY <1>2, <1>4, <2>1, <4>2 DEF V
    <3> QED BY <3>1, FirstAndRest DEF V
  <2>7. X = r
    BY <1>8, <2>3, <2>6, Zenon
  <2>8. Mark(pb[1])
    BY <2>4, <2>5 DEF Mark
  <2>9. WordsOf(b) = pb[1] \o X
    BY <1>2, <2>6, <2>7, Zenon
  <2> DEFINE x == pb[1]
  <2> HIDE DEF X, x
  <2>10. x \in V /\ Mark(x) /\ WordsOf(b) = x \o X
    BY <2>4, <2>8, <2>9 DEF x
  <2>11. a = <<>> \/ b = <<>> \/ a[Len(a)] = Break \/ b[1] = Break \/ Term(b[1]) => x = <<>>
    BY <1>10, <2>3, Zenon DEF A
  <2> QED BY <1>7, <2>10, <2>11, Zenon DEF V, ab
<1> QED BY <1>9, <1>10
LEMMA BreaksHaveNoWords ==
    ASSUME NEW text \in Seq(Printed), Breaks(text)
    PROVE  WordsOf(text) = <<>>
<1>1. Pieces(text) \in Seq(Seq(WordKind)) /\ Len(Pieces(text)) = Len(text)
      /\ WordsOf(text) = Concatenated(Pieces(text))
  BY WordsAreSome
<1>2. ~Term(Break)
  <2>1. Break.sym = Para
    BY DEF Break, Symbol
  <2> QED BY <2>1, Zenon DEF Term
<1>3. ASSUME NEW i \in 1 .. Len(text)
      PROVE  Pieces(text)[i] = <<>>
  <2>1. text[i] = Break
    BY DEF Breaks
  <2>2. ~Opens(text, i) /\ ~Term(text[i])
    BY <1>2, <2>1 DEF Opens
  <2> QED BY <2>2, Zenon DEF Pieces, Piece
<1> DEFINE pieces == Pieces(text)
<1> HIDE DEF pieces
<1>4. Concatenated(pieces) = <<>>
  <2>1. pieces \in Seq(Seq(WordKind)) /\ Len(pieces) = Len(text)
        /\ \A i \in 1 .. Len(text) : pieces[i] = <<>>
    BY <1>1, <1>3 DEF pieces
  <2> QED BY <2>1, ConcatenatedEmpties
<1> QED BY <1>1, <1>4 DEF pieces

LEMMA WordsOfTyped ==
    ASSUME NEW text \in Seq(Printed)
    PROVE  /\ WordsOf(text) \in Seq(WordKind) /\ Len(WordsOf(text)) \in Nat
           /\ WordsOf(text) \o <<>> = WordsOf(text) /\ <<>> \o WordsOf(text) = WordsOf(text)
<1> DEFINE words == WordsOf(text)
<1>1. words \in Seq(WordKind)
  BY TermsOfWords
<1> HIDE DEF words, WordKind
<1>2. Len(words) \in Nat /\ words \o <<>> = words /\ <<>> \o words = words
  BY <1>1, ConcatEmptySeq
<1> QED BY <1>1, <1>2 DEF words

(* A break on either side of a cut, and no word changes. *)
LEMMA WordsAtBreak ==
    ASSUME NEW a \in Seq(Printed), NEW b \in Seq(Printed),
           a = <<>> \/ b = <<>> \/ a[Len(a)] = Break \/ b[1] = Break
    PROVE  WordsOf(a \o b) = WordsOf(a) \o WordsOf(b)
<1>1. PICK x \in Seq(WordKind), X \in Seq(WordKind) :
         /\ WordsOf(b) = x \o X /\ WordsOf(a \o b) = WordsOf(a) \o X /\ x = <<>>
  BY WordsInTwo
<1> HIDE DEF WordKind
<1>2. <<>> \o X = X
  BY ConcatEmptySeq
<1> QED BY <1>1, <1>2, Zenon

LEMMA TrimWords ==
    ASSUME NEW text \in Seq(Printed)
    PROVE  /\ Trim(text) \in Seq(Printed) /\ Len(Trim(text)) <= Len(text)
           /\ WordsOf(Trim(text)) = WordsOf(text)
<1>1. Trim(text) \in Seq(Printed) /\ Len(Trim(text)) <= Len(text)
  BY TrimInThree
<1>2. PICK lead \in Seq(Printed), back \in Seq(Printed) :
        Breaks(lead) /\ Breaks(back) /\ (lead \o Trim(text)) \o back = text
  BY TrimInThree
<1> DEFINE middle == Trim(text)
<1> DEFINE front == lead \o middle
<1>3. middle \in Seq(Printed) /\ front \in Seq(Printed) /\ front \o back = text
  BY <1>1, <1>2, ConcatAt
<1>4. WordsOf(lead) = <<>> /\ WordsOf(back) = <<>>
  BY <1>2, BreaksHaveNoWords
<1>5. ASSUME NEW s \in Seq(Printed), Breaks(s)
      PROVE  s = <<>> \/ (s[1] = Break /\ s[Len(s)] = Break)
  <2> HIDE DEF Printed
  <2>1. Len(s) \in Nat /\ (Len(s) = 0 => s = <<>>)
    OBVIOUS
  <2>2. Len(s) # 0 => 1 \in 1 .. Len(s) /\ Len(s) \in 1 .. Len(s)
    BY <2>1
  <2> QED BY <1>5, <2>1, <2>2 DEF Breaks
<1>6. WordsOf(front \o back) = WordsOf(front) \o WordsOf(back)
  <2>1. back = <<>> \/ back[1] = Break
    BY <1>2, <1>5
  <2> HIDE DEF front
  <2> QED BY <1>3, <2>1, WordsAtBreak
<1>7. WordsOf(lead \o middle) = WordsOf(lead) \o WordsOf(middle)
  <2>1. lead = <<>> \/ lead[Len(lead)] = Break
    BY <1>2, <1>5
  <2> HIDE DEF middle
  <2> QED BY <1>3, <2>1, WordsAtBreak
<1>8. <<>> \o WordsOf(middle) = WordsOf(middle) /\ WordsOf(middle) \o <<>> = WordsOf(middle)
  BY <1>3, WordsOfTyped
<1>9. WordsOf(text) = WordsOf(middle)
  BY <1>3, <1>4, <1>6, <1>7, <1>8, Zenon
<1> QED BY <1>1, <1>9

-----------------------------------------------------------------------------
(* What the parts say *)

(* What parts say one after another.                                         *)
PartSays == [text \in Seq(Printed) |-> Said(text)]
SaidIn(chunks) == Concatenated(Mapped(chunks, PartSays))

LEMMA PartSaysTyped == Maps(PartSays, Seq(Printed), Seq(WordKind))
<1>1. \A text \in Seq(Printed) : Said(text) \in Seq(WordKind)
  BY SaidTyped
<1> HIDE DEF Printed, WordKind
<1> QED BY <1>1 DEF PartSays, Maps

LEMMA SaidInTyped ==
    ASSUME NEW chunks \in Seq(Seq(Printed))
    PROVE  /\ SaidIn(chunks) \in Seq(WordKind)
           /\ Mapped(chunks, PartSays) \in Seq(Seq(WordKind))
           /\ Len(Mapped(chunks, PartSays)) = Len(chunks)
<1>1. Mapped(chunks, PartSays) \in Seq(Seq(WordKind)) /\ Len(Mapped(chunks, PartSays)) = Len(chunks)
  BY PartSaysTyped, MappedTyped
<1> QED BY <1>1, ConcatenatedTyped DEF SaidIn

LEMMA SaidInNone == SaidIn(<<>>) = <<>>
<1>1. Mapped(<<>>, PartSays) = <<>>
  BY DEF Mapped
<1> QED BY <1>1, ConcatenatedNone DEF SaidIn

LEMMA SaidInAppend ==
    ASSUME NEW chunks \in Seq(Seq(Printed)), NEW chunk \in Seq(Printed)
    PROVE  /\ Append(chunks, chunk) \in Seq(Seq(Printed))
           /\ SaidIn(Append(chunks, chunk)) = SaidIn(chunks) \o Said(chunk)
<1> DEFINE V == Seq(Printed)
<1> DEFINE one == <<chunk>>
<1>1. chunks \in Seq(V) /\ chunk \in V
  OBVIOUS
<1>2. Append(chunks, chunk) \in Seq(V) /\ Append(chunks, chunk) = chunks \o one
  <2> HIDE DEF V
  <2> QED BY <1>1, AppendIsConcat, AppendProperties
<1>3. one \in Seq(V) /\ Mapped(one, PartSays) = <<Said(chunk)>>
  <2>1. one \in Seq(V) /\ Len(one) = 1 /\ one[1] = chunk
    BY <1>1
  <2>2. PartSays[chunk] = Said(chunk)
    BY <1>1 DEF PartSays
  <2> HIDE DEF one, V
  <2>3. Mapped(one, PartSays) = <<PartSays[chunk]>>
    BY <2>1 DEF Mapped
  <2> QED BY <2>1, <2>2, <2>3
<1> HIDE DEF one
<1>4. Mapped(chunks \o one, PartSays) = Mapped(chunks, PartSays) \o Mapped(one, PartSays)
  <2>1. chunks \in Seq(Seq(Printed)) /\ one \in Seq(Seq(Printed))
    BY <1>1, <1>3
  <2> HIDE DEF V
  <2> QED BY <2>1, PartSaysTyped, MappedBoth
<1> DEFINE ms == Mapped(chunks, PartSays)
<1> DEFINE mo == Mapped(one, PartSays)
<1>5. ms \in Seq(Seq(WordKind)) /\ mo \in Seq(Seq(WordKind))
  BY <1>1, <1>3, SaidInTyped
<1>6. Concatenated(mo) = Said(chunk)
  <2>1. Said(chunk) \in Seq(WordKind)
    BY SaidTyped
  <2> QED BY <1>3, <2>1, ConcatenatedOne
<1> HIDE DEF ms, mo
<1>7. Concatenated(ms \o mo) = Concatenated(ms) \o Concatenated(mo)
  BY <1>5, ConcatenatedBoth
<1>8. SaidIn(Append(chunks, chunk)) = SaidIn(chunks) \o Said(chunk)
  BY <1>2, <1>4, <1>6, <1>7, Zenon DEF SaidIn, ms, mo
<1> QED BY <1>2, <1>8

(* A cut leaves something before it, and no more than fits.                  *)
LEMMA CutFits ==
    ASSUME NEW text
    PROVE  Cut(text) \in 1 .. Chunk
<1>0. Chunk \in Nat /\ Chunk >= 1 /\ Chunk \in 1 .. Chunk
  BY SpeechAssumption
<1>1. ASSUME NEW T, T \subseteq 1 .. Chunk, NEW default
      PROVE  Largest(T, default) \in 1 .. Chunk \/ Largest(T, default) = default
  <2>1. CASE T = {}
    BY <2>1 DEF Largest
  <2>2. CASE T # {}
    <3>1. Max(T) \in T
      BY <1>0, <1>1, <2>2, MaxOfBounded
    <3> QED BY <1>1, <2>2, <3>1 DEF Largest
  <2> QED BY <2>1, <2>2
<1>2. /\ Paragraphs(text) \subseteq 1 .. Chunk /\ Sentences(text) \subseteq 1 .. Chunk
      /\ Spaces(text) \subseteq 1 .. Chunk
  BY Zenon DEF Paragraphs, Sentences, Spaces, Cuts
<1> DEFINE paragraph == Largest(Paragraphs(text), 0)
<1> DEFINE sentence == Largest(Sentences(text), 0)
<1> DEFINE space == Largest(Spaces(text), Chunk)
<1>3. /\ paragraph \in 1 .. Chunk \/ paragraph = 0
      /\ sentence \in 1 .. Chunk \/ sentence = 0
      /\ space \in 1 .. Chunk
  BY <1>0, <1>1, <1>2
<1>4. Cut(text) = IF HalfFull(paragraph) THEN paragraph
                  ELSE IF HalfFull(sentence) THEN sentence ELSE space
  BY DEF Cut
<1> HIDE DEF paragraph, sentence, space
<1>5. ~HalfFull(0)
  BY <1>0 DEF HalfFull
<1> QED BY <1>3, <1>4, <1>5

(* The split so far: parts that fit, what is still to be split, and together *)
(* what the text says.                                                       *)
Splitting == [chunks : Seq(Seq(Printed)), rest : Seq(Printed)]
Fits(chunks) == \A i \in 1 .. Len(chunks) : Len(chunks[i]) \in 1 .. Chunk
Keeps(s, said) == /\ s \in Splitting
                  /\ SaidIn(s.chunks) \o Said(s.rest) = said
                  /\ Fits(s.chunks)

LEMMA FitsAppend ==
    ASSUME NEW chunks \in Seq(Seq(Printed)), NEW chunk \in Seq(Printed), chunk # <<>>,
           Len(chunk) <= Chunk, Fits(chunks)
    PROVE  Fits(Append(chunks, chunk))
<1>1. Len(chunk) \in 1 .. Chunk
  <2>1. Len(chunk) \in Nat /\ Len(chunk) # 0
    OBVIOUS
  <2> QED BY <2>1, SpeechAssumption
<1> DEFINE V == Seq(Printed)
<1>2. chunks \in Seq(V) /\ chunk \in V
  OBVIOUS
<1> DEFINE more == Append(chunks, chunk)
<1> HIDE DEF V
<1>3. /\ Len(more) = Len(chunks) + 1 /\ Len(chunks) \in Nat
      /\ (\A i \in 1 .. Len(chunks) : more[i] = chunks[i]) /\ more[Len(chunks) + 1] = chunk
  BY <1>2, AppendProperties
<1> HIDE DEF more
<1>4. Fits(more)
  <2> SUFFICES ASSUME NEW i \in 1 .. Len(more) PROVE Len(more[i]) \in 1 .. Chunk
    BY DEF Fits
  <2>1. i \in 1 .. Len(chunks) \/ i = Len(chunks) + 1
    BY <1>3
  <2> QED BY <1>1, <1>3, <2>1 DEF Fits
<1> QED BY <1>4 DEF more

LEMMA NextChunkKeeps ==
    ASSUME NEW said, NEW s, Keeps(s, said)
    PROVE  /\ Keeps(NextChunk(s), said)
           /\ Len(NextChunk(s).rest) <= Chunk \/ Len(NextChunk(s).rest) < Len(s.rest)
<1>0. Chunk \in Nat
  BY SpeechAssumption
<1>1. /\ s.chunks \in Seq(Seq(Printed)) /\ s.rest \in Seq(Printed) /\ Fits(s.chunks)
      /\ SaidIn(s.chunks) \o Said(s.rest) = said
  BY DEF Keeps, Splitting
<1>2. Len(s.rest) \in Nat
  BY <1>1
<1>3. CASE Len(s.rest) <= Chunk
  <2>1. NextChunk(s) = s
    BY <1>3 DEF NextChunk
  <2> QED BY <1>3, <2>1
<1>4. CASE ~(Len(s.rest) <= Chunk)
  <2> DEFINE k == Cut(s.rest)
  <2> DEFINE front == SubSeq(s.rest, 1, k)
  <2> DEFINE back == After(s.rest, k)
  <2> DEFINE chunk == Trim(front)
  <2> DEFINE chunks == IF chunk = <<>> THEN s.chunks ELSE Append(s.chunks, chunk)
  <2> DEFINE rest == Trim(back)
  <2>1. NextChunk(s) = [chunks |-> chunks, rest |-> rest]
    BY <1>4 DEF NextChunk
  <2>2. k \in 1 .. Chunk /\ k \in 0 .. Len(s.rest)
    <3>1. k \in 1 .. Chunk
      BY CutFits
    <3> HIDE DEF k
    <3> QED BY <1>0, <1>2, <1>4, <3>1
  <2> HIDE DEF k
  <2>3. /\ front \in Seq(Printed) /\ Len(front) = k /\ front \o back = s.rest
        /\ back \in Seq(Printed) /\ Len(back) = Len(s.rest) - k
    <3> DEFINE text == s.rest
    <3>1. text \in Seq(Printed) /\ k \in 0 .. Len(text)
      BY <1>1, <2>2
    <3> HIDE DEF text
    <3>2. /\ SubSeq(text, 1, k) \in Seq(Printed) /\ Len(SubSeq(text, 1, k)) = k
          /\ SubSeq(text, 1, k) \o After(text, k) = text
          /\ After(text, k) \in Seq(Printed) /\ Len(After(text, k)) = Len(text) - k
      BY <3>1, CutInTwo
    <3> QED BY <3>2 DEF text
  <2> HIDE DEF front, back
  <2>4. /\ chunk \in Seq(Printed) /\ Len(chunk) <= Len(front) /\ Said(chunk) = Said(front)
        /\ rest \in Seq(Printed) /\ Len(rest) <= Len(back) /\ Said(rest) = Said(back)
    BY <2>3, TrimKeeps
  <2> HIDE DEF chunk, rest
  <2>5. Said(s.rest) = Said(chunk) \o Said(rest)
    <3>1. Said(front \o back) = Said(front) \o Said(back)
      BY <2>3, SaidBoth
    <3> QED BY <2>3, <2>4, <3>1, Zenon
  <2> DEFINE before == SaidIn(s.chunks)
  <2> DEFINE now == Said(chunk)
  <2> DEFINE later == Said(rest)
  <2>6. before \in Seq(WordKind) /\ now \in Seq(WordKind) /\ later \in Seq(WordKind)
    BY <1>1, <2>4, SaidInTyped, SaidTyped
  <2>7. said = before \o (now \o later)
    BY <1>1, <2>5
  <2>8. chunks \in Seq(Seq(Printed)) /\ SaidIn(chunks) \o later = said /\ Fits(chunks)
    <3>1. CASE chunk = <<>>
      <4>1. now = <<>>
        BY <3>1, SaidNone
      <4> HIDE DEF now, later, WordKind
      <4>2. now \o later = later
        BY <2>6, <4>1, ConcatEmptySeq
      <4>3. chunks = s.chunks
        BY <3>1
      <4> QED BY <1>1, <2>7, <4>2, <4>3
    <3>2. CASE chunk # <<>>
      <4>1. chunks = Append(s.chunks, chunk)
        BY <3>2
      <4>2. /\ Append(s.chunks, chunk) \in Seq(Seq(Printed))
            /\ SaidIn(Append(s.chunks, chunk)) = before \o now
        BY <1>1, <2>4, SaidInAppend
      <4>3. (before \o now) \o later = before \o (now \o later)
        <5> HIDE DEF before, now, later, WordKind
        <5> QED BY <2>6
      <4>4. Fits(Append(s.chunks, chunk))
        <5>1. Len(chunk) <= Chunk
          <6>1. Len(chunk) \in Nat
            BY <2>4
          <6> QED BY <1>0, <2>2, <2>3, <2>4, <6>1
        <5> QED BY <1>1, <2>4, <3>2, <5>1, FitsAppend
      <4> HIDE DEF chunks, before, now, later
      <4> QED BY <2>7, <4>1, <4>2, <4>3, <4>4, Zenon
    <3> QED BY <3>1, <3>2
  <2> HIDE DEF chunks, before, now, later
  <2>9. [chunks |-> chunks, rest |-> rest] \in Splitting
    BY <2>4, <2>8 DEF Splitting
  <2>10. Len(rest) < Len(s.rest)
    <3>1. Len(rest) \in Nat
      BY <2>4
    <3> QED BY <1>0, <1>2, <2>2, <2>3, <2>4, <3>1
  <2> QED BY <2>1, <2>8, <2>9, <2>10 DEF Keeps, later
<1> QED BY <1>3, <1>4

(* The turns of the split keep what its start has and each turn keeps.       *)
LEMMA SplitTurns ==
    ASSUME NEW text \in Seq(Printed), NEW V,
           [chunks |-> <<>>, rest |-> Trim(text)] \in V,
           \A s \in V : s \in Splitting /\ NextChunk(s) \in V
    PROVE  \E upto :
              /\ upto[0] = [chunks |-> <<>>, rest |-> Trim(text)]
              /\ \A n \in 1 .. Len(text) : upto[n] = NextChunk(upto[n - 1])
              /\ upto[Len(text)] \in V
              /\ Split(text) = IF upto[Len(text)].rest = <<>> THEN upto[Len(text)].chunks
                               ELSE Append(upto[Len(text)].chunks, upto[Len(text)].rest)
<1> DEFINE L == Len(text)
<1> DEFINE base == [chunks |-> <<>>, rest |-> Trim(text)]
<1> DEFINE step == [n \in 1 .. L |-> [s \in V |-> NextChunk(s)]]
<1> DEFINE Law(f) == f = [n \in 0 .. L |-> IF n = 0 THEN base ELSE NextChunk(f[n - 1])]
<1>1. L \in Nat /\ base \in V
  OBVIOUS
<1> HIDE DEF base, L
<1>4. step \in [1 .. L -> [V -> V]] /\ \A n \in 1 .. L : \A s \in V : step[n][s] = NextChunk(s)
  OBVIOUS
<1> HIDE DEF step, Law
<1>5. PICK f \in [0 .. L -> V] : Recurs(f, L, base, step)
  BY <1>1, <1>4, Recursion
<1>6. Law(f)
  <2>1. ASSUME NEW n \in 0 .. L
        PROVE  f[n] = IF n = 0 THEN base ELSE NextChunk(f[n - 1])
    <3>1. CASE n = 0
      BY <1>5, <3>1 DEF Recurs
    <3>2. CASE n # 0
      <4>1. n \in 1 .. L /\ n - 1 \in 0 .. L
        BY <1>1, <3>2
      <4>2. f[n] = step[n][f[n - 1]] /\ f[n - 1] \in V
        BY <1>5, <4>1 DEF Recurs
      <4> QED BY <1>4, <3>2, <4>1, <4>2
    <3> QED BY <3>1, <3>2
  <2>2. f = [n \in 0 .. L |-> f[n]]
    OBVIOUS
  <2> QED BY <2>1, <2>2 DEF Law
<1> DEFINE upto == CHOOSE g : Law(g)
<1> DEFINE end == upto[L]
<1>7. /\ Law(upto)
      /\ Split(text) = IF end.rest = <<>> THEN end.chunks ELSE Append(end.chunks, end.rest)
  <2>1. Split(text) = IF end.rest = <<>> THEN end.chunks ELSE Append(end.chunks, end.rest)
    BY DEF Split, L, Law, base
  <2>2. Law(upto)
    BY <1>6
  <2> QED BY <2>1, <2>2
<1> HIDE DEF upto
<1>8. upto[0] = base /\ \A n \in 1 .. L : upto[n] = NextChunk(upto[n - 1])
  <2>1. \A n \in 0 .. L : upto[n] = IF n = 0 THEN base ELSE NextChunk(upto[n - 1])
    BY <1>7 DEF Law
  <2>2. 0 \in 0 .. L /\ \A n \in 1 .. L : n \in 0 .. L /\ n # 0
    BY <1>1
  <2> QED BY <2>1, <2>2
<1> DEFINE S == {n \in 0 .. L : upto[n] \in V}
<1>9. \A n \in 0 .. L : n \in S
  <2>1. 0 \in S
    BY <1>1, <1>8
  <2>2. ASSUME NEW n \in 1 .. L, n - 1 \in S
        PROVE  n \in S
    BY <1>1, <1>8, <2>2
  <2> HIDE DEF S
  <2> QED BY <1>1, <2>1, <2>2, CountUp, Zenon
<1>10. end \in V
  BY <1>1, <1>9
<1> HIDE DEF S
<1> QED BY <1>7, <1>8, <1>10 DEF base, L

(* What each turn of the split starts with, and that none is left to do      *)
(* after as many as the text is long.                                        *)
LEMMA SplitSteps ==
    ASSUME NEW text \in Seq(Printed)
    PROVE  \E end : /\ Keeps(end, Said(text)) /\ Len(end.rest) <= Chunk
                    /\ Split(text) = IF end.rest = <<>> THEN end.chunks
                                     ELSE Append(end.chunks, end.rest)
<1> DEFINE L == Len(text)
<1> DEFINE V == {s \in Splitting : Keeps(s, Said(text))}
<1> DEFINE base == [chunks |-> <<>>, rest |-> Trim(text)]
<1>1. L \in Nat /\ Chunk \in Nat
  BY SpeechAssumption
<1>2. base \in V /\ Len(base.rest) <= L /\ Len(base.rest) \in Nat
  <2>1. Trim(text) \in Seq(Printed) /\ Len(Trim(text)) <= Len(text) /\ Said(Trim(text)) = Said(text)
    BY TrimKeeps
  <2>2. <<>> \in Seq(Seq(Printed)) /\ Fits(<<>>)
    BY DEF Fits
  <2>3. SaidIn(<<>>) \o Said(Trim(text)) = Said(text)
    <3> DEFINE said == Said(text)
    <3>1. said \in Seq(WordKind)
      BY SaidTyped
    <3> HIDE DEF said, WordKind
    <3>2. <<>> \o said = said
      BY <3>1, ConcatEmptySeq
    <3> QED BY <2>1, <3>2, SaidInNone, Zenon DEF said
  <2>4. base \in Splitting
    BY <2>1, <2>2 DEF Splitting
  <2>5. base.chunks = <<>> /\ base.rest = Trim(text)
    OBVIOUS
  <2> HIDE DEF base
  <2>6. Keeps(base, Said(text))
    BY <2>2, <2>3, <2>4, <2>5, Zenon DEF Keeps
  <2> QED BY <2>1, <2>4, <2>5, <2>6
<1>3. ASSUME NEW s \in V
      PROVE  /\ NextChunk(s) \in V
             /\ Len(NextChunk(s).rest) <= Chunk \/ Len(NextChunk(s).rest) < Len(s.rest)
             /\ Len(s.rest) \in Nat /\ Len(NextChunk(s).rest) \in Nat
  <2>1. Keeps(s, Said(text))
    OBVIOUS
  <2>2. /\ Keeps(NextChunk(s), Said(text))
        /\ Len(NextChunk(s).rest) <= Chunk \/ Len(NextChunk(s).rest) < Len(s.rest)
    BY <2>1, NextChunkKeeps
  <2>3. s \in Splitting /\ NextChunk(s) \in Splitting
    BY <2>1, <2>2 DEF Keeps
  <2>4. s.rest \in Seq(Printed) /\ NextChunk(s).rest \in Seq(Printed)
    BY <2>3 DEF Splitting
  <2> QED BY <2>2, <2>3, <2>4
<1>4. \A s \in V : s \in Splitting /\ NextChunk(s) \in V
  BY <1>3
<1> HIDE DEF V, L
<1>5. PICK upto :
         /\ upto[0] = base /\ \A n \in 1 .. L : upto[n] = NextChunk(upto[n - 1])
         /\ Split(text) = IF upto[L].rest = <<>> THEN upto[L].chunks
                          ELSE Append(upto[L].chunks, upto[L].rest)
  <2>1. base \in V
    BY <1>2
  <2> HIDE DEF base
  <2> QED BY <1>4, <2>1, SplitTurns DEF L, base
<1> HIDE DEF base
<1> DEFINE end == upto[L]
<1> DEFINE Left(n) == Len(upto[n].rest)
<1> DEFINE S == {n \in 0 .. L : /\ upto[n] \in V /\ Left(n) \in Nat
                                /\ Left(n) <= Chunk \/ Left(n) + n <= L}
<1>9. 0 \in S
  <2>1. upto[0] \in V /\ Left(0) \in Nat /\ Left(0) <= L
    BY <1>2, <1>5
  <2> QED BY <1>1, <2>1
<1>10. ASSUME NEW n \in 1 .. L, n - 1 \in S
       PROVE  n \in S
  <2>1. /\ upto[n - 1] \in V /\ Left(n - 1) \in Nat
        /\ Left(n - 1) <= Chunk \/ Left(n - 1) + (n - 1) <= L
    BY <1>10
  <2>2. upto[n] = NextChunk(upto[n - 1])
    BY <1>5
  <2>3. upto[n] \in V /\ Left(n) \in Nat /\ (Left(n) <= Chunk \/ Left(n) < Left(n - 1))
    BY <1>3, <2>1, <2>2
  <2>4. CASE Left(n - 1) <= Chunk
    <3> HIDE DEF Left
    <3>1. Left(n) <= Chunk
      BY <1>1, <2>1, <2>3, <2>4
    <3> QED BY <1>1, <2>3, <3>1
  <2>5. CASE ~(Left(n - 1) <= Chunk)
    <3> HIDE DEF Left
    <3>1. Left(n) <= Chunk \/ Left(n) + n <= L
      BY <1>1, <2>1, <2>3, <2>5
    <3> QED BY <1>1, <2>3, <3>1
  <2> QED BY <2>4, <2>5
<1>11. \A n \in 0 .. L : n \in S
  <2> HIDE DEF S
  <2> QED BY <1>1, <1>9, <1>10, CountUp, Zenon
<1>12. end \in V /\ Len(end.rest) <= Chunk
  <2>1. L \in S
    BY <1>1, <1>11
  <2>2. upto[L] \in V /\ Left(L) \in Nat /\ (Left(L) <= Chunk \/ Left(L) + L <= L)
    BY <2>1
  <2>3. Left(L) <= Chunk
    <3> HIDE DEF Left
    <3> QED BY <1>1, <2>2
  <2> QED BY <1>5, <2>2, <2>3
<1>13. Keeps(end, Said(text))
  BY <1>12 DEF V
<1> QED BY <1>5, <1>12, <1>13

(* However a text is cut into parts, each of them is sent whole to the       *)
(* service (CHUNK_MAX_CHARS), none is empty, and together they say the text: *)
(* no word is lost, twice there or out of order at a cut (splitTextForSpeech).*)
THEOREM SplitSaysAll ==
    ASSUME NEW text \in Seq(Printed)
    PROVE  /\ Split(text) \in Seq(Seq(Printed))
           /\ \A i \in 1 .. Len(Split(text)) : Len(Split(text)[i]) \in 1 .. Chunk
           /\ SaidIn(Split(text)) = Said(text)
<1>1. PICK end : /\ Keeps(end, Said(text)) /\ Len(end.rest) <= Chunk
                 /\ Split(text) = IF end.rest = <<>> THEN end.chunks
                                  ELSE Append(end.chunks, end.rest)
  BY SplitSteps
<1>2. /\ end.chunks \in Seq(Seq(Printed)) /\ end.rest \in Seq(Printed) /\ Fits(end.chunks)
      /\ SaidIn(end.chunks) \o Said(end.rest) = Said(text)
  BY <1>1 DEF Keeps, Splitting
<1>3. /\ Split(text) \in Seq(Seq(Printed)) /\ Fits(Split(text))
      /\ SaidIn(Split(text)) = Said(text)
  <2>1. CASE end.rest = <<>>
    <3>1. Said(end.rest) = <<>>
      BY <2>1, SaidNone
    <3> DEFINE said == SaidIn(end.chunks)
    <3>2. said \in Seq(WordKind)
      BY <1>2, SaidInTyped
    <3> HIDE DEF said, WordKind
    <3>3. said \o <<>> = said
      BY <3>2, ConcatEmptySeq
    <3>4. SaidIn(end.chunks) = Said(text)
      BY <1>2, <3>1, <3>3, Zenon DEF said
    <3> QED BY <1>1, <1>2, <2>1, <3>4
  <2>2. CASE end.rest # <<>>
    <3>1. /\ Append(end.chunks, end.rest) \in Seq(Seq(Printed))
          /\ SaidIn(Append(end.chunks, end.rest)) = SaidIn(end.chunks) \o Said(end.rest)
      BY <1>2, SaidInAppend
    <3>2. Fits(Append(end.chunks, end.rest))
      BY <1>1, <1>2, <2>2, FitsAppend
    <3>3. Split(text) = Append(end.chunks, end.rest)
      BY <1>1, <2>2
    <3> QED BY <1>2, <3>1, <3>2, <3>3, Zenon
  <2> QED BY <2>1, <2>2
<1> QED BY <1>3 DEF Fits

-----------------------------------------------------------------------------
(* Where a part's words are *)

(* Each word that is a term is that of the text, some words further on.      *)
PlacedAt(ws, all, d) ==
    \A k \in DOMAIN ws : ws[k].norm # None => d + k \in DOMAIN all /\ all[d + k] = ws[k]
Placed(ws, all) == \E d \in Int : PlacedAt(ws, all, d)

LEMMA PlacedDeeper ==
    ASSUME NEW us \in Seq(WordKind), NEW ws \in Seq(WordKind), NEW all \in Seq(WordKind),
           Placed(us, ws), Placed(ws, all)
    PROVE  Placed(us, all)
<1>1. PICK d \in Int : PlacedAt(us, ws, d)
  BY DEF Placed
<1>2. PICK e \in Int : PlacedAt(ws, all, e)
  BY DEF Placed
<1>3. d + e \in Int
  OBVIOUS
<1>4. ASSUME NEW k \in DOMAIN us, us[k].norm # None
      PROVE  (d + e) + k \in DOMAIN all /\ all[(d + e) + k] = us[k]
  <2>1. d + k \in DOMAIN ws /\ ws[d + k] = us[k]
    BY <1>1, <1>4 DEF PlacedAt
  <2>2. e + (d + k) \in DOMAIN all /\ all[e + (d + k)] = us[k]
    BY <1>2, <1>4, <2>1 DEF PlacedAt
  <2>3. e + (d + k) = (d + e) + k
    <3>1. k \in Int
      OBVIOUS
    <3> QED BY <3>1
  <2> QED BY <2>2, <2>3
<1>5. PlacedAt(us, all, d + e)
  BY <1>4 DEF PlacedAt
<1> QED BY <1>3, <1>5 DEF Placed

LEMMA PlacedItself ==
    ASSUME NEW ws \in Seq(WordKind)
    PROVE  Placed(ws, ws)
<1>1. \A k \in DOMAIN ws : 0 + k = k
  OBVIOUS
<1>2. PlacedAt(ws, ws, 0) /\ 0 \in Int
  BY <1>1 DEF PlacedAt
<1> QED BY <1>2 DEF Placed

LEMMA CutPlaced ==
    ASSUME NEW a \in Seq(Printed), NEW b \in Seq(Printed)
    PROVE  Placed(WordsOf(a), WordsOf(a \o b)) /\ Placed(WordsOf(b), WordsOf(a \o b))
<1>1. PICK x \in Seq(WordKind), X \in Seq(WordKind) :
         /\ WordsOf(b) = x \o X /\ WordsOf(a \o b) = WordsOf(a) \o X /\ Mark(x)
  BY WordsInTwo
<1> DEFINE wa == WordsOf(a)
<1>2. wa \in Seq(WordKind)
  BY WordsOfTyped
<1> HIDE DEF wa
<1>3. /\ wa \o X \in Seq(WordKind) /\ Len(wa \o X) = Len(wa) + Len(X)
      /\ Len(wa) \in Nat /\ Len(X) \in Nat
      /\ \A n \in 1 .. Len(wa) : (wa \o X)[n] = wa[n]
      /\ \A n \in 1 .. Len(X) : (wa \o X)[Len(wa) + n] = X[n]
  BY <1>2, ConcatAt
<1>4. /\ x \o X \in Seq(WordKind) /\ Len(x \o X) = Len(x) + Len(X) /\ Len(x) \in Nat
      /\ \A n \in 1 .. Len(x) : (x \o X)[n] = x[n]
      /\ \A n \in 1 .. Len(X) : (x \o X)[Len(x) + n] = X[n]
  BY ConcatAt
<1> DEFINE all == wa \o X
<1> DEFINE wb == x \o X
<1> DEFINE A == Len(wa)
<1> DEFINE m == Len(x)
<1> DEFINE B == Len(X)
<1>5. DOMAIN all = 1 .. A + B /\ DOMAIN wa = 1 .. A /\ DOMAIN wb = 1 .. m + B
  BY <1>2, <1>3, <1>4
<1>6. \A n \in 1 .. m : x[n].norm = None
  BY <1>1 DEF Mark
<1> HIDE DEF all, wb, A, m, B, WordKind
<1>7. Placed(wa, all)
  <2>1. \A k \in 1 .. A : 0 + k \in 1 .. A + B /\ 0 + k = k /\ all[k] = wa[k]
    BY <1>3 DEF all, A, B
  <2>2. PlacedAt(wa, all, 0) /\ 0 \in Int
    BY <1>5, <2>1 DEF PlacedAt
  <2> QED BY <2>2 DEF Placed
<1>8. Placed(wb, all)
  <2> DEFINE d == A - m
  <2>1. A \in Nat /\ B \in Nat /\ m \in Nat /\ d \in Int
    BY <1>3, <1>4 DEF A, B, m
  <2>2. ASSUME NEW k \in 1 .. m + B, wb[k].norm # None
        PROVE  d + k \in 1 .. A + B /\ all[d + k] = wb[k]
    <3>1. k \notin 1 .. m
      <4>1. \A n \in 1 .. m : wb[n].norm = None
        BY <1>4, <1>6 DEF wb, m
      <4> QED BY <2>2, <4>1
    <3>2. k - m \in 1 .. B /\ m + (k - m) = k /\ A + (k - m) = d + k /\ d + k \in 1 .. A + B
      BY <2>1, <3>1
    <3>3. wb[m + (k - m)] = X[k - m] /\ all[A + (k - m)] = X[k - m]
      BY <1>3, <1>4, <3>2 DEF wb, all, A, B, m
    <3> QED BY <3>2, <3>3
  <2>3. PlacedAt(wb, all, d)
    BY <1>5, <2>2, Zenon DEF PlacedAt
  <2> QED BY <2>1, <2>3 DEF Placed
<1> QED BY <1>1, <1>7, <1>8 DEF all, wb, wa

(* A turn of the split cuts the rest in two, or leaves all as it is.         *)
Turned(s, front, back) ==
    [chunks |-> IF Trim(front) = <<>> THEN s.chunks ELSE Append(s.chunks, Trim(front)),
     rest   |-> Trim(back)]

LEMMA TurnCuts ==
    ASSUME NEW s \in Splitting
    PROVE  \/ NextChunk(s) = s
           \/ \E front, back \in Seq(Printed) :
                 front \o back = s.rest /\ NextChunk(s) = Turned(s, front, back)
<1>0. Chunk \in Nat
  BY SpeechAssumption
<1>1. s.chunks \in Seq(Seq(Printed)) /\ s.rest \in Seq(Printed) /\ Len(s.rest) \in Nat
  BY DEF Splitting
<1>2. CASE Len(s.rest) <= Chunk
  BY <1>2 DEF NextChunk
<1>3. CASE ~(Len(s.rest) <= Chunk)
  <2> DEFINE k == Cut(s.rest)
  <2> DEFINE text == s.rest
  <2>1. NextChunk(s) = Turned(s, SubSeq(text, 1, k), After(text, k))
    BY <1>3 DEF NextChunk, Turned
  <2>2. k \in 0 .. Len(s.rest)
    <3>1. k \in 1 .. Chunk
      BY CutFits
    <3> HIDE DEF k
    <3> QED BY <1>0, <1>1, <1>3, <3>1
  <2> HIDE DEF k
  <2>3. text \in Seq(Printed) /\ k \in 0 .. Len(text)
    BY <1>1, <2>2
  <2> HIDE DEF text
  <2>4. /\ SubSeq(text, 1, k) \in Seq(Printed) /\ After(text, k) \in Seq(Printed)
        /\ SubSeq(text, 1, k) \o After(text, k) = text
    BY <2>3, CutInTwo
  <2> QED BY <2>1, <2>4, Zenon DEF text
<1> QED BY <1>2, <1>3

LEMMA TurnTyped ==
    ASSUME NEW s \in Splitting, NEW front \in Seq(Printed), NEW back \in Seq(Printed)
    PROVE  /\ Turned(s, front, back) \in Splitting
           /\ Turned(s, front, back).rest = Trim(back)
           /\ Turned(s, front, back).chunks =
                (IF Trim(front) = <<>> THEN s.chunks ELSE Append(s.chunks, Trim(front)))
           /\ Trim(front) \in Seq(Printed) /\ Trim(back) \in Seq(Printed)
           /\ s.chunks \in Seq(Seq(Printed)) /\ s.rest \in Seq(Printed)
<1>1. Trim(front) \in Seq(Printed) /\ Trim(back) \in Seq(Printed)
  BY TrimWords
<1>2. s.chunks \in Seq(Seq(Printed)) /\ s.rest \in Seq(Printed)
  BY DEF Splitting
<1> DEFINE chunks == IF Trim(front) = <<>> THEN s.chunks ELSE Append(s.chunks, Trim(front))
<1>3. chunks \in Seq(Seq(Printed))
  <2> DEFINE V == Seq(Printed)
  <2>1. s.chunks \in Seq(V) /\ Trim(front) \in V
    BY <1>1, <1>2
  <2> HIDE DEF V
  <2>2. chunks \in Seq(V)
    BY <2>1, AppendProperties
  <2> QED BY <2>2 DEF V
<1>4. Turned(s, front, back) = [chunks |-> chunks, rest |-> Trim(back)]
  BY DEF Turned
<1> HIDE DEF chunks
<1>5. Turned(s, front, back) \in Splitting
  BY <1>1, <1>3, <1>4 DEF Splitting
<1> QED BY <1>1, <1>2, <1>4, <1>5 DEF chunks

LEMMA AppendAt ==
    ASSUME NEW S, NEW s \in Seq(S), NEW e \in S
    PROVE  /\ Append(s, e) \in Seq(S) /\ Len(Append(s, e)) = Len(s) + 1 /\ Len(s) \in Nat
           /\ \A i \in 1 .. Len(Append(s, e)) :
                 \/ i \in 1 .. Len(s) /\ Append(s, e)[i] = s[i]
                 \/ i = Len(s) + 1 /\ Append(s, e)[i] = e
  BY AppendProperties

(* However a text is cut, the words of a part that are terms stand among     *)
(* those of the text as they do in the part.                                 *)
InText(s, all) ==
    /\ s \in Splitting /\ Placed(WordsOf(s.rest), all)
    /\ \A i \in 1 .. Len(s.chunks) : Placed(WordsOf(s.chunks[i]), all)

LEMMA PlacedAppend ==
    ASSUME NEW chunks \in Seq(Seq(Printed)), NEW chunk \in Seq(Printed), NEW all,
           \A i \in 1 .. Len(chunks) : Placed(WordsOf(chunks[i]), all),
           Placed(WordsOf(chunk), all)
    PROVE  \A i \in 1 .. Len(Append(chunks, chunk)) :
              Placed(WordsOf(Append(chunks, chunk)[i]), all)
<1> DEFINE V == Seq(Printed)
<1>1. chunks \in Seq(V) /\ chunk \in V
  OBVIOUS
<1> HIDE DEF V
<1> DEFINE more == Append(chunks, chunk)
<1>2. \A i \in 1 .. Len(more) : \/ i \in 1 .. Len(chunks) /\ more[i] = chunks[i]
                                \/ i = Len(chunks) + 1 /\ more[i] = chunk
  BY <1>1, AppendAt
<1> HIDE DEF more
<1>3. \A i \in 1 .. Len(more) : Placed(WordsOf(more[i]), all)
  BY <1>2
<1> QED BY <1>3 DEF more

LEMMA TurnInText ==
    ASSUME NEW all \in Seq(WordKind), NEW s, InText(s, all)
    PROVE  InText(NextChunk(s), all)
<1>1. s \in Splitting
  BY DEF InText
<1>2. CASE NextChunk(s) = s
  BY <1>2
<1>3. CASE \E front, back \in Seq(Printed) :
              front \o back = s.rest /\ NextChunk(s) = Turned(s, front, back)
  <2>1. PICK front \in Seq(Printed), back \in Seq(Printed) :
           front \o back = s.rest /\ NextChunk(s) = Turned(s, front, back)
    BY <1>3
  <2> DEFINE next == Turned(s, front, back)
  <2>2. /\ next \in Splitting /\ next.rest = Trim(back)
        /\ next.chunks = IF Trim(front) = <<>> THEN s.chunks ELSE Append(s.chunks, Trim(front))
        /\ Trim(front) \in Seq(Printed) /\ s.chunks \in Seq(Seq(Printed)) /\ s.rest \in Seq(Printed)
    BY <1>1, TurnTyped
  <2> HIDE DEF next
  <2>3. /\ WordsOf(Trim(front)) = WordsOf(front) /\ WordsOf(Trim(back)) = WordsOf(back)
    BY TrimWords
  <2>4. /\ WordsOf(front) \in Seq(WordKind) /\ WordsOf(back) \in Seq(WordKind)
        /\ WordsOf(s.rest) \in Seq(WordKind)
    BY <2>2, WordsOfTyped
  <2>5. Placed(WordsOf(front), WordsOf(s.rest)) /\ Placed(WordsOf(back), WordsOf(s.rest))
    BY <2>1, CutPlaced
  <2>6. Placed(WordsOf(s.rest), all) /\ \A i \in 1 .. Len(s.chunks) : Placed(WordsOf(s.chunks[i]), all)
    BY DEF InText
  <2>7. Placed(WordsOf(front), all) /\ Placed(WordsOf(back), all)
    BY <2>4, <2>5, <2>6, PlacedDeeper
  <2>8. \A i \in 1 .. Len(Append(s.chunks, Trim(front))) :
           Placed(WordsOf(Append(s.chunks, Trim(front))[i]), all)
    <3>1. Placed(WordsOf(Trim(front)), all)
      BY <2>3, <2>7
    <3> QED BY <2>2, <2>6, <3>1, PlacedAppend
  <2>9. \A i \in 1 .. Len(next.chunks) : Placed(WordsOf(next.chunks[i]), all)
    BY <2>2, <2>6, <2>8
  <2>10. Placed(WordsOf(next.rest), all)
    BY <2>2, <2>3, <2>7
  <2>11. InText(next, all)
    BY <2>2, <2>9, <2>10 DEF InText
  <2> QED BY <2>1, <2>11 DEF next
<1> QED BY <1>1, <1>2, <1>3, TurnCuts

(* However a text of any length is cut, the terms of a part stand in the     *)
(* text all at one distance from where they stand in the part, with their    *)
(* pages: a cut neither drops nor swaps a word inside a part                 *)
(* (splitTextForSpeech, readAlongTokens).                                    *)
THEOREM PartsArePlaced ==
    ASSUME NEW text \in Seq(Printed)
    PROVE  \A i \in DOMAIN Split(text) : Placed(WordsOf(Split(text)[i]), WordsOf(text))
<1> DEFINE all == WordsOf(text)
<1> DEFINE V == {s \in Splitting : InText(s, all)}
<1> DEFINE base == [chunks |-> <<>>, rest |-> Trim(text)]
<1>1. all \in Seq(WordKind)
  BY WordsOfTyped
<1>2. Trim(text) \in Seq(Printed) /\ WordsOf(Trim(text)) = all
  BY TrimWords
<1>3. Placed(all, all)
  BY <1>1, PlacedItself
<1> HIDE DEF all
<1>4. base \in V
  <2>1. base \in Splitting /\ base.chunks = <<>> /\ base.rest = Trim(text) /\ Len(<<>>) = 0
    BY <1>2 DEF Splitting
  <2> HIDE DEF base
  <2>2. Placed(WordsOf(base.rest), all)
    BY <1>2, <1>3, <2>1
  <2>3. \A i \in 1 .. Len(base.chunks) : FALSE
    BY <2>1
  <2> QED BY <2>1, <2>2, <2>3 DEF InText
<1>5. ASSUME NEW s \in V
      PROVE  s \in Splitting /\ NextChunk(s) \in V
  <2>1. InText(NextChunk(s), all)
    BY <1>1, TurnInText
  <2> QED BY <2>1 DEF InText
<1> HIDE DEF V
<1>6. PICK upto : /\ upto[Len(text)] \in V
                  /\ Split(text) = IF upto[Len(text)].rest = <<>> THEN upto[Len(text)].chunks
                                   ELSE Append(upto[Len(text)].chunks, upto[Len(text)].rest)
  BY <1>4, <1>5, SplitTurns
<1> DEFINE end == upto[Len(text)]
<1>7. /\ end \in Splitting /\ Placed(WordsOf(end.rest), all)
      /\ \A i \in 1 .. Len(end.chunks) : Placed(WordsOf(end.chunks[i]), all)
  BY <1>6 DEF V, InText
<1> HIDE DEF end
<1>8. end.chunks \in Seq(Seq(Printed)) /\ end.rest \in Seq(Printed)
  BY <1>7 DEF Splitting
<1>9. \A i \in 1 .. Len(Append(end.chunks, end.rest)) :
         Placed(WordsOf(Append(end.chunks, end.rest)[i]), all)
  BY <1>7, <1>8, PlacedAppend
<1>10. \A i \in 1 .. Len(Split(text)) : Placed(WordsOf(Split(text)[i]), all)
  BY <1>6, <1>7, <1>9 DEF end
<1>11. DOMAIN Split(text) = 1 .. Len(Split(text))
  <2>1. Split(text) \in Seq(Seq(Printed))
    BY SplitSaysAll
  <2> DEFINE W == Seq(Printed)
  <2> HIDE DEF W
  <2>2. Split(text) \in Seq(W)
    BY <2>1 DEF W
  <2> QED BY <2>2
<1> QED BY <1>10, <1>11 DEF all

(* One sequence more. *)
LEMMA MappedAppend ==
    ASSUME NEW E, NEW F, NEW f, Maps(f, E, Seq(F)), NEW s \in Seq(E), NEW e \in E
    PROVE  /\ Append(s, e) \in Seq(E)
           /\ Concatenated(Mapped(Append(s, e), f)) = Concatenated(Mapped(s, f)) \o f[e]
           /\ Concatenated(Mapped(s, f)) \in Seq(F) /\ f[e] \in Seq(F)
<1> DEFINE V == Seq(F)
<1> DEFINE ms == Mapped(s, f)
<1>1. Append(s, e) \in Seq(E) /\ Append(s, e) = s \o <<e>> /\ <<e>> \in Seq(E)
  BY AppendProperties, AppendIsConcat
<1>2. f[e] \in V
  BY DEF Maps
<1>3. Mapped(s \o <<e>>, f) = ms \o Mapped(<<e>>, f) /\ ms \in Seq(V)
  <2> DEFINE one == <<e>>
  <2> HIDE DEF V, one
  <2>1. one \in Seq(E) /\ Maps(f, E, V)
    BY <1>1 DEF one, V
  <2>2. Mapped(s \o one, f) = Mapped(s, f) \o Mapped(one, f)
    BY <2>1, MappedBoth
  <2>3. Mapped(s, f) \in Seq(V)
    BY <2>1, MappedTyped
  <2> QED BY <2>2, <2>3 DEF one
<1>4. Mapped(<<e>>, f) = <<f[e]>>
  <2> DEFINE one == <<e>>
  <2>1. Len(one) = 1 /\ one[1] = e
    OBVIOUS
  <2> HIDE DEF one
  <2>2. Mapped(one, f) = <<f[e]>>
    BY <2>1 DEF Mapped
  <2> QED BY <2>2 DEF one
<1> HIDE DEF ms
<1> DEFINE g == f[e]
<1> HIDE DEF g
<1>5. g \in Seq(F) /\ ms \in Seq(Seq(F))
  BY <1>2, <1>3 DEF g
<1>6. Append(ms, g) = ms \o <<g>>
  BY <1>5, AppendIsConcat
<1>7. Concatenated(Append(ms, g)) = Concatenated(ms) \o g /\ Concatenated(ms) \in Seq(F)
  BY <1>5, ConcatenatedAppend, ConcatenatedTyped
<1>8. Mapped(Append(s, e), f) = Append(ms, g)
  BY <1>1, <1>3, <1>4, <1>6, Zenon DEF g
<1> QED BY <1>1, <1>5, <1>7, <1>8 DEF g, ms

(* The words of parts, one after another. *)
PartWords == [text \in Seq(Printed) |-> WordsOf(text)]
WordsIn(chunks) == Concatenated(Mapped(chunks, PartWords))

LEMMA PartWordsTyped == Maps(PartWords, Seq(Printed), Seq(WordKind))
<1>1. \A text \in Seq(Printed) : WordsOf(text) \in Seq(WordKind)
  BY WordsOfTyped
<1> HIDE DEF Printed, WordKind
<1> QED BY <1>1 DEF PartWords, Maps

LEMMA WordsInAppend ==
    ASSUME NEW chunks \in Seq(Seq(Printed)), NEW chunk \in Seq(Printed)
    PROVE  /\ Append(chunks, chunk) \in Seq(Seq(Printed)) /\ WordsIn(chunks) \in Seq(WordKind)
           /\ WordsIn(Append(chunks, chunk)) = WordsIn(chunks) \o WordsOf(chunk)
<1> DEFINE V == Seq(Printed)
<1>1. chunks \in Seq(V) /\ chunk \in V /\ Maps(PartWords, V, Seq(WordKind))
  BY PartWordsTyped
<1>2. PartWords[chunk] = WordsOf(chunk)
  <2> HIDE DEF Printed
  <2> QED BY DEF PartWords
<1> HIDE DEF V
<1>3. /\ Append(chunks, chunk) \in Seq(V)
      /\ Concatenated(Mapped(Append(chunks, chunk), PartWords))
           = Concatenated(Mapped(chunks, PartWords)) \o PartWords[chunk]
      /\ Concatenated(Mapped(chunks, PartWords)) \in Seq(WordKind)
  BY <1>1, MappedAppend
<1> QED BY <1>2, <1>3 DEF V, WordsIn

LEMMA WordsOfNone == WordsOf(<<>>) = <<>>
<1>1. <<>> \in Seq(Printed) /\ Breaks(<<>>)
  BY DEF Breaks
<1> QED BY <1>1, BreaksHaveNoWords

(* The words begin with a term, if there are any. *)
Leads(ws) == ws # <<>> => ws[1].norm # None

LEMMA LeadsBoth ==
    ASSUME NEW us \in Seq(WordKind), NEW ws \in Seq(WordKind), Leads(us), Leads(ws)
    PROVE  Leads(us \o ws)
<1> HIDE DEF WordKind
<1>1. CASE us = <<>>
  <2>1. us \o ws = ws
    BY <1>1, ConcatEmptySeq
  <2> QED BY <2>1
<1>2. CASE us # <<>>
  <2>1. 1 \in 1 .. Len(us)
    <3>1. Len(us) \in Nat /\ Len(us) # 0
      BY <1>2
    <3> QED BY <3>1
  <2>2. (us \o ws)[1] = us[1]
    BY <2>1, ConcatAt
  <2> QED BY <1>2, <2>2 DEF Leads
<1> QED BY <1>1, <1>2

(* A text whose second half begins with a term among its words. *)
LEMMA CutAtTerm ==
    ASSUME NEW a \in Seq(Printed), NEW b \in Seq(Printed), Leads(WordsOf(b))
    PROVE  WordsOf(a \o b) = WordsOf(a) \o WordsOf(b)
<1>1. PICK x \in Seq(WordKind), X \in Seq(WordKind) :
         /\ WordsOf(b) = x \o X /\ WordsOf(a \o b) = WordsOf(a) \o X /\ Mark(x)
  BY WordsInTwo
<1>2. x = <<>>
  <2> SUFFICES ASSUME NEW w \in WordKind, x = <<w>>, w.norm = None PROVE FALSE
    BY <1>1 DEF Mark
  <2> HIDE DEF WordKind
  <2>1. Len(x) = 1 /\ x[1] = w
    OBVIOUS
  <2>2. (x \o X)[1] = x[1] /\ Len(x \o X) # 0
    <3>1. Len(x \o X) = Len(x) + Len(X) /\ Len(X) \in Nat
          /\ \A n \in 1 .. Len(x) : (x \o X)[n] = x[n]
      BY ConcatAt
    <3>2. 1 \in 1 .. Len(x)
      BY <2>1
    <3> QED BY <2>1, <3>1, <3>2
  <2>3. x \o X # <<>>
    BY <2>2
  <2> QED BY <1>1, <2>1, <2>2, <2>3 DEF Leads
<1> HIDE DEF WordKind
<1>3. <<>> \o X = X
  BY ConcatEmptySeq
<1> QED BY <1>1, <1>2, <1>3, Zenon

(* As long as parts and rest begin with terms, nothing is added between.     *)
AllLead(s) == Leads(WordsOf(s.rest)) /\ \A i \in 1 .. Len(s.chunks) : Leads(WordsOf(s.chunks[i]))
Whole(s, all) == /\ s \in Splitting
                 /\ AllLead(s) => WordsIn(s.chunks) \o WordsOf(s.rest) = all

LEMMA TurnLeads ==
    ASSUME NEW s \in Splitting, NEW front \in Seq(Printed), NEW back \in Seq(Printed),
           front \o back = s.rest, AllLead(Turned(s, front, back))
    PROVE  /\ AllLead(s)
           /\ WordsIn(s.chunks) \o WordsOf(s.rest)
                = WordsIn(Turned(s, front, back).chunks) \o WordsOf(Turned(s, front, back).rest)
<1> DEFINE next == Turned(s, front, back)
<1> DEFINE chunk == Trim(front)
<1>1. /\ next.rest = Trim(back)
      /\ next.chunks = IF chunk = <<>> THEN s.chunks ELSE Append(s.chunks, chunk)
      /\ chunk \in Seq(Printed) /\ s.chunks \in Seq(Seq(Printed)) /\ s.rest \in Seq(Printed)
  BY TurnTyped
<1>2. WordsOf(chunk) = WordsOf(front) /\ WordsOf(Trim(back)) = WordsOf(back)
  BY TrimWords
<1>3. Leads(WordsOf(next.rest)) /\ \A i \in 1 .. Len(next.chunks) : Leads(WordsOf(next.chunks[i]))
  BY DEF AllLead
<1> HIDE DEF next, chunk
<1>4. WordsOf(s.rest) = WordsOf(front) \o WordsOf(back)
  <2>1. WordsOf(front \o back) = WordsOf(front) \o WordsOf(back)
    BY <1>1, <1>2, <1>3, CutAtTerm
  <2> QED BY <2>1, Zenon
<1> DEFINE so == WordsIn(s.chunks)
<1> DEFINE wf == WordsOf(front)
<1> DEFINE wb == WordsOf(back)
<1>5. so \in Seq(WordKind) /\ wf \in Seq(WordKind) /\ wb \in Seq(WordKind)
  BY <1>1, WordsInAppend, WordsOfTyped
<1>6. Leads(wb)
  BY <1>1, <1>2, <1>3
<1>7. CASE chunk = <<>>
  <2>1. wf = <<>> /\ next.chunks = s.chunks
    BY <1>1, <1>2, <1>7, WordsOfNone
  <2>2. wf \o wb = wb
    <3> HIDE DEF wf, wb, WordKind
    <3> QED BY <1>5, <2>1, ConcatEmptySeq
  <2>3. WordsOf(s.rest) = WordsOf(next.rest)
    BY <1>1, <1>2, <1>4, <2>2, Zenon
  <2>4. AllLead(s)
    BY <1>3, <2>1, <2>3 DEF AllLead
  <2> QED BY <2>1, <2>3, <2>4 DEF next
<1>8. CASE chunk # <<>>
  <2> DEFINE more == Append(s.chunks, chunk)
  <2>1. next.chunks = more
    BY <1>1, <1>8
  <2>2. /\ Len(more) = Len(s.chunks) + 1 /\ Len(s.chunks) \in Nat
        /\ (\A i \in 1 .. Len(s.chunks) : more[i] = s.chunks[i]) /\ more[Len(s.chunks) + 1] = chunk
    <3> DEFINE V == Seq(Printed)
    <3> DEFINE chunks == s.chunks
    <3>1. chunks \in Seq(V) /\ chunk \in V
      BY <1>1
    <3> HIDE DEF V, chunks
    <3>2. /\ Len(Append(chunks, chunk)) = Len(chunks) + 1 /\ Len(chunks) \in Nat
          /\ \A i \in 1 .. Len(chunks) : Append(chunks, chunk)[i] = chunks[i]
          /\ Append(chunks, chunk)[Len(chunks) + 1] = chunk
      BY <3>1, AppendProperties
    <3> QED BY <3>2 DEF chunks
  <2>3. WordsIn(more) = so \o wf
    BY <1>1, <1>2, WordsInAppend
  <2> HIDE DEF more
  <2>4. /\ Len(s.chunks) + 1 \in 1 .. Len(more)
        /\ \A i \in 1 .. Len(s.chunks) : i \in 1 .. Len(more)
    BY <2>2
  <2>5. Leads(WordsOf(more[Len(s.chunks) + 1]))
    BY <1>3, <2>1, <2>4, Zenon
  <2>6. Leads(wf)
    BY <1>2, <2>2, <2>5, Zenon
  <2>7. \A i \in 1 .. Len(s.chunks) : Leads(WordsOf(s.chunks[i]))
    BY <1>3, <2>1, <2>2, <2>4, Zenon
  <2>8. Leads(wf \o wb)
    <3> HIDE DEF wf, wb
    <3> QED BY <1>5, <1>6, <2>6, LeadsBoth
  <2>9. AllLead(s)
    BY <1>4, <2>7, <2>8 DEF AllLead
  <2>10. (so \o wf) \o wb = so \o (wf \o wb)
    <3> HIDE DEF so, wf, wb, WordKind
    <3> QED BY <1>5
  <2>11. so \o WordsOf(s.rest) = WordsIn(next.chunks) \o WordsOf(next.rest)
    BY <1>1, <1>2, <1>4, <2>1, <2>3, <2>10, Zenon
  <2> QED BY <2>9, <2>11 DEF next
<1> QED BY <1>7, <1>8

(* Where no part begins with a closing mark alone, the parts have just the   *)
(* words of the text, one part after another (splitTextForSpeech,            *)
(* readAlongTokens).                                                         *)
THEOREM PartsHaveWords ==
    ASSUME NEW text \in Seq(Printed), \A i \in DOMAIN Split(text) : Leads(WordsOf(Split(text)[i]))
    PROVE  WordsIn(Split(text)) = WordsOf(text)
<1> DEFINE all == WordsOf(text)
<1> DEFINE V == {s \in Splitting : Whole(s, all)}
<1> DEFINE base == [chunks |-> <<>>, rest |-> Trim(text)]
<1>1. Trim(text) \in Seq(Printed) /\ WordsOf(Trim(text)) = all
  BY TrimWords
<1>2. WordsIn(<<>>) = <<>> /\ <<>> \o all = all
  <2>1. Mapped(<<>>, PartWords) = <<>>
    BY DEF Mapped
  <2> QED BY <2>1, ConcatenatedNone, WordsOfTyped DEF WordsIn
<1> HIDE DEF all
<1>3. base \in V
  <2>1. base \in Splitting /\ base.chunks = <<>> /\ base.rest = Trim(text)
    BY <1>1 DEF Splitting
  <2> HIDE DEF base
  <2>2. WordsIn(base.chunks) \o WordsOf(base.rest) = all
    BY <1>1, <1>2, <2>1, Zenon
  <2> QED BY <2>1, <2>2 DEF Whole
<1>4. ASSUME NEW s \in V
      PROVE  s \in Splitting /\ NextChunk(s) \in V
  <2>1. s \in Splitting /\ Whole(s, all)
    OBVIOUS
  <2>2. CASE NextChunk(s) = s
    BY <2>2
  <2>3. CASE \E front, back \in Seq(Printed) :
                front \o back = s.rest /\ NextChunk(s) = Turned(s, front, back)
    <3>1. PICK front \in Seq(Printed), back \in Seq(Printed) :
             front \o back = s.rest /\ NextChunk(s) = Turned(s, front, back)
      BY <2>3
    <3> DEFINE next == Turned(s, front, back)
    <3>2. next \in Splitting
      BY <2>1, TurnTyped
    <3>3. AllLead(next) => WordsIn(next.chunks) \o WordsOf(next.rest) = all
      <4> SUFFICES ASSUME AllLead(next) PROVE WordsIn(next.chunks) \o WordsOf(next.rest) = all
        OBVIOUS
      <4>1. AllLead(s) /\ WordsIn(s.chunks) \o WordsOf(s.rest)
                            = WordsIn(next.chunks) \o WordsOf(next.rest)
        BY <2>1, <3>1, TurnLeads
      <4> QED BY <2>1, <4>1, Zenon DEF Whole
    <3> HIDE DEF next
    <3>4. Whole(next, all)
      BY <3>2, <3>3 DEF Whole
    <3> QED BY <2>1, <3>1, <3>2, <3>4 DEF next
  <2> QED BY <2>1, <2>2, <2>3, TurnCuts
<1> HIDE DEF V
<1>5. PICK upto : /\ upto[Len(text)] \in V
                  /\ Split(text) = IF upto[Len(text)].rest = <<>> THEN upto[Len(text)].chunks
                                   ELSE Append(upto[Len(text)].chunks, upto[Len(text)].rest)
  BY <1>3, <1>4, SplitTurns
<1> DEFINE end == upto[Len(text)]
<1>6. /\ Whole(end, all) /\ end \in Splitting
      /\ Split(text) = IF end.rest = <<>> THEN end.chunks ELSE Append(end.chunks, end.rest)
  BY <1>5 DEF V
<1> HIDE DEF end
<1>7. end.chunks \in Seq(Seq(Printed)) /\ end.rest \in Seq(Printed)
  BY <1>6 DEF Splitting
<1> DEFINE W == Seq(Printed)
<1> DEFINE chunks == end.chunks
<1>8. chunks \in Seq(W) /\ end.rest \in W
  BY <1>7
<1>9. Split(text) = IF end.rest = <<>> THEN chunks ELSE Append(chunks, end.rest)
  BY <1>6
<1> HIDE DEF W, chunks
<1>10. /\ Append(chunks, end.rest) \in Seq(W) /\ Len(Append(chunks, end.rest)) = Len(chunks) + 1
       /\ (\A i \in 1 .. Len(chunks) : Append(chunks, end.rest)[i] = chunks[i])
       /\ Append(chunks, end.rest)[Len(chunks) + 1] = end.rest /\ Len(chunks) \in Nat
  BY <1>8, AppendProperties
<1>11. CASE end.rest = <<>>
  <2>1. Split(text) = chunks
    BY <1>9, <1>11
  <2>2. WordsOf(end.rest) = <<>>
    BY <1>11, WordsOfNone
  <2>3. AllLead(end)
    <3>1. \A i \in 1 .. Len(chunks) : Leads(WordsOf(chunks[i]))
      <4>1. DOMAIN chunks = 1 .. Len(chunks)
        BY <1>8
      <4> QED BY <2>1, <4>1
    <3> QED BY <2>2, <3>1 DEF AllLead, Leads, chunks
  <2>4. WordsIn(chunks) \o <<>> = all
    BY <1>6, <2>2, <2>3, Zenon DEF Whole, chunks
  <2>5. WordsIn(chunks) \o <<>> = WordsIn(chunks)
    <3> DEFINE so == WordsIn(chunks)
    <3>1. so \in Seq(WordKind)
      BY <1>7, WordsInAppend DEF chunks
    <3> HIDE DEF so, WordKind
    <3> QED BY <3>1, ConcatEmptySeq
  <2> QED BY <2>1, <2>4, <2>5, Zenon DEF all
<1>12. CASE end.rest # <<>>
  <2>1. Split(text) = Append(chunks, end.rest)
    BY <1>9, <1>12
  <2>2. AllLead(end)
    <3> DEFINE more == Append(chunks, end.rest)
    <3>1. DOMAIN more = 1 .. Len(chunks) + 1
      BY <1>10
    <3>2. \A i \in DOMAIN more : Leads(WordsOf(more[i]))
      BY <2>1
    <3> HIDE DEF more
    <3>3. /\ Len(chunks) + 1 \in DOMAIN more
          /\ \A i \in 1 .. Len(chunks) : i \in DOMAIN more
      BY <1>10, <3>1
    <3>4. Leads(WordsOf(end.rest))
      BY <1>10, <3>2, <3>3, Zenon DEF more
    <3>5. \A i \in 1 .. Len(chunks) : Leads(WordsOf(chunks[i]))
      BY <1>10, <3>2, <3>3, Zenon DEF more
    <3> QED BY <3>4, <3>5 DEF AllLead, chunks
  <2>3. WordsIn(Append(chunks, end.rest)) = WordsIn(chunks) \o WordsOf(end.rest)
    BY <1>7, WordsInAppend DEF chunks
  <2> QED BY <1>6, <2>1, <2>2, <2>3, Zenon DEF Whole, all, chunks
<1> QED BY <1>11, <1>12

-----------------------------------------------------------------------------
(* The text of a document *)

LEMMA SpokenAfterTyped ==
    ASSUME NEW out \in Seq(Printed), NEW s \in Printed
    PROVE  SpokenAfter(out, s) \in Seq(Printed)
<1> DEFINE n == Len(out)
<1> DEFINE broken == n >= 3 /\ out[n] = Break /\ out[n - 1].sym = Hyphen /\ Term(out[n - 2])
<1>1. n \in Nat /\ \A i \in 1 .. n : out[i] \in Printed
  OBVIOUS
<1>2. CASE broken /\ Term(s)
  <2> DEFINE whole == [out[n - 2] EXCEPT !.sym = @ \o s.sym]
  <2>1. SpokenAfter(out, s) = Append(SubSeq(out, 1, n - 3), whole)
    BY <1>2 DEF SpokenAfter
  <2>2. n >= 3
    BY <1>2
  <2> HIDE DEF n
  <2>3. out[n - 2] \in Printed
    BY <1>1, <2>2
  <2>4. whole \in Printed
    <3>1. /\ out[n - 2].sym \in Seq(Letter) /\ s.sym \in Seq(Letter)
          /\ out[n - 2].page \in Nat /\ out[n - 2].n \in Nat
      BY <2>3 DEF Printed
    <3>2. out[n - 2].sym \o s.sym \in Seq(Letter)
      BY <3>1, ConcatProperties
    <3> DEFINE x == out[n - 2]
    <3> DEFINE y == x.sym \o s.sym
    <3>3. x \in Printed /\ y \in Seq(Letter)
      BY <2>3, <3>2
    <3>4. whole = [x EXCEPT !.sym = y]
      OBVIOUS
    <3> HIDE DEF x, y, whole
    <3> QED BY <3>3, <3>4 DEF Printed
  <2> HIDE DEF whole, Printed
  <2>5. SubSeq(out, 1, n - 3) \in Seq(Printed)
    <3>1. \A i \in 1 .. n - 3 : out[i] \in Printed
      BY <1>1, <2>2
    <3>2. n - 3 \in Int
      BY <1>1
    <3> QED BY <3>1, <3>2, SubSeqProperties
  <2> QED BY <2>1, <2>4, <2>5, AppendProperties
<1>3. CASE ~(broken /\ Term(s))
  <2>1. SpokenAfter(out, s) = Append(out, s)
    BY <1>3 DEF SpokenAfter
  <2> HIDE DEF Printed
  <2> QED BY <2>1, AppendProperties
<1> QED BY <1>2, <1>3

LEMMA NormalizedSteps ==
    ASSUME NEW text \in Seq(Printed)
    PROVE  \E upto :
              /\ upto[0] = <<>>
              /\ \A n \in 1 .. Len(text) : upto[n] = SpokenAfter(upto[n - 1], text[n])
              /\ \A n \in 0 .. Len(text) : upto[n] \in Seq(Printed)
              /\ NormalizeForSpeech(text) = upto[Len(text)]
<1> DEFINE L == Len(text)
<1> DEFINE V == Seq(Printed)
<1> DEFINE none == <<>>
<1> DEFINE step == [n \in 1 .. L |-> [out \in V |-> SpokenAfter(out, text[n])]]
<1> DEFINE Law(f) == f = [n \in 0 .. L |-> IF n = 0 THEN none ELSE SpokenAfter(f[n - 1], text[n])]
<1>1. L \in Nat /\ none \in V
  OBVIOUS
<1>2. \A out \in V : \A n \in 1 .. L : SpokenAfter(out, text[n]) \in V
  <2> HIDE DEF Printed
  <2> QED BY SpokenAfterTyped
<1> HIDE DEF V, none, L
<1>3. step \in [1 .. L -> [V -> V]] /\ \A n \in 1 .. L : \A s \in V : step[n][s] = SpokenAfter(s, text[n])
  BY <1>2
<1> HIDE DEF step, Law
<1>4. PICK f \in [0 .. L -> V] : Recurs(f, L, none, step)
  BY <1>1, <1>3, Recursion
<1>5. Law(f)
  <2>1. ASSUME NEW n \in 0 .. L
        PROVE  f[n] = IF n = 0 THEN none ELSE SpokenAfter(f[n - 1], text[n])
    <3>1. CASE n = 0
      BY <1>4, <3>1 DEF Recurs
    <3>2. CASE n # 0
      <4>1. n \in 1 .. L /\ n - 1 \in 0 .. L
        BY <1>1, <3>2
      <4>2. f[n] = step[n][f[n - 1]] /\ f[n - 1] \in V
        BY <1>4, <4>1 DEF Recurs
      <4> QED BY <1>3, <3>2, <4>1, <4>2
    <3> QED BY <3>1, <3>2
  <2>2. f = [n \in 0 .. L |-> f[n]]
    OBVIOUS
  <2> QED BY <2>1, <2>2 DEF Law
<1> DEFINE upto == CHOOSE g : Law(g)
<1>6. Law(upto) /\ NormalizeForSpeech(text) = upto[L]
  <2>1. NormalizeForSpeech(text) = upto[L]
    BY DEF NormalizeForSpeech, L, Law, none
  <2>2. Law(upto)
    BY <1>5
  <2> QED BY <2>1, <2>2
<1> HIDE DEF upto
<1>7. upto[0] = none /\ \A n \in 1 .. L : upto[n] = SpokenAfter(upto[n - 1], text[n])
  <2>1. \A n \in 0 .. L : upto[n] = IF n = 0 THEN none ELSE SpokenAfter(upto[n - 1], text[n])
    BY <1>6 DEF Law
  <2>2. 0 \in 0 .. L /\ \A n \in 1 .. L : n \in 0 .. L /\ n # 0
    BY <1>1
  <2> QED BY <2>1, <2>2
<1> DEFINE S == {n \in 0 .. L : upto[n] \in V}
<1>8. 0 \in S
  BY <1>1, <1>7
<1>9. ASSUME NEW n \in 1 .. L, n - 1 \in S
      PROVE  n \in S
  BY <1>1, <1>2, <1>7, <1>9
<1>10. \A n \in 0 .. L : n \in S
  <2> HIDE DEF S
  <2> QED BY <1>1, <1>8, <1>9, CountUp, Zenon
<1>11. \A n \in 0 .. L : upto[n] \in V
  BY <1>1, <1>10
<1> QED BY <1>6, <1>7, <1>11 DEF V, none, L

LEMMA NormalizedTyped ==
    ASSUME NEW text \in Seq(Printed)
    PROVE  NormalizeForSpeech(text) \in Seq(Printed)
<1> HIDE DEF Printed
<1>1. Len(text) \in 0 .. Len(text)
  OBVIOUS
<1> QED BY <1>1, NormalizedSteps

(* A document's pages as the words of its text, whatever their headers.      *)
LEMMA BodyTyped ==
    ASSUME NEW pages \in Seq(PdfPage), NEW p \in DOMAIN pages, NEW repeated \in BOOLEAN
    PROVE  BodyLines(pages, p, repeated) \in Seq(Printed)
<1>1. pages[p] \in PdfPage /\ p \in Nat
  OBVIOUS
<1> DEFINE header == pages[p].header
<1> DEFINE body == pages[p].body
<1>2. header \in {None} \cup Seq(Letter) /\ body \in Seq(Seq(Letter))
  BY <1>1 DEF PdfPage
<1> HIDE DEF header, body
<1>3. Body(pages, p) \in Seq(Printed)
  <2>1. Body(pages, p) = [n \in 1 .. Len(body) |-> Symbol(body[n], p, n)]
    BY <1>2 DEF Body, body
  <2>2. \A n \in 1 .. Len(body) : Symbol(body[n], p, n) \in Printed
    BY <1>1, <1>2 DEF Symbol, Printed
  <2>3. Len(body) \in Nat
    BY <1>2
  <2> HIDE DEF Printed
  <2> QED BY <2>1, <2>2, <2>3
<1>4. CASE pages[p].meta
  BY <1>4 DEF BodyLines
<1>5. CASE ~pages[p].meta
  <2> DEFINE lead == IF header = None \/ repeated THEN <<>> ELSE <<Symbol(header, p, 0)>>
  <2>1. BodyLines(pages, p, repeated) = lead \o Body(pages, p)
    BY <1>5 DEF BodyLines, header
  <2>2. lead \in Seq(Printed)
    <3>1. header # None => Symbol(header, p, 0) \in Printed
      BY <1>1, <1>2 DEF Symbol, Printed
    <3> HIDE DEF Printed
    <3> QED BY <3>1
  <2> HIDE DEF lead, Printed
  <2> QED BY <1>3, <2>1, <2>2, ConcatProperties
<1> QED BY <1>4, <1>5

LEMMA JoinedTyped ==
    ASSUME NEW texts \in Seq(Seq(Printed))
    PROVE  Joined(texts) \in Seq(Printed)
<1>1. ASSUME NEW n \in 1 .. Len(texts)
      PROVE  Led(texts, n) \in Seq(Printed)
  <2>1. texts[n] \in Seq(Printed) /\ <<Break>> \in Seq(Printed)
    <3>1. Break \in Printed
      BY BreakSilent
    <3> HIDE DEF Printed
    <3> QED BY <3>1
  <2> HIDE DEF Printed
  <2>2. <<Break>> \o texts[n] \in Seq(Printed)
    BY <2>1, ConcatProperties
  <2> QED BY <2>1, <2>2, Zenon DEF Led
<1> DEFINE L == Len(texts)
<1> DEFINE V == Seq(Printed)
<1> DEFINE led == [n \in 1 .. L |-> Led(texts, n)]
<1>2. led \in Seq(V)
  <2>1. L \in Nat /\ \A n \in 1 .. L : Led(texts, n) \in V
    BY <1>1
  <2> HIDE DEF V, L
  <2> QED BY <2>1
<1>3. Joined(texts) = Concatenated(led)
  BY DEF Joined
<1> HIDE DEF led
<1> QED BY <1>2, <1>3, ConcatenatedTyped

LEMMA PdfTextTyped ==
    ASSUME NEW pages \in Seq(PdfPage)
    PROVE  PdfSpeechText(pages) \in Seq(Printed)
<1> DEFINE L == Len(pages)
<1> DEFINE V == Seq(Printed)
<1> DEFINE texts == [p \in DOMAIN pages |-> SpeechPage(pages, p)]
<1>1. texts \in Seq(V)
  <2>1. \A p \in DOMAIN pages : SpeechPage(pages, p) \in V
    <3> HIDE DEF Printed, PdfPage
    <3>1. \A h : Repeated(pages, h) \in BOOLEAN
      BY DEF Repeated
    <3> QED BY <3>1, BodyTyped DEF SpeechPage
  <2>2. DOMAIN pages = 1 .. L /\ L \in Nat
    OBVIOUS
  <2> HIDE DEF V, L
  <2> QED BY <2>1, <2>2
<1>2. PdfSpeechText(pages) = Joined(texts)
  BY DEF PdfSpeechText
<1> HIDE DEF texts
<1> QED BY <1>1, <1>2, JoinedTyped

(* A text without breaks is as it is spoken. *)
LEMMA NormalAlready ==
    ASSUME NEW text \in Seq(Printed), \A i \in 1 .. Len(text) : text[i] # Break
    PROVE  NormalizeForSpeech(text) = text
<1> DEFINE L == Len(text)
<1>1. PICK upto : /\ upto[0] = <<>>
                  /\ \A n \in 1 .. L : upto[n] = SpokenAfter(upto[n - 1], text[n])
                  /\ \A n \in 0 .. L : upto[n] \in Seq(Printed)
                  /\ NormalizeForSpeech(text) = upto[L]
  BY NormalizedSteps
<1> HIDE DEF Printed
<1>2. L \in Nat /\ SubSeq(text, 1, 0) = <<>> /\ SubSeq(text, 1, L) = text
  BY SubSeqEmpty, SubSeqFull
<1> DEFINE S == {n \in 0 .. L : upto[n] = SubSeq(text, 1, n)}
<1>3. 0 \in S
  BY <1>1, <1>2
<1>4. ASSUME NEW n \in 1 .. L, n - 1 \in S
      PROVE  n \in S
  <2> DEFINE m == n - 1
  <2> DEFINE out == SubSeq(text, 1, m)
  <2>1. upto[n] = SpokenAfter(out, text[n]) /\ m \in 0 .. Len(text) /\ n \in 1 .. Len(text)
    BY <1>1, <1>4
  <2> HIDE DEF m, L
  <2>2. /\ out \in Seq(Printed) /\ Len(out) = m /\ \A i \in 1 .. m : out[i] = text[i]
    BY <2>1, CutInTwo
  <2>3. m >= 3 => out[m] # Break
    <3>1. m >= 3 => m \in 1 .. m /\ m \in 1 .. Len(text)
      BY <2>1
    <3> QED BY <2>2, <3>1
  <2> HIDE DEF out
  <2>4. SpokenAfter(out, text[n]) = Append(out, text[n])
    BY <2>2, <2>3 DEF SpokenAfter
  <2>5. Append(out, text[n]) = out \o <<text[n]>>
    BY <2>1, <2>2, AppendIsConcat
  <2>6. SubSeq(text, 1, n) = SubSeq(text, 1, n - 1) \o <<text[n]>>
    <3>1. 1 \in 1 .. Len(text)
      BY <2>1
    <3> QED BY <2>1, <3>1, SubSeqRecursiveSecond
  <2>7. upto[n] = SubSeq(text, 1, n)
    BY <2>1, <2>4, <2>5, <2>6, Zenon DEF out, m
  <2> QED BY <2>1, <2>7 DEF L
<1>5. \A n \in 0 .. L : n \in S
  <2> HIDE DEF S, L
  <2> QED BY <1>2, <1>3, <1>4, CountUp, Zenon
<1> QED BY <1>1, <1>2, <1>5

(* A page by itself has none. *)
LEMMA PageUnbroken ==
    ASSUME NEW pages \in Seq(PdfPage), NEW p \in DOMAIN pages
    PROVE  /\ SpeechPage(pages, p) \in Seq(Printed)
           /\ NormalizeForSpeech(SpeechPage(pages, p)) = SpeechPage(pages, p)
<1> DEFINE repeated == Repeated(pages, pages[p].header)
<1> DEFINE page == BodyLines(pages, p, repeated)
<1>1. page \in Seq(Printed)
  <2>1. repeated \in BOOLEAN
    BY DEF Repeated
  <2> HIDE DEF repeated
  <2> QED BY <2>1, BodyTyped
<1>2. p \in Nat /\ p # 0 /\ pages[p] \in PdfPage
  OBVIOUS
<1> HIDE DEF repeated
<1>3. \A sym, n : Symbol(sym, p, n) # Break
  <2>1. \A sym, n : Symbol(sym, p, n).page = p
    BY DEF Symbol
  <2>2. Break.page = 0
    BY DEF Break, Symbol
  <2> QED BY <1>2, <2>1, <2>2
<1>4. ASSUME NEW i \in 1 .. Len(page)
      PROVE  page[i] # Break
  <2>1. CASE pages[p].meta
    <3>1. page = <<>>
      BY <2>1 DEF BodyLines
    <3> HIDE DEF page
    <3>2. FALSE
      BY <3>1
    <3> QED BY <3>2
  <2>2. CASE ~pages[p].meta
    <3> DEFINE body == Body(pages, p)
    <3> DEFINE symbols == pages[p].body
    <3> DEFINE title == Symbol(pages[p].header, p, 0)
    <3> DEFINE top == IF pages[p].header = None \/ repeated THEN <<>> ELSE <<title>>
    <3>1. page = top \o body
      BY <2>2 DEF BodyLines
    <3>2. symbols \in Seq(Seq(Letter))
      BY <1>2 DEF PdfPage
    <3>3. body = [n \in DOMAIN symbols |-> Symbol(symbols[n], p, n)]
      BY DEF Body
    <3> DEFINE W == {s \in Printed : s # Break}
    <3>4. \A sym \in Seq(Letter) : \A n \in Nat : Symbol(sym, p, n) \in W
      <4>1. \A sym \in Seq(Letter) : \A n \in Nat : Symbol(sym, p, n) \in Printed
        BY <1>2 DEF Symbol, Printed
      <4> HIDE DEF Printed
      <4> QED BY <1>3, <4>1
    <3>5. \A w \in W : w # Break
      OBVIOUS
    <3>6. pages[p].header # None => title \in W
      <4>1. pages[p].header # None => pages[p].header \in Seq(Letter)
        BY <1>2 DEF PdfPage
      <4> QED BY <3>4, <4>1
    <3> HIDE DEF symbols, body, page, title, W
    <3>7. body \in Seq(W)
      <4>1. /\ DOMAIN symbols = 1 .. Len(symbols) /\ Len(symbols) \in Nat
            /\ \A n \in 1 .. Len(symbols) : symbols[n] \in Seq(Letter) /\ n \in Nat
        BY <3>2
      <4> DEFINE m == Len(symbols)
      <4> DEFINE at(n) == Symbol(symbols[n], p, n)
      <4>2. \A n \in 1 .. m : at(n) \in W
        BY <3>4, <4>1
      <4>3. body = [n \in 1 .. m |-> at(n)] /\ m \in Nat
        BY <3>3, <4>1
      <4> HIDE DEF m, at
      <4> QED BY <4>2, <4>3
    <3>8. top \in Seq(W)
      BY <3>6
    <3> HIDE DEF top
    <3>9. page \in Seq(W)
      BY <3>1, <3>7, <3>8, ConcatProperties
    <3>10. page[i] \in W
      BY <3>9
    <3> QED BY <3>5, <3>10
  <2> QED BY <2>1, <2>2
<1> HIDE DEF page
<1>5. NormalizeForSpeech(page) = page
  BY <1>1, <1>4, NormalAlready
<1> QED BY <1>1, <1>5 DEF page, repeated, SpeechPage

(* The words of texts that are joined are theirs, one text after another.    *)
LEMMA JoinedWords ==
    ASSUME NEW texts \in Seq(Seq(Printed))
    PROVE  WordsOf(Joined(texts)) = WordsIn(texts)
<1> DEFINE L == Len(texts)
<1> DEFINE V == Seq(Printed)
<1> DEFINE led == [n \in 1 .. L |-> Led(texts, n)]
<1> DEFINE words == Mapped(texts, PartWords)
<1>0. Break \in Printed /\ <<Break>> \in Seq(Printed)
  <2>1. Break \in Printed
    BY BreakSilent
  <2> HIDE DEF Printed
  <2> QED BY <2>1
<1>1. L \in Nat /\ \A n \in 1 .. L : texts[n] \in V
  OBVIOUS
<1>2. \A n \in 1 .. L : /\ Led(texts, n) \in V
                        /\ <<Break>> \o texts[n] \in V
  <2> SUFFICES ASSUME NEW n \in 1 .. L
               PROVE  Led(texts, n) \in V /\ <<Break>> \o texts[n] \in V
    OBVIOUS
  <2>1. texts[n] \in Seq(Printed)
    BY <1>1
  <2>2. <<Break>> \o texts[n] \in Seq(Printed)
    <3> HIDE DEF Printed
    <3> QED BY <1>0, <2>1, ConcatProperties
  <2> QED BY <2>1, <2>2, Zenon DEF Led
<1>3. led \in Seq(V) /\ Len(led) = L
  <2> HIDE DEF V, L
  <2> QED BY <1>1, <1>2
<1>4. words \in Seq(Seq(WordKind)) /\ Len(words) = L
  BY PartWordsTyped, MappedTyped
<1>5. \A n \in 1 .. L : led[n] = Led(texts, n) /\ words[n] = WordsOf(texts[n])
  <2>1. \A n \in 1 .. L : words[n] = PartWords[texts[n]]
    BY DEF Mapped
  <2>2. \A n \in 1 .. L : PartWords[texts[n]] = WordsOf(texts[n])
    <3> HIDE DEF Printed
    <3> QED BY <1>1 DEF PartWords
  <2> QED BY <2>1, <2>2
<1> HIDE DEF led, words
<1>6. PICK t \in [0 .. L -> V] :
         /\ t[0] = <<>> /\ \A n \in 1 .. L : t[n] = t[n - 1] \o led[n]
         /\ Concatenated(led) = t[L]
  <2>1. led \in Seq(Seq(Printed))
    BY <1>3
  <2>2. \E u \in [0 .. Len(led) -> Seq(Printed)] :
           /\ u[0] = <<>> /\ \A n \in 1 .. Len(led) : u[n] = u[n - 1] \o led[n]
           /\ Concatenated(led) = u[Len(led)]
    BY <2>1, ConcatenatedSteps
  <2> HIDE DEF L
  <2> QED BY <1>3, <2>2
<1>7. PICK w \in [0 .. L -> Seq(WordKind)] :
         /\ w[0] = <<>> /\ \A n \in 1 .. L : w[n] = w[n - 1] \o words[n]
         /\ Concatenated(words) = w[L]
  <2>1. \E u \in [0 .. Len(words) -> Seq(WordKind)] :
           /\ u[0] = <<>> /\ \A n \in 1 .. Len(words) : u[n] = u[n - 1] \o words[n]
           /\ Concatenated(words) = u[Len(words)]
    BY <1>4, ConcatenatedSteps
  <2> HIDE DEF L
  <2> QED BY <1>4, <2>1
<1> HIDE DEF V, L
<1> DEFINE Blank(n) == (\A m \in 1 .. n : texts[m] = <<>>) => t[n] = <<>>
<1> DEFINE S == {n \in 0 .. L : WordsOf(t[n]) = w[n] /\ Blank(n)}
<1>8. 0 \in S
  BY <1>1, <1>6, <1>7, WordsOfNone
<1>9. ASSUME NEW n \in 1 .. L, n - 1 \in S
      PROVE  n \in S
  <2>1. /\ n - 1 \in 0 .. L /\ WordsOf(t[n - 1]) = w[n - 1] /\ Blank(n - 1)
        /\ 1 .. n - 1 \subseteq 1 .. n /\ n \in 1 .. n
    BY <1>1, <1>9
  <2> DEFINE so == t[n - 1]
  <2> DEFINE next == texts[n]
  <2>2. so \in Seq(Printed) /\ next \in Seq(Printed) /\ t[n] = so \o Led(texts, n)
    BY <1>1, <1>5, <1>6, <2>1 DEF V
  <2>3. w[n] = WordsOf(so) \o WordsOf(next)
    BY <1>5, <1>7, <2>1
  <2> HIDE DEF so
  <2>4. CASE next = <<>> \/ \A m \in 1 .. n - 1 : texts[m] = <<>>
    <3>1. Led(texts, n) = next
      BY <2>4, Zenon DEF Led
    <3>2. so = <<>> \/ next = <<>>
      BY <2>1, <2>4 DEF so
    <3>3. WordsOf(so \o next) = WordsOf(so) \o WordsOf(next)
      <4> HIDE DEF next
      <4> QED BY <2>2, <3>2, WordsAtBreak
    <3>4. Blank(n)
      <4> SUFFICES ASSUME \A m \in 1 .. n : texts[m] = <<>> PROVE t[n] = <<>>
        OBVIOUS
      <4>1. so = <<>> /\ next = <<>>
        BY <2>1 DEF so
      <4>2. <<>> \o <<>> = <<>>
        OBVIOUS
      <4> QED BY <2>2, <3>1, <4>1, <4>2, Zenon
    <3>5. WordsOf(t[n]) = w[n]
      BY <2>2, <2>3, <3>1, <3>3, Zenon
    <3> QED BY <1>1, <3>4, <3>5
  <2>5. CASE next # <<>> /\ \E m \in 1 .. n - 1 : texts[m] # <<>>
    <3> DEFINE b == <<Break>> \o next
    <3>1. Led(texts, n) = b
      BY <2>5, Zenon DEF Led
    <3>2. b \in Seq(Printed) /\ b[1] = Break
      <4>1. b \in Seq(Printed)
        BY <1>2 DEF V
      <4>2. b[1] = Break
        <5> HIDE DEF Printed, next
        <5> DEFINE one == <<Break>>
        <5>1. one \in Seq(Printed) /\ 1 \in 1 .. Len(one) /\ one[1] = Break
          BY <1>0
        <5> HIDE DEF one
        <5>2. (one \o next)[1] = one[1]
          BY <2>2, <5>1, ConcatAt
        <5> QED BY <5>1, <5>2 DEF one
      <4> QED BY <4>1, <4>2
    <3>3. WordsOf(so \o b) = WordsOf(so) \o WordsOf(b)
      <4> HIDE DEF b
      <4> QED BY <2>2, <3>2, WordsAtBreak
    <3>4. WordsOf(b) = WordsOf(next)
      <4>1. WordsOf(<<Break>> \o next) = WordsOf(<<Break>>) \o WordsOf(next)
        <5> DEFINE one == <<Break>>
        <5>1. one \in Seq(Printed) /\ one[Len(one)] = Break
          BY <1>0
        <5> HIDE DEF one, next
        <5>2. WordsOf(one \o next) = WordsOf(one) \o WordsOf(next)
          BY <2>2, <5>1, WordsAtBreak
        <5> QED BY <5>2 DEF one
      <4>2. WordsOf(<<Break>>) = <<>>
        <5>1. Breaks(<<Break>>)
          BY DEF Breaks
        <5> QED BY <1>0, <5>1, BreaksHaveNoWords
      <4>3. <<>> \o WordsOf(next) = WordsOf(next)
        BY <2>2, WordsOfTyped
      <4> QED BY <4>1, <4>2, <4>3, Zenon
    <3>5. WordsOf(t[n]) = w[n]
      BY <2>2, <2>3, <3>1, <3>3, <3>4, Zenon
    <3>6. Blank(n)
      BY <2>1, <2>5
    <3> QED BY <1>1, <3>5, <3>6
  <2> QED BY <2>4, <2>5
<1>10. \A n \in 0 .. L : n \in S
  <2> HIDE DEF S
  <2> QED BY <1>1, <1>8, <1>9, CountUp, Zenon
<1>11. WordsOf(t[L]) = w[L]
  BY <1>1, <1>10
<1> QED BY <1>6, <1>7, <1>11, Zenon DEF Joined, WordsIn, led, words, L
======================================================================
