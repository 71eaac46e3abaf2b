----------------------------- MODULE SequenceLemmas -----------------------------
(***************************************************************************)
(* Recursion and induction over the naturals in a form the provers can     *)
(* use, without an operator as a parameter: a set that holds 0 and, with   *)
(* any number, the next one is Nat; a recursion whose steps are functions  *)
(* has a solution.                                                         *)
(***************************************************************************)
EXTENDS Integers, Sequences, SequencesExt, SequenceTheorems, WellFoundedInduction, TLAPS

\* Every set of naturals that is not empty has a least member.
LEMMA LeastNumber ==
  ASSUME NEW T, T \subseteq Nat, T # {}
  PROVE  \E n \in T : \A m \in T : n <= m
<1>1. PICK n \in T : \A m \in T : <<m, n>> \notin OpToRel(<, Nat)
  BY NatLessThanWellFounded, WFMin
<1>2. \A m \in T : ~(m < n)
  BY <1>1 DEF OpToRel
<1> QED
  BY <1>2

\* Induction, over the set of the numbers of which something is to be shown.
LEMMA Induction ==
  ASSUME NEW T, T \subseteq Nat, 0 \in T, \A n \in T : n + 1 \in T
  PROVE  T = Nat
<1>1. SUFFICES ASSUME Nat \ T # {} PROVE FALSE
  OBVIOUS
<1>2. PICK n \in Nat \ T : \A m \in Nat \ T : n <= m
  BY <1>1, LeastNumber
<1>3. n # 0 /\ n - 1 \in Nat
  BY <1>2
<1>4. n - 1 \in T
  BY <1>2, <1>3
<1> QED
  BY <1>2, <1>3, <1>4

\* f runs from s0 by step, n times.
Runs(f, S, n, s0, step) ==
    /\ f \in [0 .. n -> S]
    /\ f[0] = s0
    /\ \A i \in 1 .. n : f[i] = step[i][f[i - 1]]

\* Whatever the steps are, there is such a run.
LEMMA Recursion ==
  ASSUME NEW S, NEW n \in Nat, NEW s0 \in S, NEW step \in [1 .. n -> [S -> S]]
  PROVE  \E f : Runs(f, S, n, s0, step)
<1> DEFINE T == {k \in Nat : k <= n => \E f : Runs(f, S, k, s0, step)}
<1>1. 0 \in T
  <2>1. Runs([i \in 0 .. 0 |-> s0], S, 0, s0, step)
    BY DEF Runs
  <2> QED
    BY <2>1
<1>2. \A k \in T : k + 1 \in T
  <2> TAKE k \in T
  <2> SUFFICES ASSUME k + 1 <= n PROVE \E f : Runs(f, S, k + 1, s0, step)
    OBVIOUS
  <2>1. k \in Nat /\ k + 1 \in 1 .. n /\ (k + 1) - 1 = k
    OBVIOUS
  <2>2. PICK f : Runs(f, S, k, s0, step)
    BY <2>1
  <2> DEFINE g == [i \in 0 .. k + 1 |-> IF i = k + 1 THEN step[i][f[i - 1]] ELSE f[i]]
  <2>3. \A i \in 0 .. k : g[i] = f[i]
    BY <2>1
  <2>4. f[k] \in S /\ step[k + 1] \in [S -> S]
    BY <2>1, <2>2 DEF Runs
  <2>5. g[k + 1] = step[k + 1][f[k]] /\ g[k + 1] \in S
    BY <2>1, <2>4
  <2>6. g \in [0 .. k + 1 -> S]
    BY <2>1, <2>2, <2>4 DEF Runs
  <2> HIDE DEF g
  <2>7. \A i \in 1 .. k + 1 : g[i] = step[i][g[i - 1]]
    <3> TAKE i \in 1 .. k + 1
    <3>1. i - 1 \in 0 .. k
      BY <2>1
    <3>2. CASE i = k + 1
      BY <2>1, <2>3, <2>5, <3>1, <3>2
    <3>3. CASE i # k + 1
      BY <2>1, <2>2, <2>3, <3>1, <3>3 DEF Runs
    <3> QED
      BY <3>2, <3>3
  <2>8. g[0] = s0
    BY <2>1, <2>2, <2>3 DEF Runs
  <2> QED
    BY <2>6, <2>7, <2>8 DEF Runs
<1>3. T = Nat
  <2>1. T \subseteq Nat
    OBVIOUS
  <2> HIDE DEF T
  <2> QED
    BY <1>1, <1>2, <2>1, Induction
<1> QED
  BY <1>3

\* The steps from s0 on, for ever.
LEMMA Iteration ==
  ASSUME NEW S, NEW s0 \in S, NEW step \in [S -> S]
  PROVE  \E f \in [Nat -> S] : f[0] = s0 /\ \A i \in Nat : f[i + 1] = step[f[i]]
<1> DEFINE steps(n) == [i \in 1 .. n |-> step]
           Run(n) == CHOOSE f : Runs(f, S, n, s0, steps(n))
<1>1. \A n \in Nat : Runs(Run(n), S, n, s0, steps(n))
  <2> TAKE n \in Nat
  <2>1. steps(n) \in [1 .. n -> [S -> S]]
    OBVIOUS
  <2>2. \E f : Runs(f, S, n, s0, steps(n))
    <3> HIDE DEF steps
    <3> QED
      BY <2>1, Recursion
  <2> QED
    BY <2>2
<1>2. \A n \in Nat : /\ Run(n) \in [0 .. n -> S] /\ Run(n)[0] = s0
                     /\ \A i \in 1 .. n : Run(n)[i] = step[Run(n)[i - 1]]
  <2> TAKE n \in Nat
  <2> HIDE DEF Run
  <2>1. \A i \in 1 .. n : steps(n)[i] = step
    OBVIOUS
  <2> HIDE DEF steps
  <2> QED
    BY <1>1, <2>1 DEF Runs
<1> HIDE DEF Run
\* One run begins like a longer one.
<1>3. \A n \in Nat, k \in Nat : k <= n => Run(n)[k] = Run(k)[k]
  <2> DEFINE T == {k \in Nat : \A n \in Nat, m \in Nat : k <= n /\ k <= m => Run(n)[k] = Run(m)[k]}
  <2>1. 0 \in T
    BY <1>2
  <2>2. \A k \in T : k + 1 \in T
    <3> SUFFICES ASSUME NEW k \in T, NEW n \in Nat, NEW m \in Nat, k + 1 <= n, k + 1 <= m
                 PROVE  Run(n)[k + 1] = Run(m)[k + 1]
      OBVIOUS
    <3>1. k \in Nat /\ k + 1 \in 1 .. n /\ k + 1 \in 1 .. m /\ (k + 1) - 1 = k /\ k <= n /\ k <= m
      OBVIOUS
    <3>2. Run(n)[k] = Run(m)[k]
      BY <3>1
    <3> HIDE DEF T
    <3> QED
      BY <1>2, <3>1, <3>2
  <2>3. T \subseteq Nat
    OBVIOUS
  <2>4. T = Nat
    <3> HIDE DEF T
    <3> QED
      BY <2>1, <2>2, <2>3, Induction
  <2> QED
    BY <2>4
<1> DEFINE f == [n \in Nat |-> Run(n)[n]]
<1>4. f \in [Nat -> S] /\ f[0] = s0
  BY <1>2
<1>5. \A i \in Nat : f[i + 1] = step[f[i]]
  <2> TAKE i \in Nat
  <2>1. i + 1 \in Nat /\ i + 1 \in 1 .. i + 1 /\ (i + 1) - 1 = i /\ i <= i + 1
    OBVIOUS
  <2>2. Run(i + 1)[i + 1] = step[Run(i + 1)[i]]
    BY <1>2, <2>1
  <2>3. Run(i + 1)[i] = Run(i)[i]
    BY <1>3, <2>1
  <2> QED
    BY <2>1, <2>2, <2>3
<1> QED
  BY <1>4, <1>5

--------------------------------------------------------------------------------
(* Concatenation of many sequences.                                        *)

\* f is the concatenation of the first of the sequences, for any number of them.
Concatenates(f, S, seqs) ==
    /\ f \in [0 .. Len(seqs) -> Seq(S)]
    /\ f[0] = <<>>
    /\ \A i \in 1 .. Len(seqs) : f[i] = f[i - 1] \o seqs[i]

LEMMA Concatenation ==
  ASSUME NEW S, NEW seqs \in Seq(Seq(S))
  PROVE  \E f : Concatenates(f, S, seqs)
<1> DEFINE step == [i \in 1 .. Len(seqs) |-> [s \in Seq(S) |-> s \o seqs[i]]]
<1>1. Len(seqs) \in Nat /\ <<>> \in Seq(S)
  OBVIOUS
<1>2. step \in [1 .. Len(seqs) -> [Seq(S) -> Seq(S)]]
  OBVIOUS
<1>3. PICK f : Runs(f, Seq(S), Len(seqs), <<>>, step)
  <2> HIDE DEF step
  <2> QED
    BY <1>1, <1>2, Recursion
<1>4. f \in [0 .. Len(seqs) -> Seq(S)] /\ f[0] = <<>>
  BY <1>3 DEF Runs
<1>5. \A i \in 1 .. Len(seqs) : f[i] = f[i - 1] \o seqs[i]
  <2> TAKE i \in 1 .. Len(seqs)
  <2>1. f[i - 1] \in Seq(S)
    <3>1. i - 1 \in 0 .. Len(seqs)
      OBVIOUS
    <3> QED
      BY <1>4, <3>1
  <2>2. f[i] = step[i][f[i - 1]]
    <3> HIDE DEF step
    <3> QED
      BY <1>3 DEF Runs
  <2> QED
    BY <2>1, <2>2
<1> QED
  BY <1>4, <1>5 DEF Concatenates

\* FlattenSeq is the last of those.
LEMMA Flattened ==
  ASSUME NEW S, NEW seqs \in Seq(Seq(S)), NEW f, Concatenates(f, S, seqs)
  PROVE  FlattenSeq(seqs) = f[Len(seqs)]
<1> DEFINE Solves(g) == g = [i \in 1 .. Len(seqs) |-> IF i = 1 THEN seqs[i] ELSE g[i - 1] \o seqs[i]]
           flatten == CHOOSE g : Solves(g)
<1>1. CASE Len(seqs) = 0
  BY <1>1 DEF FlattenSeq, Concatenates
<1>2. CASE Len(seqs) # 0
  <2> DEFINE g == [i \in 1 .. Len(seqs) |-> f[i]]
  <2>1. \A i \in 1 .. Len(seqs) : g[i] = f[i] /\ seqs[i] \in Seq(S)
    OBVIOUS
  <2>2. \A i \in 1 .. Len(seqs) : g[i] = IF i = 1 THEN seqs[i] ELSE g[i - 1] \o seqs[i]
    <3> HIDE DEF g
    <3> TAKE i \in 1 .. Len(seqs)
    <3>1. i = 1 \/ i - 1 \in 1 .. Len(seqs)
      OBVIOUS
    <3>2. CASE i = 1
      <4>1. f[1] = f[1 - 1] \o seqs[1] /\ f[1 - 1] = <<>>
        <5>1. 1 \in 1 .. Len(seqs) /\ 1 - 1 = 0
          BY <3>2
        <5> QED
          BY <5>1 DEF Concatenates
      <4>2. seqs[1] \in Seq(S)
        BY <2>1, <3>2
      <4>3. <<>> \o seqs[1] = seqs[1]
        BY <4>2
      <4> QED
        BY <2>1, <3>2, <4>1, <4>3
    <3>3. CASE i # 1
      BY <2>1, <3>1, <3>3 DEF Concatenates
    <3> QED
      BY <3>2, <3>3
  <2>3. Solves(g)
    BY <2>2
  <2>4. Solves(flatten)
    <3> HIDE DEF Solves, g
    <3> QED
      BY <2>3
  <2>5. FlattenSeq(seqs) = flatten[Len(seqs)]
    BY <1>2 DEF FlattenSeq
  <2> HIDE DEF flatten, g
  <2>6. flatten[1] = f[1]
    BY <1>2, <2>1, <2>2, <2>4
  <2>7. \A i \in 1 .. Len(seqs) : i # 1 => flatten[i] = flatten[i - 1] \o seqs[i]
    BY <2>4, Zenon
  <2> DEFINE T == {k \in Nat : k + 1 <= Len(seqs) => flatten[k + 1] = f[k + 1]}
  <2>8. 0 \in T
    BY <2>6
  <2>9. \A k \in T : k + 1 \in T
    <3> TAKE k \in T
    <3> SUFFICES ASSUME k \in Nat, (k + 1) + 1 <= Len(seqs) PROVE flatten[(k + 1) + 1] = f[(k + 1) + 1]
      OBVIOUS
    <3>1. (k + 1) + 1 \in 1 .. Len(seqs) /\ (k + 1) + 1 # 1 /\ ((k + 1) + 1) - 1 = k + 1
      OBVIOUS
    <3>2. flatten[(k + 1) + 1] = flatten[k + 1] \o seqs[(k + 1) + 1]
      BY <2>7, <3>1, Zenon
    <3>3. f[(k + 1) + 1] = f[k + 1] \o seqs[(k + 1) + 1]
      BY <3>1, Zenon DEF Concatenates
    <3>4. flatten[k + 1] = f[k + 1]
      OBVIOUS
    <3> QED
      BY <3>2, <3>3, <3>4
  <2>10. T = Nat
    <3>1. T \subseteq Nat
      OBVIOUS
    <3> HIDE DEF T
    <3> QED
      BY <2>8, <2>9, <3>1, Induction
  <2>11. Len(seqs) - 1 \in T
    <3> HIDE DEF T
    <3> QED
      BY <1>2, <2>10
  <2> QED
    BY <2>5, <2>11, <1>2
<1> QED
  BY <1>1, <1>2

--------------------------------------------------------------------------------
(* The ends of a sequence, what is in it, and in what order.               *)

LEMMA Ends ==
  ASSUME NEW S, NEW s \in Seq(S), s # <<>>
  PROVE  /\ Len(s) \in Nat \ {0}
         /\ Front(s) \in Seq(S) /\ Len(Front(s)) = Len(s) - 1
         /\ \A i \in 1 .. Len(s) - 1 : Front(s)[i] = s[i]
         /\ Last(s) = s[Len(s)] /\ Last(s) \in S
<1>1. Len(s) \in Nat \ {0}
  OBVIOUS
<1>2. Front(s) \in Seq(S) /\ Len(Front(s)) = Len(s) - 1
  <2> DEFINE n == Len(s) - 1
  <2>1. n \in Int /\ n >= 0 /\ \A i \in 1 .. n : s[i] \in S
    BY <1>1
  <2>2. Front(s) = SubSeq(s, 1, n)
    BY DEF Front
  <2> HIDE DEF n
  <2>3. SubSeq(s, 1, n) \in Seq(S) /\ Len(SubSeq(s, 1, n)) = IF 1 <= n THEN n - 1 + 1 ELSE 0
    BY <2>1, SubSeqProperties
  <2>4. Len(Front(s)) = n
    BY <2>1, <2>2, <2>3
  <2> QED
    BY <2>2, <2>3, <2>4, Zenon DEF n
<1>3. \A i \in 1 .. Len(s) - 1 : Front(s)[i] = s[i]
  BY <1>1 DEF Front
<1>4. Last(s) = s[Len(s)] /\ Last(s) \in S
  BY <1>1 DEF Last
<1> QED
  BY <1>1, <1>2, <1>3, <1>4

\* The last element gives way to another.
LEMMA LastReplaced ==
  ASSUME NEW S, NEW s \in Seq(S), s # <<>>, NEW e \in S
  PROVE  /\ Append(Front(s), e) \in Seq(S)
         /\ Len(Append(Front(s), e)) = Len(s)
         /\ \A i \in 1 .. Len(s) - 1 : Append(Front(s), e)[i] = s[i]
         /\ Append(Front(s), e)[Len(s)] = e
BY Ends

LEMMA RangeOfAppend ==
  ASSUME NEW S, NEW s \in Seq(S), NEW e \in S
  PROVE  Range(Append(s, e)) = Range(s) \cup {e}
<1>1. /\ DOMAIN s = 1 .. Len(s) /\ DOMAIN Append(s, e) = 1 .. Len(s) + 1
      /\ \A i \in 1 .. Len(s) : Append(s, e)[i] = s[i]
      /\ Append(s, e)[Len(s) + 1] = e /\ Len(s) \in Nat
  OBVIOUS
<1>2. Range(Append(s, e)) \subseteq Range(s) \cup {e}
  BY <1>1 DEF Range
<1>3. Range(s) \subseteq Range(Append(s, e))
  BY <1>1 DEF Range
<1>4. e \in Range(Append(s, e))
  BY <1>1 DEF Range
<1> QED
  BY <1>2, <1>3, <1>4

LEMMA InjectiveAppend ==
  ASSUME NEW S, NEW s \in Seq(S), NEW e \in S, IsInjective(s), e \notin Range(s)
  PROVE  IsInjective(Append(s, e))
BY DEF IsInjective, Range

\* n comes before m in s.
Precedes(s, n, m) == \E i, j \in DOMAIN s : i < j /\ s[i] = n /\ s[j] = m

LEMMA PrecedesInAppend ==
  ASSUME NEW S, NEW s \in Seq(S), NEW e \in S, NEW n, NEW m
  PROVE  Precedes(Append(s, e), n, m) <=> Precedes(s, n, m) \/ (n \in Range(s) /\ m = e)
<1>1. /\ DOMAIN s = 1 .. Len(s) /\ DOMAIN Append(s, e) = 1 .. Len(s) + 1
      /\ \A i \in 1 .. Len(s) : Append(s, e)[i] = s[i]
      /\ Append(s, e)[Len(s) + 1] = e /\ Len(s) \in Nat
  OBVIOUS
<1>2. ASSUME Precedes(Append(s, e), n, m) PROVE Precedes(s, n, m) \/ (n \in Range(s) /\ m = e)
  BY <1>1, <1>2 DEF Precedes, Range
<1>3. ASSUME Precedes(s, n, m) PROVE Precedes(Append(s, e), n, m)
  BY <1>1, <1>3 DEF Precedes
<1>4. ASSUME n \in Range(s), m = e PROVE Precedes(Append(s, e), n, m)
  BY <1>1, <1>4 DEF Precedes, Range
<1> QED
  BY <1>2, <1>3, <1>4

\* A sequence is injective when nothing precedes itself.
LEMMA InjectivePrecedes ==
  ASSUME NEW S, NEW s \in Seq(S)
  PROVE  IsInjective(s) <=> \A n \in S : ~Precedes(s, n, n)
<1>1. ASSUME IsInjective(s) PROVE \A n \in S : ~Precedes(s, n, n)
  BY <1>1 DEF IsInjective, Precedes
<1>2. ASSUME \A n \in S : ~Precedes(s, n, n) PROVE IsInjective(s)
  <2> SUFFICES ASSUME NEW i \in 1 .. Len(s), NEW j \in 1 .. Len(s), s[i] = s[j] PROVE i = j
    BY DEF IsInjective
  <2>1. ~(i < j) /\ ~(j < i)
    BY <1>2 DEF Precedes
  <2> QED
    BY <2>1
<1> QED
  BY <1>1, <1>2

--------------------------------------------------------------------------------
(* Prefixes.                                                               *)

LEMMA Regrouped ==
  ASSUME NEW S, NEW d \in Seq(S), NEW s \in Seq(S)
  PROVE  /\ \A e \in S : d \o Append(s, e) = (d \o s) \o <<e>>
         /\ \A t \in Seq(S) : d \o (s \o t) = (d \o s) \o t
         /\ d \o <<>> = d /\ d \o s \in Seq(S)
<1>1. \A t \in Seq(S) : d \o (s \o t) = (d \o s) \o t
  <2> TAKE t \in Seq(S)
  <2> QED
    BY ConcatAssociative
<1>2. ASSUME NEW e \in S PROVE d \o Append(s, e) = (d \o s) \o <<e>>
  <2>1. Append(s, e) = s \o <<e>> /\ <<e>> \in Seq(S)
    BY AppendIsConcat
  <2> QED
    BY <1>1, <2>1
<1>3. d \o <<>> = d /\ d \o s \in Seq(S)
  OBVIOUS
<1> QED
  BY <1>1, <1>2, <1>3

LEMMA PrefixPointwise ==
  ASSUME NEW S, NEW s \in Seq(S), NEW t \in Seq(S)
  PROVE  IsPrefix(s, t) <=> Len(s) <= Len(t) /\ \A i \in 1 .. Len(s) : s[i] = t[i]
<1> DEFINE n == Len(s)
           u == SubSeq(t, 1, n)
<1>1. n \in Nat /\ Len(t) \in Nat /\ SubSeq(s, 1, n) = s
  BY SubSeqFull
<1>2. IsPrefix(s, t) <=> n <= Len(t) /\ s = u
  BY <1>1 DEF IsPrefix
<1>3. ASSUME n <= Len(t)
      PROVE  u \in Seq(S) /\ Len(u) = n /\ \A i \in 1 .. n : u[i] = t[i]
  <2>1. n \in Int /\ 1 \in Int /\ \A i \in 1 .. n : t[i] \in S
    BY <1>1, <1>3
  <2> HIDE DEF n
  <2>2. /\ u \in Seq(S) /\ Len(u) = IF 1 <= n THEN n - 1 + 1 ELSE 0
        /\ \A i \in 1 .. n - 1 + 1 : u[i] = t[1 + i - 1]
    BY <2>1, SubSeqProperties
  <2> HIDE DEF u
  <2>3. n - 1 + 1 = n /\ \A i \in 1 .. n : 1 + i - 1 = i
    BY <1>1
  <2> QED
    BY <1>1, <2>2, <2>3
<1> HIDE DEF u
<1>4. ASSUME n <= Len(t), \A i \in 1 .. n : s[i] = t[i] PROVE s = u
  <2>1. u \in Seq(S) /\ Len(u) = Len(s) /\ \A i \in 1 .. Len(s) : s[i] = u[i]
    BY <1>3, <1>4
  <2> QED
    BY <2>1, SeqEqual
<1> QED
  BY <1>1, <1>2, <1>3, <1>4

LEMMA PrefixTransitive ==
  ASSUME NEW S, NEW s \in Seq(S), NEW t \in Seq(S), NEW u \in Seq(S), IsPrefix(s, t), IsPrefix(t, u)
  PROVE  IsPrefix(s, u)
<1>1. /\ Len(s) <= Len(t) /\ \A i \in 1 .. Len(s) : s[i] = t[i]
      /\ Len(t) <= Len(u) /\ \A i \in 1 .. Len(t) : t[i] = u[i]
  BY PrefixPointwise
<1> QED
  BY <1>1, PrefixPointwise

LEMMA PrefixOfConcatenation ==
  ASSUME NEW S, NEW s \in Seq(S), NEW t \in Seq(S)
  PROVE  IsPrefix(s, s) /\ IsPrefix(s, s \o t)
<1> DEFINE u == s \o t
<1>1. u \in Seq(S) /\ Len(s) <= Len(u) /\ \A i \in 1 .. Len(s) : s[i] = u[i]
  OBVIOUS
<1> HIDE DEF u
<1>2. IsPrefix(s, u)
  BY <1>1, PrefixPointwise
<1>3. IsPrefix(s, s)
  BY PrefixPointwise
<1> QED
  BY <1>2, <1>3 DEF u

\* What the first of the sequences make is a prefix of what more of them make.
LEMMA PrefixOfMore ==
  ASSUME NEW S, NEW seqs \in Seq(Seq(S)), NEW f, Concatenates(f, S, seqs),
         NEW k \in 0 .. Len(seqs), NEW j \in 0 .. k
  PROVE  IsPrefix(f[j], f[k])
<1> DEFINE T == {n \in Nat : j + n <= Len(seqs) => IsPrefix(f[j], f[j + n])}
<1>1. \A i \in 0 .. Len(seqs) : f[i] \in Seq(S)
  BY DEF Concatenates
<1>2. 0 \in T
  BY <1>1, PrefixOfConcatenation
<1>3. \A n \in T : n + 1 \in T
  <2> TAKE n \in T
  <2> SUFFICES ASSUME j + (n + 1) <= Len(seqs) PROVE IsPrefix(f[j], f[j + (n + 1)])
    <3>1. n \in Nat /\ n + 1 \in Nat
      OBVIOUS
    <3> QED
      BY <3>1
  <2> DEFINE i == j + (n + 1)
  <2>1. /\ i \in 1 .. Len(seqs) /\ i - 1 \in 0 .. Len(seqs) /\ i - 1 = j + n
        /\ j \in 0 .. Len(seqs) /\ IsPrefix(f[j], f[j + n])
    OBVIOUS
  <2> HIDE DEF i
  <2>2. f[i - 1] \in Seq(S) /\ f[i] \in Seq(S) /\ f[j] \in Seq(S) /\ seqs[i] \in Seq(S)
    BY <1>1, <2>1
  <2>3. f[i] = f[i - 1] \o seqs[i]
    BY <2>1 DEF Concatenates
  <2>4. IsPrefix(f[i - 1], f[i])
    BY <2>2, <2>3, PrefixOfConcatenation
  <2>5. IsPrefix(f[j], f[i - 1])
    BY <2>1
  <2>6. IsPrefix(f[j], f[i])
    BY <2>2, <2>4, <2>5, PrefixTransitive
  <2> QED
    BY <2>6 DEF i
<1>4. T = Nat
  <2>1. T \subseteq Nat
    OBVIOUS
  <2> HIDE DEF T
  <2> QED
    BY <1>2, <1>3, <2>1, Induction
<1>5. k - j \in Nat /\ j + (k - j) = k
  OBVIOUS
<1>6. k - j \in T
  BY <1>4, <1>5, Zenon
<1> QED
  BY <1>5, <1>6

--------------------------------------------------------------------------------
(* Two parts of a sequence.                                                *)

\* A sequence cut in two.
LEMMA Cut ==
  ASSUME NEW S, NEW s \in Seq(S), NEW n \in 0 .. Len(s)
  PROVE  /\ SubSeq(s, 1, n) \in Seq(S) /\ Len(SubSeq(s, 1, n)) = n
         /\ \A i \in 1 .. n : SubSeq(s, 1, n)[i] = s[i]
         /\ SubSeq(s, n + 1, Len(s)) \in Seq(S) /\ Len(SubSeq(s, n + 1, Len(s))) = Len(s) - n
         /\ \A i \in 1 .. Len(s) - n : SubSeq(s, n + 1, Len(s))[i] = s[n + i]
         /\ SubSeq(s, 1, n) \o SubSeq(s, n + 1, Len(s)) = s
<1> DEFINE m == Len(s)
<1>1. m \in Nat /\ n \in Nat /\ n <= m /\ \A i \in 1 .. m : s[i] \in S
  OBVIOUS
<1>2. /\ SubSeq(s, 1, n) \in Seq(S) /\ Len(SubSeq(s, 1, n)) = n
      /\ \A i \in 1 .. n : SubSeq(s, 1, n)[i] = s[i]
  <2> HIDE DEF m
  <2>1. /\ SubSeq(s, 1, n) \in Seq(S) /\ Len(SubSeq(s, 1, n)) = IF 1 <= n THEN n - 1 + 1 ELSE 0
        /\ \A i \in 1 .. n - 1 + 1 : SubSeq(s, 1, n)[i] = s[1 + i - 1]
    BY <1>1, SubSeqProperties
  <2>2. n - 1 + 1 = n /\ \A i \in 1 .. n : 1 + i - 1 = i
    BY <1>1
  <2> QED
    BY <1>1, <2>1, <2>2
<1>3. /\ SubSeq(s, n + 1, m) \in Seq(S) /\ Len(SubSeq(s, n + 1, m)) = m - n
      /\ \A i \in 1 .. m - n : SubSeq(s, n + 1, m)[i] = s[n + i]
  <2>1. \A i \in n + 1 .. m : s[i] \in S
    BY <1>1
  <2>2. n + 1 \in Int /\ m \in Int
    BY <1>1
  <2> HIDE DEF m
  <2>3. /\ SubSeq(s, n + 1, m) \in Seq(S)
        /\ Len(SubSeq(s, n + 1, m)) = IF n + 1 <= m THEN m - (n + 1) + 1 ELSE 0
        /\ \A i \in 1 .. m - (n + 1) + 1 : SubSeq(s, n + 1, m)[i] = s[(n + 1) + i - 1]
    BY <2>1, <2>2, SubSeqProperties
  <2>4. m - (n + 1) + 1 = m - n /\ \A i \in 1 .. m - n : (n + 1) + i - 1 = n + i
    BY <1>1
  <2>5. Len(SubSeq(s, n + 1, m)) = m - n
    BY <1>1, <2>3, <2>4
  <2> QED
    BY <2>3, <2>4, <2>5
<1> DEFINE u == SubSeq(s, 1, n)
           v == SubSeq(s, n + 1, m)
<1>4. u \o v = s
  <2>1. u \in Seq(S) /\ v \in Seq(S) /\ Len(u) = n /\ Len(v) = m - n
    BY <1>2, <1>3
  <2>2. (\A i \in 1 .. n : u[i] = s[i]) /\ \A i \in 1 .. m - n : v[i] = s[n + i]
    BY <1>2, <1>3
  <2> HIDE DEF u, v
  <2> DEFINE w == u \o v
  <2>3. w \in Seq(S) /\ Len(w) = m /\ \A i \in 1 .. m : w[i] = IF i <= n THEN u[i] ELSE v[i - n]
    BY <1>1, <2>1
  <2> HIDE DEF w
  <2>4. \A i \in 1 .. m : w[i] = s[i]
    <3> TAKE i \in 1 .. m
    <3>0. i \in Nat /\ n \in Nat /\ m \in Nat /\ 1 <= i
      BY <1>1
    <3>1. CASE i <= n
      BY <2>2, <2>3, <3>1
    <3>2. CASE i > n
      <4>1. i - n \in 1 .. m - n /\ n + (i - n) = i
        BY <1>1, <3>2
      <4> QED
        BY <2>2, <2>3, <3>2, <4>1
    <3> QED
      BY <3>0, <3>1, <3>2
  <2>5. w = s
    BY <2>3, <2>4, SeqEqual
  <2> QED
    BY <2>5 DEF w
<1> QED
  BY <1>2, <1>3, <1>4

\* A concatenation, element by element.
LEMMA Joined ==
  ASSUME NEW S, NEW s \in Seq(S), NEW t \in Seq(S)
  PROVE  /\ s \o t \in Seq(S) /\ Len(s \o t) = Len(s) + Len(t)
         /\ Len(s) \in Nat /\ Len(t) \in Nat
         /\ \A i \in 1 .. Len(s) : (s \o t)[i] = s[i]
         /\ \A i \in 1 .. Len(t) : (s \o t)[Len(s) + i] = t[i]
         /\ \A i \in 1 .. Len(s) + Len(t) : i > Len(s) => (s \o t)[i] = t[i - Len(s)]
OBVIOUS

\* The rest of a concatenation is the second part.
LEMMA RestOfJoined ==
  ASSUME NEW S, NEW s \in Seq(S), NEW t \in Seq(S)
  PROVE  SubSeq(s \o t, Len(s) + 1, Len(s \o t)) = t
<1> DEFINE w == s \o t
           n == Len(s)
<1>1. /\ w \in Seq(S) /\ Len(w) = n + Len(t) /\ n \in Nat /\ Len(t) \in Nat
      /\ \A i \in 1 .. Len(t) : w[n + i] = t[i]
  BY Joined
<1> HIDE DEF w, n
<1>2. n \in 0 .. Len(w) /\ Len(w) - n = Len(t)
  BY <1>1
<1> DEFINE v == SubSeq(w, n + 1, Len(w))
<1>3. v \in Seq(S) /\ Len(v) = Len(t) /\ \A i \in 1 .. Len(t) : v[i] = w[n + i]
  BY <1>1, <1>2, Cut
<1> HIDE DEF v
<1>4. v = t
  BY <1>1, <1>3, SeqEqual
<1> QED
  BY <1>4 DEF v, w, n

\* How a concatenation begins.
LEMMA BeginOfJoined ==
  ASSUME NEW S, NEW s \in Seq(S), NEW t \in Seq(S), NEW n \in 0 .. Len(t)
  PROVE  SubSeq(s \o t, 1, Len(s) + n) = s \o SubSeq(t, 1, n)
<1> DEFINE w == s \o t
           u == SubSeq(t, 1, n)
           m == Len(s)
           v == SubSeq(w, 1, m + n)
           x == s \o u
<1>1. /\ w \in Seq(S) /\ Len(w) = m + Len(t) /\ m \in Nat /\ Len(t) \in Nat /\ n \in Nat /\ n <= Len(t)
      /\ \A i \in 1 .. m : w[i] = s[i]
      /\ \A i \in 1 .. m + Len(t) : i > m => w[i] = t[i - m]
  BY Joined
<1>2. u \in Seq(S) /\ Len(u) = n /\ \A i \in 1 .. n : u[i] = t[i]
  BY Cut
<1> HIDE DEF u
<1>3. /\ x \in Seq(S) /\ Len(x) = m + n
      /\ \A i \in 1 .. m : x[i] = s[i]
      /\ \A i \in 1 .. m + n : i > m => x[i] = u[i - m]
  BY <1>2, Joined
<1> HIDE DEF w, x, m
<1>4. m + n \in 0 .. Len(w)
  BY <1>1
<1>5. v \in Seq(S) /\ Len(v) = m + n /\ \A i \in 1 .. m + n : v[i] = w[i]
  BY <1>1, <1>4, Cut
<1> HIDE DEF v
<1>6. \A i \in 1 .. m + n : v[i] = x[i]
  <2> TAKE i \in 1 .. m + n
  <2>1. CASE i <= m
    BY <1>1, <1>3, <1>5, <2>1
  <2>2. CASE i > m
    <3>1. i - m \in 1 .. n /\ i \in 1 .. m + Len(t)
      BY <1>1, <2>2
    <3> QED
      BY <1>1, <1>2, <1>3, <1>5, <2>2, <3>1
  <2> QED
    BY <1>1, <2>1, <2>2
<1>7. v = x
  BY <1>3, <1>5, <1>6, SeqEqual
<1> QED
  BY <1>7 DEF v, w, u, x, m
================================================================================
