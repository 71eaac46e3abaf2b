----------------------------- MODULE Parsers_proofs -----------------------------
(***************************************************************************)
(* Proofs about the parsers, for types of any width and texts of any       *)
(* length: that no result passes its type, that the numbers are read as    *)
(* what they mean, and that listings, answers, endpoints and command lines *)
(* arrive as those who wrote them meant them.                              *)
(*                                                                         *)
(* A loop over a text is a recursive function.  For each there is an       *)
(* operator that says how it runs (Reads, Digits10, Splits, Loops) and a   *)
(* lemma that it does; what it computes is shown by induction over the     *)
(* text, or over the parts that the text is made of.  The statement of an  *)
(* induction step, and a property's body where a lemma proves it, is an    *)
(* operator too, so that the provers need not open it.                     *)
(***************************************************************************)
EXTENDS Parsers, SequenceLemmas

LEMMA Limits == Max64 \in Nat /\ \A w \in {Max8, Max16, Max32, Max64} : w \in 0 .. Max64
BY ParsersAssumption

\* What fits is not reduced.
LEMMA Remainder ==
  ASSUME NEW x \in Nat, NEW m \in Nat, x <= m
  PROVE  x % (m + 1) = x
OBVIOUS

\* Two runs by the same steps.
LEMMA SameRun ==
  ASSUME NEW S, NEW n \in Nat, NEW s0 \in S, NEW step \in [1 .. n -> [S -> S]],
         NEW f, Runs(f, S, n, s0, step), NEW g, g[0] = s0,
         \A i \in 1 .. n : g[i - 1] \in S => g[i] = step[i][g[i - 1]]
  PROVE  \A i \in 0 .. n : g[i] = f[i] /\ g[i] \in S
<1>1. f \in [0 .. n -> S] /\ f[0] = s0 /\ \A i \in 1 .. n : f[i] = step[i][f[i - 1]]
  BY DEF Runs
<1> DEFINE T == {k \in Nat : k <= n => g[k] = f[k]}
<1>2. 0 \in T
  BY <1>1
<1>3. \A k \in T : k + 1 \in T
  <2> TAKE k \in T
  <2> SUFFICES ASSUME k \in Nat, k + 1 <= n PROVE g[k + 1] = f[k + 1]
    OBVIOUS
  <2>1. k + 1 \in 1 .. n /\ (k + 1) - 1 = k /\ g[k] = f[k] /\ k \in 0 .. n
    OBVIOUS
  <2>2. g[k] \in S
    BY <1>1, <2>1
  <2> HIDE DEF T
  <2> QED
    BY <1>1, <2>1, <2>2
<1>4. T = Nat
  <2>1. T \subseteq Nat
    OBVIOUS
  <2> HIDE DEF T
  <2> QED
    BY <1>2, <1>3, <2>1, Induction
<1> QED
  BY <1>1, <1>4

Values == -1 .. Max64

LEMMA AbsorbType ==
  ASSUME NEW v \in Values, NEW ch \in Nat
  PROVE  Absorb(v, ch) \in Values
         /\ Absorb(v, ch) = IF v # -1 /\ ch \in 0 .. 9 /\ v * 10 + ch <= Max64 THEN v * 10 + ch ELSE -1
<1>1. Max64 \in Nat
  BY Limits
<1>2. CASE v = -1 \/ ch \notin 0 .. 9
  BY <1>1, <1>2 DEF Absorb, Refused, Digits, Values
<1>3. CASE v # -1 /\ ch \in 0 .. 9 /\ v > Max64 \div 10
  <2>1. v \in Nat /\ v * 10 > Max64
    BY <1>1, <1>3 DEF Values
  <2>2. v * 10 + ch > Max64
    BY <1>1, <2>1
  <2> QED
    BY <1>1, <1>3, <2>1, <2>2 DEF Absorb, Refused, Digits, Values
<1>4. CASE v # -1 /\ ch \in 0 .. 9 /\ ~(v > Max64 \div 10)
  <2>1. v \in Nat /\ v * 10 \in Nat /\ v * 10 <= Max64
    BY <1>1, <1>4 DEF Values
  <2> DEFINE x == v * 10
             tens == x % (Max64 + 1)
  <2>2. x \in Nat /\ x <= Max64
    BY <2>1
  <2> HIDE DEF x
  <2>3. tens = x
    BY <1>1, <2>2, Remainder
  <2>4. Absorb(v, ch) = IF tens > Max64 - ch THEN -1 ELSE tens + ch
    BY <1>4 DEF Absorb, Refused, Digits, x
  <2> HIDE DEF tens
  <2>5. Absorb(v, ch) = IF x + ch <= Max64 THEN x + ch ELSE -1
    BY <1>1, <1>4, <2>2, <2>3, <2>4
  <2>6. Absorb(v, ch) \in Values
    BY <1>1, <1>4, <2>2, <2>5 DEF Values
  <2> QED
    BY <1>4, <2>5, <2>6 DEF x
<1> QED
  BY <1>2, <1>3, <1>4

\* v is the loop of try_parse_uint64 on str, after each number of characters.
Reads(v, str) ==
    /\ v \in [0 .. Len(str) -> Values]
    /\ v[0] = 0
    /\ \A i \in 1 .. Len(str) : v[i] = Absorb(v[i - 1], str[i])

LEMMA ReadLoop ==
  ASSUME NEW str \in Seq(Nat)
  PROVE  \E v : Reads(v, str) /\ try_parse_uint64(str) = IF str = <<>> THEN -1 ELSE v[Len(str)]
<1> DEFINE n == Len(str)
           step == [i \in 1 .. n |-> [v \in Values |-> Absorb(v, str[i])]]
           Solves(f) == f = [i \in 0 .. n |-> IF i = 0 THEN 0 ELSE Absorb(f[i - 1], str[i])]
           g == CHOOSE f : Solves(f)
<1>1. n \in Nat /\ 0 \in Values
  BY Limits DEF Values
<1>2. step \in [1 .. n -> [Values -> Values]]
  BY AbsorbType
<1>3. PICK f : Runs(f, Values, n, 0, step)
  <2> HIDE DEF step, n
  <2> QED
    BY <1>1, <1>2, Recursion
<1>4. f \in [0 .. n -> Values] /\ f[0] = 0 /\ \A i \in 1 .. n : f[i] = Absorb(f[i - 1], str[i])
  <2>1. f \in [0 .. n -> Values] /\ f[0] = 0 /\ \A i \in 1 .. n : f[i] = step[i][f[i - 1]]
    <3> HIDE DEF step
    <3> QED
      BY <1>3 DEF Runs
  <2>2. ASSUME NEW i \in 1 .. n PROVE f[i] = Absorb(f[i - 1], str[i])
    <3>1. i - 1 \in 0 .. n
      BY <1>1
    <3>2. f[i - 1] \in Values
      BY <2>1, <3>1
    <3>3. step[i][f[i - 1]] = Absorb(f[i - 1], str[i])
      BY <3>2
    <3> QED
      BY <2>1, <3>3, Zenon
  <2> QED
    BY <2>1, <2>2
<1>5. Solves(f)
  <2>1. \A i \in 0 .. n : f[i] = IF i = 0 THEN 0 ELSE Absorb(f[i - 1], str[i])
    <3> TAKE i \in 0 .. n
    <3>1. i = 0 \/ (i # 0 /\ i \in 1 .. n)
      BY <1>1
    <3> QED
      BY <1>4, <3>1
  <2> HIDE DEF n
  <2> QED
    BY <1>4, <2>1
<1>6. Solves(g)
  <2> HIDE DEF Solves
  <2> QED
    BY <1>5
<1>7. try_parse_uint64(str) = IF str = <<>> THEN -1 ELSE g[Len(str)]
  BY DEF try_parse_uint64, Refused
<1> HIDE DEF g
<1>8. g[0] = 0 /\ \A i \in 1 .. n : g[i] = Absorb(g[i - 1], str[i])
  <2>1. 0 \in 0 .. n /\ \A i \in 1 .. n : i \in 0 .. n /\ i # 0
    BY <1>1
  <2>2. \A i \in 0 .. n : g[i] = IF i = 0 THEN 0 ELSE Absorb(g[i - 1], str[i])
    BY <1>6, Zenon
  <2> QED
    BY <2>1, <2>2, Zenon
<1>9. \A i \in 0 .. n : g[i] = f[i] /\ g[i] \in Values
  <2>1. \A i \in 1 .. n : g[i - 1] \in Values => g[i] = step[i][g[i - 1]]
    <3> TAKE i \in 1 .. n
    <3> HAVE g[i - 1] \in Values
    <3>1. step[i][g[i - 1]] = Absorb(g[i - 1], str[i])
      OBVIOUS
    <3> QED
      BY <1>8, <3>1, Zenon
  <2> HIDE DEF step, n
  <2> QED
    BY <1>1, <1>2, <1>3, <1>8, <2>1, SameRun
<1>10. Reads(f, str)
  BY <1>4 DEF Reads
<1>11. g[n] = f[n]
  BY <1>1, <1>9
<1> QED
  BY <1>7, <1>10, <1>11

LEMMA PowerIs ==
  /\ \A n \in Nat : Power[n] \in Nat
  /\ Power[0] = 1 /\ \A n \in Nat : Power[n + 1] = 10 * Power[n]
<1> DEFINE step == [p \in Nat |-> 10 * p]
           Solves(f) == f = [n \in Nat |-> IF n = 0 THEN 1 ELSE 10 * f[n - 1]]
           T == {n \in Nat : Power[n] \in Nat}
<1>1. step \in [Nat -> Nat]
  OBVIOUS
<1>2. PICK f \in [Nat -> Nat] : f[0] = 1 /\ \A i \in Nat : f[i + 1] = step[f[i]]
  <2> DEFINE S == Nat
             one == 1
             power == step
  <2>1. one \in S /\ power \in [S -> S]
    BY <1>1
  <2> HIDE DEF S, one, power, step
  <2>2. \E f \in [Nat -> S] : f[0] = one /\ \A i \in Nat : f[i + 1] = power[f[i]]
    BY <2>1, Iteration
  <2> QED
    BY <2>2, Zenon DEF S, one, power
<1>3. \A n \in Nat : f[n] = IF n = 0 THEN 1 ELSE 10 * f[n - 1]
  <2> TAKE n \in Nat
  <2>1. CASE n = 0
    BY <1>2, <2>1
  <2>2. CASE n # 0
    <3>1. n - 1 \in Nat /\ (n - 1) + 1 = n
      BY <2>2
    <3>2. f[n - 1] \in Nat
      BY <1>2, <3>1
    <3>3. f[n] = step[f[n - 1]]
      BY <1>2, <3>1
    <3> QED
      BY <2>2, <3>2, <3>3
  <2> QED
    BY <2>1, <2>2
<1>4. Solves(f)
  BY <1>2, <1>3
<1>5. Power = CHOOSE g : Solves(g)
  BY DEF Power
<1>6. Solves(Power)
  <2> HIDE DEF Solves
  <2> QED
    BY <1>4, <1>5
<1>7. \A n \in Nat : Power[n] = IF n = 0 THEN 1 ELSE 10 * Power[n - 1]
  BY <1>6, Zenon
<1>8. Power[0] = 1
  BY <1>7
<1>9. \A n \in Nat : Power[n + 1] = 10 * Power[n]
  <2> TAKE n \in Nat
  <2>1. n + 1 \in Nat /\ n + 1 # 0 /\ (n + 1) - 1 = n
    OBVIOUS
  <2> QED
    BY <1>7, <2>1
<1>10. T = Nat
  <2>1. T \subseteq Nat /\ 0 \in T /\ \A n \in T : n + 1 \in T
    BY <1>8, <1>9
  <2> HIDE DEF T
  <2> QED
    BY <2>1, Induction
<1> QED
  BY <1>8, <1>9, <1>10

\* h reads the first characters of str as a number, for any number of them.
Digits10(h, str) ==
    /\ h \in [0 .. Len(str) -> Nat]
    /\ h[0] = 0
    /\ \A i \in 1 .. Len(str) : h[i] = 10 * h[i - 1] + str[i]

LEMMA DigitLoop ==
  ASSUME NEW str \in Seq(Nat)
  PROVE  \E h : Digits10(h, str)
<1> DEFINE n == Len(str)
           step == [i \in 1 .. n |-> [v \in Nat |-> 10 * v + str[i]]]
<1>1. n \in Nat /\ step \in [1 .. n -> [Nat -> Nat]]
  OBVIOUS
<1>2. PICK f : Runs(f, Nat, n, 0, step)
  <2> HIDE DEF step, n
  <2> QED
    BY <1>1, Recursion
<1>3. f \in [0 .. n -> Nat] /\ f[0] = 0 /\ \A i \in 1 .. n : f[i] = step[i][f[i - 1]]
  <2> HIDE DEF step
  <2> QED
    BY <1>2 DEF Runs
<1>4. ASSUME NEW i \in 1 .. n PROVE f[i] = 10 * f[i - 1] + str[i]
  <2>1. i - 1 \in 0 .. n
    BY <1>1
  <2>2. f[i - 1] \in Nat
    BY <1>3, <2>1
  <2>3. step[i][f[i - 1]] = 10 * f[i - 1] + str[i]
    BY <2>2
  <2> QED
    BY <1>3, <2>3, Zenon
<1> QED
  BY <1>3, <1>4 DEF Digits10

LEMMA Places ==
  ASSUME NEW a \in Nat, NEW p \in Nat, NEW c \in Nat
  PROVE  a * (10 * p) + c * p = (10 * a + c) * p
OBVIOUS

\* Place by place it is the same number.
LEMMA MeaningIs ==
  ASSUME NEW str \in Seq(Nat), NEW h, Digits10(h, str)
  PROVE  Meaning(str) = h[Len(str)] /\ Meaning(str) \in Nat
<1> DEFINE n == Len(str)
           f == [i \in 0 .. n |-> h[i] * Power[n - i]]
           Solves(s) == s = [i \in 0 .. n |-> IF i = 0 THEN 0 ELSE s[i - 1] + str[i] * Power[n - i]]
           g == CHOOSE s : Solves(s)
<1>1. n \in Nat /\ h \in [0 .. n -> Nat] /\ h[0] = 0 /\ \A i \in 1 .. n : h[i] = 10 * h[i - 1] + str[i]
  BY DEF Digits10
<1>2. ASSUME NEW i \in 1 .. n PROVE h[i - 1] * Power[n - (i - 1)] + str[i] * Power[n - i] = h[i] * Power[n - i]
  <2> DEFINE p == Power[n - i]
             q == Power[n - (i - 1)]
             a == h[i - 1]
             c == str[i]
  <2>1. n - i \in Nat /\ n - (i - 1) = (n - i) + 1 /\ i - 1 \in 0 .. n
    BY <1>1
  <2>2. p \in Nat /\ q = 10 * p
    <3>1. Power[n - i] \in Nat /\ Power[(n - i) + 1] = 10 * Power[n - i]
      BY <2>1, PowerIs
    <3> QED
      BY <2>1, <3>1
  <2>3. a \in Nat /\ c \in Nat /\ h[i] = 10 * a + c
    <3>1. h[i - 1] \in Nat
      BY <1>1, <2>1
    <3>2. str[i] \in Nat
      OBVIOUS
    <3>3. h[i] = 10 * h[i - 1] + str[i]
      BY <1>1
    <3> QED
      BY <3>1, <3>2, <3>3
  <2> HIDE DEF p, q, a, c
  <2>4. a * (10 * p) + c * p = (10 * a + c) * p
    BY <2>2, <2>3, Places
  <2>5. a * q + c * p = h[i] * p
    BY <2>2, <2>3, <2>4, Zenon
  <2> QED
    BY <2>5 DEF p, q, a, c
<1>3. Solves(f)
  <2>1. ASSUME NEW i \in 0 .. n PROVE f[i] = IF i = 0 THEN 0 ELSE f[i - 1] + str[i] * Power[n - i]
    <3>1. CASE i = 0
      <4>1. Power[n - 0] \in Nat
        BY <1>1, PowerIs
      <4>2. f[0] = 0
        BY <1>1, <4>1
      <4> QED
        BY <3>1, <4>2
    <3>2. CASE i # 0
      <4>1. i \in 1 .. n /\ i - 1 \in 0 .. n
        BY <1>1, <3>2
      <4>2. f[i] = h[i] * Power[n - i] /\ f[i - 1] = h[i - 1] * Power[n - (i - 1)]
        BY <4>1
      <4> HIDE DEF f, n
      <4> QED
        BY <1>2, <3>2, <4>1, <4>2, Zenon
    <3> QED
      BY <3>1, <3>2
  <2>2. f = [i \in 0 .. n |-> f[i]]
    OBVIOUS
  <2> HIDE DEF f, n
  <2> QED
    BY <2>1, <2>2
<1>4. Solves(g)
  <2> HIDE DEF Solves
  <2> QED
    BY <1>3
<1>5. Meaning(str) = g[n]
  BY DEF Meaning
<1> HIDE DEF g, f
<1>6. \A i \in 0 .. n : g[i] = IF i = 0 THEN 0 ELSE g[i - 1] + str[i] * Power[n - i]
  BY <1>4, Zenon
<1> DEFINE T == {k \in Nat : k <= n => g[k] = h[k] * Power[n - k]}
<1> HIDE DEF n
<1>7. 0 \in T
  <2>1. Power[n - 0] \in Nat /\ 0 \in 0 .. n
    BY <1>1, PowerIs
  <2>2. g[0] = 0 /\ h[0] * Power[n - 0] = 0
    BY <1>1, <1>6, <2>1
  <2> QED
    BY <2>2
<1>8. \A k \in T : k + 1 \in T
  <2> TAKE k \in T
  <2> SUFFICES ASSUME k \in Nat, k + 1 <= n PROVE g[k + 1] = h[k + 1] * Power[n - (k + 1)]
    OBVIOUS
  <2>1. k + 1 \in 1 .. n /\ (k + 1) - 1 = k /\ k + 1 \in 0 .. n /\ k + 1 # 0
    BY <1>1
  <2>2. g[k] = h[k] * Power[n - k]
    BY <1>1, <2>1
  <2> HIDE DEF T
  <2>3. g[k + 1] = g[k] + str[k + 1] * Power[n - (k + 1)]
    BY <1>6, <2>1
  <2>4. h[k] * Power[n - k] + str[k + 1] * Power[n - (k + 1)] = h[k + 1] * Power[n - (k + 1)]
    BY <1>2, <2>1, Zenon
  <2> QED
    BY <2>2, <2>3, <2>4, Zenon
<1>9. T = Nat
  <2>1. T \subseteq Nat
    OBVIOUS
  <2> HIDE DEF T
  <2> QED
    BY <1>7, <1>8, <2>1, Induction
<1>10. g[n] = h[n] * Power[n - n]
  <2>1. \A k \in T : k <= n => g[k] = h[k] * Power[n - k]
    OBVIOUS
  <2>2. n \in T /\ n <= n
    <3> HIDE DEF T
    <3> QED
      BY <1>1, <1>9
  <2> QED
    BY <2>1, <2>2, Zenon
<1>11. n - n = 0 /\ h[n] \in Nat
  <2>1. n \in 0 .. n /\ n - n = 0
    BY <1>1
  <2> QED
    BY <1>1, <2>1
<1>12. g[n] = h[n]
  <2>1. Power[n - n] = 1
    BY <1>11, PowerIs
  <2> QED
    BY <1>10, <1>11, <2>1
<1> QED
  BY <1>5, <1>11, <1>12 DEF n

\* Until a character is no digit, or the number too large, the loop has it.
LEMMA ReadsNumber ==
  ASSUME NEW str \in Seq(Nat), NEW v, Reads(v, str), NEW h, Digits10(h, str), NEW i \in 0 .. Len(str)
  PROVE  v[i] = IF (\A j \in 1 .. i : str[j] \in 0 .. 9) /\ h[i] <= Max64 THEN h[i] ELSE -1
<1> DEFINE n == Len(str)
           D(k) == \A j \in 1 .. k : str[j] \in 0 .. 9
           T == {k \in Nat : k <= n => v[k] = IF D(k) /\ h[k] <= Max64 THEN h[k] ELSE -1}
<1>1. /\ n \in Nat /\ h \in [0 .. n -> Nat] /\ h[0] = 0 /\ \A k \in 1 .. n : h[k] = 10 * h[k - 1] + str[k]
      /\ v \in [0 .. n -> Values] /\ v[0] = 0 /\ \A k \in 1 .. n : v[k] = Absorb(v[k - 1], str[k])
      /\ Max64 \in Nat
  BY Limits DEF Digits10, Reads
<1>2. 0 \in T
  BY <1>1
<1>3. \A k \in T : k + 1 \in T
  <2> TAKE k \in T
  <2> SUFFICES ASSUME k \in Nat, k + 1 <= n
               PROVE  v[k + 1] = IF D(k + 1) /\ h[k + 1] <= Max64 THEN h[k + 1] ELSE -1
    OBVIOUS
  <2>1. k + 1 \in 1 .. n /\ (k + 1) - 1 = k /\ k \in 0 .. n
    BY <1>1
  <2>2. v[k] = IF D(k) /\ h[k] <= Max64 THEN h[k] ELSE -1
    BY <1>1, <2>1
  <2> DEFINE a == h[k]
             c == str[k + 1]
             u == v[k]
  <2>3. a \in Nat /\ c \in Nat /\ u \in Values
    <3>1. h[k] \in Nat /\ v[k] \in Values
      BY <1>1, <2>1
    <3>2. str[k + 1] \in Nat
      BY <2>1
    <3> QED
      BY <3>1, <3>2
  <2>4. h[k + 1] = 10 * a + c /\ v[k + 1] = Absorb(u, c)
    BY <1>1, <2>1
  <2>5. D(k + 1) <=> D(k) /\ c \in 0 .. 9
    <3>1. \A j \in 1 .. k + 1 : j \in 1 .. k \/ j = k + 1
      OBVIOUS
    <3>2. \A j \in 1 .. k : j \in 1 .. k + 1
      OBVIOUS
    <3>3. k + 1 \in 1 .. k + 1
      BY <2>1
    <3>4. ASSUME \A j \in 1 .. k + 1 : str[j] \in 0 .. 9
          PROVE  (\A j \in 1 .. k : str[j] \in 0 .. 9) /\ str[k + 1] \in 0 .. 9
      BY <3>2, <3>3, <3>4, Zenon
    <3>5. ASSUME \A j \in 1 .. k : str[j] \in 0 .. 9, str[k + 1] \in 0 .. 9
          PROVE  \A j \in 1 .. k + 1 : str[j] \in 0 .. 9
      BY <3>1, <3>5, Zenon
    <3> QED
      BY <3>4, <3>5, Zenon
  <2> HIDE DEF a, c, u, T, D
  <2>6. Absorb(u, c) = IF u # -1 /\ c \in 0 .. 9 /\ u * 10 + c <= Max64 THEN u * 10 + c ELSE -1
    BY <2>3, AbsorbType
  <2>7. u = IF D(k) /\ a <= Max64 THEN a ELSE -1
    BY <2>2 DEF u, a
  <2>8. CASE D(k) /\ a <= Max64
    BY <1>1, <2>3, <2>4, <2>5, <2>6, <2>7, <2>8
  <2>9. CASE ~D(k)
    BY <2>4, <2>5, <2>6, <2>7, <2>9
  <2>10. CASE ~(a <= Max64)
    <3>1. ~(10 * a + c <= Max64)
      BY <1>1, <2>3, <2>10
    <3> QED
      BY <2>4, <2>6, <2>7, <2>10, <3>1
  <2> QED
    BY <2>8, <2>9, <2>10
<1>4. T = Nat
  <2>1. T \subseteq Nat
    OBVIOUS
  <2> HIDE DEF T
  <2> QED
    BY <1>2, <1>3, <2>1, Induction
<1>5. \A k \in T : k <= n => v[k] = IF D(k) /\ h[k] <= Max64 THEN h[k] ELSE -1
  OBVIOUS
<1>6. i \in T /\ i <= n
  <2> HIDE DEF T
  <2> QED
    BY <1>1, <1>4
<1> HIDE DEF T
<1> QED
  BY <1>5, <1>6, Zenon

LEMMA NumberRead ==
  ASSUME NEW str \in Seq(Nat)
  PROVE  /\ Meaning(str) \in Nat
         /\ try_parse_uint64(str) = IF IsNumber(str) /\ Meaning(str) <= Max64 THEN Meaning(str) ELSE Refused
         /\ try_parse_uint64(str) \in -1 .. Max64
<1>1. PICK v : Reads(v, str) /\ try_parse_uint64(str) = IF str = <<>> THEN -1 ELSE v[Len(str)]
  BY ReadLoop
<1>2. PICK h : Digits10(h, str)
  BY DigitLoop
<1>3. Meaning(str) = h[Len(str)] /\ Meaning(str) \in Nat
  BY <1>2, MeaningIs
<1>4. Len(str) \in 0 .. Len(str)
  OBVIOUS
<1>5. v[Len(str)] = IF (\A j \in 1 .. Len(str) : str[j] \in 0 .. 9) /\ h[Len(str)] <= Max64 THEN h[Len(str)] ELSE -1
  BY <1>1, <1>2, <1>4, ReadsNumber
<1>6. IsNumber(str) <=> str # <<>> /\ \A j \in 1 .. Len(str) : str[j] \in 0 .. 9
  <2> DEFINE k == Len(str)
  <2>1. DOMAIN str = 1 .. k
    OBVIOUS
  <2>2. IsNumber(str) <=> str # <<>> /\ {str[i] : i \in DOMAIN str} \subseteq 0 .. 9
    BY Zenon DEF IsNumber, ToSet, Digits
  <2> HIDE DEF k
  <2>3. {str[i] : i \in DOMAIN str} \subseteq 0 .. 9 <=> \A j \in 1 .. k : str[j] \in 0 .. 9
    BY <2>1
  <2> QED
    BY <2>2, <2>3, Zenon DEF k
<1>7. Max64 \in Nat
  BY Limits
<1> QED
  BY <1>1, <1>3, <1>5, <1>6, <1>7 DEF Refused

\* The narrower types.
LEMMA NarrowRead ==
  ASSUME NEW str \in Seq(Nat), NEW max \in 0 .. Max64
  PROVE  /\ try_parse_uint(str, max) = IF IsNumber(str) /\ Meaning(str) <= max THEN Meaning(str) ELSE Refused
         /\ try_parse_uint(str, max) \in -1 .. max
<1>1. Max64 \in Nat
  BY Limits
<1> DEFINE m == Meaning(str)
           x == try_parse_uint64(str)
<1>2. m \in Nat /\ x = (IF IsNumber(str) /\ m <= Max64 THEN m ELSE -1) /\ x \in -1 .. Max64
  BY NumberRead DEF Refused
<1>3. try_parse_uint(str, max) = IF x > max THEN -1 ELSE x
  BY DEF try_parse_uint, Refused
<1> HIDE DEF m, x
<1> QED
  BY <1>1, <1>2, <1>3 DEF Refused, m

LEMMA Part ==
  ASSUME NEW text \in Seq(Nat), NEW m \in Nat \ {0}, NEW n \in Int, n <= Len(text)
  PROVE  SubSeq(text, m, n) \in Seq(Nat)
<1>1. \A i \in m .. n : text[i] \in Nat
  OBVIOUS
<1> QED
  BY <1>1, SubSeqProperties

\* The first and the last of some positions.
LEMMA Extremes ==
  ASSUME NEW n \in Nat, NEW I, I \subseteq 1 .. n, I # {}
  PROVE  Min(I) \in I /\ Max(I) \in I /\ \A j \in I : Min(I) <= j /\ j <= Max(I)
<1>1. PICK i \in I : \A j \in I : i <= j
  <2>1. I \subseteq Nat
    OBVIOUS
  <2> QED
    BY <2>1, LeastNumber
<1>2. Min(I) \in I /\ \A j \in I : Min(I) <= j
  BY <1>1 DEF Min
<1> DEFINE J == {n - j : j \in I}
<1>3. J \subseteq Nat /\ J # {}
  OBVIOUS
<1>4. PICK k \in J : \A j \in J : k <= j
  <2> HIDE DEF J
  <2> QED
    BY <1>3, LeastNumber
<1>5. PICK i2 \in I : k = n - i2
  BY <1>4
<1>6. \A j \in I : i2 >= j
  <2> TAKE j \in I
  <2>1. n - j \in J
    OBVIOUS
  <2>2. n - i2 <= n - j
    BY <1>4, <1>5, <2>1
  <2> QED
    BY <2>2
<1>7. Max(I) \in I /\ \A j \in I : Max(I) >= j
  BY <1>6 DEF Max
<1>8. \A j \in I : j <= Max(I)
  BY <1>7
<1> QED
  BY <1>2, <1>7, <1>8

\* The first "(" of a text and its last ")"
LEMMA Parentheses ==
  ASSUME NEW text \in Seq(Nat)
  PROVE  /\ Begin(text) \in 0 .. Len(text) /\ End(text) \in 0 .. Len(text)
         /\ Begin(text) # 0 => text[Begin(text)] = Open
         /\ End(text) # 0 => text[End(text)] = Close
         /\ \A k \in 1 .. Len(text) : text[k] = Open => Begin(text) # 0 /\ Begin(text) <= k
         /\ \A k \in 1 .. Len(text) : text[k] = Close => End(text) # 0 /\ k <= End(text)
<1> DEFINE n == Len(text)
           I == {i \in 1 .. n : text[i] = Open}
           J == {i \in 1 .. n : text[i] = Close}
<1>1. Begin(text) = IF I # {} THEN Min(I) ELSE 0
  BY DEF Begin, SelectInSeq
<1>2. End(text) = IF J # {} THEN Max(J) ELSE 0
  BY DEF End, SelectLastInSeq
<1>3. n \in Nat /\ I \subseteq 1 .. n /\ J \subseteq 1 .. n
  OBVIOUS
<1>4. /\ \A k \in I : text[k] = Open
      /\ \A k \in J : text[k] = Close
      /\ \A k \in 1 .. n : (text[k] = Open => k \in I) /\ (text[k] = Close => k \in J)
  OBVIOUS
<1> HIDE DEF I, J, n
<1>5. I # {} => Min(I) \in I /\ \A j \in I : Min(I) <= j
  BY <1>3, Extremes
<1>6. J # {} => Max(J) \in J /\ \A j \in J : j <= Max(J)
  BY <1>3, Extremes
<1>7. Begin(text) \in 0 .. n
  <2>1. Begin(text) = 0 \/ Begin(text) \in 1 .. n
    BY <1>1, <1>3, <1>5
  <2> QED
    BY <1>3, <2>1
<1>8. End(text) \in 0 .. n
  <2>1. End(text) = 0 \/ End(text) \in 1 .. n
    BY <1>2, <1>3, <1>6
  <2> QED
    BY <1>3, <2>1
<1>9. Begin(text) # 0 => text[Begin(text)] = Open
  BY <1>1, <1>5, <1>4
<1>10. End(text) # 0 => text[End(text)] = Close
  BY <1>2, <1>6, <1>4
<1>11. \A k \in I : Begin(text) # 0 /\ Begin(text) <= k
  BY <1>1, <1>3, <1>5
<1>12. \A k \in J : End(text) # 0 /\ k <= End(text)
  BY <1>2, <1>3, <1>6
<1>13. \A k \in 1 .. n : text[k] = Open => Begin(text) # 0 /\ Begin(text) <= k
  BY <1>4, <1>11
<1>14. \A k \in 1 .. n : text[k] = Close => End(text) # 0 /\ k <= End(text)
  BY <1>4, <1>12
<1> QED
  BY <1>7, <1>8, <1>9, <1>10, <1>13, <1>14, Zenon DEF n

LEMMA InsideType ==
  ASSUME NEW text \in Seq(Nat), NEW skip \in Nat \ {0}, NEW drop \in Nat
  PROVE  Inside(text, skip, drop) \in Seq(Nat)
<1>1. Begin(text) \in Nat /\ End(text) \in Nat /\ End(text) <= Len(text) /\ Len(text) \in Nat
  BY Parentheses
<1> DEFINE m == Begin(text) + skip
           n == End(text) - drop - 1
<1>2. m \in Nat \ {0} /\ n \in Int /\ n <= Len(text)
  BY <1>1
<1>3. Inside(text, skip, drop) \in {<<>>, SubSeq(text, m, n)}
  BY DEF Inside
<1> HIDE DEF m, n
<1>4. SubSeq(text, m, n) \in Seq(Nat)
  BY <1>2, Part
<1>5. <<>> \in Seq(Nat)
  OBVIOUS
<1> QED
  BY <1>3, <1>4, <1>5, Zenon

Parts == [parts : Seq(Seq(Nat)), part : Seq(Nat)]

LEMMA SplitType ==
  ASSUME NEW s \in Parts, NEW ch \in Nat, NEW del, NEW last
  PROVE  Split(s, ch, del, last) \in Parts
<1> DEFINE part == Append(s.part, ch)
<1>1. s.parts \in Seq(Seq(Nat)) /\ s.part \in Seq(Nat)
  BY DEF Parts
<1>2. part \in Seq(Nat) /\ <<>> \in Seq(Nat)
  BY <1>1
<1>3. Append(s.parts, s.part) \in Seq(Seq(Nat)) /\ Append(s.parts, part) \in Seq(Seq(Nat))
  <2> DEFINE T == Seq(Nat)
  <2>1. s.parts \in Seq(T) /\ s.part \in T /\ part \in T
    BY <1>1, <1>2
  <2> HIDE DEF T, part
  <2>2. Append(s.parts, s.part) \in Seq(T) /\ Append(s.parts, part) \in Seq(T)
    BY <2>1, AppendProperties
  <2> QED
    BY <2>2 DEF T
<1>4. Split(s, ch, del, last) \in {[parts |-> Append(s.parts, s.part), part |-> <<>>],
                                   [parts |-> Append(s.parts, part), part |-> <<>>],
                                   [parts |-> s.parts, part |-> part]}
  BY DEF Split
<1> HIDE DEF part
<1>5. \A x \in {[parts |-> Append(s.parts, s.part), part |-> <<>>],
                [parts |-> Append(s.parts, part), part |-> <<>>],
                [parts |-> s.parts, part |-> part]} : x \in Parts
  <2> DEFINE T == Seq(Nat)
             TT == Seq(Seq(Nat))
  <2>1. \A a \in TT, b \in T : [parts |-> a, part |-> b] \in Parts
    BY DEF Parts
  <2>2. s.parts \in TT /\ part \in T /\ <<>> \in T
        /\ Append(s.parts, s.part) \in TT /\ Append(s.parts, part) \in TT
    BY <1>1, <1>2, <1>3
  <2> HIDE DEF T, TT
  <2> QED
    BY <2>1, <2>2
<1> QED
  BY <1>4, <1>5, Zenon

\* s is the loop of split_string on str, after each number of characters.
Splits(s, str, del) ==
    /\ s \in [0 .. Len(str) -> Parts]
    /\ s[0] = [parts |-> <<>>, part |-> <<>>]
    /\ \A i \in 1 .. Len(str) : s[i] = Split(s[i - 1], str[i], del, i = Len(str))

LEMMA SplitLoop ==
  ASSUME NEW str \in Seq(Nat), NEW del
  PROVE  \E s : Splits(s, str, del) /\ split_string(str, del) = s[Len(str)].parts
<1> DEFINE n == Len(str)
           none == [parts |-> <<>>, part |-> <<>>]
           step == [i \in 1 .. n |-> [s \in Parts |-> Split(s, str[i], del, i = n)]]
           Solves(f) == f = [i \in 0 .. n |-> IF i = 0 THEN none ELSE Split(f[i - 1], str[i], del, i = n)]
           g == CHOOSE f : Solves(f)
<1>1. n \in Nat /\ none \in Parts
  BY DEF Parts
<1>2. step \in [1 .. n -> [Parts -> Parts]]
  BY SplitType
<1>3. PICK f : Runs(f, Parts, n, none, step)
  <2> HIDE DEF step, n, none
  <2> QED
    BY <1>1, <1>2, Recursion
<1>4. f \in [0 .. n -> Parts] /\ f[0] = none /\ \A i \in 1 .. n : f[i] = Split(f[i - 1], str[i], del, i = n)
  <2>1. f \in [0 .. n -> Parts] /\ f[0] = none /\ \A i \in 1 .. n : f[i] = step[i][f[i - 1]]
    <3> HIDE DEF step, none
    <3> QED
      BY <1>3 DEF Runs
  <2>2. ASSUME NEW i \in 1 .. n PROVE f[i] = Split(f[i - 1], str[i], del, i = n)
    <3>1. i - 1 \in 0 .. n
      BY <1>1
    <3>2. f[i - 1] \in Parts
      BY <2>1, <3>1
    <3>3. step[i][f[i - 1]] = Split(f[i - 1], str[i], del, i = n)
      BY <3>2
    <3> QED
      BY <2>1, <3>3, Zenon
  <2> QED
    BY <2>1, <2>2
<1>5. Solves(f)
  <2>1. \A i \in 0 .. n : f[i] = IF i = 0 THEN none ELSE Split(f[i - 1], str[i], del, i = n)
    <3> TAKE i \in 0 .. n
    <3>1. i = 0 \/ (i # 0 /\ i \in 1 .. n)
      BY <1>1
    <3> HIDE DEF none
    <3> QED
      BY <1>4, <3>1
  <2> HIDE DEF n, none
  <2> QED
    BY <1>4, <2>1
<1>6. Solves(g)
  <2> HIDE DEF Solves
  <2> QED
    BY <1>5
<1>7. split_string(str, del) = g[Len(str)].parts
  BY DEF split_string
<1> HIDE DEF g, none
<1>8. g[0] = none /\ \A i \in 1 .. n : g[i] = Split(g[i - 1], str[i], del, i = n)
  <2>1. 0 \in 0 .. n /\ \A i \in 1 .. n : i \in 0 .. n /\ i # 0
    BY <1>1
  <2>2. \A i \in 0 .. n : g[i] = IF i = 0 THEN none ELSE Split(g[i - 1], str[i], del, i = n)
    BY <1>6, Zenon
  <2> QED
    BY <2>1, <2>2, Zenon
<1>9. \A i \in 0 .. n : g[i] = f[i] /\ g[i] \in Parts
  <2>1. \A i \in 1 .. n : g[i - 1] \in Parts => g[i] = step[i][g[i - 1]]
    <3> TAKE i \in 1 .. n
    <3> HAVE g[i - 1] \in Parts
    <3>1. step[i][g[i - 1]] = Split(g[i - 1], str[i], del, i = n)
      OBVIOUS
    <3> QED
      BY <1>8, <3>1, Zenon
  <2> HIDE DEF step, n
  <2> QED
    BY <1>1, <1>2, <1>3, <1>8, <2>1, SameRun
<1>10. Splits(f, str, del)
  BY <1>4 DEF Splits, none
<1>11. g[n] = f[n]
  BY <1>1, <1>9
<1> QED
  BY <1>7, <1>10, <1>11

LEMMA SplitStringType ==
  ASSUME NEW str \in Seq(Nat), NEW del
  PROVE  split_string(str, del) \in Seq(Seq(Nat))
<1>1. PICK s : Splits(s, str, del) /\ split_string(str, del) = s[Len(str)].parts
  BY SplitLoop
<1>2. s[Len(str)] \in Parts
  BY <1>1 DEF Splits
<1> QED
  BY <1>1, <1>2 DEF Parts

--------------------------------------------------------------------------------
(* What the answers are read as.                                           *)

LEMMA EpsvType ==
  ASSUME NEW text \in Seq(Nat)
  PROVE  try_parse_epsv_reply(text) \in -1 .. Max16
<1>1. Inside(text, 4, 1) \in Seq(Nat)
  BY InsideType
<1>2. Max16 \in 0 .. Max64
  BY Limits
<1>3. try_parse_uint(Inside(text, 4, 1), Max16) \in -1 .. Max16
  BY <1>1, <1>2, NarrowRead
<1> QED
  BY <1>3 DEF try_parse_epsv_reply

LEMMA PasvType ==
  ASSUME NEW text \in Seq(Nat)
  PROVE  try_parse_pasv_reply(text).port \in -1 .. Max16
<1> DEFINE token == split_string(Inside(text, 1, 0), Comma)
           high == try_parse_uint(token[5], Max16)
           low == try_parse_uint(token[6], Max16)
           ip == token[1] \o <<Dot>> \o token[2] \o <<Dot>> \o token[3] \o <<Dot>> \o token[4]
<1>1. Inside(text, 1, 0) \in Seq(Nat)
  BY InsideType
<1>2. token \in Seq(Seq(Nat))
  BY <1>1, SplitStringType
<1>3. Max16 \in 0 .. Max64 /\ Max64 \in Nat /\ Max8 \in 0 .. Max64
  BY Limits
<1>4. try_parse_pasv_reply(text).port =
        IF Len(token) # 6 \/ high = -1 \/ low = -1 THEN -1
        ELSE (high * (Max8 + 1) + low) % (Max16 + 1)
  <2>1. try_parse_pasv_reply(text) =
          IF Len(token) # 6 \/ high = -1 \/ low = -1 THEN [ip |-> <<>>, port |-> -1]
          ELSE [ip |-> ip, port |-> (high * (Max8 + 1) + low) % (Max16 + 1)]
    BY DEF try_parse_pasv_reply, Refused
  <2> HIDE DEF token, high, low, ip
  <2> QED
    BY <2>1
<1> HIDE DEF token
<1>5. CASE Len(token) = 6 /\ high # -1 /\ low # -1
  <2>1. token[5] \in Seq(Nat) /\ token[6] \in Seq(Nat)
    <3> DEFINE T == Seq(Nat)
    <3>1. token \in Seq(T) /\ Len(token) = 6
      BY <1>2, <1>5
    <3> HIDE DEF T
    <3> HIDE DEF high, low, ip
    <3>2. \A i \in 1 .. Len(token) : token[i] \in T
      BY <3>1, ElementOfSeq
    <3>3. 5 \in 1 .. Len(token) /\ 6 \in 1 .. Len(token)
      BY <3>1
    <3> QED
      BY <3>2, <3>3, Zenon DEF T
  <2>2. high \in -1 .. Max16 /\ low \in -1 .. Max16
    BY <1>3, <2>1, NarrowRead
  <2> HIDE DEF high, low
  <2>3. high \in Nat /\ low \in Nat /\ Max8 + 1 \in Nat /\ Max16 + 1 \in Nat /\ Max16 + 1 > 0
    BY <1>3, <1>5, <2>2
  <2> DEFINE x == high * (Max8 + 1) + low
  <2>4. x \in Nat
    <3>1. high * (Max8 + 1) \in Nat
      BY <2>3
    <3> QED
      BY <2>3, <3>1
  <2> HIDE DEF x
  <2>5. x % (Max16 + 1) \in 0 .. Max16
    BY <1>3, <2>4
  <2> QED
    BY <1>3, <1>4, <1>5, <2>5 DEF x
<1>6. CASE ~(Len(token) = 6 /\ high # -1 /\ low # -1)
  BY <1>3, <1>4, <1>6
<1> QED
  BY <1>5, <1>6

LEMMA ValueType ==
  ASSUME NEW text \in Seq(Nat)
  PROVE  Value(text) \in Seq(Nat)
BY Part DEF Value

LEMMA SizeType ==
  ASSUME NEW text \in Seq(Nat), NEW code
  PROVE  parse_size(code, text) \in -1 .. Max64
<1>1. try_parse_uint64(Value(text)) \in -1 .. Max64 /\ -1 \in -1 .. Max64
  BY ValueType, NumberRead, Limits
<1> QED
  BY <1>1 DEF parse_size, Refused

\* The largest value of each field of a time
Most == <<Max16, Max8, Max8, Max8, Max8, Max8, Max32>>

LEMMA Widths == Max16 \in Nat /\ Max8 \in Nat /\ Max32 \in Nat
<1>1. Max64 \in Nat /\ Max16 \in 0 .. Max64 /\ Max8 \in 0 .. Max64 /\ Max32 \in 0 .. Max64
  BY Limits
<1> QED
  BY <1>1

LEMMA Fields ==
  ASSUME NEW a \in -1 .. Max16, NEW b \in -1 .. Max8, NEW c \in -1 .. Max8, NEW d \in -1 .. Max8,
         NEW e \in -1 .. Max8, NEW f \in -1 .. Max8, NEW g \in -1 .. Max32,
         NEW t, t = <<a, b, c, d, e, f, g>>, -1 \notin ToSet(t)
  PROVE  t \in Seq(Nat) /\ Len(t) = 7 /\ \A i \in 1 .. 7 : t[i] \in 0 .. Most[i]
<1>1. DOMAIN t = 1 .. 7
  OBVIOUS
<1>2. \A i \in 1 .. 7 : t[i] # -1
  BY <1>1 DEF ToSet
<1>3. a # -1 /\ b # -1 /\ c # -1 /\ d # -1 /\ e # -1 /\ f # -1 /\ g # -1
  <2>1. t[1] # -1 /\ t[2] # -1 /\ t[3] # -1 /\ t[4] # -1 /\ t[5] # -1 /\ t[6] # -1 /\ t[7] # -1
    BY <1>2
  <2> QED
    BY <2>1
<1>4. Max16 \in Nat /\ Max8 \in Nat /\ Max32 \in Nat
  BY Widths
<1>5. a \in 0 .. Max16 /\ b \in 0 .. Max8 /\ c \in 0 .. Max8 /\ d \in 0 .. Max8
      /\ e \in 0 .. Max8 /\ f \in 0 .. Max8 /\ g \in 0 .. Max32
  BY <1>3, <1>4
<1>6. a \in Nat /\ b \in Nat /\ c \in Nat /\ d \in Nat /\ e \in Nat /\ f \in Nat /\ g \in Nat
  BY <1>4, <1>5
<1>7. t \in Seq(Nat) /\ Len(t) = 7
  BY <1>6
<1>8. \A i \in 1 .. 7 : t[i] \in 0 .. Most[i]
  <2> TAKE i \in 1 .. 7
  <2>1. i = 1 \/ i = 2 \/ i = 3 \/ i = 4 \/ i = 5 \/ i = 6 \/ i = 7
    OBVIOUS
  <2> QED
    BY <1>5, <2>1 DEF Most
<1> QED
  BY <1>7, <1>8

LEMMA TimeType ==
  ASSUME NEW text \in Seq(Nat), NEW code
  PROVE  LET time == parse_datetime(code, text)
         IN  time = <<>> \/ (time \in Seq(Nat) /\ Len(time) = 7 /\ \A i \in 1 .. 7 : time[i] \in 0 .. Most[i])
<1> DEFINE val == Value(text)
           At(pos, n, max) == try_parse_uint(SubSeq(val, pos + 1, pos + n), max)
           fractions == IF Len(val) > 15 THEN At(15, Len(val) - 15, Max32) ELSE 0
           time == <<At(0, 4, Max16), At(4, 2, Max8), At(6, 2, Max8), At(8, 2, Max8),
                     At(10, 2, Max8), At(12, 2, Max8), fractions>>
<1>1. val \in Seq(Nat) /\ Len(val) \in Nat
  BY ValueType
<1>2. parse_datetime(code, text) = IF code # 213 \/ Len(val) < 14 \/ -1 \in ToSet(time) THEN <<>> ELSE time
  BY DEF parse_datetime, Refused
<1>3. CASE ~(code # 213 \/ Len(val) < 14 \/ -1 \in ToSet(time))
  <2>1. Max16 \in 0 .. Max64 /\ Max8 \in 0 .. Max64 /\ Max32 \in 0 .. Max64 /\ Max64 \in Nat
    BY Limits
  <2>2. -1 \notin ToSet(time) /\ Len(val) >= 14
    <3> HIDE DEF val, time
    <3> QED
      BY <1>1, <1>3
  <2> HIDE DEF val
  <2>3. ASSUME NEW pos \in Nat, NEW n \in Nat, pos + n <= Len(val), NEW max \in 0 .. Max64
        PROVE  At(pos, n, max) \in -1 .. max
    <3>1. pos + 1 \in Nat \ {0} /\ pos + n \in Int
      OBVIOUS
    <3>2. SubSeq(val, pos + 1, pos + n) \in Seq(Nat)
      BY <1>1, <2>3, <3>1, Part
    <3> QED
      BY <3>2, NarrowRead
  <2> DEFINE a == At(0, 4, Max16)
             b == At(4, 2, Max8)
             c == At(6, 2, Max8)
             d == At(8, 2, Max8)
             e == At(10, 2, Max8)
             f == At(12, 2, Max8)
  <2>4. fractions \in -1 .. Max32
    <3> HIDE DEF At
    <3>1. CASE Len(val) > 15
      <4>1. Len(val) - 15 \in Nat /\ 15 + (Len(val) - 15) <= Len(val)
        BY <1>1, <3>1
      <4>2. At(15, Len(val) - 15, Max32) \in -1 .. Max32
        BY <2>1, <2>3, <4>1
      <4> QED
        BY <3>1, <4>2
    <3>2. CASE ~(Len(val) > 15)
      BY <2>1, <3>2
    <3> QED
      BY <3>1, <3>2
  <2>5. a \in -1 .. Max16 /\ b \in -1 .. Max8 /\ c \in -1 .. Max8 /\ d \in -1 .. Max8
        /\ e \in -1 .. Max8 /\ f \in -1 .. Max8
    <3> HIDE DEF At
    <3>1. 0 + 4 <= Len(val) /\ 4 + 2 <= Len(val) /\ 6 + 2 <= Len(val) /\ 8 + 2 <= Len(val)
          /\ 10 + 2 <= Len(val) /\ 12 + 2 <= Len(val)
      <4> HIDE DEF val, time, fractions, a, b, c, d, e, f
      <4> QED
        BY <1>1, <2>2
    <3>2. a \in -1 .. Max16
      BY <2>1, <2>3, <3>1
    <3>3. ASSUME NEW pos \in Nat, pos + 2 <= Len(val) PROVE At(pos, 2, Max8) \in -1 .. Max8
      BY <2>1, <2>3, <3>3
    <3>4. b \in -1 .. Max8 /\ c \in -1 .. Max8 /\ d \in -1 .. Max8
      BY <3>1, <3>3
    <3>5. e \in -1 .. Max8 /\ f \in -1 .. Max8
      BY <3>1, <3>3
    <3> QED
      BY <3>2, <3>4, <3>5
  <2>6. time = <<a, b, c, d, e, f, fractions>>
    OBVIOUS
  <2> HIDE DEF At, fractions, time, a, b, c, d, e, f
  <2>7. time \in Seq(Nat) /\ Len(time) = 7 /\ \A i \in 1 .. 7 : time[i] \in 0 .. Most[i]
    BY <2>2, <2>4, <2>5, <2>6, Fields
  <2> QED
    BY <1>2, <1>3, <2>7
<1>4. CASE code # 213 \/ Len(val) < 14 \/ -1 \in ToSet(time)
  BY <1>2, <1>4
<1> QED
  BY <1>3, <1>4

--------------------------------------------------------------------------------
(* The lines of a listing.                                                 *)

LEMMA OneMore ==
  ASSUME NEW s \in Parts, NEW ch \in Nat, NEW del
  PROVE  /\ ch = del => \A last \in BOOLEAN :
                Split(s, ch, del, last) = [parts |-> Append(s.parts, s.part), part |-> <<>>]
         /\ ch # del =>
                /\ Split(s, ch, del, FALSE) = [parts |-> s.parts, part |-> Append(s.part, ch)]
                /\ Split(s, ch, del, TRUE) = [parts |-> Append(s.parts, Append(s.part, ch)), part |-> <<>>]
BY DEF Split

\* What split_string has j characters after p, if it starts a part there.
Collects(s, text, p, j) ==
    /\ s[p + j] \in Parts
    /\ s[p + j].parts = s[p].parts
    /\ Len(s[p + j].part) = j
    /\ \A q \in 1 .. j : s[p + j].part[q] = text[p + q]

\* Between two delimiters the characters are collected.
LEMMA Collected ==
  ASSUME NEW text \in Seq(Nat), NEW del, NEW s, Splits(s, text, del),
         NEW p \in 0 .. Len(text), s[p].part = <<>>,
         NEW k \in Nat, p + k <= Len(text), \A q \in 1 .. k : text[p + q] # del
  PROVE  \A j \in 0 .. k : p + j < Len(text) => Collects(s, text, p, j)
<1> DEFINE n == Len(text)
           Has(j) == Collects(s, text, p, j)
           T == {j \in Nat : j <= k /\ p + j < n => Has(j)}
<1>1. n \in Nat /\ p \in Nat /\ s \in [0 .. n -> Parts]
      /\ \A i \in 1 .. n : s[i] = Split(s[i - 1], text[i], del, i = n)
  BY DEF Splits
<1>2. 0 \in T
  <2>1. p + 0 = p /\ s[p] \in Parts
    <3> HIDE DEF n, Has, T
    <3>1. p \in 0 .. n
      BY DEF n
    <3> QED
      BY <1>1, <3>1
  <2>2. Has(0)
    BY <2>1 DEF Collects
  <2> HIDE DEF Has
  <2> QED
    BY <2>2
<1>3. \A j \in T : j + 1 \in T
  <2> TAKE j \in T
  <2> SUFFICES ASSUME j \in Nat, j + 1 <= k, p + (j + 1) < n PROVE Has(j + 1)
    BY DEF T
  <2> DEFINE i == p + (j + 1)
             ch == text[i]
             u == s[p + j]
  <2>1. i \in 1 .. n /\ i - 1 = p + j /\ i # n /\ j <= k /\ p + j < n /\ j + 1 \in 1 .. k /\ p + j \in 0 .. n
    BY <1>1
  <2>2. Has(j)
    <3> HIDE DEF Has
    <3> QED
      BY <2>1
  <2>3. ch \in Nat /\ ch # del
    <3>1. text[i] \in Nat
      BY <2>1
    <3>2. text[i] # del
      BY <2>1
    <3> QED
      BY <3>1, <3>2
  <2>4. s[i] = [parts |-> u.parts, part |-> Append(u.part, ch)]
    <3>1. s[i] = Split(u, ch, del, FALSE)
      <4>1. s[i] = Split(s[i - 1], text[i], del, i = n) /\ (i = n) = FALSE
        BY <1>1, <2>1
      <4> HIDE DEF i
      <4> QED
        BY <2>1, <4>1, Zenon
    <3>2. u \in Parts
      BY <2>2 DEF Collects
    <3> HIDE DEF u, ch, i
    <3> QED
      BY <2>3, <3>1, <3>2, OneMore
  <2>5. u \in Parts /\ u.part \in Seq(Nat) /\ u.parts = s[p].parts /\ Len(u.part) = j
        /\ \A q \in 1 .. j : u.part[q] = text[p + q]
    BY <2>2 DEF Parts, Collects
  <2> HIDE DEF T, Has
  <2>6. s[i] \in Parts
    <3> HIDE DEF i, n
    <3>1. i \in 0 .. n
      BY <1>1, <2>1
    <3> QED
      BY <1>1, <3>1
  <2> HIDE DEF u, ch
  <2>7. /\ Len(Append(u.part, ch)) = j + 1
        /\ \A q \in 1 .. j : Append(u.part, ch)[q] = u.part[q]
        /\ Append(u.part, ch)[j + 1] = ch
    <3> DEFINE w == u.part
    <3>1. w \in Seq(Nat) /\ Len(w) = j
      BY <2>5
    <3> HIDE DEF w
    <3>2. /\ Len(Append(w, ch)) = Len(w) + 1
          /\ \A q \in 1 .. Len(w) : Append(w, ch)[q] = w[q]
          /\ Append(w, ch)[Len(w) + 1] = ch
      BY <2>3, <3>1, AppendProperties
    <3> QED
      BY <3>1, <3>2, Zenon DEF w
  <2>8. \A q \in 1 .. j + 1 : Append(u.part, ch)[q] = text[p + q]
    <3> TAKE q \in 1 .. j + 1
    <3>1. CASE q \in 1 .. j
      BY <2>5, <2>7, <3>1
    <3>2. CASE q = j + 1
      BY <2>7, <3>2 DEF ch
    <3>3. q \in 1 .. j \/ q = j + 1
      OBVIOUS
    <3> QED
      BY <3>1, <3>2, <3>3
  <2>9. s[i].parts = u.parts /\ s[i].part = Append(u.part, ch)
    BY <2>4
  <2>10. s[i] \in Parts /\ s[i].parts = s[p].parts /\ Len(s[i].part) = j + 1
         /\ \A q \in 1 .. j + 1 : s[i].part[q] = text[p + q]
    BY <2>5, <2>6, <2>7, <2>8, <2>9
  <2> QED
    BY <2>10 DEF i, Has, Collects
<1>4. T = Nat
  <2>1. T \subseteq Nat
    OBVIOUS
  <2> HIDE DEF T
  <2> QED
    BY <1>2, <1>3, <2>1, Induction
<1> SUFFICES ASSUME NEW j \in 0 .. k, p + j < n PROVE Has(j)
  OBVIOUS
<1>5. \A i \in T : i <= k /\ p + i < n => Has(i)
  <2> HIDE DEF Has
  <2> QED
    OBVIOUS
<1>6. j \in T /\ j <= k
  <2> HIDE DEF T
  <2> QED
    BY <1>4
<1> HIDE DEF T, Has
<1> QED
  BY <1>5, <1>6, Zenon DEF Has

\* line stands in text after p.
Stands(line, text, p, del) ==
    /\ p + Len(line) <= Len(text)
    /\ \A q \in 1 .. Len(line) : text[p + q] = line[q] /\ line[q] # del

\* At i the line that began after p has become a part.
IsPart(line, s, p, i) == s[i] = [parts |-> Append(s[p].parts, line), part |-> <<>>]

\* A line is a part, whether its delimiter or the text ends it.
LEMMA OneLine ==
  ASSUME NEW text \in Seq(Nat), NEW del, NEW s, Splits(s, text, del),
         NEW p \in 0 .. Len(text), s[p].part = <<>>,
         NEW line \in Seq(Nat), Stands(line, text, p, del)
  PROVE  /\ (p + Len(line) < Len(text) /\ text[p + Len(line) + 1] = del) =>
                IsPart(line, s, p, p + Len(line) + 1)
         /\ (p + Len(line) = Len(text) /\ line # <<>>) => IsPart(line, s, p, p + Len(line))
<1> DEFINE n == Len(text)
           k == Len(line)
<1>1. n \in Nat /\ p \in Nat /\ k \in Nat /\ s \in [0 .. n -> Parts]
      /\ \A i \in 1 .. n : s[i] = Split(s[i - 1], text[i], del, i = n)
  BY DEF Splits
<1> USE DEF Stands
<1>2. \A j \in 0 .. k : p + j < n =>
            Collects(s, text, p, j)
  <2>1. \A q \in 1 .. k : text[p + q] # del
    OBVIOUS
  <2>2. k \in Nat /\ p + k <= Len(text)
    BY <1>1
  <2> HIDE DEF k
  <2> QED
    BY <2>1, <2>2, Collected
<1>3. ASSUME p + k < n, text[p + k + 1] = del
      PROVE  s[p + k + 1] = [parts |-> Append(s[p].parts, line), part |-> <<>>]
  <2> DEFINE i == p + k + 1
             u == s[p + k]
             ch == text[i]
  <2>1. i \in 1 .. n /\ i - 1 = p + k /\ k \in 0 .. k
    BY <1>1, <1>3
  <2>2. u \in Parts /\ u.parts = s[p].parts /\ Len(u.part) = k /\ \A q \in 1 .. k : u.part[q] = text[p + q]
    BY <1>2, <1>3, <2>1 DEF Collects
  <2>3. u.part = line
    <3>1. u.part \in Seq(Nat) /\ \A q \in 1 .. Len(line) : u.part[q] = line[q]
      BY <2>2 DEF Parts
    <3> HIDE DEF u
    <3> QED
      BY <2>2, <3>1, SeqEqual
  <2>4. s[i] = Split(u, ch, del, i = n)
    <3>1. s[i] = Split(s[i - 1], text[i], del, i = n)
      BY <1>1, <2>1
    <3> HIDE DEF i
    <3> QED
      BY <2>1, <3>1, Zenon
  <2>5. ch \in Nat /\ ch = del /\ (i = n) \in BOOLEAN
    BY <1>3, <2>1
  <2> HIDE DEF u, ch
  <2>6. Split(u, ch, del, i = n) = [parts |-> Append(u.parts, u.part), part |-> <<>>]
    BY <2>2, <2>5, OneMore
  <2> QED
    BY <2>2, <2>3, <2>4, <2>6
<1>4. ASSUME p + k = n, line # <<>>
      PROVE  s[p + k] = [parts |-> Append(s[p].parts, line), part |-> <<>>]
  <2> DEFINE i == p + k
             j == k - 1
             u == s[p + j]
             ch == text[i]
  <2>1. k # 0
    BY <1>4
  <2>2. j \in 0 .. k /\ j \in Nat /\ k = j + 1 /\ i \in 1 .. n /\ i - 1 = p + j /\ p + j < n /\ i = n /\ k \in 1 .. k
    BY <1>1, <1>4, <2>1
  <2>3. u \in Parts /\ u.parts = s[p].parts /\ Len(u.part) = j /\ \A q \in 1 .. j : u.part[q] = text[p + q]
    BY <1>2, <2>2 DEF Collects
  <2>4. ch \in Nat /\ ch = line[k] /\ ch # del
    <3>1. text[i] \in Nat
      BY <2>2
    <3>2. text[p + k] = line[k] /\ line[k] # del
      BY <2>2
    <3> QED
      BY <3>1, <3>2
  <2>5. s[i] = Split(u, ch, del, TRUE)
    <3>1. s[i] = Split(s[i - 1], text[i], del, i = n) /\ (i = n) = TRUE
      BY <1>1, <2>2
    <3> HIDE DEF i, j
    <3> QED
      BY <2>2, <3>1, Zenon
  <2>6. u.part \in Seq(Nat)
    BY <2>3 DEF Parts
  <2>7. \A q \in 1 .. j : u.part[q] = line[q]
    <3> TAKE q \in 1 .. j
    <3>1. q \in 1 .. k
      BY <1>1
    <3>2. text[p + q] = line[q]
      BY <3>1
    <3> QED
      BY <2>3, <3>2
  <2> HIDE DEF u, ch, j, i
  <2>8. Append(u.part, ch) = line
    <3>1. /\ Append(u.part, ch) \in Seq(Nat) /\ Len(Append(u.part, ch)) = j + 1
          /\ \A q \in 1 .. j : Append(u.part, ch)[q] = u.part[q]
          /\ Append(u.part, ch)[j + 1] = ch
      BY <2>3, <2>4, <2>6, AppendProperties
    <3>2. \A q \in 1 .. Len(line) : Append(u.part, ch)[q] = line[q]
      <4> TAKE q \in 1 .. Len(line)
      <4>1. q \in 1 .. j \/ q = j + 1
        BY <2>2
      <4> QED
        BY <2>2, <2>4, <2>7, <3>1, <4>1
    <3>3. line \in Seq(Nat) /\ Len(line) = Len(Append(u.part, ch))
      BY <2>2, <3>1
    <3>4. \A q \in 1 .. Len(Append(u.part, ch)) : Append(u.part, ch)[q] = line[q]
      BY <3>2, <3>3, Zenon
    <3> QED
      BY <3>1, <3>3, <3>4, SeqEqual, Zenon
  <2>9. Split(u, ch, del, TRUE) = [parts |-> Append(u.parts, Append(u.part, ch)), part |-> <<>>]
    BY <2>3, <2>4, OneMore
  <2> QED
    BY <2>3, <2>5, <2>8, <2>9 DEF i
<1> QED
  BY <1>3, <1>4 DEF IsPart

\* The line of a name as split_string leaves it: with the CR that may end it.
Raw(name, end) == IF end = <<CR, LF>> THEN name \o <<CR>> ELSE name

Uncarried(line) == IF line # <<>> /\ Last(line) = CR THEN Front(line) ELSE line

LEMMA RawLine ==
  ASSUME NEW name \in Seq(Nat \ {LF}), NEW end \in {<<LF>>, <<CR, LF>>, <<>>}
  PROVE  /\ Raw(name, end) \in Seq(Nat) /\ name \o end \in Seq(Nat)
         /\ \A q \in 1 .. Len(Raw(name, end)) : Raw(name, end)[q] # LF /\ (name \o end)[q] = Raw(name, end)[q]
         /\ end # <<>> => /\ Len(name \o end) = Len(Raw(name, end)) + 1
                          /\ (name \o end)[Len(Raw(name, end)) + 1] = LF
         /\ end = <<>> => Raw(name, end) = name /\ Len(name \o end) = Len(Raw(name, end))
<1>1. name \in Seq(Nat) /\ Len(name) \in Nat /\ \A q \in 1 .. Len(name) : name[q] # LF /\ name[q] \in Nat
  <2>1. Len(name) \in Nat /\ \A q \in 1 .. Len(name) : name[q] \in Nat \ {LF}
    BY ElementOfSeq
  <2> QED
    BY <2>1
<1>2. LF # CR /\ LF \in Nat /\ CR \in Nat
  BY DEF LF, CR
<1>3. CASE end = <<LF>>
  <2>1. Raw(name, end) = name
    <3>1. Len(<<LF>>) # Len(<<CR, LF>>)
      OBVIOUS
    <3> QED
      BY <1>3, <3>1 DEF Raw
  <2>2. <<LF>> \in Seq(Nat) /\ Len(<<LF>>) = 1 /\ <<LF>>[1] = LF
    BY <1>2
  <2>3. /\ name \o <<LF>> \in Seq(Nat) /\ Len(name \o <<LF>>) = Len(name) + 1
        /\ \A q \in 1 .. Len(name) : (name \o <<LF>>)[q] = name[q]
        /\ (name \o <<LF>>)[Len(name) + 1] = LF
    BY <1>1, <2>2
  <2> QED
    BY <1>1, <1>3, <2>1, <2>3
<1>4. CASE end = <<CR, LF>>
  <2>1. Raw(name, end) = name \o <<CR>>
    BY <1>4 DEF Raw
  <2>2. /\ name \o <<CR>> \in Seq(Nat) /\ Len(name \o <<CR>>) = Len(name) + 1
        /\ \A q \in 1 .. Len(name) : (name \o <<CR>>)[q] = name[q]
        /\ (name \o <<CR>>)[Len(name) + 1] = CR
    BY <1>1, <1>2
  <2>3. /\ name \o <<CR, LF>> \in Seq(Nat) /\ Len(name \o <<CR, LF>>) = Len(name) + 2
        /\ \A q \in 1 .. Len(name) : (name \o <<CR, LF>>)[q] = name[q]
        /\ (name \o <<CR, LF>>)[Len(name) + 1] = CR
        /\ (name \o <<CR, LF>>)[Len(name) + 2] = LF
    BY <1>1, <1>2
  <2> DEFINE r == name \o <<CR>>
             l == name \o <<CR, LF>>
             k == Len(name)
  <2> HIDE DEF r, l
  <2>4. \A q \in 1 .. Len(r) : r[q] # LF /\ l[q] = r[q]
    <3> TAKE q \in 1 .. Len(r)
    <3>1. q \in 1 .. k \/ q = k + 1
      BY <1>1, <2>2 DEF r
    <3> QED
      BY <1>1, <1>2, <2>2, <2>3, <3>1 DEF r, l
  <2>5. Len(l) = Len(r) + 1 /\ l[Len(r) + 1] = LF
    <3>1. Len(r) = k + 1 /\ Len(r) + 1 = k + 2
      BY <1>1, <2>2 DEF r
    <3> QED
      BY <2>3, <3>1 DEF l
  <2>6. end # <<>>
    BY <1>4
  <2> QED
    BY <1>4, <2>1, <2>2, <2>3, <2>4, <2>5, <2>6 DEF r, l
<1>5. CASE end = <<>>
  <2>1. Raw(name, end) = name
    <3>1. <<>> # <<CR, LF>>
      OBVIOUS
    <3> QED
      BY <1>5, <3>1 DEF Raw
  <2>2. name \o <<>> = name
    BY <1>1
  <2> QED
    BY <1>1, <1>5, <2>1, <2>2
<1> QED
  BY <1>3, <1>4, <1>5

LEMMA RawName ==
  ASSUME NEW name \in Seq(Nat \ {LF}), NEW end \in {<<LF>>, <<CR, LF>>, <<>>},
         name # <<>> => Last(name) # CR
  PROVE  Uncarried(Raw(name, end)) = name
<1>1. CASE end = <<CR, LF>>
  <2> DEFINE r == name \o <<CR>>
  <2>1. name \in Seq(Nat)
    <3>1. Len(name) \in Nat /\ \A q \in 1 .. Len(name) : name[q] \in Nat \ {LF}
      BY ElementOfSeq
    <3> QED
      BY <3>1
  <2>2. <<CR>> \in Seq(Nat) /\ Len(<<CR>>) = 1
    BY DEF CR
  <2>3. r \in Seq(Nat) /\ Len(r) = Len(name) + 1 /\ r[Len(name) + 1] = CR /\ Len(name) \in Nat
    BY <2>1, <2>2
  <2>4. SubSeq(r, 1, Len(name) + 0) = name \o SubSeq(<<CR>>, 1, 0)
    BY <2>1, <2>2, BeginOfJoined
  <2>5. SubSeq(<<CR>>, 1, 0) = <<>> /\ Len(name) + 0 = Len(name) /\ name \o <<>> = name
    BY <2>1
  <2> HIDE DEF r
  <2>6. SubSeq(r, 1, Len(r) - 1) = name
    BY <2>3, <2>4, <2>5
  <2>7. r # <<>> /\ r[Len(r)] = CR
    BY <2>3
  <2>8. Raw(name, end) = r
    BY <1>1 DEF Raw, r
  <2> QED
    BY <2>6, <2>7, <2>8 DEF Uncarried, Last, Front
<1>2. CASE end # <<CR, LF>>
  BY <1>2 DEF Raw, Uncarried
<1> QED
  BY <1>1, <1>2

\* split_string has read the first i lines, and starts the next one.
LinesRead(s, f, raw, i) ==
    /\ s[Len(f[i])].part = <<>>
    /\ Len(s[Len(f[i])].parts) = i
    /\ \A j \in 1 .. i : s[Len(f[i])].parts[j] = raw[j]

LEMMA PrefixSays ==
  ASSUME NEW t \in Seq(Nat), NEW text \in Seq(Nat), IsPrefix(t, text)
  PROVE  Len(t) <= Len(text) /\ \A q \in 1 .. Len(t) : t[q] = text[q]
BY PrefixPointwise

\* l is line with del after it, or line itself, where that is not empty.
WithEnd(l, line, del) ==
    /\ \A q \in 1 .. Len(line) : line[q] # del /\ l[q] = line[q]
    /\ \/ Len(l) = Len(line) + 1 /\ l[Len(line) + 1] = del
       \/ Len(l) = Len(line) /\ line # <<>>

\* line, as it stands after begin with what ends it.
LEMMA NextPart ==
  ASSUME NEW text \in Seq(Nat), NEW del, NEW s, Splits(s, text, del),
         NEW begin \in Seq(Nat), s[Len(begin)].part = <<>>,
         NEW l \in Seq(Nat), NEW t, t = begin \o l, IsPrefix(t, text),
         NEW line \in Seq(Nat), WithEnd(l, line, del), Len(l) = Len(line) => t = text
  PROVE  IsPart(line, s, Len(begin), Len(t))
<1> DEFINE p == Len(begin)
           n == Len(text)
           k == Len(line)
<1>1. /\ t \in Seq(Nat) /\ Len(t) = p + Len(l) /\ p \in Nat /\ Len(l) \in Nat /\ k \in Nat /\ n \in Nat
      /\ \A q \in 1 .. Len(l) : t[p + q] = l[q]
  BY Joined
<1>2. Len(t) <= n /\ \A q \in 1 .. Len(t) : t[q] = text[q]
  BY <1>1, PrefixSays
<1>3. k <= Len(l) /\ \A q \in 1 .. k : line[q] # del /\ l[q] = line[q]
  BY <1>1 DEF WithEnd
<1>4. \A q \in 1 .. Len(l) : text[p + q] = l[q]
  <2> TAKE q \in 1 .. Len(l)
  <2>1. p + q \in 1 .. Len(t)
    BY <1>1
  <2> QED
    BY <1>1, <1>2, <2>1
<1>5. \A q \in 1 .. k : text[p + q] = line[q] /\ line[q] # del
  <2> TAKE q \in 1 .. k
  <2>1. q \in 1 .. Len(l)
    BY <1>1, <1>3
  <2> QED
    BY <1>3, <1>4, <2>1
<1>6. p \in 0 .. n /\ p + k <= n
  <2> HIDE DEF p, k, n
  <2> QED
    BY <1>1, <1>2, <1>3
<1>7. /\ (p + k < n /\ text[p + k + 1] = del) => IsPart(line, s, p, p + k + 1)
      /\ (p + k = n /\ line # <<>>) => IsPart(line, s, p, p + k)
  <2>1. p \in 0 .. Len(text) /\ Stands(line, text, p, del) /\ s[p].part = <<>>
    BY <1>5, <1>6 DEF Stands
  <2> HIDE DEF p
  <2> QED
    BY <2>1, OneLine
<1>8. CASE Len(l) = Len(line) + 1 /\ l[Len(line) + 1] = del
  <2>1. Len(t) = p + k + 1 /\ k + 1 \in 1 .. Len(l) /\ p + (k + 1) = p + k + 1
    BY <1>1, <1>8
  <2>2. text[p + k + 1] = del
    <3>1. text[p + (k + 1)] = l[k + 1]
      BY <1>4, <2>1
    <3> QED
      BY <1>8, <2>1, <3>1
  <2>3. p + k < n
    BY <1>1, <1>2, <2>1
  <2> QED
    BY <1>7, <2>1, <2>2, <2>3
<1>9. CASE Len(l) = Len(line) /\ line # <<>> /\ t = text
  <2>1. Len(t) = p + k /\ p + k = n /\ line # <<>>
    BY <1>1, <1>9
  <2> QED
    BY <1>7, <2>1
<1> QED
  BY <1>8, <1>9 DEF WithEnd

\* lines are the parts raw, each with a delimiter after it but perhaps the last.
Delimited(lines, raw, del) ==
    /\ lines \in Seq(Seq(Nat)) /\ raw \in Seq(Seq(Nat)) /\ Len(lines) = Len(raw)
    /\ \A i \in 1 .. Len(raw) :
        WithEnd(lines[i], raw[i], del) /\ (Len(lines[i]) = Len(raw[i]) => i = Len(raw))

\* Parts that are written one after another, each with a delimiter after it but
\* perhaps the last, are what split_string finds.
LEMMA SplitParts ==
  ASSUME NEW lines, NEW raw, NEW del, Delimited(lines, raw, del)
  PROVE  FlattenSeq(lines) \in Seq(Nat) /\ split_string(FlattenSeq(lines), del) = raw
<1> DEFINE m == Len(raw)
<1>1. lines \in Seq(Seq(Nat)) /\ raw \in Seq(Seq(Nat)) /\ Len(lines) = m /\ m \in Nat
  BY DEF Delimited
<1> HIDE DEF m
<1> DEFINE text == FlattenSeq(lines)
<1>2. \A i \in 1 .. m : lines[i] \in Seq(Nat) /\ raw[i] \in Seq(Nat)
  <2> DEFINE S == Seq(Nat)
  <2>1. lines \in Seq(S) /\ raw \in Seq(S)
    BY <1>1
  <2> HIDE DEF S
  <2>2. \A i \in 1 .. m : lines[i] \in S /\ raw[i] \in S
    BY <1>1, <2>1, ElementOfSeq DEF m
  <2> QED
    BY <2>2 DEF S
<1>3. PICK f : Concatenates(f, Nat, lines)
  BY <1>1, Concatenation
<1>4. text = f[m]
  BY <1>1, <1>3, Flattened
<1> HIDE DEF text
<1>5. /\ f \in [0 .. m -> Seq(Nat)] /\ f[0] = <<>>
      /\ \A i \in 1 .. m : f[i] = f[i - 1] \o lines[i]
  BY <1>1, <1>3 DEF Concatenates
<1>6. text \in Seq(Nat)
  BY <1>1, <1>4, <1>5
<1>7. \A i \in 0 .. m : IsPrefix(f[i], text)
  <2> TAKE i \in 0 .. m
  <2>1. m \in 0 .. Len(lines) /\ i \in 0 .. m
    BY <1>1
  <2> QED
    BY <1>1, <1>3, <1>4, <2>1, PrefixOfMore
<1>8. PICK s : Splits(s, text, del) /\ split_string(text, del) = s[Len(text)].parts
  BY <1>6, SplitLoop
<1> DEFINE T == {i \in Nat : i <= m => LinesRead(s, f, raw, i)}
<1>9. 0 \in T
  <2>1. Len(f[0]) = 0 /\ s[0] = [parts |-> <<>>, part |-> <<>>]
    BY <1>5, <1>8 DEF Splits
  <2>2. LinesRead(s, f, raw, 0)
    BY <2>1 DEF LinesRead
  <2> QED
    BY <2>2
<1>10. \A i \in T : i + 1 \in T
  <2> TAKE i \in T
  <2> SUFFICES ASSUME i \in Nat, i + 1 <= m PROVE LinesRead(s, f, raw, i + 1)
    OBVIOUS
  <2>1. i + 1 \in 1 .. m /\ (i + 1) - 1 = i /\ i \in 0 .. m /\ i + 1 \in 0 .. m
    BY <1>1
  <2>2. LinesRead(s, f, raw, i)
    BY <2>1
  <2> HIDE DEF T
  <2> DEFINE begin == f[i]
             l == lines[i + 1]
             line == raw[i + 1]
             t == f[i + 1]
             parts == s[Len(begin)].parts
  <2>3. begin \in Seq(Nat) /\ t = begin \o l /\ l \in Seq(Nat) /\ line \in Seq(Nat)
    BY <1>2, <1>5, <2>1
  <2>4. IsPrefix(t, text) /\ IsPrefix(begin, text)
    BY <1>7, <2>1
  <2>5. WithEnd(l, line, del) /\ (Len(l) = Len(line) => t = text)
    BY <1>4, <2>1 DEF Delimited, m
  <2>6. s[Len(begin)].part = <<>> /\ Len(parts) = i /\ \A j \in 1 .. i : parts[j] = raw[j]
    BY <2>2 DEF LinesRead
  <2> HIDE DEF begin, l, line, t
  <2>7. IsPart(line, s, Len(begin), Len(t))
    <3>1. Splits(s, text, del) /\ s[Len(begin)].part = <<>>
      BY <1>8, <2>6
    <3> QED
      BY <1>6, <2>3, <2>4, <2>5, <3>1, NextPart
  <2>8. parts \in Seq(Seq(Nat))
    <3>1. Len(begin) \in 0 .. Len(text)
      <4>1. Len(begin) <= Len(text)
        BY <1>6, <2>3, <2>4, PrefixPointwise
      <4> QED
        BY <1>6, <2>3, <4>1
    <3>2. s[Len(begin)] \in Parts
      BY <1>8, <3>1 DEF Splits
    <3> QED
      BY <3>2 DEF Parts
  <2>9. s[Len(t)] = [parts |-> Append(parts, line), part |-> <<>>]
    BY <2>7 DEF IsPart
  <2> HIDE DEF parts
  <2>10. /\ Len(Append(parts, line)) = i + 1
         /\ \A j \in 1 .. i : Append(parts, line)[j] = parts[j]
         /\ Append(parts, line)[i + 1] = line
    <3> DEFINE S == Seq(Nat)
    <3>1. parts \in Seq(S) /\ line \in S
      BY <2>3, <2>8
    <3> HIDE DEF S
    <3> QED
      BY <2>6, <3>1, AppendProperties
  <2>11. \A j \in 1 .. i + 1 : Append(parts, line)[j] = raw[j]
    <3> TAKE j \in 1 .. i + 1
    <3>1. j \in 1 .. i \/ j = i + 1
      BY <2>1
    <3> QED
      BY <2>6, <2>10, <3>1 DEF line
  <2> QED
    BY <2>9, <2>10, <2>11 DEF LinesRead, t
<1>11. LinesRead(s, f, raw, m)
  <2>1. \A i \in T : i <= m => LinesRead(s, f, raw, i)
    OBVIOUS
  <2>2. T \subseteq Nat
    OBVIOUS
  <2> HIDE DEF T
  <2>3. T = Nat
    BY <1>9, <1>10, <2>2, Induction
  <2>4. m \in T /\ m <= m
    BY <1>1, <2>3
  <2> QED
    BY <2>1, <2>4, Zenon
<1>12. split_string(text, del) = raw
  <2> DEFINE found == split_string(text, del)
             S == Seq(Nat)
  <2>1. found \in Seq(S)
    BY <1>6, SplitStringType
  <2>2. Len(found) = m /\ \A j \in 1 .. m : found[j] = raw[j]
    BY <1>4, <1>8, <1>11 DEF LinesRead
  <2>3. raw \in Seq(S) /\ Len(raw) = m
    BY <1>1 DEF m
  <2> HIDE DEF found, S
  <2>4. found = raw
    BY <2>1, <2>2, <2>3, SeqEqual
  <2> QED
    BY <2>4 DEF found
<1> QED
  BY <1>6, <1>12 DEF text

LEMMA Listed ==
  ASSUME NEW names, NEW text \in Seq(Nat), IsListing(names, text)
  PROVE  parse_file_list(text) = names
<1> DEFINE m == Len(names)
<1>1. names \in Seq(Seq(Nat \ {LF})) /\ m \in Nat /\ DOMAIN names = 1 .. m
  BY DEF IsListing
<1>2. \A i \in 1 .. m : names[i] \in Seq(Nat \ {LF})
  <2> DEFINE S == Seq(Nat \ {LF})
  <2>1. names \in Seq(S)
    BY <1>1
  <2> HIDE DEF S
  <2>2. \A i \in 1 .. Len(names) : names[i] \in S
    BY <2>1, ElementOfSeq
  <2> QED
    BY <2>2 DEF S
<1>3. \A i \in 1 .. m : names[i] # <<>> => Last(names[i]) # CR
  BY <1>1 DEF IsListing
<1>4. PICK ends \in [1 .. m -> {<<LF>>, <<CR, LF>>, <<>>}] :
            /\ text = FlattenSeq([i \in 1 .. m |-> names[i] \o ends[i]])
            /\ \A i \in 1 .. m : ends[i] = <<>> => i = m /\ names[i] # <<>>
  <2> HIDE DEF m
  <2> QED
    BY <1>1, Zenon DEF IsListing, m
<1> DEFINE lines == [i \in 1 .. m |-> names[i] \o ends[i]]
           raw == [i \in 1 .. m |-> Raw(names[i], ends[i])]
<1> HIDE DEF m
<1>5. \A i \in 1 .. m : ends[i] \in {<<LF>>, <<CR, LF>>, <<>>}
  BY <1>4
<1>6. \A i \in 1 .. m : names[i] \o ends[i] \in Seq(Nat) /\ Raw(names[i], ends[i]) \in Seq(Nat)
  BY <1>2, <1>5, RawLine
<1>7. lines \in Seq(Seq(Nat)) /\ Len(lines) = m /\ raw \in Seq(Seq(Nat)) /\ Len(raw) = m
  <2> DEFINE S == Seq(Nat)
  <2>1. lines \in [1 .. m -> S] /\ raw \in [1 .. m -> S]
    BY <1>6
  <2> HIDE DEF S, lines, raw
  <2>2. lines \in Seq(S) /\ Len(lines) = m /\ raw \in Seq(S) /\ Len(raw) = m
    BY <1>1, <2>1
  <2> QED
    BY <2>2 DEF S
<1>8. split_string(text, LF) = raw
  <2>1. \A i \in 1 .. m : WithEnd(lines[i], raw[i], LF) /\ (Len(lines[i]) = Len(raw[i]) => i = m)
    <3> TAKE i \in 1 .. m
    <3> DEFINE name == names[i]
               end == ends[i]
    <3>1. name \in Seq(Nat \ {LF}) /\ end \in {<<LF>>, <<CR, LF>>, <<>>}
      BY <1>2, <1>5
    <3>2. raw[i] = Raw(name, end) /\ lines[i] = name \o end
      OBVIOUS
    <3>3. end = <<>> => i = m /\ name # <<>>
      BY <1>4
    <3> HIDE DEF name, end, raw, lines
    <3>4. /\ \A q \in 1 .. Len(Raw(name, end)) :
                    Raw(name, end)[q] # LF /\ (name \o end)[q] = Raw(name, end)[q]
          /\ end # <<>> => /\ Len(name \o end) = Len(Raw(name, end)) + 1
                           /\ (name \o end)[Len(Raw(name, end)) + 1] = LF
          /\ end = <<>> => Raw(name, end) = name /\ Len(name \o end) = Len(Raw(name, end))
      BY <3>1, RawLine
    <3> QED
      BY <3>1, <3>2, <3>3, <3>4, RawLine, LenProperties DEF WithEnd
  <2>2. text = FlattenSeq(lines)
    BY <1>4
  <2> HIDE DEF lines, raw
  <2>3. Delimited(lines, raw, LF)
    BY <1>1, <1>7, <2>1 DEF Delimited
  <2> QED
    BY <2>2, <2>3, SplitParts
<1> HIDE DEF lines
<1>9. \A i \in 1 .. m : Uncarried(raw[i]) = names[i]
  <2> TAKE i \in 1 .. m
  <2>1. raw[i] = Raw(names[i], ends[i])
    BY DEF raw
  <2> QED
    BY <1>2, <1>3, <1>5, <2>1, RawName
<1>10. DOMAIN raw = 1 .. m
  BY DEF raw
<1>11. parse_file_list(text) = [i \in 1 .. m |-> Uncarried(raw[i])]
  <2>1. parse_file_list(text) = [i \in DOMAIN raw |-> Uncarried(raw[i])]
    BY <1>8 DEF parse_file_list, Uncarried
  <2> QED
    BY <1>10, <2>1
<1> QED
  BY <1>1, <1>9, <1>11

--------------------------------------------------------------------------------
(* What to_string writes                                                   *)

\* One step of to_string, on the texts of all the numbers.
Digit(d, k) == IF k < 10 THEN <<k>> ELSE Append(d[k \div 10], k % 10)

\* The quotients that to_string recurs on are smaller.
LEMMA Quotient ==
  ASSUME NEW k \in Nat, ~(k < 10)
  PROVE  k \div 10 \in Nat /\ k \div 10 < k /\ k % 10 \in 0 .. 9 /\ k = 10 * (k \div 10) + (k % 10)
<1>1. k % 10 \in 0 .. 9
  OBVIOUS
<1>2. k = 10 * (k \div 10) + (k % 10)
  OBVIOUS
<1>3. k \div 10 \in Nat /\ k \div 10 < k
  BY <1>1, <1>2
<1> QED
  BY <1>1, <1>2, <1>3

LEMMA DigitType ==
  ASSUME NEW d \in [Nat -> Seq(Nat)], NEW k \in Nat
  PROVE  Digit(d, k) \in Seq(Nat)
<1>1. CASE k < 10
  BY <1>1 DEF Digit
<1>2. CASE ~(k < 10)
  <2>1. k \div 10 \in Nat /\ k % 10 \in Nat
    BY <1>2, Quotient
  <2>2. d[k \div 10] \in Seq(Nat)
    BY <2>1
  <2> QED
    BY <1>2, <2>1, <2>2 DEF Digit
<1> QED
  BY <1>1, <1>2

\* There is a function that to_string's recursion defines.
LEMMA DecimalExists == \E d : d = [k \in Nat |-> Digit(d, k)]
<1> DEFINE S == [Nat -> Seq(Nat)]
           step == [d \in S |-> [k \in Nat |-> Digit(d, k)]]
           empty == [k \in Nat |-> <<>>]
<1>1. empty \in S
  OBVIOUS
<1>2. step \in [S -> S]
  BY DigitType
<1>3. PICK f \in [Nat -> S] : f[0] = empty /\ \A i \in Nat : f[i + 1] = step[f[i]]
  <2> HIDE DEF S, step, empty
  <2> QED
    BY <1>1, <1>2, Iteration
<1>4. \A i \in Nat, k \in Nat : f[i + 1][k] = Digit(f[i], k)
  <2> TAKE i \in Nat, k \in Nat
  <2>1. f[i] \in S
    BY <1>3
  <2>2. step[f[i]] = [q \in Nat |-> Digit(f[i], q)]
    BY <2>1
  <2>3. f[i + 1] = [q \in Nat |-> Digit(f[i], q)]
    BY <1>3, <2>2
  <2> QED
    BY <2>3
<1> HIDE DEF step, empty, S
\* After i + 1 rounds the first i texts are there to stay.
<1> DEFINE T == {i \in Nat : \A k \in 0 .. i : f[i + 2][k] = f[i + 1][k]}
<1>5. 0 \in T
  <2>1. f[2][0] = Digit(f[1], 0) /\ f[1][0] = Digit(f[0], 0)
    <3>1. 0 \in Nat /\ 1 \in Nat /\ 0 + 1 = 1 /\ 1 + 1 = 2
      OBVIOUS
    <3> QED
      BY <1>4, <3>1
  <2>2. f[0 + 2][0] = f[0 + 1][0]
    BY <2>1 DEF Digit
  <2> QED
    BY <2>2
<1>6. \A i \in T : i + 1 \in T
  <2> TAKE i \in T
  <2> SUFFICES ASSUME i \in Nat, NEW k \in 0 .. i + 1 PROVE f[(i + 1) + 2][k] = f[(i + 1) + 1][k]
    OBVIOUS
  <2>1. k \in Nat /\ (i + 1) + 2 = (i + 2) + 1 /\ i + 1 \in Nat /\ i + 2 \in Nat
    OBVIOUS
  <2>2. f[(i + 2) + 1][k] = Digit(f[i + 2], k) /\ f[(i + 1) + 1][k] = Digit(f[i + 1], k)
    BY <1>4, <2>1
  <2>3. ~(k < 10) => f[i + 2][k \div 10] = f[i + 1][k \div 10]
    <3> SUFFICES ASSUME ~(k < 10) PROVE f[i + 2][k \div 10] = f[i + 1][k \div 10]
      OBVIOUS
    <3>1. k \div 10 \in 0 .. i
      BY <2>1, Quotient
    <3> QED
      BY <3>1
  <2> HIDE DEF T
  <2>4. Digit(f[i + 2], k) = Digit(f[i + 1], k)
    BY <2>3 DEF Digit
  <2> QED
    BY <2>1, <2>2, <2>4
<1>7. T = Nat
  <2>1. T \subseteq Nat
    OBVIOUS
  <2> HIDE DEF T
  <2> QED
    BY <1>5, <1>6, <2>1, Induction
<1>8. \A i \in Nat : \A k \in 0 .. i : f[i + 2][k] = f[i + 1][k]
  BY <1>7
<1> HIDE DEF T
<1>9. \A k \in Nat, j \in Nat : f[k + 1 + j][k] = f[k + 1][k]
  <2> TAKE k \in Nat
  <2> DEFINE U == {j \in Nat : f[k + 1 + j][k] = f[k + 1][k]}
  <2>1. 0 \in U
    OBVIOUS
  <2>2. \A j \in U : j + 1 \in U
    <3> TAKE j \in U
    <3>1. j \in Nat /\ f[k + 1 + j][k] = f[k + 1][k]
      OBVIOUS
    <3>2. k + j \in Nat /\ k \in 0 .. k + j /\ (k + j) + 2 = k + 1 + (j + 1) /\ (k + j) + 1 = k + 1 + j
      BY <3>1
    <3> HIDE DEF U
    <3>3. f[k + 1 + (j + 1)][k] = f[k + 1 + j][k]
      BY <1>8, <3>2
    <3> QED
      BY <3>1, <3>3 DEF U
  <2>3. U = Nat
    <3>1. U \subseteq Nat
      OBVIOUS
    <3> HIDE DEF U
    <3> QED
      BY <2>1, <2>2, <3>1, Induction
  <2> QED
    BY <2>3
<1> DEFINE d == [k \in Nat |-> f[k + 1][k]]
<1>10. \A k \in Nat : d[k] = Digit(d, k)
  <2> TAKE k \in Nat
  <2>1. d[k] = f[k + 1][k] /\ f[k + 1][k] = Digit(f[k], k)
    BY <1>4
  <2>2. ~(k < 10) => f[k][k \div 10] = d[k \div 10]
    <3> SUFFICES ASSUME ~(k < 10) PROVE f[k][k \div 10] = d[k \div 10]
      OBVIOUS
    <3> DEFINE q == k \div 10
    <3>1. q \in Nat /\ q < k
      BY Quotient
    <3> HIDE DEF q
    <3>2. k - q - 1 \in Nat /\ q + 1 + (k - q - 1) = k
      BY <3>1
    <3>3. f[k][q] = f[q + 1][q]
      BY <1>9, <3>1, <3>2
    <3>4. d[q] = f[q + 1][q]
      BY <3>1
    <3> QED
      BY <3>3, <3>4 DEF q
  <2> HIDE DEF d
  <2> QED
    BY <2>1, <2>2 DEF Digit
<1>11. d = [k \in Nat |-> Digit(d, k)]
  <2>1. d = [k \in Nat |-> d[k]]
    OBVIOUS
  <2> HIDE DEF d
  <2> QED
    BY <1>10, <2>1
<1> HIDE DEF d
<1> QED
  BY <1>11

\* The recursion of to_string, a digit at a time
LEMMA ToStringIs ==
  ASSUME NEW n \in Nat
  PROVE  to_string(n) = IF n < 10 THEN <<n>> ELSE Append(to_string(n \div 10), n % 10)
<1> DEFINE decimal == CHOOSE d : d = [k \in Nat |-> IF k < 10 THEN <<k>> ELSE Append(d[k \div 10], k % 10)]
<1>1. \A k : to_string(k) = decimal[k]
  BY DEF to_string
<1>2. decimal = [k \in Nat |-> IF k < 10 THEN <<k>> ELSE Append(decimal[k \div 10], k % 10)]
  <2>1. \E d : d = [k \in Nat |-> IF k < 10 THEN <<k>> ELSE Append(d[k \div 10], k % 10)]
    BY DecimalExists, Zenon DEF Digit
  <2> QED
    BY <2>1, Zenon
<1> HIDE DEF decimal
<1>3. decimal[n] = IF n < 10 THEN <<n>> ELSE Append(decimal[n \div 10], n % 10)
  BY <1>2, Zenon
<1> QED
  BY <1>1, <1>3

\* One digit more.
LEMMA MeaningAppend ==
  ASSUME NEW s \in Seq(Nat), NEW c \in Nat
  PROVE  Meaning(Append(s, c)) = 10 * Meaning(s) + c
<1> DEFINE n == Len(s)
           t == Append(s, c)
<1>1. PICK h : Digits10(h, s)
  BY DigitLoop
<1>2. h \in [0 .. n -> Nat] /\ h[0] = 0 /\ (\A i \in 1 .. n : h[i] = 10 * h[i - 1] + s[i]) /\ n \in Nat
  BY <1>1 DEF Digits10
<1>3. t \in Seq(Nat) /\ Len(t) = n + 1 /\ t[n + 1] = c /\ \A i \in 1 .. n : t[i] = s[i]
  OBVIOUS
<1> HIDE DEF n, t
<1> DEFINE g == [i \in 0 .. n + 1 |-> IF i = n + 1 THEN 10 * h[n] + c ELSE h[i]]
<1>4. \A i \in 0 .. n : g[i] = h[i]
  BY <1>2
<1>5. g[n + 1] = 10 * h[n] + c /\ h[n] \in Nat
  BY <1>2
<1>6. g \in [0 .. n + 1 -> Nat]
  BY <1>2, <1>5
<1> HIDE DEF g
<1>7. \A i \in 1 .. n + 1 : g[i] = 10 * g[i - 1] + t[i]
  <2> TAKE i \in 1 .. n + 1
  <2>1. CASE i = n + 1
    BY <1>2, <1>3, <1>4, <1>5, <2>1
  <2>2. CASE i # n + 1
    <3>1. i \in 1 .. n /\ i - 1 \in 0 .. n /\ i \in 0 .. n
      BY <1>2, <2>2
    <3> QED
      BY <1>2, <1>3, <1>4, <3>1
  <2> QED
    BY <2>1, <2>2
<1>8. Digits10(g, t)
  <2>1. g[0] = 0
    BY <1>2, <1>4
  <2> QED
    BY <1>3, <1>6, <1>7, <2>1 DEF Digits10
<1>9. Meaning(t) = g[n + 1] /\ Meaning(s) = h[n]
  BY <1>1, <1>3, <1>8, MeaningIs DEF n
<1> QED
  BY <1>5, <1>9 DEF t

LEMMA MeaningOfNone == Meaning(<<>>) = 0
<1>1. <<>> \in Seq(Nat) /\ Len(<<>>) = 0
  OBVIOUS
<1>2. PICK h : Digits10(h, <<>>)
  BY <1>1, DigitLoop
<1> QED
  BY <1>1, <1>2, MeaningIs DEF Digits10

LEMMA MeaningOfDigit ==
  ASSUME NEW c \in Nat
  PROVE  Meaning(<<c>>) = c
<1>1. <<>> \in Seq(Nat) /\ Append(<<>>, c) = <<c>>
  OBVIOUS
<1>2. Meaning(Append(<<>>, c)) = 10 * Meaning(<<>>) + c
  BY <1>1, MeaningAppend
<1> QED
  BY <1>1, <1>2, MeaningOfNone

\* What to_string writes is a number, and means what it was.
IsDecimal(text, n) == text \in Seq(0 .. 9) /\ text # <<>> /\ Meaning(text) = n

LEMMA Decimal ==
  ASSUME NEW n \in Nat
  PROVE  IsDecimal(to_string(n), n)
<1> DEFINE T == {m \in Nat : \A k \in 0 .. m : IsDecimal(to_string(k), k)}
<1>1. ASSUME NEW k \in Nat, k < 10 PROVE IsDecimal(to_string(k), k)
  <2>1. to_string(k) = <<k>> /\ k \in 0 .. 9
    BY <1>1, ToStringIs
  <2>2. Meaning(<<k>>) = k
    BY MeaningOfDigit
  <2> QED
    BY <2>1, <2>2 DEF IsDecimal
<1>2. ASSUME NEW k \in Nat, ~(k < 10), IsDecimal(to_string(k \div 10), k \div 10) PROVE IsDecimal(to_string(k), k)
  <2> DEFINE q == k \div 10
             r == k % 10
             s == to_string(q)
  <2>1. q \in Nat /\ r \in 0 .. 9 /\ k = 10 * q + r
    BY <1>2, Quotient
  <2>2. to_string(k) = Append(s, r)
    BY <1>2, ToStringIs
  <2>3. s \in Seq(0 .. 9) /\ Meaning(s) = q
    BY <1>2 DEF IsDecimal
  <2> HIDE DEF s, q, r
  <2>4. s \in Seq(Nat) /\ r \in Nat
    <3>1. Len(s) \in Nat /\ \A i \in 1 .. Len(s) : s[i] \in 0 .. 9
      BY <2>3, ElementOfSeq
    <3> QED
      BY <2>1, <2>3, <3>1
  <2>5. Meaning(Append(s, r)) = 10 * Meaning(s) + r
    BY <2>4, MeaningAppend
  <2>6. Append(s, r) \in Seq(0 .. 9) /\ Append(s, r) # <<>>
    BY <2>1, <2>3
  <2> QED
    BY <2>1, <2>2, <2>3, <2>5, <2>6 DEF IsDecimal
<1>3. 0 \in T
  <2>1. IsDecimal(to_string(0), 0)
    BY <1>1
  <2> QED
    BY <2>1
<1>4. \A m \in T : m + 1 \in T
  <2> TAKE m \in T
  <2> SUFFICES ASSUME m \in Nat, NEW k \in 0 .. m + 1 PROVE IsDecimal(to_string(k), k)
    OBVIOUS
  <2>1. CASE k < 10
    BY <1>1, <2>1
  <2>2. CASE ~(k < 10)
    <3>1. k \div 10 \in 0 .. m
      BY <2>2, Quotient
    <3>2. IsDecimal(to_string(k \div 10), k \div 10)
      BY <3>1
    <3> HIDE DEF T
    <3> QED
      BY <1>2, <2>2, <3>2
  <2> QED
    BY <2>1, <2>2
<1>5. T = Nat
  <2>1. T \subseteq Nat
    OBVIOUS
  <2> HIDE DEF T
  <2> QED
    BY <1>3, <1>4, <2>1, Induction
<1>6. n \in T /\ n \in 0 .. n
  <2> HIDE DEF T
  <2> QED
    BY <1>5
<1> QED
  BY <1>6

--------------------------------------------------------------------------------
(* Parts that a character separates                                        *)

\* Digits are characters.
LEMMA DigitsAreNumbers ==
  ASSUME NEW s \in Seq(0 .. 9)
  PROVE  s \in Seq(Nat) /\ \A i \in 1 .. Len(s) : s[i] \in 0 .. 9
<1>1. Len(s) \in Nat /\ \A i \in 1 .. Len(s) : s[i] \in 0 .. 9
  BY ElementOfSeq
<1> QED
  BY <1>1

LEMMA DecimalIsNumber ==
  ASSUME NEW text, NEW n, IsDecimal(text, n)
  PROVE  /\ text \in Seq(Nat) /\ IsNumber(text) /\ text # <<>> /\ Meaning(text) = n
         /\ \A i \in 1 .. Len(text) : text[i] \in 0 .. 9
<1>1. text \in Seq(Nat) /\ \A i \in 1 .. Len(text) : text[i] \in 0 .. 9
  BY DigitsAreNumbers DEF IsDecimal
<1>2. ToSet(text) \subseteq Digits
  BY <1>1 DEF ToSet, Digits
<1> QED
  BY <1>1, <1>2 DEF IsDecimal, IsNumber

\* The elements of a sequence of texts
LEMMA Texts ==
  ASSUME NEW seqs \in Seq(Seq(Nat)), NEW i \in 1 .. Len(seqs)
  PROVE  seqs[i] \in Seq(Nat)
<1> DEFINE S == Seq(Nat)
<1>1. seqs \in Seq(S)
  OBVIOUS
<1> HIDE DEF S
<1>2. seqs[i] \in S
  BY <1>1, ElementOfSeq
<1> QED
  BY <1>2 DEF S

LEMMA TextsMade ==
  ASSUME NEW n \in Nat, NEW seqs, DOMAIN seqs = 1 .. n, seqs = [i \in 1 .. n |-> seqs[i]],
         \A i \in 1 .. n : seqs[i] \in Seq(Nat)
  PROVE  seqs \in Seq(Seq(Nat)) /\ Len(seqs) = n
<1> DEFINE S == Seq(Nat)
<1>1. seqs \in [1 .. n -> S]
  OBVIOUS
<1> HIDE DEF S
<1>2. seqs \in Seq(S) /\ Len(seqs) = n
  BY <1>1
<1> QED
  BY <1>2 DEF S

\* One part more
LEMMA FlattenOne ==
  ASSUME NEW seqs \in Seq(Seq(Nat)), NEW s \in Seq(Nat)
  PROVE  /\ FlattenSeq(Append(seqs, s)) = FlattenSeq(seqs) \o s
         /\ FlattenSeq(Append(seqs, s)) \in Seq(Nat) /\ FlattenSeq(seqs) \in Seq(Nat)
         /\ Append(seqs, s) \in Seq(Seq(Nat))
<1> DEFINE all == Append(seqs, s)
           n == Len(seqs)
           S == Seq(Nat)
<1>1. /\ all \in Seq(S) /\ Len(all) = n + 1 /\ all[n + 1] = s /\ n \in Nat
      /\ \A i \in 1 .. n : all[i] = seqs[i]
  <2>1. seqs \in Seq(S) /\ s \in S
    OBVIOUS
  <2> HIDE DEF S
  <2> QED
    BY <2>1, AppendProperties
<1>2. all \in Seq(Seq(Nat))
  BY <1>1
<1> HIDE DEF all, n
<1>3. PICK f : Concatenates(f, Nat, all)
  BY <1>2, Concatenation
<1>4. /\ f \in [0 .. n + 1 -> Seq(Nat)] /\ f[0] = <<>>
      /\ \A i \in 1 .. n + 1 : f[i] = f[i - 1] \o all[i]
  BY <1>1, <1>3 DEF Concatenates
<1> DEFINE g == [i \in 0 .. n |-> f[i]]
<1>5. Concatenates(g, Nat, seqs)
  <2>1. g \in [0 .. n -> Seq(Nat)] /\ g[0] = <<>> /\ \A i \in 0 .. n : g[i] = f[i]
    BY <1>1, <1>4
  <2> HIDE DEF g
  <2>2. \A i \in 1 .. n : g[i] = g[i - 1] \o seqs[i]
    <3> TAKE i \in 1 .. n
    <3>1. i \in 1 .. n + 1 /\ i \in 0 .. n /\ i - 1 \in 0 .. n
      BY <1>1
    <3> QED
      BY <1>1, <1>4, <2>1, <3>1
  <2> QED
    BY <2>1, <2>2 DEF Concatenates, n
<1>6. g[n] = f[n] /\ f[n] \in Seq(Nat)
  BY <1>1, <1>4
<1> HIDE DEF g
<1>7. FlattenSeq(seqs) = g[n]
  BY <1>5, Flattened DEF n
<1>8. FlattenSeq(all) = f[n + 1]
  BY <1>1, <1>2, <1>3, Flattened
<1>9. f[n + 1] = f[n] \o s
  <2>1. n + 1 \in 1 .. n + 1 /\ (n + 1) - 1 = n
    BY <1>1
  <2>2. f[n + 1] = f[(n + 1) - 1] \o all[n + 1]
    BY <1>4, <2>1
  <2> QED
    BY <1>1, <2>1, <2>2
<1> QED
  BY <1>2, <1>4, <1>6, <1>7, <1>8, <1>9 DEF all

\* What separates the i-th of m parts from the next
Separator(i, m, del) == IF i = m THEN <<>> ELSE <<del>>

\* split_string undoes Separated.
LEMMA SeparatedSplit ==
  ASSUME NEW del \in Nat, NEW parts \in Seq(Seq(Nat)),
         \A i \in 1 .. Len(parts) : \A q \in 1 .. Len(parts[i]) : parts[i][q] # del,
         parts # <<>> => parts[Len(parts)] # <<>>
  PROVE  Separated(parts, del) \in Seq(Nat) /\ split_string(Separated(parts, del), del) = parts
<1> DEFINE m == Len(parts)
           lines == [i \in 1 .. m |-> parts[i] \o Separator(i, m, del)]
<1>1. m \in Nat /\ DOMAIN parts = 1 .. m /\ \A i \in 1 .. m : parts[i] \in Seq(Nat)
  BY Texts
<1>2. Separated(parts, del) = FlattenSeq(lines)
  BY <1>1 DEF Separated, Separator
<1>3. \A i \in 1 .. m : Separator(i, m, del) \in Seq(Nat) /\ lines[i] \in Seq(Nat)
  <2> TAKE i \in 1 .. m
  <2> HIDE DEF m
  <2>1. Separator(i, m, del) \in Seq(Nat)
    <3>1. <<>> \in Seq(Nat) /\ <<del>> \in Seq(Nat)
      OBVIOUS
    <3> QED
      BY <3>1 DEF Separator
  <2> QED
    BY <1>1, <2>1
<1>4. lines \in Seq(Seq(Nat)) /\ Len(lines) = m
  <2>1. DOMAIN lines = 1 .. m /\ lines = [i \in 1 .. m |-> lines[i]]
    OBVIOUS
  <2> HIDE DEF lines
  <2> QED
    BY <1>1, <1>3, <2>1, TextsMade
<1>5. ASSUME NEW i \in 1 .. m
      PROVE  WithEnd(lines[i], parts[i], del) /\ (Len(lines[i]) = Len(parts[i]) => i = m)
  <2> DEFINE p == parts[i]
             e == Separator(i, m, del)
             l == lines[i]
  <2>1. p \in Seq(Nat) /\ e \in Seq(Nat) /\ l = p \o e
    BY <1>1, <1>3
  <2>2. \A q \in 1 .. Len(p) : p[q] # del
    OBVIOUS
  <2>3. i = m => p # <<>> /\ e = <<>>
    BY <1>1 DEF Separator
  <2>4. i # m => e = <<del>>
    BY DEF Separator
  <2> HIDE DEF p, e, l, m
  <2>5. \A q \in 1 .. Len(p) : l[q] = p[q]
    BY <2>1, Joined
  <2>6. CASE i = m
    <3>1. Len(l) = Len(p) /\ p # <<>>
      BY <2>1, <2>3, <2>6
    <3> QED
      BY <2>2, <2>5, <2>6, <3>1 DEF WithEnd, p, l
  <2>7. CASE i # m
    <3>1. e = <<del>> /\ Len(e) = 1 /\ e[1] = del
      BY <2>4, <2>7
    <3>2. Len(l) = Len(p) + 1 /\ l[Len(p) + 1] = del /\ Len(p) \in Nat
      BY <2>1, <3>1, Joined
    <3> QED
      BY <2>2, <2>5, <3>2 DEF WithEnd, p, l
  <2> QED
    BY <2>6, <2>7
<1>6. Delimited(lines, parts, del)
  <2> HIDE DEF lines
  <2> QED
    BY <1>4, <1>5 DEF Delimited
<1> HIDE DEF lines, m
<1> QED
  BY <1>2, <1>6, SplitParts

LEMMA DecimalsAre ==
  ASSUME NEW numbers \in Seq(Nat)
  PROVE  /\ Decimals(numbers) \in Seq(Seq(Nat)) /\ Len(Decimals(numbers)) = Len(numbers)
         /\ \A i \in 1 .. Len(numbers) :
                Decimals(numbers)[i] = to_string(numbers[i]) /\ IsDecimal(Decimals(numbers)[i], numbers[i])
<1> DEFINE n == Len(numbers)
           d == [i \in 1 .. n |-> to_string(numbers[i])]
<1>1. n \in Nat /\ DOMAIN numbers = 1 .. n /\ \A i \in 1 .. n : numbers[i] \in Nat
  BY ElementOfSeq
<1>2. Decimals(numbers) = d
  BY <1>1 DEF Decimals
<1>3. \A i \in 1 .. n : d[i] = to_string(numbers[i]) /\ IsDecimal(d[i], numbers[i])
  BY <1>1, Decimal
<1>4. \A i \in 1 .. n : d[i] \in Seq(Nat)
  BY <1>3, DecimalIsNumber
<1>5. DOMAIN d = 1 .. n /\ d = [i \in 1 .. n |-> d[i]]
  OBVIOUS
<1> HIDE DEF d, n
<1>6. d \in Seq(Seq(Nat)) /\ Len(d) = n
  BY <1>1, <1>4, <1>5, TextsMade
<1> QED
  BY <1>2, <1>3, <1>6 DEF n

\* Decimals that a character which is no digit separates are split again.
LEMMA DecimalsSplit ==
  ASSUME NEW del \in Nat \ 0 .. 9, NEW numbers \in Seq(Nat)
  PROVE  /\ Separated(Decimals(numbers), del) \in Seq(Nat)
         /\ split_string(Separated(Decimals(numbers), del), del) = Decimals(numbers)
<1> DEFINE d == Decimals(numbers)
<1>1. d \in Seq(Seq(Nat)) /\ \A i \in 1 .. Len(d) : IsDecimal(d[i], numbers[i])
  BY DecimalsAre
<1> HIDE DEF d
<1>2. \A i \in 1 .. Len(d) : d[i] # <<>> /\ \A q \in 1 .. Len(d[i]) : d[i][q] # del
  <2> TAKE i \in 1 .. Len(d)
  <2>1. d[i] # <<>> /\ \A q \in 1 .. Len(d[i]) : d[i][q] \in 0 .. 9
    BY <1>1, DecimalIsNumber
  <2> QED
    BY <2>1
<1>3. d # <<>> => d[Len(d)] # <<>>
  <2> SUFFICES ASSUME d # <<>> PROVE d[Len(d)] # <<>>
    OBVIOUS
  <2>1. Len(d) \in 1 .. Len(d)
    <3> DEFINE S == Seq(Nat)
    <3>1. d \in Seq(S)
      BY <1>1
    <3> HIDE DEF S
    <3> QED
      BY <3>1
  <2> QED
    BY <1>2, <2>1
<1> QED
  BY <1>1, <1>2, <1>3, SeparatedSplit DEF d

--------------------------------------------------------------------------------
(* The answers to EPSV and SIZE                                            *)

\* When the words have no parentheses, client.cpp finds those of the answer.
LEMMA OnlyOnes ==
  ASSUME NEW text \in Seq(Nat), NEW i \in DOMAIN text, NEW j \in DOMAIN text,
         text[i] = Open, text[j] = Close, OnlyAt(text, i, j)
  PROVE  Begin(text) = i /\ End(text) = j
<1> DEFINE b == Begin(text)
           e == End(text)
<1>1. /\ i \in 1 .. Len(text) /\ j \in 1 .. Len(text) /\ Open # Close
      /\ b \in 0 .. Len(text) /\ e \in 0 .. Len(text) /\ Len(text) \in Nat
      /\ b # 0 => text[b] = Open
      /\ e # 0 => text[e] = Close
      /\ b # 0 /\ b <= i /\ e # 0 /\ j <= e
  BY Parentheses DEF Open, Close
<1> HIDE DEF b, e
<1>2. b \in DOMAIN text /\ e \in DOMAIN text
  BY <1>1
<1>3. b \in {i, j} /\ e \in {i, j}
  BY <1>1, <1>2 DEF OnlyAt
<1> QED
  BY <1>1, <1>3 DEF b, e

\* What AnswersAreRead says of an answer to EPSV and its result
EpsvStands(text, result) ==
    /\ \A i, j \in DOMAIN text :
          IsEpsvAnswer(text, i, j) /\ OnlyAt(text, i, j) =>
            LET port == EpsvPort(text, i, j)
            IN  result = IF port <= Max16 THEN port ELSE Refused
    /\ result # Refused =>
          \E i, j \in DOMAIN text :
            /\ IsNumber(SubSeq(text, i, j)) /\ result = Meaning(SubSeq(text, i, j))
            /\ \E k \in 1 .. i - 1 : text[k] = Open
            /\ \E k \in j + 1 .. Len(text) : text[k] = Close

\* The port of an answer to EPSV, which is the number within the parentheses
LEMMA EpsvRead ==
  ASSUME NEW text \in Seq(Nat)
  PROVE  EpsvStands(text, try_parse_epsv_reply(text))
<1> DEFINE b == Begin(text)
           e == End(text)
           number == Inside(text, 4, 1)
<1>1. /\ b \in 0 .. Len(text) /\ e \in 0 .. Len(text) /\ Len(text) \in Nat /\ DOMAIN text = 1 .. Len(text)
      /\ b # 0 => text[b] = Open
      /\ e # 0 => text[e] = Close
  BY Parentheses
<1>2. number \in Seq(Nat) /\ Max16 \in 0 .. Max64 /\ Max64 \in Nat /\ Meaning(number) \in Nat
  <2>1. 4 \in Nat \ {0} /\ 1 \in Nat
    OBVIOUS
  <2>2. number \in Seq(Nat)
    BY <2>1, InsideType
  <2> HIDE DEF number
  <2> QED
    BY <2>2, Limits, NumberRead
<1>3. try_parse_epsv_reply(text) =
        IF IsNumber(number) /\ Meaning(number) <= Max16 THEN Meaning(number) ELSE Refused
  <2> HIDE DEF number
  <2> QED
    BY <1>2, NarrowRead DEF try_parse_epsv_reply, number
<1>4. number = IF b = 0 \/ e = 0 \/ b + 4 >= e - 1 THEN <<>> ELSE SubSeq(text, b + 4, e - 1 - 1)
  BY DEF Inside
<1> HIDE DEF b, e, number
<1>5. ASSUME NEW i \in DOMAIN text, NEW j \in DOMAIN text, IsEpsvAnswer(text, i, j), OnlyAt(text, i, j)
      PROVE  try_parse_epsv_reply(text) =
                IF EpsvPort(text, i, j) <= Max16 THEN EpsvPort(text, i, j) ELSE Refused
  <2>1. b = i /\ e = j
    BY <1>5, OnlyOnes DEF IsEpsvAnswer, b, e
  <2>2. IsNumber(SubSeq(text, i + 4, j - 2))
    BY <1>5 DEF IsEpsvAnswer
  <2>3. j - 1 - 1 = j - 2 /\ ~(i + 4 >= j - 1) /\ i # 0 /\ j # 0
    <3>1. i \in Nat \ {0} /\ j \in Nat \ {0}
      OBVIOUS
    <3>2. i + 5 < j
      BY <1>5 DEF IsEpsvAnswer
    <3> QED
      BY <3>1, <3>2
  <2>4. number = SubSeq(text, i + 4, j - 2)
    BY <1>4, <2>1, <2>3
  <2> QED
    BY <1>3, <2>2, <2>4 DEF EpsvPort
<1>6. ASSUME try_parse_epsv_reply(text) # Refused
      PROVE  \E i, j \in DOMAIN text :
               /\ IsNumber(SubSeq(text, i, j)) /\ try_parse_epsv_reply(text) = Meaning(SubSeq(text, i, j))
               /\ \E k \in 1 .. i - 1 : text[k] = Open
               /\ \E k \in j + 1 .. Len(text) : text[k] = Close
  <2>1. IsNumber(number) /\ try_parse_epsv_reply(text) = Meaning(number)
    BY <1>3, <1>6
  <2>2. number # <<>>
    BY <2>1 DEF IsNumber
  <2>3. b # 0 /\ e # 0 /\ ~(b + 4 >= e - 1) /\ number = SubSeq(text, b + 4, e - 1 - 1)
    BY <1>4, <2>2
  <2> DEFINE i == b + 4
             j == e - 1 - 1
  <2>4. i \in DOMAIN text /\ j \in DOMAIN text /\ b \in 1 .. i - 1 /\ e \in j + 1 .. Len(text)
    BY <1>1, <2>3
  <2>5. IsNumber(SubSeq(text, i, j)) /\ try_parse_epsv_reply(text) = Meaning(SubSeq(text, i, j))
    BY <2>1, <2>3
  <2>6. text[b] = Open /\ text[e] = Close
    BY <1>1, <2>3
  <2> HIDE DEF i, j
  <2> QED
    BY <2>4, <2>5, <2>6
<1> QED
  BY <1>5, <1>6 DEF EpsvStands

\* The size of an answer to SIZE, and none of another
LEMMA SizeRead ==
  ASSUME NEW text \in Seq(Nat), NEW size, NEW code, IsSizeAnswer(size, code, text)
  PROVE  parse_size(code, text) = size
<1> DEFINE digits == SubSeq(text, 5, Len(text))
<1>1. digits \in Seq(Nat) /\ Value(text) = digits
  BY ValueType DEF Value
<1>2. IF code = 213 /\ IsNumber(digits) /\ Meaning(digits) <= Max64
      THEN size = Meaning(digits) ELSE size = Refused
  BY DEF IsSizeAnswer
<1> HIDE DEF digits
<1> QED
  BY <1>1, <1>2, NumberRead DEF parse_size

--------------------------------------------------------------------------------
(* The answer to PASV                                                      *)

\* A few texts one after another
LEMMA FlattenFour ==
  ASSUME NEW a \in Seq(Nat), NEW b \in Seq(Nat), NEW c \in Seq(Nat), NEW d \in Seq(Nat)
  PROVE  /\ FlattenSeq(<<a, b, c, d>>) = ((a \o b) \o c) \o d
         /\ <<a, b, c, d>> \in Seq(Seq(Nat))
<1> DEFINE seqs == <<a, b, c, d>>
           f == [i \in 0 .. 4 |-> IF i = 0 THEN <<>> ELSE IF i = 1 THEN a ELSE IF i = 2 THEN a \o b
                                 ELSE IF i = 3 THEN (a \o b) \o c ELSE ((a \o b) \o c) \o d]
<1>1. seqs \in Seq(Seq(Nat)) /\ Len(seqs) = 4 /\ seqs[1] = a /\ seqs[2] = b /\ seqs[3] = c /\ seqs[4] = d
  <2> DEFINE S == Seq(Nat)
  <2>1. a \in S /\ b \in S /\ c \in S /\ d \in S
    OBVIOUS
  <2> HIDE DEF S
  <2>2. seqs \in Seq(S) /\ Len(seqs) = 4 /\ seqs[1] = a /\ seqs[2] = b /\ seqs[3] = c /\ seqs[4] = d
    BY <2>1
  <2> QED
    BY <2>2 DEF S
<1>2. a \o b \in Seq(Nat) /\ (a \o b) \o c \in Seq(Nat) /\ ((a \o b) \o c) \o d \in Seq(Nat)
  OBVIOUS
<1>3. /\ DOMAIN f = 0 .. 4 /\ f = [i \in 0 .. 4 |-> f[i]] /\ f[0] = <<>> /\ f[1] = a /\ f[2] = a \o b
      /\ f[3] = (a \o b) \o c /\ f[4] = ((a \o b) \o c) \o d
  OBVIOUS
<1>4. <<>> \in Seq(Nat) /\ <<>> \o a = a
  OBVIOUS
<1> HIDE DEF seqs, f
<1>5. f \in [0 .. 4 -> Seq(Nat)]
  <2>1. \A i \in 0 .. 4 : f[i] \in Seq(Nat)
    <3> TAKE i \in 0 .. 4
    <3>1. i = 0 \/ i = 1 \/ i = 2 \/ i = 3 \/ i = 4
      OBVIOUS
    <3> QED
      BY <1>2, <1>3, <1>4, <3>1
  <2> QED
    BY <1>3, <2>1
<1>6. \A i \in 1 .. 4 : f[i] = f[i - 1] \o seqs[i]
  <2> TAKE i \in 1 .. 4
  <2>1. i = 1 \/ i = 2 \/ i = 3 \/ i = 4
    OBVIOUS
  <2>2. f[1] = f[0] \o seqs[1] /\ f[2] = f[1] \o seqs[2] /\ f[3] = f[2] \o seqs[3] /\ f[4] = f[3] \o seqs[4]
    BY <1>1, <1>3, <1>4, Zenon
  <2>3. 1 - 1 = 0 /\ 2 - 1 = 1 /\ 3 - 1 = 2 /\ 4 - 1 = 3
    OBVIOUS
  <2> QED
    BY <2>1, <2>2, <2>3, Zenon
<1>7. Concatenates(f, Nat, seqs)
  BY <1>1, <1>3, <1>5, <1>6 DEF Concatenates
<1>8. FlattenSeq(seqs) = f[4]
  BY <1>1, <1>7, Flattened
<1> QED
  BY <1>1, <1>3, <1>8 DEF seqs

\* del does not occur in line.
Lacks(line, del) == \A q \in 1 .. Len(line) : line[q] # del

LEMMA Ended ==
  ASSUME NEW del \in Nat, NEW line \in Seq(Nat), Lacks(line, del)
  PROVE  /\ WithEnd(line \o <<del>>, line, del) /\ line \o <<del>> \in Seq(Nat)
         /\ Len(line \o <<del>>) # Len(line)
         /\ line # <<>> => WithEnd(line, line, del)
<1> DEFINE e == <<del>>
<1>1. e \in Seq(Nat)
  OBVIOUS
<1>2. Len(e) = 1 /\ e[1] = del
  OBVIOUS
<1> HIDE DEF e
<1>3. line \o e \in Seq(Nat) /\ Len(line \o e) = Len(line) + Len(e) /\ Len(line) \in Nat
  BY <1>1
<1>4. \A i \in 1 .. Len(line) : (line \o e)[i] = line[i]
  BY <1>1
<1>5. \A i \in 1 .. Len(e) : (line \o e)[Len(line) + i] = e[i]
  BY <1>1
<1> DEFINE t == line \o e
<1> HIDE DEF t
<1>6. t[Len(line) + 1] = del
  <2>1. 1 \in 1 .. Len(e)
    BY <1>2
  <2> QED
    BY <1>2, <1>5, <2>1 DEF t
<1>7. WithEnd(t, line, del)
  BY <1>2, <1>3, <1>4, <1>6 DEF WithEnd, Lacks, t
<1>8. line # <<>> => WithEnd(line, line, del)
  BY DEF WithEnd, Lacks
<1> QED
  BY <1>2, <1>3, <1>7, <1>8 DEF e, t

\* Concatenation as an operator of its own, of which only this is used
Cat(s, t) == s \o t

LEMMA Grouped ==
  ASSUME NEW S, NEW s \in Seq(S), NEW t \in Seq(S), NEW u \in Seq(S)
  PROVE  Cat(s, Cat(t, u)) = Cat(Cat(s, t), u) /\ Cat(s, t) \in Seq(S)
<1>1. s \o (t \o u) = (s \o t) \o u
  BY ConcatAssociative
<1>2. s \o t \in Seq(S)
  OBVIOUS
<1> QED
  BY <1>1, <1>2, Zenon DEF Cat

LEMMA Associative ==
  ASSUME NEW s \in Seq(Nat), NEW t \in Seq(Nat), NEW u \in Seq(Nat)
  PROVE  Cat(s, Cat(t, u)) = Cat(Cat(s, t), u) /\ Cat(s, t) \in Seq(Nat)
BY Grouped, Zenon

Regroups(a, b, c, d, e) ==
    a \o e \o b \o e \o c \o e \o d = (((a \o e) \o (b \o e)) \o (c \o e)) \o d

LEMMA Ungrouped ==
  ASSUME NEW a \in Seq(Nat), NEW b \in Seq(Nat), NEW c \in Seq(Nat), NEW d \in Seq(Nat), NEW e \in Seq(Nat)
  PROVE  Regroups(a, b, c, d, e)
<1>1. Cat(a, e) \in Seq(Nat) /\ Cat(Cat(a, e), b) \in Seq(Nat) /\ Cat(Cat(Cat(a, e), b), e) \in Seq(Nat)
  BY Associative
<1>2. Cat(Cat(a, e), Cat(b, e)) = Cat(Cat(Cat(a, e), b), e)
  BY <1>1, Associative
<1>3. Cat(Cat(Cat(Cat(a, e), b), e), Cat(c, e)) = Cat(Cat(Cat(Cat(Cat(a, e), b), e), c), e)
  BY <1>1, Associative
<1>4. Cat(Cat(Cat(Cat(Cat(Cat(a, e), b), e), c), e), d) = Cat(Cat(Cat(Cat(a, e), Cat(b, e)), Cat(c, e)), d)
  BY <1>2, <1>3
<1> QED
  BY <1>4, Zenon DEF Cat, Regroups

\* Four parts that a character separates, as the code writes them
SplitsInFour(a, b, c, d, del) ==
    split_string(a \o <<del>> \o b \o <<del>> \o c \o <<del>> \o d, del) = <<a, b, c, d>>

LEMMA FourSplit ==
  ASSUME NEW del \in Nat, NEW a \in Seq(Nat), NEW b \in Seq(Nat), NEW c \in Seq(Nat), NEW d \in Seq(Nat),
         d # <<>>, Lacks(a, del), Lacks(b, del), Lacks(c, del), Lacks(d, del)
  PROVE  SplitsInFour(a, b, c, d, del)
<1> DEFINE e == <<del>>
           raw == <<a, b, c, d>>
           lines == <<a \o e, b \o e, c \o e, d>>
           S == Seq(Nat)
<1>1. e \in Seq(Nat)
  OBVIOUS
<1>2. /\ WithEnd(a \o e, a, del) /\ a \o e \in Seq(Nat) /\ Len(a \o e) # Len(a)
      /\ WithEnd(b \o e, b, del) /\ b \o e \in Seq(Nat) /\ Len(b \o e) # Len(b)
      /\ WithEnd(c \o e, c, del) /\ c \o e \in Seq(Nat) /\ Len(c \o e) # Len(c)
      /\ WithEnd(d, d, del)
  BY Ended
<1> HIDE DEF e
<1>3. raw \in Seq(Seq(Nat)) /\ lines \in Seq(Seq(Nat)) /\ FlattenSeq(lines) = (((a \o e) \o (b \o e)) \o (c \o e)) \o d
  <2>1. raw \in Seq(Seq(Nat))
    BY FlattenFour, Zenon
  <2> DEFINE x == a \o e
             y == b \o e
             z == c \o e
  <2>2. x \in Seq(Nat) /\ y \in Seq(Nat) /\ z \in Seq(Nat) /\ lines = <<x, y, z, d>>
    BY <1>2
  <2> HIDE DEF x, y, z, lines
  <2>3. lines \in Seq(Seq(Nat)) /\ FlattenSeq(lines) = ((x \o y) \o z) \o d
    <3>1. /\ FlattenSeq(<<x, y, z, d>>) = ((x \o y) \o z) \o d
          /\ <<x, y, z, d>> \in Seq(Seq(Nat))
      BY <2>2, FlattenFour, Zenon
    <3> QED
      BY <2>2, <3>1, Zenon
  <2> QED
    BY <2>1, <2>3 DEF x, y, z
<1>4. Len(raw) = 4 /\ Len(lines) = 4
  OBVIOUS
<1>5. \A i \in 1 .. 4 : WithEnd(lines[i], raw[i], del) /\ (Len(lines[i]) = Len(raw[i]) => i = 4)
  <2> TAKE i \in 1 .. 4
  <2>1. i = 1 \/ i = 2 \/ i = 3 \/ i = 4
    OBVIOUS
  <2>2. /\ lines[1] = a \o e /\ lines[2] = b \o e /\ lines[3] = c \o e /\ lines[4] = d
        /\ raw[1] = a /\ raw[2] = b /\ raw[3] = c /\ raw[4] = d
    OBVIOUS
  <2> HIDE DEF lines, raw
  <2> QED
    BY <1>2, <2>1, <2>2
<1> HIDE DEF raw, lines
<1>6. Delimited(lines, raw, del)
  BY <1>3, <1>4, <1>5 DEF Delimited
<1>7. split_string(FlattenSeq(lines), del) = raw
  BY <1>6, SplitParts
<1>8. a \o e \o b \o e \o c \o e \o d = (((a \o e) \o (b \o e)) \o (c \o e)) \o d
  <2>1. Regroups(a, b, c, d, e)
    BY <1>1, Ungrouped
  <2> QED
    BY <2>1 DEF Regroups
<1> QED
  BY <1>3, <1>7, <1>8 DEF e, raw, SplitsInFour

\* All that stands between the parentheses
LEMMA InsideIs ==
  ASSUME NEW text \in Seq(Nat), NEW i \in DOMAIN text, NEW j \in DOMAIN text,
         i < j, text[i] = Open, text[j] = Close, OnlyAt(text, i, j)
  PROVE  Inside(text, 1, 0) = SubSeq(text, i + 1, j - 1)
<1>1. Begin(text) = i /\ End(text) = j
  BY OnlyOnes
<1>2. i \in Nat \ {0} /\ j \in Nat \ {0}
  OBVIOUS
<1>3. Inside(text, 1, 0) = IF i + 1 >= j - 0 THEN <<>> ELSE SubSeq(text, i + 1, j - 0 - 1)
  BY <1>1, <1>2 DEF Inside
<1>4. j - 0 = j /\ j - 0 - 1 = j - 1
  BY <1>2
<1>5. CASE i + 1 >= j
  <2>1. i + 1 \in Int /\ j - 1 \in Int /\ j - 1 < i + 1
    BY <1>2, <1>5
  <2>2. SubSeq(text, i + 1, j - 1) = <<>>
    BY <2>1, SubSeqEmpty
  <2> QED
    BY <1>3, <1>4, <1>5, <2>2
<1>6. CASE ~(i + 1 >= j)
  BY <1>3, <1>4, <1>6
<1> QED
  BY <1>5, <1>6

\* A port is two bytes: no sum of two passes the type.
LEMMA PortOfBytes ==
  ASSUME NEW high \in 0 .. Max8, NEW low \in 0 .. Max8
  PROVE  /\ high * (Max8 + 1) + low \in 0 .. Max16
         /\ (high * (Max8 + 1) + low) % (Max16 + 1) = high * (Max8 + 1) + low
<1> DEFINE B == Max8 + 1
           x == high * B
           sum == x + low
<1>1. Max8 \in Nat /\ Max16 \in Nat /\ Max16 + 1 = B * B
  BY Widths, WidthsAssumption
<1>2. B \in Nat /\ high \in Nat /\ high <= B - 1 /\ low \in Nat /\ low <= B - 1
  BY <1>1
<1> HIDE DEF B
<1>3. x \in Nat /\ x <= (B - 1) * B
  BY <1>2
<1>4. (B - 1) * B = B * B - B /\ B * B \in Nat
  BY <1>2
<1> DEFINE all == B * B
<1>5. x \in Nat /\ x <= all - B /\ all \in Nat /\ Max16 + 1 = all
  BY <1>1, <1>3, <1>4
<1> HIDE DEF x, all
<1>6. sum \in Nat /\ sum <= Max16
  BY <1>1, <1>2, <1>5
<1> HIDE DEF sum
<1>7. sum % (Max16 + 1) = sum
  BY <1>1, <1>6, Remainder
<1> QED
  BY <1>1, <1>6, <1>7 DEF sum, x, B

\* A decimal is read as the number it was written for, if the type holds it.
LEMMA DecimalRead ==
  ASSUME NEW text, NEW n, IsDecimal(text, n), NEW max \in 0 .. Max64
  PROVE  try_parse_uint(text, max) = IF n <= max THEN n ELSE Refused
<1>1. text \in Seq(Nat) /\ IsNumber(text) /\ Meaning(text) = n
  BY DecimalIsNumber
<1> QED
  BY <1>1, NarrowRead

\* What AnswersAreRead says of an answer to PASV and its result
PasvStands(fields, result) ==
    /\ Len(fields) # 6 => result.port = Refused
    /\ Len(fields) = 6 /\ ToSet(fields) \subseteq 0 .. Max8 =>
          /\ result.port = fields[5] * (Max8 + 1) + fields[6]
          /\ split_string(result.ip, Dot) = [n \in 1 .. 4 |-> to_string(fields[n])]

\* The address and the port of an answer to PASV with six fields of a byte each
LEMMA PasvRead ==
  ASSUME NEW text \in Seq(Nat), NEW fields \in Seq(Nat), NEW i \in DOMAIN text, NEW j \in DOMAIN text,
         IsPasvAnswer(fields, text, i, j), OnlyAt(text, i, j)
  PROVE  PasvStands(fields, try_parse_pasv_reply(text))
<1> DEFINE token == split_string(Inside(text, 1, 0), Comma)
           high == try_parse_uint(token[5], Max16)
           low == try_parse_uint(token[6], Max16)
           ip == token[1] \o <<Dot>> \o token[2] \o <<Dot>> \o token[3] \o <<Dot>> \o token[4]
           reply == try_parse_pasv_reply(text)
           sum == (high * (Max8 + 1) + low) % (Max16 + 1)
<1>1. Inside(text, 1, 0) = Separated(Decimals(fields), Comma)
  BY InsideIs DEF IsPasvAnswer
<1>2. token = Decimals(fields)
  <2>1. Comma \in Nat \ 0 .. 9
    BY DEF Comma
  <2> QED
    BY <1>1, <2>1, DecimalsSplit
<1>3. /\ Len(token) = Len(fields)
      /\ \A n \in 1 .. Len(fields) : token[n] = to_string(fields[n]) /\ IsDecimal(token[n], fields[n])
  <2> HIDE DEF token
  <2> QED
    BY <1>1, <1>2, DecimalsAre
<1>4. reply = IF Len(token) # 6 \/ high = Refused \/ low = Refused
              THEN [ip |-> <<>>, port |-> Refused] ELSE [ip |-> ip, port |-> sum]
  BY DEF try_parse_pasv_reply
<1> HIDE DEF token, high, low, ip, reply, sum
<1>5. ASSUME Len(fields) # 6 PROVE reply.port = Refused
  BY <1>3, <1>4, <1>5
<1>6. ASSUME Len(fields) = 6 /\ ToSet(fields) \subseteq 0 .. Max8
      PROVE  /\ reply.port = fields[5] * (Max8 + 1) + fields[6]
             /\ split_string(reply.ip, Dot) = [n \in 1 .. 4 |-> to_string(fields[n])]
  <2>1. \A n \in 1 .. 6 : fields[n] \in 0 .. Max8
    <3>1. DOMAIN fields = 1 .. 6
      BY <1>1, <1>6
    <3> QED
      BY <1>6, <3>1 DEF ToSet
  <2>2. Max16 \in 0 .. Max64 /\ \A n \in 0 .. Max8 : n <= Max16 /\ n # Refused /\ n \in Nat
    <3>1. Max16 \in 0 .. Max64 /\ Max8 \in Nat /\ Max16 \in Nat /\ Max16 + 1 = (Max8 + 1) * (Max8 + 1)
      BY Limits, Widths, WidthsAssumption
    <3> DEFINE p == Max8 * (Max8 + 1)
    <3>2. p \in Nat /\ Max16 + 1 = p + Max8 + 1
      BY <3>1
    <3> HIDE DEF p
    <3>3. Max8 <= Max16
      BY <3>1, <3>2
    <3> QED
      BY <3>1, <3>3 DEF Refused
  <2>3. high = fields[5] /\ low = fields[6]
    <3>1. /\ 5 \in 1 .. 6 /\ 6 \in 1 .. 6 /\ IsDecimal(token[5], fields[5]) /\ IsDecimal(token[6], fields[6])
      BY <1>3, <1>6
    <3> QED
      BY <2>1, <2>2, <3>1, DecimalRead DEF high, low
  <2>4. sum = fields[5] * (Max8 + 1) + fields[6]
    <3>1. fields[5] \in 0 .. Max8 /\ fields[6] \in 0 .. Max8
      BY <2>1
    <3>2. (fields[5] * (Max8 + 1) + fields[6]) % (Max16 + 1) = fields[5] * (Max8 + 1) + fields[6]
      BY <3>1, PortOfBytes, Zenon
    <3> QED
      BY <2>3, <3>2, Zenon DEF sum
  <2>5. reply = [ip |-> ip, port |-> sum]
    <3>1. fields[5] # Refused /\ fields[6] # Refused
      BY <2>1, <2>2
    <3> QED
      BY <1>3, <1>4, <1>6, <2>3, <3>1
  <2> DEFINE a == token[1]
             b == token[2]
             c == token[3]
             d == token[4]
  <2>6. ASSUME NEW n \in 1 .. 6 PROVE token[n] \in Seq(Nat) /\ token[n] # <<>> /\ Lacks(token[n], Dot)
    <3>1. IsDecimal(token[n], fields[n])
      BY <1>3, <1>6
    <3>2. token[n] \in Seq(Nat) /\ token[n] # <<>> /\ \A q \in 1 .. Len(token[n]) : token[n][q] \in 0 .. 9
      BY <3>1, DecimalIsNumber
    <3>3. \A q \in 1 .. Len(token[n]) : token[n][q] # Dot
      <4>1. Dot \notin 0 .. 9
        BY DEF Dot
      <4> QED
        BY <3>2, <4>1, Zenon
    <3> QED
      BY <3>2, <3>3, Zenon DEF Lacks
  <2>7. /\ a \in Seq(Nat) /\ b \in Seq(Nat) /\ c \in Seq(Nat) /\ d \in Seq(Nat) /\ d # <<>>
        /\ Lacks(a, Dot) /\ Lacks(b, Dot) /\ Lacks(c, Dot) /\ Lacks(d, Dot)
    BY <2>6
  <2>8. ip = a \o <<Dot>> \o b \o <<Dot>> \o c \o <<Dot>> \o d
    BY DEF ip
  <2> HIDE DEF a, b, c, d
  <2>9. split_string(ip, Dot) = <<a, b, c, d>>
    <3>1. Dot \in Nat
      BY DEF Dot
    <3>2. SplitsInFour(a, b, c, d, Dot)
      BY <2>7, <3>1, FourSplit
    <3> QED
      BY <2>8, <3>2, Zenon DEF SplitsInFour
  <2>10. <<a, b, c, d>> = [n \in 1 .. 4 |-> to_string(fields[n])]
    <3>1. a = to_string(fields[1]) /\ b = to_string(fields[2]) /\ c = to_string(fields[3]) /\ d = to_string(fields[4])
      BY <1>3, <1>6 DEF a, b, c, d
    <3> QED
      BY <3>1
  <2> QED
    BY <1>6, <2>4, <2>5, <2>9, <2>10
<1> HIDE DEF reply
<1>7. PasvStands(fields, reply)
  BY <1>5, <1>6 DEF PasvStands
<1> QED
  BY <1>7 DEF reply

--------------------------------------------------------------------------------
(* The argument of EPRT                                                    *)

\* EPRT's argument, part by part with the bar after each
LEMMA EprtGrouped ==
  ASSUME NEW a \in Seq(Nat), NEW p \in Nat, NEW c \in Seq(Nat), NEW d \in Seq(Nat)
  PROVE  <<Bar, p, Bar>> \o c \o <<Bar>> \o d \o <<Bar>>
            = ((<<Bar>> \o (<<p>> \o <<Bar>>)) \o (c \o <<Bar>>)) \o (d \o <<Bar>>)
<1> DEFINE e == <<Bar>>
           b == <<p>>
           begin == <<Bar, p, Bar>>
<1>1. e \in Seq(Nat) /\ b \in Seq(Nat) /\ begin \in Seq(Nat)
  BY DEF Bar
<1>2. begin = e \o (b \o e)
  BY DEF Bar
<1> HIDE DEF e, b, begin
<1>3. Cat(begin, c) \in Seq(Nat) /\ Cat(Cat(begin, c), e) \in Seq(Nat)
  BY <1>1, Associative
<1>4. Cat(begin, Cat(c, e)) = Cat(Cat(begin, c), e)
  BY <1>1, Associative
<1>5. Cat(Cat(Cat(begin, c), e), Cat(d, e)) = Cat(Cat(Cat(Cat(begin, c), e), d), e)
  BY <1>1, <1>3, Associative
<1>6. Cat(Cat(Cat(Cat(begin, c), e), d), e) = Cat(Cat(begin, Cat(c, e)), Cat(d, e))
  BY <1>4, <1>5
<1>7. begin \o c \o e \o d \o e = (begin \o (c \o e)) \o (d \o e)
  BY <1>6, Zenon DEF Cat
<1> QED
  BY <1>2, <1>7, Zenon DEF e, b, begin

IsEndpoint6(endpoint) ==
    /\ endpoint.port \in Nat
    /\ endpoint.protocol \in Nat \ {Bar}
    /\ endpoint.address \in Seq(Nat \ {Bar})

\* Split at its bars, EPRT's argument names the endpoint.
LEMMA EprtRead ==
  ASSUME NEW endpoint, IsEndpoint6(endpoint)
  PROVE  split_string(make_eprt_command(endpoint), Bar) =
            <<<<>>, <<endpoint.protocol>>, endpoint.address, to_string(endpoint.port)>>
<1> DEFINE n == <<>>
           p == <<endpoint.protocol>>
           c == endpoint.address
           d == to_string(endpoint.port)
           e == <<Bar>>
           raw == <<n, p, c, d>>
           lines == <<e, p \o e, c \o e, d \o e>>
<1>1. n \in Seq(Nat) /\ p \in Seq(Nat) /\ e \in Seq(Nat) /\ Bar \in Nat /\ endpoint.protocol \in Nat
  BY DEF IsEndpoint6, Bar
<1>2. c \in Seq(Nat) /\ Lacks(c, Bar)
  <2>1. c \in Seq(Nat \ {Bar})
    BY DEF IsEndpoint6
  <2> HIDE DEF c
  <2>2. Len(c) \in Nat /\ \A q \in 1 .. Len(c) : c[q] \in Nat \ {Bar}
    BY <2>1, ElementOfSeq
  <2>3. c \in Seq(Nat)
    BY <2>1, <2>2
  <2> QED
    BY <2>2, <2>3 DEF Lacks
<1>3. d \in Seq(Nat) /\ Lacks(d, Bar)
  <2>1. IsDecimal(d, endpoint.port)
    BY Decimal DEF IsEndpoint6
  <2> HIDE DEF d
  <2>2. d \in Seq(Nat) /\ \A q \in 1 .. Len(d) : d[q] \in 0 .. 9
    BY <2>1, DecimalIsNumber
  <2>3. Bar \notin 0 .. 9
    BY DEF Bar
  <2> QED
    BY <2>2, <2>3, Zenon DEF Lacks
<1>4. Lacks(n, Bar) /\ Lacks(p, Bar) /\ n \o e = e
  <2>1. Lacks(n, Bar)
    BY DEF Lacks
  <2>2. Lacks(p, Bar)
    <3>1. endpoint.protocol # Bar /\ Len(p) = 1 /\ p[1] = endpoint.protocol
      BY DEF IsEndpoint6
    <3> HIDE DEF p
    <3> QED
      BY <3>1 DEF Lacks
  <2>3. n \o e = e
    BY <1>1
  <2> QED
    BY <2>1, <2>2, <2>3
<1> HIDE DEF n, p, c, d
<1>5. /\ WithEnd(n \o e, n, Bar) /\ n \o e \in Seq(Nat) /\ Len(n \o e) # Len(n)
      /\ WithEnd(p \o e, p, Bar) /\ p \o e \in Seq(Nat) /\ Len(p \o e) # Len(p)
      /\ WithEnd(c \o e, c, Bar) /\ c \o e \in Seq(Nat) /\ Len(c \o e) # Len(c)
      /\ WithEnd(d \o e, d, Bar) /\ d \o e \in Seq(Nat)
  BY <1>1, <1>2, <1>3, <1>4, Ended
<1> HIDE DEF e
<1>6. raw \in Seq(Seq(Nat)) /\ lines \in Seq(Seq(Nat))
      /\ FlattenSeq(lines) = ((e \o (p \o e)) \o (c \o e)) \o (d \o e)
  <2>1. raw \in Seq(Seq(Nat))
    BY <1>1, <1>2, <1>3, FlattenFour, Zenon
  <2> DEFINE x == p \o e
             y == c \o e
             z == d \o e
  <2>2. x \in Seq(Nat) /\ y \in Seq(Nat) /\ z \in Seq(Nat) /\ lines = <<e, x, y, z>>
    BY <1>5
  <2> HIDE DEF x, y, z, lines
  <2>3. /\ FlattenSeq(<<e, x, y, z>>) = ((e \o x) \o y) \o z
        /\ <<e, x, y, z>> \in Seq(Seq(Nat))
    BY <1>1, <2>2, FlattenFour, Zenon
  <2>4. FlattenSeq(lines) = ((e \o x) \o y) \o z /\ lines \in Seq(Seq(Nat))
    BY <2>2, <2>3, Zenon
  <2> QED
    BY <2>1, <2>4 DEF x, y, z
<1>7. Len(raw) = 4 /\ Len(lines) = 4
  OBVIOUS
<1>8. \A i \in 1 .. 4 : WithEnd(lines[i], raw[i], Bar) /\ (Len(lines[i]) = Len(raw[i]) => i = 4)
  <2> TAKE i \in 1 .. 4
  <2>1. i = 1 \/ i = 2 \/ i = 3 \/ i = 4
    OBVIOUS
  <2>2. /\ lines[1] = e /\ lines[2] = p \o e /\ lines[3] = c \o e /\ lines[4] = d \o e
        /\ raw[1] = n /\ raw[2] = p /\ raw[3] = c /\ raw[4] = d
    OBVIOUS
  <2> HIDE DEF lines, raw
  <2> QED
    BY <1>4, <1>5, <2>1, <2>2
<1> HIDE DEF raw, lines
<1>9. Delimited(lines, raw, Bar)
  BY <1>6, <1>7, <1>8 DEF Delimited
<1>10. split_string(FlattenSeq(lines), Bar) = raw
  BY <1>9, SplitParts
<1>11. make_eprt_command(endpoint) = FlattenSeq(lines)
  <2>1. make_eprt_command(endpoint) = <<Bar, endpoint.protocol, Bar>> \o c \o <<Bar>> \o d \o <<Bar>>
    BY Zenon DEF make_eprt_command, c, d
  <2>2. make_eprt_command(endpoint) = ((<<Bar>> \o (<<endpoint.protocol>> \o <<Bar>>)) \o (c \o <<Bar>>)) \o (d \o <<Bar>>)
    BY <1>1, <1>2, <1>3, <2>1, EprtGrouped
  <2> QED
    BY <1>6, <2>2, Zenon DEF e, p
<1> QED
  BY <1>10, <1>11 DEF raw, n, p, c, d

--------------------------------------------------------------------------------
(* The argument of PORT                                                    *)

\* Each part with del after it
EachEnded(parts, del) == [i \in 1 .. Len(parts) |-> parts[i] \o <<del>>]

LEMMA AppendTexts ==
  ASSUME NEW parts \in Seq(Seq(Nat)), NEW a \in Seq(Nat)
  PROVE  /\ Append(parts, a) \in Seq(Seq(Nat)) /\ Len(Append(parts, a)) = Len(parts) + 1
         /\ \A i \in 1 .. Len(parts) : Append(parts, a)[i] = parts[i]
         /\ Append(parts, a)[Len(parts) + 1] = a /\ Len(parts) \in Nat
<1> DEFINE S == Seq(Nat)
<1>1. parts \in Seq(S) /\ a \in S
  OBVIOUS
<1> HIDE DEF S
<1>2. /\ Append(parts, a) \in Seq(S) /\ Len(Append(parts, a)) = Len(parts) + 1
      /\ \A i \in 1 .. Len(parts) : Append(parts, a)[i] = parts[i]
      /\ Append(parts, a)[Len(parts) + 1] = a /\ Len(parts) \in Nat
  BY <1>1, AppendProperties
<1> QED
  BY <1>2 DEF S

LEMMA SameTexts ==
  ASSUME NEW s \in Seq(Seq(Nat)), NEW t \in Seq(Seq(Nat)), Len(s) = Len(t),
         \A i \in 1 .. Len(s) : s[i] = t[i]
  PROVE  s = t
<1> DEFINE S == Seq(Nat)
<1>1. s \in Seq(S) /\ t \in Seq(S)
  OBVIOUS
<1> HIDE DEF S
<1> QED
  BY <1>1, SeqEqual

LEMMA EachEndedType ==
  ASSUME NEW del \in Nat, NEW parts \in Seq(Seq(Nat))
  PROVE  /\ EachEnded(parts, del) \in Seq(Seq(Nat)) /\ Len(EachEnded(parts, del)) = Len(parts)
         /\ \A i \in 1 .. Len(parts) : EachEnded(parts, del)[i] = parts[i] \o <<del>>
<1> DEFINE n == Len(parts)
           e == EachEnded(parts, del)
           d == <<del>>
<1>1. n \in Nat /\ \A i \in 1 .. n : parts[i] \in Seq(Nat)
  BY Texts
<1>2. d \in Seq(Nat)
  OBVIOUS
<1>3. DOMAIN e = 1 .. n /\ e = [i \in 1 .. n |-> e[i]] /\ \A i \in 1 .. n : e[i] = parts[i] \o d
  BY DEF EachEnded
<1> HIDE DEF n, e, d
<1>4. \A i \in 1 .. n : e[i] \in Seq(Nat)
  <2> TAKE i \in 1 .. n
  <2>1. parts[i] \in Seq(Nat)
    BY <1>1
  <2>2. parts[i] \o d \in Seq(Nat)
    BY <1>2, <2>1
  <2> QED
    BY <1>3, <2>2
<1>5. e \in Seq(Seq(Nat)) /\ Len(e) = n
  BY <1>1, <1>3, <1>4, TextsMade
<1> QED
  BY <1>3, <1>5 DEF n, e, d

LEMMA SeparatedLast ==
  ASSUME NEW del \in Nat, NEW parts \in Seq(Seq(Nat)), NEW a \in Seq(Nat)
  PROVE  /\ EachEnded(Append(parts, a), del) = Append(EachEnded(parts, del), a \o <<del>>)
         /\ Separated(Append(parts, a), del) = FlattenSeq(EachEnded(parts, del)) \o a
<1> DEFINE n == Len(parts)
           all == Append(parts, a)
           e == EachEnded(parts, del)
           d == <<del>>
<1>1. all \in Seq(Seq(Nat)) /\ Len(all) = n + 1 /\ (\A i \in 1 .. n : all[i] = parts[i]) /\ all[n + 1] = a /\ n \in Nat
  BY AppendTexts
<1>2. DOMAIN all = 1 .. n + 1
  <2> HIDE DEF all
  <2> QED
    BY <1>1
<1>3. e \in Seq(Seq(Nat)) /\ Len(e) = n /\ \A i \in 1 .. n : e[i] = parts[i] \o d
  BY EachEndedType
<1>4. d \in Seq(Nat) /\ a \o d \in Seq(Nat) /\ a \o <<>> = a
  <2>1. d \in Seq(Nat)
    OBVIOUS
  <2> HIDE DEF d
  <2> QED
    BY <2>1
<1>5. EachEnded(all, del) = Append(e, a \o d)
  <2> DEFINE l == EachEnded(all, del)
             r == Append(e, a \o d)
  <2>1. l \in Seq(Seq(Nat)) /\ Len(l) = n + 1 /\ \A i \in 1 .. n + 1 : l[i] = all[i] \o d
    <3> HIDE DEF all
    <3> QED
      BY <1>1, EachEndedType
  <2>2. r \in Seq(Seq(Nat)) /\ Len(r) = n + 1 /\ (\A i \in 1 .. n : r[i] = e[i]) /\ r[n + 1] = a \o d
    <3>1. e \in Seq(Seq(Nat)) /\ a \o d \in Seq(Nat) /\ Len(e) = n
      BY <1>3, <1>4, Zenon
    <3> HIDE DEF e, d, n
    <3> QED
      BY <3>1, AppendTexts, Zenon
  <2> HIDE DEF l, r, e, d, n, all
  <2>3. \A i \in 1 .. n + 1 : l[i] = r[i]
    <3> TAKE i \in 1 .. n + 1
    <3>1. n \in Nat
      BY <1>1, Zenon
    <3>2. i \in 1 .. n \/ i = n + 1
      BY <3>1
    <3>3. i \in 1 .. n => l[i] = r[i]
      BY <1>1, <1>3, <2>1, <2>2, Zenon
    <3>4. i = n + 1 => l[i] = r[i]
      BY <1>1, <2>1, <2>2, Zenon
    <3> QED
      BY <3>2, <3>3, <3>4, Zenon
  <2>4. l = r
    BY <2>1, <2>2, <2>3, SameTexts
  <2> QED
    BY <2>4 DEF l, r
<1>6. Separated(all, del) = FlattenSeq(Append(e, a))
  <2> DEFINE l == [i \in 1 .. n + 1 |-> all[i] \o Separator(i, n + 1, del)]
             r == Append(e, a)
  <2>1. Separated(all, del) = FlattenSeq(l)
    <3> HIDE DEF all, n
    <3> QED
      BY <1>1, <1>2 DEF Separated, Separator
  <2>2. r \in Seq(Seq(Nat)) /\ Len(r) = n + 1 /\ (\A i \in 1 .. n : r[i] = e[i]) /\ r[n + 1] = a
    <3> HIDE DEF e
    <3> QED
      BY <1>3, AppendTexts
  <2>3. DOMAIN l = 1 .. n + 1 /\ l = [i \in 1 .. n + 1 |-> l[i]]
        /\ \A i \in 1 .. n + 1 : l[i] = all[i] \o Separator(i, n + 1, del)
    OBVIOUS
  <2> HIDE DEF l, r, e, all
  <2>4. \A i \in 1 .. n + 1 : l[i] = r[i]
    <3> TAKE i \in 1 .. n + 1
    <3>1. CASE i = n + 1
      <4>1. Separator(i, n + 1, del) = <<>>
        BY <3>1 DEF Separator
      <4> QED
        BY <1>1, <1>4, <2>2, <2>3, <3>1, <4>1
    <3>2. CASE i # n + 1
      <4>1. Separator(i, n + 1, del) = d /\ i \in 1 .. n
        BY <1>1, <3>2 DEF Separator
      <4> HIDE DEF d, n
      <4> QED
        BY <1>1, <1>3, <2>2, <2>3, <4>1
    <3> QED
      BY <3>1, <3>2
  <2>5. l = r
    <3>1. \A i \in 1 .. n + 1 : l[i] \in Seq(Nat)
      <4> TAKE i \in 1 .. n + 1
      <4>1. r[i] \in Seq(Nat)
        BY <2>2, Texts
      <4> QED
        BY <2>4, <4>1
    <3>2. l \in Seq(Seq(Nat)) /\ Len(l) = n + 1
      <4>1. n + 1 \in Nat
        BY <1>1
      <4> HIDE DEF n
      <4> QED
        BY <2>3, <3>1, <4>1, TextsMade
    <3> QED
      BY <2>2, <2>4, <3>2, SameTexts
  <2> QED
    BY <2>1, <2>5 DEF r
<1>7. FlattenSeq(Append(e, a)) = FlattenSeq(e) \o a
  <2> HIDE DEF e
  <2> QED
    BY <1>3, FlattenOne
<1> QED
  BY <1>5, <1>6, <1>7

\* One part more
LEMMA SeparatedMore ==
  ASSUME NEW del \in Nat, NEW parts \in Seq(Seq(Nat)), NEW a \in Seq(Nat), NEW b \in Seq(Nat)
  PROVE  Separated(Append(Append(parts, a), b), del) = Separated(Append(parts, a), del) \o <<del>> \o b
<1> DEFINE f == FlattenSeq(EachEnded(parts, del))
           d == <<del>>
           all == Append(parts, a)
<1>1. d \in Seq(Nat)
  OBVIOUS
<1>2. EachEnded(parts, del) \in Seq(Seq(Nat))
  BY EachEndedType
<1>3. f \in Seq(Nat)
  BY <1>2, <1>1, FlattenOne
<1>4. EachEnded(all, del) = Append(EachEnded(parts, del), a \o d) /\ Separated(all, del) = f \o a
  BY SeparatedLast
<1>5. a \o d \in Seq(Nat)
  <2> HIDE DEF d
  <2> QED
    BY <1>1
<1>6. FlattenSeq(EachEnded(all, del)) = f \o (a \o d)
  <2> HIDE DEF d, all
  <2> QED
    BY <1>2, <1>4, <1>5, FlattenOne
<1>7. Separated(Append(all, b), del) = FlattenSeq(EachEnded(all, del)) \o b
  <2>1. all \in Seq(Seq(Nat))
    BY AppendTexts
  <2> HIDE DEF all
  <2> QED
    BY <2>1, SeparatedLast
<1> HIDE DEF f, d, all
<1>8. Cat(f, Cat(a, d)) = Cat(Cat(f, a), d)
  BY <1>1, <1>3, Associative
<1>9. f \o (a \o d) = (f \o a) \o d
  BY <1>8, Zenon DEF Cat
<1>10. Separated(Append(all, b), del) = Separated(all, del) \o d \o b
  BY <1>4, <1>6, <1>7, <1>9, Zenon
<1> QED
  BY <1>10 DEF all, d

\* A text with commas for dots, as make_port_command writes an address
Commas(text) == [i \in DOMAIN text |-> IF text[i] = Dot THEN Comma ELSE text[i]]

LEMMA CommasType ==
  ASSUME NEW text \in Seq(Nat)
  PROVE  /\ Commas(text) \in Seq(Nat) /\ Len(Commas(text)) = Len(text)
         /\ \A i \in 1 .. Len(text) : Commas(text)[i] = IF text[i] = Dot THEN Comma ELSE text[i]
<1> DEFINE n == Len(text)
           c == [i \in 1 .. n |-> IF text[i] = Dot THEN Comma ELSE text[i]]
<1>1. n \in Nat /\ DOMAIN text = 1 .. n /\ \A i \in 1 .. n : text[i] \in Nat
  BY ElementOfSeq
<1>2. Commas(text) = c
  BY <1>1 DEF Commas
<1>3. Comma \in Nat
  BY DEF Comma
<1> HIDE DEF n
<1>4. c \in [1 .. n -> Nat]
  BY <1>1, <1>3
<1>5. c \in Seq(Nat) /\ Len(c) = n
  <2> HIDE DEF c
  <2> QED
    BY <1>1, <1>4
<1> QED
  BY <1>1, <1>2, <1>5 DEF n

LEMMA CommasJoined ==
  ASSUME NEW s \in Seq(Nat), NEW t \in Seq(Nat)
  PROVE  Commas(s \o t) = Commas(s) \o Commas(t)
<1> DEFINE w == s \o t
           u == Commas(s)
           v == Commas(t)
           x == u \o v
           y == Commas(w)
           m == Len(s)
           n == Len(t)
           C(ch) == IF ch = Dot THEN Comma ELSE ch
<1>1. w \in Seq(Nat) /\ Len(w) = m + n /\ m \in Nat /\ n \in Nat
  OBVIOUS
<1>2. \A i \in 1 .. m : w[i] = s[i]
  OBVIOUS
<1>3. \A i \in 1 .. m + n : i > m => w[i] = t[i - m]
  BY Joined
<1>4. u \in Seq(Nat) /\ Len(u) = m /\ \A i \in 1 .. m : u[i] = C(s[i])
  BY CommasType
<1>5. v \in Seq(Nat) /\ Len(v) = n /\ \A i \in 1 .. n : v[i] = C(t[i])
  BY CommasType
<1> HIDE DEF w, u, v, m, n
<1>6. x \in Seq(Nat) /\ Len(x) = Len(u) + Len(v)
  <2>1. u \in Seq(Nat) /\ v \in Seq(Nat)
    BY <1>4, <1>5
  <2> QED
    BY <2>1
<1>7. Len(x) = m + n
  BY <1>4, <1>5, <1>6
<1>8. \A i \in 1 .. Len(u) : x[i] = u[i]
  BY <1>4, <1>5
<1>9. \A i \in 1 .. Len(u) + Len(v) : i > Len(u) => x[i] = v[i - Len(u)]
  <2>1. u \in Seq(Nat) /\ v \in Seq(Nat)
    BY <1>4, <1>5, Zenon
  <2>2. ASSUME NEW i \in 1 .. Len(u) + Len(v), i > Len(u) PROVE x[i] = v[i - Len(u)]
    BY <2>1, <2>2, Joined
  <2> QED
    BY <2>2
<1>10. y \in Seq(Nat) /\ Len(y) = m + n /\ \A i \in 1 .. m + n : y[i] = C(w[i])
  BY <1>1, CommasType
<1> HIDE DEF x, y, C
<1>11. \A i \in 1 .. m + n : x[i] = y[i]
  <2> TAKE i \in 1 .. m + n
  <2>1. CASE i \in 1 .. m
    BY <1>2, <1>4, <1>8, <1>10, <2>1
  <2>2. CASE i \notin 1 .. m
    <3>1. i > m /\ i - m \in 1 .. n
      BY <1>1, <2>2
    <3>2. x[i] = v[i - m] /\ w[i] = t[i - m]
      BY <1>3, <1>4, <1>5, <1>9, <3>1
    <3> QED
      BY <1>5, <1>10, <3>1, <3>2
  <2> QED
    BY <2>1, <2>2
<1>12. x = y
  BY <1>1, <1>6, <1>7, <1>10, <1>11, SeqEqual
<1> QED
  BY <1>12 DEF x, y, u, v, w

LEMMA CommasSame ==
  ASSUME NEW text \in Seq(Nat), Lacks(text, Dot)
  PROVE  Commas(text) = text
<1> DEFINE c == Commas(text)
<1>1. c \in Seq(Nat) /\ Len(c) = Len(text)
      /\ \A i \in 1 .. Len(text) : c[i] = IF text[i] = Dot THEN Comma ELSE text[i]
  BY CommasType
<1> HIDE DEF c
<1>2. \A i \in 1 .. Len(text) : c[i] = text[i]
  BY <1>1 DEF Lacks
<1>3. c = text
  BY <1>1, <1>2, SeqEqual
<1> QED
  BY <1>3 DEF c

LEMMA CommasOfDot == Commas(<<Dot>>) = <<Comma>>
BY DEF Commas

\* Commas for dots, in all the parts at once
LEMMA CommasEnded ==
  ASSUME NEW parts \in Seq(Seq(Nat)), \A i \in 1 .. Len(parts) : Lacks(parts[i], Dot)
  PROVE  Commas(FlattenSeq(EachEnded(parts, Dot))) = FlattenSeq(EachEnded(parts, Comma))
<1> DEFINE m == Len(parts)
           dots == EachEnded(parts, Dot)
           commas == EachEnded(parts, Comma)
<1>1. m \in Nat /\ \A i \in 1 .. m : parts[i] \in Seq(Nat) /\ Lacks(parts[i], Dot)
  BY Texts
<1>2. /\ dots \in Seq(Seq(Nat)) /\ Len(dots) = m /\ \A i \in 1 .. m : dots[i] = parts[i] \o <<Dot>>
      /\ commas \in Seq(Seq(Nat)) /\ Len(commas) = m /\ \A i \in 1 .. m : commas[i] = parts[i] \o <<Comma>>
  <2>1. Dot \in Nat /\ Comma \in Nat
    BY DEF Dot, Comma
  <2> QED
    BY <2>1, EachEndedType
<1> HIDE DEF m, dots, commas
<1>3. PICK f : Concatenates(f, Nat, dots)
  BY <1>2, Concatenation
<1>4. PICK g : Concatenates(g, Nat, commas)
  BY <1>2, Concatenation
<1>5. FlattenSeq(dots) = f[m] /\ FlattenSeq(commas) = g[m]
  BY <1>2, <1>3, <1>4, Flattened
<1>6. /\ f \in [0 .. m -> Seq(Nat)] /\ f[0] = <<>> /\ \A i \in 1 .. m : f[i] = f[i - 1] \o dots[i]
      /\ g \in [0 .. m -> Seq(Nat)] /\ g[0] = <<>> /\ \A i \in 1 .. m : g[i] = g[i - 1] \o commas[i]
  BY <1>2, <1>3, <1>4 DEF Concatenates
<1>7. \A i \in 1 .. m : dots[i] \in Seq(Nat) /\ Commas(dots[i]) = commas[i]
  <2> TAKE i \in 1 .. m
  <2> DEFINE d == <<Dot>>
             p == parts[i]
  <2>1. p \in Seq(Nat) /\ d \in Seq(Nat) /\ dots[i] = p \o d /\ commas[i] = p \o <<Comma>>
    <3>1. d \in Seq(Nat)
      BY DEF Dot
    <3> QED
      BY <1>1, <1>2, <3>1
  <2>2. Commas(p) = p /\ Commas(d) = <<Comma>>
    BY <1>1, CommasSame, CommasOfDot
  <2> HIDE DEF p, d
  <2>3. Commas(p \o d) = p \o <<Comma>> /\ p \o d \in Seq(Nat)
    <3>1. Commas(p \o d) = Commas(p) \o Commas(d)
      BY <2>1, CommasJoined
    <3>2. p \o d \in Seq(Nat)
      BY <2>1
    <3> QED
      BY <2>2, <3>1, <3>2
  <2> QED
    BY <2>1, <2>3
<1> DEFINE T == {i \in Nat : i <= m => Commas(f[i]) = g[i]}
<1>8. 0 \in T
  <2>1. Commas(<<>>) = <<>>
    BY DEF Commas
  <2> QED
    BY <1>6, <2>1
<1>9. \A i \in T : i + 1 \in T
  <2> TAKE i \in T
  <2> SUFFICES ASSUME i \in Nat, i + 1 <= m PROVE Commas(f[i + 1]) = g[i + 1]
    OBVIOUS
  <2>1. i + 1 \in 1 .. m /\ (i + 1) - 1 = i /\ i \in 0 .. m
    BY <1>1
  <2>2. Commas(f[i]) = g[i]
    BY <2>1
  <2> HIDE DEF T
  <2> DEFINE s == f[i]
             t == dots[i + 1]
  <2>3. s \in Seq(Nat) /\ t \in Seq(Nat) /\ f[i + 1] = s \o t /\ g[i + 1] = g[i] \o commas[i + 1]
    BY <1>6, <1>7, <2>1
  <2>4. Commas(t) = commas[i + 1]
    BY <1>7, <2>1
  <2> HIDE DEF s, t
  <2>5. Commas(s \o t) = Commas(s) \o Commas(t)
    BY <2>3, CommasJoined
  <2> QED
    BY <2>2, <2>3, <2>4, <2>5 DEF s
<1>10. T = Nat
  <2>1. T \subseteq Nat
    OBVIOUS
  <2> HIDE DEF T
  <2> QED
    BY <1>8, <1>9, <2>1, Induction
<1>11. Commas(f[m]) = g[m]
  <2>1. \A i \in T : i <= m => Commas(f[i]) = g[i]
    OBVIOUS
  <2>2. m \in T /\ m <= m
    <3> HIDE DEF T
    <3> QED
      BY <1>1, <1>10
  <2> QED
    BY <2>1, <2>2, Zenon
<1> QED
  BY <1>5, <1>11 DEF dots, commas

LEMMA CommasSeparated ==
  ASSUME NEW parts \in Seq(Seq(Nat)), NEW a \in Seq(Nat),
         \A i \in 1 .. Len(parts) : Lacks(parts[i], Dot), Lacks(a, Dot)
  PROVE  Commas(Separated(Append(parts, a), Dot)) = Separated(Append(parts, a), Comma)
<1> DEFINE f == FlattenSeq(EachEnded(parts, Dot))
           g == FlattenSeq(EachEnded(parts, Comma))
<1>1. Dot \in Nat /\ Comma \in Nat
  BY DEF Dot, Comma
<1>2. Separated(Append(parts, a), Dot) = f \o a /\ Separated(Append(parts, a), Comma) = g \o a
  BY <1>1, SeparatedLast
<1>3. Commas(f) = g
  BY CommasEnded
<1>4. f \in Seq(Nat)
  BY <1>1, EachEndedType, FlattenOne
<1>5. Commas(a) = a
  BY CommasSame
<1> HIDE DEF f, g
<1>6. Commas(f \o a) = Commas(f) \o Commas(a)
  BY <1>4, CommasJoined
<1> QED
  BY <1>2, <1>3, <1>5, <1>6

\* The two bytes of a port
LEMMA HalvesAre ==
  ASSUME NEW port \in 0 .. Max16
  PROVE  LET q == Halves(port)[1]
             r == Halves(port)[2]
         IN  q \in 0 .. Max8 /\ r \in 0 .. Max8 /\ q * (Max8 + 1) + r = port
<1> DEFINE B == Max8 + 1
           q == port \div B
           r == port % B
           all == B * B
           x == q * B
<1>1. Max8 \in Nat /\ Max16 \in Nat /\ Max16 + 1 = all
  BY Widths, WidthsAssumption
<1>2. B \in Nat /\ B > 0 /\ port \in Nat /\ port <= Max16
  BY <1>1
<1>3. Halves(port) = <<q, r>>
  BY DEF Halves
<1> HIDE DEF B
<1>4. q \in Nat /\ r \in 0 .. B - 1 /\ port = x + r
  <2>1. r \in 0 .. B - 1
    BY <1>2
  <2>2. port = B * q + r /\ q \in Int
    BY <1>2
  <2>3. q \in Nat
    BY <1>2
  <2>4. B * q = x
    BY <1>2, <2>3
  <2> HIDE DEF q, r, x
  <2> QED
    BY <2>1, <2>2, <2>3, <2>4
<1> HIDE DEF q, r
<1>5. x \in Nat /\ (q >= B => x >= all)
  BY <1>2, <1>4
<1> HIDE DEF x, all
<1>6. q < B
  BY <1>1, <1>2, <1>4, <1>5
<1>7. q \in 0 .. Max8 /\ r \in 0 .. Max8
  BY <1>1, <1>2, <1>4, <1>6 DEF B
<1> QED
  BY <1>3, <1>4, <1>7 DEF x, B

LEMMA DecimalsMore ==
  ASSUME NEW numbers \in Seq(Nat), NEW n \in Nat
  PROVE  Decimals(Append(numbers, n)) = Append(Decimals(numbers), to_string(n))
<1> DEFINE more == Append(numbers, n)
           d == Decimals(numbers)
           l == Decimals(more)
           r == Append(d, to_string(n))
           m == Len(numbers)
<1>1. more \in Seq(Nat) /\ Len(more) = m + 1 /\ (\A i \in 1 .. m : more[i] = numbers[i]) /\ more[m + 1] = n /\ m \in Nat
  OBVIOUS
<1>2. to_string(n) \in Seq(Nat)
  BY Decimal, DecimalIsNumber
<1>3. d \in Seq(Seq(Nat)) /\ Len(d) = m /\ \A i \in 1 .. m : d[i] = to_string(numbers[i])
  BY DecimalsAre
<1> HIDE DEF more, d, m
<1>4. l \in Seq(Seq(Nat)) /\ Len(l) = m + 1 /\ \A i \in 1 .. m + 1 : l[i] = to_string(more[i])
  BY <1>1, DecimalsAre
<1>5. r \in Seq(Seq(Nat)) /\ Len(r) = m + 1 /\ (\A i \in 1 .. m : r[i] = d[i]) /\ r[m + 1] = to_string(n)
  BY <1>2, <1>3, AppendTexts
<1> HIDE DEF l, r
<1>6. \A i \in 1 .. m + 1 : l[i] = r[i]
  <2> TAKE i \in 1 .. m + 1
  <2>1. i \in 1 .. m \/ i = m + 1
    BY <1>1
  <2> QED
    BY <1>1, <1>3, <1>4, <1>5, <2>1
<1>7. l = r
  BY <1>4, <1>5, <1>6, SameTexts
<1> QED
  BY <1>7 DEF l, r, d, more

\* The endpoint of an IPv4 address with four octets
IsEndpoint4(endpoint, octets) ==
    /\ octets \in Seq(0 .. Max8) /\ Len(octets) = 4
    /\ endpoint.port \in 0 .. Max16
    /\ endpoint.address = Separated(Decimals(octets), Dot)

\* What field is, of PORT's argument
NamesEndpoint(field, endpoint) ==
    /\ Len(field) = 6
    /\ SubSeq(field, 1, 4) = split_string(endpoint.address, Dot)
    /\ Meaning(field[5]) <= Max8 /\ Meaning(field[6]) <= Max8
    /\ Meaning(field[5]) * (Max8 + 1) + Meaning(field[6]) = endpoint.port

\* PORT's argument is six decimals, with commas between them.
LEMMA PortWritten ==
  ASSUME NEW endpoint, NEW octets, IsEndpoint4(endpoint, octets)
  PROVE  make_port_command(endpoint)
            = Separated(Decimals(Append(Append(octets, Halves(endpoint.port)[1]), Halves(endpoint.port)[2])), Comma)
         /\ octets \in Seq(Nat)
<1> DEFINE q == Halves(endpoint.port)[1]
           r == Halves(endpoint.port)[2]
           front == Front(octets)
           last == Last(octets)
           five == Append(octets, q)
           d == Decimals(front)
           a == to_string(last)
           h == to_string(q)
           l == to_string(r)
<1>1. q \in Nat /\ r \in Nat
  <2>1. q \in 0 .. Max8 /\ r \in 0 .. Max8 /\ Max8 \in Nat
    BY HalvesAre, Widths DEF IsEndpoint4
  <2> HIDE DEF q, r
  <2> QED
    BY <2>1
<1>2. octets \in Seq(Nat) /\ Len(octets) = 4 /\ octets # <<>>
  <2>1. octets \in Seq(0 .. Max8) /\ Len(octets) = 4 /\ Max8 \in Nat
    BY Widths DEF IsEndpoint4
  <2>2. \A i \in 1 .. Len(octets) : octets[i] \in 0 .. Max8
    BY <2>1, ElementOfSeq
  <2>3. octets \in Seq(Nat)
    BY <2>1, <2>2
  <2>4. octets # <<>>
    BY <2>1
  <2> QED
    BY <2>1, <2>3, <2>4, Zenon
<1>3. front \in Seq(Nat) /\ last \in Nat /\ octets = Append(front, last)
  <2> DEFINE s == Append(front, last)
  <2>1. front \in Seq(Nat) /\ last \in Nat /\ last = octets[4]
    BY <1>2, Ends
  <2>2. s \in Seq(Nat) /\ Len(s) = 4 /\ (\A i \in 1 .. 4 - 1 : s[i] = octets[i]) /\ s[4] = last
    <3> HIDE DEF last
    <3>1. /\ s \in Seq(Nat) /\ Len(s) = Len(octets) /\ (\A i \in 1 .. Len(octets) - 1 : s[i] = octets[i])
          /\ s[Len(octets)] = last
      <4>1. octets \in Seq(Nat) /\ octets # <<>> /\ last \in Nat
        BY <1>2, <2>1
      <4>2. s \in Seq(Nat) /\ Len(s) = Len(octets)
        BY <4>1, LastReplaced, Zenon
      <4>3. ASSUME NEW i \in 1 .. Len(octets) - 1 PROVE s[i] = octets[i]
        BY <4>1, LastReplaced
      <4>4. s[Len(octets)] = last
        BY <4>1, LastReplaced, Zenon
      <4> QED
        BY <4>2, <4>3, <4>4, Zenon
    <3> HIDE DEF s
    <3> QED
      BY <1>2, <3>1, Zenon
  <2> HIDE DEF s, front, last
  <2>3. \A i \in 1 .. 4 : s[i] = octets[i]
    <3> TAKE i \in 1 .. 4
    <3>1. i \in 1 .. 4 - 1 \/ i = 4
      OBVIOUS
    <3> QED
      BY <2>1, <2>2, <3>1
  <2>4. s = octets
    BY <1>2, <2>2, <2>3, SeqEqual
  <2> QED
    BY <2>1, <2>4 DEF s
<1> HIDE DEF q, r, front, last
<1>4. /\ d \in Seq(Seq(Nat)) /\ a \in Seq(Nat) /\ h \in Seq(Nat) /\ l \in Seq(Nat)
      /\ (\A i \in 1 .. Len(d) : Lacks(d[i], Dot)) /\ Lacks(a, Dot)
  <2>1. ASSUME NEW t, NEW n, IsDecimal(t, n) PROVE t \in Seq(Nat) /\ Lacks(t, Dot)
    <3>1. t \in Seq(Nat) /\ \A i \in 1 .. Len(t) : t[i] \in 0 .. 9
      BY <2>1, DecimalIsNumber
    <3>2. Dot \notin 0 .. 9
      BY DEF Dot
    <3> QED
      BY <3>1, <3>2, Zenon DEF Lacks
  <2>2. IsDecimal(a, last) /\ IsDecimal(h, q) /\ IsDecimal(l, r)
    BY <1>1, <1>3, Decimal
  <2>3. d \in Seq(Seq(Nat)) /\ \A i \in 1 .. Len(d) : IsDecimal(d[i], front[i])
    <3> HIDE DEF d
    <3> QED
      BY <1>3, DecimalsAre DEF d
  <2> QED
    BY <2>1, <2>2, <2>3
<1>5. five \in Seq(Nat)
  BY <1>1, <1>2
<1>6. Decimals(octets) = Append(d, a)
  BY <1>3, DecimalsMore
<1>7. Decimals(five) = Append(Append(d, a), h)
  BY <1>1, <1>2, <1>6, DecimalsMore
<1>8. Decimals(Append(five, r)) = Append(Append(Append(d, a), h), l)
  <2> HIDE DEF five
  <2> QED
    BY <1>1, <1>5, <1>7, DecimalsMore
<1> DEFINE da == Append(d, a)
           c == <<Comma>>
<1> HIDE DEF d, a, h, l
<1>9. Separated(Append(da, h), Comma) = Separated(da, Comma) \o c \o h
  <2>1. Comma \in Nat
    BY DEF Comma
  <2> QED
    BY <1>4, <2>1, SeparatedMore
<1>10. Separated(Append(Append(da, h), l), Comma) = Separated(Append(da, h), Comma) \o c \o l
  <2>1. Comma \in Nat /\ da \in Seq(Seq(Nat))
    BY <1>4, AppendTexts DEF Comma
  <2> HIDE DEF da
  <2> QED
    BY <1>4, <2>1, SeparatedMore
<1>11. Commas(endpoint.address) = Separated(da, Comma)
  <2>1. endpoint.address = Separated(da, Dot)
    BY <1>6 DEF IsEndpoint4
  <2> QED
    BY <1>4, <2>1, CommasSeparated
<1>12. make_port_command(endpoint) = Commas(endpoint.address) \o <<Comma>> \o h \o <<Comma>> \o l
  BY Zenon DEF make_port_command, Commas, h, l, q, r
<1>13. make_port_command(endpoint) = Separated(Decimals(Append(five, r)), Comma)
  BY <1>8, <1>9, <1>10, <1>11, <1>12, Zenon
<1> QED
  BY <1>2, <1>13 DEF five, q, r

\* Split at its commas, PORT's argument names the endpoint.
LEMMA PortRead ==
  ASSUME NEW endpoint, NEW octets, IsEndpoint4(endpoint, octets)
  PROVE  NamesEndpoint(split_string(make_port_command(endpoint), Comma), endpoint)
<1> DEFINE q == Halves(endpoint.port)[1]
           r == Halves(endpoint.port)[2]
           five == Append(octets, q)
           six == Append(five, r)
           field == Decimals(six)
           address == Decimals(octets)
<1>1. octets \in Seq(Nat) /\ make_port_command(endpoint) = Separated(field, Comma)
  BY PortWritten
<1>2. Len(octets) = 4 /\ endpoint.address = Separated(address, Dot)
  BY DEF IsEndpoint4
<1>3. q \in 0 .. Max8 /\ r \in 0 .. Max8 /\ q * (Max8 + 1) + r = endpoint.port /\ Max8 \in Nat
  BY HalvesAre, Widths DEF IsEndpoint4
<1> HIDE DEF q, r
<1>4. q \in Nat /\ r \in Nat /\ q <= Max8 /\ r <= Max8
  BY <1>3
<1>5. five \in Seq(Nat) /\ Len(five) = 5 /\ (\A i \in 1 .. 4 : five[i] = octets[i]) /\ five[5] = q
  <2>1. /\ five \in Seq(Nat) /\ Len(five) = Len(octets) + 1
        /\ (\A i \in 1 .. Len(octets) : five[i] = octets[i]) /\ five[Len(octets) + 1] = q
    BY <1>1, <1>4
  <2> HIDE DEF five
  <2> QED
    BY <1>2, <2>1
<1> HIDE DEF five
<1>6. six \in Seq(Nat) /\ Len(six) = 6 /\ (\A i \in 1 .. 5 : six[i] = five[i]) /\ six[6] = r
  <2>1. five \in Seq(Nat) /\ r \in Nat
    BY <1>4, <1>5
  <2>2. /\ six \in Seq(Nat) /\ Len(six) = Len(five) + 1
        /\ (\A i \in 1 .. Len(five) : six[i] = five[i]) /\ six[Len(five) + 1] = r
    BY <2>1
  <2> HIDE DEF six
  <2> QED
    BY <1>5, <2>2
<1> HIDE DEF six
<1>7. /\ field \in Seq(Seq(Nat)) /\ Len(field) = 6
      /\ \A i \in 1 .. 6 : field[i] = to_string(six[i]) /\ IsDecimal(field[i], six[i])
  BY <1>6, DecimalsAre
<1>8. address \in Seq(Seq(Nat)) /\ Len(address) = 4 /\ \A i \in 1 .. 4 : address[i] = to_string(octets[i])
  BY <1>1, <1>2, DecimalsAre
<1>9. split_string(Separated(field, Comma), Comma) = field /\ split_string(endpoint.address, Dot) = address
  <2>1. Comma \in Nat \ 0 .. 9 /\ Dot \in Nat \ 0 .. 9
    BY DEF Comma, Dot
  <2> QED
    BY <1>1, <1>2, <1>6, <2>1, DecimalsSplit
<1> HIDE DEF field, address
<1>10. SubSeq(field, 1, 4) = address
  <2> DEFINE S == Seq(Nat)
             t == SubSeq(field, 1, 4)
  <2>1. field \in Seq(S) /\ Len(field) = 6 /\ address \in Seq(S)
    BY <1>7, <1>8
  <2> HIDE DEF S
  <2>2. t \in Seq(S) /\ Len(t) = 4 /\ \A i \in 1 .. 4 : t[i] = field[i]
    <3>1. 4 \in 0 .. Len(field)
      BY <2>1
    <3> QED
      BY <2>1, <3>1, Cut
  <2> HIDE DEF t
  <2>3. \A i \in 1 .. 4 : t[i] = address[i]
    <3> TAKE i \in 1 .. 4
    <3>1. i \in 1 .. 5 /\ i \in 1 .. 6
      OBVIOUS
    <3> QED
      BY <1>5, <1>6, <1>7, <1>8, <2>2, <3>1
  <2>4. t = address
    BY <1>8, <2>1, <2>2, <2>3, SeqEqual
  <2> QED
    BY <2>4 DEF t
<1>11. Meaning(field[5]) = q /\ Meaning(field[6]) = r
  <2>1. 5 \in 1 .. 6 /\ 6 \in 1 .. 6 /\ 5 \in 1 .. 5
    OBVIOUS
  <2>2. IsDecimal(field[5], six[5]) /\ IsDecimal(field[6], six[6]) /\ six[5] = q /\ six[6] = r
    BY <1>5, <1>6, <1>7, <2>1
  <2> QED
    BY <2>2 DEF IsDecimal
<1> QED
  BY <1>1, <1>3, <1>4, <1>7, <1>9, <1>10, <1>11 DEF NamesEndpoint

--------------------------------------------------------------------------------
(* The answer to MDTM                                                      *)

\* What stands after the code of a reply
LEMMA ValueIs ==
  ASSUME NEW text \in Seq(Nat)
  PROVE  /\ Value(text) \in Seq(Nat)
         /\ Len(Value(text)) = IF Len(text) >= 4 THEN Len(text) - 4 ELSE 0
         /\ \A i \in 1 .. Len(Value(text)) : Value(text)[i] = text[i + 4] /\ text[i + 4] \in Nat
<1> DEFINE n == Len(text)
           val == SubSeq(text, 5, n)
<1>1. n \in Nat /\ \A i \in 1 .. n : text[i] \in Nat
  BY ElementOfSeq
<1> HIDE DEF n
<1>2. \A i \in 5 .. n : text[i] \in Nat
  BY <1>1
<1>3. /\ val \in Seq(Nat) /\ Len(val) = (IF 5 <= n THEN n - 5 + 1 ELSE 0)
      /\ \A i \in 1 .. n - 5 + 1 : val[i] = text[5 + i - 1]
  BY <1>1, <1>2, SubSeqProperties
<1> HIDE DEF val
<1>4. Len(val) = IF n >= 4 THEN n - 4 ELSE 0
  BY <1>1, <1>3
<1>5. \A i \in 1 .. Len(val) : val[i] = text[i + 4] /\ text[i + 4] \in Nat
  <2> TAKE i \in 1 .. Len(val)
  <2>1. i \in 1 .. n - 5 + 1 /\ 5 + i - 1 = i + 4 /\ i + 4 \in 1 .. n
    BY <1>1, <1>4
  <2> QED
    BY <1>1, <1>3, <2>1
<1> QED
  BY <1>3, <1>4, <1>5 DEF val, n, Value

\* t is s and e after it.
Continues(t, s, e) ==
    /\ s \in Seq(Nat) /\ t \in Seq(Nat) /\ e \in Nat
    /\ Len(t) = Len(s) + 1 /\ t[Len(s) + 1] = e
    /\ \A i \in 1 .. Len(s) : t[i] = s[i]

LEMMA AppendMade ==
  ASSUME NEW t, NEW s, NEW e, Continues(t, s, e)
  PROVE  Append(s, e) = t
<1> DEFINE u == Append(s, e)
           n == Len(s)
<1>1. s \in Seq(Nat) /\ t \in Seq(Nat) /\ e \in Nat
  BY DEF Continues
<1>2. u \in Seq(Nat) /\ Len(u) = n + 1 /\ (\A i \in 1 .. n : u[i] = s[i]) /\ u[n + 1] = e /\ n \in Nat
  BY <1>1, AppendProperties
<1> HIDE DEF u, n
<1>3. Len(t) = n + 1 /\ t[n + 1] = e /\ \A i \in 1 .. n : t[i] = s[i]
  BY DEF Continues, n
<1>4. \A i \in 1 .. n + 1 : u[i] = t[i]
  <2> TAKE i \in 1 .. n + 1
  <2>1. i \in 1 .. n \/ i = n + 1
    BY <1>2
  <2> QED
    BY <1>2, <1>3, <2>1
<1>5. u = t
  BY <1>1, <1>2, <1>3, <1>4, SeqEqual
<1> QED
  BY <1>5 DEF u

LEMMA AppendTwo ==
  ASSUME NEW a \in Nat, NEW b \in Nat
  PROVE  Append(<<a>>, b) = <<a, b>>
<1> DEFINE s == <<a>>
           t == <<a, b>>
<1>1. s \in Seq(Nat) /\ Len(s) = 1 /\ s[1] = a /\ t \in Seq(Nat) /\ Len(t) = 2 /\ t[1] = a /\ t[2] = b
  OBVIOUS
<1> HIDE DEF s, t
<1>2. Continues(t, s, b)
  BY <1>1 DEF Continues
<1> QED
  BY <1>2, AppendMade DEF s, t

\* A part of what stands after the code is a part of the reply.
LEMMA ValuePart ==
  ASSUME NEW text \in Seq(Nat), NEW i \in Nat \ {0}, NEW j \in Nat, j <= Len(Value(text))
  PROVE  SubSeq(Value(text), i, j) = SubSeq(text, i + 4, j + 4)
<1> DEFINE val == Value(text)
           n == Len(val)
           s == SubSeq(val, i, j)
           t == SubSeq(text, i + 4, j + 4)
<1>1. /\ val \in Seq(Nat) /\ n \in Nat /\ j <= n
      /\ \A k \in 1 .. n : val[k] = text[k + 4] /\ text[k + 4] \in Nat
  BY ValueIs
<1> HIDE DEF val, n
<1>2. CASE j < i
  <2>1. j + 4 < i + 4 /\ i + 4 \in Int /\ j + 4 \in Int
    BY <1>2
  <2> QED
    BY <1>2, <2>1, SubSeqEmpty DEF val
<1>3. CASE i <= j
  <2>1. \A k \in i .. j : k \in 1 .. n
    BY <1>1
  <2>2. \A k \in i .. j : val[k] \in Nat
    BY <1>1, <2>1
  <2>3. \A k \in i + 4 .. j + 4 : text[k] \in Nat
    <3> TAKE k \in i + 4 .. j + 4
    <3>1. k - 4 \in 1 .. n /\ (k - 4) + 4 = k
      BY <1>1
    <3> QED
      BY <1>1, <3>1
  <2>4. /\ s \in Seq(Nat) /\ Len(s) = j - i + 1
        /\ \A k \in 1 .. j - i + 1 : s[k] = val[i + k - 1]
    BY <1>3, <2>2, SubSeqProperties
  <2>5. /\ t \in Seq(Nat) /\ Len(t) = j - i + 1
        /\ \A k \in 1 .. j - i + 1 : t[k] = text[i + 4 + k - 1]
    <3> DEFINE a == i + 4
               b == j + 4
    <3>1. /\ t \in Seq(Nat) /\ Len(t) = (IF a <= b THEN b - a + 1 ELSE 0)
          /\ \A k \in 1 .. b - a + 1 : t[k] = text[a + k - 1]
      <4>1. a \in Int /\ b \in Int /\ t = SubSeq(text, a, b)
        OBVIOUS
      <4>2. \A k \in a .. b : text[k] \in Nat
        BY <2>3
      <4> HIDE DEF a, b, t
      <4> QED
        BY <4>1, <4>2, SubSeqProperties
    <3>2. (j + 4) - (i + 4) + 1 = j - i + 1 /\ i + 4 <= j + 4
      BY <1>3
    <3> HIDE DEF t
    <3> QED
      BY <3>1, <3>2
  <2>6. \A k \in 1 .. j - i + 1 : s[k] = t[k]
    <3> TAKE k \in 1 .. j - i + 1
    <3>1. i + k - 1 \in 1 .. n /\ (i + k - 1) + 4 = i + 4 + k - 1
      BY <1>1, <1>3
    <3> HIDE DEF s, t
    <3> QED
      BY <1>1, <2>4, <2>5, <3>1
  <2> HIDE DEF s, t
  <2>7. s = t
    BY <2>4, <2>5, <2>6, SeqEqual
  <2> QED
    BY <2>7 DEF s, t, val
<1> QED
  BY <1>2, <1>3

\* A part of a text is a number when its characters are digits.
LEMMA DigitsWithin ==
  ASSUME NEW text \in Seq(Nat), NEW i \in Nat \ {0}, NEW j \in Nat, i <= j, j <= Len(text)
  PROVE  /\ SubSeq(text, i, j) \in Seq(Nat)
         /\ IsNumber(SubSeq(text, i, j)) <=> \A k \in i .. j : text[k] \in Digits
<1> DEFINE s == SubSeq(text, i, j)
<1>1. \A k \in i .. j : text[k] \in Nat
  OBVIOUS
<1>2. s \in Seq(Nat) /\ Len(s) = j - i + 1 /\ \A k \in 1 .. j - i + 1 : s[k] = text[i + k - 1]
  BY <1>1, SubSeqProperties
<1> HIDE DEF s
<1>3. s # <<>> /\ DOMAIN s = 1 .. j - i + 1
  BY <1>2
<1>4. ASSUME IsNumber(s), NEW k \in i .. j PROVE text[k] \in Digits
  <2>1. k - i + 1 \in 1 .. j - i + 1 /\ i + (k - i + 1) - 1 = k
    OBVIOUS
  <2>2. s[k - i + 1] = text[k]
    BY <1>2, <2>1
  <2>3. s[k - i + 1] \in ToSet(s)
    BY <1>3, <2>1 DEF ToSet
  <2> QED
    BY <1>4, <2>2, <2>3 DEF IsNumber
<1>5. ASSUME \A k \in i .. j : text[k] \in Digits PROVE IsNumber(s)
  <2>1. \A k \in 1 .. j - i + 1 : s[k] \in Digits
    <3> TAKE k \in 1 .. j - i + 1
    <3>1. i + k - 1 \in i .. j
      OBVIOUS
    <3> QED
      BY <1>2, <1>5, <3>1
  <2> QED
    BY <1>3, <2>1 DEF IsNumber, ToSet
<1>6. IsNumber(s) <=> \A k \in i .. j : text[k] \in Digits
  BY <1>4, <1>5
<1> QED
  BY <1>2, <1>6 DEF s

LEMMA NothingMeant == Meaning(<<>>) = 0
<1>1. <<>> \in Seq(Nat) /\ Len(<<>>) = 0
  OBVIOUS
<1>2. PICK h : Digits10(h, <<>>)
  BY <1>1, DigitLoop
<1>3. Meaning(<<>>) = h[Len(<<>>)]
  BY <1>1, <1>2, MeaningIs
<1>4. h[0] = 0
  BY <1>2 DEF Digits10
<1> QED
  BY <1>1, <1>3, <1>4, Zenon

\* The field from i to j, as it is read
Field(text, i, j, max) == try_parse_uint(SubSeq(text, i, j), max)

Fraction(text) == IF Len(text) > 19 THEN Field(text, 20, Len(text), Max32) ELSE 0

Clock(text) ==
    <<Field(text, 5, 8, Max16), Field(text, 9, 10, Max8), Field(text, 11, 12, Max8),
      Field(text, 13, 14, Max8), Field(text, 15, 16, Max8), Field(text, 17, 18, Max8), Fraction(text)>>

\* parse_datetime, field by field
LEMMA TimeFields ==
  ASSUME NEW text \in Seq(Nat), NEW code
  PROVE  parse_datetime(code, text) =
            IF code # 213 \/ Len(text) < 18 \/ Refused \in ToSet(Clock(text)) THEN <<>> ELSE Clock(text)
<1> DEFINE val == Value(text)
           n == Len(text)
           At(pos, k, max) == try_parse_uint(SubSeq(val, pos + 1, pos + k), max)
           fractions == IF Len(val) > 15 THEN At(15, Len(val) - 15, Max32) ELSE 0
           read == <<At(0, 4, Max16), At(4, 2, Max8), At(6, 2, Max8), At(8, 2, Max8),
                     At(10, 2, Max8), At(12, 2, Max8), fractions>>
<1>1. n \in Nat /\ val \in Seq(Nat) /\ Len(val) \in Nat /\ Len(val) = IF n >= 4 THEN n - 4 ELSE 0
  BY ValueIs
<1>2. parse_datetime(code, text) = IF code # 213 \/ Len(val) < 14 \/ Refused \in ToSet(read) THEN <<>> ELSE read
  BY DEF parse_datetime
<1>3. Len(val) < 14 <=> n < 18
  <2> HIDE DEF val, n
  <2> QED
    BY <1>1
<1>4. ASSUME ~(n < 18) PROVE read = Clock(text)
  <2>1. ASSUME NEW pos \in Nat, NEW k \in Nat, pos + k <= Len(val), NEW max
        PROVE  At(pos, k, max) = Field(text, pos + 5, pos + k + 4, max)
    <3>1. pos + 1 \in Nat \ {0} /\ pos + k \in Nat /\ (pos + 1) + 4 = pos + 5
      OBVIOUS
    <3>2. SubSeq(val, pos + 1, pos + k) = SubSeq(text, (pos + 1) + 4, pos + k + 4)
      BY <2>1, <3>1, ValuePart
    <3> QED
      BY <3>1, <3>2, Zenon DEF Field
  <2> HIDE DEF val, n
  <2>2. Len(val) = n - 4 /\ 14 <= Len(val)
    BY <1>1, <1>4
  <2> HIDE DEF At
  <2>3. At(0, 4, Max16) = Field(text, 5, 8, Max16)
    <3>1. 0 \in Nat /\ 4 \in Nat /\ 0 + 4 <= Len(val) /\ 0 + 5 = 5 /\ 0 + 4 + 4 = 8
      BY <1>1, <2>2
    <3> QED
      BY <2>1, <3>1
  <2>4. ASSUME NEW pos \in {4, 6, 8, 10, 12} PROVE At(pos, 2, Max8) = Field(text, pos + 5, pos + 6, Max8)
    <3>1. pos \in Nat /\ 2 \in Nat /\ pos + 2 <= Len(val) /\ pos + 2 + 4 = pos + 6
      BY <1>1, <2>2
    <3> QED
      BY <2>1, <3>1
  <2>5. /\ At(4, 2, Max8) = Field(text, 9, 10, Max8) /\ At(6, 2, Max8) = Field(text, 11, 12, Max8)
        /\ At(8, 2, Max8) = Field(text, 13, 14, Max8) /\ At(10, 2, Max8) = Field(text, 15, 16, Max8)
        /\ At(12, 2, Max8) = Field(text, 17, 18, Max8)
    <3>1. /\ 4 + 5 = 9 /\ 4 + 6 = 10 /\ 6 + 5 = 11 /\ 6 + 6 = 12 /\ 8 + 5 = 13 /\ 8 + 6 = 14
          /\ 10 + 5 = 15 /\ 10 + 6 = 16 /\ 12 + 5 = 17 /\ 12 + 6 = 18
      OBVIOUS
    <3>2. /\ At(4, 2, Max8) = Field(text, 4 + 5, 4 + 6, Max8) /\ At(6, 2, Max8) = Field(text, 6 + 5, 6 + 6, Max8)
          /\ At(8, 2, Max8) = Field(text, 8 + 5, 8 + 6, Max8)
          /\ At(10, 2, Max8) = Field(text, 10 + 5, 10 + 6, Max8)
          /\ At(12, 2, Max8) = Field(text, 12 + 5, 12 + 6, Max8)
      BY <2>4
    <3> QED
      BY <3>1, <3>2, Zenon
  <2>6. fractions = Fraction(text)
    <3>1. CASE Len(val) > 15
      <4>1. /\ 15 \in Nat /\ Len(val) - 15 \in Nat /\ 15 + (Len(val) - 15) <= Len(val)
            /\ 15 + 5 = 20 /\ 15 + (Len(val) - 15) + 4 = n /\ n > 19
        BY <1>1, <2>2, <3>1
      <4>2. At(15, Len(val) - 15, Max32) = Field(text, 15 + 5, 15 + (Len(val) - 15) + 4, Max32)
        BY <2>1, <4>1, Zenon
      <4>3. At(15, Len(val) - 15, Max32) = Field(text, 20, n, Max32)
        BY <4>1, <4>2, Zenon
      <4> QED
        BY <3>1, <4>1, <4>3, Zenon DEF Fraction, n
    <3>2. CASE ~(Len(val) > 15)
      <4>1. ~(n > 19)
        BY <1>1, <2>2, <3>2
      <4> QED
        BY <3>2, <4>1, Zenon DEF Fraction, n
    <3> QED
      BY <3>1, <3>2, Zenon
  <2> HIDE DEF fractions
  <2> QED
    BY <2>3, <2>5, <2>6, Zenon DEF Clock
<1> HIDE DEF read
<1>5. (code # 213 \/ Len(val) < 14 \/ Refused \in ToSet(read))
        <=> (code # 213 \/ n < 18 \/ Refused \in ToSet(Clock(text)))
  BY <1>3, <1>4, Zenon
<1> QED
  BY <1>2, <1>3, <1>4, <1>5, Zenon DEF n

\* A refused field is found, and no other is.
LEMMA Seven ==
  ASSUME NEW a, NEW b, NEW c, NEW d, NEW e, NEW f, NEW g
  PROVE  LET t == <<a, b, c, d, e, f, g>>
         IN  /\ t[1] = a /\ t[2] = b /\ t[3] = c /\ t[4] = d /\ t[5] = e /\ t[6] = f /\ t[7] = g
             /\ \A x : x \in ToSet(t) <=> a = x \/ b = x \/ c = x \/ d = x \/ e = x \/ f = x \/ g = x
             /\ t # <<>>
BY DEF ToSet

\* The fields of a time fit when they are in their ranges.
LEMMA RangeFits ==
  ASSUME NEW t, InRange(t)
  PROVE  /\ t[1] <= Max16 /\ t[2] <= Max8 /\ t[3] <= Max8
         /\ t[4] <= Max8 /\ t[5] <= Max8 /\ t[6] <= Max8
<1>1. Max8 \in Nat /\ Max8 >= 99 /\ Max16 \in Nat
  BY Widths, WidthsAssumption
<1>2. Max16 >= 9999
  <2> DEFINE m == Max8 + 1
             p == m * m
  <2>1. m \in Nat /\ m >= 100
    BY <1>1
  <2>2. Max16 + 1 = p
    BY WidthsAssumption
  <2> HIDE DEF m
  <2>3. m * m >= 100 * m /\ 100 * m >= 100 * 100 /\ p \in Nat
    BY <2>1
  <2>4. p >= 100 * 100
    <3> DEFINE h == 100 * m
    <3>1. p >= h /\ h >= 100 * 100 /\ h \in Nat
      BY <2>1, <2>3
    <3> HIDE DEF p, h
    <3> QED
      BY <2>3, <3>1
  <2> HIDE DEF p
  <2> QED
    BY <1>1, <2>2, <2>4
<1> DEFINE a == t[1]
           b == t[2]
           c == t[3]
           d == t[4]
           e == t[5]
           f == t[6]
<1>3. a \in 1000 .. 9999
  BY SMTT(30) DEF InRange
<1>4. b \in 1 .. 12 /\ c \in 1 .. 31
  BY DEF InRange
<1>5. d \in 0 .. 23 /\ e \in 0 .. 59 /\ f \in 0 .. 60
  BY DEF InRange
<1> HIDE DEF a, b, c, d, e, f
<1>6. a <= Max16
  <2>1. a \in Int /\ a <= 9999
    BY <1>3
  <2> QED
    BY <1>2, <2>1, Widths
<1>7. b <= Max8 /\ c <= Max8 /\ d <= Max8 /\ e <= Max8 /\ f <= Max8
  BY <1>1, <1>4, <1>5
<1> QED
  BY <1>6, <1>7, Zenon DEF a, b, c, d, e, f

\* What TimeIsRead says of an answer and its result
TimeStands(code, text, time) ==
    LET meant == TimeMeant(text)
    IN  /\ code = 213 /\ IsTimeVal(text) /\ InRange(meant) /\ meant[7] <= Max32 => time = meant
        /\ time # <<>> =>
               /\ code = 213 /\ Len(text) >= 18
               /\ IsNumber(SubSeq(text, 5, 18))
               /\ time = meant

\* An answer to MDTM in its form is understood, and what is understood is what stands there.
LEMMA TimeRead ==
  ASSUME NEW text \in Seq(Nat), NEW code
  PROVE  TimeStands(code, text, parse_datetime(code, text))
<1> DEFINE n == Len(text)
           time == parse_datetime(code, text)
           clock == Clock(text)
           meant == TimeMeant(text)
           rest == SubSeq(text, 20, n)
           Y == Field(text, 5, 8, Max16)
           A == Field(text, 9, 10, Max8)
           B == Field(text, 11, 12, Max8)
           C == Field(text, 13, 14, Max8)
           D == Field(text, 15, 16, Max8)
           E == Field(text, 17, 18, Max8)
           G == Fraction(text)
           Number(i, j) == IsNumber(SubSeq(text, i, j))
           Says(i, j) == Meaning(SubSeq(text, i, j))
           Reads8(i, j) == Number(i, j) /\ Says(i, j) <= Max8
<1>1. n \in Nat /\ time = IF code # 213 \/ n < 18 \/ Refused \in ToSet(clock) THEN <<>> ELSE clock
  BY TimeFields
<1>2. /\ clock = <<Y, A, B, C, D, E, G>> /\ clock # <<>>
      /\ Refused \in ToSet(clock) <=>
            Y = Refused \/ A = Refused \/ B = Refused \/ C = Refused \/ D = Refused \/ E = Refused \/ G = Refused
  <2>1. clock = <<Y, A, B, C, D, E, G>>
    BY Zenon DEF Clock
  <2> HIDE DEF clock, Y, A, B, C, D, E, G
  <2> QED
    BY <2>1, Seven
<1>3. meant = <<Says(5, 8), Says(9, 10), Says(11, 12), Says(13, 14), Says(15, 16), Says(17, 18),
                Says(20, n)>>
  BY Zenon DEF TimeMeant
<1>4. /\ meant[1] = Says(5, 8) /\ meant[2] = Says(9, 10) /\ meant[3] = Says(11, 12)
      /\ meant[4] = Says(13, 14) /\ meant[5] = Says(15, 16) /\ meant[6] = Says(17, 18)
      /\ meant[7] = Says(20, n)
  <2> HIDE DEF meant, Says
  <2> QED
    BY <1>3, Seven
<1>5. Max8 \in 0 .. Max64 /\ Max16 \in 0 .. Max64 /\ Max32 \in 0 .. Max64
  BY Limits
<1>6. ASSUME NEW i \in Nat \ {0}, NEW j \in Nat, i <= j, j <= n, NEW max \in 0 .. Max64
      PROVE  /\ Number(i, j) <=> \A k \in i .. j : text[k] \in Digits
             /\ Says(i, j) \in Nat /\ Says(i, j) # Refused
             /\ Field(text, i, j, max) =
                    IF Number(i, j) /\ Says(i, j) <= max THEN Says(i, j) ELSE Refused
  <2> DEFINE part == SubSeq(text, i, j)
  <2>1. part \in Seq(Nat) /\ (IsNumber(part) <=> \A k \in i .. j : text[k] \in Digits)
    BY <1>6, DigitsWithin
  <2> HIDE DEF part
  <2>2. Meaning(part) \in Nat
    BY <2>1, NumberRead
  <2>3. Meaning(part) # Refused
    BY <2>2 DEF Refused
  <2>4. try_parse_uint(part, max) = IF IsNumber(part) /\ Meaning(part) <= max THEN Meaning(part) ELSE Refused
    BY <2>1, NarrowRead
  <2> QED
    BY <2>1, <2>2, <2>3, <2>4, Zenon DEF part, Field
<1> HIDE DEF Y, A, B, C, D, E, G, time, clock, meant
<1>7. ASSUME n >= 18
      PROVE  /\ Y = IF Number(5, 8) /\ Says(5, 8) <= Max16 THEN Says(5, 8) ELSE Refused
             /\ A = IF Reads8(9, 10) THEN Says(9, 10) ELSE Refused
             /\ B = IF Reads8(11, 12) THEN Says(11, 12) ELSE Refused
             /\ C = IF Reads8(13, 14) THEN Says(13, 14) ELSE Refused
             /\ D = IF Reads8(15, 16) THEN Says(15, 16) ELSE Refused
             /\ E = IF Reads8(17, 18) THEN Says(17, 18) ELSE Refused
             /\ Says(5, 8) # Refused /\ Says(9, 10) # Refused /\ Says(11, 12) # Refused
             /\ Says(13, 14) # Refused /\ Says(15, 16) # Refused /\ Says(17, 18) # Refused
             /\ Number(5, 8) /\ Number(9, 10) /\ Number(11, 12) /\ Number(13, 14) /\ Number(15, 16)
                  /\ Number(17, 18) <=> \A k \in 5 .. 18 : text[k] \in Digits
             /\ Number(5, 18) <=> \A k \in 5 .. 18 : text[k] \in Digits
  <2>1. ASSUME NEW i \in Nat \ {0}, NEW j \in Nat, i <= j, j <= 18
        PROVE  /\ Number(i, j) <=> \A k \in i .. j : text[k] \in Digits
               /\ Says(i, j) # Refused
               /\ Field(text, i, j, Max8) = IF Reads8(i, j) THEN Says(i, j) ELSE Refused
    <3>1. j <= n
      BY <1>1, <1>7, <2>1
    <3> HIDE DEF Number, Says, n
    <3> QED
      BY <1>5, <1>6, <2>1, <3>1
  <2>2. Field(text, 5, 8, Max16) = IF Number(5, 8) /\ Says(5, 8) <= Max16 THEN Says(5, 8) ELSE Refused
    <3>1. 5 \in Nat \ {0} /\ 8 \in Nat /\ 5 <= 8 /\ 8 <= n
      BY <1>1, <1>7
    <3> HIDE DEF Number, Says, n
    <3> QED
      BY <1>5, <1>6, <3>1
  <2> HIDE DEF Number, Says, Reads8, n
  <2>3. /\ Field(text, 9, 10, Max8) = IF Reads8(9, 10) THEN Says(9, 10) ELSE Refused
        /\ Field(text, 11, 12, Max8) = IF Reads8(11, 12) THEN Says(11, 12) ELSE Refused
        /\ Field(text, 13, 14, Max8) = IF Reads8(13, 14) THEN Says(13, 14) ELSE Refused
    BY <2>1
  <2>4. /\ Field(text, 15, 16, Max8) = IF Reads8(15, 16) THEN Says(15, 16) ELSE Refused
        /\ Field(text, 17, 18, Max8) = IF Reads8(17, 18) THEN Says(17, 18) ELSE Refused
    BY <2>1
  <2>5. /\ Says(5, 8) # Refused /\ Says(9, 10) # Refused /\ Says(11, 12) # Refused
        /\ Says(13, 14) # Refused /\ Says(15, 16) # Refused /\ Says(17, 18) # Refused
    BY <2>1
  <2>6. /\ Number(5, 8) <=> \A k \in 5 .. 8 : text[k] \in Digits
        /\ Number(5, 18) <=> \A k \in 5 .. 18 : text[k] \in Digits
    <3>1. 5 \in Nat \ {0} /\ 8 \in Nat /\ 18 \in Nat /\ 5 <= 8 /\ 8 <= 18 /\ 5 <= 18 /\ 18 <= 18
      OBVIOUS
    <3> QED
      BY <2>1, <3>1, Zenon
  <2>7. /\ Number(9, 10) <=> \A k \in 9 .. 10 : text[k] \in Digits
        /\ Number(11, 12) <=> \A k \in 11 .. 12 : text[k] \in Digits
    BY <2>1
  <2>8. /\ Number(13, 14) <=> \A k \in 13 .. 14 : text[k] \in Digits
        /\ Number(15, 16) <=> \A k \in 15 .. 16 : text[k] \in Digits
    BY <2>1
  <2>9. Number(17, 18) <=> \A k \in 17 .. 18 : text[k] \in Digits
    BY <2>1
  <2>10. \A k : k \in 5 .. 18 <=> \/ k \in 5 .. 8 \/ k \in 9 .. 10 \/ k \in 11 .. 12
                                 \/ k \in 13 .. 14 \/ k \in 15 .. 16 \/ k \in 17 .. 18
    OBVIOUS
  <2>11. Number(5, 8) /\ Number(9, 10) /\ Number(11, 12) /\ Number(13, 14) /\ Number(15, 16) /\ Number(17, 18)
            <=> \A k \in 5 .. 18 : text[k] \in Digits
    BY <2>10, <2>6, <2>7, <2>8, <2>9, Zenon
  <2> QED
    BY <2>2, <2>3, <2>4, <2>5, <2>6, <2>11, Zenon DEF Y, A, B, C, D, E
<1>8. /\ Says(20, n) \in Nat
      /\ n > 19 => G = IF Number(20, n) /\ Says(20, n) <= Max32 THEN Says(20, n) ELSE Refused
      /\ ~(n > 19) => G = 0 /\ Says(20, n) = 0
  <2>1. CASE n > 19
    <3>1. 20 \in Nat \ {0} /\ 20 <= n /\ n <= n
      BY <1>1, <2>1
    <3> HIDE DEF Number, Says, n
    <3>2. Says(20, n) \in Nat /\ Field(text, 20, n, Max32) =
                IF Number(20, n) /\ Says(20, n) <= Max32 THEN Says(20, n) ELSE Refused
      BY <1>1, <1>5, <1>6, <3>1
    <3>3. G = Field(text, 20, n, Max32)
      BY <2>1, Zenon DEF G, Fraction, n
    <3> QED
      BY <2>1, <3>2, <3>3, Zenon
  <2>2. CASE ~(n > 19)
    <3>1. rest = <<>>
      <4> HIDE DEF n
      <4>1. n < 20 /\ n \in Int
        BY <1>1, <2>2
      <4> QED
        BY <4>1, SubSeqEmpty
    <3>2. Says(20, n) = 0
      BY <3>1, NothingMeant, Zenon
    <3>3. G = 0
      BY <2>2, Zenon DEF G, Fraction, n
    <3>4. 0 \in Nat
      OBVIOUS
    <3> QED
      BY <2>2, <3>2, <3>3, <3>4, Zenon
  <2> QED
    BY <2>1, <2>2, Zenon
<1>9. IsTimeVal(text) => /\ n >= 18 /\ (\A k \in 5 .. 18 : text[k] \in Digits)
                         /\ n > 18 => Number(20, n)
  BY Zenon DEF IsTimeVal
<1> HIDE DEF Number, Says, n, rest, Reads8
<1>10. ASSUME code = 213, IsTimeVal(text), InRange(meant), meant[7] <= Max32 PROVE time = meant
  <2>1. /\ n >= 18 /\ ~(n < 18) /\ Number(5, 8) /\ Number(9, 10) /\ Number(11, 12) /\ Number(13, 14)
        /\ Number(15, 16) /\ Number(17, 18)
    <3>1. n >= 18 /\ ~(n < 18)
      BY <1>1, <1>9, <1>10
    <3> QED
      BY <1>7, <1>9, <1>10, <3>1, Zenon
  <2>2. /\ Says(5, 8) <= Max16 /\ Says(9, 10) <= Max8 /\ Says(11, 12) <= Max8
        /\ Says(13, 14) <= Max8 /\ Says(15, 16) <= Max8 /\ Says(17, 18) <= Max8
    <3>1. /\ meant[1] <= Max16 /\ meant[2] <= Max8 /\ meant[3] <= Max8
          /\ meant[4] <= Max8 /\ meant[5] <= Max8 /\ meant[6] <= Max8
      BY <1>10, RangeFits
    <3> QED
      BY <1>4, <3>1, Zenon
  <2>3. /\ Y = Says(5, 8) /\ A = Says(9, 10) /\ B = Says(11, 12) /\ C = Says(13, 14)
        /\ D = Says(15, 16) /\ E = Says(17, 18)
    BY <1>7, <2>1, <2>2, Zenon DEF Reads8
  <2>4. G = Says(20, n) /\ G # Refused
    <3>1. CASE n > 19
      <4>1. n > 18 /\ Says(20, n) <= Max32
        BY <1>1, <1>4, <1>10, <3>1
      <4>2. G = Says(20, n)
        BY <1>8, <1>9, <1>10, <3>1, <4>1, Zenon
      <4>3. Says(20, n) # Refused
        BY <1>8 DEF Refused
      <4> QED
        BY <4>2, <4>3
    <3>2. CASE ~(n > 19)
      BY <1>8, <3>2 DEF Refused
    <3> QED
      BY <3>1, <3>2
  <2>5. Refused \notin ToSet(clock)
    BY <1>2, <1>7, <2>1, <2>3, <2>4, Zenon
  <2>6. time = clock
    BY <1>1, <1>10, <2>1, <2>5, Zenon
  <2> QED
    BY <1>2, <1>3, <2>3, <2>4, <2>6, Zenon
<1>11. ASSUME time # <<>> PROVE code = 213 /\ n >= 18 /\ Number(5, 18) /\ time = meant
  <2>1. code = 213 /\ ~(n < 18) /\ Refused \notin ToSet(clock) /\ time = clock
    BY <1>1, <1>11, Zenon
  <2>2. n >= 18
    BY <1>1, <2>1
  <2>3. Y # Refused /\ A # Refused /\ B # Refused /\ C # Refused /\ D # Refused /\ E # Refused /\ G # Refused
    BY <1>2, <2>1, Zenon
  <2>4. /\ Y = Says(5, 8) /\ A = Says(9, 10) /\ B = Says(11, 12) /\ C = Says(13, 14)
        /\ D = Says(15, 16) /\ E = Says(17, 18)
        /\ Number(5, 8) /\ Number(9, 10) /\ Number(11, 12) /\ Number(13, 14) /\ Number(15, 16) /\ Number(17, 18)
    BY <1>7, <2>2, <2>3, Zenon DEF Reads8
  <2>5. G = Says(20, n)
    BY <1>8, <2>3, Zenon
  <2>6. Number(5, 18)
    BY <1>7, <2>2, <2>4, Zenon
  <2> QED
    BY <1>2, <1>3, <2>1, <2>2, <2>4, <2>5, <2>6, Zenon
<1>12. TimeStands(code, text, time)
  BY <1>10, <1>11, Zenon DEF TimeStands, meant, n, Number
<1> QED
  BY <1>12 DEF time

--------------------------------------------------------------------------------
(* The loop of parse_command, a step at a time                             *)

\* The loop of parse_command: what has been read, and what is being read.
Reading(args, arg, in) == [args |-> args, arg |-> arg, in |-> in]

Start == Reading(<<>>, <<>>, "gap")

LEMMA ReadingIs ==
  ASSUME NEW a, NEW b, NEW i
  PROVE  Reading(a, b, i).args = a /\ Reading(a, b, i).arg = b /\ Reading(a, b, i).in = i
BY DEF Reading

LEMMA MovedTo ==
  ASSUME NEW a, NEW b, NEW i, NEW j
  PROVE  [Reading(a, b, i) EXCEPT !.in = j] = Reading(a, b, j)
BY DEF Reading

\* A character is kept, or an operand is complete.
LEMMA KeepIs ==
  ASSUME NEW a, NEW b, NEW i, NEW ch, NEW j
  PROVE  /\ Keep(Reading(a, b, i), ch, j) = Reading(a, Append(b, ch), j)
         /\ Push(Reading(a, b, i)) = Reading(Append(a, b), <<>>, "gap")
<1> DEFINE s == Reading(a, b, i)
<1>1. s.args = a /\ s.arg = b
  BY ReadingIs
<1> HIDE DEF s
<1>2. Keep(s, ch, j) = Reading(s.args, Append(s.arg, ch), j)
  BY Zenon DEF Keep, Reading
<1>3. Push(s) = Reading(Append(s.args, s.arg), <<>>, "gap")
  BY Zenon DEF Push, Reading
<1> QED
  BY <1>1, <1>2, <1>3, Zenon DEF s

\* Where the loop goes from each of its states
LEMMA GapMoves ==
  ASSUME NEW a, NEW b, NEW ch
  PROVE  Extract(Reading(a, b, "gap"), ch) =
            IF ch = Space THEN Reading(a, b, "gap")
            ELSE IF ch = Quote THEN Reading(a, b, "quotes") ELSE Reading(a, Append(b, ch), "word")
<1> DEFINE s == Reading(a, b, "gap")
<1>1. s.in = "gap" /\ [s EXCEPT !.in = "quotes"] = Reading(a, b, "quotes")
      /\ Keep(s, ch, "word") = Reading(a, Append(b, ch), "word")
  <2>1. s.in = "gap"
    BY ReadingIs
  <2>2. [s EXCEPT !.in = "quotes"] = Reading(a, b, "quotes")
    BY MovedTo
  <2>3. Keep(s, ch, "word") = Reading(a, Append(b, ch), "word")
    BY KeepIs
  <2> QED
    BY <2>1, <2>2, <2>3
<1> HIDE DEF s
<1>2. ch = Space => Extract(s, ch) = s
  BY <1>1 DEF Extract, Space, Quote, Closes
<1>3. ch = Quote => Extract(s, ch) = [s EXCEPT !.in = "quotes"]
  BY <1>1 DEF Extract, Space, Quote, Closes
<1>4. ch # Space /\ ch # Quote => Extract(s, ch) = Keep(s, ch, "word")
  BY <1>1 DEF Extract, Closes
<1>5. Space # Quote
  BY DEF Space, Quote
<1> QED
  BY <1>1, <1>2, <1>3, <1>4, <1>5, Zenon DEF s

LEMMA WordMoves ==
  ASSUME NEW a, NEW b, NEW ch
  PROVE  Extract(Reading(a, b, "word"), ch) =
            IF ch = Space THEN Reading(Append(a, b), <<>>, "gap") ELSE Reading(a, Append(b, ch), "word")
<1> DEFINE s == Reading(a, b, "word")
<1>1. s.in = "word" /\ Push(s) = Reading(Append(a, b), <<>>, "gap")
      /\ Keep(s, ch, s.in) = Reading(a, Append(b, ch), "word")
  <2>1. s.in = "word"
    BY ReadingIs
  <2>2. Push(s) = Reading(Append(a, b), <<>>, "gap")
    BY KeepIs
  <2>3. Keep(s, ch, "word") = Reading(a, Append(b, ch), "word")
    BY KeepIs
  <2> HIDE DEF s
  <2> QED
    BY <2>1, <2>2, <2>3
<1> HIDE DEF s
<1>2. Extract(s, ch) = IF ch = Space THEN Push(s) ELSE Keep(s, ch, s.in)
  BY <1>1 DEF Extract, Closes
<1> QED
  BY <1>1, <1>2, Zenon DEF s

LEMMA QuotesMoves ==
  ASSUME NEW a, NEW b, NEW ch
  PROVE  Extract(Reading(a, b, "quotes"), ch) =
            IF ch = Quote THEN Reading(Append(a, b), <<>>, "gap")
            ELSE IF ch = Back THEN Reading(a, b, "escape") ELSE Reading(a, Append(b, ch), "quotes")
<1> DEFINE s == Reading(a, b, "quotes")
<1>1. s.in = "quotes" /\ Push(s) = Reading(Append(a, b), <<>>, "gap")
      /\ Keep(s, ch, s.in) = Reading(a, Append(b, ch), "quotes")
      /\ [s EXCEPT !.in = "escape"] = Reading(a, b, "escape")
  <2>1. s.in = "quotes"
    BY ReadingIs
  <2>2. Push(s) = Reading(Append(a, b), <<>>, "gap")
    BY KeepIs
  <2>3. Keep(s, ch, "quotes") = Reading(a, Append(b, ch), "quotes")
    BY KeepIs
  <2>4. [s EXCEPT !.in = "escape"] = Reading(a, b, "escape")
    BY MovedTo
  <2> HIDE DEF s
  <2> QED
    BY <2>1, <2>2, <2>3, <2>4
<1> HIDE DEF s
<1>2. ch = Quote => Extract(s, ch) = Push(s)
  BY <1>1 DEF Extract, Closes, Quote, Back
<1>3. ch = Back => Extract(s, ch) = [s EXCEPT !.in = "escape"]
  BY <1>1 DEF Extract, Closes, Quote, Back
<1>4. ch # Quote /\ ch # Back => Extract(s, ch) = Keep(s, ch, s.in)
  BY <1>1 DEF Extract, Closes
<1>5. Quote # Back
  BY DEF Quote, Back
<1> QED
  BY <1>1, <1>2, <1>3, <1>4, <1>5, Zenon DEF s

LEMMA EscapeMoves ==
  ASSUME NEW a, NEW b, NEW ch
  PROVE  Extract(Reading(a, b, "escape"), ch) = Reading(a, Append(b, ch), "quotes")
<1> DEFINE s == Reading(a, b, "escape")
<1>1. s.in = "escape" /\ Keep(s, ch, "quotes") = Reading(a, Append(b, ch), "quotes")
  <2>1. s.in = "escape"
    BY ReadingIs
  <2>2. Keep(s, ch, "quotes") = Reading(a, Append(b, ch), "quotes")
    BY KeepIs
  <2> QED
    BY <2>1, <2>2
<1> HIDE DEF s
<1>2. Extract(s, ch) = Keep(s, ch, "quotes")
  BY <1>1 DEF Extract, Closes
<1> QED
  BY <1>1, <1>2, Zenon DEF s

\* The states of the loop
Scans == {Reading(a, b, in) : a \in Seq(Seq(Nat)), b \in Seq(Nat), in \in {"gap", "word", "quotes", "escape"}}

LEMMA AppendText ==
  ASSUME NEW a \in Seq(Seq(Nat)), NEW b \in Seq(Nat)
  PROVE  Append(a, b) \in Seq(Seq(Nat))
BY AppendTexts

LEMMA ExtractType ==
  ASSUME NEW s \in Scans, NEW ch \in Nat
  PROVE  Extract(s, ch) \in Scans
<1> DEFINE T == Seq(Nat)
           TT == Seq(Seq(Nat))
<1>1. PICK a \in TT, b \in T, in \in {"gap", "word", "quotes", "escape"} : s = Reading(a, b, in)
  BY DEF Scans
<1>2. Append(a, b) \in TT /\ Append(b, ch) \in T /\ <<>> \in T
  BY AppendText
<1>3. \A x \in TT, y \in T : /\ Reading(x, y, "gap") \in Scans /\ Reading(x, y, "word") \in Scans
                             /\ Reading(x, y, "quotes") \in Scans /\ Reading(x, y, "escape") \in Scans
  BY DEF Scans
<1> HIDE DEF T, TT
<1> DEFINE e == Extract(s, ch)
<1>4. e \in {Reading(a, b, "gap"), Reading(a, b, "quotes"), Reading(a, Append(b, ch), "word"), Reading(Append(a, b), <<>>, "gap"),
             Reading(a, b, "escape"), Reading(a, Append(b, ch), "quotes")}
  <2>1. CASE in = "gap"
    BY <1>1, <2>1, GapMoves
  <2>2. CASE in = "word"
    BY <1>1, <2>2, WordMoves
  <2>3. CASE in = "quotes"
    BY <1>1, <2>3, QuotesMoves
  <2>4. CASE in = "escape"
    BY <1>1, <2>4, EscapeMoves
  <2> QED
    BY <1>1, <2>1, <2>2, <2>3, <2>4
<1> HIDE DEF e
<1>5. e \in Scans
  BY <1>2, <1>3, <1>4
<1> QED
  BY <1>5 DEF e

\* f is the loop over a text, from s.
Loops(f, s, text) ==
    /\ f[0] = s
    /\ \A i \in 1 .. Len(text) : f[i] = Extract(f[i - 1], text[i])

\* Where it is after the text
Scanned(s, text) ==
    LET scan[i \in 0..Len(text)] == IF i = 0 THEN s ELSE Extract(scan[i - 1], text[i])
    IN  scan[Len(text)]

LEMMA ScanLoop ==
  ASSUME NEW text \in Seq(Nat), NEW s0 \in Scans
  PROVE  \E f \in [0 .. Len(text) -> Scans] : Loops(f, s0, text) /\ Scanned(s0, text) = f[Len(text)]
<1> DEFINE n == Len(text)
           step == [i \in 1 .. n |-> [s \in Scans |-> Extract(s, text[i])]]
           Solves(f) == f = [i \in 0 .. n |-> IF i = 0 THEN s0 ELSE Extract(f[i - 1], text[i])]
           g == CHOOSE f : Solves(f)
<1>1. n \in Nat
  OBVIOUS
<1>2. step \in [1 .. n -> [Scans -> Scans]]
  BY ExtractType
<1>3. PICK f : Runs(f, Scans, n, s0, step)
  <2> HIDE DEF step, n
  <2> QED
    BY <1>1, <1>2, Recursion
<1>4. f \in [0 .. n -> Scans] /\ f[0] = s0 /\ \A i \in 1 .. n : f[i] = Extract(f[i - 1], text[i])
  <2>1. f \in [0 .. n -> Scans] /\ f[0] = s0 /\ \A i \in 1 .. n : f[i] = step[i][f[i - 1]]
    <3> HIDE DEF step
    <3> QED
      BY <1>3 DEF Runs
  <2>2. ASSUME NEW i \in 1 .. n PROVE f[i] = Extract(f[i - 1], text[i])
    <3>1. i - 1 \in 0 .. n
      BY <1>1
    <3>2. f[i - 1] \in Scans
      BY <2>1, <3>1
    <3>3. step[i][f[i - 1]] = Extract(f[i - 1], text[i])
      BY <3>2
    <3> QED
      BY <2>1, <3>3, Zenon
  <2> QED
    BY <2>1, <2>2
<1>5. Solves(f)
  <2>1. \A i \in 0 .. n : f[i] = IF i = 0 THEN s0 ELSE Extract(f[i - 1], text[i])
    <3> TAKE i \in 0 .. n
    <3>1. i = 0 \/ (i # 0 /\ i \in 1 .. n)
      BY <1>1
    <3> QED
      BY <1>4, <3>1
  <2> HIDE DEF n
  <2> QED
    BY <1>4, <2>1
<1>6. Solves(g)
  <2> HIDE DEF Solves
  <2> QED
    BY <1>5
<1>7. Scanned(s0, text) = g[Len(text)]
  BY DEF Scanned
<1> HIDE DEF g
<1>8. g[0] = s0 /\ \A i \in 1 .. n : g[i] = Extract(g[i - 1], text[i])
  <2>1. 0 \in 0 .. n /\ \A i \in 1 .. n : i \in 0 .. n /\ i # 0
    BY <1>1
  <2>2. \A i \in 0 .. n : g[i] = IF i = 0 THEN s0 ELSE Extract(g[i - 1], text[i])
    BY <1>6, Zenon
  <2> QED
    BY <2>1, <2>2, Zenon
<1>9. \A i \in 0 .. n : g[i] = f[i] /\ g[i] \in Scans
  <2>1. \A i \in 1 .. n : g[i - 1] \in Scans => g[i] = step[i][g[i - 1]]
    <3> TAKE i \in 1 .. n
    <3> HAVE g[i - 1] \in Scans
    <3>1. step[i][g[i - 1]] = Extract(g[i - 1], text[i])
      OBVIOUS
    <3> QED
      BY <1>8, <3>1, Zenon
  <2> HIDE DEF step, n
  <2> QED
    BY <1>1, <1>2, <1>3, <1>8, <2>1, SameRun
<1>10. Loops(f, s0, text)
  BY <1>4 DEF Loops
<1>11. g[n] = f[n]
  BY <1>1, <1>9
<1> QED
  BY <1>4, <1>7, <1>10, <1>11

\* There is no other loop over that text.
LEMMA ScanIs ==
  ASSUME NEW text \in Seq(Nat), NEW s0 \in Scans, NEW g, Loops(g, s0, text)
  PROVE  Scanned(s0, text) = g[Len(text)] /\ Scanned(s0, text) \in Scans
<1> DEFINE n == Len(text)
           step == [i \in 1 .. n |-> [s \in Scans |-> Extract(s, text[i])]]
<1>1. PICK f \in [0 .. n -> Scans] : Loops(f, s0, text) /\ Scanned(s0, text) = f[n]
  BY ScanLoop
<1>2. n \in Nat /\ step \in [1 .. n -> [Scans -> Scans]]
  BY ExtractType
<1>3. \A i \in 1 .. n : \A h \in Scans : step[i][h] = Extract(h, text[i])
  OBVIOUS
<1> HIDE DEF step, n
<1>4. Runs(f, Scans, n, s0, step)
  <2>1. \A i \in 1 .. n : i - 1 \in 0 .. n
    BY <1>2
  <2>2. \A i \in 1 .. n : f[i] = step[i][f[i - 1]]
    <3> TAKE i \in 1 .. n
    <3>1. f[i - 1] \in Scans /\ f[i] = Extract(f[i - 1], text[i])
      BY <1>1, <2>1 DEF Loops, n
    <3>2. step[i][f[i - 1]] = Extract(f[i - 1], text[i])
      BY <1>3, <3>1
    <3> QED
      BY <3>1, <3>2, Zenon
  <2> QED
    BY <1>1, <2>2 DEF Runs, Loops
<1>5. g[0] = s0 /\ \A i \in 1 .. n : g[i - 1] \in Scans => g[i] = step[i][g[i - 1]]
  <2>1. g[0] = s0 /\ \A i \in 1 .. n : g[i] = Extract(g[i - 1], text[i])
    BY Zenon DEF Loops, n
  <2>2. ASSUME NEW i \in 1 .. n, g[i - 1] \in Scans PROVE g[i] = step[i][g[i - 1]]
    <3>1. step[i][g[i - 1]] = Extract(g[i - 1], text[i])
      BY <1>3, <2>2
    <3> QED
      BY <2>1, <3>1, Zenon
  <2> QED
    BY <2>1, <2>2
<1>6. \A i \in 0 .. n : g[i] = f[i] /\ g[i] \in Scans
  BY <1>2, <1>4, <1>5, SameRun
<1>7. n \in 0 .. n
  BY <1>2
<1> QED
  BY <1>1, <1>6, <1>7 DEF n

LEMMA ScannedNone ==
  ASSUME NEW s \in Scans
  PROVE  Scanned(s, <<>>) = s
<1>1. <<>> \in Seq(Nat) /\ Len(<<>>) = 0
  OBVIOUS
<1>2. Loops([i \in {0} |-> s], s, <<>>)
  BY DEF Loops
<1> QED
  BY <1>1, <1>2, ScanIs

LEMMA ScannedOne ==
  ASSUME NEW s \in Scans, NEW ch \in Nat
  PROVE  Scanned(s, <<ch>>) = Extract(s, ch)
<1> DEFINE t == <<ch>>
           f == [i \in 0 .. 1 |-> IF i = 0 THEN s ELSE Extract(s, ch)]
<1>1. t \in Seq(Nat) /\ Len(t) = 1 /\ t[1] = ch
  OBVIOUS
<1>2. f[0] = s /\ f[1] = Extract(s, ch)
  OBVIOUS
<1> HIDE DEF t, f
<1>3. Loops(f, s, t)
  BY <1>1, <1>2 DEF Loops
<1> QED
  BY <1>1, <1>2, <1>3, ScanIs DEF t

\* One text after another
LEMMA ScannedJoined ==
  ASSUME NEW s \in Scans, NEW t \in Seq(Nat), NEW u \in Seq(Nat)
  PROVE  /\ Scanned(s, t) \in Scans
         /\ Scanned(s, t \o u) = Scanned(Scanned(s, t), u)
<1> DEFINE w == t \o u
           m == Len(t)
           k == Len(u)
<1>1. /\ w \in Seq(Nat) /\ Len(w) = m + k /\ m \in Nat /\ k \in Nat
      /\ (\A i \in 1 .. m : w[i] = t[i]) /\ \A i \in 1 .. k : w[m + i] = u[i]
  <2>1. w \in Seq(Nat) /\ Len(w) = m + k /\ m \in Nat /\ k \in Nat
    OBVIOUS
  <2>2. \A i \in 1 .. m : w[i] = t[i]
    BY Joined
  <2>3. \A i \in 1 .. k : w[m + i] = u[i]
    BY Joined
  <2> QED
    BY <2>1, <2>2, <2>3
<1> HIDE DEF w
<1>2. PICK f \in [0 .. Len(w) -> Scans] : Loops(f, s, w) /\ Scanned(s, w) = f[Len(w)]
  BY <1>1, ScanLoop
<1>3. f[0] = s /\ \A i \in 1 .. m + k : f[i] = Extract(f[i - 1], w[i])
  BY <1>1, <1>2 DEF Loops
<1>4. Scanned(s, t) = f[m] /\ f[m] \in Scans
  <2>1. Loops(f, s, t)
    <3>1. \A i \in 1 .. m : i \in 1 .. m + k
      BY <1>1
    <3>2. \A i \in 1 .. m : f[i] = Extract(f[i - 1], t[i])
      BY <1>1, <1>3, <3>1
    <3> QED
      BY <1>3, <3>2 DEF Loops
  <2> QED
    BY <2>1, ScanIs
<1> DEFINE g == [i \in 0 .. k |-> f[m + i]]
<1>5. Loops(g, f[m], u)
  <2>1. g[0] = f[m]
    BY <1>1
  <2>2. \A i \in 1 .. k : g[i] = Extract(g[i - 1], u[i])
    <3> TAKE i \in 1 .. k
    <3>1. m + i \in 1 .. m + k /\ (m + i) - 1 = m + (i - 1) /\ i - 1 \in 0 .. k /\ i \in 0 .. k
      BY <1>1
    <3>2. g[i] = f[m + i] /\ g[i - 1] = f[m + (i - 1)]
      BY <3>1
    <3>3. f[m + i] = Extract(f[m + (i - 1)], w[m + i]) /\ w[m + i] = u[i]
      BY <1>1, <1>3, <3>1
    <3> QED
      BY <3>2, <3>3, Zenon
  <2> HIDE DEF g
  <2> QED
    BY <2>1, <2>2 DEF Loops
<1>6. g[k] = f[m + k]
  BY <1>1
<1> HIDE DEF g
<1>7. Scanned(f[m], u) = g[k]
  BY <1>4, <1>5, ScanIs
<1> QED
  BY <1>1, <1>2, <1>4, <1>6, <1>7 DEF w

LEMMA ReadingScans ==
  ASSUME NEW a \in Seq(Seq(Nat)), NEW b \in Seq(Nat)
  PROVE  /\ Reading(a, b, "gap") \in Scans /\ Reading(a, b, "word") \in Scans
         /\ Reading(a, b, "quotes") \in Scans /\ Reading(a, b, "escape") \in Scans
<1> DEFINE T == Seq(Nat)
           TT == Seq(Seq(Nat))
<1>1. \A x \in TT, y \in T : /\ Reading(x, y, "gap") \in Scans /\ Reading(x, y, "word") \in Scans
                             /\ Reading(x, y, "quotes") \in Scans /\ Reading(x, y, "escape") \in Scans
  BY DEF Scans
<1>2. a \in TT /\ b \in T
  OBVIOUS
<1> HIDE DEF T, TT
<1> QED
  BY <1>1, <1>2

\* One element further
LEMMA OneFurther ==
  ASSUME NEW S, NEW s \in Seq(S), NEW n \in Nat, n + 1 <= Len(s)
  PROVE  Append(SubSeq(s, 1, n), s[n + 1]) = SubSeq(s, 1, n + 1)
<1> DEFINE l == SubSeq(s, 1, n)
           r == SubSeq(s, 1, n + 1)
           e == s[n + 1]
           w == Append(l, e)
<1>1. n \in 0 .. Len(s) /\ n + 1 \in 0 .. Len(s) /\ e \in S
  BY ElementOfSeq
<1>2. l \in Seq(S) /\ Len(l) = n /\ \A i \in 1 .. n : l[i] = s[i]
  BY <1>1, Cut
<1>3. r \in Seq(S) /\ Len(r) = n + 1 /\ \A i \in 1 .. n + 1 : r[i] = s[i]
  BY <1>1, Cut
<1> HIDE DEF l, r
<1>4. w \in Seq(S) /\ Len(w) = n + 1 /\ (\A i \in 1 .. n : w[i] = l[i]) /\ w[n + 1] = e
  <2> HIDE DEF e
  <2> QED
    BY <1>1, <1>2, AppendProperties
<1> HIDE DEF w
<1>5. \A i \in 1 .. n + 1 : w[i] = r[i]
  <2> TAKE i \in 1 .. n + 1
  <2>1. i \in 1 .. n \/ i = n + 1
    OBVIOUS
  <2> QED
    BY <1>2, <1>3, <1>4, <2>1
<1>6. w = r
  BY <1>3, <1>4, <1>5, SeqEqual
<1> QED
  BY <1>6 DEF w, l, r

\* Where no operand is being read
Idle(args) == Reading(args, <<>>, "gap")

LEMMA IdleScans ==
  ASSUME NEW args \in Seq(Seq(Nat))
  PROVE  Idle(args) \in Scans
<1>1. <<>> \in Seq(Nat)
  OBVIOUS
<1> QED
  BY <1>1, ReadingScans DEF Idle

\* Blanks between operands are skipped.
LEMMA ScannedBlank ==
  ASSUME NEW args \in Seq(Seq(Nat)), NEW blank \in Seq(Nat), IsBlank(blank)
  PROVE  Scanned(Idle(args), blank) = Idle(args)
<1> DEFINE s == Idle(args)
           f == [i \in 0 .. Len(blank) |-> s]
<1>1. s \in Scans /\ Extract(s, Space) = s
  <2>1. s \in Scans
    BY IdleScans
  <2>2. Extract(Reading(args, <<>>, "gap"), Space) = Reading(args, <<>>, "gap")
    BY GapMoves
  <2> QED
    BY <2>1, <2>2, Zenon DEF Idle
<1>2. \A i \in 1 .. Len(blank) : blank[i] = Space
  <2>1. \A i \in 1 .. Len(blank) : blank[i] \in ToSet(blank)
    BY DEF ToSet
  <2> QED
    BY <2>1 DEF IsBlank
<1> HIDE DEF s
<1>3. Loops(f, s, blank)
  <2>1. f[0] = s /\ f[Len(blank)] = s
    OBVIOUS
  <2>2. \A i \in 1 .. Len(blank) : f[i] = s /\ f[i - 1] = s
    OBVIOUS
  <2> HIDE DEF f
  <2> QED
    BY <1>1, <1>2, <2>1, <2>2 DEF Loops
<1>4. f[Len(blank)] = s
  OBVIOUS
<1> HIDE DEF f
<1>5. Scanned(s, blank) = s
  BY <1>1, <1>3, <1>4, ScanIs
<1> QED
  BY <1>5 DEF s

\* A word that needs no quotes
IsPlain(arg) == arg # <<>> /\ Space \notin ToSet(arg) /\ arg[1] # Quote

LEMMA ScannedWord ==
  ASSUME NEW args \in Seq(Seq(Nat)), NEW arg \in Seq(Nat), IsPlain(arg)
  PROVE  Scanned(Idle(args), arg) = Reading(args, arg, "word")
<1> DEFINE n == Len(arg)
           cut(i) == SubSeq(arg, 1, i)
           f == [i \in 0 .. n |-> IF i = 0 THEN Idle(args) ELSE Reading(args, cut(i), "word")]
<1>1. n \in Nat /\ n # 0 /\ arg[1] # Quote /\ \A i \in 1 .. n : arg[i] # Space
  BY EmptySeq DEF IsPlain, ToSet
<1>2. cut(0) = <<>> /\ cut(n) = arg
  BY SubSeqEmpty, SubSeqFull
<1>3. \A i \in 1 .. n : Append(cut(i - 1), arg[i]) = cut(i)
  <2> TAKE i \in 1 .. n
  <2>1. i - 1 \in Nat /\ (i - 1) + 1 = i /\ (i - 1) + 1 <= Len(arg)
    BY <1>1
  <2> QED
    BY <2>1, OneFurther
<1>4. f[0] = Idle(args) /\ \A i \in 1 .. n : f[i] = Reading(args, cut(i), "word")
  <2>1. 0 \in 0 .. n /\ \A i \in 1 .. n : i \in 0 .. n /\ i # 0
    BY <1>1
  <2> HIDE DEF cut
  <2> QED
    BY <2>1
<1> HIDE DEF cut, f
<1>5. \A i \in 1 .. n : f[i] = Extract(f[i - 1], arg[i])
  <2> TAKE i \in 1 .. n
  <2>1. CASE i = 1
    <3>1. f[0] = Reading(args, cut(0), "gap") /\ i - 1 = 0
      BY <1>2, <1>4, <2>1 DEF Idle
    <3>2. Extract(Reading(args, cut(0), "gap"), arg[i]) = Reading(args, Append(cut(0), arg[i]), "word")
      BY <1>1, <2>1, GapMoves
    <3>3. Append(cut(0), arg[i]) = cut(i)
      BY <1>3, <3>1
    <3> QED
      BY <1>4, <3>1, <3>2, <3>3
  <2>2. CASE i # 1
    <3>1. i - 1 \in 1 .. n
      BY <1>1, <2>2
    <3>2. f[i - 1] = Reading(args, cut(i - 1), "word")
      BY <1>4, <3>1
    <3>3. Extract(Reading(args, cut(i - 1), "word"), arg[i]) = Reading(args, Append(cut(i - 1), arg[i]), "word")
      BY <1>1, WordMoves
    <3> QED
      BY <1>3, <1>4, <3>2, <3>3
  <2> QED
    BY <2>1, <2>2
<1>6. Loops(f, Idle(args), arg)
  BY <1>4, <1>5 DEF Loops
<1>7. f[n] = Reading(args, arg, "word")
  <2>1. n \in 1 .. n
    BY <1>1
  <2> QED
    BY <1>2, <1>4, <2>1
<1> QED
  BY <1>6, <1>7, IdleScans, ScanIs

\* A character as it is written within quotes
Piece(ch) == IF ch \in {Quote, Back} THEN <<Back, ch>> ELSE <<ch>>

LEMMA ScannedPiece ==
  ASSUME NEW args \in Seq(Seq(Nat)), NEW arg \in Seq(Nat), NEW ch \in Nat
  PROVE  /\ Piece(ch) \in Seq(Nat)
         /\ Scanned(Reading(args, arg, "quotes"), Piece(ch)) = Reading(args, Append(arg, ch), "quotes")
<1> DEFINE s == Reading(args, arg, "quotes")
           e == Reading(args, arg, "escape")
           t == Reading(args, Append(arg, ch), "quotes")
<1>1. s \in Scans /\ e \in Scans
  BY ReadingScans
<1>2. Back \in Nat /\ <<Back>> \in Seq(Nat) /\ <<ch>> \in Seq(Nat) /\ <<Back, ch>> \in Seq(Nat)
  BY DEF Back
<1>3. Piece(ch) \in Seq(Nat)
  BY <1>2 DEF Piece
<1>4. CASE ch \in {Quote, Back}
  <2>1. Extract(s, Back) = e /\ Extract(e, ch) = t
    <3>1. Back # Quote
      BY DEF Back, Quote
    <3> QED
      BY <3>1, QuotesMoves, EscapeMoves
  <2> HIDE DEF s, e, t
  <2>2. Scanned(s, <<Back>>) = e
    BY <1>1, <1>2, <2>1, ScannedOne
  <2>3. Scanned(e, <<ch>>) = t
    BY <1>1, <2>1, ScannedOne
  <2>4. <<Back>> \o <<ch>> = <<Back, ch>>
    <3> DEFINE b == Back
    <3>1. b \in Nat
      BY <1>2
    <3> HIDE DEF b
    <3>2. Append(<<b>>, ch) = <<b, ch>>
      BY <3>1, AppendTwo
    <3>3. <<b>> \o <<ch>> = Append(<<b>>, ch)
      BY <3>1
    <3> QED
      BY <3>2, <3>3 DEF b
  <2>5. Scanned(s, <<Back>> \o <<ch>>) = Scanned(Scanned(s, <<Back>>), <<ch>>)
    BY <1>1, <1>2, ScannedJoined
  <2>6. Piece(ch) = <<Back, ch>>
    BY <1>4 DEF Piece
  <2>7. Scanned(s, Piece(ch)) = t
    BY <2>2, <2>3, <2>4, <2>5, <2>6, Zenon
  <2> QED
    BY <1>3, <2>7, Zenon DEF s, t
<1>5. CASE ch \notin {Quote, Back}
  <2>1. Extract(s, ch) = t
    BY <1>5, QuotesMoves
  <2> HIDE DEF s, t
  <2>2. Scanned(s, <<ch>>) = t
    BY <1>1, <2>1, ScannedOne
  <2>3. Piece(ch) = <<ch>>
    BY <1>5 DEF Piece
  <2>4. Scanned(s, Piece(ch)) = t
    BY <2>2, <2>3
  <2> QED
    BY <1>3, <2>4, Zenon DEF s, t
<1> QED
  BY <1>4, <1>5

\* Within quotes every character arrives.
LEMMA ScannedEscaped ==
  ASSUME NEW args \in Seq(Seq(Nat)), NEW arg \in Seq(Nat)
  PROVE  /\ Escaped(arg) \in Seq(Nat)
         /\ Scanned(Reading(args, <<>>, "quotes"), Escaped(arg)) = Reading(args, arg, "quotes")
<1> DEFINE n == Len(arg)
           cut(i) == SubSeq(arg, 1, i)
           pieces == [i \in 1 .. n |-> Piece(arg[i])]
           s == Reading(args, <<>>, "quotes")
<1>1. n \in Nat /\ \A i \in 1 .. n : arg[i] \in Nat
  BY ElementOfSeq
<1>2. /\ cut(0) = <<>> /\ cut(n) = arg /\ (\A i \in 0 .. n : cut(i) \in Seq(Nat))
      /\ \A i \in Nat : i + 1 <= n => Append(cut(i), arg[i + 1]) = cut(i + 1)
  <2>1. cut(0) = <<>> /\ cut(n) = arg
    BY SubSeqEmpty, SubSeqFull
  <2>2. \A i \in 0 .. n : cut(i) \in Seq(Nat)
    BY Cut
  <2>3. \A i \in Nat : i + 1 <= n => Append(cut(i), arg[i + 1]) = cut(i + 1)
    BY OneFurther
  <2> HIDE DEF cut
  <2> QED
    BY <2>1, <2>2, <2>3
<1>3. \A i \in 1 .. n : Piece(arg[i]) \in Seq(Nat)
  <2> TAKE i \in 1 .. n
  <2>1. arg[i] \in Nat /\ <<>> \in Seq(Nat) /\ <<>> \in Seq(Seq(Nat))
    BY <1>1
  <2> QED
    BY <2>1, ScannedPiece
<1>4. Escaped(arg) = FlattenSeq(pieces)
  <2>1. DOMAIN arg = 1 .. n
    OBVIOUS
  <2> QED
    BY <2>1, Zenon DEF Escaped, Piece
<1> HIDE DEF n, cut
<1>5. pieces \in Seq(Seq(Nat)) /\ Len(pieces) = n /\ \A i \in 1 .. n : pieces[i] = Piece(arg[i])
  <2>1. /\ DOMAIN pieces = 1 .. n /\ pieces = [i \in 1 .. n |-> pieces[i]]
        /\ \A i \in 1 .. n : pieces[i] = Piece(arg[i]) /\ pieces[i] \in Seq(Nat)
    BY <1>3
  <2> HIDE DEF pieces
  <2> QED
    BY <1>1, <2>1, TextsMade
<1> HIDE DEF pieces
<1>6. PICK f : Concatenates(f, Nat, pieces)
  BY <1>5, Concatenation
<1>7. /\ f \in [0 .. n -> Seq(Nat)] /\ f[0] = <<>>
      /\ \A i \in 1 .. n : f[i] = f[i - 1] \o pieces[i]
  BY <1>5, <1>6 DEF Concatenates
<1>8. Escaped(arg) = f[n]
  BY <1>4, <1>5, <1>6, Flattened
<1>9. s \in Scans
  <2>1. <<>> \in Seq(Nat)
    OBVIOUS
  <2> QED
    BY <2>1, ReadingScans
<1> DEFINE Reaches(i) == Scanned(s, f[i]) = Reading(args, cut(i), "quotes")
           T == {i \in Nat : i <= n => Reaches(i)}
<1>10. 0 \in T
  <2>1. Scanned(s, <<>>) = s
    BY <1>9, ScannedNone
  <2>2. Reaches(0)
    BY <1>2, <1>7, <2>1, Zenon
  <2> HIDE DEF Reaches
  <2> QED
    BY <2>2
<1>11. \A i \in T : i + 1 \in T
  <2> TAKE i \in T
  <2> SUFFICES ASSUME i \in Nat, i + 1 <= n PROVE Reaches(i + 1)
    <3> HIDE DEF Reaches
    <3> QED
      OBVIOUS
  <2>1. i + 1 \in 1 .. n /\ (i + 1) - 1 = i /\ i \in 0 .. n /\ i <= n
    BY <1>1
  <2>2. Reaches(i)
    <3> HIDE DEF Reaches
    <3> QED
      BY <2>1
  <2> HIDE DEF T, s
  <2> DEFINE ch == arg[i + 1]
  <2>3. ch \in Nat /\ cut(i) \in Seq(Nat) /\ f[i] \in Seq(Nat) /\ Piece(ch) \in Seq(Nat)
    BY <1>1, <1>2, <1>3, <1>7, <2>1
  <2>4. f[i + 1] = f[i] \o Piece(ch)
    BY <1>5, <1>7, <2>1
  <2>5. Append(cut(i), ch) = cut(i + 1)
    BY <1>2, <2>1
  <2> HIDE DEF ch
  <2>6. Scanned(s, f[i] \o Piece(ch)) = Scanned(Scanned(s, f[i]), Piece(ch))
    BY <1>9, <2>3, ScannedJoined
  <2>7. Scanned(Reading(args, cut(i), "quotes"), Piece(ch)) = Reading(args, Append(cut(i), ch), "quotes")
    BY <2>3, ScannedPiece
  <2> QED
    BY <2>2, <2>4, <2>5, <2>6, <2>7, Zenon
<1>12. Reaches(n)
  <2>1. T \subseteq Nat /\ \A i \in T : i <= n => Reaches(i)
    <3> HIDE DEF Reaches
    <3> QED
      OBVIOUS
  <2> HIDE DEF T, Reaches
  <2>2. T = Nat
    BY <1>10, <1>11, <2>1, Induction
  <2>3. n \in T /\ n <= n
    BY <1>1, <2>2
  <2> QED
    BY <2>1, <2>3, Zenon
<1>13. f[n] \in Seq(Nat)
  BY <1>1, <1>7
<1> QED
  BY <1>2, <1>8, <1>12, <1>13, Zenon

--------------------------------------------------------------------------------
(* The operands of a command                                               *)

\* args have been read, the last one perhaps but for the blank that ends it.
Rests(s, args) ==
    \/ s = Idle(args)
    \/ \E a \in Seq(Seq(Nat)), b \in Seq(Nat) : s = Reading(a, b, "word") /\ Append(a, b) = args

LEMMA RestsScans ==
  ASSUME NEW args \in Seq(Seq(Nat)), NEW s, Rests(s, args)
  PROVE  s \in Scans
<1> DEFINE T == Seq(Nat)
           TT == Seq(Seq(Nat))
<1>1. \A a \in TT, b \in T : Reading(a, b, "word") \in Scans
  BY ReadingScans
<1>2. s = Idle(args) \/ \E a \in TT, b \in T : s = Reading(a, b, "word") /\ Append(a, b) = args
  BY DEF Rests
<1>3. Idle(args) \in Scans
  BY IdleScans
<1> HIDE DEF T, TT
<1> QED
  BY <1>1, <1>2, <1>3

\* A blank ends the operand before it.
LEMMA BlankEnds ==
  ASSUME NEW args \in Seq(Seq(Nat)), NEW s, Rests(s, args),
         NEW blank \in Seq(Nat), IsBlank(blank), blank # <<>>
  PROVE  Scanned(s, blank) = Idle(args)
<1>1. CASE s = Idle(args)
  BY <1>1, ScannedBlank
<1>2. CASE s # Idle(args)
  <2>1. PICK a \in Seq(Seq(Nat)), b \in Seq(Nat) : s = Reading(a, b, "word") /\ Append(a, b) = args
    BY <1>2 DEF Rests
  <2> DEFINE one == SubSeq(blank, 1, 1)
             more == SubSeq(blank, 1 + 1, Len(blank))
  <2>2. Len(blank) \in Nat /\ Len(blank) # 0 /\ 1 \in 0 .. Len(blank)
    BY EmptySeq
  <2>3. \A i \in 1 .. Len(blank) : blank[i] = Space
    <3>1. \A i \in 1 .. Len(blank) : blank[i] \in ToSet(blank)
      BY DEF ToSet
    <3> QED
      BY <3>1 DEF IsBlank
  <2>4. /\ one \in Seq(Nat) /\ Len(one) = 1 /\ (\A i \in 1 .. 1 : one[i] = blank[i])
        /\ more \in Seq(Nat) /\ Len(more) = Len(blank) - 1
        /\ (\A i \in 1 .. Len(blank) - 1 : more[i] = blank[1 + i])
        /\ one \o more = blank
    <3>1. blank \in Seq(Nat)
      OBVIOUS
    <3>2. one \in Seq(Nat) /\ Len(one) = 1
      BY <2>2, <3>1, Cut, Zenon
    <3>3. ASSUME NEW i \in 1 .. 1 PROVE one[i] = blank[i]
      BY <2>2, <3>1, <3>3, Cut
    <3>4. more \in Seq(Nat) /\ Len(more) = Len(blank) - 1
      <4>1. ASSUME NEW n \in 0 .. Len(blank)
            PROVE  LET rest == SubSeq(blank, n + 1, Len(blank)) IN rest \in Seq(Nat) /\ Len(rest) = Len(blank) - n
        BY <3>1, Cut
      <4> QED
        BY <2>2, <4>1, Zenon
    <3>5. ASSUME NEW i \in 1 .. Len(blank) - 1 PROVE more[i] = blank[1 + i]
      BY <2>2, <3>1, <3>5, Cut
    <3>6. one \o more = blank
      BY <2>2, <3>1, Cut, Zenon
    <3> HIDE DEF one, more
    <3> QED
      BY <3>2, <3>3, <3>4, <3>5, <3>6, Zenon
  <2> HIDE DEF one, more
  <2>5. one[1] = Space
    BY <2>2, <2>3, <2>4
  <2>6. one = <<Space>>
    <3> DEFINE p == <<Space>>
    <3>1. p \in Seq(Nat) /\ Len(p) = 1 /\ p[1] = Space
      BY DEF Space
    <3> HIDE DEF p
    <3>2. \A i \in 1 .. 1 : one[i] = p[i]
      BY <2>5, <3>1
    <3>3. one = p
      BY <2>4, <3>1, <3>2, SeqEqual
    <3> QED
      BY <3>3 DEF p
  <2>7. IsBlank(more)
    <3>1. ASSUME NEW i \in 1 .. Len(more) PROVE more[i] = Space
      <4>1. i \in 1 .. Len(blank) - 1 /\ 1 + i \in 1 .. Len(blank)
        BY <2>2, <2>4
      <4> QED
        BY <2>3, <2>4, <4>1, Zenon
    <3>2. DOMAIN more = 1 .. Len(more)
      BY <2>4
    <3> QED
      BY <3>1, <3>2 DEF IsBlank, ToSet
  <2>8. s \in Scans
    BY RestsScans
  <2>9. Extract(s, Space) = Idle(args)
    BY <2>1, WordMoves, Zenon DEF Idle
  <2>10. Scanned(s, one) = Idle(args)
    <3>1. Space \in Nat
      BY DEF Space
    <3> QED
      BY <2>6, <2>8, <2>9, <3>1, ScannedOne
  <2>11. Scanned(Idle(args), more) = Idle(args)
    BY <2>4, <2>7, ScannedBlank
  <2>12. Scanned(s, one \o more) = Scanned(Scanned(s, one), more)
    BY <2>4, <2>8, ScannedJoined
  <2> QED
    BY <2>4, <2>10, <2>11, <2>12, Zenon
<1> QED
  BY <1>1, <1>2

\* An operand in quotes
LEMMA ScannedQuoted ==
  ASSUME NEW args \in Seq(Seq(Nat)), NEW arg \in Seq(Nat)
  PROVE  Scanned(Idle(args), <<Quote>> \o Escaped(arg) \o <<Quote>>) = Idle(Append(args, arg))
<1> DEFINE s == Idle(args)
           q == <<Quote>>
           e == Escaped(arg)
           open == Reading(args, <<>>, "quotes")
           shut == Reading(args, arg, "quotes")
           t == Idle(Append(args, arg))
<1>1. q \in Seq(Nat) /\ Quote \in Nat /\ <<>> \in Seq(Nat)
  BY DEF Quote
<1>2. e \in Seq(Nat) /\ Scanned(open, e) = shut
  BY ScannedEscaped
<1>3. s \in Scans /\ open \in Scans /\ shut \in Scans
  BY <1>1, IdleScans, ReadingScans
<1>4. Extract(s, Quote) = open
  <2>1. Quote # Space
    BY DEF Quote, Space
  <2>2. Extract(Reading(args, <<>>, "gap"), Quote) = open
    BY <2>1, GapMoves
  <2> QED
    BY <2>2, Zenon DEF Idle
<1>5. Extract(shut, Quote) = t
  BY QuotesMoves, Zenon DEF Idle
<1>6. Scanned(s, q) = open
  BY <1>1, <1>3, <1>4, ScannedOne, Zenon
<1>7. Scanned(shut, q) = t
  BY <1>1, <1>3, <1>5, ScannedOne, Zenon
<1> HIDE DEF s, q, e, open, shut, t
<1>8. Scanned(s, q \o e) = Scanned(Scanned(s, q), e) /\ q \o e \in Seq(Nat)
  BY <1>1, <1>2, <1>3, ScannedJoined
<1>9. Scanned(s, (q \o e) \o q) = Scanned(Scanned(s, q \o e), q)
  BY <1>1, <1>3, <1>8, ScannedJoined
<1>10. Scanned(s, (q \o e) \o q) = t
  BY <1>2, <1>6, <1>7, <1>8, <1>9, Zenon
<1> QED
  BY <1>10 DEF s, q, e, t

\* One operand more has been read, in quotes or not.
LEMMA OperandScanned ==
  ASSUME NEW args \in Seq(Seq(Nat)), NEW s, Rests(s, args),
         NEW operand \in Seq(Nat), NEW arg \in Seq(Nat), IsTyped(operand, arg)
  PROVE  Rests(Scanned(s, operand), Append(args, arg))
<1>1. PICK n \in 1 .. Len(operand) :
        LET written == SubSeq(operand, n + 1, Len(operand))
        IN  /\ IsBlank(SubSeq(operand, 1, n))
            /\ \/ written = <<Quote>> \o Escaped(arg) \o <<Quote>>
               \/ written = arg /\ IsPlain(arg)
  BY DEF IsTyped, IsPlain
<1> DEFINE blank == SubSeq(operand, 1, n)
           written == SubSeq(operand, n + 1, Len(operand))
<1>2. n \in 0 .. Len(operand) /\ n # 0
  OBVIOUS
<1>3. /\ blank \in Seq(Nat) /\ Len(blank) = n /\ written \in Seq(Nat)
      /\ blank \o written = operand
  BY <1>2, Cut
<1>4. IsBlank(blank)
  BY <1>1
<1>5. (written = <<Quote>> \o Escaped(arg) \o <<Quote>>) \/ (written = arg /\ IsPlain(arg))
  BY <1>1, Zenon
<1> HIDE DEF blank, written
<1>6. blank # <<>>
  BY <1>2, <1>3, EmptySeq
<1>7. Scanned(s, blank) = Idle(args)
  BY <1>3, <1>4, <1>6, BlankEnds
<1>8. Scanned(s, operand) = Scanned(Idle(args), written)
  <2>1. s \in Scans
    BY RestsScans
  <2>2. Scanned(s, blank \o written) = Scanned(Scanned(s, blank), written)
    BY <1>3, <2>1, ScannedJoined
  <2> QED
    BY <1>3, <1>7, <2>2, Zenon
<1>9. CASE written = <<Quote>> \o Escaped(arg) \o <<Quote>>
  <2>1. Scanned(Idle(args), <<Quote>> \o Escaped(arg) \o <<Quote>>) = Idle(Append(args, arg))
    BY ScannedQuoted
  <2> QED
    BY <1>8, <1>9, <2>1, Zenon DEF Rests
<1>10. CASE written = arg /\ IsPlain(arg)
  <2>1. Scanned(s, operand) = Reading(args, arg, "word")
    BY <1>8, <1>10, ScannedWord
  <2> QED
    BY <2>1, Zenon DEF Rests
<1> QED
  BY <1>5, <1>9, <1>10

\* The operands as they are typed, and as they are meant
Typed(operands, args) ==
    /\ operands \in Seq(Seq(Nat)) /\ args \in Seq(Seq(Nat)) /\ Len(operands) = Len(args)
    /\ \A i \in DOMAIN args : IsTyped(operands[i], args[i])

\* All operands, one after another
LEMMA AllScanned ==
  ASSUME NEW operands, NEW args, Typed(operands, args)
  PROVE  FlattenSeq(operands) \in Seq(Nat) /\ Rests(Scanned(Start, FlattenSeq(operands)), args)
<1> DEFINE n == Len(args)
           S == Seq(Nat)
           cut(i) == SubSeq(args, 1, i)
<1>1. /\ operands \in Seq(Seq(Nat)) /\ args \in Seq(Seq(Nat)) /\ Len(operands) = n /\ n \in Nat
      /\ \A i \in 1 .. n : IsTyped(operands[i], args[i])
  <2>1. operands \in Seq(S) /\ args \in Seq(S) /\ Len(operands) = n /\ \A i \in DOMAIN args : IsTyped(operands[i], args[i])
    BY DEF Typed
  <2> HIDE DEF S
  <2>2. n \in Nat /\ DOMAIN args = 1 .. n
    BY <2>1
  <2> QED
    BY <2>1, <2>2 DEF S
<1>2. \A i \in 1 .. n : operands[i] \in S /\ args[i] \in S
  <2>1. operands \in Seq(S) /\ args \in Seq(S)
    BY <1>1
  <2> HIDE DEF S
  <2> QED
    BY <1>1, <2>1, ElementOfSeq
<1>3. /\ cut(0) = <<>> /\ cut(n) = args /\ (\A i \in 0 .. n : cut(i) \in Seq(S))
      /\ \A i \in Nat : i + 1 <= n => Append(cut(i), args[i + 1]) = cut(i + 1)
  <2>1. args \in Seq(S)
    BY <1>1
  <2> HIDE DEF S
  <2>2. cut(0) = <<>> /\ cut(n) = args
    BY <2>1, SubSeqEmpty, SubSeqFull
  <2>3. \A i \in 0 .. n : cut(i) \in Seq(S)
    BY <2>1, Cut
  <2>4. \A i \in Nat : i + 1 <= n => Append(cut(i), args[i + 1]) = cut(i + 1)
    BY <2>1, OneFurther
  <2> HIDE DEF cut
  <2> QED
    BY <2>2, <2>3, <2>4
<1> HIDE DEF n, cut
<1>4. PICK f : Concatenates(f, Nat, operands)
  BY <1>1, Concatenation
<1>5. /\ f \in [0 .. n -> Seq(Nat)] /\ f[0] = <<>>
      /\ \A i \in 1 .. n : f[i] = f[i - 1] \o operands[i]
  BY <1>1, <1>4 DEF Concatenates
<1>6. FlattenSeq(operands) = f[n]
  BY <1>1, <1>4, Flattened
<1>7. Start = Idle(<<>>) /\ Start \in Scans
  <2> DEFINE none == <<>>
  <2>1. none \in Seq(S)
    <3> HIDE DEF S
    <3> QED
      OBVIOUS
  <2>2. Start = Idle(none)
    BY DEF Start, Idle
  <2> HIDE DEF none
  <2>3. Idle(none) \in Scans
    BY <2>1, IdleScans DEF S
  <2> QED
    BY <2>2, <2>3 DEF none
<1> DEFINE Reaches(i) == Rests(Scanned(Start, f[i]), cut(i))
           T == {i \in Nat : i <= n => Reaches(i)}
<1>8. 0 \in T
  <2>1. Scanned(Start, <<>>) = Start
    BY <1>7, ScannedNone
  <2>2. Reaches(0)
    BY <1>3, <1>5, <1>7, <2>1, Zenon DEF Rests
  <2> HIDE DEF Reaches
  <2> QED
    BY <2>2
<1>9. \A i \in T : i + 1 \in T
  <2> TAKE i \in T
  <2> SUFFICES ASSUME i \in Nat, i + 1 <= n PROVE Reaches(i + 1)
    <3> HIDE DEF Reaches
    <3> QED
      OBVIOUS
  <2>1. i + 1 \in 1 .. n /\ (i + 1) - 1 = i /\ i \in 0 .. n /\ i <= n
    BY <1>1
  <2>2. Reaches(i)
    <3> HIDE DEF Reaches
    <3> QED
      BY <2>1
  <2> HIDE DEF T
  <2> DEFINE operand == operands[i + 1]
             arg == args[i + 1]
             s == Scanned(Start, f[i])
  <2>3. operand \in Seq(Nat) /\ arg \in Seq(Nat) /\ f[i] \in Seq(Nat) /\ IsTyped(operand, arg)
    BY <1>1, <1>2, <1>5, <2>1
  <2>4. cut(i) \in Seq(Seq(Nat))
    BY <1>3, <2>1
  <2>5. f[i + 1] = f[i] \o operand
    BY <1>5, <2>1
  <2>6. Append(cut(i), arg) = cut(i + 1)
    BY <1>3, <2>1
  <2> HIDE DEF operand, arg
  <2>7. Scanned(Start, f[i] \o operand) = Scanned(s, operand)
    BY <1>7, <2>3, ScannedJoined
  <2>8. Rests(s, cut(i))
    BY <2>2
  <2> HIDE DEF s
  <2>9. Rests(Scanned(s, operand), Append(cut(i), arg))
    BY <2>3, <2>4, <2>8, OperandScanned
  <2> QED
    BY <2>5, <2>6, <2>7, <2>9, Zenon
<1>10. Reaches(n)
  <2>1. T \subseteq Nat /\ \A i \in T : i <= n => Reaches(i)
    <3> HIDE DEF Reaches
    <3> QED
      OBVIOUS
  <2> HIDE DEF T, Reaches
  <2>2. T = Nat
    BY <1>8, <1>9, <2>1, Induction
  <2>3. n \in T /\ n <= n
    BY <1>1, <2>2
  <2> QED
    BY <2>1, <2>3, Zenon
<1>11. f[n] \in Seq(Nat)
  BY <1>1, <1>5
<1> QED
  BY <1>3, <1>6, <1>10, <1>11, Zenon

\* What the end of the line leaves
Given(s) == IF s.in = "word" THEN Append(s.args, s.arg) ELSE s.args

LEMMA RestsGive ==
  ASSUME NEW args, NEW s, Rests(s, args)
  PROVE  Given(s) = args
<1>1. CASE s = Idle(args)
  <2>1. s.in = "gap" /\ s.args = args
    BY <1>1, ReadingIs DEF Idle
  <2> QED
    BY <2>1 DEF Given
<1>2. CASE s # Idle(args)
  <2>1. PICK a \in Seq(Seq(Nat)), b \in Seq(Nat) : s = Reading(a, b, "word") /\ Append(a, b) = args
    BY <1>2 DEF Rests
  <2>2. s.in = "word" /\ s.args = a /\ s.arg = b
    BY <2>1, ReadingIs
  <2> QED
    BY <2>1, <2>2, Zenon DEF Given
<1> QED
  BY <1>1, <1>2

LEMMA OperandsIs ==
  ASSUME NEW text \in Seq(Nat)
  PROVE  Operands(text) = Given(Scanned(Start, text))
BY Zenon DEF Operands, Given, Scanned, Start, Reading

\* No operand is lost between blanks, and the rest, if it is blank, adds none.
LEMMA BlankGives ==
  ASSUME NEW args \in Seq(Seq(Nat)), NEW s, Rests(s, args), NEW rest \in Seq(Nat), IsBlank(rest)
  PROVE  Given(Scanned(s, rest)) = args
<1>1. CASE rest = <<>>
  <2>1. s \in Scans
    BY RestsScans
  <2>2. Scanned(s, <<>>) = s
    BY <2>1, ScannedNone
  <2>3. Given(s) = args
    BY RestsGive
  <2> QED
    BY <1>1, <2>2, <2>3, Zenon
<1>2. CASE rest # <<>>
  <2>1. Scanned(s, rest) = Idle(args)
    BY <1>2, BlankEnds
  <2>2. Rests(Idle(args), args)
    BY Zenon DEF Rests
  <2> QED
    BY <2>1, <2>2, RestsGive, Zenon
<1> QED
  BY <1>1, <1>2

\* A quote at the p-th character that none of the later ones closes
Unclosed(rest, p, escaped) ==
    /\ p \in 1 .. Len(rest) /\ rest[p] = Quote
    /\ \A i \in p + 1 .. Len(rest) :
        /\ escaped[i] <=> rest[i - 1] = Back /\ ~escaped[i - 1]
        /\ rest[i] = Quote => escaped[i]

\* A quote that is not closed gives nothing.
LEMMA UnclosedGives ==
  ASSUME NEW args \in Seq(Seq(Nat)), NEW text \in Seq(Nat), NEW escaped, Unclosed(text, 1, escaped)
  PROVE  Given(Scanned(Idle(args), text)) = args
<1> DEFINE m == Len(text)
           esc(i) == text[i] = Back /\ ~escaped[i]
           s == Idle(args)
           Quoting(x, e) == \E b \in Seq(Nat) : x = Reading(args, b, IF e THEN "escape" ELSE "quotes")
<1>1. /\ m \in Nat /\ m # 0 /\ text[1] = Quote
      /\ \A i \in 2 .. m : (escaped[i] <=> esc(i - 1)) /\ (text[i] = Quote => escaped[i])
  BY DEF Unclosed
<1>2. \A i \in 1 .. m : text[i] \in Nat
  BY ElementOfSeq
<1>3. PICK f \in [0 .. m -> Scans] : Loops(f, s, text) /\ Scanned(s, text) = f[m]
  BY IdleScans, ScanLoop
<1>4. f[0] = s /\ \A i \in 1 .. m : f[i] = Extract(f[i - 1], text[i])
  BY <1>3 DEF Loops
<1> HIDE DEF m, s
<1> DEFINE T == {i \in Nat : i + 1 <= m => Quoting(f[i + 1], esc(i + 1))}
<1>5. 0 \in T
  <2>1. f[1] = Extract(s, Quote)
    <3>1. 1 \in 1 .. m /\ 1 - 1 = 0
      BY <1>1
    <3> QED
      BY <1>1, <1>4, <3>1
  <2>2. Extract(Reading(args, <<>>, "gap"), Quote) = Reading(args, <<>>, "quotes")
    <3>1. Quote # Space
      BY DEF Quote, Space
    <3> QED
      BY <3>1, GapMoves
  <2>3. f[1] = Reading(args, <<>>, "quotes")
    BY <2>1, <2>2, Zenon DEF s, Idle
  <2>4. ~esc(1)
    BY <1>1 DEF Quote, Back
  <2>5. <<>> \in Seq(Nat)
    OBVIOUS
  <2> HIDE DEF esc
  <2>6. Quoting(f[1], esc(1))
    BY <2>3, <2>4, <2>5, Zenon
  <2> HIDE DEF Quoting
  <2>7. 0 + 1 = 1
    OBVIOUS
  <2> QED
    BY <2>6, <2>7
<1>6. \A i \in T : i + 1 \in T
  <2> TAKE i \in T
  <2> SUFFICES ASSUME i \in Nat, (i + 1) + 1 <= m PROVE Quoting(f[(i + 1) + 1], esc((i + 1) + 1))
    <3> HIDE DEF Quoting, esc
    <3> QED
      OBVIOUS
  <2>1. i + 1 <= m /\ (i + 1) + 1 \in 2 .. m /\ (i + 1) + 1 \in 1 .. m /\ ((i + 1) + 1) - 1 = i + 1
    BY <1>1
  <2>2. Quoting(f[i + 1], esc(i + 1))
    <3> HIDE DEF Quoting, esc
    <3> QED
      BY <2>1
  <2> HIDE DEF T
  <2> DEFINE j == (i + 1) + 1
             ch == text[j]
  <2>3. ch \in Nat /\ (escaped[j] <=> esc(i + 1)) /\ (ch = Quote => escaped[j])
        /\ f[j] = Extract(f[i + 1], ch) /\ (esc(j) <=> ch = Back /\ ~escaped[j])
    <3>1. (escaped[j] <=> esc(j - 1)) /\ (ch = Quote => escaped[j]) /\ j - 1 = i + 1
      <4> HIDE DEF esc
      <4> QED
        BY <1>1, <2>1
    <3>2. ch \in Nat /\ f[j] = Extract(f[j - 1], ch)
      BY <1>2, <1>4, <2>1
    <3>3. escaped[j] <=> esc(i + 1)
      <4> HIDE DEF esc, j
      <4> QED
        BY <3>1
    <3> HIDE DEF j, ch
    <3>4. esc(j) <=> ch = Back /\ ~escaped[j]
      BY DEF ch
    <3> HIDE DEF esc
    <3> QED
      BY <3>1, <3>2, <3>3, <3>4
  <2>4. PICK b \in Seq(Nat) : f[i + 1] = Reading(args, b, IF esc(i + 1) THEN "escape" ELSE "quotes")
    BY <2>2
  <2> HIDE DEF j, ch, esc
  <2> DEFINE more == Append(b, ch)
  <2>5. more \in Seq(Nat)
    BY <2>3
  <2>6. CASE esc(i + 1)
    <3>1. f[j] = Reading(args, more, "quotes")
      BY <2>3, <2>4, <2>6, EscapeMoves
    <3>2. ~esc(j)
      BY <2>3, <2>6
    <3> HIDE DEF more
    <3>3. Quoting(f[j], esc(j))
      BY <2>5, <3>1, <3>2, Zenon
    <3> QED
      BY <3>3 DEF j
  <2>7. CASE ~esc(i + 1)
    <3>1. ch # Quote /\ f[i + 1] = Reading(args, b, "quotes") /\ (esc(j) <=> ch = Back)
      BY <2>3, <2>4, <2>7, Zenon
    <3>2. f[j] = IF ch = Back THEN Reading(args, b, "escape") ELSE Reading(args, more, "quotes")
      BY <2>3, <3>1, QuotesMoves
    <3> HIDE DEF more
    <3>3. Quoting(f[j], esc(j))
      <4>1. CASE ch = Back
        BY <3>1, <3>2, <4>1, Zenon
      <4>2. CASE ch # Back
        BY <2>5, <3>1, <3>2, <4>2, Zenon
      <4> QED
        BY <4>1, <4>2
    <3> QED
      BY <3>3 DEF j
  <2> QED
    BY <2>6, <2>7
<1>7. Quoting(f[m], esc(m))
  <2>1. T \subseteq Nat /\ \A i \in T : i + 1 <= m => Quoting(f[i + 1], esc(i + 1))
    <3> HIDE DEF Quoting, esc
    <3> QED
      OBVIOUS
  <2> HIDE DEF T, Quoting, esc
  <2>2. T = Nat
    BY <1>5, <1>6, <2>1, Induction
  <2>3. m - 1 \in T /\ (m - 1) + 1 = m /\ m <= m
    BY <1>1, <2>2
  <2>4. Quoting(f[(m - 1) + 1], esc((m - 1) + 1))
    BY <2>1, <2>3
  <2> QED
    BY <2>3, <2>4, Zenon
<1>8. PICK b \in Seq(Nat) : f[m] = Reading(args, b, IF esc(m) THEN "escape" ELSE "quotes")
  BY <1>7
<1> HIDE DEF esc
<1>9. f[m].args = args /\ f[m].in # "word"
  <2>1. CASE esc(m)
    BY <1>8, <2>1, ReadingIs
  <2>2. CASE ~esc(m)
    BY <1>8, <2>2, ReadingIs
  <2> QED
    BY <2>1, <2>2
<1>10. Scanned(s, text) = f[m]
  BY <1>3
<1> QED
  BY <1>9, <1>10, Zenon DEF Given, s

\* What follows the last operand adds none: blanks, or a quote that is never closed.
LEMMA RestGives ==
  ASSUME NEW args \in Seq(Seq(Nat)), NEW s, Rests(s, args), NEW rest \in Seq(Nat), IsRest(rest)
  PROVE  Given(Scanned(s, rest)) = args
<1>1. CASE IsBlank(rest)
  BY <1>1, BlankGives
<1>2. CASE ~IsBlank(rest)
  <2> DEFINE l == Len(rest)
  <2>1. PICK n \in 1 .. l - 1 :
            /\ IsBlank(SubSeq(rest, 1, n)) /\ rest[n + 1] = Quote
            /\ \E escaped \in [n + 1..l -> BOOLEAN] :
                \A i \in n + 2..l :
                    /\ escaped[i] <=> rest[i - 1] = Back /\ ~escaped[i - 1]
                    /\ rest[i] = Quote => escaped[i]
    BY <1>2 DEF IsRest
  <2>2. PICK escaped \in [n + 1..l -> BOOLEAN] :
                \A i \in n + 2..l :
                    /\ escaped[i] <=> rest[i - 1] = Back /\ ~escaped[i - 1]
                    /\ rest[i] = Quote => escaped[i]
    BY <2>1
  <2> DEFINE blank == SubSeq(rest, 1, n)
             text == SubSeq(rest, n + 1, l)
             shifted == [i \in 1 .. l |-> escaped[n + i]]
  <2>3. l \in Nat /\ n \in Nat /\ n # 0 /\ n < l /\ n \in 0 .. Len(rest)
    OBVIOUS
  <2>4. /\ blank \in Seq(Nat) /\ Len(blank) = n
        /\ text \in Seq(Nat) /\ Len(text) = l - n /\ (\A i \in 1 .. l - n : text[i] = rest[n + i])
        /\ blank \o text = rest
    BY <2>3, Cut
  <2>5. IsBlank(blank)
    BY <2>1
  <2> HIDE DEF blank, text, l
  <2>6. Unclosed(text, 1, shifted)
    <3>1. 1 \in 1 .. Len(text) /\ text[1] = Quote
      <4>1. 1 \in 1 .. l - n
        BY <2>3
      <4> QED
        BY <2>1, <2>4, <4>1
    <3>2. ASSUME NEW i \in 1 + 1 .. Len(text)
          PROVE  /\ shifted[i] <=> text[i - 1] = Back /\ ~shifted[i - 1]
                 /\ text[i] = Quote => shifted[i]
      <4>1. /\ i \in 1 .. l - n /\ i - 1 \in 1 .. l - n /\ i \in 1 .. l /\ i - 1 \in 1 .. l
            /\ n + i \in n + 2 .. l /\ n + (i - 1) = (n + i) - 1
        BY <2>3, <2>4
      <4>2. shifted[i] = escaped[n + i] /\ shifted[i - 1] = escaped[(n + i) - 1]
        BY <4>1
      <4>3. text[i] = rest[n + i] /\ text[i - 1] = rest[(n + i) - 1]
        BY <2>4, <4>1
      <4>4. /\ escaped[n + i] <=> rest[(n + i) - 1] = Back /\ ~escaped[(n + i) - 1]
            /\ rest[n + i] = Quote => escaped[n + i]
        BY <2>2, <4>1
      <4> HIDE DEF shifted
      <4> QED
        BY <4>2, <4>3, <4>4, Zenon
    <3> HIDE DEF shifted
    <3> QED
      BY <3>1, <3>2 DEF Unclosed
  <2>7. Scanned(s, blank) = Idle(args)
    <3>1. blank # <<>>
      BY <2>3, <2>4, EmptySeq
    <3> QED
      BY <2>4, <2>5, <3>1, BlankEnds
  <2>8. Scanned(s, rest) = Scanned(Idle(args), text)
    <3>1. s \in Scans
      BY RestsScans
    <3>2. Scanned(s, blank \o text) = Scanned(Scanned(s, blank), text)
      BY <2>4, <3>1, ScannedJoined
    <3> QED
      BY <2>4, <2>7, <3>2, Zenon
  <2> HIDE DEF shifted
  <2>9. Given(Scanned(Idle(args), text)) = args
    BY <2>4, <2>6, UnclosedGives
  <2> QED
    BY <2>8, <2>9, Zenon
<1> QED
  BY <1>1, <1>2

\* The operands that the user means are those that are read.
LEMMA OperandsRead ==
  ASSUME NEW operands, NEW args, Typed(operands, args), NEW rest \in Seq(Nat), IsRest(rest)
  PROVE  Operands(FlattenSeq(operands) \o rest) = args
<1> DEFINE text == FlattenSeq(operands)
           s == Scanned(Start, text)
<1>1. text \in Seq(Nat) /\ Rests(s, args)
  BY AllScanned
<1>2. args \in Seq(Seq(Nat))
  BY DEF Typed
<1>3. Start \in Scans
  <2> DEFINE none == <<>>
             TT == Seq(Seq(Nat))
  <2>1. none \in TT
    <3> DEFINE S == Seq(Nat)
    <3>1. none \in Seq(S)
      <4> HIDE DEF S
      <4> QED
        OBVIOUS
    <3> QED
      BY <3>1
  <2>2. Start = Idle(none)
    BY DEF Start, Idle
  <2> HIDE DEF none
  <2> QED
    BY <2>1, <2>2, IdleScans
<1> HIDE DEF text
<1>4. Scanned(Start, text \o rest) = Scanned(s, rest)
  BY <1>1, <1>3, ScannedJoined
<1>5. text \o rest \in Seq(Nat)
  BY <1>1
<1> HIDE DEF s
<1>6. Operands(text \o rest) = Given(Scanned(Start, text \o rest))
  BY <1>5, OperandsIs
<1>7. Given(Scanned(s, rest)) = args
  BY <1>1, <1>2, RestGives
<1> QED
  BY <1>4, <1>6, <1>7, Zenon DEF text

--------------------------------------------------------------------------------
(* The first word of a line, and all of it                                 *)

\* find_first_not_of and find_first_of a space: 0 when there is none
First(text) == SelectInSeq(text, LAMBDA ch : ch # Space)
Blank(text) == SelectInSeq(text, LAMBDA ch : ch = Space)

LEMMA FirstIs ==
  ASSUME NEW text \in Seq(Nat)
  PROVE  /\ First(text) \in 0 .. Len(text) /\ Blank(text) \in 0 .. Len(text)
         /\ First(text) # 0 => text[First(text)] # Space
         /\ Blank(text) # 0 => text[Blank(text)] = Space
         /\ \A k \in 1 .. Len(text) : text[k] # Space => First(text) # 0 /\ First(text) <= k
         /\ \A k \in 1 .. Len(text) : text[k] = Space => Blank(text) # 0 /\ Blank(text) <= k
<1> DEFINE n == Len(text)
           I == {i \in 1 .. n : text[i] # Space}
           J == {i \in 1 .. n : text[i] = Space}
<1>1. First(text) = IF I # {} THEN Min(I) ELSE 0
  BY DEF First, SelectInSeq
<1>2. Blank(text) = IF J # {} THEN Min(J) ELSE 0
  BY DEF Blank, SelectInSeq
<1>3. n \in Nat /\ I \subseteq 1 .. n /\ J \subseteq 1 .. n
  OBVIOUS
<1>4. /\ \A k \in I : text[k] # Space
      /\ \A k \in J : text[k] = Space
      /\ \A k \in 1 .. n : (text[k] # Space => k \in I) /\ (text[k] = Space => k \in J)
  OBVIOUS
<1> HIDE DEF I, J, n
<1>5. I # {} => Min(I) \in I /\ \A j \in I : Min(I) <= j
  BY <1>3, Extremes
<1>6. J # {} => Min(J) \in J /\ \A j \in J : Min(J) <= j
  BY <1>3, Extremes
<1>7. First(text) \in 0 .. n
  <2>1. First(text) = 0 \/ First(text) \in 1 .. n
    BY <1>1, <1>3, <1>5
  <2> QED
    BY <1>3, <2>1
<1>8. Blank(text) \in 0 .. n
  <2>1. Blank(text) = 0 \/ Blank(text) \in 1 .. n
    BY <1>2, <1>3, <1>6
  <2> QED
    BY <1>3, <2>1
<1>9. First(text) # 0 => text[First(text)] # Space
  BY <1>1, <1>5, <1>4
<1>10. Blank(text) # 0 => text[Blank(text)] = Space
  BY <1>2, <1>6, <1>4
<1>11. \A k \in I : First(text) # 0 /\ First(text) <= k
  BY <1>1, <1>3, <1>5
<1>12. \A k \in J : Blank(text) # 0 /\ Blank(text) <= k
  BY <1>2, <1>3, <1>6
<1>13. \A k \in 1 .. n : text[k] # Space => First(text) # 0 /\ First(text) <= k
  BY <1>4, <1>11
<1>14. \A k \in 1 .. n : text[k] = Space => Blank(text) # 0 /\ Blank(text) <= k
  BY <1>4, <1>12
<1> QED
  BY <1>7, <1>8, <1>9, <1>10, <1>13, <1>14, Zenon DEF n

\* parse_command, once the first word is found
Rest(line) == IF First(line) = 0 THEN <<>> ELSE SubSeq(line, First(line), Len(line))

Stop(text) == IF Blank(text) = 0 THEN Len(text) ELSE Blank(text) - 1

Parsed(word, after) == [command |-> get_command_from_string(word), args |-> Operands(after)]

\* The line is split after its first word.
LEMMA ParsedAt ==
  ASSUME NEW line
  PROVE  LET text == Rest(line)
         IN  parse_command(line) =
                Parsed(SubSeq(text, 1, Stop(text)), SubSeq(text, Stop(text) + 1, Len(text)))
BY Zenon DEF parse_command, Rest, Stop, First, Blank, Parsed

\* A word ends at the first blank after it.
LEMMA WordStops ==
  ASSUME NEW word \in Seq(Nat), NEW after \in Seq(Nat), Lacks(word, Space),
         after # <<>> => after[1] = Space
  PROVE  LET text == word \o after
         IN  SubSeq(text, 1, Stop(text)) = word /\ SubSeq(text, Stop(text) + 1, Len(text)) = after
<1> DEFINE text == word \o after
           m == Len(word)
           k == Len(after)
<1>1. text \in Seq(Nat) /\ Len(text) = m + k /\ m \in Nat /\ k \in Nat
  OBVIOUS
<1>2. (\A i \in 1 .. m : text[i] = word[i]) /\ \A i \in 1 .. k : text[m + i] = after[i]
  BY Joined
<1>3. SubSeq(text, 1, m) = word /\ SubSeq(text, m + 1, Len(text)) = after
  <2>1. SubSeq(text, m + 1, Len(text)) = after
    BY RestOfJoined
  <2>2. 0 \in 0 .. k /\ m + 0 = m
    BY <1>1
  <2>3. SubSeq(text, 1, m + 0) = word \o SubSeq(after, 1, 0)
    BY <2>2, BeginOfJoined
  <2>4. SubSeq(after, 1, 0) = <<>>
    BY SubSeqEmpty
  <2>5. word \o <<>> = word
    BY ConcatEmptySeq
  <2> HIDE DEF text
  <2> QED
    BY <2>1, <2>2, <2>3, <2>4, <2>5
<1>4. \A i \in 1 .. m : word[i] # Space
  BY DEF Lacks
<1>5. k # 0 => after[1] = Space
  <2>1. k # 0 => after # <<>>
    BY EmptySeq
  <2> QED
    BY <2>1
<1> HIDE DEF text, m, k
<1>6. Stop(text) = m
  <2>1. /\ Blank(text) \in 0 .. m + k
        /\ Blank(text) # 0 => text[Blank(text)] = Space
        /\ \A i \in 1 .. m + k : text[i] = Space => Blank(text) # 0 /\ Blank(text) <= i
    BY <1>1, FirstIs
  <2>2. Blank(text) \notin 1 .. m
    BY <1>1, <1>2, <1>4, <2>1
  <2>3. CASE k = 0
    <3>1. Blank(text) = 0
      BY <1>1, <2>1, <2>2, <2>3
    <3> QED
      BY <1>1, <2>3, <3>1 DEF Stop
  <2>4. CASE k # 0
    <3>1. 1 \in 1 .. k /\ m + 1 \in 1 .. m + k
      BY <1>1, <2>4
    <3>2. text[m + 1] = Space
      BY <1>2, <1>5, <2>4, <3>1
    <3>3. Blank(text) # 0 /\ Blank(text) <= m + 1
      BY <2>1, <3>1, <3>2
    <3>4. Blank(text) = m + 1
      BY <1>1, <2>1, <2>2, <3>3
    <3> QED
      BY <1>1, <3>3, <3>4 DEF Stop
  <2> QED
    BY <2>3, <2>4
<1> QED
  BY <1>3, <1>6, Zenon DEF text

\* Leading blanks are skipped, and the word ends where the operands begin.
LEMMA CommandParsed ==
  ASSUME NEW blank \in Seq(Nat), NEW word \in Seq(Nat), NEW after \in Seq(Nat),
         IsBlank(blank), Lacks(word, Space),
         after # <<>> => word # <<>> /\ after[1] = Space
  PROVE  parse_command(blank \o (word \o after)) = Parsed(word, after)
<1> DEFINE text == word \o after
           line == blank \o text
           n == Len(blank)
<1>1. text \in Seq(Nat)
  OBVIOUS
<1>2. SubSeq(text, 1, Stop(text)) = word /\ SubSeq(text, Stop(text) + 1, Len(text)) = after
  BY WordStops
<1>3. word = <<>> => text = <<>>
  <2>1. word = <<>> => after = <<>>
    OBVIOUS
  <2>2. <<>> \o <<>> = <<>>
    OBVIOUS
  <2> QED
    BY <2>1, <2>2, Zenon
<1>4. word # <<>> => text # <<>> /\ text[1] # Space
  <2>1. ASSUME word # <<>> PROVE Len(word) # 0 /\ 1 \in 1 .. Len(word) /\ Len(text) # 0
    BY <2>1, EmptySeq
  <2>2. ASSUME word # <<>> PROVE text[1] = word[1]
    BY <2>1, <2>2, Joined
  <2>3. ASSUME word # <<>> PROVE word[1] # Space
    BY <2>1, <2>3 DEF Lacks
  <2> HIDE DEF text
  <2>4. Len(text) # 0 => text # <<>>
    BY <1>1, EmptySeq
  <2> QED
    BY <2>1, <2>2, <2>3, <2>4
<1> HIDE DEF text
<1>5. /\ line \in Seq(Nat) /\ Len(line) = n + Len(text) /\ n \in Nat /\ Len(text) \in Nat
      /\ (\A i \in 1 .. n : line[i] = blank[i]) /\ \A i \in 1 .. Len(text) : line[n + i] = text[i]
  <2>1. line \in Seq(Nat) /\ Len(line) = n + Len(text) /\ n \in Nat /\ Len(text) \in Nat
    BY <1>1
  <2>2. \A i \in 1 .. n : line[i] = blank[i]
    BY <1>1, Joined
  <2>3. \A i \in 1 .. Len(text) : line[n + i] = text[i]
    BY <1>1, Joined
  <2> QED
    BY <2>1, <2>2, <2>3
<1>6. SubSeq(line, n + 1, Len(line)) = text
  BY <1>1, RestOfJoined
<1>7. \A i \in 1 .. n : blank[i] = Space
  <2>1. \A i \in 1 .. Len(blank) : blank[i] \in ToSet(blank)
    BY DEF ToSet
  <2> QED
    BY <2>1 DEF IsBlank
<1> HIDE DEF line, n
<1>8. /\ First(line) \in 0 .. n + Len(text)
      /\ First(line) # 0 => line[First(line)] # Space
      /\ \A i \in 1 .. n + Len(text) : line[i] # Space => First(line) # 0 /\ First(line) <= i
  BY <1>5, FirstIs
<1>9. First(line) \notin 1 .. n
  <2> DEFINE i == First(line)
  <2> SUFFICES ASSUME i \in 1 .. n PROVE FALSE
    OBVIOUS
  <2>1. line[i] = Space
    BY <1>5, <1>7
  <2>2. i # 0
    OBVIOUS
  <2> QED
    BY <1>8, <2>1, <2>2
<1>10. Rest(line) = text
  <2>1. CASE word = <<>>
    <3>1. text = <<>> /\ Len(text) = 0
      BY <1>3, <2>1
    <3>2. First(line) = 0
      BY <1>5, <1>8, <1>9, <3>1
    <3> QED
      BY <3>1, <3>2 DEF Rest
  <2>2. CASE word # <<>>
    <3>1. Len(text) # 0
      BY <1>1, <1>4, <2>2, EmptySeq
    <3>2. 1 \in 1 .. Len(text) /\ n + 1 \in 1 .. n + Len(text)
      BY <1>5, <3>1
    <3>3. line[n + 1] # Space
      BY <1>4, <1>5, <2>2, <3>2
    <3>4. First(line) # 0 /\ First(line) <= n + 1
      BY <1>8, <3>2, <3>3
    <3>5. First(line) = n + 1
      BY <1>5, <1>8, <1>9, <3>4
    <3> QED
      BY <1>6, <3>4, <3>5, Zenon DEF Rest
  <2> QED
    BY <2>1, <2>2
<1>11. parse_command(line) = Parsed(word, after)
  BY <1>2, <1>10, ParsedAt, Zenon
<1> QED
  BY <1>11 DEF line, text

--------------------------------------------------------------------------------
(* The name of a file                                                      *)

IsSeparator(ch) == ch \in {Slash, Back}

\* find_last_of the separators: 0 when there is none
Separating(path) == SelectLastInSeq(path, LAMBDA ch : ch \in {Slash, Back})

LEMMA SeparatingIs ==
  ASSUME NEW path \in Seq(Nat)
  PROVE  /\ Separating(path) \in 0 .. Len(path)
         /\ Separating(path) # 0 => IsSeparator(path[Separating(path)])
         /\ \A k \in 1 .. Len(path) : IsSeparator(path[k]) => k <= Separating(path)
         /\ get_filename(path) = SubSeq(path, Separating(path) + 1, Len(path))
<1> DEFINE n == Len(path)
           J == {i \in 1 .. n : path[i] \in {Slash, Back}}
           k == Separating(path)
<1>1. k = IF J # {} THEN Max(J) ELSE 0
  BY DEF Separating, SelectLastInSeq
<1>2. n \in Nat /\ J \subseteq 1 .. n
  OBVIOUS
<1>3. (\A i \in J : IsSeparator(path[i])) /\ \A i \in 1 .. n : IsSeparator(path[i]) => i \in J
  BY DEF IsSeparator
<1>4. get_filename(path) = SubSeq(path, k + 1, Len(path))
  BY Zenon DEF get_filename, Separating
<1> HIDE DEF J, n, k
<1>5. J # {} => Max(J) \in J /\ \A j \in J : j <= Max(J)
  BY <1>2, Extremes
<1>6. k \in 0 .. n
  <2>1. k = 0 \/ k \in 1 .. n
    BY <1>1, <1>2, <1>5
  <2> QED
    BY <1>2, <2>1
<1>7. k # 0 => IsSeparator(path[k])
  BY <1>1, <1>3, <1>5
<1>8. \A i \in 1 .. n : IsSeparator(path[i]) => i <= k
  <2>1. \A i \in J : i <= k
    BY <1>1, <1>2, <1>5
  <2> QED
    BY <1>3, <2>1
<1> QED
  BY <1>4, <1>6, <1>7, <1>8 DEF k, n

LEMMA Reversed ==
  ASSUME NEW s \in Seq(Nat)
  PROVE  /\ Reverse(s) \in Seq(Nat) /\ Len(Reverse(s)) = Len(s)
         /\ \A i \in 1 .. Len(s) : Reverse(s)[i] = s[Len(s) - i + 1]
<1> DEFINE n == Len(s)
           r == [i \in 1 .. n |-> s[(n - i) + 1]]
<1>1. n \in Nat /\ \A i \in 1 .. n : s[i] \in Nat
  BY ElementOfSeq
<1> HIDE DEF n
<1>2. \A i \in 1 .. n : s[(n - i) + 1] \in Nat
  BY <1>1
<1>3. r \in [1 .. n -> Nat]
  BY <1>2
<1>4. \A i \in 1 .. n : r[i] = s[n - i + 1]
  OBVIOUS
<1> HIDE DEF r
<1>5. r \in Seq(Nat) /\ Len(r) = n
  BY <1>1, <1>3
<1> QED
  BY <1>4, <1>5 DEF r, n, Reverse

\* What FileIsWrittenHere says of the name and the path it comes from
IsNameOf(name, path) ==
    /\ ToSet(name) \intersect {Slash, Back} = {}
    /\ IsSuffix(name, path)
    /\ name # path => path[Len(path) - Len(name)] \in {Slash, Back}

\* get_filename gives the last name of a path.
LEMMA FileNamed ==
  ASSUME NEW path \in Seq(Nat)
  PROVE  IsNameOf(get_filename(path), path)
<1> DEFINE n == Len(path)
           k == Separating(path)
           name == SubSeq(path, k + 1, Len(path))
<1>1. /\ k \in 0 .. n /\ (k # 0 => IsSeparator(path[k]))
      /\ (\A i \in 1 .. n : IsSeparator(path[i]) => i <= k) /\ get_filename(path) = name
  BY SeparatingIs
<1> HIDE DEF k
<1>2. /\ name \in Seq(Nat) /\ Len(name) = n - k /\ n \in Nat /\ k \in Nat
      /\ \A i \in 1 .. n - k : name[i] = path[k + i]
  <2>1. k \in 0 .. Len(path)
    BY <1>1
  <2> QED
    BY <2>1, Cut
<1>3. k = 0 => name = path
  <2>1. SubSeq(path, 1, Len(path)) = path
    BY SubSeqFull
  <2>2. k = 0 => k + 1 = 1
    OBVIOUS
  <2> QED
    BY <2>1, <2>2, Zenon
<1> HIDE DEF name, n
<1>4. ToSet(name) \intersect {Slash, Back} = {}
  <2>1. \A i \in 1 .. Len(name) : ~IsSeparator(name[i])
    <3> TAKE i \in 1 .. Len(name)
    <3>1. k + i \in 1 .. n /\ ~(k + i <= k) /\ i \in 1 .. n - k
      BY <1>1, <1>2
    <3> QED
      BY <1>1, <1>2, <3>1
  <2>2. DOMAIN name = 1 .. Len(name)
    BY <1>2
  <2> QED
    BY <2>1, <2>2 DEF IsSeparator, ToSet
<1>5. IsSuffix(name, path)
  <2> DEFINE r == Reverse(name)
             p == Reverse(path)
  <2>1. r \in Seq(Nat) /\ Len(r) = n - k /\ \A i \in 1 .. n - k : r[i] = name[(n - k) - i + 1]
    <3> DEFINE l == Len(name)
    <3>1. r \in Seq(Nat) /\ Len(r) = l /\ \A i \in 1 .. l : r[i] = name[l - i + 1]
      BY <1>2, Reversed
    <3>2. l = n - k
      BY <1>2
    <3> HIDE DEF l, r
    <3> QED
      BY <3>1, <3>2, Zenon
  <2>2. p \in Seq(Nat) /\ Len(p) = n /\ \A i \in 1 .. n : p[i] = path[n - i + 1]
    BY Reversed DEF n
  <2> HIDE DEF r, p
  <2>3. \A i \in 1 .. n - k : r[i] = p[i]
    <3> TAKE i \in 1 .. n - k
    <3>1. i \in 1 .. n /\ (n - k) - i + 1 \in 1 .. n - k /\ k + ((n - k) - i + 1) = n - i + 1
      <4>1. n \in Nat /\ k \in Nat /\ k <= n
        BY <1>1, <1>2
      <4> QED
        BY <4>1
    <3>2. name[(n - k) - i + 1] = path[k + ((n - k) - i + 1)]
      BY <1>2, <3>1
    <3> QED
      BY <2>1, <2>2, <3>1, <3>2
  <2>4. n - k <= n
    BY <1>1, <1>2
  <2>5. IsPrefix(r, p)
    BY <2>1, <2>2, <2>3, <2>4, PrefixPointwise
  <2> QED
    BY <2>5 DEF IsSuffix, r, p
<1>6. name # path => path[n - Len(name)] \in {Slash, Back}
  <2>1. n - Len(name) = k
    BY <1>1, <1>2
  <2> QED
    BY <1>1, <1>3, <2>1 DEF IsSeparator
<1> QED
  BY <1>1, <1>4, <1>5, <1>6 DEF IsNameOf, n

\* What ReadLine understands of a line
Understands(line) ==
    LET read == parse_command(line.text)
    IN  IF read.command = Invalid THEN Invalid
        ELSE <<read.command, read.args, FilePair(read.args, line.answer)>>

\* A line is parsed as its word and what follows it.
LEMMA LineParsed ==
  ASSUME NEW line, line.text \in Seq(Nat), IsLine(line)
  PROVE  parse_command(line.text) = Parsed(line.word, FlattenSeq(line.operands) \o line.rest)
<1> DEFINE word == line.word
           rest == line.rest
           flat == FlattenSeq(line.operands)
           after == flat \o rest
           text == line.text
<1>1. /\ line.operands \in Seq(Seq(Nat)) /\ word \in Seq(Nat) /\ rest \in Seq(Nat)
      /\ Space \notin ToSet(word)
      /\ after # <<>> => word # <<>> /\ after[1] = Space
  BY DEF IsLine
<1>2. PICK n \in 0 .. Len(text) :
        IsBlank(SubSeq(text, 1, n)) /\ text = SubSeq(text, 1, n) \o word \o after
  BY DEF IsLine
<1> DEFINE blank == SubSeq(text, 1, n)
<1>3. IsBlank(blank) /\ text = (blank \o word) \o after
  BY <1>2
<1>4. flat \in Seq(Nat)
  <2>1. <<>> \in Seq(Nat)
    OBVIOUS
  <2> QED
    BY <1>1, <2>1, FlattenOne
<1>5. Lacks(word, Space)
  <2>1. \A q \in 1 .. Len(word) : word[q] \in ToSet(word)
    BY <1>1 DEF ToSet
  <2> QED
    BY <1>1, <2>1 DEF Lacks
<1> HIDE DEF word, rest, flat, text
<1>6. after \in Seq(Nat)
  BY <1>1, <1>4
<1>7. blank \in Seq(Nat)
  <2>1. text \in Seq(Nat) /\ n \in 0 .. Len(text)
    BY DEF text
  <2> QED
    BY <2>1, Cut
<1> HIDE DEF blank, after
<1>8. text = blank \o (word \o after)
  <2>1. Cat(blank, Cat(word, after)) = Cat(Cat(blank, word), after)
    BY <1>1, <1>6, <1>7, Associative
  <2> QED
    BY <1>3, <2>1, Zenon DEF Cat
<1>9. parse_command(blank \o (word \o after)) = Parsed(word, after)
  BY <1>1, <1>3, <1>5, <1>6, <1>7, CommandParsed
<1> QED
  BY <1>8, <1>9, Zenon DEF text, word, after, flat, rest

\* What is understood of a line is what the user meant by it.
LEMMA LineRead ==
  ASSUME NEW line, line.text \in Seq(Nat), IsLine(line)
  PROVE  /\ line.command = Invalid => Understands(line) = Invalid
         /\ line.command # Invalid =>
                Understands(line) = <<line.command, line.args, FilePair(line.args, line.answer)>>
<1> DEFINE read == parse_command(line.text)
           after == FlattenSeq(line.operands) \o line.rest
<1>1. read.command = get_command_from_string(line.word) /\ read.args = Operands(after)
  <2>1. read = Parsed(line.word, after)
    BY LineParsed
  <2> HIDE DEF read, after
  <2> QED
    BY <2>1 DEF Parsed
<1>2. line.command = get_command_from_string(line.word)
  BY DEF IsLine, get_command_from_string
<1>3. ASSUME line.command # Invalid PROVE read.args = line.args
  <2>1. Typed(line.operands, line.args) /\ line.rest \in Seq(Nat) /\ IsRest(line.rest)
    BY <1>3 DEF IsLine, Typed
  <2>2. Operands(after) = line.args
    BY <2>1, OperandsRead
  <2> QED
    BY <1>1, <2>2
<1>4. Understands(line) = IF read.command = Invalid THEN Invalid
                          ELSE <<read.command, read.args, FilePair(read.args, line.answer)>>
  BY Zenon DEF Understands
<1> HIDE DEF read, after
<1>5. line.command = Invalid => Understands(line) = Invalid
  BY <1>1, <1>2, <1>4, Zenon
<1>6. line.command # Invalid =>
        Understands(line) = <<line.command, line.args, FilePair(line.args, line.answer)>>
  BY <1>1, <1>2, <1>3, <1>4, Zenon
<1> QED
  BY <1>5, <1>6, Zenon

LEMMA FirstTwo ==
  ASSUME NEW a, NEW b, NEW c
  PROVE  SubSeq(<<a, b, c>>, 1, 2) = <<a, b>> /\ <<a, b, c>>[3] = c
<1> DEFINE S == {a, b, c}
           three == <<a, b, c>>
           two == <<a, b>>
           l == SubSeq(three, 1, 2)
<1>1. a \in S /\ b \in S /\ c \in S
  OBVIOUS
<1> HIDE DEF S
<1>2. /\ three \in Seq(S) /\ Len(three) = 3 /\ three[1] = a /\ three[2] = b /\ three[3] = c
      /\ two \in Seq(S) /\ Len(two) = 2 /\ two[1] = a /\ two[2] = b
  BY <1>1
<1> HIDE DEF three, two
<1>3. l \in Seq(S) /\ Len(l) = 2 /\ \A i \in 1 .. 2 : l[i] = three[i]
  <2>1. 2 \in 0 .. Len(three)
    BY <1>2
  <2> QED
    BY <1>2, <2>1, Cut
<1> HIDE DEF l
<1>4. \A i \in 1 .. 2 : l[i] = two[i]
  <2> TAKE i \in 1 .. 2
  <2>1. i = 1 \/ i = 2
    OBVIOUS
  <2> QED
    BY <1>2, <1>3, <2>1
<1>5. l = two
  BY <1>2, <1>3, <1>4, SeqEqual
<1> QED
  BY <1>2, <1>5 DEF l, three, two

\* What FileIsWrittenHere says of the pair of files
WrittenHere(pair, args, answer) ==
    /\ pair[1] = Append(args, answer)[1]
    /\ IsNameOf(pair[2], pair[1])

\* The pair of files of a command with at most one operand
LEMMA PairWritten ==
  ASSUME NEW args \in Seq(Seq(Nat)), NEW answer \in Seq(Nat), Len(args) < 2
  PROVE  WrittenHere(FilePair(args, answer), args, answer)
<1> DEFINE S == Seq(Nat)
           more == Append(args, answer)
<1>1. args \in Seq(S) /\ answer \in S
  OBVIOUS
<1>2. /\ Len(args) \in Nat /\ (\A i \in 1 .. Len(args) : more[i] = args[i] /\ args[i] \in S)
      /\ more[Len(args) + 1] = answer
  <2>1. (\A i \in 1 .. Len(args) : more[i] = args[i]) /\ more[Len(args) + 1] = answer /\ Len(args) \in Nat
    BY AppendTexts
  <2>2. \A i \in 1 .. Len(args) : args[i] \in S
    <3> HIDE DEF S
    <3> QED
      BY <1>1, ElementOfSeq
  <2> HIDE DEF S, more
  <2> QED
    BY <2>1, <2>2
<1>3. Len(args) = 0 \/ Len(args) = 1
  <2> DEFINE l == Len(args)
  <2>1. l \in Nat /\ l < 2
    BY <1>2
  <2> HIDE DEF l
  <2>2. l = 0 \/ l = 1
    BY <2>1
  <2> QED
    BY <2>2 DEF l
<1>4. \E read \in S : more[1] = read /\ FilePair(args, answer) = <<read, get_filename(read)>>
  <2>1. CASE Len(args) = 0
    <3>1. more[1] = answer
      <4> HIDE DEF more, S
      <4> QED
        BY <1>2, <2>1
    <3>2. FilePair(args, answer) = <<answer, get_filename(answer)>>
      BY <2>1 DEF FilePair
    <3> HIDE DEF more, S
    <3> QED
      BY <1>1, <3>1, <3>2
  <2>2. CASE Len(args) = 1
    <3>1. more[1] = args[1] /\ args[1] \in S
      <4> HIDE DEF more, S
      <4> QED
        BY <1>2, <2>2
    <3>2. FilePair(args, answer) = <<args[1], get_filename(args[1])>>
      BY <2>2 DEF FilePair
    <3> HIDE DEF more, S
    <3> QED
      BY <3>1, <3>2
  <2> QED
    BY <1>3, <2>1, <2>2
<1>5. PICK read \in S : more[1] = read /\ FilePair(args, answer) = <<read, get_filename(read)>>
  BY <1>4, Zenon
<1>6. IsNameOf(get_filename(read), read)
  BY FileNamed
<1>7. FilePair(args, answer)[1] = read /\ FilePair(args, answer)[2] = get_filename(read)
  <2> HIDE DEF more, S
  <2> QED
    BY <1>5
<1> QED
  BY <1>5, <1>6, <1>7, Zenon DEF WrittenHere

--------------------------------------------------------------------------------
(* What has been understood is what the function returns for what was said. *)

Numbers == [w \in {Max8, Max16, Max32, Max64} |-> try_parse_uint(said.text, w)]

Heard ==
    /\ said \in Inputs
    /\ Done("number") => Result = Numbers
    /\ Done("epsv") => Result = try_parse_epsv_reply(said.text)
    /\ Done("pasv") => Result = try_parse_pasv_reply(said.text)
    /\ Done("size") => Result = parse_size(said.code, said.text)
    /\ Done("time") => Result = parse_datetime(said.code, said.text)
    /\ Done("list") => Result = parse_file_list(said.text)
    /\ Done("line") => Result = Understands(said)
    /\ Done("eprt") => Result = make_eprt_command(said.endpoint)
    /\ Done("port") => Result = make_port_command(said.endpoint)

LEMMA HeardOnce ==
  ASSUME NEW kind, NEW result, Hear(kind, result)
  PROVE  /\ said' = said /\ said.kind = kind
         /\ Result' = result
         /\ \A k : Done(k)' => k = kind
<1>1. said' = said /\ said.kind = kind /\ understood' = <<result>>
  BY DEF Hear
<1> QED
  BY <1>1 DEF Result, Done

LEMMA HeardStep == Heard /\ [Next]_vars => Heard'
<1> SUFFICES ASSUME Heard, [Next]_vars PROVE Heard'
  OBVIOUS
<1> USE DEF Heard
<1>1. CASE ReadNumber
  <2>1. Hear("number", Numbers)
    BY <1>1 DEF ReadNumber, Numbers
  <2>2. said' = said /\ Result' = Numbers /\ \A k : Done(k)' => k = "number"
    BY <2>1, HeardOnce
  <2>3. Numbers' = Numbers
    BY <2>2 DEF Numbers
  <2> QED
    BY <2>2, <2>3
<1>2. CASE ReadEpsv
  <2>1. /\ said' = said /\ Result' = try_parse_epsv_reply(said.text)
        /\ \A k : Done(k)' => k = "epsv"
    BY <1>2, HeardOnce DEF ReadEpsv
  <2> QED
    BY <2>1
<1>3. CASE ReadPasv
  <2>1. /\ said' = said /\ Result' = try_parse_pasv_reply(said.text)
        /\ \A k : Done(k)' => k = "pasv"
    BY <1>3, HeardOnce DEF ReadPasv
  <2> QED
    BY <2>1
<1>4. CASE ReadSize
  <2>1. /\ said' = said /\ Result' = parse_size(said.code, said.text)
        /\ \A k : Done(k)' => k = "size"
    BY <1>4, HeardOnce DEF ReadSize
  <2> QED
    BY <2>1
<1>5. CASE ReadTime
  <2>1. /\ said' = said /\ Result' = parse_datetime(said.code, said.text)
        /\ \A k : Done(k)' => k = "time"
    BY <1>5, HeardOnce DEF ReadTime
  <2> QED
    BY <2>1
<1>6. CASE ReadLine
  <2>1. Hear("line", Understands(said))
    BY <1>6 DEF ReadLine, Understands
  <2>2. said' = said /\ Result' = Understands(said) /\ \A k : Done(k)' => k = "line"
    BY <2>1, HeardOnce
  <2>3. Understands(said)' = Understands(said)
    BY <2>2 DEF Understands
  <2> QED
    BY <2>2, <2>3
<1>7. CASE ReadList
  <2>1. /\ said' = said /\ Result' = parse_file_list(said.text)
        /\ \A k : Done(k)' => k = "list"
    BY <1>7, HeardOnce DEF ReadList
  <2> QED
    BY <2>1
<1>8. CASE WriteEprt
  <2>1. /\ said' = said /\ Result' = make_eprt_command(said.endpoint)
        /\ \A k : Done(k)' => k = "eprt"
    BY <1>8, HeardOnce DEF WriteEprt
  <2> QED
    BY <2>1
<1>9. CASE WritePort
  <2>1. /\ said' = said /\ Result' = make_port_command(said.endpoint)
        /\ \A k : Done(k)' => k = "port"
    BY <1>9, HeardOnce DEF WritePort
  <2> QED
    BY <2>1
<1>10. CASE UNCHANGED vars
  BY <1>10 DEF vars, Done, Result, Numbers, Understands
<1> QED
  BY <1>1, <1>2, <1>3, <1>4, <1>5, <1>6, <1>7, <1>8, <1>9, <1>10 DEF Next

LEMMA HeardAlways == Spec => []Heard
<1>1. Init => Heard
  BY DEF Init, Heard, Done
<1> QED
  BY <1>1, HeardStep, PTL DEF Spec

LEMMA SaidInNumbers ==
  ASSUME Heard, said.kind \notin {"port", "eprt"}
  PROVE  said.text \in Seq(Nat)
BY ParsersAssumption DEF Heard

LEMMA HeardFits == Heard => ResultsFit
<1> SUFFICES ASSUME Heard PROVE ResultsFit
  OBVIOUS
<1>1. \A w \in {Max8, Max16, Max32, Max64} : w \in 0 .. Max64
  BY Limits
<1>2. Done("number") => \A w \in DOMAIN Result : Result[w] \in -1 .. w
  <2> SUFFICES ASSUME Done("number"), NEW w \in DOMAIN Result PROVE Result[w] \in -1 .. w
    OBVIOUS
  <2>1. said.text \in Seq(Nat)
    BY SaidInNumbers DEF Done
  <2>2. Result = Numbers
    BY DEF Heard
  <2>3. w \in {Max8, Max16, Max32, Max64} /\ Result[w] = try_parse_uint(said.text, w)
    BY <2>2 DEF Numbers
  <2> QED
    BY <1>1, <2>1, <2>3, NarrowRead
<1>3. Done("epsv") => Result \in -1 .. Max16
  BY SaidInNumbers, EpsvType DEF Done, Heard
<1>4. Done("pasv") => Result.port \in -1 .. Max16
  BY SaidInNumbers, PasvType DEF Done, Heard
<1>5. Done("size") => Result \in -1 .. Max64
  BY SaidInNumbers, SizeType DEF Done, Heard
<1>6. Done("time") =>
        \A i \in DOMAIN Result :
            Result[i] \in 0 .. (CASE i = 1 -> Max16 [] i = 7 -> Max32 [] OTHER -> Max8)
  <2> SUFFICES ASSUME Done("time"), NEW i \in DOMAIN Result
               PROVE  Result[i] \in 0 .. (CASE i = 1 -> Max16 [] i = 7 -> Max32 [] OTHER -> Max8)
    OBVIOUS
  <2>1. said.text \in Seq(Nat) /\ Result = parse_datetime(said.code, said.text)
    BY SaidInNumbers DEF Done, Heard
  <2>2. Result = <<>> \/ (Result \in Seq(Nat) /\ Len(Result) = 7 /\ \A j \in 1 .. 7 : Result[j] \in 0 .. Most[j])
    BY <2>1, TimeType
  <2>3. i \in 1 .. 7 /\ Result[i] \in 0 .. Most[i]
    <3>1. Result # <<>>
      OBVIOUS
    <3>2. DOMAIN Result = 1 .. 7
      BY <2>2, <3>1
    <3> QED
      BY <2>2, <3>1, <3>2, Zenon
  <2>4. Most[i] = CASE i = 1 -> Max16 [] i = 7 -> Max32 [] OTHER -> Max8
    <3>1. i = 1 \/ i = 2 \/ i = 3 \/ i = 4 \/ i = 5 \/ i = 6 \/ i = 7
      BY <2>3
    <3> QED
      BY <3>1 DEF Most
  <2> QED
    BY <2>3, <2>4
<1> QED
  BY <1>2, <1>3, <1>4, <1>5, <1>6 DEF ResultsFit

LEMMA HeardExactly == Heard => NumberIsExact
<1> SUFFICES ASSUME Heard, Done("number"), NEW w \in DOMAIN Result
             PROVE  Result[w] = IF IsNumber(said.text) /\ Meaning(said.text) <= w
                                THEN Meaning(said.text) ELSE Refused
  BY DEF NumberIsExact
<1>1. said.text \in Seq(Nat)
  BY SaidInNumbers DEF Done
<1>2. Result = Numbers
  BY DEF Heard
<1>3. w \in {Max8, Max16, Max32, Max64} /\ Result[w] = try_parse_uint(said.text, w)
  BY <1>2 DEF Numbers
<1>4. w \in 0 .. Max64
  BY <1>3, Limits
<1> QED
  BY <1>1, <1>3, <1>4, NarrowRead

LEMMA HeardLines == Heard => ListingIsLines
<1> SUFFICES ASSUME Heard, Done("list") PROVE Result = said.names
  BY DEF ListingIsLines
<1>1. said.text \in Seq(Nat)
  BY SaidInNumbers DEF Done
<1>2. IsListing(said.names, said.text)
  BY ListingAssumption DEF Done, Heard
<1>3. parse_file_list(said.text) = said.names
  BY <1>1, <1>2, Listed
<1> QED
  BY <1>3 DEF Heard

LEMMA HeardAnswers == Heard => AnswersAreRead
<1> SUFFICES ASSUME Heard PROVE AnswersAreRead
  OBVIOUS
<1>1. Done("epsv") => EpsvStands(said.text, Result)
  <2> SUFFICES ASSUME Done("epsv") PROVE EpsvStands(said.text, Result)
    OBVIOUS
  <2>1. said.text \in Seq(Nat)
    BY SaidInNumbers DEF Done
  <2>2. Result = try_parse_epsv_reply(said.text)
    BY DEF Done, Heard
  <2> QED
    BY <2>1, <2>2, EpsvRead, Zenon
<1>2. Done("pasv") =>
        \A i, j \in DOMAIN said.text :
            IsPasvAnswer(said.fields, said.text, i, j) /\ OnlyAt(said.text, i, j) =>
                PasvStands(said.fields, Result)
  <2> SUFFICES ASSUME Done("pasv"), NEW i \in DOMAIN said.text, NEW j \in DOMAIN said.text,
                      IsPasvAnswer(said.fields, said.text, i, j), OnlyAt(said.text, i, j)
               PROVE  PasvStands(said.fields, Result)
    OBVIOUS
  <2>1. said.text \in Seq(Nat) /\ said.fields \in Seq(Nat)
    BY SaidInNumbers, AnswersAssumption DEF Done, Heard
  <2>2. Result = try_parse_pasv_reply(said.text)
    BY DEF Done, Heard
  <2> QED
    BY <2>1, <2>2, PasvRead, Zenon
<1>3. Done("size") => Result = said.size
  <2> SUFFICES ASSUME Done("size") PROVE Result = said.size
    OBVIOUS
  <2>1. said.text \in Seq(Nat)
    BY SaidInNumbers DEF Done
  <2>2. IsSizeAnswer(said.size, said.code, said.text)
    BY AnswersAssumption DEF Done, Heard
  <2>3. parse_size(said.code, said.text) = said.size
    BY <2>1, <2>2, SizeRead
  <2> QED
    BY <2>3 DEF Heard
<1> QED
  BY <1>1, <1>2, <1>3, Zenon DEF AnswersAreRead, EpsvStands, PasvStands

LEMMA HeardEndpoints == Heard => CommandsNameTheListener
<1> SUFFICES ASSUME Heard PROVE CommandsNameTheListener
  OBVIOUS
<1>1. Done("port") => NamesEndpoint(split_string(Result, Comma), said.endpoint)
  <2> SUFFICES ASSUME Done("port") PROVE NamesEndpoint(split_string(Result, Comma), said.endpoint)
    OBVIOUS
  <2>1. said \in Inputs /\ said.kind = "port" /\ Result = make_port_command(said.endpoint)
    BY DEF Done, Heard
  <2>2. IsEndpoint4(said.endpoint, said.octets)
    BY <2>1, EndpointsAssumption DEF IsEndpoint4
  <2> QED
    BY <2>1, <2>2, PortRead, Zenon
<1>2. Done("eprt") =>
        split_string(Result, Bar) =
            <<<<>>, <<said.endpoint.protocol>>, said.endpoint.address, to_string(said.endpoint.port)>>
  <2> SUFFICES ASSUME Done("eprt")
               PROVE  split_string(Result, Bar) =
                        <<<<>>, <<said.endpoint.protocol>>, said.endpoint.address,
                          to_string(said.endpoint.port)>>
    OBVIOUS
  <2>1. said \in Inputs /\ said.kind = "eprt" /\ Result = make_eprt_command(said.endpoint)
    BY DEF Done, Heard
  <2>2. said.endpoint.port \in Nat
    <3>1. said.endpoint.port \in 0 .. Max16 /\ Max16 \in Nat
      BY <2>1, EndpointsAssumption, Widths
    <3> QED
      BY <3>1
  <2>3. IsEndpoint6(said.endpoint)
    BY <2>1, <2>2, EndpointsAssumption DEF IsEndpoint6
  <2> QED
    BY <2>1, <2>3, EprtRead, Zenon
<1> QED
  BY <1>1, <1>2, Zenon DEF CommandsNameTheListener, NamesEndpoint

LEMMA HeardTime == Heard => TimeIsRead
<1> SUFFICES ASSUME Heard, Done("time") PROVE TimeIsRead
  BY DEF TimeIsRead
<1>1. said.text \in Seq(Nat) /\ said \in Inputs /\ said.kind = "time"
  BY SaidInNumbers DEF Done, Heard
<1>2. Result = parse_datetime(said.code, said.text)
  BY DEF Heard
<1>3. TimeStands(said.code, said.text, Result)
  BY <1>1, <1>2, TimeRead
<1> QED
  BY <1>3, Zenon DEF TimeStands, TimeIsRead

LEMMA HeardWords == Heard => WordsAreRead
<1> SUFFICES ASSUME Heard, Done("line") PROVE WordsAreRead
  BY DEF WordsAreRead
<1>1. said.text \in Seq(Nat) /\ said \in Inputs /\ said.kind = "line" /\ Result = Understands(said)
  BY SaidInNumbers DEF Done, Heard
<1>2. IsLine(said)
  BY <1>1, LinesAssumption
<1>3. said.command = Invalid => Result = Invalid
  BY <1>1, <1>2, LineRead
<1>4. said.command # Invalid => SubSeq(Result, 1, 2) = <<said.command, said.args>>
  <2> DEFINE c == said.command
             a == said.args
             p == FilePair(said.args, said.answer)
  <2>1. c # Invalid => Result = <<c, a, p>>
    BY <1>1, <1>2, LineRead
  <2> HIDE DEF c, a, p
  <2>2. SubSeq(<<c, a, p>>, 1, 2) = <<c, a>>
    BY FirstTwo
  <2>3. c # Invalid => SubSeq(Result, 1, 2) = <<c, a>>
    BY <2>1, <2>2, Zenon
  <2> QED
    BY <2>3 DEF c, a
<1> QED
  BY <1>3, <1>4, Zenon DEF WordsAreRead

LEMMA HeardFiles == Heard => FileIsWrittenHere
<1> SUFFICES ASSUME Heard, Done("line"), said.command # Invalid, Len(said.args) < 2 PROVE FileIsWrittenHere
  BY Zenon DEF FileIsWrittenHere
<1>1. said.text \in Seq(Nat) /\ said \in Inputs /\ said.kind = "line" /\ Result = Understands(said)
  BY SaidInNumbers DEF Done, Heard
<1>2. IsLine(said)
  BY <1>1, LinesAssumption
<1>3. Result = <<said.command, said.args, FilePair(said.args, said.answer)>>
  BY <1>1, <1>2, LineRead
<1>4. Result[3] = FilePair(said.args, said.answer)
  BY <1>3, FirstTwo, Zenon
<1>5. said.args \in Seq(Seq(Nat)) /\ said.answer \in Seq(Nat)
  BY <1>2 DEF IsLine
<1>6. WrittenHere(Result[3], said.args, said.answer)
  BY <1>4, <1>5, PairWritten, Zenon
<1> QED
  BY <1>6, Zenon DEF WrittenHere, IsNameOf, FileIsWrittenHere

(* No result is larger than the type that holds it, whatever a server says *)
(* (utils.cpp, try_parse_uint8 to 64, and the parsers of client.cpp and the *)
(* replies that call them).                                                 *)
THEOREM FitCorrect == Spec => []ResultsFit
BY HeardAlways, HeardFits, PTL

(* try_parse_uint8 to 64 accept exactly the numbers that their type holds,  *)
(* and return their value, for texts of any length and types of any width   *)
(* (utils.cpp).                                                             *)
THEOREM NumberCorrect == Spec => []NumberIsExact
BY HeardAlways, HeardExactly, PTL

(* A listing is cut into the names that the server sent, however many and  *)
(* however long, whichever way each line is ended (file_list_reply.cpp,    *)
(* parse_file_list).                                                       *)
THEOREM ListingCorrect == Spec => []ListingIsLines
BY HeardAlways, HeardLines, PTL

(* An answer to EPSV, PASV or SIZE of the form that the code's comments give *)
(* is understood, among words without parentheses, and a port that EPSV's is *)
(* read as stands there between parentheses, digit by digit (client.cpp,     *)
(* try_parse_epsv_reply and try_parse_pasv_reply; file_size_reply.cpp,       *)
(* parse_size).  That no other form is accepted is not so: see MCEpsvForm,   *)
(* MCPasvFields.                                                             *)
THEOREM AnswersCorrect == Spec => []AnswersAreRead
BY HeardAlways, HeardAnswers, PTL

(* PORT and EPRT name the endpoint that the client listens at, whatever its  *)
(* address and port are: splitting the argument again gives them (client.cpp, *)
(* make_port_command and make_eprt_command).                                 *)
THEOREM CommandsCorrect == Spec => []CommandsNameTheListener
BY HeardAlways, HeardEndpoints, PTL

(* An answer to MDTM that is a time-val in its ranges is understood, and what *)
(* is understood has fourteen digits behind the code 213, which are what its  *)
(* fields mean (file_modified_time_reply.cpp, parse_datetime).  That every    *)
(* such text is a time-val in its ranges is not so: see MCTimeForm,           *)
(* MCTimeRange.                                                               *)
THEOREM TimeCorrect == Spec => []TimeIsRead
BY HeardAlways, HeardTime, PTL

(* The operands arrive as the user meant them, however many there are and    *)
(* whatever stands in their quotes, and no line that does not begin with a   *)
(* command is taken for one (command_parser.cpp, parse_command).             *)
THEOREM WordsCorrect == Spec => []WordsAreRead
BY HeardAlways, HeardWords, PTL

(* A put or a get that names one file writes to the current directory, under *)
(* the last name of the path of that file, however long the path             *)
(* (command_handler.cpp, put and get; utils.cpp, get_filename).              *)
THEOREM FileCorrect == Spec => []FileIsWrittenHere
BY HeardAlways, HeardFiles, PTL
================================================================================
