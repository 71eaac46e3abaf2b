---------------------------- MODULE Observers_proofs ----------------------------
(***************************************************************************)
(* The notifications of Observers, for any number of observers, of nested  *)
(* calls and of replies: every loop tells everybody it is to tell, once,   *)
(* and the operations read the replies to their own requests.              *)
(***************************************************************************)
EXTENDS Observers, SequenceLemmas

LEMMA CopiesType == MaxCopies \in Nat /\ MaxDepth \in Nat /\ MaxAnswers \in Nat
BY ObserverAssumption

--------------------------------------------------------------------------------
(* What remove_observer leaves of the list.                                *)

\* kept holds what remains of the first of the entries, for any number of them.
Keeps(kept, entries, o) ==
    /\ kept \in [0 .. Len(entries) -> Seq(Entry)]
    /\ kept[0] = <<>>
    /\ \A i \in 1 .. Len(entries) :
           kept[i] = IF entries[i][1] = o THEN kept[i - 1] ELSE Append(kept[i - 1], entries[i])

LEMMA Kept ==
  ASSUME NEW entries \in Seq(Entry), NEW o
  PROVE  \E kept : Keeps(kept, entries, o) /\ Without(entries, o) = kept[Len(entries)]
<1> DEFINE step == [i \in 1 .. Len(entries) |->
                       [s \in Seq(Entry) |-> IF entries[i][1] = o THEN s ELSE Append(s, entries[i])]]
           Solves(f) == f = [i \in 0 .. Len(entries) |->
                                IF i = 0 THEN <<>>
                                ELSE IF entries[i][1] = o THEN f[i - 1]
                                ELSE Append(f[i - 1], entries[i])]
           kept == CHOOSE f : Solves(f)
<1>1. Len(entries) \in Nat /\ <<>> \in Seq(Entry)
  OBVIOUS
<1>2. step \in [1 .. Len(entries) -> [Seq(Entry) -> Seq(Entry)]]
  OBVIOUS
<1>3. PICK f : Runs(f, Seq(Entry), Len(entries), <<>>, step)
  <2> HIDE DEF step
  <2> QED
    BY <1>1, <1>2, Recursion
<1>4. f \in [0 .. Len(entries) -> Seq(Entry)] /\ f[0] = <<>>
  BY <1>3 DEF Runs
<1>5. \A i \in 1 .. Len(entries) :
         f[i] = IF entries[i][1] = o THEN f[i - 1] ELSE Append(f[i - 1], entries[i])
  <2> TAKE i \in 1 .. Len(entries)
  <2>1. f[i - 1] \in Seq(Entry)
    <3>1. i - 1 \in 0 .. Len(entries)
      OBVIOUS
    <3> QED
      BY <1>4, <3>1
  <2>2. f[i] = step[i][f[i - 1]]
    <3> HIDE DEF step
    <3> QED
      BY <1>3 DEF Runs
  <2> QED
    BY <2>1, <2>2
<1>6. Solves(f)
  <2>1. \A i \in 0 .. Len(entries) :
           f[i] = IF i = 0 THEN <<>>
                  ELSE IF entries[i][1] = o THEN f[i - 1] ELSE Append(f[i - 1], entries[i])
    <3> TAKE i \in 0 .. Len(entries)
    <3>1. i = 0 \/ (i # 0 /\ i \in 1 .. Len(entries))
      OBVIOUS
    <3> QED
      BY <1>4, <1>5, <3>1
  <2> QED
    BY <1>4, <2>1
<1>7. Solves(kept)
  <2> HIDE DEF Solves
  <2> QED
    BY <1>6
<1>8. Without(entries, o) = kept[Len(entries)]
  BY DEF Without
<1> HIDE DEF kept
<1>9. kept[0] = <<>>
  BY <1>1, <1>7
<1>10. \A i \in 1 .. Len(entries) :
          kept[i] = IF entries[i][1] = o THEN kept[i - 1] ELSE Append(kept[i - 1], entries[i])
  <2> TAKE i \in 1 .. Len(entries)
  <2>1. i \in 0 .. Len(entries) /\ i # 0
    OBVIOUS
  <2> QED
    BY <1>7, <2>1, Zenon
<1> DEFINE T == {k \in Nat : k <= Len(entries) => kept[k] = f[k]}
<1>11. 0 \in T
  BY <1>4, <1>9
<1>12. \A k \in T : k + 1 \in T
  <2> TAKE k \in T
  <2> SUFFICES ASSUME k \in Nat, k + 1 <= Len(entries) PROVE kept[k + 1] = f[k + 1]
    OBVIOUS
  <2>1. k + 1 \in 1 .. Len(entries) /\ (k + 1) - 1 = k /\ kept[k] = f[k]
    OBVIOUS
  <2> HIDE DEF T
  <2> QED
    BY <1>5, <1>10, <2>1
<1>13. T = Nat
  <2>1. T \subseteq Nat
    OBVIOUS
  <2> HIDE DEF T
  <2> QED
    BY <1>11, <1>12, <2>1, Induction
<1>14. kept \in [0 .. Len(entries) -> Seq(Entry)]
  <2>1. \A i \in 0 .. Len(entries) : kept[i] = f[i]
    <3> TAKE i \in 0 .. Len(entries)
    <3>1. i \in T
      BY <1>13
    <3> QED
      BY <3>1
  <2> QED
    BY <1>4, <1>7, <2>1
<1> QED
  BY <1>8, <1>9, <1>10, <1>14, Zenon DEF Keeps

\* The entries of the others stay, in their order, and nothing else.
LEMMA Remaining ==
  ASSUME NEW entries \in Seq(Entry), NEW o
  PROVE  /\ Without(entries, o) \in Seq(Entry)
         /\ Range(Without(entries, o)) = {n \in Range(entries) : n[1] # o}
         /\ \A n, m \in Entry : Precedes(Without(entries, o), n, m)
                                   <=> n[1] # o /\ m[1] # o /\ Precedes(entries, n, m)
<1>1. PICK kept : Keeps(kept, entries, o) /\ Without(entries, o) = kept[Len(entries)]
  BY Kept
<1> DEFINE Seen(k) == {entries[i] : i \in 1 .. k}
           Ordered(n, m, k) == \E i, j \in 1 .. k : i < j /\ entries[i] = n /\ entries[j] = m
           Right(k) == /\ Range(kept[k]) = {n \in Seen(k) : n[1] # o}
                       /\ \A n, m \in Entry : Precedes(kept[k], n, m)
                                                 <=> n[1] # o /\ m[1] # o /\ Ordered(n, m, k)
           T == {k \in Nat : k <= Len(entries) => Right(k)}
<1>2. 0 \in T
  <2>1. Range(<<>>) = {} /\ \A n, m : ~Precedes(<<>>, n, m)
    BY DEF Range, Precedes
  <2>2. Seen(0) = {} /\ \A n, m : ~Ordered(n, m, 0)
    OBVIOUS
  <2>3. kept[0] = <<>>
    BY <1>1 DEF Keeps
  <2> HIDE DEF Seen, Ordered
  <2> QED
    BY <2>1, <2>2, <2>3
<1>3. \A k \in T : k + 1 \in T
  <2> TAKE k \in T
  <2> DEFINE e == entries[k + 1]
  <2>1. k \in Nat
    OBVIOUS
  <2> SUFFICES ASSUME k + 1 <= Len(entries) PROVE Right(k + 1)
    <3> HIDE DEF Right
    <3> QED
      BY <2>1
  <2>2. k + 1 \in 1 .. Len(entries) /\ k \in 0 .. Len(entries) /\ (k + 1) - 1 = k
    BY <2>1
  <2>3. kept[k] \in Seq(Entry) /\ e \in Entry
    <3>1. kept \in [0 .. Len(entries) -> Seq(Entry)]
      BY <1>1 DEF Keeps
    <3> QED
      BY <2>2, <3>1
  <2>4. kept[k + 1] = IF e[1] = o THEN kept[k] ELSE Append(kept[k], e)
    BY <1>1, <2>2 DEF Keeps
  <2>5. /\ Range(kept[k]) = {n \in Seen(k) : n[1] # o}
        /\ \A n, m \in Entry : Precedes(kept[k], n, m)
                                  <=> n[1] # o /\ m[1] # o /\ Ordered(n, m, k)
    BY <2>2
  <2>6. Seen(k + 1) = Seen(k) \cup {e}
    <3>1. 1 .. k + 1 = (1 .. k) \cup {k + 1}
      BY <2>1
    <3> QED
      BY <3>1
  <2>7. \A n, m : Ordered(n, m, k + 1) <=> Ordered(n, m, k) \/ (n \in Seen(k) /\ m = e)
    <3> TAKE n, m
    <3>1. ASSUME Ordered(n, m, k + 1) PROVE Ordered(n, m, k) \/ (n \in Seen(k) /\ m = e)
      <4>1. PICK i \in 1 .. k + 1, j \in 1 .. k + 1 : i < j /\ entries[i] = n /\ entries[j] = m
        BY <3>1
      <4>2. i \in 1 .. k /\ (j \in 1 .. k \/ j = k + 1)
        BY <2>1, <4>1
      <4> QED
        BY <4>1, <4>2
    <3>2. ASSUME Ordered(n, m, k) PROVE Ordered(n, m, k + 1)
      BY <2>1, <3>2
    <3>3. ASSUME n \in Seen(k), m = e PROVE Ordered(n, m, k + 1)
      <4>1. PICK i \in 1 .. k : entries[i] = n
        BY <3>3
      <4>2. i \in 1 .. k + 1 /\ k + 1 \in 1 .. k + 1 /\ i < k + 1
        BY <2>1
      <4> QED
        BY <3>3, <4>1, <4>2
    <3> QED
      BY <3>1, <3>2, <3>3
  <2> HIDE DEF Seen, Ordered, T, e
  <2>8. CASE e[1] = o
    BY <2>4, <2>5, <2>6, <2>7, <2>8
  <2>9. CASE e[1] # o
    <3>1. Range(kept[k + 1]) = Range(kept[k]) \cup {e}
      BY <2>3, <2>4, <2>9, RangeOfAppend
    <3>2. \A n, m : Precedes(kept[k + 1], n, m)
                       <=> Precedes(kept[k], n, m) \/ (n \in Range(kept[k]) /\ m = e)
      BY <2>3, <2>4, <2>9, PrecedesInAppend
    <3> QED
      BY <2>5, <2>6, <2>7, <2>9, <3>1, <3>2
  <2> QED
    BY <2>8, <2>9
<1>4. T = Nat
  <2>1. T \subseteq Nat
    OBVIOUS
  <2> HIDE DEF T
  <2> QED
    BY <1>2, <1>3, <2>1, Induction
<1>5. Len(entries) \in T
  <2> HIDE DEF T
  <2> QED
    BY <1>4
<1>6. Seen(Len(entries)) = Range(entries)
  BY DEF Range
<1>7. \A n, m : Ordered(n, m, Len(entries)) <=> Precedes(entries, n, m)
  BY DEF Precedes
<1>8. Without(entries, o) \in Seq(Entry)
  BY <1>1 DEF Keeps
<1> HIDE DEF Seen, Ordered
<1> QED
  BY <1>1, <1>5, <1>6, <1>7, <1>8

--------------------------------------------------------------------------------
(* The loops.                                                              *)

\* Nobody is listed twice.
Distinct(entries) == \A n \in Entry : ~Precedes(entries, n, n)

\* What a loop has told, and all it was to tell once it has ended.
LoopOk(frame) ==
    /\ IsInjective(frame.told)
    /\ Range(frame.told) \subseteq frame.owed
    /\ frame.doing # "callback" => Range(frame.told) = frame.owed

\* Whose turn it is in a loop over the entries: those yet to be told are the
\* ones that come after, and none of them has been.
TurnOk(frame, entries) ==
    IF frame.doing = "callback"
    THEN /\ frame.at \in Range(entries) \cap Range(frame.told)
         /\ \A m \in Entry :
               /\ m \in frame.owed <=> m \in Range(frame.told) \/ Precedes(entries, frame.at, m)
               /\ Precedes(entries, frame.at, m) => m \notin Range(frame.told)
    ELSE frame.at = NoEntry

IInv ==
    /\ observers_ \in Seq(Entry) /\ Distinct(observers_)
    /\ stack \in Seq(Frame) /\ Len(stack) <= MaxDepth
    /\ dangling \in BOOLEAN /\ strayed \in BOOLEAN /\ answers \in Seq(1 .. MaxDepth)
    /\ \A i \in 1 .. Len(stack) - 1 : stack[i].doing = "callback"
    /\ \A i \in 1 .. Len(stack) : LoopOk(stack[i])
    /\ ~dangling => \A i \in 1 .. Len(stack) : TurnOk(stack[i], observers_)

\* What is listed after the first k.
Later(entries, k) == {entries[j] : j \in k + 1 .. Len(entries)}

LEMMA LaterIsAfter ==
  ASSUME NEW entries \in Seq(Entry), Distinct(entries), NEW k \in 1 .. Len(entries), NEW m
  PROVE  Precedes(entries, entries[k], m) <=> m \in Later(entries, k)
<1>1. ASSUME Precedes(entries, entries[k], m) PROVE m \in Later(entries, k)
  <2>1. PICK i \in 1 .. Len(entries), j \in 1 .. Len(entries) :
              i < j /\ entries[i] = entries[k] /\ entries[j] = m
    BY <1>1 DEF Precedes
  <2>2. IsInjective(entries)
    BY InjectivePrecedes DEF Distinct
  <2>3. i = k
    BY <2>1, <2>2 DEF IsInjective
  <2> QED
    BY <2>1, <2>3 DEF Later
<1>2. ASSUME m \in Later(entries, k) PROVE Precedes(entries, entries[k], m)
  BY <1>2 DEF Precedes, Later
<1> QED
  BY <1>1, <1>2

\* A loop that has told of the first k goes on to the next, or ends.
LEMMA Tells ==
  ASSUME NEW frame \in Frame, NEW entries \in Seq(Entry), Distinct(entries),
         NEW k \in 0 .. Len(entries), IsInjective(frame.told),
         \A m \in Entry : /\ m \in frame.owed <=> m \in Range(frame.told) \/ m \in Later(entries, k)
                          /\ m \in Later(entries, k) => m \notin Range(frame.told),
         NEW new, new = TellNext(frame, SubSeq(entries, k + 1, Len(entries)))
  PROVE  /\ new \in Frame /\ LoopOk(new) /\ TurnOk(new, entries)
         /\ new.kind = frame.kind /\ new.doing \in {"callback", After(frame.kind)}
<1> DEFINE rest == SubSeq(entries, k + 1, Len(entries))
<1>1. /\ frame.kind \in Kinds /\ frame.told \in Seq(Entry) /\ frame.owed \subseteq Entry
      /\ After(frame.kind) \in {"send", "recv", "next"}
  BY DEF Frame, Kinds, After
<1>2. Range(frame.told) \subseteq Entry
  BY <1>1 DEF Range
<1>3. /\ rest \in Seq(Entry) /\ Len(rest) = Len(entries) - k
      /\ k < Len(entries) => rest[1] = entries[k + 1]
  <2> DEFINE from == k + 1
             n == Len(entries)
  <2>1. from \in Int /\ n \in Int /\ \A i \in from .. n : entries[i] \in Entry
    OBVIOUS
  <2>2. /\ SubSeq(entries, from, n) \in Seq(Entry)
        /\ Len(SubSeq(entries, from, n)) = IF from <= n THEN n - from + 1 ELSE 0
        /\ \A i \in 1 .. n - from + 1 : SubSeq(entries, from, n)[i] = entries[from + i - 1]
    <3> HIDE DEF from, n
    <3> QED
      BY <2>1, SubSeqProperties
  <2>3. SubSeq(entries, from, n) = rest
    OBVIOUS
  <2>4. n - from + 1 = Len(entries) - k /\ from + 1 - 1 = k + 1 /\ (from <= n <=> k < Len(entries))
    OBVIOUS
  <2> HIDE DEF rest, from, n
  <2>5. Len(rest) = Len(entries) - k
    BY <2>2, <2>3, <2>4
  <2>6. ASSUME k < Len(entries) PROVE rest[1] = entries[k + 1]
    <3>1. 1 \in 1 .. n - from + 1
      BY <2>4, <2>6
    <3> QED
      BY <2>2, <2>3, <2>4, <3>1, Zenon
  <2> QED
    BY <2>2, <2>3, <2>5, <2>6
<1> HIDE DEF rest
<1>4. new = TellNext(frame, rest)
  BY DEF rest
<1>5. CASE k = Len(entries)
  <2>1. rest = <<>>
    BY <1>3, <1>5
  <2>2. new = [frame EXCEPT !.doing = After(frame.kind), !.at = NoEntry]
    BY <1>4, <2>1 DEF TellNext
  <2>3. /\ new \in Frame /\ new.kind = frame.kind /\ new.doing = After(frame.kind)
        /\ new.at = NoEntry /\ new.told = frame.told /\ new.owed = frame.owed
    BY <1>1, <2>2 DEF Frame
  <2>4. Later(entries, k) = {}
    BY <1>5 DEF Later
  <2>5. frame.owed = Range(frame.told)
    BY <1>1, <1>2, <2>4
  <2> QED
    BY <1>1, <2>3, <2>5 DEF LoopOk, TurnOk
<1>6. CASE k < Len(entries)
  <2> DEFINE e == entries[k + 1]
  <2>1. e \in Entry /\ k + 1 \in 1 .. Len(entries)
    BY <1>6
  <2>2. rest # <<>> /\ Head(rest) = e
    BY <1>3, <1>6
  <2>3. new = [frame EXCEPT !.doing = "callback", !.at = e, !.told = Append(@, e)]
    BY <1>4, <2>2 DEF TellNext
  <2>4. e \in Later(entries, k)
    BY <2>1 DEF Later
  <2>5. \A m : m \in Later(entries, k) <=> m = e \/ m \in Later(entries, k + 1)
    <3>1. k + 1 .. Len(entries) = {k + 1} \cup (k + 2 .. Len(entries))
      BY <1>6
    <3> QED
      BY <3>1 DEF Later
  <2>6. e \notin Later(entries, k + 1)
    BY <2>1, LaterIsAfter DEF Distinct
  <2>7. \A m : Precedes(entries, e, m) <=> m \in Later(entries, k + 1)
    BY <2>1, LaterIsAfter
  <2> HIDE DEF e
  <2>8. Append(frame.told, e) \in Seq(Entry)
    BY <1>1, <2>1
  <2>9. /\ new \in Frame /\ new.kind = frame.kind /\ new.doing = "callback"
        /\ new.at = e /\ new.told = Append(frame.told, e) /\ new.owed = frame.owed
    BY <2>1, <2>3, <2>8 DEF Frame
  <2>10. e \notin Range(frame.told) /\ e \in frame.owed
    BY <2>1, <2>4
  <2>11. IsInjective(new.told)
    BY <1>1, <2>1, <2>9, <2>10, InjectiveAppend
  <2>12. Range(new.told) = Range(frame.told) \cup {e}
    <3>1. Range(Append(frame.told, e)) = Range(frame.told) \cup {e}
      BY <1>1, <2>1, RangeOfAppend
    <3> QED
      BY <2>9, <3>1, Zenon
  <2>13. LoopOk(new)
    BY <1>2, <2>9, <2>10, <2>11, <2>12 DEF LoopOk
  <2>14. e \in Range(entries)
    BY <2>1 DEF e, Range
  <2>15. TurnOk(new, entries)
    BY <2>1, <2>5, <2>6, <2>7, <2>9, <2>12, <2>14 DEF TurnOk
  <2> QED
    BY <2>9, <2>13, <2>15
<1> QED
  BY <1>5, <1>6

\* An operation begins to tell of an event.
LEMMA Notifies ==
  ASSUME IInv, NEW kind \in Kinds
  PROVE  /\ Notify(kind) \in Frame /\ LoopOk(Notify(kind)) /\ TurnOk(Notify(kind), observers_)
         /\ Notify(kind).kind = kind /\ Notify(kind).doing \in {"callback", After(kind)}
<1> DEFINE frame == [kind |-> kind, doing |-> "next", at |-> NoEntry,
                     owed |-> Range(observers_), told |-> <<>>]
<1>1. observers_ \in Seq(Entry) /\ Distinct(observers_)
  BY DEF IInv
<1>2. Range(observers_) \subseteq Entry /\ Range(<<>>) = {} /\ IsInjective(<<>>)
  BY <1>1 DEF Range, IsInjective
<1>3. frame \in Frame
  BY <1>2 DEF Frame
<1>4. Later(observers_, 0) = Range(observers_)
  BY <1>1 DEF Later, Range
<1>5. SubSeq(observers_, 0 + 1, Len(observers_)) = observers_
  BY <1>1, SubSeqFull
<1>6. Notify(kind) = TellNext(frame, SubSeq(observers_, 0 + 1, Len(observers_)))
  BY <1>5 DEF Notify
<1>7. frame.kind = kind /\ frame.told = <<>> /\ frame.owed = Range(observers_)
  OBVIOUS
<1>8. 0 \in 0 .. Len(observers_)
  BY <1>1
<1> HIDE DEF frame
<1> QED
  BY <1>1, <1>2, <1>3, <1>4, <1>6, <1>7, <1>8, Tells

\* The stack after a step that changes no entry of the list.
StackOk(s) ==
    /\ s \in Seq(Frame) /\ Len(s) <= MaxDepth
    /\ \A i \in 1 .. Len(s) - 1 : s[i].doing = "callback"
    /\ \A i \in 1 .. Len(s) : LoopOk(s[i])
    /\ ~dangling => \A i \in 1 .. Len(s) : TurnOk(s[i], observers_)

LEMMA Pushed ==
  ASSUME IInv, UserRuns, depth < MaxDepth,
         NEW new \in Frame, LoopOk(new), TurnOk(new, observers_)
  PROVE  StackOk(Append(stack, new))
<1> DEFINE s == Append(stack, new)
<1>1. stack \in Seq(Frame) /\ MaxDepth \in Nat /\ Len(stack) < MaxDepth /\ ~dangling
  BY CopiesType DEF IInv, UserRuns, depth
<1>2. /\ s \in Seq(Frame) /\ Len(s) = Len(stack) + 1
      /\ \A i \in 1 .. Len(stack) : s[i] = stack[i]
      /\ s[Len(stack) + 1] = new
  BY <1>1
<1>3. \A i \in 1 .. Len(stack) : stack[i].doing = "callback"
  <2> TAKE i \in 1 .. Len(stack)
  <2>1. i \in 1 .. Len(stack) - 1 \/ i = Len(stack)
    BY <1>1
  <2>2. stack # <<>>
    BY <1>1
  <2>3. top = stack[Len(stack)]
    BY <1>1, <2>2, Ends DEF top
  <2> QED
    BY <1>1, <2>1, <2>2, <2>3 DEF IInv, UserRuns
<1> HIDE DEF s
<1>4. \A i \in 1 .. Len(s) : i \in 1 .. Len(stack) \/ i = Len(stack) + 1
  BY <1>1, <1>2
<1>5. \A i \in 1 .. Len(s) - 1 : s[i].doing = "callback"
  BY <1>1, <1>2, <1>3
<1>6. \A i \in 1 .. Len(s) : LoopOk(s[i])
  BY <1>2, <1>4 DEF IInv
<1>7. \A i \in 1 .. Len(s) : TurnOk(s[i], observers_)
  BY <1>1, <1>2, <1>4 DEF IInv
<1>8. Len(s) <= MaxDepth
  BY <1>1, <1>2
<1> QED
  BY <1>2, <1>5, <1>6, <1>7, <1>8 DEF StackOk, s

LEMMA Replaced ==
  ASSUME IInv, stack # <<>>, NEW new \in Frame, LoopOk(new), TurnOk(new, observers_)
  PROVE  StackOk(Append(Front(stack), new))
<1> DEFINE s == Append(Front(stack), new)
<1>1. stack \in Seq(Frame) /\ MaxDepth \in Nat /\ Len(stack) <= MaxDepth /\ Len(stack) \in Nat \ {0}
  BY CopiesType, Ends DEF IInv
<1>2. /\ s \in Seq(Frame) /\ Len(s) = Len(stack)
      /\ \A i \in 1 .. Len(stack) - 1 : s[i] = stack[i]
      /\ s[Len(stack)] = new
  BY <1>1, LastReplaced
<1> HIDE DEF s
<1>3. \A i \in 1 .. Len(s) : i \in 1 .. Len(stack) - 1 \/ i = Len(stack)
  BY <1>1, <1>2
<1>4. \A i \in 1 .. Len(stack) - 1 : i \in 1 .. Len(stack)
  BY <1>1
<1>5. \A i \in 1 .. Len(s) - 1 : s[i].doing = "callback"
  BY <1>2 DEF IInv
<1>6. \A i \in 1 .. Len(s) : LoopOk(s[i])
  BY <1>2, <1>3, <1>4 DEF IInv
<1>7. ~dangling => \A i \in 1 .. Len(s) : TurnOk(s[i], observers_)
  BY <1>2, <1>3, <1>4 DEF IInv
<1> QED
  BY <1>1, <1>2, <1>5, <1>6, <1>7 DEF StackOk, s

LEMMA Popped ==
  ASSUME IInv, stack # <<>>
  PROVE  StackOk(Front(stack))
<1> DEFINE s == Front(stack)
<1>1. stack \in Seq(Frame) /\ MaxDepth \in Nat /\ Len(stack) <= MaxDepth /\ Len(stack) \in Nat \ {0}
  BY CopiesType, Ends DEF IInv
<1>2. /\ s \in Seq(Frame) /\ Len(s) = Len(stack) - 1
      /\ \A i \in 1 .. Len(stack) - 1 : s[i] = stack[i]
  BY <1>1, Ends
<1> HIDE DEF s
<1>3. \A i \in 1 .. Len(s) : i \in 1 .. Len(stack) - 1 /\ i \in 1 .. Len(stack)
  BY <1>1, <1>2
<1>4. \A i \in 1 .. Len(s) - 1 : i \in 1 .. Len(s)
  BY <1>1, <1>2
<1>5. \A i \in 1 .. Len(s) - 1 : s[i].doing = "callback"
  BY <1>2, <1>3, <1>4 DEF IInv
<1>6. \A i \in 1 .. Len(s) : LoopOk(s[i])
  BY <1>2, <1>3 DEF IInv
<1>7. ~dangling => \A i \in 1 .. Len(s) : TurnOk(s[i], observers_)
  BY <1>2, <1>3 DEF IInv
<1>8. Len(s) <= MaxDepth
  BY <1>1, <1>2
<1> QED
  BY <1>2, <1>5, <1>6, <1>7, <1>8 DEF StackOk, s

\* The list and its iterators as they were, the rest of the state in its type.
LEMMA StackKept ==
  ASSUME IInv, StackOk(stack'), UNCHANGED <<observers_, dangling>>,
         strayed' \in BOOLEAN, answers' \in Seq(1 .. MaxDepth)
  PROVE  IInv'
BY DEF IInv, StackOk

\* What is added comes last, and every loop in progress is to tell of it.
LEMMA AddKeeps ==
  ASSUME IInv, NEW o \in Observer, add_observer(o)
  PROVE  IInv'
<1>1. /\ observers_ \in Seq(Entry) /\ Distinct(observers_) /\ stack \in Seq(Frame)
      /\ ~dangling /\ Len(stack) \in Nat
  BY DEF IInv, add_observer, UserRuns
<1>2. PICK n \in Fresh(o) : observers_' = Append(observers_, n) /\ stack' = Owing(n)
  BY DEF add_observer
<1>3. /\ n \in Entry /\ n \notin Range(observers_)
      /\ \A i \in 1 .. Len(stack) : n \notin stack[i].owed /\ n \notin Range(stack[i].told)
  BY <1>1, <1>2 DEF Fresh, Entry
<1>4. observers_' \in Seq(Entry) /\ Range(observers_') = Range(observers_) \cup {n}
  BY <1>1, <1>2, <1>3, RangeOfAppend
<1>5. \A k, m : Precedes(observers_', k, m) <=>
                   Precedes(observers_, k, m) \/ (k \in Range(observers_) /\ m = n)
  BY <1>1, <1>2, <1>3, PrecedesInAppend
<1>6. Distinct(observers_')
  BY <1>1, <1>3, <1>5 DEF Distinct
<1>7. /\ Len(stack') = Len(stack) /\ stack' \in Seq(Frame)
      /\ \A i \in 1 .. Len(stack) :
            /\ stack'[i] \in Frame
            /\ stack'[i].doing = stack[i].doing /\ stack'[i].at = stack[i].at
            /\ stack'[i].told = stack[i].told
            /\ stack'[i].owed = IF stack[i].doing = "callback" THEN stack[i].owed \cup {n}
                                ELSE stack[i].owed
  <2>1. stack' = [i \in 1 .. Len(stack) |->
                    IF stack[i].doing = "callback" THEN [stack[i] EXCEPT !.owed = @ \cup {n}]
                    ELSE stack[i]]
    BY <1>1, <1>2 DEF Owing
  <2>2. \A i \in 1 .. Len(stack) : stack[i] \in Frame
    BY <1>1
  <2>3. \A i \in 1 .. Len(stack) :
            /\ stack'[i] \in Frame
            /\ stack'[i].doing = stack[i].doing /\ stack'[i].at = stack[i].at
            /\ stack'[i].told = stack[i].told
            /\ stack'[i].owed = IF stack[i].doing = "callback" THEN stack[i].owed \cup {n}
                                ELSE stack[i].owed
    BY <1>3, <2>1, <2>2 DEF Frame
  <2> QED
    BY <1>1, <2>1, <2>3
<1>8. \A i \in 1 .. Len(stack) : LoopOk(stack'[i])
  <2> TAKE i \in 1 .. Len(stack)
  <2>1. LoopOk(stack[i])
    BY DEF IInv
  <2> QED
    BY <1>7, <2>1 DEF LoopOk
<1>9. \A i \in 1 .. Len(stack) : TurnOk(stack'[i], observers_')
  <2> TAKE i \in 1 .. Len(stack)
  <2>1. TurnOk(stack[i], observers_)
    BY <1>1 DEF IInv
  <2> DEFINE f == stack[i]
             g == stack'[i]
  <2>2. g.doing = f.doing /\ g.at = f.at /\ g.told = f.told /\ n \notin Range(f.told)
    BY <1>3, <1>7
  <2>3. CASE f.doing = "callback"
    <3>1. g.owed = f.owed \cup {n}
      BY <1>7, <2>3
    <3> HIDE DEF f, g
    <3>2. f.at \in Range(observers_) /\ f.at \in Range(f.told)
      BY <2>1, <2>3 DEF TurnOk, f
    <3>3. ASSUME NEW m \in Entry
          PROVE  /\ m \in g.owed <=> m \in Range(g.told) \/ Precedes(observers_', g.at, m)
                 /\ Precedes(observers_', g.at, m) => m \notin Range(g.told)
      <4>1. /\ m \in f.owed <=> m \in Range(f.told) \/ Precedes(observers_, f.at, m)
            /\ Precedes(observers_, f.at, m) => m \notin Range(f.told)
        BY <2>1, <2>3 DEF TurnOk, f
      <4>2. Precedes(observers_', f.at, m) <=> Precedes(observers_, f.at, m) \/ m = n
        BY <1>5, <3>2
      <4> QED
        BY <2>2, <3>1, <4>1, <4>2
    <3>4. g.doing = "callback" /\ g.at \in Range(observers_') \cap Range(g.told)
      BY <1>4, <2>2, <2>3, <3>2
    <3>5. TurnOk(g, observers_')
      BY <3>3, <3>4, Zenon DEF TurnOk
    <3> QED
      BY <3>5 DEF g
  <2>4. CASE f.doing # "callback"
    BY <2>1, <2>2, <2>4 DEF TurnOk
  <2> QED
    BY <2>3, <2>4
<1>10. \A i \in 1 .. Len(stack') - 1 : stack'[i].doing = "callback"
  <2>1. \A i \in 1 .. Len(stack) - 1 : i \in 1 .. Len(stack)
    BY <1>1
  <2> QED
    BY <1>7, <2>1 DEF IInv
<1> QED
  BY <1>4, <1>6, <1>7, <1>8, <1>9, <1>10 DEF IInv, add_observer

LEMMA EntryIsNone == NoEntry \notin Entry
BY DEF NoEntry, Entry

\* What is removed is to be told no more; the loops at other entries go on.
LEMMA RemoveKeeps ==
  ASSUME IInv, NEW o \in Observer, remove_observer(o)
  PROVE  IInv'
<1>1. /\ observers_ \in Seq(Entry) /\ Distinct(observers_) /\ stack \in Seq(Frame)
      /\ ~dangling /\ Len(stack) \in Nat
  BY DEF IInv, remove_observer, UserRuns
<1>2. /\ observers_' \in Seq(Entry)
      /\ Range(observers_') = {n \in Range(observers_) : n[1] # o}
      /\ \A n, m \in Entry : Precedes(observers_', n, m) <=> n[1] # o /\ m[1] # o /\ Precedes(observers_, n, m)
  BY <1>1, Remaining DEF remove_observer
<1>3. Distinct(observers_')
  BY <1>1, <1>2 DEF Distinct
<1> DEFINE Left(frame) == {n \in frame.owed : n[1] = o => n \in Range(frame.told)}
<1>4. /\ Len(stack') = Len(stack) /\ stack' \in Seq(Frame)
      /\ \A i \in 1 .. Len(stack) :
            /\ stack'[i] \in Frame
            /\ stack'[i].doing = stack[i].doing /\ stack'[i].at = stack[i].at
            /\ stack'[i].told = stack[i].told /\ stack'[i].owed = Left(stack[i])
  <2>1. stack' = [i \in 1 .. Len(stack) |-> [stack[i] EXCEPT !.owed = Left(stack[i])]]
    BY <1>1 DEF remove_observer
  <2>2. \A i \in 1 .. Len(stack) : stack[i] \in Frame /\ Left(stack[i]) \subseteq stack[i].owed
    BY <1>1
  <2> HIDE DEF Left
  <2>3. \A i \in 1 .. Len(stack) :
            /\ stack'[i] \in Frame
            /\ stack'[i].doing = stack[i].doing /\ stack'[i].at = stack[i].at
            /\ stack'[i].told = stack[i].told /\ stack'[i].owed = Left(stack[i])
    BY <2>1, <2>2 DEF Frame
  <2> QED
    BY <1>1, <2>1, <2>3
<1>5. \A i \in 1 .. Len(stack) : LoopOk(stack'[i])
  <2> TAKE i \in 1 .. Len(stack)
  <2>1. LoopOk(stack[i])
    BY DEF IInv
  <2> QED
    BY <1>4, <2>1 DEF LoopOk
<1>6. ASSUME ~dangling' PROVE \A i \in 1 .. Len(stack) : TurnOk(stack'[i], observers_')
  <2> TAKE i \in 1 .. Len(stack)
  <2>1. TurnOk(stack[i], observers_)
    BY <1>1 DEF IInv
  <2>2. stack[i].at # NoEntry => stack[i].at[1] # o
    BY <1>1, <1>6 DEF remove_observer
  <2>3. Range(observers_) \subseteq Entry
    BY <1>1 DEF Range
  <2>4. CASE stack[i].doing = "callback"
    <3>1. stack[i].at \in Entry /\ stack[i].at[1] # o
      BY <2>1, <2>2, <2>3, <2>4, EntryIsNone DEF TurnOk
    <3> QED
      BY <1>2, <1>4, <2>1, <2>4, <3>1 DEF TurnOk
  <2>5. CASE stack[i].doing # "callback"
    BY <1>4, <2>1, <2>5 DEF TurnOk
  <2> QED
    BY <2>4, <2>5
<1>7. \A i \in 1 .. Len(stack') - 1 : stack'[i].doing = "callback"
  <2>1. \A i \in 1 .. Len(stack) - 1 : i \in 1 .. Len(stack)
    BY <1>1
  <2> QED
    BY <1>4, <2>1 DEF IInv
<1>8. dangling' \in BOOLEAN
  BY DEF remove_observer
<1> QED
  BY <1>2, <1>3, <1>4, <1>5, <1>6, <1>7, <1>8 DEF IInv, remove_observer

\* A callback returns: the loop goes on after the entry it was at.
LEMMA CallbackReturned ==
  ASSUME IInv, CallbackReturns
  PROVE  /\ stack # <<>>
         /\ \E new \in Frame :
               /\ stack' = Append(Front(stack), new) /\ LoopOk(new) /\ TurnOk(new, observers_)
               /\ new.kind = top.kind /\ new.doing \in {"callback", After(top.kind)}
<1>1. /\ observers_ \in Seq(Entry) /\ Distinct(observers_) /\ stack \in Seq(Frame)
      /\ ~dangling /\ stack # <<>> /\ Len(stack) \in Nat \ {0}
  BY Ends DEF IInv, CallbackReturns, Doing
<1>2. top = stack[Len(stack)] /\ top \in Frame /\ top.doing = "callback"
  BY <1>1, Ends DEF top, CallbackReturns, Doing
<1>3. LoopOk(top) /\ TurnOk(top, observers_)
  <2>1. Len(stack) \in 1 .. Len(stack)
    BY <1>1
  <2> QED
    BY <1>1, <1>2, <2>1 DEF IInv
<1> DEFINE i == CHOOSE i \in DOMAIN observers_ : observers_[i] = top.at
           new == TellNext(top, SubSeq(observers_, i + 1, Len(observers_)))
<1>4. stack' = Append(Front(stack), new)
  BY DEF CallbackReturns
<1>5. i \in 1 .. Len(observers_) /\ observers_[i] = top.at
  <2>1. \E j \in DOMAIN observers_ : observers_[j] = top.at
    BY <1>2, <1>3 DEF TurnOk, Range
  <2> QED
    BY <1>1, <2>1
<1> HIDE DEF i
<1>6. \A m : Precedes(observers_, top.at, m) <=> m \in Later(observers_, i)
  BY <1>1, <1>5, LaterIsAfter
<1>7. i \in 0 .. Len(observers_)
  BY <1>1, <1>5
<1>8. /\ IsInjective(top.told)
      /\ \A m \in Entry : /\ m \in top.owed <=> m \in Range(top.told) \/ m \in Later(observers_, i)
                          /\ m \in Later(observers_, i) => m \notin Range(top.told)
  BY <1>2, <1>3, <1>6 DEF LoopOk, TurnOk
<1>9. /\ new \in Frame /\ LoopOk(new) /\ TurnOk(new, observers_)
      /\ new.kind = top.kind /\ new.doing \in {"callback", After(top.kind)}
  BY <1>1, <1>2, <1>7, <1>8, Tells
<1> HIDE DEF new
<1> QED
  BY <1>1, <1>4, <1>9

LEMMA CallbackReturnsKeeps ==
  ASSUME IInv, CallbackReturns
  PROVE  IInv'
<1>1. StackOk(stack')
  BY CallbackReturned, Replaced
<1> QED
  BY <1>1, StackKept DEF CallbackReturns, IInv

\* What a client has received of the answers.
LEMMA PrefixesType ==
  ASSUME NEW S, NEW s \in Seq(S), NEW t \in Prefixes(s)
  PROVE  t \in Seq(S) /\ (s = <<>> => t = <<>>)
<1>1. PICK l \in 0 .. Len(s) : t = SubSeq(s, 1, l)
  BY DEF Prefixes
<1>2. \A i \in 1 .. l : s[i] \in S
  OBVIOUS
<1>3. t \in Seq(S) /\ Len(t) = l
  BY <1>1, <1>2
<1>4. s = <<>> => l = 0
  OBVIOUS
<1> QED
  BY <1>3, <1>4

\* An operation is called: it tells of its first event.
LEMMA CallKeeps ==
  ASSUME IInv, Connect \/ Operation
  PROVE  IInv'
<1>1. /\ UserRuns /\ depth < MaxDepth /\ UNCHANGED <<observers_, dangling>>
      /\ \E kind \in Kinds : stack' = Append(stack, Notify(kind))
  BY DEF Connect, Operation, Kinds
<1>2. StackOk(stack')
  BY <1>1, Notifies, Pushed
<1>3. strayed' \in BOOLEAN
  BY DEF IInv, Connect, Operation, Owed
<1>4. answers' \in Seq(1 .. MaxDepth)
  <2>1. depth + 1 \in 1 .. MaxDepth /\ answers \in Seq(1 .. MaxDepth)
    BY <1>1, CopiesType DEF IInv, depth
  <2>2. CASE Connect
    <3>1. PICK received \in Prefixes(answers) : answers' = Append(received, depth + 1)
      BY <2>2 DEF Connect
    <3>2. received \in Seq(1 .. MaxDepth)
      BY <2>1, <3>1, PrefixesType
    <3> QED
      BY <2>1, <3>1, <3>2
  <2>3. CASE Operation
    BY <2>1, <2>3 DEF Operation
  <2> QED
    BY <2>2, <2>3
<1> QED
  BY <1>1, <1>2, <1>3, <1>4, StackKept

\* An operation in progress tells of its next event.
LEMMA HappensKeeps ==
  ASSUME IInv, stack # <<>>, NEW kind \in Kinds, Happens(kind), UNCHANGED <<observers_, dangling>>,
         strayed' \in BOOLEAN, answers' \in Seq(1 .. MaxDepth)
  PROVE  IInv'
<1>1. StackOk(stack')
  BY Notifies, Replaced DEF Happens
<1> QED
  BY <1>1, StackKept DEF IInv

LEMMA SendKeeps ==
  ASSUME IInv, Send
  PROVE  IInv'
<1>1. stack \in Seq(Frame) /\ stack # <<>> /\ Len(stack) \in 1 .. MaxDepth
  BY CopiesType, Ends DEF IInv, Send, Doing
<1>2. top = stack[Len(stack)] /\ top \in Frame /\ top.doing = "send"
  BY <1>1, Ends DEF top, Send, Doing
<1>3. LoopOk(top) /\ TurnOk(top, observers_)
  <2>1. Len(stack) \in 1 .. Len(stack)
    BY <1>1
  <2> QED
    BY <1>1, <1>2, <2>1 DEF IInv, Send, Doing
<1> DEFINE new == [top EXCEPT !.doing = "recv"]
<1>4. new \in Frame /\ LoopOk(new) /\ TurnOk(new, observers_)
  BY <1>2, <1>3 DEF Frame, LoopOk, TurnOk
<1>5. stack' = Append(Front(stack), new)
  BY DEF Send
<1> HIDE DEF new
<1>6. StackOk(stack')
  BY <1>1, <1>4, <1>5, Replaced
<1>7. answers' \in Seq(1 .. MaxDepth)
  BY <1>1 DEF IInv, Send, depth
<1> QED
  BY <1>6, <1>7, StackKept DEF Send, IInv

LEMMA ReturnKeeps ==
  ASSUME IInv, Return \/ Throw
  PROVE  IInv'
<1>1. stack # <<>> /\ stack' = Front(stack) /\ UNCHANGED <<observers_, dangling, answers>>
  BY DEF Return, Throw, Doing
<1>2. StackOk(stack')
  BY <1>1, Popped
<1>3. strayed' \in BOOLEAN
  BY DEF IInv, Return, Throw, Owed
<1> QED
  BY <1>1, <1>2, <1>3, StackKept DEF IInv

LEMMA IInvInit == Init => IInv
<1> SUFFICES ASSUME Init PROVE IInv
  OBVIOUS
<1>1. /\ <<>> \in Seq(Entry) /\ <<>> \in Seq(Frame) /\ <<>> \in Seq(1 .. MaxDepth)
      /\ Len(<<>>) = 0 /\ 0 <= MaxDepth
  BY CopiesType
<1>2. Distinct(<<>>)
  BY DEF Distinct, Precedes
<1>3. /\ observers_ = <<>> /\ stack = <<>> /\ answers = <<>>
      /\ dangling \in BOOLEAN /\ strayed \in BOOLEAN
  BY DEF Init
<1>4. \A i : i \notin 1 .. Len(stack) /\ i \notin 1 .. Len(stack) - 1
  BY <1>3
<1> QED
  BY <1>1, <1>2, <1>3, <1>4 DEF IInv

LEMMA IInvNext == IInv /\ [Next]_vars => IInv'
<1> SUFFICES ASSUME IInv, [Next]_vars PROVE IInv'
  OBVIOUS
<1>1. ASSUME NEW o \in Observer, add_observer(o) PROVE IInv'
  BY <1>1, AddKeeps
<1>2. ASSUME NEW o \in Observer, remove_observer(o) PROVE IInv'
  BY <1>2, RemoveKeeps
<1>3. CASE Connect \/ Operation
  BY <1>3, CallKeeps
<1>4. CASE CallbackReturns
  BY <1>4, CallbackReturnsKeeps
<1>5. CASE Request
  BY <1>5, HappensKeeps DEF Request, Doing, Kinds, IInv
<1>6. CASE Send
  BY <1>6, SendKeeps
<1>7. CASE Recv
  <2>1. answers' \in Seq(1 .. MaxDepth)
    <3>1. answers \in Seq(1 .. MaxDepth) /\ answers # <<>>
      BY <1>7 DEF Recv, IInv
    <3>2. Tail(answers) \in Seq(1 .. MaxDepth)
      BY <3>1, HeadTailProperties
    <3> QED
      BY <1>7, <3>1, <3>2 DEF Recv
  <2>2. \E kind \in Kinds : Happens(kind)
    BY <1>7 DEF Recv, Kinds
  <2>3. strayed' \in BOOLEAN
    BY <1>7 DEF Recv, IInv
  <2> QED
    BY <1>7, <2>1, <2>2, <2>3, HappensKeeps DEF Recv, Doing
<1>8. CASE FileList \/ Abort
  BY <1>8, HappensKeeps DEF FileList, Abort, Doing, Kinds, IInv
<1>9. CASE Return \/ Throw
  BY <1>9, ReturnKeeps
<1>10. CASE UNCHANGED vars
  BY <1>10 DEF vars, IInv
<1> QED
  BY <1>1, <1>2, <1>3, <1>4, <1>5, <1>6, <1>7, <1>8, <1>9, <1>10 DEF Next

\* Observers: the loops' state keeps its type, and a call of the client waits
\* in a callback, whose entry is listed unless the loop's iterator dangles.
THEOREM TypeCorrect == Spec => []TypeOK
<1>1. ASSUME IInv PROVE TypeOK
  <2>1. DOMAIN stack = 1 .. Len(stack)
    BY <1>1 DEF IInv
  <2>2. ASSUME ~dangling, NEW i \in 1 .. Len(stack)
        PROVE  stack[i].at \in IF stack[i].doing = "callback" THEN Range(observers_) ELSE {NoEntry}
    <3>1. TurnOk(stack[i], observers_)
      BY <1>1, <2>2 DEF IInv
    <3> QED
      BY <3>1 DEF TurnOk
  <2> QED
    BY <1>1, <2>1, <2>2 DEF IInv, TypeOK
<1> QED
  BY <1>1, IInvInit, IInvNext, PTL DEF Spec

\* The loops of client.cpp over observers_: nobody is told twice of an event,
\* and a loop that ends has told everybody who was listed when it began or was
\* added while it ran, unless removed before its turn.
THEOREM LoopsTell == Spec => []EachIsTold
<1>1. IInv => EachIsTold
  BY DEF IInv, EachIsTold, LoopOk
<1> QED
  BY <1>1, IInvInit, IInvNext, PTL DEF Spec

--------------------------------------------------------------------------------
(* The replies.                                                            *)

\* The server owes a reply to what the frame has sent.
Waits(frame) == Owed(frame) \/ (frame.kind = "request" /\ frame.doing = "recv")

\* What an operation does goes with the event it has come to.
Staged(frame) ==
    /\ frame.doing = "recv" => Waits(frame)
    /\ frame.doing = "send" => frame.kind \in {"request", "abort"}
    /\ frame.doing = "next" => frame.kind \in {"preliminary", "reply"}

\* What the server owes the d-th call: a reply, or after ABOR two.
Debt(frame, d) ==
    IF frame.kind = "abort" /\ frame.doing = "recv" THEN <<d, d>>
    ELSE IF Waits(frame) THEN <<d>> ELSE <<>>

\* Only the call on top of the stack s may be owed replies, and these are all
\* that the server owes.
Orderly(s, owing) ==
    /\ \A i \in 1 .. Len(s) - 1 : ~Waits(s[i])
    /\ owing = IF Len(s) # 0 THEN Debt(s[Len(s)], Len(s)) ELSE <<>>

\* What is owed once ABOR has been sent.
LEMMA OneMore ==
  ASSUME NEW d \in Nat
  PROVE  Append(<<d>>, d) = <<d, d>>
<1> DEFINE s == <<d>>
           t == <<d, d>>
           u == Append(s, d)
<1>1. s \in Seq(Nat) /\ Len(s) = 1 /\ s[1] = d /\ 1 + 1 = 2
  OBVIOUS
<1>2. t \in Seq(Nat) /\ Len(t) = 2 /\ t[1] = d /\ t[2] = d
  OBVIOUS
<1> HIDE DEF s, t
<1>3. u \in Seq(Nat) /\ Len(u) = Len(s) + 1 /\ u[Len(s) + 1] = d /\ \A i \in 1 .. Len(s) : u[i] = s[i]
  BY <1>1, AppendProperties
<1> HIDE DEF u
<1>4. u[1] = d /\ u[2] = d /\ Len(u) = 2
  BY <1>1, <1>3
<1>5. \A i \in 1 .. Len(u) : u[i] = t[i]
  <2>1. 1 .. 2 = {1, 2}
    OBVIOUS
  <2> QED
    BY <1>2, <1>4, <2>1
<1>6. u = t
  BY <1>2, <1>3, <1>4, <1>5, SeqEqual
<1> QED
  BY <1>6 DEF u, s, t

LEMMA NothingOwed ==
  ASSUME NEW frame, NEW d, ~Waits(frame)
  PROVE  Debt(frame, d) = <<>>
BY DEF Debt, Waits, Owed

StepInv ==
    /\ \A i \in 1 .. Len(stack) : Staged(stack[i])
    /\ ~strayed /\ ~dangling => Orderly(stack, answers)

\* A call is made where no reply is owed.
LEMMA OrderlyPushed ==
  ASSUME NEW s \in Seq(Frame), NEW new, Len(s) # 0 => Orderly(s, answers) /\ ~Waits(s[Len(s)]),
         NEW owing, owing = Debt(new, Len(s) + 1)
  PROVE  Orderly(Append(s, new), owing)
<1> DEFINE t == Append(s, new)
<1>1. /\ Len(s) \in Nat /\ Len(t) = Len(s) + 1 /\ t[Len(s) + 1] = new
      /\ \A i \in 1 .. Len(s) : t[i] = s[i]
  OBVIOUS
<1> HIDE DEF t
<1>2. ASSUME NEW i \in 1 .. Len(t) - 1 PROVE ~Waits(t[i])
  <2>1. i \in 1 .. Len(s) /\ t[i] = s[i] /\ Len(s) # 0 /\ (i \in 1 .. Len(s) - 1 \/ i = Len(s))
    BY <1>1
  <2> QED
    BY <2>1 DEF Orderly
<1>3. Len(t) # 0 /\ t[Len(t)] = new
  BY <1>1
<1> QED
  BY <1>1, <1>2, <1>3 DEF Orderly, t

LEMMA OrderlyReplaced ==
  ASSUME NEW s \in Seq(Frame), s # <<>>, NEW a, Orderly(s, a), NEW new \in Frame,
         NEW owing, owing = Debt(new, Len(s))
  PROVE  Orderly(Append(Front(s), new), owing)
<1> DEFINE t == Append(Front(s), new)
<1>1. /\ Len(s) \in Nat \ {0} /\ Len(t) = Len(s) /\ t[Len(s)] = new
      /\ \A i \in 1 .. Len(s) - 1 : t[i] = s[i]
  BY Ends, LastReplaced
<1> HIDE DEF t
<1> QED
  BY <1>1 DEF Orderly, t

LEMMA OrderlyPopped ==
  ASSUME NEW s \in Seq(Frame), s # <<>>, NEW a, Orderly(s, a), ~Waits(s[Len(s)])
  PROVE  Orderly(Front(s), a)
<1> DEFINE t == Front(s)
<1>1. /\ Len(s) \in Nat \ {0} /\ Len(t) = Len(s) - 1
      /\ \A i \in 1 .. Len(s) - 1 : t[i] = s[i]
  BY Ends
<1> HIDE DEF t
<1>2. \A i \in 1 .. Len(t) : ~Waits(t[i])
  BY <1>1 DEF Orderly
<1>3. a = <<>>
  BY NothingOwed DEF Orderly
<1>4. \A i \in 1 .. Len(t) - 1 : i \in 1 .. Len(t)
  BY <1>1
<1>5. Len(t) # 0 => Len(t) \in 1 .. Len(t)
  BY <1>1
<1>6. Len(t) # 0 => Debt(t[Len(t)], Len(t)) = <<>>
  BY <1>2, <1>5, NothingOwed
<1> QED
  BY <1>2, <1>3, <1>4, <1>6 DEF Orderly, t

\* Every call in progress is as far as its event says, after each kind of step.
LEMMA StagedPushed ==
  ASSUME IInv, StepInv, NEW new \in Frame, Staged(new), stack' = Append(stack, new)
  PROVE  \A i \in 1 .. Len(stack') : Staged(stack'[i])
BY DEF IInv, StepInv

LEMMA StagedReplaced ==
  ASSUME IInv, StepInv, stack # <<>>, NEW new \in Frame, Staged(new), stack' = Append(Front(stack), new)
  PROVE  \A i \in 1 .. Len(stack') : Staged(stack'[i])
<1>1. /\ Len(stack') = Len(stack) /\ stack'[Len(stack)] = new /\ Len(stack) \in Nat \ {0}
      /\ \A i \in 1 .. Len(stack) - 1 : stack'[i] = stack[i]
  BY Ends, LastReplaced DEF IInv
<1> TAKE i \in 1 .. Len(stack')
<1>2. i = Len(stack) \/ (i \in 1 .. Len(stack) - 1 /\ i \in 1 .. Len(stack))
  BY <1>1
<1> QED
  BY <1>1, <1>2 DEF StepInv

LEMMA StagedPopped ==
  ASSUME IInv, StepInv, stack # <<>>, stack' = Front(stack)
  PROVE  \A i \in 1 .. Len(stack') : Staged(stack'[i])
<1>1. /\ Len(stack') = Len(stack) - 1 /\ Len(stack) \in Nat \ {0}
      /\ \A i \in 1 .. Len(stack) - 1 : stack'[i] = stack[i]
  BY Ends DEF IInv
<1> TAKE i \in 1 .. Len(stack')
<1>2. i \in 1 .. Len(stack) - 1 /\ i \in 1 .. Len(stack)
  BY <1>1
<1> QED
  BY <1>1, <1>2 DEF StepInv

LEMMA OnTop ==
  ASSUME IInv, StepInv, stack # <<>>
  PROVE  /\ Len(stack) \in Nat \ {0} /\ depth = Len(stack) /\ stack \in Seq(Frame)
         /\ top = stack[Len(stack)] /\ top \in Frame /\ Staged(top)
<1>1. stack \in Seq(Frame) /\ Len(stack) \in Nat \ {0} /\ top = stack[Len(stack)] /\ top \in Frame
  BY Ends DEF IInv, top
<1>2. Len(stack) \in 1 .. Len(stack)
  BY <1>1
<1> QED
  BY <1>1, <1>2 DEF StepInv, depth

\* A step of the call on top that leaves to the server what it owes it.
LEMMA ReplacedInStep ==
  ASSUME IInv, StepInv, stack # <<>>, NEW new \in Frame, Staged(new),
         stack' = Append(Front(stack), new), UNCHANGED dangling, strayed => strayed',
         ~strayed' /\ ~dangling /\ Orderly(stack, answers) => answers' = Debt(new, Len(stack))
  PROVE  StepInv'
<1>1. \A i \in 1 .. Len(stack') : Staged(stack'[i])
  BY StagedReplaced
<1>2. ASSUME ~strayed', ~dangling' PROVE Orderly(stack', answers')
  <2>1. Orderly(stack, answers)
    BY <1>2 DEF StepInv
  <2> QED
    BY <1>2, <2>1, OrderlyReplaced DEF IInv
<1> QED
  BY <1>1, <1>2 DEF StepInv

LEMMA ListInStep ==
  ASSUME IInv, StepInv, NEW o \in Observer, add_observer(o) \/ remove_observer(o)
  PROVE  StepInv'
<1>1. stack \in Seq(Frame) /\ ~dangling /\ UNCHANGED <<strayed, answers>> /\ Len(stack) \in Nat
  <2>1. ~dangling /\ UNCHANGED <<strayed, answers>>
    BY Zenon DEF add_observer, remove_observer, UserRuns
  <2> QED
    BY <2>1 DEF IInv
<1>2. \A i \in 1 .. Len(stack) : stack[i] \in Frame
  BY <1>1
<1>3. /\ Len(stack') = Len(stack)
      /\ \A i \in 1 .. Len(stack) : stack'[i].kind = stack[i].kind /\ stack'[i].doing = stack[i].doing
  <2>1. CASE add_observer(o)
    <3>1. PICK n : stack' = Owing(n)
      BY <2>1 DEF add_observer
    <3>2. stack' = [i \in 1 .. Len(stack) |->
                      IF stack[i].doing = "callback" THEN [stack[i] EXCEPT !.owed = @ \cup {n}]
                      ELSE stack[i]]
      BY <1>1, <3>1 DEF Owing
    <3>3. \A i \in 1 .. Len(stack) : stack'[i].kind = stack[i].kind /\ stack'[i].doing = stack[i].doing
      BY <1>2, <3>2 DEF Frame
    <3> QED
      BY <1>1, <3>2, <3>3
  <2>2. CASE remove_observer(o)
    <3> DEFINE Left(frame) == {n \in frame.owed : n[1] = o => n \in Range(frame.told)}
    <3>1. stack' = [i \in 1 .. Len(stack) |-> [stack[i] EXCEPT !.owed = Left(stack[i])]]
      BY <1>1, <2>2 DEF remove_observer
    <3> HIDE DEF Left
    <3>2. \A i \in 1 .. Len(stack) : stack'[i].kind = stack[i].kind /\ stack'[i].doing = stack[i].doing
      BY <1>2, <3>1 DEF Frame
    <3> QED
      BY <1>1, <3>1, <3>2
  <2> QED
    BY <2>1, <2>2
<1>4. \A i \in 1 .. Len(stack) :
         /\ Waits(stack'[i]) <=> Waits(stack[i])
         /\ Staged(stack'[i]) <=> Staged(stack[i])
  BY <1>3 DEF Waits, Owed, Staged
<1>5. \A i \in 1 .. Len(stack) - 1 : i \in 1 .. Len(stack)
  BY <1>1
<1>6. Len(stack) # 0 => Len(stack) \in 1 .. Len(stack)
  BY <1>1
<1>7. Len(stack) # 0 => Debt(stack'[Len(stack)], Len(stack)) = Debt(stack[Len(stack)], Len(stack))
  BY <1>3, <1>4, <1>6 DEF Debt
<1>8. \A i \in 1 .. Len(stack') : Staged(stack'[i])
  BY <1>3, <1>4 DEF StepInv
<1>9. Orderly(stack, answers) => Orderly(stack', answers)
  BY <1>3, <1>4, <1>5, <1>7 DEF Orderly
<1> QED
  BY <1>1, <1>8, <1>9 DEF StepInv

LEMMA CallInStep ==
  ASSUME IInv, StepInv, Connect \/ Operation
  PROVE  StepInv'
<1> DEFINE kind == IF Connect THEN "connected" ELSE "request"
           new == Notify(kind)
<1>1. /\ UserRuns /\ ~dangling /\ UNCHANGED dangling
      /\ stack' = Append(stack, new) /\ stack \in Seq(Frame) /\ Len(stack) \in Nat
  BY DEF Connect, Operation, UserRuns, IInv
<1>2. kind \in {"connected", "request"} /\ kind \in Kinds /\ (kind = "connected" <=> Connect)
  BY DEF Kinds
<1> HIDE DEF kind
<1>3. new \in Frame /\ new.kind = kind /\ new.doing \in {"callback", After(kind)}
  BY <1>2, Notifies
<1>4. (Waits(new) <=> Connect) /\ Staged(new)
  BY <1>2, <1>3 DEF Waits, Owed, Staged, After
<1> HIDE DEF new
<1>5. \A i \in 1 .. Len(stack') : Staged(stack'[i])
  BY <1>1, <1>3, <1>4, StagedPushed
<1>6. ASSUME ~strayed' PROVE Orderly(stack', answers')
  <2>1. ASSUME Len(stack) # 0 PROVE ~strayed /\ Orderly(stack, answers) /\ ~Waits(stack[Len(stack)])
    <3>1. stack # <<>>
      BY <2>1
    <3>2. ~strayed /\ ~Owed(top)
      BY <1>6, <3>1 DEF Connect, Operation
    <3>3. top.doing = "callback"
      BY <1>1, <3>1 DEF UserRuns
    <3> QED
      BY <1>1, <3>1, <3>2, <3>3, OnTop DEF StepInv, Waits
  <2>2. ASSUME ~strayed PROVE answers = <<>>
    <3>1. Orderly(stack, answers)
      BY <1>1, <2>2 DEF StepInv
    <3> QED
      BY <2>1, <3>1, NothingOwed DEF Orderly
  <2>3. answers' = IF Connect THEN <<Len(stack) + 1>> ELSE <<>>
    <3>1. CASE Connect
      <4>1. PICK received \in Prefixes(answers) :
               /\ answers' = Append(received, depth + 1)
               /\ strayed' = IF stack = <<>> THEN strayed /\ received # <<>>
                             ELSE strayed \/ Owed(top)
        BY <3>1 DEF Connect
      <4>2. received = <<>>
        <5>1. ASSUME ~strayed PROVE received = <<>>
          <6>1. answers \in Seq(1 .. MaxDepth) /\ answers = <<>>
            BY <2>2, <5>1 DEF IInv
          <6> QED
            BY <6>1, PrefixesType, Zenon
        <5>2. ASSUME strayed PROVE received = <<>>
          BY <1>6, <4>1, <5>2
        <5> QED
          BY <5>1, <5>2
      <4> QED
        BY <3>1, <4>1, <4>2 DEF depth
    <3>2. CASE ~Connect
      <4>1. answers' = answers /\ ~strayed
        BY <1>6, <3>2 DEF Operation
      <4> QED
        BY <2>2, <3>2, <4>1
    <3> QED
      BY <3>1, <3>2
  <2>4. answers' = Debt(new, Len(stack) + 1)
    BY <1>2, <1>3, <1>4, <2>3 DEF Debt
  <2> QED
    BY <1>1, <2>1, <2>4, OrderlyPushed
<1> QED
  BY <1>1, <1>5, <1>6 DEF StepInv

\* The next event: the reply owed is read, or is still owed.
LEMMA HappensInStep ==
  ASSUME IInv, StepInv, stack # <<>>, NEW kind \in Kinds, Happens(kind), UNCHANGED dangling,
         strayed => strayed', kind # "connected",
         ~strayed' /\ Orderly(stack, answers)
            => answers' = IF kind \in {"request", "reply"} THEN <<>> ELSE <<Len(stack)>>
  PROVE  StepInv'
<1> DEFINE new == Notify(kind)
<1>1. new \in Frame /\ new.kind = kind /\ new.doing \in {"callback", After(kind)}
  BY Notifies
<1>2. stack' = Append(Front(stack), new)
  BY DEF Happens
<1> HIDE DEF new
<1>3. Staged(new) /\ (kind \in {"request", "reply"} <=> ~Waits(new))
  BY <1>1 DEF Waits, Owed, Staged, After, Kinds
<1>4. ~(new.kind = "abort" /\ new.doing = "recv")
  BY <1>1 DEF After
<1>5. Debt(new, Len(stack)) = IF kind \in {"request", "reply"} THEN <<>> ELSE <<Len(stack)>>
  BY <1>3, <1>4, Zenon DEF Debt
<1> QED
  BY <1>1, <1>2, <1>3, <1>5, ReplacedInStep

LEMMA StepInvInit == Init => StepInv
BY DEF Init, StepInv, Orderly

LEMMA StepInvNext == IInv /\ StepInv /\ [Next]_vars => StepInv'
<1> SUFFICES ASSUME IInv, StepInv, [Next]_vars PROVE StepInv'
  OBVIOUS
<1>1. ASSUME NEW o \in Observer, add_observer(o) \/ remove_observer(o) PROVE StepInv'
  BY <1>1, ListInStep
<1>2. CASE Connect \/ Operation
  BY <1>2, CallInStep
<1>3. CASE CallbackReturns
  <2>1. PICK new \in Frame :
           /\ stack' = Append(Front(stack), new) /\ new.kind = top.kind
           /\ new.doing \in {"callback", After(top.kind)}
    BY <1>3, CallbackReturned
  <2>2. stack # <<>> /\ top.doing = "callback" /\ UNCHANGED <<dangling, strayed, answers>>
    BY <1>3 DEF CallbackReturns, Doing
  <2>3. top \in Frame /\ top.kind \in Kinds /\ top = stack[Len(stack)] /\ Len(stack) # 0
    BY <2>2, OnTop DEF Frame
  <2>4. (Waits(new) <=> Waits(top)) /\ Staged(new) /\ ~(new.kind = "abort" /\ new.doing = "recv")
    BY <2>1, <2>2, <2>3 DEF Waits, Owed, Staged, After, Kinds
  <2>5. Debt(new, Len(stack)) = Debt(top, Len(stack))
    BY <2>2, <2>4, Zenon DEF Debt
  <2> QED
    BY <2>1, <2>2, <2>3, <2>4, <2>5, ReplacedInStep DEF Orderly
<1>4. CASE Request
  <2>1. stack # <<>> /\ top.kind = "reply" /\ Happens("request") /\ UNCHANGED <<dangling, strayed, answers>>
    BY <1>4 DEF Request, Doing
  <2>2. ~Waits(top)
    BY <2>1 DEF Waits, Owed
  <2>3. ASSUME Orderly(stack, answers) PROVE answers = <<>>
    BY <2>1, <2>2, <2>3, OnTop, NothingOwed DEF Orderly
  <2> QED
    BY <2>1, <2>3, HappensInStep DEF Kinds
<1>5. CASE Send
  <2> DEFINE new == [top EXCEPT !.doing = "recv"]
  <2>1. /\ stack # <<>> /\ top.doing = "send" /\ UNCHANGED <<dangling, strayed>>
        /\ stack' = Append(Front(stack), new) /\ answers' = Append(answers, depth)
    BY <1>5 DEF Send, Doing
  <2>2. /\ top.kind \in {"request", "abort"} /\ top \in Frame /\ top = stack[Len(stack)]
        /\ depth = Len(stack) /\ Len(stack) # 0
    BY <2>1, OnTop DEF Staged
  <2>3. new \in Frame /\ new.kind = top.kind /\ new.doing = "recv"
    BY <2>2 DEF Frame
  <2> HIDE DEF new
  <2>4. Waits(new) /\ Staged(new)
    BY <2>1, <2>2, <2>3 DEF Waits, Owed, Staged
  <2>5. ASSUME Orderly(stack, answers) PROVE answers' = Debt(new, Len(stack))
    <3>1. answers = Debt(top, Len(stack))
      BY <2>2, <2>5 DEF Orderly
    <3>2. CASE top.kind = "request"
      <4>1. answers = <<>> /\ Debt(new, Len(stack)) = <<Len(stack)>>
        BY <2>1, <2>3, <2>4, <3>1, <3>2 DEF Debt, Waits, Owed
      <4> QED
        BY <2>1, <2>2, <4>1
    <3>3. CASE top.kind = "abort"
      <4>1. answers = <<Len(stack)>> /\ Debt(new, Len(stack)) = <<Len(stack), Len(stack)>>
        BY <2>1, <2>3, <3>1, <3>3 DEF Debt, Waits, Owed
      <4>2. Len(stack) \in Nat
        BY DEF IInv
      <4> QED
        BY <2>1, <2>2, <4>1, <4>2, OneMore
    <3> QED
      BY <2>2, <3>2, <3>3
  <2> QED
    BY <2>1, <2>3, <2>4, <2>5, ReplacedInStep
<1>6. CASE Recv
  <2>1. stack # <<>> /\ UNCHANGED dangling
    BY <1>6 DEF Recv, Doing
  <2>2. top = stack[Len(stack)] /\ Waits(top) /\ Len(stack) # 0
    BY <1>6, <2>1, OnTop DEF Recv, Doing, Staged, Waits, Owed
  <2>3. top.doing = "recv" \/ top.kind = "preliminary"
    BY <1>6 DEF Recv, Doing
  <2>4. ASSUME Orderly(stack, answers)
        PROVE  IF top.kind = "abort" THEN answers = <<Len(stack), Len(stack)>> ELSE answers = <<Len(stack)>>
    <3>1. answers = Debt(top, Len(stack))
      BY <2>2, <2>4 DEF Orderly
    <3> QED
      BY <2>2, <2>3, <3>1 DEF Debt
  <2>5. \A d : Tail(<<d>>) = <<>> /\ Tail(<<d, d>>) = <<d>>
    OBVIOUS
  <2>6. CASE top.kind = "request" /\ Happens("preliminary") /\ UNCHANGED <<answers, strayed>>
    BY <2>1, <2>4, <2>6, HappensInStep DEF Kinds
  <2>7. CASE top.kind = "connected" /\ Happens("reply") /\ strayed' = TRUE /\ UNCHANGED answers
    BY <2>1, <2>7, HappensInStep DEF Kinds
  <2>8. CASE top.kind = "abort" /\ Happens("aborted") /\ answers' = Tail(answers) /\ UNCHANGED strayed
    BY <2>1, <2>4, <2>5, <2>8, HappensInStep DEF Kinds
  <2>9. CASE Happens("reply") /\ answers' = Tail(answers) /\ strayed' = (strayed \/ top.kind = "abort")
    BY <2>1, <2>4, <2>5, <2>9, HappensInStep DEF Kinds
  <2> QED
    BY <1>6, <2>6, <2>7, <2>8, <2>9 DEF Recv
<1>7. CASE FileList \/ Abort
  <2>1. PICK kind \in {"file_list", "abort"} :
           /\ stack # <<>> /\ top.kind = "preliminary" /\ Happens(kind)
           /\ UNCHANGED <<dangling, strayed, answers>>
    BY <1>7 DEF FileList, Abort, Doing
  <2>2. ASSUME Orderly(stack, answers) PROVE answers = <<Len(stack)>>
    <3>1. Waits(top) /\ top = stack[Len(stack)] /\ Len(stack) # 0
      BY <2>1, OnTop DEF Waits, Owed
    <3> QED
      BY <2>1, <2>2, <3>1 DEF Orderly, Debt
  <2> QED
    BY <2>1, <2>2, HappensInStep DEF Kinds
<1>8. CASE Return \/ Throw
  <2>1. stack # <<>> /\ stack' = Front(stack) /\ UNCHANGED <<dangling, answers>>
    BY <1>8 DEF Return, Throw, Doing
  <2>2. \A i \in 1 .. Len(stack') : Staged(stack'[i])
    BY <2>1, StagedPopped
  <2>3. ASSUME ~strayed', ~dangling' PROVE Orderly(stack', answers')
    <3>1. ~strayed /\ ~dangling /\ ~Waits(top)
      <4>1. CASE Return
        <5>1. UNCHANGED strayed /\ ~dangling /\ top.doing = "next" /\ top.kind = "reply"
          BY <4>1 DEF Return, Doing
        <5> QED
          BY <2>3, <5>1 DEF Waits, Owed
      <4>2. CASE Throw
        <5>1. ~strayed /\ ~dangling /\ ~Owed(top) /\ top.doing # "recv"
          BY <2>3, <4>2, Zenon DEF Throw
        <5> QED
          BY <5>1 DEF Waits
      <4> QED
        BY <1>8, <4>1, <4>2
    <3> QED
      BY <2>1, <3>1, OnTop, OrderlyPopped DEF StepInv
  <2> QED
    BY <2>2, <2>3 DEF StepInv
<1>9. CASE UNCHANGED vars
  BY <1>9 DEF vars, StepInv
<1> QED
  BY <1>1, <1>2, <1>3, <1>4, <1>5, <1>6, <1>7, <1>8, <1>9 DEF Next

\* client::send and recv around the callbacks: unless the client was called
\* while a reply was owed, an exception left one, ABOR was answered without a
\* 426 or a greeting with a 120, every operation reads its own replies, and none
\* is left when the client is idle.
THEOREM OperationsReadTheirReplies == Spec => []CallbacksKeepStep
<1>1. ASSUME IInv, StepInv PROVE CallbacksKeepStep
  <2> SUFFICES ASSUME ~strayed, ~dangling
               PROVE  /\ stack = <<>> => answers = <<>>
                      /\ Doing("recv") => answers # <<>> /\ Head(answers) = depth
                      /\ \A i \in DOMAIN stack :
                            i \in Range(answers) =>
                              Owed(stack[i]) \/ (stack[i].kind = "request" /\ stack[i].doing = "recv")
    BY DEF CallbacksKeepStep
  <2>1. Orderly(stack, answers)
    BY <1>1 DEF StepInv
  <2>2. stack = <<>> => answers = <<>>
    BY <2>1 DEF Orderly
  <2>3. ASSUME Doing("recv") PROVE answers # <<>> /\ Head(answers) = depth
    <3>1. stack # <<>> /\ top.doing = "recv"
      BY <2>3 DEF Doing
    <3>2. Waits(stack[Len(stack)]) /\ Len(stack) # 0 /\ depth = Len(stack)
      BY <1>1, <3>1, OnTop DEF Staged
    <3>3. answers = <<depth>> \/ answers = <<depth, depth>>
      BY <2>1, <3>2 DEF Orderly, Debt
    <3> QED
      BY <3>3
  <2>4. ASSUME NEW i \in DOMAIN stack, i \in Range(answers) PROVE Waits(stack[i])
    <3>1. answers # <<>>
      BY <2>4 DEF Range
    <3>2. Len(stack) # 0 /\ answers = Debt(stack[Len(stack)], Len(stack))
      BY <2>1, <3>1 DEF Orderly
    <3>3. Waits(stack[Len(stack)])
      BY <3>1, <3>2, NothingOwed
    <3>4. answers = <<Len(stack)>> \/ answers = <<Len(stack), Len(stack)>>
      BY <3>2, <3>3 DEF Debt
    <3>5. i = Len(stack)
      BY <2>4, <3>4 DEF Range
    <3> QED
      BY <3>3, <3>5
  <2> QED
    BY <2>2, <2>3, <2>4 DEF Waits
<1> QED
  BY <1>1, IInvInit, IInvNext, StepInvInit, StepInvNext, PTL DEF Spec
================================================================================
