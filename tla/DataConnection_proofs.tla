------------------------- MODULE DataConnection_proofs -------------------------
(***************************************************************************)
(* The transfer of DataConnection, for texts of any length over the        *)
(* characters and for blocks and buffers of any size: what arrives is the  *)
(* converted text, and the calls of transfer_callback follow it.           *)
(***************************************************************************)
EXTENDS DataConnection, SequenceLemmas

--------------------------------------------------------------------------------
(* ascii_ostream::write.                                                   *)

Output == [out : Seq(Chars), prev_cr : BOOLEAN]

LEMMA StepType ==
  ASSUME NEW st \in Output, NEW ch \in Chars
  PROVE  Step(st, ch) \in Output
BY DEF Step, Output, Chars

\* st is the loop of write() on a text, after each number of characters.
Writes(st, text, prev_cr) ==
    /\ st \in [0 .. Len(text) -> Output]
    /\ st[0] = [out |-> <<>>, prev_cr |-> prev_cr]
    /\ \A i \in 1 .. Len(text) : st[i] = Step(st[i - 1], text[i])

LEMMA WriteLoop ==
  ASSUME NEW text \in Seq(Chars), NEW prev_cr \in BOOLEAN
  PROVE  \E st : Writes(st, text, prev_cr) /\ Written(text, prev_cr) = st[Len(text)]
<1> DEFINE zero == [out |-> <<>>, prev_cr |-> prev_cr]
           step == [i \in 1 .. Len(text) |-> [st \in Output |-> Step(st, text[i])]]
           Solves(f) == f = [i \in 0 .. Len(text) |->
                                IF i = 0 THEN zero ELSE Step(f[i - 1], text[i])]
           st == CHOOSE f : Solves(f)
<1>1. Len(text) \in Nat /\ zero \in Output
  BY DEF Output
<1>2. step \in [1 .. Len(text) -> [Output -> Output]]
  BY StepType
<1>3. PICK f : Runs(f, Output, Len(text), zero, step)
  <2> HIDE DEF step, zero
  <2> QED
    BY <1>1, <1>2, Recursion
<1>4. f \in [0 .. Len(text) -> Output] /\ f[0] = zero
  <2> HIDE DEF zero
  <2> QED
    BY <1>3 DEF Runs
<1>5. \A i \in 1 .. Len(text) : f[i] = Step(f[i - 1], text[i])
  <2> TAKE i \in 1 .. Len(text)
  <2>1. f[i - 1] \in Output
    <3>1. i - 1 \in 0 .. Len(text)
      OBVIOUS
    <3> QED
      BY <1>4, <3>1
  <2>2. f[i] = step[i][f[i - 1]]
    <3> HIDE DEF step, zero
    <3> QED
      BY <1>3 DEF Runs
  <2> QED
    BY <2>1, <2>2
<1> HIDE DEF zero
<1>6. Solves(f)
  <2>1. \A i \in 0 .. Len(text) : f[i] = IF i = 0 THEN zero ELSE Step(f[i - 1], text[i])
    <3> TAKE i \in 0 .. Len(text)
    <3>1. i = 0 \/ (i # 0 /\ i \in 1 .. Len(text))
      OBVIOUS
    <3> QED
      BY <1>4, <1>5, <3>1
  <2> QED
    BY <1>4, <2>1
<1>7. Solves(st)
  <2> HIDE DEF Solves
  <2> QED
    BY <1>6
<1>8. Written(text, prev_cr) = st[Len(text)]
  BY DEF Written, zero
<1> HIDE DEF st
<1>9. st[0] = zero
  BY <1>1, <1>7
<1>10. \A i \in 1 .. Len(text) : st[i] = Step(st[i - 1], text[i])
  <2> TAKE i \in 1 .. Len(text)
  <2>1. i \in 0 .. Len(text) /\ i # 0
    OBVIOUS
  <2> QED
    BY <1>7, <2>1, Zenon
<1> DEFINE T == {k \in Nat : k <= Len(text) => st[k] = f[k]}
<1>11. 0 \in T
  BY <1>4, <1>9
<1>12. \A k \in T : k + 1 \in T
  <2> TAKE k \in T
  <2> SUFFICES ASSUME k \in Nat, k + 1 <= Len(text) PROVE st[k + 1] = f[k + 1]
    OBVIOUS
  <2>1. k + 1 \in 1 .. Len(text) /\ (k + 1) - 1 = k /\ st[k] = f[k]
    OBVIOUS
  <2> HIDE DEF T
  <2> QED
    BY <1>5, <1>10, <2>1
<1>13. T = Nat
  <2>1. T \subseteq Nat
    OBVIOUS
  <2> HIDE DEF T
  <2> QED
    BY <1>11, <1>12, <2>1, Induction
<1>14. st \in [0 .. Len(text) -> Output]
  <2>1. \A i \in 0 .. Len(text) : st[i] = f[i]
    <3> TAKE i \in 0 .. Len(text)
    <3>1. i \in T
      BY <1>13
    <3> QED
      BY <3>1
  <2> QED
    BY <1>4, <1>7, <2>1
<1> QED
  BY <1>8, <1>9, <1>10, <1>14, Zenon DEF Writes, zero

LEMMA WrittenType ==
  ASSUME NEW text \in Seq(Chars), NEW prev_cr \in BOOLEAN
  PROVE  Written(text, prev_cr) \in Output
<1>1. PICK st : Writes(st, text, prev_cr) /\ Written(text, prev_cr) = st[Len(text)]
  BY WriteLoop
<1> QED
  BY <1>1 DEF Writes

--------------------------------------------------------------------------------
(* Types.                                                                  *)

LEMMA DataType ==
  /\ \A text \in Texts : text \in Seq(Chars)
  /\ BlockSize \in Nat /\ BlockSize >= 1 /\ InternalSize \in Nat /\ InternalSize >= 1
  /\ "CR" \in Chars /\ "LF" \in Chars
BY DataAssumption DEF Chars

\* A block is the beginning of what there is.
LEMMA Taken ==
  ASSUME NEW s \in Seq(Chars), NEW n \in 1 .. Len(s)
  PROVE  /\ SubSeq(s, 1, n) \in Seq(Chars) /\ Len(SubSeq(s, 1, n)) = n
         /\ \A i \in 1 .. n : SubSeq(s, 1, n)[i] = s[i]
         /\ SubSeq(s, n + 1, Len(s)) \in Seq(Chars) /\ Len(SubSeq(s, n + 1, Len(s))) = Len(s) - n
         /\ \A i \in 1 .. Len(s) - n : SubSeq(s, n + 1, Len(s))[i] = s[n + i]
<1> DEFINE size == Len(s)
           m == n + 1
<1>1. n \in Nat /\ size \in Nat /\ m \in Nat /\ n <= size /\ 1 <= n /\ m = n + 1
  OBVIOUS
<1>2. (\A i \in 1 .. n : s[i] \in Chars) /\ (\A i \in m .. size : s[i] \in Chars)
  OBVIOUS
<1> HIDE DEF size, m
<1>3. /\ SubSeq(s, 1, n) \in Seq(Chars) /\ Len(SubSeq(s, 1, n)) = IF 1 <= n THEN n - 1 + 1 ELSE 0
      /\ \A i \in 1 .. n - 1 + 1 : SubSeq(s, 1, n)[i] = s[1 + i - 1]
  BY <1>1, <1>2, SubSeqProperties
<1>4. /\ SubSeq(s, m, size) \in Seq(Chars) /\ Len(SubSeq(s, m, size)) = IF m <= size THEN size - m + 1 ELSE 0
      /\ \A i \in 1 .. size - m + 1 : SubSeq(s, m, size)[i] = s[m + i - 1]
  BY <1>1, <1>2, SubSeqProperties
<1>5. Len(SubSeq(s, 1, n)) = n /\ Len(SubSeq(s, m, size)) = size - n
  BY <1>1, <1>3, <1>4
<1>6. \A i \in 1 .. n : SubSeq(s, 1, n)[i] = s[i]
  <2>1. n - 1 + 1 = n /\ \A i \in 1 .. n : 1 + i - 1 = i
    BY <1>1
  <2> QED
    BY <1>3, <2>1
<1>7. \A i \in 1 .. size - n : SubSeq(s, m, size)[i] = s[n + i]
  <2>1. size - m + 1 = size - n /\ \A i \in 1 .. size - n : m + i - 1 = n + i
    BY <1>1
  <2> QED
    BY <1>4, <2>1
<1> QED
  BY <1>3, <1>4, <1>5, <1>6, <1>7 DEF size, m

LEMMA BlockTaken ==
  ASSUME TypeOK, NEW n \in 1 .. Len(src), Take(n)
  PROVE  /\ buf' \in Seq(Chars) /\ Len(buf') = n /\ \A i \in 1 .. n : buf'[i] = src[i]
         /\ src' \in Seq(Chars) /\ Len(src') = Len(src) - n /\ Len(src) \in Nat
         /\ \A i \in 1 .. Len(src) - n : src'[i] = src[n + i]
<1>1. src \in Seq(Chars) /\ Len(src) \in Nat
  BY DEF TypeOK
<1>2. buf' = SubSeq(src, 1, n) /\ src' = SubSeq(src, n + 1, Len(src))
  BY DEF Take
<1>3. /\ buf' \in Seq(Chars) /\ Len(buf') = n /\ \A i \in 1 .. n : buf'[i] = src[i]
  <2>1. /\ SubSeq(src, 1, n) \in Seq(Chars) /\ Len(SubSeq(src, 1, n)) = n
        /\ \A i \in 1 .. n : SubSeq(src, 1, n)[i] = src[i]
    BY <1>1, Taken
  <2> QED
    BY <1>2, <2>1, Zenon
<1>4. /\ src' \in Seq(Chars) /\ Len(src') = Len(src) - n
      /\ \A i \in 1 .. Len(src) - n : src'[i] = src[n + i]
  <2>1. /\ SubSeq(src, n + 1, Len(src)) \in Seq(Chars) /\ Len(SubSeq(src, n + 1, Len(src))) = Len(src) - n
        /\ \A i \in 1 .. Len(src) - n : SubSeq(src, n + 1, Len(src))[i] = src[n + i]
    BY <1>1, Taken
  <2> QED
    BY <1>2, <2>1, Zenon
<1> QED
  BY <1>1, <1>3, <1>4

LEMMA TypeInit == Init => TypeOK
<1> SUFFICES ASSUME Init PROVE TypeOK
  OBVIOUS
<1>1. dst \in Seq(Chars) /\ buf \in Seq(Chars) /\ internal_ \in Seq(Chars) /\ src \in Seq(Chars)
  BY DataType DEF Init
<1>2. Len(buf) <= BlockSize /\ Len(internal_) <= InternalSize
  BY DataType DEF Init
<1> QED
  BY <1>1, <1>2 DEF Init, TypeOK

LEMMA TypeNext == TypeOK /\ [Next]_vars => TypeOK'
<1> SUFFICES ASSUME TypeOK, [Next]_vars PROVE TypeOK'
  OBVIOUS
<1> USE DataType
<1>1. CASE Start
  BY <1>1 DEF Start, TypeOK, stream, calls
<1>2. CASE Notify
  BY <1>2 DEF Notify, TypeOK, stream, calls
<1>3. CASE End
  BY <1>3 DEF End, TypeOK, stream, calls
<1>4. CASE Leave
  BY <1>4 DEF Leave, TypeOK, stream, calls
<1>5. CASE ReadBinary \/ ReadSocket
  <2>1. /\ pc' \in {"end", "flush", "write"}
        /\ UNCHANGED <<src, buf>> \/ \E n \in 1 .. Len(src) : n <= BlockSize /\ Take(n)
        /\ UNCHANGED <<call, transfer_type_, transfer_cb, whole, dst, stream, calls, late, cut>>
    BY <1>5 DEF ReadBinary, ReadSocket
  <2>2. /\ src' \in Seq(Chars) /\ buf' \in Seq(Chars) /\ Len(buf') <= BlockSize
    <3>1. CASE UNCHANGED <<src, buf>>
      BY <3>1 DEF TypeOK
    <3>2. ASSUME NEW n \in 1 .. Len(src), n <= BlockSize, Take(n)
          PROVE  src' \in Seq(Chars) /\ buf' \in Seq(Chars) /\ Len(buf') <= BlockSize
      BY <3>2, BlockTaken
    <3> QED
      BY <2>1, <3>1, <3>2
  <2> QED
    BY <2>1, <2>2 DEF TypeOK, stream, calls
<1>6. CASE ReadAscii
  <2>1. buf' \in Seq(Chars) /\ Len(buf') <= BlockSize
    BY <1>6 DEF ReadAscii
  <2> QED
    BY <1>6, <2>1 DEF ReadAscii, TypeOK, stream, calls
<1>7. CASE Refill
  <2>1. src' \in Seq(Chars) /\ internal_' \in Seq(Chars) /\ Len(internal_') <= InternalSize
    <3>1. PICK n \in 1 .. Len(src) : /\ n <= InternalSize /\ internal_' = SubSeq(src, 1, n)
                                     /\ src' = SubSeq(src, n + 1, Len(src))
      BY <1>7 DEF Refill
    <3>2. src \in Seq(Chars)
      BY DEF TypeOK
    <3> QED
      BY <3>1, <3>2, Taken
  <2> QED
    BY <1>7, <2>1 DEF Refill, TypeOK, stream, calls
<1>8. CASE Convert
  <2>1. /\ internal_ \in Seq(Chars) /\ internal_ # <<>> /\ internal_' = Tail(internal_)
        /\ buf \in Seq(Chars) /\ Len(buf) < BlockSize /\ Len(buf) \in Nat
    BY <1>8 DEF Convert, TypeOK
  <2>2. /\ Head(internal_) \in Chars /\ internal_' \in Seq(Chars)
        /\ Len(internal_') <= InternalSize
    <3>1. Head(internal_) \in Chars /\ Tail(internal_) \in Seq(Chars) /\ Len(Tail(internal_)) = Len(internal_) - 1
      BY <2>1, HeadTailProperties
    <3> QED
      BY <2>1, <3>1 DEF TypeOK
  <2>3. /\ buf \o <<"CR", "LF">> \in Seq(Chars) /\ Len(buf \o <<"CR", "LF">>) = Len(buf) + 2
        /\ \A ch \in Chars : Append(buf, ch) \in Seq(Chars) /\ Len(Append(buf, ch)) = Len(buf) + 1
    BY <2>1
  <2>4. /\ buf' \in Seq(Chars) /\ Len(buf') <= BlockSize /\ need_linefeed_' \in BOOLEAN
    <3>1. CASE append_crlf
      <4>1. CASE Len(buf) + 1 < BlockSize
        <5>1. buf' = buf \o <<"CR", "LF">> /\ UNCHANGED need_linefeed_
          BY <3>1, <4>1 DEF append_crlf
        <5> QED
          BY <2>1, <2>3, <4>1, <5>1 DEF TypeOK
      <4>2. CASE ~(Len(buf) + 1 < BlockSize)
        <5>1. buf' = Append(buf, "CR") /\ need_linefeed_' = TRUE
          BY <3>1, <4>2 DEF append_crlf
        <5> QED
          BY <2>1, <2>3, <5>1
      <4> QED
        BY <4>1, <4>2
    <3>2. CASE UNCHANGED <<buf, need_linefeed_>>
      BY <2>1, <3>2 DEF TypeOK
    <3>3. CASE buf' = Append(buf, Head(internal_)) /\ UNCHANGED need_linefeed_
      BY <2>1, <2>2, <2>3, <3>3 DEF TypeOK
    <3> QED
      BY <1>8, <3>1, <3>2, <3>3 DEF Convert
  <2> QED
    BY <1>8, <2>2, <2>4 DEF Convert, TypeOK, stream, calls
<1>9. CASE Converted
  BY <1>9 DEF Converted, TypeOK, stream, calls
<1>10. CASE WriteSocket \/ WriteBinary
  <2>1. dst \o buf \in Seq(Chars)
    BY DEF TypeOK
  <2>2. /\ dst' = dst \o buf /\ pc' = "notify"
        /\ late' = IF transfer_cb = "cancelled" THEN late + 1 ELSE late
        /\ UNCHANGED <<call, transfer_type_, transfer_cb, whole, src, buf, stream, calls, cut>>
    BY <1>10 DEF WriteSocket, WriteBinary, Put
  <2>3. late' \in Nat
    BY <2>2 DEF TypeOK
  <2> QED
    BY <2>1, <2>2, <2>3 DEF TypeOK, stream, calls
<1>11. CASE WriteAscii
  <2>1. Written(buf, prev_cr_) \in Output
    BY WrittenType DEF TypeOK
  <2>2. /\ dst' = dst \o Written(buf, prev_cr_).out /\ prev_cr_' = Written(buf, prev_cr_).prev_cr
        /\ late' = IF transfer_cb = "cancelled" THEN late + 1 ELSE late
    BY <1>11 DEF WriteAscii, Put
  <2>3. dst' \in Seq(Chars) /\ prev_cr_' \in BOOLEAN
    BY <2>1, <2>2 DEF Output, TypeOK
  <2>4. late' \in Nat
    BY <2>2 DEF TypeOK
  <2> QED
    BY <1>11, <2>3, <2>4 DEF WriteAscii, TypeOK, stream, calls
<1>12. CASE Flush
  <2>1. dst' \in Seq(Chars)
    BY <1>12 DEF Flush, TypeOK
  <2> QED
    BY <1>12, <2>1 DEF Flush, TypeOK, stream, calls
<1>13. CASE Throw
  BY <1>13 DEF Throw, TypeOK, stream, calls
<1>14. CASE Cancel
  BY <1>14 DEF Cancel, TypeOK, stream, calls
<1>15. CASE Relent
  BY <1>15 DEF Relent, TypeOK, stream, calls
<1>16. CASE UNCHANGED vars
  BY <1>16 DEF vars, TypeOK, stream, calls
<1> QED
  BY <1>1, <1>2, <1>3, <1>4, <1>5, <1>6, <1>7, <1>8, <1>9, <1>10, <1>11, <1>12, <1>13, <1>14, <1>15, <1>16
     DEF Next, Proceed

\* data_connection and the streams: a block never outgrows its buffer, wherever
\* a CRLF falls, and all state keeps its type.
THEOREM TypeCorrect == Spec => []TypeOK
  BY TypeInit, TypeNext, PTL DEF Spec

--------------------------------------------------------------------------------
(* The calls of transfer_callback.                                         *)

Active == {"read", "convert", "write", "notify", "flush", "end"}
Over == {"left", "complete", "aborted"}

\* The bytes of the block that notify() has yet to count.
Uncounted == IF pc = "notify" \/ (pc = "write" /\ call = "recv") THEN Len(buf) ELSE 0

CallsInv ==
    /\ pc \in Active => (begun <=> transfer_cb # "null") /\ ~ended
    /\ pc \in Over => (ended <=> begun)
    /\ pc = "start" => ~begun /\ ~ended
    /\ ~begun /\ transfer_cb # "null" => pc \notin Active /\ dst = <<>> /\ notified = 0
    /\ begun => transfer_cb # "null"
    /\ begun /\ pc # "thrown" =>
           notified + Uncounted = IF call = "send" THEN Len(dst) ELSE Len(whole) - Len(src)
    /\ pc = "start" => dst = <<>> /\ src = whole /\ notified = 0
    /\ pc = "flush" => call = "recv"
    /\ pc = "convert" => call = "send"

LEMMA CallsInit == Init => CallsInv
BY DEF Init, CallsInv, Active, Over

LEMMA CallsNext == TypeOK /\ CallsInv /\ [Next]_vars => CallsInv'
<1> SUFFICES ASSUME TypeOK, TypeOK', CallsInv, [Next]_vars PROVE CallsInv'
  BY TypeNext
<1> USE DEF CallsInv, Uncounted, Active, Over
<1>0. whole \in Seq(Chars) /\ Len(whole) \in Nat /\ Len(src) \in Nat /\ Len(dst) \in Nat /\ Len(buf) \in Nat
  BY DataType DEF TypeOK
<1>1. CASE Start
  <2>1. /\ pc = "start" /\ pc' \in {"left", "read"} /\ (pc' = "left" => ~begun') /\ Len(<<>>) = 0
        /\ pc' = "read" => (begun' <=> transfer_cb # "null")
        /\ UNCHANGED <<call, transfer_cb, whole, src, dst, buf, notified, ended>>
    BY <1>1 DEF Start, calls
  <2>2. notified' + Uncounted' = IF call' = "send" THEN Len(dst') ELSE Len(whole') - Len(src')
    BY <1>0, <2>1
  <2> HIDE DEF Uncounted
  <2> QED
    BY <2>1, <2>2
<1>2. CASE Notify
  BY <1>0, <1>2 DEF Notify, TypeOK, stream, calls
<1>3. CASE End
  BY <1>0, <1>3 DEF End, TypeOK, stream, calls
<1>4. CASE Leave
  BY <1>0, <1>4 DEF Leave, TypeOK, stream, calls
<1>5. CASE ReadBinary
  BY <1>0, <1>5 DEF ReadBinary, TypeOK, stream, calls
<1>6. CASE ReadSocket
  <2>1. \/ pc' = "flush" /\ UNCHANGED <<src, buf>>
        \/ pc' = "write" /\ Len(src') \in Nat /\ Len(buf') \in Nat /\ Len(src) = Len(src') + Len(buf')
    <3>1. ASSUME NEW n \in 1 .. Len(src), Take(n)
          PROVE  Len(src') \in Nat /\ Len(buf') \in Nat /\ Len(src) = Len(src') + Len(buf')
      <4>1. Len(buf') = n /\ Len(src') = Len(src) - n /\ n \in Nat /\ n <= Len(src)
        BY <3>1, <1>0, BlockTaken
      <4> QED
        BY <1>0, <4>1
    <3> QED
      BY <1>6, <3>1 DEF ReadSocket
  <2> QED
    BY <1>0, <1>6, <2>1 DEF ReadSocket, TypeOK, stream, calls
<1>7. CASE ReadAscii
  BY <1>0, <1>7 DEF ReadAscii, TypeOK, stream, calls
<1>8. CASE Refill
  BY <1>0, <1>8 DEF Refill, TypeOK, stream, calls
<1>9. CASE Convert
  BY <1>0, <1>9 DEF Convert, TypeOK, stream, calls
<1>10. CASE Converted
  BY <1>0, <1>10 DEF Converted, TypeOK, stream, calls
<1>11. CASE WriteSocket
  <2>1. dst' = dst \o buf
    BY <1>11 DEF WriteSocket, Put
  <2>2. Len(dst') = Len(dst) + Len(buf)
    BY <2>1 DEF TypeOK
  <2>3. /\ pc = "write" /\ call = "send" /\ pc' = "notify"
        /\ UNCHANGED <<call, transfer_cb, whole, src, buf, begun, notified, ended>>
    BY <1>11 DEF WriteSocket, calls
  <2>4. ASSUME begun' PROVE notified' + Uncounted' = Len(dst')
    <3>1. begun /\ notified + 0 = Len(dst)
      BY <2>3, <2>4
    <3>2. notified \in Nat
      BY DEF TypeOK
    <3> QED
      BY <1>0, <2>2, <2>3, <3>1, <3>2
  <2> HIDE DEF Uncounted
  <2> QED
    BY <2>3, <2>4 DEF TypeOK
<1>12. CASE WriteBinary \/ WriteAscii
  <2>1. /\ pc = "write" /\ call = "recv" /\ pc' = "notify"
        /\ UNCHANGED <<call, transfer_cb, whole, src, buf, calls>>
    BY <1>12 DEF WriteBinary, WriteAscii
  <2> QED
    BY <1>0, <2>1 DEF TypeOK, calls
<1>13. CASE Flush
  BY <1>0, <1>13 DEF Flush, TypeOK, stream, calls
<1>14. CASE Throw
  BY <1>0, <1>14 DEF Throw, TypeOK, stream, calls
<1>15. CASE Cancel
  BY <1>0, <1>15 DEF Cancel, TypeOK, stream, calls
<1>16. CASE Relent
  BY <1>0, <1>16 DEF Relent, TypeOK, stream, calls
<1>17. CASE UNCHANGED vars
  BY <1>17 DEF vars, stream, calls
<1> QED
  BY <1>1, <1>2, <1>3, <1>4, <1>5, <1>6, <1>7, <1>8, <1>9, <1>10, <1>11, <1>12, <1>13, <1>14, <1>15,
     <1>16, <1>17 DEF Next, Proceed

\* data_connection::send and recv: begin() comes before any data and end()
\* after all of it, and in between notify() counts every byte on the wire once.
THEOREM CallsFollowTheData == Spec => []CallbackProtocol
<1>1. TypeOK /\ CallsInv => CallbackProtocol
  <2> SUFFICES ASSUME TypeOK, CallsInv PROVE CallbackProtocol
    OBVIOUS
  <2>1. Len(whole) \in Nat /\ Len(src) \in Nat /\ Len(dst) \in Nat
    BY DataType DEF TypeOK
  <2>2. begun /\ pc \in {"flush", "end", "left", "complete", "aborted"}
           => notified = IF call = "send" THEN Len(dst) ELSE Len(whole) - Len(src)
    BY <2>1 DEF CallsInv, Uncounted, TypeOK
  <2> QED
    BY <2>2 DEF CallbackProtocol, CallsInv, Active, Over, TypeOK
<1> QED
  BY <1>1, TypeInit, TypeNext, CallsInit, CallsNext, PTL DEF Spec

--------------------------------------------------------------------------------
(* Cancellation.                                                           *)

SoonInv ==
    /\ late <= 1
    /\ transfer_cb # "cancelled" => late = 0
    /\ pc \in {"start", "read", "convert", "write"} => late = 0

LEMMA SoonNext == TypeOK /\ SoonInv /\ [Next]_vars => SoonInv'
<1> SUFFICES ASSUME TypeOK, SoonInv, [Next]_vars PROVE SoonInv'
  OBVIOUS
<1> USE DEF SoonInv
<1>1. CASE Start \/ Notify \/ End \/ Leave
  BY <1>1 DEF Start, Notify, End, Leave, TypeOK
<1>2. CASE ReadBinary \/ ReadAscii \/ Refill \/ Convert \/ Converted \/ ReadSocket \/ Flush
  <2>1. UNCHANGED <<transfer_cb, late>> /\ (pc \in {"read", "convert"} \/ pc' = "end")
    BY <1>2 DEF ReadBinary, ReadAscii, Refill, Convert, Converted, ReadSocket, Flush
  <2> QED
    BY <2>1
<1>3. CASE WriteSocket \/ WriteBinary \/ WriteAscii
  <2>1. /\ pc = "write" /\ pc' = "notify" /\ UNCHANGED transfer_cb
        /\ late' = IF transfer_cb = "cancelled" THEN late + 1 ELSE late
    BY <1>3 DEF WriteSocket, WriteBinary, WriteAscii, Put
  <2> QED
    BY <2>1
<1>4. CASE Throw \/ Cancel \/ Relent
  BY <1>4 DEF Throw, Cancel, Relent
<1>5. CASE UNCHANGED vars
  BY <1>5 DEF vars
<1> QED
  BY <1>1, <1>2, <1>3, <1>4, <1>5 DEF Next, Proceed

\* The loops of data_connection.cpp: from when is_cancelled() says true, and as
\* long as it does, at most the block that was under way is moved.
THEOREM CancelledInOneBlock == Spec => []CancelledSoon
<1>1. Init => SoonInv
  BY DEF Init, SoonInv
<1>2. SoonInv => CancelledSoon
  BY DEF SoonInv, CancelledSoon
<1> QED
  BY <1>1, <1>2, TypeInit, TypeNext, SoonNext, PTL DEF Spec

--------------------------------------------------------------------------------
(* The conversions, as the sums of what each character becomes.            *)

Sums(seqs) == CHOOSE f : Concatenates(f, Chars, seqs)

\* What the first k characters of s become, sent and stored.
Sent(s, k) == Sums(SentFor(s))[k]
Stored(s, k) == Sums(StoredFor(s))[k]

LEMMA SumsAre ==
  ASSUME NEW seqs \in Seq(Seq(Chars))
  PROVE  /\ Concatenates(Sums(seqs), Chars, seqs)
         /\ FlattenSeq(seqs) = Sums(seqs)[Len(seqs)]
<1>1. Concatenates(Sums(seqs), Chars, seqs)
  BY Concatenation DEF Sums
<1> QED
  BY <1>1, Flattened

LEMMA SentOf ==
  ASSUME NEW s \in Seq(Chars)
  PROVE  /\ Sent(s, 0) = <<>> /\ \A k \in 0 .. Len(s) : Sent(s, k) \in Seq(Chars)
         /\ \A k \in 1 .. Len(s) : Sent(s, k) = Sent(s, k - 1) \o SentFor(s)[k]
         /\ \A k \in 1 .. Len(s) :
               SentFor(s)[k] = IF s[k] = "CR" \/ (s[k] = "LF" /\ ~(k - 1 > 0 /\ s[k - 1] = "CR"))
                               THEN <<"CR", "LF">>
                               ELSE IF s[k] = "LF" THEN <<>> ELSE <<s[k]>>
         /\ \A k \in 1 .. Len(s) : SentFor(s)[k] \in Seq(Chars)
         /\ ToNetwork(s) = Sent(s, Len(s))
         /\ \A k \in 0 .. Len(s) : IsPrefix(Sent(s, k), ToNetwork(s))
<1>1. \A k \in 1 .. Len(s) :
         SentFor(s)[k] = IF s[k] = "CR" \/ (s[k] = "LF" /\ ~(k - 1 > 0 /\ s[k - 1] = "CR"))
                         THEN <<"CR", "LF">>
                         ELSE IF s[k] = "LF" THEN <<>> ELSE <<s[k]>>
  <2> TAKE k \in 1 .. Len(s)
  <2>1. k > 1 <=> k - 1 > 0
    OBVIOUS
  <2> QED
    BY <2>1 DEF SentFor
<1>2. \A k \in 1 .. Len(s) : SentFor(s)[k] \in Seq(Chars)
  <2>1. <<"CR", "LF">> \in Seq(Chars) /\ <<>> \in Seq(Chars) /\ \A k \in 1 .. Len(s) : <<s[k]>> \in Seq(Chars)
    BY DataType
  <2> QED
    BY <1>1, <2>1
<1>3. SentFor(s) \in Seq(Seq(Chars)) /\ Len(SentFor(s)) = Len(s)
  <2>1. DOMAIN SentFor(s) = 1 .. Len(s) /\ Len(s) \in Nat
    BY DEF SentFor
  <2>2. SentFor(s) = [k \in 1 .. Len(s) |-> SentFor(s)[k]]
    BY DEF SentFor
  <2> QED
    BY <1>2, <2>1, <2>2
<1>4. /\ Concatenates(Sums(SentFor(s)), Chars, SentFor(s))
      /\ ToNetwork(s) = Sent(s, Len(s))
  BY <1>3, SumsAre DEF ToNetwork, Sent
<1>5. /\ Sent(s, 0) = <<>> /\ \A k \in 0 .. Len(s) : Sent(s, k) \in Seq(Chars)
      /\ \A k \in 1 .. Len(s) : Sent(s, k) = Sent(s, k - 1) \o SentFor(s)[k]
  BY <1>3, <1>4 DEF Concatenates, Sent
<1>6. \A k \in 0 .. Len(s) : IsPrefix(Sent(s, k), Sent(s, Len(s)))
  <2> TAKE k \in 0 .. Len(s)
  <2>1. Len(s) \in 0 .. Len(SentFor(s)) /\ k \in 0 .. Len(s)
    BY <1>3
  <2> QED
    BY <1>3, <1>4, <2>1, PrefixOfMore DEF Sent
<1> QED
  BY <1>1, <1>2, <1>4, <1>5, <1>6

LEMMA StoredOf ==
  ASSUME NEW s \in Seq(Chars)
  PROVE  /\ Stored(s, 0) = <<>> /\ \A k \in 0 .. Len(s) : Stored(s, k) \in Seq(Chars)
         /\ \A k \in 1 .. Len(s) : Stored(s, k) = Stored(s, k - 1) \o StoredFor(s)[k]
         /\ \A k \in 1 .. Len(s) :
               StoredFor(s)[k] = IF s[k] = "CR" /\ k < Len(s) /\ s[k + 1] = "LF" THEN <<>> ELSE <<s[k]>>
         /\ FromNetwork(s) = Stored(s, Len(s))
         /\ \A k \in 0 .. Len(s) : IsPrefix(Stored(s, k), FromNetwork(s))
<1>1. \A k \in 1 .. Len(s) :
         StoredFor(s)[k] = IF s[k] = "CR" /\ k < Len(s) /\ s[k + 1] = "LF" THEN <<>> ELSE <<s[k]>>
  BY DEF StoredFor
<1>2. \A k \in 1 .. Len(s) : StoredFor(s)[k] \in Seq(Chars)
  <2>1. <<>> \in Seq(Chars) /\ \A k \in 1 .. Len(s) : <<s[k]>> \in Seq(Chars)
    OBVIOUS
  <2> QED
    BY <1>1, <2>1
<1>3. StoredFor(s) \in Seq(Seq(Chars)) /\ Len(StoredFor(s)) = Len(s)
  <2>1. DOMAIN StoredFor(s) = 1 .. Len(s) /\ Len(s) \in Nat
    BY DEF StoredFor
  <2>2. StoredFor(s) = [k \in 1 .. Len(s) |-> StoredFor(s)[k]]
    BY DEF StoredFor
  <2> QED
    BY <1>2, <2>1, <2>2
<1>4. /\ Concatenates(Sums(StoredFor(s)), Chars, StoredFor(s))
      /\ FromNetwork(s) = Stored(s, Len(s))
  BY <1>3, SumsAre DEF FromNetwork, Stored
<1>5. /\ Stored(s, 0) = <<>> /\ \A k \in 0 .. Len(s) : Stored(s, k) \in Seq(Chars)
      /\ \A k \in 1 .. Len(s) : Stored(s, k) = Stored(s, k - 1) \o StoredFor(s)[k]
  BY <1>3, <1>4 DEF Concatenates, Stored
<1>6. \A k \in 0 .. Len(s) : IsPrefix(Stored(s, k), Stored(s, Len(s)))
  <2> TAKE k \in 0 .. Len(s)
  <2>1. Len(s) \in 0 .. Len(StoredFor(s)) /\ k \in 0 .. Len(s)
    BY <1>3
  <2> QED
    BY <1>3, <1>4, <2>1, PrefixOfMore DEF Stored
<1> QED
  BY <1>1, <1>4, <1>5, <1>6

--------------------------------------------------------------------------------
(* What ascii_ostream has stored of a text.                                *)

\* The first k characters of s end with a CR.
EndsWithCR(s, k) == k > 0 /\ s[k] = "CR"

\* What can be told of the first k: a CR at their end is kept back.
Settled(s, k) == IF EndsWithCR(s, k) THEN Stored(s, k - 1) ELSE Stored(s, k)

\* The text s goes on after its first k characters with the block.
Within(block, s, k) ==
    /\ k >= 0 /\ k + Len(block) <= Len(s)
    /\ \A i \in 1 .. Len(block) : block[i] = s[k + i]

LEMMA SettledType ==
  ASSUME NEW s \in Seq(Chars), NEW k \in 0 .. Len(s)
  PROVE  Settled(s, k) \in Seq(Chars) /\ IsPrefix(Settled(s, k), FromNetwork(s))
<1>1. EndsWithCR(s, k) => k - 1 \in 0 .. Len(s)
  BY DEF EndsWithCR
<1> QED
  BY <1>1, StoredOf DEF Settled

LEMMA CharsRegrouped ==
  \A d, s \in Seq(Chars) :
      /\ \A e \in Chars : d \o Append(s, e) = (d \o s) \o <<e>>
      /\ \A t \in Seq(Chars) : d \o (s \o t) = (d \o s) \o t
<1> TAKE d, s \in Seq(Chars)
<1> QED
  BY Regrouped

LEMMA CharsAppended ==
  \A s \in Seq(Chars), e \in Chars : Append(s, e) = s \o <<e>>
BY AppendIsConcat

LEMMA CRLFAppended ==
  \A s \in Seq(Chars) : Append(s, "CR") \o <<"LF">> = s \o <<"CR", "LF">>
<1> TAKE s \in Seq(Chars)
<1> DEFINE a == Append(s, "CR") \o <<"LF">>
           b == s \o <<"CR", "LF">>
<1>1. a \in Seq(Chars) /\ Len(a) = Len(s) + 2 /\ \A i \in 1 .. Len(s) : a[i] = s[i]
  BY DataType
<1>2. b \in Seq(Chars) /\ Len(b) = Len(s) + 2 /\ \A i \in 1 .. Len(s) : b[i] = s[i]
  BY DataType
<1>3. a[Len(s) + 1] = "CR" /\ a[Len(s) + 2] = "LF"
  BY DataType
<1>4. b[Len(s) + 1] = "CR" /\ b[Len(s) + 2] = "LF" /\ Len(s) \in Nat
  BY DataType
<1> HIDE DEF a, b
<1>5. \A i \in 1 .. Len(a) : a[i] = b[i]
  <2> TAKE i \in 1 .. Len(a)
  <2>1. i \in 1 .. Len(s) \/ i = Len(s) + 1 \/ i = Len(s) + 2
    BY <1>1, <1>4
  <2> QED
    BY <1>1, <1>2, <1>3, <1>4, <2>1
<1>6. a = b
  BY <1>1, <1>2, <1>5, SeqEqual
<1> QED
  BY <1>6 DEF a, b

\* One more character: what the stream puts out is what has become settled.
LEMMA StepSettles ==
  ASSUME NEW s \in Seq(Chars), NEW k \in 1 .. Len(s), NEW st \in Output, NEW d \in Seq(Chars),
         d \o st.out = Settled(s, k - 1), st.prev_cr <=> EndsWithCR(s, k - 1)
  PROVE  /\ d \o Step(st, s[k]).out = Settled(s, k)
         /\ Step(st, s[k]).prev_cr <=> EndsWithCR(s, k)
<1> DEFINE ch == s[k]
           o == st.out
           p == st.prev_cr
           w == d \o o
           one == <<ch>>
           out == Step(st, ch).out
           prev == Step(st, ch).prev_cr
<1>1. ch \in Chars /\ o \in Seq(Chars) /\ p \in BOOLEAN /\ one \in Seq(Chars)
  BY DEF Output
<1>2. k - 1 \in 0 .. Len(s) /\ k > 0
  OBVIOUS
<1>3. Stored(s, k) = Stored(s, k - 1) \o StoredFor(s)[k]
  BY StoredOf
<1>4. EndsWithCR(s, k) <=> ch = "CR"
  BY <1>2 DEF EndsWithCR
<1>5. ASSUME p
      PROVE  Stored(s, k - 1) = w \o (IF ch = "LF" THEN <<>> ELSE <<"CR">>)
  <2>1. /\ k - 1 \in 1 .. Len(s) /\ s[k - 1] = "CR" /\ k - 1 < Len(s) /\ (k - 1) + 1 = k
        /\ EndsWithCR(s, k - 1)
    BY <1>2, <1>5 DEF EndsWithCR
  <2> DEFINE j == k - 1
  <2>2. j \in 1 .. Len(s) /\ s[j] = "CR" /\ j < Len(s) /\ j + 1 = k /\ w = Settled(s, j)
    BY <2>1
  <2> HIDE DEF j, w
  <2>3. Stored(s, j) = Stored(s, j - 1) \o StoredFor(s)[j]
    BY <2>2, StoredOf
  <2>4. StoredFor(s)[j] = IF ch = "LF" THEN <<>> ELSE <<"CR">>
    <3>1. StoredFor(s)[j] = IF s[j] = "CR" /\ j < Len(s) /\ s[j + 1] = "LF" THEN <<>> ELSE <<s[j]>>
      BY <2>2, StoredOf
    <3> QED
      BY <2>2, <3>1
  <2>5. w = Stored(s, j - 1)
    BY <2>1, <2>2 DEF Settled, j
  <2> QED
    BY <2>3, <2>4, <2>5 DEF j
<1>6. ASSUME ~p PROVE Stored(s, k - 1) = w
  BY <1>6 DEF Settled
<1>7. StoredFor(s)[k] = IF ch = "CR" /\ k < Len(s) /\ s[k + 1] = "LF" THEN <<>> ELSE one
  BY StoredOf
<1>8. w \in Seq(Chars) /\ w \o <<>> = w
  <2> HIDE DEF o
  <2> QED
    BY <1>1, Regrouped
<1>9. /\ d \o Append(o, "CR") = w \o <<"CR">> /\ d \o Append(o, "LF") = w \o <<"LF">>
      /\ d \o (o \o one) = w \o one
  <2> HIDE DEF o, one
  <2>1. /\ \A e \in Chars : d \o Append(o, e) = w \o <<e>>
        /\ \A t \in Seq(Chars) : d \o (o \o t) = w \o t
    BY <1>1, CharsRegrouped
  <2> QED
    BY <1>1, <2>1, DataType
<1>10. d \o (Append(o, "CR") \o one) = (w \o <<"CR">>) \o one
  <2> DEFINE ocr == Append(o, "CR")
  <2>1. ocr \in Seq(Chars) /\ d \o ocr = w \o <<"CR">>
    BY <1>1, <1>9, DataType
  <2> HIDE DEF ocr, o, one, w
  <2>2. \A t \in Seq(Chars) : d \o (ocr \o t) = (d \o ocr) \o t
    BY <2>1, CharsRegrouped
  <2>3. d \o (ocr \o one) = (w \o <<"CR">>) \o one
    BY <1>1, <2>1, <2>2
  <2> QED
    BY <2>3 DEF ocr
<1>11. CASE ch = "CR"
  <2>1. Step(st, ch) = [out |-> IF p THEN Append(o, "CR") ELSE o, prev_cr |-> TRUE]
    BY <1>11 DEF Step
  <2>2. out = (IF p THEN Append(o, "CR") ELSE o) /\ prev
    BY <2>1
  <2>3. Settled(s, k) = Stored(s, k - 1)
    BY <1>4, <1>11 DEF Settled
  <2> HIDE DEF ch, o, p, w, out, prev, one
  <2>4. d \o out = Stored(s, k - 1)
    <3>1. CASE p
      <4>1. Stored(s, k - 1) = w \o <<"CR">>
        BY <1>5, <1>11, <3>1
      <4> QED
        BY <1>9, <2>2, <3>1, <4>1
    <3>2. CASE ~p
      BY <1>6, <2>2, <3>2 DEF w
    <3> QED
      BY <3>1, <3>2
  <2>5. d \o out = Settled(s, k) /\ (prev <=> EndsWithCR(s, k))
    BY <1>4, <1>11, <2>2, <2>3, <2>4
  <2> QED
    BY <2>5 DEF out, prev, ch
<1>12. CASE ch = "LF"
  <2>1. Step(st, ch) = [out |-> Append(o, "LF"), prev_cr |-> FALSE]
    BY <1>12 DEF Step
  <2>2. out = Append(o, "LF") /\ ~prev
    BY <2>1
  <2>3. Settled(s, k) = Stored(s, k - 1) \o <<"LF">>
    BY <1>3, <1>4, <1>7, <1>12 DEF Settled
  <2> HIDE DEF ch, o, p, w, out, prev, one
  <2>4. Stored(s, k - 1) = w
    BY <1>5, <1>6, <1>8, <1>12
  <2>5. d \o out = Settled(s, k) /\ (prev <=> EndsWithCR(s, k))
    BY <1>4, <1>9, <1>12, <2>2, <2>3, <2>4
  <2> QED
    BY <2>5 DEF out, prev, ch
<1>13. CASE ch \notin {"CR", "LF"}
  <2>1. Step(st, ch) = [out |-> (IF p THEN Append(o, "CR") ELSE o) \o one, prev_cr |-> FALSE]
    BY <1>13 DEF Step
  <2>2. out = (IF p THEN Append(o, "CR") ELSE o) \o one /\ ~prev
    BY <2>1
  <2>3. Settled(s, k) = Stored(s, k - 1) \o one
    BY <1>3, <1>4, <1>7, <1>13 DEF Settled
  <2> HIDE DEF ch, o, p, w, out, prev, one
  <2>4. d \o out = Stored(s, k - 1) \o one
    <3>1. CASE p
      <4>1. Stored(s, k - 1) = w \o <<"CR">>
        BY <1>5, <1>13, <3>1
      <4> QED
        BY <1>10, <2>2, <3>1, <4>1
    <3>2. CASE ~p
      BY <1>6, <1>9, <2>2, <3>2
    <3> QED
      BY <3>1, <3>2
  <2>5. d \o out = Settled(s, k) /\ (prev <=> EndsWithCR(s, k))
    BY <1>4, <1>13, <2>2, <2>3, <2>4
  <2> QED
    BY <2>5 DEF out, prev, ch
<1> QED
  BY <1>11, <1>12, <1>13

\* A block: whatever it begins and ends with.
LEMMA WriteSettles ==
  \A s, block \in Seq(Chars) : \A k \in 0 .. Len(s) : \A prev_cr \in BOOLEAN : \A d :
      Within(block, s, k) /\ (prev_cr <=> EndsWithCR(s, k)) /\ d = Settled(s, k) =>
          /\ d \o Written(block, prev_cr).out = Settled(s, k + Len(block))
          /\ Written(block, prev_cr).prev_cr <=> EndsWithCR(s, k + Len(block))
<1> SUFFICES ASSUME NEW s \in Seq(Chars), NEW block \in Seq(Chars), NEW k \in 0 .. Len(s),
                    NEW prev_cr \in BOOLEAN, NEW d,
                    Within(block, s, k), prev_cr <=> EndsWithCR(s, k), d = Settled(s, k)
             PROVE  /\ d \o Written(block, prev_cr).out = Settled(s, k + Len(block))
                    /\ Written(block, prev_cr).prev_cr <=> EndsWithCR(s, k + Len(block))
  OBVIOUS
<1>0. d \in Seq(Chars)
  BY SettledType
<1>1. PICK st : Writes(st, block, prev_cr) /\ Written(block, prev_cr) = st[Len(block)]
  BY WriteLoop
<1> DEFINE Right(i) == /\ d \o st[i].out = Settled(s, k + i)
                       /\ st[i].prev_cr <=> EndsWithCR(s, k + i)
           T == {i \in Nat : i <= Len(block) => Right(i)}
<1>2. 0 \in T
  <2>1. st[0].out = <<>> /\ (st[0].prev_cr <=> prev_cr)
    BY <1>1 DEF Writes
  <2>2. d \o <<>> = d /\ k + 0 = k
    BY <1>0
  <2> QED
    BY <2>1, <2>2
<1>3. \A i \in T : i + 1 \in T
  <2> TAKE i \in T
  <2> SUFFICES ASSUME i + 1 <= Len(block) PROVE Right(i + 1)
    <3> HIDE DEF Right
    <3>1. i \in Nat
      OBVIOUS
    <3> QED
      BY <3>1
  <2>1. i \in Nat /\ i \in 0 .. Len(block) /\ i + 1 \in 1 .. Len(block) /\ (i + 1) - 1 = i
    OBVIOUS
  <2>2. Right(i)
    BY <2>1
  <2>3. st[i] \in Output /\ st[i + 1] = Step(st[i], block[i + 1])
    <3>1. st \in [0 .. Len(block) -> Output]
      BY <1>1 DEF Writes
    <3>2. st[i + 1] = Step(st[(i + 1) - 1], block[i + 1])
      BY <1>1, <2>1, Zenon DEF Writes
    <3> QED
      BY <2>1, <3>1, <3>2
  <2> DEFINE j == k + (i + 1)
  <2>4. block[i + 1] = s[j] /\ j \in 1 .. Len(s) /\ j - 1 = k + i
    BY <2>1 DEF Within
  <2> HIDE DEF j
  <2>5. /\ d \o Step(st[i], s[j]).out = Settled(s, j)
        /\ Step(st[i], s[j]).prev_cr <=> EndsWithCR(s, j)
    BY <1>0, <2>2, <2>3, <2>4, StepSettles
  <2> QED
    BY <2>3, <2>4, <2>5 DEF j
<1>4. T = Nat
  <2>1. T \subseteq Nat
    OBVIOUS
  <2> HIDE DEF T
  <2> QED
    BY <1>2, <1>3, <2>1, Induction
<1>5. Len(block) \in T
  <2> HIDE DEF T
  <2> QED
    BY <1>4
<1> QED
  BY <1>1, <1>5

--------------------------------------------------------------------------------
(* What there is to transfer is what is left of the text: its end.         *)

LEMMA Divided ==
  ASSUME NEW s \in Seq(Chars), NEW t \in Seq(Chars), NEW k \in Nat, Within(t, s, k), NEW n \in 1 .. Len(t)
  PROVE  Within(SubSeq(t, 1, n), s, k) /\ Within(SubSeq(t, n + 1, Len(t)), s, k + n)
<1> DEFINE a == SubSeq(t, 1, n)
           b == SubSeq(t, n + 1, Len(t))
<1>1. /\ Len(a) = n /\ \A i \in 1 .. n : a[i] = t[i]
      /\ Len(b) = Len(t) - n /\ \A i \in 1 .. Len(t) - n : b[i] = t[n + i]
  BY Taken
<1>2. k + Len(t) <= Len(s) /\ \A i \in 1 .. Len(t) : t[i] = s[k + i]
  BY DEF Within
<1>3. n \in Nat /\ n <= Len(t) /\ Len(t) \in Nat /\ Len(s) \in Nat
  OBVIOUS
<1> HIDE DEF a, b
<1>4. Within(a, s, k)
  BY <1>1, <1>2, <1>3 DEF Within
<1>5. \A i \in 1 .. Len(b) : b[i] = s[(k + n) + i]
  <2> TAKE i \in 1 .. Len(b)
  <2>1. n + i \in 1 .. Len(t) /\ i \in 1 .. Len(t) - n /\ k + (n + i) = (k + n) + i
    BY <1>1, <1>3
  <2> QED
    BY <1>1, <1>2, <2>1
<1>6. Within(b, s, k + n)
  BY <1>1, <1>2, <1>3, <1>5 DEF Within
<1> QED
  BY <1>4, <1>6 DEF a, b

SourceInv == Within(src, whole, Len(whole) - Len(src))

LEMMA SourceNext ==
  ASSUME TypeOK, SourceInv, [Next]_vars
  PROVE  SourceInv' /\ UNCHANGED <<call, transfer_type_, whole>>
<1>1. /\ UNCHANGED <<call, transfer_type_, whole>>
      /\ UNCHANGED src \/ \E n \in 1 .. Len(src) : src' = SubSeq(src, n + 1, Len(src))
  <2>1. CASE ReadBinary \/ ReadSocket \/ Refill
    BY <2>1 DEF ReadBinary, ReadSocket, Refill, Take
  <2>2. CASE Start \/ Notify \/ End \/ Leave \/ Throw \/ Cancel \/ Relent \/ UNCHANGED vars
    BY <2>2 DEF Start, Notify, End, Leave, Throw, Cancel, Relent, vars
  <2>3. CASE ReadAscii \/ Convert \/ Converted \/ WriteSocket \/ WriteBinary \/ WriteAscii \/ Flush
    BY <2>3 DEF ReadAscii, Convert, Converted, WriteSocket, WriteBinary, WriteAscii, Flush
  <2> QED
    BY <2>1, <2>2, <2>3 DEF Next, Proceed
<1>2. src \in Seq(Chars) /\ whole \in Seq(Chars) /\ Len(src) \in Nat /\ Len(whole) \in Nat
  BY DataType DEF TypeOK
<1>3. CASE UNCHANGED src
  BY <1>1, <1>3 DEF SourceInv, Within
<1>4. ASSUME NEW n \in 1 .. Len(src), src' = SubSeq(src, n + 1, Len(src))
      PROVE  SourceInv'
  <2> DEFINE k == Len(whole) - Len(src)
  <2>1. k \in Nat /\ Within(src, whole, k)
    BY <1>2 DEF SourceInv, Within
  <2>2. Len(src') = Len(src) - n
    BY <1>2, <1>4, Taken
  <2>3. Len(whole) - Len(src') = k + n
    BY <1>2, <2>2
  <2> HIDE DEF k
  <2>4. Within(src', whole, k + n)
    BY <1>2, <1>4, <2>1, Divided
  <2> QED
    BY <1>1, <2>3, <2>4 DEF SourceInv
<1> QED
  BY <1>1, <1>3, <1>4

--------------------------------------------------------------------------------
(* The first conjunct of DataArrives, also when the transfer was thrown    *)
(* away.                                                                   *)

Arrives ==
    \/ IsPrefix(dst, Expected)
    \/ call = "recv" /\ cut /\ Last(dst) = "CR" /\ IsPrefix(Front(dst), Expected)

--------------------------------------------------------------------------------
(* The binary streams.                                                     *)

\* The block that is to be written.
Block == IF pc = "write" THEN buf ELSE <<>>

BinaryInv ==
    /\ ~prev_cr_ /\ pc # "convert"
    /\ Len(dst) + Len(Block) + Len(src) = Len(whole)
    /\ Within(dst, whole, 0) /\ Within(Block, whole, Len(dst))
    /\ pc \in {"flush"} \cup {"end"} \cup Over /\ ~cut => src = <<>>

LEMMA BinaryNext ==
  ASSUME TypeOK, TypeOK', SourceInv, BinaryInv, [Next]_vars,
         transfer_type_ = "binary", pc # "thrown", pc' # "thrown"
  PROVE  BinaryInv'
<1> USE DEF Over
<1>0. /\ whole \in Seq(Chars) /\ Len(whole) \in Nat /\ Len(src) \in Nat /\ Len(dst) \in Nat
      /\ Len(buf) \in Nat /\ dst \in Seq(Chars) /\ buf \in Seq(Chars) /\ src \in Seq(Chars)
  BY DataType DEF TypeOK
<1>1. ASSUME UNCHANGED <<whole, src, dst, buf, prev_cr_>>, pc # "write", pc' \notin {"write", "convert"},
             pc' \in {"flush"} \cup {"end"} \cup Over /\ ~cut' =>
                 pc \in {"flush"} \cup {"end"} \cup Over /\ ~cut
      PROVE  BinaryInv'
  BY <1>0, <1>1 DEF BinaryInv, Block, Within
<1>2. CASE Start \/ Notify \/ End \/ Leave
  <2>1. /\ UNCHANGED <<whole, src, dst, buf, prev_cr_>> /\ pc # "write" /\ pc' \notin {"write", "convert"}
        /\ pc' \in {"flush"} \cup {"end"} \cup Over /\ ~cut' =>
                 pc \in {"flush"} \cup {"end"} \cup Over /\ ~cut
    BY <1>2 DEF Start, Notify, End, Leave, stream, TypeOK
  <2> QED
    BY <1>1, <2>1
<1>3. CASE ReadBinary \/ ReadSocket
  <2>1. /\ pc = "read" /\ UNCHANGED <<whole, dst, prev_cr_, cut>>
        /\ \/ src = <<>> /\ pc' \in {"end", "flush"} /\ UNCHANGED <<src, buf>>
           \/ \E n \in 1 .. Len(src) : pc' = "write" /\ Take(n)
    BY <1>3 DEF ReadBinary, ReadSocket, stream
  <2>2. CASE src = <<>> /\ pc' \in {"end", "flush"} /\ UNCHANGED <<src, buf>>
    BY <1>0, <2>1, <2>2 DEF BinaryInv, Block, Within
  <2>3. ASSUME NEW n \in 1 .. Len(src), pc' = "write", Take(n)
        PROVE  BinaryInv'
    <3>1. Len(dst) + Len(src) = Len(whole) /\ Len(whole) - Len(src) = Len(dst)
      BY <1>0, <2>1 DEF BinaryInv, Block
    <3>2. Within(src, whole, Len(dst))
      BY <3>1 DEF SourceInv
    <3>3. buf' = SubSeq(src, 1, n) /\ Within(SubSeq(src, 1, n), whole, Len(dst))
      BY <1>0, <2>3, <3>2, Divided DEF Take
    <3>4. Len(buf') = n /\ Len(src') = Len(src) - n
      BY <2>3, BlockTaken
    <3>5. Block' = buf'
      BY <2>3 DEF Block
    <3>6. Len(dst') + Len(Block') + Len(src') = Len(whole')
      <4>1. Len(dst') = Len(dst) /\ Len(Block') = n /\ Len(whole') = Len(whole) /\ n \in Nat
        BY <2>1, <3>4, <3>5
      <4>2. Len(dst) + n + (Len(src) - n) = Len(dst) + Len(src)
        BY <1>0, <4>1
      <4> QED
        BY <3>1, <3>4, <4>1, <4>2
    <3>7. Within(Block', whole', Len(dst'))
      BY <2>1, <3>3, <3>5
    <3> QED
      BY <2>1, <2>3, <3>6, <3>7 DEF BinaryInv, Within
  <2> QED
    BY <2>1, <2>2, <2>3
<1>4. CASE WriteSocket \/ WriteBinary
  <2>1. /\ pc = "write" /\ pc' = "notify" /\ UNCHANGED <<whole, src, prev_cr_>> /\ dst' = dst \o buf
    BY <1>4 DEF WriteSocket, WriteBinary, Put, stream
  <2>2. /\ Len(dst) + Len(buf) + Len(src) = Len(whole) /\ Within(dst, whole, 0)
        /\ Within(buf, whole, Len(dst))
    BY <2>1 DEF BinaryInv, Block
  <2>3. /\ Len(dst') = Len(dst) + Len(buf)
        /\ \A i \in 1 .. Len(dst) + Len(buf) : dst'[i] = IF i <= Len(dst) THEN dst[i] ELSE buf[i - Len(dst)]
    BY <1>0, <2>1
  <2>4. \A i \in 1 .. Len(dst') : dst'[i] = whole[0 + i]
    <3> TAKE i \in 1 .. Len(dst')
    <3>1. CASE i <= Len(dst)
      BY <1>0, <2>2, <2>3, <3>1 DEF Within
    <3>2. CASE ~(i <= Len(dst))
      <4>1. i - Len(dst) \in 1 .. Len(buf) /\ Len(dst) + (i - Len(dst)) = 0 + i
        BY <1>0, <2>3, <3>2
      <4> QED
        BY <2>2, <2>3, <3>2, <4>1 DEF Within
    <3> QED
      BY <3>1, <3>2
  <2>5. Len(dst') + Len(src) = Len(whole)
    BY <1>0, <2>2, <2>3
  <2>6. Within(dst', whole', 0) /\ Within(<<>>, whole', Len(dst'))
    BY <1>0, <2>1, <2>3, <2>4, <2>5 DEF Within
  <2>7. Block' = <<>> /\ Len(<<>>) = 0
    BY <2>1 DEF Block
  <2>8. Len(dst') + Len(Block') + Len(src') = Len(whole')
    BY <1>0, <2>1, <2>3, <2>5, <2>7
  <2> QED
    BY <2>1, <2>6, <2>7, <2>8 DEF BinaryInv
<1>5. CASE Flush
  <2>1. /\ pc = "flush" /\ pc' = "end" /\ UNCHANGED <<whole, src, buf, cut>>
        /\ dst' = dst /\ ~prev_cr_'
    BY <1>5 DEF Flush, BinaryInv
  <2>2. UNCHANGED prev_cr_
    BY <2>1 DEF BinaryInv, TypeOK
  <2> QED
    BY <1>1, <2>1, <2>2
<1>6. CASE ReadAscii \/ WriteAscii \/ Refill \/ Convert \/ Converted \/ Throw
  BY <1>6 DEF ReadAscii, WriteAscii, Refill, Convert, Converted, Throw, BinaryInv
<1>7. CASE Cancel \/ Relent \/ UNCHANGED vars
  <2>1. UNCHANGED <<pc, whole, src, dst, buf, prev_cr_, cut>>
    BY <1>7 DEF Cancel, Relent, vars, stream
  <2> QED
    BY <2>1 DEF BinaryInv, Block, Within
<1> QED
  BY <1>2, <1>3, <1>4, <1>5, <1>6, <1>7 DEF Next, Proceed

LEMMA BinaryArrives ==
  ASSUME TypeOK, BinaryInv, transfer_type_ = "binary"
  PROVE  /\ Arrives /\ Len(dst) <= Len(Expected)
         /\ pc \in {"end"} \cup Over /\ ~cut => dst = Expected
<1>0. /\ whole \in Seq(Chars) /\ Len(whole) \in Nat /\ Len(src) \in Nat /\ Len(dst) \in Nat
      /\ dst \in Seq(Chars) /\ src \in Seq(Chars)
  BY DataType DEF TypeOK
<1>1. Expected = whole
  BY DEF Expected
<1>2. Len(dst) <= Len(whole) /\ \A i \in 1 .. Len(dst) : dst[i] = whole[i]
  BY <1>0 DEF BinaryInv, Within
<1>3. IsPrefix(dst, whole)
  BY <1>0, <1>2, PrefixPointwise
<1>4. ASSUME pc \in {"end"} \cup Over, ~cut PROVE dst = whole
  <2>1. src = <<>> /\ Len(Block) = 0
    BY <1>4 DEF BinaryInv, Block, Over
  <2>2. Len(dst) = Len(whole)
    BY <1>0, <2>1 DEF BinaryInv
  <2> QED
    BY <1>0, <1>2, <2>2, SeqEqual
<1> QED
  BY <1>1, <1>2, <1>3, <1>4 DEF Arrives

--------------------------------------------------------------------------------
(* The upload of a text: ascii_istream.                                    *)

\* The characters of the text that ascii_istream has converted, what it has
\* made of them and not yet given out, and the LF it still owes.
Pos == Len(whole) - Len(src) - Len(internal_)
Held == IF pc \in {"convert", "write"} THEN buf ELSE <<>>
Due == IF need_linefeed_ THEN <<"LF">> ELSE <<>>

UploadInv ==
    /\ Within(internal_, whole, Pos)
    /\ skip_linefeed_ <=> EndsWithCR(whole, Pos)
    /\ Sent(whole, Pos) = (dst \o Held) \o Due
    /\ pc = "convert" /\ need_linefeed_ => Len(buf) = BlockSize
    /\ pc \in {"end"} \cup Over /\ ~cut => Pos = Len(whole) /\ ~need_linefeed_

\* One more character is converted, into the block and what is owed after it.
LEMMA ConvertAppends ==
  ASSUME TypeOK, Convert, NEW k \in 1 .. Len(whole), Head(internal_) = whole[k],
         skip_linefeed_ <=> EndsWithCR(whole, k - 1), ~need_linefeed_
  PROVE  /\ buf \in Seq(Chars) /\ buf' \in Seq(Chars)
         /\ buf' \o Due' = buf \o SentFor(whole)[k]
         /\ need_linefeed_' => Len(buf') = BlockSize
<1> DEFINE ch == whole[k]
           crlf == <<"CR", "LF">>
<1>0. buf \in Seq(Chars) /\ whole \in Seq(Chars) /\ Len(buf) \in Nat /\ Len(buf) < BlockSize /\ ch \in Chars
  BY DataType DEF TypeOK, Convert
<1>1. SentFor(whole)[k] = IF ch = "CR" \/ (ch = "LF" /\ ~skip_linefeed_) THEN crlf
                          ELSE IF ch = "LF" THEN <<>> ELSE <<ch>>
  BY <1>0, SentOf DEF EndsWithCR
<1>2. /\ crlf \in Seq(Chars) /\ buf \o crlf \in Seq(Chars) /\ (buf \o crlf) \o <<>> = buf \o crlf
      /\ Append(buf, "CR") \in Seq(Chars) /\ Append(buf, "CR") \o <<"LF">> = buf \o crlf
      /\ Len(Append(buf, "CR")) = Len(buf) + 1
      /\ buf \o <<>> = buf /\ Append(buf, ch) \in Seq(Chars) /\ Append(buf, ch) \o <<>> = buf \o <<ch>>
  <2> HIDE DEF ch
  <2>1. /\ crlf \in Seq(Chars) /\ buf \o crlf \in Seq(Chars)
        /\ Append(buf, "CR") \in Seq(Chars) /\ Len(Append(buf, "CR")) = Len(buf) + 1
        /\ Append(buf, ch) \in Seq(Chars)
    BY <1>0, DataType
  <2>2. Append(buf, ch) = buf \o <<ch>>
    BY <1>0, CharsAppended
  <2>3. Append(buf, "CR") \o <<"LF">> = buf \o crlf
    BY <1>0, CRLFAppended
  <2>4. \A t \in Seq(Chars) : t \o <<>> = t
    OBVIOUS
  <2> QED
    BY <1>0, <2>1, <2>2, <2>3, <2>4
<1>3. ASSUME append_crlf
      PROVE  buf' \in Seq(Chars) /\ buf' \o Due' = buf \o crlf /\ (need_linefeed_' => Len(buf') = BlockSize)
  <2>1. CASE Len(buf) + 1 < BlockSize
    <3>1. buf' = buf \o crlf /\ ~need_linefeed_'
      BY <1>3, <2>1 DEF append_crlf
    <3>2. Due' = <<>>
      BY <3>1 DEF Due
    <3> QED
      BY <1>2, <3>1, <3>2
  <2>2. CASE ~(Len(buf) + 1 < BlockSize)
    <3>1. buf' = Append(buf, "CR") /\ need_linefeed_'
      BY <1>3, <2>2 DEF append_crlf
    <3>2. Due' = <<"LF">>
      BY <3>1 DEF Due
    <3>3. Len(buf) + 1 = BlockSize
      BY <1>0, <2>2, DataType
    <3> QED
      BY <1>2, <3>1, <3>2, <3>3
  <2> QED
    BY <2>1, <2>2
<1>4. ASSUME ~need_linefeed_' PROVE Due' = <<>>
  BY <1>4 DEF Due
<1> HIDE DEF ch, crlf
<1>5. \/ ch = "CR" /\ append_crlf
      \/ ch = "LF" /\ ~skip_linefeed_ /\ append_crlf
      \/ ch = "LF" /\ skip_linefeed_ /\ buf' = buf /\ ~need_linefeed_'
      \/ ch \notin {"CR", "LF"} /\ buf' = Append(buf, ch) /\ ~need_linefeed_'
  BY DEF Convert, ch
<1> QED
  BY <1>0, <1>1, <1>2, <1>3, <1>4, <1>5

\* What concerns the conversion alone.
uploading == <<whole, src, internal_, skip_linefeed_, need_linefeed_>>

Unconverted ==
    /\ whole' = whole /\ Pos' = Pos /\ Due' = Due /\ internal_' = internal_
    /\ skip_linefeed_' <=> skip_linefeed_
    /\ need_linefeed_' <=> need_linefeed_

LEMMA Converting == UNCHANGED uploading => Unconverted
<1> SUFFICES ASSUME UNCHANGED uploading PROVE Unconverted
  OBVIOUS
<1>1. /\ whole' = whole /\ src' = src /\ internal_' = internal_
      /\ skip_linefeed_' = skip_linefeed_ /\ need_linefeed_' = need_linefeed_
  BY DEF uploading
<1>2. Pos' = Pos
  BY <1>1 DEF Pos
<1>3. Due' = Due
  BY <1>1 DEF Due
<1> QED
  BY <1>1, <1>2, <1>3, Zenon DEF Unconverted

LEMMA UploadNext ==
  ASSUME TypeOK, TypeOK', SourceInv, CallsInv, UploadInv, [Next]_vars,
         transfer_type_ = "ascii", call = "send", pc # "thrown", pc' # "thrown"
  PROVE  UploadInv'
<1> USE DEF Over
<1>0. /\ whole \in Seq(Chars) /\ Len(whole) \in Nat /\ Len(src) \in Nat /\ Len(internal_) \in Nat
      /\ src \in Seq(Chars) /\ internal_ \in Seq(Chars) /\ Len(buf) \in Nat
      /\ dst \in Seq(Chars) /\ buf \in Seq(Chars)
  BY DataType DEF TypeOK
<1>1. ASSUME UNCHANGED uploading, dst' \o Held' = dst \o Held,
             ~(pc' = "convert" /\ need_linefeed_),
             pc' \in {"end"} \cup Over /\ ~cut' => Pos = Len(whole) /\ ~need_linefeed_
      PROVE  UploadInv'
  <2>1. Unconverted
    BY <1>1, Converting
  <2>2. Sent(whole', Pos') = (dst' \o Held') \o Due'
    BY <1>1, <2>1 DEF UploadInv, Unconverted
  <2>3. Within(internal_', whole', Pos') /\ (skip_linefeed_' <=> EndsWithCR(whole', Pos'))
    BY <2>1 DEF UploadInv, Unconverted
  <2>4. /\ ~(pc' = "convert" /\ need_linefeed_')
        /\ pc' \in {"end"} \cup Over /\ ~cut' => Pos' = Len(whole') /\ ~need_linefeed_'
    BY <1>1, <2>1 DEF Unconverted
  <2> QED
    BY <2>2, <2>3, <2>4 DEF UploadInv
<1>2. CASE Start \/ Notify \/ End \/ Leave
  <2>1. /\ UNCHANGED uploading /\ UNCHANGED dst /\ pc \notin {"convert", "write"}
        /\ pc' \notin {"convert", "write"}
        /\ pc' \in {"end"} \cup Over /\ ~cut' => pc \in {"end"} \cup Over /\ ~cut
    BY <1>2 DEF Start, Notify, End, Leave, stream, uploading, TypeOK
  <2>2. Held' = <<>> /\ Held = <<>>
    BY <2>1 DEF Held
  <2> QED
    BY <1>1, <2>1, <2>2 DEF UploadInv
<1>3. CASE ReadAscii
  <2>1. /\ pc = "read" /\ pc' = "convert" /\ UNCHANGED <<whole, src, internal_, skip_linefeed_, dst>>
        /\ buf' = Due /\ ~need_linefeed_'
    BY <1>3 DEF ReadAscii, Due
  <2>2. Held = <<>> /\ Held' = buf' /\ Due' = <<>> /\ Pos' = Pos
    BY <2>1 DEF Held, Due, Pos
  <2>3. (dst \o <<>>) \o Due = (dst \o Due) \o <<>>
    <3>1. Due \in Seq(Chars)
      BY DataType DEF Due
    <3> QED
      BY <1>0, <3>1
  <2>4. Sent(whole', Pos') = (dst' \o Held') \o Due'
    BY <2>1, <2>2, <2>3 DEF UploadInv
  <2>5. skip_linefeed_' <=> skip_linefeed_
    BY <2>1
  <2> QED
    BY <2>1, <2>2, <2>4, <2>5 DEF UploadInv
<1>4. CASE Refill
  <2>1. /\ pc = "convert" /\ internal_ = <<>> /\ pc' = "convert" /\ Len(buf) < BlockSize
        /\ UNCHANGED <<whole, dst, buf, need_linefeed_, skip_linefeed_>>
    BY <1>4 DEF Refill
  <2>2. PICK n \in 1 .. Len(src) : internal_' = SubSeq(src, 1, n) /\ src' = SubSeq(src, n + 1, Len(src))
    BY <1>4 DEF Refill
  <2> DEFINE k == Len(whole) - Len(src)
  <2>3. k \in Nat /\ Within(src, whole, k)
    BY <1>0 DEF SourceInv, Within
  <2>4. Len(internal_') = n /\ Len(src') = Len(src) - n /\ n \in Nat
    BY <1>0, <2>2, Taken
  <2>5. Pos = k
    BY <1>0, <2>1 DEF Pos
  <2>6. Pos' = k
    BY <1>0, <2>1, <2>4 DEF Pos
  <2> HIDE DEF k
  <2>7. Within(internal_', whole, k)
    BY <1>0, <2>2, <2>3, Divided
  <2>8. Held' = Held /\ Due' = Due
    BY <2>1 DEF Held, Due
  <2>9. skip_linefeed_' <=> skip_linefeed_
    BY <2>1
  <2> QED
    BY <2>1, <2>5, <2>6, <2>7, <2>8, <2>9 DEF UploadInv
<1>5. CASE Convert
  <2>1. /\ pc = "convert" /\ pc' = "convert" /\ internal_ # <<>> /\ internal_' = Tail(internal_)
        /\ UNCHANGED <<whole, src, dst>> /\ (skip_linefeed_' <=> Head(internal_) = "CR")
        /\ Len(buf) < BlockSize
    BY <1>5 DEF Convert
  <2>2. ~need_linefeed_
    BY <1>0, <2>1, DataType DEF UploadInv
  <2>3. /\ Len(internal_') = Len(internal_) - 1 /\ Head(internal_) = internal_[1]
        /\ \A i \in 1 .. Len(internal_) - 1 : internal_'[i] = internal_[i + 1]
    BY <1>0, <2>1, HeadTailProperties
  <2>4. Len(internal_) \in Nat /\ Len(internal_) >= 1 /\ Pos \in Nat /\ Pos + Len(internal_) <= Len(whole)
    BY <1>0, <2>1 DEF UploadInv, Within, Pos
  <2> DEFINE k == Pos + 1
  <2>5. k \in 1 .. Len(whole) /\ k - 1 = Pos /\ Pos' = k
    <3>1. Pos' = Pos + 1
      BY <1>0, <2>1, <2>3 DEF Pos
    <3> QED
      BY <1>0, <2>4, <3>1
  <2>6. Head(internal_) = whole[k]
    BY <2>3, <2>4 DEF UploadInv, Within
  <2>7. Within(internal_', whole, k)
    <3>1. \A i \in 1 .. Len(internal_') : internal_'[i] = whole[k + i]
      <4> TAKE i \in 1 .. Len(internal_')
      <4>1. i \in 1 .. Len(internal_) - 1 /\ i + 1 \in 1 .. Len(internal_) /\ Pos + (i + 1) = k + i
        BY <2>3, <2>4
      <4> QED
        BY <2>3, <4>1 DEF UploadInv, Within
    <3> QED
      BY <2>3, <2>4, <3>1 DEF Within
  <2> HIDE DEF k
  <2>8. EndsWithCR(whole, k) <=> whole[k] = "CR"
    BY <2>5 DEF EndsWithCR
  <2>9. skip_linefeed_ <=> EndsWithCR(whole, k - 1)
    BY <2>5 DEF UploadInv
  <2>10. /\ buf' \in Seq(Chars) /\ buf' \o Due' = buf \o SentFor(whole)[k]
         /\ need_linefeed_' => Len(buf') = BlockSize
    BY <1>5, <2>2, <2>5, <2>6, <2>9, ConvertAppends
  <2>11. Sent(whole, k) = Sent(whole, k - 1) \o SentFor(whole)[k] /\ SentFor(whole)[k] \in Seq(Chars)
    BY <1>0, <2>5, SentOf
  <2>12. Held = buf /\ Held' = buf' /\ Due = <<>> /\ Due' \in Seq(Chars)
    BY <2>1, <2>2, DataType DEF Held, Due
  <2>13. Sent(whole, k - 1) = dst \o buf
    BY <1>0, <2>5, <2>12 DEF UploadInv
  <2>14. (dst \o buf) \o SentFor(whole)[k] = (dst \o buf') \o Due'
    <3>1. \A t \in Seq(Chars) : dst \o (buf \o t) = (dst \o buf) \o t
      BY <1>0, CharsRegrouped
    <3>2. \A t \in Seq(Chars) : dst \o (buf' \o t) = (dst \o buf') \o t
      BY <1>0, <2>10, CharsRegrouped
    <3> QED
      BY <2>10, <2>11, <2>12, <3>1, <3>2
  <2>15. Sent(whole', Pos') = (dst' \o Held') \o Due'
    BY <2>1, <2>5, <2>11, <2>12, <2>13, <2>14
  <2> QED
    BY <2>1, <2>5, <2>6, <2>7, <2>8, <2>10, <2>15 DEF UploadInv
<1>6. CASE Converted
  <2>1. /\ pc = "convert" /\ UNCHANGED uploading /\ UNCHANGED <<dst, buf>>
        /\ Len(buf) = BlockSize \/ (internal_ = <<>> /\ src = <<>>)
        /\ pc' = IF buf = <<>> THEN "end" ELSE "write"
    BY <1>6 DEF Converted, stream, uploading
  <2>2. Held = buf /\ Held' = IF buf = <<>> THEN <<>> ELSE buf
    BY <2>1 DEF Held
  <2>3. ASSUME buf = <<>> PROVE Pos = Len(whole) /\ ~need_linefeed_
    <3>1. Len(buf) = 0 /\ Len(buf) # BlockSize
      BY <2>3, DataType
    <3>2. Len(internal_) = 0 /\ Len(src) = 0
      BY <2>1, <3>1
    <3> QED
      BY <1>0, <2>1, <3>1, <3>2 DEF Pos, UploadInv
  <2>4. pc' \in {"write", "end"} /\ (pc' = "end" => buf = <<>>)
    BY <2>1
  <2> QED
    BY <1>1, <2>1, <2>2, <2>3, <2>4
<1>7. CASE WriteSocket
  <2>1. pc = "write" /\ pc' = "notify" /\ UNCHANGED uploading /\ dst' = dst \o buf
    BY <1>7 DEF WriteSocket, Put, stream, uploading
  <2>2. Held = buf /\ Held' = <<>>
    BY <2>1 DEF Held
  <2>3. dst' \o <<>> = dst'
    BY DEF TypeOK
  <2> QED
    BY <1>1, <2>1, <2>2, <2>3
<1>8. CASE ReadBinary \/ ReadSocket \/ WriteBinary \/ WriteAscii \/ Flush \/ Throw
  BY <1>8 DEF ReadBinary, ReadSocket, WriteBinary, WriteAscii, Flush, Throw, CallsInv
<1>9. CASE Cancel \/ Relent \/ UNCHANGED vars
  <2>1. UNCHANGED <<pc, uploading, dst, buf, cut>>
    BY <1>9 DEF Cancel, Relent, vars, stream, uploading
  <2>2. Unconverted
    BY <2>1, Converting
  <2>3. Held' = Held /\ pc' = pc /\ dst' = dst /\ buf' = buf /\ (cut' <=> cut)
    BY <2>1 DEF Held
  <2>4. Sent(whole', Pos') = (dst' \o Held') \o Due'
    BY <2>2, <2>3 DEF UploadInv, Unconverted
  <2>5. Within(internal_', whole', Pos') /\ (skip_linefeed_' <=> EndsWithCR(whole', Pos'))
    BY <2>2 DEF UploadInv, Unconverted
  <2>6. /\ pc' = "convert" /\ need_linefeed_' => Len(buf') = BlockSize
        /\ pc' \in {"end"} \cup Over /\ ~cut' => Pos' = Len(whole') /\ ~need_linefeed_'
    BY <2>2, <2>3 DEF UploadInv, Unconverted
  <2> QED
    BY <2>4, <2>5, <2>6 DEF UploadInv
<1> QED
  BY <1>2, <1>3, <1>4, <1>5, <1>6, <1>7, <1>8, <1>9 DEF Next, Proceed

LEMMA UploadArrives ==
  ASSUME TypeOK, UploadInv, transfer_type_ = "ascii", call = "send"
  PROVE  /\ Arrives /\ Len(dst) <= Len(Expected)
         /\ pc \in {"end"} \cup Over /\ ~cut => dst = Expected
<1>0. /\ whole \in Seq(Chars) /\ Len(whole) \in Nat /\ Len(src) \in Nat /\ Len(internal_) \in Nat
      /\ dst \in Seq(Chars) /\ Held \in Seq(Chars) /\ Due \in Seq(Chars)
  BY DataType DEF TypeOK, Held, Due
<1>1. Expected = ToNetwork(whole)
  BY DEF Expected
<1>2. Pos \in 0 .. Len(whole)
  BY <1>0 DEF UploadInv, Within, Pos
<1>3. Sent(whole, Pos) \in Seq(Chars) /\ IsPrefix(Sent(whole, Pos), Expected)
  <2>1. \A k \in 0 .. Len(whole) : Sent(whole, k) \in Seq(Chars) /\ IsPrefix(Sent(whole, k), Expected)
    BY <1>0, <1>1, SentOf
  <2> QED
    BY <1>2, <2>1
<1>4. ToNetwork(whole) = Sent(whole, Len(whole)) /\ ToNetwork(whole) \in Seq(Chars)
  <2>1. Len(whole) \in 0 .. Len(whole)
    BY <1>0
  <2>2. ToNetwork(whole) = Sent(whole, Len(whole)) /\ \A k \in 0 .. Len(whole) : Sent(whole, k) \in Seq(Chars)
    BY <1>0, SentOf
  <2> QED
    BY <2>1, <2>2
<1>5. IsPrefix(dst, Sent(whole, Pos))
  <2>1. Sent(whole, Pos) = dst \o (Held \o Due) /\ Held \o Due \in Seq(Chars)
    BY <1>0 DEF UploadInv
  <2> QED
    BY <1>0, <2>1, PrefixOfConcatenation
<1>6. IsPrefix(dst, Expected)
  BY <1>0, <1>1, <1>3, <1>4, <1>5, PrefixTransitive
<1>7. Len(dst) <= Len(Expected)
  BY <1>0, <1>1, <1>4, <1>6, PrefixPointwise
<1>8. ASSUME pc \in {"end"} \cup Over, ~cut PROVE dst = Expected
  <2>1. Held = <<>> /\ Due = <<>> /\ Pos = Len(whole)
    BY <1>8 DEF UploadInv, Held, Due, Over
  <2>2. (dst \o <<>>) \o <<>> = dst
    BY <1>0
  <2> QED
    BY <1>1, <1>4, <2>1, <2>2 DEF UploadInv
<1> QED
  BY <1>6, <1>7, <1>8 DEF Arrives

--------------------------------------------------------------------------------
(* The download of a text: ascii_ostream.                                  *)

\* The characters of the text that ascii_ostream was given.
At == Len(whole) - Len(src) - Len(Block)

DownloadInv ==
    /\ Within(Block, whole, At)
    /\ pc \in {"start", "read", "write", "notify", "flush"} =>
           (prev_cr_ <=> EndsWithCR(whole, At)) /\ dst = Settled(whole, At)
    /\ pc = "flush" /\ ~cut => src = <<>>
    /\ pc \in {"end"} \cup Over =>
           IF ~cut THEN dst = FromNetwork(whole)
           ELSE \/ dst = Settled(whole, At)
                \/ EndsWithCR(whole, At) /\ dst = Append(Settled(whole, At), "CR")

\* A CR at the end of all of it is stored.
LEMMA AllSettled ==
  ASSUME NEW s \in Seq(Chars)
  PROVE  FromNetwork(s) = IF EndsWithCR(s, Len(s)) THEN Append(Settled(s, Len(s)), "CR")
                          ELSE Settled(s, Len(s))
<1>1. FromNetwork(s) = Stored(s, Len(s))
  BY StoredOf
<1>2. ASSUME EndsWithCR(s, Len(s))
      PROVE  Stored(s, Len(s)) = Append(Stored(s, Len(s) - 1), "CR")
  <2>1. Len(s) \in 1 .. Len(s) /\ s[Len(s)] = "CR" /\ Len(s) - 1 \in 0 .. Len(s)
    BY <1>2 DEF EndsWithCR
  <2> DEFINE k == Len(s)
  <2>2. Stored(s, k) = Stored(s, k - 1) \o StoredFor(s)[k]
    BY <2>1, StoredOf
  <2>3. StoredFor(s)[k] = <<"CR">>
    <3>1. StoredFor(s)[k] = IF s[k] = "CR" /\ k < Len(s) /\ s[k + 1] = "LF" THEN <<>> ELSE <<s[k]>>
      BY <2>1, StoredOf
    <3>2. ~(k < Len(s))
      BY <2>1
    <3> QED
      BY <2>1, <3>1, <3>2
  <2>4. Stored(s, k - 1) \in Seq(Chars)
    BY <2>1, StoredOf
  <2> QED
    BY <2>2, <2>3, <2>4, DataType, CharsAppended
<1> QED
  BY <1>1, <1>2 DEF Settled

\* There is room for a CR kept back: it is stored, or the LF after it is.
LEMMA RoomForCR ==
  ASSUME NEW s \in Seq(Chars), NEW k \in 0 .. Len(s), EndsWithCR(s, k)
  PROVE  Len(Settled(s, k)) + 1 <= Len(FromNetwork(s))
<1>1. k \in 1 .. Len(s) /\ s[k] = "CR" /\ Settled(s, k) = Stored(s, k - 1) /\ k - 1 \in 0 .. Len(s)
  BY DEF EndsWithCR, Settled
<1>2. FromNetwork(s) \in Seq(Chars) /\ \A j \in 0 .. Len(s) : Stored(s, j) \in Seq(Chars)
  <2>1. Len(s) \in 0 .. Len(s)
    OBVIOUS
  <2>2. FromNetwork(s) = Stored(s, Len(s)) /\ \A j \in 0 .. Len(s) : Stored(s, j) \in Seq(Chars)
    BY StoredOf
  <2> QED
    BY <2>1, <2>2
<1>3. \A j \in 0 .. Len(s) : Len(Stored(s, j)) <= Len(FromNetwork(s))
  <2> TAKE j \in 0 .. Len(s)
  <2>1. IsPrefix(Stored(s, j), FromNetwork(s))
    BY StoredOf
  <2> QED
    BY <1>2, <2>1, PrefixPointwise
<1>4. \A j \in 1 .. Len(s) : StoredFor(s)[j] = <<s[j]>> => Len(Stored(s, j)) = Len(Stored(s, j - 1)) + 1
  <2> TAKE j \in 1 .. Len(s)
  <2>1. j - 1 \in 0 .. Len(s)
    OBVIOUS
  <2>2. Stored(s, j) = Stored(s, j - 1) \o StoredFor(s)[j]
    BY StoredOf
  <2>3. Stored(s, j - 1) \in Seq(Chars) /\ <<s[j]>> \in Seq(Chars) /\ Len(<<s[j]>>) = 1
    BY <1>2, <2>1
  <2> QED
    BY <2>2, <2>3
<1>5. StoredFor(s)[k] = IF s[k] = "CR" /\ k < Len(s) /\ s[k + 1] = "LF" THEN <<>> ELSE <<s[k]>>
  BY <1>1, StoredOf
<1>6. CASE StoredFor(s)[k] = <<s[k]>>
  <2>1. Len(Stored(s, k)) = Len(Stored(s, k - 1)) + 1
    BY <1>1, <1>4, <1>6
  <2> QED
    BY <1>1, <1>3, <2>1
<1>7. CASE s[k] = "CR" /\ k < Len(s) /\ s[k + 1] = "LF"
  <2> DEFINE j == k + 1
  <2>1. j \in 1 .. Len(s) /\ j - 1 = k /\ k \in 0 .. Len(s) /\ s[j] = "LF" /\ j \in 0 .. Len(s)
    BY <1>1, <1>7
  <2> HIDE DEF j
  <2>2. StoredFor(s)[j] = IF s[j] = "CR" /\ j < Len(s) /\ s[j + 1] = "LF" THEN <<>> ELSE <<s[j]>>
    BY <2>1, StoredOf
  <2>3. Len(Stored(s, j)) = Len(Stored(s, k)) + 1
    BY <1>4, <2>1, <2>2
  <2>4. Stored(s, k) = Stored(s, k - 1) \o <<>>
    <3>1. Stored(s, k) = Stored(s, k - 1) \o StoredFor(s)[k]
      BY <1>1, StoredOf
    <3> QED
      BY <1>5, <1>7, <3>1
  <2>5. Stored(s, k) = Stored(s, k - 1)
    BY <1>1, <1>2, <2>4
  <2> QED
    BY <1>1, <1>3, <2>1, <2>3, <2>5
<1> QED
  BY <1>5, <1>6, <1>7

LEMMA DownloadNext ==
  ASSUME TypeOK, TypeOK', SourceInv, CallsInv, DownloadInv, [Next]_vars,
         transfer_type_ = "ascii", call = "recv", pc # "thrown", pc' # "thrown"
  PROVE  DownloadInv'
<1> USE DEF Over
<1>0. /\ whole \in Seq(Chars) /\ Len(whole) \in Nat /\ Len(src) \in Nat /\ src \in Seq(Chars)
      /\ Len(buf) \in Nat /\ dst \in Seq(Chars) /\ buf \in Seq(Chars)
      /\ Len(src) <= Len(whole)
  BY DataType DEF TypeOK, SourceInv, Within
<1>1. ASSUME UNCHANGED <<whole, src, dst>>, prev_cr_' <=> prev_cr_, pc # "write", pc' # "write",
             pc' \in {"start", "read", "notify", "flush"} => pc \in {"start", "read", "notify", "flush"},
             pc' = "flush" /\ ~cut' => src = <<>>,
             pc' \in {"end"} \cup Over =>
                 IF ~cut' THEN dst = FromNetwork(whole)
                 ELSE \/ dst = Settled(whole, At)
                      \/ EndsWithCR(whole, At) /\ dst = Append(Settled(whole, At), "CR")
      PROVE  DownloadInv'
  <2>1. Block' = <<>> /\ Block = <<>>
    BY <1>1 DEF Block
  <2>2. At' = At
    BY <1>1, <2>1 DEF At
  <2>3. Within(Block', whole', At')
    BY <1>1, <2>1, <2>2 DEF DownloadInv
  <2>4. pc' \in {"start", "read", "write", "notify", "flush"} =>
           (prev_cr_' <=> EndsWithCR(whole', At')) /\ dst' = Settled(whole', At')
    BY <1>1, <2>2 DEF DownloadInv
  <2>5. pc' = "flush" /\ ~cut' => src' = <<>>
    BY <1>1
  <2>6. pc' \in {"end"} \cup Over =>
           IF ~cut' THEN dst' = FromNetwork(whole')
           ELSE \/ dst' = Settled(whole', At')
                \/ EndsWithCR(whole', At') /\ dst' = Append(Settled(whole', At'), "CR")
    BY <1>1, <2>2
  <2> QED
    BY <2>3, <2>4, <2>5, <2>6 DEF DownloadInv
<1>2. CASE Start \/ Notify
  <2>1. /\ UNCHANGED <<whole, src, dst, prev_cr_>> /\ pc \in {"start", "notify"} /\ pc' \in {"read", "left", "flush"}
        /\ pc' \in {"left", "flush"} => cut'
    BY <1>2 DEF Start, Notify, stream
  <2>2. dst = Settled(whole, At)
    BY <2>1 DEF DownloadInv
  <2>3. prev_cr_' <=> prev_cr_
    BY <2>1
  <2> QED
    BY <1>1, <2>1, <2>2, <2>3
<1>3. CASE End \/ Leave
  <2>1. /\ UNCHANGED <<whole, src, dst, prev_cr_, cut>> /\ pc \in {"end"} \cup Over /\ pc' \in Over
    BY <1>3 DEF End, Leave, stream
  <2>2. (prev_cr_' <=> prev_cr_) /\ (cut' <=> cut)
    BY <2>1
  <2>3. IF ~cut' THEN dst = FromNetwork(whole)
        ELSE \/ dst = Settled(whole, At)
             \/ EndsWithCR(whole, At) /\ dst = Append(Settled(whole, At), "CR")
    BY <2>1, <2>2 DEF DownloadInv
  <2> QED
    BY <1>1, <2>1, <2>2, <2>3
<1>4. CASE ReadSocket
  <2>1. /\ pc = "read" /\ UNCHANGED <<whole, dst, prev_cr_, cut>>
        /\ \/ src = <<>> /\ pc' = "flush" /\ UNCHANGED <<src, buf>>
           \/ \E n \in 1 .. Len(src) : pc' = "write" /\ Take(n)
    BY <1>4 DEF ReadSocket, stream
  <2>2. prev_cr_' <=> prev_cr_
    BY <2>1
  <2>3. CASE src = <<>> /\ pc' = "flush" /\ UNCHANGED <<src, buf>>
    BY <1>1, <2>1, <2>2, <2>3
  <2>4. ASSUME NEW n \in 1 .. Len(src), pc' = "write", Take(n)
        PROVE  DownloadInv'
    <3> DEFINE k == Len(whole) - Len(src)
    <3>1. k \in Nat /\ Within(src, whole, k)
      BY <1>0 DEF SourceInv
    <3>2. buf' = SubSeq(src, 1, n) /\ Len(buf') = n /\ Len(src') = Len(src) - n /\ n \in Nat
      BY <2>4, BlockTaken DEF Take
    <3>3. Block' = buf' /\ Block = <<>> /\ Len(Block) = 0
      BY <2>1, <2>4 DEF Block
    <3>4. At = k
      BY <1>0, <3>3 DEF At
    <3>5. At' = k
      <4>1. Len(whole') = Len(whole) /\ Len(Block') = n
        BY <2>1, <3>2, <3>3
      <4>2. Len(whole) - (Len(src) - n) - n = Len(whole) - Len(src)
        BY <1>0, <3>2
      <4> QED
        BY <3>2, <4>1, <4>2 DEF At
    <3> HIDE DEF k
    <3>6. Within(Block', whole', At')
      BY <1>0, <2>1, <3>1, <3>2, <3>3, <3>5, Divided
    <3>7. (prev_cr_' <=> EndsWithCR(whole', At')) /\ dst' = Settled(whole', At')
      BY <2>1, <2>2, <3>4, <3>5 DEF DownloadInv
    <3> QED
      BY <2>4, <3>6, <3>7 DEF DownloadInv
  <2> QED
    BY <2>1, <2>3, <2>4
<1>5. CASE WriteAscii
  <2>1. /\ pc = "write" /\ pc' = "notify" /\ UNCHANGED <<whole, src>>
        /\ dst' = dst \o Written(buf, prev_cr_).out /\ prev_cr_' = Written(buf, prev_cr_).prev_cr
    BY <1>5 DEF WriteAscii, Put
  <2> DEFINE k == At
  <2>2. /\ Block = buf /\ Within(buf, whole, k) /\ (prev_cr_ <=> EndsWithCR(whole, k))
        /\ dst = Settled(whole, k)
    BY <2>1 DEF DownloadInv, Block
  <2>3. k \in 0 .. Len(whole)
    BY <1>0, <2>2 DEF At, Within
  <2>4. Block' = <<>> /\ Len(<<>>) = 0
    BY <2>1 DEF Block
  <2>5. At' = k + Len(buf)
    <3>1. At = Len(whole) - Len(src) - Len(buf) /\ At' = Len(whole) - Len(src) - 0
      BY <2>1, <2>2, <2>4 DEF At
    <3> QED
      BY <1>0, <3>1
  <2> HIDE DEF k
  <2>6. /\ dst \o Written(buf, prev_cr_).out = Settled(whole, k + Len(buf))
        /\ Written(buf, prev_cr_).prev_cr <=> EndsWithCR(whole, k + Len(buf))
    <3>1. prev_cr_ \in BOOLEAN
      BY DEF TypeOK
    <3>2. whole \in Seq(Chars) /\ buf \in Seq(Chars)
      BY <1>0
    <3>3. \A cr \in BOOLEAN : (cr <=> EndsWithCR(whole, k)) =>
              /\ dst \o Written(buf, cr).out = Settled(whole, k + Len(buf))
              /\ Written(buf, cr).prev_cr <=> EndsWithCR(whole, k + Len(buf))
      BY <2>2, <2>3, <3>2, WriteSettles, Zenon
    <3>4. prev_cr_ <=> EndsWithCR(whole, k)
      BY <2>2
    <3> QED
      BY <3>1, <3>3, <3>4, Zenon
  <2>7. (prev_cr_' <=> EndsWithCR(whole', At')) /\ dst' = Settled(whole', At')
    BY <2>1, <2>5, <2>6
  <2>8. Within(Block', whole', At')
    <3>1. k + Len(buf) \in Nat /\ k + Len(buf) + 0 <= Len(whole)
      BY <1>0, <2>2, <2>3 DEF Within
    <3> QED
      BY <2>1, <2>4, <2>5, <3>1 DEF Within
  <2> QED
    BY <2>1, <2>7, <2>8 DEF DownloadInv
<1>6. CASE Flush
  <2>1. /\ pc = "flush" /\ pc' = "end" /\ UNCHANGED <<whole, src, cut>>
        /\ dst' = IF prev_cr_ THEN Append(dst, "CR") ELSE dst
    BY <1>6 DEF Flush
  <2>2. (prev_cr_ <=> EndsWithCR(whole, At)) /\ dst = Settled(whole, At)
    BY <2>1 DEF DownloadInv
  <2>3. Block' = <<>> /\ Block = <<>> /\ Len(<<>>) = 0
    BY <2>1 DEF Block
  <2>4. At' = At /\ At = Len(whole) - Len(src)
    BY <1>0, <2>1, <2>3 DEF At
  <2>5. Within(Block', whole', At')
    BY <2>1, <2>3, <2>4 DEF DownloadInv
  <2>6. cut' <=> cut
    BY <2>1
  <2>7. CASE cut
    BY <2>1, <2>2, <2>4, <2>5, <2>6, <2>7 DEF DownloadInv
  <2>8. CASE ~cut
    <3>1. At = Len(whole)
      BY <1>0, <2>1, <2>4, <2>8 DEF DownloadInv
    <3>2. dst' = FromNetwork(whole)
      BY <1>0, <2>1, <2>2, <3>1, AllSettled
    <3> QED
      BY <2>1, <2>5, <2>6, <2>8, <3>2 DEF DownloadInv
  <2> QED
    BY <2>7, <2>8
<1>7. CASE ReadBinary \/ ReadAscii \/ Refill \/ Convert \/ Converted \/ WriteSocket \/ WriteBinary \/ Throw
  BY <1>7 DEF ReadBinary, ReadAscii, Refill, Convert, Converted, WriteSocket, WriteBinary, Throw, CallsInv
<1>8. CASE Cancel \/ Relent \/ UNCHANGED vars
  <2>1. UNCHANGED <<pc, whole, src, dst, buf, prev_cr_, cut>>
    BY <1>8 DEF Cancel, Relent, vars, stream
  <2>2. /\ Block' = Block /\ pc' = pc /\ whole' = whole /\ src' = src /\ dst' = dst
        /\ (prev_cr_' <=> prev_cr_) /\ (cut' <=> cut)
    BY <2>1 DEF Block
  <2>3. At' = At
    BY <2>2 DEF At
  <2> QED
    BY <2>2, <2>3 DEF DownloadInv
<1> QED
  BY <1>2, <1>3, <1>4, <1>5, <1>6, <1>7, <1>8 DEF Next, Proceed

LEMMA DownloadArrives ==
  ASSUME TypeOK, SourceInv, DownloadInv, transfer_type_ = "ascii", call = "recv", pc \notin {"thrown", "convert"}
  PROVE  /\ Arrives /\ Len(dst) <= Len(Expected)
         /\ pc \in {"end"} \cup Over /\ ~cut => dst = Expected
<1>0. whole \in Seq(Chars) /\ Len(whole) \in Nat /\ Len(src) \in Nat /\ dst \in Seq(Chars) /\ Len(Block) \in Nat
  BY DataType DEF TypeOK, Block
<1>1. Expected = FromNetwork(whole)
  BY DEF Expected
<1>2. At \in 0 .. Len(whole)
  BY <1>0 DEF At, DownloadInv, Within
<1>3. Settled(whole, At) \in Seq(Chars) /\ IsPrefix(Settled(whole, At), Expected)
  BY <1>0, <1>1, <1>2, SettledType
<1>4. Expected \in Seq(Chars)
  <2>1. Len(whole) \in 0 .. Len(whole)
    BY <1>0
  <2>2. FromNetwork(whole) = Stored(whole, Len(whole)) /\ \A k \in 0 .. Len(whole) : Stored(whole, k) \in Seq(Chars)
    BY <1>0, StoredOf
  <2> QED
    BY <1>1, <2>1, <2>2
<1>5. CASE dst = Settled(whole, At) /\ (pc \in {"end"} \cup Over => cut)
  BY <1>0, <1>3, <1>4, <1>5, PrefixPointwise DEF Arrives
<1>6. CASE dst = Expected
  BY <1>0, <1>4, <1>6, PrefixPointwise DEF Arrives
<1>7. CASE cut /\ EndsWithCR(whole, At) /\ dst = Append(Settled(whole, At), "CR")
  <2> DEFINE d == Settled(whole, At)
  <2>1. d \in Seq(Chars) /\ dst = Append(d, "CR") /\ dst # <<>> /\ Len(dst) = Len(d) + 1 /\ Len(d) \in Nat
    BY <1>3, <1>7, DataType
  <2> HIDE DEF d
  <2>2. /\ Len(Front(dst)) = Len(dst) - 1 /\ Front(dst) \in Seq(Chars) /\ Last(dst) = dst[Len(dst)]
        /\ \A i \in 1 .. Len(dst) - 1 : Front(dst)[i] = dst[i]
    BY <1>0, <2>1, Ends
  <2>3. dst[Len(dst)] = "CR" /\ \A i \in 1 .. Len(d) : dst[i] = d[i]
    BY <2>1, DataType
  <2>4. Front(dst) = d
    BY <2>1, <2>2, <2>3, SeqEqual
  <2>5. Arrives
    BY <1>3, <1>7, <2>2, <2>3, <2>4 DEF Arrives, d
  <2>6. Len(dst) <= Len(Expected)
    BY <1>0, <1>1, <1>2, <1>7, <2>1, RoomForCR DEF d
  <2> QED
    BY <1>7, <2>5, <2>6
<1> QED
  BY <1>1, <1>5, <1>6, <1>7 DEF DownloadInv, TypeOK, Over

--------------------------------------------------------------------------------
(* All transfers.                                                          *)

DataInv ==
    /\ SourceInv
    /\ pc \in {"start", "read", "convert", "write", "notify"} => ~cut
    /\ pc = "thrown" => Arrives
    /\ pc # "thrown" =>
           /\ transfer_type_ = "binary" => BinaryInv
           /\ transfer_type_ = "ascii" /\ call = "send" => UploadInv
           /\ transfer_type_ = "ascii" /\ call = "recv" => DownloadInv

LEMMA DataInit == Init => DataInv
<1> SUFFICES ASSUME Init PROVE DataInv
  OBVIOUS
<1>1. /\ whole \in Seq(Chars) /\ src = whole /\ dst = <<>> /\ internal_ = <<>> /\ pc = "start" /\ ~cut
      /\ ~need_linefeed_ /\ ~skip_linefeed_ /\ ~prev_cr_
  BY DataType DEF Init
<1>2. /\ Len(whole) \in Nat /\ Len(src) = Len(whole) /\ Len(<<>>) = 0 /\ 0 \in 0 .. Len(whole)
      /\ Len(whole) - Len(whole) = 0 /\ \A i \in 1 .. Len(whole) : 0 + i = i
  BY <1>1
<1>3. Within(whole, whole, 0) /\ Within(<<>>, whole, 0) /\ ~EndsWithCR(whole, 0)
  BY <1>2 DEF Within, EndsWithCR
<1>4. SourceInv
  BY <1>1, <1>2, <1>3 DEF SourceInv
<1>5. Block = <<>> /\ Held = <<>> /\ Due = <<>> /\ Pos = 0 /\ At = 0
  <2>1. Block = <<>> /\ Held = <<>> /\ Due = <<>>
    BY <1>1 DEF Block, Held, Due
  <2>2. Len(Block) = 0 /\ Len(internal_) = 0
    BY <1>1, <2>1
  <2>3. Pos = Len(whole) - Len(whole) - 0 /\ At = Len(whole) - Len(whole) - 0
    BY <1>2, <2>2 DEF Pos, At
  <2> QED
    BY <1>2, <2>1, <2>3
<1>6. BinaryInv
  BY <1>1, <1>2, <1>3, <1>5 DEF BinaryInv, Over
<1>7. Sent(whole, 0) = <<>> /\ Stored(whole, 0) = <<>>
  BY <1>1, SentOf, StoredOf
<1>8. (<<>> \o <<>>) \o <<>> = <<>>
  OBVIOUS
<1>9. UploadInv
  BY <1>1, <1>3, <1>5, <1>7, <1>8 DEF UploadInv, Over
<1>10. DownloadInv
  BY <1>1, <1>3, <1>5, <1>7 DEF DownloadInv, Settled, Over
<1> QED
  BY <1>1, <1>4, <1>6, <1>9, <1>10 DEF DataInv

LEMMA AllArrives ==
  ASSUME TypeOK, CallsInv, DataInv
  PROVE  /\ Arrives
         /\ pc # "thrown" => Len(dst) <= Len(Expected) /\ (pc \in {"end"} \cup Over /\ ~cut => dst = Expected)
<1>1. CASE pc = "thrown"
  BY <1>1 DEF DataInv
<1>2. CASE pc # "thrown" /\ transfer_type_ = "binary"
  BY <1>2, BinaryArrives DEF DataInv
<1>3. CASE pc # "thrown" /\ transfer_type_ = "ascii" /\ call = "send"
  BY <1>3, UploadArrives DEF DataInv
<1>4. CASE pc # "thrown" /\ transfer_type_ = "ascii" /\ call = "recv"
  <2>1. pc # "convert" /\ SourceInv /\ DownloadInv
    BY <1>4 DEF CallsInv, DataInv
  <2> QED
    BY <1>4, <2>1, DownloadArrives
<1> QED
  BY <1>1, <1>2, <1>3, <1>4 DEF TypeOK

LEMMA DataNext ==
  ASSUME TypeOK, CallsInv, DataInv, [Next]_vars
  PROVE  DataInv'
<1>1. TypeOK' /\ CallsInv' /\ SourceInv /\ SourceInv' /\ UNCHANGED <<call, transfer_type_, whole>>
  BY TypeNext, CallsNext, SourceNext DEF DataInv
<1>2. pc' \in {"start", "read", "convert", "write", "notify"} => ~cut'
  <2>1. CASE Start \/ Notify \/ End \/ Leave \/ Throw \/ Flush \/ ReadBinary \/ ReadSocket
    BY <2>1 DEF Start, Notify, End, Leave, Throw, Flush, ReadBinary, ReadSocket, DataInv, TypeOK
  <2>2. CASE ReadAscii \/ Refill \/ Convert \/ Converted \/ WriteSocket \/ WriteBinary \/ WriteAscii
    BY <2>2 DEF ReadAscii, Refill, Convert, Converted, WriteSocket, WriteBinary, WriteAscii, DataInv
  <2>3. CASE Cancel \/ Relent \/ UNCHANGED vars
    BY <2>3 DEF Cancel, Relent, vars, DataInv
  <2> QED
    BY <2>1, <2>2, <2>3 DEF Next, Proceed
<1>3. ASSUME pc' = "thrown" PROVE Arrives'
  <2>1. UNCHANGED <<dst, cut, call, transfer_type_, whole>>
    <3>1. CASE Throw \/ Cancel \/ Relent \/ UNCHANGED vars
      BY <3>1 DEF Throw, Cancel, Relent, vars
    <3>2. CASE Start \/ Notify \/ End \/ Leave \/ Flush \/ ReadBinary \/ ReadSocket
      BY <1>3, <3>2 DEF Start, Notify, End, Leave, Flush, ReadBinary, ReadSocket
    <3>3. CASE ReadAscii \/ Refill \/ Convert \/ Converted \/ WriteSocket \/ WriteBinary \/ WriteAscii
      BY <1>3, <3>3 DEF ReadAscii, Refill, Convert, Converted, WriteSocket, WriteBinary, WriteAscii
    <3> QED
      BY <3>1, <3>2, <3>3 DEF Next, Proceed
  <2>2. Expected' = Expected /\ dst' = dst /\ (cut' <=> cut) /\ call' = call
    BY <2>1 DEF Expected
  <2>3. Arrives
    BY AllArrives
  <2> QED
    BY <2>2, <2>3 DEF Arrives
<1>4. ASSUME pc' # "thrown"
      PROVE  /\ transfer_type_' = "binary" => BinaryInv'
             /\ transfer_type_' = "ascii" /\ call' = "send" => UploadInv'
             /\ transfer_type_' = "ascii" /\ call' = "recv" => DownloadInv'
  <2>1. pc # "thrown"
    <3>1. CASE Proceed \/ Throw
      BY <3>1 DEF Proceed, Throw, Start, Notify, End, Leave, Flush, ReadBinary, ReadSocket,
                  ReadAscii, Refill, Convert, Converted, WriteSocket, WriteBinary, WriteAscii
    <3>2. CASE Cancel \/ Relent \/ UNCHANGED vars
      BY <1>4, <3>2 DEF Cancel, Relent, vars
    <3> QED
      BY <3>1, <3>2 DEF Next
  <2>2. CASE transfer_type_ = "binary"
    BY <1>1, <1>4, <2>1, <2>2, BinaryNext DEF DataInv
  <2>3. CASE transfer_type_ = "ascii" /\ call = "send"
    BY <1>1, <1>4, <2>1, <2>3, UploadNext DEF DataInv
  <2>4. CASE transfer_type_ = "ascii" /\ call = "recv"
    BY <1>1, <1>4, <2>1, <2>4, DownloadNext DEF DataInv
  <2> QED
    BY <1>1, <2>2, <2>3, <2>4 DEF TypeOK
<1> QED
  BY <1>1, <1>2, <1>3, <1>4 DEF DataInv

LEMMA Invariants == Spec => [](TypeOK /\ CallsInv /\ DataInv)
<1>1. TypeOK /\ CallsInv /\ DataInv /\ [Next]_vars => DataInv'
  BY DataNext
<1> QED
  BY <1>1, TypeInit, TypeNext, CallsInit, CallsNext, DataInit, PTL DEF Spec

\* data_connection::send and recv with binary_istream, binary_ostream,
\* ascii_istream and ascii_ostream: what arrives is the converted data, for
\* every text, block size and buffer size, and complete when the client
\* believes so.
THEOREM DataArriveWhole == Spec => []DataArrives
<1>1. TypeOK /\ CallsInv /\ DataInv => DataArrives
  <2> SUFFICES ASSUME TypeOK, CallsInv, DataInv PROVE DataArrives
    OBVIOUS
  <2>1. Arrives /\ (pc = "complete" /\ ~cut => dst = Expected)
    BY AllArrives DEF Over
  <2> QED
    BY <2>1 DEF Arrives, DataArrives
<1> QED
  BY <1>1, Invariants, PTL

--------------------------------------------------------------------------------
(* The refinement of DataTransfer.                                         *)

Outcome == IF pc \in {"complete", "aborted", "thrown"} THEN pc ELSE "moving"

\* What the refinement needs of the states before and after a step.
FitsInv ==
    /\ pc \in {"start", "read", "convert", "write", "notify"} => ~cut
    /\ pc # "thrown" =>
           Len(dst) <= Len(Expected) /\ (pc \in {"end"} \cup Over /\ ~cut => dst = Expected)

LEMMA LengthsType ==
  ASSUME TypeOK
  PROVE  Len(Expected) \in Nat /\ Len(dst) \in Nat
<1>1. whole \in Seq(Chars) /\ dst \in Seq(Chars) /\ Len(whole) \in 0 .. Len(whole)
  BY DataType DEF TypeOK
<1>2. /\ ToNetwork(whole) = Sent(whole, Len(whole)) /\ FromNetwork(whole) = Stored(whole, Len(whole))
      /\ \A k \in 0 .. Len(whole) : Sent(whole, k) \in Seq(Chars) /\ Stored(whole, k) \in Seq(Chars)
  BY <1>1, SentOf, StoredOf
<1>3. ToNetwork(whole) \in Seq(Chars) /\ FromNetwork(whole) \in Seq(Chars)
  BY <1>1, <1>2
<1>4. Expected \in Seq(Chars)
  BY <1>1, <1>3 DEF Expected
<1> QED
  BY <1>1, <1>4

\* A step that puts something into dst.
LEMMA WritesMove ==
  ASSUME TypeOK, TypeOK', FitsInv', Expected' = Expected, UNCHANGED cut,
         Outcome = "moving", Outcome' = "moving", Len(dst') >= Len(dst), pc' # "thrown"
  PROVE  [Transfer!TransferNext]_(Transfer!transfer)
<1> DEFINE n == Len(dst') - Len(dst)
<1>1. Len(dst) \in Nat /\ Len(dst') \in Nat /\ Len(Expected) \in Nat /\ Len(Expected') = Len(Expected)
  BY LengthsType DEF TypeOK
<1>2. Len(dst') <= Len(Expected)
  BY <1>1 DEF FitsInv
<1>3. n \in Nat /\ n <= Len(Expected) - Len(dst) /\ n <= Len(Expected) /\ Len(dst') = Len(dst) + n
  BY <1>1, <1>2
<1>4. CASE n = 0
  <2>1. Len(dst') = Len(dst)
    BY <1>1, <1>3, <1>4
  <2> QED
    BY <1>1, <2>1 DEF Transfer!transfer, Outcome
<1>5. CASE n # 0
  <2>1. n \in 1 .. Len(Expected)
    BY <1>1, <1>3, <1>5
  <2> HIDE DEF n
  <2>2. Transfer!Move(n)
    BY <1>1, <1>3 DEF Transfer!Move, Outcome
  <2> QED
    BY <2>1, <2>2 DEF Transfer!TransferNext
<1> QED
  BY <1>4, <1>5

LEMMA StepTransfers ==
  ASSUME TypeOK, TypeOK', FitsInv, FitsInv', [Next]_vars
  PROVE  [Transfer!TransferNext]_(Transfer!transfer)
<1>1. UNCHANGED <<call, transfer_type_, whole>>
  BY DEF Next, Proceed, Throw, Start, Notify, End, Leave, Flush, ReadBinary, ReadSocket, ReadAscii, Refill,
         Convert, Converted, WriteSocket, WriteBinary, WriteAscii, Cancel, Relent, vars
<1>2. Expected' = Expected
  BY <1>1 DEF Expected
<1>3. ASSUME dst' = dst, cut' = cut, Outcome' = Outcome
      PROVE  UNCHANGED Transfer!transfer
  BY <1>2, <1>3 DEF Transfer!transfer, Outcome
<1>4. ASSUME dst' = dst, cut', Outcome = "moving", Outcome' = "moving"
      PROVE  [Transfer!TransferNext]_(Transfer!transfer)
  <2>1. cut' = TRUE
    BY <1>4 DEF TypeOK
  <2>2. Transfer!BreakOff
    BY <1>2, <1>4, <2>1 DEF Transfer!BreakOff, Outcome
  <2> QED
    BY <2>2 DEF Transfer!TransferNext
<1>5. CASE Start \/ Notify
  <2>1. /\ dst' = dst /\ pc \in {"start", "notify"} /\ pc' \notin {"complete", "aborted", "thrown"}
    BY <1>5 DEF Start, Notify
  <2>2. Outcome = "moving" /\ Outcome' = "moving"
    BY <2>1 DEF Outcome
  <2>3. CASE cut'
    BY <1>4, <2>1, <2>2, <2>3
  <2>4. CASE ~cut'
    <3>1. ~cut
      BY <2>1 DEF FitsInv
    <3>2. cut' = cut
      BY <2>4, <3>1 DEF TypeOK
    <3> QED
      BY <1>3, <2>1, <2>2, <3>2
  <2> QED
    BY <2>3, <2>4
<1>6. CASE End \/ ReadBinary \/ ReadSocket \/ ReadAscii \/ Refill \/ Convert \/ Converted
  <2>1. /\ dst' = dst /\ cut' = cut /\ pc \notin {"complete", "aborted", "thrown"}
        /\ pc' \notin {"complete", "aborted", "thrown"}
    BY <1>6 DEF End, ReadBinary, ReadSocket, ReadAscii, Refill, Convert, Converted
  <2>2. Outcome' = Outcome
    BY <2>1 DEF Outcome
  <2> QED
    BY <1>3, <2>1, <2>2
<1>7. CASE Cancel \/ Relent \/ UNCHANGED vars
  <2>1. dst' = dst /\ cut' = cut /\ pc' = pc
    BY <1>7 DEF Cancel, Relent, vars
  <2>2. Outcome' = Outcome
    BY <2>1 DEF Outcome
  <2> QED
    BY <1>3, <2>1, <2>2
<1>8. CASE Leave
  <2>1. dst' = dst /\ cut' = cut /\ pc = "left" /\ pc' \in {"complete", "aborted"}
    BY <1>8 DEF Leave
  <2>2. Len(dst) = Len(Expected) \/ cut
    BY <2>1 DEF FitsInv, Over
  <2>3. Outcome = "moving" /\ Outcome' \in {"complete", "aborted"}
    BY <2>1 DEF Outcome
  <2>4. Transfer!Complete \/ Transfer!Abort
    BY <1>2, <2>1, <2>2, <2>3 DEF Transfer!Complete, Transfer!Abort, Outcome
  <2> QED
    BY <2>4 DEF Transfer!TransferNext
<1>9. CASE Throw
  <2>1. dst' = dst /\ cut' = cut /\ pc \notin {"complete", "aborted", "thrown"} /\ pc' = "thrown"
    BY <1>9 DEF Throw
  <2>2. Transfer!Fail
    BY <1>2, <2>1 DEF Transfer!Fail
  <2> QED
    BY <2>2 DEF Transfer!TransferNext
<1>10. CASE WriteSocket \/ WriteBinary \/ WriteAscii \/ Flush
  <2>1. /\ UNCHANGED cut /\ pc \in {"write", "flush"} /\ pc' \in {"notify", "end"}
        /\ \/ dst' = dst \o buf
           \/ dst' = dst \o Written(buf, prev_cr_).out
           \/ dst' = Append(dst, "CR")
           \/ dst' = dst
    BY <1>10 DEF WriteSocket, WriteBinary, WriteAscii, Flush, Put
  <2>2. dst \in Seq(Chars) /\ buf \in Seq(Chars) /\ prev_cr_ \in BOOLEAN /\ Len(dst) \in Nat
    BY DEF TypeOK
  <2>3. Written(buf, prev_cr_).out \in Seq(Chars)
    BY <2>2, WrittenType DEF Output
  <2>4. \A t \in Seq(Chars) : Len(dst \o t) = Len(dst) + Len(t) /\ Len(t) \in Nat
    BY <2>2
  <2>5. Len(Append(dst, "CR")) = Len(dst) + 1
    BY <2>2, DataType
  <2>6. Len(dst') >= Len(dst)
    BY <2>1, <2>2, <2>3, <2>4, <2>5
  <2>7. Outcome = "moving" /\ Outcome' = "moving"
    BY <2>1 DEF Outcome
  <2> QED
    BY <1>2, <2>1, <2>6, <2>7, WritesMove
<1> QED
  BY <1>5, <1>6, <1>7, <1>8, <1>9, <1>10 DEF Next, Proceed

\* data_connection's loops and streams do what DataTransfer says of a transfer:
\* it moves on by what arrives, never past the whole, and is complete or
\* aborted only when all has arrived or is_cancelled() has broken it off.
THEOREM TransferImplemented == Spec => ImplementsTransfer
<1>1. Init => Transfer!TransferInit
  <2> SUFFICES ASSUME Init PROVE Transfer!TransferInit
    OBVIOUS
  <2>1. Len(Expected) \in Nat
    BY TypeInit, LengthsType
  <2>2. Len(dst) = 0 /\ pc = "start" /\ cut = FALSE
    BY DEF Init
  <2> QED
    BY <2>1, <2>2 DEF Transfer!TransferInit
<1>2. TypeOK /\ CallsInv /\ DataInv => FitsInv
  BY AllArrives DEF FitsInv, DataInv
<1>3. TypeOK /\ FitsInv /\ [Next]_vars /\ TypeOK' /\ FitsInv' => [Transfer!TransferNext]_(Transfer!transfer)
  BY StepTransfers
<1> QED
  BY <1>1, <1>2, <1>3, Invariants, PTL DEF Spec, ImplementsTransfer, Transfer!TransferSpec
================================================================================
