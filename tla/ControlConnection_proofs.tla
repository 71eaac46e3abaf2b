------------------------ MODULE ControlConnection_proofs ------------------------
(***************************************************************************)
(* control_connection keeps the promise of ReplyChannel: recv() returns    *)
(* the replies of the server whole, once and in order, for any replies,    *)
(* limit of the buffer and lengths of the reads.                           *)
(*                                                                         *)
(* The inductive invariant is Reading: what is unread, in status_string,   *)
(* buffer_ and on the wire, is the beginning of replies that follow one    *)
(* another, with no more than the first lines of one taken.  A step of     *)
(* recv() is one of the channel since Decode of such a sequence changes    *)
(* only where a reply ends.                                                *)
(***************************************************************************)
EXTENDS ControlConnection, SequenceLemmas

--------------------------------------------------------------------------------
(* Lines and types.                                                        *)

\* CR and LF are tokens, and have no code.
LEMMA LineEnds == CR \in Tokens /\ LF \in Tokens /\ CR # LF /\ CR.code = 0 /\ LF.code = 0
BY DEF CR, LF, Word, Tokens

\* match_eol finds the first line end, and takes CR LF as one.
LEMMA MatchEol ==
  ASSUME NEW s \in Seq(Tokens), HasLine(s)
  PROVE  /\ match_eol(s) \in 1 .. Len(s)
         /\ s[match_eol(s)] \in {CR, LF}
         /\ s[match_eol(s)] = CR /\ match_eol(s) < Len(s) => s[match_eol(s) + 1] # LF
         /\ \A k \in 1 .. match_eol(s) :
                s[k] \in {CR, LF} => \/ k = match_eol(s)
                                     \/ k + 1 = match_eol(s) /\ s[k] = CR /\ s[k + 1] = LF
<1> DEFINE i == CHOOSE j \in Eols(s) : \A k \in Eols(s) : j <= k
<1>1. Eols(s) \subseteq Nat /\ Eols(s) # {}
  BY DEF HasLine, Eols
<1>2. \E j \in Eols(s) : \A k \in Eols(s) : j <= k
  BY <1>1, LeastNumber
<1>3. i \in Eols(s) /\ \A k \in Eols(s) : i <= k
  BY <1>2
<1>4. match_eol(s) = IF s[i] = CR /\ i < Len(s) /\ s[i + 1] = LF THEN i + 1 ELSE i
  BY DEF match_eol
<1> HIDE DEF i
<1>5. i \in 1 .. Len(s) /\ s[i] \in {CR, LF} /\ \A k \in 1 .. Len(s) : s[k] \in {CR, LF} => i <= k
  BY <1>3 DEF Eols
<1>6. CASE s[i] = CR /\ i < Len(s) /\ s[i + 1] = LF
  <2>1. match_eol(s) = i + 1 /\ i + 1 \in 1 .. Len(s)
    BY <1>4, <1>5, <1>6
  <2> QED
    BY <1>5, <1>6, <2>1, LineEnds
<1>7. CASE ~(s[i] = CR /\ i < Len(s) /\ s[i + 1] = LF)
  <2>1. match_eol(s) = i
    BY <1>4, <1>7
  <2> QED
    BY <1>5, <1>7, <2>1
<1> QED
  BY <1>6, <1>7

\* A line taken from the buffer, and what it leaves.
LEMMA Taken ==
  ASSUME buffer_ \in Seq(Tokens), HasLine(buffer_)
  PROVE  /\ match_eol(buffer_) \in 1 .. Len(buffer_)
         /\ Line \in Seq(Tokens) /\ Len(Line) = match_eol(buffer_)
         /\ \A i \in 1 .. Len(Line) : Line[i] = buffer_[i]
         /\ Rest \in Seq(Tokens) /\ Len(Rest) = Len(buffer_) - match_eol(buffer_)
         /\ \A i \in 1 .. Len(Rest) : Rest[i] = buffer_[match_eol(buffer_) + i]
         /\ Line \o Rest = buffer_
<1> DEFINE n == match_eol(buffer_)
<1>1. n \in 1 .. Len(buffer_)
  BY MatchEol
<1> HIDE DEF n
<1>2. n \in 0 .. Len(buffer_)
  BY <1>1
<1>3. Line = SubSeq(buffer_, 1, n) /\ Rest = SubSeq(buffer_, n + 1, Len(buffer_))
  BY DEF Line, Rest, n
<1>4. /\ Line \in Seq(Tokens) /\ Len(Line) = n
      /\ \A i \in 1 .. n : Line[i] = buffer_[i]
      /\ Rest \in Seq(Tokens) /\ Len(Rest) = Len(buffer_) - n
      /\ \A i \in 1 .. Len(buffer_) - n : Rest[i] = buffer_[n + i]
      /\ Line \o Rest = buffer_
  BY <1>2, <1>3, Cut
<1> QED
  BY <1>1, <1>4 DEF n

\* Without its line end a reply is still tokens,
LEMMA StripType ==
  ASSUME NEW s \in Seq(Tokens)
  PROVE  Strip(s) \in Seq(Tokens)
<1> DEFINE n == Len(s)
<1>1. CASE n > 1 /\ s[n] = LF /\ s[n - 1] = CR
  <2>1. Strip(s) = SubSeq(s, 1, n - 2) /\ n - 2 \in 0 .. n
    BY <1>1 DEF Strip
  <2> QED
    BY <2>1, Cut
<1>2. CASE ~(n > 1 /\ s[n] = LF /\ s[n - 1] = CR) /\ n > 0 /\ s[n] \in {CR, LF}
  <2>1. Strip(s) = SubSeq(s, 1, n - 1) /\ n - 1 \in 0 .. n
    BY <1>2 DEF Strip
  <2> QED
    BY <2>1, Cut
<1>3. CASE ~(n > 1 /\ s[n] = LF /\ s[n - 1] = CR) /\ ~(n > 0 /\ s[n] \in {CR, LF})
  BY <1>3 DEF Strip
<1> QED
  BY <1>1, <1>2, <1>3

\* so that recv() returns a code and a text.
LEMMA ReplyType ==
  ASSUME NEW s \in Seq(Tokens), Len(s) > 0
  PROVE  Reply(s) \in [code : Nat, text : Seq(Tokens)]
<1>1. s[1] \in Tokens
  OBVIOUS
<1>2. s[1].code \in Nat
  BY <1>1 DEF Tokens
<1> QED
  BY <1>2, StripType DEF Reply

\* The server speaks in replies.
LEMMA ReplyIsTokens ==
  ASSUME NEW r \in Replies
  PROVE  r \in Seq(Tokens) /\ WellFormed(r)
BY RepliesAssumption

\* The variables keep their types, in every step.
LEMMA TypeNext == TypeOK /\ [Next]_vars => TypeOK'
<1> SUFFICES ASSUME TypeOK, [Next]_vars PROVE TypeOK'
  OBVIOUS
<1> USE DEF TypeOK
<1>0. MaxSize \in Nat /\ Exception \in [code : Nat, text : Seq(Tokens)]
  BY RepliesAssumption DEF Exception
<1>1. CASE connect
  <2>1. clean' \in BOOLEAN
    BY <1>1 DEF connect
  <2> QED
    BY <1>1, <2>1 DEF connect
<1>2. CASE disconnect
  BY <1>2 DEF disconnect
<1>3. CASE recv
  BY <1>3 DEF recv
<1>4. CASE Read
  <2>1. PICK n \in 1 .. Len(wire) : /\ Len(buffer_) + n <= MaxSize
                                    /\ buffer_' = buffer_ \o SubSeq(wire, 1, n)
                                    /\ wire' = SubSeq(wire, n + 1, Len(wire))
    BY <1>4 DEF Read
  <2>2. n \in 0 .. Len(wire) /\ n \in Nat
    BY <2>1
  <2>3. /\ SubSeq(wire, 1, n) \in Seq(Tokens) /\ Len(SubSeq(wire, 1, n)) = n
        /\ SubSeq(wire, n + 1, Len(wire)) \in Seq(Tokens)
    BY <2>2, Cut
  <2>4. buffer_' \in Seq(Tokens) /\ Len(buffer_') <= MaxSize /\ wire' \in Seq(Tokens)
    BY <2>1, <2>2, <2>3
  <2>5. UNCHANGED <<socket_, peer, pc, status_string, result>> /\ (clean' <=> clean)
    BY <1>4, Zenon DEF Read
  <2> QED
    BY <2>4, <2>5
<1>5. CASE EndOfFile \/ ReadFails
  <2>1. Throw
    BY <1>5 DEF EndOfFile, ReadFails
  <2>2. UNCHANGED <<buffer_, socket_, wire, peer>> /\ (clean' <=> clean)
    BY <2>1, Zenon DEF Throw
  <2> QED
    BY <1>0, <2>1, <2>2 DEF Throw
<1>6. ASSUME HasLine(buffer_)
      PROVE  /\ Line \in Seq(Tokens) /\ Len(Line) > 0
             /\ Rest \in Seq(Tokens) /\ Len(Rest) <= MaxSize
  BY <1>0, <1>6, Taken
<1>7. ASSUME HasLine(buffer_), NEW s \in Seq(Tokens), Len(s) > 0, Return(s)
      PROVE  TypeOK'
  <2>1. peer' = peer /\ pc' = "idle" /\ status_string' = <<>> /\ buffer_' = Rest
    BY <1>7 DEF Return
  <2>5. result' = Reply(s)
    BY <1>7, Zenon DEF Return
  <2>2. socket_' \in {"closed", "open"} /\ wire' \in Seq(Tokens)
    <3>1. CASE s[1].code = 421
      BY <1>7, <3>1 DEF Return
    <3>2. CASE s[1].code # 421
      BY <1>7, <3>2 DEF Return
    <3> QED
      BY <3>1, <3>2
  <2>3. clean' \in BOOLEAN
    BY <1>7 DEF Return
  <2>4. result' \in [code : Nat, text : Seq(Tokens)]
    BY <1>7, <2>5, ReplyType
  <2> QED
    BY <1>6, <1>7, <2>1, <2>2, <2>3, <2>4
<1>8. CASE FirstLine
  <2>1. HasLine(buffer_)
    BY <1>8 DEF FirstLine
  <2>2. CASE Return(Line)
    BY <1>6, <1>7, <2>1, <2>2
  <2>3. CASE Line[1].code = 0
    <3>1. pc' = "idle" /\ buffer_' = Rest /\ result' = Exception
      BY <1>8, <2>3 DEF FirstLine
    <3>2. UNCHANGED <<socket_, wire, peer, status_string, clean>>
      BY <1>8, <2>3 DEF FirstLine
    <3>3. UNCHANGED <<socket_, wire, peer, status_string>> /\ (clean' <=> clean)
      BY <3>2, Zenon
    <3> QED
      BY <1>0, <1>6, <1>8, <2>1, <3>1, <3>3 DEF FirstLine
  <2>4. CASE Line[1].code > 0 /\ Line[1].next = "-"
    <3>1. pc' = "more" /\ buffer_' = Rest /\ status_string' = Line
      BY <1>8, <2>4 DEF FirstLine, Return
    <3>2. UNCHANGED <<socket_, wire, peer, result, clean>>
      BY <1>8, <2>4 DEF FirstLine, Return
    <3>3. UNCHANGED <<socket_, wire, peer, result>> /\ (clean' <=> clean)
      BY <3>2, Zenon
    <3>4. Line # <<>> /\ Line \in Seq(Tokens) /\ Rest \in Seq(Tokens) /\ Len(Rest) <= MaxSize
      BY <1>6, <2>1
    <3>5. status_string' \in Seq(Tokens) /\ (pc' = "more" <=> status_string' # <<>>)
      BY <3>1, <3>4
    <3> QED
      BY <3>1, <3>3, <3>4, <3>5
  <2> QED
    BY <1>8, <2>2, <2>3, <2>4 DEF FirstLine
<1>9. CASE MoreLines
  <2>1. HasLine(buffer_) /\ pc = "more" /\ status_string # <<>>
    BY <1>9 DEF MoreLines
  <2>2. status_string \o Line \in Seq(Tokens) /\ Len(status_string \o Line) > 0
    BY <1>6, <2>1
  <2>3. CASE is_last_line
    BY <1>7, <1>9, <2>1, <2>2, <2>3 DEF MoreLines
  <2>4. CASE ~is_last_line
    <3>1. /\ status_string' = status_string \o Line /\ buffer_' = Rest
          /\ UNCHANGED <<socket_, wire, peer, pc, result>>
      BY <1>9, <2>4 DEF MoreLines
    <3>2. clean' <=> clean
      BY <1>9, <2>4, Zenon DEF MoreLines
    <3>3. status_string' # <<>>
      BY <2>2, <3>1
    <3> QED
      BY <1>6, <2>1, <2>2, <3>1, <3>2, <3>3
  <2> QED
    BY <2>3, <2>4
<1>10. ASSUME NEW r \in Replies, Write(r) PROVE TypeOK'
  <2>1. r \in Seq(Tokens)
    BY ReplyIsTokens
  <2>2. UNCHANGED <<buffer_, socket_, peer, pc, status_string, result>> /\ (clean' <=> clean)
    BY <1>10, Zenon DEF Write
  <2> QED
    BY <1>10, <2>1, <2>2 DEF Write
<1>11. CASE Hang
  <2>1. PICK n \in 0 .. Len(wire) : wire' = SubSeq(wire, 1, n)
    BY <1>11 DEF Hang
  <2>2. wire' \in Seq(Tokens)
    BY <2>1, Cut
  <2>3. UNCHANGED <<buffer_, socket_, pc, status_string, result>> /\ (clean' <=> clean)
    BY <1>11, Zenon DEF Hang
  <2> QED
    BY <1>11, <2>2, <2>3 DEF Hang
<1>12. CASE UNCHANGED vars
  <2>1. UNCHANGED <<buffer_, socket_, wire, peer, pc, status_string, result>> /\ (clean' <=> clean)
    BY <1>12, Zenon DEF vars
  <2> QED
    BY <2>1
<1> QED
  BY <1>1, <1>2, <1>3, <1>4, <1>5, <1>8, <1>9, <1>10, <1>11, <1>12 DEF Next, RecvStep

\* Every variable keeps its type; buffer_ never grows beyond the limit.
THEOREM TypeCorrect == Spec => []TypeOK
<1>1. Init => TypeOK
  <2> SUFFICES ASSUME Init PROVE TypeOK
    OBVIOUS
  <2>1. MaxSize \in Nat /\ Exception \in [code : Nat, text : Seq(Tokens)]
    BY RepliesAssumption DEF Exception
  <2> QED
    BY <2>1 DEF Init, TypeOK
<1> QED
  BY <1>1, TypeNext, PTL DEF Spec

--------------------------------------------------------------------------------
(* Replies one after the other.                                            *)

Streams ==
    {s \in Seq(Tokens) : \A W \in SUBSET Seq(Tokens) :
        (<<>> \in W /\ \A w \in W, r \in Replies : r \o w \in W) => s \in W}

\* The set is built from the empty sequence, a reply at a time.
LEMMA StreamsBuilt ==
  /\ Streams \subseteq Seq(Tokens) /\ <<>> \in Streams
  /\ \A w \in Streams, r \in Replies : r \o w \in Streams
<1>1. Streams \subseteq Seq(Tokens) /\ <<>> \in Streams
  BY DEF Streams
<1>2. ASSUME NEW w \in Streams, NEW r \in Replies PROVE r \o w \in Streams
  <2>1. w \in Seq(Tokens) /\ r \in Seq(Tokens)
    BY <1>1, ReplyIsTokens
  <2>2. r \o w \in Seq(Tokens)
    BY <2>1
  <2>3. ASSUME NEW W \in SUBSET Seq(Tokens), <<>> \in W, \A v \in W, q \in Replies : q \o v \in W
        PROVE  r \o w \in W
    <3>1. w \in W
      BY <2>3 DEF Streams
    <3> QED
      BY <2>3, <3>1
  <2> QED
    BY <2>2, <2>3 DEF Streams
<1> QED
  BY <1>1, <1>2

\* It holds nothing else.
LEMMA StreamsInduction ==
  ASSUME NEW W, <<>> \in W, \A w \in W \cap Streams, r \in Replies : r \o w \in W
  PROVE  Streams \subseteq W
<1> DEFINE V == W \cap Streams
<1>1. V \in SUBSET Seq(Tokens) /\ <<>> \in V /\ \A w \in V, r \in Replies : r \o w \in V
  BY StreamsBuilt
<1>2. \A s \in Streams : s \in V
  <2> HIDE DEF V
  <2> QED
    BY <1>1 DEF Streams
<1> QED
  BY <1>2

\* A member that is not empty begins with a reply.
LEMMA StreamsInverted ==
  ASSUME NEW s \in Streams, s # <<>>
  PROVE  \E r \in Replies, t \in Streams : s = r \o t
<1> DEFINE W == {<<>>} \cup {w \in Streams : \E r \in Replies, t \in Streams : w = r \o t}
<1>1. \A w \in W \cap Streams, r \in Replies : r \o w \in W
  BY StreamsBuilt
<1>2. Streams \subseteq W
  <2>1. <<>> \in W
    OBVIOUS
  <2> HIDE DEF W
  <2> QED
    BY <1>1, <2>1, StreamsInduction
<1> QED
  BY <1>2

\* One more reply may be written after the others.
LEMMA StreamsGrow ==
  ASSUME NEW s \in Streams, NEW r \in Replies
  PROVE  s \o r \in Streams
<1> DEFINE W == {w \in Seq(Tokens) : w \o r \in Streams}
<1>1. r \in Seq(Tokens)
  BY ReplyIsTokens
<1>2. <<>> \in W
  <2>1. <<>> \o r = r /\ r \o <<>> = r
    BY <1>1
  <2>2. r \o <<>> \in Streams
    BY StreamsBuilt
  <2> QED
    BY <2>1, <2>2
<1>3. ASSUME NEW w \in W, NEW q \in Replies PROVE q \o w \in W
  <2>1. q \in Seq(Tokens) /\ w \in Seq(Tokens)
    BY ReplyIsTokens
  <2>2. (q \o w) \o r = q \o (w \o r)
    BY <1>1, <2>1, ConcatAssociative
  <2>3. q \o (w \o r) \in Streams
    BY StreamsBuilt
  <2>4. q \o w \in Seq(Tokens)
    BY <2>1
  <2>5. (q \o w) \o r \in Streams
    BY <2>2, <2>3, Zenon
  <2> QED
    BY <2>4, <2>5, Zenon
<1>4. Streams \subseteq W
  <2> HIDE DEF W
  <2> QED
    BY <1>2, <1>3, StreamsInduction
<1> QED
  BY <1>4

--------------------------------------------------------------------------------
(* Where replies and their lines end.                                      *)

\* A token is its code and its character.
LEMMA WordFields == \A c, n : Word(c, n).code = c /\ Word(c, n).next = n
BY DEF Word

\* What WellFormed says of a reply.
LEMMA ReplyShape ==
  ASSUME NEW r \in Replies
  PROVE  /\ r \in Seq(Tokens) /\ Len(r) \in Nat /\ Len(r) > 1 /\ r # <<>>
         /\ r[1] \in Tokens /\ r[1].code \in Nat \ {0} /\ r[Len(r)] = LF
         /\ r[1].next # "-" => LineStarts(r) = {1} /\ LastLines(r) \subseteq {1}
         /\ r[1].next = "-" => LastLines(r) # {} /\ \A i \in LastLines(r) : i # 1
         /\ r[1].next = "-" => \A i \in LastLines(r), j \in LineStarts(r) : j <= i
<1>1. r \in Seq(Tokens) /\ WellFormed(r)
  BY ReplyIsTokens
<1>2. Len(r) \in Nat /\ Len(r) > 1 /\ r # <<>> /\ r[1] \in Tokens
  BY <1>1 DEF WellFormed
<1>3. r[1].code \in Nat \ {0}
  <2>1. r[1].code \in Nat
    BY <1>2 DEF Tokens
  <2>2. r[1].code > 0
    BY <1>1 DEF WellFormed
  <2> QED
    BY <2>1, <2>2
<1>4. \A i \in LastLines(r) : r[1].next = "-" => i # 1
  <2> TAKE i \in LastLines(r)
  <2>1. r[i] = Word(r[1].code, " ")
    BY DEF LastLines
  <2> DEFINE w == Word(r[1].code, " ")
  <2>2. w.next = " "
    BY WordFields
  <2> HIDE DEF w
  <2>3. r[i].next = w.next
    BY <2>1 DEF w
  <2> QED
    BY <2>2, <2>3
<1> QED
  BY <1>1, <1>2, <1>3, <1>4 DEF WellFormed, LastLines

\* A line starts at the first token and after every line end.
LEMMA LineStart ==
  ASSUME NEW r \in Seq(Tokens), NEW i
  PROVE  i \in LineStarts(r) <=>
            \/ i = 1
            \/ /\ i \in 2 .. Len(r)
               /\ r[i - 1] = LF \/ (r[i - 1] = CR /\ r[i] # LF)
<1> DEFINE ends == {j \in 1 .. Len(r) - 1 : r[j] = LF \/ (r[j] = CR /\ r[j + 1] # LF)}
<1>1. ASSUME NEW j \in ends PROVE j + 1 \in 2 .. Len(r) /\ (j + 1) - 1 = j
  OBVIOUS
<1>2. ASSUME i \in 2 .. Len(r) PROVE i - 1 \in 1 .. Len(r) - 1 /\ (i - 1) + 1 = i
  BY <1>2
<1>3. ASSUME i \in 2 .. Len(r), r[i - 1] = LF \/ (r[i - 1] = CR /\ r[i] # LF)
      PROVE  i \in {j + 1 : j \in ends}
  BY <1>2, <1>3
<1>4. ASSUME i \in {j + 1 : j \in ends}
      PROVE  i \in 2 .. Len(r) /\ (r[i - 1] = LF \/ (r[i - 1] = CR /\ r[i] # LF))
  BY <1>1, <1>4
<1>5. LineStarts(r) = {1} \cup {j + 1 : j \in ends}
  BY DEF LineStarts
<1> HIDE DEF ends
<1> QED
  BY <1>3, <1>4, <1>5

\* A line that starts in q starts in a longer r that begins like q; only a
\* line end may have been cut in two.
LEMMA LastLineKept ==
  ASSUME NEW q \in Replies, NEW r \in Replies, Len(q) <= Len(r),
         \A i \in 1 .. Len(q) - 1 : q[i] = r[i], q[1].next = "-"
  PROVE  \E i \in LastLines(q) : i \in LastLines(r) /\ i < Len(q) /\ q[i] \notin {CR, LF}
<1>1. /\ q \in Seq(Tokens) /\ Len(q) \in Nat /\ Len(q) > 1 /\ q[Len(q)] = LF
      /\ r \in Seq(Tokens) /\ Len(r) \in Nat /\ q[1] = r[1] /\ q[1].code \in Nat \ {0}
      /\ LastLines(q) # {}
  BY ReplyShape
<1>2. PICK i \in LastLines(q) : TRUE
  BY <1>1
<1>3. i \in LineStarts(q) /\ q[i] = Word(q[1].code, " ")
  BY DEF LastLines
<1>4. q[i] \notin {CR, LF}
  <2> DEFINE w == Word(q[1].code, " ")
  <2>2. w.code = q[1].code
    BY WordFields
  <2> HIDE DEF w
  <2>3. q[i].code = w.code
    BY <1>3 DEF w
  <2>1. q[i].code = q[1].code
    BY <2>2, <2>3
  <2> QED
    BY <1>1, <2>1, LineEnds
<1>5. i = 1 \/ (i \in 2 .. Len(q) /\ (q[i - 1] = LF \/ (q[i - 1] = CR /\ q[i] # LF)))
  BY <1>1, <1>3, LineStart
<1>6. i \in 1 .. Len(q) /\ i # Len(q)
  BY <1>1, <1>4, <1>5
<1>7. i \in 1 .. Len(q) - 1 /\ q[i] = r[i] /\ i < Len(q)
  BY <1>1, <1>6
<1>8. i = 1 \/ (i \in 2 .. Len(r) /\ (r[i - 1] = LF \/ (r[i - 1] = CR /\ r[i] # LF)))
  <2>1. CASE i # 1
    <3>1. i - 1 \in 1 .. Len(q) - 1 /\ i \in 2 .. Len(r)
      BY <1>1, <1>5, <1>7, <2>1
    <3>2. q[i - 1] = r[i - 1]
      BY <3>1
    <3> QED
      BY <1>5, <1>7, <2>1, <3>1, <3>2
  <2> QED
    BY <2>1
<1>9. i \in LineStarts(r)
  BY <1>1, <1>8, LineStart
<1> QED
  BY <1>1, <1>3, <1>4, <1>7, <1>9 DEF LastLines

\* No reply begins another, even when its last LF is left out after a CR.
LEMMA SameReply ==
  ASSUME NEW q \in Replies, NEW r \in Replies, Len(q) <= Len(r),
         \A i \in 1 .. Len(q) - 1 : q[i] = r[i],
         q[Len(q)] = r[Len(q)] \/ q[Len(q) - 1] = CR
  PROVE  q = r
<1> DEFINE n == Len(q)
<1>1. /\ q \in Seq(Tokens) /\ n \in Nat /\ n > 1 /\ q[n] = LF
      /\ r \in Seq(Tokens) /\ Len(r) \in Nat /\ r[Len(r)] = LF /\ q[1] = r[1]
  BY ReplyShape
<1> HIDE DEF n
<1>2. CASE Len(r) = n
  <2>1. \A i \in 1 .. n : q[i] = r[i]
    BY <1>1, <1>2 DEF n
  <2> QED
    BY <1>1, <1>2, <2>1, SeqEqual DEF n
<1>3. CASE n < Len(r)
  <2>1. ASSUME q[1].next = "-"
        PROVE  \E i \in LastLines(r) : i < n /\ q[i] \notin {CR, LF} /\ i \in Nat
    <3>1. PICK i \in LastLines(q) : i \in LastLines(r) /\ i < Len(q) /\ q[i] \notin {CR, LF}
      BY <2>1, LastLineKept
    <3>2. i \in LineStarts(q)
      BY DEF LastLines
    <3>3. i \in Nat
      BY <1>1, <3>2, LineStart
    <3> QED
      BY <3>1, <3>3 DEF n
  <2>2. \A j \in LineStarts(r) : (j \in Nat /\ j < n) \/ j = 1
    <3> TAKE j \in LineStarts(r)
    <3>1. CASE q[1].next = "-"
      <4>1. PICK i \in LastLines(r) : i < n /\ i \in Nat
        BY <2>1, <3>1
      <4>2. j <= i /\ (j = 1 \/ j \in 2 .. Len(r))
        BY <1>1, <3>1, <4>1, ReplyShape, LineStart
      <4> QED
        BY <1>1, <4>1, <4>2
    <3>2. CASE q[1].next # "-"
      BY <1>1, <3>2, ReplyShape
    <3> QED
      BY <3>1, <3>2
  <2>3. n \notin LineStarts(r) /\ n + 1 \notin LineStarts(r)
    BY <1>1, <2>2
  <2>4. n \in 2 .. Len(r) /\ n + 1 \in 2 .. Len(r) /\ (n + 1) - 1 = n /\ n - 1 \in 1 .. n - 1
    BY <1>1, <1>3
  <2>5. r[n] # LF
    BY <1>1, <2>3, <2>4, LineStart
  <2>6. r[n - 1] # CR
    BY <1>1, <2>3, <2>4, <2>5, LineStart
  <2>7. q[n - 1] = r[n - 1]
    BY <2>4 DEF n
  <2> QED
    BY <1>1, <2>5, <2>6, <2>7 DEF n
<1> QED
  BY <1>1, <1>2, <1>3 DEF n

--------------------------------------------------------------------------------
(* Decode.                                                                 *)

Results == [code : Nat, text : Seq(Tokens)]

\* What Decode makes of s, when it is f on what follows.
Decoded(f, s) ==
    IF \E r \in Replies : IsPrefix(r, s)
    THEN LET r == CHOOSE r \in Replies : IsPrefix(r, s)
         IN  <<Reply(r)>> \o f[SubSeq(s, Len(r) + 1, Len(s))]
    ELSE IF s # <<>> /\ Last(s) = CR /\ Append(s, LF) \in Replies
    THEN <<Reply(s)>>
    ELSE <<>>

\* It looks at f only on shorter sequences.
LEMMA DecodedLocal ==
  ASSUME NEW s \in Seq(Tokens), NEW f,
         \A u \in Seq(Tokens) : Len(u) < Len(s) => f[u] \in Seq(Results)
  PROVE  /\ Decoded(f, s) \in Seq(Results)
         /\ \A g : (\A u \in Seq(Tokens) : Len(u) < Len(s) => g[u] = f[u])
                       => Decoded(g, s) = Decoded(f, s)
<1>1. CASE \E r \in Replies : IsPrefix(r, s)
  <2> DEFINE r == CHOOSE r \in Replies : IsPrefix(r, s)
             u == SubSeq(s, Len(r) + 1, Len(s))
  <2>1. r \in Replies /\ IsPrefix(r, s)
    BY <1>1
  <2>2. \A g : Decoded(g, s) = <<Reply(r)>> \o g[u]
    BY <1>1 DEF Decoded
  <2> HIDE DEF r
  <2>3. r \in Seq(Tokens) /\ Len(r) \in 0 .. Len(s) /\ Len(r) > 0
    <3>1. r \in Seq(Tokens) /\ Len(r) > 1 /\ Len(r) \in Nat
      BY <2>1, ReplyShape
    <3>2. Len(r) <= Len(s)
      BY <2>1, <3>1, PrefixPointwise
    <3> QED
      BY <3>1, <3>2
  <2>4. u \in Seq(Tokens) /\ Len(u) = Len(s) - Len(r)
    BY <2>3, Cut
  <2>5. Len(u) < Len(s) /\ Reply(r) \in Results
    BY <2>3, <2>4, ReplyType DEF Results
  <2> HIDE DEF u
  <2>6. Decoded(f, s) \in Seq(Results)
    <3>1. f[u] \in Seq(Results) /\ <<Reply(r)>> \in Seq(Results)
      BY <2>4, <2>5
    <3>2. <<Reply(r)>> \o f[u] \in Seq(Results)
      BY <3>1
    <3> QED
      BY <2>2, <3>2, Zenon
  <2>7. ASSUME NEW g, \A v \in Seq(Tokens) : Len(v) < Len(s) => g[v] = f[v]
        PROVE  Decoded(g, s) = Decoded(f, s)
    <3>1. g[u] = f[u]
      BY <2>4, <2>5, <2>7
    <3> QED
      BY <2>2, <3>1, Zenon
  <2> QED
    BY <2>6, <2>7
<1>2. CASE ~\E r \in Replies : IsPrefix(r, s)
  <2> DEFINE d == IF s # <<>> /\ Last(s) = CR /\ Append(s, LF) \in Replies
                  THEN <<Reply(s)>> ELSE <<>>
  <2>1. \A g : Decoded(g, s) = d
    BY <1>2 DEF Decoded
  <2>2. s # <<>> => Len(s) > 0
    OBVIOUS
  <2>3. s # <<>> => Reply(s) \in Results
    BY <2>2, ReplyType DEF Results
  <2>4. d \in Seq(Results)
    BY <2>3
  <2> HIDE DEF d
  <2> QED
    BY <2>1, <2>4, Zenon
<1> QED
  BY <1>1, <1>2

\* There is such a function; so that Decode is one.
LEMMA DecodeExists == \E f \in [Seq(Tokens) -> Seq(Results)] : \A s \in Seq(Tokens) : f[s] = Decoded(f, s)
<1> DEFINE S == [Seq(Tokens) -> Seq(Results)]
           none == [s \in Seq(Tokens) |-> <<>>]
           step == [f \in S |-> [s \in Seq(Tokens) |-> Decoded(f, s)]]
<1>1. none \in S /\ step \in [S -> S]
  BY DecodedLocal
<1>2. PICK g \in [Nat -> S] : g[0] = none /\ \A i \in Nat : g[i + 1] = step[g[i]]
  <2> HIDE DEF S, none, step
  <2> QED
    BY <1>1, Iteration
<1>3. \A i \in Nat : g[i] \in S
  <2> HIDE DEF S
  <2> QED
    BY <1>2
<1>4. \A i \in Nat, s \in Seq(Tokens) : g[i + 1][s] = Decoded(g[i], s)
  <2> TAKE i \in Nat, s \in Seq(Tokens)
  <2>1. g[i + 1] = step[g[i]] /\ g[i] \in S
    BY <1>2, <1>3
  <2> QED
    BY <2>1
<1> HIDE DEF none, step
\* What a sequence decodes to does not change any more after as many steps.
<1>5. \A i \in Nat, s \in Seq(Tokens) : Len(s) < i => g[i + 1][s] = g[i][s]
  <2> DEFINE T == {i \in Nat : \A s \in Seq(Tokens) : Len(s) < i => g[i + 1][s] = g[i][s]}
  <2>1. 0 \in T
    OBVIOUS
  <2>2. \A i \in T : i + 1 \in T
    <3> TAKE i \in T
    <3>0. i \in Nat /\ i + 1 \in Nat
      OBVIOUS
    <3> SUFFICES ASSUME NEW s \in Seq(Tokens), Len(s) < i + 1
                 PROVE  g[(i + 1) + 1][s] = g[i + 1][s]
      BY <3>0
    <3>1. i \in Nat /\ i + 1 \in Nat /\ \A u \in Seq(Tokens) : Len(u) < i => g[i + 1][u] = g[i][u]
      OBVIOUS
    <3>2. \A u \in Seq(Tokens) : Len(u) < Len(s) => g[i + 1][u] = g[i][u]
      <4> TAKE u \in Seq(Tokens)
      <4>1. Len(u) < Len(s) => Len(u) < i
        BY <3>1
      <4> QED
        BY <3>1, <4>1
    <3>3. g[i + 1] \in S /\ g[i] \in S
      BY <1>3, <3>1
    <3>4. Decoded(g[i + 1], s) = Decoded(g[i], s)
      BY <3>2, <3>3, DecodedLocal
    <3> QED
      BY <1>4, <3>1, <3>4
  <2>3. T \subseteq Nat
    OBVIOUS
  <2>4. T = Nat
    <3> HIDE DEF T
    <3> QED
      BY <2>1, <2>2, <2>3, Induction
  <2> QED
    BY <2>4
<1>6. \A s \in Seq(Tokens), k \in Nat : g[Len(s) + 1 + k][s] = g[Len(s) + 1][s]
  <2> TAKE s \in Seq(Tokens)
  <2> DEFINE T == {k \in Nat : g[Len(s) + 1 + k][s] = g[Len(s) + 1][s]}
  <2>0. Len(s) \in Nat
    OBVIOUS
  <2>1. 0 \in T
    BY <2>0
  <2>2. \A k \in T : k + 1 \in T
    <3> TAKE k \in T
    <3>1. k \in Nat /\ g[Len(s) + 1 + k][s] = g[Len(s) + 1][s] /\ k + 1 \in Nat
      OBVIOUS
    <3>2. Len(s) + 1 + k \in Nat /\ Len(s) < Len(s) + 1 + k /\ Len(s) + 1 + (k + 1) = (Len(s) + 1 + k) + 1
      BY <2>0, <3>1
    <3>3. g[(Len(s) + 1 + k) + 1][s] = g[Len(s) + 1 + k][s]
      BY <1>5, <3>2
    <3> QED
      BY <3>1, <3>2, <3>3
  <2>3. T \subseteq Nat
    OBVIOUS
  <2>4. T = Nat
    <3> HIDE DEF T
    <3> QED
      BY <2>1, <2>2, <2>3, Induction
  <2> QED
    BY <2>4
<1> DEFINE f == [s \in Seq(Tokens) |-> g[Len(s) + 1][s]]
<1>7. f \in S
  <2>1. \A s \in Seq(Tokens) : g[Len(s) + 1][s] \in Seq(Results)
    <3> TAKE s \in Seq(Tokens)
    <3>1. Len(s) + 1 \in Nat
      OBVIOUS
    <3>2. g[Len(s) + 1] \in S
      BY <1>3, <3>1
    <3> QED
      BY <3>2
  <2> QED
    BY <2>1
<1>8. \A s \in Seq(Tokens) : f[s] = Decoded(f, s)
  <2> TAKE s \in Seq(Tokens)
  <2>1. Len(s) \in Nat
    OBVIOUS
  <2>2. f[s] = Decoded(g[Len(s)], s)
    BY <1>4, <2>1
  <2>3. \A u \in Seq(Tokens) : Len(u) < Len(s) => f[u] = g[Len(s)][u]
    <3> TAKE u \in Seq(Tokens)
    <3> HAVE Len(u) < Len(s)
    <3>1. Len(s) - (Len(u) + 1) \in Nat /\ Len(u) + 1 + (Len(s) - (Len(u) + 1)) = Len(s)
      BY <2>1
    <3>2. g[Len(u) + 1 + (Len(s) - (Len(u) + 1))][u] = g[Len(u) + 1][u]
      BY <1>6, <3>1
    <3> QED
      BY <3>1, <3>2
  <2>4. g[Len(s)] \in S
    BY <1>3, <2>1
  <2> HIDE DEF f
  <2> QED
    BY <1>7, <2>2, <2>3, <2>4, DecodedLocal
<1> QED
  BY <1>7, <1>8

\* Decode is what its definition says it is.
LEMMA DecodeIs ==
  ASSUME NEW s \in Seq(Tokens)
  PROVE  Decode[s] = Decoded(Decode, s) /\ Decode[s] \in Seq(Results)
<1> DEFINE Solves(f) == f = [u \in Seq(Tokens) |->
               IF \E r \in Replies : IsPrefix(r, u)
               THEN LET r == CHOOSE r \in Replies : IsPrefix(r, u)
                    IN  <<Reply(r)>> \o f[SubSeq(u, Len(r) + 1, Len(u))]
               ELSE IF u # <<>> /\ Last(u) = CR /\ Append(u, LF) \in Replies
               THEN <<Reply(u)>>
               ELSE <<>>]
<1>1. \A f : Solves(f) <=> f = [u \in Seq(Tokens) |-> Decoded(f, u)]
  BY DEF Decoded
<1>2. PICK f \in [Seq(Tokens) -> Seq(Results)] : \A u \in Seq(Tokens) : f[u] = Decoded(f, u)
  BY DecodeExists
<1>3. f = [u \in Seq(Tokens) |-> Decoded(f, u)]
  BY <1>2
<1>4. Decode = CHOOSE g : Solves(g)
  BY DEF Decode
<1> HIDE DEF Solves
<1>5. Solves(Decode)
  BY <1>1, <1>3, <1>4
<1>6. Decode = [u \in Seq(Tokens) |-> Decoded(Decode, u)]
  BY <1>1, <1>5
<1>7. \A u \in Seq(Tokens) : Decode[u] = Decoded(Decode, u)
  BY <1>6
<1> DEFINE T == {n \in Nat : \A u \in Seq(Tokens) : Len(u) < n => Decode[u] \in Seq(Results)}
<1>8. 0 \in T
  OBVIOUS
<1>9. \A n \in T : n + 1 \in T
  <2> TAKE n \in T
  <2>0. n \in Nat /\ n + 1 \in Nat /\ \A u \in Seq(Tokens) : Len(u) < n => Decode[u] \in Seq(Results)
    OBVIOUS
  <2> HIDE DEF T
  <2>1. ASSUME NEW u \in Seq(Tokens), Len(u) < n + 1 PROVE Decode[u] \in Seq(Results)
    <3>1. \A v \in Seq(Tokens) : Len(v) < Len(u) => Decode[v] \in Seq(Results)
      <4> TAKE v \in Seq(Tokens)
      <4>1. Len(v) < Len(u) => Len(v) < n
        BY <2>0, <2>1
      <4> QED
        BY <2>0, <4>1
    <3>2. Decoded(Decode, u) \in Seq(Results)
      BY <3>1, DecodedLocal
    <3> QED
      BY <1>7, <3>2
  <2> QED
    BY <2>0, <2>1 DEF T
<1>10. T = Nat
  <2>1. T \subseteq Nat
    OBVIOUS
  <2> HIDE DEF T
  <2> QED
    BY <1>8, <1>9, <2>1, Induction
<1>11. Len(s) + 1 \in T /\ Len(s) < Len(s) + 1
  <2>1. Len(s) + 1 \in Nat /\ Len(s) < Len(s) + 1
    OBVIOUS
  <2> HIDE DEF T
  <2> QED
    BY <1>10, <2>1
<1> QED
  BY <1>7, <1>11

\* Two prefixes of one sequence.
LEMMA BothPrefixes ==
  ASSUME NEW q \in Replies, NEW r \in Replies, NEW s \in Seq(Tokens), IsPrefix(q, s), IsPrefix(r, s)
  PROVE  q = r
<1>1. /\ q \in Seq(Tokens) /\ r \in Seq(Tokens) /\ Len(q) \in Nat /\ Len(r) \in Nat /\ Len(q) > 1 /\ Len(r) > 1
  BY ReplyShape
<1>2. /\ Len(q) <= Len(s) /\ \A i \in 1 .. Len(q) : q[i] = s[i]
      /\ Len(r) <= Len(s) /\ \A i \in 1 .. Len(r) : r[i] = s[i]
  BY <1>1, PrefixPointwise
<1>3. CASE Len(q) <= Len(r)
  <2>1. \A i \in 1 .. Len(q) : q[i] = r[i]
    BY <1>1, <1>2, <1>3
  <2>2. q[Len(q)] = r[Len(q)] /\ \A i \in 1 .. Len(q) - 1 : q[i] = r[i]
    BY <1>1, <2>1
  <2> QED
    BY <1>3, <2>2, SameReply
<1>4. CASE Len(r) <= Len(q)
  <2>1. \A i \in 1 .. Len(r) : r[i] = q[i]
    BY <1>1, <1>2, <1>4
  <2>2. r[Len(r)] = q[Len(r)] /\ \A i \in 1 .. Len(r) - 1 : r[i] = q[i]
    BY <1>1, <2>1
  <2> QED
    BY <1>4, <2>2, SameReply
<1> QED
  BY <1>1, <1>3, <1>4

\* A whole reply at the front.
LEMMA DecodeReply ==
  ASSUME NEW r \in Replies, NEW t \in Seq(Tokens)
  PROVE  Decode[r \o t] = <<Reply(r)>> \o Decode[t]
<1> DEFINE s == r \o t
           q == CHOOSE x \in Replies : IsPrefix(x, s)
<1>1. r \in Seq(Tokens)
  BY ReplyShape
<1>2. s \in Seq(Tokens) /\ IsPrefix(r, s) /\ SubSeq(s, Len(r) + 1, Len(s)) = t
  BY <1>1, Joined, PrefixOfConcatenation, RestOfJoined
<1> HIDE DEF s
<1>3. q = r
  <2>1. q \in Replies /\ IsPrefix(q, s)
    BY <1>2
  <2> HIDE DEF q
  <2> QED
    BY <1>2, <2>1, BothPrefixes
<1>4. Decoded(Decode, s) = <<Reply(q)>> \o Decode[SubSeq(s, Len(q) + 1, Len(s))]
  BY <1>2 DEF Decoded
<1> HIDE DEF q
<1>5. Decode[s] = <<Reply(r)>> \o Decode[t]
  BY <1>2, <1>3, <1>4, DecodeIs
<1> QED
  BY <1>5 DEF s

\* A reply is left without its last LF, or with less.
LEMMA DecodeCut ==
  ASSUME NEW s \in Seq(Tokens), \A q \in Replies : ~IsPrefix(q, s)
  PROVE  Decode[s] = IF s # <<>> /\ Last(s) = CR /\ Append(s, LF) \in Replies
                     THEN <<Reply(s)>> ELSE <<>>
BY DecodeIs DEF Decoded

\* Without a line end there is no reply.
LEMMA DecodeNoLine ==
  ASSUME NEW s \in Seq(Tokens), ~HasLine(s)
  PROVE  Decode[s] = <<>>
<1>1. \A i \in 1 .. Len(s) : s[i] \notin {CR, LF}
  BY DEF HasLine, Eols
<1>2. ASSUME NEW q \in Replies, IsPrefix(q, s) PROVE FALSE
  <2>1. q \in Seq(Tokens) /\ Len(q) \in Nat /\ Len(q) > 1 /\ q[Len(q)] = LF
    BY ReplyShape
  <2>2. Len(q) <= Len(s) /\ \A i \in 1 .. Len(q) : q[i] = s[i]
    BY <1>2, <2>1, PrefixPointwise
  <2>3. Len(q) \in 1 .. Len(q) /\ Len(q) \in 1 .. Len(s)
    BY <2>1, <2>2
  <2> QED
    BY <1>1, <2>1, <2>2, <2>3
<1>3. s # <<>> => Last(s) # CR
  <2> SUFFICES ASSUME s # <<>> PROVE Last(s) # CR
    OBVIOUS
  <2>1. Last(s) = s[Len(s)] /\ Len(s) \in Nat \ {0}
    BY Ends
  <2>2. Len(s) \in 1 .. Len(s)
    BY <2>1
  <2> QED
    BY <1>1, <2>1, <2>2
<1> QED
  BY <1>2, <1>3, DecodeCut

\* A reply without its last LF is returned as the reply.
LEMMA ReplyOfCut ==
  ASSUME NEW s \in Seq(Tokens), s # <<>>, Last(s) = CR
  PROVE  Reply(Append(s, LF)) = Reply(s)
<1> DEFINE n == Len(s)
           a == Append(s, LF)
<1>1. /\ n \in Nat \ {0} /\ s[n] = CR /\ a \in Seq(Tokens) /\ Len(a) = n + 1 /\ a[n + 1] = LF
      /\ \A i \in 1 .. n : a[i] = s[i]
  BY Ends, LineEnds
<1> HIDE DEF a
<1>2. Strip(s) = SubSeq(s, 1, n - 1)
  BY <1>1, LineEnds DEF Strip
<1>3. Strip(a) = SubSeq(a, 1, n - 1)
  <2>1. Len(a) > 1 /\ a[Len(a)] = LF /\ a[Len(a) - 1] = CR /\ Len(a) - 2 = n - 1
    BY <1>1
  <2> QED
    BY <2>1 DEF Strip
<1> DEFINE u == SubSeq(s, 1, n - 1)
           v == SubSeq(a, 1, n - 1)
<1>4. n - 1 \in 0 .. Len(s) /\ n - 1 \in 0 .. Len(a)
  BY <1>1
<1>5. /\ u \in Seq(Tokens) /\ Len(u) = n - 1 /\ \A i \in 1 .. n - 1 : u[i] = s[i]
      /\ v \in Seq(Tokens) /\ Len(v) = n - 1 /\ \A i \in 1 .. n - 1 : v[i] = a[i]
  <2> DEFINE m == n - 1
  <2>1. m \in 0 .. Len(s) /\ m \in 0 .. Len(a) /\ s \in Seq(Tokens) /\ a \in Seq(Tokens)
    BY <1>1, <1>4
  <2> HIDE DEF m
  <2>2. /\ SubSeq(s, 1, m) \in Seq(Tokens) /\ Len(SubSeq(s, 1, m)) = m
        /\ \A i \in 1 .. m : SubSeq(s, 1, m)[i] = s[i]
    BY <2>1, Cut
  <2>3. /\ SubSeq(a, 1, m) \in Seq(Tokens) /\ Len(SubSeq(a, 1, m)) = m
        /\ \A i \in 1 .. m : SubSeq(a, 1, m)[i] = a[i]
    BY <2>1, Cut
  <2> QED
    BY <2>2, <2>3 DEF m
<1> HIDE DEF u, v, n
<1>6. \A i \in 1 .. n - 1 : u[i] = v[i]
  BY <1>1, <1>5
<1>7. u = v
  BY <1>5, <1>6, SeqEqual
<1>8. a[1] = s[1]
  BY <1>1
<1>9. Strip(a) = Strip(s)
  BY <1>2, <1>3, <1>7 DEF u, v
<1> QED
  BY <1>8, <1>9, Zenon DEF Reply, a

--------------------------------------------------------------------------------
(* Streams, decoded.                                                       *)

\* What is decoded first, from the beginning of a stream.
LEMMA DecodeHead ==
  ASSUME NEW r \in Replies, NEW t \in Seq(Tokens), NEW u \in Seq(Tokens),
         IsPrefix(u, r \o t), Decode[u] # <<>>
  PROVE  /\ Head(Decode[u]) = Reply(r)
         /\ Len(u) < Len(r) => Decode[u] = <<Reply(r)>> /\ Append(u, LF) = r /\ Last(u) = CR
<1> DEFINE w == r \o t
<1>1. /\ r \in Seq(Tokens) /\ Len(r) \in Nat /\ Len(u) \in Nat
  BY ReplyShape
<1>2. w \in Seq(Tokens) /\ IsPrefix(r, w) /\ \A i \in 1 .. Len(r) : w[i] = r[i]
  BY <1>1, Joined, PrefixOfConcatenation
<1>3. IsPrefix(u, w)
  OBVIOUS
<1> HIDE DEF w
<1>4. Len(u) <= Len(w) /\ \A i \in 1 .. Len(u) : u[i] = w[i]
  BY <1>2, <1>3, PrefixPointwise
<1>5. CASE \E q \in Replies : IsPrefix(q, u)
  <2>1. PICK q \in Replies : IsPrefix(q, u)
    BY <1>5
  <2>2. q = r
    <3>1. q \in Seq(Tokens)
      BY ReplyShape
    <3>2. IsPrefix(q, w)
      BY <1>2, <1>3, <2>1, <3>1, PrefixTransitive
    <3> QED
      BY <1>2, <3>2, BothPrefixes
  <2>3. Len(r) <= Len(u) /\ \A i \in 1 .. Len(r) : r[i] = u[i]
    BY <1>1, <2>1, <2>2, PrefixPointwise
  <2> DEFINE v == SubSeq(u, Len(r) + 1, Len(u))
             b == SubSeq(u, 1, Len(r))
  <2>4. Len(r) \in 0 .. Len(u)
    BY <1>1, <2>3
  <2>5. v \in Seq(Tokens) /\ b \o v = u /\ b \in Seq(Tokens) /\ Len(b) = Len(r)
        /\ \A i \in 1 .. Len(r) : b[i] = u[i]
    BY <2>4, Cut
  <2> HIDE DEF v, b
  <2>6. b = r
    <3>1. \A i \in 1 .. Len(r) : b[i] = r[i]
      BY <2>3, <2>5
    <3> QED
      BY <1>1, <2>5, <3>1, SeqEqual
  <2>7. Decode[u] = <<Reply(r)>> \o Decode[v] /\ Decode[v] \in Seq(Results)
    BY <2>5, <2>6, DecodeReply, DecodeIs
  <2>8. Reply(r) \in Results
    BY ReplyShape, ReplyType DEF Results
  <2>9. Head(<<Reply(r)>> \o Decode[v]) = Reply(r)
    BY <2>7, <2>8
  <2> QED
    BY <1>1, <2>3, <2>7, <2>9
<1>6. CASE \A q \in Replies : ~IsPrefix(q, u)
  <2> DEFINE a == Append(u, LF)
  <2>1. u # <<>> /\ Last(u) = CR /\ a \in Replies /\ Decode[u] = <<Reply(u)>>
    BY <1>6, DecodeCut
  <2>2. ~(Len(r) <= Len(u))
    <3>1. ASSUME Len(r) <= Len(u) PROVE FALSE
      <4>1. \A i \in 1 .. Len(r) : r[i] = u[i]
        BY <1>1, <1>2, <1>4, <3>1
      <4>2. IsPrefix(r, u)
        BY <1>1, <3>1, <4>1, PrefixPointwise
      <4> QED
        BY <1>6, <4>2
    <3> QED
      BY <3>1
  <2>3. /\ Len(a) = Len(u) + 1 /\ Len(u) \in Nat \ {0} /\ Last(u) = u[Len(u)]
        /\ \A i \in 1 .. Len(u) : a[i] = u[i]
    BY <2>1, Ends, LineEnds
  <2>4. Len(a) <= Len(r) /\ Len(a) - 1 = Len(u) /\ a[Len(a) - 1] = CR
    BY <1>1, <2>1, <2>2, <2>3
  <2>5. \A i \in 1 .. Len(a) - 1 : a[i] = r[i]
    <3> HIDE DEF a
    <3> SUFFICES ASSUME NEW i \in 1 .. Len(u) PROVE a[i] = r[i]
      BY <2>4
    <3>1. i \in 1 .. Len(r)
      BY <1>1, <2>2
    <3> QED
      BY <1>2, <1>4, <2>3, <3>1
  <2>6. a = r
    <3> HIDE DEF a
    <3> QED
      BY <2>1, <2>4, <2>5, SameReply
  <2>7. Reply(u) = Reply(r)
    BY <2>1, <2>6, ReplyOfCut
  <2> QED
    BY <2>1, <2>6, <2>7
<1> QED
  BY <1>5, <1>6

\* Nothing decodes to nothing.
LEMMA DecodeEmpty == Decode[<<>>] = <<>> /\ <<>> \in Seq(Tokens)
<1>1. ~HasLine(<<>>)
  BY DEF HasLine, Eols
<1>2. <<>> \in Seq(Tokens)
  OBVIOUS
<1>3. Decode[<<>>] = <<>>
  BY <1>1, <1>2, DecodeNoLine
<1> QED
  BY <1>2, <1>3

\* One more reply is decoded after the others.
LEMMA DecodeGrow ==
  ASSUME NEW w \in Streams, NEW r \in Replies
  PROVE  Decode[w \o r] = Append(Decode[w], Reply(r))
<1> DEFINE W == {s \in Seq(Tokens) : Decode[s \o r] = Append(Decode[s], Reply(r))}
<1>0. r \in Seq(Tokens) /\ Reply(r) \in Results
  BY ReplyShape, ReplyType DEF Results
<1>1. <<>> \in W
  <2>1. <<>> \o r = r /\ r \o <<>> = r
    BY <1>0
  <2>2. Decode[r \o <<>>] = <<Reply(r)>> \o Decode[<<>>]
    BY DecodeReply, DecodeEmpty
  <2>3. <<Reply(r)>> \o <<>> = Append(<<>>, Reply(r))
    BY <1>0
  <2>4. Decode[<<>> \o r] = Append(Decode[<<>>], Reply(r))
    BY <2>1, <2>2, <2>3, DecodeEmpty
  <2> QED
    BY <2>4, DecodeEmpty
<1>2. ASSUME NEW s \in W \cap Streams, NEW q \in Replies PROVE q \o s \in W
  <2>1. q \in Seq(Tokens) /\ s \in Seq(Tokens) /\ Reply(q) \in Results
    BY ReplyShape, ReplyType DEF Results
  <2>2. (q \o s) \o r = q \o (s \o r) /\ q \o s \in Seq(Tokens) /\ s \o r \in Seq(Tokens)
    BY <1>0, <2>1, ConcatAssociative
  <2>3. Decode[q \o (s \o r)] = <<Reply(q)>> \o Append(Decode[s], Reply(r))
    BY <2>2, DecodeReply
  <2>4. Decode[q \o s] = <<Reply(q)>> \o Decode[s] /\ Decode[s] \in Seq(Results)
    BY <2>1, DecodeReply, DecodeIs
  <2>5. <<Reply(q)>> \o Append(Decode[s], Reply(r)) = Append(<<Reply(q)>> \o Decode[s], Reply(r))
    <3> DEFINE d == Decode[s]
               a == <<Reply(q)>>
    <3>1. d \in Seq(Results) /\ a \in Seq(Results)
      BY <2>1, <2>4
    <3> HIDE DEF d, a
    <3>2. a \o Append(d, Reply(r)) = (a \o d) \o <<Reply(r)>> /\ a \o d \in Seq(Results)
      BY <1>0, <3>1, Regrouped
    <3>3. (a \o d) \o <<Reply(r)>> = Append(a \o d, Reply(r))
      BY <1>0, <3>2, AppendIsConcat
    <3> QED
      BY <3>2, <3>3 DEF a, d
  <2>6. Decode[(q \o s) \o r] = Append(Decode[q \o s], Reply(r))
    BY <2>2, <2>3, <2>4, <2>5
  <2> QED
    BY <2>2, <2>6
<1>3. Streams \subseteq W
  <2> HIDE DEF W
  <2> QED
    BY <1>1, <1>2, StreamsInduction
<1> QED
  BY <1>3

\* From the beginning of a stream the first of its replies are decoded.
LEMMA DecodeBegin ==
  ASSUME NEW w \in Streams, NEW k \in 0 .. Len(w)
  PROVE  \E n \in 0 .. Len(Decode[w]) : Decode[SubSeq(w, 1, k)] = SubSeq(Decode[w], 1, n)
<1> DEFINE Begins(s, j) == \E n \in 0 .. Len(Decode[s]) : Decode[SubSeq(s, 1, j)] = SubSeq(Decode[s], 1, n)
           W == {s \in Seq(Tokens) : \A j \in 0 .. Len(s) : Begins(s, j)}
<1>1. <<>> \in W
  <2>1. Begins(<<>>, 0)
    <3>1. SubSeq(<<>>, 1, 0) = <<>> /\ 0 \in 0 .. Len(Decode[<<>>])
      BY DecodeEmpty
    <3> QED
      BY <3>1, DecodeEmpty
  <2>2. \A j \in 0 .. Len(<<>>) : j = 0
    OBVIOUS
  <2> HIDE DEF Begins
  <2> QED
    BY <2>1, <2>2, DecodeEmpty
<1>2. ASSUME NEW v \in W \cap Streams, NEW r \in Replies PROVE r \o v \in W
  <2> DEFINE s == r \o v
             d == Decode[v]
             a == <<Reply(r)>>
  <2>1. /\ r \in Seq(Tokens) /\ v \in Seq(Tokens) /\ Reply(r) \in Results
        /\ s \in Seq(Tokens) /\ Len(s) = Len(r) + Len(v) /\ Len(r) \in Nat /\ Len(v) \in Nat
    BY ReplyShape, ReplyType, Joined DEF Results
  <2>2. Decode[s] = a \o d /\ d \in Seq(Results) /\ a \in Seq(Results) /\ Len(a) = 1
    BY <2>1, DecodeReply, DecodeIs
  <2>3. Len(a \o d) = 1 + Len(d) /\ Len(d) \in Nat /\ a \o d \in Seq(Results)
    BY <2>2
  <2>4. ASSUME NEW j \in 0 .. Len(s), j >= Len(r) PROVE Begins(s, j)
    <3> DEFINE i == j - Len(r)
    <3>1. i \in 0 .. Len(v) /\ j = Len(r) + i
      BY <2>1, <2>4
    <3> HIDE DEF i
    <3>2. PICK n \in 0 .. Len(d) : Decode[SubSeq(v, 1, i)] = SubSeq(d, 1, n)
      BY <3>1
    <3>3. SubSeq(s, 1, j) = r \o SubSeq(v, 1, i) /\ SubSeq(v, 1, i) \in Seq(Tokens)
      BY <2>1, <3>1, BeginOfJoined, Cut
    <3>4. Decode[SubSeq(s, 1, j)] = a \o SubSeq(d, 1, n)
      BY <3>2, <3>3, DecodeReply
    <3>5. SubSeq(a \o d, 1, 1 + n) = a \o SubSeq(d, 1, n)
      <4> HIDE DEF a, d
      <4>1. SubSeq(a \o d, 1, Len(a) + n) = a \o SubSeq(d, 1, n)
        BY <2>2, BeginOfJoined
      <4> QED
        BY <2>2, <4>1
    <3>6. 1 + n \in 0 .. Len(a \o d)
      BY <2>3
    <3> HIDE DEF s, a, d
    <3> QED
      BY <2>2, <3>4, <3>5, <3>6
  <2>5. ASSUME NEW j \in 0 .. Len(s), j < Len(r) PROVE Begins(s, j)
    <3> DEFINE u == SubSeq(s, 1, j)
    <3>1. u \in Seq(Tokens) /\ Len(u) = j /\ \A i \in 1 .. j : u[i] = s[i]
      <4> HIDE DEF s
      <4> QED
        BY <2>1, Cut
    <3>2. IsPrefix(u, s)
      <4> HIDE DEF s, u
      <4> QED
        BY <2>1, <3>1, PrefixPointwise
    <3> HIDE DEF u
    <3>3. CASE Decode[u] = <<>>
      <4>1. SubSeq(a \o d, 1, 0) = <<>> /\ 0 \in 0 .. Len(a \o d)
        BY <2>3
      <4> HIDE DEF s, a, d
      <4> QED
        BY <2>2, <3>3, <4>1 DEF u
    <3>4. CASE Decode[u] # <<>>
      <4>1. Decode[u] = a
        BY <2>1, <2>5, <3>1, <3>2, <3>4, DecodeHead
      <4>2. SubSeq(a \o d, 1, 1) = a
        <5> HIDE DEF a, d
        <5>0. a \in Seq(Results) /\ d \in Seq(Results) /\ Len(a) = 1 /\ 0 \in 0 .. Len(d)
          BY <2>2, <2>3
        <5>1. SubSeq(a \o d, 1, Len(a) + 0) = a \o SubSeq(d, 1, 0)
          BY <5>0, BeginOfJoined
        <5>2. SubSeq(d, 1, 0) = <<>> /\ a \o <<>> = a /\ Len(a) + 0 = 1
          BY <5>0
        <5> QED
          BY <5>1, <5>2
      <4>3. 1 \in 0 .. Len(a \o d)
        BY <2>3
      <4> HIDE DEF s, a, d
      <4> QED
        BY <2>2, <4>1, <4>2, <4>3 DEF u
    <3> QED
      BY <3>3, <3>4
  <2>6. \A j \in 0 .. Len(s) : Begins(s, j)
    <3> HIDE DEF s, Begins
    <3> QED
      BY <2>1, <2>4, <2>5
  <2> HIDE DEF s, Begins
  <2>7. s \in W
    BY <2>1, <2>6
  <2> QED
    BY <2>7 DEF s
<1>3. Streams \subseteq W
  <2> HIDE DEF W
  <2> QED
    BY <1>1, <1>2, StreamsInduction
<1> QED
  BY <1>3

--------------------------------------------------------------------------------
(* The invariant, and the lines that recv() takes.                         *)

\* Where the line ends that read_line takes while r is read from k on.
LEMMA LineIn ==
  ASSUME NEW r \in Replies, NEW b \in Seq(Tokens), HasLine(b),
         NEW k \in Nat, k < Len(r),
         \A j \in 1 .. Len(b) : k + j <= Len(r) => b[j] = r[k + j]
  PROVE  LET m == k + match_eol(b) IN
         /\ match_eol(b) \in 1 .. Len(b) /\ m <= Len(r)
         /\ b[match_eol(b)] = r[m] /\ r[m] \in {CR, LF}
         /\ (\A i \in LineStarts(r) : i <= k + 1)
                => m = Len(r) \/ (m + 1 = Len(r) /\ r[m] = CR /\ match_eol(b) = Len(b))
         /\ \A i \in LastLines(r) : i > k + 1 => m < i
<1> DEFINE e == match_eol(b)
           m == k + e
<1>1. /\ e \in 1 .. Len(b) /\ b[e] \in {CR, LF}
      /\ b[e] = CR /\ e < Len(b) => b[e + 1] # LF
      /\ \A j \in 1 .. e : b[j] \in {CR, LF} => j = e \/ (j + 1 = e /\ b[j] = CR /\ b[j + 1] = LF)
  BY MatchEol
<1>2. /\ r \in Seq(Tokens) /\ Len(r) \in Nat /\ r[Len(r)] = LF /\ Len(b) \in Nat
  BY ReplyShape
<1> HIDE DEF e
<1>3. m \in Nat /\ e \in Nat /\ e <= Len(b) /\ 1 <= e
  BY <1>1, <1>2
<1>4. m <= Len(r)
  <2>1. ASSUME ~(m <= Len(r)) PROVE FALSE
    <3> DEFINE j == Len(r) - k
    <3>1. j \in 1 .. e /\ j \in 1 .. Len(b) /\ k + j = Len(r) /\ j # e
      BY <1>2, <1>3, <2>1
    <3> HIDE DEF j
    <3>2. b[j] = LF
      BY <1>2, <3>1
    <3> QED
      BY <1>1, <3>1, <3>2, LineEnds
  <2> QED
    BY <2>1
<1>5. b[e] = r[m] /\ r[m] \in {CR, LF}
  <2>1. k + e <= Len(r) /\ e \in 1 .. Len(b)
    BY <1>1, <1>4
  <2>2. b[e] = r[k + e]
    BY <2>1
  <2> QED
    BY <1>1, <2>2
<1>6. ASSUME \A i \in LineStarts(r) : i <= k + 1, m # Len(r)
      PROVE  m + 1 = Len(r) /\ r[m] = CR /\ e = Len(b)
  <2>1. m + 1 \in 2 .. Len(r) /\ (m + 1) - 1 = m /\ ~(m + 1 <= k + 1)
    BY <1>2, <1>3, <1>4, <1>6
  <2>2. m + 1 \notin LineStarts(r)
    BY <1>6, <2>1
  <2>3. r[m] = CR /\ r[m + 1] = LF
    BY <1>2, <1>5, <2>1, <2>2, LineStart
  <2>4. m + 1 = Len(r)
    <3>1. ASSUME m + 1 # Len(r) PROVE FALSE
      <4>1. m + 2 \in 2 .. Len(r) /\ (m + 2) - 1 = m + 1 /\ ~(m + 2 <= k + 1)
        BY <1>2, <1>3, <2>1, <3>1
      <4>2. m + 2 \in LineStarts(r)
        BY <1>2, <2>3, <4>1, LineStart
      <4> QED
        BY <1>6, <4>1, <4>2
    <3> QED
      BY <3>1
  <2>5. e = Len(b)
    <3>1. ASSUME e # Len(b) PROVE FALSE
      <4>1. e + 1 \in 1 .. Len(b) /\ k + (e + 1) = m + 1 /\ k + (e + 1) <= Len(r)
        BY <1>2, <1>3, <2>1, <3>1
      <4>2. b[e + 1] = LF
        BY <2>3, <4>1
      <4> QED
        BY <1>1, <1>3, <1>5, <2>3, <3>1, <4>2
    <3> QED
      BY <3>1
  <2> QED
    BY <2>3, <2>4, <2>5
<1>7. ASSUME NEW i \in LastLines(r), i > k + 1 PROVE m < i
  <2>1. i \in LineStarts(r) /\ r[i] = Word(r[1].code, " ")
    BY DEF LastLines
  <2>5. i = 1 \/ (i \in 2 .. Len(r) /\ r[i - 1] \in {CR, LF})
    BY <1>2, <2>1, LineStart
  <2>2. i \in 2 .. Len(r) /\ r[i - 1] \in {CR, LF}
    BY <1>7, <2>5
  <2>3. r[i] \notin {CR, LF}
    <3>1. r[1].code \in Nat \ {0}
      BY ReplyShape
    <3> DEFINE w == Word(r[1].code, " ")
    <3>2. w.code = r[1].code
      BY WordFields
    <3> HIDE DEF w
    <3>3. r[i] = w
      BY <2>1 DEF w
    <3> QED
      BY <3>1, <3>2, <3>3, LineEnds
  <2>4. ASSUME ~(m < i) PROVE FALSE
    <3> DEFINE j == (i - 1) - k
    <3>2. j \in 1 .. e /\ j \in 1 .. Len(b) /\ k + j = i - 1 /\ k + j <= Len(r) /\ j # e
      BY <1>2, <1>3, <1>7, <2>2, <2>4
    <3>3. k + (j + 1) = i /\ j + 1 <= e
      BY <1>3, <2>2, <3>2
    <3> HIDE DEF j
    <3>4. b[j] \in {CR, LF}
      BY <2>2, <3>2
    <3>5. j + 1 = e
      BY <1>1, <3>2, <3>4
    <3>6. m = i
      BY <3>3, <3>5
    <3> QED
      BY <1>5, <2>3, <3>6
  <2> QED
    BY <2>4, <2>2, <1>3
<1> QED
  BY <1>1, <1>4, <1>5, <1>6, <1>7 DEF e

\* s holds the first lines of r, but not its last; a line end may be cut in two.
Begun(r, s) ==
    /\ Len(s) \in 1 .. Len(r) - 1 /\ r[1].next = "-"
    /\ \A j \in 1 .. Len(s) : s[j] = r[j]
    /\ s[Len(s)] \in {CR, LF}
    /\ \A i \in LastLines(r) : Len(s) < i

\* What is unread is the beginning of the replies in w, and all of them while
\* the server is there.
InStream(w) ==
    /\ IsPrefix(Unread, w) /\ (peer = "up" => Unread = w)
    /\ status_string # <<>> =>
           \E r \in Replies, t \in Streams : w = r \o t /\ Begun(r, status_string)

\* recv() has thrown within a reply; what it left will not become a line.
LeftOver == peer # "up" /\ wire = <<>> /\ status_string = <<>> /\ ~HasLine(buffer_)

Reading ==
    /\ TypeOK
    /\ pc # "idle" => socket_ = "open"
    /\ socket_ = "open" /\ clean /\ ~Full => LeftOver \/ \E w \in Streams : InStream(w)

\* r is the next reply, t are those that follow.
AtReply(r, t) ==
    /\ IsPrefix(Unread, r \o t) /\ (peer = "up" => Unread = r \o t)
    /\ status_string # <<>> => Begun(r, status_string)

\* What is unread begins with a reply, if there is anything.
LEMMA NextReply ==
  ASSUME TypeOK, NEW w \in Streams, InStream(w), Unread \in Seq(Tokens), Unread # <<>>
  PROVE  \E r \in Replies, t \in Streams : w = r \o t /\ AtReply(r, t)
<1>1. w \in Seq(Tokens) /\ w # <<>>
  <2>1. w \in Seq(Tokens)
    BY StreamsBuilt
  <2>2. Len(Unread) <= Len(w)
    BY <2>1, PrefixPointwise DEF InStream
  <2>3. Len(Unread) > 0
    OBVIOUS
  <2> QED
    BY <2>1, <2>2, <2>3
<1>2. CASE status_string = <<>>
  <2>1. PICK r \in Replies, t \in Streams : w = r \o t
    BY <1>1, StreamsInverted
  <2> QED
    BY <1>2, <2>1 DEF InStream, AtReply
<1>3. CASE status_string # <<>>
  BY <1>3 DEF InStream, AtReply
<1> QED
  BY <1>2, <1>3

\* What is unread lies in three places.
LEMMA Layout ==
  ASSUME TypeOK
  PROVE  /\ Unread \in Seq(Tokens)
         /\ Len(Unread) = Len(status_string) + Len(buffer_) + Len(wire)
         /\ Len(status_string) \in Nat /\ Len(buffer_) \in Nat /\ Len(wire) \in Nat
         /\ \A i \in 1 .. Len(status_string) : Unread[i] = status_string[i]
         /\ \A i \in 1 .. Len(buffer_) : Unread[Len(status_string) + i] = buffer_[i]
         /\ \A i \in 1 .. Len(wire) : Unread[Len(status_string) + Len(buffer_) + i] = wire[i]
<1> DEFINE u == status_string \o buffer_
<1>1. status_string \in Seq(Tokens) /\ buffer_ \in Seq(Tokens) /\ wire \in Seq(Tokens)
  BY DEF TypeOK
<1>2. /\ u \in Seq(Tokens) /\ Len(u) = Len(status_string) + Len(buffer_)
      /\ Len(status_string) \in Nat /\ Len(buffer_) \in Nat
      /\ \A i \in 1 .. Len(status_string) : u[i] = status_string[i]
      /\ \A i \in 1 .. Len(buffer_) : u[Len(status_string) + i] = buffer_[i]
  BY <1>1, Joined
<1> HIDE DEF u
<1> DEFINE v == u \o wire
<1>3. /\ v \in Seq(Tokens) /\ Len(v) = Len(u) + Len(wire) /\ Len(wire) \in Nat
      /\ \A i \in 1 .. Len(u) : v[i] = u[i]
      /\ \A i \in 1 .. Len(wire) : v[Len(u) + i] = wire[i]
  <2>1. u \in Seq(Tokens) /\ wire \in Seq(Tokens)
    BY <1>1, <1>2
  <2> QED
    BY <2>1, Joined
<1>4. Unread = v
  BY DEF Unread, u
<1> HIDE DEF v
<1>5. \A i \in 1 .. Len(status_string) : v[i] = status_string[i]
  <2> TAKE i \in 1 .. Len(status_string)
  <2>1. i \in 1 .. Len(u)
    BY <1>2
  <2> QED
    BY <1>2, <1>3, <2>1
<1>6. \A i \in 1 .. Len(buffer_) : v[Len(status_string) + i] = buffer_[i]
  <2> TAKE i \in 1 .. Len(buffer_)
  <2>1. Len(status_string) + i \in 1 .. Len(u)
    BY <1>2
  <2> QED
    BY <1>2, <1>3, <2>1
<1> QED
  BY <1>2, <1>3, <1>4, <1>5, <1>6

\* Of what is unread, what the next reply is.
LEMMA Position ==
  ASSUME TypeOK, NEW r \in Replies, NEW t \in Streams, AtReply(r, t)
  PROVE  /\ \A j \in 1 .. Len(status_string) : j <= Len(r) => status_string[j] = r[j]
         /\ \A j \in 1 .. Len(buffer_) : Len(status_string) + j <= Len(r) => buffer_[j] = r[Len(status_string) + j]
         /\ \A j \in 1 .. Len(wire) : Len(status_string) + Len(buffer_) + j <= Len(r)
                => wire[j] = r[Len(status_string) + Len(buffer_) + j]
         /\ Len(status_string) < Len(r)
<1> DEFINE k == Len(status_string)
           l == Len(buffer_)
           u == Unread
           w == r \o t
<1>1. /\ u \in Seq(Tokens) /\ Len(u) = k + l + Len(wire)
      /\ k \in Nat /\ l \in Nat /\ Len(wire) \in Nat
      /\ \A i \in 1 .. k : u[i] = status_string[i]
      /\ \A i \in 1 .. l : u[k + i] = buffer_[i]
      /\ \A i \in 1 .. Len(wire) : u[k + l + i] = wire[i]
  BY Layout
<1>2. r \in Seq(Tokens) /\ t \in Seq(Tokens) /\ Len(r) \in Nat /\ Len(r) > 1
  BY ReplyShape, StreamsBuilt
<1>3. w \in Seq(Tokens) /\ \A i \in 1 .. Len(r) : w[i] = r[i]
  BY <1>2, Joined
<1>4. IsPrefix(u, w)
  BY DEF AtReply
<1>5. status_string # <<>> => Len(status_string) \in 1 .. Len(r) - 1
  BY DEF AtReply, Begun
<1>6. Len(status_string) < Len(r)
  <2>1. CASE status_string = <<>>
    BY <1>2, <2>1
  <2>2. CASE status_string # <<>>
    BY <1>2, <1>5, <2>2
  <2> QED
    BY <2>1, <2>2
<1> HIDE DEF w, u
<1>7. Len(u) <= Len(w) /\ \A i \in 1 .. Len(u) : u[i] = w[i]
  BY <1>1, <1>3, <1>4, PrefixPointwise
<1>8. \A i \in 1 .. Len(u) : i <= Len(r) => u[i] = r[i]
  BY <1>1, <1>2, <1>3, <1>7
<1> HIDE DEF k, l
<1>9. ASSUME NEW j \in 1 .. k, j <= Len(r) PROVE status_string[j] = r[j]
  <2>1. j \in 1 .. Len(u)
    BY <1>1
  <2> QED
    BY <1>1, <1>8, <1>9, <2>1
<1>10. ASSUME NEW j \in 1 .. l, k + j <= Len(r) PROVE buffer_[j] = r[k + j]
  <2>1. k + j \in 1 .. Len(u)
    BY <1>1
  <2> QED
    BY <1>1, <1>8, <1>10, <2>1
<1>11. ASSUME NEW j \in 1 .. Len(wire), k + l + j <= Len(r) PROVE wire[j] = r[k + l + j]
  <2>1. k + l + j \in 1 .. Len(u)
    BY <1>1
  <2> QED
    BY <1>1, <1>8, <1>11, <2>1
<1> QED
  BY <1>6, <1>9, <1>10, <1>11 DEF k, l

\* s is r, or r without its last LF and all that the buffer had.
Whole(r, s) == s = r \/ (Append(s, LF) = r /\ Last(s) = CR /\ Rest = <<>>)

\* read_line takes the next line of the reply, with its end or half of it.
LEMMA LineTaken ==
  ASSUME TypeOK, HasLine(buffer_), NEW r \in Replies, NEW t \in Streams, AtReply(r, t)
  PROVE  LET s == status_string \o Line
             k == Len(status_string) IN
         /\ s \in Seq(Tokens) /\ Len(s) \in k + 1 .. Len(r)
         /\ \A j \in 1 .. Len(s) : s[j] = r[j]
         /\ s[Len(s)] \in {CR, LF}
         /\ Line \in Seq(Tokens) /\ Len(Line) > 0 /\ Line[1] = r[k + 1]
         /\ (\A i \in LineStarts(r) : i <= k + 1) => Whole(r, s)
         /\ \A i \in LastLines(r) : i > k + 1 => Len(s) < i
         /\ Unread = s \o (Rest \o wire)
<1> DEFINE s == status_string \o Line
           k == Len(status_string)
           e == match_eol(buffer_)
<1>1. status_string \in Seq(Tokens) /\ buffer_ \in Seq(Tokens) /\ wire \in Seq(Tokens) /\ k \in Nat
  BY DEF TypeOK
<1>2. /\ e \in 1 .. Len(buffer_) /\ Line \in Seq(Tokens) /\ Len(Line) = e
      /\ \A i \in 1 .. Len(Line) : Line[i] = buffer_[i]
      /\ Rest \in Seq(Tokens) /\ Len(Rest) = Len(buffer_) - e
      /\ Line \o Rest = buffer_
  BY <1>1, Taken
<1>3. /\ k < Len(r)
      /\ \A j \in 1 .. k : j <= Len(r) => status_string[j] = r[j]
      /\ \A j \in 1 .. Len(buffer_) : k + j <= Len(r) => buffer_[j] = r[k + j]
  BY Position
<1>4. r \in Seq(Tokens) /\ Len(r) \in Nat /\ r[Len(r)] = LF
  BY ReplyShape
<1> HIDE DEF k
<1>5. /\ k + e <= Len(r) /\ buffer_[e] = r[k + e] /\ r[k + e] \in {CR, LF}
      /\ (\A i \in LineStarts(r) : i <= k + 1)
             => k + e = Len(r) \/ (k + e + 1 = Len(r) /\ r[k + e] = CR /\ e = Len(buffer_))
      /\ \A i \in LastLines(r) : i > k + 1 => k + e < i
  BY <1>1, <1>3, LineIn
<1> HIDE DEF e
<1>6. /\ s \in Seq(Tokens) /\ Len(s) = k + e
      /\ \A i \in 1 .. k : s[i] = status_string[i]
      /\ \A i \in 1 .. k + e : i > k => s[i] = Line[i - k]
  BY <1>1, <1>2, Joined DEF k
<1> HIDE DEF s
<1>7. Len(s) \in k + 1 .. Len(r)
  BY <1>1, <1>2, <1>4, <1>5, <1>6
<1>8. Unread = s \o (Rest \o wire)
  <2>1. status_string \in Seq(Tokens) /\ Line \in Seq(Tokens) /\ Rest \in Seq(Tokens) /\ wire \in Seq(Tokens)
    BY <1>1, <1>2
  <2>2. (status_string \o Line) \o Rest = status_string \o (Line \o Rest)
    BY <2>1, ConcatAssociative
  <2>3. s \o Rest = status_string \o buffer_
    BY <1>2, <2>2, Zenon DEF s
  <2>4. (s \o Rest) \o wire = s \o (Rest \o wire)
    <3>1. s \in Seq(Tokens)
      BY <1>6
    <3> QED
      BY <2>1, <3>1, ConcatAssociative
  <2> QED
    BY <2>3, <2>4, Zenon DEF Unread
<1>9. \A j \in 1 .. Len(s) : s[j] = r[j]
  <2> TAKE j \in 1 .. Len(s)
  <2>1. CASE j <= k
    BY <1>1, <1>3, <1>6, <2>1
  <2>2. CASE j > k
    <3>1. j - k \in 1 .. e /\ j - k \in 1 .. Len(buffer_) /\ k + (j - k) = j /\ k + (j - k) <= Len(r)
      BY <1>1, <1>2, <1>5, <1>6, <2>2
    <3>2. s[j] = Line[j - k] /\ Line[j - k] = buffer_[j - k] /\ buffer_[j - k] = r[k + (j - k)]
      BY <1>2, <1>3, <1>6, <2>2, <3>1
    <3> QED
      BY <3>1, <3>2
  <2> QED
    BY <1>1, <1>6, <2>1, <2>2
<1>10. s[Len(s)] \in {CR, LF}
  <2>1. Len(s) \in 1 .. Len(s) /\ Len(s) = k + e
    BY <1>1, <1>2, <1>6
  <2> QED
    BY <1>5, <1>9, <2>1
<1>11. Len(Line) > 0 /\ Line[1] = r[k + 1]
  <2>1. 1 \in 1 .. Len(buffer_) /\ 1 \in 1 .. Len(Line) /\ k + 1 <= Len(r)
    BY <1>1, <1>2, <1>3, <1>4
  <2> QED
    BY <1>2, <1>3, <2>1
<1>12. ASSUME \A i \in LineStarts(r) : i <= k + 1 PROVE Whole(r, s)
  <2>1. CASE k + e = Len(r)
    <3>1. s = r
      BY <1>4, <1>6, <1>9, <2>1, SeqEqual
    <3> QED
      BY <3>1 DEF Whole
  <2>2. CASE k + e + 1 = Len(r) /\ r[k + e] = CR /\ e = Len(buffer_)
    <3>1. Rest = <<>>
      BY <1>2, <2>2
    <3>2. s # <<>> /\ Last(s) = s[Len(s)] /\ Len(s) \in 1 .. Len(s)
      <4>1. Len(s) \in Nat \ {0}
        BY <1>1, <1>2, <1>6
      <4>2. s # <<>>
        BY <4>1
      <4>3. Last(s) = s[Len(s)]
        BY <1>6, <4>2, Ends
      <4> QED
        BY <4>1, <4>2, <4>3
    <3>3. Last(s) = CR
      BY <1>6, <1>9, <2>2, <3>2
    <3> DEFINE a == Append(s, LF)
    <3>4. a \in Seq(Tokens) /\ Len(a) = Len(r) /\ a[Len(r)] = LF /\ \A i \in 1 .. Len(s) : a[i] = s[i]
      BY <1>6, <2>2, LineEnds
    <3> HIDE DEF a
    <3>5. \A i \in 1 .. Len(r) : a[i] = r[i]
      <4> TAKE i \in 1 .. Len(r)
      <4>0. Len(s) + 1 = Len(r) /\ Len(s) \in Nat
        BY <1>1, <1>2, <1>6, <2>2
      <4>1. i = Len(r) \/ i \in 1 .. Len(s)
        BY <4>0
      <4> QED
        BY <1>4, <1>9, <3>4, <4>1
    <3>6. a = r
      BY <1>4, <3>4, <3>5, SeqEqual
    <3> QED
      BY <3>1, <3>3, <3>6 DEF Whole, a
  <2> QED
    BY <1>5, <1>12, <2>1, <2>2
<1>13. \A i \in LastLines(r) : i > k + 1 => Len(s) < i
  BY <1>5, <1>6
<1> QED
  BY <1>2, <1>6, <1>7, <1>8, <1>9, <1>10, <1>11, <1>12, <1>13 DEF s, k

\* The first line of a reply ends it, or is one of several.
LEMMA FirstLineTaken ==
  ASSUME TypeOK, pc = "first", HasLine(buffer_), NEW r \in Replies, NEW t \in Streams, AtReply(r, t)
  PROVE  /\ status_string = <<>> /\ status_string \o Line = Line /\ Line[1].code > 0
         /\ Line[1].next # "-" => Whole(r, Line)
         /\ Line[1].next = "-" => Begun(r, Line)
<1>1. status_string = <<>>
  BY DEF TypeOK
<1> DEFINE s == status_string \o Line
           k == Len(status_string)
<1>2. /\ s \in Seq(Tokens) /\ Len(s) \in k + 1 .. Len(r)
      /\ \A j \in 1 .. Len(s) : s[j] = r[j]
      /\ s[Len(s)] \in {CR, LF}
      /\ Line \in Seq(Tokens) /\ Len(Line) > 0 /\ Line[1] = r[k + 1]
      /\ (\A i \in LineStarts(r) : i <= k + 1) => Whole(r, s)
      /\ \A i \in LastLines(r) : i > k + 1 => Len(s) < i
  BY LineTaken
<1>3. k = 0
  BY <1>1
<1>4. s = Line
  BY <1>1, <1>2
<1> HIDE DEF s, k
<1>5. /\ Line[1] = r[1] /\ Len(Line) \in 1 .. Len(r)
      /\ (\A i \in LineStarts(r) : i <= 1) => Whole(r, Line)
      /\ \A i \in LastLines(r) : i > 1 => Len(Line) < i
      /\ \A j \in 1 .. Len(Line) : Line[j] = r[j]
      /\ Line[Len(Line)] \in {CR, LF}
  BY <1>2, <1>3, <1>4
<1>6. /\ r[1].code \in Nat \ {0} /\ r \in Seq(Tokens) /\ Len(r) \in Nat
      /\ r[1].next # "-" => LineStarts(r) = {1}
      /\ r[1].next = "-" => LastLines(r) # {} /\ \A i \in LastLines(r) : i # 1
  BY ReplyShape
<1>7. \A i \in LastLines(r) : i = 1 \/ i \in 2 .. Len(r)
  <2> TAKE i \in LastLines(r)
  <2>1. i \in LineStarts(r)
    BY DEF LastLines
  <2> QED
    BY <1>6, <2>1, LineStart
<1>8. ASSUME r[1].next = "-" PROVE Begun(r, Line)
  <2>1. \A i \in LastLines(r) : i \in 2 .. Len(r) /\ Len(Line) < i
    BY <1>5, <1>6, <1>7, <1>8
  <2>2. Len(Line) \in 1 .. Len(r) - 1
    BY <1>5, <1>6, <1>8, <2>1
  <2> QED
    BY <1>5, <1>8, <2>1, <2>2 DEF Begun
<1>9. ASSUME r[1].next # "-" PROVE Whole(r, Line)
  <2>1. \A i \in LineStarts(r) : i <= 1
    BY <1>6, <1>9
  <2> QED
    BY <1>5, <2>1
<1> QED
  BY <1>1, <1>4, <1>5, <1>6, <1>8, <1>9 DEF s

\* A later line ends it, if it looks like it, or is one of several.
LEMMA LaterLineTaken ==
  ASSUME TypeOK, pc = "more", HasLine(buffer_), NEW r \in Replies, NEW t \in Streams, AtReply(r, t)
  PROVE  /\ is_last_line => Whole(r, status_string \o Line)
         /\ ~is_last_line => Begun(r, status_string \o Line)
<1>1. status_string # <<>> /\ Begun(r, status_string)
  BY DEF TypeOK, AtReply
<1> DEFINE s == status_string \o Line
           k == Len(status_string)
<1>2. /\ s \in Seq(Tokens) /\ Len(s) \in k + 1 .. Len(r)
      /\ \A j \in 1 .. Len(s) : s[j] = r[j]
      /\ s[Len(s)] \in {CR, LF}
      /\ Line \in Seq(Tokens) /\ Len(Line) > 0 /\ Line[1] = r[k + 1]
      /\ (\A i \in LineStarts(r) : i <= k + 1) => Whole(r, s)
      /\ \A i \in LastLines(r) : i > k + 1 => Len(s) < i
  BY LineTaken
<1>3. /\ k \in 1 .. Len(r) - 1 /\ r[1].next = "-" /\ status_string[1] = r[1]
      /\ r[k] \in {CR, LF} /\ \A i \in LastLines(r) : k < i
  <2>1. /\ k \in 1 .. Len(r) - 1 /\ r[1].next = "-" /\ status_string[k] \in {CR, LF}
        /\ \A j \in 1 .. k : status_string[j] = r[j]
        /\ \A i \in LastLines(r) : k < i
    BY <1>1 DEF Begun
  <2>2. 1 \in 1 .. k /\ k \in 1 .. k
    BY <2>1
  <2> QED
    BY <2>1, <2>2
<1>4. /\ r \in Seq(Tokens) /\ Len(r) \in Nat /\ r[1].code \in Nat \ {0} /\ LastLines(r) # {}
      /\ \A i \in LastLines(r), j \in LineStarts(r) : j <= i
  BY <1>3, ReplyShape
<1> HIDE DEF s, k
<1>5. is_last_line <=> r[k + 1] = Word(r[1].code, " ")
  BY <1>2, <1>3 DEF is_last_line
<1>6. ASSUME is_last_line PROVE Whole(r, s)
  <2>1. r[k + 1] # LF
    <3> DEFINE w == Word(r[1].code, " ")
    <3>1. w.code = r[1].code
      BY WordFields
    <3>2. r[k + 1] = w
      BY <1>5, <1>6
    <3> HIDE DEF w
    <3> QED
      BY <1>4, <3>1, <3>2, LineEnds
  <2>2. k + 1 \in 2 .. Len(r) /\ (k + 1) - 1 = k
    BY <1>3, <1>4
  <2>3. k + 1 \in LineStarts(r)
    BY <1>3, <1>4, <2>1, <2>2, LineStart
  <2>4. k + 1 \in LastLines(r)
    BY <1>5, <1>6, <2>3 DEF LastLines
  <2>5. \A j \in LineStarts(r) : j <= k + 1
    BY <1>4, <2>4
  <2> QED
    BY <1>2, <2>5
<1>7. ASSUME ~is_last_line PROVE Begun(r, s)
  <2>1. k + 1 \notin LastLines(r)
    BY <1>5, <1>7 DEF LastLines
  <2>2. \A i \in LastLines(r) : i \in Nat /\ i <= Len(r)
    <3> TAKE i \in LastLines(r)
    <3>1. i \in LineStarts(r)
      BY DEF LastLines
    <3>2. i = 1 \/ i \in 2 .. Len(r)
      BY <1>4, <3>1, LineStart
    <3> QED
      BY <1>3, <3>2
  <2>3. \A i \in LastLines(r) : Len(s) < i
    <3> TAKE i \in LastLines(r)
    <3>1. i # k + 1 /\ k < i /\ i \in Nat /\ k \in Nat
      BY <1>3, <2>1, <2>2
    <3>2. i > k + 1
      BY <3>1
    <3> QED
      BY <1>2, <3>2
  <2>4. Len(s) \in 1 .. Len(r) - 1
    BY <1>2, <1>3, <1>4, <2>2, <2>3
  <2> QED
    BY <1>2, <1>3, <2>3, <2>4 DEF Begun
<1> QED
  BY <1>6, <1>7 DEF s

\* A whole reply at the front is decoded first.
LEMMA DecodePrefix ==
  ASSUME NEW r \in Replies, NEW u \in Seq(Tokens), IsPrefix(r, u)
  PROVE  Decode[u] # <<>> /\ Head(Decode[u]) = Reply(r)
<1> DEFINE v == SubSeq(u, Len(r) + 1, Len(u))
           b == SubSeq(u, 1, Len(r))
<1>1. r \in Seq(Tokens) /\ Len(r) \in Nat /\ Reply(r) \in Results
  BY ReplyShape, ReplyType DEF Results
<1>2. Len(r) \in 0 .. Len(u) /\ \A i \in 1 .. Len(r) : r[i] = u[i]
  BY <1>1, PrefixPointwise
<1>3. /\ v \in Seq(Tokens) /\ b \o v = u /\ b \in Seq(Tokens) /\ Len(b) = Len(r)
      /\ \A i \in 1 .. Len(r) : b[i] = u[i]
  BY <1>2, Cut
<1> HIDE DEF v, b
<1>4. b = r
  <2>1. \A i \in 1 .. Len(r) : b[i] = r[i]
    BY <1>2, <1>3
  <2> QED
    BY <1>1, <1>3, <2>1, SeqEqual
<1>5. Decode[u] = <<Reply(r)>> \o Decode[v] /\ Decode[v] \in Seq(Results)
  BY <1>3, <1>4, DecodeReply, DecodeIs
<1> DEFINE d == Decode[v]
<1>6. d \in Seq(Results)
  BY <1>5
<1> HIDE DEF d
<1>7. <<Reply(r)>> \o d # <<>> /\ Head(<<Reply(r)>> \o d) = Reply(r)
  BY <1>1, <1>6
<1> QED
  BY <1>5, <1>7 DEF d

\* What follows it is decoded after it.
LEMMA DecodeTail ==
  ASSUME NEW r \in Replies, NEW t \in Seq(Tokens)
  PROVE  /\ Decode[r \o t] # <<>> /\ Head(Decode[r \o t]) = Reply(r)
         /\ Tail(Decode[r \o t]) = Decode[t]
<1> DEFINE d == Decode[t]
<1>0. Decode[r \o t] = <<Reply(r)>> \o d /\ d \in Seq(Results)
  BY DecodeReply, DecodeIs
<1>1. d \in Seq(Results) /\ Reply(r) \in Results
  BY <1>0, ReplyShape, ReplyType DEF Results
<1> HIDE DEF d
<1> DEFINE a == <<Reply(r)>> \o d
<1>2. a # <<>> /\ Head(a) = Reply(r) /\ a \in Seq(Results) /\ Len(a) = 1 + Len(d)
  BY <1>1
<1>3. Tail(a) = d
  <2>1. Tail(a) \in Seq(Results) /\ Len(Tail(a)) = Len(d) /\ \A i \in 1 .. Len(d) : Tail(a)[i] = a[i + 1]
    <3> HIDE DEF a
    <3> QED
      BY <1>1, <1>2
  <2>2. \A i \in 1 .. Len(d) : a[i + 1] = d[i]
    BY <1>1
  <2> HIDE DEF a
  <2>3. \A i \in 1 .. Len(Tail(a)) : Tail(a)[i] = d[i]
    BY <2>1, <2>2
  <2> QED
    BY <1>1, <2>1, <2>3, SeqEqual
<1> HIDE DEF a
<1>4. Decode[r \o t] = a
  BY <1>0 DEF a
<1> QED
  BY <1>2, <1>3, <1>4 DEF d

\* What follows the same reply.
LEMMA AfterReply ==
  ASSUME NEW r \in Replies, NEW v \in Seq(Tokens), NEW t \in Seq(Tokens)
  PROVE  /\ IsPrefix(r \o v, r \o t) => IsPrefix(v, t)
         /\ r \o v = r \o t => v = t
<1> DEFINE x == r \o v
           y == r \o t
<1>1. r \in Seq(Tokens) /\ Len(r) \in Nat
  BY ReplyShape
<1>2. /\ x \in Seq(Tokens) /\ Len(x) = Len(r) + Len(v) /\ Len(v) \in Nat
      /\ \A i \in 1 .. Len(v) : x[Len(r) + i] = v[i]
  BY <1>1, Joined
<1>3. /\ y \in Seq(Tokens) /\ Len(y) = Len(r) + Len(t) /\ Len(t) \in Nat
      /\ \A i \in 1 .. Len(t) : y[Len(r) + i] = t[i]
  BY <1>1, Joined
<1>4. SubSeq(x, Len(r) + 1, Len(x)) = v /\ SubSeq(y, Len(r) + 1, Len(y)) = t
  BY <1>1, RestOfJoined
<1>5. x = y => v = t
  <2> HIDE DEF x, y
  <2> QED
    BY <1>4
<1>6. ASSUME IsPrefix(x, y) PROVE IsPrefix(v, t)
  <2> HIDE DEF x, y
  <2>0. x \in Seq(Tokens) /\ y \in Seq(Tokens)
    BY <1>2, <1>3
  <2>1. Len(x) <= Len(y) /\ \A i \in 1 .. Len(x) : x[i] = y[i]
    BY <1>6, <2>0, PrefixPointwise
  <2>2. Len(v) <= Len(t)
    BY <1>1, <1>2, <1>3, <2>1
  <2>3. \A i \in 1 .. Len(v) : v[i] = t[i]
    <3> TAKE i \in 1 .. Len(v)
    <3>1. Len(r) + i \in 1 .. Len(x) /\ i \in 1 .. Len(t)
      BY <1>1, <1>2, <1>3, <2>2
    <3> QED
      BY <1>2, <1>3, <2>1, <3>1
  <2> QED
    BY <2>2, <2>3, PrefixPointwise
<1> QED
  BY <1>5, <1>6

--------------------------------------------------------------------------------
(* Steps of the channel.                                                   *)

ChannelStep == [Channel!Next]_(Channel!chan)

\* Nothing that the channel speaks of changes.
LEMMA Stutters ==
  ASSUME Sent' = Sent, socket_' = socket_, peer' = peer, (pc = "idle") <=> (pc' = "idle"),
         result' = result, Full' <=> Full, clean' <=> clean, clean \in BOOLEAN, clean' \in BOOLEAN
  PROVE  ChannelStep
<1>1. clean' = clean /\ Full' = Full /\ (socket_' = "open") = (socket_ = "open") /\ (peer' = "up") = (peer = "up")
  BY DEF Full
<1>2. UNCHANGED Channel!chan
  BY <1>1 DEF Channel!chan
<1> QED
  BY <1>2 DEF ChannelStep

\* Without the promise every step is one of the channel.
LEMMA Spoilt ==
  ASSUME ~clean, ~clean'
  PROVE  ChannelStep
BY DEF ChannelStep, Channel!Next, Channel!Garbage

\* The next reply is returned.
LEMMA Delivers ==
  ASSUME pc # "idle", ~Full, ~Full', Sent # <<>>, result' = Head(Sent), pc' = "idle",
         (socket_' = "open") <=> (Head(Sent).code # 421), clean' \in BOOLEAN,
         clean' => Sent' = IF socket_' = "open" THEN Tail(Sent) ELSE <<>>,
         peer' = peer
  PROVE  ChannelStep
<1>1. Channel!Deliver
  BY DEF Channel!Deliver, Full
<1> QED
  BY <1>1 DEF ChannelStep, Channel!Next

\* A line within a reply goes from the buffer to status_string.
LEMMA LineKept ==
  ASSUME Reading, TypeOK', socket_ = "open", clean, ~Full, HasLine(buffer_), pc # "idle", pc' # "idle",
         NEW r \in Replies, NEW t \in Streams, AtReply(r, t), Begun(r, status_string \o Line),
         status_string' = status_string \o Line, buffer_' = Rest,
         UNCHANGED <<wire, socket_, peer, result>>, clean' <=> clean
  PROVE  Reading' /\ ChannelStep
<1> USE DEF Reading
<1>1. Unread' = Unread
  <2>1. /\ (status_string \o Line) \in Seq(Tokens)
        /\ Unread = (status_string \o Line) \o (Rest \o wire)
    BY LineTaken
  <2>2. Rest \in Seq(Tokens) /\ wire \in Seq(Tokens)
    BY Taken DEF TypeOK
  <2>3. ((status_string \o Line) \o Rest) \o wire = (status_string \o Line) \o (Rest \o wire)
    <3> DEFINE s == status_string \o Line
    <3>1. s \in Seq(Tokens)
      BY <2>1
    <3> HIDE DEF s
    <3>2. (s \o Rest) \o wire = s \o (Rest \o wire)
      BY <2>2, <3>1, ConcatAssociative
    <3> QED
      BY <3>2 DEF s
  <2> QED
    BY <2>1, <2>3, Zenon DEF Unread
<1>2. ~Full'
  <2>1. /\ Len(Rest) = Len(buffer_) - match_eol(buffer_) /\ match_eol(buffer_) \in 1 .. Len(buffer_)
        /\ Len(buffer_) <= MaxSize /\ Len(buffer_) \in Nat /\ MaxSize \in Nat
    BY Taken, RepliesAssumption DEF TypeOK
  <2>2. Len(Rest) # MaxSize
    BY <2>1
  <2> QED
    BY <2>2 DEF Full
<1>3. Sent' = Sent
  BY <1>1, <1>2 DEF Sent
<1>4. r \o t \in Streams
  BY StreamsBuilt
<1>5. InStream(r \o t)'
  BY <1>1, Zenon DEF InStream, AtReply
<1>6. Reading'
  BY <1>4, <1>5, Zenon
<1>7. ChannelStep
  <2>1. clean \in BOOLEAN /\ clean' \in BOOLEAN /\ (Full' <=> Full)
    BY <1>2 DEF TypeOK
  <2> QED
    BY <1>3, <2>1, Stutters
<1> QED
  BY <1>6, <1>7

\* A reply is returned, whole.
LEMMA ReplyDelivered ==
  ASSUME Reading, TypeOK', socket_ = "open", clean, ~Full, HasLine(buffer_), pc # "idle",
         NEW r \in Replies, NEW t \in Streams, AtReply(r, t),
         NEW s, s = status_string \o Line, Whole(r, s), Return(s)
  PROVE  Reading' /\ ChannelStep
<1>0. TypeOK
  BY DEF Reading
<1> DEFINE k == Len(status_string)
           v == Rest \o wire
<1>1. /\ s \in Seq(Tokens) /\ Len(s) \in k + 1 .. Len(r)
      /\ \A j \in 1 .. Len(s) : s[j] = r[j]
      /\ Unread = s \o v
  BY <1>0, LineTaken
<1>2. /\ result' = Reply(s) /\ pc' = "idle" /\ status_string' = <<>> /\ buffer_' = Rest
      /\ (clean' <=> (clean /\ ~(s[Len(s)] = CR /\ Rest = <<>> /\ wire # <<>> /\ wire[1] = LF)))
      /\ peer' = peer
  BY DEF Return
<1>3. /\ s[1].code = 421 => socket_' = "closed" /\ wire' = <<>>
      /\ s[1].code # 421 => socket_' = "open" /\ wire' = wire
  BY DEF Return
<1>4. /\ Rest \in Seq(Tokens) /\ wire \in Seq(Tokens) /\ v \in Seq(Tokens)
      /\ status_string \in Seq(Tokens) /\ k \in Nat
      /\ Len(Rest) = Len(buffer_) - match_eol(buffer_) /\ match_eol(buffer_) \in 1 .. Len(buffer_)
      /\ Line \in Seq(Tokens) /\ Len(Line) = match_eol(buffer_)
  BY <1>0, Taken DEF TypeOK
<1>5. ~Full'
  <2>1. /\ Len(Rest) = Len(buffer_) - match_eol(buffer_) /\ match_eol(buffer_) \in 1 .. Len(buffer_)
        /\ Len(buffer_) <= MaxSize /\ Len(buffer_) \in Nat /\ MaxSize \in Nat
    BY <1>0, <1>4, RepliesAssumption DEF TypeOK
  <2>2. Len(Rest) # MaxSize
    BY <2>1
  <2> QED
    BY <1>2, <2>2 DEF Full
<1>6. Sent = Decode[Unread]
  BY DEF Sent
<1>7. /\ r \in Seq(Tokens) /\ Len(r) \in Nat /\ Len(r) > 1 /\ r[Len(r)] = LF /\ r # <<>>
      /\ t \in Seq(Tokens)
  BY ReplyShape, StreamsBuilt
<1>8. s[1] = r[1] /\ Reply(s).code = s[1].code
  <2>1. 1 \in 1 .. Len(s)
    BY <1>1, <1>4
  <2> QED
    BY <1>1, <2>1 DEF Reply
<1>9. clean' \in BOOLEAN
  BY DEF TypeOK
<1> HIDE DEF k, v
<1>10. CASE s = r
  <2>1. clean'
    BY <1>2, <1>7, <1>10, LineEnds
  <2>2. Sent # <<>> /\ Head(Sent) = Reply(s) /\ Tail(Sent) = Decode[v]
    BY <1>1, <1>4, <1>6, <1>10, DecodeTail
  <2>3. s[1].code # 421 => Unread' = v
    <3> SUFFICES ASSUME s[1].code # 421 PROVE Unread' = v
      OBVIOUS
    <3>1. Unread' = (<<>> \o Rest) \o wire
      BY <1>2, <1>3 DEF Unread
    <3>2. <<>> \o Rest = Rest
      BY <1>4
    <3> QED
      BY <3>1, <3>2 DEF v
  <2>4. Sent' = IF socket_' = "open" THEN Tail(Sent) ELSE <<>>
    BY <1>3, <1>5, <2>1, <2>2, <2>3 DEF Sent
  <2>5. ChannelStep
    BY <1>2, <1>3, <1>5, <1>8, <1>9, <2>2, <2>4, Delivers
  <2>6. Reading'
    <3>1. CASE s[1].code = 421
      BY <1>2, <1>3, <3>1 DEF Reading
    <3>2. CASE s[1].code # 421
      <4>1. Unread' = v /\ Unread = r \o v
        BY <1>1, <1>10, <2>3, <3>2
      <4>2. IsPrefix(v, t)
        BY <1>4, <1>7, <4>1, AfterReply DEF AtReply
      <4>3. peer = "up" => v = t
        BY <1>4, <1>7, <4>1, AfterReply DEF AtReply
      <4>4. InStream(t)'
        BY <1>2, <4>1, <4>2, <4>3, Zenon DEF InStream
      <4>5. pc' = "idle"
        BY <1>2
      <4> QED
        BY <4>4, <4>5 DEF Reading
    <3> QED
      BY <3>1, <3>2
  <2> QED
    BY <2>5, <2>6
<1>11. CASE Append(s, LF) = r /\ Last(s) = CR /\ Rest = <<>>
  <2>1. Len(r) = Len(s) + 1 /\ Len(s) \in Nat \ {0} /\ s # <<>>
    <3>1. Len(Append(s, LF)) = Len(s) + 1
      BY <1>1
    <3> QED
      BY <1>1, <1>4, <1>11, <3>1
  <2>2. s[Len(s)] = CR
    BY <1>1, <1>11, <2>1, Ends
  <2>3. v = wire /\ Len(Line) = Len(buffer_) /\ Len(s) = k + Len(buffer_)
    <3>1. v = wire
      BY <1>4, <1>11 DEF v
    <3>2. Len(s) = k + Len(Line)
      BY <1>4 DEF k
    <3>3. Len(Rest) = 0 /\ Len(buffer_) \in Nat
      BY <1>0, <1>11 DEF TypeOK
    <3>4. Len(Line) = Len(buffer_)
      <4>1. /\ Len(Rest) = Len(buffer_) - match_eol(buffer_) /\ match_eol(buffer_) \in 1 .. Len(buffer_)
            /\ Len(Line) = match_eol(buffer_)
        BY <1>4
      <4> QED
        BY <3>3, <4>1
    <3> QED
      BY <3>1, <3>2, <3>4
  <2>4. Reply(s) = Reply(r)
    BY <1>1, <1>11, <2>1, ReplyOfCut
  <2>5. CASE wire = <<>>
    <3>1. Unread = s
      BY <1>1, <2>3, <2>5
    <3>2. peer # "up"
      <4>1. ASSUME peer = "up" PROVE FALSE
        <5>1. s = r \o t
          BY <3>1, <4>1 DEF AtReply
        <5>2. Len(r \o t) = Len(r) + Len(t) /\ Len(t) \in Nat
          BY <1>7
        <5> QED
          BY <1>7, <2>1, <5>1, <5>2
      <4> QED
        BY <4>1
    <3>3. Decode[s] = <<Reply(s)>>
      <4>1. IsPrefix(s, r)
        <5>1. s \in Seq(Tokens) /\ r \in Seq(Tokens) /\ Len(s) <= Len(r)
          BY <1>1, <1>7, <2>1
        <5> QED
          BY <1>1, <5>1, PrefixPointwise
      <4>2. ASSUME NEW q \in Replies, IsPrefix(q, s) PROVE FALSE
        <5>1. q \in Seq(Tokens) /\ Len(q) \in Nat
          BY ReplyShape
        <5>2. IsPrefix(q, r) /\ IsPrefix(r, r)
          BY <1>1, <1>7, <4>1, <4>2, <5>1, PrefixTransitive, PrefixOfConcatenation
        <5>3. q = r
          BY <1>7, <5>2, BothPrefixes
        <5>4. Len(q) <= Len(s)
          BY <1>1, <4>2, <5>1, PrefixPointwise
        <5> QED
          BY <2>1, <5>3, <5>4
      <4> QED
        BY <1>1, <1>11, <2>1, <4>2, DecodeCut
    <3>4. Sent # <<>> /\ Head(Sent) = Reply(s) /\ Tail(Sent) = <<>>
      <4>1. Sent = <<Reply(s)>>
        BY <1>6, <3>1, <3>3
      <4> QED
        BY <4>1
    <3>5. wire' = <<>> /\ Unread' = <<>>
      <4>1. wire' = <<>>
        BY <1>3, <2>5
      <4>2. Unread' = (<<>> \o <<>>) \o <<>>
        BY <1>2, <1>11, <4>1 DEF Unread
      <4> QED
        BY <4>1, <4>2
    <3>6. Sent' = <<>>
      BY <3>5, DecodeEmpty DEF Sent
    <3>7. ChannelStep
      BY <1>2, <1>3, <1>5, <1>8, <1>9, <3>4, <3>6, Delivers
    <3>8. LeftOver'
      <4>1. ~HasLine(<<>>)
        BY DEF HasLine, Eols
      <4>2. buffer_' = <<>> /\ status_string' = <<>> /\ peer' # "up"
        BY <1>2, <1>11, <3>2
      <4> QED
        BY <3>5, <4>1, <4>2 DEF LeftOver
    <3>9. Reading'
      BY <1>2, <3>8 DEF Reading
    <3> QED
      BY <3>7, <3>9
  <2>6. CASE wire # <<>>
    <3>1. wire[1] = LF
      <4>1. 1 \in 1 .. Len(wire) /\ k + Len(buffer_) + 1 = Len(r)
        BY <1>4, <2>1, <2>3, <2>6
      <4>2. wire[1] = r[k + Len(buffer_) + 1]
        BY <1>0, <1>7, <4>1, Position DEF k
      <4> QED
        BY <1>7, <4>1, <4>2
    <3>2. ~clean'
      BY <1>2, <1>11, <2>2, <2>6, <3>1
    <3>3. IsPrefix(r, Unread)
      <4> DEFINE u == Unread
                 w == r \o t
      <4>1. /\ u \in Seq(Tokens) /\ Len(u) = k + Len(buffer_) + Len(wire) /\ Len(wire) \in Nat
        BY <1>0, Layout DEF k
      <4>2. w \in Seq(Tokens) /\ \A j \in 1 .. Len(r) : w[j] = r[j]
        BY <1>7, Joined
      <4>3. IsPrefix(u, w)
        BY DEF AtReply
      <4> HIDE DEF u, w
      <4>4. Len(u) <= Len(w) /\ \A j \in 1 .. Len(u) : u[j] = w[j]
        BY <4>1, <4>2, <4>3, PrefixPointwise
      <4>5. Len(r) <= Len(u)
        <5>1. Len(wire) # 0
          BY <1>4, <2>6
        <5> QED
          BY <1>4, <2>1, <2>3, <4>1, <5>1
      <4>6. \A j \in 1 .. Len(r) : r[j] = u[j]
        BY <1>7, <4>1, <4>2, <4>4, <4>5
      <4>7. IsPrefix(r, u)
        BY <1>7, <4>1, <4>5, <4>6, PrefixPointwise
      <4> QED
        BY <4>7 DEF u
    <3>4. Unread \in Seq(Tokens)
      BY <1>0, Layout
    <3>5. Sent # <<>> /\ Head(Sent) = Reply(s)
      BY <1>6, <2>4, <3>3, <3>4, DecodePrefix
    <3>6. ChannelStep
      BY <1>2, <1>3, <1>5, <1>8, <1>9, <3>2, <3>5, Delivers
    <3>7. Reading'
      BY <1>2, <3>2 DEF Reading
    <3> QED
      BY <3>6, <3>7
  <2> QED
    BY <2>5, <2>6
<1> QED
  BY <1>10, <1>11 DEF Whole

\* Whoever reads a line while the channel is sound reads the next reply.
LEMMA LineOfReply ==
  ASSUME Reading, socket_ = "open", clean, HasLine(buffer_)
  PROVE  /\ ~Full
         /\ \E r \in Replies, t \in Streams : AtReply(r, t)
<1>1. ~Full
  BY DEF Full
<1>2. TypeOK
  BY DEF Reading
<1>3. PICK w \in Streams : InStream(w)
  BY <1>1 DEF Reading, LeftOver
<1>4. Unread \in Seq(Tokens) /\ Unread # <<>>
  <2>1. /\ Unread \in Seq(Tokens) /\ Len(Unread) = Len(status_string) + Len(buffer_) + Len(wire)
        /\ Len(status_string) \in Nat /\ Len(buffer_) \in Nat /\ Len(wire) \in Nat
    BY <1>2, Layout
  <2>2. Len(buffer_) > 0
    <3>1. match_eol(buffer_) \in 1 .. Len(buffer_)
      BY <1>2, Taken DEF TypeOK
    <3> QED
      BY <2>1, <3>1
  <2>3. Len(Unread) > 0
    BY <2>1, <2>2
  <2> QED
    BY <2>1, <2>3
<1> QED
  BY <1>1, <1>2, <1>3, <1>4, NextReply

\* The first line of a reply.
LEMMA FirstLineSteps ==
  ASSUME Reading, TypeOK', FirstLine
  PROVE  Reading' /\ ChannelStep
<1>1. TypeOK /\ pc = "first" /\ HasLine(buffer_) /\ socket_ = "open"
  BY DEF Reading, FirstLine
<1>2. CASE clean
  <2>1. PICK r \in Replies, t \in Streams : AtReply(r, t)
    BY <1>1, <1>2, LineOfReply
  <2>2. ~Full
    BY <1>1, <1>2, LineOfReply
  <2>3. /\ status_string \o Line = Line /\ Line[1].code > 0
        /\ Line[1].next # "-" => Whole(r, Line)
        /\ Line[1].next = "-" => Begun(r, Line)
    BY <1>1, <2>1, FirstLineTaken
  <2>4. CASE Line[1].next # "-"
    <3>1. Return(Line)
      BY <2>3, <2>4 DEF FirstLine
    <3> QED
      BY <1>1, <1>2, <2>1, <2>2, <2>3, <2>4, <3>1, ReplyDelivered
  <2>5. CASE Line[1].next = "-"
    <3>1. /\ pc' = "more" /\ buffer_' = Rest /\ status_string' = Line
          /\ UNCHANGED <<socket_, wire, peer, result, clean>>
      BY <2>3, <2>5 DEF FirstLine
    <3>2. UNCHANGED <<wire, socket_, peer, result>> /\ (clean' <=> clean)
      BY <3>1, Zenon
    <3> QED
      BY <1>1, <1>2, <2>1, <2>2, <2>3, <2>5, <3>1, <3>2, LineKept
  <2> QED
    BY <2>4, <2>5
<1>3. CASE ~clean
  <2>1. ~clean'
    BY <1>3 DEF FirstLine, Return
  <2>2. pc' # "idle" => socket_' = "open"
    BY <1>1 DEF FirstLine, Return
  <2> QED
    BY <1>3, <2>1, <2>2, Spoilt DEF Reading
<1> QED
  BY <1>2, <1>3

\* The lines that follow.
LEMMA MoreLinesSteps ==
  ASSUME Reading, TypeOK', MoreLines
  PROVE  Reading' /\ ChannelStep
<1>1. TypeOK /\ pc = "more" /\ HasLine(buffer_) /\ socket_ = "open"
  BY DEF Reading, MoreLines
<1>2. CASE clean
  <2>1. PICK r \in Replies, t \in Streams : AtReply(r, t)
    BY <1>1, <1>2, LineOfReply
  <2>2. ~Full
    BY <1>1, <1>2, LineOfReply
  <2>3. /\ is_last_line => Whole(r, status_string \o Line)
        /\ ~is_last_line => Begun(r, status_string \o Line)
    BY <1>1, <2>1, LaterLineTaken
  <2>4. CASE is_last_line
    <3>1. Return(status_string \o Line)
      BY <2>4 DEF MoreLines
    <3> QED
      BY <1>1, <1>2, <2>1, <2>2, <2>3, <2>4, <3>1, ReplyDelivered
  <2>5. CASE ~is_last_line
    <3>1. /\ status_string' = status_string \o Line /\ buffer_' = Rest
          /\ UNCHANGED <<socket_, wire, peer, pc, result, clean>>
      BY <2>5 DEF MoreLines
    <3>2. UNCHANGED <<wire, socket_, peer, result, pc>> /\ (clean' <=> clean)
      BY <3>1, Zenon
    <3>3. pc' # "idle"
      BY <1>1, <3>2
    <3> QED
      BY <1>1, <1>2, <2>1, <2>2, <2>3, <2>5, <3>1, <3>2, <3>3, LineKept
  <2> QED
    BY <2>4, <2>5
<1>3. CASE ~clean
  <2>1. ~clean'
    BY <1>3 DEF MoreLines, Return
  <2>2. pc' # "idle" => socket_' = "open"
    BY <1>1 DEF MoreLines, Return
  <2> QED
    BY <1>3, <2>1, <2>2, Spoilt DEF Reading
<1> QED
  BY <1>2, <1>3

\* Nothing is decoded when the connection has ended within a line.
LEMMA NothingSent ==
  ASSUME Reading, pc # "idle", ~HasLine(buffer_), ~Full, clean, wire = <<>>, peer # "up"
  PROVE  Sent = <<>>
<1>0. TypeOK /\ socket_ = "open"
  BY DEF Reading
<1>1. Sent = Decode[Unread]
  BY <1>0 DEF Sent
<1>2. buffer_ \in Seq(Tokens) /\ status_string \in Seq(Tokens)
  BY <1>0 DEF TypeOK
<1>3. CASE status_string = <<>>
  <2>1. Unread = (<<>> \o buffer_) \o <<>>
    BY <1>3 DEF Unread
  <2>2. Unread = buffer_
    BY <1>2, <2>1
  <2> QED
    BY <1>1, <1>2, <2>2, DecodeNoLine
<1>4. CASE status_string # <<>>
  <2>0. Unread \in Seq(Tokens) /\ Unread # <<>>
    <3>1. /\ Unread \in Seq(Tokens) /\ Len(Unread) = Len(status_string) + Len(buffer_) + Len(wire)
          /\ Len(status_string) \in Nat /\ Len(buffer_) \in Nat /\ Len(wire) \in Nat
      BY <1>0, Layout
    <3>2. Len(status_string) # 0
      BY <1>2, <1>4
    <3>3. Len(Unread) # 0
      BY <3>1, <3>2
    <3> QED
      BY <3>1, <3>3
  <2>1. PICK w \in Streams : InStream(w)
    BY <1>0, <1>4 DEF Reading, LeftOver
  <2>2. PICK r \in Replies, t \in Streams : w = r \o t /\ AtReply(r, t)
    BY <1>0, <2>0, <2>1, NextReply
  <2> DEFINE k == Len(status_string)
             l == Len(buffer_)
             u == Unread
  <2>3. /\ u \in Seq(Tokens) /\ Len(u) = k + l /\ k \in Nat /\ l \in Nat
        /\ \A i \in 1 .. k : u[i] = status_string[i]
        /\ \A i \in 1 .. l : u[k + i] = buffer_[i]
    <3>1. Len(wire) = 0
      OBVIOUS
    <3> QED
      BY <1>0, <3>1, Layout
  <2>4. Begun(r, status_string)
    BY <1>4, <2>2 DEF AtReply
  <2>5. \A j \in 1 .. l : k + j <= Len(r) => buffer_[j] = r[k + j]
    BY <1>0, <2>2, Position
  <2>6. \A i \in 1 .. l : buffer_[i] \notin {CR, LF}
    BY DEF HasLine, Eols
  <2>7. r \in Seq(Tokens) /\ Len(r) \in Nat /\ r[Len(r)] = LF /\ LastLines(r) # {} /\ t \in Seq(Tokens)
    BY <2>4, ReplyShape, StreamsBuilt DEF Begun
  <2>8. k \in 1 .. Len(r) - 1
    BY <2>4 DEF Begun
  <2> HIDE DEF k, l, u
  <2>9. k + l < Len(r)
    <3>1. ASSUME k + l >= Len(r) PROVE FALSE
      <4> DEFINE j == Len(r) - k
      <4>1. j \in 1 .. l /\ k + j = Len(r)
        BY <2>3, <2>7, <2>8, <3>1
      <4> HIDE DEF j
      <4>2. buffer_[j] = LF
        BY <2>5, <2>7, <4>1
      <4> QED
        BY <2>6, <4>1, <4>2
    <3> QED
      BY <2>3, <2>7, <3>1
  <2>10. ASSUME Decode[u] # <<>> PROVE FALSE
    <3>1. Append(u, LF) = r /\ Last(u) = CR
      <4>1. IsPrefix(u, r \o t)
        BY <2>2 DEF AtReply, u
      <4>2. Len(u) < Len(r)
        BY <2>3, <2>9
      <4> QED
        BY <2>3, <2>7, <2>10, <4>1, <4>2, DecodeHead
    <3>2. Len(Append(u, LF)) = Len(u) + 1 /\ Len(u) \in Nat \ {0} /\ Last(u) = u[Len(u)]
      <4>1. u # <<>>
        BY <2>0 DEF u
      <4>2. u \in Seq(Tokens)
        BY <2>3
      <4>3. Len(u) \in Nat \ {0} /\ Last(u) = u[Len(u)]
        BY <4>1, <4>2, Ends
      <4>4. Len(Append(u, LF)) = Len(u) + 1
        BY <4>2
      <4> QED
        BY <4>3, <4>4
    <3>3. Len(r) = k + l + 1 /\ u[k + l] = CR
      BY <2>3, <3>1, <3>2
    <3>4. l = 0
      <4>1. ASSUME l # 0 PROVE FALSE
        <5>1. l \in 1 .. l
          BY <2>3, <4>1
        <5>2. buffer_[l] = CR
          BY <2>3, <3>3, <5>1
        <5> QED
          BY <2>6, <5>1, <5>2
      <4> QED
        BY <4>1
    <3>5. PICK i \in LastLines(r) : TRUE
      BY <2>7
    <3>6. k < i /\ i \in LineStarts(r) /\ r[i] = Word(r[1].code, " ")
      BY <2>4 DEF Begun, LastLines, k
    <3>7. i = 1 \/ i \in 2 .. Len(r)
      BY <2>7, <3>6, LineStart
    <3>8. i = Len(r)
      <4>0. k \in Nat /\ Len(r) \in Nat /\ 1 <= k
        BY <2>3, <2>7, <2>8
      <4>3. Len(r) = k + l + 1
        BY <3>3
      <4>4. Len(r) = k + 1
        BY <3>4, <4>0, <4>3
      <4>5. k < i
        BY <3>6
      <4>1. k \in Nat /\ 1 <= k /\ Len(r) = k + 1 /\ k < i
        BY <4>0, <4>4, <4>5
      <4>2. i # 1 /\ i <= Len(r) /\ i \in Nat
        BY <3>7, <4>1
      <4> QED
        BY <4>1, <4>2
    <3> DEFINE x == Word(r[1].code, " ")
    <3>9. x.code = r[1].code
      BY WordFields
    <3>10. x = LF
      BY <2>7, <3>6, <3>8
    <3> HIDE DEF x
    <3>11. r[1].code \in Nat \ {0}
      BY ReplyShape
    <3> QED
      BY <3>9, <3>10, <3>11, LineEnds
  <2> QED
    BY <1>1, <2>10 DEF u
<1> QED
  BY <1>3, <1>4

\* recv() throws.
LEMMA ThrowSteps ==
  ASSUME Reading, TypeOK', EndOfFile \/ ReadFails
  PROVE  Reading' /\ ChannelStep
<1>1. TypeOK /\ pc # "idle" /\ socket_ = "open" /\ ~HasLine(buffer_)
      /\ (Full \/ (wire = <<>> /\ peer # "up"))
  BY DEF Reading, EndOfFile, ReadFails
<1>2. Throw
  BY DEF EndOfFile, ReadFails
<1>3. /\ pc' = "idle" /\ status_string' = <<>> /\ result' = Exception
      /\ UNCHANGED <<buffer_, socket_, wire, peer, clean>>
  BY <1>2 DEF Throw
<1>4. UNCHANGED <<buffer_, socket_, wire, peer>> /\ (clean' <=> clean)
  BY <1>3, Zenon
<1>5. (Full' <=> Full) /\ clean \in BOOLEAN /\ clean' \in BOOLEAN
  BY <1>1, <1>4 DEF Full, TypeOK
<1>6. CASE ~clean
  BY <1>3, <1>4, <1>6, Spoilt DEF Reading
<1>7. ASSUME clean, Full \/ Sent = <<>>, Sent' = Sent PROVE ChannelStep
  <2>1. clean' = clean /\ Full' = Full /\ (socket_' = "open") = (socket_ = "open") /\ (peer' = "up") = (peer = "up")
    BY <1>4, <1>5 DEF Full
  <2>2. Channel!Fail
    BY <1>1, <1>3, <1>7, <2>1 DEF Channel!Fail
  <2> QED
    BY <2>2 DEF ChannelStep, Channel!Next
<1>8. CASE clean /\ Full
  <2>1. Sent = <<>> /\ Sent' = <<>>
    BY <1>5, <1>8 DEF Sent
  <2>2. ChannelStep
    BY <1>7, <1>8, <2>1
  <2>3. Reading'
    BY <1>3, <1>5, <1>8 DEF Reading
  <2> QED
    BY <2>2, <2>3
<1>9. CASE clean /\ ~Full
  <2>1. wire = <<>> /\ peer # "up"
    BY <1>1, <1>9
  <2>2. Sent = <<>>
    BY <1>1, <1>9, <2>1, NothingSent
  <2>3. buffer_ \in Seq(Tokens)
    BY <1>1 DEF TypeOK
  <2>4. Unread' = buffer_
    <3>1. Unread' = (<<>> \o buffer_) \o <<>>
      BY <1>3, <1>4, <2>1 DEF Unread
    <3> QED
      BY <2>3, <3>1
  <2>5. Sent' = <<>>
    BY <1>1, <2>3, <2>4, DecodeNoLine DEF Sent
  <2>6. ChannelStep
    BY <1>7, <1>9, <2>2, <2>5
  <2>7. LeftOver'
    BY <1>1, <1>3, <1>4, <2>1 DEF LeftOver, HasLine, Eols
  <2>8. Reading'
    BY <1>3, <2>7 DEF Reading
  <2> QED
    BY <2>6, <2>8
<1> QED
  BY <1>6, <1>8, <1>9

\* A buffer that is full without a line lies within one line of the reply.
LEMMA LineTooLong ==
  ASSUME TypeOK, NEW r \in Replies, NEW k \in Nat, k < Len(r), NEW b \in Seq(Tokens),
         ~HasLine(b), Len(b) = MaxSize,
         \A j \in 1 .. Len(b) : k + j <= Len(r) => b[j] = r[k + j],
         k # 0 => r[k] \in {CR, LF}
  PROVE  TooLong(r)
<1>1. /\ r \in Seq(Tokens) /\ Len(r) \in Nat /\ r[Len(r)] = LF /\ MaxSize \in Nat \ {0}
  BY ReplyShape, RepliesAssumption
<1>2. \A i \in 1 .. MaxSize : b[i] \notin {CR, LF}
  BY DEF HasLine, Eols
<1>3. k + MaxSize < Len(r)
  <2>1. ASSUME k + MaxSize >= Len(r) PROVE FALSE
    <3> DEFINE j == Len(r) - k
    <3>1. j \in 1 .. MaxSize /\ k + j = Len(r)
      BY <1>1, <2>1
    <3> HIDE DEF j
    <3>2. b[j] = LF
      BY <1>1, <3>1
    <3> QED
      BY <1>2, <3>1, <3>2
  <2> QED
    BY <1>1, <2>1
<1>4. \A j \in 1 .. MaxSize : r[k + j] \notin {CR, LF}
  <2> TAKE j \in 1 .. MaxSize
  <2>1. k + j <= Len(r)
    BY <1>1, <1>3
  <2> QED
    BY <1>2, <2>1
<1>5. \A j \in k + 1 .. (k + 1) + MaxSize - 1 : j <= Len(r) /\ r[j] \notin {CR, LF}
  <2> TAKE j \in k + 1 .. (k + 1) + MaxSize - 1
  <2>1. j - k \in 1 .. MaxSize /\ k + (j - k) = j /\ j <= Len(r)
    BY <1>1, <1>3
  <2>2. r[k + (j - k)] \notin {CR, LF}
    BY <1>4, <2>1
  <2> QED
    BY <2>1, <2>2
<1>6. k + 1 \in LineStarts(r)
  <2>1. CASE k = 0
    BY <1>1, <2>1, LineStart
  <2>2. CASE k # 0
    <3>1. k + 1 \in 2 .. Len(r) /\ (k + 1) - 1 = k /\ k \in 1 .. Len(r)
      BY <1>1, <2>2
    <3>2. 1 \in 1 .. MaxSize
      BY <1>1
    <3>3. r[k + 1] \notin {CR, LF} /\ r[k] \in {CR, LF}
      BY <1>4, <2>2, <3>2
    <3> QED
      BY <1>1, <3>1, <3>3, LineStart
  <2> QED
    BY <2>1, <2>2
<1> QED
  BY <1>5, <1>6 DEF TooLong

\* The socket is read: the reply stays where it is, or it is too long.
LEMMA ReadSteps ==
  ASSUME Reading, TypeOK', Read
  PROVE  Reading' /\ ChannelStep
<1>1. TypeOK /\ pc # "idle" /\ socket_ = "open" /\ ~HasLine(buffer_)
  BY DEF Reading, Read
<1>2. /\ UNCHANGED <<socket_, peer, pc, status_string, result>> /\ (clean' <=> clean)
  BY Zenon DEF Read
<1>3. PICK n \in 1 .. Len(wire) :
          /\ Len(buffer_) + n <= MaxSize
          /\ buffer_' = buffer_ \o SubSeq(wire, 1, n)
          /\ wire' = SubSeq(wire, n + 1, Len(wire))
  BY DEF Read
<1>4. buffer_ \in Seq(Tokens) /\ wire \in Seq(Tokens) /\ status_string \in Seq(Tokens)
      /\ buffer_' \in Seq(Tokens) /\ wire' \in Seq(Tokens)
  BY <1>1 DEF TypeOK
<1>5. Len(wire) \in Nat /\ n \in 0 .. Len(wire) /\ Len(wire) # 0 /\ Len(buffer_) \in Nat /\ MaxSize \in Nat
  BY <1>4, RepliesAssumption
<1>6. ~Full
  <2>1. Len(buffer_) # MaxSize
    BY <1>3, <1>5
  <2> QED
    BY <2>1 DEF Full
<1>7. Unread' = Unread
  <2> DEFINE a == SubSeq(wire, 1, n)
             b == SubSeq(wire, n + 1, Len(wire))
  <2>1. a \in Seq(Tokens) /\ b \in Seq(Tokens) /\ a \o b = wire
    BY <1>4, <1>5, Cut
  <2> HIDE DEF a, b
  <2>a. status_string \in Seq(Tokens) /\ buffer_ \in Seq(Tokens) /\ a \in Seq(Tokens)
    BY <1>4, <2>1
  <2>b. (status_string \o buffer_) \o a = status_string \o (buffer_ \o a)
    BY <2>a, ConcatAssociative
  <2>2. (status_string \o (buffer_ \o a)) \o b = ((status_string \o buffer_) \o a) \o b
    BY <2>b, Zenon
  <2> DEFINE u == status_string \o buffer_
  <2>3. u \in Seq(Tokens)
    BY <1>4
  <2> HIDE DEF u
  <2>c. u \in Seq(Tokens) /\ a \in Seq(Tokens) /\ b \in Seq(Tokens)
    BY <2>1, <2>3
  <2>4. (u \o a) \o b = u \o (a \o b)
    BY <2>c, ConcatAssociative
  <2>5. Unread' = (status_string \o (buffer_ \o a)) \o b
    BY <1>2, <1>3 DEF Unread, a, b
  <2> QED
    BY <2>1, <2>2, <2>4, <2>5 DEF Unread, u
<1>8. clean \in BOOLEAN /\ clean' \in BOOLEAN
  BY <1>1 DEF TypeOK
<1>9. CASE ~clean
  <2>1. pc' # "idle" => socket_' = "open"
    BY <1>1, <1>2
  <2> QED
    BY <1>2, <1>9, <2>1, Spoilt DEF Reading
<1>10. CASE clean
  <2>1. PICK w \in Streams : InStream(w)
    BY <1>1, <1>5, <1>6, <1>10 DEF Reading, LeftOver
  <2>2. InStream(w)'
    BY <1>2, <1>7, <2>1, Zenon DEF InStream
  <2>3. Reading'
    <3>1. pc' # "idle" => socket_' = "open"
      BY <1>1, <1>2
    <3> QED
      BY <2>2, <3>1 DEF Reading
  <2>4. CASE ~Full'
    <3>1. Sent' = Sent
      BY <1>2, <1>6, <1>7, <2>4 DEF Sent
    <3>2. ChannelStep
      BY <1>2, <1>6, <1>8, <2>4, <3>1, Stutters
    <3> QED
      BY <2>3, <3>2
  <2>5. CASE Full'
    <3>1. Unread \in Seq(Tokens) /\ Unread # <<>>
      <4>1. /\ Unread \in Seq(Tokens) /\ Len(Unread) = Len(status_string) + Len(buffer_) + Len(wire)
            /\ Len(status_string) \in Nat /\ Len(buffer_) \in Nat /\ Len(wire) \in Nat
        BY <1>1, Layout
      <4>2. Len(Unread) # 0
        BY <1>5, <4>1
      <4> QED
        BY <4>1, <4>2
    <3>2. PICK r \in Replies, t \in Streams : w = r \o t /\ AtReply(r, t)
      BY <1>1, <2>1, <3>1, NextReply
    <3>3. IsPrefix(Unread, r \o t) /\ (peer = "up" => Unread = r \o t) /\ t \in Seq(Tokens)
      BY <3>2, StreamsBuilt DEF AtReply
    <3>4. Sent = Decode[Unread] /\ Sent' = <<>>
      BY <1>1, <1>6, <1>10, <2>5 DEF Sent
    <3>5. Sent = <<>> => peer # "up"
      BY <3>3, <3>4, DecodeTail
    <3>6. Sent # <<>> => Head(Sent) = Reply(r)
      BY <3>1, <3>3, <3>4, DecodeHead
    <3>7. TooLong(r)
      <4> DEFINE k == Len(status_string)
      <4>0. /\ k < Len(r) /\ \A j \in 1 .. Len(buffer_) : k + j <= Len(r) => buffer_[j] = r[k + j]
            /\ \A j \in 1 .. Len(wire) : k + Len(buffer_) + j <= Len(r) => wire[j] = r[k + Len(buffer_) + j]
        BY <1>1, <3>2, Position
      <4>1. k \in Nat
        BY <1>4
      <4>2. k # 0 => r[k] \in {CR, LF}
        <5> SUFFICES ASSUME k # 0 PROVE r[k] \in {CR, LF}
          OBVIOUS
        <5>1. status_string # <<>>
          BY <1>4
        <5>2. Begun(r, status_string)
          BY <3>2, <5>1 DEF AtReply
        <5>3. /\ \A j \in 1 .. k : status_string[j] = r[j]
              /\ status_string[k] \in {CR, LF} /\ k \in 1 .. k
          BY <4>1, <5>2 DEF Begun
        <5> QED
          BY <5>3
      <4>3. \A j \in 1 .. Len(buffer_') : k + j <= Len(r) => buffer_'[j] = r[k + j]
        <5> DEFINE a == SubSeq(wire, 1, n)
        <5>1. a \in Seq(Tokens) /\ Len(a) = n /\ \A i \in 1 .. n : a[i] = wire[i]
          BY <1>4, <1>5, Cut
        <5> HIDE DEF a
        <5>2. /\ Len(buffer_ \o a) = Len(buffer_) + n
              /\ \A i \in 1 .. Len(buffer_) : (buffer_ \o a)[i] = buffer_[i]
              /\ \A i \in 1 .. Len(buffer_) + n : i > Len(buffer_) => (buffer_ \o a)[i] = a[i - Len(buffer_)]
          <6>1. buffer_ \in Seq(Tokens) /\ a \in Seq(Tokens)
            BY <1>4, <5>1
          <6>2. /\ Len(buffer_ \o a) = Len(buffer_) + Len(a)
                /\ \A i \in 1 .. Len(buffer_) : (buffer_ \o a)[i] = buffer_[i]
                /\ \A i \in 1 .. Len(buffer_) + Len(a) : i > Len(buffer_) => (buffer_ \o a)[i] = a[i - Len(buffer_)]
            BY <6>1, Joined
          <6> QED
            BY <5>1, <6>2
        <5>3. buffer_' = buffer_ \o a
          BY <1>3 DEF a
        <5> HIDE DEF k
        <5> SUFFICES ASSUME NEW j \in 1 .. Len(buffer_) + n, k + j <= Len(r)
                     PROVE  (buffer_ \o a)[j] = r[k + j]
          BY <5>2, <5>3
        <5>4. CASE j <= Len(buffer_)
          <6>1. j \in 1 .. Len(buffer_)
            BY <1>5, <5>4
          <6> QED
            BY <4>0, <5>2, <6>1
        <5>5. CASE j > Len(buffer_)
          <6>1. /\ j - Len(buffer_) \in 1 .. n /\ j - Len(buffer_) \in 1 .. Len(wire)
                /\ k + Len(buffer_) + (j - Len(buffer_)) = k + j
            BY <1>5, <4>1, <5>5
          <6>2. (buffer_ \o a)[j] = wire[j - Len(buffer_)]
            BY <5>1, <5>2, <5>5, <6>1
          <6>3. wire[j - Len(buffer_)] = r[k + j]
            BY <4>0, <6>1
          <6> QED
            BY <6>2, <6>3
        <5>6. j \in Nat /\ Len(buffer_) \in Nat
          BY <1>5
        <5>7. j <= Len(buffer_) \/ j > Len(buffer_)
          BY <5>6
        <5> QED
          BY <5>4, <5>5, <5>7, Zenon
      <4>4. ~HasLine(buffer_') /\ Len(buffer_') = MaxSize
        BY <2>5 DEF Full
      <4> HIDE DEF k
      <4> QED
        BY <1>1, <1>4, <4>0, <4>1, <4>2, <4>3, <4>4, LineTooLong
    <3>8. Channel!Break
      <4>1. /\ Full' = TRUE
            /\ clean' = clean /\ (socket_' = "open") = (socket_ = "open") /\ (peer' = "up") = (peer = "up")
            /\ pc' = pc /\ result' = result
        BY <1>2, <1>8, <2>5 DEF Full
      <4>2. Sent # <<>> => Head(Sent) \in {Reply(q) : q \in {x \in Replies : TooLong(x)}}
        BY <3>6, <3>7
      <4> QED
        BY <1>1, <3>4, <3>5, <4>1, <4>2 DEF Channel!Break
    <3> QED
      BY <2>3, <3>8 DEF ChannelStep, Channel!Next
  <2> QED
    BY <2>4, <2>5
<1> QED
  BY <1>9, <1>10

\* A new connection is clean if nothing is left in the buffer.
LEMMA ConnectSteps ==
  ASSUME Reading, TypeOK', connect
  PROVE  Reading' /\ ChannelStep
<1>1. TypeOK /\ pc = "idle" /\ status_string = <<>>
  BY DEF Reading, connect, TypeOK
<1>2. /\ socket_' = "open" /\ peer' = "up" /\ wire' = <<>>
      /\ UNCHANGED <<buffer_, pc, status_string, result>>
      /\ (clean' <=> (buffer_ = <<>> \/ Full)) /\ clean' \in BOOLEAN
  BY Zenon DEF connect, TypeOK
<1>3. (Full' <=> Full) /\ Full \in BOOLEAN /\ Full' \in BOOLEAN
  BY <1>2 DEF Full
<1>4. buffer_ = <<>> => Unread' = <<>>
  <2>1. <<>> \o <<>> = <<>>
    OBVIOUS
  <2> QED
    BY <1>1, <1>2, <2>1 DEF Unread
<1>5. Sent' = <<>>
  <2>1. CASE buffer_ = <<>>
    BY <1>4, <2>1, DecodeEmpty DEF Sent
  <2>2. CASE buffer_ # <<>>
    BY <1>2, <1>3, <2>2 DEF Sent
  <2> QED
    BY <2>1, <2>2
<1>6. ChannelStep
  <2>1. Full' = Full /\ (socket_' = "open") = TRUE /\ (peer' = "up") = TRUE /\ pc' = pc /\ result' = result
    BY <1>2, <1>3
  <2>2. Channel!Connect
    BY <1>1, <1>2, <1>5, <2>1 DEF Channel!Connect
  <2> QED
    BY <2>2 DEF ChannelStep, Channel!Next
<1>7. Reading'
  <2>1. CASE buffer_ = <<>>
    <3>1. Unread' = <<>> /\ <<>> \in Streams /\ <<>> \in Seq(Tokens)
      BY <1>4, <2>1, StreamsBuilt
    <3>2. IsPrefix(<<>>, <<>>)
      <4>1. \A s \in Seq(Tokens) : IsPrefix(s, s)
        BY PrefixPointwise
      <4> QED
        BY <3>1, <4>1
    <3>3. InStream(<<>>)'
      BY <1>1, <1>2, <3>1, <3>2 DEF InStream
    <3> QED
      BY <1>1, <1>2, <3>1, <3>3 DEF Reading
  <2>2. CASE buffer_ # <<>>
    BY <1>1, <1>2, <1>3, <2>2 DEF Reading
  <2> QED
    BY <2>1, <2>2
<1> QED
  BY <1>6, <1>7

\* Nothing is read any more.
LEMMA DisconnectSteps ==
  ASSUME Reading, TypeOK', disconnect
  PROVE  Reading' /\ ChannelStep
<1>1. /\ pc = "idle" /\ socket_ = "open" /\ socket_' = "closed"
      /\ UNCHANGED <<buffer_, peer, pc, status_string, result>>
      /\ (clean' <=> clean) /\ clean \in BOOLEAN /\ clean' \in BOOLEAN
  BY Zenon DEF disconnect, TypeOK, Reading
<1>2. (Full' <=> Full) /\ Full \in BOOLEAN /\ Full' \in BOOLEAN
  BY <1>1 DEF Full
<1>3. Sent' = <<>>
  BY <1>1 DEF Sent
<1>4. /\ Full' = Full /\ (socket_' = "open") = FALSE /\ (peer' = "up") = (peer = "up")
      /\ pc' = pc /\ result' = result /\ clean' = clean
  BY <1>1, <1>2
<1>5. Channel!Close
  BY <1>1, <1>3, <1>4 DEF Channel!Close
<1>6. Reading'
  BY <1>1 DEF Reading
<1> QED
  BY <1>5, <1>6 DEF ChannelStep, Channel!Next

\* Only what the invariant does not speak of changes.
LEMMA ReadingKept ==
  ASSUME Reading, TypeOK', UNCHANGED <<buffer_, socket_, wire, peer, status_string>>,
         clean' <=> clean, pc' # "idle" => socket_ = "open"
  PROVE  Reading' /\ Sent' = Sent /\ (Full' <=> Full)
<1>1. (Full' <=> Full) /\ Unread' = Unread /\ (LeftOver' <=> LeftOver)
  BY DEF Full, Unread, LeftOver, HasLine, Eols
<1>2. Sent' = Sent
  BY <1>1 DEF Sent
<1>3. \A w : InStream(w)' <=> InStream(w)
  BY <1>1, Zenon DEF InStream
<1>4. Reading'
  BY <1>1, <1>3 DEF Reading
<1> QED
  BY <1>1, <1>2, <1>4

\* recv() is called.
LEMMA RecvSteps ==
  ASSUME Reading, TypeOK', recv
  PROVE  Reading' /\ ChannelStep
<1>1. /\ pc = "idle" /\ socket_ = "open" /\ pc' = "first"
      /\ UNCHANGED <<buffer_, socket_, wire, peer, status_string, result>>
      /\ (clean' <=> clean) /\ clean \in BOOLEAN /\ clean' \in BOOLEAN
  BY Zenon DEF recv, TypeOK, Reading
<1>2. Reading' /\ Sent' = Sent /\ (Full' <=> Full)
  BY <1>1, ReadingKept
<1>3. /\ Full' = Full /\ (socket_' = "open") = (socket_ = "open") /\ (peer' = "up") = (peer = "up")
      /\ result' = result /\ clean' = clean
  BY <1>1, <1>2 DEF Full
<1>4. Channel!Call
  BY <1>1, <1>2, <1>3 DEF Channel!Call
<1> QED
  BY <1>2, <1>4 DEF ChannelStep, Channel!Next

\* A step that changes nothing.
LEMMA NothingSteps ==
  ASSUME Reading, TypeOK', UNCHANGED vars
  PROVE  Reading' /\ ChannelStep
<1>1. /\ UNCHANGED <<buffer_, socket_, wire, peer, pc, status_string, result>>
      /\ (clean' <=> clean) /\ clean \in BOOLEAN /\ clean' \in BOOLEAN
  BY Zenon DEF vars, TypeOK, Reading
<1>2. Reading' /\ Sent' = Sent /\ (Full' <=> Full)
  BY <1>1, ReadingKept DEF Reading
<1> QED
  BY <1>1, <1>2, Stutters

\* The server writes one more reply.
LEMMA WriteSteps ==
  ASSUME Reading, TypeOK', NEW r \in Replies, Write(r)
  PROVE  Reading' /\ ChannelStep
<1>1. /\ socket_ = "open" /\ peer = "up" /\ clean /\ wire' = wire \o r /\ TypeOK
      /\ UNCHANGED <<buffer_, socket_, peer, pc, status_string, result>>
      /\ (clean' <=> clean) /\ clean \in BOOLEAN /\ clean' \in BOOLEAN
  BY Zenon DEF Write, TypeOK, Reading
<1>2. (Full' <=> Full)
  BY <1>1 DEF Full
<1>3. CASE Full
  <2>1. Sent = <<>> /\ Sent' = <<>>
    BY <1>2, <1>3 DEF Sent
  <2>2. Reading'
    BY <1>1, <1>2, <1>3 DEF Reading
  <2> QED
    BY <1>1, <1>2, <2>1, <2>2, Stutters
<1>4. CASE ~Full
  <2>1. PICK w \in Streams : InStream(w)
    BY <1>1, <1>4 DEF Reading, LeftOver
  <2>2. Unread = w /\ w \in Seq(Tokens) /\ r \in Seq(Tokens)
    BY <1>1, <2>1, StreamsBuilt, ReplyShape DEF InStream
  <2>3. Unread' = w \o r
    <3> DEFINE u == status_string \o buffer_
    <3>1. u \in Seq(Tokens) /\ wire \in Seq(Tokens) /\ r \in Seq(Tokens)
      BY <1>1, <2>2 DEF TypeOK
    <3>2. Unread' = u \o (wire \o r) /\ w = u \o wire
      BY <1>1, <2>2 DEF Unread
    <3> HIDE DEF u
    <3>3. (u \o wire) \o r = u \o (wire \o r)
      BY <3>1, ConcatAssociative
    <3> QED
      BY <3>2, <3>3, Zenon
  <2> DEFINE v == w \o r
  <2>4. v \in Streams /\ v \in Seq(Tokens)
    BY StreamsGrow, StreamsBuilt
  <2>5. \A q \in Replies, t \in Streams : w = q \o t => \E s \in Streams : v = q \o s
    <3> TAKE q \in Replies, t \in Streams
    <3> HAVE w = q \o t
    <3>1. q \in Seq(Tokens) /\ t \in Seq(Tokens) /\ r \in Seq(Tokens)
      BY <2>2, ReplyShape, StreamsBuilt
    <3>2. (q \o t) \o r = q \o (t \o r)
      BY <3>1, ConcatAssociative
    <3>3. t \o r \in Streams
      BY StreamsGrow
    <3> QED
      BY <3>2, <3>3
  <2>6. Decode[v] = Append(Decode[w], Reply(r))
    BY DecodeGrow
  <2> HIDE DEF v
  <2>7. InStream(v)'
    <3>1. IsPrefix(v, v)
      BY <2>4, PrefixPointwise
    <3>2. status_string' # <<>> =>
              \E q \in Replies, t \in Streams : v = q \o t /\ Begun(q, status_string')
      <4> SUFFICES ASSUME status_string # <<>>
                   PROVE  \E q \in Replies, t \in Streams : v = q \o t /\ Begun(q, status_string)
        BY <1>1
      <4>1. PICK q \in Replies, t \in Streams : w = q \o t /\ Begun(q, status_string)
        BY <2>1 DEF InStream
      <4>2. PICK s \in Streams : v = q \o s
        BY <2>5, <4>1
      <4> QED
        BY <4>1, <4>2
    <3> QED
      BY <2>3, <3>1, <3>2 DEF InStream, v
  <2>8. Reading'
    BY <1>1, <2>4, <2>7 DEF Reading
  <2>9. Sent = Decode[w] /\ Sent' = Decode[v]
    BY <1>1, <1>2, <1>4, <2>2, <2>3 DEF Sent, v
  <2>10. Channel!Send(Reply(r))
    <3>1. /\ Full' = Full /\ (socket_' = "open") = (socket_ = "open") /\ (peer' = "up") = (peer = "up")
          /\ pc' = pc /\ result' = result /\ clean' = clean
      BY <1>1, <1>2 DEF Full
    <3> QED
      BY <1>1, <1>4, <2>6, <2>9, <3>1 DEF Channel!Send
  <2>11. Channel!Next
    BY <2>10 DEF Channel!Next
  <2> QED
    BY <2>8, <2>11 DEF ChannelStep
<1> QED
  BY <1>3, <1>4

\* What the server wrote is cut off somewhere, and so are its replies.
LEMMA HangSteps ==
  ASSUME Reading, TypeOK', Hang
  PROVE  Reading' /\ ChannelStep
<1>1. /\ socket_ = "open" /\ peer = "up" /\ peer' \in {"eof", "reset"} /\ TypeOK
      /\ UNCHANGED <<buffer_, socket_, pc, status_string, result>>
      /\ (clean' <=> clean) /\ clean \in BOOLEAN /\ clean' \in BOOLEAN
  BY Zenon DEF Hang, TypeOK, Reading
<1>2. PICK n \in 0 .. Len(wire) : wire' = SubSeq(wire, 1, n)
  BY DEF Hang
<1>3. (Full' <=> Full)
  BY <1>1 DEF Full
<1>4. ASSUME \E k \in 0 .. Len(Sent) : Sent' = SubSeq(Sent, 1, k) PROVE ChannelStep
  <2>1. /\ Full' = Full /\ (socket_' = "open") = (socket_ = "open") /\ (peer' = "up") = FALSE
        /\ pc' = pc /\ result' = result /\ clean' = clean
    BY <1>1, <1>3 DEF Full
  <2>2. Channel!Hang
    BY <1>1, <1>4, <2>1 DEF Channel!Hang
  <2> QED
    BY <2>2 DEF ChannelStep, Channel!Next
<1>5. CASE ~clean \/ Full
  <2>1. Sent = <<>> /\ Sent' = <<>>
    BY <1>1, <1>3, <1>5 DEF Sent
  <2>2. 0 \in 0 .. Len(Sent) /\ Sent' = SubSeq(Sent, 1, 0)
    BY <2>1
  <2>3. Reading'
    BY <1>1, <1>3, <1>5 DEF Reading
  <2> QED
    BY <1>4, <2>2, <2>3
<1>6. CASE clean /\ ~Full
  <2>1. PICK w \in Streams : InStream(w)
    BY <1>1, <1>6 DEF Reading, LeftOver
  <2>2. Unread = w /\ w \in Seq(Tokens)
    BY <1>1, <2>1, StreamsBuilt DEF InStream
  <2> DEFINE u == status_string \o buffer_
             k == Len(u) + n
  <2>3. u \in Seq(Tokens) /\ wire \in Seq(Tokens) /\ w = u \o wire /\ Unread' = u \o SubSeq(wire, 1, n)
    BY <1>1, <1>2, <2>2 DEF TypeOK, Unread
  <2> HIDE DEF u
  <2>4. Len(w) = Len(u) + Len(wire) /\ Len(u) \in Nat /\ Len(wire) \in Nat
    BY <2>3
  <2>5. k \in 0 .. Len(w)
    BY <1>2, <2>4
  <2>6. Unread' = SubSeq(w, 1, k)
    BY <1>2, <2>3, BeginOfJoined
  <2> HIDE DEF k
  <2>7. PICK m \in 0 .. Len(Decode[w]) : Decode[SubSeq(w, 1, k)] = SubSeq(Decode[w], 1, m)
    BY <2>5, DecodeBegin
  <2>8. Sent = Decode[w] /\ Sent' = SubSeq(Decode[w], 1, m)
    BY <1>1, <1>3, <1>6, <2>2, <2>6, <2>7 DEF Sent
  <2>9. IsPrefix(SubSeq(w, 1, k), w)
    <3> DEFINE x == SubSeq(w, 1, k)
    <3>1. x \in Seq(Tokens) /\ Len(x) = k /\ \A i \in 1 .. k : x[i] = w[i]
      BY <2>2, <2>5, Cut
    <3> HIDE DEF x
    <3>2. Len(x) <= Len(w) /\ \A i \in 1 .. Len(x) : x[i] = w[i]
      BY <2>5, <3>1
    <3>3. IsPrefix(x, w)
      BY <2>2, <3>1, <3>2, PrefixPointwise
    <3> QED
      BY <3>3 DEF x
  <2>10. InStream(w)'
    BY <1>1, <2>1, <2>6, <2>9 DEF InStream
  <2>11. Reading'
    BY <1>1, <2>10 DEF Reading
  <2> QED
    BY <1>4, <2>8, <2>11
<1> QED
  BY <1>5, <1>6

\* Before the first connection.
LEMMA ReadingStarts ==
  ASSUME Init
  PROVE  Reading /\ Channel!Init
<1>1. MaxSize \in Nat \ {0} /\ Exception \in [code : Nat, text : Seq(Tokens)] /\ Len(<<>>) = 0
  BY RepliesAssumption DEF Exception
<1>2. TypeOK
  BY <1>1 DEF Init, TypeOK
<1>3. ~Full
  BY <1>1 DEF Init, Full
<1>4. Reading
  BY <1>2 DEF Init, Reading
<1>5. Sent = <<>> /\ Full = FALSE
  BY <1>3 DEF Init, Sent, Full
<1>6. Channel!Init
  BY <1>5 DEF Init, Channel!Init
<1> QED
  BY <1>4, <1>6

\* The invariant is kept, and every step is one of the channel.
LEMMA ReadingNext ==
  ASSUME Reading, [Next]_vars
  PROVE  Reading' /\ ChannelStep
<1>1. TypeOK'
  BY TypeNext DEF Reading
<1>2. CASE connect
  BY <1>1, <1>2, ConnectSteps
<1>3. CASE disconnect
  BY <1>1, <1>3, DisconnectSteps
<1>4. CASE recv
  BY <1>1, <1>4, RecvSteps
<1>5. CASE RecvStep
  BY <1>1, <1>5, ReadSteps, ThrowSteps, FirstLineSteps, MoreLinesSteps DEF RecvStep
<1>6. ASSUME NEW r \in Replies, Write(r) PROVE Reading' /\ ChannelStep
  BY <1>1, <1>6, WriteSteps
<1>7. CASE Hang
  BY <1>1, <1>7, HangSteps
<1>8. CASE UNCHANGED vars
  BY <1>1, <1>8, NothingSteps
<1> QED
  BY <1>2, <1>3, <1>4, <1>5, <1>6, <1>7, <1>8 DEF Next

\* recv() returns the server's replies whole, once and in order.
THEOREM ChannelImplemented == Spec => ImplementsChannel
<1>1. Init => Reading /\ Channel!Init
  BY ReadingStarts
<1>2. Reading /\ [Next]_vars => Reading' /\ [Channel!Next]_(Channel!chan)
  BY ReadingNext DEF ChannelStep
<1>3. Spec => []Reading
  BY <1>1, <1>2, PTL DEF Spec
<1> QED
  BY <1>1, <1>2, <1>3, PTL DEF Spec, ImplementsChannel, Channel!Spec

================================================================================
