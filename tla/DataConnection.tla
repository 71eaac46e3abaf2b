----------------------------- MODULE DataConnection -----------------------------
(***************************************************************************)
(* The data of one transfer: data_connection::send and recv between the    *)
(* socket and the user's stream, through the binary or the ASCII stream,   *)
(* with the calls of transfer_callback, up to the point where client.cpp   *)
(* decides whether to abort.                                               *)
(*                                                                         *)
(* The steps of ascii_istream::read are actions: it asks the user's stream *)
(* for more in between, which may throw.                                   *)
(***************************************************************************)
EXTENDS Naturals, Sequences, SequencesExt

CONSTANTS
    Texts,          \* what is transferred, over Chars
    BlockSize,      \* of data_connection, 8192 bytes
    InternalSize    \* of ascii_istream, 8192 bytes

Chars == {"CR", "LF", "a"}

ASSUME DataAssumption ==
    /\ Texts \subseteq Seq(Chars)
    /\ BlockSize \in Nat \ {0} /\ InternalSize \in Nat \ {0}

VARIABLES
    call,                               \* "send" (upload) or "recv" (download)
    transfer_type_,
    transfer_cb,                        \* there is none; its is_cancelled()
    pc,
    whole,                              \* history: what there was to transfer
    src,                                \* what the stream or the peer has left
    dst,                                \* what the peer or the stream was given
    buf,                                \* the block in transit
    internal_, need_linefeed_, skip_linefeed_,  \* of ascii_istream
    prev_cr_,                           \* of ascii_ostream
    begun, notified, ended,             \* history: the calls of transfer_cb
    late,                               \* history: blocks moved since it was cancelled
    cut                                 \* history: the loop left on is_cancelled()

stream == <<internal_, need_linefeed_, skip_linefeed_, prev_cr_>>
calls == <<begun, notified, ended>>
vars == <<call, transfer_type_, transfer_cb, pc, whole, src, dst, buf, stream, calls, late, cut>>

TypeOK ==
    /\ call \in {"send", "recv"}
    /\ transfer_type_ \in {"binary", "ascii"}
    /\ transfer_cb \in {"null", "running", "cancelled"}
    /\ pc \in {"start", "read", "convert", "write", "notify", "flush", "end",
               "left", "complete", "aborted", "thrown"}
    /\ whole \in Texts /\ src \in Seq(Chars) /\ dst \in Seq(Chars)
    /\ buf \in Seq(Chars) /\ Len(buf) <= BlockSize
    /\ internal_ \in Seq(Chars) /\ Len(internal_) <= InternalSize
    /\ need_linefeed_ \in BOOLEAN /\ skip_linefeed_ \in BOOLEAN /\ prev_cr_ \in BOOLEAN
    /\ begun \in BOOLEAN /\ notified \in Nat /\ ended \in BOOLEAN
    /\ late \in Nat /\ cut \in BOOLEAN

Init ==
    /\ call \in {"send", "recv"}
    /\ transfer_type_ \in {"binary", "ascii"}
    /\ transfer_cb \in {"null", "running", "cancelled"}
    /\ pc = "start"
    /\ whole \in Texts /\ src = whole /\ dst = <<>>
    /\ buf = <<>> /\ internal_ = <<>>
    /\ need_linefeed_ = FALSE /\ skip_linefeed_ = FALSE /\ prev_cr_ = FALSE
    /\ begun = FALSE /\ notified = 0 /\ ended = FALSE
    /\ late = 0 /\ cut = FALSE

\* What is put into dst counts as late when the transfer is cancelled.
Put(s) ==
    /\ dst' = dst \o s
    /\ late' = IF transfer_cb = "cancelled" THEN late + 1 ELSE late

Take(n) == buf' = SubSeq(src, 1, n) /\ src' = SubSeq(src, n + 1, Len(src))

--------------------------------------------------------------------------------
(* Both directions.                                                        *)

Start ==
    /\ pc = "start"
    /\ IF transfer_cb = "cancelled"
       THEN pc' = "left" /\ cut' = TRUE /\ UNCHANGED begun
       ELSE pc' = "read" /\ begun' = (transfer_cb # "null") /\ UNCHANGED cut
    /\ UNCHANGED <<call, transfer_type_, transfer_cb, whole, src, dst, buf, stream,
                   notified, ended, late>>

\* What notify counts is what was asked for.
NotifyBlockSize ==
    /\ pc = "notify"
    /\ notified' = IF transfer_cb # "null" THEN notified + BlockSize ELSE notified
    /\ pc' = IF transfer_cb # "cancelled" THEN "read"
             ELSE IF call = "send" THEN "end" ELSE "flush"
    /\ cut' = (transfer_cb = "cancelled")
    /\ UNCHANGED <<call, transfer_type_, transfer_cb, whole, src, dst, buf, stream,
                   begun, ended, late>>

\* The callback is not asked again.
NotifyOnly ==
    /\ pc = "notify"
    /\ notified' = IF transfer_cb # "null" THEN notified + Len(buf) ELSE notified
    /\ pc' = "read"
    /\ UNCHANGED <<call, transfer_type_, transfer_cb, whole, src, dst, buf, stream,
                   begun, ended, late, cut>>

Notify ==
    /\ pc = "notify"
    /\ notified' = IF transfer_cb # "null" THEN notified + Len(buf) ELSE notified
    /\ pc' = IF transfer_cb # "cancelled" THEN "read"
             ELSE IF call = "send" THEN "end" ELSE "flush"
    /\ cut' = (transfer_cb = "cancelled")
    /\ UNCHANGED <<call, transfer_type_, transfer_cb, whole, src, dst, buf, stream,
                   begun, ended, late>>

End ==
    /\ pc = "end"
    /\ pc' = "left"
    /\ ended' = (transfer_cb # "null")
    /\ UNCHANGED <<call, transfer_type_, transfer_cb, whole, src, dst, buf, stream,
                   begun, notified, late, cut>>

\* client.cpp asks once more, and aborts or awaits the result.
Leave ==
    /\ pc = "left"
    /\ pc' = IF transfer_cb = "cancelled" THEN "aborted" ELSE "complete"
    /\ UNCHANGED <<call, transfer_type_, transfer_cb, whole, src, dst, buf, stream,
                   calls, late, cut>>

\* The stream, the socket or the callback throws.
Throw ==
    /\ pc \in {"start", "read", "convert", "write", "notify", "flush", "end"}
    /\ pc' = "thrown"
    /\ UNCHANGED <<call, transfer_type_, transfer_cb, whole, src, dst, buf, stream,
                   calls, late, cut>>

\* From another thread or within a call.
Cancel ==
    /\ transfer_cb = "running"
    /\ transfer_cb' = "cancelled"
    /\ UNCHANGED <<call, transfer_type_, pc, whole, src, dst, buf, stream, calls, late, cut>>

\* is_cancelled() says false again.
Relent ==
    /\ transfer_cb = "cancelled"
    /\ transfer_cb' = "running"
    /\ late' = 0
    /\ UNCHANGED <<call, transfer_type_, pc, whole, src, dst, buf, stream, calls, cut>>

--------------------------------------------------------------------------------
(* data_connection::send.                                                  *)

\* binary_istream::read; no more data ends the loop.
ReadBinary ==
    /\ pc = "read" /\ call = "send" /\ transfer_type_ = "binary"
    /\ IF src = <<>>
       THEN pc' = "end" /\ UNCHANGED <<src, buf>>
       ELSE /\ pc' = "write"
            /\ \E n \in 1 .. Len(src) : n <= BlockSize /\ Take(n)
    /\ UNCHANGED <<call, transfer_type_, transfer_cb, whole, dst, stream, calls, late, cut>>

\* ascii_istream::read begins with the LF the last block had no room for.
ReadAscii ==
    /\ pc = "read" /\ call = "send" /\ transfer_type_ = "ascii"
    /\ pc' = "convert"
    /\ buf' = IF need_linefeed_ THEN <<"LF">> ELSE <<>>
    /\ need_linefeed_' = FALSE
    /\ UNCHANGED <<call, transfer_type_, transfer_cb, whole, src, dst,
                   internal_, skip_linefeed_, prev_cr_, calls, late, cut>>

Refill ==
    /\ pc = "convert" /\ Len(buf) < BlockSize /\ internal_ = <<>>
    /\ \E n \in 1 .. Len(src) :
           /\ n <= InternalSize
           /\ internal_' = SubSeq(src, 1, n)
           /\ src' = SubSeq(src, n + 1, Len(src))
    /\ UNCHANGED <<call, transfer_type_, transfer_cb, pc, whole, dst, buf,
                   need_linefeed_, skip_linefeed_, prev_cr_, calls, late, cut>>

\* append_crlf without a LF that has no room.
append_crlf_dropping ==
    /\ buf' = IF Len(buf) + 1 < BlockSize THEN buf \o <<"CR", "LF">> ELSE Append(buf, "CR")
    /\ need_linefeed_' = FALSE

\* append_crlf that looks for room for one character only.
append_crlf_overrun ==
    buf' = buf \o <<"CR", "LF">> /\ UNCHANGED need_linefeed_

append_crlf ==
    IF Len(buf) + 1 < BlockSize
    THEN buf' = buf \o <<"CR", "LF">> /\ UNCHANGED need_linefeed_
    ELSE buf' = Append(buf, "CR") /\ need_linefeed_' = TRUE

Convert ==
    /\ pc = "convert" /\ Len(buf) < BlockSize /\ internal_ # <<>>
    /\ internal_' = Tail(internal_)
    /\ skip_linefeed_' = (Head(internal_) = "CR")
    /\ \/ Head(internal_) = "CR" /\ append_crlf
       \/ Head(internal_) = "LF" /\ ~skip_linefeed_ /\ append_crlf
       \/ Head(internal_) = "LF" /\ skip_linefeed_ /\ UNCHANGED <<buf, need_linefeed_>>
       \/ /\ Head(internal_) \notin {"CR", "LF"}
          /\ buf' = Append(buf, Head(internal_)) /\ UNCHANGED need_linefeed_
    /\ UNCHANGED <<call, transfer_type_, transfer_cb, pc, whole, src, dst, prev_cr_, calls, late, cut>>

\* read() goes on asking a stream that has no more.
ConvertedInFull ==
    /\ pc = "convert"
    /\ Len(buf) = BlockSize \/ (buf = <<>> /\ internal_ = <<>> /\ src = <<>>)
    /\ pc' = IF buf = <<>> THEN "end" ELSE "write"
    /\ UNCHANGED <<call, transfer_type_, transfer_cb, whole, src, dst, buf, stream, calls, late, cut>>

\* read() returns when the block is full or the user's stream has no more.
Converted ==
    /\ pc = "convert"
    /\ Len(buf) = BlockSize \/ (internal_ = <<>> /\ src = <<>>)
    /\ pc' = IF buf = <<>> THEN "end" ELSE "write"
    /\ UNCHANGED <<call, transfer_type_, transfer_cb, whole, src, dst, buf, stream, calls, late, cut>>

WriteSocket ==
    /\ pc = "write" /\ call = "send"
    /\ Put(buf)
    /\ pc' = "notify"
    /\ UNCHANGED <<call, transfer_type_, transfer_cb, whole, src, buf, stream, calls, cut>>

--------------------------------------------------------------------------------
(* data_connection::recv.                                                  *)

\* read_some; end of file ends the loop.
ReadSocket ==
    /\ pc = "read" /\ call = "recv"
    /\ IF src = <<>>
       THEN pc' = "flush" /\ UNCHANGED <<src, buf>>
       ELSE /\ pc' = "write"
            /\ \E n \in 1 .. Len(src) : n <= BlockSize /\ Take(n)
    /\ UNCHANGED <<call, transfer_type_, transfer_cb, whole, dst, stream, calls, late, cut>>

WriteBinary ==
    /\ pc = "write" /\ call = "recv" /\ transfer_type_ = "binary"
    /\ Put(buf)
    /\ pc' = "notify"
    /\ UNCHANGED <<call, transfer_type_, transfer_cb, whole, src, buf, stream, calls, cut>>

\* ascii_ostream::write, a character at a time: a CR is kept back until the
\* next one is seen.
Step(st, ch) ==
    CASE ch = "CR" -> [out |-> IF st.prev_cr THEN Append(st.out, "CR") ELSE st.out,
                       prev_cr |-> TRUE]
      [] ch = "LF" -> [out |-> Append(st.out, "LF"), prev_cr |-> FALSE]
      [] OTHER     -> [out |-> (IF st.prev_cr THEN Append(st.out, "CR") ELSE st.out) \o <<ch>>,
                       prev_cr |-> FALSE]

Written(text, prev_cr) ==
    LET st[i \in 0 .. Len(text)] ==
            IF i = 0 THEN [out |-> <<>>, prev_cr |-> prev_cr] ELSE Step(st[i - 1], text[i])
    IN  st[Len(text)]

WriteAscii ==
    /\ pc = "write" /\ call = "recv" /\ transfer_type_ = "ascii"
    /\ LET st == Written(buf, prev_cr_) IN Put(st.out) /\ prev_cr_' = st.prev_cr
    /\ pc' = "notify"
    /\ UNCHANGED <<call, transfer_type_, transfer_cb, whole, src, buf,
                   internal_, need_linefeed_, skip_linefeed_, calls, cut>>

Flush ==
    /\ pc = "flush"
    /\ dst' = IF prev_cr_ THEN Append(dst, "CR") ELSE dst
    /\ prev_cr_' = FALSE
    /\ pc' = "end"
    /\ UNCHANGED <<call, transfer_type_, transfer_cb, whole, src, buf,
                   internal_, need_linefeed_, skip_linefeed_, calls, late, cut>>

--------------------------------------------------------------------------------

Proceed ==
    \/ Start \/ Notify \/ End \/ Leave
    \/ ReadBinary \/ ReadAscii \/ Refill \/ Convert \/ Converted \/ WriteSocket
    \/ ReadSocket \/ WriteBinary \/ WriteAscii \/ Flush

Next == Proceed \/ Throw \/ Cancel \/ Relent

Spec == Init /\ [][Next]_vars

\* The thread runs, and its peer reads or writes on.
FairSpec == Spec /\ WF_vars(Proceed)

--------------------------------------------------------------------------------
(* Properties.                                                             *)

\* README.md: the sender converts newlines to CRLF, the receiver converts
\* them back.  A lone CR is a newline for the sender, and not for the receiver.
SentFor(s) ==
    [i \in 1 .. Len(s) |->
        CASE s[i] = "CR" -> <<"CR", "LF">>
          [] s[i] = "LF" -> IF i > 1 /\ s[i - 1] = "CR" THEN <<>> ELSE <<"CR", "LF">>
          [] OTHER       -> <<s[i]>>]

StoredFor(s) ==
    [i \in 1 .. Len(s) |->
        IF s[i] = "CR" /\ i < Len(s) /\ s[i + 1] = "LF" THEN <<>> ELSE <<s[i]>>]

ToNetwork(s) == FlattenSeq(SentFor(s))
FromNetwork(s) == FlattenSeq(StoredFor(s))

Expected ==
    IF transfer_type_ = "binary" THEN whole
    ELSE IF call = "send" THEN ToNetwork(whole) ELSE FromNetwork(whole)

\* data_connection::send and recv and the streams between: what arrives is
\* the converted data, wherever blocks and buffers cut it, complete when the
\* client believes so, unless a callback broke it off and then took that back.
\* Only a download broken off may end with a CR whose LF was not read.
DataArrives ==
    /\ \/ IsPrefix(dst, Expected)
       \/ /\ call = "recv" /\ cut
          /\ Last(dst) = "CR" /\ IsPrefix(Front(dst), Expected)
    /\ pc = "complete" /\ ~cut => dst = Expected

\* begin() comes before any data and end() after all of it; end() is called
\* whenever begin() was and nothing has thrown, and in between notify() counts
\* every byte on the wire once.
CallbackProtocol ==
    /\ pc \in {"read", "convert", "write", "notify", "flush", "end"}
           => begun = (transfer_cb # "null") /\ ~ended
    /\ pc \in {"left", "complete", "aborted"} => ended = begun
    /\ ~begun /\ transfer_cb # "null" => dst = <<>> /\ notified = 0
    /\ begun /\ pc \in {"flush", "end", "left", "complete", "aborted"}
           => notified = IF call = "send" THEN Len(dst) ELSE Len(whole) - Len(src)

\* The loops of data_connection.cpp: from when is_cancelled() says true, and as
\* long as it does, at most the block that was under way is moved.
CancelledSoon == late <= 1

\* The conversions, blocks and calls hidden: the transfer moves on by what is
\* put into dst, never back and never past the whole, and it is complete,
\* aborted or thrown away only as DataTransfer says.
Transfer == INSTANCE DataTransfer WITH
    size <- Len(Expected),
    moved <- Len(dst),
    outcome <- IF pc \in {"complete", "aborted", "thrown"} THEN pc ELSE "moving"

ImplementsTransfer == Transfer!TransferSpec

\* Every transfer comes to an end: no conversion makes data without end, nor
\* waits for data that will not come.
TransferLeaves == <>(pc \in {"complete", "aborted", "thrown"})
================================================================================
