--------------------------- MODULE ControlConnection ---------------------------
(***************************************************************************)
(* control_connection reads replies: lines out of a buffer that the socket *)
(* fills as it likes, one or more lines to a reply.                        *)
(*                                                                         *)
(* A token stands for some bytes of a line: a status code and the          *)
(* character after it, other text, a CR or a LF.  The buffer's limit       *)
(* counts tokens.  read_line blocks in the socket, so that one action is   *)
(* one read_some, or one line taken from the buffer.                       *)
(*                                                                         *)
(* TLS is left out (FtpClient.tla has it): set_ssl keeps buffer_ as it is. *)
(***************************************************************************)
EXTENDS Naturals, Sequences, SequencesExt

CONSTANTS
    Replies,        \* what the server may say, as tokens with their line ends
    MaxSize,        \* max_size of read_line: the limit of buffer_, 8192 bytes
    MaxTokens       \* bound: the server writes while fewer tokens are unread

Word(c, next) == [code |-> c, next |-> next]
Text == Word(0, "text")
CR == Word(0, "CR")
LF == Word(0, "LF")
Tokens == [code : Nat, next : {"-", " ", "", "text", "CR", "LF"}]

\* A line ends with LF, with CR LF or with CR.
LineStarts(r) ==
    {1} \cup {i + 1 : i \in {j \in 1 .. Len(r) - 1 :
                             r[j] = LF \/ (r[j] = CR /\ r[j + 1] # LF)}}

LastLines(r) == {i \in LineStarts(r) : r[i] = Word(r[1].code, " ")}

\* RFC 959: the lines of a reply whose code is followed by a hyphen end with
\* the first that has the same code and a space; else there is one line.
WellFormed(r) ==
    /\ Len(r) > 1 /\ r[1].code > 0 /\ r[Len(r)] = LF
    /\ IF r[1].next = "-"
       THEN LastLines(r) # {} /\ \A i \in LastLines(r), j \in LineStarts(r) : j <= i
       ELSE LineStarts(r) = {1}

ASSUME RepliesAssumption ==
    /\ Replies \subseteq Seq(Tokens)
    /\ \A r \in Replies : WellFormed(r)
    /\ MaxSize \in Nat \ {0} /\ MaxTokens \in Nat

VARIABLES
    buffer_,
    socket_,        \* the client's socket: "closed" or "open"
    wire,           \* written by the server, not yet read
    peer,           \* the server: "up", "eof" or "reset"
    pc,             \* recv() is not running, reads its first line, or the others
    status_string,  \* the lines recv() has read
    result,         \* of the last recv()
    clean           \* history: no bytes of a former line or connection are left

vars == <<buffer_, socket_, wire, peer, pc, status_string, result, clean>>

\* A reply without its line end, which recv() removes.
Strip(s) ==
    LET n == Len(s) IN
    IF n > 1 /\ s[n] = LF /\ s[n - 1] = CR THEN SubSeq(s, 1, n - 2)
    ELSE IF n > 0 /\ s[n] \in {CR, LF} THEN SubSeq(s, 1, n - 1)
    ELSE s

Reply(s) == [code |-> s[1].code, text |-> Strip(s)]
Exception == [code |-> 0, text |-> <<>>]

TypeOK ==
    /\ buffer_ \in Seq(Tokens) /\ Len(buffer_) <= MaxSize
    /\ socket_ \in {"closed", "open"}
    /\ wire \in Seq(Tokens)
    /\ peer \in {"up", "eof", "reset"}
    /\ pc \in {"idle", "first", "more"}
    /\ status_string \in Seq(Tokens)
    /\ (pc = "more") <=> (status_string # <<>>)
    /\ result \in [code : Nat, text : Seq(Tokens)]
    /\ clean \in BOOLEAN

Init ==
    /\ buffer_ = <<>> /\ socket_ = "closed" /\ wire = <<>> /\ peer = "eof"
    /\ pc = "idle" /\ status_string = <<>> /\ result = Exception
    /\ clean = TRUE

--------------------------------------------------------------------------------
(* match_eol: a line ends with LF, with CR LF, or with a CR after which     *)
(* the buffer ends or something else follows.                              *)

Eols(s) == {i \in 1 .. Len(s) : s[i] \in {CR, LF}}
HasLine(s) == Eols(s) # {}

match_eol(s) ==
    LET i == CHOOSE j \in Eols(s) : \A k \in Eols(s) : j <= k
    IN  IF s[i] = CR /\ i < Len(s) /\ s[i + 1] = LF THEN i + 1 ELSE i

Line == SubSeq(buffer_, 1, match_eol(buffer_))
Rest == SubSeq(buffer_, match_eol(buffer_) + 1, Len(buffer_))

\* No line, and no room for more.
Full == ~HasLine(buffer_) /\ Len(buffer_) = MaxSize

--------------------------------------------------------------------------------
(* The connection.                                                         *)

\* buffer_ is not cleared.
connect ==
    /\ pc = "idle"
    /\ socket_' = "open" /\ peer' = "up" /\ wire' = <<>>
    /\ clean' = (buffer_ = <<>> \/ Full)
    /\ UNCHANGED <<buffer_, pc, status_string, result>>

disconnect ==
    /\ pc = "idle" /\ socket_ = "open"
    /\ socket_' = "closed" /\ wire' = <<>>
    /\ UNCHANGED <<buffer_, peer, pc, status_string, result, clean>>

recv ==
    /\ pc = "idle" /\ socket_ = "open"
    /\ pc' = "first"
    /\ UNCHANGED <<buffer_, socket_, wire, peer, status_string, result, clean>>

\* Without the limit of read_line.
ReadUnlimited ==
    /\ pc # "idle" /\ ~HasLine(buffer_)
    /\ \E n \in 1 .. Len(wire) :
           /\ buffer_' = buffer_ \o SubSeq(wire, 1, n)
           /\ wire' = SubSeq(wire, n + 1, Len(wire))
    /\ UNCHANGED <<socket_, peer, pc, status_string, result, clean>>

\* read_some returns what it likes of what has arrived: segments, TLS
\* records and the 512 bytes read_until first asks for end anywhere.
Read ==
    /\ pc # "idle" /\ ~HasLine(buffer_)
    /\ \E n \in 1 .. Len(wire) :
           /\ Len(buffer_) + n <= MaxSize
           /\ buffer_' = buffer_ \o SubSeq(wire, 1, n)
           /\ wire' = SubSeq(wire, n + 1, Len(wire))
    /\ UNCHANGED <<socket_, peer, pc, status_string, result, clean>>

Throw ==
    /\ pc' = "idle" /\ status_string' = <<>>
    /\ result' = Exception
    /\ UNCHANGED <<buffer_, socket_, wire, peer, clean>>

\* End of file is noticed only within a line.
EndOfFileWithinLine ==
    /\ pc = "first" /\ ~HasLine(buffer_) /\ ~Full /\ buffer_ # <<>>
    /\ wire = <<>> /\ peer = "eof"
    /\ Throw

\* End of file is an empty line.  It has no status code, so recv() throws
\* if it is the first line, and reads on for ever if it is not.
EndOfFile ==
    /\ pc = "first" /\ ~HasLine(buffer_) /\ ~Full
    /\ wire = <<>> /\ peer = "eof"
    /\ Throw

ReadFails ==
    /\ pc # "idle" /\ ~HasLine(buffer_)
    /\ Full \/ (wire = <<>> /\ peer = "reset")
    /\ Throw

\* recv() returns; 421 closes the socket.
Return(s) ==
    /\ result' = Reply(s)
    /\ pc' = "idle" /\ status_string' = <<>>
    /\ buffer_' = Rest
    /\ IF s[1].code = 421 THEN socket_' = "closed" /\ wire' = <<>>
                          ELSE UNCHANGED <<socket_, wire>>
    /\ clean' = (clean /\ ~(s[Len(s)] = CR /\ Rest = <<>> /\ wire # <<>> /\ wire[1] = LF))
    /\ UNCHANGED peer

FirstLine ==
    /\ pc = "first" /\ HasLine(buffer_)
    /\ \/ /\ Line[1].code = 0
          /\ pc' = "idle" /\ buffer_' = Rest /\ result' = Exception
          /\ UNCHANGED <<socket_, wire, peer, status_string, clean>>
       \/ /\ Line[1].code > 0 /\ Line[1].next = "-"
          /\ pc' = "more" /\ buffer_' = Rest /\ status_string' = Line
          /\ UNCHANGED <<socket_, wire, peer, result, clean>>
       \/ /\ Line[1].code > 0 /\ Line[1].next # "-"
          /\ Return(Line)

is_last_line == Line[1] = Word(status_string[1].code, " ")

\* Any code ends the reply.
MoreLinesAnyCode ==
    /\ pc = "more" /\ HasLine(buffer_)
    /\ IF Line[1].code > 0 /\ Line[1].next = " "
       THEN Return(status_string \o Line)
       ELSE /\ status_string' = status_string \o Line /\ buffer_' = Rest
            /\ UNCHANGED <<socket_, wire, peer, pc, result, clean>>

MoreLines ==
    /\ pc = "more" /\ HasLine(buffer_)
    /\ IF is_last_line
       THEN Return(status_string \o Line)
       ELSE /\ status_string' = status_string \o Line /\ buffer_' = Rest
            /\ UNCHANGED <<socket_, wire, peer, pc, result, clean>>

RecvStep == Read \/ EndOfFile \/ ReadFails \/ FirstLine \/ MoreLines

--------------------------------------------------------------------------------
(* The server (external).                                                  *)

\* Bound: a connection that is not clean is only read to its end.
Write(r) ==
    /\ socket_ = "open" /\ peer = "up" /\ clean
    /\ Len(buffer_) + Len(wire) + Len(r) <= MaxTokens
    /\ wire' = wire \o r
    /\ UNCHANGED <<buffer_, socket_, peer, pc, status_string, result, clean>>

\* It closes the connection, or is lost, and what it wrote may be lost with it.
Hang ==
    /\ socket_ = "open" /\ peer = "up"
    /\ peer' \in {"eof", "reset"}
    /\ \E n \in 0 .. Len(wire) : wire' = SubSeq(wire, 1, n)
    /\ UNCHANGED <<buffer_, socket_, pc, status_string, result, clean>>

Next ==
    \/ connect \/ disconnect \/ recv \/ RecvStep
    \/ (\E r \in Replies : Write(r)) \/ Hang

Spec == Init /\ [][Next]_vars

\* A thread in recv() goes on.
FairSpec == Spec /\ WF_vars(RecvStep)

--------------------------------------------------------------------------------
(* Properties.                                                             *)

\* The replies that are in s from its first token on, whole; a last LF that
\* was lost is not missed after a CR.
Decode[s \in Seq(Tokens)] ==
    IF \E r \in Replies : IsPrefix(r, s)
    THEN LET r == CHOOSE r \in Replies : IsPrefix(r, s)
         IN  <<Reply(r)>> \o Decode[SubSeq(s, Len(r) + 1, Len(s))]
    ELSE IF s # <<>> /\ Last(s) = CR /\ Append(s, LF) \in Replies
    THEN <<Reply(s)>>
    ELSE <<>>

TooLong(r) ==
    \E i \in LineStarts(r) : \A j \in i .. i + MaxSize - 1 : j <= Len(r) /\ r[j] \notin {CR, LF}

\* What the server has written of replies that recv() has not returned, and
\* the replies in it.
Unread == status_string \o buffer_ \o wire
Sent == IF socket_ = "open" /\ clean /\ ~Full THEN Decode[Unread] ELSE <<>>

\* recv() returns the server's replies whole, once and in order, wherever the
\* reads cut them, and breaks off only where ReplyChannel says: at the end of
\* the connection, and for good after a line that does not fit.  A line end
\* that was cut in two between replies, or bytes of a former connection, end
\* the promise.
Channel == INSTANCE ReplyChannel WITH
    Messages <- {Reply(r) : r \in Replies},
    Overlong <- {Reply(r) : r \in {s \in Replies : TooLong(s)}},
    Nothing  <- Exception,
    sent     <- Sent,
    open     <- socket_ = "open",
    alive    <- peer = "up",
    reader   <- IF pc = "idle" THEN "idle" ELSE "recv",
    got      <- result,
    broken   <- Full,
    clean    <- clean

ImplementsChannel == Channel!Spec

\* recv() comes back when the server has said all it will say, unless the
\* connection ends within a reply of several lines: then the loop reads empty
\* lines for ever.
RecvReturns ==
    pc # "idle" ~> \/ pc = "idle"
                   \/ peer = "up" /\ wire = <<>>
                   \/ peer = "eof" /\ pc = "more"

\* socket_base.hpp: match_eol handles the CRLF case, so that CR LF is one
\* line end: recv() never stops between the two, which would make the LF the
\* first line of the next reply.
CrlfEndsOneLine ==
    [][clean /\ pc # "idle" /\ pc' = "idle" /\ buffer_' = <<>> /\ wire' # <<>>
         => Head(wire') # LF]_vars
================================================================================
