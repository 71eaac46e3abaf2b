-------------------------------- MODULE Replies --------------------------------
(***************************************************************************)
(* Replies of an FTP server as the client sees them: a three digit code    *)
(* (the text is left out), its classification, and the accumulator         *)
(* `replies' that the compound operations of ftp::client return.           *)
(***************************************************************************)
EXTENDS Naturals

\* The code of a default constructed reply.
Unspecified == 65535

\* One representative per kind of reply that the client tells apart.
\*   120 wait for the 220        150 data transfer begins
\*   200 done (every 2xx)        227 done, an address follows (227 and 229)
\*   331 password wanted         332 account wanted
\*   350 RNTO wanted             421 the server closes the connection
\*   426 transfer aborted        550 refused (every other 4xx and 5xx)
Codes == {120, 150, 200, 227, 331, 332, 350, 421, 426, 550}

IsPositive(code) == code # Unspecified /\ code < 400
IsNegative(code) == code # Unspecified /\ code >= 400

\* The accumulator before the first reply, and after one more.
NoReplies == [empty |-> TRUE, is_positive |-> FALSE]

AppendReply(replies, code) ==
    [empty       |-> FALSE,
     is_positive |-> IF replies.empty
                     THEN IsPositive(code)
                     ELSE replies.is_positive /\ IsPositive(code)]

RepliesType == [empty : BOOLEAN, is_positive : BOOLEAN]
================================================================================
