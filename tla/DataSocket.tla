------------------------------- MODULE DataSocket -------------------------------
(***************************************************************************)
(* The socket of a data connection from its opening to its end, plain or   *)
(* TLS, with the server at the other end and the ABOR on the control       *)
(* connection beside it.  Data are counted in blocks; DataConnection has   *)
(* what becomes of the bytes.                                              *)
(***************************************************************************)
EXTENDS Naturals

CONSTANTS
    Sizes,          \* of files, in blocks
    Window          \* bound: blocks in flight

ASSUME SocketAssumption == Sizes \subseteq Nat /\ Window \in Nat \ {0}

VARIABLES
    direction, transfer_mode_, ssl_context_,    \* of this transfer
    heeds, protects,    \* the server reads its control connection during a
                        \* transfer; it was told PROT P
    pc,                 \* the client's place in client.cpp and data_connection.cpp
    file, size,         \* what there is to transfer, what its sender gives of it
    moved, outcome, cut,                        \* as in DataTransfer
    link,               \* what the server has of the connection
    up, down,           \* to the server, to the client: in flight, and how it ended
    server,             \* the server's transfer, blocks it has handled, its verdict
    abor                \* the ABOR and its answer

setting == <<direction, transfer_mode_, ssl_context_, heeds, protects, file, size>>
vars == <<setting, pc, moved, outcome, cut, link, up, down, server, abor>>

Ended == {"done", "thrown"}
\* Blocks in flight, and what follows them: in TLS a close_notify; the end.
Stream == [blocks : 0 .. Window, notified : BOOLEAN, end : {"open", "fin", "reset"}]
Verdicts == {"none", "whole", "broken", "crashed", "aborted"}

TypeOK ==
    /\ direction \in {"upload", "download"} /\ transfer_mode_ \in {"passive", "active"}
    /\ ssl_context_ \in BOOLEAN /\ heeds \in BOOLEAN /\ protects \in BOOLEAN
    /\ pc \in {"start", "command", "refused", "accept", "set_ssl", "loop", "abort",
               "disconnect", "ssl_shutdown", "close"} \cup Ended
    /\ file \in Sizes /\ size \in 0 .. file /\ moved \in 0 .. size
    /\ outcome \in {"moving", "complete", "aborted", "thrown"} /\ cut \in BOOLEAN
    /\ link \in {"none", "tcp", "tls"} /\ up \in Stream /\ down \in Stream
    /\ server \in [busy : BOOLEAN, count : 0 .. size, verdict : Verdicts]
    /\ abor \in {"none", "asked", "answered"}

Fresh == [blocks |-> 0, notified |-> FALSE, end |-> "open"]

\* A server that breaks a download off does so after size blocks.  A client
\* without TLS never says PROT P; one with TLS may not have, before a login.
Init ==
    /\ direction \in {"upload", "download"} /\ transfer_mode_ \in {"passive", "active"}
    /\ ssl_context_ \in BOOLEAN /\ heeds \in BOOLEAN /\ protects \in {FALSE, ssl_context_}
    /\ file \in Sizes /\ size \in 0 .. file /\ (direction = "upload" => size = file)
    /\ pc = "start" /\ moved = 0 /\ outcome = "moving" /\ cut = FALSE
    /\ link = "none" /\ up = Fresh /\ down = Fresh /\ abor = "none"
    /\ server = [busy |-> FALSE, count |-> 0, verdict |-> "none"]

At(place, next) == pc = place /\ pc' = next

Put(s) == [s EXCEPT !.blocks = @ + 1]
Taken(s) == [s EXCEPT !.blocks = @ - 1]
Notified(s) == s.blocks = 0 /\ s.notified
Gone(s) == s.blocks = 0 /\ ~s.notified /\ s.end # "open"
Lost == [blocks |-> 0, notified |-> FALSE, end |-> "reset"]

\* The client's end is closed, by disconnect() or by the destructor: what is
\* unread then resets the connection.
Hangs == up' = IF down.blocks = 0
               THEN [up EXCEPT !.end = IF @ = "open" THEN "fin" ELSE @] ELSE Lost

\* An exception leaves the operation, and the data_connection is destroyed.
Thrown(place) == At(place, "thrown") /\ Hangs

\* has_ssl_support(): set_ssl has replaced the socket by an ssl_socket.
Secured == ssl_context_ /\ pc \notin {"start", "command", "refused", "accept"}

--------------------------------------------------------------------------------
(* Opening: process_epsv_command and its three like.                       *)

\* Passive mode connects, active mode listens, before the transfer command.
Open ==
    /\ At("start", "command")
    /\ link' = IF transfer_mode_ = "passive" THEN "tcp" ELSE "none"
    /\ UNCHANGED <<setting, moved, outcome, cut, up, down, server, abor>>

\* A refusal: the socket is disconnected, a listener only destroyed.
Refused ==
    /\ pc = "command"
    /\ pc' = IF transfer_mode_ = "passive" THEN "refused" ELSE "done"
    /\ UNCHANGED <<setting, moved, outcome, cut, link, up, down, server, abor>>

Granted ==
    /\ At("command", IF transfer_mode_ = "active" THEN "accept"
                     ELSE IF ssl_context_ THEN "set_ssl" ELSE "loop")
    /\ server' = [server EXCEPT !.busy = TRUE]
    /\ UNCHANGED <<setting, moved, outcome, cut, link, up, down, abor>>

\* accept() has no timeout.  A connection that the server has opened will do,
\* also if the server has closed it since.
Accept ==
    /\ link # "none"
    /\ At("accept", IF ssl_context_ THEN "set_ssl" ELSE "loop")
    /\ UNCHANGED <<setting, moved, outcome, cut, link, up, down, server, abor>>

\* Nor has the handshake, which takes the server's part in it, and fails on
\* plain data and at the end of the connection.
Handshake ==
    /\ \/ link = "tls" /\ At("set_ssl", "loop") /\ UNCHANGED up
       \/ /\ link # "tls" /\ (down.blocks > 0 \/ down.end # "open")
          /\ Thrown("set_ssl")
    /\ UNCHANGED <<setting, moved, outcome, cut, link, down, server, abor>>

OpeningFails ==
    /\ \E place \in {"start", "command", "accept", "set_ssl"} : Thrown(place)
    /\ UNCHANGED <<setting, moved, outcome, cut, link, down, server, abor>>

--------------------------------------------------------------------------------
(* data_connection::send and recv, a block at a time.                      *)

Looping == pc = "loop" /\ outcome = "moving"

\* The end of the source is not seen.
SendWithoutEnd ==
    /\ Looping /\ direction = "upload" /\ ~cut
    /\ up.blocks < Window /\ down.end # "reset"
    /\ up' = Put(up) /\ moved' = moved + 1
    /\ UNCHANGED <<setting, pc, outcome, cut, link, down, server, abor>>

Send ==
    /\ Looping /\ direction = "upload" /\ ~cut
    /\ moved < size /\ up.blocks < Window /\ down.end # "reset"
    /\ up' = Put(up) /\ moved' = moved + 1
    /\ UNCHANGED <<setting, pc, outcome, cut, link, down, server, abor>>

Recv ==
    /\ Looping /\ direction = "download" /\ ~cut
    /\ down.blocks > 0
    /\ down' = Taken(down) /\ moved' = moved + 1
    /\ UNCHANGED <<setting, pc, outcome, cut, link, up, server, abor>>

\* After a block, or before the first, the callback says it is cancelled.
BreakOff ==
    /\ Looping /\ ~cut
    /\ cut' = TRUE
    /\ UNCHANGED <<setting, pc, moved, outcome, link, up, down, server, abor>>

\* Any error ends the loop.
EndOfDataOrError ==
    IF direction = "upload" THEN moved = size
    ELSE Notified(down) \/ Gone(down)

\* The end of the TCP stream will do.
EndOfDataUnchecked ==
    IF direction = "upload" THEN moved = size
    ELSE Notified(down) \/ (Gone(down) /\ down.end = "fin")

\* The end of the source, or the end of file on the socket, which in TLS is a
\* close_notify and nothing less.
EndOfData ==
    IF direction = "upload" THEN moved = size
    ELSE Notified(down) \/ (~Secured /\ Gone(down) /\ down.end = "fin")

\* client.cpp asks is_cancelled() again, which may say something else.
Leave ==
    /\ Looping /\ (cut \/ EndOfData)
    /\ \/ At("loop", "abort") /\ outcome' = "aborted"
       \/ At("loop", "disconnect") /\ outcome' = "complete"
    /\ UNCHANGED <<setting, moved, cut, link, up, down, server, abor>>

\* An error of the socket: a connection reset, in TLS also its end without a
\* close_notify; a write to a server that has closed its end.
SocketFails ==
    /\ Looping /\ ~cut
    /\ IF direction = "upload" THEN down.end # "open" ELSE Gone(down) /\ ~EndOfData
    /\ Thrown("loop") /\ outcome' = "thrown"
    /\ UNCHANGED <<setting, moved, cut, link, down, server, abor>>

\* The exception handler says goodbye: TLS is closed as after the whole.
StreamFailsPolitely ==
    /\ Looping
    /\ At("loop", "thrown") /\ outcome' = "thrown"
    /\ up' = [up EXCEPT !.notified = Secured, !.end = "fin"]
    /\ UNCHANGED <<setting, moved, cut, link, down, server, abor>>

\* The user's stream or callback throws.
StreamFails ==
    /\ Looping
    /\ Thrown("loop") /\ outcome' = "thrown"
    /\ UNCHANGED <<setting, moved, cut, link, down, server, abor>>

--------------------------------------------------------------------------------
(* The end of the operation: process_abort and disconnect.                 *)

\* disconnect(false) before the ABOR.
AbortLate ==
    /\ At("abort", "disconnect") /\ abor' = "asked"
    /\ UNCHANGED <<setting, moved, outcome, cut, link, up, down, server>>

\* The ABOR waits until the data have ended.
AbortAtEnd ==
    /\ pc = "abort"
    /\ \/ abor = "none" /\ down.end # "open" /\ abor' = "asked" /\ UNCHANGED pc
       \/ abor = "answered" /\ pc' = "disconnect" /\ UNCHANGED abor
    /\ UNCHANGED <<setting, moved, outcome, cut, link, up, down, server>>

Abort ==
    /\ pc = "abort"
    /\ \/ abor = "none" /\ abor' = "asked" /\ UNCHANGED pc
       \/ abor = "answered" /\ pc' = "disconnect" /\ UNCHANGED abor
    /\ UNCHANGED <<setting, moved, outcome, cut, link, up, down, server>>

\* The control connection is lost.
AbortFails ==
    /\ Thrown("abort")
    /\ UNCHANGED <<setting, moved, outcome, cut, link, down, server, abor>>

\* ssl_shutdown sends a close_notify, after an ABOR too; a plain socket has none.
Disconnect ==
    /\ \/ At("refused", "close") /\ UNCHANGED up
       \/ At("disconnect", "close") /\ ~Secured /\ UNCHANGED up
       \/ /\ At("disconnect", "ssl_shutdown") /\ Secured
          /\ up' = [up EXCEPT !.notified = (@ \/ up.end = "open")]
    /\ UNCHANGED <<setting, moved, outcome, cut, link, down, server, abor>>

\* It then awaits the server's: data, or an end without, is an error.
SslShutdown ==
    /\ \/ /\ Notified(down)
          /\ At("ssl_shutdown", "close") /\ UNCHANGED up
       \/ /\ down.blocks > 0 \/ Gone(down)
          /\ Thrown("ssl_shutdown")
    /\ UNCHANGED <<setting, moved, outcome, cut, link, down, server, abor>>

\* shutdown, when graceful, and close: that the server has closed its end
\* already (not_connected) is no error, any other error throws.
Close ==
    /\ At("close", "done") \/ At("close", "thrown")
    /\ Hangs
    /\ UNCHANGED <<setting, moved, outcome, cut, link, down, server, abor>>

ClientStep ==
    \/ Open \/ Accept \/ Handshake
    \/ Send \/ Recv \/ Leave \/ SocketFails
    \/ Abort \/ Disconnect \/ SslShutdown \/ Close

--------------------------------------------------------------------------------
(* The server's end.                                                       *)

ServerFrame == UNCHANGED <<setting, pc, moved, outcome, cut>>

\* Data flow once the server has the connection it wants.
Linked == link = IF protects THEN "tls" ELSE "tcp"
Serving == server.busy /\ Linked

\* In active mode the server connects, while the client listens.
ServerConnects ==
    /\ server.busy /\ link = "none" /\ pc = "accept"
    /\ link' = "tcp"
    /\ ServerFrame /\ UNCHANGED <<up, down, server, abor>>

ServerSecures ==
    /\ server.busy /\ protects /\ link = "tcp" /\ pc = "set_ssl"
    /\ link' = "tls"
    /\ ServerFrame /\ UNCHANGED <<up, down, server, abor>>

\* The server ends its transfer and closes its end of the connection, if it
\* has one; in TLS with a close_notify, unless it cannot.
Finish(verdict, properly) ==
    /\ server' = [server EXCEPT !.busy = FALSE, !.verdict = verdict]
    /\ down' = IF link = "none" THEN down
               ELSE [down EXCEPT !.notified = (link = "tls" /\ properly),
                                 !.end = IF @ = "open" THEN "fin" ELSE @]

ServerReads ==
    /\ Serving /\ direction = "upload" /\ up.blocks > 0
    /\ up' = Taken(up)
    /\ server' = [server EXCEPT !.count = @ + 1]
    /\ ServerFrame /\ UNCHANGED <<link, down, abor>>

ServerWrites ==
    /\ Serving /\ direction = "download" /\ up.end = "open"
    /\ server.count < size /\ down.blocks < Window
    /\ down' = Put(down)
    /\ server' = [server EXCEPT !.count = @ + 1]
    /\ ServerFrame /\ UNCHANGED <<link, up, abor>>

\* The file is complete: all was sent, or the client has ended its data.
ServerHasAll ==
    /\ Serving
    /\ IF direction = "download" THEN server.count = file
       ELSE IF protects THEN Notified(up) ELSE Gone(up) /\ up.end = "fin"
    /\ Finish("whole", TRUE)
    /\ ServerFrame /\ UNCHANGED <<link, up, abor>>

\* The client's end is gone: reset, in TLS closed without a close_notify.
ServerMisses ==
    /\ Serving
    /\ \/ up.end = "reset"
       \/ direction = "download" /\ up.end = "fin"
       \/ protects /\ Gone(up)
    /\ Finish("broken", FALSE)
    /\ ServerFrame /\ UNCHANGED <<link, up, abor>>

\* A disk that is full, a file that cannot be read, a connection or a handshake
\* that fails: the server gives up, and says so in its reply.
ServerGivesUp ==
    /\ server.busy
    /\ Linked /\ direction = "download" => server.count = size /\ size < file
    /\ \E properly \in BOOLEAN : Finish("broken", properly)
    /\ ServerFrame /\ UNCHANGED <<link, up, abor>>

\* The server's process dies and its system closes the connection.
ServerDies ==
    /\ server.busy /\ (Linked /\ direction = "download" => server.count = size)
    /\ Finish("crashed", FALSE)
    /\ ServerFrame /\ UNCHANGED <<link, up, abor>>

\* A server that heeds its control connection aborts the transfer at once, any
\* other one answers when the transfer is over.
ServerAborts ==
    /\ abor = "asked" /\ abor' = "answered"
    /\ IF server.busy
       THEN heeds /\ \E properly \in BOOLEAN : Finish("aborted", properly)
       ELSE UNCHANGED <<server, down>>
    /\ ServerFrame /\ UNCHANGED <<link, up>>

\* The network loses the connection, with what is in flight.
ConnectionLost ==
    /\ link # "none"
    /\ pc \in {"refused", "accept", "set_ssl", "loop", "abort", "disconnect", "ssl_shutdown", "close"}
    /\ up' = Lost /\ down' = Lost
    /\ server' = IF server.busy THEN [server EXCEPT !.busy = FALSE, !.verdict = "broken"] ELSE server
    /\ ServerFrame /\ UNCHANGED <<link, abor>>

ServerStep ==
    \/ Granted \/ ServerConnects \/ ServerSecures \/ ServerReads \/ ServerWrites \/ ServerHasAll \/ ServerMisses \/ ServerAborts

Mishap ==
    \/ Refused \/ OpeningFails \/ BreakOff \/ StreamFails \/ AbortFails
    \/ ServerDies \/ ConnectionLost

Next == ClientStep \/ ServerStep \/ ServerGivesUp \/ Mishap

Spec == Init /\ [][Next]_vars

\* The client's thread and the server go on, and a server that has less than
\* the file gives up sending it.  It need not give up receiving.
FairSpec ==
    /\ Spec
    /\ WF_vars(ClientStep)
    /\ WF_vars(ServerStep \/ (direction = "download" /\ ServerGivesUp))

--------------------------------------------------------------------------------
(* Properties.                                                             *)

\* DataTransfer is what the loops make of this socket: an end of file, and no
\* error, follows all that the sender gave.
Transfer == INSTANCE DataTransfer

ImplementsTransfer == Transfer!TransferSpec

\* Only disconnect() sends a close_notify, and only after the loop: a server
\* that takes an upload for complete has all of it, unless a callback broke it
\* off and then took that back, or an exception closed a plain connection,
\* which a server cannot tell from the end of the data.
UploadIsWhole ==
    direction = "upload" /\ server.verdict = "whole" /\ server.count < size =>
        \/ cut /\ outcome = "complete"
        \/ pc = "thrown" /\ ~protects

\* data_connection::recv ignores an end of file and no other error: a download
\* that goes on to the server's result has the whole file, unless the server
\* gave up, which its result says; a server that died is noticed only in TLS.
DownloadIsWhole ==
    direction = "download" /\ outcome = "complete" /\ moved < file =>
        \/ cut
        \/ server.verdict = "broken"
        \/ server.verdict = "crashed" /\ ~ssl_context_

\* client::process_abort sends no Telnet Synch: a server that does not look at
\* its control connection while it transfers does not see the ABOR, and waits
\* for the client, as the client does for it.
Deaf == abor = "asked" /\ ~heeds /\ server.busy

\* data_connection::accept waits for a server that has given up connecting.
Uncalled == pc = "accept" /\ link = "none" /\ ~server.busy

\* The handshake of an upload waits for a server that was not told PROT P,
\* which takes the client's hello for the file and waits for more.
Misread == pc = "set_ssl" /\ ~protects /\ direction = "upload" /\ server.busy

\* Nothing else waits for ever: neither the loops, whatever is in flight, nor
\* the close_notify of the server that disconnect() awaits.
TransferEnds == <>[](pc \in Ended \/ Deaf \/ Uncalled \/ Misread)
================================================================================
