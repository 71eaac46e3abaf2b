------------------------------- MODULE FtpClient -------------------------------
(***************************************************************************)
(* ftp::client talking to one FTP server.                                  *)
(*                                                                         *)
(* The client is a single thread of blocking calls: `pc' names the call    *)
(* it is blocked in ("idle" when the user's code runs), so an action is    *)
(* everything the client does from one blocking call to the next.  When it *)
(* waits for the reply to a command, pc is the name of the command.        *)
(* An exception unwinds the call: pc goes back to "idle", and the local    *)
(* data_connection object is destroyed.                                    *)
(*                                                                         *)
(* The server is external.  It answers as RFC 959 lets it: one reply per   *)
(* command, two for a transfer (150, then the result), one or two for      *)
(* ABOR; it may close the connection with a 421, or just disappear.        *)
(***************************************************************************)
EXTENDS Naturals, Sequences, Replies

CONSTANTS
    MaxBacklog,         \* bound: on a dialog out of step, the user sends only
                        \* while fewer replies and commands are outstanding
    SslContexts,        \* with (TRUE) or without (FALSE) an ssl context
    Rfc2428Supports     \* values of rfc2428_support_

ASSUME ConstantsAssumption ==
    /\ MaxBacklog \in Nat
    /\ SslContexts \in SUBSET BOOLEAN
    /\ Rfc2428Supports \in SUBSET BOOLEAN

VARIABLES
    \* The client's configuration.
    transfer_mode_, transfer_type_, rfc2428_support_, ssl_context_,
    \* The call being executed, its local variables and its transfer_callback.
    \* Afterwards op tells how the latest operation that went to the server
    \* ended: it returned ("none") or it threw ("thrown").
    pc, op, replies, transfer_cb,
    \* The control connection: the socket is open; it is an ssl_socket.
    is_open, is_ssl,
    \* The data connection of the call, at the client and at the server.
    data_connection, server_data,
    \* Commands on their way to the server.  Replies on their way to the
    \* client, of which the first `buffered' are already in buffer_.
    commands, inbound, buffered,
    \* The server: the connection lives; its TLS state; PROT P and TYPE in
    \* force; the transfer in progress, and whether it is an upload.
    up, server_tls, server_prot, server_type,
    transfer, receiving,
    \* The connection has ended, or will end, within a reply of several lines.
    torn,
    \* History: why the dialog may be out of step; the latest login went through.
    upset, ready

config == <<transfer_mode_, transfer_type_, rfc2428_support_, ssl_context_>>
control == <<is_open, is_ssl>>
session == <<server_tls, server_prot, server_type>>
work == <<transfer, receiving, torn>>
vars == <<config, pc, op, replies, transfer_cb, control,
          data_connection, server_data, commands, inbound, buffered,
          up, session, work, upset, ready>>

Modes == {"passive", "active"}
Types == {"binary", "ascii"}
LoginOps == {"connect_login", "login"}
TransferOps == {"download", "upload", "list"}
Ops == LoginOps \cup TransferOps \cup
       {"none", "thrown", "connect", "logout", "simple", "set_binary", "set_ascii", "rename",
        "disconnect"}
Commands == {"GREET", "AUTH", "USER", "PASS", "PBSZ", "PROT", "TYPE", "REIN",
             "SIMPLE", "RNFR", "RNTO", "QUIT", "EPSV", "PASV", "EPRT", "PORT",
             "MAIN", "ABOR"}
\* The second reply of a transfer and of an ABOR have no command of their own.
Awaiting == Commands \cup {"final", "aborted"}
\* Each of the four places that wait for an answer to a TLS close_notify.
Shutdowns == {"rein_shutdown", "close_shutdown", "data_shutdown", "abort_shutdown"}
Calls == Awaiting \cup Shutdowns \cup {"idle", "handshake", "data_connect", "accept",
                                       "data_handshake", "transfer", "transferred"}
Upsets == {"abandoned", "unheeded", "abort_race", "abort_refused", "delayed", "stale",
           "tls_left"}

\* A command in flight, and its argument: the type, or the operation it is
\* part of.  A reply in flight, and the command it answers.
Command == [cmd : {"TYPE"}, arg : Types] \cup [cmd : Commands \ {"TYPE"}, arg : Ops]
Reply == [code : Codes, to : Commands \cup {"nobody"}]

TypeOK ==
    /\ transfer_mode_ \in Modes
    /\ transfer_type_ \in Types
    /\ rfc2428_support_ \in BOOLEAN
    /\ ssl_context_ \in BOOLEAN
    /\ pc \in Calls
    /\ op \in Ops
    /\ replies \in RepliesType
    /\ transfer_cb \in {"null", "running", "cancelled"}
    /\ is_open \in BOOLEAN
    /\ is_ssl \in BOOLEAN
    /\ data_connection \in {"none", "listen", "conn", "ending"}
    /\ server_data \in {"none", "listen", "conn", "closed"}
    /\ commands \in Seq(Command)
    /\ inbound \in Seq(Reply)
    /\ buffered \in 0 .. Len(inbound)
    /\ up \in BOOLEAN
    /\ server_tls \in {"plain", "starting", "tls", "ending"}
    /\ server_prot \in BOOLEAN
    /\ server_type \in Types
    /\ transfer \in {"none", "wait", "run"}
    /\ receiving \in BOOLEAN
    /\ torn \in BOOLEAN
    /\ upset \in SUBSET Upsets
    /\ ready \in BOOLEAN

Init ==
    /\ transfer_mode_ \in Modes
    /\ transfer_type_ \in Types
    /\ rfc2428_support_ \in Rfc2428Supports
    /\ ssl_context_ \in SslContexts
    /\ pc = "idle" /\ op = "none"
    /\ replies = NoReplies /\ transfer_cb = "null"
    /\ is_open = FALSE /\ is_ssl = FALSE
    /\ data_connection = "none" /\ server_data = "none"
    /\ commands = <<>> /\ inbound = <<>> /\ buffered = 0
    /\ up = FALSE /\ server_tls = "plain" /\ server_prot = FALSE
    /\ server_type = "ascii"
    /\ transfer = "none" /\ receiving = FALSE /\ torn = FALSE
    /\ upset = {} /\ ready = FALSE

--------------------------------------------------------------------------------
(* Steps the operations are made of.                                       *)

\* Both ends speak TLS, or neither does.
WireAgrees == is_ssl <=> (server_tls = "tls")

\* The replies in buffer_ survive the connection they came from.
buffer_ == SubSeq(inbound, 1, buffered)

\* The connection is gone for the server, and what it was doing with it.
Disappears ==
    /\ up' = FALSE
    /\ commands' = <<>>
    /\ transfer' = "none" /\ receiving' = FALSE
    /\ server_prot' = FALSE /\ server_type' = "ascii"

ServerGone == Disappears /\ UNCHANGED torn

\* ssl_shutdown of the control connection sends a close_notify, and waits for
\* the server's.
Notify == server_tls' = IF up /\ server_tls = "tls" THEN "ending" ELSE server_tls
NotifyAnswered == server_tls # "ending" \/ ~up \/ inbound # <<>>

\* client::send reaches the socket.  A server that is gone hears nothing.
Write(cmd, arg) ==
    /\ is_open /\ WireAgrees
    /\ pc' = cmd
    /\ commands' = IF up THEN Append(commands, [cmd |-> cmd, arg |-> arg]) ELSE commands

\* The next reply.
code == Head(inbound).code

\* The operation returns or throws; the data connection does not outlive it.
Leave(outcome) ==
    /\ pc' = "idle" /\ op' = outcome
    /\ replies' = NoReplies /\ transfer_cb' = "null"
    /\ data_connection' = "none" /\ server_data' = "none"

Return ==
    /\ Leave("none")
    /\ ready' = (IF op \in LoginOps THEN AppendReply(replies, code).is_positive ELSE ready)
    /\ UNCHANGED <<commands, upset>>

\* An exception while no reply is outstanding, and while one is.
Throw == Leave("thrown") /\ UNCHANGED <<commands, upset, ready>>
Abandon == Leave("thrown") /\ upset' = upset \cup {"abandoned"} /\ UNCHANGED <<commands, ready>>

\* The reply that control_connection::recv has returned is appended.
Collect == replies' = IF pc \in Awaiting THEN AppendReply(replies, code) ELSE replies

\* The operation goes on with its next command, if the socket takes it.
Proceed(cmd, arg, data, peer) ==
    \/ /\ Write(cmd, arg)
       /\ data_connection' = data /\ server_data' = peer
       /\ Collect
       /\ UNCHANGED <<op, transfer_cb, upset, ready>>
    \/ /\ ~up \/ ~WireAgrees
       /\ Throw

Ask(cmd) == Proceed(cmd, op, data_connection, server_data)

\* The operation blocks in another call.
Await(call) ==
    /\ pc' = call
    /\ Collect
    /\ UNCHANGED <<op, transfer_cb, data_connection, server_data, commands, upset, ready>>

Receive ==
    /\ buffered > 0
    /\ code # 421
    /\ inbound' = Tail(inbound)
    /\ buffered' = buffered - 1
    /\ UNCHANGED <<transfer_mode_, rfc2428_support_, ssl_context_, is_open>>

\* Receiving leaves the rest of the client and the server alone.
OnlyDialog == UNCHANGED <<transfer_type_, is_ssl, up, session, work>>

--------------------------------------------------------------------------------
(* Operations of ftp::client, up to their first blocking call.             *)

GoesOn == upset = {} \/ Len(inbound) + Len(commands) < MaxBacklog

\* send() on a socket that is not open throws and changes nothing: such a
\* call is a stuttering step, and is not written out.
Start(operation, cmd, arg, data) ==
    /\ pc = "idle" /\ GoesOn
    /\ Write(cmd, arg)
    /\ op' = operation
    /\ replies' = NoReplies
    /\ data_connection' = data
    /\ ready' = (ready /\ operation \notin LoginOps)
    /\ UNCHANGED <<config, control, server_data, inbound, buffered, up, session, work, upset>>

\* The operations that send one command and return its reply.
Simple == Start("simple", "SIMPLE", "simple", "none") /\ UNCHANGED transfer_cb

login == Start("login", "USER", "login", "none") /\ UNCHANGED transfer_cb
logout == Start("logout", "REIN", "logout", "none") /\ UNCHANGED transfer_cb
rename == Start("rename", "RNFR", "rename", "none") /\ UNCHANGED transfer_cb

set_transfer_type(t) ==
    /\ Start(IF t = "binary" THEN "set_binary" ELSE "set_ascii", "TYPE", t, "none")
    /\ UNCHANGED transfer_cb

\* download_file, upload_file, append_file and get_file_list: the data
\* connection is announced first, and in active mode is listening by then.
create_data_connection(operation, cb) ==
    /\ Start(operation,
             CASE transfer_mode_ = "passive" /\ rfc2428_support_ -> "EPSV"
               [] transfer_mode_ = "passive" /\ ~rfc2428_support_ -> "PASV"
               [] transfer_mode_ = "active" /\ rfc2428_support_ -> "EPRT"
               [] transfer_mode_ = "active" /\ ~rfc2428_support_ -> "PORT",
             operation,
             IF transfer_mode_ = "active" THEN "listen" ELSE "none")
    /\ transfer_cb' = cb

Transfer ==
    \/ \E operation \in {"download", "upload"}, cb \in {"null", "running"} :
           create_data_connection(operation, cb)
    \/ create_data_connection("list", "null")

\* What a former connection leaves behind.
Inherited == (IF buffered > 0 \/ torn THEN {"stale"} ELSE {}) \cup (IF is_ssl THEN {"tls_left"} ELSE {})

NewConnection(operation) ==
    /\ pc = "idle" /\ replies' = NoReplies
    /\ is_open' = TRUE
    /\ commands' = <<[cmd |-> "GREET", arg |-> operation]>>
    /\ inbound' = buffer_
    /\ up' = TRUE /\ server_tls' = "plain" /\ server_prot' = FALSE
    /\ server_type' = "ascii" /\ transfer' = "none" /\ receiving' = FALSE /\ torn' = FALSE
    /\ server_data' = "none" /\ ready' = FALSE
    /\ UNCHANGED <<config, transfer_cb, is_ssl, data_connection, buffered>>

\* A new connection replaces an open one.  buffer_ is not cleared, and the
\* socket object stays what it was.  The greeting is awaited, unless an
\* observer throws in on_connected.
connect(operation) == NewConnection(operation) /\ pc' = "GREET" /\ op' = operation /\ upset' = Inherited

connect_interrupted(operation) ==
    /\ NewConnection(operation)
    /\ pc' = "idle" /\ op' = "thrown" /\ upset' = Inherited \cup {"abandoned"}

\* The client closes the socket; what it had not read is lost.
Close ==
    /\ is_open' = FALSE
    /\ inbound' = buffer_
    /\ ServerGone
    /\ server_tls' = "plain"

\* No server answers; connect closes the socket it had opened and throws.
connect_fails ==
    /\ pc = "idle" /\ is_open
    /\ Close
    /\ UNCHANGED <<config, pc, op, replies, transfer_cb, is_ssl,
                   data_connection, server_data, buffered, upset, ready>>

disconnect(graceful) ==
    \/ /\ graceful
       /\ Start("disconnect", "QUIT", "disconnect", "none")
       /\ UNCHANGED transfer_cb
    \/ /\ ~graceful /\ pc = "idle"
       /\ \/ /\ is_open /\ ~is_ssl
             /\ Close
             /\ UNCHANGED <<pc, op, is_ssl>>
          \/ /\ is_open /\ is_ssl
             /\ pc' = "close_shutdown" /\ op' = "disconnect"
             /\ Notify
             /\ UNCHANGED <<control, inbound, commands, up, server_prot, server_type, work>>
          \/ /\ ~is_open /\ is_ssl
             /\ is_ssl' = FALSE
             /\ UNCHANGED <<pc, op, is_open, inbound, commands, up, session, work>>
       /\ UNCHANGED <<config, replies, transfer_cb,
                      data_connection, server_data, buffered, upset, ready>>

set_transfer_mode(mode) ==
    /\ pc = "idle"
    /\ transfer_mode_' = mode
    /\ UNCHANGED <<transfer_type_, rfc2428_support_, ssl_context_, pc, op, replies,
                   transfer_cb, control, data_connection, server_data, commands, inbound,
                   buffered, up, session, work, upset, ready>>

set_rfc2428_support(support) ==
    /\ pc = "idle"
    /\ rfc2428_support_' = support
    /\ UNCHANGED <<transfer_mode_, transfer_type_, ssl_context_, pc, op, replies,
                   transfer_cb, control, data_connection, server_data, commands, inbound,
                   buffered, up, session, work, upset, ready>>

UserStep ==
    \/ \E operation \in {"connect", "connect_login"} :
           connect(operation) \/ connect_interrupted(operation)
    \/ connect_fails
    \/ login \/ logout \/ rename \/ Simple \/ Transfer
    \/ \E t \in Types : set_transfer_type(t)
    \/ \E graceful \in BOOLEAN : disconnect(graceful)
    \/ \E mode \in Modes : set_transfer_mode(mode)
    \/ \E support \in Rfc2428Supports : set_rfc2428_support(support)

--------------------------------------------------------------------------------
(* The client waits for a reply.                                           *)

\* Off by one: more is counted as read than has arrived.
ReadPastTheEnd ==
    /\ pc \in Awaiting /\ buffered = 0
    /\ is_open /\ WireAgrees
    /\ \E n \in 1 .. Len(inbound) + 1 : buffered' = n
    /\ UNCHANGED <<config, pc, op, replies, transfer_cb, control,
                   data_connection, server_data, commands, inbound,
                   up, session, work, upset, ready>>

\* read_some moves what has arrived to buffer_, when no line is there yet.
Read ==
    /\ pc \in Awaiting /\ buffered = 0
    /\ is_open /\ WireAgrees
    /\ \E n \in 1 .. Len(inbound) : buffered' = n
    /\ UNCHANGED <<config, pc, op, replies, transfer_cb, control,
                   data_connection, server_data, commands, inbound,
                   up, session, work, upset, ready>>

\* End of file yields an empty line, which has no status code; TLS records
\* are no status code either, nor is plain text a TLS record.
RecvFails ==
    /\ pc \in Awaiting /\ buffered = 0
    /\ (~up /\ inbound = <<>> /\ ~torn) \/ ~WireAgrees
    /\ Throw
    /\ OnlyDialog
    /\ UNCHANGED <<transfer_mode_, rfc2428_support_, ssl_context_,
                   is_open, inbound, buffered>>

\* A 421 closes the control connection, whatever it answers: over TLS after
\* ssl_shutdown.  It is negative, so every operation ends with it; a data
\* connection is closed as well, which may throw.
Recv421 ==
    /\ pc \in Awaiting
    /\ buffered > 0 /\ code = 421
    /\ buffered' = buffered - 1
    /\ \/ /\ ~is_ssl
          /\ Leave("none") \/ (data_connection = "conn" /\ Leave("thrown"))
          /\ is_open' = FALSE
          /\ inbound' = Tail(buffer_)
          /\ ServerGone
          /\ UNCHANGED server_tls
       \/ /\ is_ssl
          /\ pc' = "close_shutdown"
          /\ inbound' = Tail(inbound)
          /\ Notify
          /\ UNCHANGED <<op, replies, transfer_cb, data_connection, server_data,
                         is_open, commands, up, server_prot, server_type, work>>
    /\ UNCHANGED <<config, is_ssl, upset, ready>>

\* ssl_shutdown, then close, from recv() and from disconnect(), which leaves
\* SSL.  It fails and leaves the socket open; or the socket is closed, and an
\* observer, the data connection or close() throws.
CloseShutdown ==
    /\ pc = "close_shutdown" /\ NotifyAnswered
    /\ \/ /\ Leave("none") /\ Close
          /\ is_ssl' = (is_ssl /\ op # "disconnect")
       \/ /\ Leave("thrown") /\ Close
          /\ UNCHANGED is_ssl
       \/ /\ Leave("thrown")
          /\ UNCHANGED <<control, inbound, commands, up, session, work>>
    /\ UNCHANGED <<config, buffered, upset, ready>>

RecvGreeting ==
    /\ pc = "GREET" /\ Receive
    /\ IF IsNegative(code) THEN Return
       ELSE IF ssl_context_ THEN Ask("AUTH")
       ELSE IF op = "connect_login" THEN Ask("USER")
       ELSE Return
    /\ OnlyDialog

RecvAuth ==
    /\ pc = "AUTH" /\ Receive
    /\ IF IsNegative(code) THEN Return /\ UNCHANGED is_ssl
                           ELSE Await("handshake") /\ is_ssl' = TRUE
    /\ UNCHANGED <<transfer_type_, up, session, work>>

\* ssl_handshake of the control connection has gone through.
Handshake ==
    /\ pc = "handshake"
    /\ server_tls = "tls"
    /\ \/ /\ op = "connect_login"
          /\ Write("USER", op)
          /\ UNCHANGED <<op, replies, transfer_cb, data_connection, server_data, upset, ready>>
       \/ /\ Leave(IF op = "connect_login" THEN "thrown" ELSE "none")  \* on_request throws
          /\ UNCHANGED <<commands, upset, ready>>
    /\ UNCHANGED <<config, control, inbound, buffered, up, session, work>>

\* It fails at either end, or finds plain text; the socket object remains ssl.
\* The server gives the connection up, or goes on without TLS.
HandshakeFails ==
    /\ pc = "handshake"
    /\ server_tls # "starting" \/ ~up \/ inbound # <<>>
    /\ Leave("thrown")
    /\ \/ ServerGone /\ UNCHANGED server_tls
       \/ server_tls' = "plain" /\ UNCHANGED <<commands, up, server_prot, server_type, work>>
    /\ UNCHANGED <<config, control, inbound, buffered, upset, ready>>

AfterPassword ==
    IF ssl_context_ THEN Ask("PBSZ")
    ELSE Proceed("TYPE", transfer_type_, data_connection, server_data)

RecvUser ==
    /\ pc = "USER" /\ Receive
    /\ IF code = 331 THEN Ask("PASS")
       ELSE IF IsNegative(code) THEN Return
       ELSE AfterPassword
    /\ OnlyDialog

RecvPass ==
    /\ pc = "PASS" /\ Receive
    /\ IF IsNegative(code) THEN Return ELSE AfterPassword
    /\ OnlyDialog

RecvPbsz ==
    /\ pc = "PBSZ" /\ Receive
    /\ IF IsNegative(code) THEN Return ELSE Ask("PROT")
    /\ OnlyDialog

RecvProt ==
    /\ pc = "PROT" /\ Receive
    /\ IF IsNegative(code) THEN Return
       ELSE Proceed("TYPE", transfer_type_, data_connection, server_data)
    /\ OnlyDialog

\* The type is recorded whatever the server says.
RecvTypeUnchecked ==
    /\ pc = "TYPE" /\ Receive
    /\ Return
    /\ transfer_type_' = CASE op = "set_binary" -> "binary"
                           [] op = "set_ascii" -> "ascii"
                           [] OTHER -> transfer_type_
    /\ UNCHANGED <<is_ssl, up, session, work>>

\* TYPE, as the last command of a login and from set_transfer_type.
RecvType ==
    /\ pc = "TYPE" /\ Receive
    /\ Return
    /\ transfer_type_' = CASE op = "set_binary" /\ IsPositive(code) -> "binary"
                           [] op = "set_ascii" /\ IsPositive(code) -> "ascii"
                           [] OTHER -> transfer_type_
    /\ UNCHANGED <<is_ssl, up, session, work>>

RecvSimple ==
    /\ pc \in {"SIMPLE", "RNTO"} /\ Receive
    /\ Return
    /\ OnlyDialog

RecvRnfr ==
    /\ pc = "RNFR" /\ Receive
    /\ IF code = 350 THEN Ask("RNTO") ELSE Return
    /\ OnlyDialog

\* After a positive REIN the client ends TLS.
RecvRein ==
    /\ pc = "REIN" /\ Receive
    /\ ready' = (ready /\ ~IsPositive(code))
    /\ \/ /\ IsPositive(code) /\ is_ssl
          /\ pc' = "rein_shutdown"
          /\ Notify
          /\ UNCHANGED <<op, replies, transfer_cb, data_connection, server_data>>
       \/ /\ ~IsPositive(code) \/ ~is_ssl
          /\ Leave("none")
          /\ UNCHANGED server_tls
    /\ UNCHANGED <<transfer_type_, is_ssl, commands, up, server_prot, server_type, work, upset>>

\* The ssl_socket is kept after TLS is shut down.
ReinShutdownKeepingSsl ==
    /\ pc = "rein_shutdown" /\ NotifyAnswered
    /\ Leave(IF server_tls = "plain" THEN "none" ELSE "thrown")
    /\ UNCHANGED <<config, control, commands, inbound, buffered, up, session, work, upset, ready>>

\* logout, after ssl_shutdown: any error throws, a mere end of file too, and
\* leaves the ssl_socket to a server that may go on in plain.
ReinShutdown ==
    /\ pc = "rein_shutdown" /\ NotifyAnswered
    /\ \/ server_tls = "plain" /\ Leave("none") /\ is_ssl' = FALSE
       \/ Leave("thrown") /\ UNCHANGED is_ssl
    /\ UNCHANGED <<config, is_open, commands, inbound, buffered, up, session, work, upset, ready>>

\* disconnect: whatever the answer to QUIT, the connection is closed, over
\* TLS after ssl_shutdown.
RecvQuit ==
    /\ pc = "QUIT"
    /\ buffered > 0 /\ code # 421
    /\ buffered' = buffered - 1
    /\ \/ /\ ~is_ssl
          /\ Leave("none")
          /\ is_open' = FALSE
          /\ inbound' = Tail(buffer_)
          /\ ServerGone
          /\ UNCHANGED server_tls
       \/ /\ is_ssl
          /\ pc' = "close_shutdown"
          /\ inbound' = Tail(inbound)
          /\ Notify
          /\ UNCHANGED <<op, replies, transfer_cb, data_connection, server_data,
                         is_open, commands, up, server_prot, server_type, work>>
    /\ UNCHANGED <<config, is_ssl, upset, ready>>

--------------------------------------------------------------------------------
(* Transfers: process_epsv_command, process_pasv_command,                  *)
(* process_eprt_command, process_port_command, and what their callers do   *)
(* with the data connection.                                               *)

\* Passive: a reply without an address cannot be parsed, and throws.
RecvPassive ==
    /\ pc \in {"EPSV", "PASV"} /\ Receive
    /\ IF IsNegative(code) THEN Return
       ELSE IF code = 227 THEN Await("data_connect")
       ELSE Throw
    /\ OnlyDialog

DataConnect ==
    /\ pc = "data_connect"
    /\ \/ server_data = "listen" /\ Proceed("MAIN", op, "conn", "conn")
       \/ Throw
    /\ UNCHANGED <<config, control, inbound, buffered, up, session, work>>

\* Active: the client listens already.
RecvActive ==
    /\ pc \in {"EPRT", "PORT"} /\ Receive
    /\ IF IsNegative(code) THEN Return ELSE Ask("MAIN")
    /\ OnlyDialog

\* The data connection is up: handshake, or the loop, which a callback that
\* is already cancelled skips.
StartTransfer == IF transfer_cb = "cancelled" THEN "transferred" ELSE "transfer"
Opened == IF ssl_context_ THEN "data_handshake" ELSE StartTransfer

\* The transfer is begun whatever the server says.
RecvMainUnchecked ==
    /\ pc = "MAIN" /\ Receive
    /\ Await(IF data_connection = "listen" THEN "accept" ELSE Opened)
    /\ OnlyDialog

\* A refused transfer closes the data connection, which may throw.
RecvMain ==
    /\ pc = "MAIN" /\ Receive
    /\ IF IsNegative(code) THEN Return \/ (data_connection = "conn" /\ Throw)
       ELSE Await(IF data_connection = "listen" THEN "accept" ELSE Opened)
    /\ OnlyDialog

\* What no data step touches.
DataOnly == UNCHANGED <<config, control, inbound, buffered,
                        up, session, work, ready>>

\* accept() has no timeout.  It takes a connection that the server has opened,
\* also when the server has closed it since.
Accept ==
    /\ pc = "accept" /\ server_data # "none"
    /\ data_connection' = "conn"
    /\ pc' = Opened
    /\ UNCHANGED <<op, replies, transfer_cb, server_data, commands, upset>>
    /\ DataOnly

AcceptFails == pc = "accept" /\ Abandon /\ DataOnly

\* A server that was not told PROT P stores the client's TLS records as the
\* file, and answers none of them.
DataHandshake ==
    /\ pc = "data_handshake"
    /\ \/ server_data = "conn" /\ server_prot /\ Await(StartTransfer)
       \/ /\ server_prot \/ server_data # "conn" \/ ~receiving
          /\ Abandon
    /\ DataOnly

\* The stream or the server has no more data, the callback says stop, or
\* the socket, the stream or the callback throws.
TransferEnds ==
    /\ pc = "transfer"
    /\ \/ op = "upload"
       \/ server_data = "closed"
       \/ transfer_cb = "cancelled"
    /\ Await("transferred")
    /\ DataOnly

\* So does an observer, told of the file list or of the ABOR, or disconnect.
TransferFails == pc \in {"transfer", "transferred"} /\ Abandon /\ DataOnly

\* is_cancelled() begins to return true, in a callback or from elsewhere.
Cancel ==
    /\ transfer_cb = "running"
    /\ transfer_cb' = "cancelled"
    /\ UNCHANGED <<pc, op, replies, data_connection, server_data, commands, upset>>
    /\ DataOnly

\* The result of a transfer that ran to its end is not waited for.
AfterTransferWithoutResult ==
    /\ pc = "transferred"
    /\ IF transfer_cb = "cancelled"
       THEN /\ Write("ABOR", op)
            /\ upset' = IF transfer = "none" THEN upset \cup {"abort_race"} ELSE upset
            /\ UNCHANGED <<op, replies, transfer_cb, data_connection, server_data>>
       ELSE Throw
    /\ DataOnly

AwaitResult ==
    /\ pc' = "final"
    /\ data_connection' = "none" /\ server_data' = "none"
    /\ UNCHANGED <<op, replies, transfer_cb, commands, upset>>

\* process_abort for a cancelled transfer, else disconnect the data connection,
\* over TLS after ssl_shutdown, and wait for the result.
AfterTransfer ==
    /\ pc = "transferred"
    /\ IF transfer_cb = "cancelled"
       THEN \/ /\ Write("ABOR", op)
               /\ upset' = IF transfer = "none" THEN upset \cup {"abort_race"} ELSE upset
               /\ UNCHANGED <<op, replies, transfer_cb, data_connection, server_data>>
            \/ (~up \/ ~WireAgrees) /\ Abandon
       ELSE \/ ~ssl_context_ /\ AwaitResult
            \/ /\ ssl_context_
               /\ pc' = "data_shutdown" /\ data_connection' = "ending"
               /\ UNCHANGED <<op, replies, transfer_cb, server_data, commands, upset>>
    /\ DataOnly

\* The server has ended its TLS properly, or just closed, which throws.
DataShutdown ==
    /\ pc = "data_shutdown" /\ server_data = "closed"
    /\ AwaitResult \/ Abandon
    /\ DataOnly

\* One reply to ABOR is enough, and: there always are two.
RecvAborOnce ==
    /\ pc = "ABOR" /\ Receive
    /\ Return
    /\ OnlyDialog

RecvAborTwice ==
    /\ pc = "ABOR" /\ Receive
    /\ Await("aborted")
    /\ OnlyDialog

\* The ABOR has been answered; the data connection is closed, over TLS after
\* ssl_shutdown, and may fail to.
CloseData ==
    \/ ~ssl_context_ /\ (Return \/ Throw)
    \/ ssl_context_ /\ Await("abort_shutdown")

\* 426 announces a second reply; the data connection is closed after it.
RecvAbor ==
    /\ pc = "ABOR" /\ Receive
    /\ IF code = 426 THEN Await("aborted") ELSE CloseData
    /\ OnlyDialog

RecvLast ==
    /\ pc \in {"final", "aborted"} /\ Receive
    /\ IF pc = "aborted" THEN CloseData ELSE Return
    /\ OnlyDialog

AbortShutdown ==
    /\ pc = "abort_shutdown" /\ server_data = "closed"
    /\ Leave("none") \/ Leave("thrown")
    /\ UNCHANGED <<commands, upset>>
    /\ DataOnly

--------------------------------------------------------------------------------
(* An observer throws in on_reply, or in on_request for the next command.  *)

\* What both ends should do after this reply, the client does not.
Unheeded ==
    \/ pc \in {"AUTH", "REIN", "TYPE", "MAIN"} /\ ~IsNegative(code)
    \/ pc = "ABOR" /\ code = 426

ObserverThrowsAnyway ==
    /\ pc \in Awaiting /\ Receive
    /\ Throw
    /\ OnlyDialog

ObserverThrows ==
    /\ pc \in Awaiting /\ Receive
    /\ Leave("thrown")
    /\ upset' = IF Unheeded THEN upset \cup {"unheeded"} ELSE upset
    /\ UNCHANGED <<commands, ready>>
    /\ OnlyDialog

\* recv() has closed the connection by then; over TLS, in CloseShutdown.
ObserverThrows421 ==
    /\ pc \in Awaiting /\ ~is_ssl
    /\ buffered > 0 /\ code = 421
    /\ buffered' = buffered - 1
    /\ ServerGone
    /\ Leave("thrown")
    /\ is_open' = FALSE /\ inbound' = Tail(buffer_)
    /\ UNCHANGED <<config, is_ssl, server_tls, upset, ready>>

ClientStep ==
    \/ Read \/ RecvFails \/ Recv421 \/ CloseShutdown
    \/ RecvGreeting \/ RecvAuth \/ Handshake \/ HandshakeFails
    \/ RecvUser \/ RecvPass \/ RecvPbsz \/ RecvProt \/ RecvType
    \/ RecvSimple \/ RecvRnfr \/ RecvRein \/ ReinShutdown \/ RecvQuit
    \/ RecvPassive \/ DataConnect \/ RecvActive \/ RecvMain
    \/ Accept \/ DataHandshake \/ TransferEnds \/ AfterTransfer \/ DataShutdown
    \/ RecvAbor \/ RecvLast \/ AbortShutdown

\* What may happen to a call, and need not.
Misfortune ==
    \/ AcceptFails \/ TransferFails \/ Cancel
    \/ ObserverThrows \/ ObserverThrows421

--------------------------------------------------------------------------------
(* The server (external).                                                  *)

ServerFrame == UNCHANGED <<config, pc, op, replies, transfer_cb, control,
                           data_connection, buffered, ready>>

Question == Head(commands)

\* Not so while it waits for a handshake or a close_notify to be completed.
Speaks == server_tls \in {"plain", "tls"}

\* The next command, which only ABOR need not wait to be heard.
Hears(cmds) ==
    /\ up /\ commands # <<>> /\ Question.cmd \in cmds
    /\ Speaks
    /\ transfer = "none" \/ Question.cmd = "ABOR"
    /\ commands' = Tail(commands)
    /\ ServerFrame

Says(c) ==
    inbound' = Append(inbound, [code |-> c, to |-> Question.cmd])
SaysTwice(c, d) ==
    inbound' = inbound \o <<[code |-> c, to |-> Question.cmd], [code |-> d, to |-> Question.cmd]>>

\* The server closes its end of the data connection, or stops listening.
Hangs(data) == IF data = "none" THEN "none" ELSE "closed"

Refuse ==
    /\ Hears(Commands \ {"GREET"})
    /\ Says(550)
    /\ server_data' \in {server_data, Hangs(server_data)}
    /\ upset' = IF Question.cmd = "ABOR" /\ transfer # "none"
                THEN upset \cup {"abort_refused"} ELSE upset
    /\ UNCHANGED <<up, session, work>>

\* The server closes the connection after a 221, or a 421 to any command.
Retire ==
    /\ up /\ commands # <<>> /\ transfer = "none" /\ Speaks
    /\ \/ Says(421)
       \/ Question.cmd = "QUIT" /\ Says(200)
    /\ server_data' = Hangs(server_data)
    /\ ServerGone
    /\ ServerFrame
    /\ UNCHANGED <<server_tls, upset>>

Greet ==
    /\ Hears({"GREET"})
    /\ \/ Says(200) /\ UNCHANGED upset
       \/ SaysTwice(120, 200) /\ upset' = upset \cup {"delayed"}
    /\ UNCHANGED <<server_data, up, session, work>>

GrantAuth ==
    /\ Hears({"AUTH"}) /\ server_tls = "plain"
    /\ Says(200)
    /\ server_tls' = "starting"
    /\ UNCHANGED <<server_data, up, server_prot, server_type, work, upset>>

\* The server's part of the handshake, which it may refuse; a reply still on
\* its way spoils it.
StartTls ==
    /\ up /\ server_tls = "starting" /\ pc = "handshake"
    /\ \/ inbound = <<>> /\ server_tls' = "tls"
       \/ server_tls' = "plain"
    /\ ServerFrame
    /\ UNCHANGED <<server_data, commands, inbound, up, server_prot, server_type, work, upset>>

\* The server answers the client's close_notify, and goes on in plain.
EndTls ==
    /\ up /\ server_tls = "ending"
    /\ server_tls' = "plain"
    /\ ServerFrame
    /\ UNCHANGED <<server_data, commands, inbound, up, server_prot, server_type, work, upset>>

GrantLogin ==
    /\ \/ Hears({"USER"}) /\ \E c \in {200, 331, 332} : Says(c)
       \/ Hears({"PASS"}) /\ \E c \in {200, 332} : Says(c)
    /\ UNCHANGED <<server_data, up, session, work, upset>>

GrantProtection ==
    /\ Hears({"PBSZ", "PROT"}) /\ server_tls = "tls"
    /\ Says(200)
    /\ server_prot' = (server_prot \/ Question.cmd = "PROT")
    /\ UNCHANGED <<server_data, up, server_tls, server_type, work, upset>>

GrantType ==
    /\ Hears({"TYPE"})
    /\ Says(200)
    /\ server_type' = Question.arg
    /\ UNCHANGED <<server_data, up, server_tls, server_prot, work, upset>>

GrantSimple ==
    /\ \/ Hears({"SIMPLE", "RNTO", "EPRT", "PORT"}) /\ Says(200)
       \/ Hears({"RNFR"}) /\ Says(350)
    /\ UNCHANGED <<server_data, up, session, work, upset>>

GrantRein ==
    /\ Hears({"REIN"})
    /\ server_prot' = FALSE /\ server_type' = "ascii"
    /\ \/ Says(200) /\ UNCHANGED upset
       \/ SaysTwice(120, 200) /\ upset' = upset \cup {"delayed"}
    /\ UNCHANGED <<server_data, up, server_tls, work>>

\* A listening port is announced, or cannot be read from the text.
GrantPassive ==
    /\ Hears({"EPSV", "PASV"})
    /\ server_data' = "listen"
    /\ \E c \in {200, 227} : Says(c)
    /\ UNCHANGED <<up, session, work, upset>>

\* 150: in passive mode the data connection is there, in active mode the
\* server has to open it.
GrantTransfer ==
    /\ Hears({"MAIN"})
    /\ Says(150)
    /\ transfer' = IF server_data = "conn" THEN "run" ELSE "wait"
    /\ receiving' = (Question.arg = "upload")
    /\ UNCHANGED <<server_data, up, session, torn, upset>>

ServerConnects ==
    /\ transfer = "wait" /\ data_connection = "listen" /\ commands = <<>>
    /\ transfer' = "run"
    /\ server_data' = "conn"
    /\ ServerFrame
    /\ UNCHANGED <<commands, inbound, up, session, receiving, torn, upset>>

\* The result of the transfer.  With an ABOR on its way, the client will
\* take it for the answer to the ABOR.
Result(c) ==
    /\ inbound' = Append(inbound, [code |-> c, to |-> "MAIN"])
    /\ transfer' = "none" /\ receiving' = FALSE
    /\ server_data' = Hangs(server_data)
    /\ upset' = IF commands # <<>> THEN upset \cup {"abort_race"} ELSE upset
    /\ ServerFrame
    /\ UNCHANGED <<session, torn>>

\* An upload is complete when the client has closed the data connection, or
\* its TLS.
TransferDone ==
    /\ transfer = "run" /\ (receiving => server_data = "none" \/ data_connection = "ending")
    /\ Result(200)
    /\ UNCHANGED <<commands, up>>

\* No data connection, no space, ...; or 421.
TransferAborted ==
    /\ transfer # "none"
    /\ \/ Result(550) /\ UNCHANGED <<commands, up>>
       \/ Result(421) /\ up' = FALSE /\ commands' = <<>>

\* 426 for the transfer and 226 for the ABOR, as RFC 959 says, or just 225,
\* as some servers do before the first byte.
GrantAbor ==
    /\ Hears({"ABOR"})
    /\ \/ /\ transfer # "none"
          /\ inbound' = inbound \o <<[code |-> 426, to |-> "MAIN"],
                                     [code |-> 200, to |-> Question.cmd]>>
       \/ Says(200)
    /\ transfer' = "none" /\ receiving' = FALSE
    /\ server_data' = Hangs(server_data)
    /\ UNCHANGED <<up, session, torn, upset>>

\* 421 to nobody in particular: idle for too long, or shutting down.
IdleTimeout ==
    /\ up /\ commands = <<>> /\ transfer = "none" /\ Speaks
    /\ inbound' = Append(inbound, [code |-> 421, to |-> "nobody"])
    /\ server_data' = Hangs(server_data)
    /\ ServerGone
    /\ ServerFrame
    /\ UNCHANGED <<server_tls, upset>>

\* The server or the network goes away; what was in flight may go with it, and
\* there may be the beginning of one more reply.
Crash ==
    /\ up
    /\ inbound' \in {inbound, buffer_}
    /\ torn' \in BOOLEAN
    /\ server_data' = Hangs(server_data)
    /\ Disappears
    /\ ServerFrame
    /\ UNCHANGED <<server_tls, upset>>

ServerStep ==
    \/ Refuse \/ Retire
    \/ Greet \/ GrantAuth \/ StartTls \/ EndTls \/ GrantLogin \/ GrantProtection \/ GrantType
    \/ GrantSimple \/ GrantRein \/ GrantPassive
    \/ GrantTransfer \/ ServerConnects \/ TransferDone \/ TransferAborted \/ GrantAbor

ServerFault == IdleTimeout \/ Crash

Next == UserStep \/ ClientStep \/ Misfortune \/ ServerStep \/ ServerFault

Spec == Init /\ [][Next]_vars

\* A server need not look at its control connection during a transfer, nor
\* answer a TLS hello or close_notify, nor give up an upload that goes on.
Obliged ==
    /\ transfer = "none" \/ commands = <<>>
    /\ Speaks
    /\ data_connection = "ending" => transfer = "none"
    /\ data_connection = "conn" => ~receiving

\* The client's thread runs, and a server that is up gets on with its work.
\* Nobody is obliged to start an operation, cancel one, or fail.
FairSpec == Spec /\ WF_vars(ClientStep) /\ WF_vars(ServerStep /\ Obliged)

--------------------------------------------------------------------------------
(* Properties.                                                             *)

\* The replies in flight are `owed' answers, after which there may be a 421
\* that answers nobody, from a server that has gone.
InFlight(owed) ==
    \/ Len(inbound) = owed
    \/ /\ Len(inbound) = owed + 1
       /\ inbound[owed + 1] = [code |-> 421, to |-> "nobody"]
       /\ ~up

Quiet == commands = <<>> /\ transfer = "none" /\ InFlight(0)

\* Between operations nothing is outstanding: no command unanswered, no reply
\* unread, no transfer running, so that the next recv() gets the answer to
\* the next send().  Every operation of client.cpp relies on it and has to
\* leave it so, also when it fails: "upset" names the only ways out of it.
QuietWhenIdle == pc = "idle" /\ upset = {} => Quiet

\* What is outstanding in each blocking call, while the dialog is in step.
Asked(cmd) == Len(commands) = 1 /\ commands[1].cmd = cmd /\ inbound = <<>>
Answered(cmd) == commands = <<>> /\ InFlight(1) /\ inbound[1].to = cmd
Lost == commands = <<>> /\ ~up /\ InFlight(0)

DataCalls == {"accept", "data_handshake", "transfer", "transferred", "data_shutdown", "final"}

Pauses == {"idle", "handshake", "data_connect", "rein_shutdown", "close_shutdown", "abort_shutdown"}

BetweenCommands == pc \in Pauses => Quiet

OneReply ==
    pc \in Commands \ {"MAIN", "ABOR"} =>
        transfer = "none" /\ (Asked(pc) \/ Answered(pc) \/ Lost)

\* A preliminary reply is on its way, with or without the result.
Begun(owed) ==
    /\ commands = <<>> /\ InFlight(owed)
    /\ inbound[1].to = "MAIN" /\ ~IsNegative(inbound[1].code)

TransferAsked ==
    pc = "MAIN" =>
        \/ transfer = "none" /\ (Asked("MAIN") \/ Lost)
        \/ transfer = "none" /\ Answered("MAIN") /\ IsNegative(inbound[1].code)
        \/ transfer = "none" /\ Begun(1) /\ ~up
        \/ transfer = "none" /\ Begun(2) /\ inbound[2].to = "MAIN"
        \/ transfer # "none" /\ Begun(1) /\ up

TransferRuns ==
    pc \in DataCalls =>
        \/ transfer # "none" /\ commands = <<>> /\ inbound = <<>>
        \/ transfer = "none" /\ (Answered("MAIN") \/ Lost)

Interrupted(owed) ==
    /\ commands = <<>> /\ InFlight(owed)
    /\ inbound[1] = [code |-> 426, to |-> "MAIN"]

AbortAsked ==
    /\ pc = "ABOR" =>
        \/ transfer # "none" /\ Asked("ABOR")
        \/ transfer = "none" /\ Answered("ABOR") /\ inbound[1].code # 426
        \/ transfer = "none" /\ Interrupted(2) /\ inbound[2].to = "ABOR"
        \/ transfer = "none" /\ Interrupted(1) /\ ~up
        \/ transfer = "none" /\ Lost
    /\ pc = "aborted" =>
        transfer = "none" /\ (Answered("ABOR") \/ Lost)

\* The calls that begin TLS on the control connection, or end it.
TlsCalls == {"handshake", "rein_shutdown", "close_shutdown"}

\* Within an operation both ends speak TLS or neither does, so that recv()
\* does not fail while the server is there.
Secured ==
    /\ pc \notin {"idle"} \cup TlsCalls => WireAgrees
    /\ pc \in TlsCalls => is_ssl

\* A server that is gone does nothing, and a closed socket has no server.
Gone == /\ ~up => commands = <<>> /\ transfer = "none"
        /\ ~is_open => ~up

\* The invariant that carries QuietWhenIdle and RepliesMatch.
Dialog ==
    /\ Gone
    /\ upset = {} =>
        /\ BetweenCommands /\ OneReply /\ TransferAsked /\ TransferRuns /\ AbortAsked
        /\ Secured

\* The command whose answer the client is waiting for.
Expected == IF pc = "final" THEN "MAIN" ELSE IF pc = "aborted" THEN "ABOR" ELSE pc

Consumes == buffered' < buffered

\* recv() in client.cpp never returns the answer to another command: what is
\* consumed answers the command just sent, or is the 426 of the transfer an
\* ABOR ended, or is a 421 sent to nobody.
RepliesMatch ==
    [][Consumes /\ upset = {} =>
         \/ Head(inbound).to = Expected
         \/ pc = "ABOR" /\ Head(inbound) = [code |-> 426, to |-> "MAIN"]
         \/ Head(inbound) = [code |-> 421, to |-> "nobody"]]_vars

\* Both ends of a living connection speak TLS, or neither does, unless the
\* latest operation has thrown: connect, logout and disconnect, which switch
\* TLS at one end before the other, never return as if both had.
TlsAgreement ==
    pc = "idle" /\ is_open /\ up /\ upset = {} => WireAgrees \/ op = "thrown"

\* After a login whose replies are all positive, the server transfers in the
\* type that create_input_stream and create_output_stream assume, and
\* protects the data connections on which the client will start TLS.
SettingsAgree ==
    pc = "idle" /\ is_open /\ up /\ upset = {} /\ ready
        => server_type = transfer_type_ /\ server_prot = ssl_context_

\* The waits that no timeout ends: for the rest of a reply, in a loop that
\* ignores the end of file; for a data connection the server has given up
\* opening; for a server that does not look at its control connection during a
\* transfer; and for its part in beginning or ending TLS, which on a data
\* connection that it does not protect never comes.
WaitsForEver ==
    \/ pc \in Awaiting /\ torn
    \/ pc = "accept" /\ transfer = "none" /\ server_data = "none"
    \/ pc = "ABOR" /\ transfer # "none"
    \/ pc = "handshake" /\ up /\ server_tls = "starting"
    \/ pc \in {"rein_shutdown", "close_shutdown"} /\ up /\ server_tls = "ending"
    \/ pc \in {"data_shutdown", "abort_shutdown"} /\ up /\ server_data # "closed"
    \/ pc = "data_handshake" /\ receiving /\ ~server_prot

\* Every call comes back while the dialog is in step, but for these waits.
OperationReturns == pc # "idle" ~> pc = "idle" \/ upset # {} \/ WaitsForEver

\* test/client.cpp: the last reply of a cancelled upload answers the ABOR.
AbortIsAnswered ==
    [][Consumes /\ code # 421 /\ pc \in {"ABOR", "aborted"} /\ pc' = "idle"
         => Head(inbound).to = "ABOR"]_vars

\* test/client.cpp: a client that was disconnected and connects again gets
\* the greeting of the new connection, so nothing may be left in buffer_.
GreetingIsFresh == [][~is_open /\ pc' = "GREET" => buffered = 0]_vars

\* RFC 959, section 5.4: the user waits for the 220 before any command.
GreetingIsAwaited ==
    [][pc = "GREET" /\ Consumes /\ pc' \in Commands => code = 200]_vars
================================================================================
