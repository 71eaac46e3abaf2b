---------------------------- MODULE FtpClient_proofs ----------------------------
(***************************************************************************)
(* Proofs about ftp::client: its type invariant, and that its dialog with  *)
(* the server stays in step.  Dialog is inductive (with TypeOK), and       *)
(* implies QuietWhenIdle and RepliesMatch.  The lemmas say what one step   *)
(* does to the replies in flight, then to each of the situations that      *)
(* Dialog names.  With Dialog follow what the two ends agree on between    *)
(* operations: TLS, and the settings of a transfer.                        *)
(***************************************************************************)
EXTENDS FtpClient, TLAPS

LEMMA TypeInit == Init => TypeOK
<1> SUFFICES ASSUME Init PROVE TypeOK
  OBVIOUS
<1>1. inbound \in Seq(Reply) /\ commands \in Seq(Command) /\ buffered \in 0 .. Len(inbound)
  BY DEF Init
<1>2. NoReplies \in RepliesType
  BY DEF NoReplies, RepliesType
<1>3. rfc2428_support_ \in BOOLEAN /\ ssl_context_ \in BOOLEAN
  BY ConstantsAssumption DEF Init
<1> QED
  BY <1>1, <1>2, <1>3 DEF Init, TypeOK, Calls, Shutdowns, Ops, Modes, Types

LEMMA TailType ==
  ASSUME NEW S, NEW s \in Seq(S), s # <<>>
  PROVE  Tail(s) \in Seq(S) /\ Len(Tail(s)) = Len(s) - 1 /\ Head(s) \in S
  OBVIOUS

LEMMA NoElement == ASSUME NEW S, NEW s \in Seq(S), Len(s) = 0 PROVE s = <<>>
  OBVIOUS

LEMMA OneElement ==
  ASSUME NEW S, NEW s \in Seq(S), Len(s) = 1
  PROVE  Head(s) = s[1] /\ Tail(s) = <<>>
<1>1. s # <<>> /\ Head(s) = s[1]
  OBVIOUS
<1>2. Tail(s) \in Seq(S) /\ Len(Tail(s)) = 0
  BY <1>1, TailType
<1> QED
  BY <1>1, <1>2, NoElement

LEMMA PrefixType ==
  ASSUME NEW S, NEW s \in Seq(S), NEW n \in 0 .. Len(s)
  PROVE  SubSeq(s, 1, n) \in Seq(S) /\ Len(SubSeq(s, 1, n)) = n
  OBVIOUS

LEMMA AppendReplyType ==
  ASSUME NEW rs \in RepliesType, NEW c \in Codes
  PROVE  AppendReply(rs, c) \in RepliesType
  BY DEF AppendReply, RepliesType, IsPositive

\* The names that actions write, so that no step need expand the sets.
LEMMA Names ==
  /\ \A c \in {"GREET", "AUTH", "USER", "PASS", "PBSZ", "PROT", "TYPE", "REIN",
               "SIMPLE", "RNFR", "RNTO", "QUIT", "EPSV", "PASV", "EPRT", "PORT",
               "MAIN", "ABOR"} : c \in Commands /\ c \in Calls /\ c \in Awaiting
  /\ \A c \in {"idle", "final", "aborted", "handshake", "data_connect", "accept",
               "data_handshake", "transfer", "transferred", "rein_shutdown",
               "close_shutdown", "data_shutdown", "abort_shutdown"} : c \in Calls
  /\ \A o \in {"none", "thrown", "connect", "connect_login", "login", "logout", "simple",
               "set_binary", "set_ascii", "rename", "disconnect", "download",
               "upload", "list"} : o \in Ops
  /\ NoReplies \in RepliesType
  /\ <<>> \in Seq(Command)
  /\ \A t \in Types : [cmd |-> "TYPE", arg |-> t] \in Command
  /\ \A c \in Commands, o \in Ops : c # "TYPE" => [cmd |-> c, arg |-> o] \in Command
  BY DEF Command, Commands, Calls, Shutdowns, Awaiting, Ops, LoginOps, TransferOps, NoReplies, RepliesType

USE Names DEF Modes, Types, config, control, session, work

LEMMA StartType ==
  ASSUME TypeOK, NEW o \in Ops, NEW c \in Commands, NEW a,
         [cmd |-> c, arg |-> a] \in Command, NEW d \in {"none", "listen"}, Start(o, c, a, d),
         transfer_cb' \in {"null", "running", "cancelled"}
  PROVE  TypeOK'
<1>1. c \in Calls
  BY DEF Calls, Awaiting
<1> QED
  BY <1>1 DEF Start, Write, TypeOK

LEMMA BufferType ==
  ASSUME TypeOK
  PROVE  buffer_ \in Seq(Reply) /\ Len(buffer_) = buffered
  BY PrefixType DEF TypeOK, buffer_

LEMMA CloseType ==
  ASSUME TypeOK, Close, UNCHANGED buffered
  PROVE  inbound' \in Seq(Reply) /\ buffered' \in 0 .. Len(inbound')
  BY BufferType DEF Close, TypeOK

LEMMA TypeUser == TypeOK /\ UserStep => TypeOK'
<1> SUFFICES ASSUME TypeOK, UserStep PROVE TypeOK'
  OBVIOUS
<1>1. ASSUME NEW o \in {"connect", "connect_login"}, connect(o) \/ connect_interrupted(o)
      PROVE  TypeOK'
  <2>1. NewConnection(o) /\ op' \in Ops /\ pc' \in Calls
    BY <1>1, Names DEF connect, connect_interrupted
  <2>2. upset' \in SUBSET Upsets
    BY <1>1 DEF connect, connect_interrupted, Inherited, Upsets
  <2>3. inbound' \in Seq(Reply) /\ buffered' \in 0 .. Len(inbound')
    BY <2>1, BufferType DEF NewConnection, TypeOK
  <2>4. commands' \in Seq(Command)
    BY <2>1 DEF NewConnection, Command
  <2> QED
    BY <2>1, <2>2, <2>3, <2>4 DEF NewConnection, TypeOK
<1>2. CASE connect_fails
  <2>1. inbound' \in Seq(Reply) /\ buffered' \in 0 .. Len(inbound')
    BY <1>2, CloseType DEF connect_fails
  <2>2. /\ is_open' = FALSE /\ up' = FALSE /\ commands' = <<>>
        /\ transfer' = "none" /\ receiving' = FALSE /\ torn' = torn
        /\ server_prot' = FALSE /\ server_type' = "ascii" /\ server_tls' = "plain"
    BY <1>2 DEF connect_fails, Close, ServerGone, Disappears
  <2>3. <<>> \in Seq(Command)
    OBVIOUS
  <2>4. /\ is_open' \in BOOLEAN /\ up' \in BOOLEAN /\ commands' \in Seq(Command)
        /\ transfer' \in {"none", "wait", "run"} /\ receiving' \in BOOLEAN
        /\ torn' \in BOOLEAN /\ server_prot' \in BOOLEAN /\ server_type' \in Types
        /\ server_tls' \in {"plain", "starting", "tls", "ending"}
    BY <2>2, <2>3 DEF TypeOK
  <2> QED
    BY <1>2, <2>1, <2>4 DEF connect_fails, TypeOK
<1>3. CASE login \/ logout \/ rename \/ Simple
  <2>1. transfer_cb' \in {"null", "running", "cancelled"}
    BY <1>3 DEF login, logout, rename, Simple, TypeOK
  <2> QED
    BY <1>3, <2>1, StartType DEF login, logout, rename, Simple
<1>4. CASE Transfer
  <2>1. PICK o \in {"download", "upload", "list"}, cb \in {"null", "running"} :
             create_data_connection(o, cb)
    BY <1>4 DEF Transfer
  <2>2. PICK c \in {"EPSV", "PASV", "EPRT", "PORT"}, d \in {"none", "listen"} :
             Start(o, c, o, d)
    BY <2>1 DEF create_data_connection, TypeOK
  <2>3. transfer_cb' = cb
    BY <2>1 DEF create_data_connection
  <2>4. o \in Ops /\ c \in Commands /\ [cmd |-> c, arg |-> o] \in Command
    BY <2>1, Names
  <2> QED
    BY <2>1, <2>2, <2>3, <2>4, StartType
<1>5. ASSUME NEW t \in Types, set_transfer_type(t) PROVE TypeOK'
  <2>1. transfer_cb' \in {"null", "running", "cancelled"}
    BY <1>5 DEF set_transfer_type, TypeOK
  <2>2. PICK o \in {"set_binary", "set_ascii"} : Start(o, "TYPE", t, "none")
    BY <1>5 DEF set_transfer_type
  <2> QED
    BY <2>1, <2>2, StartType
<1>6. ASSUME NEW g \in BOOLEAN, disconnect(g) PROVE TypeOK'
  <2>1. CASE g
    <3>1. transfer_cb' \in {"null", "running", "cancelled"}
      BY <1>6, <2>1 DEF disconnect, TypeOK
    <3> QED
      BY <1>6, <2>1, <3>1, StartType DEF disconnect
  <2>2. CASE ~g
    <3>1. CASE Close
      <4>1. inbound' \in Seq(Reply) /\ buffered' \in 0 .. Len(inbound')
        BY <1>6, <2>2, <3>1, CloseType DEF disconnect
      <4> QED
        BY <1>6, <2>2, <3>1, <4>1 DEF disconnect, Close, ServerGone, Disappears, TypeOK
    <3>2. CASE ~Close
      <4>1. CASE is_open
        BY <1>6, <2>2, <3>2, <4>1 DEF disconnect, Notify, TypeOK, config, control, work
      <4>2. CASE ~is_open
        BY <1>6, <2>2, <3>2, <4>2 DEF disconnect, TypeOK, config, session, work
      <4> QED
        BY <4>1, <4>2
    <3> QED
      BY <3>1, <3>2
  <2> QED
    BY <2>1, <2>2
<1>7. ASSUME NEW m \in Modes, set_transfer_mode(m) PROVE TypeOK'
  BY <1>7 DEF set_transfer_mode, TypeOK
<1>8. ASSUME NEW s \in Rfc2428Supports, set_rfc2428_support(s) PROVE TypeOK'
  <2>1. s \in BOOLEAN
    BY ConstantsAssumption
  <2> QED
    BY <1>8, <2>1 DEF set_rfc2428_support, TypeOK
<1> QED
  BY <1>1, <1>2, <1>3, <1>4, <1>5, <1>6, <1>7, <1>8 DEF UserStep

\* The part of the state that the ends of an operation's step determine.
CallOK ==
    /\ pc \in Calls /\ op \in Ops /\ replies \in RepliesType
    /\ transfer_cb \in {"null", "running", "cancelled"}
    /\ data_connection \in {"none", "listen", "conn", "ending"}
    /\ server_data \in {"none", "listen", "conn", "closed"}
    /\ commands \in Seq(Command)
    /\ upset \in SUBSET Upsets /\ ready \in BOOLEAN

LEMMA CodeType ==
  ASSUME TypeOK, buffered > 0
  PROVE  /\ code \in Codes /\ Head(inbound) \in Reply
         /\ inbound # <<>> /\ Len(inbound) > 0
         /\ AppendReply(replies, code) \in RepliesType
         /\ AppendReply(replies, code).is_positive \in BOOLEAN
         /\ Tail(inbound) \in Seq(Reply)
         /\ Len(Tail(inbound)) = Len(inbound) - 1
         /\ buffered - 1 \in 0 .. Len(Tail(inbound))
<1>1. inbound # <<>> /\ Len(inbound) > 0
  BY DEF TypeOK
<1>2. Head(inbound) \in Reply /\ Tail(inbound) \in Seq(Reply) /\ Len(Tail(inbound)) = Len(inbound) - 1
  BY <1>1, TailType DEF TypeOK
<1>3. code \in Codes
  BY <1>2 DEF code, Reply
<1>4. AppendReply(replies, code) \in RepliesType
  BY <1>3, AppendReplyType DEF TypeOK
<1>5. AppendReply(replies, code).is_positive \in BOOLEAN
  BY <1>4 DEF RepliesType
<1>6. buffered - 1 \in 0 .. Len(Tail(inbound))
  BY <1>2 DEF TypeOK
<1> QED
  BY <1>1, <1>2, <1>3, <1>4, <1>5, <1>6

LEMMA LeaveType ==
  ASSUME TypeOK
  PROVE  /\ Throw => CallOK'
         /\ Abandon => CallOK'
         /\ buffered > 0 /\ Return => CallOK'
  BY CodeType DEF Throw, Abandon, Return, Leave, CallOK, TypeOK, Upsets

LEMMA WriteType ==
  ASSUME TypeOK, NEW c \in Commands, NEW a, [cmd |-> c, arg |-> a] \in Command, Write(c, a)
  PROVE  pc' \in Calls /\ commands' \in Seq(Command)
<1>1. c \in Calls
  BY DEF Calls, Awaiting
<1> QED
  BY <1>1 DEF Write, TypeOK

LEMMA CollectType ==
  ASSUME TypeOK, buffered > 0 \/ pc \notin Awaiting, Collect
  PROVE  replies' \in RepliesType
  BY CodeType DEF Collect, TypeOK

LEMMA ProceedType ==
  ASSUME TypeOK, buffered > 0 \/ pc \notin Awaiting,
         NEW c \in Commands, NEW a, [cmd |-> c, arg |-> a] \in Command,
         NEW d \in {"none", "listen", "conn", "ending"},
         NEW p \in {"none", "listen", "conn", "closed"},
         Proceed(c, a, d, p)
  PROVE  CallOK'
<1>1. CASE Throw
  BY <1>1, LeaveType
<1>2. CASE ~Throw
  <2>1. /\ Write(c, a) /\ Collect
        /\ data_connection' = d /\ server_data' = p
        /\ UNCHANGED <<op, transfer_cb, upset, ready>>
    BY <1>2 DEF Proceed
  <2>2. pc' \in Calls /\ commands' \in Seq(Command)
    BY <2>1, WriteType
  <2>3. replies' \in RepliesType
    BY <2>1, CollectType
  <2> QED
    BY <2>1, <2>2, <2>3 DEF CallOK, TypeOK
<1> QED
  BY <1>1, <1>2

LEMMA AskType ==
  ASSUME TypeOK, buffered > 0 \/ pc \notin Awaiting,
         \/ \E cmd \in Commands \ {"TYPE"} : Ask(cmd)
         \/ Proceed("TYPE", transfer_type_, data_connection, server_data)
  PROVE  CallOK'
<1>1. /\ data_connection \in {"none", "listen", "conn", "ending"}
      /\ server_data \in {"none", "listen", "conn", "closed"}
      /\ op \in Ops /\ transfer_type_ \in Types /\ "TYPE" \in Commands
  BY DEF TypeOK
<1>2. ASSUME NEW cmd \in Commands \ {"TYPE"}, Ask(cmd) PROVE CallOK'
  <2>1. [cmd |-> cmd, arg |-> op] \in Command
    BY <1>1
  <2> QED
    BY <1>1, <1>2, <2>1, ProceedType DEF Ask
<1>3. CASE Proceed("TYPE", transfer_type_, data_connection, server_data)
  <2>1. [cmd |-> "TYPE", arg |-> transfer_type_] \in Command
    BY <1>1
  <2> QED
    BY <1>1, <1>3, <2>1, ProceedType
<1> QED
  BY <1>2, <1>3

LEMMA AwaitType ==
  ASSUME TypeOK, buffered > 0 \/ pc \notin Awaiting, NEW c \in Calls, Await(c)
  PROVE  CallOK'
  BY CollectType DEF Await, CallOK, TypeOK

\* What a handler does to the rest of the state, Receive has fixed.
LEMMA HandlerType ==
  ASSUME TypeOK, Receive, CallOK', transfer_type_' \in Types, is_ssl' \in BOOLEAN,
         UNCHANGED <<up, session, work>>
  PROVE  TypeOK'
<1>1. inbound' \in Seq(Reply) /\ buffered' \in 0 .. Len(inbound')
  BY CodeType DEF Receive
<1> QED
  BY <1>1 DEF Receive, CallOK, TypeOK

LEMMA DialogType ==
  ASSUME TypeOK, Receive, CallOK', OnlyDialog
  PROVE  TypeOK'
<1>1. transfer_type_' \in Types /\ is_ssl' \in BOOLEAN /\ UNCHANGED <<up, session, work>>
  BY DEF OnlyDialog, TypeOK
<1> QED
  BY <1>1, HandlerType

\* An operation that ends with its connection.
LEMMA EndType ==
  ASSUME TypeOK, NEW o \in {"none", "thrown"}, Leave(o), ServerGone,
         UNCHANGED <<config, server_tls, upset, ready>>,
         is_open' \in BOOLEAN, is_ssl' \in BOOLEAN,
         inbound' \in Seq(Reply) /\ buffered' \in 0 .. Len(inbound')
  PROVE  TypeOK'
  BY Names DEF Leave, ServerGone, Disappears, TypeOK

\* The two ways in which a connection ends: closed by the client, or not.
LEMMA LastReplyType ==
  ASSUME TypeOK, buffered > 0, buffered' = buffered - 1,
         inbound' \in {Tail(buffer_), Tail(inbound)}
  PROVE  inbound' \in Seq(Reply) /\ buffered' \in 0 .. Len(inbound')
<1>1. CASE inbound' = Tail(inbound)
  BY <1>1, CodeType
<1>2. CASE inbound' = Tail(buffer_)
  <2>1. buffer_ \in Seq(Reply) /\ Len(buffer_) = buffered
    BY BufferType
  <2>2. buffer_ # <<>> /\ buffered \in Nat
    BY <2>1
  <2>3. Tail(buffer_) \in Seq(Reply) /\ Len(Tail(buffer_)) = buffered - 1
    BY <2>1, <2>2, TailType
  <2> QED
    BY <1>2, <2>2, <2>3
<1> QED
  BY <1>1, <1>2

LEMMA TypeRead == TypeOK /\ Read => TypeOK'
<1> SUFFICES ASSUME TypeOK, Read PROVE TypeOK'
  OBVIOUS
<1>1. buffered' \in 0 .. Len(inbound')
  BY DEF Read, TypeOK
<1> QED
  BY <1>1 DEF Read, TypeOK

LEMMA TypeRecvFails == TypeOK /\ RecvFails => TypeOK'
<1> SUFFICES ASSUME TypeOK, RecvFails PROVE TypeOK'
  OBVIOUS
<1>1. CallOK'
  BY LeaveType DEF RecvFails
<1> QED
  BY <1>1 DEF RecvFails, OnlyDialog, CallOK, TypeOK

LEMMA TypeRecv421 == TypeOK /\ Recv421 => TypeOK'
<1> SUFFICES ASSUME TypeOK, Recv421 PROVE TypeOK'
  OBVIOUS
<1>1. inbound' \in Seq(Reply) /\ buffered' \in 0 .. Len(inbound')
  BY LastReplyType DEF Recv421
<1>2. CASE is_ssl
  BY <1>1, <1>2 DEF Recv421, Notify, TypeOK
<1>3. CASE ~is_ssl
  <2>1. is_open' \in BOOLEAN /\ is_ssl' \in BOOLEAN
    BY <1>3 DEF Recv421, TypeOK
  <2>2. PICK o \in {"none", "thrown"} : Leave(o) /\ ServerGone
    BY <1>3 DEF Recv421
  <2> QED
    BY <1>1, <1>3, <2>1, <2>2, EndType DEF Recv421
<1> QED
  BY <1>2, <1>3

LEMMA TypeRecvQuit == TypeOK /\ RecvQuit => TypeOK'
<1> SUFFICES ASSUME TypeOK, RecvQuit PROVE TypeOK'
  OBVIOUS
<1>1. inbound' \in Seq(Reply) /\ buffered' \in 0 .. Len(inbound')
  BY LastReplyType DEF RecvQuit
<1>2. CASE is_ssl
  BY <1>1, <1>2 DEF RecvQuit, Notify, TypeOK
<1>3. CASE ~is_ssl
  <2>1. is_open' \in BOOLEAN /\ is_ssl' \in BOOLEAN
    BY <1>3 DEF RecvQuit, TypeOK
  <2>2. PICK o \in {"none", "thrown"} : Leave(o) /\ ServerGone
    BY <1>3 DEF RecvQuit
  <2> QED
    BY <1>1, <1>3, <2>1, <2>2, EndType DEF RecvQuit
<1> QED
  BY <1>2, <1>3

LEMMA TypeObserver == TypeOK /\ (ObserverThrows \/ ObserverThrows421) => TypeOK'
<1> SUFFICES ASSUME TypeOK, ObserverThrows \/ ObserverThrows421 PROVE TypeOK'
  OBVIOUS
<1>1. CASE ObserverThrows
  <2>1. CallOK'
    BY <1>1 DEF ObserverThrows, Leave, CallOK, TypeOK, Upsets
  <2> QED
    BY <1>1, <2>1, DialogType DEF ObserverThrows
<1>2. CASE ObserverThrows421
  <2>1. inbound' \in Seq(Reply) /\ buffered' \in 0 .. Len(inbound')
    BY <1>2, LastReplyType DEF ObserverThrows421
  <2>2. is_open' \in BOOLEAN /\ is_ssl' \in BOOLEAN
    BY <1>2 DEF ObserverThrows421, TypeOK
  <2> QED
    BY <1>2, <2>1, <2>2, EndType DEF ObserverThrows421
<1> QED
  BY <1>1, <1>2

\* The handlers that receive a reply and return, throw, ask or wait.
LEMMA TypeHandlers ==
  ASSUME TypeOK,
         \/ RecvGreeting \/ RecvUser \/ RecvPass \/ RecvPbsz \/ RecvProt
         \/ RecvSimple \/ RecvRnfr \/ RecvPassive \/ RecvActive \/ RecvMain
         \/ RecvAbor \/ RecvLast
  PROVE  TypeOK'
<1>1. Receive /\ OnlyDialog /\ buffered > 0
  BY DEF RecvGreeting, RecvUser, RecvPass, RecvPbsz, RecvProt, RecvSimple, RecvRnfr,
         RecvPassive, RecvActive, RecvMain, RecvAbor, RecvLast, Receive
<1>2. \/ Return
      \/ Throw
      \/ \E cmd \in {"AUTH", "USER", "PASS", "PBSZ", "PROT", "RNTO", "MAIN"} : Ask(cmd)
      \/ Proceed("TYPE", transfer_type_, data_connection, server_data)
      \/ \E call \in {"data_connect", "accept", "data_handshake", "transfer",
                      "transferred", "aborted", "abort_shutdown"} : Await(call)
  BY DEF RecvGreeting, RecvUser, RecvPass, RecvPbsz, RecvProt, RecvSimple, RecvRnfr,
         RecvPassive, RecvActive, RecvMain, RecvAbor, RecvLast, CloseData, AfterPassword,
         Opened, StartTransfer
<1>3. CASE Return \/ Throw
  BY <1>1, <1>3, LeaveType, DialogType
<1>4. ASSUME NEW cmd \in {"AUTH", "USER", "PASS", "PBSZ", "PROT", "RNTO", "MAIN"}, Ask(cmd)
      PROVE  TypeOK'
  <2>1. cmd \in Commands \ {"TYPE"}
    OBVIOUS
  <2> QED
    BY <1>1, <1>4, <2>1, AskType, DialogType
<1>5. CASE Proceed("TYPE", transfer_type_, data_connection, server_data)
  <2>1. "TYPE" \in Commands
    OBVIOUS
  <2> QED
    BY <1>1, <1>5, <2>1, AskType, DialogType
<1>6. ASSUME NEW call \in {"data_connect", "accept", "data_handshake", "transfer",
                           "transferred", "aborted", "abort_shutdown"}, Await(call)
      PROVE  TypeOK'
  <2>1. call \in Calls
    OBVIOUS
  <2> QED
    BY <1>1, <1>6, <2>1, AwaitType, DialogType
<1> QED
  BY <1>2, <1>3, <1>4, <1>5, <1>6

LEMMA TypeSession ==
  ASSUME TypeOK,
         \/ RecvAuth \/ RecvType \/ RecvRein \/ Handshake \/ HandshakeFails
         \/ ReinShutdown \/ CloseShutdown
  PROVE  TypeOK'
<1>1. CASE RecvAuth
  <2>1. CallOK'
    <3>1. Receive /\ buffered > 0 /\ (Return \/ Await("handshake"))
      BY <1>1 DEF RecvAuth, Receive
    <3> QED
      BY <3>1, LeaveType, AwaitType
  <2>2. is_ssl' \in BOOLEAN /\ transfer_type_' \in Types
    BY <1>1 DEF RecvAuth, TypeOK
  <2> QED
    BY <1>1, <2>1, <2>2, HandlerType DEF RecvAuth
<1>2. CASE RecvType
  <2>1. CallOK'
    BY <1>2, LeaveType DEF RecvType, Receive
  <2>2. is_ssl' \in BOOLEAN /\ transfer_type_' \in Types
    BY <1>2 DEF RecvType, TypeOK
  <2> QED
    BY <1>2, <2>1, <2>2, HandlerType DEF RecvType
<1>3. CASE RecvRein
  <2>1. inbound' \in Seq(Reply) /\ buffered' \in 0 .. Len(inbound')
    BY <1>3, CodeType DEF RecvRein, Receive
  <2>2. ready' \in BOOLEAN
    BY <1>3 DEF RecvRein, IsPositive, TypeOK
  <2> QED
    BY <1>3, <2>1, <2>2, Names DEF RecvRein, Receive, Notify, Leave, TypeOK
<1>4. CASE Handshake
  <2>1. [cmd |-> "USER", arg |-> op] \in Command
    BY DEF Command, TypeOK
  <2>2. CASE Write("USER", op)
    <3>1. pc' \in Calls /\ commands' \in Seq(Command)
      BY <2>1, <2>2, WriteType
    <3>2. UNCHANGED <<op, replies, transfer_cb, data_connection, server_data, upset, ready>>
      BY <1>4, <2>2 DEF Handshake, Write, Leave
    <3> QED
      BY <1>4, <3>1, <3>2 DEF Handshake, TypeOK
  <2>3. ASSUME NEW o \in {"none", "thrown"}, Leave(o), UNCHANGED <<commands, upset, ready>>
        PROVE  TypeOK'
    BY <1>4, <2>3 DEF Handshake, Leave, TypeOK
  <2> QED
    BY <1>4, <2>2, <2>3 DEF Handshake
<1>5. CASE HandshakeFails
  <2>1. CASE ServerGone /\ UNCHANGED server_tls
    <3>1. /\ commands' = <<>> /\ up' = FALSE /\ transfer' = "none" /\ receiving' = FALSE
          /\ server_prot' = FALSE /\ server_type' = "ascii" /\ UNCHANGED torn
      BY <2>1 DEF ServerGone, Disappears
    <3> QED
      BY <1>5, <2>1, <3>1 DEF HandshakeFails, Leave, TypeOK
  <2>2. CASE server_tls' = "plain" /\ UNCHANGED <<commands, up, server_prot, server_type, work>>
    BY <1>5, <2>2 DEF HandshakeFails, Leave, TypeOK
  <2> QED
    BY <1>5, <2>1, <2>2 DEF HandshakeFails
<1>6. CASE ReinShutdown
  <2>1. PICK o \in {"none", "thrown"} : Leave(o)
    BY <1>6 DEF ReinShutdown
  <2>2. is_ssl' \in BOOLEAN
    BY <1>6 DEF ReinShutdown, TypeOK
  <2> QED
    BY <1>6, <2>1, <2>2 DEF ReinShutdown, Leave, TypeOK
<1>7. CASE CloseShutdown
  <2>1. CASE Close
    <3>1. inbound' \in Seq(Reply) /\ buffered' \in 0 .. Len(inbound')
      BY <1>7, <2>1, CloseType DEF CloseShutdown
    <3> QED
      BY <1>7, <2>1, <3>1 DEF CloseShutdown, Leave, Close, ServerGone, Disappears, TypeOK
  <2>2. CASE ~Close
    BY <1>7, <2>2 DEF CloseShutdown, Leave, TypeOK
  <2> QED
    BY <2>1, <2>2
<1> QED
  BY <1>1, <1>2, <1>3, <1>4, <1>5, <1>6, <1>7

\* The steps of a data connection leave the control connection alone.
LEMMA DataType == ASSUME TypeOK, CallOK', DataOnly PROVE TypeOK'
  BY DEF CallOK, DataOnly, TypeOK

LEMMA TypeData ==
  ASSUME TypeOK,
         \/ DataConnect \/ Accept \/ AcceptFails \/ DataHandshake \/ TransferEnds
         \/ TransferFails \/ Cancel \/ AfterTransfer \/ DataShutdown \/ AbortShutdown
  PROVE  TypeOK'
<1>0. \A call \in {"data_connect", "accept", "data_handshake", "transfer", "transferred"} :
          call \notin Awaiting
  BY DEF Awaiting, Commands
<1>1. CASE DataConnect
  <2>1. op \in Ops /\ "MAIN" \in Commands
    BY DEF TypeOK
  <2>2. CallOK'
    BY <1>0, <1>1, <2>1, LeaveType, ProceedType DEF DataConnect
  <2> QED
    BY <1>1, <2>2 DEF DataConnect, CallOK, TypeOK
<1>2. CASE Accept
  <2>1. Opened \in Calls
    BY DEF Opened, StartTransfer
  <2> QED
    BY <1>2, <2>1, DataType DEF Accept, DataOnly, CallOK, TypeOK
<1>3. CASE AcceptFails \/ TransferFails
  BY <1>3, LeaveType, DataType DEF AcceptFails, TransferFails
<1>4. CASE DataHandshake
  <2>1. StartTransfer \in Calls
    BY DEF StartTransfer
  <2>2. CallOK'
    BY <1>0, <1>4, <2>1, LeaveType, AwaitType DEF DataHandshake
  <2> QED
    BY <1>4, <2>2, DataType DEF DataHandshake
<1>5. CASE TransferEnds
  <2>1. CallOK'
    BY <1>0, <1>5, AwaitType DEF TransferEnds
  <2> QED
    BY <1>5, <2>1, DataType DEF TransferEnds
<1>6. CASE Cancel
  BY <1>6, DataType DEF Cancel, DataOnly, CallOK, TypeOK
<1>7. CASE AfterTransfer
  <2>1. CASE Abandon
    BY <1>7, <2>1, LeaveType, DataType DEF AfterTransfer
  <2>2. CASE /\ Write("ABOR", op)
             /\ upset' = IF transfer = "none" THEN upset \cup {"abort_race"} ELSE upset
             /\ UNCHANGED <<op, replies, transfer_cb, data_connection, server_data>>
    <3>1. op \in Ops /\ "ABOR" \in Commands
      BY DEF TypeOK
    <3>2. pc' \in Calls /\ commands' \in Seq(Command)
      BY <2>2, <3>1, WriteType
    <3>3. upset' \in SUBSET Upsets
      BY <2>2 DEF TypeOK, Upsets
    <3> QED
      BY <1>7, <2>2, <3>2, <3>3, DataType DEF AfterTransfer, DataOnly, CallOK, TypeOK
  <2>3. CASE AwaitResult
    BY <1>7, <2>3, DataType DEF AfterTransfer, AwaitResult, DataOnly, CallOK, TypeOK
  <2>4. CASE /\ pc' = "data_shutdown" /\ data_connection' = "ending"
             /\ UNCHANGED <<op, replies, transfer_cb, server_data, commands, upset>>
    BY <1>7, <2>4, DataType DEF AfterTransfer, DataOnly, CallOK, TypeOK
  <2> QED
    BY <1>7, <2>1, <2>2, <2>3, <2>4 DEF AfterTransfer
<1>8. CASE DataShutdown
  <2>1. CallOK'
    BY <1>8, LeaveType DEF DataShutdown, AwaitResult, DataOnly, CallOK, TypeOK
  <2> QED
    BY <1>8, <2>1, DataType DEF DataShutdown
<1>9. CASE AbortShutdown
  BY <1>9, DataType DEF AbortShutdown, Leave, DataOnly, CallOK, TypeOK
<1> QED
  BY <1>1, <1>2, <1>3, <1>4, <1>5, <1>6, <1>7, <1>8, <1>9

--------------------------------------------------------------------------------

\* What a server's step may write; the client's part is in ServerFrame.
ServerOK ==
    /\ server_data \in {"none", "listen", "conn", "closed"}
    /\ commands \in Seq(Command)
    /\ up \in BOOLEAN
    /\ server_tls \in {"plain", "starting", "tls", "ending"}
    /\ server_prot \in BOOLEAN
    /\ server_type \in Types
    /\ transfer \in {"none", "wait", "run"}
    /\ receiving \in BOOLEAN
    /\ torn \in BOOLEAN
    /\ upset \in SUBSET Upsets

LEMMA ServerType ==
  ASSUME TypeOK, ServerFrame, ServerOK', inbound' \in Seq(Reply), buffered <= Len(inbound')
  PROVE  TypeOK'
<1>1. buffered' \in 0 .. Len(inbound')
  BY DEF ServerFrame, TypeOK
<1> QED
  BY <1>1 DEF ServerFrame, ServerOK, TypeOK

LEMMA AppendType ==
  ASSUME NEW S, NEW s \in Seq(S), NEW e \in S, NEW f \in S
  PROVE  /\ Append(s, e) \in Seq(S) /\ Len(Append(s, e)) = Len(s) + 1
         /\ s \o <<e, f>> \in Seq(S) /\ Len(s \o <<e, f>>) = Len(s) + 2
  OBVIOUS

\* The server sends nothing, one reply, or two, and each is a reply.
LEMMA SendType ==
  ASSUME TypeOK,
         \/ inbound' = inbound
         \/ \E e \in Reply : inbound' = Append(inbound, e)
         \/ \E e, f \in Reply : inbound' = inbound \o <<e, f>>
  PROVE  inbound' \in Seq(Reply) /\ buffered <= Len(inbound')
<1>1. inbound \in Seq(Reply) /\ Len(inbound) \in Nat /\ buffered \in 0 .. Len(inbound)
  BY DEF TypeOK
<1>2. CASE inbound' = inbound
  BY <1>1, <1>2
<1>3. ASSUME NEW e \in Reply, inbound' = Append(inbound, e)
      PROVE  inbound' \in Seq(Reply) /\ buffered <= Len(inbound')
  BY <1>1, <1>3, AppendType
<1>4. ASSUME NEW e \in Reply, NEW f \in Reply, inbound' = inbound \o <<e, f>>
      PROVE  inbound' \in Seq(Reply) /\ buffered <= Len(inbound')
  BY <1>1, <1>4, AppendType
<1> QED
  BY <1>2, <1>3, <1>4

LEMMA QuestionType ==
  ASSUME TypeOK, commands # <<>>
  PROVE  /\ Question \in Command
         /\ Tail(commands) \in Seq(Command)
         /\ \A c \in Codes : [code |-> c, to |-> Question.cmd] \in Reply
<1>1. Question \in Command /\ Tail(commands) \in Seq(Command)
  BY TailType DEF TypeOK, Question
<1>2. Question.cmd \in Commands
  BY <1>1 DEF Command
<1> QED
  BY <1>1, <1>2 DEF Reply

LEMMA SaysType ==
  ASSUME TypeOK, commands # <<>>,
         \/ \E c \in Codes : Says(c)
         \/ \E c, d \in Codes : SaysTwice(c, d)
  PROVE  inbound' \in Seq(Reply) /\ buffered <= Len(inbound')
<1>1. CASE \E c \in Codes : Says(c)
  <2>1. PICK c \in Codes : Says(c)
    BY <1>1
  <2>2. [code |-> c, to |-> Question.cmd] \in Reply
    BY QuestionType
  <2> QED
    BY <2>1, <2>2, SendType DEF Says
<1>2. CASE \E c, d \in Codes : SaysTwice(c, d)
  <2>1. PICK c \in Codes, d \in Codes : SaysTwice(c, d)
    BY <1>2
  <2>2. /\ [code |-> c, to |-> Question.cmd] \in Reply
        /\ [code |-> d, to |-> Question.cmd] \in Reply
    BY QuestionType
  <2> QED
    BY <2>1, <2>2, SendType DEF SaysTwice
<1> QED
  BY <1>1, <1>2

LEMMA CodeNames ==
  \A c \in {120, 150, 200, 227, 331, 332, 350, 421, 426, 550} : c \in Codes
  BY DEF Codes

\* The server's answer to a command.
LEMMA TypeAnswers ==
  ASSUME TypeOK,
         \/ Refuse \/ Greet \/ GrantAuth \/ GrantLogin \/ GrantProtection \/ GrantType
         \/ GrantSimple \/ GrantRein \/ GrantPassive \/ GrantTransfer
  PROVE  TypeOK'
<1>1. commands # <<>> /\ commands' = Tail(commands) /\ ServerFrame /\ UNCHANGED up
  BY DEF Refuse, Greet, GrantAuth, GrantLogin, GrantProtection, GrantType, GrantSimple,
         GrantRein, GrantPassive, GrantTransfer, Hears
<1>2. \/ \E c \in {150, 200, 227, 331, 332, 350, 550} : Says(c)
      \/ SaysTwice(120, 200)
  BY DEF Refuse, Greet, GrantAuth, GrantLogin, GrantProtection, GrantType, GrantSimple,
         GrantRein, GrantPassive, GrantTransfer
<1>3. inbound' \in Seq(Reply) /\ buffered <= Len(inbound')
  BY <1>1, <1>2, SaysType, CodeNames
<1>4. Tail(commands) \in Seq(Command) /\ Question \in Command
  BY <1>1, QuestionType
<1>5. upset' \in SUBSET Upsets
  BY DEF Refuse, Greet, GrantAuth, GrantLogin, GrantProtection, GrantType, GrantSimple,
         GrantRein, GrantPassive, GrantTransfer, TypeOK, Upsets
<1>6. server_data' \in {"none", "listen", "conn", "closed"}
  BY DEF Refuse, Greet, GrantAuth, GrantLogin, GrantProtection, GrantType, GrantSimple,
         GrantRein, GrantPassive, GrantTransfer, Hangs, TypeOK
<1>7. /\ server_tls' \in {"plain", "starting", "tls", "ending"}
      /\ transfer' \in {"none", "wait", "run"}
  BY DEF Refuse, Greet, GrantAuth, GrantLogin, GrantProtection, GrantType, GrantSimple,
         GrantRein, GrantPassive, GrantTransfer, TypeOK
<1>8. server_prot' \in BOOLEAN /\ receiving' \in BOOLEAN
  BY DEF Refuse, Greet, GrantAuth, GrantLogin, GrantProtection, GrantType, GrantSimple,
         GrantRein, GrantPassive, GrantTransfer, TypeOK
<1>0. torn' = torn
  BY DEF Refuse, Greet, GrantAuth, GrantLogin, GrantProtection, GrantType, GrantSimple,
         GrantRein, GrantPassive, GrantTransfer
<1>9. server_type' \in Types
  <2>1. Question.cmd = "TYPE" => Question.arg \in Types
    BY <1>4 DEF Command
  <2> QED
    BY <2>1 DEF Refuse, Greet, GrantAuth, GrantLogin, GrantProtection, GrantType, GrantSimple,
                GrantRein, GrantPassive, GrantTransfer, Hears, TypeOK
<1> QED
  BY <1>0, <1>1, <1>3, <1>4, <1>5, <1>6, <1>7, <1>8, <1>9, ServerType DEF ServerOK, TypeOK

\* The server ends a transfer, opens a data connection, or goes away.
LEMMA TypeTurns ==
  ASSUME TypeOK,
         \/ Retire \/ ServerConnects \/ TransferDone \/ TransferAborted \/ GrantAbor
         \/ IdleTimeout \/ Crash \/ StartTls \/ EndTls
  PROVE  TypeOK'
<1>1. \A c \in {200, 421, 426, 550} : [code |-> c, to |-> "MAIN"] \in Reply
  BY CodeNames DEF Reply
<1>2. [code |-> 421, to |-> "nobody"] \in Reply
  BY CodeNames DEF Reply
<1>3. inbound' \in Seq(Reply) /\ buffered <= Len(inbound')
  <2>1. CASE Retire
    BY <2>1, SaysType, CodeNames DEF Retire
  <2>2. CASE ServerConnects
    BY <2>2, SendType DEF ServerConnects
  <2>3. CASE TransferDone \/ TransferAborted
    <3>1. \E c \in {200, 421, 550} : inbound' = Append(inbound, [code |-> c, to |-> "MAIN"])
      BY <2>3 DEF TransferDone, TransferAborted, Result
    <3> QED
      BY <1>1, <3>1, SendType
  <2>4. CASE GrantAbor
    <3>1. /\ commands # <<>>
          /\ \/ inbound' = inbound \o <<[code |-> 426, to |-> "MAIN"],
                                        [code |-> 200, to |-> Question.cmd]>>
             \/ Says(200)
      BY <2>4 DEF GrantAbor, Hears
    <3>2. [code |-> 200, to |-> Question.cmd] \in Reply
      BY <3>1, QuestionType, CodeNames
    <3>3. CASE Says(200)
      BY <3>1, <3>3, SaysType, CodeNames
    <3>4. CASE inbound' = inbound \o <<[code |-> 426, to |-> "MAIN"],
                                       [code |-> 200, to |-> Question.cmd]>>
      <4> DEFINE e == [code |-> 426, to |-> "MAIN"]
                 f == [code |-> 200, to |-> Question.cmd]
      <4>1. e \in Reply /\ f \in Reply /\ inbound' = inbound \o <<e, f>>
        BY <1>1, <3>2, <3>4
      <4> HIDE DEF e, f
      <4> QED
        BY <4>1, SendType
    <3> QED
      BY <3>1, <3>3, <3>4
  <2>5. CASE IdleTimeout
    BY <1>2, <2>5, SendType DEF IdleTimeout
  <2>6. CASE Crash
    <3>1. buffer_ \in Seq(Reply) /\ Len(buffer_) = buffered
      BY BufferType
    <3> QED
      BY <2>6, <3>1 DEF Crash, TypeOK
  <2>7. CASE StartTls \/ EndTls
    BY <2>7, SendType DEF StartTls, EndTls
  <2> QED
    BY <2>1, <2>2, <2>3, <2>4, <2>5, <2>6, <2>7
<1>4. ServerFrame
  BY DEF Retire, ServerConnects, TransferDone, TransferAborted, Result, GrantAbor, Hears,
         IdleTimeout, Crash, StartTls, EndTls
<1>5. commands' \in Seq(Command)
  <2>1. commands # <<>> => Tail(commands) \in Seq(Command)
    BY QuestionType
  <2> QED
    BY <2>1 DEF Retire, ServerConnects, TransferDone, TransferAborted, GrantAbor, Hears,
                IdleTimeout, Crash, StartTls, EndTls, ServerGone, Disappears, TypeOK
<1>6. server_data' \in {"none", "listen", "conn", "closed"}
  BY DEF Retire, ServerConnects, TransferDone, TransferAborted, Result, GrantAbor,
         IdleTimeout, Crash, StartTls, EndTls, Hangs, TypeOK
<1>7. /\ up' \in BOOLEAN /\ transfer' \in {"none", "wait", "run"} /\ receiving' \in BOOLEAN
      /\ torn' \in BOOLEAN
  BY DEF Retire, ServerConnects, TransferDone, TransferAborted, Result, GrantAbor,
         IdleTimeout, Crash, StartTls, EndTls, ServerGone, Disappears, TypeOK
<1>8. /\ server_tls' \in {"plain", "starting", "tls", "ending"} /\ server_prot' \in BOOLEAN
      /\ server_type' \in Types
  <2>1. /\ server_tls' \in {server_tls, "plain", "tls"}
        /\ \/ UNCHANGED <<server_prot, server_type>>
           \/ server_prot' = FALSE /\ server_type' = "ascii"
    BY DEF Retire, ServerConnects, TransferDone, TransferAborted, Result, GrantAbor,
           IdleTimeout, Crash, StartTls, EndTls, ServerGone, Disappears
  <2> QED
    BY <2>1 DEF TypeOK
<1>9. upset' \in SUBSET Upsets
  BY DEF Retire, ServerConnects, TransferDone, TransferAborted, Result, GrantAbor, Hears,
         IdleTimeout, Crash, StartTls, EndTls, TypeOK, Upsets
<1> QED
  BY <1>3, <1>4, <1>5, <1>6, <1>7, <1>8, <1>9, ServerType DEF ServerOK

--------------------------------------------------------------------------------

LEMMA TypeNext == TypeOK /\ [Next]_vars => TypeOK'
<1> SUFFICES ASSUME TypeOK, [Next]_vars PROVE TypeOK'
  OBVIOUS
<1>1. CASE UserStep
  BY <1>1, TypeUser
<1>2. CASE ClientStep
  BY <1>2, TypeRead, TypeRecvFails, TypeRecv421, TypeRecvQuit, TypeHandlers, TypeSession,
     TypeData DEF ClientStep
<1>3. CASE Misfortune
  BY <1>3, TypeData, TypeObserver DEF Misfortune
<1>4. CASE ServerStep \/ ServerFault
  BY <1>4, TypeAnswers, TypeTurns DEF ServerStep, ServerFault
<1>5. CASE UNCHANGED vars
  BY <1>5 DEF vars, TypeOK
<1> QED
  BY <1>1, <1>2, <1>3, <1>4, <1>5 DEF Next

\* Every variable of the client, of the control connection and of the server
\* keeps to its type; in particular no more replies are in buffer_ than have
\* arrived, whatever is read, lost, closed and connected again.
THEOREM TypeCorrect == Spec => []TypeOK
<1> QED
  BY TypeInit, TypeNext, PTL DEF Spec

--------------------------------------------------------------------------------
(* The dialog.                                                             *)

HIDE Names

\* Dialog, once the history says that it is in step.
InStep ==
    /\ BetweenCommands /\ OneReply /\ TransferAsked /\ TransferRuns /\ AbortAsked
    /\ Secured

LEMMA DialogInit == Init => Dialog
<1> SUFFICES ASSUME Init PROVE Dialog
  OBVIOUS
<1>1. pc = "idle" /\ commands = <<>> /\ inbound = <<>> /\ transfer = "none"
  BY DEF Init
<1>2. InFlight(0)
  BY <1>1 DEF InFlight
<1>3. "idle" \notin Commands /\ "idle" \notin DataCalls /\ "idle" \notin TlsCalls
  BY DEF Commands, DataCalls, TlsCalls
<1> QED
  BY <1>1, <1>2, <1>3 DEF Init, Dialog, Gone, BetweenCommands, Quiet, OneReply, TransferAsked,
                          TransferRuns, AbortAsked, Secured

--------------------------------------------------------------------------------
(* Replies in flight.                                                      *)

LEMMA InboundType == TypeOK => inbound \in Seq(Reply) /\ Len(inbound) \in Nat
  BY DEF TypeOK

\* One reply is received.
LEMMA InFlightReceive ==
  ASSUME TypeOK, buffered > 0, inbound' = Tail(inbound), up' = up \/ up' = FALSE,
         NEW n \in {1, 2}, InFlight(n)
  PROVE  InFlight(n - 1)' /\ Head(inbound) = inbound[1] /\ (n = 2 => inbound'[1] = inbound[2])
<1>1. inbound \in Seq(Reply) /\ inbound # <<>> /\ Len(inbound) \in Nat
  BY CodeType, InboundType
<1>2. Len(inbound') = Len(inbound) - 1 /\ Head(inbound) = inbound[1]
  BY <1>1
<1>3. \A i \in 1 .. Len(inbound) - 1 : inbound'[i] = inbound[i + 1]
  BY <1>1
<1>4. CASE Len(inbound) = n
  BY <1>2, <1>3, <1>4 DEF InFlight
<1>5. CASE Len(inbound) = n + 1 /\ inbound[n + 1] = [code |-> 421, to |-> "nobody"] /\ ~up
  <2>1. inbound'[n] = inbound[n + 1] /\ ~up'
    BY <1>3, <1>5
  <2>2. Len(inbound') = (n - 1) + 1 /\ inbound'[(n - 1) + 1] = [code |-> 421, to |-> "nobody"]
    BY <1>2, <1>5, <2>1
  <2>3. InFlight(n - 1)'
    BY <2>1, <2>2 DEF InFlight
  <2>4. n = 2 => inbound'[1] = inbound[2]
    <3>1. n = 2 => 1 \in 1 .. Len(inbound) - 1 /\ 1 + 1 = 2
      BY <1>5
    <3> QED
      BY <1>3, <3>1, Zenon
  <2> QED
    BY <1>2, <2>3, <2>4
<1> QED
  BY <1>4, <1>5 DEF InFlight

\* The reply received is the 421 to nobody, when no other is in flight.
LEMMA InFlightNone ==
  ASSUME TypeOK, buffered > 0, InFlight(0)
  PROVE  Head(inbound) = [code |-> 421, to |-> "nobody"] /\ Len(inbound) = 1 /\ ~up
<1>1. inbound \in Seq(Reply) /\ inbound # <<>> /\ Len(inbound) \in Nat /\ Len(inbound) > 0
  BY CodeType, InboundType
<1> QED
  BY <1>1 DEF InFlight

\* A server that is up has sent what it owes and nothing else.
LEMMA InFlightUp ==
  ASSUME TypeOK, NEW n \in Nat, InFlight(n), up
  PROVE  Len(inbound) = n /\ (n = 0 => inbound = <<>>)
  BY InboundType DEF InFlight

\* The server sends one reply it owes; or a 421 to nobody, and is gone.
LEMMA InFlightSend ==
  ASSUME TypeOK, NEW n \in {0, 1}, InFlight(n), up, NEW r \in Reply,
         inbound' = Append(inbound, r)
  PROVE  /\ InFlight(n + 1)' /\ inbound'[n + 1] = r
         /\ n = 1 => inbound'[1] = inbound[1]
         /\ r = [code |-> 421, to |-> "nobody"] /\ ~up' => InFlight(n)'
<1>1. inbound \in Seq(Reply) /\ Len(inbound) = n
  BY InFlightUp, InboundType
<1>2. Len(inbound') = n + 1 /\ inbound'[n + 1] = r /\ (n = 1 => inbound'[1] = inbound[1])
  BY <1>1
<1> QED
  BY <1>2 DEF InFlight

\* Nothing is sent or received.
LEMMA InFlightSame ==
  ASSUME NEW n \in Nat, InFlight(n), UNCHANGED inbound, up' = up \/ up' = FALSE
  PROVE  InFlight(n)'
  BY DEF InFlight

\* All but a prefix of the replies is lost.
LEMMA InFlightLost ==
  ASSUME TypeOK, inbound' = buffer_, ~up', NEW n \in {0, 1, 2}, InFlight(n)
  PROVE  \/ InFlight(n)' /\ \A i \in 1 .. n : inbound'[i] = inbound[i]
         \/ n > 0 /\ InFlight(0)'
         \/ n > 1 /\ InFlight(1)' /\ inbound'[1] = inbound[1]
<1>1. inbound \in Seq(Reply) /\ Len(inbound) \in Nat /\ buffered \in 0 .. Len(inbound)
  BY DEF TypeOK
<1>2. Len(inbound') = buffered /\ \A i \in 1 .. buffered : inbound'[i] = inbound[i]
  BY <1>1 DEF buffer_
<1> QED
  BY <1>1, <1>2 DEF InFlight

--------------------------------------------------------------------------------
(* The connection: who is gone, and who speaks TLS.                        *)

\* What ends the call of a client whose connection lives on, or asks for more.
LEMMA GoneProceed ==
  ASSUME Gone, UNCHANGED <<is_open, up, transfer>>,
         \/ Throw \/ Return \/ Abandon
         \/ \E c \in Commands : \E a, d, p : Proceed(c, a, d, p)
         \/ \E c : Await(c)
         \/ \E c, a : Write(c, a)
         \/ UNCHANGED commands
  PROVE  Gone'
  BY DEF Gone, Throw, Return, Abandon, Proceed, Await, Write

LEMMA GoneUser == Gone /\ UserStep => Gone'
<1> SUFFICES ASSUME Gone, UserStep PROVE Gone'
  OBVIOUS
<1>1. ASSUME NEW o \in {"connect", "connect_login"}, connect(o) \/ connect_interrupted(o)
      PROVE  Gone'
  BY <1>1 DEF connect, connect_interrupted, NewConnection, Gone
<1>2. CASE connect_fails \/ \E g \in BOOLEAN : disconnect(g) /\ ~g
  BY <1>2 DEF connect_fails, disconnect, Close, Notify, ServerGone, Disappears, Gone
<1>3. ASSUME NEW o, NEW c, NEW a, NEW d, Start(o, c, a, d) PROVE Gone'
  BY <1>3, GoneProceed DEF Start
<1>4. CASE login \/ logout \/ rename \/ Simple \/ Transfer \/ disconnect(TRUE)
           \/ \E t \in Types : set_transfer_type(t)
  BY <1>3, <1>4 DEF login, logout, rename, Simple, Transfer, create_data_connection, disconnect,
                    set_transfer_type
<1>5. CASE \/ \E mode \in Modes : set_transfer_mode(mode)
           \/ \E support \in Rfc2428Supports : set_rfc2428_support(support)
  BY <1>5 DEF set_transfer_mode, set_rfc2428_support, Gone
<1> QED
  BY <1>1, <1>2, <1>4, <1>5 DEF UserStep

LEMMA GoneClient == TypeOK /\ Gone /\ (ClientStep \/ Misfortune) => Gone'
<1> SUFFICES ASSUME TypeOK, Gone, ClientStep \/ Misfortune PROVE Gone'
  OBVIOUS
<1>1. CASE Read
  BY <1>1 DEF Read, Gone
<1>2. CASE RecvFails
  BY <1>2, GoneProceed DEF RecvFails, OnlyDialog
<1>3. CASE Recv421 \/ RecvQuit \/ ObserverThrows421 \/ CloseShutdown
  BY <1>3 DEF Recv421, RecvQuit, ObserverThrows421, CloseShutdown, Close, ServerGone, Disappears,
              Gone
<1>4. CASE \/ RecvGreeting \/ RecvUser \/ RecvPass \/ RecvPbsz \/ RecvProt
           \/ RecvSimple \/ RecvRnfr \/ RecvPassive \/ RecvActive \/ RecvMain
           \/ RecvAbor \/ RecvLast
  <2>1. UNCHANGED <<is_open, up, transfer>>
    BY <1>4 DEF RecvGreeting, RecvUser, RecvPass, RecvPbsz, RecvProt, RecvSimple, RecvRnfr,
                RecvPassive, RecvActive, RecvMain, RecvAbor, RecvLast, Receive, OnlyDialog
  <2>2. \/ Throw \/ Return
        \/ \E c \in Commands : \E a : Proceed(c, a, data_connection, server_data)
        \/ \E c : Await(c)
    BY <1>4, Names DEF RecvGreeting, RecvUser, RecvPass, RecvPbsz, RecvProt, RecvSimple, RecvRnfr,
                RecvPassive, RecvActive, RecvMain, RecvAbor, RecvLast, CloseData, AfterPassword, Ask
  <2> QED
    BY <2>1, <2>2, GoneProceed
<1>5. CASE RecvAuth \/ RecvType \/ ObserverThrows
  <2>1. UNCHANGED <<is_open, up, transfer, commands>>
    BY <1>5 DEF RecvAuth, RecvType, ObserverThrows, OnlyDialog, Receive, Return, Await
  <2> QED
    BY <2>1, GoneProceed
<1>6. CASE RecvRein \/ ReinShutdown
  BY <1>6 DEF RecvRein, ReinShutdown, Receive, Gone
<1>7. CASE Handshake \/ HandshakeFails
  <2>1. CASE Handshake
    BY <1>7, <2>1 DEF Handshake, Write, Gone
  <2>2. CASE HandshakeFails
    BY <1>7, <2>2 DEF HandshakeFails, ServerGone, Disappears, Gone
  <2> QED
    BY <1>7, <2>1, <2>2
<1>8. CASE \/ DataConnect \/ Accept \/ AcceptFails \/ DataHandshake \/ TransferEnds
           \/ TransferFails \/ Cancel \/ AfterTransfer \/ DataShutdown \/ AbortShutdown
  <2>1. UNCHANGED <<is_open, up, transfer>>
    BY <1>8 DEF DataConnect, Accept, AcceptFails, DataHandshake, TransferEnds, TransferFails,
                Cancel, AfterTransfer, DataShutdown, AbortShutdown, DataOnly
  <2>2. \/ Throw \/ Abandon
        \/ \E c \in Commands : \E a, d, p : Proceed(c, a, d, p)
        \/ \E c, a : Write(c, a)
        \/ UNCHANGED commands
    BY <1>8, Names DEF DataConnect, Accept, AcceptFails, DataHandshake, TransferEnds, TransferFails,
                Cancel, AfterTransfer, AwaitResult, DataShutdown, AbortShutdown, Await
  <2> QED
    BY <2>1, <2>2, GoneProceed
<1> QED
  BY <1>1, <1>2, <1>3, <1>4, <1>5, <1>6, <1>7, <1>8 DEF ClientStep, Misfortune

LEMMA GoneServer == TypeOK /\ Gone /\ (ServerStep \/ ServerFault) => Gone'
<1> SUFFICES ASSUME TypeOK, Gone, ServerStep \/ ServerFault PROVE Gone'
  OBVIOUS
<1>1. CASE \/ Refuse \/ Greet \/ GrantAuth \/ GrantLogin \/ GrantProtection \/ GrantType
           \/ GrantSimple \/ GrantRein \/ GrantPassive \/ GrantTransfer \/ GrantAbor
  <2>1. up /\ UNCHANGED <<up, is_open>>
    BY <1>1 DEF Refuse, Greet, GrantAuth, GrantLogin, GrantProtection, GrantType,
         GrantSimple, GrantRein, GrantPassive, GrantTransfer, GrantAbor, Hears, ServerFrame
  <2> QED
    BY <2>1 DEF Gone
<1>2. CASE Retire \/ IdleTimeout \/ Crash
  BY <1>2 DEF Retire, IdleTimeout, Crash, ServerGone, Disappears, Gone
<1>3. CASE ServerConnects \/ TransferDone \/ StartTls \/ EndTls
  BY <1>3 DEF ServerConnects, TransferDone, Result, StartTls, EndTls, ServerFrame, Gone
<1>4. CASE TransferAborted
  BY <1>4 DEF TransferAborted, Result, ServerFrame, Gone
<1> QED
  BY <1>1, <1>2, <1>3, <1>4 DEF ServerStep, ServerFault

LEMMA GoneNext == TypeOK /\ Gone /\ Next => Gone'
  BY GoneUser, GoneClient, GoneServer DEF Next

LEMMA SecuredStays ==
  ASSUME Secured, UNCHANGED <<is_ssl, server_tls>>,
         pc' = pc \/ pc' = "idle" \/ (WireAgrees /\ pc' \notin TlsCalls)
  PROVE  Secured'
  BY DEF Secured, WireAgrees, TlsCalls

\* The calls an operation goes on with: it waits for a reply, or for the data
\* connection.
LEMMA NotTls ==
  /\ \A c \in Commands \cup Awaiting : c \notin TlsCalls /\ c # "idle"
  BY DEF Commands, Awaiting, TlsCalls

\* The operations that begin by sending a command.
LEMMA StartsCommand ==
  ASSUME TypeOK,
         \/ login \/ logout \/ rename \/ Simple \/ Transfer \/ disconnect(TRUE)
         \/ \E t \in Types : set_transfer_type(t)
  PROVE  \E o, a, d : \E c \in Commands \ {"MAIN", "ABOR"} : Start(o, c, a, d)
<1>1. \A c \in {"USER", "REIN", "RNFR", "SIMPLE", "EPSV", "PASV", "EPRT", "PORT", "QUIT", "TYPE"} :
          c \in Commands \ {"MAIN", "ABOR"}
  BY Names
<1>2. CASE Transfer
  <2>1. PICK o, cb : create_data_connection(o, cb)
    BY <1>2 DEF Transfer
  <2>2. \E d : \E c \in {"EPSV", "PASV", "EPRT", "PORT"} : Start(o, c, o, d)
    BY <2>1 DEF create_data_connection, TypeOK
  <2> QED
    BY <1>1, <2>2
<1>3. CASE login \/ logout \/ rename \/ Simple
  BY <1>1, <1>3 DEF login, logout, rename, Simple
<1>4. CASE disconnect(TRUE) \/ \E t \in Types : set_transfer_type(t)
  BY <1>1, <1>4 DEF disconnect, set_transfer_type
<1> QED
  BY <1>2, <1>3, <1>4

LEMMA SecuredUser ==
  ASSUME TypeOK, Secured, UserStep, upset' = {}
  PROVE  Secured'
<1>1. ASSUME NEW o \in {"connect", "connect_login"}, connect(o) \/ connect_interrupted(o)
      PROVE  Secured'
  BY <1>1, NotTls, Names DEF connect, connect_interrupted, NewConnection, Inherited, Secured,
                             WireAgrees
<1>2. CASE connect_fails \/ \E g \in BOOLEAN : disconnect(g) /\ ~g
  BY <1>2 DEF connect_fails, disconnect, Secured, TlsCalls
<1>3. ASSUME NEW o, NEW c \in Commands, NEW a, NEW d, Start(o, c, a, d) PROVE Secured'
  BY <1>3, SecuredStays, NotTls DEF Start, Write
<1>4. CASE login \/ logout \/ rename \/ Simple \/ Transfer \/ disconnect(TRUE)
           \/ \E t \in Types : set_transfer_type(t)
  BY <1>3, <1>4, StartsCommand
<1>5. CASE \/ \E mode \in Modes : set_transfer_mode(mode)
           \/ \E support \in Rfc2428Supports : set_rfc2428_support(support)
  BY <1>5, SecuredStays DEF set_transfer_mode, set_rfc2428_support
<1> QED
  BY <1>1, <1>2, <1>4, <1>5 DEF UserStep

LEMMA SecuredClient ==
  ASSUME TypeOK, Secured, ClientStep \/ Misfortune
  PROVE  Secured'
<1>1. CASE Read
  BY <1>1, SecuredStays DEF Read
<1>2. CASE RecvFails
  BY <1>2, SecuredStays DEF RecvFails, Throw, Leave, OnlyDialog
<1>3. CASE \/ Recv421 \/ RecvQuit \/ RecvRein \/ HandshakeFails
           \/ ObserverThrows \/ ObserverThrows421 \/ ReinShutdown \/ CloseShutdown
  BY <1>3 DEF Recv421, RecvQuit, RecvRein, HandshakeFails, ObserverThrows, ObserverThrows421,
              ReinShutdown, CloseShutdown, Leave, Secured, TlsCalls
<1>4. ASSUME Throw \/ Return \/ Abandon
             \/ (\E c \in Commands : \E a, d, p : Proceed(c, a, d, p))
             \/ (\E c : c \notin TlsCalls /\ Await(c)),
             WireAgrees, UNCHANGED <<is_ssl, server_tls>>
      PROVE  Secured'
  BY <1>4, SecuredStays, NotTls DEF Throw, Return, Abandon, Leave, Proceed, Write, Await
<1>5. CASE \/ RecvGreeting \/ RecvUser \/ RecvPass \/ RecvPbsz \/ RecvProt
           \/ RecvSimple \/ RecvRnfr \/ RecvPassive \/ RecvActive \/ RecvMain
           \/ RecvAbor \/ RecvLast
  <2>1. UNCHANGED <<is_ssl, server_tls>>
    BY <1>5 DEF RecvGreeting, RecvUser, RecvPass, RecvPbsz, RecvProt, RecvSimple, RecvRnfr,
                RecvPassive, RecvActive, RecvMain, RecvAbor, RecvLast, OnlyDialog
  <2>2. \/ Throw \/ Return
        \/ \E c \in Commands : \E a : Proceed(c, a, data_connection, server_data)
        \/ \E c : c \notin TlsCalls /\ Await(c)
    BY <1>5, Names DEF RecvGreeting, RecvUser, RecvPass, RecvPbsz, RecvProt, RecvSimple, RecvRnfr,
                RecvPassive, RecvActive, RecvMain, RecvAbor, RecvLast, CloseData, AfterPassword,
                Ask, Opened, StartTransfer, TlsCalls
  <2>3. WireAgrees
    BY <1>5 DEF TlsCalls, RecvGreeting, RecvUser, RecvPass, RecvPbsz, RecvProt, RecvSimple, RecvRnfr,
                RecvPassive, RecvActive, RecvMain, RecvAbor, RecvLast, Secured
  <2> QED
    BY <1>4, <2>1, <2>2, <2>3
<1>6. CASE RecvType
  <2>1. WireAgrees /\ UNCHANGED <<is_ssl, server_tls>> /\ Return
    BY <1>6 DEF RecvType, Secured, TlsCalls
  <2> QED
    BY <1>4, <2>1
<1>7. CASE RecvAuth
  BY <1>7 DEF RecvAuth, Return, Leave, Await, Secured, TlsCalls
<1>8. CASE Handshake
  <2>1. "USER" \notin TlsCalls
    BY NotTls, Names
  <2>2. UNCHANGED <<is_ssl, server_tls>> /\ is_ssl /\ server_tls = "tls"
    BY <1>8 DEF Handshake, Secured, TlsCalls
  <2>3. pc' \in {"USER", "idle"}
    BY <1>8 DEF Handshake, Write, Leave
  <2> QED
    BY <2>1, <2>2, <2>3, SecuredStays DEF WireAgrees
<1>9. CASE \/ DataConnect \/ AcceptFails \/ DataHandshake \/ TransferEnds
           \/ TransferFails
  <2>1. WireAgrees /\ UNCHANGED <<is_ssl, server_tls>>
    BY <1>9 DEF DataConnect, AcceptFails, DataHandshake, TransferEnds, TransferFails,
                DataOnly, Secured, TlsCalls
  <2>2. \/ Throw \/ Abandon
        \/ \E c \in Commands : \E a, d, p : Proceed(c, a, d, p)
        \/ \E c : c \notin TlsCalls /\ Await(c)
    BY <1>9, Names DEF DataConnect, AcceptFails, DataHandshake, TransferEnds, TransferFails,
                StartTransfer, TlsCalls
  <2> QED
    BY <1>4, <2>1, <2>2
<1>10. CASE Accept \/ AfterTransfer \/ Cancel \/ DataShutdown \/ AbortShutdown
  BY <1>10, SecuredStays DEF Accept, AfterTransfer, AwaitResult, Cancel, DataShutdown, AbortShutdown,
                             Opened, StartTransfer, DataOnly, Write, Abandon, Leave, Secured, TlsCalls
<1> QED
  BY <1>1, <1>2, <1>3, <1>5, <1>6, <1>7, <1>8, <1>9, <1>10 DEF ClientStep, Misfortune

\* The server writes nothing of the client's.
LEMMA ServerFrames ==
  ASSUME ServerStep \/ ServerFault
  PROVE  ServerFrame
<1>1. CASE \/ Refuse \/ Greet \/ GrantAuth \/ GrantLogin \/ GrantProtection \/ GrantType
           \/ GrantSimple \/ GrantRein \/ GrantPassive \/ GrantTransfer \/ GrantAbor
  <2>1. \E cmds : Hears(cmds)
    BY <1>1 DEF Refuse, Greet, GrantAuth, GrantLogin, GrantProtection, GrantType,
                GrantSimple, GrantRein, GrantPassive, GrantTransfer, GrantAbor
  <2> QED
    BY <2>1 DEF Hears
<1>2. CASE \/ Retire \/ IdleTimeout \/ Crash \/ ServerConnects \/ TransferDone
           \/ TransferAborted
  BY <1>2 DEF Retire, IdleTimeout, Crash, ServerConnects, TransferDone, TransferAborted, Result
<1>3. CASE StartTls \/ EndTls
  BY <1>3 DEF StartTls, EndTls
<1> QED
  BY <1>1, <1>2, <1>3 DEF ServerStep, ServerFault

LEMMA SecuredServer ==
  ASSUME Secured, ServerStep \/ ServerFault
  PROVE  Secured'
<1>1. UNCHANGED <<pc, is_ssl>>
  BY ServerFrames DEF ServerFrame
<1>2. CASE GrantAuth
  BY <1>1, <1>2 DEF GrantAuth, Secured, WireAgrees
<1>3. CASE Refuse \/ Greet \/ GrantLogin \/ GrantProtection \/ GrantType \/ GrantSimple \/ GrantRein
  <2>1. server_tls' = server_tls
    BY <1>3 DEF Refuse, Greet, GrantLogin, GrantProtection, GrantType, GrantSimple, GrantRein
  <2> QED
    BY <1>1, <2>1, SecuredStays
<1>4. CASE GrantPassive \/ GrantTransfer \/ GrantAbor \/ ServerConnects \/ TransferDone \/ TransferAborted
  <2>1. server_tls' = server_tls
    BY <1>4 DEF GrantPassive, GrantTransfer, GrantAbor, ServerConnects, TransferDone, TransferAborted, Result
  <2> QED
    BY <1>1, <2>1, SecuredStays
<1>5. CASE Retire \/ IdleTimeout \/ Crash
  BY <1>1, <1>5, SecuredStays DEF Retire, IdleTimeout, Crash
<1>6. CASE StartTls \/ EndTls
  BY <1>1, <1>6 DEF StartTls, EndTls, Secured, TlsCalls, WireAgrees
<1> QED
  BY <1>2, <1>3, <1>4, <1>5, <1>6 DEF ServerStep, ServerFault

--------------------------------------------------------------------------------
(* The situations a step leads to.                                         *)

LEMMA CallNames ==
  /\ \A c \in Commands : c \notin Pauses /\ c \notin {"final", "aborted"}
  /\ \A c \in Commands : c \notin DataCalls
  /\ \A c \in DataCalls : c \notin Pauses /\ c # "aborted"
  /\ \A c \in DataCalls : c \notin Commands
  /\ \A c \in Pauses : c \notin Commands /\ c \notin DataCalls
  /\ \A c \in Pauses : c \notin {"MAIN", "ABOR", "aborted"}
  /\ "aborted" \notin Commands /\ "aborted" \notin DataCalls /\ "aborted" \notin Pauses
  BY DEF Commands, DataCalls, Pauses

LEMMA ToQuiet ==
  ASSUME pc' \in Pauses, Quiet', Secured'
  PROVE  InStep'
  BY CallNames DEF InStep, BetweenCommands, OneReply, TransferAsked, TransferRuns, AbortAsked

LEMMA ToAsked ==
  ASSUME pc' \in Commands \ {"ABOR"}, transfer' = "none", Asked(pc)' \/ Lost', Secured'
  PROVE  InStep'
  BY CallNames DEF InStep, BetweenCommands, OneReply, TransferAsked, TransferRuns, AbortAsked

LEMMA ToAnswered ==
  ASSUME pc' \in Commands \ {"MAIN", "ABOR"}, transfer' = "none", Answered(pc)', Secured'
  PROVE  InStep'
  BY CallNames DEF InStep, BetweenCommands, OneReply, TransferAsked, TransferRuns, AbortAsked

LEMMA ToData ==
  ASSUME pc' \in DataCalls, Secured',
         \/ transfer' # "none" /\ commands' = <<>> /\ inbound' = <<>>
         \/ transfer' = "none" /\ (Answered("MAIN")' \/ Lost')
  PROVE  InStep'
<1>1. pc' \notin Pauses /\ pc' # "aborted" /\ pc' \notin Commands
  BY CallNames
<1>2. "MAIN" \in Commands /\ "ABOR" \in Commands
  BY Names
<1> QED
  BY <1>1, <1>2 DEF InStep, BetweenCommands, OneReply, TransferAsked, TransferRuns, AbortAsked

LEMMA ToMain ==
  ASSUME pc' = "MAIN", TransferAsked', Secured'
  PROVE  InStep'
<1>1. "MAIN" \in Commands
  BY Names
<1> QED
  BY <1>1, CallNames DEF InStep, BetweenCommands, OneReply, TransferRuns, AbortAsked

LEMMA ToAbort ==
  ASSUME pc' \in {"ABOR", "aborted"}, AbortAsked', Secured'
  PROVE  InStep'
<1>1. "ABOR" \in Commands
  BY Names
<1> QED
  BY <1>1, CallNames DEF InStep, BetweenCommands, OneReply, TransferAsked, TransferRuns

\* Nothing is outstanding, and a command is sent.
LEMMA Sends ==
  ASSUME TypeOK', Gone, NEW c \in Commands \ {"ABOR"}, NEW a, Write(c, a),
         commands = <<>>, transfer' = "none", InFlight(0)', UNCHANGED up, Secured'
  PROVE  InStep'
<1>1. pc' = c
  BY DEF Write
<1>2. CASE up
  <2>1. commands' = <<[cmd |-> c, arg |-> a]>>
    BY <1>2 DEF Write
  <2>2. inbound' = <<>>
    BY <1>2 DEF InFlight, TypeOK
  <2>3. Asked(pc)'
    BY <1>1, <2>1, <2>2 DEF Asked
  <2> QED
    BY <1>1, <2>3, ToAsked
<1>3. CASE ~up
  <2>1. Lost'
    BY <1>3 DEF Write, Lost
  <2> QED
    BY <1>1, <2>1, ToAsked
<1> QED
  BY <1>2, <1>3

\* Nothing is outstanding, and the operation ends, or goes on.
LEMMA GoesOnQuiet ==
  ASSUME TypeOK', Gone, commands = <<>>, transfer' = "none", InFlight(0)', UNCHANGED up, Secured',
         \/ Throw \/ Return
         \/ \E c \in Commands \ {"ABOR"} : \E a, d, p : Proceed(c, a, d, p)
         \/ \E c \in Pauses : Await(c)
  PROVE  InStep'
<1>1. CASE Throw \/ Return \/ \E c \in Pauses : Await(c)
  <2>1. commands' = <<>> /\ pc' \in Pauses
    BY <1>1 DEF Throw, Return, Leave, Await, Pauses
  <2> QED
    BY <2>1, ToQuiet DEF Quiet
<1>2. ASSUME NEW c \in Commands \ {"ABOR"}, NEW a, NEW d, NEW p, Proceed(c, a, d, p)
      PROVE  InStep'
  BY <1>1, <1>2, Sends DEF Proceed
<1> QED
  BY <1>1, <1>2

\* The reply to a command with one reply has been received.
LEMMA Received ==
  ASSUME TypeOK, InStep, Receive, UNCHANGED up, pc \in Commands \ {"MAIN", "ABOR"}
  PROVE  /\ commands = <<>> /\ transfer = "none" /\ InFlight(0)'
         /\ Head(inbound).to = pc
<1>1. buffered > 0 /\ inbound' = Tail(inbound) /\ Head(inbound).code # 421
  BY DEF Receive, code
<1>2. inbound # <<>>
  BY <1>1, CodeType
<1>3. transfer = "none" /\ (Asked(pc) \/ Answered(pc) \/ Lost)
  BY DEF InStep, OneReply
<1>4. ~Asked(pc)
  BY <1>2 DEF Asked
<1>5. ~Lost
  BY <1>1, InFlightNone DEF Lost
<1>6. commands = <<>> /\ InFlight(1) /\ inbound[1].to = pc
  BY <1>3, <1>4, <1>5 DEF Answered
<1>7. InFlight(1 - 1)' /\ Head(inbound) = inbound[1]
  BY <1>1, <1>6, InFlightReceive
<1> QED
  BY <1>3, <1>6, <1>7

--------------------------------------------------------------------------------
(* The client's steps.                                                     *)

LEMMA StepReply ==
  ASSUME TypeOK, TypeOK', Gone, InStep, Secured',
         \/ RecvGreeting \/ RecvAuth \/ RecvUser \/ RecvPass \/ RecvPbsz \/ RecvProt \/ RecvType
         \/ RecvSimple \/ RecvRnfr \/ RecvPassive \/ RecvActive
  PROVE  InStep'
<1>1. /\ Receive /\ UNCHANGED <<up, transfer>>
      /\ pc \in {"GREET", "AUTH", "USER", "PASS", "PBSZ", "PROT", "TYPE", "SIMPLE", "RNTO",
                 "RNFR", "EPSV", "PASV", "EPRT", "PORT"}
  BY DEF RecvGreeting, RecvAuth, RecvUser, RecvPass, RecvPbsz, RecvProt, RecvType, RecvSimple,
         RecvRnfr, RecvPassive, RecvActive, OnlyDialog
<1>2. pc \in Commands \ {"MAIN", "ABOR"}
  BY <1>1, Names
<1>3. commands = <<>> /\ transfer' = "none" /\ InFlight(0)'
  BY <1>1, <1>2, Received
<1>4. \/ Throw \/ Return
      \/ \E c \in {"AUTH", "USER", "PASS", "PBSZ", "PROT", "RNTO", "MAIN"} :
             Proceed(c, op, data_connection, server_data)
      \/ Proceed("TYPE", transfer_type_, data_connection, server_data)
      \/ \E c \in {"handshake", "data_connect"} : Await(c)
  BY DEF RecvGreeting, RecvAuth, RecvUser, RecvPass, RecvPbsz, RecvProt, RecvType, RecvSimple,
         RecvRnfr, RecvPassive, RecvActive, AfterPassword, Ask
<1>5. \A c \in {"AUTH", "USER", "PASS", "PBSZ", "PROT", "RNTO", "MAIN", "TYPE"} :
          c \in Commands \ {"ABOR"}
  BY Names
<1>6. \/ Throw \/ Return
      \/ \E c \in Commands \ {"ABOR"} : \E a, d, p : Proceed(c, a, d, p)
      \/ \E c \in Pauses : Await(c)
  BY <1>4, <1>5 DEF Pauses
<1> QED
  BY <1>1, <1>3, <1>6, GoesOnQuiet

LEMMA StepRein ==
  ASSUME TypeOK, InStep, Secured', RecvRein
  PROVE  InStep'
<1>1. "REIN" \in Commands \ {"MAIN", "ABOR"}
  BY Names
<1>2. pc = "REIN" /\ pc' \in Pauses /\ Receive /\ UNCHANGED <<commands, up, transfer>>
  BY DEF RecvRein, Leave, Pauses
<1>3. commands = <<>> /\ transfer = "none" /\ InFlight(0)'
  BY <1>1, <1>2, Received
<1> QED
  BY <1>2, <1>3, ToQuiet DEF Quiet

\* The last reply of a connection: to QUIT, or a 421 to any command or to none.
LEMMA StepEnd ==
  ASSUME TypeOK, InStep, Secured', Recv421 \/ RecvQuit \/ ObserverThrows421
  PROVE  InStep'
<1>1. /\ buffered > 0 /\ pc \in Awaiting /\ (pc = "QUIT" \/ Head(inbound).code = 421)
      /\ pc' \in Pauses
      /\ \/ ServerGone /\ inbound' \in {Tail(inbound), Tail(buffer_)}
         \/ UNCHANGED <<commands, up, transfer>> /\ inbound' = Tail(inbound)
  BY Names DEF Recv421, RecvQuit, ObserverThrows421, Leave, code, Pauses
<1>2. inbound \in Seq(Reply) /\ inbound # <<>> /\ Len(inbound) \in Nat /\ Head(inbound) = inbound[1]
      /\ buffered \in 1 .. Len(inbound)
  BY <1>1, CodeType DEF TypeOK
<1>3. (InFlight(0) \/ InFlight(1)) /\ commands = <<>> /\ transfer = "none"
  <2>1. CASE pc \in Commands \ {"MAIN", "ABOR"}
    BY <1>2, <2>1 DEF InStep, OneReply, Asked, Answered, Lost
  <2>2. CASE pc = "MAIN"
    <3>1. Head(inbound).code = 421
      BY <1>1, <2>2
    <3>2. ~Begun(1) /\ ~Begun(2)
      BY <1>2, <3>1 DEF Begun, IsNegative, Unspecified
    <3> QED
      BY <1>2, <2>2, <3>2 DEF InStep, TransferAsked, Asked, Answered, Lost
  <2>3. CASE pc = "ABOR"
    <3>1. Head(inbound).code = 421
      BY <1>1, <2>3
    <3>2. ~Interrupted(1) /\ ~Interrupted(2)
      BY <1>2, <3>1 DEF Interrupted
    <3> QED
      BY <1>2, <2>3, <3>2 DEF InStep, AbortAsked, Asked, Answered, Lost
  <2>4. CASE pc = "final"
    <3>1. pc \in DataCalls
      BY <2>4 DEF DataCalls
    <3> QED
      BY <1>2, <3>1 DEF InStep, TransferRuns, Answered, Lost
  <2>5. CASE pc = "aborted"
    BY <2>5 DEF InStep, AbortAsked, Answered, Lost
  <2> QED
    BY <1>1, <2>1, <2>2, <2>3, <2>4, <2>5 DEF Awaiting
<1>4. /\ Len(inbound) \in {1, 2}
      /\ Len(inbound) = 2 => inbound[2] = [code |-> 421, to |-> "nobody"] /\ ~up
  BY <1>2, <1>3 DEF InFlight
<1>5. /\ commands' = <<>> /\ transfer' = "none"
      /\ Len(inbound) = 2 => ~up'
  BY <1>1, <1>3, <1>4 DEF ServerGone, Disappears
<1>6. InFlight(0)'
  <2>1. CASE inbound' = Tail(inbound)
    <3>1. Len(inbound') = Len(inbound) - 1 /\ (Len(inbound) = 2 => inbound'[1] = inbound[2])
      BY <1>2, <2>1
    <3>2. CASE Len(inbound) = 1
      BY <3>1, <3>2 DEF InFlight
    <3>3. CASE Len(inbound) = 2
      <4>1. Len(inbound') = 1 /\ inbound'[1] = [code |-> 421, to |-> "nobody"] /\ ~up'
        BY <1>4, <1>5, <3>1, <3>3
      <4> QED
        BY <4>1 DEF InFlight
    <3> QED
      BY <1>4, <3>2, <3>3
  <2>2. CASE inbound' = Tail(buffer_)
    <3>1. buffer_ \in Seq(Reply) /\ Len(buffer_) = buffered
          /\ \A i \in 1 .. buffered : buffer_[i] = inbound[i]
      BY <1>2, BufferType DEF buffer_
    <3>2. Len(inbound') = buffered - 1 /\ (buffered = 2 => inbound'[1] = inbound[2])
      BY <1>2, <2>2, <3>1
    <3>3. buffered = 1 \/ (buffered = 2 /\ Len(inbound) = 2)
      <4>1. buffered \in 1 .. Len(inbound)
        BY <1>2
      <4>2. Len(inbound) = 1 \/ Len(inbound) = 2
        BY <1>4
      <4>3. Len(inbound) = 1 => buffered \in 1 .. 1
        BY <4>1
      <4>4. Len(inbound) = 2 => buffered \in 1 .. 2
        BY <4>1
      <4> QED
        BY <4>2, <4>3, <4>4
    <3>4. CASE buffered = 1
      BY <3>2, <3>4 DEF InFlight
    <3>5. CASE buffered = 2 /\ Len(inbound) = 2
      <4>1. inbound'[1] = [code |-> 421, to |-> "nobody"]
        BY <1>4, <3>2, <3>5
      <4>2. Len(inbound') = 1
        BY <3>2, <3>5
      <4> QED
        BY <1>5, <3>5, <4>1, <4>2 DEF InFlight
    <3> QED
      BY <3>3, <3>4, <3>5
  <2> QED
    BY <1>1, <2>1, <2>2
<1> QED
  BY <1>1, <1>5, <1>6, ToQuiet DEF Quiet

\* A step that leaves the dialog as it is.
LEMMA InStepSame ==
  ASSUME InStep, UNCHANGED <<pc, commands, inbound, up, transfer>>, Secured'
  PROVE  InStep'
  BY DEF InStep, BetweenCommands, Quiet, OneReply, TransferAsked, TransferRuns, AbortAsked,
         Asked, Answered, Lost, Begun, Interrupted, InFlight

\* A call that ends TLS comes back, with the connection closed or not.
LEMMA StepShutdown ==
  ASSUME TypeOK, InStep, Secured', ReinShutdown \/ CloseShutdown \/ AbortShutdown
  PROVE  InStep'
<1>1. /\ pc \in Pauses /\ pc' = "idle"
      /\ \/ UNCHANGED <<inbound, commands, up, transfer>>
         \/ inbound' = buffer_ /\ ServerGone
  BY DEF ReinShutdown, CloseShutdown, AbortShutdown, Leave, Close, DataOnly, Pauses
<1>2. commands = <<>> /\ transfer = "none" /\ InFlight(0)
  BY <1>1 DEF InStep, BetweenCommands, Quiet
<1>3. CASE UNCHANGED <<inbound, commands, up, transfer>>
  BY <1>1, <1>2, <1>3, ToQuiet DEF Quiet, InFlight, Pauses
<1>4. CASE inbound' = buffer_ /\ ServerGone
  <2>1. ~up' /\ commands' = <<>> /\ transfer' = "none"
    BY <1>4 DEF ServerGone, Disappears
  <2>2. InFlight(0)'
    BY <1>2, <1>4, <2>1, InFlightLost
  <2> QED
    BY <1>1, <2>1, <2>2, ToQuiet DEF Quiet, Pauses
<1> QED
  BY <1>1, <1>3, <1>4

\* End of file: nothing more will come.
LEMMA StepRecvFails ==
  ASSUME Gone, InStep, Secured', RecvFails
  PROVE  InStep'
<1>1. WireAgrees
  BY NotTls DEF InStep, Secured, RecvFails
<1>2. ~up' /\ inbound' = <<>> /\ commands' = <<>> /\ transfer' = "none" /\ pc' = "idle"
  BY <1>1 DEF RecvFails, Throw, Leave, OnlyDialog, Gone
<1> QED
  BY <1>2, ToQuiet DEF Quiet, InFlight, Pauses

LEMMA StepHandshake ==
  ASSUME TypeOK', Gone, InStep, Secured', Handshake \/ HandshakeFails
  PROVE  InStep'
<1>1. pc = "handshake" /\ UNCHANGED inbound
  BY DEF Handshake, HandshakeFails
<1>2. commands = <<>> /\ transfer = "none" /\ InFlight(0)
  BY <1>1 DEF InStep, BetweenCommands, Quiet, Pauses
<1>3. up' = up \/ up' = FALSE
  BY DEF Handshake, HandshakeFails, ServerGone, Disappears
<1>4. InFlight(0)'
  BY <1>1, <1>2, <1>3, InFlightSame
<1>5. CASE pc' = "idle"
  <2>1. commands' = <<>> /\ transfer' = "none"
    BY <1>2, <1>5, Names DEF Handshake, HandshakeFails, Write, ServerGone, Disappears
  <2> QED
    BY <1>4, <1>5, <2>1, ToQuiet DEF Quiet, Pauses
<1>6. CASE pc' # "idle"
  <2>1. Write("USER", op) /\ transfer' = "none" /\ UNCHANGED up
    BY <1>2, <1>6 DEF Handshake, HandshakeFails, Leave
  <2>2. "USER" \in Commands \ {"ABOR"}
    BY Names
  <2> QED
    BY <1>2, <1>4, <2>1, <2>2, Sends
<1> QED
  BY <1>5, <1>6

LEMMA StepDataConnect ==
  ASSUME TypeOK', Gone, InStep, Secured', DataConnect
  PROVE  InStep'
<1>1. pc = "data_connect" /\ UNCHANGED <<inbound, up, transfer>>
  BY DEF DataConnect
<1>2. commands = <<>> /\ transfer' = "none" /\ InFlight(0)
  BY <1>1 DEF InStep, BetweenCommands, Quiet, Pauses
<1>3. InFlight(0)'
  BY <1>1, <1>2, InFlightSame
<1>4. "MAIN" \in Commands \ {"ABOR"}
  BY Names
<1>5. Throw \/ \E c \in Commands \ {"ABOR"} : \E a, d, p : Proceed(c, a, d, p)
  BY <1>4 DEF DataConnect
<1> QED
  BY <1>1, <1>2, <1>3, <1>5, GoesOnQuiet

\* The preliminary reply opens the data connection, a negative one ends it all.
LEMMA StepMain ==
  ASSUME TypeOK, TypeOK', Gone, InStep, Secured', RecvMain
  PROVE  InStep'
<1>1. /\ buffered > 0 /\ inbound' = Tail(inbound) /\ Head(inbound).code # 421
      /\ pc = "MAIN" /\ UNCHANGED <<up, transfer>>
  BY DEF RecvMain, Receive, OnlyDialog, code
<1>2. inbound \in Seq(Reply) /\ inbound # <<>> /\ Head(inbound) = inbound[1]
  BY <1>1, CodeType
<1>3. ~InFlight(0)
  BY <1>1, InFlightNone
<1>4. CASE IsNegative(code)
  <2>1. transfer = "none" /\ Answered("MAIN")
    BY <1>1, <1>2, <1>3, <1>4 DEF InStep, TransferAsked, Asked, Lost, Begun, code
  <2>2. InFlight(1 - 1)' /\ commands = <<>>
    BY <1>1, <2>1, InFlightReceive DEF Answered
  <2>3. Return \/ Throw
    BY <1>4 DEF RecvMain
  <2> QED
    BY <1>1, <2>1, <2>2, <2>3, GoesOnQuiet
<1>5. CASE ~IsNegative(code)
  <2>1. pc' \in DataCalls /\ UNCHANGED commands
    BY <1>5 DEF RecvMain, Await, Opened, StartTransfer, DataCalls
  <2>2. \/ transfer = "none" /\ Begun(1) /\ ~up
        \/ transfer = "none" /\ Begun(2) /\ inbound[2].to = "MAIN"
        \/ transfer # "none" /\ Begun(1) /\ up
    BY <1>1, <1>2, <1>3, <1>5 DEF InStep, TransferAsked, Asked, Lost, Answered, code
  <2>3. commands' = <<>>
    BY <2>1, <2>2 DEF Begun
  <2>4. CASE Begun(1)
    <3>1. InFlight(1 - 1)'
      BY <1>1, <2>4, InFlightReceive DEF Begun
    <3>2. up => inbound' = <<>>
      BY <1>1, <3>1 DEF InFlight, TypeOK
    <3>3. \/ transfer' # "none" /\ inbound' = <<>>
          \/ transfer' = "none" /\ Lost'
      BY <1>1, <1>3, <2>2, <2>3, <2>4, <3>1, <3>2 DEF Gone, Lost, Begun, InFlight
    <3> QED
      BY <2>1, <2>3, <3>3, ToData
  <2>5. CASE transfer = "none" /\ Begun(2) /\ inbound[2].to = "MAIN"
    <3>1. InFlight(2 - 1)' /\ inbound'[1] = inbound[2]
      BY <1>1, <2>5, InFlightReceive DEF Begun
    <3>2. Answered("MAIN")'
      BY <2>3, <2>5, <3>1 DEF Answered
    <3> QED
      BY <1>1, <2>1, <2>5, <3>2, ToData
  <2> QED
    BY <2>2, <2>4, <2>5
<1> QED
  BY <1>4, <1>5

\* The data connection comes up, is used and goes down.  An exception would
\* abandon the result of the transfer, and ABOR may cross it: upset.
LEMMA StepData ==
  ASSUME TypeOK', Gone, InStep, Secured', upset' = {},
         \/ Accept \/ AcceptFails \/ DataHandshake \/ TransferEnds \/ TransferFails \/ AfterTransfer
         \/ DataShutdown
  PROVE  InStep'
<1>1. /\ pc \in DataCalls \ {"final"} /\ UNCHANGED <<inbound, up, transfer>>
  BY DEF Accept, AcceptFails, DataHandshake, TransferEnds, TransferFails, AfterTransfer,
         DataShutdown, DataOnly, DataCalls
<1>2. \/ transfer # "none" /\ commands = <<>> /\ inbound = <<>>
      \/ transfer = "none" /\ (Answered("MAIN") \/ Lost)
  BY <1>1 DEF InStep, TransferRuns
<1>3. ~Abandon
  BY DEF Abandon
<1>4. CASE pc' \in DataCalls /\ UNCHANGED commands
  <2>1. \/ transfer' # "none" /\ commands' = <<>> /\ inbound' = <<>>
        \/ transfer' = "none" /\ (Answered("MAIN")' \/ Lost')
    BY <1>1, <1>2, <1>4 DEF Answered, Lost, InFlight
  <2> QED
    BY <1>4, <2>1, ToData
<1>5. CASE Accept \/ DataHandshake \/ TransferEnds \/ DataShutdown
  <2>1. pc' \in DataCalls /\ UNCHANGED commands
    BY <1>3, <1>5 DEF Accept, DataHandshake, TransferEnds, DataShutdown, AwaitResult, Await, Opened,
                      StartTransfer, DataCalls
  <2> QED
    BY <1>4, <2>1
<1>6. CASE AfterTransfer
  <2>1. CASE pc' \in {"final", "data_shutdown"} /\ UNCHANGED commands
    BY <1>4, <2>1 DEF DataCalls
  <2>2. CASE Write("ABOR", op) /\ upset' = IF transfer = "none" THEN upset \cup {"abort_race"} ELSE upset
    <3>1. transfer # "none" /\ commands = <<>> /\ inbound = <<>> /\ up
      BY <1>2, <2>2 DEF Gone
    <3>2. pc' = "ABOR" /\ commands' = <<[cmd |-> "ABOR", arg |-> op]>> /\ inbound' = <<>>
      BY <1>1, <2>2, <3>1 DEF Write
    <3>3. transfer' # "none" /\ Asked("ABOR")'
      BY <1>1, <3>1, <3>2 DEF Asked
    <3>4. AbortAsked'
      BY <3>2, <3>3 DEF AbortAsked
    <3> QED
      BY <3>2, <3>4, ToAbort
  <2> QED
    BY <1>3, <1>6, <2>1, <2>2 DEF AfterTransfer, AwaitResult
<1> QED
  BY <1>3, <1>5, <1>6 DEF AcceptFails, TransferFails

\* The answer to ABOR, after the 426 of the transfer if there is one.
LEMMA StepAbor ==
  ASSUME TypeOK, TypeOK', Gone, InStep, Secured', RecvAbor
  PROVE  InStep'
<1>1. /\ buffered > 0 /\ inbound' = Tail(inbound) /\ Head(inbound).code # 421
      /\ pc = "ABOR" /\ UNCHANGED <<up, transfer>>
  BY DEF RecvAbor, Receive, OnlyDialog, code
<1>2. inbound \in Seq(Reply) /\ inbound # <<>> /\ Head(inbound) = inbound[1]
  BY <1>1, CodeType
<1>3. ~InFlight(0)
  BY <1>1, InFlightNone
<1>4. \/ transfer = "none" /\ Answered("ABOR") /\ inbound[1].code # 426
      \/ transfer = "none" /\ Interrupted(2) /\ inbound[2].to = "ABOR"
      \/ transfer = "none" /\ Interrupted(1) /\ ~up
  BY <1>1, <1>2, <1>3 DEF InStep, AbortAsked, Asked, Lost
<1>5. transfer' = "none" /\ commands = <<>>
  BY <1>1, <1>4 DEF Answered, Interrupted
<1>6. CASE Answered("ABOR") /\ inbound[1].code # 426
  <2>1. InFlight(1 - 1)'
    BY <1>1, <1>6, InFlightReceive DEF Answered
  <2>2. Return \/ Throw \/ \E c \in Pauses : Await(c)
    BY <1>2, <1>6 DEF RecvAbor, CloseData, code, Pauses
  <2> QED
    BY <1>1, <1>5, <2>1, <2>2, GoesOnQuiet
<1>7. CASE inbound[1].code = 426
  <2>1. pc' = "aborted" /\ UNCHANGED commands
    BY <1>2, <1>7 DEF RecvAbor, Await, code
  <2>2. CASE Interrupted(2) /\ inbound[2].to = "ABOR"
    <3>1. InFlight(2 - 1)' /\ inbound'[1] = inbound[2]
      BY <1>1, <2>2, InFlightReceive DEF Interrupted
    <3>2. Answered("ABOR")'
      BY <1>5, <2>1, <2>2, <3>1 DEF Answered
    <3> QED
      BY <1>5, <2>1, <3>2, ToAbort DEF AbortAsked
  <2>3. CASE Interrupted(1) /\ ~up
    <3>1. InFlight(1 - 1)'
      BY <1>1, <2>3, InFlightReceive DEF Interrupted
    <3>2. Lost'
      BY <1>1, <1>5, <2>1, <2>3, <3>1 DEF Lost
    <3> QED
      BY <1>5, <2>1, <3>2, ToAbort DEF AbortAsked
  <2> QED
    BY <1>4, <1>7, <2>2, <2>3
<1> QED
  BY <1>4, <1>6, <1>7 DEF Interrupted

\* The last reply of a transfer, and of an ABOR after a 426.
LEMMA StepLast ==
  ASSUME TypeOK, TypeOK', Gone, InStep, Secured', RecvLast
  PROVE  InStep'
<1>1. /\ buffered > 0 /\ inbound' = Tail(inbound) /\ Head(inbound).code # 421
      /\ pc \in {"final", "aborted"} /\ UNCHANGED <<up, transfer>>
      /\ Return \/ Throw \/ \E c \in Pauses : Await(c)
  BY DEF RecvLast, CloseData, Receive, OnlyDialog, code, Pauses
<1>2. inbound # <<>> /\ ~InFlight(0)
  BY <1>1, CodeType, InFlightNone
<1>3. transfer = "none" /\ commands = <<>> /\ InFlight(1)
  <2>1. "final" \in DataCalls
    BY DEF DataCalls
  <2> QED
    BY <1>1, <1>2, <2>1 DEF InStep, TransferRuns, AbortAsked, Answered, Lost
<1>4. InFlight(1 - 1)'
  BY <1>1, <1>3, InFlightReceive
<1> QED
  BY <1>1, <1>3, <1>4, GoesOnQuiet

\* An observer that throws at a reply after which nothing is outstanding.
LEMMA StepObserver ==
  ASSUME TypeOK, TypeOK', Gone, InStep, Secured', upset' = {}, ObserverThrows
  PROVE  InStep'
<1>1. /\ Receive /\ Throw /\ ~Unheeded /\ pc \in Awaiting /\ UNCHANGED <<up, transfer>>
      /\ buffered > 0 /\ inbound' = Tail(inbound) /\ Head(inbound).code # 421
  BY DEF ObserverThrows, Throw, Receive, OnlyDialog, code
<1>2. inbound # <<>> /\ ~InFlight(0) /\ Head(inbound) = inbound[1]
  BY <1>1, CodeType, InFlightNone
<1>3. CASE pc \in Commands \ {"MAIN", "ABOR"}
  BY <1>1, <1>3, Received, GoesOnQuiet
<1>4. CASE pc \notin Commands \ {"MAIN", "ABOR"}
  <2> DEFINE Settled == transfer = "none" /\ (Answered("MAIN") \/ Answered("ABOR"))
  <2>1. ASSUME pc = "MAIN" PROVE Settled
    <3>1. IsNegative(Head(inbound).code)
      BY <1>1, <2>1 DEF Unheeded, code
    <3> QED
      BY <1>2, <2>1, <3>1 DEF InStep, TransferAsked, Asked, Lost, Begun
  <2>2. ASSUME pc = "ABOR" PROVE Settled
    <3>1. Head(inbound).code # 426
      BY <1>1, <2>2 DEF Unheeded, code
    <3> QED
      BY <1>2, <2>2, <3>1 DEF InStep, AbortAsked, Asked, Lost, Interrupted
  <2>3. ASSUME pc \in {"final", "aborted"} PROVE Settled
    <3>1. "final" \in DataCalls
      BY DEF DataCalls
    <3> QED
      BY <1>2, <2>3, <3>1 DEF InStep, TransferRuns, AbortAsked, Answered, Lost
  <2>4. transfer = "none" /\ commands = <<>> /\ InFlight(1)
    <3>1. Settled
      BY <1>1, <1>4, <2>1, <2>2, <2>3 DEF Awaiting
    <3> QED
      BY <3>1 DEF Answered
  <2>5. InFlight(1 - 1)'
    BY <1>1, <2>4, InFlightReceive
  <2> QED
    BY <1>1, <2>4, <2>5, GoesOnQuiet
<1> QED
  BY <1>3, <1>4

--------------------------------------------------------------------------------
(* The user's steps.                                                       *)

\* A new connection begins a dialog, however the last one ended.
LEMMA StepConnect ==
  ASSUME TypeOK, upset' = {}, NEW o \in {"connect", "connect_login"},
         connect(o) \/ connect_interrupted(o)
  PROVE  InStep'
<1>0. NewConnection(o) /\ pc' = "GREET" /\ buffered = 0 /\ ~is_ssl
  BY DEF connect, connect_interrupted, Inherited, TypeOK
<1>1. Secured'
  BY <1>0 DEF NewConnection, Secured, WireAgrees, TlsCalls
<1>2. inbound' = <<>> /\ transfer' = "none"
  BY <1>0 DEF NewConnection, buffer_, TypeOK
<1>3. commands' = <<[cmd |-> "GREET", arg |-> o]>>
  BY <1>0 DEF NewConnection
<1>4. Asked(pc)'
  BY <1>0, <1>2, <1>3 DEF Asked
<1>5. "GREET" \in Commands \ {"ABOR"}
  BY Names
<1> QED
  BY <1>0, <1>1, <1>2, <1>4, <1>5, ToAsked

LEMMA StepUser ==
  ASSUME TypeOK, TypeOK', Gone, InStep, Secured', UserStep, upset' = {}
  PROVE  InStep'
<1>1. ASSUME NEW o \in {"connect", "connect_login"}, connect(o) \/ connect_interrupted(o)
      PROVE  InStep'
  BY <1>1, StepConnect
<1>2. ASSUME NEW o, NEW c \in Commands \ {"MAIN", "ABOR"}, NEW a, NEW d, Start(o, c, a, d)
      PROVE  InStep'
  <2>1. /\ commands = <<>> /\ transfer = "none" /\ InFlight(0)
        /\ Write(c, a) /\ UNCHANGED <<inbound, up, transfer>>
    BY <1>2 DEF Start, InStep, BetweenCommands, Quiet, Pauses
  <2>2. InFlight(0)'
    BY <2>1, InFlightSame
  <2> QED
    BY <2>1, <2>2, Sends
<1>3. CASE login \/ logout \/ rename \/ Simple \/ Transfer \/ disconnect(TRUE)
           \/ \E t \in Types : set_transfer_type(t)
  BY <1>2, <1>3, StartsCommand
<1>4. CASE connect_fails \/ \E g \in BOOLEAN : disconnect(g) /\ ~g
  <2>1. /\ pc = "idle" /\ pc' \in Pauses
        /\ \/ UNCHANGED <<inbound, commands, up, transfer>>
           \/ inbound' = buffer_ /\ up' = FALSE /\ commands' = <<>> /\ transfer' = "none"
    BY <1>4 DEF connect_fails, disconnect, Close, ServerGone, Disappears, Pauses
  <2>2. commands = <<>> /\ transfer = "none" /\ InFlight(0)
    BY <2>1 DEF InStep, BetweenCommands, Quiet, Pauses
  <2>3. InFlight(0)'
    <3>1. CASE UNCHANGED <<inbound, up>>
      BY <2>2, <3>1 DEF InFlight
    <3>2. CASE inbound' = buffer_ /\ up' = FALSE
      BY <2>2, <3>2, InFlightLost
    <3> QED
      BY <2>1, <3>1, <3>2
  <2> QED
    BY <2>1, <2>2, <2>3, ToQuiet DEF Quiet
<1>5. CASE \/ \E mode \in Modes : set_transfer_mode(mode)
           \/ \E support \in Rfc2428Supports : set_rfc2428_support(support)
  BY <1>5, InStepSame DEF set_transfer_mode, set_rfc2428_support
<1> QED
  BY <1>1, <1>3, <1>4, <1>5 DEF UserStep

--------------------------------------------------------------------------------
(* The server's steps.                                                     *)

LEMMA AskedAlone ==
  ASSUME TypeOK, NEW c, Asked(c)
  PROVE  Question.cmd = c /\ inbound = <<>> /\ Tail(commands) = <<>>
<1>1. commands \in Seq(Command) /\ Len(commands) = 1
  BY DEF Asked, TypeOK
<1>2. Head(commands) = commands[1] /\ Tail(commands) = <<>>
  BY <1>1, OneElement
<1> QED
  BY <1>2 DEF Asked, Question

\* The command the server hears is the one the client waits on.
LEMMA Heard ==
  ASSUME TypeOK, InStep, commands # <<>>
  PROVE  /\ pc \in Commands /\ Question.cmd = pc /\ inbound = <<>> /\ Tail(commands) = <<>>
         /\ (transfer # "none") <=> (pc = "ABOR")
<1>1. CASE pc \in Commands \ {"MAIN", "ABOR"}
  <2>1. Asked(pc) /\ transfer = "none"
    BY <1>1 DEF InStep, OneReply, Answered, Lost
  <2> QED
    BY <1>1, <2>1, AskedAlone
<1>2. CASE pc = "MAIN"
  <2>1. Asked("MAIN") /\ transfer = "none"
    BY <1>2 DEF InStep, TransferAsked, Answered, Lost, Begun
  <2> QED
    BY <1>2, <2>1, Names, AskedAlone
<1>3. CASE pc = "ABOR"
  <2>1. Asked("ABOR") /\ transfer # "none"
    BY <1>3 DEF InStep, AbortAsked, Answered, Lost, Interrupted
  <2> QED
    BY <1>3, <2>1, Names, AskedAlone
<1>4. pc \notin DataCalls
  BY DEF InStep, TransferRuns, Answered, Lost
<1>5. pc \notin Pauses
  BY DEF InStep, BetweenCommands, Quiet
<1>6. pc # "aborted"
  BY DEF InStep, AbortAsked, Answered, Lost
<1> QED
  BY <1>1, <1>2, <1>3, <1>4, <1>5, <1>6 DEF TypeOK, Calls, Shutdowns, Awaiting, DataCalls, Pauses

\* One reply to the client's command, after which there is nothing to do.
LEMMA Answers ==
  ASSUME TypeOK, InStep, Secured', commands # <<>>, UNCHANGED pc,
         commands' = <<>>, transfer' = "none", NEW c \in Codes, Says(c),
         pc = "MAIN" => IsNegative(c), pc = "ABOR" => c # 426
  PROVE  InStep'
<1>1. pc \in Commands /\ Question.cmd = pc /\ inbound = <<>>
  BY Heard
<1>2. inbound' = <<[code |-> c, to |-> pc]>>
  BY <1>1 DEF Says
<1>3. Len(inbound') = 1 /\ inbound'[1].to = pc' /\ inbound'[1].code = c
  BY <1>2
<1>4. Answered(pc)'
  BY <1>3 DEF Answered, InFlight
<1>5. CASE pc \notin {"MAIN", "ABOR"}
  BY <1>1, <1>4, <1>5, ToAnswered
<1>6. CASE pc = "MAIN"
  <2>1. Answered("MAIN")' /\ IsNegative(inbound'[1].code)
    BY <1>3, <1>4, <1>6 DEF Answered
  <2> QED
    BY <1>6, <2>1, ToMain DEF TransferAsked
<1>7. CASE pc = "ABOR"
  <2>1. Answered("ABOR")' /\ inbound'[1].code # 426
    BY <1>3, <1>4, <1>7 DEF Answered
  <2>2. AbortAsked'
    BY <1>7, <2>1 DEF AbortAsked
  <2> QED
    BY <1>7, <2>2, ToAbort
<1> QED
  BY <1>5, <1>6, <1>7

\* The server answers a command with one reply: yes, no, or 421.
LEMMA StepAnswer ==
  ASSUME TypeOK, InStep, Secured', upset' = {},
         \/ Refuse \/ Retire \/ Greet \/ GrantAuth \/ GrantLogin \/ GrantProtection \/ GrantType
         \/ GrantSimple \/ GrantRein \/ GrantPassive
  PROVE  InStep'
<1>1. commands # <<>> /\ UNCHANGED pc
  BY DEF Refuse, Retire, Greet, GrantAuth, GrantLogin, GrantProtection, GrantType, GrantSimple,
         GrantRein, GrantPassive, Hears, ServerFrame
<1>2. /\ Question.cmd = pc /\ Tail(commands) = <<>>
      /\ (transfer # "none") <=> (pc = "ABOR")
  BY <1>1, Heard
<1>3. CASE Refuse
  <2>1. commands' = <<>> /\ Says(550) /\ UNCHANGED transfer
    BY <1>2, <1>3 DEF Refuse, Hears
  <2>2. transfer = "none" /\ pc # "ABOR"
    BY <1>2, <1>3 DEF Refuse
  <2>3. 550 \in Codes /\ IsNegative(550)
    BY DEF Codes, IsNegative, Unspecified
  <2> QED
    BY <1>1, <2>1, <2>2, <2>3, Answers
<1>4. CASE Retire
  <2>1. commands' = <<>> /\ transfer' = "none" /\ pc # "ABOR"
    BY <1>2, <1>4 DEF Retire, ServerGone, Disappears
  <2>2. 421 \in Codes /\ IsNegative(421) /\ 200 \in Codes
    BY DEF Codes, IsNegative, Unspecified
  <2>3. CASE Says(421)
    BY <1>1, <2>1, <2>2, <2>3, Answers
  <2>4. CASE Question.cmd = "QUIT" /\ Says(200)
    BY <1>1, <1>2, <2>1, <2>2, <2>4, Answers
  <2> QED
    BY <1>4, <2>3, <2>4 DEF Retire
<1>5. CASE \/ Greet \/ GrantAuth \/ GrantLogin \/ GrantProtection \/ GrantType
           \/ GrantSimple \/ GrantRein \/ GrantPassive
  <2>1. commands' = <<>> /\ pc \notin {"MAIN", "ABOR"}
    BY <1>2, <1>5 DEF Greet, GrantAuth, GrantLogin, GrantProtection, GrantType, GrantSimple,
                      GrantRein, GrantPassive, Hears
  <2>2. UNCHANGED transfer
    BY <1>5 DEF Greet, GrantAuth, GrantLogin, GrantProtection, GrantType, GrantSimple,
                GrantRein, GrantPassive
  <2>3. \E c \in {200, 227, 331, 332, 350} : Says(c)
    BY <1>5 DEF Greet, GrantAuth, GrantLogin, GrantProtection, GrantType, GrantSimple,
                GrantRein, GrantPassive
  <2>4. \A c \in {200, 227, 331, 332, 350} : c \in Codes
    BY CodeNames
  <2> QED
    BY <1>1, <1>2, <2>1, <2>2, <2>3, <2>4, Answers
<1> QED
  BY <1>3, <1>4, <1>5

LEMMA StepGrantTransfer ==
  ASSUME TypeOK, InStep, Secured', GrantTransfer
  PROVE  InStep'
<1>1. /\ commands # <<>> /\ Question.cmd = "MAIN" /\ up /\ UNCHANGED <<pc, up>>
      /\ commands' = Tail(commands) /\ transfer' # "none" /\ Says(150)
  BY DEF GrantTransfer, Hears, ServerFrame
<1>2. pc = "MAIN" /\ inbound = <<>> /\ commands' = <<>>
  BY <1>1, Heard
<1>3. inbound' = <<[code |-> 150, to |-> "MAIN"]>>
  BY <1>1, <1>2 DEF Says
<1>4. Begun(1)'
  BY <1>2, <1>3 DEF Begun, InFlight, IsNegative
<1> QED
  BY <1>1, <1>2, <1>4, ToMain DEF TransferAsked

LEMMA StepGrantAbor ==
  ASSUME TypeOK, InStep, Secured', GrantAbor
  PROVE  InStep'
<1>1. /\ commands # <<>> /\ Question.cmd = "ABOR" /\ UNCHANGED pc
      /\ commands' = Tail(commands) /\ transfer' = "none"
  BY DEF GrantAbor, Hears, ServerFrame
<1>2. pc = "ABOR" /\ inbound = <<>> /\ commands' = <<>> /\ "ABOR" \in Commands
  BY <1>1, Heard
<1>3. CASE Says(200)
  BY <1>1, <1>2, <1>3, CodeNames, Answers
<1>4. CASE ~Says(200)
  <2>1. inbound' = <<[code |-> 426, to |-> "MAIN"], [code |-> 200, to |-> "ABOR"]>>
    BY <1>1, <1>2, <1>4 DEF GrantAbor
  <2>2. Interrupted(2)' /\ inbound'[2].to = "ABOR"
    BY <1>2, <2>1 DEF Interrupted, InFlight
  <2> QED
    BY <1>1, <1>2, <2>2, ToAbort DEF AbortAsked
<1> QED
  BY <1>3, <1>4

\* While a transfer is in progress and no ABOR is on its way.
LEMMA Transferring ==
  ASSUME TypeOK, Gone, InStep, transfer # "none", commands = <<>>
  PROVE  /\ up
         /\ \/ pc = "MAIN" /\ Begun(1)
            \/ pc \in DataCalls /\ inbound = <<>>
<1>1. pc \notin Pauses /\ pc # "aborted"
  BY DEF InStep, BetweenCommands, Quiet, AbortAsked
<1>2. pc \notin Commands \ {"MAIN"}
  BY DEF InStep, OneReply, AbortAsked, Asked
<1>3. pc = "MAIN" \/ pc \in DataCalls
  BY <1>1, <1>2 DEF TypeOK, Calls, Shutdowns, Awaiting, DataCalls, Pauses
<1>4. pc = "MAIN" => Begun(1)
  BY DEF InStep, TransferAsked
<1>5. pc \in DataCalls => inbound = <<>>
  BY DEF InStep, TransferRuns
<1> QED
  BY <1>3, <1>4, <1>5 DEF Gone

LEMMA StepTransfer ==
  ASSUME TypeOK, Gone, InStep, Secured', upset' = {},
         ServerConnects \/ TransferDone \/ TransferAborted
  PROVE  InStep'
<1>1. transfer # "none" /\ commands = <<>> /\ UNCHANGED pc
  BY DEF ServerConnects, TransferDone, TransferAborted, Result, ServerFrame
<1>2. /\ up
      /\ \/ pc = "MAIN" /\ Begun(1)
         \/ pc \in DataCalls /\ inbound = <<>>
  BY <1>1, Transferring
<1>3. commands' = <<>>
  BY <1>1 DEF ServerConnects, TransferDone, TransferAborted
<1>4. CASE ServerConnects
  <2>1. transfer' # "none" /\ UNCHANGED <<inbound, up>>
    BY <1>4 DEF ServerConnects
  <2>2. CASE pc = "MAIN" /\ Begun(1)
    <3>1. Begun(1)'
      BY <1>3, <2>1, <2>2 DEF Begun, InFlight
    <3> QED
      BY <1>1, <1>2, <2>1, <2>2, <3>1, ToMain DEF TransferAsked
  <2>3. CASE pc \in DataCalls /\ inbound = <<>>
    BY <1>1, <1>3, <2>1, <2>3, ToData
  <2> QED
    BY <1>2, <2>2, <2>3
<1>5. CASE TransferDone \/ TransferAborted
  <2>1. PICK c \in {200, 421, 550} : inbound' = Append(inbound, [code |-> c, to |-> "MAIN"])
    BY <1>5 DEF TransferDone, TransferAborted, Result
  <2>2. transfer' = "none"
    BY <1>5 DEF TransferDone, TransferAborted, Result
  <2>3. [code |-> c, to |-> "MAIN"] \in Reply
    BY CodeNames, Names DEF Reply
  <2>4. CASE pc = "MAIN" /\ Begun(1)
    <3>1. /\ InFlight(2)' /\ inbound'[2] = [code |-> c, to |-> "MAIN"]
          /\ inbound'[1] = inbound[1]
      <4>1. InFlight(1) /\ 1 \in {0, 1}
        BY <2>4 DEF Begun
      <4> DEFINE n == 1
                 e == [code |-> c, to |-> "MAIN"]
      <4>2. n \in {0, 1} /\ n = 1 /\ InFlight(n) /\ e \in Reply /\ inbound' = Append(inbound, e)
        BY <2>1, <2>3, <4>1
      <4> HIDE DEF n, e
      <4>3. InFlight(n + 1)' /\ inbound'[n + 1] = e /\ inbound'[1] = inbound[1]
        BY <1>2, <4>2, InFlightSend
      <4>4. InFlight(1 + 1)' /\ inbound'[1 + 1] = [code |-> c, to |-> "MAIN"] /\ inbound'[1] = inbound[1]
        BY <4>3 DEF n, e
      <4> QED
        BY <4>4
    <3>2. Begun(2)' /\ inbound'[2].to = "MAIN"
      BY <1>3, <2>4, <3>1 DEF Begun
    <3> QED
      BY <1>1, <2>2, <2>4, <3>2, ToMain DEF TransferAsked
  <2>5. CASE pc \in DataCalls /\ inbound = <<>>
    <3>1. inbound' = <<[code |-> c, to |-> "MAIN"]>>
      BY <2>1, <2>5
    <3>2. Answered("MAIN")'
      BY <1>3, <3>1 DEF Answered, InFlight
    <3> QED
      BY <1>1, <2>2, <2>5, <3>2, ToData
  <2> QED
    BY <1>2, <2>4, <2>5
<1> QED
  BY <1>4, <1>5

\* A 421 that nobody asked for follows what is owed.
LEMMA InFlightRetires ==
  ASSUME TypeOK, NEW n \in {0, 1, 2}, InFlight(n), up, ~up',
         inbound' = Append(inbound, [code |-> 421, to |-> "nobody"])
  PROVE  InFlight(n)' /\ \A i \in 1 .. n : inbound'[i] = inbound[i]
<1>1. inbound \in Seq(Reply) /\ Len(inbound) = n
  BY InFlightUp, InboundType
<1>2. /\ Len(inbound') = n + 1 /\ inbound'[n + 1] = [code |-> 421, to |-> "nobody"]
      /\ \A i \in 1 .. n : inbound'[i] = inbound[i]
  BY <1>1
<1> QED
  BY <1>2 DEF InFlight

LEMMA StepRetires ==
  ASSUME TypeOK, InStep, Secured', IdleTimeout
  PROVE  InStep'
<1>1. /\ up /\ ~up' /\ commands = <<>> /\ commands' = <<>> /\ transfer = "none"
      /\ transfer' = "none" /\ UNCHANGED pc
      /\ inbound' = Append(inbound, [code |-> 421, to |-> "nobody"])
  BY DEF IdleTimeout, ServerGone, Disappears, ServerFrame
<1>2. ASSUME NEW n \in {0, 1, 2}, InFlight(n)
      PROVE  InFlight(n)' /\ \A i \in 1 .. n : inbound'[i] = inbound[i]
  BY <1>1, <1>2, InFlightRetires
<1>3. \A c : Answered(c) => Answered(c)' /\ inbound'[1] = inbound[1]
  BY <1>1, <1>2 DEF Answered
<1>4. ~Lost /\ \A c : ~Asked(c)
  BY <1>1 DEF Lost, Asked
<1>5. Quiet => Quiet'
  BY <1>1, <1>2 DEF Quiet
<1>6. Begun(2) => Begun(2)' /\ inbound'[2] = inbound[2]
  BY <1>1, <1>2 DEF Begun
<1>7. Interrupted(2) => Interrupted(2)' /\ inbound'[2] = inbound[2]
  BY <1>1, <1>2 DEF Interrupted
<1>8. BetweenCommands'
  BY <1>1, <1>5 DEF InStep, BetweenCommands
<1>9. OneReply'
  BY <1>1, <1>3, <1>4 DEF InStep, OneReply
<1>10. TransferAsked'
  <2>1. TransferAsked
    BY DEF InStep
  <2>2. CASE pc # "MAIN"
    BY <1>1, <2>2 DEF TransferAsked
  <2>3. CASE pc = "MAIN"
    <3>1. \/ Answered("MAIN") /\ IsNegative(inbound[1].code)
          \/ Begun(2) /\ inbound[2].to = "MAIN"
      BY <1>1, <1>4, <2>1, <2>3 DEF TransferAsked
    <3>2. \/ Answered("MAIN")' /\ IsNegative(inbound'[1].code)
          \/ Begun(2)' /\ inbound'[2].to = "MAIN"
      BY <1>3, <1>6, <3>1
    <3> QED
      BY <1>1, <2>3, <3>2 DEF TransferAsked
  <2> QED
    BY <2>2, <2>3
<1>11. TransferRuns'
  BY <1>1, <1>3, <1>4 DEF InStep, TransferRuns
<1>12. AbortAsked'
  <2>1. AbortAsked
    BY DEF InStep
  <2>2. CASE pc = "ABOR"
    <3>1. (Answered("ABOR") /\ inbound[1].code # 426) \/ (Interrupted(2) /\ inbound[2].to = "ABOR")
      BY <1>1, <1>4, <2>1, <2>2 DEF AbortAsked
    <3>2. (Answered("ABOR")' /\ inbound'[1].code # 426) \/ (Interrupted(2)' /\ inbound'[2].to = "ABOR")
      BY <1>3, <1>7, <3>1
    <3> QED
      BY <1>1, <2>2, <3>2 DEF AbortAsked
  <2>3. CASE pc = "aborted"
    <3>1. Answered("ABOR")'
      BY <1>3, <1>4, <2>1, <2>3 DEF AbortAsked
    <3> QED
      BY <1>1, <2>3, <3>1 DEF AbortAsked
  <2>4. CASE pc \notin {"ABOR", "aborted"}
    BY <1>1, <2>4 DEF AbortAsked
  <2> QED
    BY <2>2, <2>3, <2>4
<1> QED
  BY <1>8, <1>9, <1>10, <1>11, <1>12 DEF InStep

\* A crash leaves a prefix of the replies; the client's call stays as it is.
LEMMA StepCrash ==
  ASSUME TypeOK, InStep, Secured', Crash
  PROVE  InStep'
<1>1. /\ up /\ ~up' /\ commands' = <<>> /\ transfer' = "none" /\ UNCHANGED pc
      /\ inbound' \in {inbound, buffer_}
  BY DEF Crash, ServerGone, Disappears, ServerFrame
<1>2. ASSUME NEW n \in {0, 1, 2}, InFlight(n)
      PROVE  \/ InFlight(n)' /\ \A i \in 1 .. n : inbound'[i] = inbound[i]
             \/ n > 0 /\ InFlight(0)'
             \/ n > 1 /\ InFlight(1)' /\ inbound'[1] = inbound[1]
  <2>1. CASE inbound' = inbound
    BY <1>1, <1>2, <2>1 DEF InFlight
  <2>2. CASE inbound' = buffer_
    BY <1>1, <1>2, <2>2, InFlightLost
  <2> QED
    BY <1>1, <2>1, <2>2
<1>3. inbound = <<>> => Lost'
  <2>1. SUFFICES ASSUME inbound = <<>> PROVE Lost'
    OBVIOUS
  <2>2. InFlight(0)
    BY <2>1 DEF InFlight
  <2>3. InFlight(0)'
    BY <1>2, <2>2
  <2> QED
    BY <1>1, <2>3 DEF Lost
<1>4. ASSUME NEW c, Answered(c)
      PROVE  (Answered(c)' /\ inbound'[1] = inbound[1]) \/ Lost'
  <2>1. (InFlight(1)' /\ inbound'[1] = inbound[1]) \/ InFlight(0)'
    BY <1>2, <1>4 DEF Answered
  <2> QED
    BY <1>1, <1>4, <2>1 DEF Answered, Lost
<1>5. ASSUME Begun(1)
      PROVE  Begun(1)' \/ Lost'
  <2>1. (InFlight(1)' /\ inbound'[1] = inbound[1]) \/ InFlight(0)'
    BY <1>2, <1>5 DEF Begun
  <2> QED
    BY <1>1, <1>5, <2>1 DEF Begun, Lost
<1>6. ASSUME Begun(2)
      PROVE  (Begun(2)' /\ inbound'[2] = inbound[2]) \/ Begun(1)' \/ Lost'
  <2>1. \/ InFlight(2)' /\ inbound'[1] = inbound[1] /\ inbound'[2] = inbound[2]
        \/ InFlight(1)' /\ inbound'[1] = inbound[1]
        \/ InFlight(0)'
    BY <1>2, <1>6 DEF Begun
  <2> QED
    BY <1>1, <1>6, <2>1 DEF Begun, Lost
<1>7. ASSUME Interrupted(2)
      PROVE  (Interrupted(2)' /\ inbound'[2] = inbound[2]) \/ Interrupted(1)' \/ Lost'
  <2>1. \/ InFlight(2)' /\ inbound'[1] = inbound[1] /\ inbound'[2] = inbound[2]
        \/ InFlight(1)' /\ inbound'[1] = inbound[1]
        \/ InFlight(0)'
    BY <1>2, <1>7 DEF Interrupted
  <2> QED
    BY <1>1, <1>7, <2>1 DEF Interrupted, Lost
<1>8. ~Lost /\ \A c : Asked(c) => Lost'
  BY <1>1, <1>3 DEF Lost, Asked
<1>9. BetweenCommands'
  <2>1. Quiet => Quiet'
    BY <1>1, <1>2 DEF Quiet
  <2> QED
    BY <1>1, <2>1 DEF InStep, BetweenCommands
<1>10. OneReply'
  BY <1>1, <1>4, <1>8 DEF InStep, OneReply
<1>11. TransferAsked'
  BY <1>1, <1>4, <1>5, <1>6, <1>8 DEF InStep, TransferAsked
<1>12. TransferRuns'
  BY <1>1, <1>3, <1>4, <1>8 DEF InStep, TransferRuns
<1>13. AbortAsked'
  <2>1. (pc = "ABOR")' => \/ (transfer = "none")' /\ Answered("ABOR")' /\ (inbound[1].code # 426)'
                          \/ (transfer = "none")' /\ Interrupted(2)' /\ (inbound[2].to = "ABOR")'
                          \/ (transfer = "none")' /\ Interrupted(1)' /\ ~up'
                          \/ (transfer = "none")' /\ Lost'
    BY <1>1, <1>4, <1>7, <1>8 DEF InStep, AbortAsked
  <2>2. (pc = "aborted")' => (transfer = "none")' /\ (Answered("ABOR")' \/ Lost')
    BY <1>1, <1>4, <1>8 DEF InStep, AbortAsked
  <2> QED
    BY <2>1, <2>2 DEF AbortAsked
<1> QED
  BY <1>9, <1>10, <1>11, <1>12, <1>13 DEF InStep

--------------------------------------------------------------------------------
(* Dialog is inductive.                                                    *)

Reconnects == \E o \in {"connect", "connect_login"} : connect(o) \/ connect_interrupted(o)

\* Only a new connection makes up for what upset the dialog.
LEMMA UpsetStays ==
  ASSUME Next, ~Reconnects
  PROVE  upset \subseteq upset'
<1>1. CASE UserStep
  <2>1. CASE login \/ logout \/ rename \/ Simple \/ Transfer \/ disconnect(TRUE)
             \/ \E t \in Types : set_transfer_type(t)
    <3>1. \E o, c, a, d : Start(o, c, a, d)
      BY <2>1 DEF login, logout, rename, Simple, Transfer, create_data_connection, disconnect,
                  set_transfer_type
    <3> QED
      BY <3>1 DEF Start
  <2>2. CASE connect_fails \/ (\E g \in BOOLEAN : disconnect(g) /\ ~g)
             \/ (\E mode \in Modes : set_transfer_mode(mode))
             \/ (\E support \in Rfc2428Supports : set_rfc2428_support(support))
    BY <2>2 DEF connect_fails, disconnect, set_transfer_mode, set_rfc2428_support
  <2> QED
    BY <1>1, <2>1, <2>2 DEF UserStep, Reconnects
<1>2. ASSUME \/ Throw \/ Return \/ Abandon
             \/ \E c, a, d, p : Proceed(c, a, d, p)
             \/ \E c : Await(c)
             \/ UNCHANGED upset
      PROVE  upset \subseteq upset'
  BY <1>2 DEF Throw, Return, Abandon, Proceed, Await
<1>3. CASE \/ Read \/ RecvFails \/ Recv421 \/ RecvGreeting \/ RecvAuth \/ Handshake
           \/ HandshakeFails \/ RecvUser \/ RecvPass \/ RecvPbsz \/ RecvProt \/ RecvType
           \/ RecvSimple \/ RecvRnfr \/ RecvRein \/ RecvQuit \/ ReinShutdown \/ CloseShutdown
  BY <1>2, <1>3 DEF ReinShutdown, CloseShutdown, Read, RecvFails, Recv421, RecvGreeting, RecvAuth, Handshake, HandshakeFails,
         RecvUser, RecvPass, RecvPbsz, RecvProt, RecvType, RecvSimple, RecvRnfr, RecvRein,
         RecvQuit, AfterPassword, Ask
<1>9. CASE ObserverThrows \/ ObserverThrows421
  BY <1>9 DEF ObserverThrows, ObserverThrows421
<1>4. CASE \/ RecvPassive \/ DataConnect \/ RecvActive \/ RecvMain \/ Accept \/ AcceptFails
           \/ DataHandshake \/ TransferEnds \/ TransferFails \/ Cancel \/ RecvAbor \/ RecvLast
  BY <1>2, <1>4 DEF RecvPassive, DataConnect, RecvActive, RecvMain, Accept, AcceptFails,
         DataHandshake, TransferEnds, TransferFails, Cancel, RecvAbor, RecvLast, CloseData, Ask
<1>5. CASE AfterTransfer \/ DataShutdown \/ AbortShutdown
  BY <1>2, <1>5 DEF AfterTransfer, AwaitResult, DataShutdown, AbortShutdown
<1>6. CASE \/ Refuse \/ Retire \/ Greet \/ GrantAuth \/ GrantLogin \/ GrantProtection
           \/ GrantType \/ GrantSimple \/ GrantRein \/ GrantPassive \/ GrantTransfer
  BY <1>6 DEF Refuse, Retire, Greet, GrantAuth, GrantLogin, GrantProtection, GrantType,
         GrantSimple, GrantRein, GrantPassive, GrantTransfer
<1>7. CASE \/ ServerConnects \/ TransferDone \/ TransferAborted \/ GrantAbor \/ IdleTimeout \/ Crash
           \/ StartTls \/ EndTls
  BY <1>7 DEF ServerConnects, TransferDone, TransferAborted, Result, GrantAbor, IdleTimeout, Crash,
         StartTls, EndTls
<1> QED
  BY <1>1, <1>3, <1>4, <1>5, <1>6, <1>7, <1>9
     DEF Next, ClientStep, Misfortune, ServerStep, ServerFault

LEMMA InStepNext ==
  ASSUME TypeOK, TypeOK', Gone, InStep, Next, upset' = {}
  PROVE  InStep'
<1>1. Secured'
  BY SecuredUser, SecuredClient, SecuredServer DEF Next, InStep
<1>2. CASE UserStep
  BY <1>1, <1>2, StepUser
<1>3. CASE Read \/ Cancel
  BY <1>1, <1>3, InStepSame DEF Read, Cancel, DataOnly
<1>4. CASE \/ RecvFails \/ Recv421 \/ RecvQuit \/ RecvRein \/ Handshake \/ HandshakeFails
           \/ DataConnect \/ RecvMain \/ RecvAbor \/ RecvLast
           \/ ObserverThrows \/ ObserverThrows421
           \/ ReinShutdown \/ CloseShutdown \/ AbortShutdown
  BY <1>1, <1>4, StepShutdown, StepObserver, StepRecvFails, StepEnd, StepRein, StepHandshake, StepDataConnect, StepMain,
     StepAbor, StepLast
<1>5. CASE \/ RecvGreeting \/ RecvAuth \/ RecvUser \/ RecvPass \/ RecvPbsz \/ RecvProt \/ RecvType
           \/ RecvSimple \/ RecvRnfr \/ RecvPassive \/ RecvActive
  BY <1>1, <1>5, StepReply
<1>6. CASE \/ Accept \/ AcceptFails \/ DataHandshake \/ TransferEnds \/ TransferFails \/ AfterTransfer
           \/ DataShutdown
  BY <1>1, <1>6, StepData
<1>8. CASE StartTls \/ EndTls
  BY <1>1, <1>8, InStepSame DEF StartTls, EndTls, ServerFrame
<1>7. CASE ServerStep \/ ServerFault
  BY <1>1, <1>7, <1>8, StepAnswer, StepGrantTransfer, StepGrantAbor, StepTransfer, StepRetires, StepCrash
     DEF ServerStep, ServerFault
<1> QED
  BY <1>2, <1>3, <1>4, <1>5, <1>6, <1>7 DEF Next, ClientStep, Misfortune

LEMMA DialogNext == TypeOK /\ TypeOK' /\ Dialog /\ [Next]_vars => Dialog'
<1> SUFFICES ASSUME TypeOK, TypeOK', Dialog, [Next]_vars PROVE Dialog'
  OBVIOUS
<1>1. CASE Next
  <2>1. Gone'
    BY <1>1, GoneNext DEF Dialog
  <2>2. ASSUME upset' = {} PROVE InStep'
    <3>1. CASE Reconnects
      BY <2>2, <3>1, StepConnect DEF Reconnects
    <3>2. CASE ~Reconnects
      <4>1. upset = {}
        BY <1>1, <2>2, <3>2, UpsetStays
      <4>2. Gone /\ InStep
        BY <4>1 DEF Dialog, InStep
      <4> QED
        BY <1>1, <2>2, <4>2, InStepNext
    <3> QED
      BY <3>1, <3>2
  <2> QED
    BY <2>1, <2>2 DEF Dialog, InStep
<1>2. CASE UNCHANGED vars
  <2>1. UNCHANGED <<pc, commands, inbound, up, transfer, is_open, is_ssl, server_tls, upset>>
    BY <1>2 DEF vars
  <2>2. Gone'
    BY <2>1 DEF Dialog, Gone
  <2>3. ASSUME upset' = {} PROVE InStep'
    <3>1. InStep /\ Secured
      BY <2>1, <2>3 DEF Dialog, InStep
    <3>2. Secured'
      BY <2>1, <3>1 DEF Secured, WireAgrees
    <3> QED
      BY <2>1, <3>1, <3>2, InStepSame
  <2> QED
    BY <2>2, <2>3 DEF Dialog, InStep
<1> QED
  BY <1>1, <1>2

\* In every state that a client can reach, what is outstanding is what its
\* pending call accounts for, unless the dialog is known to be upset.
THEOREM DialogCorrect == Spec => []Dialog
<1> QED
  BY TypeCorrect, DialogInit, DialogNext, PTL DEF Spec

\* When a call of client.cpp has returned or thrown, no command is unanswered,
\* no reply unread and no transfer running, unless the dialog is upset; so for
\* any number of calls, in any order, and for every option of the client.
THEOREM QuietWhenIdleCorrect == Spec => []QuietWhenIdle
<1>1. Dialog => QuietWhenIdle
  BY DEF Dialog, BetweenCommands, Pauses, QuietWhenIdle
<1> QED
  BY <1>1, DialogCorrect, PTL

--------------------------------------------------------------------------------
(* Each reply goes to the command it answers.                              *)

\* Replies are consumed by the calls that wait for one.
LEMMA ConsumesWaits ==
  ASSUME TypeOK, Next, Consumes
  PROVE  pc \in Awaiting /\ buffered > 0
<1>1. buffered' # buffered /\ buffered \in Nat
  BY DEF Consumes, TypeOK
<1>2. ~UserStep
  <2>1. ~\E o, c, a, d : Start(o, c, a, d)
    BY <1>1 DEF Start
  <2>2. ~ \/ login \/ logout \/ rename \/ Simple \/ Transfer \/ disconnect(TRUE)
          \/ \E t \in Types : set_transfer_type(t)
    BY <2>1 DEF login, logout, rename, Simple, Transfer, create_data_connection, disconnect,
                set_transfer_type
  <2>3. ~ \/ connect_fails \/ (\E g \in BOOLEAN : disconnect(g) /\ ~g)
          \/ Reconnects
          \/ (\E mode \in Modes : set_transfer_mode(mode))
          \/ (\E support \in Rfc2428Supports : set_rfc2428_support(support))
    BY <1>1 DEF connect_fails, Reconnects, connect, connect_interrupted, NewConnection,
                disconnect, set_transfer_mode, set_rfc2428_support
  <2> QED
    BY <2>2, <2>3 DEF UserStep, Reconnects
<1>3. ~(ServerStep \/ ServerFault)
  BY <1>1, ServerFrames DEF ServerFrame
<1>4. ~ \/ RecvFails \/ Handshake \/ HandshakeFails \/ DataConnect \/ Accept \/ AcceptFails
        \/ DataHandshake \/ TransferEnds \/ TransferFails \/ Cancel \/ AfterTransfer
        \/ ReinShutdown \/ CloseShutdown \/ DataShutdown \/ AbortShutdown
  BY <1>1 DEF RecvFails, Handshake, HandshakeFails, DataConnect, Accept, AcceptFails,
        DataHandshake, TransferEnds, TransferFails, Cancel, AfterTransfer, ReinShutdown,
        CloseShutdown, DataShutdown, AbortShutdown, DataOnly
<1>5. ~Read
  BY DEF Read, Consumes, TypeOK
<1>6. CASE Recv421 \/ RecvQuit \/ ObserverThrows \/ ObserverThrows421
  BY <1>6, Names DEF Recv421, RecvQuit, ObserverThrows, ObserverThrows421, Receive
<1>7. CASE \/ RecvGreeting \/ RecvAuth \/ RecvUser \/ RecvPass \/ RecvPbsz \/ RecvProt \/ RecvType
           \/ RecvSimple \/ RecvRnfr \/ RecvRein \/ RecvPassive \/ RecvActive \/ RecvMain
           \/ RecvAbor \/ RecvLast
  <2>1. buffered > 0
    BY <1>7 DEF RecvGreeting, RecvAuth, RecvUser, RecvPass, RecvPbsz, RecvProt, RecvType,
         RecvSimple, RecvRnfr, RecvRein, RecvPassive, RecvActive, RecvMain, RecvAbor, RecvLast,
         Receive
  <2>2. pc \in {"GREET", "AUTH", "USER", "PASS", "PBSZ", "PROT", "TYPE", "SIMPLE", "RNTO", "RNFR",
                "REIN", "EPSV", "PASV", "EPRT", "PORT", "MAIN", "ABOR", "final", "aborted"}
    BY <1>7 DEF RecvGreeting, RecvAuth, RecvUser, RecvPass, RecvPbsz, RecvProt, RecvType,
         RecvSimple, RecvRnfr, RecvRein, RecvPassive, RecvActive, RecvMain, RecvAbor, RecvLast
  <2> QED
    BY <2>1, <2>2, Names DEF Awaiting
<1> QED
  BY <1>2, <1>3, <1>4, <1>5, <1>6, <1>7 DEF Next, ClientStep, Misfortune

\* The first reply in buffer_ is for the command the client waits on.
LEMMA HeadMatches ==
  ASSUME TypeOK, InStep, pc \in Awaiting, buffered > 0
  PROVE  \/ Head(inbound).to = Expected
         \/ pc = "ABOR" /\ Head(inbound) = [code |-> 426, to |-> "MAIN"]
         \/ Head(inbound) = [code |-> 421, to |-> "nobody"]
<1>1. inbound \in Seq(Reply) /\ inbound # <<>> /\ Head(inbound) = inbound[1]
  BY CodeType
<1>2. InFlight(0) => Head(inbound) = [code |-> 421, to |-> "nobody"]
  BY InFlightNone
<1>3. CASE pc \in Commands \ {"MAIN", "ABOR"}
  <2>1. Expected = pc
    BY <1>3, CallNames DEF Expected
  <2> QED
    BY <1>1, <1>2, <1>3, <2>1 DEF InStep, OneReply, Asked, Answered, Lost
<1>4. CASE pc = "MAIN"
  BY <1>1, <1>2, <1>4 DEF InStep, TransferAsked, Asked, Answered, Lost, Begun, Expected
<1>5. CASE pc = "ABOR"
  BY <1>1, <1>2, <1>5 DEF InStep, AbortAsked, Asked, Answered, Lost, Interrupted, Expected
<1>6. CASE pc = "final"
  <2>1. pc \in DataCalls
    BY <1>6 DEF DataCalls
  <2> QED
    BY <1>1, <1>2, <1>6, <2>1 DEF InStep, TransferRuns, Answered, Lost, Expected
<1>7. CASE pc = "aborted"
  BY <1>1, <1>2, <1>7 DEF InStep, AbortAsked, Answered, Lost, Expected
<1> QED
  BY <1>3, <1>4, <1>5, <1>6, <1>7 DEF Awaiting

\* recv() in client.cpp never hands a call the answer to another command,
\* while the dialog is not upset.
THEOREM RepliesMatchCorrect == Spec => RepliesMatch
<1>1. TypeOK /\ Dialog /\ [Next]_vars =>
        [Consumes /\ upset = {} =>
           \/ Head(inbound).to = Expected
           \/ pc = "ABOR" /\ Head(inbound) = [code |-> 426, to |-> "MAIN"]
           \/ Head(inbound) = [code |-> 421, to |-> "nobody"]]_vars
  <2> SUFFICES ASSUME TypeOK, Dialog, Next, Consumes, upset = {}
               PROVE  \/ Head(inbound).to = Expected
                      \/ pc = "ABOR" /\ Head(inbound) = [code |-> 426, to |-> "MAIN"]
                      \/ Head(inbound) = [code |-> 421, to |-> "nobody"]
    OBVIOUS
  <2>1. pc \in Awaiting /\ buffered > 0
    BY ConsumesWaits
  <2>2. InStep
    BY DEF Dialog, InStep
  <2> QED
    BY <2>1, <2>2, HeadMatches
<1> QED
  BY <1>1, TypeCorrect, DialogCorrect, PTL DEF Spec, RepliesMatch

--------------------------------------------------------------------------------
(* Both ends agree on TLS between operations.                              *)

LEMMA TlsUser ==
  ASSUME TlsAgreement, UserStep, pc' = "idle", is_open', upset' = {}, up', TypeOK
  PROVE  WireAgrees' \/ op' = "thrown"
<1>1. ~Reconnects
  BY DEF Reconnects, connect, connect_interrupted
<1>2. ~ \/ login \/ logout \/ rename \/ Simple \/ Transfer \/ disconnect(TRUE)
        \/ \E t \in Types : set_transfer_type(t)
  BY StartsCommand, NotTls DEF Start, Write
<1>3. ~(connect_fails \/ \E g \in BOOLEAN : disconnect(g) /\ ~g)
  BY DEF connect_fails, disconnect, Close
<1>4. CASE \/ \E mode \in Modes : set_transfer_mode(mode)
           \/ \E support \in Rfc2428Supports : set_rfc2428_support(support)
  <2>1. pc = "idle" /\ UNCHANGED <<op, is_open, up, upset, is_ssl, server_tls>>
    BY <1>4 DEF set_transfer_mode, set_rfc2428_support
  <2> QED
    BY <2>1 DEF TlsAgreement, WireAgrees
<1> QED
  BY <1>1, <1>2, <1>3, <1>4 DEF UserStep, Reconnects

LEMMA TlsClient ==
  ASSUME TypeOK, InStep, TlsAgreement, upset = {}, ClientStep \/ Misfortune, pc' = "idle", is_open', up'
  PROVE  WireAgrees' \/ op' = "thrown"
<1>1. CASE pc = "idle"
  <2>1. UNCHANGED <<op, is_open, up, is_ssl, server_tls>>
    <3>1. Cancel
      BY <1>1, NotTls DEF ClientStep, Misfortune, Read, RecvFails, Recv421, RecvGreeting, RecvAuth,
         Handshake, HandshakeFails, RecvUser, RecvPass, RecvPbsz, RecvProt, RecvType,
         RecvSimple, RecvRnfr, RecvRein, RecvQuit, RecvPassive, DataConnect, RecvActive, RecvMain,
         Accept, DataHandshake, TransferEnds, AfterTransfer, RecvAbor, RecvLast, AcceptFails,
         TransferFails, ObserverThrows, ObserverThrows421, ReinShutdown, CloseShutdown, DataShutdown,
         AbortShutdown
    <3> QED
      BY <3>1 DEF Cancel, DataOnly
  <2> QED
    BY <1>1, <2>1 DEF TlsAgreement, WireAgrees
<1>2. CASE Recv421 \/ RecvQuit \/ HandshakeFails \/ ObserverThrows421 \/ CloseShutdown
  BY <1>2 DEF Recv421, RecvQuit, HandshakeFails, ObserverThrows421, CloseShutdown, Close, Leave
<1>3. CASE Handshake
  BY <1>3 DEF Handshake, InStep, Secured, TlsCalls, WireAgrees
<1>4. CASE RecvAuth
  BY <1>4 DEF RecvAuth, Await, InStep, Secured, TlsCalls, WireAgrees
<1>5. CASE RecvRein \/ ReinShutdown
  <2>1. CASE RecvRein
    BY <2>1 DEF RecvRein, InStep, Secured, TlsCalls, WireAgrees
  <2>2. CASE ReinShutdown
    BY <2>2 DEF ReinShutdown, Leave, WireAgrees
  <2> QED
    BY <1>5, <2>1, <2>2
<1>6. CASE \/ RecvFails \/ RecvGreeting \/ RecvUser \/ RecvPass \/ RecvPbsz \/ RecvProt
           \/ RecvType \/ RecvSimple \/ RecvRnfr \/ RecvPassive \/ RecvActive \/ RecvMain
           \/ RecvAbor \/ RecvLast \/ ObserverThrows
  <2>1. UNCHANGED <<is_ssl, server_tls>>
    BY <1>6 DEF RecvFails, RecvGreeting, RecvUser, RecvPass, RecvPbsz, RecvProt, RecvType, RecvSimple,
                RecvRnfr, RecvPassive, RecvActive, RecvMain, RecvAbor, RecvLast, ObserverThrows,
                OnlyDialog
  <2>2. pc \notin TlsCalls
    BY <1>6, NotTls DEF TlsCalls, RecvFails, RecvGreeting, RecvUser, RecvPass, RecvPbsz, RecvProt, RecvType,
                RecvSimple, RecvRnfr, RecvPassive, RecvActive, RecvMain, RecvAbor, RecvLast,
                ObserverThrows
  <2> QED
    BY <1>1, <2>1, <2>2 DEF InStep, Secured, WireAgrees
<1>7. CASE \/ Read \/ DataConnect \/ Accept \/ AcceptFails \/ DataHandshake \/ TransferEnds
           \/ TransferFails \/ AfterTransfer \/ DataShutdown \/ AbortShutdown
  <2>1. UNCHANGED <<is_ssl, server_tls>>
    BY <1>7 DEF Read, DataConnect, Accept, AcceptFails, DataHandshake, TransferEnds,
                TransferFails, AfterTransfer, DataShutdown, AbortShutdown, DataOnly
  <2>2. pc \notin TlsCalls
    BY <1>7, NotTls DEF Read, TlsCalls, DataConnect, Accept, AcceptFails, DataHandshake, TransferEnds,
                TransferFails, AfterTransfer, DataShutdown, AbortShutdown
  <2> QED
    BY <1>1, <2>1, <2>2 DEF InStep, Secured, WireAgrees
<1>8. CASE Cancel
  BY <1>1, <1>8 DEF Cancel
<1> QED
  BY <1>2, <1>3, <1>4, <1>5, <1>6, <1>7, <1>8 DEF ClientStep, Misfortune

\* connect and logout switch TLS at one end before the other, and wait in
\* between; when they return, both ends of a connection that lives on speak
\* TLS or neither does.  Only after an exception they may disagree.
THEOREM TlsAgreementCorrect == Spec => []TlsAgreement
<1>1. Init => TlsAgreement
  BY DEF Init, TlsAgreement
<1>2. TypeOK /\ TypeOK' /\ Dialog /\ TlsAgreement /\ [Next]_vars => TlsAgreement'
  <2> SUFFICES ASSUME TypeOK, Dialog, TlsAgreement, [Next]_vars,
                      pc' = "idle", is_open', up', upset' = {}
               PROVE  WireAgrees' \/ op' = "thrown"
    BY DEF TlsAgreement
  <2>1. CASE UserStep
    BY <2>1, TlsUser
  <2>2. CASE ClientStep \/ Misfortune
    <3>1. ~Reconnects
      BY DEF Reconnects, connect, connect_interrupted
    <3>2. upset = {}
      BY <2>2, <3>1, UpsetStays DEF Next
    <3>3. InStep
      BY <3>2 DEF Dialog, InStep
    <3> QED
      BY <2>2, <3>2, <3>3, TlsClient
  <2>3. CASE ServerStep \/ ServerFault
    <3>1. ~Reconnects
      BY DEF Reconnects, connect, connect_interrupted
    <3>2. upset = {} /\ pc = "idle" /\ is_open
      BY <2>3, <3>1, UpsetStays, ServerFrames DEF ServerFrame, Next
    <3>3. Quiet
      BY <3>2 DEF Dialog, BetweenCommands, Pauses
    <3>4. CASE StartTls \/ EndTls
      <4>1. UNCHANGED <<op, is_ssl>>
        BY <2>3, ServerFrames DEF ServerFrame
      <4>2. ~StartTls
        BY <3>2 DEF StartTls
      <4>3. TlsAgreement /\ up /\ server_tls = "ending" /\ server_tls' = "plain"
        BY <3>4, <4>2 DEF EndTls
      <4> QED
        BY <3>2, <4>1, <4>3 DEF TlsAgreement, WireAgrees
    <3>5. Crash \/ IdleTimeout \/ StartTls \/ EndTls
      BY <2>3, <3>3 DEF Quiet, ServerStep, ServerFault, Refuse, Greet, GrantAuth, GrantLogin,
         GrantProtection, GrantType, GrantSimple, GrantRein, GrantPassive, GrantTransfer,
         GrantAbor, Hears, Retire, ServerConnects, TransferDone, TransferAborted
    <3> QED
      BY <3>4, <3>5 DEF Crash, IdleTimeout, ServerGone, Disappears
  <2>4. CASE UNCHANGED vars
    BY <2>4 DEF vars, TlsAgreement, WireAgrees
  <2> QED
    BY <2>1, <2>2, <2>3, <2>4 DEF Next
<1> QED
  BY <1>1, <1>2, TypeCorrect, DialogCorrect, PTL DEF Spec

--------------------------------------------------------------------------------
(* Both ends agree on the settings of a transfer.                          *)

\* The calls of a login, up to its TYPE.
LoginCalls == {"GREET", "AUTH", "handshake", "USER", "PASS", "PBSZ", "PROT"}

\* A login is also in its TYPE, or a 421 is ending it.
LoginPlaces == LoginCalls \cup {"TYPE", "close_shutdown"}

\* The server has done what the command in flight asked for.
Granted == inbound # <<>> /\ IsPositive(inbound[1].code)

\* The type that the TYPE of the operation asks for.
Wanted == IF op = "set_binary" THEN "binary"
          ELSE IF op = "set_ascii" THEN "ascii" ELSE transfer_type_

\* A login is not over before its last reply, and protects what it should.
LoginStages ==
    /\ op \in LoginOps => pc \in LoginPlaces /\ ~ready
    /\ pc \in LoginCalls => op \in LoginOps \cup {"connect"} /\ ~ready
    /\ pc \in {"GREET", "AUTH", "handshake"} => op # "login"
    /\ pc \in {"PBSZ", "PROT"} => ssl_context_

\* The PROT in force is what the client acts on, but for one that the client
\* has not been told of yet.
Protected ==
    /\ ~ssl_context_ => ~server_prot
    /\ pc = "PROT" /\ Granted => server_prot
    /\ pc = "TYPE" /\ op \in LoginOps => (server_prot <=> ssl_context_)
    /\ ready /\ ~(pc = "REIN" /\ Granted) => (server_prot <=> ssl_context_)

\* So is the type, and a new one arrives as it was asked for.
Typed ==
    /\ pc = "TYPE" /\ commands # <<>> => commands[1].arg = Wanted
    /\ pc = "TYPE" /\ Granted => server_type = Wanted
    /\ ready /\ ~(pc \in {"REIN", "TYPE"} /\ Granted) => server_type = transfer_type_

\* With TypeOK and Dialog, the invariant that carries SettingsAgree.
Settled == LoginStages /\ (up /\ upset = {} => Protected /\ Typed)

LEMMA SettledInit == Init => Settled
  BY DEF Init, Settled, LoginStages, LoginCalls, LoginPlaces, LoginOps

\* The stages of a login: how a step goes on with an operation, or ends it.
LEMMA StageEnds ==
  ASSUME pc' \notin LoginCalls, op' \notin LoginOps
  PROVE  LoginStages'
  BY DEF LoginStages, LoginCalls

\* A 421 over TLS, in a login or outside.
LEMMA StageShuts ==
  ASSUME LoginStages, pc' = "close_shutdown", UNCHANGED <<op, ready>>
  PROVE  LoginStages'
  BY DEF LoginStages, LoginCalls, LoginPlaces

LEMMA StageOutside ==
  ASSUME LoginStages, pc \notin LoginPlaces, op' \in {op, "none", "thrown"},
         pc' \notin LoginPlaces
  PROVE  LoginStages'
  BY DEF LoginStages, LoginOps, LoginCalls, LoginPlaces

LEMMA StageGoesOn ==
  ASSUME LoginStages, pc \in LoginCalls, UNCHANGED <<op, ready, ssl_context_>>,
         pc' \in LoginCalls \cup {"TYPE"}, pc' \in {"PBSZ", "PROT"} => ssl_context_,
         pc' \in {"GREET", "AUTH", "handshake"} => op # "login"
  PROVE  LoginStages'
  BY DEF LoginStages, LoginCalls, LoginPlaces

LEMMA StageSame ==
  ASSUME LoginStages, UNCHANGED <<pc, op, ready, ssl_context_>>
  PROVE  LoginStages'
  BY DEF LoginStages

LEMMA LeaveStage == ASSUME NEW o \in {"none", "thrown"}, Leave(o) PROVE pc' \notin LoginCalls /\ op' \notin LoginOps
  BY DEF Leave, LoginOps, LoginCalls

LEMMA StagesUser == ASSUME TypeOK, LoginStages, UserStep PROVE LoginStages'
<1>1. ASSUME NEW o \in {"connect", "connect_login"}, connect(o) \/ connect_interrupted(o)
      PROVE  LoginStages'
  BY <1>1 DEF connect, connect_interrupted, NewConnection, LoginStages, LoginCalls, LoginPlaces, LoginOps
<1>2. CASE login
  BY <1>2 DEF login, Start, Write, LoginStages, LoginCalls, LoginPlaces, LoginOps
<1>3. ASSUME NEW o \in Ops \ LoginOps, NEW c, NEW a, NEW d, c \notin LoginCalls, Start(o, c, a, d)
      PROVE  LoginStages'
  BY <1>3 DEF Start, Write, LoginStages, LoginCalls
<1>4. CASE logout \/ rename \/ Simple \/ disconnect(TRUE) \/ \E t \in Types : set_transfer_type(t)
  BY <1>3, <1>4 DEF logout, rename, Simple, disconnect, set_transfer_type, Ops, LoginOps, LoginCalls
<1>5. CASE Transfer
  <2>1. PICK o \in {"download", "upload", "list"} : \E cb : create_data_connection(o, cb)
    BY <1>5 DEF Transfer
  <2>2. o \in Ops \ LoginOps
    BY DEF Ops, LoginOps, TransferOps
  <2>3. \E c \in {"EPSV", "PASV", "EPRT", "PORT"} : \E d : Start(o, c, o, d)
    BY <2>1 DEF create_data_connection, TypeOK
  <2>4. \A c \in {"EPSV", "PASV", "EPRT", "PORT"} : c \notin LoginCalls
    BY DEF LoginCalls
  <2> QED
    BY <1>3, <2>2, <2>3, <2>4
<1>6. CASE connect_fails \/ \E g \in BOOLEAN : disconnect(g) /\ ~g
  BY <1>6, StageSame, StageEnds DEF connect_fails, disconnect, LoginCalls, LoginOps
<1>7. CASE \/ \E mode \in Modes : set_transfer_mode(mode)
           \/ \E support \in Rfc2428Supports : set_rfc2428_support(support)
  BY <1>7, StageSame DEF set_transfer_mode, set_rfc2428_support
<1> QED
  BY <1>1, <1>2, <1>4, <1>5, <1>6, <1>7 DEF UserStep

\* How the steps of one call end it.
Ends == Throw \/ Return \/ Abandon

LEMMA EndsStage == ASSUME LoginStages, Ends PROVE LoginStages'
  BY LeaveStage, StageEnds DEF Ends, Throw, Return, Abandon

LEMMA ProceedStage ==
  ASSUME LoginStages, UNCHANGED ssl_context_, NEW c, NEW a, NEW d, NEW p, Proceed(c, a, d, p),
         \/ pc \in LoginCalls /\ c \in LoginCalls \cup {"TYPE"} /\ (c \in {"PBSZ", "PROT"} => ssl_context_)
            /\ (c \in {"GREET", "AUTH", "handshake"} => op # "login")
         \/ pc \notin LoginPlaces /\ c \notin LoginPlaces
  PROVE  LoginStages'
<1>1. CASE Throw
  BY <1>1, EndsStage DEF Ends
<1>2. CASE Write(c, a) /\ UNCHANGED <<op, ready>>
  BY <1>2, StageGoesOn, StageOutside DEF Write, LoginPlaces
<1> QED
  BY <1>1, <1>2 DEF Proceed

LEMMA AwaitStage ==
  ASSUME LoginStages, UNCHANGED ssl_context_, NEW c, Await(c),
         pc \notin LoginPlaces, c \notin LoginPlaces
  PROVE  LoginStages'
  BY StageOutside DEF Await

LEMMA StagesClient == ASSUME TypeOK, LoginStages, ClientStep \/ Misfortune PROVE LoginStages'
<1>1. CASE Read
  BY <1>1, StageSame DEF Read
<1>2. CASE RecvFails
  BY <1>2, EndsStage DEF RecvFails, Ends
<1>3. CASE \/ Recv421 \/ RecvQuit \/ RecvRein \/ HandshakeFails \/ ObserverThrows \/ ObserverThrows421
           \/ ReinShutdown \/ CloseShutdown
  <2>1. CASE \E o \in {"none", "thrown"} : Leave(o)
    BY <2>1, LeaveStage, StageEnds
  <2>2. CASE pc' = "close_shutdown" /\ UNCHANGED <<op, ready>>
    BY <2>2, StageShuts
  <2>3. CASE RecvRein /\ pc' = "rein_shutdown" /\ UNCHANGED op
    <3>1. pc \notin LoginPlaces /\ pc' \notin LoginPlaces
      BY <2>3 DEF RecvRein, LoginCalls, LoginPlaces
    <3> QED
      BY <2>3, <3>1, StageOutside
  <2> QED
    BY <1>3, <2>1, <2>2, <2>3 DEF Recv421, RecvQuit, RecvRein, HandshakeFails, ObserverThrows,
       ObserverThrows421, ReinShutdown, CloseShutdown
<1>4. CASE Handshake
  <2>1. CASE pc' = "USER"
    BY <1>4, <2>1, StageGoesOn DEF Handshake, LoginCalls, Leave
  <2>2. CASE pc' # "USER"
    BY <1>4, <2>2, LeaveStage, StageEnds DEF Handshake, Write
  <2> QED
    BY <2>1, <2>2
<1>5. CASE RecvGreeting \/ RecvUser \/ RecvPass \/ RecvPbsz \/ RecvProt
  <2>1. UNCHANGED ssl_context_ /\ pc \in LoginCalls
    BY <1>5 DEF RecvGreeting, RecvUser, RecvPass, RecvPbsz, RecvProt, Receive, LoginCalls
  <2>2. \/ Return
        \/ op # "login" /\ Ask("AUTH")
        \/ \E c \in {"USER", "PASS"} : Ask(c)
        \/ \E c \in {"PBSZ", "PROT"} : ssl_context_ /\ Ask(c)
        \/ Proceed("TYPE", transfer_type_, data_connection, server_data)
    BY <1>5 DEF RecvGreeting, RecvUser, RecvPass, RecvPbsz, RecvProt, AfterPassword, LoginStages
  <2>3. \A c \in {"AUTH", "USER", "PASS", "PBSZ", "PROT"} : c \in LoginCalls
    BY DEF LoginCalls
  <2> QED
    BY <2>1, <2>2, <2>3, EndsStage, ProceedStage DEF Ends, Ask
<1>6. CASE RecvAuth
  <2>1. CASE Await("handshake")
    BY <1>6, <2>1, StageGoesOn DEF RecvAuth, Receive, Await, LoginCalls, LoginStages
  <2>2. CASE Return
    BY <2>2, EndsStage DEF Ends
  <2> QED
    BY <1>6, <2>1, <2>2 DEF RecvAuth
<1>7. CASE RecvType
  BY <1>7, EndsStage DEF RecvType, Ends
<1>8. CASE \/ RecvSimple \/ RecvRnfr \/ RecvPassive \/ RecvActive \/ RecvMain \/ RecvAbor \/ RecvLast
  <2>1. UNCHANGED ssl_context_ /\ pc \notin LoginPlaces
    BY <1>8 DEF RecvSimple, RecvRnfr, RecvPassive, RecvActive, RecvMain, RecvAbor, RecvLast, Receive, LoginCalls,
                LoginPlaces
  <2>2. \/ Ends
        \/ \E c \in {"RNTO", "MAIN"} : Ask(c)
        \/ \E c \in {"data_connect", "accept", "data_handshake", "transfer", "transferred", "aborted",
                    "abort_shutdown"} : Await(c)
    BY <1>8 DEF RecvSimple, RecvRnfr, RecvPassive, RecvActive, RecvMain, RecvAbor, RecvLast, Ends, CloseData,
                Opened, StartTransfer
  <2>3. \A c \in {"RNTO", "MAIN", "data_connect", "accept", "data_handshake", "transfer", "transferred",
                  "aborted", "abort_shutdown"} : c \notin LoginPlaces
    BY DEF LoginCalls, LoginPlaces
  <2> QED
    BY <2>1, <2>2, <2>3, EndsStage, ProceedStage, AwaitStage DEF Ask
<1>9. CASE \/ DataConnect \/ Accept \/ AcceptFails \/ DataHandshake \/ TransferEnds \/ TransferFails
           \/ AfterTransfer \/ DataShutdown \/ AbortShutdown
  <2>1. UNCHANGED ssl_context_ /\ pc \notin LoginPlaces
    BY <1>9 DEF DataConnect, Accept, AcceptFails, DataHandshake, TransferEnds, TransferFails, AfterTransfer,
                DataShutdown, AbortShutdown, DataOnly, LoginCalls, LoginPlaces
  <2>2. \/ Ends
        \/ \E o \in {"none", "thrown"} : Leave(o)
        \/ \E c \in {"data_handshake", "transfer", "transferred", "data_shutdown", "final", "ABOR"} :
               pc' = c /\ UNCHANGED op
        \/ Proceed("MAIN", op, "conn", "conn")
    BY <1>9 DEF DataConnect, Accept, AcceptFails, DataHandshake, TransferEnds, TransferFails, AfterTransfer,
                AwaitResult, DataShutdown, AbortShutdown, Ends, Opened, StartTransfer, Await, Write
  <2>3. \A c \in {"MAIN", "data_handshake", "transfer", "transferred", "data_shutdown", "final", "ABOR"} :
            c \notin LoginPlaces
    BY DEF LoginCalls, LoginPlaces
  <2> QED
    BY <2>1, <2>2, <2>3, EndsStage, LeaveStage, StageEnds, ProceedStage, StageOutside
<1>10. CASE Cancel
  BY <1>10, StageSame DEF Cancel, DataOnly
<1> QED
  BY <1>1, <1>2, <1>3, <1>4, <1>5, <1>6, <1>7, <1>8, <1>9, <1>10 DEF ClientStep, Misfortune

LEMMA StagesNext == TypeOK /\ LoginStages /\ [Next]_vars => LoginStages'
<1> SUFFICES ASSUME TypeOK, LoginStages, [Next]_vars PROVE LoginStages'
  OBVIOUS
<1>1. CASE ServerStep \/ ServerFault
  BY <1>1, ServerFrames, StageSame DEF ServerFrame
<1>2. CASE UNCHANGED vars
  BY <1>2, StageSame DEF vars
<1> QED
  BY <1>1, <1>2, StagesUser, StagesClient DEF Next

--------------------------------------------------------------------------------
(* What a step does to the settings.                                       *)

Settings == <<ssl_context_, transfer_type_, server_prot, server_type>>

\* A step that changes no setting, and is not about to change one.
LEMMA SettingsKept ==
  ASSUME TypeOK, TypeOK', Protected, Typed, UNCHANGED Settings, pc' \notin {"PROT", "TYPE"},
         ready' => ready /\ ~(pc \in {"REIN", "TYPE"} /\ Granted)
  PROVE  Protected' /\ Typed'
<1>1. Protected'
  BY DEF Protected, Settings
<1>2. Typed'
  BY DEF Typed, Settings
<1> QED
  BY <1>1, <1>2

\* A step during which nothing is received or sent.
LEMMA SettingsSame ==
  ASSUME Protected, Typed, UNCHANGED <<pc, op, commands, inbound, ready, Settings>>
  PROVE  Protected' /\ Typed'
  BY DEF Protected, Typed, Settings, Granted, Wanted

LEMMA SettledUser ==
  ASSUME TypeOK, TypeOK', InStep, Protected, Typed, UserStep, ~Reconnects, up', upset' = {}
  PROVE  Protected' /\ Typed'
<1>1. ASSUME NEW o, NEW c, NEW a, NEW d, c # "TYPE", c # "PROT", Start(o, c, a, d)
      PROVE  Protected' /\ Typed'
  <2>1. UNCHANGED Settings /\ pc' = c /\ (ready' => ready) /\ pc = "idle"
    BY <1>1 DEF Start, Write, Settings
  <2> QED
    BY <1>1, <2>1, SettingsKept
<1>2. CASE login \/ logout \/ rename \/ Simple \/ Transfer \/ disconnect(TRUE)
  <2>1. CASE Transfer
    <3>1. PICK o, cb : create_data_connection(o, cb)
      BY <2>1 DEF Transfer
    <3>2. \E c \in {"EPSV", "PASV", "EPRT", "PORT"} : \E d : Start(o, c, o, d)
      BY <3>1 DEF create_data_connection, TypeOK
    <3> QED
      BY <1>1, <3>2
  <2>2. CASE login \/ logout \/ rename \/ Simple \/ disconnect(TRUE)
    BY <1>1, <2>2 DEF login, logout, rename, Simple, disconnect
  <2> QED
    BY <1>2, <2>1, <2>2
<1>3. ASSUME NEW t \in Types, set_transfer_type(t)
      PROVE  Protected' /\ Typed'
  <2>1. /\ pc = "idle" /\ pc' = "TYPE" /\ UNCHANGED <<Settings, inbound, up>>
        /\ op' = (IF t = "binary" THEN "set_binary" ELSE "set_ascii")
        /\ commands' = Append(commands, [cmd |-> "TYPE", arg |-> t])
    BY <1>3 DEF set_transfer_type, Start, Write, Settings
  <2>2. commands = <<>> /\ InFlight(0)
    BY <2>1 DEF InStep, BetweenCommands, Quiet, Pauses
  <2>3. inbound' = <<>>
    BY <2>1, <2>2 DEF InFlight, TypeOK
  <2>4. op' \notin LoginOps /\ (ready' <=> ready)
    BY <1>3, <2>1 DEF set_transfer_type, Start, LoginOps, TypeOK
  <2>5. commands'[1].arg = t
    BY <2>1, <2>2
  <2>6. Wanted' = t
    BY <2>1 DEF Wanted
  <2>7. Protected'
    BY <2>1, <2>3, <2>4 DEF Protected, Settings
  <2>8. Typed'
    BY <2>1, <2>3, <2>4, <2>5, <2>6 DEF Typed, Granted, Settings
  <2> QED
    BY <2>7, <2>8
<1>4. CASE connect_fails \/ \E g \in BOOLEAN : disconnect(g) /\ ~g
  <2>1. ~Close
    BY DEF Close, ServerGone, Disappears
  <2>2. UNCHANGED <<Settings, ready>> /\ pc = "idle" /\ pc' \in {"idle", "close_shutdown"}
    BY <1>4, <2>1 DEF connect_fails, disconnect, Settings
  <2> QED
    BY <2>2, SettingsKept
<1>5. CASE \/ \E mode \in Modes : set_transfer_mode(mode)
           \/ \E support \in Rfc2428Supports : set_rfc2428_support(support)
  BY <1>5, SettingsSame DEF set_transfer_mode, set_rfc2428_support, Settings
<1> QED
  BY <1>2, <1>3, <1>4, <1>5 DEF UserStep, Reconnects

\* What the client has received from a server that lives.
LEMMA ReplyRead ==
  ASSUME TypeOK, TypeOK', InStep, Receive, UNCHANGED up, up, pc \in Commands \ {"MAIN", "ABOR"}
  PROVE  /\ commands = <<>> /\ inbound' = <<>>
         /\ Granted <=> IsPositive(code)
         /\ IsPositive(code) <=> ~IsNegative(code)
<1>1. commands = <<>> /\ InFlight(0)'
  BY Received
<1>2. inbound' = <<>>
  BY <1>1 DEF InFlight, TypeOK
<1>3. buffered > 0
  BY DEF Receive
<1>4. inbound # <<>> /\ code \in Codes /\ code = inbound[1].code
  BY <1>3, CodeType DEF TypeOK, code
<1>5. Granted <=> IsPositive(code)
  BY <1>4 DEF Granted
<1>6. IsPositive(code) <=> ~IsNegative(code)
  BY <1>4 DEF Codes, IsPositive, IsNegative, Unspecified
<1> QED
  BY <1>1, <1>2, <1>5, <1>6

LEMMA PositiveLast == AppendReply(replies, code).is_positive => IsPositive(code)
  BY DEF AppendReply

\* The TYPE of a login.
LEMMA AsksType ==
  ASSUME TypeOK, TypeOK', LoginStages, Protected, Typed, pc \in LoginCalls, commands = <<>>,
         inbound' = <<>>, up, UNCHANGED Settings, server_prot <=> ssl_context_,
         Proceed("TYPE", transfer_type_, data_connection, server_data)
  PROVE  Protected' /\ Typed'
<1>1. CASE Throw
  BY <1>1, SettingsKept DEF Throw, Leave, LoginCalls
<1>2. CASE Write("TYPE", transfer_type_) /\ UNCHANGED <<op, ready>>
  <2>1. pc' = "TYPE" /\ ~ready' /\ op' \notin {"set_binary", "set_ascii"}
    BY <1>2 DEF Write, LoginStages, LoginOps
  <2>2. commands' = <<[cmd |-> "TYPE", arg |-> transfer_type_]>>
    BY <1>2 DEF Write
  <2>3. Wanted' = transfer_type_ /\ ~Granted'
    BY <2>1 DEF Wanted, Settings, Granted
  <2>4. Protected'
    BY <2>1, <2>3 DEF Protected, Settings
  <2>5. Typed'
    BY <2>1, <2>2, <2>3 DEF Typed
  <2> QED
    BY <2>4, <2>5
<1> QED
  BY <1>1, <1>2 DEF Proceed

\* A reply, after which no setting is in doubt.
LEMMA RepliesKeep ==
  ASSUME TypeOK, TypeOK', LoginStages, Protected, Typed, UNCHANGED Settings,
         Receive, NEW c, c \notin {"PROT", "TYPE"}, pc \notin {"REIN", "TYPE"},
         \/ Throw \/ (Return /\ (op \in LoginOps => IsNegative(code))) \/ Ask(c) \/ Await(c)
  PROVE  Protected' /\ Typed'
<1>1. ASSUME Return, op \in LoginOps => IsNegative(code)
      PROVE  ready' => ready
  <2>1. IsNegative(code) => ~IsPositive(code)
    BY CodeType DEF Receive, Codes, IsNegative, IsPositive
  <2>2. CASE op \in LoginOps
    <3>1. ready' <=> AppendReply(replies, code).is_positive
      BY <1>1, <2>2 DEF Return
    <3> QED
      BY <1>1, <2>1, <2>2, <3>1, PositiveLast
  <2>3. CASE op \notin LoginOps
    BY <1>1, <2>3 DEF Return
  <2> QED
    BY <2>2, <2>3
<1>2. ready' => ready
  BY <1>1 DEF Throw, Ask, Proceed, Await
<1>3. pc' = "idle" \/ pc' = c
  BY DEF Throw, Return, Leave, Ask, Proceed, Await, Write
<1> QED
  BY <1>2, <1>3, SettingsKept

LEMMA SettledLogin ==
  ASSUME TypeOK, TypeOK', InStep, LoginStages, Protected, Typed, up',
         RecvGreeting \/ RecvAuth \/ RecvUser \/ RecvPass \/ RecvPbsz \/ RecvProt
  PROVE  Protected' /\ Typed'
<1>1. /\ Receive /\ UNCHANGED <<up, Settings>> /\ pc \in LoginCalls
      /\ pc \in {"GREET", "AUTH", "USER", "PASS", "PBSZ", "PROT"}
  BY DEF RecvGreeting, RecvAuth, RecvUser, RecvPass, RecvPbsz, RecvProt, OnlyDialog, LoginCalls,
         Receive, Settings
<1>2. pc \in Commands \ {"MAIN", "ABOR"}
  BY <1>1, Names
<1>3. /\ commands = <<>> /\ inbound' = <<>>
      /\ Granted <=> IsPositive(code)
      /\ IsPositive(code) <=> ~IsNegative(code)
  BY <1>1, <1>2, ReplyRead
<1>4. CASE RecvGreeting \/ RecvAuth
  <2>1. \/ Return /\ (op \in LoginOps => IsNegative(code))
        \/ Ask("AUTH") \/ Ask("USER") \/ Await("handshake")
    BY <1>4 DEF RecvGreeting, RecvAuth, LoginStages, LoginOps
  <2> QED
    BY <1>1, <2>1, RepliesKeep
<1>5. CASE RecvUser \/ RecvPass \/ RecvPbsz \/ RecvProt
  <2>1. \/ Return /\ IsNegative(code)
        \/ Ask("PASS") \/ Ask("PBSZ")
        \/ Ask("PROT") /\ pc = "PBSZ"
        \/ /\ Proceed("TYPE", transfer_type_, data_connection, server_data)
           /\ ~ssl_context_ \/ (pc = "PROT" /\ ~IsNegative(code))
    BY <1>5 DEF RecvUser, RecvPass, RecvPbsz, RecvProt, AfterPassword
  <2>2. CASE Ask("PROT")
    <3>1. pc' \in {"PROT", "idle"} /\ ~ready' /\ (server_prot' <=> server_prot)
      BY <1>1, <2>2 DEF Ask, Proceed, Write, Throw, Leave, LoginStages, Settings
    <3>2. ~Granted'
      BY <1>3 DEF Granted
    <3>3. Protected'
      BY <1>1, <3>1, <3>2 DEF Protected, Settings
    <3>4. Typed'
      BY <3>1, <3>2 DEF Typed
    <3> QED
      BY <3>3, <3>4
  <2>3. CASE Proceed("TYPE", transfer_type_, data_connection, server_data)
             /\ (~ssl_context_ \/ (pc = "PROT" /\ ~IsNegative(code)))
    <3>1. server_prot <=> ssl_context_
      BY <1>3, <2>3 DEF Protected, LoginStages
    <3> QED
      BY <1>1, <1>3, <2>3, <3>1, AsksType
  <2> QED
    BY <1>1, <2>1, <2>2, <2>3, RepliesKeep
<1> QED
  BY <1>4, <1>5

\* TYPE: the client records what the server has in force.
LEMMA SettledType ==
  ASSUME TypeOK, TypeOK', InStep, LoginStages, Protected, Typed, up', RecvType
  PROVE  Protected' /\ Typed'
<1>1. /\ Receive /\ pc = "TYPE" /\ Return /\ UNCHANGED <<up, ssl_context_, server_prot, server_type>>
  BY DEF RecvType, Receive
<1>2. pc \in Commands \ {"MAIN", "ABOR"}
  BY <1>1, Names
<1>3. /\ Granted <=> IsPositive(code)
  BY <1>1, <1>2, ReplyRead
<1>4. pc' = "idle"
  BY <1>1 DEF Return, Leave
<1>5. CASE IsPositive(code)
  <2>1. transfer_type_' = Wanted
    BY <1>5 DEF RecvType, Wanted
  <2>2. server_type' = transfer_type_'
    BY <1>1, <1>3, <1>5, <2>1 DEF Typed
  <2>3. ready' => (server_prot <=> ssl_context_)
    BY <1>1 DEF Return, Protected
  <2>4. Protected'
    BY <1>1, <1>4, <2>3 DEF Protected
  <2>5. Typed'
    BY <1>4, <2>2 DEF Typed
  <2> QED
    BY <2>4, <2>5
<1>6. CASE ~IsPositive(code)
  <2>1. transfer_type_' = transfer_type_
    BY <1>6 DEF RecvType
  <2>2. ready' => ready
    <3>1. CASE op \in LoginOps
      <4>1. ready' <=> AppendReply(replies, code).is_positive
        BY <1>1, <3>1 DEF Return
      <4> QED
        BY <1>6, <4>1, PositiveLast
    <3>2. CASE op \notin LoginOps
      BY <1>1, <3>2 DEF Return
    <3> QED
      BY <3>1, <3>2
  <2> QED
    BY <1>1, <1>3, <1>4, <1>6, <2>1, <2>2, SettingsKept DEF Settings
<1> QED
  BY <1>5, <1>6

\* REIN: a login that the server has ended is over.
LEMMA SettledRein ==
  ASSUME TypeOK, TypeOK', InStep, Protected, Typed, up', RecvRein
  PROVE  Protected' /\ Typed'
<1>1. /\ Receive /\ pc = "REIN" /\ pc' \in {"idle", "rein_shutdown"} /\ UNCHANGED <<up, Settings>>
      /\ ready' => ready /\ ~IsPositive(code)
  BY DEF RecvRein, Leave, Receive, Settings
<1>2. pc \in Commands \ {"MAIN", "ABOR"}
  BY <1>1, Names
<1>3. /\ Granted <=> IsPositive(code)
  BY <1>1, <1>2, ReplyRead
<1> QED
  BY <1>1, <1>3, SettingsKept

LEMMA SettledObserver ==
  ASSUME TypeOK, TypeOK', InStep, Protected, Typed, up', upset' = {}, ObserverThrows
  PROVE  Protected' /\ Typed'
<1>1. Receive /\ pc' = "idle" /\ UNCHANGED <<up, Settings, ready>> /\ ~Unheeded
  BY DEF ObserverThrows, Leave, OnlyDialog, Receive, Settings
<1>2. ASSUME pc \in {"REIN", "TYPE"} PROVE ~Granted
  <2>1. pc \in Commands \ {"MAIN", "ABOR"}
    BY <1>2, Names
  <2> QED
    BY <1>1, <1>2, <2>1, ReplyRead DEF Unheeded
<1> QED
  BY <1>1, <1>2, SettingsKept

LEMMA SettledClient ==
  ASSUME TypeOK, TypeOK', InStep, LoginStages, Protected, Typed, ClientStep \/ Misfortune,
         up', upset' = {}
  PROVE  Protected' /\ Typed'
<1>1. CASE Read
  BY <1>1, SettingsSame DEF Read, Settings
<1>2. CASE Cancel
  BY <1>2, SettingsSame DEF Cancel, DataOnly, Settings
<1>3. CASE \/ Recv421 \/ RecvQuit \/ HandshakeFails \/ ObserverThrows421
           \/ ReinShutdown \/ CloseShutdown
  <2>1. ~ServerGone
    BY DEF ServerGone, Disappears
  <2>2. CASE Recv421
    <3>1. buffered > 0 /\ code = 421
      BY <2>2 DEF Recv421
    <3>2. ~Granted
      BY <3>1, CodeType DEF Granted, IsPositive, code, TypeOK
    <3> QED
      BY <2>1, <2>2, <3>2, SettingsKept DEF Recv421, Settings
  <2>3. CASE RecvQuit \/ ReinShutdown \/ HandshakeFails
    <3>1. pc \notin {"REIN", "TYPE"} /\ pc' \in {"idle", "close_shutdown"}
      BY <2>3 DEF RecvQuit, ReinShutdown, HandshakeFails, Leave
    <3>2. UNCHANGED ready
      BY <2>3 DEF RecvQuit, ReinShutdown, HandshakeFails
    <3>3. UNCHANGED Settings
      BY <2>1, <2>3 DEF RecvQuit, ReinShutdown, HandshakeFails, Settings
    <3> QED
      BY <3>1, <3>2, <3>3, SettingsKept
  <2>4. CASE CloseShutdown
    BY <2>1, <2>4, SettingsKept DEF CloseShutdown, Close, Leave, Settings
  <2> QED
    BY <1>3, <2>1, <2>2, <2>3, <2>4 DEF ObserverThrows421
<1>4. ~RecvFails
  BY NotTls DEF RecvFails, OnlyDialog, InStep, Secured
<1>5. CASE Handshake
  <2>1. /\ UNCHANGED <<Settings, ready>> /\ pc = "handshake" /\ pc' \in {"idle", "USER"}
    BY <1>5 DEF Handshake, Write, Leave, Settings
  <2> QED
    BY <2>1, SettingsKept
<1>6. CASE \/ RecvSimple \/ RecvRnfr \/ RecvPassive \/ RecvActive \/ RecvMain \/ RecvAbor \/ RecvLast
  <2>1. Receive /\ UNCHANGED Settings /\ pc \notin LoginPlaces \cup {"REIN"}
    BY <1>6 DEF RecvSimple, RecvRnfr, RecvPassive, RecvActive, RecvMain, RecvAbor, RecvLast, Receive,
                OnlyDialog, Settings, LoginCalls, LoginPlaces
  <2>2. \/ Throw \/ Return
        \/ \E c \in {"RNTO", "MAIN"} : Ask(c)
        \/ \E c \in {"data_connect", "accept", "data_handshake", "transfer", "transferred", "aborted",
                    "abort_shutdown"} : Await(c)
    <3>1. CASE RecvSimple
      BY <3>1 DEF RecvSimple
    <3>2. CASE RecvRnfr
      BY <3>2 DEF RecvRnfr
    <3>3. CASE RecvPassive
      BY <3>3 DEF RecvPassive
    <3>4. CASE RecvActive
      BY <3>4 DEF RecvActive
    <3>5. CASE RecvMain
      <4>1. Return \/ Throw \/ Await(IF data_connection = "listen" THEN "accept" ELSE Opened)
        BY <3>5 DEF RecvMain
      <4>2. (IF data_connection = "listen" THEN "accept" ELSE Opened)
              \in {"accept", "data_handshake", "transfer", "transferred"}
        BY DEF Opened, StartTransfer
      <4> QED
        BY <4>1, <4>2
    <3>6. CASE RecvAbor
      BY <3>6 DEF RecvAbor, CloseData
    <3>7. CASE RecvLast
      BY <3>7 DEF RecvLast, CloseData
    <3> QED
      BY <1>6, <3>1, <3>2, <3>3, <3>4, <3>5, <3>6, <3>7
  <2>3. op \notin LoginOps
    BY <2>1 DEF LoginStages
  <2>4. \A c \in {"RNTO", "MAIN", "data_connect", "accept", "data_handshake", "transfer", "transferred",
                  "aborted", "abort_shutdown"} : c \notin {"PROT", "TYPE"}
    OBVIOUS
  <2>5. \E c : c \notin {"PROT", "TYPE"} /\ (Throw \/ Return \/ Ask(c) \/ Await(c))
    BY <2>2, <2>4
  <2>6. pc \notin {"REIN", "TYPE"}
    BY <2>1 DEF LoginPlaces
  <2> QED
    BY <2>1, <2>3, <2>5, <2>6, RepliesKeep
<1>7. CASE \/ DataConnect \/ Accept \/ AcceptFails \/ DataHandshake \/ TransferEnds \/ TransferFails
           \/ AfterTransfer \/ DataShutdown \/ AbortShutdown
  <2>1. UNCHANGED Settings /\ pc \notin {"TYPE", "REIN"}
    BY <1>7 DEF DataConnect, Accept, AcceptFails, DataHandshake, TransferEnds, TransferFails, AfterTransfer,
                DataShutdown, AbortShutdown, DataOnly, Settings
  <2>2. \/ Throw \/ Abandon
        \/ \E c \in {"idle", "data_handshake", "transfer", "transferred", "data_shutdown", "final", "ABOR"} :
               pc' = c /\ UNCHANGED ready
        \/ Proceed("MAIN", op, "conn", "conn")
    BY <1>7 DEF DataConnect, Accept, AcceptFails, DataHandshake, TransferEnds, TransferFails, AfterTransfer,
                AwaitResult, DataShutdown, AbortShutdown, Opened, StartTransfer, Await, Leave, Write, DataOnly
  <2>3. /\ pc' \in {"idle", "MAIN", "data_handshake", "transfer", "transferred", "data_shutdown", "final",
                    "ABOR"}
        /\ ready' => ready
    BY <2>2 DEF Proceed, Write, Throw, Abandon, Leave
  <2> QED
    BY <2>1, <2>3, SettingsKept
<1> QED
  BY <1>1, <1>2, <1>3, <1>4, <1>5, <1>6, <1>7, SettledLogin, SettledType, SettledRein, SettledObserver
     DEF ClientStep, Misfortune

\* What the server does, it does for the call that the client is in.
LEMMA SettledServer ==
  ASSUME TypeOK, TypeOK', InStep, LoginStages, Protected, Typed, ServerStep \/ ServerFault,
         up', upset' = {}
  PROVE  Protected' /\ Typed'
<1>1. UNCHANGED <<pc, op, ready, transfer_type_, ssl_context_>>
  BY ServerFrames DEF ServerFrame
<1>2. ~(Retire \/ IdleTimeout \/ Crash)
  BY DEF Retire, IdleTimeout, Crash, ServerGone, Disappears
<1>3. ASSUME commands # <<>>
      PROVE  pc \in Commands /\ Question.cmd = pc /\ inbound = <<>> /\ Tail(commands) = <<>>
  BY <1>3, Heard
<1>4. ASSUME UNCHANGED <<server_prot, server_type>>, pc \notin {"PROT", "TYPE", "REIN"}
      PROVE  Protected' /\ Typed'
  BY <1>1, <1>4, SettingsKept DEF Settings
<1>5. CASE ServerConnects \/ TransferDone \/ TransferAborted
  <2>1. transfer # "none" /\ UNCHANGED <<server_prot, server_type>>
    BY <1>5 DEF ServerConnects, TransferDone, TransferAborted, Result
  <2>2. pc \notin {"PROT", "TYPE", "REIN"}
    BY <2>1, Names DEF InStep, OneReply
  <2> QED
    BY <1>4, <2>1, <2>2
<1>6. CASE Greet \/ GrantAuth \/ GrantLogin \/ GrantSimple \/ GrantPassive \/ GrantTransfer \/ GrantAbor
  <2>1. commands # <<>> /\ UNCHANGED <<server_prot, server_type>>
    BY <1>6 DEF Greet, GrantAuth, GrantLogin, GrantSimple, GrantPassive, GrantTransfer, GrantAbor, Hears
  <2>2. Question.cmd \notin {"PROT", "TYPE", "REIN"}
    BY <1>6 DEF Greet, GrantAuth, GrantLogin, GrantSimple, GrantPassive, GrantTransfer, GrantAbor, Hears
  <2> QED
    BY <1>3, <1>4, <2>1, <2>2
<1>7. ASSUME NEW c \in Codes, Says(c), commands # <<>>, commands' = Tail(commands)
      PROVE  /\ inbound = <<>> /\ commands' = <<>>
             /\ Granted' <=> IsPositive(c)
  <2>1. inbound' = <<[code |-> c, to |-> Question.cmd]>>
    BY <1>3, <1>7 DEF Says
  <2>2. inbound' # <<>> /\ inbound'[1].code = c
    BY <2>1
  <2> QED
    BY <1>3, <1>7, <2>2 DEF Granted
<1>8. IsPositive(200) /\ ~IsPositive(550) /\ 200 \in Codes /\ 550 \in Codes
  BY DEF IsPositive, Codes, Unspecified
<1>9. CASE Refuse
  <2>1. UNCHANGED Settings /\ commands # <<>> /\ commands' = Tail(commands) /\ Says(550)
    BY <1>1, <1>9 DEF Refuse, Hears, Settings
  <2>2. inbound = <<>> /\ commands' = <<>> /\ ~Granted'
    BY <1>7, <1>8, <2>1
  <2>3. ~Granted
    BY <2>2 DEF Granted
  <2>4. Protected'
    BY <1>1, <2>1, <2>2, <2>3 DEF Protected, Settings
  <2>5. Typed'
    BY <1>1, <2>1, <2>2, <2>3 DEF Typed, Settings
  <2> QED
    BY <2>4, <2>5
<1>10. CASE GrantProtection
  <2>1. /\ commands # <<>> /\ commands' = Tail(commands) /\ UNCHANGED server_type
        /\ Question.cmd \in {"PBSZ", "PROT"}
        /\ server_prot' <=> (server_prot \/ Question.cmd = "PROT")
    BY <1>10 DEF GrantProtection, Hears, TypeOK
  <2>2. pc \in {"PBSZ", "PROT"} /\ Question.cmd = pc
    BY <1>3, <2>1
  <2>3. ssl_context_ /\ ~ready'
    BY <1>1, <2>2 DEF LoginStages, LoginCalls
  <2>4. Protected'
    BY <1>1, <2>1, <2>2, <2>3 DEF Protected
  <2>5. Typed'
    BY <1>1, <2>2, <2>3 DEF Typed
  <2> QED
    BY <2>4, <2>5
<1>11. CASE GrantType
  <2>1. /\ commands # <<>> /\ commands' = Tail(commands) /\ UNCHANGED server_prot
        /\ Question.cmd = "TYPE" /\ Says(200) /\ server_type' = Question.arg
    BY <1>11 DEF GrantType, Hears
  <2>2. pc = "TYPE" /\ inbound = <<>> /\ commands' = <<>> /\ Granted'
    BY <1>3, <1>7, <1>8, <2>1
  <2>3. Question = commands[1]
    BY <2>1 DEF Question, TypeOK
  <2>4. server_type' = Wanted'
    BY <1>1, <2>1, <2>2, <2>3 DEF Typed, Wanted
  <2>5. ~Granted
    BY <2>2 DEF Granted
  <2>6. Protected'
    BY <1>1, <2>1, <2>2, <2>5 DEF Protected
  <2>7. Typed'
    BY <1>1, <2>2, <2>4 DEF Typed
  <2> QED
    BY <2>6, <2>7
<1>12. CASE GrantRein
  <2>1. /\ commands # <<>> /\ commands' = Tail(commands)
        /\ Question.cmd = "REIN" /\ Says(200) /\ ~server_prot'
    <3>1. ~SaysTwice(120, 200) \/ "delayed" \notin upset'
      OBVIOUS
    <3> QED
      BY <1>12 DEF GrantRein, Hears
  <2>2. pc = "REIN" /\ Granted'
    BY <1>3, <1>7, <1>8, <2>1
  <2>3. Protected'
    BY <1>1, <2>1, <2>2 DEF Protected
  <2>4. Typed'
    BY <1>1, <2>2 DEF Typed
  <2> QED
    BY <2>3, <2>4
<1>13. CASE StartTls \/ EndTls
  BY <1>1, <1>13, SettingsSame DEF StartTls, EndTls, Settings
<1> QED
  BY <1>2, <1>5, <1>6, <1>9, <1>10, <1>11, <1>12, <1>13 DEF ServerStep, ServerFault

\* Only a new connection brings up a server that had gone.
LEMMA LivesOn ==
  ASSUME TypeOK, Next, ~Reconnects, up'
  PROVE  up
<1>1. CASE UserStep
  <2>1. CASE connect_fails \/ \E g \in BOOLEAN : disconnect(g) /\ ~g
    BY <2>1 DEF connect_fails, disconnect, Close, ServerGone, Disappears
  <2>2. CASE login \/ logout \/ rename \/ Simple \/ Transfer \/ disconnect(TRUE)
             \/ \E t \in Types : set_transfer_type(t)
    BY <2>2, StartsCommand DEF Start
  <2>3. CASE \/ \E mode \in Modes : set_transfer_mode(mode)
             \/ \E support \in Rfc2428Supports : set_rfc2428_support(support)
    BY <2>3 DEF set_transfer_mode, set_rfc2428_support
  <2> QED
    BY <1>1, <2>1, <2>2, <2>3 DEF UserStep, Reconnects
<1>2. CASE Recv421 \/ RecvQuit \/ HandshakeFails \/ ObserverThrows421 \/ CloseShutdown
  BY <1>2 DEF Recv421, RecvQuit, HandshakeFails, ObserverThrows421, CloseShutdown, Close, ServerGone,
              Disappears
<1>3. CASE \/ Read \/ RecvFails \/ RecvGreeting \/ RecvAuth \/ Handshake \/ RecvUser \/ RecvPass
           \/ RecvPbsz \/ RecvProt \/ RecvType \/ RecvSimple \/ RecvRnfr \/ RecvPassive \/ RecvActive
           \/ RecvMain \/ RecvAbor \/ RecvLast \/ ObserverThrows
  BY <1>3 DEF Read, RecvFails, RecvGreeting, RecvAuth, Handshake, RecvUser, RecvPass, RecvPbsz, RecvProt,
              RecvType, RecvSimple, RecvRnfr, RecvPassive, RecvActive, RecvMain, RecvAbor, RecvLast,
              ObserverThrows, OnlyDialog
<1>4. CASE RecvRein \/ ReinShutdown
  <2>1. UNCHANGED up
    BY <1>4 DEF RecvRein, ReinShutdown
  <2> QED
    BY <2>1
<1>5. CASE \/ DataConnect \/ Accept \/ AcceptFails \/ DataHandshake \/ TransferEnds \/ TransferFails
           \/ Cancel \/ AfterTransfer \/ DataShutdown \/ AbortShutdown
  BY <1>5 DEF DataConnect, Accept, AcceptFails, DataHandshake, TransferEnds, TransferFails, Cancel,
              AfterTransfer, DataShutdown, AbortShutdown, DataOnly
<1>6. CASE ServerStep \/ ServerFault
  BY <1>6 DEF ServerStep, ServerFault, Refuse, Retire, Greet, GrantAuth, GrantLogin, GrantProtection,
              GrantType, GrantSimple, GrantRein, GrantPassive, GrantTransfer, ServerConnects, TransferDone,
              TransferAborted, Result, GrantAbor, Hears, IdleTimeout, Crash, StartTls, EndTls, ServerGone,
              Disappears
<1> QED
  BY <1>1, <1>2, <1>3, <1>4, <1>5, <1>6 DEF Next, ClientStep, Misfortune

LEMMA SettledNext == TypeOK /\ TypeOK' /\ Dialog /\ Settled /\ [Next]_vars => Settled'
<1> SUFFICES ASSUME TypeOK, TypeOK', Dialog, Settled, [Next]_vars PROVE Settled'
  OBVIOUS
<1>1. LoginStages'
  BY StagesNext DEF Settled
<1>2. ASSUME up', upset' = {} PROVE Protected' /\ Typed'
  <2>1. CASE Reconnects
    <3>1. ~ready' /\ ~server_prot' /\ pc' \in {"GREET", "idle"}
      BY <2>1 DEF Reconnects, connect, connect_interrupted, NewConnection
    <3> QED
      BY <3>1 DEF Protected, Typed
  <2>2. CASE Next /\ ~Reconnects
    <3>1. upset = {}
      BY <1>2, <2>2, UpsetStays
    <3>2. InStep
      BY <3>1 DEF Dialog, InStep
    <3>3. up
      BY <1>2, <2>2, LivesOn
    <3>4. Protected /\ Typed
      BY <3>1, <3>3 DEF Settled
    <3> QED
      BY <1>2, <2>2, <3>2, <3>4, SettledUser, SettledClient, SettledServer DEF Next, Settled
  <2>3. CASE UNCHANGED vars
    <3>1. Protected /\ Typed
      BY <1>2, <2>3 DEF Settled, vars
    <3> QED
      BY <2>3, <3>1, SettingsSame DEF vars, Settings
  <2> QED
    BY <2>1, <2>2, <2>3
<1> QED
  BY <1>1, <1>2 DEF Settled

\* After a login whose replies are all positive, create_input_stream and
\* create_output_stream assume the type that the server transfers in, and
\* the client protects its data connections just when the server does.
THEOREM SettingsAgreeCorrect == Spec => []SettingsAgree
<1>1. Dialog /\ TypeOK /\ Settled => SettingsAgree
  <2> SUFFICES ASSUME TypeOK, Dialog, Settled, pc = "idle", up, upset = {}, ready
               PROVE  server_type = transfer_type_ /\ server_prot = ssl_context_
    BY DEF SettingsAgree
  <2>1. server_type = transfer_type_ /\ (server_prot <=> ssl_context_)
    BY DEF Settled, Protected, Typed
  <2> QED
    BY <2>1 DEF TypeOK
<1> QED
  BY <1>1, SettledInit, SettledNext, TypeCorrect, DialogCorrect, PTL DEF Spec
================================================================================
