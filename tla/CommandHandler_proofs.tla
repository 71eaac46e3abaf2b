------------------------- MODULE CommandHandler_proofs -------------------------
(* The command line application is a user of ftp::client, and cures its    *)
(* dialog.                                                                 *)
EXTENDS CommandHandler, FtpClient_proofs

USE DEF Modes, config, control, session, work

--------------------------------------------------------------------------------
(* A session is a behaviour of the client.                                 *)

LEMMA SessionNext == [AppNext]_all => [Next]_vars
<1> SUFFICES ASSUME [AppNext]_all PROVE [Next]_vars
  OBVIOUS
<1>1. CASE CommandStep
  <2>1. CASE open \/ open_login \/ user \/ ls \/ put \/ get \/ one_command
             \/ logout_rename \/ close
    BY <2>1 DEF open, open_login, user, ls, put, get, one_command, logout_rename, close, Call,
                Next, UserStep, Transfer
  <2>2. CASE binary_ascii
    BY <2>2 DEF binary_ascii, Call, Next, UserStep
  <2>3. CASE active_passive \/ exit
    BY <2>3 DEF active_passive, exit, Next, UserStep
  <2>4. CASE end_of_input \/ take_file
    BY <2>4 DEF end_of_input, take_file
  <2> QED
    BY <1>1, <2>1, <2>2, <2>3, <2>4 DEF CommandStep
<1>2. CASE Run \/ Mishap
  BY <1>2 DEF Run, Mishap, Next, Misfortune
<1>3. CASE Catch
  BY <1>3 DEF Catch, Next, UserStep
<1>4. CASE Serve(ServerStep) \/ Serve(ServerFault)
  BY <1>4 DEF Serve, Next
<1>5. CASE UNCHANGED all
  BY <1>5 DEF all
<1> QED
  BY <1>1, <1>2, <1>3, <1>4, <1>5 DEF AppNext

\* Whatever the user types, command_handler calls the client as any user may:
\* what holds of FtpClient holds of every session.
THEOREM SessionIsAClient == AppSpec => Spec
<1>1. AppInit => Init
  BY DEF AppInit
<1> QED
  BY <1>1, SessionNext, PTL DEF AppSpec, Spec

--------------------------------------------------------------------------------
(* An abandoned dialog never comes back to the prompt.                     *)

\* No command of the session asks for TLS.
Plain == ~ssl_context_ /\ ~is_ssl /\ pc \notin {"AUTH", "handshake"} \cup Shutdowns

\* The client is busy only while a handler has called it.
Busy == pc # "idle" => handling \in {"open", "call", "get", "exit"}

\* An abandoned dialog is about to be closed, or the session is over.
Cured == "abandoned" \in upset /\ is_open => handling \in {"catch", "left"}

Session == Plain /\ Busy /\ Cured

LEMMA SessionInit == AppInit => Session
  BY DefaultClientAssumption DEF AppInit, Init, Session, Plain, Busy, Cured, Shutdowns

\* How a step of the client that is not the start of an operation ends.
LEMMA Outcome ==
  ASSUME Plain, ClientStep \/ AcceptFails \/ TransferFails
  PROVE  /\ Plain'
         /\ upset' \subseteq upset \cup {"abort_race"} \/ (pc' = "idle" /\ op' = "thrown")
         /\ is_open' => is_open
<1>1. ASSUME \/ Throw \/ Return \/ Abandon
             \/ \E c \in Commands \ {"AUTH"} : \E a, d, p : Proceed(c, a, d, p)
             \/ \E c : c \notin {"AUTH", "handshake"} \cup Shutdowns /\ Await(c)
      PROVE  /\ pc' \notin {"AUTH", "handshake"} \cup Shutdowns
             /\ upset' \subseteq upset \/ (pc' = "idle" /\ op' = "thrown")
  BY <1>1 DEF Commands, Shutdowns, Throw, Return, Abandon, Proceed, Await, Write, Leave
<1>2. CASE RecvFails
  BY <1>1, <1>2 DEF RecvFails, OnlyDialog, Plain
<1>3. CASE \/ RecvGreeting \/ RecvUser \/ RecvPass \/ RecvPbsz \/ RecvProt \/ RecvType
           \/ RecvSimple \/ RecvRnfr \/ RecvPassive \/ RecvActive \/ RecvMain \/ RecvAbor
           \/ RecvLast
  <2>1. UNCHANGED <<ssl_context_, is_ssl, is_open>>
    BY <1>3 DEF RecvGreeting, RecvUser, RecvPass, RecvPbsz, RecvProt, RecvType, RecvSimple,
                RecvRnfr, RecvPassive, RecvActive, RecvMain, RecvAbor, RecvLast, Receive, OnlyDialog
  <2>2. \/ Throw \/ Return
        \/ \E c \in Commands \ {"AUTH"} : \E a, d, p : Proceed(c, a, d, p)
        \/ \E c : c \notin {"AUTH", "handshake"} \cup Shutdowns /\ Await(c)
    BY <1>3, Names DEF RecvGreeting, RecvUser, RecvPass, RecvPbsz, RecvProt, RecvType, RecvSimple,
                RecvRnfr, RecvPassive, RecvActive, RecvMain, RecvAbor, RecvLast, CloseData, AfterPassword, Ask,
                Opened, StartTransfer, Shutdowns, Plain
  <2> QED
    BY <1>1, <2>1, <2>2 DEF Plain
<1>4. CASE Read
  BY <1>4 DEF Read, Plain
<1>5. CASE Recv421 \/ RecvRein \/ RecvQuit
  <2>1. pc' = "idle" /\ UNCHANGED <<ssl_context_, upset>>
    BY <1>5 DEF Recv421, RecvRein, RecvQuit, Receive, Leave, Plain
  <2>2. ~is_ssl
    BY DEF Plain
  <2>3. ~is_ssl'
    BY <1>5, <2>2 DEF Recv421, RecvRein, RecvQuit
  <2>4. is_open' => is_open
    BY <1>5 DEF Recv421, RecvRein, RecvQuit, Receive
  <2> QED
    BY <2>1, <2>3, <2>4 DEF Plain, Shutdowns
<1>6. CASE \/ RecvAuth \/ Handshake \/ HandshakeFails
           \/ CloseShutdown \/ ReinShutdown \/ DataShutdown \/ AbortShutdown
  BY <1>6 DEF RecvAuth, Handshake, HandshakeFails, CloseShutdown, ReinShutdown, DataShutdown,
              AbortShutdown, Shutdowns, Plain
<1>7. CASE \/ DataConnect \/ Accept \/ AcceptFails \/ DataHandshake \/ TransferEnds
           \/ TransferFails \/ AfterTransfer
  <2>1. UNCHANGED <<ssl_context_, is_ssl, is_open>>
    BY <1>7 DEF DataConnect, Accept, AcceptFails, DataHandshake, TransferEnds, TransferFails,
                AfterTransfer, DataOnly
  <2>2. \/ Throw \/ Abandon
        \/ \E c \in Commands \ {"AUTH"} : \E a, d, p : Proceed(c, a, d, p)
        \/ \E c : c \notin {"AUTH", "handshake"} \cup Shutdowns /\ Await(c)
        \/ pc' \in {"transfer", "transferred", "final", "ABOR"}
           /\ upset' \subseteq upset \cup {"abort_race"}
    BY <1>7, Names DEF DataConnect, Accept, AcceptFails, DataHandshake, TransferEnds,
                TransferFails, AfterTransfer, AwaitResult, Ask, Opened, StartTransfer, Write,
                Shutdowns, Plain
  <2> QED
    BY <1>1, <2>1, <2>2 DEF Plain, Shutdowns
<1> QED
  BY <1>2, <1>3, <1>4, <1>5, <1>6, <1>7 DEF ClientStep

LEMMA ServerBlames ==
  ASSUME ServerStep \/ ServerFault
  PROVE  "abandoned" \in upset' => "abandoned" \in upset
<1>1. CASE \/ Refuse \/ Retire \/ Greet \/ GrantAuth \/ StartTls \/ EndTls \/ GrantLogin \/ GrantProtection
           \/ GrantType \/ GrantSimple \/ GrantRein \/ GrantPassive \/ GrantTransfer
  BY <1>1 DEF Refuse, Retire, Greet, GrantAuth, StartTls, EndTls, GrantLogin, GrantProtection, GrantType,
              GrantSimple, GrantRein, GrantPassive, GrantTransfer
<1>2. CASE \/ ServerConnects \/ TransferDone \/ TransferAborted \/ GrantAbor \/ IdleTimeout
           \/ Crash
  BY <1>2 DEF ServerConnects, TransferDone, TransferAborted, Result, GrantAbor, IdleTimeout, Crash
<1> QED
  BY <1>1, <1>2 DEF ServerStep, ServerFault

LEMMA SessionStep == TypeOK /\ Session /\ [AppNext]_all => Session'
<1> SUFFICES ASSUME TypeOK, Session, [AppNext]_all PROVE Session'
  OBVIOUS
<1>1. CASE open
  BY <1>1 DEF open, connect, NewConnection, Inherited, Session, Plain, Shutdowns, Busy, Cured
<1>2. ASSUME NEW o, NEW c \in Commands \ {"AUTH"}, NEW a, NEW d, Start(o, c, a, d),
             handling \notin {"catch", "left"}, handling' \in {"call", "get", "exit"}
      PROVE  Session'
  <2>1. is_open /\ UNCHANGED <<is_open, is_ssl, ssl_context_, upset>> /\ pc' = c
    BY <1>2 DEF Start, Write
  <2>2. c \notin {"AUTH", "handshake"} \cup Shutdowns
    BY DEF Commands, Shutdowns
  <2> QED
    BY <1>2, <2>1, <2>2 DEF Session, Plain, Busy, Cured
<1>3. CASE open_login \/ user \/ ls \/ put \/ get \/ one_command
           \/ binary_ascii \/ logout_rename \/ close
  <2>1. \E o, a, d : \E c \in Commands \ {"AUTH"} : Start(o, c, a, d)
    <3>1. ASSUME NEW o, NEW cb, create_data_connection(o, cb)
          PROVE  \E a, d : \E c \in Commands \ {"AUTH"} : Start(o, c, a, d)
      BY <3>1, Names DEF create_data_connection, TypeOK
    <3>2. CASE ls \/ put \/ get
      BY <3>1, <3>2 DEF ls, put, get, Call
    <3>3. CASE open_login \/ user \/ one_command \/ binary_ascii \/ logout_rename \/ close
      BY <3>3, Names DEF open_login, user, one_command, binary_ascii, logout_rename, close, Call,
                  login, Simple, set_transfer_type, logout, rename, disconnect
    <3> QED
      BY <1>3, <3>2, <3>3
  <2>2. handling \notin {"catch", "left"} /\ handling' \in {"call", "get", "exit"}
    BY <1>3 DEF open_login, user, ls, put, get, one_command, binary_ascii, logout_rename,
                close, Call
  <2> QED
    BY <1>2, <2>1, <2>2
<1>4. CASE exit
  BY <1>2, <1>4, Names DEF exit, disconnect, vars, Session, Plain, Busy, Cured
<1>5. CASE active_passive \/ end_of_input \/ take_file
  BY <1>5 DEF active_passive, end_of_input, take_file, set_transfer_mode, app, vars,
              Session, Plain, Busy, Cured
<1>6. CASE Run \/ Mishap
  <2>1. /\ Plain'
        /\ upset' \subseteq upset \cup {"abort_race"} \/ (pc' = "idle" /\ op' = "thrown")
        /\ is_open' => is_open
    BY <1>6, Outcome DEF Run, Mishap, Session
  <2>2. Handle
    BY <1>6 DEF Run, Mishap
  <2>3. Busy'
    BY <2>2 DEF Handle, Session, Busy
  <2>4. Cured'
    BY <2>1, <2>2 DEF Handle, Returned, Threw, Session, Busy, Cured
  <2> QED
    BY <2>1, <2>3, <2>4 DEF Session
<1>7. CASE Catch
  BY <1>7 DEF Catch, disconnect, Close, vars, Session, Plain, Busy, Cured
<1>8. CASE Serve(ServerStep) \/ Serve(ServerFault)
  <2>1. ServerFrame /\ ("abandoned" \in upset' => "abandoned" \in upset)
    BY <1>8, ServerFrames, ServerBlames DEF Serve
  <2> QED
    BY <1>8, <2>1 DEF Serve, ServerFrame, Session, Plain, Busy, Cured
<1>9. CASE UNCHANGED all
  BY <1>9 DEF all, vars, app, Session, Plain, Busy, Cured
<1> QED
  BY <1>1, <1>3, <1>4, <1>5, <1>6, <1>7, <1>8, <1>9 DEF AppNext, CommandStep

\* In every session, whatever is typed and whatever fails, the prompt comes
\* back to a dialog in step or to a closed connection.
THEOREM PromptIsQuietCorrect == AppSpec => []PromptIsQuiet
<1>1. Session /\ QuietWhenIdle => PromptIsQuiet
  BY DEF Session, Busy, Cured, PromptIsQuiet, QuietWhenIdle
<1> QED
  BY <1>1, SessionInit, SessionStep, SessionIsAClient, TypeCorrect, QuietWhenIdleCorrect, PTL
     DEF AppSpec

--------------------------------------------------------------------------------
(* Types of the application's own state.                                   *)

AppState ==
    /\ handling \in {"prompt", "open", "credentials", "call", "get", "exit", "catch", "left"}
    /\ local_file \in {"absent", "created", "kept"}
    /\ delivered \in BOOLEAN

LEMMA AppStateNext == AppState /\ [AppNext]_all => AppState'
<1> SUFFICES ASSUME AppState, [AppNext]_all PROVE AppState'
  OBVIOUS
<1>1. CASE open \/ open_login \/ user \/ ls \/ put \/ get \/ one_command
           \/ binary_ascii \/ logout_rename \/ close
  BY <1>1 DEF open, open_login, user, ls, put, get, one_command, binary_ascii, logout_rename, close,
              Call, AppState
<1>2. CASE active_passive \/ exit \/ end_of_input \/ take_file \/ Catch
  BY <1>2 DEF active_passive, exit, end_of_input, take_file, Catch, app, AppState
<1>3. CASE Run \/ Mishap
  <2>1. Handle
    BY <1>3 DEF Run, Mishap
  <2>2. CASE Returned
    <3>1. handling' \in {"credentials", "left", "prompt"} /\ local_file' \in {"kept", "absent", local_file}
      BY <2>2 DEF Returned
    <3> QED
      BY <2>1, <3>1 DEF Handle, AppState
  <2>3. CASE Threw
    BY <2>1, <2>3 DEF Handle, Threw, AppState
  <2>4. CASE UNCHANGED <<handling, local_file>>
    BY <2>1, <2>4 DEF Handle, AppState
  <2> QED
    BY <2>1, <2>2, <2>3, <2>4 DEF Handle
<1>4. CASE Serve(ServerStep) \/ Serve(ServerFault)
  BY <1>4 DEF Serve, AppState
<1>5. CASE UNCHANGED all
  BY <1>5 DEF all, app, AppState
<1> QED
  BY <1>1, <1>2, <1>3, <1>4, <1>5 DEF AppNext, CommandStep

\* The variables of the application and of its client keep their types.
THEOREM AppTypeCorrect == AppSpec => []AppTypeOK
<1>1. AppInit => AppState
  BY DEF AppInit, AppState
<1>2. TypeOK /\ AppState => AppTypeOK
  BY DEF AppTypeOK, AppState
<1> QED
  BY <1>1, <1>2, AppStateNext, SessionIsAClient, TypeCorrect, PTL DEF AppSpec

--------------------------------------------------------------------------------
(* `get' keeps a file that is whole.                                       *)

\* The calls in which the data connection is announced.
Announces == {"EPSV", "PASV", "EPRT", "PORT"}

\* A get in a dialog in step: where it is, that all replies so far are
\* positive, and that the result in flight, if any, tells whether the server
\* has sent the file to its end.
Fetching ==
    /\ pc \in Announces \cup {"data_connect", "MAIN"} \cup DataCalls
    /\ pc \in Announces => replies = NoReplies
    /\ pc \notin Announces => ~replies.empty /\ replies.is_positive
    /\ pc \in Announces \cup {"data_connect"} \/ commands # <<>> \/ transfer # "none" => ~delivered
    /\ pc = "MAIN" /\ inbound # <<>> =>
        IF IsNegative(inbound[1].code) THEN ~delivered
        ELSE Len(inbound) > 1 => (delivered <=> IsPositive(inbound[2].code))
    /\ pc \in DataCalls /\ inbound # <<>> => (delivered <=> IsPositive(inbound[1].code))

\* With TypeOK and Dialog, the invariant that carries KeptIsWhole.  The
\* application's callback never cancels.
Whole == transfer_cb # "cancelled" /\ (handling = "get" /\ upset = {} => Fetching)

LEMMA WholeInit == AppInit => Whole
  BY DEF AppInit, Init, Whole

LEMMA NeverCancels == transfer_cb # "cancelled" /\ [AppNext]_all => transfer_cb' # "cancelled"
<1> SUFFICES ASSUME transfer_cb # "cancelled", [AppNext]_all PROVE transfer_cb' # "cancelled"
  OBVIOUS
<1>1. CASE \/ open \/ open_login \/ user \/ ls \/ put \/ get \/ one_command
           \/ binary_ascii \/ logout_rename \/ close
  BY <1>1 DEF open, open_login, user, ls, put, get, one_command, binary_ascii, logout_rename, close,
              Call, connect, NewConnection, login, create_data_connection, Simple, set_transfer_type,
              logout, rename, disconnect
<1>2. CASE active_passive \/ exit \/ end_of_input \/ take_file \/ Catch
  BY <1>2 DEF active_passive, exit, end_of_input, take_file, Catch, set_transfer_mode, disconnect, vars
<1>3. ASSUME \/ Throw \/ Return \/ Abandon \/ (\E o : Leave(o)) \/ UNCHANGED transfer_cb
             \/ (\E c, a, d, p : Proceed(c, a, d, p))
             \/ (\E c : Await(c))
      PROVE  transfer_cb' # "cancelled"
  BY <1>3 DEF Throw, Return, Abandon, Leave, Proceed, Await
<1>4. CASE Run \/ Mishap
  <2>1. CASE \/ Read \/ RecvFails \/ Recv421 \/ RecvGreeting \/ RecvAuth \/ Handshake
             \/ HandshakeFails \/ RecvUser \/ RecvPass \/ RecvPbsz \/ RecvProt \/ RecvType
             \/ RecvSimple \/ RecvRnfr \/ RecvRein \/ RecvQuit \/ ReinShutdown
             \/ CloseShutdown
    BY <1>3, <2>1 DEF Read, RecvFails, Recv421, RecvGreeting, RecvAuth, Handshake, HandshakeFails,
           RecvUser, RecvPass, RecvPbsz, RecvProt, RecvType, RecvSimple, RecvRnfr, RecvRein,
           RecvQuit, ReinShutdown, CloseShutdown, AfterPassword, Ask
  <2>2. CASE \/ RecvPassive \/ DataConnect \/ RecvActive \/ RecvMain \/ Accept \/ AcceptFails
             \/ DataHandshake \/ TransferEnds \/ TransferFails \/ RecvAbor \/ RecvLast
             \/ DataShutdown \/ AbortShutdown
    BY <1>3, <2>2 DEF RecvPassive, DataConnect, RecvActive, RecvMain, Accept, AcceptFails,
           DataHandshake, TransferEnds, TransferFails, RecvAbor, RecvLast, DataShutdown,
           AwaitResult, AbortShutdown, CloseData, Ask
  <2>3. CASE AfterTransfer
    BY <1>3, <2>3 DEF AfterTransfer, AwaitResult
  <2> QED
    BY <1>4, <2>1, <2>2, <2>3 DEF Run, Mishap, ClientStep
<1>5. CASE Serve(ServerStep) \/ Serve(ServerFault)
  BY <1>5, ServerFrames DEF Serve, ServerFrame
<1>6. CASE UNCHANGED all
  BY <1>6 DEF all, vars
<1> QED
  BY <1>1, <1>2, <1>4, <1>5, <1>6 DEF AppNext, CommandStep

\* A get begins.
LEMMA WholeGet == ASSUME TypeOK, get PROVE Fetching'
<1>1. create_data_connection("download", "running") /\ ~delivered'
  BY DEF get
<1>2. PICK c \in Announces : \E d : Start("download", c, "download", d)
  BY <1>1 DEF create_data_connection, TypeOK, Announces
<1>3. pc' \in Announces /\ replies' = NoReplies
  BY <1>2 DEF Start, Write
<1>4. pc' # "MAIN" /\ pc' \notin DataCalls
  BY <1>3 DEF Announces, DataCalls
<1> QED
  BY <1>1, <1>3, <1>4 DEF Fetching

\* Another operation begins: only get is handled as such.
LEMMA OnlyGetFetches ==
  ASSUME CommandStep \/ Catch, handling' = "get"
  PROVE  get
BY DEF CommandStep, Catch, open, open_login, user, ls, put, one_command, binary_ascii, logout_rename,
       close, Call, active_passive, app, exit, end_of_input, take_file

\* A reply to MAIN, or a 421 that answers nobody, is next, and nothing else.
LEMMA FetchMain ==
  ASSUME TypeOK', pc' = "MAIN", ~replies'.empty, replies'.is_positive, ~delivered', InFlight(0)'
  PROVE  Fetching'
<1>1. inbound' # <<>> => inbound'[1].code = 421 /\ Len(inbound') = 1
  BY DEF InFlight, TypeOK
<1>2. IsNegative(421)
  BY DEF IsNegative, Unspecified
<1>3. "MAIN" \notin Announces \cup {"data_connect"} \cup DataCalls
  BY DEF Announces, DataCalls
<1> QED
  BY <1>1, <1>2, <1>3 DEF Fetching

\* The server is told, or tells, where the data connection is.
LEMMA FetchAnnounced ==
  ASSUME TypeOK, TypeOK', InStep, Fetching, UNCHANGED delivered, RecvPassive \/ RecvActive
  PROVE  /\ pc' = "idle" /\ op' = "none" => (Positive <=> delivered)
         /\ pc' # "idle" => Fetching'
<1>1. /\ Receive /\ pc \in Announces /\ pc \in {"EPSV", "PASV", "EPRT", "PORT"} /\ UNCHANGED <<up, transfer>>
  BY DEF RecvPassive, RecvActive, Announces, OnlyDialog
<1>2. replies = NoReplies /\ ~delivered
  BY <1>1 DEF Fetching
<1>3. pc \in Commands \ {"MAIN", "ABOR"} /\ pc \in Awaiting
  BY <1>1, Names
<1>4. commands = <<>> /\ transfer = "none" /\ InFlight(0)'
  BY <1>1, <1>3, Received
<1>5. code \in Codes
  BY <1>1, CodeType DEF Receive
<1>6. AppendReply(replies, code).is_positive <=> IsPositive(code)
  BY <1>2 DEF AppendReply, NoReplies
<1>7. IsPositive(code) <=> ~IsNegative(code)
  BY <1>5 DEF Codes, IsPositive, IsNegative, Unspecified
<1>8. CASE IsNegative(code)
  <2>1. pc' = "idle" /\ ~Positive
    BY <1>6, <1>7, <1>8 DEF RecvPassive, RecvActive, Return, Leave, Positive
  <2> QED
    BY <1>2, <2>1
<1>9. CASE ~IsNegative(code)
  <2>1. Throw \/ Await("data_connect") \/ Ask("MAIN")
    BY <1>9 DEF RecvPassive, RecvActive
  <2>2. CASE Throw
    BY <2>2 DEF Throw, Leave
  <2>3. ASSUME Collect PROVE ~replies'.empty /\ replies'.is_positive
    <3>1. replies' = AppendReply(replies, code)
      BY <1>3, <2>3 DEF Collect
    <3> QED
      BY <1>6, <1>7, <1>9, <3>1 DEF AppendReply
  <2>4. CASE Await("data_connect")
    <3>1. pc' = "data_connect" /\ ~replies'.empty /\ replies'.is_positive
      BY <2>3, <2>4 DEF Await
    <3>2. "data_connect" \notin Announces \cup DataCalls
      BY DEF Announces, DataCalls
    <3> QED
      BY <1>2, <3>1, <3>2 DEF Fetching
  <2>5. CASE Ask("MAIN") /\ ~Throw
    <3>1. pc' = "MAIN" /\ ~replies'.empty /\ replies'.is_positive
      BY <2>3, <2>5 DEF Ask, Proceed, Write
    <3> QED
      BY <1>2, <1>4, <3>1, FetchMain
  <2> QED
    BY <2>1, <2>2, <2>4, <2>5
<1> QED
  BY <1>8, <1>9

LEMMA FetchConnects ==
  ASSUME TypeOK, TypeOK', InStep, Fetching, UNCHANGED delivered, DataConnect
  PROVE  /\ pc' = "idle" => op' = "thrown"
         /\ pc' # "idle" => Fetching'
<1>1. pc = "data_connect" /\ UNCHANGED <<inbound, up>>
  BY DEF DataConnect
<1>2. pc \notin Awaiting /\ pc \notin Announces
  BY <1>1 DEF Awaiting, Commands, Announces
<1>3. ~replies.empty /\ replies.is_positive /\ ~delivered
  BY <1>1, <1>2 DEF Fetching
<1>4. InFlight(0)'
  BY <1>1, InFlightSame DEF InStep, BetweenCommands, Pauses, Quiet
<1>5. CASE Throw
  BY <1>5 DEF Throw, Leave
<1>6. CASE Proceed("MAIN", op, "conn", "conn") /\ ~Throw
  <2>1. pc' = "MAIN" /\ replies' = replies
    BY <1>2, <1>6 DEF Proceed, Write, Collect
  <2> QED
    BY <1>3, <1>4, <2>1, FetchMain
<1> QED
  BY <1>5, <1>6 DEF DataConnect

\* 150 begins the transfer; its result, if it is there, is next.
LEMMA FetchBegins ==
  ASSUME TypeOK, TypeOK', InStep, Fetching, UNCHANGED delivered, RecvMain
  PROVE  /\ pc' = "idle" /\ op' = "none" => (Positive <=> delivered)
         /\ pc' # "idle" => Fetching'
<1>1. /\ Receive /\ pc = "MAIN" /\ UNCHANGED <<up, transfer>> /\ inbound' = Tail(inbound)
      /\ pc \in Awaiting /\ pc \notin Announces \cup {"data_connect"} \cup DataCalls
  BY Names DEF RecvMain, OnlyDialog, Receive, Announces, DataCalls
<1>2. code \in Codes /\ inbound # <<>> /\ inbound \in Seq(Reply) /\ code = inbound[1].code
  BY <1>1, CodeType DEF Receive, TypeOK, code
<1>3. ~replies.empty /\ replies.is_positive
  BY <1>1 DEF Fetching
<1>4. AppendReply(replies, code).is_positive <=> IsPositive(code)
  BY <1>3 DEF AppendReply
<1>5. IsPositive(code) <=> ~IsNegative(code)
  BY <1>2 DEF Codes, IsPositive, IsNegative, Unspecified
<1>6. CASE IsNegative(code)
  <2>1. ~Positive
    BY <1>4, <1>5, <1>6 DEF Positive
  <2>2. ~delivered /\ pc' = "idle"
    BY <1>1, <1>2, <1>6 DEF Fetching, RecvMain, Return, Throw, Leave
  <2> QED
    BY <2>1, <2>2
<1>7. CASE ~IsNegative(code)
  <2>1. \E c \in {"accept", "data_handshake", "transfer", "transferred"} : Await(c)
    BY <1>7 DEF RecvMain, Opened, StartTransfer
  <2>2. /\ pc' \in DataCalls /\ pc' \notin Announces \cup {"data_connect", "MAIN"}
        /\ replies' = AppendReply(replies, code) /\ commands' = commands
    BY <1>1, <2>1 DEF Await, Collect, DataCalls, Announces
  <2>3. ~replies'.empty /\ replies'.is_positive
    BY <1>4, <1>5, <1>7, <2>2 DEF AppendReply
  <2>4. inbound' # <<>> => Len(inbound) > 1 /\ inbound'[1] = inbound[2]
    <3>1. Len(inbound') = Len(inbound) - 1 /\ Len(inbound) \in Nat
      BY <1>1, <1>2
    <3>2. inbound' # <<>> => Len(inbound) > 1
      BY <1>1, <1>2, <3>1
    <3> QED
      BY <1>1, <1>2, <3>2
  <2>5. inbound' # <<>> => (delivered' <=> IsPositive(inbound'[1].code))
    BY <1>1, <1>2, <1>7, <2>4 DEF Fetching
  <2>6. commands' # <<>> \/ transfer' # "none" => ~delivered'
    <3>1. commands # <<>> \/ transfer # "none" => ~delivered
      BY DEF Fetching
    <3>2. UNCHANGED <<commands, transfer>>
      BY <1>1, <2>2
    <3> QED
      BY <3>1, <3>2
  <2> QED
    BY <2>2, <2>3, <2>5, <2>6, CallNames DEF Fetching, Pauses
<1> QED
  BY <1>6, <1>7

\* The steps from the 150 to the result.
LEMMA FetchData ==
  ASSUME TypeOK, TypeOK', InStep, Fetching, UNCHANGED delivered, transfer_cb # "cancelled",
         \/ Accept \/ AcceptFails \/ DataHandshake \/ TransferEnds \/ TransferFails
         \/ AfterTransfer \/ DataShutdown
  PROVE  /\ pc' = "idle" => op' = "thrown"
         /\ pc' # "idle" => Fetching'
<1>1. /\ pc \in {"accept", "data_handshake", "transfer", "transferred", "data_shutdown"}
      /\ UNCHANGED <<inbound, transfer>>
  BY DEF Accept, AcceptFails, DataHandshake, TransferEnds, TransferFails, AfterTransfer,
         DataShutdown, DataOnly
<1>2. pc \notin Awaiting \cup Announces /\ pc \in DataCalls
  BY <1>1 DEF Awaiting, Commands, Announces, DataCalls
<1>3. \/ Abandon
      \/ /\ pc' \in {"data_handshake", "transfer", "transferred", "data_shutdown", "final"}
         /\ UNCHANGED <<replies, commands>>
  BY <1>2 DEF Accept, AcceptFails, DataHandshake, TransferEnds, TransferFails, AfterTransfer,
              DataShutdown, AwaitResult, Opened, StartTransfer, Await, Collect
<1>4. CASE Abandon
  BY <1>4 DEF Abandon, Leave
<1>5. CASE /\ pc' \in {"data_handshake", "transfer", "transferred", "data_shutdown", "final"}
           /\ UNCHANGED <<replies, commands>>
  <2>1. pc' \in DataCalls /\ pc' \notin Announces \cup {"data_connect", "MAIN"}
    BY <1>5 DEF DataCalls, Announces
  <2> QED
    BY <1>1, <1>2, <1>5, <2>1 DEF Fetching
<1> QED
  BY <1>3, <1>4, <1>5

\* The result tells what get may believe.
LEMMA FetchEnds ==
  ASSUME TypeOK, TypeOK', ~is_ssl, Fetching, UNCHANGED delivered, RecvLast \/ Recv421
  PROVE  /\ pc' = "idle"
         /\ Positive <=> delivered
<1>1. buffered > 0 /\ pc \in Awaiting /\ pc' = "idle" /\ (code = 421 \/ pc = "final")
  BY DEF RecvLast, Recv421, Receive, Return, Leave, Awaiting, Fetching, Announces, DataCalls
<1>2. inbound # <<>> /\ code = inbound[1].code
  BY <1>1, CodeType DEF TypeOK, code
<1>3. pc \notin Announces => (Positive <=> IsPositive(code))
  BY DEF Fetching, Positive, AppendReply
<1>4. CASE pc = "final"
  BY <1>1, <1>2, <1>3, <1>4 DEF Fetching, DataCalls, Announces
<1>5. CASE code = 421
  <2>1. IsNegative(code) /\ ~IsPositive(code)
    BY <1>5 DEF IsNegative, IsPositive, Unspecified
  <2>2. ~Positive
    BY <2>1, PositiveLast DEF Positive
  <2>3. pc \in Announces \cup {"MAIN", "final"}
    BY <1>1 DEF Fetching, Awaiting, Commands, DataCalls
  <2>4. ~delivered
    BY <1>2, <1>4, <2>1, <2>3 DEF Fetching, DataCalls
  <2> QED
    BY <1>1, <2>2, <2>4
<1> QED
  BY <1>1, <1>4, <1>5

LEMMA FetchClient ==
  ASSUME TypeOK, TypeOK', InStep, ~is_ssl, Fetching, UNCHANGED delivered, transfer_cb # "cancelled",
         ClientStep \/ AcceptFails \/ TransferFails
  PROVE  /\ pc' = "idle" /\ op' = "none" => (Positive <=> delivered)
         /\ pc' # "idle" => Fetching'
<1>1. pc \in Announces \cup {"data_connect", "MAIN"} \cup DataCalls
  BY DEF Fetching
<1>2. pc \notin {"GREET", "AUTH", "handshake", "USER", "PASS", "PBSZ", "PROT", "TYPE", "SIMPLE", "RNTO",
                 "RNFR", "REIN", "QUIT", "ABOR", "idle", "rein_shutdown", "close_shutdown",
                 "abort_shutdown"}
  BY <1>1 DEF Announces, DataCalls
<1>3. ~ \/ RecvGreeting \/ RecvAuth \/ Handshake \/ HandshakeFails \/ RecvUser \/ RecvPass \/ RecvPbsz
        \/ RecvProt \/ RecvType \/ RecvSimple \/ RecvRnfr \/ RecvRein \/ RecvQuit \/ RecvAbor
        \/ ReinShutdown \/ CloseShutdown \/ AbortShutdown
  BY <1>2 DEF RecvGreeting, RecvAuth, Handshake, HandshakeFails, RecvUser, RecvPass, RecvPbsz, RecvProt,
              RecvType, RecvSimple, RecvRnfr, RecvRein, RecvQuit, RecvAbor, ReinShutdown,
              CloseShutdown, AbortShutdown
<1>4. CASE Read
  BY <1>2, <1>4 DEF Read, Fetching
<1>5. CASE RecvFails
  BY <1>5 DEF RecvFails, Throw, Leave
<1> QED
  BY <1>3, <1>4, <1>5, FetchAnnounced, FetchConnects, FetchBegins, FetchData, FetchEnds DEF ClientStep

--------------------------------------------------------------------------------
(* The server sends the file, or does not.                                 *)

\* The server answers the command that the get is waiting on.
LEMMA FetchHears ==
  ASSUME TypeOK, TypeOK', InStep, Fetching, UNCHANGED delivered,
         \/ Refuse \/ Retire \/ Greet \/ GrantAuth \/ GrantLogin \/ GrantProtection \/ GrantType
         \/ GrantSimple \/ GrantRein \/ GrantPassive \/ GrantTransfer \/ GrantAbor
  PROVE  Fetching'
<1>1. commands # <<>>
  BY DEF Refuse, Retire, Greet, GrantAuth, GrantLogin, GrantProtection, GrantType, GrantSimple,
         GrantRein, GrantPassive, GrantTransfer, GrantAbor, Hears
<1>2. UNCHANGED <<pc, replies>>
  BY ServerFrames DEF ServerFrame, ServerStep
<1>3. pc \in Commands /\ Question.cmd = pc /\ inbound = <<>>
  BY <1>1, Heard
<1>4. pc \in Announces \cup {"MAIN"} /\ pc \notin DataCalls \cup {"data_connect"}
  BY <1>3, CallNames DEF Fetching, Pauses
<1>5. ~delivered'
  <2>1. ~delivered
    BY <1>1 DEF Fetching
  <2> QED
    BY <2>1
<1>6. pc = "MAIN" => \E c : Says(c)
  <2>1. pc = "MAIN" => Question.cmd \notin {"GREET", "REIN", "ABOR"}
    BY <1>3
  <2> QED
    BY <2>1 DEF Refuse, Retire, Greet, GrantAuth, GrantLogin, GrantProtection, GrantType, GrantSimple,
         GrantRein, GrantPassive, GrantTransfer, GrantAbor, Hears
<1>7. pc = "MAIN" => Len(inbound') = 1
  BY <1>3, <1>6 DEF Says
<1> QED
  BY <1>2, <1>4, <1>5, <1>7 DEF Fetching

\* The transfer ends, with its result.
LEMMA FetchResult ==
  ASSUME TypeOK, TypeOK', Gone, InStep, Fetching, transfer # "none", commands = <<>>,
         commands' = <<>>, transfer' = "none", UNCHANGED <<pc, replies>>,
         NEW c \in Codes, inbound' = Append(inbound, [code |-> c, to |-> "MAIN"]),
         delivered' <=> IsPositive(c)
  PROVE  Fetching'
<1>1. /\ up
      /\ \/ pc = "MAIN" /\ Begun(1)
         \/ pc \in DataCalls /\ inbound = <<>>
  BY Transferring
<1>2. pc' \notin Announces \cup {"data_connect"}
  BY <1>1 DEF Announces, DataCalls
<1>3. CASE pc = "MAIN" /\ Begun(1)
  <2>1. Len(inbound) = 1 /\ ~IsNegative(inbound[1].code)
    BY <1>1, <1>3, InFlightUp DEF Begun
  <2>2. inbound'[1] = inbound[1] /\ inbound'[2].code = c
    <3>1. [code |-> c, to |-> "MAIN"] \in Reply
      BY DEF Reply, Commands
    <3>2. InFlight(1)
      BY <1>3 DEF Begun
    <3>3. inbound'[1 + 1] = [code |-> c, to |-> "MAIN"] /\ inbound'[1] = inbound[1]
      BY <1>1, <3>1, <3>2, InFlightSend, Zenon
    <3>4. 1 + 1 = 2
      OBVIOUS
    <3>5. inbound'[2] = [code |-> c, to |-> "MAIN"]
      BY <3>3, <3>4, Zenon
    <3>6. [code |-> c, to |-> "MAIN"].code = c
      OBVIOUS
    <3> QED
      BY <3>3, <3>5, <3>6, Zenon
  <2>3. pc' \notin DataCalls
    BY <1>3 DEF DataCalls
  <2> QED
    BY <1>2, <1>3, <2>1, <2>2, <2>3 DEF Fetching
<1>4. CASE pc \in DataCalls /\ inbound = <<>>
  <2>1. inbound'[1].code = c
    BY <1>4
  <2>2. pc' # "MAIN"
    BY <1>4 DEF DataCalls
  <2> QED
    BY <1>2, <1>4, <2>1, <2>2 DEF Fetching
<1> QED
  BY <1>1, <1>3, <1>4

\* The server goes away, and tells so or takes replies with it.
LEMMA FetchLost ==
  ASSUME TypeOK, TypeOK', InStep, Fetching, UNCHANGED delivered, IdleTimeout \/ Crash
  PROVE  Fetching'
<1>1. /\ up /\ commands' = <<>> /\ transfer' = "none"
  BY DEF IdleTimeout, Crash, ServerGone, Disappears
<1>2. UNCHANGED <<pc, replies>>
  BY ServerFrames DEF ServerFrame, ServerFault
<1>3. inbound \in Seq(Reply) /\ Len(inbound) \in Nat /\ buffered \in 0 .. Len(inbound)
  BY DEF TypeOK
<1>4. pc \in Announces \cup {"data_connect"} => ~delivered'
  BY DEF Fetching
<1>5. CASE Crash
  <2>1. Len(inbound') <= Len(inbound) /\ \A i \in 1 .. Len(inbound') : inbound'[i] = inbound[i]
    <3>1. CASE inbound' = inbound
      BY <1>3, <3>1
    <3>2. CASE inbound' = buffer_
      BY <1>3, <3>2 DEF buffer_
    <3> QED
      BY <1>5, <3>1, <3>2 DEF Crash
  <2>2. inbound' # <<>> => Len(inbound') \in Nat /\ Len(inbound') > 0
    BY DEF TypeOK
  <2>3. inbound' # <<>> => inbound # <<>> /\ inbound'[1] = inbound[1]
    BY <1>3, <2>1, <2>2
  <2>4. Len(inbound') > 1 => Len(inbound) > 1 /\ inbound'[2] = inbound[2]
    <3>1. Len(inbound') \in Nat
      BY DEF TypeOK
    <3> QED
      BY <1>3, <2>1, <3>1
  <2> QED
    BY <1>1, <1>2, <1>4, <2>3, <2>4 DEF Fetching
<1>6. CASE IdleTimeout
  <2>1. commands = <<>> /\ transfer = "none" /\ inbound' = Append(inbound, [code |-> 421, to |-> "nobody"])
    BY <1>6 DEF IdleTimeout
  <2>2. CASE pc = "MAIN"
    <3>1. (Answered("MAIN") /\ IsNegative(inbound[1].code)) \/ Begun(2)
      BY <1>1, <2>1, <2>2 DEF InStep, TransferAsked, Asked, Lost
    <3>2. CASE Answered("MAIN") /\ IsNegative(inbound[1].code)
      <4>1. Len(inbound) = 1
        BY <1>1, <3>2, InFlightUp DEF Answered
      <4>2. inbound'[1] = inbound[1] /\ inbound # <<>>
        BY <1>3, <2>1, <4>1
      <4>3. ~delivered'
        BY <2>2, <3>2, <4>2 DEF Fetching
      <4> QED
        BY <1>1, <1>2, <2>2, <3>2, <4>2, <4>3, CallNames, Names DEF Fetching
    <3>3. CASE Begun(2)
      <4>1. Len(inbound) = 2 /\ ~IsNegative(inbound[1].code)
        BY <1>1, <3>3, InFlightUp DEF Begun
      <4>2. inbound'[1] = inbound[1] /\ inbound'[2] = inbound[2] /\ inbound # <<>>
        BY <1>3, <2>1, <4>1
      <4>3. delivered' <=> IsPositive(inbound'[2].code)
        BY <2>2, <4>1, <4>2 DEF Fetching
      <4> QED
        BY <1>1, <1>2, <2>2, <4>1, <4>2, <4>3, CallNames, Names DEF Fetching
    <3> QED
      BY <3>1, <3>2, <3>3
  <2>3. CASE pc \in DataCalls
    <3>1. Answered("MAIN")
      BY <1>1, <2>1, <2>3 DEF InStep, TransferRuns, Lost
    <3>2. Len(inbound) = 1
      BY <1>1, <3>1, InFlightUp DEF Answered
    <3>3. inbound'[1] = inbound[1] /\ inbound # <<>>
      BY <1>3, <2>1, <3>2
    <3>4. delivered' <=> IsPositive(inbound'[1].code)
      BY <2>3, <3>3 DEF Fetching
    <3>5. pc # "MAIN" /\ pc \notin Announces \cup {"data_connect"}
      BY <2>3 DEF DataCalls, Announces
    <3> QED
      BY <1>1, <1>2, <2>3, <3>4, <3>5 DEF Fetching
  <2>4. CASE pc \notin DataCalls \cup {"MAIN"}
    BY <1>1, <1>2, <1>4, <2>4 DEF Fetching
  <2> QED
    BY <2>2, <2>3, <2>4
<1> QED
  BY <1>5, <1>6

LEMMA FetchServer ==
  ASSUME TypeOK, TypeOK', Gone, InStep, Fetching, handling = "get", upset' = {},
         ServerStep \/ ServerFault,
         delivered' = IF TransferDone /\ handling = "get" THEN TRUE ELSE delivered
  PROVE  Fetching'
<1>1. UNCHANGED <<pc, replies>>
  BY ServerFrames DEF ServerFrame
<1>2. IsPositive(200) /\ ~IsPositive(550) /\ ~IsPositive(421) /\ {200, 550, 421} \subseteq Codes
  BY DEF IsPositive, Unspecified, Codes
<1>3. CASE TransferDone
  <2>1. /\ transfer # "none" /\ commands = <<>> /\ commands' = <<>> /\ transfer' = "none"
        /\ inbound' = Append(inbound, [code |-> 200, to |-> "MAIN"])
    BY <1>3 DEF TransferDone, Result
  <2>2. delivered' <=> IsPositive(200)
    BY <1>2, <1>3
  <2> QED
    BY <1>1, <1>2, <2>1, <2>2, FetchResult
<1>4. CASE ~TransferDone
  <2>1. UNCHANGED delivered /\ (delivered' <=> delivered)
    BY <1>4, Zenon
  <2>2. CASE TransferAborted
    <3>1. PICK c \in {550, 421} : /\ inbound' = Append(inbound, [code |-> c, to |-> "MAIN"])
                                  /\ transfer # "none" /\ commands = <<>> /\ commands' = <<>>
                                  /\ transfer' = "none"
      BY <2>2 DEF TransferAborted, Result
    <3>2. ~delivered
      BY <3>1 DEF Fetching
    <3>3. delivered' <=> IsPositive(c)
      BY <1>2, <2>1, <3>2
    <3> QED
      BY <1>1, <1>2, <3>1, <3>3, FetchResult
  <2>3. CASE ServerConnects
    <3>1. transfer # "none" /\ UNCHANGED <<inbound, commands>>
      BY <2>3 DEF ServerConnects
    <3>2. ~delivered
      BY <3>1 DEF Fetching
    <3>3. ~delivered'
      BY <2>1, <3>2
    <3> QED
      BY <1>1, <2>1, <3>1, <3>3 DEF Fetching
  <2>4. CASE StartTls \/ EndTls
    <3>1. UNCHANGED <<inbound, commands, transfer>>
      BY <2>4 DEF StartTls, EndTls
    <3> QED
      BY <1>1, <2>1, <3>1 DEF Fetching
  <2> QED
    BY <1>4, <2>1, <2>2, <2>3, <2>4, FetchHears, FetchLost DEF ServerStep, ServerFault
<1> QED
  BY <1>3, <1>4

\* The server does not cure a dialog.
LEMMA ServerUpsets ==
  ASSUME ServerStep \/ ServerFault
  PROVE  upset \subseteq upset'
<1>1. CASE \/ Refuse \/ Retire \/ Greet \/ GrantAuth \/ StartTls \/ EndTls \/ GrantLogin \/ GrantProtection
           \/ GrantType \/ GrantSimple \/ GrantRein \/ GrantPassive \/ GrantTransfer
  BY <1>1 DEF Refuse, Retire, Greet, GrantAuth, StartTls, EndTls, GrantLogin, GrantProtection, GrantType,
              GrantSimple, GrantRein, GrantPassive, GrantTransfer
<1>2. CASE \/ ServerConnects \/ TransferDone \/ TransferAborted \/ GrantAbor \/ IdleTimeout
           \/ Crash
  BY <1>2 DEF ServerConnects, TransferDone, TransferAborted, Result, GrantAbor, IdleTimeout, Crash
<1> QED
  BY <1>1, <1>2 DEF ServerStep, ServerFault

--------------------------------------------------------------------------------
(* The result of get.                                                      *)

LEMMA WholeNext ==
  ASSUME TypeOK, TypeOK', Plain, AppState, Dialog, Whole, [AppNext]_all
  PROVE  Whole'
<1>1. transfer_cb' # "cancelled"
  BY NeverCancels DEF Whole
<1>2. ASSUME handling' = "get", upset' = {} PROVE Fetching'
  <2>1. CASE CommandStep \/ Catch
    BY <1>2, <2>1, OnlyGetFetches, WholeGet
  <2>2. ASSUME Next, ~Reconnects, handling = "get"
        PROVE  Gone /\ InStep /\ Fetching
    <3>1. upset = {}
      BY <1>2, <2>2, UpsetStays
    <3> QED
      BY <2>2, <3>1 DEF Dialog, InStep, Whole
  <2>3. CASE Run \/ Mishap
    <3>1. /\ ClientStep \/ AcceptFails \/ TransferFails
          /\ Handle /\ pc # "idle" /\ UNCHANGED delivered
      BY <2>3 DEF Run, Mishap, Handle
    <3>2. pc' # "idle" /\ handling = "get"
      BY <1>2, <3>1 DEF Handle, Returned, Threw
    <3>3. ~Reconnects
      BY <3>1 DEF Reconnects, connect, connect_interrupted, NewConnection
    <3>4. Next
      BY <3>1 DEF Next, Misfortune
    <3> QED
      BY <2>2, <3>1, <3>2, <3>3, <3>4, FetchClient DEF Whole, Plain
  <2>4. CASE Serve(ServerStep) \/ Serve(ServerFault)
    <3>1. /\ ServerStep \/ ServerFault
          /\ delivered' = (IF TransferDone /\ handling = "get" THEN TRUE ELSE delivered)
          /\ handling = "get"
      BY <1>2, <2>4 DEF Serve
    <3>2. upset = {}
      BY <1>2, <3>1, ServerUpsets
    <3>3. Gone /\ InStep /\ Fetching
      BY <3>1, <3>2 DEF Dialog, InStep, Whole
    <3> QED
      BY <1>2, <3>1, <3>3, FetchServer
  <2>5. CASE UNCHANGED all
    <3>1. UNCHANGED <<pc, replies, commands, transfer, inbound, delivered, handling, upset>>
      BY <2>5 DEF all, vars, app
    <3>2. Fetching
      BY <1>2, <3>1 DEF Whole
    <3> QED
      BY <3>1, <3>2 DEF Fetching
  <2> QED
    BY <2>1, <2>3, <2>4, <2>5 DEF AppNext
<1> QED
  BY <1>1, <1>2 DEF Whole

\* `get' keeps the file if and only if the server has sent it to its end, as
\* long as the dialog is in step: the replies that download_file returns are
\* positive in these cases and no other.
THEOREM KeptIsWholeCorrect == AppSpec => KeptIsWhole
<1>1. AppInit => AppState
  BY DEF AppInit, AppState
<1>2. TypeOK /\ TypeOK' /\ Session /\ AppState /\ Dialog /\ Whole /\ [AppNext]_all =>
        [handling = "get" /\ handling' = "prompt" /\ upset = {}
         => (local_file' = "kept" <=> delivered)]_all
  <2> SUFFICES ASSUME TypeOK, TypeOK', Session, AppState, Dialog, Whole, AppNext,
                      handling = "get", handling' = "prompt", upset = {}
               PROVE  local_file' = "kept" <=> delivered
    OBVIOUS
  <2>1. Run \/ Mishap
    BY DEF AppNext, CommandStep, Catch, Serve, open, open_login, user, ls, put, get, one_command,
           binary_ascii, logout_rename, close, Call, active_passive, app, exit, end_of_input, take_file
  <2>2. /\ ClientStep \/ AcceptFails \/ TransferFails
        /\ Handle /\ UNCHANGED delivered
    BY <2>1 DEF Run, Mishap, Handle
  <2>3. pc' = "idle" /\ Returned
    BY <2>2 DEF Handle, Threw
  <2>4. Positive <=> delivered
    BY <2>2, <2>3, FetchClient DEF Session, Plain, Dialog, InStep, Whole, Returned
  <2> QED
    BY <2>3, <2>4 DEF Returned
<1>3. Session => Plain
  BY DEF Session
<1> QED
  BY <1>1, <1>2, <1>3, WholeInit, WholeNext, SessionInit, SessionStep, AppStateNext, SessionIsAClient,
     TypeCorrect, DialogCorrect, PTL
     DEF AppSpec, KeptIsWhole
================================================================================
