# libftp in TLA+

A verification development of libftp, a blocking FTP/FTPS client library in
C++ on Boost.Asio. It models the client's dialog with a server, the reading of
replies from the control connection, the movement of data over the data
connection and its socket, the observers, and the command line application; checks
them with TLC on small instances, and proves the safety properties of all of them, and that each detailed
specification implements its abstract one, with TLAPS for every value of the constants.

`PROJECT.json` lists, for each definition, the lines of the source it stands
for, and for each property a mutant of the code that breaks it.

## 1. Inventory

| part | source | state | operations | interacts with |
|---|---|---|---|---|
| client | `src/client.cpp` | transfer mode and type, `rfc2428_support_`, `ssl_context_`, observers | connect, login, logout, 20 one-command operations, rename, transfers, disconnect, setters | sends commands and receives replies over the control connection; creates a data connection per transfer; calls the observers |
| reply, replies | `src/reply.cpp`, `src/replies.cpp` | a code; the conjunction of the codes so far | classification, append | what every operation returns |
| control connection | `src/control_connection.cpp`, `detail/socket_base.hpp` | `buffer_`, the socket, whether it is an ssl_socket | connect, send, recv, read_line, set_ssl, handshake, shutdown, disconnect | blocks in the socket; closes itself on a 421 |
| data connection | `src/data_connection.cpp` | a socket, an acceptor | connect, listen, accept, handshake, send, recv, disconnect | moves blocks between the socket and a stream; calls `transfer_callback` |
| transfer streams | `src/ascii_*`, `src/binary_*`, `src/*_adapter.cpp` | converter state kept between blocks | read, write, flush | the user's streams, which may throw |
| reply parsers | `src/utils.cpp`, `src/file_*_reply.cpp`, `try_parse_*` in the client | none | numbers, PASV/EPSV addresses, sizes, dates | the client |
| observers | `observer.hpp`, `notify_*` in the client | a list of callbacks | add, remove; on_connected, on_request, on_reply, on_file_list | called from within operations; may call the client again, change the list, throw |
| sockets, TLS | `src/socket.cpp`, `src/ssl_socket.cpp`, `src/ssl.cpp`, `src/net_*.cpp` | Boost.Asio and OpenSSL objects | connect, read, write, handshake, ssl_shutdown, shutdown, close | both connections |
| command line application | `app/cmdline/src` | one client, the local file of a get | the commands of a session; disconnects when the library throws | the client |
| test server, examples | `test/server`, `example` | | | vendored; straight-line uses |

What is hard here:

* **A dialog without numbers.** A reply does not say which command it answers.
  The client counts: each `recv()` must get the answer to the latest `send()`.
  One reply too many or too few, by any path out of any operation, and every
  later operation reads its predecessor's answer. Two-reply commands
  (transfers, ABOR, a 120 greeting), early returns, exceptions and unsolicited
  421s all put this at risk.
* **Two ends of every setting.** TLS on the control connection, protection of
  the data connection and the transfer type are state of both ends, switched
  by commands that may be refused, reset by REIN and by a new connection.
* **Failure half way.** Every blocking call may throw: the server may hang up,
  crash or time the client out between any two steps.
* **Blocking.** Everything blocks, without timeouts.
* **An end that means something.** On the data connection the end of the stream is the end of the file.
  Whether it was meant to be depends on who closed, when, and whether TLS says so.
* **User code in the middle.** Streams, the transfer callback and observers run inside operations:
  they may throw, change their minds, change the list they are called from, or call the client again.
* **Boundaries.** Reads cut lines and replies anywhere; blocks cut CR LF
  anywhere; the line buffer has a limit.

What makes each part correct: the client keeps the dialog in step, agrees
with the server about the settings, and returns from every operation; the
control connection returns each reply once, whole and in order; the data
connection delivers the converted data as a prefix, all of it when the client
believes so, keeps its callback's protocol, and ends in a way that tells the server
whether it was complete; an observer is told of each event once; a parser accepts what the RFC
writes and nothing it cannot represent; the application can always get back to
a fresh connection.

`PROJECT.json`'s hazards give these points one by one, at their lines.

## 2. Plan

Written so far, in this order:

1. `Replies`: the codes the client tells apart, their classification, the accumulator.
2. `FtpClient`: every operation of the client against an external server, with whole
   replies. Proofs in `FtpClient_proofs`.
3. `ReplyChannel` (abstract) and `ControlConnection` (detailed): the channel of replies that
   `FtpClient` takes for granted, implemented by lines, buffer and socket. Proofs in `ControlConnection_proofs`.
4. `DataTransfer` (abstract): what one transfer promises. Implemented by
   `DataConnection`, the loops, streams and callback, which `FtpClient` has as one step from "transfer" to
   "transferred", and by `DataSocket`, the socket from its opening to its end, plain or TLS, with the server at its
   other end and the ABOR beside it. Proofs in `DataConnection_proofs` and `DataSocket_proofs`.
5. `CommandHandler`: the session of the command line application, composed with `FtpClient`. Proofs in
   `CommandHandler_proofs`.
6. `Parsers`: number parsing with its overflow checks, the addresses of PASV, EPSV, PORT and EPRT,
   sizes, dates and listings, and the application's command line, as operators against reference definitions.
   Proofs in `Parsers_proofs`.
7. `Observers`: what observers see, in which order, and a list that changes meanwhile. Proofs in `Observers_proofs`.
8. `SequenceLemmas`: what the proofs need to know of sequences, folds and recursion.

Every invariant and every action property that a passing run checks is stated by a theorem. What is left to TLC is
liveness. To come, if the code asks for it: `ssl_socket` beyond what its calls return, and the two hazards without a property.

## 3. The modules

### FtpClient

The client is one thread of blocking calls. `pc` is the call it is blocked in: `"idle"` when
the user's code runs, the name of a command while it waits for that command's reply,
`"final"`/`"aborted"` for the second reply of a transfer/an ABOR, and the calls of the data
connection. An action is what the client does from one blocking call to the next, so
`RecvUser`, for instance, is the rest of `process_login` from the reply to USER up to the next
`recv()`, or to the return. The four places that wait for the answer to a TLS close_notify are calls of their own
(`Shutdowns`): in `logout`, in closing the control connection (after a 421, and in `disconnect`), in ending a transfer, and after
an ABOR. In each of them `ssl_shutdown` may fail; on the control connection a failure closes nothing, so that
the operation throws with the socket open and still an ssl_socket. `op` tells which public operation is running, and so where a login
inside `connect` differs from `login`; between operations it tells whether the latest one returned
(`"none"`) or threw (`"thrown"`). An exception (`Throw`, `Abandon`) unwinds to `"idle"` and
destroys the local data connection. `Throw` is used where no reply is outstanding, `Abandon` where
one is.

The twenty operations that send one command and return its reply are one action, `Simple`: they
differ in the text of the command only. The four kinds of transfer share
`create_data_connection`; upload and append differ in the command only. Text is left out; a reply
is its code (one representative of each class the client tells apart) and, as history, the
command it answers. Of the observers, `FtpClient` has that they may throw: in `on_request` before a command
is sent, which is no more than an operation cut short between two commands; in `on_connected`
(`connect_interrupted`), and in `on_reply`, after the reply has been consumed and before the client has looked at it
(`ObserverThrows`, `ObserverThrows421`). What else they may do is in `Observers`.

`inbound` is the reply channel: what the server sent and `recv()` has not returned. Its first
`buffered` members are already in `buffer_`: closing the socket loses the others and keeps these.
`torn` says that the connection has ended within one more reply, of several lines: `recv()` then reads empty lines for ever, and
what it has read stays in `buffer_` for the next connection. `ReplyChannel` is the promise it rests on.

The server is external. It reads one command at a time (ABOR also during a transfer) and answers
as RFC 959, 2228 and 4217 let it: grants, refuses with a 4xx or 5xx, retires with 421. It answers a
transfer twice, an ABOR with 226 or 225, or with 426 and 226. It may send a 120 before a 220. Unasked,
it may time the client out with a 421 or disappear with or without what was in flight, and with the beginning of a reply.
TLS is switched at its end by steps of its own: `server_tls` is `"starting"` from the grant of AUTH until `StartTls`, and `"ending"` from the
client's close_notify until `EndTls`; it may also refuse a handshake and go on in plain. Meanwhile it says nothing.

`upset` is history: the named ways in which the dialog gets out of step. Outside of them the
properties hold without exception, and each of them is something the code does:

| upset | what happened | shown by |
|---|---|---|
| `abandoned` | an exception while a reply is outstanding (stream, callback, accept, data TLS) skips the `recv` | `Abandon` |
| `abort_race` | ABOR and the transfer's own result cross | run `abort_is_answered` |
| `abort_refused` | ABOR is refused while the transfer runs on | `Refuse` |
| `delayed` | a 120 is followed by a second reply nobody waits for | run `greeting_is_awaited` |
| `stale` | `connect` finds replies of the former connection, or a torn one, in `buffer_` | run `greeting_is_fresh` |
| `unheeded` | an observer throws on a granted AUTH, REIN or TYPE, on a 150, or on a 426 that another reply follows: the client never acts on it | `ObserverThrows` |
| `tls_left` | a connection was closed and its ssl_socket left for the next: a 421 does that, and `disconnect` when it throws | `CloseShutdown`, `connect` |

`ready` is history too: the latest login's replies were all positive.

### ReplyChannel and ControlConnection

`ReplyChannel` states what `FtpClient` assumes of `control_connection::recv`: the server's replies,
whole, once, in order; a failure when the connection has ended; nothing ever again after an
overlong line, not even on a new connection, since `buffer_` stays full; nothing promised
once the channel is not `clean`.

`ControlConnection` has the buffer, `match_eol`, `read_line` and the loop for multi-line replies.
A token stands for a status code with the character after it, other text, CR or LF: what the
code tells apart. One action is one `read_some` (any amount of what has arrived, up to the
limit) or one line taken. `clean` becomes false in two cases only: `recv()` has
returned at a CR whose LF had not been read, or `connect` found bytes in the buffer. A CR LF cut in
two *within* a multi-line reply is harmless, which the refinement shows.

What is assumed of the server is `WellFormed`: a reply ends with LF, and has one line, or begins with a code and a
hyphen and ends with the only line that begins with that code and a space. `match_eol` ends a line at a CR alone as well, and so does the
assumption: within a reply of several lines such a CR does no harm, but in a reply of one line the client would read what
follows as another reply.

The refinement mapping decodes `status_string`, `buffer_` and the bytes on the wire, in this order (`Unread`),
into the replies that have not been returned (`Sent`): `Decode` takes off one reply after another that is there as a whole. A lost
connection that cuts a reply after the CR of its last line still delivers it.

### DataConnection

`data_connection::send` and `recv`, with the stream in between and the `transfer_callback`, from the
start of the loop to the question `is_cancelled()` in `process_download`/`process_upload`. The ASCII input
stream is modelled step by step, since it calls the user's stream from within its loop; the ASCII
output stream's `write` is a fold over the block. Reads return any number of bytes, up to the block.
References for the conversion, `ToNetwork` and `FromNetwork`, look at positions of the whole
text and know nothing of blocks. `is_cancelled()` may become true at any moment (`Cancel`), and false again
(`Relent`); `cut` records that the loop ended because of it.

### DataTransfer and DataSocket

`DataTransfer` says what a transfer comes to: data move, in order and never more than there are; the client takes it
for complete, or aborts it, when all has been moved or a callback has broken it off; or it throws.
`DataConnection` implements it with `moved` the characters delivered, `DataSocket` with blocks.

`DataSocket` counts blocks and has what `DataConnection` leaves out: the socket. `pc` is the place in
`process_*_command`, the loops, `process_abort` and `disconnect`. `link` is what the server has of the connection: nothing, TCP, or
TLS. In active mode `accept()` waits until it has connected, and takes such a connection also when the server has closed it since; the data
handshake waits for its part, which only a server that was told PROT P (`protects`) does. Each direction of the connection is a
number of blocks in flight and what follows them: a TLS close_notify or none, then nothing yet, the end of the TCP stream, or a
reset. `Hangs` is the client's end being closed, by `disconnect` or by the destructor of `data_connection` when an
exception passes (`Thrown`): unread data then turn the end into a reset. `EndOfData`, `SocketFails` and
`SslShutdown` are what `read_some`, `write` and `shutdown` of a `socket` or an `ssl_socket` return in each of these
situations. `Close` may throw over either: `disconnect` forgives `not_connected` only. The control connection is there only as far as ABOR (`abor`): the rest of the dialog is `FtpClient`'s.

The server is external: it connects and secures the connection, or not; it writes or reads blocks, ends a download with its file, takes the end of an upload's stream for the
end of the file (in TLS, the close_notify), gives up and says so in its result, dies, aborts, and closes properly
or not. `heeds` is whether it looks at its control connection during a transfer. The network may lose the
connection. `verdict` is what the server believes of the transfer.

### Observers

The list has nodes (`Entry`), since an observer may be added twice and `remove_observer` takes all of its nodes. A call of
the client is a frame of `stack`: the event it has come to, what it is doing (in a callback, about to send, in `recv`, or between
events), the node its loop is at, and as history who is to be told and who has been. A callback is the user's code: it adds,
removes, calls the client again (`Connect`, `Operation`: another frame), returns or throws. `answers` is the server's debt: the
frames whose replies are to come, in order, whoever reads them. `Connect` closes the connection there is, but what of these replies
was received into `buffer_` stays to be read first. An operation is any number of requests, one of them perhaps with a 1xx; `Abort` is
`process_abort`, whose request is announced and sent with the transfer's result still owed, and which reads a second reply after a
426. `strayed` records that a reply may be read by a call that is not its own: the client was called, or an exception thrown, while a
reply was owed, an ABOR was answered without a 426, or a greeting with a 120. An observer removed while a loop is at its node leaves that loop's iterator `dangling`:
undefined behaviour, and the model ends there.

### CommandHandler

The application around one default `ftp::client`: an action per command up to its call of the client,
conjoined with `FtpClient`'s own action for that call; then `FtpClient`'s steps (`Run`, `Mishap`,
`Serve`), and in the step in which the operation ends, what the handler does with its outcome. `handling`
is what the application is doing: `"open"` asks for a name and a password after a positive greeting,
`"get"` judges the file by the replies, `"catch"` is the handler of `ftp_exception` in
`command_handler::handle`, which disconnects before the exception reaches the prompt, and `"exit"`
leaves whatever happens. `local_file` is the file a `get` would write: absent, created by a `get` that has not
ended well, or kept. The application's callback never cancels, so `Cancel` is not among its steps. A command
that fails a check of its own handler is printed and changes nothing; it is left out, and so are
`help`, `mode` and `type`.

### Parsers

Pure functions, each applied by one action to one input; a loop of the code is a recursive function over the characters, with one
operator for what it does with one of them (`Absorb`, `Split`). A character that a parser tells apart is a
number, a digit is itself. Types of 8 and 16 bits have their size; those of 32 and 64 bits are
scaled to 18 and 20, because TLC counts in 32 bits: the code uses their widths as limits only.
The application's command line is read by one more such function (`Extract`), which does what `operator>>` of a string and of
`std::quoted` do; which names are commands is a constant, as only their being words matters.
The inputs come with what their author means, and `MCParsers` builds them: numbers around each limit, with zeros or other
characters before or after them, addresses at the limits with text around them, malformed
ones, dates with and without fractions, listings with either line end, command lines with operands in quotes and without, some
of them with a quote that is never closed.

What an input of each kind is, and what its author means by it, is not left to `MCParsers`: named assumptions say it in terms
of the form that the code's comments, or the RFC, give, without the parser, and without bounds. TLC evaluates them on
every input of the run, the proofs use them for all.

| assumption | what it says of the inputs |
|---|---|
| `ParsersAssumption` | all but an endpoint are texts of characters |
| `WidthsAssumption` | a `uint8_t` holds two digits; a `uint16_t` is two of them |
| `AnswersAssumption` | PASV: somewhere the decimals of the fields, as many and as large as they are, with commas, in parentheses (`IsPasvAnswer`); SIZE: the digits after 213 (`IsSizeAnswer`). An answer to EPSV or MDTM may be any text |
| `ListingAssumption` | the names, with a line end after each, which the last one may lack (`IsListing`) |
| `EndpointsAssumption` | a port of 16 bits, an IPv4 address of four octets for PORT, an address without a bar for EPRT |
| `LinesAssumption` | blanks, a word, then operands, each after blanks, and in quotes or plain (`IsTyped`), and at the end blanks or an operand whose quote is never closed (`IsRest`); or a line whose first word is no command (`IsLine`) |

What an answer to EPSV or MDTM means is read off the text by the forms that the comments give, without the parser: `IsEpsvAnswer`
(four times one delimiter around digits, between parentheses), `IsTimeVal` (fourteen digits, and perhaps a dot and digits), `TimeMeant`
and `InRange`. `OnlyAt` says that there are no other parentheses, which the comments do not promise (see 6).

A PASV answer with something else than decimals between its parentheses is not among the inputs, nor is an operand with a
quote within or right after it, such as `"a"b`: no document says what they mean. `EndpointsAssumption` leaves out an IPv6 address with
PORT, which happens when RFC 2428 support is switched off on an IPv6 connection: `make_port_command` does not guard against it, and
what it would send is no argument of PORT at all.

## 4. The runs

| run | module, cfg | states | what it shows |
|---|---|---|---|
| `client_dialog` | `MCFtpClient` | 601 k | `TypeOK`, `Dialog`, `QuietWhenIdle`, `TlsAgreement`, `SettingsAgree`, `RepliesMatch`, `OperationReturns` |
| `reply_lines` | `MCControlConnection` | 41 k | `ImplementsChannel`, `RecvReturns`, `TypeOK` |
| `transfer_data` | `MCDataConnection` | 502 k | `DataArrives`, `CallbackProtocol`, `CancelledSoon`, `ImplementsTransfer`, `TransferLeaves`, `TypeOK` |
| `data_socket` | `DataSocket`, `MCDataSocket.cfg` | 48 k | `UploadIsWhole`, `DownloadIsWhole`, `ImplementsTransfer`, `TransferEnds`, `TypeOK` |
| `session` | `MCCommandHandler` | 53 k | `PromptIsQuiet`, `KeptIsWhole`, `PromptComesBack`, `AppTypeOK` |
| `observers` | `MCObservers` | 726 k | `EachIsTold`, `CallbacksKeepStep`, `TypeOK` |
| `parsers` | `MCParsers` | 9 k | `NumberIsExact`, `AnswersAreRead`, `CommandsNameTheListener`, `TimeIsRead`, `ListingIsLines`, `WordsAreRead`, `FileIsWrittenHere`, `ResultsFit` |
| `abort_is_answered` | `MCAbortIsAnswered.cfg` | violated | see 6 |
| `greeting_is_fresh` | `MCGreetingIsFresh.cfg` | violated | see 6 |
| `greeting_is_awaited` | `MCGreetingIsAwaited.cfg` | violated | see 6 |
| `crlf_ends_one_line` | `MCCrlf.cfg` | violated | see 6 |
| `failed_get_leaves_no_file` | `MCFailedGet.cfg` | violated | see 6 |

* `Dialog`: in each blocking call exactly what that call waits for is outstanding: the command or its
  answer, both replies of a transfer, one or two for an ABOR, or nothing because the server is gone.
* `QuietWhenIdle`: when an operation has ended, however it ended, nothing is outstanding.
* `RepliesMatch`: `recv()` consumes the answer to the command just sent, the 426 of the transfer an
  ABOR ended, or an unsolicited 421.
* `TlsAgreement`: between operations both ends speak TLS, or neither does, unless the latest operation threw: after a failing
  `ssl_shutdown` the client may hold an ssl_socket on a connection that goes on in plain. No operation *returns* so.
* `SettingsAgree`: after a login that went through, type and protection agree at both ends.
* `OperationReturns`: every call comes back, but for the waits of `WaitsForEver`, which the code has: the loop at the end of file within a
  multi-line reply; `accept()` when the server has given up connecting; ABOR when the server does not look at its control
  connection; the server's part of a TLS handshake, or of a shutdown, on the control connection; its end of the data connection; and
  the handshake of an upload on a data connection that it does not protect. What the property then says is that there are no others, and that
  none of these keeps a client from returning when the server does its part.
* `ImplementsChannel`, `RecvReturns`: as above; `RecvReturns` excepts the endless loop at the end of file
  within a multi-line reply, which is `torn` in `FtpClient`.
* `DataArrives`: what was delivered is a prefix of the converted data, all of it when the client takes
  the transfer for complete and no callback has cut it. `ImplementsTransfer`: the loops do what `DataTransfer` says. `CallbackProtocol`: begin, notify with the right counts, end.
  `CancelledSoon`: at most the block in hand is moved after a cancellation. `TransferLeaves`: no
  conversion goes on for ever.
* `UploadIsWhole`: a server that believes an upload complete has all of it, but when a callback took its cancellation back, or
  an exception closed a connection that the server takes for plain, which looks like the end of the file. `DownloadIsWhole`: a download that goes on to the
  result is whole, but when the server says otherwise in that result, or has died over a plain connection.
  `TransferEnds`: nothing waits for ever but an ABOR that a server does not look at (`Deaf`), `accept()` when the server has given up
  connecting (`Uncalled`), and the handshake of an upload with a server that was not told PROT P (`Misread`). `ImplementsTransfer`: an
  end of file, and no error, follows all that the sender gave, so that each transfer is one of `DataTransfer`.
* `EachIsTold`: who is listed when an event happens, or is added meanwhile, is told once, unless removed
  before. `CallbacksKeepStep`: since a request is announced before it is sent and a reply after it was received, calls
  and exceptions in callbacks keep the dialog in step, but while a reply is owed: in `on_connected`, in the `on_reply` of a 1xx or a 426, in
  `on_file_list`, in ABOR's `on_request`. Two more things put it out of step, without any callback: an ABOR that crosses the result of its
  transfer, and a greeting with a 120. A reconnect mends all of these, unless a reply was left in `buffer_`.
* `PromptIsQuiet`: when the prompt is back on an open connection, nothing is outstanding, also after an
  exception that abandoned a reply: `handle` has closed that connection. `KeptIsWhole`: a `get` that returns keeps
  the file if and only if the server had sent it to its end. `PromptComesBack`: no command hangs, but in `WaitsForEver`.
* `NumberIsExact`: accepted if and only if it is a number that fits, and then it is that number. `AnswersAreRead`: an address in its form is
  understood, in any words without parentheses, and no port comes from elsewhere than digits in parentheses;
  `CommandsNameTheListener`: it survives the way from the client to the server. `TimeIsRead`: a time-val in its ranges is understood, and whatever
  is understood is digits from the right places. `ListingIsLines`: the names are those that were sent. `WordsAreRead`: so are the words the user typed, whatever is in them.
  `FileIsWrittenHere`: a `get` or `put` with one operand writes the file of the same name without directories.

**Bounds.** `MaxBacklog = 0`: once the dialog is out of step the user only connects, disconnects without QUIT
and changes settings (in `session`, with `MaxBacklog = 1`, also starts operations while nothing is
outstanding); in step there is no bound: operations, reconnects
and failures follow each other without limit, and the state space is finite because a dialog in step has
at most three replies and one command in flight. So the run covers every sequence of operations. The
violations need no more. `reply_lines`: a buffer of four tokens, so that lines fit exactly, are one too
long and far too long, two short lines fit in one read, and ten unread tokens: three short
replies, or the longest one and another. On a connection that is not clean the server writes no more, since
nothing is promised there. `transfer_data`: blocks of two and internal buffers of three characters against texts of up
to five, so that each line end falls on each side of both boundaries, in every phase to each other.
`data_socket`: up to three blocks over a window of two, so that the sender may be blocked, done, or ahead of the
reader when anything happens; everything holds with a window of one and of three as well. `observers`: two observers, two
nodes each, calls nested twice and three outstanding replies, so that a nested call may find one from before a reconnect and two of its caller.

**Deadlock** is not checked: a user need not call anything, a transfer ends, and the `accept()` without
timeout and the waiting TLS ends are real; `OperationReturns` is the sharper statement.

**Fairness.** `FtpClient`: weak fairness of the client's thread, and of the server's steps where it is `Obliged`: a
thread that can go on does, and a server that is up answers. It is not obliged to look at its control connection during a
transfer, to do its part in a TLS handshake or shutdown, to end its TLS on a data connection while its transfer goes on, or to give
up an upload that the client does not end. Users, cancellation, failures and
crashes have none. A `Misfortune`, such as a failing accept, need not come to the rescue.
`ControlConnection` and `DataConnection`: weak fairness of the thread inside the call. `DataSocket`: of
the client's thread, and of the server, which transfers what it has, answers an ABOR it looks at, and gives up a file it cannot
send to its end; an upload it need not give up; cancellations, exceptions and losses have none. `Observers` has safety only: a callback need not return. `CommandHandler`: of
the client's steps, of the handler of exceptions, and of the server as in `FtpClient`; the user has none.

## 5. Proofs

For every value of the constants that satisfies the assumption named in the component's module, and for behaviours of any
length:

| module | theorems |
|---|---|
| `FtpClient_proofs` | `TypeCorrect`, `DialogCorrect`, `QuietWhenIdleCorrect`, `RepliesMatchCorrect`, `TlsAgreementCorrect`, `SettingsAgreeCorrect` |
| `ControlConnection_proofs` | `TypeCorrect`, `ChannelImplemented` |
| `DataConnection_proofs` | `TypeCorrect`, `CallsFollowTheData`, `CancelledInOneBlock`, `DataArriveWhole`, `TransferImplemented` |
| `DataSocket_proofs` | `SocketTypeCorrect`, `UploadIsWholeCorrect`, `DownloadIsWholeCorrect`, `SocketIsTransfer` |
| `CommandHandler_proofs` | `AppTypeCorrect`, `SessionIsAClient`, `PromptIsQuietCorrect`, `KeptIsWholeCorrect` |
| `Observers_proofs` | `TypeCorrect`, `LoopsTell`, `OperationsReadTheirReplies` |
| `Parsers_proofs` | `FitCorrect`, `NumberCorrect`, `ListingCorrect`, `AnswersCorrect`, `CommandsCorrect`, `TimeCorrect`, `WordsCorrect`, `FileCorrect` |

**The dialog.** `TypeCorrect` of the client is not only a matter of types: `buffered <= Len(inbound)` needs
every action that closes, reads, or loses replies to keep the two in line. "Nothing is outstanding between operations"
is not inductive: what an operation leaves depends on what was outstanding in each of its blocking calls. `Dialog` is the
strengthening: for every value of `pc` it says what may be in `commands` and `inbound` and whether a transfer runs. Two more
parts are needed: `Gone`, that a server that is gone has no command and no transfer (so that a lost reply is not followed by a
late one), and `Secured`, that both ends agree on TLS within an operation, but in the calls that begin or end it, `TlsCalls` (so that
`RecvFails`, which consumes nothing, is only possible when nothing will come). The calls in which nothing may be outstanding are `Pauses`. The proof that a step preserves `Dialog` has a lemma per
action. `RepliesMatch` is an action property: it follows from `Dialog` in the state before, by cases over `pc`.

`SettingsAgree` speaks of the time between operations, and the settings change in the middle of them, at the server first.
`Settled` says how far they may differ meanwhile: by the command whose grant is on its way (`Protected`, `Typed`),
and in which calls a login can be at all (`LoginStages`).

**Replies out of bytes.** `ChannelImplemented` is the refinement `Spec => ImplementsChannel`. Its inductive invariant, `Reading`, says that
what is unread is a prefix of replies that follow one another, all of it while the server is there; that `status_string` holds
the first lines of the first of them, but not its last; or that the connection ended within a line and no reply will come of
what is left. `Streams` are the sequences of replies: the least set that has the empty one and, with each, a longer one. The heart of the proof is that
no reply begins another (`SameReply`), so that a stream decodes in one way (`DecodeReply`), a longer stream to more replies
(`DecodeGrow`) and the beginning of one to the first of them (`DecodeBegin`), and that a line which `read_line` takes ends where
a line of the reply does, or between its CR and LF (`LineIn`). The middle lines are where it could go wrong: an LF that was
left behind is a line of its own there, and must not be taken for the last one.

**The data.** `DataArriveWhole` compares what was delivered with the whole text converted at once. `DataInv` says for each
kind of transfer where in the text the loop is: what is in the source, in `internal_`, in the block and delivered are consecutive parts
of the text or of its conversion, with a line feed that is due (`need_linefeed_`) or a CR that is held back (`prev_cr_`) between
them. `WriteLoop` relates the fold of `ascii_ostream::write` to that. `CallsInv` is to `CallbackProtocol` what `DataInv` is to the data: the bytes that `notify` has
counted and has yet to count are those that moved. `TransferImplemented` adds `FitsInv`, and maps each step to one of `DataTransfer`.

**The socket.** `UploadIsWhole` and `DownloadIsWhole` compare two ends of a connection, and are not inductive: between them are the data in
flight. `IInv` of `DataSocket_proofs` adds `Counts` (what one end has handled, plus what is in flight, is
what the other end has given, unless the connection was lost), `Links` (what the server has of the connection in each place of the client), `Ends` (who has ended a stream has finished, and the client's close_notify comes from `disconnect`),
`Places` (what is known in each place of the client) and `Founded` (a completed transfer has moved all or was cut; what each verdict of
the server rests on). The refinement follows from `Counts` and `Founded`: the step that
sees the end of the data is `Complete` or `Abort` of `DataTransfer` because nothing is in flight and the sender has given all.

**The application.** `SessionIsAClient == AppSpec => Spec`: what holds of the client holds in every session. `PromptIsQuiet` needs
`Session`, the conjunction of three facts: `Plain` (the client never has TLS, from
`DefaultClientAssumption`, so that `disconnect(false)` waits for nothing and closes), `Busy` (an operation runs only
while a command that called it is being handled) and `Cured` (a dialog abandoned by an exception is at the handler of exceptions, or its
connection is closed). With these, `QuietWhenIdle` of the client gives `PromptIsQuiet`. `KeptIsWhole` needs `Fetching`: in each call of
a `get`, what the replies so far say, and what the replies in flight say of the file.

**The observers.** `IInv` of `Observers_proofs` is about one loop against a list that callbacks change: who is owed to be told is who was told, and
who stands after the loop's node (`LoopOk`, `TurnOk`). Removing a node keeps the order of the others (`Kept`). For `CallbacksKeepStep`, `StepInv` says that until something strays the
replies owed are those of the innermost call, as many as its stage has to come, two while an ABOR is under way.

**The parsers.** The invariant, `Heard`, only says that a result is what the function returns for the text; the theorems are about
the functions. `NumberCorrect` compares two ways to read a number: the code's, digit by digit with two tests for overflow
(`AbsorbType`: together they refuse exactly a sum above `Max64`, and nothing is ever reduced), and `Meaning`, place by
place with powers of ten. Between them stands `Digits10`, the digit loop without tests: `MeaningIs` relates it to the powers,
`ReadsNumber` to the tests. `ListingCorrect` says that `split_string` and the removal of the CR undo what a
server does to write a listing: `OneLine` says what the loop makes of one line that stands anywhere in a text, `Listed` is the induction over the lines.

`AnswersCorrect` and `CommandsCorrect` need that decimals come back: `to_string` recurs on quotients and `Meaning` on places, and
`DecimalRead` has that they undo each other (`MeaningAppend` is one digit more). `SeparatedSplit` says that `split_string` undoes joining parts by a
character that none of them has, `OnlyOnes` and `InsideIs` that the two searches for the parentheses find the only ones there are.
A port is its two halves (`HalvesAre`, `PortOfBytes`), where `WidthsAssumption` is used. The two makers put their text together in another grouping
than a join of six or four parts; `PortWritten` and `EprtGrouped` say that it is the same text. `TimeCorrect` goes
from slices of the answer's text after its code to places in the whole text (`ValuePart`), in which each slice of the fourteen digits is a number
(`DigitsWithin`), and from the ranges to the types of the fields (`RangeFits`).

`WordsCorrect` is about a scanner with four states. `Scanned` says what a piece of text does to it, from the state before the piece to the
state after it; `ScannedJoined` composes two pieces. Blanks, a plain word, an escaped text between quotes (by induction over it, `ScannedEscaped`)
and so an operand each have their lemma, and `AllScanned` is the induction over the operands; `RestGives` is what the end of the
line adds, which is nothing, as each quote in it is escaped after the first. `FileCorrect` goes through the text backwards, as the code does (`FileNamed`).

**Induction.** The library's induction theorems have an operator as a parameter, and are of no use here. `SequenceLemmas` has first-order forms instead: `Induction` (a set
that has 0 and, with n, n + 1 is `Nat`; the set is defined by what is to be shown), `Recursion` and `Iteration` (steps that are functions have a
run). With them, that a recursive definition has a solution, and what a fold comes to, is proved for every input: `Flattened`, `WriteLoop`, `Kept`, `DecodeExists`,
`ReadLoop`, `SplitLoop`, `ScanLoop`, `DecimalExists`. They rest on the theorems of `NaturalsInduction` and `WellFoundedInduction` about sets.

**Only model-checked**: liveness (`OperationReturns`, `RecvReturns`, `TransferLeaves`,
`TransferEnds`, `PromptComesBack`), as the prover has no fairness. And of the parsers, that the inputs of `MCParsers` satisfy the named assumptions,
which is what shows that the theorems are about something.

## 6. What the runs found

* `abort_is_answered`: with a transfer that has just ended at the server, the client takes its 226 for the answer to
  ABOR and leaves ABOR's answer unread. From then on each operation gets the answer to the one before.
* `greeting_is_fresh`: `buffer_` outlives a connection. A 421 or the leftover of a failed transfer that
  was read together with an earlier reply is returned as the next connection's greeting.
* `greeting_is_awaited`: after a 120 the client sends its first command at once and takes the 220
  for its answer.
* `crlf_ends_one_line`: a read that ends between CR and LF makes the LF the first line of the next
  reply, and that `recv()` throws.
* `failed_get_leaves_no_file`: the application removes the file of a failed `get` only if `download_file` returned;
  when it throws, the file stays and the next `get` of it is refused.

Five disagreements of the parsers with the comments above them, found in stating what their answers mean. The forms of the
comments are the premises of `AnswersAreRead` and `TimeIsRead`, which therefore say nothing of the first and the third, and of the others only
that no number is read from elsewhere than its place. `MCParsers` has inputs of each kind.

* The text around an EPSV address is free (`client.cpp:746-748`, "<text indicating server is entering extended passive mode>"), but when it has
  parentheses, as in `229 (RFC 2428) (|||6446|)`, the port is looked for after the first `(`, and the transfer fails.
* `(,|.6446|)` is read as port 6446, though the text "MUST be" with one delimiter, `(<d><d><d><tcp-port><d>)` (`client.cpp:746-748`).
* A PASV answer with a field of 256 and more is accepted, and the port wraps around, though the address "is broken into 8-bit
  fields" (`client.cpp:896`) of "1 through 255" (`RFC959.txt:2703`).
* Any character is taken for the dot of a fraction, and a dot without digits is accepted, against
  `time-val = 14DIGIT [ "." 1*DIGIT ]` (`file_modified_time_reply.cpp:64`).
* The thirteenth month, and whatever two digits can write, is returned, against the ranges of `file_modified_time_reply.cpp:66-72`.

Also visible in the models, without a document that says otherwise: the loop without end in `recv()` at the end of file within
a multi-line reply; `buffer_` full for good after an overlong line; an ssl_socket left by a 421; a
client left connected when `ssl_shutdown` fails in `disconnect`, or with an ssl_socket on a connection that goes on in plain when
it fails in `logout`; the waits without end of `WaitsForEver`; the digits of a fraction returned without their place, `.014` as 14,
which the test of MDTM expects; an upload over a plain connection that a throwing
stream cuts short and the server takes for complete; an
observer that removes itself from within its callback; an operand whose quote is never closed, dropped without a word, and
backslashes lost from a quoted operand; a terminal left without echo when the input ends at the password prompt.

## 7. Not modelled, and why

* The text of commands and replies, but for what `Parsers` reads and writes: no decision depends on it.
* Boost.Asio and OpenSSL: what their calls return in each situation is modelled, what they do inside is not; nor are certificates, the
  reuse of TLS sessions and name resolution.
* What a loop over observers does once its iterator dangles: undefined.
* Errors of the control connection's plain socket while the server lives: a `send` that fails is not distinguished from a lost connection, and
  `shutdown` and `close` of an open TCP socket are taken to fail with `not_connected` only, which the code ignores. (On the data
  connection, where the result of a transfer is at stake, they may fail.) The errors of TLS are modelled, except that a `send` over it fails as over TCP.
* Of the command line application: commands that only print, and the terminal.
* A second thread using the same client: the library has no locks and does not allow it. `is_cancelled()` is the
  exception, and may change at any moment.
* Vendored test server, build files, examples: straight-line uses, or not of this repository.
