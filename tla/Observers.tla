------------------------------- MODULE Observers -------------------------------
(***************************************************************************)
(* The observers of ftp::client: notify_connected, notify_request,         *)
(* notify_reply and notify_file_list, each a loop over a std::list that    *)
(* calls user code, and the client's sends and receives around them.       *)
(*                                                                         *)
(* A callback is the user's code: it may add and remove observers, call    *)
(* the client again, and throw.  Each such call of the client is a frame   *)
(* of the stack, and waits in its callback for the frames above it.        *)
(***************************************************************************)
EXTENDS Naturals, Sequences, SequencesExt

CONSTANTS
    Observer,       \* the observers there are
    MaxCopies,      \* bound: entries of one observer, listed or told
    MaxDepth,       \* bound: calls of the client within one another
    MaxAnswers      \* bound: replies the server owes

ASSUME ObserverAssumption == {MaxCopies, MaxDepth, MaxAnswers} \subseteq Nat

\* The nodes of the list: an observer may be added more than once.
Entry == Observer \X (1 .. MaxCopies)
NoEntry == <<>>

VARIABLES
    observers_,
    stack,          \* the operations in progress, and what each is doing
    dangling,       \* a loop's iterator points to an entry that is no more
    answers,        \* the calls to which the server owes replies, by depth, in order
    strayed         \* history: an answer is, or may be, read by another call

vars == <<observers_, stack, dangling, answers, strayed>>

\* What observers are told of; "preliminary" is a 1xx reply and "aborted" a 426,
\* after which the server owes another one, "abort" the request ABOR.
Kinds == {"connected", "request", "preliminary", "file_list", "abort", "aborted", "reply"}

\* The event an operation has come to; the entry being told, and history: the
\* entries that are to be told and those that have been.
Frame == [kind : Kinds, doing : {"callback", "send", "recv", "next"},
          at : Entry \cup {NoEntry}, owed : SUBSET Entry, told : Seq(Entry)]

TypeOK ==
    /\ observers_ \in Seq(Entry) /\ stack \in Seq(Frame)
    /\ dangling \in BOOLEAN /\ strayed \in BOOLEAN
    /\ answers \in Seq(1 .. MaxDepth)
    /\ \A i \in 1 .. Len(stack) - 1 : stack[i].doing = "callback"
    /\ ~dangling => \A i \in DOMAIN stack :
           stack[i].at \in IF stack[i].doing = "callback" THEN Range(observers_) ELSE {NoEntry}

Init ==
    /\ observers_ = <<>> /\ stack = <<>> /\ answers = <<>>
    /\ dangling = FALSE /\ strayed = FALSE

depth == Len(stack)
top == Last(stack)
Doing(what) == ~dangling /\ stack # <<>> /\ top.doing = what

\* The user's code runs: between operations, or in a callback.
UserRuns == ~dangling /\ (stack # <<>> => top.doing = "callback")

\* The server still owes the operation a reply: the greeting, the result of
\* the transfer, or after a 426 the answer to ABOR.
Owed(frame) == frame.kind \in {"connected", "preliminary", "file_list", "abort", "aborted"}

--------------------------------------------------------------------------------
(* add_observer and remove_observer.                                       *)

Fresh(o) == {n \in {o} \X (1 .. MaxCopies) :
                /\ n \notin Range(observers_)
                /\ \A i \in DOMAIN stack : n \notin stack[i].owed \cup Range(stack[i].told)}

Owing(n) == [i \in DOMAIN stack |->
                IF stack[i].doing = "callback" THEN [stack[i] EXCEPT !.owed = @ \cup {n}]
                ELSE stack[i]]

\* A new entry comes first.
AddInFront(o) ==
    /\ UserRuns /\ Fresh(o) # {}
    /\ LET n == CHOOSE n \in Fresh(o) : TRUE
       IN  observers_' = <<n>> \o observers_ /\ stack' = Owing(n)
    /\ UNCHANGED <<dangling, answers, strayed>>

\* A new entry comes last, and every loop in progress will reach it.
add_observer(o) ==
    /\ UserRuns /\ Fresh(o) # {}
    /\ LET n == CHOOSE n \in Fresh(o) : TRUE
       IN  observers_' = Append(observers_, n) /\ stack' = Owing(n)
    /\ UNCHANGED <<dangling, answers, strayed>>

\* Only one of an observer's entries goes.
RemoveOne(o) ==
    /\ UserRuns
    /\ \E n \in Range(observers_) :
           /\ n[1] = o
           /\ observers_' = SelectSeq(observers_, LAMBDA other : other # n)
           /\ dangling' = \E i \in DOMAIN stack : stack[i].at = n
    /\ stack' = [i \in DOMAIN stack |->
                    [stack[i] EXCEPT !.owed = {n \in @ : n[1] = o => n \in Range(stack[i].told)}]]
    /\ UNCHANGED <<answers, strayed>>

\* list::remove: the others stay, in their order.
Without(entries, o) ==
    LET kept[i \in 0 .. Len(entries)] ==
            IF i = 0 THEN <<>>
            ELSE IF entries[i][1] = o THEN kept[i - 1]
            ELSE Append(kept[i - 1], entries[i])
    IN  kept[Len(entries)]

\* All the observer's entries go.  A loop's iterator to another entry stays
\* valid; one to a removed entry dangles, and what its loop does next is
\* undefined: the model ends there.
remove_observer(o) ==
    /\ UserRuns /\ \E n \in Range(observers_) : n[1] = o
    /\ observers_' = Without(observers_, o)
    /\ stack' = [i \in DOMAIN stack |->
                    [stack[i] EXCEPT !.owed = {n \in @ : n[1] = o => n \in Range(stack[i].told)}]]
    /\ dangling' = \E i \in DOMAIN stack : stack[i].at # NoEntry /\ stack[i].at[1] = o
    /\ UNCHANGED <<answers, strayed>>

--------------------------------------------------------------------------------
(* The notifications, and what the operation does after each.              *)

After(kind) ==
    CASE kind \in {"request", "abort"} -> "send"
      [] kind \in {"connected", "file_list", "aborted"} -> "recv"
      [] OTHER -> "next"

\* The first of the entries is told, or none is left.
TellNext(frame, entries) ==
    IF entries = <<>>
    THEN [frame EXCEPT !.doing = After(frame.kind), !.at = NoEntry]
    ELSE [frame EXCEPT !.doing = "callback", !.at = Head(entries),
                       !.told = Append(@, Head(entries))]

Notify(kind) ==
    TellNext([kind |-> kind, doing |-> "next", at |-> NoEntry,
              owed |-> Range(observers_), told |-> <<>>], observers_)

\* The operation goes on to its next event.
Happens(kind) == stack' = Append(Front(stack), Notify(kind))

CallbackReturns ==
    /\ Doing("callback")
    /\ LET i == CHOOSE i \in DOMAIN observers_ : observers_[i] = top.at
       IN  stack' = Append(Front(stack),
                           TellNext(top, SubSeq(observers_, i + 1, Len(observers_))))
    /\ UNCHANGED <<observers_, dangling, answers, strayed>>

--------------------------------------------------------------------------------
(* The operations: connect, which awaits a greeting, and those that send   *)
(* requests; client::send and client::recv.                                *)

\* connect() closes a connection there is.  Of what was owed there the client
\* may have received some into buffer_, which is kept: the greeting comes after.
Connect ==
    /\ UserRuns /\ depth < MaxDepth
    /\ \E received \in Prefixes(answers) :
           /\ Len(received) < MaxAnswers
           /\ answers' = Append(received, depth + 1)
           /\ strayed' = IF stack = <<>> THEN strayed /\ received # <<>>
                         ELSE strayed \/ Owed(top)
    /\ stack' = Append(stack, Notify("connected"))
    /\ UNCHANGED <<observers_, dangling>>

\* Another thread calls the client.
OperationOfThread ==
    /\ ~dangling /\ depth < MaxDepth
    /\ strayed' = (strayed \/ (stack # <<>> /\ Owed(top)))
    /\ stack' = Append(stack, Notify("request"))
    /\ UNCHANGED <<observers_, dangling, answers>>

Operation ==
    /\ UserRuns /\ depth < MaxDepth
    /\ strayed' = (strayed \/ (stack # <<>> /\ Owed(top)))
    /\ stack' = Append(stack, Notify("request"))
    /\ UNCHANGED <<observers_, dangling, answers>>

\* The next request of the operation, once its last one has been answered.
SendBeforeTelling ==
    /\ Doing("next") /\ top.kind = "reply" /\ Len(answers) < MaxAnswers
    /\ answers' = Append(answers, depth)
    /\ Happens("request")
    /\ UNCHANGED <<observers_, dangling, strayed>>

Request ==
    /\ Doing("next") /\ top.kind = "reply"
    /\ Happens("request")
    /\ UNCHANGED <<observers_, dangling, answers, strayed>>

Send ==
    /\ Doing("send") /\ Len(answers) < MaxAnswers
    /\ stack' = Append(Front(stack), [top EXCEPT !.doing = "recv"])
    /\ answers' = Append(answers, depth)
    /\ UNCHANGED <<observers_, dangling, strayed>>

\* process_abort(): the transfer was cancelled, and its result is still owed.
Abort ==
    /\ Doing("next") /\ top.kind = "preliminary"
    /\ Happens("abort")
    /\ UNCHANGED <<observers_, dangling, answers, strayed>>

\* The server's next reply, whoever asked for it.  A preliminary one leaves
\* the other to come, of which connect() knows nothing when it is a 120.  After
\* ABOR only a 426 has the client read a second reply; any other is taken for
\* ABOR's answer, and one is left.
Recv ==
    /\ Doing("recv") \/ (Doing("next") /\ top.kind = "preliminary")
    /\ answers # <<>>
    /\ \/ top.kind = "request" /\ Happens("preliminary") /\ UNCHANGED <<answers, strayed>>
       \/ top.kind = "connected" /\ Happens("reply") /\ strayed' = TRUE /\ UNCHANGED answers
       \/ top.kind = "abort" /\ Happens("aborted") /\ answers' = Tail(answers) /\ UNCHANGED strayed
       \/ /\ Happens("reply") /\ answers' = Tail(answers)
          /\ strayed' = (strayed \/ top.kind = "abort")
    /\ UNCHANGED <<observers_, dangling>>

\* get_file_list() has the list, and not yet the result.
FileList ==
    /\ Doing("next") /\ top.kind = "preliminary"
    /\ Happens("file_list")
    /\ UNCHANGED <<observers_, dangling, answers, strayed>>

Return ==
    /\ Doing("next") /\ top.kind = "reply"
    /\ stack' = Front(stack)
    /\ UNCHANGED <<observers_, dangling, answers, strayed>>

\* The callback, the socket or the transfer throws; the callback in which the
\* operation was called catches the exception, or throws in its turn.
Throw ==
    /\ ~dangling /\ stack # <<>>
    /\ stack' = Front(stack)
    /\ strayed' = (strayed \/ Owed(top) \/ top.doing \in {"send", "recv"})
    /\ UNCHANGED <<observers_, dangling, answers>>

Next ==
    \/ \E o \in Observer : add_observer(o) \/ remove_observer(o)
    \/ Connect \/ Operation \/ Request \/ CallbackReturns
    \/ Send \/ Recv \/ Abort \/ FileList \/ Return \/ Throw

Spec == Init /\ [][Next]_vars

--------------------------------------------------------------------------------
(* Properties.                                                             *)

\* The loops of client.cpp over observers_: nobody is told twice of an event,
\* and when its loop ends everybody has been told who was listed when it began
\* or was added while it ran, unless removed before its turn, whatever the
\* callbacks and the calls within them did to the list.
EachIsTold ==
    \A i \in DOMAIN stack :
        /\ IsInjective(stack[i].told)
        /\ Range(stack[i].told) \subseteq stack[i].owed
        /\ stack[i].doing # "callback" => Range(stack[i].told) = stack[i].owed

\* client::send announces a request before it is sent: a call made, or an
\* exception thrown, in on_request finds the dialog where the last reply left
\* it, as one in the on_reply of a final reply does.  Not so ABOR, sent while
\* the result of the transfer is owed.  Unless the client was called while a
\* reply was owed (in on_connected, in the on_reply of a 1xx or a 426, in
\* on_file_list, in ABOR's on_request), an exception left one, ABOR was answered
\* without a 426 or a greeting with a 120, every operation reads its own
\* replies, and none is left when the client is idle.  A new connection mends
\* this only when nothing was left in buffer_.
CallbacksKeepStep ==
    ~strayed /\ ~dangling =>
        /\ stack = <<>> => answers = <<>>
        /\ Doing("recv") => answers # <<>> /\ Head(answers) = depth
        /\ \A i \in DOMAIN stack :
               i \in Range(answers) =>
                   Owed(stack[i]) \/ (stack[i].kind = "request" /\ stack[i].doing = "recv")
================================================================================
