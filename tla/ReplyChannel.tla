------------------------------ MODULE ReplyChannel ------------------------------
(***************************************************************************)
(* What a control connection promises to ftp::client: recv() returns the   *)
(* replies of the server, each whole, each once, in the order they were    *)
(* sent.  FtpClient.tla keeps the server's replies in such a channel.      *)
(*                                                                         *)
(* The promise has two ends.  A reply with an overlong line breaks the     *)
(* channel for good, and once the channel is not clean anything may come.  *)
(***************************************************************************)
EXTENDS Naturals, Sequences

CONSTANTS
    Messages,       \* what a server may say
    Overlong,       \* those of them a client cannot take
    Nothing         \* none of them: in place of one, when recv() throws

VARIABLES
    sent,           \* replies on this connection that recv() has not returned
    open, alive,    \* at the client, at the server
    reader,         \* recv() is running
    got,            \* what recv() last returned, or that it has thrown
    broken,
    clean

chan == <<sent, open, alive, reader, got, broken, clean>>

Init ==
    /\ sent = <<>> /\ open = FALSE /\ alive = FALSE
    /\ reader = "idle" /\ got = Nothing
    /\ broken = FALSE /\ clean = TRUE

Connect ==
    /\ reader = "idle"
    /\ sent' = <<>> /\ open' = TRUE /\ alive' = TRUE
    /\ clean' \in BOOLEAN
    /\ UNCHANGED <<reader, got, broken>>

Close ==
    /\ reader = "idle" /\ open
    /\ sent' = <<>> /\ open' = FALSE
    /\ UNCHANGED <<alive, reader, got, broken, clean>>

Send(m) ==
    /\ open /\ alive /\ ~broken
    /\ sent' = Append(sent, m)
    /\ UNCHANGED <<open, alive, reader, got, broken, clean>>

\* The server is gone, and the latest replies may be.
Hang ==
    /\ open /\ alive /\ alive' = FALSE
    /\ \E n \in 0 .. Len(sent) : sent' = SubSeq(sent, 1, n)
    /\ UNCHANGED <<open, reader, got, broken, clean>>

Call ==
    /\ reader = "idle" /\ open
    /\ reader' = "recv"
    /\ UNCHANGED <<sent, open, alive, got, broken, clean>>

\* 421 closes the connection.
Deliver ==
    /\ reader = "recv" /\ ~broken /\ sent # <<>>
    /\ got' = Head(sent)
    /\ reader' = "idle"
    /\ open' = (Head(sent).code # 421)
    /\ clean' \in BOOLEAN
    /\ clean' => sent' = IF open' THEN Tail(sent) ELSE <<>>
    /\ UNCHANGED <<alive, broken>>

Break ==
    /\ reader = "recv"
    /\ IF sent = <<>> THEN ~alive ELSE Head(sent) \in Overlong
    /\ broken' = TRUE /\ sent' = <<>>
    /\ UNCHANGED <<open, alive, reader, got, clean>>

\* recv() throws.
Fail ==
    /\ reader = "recv"
    /\ broken \/ (~alive /\ sent = <<>>)
    /\ got' = Nothing /\ reader' = "idle"
    /\ UNCHANGED <<sent, open, alive, broken, clean>>

\* No promise.
Garbage == ~clean /\ ~clean'

Next ==
    \/ Connect \/ Close \/ Hang \/ Call \/ Deliver \/ Break \/ Fail \/ Garbage
    \/ \E m \in Messages : Send(m)

Spec == Init /\ [][Next]_chan
================================================================================
