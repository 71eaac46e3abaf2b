--------------------------- MODULE DataSocket_proofs ---------------------------
(***************************************************************************)
(* Proof that what both ends of a data connection make of it agrees, for   *)
(* every file and every window: IInv is inductive, and implies the         *)
(* invariants of DataSocket; and that the client's end is a DataTransfer.  *)
(***************************************************************************)
EXTENDS DataSocket, TLAPS

\* The vocabulary of the actions is expanded throughout.
USE DEF setting, Ended, Stream, Verdicts, At, Put, Taken, Notified, Gone, Lost, Hangs, Thrown,
        ServerFrame, Linked

--------------------------------------------------------------------------------
(* The inductive invariant.                                                *)

\* What has left one end has arrived at the other or is in flight, unless the
\* connection has been reset.
Counts ==
    IF direction = "upload"
    THEN /\ down.blocks = 0 /\ server.count + up.blocks <= moved
         /\ up.end # "reset" => server.count + up.blocks = moved
    ELSE /\ up.blocks = 0 /\ moved + down.blocks <= server.count
         /\ down.end # "reset" => moved + down.blocks = server.count

\* Who has ended a stream has finished, and a close_notify from the client
\* comes from disconnect().
Ends ==
    /\ up.end = "fin" => pc \in Ended
    /\ up.end = "reset" => pc \in Ended \/ ~server.busy
    /\ up.notified => /\ up.end # "reset"
                      /\ pc \in {"ssl_shutdown", "close"} \cup Ended
                      /\ outcome = "complete" \/ ~server.busy
    /\ down.end # "open" => ~server.busy
    /\ down.end = "fin" => server.verdict # "none"
    /\ down.notified => protects /\ down.end = "fin" /\ server.verdict # "crashed"

\* What the server has of the connection at each place of the client.
Links ==
    /\ protects => ssl_context_
    /\ link = "tls" => protects
    /\ pc = "command" /\ transfer_mode_ = "passive" => link = "tcp"
    /\ pc \in {"set_ssl", "loop"} => link # "none"
    /\ pc = "loop" /\ ssl_context_ => link = "tls"
    /\ down.end # "open" => link # "none"

\* What is known of the transfer at each place of the client, and of the ABOR.
Places ==
    /\ pc \in {"start", "command", "refused"} => ~server.busy
    /\ pc \in {"start", "command"} =>
           up.end = "open" /\ down.end = "open" /\ server.verdict = "none"
    /\ pc \in {"start", "command", "refused", "accept", "set_ssl"} => outcome = "moving"
    /\ pc = "abort" => outcome = "aborted"
    /\ pc \in {"disconnect", "ssl_shutdown"} => outcome \in {"complete", "aborted"}
    /\ pc \in {"disconnect", "ssl_shutdown", "close", "done"} /\ server.busy
           => outcome = "complete"
    /\ outcome = "thrown" => pc = "thrown"
    /\ abor # "none" => outcome = "aborted"
    /\ abor = "answered" => ~server.busy

\* What the verdicts are founded on.
Founded ==
    /\ outcome \in {"complete", "aborted"} => moved = size \/ cut
    /\ server.verdict # "none" => ~server.busy
    /\ server.verdict = "aborted" => outcome = "aborted"
    /\ direction = "download" =>
           /\ server.verdict = "whole" => server.count = file
           /\ pc \in {"accept", "set_ssl", "loop"} /\ outcome = "moving" /\ Linked
                  /\ down.end = "fin" => server.count = size
           /\ outcome = "complete" /\ ~cut => server.verdict \in {"whole", "broken", "crashed"}

IInv ==
    /\ TypeOK /\ Counts /\ Ends /\ Links /\ Places /\ Founded
    /\ UploadIsWhole /\ DownloadIsWhole

--------------------------------------------------------------------------------
(* What the steps are made of.                                             *)

LEMMA LostType == ASSUME SocketAssumption PROVE Lost \in Stream
  BY DEF SocketAssumption

LEMMA FinishType ==
  ASSUME TypeOK, NEW verdict \in Verdicts, NEW properly \in BOOLEAN, Finish(verdict, properly)
  PROVE  /\ server' \in [busy : BOOLEAN, count : 0 .. size, verdict : Verdicts]
         /\ server'.count = server.count /\ ~server'.busy /\ server'.verdict = verdict
         /\ down' \in Stream /\ down'.blocks = down.blocks
<1>1. server' = [busy |-> FALSE, count |-> server.count, verdict |-> verdict]
  BY DEF TypeOK, Finish
<1>2. \/ down' = down
      \/ down' = [blocks |-> down.blocks, notified |-> (link = "tls" /\ properly),
                  end |-> IF down.end = "open" THEN "fin" ELSE down.end]
  BY DEF TypeOK, Finish
<1>3. (link = "tls" /\ properly) \in BOOLEAN
  OBVIOUS
<1>4. down' \in Stream /\ down'.blocks = down.blocks
  <2>1. CASE down' = down
    BY <2>1 DEF TypeOK
  <2>2. CASE down' # down
    <3>1. PICK n \in BOOLEAN, e \in {"open", "fin", "reset"} :
            down' = [blocks |-> down.blocks, notified |-> n, end |-> e]
      BY <1>2, <1>3, <2>2, Zenon DEF TypeOK
    <3> QED
      BY <3>1 DEF TypeOK
  <2> QED
    BY <2>1, <2>2
<1> QED
  BY <1>1, <1>4 DEF TypeOK

\* What the client leaves of its stream when it closes its end.
LEMMA HangsType ==
  ASSUME SocketAssumption, TypeOK, Hangs
  PROVE  /\ up' \in Stream
         /\ up'.end # "open" /\ up'.blocks \in {0, up.blocks}
         /\ up'.end = "fin" => up'.blocks = up.blocks /\ up'.notified = up.notified /\ up.end # "reset"
         /\ up'.notified => up'.end = up.end \/ up'.end = "fin"
  BY LostType DEF TypeOK


--------------------------------------------------------------------------------
(* Each step keeps it.                                                     *)

(* Opening. *)

LEMMA OpenKeeps ==
  ASSUME SocketAssumption, IInv, Open
  PROVE  IInv'
<1>1. TypeOK'
  BY DEF IInv, TypeOK, Links, Counts, Open
<1>2. Counts'
  BY DEF IInv, TypeOK, Links, Counts, Ends, Open
<1>3. Ends'
  BY DEF IInv, TypeOK, Links, Ends, Places, Founded, Open
<1>4. Places'
  BY DEF IInv, TypeOK, Links, Ends, Places, Founded, Open
<1>5. Founded'
  BY DEF IInv, TypeOK, Links, Counts, Ends, Places, Founded, Open
<1>6. UploadIsWhole'
  BY DEF IInv, TypeOK, Links, Counts, Ends, Places, Founded, UploadIsWhole, Open
<1>7. DownloadIsWhole'
  BY DEF IInv, TypeOK, Links, Counts, Ends, Places, Founded, DownloadIsWhole, Open
<1>8. Links'
  BY DEF IInv, TypeOK, Links, Ends, Places, Open
<1> QED
  BY <1>1, <1>2, <1>3, <1>4, <1>5, <1>6, <1>7, <1>8 DEF IInv

LEMMA RefusedKeeps ==
  ASSUME SocketAssumption, IInv, Refused
  PROVE  IInv'
<1>1. TypeOK'
  BY DEF IInv, TypeOK, Links, Counts, Refused
<1>2. Counts'
  BY DEF IInv, TypeOK, Links, Counts, Ends, Refused
<1>3. Ends'
  BY DEF IInv, TypeOK, Links, Ends, Places, Founded, Refused
<1>4. Places'
  BY DEF IInv, TypeOK, Links, Ends, Places, Founded, Refused
<1>5. Founded'
  BY DEF IInv, TypeOK, Links, Counts, Ends, Places, Founded, Refused
<1>6. UploadIsWhole'
  BY DEF IInv, TypeOK, Links, Counts, Ends, Places, Founded, UploadIsWhole, Refused
<1>7. DownloadIsWhole'
  BY DEF IInv, TypeOK, Links, Counts, Ends, Places, Founded, DownloadIsWhole, Refused
<1>8. Links'
  BY DEF IInv, TypeOK, Links, Ends, Places, Refused
<1> QED
  BY <1>1, <1>2, <1>3, <1>4, <1>5, <1>6, <1>7, <1>8 DEF IInv

LEMMA GrantedKeeps ==
  ASSUME SocketAssumption, IInv, Granted
  PROVE  IInv'
<1>1. TypeOK'
  <2>1. pc = "command" /\ pc' \in {"accept", "set_ssl", "loop"}
    BY DEF Granted
  <2>2. server' = [busy |-> TRUE, count |-> server.count, verdict |-> server.verdict]
    BY DEF IInv, TypeOK, Links, Granted
  <2>3. UNCHANGED <<setting, moved, outcome, cut, link, up, down, abor>>
    BY DEF Granted
  <2> QED
    BY <2>1, <2>2, <2>3 DEF IInv, TypeOK, Links
<1>2. Counts'
  BY DEF IInv, TypeOK, Links, Counts, Ends, Granted
<1>3. Ends'
  <2>1. pc = "command" /\ pc' \in {"accept", "set_ssl", "loop"}
    BY DEF Granted
  <2>2. server' = [busy |-> TRUE, count |-> server.count, verdict |-> server.verdict]
    BY DEF IInv, TypeOK, Links, Granted
  <2>3. UNCHANGED <<setting, moved, outcome, cut, link, up, down, abor>>
    BY DEF Granted
  <2> QED
    BY <2>1, <2>2, <2>3 DEF IInv, TypeOK, Links, Ends, Places, Founded
<1>4. Places'
  BY DEF IInv, TypeOK, Links, Ends, Places, Founded, Granted
<1>5. Founded'
  <2>1. pc = "command" /\ pc' \in {"accept", "set_ssl", "loop"}
    BY DEF Granted
  <2>2. server' = [busy |-> TRUE, count |-> server.count, verdict |-> server.verdict]
    BY DEF IInv, TypeOK, Links, Granted
  <2>3. UNCHANGED <<setting, moved, outcome, cut, link, up, down, abor>>
    BY DEF Granted
  <2> QED
    BY <2>1, <2>2, <2>3 DEF IInv, TypeOK, Links, Ends, Places, Founded
<1>6. UploadIsWhole'
  BY DEF IInv, TypeOK, Links, Counts, Ends, Places, Founded, UploadIsWhole, Granted
<1>7. DownloadIsWhole'
  BY DEF IInv, TypeOK, Links, Counts, Ends, Places, Founded, DownloadIsWhole, Granted
<1>8. Links'
  BY DEF IInv, TypeOK, Links, Ends, Places, Granted
<1> QED
  BY <1>1, <1>2, <1>3, <1>4, <1>5, <1>6, <1>7, <1>8 DEF IInv

LEMMA AcceptKeeps ==
  ASSUME SocketAssumption, IInv, Accept
  PROVE  IInv'
<1>1. TypeOK'
  BY DEF IInv, TypeOK, Links, Counts, Accept
<1>2. Counts'
  BY DEF IInv, TypeOK, Links, Counts, Ends, Accept
<1>3. Ends'
  BY DEF IInv, TypeOK, Links, Ends, Places, Founded, Accept
<1>4. Places'
  BY DEF IInv, TypeOK, Links, Ends, Places, Founded, Accept
<1>5. Founded'
  <2>1. pc = "accept" /\ pc' \in {"set_ssl", "loop"}
    BY DEF Accept
  <2> QED
    BY <2>1 DEF IInv, TypeOK, Links, Counts, Ends, Places, Founded, Accept
<1>6. UploadIsWhole'
  BY DEF IInv, TypeOK, Links, Counts, Ends, Places, Founded, UploadIsWhole, Accept
<1>7. DownloadIsWhole'
  BY DEF IInv, TypeOK, Links, Counts, Ends, Places, Founded, DownloadIsWhole, Accept
<1>8. Links'
  BY DEF IInv, TypeOK, Links, Ends, Places, Accept
<1> QED
  BY <1>1, <1>2, <1>3, <1>4, <1>5, <1>6, <1>7, <1>8 DEF IInv

LEMMA HandshakeKeeps ==
  ASSUME SocketAssumption, IInv, Handshake
  PROVE  IInv'
<1>1. TypeOK'
  <2>1. up' \in Stream
    BY HangsType DEF IInv, TypeOK, Links, Handshake
  <2> QED
    BY <2>1 DEF IInv, TypeOK, Links, Handshake
<1>2. Counts'
  BY DEF IInv, TypeOK, Links, Counts, Ends, Handshake
<1>3. Ends'
  BY DEF IInv, TypeOK, Links, Ends, Places, Founded, Handshake
<1>4. Places'
  BY DEF IInv, TypeOK, Links, Ends, Places, Founded, Handshake
<1>5. Founded'
  BY DEF IInv, TypeOK, Links, Counts, Ends, Places, Founded, Handshake
<1>6. UploadIsWhole'
  BY DEF IInv, TypeOK, Links, Counts, Ends, Places, Founded, UploadIsWhole, Handshake
<1>7. DownloadIsWhole'
  BY DEF IInv, TypeOK, Links, Counts, Ends, Places, Founded, DownloadIsWhole, Handshake
<1>8. Links'
  BY DEF IInv, TypeOK, Links, Ends, Places, Handshake
<1> QED
  BY <1>1, <1>2, <1>3, <1>4, <1>5, <1>6, <1>7, <1>8 DEF IInv

LEMMA OpeningFailsKeeps ==
  ASSUME SocketAssumption, IInv, OpeningFails
  PROVE  IInv'
<1>1. TypeOK'
  BY DEF IInv, TypeOK, Links, Counts, OpeningFails
<1>2. Counts'
  BY DEF IInv, TypeOK, Links, Counts, Ends, OpeningFails
<1>3. Ends'
  BY DEF IInv, TypeOK, Links, Ends, Places, Founded, OpeningFails
<1>4. Places'
  BY DEF IInv, TypeOK, Links, Ends, Places, Founded, OpeningFails
<1>5. Founded'
  BY DEF IInv, TypeOK, Links, Counts, Ends, Places, Founded, OpeningFails
<1>6. UploadIsWhole'
  BY DEF IInv, TypeOK, Links, Counts, Ends, Places, Founded, UploadIsWhole, OpeningFails
<1>7. DownloadIsWhole'
  BY DEF IInv, TypeOK, Links, Counts, Ends, Places, Founded, DownloadIsWhole, OpeningFails
<1>8. Links'
  BY DEF IInv, TypeOK, Links, Ends, Places, OpeningFails
<1> QED
  BY <1>1, <1>2, <1>3, <1>4, <1>5, <1>6, <1>7, <1>8 DEF IInv

(* The loops. *)

LEMMA SendKeeps ==
  ASSUME SocketAssumption, IInv, Send
  PROVE  IInv'
<1>1. TypeOK'
  BY DEF IInv, TypeOK, Links, Counts, Send, Looping
<1>2. Counts'
  BY DEF IInv, TypeOK, Links, Counts, Ends, Send, Looping
<1>3. Ends'
  BY DEF IInv, TypeOK, Links, Ends, Places, Founded, Send, Looping
<1>4. Places'
  BY DEF IInv, TypeOK, Links, Ends, Places, Founded, Send, Looping
<1>5. Founded'
  BY DEF IInv, TypeOK, Links, Counts, Ends, Places, Founded, Send, Looping
<1>6. UploadIsWhole'
  BY DEF IInv, TypeOK, Links, Counts, Ends, Places, Founded, UploadIsWhole, Send, Looping
<1>7. DownloadIsWhole'
  BY DEF IInv, TypeOK, Links, Counts, Ends, Places, Founded, DownloadIsWhole, Send, Looping
<1>8. Links'
  BY DEF IInv, TypeOK, Links, Ends, Places, Send, Looping
<1> QED
  BY <1>1, <1>2, <1>3, <1>4, <1>5, <1>6, <1>7, <1>8 DEF IInv

LEMMA RecvKeeps ==
  ASSUME SocketAssumption, IInv, Recv
  PROVE  IInv'
<1>1. TypeOK'
  BY DEF IInv, TypeOK, Links, Counts, Recv, Looping
<1>2. Counts'
  BY DEF IInv, TypeOK, Links, Counts, Ends, Recv, Looping
<1>3. Ends'
  BY DEF IInv, TypeOK, Links, Ends, Places, Founded, Recv, Looping
<1>4. Places'
  BY DEF IInv, TypeOK, Links, Ends, Places, Founded, Recv, Looping
<1>5. Founded'
  BY DEF IInv, TypeOK, Links, Counts, Ends, Places, Founded, Recv, Looping
<1>6. UploadIsWhole'
  BY DEF IInv, TypeOK, Links, Counts, Ends, Places, Founded, UploadIsWhole, Recv, Looping
<1>7. DownloadIsWhole'
  BY DEF IInv, TypeOK, Links, Counts, Ends, Places, Founded, DownloadIsWhole, Recv, Looping
<1>8. Links'
  BY DEF IInv, TypeOK, Links, Ends, Places, Recv, Looping
<1> QED
  BY <1>1, <1>2, <1>3, <1>4, <1>5, <1>6, <1>7, <1>8 DEF IInv

LEMMA BreakOffKeeps ==
  ASSUME SocketAssumption, IInv, BreakOff
  PROVE  IInv'
<1>1. TypeOK'
  BY DEF IInv, TypeOK, Links, Counts, BreakOff, Looping
<1>2. Counts'
  BY DEF IInv, TypeOK, Links, Counts, Ends, BreakOff, Looping
<1>3. Ends'
  BY DEF IInv, TypeOK, Links, Ends, Places, Founded, BreakOff, Looping
<1>4. Places'
  BY DEF IInv, TypeOK, Links, Ends, Places, Founded, BreakOff, Looping
<1>5. Founded'
  BY DEF IInv, TypeOK, Links, Counts, Ends, Places, Founded, BreakOff, Looping
<1>6. UploadIsWhole'
  BY DEF IInv, TypeOK, Links, Counts, Ends, Places, Founded, UploadIsWhole, BreakOff, Looping
<1>7. DownloadIsWhole'
  BY DEF IInv, TypeOK, Links, Counts, Ends, Places, Founded, DownloadIsWhole, BreakOff, Looping
<1>8. Links'
  BY DEF IInv, TypeOK, Links, Ends, Places, BreakOff, Looping
<1> QED
  BY <1>1, <1>2, <1>3, <1>4, <1>5, <1>6, <1>7, <1>8 DEF IInv

LEMMA LeaveKeeps ==
  ASSUME SocketAssumption, IInv, Leave
  PROVE  IInv'
<1>1. TypeOK'
  BY DEF IInv, TypeOK, Links, Counts, Leave, Looping, EndOfData, Secured
<1>2. Counts'
  BY DEF IInv, TypeOK, Links, Counts, Ends, Leave, Looping, EndOfData, Secured
<1>3. Ends'
  BY DEF IInv, TypeOK, Links, Ends, Places, Founded, Leave, Looping, EndOfData, Secured
<1>4. Places'
  BY DEF IInv, TypeOK, Links, Ends, Places, Founded, Leave, Looping, EndOfData, Secured
<1>5. Founded'
  BY DEF IInv, TypeOK, Links, Counts, Ends, Places, Founded, Leave, Looping, EndOfData, Secured
<1>6. UploadIsWhole'
  BY DEF IInv, TypeOK, Links, Counts, Ends, Places, Founded, UploadIsWhole, Leave, Looping, EndOfData,
         Secured
<1>7. DownloadIsWhole'
  BY DEF IInv, TypeOK, Links, Counts, Ends, Places, Founded, DownloadIsWhole, Leave, Looping, EndOfData,
         Secured
<1>8. Links'
  BY DEF IInv, TypeOK, Links, Ends, Places, Leave, Looping, EndOfData,
         Secured
<1> QED
  BY <1>1, <1>2, <1>3, <1>4, <1>5, <1>6, <1>7, <1>8 DEF IInv

LEMMA SocketFailsKeeps ==
  ASSUME SocketAssumption, IInv, SocketFails
  PROVE  IInv'
<1>1. TypeOK'
  BY DEF IInv, TypeOK, Links, Counts, SocketFails, Looping
<1>2. Counts'
  BY DEF IInv, TypeOK, Links, Counts, Ends, SocketFails, Looping
<1>3. Ends'
  BY DEF IInv, TypeOK, Links, Ends, Places, Founded, SocketFails, Looping
<1>4. Places'
  BY DEF IInv, TypeOK, Links, Ends, Places, Founded, SocketFails, Looping
<1>5. Founded'
  BY DEF IInv, TypeOK, Links, Counts, Ends, Places, Founded, SocketFails, Looping
<1>6. UploadIsWhole'
  BY DEF IInv, TypeOK, Links, Counts, Ends, Places, Founded, UploadIsWhole, SocketFails, Looping
<1>7. DownloadIsWhole'
  BY DEF IInv, TypeOK, Links, Counts, Ends, Places, Founded, DownloadIsWhole, SocketFails, Looping
<1>8. Links'
  BY DEF IInv, TypeOK, Links, Ends, Places, SocketFails, Looping
<1> QED
  BY <1>1, <1>2, <1>3, <1>4, <1>5, <1>6, <1>7, <1>8 DEF IInv

LEMMA StreamFailsKeeps ==
  ASSUME SocketAssumption, IInv, StreamFails
  PROVE  IInv'
<1>1. TypeOK'
  BY DEF IInv, TypeOK, Links, Counts, StreamFails, Looping
<1>2. Counts'
  BY DEF IInv, TypeOK, Links, Counts, Ends, StreamFails, Looping
<1>3. Ends'
  BY DEF IInv, TypeOK, Links, Ends, Places, Founded, StreamFails, Looping
<1>4. Places'
  BY DEF IInv, TypeOK, Links, Ends, Places, Founded, StreamFails, Looping
<1>5. Founded'
  BY DEF IInv, TypeOK, Links, Counts, Ends, Places, Founded, StreamFails, Looping
<1>6. UploadIsWhole'
  BY DEF IInv, TypeOK, Links, Counts, Ends, Places, Founded, UploadIsWhole, StreamFails, Looping
<1>7. DownloadIsWhole'
  BY DEF IInv, TypeOK, Links, Counts, Ends, Places, Founded, DownloadIsWhole, StreamFails, Looping
<1>8. Links'
  BY DEF IInv, TypeOK, Links, Ends, Places, StreamFails, Looping
<1> QED
  BY <1>1, <1>2, <1>3, <1>4, <1>5, <1>6, <1>7, <1>8 DEF IInv

(* The end of the operation. *)

LEMMA AbortKeeps ==
  ASSUME SocketAssumption, IInv, Abort
  PROVE  IInv'
<1>1. TypeOK'
  BY DEF IInv, TypeOK, Links, Counts, Abort
<1>2. Counts'
  BY DEF IInv, TypeOK, Links, Counts, Ends, Abort
<1>3. Ends'
  BY DEF IInv, TypeOK, Links, Ends, Places, Founded, Abort
<1>4. Places'
  BY DEF IInv, TypeOK, Links, Ends, Places, Founded, Abort
<1>5. Founded'
  BY DEF IInv, TypeOK, Links, Counts, Ends, Places, Founded, Abort
<1>6. UploadIsWhole'
  BY DEF IInv, TypeOK, Links, Counts, Ends, Places, Founded, UploadIsWhole, Abort
<1>7. DownloadIsWhole'
  BY DEF IInv, TypeOK, Links, Counts, Ends, Places, Founded, DownloadIsWhole, Abort
<1>8. Links'
  BY DEF IInv, TypeOK, Links, Ends, Places, Abort
<1> QED
  BY <1>1, <1>2, <1>3, <1>4, <1>5, <1>6, <1>7, <1>8 DEF IInv

LEMMA AbortFailsKeeps ==
  ASSUME SocketAssumption, IInv, AbortFails
  PROVE  IInv'
<1>1. TypeOK'
  BY DEF IInv, TypeOK, Links, Counts, AbortFails
<1>2. Counts'
  BY DEF IInv, TypeOK, Links, Counts, Ends, AbortFails
<1>3. Ends'
  BY DEF IInv, TypeOK, Links, Ends, Places, Founded, AbortFails
<1>4. Places'
  BY DEF IInv, TypeOK, Links, Ends, Places, Founded, AbortFails
<1>5. Founded'
  BY DEF IInv, TypeOK, Links, Counts, Ends, Places, Founded, AbortFails
<1>6. UploadIsWhole'
  BY DEF IInv, TypeOK, Links, Counts, Ends, Places, Founded, UploadIsWhole, AbortFails
<1>7. DownloadIsWhole'
  BY DEF IInv, TypeOK, Links, Counts, Ends, Places, Founded, DownloadIsWhole, AbortFails
<1>8. Links'
  BY DEF IInv, TypeOK, Links, Ends, Places, AbortFails
<1> QED
  BY <1>1, <1>2, <1>3, <1>4, <1>5, <1>6, <1>7, <1>8 DEF IInv

LEMMA DisconnectKeeps ==
  ASSUME SocketAssumption, IInv, Disconnect
  PROVE  IInv'
<1>1. TypeOK'
  BY DEF IInv, TypeOK, Links, Counts, Disconnect, Secured
<1>2. Counts'
  BY DEF IInv, TypeOK, Links, Counts, Ends, Disconnect, Secured
<1>3. Ends'
  BY DEF IInv, TypeOK, Links, Ends, Places, Founded, Disconnect, Secured
<1>4. Places'
  BY DEF IInv, TypeOK, Links, Ends, Places, Founded, Disconnect, Secured
<1>5. Founded'
  BY DEF IInv, TypeOK, Links, Counts, Ends, Places, Founded, Disconnect, Secured
<1>6. UploadIsWhole'
  BY DEF IInv, TypeOK, Links, Counts, Ends, Places, Founded, UploadIsWhole, Disconnect, Secured
<1>7. DownloadIsWhole'
  BY DEF IInv, TypeOK, Links, Counts, Ends, Places, Founded, DownloadIsWhole, Disconnect, Secured
<1>8. Links'
  BY DEF IInv, TypeOK, Links, Ends, Places, Disconnect, Secured
<1> QED
  BY <1>1, <1>2, <1>3, <1>4, <1>5, <1>6, <1>7, <1>8 DEF IInv

LEMMA SslShutdownKeeps ==
  ASSUME SocketAssumption, IInv, SslShutdown
  PROVE  IInv'
<1>1. TypeOK'
  <2>1. up' \in Stream
    BY HangsType DEF IInv, TypeOK, Links, SslShutdown
  <2> QED
    BY <2>1 DEF IInv, TypeOK, Links, SslShutdown
<1>2. Counts'
  BY DEF IInv, TypeOK, Links, Counts, Ends, SslShutdown
<1>3. Ends'
  BY DEF IInv, TypeOK, Links, Ends, Places, Founded, SslShutdown
<1>4. Places'
  BY DEF IInv, TypeOK, Links, Ends, Places, Founded, SslShutdown
<1>5. Founded'
  BY DEF IInv, TypeOK, Links, Counts, Ends, Places, Founded, SslShutdown
<1>6. UploadIsWhole'
  BY DEF IInv, TypeOK, Links, Counts, Ends, Places, Founded, UploadIsWhole, SslShutdown
<1>7. DownloadIsWhole'
  BY DEF IInv, TypeOK, Links, Counts, Ends, Places, Founded, DownloadIsWhole, SslShutdown
<1>8. Links'
  BY DEF IInv, TypeOK, Links, Ends, Places, SslShutdown
<1> QED
  BY <1>1, <1>2, <1>3, <1>4, <1>5, <1>6, <1>7, <1>8 DEF IInv

LEMMA CloseKeeps ==
  ASSUME SocketAssumption, IInv, Close
  PROVE  IInv'
<1>1. TypeOK'
  BY DEF IInv, TypeOK, Links, Counts, Close
<1>2. Counts'
  BY DEF IInv, TypeOK, Links, Counts, Ends, Close
<1>3. Ends'
  BY DEF IInv, TypeOK, Links, Ends, Places, Founded, Close
<1>4. Places'
  BY DEF IInv, TypeOK, Links, Ends, Places, Founded, Close
<1>5. Founded'
  BY DEF IInv, TypeOK, Links, Counts, Ends, Places, Founded, Close
<1>6. UploadIsWhole'
  BY DEF IInv, TypeOK, Links, Counts, Ends, Places, Founded, UploadIsWhole, Close
<1>7. DownloadIsWhole'
  BY DEF IInv, TypeOK, Links, Counts, Ends, Places, Founded, DownloadIsWhole, Close
<1>8. Links'
  BY DEF IInv, TypeOK, Links, Ends, Places, Close
<1> QED
  BY <1>1, <1>2, <1>3, <1>4, <1>5, <1>6, <1>7, <1>8 DEF IInv

(* The server. *)

LEMMA ServerConnectsKeeps ==
  ASSUME SocketAssumption, IInv, ServerConnects
  PROVE  IInv'
<1>1. TypeOK'
  BY DEF IInv, TypeOK, Links, Counts, ServerConnects
<1>2. Counts'
  BY DEF IInv, TypeOK, Links, Counts, Ends, ServerConnects
<1>3. Ends'
  BY DEF IInv, TypeOK, Links, Ends, Places, Founded, ServerConnects
<1>4. Places'
  BY DEF IInv, TypeOK, Links, Ends, Places, Founded, ServerConnects
<1>5. Founded'
  BY DEF IInv, TypeOK, Links, Counts, Ends, Places, Founded, ServerConnects
<1>6. UploadIsWhole'
  BY DEF IInv, TypeOK, Links, Counts, Ends, Places, Founded, UploadIsWhole, ServerConnects
<1>7. DownloadIsWhole'
  BY DEF IInv, TypeOK, Links, Counts, Ends, Places, Founded, DownloadIsWhole, ServerConnects
<1>8. Links'
  BY DEF IInv, TypeOK, Links, Ends, Places, ServerConnects
<1> QED
  BY <1>1, <1>2, <1>3, <1>4, <1>5, <1>6, <1>7, <1>8 DEF IInv

LEMMA ServerSecuresKeeps ==
  ASSUME SocketAssumption, IInv, ServerSecures
  PROVE  IInv'
<1>1. TypeOK'
  BY DEF IInv, TypeOK, Links, Counts, ServerSecures
<1>2. Counts'
  BY DEF IInv, TypeOK, Links, Counts, Ends, ServerSecures
<1>3. Ends'
  BY DEF IInv, TypeOK, Links, Ends, Places, Founded, ServerSecures
<1>4. Places'
  BY DEF IInv, TypeOK, Links, Ends, Places, Founded, ServerSecures
<1>5. Founded'
  BY DEF IInv, TypeOK, Links, Counts, Ends, Places, Founded, ServerSecures
<1>6. UploadIsWhole'
  BY DEF IInv, TypeOK, Links, Counts, Ends, Places, Founded, UploadIsWhole, ServerSecures
<1>7. DownloadIsWhole'
  BY DEF IInv, TypeOK, Links, Counts, Ends, Places, Founded, DownloadIsWhole, ServerSecures
<1>8. Links'
  BY DEF IInv, TypeOK, Links, Ends, Places, ServerSecures
<1> QED
  BY <1>1, <1>2, <1>3, <1>4, <1>5, <1>6, <1>7, <1>8 DEF IInv

LEMMA ServerReadsKeeps ==
  ASSUME SocketAssumption, IInv, ServerReads
  PROVE  IInv'
<1>1. TypeOK'
  BY DEF IInv, TypeOK, Links, Counts, ServerReads, Serving
<1>2. Counts'
  BY DEF IInv, TypeOK, Links, Counts, Ends, ServerReads, Serving
<1>3. Ends'
  BY DEF IInv, TypeOK, Links, Ends, Places, Founded, ServerReads, Serving
<1>4. Places'
  BY DEF IInv, TypeOK, Links, Ends, Places, Founded, ServerReads, Serving
<1>5. Founded'
  BY DEF IInv, TypeOK, Links, Counts, Ends, Places, Founded, ServerReads, Serving
<1>6. UploadIsWhole'
  BY DEF IInv, TypeOK, Links, Counts, Ends, Places, Founded, UploadIsWhole, ServerReads, Serving
<1>7. DownloadIsWhole'
  BY DEF IInv, TypeOK, Links, Counts, Ends, Places, Founded, DownloadIsWhole, ServerReads, Serving
<1>8. Links'
  BY DEF IInv, TypeOK, Links, Ends, Places, ServerReads, Serving
<1> QED
  BY <1>1, <1>2, <1>3, <1>4, <1>5, <1>6, <1>7, <1>8 DEF IInv

LEMMA ServerWritesKeeps ==
  ASSUME SocketAssumption, IInv, ServerWrites
  PROVE  IInv'
<1>1. TypeOK'
  BY DEF IInv, TypeOK, Links, Counts, ServerWrites, Serving
<1>2. Counts'
  BY DEF IInv, TypeOK, Links, Counts, Ends, ServerWrites, Serving
<1>3. Ends'
  BY DEF IInv, TypeOK, Links, Ends, Places, Founded, ServerWrites, Serving
<1>4. Places'
  BY DEF IInv, TypeOK, Links, Ends, Places, Founded, ServerWrites, Serving
<1>5. Founded'
  BY DEF IInv, TypeOK, Links, Counts, Ends, Places, Founded, ServerWrites, Serving
<1>6. UploadIsWhole'
  BY DEF IInv, TypeOK, Links, Counts, Ends, Places, Founded, UploadIsWhole, ServerWrites, Serving
<1>7. DownloadIsWhole'
  BY DEF IInv, TypeOK, Links, Counts, Ends, Places, Founded, DownloadIsWhole, ServerWrites, Serving
<1>8. Links'
  BY DEF IInv, TypeOK, Links, Ends, Places, ServerWrites, Serving
<1> QED
  BY <1>1, <1>2, <1>3, <1>4, <1>5, <1>6, <1>7, <1>8 DEF IInv

LEMMA ServerHasAllKeeps ==
  ASSUME SocketAssumption, IInv, ServerHasAll
  PROVE  IInv'
<1>1. TypeOK'
  <2>1. server' \in [busy : BOOLEAN, count : 0 .. size, verdict : Verdicts] /\ down' \in Stream
    BY FinishType DEF IInv, ServerHasAll
  <2> QED
    BY <2>1 DEF IInv, TypeOK, Links, ServerHasAll
<1>2. Counts'
  BY DEF IInv, TypeOK, Links, Counts, Ends, ServerHasAll, Serving, Finish
<1>3. Ends'
  BY DEF IInv, TypeOK, Links, Ends, Places, Founded, ServerHasAll, Serving, Finish
<1>4. Places'
  BY DEF IInv, TypeOK, Links, Ends, Places, Founded, ServerHasAll, Serving, Finish
<1>5. Founded'
  BY DEF IInv, TypeOK, Links, Counts, Ends, Places, Founded, ServerHasAll, Serving, Finish
<1>6. UploadIsWhole'
  <2>1. CASE protects /\ direction = "upload"
    <3>1. up.blocks = 0 /\ up.notified
      BY <2>1 DEF IInv, TypeOK, Links, ServerHasAll
    <3>2. server.count = moved /\ server.busy
      BY <2>1, <3>1 DEF IInv, TypeOK, Links, Counts, Ends, ServerHasAll, Serving
    <3>3. outcome = "complete" /\ (moved = size \/ cut)
      BY <3>1, <3>2 DEF IInv, Ends, Places, Founded
    <3> QED
      BY <3>2, <3>3 DEF IInv, TypeOK, Links, UploadIsWhole, ServerHasAll, Finish
  <2>2. CASE ~protects /\ direction = "upload"
    <3>1. up.blocks = 0 /\ up.end = "fin" /\ server.busy
      BY <2>2 DEF IInv, TypeOK, Links, ServerHasAll, Serving
    <3>2. server.count = moved /\ pc \in Ended
      BY <2>2, <3>1 DEF IInv, TypeOK, Links, Counts, Ends
    <3>3. pc = "done" => moved = size \/ (cut /\ outcome = "complete")
      BY <3>1 DEF IInv, Places, Founded
    <3> QED
      BY <2>2, <3>2, <3>3 DEF IInv, TypeOK, Links, UploadIsWhole, ServerHasAll, Finish
  <2> QED
    BY <2>1, <2>2 DEF IInv, TypeOK, Links, UploadIsWhole, ServerHasAll
<1>7. DownloadIsWhole'
  BY DEF IInv, TypeOK, Links, Counts, Ends, Places, Founded, DownloadIsWhole, ServerHasAll, Serving,
         Finish
<1>8. Links'
  BY DEF IInv, TypeOK, Links, Ends, Places, ServerHasAll, Serving,
         Finish
<1> QED
  BY <1>1, <1>2, <1>3, <1>4, <1>5, <1>6, <1>7, <1>8 DEF IInv

LEMMA ServerMissesKeeps ==
  ASSUME SocketAssumption, IInv, ServerMisses
  PROVE  IInv'
<1>1. TypeOK'
  <2>1. server' \in [busy : BOOLEAN, count : 0 .. size, verdict : Verdicts] /\ down' \in Stream
    BY FinishType DEF IInv, ServerMisses
  <2> QED
    BY <2>1 DEF IInv, TypeOK, Links, ServerMisses
<1>2. Counts'
  BY DEF IInv, TypeOK, Links, Counts, Ends, ServerMisses, Serving, Finish
<1>3. Ends'
  BY DEF IInv, TypeOK, Links, Ends, Places, Founded, ServerMisses, Serving, Finish
<1>4. Places'
  BY DEF IInv, TypeOK, Links, Ends, Places, Founded, ServerMisses, Serving, Finish
<1>5. Founded'
  BY DEF IInv, TypeOK, Links, Counts, Ends, Places, Founded, ServerMisses, Serving, Finish
<1>6. UploadIsWhole'
  BY DEF IInv, TypeOK, Links, Counts, Ends, Places, Founded, UploadIsWhole, ServerMisses, Serving,
         Finish
<1>7. DownloadIsWhole'
  BY DEF IInv, TypeOK, Links, Counts, Ends, Places, Founded, DownloadIsWhole, ServerMisses, Serving,
         Finish
<1>8. Links'
  BY DEF IInv, TypeOK, Links, Ends, Places, ServerMisses, Serving,
         Finish
<1> QED
  BY <1>1, <1>2, <1>3, <1>4, <1>5, <1>6, <1>7, <1>8 DEF IInv

LEMMA ServerGivesUpKeeps ==
  ASSUME SocketAssumption, IInv, ServerGivesUp
  PROVE  IInv'
<1>1. TypeOK'
  <2>1. server' \in [busy : BOOLEAN, count : 0 .. size, verdict : Verdicts] /\ down' \in Stream
    BY FinishType DEF IInv, ServerGivesUp
  <2> QED
    BY <2>1 DEF IInv, TypeOK, Links, ServerGivesUp
<1>2. Counts'
  BY DEF IInv, TypeOK, Links, Counts, Ends, ServerGivesUp, Serving, Finish
<1>3. Ends'
  BY DEF IInv, TypeOK, Links, Ends, Places, Founded, ServerGivesUp, Serving, Finish
<1>4. Places'
  BY DEF IInv, TypeOK, Links, Ends, Places, Founded, ServerGivesUp, Serving, Finish
<1>5. Founded'
  BY DEF IInv, TypeOK, Links, Counts, Ends, Places, Founded, ServerGivesUp, Serving, Finish
<1>6. UploadIsWhole'
  BY DEF IInv, TypeOK, Links, Counts, Ends, Places, Founded, UploadIsWhole, ServerGivesUp, Serving,
         Finish
<1>7. DownloadIsWhole'
  BY DEF IInv, TypeOK, Links, Counts, Ends, Places, Founded, DownloadIsWhole, ServerGivesUp, Serving,
         Finish
<1>8. Links'
  BY DEF IInv, TypeOK, Links, Ends, Places, ServerGivesUp, Serving,
         Finish
<1> QED
  BY <1>1, <1>2, <1>3, <1>4, <1>5, <1>6, <1>7, <1>8 DEF IInv

LEMMA ServerDiesKeeps ==
  ASSUME SocketAssumption, IInv, ServerDies
  PROVE  IInv'
<1>1. TypeOK'
  <2>1. server' \in [busy : BOOLEAN, count : 0 .. size, verdict : Verdicts] /\ down' \in Stream
    BY FinishType DEF IInv, ServerDies
  <2> QED
    BY <2>1 DEF IInv, TypeOK, Links, ServerDies
<1>2. Counts'
  BY DEF IInv, TypeOK, Links, Counts, Ends, ServerDies, Serving, Finish
<1>3. Ends'
  BY DEF IInv, TypeOK, Links, Ends, Places, Founded, ServerDies, Serving, Finish
<1>4. Places'
  BY DEF IInv, TypeOK, Links, Ends, Places, Founded, ServerDies, Serving, Finish
<1>5. Founded'
  BY DEF IInv, TypeOK, Links, Counts, Ends, Places, Founded, ServerDies, Serving, Finish
<1>6. UploadIsWhole'
  BY DEF IInv, TypeOK, Links, Counts, Ends, Places, Founded, UploadIsWhole, ServerDies, Serving, Finish
<1>7. DownloadIsWhole'
  BY DEF IInv, TypeOK, Links, Counts, Ends, Places, Founded, DownloadIsWhole, ServerDies, Serving,
         Finish
<1>8. Links'
  BY DEF IInv, TypeOK, Links, Ends, Places, ServerDies, Serving,
         Finish
<1> QED
  BY <1>1, <1>2, <1>3, <1>4, <1>5, <1>6, <1>7, <1>8 DEF IInv

LEMMA ServerAbortsKeeps ==
  ASSUME SocketAssumption, IInv, ServerAborts
  PROVE  IInv'
<1>1. TypeOK'
  <2>1. server' \in [busy : BOOLEAN, count : 0 .. size, verdict : Verdicts] /\ down' \in Stream
    BY FinishType DEF IInv, TypeOK, Links, ServerAborts
  <2> QED
    BY <2>1 DEF IInv, TypeOK, Links, ServerAborts
<1>2. Counts'
  BY DEF IInv, TypeOK, Links, Counts, Ends, ServerAborts, Finish
<1>3. Ends'
  BY DEF IInv, TypeOK, Links, Ends, Places, Founded, ServerAborts, Finish
<1>4. Places'
  BY DEF IInv, TypeOK, Links, Ends, Places, Founded, ServerAborts, Finish
<1>5. Founded'
  BY DEF IInv, TypeOK, Links, Counts, Ends, Places, Founded, ServerAborts, Finish
<1>6. UploadIsWhole'
  BY DEF IInv, TypeOK, Links, Counts, Ends, Places, Founded, UploadIsWhole, ServerAborts, Finish
<1>7. DownloadIsWhole'
  BY DEF IInv, TypeOK, Links, Counts, Ends, Places, Founded, DownloadIsWhole, ServerAborts, Finish
<1>8. Links'
  BY DEF IInv, TypeOK, Links, Ends, Places, ServerAborts, Finish
<1> QED
  BY <1>1, <1>2, <1>3, <1>4, <1>5, <1>6, <1>7, <1>8 DEF IInv

LEMMA ConnectionLostKeeps ==
  ASSUME SocketAssumption, IInv, ConnectionLost
  PROVE  IInv'
<1>1. TypeOK'
  <2>1. server' \in [busy : BOOLEAN, count : 0 .. size, verdict : Verdicts]
    BY DEF IInv, TypeOK, Links, ConnectionLost
  <2>2. up' \in Stream /\ down' \in Stream
    BY LostType DEF ConnectionLost
  <2> QED
    BY <2>1, <2>2 DEF IInv, TypeOK, Links, ConnectionLost
<1>2. Counts'
  BY DEF IInv, TypeOK, Links, Counts, Ends, ConnectionLost
<1>3. Ends'
  BY DEF IInv, TypeOK, Links, Ends, Places, Founded, ConnectionLost
<1>4. Places'
  BY DEF IInv, TypeOK, Links, Ends, Places, Founded, ConnectionLost
<1>5. Founded'
  BY DEF IInv, TypeOK, Links, Counts, Ends, Places, Founded, ConnectionLost
<1>6. UploadIsWhole'
  BY DEF IInv, TypeOK, Links, Counts, Ends, Places, Founded, UploadIsWhole, ConnectionLost
<1>7. DownloadIsWhole'
  BY DEF IInv, TypeOK, Links, Counts, Ends, Places, Founded, DownloadIsWhole, ConnectionLost
<1>8. Links'
  BY DEF IInv, TypeOK, Links, Ends, Places, ConnectionLost
<1> QED
  BY <1>1, <1>2, <1>3, <1>4, <1>5, <1>6, <1>7, <1>8 DEF IInv

--------------------------------------------------------------------------------
(* The invariants.                                                         *)

LEMMA InitFounds == ASSUME SocketAssumption, Init PROVE IInv
<1>1. Fresh \in Stream
  BY DEF SocketAssumption, Fresh
<1>2. server \in [busy : BOOLEAN, count : 0 .. size, verdict : Verdicts] /\ moved \in 0 .. size
  BY DEF SocketAssumption, Init
<1>3. TypeOK
  BY <1>1, <1>2 DEF Init, TypeOK
<1>4. Counts /\ Ends /\ Places /\ Founded
  BY <1>3 DEF Init, TypeOK, Fresh, Counts, Ends, Places, Founded
<1>5. Links /\ UploadIsWhole /\ DownloadIsWhole
  BY <1>3 DEF Init, TypeOK, Fresh, Links, UploadIsWhole, DownloadIsWhole
<1> QED
  BY <1>3, <1>4, <1>5 DEF IInv

LEMMA StepKeeps == ASSUME SocketAssumption, IInv, [Next]_vars PROVE IInv'
<1>1. CASE ClientStep
  BY <1>1, OpenKeeps, AcceptKeeps, HandshakeKeeps, SendKeeps, RecvKeeps, LeaveKeeps,
     SocketFailsKeeps, AbortKeeps, DisconnectKeeps, SslShutdownKeeps, CloseKeeps DEF ClientStep
<1>2. CASE ServerStep \/ ServerGivesUp
  BY <1>2, GrantedKeeps, ServerConnectsKeeps, ServerSecuresKeeps, ServerReadsKeeps,
     ServerWritesKeeps, ServerHasAllKeeps,
     ServerMissesKeeps, ServerAbortsKeeps, ServerGivesUpKeeps DEF ServerStep
<1>3. CASE Mishap
  BY <1>3, RefusedKeeps, OpeningFailsKeeps, BreakOffKeeps, StreamFailsKeeps, AbortFailsKeeps,
     ServerDiesKeeps, ConnectionLostKeeps DEF Mishap
<1>4. CASE UNCHANGED vars
  BY <1>4 DEF vars, IInv, TypeOK, Links, Counts, Ends, Places, Founded, UploadIsWhole, DownloadIsWhole
<1> QED
  BY <1>1, <1>2, <1>3, <1>4 DEF Next

LEMMA Invariant == Spec => []IInv
<1>1. Init => IInv
  BY InitFounds, SocketAssumption
<1>2. IInv /\ [Next]_vars => IInv'
  BY StepKeeps, SocketAssumption
<1> QED
  BY <1>1, <1>2, PTL DEF Spec

\* For every file and window: blocks are counted within their bounds and what
\* the steps say of the sockets is of its type.
THEOREM SocketTypeCorrect == Spec => []TypeOK
<1>1. IInv => TypeOK
  BY DEF IInv
<1> QED
  BY <1>1, Invariant, PTL

\* A server takes only whole uploads for whole, with the exceptions that
\* UploadIsWhole names.
THEOREM UploadIsWholeCorrect == Spec => []UploadIsWhole
<1>1. IInv => UploadIsWhole
  BY DEF IInv
<1> QED
  BY <1>1, Invariant, PTL

\* The client takes only whole downloads for complete, with the exceptions
\* that DownloadIsWhole names.
THEOREM DownloadIsWholeCorrect == Spec => []DownloadIsWhole
<1>1. IInv => DownloadIsWhole
  BY DEF IInv
<1> QED
  BY <1>1, Invariant, PTL

--------------------------------------------------------------------------------
(* The client's end is a DataTransfer.                                     *)

LEMMA TransferInits == ASSUME SocketAssumption, Init PROVE Transfer!TransferInit
  BY DEF SocketAssumption, Init, Transfer!TransferInit

\* Every step moves a block, breaks the loop off, ends it, or is hidden.
LEMMA TransferSteps ==
  ASSUME SocketAssumption, IInv, IInv', [Next]_vars
  PROVE  [Transfer!TransferNext]_(Transfer!transfer)
<1> USE DEF Transfer!TransferNext, Transfer!transfer
<1>1. CASE Send \/ Recv
  <2>1. outcome = "moving" /\ moved' = moved + 1 /\ UNCHANGED <<size, outcome, cut>>
    BY <1>1 DEF Send, Recv, Looping
  <2>2. moved \in Nat /\ size \in Nat /\ moved + 1 <= size /\ 1 \in 1 .. size
    BY <2>1, <1>1 DEF SocketAssumption, IInv, TypeOK
  <2>3. Transfer!Move(1)
    BY <2>1, <2>2 DEF Transfer!Move
  <2> QED
    BY <2>2, <2>3
<1>2. CASE BreakOff
  BY <1>2 DEF BreakOff, Looping, Transfer!BreakOff
<1>3. CASE Leave
  <2>1. moved = size \/ cut
    BY <1>3 DEF Leave, IInv, Founded
  <2> QED
    BY <1>3, <2>1 DEF Leave, Looping, Transfer!Complete, Transfer!Abort
<1>4. CASE SocketFails \/ StreamFails
  BY <1>4 DEF SocketFails, StreamFails, Looping, Transfer!Fail
<1>5. CASE Open \/ Accept \/ Handshake \/ Abort \/ Disconnect \/ SslShutdown \/ Close
  BY <1>5 DEF Open, Accept, Handshake, Abort, Disconnect, SslShutdown, Close
<1>6. CASE ServerStep \/ ServerGivesUp
  BY <1>6 DEF ServerStep, ServerGivesUp, Granted, ServerReads, ServerWrites, ServerHasAll,
              ServerMisses, ServerAborts, ServerConnects, ServerSecures
<1>7. CASE Refused \/ OpeningFails \/ AbortFails \/ ServerDies \/ ConnectionLost
  BY <1>7 DEF Refused, OpeningFails, AbortFails, ServerDies, ConnectionLost
<1>8. CASE UNCHANGED vars
  BY <1>8 DEF vars
<1> QED
  BY <1>1, <1>2, <1>3, <1>4, <1>5, <1>6, <1>7, <1>8 DEF Next, ClientStep, Mishap

\* Over this socket, whatever the server and the network do, the loops of
\* data_connection keep what DataTransfer promises.
THEOREM SocketIsTransfer == Spec => ImplementsTransfer
<1>1. Init => Transfer!TransferInit
  BY TransferInits, SocketAssumption
<1>2. IInv /\ IInv' /\ [Next]_vars => [Transfer!TransferNext]_(Transfer!transfer)
  BY TransferSteps, SocketAssumption
<1> QED
  BY <1>1, <1>2, Invariant, PTL DEF Spec, ImplementsTransfer, Transfer!TransferSpec
================================================================================
