------------------------------ MODULE Transfer ------------------------------
(***************************************************************************)
(* A ShareSession and a ReceiveSession over one connection, with a network *)
(* that may drop the connection or damage a chunk, disks that may fail,    *)
(* and users that may give up: the code path of `yoop share' and           *)
(* `yoop receive'.                                                         *)
(***************************************************************************)
EXTENDS ShareSession, ReceiveSession

vars == <<senderVars, receiverVars, wireVars>>

(* The network drops the connection: a reset, or a peer that vanished and   *)
(* that TCP keep-alive gives up on.                                         *)
ConnectionLost ==
  /\ "loss" \in Faults
  /\ rEnd # "none"
  /\ ~lost
  /\ lost' = TRUE
  /\ UNCHANGED <<senderVars, receiverVars>>
  /\ UNCHANGED <<toReceiver, toSender, sEnd, rEnd, beacon>>

(* Bytes of a chunk in flight are altered; its checksum is not.             *)
ChunkDamaged ==
  /\ "corrupt" \in Faults
  /\ \E k \in DOMAIN toReceiver :
       /\ toReceiver[k].type = "ChunkData"
       /\ \E bytes \in WireData \ {toReceiver[k].data} :
            toReceiver' = [toReceiver EXCEPT ![k].data = bytes]
  /\ UNCHANGED <<senderVars, receiverVars>>
  /\ UNCHANGED <<toSender, sEnd, rEnd, lost, beacon>>

Init == SenderInit /\ ReceiverInit /\ WireInit

(* A step of one side leaves the other side's own variables alone.          *)
SenderStep == (SWait \/ SenderRuns \/ SCancel) /\ UNCHANGED receiverVars

ReceiverStep ==
  /\ \/ RConnect \/ RConnectFails \/ ReceiverRuns
     \/ RStartKeepAlive \/ KeepAliveRuns
     \/ \E op \in Ops : RCall(op)
     \/ WriteLands \/ WriteFails
     \/ RDrop
  /\ UNCHANGED senderVars

Next == SenderStep \/ ReceiverStep \/ ConnectionLost \/ ChunkDamaged

Spec == Init /\ [][Next]_vars

(* Tasks that can run are run, timers fire and buffered writes are          *)
(* performed.  Users and faults are not obliged to do anything.             *)
Fairness ==
  /\ WF_vars(SenderRuns /\ UNCHANGED receiverVars)
  /\ WF_vars(ReceiverRuns /\ UNCHANGED senderVars)
  /\ WF_vars(KeepAliveRuns /\ UNCHANGED senderVars)
  /\ WF_vars(WriteLands /\ UNCHANGED senderVars)

FairSpec == Spec /\ Fairness

-----------------------------------------------------------------------------

(* Every variable has its type: the frames on each channel are ones that    *)
(* side sends, and the loop counters of do_transfer stay within the list.   *)
TypeOK == WireTypeOK /\ SenderTypeOK /\ ReceiverTypeOK

(* What the output path of entry i holds when the sender's copy of it has   *)
(* been written in full.                                                    *)
Source(i) == IF i \in Dirs THEN Directory ELSE File(sent[i])

(* When accept() reports Completed, every entry of the list is on the       *)
(* receiver's disk with exactly the chunks the sender read, whatever was at *)
(* the output path before, whether chunks were compressed or not, and no    *)
(* write is outstanding or lost.                                            *)
CompletedDelivers ==
  rState = "Completed" =>
    flight = "none" /\ \A i \in Index : out[i] = Source(i)

(* When wait() reports Completed, the receiver has taken every chunk of     *)
(* every entry, and nothing but the last write of the last file can still   *)
(* go wrong: all earlier files are finalized.                               *)
SentMeansTaken ==
  sState = "Completed" =>
    /\ \A i \in Index : out[i] = Source(i)
    /\ flight # "none" => rCur = N

(* The code check guards the file list: FileList is only ever written for,  *)
(* and a session only exists for, a receiver that holds the share code.     *)
ListNeedsCode ==
  (\/ \E k \in DOMAIN toReceiver : toReceiver[k].type = "FileList"
   \/ rPc \in {"ready", "stopping", "resumeAck", "receive"})
     => rCode = ShareCode /\ via # "trusted"

(* The two sides never lose step: unless accept_with_resume is used,        *)
(* neither ever reads a frame of a type it does not expect, in particular   *)
(* no Pong of the keep-alive task is left for do_receive to find.           *)
NeverUnexpected ==
  "UnexpectedMessage" \in {sResult, rResult} => rOp = "accept_with_resume"

(* The sender does not compare the indices of a ChunkAck with what it sent; *)
(* they agree nevertheless.                                                 *)
AckIsForOutstanding ==
  sPc \in {"markerAck", "chunkAck"} /\ rOp # "accept_with_resume" =>
    \A k \in DOMAIN toSender :
      /\ toSender[k].type = "ChunkAck"
      /\ toSender[k].file_index = sFile
      /\ toSender[k].chunk_index = IF sPc = "chunkAck" THEN sChunk ELSE 1

(* A session that holds the stream itself has nothing unread on it, so what *)
(* accept() reads first is the answer to its FileListAck.                   *)
StreamCleanAtCall ==
  rPc \in {"ready", "stopping"} /\ rEnd = "open" /\ ka # "pong"
    => toReceiver = <<>>

(* The receiver only ever changes the entry the sender is at: entries that  *)
(* are complete are never touched again, later ones not yet.                *)
WritesFollowSender == [][\A i \in Index : out'[i] # out[i] => i = sFile]_vars

(* The transfer implements Delivery.                                        *)
Outcome(pc, state) ==
  IF state = "Completed" THEN "success"
  ELSE IF pc = "ended" THEN "failure" ELSE "running"

DeliveryOf == INSTANCE Delivery WITH
  src <- sent,
  dst <- out,
  cursor <- rCur,
  agreed <- rState \in {"Transferring", "Completed"},
  sOutcome <- Outcome(sPc, sState),
  rOutcome <- Outcome(rPc, rState)

(* Entries are copied in list order, chunk by chunk, each completed before  *)
(* the next is begun, only after accept, and a side reports Completed only  *)
(* when everything is copied.                                               *)
ImplementsDelivery == DeliveryOf!Spec

-----------------------------------------------------------------------------
(* Liveness, under FairSpec                                                 *)

(* Once accept() reads chunks both sides come to an end, whatever fails.    *)
AcceptEnds == rPc = "receive" ~> (rPc = "ended" /\ sPc = "ended")

(* A receiver that goes away does not leave a connected sender hanging.     *)
SenderNotOrphaned ==
  (rEnd = "closed" /\ sEnd = "open") ~> sEnd = "closed"
=============================================================================
