--------------------------- MODULE TransferProofs ---------------------------
(***************************************************************************)
(* What is proved about Transfer.  Every step of ShareSession, of          *)
(* ReceiveSession with its keep-alive task and of the network preserves    *)
(* the inductive invariant of TransferInv: one lemma per action, and under *)
(* it one step per group of conjuncts the action can disturb.  The         *)
(* invariant implies the safety properties, and Transfer implements        *)
(* Delivery.                                                               *)
(***************************************************************************)
EXTENDS TransferInv, TLAPS

(***************************************************************************)
(* What reading and writing do to a channel, and the types of the frames:  *)
(* the facts about sequences that the proofs about Transfer rest on.       *)
(***************************************************************************)

(* A sequence of length zero is the empty one.                              *)
LEMMA EmptyLen ==
  ASSUME NEW S, NEW q \in Seq(S), Len(q) = 0
  PROVE  q = <<>>
  OBVIOUS

(* The head of a channel is its first frame.                                *)
LEMMA HeadIs ==
  ASSUME NEW S, NEW q \in Seq(S), q # <<>>
  PROVE  Head(q) = q[1] /\ Head(q) \in S /\ Len(q) > 0
  OBVIOUS

(* Reading a frame leaves frames that were there.                           *)
LEMMA TailAny ==
  ASSUME NEW S, NEW q \in Seq(S), q # <<>>
  PROVE  /\ Tail(q) \in Seq(S)
         /\ \A k \in DOMAIN Tail(q) : \E j \in DOMAIN q : Tail(q)[k] = q[j]
  OBVIOUS

(* Reading the only frame empties the channel.                              *)
LEMMA TailOne ==
  ASSUME NEW S, NEW q \in Seq(S), Len(q) = 1
  PROVE  Tail(q) = <<>>
<1>1. q # <<>>
  OBVIOUS
<1>2. Tail(q) \in Seq(S) /\ Len(Tail(q)) = 0
  BY <1>1
<1> QED
  BY <1>2, EmptyLen

(* Reading the first of two frames leaves the second.                       *)
LEMMA TailTwo ==
  ASSUME NEW S, NEW q \in Seq(S), Len(q) = 2
  PROVE  Len(Tail(q)) = 1 /\ Tail(q)[1] = q[2]
<1>1. q # <<>>
  OBVIOUS
<1>2. Len(Tail(q)) = 1
  BY <1>1
<1>3. Tail(q)[1] = q[2]
  BY <1>1
<1> QED
  BY <1>2, <1>3

(* Frames make a sequence of frames.                                        *)
LEMMA SeqOf ==
  ASSUME NEW S, NEW a \in S, NEW b \in S
  PROVE  <<a>> \in Seq(S) /\ <<a, b>> \in Seq(S)
  OBVIOUS

(* write_frame adds the frames written, or nothing if the connection is     *)
(* lost.                                                                    *)
LEMMA WriteType ==
  ASSUME NEW S, NEW q \in Seq(S), NEW fs \in Seq(S)
  PROVE  write_frame(q, fs) \in Seq(S)
  BY DEF write_frame

(* A frame on the channel after a write is the one written or was there.    *)
LEMMA WriteOne ==
  ASSUME NEW S, NEW q \in Seq(S), NEW a \in S, NEW r, r = write_frame(q, <<a>>),
         NEW k \in DOMAIN r
  PROVE  r[k] = a \/ \E j \in DOMAIN q : r[k] = q[j]
  BY DEF write_frame

(* The same for a write of two frames.                                      *)
LEMMA WriteTwo ==
  ASSUME NEW S, NEW q \in Seq(S), NEW a \in S, NEW b \in S,
         NEW r, r = write_frame(q, <<a, b>>), NEW k \in DOMAIN r
  PROVE  r[k] = a \/ r[k] = b \/ \E j \in DOMAIN q : r[k] = q[j]
  BY DEF write_frame

(* Writing to an empty channel.                                             *)
LEMMA WriteEmpty ==
  ASSUME NEW a, NEW b
  PROVE  /\ write_frame(<<>>, <<a>>) \in {<<>>, <<a>>}
         /\ write_frame(<<>>, <<a, b>>) \in {<<>>, <<a, b>>}
<1>1. <<>> \o <<a>> = <<a>> /\ <<>> \o <<a, b>> = <<a, b>>
  OBVIOUS
<1> QED
  BY <1>1 DEF write_frame

(* The frames ShareSession writes are frames of its type.                   *)
LEMMA SenderFrames ==
  /\ Hello \in SenderFrame
  /\ FileList \in SenderFrame
  /\ Pong \in SenderFrame
  /\ TransferComplete \in SenderFrame
  /\ CodeVerifyAck(TRUE) \in SenderFrame /\ CodeVerifyAck(FALSE) \in SenderFrame
  /\ \A i \in Index, k \in Nat, n \in Nat : ChunkStart(i, k, n) \in SenderFrame
  /\ \A i \in Index, k \in Nat, bytes \in WireData :
       ChunkData(i, k, bytes) \in SenderFrame
<1>1. Hello \in SenderFrame /\ FileList \in SenderFrame
      /\ Pong \in SenderFrame /\ TransferComplete \in SenderFrame
  BY DEF SenderFrame, Hello, FileList, Pong, TransferComplete
<1>2. CodeVerifyAck(TRUE) \in SenderFrame /\ CodeVerifyAck(FALSE) \in SenderFrame
  BY DEF SenderFrame, CodeVerifyAck
<1>3. \A i \in Index, k \in Nat, n \in Nat : ChunkStart(i, k, n) \in SenderFrame
  BY DEF SenderFrame, ChunkStart
<1>4. ASSUME NEW i \in Index, NEW k \in Nat, NEW bytes \in WireData
      PROVE ChunkData(i, k, bytes) \in SenderFrame
  <2>1. bytes.algo \in {"None", "Zstd"} /\ xxh64(bytes) \in [xxh64 : WireData]
    BY DEF WireData, xxh64
  <2> QED
    BY <2>1 DEF SenderFrame, ChunkData
<1> QED
  BY <1>1, <1>2, <1>3, <1>4

(* The frames ReceiveSession writes are frames of its type.                 *)
LEMMA ReceiverFrames ==
  /\ Ping \in ReceiverFrame
  /\ ResumeRequest \in ReceiverFrame
  /\ HelloAck(TRUE) \in ReceiverFrame /\ HelloAck(FALSE) \in ReceiverFrame
  /\ \A code \in Codes : CodeVerify(code) \in ReceiverFrame
  /\ \A files \in SUBSET Index :
       /\ FileListAck(TRUE, files) \in ReceiverFrame
       /\ FileListAck(FALSE, files) \in ReceiverFrame
  /\ \A i \in Index, k \in Nat :
       /\ ChunkAck(i, k, TRUE) \in ReceiverFrame
       /\ ChunkAck(i, k, FALSE) \in ReceiverFrame
<1>1. Ping \in ReceiverFrame /\ ResumeRequest \in ReceiverFrame
  BY DEF ReceiverFrame, Ping, ResumeRequest
<1>2. HelloAck(TRUE) \in ReceiverFrame /\ HelloAck(FALSE) \in ReceiverFrame
  BY DEF ReceiverFrame, HelloAck
<1>3. \A code \in Codes : CodeVerify(code) \in ReceiverFrame
  BY DEF ReceiverFrame, CodeVerify, Hmac
<1>4. \A files \in SUBSET Index :
        /\ FileListAck(TRUE, files) \in ReceiverFrame
        /\ FileListAck(FALSE, files) \in ReceiverFrame
  BY DEF ReceiverFrame, FileListAck
<1>5. \A i \in Index, k \in Nat :
        /\ ChunkAck(i, k, TRUE) \in ReceiverFrame
        /\ ChunkAck(i, k, FALSE) \in ReceiverFrame
  BY DEF ReceiverFrame, ChunkAck
<1> QED
  BY <1>1, <1>2, <1>3, <1>4, <1>5

(* The fields of frames whose type is known.                                *)
LEMMA SenderFields ==
  ASSUME NEW m \in SenderFrame
  PROVE  /\ m.type = "ChunkStart" =>
              m.file_index \in Index /\ m.total_chunks \in Nat
         /\ m.type = "ChunkData" =>
              /\ m.file_index \in Index
              /\ m.chunk_index \in Nat
              /\ m.data \in WireData
  BY DEF SenderFrame

(* A step that leaves a side's variables alone leaves their types alone.    *)
LEMMA SenderKept ==
  ASSUME SenderTypeOK, UNCHANGED senderVars PROVE SenderTypeOK'
  BY DEF SenderTypeOK, senderVars

(* The same for the receiver.                                               *)
LEMMA ReceiverKept ==
  ASSUME ReceiverTypeOK, UNCHANGED receiverVars PROVE ReceiverTypeOK'
  BY DEF ReceiverTypeOK, receiverVars

-----------------------------------------------------------------------------
(* The steps of the sender.                                                 *)

USE DEF senderVars, receiverVars, wireVars, keepAliveVars, diskVars, callVars,
        One, Two, Handshaking, Sending, Deciding,
        SReturn, SError, SRead, SExpects, SReading,
        RReturn, RError, RRead, RExpects, RReading, RJoin

(* wait() is called. *)
LEMMA SWaitStep ==
  ASSUME IInv, SWait, UNCHANGED receiverVars
  PROVE  IInv'
<1>1. WireTypeOK'
  BY DEF IInv, TypeOK, WireTypeOK, SWait
<1>2. SenderTypeOK'
  BY DEF IInv, TypeOK, SenderTypeOK, SenderPc, TransferState, SWait
<1>3. (Ends /\ InStep /\ CodeShown)'
  BY DEF IInv, Ends, InStep, CodeShown, SWait
<1>4. (SenderChannel /\ ReceiverChannel /\ HalfDuplex)'
  BY DEF IInv, SenderChannel, ReceiverChannel, HalfDuplex, SWait
<1>5. Progress'
  BY DEF IInv, Progress, Index, SWait
<1>6. (FramesToReceiver /\ Outstanding /\ AcksToSender)'
  BY DEF IInv, FramesToReceiver, Outstanding, AcksToSender, Taken,
         CarriesChunk, Due, SWait
<1> QED
  BY <1>1, <1>2, <1>3, <1>4, <1>5, <1>6, ReceiverKept DEF IInv, TypeOK

(* A connection is accepted and Hello is sent on an empty channel. *)
LEMMA SAcceptStep ==
  ASSUME IInv, SAccept, UNCHANGED receiverVars
  PROVE  IInv'
<1>1. WireTypeOK'
  <2>1. <<Hello>> \in Seq(SenderFrame)
    BY SenderFrames
  <2>2. toReceiver' \in Seq(SenderFrame)
    BY <2>1, WriteType DEF IInv, TypeOK, WireTypeOK, SAccept
  <2> QED
    BY <2>2 DEF IInv, TypeOK, WireTypeOK, SAccept
<1>2. SenderTypeOK'
  BY DEF IInv, TypeOK, SenderTypeOK, SenderPc, TransferState, SAccept
<1>3. (Ends /\ InStep /\ CodeShown)'
  BY DEF IInv, Ends, InStep, CodeShown, write_frame, Hello, SAccept
<1>4. (SenderChannel /\ ReceiverChannel /\ HalfDuplex)'
  BY DEF IInv, Ends, InStep, SenderChannel, ReceiverChannel, HalfDuplex,
         write_frame, Hello, SAccept
<1>5. Progress'
  BY DEF IInv, Progress, Index, SAccept
<1>6. (FramesToReceiver /\ Outstanding /\ AcksToSender)'
  BY DEF IInv, InStep, FramesToReceiver, Outstanding, AcksToSender, SAccept
<1> QED
  BY <1>1, <1>2, <1>3, <1>4, <1>5, <1>6, ReceiverKept DEF IInv, TypeOK

(* The accepted connection is dead: wait() returns. *)
LEMMA SAcceptFailsStep ==
  ASSUME IInv, SAcceptFails, UNCHANGED receiverVars
  PROVE  IInv'
<1>1. WireTypeOK'
  BY DEF IInv, TypeOK, WireTypeOK, SAcceptFails
<1>2. SenderTypeOK'
  BY DEF IInv, TypeOK, SenderTypeOK, SenderPc, SenderResult, SAcceptFails
<1>3. (Ends /\ InStep /\ CodeShown)'
  BY DEF IInv, Ends, InStep, CodeShown, SAcceptFails
<1>4. (SenderChannel /\ ReceiverChannel /\ HalfDuplex)'
  BY DEF IInv, SenderChannel, ReceiverChannel, HalfDuplex, SAcceptFails
<1>5. Progress'
  BY DEF IInv, Progress, Index, SAcceptFails
<1>6. (FramesToReceiver /\ Outstanding /\ AcksToSender)'
  BY DEF IInv, FramesToReceiver, Outstanding, AcksToSender, Taken,
         CarriesChunk, Due, SAcceptFails
<1> QED
  BY <1>1, <1>2, <1>3, <1>4, <1>5, <1>6, ReceiverKept DEF IInv, TypeOK

(* wait() returns at a frame it does not expect, which only ResumeRequest   *)
(* can be.                                                                  *)
LEMMA SUnexpectedMessageStep ==
  ASSUME IInv, SUnexpectedMessage, UNCHANGED receiverVars
  PROVE  IInv'
<1>1. WireTypeOK'
  BY DEF IInv, TypeOK, WireTypeOK, SUnexpectedMessage
<1>2. SenderTypeOK'
  BY DEF IInv, TypeOK, SenderTypeOK, SenderPc, SenderResult,
         SUnexpectedMessage
<1>3. (Ends /\ InStep /\ CodeShown)'
  BY DEF IInv, Ends, InStep, CodeShown, SUnexpectedMessage
<1>4. (SenderChannel /\ ReceiverChannel /\ HalfDuplex)'
  BY DEF IInv, SenderChannel, ReceiverChannel, HalfDuplex, SUnexpectedMessage
<1>5. Progress'
  BY DEF IInv, Progress, Source, SUnexpectedMessage
<1>6. (FramesToReceiver /\ Outstanding /\ AcksToSender)'
  BY DEF IInv, FramesToReceiver, Outstanding, AcksToSender, Taken,
         CarriesChunk, Due, SUnexpectedMessage
<1> QED
  BY <1>1, <1>2, <1>3, <1>4, <1>5, <1>6, ReceiverKept DEF IInv, TypeOK

(* A read of wait() fails. *)
LEMMA SReadFailsStep ==
  ASSUME IInv, SReadFails, UNCHANGED receiverVars
  PROVE  IInv'
<1>1. WireTypeOK'
  BY DEF IInv, TypeOK, WireTypeOK, SReadFails
<1>2. SenderTypeOK'
  BY DEF IInv, TypeOK, SenderTypeOK, SenderPc, SenderResult, SReadFails
<1>3. (Ends /\ InStep /\ CodeShown)'
  BY DEF IInv, Ends, InStep, CodeShown, SReadFails
<1>4. (SenderChannel /\ ReceiverChannel /\ HalfDuplex)'
  BY DEF IInv, SenderChannel, ReceiverChannel, HalfDuplex, SReadFails
<1>5. Progress'
  BY DEF IInv, Progress, Source, SReadFails
<1>6. (FramesToReceiver /\ Outstanding /\ AcksToSender)'
  BY DEF IInv, FramesToReceiver, Outstanding, AcksToSender, Taken,
         CarriesChunk, Due, SReadFails
<1> QED
  BY <1>1, <1>2, <1>3, <1>4, <1>5, <1>6, ReceiverKept DEF IInv, TypeOK

(* do_handshake reads HelloAck. *)
LEMMA SReadHelloAckStep ==
  ASSUME IInv, SReadHelloAck, UNCHANGED receiverVars
  PROVE  IInv'
<1>1. WireTypeOK'
  BY DEF IInv, TypeOK, WireTypeOK, SReadHelloAck
<1>2. SenderTypeOK'
  BY DEF IInv, TypeOK, SenderTypeOK, SenderPc, SReadHelloAck
<1>3. (Ends /\ InStep /\ CodeShown)'
  BY DEF IInv, Ends, InStep, CodeShown, HalfDuplex, SReadHelloAck
<1>4. (SenderChannel /\ ReceiverChannel /\ HalfDuplex)'
  BY DEF IInv, Ends, InStep, SenderChannel, ReceiverChannel, HalfDuplex,
         SReadHelloAck
<1>5. Progress'
  BY DEF IInv, Progress, Index, SReadHelloAck
<1>6. (FramesToReceiver /\ Outstanding /\ AcksToSender)'
  BY DEF IInv, FramesToReceiver, Outstanding, AcksToSender, Taken,
         CarriesChunk, Due, SReadHelloAck
<1> QED
  BY <1>1, <1>2, <1>3, <1>4, <1>5, <1>6, ReceiverKept DEF IInv, TypeOK

(* do_code_verification: a receiver that shows the code gets the file list. *)
LEMMA SReadCodeVerifyStep ==
  ASSUME IInv, SReadCodeVerify, UNCHANGED receiverVars
  PROVE  IInv'
<1>1. WireTypeOK'
  <2>1. toSender' \in Seq(ReceiverFrame)
    BY TailAny DEF IInv, TypeOK, WireTypeOK, SReadCodeVerify
  <2>2. <<CodeVerifyAck(TRUE), FileList>> \in Seq(SenderFrame)
        /\ <<CodeVerifyAck(FALSE)>> \in Seq(SenderFrame)
    BY SenderFrames, SeqOf, Zenon
  <2>3. toReceiver' \in Seq(SenderFrame)
    BY <2>2, WriteType DEF IInv, TypeOK, WireTypeOK, SReadCodeVerify
  <2> QED
    BY <2>1, <2>3 DEF IInv, TypeOK, WireTypeOK, SReadCodeVerify
<1>2. SenderTypeOK'
  BY DEF IInv, TypeOK, SenderTypeOK, SenderPc, SenderResult, SReadCodeVerify
<1>3. Ends'
  BY DEF IInv, Ends, SReadCodeVerify
<1>4. InStep'
  BY DEF IInv, InStep, SReadCodeVerify
<1>5. CodeShown'
  <2>1. One(toSender, "CodeVerify") /\ Head(toSender) = toSender[1] /\ toSender' = <<>>
    BY HeadIs, TailOne DEF IInv, TypeOK, WireTypeOK, SenderChannel, SReadCodeVerify
  <2>2. toSender[1].code_hmac = Hmac(rCode) /\ via # "trusted"
    BY <2>1 DEF IInv, CodeShown
  <2>3. toReceiver = <<>>
    BY DEF IInv, HalfDuplex, SReadCodeVerify
  <2>4. CASE CodeMatches(Head(toSender))
    <3>1. rCode = ShareCode
      BY <2>1, <2>2, <2>4 DEF CodeMatches, Hmac
    <3> QED
      BY <2>1, <2>2, <3>1 DEF IInv, CodeShown, SReadCodeVerify
  <2>5. CASE ~CodeMatches(Head(toSender))
    <3>1. toReceiver' \in {<<>>, <<CodeVerifyAck(FALSE)>>} /\ sPc' = "ended"
      BY <2>3, <2>5, WriteEmpty DEF SReadCodeVerify
    <3>2. \A k \in DOMAIN toReceiver' :
            toReceiver'[k].type = "CodeVerifyAck" /\ ~toReceiver'[k].success
      BY <3>1 DEF CodeVerifyAck
    <3> QED
      BY <2>1, <3>1, <3>2 DEF IInv, CodeShown, SReadCodeVerify
  <2> QED
    BY <2>4, <2>5
<1>6. SenderChannel'
  BY DEF IInv, SenderChannel, SReadCodeVerify
<1>7. ReceiverChannel'
  <2>1. toReceiver = <<>> /\ One(toSender, "CodeVerify")
    BY HeadIs DEF IInv, TypeOK, WireTypeOK, SenderChannel, HalfDuplex, SReadCodeVerify
  <2>2. toReceiver' \in {<<>>, <<CodeVerifyAck(TRUE), FileList>>, <<CodeVerifyAck(FALSE)>>}
    BY <2>1, WriteEmpty DEF SReadCodeVerify
  <2>3. /\ Two(<<CodeVerifyAck(TRUE), FileList>>, "CodeVerifyAck", "FileList")
        /\ <<CodeVerifyAck(TRUE), FileList>>[1].success
        /\ One(<<CodeVerifyAck(FALSE)>>, "CodeVerifyAck")
        /\ ~<<CodeVerifyAck(FALSE)>>[1].success
    BY DEF CodeVerifyAck, FileList
  <2>4. via # "trusted"
    BY <2>1 DEF IInv, CodeShown
  <2>5. rPc \in {"codeAck", "ended"}
    BY <2>4 DEF IInv, InStep, SReadCodeVerify
  <2> QED
    BY <2>2, <2>3, <2>5 DEF ReceiverChannel
<1>8. HalfDuplex'
  BY DEF IInv, TypeOK, WireTypeOK, InStep, SenderChannel, HalfDuplex,
         SReadCodeVerify
<1>9. Progress'
  BY DEF IInv, Progress, Index, SReadCodeVerify
<1>10. (FramesToReceiver /\ Outstanding /\ AcksToSender)'
  BY DEF IInv, InStep, FramesToReceiver, Outstanding, AcksToSender,
         SReadCodeVerify
<1> QED
  BY <1>1, <1>2, <1>3, <1>4, <1>5, <1>6, <1>7, <1>8, <1>9, <1>10, ReceiverKept
     DEF IInv, TypeOK

(* A Ping is answered while the receiver's task waits for it. *)
LEMMA SAnswerPingStep ==
  ASSUME IInv, SAnswerPing, UNCHANGED receiverVars
  PROVE  IInv'
<1>1. WireTypeOK'
  <2>1. toSender' \in Seq(ReceiverFrame)
    BY TailAny DEF IInv, TypeOK, WireTypeOK, SAnswerPing
  <2>2. <<Pong>> \in Seq(SenderFrame)
    BY SenderFrames
  <2>3. toReceiver' \in Seq(SenderFrame)
    BY <2>2, WriteType DEF IInv, TypeOK, WireTypeOK, SAnswerPing
  <2> QED
    BY <2>1, <2>3 DEF IInv, TypeOK, WireTypeOK, SAnswerPing
<1>2. SenderTypeOK'
  BY DEF IInv, TypeOK, SenderTypeOK, SAnswerPing
<1>3. (Ends /\ InStep /\ CodeShown)'
  BY DEF IInv, TypeOK, WireTypeOK, Ends, InStep, CodeShown, SAnswerPing
<1>4. SenderChannel'
  BY DEF IInv, SenderChannel, SAnswerPing
<1>5. ReceiverChannel'
  <2>1. toSender \in Seq(ReceiverFrame) /\ One(toSender, "Ping")
    BY HeadIs DEF IInv, TypeOK, WireTypeOK, SenderChannel, SAnswerPing
  <2>2. rPc \in Deciding \cup {"ended"} /\ (rEnd = "open" => ka = "pong" \/ rPc = "ended")
    BY <2>1 DEF IInv, TypeOK, ReceiverTypeOK, ReceiverPc, InStep, HalfDuplex, SAnswerPing
  <2>3. rPc \in Deciding /\ rEnd = "open" => toReceiver = <<>>
    BY <2>1 DEF IInv, HalfDuplex, SAnswerPing
  <2>4. rPc \in Deciding /\ rEnd = "open" => toReceiver' \in {<<>>, <<Pong>>}
    BY <2>3, WriteEmpty DEF SAnswerPing
  <2>5. Len(<<Pong>>) = 1 /\ <<Pong>>[1].type = "Pong"
    BY DEF Pong
  <2> QED
    BY <2>2, <2>4, <2>5 DEF ReceiverChannel, SAnswerPing
<1>6. HalfDuplex'
  <2>1. toSender \in Seq(ReceiverFrame) /\ One(toSender, "Ping")
    BY HeadIs DEF IInv, TypeOK, WireTypeOK, SenderChannel, SAnswerPing
  <2>2. toSender' = <<>>
    BY <2>1, TailOne DEF SAnswerPing
  <2>3. rPc \in Deciding \cup {"ended"}
    BY <2>1 DEF IInv, TypeOK, ReceiverTypeOK, ReceiverPc, InStep, HalfDuplex, SAnswerPing
  <2> QED
    BY <2>2, <2>3 DEF IInv, HalfDuplex, SAnswerPing
<1>7. Progress'
  BY DEF IInv, Progress, Index, SAnswerPing
<1>8. (FramesToReceiver /\ Outstanding /\ AcksToSender)'
  BY DEF IInv, SenderChannel, HalfDuplex, FramesToReceiver, Outstanding,
         AcksToSender, SAnswerPing
<1> QED
  BY <1>1, <1>2, <1>3, <1>4, <1>5, <1>6, <1>7, <1>8, ReceiverKept
     DEF IInv, TypeOK

(* do_file_list_exchange returns with the receiver's decision. *)
LEMMA SReadFileListAckStep ==
  ASSUME IInv, SReadFileListAck, UNCHANGED receiverVars
  PROVE  IInv'
<1>1. WireTypeOK'
  BY DEF IInv, TypeOK, WireTypeOK, SReadFileListAck
<1>2. SenderTypeOK'
  BY DEF IInv, TypeOK, SenderTypeOK, SenderPc, TransferState, SenderResult,
         SReadFileListAck
<1>3. Ends'
  BY DEF IInv, Ends, SReadFileListAck
<1>4. InStep'
  <2>1. toSender[1].type = "FileListAck" /\ toSender # <<>> /\ Len(toSender) > 0
    BY HeadIs DEF IInv, TypeOK, WireTypeOK, SReadFileListAck
  <2>2. rPc \notin Deciding \cup {"codeAck", "fileList"}
    BY <2>1 DEF IInv, HalfDuplex, SReadFileListAck
  <2> QED
    BY <2>2 DEF IInv, TypeOK, ReceiverTypeOK, ReceiverPc, InStep, SReadFileListAck
<1>5. CodeShown'
  BY DEF IInv, Ends, InStep, CodeShown, SReadFileListAck
<1>6. (SenderChannel /\ ReceiverChannel /\ HalfDuplex)'
  BY DEF IInv, SenderChannel, ReceiverChannel, HalfDuplex, SReadFileListAck
<1>7. Progress'
  BY DEF IInv, Progress, Index, SReadFileListAck
<1>8. (FramesToReceiver /\ Outstanding /\ AcksToSender)'
  BY DEF IInv, FramesToReceiver, Outstanding, AcksToSender, Taken,
         CarriesChunk, Due, SReadFileListAck
<1> QED
  BY <1>1, <1>2, <1>3, <1>4, <1>5, <1>6, <1>7, <1>8, ReceiverKept
     DEF IInv, TypeOK

(* do_transfer sends a directory marker to a receiver one entry behind. *)
LEMMA SSendDirectoryStep ==
  ASSUME IInv, SSendDirectory, UNCHANGED receiverVars
  PROVE  IInv'
<1>1. WireTypeOK'
  <2>1. <<ChunkStart(sFile, 1, 0)>> \in Seq(SenderFrame)
    BY SenderFrames, FileListAssumption DEF SSendDirectory
  <2>2. toReceiver' \in Seq(SenderFrame)
    BY <2>1, WriteType DEF IInv, TypeOK, WireTypeOK, SSendDirectory
  <2> QED
    BY <2>2 DEF IInv, TypeOK, WireTypeOK, SSendDirectory
<1>2. SenderTypeOK'
  BY DEF IInv, TypeOK, SenderTypeOK, SenderPc, SSendDirectory
<1>3. (Ends /\ InStep /\ CodeShown)'
  BY DEF IInv, Ends, InStep, CodeShown, SSendDirectory
<1>4. (SenderChannel /\ ReceiverChannel /\ HalfDuplex)'
  BY DEF IInv, InStep, SenderChannel, ReceiverChannel, HalfDuplex, ChunkStart,
         write_frame, SSendDirectory
<1>5. Progress'
  BY FileListAssumption DEF IInv, Progress, Source, SSendDirectory
<1>6. FramesToReceiver'
  <2>1. toReceiver' \in {<<>>, <<ChunkStart(sFile, 1, 0)>>}
    BY WriteEmpty DEF IInv, HalfDuplex, SSendDirectory
  <2>2. sFile' \in Index /\ sent'[sFile'] = <<>> /\ rCur' = sFile' - 1
    BY FileListAssumption DEF IInv, Progress, SSendDirectory
  <2>3. CASE toReceiver' = <<>>
    BY <2>3 DEF FramesToReceiver
  <2>4. CASE toReceiver' = <<ChunkStart(sFile, 1, 0)>>
    <3>1. Len(toReceiver') = 1 /\ toReceiver'[1] = ChunkStart(sFile, 1, 0)
      BY <2>4
    <3>2. /\ toReceiver'[1].type = "ChunkStart"
          /\ toReceiver'[1].file_index = sFile'
          /\ toReceiver'[1].total_chunks = 0
      BY <3>1 DEF ChunkStart, SSendDirectory
    <3> QED
      BY <2>2, <3>1, <3>2 DEF FramesToReceiver, Due, Taken, CarriesChunk
  <2> QED
    BY <2>1, <2>3, <2>4
<1>7. Outstanding'
  <2>1. toReceiver' \in {<<>>, <<ChunkStart(sFile, 1, 0)>>}
    BY WriteEmpty DEF IInv, HalfDuplex, SSendDirectory
  <2>2. One(<<ChunkStart(sFile, 1, 0)>>, "ChunkStart")
    BY DEF ChunkStart
  <2> QED
    BY <2>1, <2>2 DEF Outstanding, SSendDirectory
<1>8. AcksToSender'
  BY DEF IInv, SenderChannel, AcksToSender, SSendDirectory
<1> QED
  BY <1>1, <1>2, <1>3, <1>4, <1>5, <1>6, <1>7, <1>8, ReceiverKept
     DEF IInv, TypeOK

(* do_transfer reads the file of the next entry. *)
LEMMA SReadFileStep ==
  ASSUME IInv, SReadFile, UNCHANGED receiverVars
  PROVE  IInv'
<1>1. WireTypeOK'
  <2>1. <<ChunkStart(sFile, 1, 0)>> \in Seq(SenderFrame)
    BY SenderFrames, FileListAssumption DEF SReadFile
  <2>2. \/ toReceiver' = toReceiver
        \/ toReceiver' = write_frame(toReceiver, <<ChunkStart(sFile, 1, 0)>>)
    BY DEF SReadFile
  <2>3. toReceiver' \in Seq(SenderFrame)
    BY <2>1, <2>2, WriteType DEF IInv, TypeOK, WireTypeOK
  <2> QED
    BY <2>3 DEF IInv, TypeOK, WireTypeOK, SReadFile
<1>2. SenderTypeOK'
  <2>1. \E c \in Seq(Chunk) : sent' = [sent EXCEPT ![sFile] = c]
    BY ShareAssumption DEF SReadFile, Readable
  <2>2. sent' \in [Index -> Seq(Chunk)]
    BY <2>1 DEF IInv, TypeOK, SenderTypeOK
  <2> QED
    BY <2>2 DEF IInv, TypeOK, SenderTypeOK, SReadFile, SenderPc
<1>3. (Ends /\ InStep /\ CodeShown)'
  BY DEF IInv, Ends, InStep, CodeShown, SReadFile
<1>4. (SenderChannel /\ ReceiverChannel /\ HalfDuplex)'
  BY DEF IInv, InStep, SenderChannel, ReceiverChannel, HalfDuplex, ChunkStart,
         write_frame, SReadFile
<1>5. Progress'
  <2>1. PICK c \in Seq(Chunk) :
          /\ sent' = [sent EXCEPT ![sFile] = c]
          /\ IF c = <<>> THEN sPc' = "markerAck" ELSE sPc' = "chunk"
    BY ShareAssumption DEF SReadFile, Readable
  <2>2. sFile \in Index \ Dirs /\ rCur = sFile - 1 /\ sFile' = sFile /\ sChunk' = 1
    BY DEF IInv, Progress, SReadFile
  <2>3. sent'[sFile] = c /\ \A i \in Index \ {sFile} : sent'[i] = sent[i]
    BY <2>1, <2>2 DEF IInv, TypeOK, SenderTypeOK
  <2>4. \A i \in Index : i < sFile' => out'[i] = Source(i)'
    BY <2>2, <2>3, FileListAssumption DEF IInv, Progress, Source, SReadFile, Index
  <2>5. \A i \in Dirs : sent'[i] = <<>>
    BY <2>2, <2>3, FileListAssumption DEF IInv, Progress
  <2>6. sPc' = "chunk" => sChunk' \in 1..Len(sent'[sFile'])
    BY <2>1, <2>2, <2>3
  <2>7. Due'
    BY <2>2 DEF Due
  <2>8. rPc = "receive" /\ rCur \in Index \ Dirs /\ sent'[rCur] # <<>> => rWriter
    BY <2>2, <2>3, FileListAssumption DEF IInv, Progress, Index
  <2>9. sState # "Completed" /\ rState # "Completed"
    BY <2>2, FileListAssumption DEF IInv, Progress, SReadFile, Index
  <2> QED
    BY <2>1, <2>2, <2>3, <2>4, <2>5, <2>6, <2>7, <2>8, <2>9 DEF IInv, Progress, SReadFile
<1>6. FramesToReceiver'
  <2>1. PICK c \in Seq(Chunk) :
          /\ sent' = [sent EXCEPT ![sFile] = c]
          /\ IF c = <<>>
             THEN toReceiver' = write_frame(toReceiver, <<ChunkStart(sFile, 1, 0)>>)
             ELSE toReceiver' = toReceiver
    BY ShareAssumption DEF SReadFile, Readable
  <2>2. sFile' \in Index /\ sFile' = sFile /\ rCur' = sFile' - 1 /\ sent'[sFile'] = c
    BY <2>1 DEF IInv, TypeOK, SenderTypeOK, Progress, SReadFile
  <2>3. toReceiver = <<>>
    BY DEF IInv, HalfDuplex, SReadFile
  <2>4. toReceiver' = <<>> \/ (toReceiver' = <<ChunkStart(sFile, 1, 0)>> /\ c = <<>>)
    BY <2>1, <2>3, WriteEmpty
  <2>5. CASE toReceiver' = <<>>
    BY <2>5 DEF FramesToReceiver
  <2>6. CASE toReceiver' = <<ChunkStart(sFile, 1, 0)>> /\ c = <<>>
    <3>1. Len(toReceiver') = 1 /\ toReceiver'[1] = ChunkStart(sFile, 1, 0)
      BY <2>6
    <3>2. /\ toReceiver'[1].type = "ChunkStart"
          /\ toReceiver'[1].file_index = sFile'
          /\ toReceiver'[1].total_chunks = 0
      BY <2>2, <3>1 DEF ChunkStart
    <3> QED
      BY <2>2, <2>6, <3>1, <3>2 DEF FramesToReceiver, Due, Taken, CarriesChunk
  <2> QED
    BY <2>4, <2>5, <2>6
<1>7. Outstanding'
  <2>1. sPc' = "chunk" \/ (sPc' = "markerAck" /\ toReceiver' \in {<<>>, <<ChunkStart(sFile, 1, 0)>>})
    BY WriteEmpty DEF IInv, HalfDuplex, SReadFile
  <2>2. One(<<ChunkStart(sFile, 1, 0)>>, "ChunkStart")
    BY DEF ChunkStart
  <2> QED
    BY <2>1, <2>2 DEF Outstanding
<1>8. AcksToSender'
  BY DEF IInv, SenderChannel, AcksToSender, SReadFile
<1> QED
  BY <1>1, <1>2, <1>3, <1>4, <1>5, <1>6, <1>7, <1>8, ReceiverKept
     DEF IInv, TypeOK

(* The file of the next entry cannot be read. *)
LEMMA SReadFileFailsStep ==
  ASSUME IInv, SReadFileFails, UNCHANGED receiverVars
  PROVE  IInv'
<1>1. WireTypeOK'
  BY DEF IInv, TypeOK, WireTypeOK, SReadFileFails
<1>2. SenderTypeOK'
  BY DEF IInv, TypeOK, SenderTypeOK, SenderPc, SenderResult, SReadFileFails
<1>3. (Ends /\ InStep /\ CodeShown)'
  BY DEF IInv, Ends, InStep, CodeShown, SReadFileFails
<1>4. (SenderChannel /\ ReceiverChannel /\ HalfDuplex)'
  BY DEF IInv, SenderChannel, ReceiverChannel, HalfDuplex, SReadFileFails
<1>5. Progress'
  BY DEF IInv, Progress, Source, SReadFileFails
<1>6. (FramesToReceiver /\ Outstanding /\ AcksToSender)'
  BY DEF IInv, FramesToReceiver, Outstanding, AcksToSender, Taken,
         CarriesChunk, Due, SReadFileFails
<1> QED
  BY <1>1, <1>2, <1>3, <1>4, <1>5, <1>6, ReceiverKept DEF IInv, TypeOK

(* do_transfer sends the chunk that is due. *)
LEMMA SSendChunkStep ==
  ASSUME IInv, SSendChunk, UNCHANGED receiverVars
  PROVE  IInv'
<1>1. WireTypeOK'
  <2>1. PICK bytes \in {Raw(sent[sFile][sChunk]), compress(sent[sFile][sChunk])} :
          toReceiver' = write_frame(toReceiver,
                          <<ChunkStart(sFile, sChunk, Len(sent[sFile])),
                            ChunkData(sFile, sChunk, bytes)>>)
    BY DEF SSendChunk
  <2>2. sFile \in Index /\ sChunk \in Nat /\ sent[sFile] \in Seq(Chunk)
        /\ sent[sFile][sChunk] \in Chunk
    BY DEF IInv, TypeOK, SenderTypeOK, Progress, SSendChunk
  <2>3. bytes \in WireData
    BY <2>2 DEF WireData, Raw, compress
  <2>4. ChunkStart(sFile, sChunk, Len(sent[sFile])) \in SenderFrame
        /\ ChunkData(sFile, sChunk, bytes) \in SenderFrame
    BY <2>2, <2>3, SenderFrames
  <2>5. toReceiver' \in Seq(SenderFrame)
    BY <2>1, <2>4, SeqOf, WriteType DEF IInv, TypeOK, WireTypeOK
  <2> QED
    BY <2>5 DEF IInv, TypeOK, WireTypeOK, SSendChunk
<1>2. SenderTypeOK'
  BY DEF IInv, TypeOK, SenderTypeOK, SenderPc, SSendChunk
<1>3. (Ends /\ InStep /\ CodeShown)'
  BY DEF IInv, Ends, InStep, CodeShown, SSendChunk
<1>4. (SenderChannel /\ ReceiverChannel /\ HalfDuplex)'
  BY DEF IInv, InStep, SenderChannel, ReceiverChannel, HalfDuplex, ChunkData,
         ChunkStart, write_frame, SSendChunk
<1>5. Progress'
  BY DEF IInv, Progress, Source, SSendChunk
<1>6. FramesToReceiver'
  <2>1. PICK bytes \in {Raw(sent[sFile][sChunk]), compress(sent[sFile][sChunk])} :
          toReceiver' = write_frame(toReceiver,
                          <<ChunkStart(sFile, sChunk, Len(sent[sFile])),
                            ChunkData(sFile, sChunk, bytes)>>)
    BY DEF SSendChunk
  <2>2. /\ sFile' \in Index \ Dirs
        /\ sChunk' \in 1..Len(sent'[sFile'])
        /\ Due'
    BY DEF IInv, Progress, SSendChunk, Due, Taken
  <2>3. \/ toReceiver' = <<>>
        \/ toReceiver' = <<ChunkStart(sFile, sChunk, Len(sent[sFile])),
                           ChunkData(sFile, sChunk, bytes)>>
    BY <2>1, WriteEmpty DEF IInv, HalfDuplex, SSendChunk
  <2>4. CASE toReceiver' = <<>>
    BY <2>4 DEF FramesToReceiver
  <2>5. CASE toReceiver' = <<ChunkStart(sFile, sChunk, Len(sent[sFile])),
                             ChunkData(sFile, sChunk, bytes)>>
    <3>1. /\ Len(toReceiver') = 2
          /\ toReceiver'[1] = ChunkStart(sFile, sChunk, Len(sent[sFile]))
          /\ toReceiver'[2] = ChunkData(sFile, sChunk, bytes)
      BY <2>5
    <3>2. /\ toReceiver'[1].type = "ChunkStart"
          /\ toReceiver'[1].file_index = sFile'
          /\ toReceiver'[1].total_chunks = Len(sent'[sFile'])
      BY <3>1 DEF ChunkStart, SSendChunk
    <3>3. /\ toReceiver'[2].file_index = sFile'
          /\ toReceiver'[2].chunk_index = sChunk'
          /\ toReceiver'[2].checksum = xxh64(bytes)
      BY <3>1 DEF ChunkData, SSendChunk
    <3>4. CarriesChunk(toReceiver[2])'
      BY <3>3 DEF CarriesChunk, SSendChunk
    <3> QED
      BY <2>2, <3>1, <3>2, <3>3, <3>4 DEF FramesToReceiver
  <2> QED
    BY <2>3, <2>4, <2>5
<1>7. Outstanding'
  <2>1. PICK bytes : toReceiver' = write_frame(toReceiver,
                          <<ChunkStart(sFile, sChunk, Len(sent[sFile])),
                            ChunkData(sFile, sChunk, bytes)>>)
    BY DEF SSendChunk
  <2>2. \/ toReceiver' = <<>>
        \/ toReceiver' = <<ChunkStart(sFile, sChunk, Len(sent[sFile])),
                           ChunkData(sFile, sChunk, bytes)>>
    BY <2>1, WriteEmpty DEF IInv, HalfDuplex, SSendChunk
  <2>3. Two(<<ChunkStart(sFile, sChunk, Len(sent[sFile])),
              ChunkData(sFile, sChunk, bytes)>>, "ChunkStart", "ChunkData")
    BY DEF ChunkStart, ChunkData
  <2> QED
    BY <2>2, <2>3 DEF Outstanding, SSendChunk
<1>8. AcksToSender'
  BY DEF IInv, SenderChannel, AcksToSender, SSendChunk
<1> QED
  BY <1>1, <1>2, <1>3, <1>4, <1>5, <1>6, <1>7, <1>8, ReceiverKept
     DEF IInv, TypeOK

(* The ack of a marker says that the entry is in place. *)
LEMMA SReadMarkerAckStep ==
  ASSUME IInv, SReadMarkerAck, UNCHANGED receiverVars
  PROVE  IInv'
<1>1. WireTypeOK'
  BY DEF IInv, TypeOK, WireTypeOK, SReadMarkerAck
<1>2. SenderTypeOK'
  <2>1. sFile \in Index
    BY DEF IInv, Progress, SReadMarkerAck
  <2>2. sFile' \in {sFile, sFile + 1} /\ sPc' \in {"entry", "ended"}
        /\ sResult' \in {sResult, "ProtocolError"}
    BY DEF SReadMarkerAck, NextEntry
  <2> QED
    BY <2>1, <2>2, FileListAssumption
       DEF IInv, TypeOK, SenderTypeOK, SReadMarkerAck, SenderPc, SenderResult, Index
<1>3. (Ends /\ InStep /\ CodeShown)'
  BY DEF IInv, Ends, InStep, CodeShown, SReadMarkerAck
<1>4. (SenderChannel /\ ReceiverChannel /\ HalfDuplex)'
  BY DEF IInv, SenderChannel, ReceiverChannel, HalfDuplex, Acked,
         SReadMarkerAck
<1>5. Progress'
  <2>1. One(toSender, "ChunkAck") /\ Head(toSender) = toSender[1]
    BY HeadIs DEF IInv, TypeOK, WireTypeOK, SenderChannel, SReadMarkerAck
  <2>2. CASE sPc' = "entry"
    <3>1. toSender[1].success /\ sFile' = sFile + 1
      BY <2>1, <2>2 DEF SReadMarkerAck, Acked, NextEntry
    <3>2. rCur = sFile /\ out[sFile] = Source(sFile) /\ sFile \in Index
      BY <2>1, <3>1 DEF IInv, AcksToSender, Progress, SReadMarkerAck
    <3>3. \A i \in Index : i < sFile' => out'[i] = Source(i)'
      BY <3>1, <3>2 DEF IInv, Progress, Source, SReadMarkerAck, Index
    <3>4. rCur' = sFile' - 1
      BY <3>1, <3>2 DEF Index
    <3> QED
      BY <2>2, <3>1, <3>2, <3>3, <3>4, FileListAssumption DEF IInv, Progress, SReadMarkerAck, Index
  <2>3. CASE sPc' = "ended"
    <3>1. UNCHANGED <<sFile, sent, sState>>
      BY <2>3 DEF SReadMarkerAck
    <3> QED
      BY <2>3, <3>1 DEF IInv, Progress, Source, SReadMarkerAck
  <2> QED
    BY <2>2, <2>3 DEF SReadMarkerAck
<1>6. (FramesToReceiver /\ Outstanding /\ AcksToSender)'
  BY DEF IInv, HalfDuplex, FramesToReceiver, Outstanding, AcksToSender,
         SReadMarkerAck
<1> QED
  BY <1>1, <1>2, <1>3, <1>4, <1>5, <1>6, ReceiverKept DEF IInv, TypeOK

(* The ack of a chunk says that the chunk is in place; after the last one   *)
(* so is the file.                                                          *)
LEMMA SReadChunkAckStep ==
  ASSUME IInv, SReadChunkAck, UNCHANGED receiverVars
  PROVE  IInv'
<1>1. WireTypeOK'
  BY DEF IInv, TypeOK, WireTypeOK, SReadChunkAck
<1>2. SenderTypeOK'
  <2>1. sFile \in Index /\ sChunk \in 1..Len(sent[sFile])
    BY DEF IInv, Progress, SReadChunkAck
  <2>2. /\ sFile' \in {sFile, sFile + 1}
        /\ sChunk' \in {1, sChunk, sChunk + 1}
        /\ sBytes' \in {sBytes, sBytes + 1}
    BY DEF SReadChunkAck, NextEntry
  <2>3. /\ sPc' \in {"entry", "chunk", "ended"}
        /\ sResult' \in {sResult, "ChecksumMismatch"}
    BY DEF SReadChunkAck
  <2> QED
    BY <2>1, <2>2, <2>3, FileListAssumption
       DEF IInv, TypeOK, SenderTypeOK, SReadChunkAck, SenderPc, SenderResult, Index
<1>3. (Ends /\ InStep /\ CodeShown)'
  BY DEF IInv, Ends, InStep, CodeShown, SReadChunkAck
<1>4. (SenderChannel /\ ReceiverChannel /\ HalfDuplex)'
  BY DEF IInv, SenderChannel, ReceiverChannel, HalfDuplex, SReadChunkAck
<1>5. Progress'
  <2>1. One(toSender, "ChunkAck") /\ Head(toSender) = toSender[1]
    BY HeadIs DEF IInv, TypeOK, WireTypeOK, SenderChannel, SReadChunkAck
  <2>2. /\ sFile \in Index \ Dirs
        /\ sChunk \in 1..Len(sent[sFile])
        /\ sent[sFile] \in Seq(Chunk)
    BY DEF IInv, TypeOK, SenderTypeOK, Progress, SReadChunkAck
  <2>3. toSender[1].success => rCur = sFile /\ Taken(sChunk)
    BY <2>1 DEF IInv, AcksToSender, SReadChunkAck
  <2>4. CASE sPc' = "entry"
    <3>1. sChunk = Len(sent[sFile]) /\ sFile' = sFile + 1 /\ toSender[1].success
      BY <2>1, <2>4 DEF SReadChunkAck, Acked, NextEntry
    <3>2. out[sFile] = Source(sFile)
      <4>1. out[sFile] \in OutputEntry
        BY <2>2 DEF IInv, TypeOK, ReceiverTypeOK
      <4>2. out[sFile].data = sent[sFile]
        BY <2>2, <2>3, <3>1, <4>1 DEF Taken, OutputEntry
      <4> QED
        BY <2>2, <2>3, <3>1, <4>1, <4>2 DEF Taken, Source, File, OutputEntry
    <3>3. \A i \in Index : i < sFile' => out'[i] = Source(i)'
      BY <2>2, <3>1, <3>2 DEF IInv, Progress, Source, SReadChunkAck, Index
    <3>4. rCur' = sFile' - 1
      BY <2>2, <2>3, <3>1 DEF Index
    <3> QED
      BY <2>2, <2>4, <3>1, <3>3, <3>4, FileListAssumption
         DEF IInv, Progress, SReadChunkAck, Index
  <2>5. CASE sPc' = "chunk"
    <3>1. /\ sChunk # Len(sent[sFile])
          /\ sFile' = sFile
          /\ sChunk' = sChunk + 1
          /\ toSender[1].success
      BY <2>1, <2>5 DEF SReadChunkAck, Acked
    <3>2. Due'
      BY <2>2, <2>3, <3>1 DEF Due, Taken, SReadChunkAck
    <3>3. sChunk' \in 1..Len(sent'[sFile'])
      BY <2>2, <3>1 DEF SReadChunkAck
    <3> QED
      BY <2>2, <2>5, <3>1, <3>2, <3>3 DEF IInv, Progress, Source, SReadChunkAck
  <2>6. CASE sPc' = "ended"
    <3>1. UNCHANGED <<sFile, sChunk, sent, sState>>
      BY <2>6 DEF SReadChunkAck
    <3> QED
      BY <2>6, <3>1 DEF IInv, Progress, Source, SReadChunkAck
  <2> QED
    BY <2>4, <2>5, <2>6 DEF SReadChunkAck
<1>6. (FramesToReceiver /\ Outstanding /\ AcksToSender)'
  BY DEF IInv, HalfDuplex, FramesToReceiver, Outstanding, AcksToSender,
         SReadChunkAck
<1> QED
  BY <1>1, <1>2, <1>3, <1>4, <1>5, <1>6, ReceiverKept DEF IInv, TypeOK

(* TransferComplete is sent when every entry is in place. *)
LEMMA SSendCompleteStep ==
  ASSUME IInv, SSendComplete, UNCHANGED receiverVars
  PROVE  IInv'
<1>1. WireTypeOK'
  <2>1. <<TransferComplete>> \in Seq(SenderFrame)
    BY SenderFrames
  <2> QED
    BY <2>1, WriteType DEF IInv, TypeOK, WireTypeOK, SSendComplete
<1>2. SenderTypeOK'
  BY DEF IInv, TypeOK, SenderTypeOK, SenderPc, SSendComplete
<1>3. (Ends /\ InStep /\ CodeShown)'
  BY DEF IInv, Ends, InStep, CodeShown, SSendComplete
<1>4. (SenderChannel /\ ReceiverChannel /\ HalfDuplex)'
  BY DEF IInv, InStep, SenderChannel, ReceiverChannel, HalfDuplex,
         write_frame, TransferComplete, SSendComplete
<1>5. Progress'
  BY DEF IInv, Progress, Source, SSendComplete
<1>6. FramesToReceiver'
  <2>1. toReceiver' \in {<<>>, <<TransferComplete>>}
    BY WriteEmpty DEF IInv, HalfDuplex, SSendComplete
  <2>2. toReceiver' # <<>> => toReceiver'[1].type = "TransferComplete"
    BY <2>1 DEF TransferComplete
  <2> QED
    BY <2>2 DEF FramesToReceiver, SSendComplete
<1>7. Outstanding'
  BY DEF Outstanding, SSendComplete
<1>8. AcksToSender'
  BY DEF AcksToSender, SSendComplete
<1> QED
  BY <1>1, <1>2, <1>3, <1>4, <1>5, <1>6, <1>7, <1>8, ReceiverKept
     DEF IInv, TypeOK

(* TransferComplete cannot be written. *)
LEMMA SSendCompleteFailsStep ==
  ASSUME IInv, SSendCompleteFails, UNCHANGED receiverVars
  PROVE  IInv'
<1>1. WireTypeOK'
  BY DEF IInv, TypeOK, WireTypeOK, SSendCompleteFails
<1>2. SenderTypeOK'
  BY DEF IInv, TypeOK, SenderTypeOK, SenderPc, SenderResult,
         SSendCompleteFails
<1>3. (Ends /\ InStep /\ CodeShown)'
  BY DEF IInv, Ends, InStep, CodeShown, SSendCompleteFails
<1>4. (SenderChannel /\ ReceiverChannel /\ HalfDuplex)'
  BY DEF IInv, SenderChannel, ReceiverChannel, HalfDuplex, SSendCompleteFails
<1>5. Progress'
  BY DEF IInv, Progress, Source, SSendCompleteFails
<1>6. (FramesToReceiver /\ Outstanding /\ AcksToSender)'
  BY DEF IInv, FramesToReceiver, Outstanding, AcksToSender, Taken,
         CarriesChunk, Due, SSendCompleteFails
<1> QED
  BY <1>1, <1>2, <1>3, <1>4, <1>5, <1>6, ReceiverKept DEF IInv, TypeOK

(* wait() reports Completed. *)
LEMMA SFinishStep ==
  ASSUME IInv, SFinish, UNCHANGED receiverVars
  PROVE  IInv'
<1>1. WireTypeOK'
  <2> QED
    BY Zenon DEF IInv, TypeOK, WireTypeOK, SFinish
<1>2. SenderTypeOK'
  BY DEF IInv, TypeOK, SenderTypeOK, SenderPc, TransferState, SenderResult,
         SFinish
<1>3. (Ends /\ InStep /\ CodeShown)'
  BY DEF IInv, Ends, InStep, CodeShown, SFinish
<1>4. (SenderChannel /\ ReceiverChannel /\ HalfDuplex)'
  BY DEF IInv, SenderChannel, ReceiverChannel, HalfDuplex, SFinish
<1>5. Progress'
  BY DEF IInv, Progress, Source, SFinish
<1>6. (FramesToReceiver /\ Outstanding /\ AcksToSender)'
  BY DEF IInv, FramesToReceiver, Outstanding, AcksToSender, Taken,
         CarriesChunk, Due, SFinish
<1> QED
  BY <1>1, <1>2, <1>3, <1>4, <1>5, <1>6, ReceiverKept DEF IInv, TypeOK

(* The sender's user interrupts wait(). *)
LEMMA SCancelStep ==
  ASSUME IInv, SCancel, UNCHANGED receiverVars
  PROVE  IInv'
<1>1. WireTypeOK'
  <2> QED
    BY Zenon DEF IInv, TypeOK, WireTypeOK, SCancel
<1>2. SenderTypeOK'
  BY DEF IInv, TypeOK, SenderTypeOK, SenderPc, TransferState, SenderResult,
         SCancel
<1>3. (Ends /\ InStep /\ CodeShown)'
  BY DEF IInv, Ends, InStep, CodeShown, SCancel
<1>4. (SenderChannel /\ ReceiverChannel /\ HalfDuplex)'
  BY DEF IInv, SenderChannel, ReceiverChannel, HalfDuplex, SCancel
<1>5. Progress'
  BY DEF IInv, Progress, Source, SCancel
<1>6. (FramesToReceiver /\ Outstanding /\ AcksToSender)'
  BY DEF IInv, FramesToReceiver, Outstanding, AcksToSender, Taken,
         CarriesChunk, Due, SCancel
<1> QED
  BY <1>1, <1>2, <1>3, <1>4, <1>5, <1>6, ReceiverKept DEF IInv, TypeOK


-----------------------------------------------------------------------------
(* The steps of the receiver, of its keep-alive task and of the network.    *)

(* What a frame on its way to the sender may be once the receiver has       *)
(* answered Hello.                                                          *)
LEMMA HelloAnswer ==
  ASSUME IInv, RReadHello, NEW k \in DOMAIN toSender'
  PROVE  \/ toSender'[k].type = "HelloAck"
         \/ toSender'[k] = CodeVerify(rCode) /\ via # "trusted"
         \/ \E j \in DOMAIN toSender : toSender'[k] = toSender[j]
<1>1. rCode \in Codes /\ toSender \in Seq(ReceiverFrame)
  BY DEF IInv, TypeOK, WireTypeOK, ReceiverTypeOK
<1> DEFINE no == HelloAck(FALSE)
           yes == HelloAck(TRUE)
           verify == CodeVerify(rCode)
<1>2. no \in ReceiverFrame /\ yes \in ReceiverFrame /\ verify \in ReceiverFrame
  BY <1>1, ReceiverFrames, Zenon
<1>3. no.type = "HelloAck" /\ yes.type = "HelloAck"
  BY DEF HelloAck
<1>4. \/ toSender' = write_frame(toSender, <<no>>)
      \/ toSender' = write_frame(toSender, <<yes, verify>>) /\ via # "trusted"
  BY DEF RReadHello
<1> HIDE DEF no, yes, verify
<1>5. CASE toSender' = write_frame(toSender, <<no>>)
  BY <1>1, <1>2, <1>3, <1>5, WriteOne
<1>6. CASE toSender' = write_frame(toSender, <<yes, verify>>) /\ via # "trusted"
  BY <1>1, <1>2, <1>3, <1>6, WriteTwo DEF verify
<1> QED
  BY <1>4, <1>5, <1>6

(* What a frame on its way to the sender may be once the user has accepted. *)
LEMMA AcceptAnswer ==
  ASSUME IInv, RAccept, NEW k \in DOMAIN toSender'
  PROVE  \/ toSender'[k].type = "FileListAck"
         \/ toSender'[k] = ResumeRequest /\ rOp = "accept_with_resume"
         \/ \E j \in DOMAIN toSender : toSender'[k] = toSender[j]
<1>1. /\ selected \in SUBSET Index
      /\ Index \in SUBSET Index
      /\ toSender \in Seq(ReceiverFrame)
  BY DEF IInv, TypeOK, WireTypeOK, ReceiverTypeOK
<1> DEFINE all == FileListAck(TRUE, Index)
           some == FileListAck(TRUE, selected)
<1>2. all \in ReceiverFrame /\ some \in ReceiverFrame /\ ResumeRequest \in ReceiverFrame
  BY <1>1, ReceiverFrames, Zenon
<1>3. all.type = "FileListAck" /\ some.type = "FileListAck"
  BY DEF FileListAck
<1>4. \/ toSender' = write_frame(toSender, <<some>>)
      \/ toSender' = write_frame(toSender, <<all, ResumeRequest>>) /\ rOp = "accept_with_resume"
  BY DEF RAccept
<1> HIDE DEF all, some
<1>5. CASE toSender' = write_frame(toSender, <<some>>)
  BY <1>1, <1>2, <1>3, <1>5, WriteOne
<1>6. CASE toSender' = write_frame(toSender, <<all, ResumeRequest>>) /\ rOp = "accept_with_resume"
  BY <1>1, <1>2, <1>3, <1>6, WriteTwo
<1> QED
  BY <1>4, <1>5, <1>6

(* Where the two sides are when do_receive reads a ChunkStart for another   *)
(* entry than the current one: it is for the entry the sender is at, and    *)
(* either a marker, or followed by the first chunk of a file.               *)
LEMMA AtChunkStart ==
  ASSUME IInv, RChunkStart
  PROVE  /\ toReceiver \in Seq(SenderFrame) /\ toSender \in Seq(ReceiverFrame)
         /\ Head(toReceiver).file_index = sFile
         /\ sFile \in Index /\ rCur = sFile - 1
         /\ sPc # "ended" => toSender = <<>>
         /\ \/ /\ toReceiver' = <<>>
               /\ sPc \in {"markerAck", "ended"}
               /\ Head(toReceiver).total_chunks = 0
               /\ sent[sFile] = <<>>
               /\ StartIsAcked(Head(toReceiver))
            \/ /\ Len(toReceiver') = 1
               /\ toReceiver'[1] = toReceiver[2]
               /\ toReceiver[2].type = "ChunkData"
               /\ sPc \in {"chunkAck", "ended"}
               /\ sFile \notin Dirs
               /\ sChunk = 1
               /\ Head(toReceiver).total_chunks = Len(sent[sFile])
               /\ Len(sent[sFile]) > 0
               /\ ~StartIsAcked(Head(toReceiver))
               /\ toReceiver[2].file_index = sFile
               /\ toReceiver[2].chunk_index = sChunk
               /\ CarriesChunk(toReceiver[2])
<1>1. /\ toReceiver \in Seq(SenderFrame)
      /\ toSender \in Seq(ReceiverFrame)
      /\ sent \in [Index -> Seq(Chunk)]
      /\ sPc \in SenderPc
  BY DEF IInv, TypeOK, WireTypeOK, SenderTypeOK
<1>2. /\ rPc = "receive"
      /\ toReceiver # <<>>
      /\ toReceiver[1].type = "ChunkStart"
      /\ Head(toReceiver) = toReceiver[1]
      /\ rCur # Head(toReceiver).file_index
      /\ toReceiver' = Tail(toReceiver)
  BY <1>1, HeadIs DEF RChunkStart
<1>3. One(toReceiver, "ChunkStart") \/ Two(toReceiver, "ChunkStart", "ChunkData")
  BY <1>2 DEF IInv, ReceiverChannel
<1>4. sFile \in Index /\ toReceiver[1].file_index = sFile /\ rCur = sFile - 1
  BY <1>2 DEF IInv, FramesToReceiver, Progress
<1>5. sPc \in {"markerAck", "chunkAck", "ended"}
  <2>1. sFile # N + 1
    BY <1>4, FileListAssumption DEF Index
  <2> QED
    BY <1>1, <1>2, <2>1 DEF IInv, InStep, HalfDuplex, Progress, SenderPc
<1>6. sPc # "ended" => toSender = <<>>
  <2>1. ~One(toSender, "ResumeRequest")
    BY <1>1, <1>2 DEF IInv, HalfDuplex
  <2> QED
    BY <1>2, <2>1 DEF IInv, HalfDuplex
<1>7. CASE One(toReceiver, "ChunkStart")
  <2>1. toReceiver[1].total_chunks = 0 /\ sent[sFile] = <<>>
    BY <1>2, <1>7 DEF IInv, FramesToReceiver
  <2>2. sPc # "chunkAck"
    BY <1>2, <1>7 DEF IInv, Outstanding
  <2>3. toReceiver' = <<>>
    BY <1>1, <1>2, <1>7, TailOne
  <2> QED
    BY <1>1, <1>2, <1>4, <1>5, <1>6, <2>1, <2>2, <2>3 DEF StartIsAcked
<1>8. CASE Two(toReceiver, "ChunkStart", "ChunkData")
  <2>1. /\ sFile \notin Dirs
        /\ sChunk \in 1..Len(sent[sFile])
        /\ toReceiver[1].total_chunks = Len(sent[sFile])
        /\ Due
        /\ toReceiver[2].file_index = sFile
        /\ toReceiver[2].chunk_index = sChunk
        /\ CarriesChunk(toReceiver[2])
    BY <1>2, <1>8 DEF IInv, FramesToReceiver
  <2>2. sChunk = 1
    BY <1>4, <2>1 DEF Due, Index
  <2>3. sPc # "markerAck"
    BY <1>2, <1>8 DEF IInv, Outstanding
  <2>4. Len(toReceiver') = 1 /\ toReceiver'[1] = toReceiver[2]
    BY <1>1, <1>2, <1>8, TailTwo
  <2>5. Len(sent[sFile]) > 0
    BY <1>1, <1>4, <2>1, <2>2
  <2>6. ~StartIsAcked(Head(toReceiver))
    BY <1>2, <1>4, <2>1, <2>5 DEF StartIsAcked
  <2> QED
    BY <1>1, <1>2, <1>4, <1>5, <1>6, <1>8, <2>1, <2>2, <2>3, <2>4, <2>5, <2>6
<1> QED
  BY <1>3, <1>7, <1>8

(* Where the two sides are when do_receive reads a ChunkData: it is for the *)
(* chunk the sender is at, and the chunks before it are in the output.      *)
LEMMA AtChunkData ==
  ASSUME IInv, RRead("receive", Head(toReceiver)),
         Head(toReceiver).type = "ChunkData"
  PROVE  /\ toSender \in Seq(ReceiverFrame)
         /\ Head(toReceiver) \in SenderFrame
         /\ toReceiver' = <<>>
         /\ sPc \in {"chunkAck", "ended"}
         /\ sPc # "ended" => toSender = <<>>
         /\ sFile \in Index \ Dirs
         /\ sChunk \in 1..Len(sent[sFile])
         /\ rCur = sFile
         /\ Taken(sChunk - 1)
         /\ Head(toReceiver).file_index = sFile
         /\ Head(toReceiver).chunk_index = sChunk
         /\ CarriesChunk(Head(toReceiver))
<1>1. /\ toReceiver \in Seq(SenderFrame)
      /\ toSender \in Seq(ReceiverFrame)
      /\ sPc \in SenderPc
  BY DEF IInv, TypeOK, WireTypeOK, SenderTypeOK
<1>2. /\ rPc = "receive"
      /\ toReceiver # <<>>
      /\ toReceiver[1].type = "ChunkData"
      /\ Head(toReceiver) = toReceiver[1]
      /\ Head(toReceiver) \in SenderFrame
      /\ toReceiver' = Tail(toReceiver)
  BY <1>1, HeadIs
<1>3. One(toReceiver, "ChunkData")
  BY <1>2 DEF IInv, ReceiverChannel
<1>4. /\ sFile \in Index \ Dirs
      /\ sChunk \in 1..Len(sent[sFile])
      /\ rCur = sFile
      /\ Taken(sChunk - 1)
      /\ toReceiver[1].file_index = sFile
      /\ toReceiver[1].chunk_index = sChunk
      /\ CarriesChunk(toReceiver[1])
  BY <1>2 DEF IInv, FramesToReceiver
<1>5. sPc \in {"chunkAck", "ended"}
  <2>1. sFile # N + 1
    BY <1>4, FileListAssumption DEF Index
  <2> QED
    BY <1>1, <1>2, <1>3, <2>1 DEF IInv, InStep, HalfDuplex, Progress, Outstanding, SenderPc
<1>6. sPc # "ended" => toSender = <<>>
  <2>1. ~One(toSender, "ResumeRequest")
    BY <1>1, <1>2 DEF IInv, HalfDuplex
  <2> QED
    BY <1>2, <2>1 DEF IInv, HalfDuplex
<1>7. toReceiver' = <<>>
  BY <1>1, <1>2, <1>3, TailOne
<1> QED
  BY <1>1, <1>2, <1>4, <1>5, <1>6, <1>7

(* The receiver connects. *)
LEMMA RConnectStep ==
  ASSUME IInv, RConnect, UNCHANGED senderVars
  PROVE  IInv'
<1>1. WireTypeOK'
  BY DEF IInv, TypeOK, WireTypeOK, RConnect
<1>2. ReceiverTypeOK'
  BY DEF IInv, TypeOK, ReceiverTypeOK, ReceiverPc, RConnect
<1>3. (Ends /\ InStep /\ CodeShown)'
  BY DEF IInv, Ends, InStep, CodeShown, RConnect
<1>4. (SenderChannel /\ ReceiverChannel /\ HalfDuplex)'
  BY DEF IInv, InStep, SenderChannel, ReceiverChannel, HalfDuplex, RConnect
<1>5. Progress'
  BY DEF IInv, Progress, Due, Source, Index, RConnect
<1>6. (FramesToReceiver /\ Outstanding /\ AcksToSender)'
  BY DEF IInv, FramesToReceiver, Outstanding, AcksToSender, Taken, Source,
         RConnect
<1> QED
  BY <1>1, <1>2, <1>3, <1>4, <1>5, <1>6, SenderKept DEF IInv, TypeOK

(* No share is found or nobody listens. *)
LEMMA RConnectFailsStep ==
  ASSUME IInv, RConnectFails, UNCHANGED senderVars
  PROVE  IInv'
<1>1. WireTypeOK'
  BY DEF IInv, TypeOK, WireTypeOK, RConnectFails
<1>2. ReceiverTypeOK'
  BY DEF IInv, TypeOK, ReceiverTypeOK, ReceiverPc, ReceiverResult,
         RConnectFails
<1>3. (Ends /\ InStep /\ CodeShown)'
  BY DEF IInv, Ends, InStep, CodeShown, RConnectFails
<1>4. (SenderChannel /\ ReceiverChannel /\ HalfDuplex)'
  BY DEF IInv, SenderChannel, ReceiverChannel, HalfDuplex, RConnectFails
<1>5. Progress'
  BY DEF IInv, Progress, Due, Source, Index, RConnectFails
<1>6. (FramesToReceiver /\ Outstanding /\ AcksToSender)'
  BY DEF IInv, FramesToReceiver, Outstanding, AcksToSender, Taken, Source,
         RConnectFails
<1> QED
  BY <1>1, <1>2, <1>3, <1>4, <1>5, <1>6, SenderKept DEF IInv, TypeOK

(* The receiver returns at a frame it does not expect: accept_with_resume   *)
(* at its ResumeAck.                                                        *)
LEMMA RUnexpectedMessageStep ==
  ASSUME IInv, RUnexpectedMessage, UNCHANGED senderVars
  PROVE  IInv'
<1>1. WireTypeOK'
  BY DEF IInv, TypeOK, WireTypeOK, RUnexpectedMessage
<1>2. ReceiverTypeOK'
  BY DEF IInv, TypeOK, ReceiverTypeOK, ReceiverPc, ReceiverResult,
         RUnexpectedMessage
<1>3. (Ends /\ InStep /\ CodeShown)'
  BY DEF IInv, TypeOK, WireTypeOK, Ends, InStep, CodeShown, RUnexpectedMessage
<1>4. (SenderChannel /\ ReceiverChannel /\ HalfDuplex)'
  BY DEF IInv, InStep, SenderChannel, ReceiverChannel, HalfDuplex,
         RUnexpectedMessage
<1>5. Progress'
  BY DEF IInv, Progress, Taken, Due, Source, RUnexpectedMessage
<1>6. (FramesToReceiver /\ Outstanding /\ AcksToSender)'
  BY DEF IInv, FramesToReceiver, Outstanding, AcksToSender, Taken, Source,
         RUnexpectedMessage
<1> QED
  BY <1>1, <1>2, <1>3, <1>4, <1>5, <1>6, SenderKept DEF IInv, TypeOK

(* A read of the receiver fails. *)
LEMMA RReadFailsStep ==
  ASSUME IInv, RReadFails, UNCHANGED senderVars
  PROVE  IInv'
<1>1. WireTypeOK'
  BY DEF IInv, TypeOK, WireTypeOK, RReadFails
<1>2. ReceiverTypeOK'
  BY DEF IInv, TypeOK, ReceiverTypeOK, ReceiverPc, ReceiverResult, RReadFails
<1>3. (Ends /\ InStep /\ CodeShown)'
  BY DEF IInv, Ends, InStep, CodeShown, RReadFails
<1>4. (SenderChannel /\ ReceiverChannel /\ HalfDuplex)'
  BY DEF IInv, SenderChannel, ReceiverChannel, HalfDuplex, RReadFails
<1>5. Progress'
  BY DEF IInv, Progress, Taken, Due, Source, RReadFails
<1>6. (FramesToReceiver /\ Outstanding /\ AcksToSender)'
  BY DEF IInv, FramesToReceiver, Outstanding, AcksToSender, Taken, Source,
         RReadFails
<1> QED
  BY <1>1, <1>2, <1>3, <1>4, <1>5, <1>6, SenderKept DEF IInv, TypeOK

(* do_handshake answers Hello and shows the code. *)
LEMMA RReadHelloStep ==
  ASSUME IInv, RReadHello, UNCHANGED senderVars
  PROVE  IInv'
<1>1. WireTypeOK'
  <2>1. toReceiver' \in Seq(SenderFrame)
    BY TailAny DEF IInv, TypeOK, WireTypeOK, RReadHello
  <2>2. rCode \in Codes
    BY DEF IInv, TypeOK, ReceiverTypeOK
  <2>3. <<HelloAck(FALSE)>> \in Seq(ReceiverFrame)
        /\ <<HelloAck(TRUE), CodeVerify(rCode)>> \in Seq(ReceiverFrame)
    BY <2>2, ReceiverFrames, SeqOf, Zenon
  <2>4. toSender' \in Seq(ReceiverFrame)
    BY <2>3, WriteType DEF IInv, TypeOK, WireTypeOK, RReadHello
  <2> QED
    BY <2>1, <2>4 DEF IInv, TypeOK, WireTypeOK, RReadHello
<1>2. ReceiverTypeOK'
  BY DEF IInv, TypeOK, ReceiverTypeOK, ReceiverPc, RReadHello
<1>3. Ends'
  BY DEF IInv, Ends, RReadHello
<1>4. InStep'
  BY DEF IInv, InStep, HalfDuplex, RReadHello
<1>5. CodeShown'
  <2>1. toReceiver' = <<>>
    BY TailOne DEF IInv, TypeOK, WireTypeOK, ReceiverChannel, RReadHello
  <2>2. sPc \notin {"listAck"} \cup Sending
    BY DEF IInv, InStep, RReadHello
  <2>3. ASSUME NEW k \in DOMAIN toSender', toSender'[k].type = "CodeVerify"
        PROVE  toSender'[k].code_hmac = Hmac(rCode) /\ via # "trusted"
    <3>1. CASE \E j \in DOMAIN toSender : toSender'[k] = toSender[j]
      BY <2>3, <3>1 DEF IInv, CodeShown
    <3>2. CASE via = "trusted"
      BY <2>3, <3>1, <3>2, HelloAnswer
    <3>3. CASE via # "trusted"
      BY <2>3, <3>1, <3>3, HelloAnswer DEF CodeVerify
    <3> QED
      BY <3>2, <3>3
  <2> QED
    BY <2>1, <2>2, <2>3 DEF IInv, CodeShown, RReadHello
<1>6. SenderChannel'
  <2>1. One(toReceiver, "Hello")
    BY DEF IInv, ReceiverChannel, RReadHello
  <2>2. sPc \in {"helloAck", "ended"}
    BY <2>1 DEF IInv, TypeOK, SenderTypeOK, SenderPc, InStep, HalfDuplex, RReadHello
  <2>3. sPc = "helloAck" => toSender = <<>>
    BY DEF IInv, HalfDuplex, RReadHello
  <2>4. sPc = "helloAck" =>
          toSender' \in {<<>>, <<HelloAck(FALSE)>>, <<HelloAck(TRUE), CodeVerify(rCode)>>}
    BY <2>3, WriteEmpty DEF RReadHello
  <2>5. /\ One(<<HelloAck(FALSE)>>, "HelloAck")
        /\ Two(<<HelloAck(TRUE), CodeVerify(rCode)>>, "HelloAck", "CodeVerify")
    BY DEF HelloAck, CodeVerify
  <2> QED
    BY <2>2, <2>4, <2>5 DEF SenderChannel, RReadHello
<1>7. ReceiverChannel'
  BY DEF IInv, ReceiverChannel, RReadHello
<1>8. HalfDuplex'
  <2>1. One(toReceiver, "Hello") /\ toReceiver' = <<>>
    BY TailOne DEF IInv, TypeOK, WireTypeOK, ReceiverChannel, RReadHello
  <2>2. sPc \in {"helloAck", "ended"}
    BY <2>1 DEF IInv, TypeOK, SenderTypeOK, SenderPc, InStep, HalfDuplex, RReadHello
  <2>3. \A j \in DOMAIN toSender : toSender[j].type # "ResumeRequest"
    BY DEF IInv, HalfDuplex, RReadHello
  <2>4. \A k \in DOMAIN toSender' : toSender'[k].type # "ResumeRequest"
    BY <2>3, HelloAnswer DEF CodeVerify
  <2> QED
    BY <2>1, <2>2, <2>4 DEF IInv, HalfDuplex, RReadHello
<1>9. Progress'
  BY DEF IInv, Progress, Due, Source, Index, RReadHello
<1>10. (FramesToReceiver /\ Outstanding /\ AcksToSender)'
  BY DEF IInv, FramesToReceiver, Outstanding, AcksToSender, RReadHello
<1> QED
  BY <1>1, <1>2, <1>3, <1>4, <1>5, <1>6, <1>7, <1>8, <1>9, <1>10, SenderKept
     DEF IInv, TypeOK

(* do_trusted_handshake meets another device. *)
LEMMA RTrustMismatchStep ==
  ASSUME IInv, RTrustMismatch, UNCHANGED senderVars
  PROVE  IInv'
<1>1. WireTypeOK'
  BY DEF IInv, TypeOK, WireTypeOK, RTrustMismatch
<1>2. ReceiverTypeOK'
  BY DEF IInv, TypeOK, ReceiverTypeOK, ReceiverPc, ReceiverResult,
         RTrustMismatch
<1>3. (Ends /\ InStep /\ CodeShown)'
  BY DEF IInv, Ends, InStep, CodeShown, RTrustMismatch
<1>4. (SenderChannel /\ ReceiverChannel /\ HalfDuplex)'
  BY DEF IInv, SenderChannel, ReceiverChannel, HalfDuplex, RTrustMismatch
<1>5. Progress'
  BY DEF IInv, Progress, Due, Source, Index, RTrustMismatch
<1>6. (FramesToReceiver /\ Outstanding /\ AcksToSender)'
  BY DEF IInv, FramesToReceiver, Outstanding, AcksToSender, RTrustMismatch
<1> QED
  BY <1>1, <1>2, <1>3, <1>4, <1>5, <1>6, SenderKept DEF IInv, TypeOK

(* do_code_verification learns the sender's verdict. *)
LEMMA RReadCodeAckStep ==
  ASSUME IInv, RReadCodeAck, UNCHANGED senderVars
  PROVE  IInv'
<1>1. WireTypeOK'
  BY DEF IInv, TypeOK, WireTypeOK, RReadCodeAck
<1>2. ReceiverTypeOK'
  BY DEF IInv, TypeOK, ReceiverTypeOK, ReceiverPc, ReceiverResult,
         RReadCodeAck
<1>3. (Ends /\ InStep /\ CodeShown)'
  BY DEF IInv, TypeOK, Ends, InStep, CodeShown, HalfDuplex, RReadCodeAck
<1>4. (SenderChannel /\ ReceiverChannel /\ HalfDuplex)'
  BY DEF IInv, SenderChannel, ReceiverChannel, HalfDuplex, RReadCodeAck
<1>5. Progress'
  BY DEF IInv, Progress, Due, Source, Index, RReadCodeAck
<1>6. (FramesToReceiver /\ Outstanding /\ AcksToSender)'
  BY DEF IInv, FramesToReceiver, Outstanding, AcksToSender, RReadCodeAck
<1> QED
  BY <1>1, <1>2, <1>3, <1>4, <1>5, <1>6, SenderKept DEF IInv, TypeOK

(* receive_file_list: only a sender that verified the code sends one. *)
LEMMA RReadFileListStep ==
  ASSUME IInv, RReadFileList, UNCHANGED senderVars
  PROVE  IInv'
<1>1. WireTypeOK'
  BY DEF IInv, TypeOK, WireTypeOK, RReadFileList
<1>2. ReceiverTypeOK'
  BY DEF IInv, TypeOK, ReceiverTypeOK, ReceiverPc, ReceiverResult,
         RReadFileList
<1>3. Ends'
  BY DEF IInv, Ends, RReadFileList
<1>4. InStep'
  <2>1. One(toReceiver, "FileList")
    BY DEF IInv, ReceiverChannel, RReadFileList
  <2>2. sPc \in {"listAck", "ended"}
    BY <2>1 DEF IInv, TypeOK, SenderTypeOK, SenderPc, InStep, HalfDuplex, RReadFileList
  <2> QED
    BY <2>2 DEF IInv, InStep, RReadFileList
<1>5. CodeShown'
  BY DEF IInv, CodeShown, RReadFileList
<1>6. (SenderChannel /\ ReceiverChannel /\ HalfDuplex)'
  BY DEF IInv, SenderChannel, ReceiverChannel, HalfDuplex, RReadFileList
<1>7. Progress'
  BY DEF IInv, Progress, Due, Source, Index, RReadFileList
<1>8. (FramesToReceiver /\ Outstanding /\ AcksToSender)'
  BY DEF IInv, FramesToReceiver, Outstanding, AcksToSender, RReadFileList
<1> QED
  BY <1>1, <1>2, <1>3, <1>4, <1>5, <1>6, <1>7, <1>8, SenderKept
     DEF IInv, TypeOK

(* stop_keep_alive returns to the user. *)
LEMMA RStoppedStep ==
  ASSUME IInv, RStopped, UNCHANGED senderVars
  PROVE  IInv'
<1>1. WireTypeOK'
  BY DEF IInv, TypeOK, WireTypeOK, RStopped
<1>2. ReceiverTypeOK'
  <2>1. kaStop' \in BOOLEAN
    BY Zenon DEF RStopped
  <2> QED
    BY <2>1 DEF IInv, TypeOK, ReceiverTypeOK, RStopped, ReceiverPc
<1>3. (Ends /\ InStep /\ CodeShown)'
  BY DEF IInv, Ends, InStep, CodeShown, RStopped
<1>4. (SenderChannel /\ ReceiverChannel /\ HalfDuplex)'
  BY DEF IInv, SenderChannel, ReceiverChannel, HalfDuplex, RStopped
<1>5. Progress'
  BY DEF IInv, Progress, Due, Source, Index, RStopped
<1>6. (FramesToReceiver /\ Outstanding /\ AcksToSender)'
  BY DEF IInv, FramesToReceiver, Outstanding, AcksToSender, Taken, Source,
         RStopped
<1> QED
  BY <1>1, <1>2, <1>3, <1>4, <1>5, <1>6, SenderKept DEF IInv, TypeOK

(* decline answers FileListAck if it has the stream. *)
LEMMA RDeclineStep ==
  ASSUME IInv, RDecline, UNCHANGED senderVars
  PROVE  IInv'
<1>1. WireTypeOK'
  <2>1. <<FileListAck(FALSE, {})>> \in Seq(ReceiverFrame)
    BY ReceiverFrames, SeqOf
  <2>2. toSender' \in Seq(ReceiverFrame)
    BY <2>1, WriteType DEF IInv, TypeOK, WireTypeOK, RDecline
  <2> QED
    BY <2>2 DEF IInv, TypeOK, WireTypeOK, RDecline
<1>2. ReceiverTypeOK'
  <2>1. kaStop' \in BOOLEAN
    BY Zenon DEF RDecline
  <2> QED
    BY <2>1 DEF IInv, TypeOK, ReceiverTypeOK, RDecline, ReceiverPc, ReceiverResult
<1>3. (Ends /\ InStep /\ CodeShown)'
  BY DEF IInv, Ends, InStep, CodeShown, FileListAck, write_frame, RDecline
<1>4. (SenderChannel /\ ReceiverChannel /\ HalfDuplex)'
  BY DEF IInv, InStep, SenderChannel, ReceiverChannel, HalfDuplex,
         FileListAck, write_frame, RDecline
<1>5. Progress'
  BY DEF IInv, Progress, Taken, Due, Source, RDecline
<1>6. (FramesToReceiver /\ Outstanding /\ AcksToSender)'
  BY DEF IInv, FramesToReceiver, Outstanding, AcksToSender, Taken,
         FileListAck, Source, write_frame, RDecline
<1> QED
  BY <1>1, <1>2, <1>3, <1>4, <1>5, <1>6, SenderKept DEF IInv, TypeOK

(* accept answers FileListAck on a channel nobody else uses. *)
LEMMA RAcceptStep ==
  ASSUME IInv, RAccept, UNCHANGED senderVars
  PROVE  IInv'
<1>1. WireTypeOK'
  <2>1. selected \in SUBSET Index /\ Index \in SUBSET Index
    BY DEF IInv, TypeOK, ReceiverTypeOK
  <2>2. <<FileListAck(TRUE, Index), ResumeRequest>> \in Seq(ReceiverFrame)
        /\ <<FileListAck(TRUE, selected)>> \in Seq(ReceiverFrame)
    BY <2>1, ReceiverFrames, SeqOf, Zenon
  <2>3. toSender' \in Seq(ReceiverFrame)
    BY <2>2, WriteType DEF IInv, TypeOK, WireTypeOK, RAccept
  <2> QED
    BY <2>3 DEF IInv, TypeOK, WireTypeOK, RAccept
<1>2. ReceiverTypeOK'
  <2>1. kaStop' \in BOOLEAN
    BY Zenon DEF RAccept
  <2> QED
    BY <2>1 DEF IInv, TypeOK, ReceiverTypeOK, RAccept, ReceiverPc
<1>3. Ends'
  BY DEF IInv, Ends, RAccept
<1>4. InStep'
  BY DEF IInv, InStep, AcceptOps, RAccept
<1>5. CodeShown'
  <2>1. \A k \in DOMAIN toSender' : toSender'[k].type = "CodeVerify" =>
          \E j \in DOMAIN toSender : toSender'[k] = toSender[j]
    BY AcceptAnswer DEF ResumeRequest
  <2> QED
    BY <2>1 DEF IInv, CodeShown, RAccept
<1>6. SenderChannel'
  <2>1. sPc = "listAck" => toSender = <<>>
    BY DEF IInv, HalfDuplex, RAccept
  <2>2. sPc = "listAck" =>
          toSender' \in {<<>>, <<FileListAck(TRUE, Index), ResumeRequest>>,
                         <<FileListAck(TRUE, selected)>>}
    BY <2>1, WriteEmpty DEF RAccept
  <2>3. /\ One(<<FileListAck(TRUE, selected)>>, "FileListAck")
        /\ Two(<<FileListAck(TRUE, Index), ResumeRequest>>, "FileListAck", "ResumeRequest")
    BY DEF FileListAck, ResumeRequest
  <2>4. sPc \in {"listAck", "ended"}
    BY DEF IInv, TypeOK, SenderTypeOK, SenderPc, InStep, RAccept
  <2> QED
    BY <2>2, <2>3, <2>4 DEF SenderChannel, RAccept
<1>7. ReceiverChannel'
  BY DEF IInv, ReceiverChannel, RAccept
<1>8. HalfDuplex'
  <2>1. toReceiver' = <<>>
    BY DEF IInv, Ends, ReceiverChannel, RAccept
  <2>2. sPc \in {"listAck", "ended"}
    BY DEF IInv, TypeOK, SenderTypeOK, SenderPc, InStep, RAccept
  <2>3. sPc = "listAck" =>
          toSender' \in {<<>>, <<FileListAck(TRUE, Index), ResumeRequest>>,
                         <<FileListAck(TRUE, selected)>>}
    <3>1. sPc = "listAck" => toSender = <<>>
      BY DEF IInv, HalfDuplex, RAccept
    <3> QED BY <3>1, WriteEmpty DEF RAccept
  <2>4. sPc = "listAck" => ~One(toSender', "Ping")
    BY <2>3 DEF FileListAck, ResumeRequest
  <2>5. \A j \in DOMAIN toSender : toSender[j].type # "ResumeRequest"
    BY DEF IInv, HalfDuplex, RAccept
  <2>6. \A k \in DOMAIN toSender' : toSender'[k].type = "ResumeRequest" =>
          rOp = "accept_with_resume"
    BY <2>5, AcceptAnswer
  <2> QED
    BY <2>1, <2>2, <2>4, <2>6 DEF IInv, HalfDuplex, RAccept
<1>9. Progress'
  BY DEF IInv, Progress, Due, Source, Index, RAccept
<1>10. (FramesToReceiver /\ Outstanding /\ AcksToSender)'
  BY DEF IInv, InStep, ReceiverChannel, FramesToReceiver, Outstanding,
         AcksToSender, RAccept
<1> QED
  BY <1>1, <1>2, <1>3, <1>4, <1>5, <1>6, <1>7, <1>8, <1>9, <1>10, SenderKept
     DEF IInv, TypeOK

(* accept has no stream or cannot write. *)
LEMMA RAcceptFailsStep ==
  ASSUME IInv, RAcceptFails, UNCHANGED senderVars
  PROVE  IInv'
<1>1. WireTypeOK'
  BY DEF IInv, TypeOK, WireTypeOK, RAcceptFails
<1>2. ReceiverTypeOK'
  <2>1. kaStop' \in BOOLEAN
    BY Zenon DEF RAcceptFails
  <2> QED
    BY <2>1 DEF IInv, TypeOK, ReceiverTypeOK, RAcceptFails, ReceiverPc, ReceiverResult
<1>3. (Ends /\ InStep /\ CodeShown)'
  BY DEF IInv, Ends, InStep, CodeShown, RAcceptFails
<1>4. (SenderChannel /\ ReceiverChannel /\ HalfDuplex)'
  BY DEF IInv, SenderChannel, ReceiverChannel, HalfDuplex, RAcceptFails
<1>5. Progress'
  BY DEF IInv, Progress, Due, Source, Index, RAcceptFails
<1>6. (FramesToReceiver /\ Outstanding /\ AcksToSender)'
  BY DEF IInv, FramesToReceiver, Outstanding, AcksToSender, Taken, Source,
         RAcceptFails
<1> QED
  BY <1>1, <1>2, <1>3, <1>4, <1>5, <1>6, SenderKept DEF IInv, TypeOK

(* handle_chunk_start creates the entry the sender is at. *)
LEMMA RChunkStartStep ==
  ASSUME IInv, RChunkStart, UNCHANGED senderVars
  PROVE  IInv'
<1>1. WireTypeOK'
  <2>1. ChunkAck(sFile, 1, TRUE) \in ReceiverFrame
    <3>1. sFile \in Index /\ 1 \in Nat
      BY AtChunkStart
    <3> QED
      BY <3>1, ReceiverFrames, Zenon
  <2>2. toSender' = toSender \/ toSender' = write_frame(toSender, <<ChunkAck(sFile, 1, TRUE)>>)
    BY AtChunkStart DEF RChunkStart
  <2>3. <<ChunkAck(sFile, 1, TRUE)>> \in Seq(ReceiverFrame)
    BY <2>1, SeqOf, Zenon
  <2>4. toSender' \in Seq(ReceiverFrame)
    BY <2>2, <2>3, AtChunkStart, WriteType
  <2>5. toReceiver' \in Seq(SenderFrame)
    BY AtChunkStart, TailAny DEF RChunkStart
  <2> QED
    BY <2>4, <2>5 DEF IInv, TypeOK, WireTypeOK, RChunkStart
<1>2. ReceiverTypeOK'
  <2>1. rWriter' \in BOOLEAN
    BY Zenon DEF RChunkStart
  <2>2. out' \in [Index -> OutputEntry] /\ rCur' \in 0..N
    <3>1. Created(sFile) \in OutputEntry
      BY DEF Created, Directory, File, OutputEntry
    <3> QED
      BY <3>1, AtChunkStart, FileListAssumption
         DEF IInv, TypeOK, ReceiverTypeOK, RChunkStart, Index
  <2> QED
    BY <2>1, <2>2 DEF IInv, TypeOK, ReceiverTypeOK, RChunkStart
<1>3. (Ends /\ InStep /\ CodeShown)'
  BY DEF IInv, Ends, InStep, CodeShown, ChunkAck, write_frame, RChunkStart
<1>4. SenderChannel'
  <2>1. CASE sPc = "ended"
    BY <2>1 DEF SenderChannel, RChunkStart
  <2>2. CASE sPc # "ended"
    <3>1. sPc \in {"markerAck", "chunkAck"} /\ toSender = <<>>
      BY <2>2, AtChunkStart
    <3>2. toSender' \in {<<>>, <<ChunkAck(sFile, 1, TRUE)>>}
      BY <3>1, AtChunkStart, WriteEmpty DEF RChunkStart
    <3>3. One(<<ChunkAck(sFile, 1, TRUE)>>, "ChunkAck")
      BY DEF ChunkAck
    <3> QED
      BY <3>1, <3>2, <3>3 DEF SenderChannel, RChunkStart
  <2> QED
    BY <2>1, <2>2
<1>5. ReceiverChannel'
  BY DEF IInv, ReceiverChannel, RChunkStart
<1>6. HalfDuplex'
  <2>1. sPc \in {"markerAck", "chunkAck", "ended"}
        /\ (sPc # "ended" /\ toReceiver' # <<>> => toSender' = <<>>)
    BY AtChunkStart DEF RChunkStart
  <2>2. \A j \in DOMAIN toSender : toSender[j].type # "ResumeRequest"
    BY DEF IInv, HalfDuplex, RChunkStart
  <2>3. \A k \in DOMAIN toSender' : toSender'[k].type # "ResumeRequest"
    <3> DEFINE ack == ChunkAck(sFile, 1, TRUE)
    <3>1. ack \in ReceiverFrame
      <4>1. sFile \in Index /\ 1 \in Nat
        BY AtChunkStart
      <4> QED
        BY <4>1, ReceiverFrames, Zenon
    <3>2. ack.type = "ChunkAck"
      BY DEF ChunkAck
    <3>3. toSender' = toSender \/ toSender' = write_frame(toSender, <<ack>>)
      BY AtChunkStart DEF RChunkStart
    <3> HIDE DEF ack
    <3> QED
      BY <2>2, <3>1, <3>2, <3>3, AtChunkStart, WriteOne
  <2> QED
    BY <2>1, <2>3 DEF IInv, HalfDuplex, RChunkStart
<1>7. Progress'
  <2>1. /\ rPc' = "receive" /\ rCur' = sFile /\ rCur = sFile - 1
        /\ sFile \in Index
        /\ sPc \in {"markerAck", "chunkAck", "ended"}
    BY AtChunkStart DEF RChunkStart
  <2>2. \A i \in Index : i < sFile' => out'[i] = Source(i)'
    BY <2>1, AtChunkStart, FileListAssumption DEF IInv, Progress, Source, RChunkStart, Index
  <2>3. sFile \notin Dirs /\ sent[sFile] # <<>> => rWriter'
    <3>1. sent[sFile] # <<>> => Head(toReceiver).total_chunks # 0
      BY AtChunkStart
    <3>2. rWriter' = ~(sFile \in Dirs \/ Head(toReceiver).total_chunks = 0)
      BY AtChunkStart DEF RChunkStart
    <3> QED
      BY <3>1, <3>2, Zenon
  <2>4. sState # "Completed" /\ rState' # "Completed"
    BY <2>1, FileListAssumption DEF IInv, Progress, RChunkStart, Index
  <2> QED
    BY <2>1, <2>2, <2>3, <2>4 DEF IInv, Progress, RChunkStart
<1>8. FramesToReceiver'
  <2>1. CASE toReceiver' = <<>>
    BY <2>1 DEF FramesToReceiver
  <2>2. CASE toReceiver' # <<>>
    <3>1. /\ toReceiver'[1] = toReceiver[2]
          /\ toReceiver[2].type = "ChunkData"
          /\ sFile \in Index \ Dirs
          /\ sChunk = 1 /\ Len(sent[sFile]) > 0
          /\ toReceiver[2].file_index = sFile
          /\ toReceiver[2].chunk_index = sChunk
          /\ CarriesChunk(toReceiver[2])
          /\ rCur' = sFile
      BY <2>2, AtChunkStart DEF RChunkStart
    <3>2. out'[sFile] = File(<<>>)
      BY <3>1, AtChunkStart DEF IInv, TypeOK, ReceiverTypeOK, RChunkStart, Created
    <3>3. Taken(sChunk - 1)'
      BY <3>1, <3>2 DEF Taken, File
    <3>4. sChunk' \in 1..Len(sent'[sFile'])
      BY <3>1 DEF IInv, TypeOK, SenderTypeOK
    <3>5. CarriesChunk(toReceiver[1])'
      BY <3>1 DEF CarriesChunk
    <3>6. toReceiver'[1].type \notin {"ChunkStart", "TransferComplete"}
      BY <3>1
    <3> QED
      BY <3>1, <3>3, <3>4, <3>5, <3>6 DEF FramesToReceiver
  <2> QED
    BY <2>1, <2>2
<1>9. Outstanding'
  BY DEF IInv, TypeOK, WireTypeOK, Outstanding, RChunkStart
<1>10. AcksToSender'
  <2>1. CASE sPc = "markerAck"
    <3>1. /\ toSender = <<>> /\ sent[sFile] = <<>> /\ sFile \in Index
          /\ rCur' = sFile
          /\ toSender' = write_frame(toSender, <<ChunkAck(sFile, 1, TRUE)>>)
      BY <2>1, AtChunkStart DEF RChunkStart
    <3>2. toSender' \in {<<>>, <<ChunkAck(sFile, 1, TRUE)>>}
      BY <3>1, WriteEmpty
    <3>3. One(toSender', "ChunkAck") =>
            toSender'[1].file_index = sFile /\ toSender'[1].chunk_index = 1
      BY <3>2 DEF ChunkAck
    <3>4. out'[sFile] = Source(sFile)
      BY <3>1, AtChunkStart
         DEF IInv, TypeOK, ReceiverTypeOK, RChunkStart, Created, Source
    <3> QED
      BY <2>1, <3>1, <3>3, <3>4 DEF AcksToSender, Source
  <2>2. CASE sPc # "markerAck"
    <3>1. sPc = "ended" \/ toSender' = <<>>
      BY <2>2, AtChunkStart DEF RChunkStart
    <3> QED
      BY <2>2, <3>1 DEF AcksToSender
  <2> QED
    BY <2>1, <2>2
<1> QED
  BY <1>1, <1>2, <1>3, <1>4, <1>5, <1>6, <1>7, <1>8, <1>9, <1>10, SenderKept
     DEF IInv, TypeOK

(* handle_chunk_start for the open file. *)
LEMMA RChunkStartSameStep ==
  ASSUME IInv, RChunkStartSame, UNCHANGED senderVars
  PROVE  IInv'
<1>1. WireTypeOK'
  BY DEF IInv, TypeOK, WireTypeOK, RChunkStartSame
<1>2. ReceiverTypeOK'
  BY DEF IInv, TypeOK, ReceiverTypeOK, RChunkStartSame
<1>3. (Ends /\ InStep /\ CodeShown)'
  BY DEF IInv, Ends, InStep, CodeShown, RChunkStartSame
<1>4. (SenderChannel /\ ReceiverChannel /\ HalfDuplex)'
  BY DEF IInv, SenderChannel, ReceiverChannel, HalfDuplex, RChunkStartSame
<1>5. Progress'
  BY DEF IInv, Progress, Taken, Due, Source, RChunkStartSame
<1>6. FramesToReceiver'
  BY HeadIs, TailOne, TailTwo, WriteType, EmptyLen
     DEF IInv, ReceiverChannel, FramesToReceiver, Taken, CarriesChunk, Due,
         Index, RChunkStartSame
<1>7. Outstanding'
  BY DEF IInv, Outstanding, RChunkStartSame
<1>8. AcksToSender'
  BY DEF IInv, AcksToSender, Taken, Source, RChunkStartSame
<1> QED
  BY <1>1, <1>2, <1>3, <1>4, <1>5, <1>6, <1>7, <1>8, SenderKept
     DEF IInv, TypeOK

(* The entry cannot be created. *)
LEMMA RChunkStartFailsStep ==
  ASSUME IInv, RChunkStartFails, UNCHANGED senderVars
  PROVE  IInv'
<1>1. WireTypeOK'
  BY DEF IInv, TypeOK, WireTypeOK, RChunkStartFails
<1>2. ReceiverTypeOK'
  <2>1. rWriter' \in BOOLEAN
    BY Zenon DEF RChunkStartFails
  <2> QED
    BY <2>1 DEF IInv, TypeOK, ReceiverTypeOK, RChunkStartFails, ReceiverPc, ReceiverResult
<1>3. (Ends /\ InStep /\ CodeShown)'
  BY DEF IInv, Ends, InStep, CodeShown, RChunkStartFails
<1>4. (SenderChannel /\ ReceiverChannel /\ HalfDuplex)'
  BY DEF IInv, SenderChannel, ReceiverChannel, HalfDuplex, RChunkStartFails
<1>5. Progress'
  BY DEF IInv, Progress, Taken, Due, Source, RChunkStartFails
<1>6. (FramesToReceiver /\ Outstanding /\ AcksToSender)'
  BY WriteType, WriteTwo
     DEF IInv, Ends, InStep, SenderChannel, ReceiverChannel, HalfDuplex,
         FramesToReceiver, Outstanding, AcksToSender, Taken, Index,
         RChunkStartFails
<1> QED
  BY <1>1, <1>2, <1>3, <1>4, <1>5, <1>6, SenderKept DEF IInv, TypeOK

(* handle_chunk_data appends the chunk the sender is at. *)
LEMMA RChunkDataStep ==
  ASSUME IInv, RChunkData, UNCHANGED senderVars
  PROVE  IInv'
<1>1. WireTypeOK'
  <2>1. ChunkAck(sFile, sChunk, TRUE) \in ReceiverFrame
    <3>1. sFile \in Index /\ sChunk \in Nat
      BY AtChunkData DEF RChunkData, IInv, TypeOK, SenderTypeOK
    <3> QED
      BY <3>1, ReceiverFrames, Zenon
  <2>2. toSender' = write_frame(toSender, <<ChunkAck(sFile, sChunk, TRUE)>>)
    BY AtChunkData DEF RChunkData
  <2>3. <<ChunkAck(sFile, sChunk, TRUE)>> \in Seq(ReceiverFrame)
    BY <2>1, SeqOf, Zenon
  <2>4. toSender' \in Seq(ReceiverFrame)
    BY <2>2, <2>3, WriteType DEF IInv, TypeOK, WireTypeOK
  <2>5. toReceiver' = <<>>
    BY AtChunkData DEF RChunkData
  <2> QED
    BY <2>4, <2>5 DEF IInv, TypeOK, WireTypeOK, RChunkData
<1>2. ReceiverTypeOK'
  <2>1. decompress(Head(toReceiver).data) \in Chunk
    <3>1. Head(toReceiver).data \in WireData
      BY AtChunkData, SenderFields DEF RChunkData
    <3> QED
      BY <3>1 DEF WireData, decompress
  <2>2. rCur \in Index
    BY AtChunkData DEF RChunkData
  <2>3. out' \in [Index -> OutputEntry]
    <3>1. out[rCur] \in OutputEntry
      BY <2>2 DEF IInv, TypeOK, ReceiverTypeOK
    <3>2. [out[rCur] EXCEPT !.data = Append(@, decompress(Head(toReceiver).data))] \in OutputEntry
      BY <2>1, <3>1 DEF OutputEntry
    <3>3. out' = [out EXCEPT ![rCur] =
                    [out[rCur] EXCEPT !.data = Append(@, decompress(Head(toReceiver).data))]]
      BY DEF RChunkData
    <3> QED
      BY <2>2, <3>2, <3>3 DEF IInv, TypeOK, ReceiverTypeOK
  <2> QED
    BY <2>3 DEF IInv, TypeOK, ReceiverTypeOK, RChunkData
<1>3. (Ends /\ InStep /\ CodeShown)'
  BY DEF IInv, Ends, InStep, CodeShown, ChunkAck, write_frame, RChunkData
<1>4. SenderChannel'
  <2>1. CASE sPc = "ended"
    BY <2>1 DEF SenderChannel, RChunkData
  <2>2. CASE sPc # "ended"
    <3>1. sPc = "chunkAck" /\ toSender = <<>>
      BY <2>2, AtChunkData DEF RChunkData
    <3>2. toSender' \in {<<>>, <<ChunkAck(sFile, sChunk, TRUE)>>}
      BY <3>1, AtChunkData, WriteEmpty DEF RChunkData
    <3>3. One(<<ChunkAck(sFile, sChunk, TRUE)>>, "ChunkAck")
      BY DEF ChunkAck
    <3> QED
      BY <3>1, <3>2, <3>3 DEF SenderChannel, RChunkData
  <2> QED
    BY <2>1, <2>2
<1>5. ReceiverChannel'
  BY DEF IInv, ReceiverChannel, RChunkData
<1>6. HalfDuplex'
  <2>1. toReceiver' = <<>> /\ sPc \in {"chunkAck", "ended"}
    BY AtChunkData DEF RChunkData
  <2>2. \A j \in DOMAIN toSender : toSender[j].type # "ResumeRequest"
    BY DEF IInv, HalfDuplex, RChunkData
  <2>3. \A k \in DOMAIN toSender' : toSender'[k].type # "ResumeRequest"
    <3> DEFINE ack == ChunkAck(sFile, sChunk, TRUE)
    <3>1. ack \in ReceiverFrame
      <4>1. sFile \in Index /\ sChunk \in Nat
        BY AtChunkData DEF RChunkData, IInv, TypeOK, SenderTypeOK
      <4> QED
        BY <4>1, ReceiverFrames, Zenon
    <3>2. ack.type = "ChunkAck"
      BY DEF ChunkAck
    <3>3. toSender \in Seq(ReceiverFrame) /\ toSender' = write_frame(toSender, <<ack>>)
      BY AtChunkData DEF RChunkData
    <3> HIDE DEF ack
    <3> QED
      BY <2>2, <3>1, <3>2, <3>3, WriteOne
  <2> QED
    BY <2>1, <2>3 DEF IInv, HalfDuplex, RChunkData
<1>7. Progress'
  <2>1. /\ sFile \in Index \ Dirs /\ rCur = sFile
        /\ sPc \in {"chunkAck", "ended"} /\ rPc' = "receive"
    BY AtChunkData DEF RChunkData
  <2>2. \A i \in Index : i < sFile' => out'[i] = Source(i)'
    BY <2>1, FileListAssumption DEF IInv, Progress, Source, RChunkData, Index
  <2>3. sState # "Completed" /\ rState' # "Completed"
    BY <2>1, FileListAssumption DEF IInv, Progress, RChunkData, Index
  <2> QED
    BY <2>1, <2>2, <2>3 DEF IInv, Progress, RChunkData
<1>8. FramesToReceiver'
  BY HeadIs, TailOne DEF IInv, ReceiverChannel, FramesToReceiver, RChunkData
<1>9. Outstanding'
  BY DEF IInv, Outstanding, RChunkData
<1>10. AcksToSender'
  <2>1. CASE sPc = "ended"
    BY <2>1 DEF AcksToSender, RChunkData
  <2>2. CASE sPc # "ended"
    <3>1. /\ sPc = "chunkAck" /\ toSender = <<>>
          /\ sFile \in Index \ Dirs /\ rCur = sFile
          /\ sChunk \in 1..Len(sent[sFile])
          /\ Taken(sChunk - 1)
      BY <2>2, AtChunkData DEF RChunkData
    <3>2. toSender' \in {<<>>, <<ChunkAck(sFile, sChunk, TRUE)>>}
      BY <3>1, AtChunkData, WriteEmpty DEF RChunkData
    <3>3. One(toSender', "ChunkAck") =>
            toSender'[1].file_index = sFile /\ toSender'[1].chunk_index = sChunk
      BY <3>2 DEF ChunkAck
    <3>4. decompress(Head(toReceiver).data) = sent[sFile][sChunk]
      BY AtChunkData DEF RChunkData, Intact, CarriesChunk, xxh64, Raw, compress, decompress
    <3>5. Taken(sChunk)'
      <4>1. out[sFile] \in OutputEntry
        BY <3>1 DEF IInv, TypeOK, ReceiverTypeOK
      <4>2. /\ out'[sFile].kind = "file"
            /\ out'[sFile].data = Append(out[sFile].data, sent[sFile][sChunk])
        BY <3>1, <3>4, <4>1 DEF IInv, TypeOK, ReceiverTypeOK, RChunkData, Taken, OutputEntry
      <4>3. out[sFile].data \in Seq(Chunk) /\ sent[sFile] \in Seq(Chunk)
            /\ sent[sFile][sChunk] \in Chunk
        BY <3>1, <4>1 DEF OutputEntry, IInv, TypeOK, SenderTypeOK
      <4> QED
        BY <3>1, <4>2, <4>3 DEF Taken
    <3> QED
      BY <2>2, <3>1, <3>3, <3>5 DEF AcksToSender, RChunkData
  <2> QED
    BY <2>1, <2>2
<1> QED
  BY <1>1, <1>2, <1>3, <1>4, <1>5, <1>6, <1>7, <1>8, <1>9, <1>10, SenderKept
     DEF IInv, TypeOK

(* handle_chunk_data refuses a chunk. *)
LEMMA RChunkDataFailsStep ==
  ASSUME IInv, RChunkDataFails, UNCHANGED senderVars
  PROVE  IInv'
<1>1. WireTypeOK'
  <2>1. ChunkAck(sFile, sChunk, FALSE) \in ReceiverFrame
    <3>1. sFile \in Index /\ sChunk \in Nat
      BY AtChunkData DEF RChunkDataFails, IInv, TypeOK, SenderTypeOK
    <3> QED
      BY <3>1, ReceiverFrames, Zenon
  <2>2. toSender' = write_frame(toSender, <<ChunkAck(sFile, sChunk, FALSE)>>)
    BY AtChunkData DEF RChunkDataFails
  <2>3. <<ChunkAck(sFile, sChunk, FALSE)>> \in Seq(ReceiverFrame)
    BY <2>1, SeqOf, Zenon
  <2>4. toSender' \in Seq(ReceiverFrame)
    BY <2>2, <2>3, WriteType DEF IInv, TypeOK, WireTypeOK
  <2>5. toReceiver' = <<>>
    BY AtChunkData DEF RChunkDataFails
  <2> QED
    BY <2>4, <2>5 DEF IInv, TypeOK, WireTypeOK, RChunkDataFails
<1>2. ReceiverTypeOK'
  BY DEF IInv, TypeOK, ReceiverTypeOK, ReceiverPc, ReceiverResult,
         RChunkDataFails
<1>3. (Ends /\ InStep /\ CodeShown)'
  BY DEF IInv, Ends, InStep, CodeShown, ChunkAck, write_frame, RChunkDataFails
<1>4. SenderChannel'
  <2>1. CASE sPc = "ended"
    BY <2>1 DEF SenderChannel, RChunkDataFails
  <2>2. CASE sPc # "ended"
    <3>1. sPc = "chunkAck" /\ toSender = <<>>
      BY <2>2, AtChunkData DEF RChunkDataFails
    <3>2. toSender' \in {<<>>, <<ChunkAck(sFile, sChunk, FALSE)>>}
      BY <3>1, AtChunkData, WriteEmpty DEF RChunkDataFails
    <3>3. One(<<ChunkAck(sFile, sChunk, FALSE)>>, "ChunkAck")
      BY DEF ChunkAck
    <3> QED
      BY <3>1, <3>2, <3>3 DEF SenderChannel, RChunkDataFails
  <2> QED
    BY <2>1, <2>2
<1>5. ReceiverChannel'
  BY DEF ReceiverChannel, RChunkDataFails
<1>6. HalfDuplex'
  <2>1. toReceiver' = <<>> /\ sPc \in {"chunkAck", "ended"}
    BY AtChunkData DEF RChunkDataFails
  <2>2. \A j \in DOMAIN toSender : toSender[j].type # "ResumeRequest"
    BY DEF IInv, HalfDuplex, RChunkDataFails
  <2>3. \A k \in DOMAIN toSender' : toSender'[k].type # "ResumeRequest"
    <3> DEFINE ack == ChunkAck(sFile, sChunk, FALSE)
    <3>1. ack \in ReceiverFrame
      <4>1. sFile \in Index /\ sChunk \in Nat
        BY AtChunkData DEF RChunkDataFails, IInv, TypeOK, SenderTypeOK
      <4> QED
        BY <4>1, ReceiverFrames, Zenon
    <3>2. ack.type = "ChunkAck"
      BY DEF ChunkAck
    <3>3. toSender \in Seq(ReceiverFrame) /\ toSender' = write_frame(toSender, <<ack>>)
      BY AtChunkData DEF RChunkDataFails
    <3> HIDE DEF ack
    <3> QED
      BY <2>2, <3>1, <3>2, <3>3, WriteOne
  <2> QED
    BY <2>1, <2>3 DEF IInv, HalfDuplex, RChunkDataFails
<1>7. Progress'
  BY DEF IInv, Progress, Taken, Due, Source, RChunkDataFails
<1>8. FramesToReceiver'
  BY DEF FramesToReceiver, RChunkDataFails
<1>9. Outstanding'
  BY DEF IInv, Outstanding, RChunkDataFails
<1>10. AcksToSender'
  <2>1. CASE sPc = "ended"
    BY <2>1 DEF AcksToSender, RChunkDataFails
  <2>2. CASE sPc # "ended"
    <3>1. sPc = "chunkAck" /\ toSender = <<>>
      BY <2>2, AtChunkData DEF RChunkDataFails
    <3>2. toSender' \in {<<>>, <<ChunkAck(sFile, sChunk, FALSE)>>}
      BY <3>1, AtChunkData, WriteEmpty DEF RChunkDataFails
    <3>3. One(toSender', "ChunkAck") =>
            /\ toSender'[1].file_index = sFile
            /\ toSender'[1].chunk_index = sChunk
            /\ ~toSender'[1].success
      BY <3>2 DEF ChunkAck
    <3> QED
      BY <3>1, <3>3 DEF AcksToSender
  <2> QED
    BY <2>1, <2>2
<1> QED
  BY <1>1, <1>2, <1>3, <1>4, <1>5, <1>6, <1>7, <1>8, <1>9, <1>10, SenderKept
     DEF IInv, TypeOK

(* do_receive reads TransferComplete, which says that every entry is in     *)
(* place.                                                                   *)
LEMMA RCompleteStep ==
  ASSUME IInv, RComplete, UNCHANGED senderVars
  PROVE  IInv'
<1>1. WireTypeOK'
  BY DEF IInv, TypeOK, WireTypeOK, RComplete
<1>2. ReceiverTypeOK'
  <2>1. rWriter' \in BOOLEAN
    BY Zenon DEF RComplete
  <2> QED
    BY <2>1 DEF IInv, TypeOK, ReceiverTypeOK, RComplete, ReceiverPc, ReceiverResult
<1>3. (Ends /\ InStep /\ CodeShown)'
  BY DEF IInv, Ends, InStep, CodeShown, RComplete
<1>4. (SenderChannel /\ ReceiverChannel /\ HalfDuplex)'
  BY DEF IInv, SenderChannel, ReceiverChannel, HalfDuplex, RComplete
<1>5. Progress'
  BY DEF IInv, HalfDuplex, Progress, FramesToReceiver, Source, RComplete
<1>6. (FramesToReceiver /\ Outstanding /\ AcksToSender)'
  BY DEF IInv, FramesToReceiver, Outstanding, AcksToSender, RComplete
<1> QED
  BY <1>1, <1>2, <1>3, <1>4, <1>5, <1>6, SenderKept DEF IInv, TypeOK

(* finalize of the last file fails. *)
LEMMA RCompleteFailsStep ==
  ASSUME IInv, RCompleteFails, UNCHANGED senderVars
  PROVE  IInv'
<1>1. WireTypeOK'
  BY DEF IInv, TypeOK, WireTypeOK, RCompleteFails
<1>2. ReceiverTypeOK'
  <2>1. rWriter' \in BOOLEAN
    BY Zenon DEF RCompleteFails
  <2> QED
    BY <2>1 DEF IInv, TypeOK, ReceiverTypeOK, RCompleteFails, ReceiverPc, ReceiverResult
<1>3. (Ends /\ InStep /\ CodeShown)'
  BY DEF IInv, Ends, InStep, CodeShown, RCompleteFails
<1>4. (SenderChannel /\ ReceiverChannel /\ HalfDuplex)'
  BY DEF IInv, SenderChannel, ReceiverChannel, HalfDuplex, RCompleteFails
<1>5. Progress'
  BY DEF IInv, Progress, Taken, Due, Source, RCompleteFails
<1>6. (FramesToReceiver /\ Outstanding /\ AcksToSender)'
  BY DEF IInv, FramesToReceiver, Outstanding, AcksToSender, RCompleteFails
<1> QED
  BY <1>1, <1>2, <1>3, <1>4, <1>5, <1>6, SenderKept DEF IInv, TypeOK

(* start_keep_alive spawns the task. *)
LEMMA RStartKeepAliveStep ==
  ASSUME IInv, RStartKeepAlive, UNCHANGED senderVars
  PROVE  IInv'
<1>1. WireTypeOK'
  BY DEF IInv, TypeOK, WireTypeOK, RStartKeepAlive
<1>2. ReceiverTypeOK'
  BY DEF IInv, TypeOK, ReceiverTypeOK, RStartKeepAlive
<1>3. (Ends /\ InStep /\ CodeShown)'
  BY DEF IInv, Ends, InStep, CodeShown, RStartKeepAlive
<1>4. (SenderChannel /\ ReceiverChannel /\ HalfDuplex)'
  BY DEF IInv, SenderChannel, ReceiverChannel, HalfDuplex, RStartKeepAlive
<1>5. Progress'
  BY DEF IInv, Progress, Due, Source, Index, RStartKeepAlive
<1>6. (FramesToReceiver /\ Outstanding /\ AcksToSender)'
  BY DEF IInv, FramesToReceiver, Outstanding, AcksToSender, Taken, Source,
         RStartKeepAlive
<1> QED
  BY <1>1, <1>2, <1>3, <1>4, <1>5, <1>6, SenderKept DEF IInv, TypeOK

(* The task sends Ping: the sender waits for FileListAck and has nothing to *)
(* read.                                                                    *)
LEMMA KaPingStep ==
  ASSUME IInv, KaPing, UNCHANGED senderVars
  PROVE  IInv'
<1>1. WireTypeOK'
  <2>1. <<Ping>> \in Seq(ReceiverFrame)
    BY ReceiverFrames, SeqOf
  <2>2. toSender' \in Seq(ReceiverFrame)
    BY <2>1, WriteType DEF IInv, TypeOK, WireTypeOK, KaPing
  <2> QED
    BY <2>2 DEF IInv, TypeOK, WireTypeOK, KaPing
<1>2. ReceiverTypeOK'
  BY DEF IInv, TypeOK, ReceiverTypeOK, KaPing
<1>3. (Ends /\ InStep /\ CodeShown)'
  BY DEF IInv, Ends, InStep, CodeShown, write_frame, Ping, KaPing
<1>4. (SenderChannel /\ ReceiverChannel /\ HalfDuplex)'
  BY DEF IInv, Ends, InStep, SenderChannel, ReceiverChannel, HalfDuplex,
         write_frame, Ping, KaPing
<1>5. Progress'
  BY DEF IInv, Progress, Taken, Due, Source, KaPing
<1>6. (FramesToReceiver /\ Outstanding /\ AcksToSender)'
  BY DEF IInv, FramesToReceiver, Outstanding, AcksToSender, Taken,
         CarriesChunk, Due, Source, write_frame, Ping, KaPing
<1> QED
  BY <1>1, <1>2, <1>3, <1>4, <1>5, <1>6, SenderKept DEF IInv, TypeOK

(* The task sees the stop signal. *)
LEMMA KaStoppedStep ==
  ASSUME IInv, KaStopped, UNCHANGED senderVars
  PROVE  IInv'
<1>1. WireTypeOK'
  BY DEF IInv, TypeOK, WireTypeOK, KaStopped
<1>2. ReceiverTypeOK'
  BY DEF IInv, TypeOK, ReceiverTypeOK, KaStopped
<1>3. (Ends /\ InStep /\ CodeShown)'
  BY DEF IInv, Ends, InStep, CodeShown, KaInSelect, KaStopped
<1>4. (SenderChannel /\ ReceiverChannel /\ HalfDuplex)'
  BY DEF IInv, SenderChannel, ReceiverChannel, HalfDuplex, KaInSelect,
         KaStopped
<1>5. Progress'
  BY DEF IInv, Progress, Taken, Due, Source, KaStopped
<1>6. (FramesToReceiver /\ Outstanding /\ AcksToSender)'
  BY DEF IInv, FramesToReceiver, Outstanding, AcksToSender, Taken,
         CarriesChunk, Due, Source, KaStopped
<1> QED
  BY <1>1, <1>2, <1>3, <1>4, <1>5, <1>6, SenderKept DEF IInv, TypeOK

(* The task reads the answer to its Ping. *)
LEMMA KaPongStep ==
  ASSUME IInv, KaPong, UNCHANGED senderVars
  PROVE  IInv'
<1>1. WireTypeOK'
  BY DEF IInv, TypeOK, WireTypeOK, KaPong
<1>2. ReceiverTypeOK'
  BY DEF IInv, TypeOK, ReceiverTypeOK, KaPong
<1>3. (Ends /\ InStep /\ CodeShown)'
  BY DEF IInv, Ends, InStep, CodeShown, KaPong
<1>4. (SenderChannel /\ ReceiverChannel /\ HalfDuplex)'
  BY DEF IInv, Ends, SenderChannel, ReceiverChannel, HalfDuplex, KaPong
<1>5. Progress'
  BY DEF IInv, Progress, Taken, Due, Source, KaPong
<1>6. (FramesToReceiver /\ Outstanding /\ AcksToSender)'
  BY DEF IInv, Ends, InStep, FramesToReceiver, Outstanding, AcksToSender,
         KaPong
<1> QED
  BY <1>1, <1>2, <1>3, <1>4, <1>5, <1>6, SenderKept DEF IInv, TypeOK

(* The task gives up waiting for the answer. *)
LEMMA KaFailsStep ==
  ASSUME IInv, KaFails, UNCHANGED senderVars
  PROVE  IInv'
<1>1. WireTypeOK'
  BY DEF IInv, TypeOK, WireTypeOK, KaFails
<1>2. ReceiverTypeOK'
  BY DEF IInv, TypeOK, ReceiverTypeOK, KaFails
<1>3. (Ends /\ InStep /\ CodeShown)'
  BY DEF IInv, Ends, InStep, CodeShown, KaFails
<1>4. (SenderChannel /\ ReceiverChannel /\ HalfDuplex)'
  BY DEF IInv, SenderChannel, ReceiverChannel, HalfDuplex, KaFails
<1>5. Progress'
  BY DEF IInv, Progress, Taken, Due, Source, KaFails
<1>6. (FramesToReceiver /\ Outstanding /\ AcksToSender)'
  BY DEF IInv, FramesToReceiver, Outstanding, AcksToSender, Taken,
         CarriesChunk, Due, Source, KaFails
<1> QED
  BY <1>1, <1>2, <1>3, <1>4, <1>5, <1>6, SenderKept DEF IInv, TypeOK

(* The user calls an operation of the session. *)
LEMMA RCallStep ==
  ASSUME IInv, NEW op \in Ops, RCall(op), UNCHANGED senderVars
  PROVE  IInv'
<1>1. WireTypeOK'
  BY DEF IInv, TypeOK, WireTypeOK, RCall
<1>2. ReceiverTypeOK'
  <2>1. kaStop' \in BOOLEAN
    BY Zenon DEF RCall
  <2>2. selected' \in SUBSET Index /\ op \in Operations
    BY ReceiveAssumption DEF RCall
  <2> QED
    BY <2>1, <2>2 DEF IInv, TypeOK, ReceiverTypeOK, RCall, ReceiverPc
<1>3. (Ends /\ InStep /\ CodeShown)'
  BY DEF IInv, Ends, InStep, CodeShown, RCall
<1>4. (SenderChannel /\ ReceiverChannel /\ HalfDuplex)'
  BY DEF IInv, SenderChannel, ReceiverChannel, HalfDuplex, RCall
<1>5. Progress'
  BY DEF IInv, Progress, Due, Source, Index, RCall
<1>6. (FramesToReceiver /\ Outstanding /\ AcksToSender)'
  BY DEF IInv, FramesToReceiver, Outstanding, AcksToSender, Taken, Source,
         RCall
<1> QED
  BY <1>1, <1>2, <1>3, <1>4, <1>5, <1>6, SenderKept DEF IInv, TypeOK

(* The background write is performed. *)
LEMMA WriteLandsStep ==
  ASSUME IInv, WriteLands, UNCHANGED senderVars
  PROVE  IInv'
<1>1. WireTypeOK'
  BY DEF IInv, TypeOK, WireTypeOK, WriteLands
<1>2. ReceiverTypeOK'
  BY DEF IInv, TypeOK, ReceiverTypeOK, WriteLands
<1>3. (Ends /\ InStep /\ CodeShown)'
  BY DEF IInv, Ends, InStep, CodeShown, WriteLands
<1>4. (SenderChannel /\ ReceiverChannel /\ HalfDuplex)'
  BY DEF IInv, SenderChannel, ReceiverChannel, HalfDuplex, WriteLands
<1>5. Progress'
  BY DEF IInv, Progress, Taken, Due, Source, WriteLands
<1>6. (FramesToReceiver /\ Outstanding /\ AcksToSender)'
  BY DEF IInv, FramesToReceiver, Outstanding, AcksToSender, Taken,
         CarriesChunk, Due, Source, WriteLands
<1> QED
  BY <1>1, <1>2, <1>3, <1>4, <1>5, <1>6, SenderKept DEF IInv, TypeOK

(* The background write fails. *)
LEMMA WriteFailsStep ==
  ASSUME IInv, WriteFails, UNCHANGED senderVars
  PROVE  IInv'
<1>1. WireTypeOK'
  BY DEF IInv, TypeOK, WireTypeOK, WriteFails
<1>2. ReceiverTypeOK'
  BY DEF IInv, TypeOK, ReceiverTypeOK, WriteFails
<1>3. (Ends /\ InStep /\ CodeShown)'
  BY DEF IInv, Ends, InStep, CodeShown, WriteFails
<1>4. (SenderChannel /\ ReceiverChannel /\ HalfDuplex)'
  BY DEF IInv, SenderChannel, ReceiverChannel, HalfDuplex, WriteFails
<1>5. Progress'
  BY DEF IInv, Progress, Taken, Due, Source, WriteFails
<1>6. (FramesToReceiver /\ Outstanding /\ AcksToSender)'
  BY DEF IInv, FramesToReceiver, Outstanding, AcksToSender, Taken,
         CarriesChunk, Due, Source, WriteFails
<1> QED
  BY <1>1, <1>2, <1>3, <1>4, <1>5, <1>6, SenderKept DEF IInv, TypeOK

(* The receiver's user interrupts the program. *)
LEMMA RDropStep ==
  ASSUME IInv, RDrop, UNCHANGED senderVars
  PROVE  IInv'
<1>1. WireTypeOK'
  BY DEF IInv, TypeOK, WireTypeOK, RDrop
<1>2. ReceiverTypeOK'
  <2>1. kaStop' \in BOOLEAN /\ rWriter' \in BOOLEAN
    BY Zenon DEF RDrop
  <2> QED
    BY <2>1 DEF IInv, TypeOK, ReceiverTypeOK, RDrop, ReceiverPc, ReceiverResult
<1>3. (Ends /\ InStep /\ CodeShown)'
  BY DEF IInv, Ends, InStep, CodeShown, RDrop
<1>4. (SenderChannel /\ ReceiverChannel /\ HalfDuplex)'
  BY DEF IInv, SenderChannel, ReceiverChannel, HalfDuplex, RDrop
<1>5. Progress'
  BY DEF IInv, Progress, Taken, Due, Source, RDrop
<1>6. (FramesToReceiver /\ Outstanding /\ AcksToSender)'
  BY DEF IInv, FramesToReceiver, Outstanding, AcksToSender, Taken, Source,
         RDrop
<1> QED
  BY <1>1, <1>2, <1>3, <1>4, <1>5, <1>6, SenderKept DEF IInv, TypeOK

(* The network drops the connection. *)
LEMMA ConnectionLostStep ==
  ASSUME IInv, ConnectionLost
  PROVE  IInv'
<1>1. WireTypeOK'
  BY DEF IInv, TypeOK, WireTypeOK, ConnectionLost
<1>2. (Ends /\ InStep /\ CodeShown)'
  BY DEF IInv, Ends, InStep, CodeShown, ConnectionLost
<1>3. (SenderChannel /\ ReceiverChannel /\ HalfDuplex)'
  BY DEF IInv, SenderChannel, ReceiverChannel, HalfDuplex, ConnectionLost
<1>4. Progress'
  BY DEF IInv, Progress, Taken, Due, Source, ConnectionLost
<1>5. (FramesToReceiver /\ Outstanding /\ AcksToSender)'
  BY DEF IInv, FramesToReceiver, Outstanding, AcksToSender, Taken,
         CarriesChunk, Due, Source, ConnectionLost
<1> QED
  BY <1>1, <1>2, <1>3, <1>4, <1>5, SenderKept, ReceiverKept
     DEF IInv, TypeOK, ConnectionLost

(* A chunk is damaged on its way; its checksum tells. *)
LEMMA ChunkDamagedStep ==
  ASSUME IInv, ChunkDamaged
  PROVE  IInv'
<1>1. WireTypeOK'
  <2>1. PICK k \in DOMAIN toReceiver, bytes \in WireData :
          /\ toReceiver[k].type = "ChunkData"
          /\ toReceiver' = [toReceiver EXCEPT ![k].data = bytes]
    BY DEF ChunkDamaged
  <2>2. toReceiver \in Seq(SenderFrame) /\ toReceiver[k] \in SenderFrame
    BY DEF IInv, TypeOK, WireTypeOK
  <2>3. [toReceiver[k] EXCEPT !.data = bytes] \in SenderFrame
    BY <2>1, <2>2 DEF SenderFrame
  <2>4. toReceiver' \in Seq(SenderFrame)
    BY <2>1, <2>2, <2>3
  <2> QED
    BY <2>4 DEF IInv, TypeOK, WireTypeOK, ChunkDamaged
<1>2. (Ends /\ InStep /\ CodeShown)'
  BY DEF IInv, Ends, InStep, CodeShown, ChunkDamaged
<1>3. (SenderChannel /\ ReceiverChannel /\ HalfDuplex)'
  BY DEF IInv, SenderChannel, ReceiverChannel, HalfDuplex, ChunkDamaged
<1>4. Progress'
  BY DEF IInv, Progress, Taken, Due, Source, ChunkDamaged
<1>5. (FramesToReceiver /\ Outstanding /\ AcksToSender)'
  BY DEF IInv, FramesToReceiver, Outstanding, AcksToSender, Taken,
         CarriesChunk, Due, ChunkDamaged
<1> QED
  BY <1>1, <1>2, <1>3, <1>4, <1>5, SenderKept, ReceiverKept
     DEF IInv, TypeOK, ChunkDamaged

-----------------------------------------------------------------------------
(* Before wait() and connect() nothing has happened: the invariant holds.   *)
LEMMA InitInv == Init => IInv
<1> SUFFICES ASSUME Init PROVE IInv
  OBVIOUS
<1> USE DEF Init
<1>1. WireTypeOK
  <2>1. lost \in BOOLEAN /\ beacon \in BOOLEAN
    BY Zenon DEF WireInit
  <2> QED
    BY <2>1 DEF WireTypeOK, WireInit
<1>2. SenderTypeOK
  <2>1. neg \in BOOLEAN
    BY Zenon DEF SenderInit
  <2> QED
    BY <2>1, FileListAssumption
       DEF SenderTypeOK, SenderInit, SenderPc, TransferState, SenderResult
<1>3. ReceiverTypeOK
  <2>1. kaStop \in BOOLEAN /\ rWriter \in BOOLEAN
    BY Zenon DEF ReceiverInit
  <2> QED
    BY <2>1, FileListAssumption, ReceiveAssumption
       DEF ReceiverTypeOK, ReceiverInit, ReceiverPc, ReceiverResult
<1>4. Ends /\ InStep /\ CodeShown
  BY DEF Ends, InStep, CodeShown, SenderInit, ReceiverInit, WireInit,
         Sending, Deciding, RReading
<1>5. SenderChannel /\ ReceiverChannel /\ HalfDuplex
  BY DEF SenderChannel, ReceiverChannel, HalfDuplex, SenderInit,
         ReceiverInit, WireInit, Deciding
<1>6. Progress
  BY FileListAssumption
     DEF Progress, SenderInit, ReceiverInit, Handshaking, Index
<1>7. FramesToReceiver /\ Outstanding /\ AcksToSender
  BY DEF FramesToReceiver, Outstanding, AcksToSender, SenderInit,
         ReceiverInit
<1> QED
  BY <1>1, <1>2, <1>3, <1>4, <1>5, <1>6, <1>7 DEF IInv, TypeOK

(* A step that changes nothing.                                             *)
LEMMA StutterInv == ASSUME IInv, UNCHANGED vars PROVE IInv'
<1> USE DEF vars, senderVars, receiverVars, wireVars, IInv
<1>1. TypeOK'
  BY DEF TypeOK, WireTypeOK, SenderTypeOK, ReceiverTypeOK
<1>2. (Ends /\ InStep /\ CodeShown)'
  BY DEF Ends, InStep, CodeShown
<1>3. (SenderChannel /\ ReceiverChannel /\ HalfDuplex)'
  BY DEF SenderChannel, ReceiverChannel, HalfDuplex, One, Two
<1>4. Progress'
  BY DEF Progress, Due, Taken, Source
<1>5. (FramesToReceiver /\ Outstanding /\ AcksToSender)'
  BY DEF FramesToReceiver, Outstanding, AcksToSender, Due, Taken, Source,
         CarriesChunk, One, Two
<1> QED
  BY <1>1, <1>2, <1>3, <1>4, <1>5

(* Every step of the system preserves the invariant.                        *)
LEMMA StepInv == ASSUME IInv, [Next]_vars PROVE IInv'
<1>1. CASE SenderStep
  BY <1>1, SWaitStep, SAcceptStep, SAcceptFailsStep, SUnexpectedMessageStep,
     SReadFailsStep, SReadHelloAckStep, SReadCodeVerifyStep, SAnswerPingStep,
     SReadFileListAckStep, SSendDirectoryStep, SReadFileStep,
     SReadFileFailsStep, SSendChunkStep, SReadMarkerAckStep,
     SReadChunkAckStep, SSendCompleteStep, SSendCompleteFailsStep,
     SFinishStep, SCancelStep
     DEF SenderStep, SenderRuns
<1>2. CASE ReceiverStep
  BY <1>2, RConnectStep, RConnectFailsStep, RUnexpectedMessageStep,
     RReadFailsStep, RReadHelloStep, RTrustMismatchStep, RReadCodeAckStep,
     RReadFileListStep, RStoppedStep, RDeclineStep, RAcceptStep,
     RAcceptFailsStep, RChunkStartStep, RChunkStartSameStep,
     RChunkStartFailsStep, RChunkDataStep, RChunkDataFailsStep, RCompleteStep,
     RCompleteFailsStep, RStartKeepAliveStep, KaPingStep, KaStoppedStep,
     KaPongStep, KaFailsStep, RCallStep, WriteLandsStep, WriteFailsStep,
     RDropStep
     DEF ReceiverStep, ReceiverRuns, KeepAliveRuns
<1>3. CASE ConnectionLost \/ ChunkDamaged
  BY <1>3, ConnectionLostStep, ChunkDamagedStep
<1>4. CASE UNCHANGED vars
  BY <1>4, StutterInv
<1> QED
  BY <1>1, <1>2, <1>3, <1>4 DEF Next

(* The invariant of the whole protocol: what is on either channel at each   *)
(* read of either side, and how far the output is.                          *)
THEOREM Invariance == Spec => []IInv
  BY InitInv, StepInv, PTL DEF Spec

(* Every variable keeps its type; in particular the sender's loop stays     *)
(* within the list and neither side writes a frame the other cannot parse.  *)
THEOREM TypeCorrect == Spec => []TypeOK
<1>1. IInv => TypeOK
  BY DEF IInv
<1> QED
  BY <1>1, Invariance, PTL

(* When accept() reports Completed, every entry is on the receiver's disk   *)
(* as the sender read it.                                                   *)
THEOREM Delivered == Spec => []CompletedDelivers
<1>1. IInv => CompletedDelivers
  BY FileListAssumption DEF IInv, Progress, CompletedDelivers, Index
<1> QED
  BY <1>1, Invariance, PTL

(* When wait() reports Completed, the receiver has taken everything and at  *)
(* most the last write of the last file is open.                            *)
THEOREM Taking == Spec => []SentMeansTaken
<1>1. IInv => SentMeansTaken
  BY FileListAssumption
     DEF IInv, TypeOK, ReceiverTypeOK, Progress, SentMeansTaken, Index
<1> QED
  BY <1>1, Invariance, PTL

(* Only a receiver that holds the share code sees the file list.            *)
THEOREM CodeGuardsList == Spec => []ListNeedsCode
<1>1. IInv => ListNeedsCode
  BY DEF IInv, CodeShown, ListNeedsCode, Deciding
<1> QED
  BY <1>1, Invariance, PTL

(* Unless accept_with_resume is used, no side reads an unexpected frame.    *)
THEOREM InStepAlways == Spec => []NeverUnexpected
<1>1. IInv => NeverUnexpected
  BY DEF IInv, HalfDuplex, NeverUnexpected
<1> QED
  BY <1>1, Invariance, PTL

(* An ack that do_transfer reads is for the marker or chunk it sent last.   *)
THEOREM AcksMatch == Spec => []AckIsForOutstanding
<1>1. ASSUME IInv, sPc \in {"markerAck", "chunkAck"},
             rOp # "accept_with_resume"
      PROVE  \A k \in DOMAIN toSender :
               /\ toSender[k].type = "ChunkAck"
               /\ toSender[k].file_index = sFile
               /\ toSender[k].chunk_index =
                    IF sPc = "chunkAck" THEN sChunk ELSE 1
  <2>1. toSender \in Seq(ReceiverFrame) /\ ~One(toSender, "ResumeRequest")
    BY <1>1 DEF IInv, TypeOK, WireTypeOK, HalfDuplex, One
  <2>2. toSender = <<>> \/ One(toSender, "ChunkAck")
    BY <1>1, <2>1 DEF IInv, SenderChannel
  <2> QED
    BY <1>1, <2>1, <2>2 DEF IInv, AcksToSender, One
<1>2. IInv => AckIsForOutstanding
  BY <1>1 DEF AckIsForOutstanding
<1> QED
  BY <1>2, Invariance, PTL

(* A session that holds its stream itself has nothing unread on it.         *)
THEOREM CleanStream == Spec => []StreamCleanAtCall
<1>1. IInv => StreamCleanAtCall
  BY DEF IInv, ReceiverChannel, StreamCleanAtCall, Deciding
<1> QED
  BY <1>1, Invariance, PTL

(* A step that changes an output path changes the one of the entry the       *)
(* sender is at.                                                            *)
LEMMA WritesStep ==
  ASSUME IInv, Next
  PROVE  \A i \in Index : out'[i] # out[i] => i = sFile
<1>1. CASE SenderStep
  BY <1>1 DEF SenderStep, receiverVars
<1>2. CASE RChunkStart
  BY <1>2, AtChunkStart DEF RChunkStart
<1>3. CASE RChunkData
  BY <1>3, AtChunkData DEF RChunkData
<1>4. CASE ReceiverStep /\ ~RChunkStart /\ ~RChunkData
  <2>1. UNCHANGED out
    BY <1>4
       DEF ReceiverStep, ReceiverRuns, KeepAliveRuns, receiverVars, diskVars,
           RConnect, RConnectFails, RUnexpectedMessage, RReadFails,
           RReadHello, RTrustMismatch, RReadCodeAck, RReadFileList,
           RStopped, RDecline, RAccept, RAcceptFails, RChunkStartSame,
           RChunkStartFails, RChunkDataFails, RComplete, RCompleteFails,
           RStartKeepAlive, KaPing, KaStopped, KaPong, KaFails, RCall,
           WriteLands, WriteFails, RDrop
  <2> QED
    BY <2>1
<1>5. CASE ConnectionLost \/ ChunkDamaged
  BY <1>5 DEF ConnectionLost, ChunkDamaged, receiverVars
<1> QED
  BY <1>1, <1>2, <1>3, <1>4, <1>5 DEF Next, ReceiverStep

(* do_receive changes only the entry do_transfer is at.                     *)
THEOREM WritesInOrder == Spec => WritesFollowSender
<1>1. IInv /\ [Next]_vars => [\A i \in Index : out'[i] # out[i] => i = sFile]_vars
  BY WritesStep
<1> QED
  BY <1>1, Invariance, PTL DEF Spec, WritesFollowSender


-----------------------------------------------------------------------------
(* Under the refinement mapping of Transfer the initial states are initial  *)
(* states of Delivery, and every step is a step of Delivery or leaves its   *)
(* variables alone.                                                         *)

(* When the receiver has agreed, and what it has done by then.  With IInv   *)
(* this is what the refinement needs.                                       *)
Agreed ==
  /\ rPc = "receive" => rState = "Transferring"
  /\ rState \in {"Transferring", "Completed"} => rPc \in {"receive", "ended"}
  /\ rCur # 0 => rState \in {"Transferring", "Completed"}

(* Agreed holds before anything has happened.                               *)
LEMMA AgreedInit == Init => Agreed
  BY DEF Init, ReceiverInit, Agreed

(* No step breaks it: only accept starts the loop, decline comes before.    *)
LEMMA AgreedStep == ASSUME IInv, Agreed, [Next]_vars PROVE Agreed'
<1>1. CASE UNCHANGED receiverVars
  BY <1>1 DEF Agreed, receiverVars
<1>2. CASE ReceiverStep
  BY <1>2
     DEF IInv, Progress, Agreed, ReceiverStep, ReceiverRuns, KeepAliveRuns,
         receiverVars, diskVars, RReturn, RError, RRead, RJoin, RReading,
         RConnect, RConnectFails, RUnexpectedMessage, RReadFails,
         RReadHello, RTrustMismatch, RReadCodeAck, RReadFileList,
         RStopped, RDecline, RAccept, RAcceptFails, RChunkStart,
         RChunkStartSame, RChunkStartFails, RChunkData, RChunkDataFails,
         RComplete, RCompleteFails, RStartKeepAlive, KaPing, KaStopped,
         KaPong, KaFails, RCall, WriteLands, WriteFails, RDrop
<1> QED
  BY <1>1, <1>2
     DEF Next, SenderStep, ConnectionLost, ChunkDamaged, vars

(* A return of wait() or cancel() that does not report Completed.           *)
LEMMA SenderFails ==
  ASSUME IInv, UNCHANGED <<sent, receiverVars>>,
         sPc # "ended", sPc' = "ended", sState' # "Completed"
  PROVE  DeliveryOf!SenderEnds
  BY DEF IInv, Progress, Outcome, receiverVars, DeliveryOf!SenderEnds

(* A step of wait() to another read.                                        *)
LEMMA SenderGoesOn ==
  ASSUME IInv, UNCHANGED <<sent, receiverVars>>,
         sPc # "ended", sPc' # "ended", sState' # "Completed"
  PROVE  UNCHANGED DeliveryOf!vars
  BY DEF IInv, Progress, Outcome, receiverVars, DeliveryOf!vars

(* An operation of the receiver returns without reporting Completed.        *)
LEMMA ReceiverFails ==
  ASSUME IInv, Agreed, UNCHANGED <<senderVars, out, rCur>>,
         rPc # "ended", rPc' = "ended",
         rState' = rState \/ (rState' = "Cancelled" /\ rPc # "receive")
  PROVE  DeliveryOf!ReceiverEnds
  BY DEF IInv, Progress, Agreed, Outcome, senderVars, DeliveryOf!ReceiverEnds

(* A step of the receiver that touches no output path.                      *)
LEMMA ReceiverGoesOn ==
  ASSUME UNCHANGED <<senderVars, out, rCur, rState>>,
         rPc' = rPc \/ (rPc # "ended" /\ rPc' # "ended")
  PROVE  UNCHANGED DeliveryOf!vars
  BY DEF Outcome, senderVars, DeliveryOf!vars

(* do_transfer reads the next file.                                         *)
LEMMA SReadFileImplements ==
  ASSUME IInv, SReadFile, UNCHANGED receiverVars PROVE DeliveryOf!ReadNext
<1>1. PICK c \in Seq(Chunk) : sent' = [sent EXCEPT ![sFile] = c]
  BY ShareAssumption DEF SReadFile, Readable
<1>2. /\ sFile \in Index \ Dirs
      /\ sent \in [Index -> Seq(Chunk)]
      /\ rCur = sFile - 1
      /\ \A i \in Index : i < sFile => out[i] = Source(i)
      /\ sPc = "entry" /\ sPc' # "ended"
      /\ sState' = sState /\ sState # "Completed"
  BY DEF IInv, TypeOK, SenderTypeOK, Progress, SReadFile
<1>3. rCur + 1 = sFile /\ (rCur > 0 => rCur \in Index /\ rCur < sFile)
  BY <1>2, FileListAssumption DEF Index
<1>4. rCur > 0 => DeliveryOf!Copied(rCur)
  BY <1>2, <1>3
     DEF Source, File, Directory, DeliveryOf!Copied, DeliveryOf!Copy
<1>5. sent'[sFile] = c /\ sent' = [sent EXCEPT ![sFile] = sent'[sFile]]
  BY <1>1, <1>2
<1> QED
  BY <1>1, <1>2, <1>3, <1>4, <1>5
     DEF Outcome, receiverVars, Index, DeliveryOf!ReadNext, DeliveryOf!Index

(* do_transfer ends when everything is copied.                              *)
LEMMA SFinishImplements ==
  ASSUME IInv, Agreed, SFinish, UNCHANGED receiverVars
  PROVE  DeliveryOf!SenderEnds
<1>1. sFile = N + 1 /\ rCur # 0 /\ sState # "Completed"
  BY FileListAssumption DEF IInv, Progress, SFinish
<1>2. \A i \in Index : out[i] = Source(i)
  BY <1>1, FileListAssumption DEF IInv, Progress, Index
<1>3. \A i \in DeliveryOf!Index : DeliveryOf!Copied(i)
  BY <1>2 DEF Source, File, Directory, Index, DeliveryOf!Index,
              DeliveryOf!Copied, DeliveryOf!Copy
<1>4. rState \in {"Transferring", "Completed"}
  BY <1>1 DEF Agreed
<1> QED
  BY <1>1, <1>3, <1>4
     DEF SFinish, SReturn, Outcome, receiverVars, DeliveryOf!SenderEnds

(* handle_chunk_start creates the next entry.                               *)
LEMMA RChunkStartImplements ==
  ASSUME IInv, Agreed, RChunkStart, UNCHANGED senderVars
  PROVE  DeliveryOf!Create
<1>1. /\ Head(toReceiver).file_index = sFile
      /\ sFile \in Index /\ rCur = sFile - 1
  BY AtChunkStart
<1>2. /\ rPc = "receive" /\ rPc' = rPc
      /\ rState = "Transferring" /\ rState' = rState
  BY DEF Agreed, RChunkStart, RRead
<1>3. rCur + 1 = sFile /\ rCur < N /\ (rCur > 0 => rCur \in Index /\ rCur < sFile)
  BY <1>1, FileListAssumption DEF Index
<1>4. rCur > 0 => DeliveryOf!Copied(rCur)
  BY <1>3 DEF IInv, Progress, Source, File, Directory, DeliveryOf!Copied,
              DeliveryOf!Copy
<1>5. rCur' = sFile /\ out' = [out EXCEPT ![sFile] = Created(sFile)]
  BY <1>1 DEF RChunkStart
<1> QED
  BY <1>2, <1>3, <1>4, <1>5
     DEF Created, File, Directory, Outcome, senderVars, DeliveryOf!Create

(* handle_chunk_data appends the next chunk.                                *)
LEMMA RChunkDataImplements ==
  ASSUME IInv, Agreed, RChunkData, UNCHANGED senderVars
  PROVE  DeliveryOf!Extend
<1>1. /\ sFile \in Index /\ rCur = sFile
      /\ sChunk \in 1..Len(sent[sFile])
      /\ Taken(sChunk - 1)
      /\ CarriesChunk(Head(toReceiver))
  BY AtChunkData DEF RChunkData
<1>2. /\ rPc = "receive" /\ rPc' = rPc /\ rCur' = rCur
      /\ rState = "Transferring" /\ rState' = rState
  BY DEF Agreed, RChunkData, RRead
<1>3. decompress(Head(toReceiver).data) = sent[sFile][sChunk]
  BY <1>1
     DEF RChunkData, Intact, CarriesChunk, xxh64, Raw, compress, decompress
<1>4. Len(out[rCur].data) = sChunk - 1
  BY <1>1 DEF Taken
<1>5. sent[sFile] \in Seq(Chunk)
  BY <1>1 DEF IInv, TypeOK, SenderTypeOK
<1>6. Len(out[rCur].data) < Len(sent[rCur]) /\ Len(out[rCur].data) + 1 = sChunk
  BY <1>1, <1>4, <1>5
<1>7. out' = [out EXCEPT ![rCur].data =
                Append(out[rCur].data, sent[rCur][Len(out[rCur].data) + 1])]
  BY <1>1, <1>3, <1>6 DEF RChunkData
<1> QED
  BY <1>1, <1>2, <1>6, <1>7
     DEF Outcome, senderVars, Index, DeliveryOf!Extend, DeliveryOf!Index

(* do_receive ends when everything is copied.                               *)
LEMMA RCompleteImplements ==
  ASSUME IInv, Agreed, RComplete, UNCHANGED senderVars
  PROVE  DeliveryOf!ReceiverEnds
<1>1. Head(toReceiver) = toReceiver[1] /\ rPc = "receive" /\ toReceiver # <<>>
  BY HeadIs DEF IInv, TypeOK, WireTypeOK, RComplete, RRead
<1>2. sFile = N + 1 /\ rState = "Transferring"
  BY <1>1 DEF IInv, FramesToReceiver, Agreed, RComplete
<1>3. \A i \in Index : out[i] = Source(i)
  BY <1>2, FileListAssumption DEF IInv, Progress, Index
<1>4. \A i \in DeliveryOf!Index : DeliveryOf!Copied(i)
  BY <1>3 DEF Source, File, Directory, Index, DeliveryOf!Index,
              DeliveryOf!Copied, DeliveryOf!Copy
<1> QED
  BY <1>1, <1>2, <1>4
     DEF RComplete, RReturn, Outcome, senderVars, DeliveryOf!ReceiverEnds

(* Every step of the sender is a step of Delivery or a stutter.             *)
LEMMA SenderImplements ==
  ASSUME IInv, Agreed, SenderStep
  PROVE  DeliveryOf!Next \/ UNCHANGED DeliveryOf!vars
<1>1. CASE SReadFile
  BY <1>1, SReadFileImplements DEF SenderStep, DeliveryOf!Next
<1>2. CASE SFinish
  BY <1>2, SFinishImplements DEF SenderStep, DeliveryOf!Next
<1>3. CASE ~SReadFile /\ ~SFinish
  <2>1. /\ UNCHANGED <<sent, receiverVars>>
        /\ sPc # "ended"
        /\ sState' # "Completed"
    BY <1>3
       DEF IInv, Progress, SenderStep, SenderRuns, senderVars, SReturn, SError,
           SRead, SReading, SWait, SAccept, SAcceptFails, SUnexpectedMessage,
           SReadFails, SReadHelloAck, SReadCodeVerify, SAnswerPing,
           SReadFileListAck, SSendDirectory, SReadFileFails, SSendChunk,
           SReadMarkerAck, SReadChunkAck, SSendComplete, SSendCompleteFails,
           SCancel
  <2> QED
    BY <2>1, SenderFails, SenderGoesOn DEF DeliveryOf!Next
<1> QED
  BY <1>1, <1>2, <1>3

(* Every step of the receiver is a step of Delivery or a stutter.           *)
LEMMA ReceiverImplements ==
  ASSUME IInv, Agreed, ReceiverStep
  PROVE  DeliveryOf!Next \/ UNCHANGED DeliveryOf!vars
<1>1. CASE RChunkStart
  BY <1>1, RChunkStartImplements DEF ReceiverStep, DeliveryOf!Next
<1>2. CASE RChunkData
  BY <1>2, RChunkDataImplements DEF ReceiverStep, DeliveryOf!Next
<1>3. CASE RComplete
  BY <1>3, RCompleteImplements DEF ReceiverStep, DeliveryOf!Next
<1>4. CASE RAccept
  <2>1. /\ UNCHANGED <<senderVars, out, rCur>>
        /\ rPc = "stopping" /\ rPc' # "ended"
        /\ rState' \in {rState, "Transferring"}
    BY <1>4 DEF RAccept, RJoin, diskVars, ReceiverStep
  <2>2. rState \notin {"Transferring", "Completed"}
    BY <2>1 DEF Agreed
  <2> QED
    BY <2>1, <2>2
       DEF Outcome, senderVars, DeliveryOf!Next, DeliveryOf!Agree, DeliveryOf!vars
<1>5. CASE ~RChunkStart /\ ~RChunkData /\ ~RComplete /\ ~RAccept
  <2>1. /\ UNCHANGED <<senderVars, out, rCur>>
        /\ \/ rPc' = rPc
           \/ rPc # "ended"
        /\ \/ rState' = rState
           \/ rState' = "Cancelled" /\ rPc = "stopping" /\ rPc' = "ended"
    BY <1>5
       DEF ReceiverStep, ReceiverRuns, KeepAliveRuns, receiverVars, diskVars,
           RReturn, RError, RRead, RJoin, RReading, RConnect, RConnectFails,
           RUnexpectedMessage, RReadFails, RReadHello, RTrustMismatch,
           RReadCodeAck, RReadFileList, RStopped, RDecline, RAcceptFails,
           RChunkStartSame, RChunkStartFails, RChunkDataFails,
           RCompleteFails, RStartKeepAlive, KaPing, KaStopped, KaPong,
           KaFails, RCall, WriteLands, WriteFails, RDrop
  <2> QED
    BY <2>1, ReceiverFails, ReceiverGoesOn DEF DeliveryOf!Next
<1> QED
  BY <1>1, <1>2, <1>3, <1>4, <1>5

(* The initial states are initial states of Delivery.                       *)
LEMMA InitImplements == Init => DeliveryOf!Init
  BY ReceiveAssumption
     DEF Init, SenderInit, ReceiverInit, Outcome, OutputEntry, Index,
         DeliveryOf!Init, DeliveryOf!Index

(* Every step of the system is a step of Delivery or a stutter.             *)
LEMMA StepImplements ==
  ASSUME IInv, Agreed, [Next]_vars
  PROVE  [DeliveryOf!Next]_(DeliveryOf!vars)
<1>1. CASE UNCHANGED <<senderVars, receiverVars>>
  BY <1>1 DEF senderVars, receiverVars, Outcome, DeliveryOf!vars
<1> QED
  BY <1>1, SenderImplements, ReceiverImplements
     DEF Next, ConnectionLost, ChunkDamaged, vars

(* The transfer protocol, with its keep-alive, acks, checksums and faults,  *)
(* implements copying the list in order and reporting success only for a    *)
(* full copy.                                                               *)
THEOREM Refinement == Spec => ImplementsDelivery
<1>1. Spec => []Agreed
  BY AgreedInit, AgreedStep, Invariance, PTL DEF Spec
<1> QED
  BY <1>1, InitImplements, StepImplements, Invariance, PTL
     DEF Spec, ImplementsDelivery, DeliveryOf!Spec
=============================================================================
