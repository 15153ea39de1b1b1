---------------------------- MODULE TransferInv -----------------------------
(***************************************************************************)
(* The inductive invariant of Transfer: what each channel may hold at each *)
(* point of the two programs, and how far the receiver's output is at      *)
(* each point of do_transfer.  Checked by TLC, proved in TransferProofs.   *)
(***************************************************************************)
EXTENDS Transfer

One(channel, type) == Len(channel) = 1 /\ channel[1].type = type

Two(channel, type1, type2) ==
  Len(channel) = 2 /\ channel[1].type = type1 /\ channel[2].type = type2

Handshaking == {"new", "accept", "helloAck", "codeVerify", "listAck"}
Sending == {"entry", "markerAck", "chunk", "chunkAck", "complete"}
Deciding == {"ready", "stopping"}

(* The ends of the connection, and who holds the receiver's.                *)
Ends ==
  /\ sEnd = "closed" <=> sPc = "ended"
  /\ rPc = "idle" => rEnd = "none"
  /\ rPc \in RReading => rEnd = "open"
  /\ rPc = "ended" => rEnd # "open"
  /\ ka # "none" => rPc \in Deciding
  /\ rPc \in Deciding => rEnd # "none"
  /\ ka \in {"sleep", "pong", "ok"} => rEnd = "open"
  /\ ka = "failed" => rEnd = "closed"

(* Where the receiver can be, given where the sender is, and how it got     *)
(* there.                                                                   *)
InStep ==
  /\ sPc \in {"new", "accept"} => rPc \in {"idle", "hello", "ended"}
  /\ sPc = "helloAck" => rPc \in {"hello", "codeAck", "fileList", "ended"}
  /\ sPc = "codeVerify" => rPc \in {"codeAck", "fileList", "ended"}
  /\ sPc \in {"helloAck", "codeVerify"} /\ rPc = "fileList" => via = "trusted"
  /\ sPc = "listAck" => rPc \notin {"idle", "hello"}
  /\ sPc \in Sending => rPc \in {"resumeAck", "receive", "ended"}
  /\ rPc = "resumeAck" => rOp = "accept_with_resume"
  /\ rPc = "receive" => rOp \in {"accept", "accept_files"}
  /\ rPc \in Deciding \cup {"resumeAck", "receive"} =>
       sPc \in {"listAck", "ended"} \cup Sending

(* Who has shown the share code.                                            *)
CodeShown ==
  /\ rPc = "codeAck" => via # "trusted"
  /\ sPc \in {"listAck"} \cup Sending =>
       rCode = ShareCode /\ via # "trusted"
  /\ rPc \in Deciding \cup {"resumeAck", "receive"} =>
       rCode = ShareCode /\ via # "trusted"
  /\ rPc = "fileList" => via = "trusted" \/ rCode = ShareCode
  /\ \A k \in DOMAIN toSender : toSender[k].type = "CodeVerify" =>
       toSender[k].code_hmac = Hmac(rCode) /\ via # "trusted"
  /\ \A k \in DOMAIN toReceiver :
       \/ toReceiver[k].type = "FileList"
       \/ toReceiver[k].type = "CodeVerifyAck" /\ toReceiver[k].success
       => rCode = ShareCode /\ via # "trusted"

(* What the sender may find on its channel.                                 *)
SenderChannel ==
  /\ sPc \in {"new", "accept"} => toSender = <<>>
  /\ sPc = "helloAck" =>
       \/ toSender = <<>>
       \/ One(toSender, "HelloAck")
       \/ Two(toSender, "HelloAck", "CodeVerify")
  /\ sPc = "codeVerify" => toSender = <<>> \/ One(toSender, "CodeVerify")
  /\ sPc = "listAck" =>
       \/ toSender = <<>>
       \/ One(toSender, "Ping")
       \/ One(toSender, "FileListAck")
       \/ Two(toSender, "FileListAck", "ResumeRequest")
  /\ sPc \in {"entry", "chunk", "complete"} =>
       toSender = <<>> \/ One(toSender, "ResumeRequest")
  /\ sPc \in {"markerAck", "chunkAck"} =>
       \/ toSender = <<>>
       \/ One(toSender, "ResumeRequest")
       \/ One(toSender, "ChunkAck")

(* What the receiver may find on its channel.                               *)
ReceiverChannel ==
  /\ rPc = "idle" => toReceiver = <<>>
  /\ rPc = "hello" => toReceiver = <<>> \/ One(toReceiver, "Hello")
  /\ rPc = "codeAck" =>
       \/ toReceiver = <<>>
       \/ Two(toReceiver, "CodeVerifyAck", "FileList") /\ toReceiver[1].success
       \/ One(toReceiver, "CodeVerifyAck") /\ ~toReceiver[1].success
  /\ rPc = "fileList" => toReceiver = <<>> \/ One(toReceiver, "FileList")
  /\ rPc \in Deciding /\ rEnd = "open" =>
       toReceiver = <<>> \/ (ka = "pong" /\ One(toReceiver, "Pong"))
  /\ rPc \in {"resumeAck", "receive"} =>
       \/ toReceiver = <<>>
       \/ One(toReceiver, "TransferComplete")
       \/ One(toReceiver, "ChunkStart")
       \/ One(toReceiver, "ChunkData")
       \/ Two(toReceiver, "ChunkStart", "ChunkData")

(* The protocol is half duplex: a side that writes has read everything, so  *)
(* it writes to an empty channel, with the exception of ResumeRequest.      *)
HalfDuplex ==
  /\ sPc # "ended" /\ toReceiver # <<>> =>
       toSender = <<>> \/ One(toSender, "ResumeRequest")
  /\ sPc \in {"new", "accept", "codeVerify", "entry", "chunk"} =>
       toReceiver = <<>>
  /\ sPc = "helloAck" /\ rPc \in {"codeAck", "fileList"} => toReceiver = <<>>
  /\ sPc = "helloAck" /\ rPc = "hello" => toSender = <<>>
  /\ sPc = "listAck" /\ rPc \in {"codeAck", "fileList"} => toSender = <<>>
  /\ sPc = "listAck" /\ rPc \in Deciding =>
       \/ toSender = <<>>
       \/ One(toSender, "Ping") /\ (rEnd = "open" => ka = "pong")
  /\ sPc = "listAck" /\ rPc \in {"resumeAck", "receive"} =>
       toReceiver = <<>> /\ ~One(toSender, "Ping")
  /\ \A k \in DOMAIN toSender : toSender[k].type = "ResumeRequest" =>
       rOp = "accept_with_resume" /\ rPc \in {"resumeAck", "ended"}
  /\ "UnexpectedMessage" \in {sResult, rResult} =>
       rOp = "accept_with_resume" /\ rPc \in {"resumeAck", "ended"}

(* The first k chunks of the entry the sender is at have been taken.        *)
Taken(k) ==
  /\ out[sFile].kind = "file"
  /\ Len(out[sFile].data) = k
  /\ \A j \in 1..k : out[sFile].data[j] = sent[sFile][j]

(* The receiver is where chunk sChunk of entry sFile continues its output.  *)
Due ==
  IF sChunk = 1 THEN rCur = sFile - 1 ELSE rCur = sFile /\ Taken(sChunk - 1)

(* How far the sender's loop and the receiver's output are.                 *)
Progress ==
  /\ \A i \in Index : i < sFile => out[i] = Source(i)
  /\ \A i \in Dirs : sent[i] = <<>>
  /\ rCur \in {sFile - 1, sFile}
  /\ rCur # 0 => rPc \in {"receive", "ended"}
  /\ sPc \in Handshaking => sFile = 1 /\ sChunk = 1 /\ rCur = 0
  /\ sPc = "entry" => rCur = sFile - 1
  /\ sPc = "complete" => sFile = N + 1
  /\ sPc = "markerAck" => sFile \in Index /\ sent[sFile] = <<>>
  /\ sPc \in {"chunk", "chunkAck"} =>
       sFile \in Index \ Dirs /\ sChunk \in 1..Len(sent[sFile])
  /\ sPc = "chunk" => Due
  /\ rPc = "receive" /\ rCur \in Index \ Dirs /\ sent[rCur] # <<>> => rWriter
  /\ sState = "Completed" => sPc = "ended" /\ sFile = N + 1
  /\ rState = "Completed" => rPc = "ended" /\ sFile = N + 1 /\ flight = "none"

(* A ChunkData frame carries the chunk the sender is at, or has been        *)
(* damaged on its way, in which case the checksum tells.                    *)
CarriesChunk(m) ==
  \E bytes \in {Raw(sent[sFile][sChunk]), compress(sent[sFile][sChunk])} :
    m.checksum = xxh64(bytes)

(* What a frame on its way to do_receive says about the two loops.          *)
FramesToReceiver ==
  rPc = "receive" /\ toReceiver # <<>> =>
    LET m == toReceiver[1] IN
    /\ m.type = "TransferComplete" => sFile = N + 1
    /\ m.type = "ChunkStart" =>
         /\ sFile \in Index
         /\ m.file_index = sFile
         /\ Len(toReceiver) = 1 =>
              m.total_chunks = 0 /\ sent[sFile] = <<>> /\ rCur = sFile - 1
         /\ Len(toReceiver) = 2 =>
              /\ sFile \notin Dirs
              /\ sChunk \in 1..Len(sent[sFile])
              /\ m.total_chunks = Len(sent[sFile])
              /\ Due
              /\ toReceiver[2].file_index = sFile
              /\ toReceiver[2].chunk_index = sChunk
              /\ CarriesChunk(toReceiver[2])
    /\ m.type = "ChunkData" =>
         /\ sFile \in Index \ Dirs
         /\ sChunk \in 1..Len(sent[sFile])
         /\ rCur = sFile
         /\ Taken(sChunk - 1)
         /\ m.file_index = sFile
         /\ m.chunk_index = sChunk
         /\ CarriesChunk(m)

(* The two loops are at the same entry and chunk while a frame is on its    *)
(* way.                                                                     *)
Outstanding ==
  /\ sPc = "markerAck" /\ toReceiver # <<>> => One(toReceiver, "ChunkStart")
  /\ sPc = "chunkAck" /\ toReceiver # <<>> =>
       \/ One(toReceiver, "ChunkData")
       \/ Two(toReceiver, "ChunkStart", "ChunkData")

(* What an ack on its way to do_transfer says about the output.             *)
AcksToSender ==
  /\ sPc = "markerAck" /\ One(toSender, "ChunkAck") =>
       /\ toSender[1].file_index = sFile
       /\ toSender[1].chunk_index = 1
       /\ toSender[1].success => rCur = sFile /\ out[sFile] = Source(sFile)
  /\ sPc = "chunkAck" /\ One(toSender, "ChunkAck") =>
       /\ toSender[1].file_index = sFile
       /\ toSender[1].chunk_index = sChunk
       /\ toSender[1].success => rCur = sFile /\ Taken(sChunk)

(* The inductive invariant: at every read of either side the frames on its  *)
(* channel are ones it expects there, and do_receive's output is as far as  *)
(* do_transfer's loop and the frames on their way say.                      *)
IInv ==
  /\ TypeOK
  /\ Ends
  /\ InStep
  /\ CodeShown
  /\ SenderChannel
  /\ ReceiverChannel
  /\ HalfDuplex
  /\ Progress
  /\ FramesToReceiver
  /\ Outstanding
  /\ AcksToSender

=============================================================================
