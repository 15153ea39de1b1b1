--------------------------- MODULE ReceiveSession ---------------------------
(***************************************************************************)
(* The receiver: ReceiveSession in crates/yoop-core/src/transfer/mod.rs,   *)
(* with its keep-alive task and the FileWriter of                          *)
(* crates/yoop-core/src/file/mod.rs.                                       *)
(*                                                                         *)
(*   idle       no connect function has returned                           *)
(*   hello      connected, waiting for Hello                               *)
(*   codeAck    HelloAck and CodeVerify sent, waiting for CodeVerifyAck    *)
(*   fileList   waiting for FileList                                       *)
(*   ready      the session exists, its user decides what to do            *)
(*   stopping   rOp was called and is in stop_keep_alive                   *)
(*   resumeAck  accept_with_resume waits for ResumeAck                     *)
(*   receive    the loop of do_receive                                     *)
(*   ended      the last operation has returned, or the session is dropped *)
(*                                                                         *)
(* The keep-alive task owns the stream while it runs; ka is where it is:   *)
(* none, sleep (in select!), pong (Ping sent, waiting for a frame), ok and *)
(* failed (finished, not joined).                                          *)
(***************************************************************************)
EXTENDS Wire

CONSTANTS
  Vias,       \* how the receiver may connect: code, resume, trusted
  Ops,        \* the operations its user may call on the session
  Existing    \* what may already be at an entry's output path

VARIABLES
  rPc,        \* where the receiver is, see above
  rState,     \* TransferState it reports to its progress observers
  rResult,    \* what its last operation returned
  via,        \* the connect function used
  rCode,      \* the share code it was given
  ka,         \* the keep-alive task
  kaStop,     \* stop_tx has been used
  rOp,        \* the operation its user called
  selected,   \* the entries its user agreed to
  rCur,       \* current_file_index, 0 for None
  rWriter,    \* current_writer is Some
  flight,     \* the writer's last write: none, pending, failed
  out,        \* the output path of each entry, see below
  rBytes      \* progress.total_bytes_transferred, in chunks

receiverVars == <<rPc, rState, rResult, via, rCode, ka, kaStop, rOp, selected,
                  rCur, rWriter, flight, out, rBytes>>
keepAliveVars == <<ka, kaStop>>
diskVars == <<rCur, rWriter, flight, out, rBytes>>
callVars == <<via, rCode, rOp, selected>>

ReceiverPc ==
  {"idle", "hello", "codeAck", "fileList", "ready", "stopping", "resumeAck",
   "receive", "ended"}

ReceiverResult ==
  {"none", "Ok", "CodeNotFound", "Io", "TrustError", "ResumeMismatch",
   "UnexpectedMessage", "KeepAliveFailed", "Internal", "ChecksumMismatch",
   "Declined", "Dropped"}

Operations ==
  {"accept", "accept_files", "accept_with_resume", "decline", "stop"}

(* What is at an output path.  The data of a file are the chunks handed to  *)
(* its writer.  tokio's File reports a write as done when it has buffered   *)
(* it and performs it in the background: while flight is pending the last   *)
(* chunk is not on the disk yet, and if flight is failed it never will be.  *)
Absent == [kind |-> "absent", data |-> <<>>]
Directory == [kind |-> "dir", data |-> <<>>]
File(chunks) == [kind |-> "file", data |-> chunks]

OutputEntry == [kind : {"absent", "dir", "file"}, data : Seq(Chunk)]

ASSUME ReceiveAssumption ==
  /\ Vias \subseteq {"code", "resume", "trusted"}
  /\ Ops \subseteq Operations
  /\ Existing \subseteq OutputEntry

ReceiverInit ==
  /\ rPc = "idle"
  /\ rState = "Preparing"
  /\ rResult = "none"
  /\ via \in Vias
  /\ rCode \in Codes
  /\ ka = "none"
  /\ kaStop = FALSE
  /\ rOp = "none"
  /\ selected = Index
  /\ rCur = 0
  /\ rWriter = FALSE
  /\ flight = "none"
  /\ out \in [Index -> Existing]
  /\ rBytes = 0

(* An operation returns and the stream it held is dropped.                  *)
RReturn(result) ==
  /\ rPc' = "ended"
  /\ rResult' = result
  /\ rEnd' = "closed"

-----------------------------------------------------------------------------
(* connect_with_options, connect_with_resume, connect_trusted               *)

(* A code given with an address and a trusted device are dialled directly;  *)
(* otherwise the code is looked up among the announced shares.              *)
RConnect ==
  /\ rPc = "idle"
  /\ sEnd # "closed"
  /\ via \in {"code", "trusted"} \/ (beacon /\ rCode = ShareCode)
  /\ rPc' = "hello"
  /\ rEnd' = "open"
  /\ UNCHANGED <<rState, rResult, callVars, keepAliveVars, diskVars>>
  /\ UNCHANGED <<toReceiver, toSender, sEnd, lost, beacon>>

(* Discovery times out, or nobody listens at the address any more.          *)
RConnectFails ==
  /\ rPc = "idle"
  /\ \/ via # "trusted" /\ rResult' = "CodeNotFound"
     \/ sEnd = "closed" /\ rResult' = "Io"
  /\ rPc' = "ended"
  /\ UNCHANGED <<rState, callVars, keepAliveVars, diskVars, wireVars>>

(* The frame types the receiver accepts at each of its reads.               *)
RExpects(pc) ==
  CASE pc = "hello" -> IF via = "trusted" THEN {"TrustedHello", "Hello"}
                       ELSE {"Hello"}
    [] pc = "codeAck" -> {"CodeVerifyAck"}
    [] pc = "fileList" -> {"FileList"}
    [] pc = "resumeAck" -> {"ResumeAck"}
    [] OTHER -> {"ChunkStart", "ChunkData", "TransferComplete",
                 "TransferCancel"}

\* Mutant: do_receive swallows read errors.
RReading_no_receive == {"hello", "codeAck", "fileList", "resumeAck"}

RReading == {"hello", "codeAck", "fileList", "resumeAck", "receive"}

(* read_frame returned the frame m at the read pc.                          *)
RRead(pc, m) ==
  /\ rPc = pc
  /\ toReceiver # <<>>
  /\ m = Head(toReceiver)
  /\ m.type \in RExpects(pc)
  /\ toReceiver' = Tail(toReceiver)

(* An early return through `?': the reported state stays what it was.       *)
RError(result) ==
  /\ RReturn(result)
  /\ UNCHANGED <<rState, callVars, keepAliveVars>>
  /\ UNCHANGED <<sEnd, lost, beacon>>

RUnexpectedMessage ==
  /\ rPc \in RReading
  /\ toReceiver # <<>>
  /\ Head(toReceiver).type \notin RExpects(rPc)
  /\ toReceiver' = Tail(toReceiver)
  /\ RError("UnexpectedMessage")
  /\ UNCHANGED <<toSender, diskVars>>

RReadFails ==
  /\ rPc \in RReading
  /\ read_frame_fails(toReceiver, sEnd)
  /\ RError("Io")
  /\ UNCHANGED <<toReceiver, toSender, diskVars>>

(* do_handshake, and CodeVerify; do_trusted_handshake answers the same      *)
(* Hello without compression and never sends CodeVerify.                    *)
RReadHello ==
  LET m == Head(toReceiver) IN
  /\ RRead("hello", m)
  /\ IF via = "trusted"
     THEN /\ toSender' = write_frame(toSender, <<HelloAck(FALSE)>>)
          /\ rPc' = "fileList"
     ELSE /\ toSender' =
               write_frame(toSender, <<HelloAck(TRUE), CodeVerify(rCode)>>)
          /\ rPc' = "codeAck"
  /\ UNCHANGED <<rState, rResult, callVars, keepAliveVars, diskVars>>
  /\ UNCHANGED <<sEnd, rEnd, lost, beacon>>

(* Another device than the trusted one answers at the stored address.       *)
RTrustMismatch ==
  LET m == Head(toReceiver) IN
  /\ via = "trusted"
  /\ RRead("hello", m)
  /\ RError("TrustError")
  /\ UNCHANGED <<toSender, diskVars>>

RReadCodeAck ==
  LET m == Head(toReceiver) IN
  /\ RRead("codeAck", m)
  /\ IF m.success
     THEN /\ rPc' = "fileList"
          /\ UNCHANGED <<rState, rResult, callVars, keepAliveVars>>
          /\ UNCHANGED <<sEnd, rEnd, lost, beacon>>
     ELSE RError("CodeNotFound")
  /\ UNCHANGED <<toSender, diskVars>>

(* receive_file_list; a resumed transfer compares the number of files.      *)
RReadFileList ==
  LET m == Head(toReceiver) IN
  /\ RRead("fileList", m)
  /\ \/ /\ rPc' = "ready"
        /\ UNCHANGED <<rState, rResult, callVars, keepAliveVars>>
        /\ UNCHANGED <<sEnd, rEnd, lost, beacon>>
     \/ /\ via = "resume"
        /\ RError("ResumeMismatch")
  /\ UNCHANGED <<toSender, diskVars>>

-----------------------------------------------------------------------------
(* The keep-alive task                                                      *)

RStartKeepAlive ==
  /\ rPc = "ready"
  /\ ka = "none"
  /\ rEnd = "open"
  /\ ka' = "sleep"
  /\ UNCHANGED <<rPc, rState, rResult, callVars, kaStop, diskVars, wireVars>>

(* The sleep branch of select!.  It may also be taken when the stop signal  *)
(* is there: select! picks any branch that is ready.                        *)
KaPing ==
  /\ ka = "sleep"
  /\ toSender' = write_frame(toSender, <<Ping>>)
  /\ ka' = "pong"
  /\ UNCHANGED <<rPc, rState, rResult, callVars, kaStop, diskVars>>
  /\ UNCHANGED <<toReceiver, sEnd, rEnd, lost, beacon>>

\* Mutant: the stop signal also interrupts the wait for a Pong.
KaInSelect_or_pong == ka \in {"sleep", "pong"}

(* The stop signal is only looked at in select!.                            *)
KaInSelect == ka = "sleep"

KaStopped ==
  /\ KaInSelect
  /\ kaStop
  /\ ka' = "ok"
  /\ UNCHANGED <<rPc, rState, rResult, callVars, kaStop, diskVars, wireVars>>

(* Any frame ends the wait, another type than Pong is only logged.  The     *)
(* next select! finds the stop signal before a new interval has passed.     *)
KaPong ==
  /\ ka = "pong"
  /\ toReceiver # <<>>
  /\ toReceiver' = Tail(toReceiver)
  /\ ka' = IF kaStop THEN "ok" ELSE "sleep"
  /\ UNCHANGED <<rPc, rState, rResult, callVars, kaStop, diskVars>>
  /\ UNCHANGED <<toSender, sEnd, rEnd, lost, beacon>>

NoPong == toReceiver = <<>> \/ lost

(* KEEPALIVE_TIMEOUT passes without a frame, or the stream fails: the task  *)
(* returns an error and drops the stream.                                   *)
KaFails ==
  /\ ka = "pong"
  /\ NoPong
  /\ ka' = "failed"
  /\ rEnd' = "closed"
  /\ UNCHANGED <<rPc, rState, rResult, callVars, kaStop, diskVars>>
  /\ UNCHANGED <<toReceiver, toSender, sEnd, lost, beacon>>

-----------------------------------------------------------------------------
(* accept, accept_files, accept_with_resume, decline, stop_keep_alive       *)

(* The user calls op; stop_keep_alive signals a running task.               *)
RCall(op) ==
  /\ rPc = "ready"
  /\ op \in Ops
  /\ rPc' = "stopping"
  /\ rOp' = op
  /\ kaStop' = (ka # "none")
  /\ \E indices \in (IF op = "accept_files" THEN SUBSET Index ELSE {Index}) :
       selected' = indices
  /\ UNCHANGED <<rState, rResult, via, rCode, ka, diskVars, wireVars>>

(* stop_keep_alive has joined the task, if there was one.                   *)
RJoin(ops) ==
  /\ rPc = "stopping"
  /\ rOp \in ops
  /\ ka \in {"none", "ok", "failed"}
  /\ ka' = "none"
  /\ kaStop' = FALSE

(* stop_keep_alive on its own gives the stream back to the session, or      *)
(* leaves a session without one.                                            *)
RStopped ==
  /\ RJoin({"stop"})
  /\ rPc' = "ready"
  /\ UNCHANGED <<rState, rResult, callVars, diskVars, wireVars>>

RDecline ==
  /\ RJoin({"decline"})
  /\ toSender' = IF rEnd = "open"
                 THEN write_frame(toSender, <<FileListAck(FALSE, {})>>)
                 ELSE toSender
  /\ rState' = "Cancelled"
  /\ RReturn("Declined")
  /\ UNCHANGED <<callVars, diskVars, toReceiver, sEnd, lost, beacon>>

AcceptOps == {"accept", "accept_files", "accept_with_resume"}

RAccept ==
  /\ RJoin(AcceptOps)
  /\ rEnd = "open"
  /\ IF rOp = "accept_with_resume"
     THEN /\ toSender' = write_frame(toSender,
                           <<FileListAck(TRUE, Index), ResumeRequest>>)
          /\ rPc' = "resumeAck"
          /\ UNCHANGED rState
     ELSE /\ toSender' =
               write_frame(toSender, <<FileListAck(TRUE, selected)>>)
          /\ rPc' = "receive"
          /\ rState' = "Transferring"
  /\ UNCHANGED <<rResult, callVars, diskVars>>
  /\ UNCHANGED <<toReceiver, sEnd, rEnd, lost, beacon>>

(* The keep-alive task failed, the session has no stream, or FileListAck    *)
(* cannot be written.                                                       *)
RAcceptFails ==
  /\ RJoin(AcceptOps)
  /\ \/ ka = "failed" /\ RReturn("KeepAliveFailed")
     \/ ka = "none" /\ rEnd = "closed" /\ RReturn("Internal")
     \/ rEnd = "open" /\ (lost \/ sEnd = "closed") /\ RReturn("Io")
  /\ UNCHANGED <<rState, callVars, diskVars>>
  /\ UNCHANGED <<toReceiver, toSender, sEnd, lost, beacon>>

-----------------------------------------------------------------------------
(* do_receive, handle_chunk_start, handle_chunk_data, FileWriter            *)

(* The background write of the open file is performed.                      *)
WriteLands ==
  /\ flight = "pending"
  /\ flight' = "none"
  /\ UNCHANGED <<rPc, rState, rResult, callVars, keepAliveVars, wireVars>>
  /\ UNCHANGED <<rCur, rWriter, out, rBytes>>

WriteFails ==
  /\ "disk" \in Faults
  /\ flight = "pending"
  /\ flight' = "failed"
  /\ UNCHANGED <<rPc, rState, rResult, callVars, keepAliveVars, wireVars>>
  /\ UNCHANGED <<rCur, rWriter, out, rBytes>>

(* A path can be created as a directory or as a file unless the other is    *)
(* there already.                                                           *)
Creatable(i) ==
  out[i].kind \in {"absent", IF i \in Dirs THEN "dir" ELSE "file"}

\* Mutant: an existing file is not truncated.
Created_keeps(i) ==
  IF i \in Dirs THEN Directory ELSE File(out[i].data)

(* create_dir_all, or File::create, which truncates.                        *)
Created(i) == IF i \in Dirs THEN Directory ELSE File(<<>>)

\* Mutant: every ChunkStart is acknowledged.
StartIsAcked_all(m) == TRUE

(* Directories and empty files are acknowledged at their ChunkStart.        *)
StartIsAcked(m) == m.file_index \in Dirs \/ m.total_chunks = 0

\* Mutant: the wire checksum is not compared.
Intact_unchecked(m) == TRUE

Intact(m) == m.checksum = xxh64(m.data)

(* finalize of the previous file waits for its last write and passes its    *)
(* error on.                                                                *)
RChunkStart ==
  LET m == Head(toReceiver)
      i == m.file_index IN
  /\ RRead("receive", m)
  /\ m.type = "ChunkStart"
  /\ rCur # i
  /\ flight = "none"
  /\ Creatable(i)
  /\ out' = [out EXCEPT ![i] = Created(i)]
  /\ rCur' = i
  /\ rWriter' = ~(i \in Dirs \/ m.total_chunks = 0)
  /\ toSender' = IF StartIsAcked(m)
                 THEN write_frame(toSender, <<ChunkAck(i, 1, TRUE)>>)
                 ELSE toSender
  /\ UNCHANGED <<rPc, rState, rResult, callVars, keepAliveVars>>
  /\ UNCHANGED <<flight, rBytes, sEnd, rEnd, lost, beacon>>

(* A later chunk of the file that is open.                                  *)
RChunkStartSame ==
  LET m == Head(toReceiver) IN
  /\ RRead("receive", m)
  /\ m.type = "ChunkStart"
  /\ rCur = m.file_index
  /\ UNCHANGED <<receiverVars, toSender, sEnd, rEnd, lost, beacon>>

(* finalize fails, or the output cannot be created: no ack is sent.         *)
RChunkStartFails ==
  LET m == Head(toReceiver)
      i == m.file_index IN
  /\ RRead("receive", m)
  /\ m.type = "ChunkStart"
  /\ rCur # i
  /\ \/ flight = "failed"
     \/ flight = "none" /\ ("disk" \in Faults \/ ~Creatable(i))
  /\ RError("Io")
  /\ rWriter' = FALSE
  /\ UNCHANGED <<toSender, rCur, flight, out, rBytes>>

(* The chunk is checked, decompressed and handed to the writer, which first *)
(* waits for the write before it.                                           *)
RChunkData ==
  LET m == Head(toReceiver)
      chunk == decompress(m.data) IN
  /\ RRead("receive", m)
  /\ m.type = "ChunkData"
  /\ Intact(m)
  /\ rWriter
  /\ flight = "none"
  /\ out' = [out EXCEPT ![rCur].data = Append(@, chunk)]
  /\ flight' = "pending"
  /\ toSender' = write_frame(toSender,
                   <<ChunkAck(m.file_index, m.chunk_index, TRUE)>>)
  /\ rBytes' = rBytes + 1
  /\ UNCHANGED <<rPc, rState, rResult, callVars, keepAliveVars>>
  /\ UNCHANGED <<rCur, rWriter, sEnd, rEnd, lost, beacon>>

(* Damaged on its way, no open file, or the write before it failed.         *)
RChunkDataFails ==
  LET m == Head(toReceiver) IN
  /\ RRead("receive", m)
  /\ m.type = "ChunkData"
  /\ \/ ~Intact(m)
     \/ ~rWriter
     \/ flight = "failed"
  /\ toSender' = write_frame(toSender,
                   <<ChunkAck(m.file_index, m.chunk_index, FALSE)>>)
  /\ RError("ChecksumMismatch")
  /\ UNCHANGED diskVars

(* finalize the last file, leave the loop, accept() reports Completed.      *)
RComplete ==
  LET m == Head(toReceiver) IN
  /\ RRead("receive", m)
  /\ m.type = "TransferComplete"
  /\ flight = "none"
  /\ rWriter' = FALSE
  /\ rState' = "Completed"
  /\ RReturn("Ok")
  /\ UNCHANGED <<callVars, keepAliveVars, rCur, flight, out, rBytes>>
  /\ UNCHANGED <<toSender, sEnd, lost, beacon>>

RCompleteFails ==
  LET m == Head(toReceiver) IN
  /\ RRead("receive", m)
  /\ m.type = "TransferComplete"
  /\ flight = "failed"
  /\ rWriter' = FALSE
  /\ RError("Io")
  /\ UNCHANGED <<toSender, rCur, flight, out, rBytes>>

(* The user interrupts the program: the stream, or the task that owns it,   *)
(* is dropped.                                                              *)
RDrop ==
  /\ "drop" \in Faults
  /\ rPc \notin {"idle", "ended"}
  /\ ka' = "none"
  /\ kaStop' = FALSE
  /\ rWriter' = FALSE
  /\ RReturn("Dropped")
  /\ UNCHANGED <<rState, callVars, rCur, flight, out, rBytes>>
  /\ UNCHANGED <<toReceiver, toSender, sEnd, lost, beacon>>

-----------------------------------------------------------------------------

KeepAliveRuns == KaPing \/ KaStopped \/ KaPong \/ KaFails

(* What the receiver does by itself while one of its operations runs.       *)
ReceiverRuns ==
  \/ RUnexpectedMessage \/ RReadFails
  \/ RReadHello \/ RTrustMismatch \/ RReadCodeAck \/ RReadFileList
  \/ RStopped \/ RDecline \/ RAccept \/ RAcceptFails
  \/ RChunkStart \/ RChunkStartSame \/ RChunkStartFails
  \/ RChunkData \/ RChunkDataFails
  \/ RComplete \/ RCompleteFails

ReceiverTypeOK ==
  /\ rPc \in ReceiverPc
  /\ rState \in {"Preparing", "Transferring", "Completed", "Cancelled"}
  /\ rResult \in ReceiverResult
  /\ via \in Vias
  /\ rCode \in Codes
  /\ ka \in {"none", "sleep", "pong", "ok", "failed"}
  /\ kaStop \in BOOLEAN
  /\ rOp \in Operations \cup {"none"}
  /\ selected \in SUBSET Index
  /\ rCur \in 0..N
  /\ rWriter \in BOOLEAN
  /\ flight \in {"none", "pending", "failed"}
  /\ out \in [Index -> OutputEntry]
  /\ rBytes \in Nat

=============================================================================
