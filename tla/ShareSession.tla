---------------------------- MODULE ShareSession ----------------------------
(***************************************************************************)
(* The sender of a code share: ShareSession in                             *)
(* crates/yoop-core/src/transfer/mod.rs.  wait() accepts one connection    *)
(* and runs handshake, code verification, file list exchange and chunk     *)
(* transfer as one sequence of blocking reads and writes; sPc is the read  *)
(* or the step it has reached:                                             *)
(*                                                                         *)
(*   new        wait() has not been called                                 *)
(*   accept     waiting for a connection                                   *)
(*   helloAck   Hello sent, waiting for HelloAck                           *)
(*   codeVerify waiting for CodeVerify                                     *)
(*   listAck    FileList sent, waiting for FileListAck or Ping             *)
(*   entry      about to process entry sFile of the list                   *)
(*   markerAck  directory or empty-file marker sent, waiting for ChunkAck  *)
(*   chunk      about to send chunk sChunk of entry sFile                  *)
(*   chunkAck   chunk sent, waiting for ChunkAck                           *)
(*   complete   TransferComplete sent, stopping the broadcaster            *)
(*   ended      wait() or cancel() has returned, the stream is dropped     *)
(***************************************************************************)
EXTENDS Wire

CONSTANTS
  Contents,         \* the chunk sequences a shared file may hold when read
  CompressionMode   \* config.compression: Never, Auto or Always

ASSUME ShareAssumption ==
  /\ Contents \subseteq Seq(Chunk)
  /\ CompressionMode \in {"Never", "Auto", "Always"}

VARIABLES
  sPc,      \* where the sender is, see above
  sState,   \* TransferState it reports to its progress observers
  sResult,  \* what wait() or cancel() returned
  neg,      \* negotiated_compression is Some
  sFile,    \* entry do_transfer works on
  sChunk,   \* chunk of that entry it sends
  sent,     \* what read_chunks returned for each entry
  sBytes    \* progress.total_bytes_transferred, in chunks

senderVars == <<sPc, sState, sResult, neg, sFile, sChunk, sent, sBytes>>

TransferState ==
  {"Preparing", "Waiting", "Connected", "Transferring", "Completed",
   "Cancelled", "Failed"}

SenderPc ==
  {"new", "accept", "helloAck", "codeVerify", "listAck", "entry",
   "markerAck", "chunk", "chunkAck", "complete", "ended"}

SenderResult ==
  {"none", "Ok", "TlsError", "UnexpectedMessage", "CodeNotFound",
   "TransferRejected", "ProtocolError", "ChecksumMismatch", "FileNotFound",
   "Io", "Cancelled"}

(* new() has bound the listener and started the broadcaster.                *)
SenderInit ==
  /\ sPc = "new"
  /\ sState = "Preparing"
  /\ sResult = "none"
  /\ neg = FALSE
  /\ sFile = 1
  /\ sChunk = 1
  /\ sent = [i \in Index |-> <<>>]
  /\ sBytes = 0

(* wait() returns: its TLS stream is a local and is dropped with it.        *)
SReturn(result) ==
  /\ sPc' = "ended"
  /\ sResult' = result
  /\ sEnd' = "closed"

(* An early return of wait() through `?': nothing else changes, neither the *)
(* reported state nor the broadcast.                                        *)
SError(result) ==
  /\ SReturn(result)
  /\ UNCHANGED <<sState, neg, sFile, sChunk, sent, sBytes>>
  /\ UNCHANGED <<toReceiver, rEnd, lost, beacon>>

-----------------------------------------------------------------------------
(* wait(): connection, handshake, code, file list                           *)

SWait ==
  /\ sPc = "new"
  /\ sPc' = "accept"
  /\ sState' = "Waiting"
  /\ UNCHANGED <<sResult, neg, sFile, sChunk, sent, sBytes, wireVars>>

(* accept a connection, TLS handshake, first half of do_handshake           *)
SAccept ==
  /\ sPc = "accept"
  /\ rEnd = "open"
  /\ ~lost
  /\ sPc' = "helloAck"
  /\ sState' = "Connected"
  /\ sEnd' = "open"
  /\ toReceiver' = write_frame(toReceiver, <<Hello>>)
  /\ UNCHANGED <<sResult, neg, sFile, sChunk, sent, sBytes>>
  /\ UNCHANGED <<toSender, rEnd, lost, beacon>>

(* The connection taken from the backlog is already dead.                   *)
SAcceptFails ==
  /\ sPc = "accept"
  /\ rEnd = "closed" \/ (rEnd = "open" /\ lost)
  /\ SError("TlsError")
  /\ UNCHANGED toSender

\* Mutant: a sender that does not know the keep-alive.
SExpects_no_ping(pc) ==
  CASE pc = "helloAck" -> {"HelloAck"}
    [] pc = "codeVerify" -> {"CodeVerify"}
    [] pc = "listAck" -> {"FileListAck"}
    [] OTHER -> {"ChunkAck"}

(* The frame types the sender accepts at each of its reads.                 *)
SExpects(pc) ==
  CASE pc = "helloAck" -> {"HelloAck"}
    [] pc = "codeVerify" -> {"CodeVerify"}
    [] pc = "listAck" -> {"FileListAck", "Ping"}
    [] OTHER -> {"ChunkAck"}

SReading == {"helloAck", "codeVerify", "listAck", "markerAck", "chunkAck"}

(* read_frame returned the frame m at the read pc.                          *)
SRead(pc, m) ==
  /\ sPc = pc
  /\ toSender # <<>>
  /\ m = Head(toSender)
  /\ m.type \in SExpects(pc)
  /\ toSender' = Tail(toSender)

SUnexpectedMessage ==
  /\ sPc \in SReading
  /\ toSender # <<>>
  /\ Head(toSender).type \notin SExpects(sPc)
  /\ toSender' = Tail(toSender)
  /\ SError("UnexpectedMessage")

SReadFails ==
  /\ sPc \in SReading
  /\ read_frame_fails(toSender, rEnd)
  /\ SError("Io")
  /\ UNCHANGED toSender

(* second half of do_handshake and the negotiation in wait()                *)
SReadHelloAck ==
  LET m == Head(toSender) IN
  /\ SRead("helloAck", m)
  /\ neg' = (CompressionMode # "Never" /\ m.compression)
  /\ sPc' = "codeVerify"
  /\ UNCHANGED <<sState, sResult, sFile, sChunk, sent, sBytes>>
  /\ UNCHANGED <<toReceiver, sEnd, rEnd, lost, beacon>>

\* Mutant: every code is accepted.
CodeMatches_any(m) == TRUE

CodeMatches(m) == m.code_hmac = Hmac(ShareCode)

(* do_code_verification, and FileList if the code is the right one          *)
SReadCodeVerify ==
  LET m == Head(toSender) IN
  /\ SRead("codeVerify", m)
  /\ IF CodeMatches(m)
     THEN /\ toReceiver' =
               write_frame(toReceiver, <<CodeVerifyAck(TRUE), FileList>>)
          /\ sPc' = "listAck"
          /\ UNCHANGED <<sResult, sEnd>>
     ELSE /\ toReceiver' = write_frame(toReceiver, <<CodeVerifyAck(FALSE)>>)
          /\ SReturn("CodeNotFound")
  /\ UNCHANGED <<sState, neg, sFile, sChunk, sent, sBytes>>
  /\ UNCHANGED <<rEnd, lost, beacon>>

(* do_file_list_exchange: the receiver's keep-alive is answered.            *)
SAnswerPing ==
  LET m == Head(toSender) IN
  /\ SRead("listAck", m)
  /\ m.type = "Ping"
  /\ toReceiver' = write_frame(toReceiver, <<Pong>>)
  /\ UNCHANGED <<senderVars, sEnd, rEnd, lost, beacon>>

(* do_file_list_exchange: only ack.accepted is looked at.                   *)
SReadFileListAck ==
  LET m == Head(toSender) IN
  /\ SRead("listAck", m)
  /\ m.type = "FileListAck"
  /\ IF m.accepted
     THEN /\ sPc' = "entry"
          /\ sState' = "Transferring"
          /\ UNCHANGED <<sResult, sEnd>>
     ELSE /\ sState' = "Cancelled"
          /\ SReturn("TransferRejected")
  /\ UNCHANGED <<neg, sFile, sChunk, sent, sBytes>>
  /\ UNCHANGED <<toReceiver, rEnd, lost, beacon>>

-----------------------------------------------------------------------------
(* do_transfer                                                              *)

(* What read_chunks may find in the file of entry i.                        *)
Readable(i) == {c \in Contents : "edit" \in Faults \/ Len(c) = Size[i]}

SSendDirectory ==
  /\ sPc = "entry"
  /\ sFile \in Dirs
  /\ toReceiver' = write_frame(toReceiver, <<ChunkStart(sFile, 1, 0)>>)
  /\ sPc' = "markerAck"
  /\ UNCHANGED <<sState, sResult, neg, sFile, sChunk, sent, sBytes>>
  /\ UNCHANGED <<toSender, sEnd, rEnd, lost, beacon>>

(* find_file_path and read_chunks; an empty file needs only a marker.       *)
SReadFile ==
  /\ sPc = "entry"
  /\ sFile \in Index \ Dirs
  /\ \E c \in Readable(sFile) :
       /\ sent' = [sent EXCEPT ![sFile] = c]
       /\ IF c = <<>>
          THEN /\ toReceiver' =
                    write_frame(toReceiver, <<ChunkStart(sFile, 1, 0)>>)
               /\ sPc' = "markerAck"
          ELSE /\ sPc' = "chunk"
               /\ UNCHANGED toReceiver
  /\ sChunk' = 1
  /\ UNCHANGED <<sState, sResult, neg, sFile, sBytes>>
  /\ UNCHANGED <<toSender, sEnd, rEnd, lost, beacon>>

SReadFileFails ==
  /\ "read" \in Faults
  /\ sPc = "entry"
  /\ sFile \in Index \ Dirs
  /\ \E error \in {"FileNotFound", "Io"} : SError(error)
  /\ UNCHANGED toSender

(* Whether a chunk goes compressed depends on the data and on the file      *)
(* type; it never does unless compression was negotiated.                   *)
SSendChunk ==
  LET chunks == sent[sFile] IN
  /\ sPc = "chunk"
  /\ \E bytes \in {Raw(chunks[sChunk])}
                    \cup (IF neg THEN {compress(chunks[sChunk])} ELSE {}) :
       toReceiver' = write_frame(toReceiver,
                       <<ChunkStart(sFile, sChunk, Len(chunks)),
                         ChunkData(sFile, sChunk, bytes)>>)
  /\ sPc' = "chunkAck"
  /\ UNCHANGED <<sState, sResult, neg, sFile, sChunk, sent, sBytes>>
  /\ UNCHANGED <<toSender, sEnd, rEnd, lost, beacon>>

NextEntry == sFile + 1

\* Mutant: a negative ack is taken for a positive one.
Acked_any(m) == TRUE

Acked(m) == m.success

(* The ack of a marker; its indices are not compared with what was sent.    *)
SReadMarkerAck ==
  LET m == Head(toSender) IN
  /\ SRead("markerAck", m)
  /\ IF Acked(m)
     THEN /\ sPc' = "entry"
          /\ sFile' = NextEntry
          /\ UNCHANGED <<sResult, sEnd>>
     ELSE /\ SReturn("ProtocolError")
          /\ UNCHANGED sFile
  /\ UNCHANGED <<sState, neg, sChunk, sent, sBytes>>
  /\ UNCHANGED <<toReceiver, rEnd, lost, beacon>>

SReadChunkAck ==
  LET m == Head(toSender)
      last == sChunk = Len(sent[sFile]) IN
  /\ SRead("chunkAck", m)
  /\ IF Acked(m)
     THEN /\ sPc' = IF last THEN "entry" ELSE "chunk"
          /\ sFile' = IF last THEN NextEntry ELSE sFile
          /\ sChunk' = IF last THEN 1 ELSE sChunk + 1
          /\ sBytes' = sBytes + 1
          /\ UNCHANGED <<sResult, sEnd>>
     ELSE /\ SReturn("ChecksumMismatch")
          /\ UNCHANGED <<sFile, sChunk, sBytes>>
  /\ UNCHANGED <<sState, neg, sent>>
  /\ UNCHANGED <<toReceiver, rEnd, lost, beacon>>

SSendComplete ==
  /\ sPc = "entry"
  /\ sFile = N + 1
  /\ toReceiver' = write_frame(toReceiver, <<TransferComplete>>)
  /\ sPc' = "complete"
  /\ UNCHANGED <<sState, sResult, neg, sFile, sChunk, sent, sBytes>>
  /\ UNCHANGED <<toSender, sEnd, rEnd, lost, beacon>>

(* The only write that is not followed by a read that would fail too.       *)
SSendCompleteFails ==
  /\ sPc = "entry"
  /\ sFile = N + 1
  /\ lost \/ rEnd = "closed"
  /\ SError("Io")
  /\ UNCHANGED toSender

(* the end of wait(): broadcaster.stop, then Completed                      *)
SFinish ==
  /\ sPc = "complete"
  /\ beacon' = FALSE
  /\ sState' = "Completed"
  /\ SReturn("Ok")
  /\ UNCHANGED <<neg, sFile, sChunk, sent, sBytes>>
  /\ UNCHANGED <<toReceiver, toSender, rEnd, lost>>

(* The user interrupts wait(), whose future is dropped, and cancel() runs.  *)
(* No TransferCancel frame is sent.                                         *)
SCancel ==
  /\ "cancel" \in Faults
  /\ sPc # "ended"
  /\ beacon' = FALSE
  /\ sState' = "Cancelled"
  /\ SReturn("Cancelled")
  /\ UNCHANGED <<neg, sFile, sChunk, sent, sBytes>>
  /\ UNCHANGED <<toReceiver, toSender, rEnd, lost>>

-----------------------------------------------------------------------------

(* What the sender does by itself once wait() was called.                   *)
SenderRuns ==
  \/ SAccept \/ SAcceptFails
  \/ SUnexpectedMessage \/ SReadFails
  \/ SReadHelloAck \/ SReadCodeVerify \/ SAnswerPing \/ SReadFileListAck
  \/ SSendDirectory \/ SReadFile \/ SReadFileFails \/ SSendChunk
  \/ SReadMarkerAck \/ SReadChunkAck
  \/ SSendComplete \/ SSendCompleteFails \/ SFinish

SenderTypeOK ==
  /\ sPc \in SenderPc
  /\ sState \in TransferState
  /\ sResult \in SenderResult
  /\ neg \in BOOLEAN
  /\ sFile \in 1..(N + 1)
  /\ sChunk \in Nat \ {0}
  /\ sent \in [Index -> Seq(Chunk)]
  /\ sBytes \in Nat

=============================================================================
