-------------------------------- MODULE Wire --------------------------------
(***************************************************************************)
(* The frames of crates/yoop-core/src/protocol and the TLS stream that     *)
(* carries them between one ShareSession (the sender, a TCP server) and    *)
(* one ReceiveSession (the receiver, a TCP client).                        *)
(*                                                                         *)
(* A payload is abstracted to the fields some handler looks at.  File and  *)
(* chunk indices count from 1 (from 0 in the code).  A chunk of a file is  *)
(* a member of the set Chunk.                                              *)
(***************************************************************************)
EXTENDS Naturals, Sequences

CONSTANTS
  N,          \* number of entries in the shared file list
  Dirs,       \* the entries whose metadata says is_directory
  Size,       \* listed size of each entry, in chunks
  Chunk,      \* the values a chunk of a file can have
  Codes,      \* the share codes a receiver may hold
  ShareCode,  \* the code of the share
  Faults      \* what may go wrong in a behaviour, see FaultKinds

Index == 1..N

(* loss: the network drops the connection.  corrupt: bytes of a chunk are   *)
(* altered on their way.  read: a shared file cannot be read.  edit: a      *)
(* shared file changes after it was listed.  disk: a write of the receiver  *)
(* fails.  cancel, drop: the sender's, the receiver's user gives up.        *)
FaultKinds == {"loss", "corrupt", "read", "edit", "disk", "cancel", "drop"}

ASSUME FaultAssumption == Faults \subseteq FaultKinds

ASSUME CodeAssumption == ShareCode \in Codes

ASSUME FileListAssumption ==
  /\ N \in Nat \ {0}
  /\ Dirs \subseteq Index
  /\ Size \in [Index -> Nat]

VARIABLES
  toReceiver,  \* frames the sender has written and the receiver has not read
  toSender,    \* frames the receiver has written and the sender has not read
  sEnd,        \* the sender's end of the connection: none, open, closed
  rEnd,        \* the receiver's end of the connection: none, open, closed
  lost,        \* the network has dropped the connection
  beacon       \* the share is being announced (UDP broadcast and mDNS)

wireVars == <<toReceiver, toSender, sEnd, rEnd, lost, beacon>>

-----------------------------------------------------------------------------
(* External functions: an HMAC and a 64 bit hash, taken as injective, and   *)
(* zstd, taken as lossless.  A wire value remembers how it was encoded.     *)

Hmac(code) == [hmac |-> code]

xxh64(bytes) == [xxh64 |-> bytes]

Raw(chunk) == [algo |-> "None", body |-> chunk]

compress(chunk) == [algo |-> "Zstd", body |-> chunk]

decompress(bytes) == bytes.body

WireData == [algo : {"None", "Zstd"}, body : Chunk]

-----------------------------------------------------------------------------
(* The frames the two sessions exchange.                                    *)

Hello == [type |-> "Hello"]
HelloAck(compression) == [type |-> "HelloAck", compression |-> compression]
CodeVerify(code) == [type |-> "CodeVerify", code_hmac |-> Hmac(code)]
CodeVerifyAck(success) == [type |-> "CodeVerifyAck", success |-> success]
FileList == [type |-> "FileList"]
FileListAck(accepted, files) ==
  [type |-> "FileListAck", accepted |-> accepted, accepted_files |-> files]
ResumeRequest == [type |-> "ResumeRequest"]
Ping == [type |-> "Ping"]
Pong == [type |-> "Pong"]
ChunkStart(file, chunk, total) ==
  [type |-> "ChunkStart", file_index |-> file, chunk_index |-> chunk,
   total_chunks |-> total]
ChunkData(file, chunk, bytes) ==
  [type |-> "ChunkData", file_index |-> file, chunk_index |-> chunk,
   data |-> bytes, checksum |-> xxh64(bytes), compression |-> bytes.algo]
ChunkAck(file, chunk, success) ==
  [type |-> "ChunkAck", file_index |-> file, chunk_index |-> chunk,
   success |-> success]
TransferComplete == [type |-> "TransferComplete"]

SenderFrame ==
  [type : {"Hello", "FileList", "Pong", "TransferComplete"}]
    \cup [type : {"CodeVerifyAck"}, success : BOOLEAN]
    \cup [type : {"ChunkStart"}, file_index : Index, chunk_index : Nat,
          total_chunks : Nat]
    \cup [type : {"ChunkData"}, file_index : Index, chunk_index : Nat,
          data : WireData, checksum : [xxh64 : WireData],
          compression : {"None", "Zstd"}]

ReceiverFrame ==
  [type : {"Ping", "ResumeRequest"}]
    \cup [type : {"HelloAck"}, compression : BOOLEAN]
    \cup [type : {"CodeVerify"}, code_hmac : [hmac : Codes]]
    \cup [type : {"FileListAck"}, accepted : BOOLEAN,
          accepted_files : SUBSET Index]
    \cup [type : {"ChunkAck"}, file_index : Index, chunk_index : Nat,
          success : BOOLEAN]

-----------------------------------------------------------------------------
(* write_frame: what the channel holds after the frames fs were written to  *)
(* it.  Once the network has dropped the connection nothing more arrives.   *)
write_frame(channel, fs) == IF lost THEN channel ELSE channel \o fs

\* Mutant: the end of the stream is not noticed.
read_frame_fails_no_eof(channel, peerEnd) == lost

(* read_frame fails when the connection is lost, or when the peer's end is  *)
(* closed and everything it wrote has been read (EOF).  There is no         *)
(* timeout: with an open, silent peer it waits.                             *)
read_frame_fails(channel, peerEnd) ==
  lost \/ (peerEnd = "closed" /\ channel = <<>>)

WireTypeOK ==
  /\ toReceiver \in Seq(SenderFrame)
  /\ toSender \in Seq(ReceiverFrame)
  /\ sEnd \in {"none", "open", "closed"}
  /\ rEnd \in {"none", "open", "closed"}
  /\ lost \in BOOLEAN
  /\ beacon \in BOOLEAN

WireInit ==
  /\ toReceiver = <<>>
  /\ toSender = <<>>
  /\ sEnd = "none"
  /\ rEnd = "none"
  /\ lost = FALSE
  /\ beacon = TRUE

=============================================================================
