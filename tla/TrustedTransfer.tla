--------------------------- MODULE TrustedTransfer ---------------------------
(***************************************************************************)
(* TrustedSendSession and TrustedReceiveSession: files sent to a device    *)
(* that trusts the sender, without a code                                  *)
(* (src/crates/yoop-core/src/transfer/trusted.rs).                         *)
(***************************************************************************)
EXTENDS Connection, PathLookup

CONSTANT Trees   \* what a user may share: see PathLookup

\* Paths are sequences of names, and every file has a number of chunks.
ASSUME TreeAssumption ==
  \A t \in Trees :
    /\ DOMAIN t.has \subseteq Seq(Nat) \ {NotFound} /\ t.has \in [DOMAIN t.has -> Nat]
    /\ t.dirs \subseteq Seq(Nat) /\ t.shared \in Seq(Seq(Nat))

(* An entry is listed for a file or directory whose path ends with its own; *)
(* a file that is shared alone is the only one.  Follows from the           *)
(* definitions by induction on what is shared.                              *)
ASSUME ListAssumption ==
  \A t \in Trees :
    LET list == EnumerateFiles(t) IN
    /\ list \in Seq([rel : Seq(Nat), own : Seq(Nat), dir : BOOLEAN])
    /\ Len(t.shared) = 1 /\ IsFile(t, Head(t.shared)) =>
         \A i \in 1..Len(list) : list[i].own = Head(t.shared)

VARIABLES
  tree,     \* the sender's files and what it shares
  files,    \* the list: the sender's, and from its FileList the receiver's
  sending,  \* the sender's file_index and the chunk it waits to have acknowledged
  writing,  \* the receiver's current_file_index, and whether it has a writer
  flight,   \* the writer's last write: not ended ("open"), "failed", or "none"
  out       \* out[rel]: what the receiver has written at a path of the list

trustedVars == <<tree, files, sending, writing, flight, out>>

Rels == {files[i].rel : i \in 1..Len(files)}
Nothing == <<"nothing">>
Directory == <<"directory">>
Empty == <<"file">>

TrustedInit ==
  /\ tree \in Trees
  /\ files = EnumerateFiles(tree)
  /\ sending = <<1, 0>>
  /\ writing = [file |-> 0, writer |-> FALSE] /\ flight = "none"
  /\ out = [rel \in Rels |-> Nothing]

Sending == kind.client = "trusted_send"
Receiving == kind.host = "trusted_receive"
NoTransfer == UNCHANGED trustedVars

\* The data of a chunk is told apart by its file and its place in the file.
ChunkStart(i, total) == Frame("ChunkStart", <<i, total>>)
ChunkData(path, c) == Frame("ChunkData", <<path, c>>)
WholeFile(path) == Empty \o [c \in 1..tree.has[path] |-> <<path, c>>]

-----------------------------------------------------------------------------
(* The sender.  That the answer is signed is checked, not whose key it is.  *)

SendStarts == Opening(<<TrustedHello("client")>>, "TrustedHelloAck")

SenderTakesHelloAck ==
  /\ Sending /\ Takes("client", "TrustedHelloAck", "TrustedHelloAck") /\ NoTransfer
  /\ Replies("client", <<FileList>>, "FileListAck")

\* find_file_path of this session is that of the other one.
SendersFile(rel) == FindFilePath(tree, rel)

(* Directories and empty files are announced and not acknowledged, so the   *)
(* next read comes with the next file that has content.                     *)
Stops(i) ==
  ~files[i].dir /\ LET path == SendersFile(files[i].rel)
                  IN ~IsFile(tree, path) \/ tree.has[path] > 0
SendsFrom(i) ==
  LET stops == {j \in i..Len(files) : Stops(j)}
      next == IF stops = {} THEN Len(files) + 1 ELSE Min(stops)
      path == SendersFile(files[next].rel)
      markers == [k \in 1..(next - i) |-> ChunkStart(i + k - 1, 0)]
  IN /\ UNCHANGED <<tree, files, writing, flight, out>>
     /\ IF stops = {}
        THEN /\ Ends("client", "ok", markers \o <<TransferComplete>>)
             /\ UNCHANGED sending
        ELSE IF path = NotFound
        THEN Ends("client", "not_found", markers) /\ UNCHANGED sending
        ELSE IF ~IsFile(tree, path)
        THEN Ends("client", "failed", markers) /\ UNCHANGED sending
        ELSE /\ Replies("client", markers \o <<ChunkStart(next, tree.has[path]),
                                               ChunkData(path, 1)>>, "ChunkAck")
             /\ sending' = <<next, 1>>

SenderTakesListAck ==
  /\ Sending /\ Takes("client", "FileListAck", "FileListAck")
  /\ IF Saying("client") THEN SendsFrom(1)
     ELSE Ends("client", "rejected", <<>>) /\ NoTransfer

\* Mutant: a chunk that was refused is not sent again, and not reported.
SenderTakesChunkAck_unchecked ==
  /\ Sending /\ Takes("client", "ChunkAck", "ChunkAck")
  /\ LET i == sending[1]  c == sending[2]
         path == SendersFile(files[i].rel)
     IN IF c < tree.has[path]
        THEN /\ Replies("client", <<ChunkStart(i, tree.has[path]), ChunkData(path, c + 1)>>,
                        "ChunkAck")
             /\ sending' = <<i, c + 1>> /\ UNCHANGED <<tree, files, writing, flight, out>>
        ELSE SendsFrom(i + 1)
SenderTakesChunkAck ==
  /\ Sending /\ Takes("client", "ChunkAck", "ChunkAck")
  /\ LET i == sending[1]  c == sending[2]
         path == SendersFile(files[i].rel)
     IN IF ~Saying("client") THEN Fails("client") /\ NoTransfer
        ELSE IF c < tree.has[path]
        THEN /\ Replies("client", <<ChunkStart(i, tree.has[path]), ChunkData(path, c + 1)>>,
                        "ChunkAck")
             /\ sending' = <<i, c + 1>> /\ UNCHANGED <<tree, files, writing, flight, out>>
        ELSE SendsFrom(i + 1)

-----------------------------------------------------------------------------
(* The receiver.  A sender it does not trust is left without an answer.     *)

DeviceStarts == Opening(<<>>, "TrustedHello")

ReceiverTakesTrustedHello ==
  /\ Receiving /\ Takes("host", "TrustedHello", "TrustedHello") /\ NoTransfer
  /\ IF creds.known
     THEN Replies("host", <<TrustedHelloAck("host")>>, "FileList")
     ELSE Fails("host")

\* wait_for_sender returns; the user of the session decides.
ReceiveFileList ==
  Receiving /\ Takes("host", "FileList", "FileList") /\ Replies("host", <<>>, "asked") /\ NoTransfer
AcceptFiles ==
  /\ Receiving /\ at.host = "asked" /\ NoTransfer
  /\ Writes("host", <<FileListAck(TRUE)>>, "Chunks")
DeclineFiles ==
  /\ Receiving /\ at.host = "asked" /\ NoTransfer
  /\ Ends("host", "declined", <<FileListAck(FALSE)>>)

(* A write is only handed to the system when write_all returns; the one     *)
(* before has ended well by then.  The first step that waits for it and is  *)
(* told of an error ends the session.                                       *)
WriteEnded == flight' = "none"
MayBeLost == \/ WriteEnded
             \/ flight = "open" /\ flight' = "failed"

(* handle_chunk_start.  A new index ends the writer of the last one; total  *)
(* 0 makes a directory, of an empty file too; else the file is created, or  *)
(* emptied if it is there.  Neither is possible over the other kind.        *)
HandleChunkStart ==
  /\ Receiving /\ Takes("host", "Chunks", "ChunkStart")
  /\ UNCHANGED <<tree, files, sending>>
  /\ LET i == Saying("host")[1]
         rel == files[i].rel
         marker == Saying("host")[2] = 0 \/ files[i].dir
         made == IF marker THEN Directory ELSE Empty
         blocked == out[rel] # Nothing /\ (Head(out[rel]) = "directory") # marker
     IN IF i = writing.file
        THEN Replies("host", <<>>, "Chunks") /\ UNCHANGED <<writing, flight, out>>
        ELSE IF blocked THEN Fails("host") /\ WriteEnded /\ UNCHANGED <<writing, out>>
        ELSE /\ Replies("host", <<>>, "Chunks") /\ WriteEnded
             /\ writing' = [file |-> i, writer |-> ~marker]
             /\ out' = [out EXCEPT ![rel] = made]

\* The writer cannot be flushed, or the file or directory cannot be made.
CannotCreate ==
  /\ Receiving /\ Takes("host", "Chunks", "ChunkStart")
  /\ Saying("host")[1] # writing.file
  /\ Fails("host") /\ MayBeLost /\ UNCHANGED <<tree, files, sending, writing, out>>

(* handle_chunk_data.  The chunk is acknowledged when it is taken for       *)
(* writing.  If it is not, as the write before it has failed, that is what  *)
(* is said, and the session ends.                                           *)
HandleChunkData ==
  /\ Receiving /\ Takes("host", "Chunks", "ChunkData")
  /\ UNCHANGED <<tree, files, sending, writing>>
  /\ \/ /\ writing.writer
        /\ out' = [out EXCEPT ![files[writing.file].rel] = Append(@, Saying("host"))]
        /\ flight' = "open"
        /\ Replies("host", <<ChunkAck(TRUE)>>, "Chunks")
     \/ /\ UNCHANGED out /\ MayBeLost
        /\ Ends("host", "failed", <<ChunkAck(FALSE)>>)

\* The last writer is flushed, which may fail, and accept() returns.
TakesTransferComplete ==
  /\ Receiving /\ Takes("host", "Chunks", "TransferComplete")
  /\ UNCHANGED <<tree, files, sending, writing, out>>
  /\ \/ Ends("host", "ok", <<>>) /\ WriteEnded
     \/ writing.writer /\ Fails("host") /\ MayBeLost

TrustedNext ==
  \/ SenderTakesHelloAck \/ SenderTakesListAck \/ SenderTakesChunkAck
  \/ ReceiverTakesTrustedHello \/ ReceiveFileList \/ AcceptFiles \/ DeclineFiles
  \/ HandleChunkStart \/ CannotCreate \/ HandleChunkData \/ TakesTransferComplete
=============================================================================
