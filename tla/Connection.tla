----------------------------- MODULE Connection -----------------------------
(***************************************************************************)
(* One TLS connection of Yoop between the two programs that meet on it: a  *)
(* host that announced itself and accepts one connection, and a client     *)
(* that found it.  Which session runs on either side is chosen by the two  *)
(* users, and nothing in an announcement or in a stored address says which *)
(* it is, so any two may meet.  The sessions read one frame at a time; a   *)
(* step is a read together with everything the session does until its next *)
(* read.  Handshakes, and the transfers that are short, are the modules    *)
(* ClipboardOneShot, SyncHandshakes and TrustedTransfer.                   *)
(***************************************************************************)
EXTENDS Sequences, Naturals

Side == {"host", "client"}
Peer(p) == IF p = "host" THEN "client" ELSE "host"

Hosts == {"clip_share", "clip_sync", "dir_sync", "trusted_receive"}
CodeClients == {"clip_code", "csync_code", "dsync_code"}
TrustedClients == {"clip_trusted", "csync_trusted", "dsync_trusted", "trusted_send"}
Clients == CodeClients \cup TrustedClients

VARIABLES
  kind,     \* kind[p]: the session p runs; kind.asks: the client asks its user
  creds,    \* what the users' codes and trust stores hold
  at,       \* at[p]: the read or the user p waits for
  inbox,    \* inbox[p]: frames on their way to p
  outcome   \* outcome[p]: what the session's caller has been told

connection == <<kind, creds, at, inbox, outcome>>

(* creds.code: the client was given the code of this host; creds.known: the *)
(* host's trust store holds the client's id and key; creds.expected: the    *)
(* client's trust store holds the id and key of the host it reaches.        *)
Credentials == [code : BOOLEAN, known : BOOLEAN, expected : BOOLEAN]

\* The frames a session takes at each of its reads; all others are refused.
\* (The wait for FileListAck would answer a Ping; no host of a file list writes one.)
Greeting == {"Hello", "TrustedHello"}
Answer == {"HelloAck", "TrustedHelloAck"}
Awaits ==
  [ HelloAck |-> {"HelloAck"}, CodeVerify |-> {"CodeVerify"},
    ClipboardAck |-> {"ClipboardAck", "Ping"}, DataAck |-> {"ClipboardAck"},
    Hello |-> {"Hello"}, CodeVerifyAck |-> {"CodeVerifyAck"},
    ClipboardMeta |-> {"ClipboardMeta"}, ClipboardData |-> {"ClipboardData"},
    TransferComplete |-> {"TransferComplete"},
    Greeting |-> Greeting, Answer |-> Answer,
    SyncInit |-> {"SyncInit"}, SyncInitAck |-> {"SyncInitAck"},
    SyncIndex |-> {"SyncIndex"}, SyncIndexAck |-> {"SyncIndexAck"},
    TrustedHello |-> {"TrustedHello"}, TrustedHelloAck |-> {"TrustedHelloAck"},
    FileList |-> {"FileList"}, FileListAck |-> {"FileListAck"},
    ChunkAck |-> {"ChunkAck"},
    Chunks |-> {"ChunkStart", "ChunkData", "TransferComplete"} ]
Reading == DOMAIN Awaits

\* Before the connection; a prompt, or a session handed to its caller.
Before == {"idle", "searching", "probing", "found", "listening"}
Waiting == {"offered", "pinging", "asked", "runs"}
After == {"dropped", "over"}

Connected(p) == at[p] \notin Before \cup After

(* A frame says what its reader looks at: who names and signs itself, or    *)
(* "nothing" of interest.  A Hello without id and key says nothing.         *)
Frame(type, says) == [type |-> type, says |-> says]
Hello(who) == Frame("Hello", who)
HelloAck(who) == Frame("HelloAck", who)
TrustedHello(who) == Frame("TrustedHello", who)
TrustedHelloAck(who) == Frame("TrustedHelloAck", who)
CodeVerify(matches) == Frame("CodeVerify", matches)
CodeVerifyAck(success) == Frame("CodeVerifyAck", success)
ClipboardMeta == Frame("ClipboardMeta", "content")
ClipboardData == Frame("ClipboardData", "content")
ClipboardAck(success) == Frame("ClipboardAck", success)
FileList == Frame("FileList", "nothing")
FileListAck(accepted) == Frame("FileListAck", accepted)
ChunkAck(success) == Frame("ChunkAck", success)
TransferComplete == Frame("TransferComplete", "nothing")
SyncInit == Frame("SyncInit", "nothing")
SyncInitAck == Frame("SyncInitAck", "nothing")
SyncIndex == Frame("SyncIndex", "nothing")
SyncIndexAck == Frame("SyncIndexAck", "nothing")

\* How a session begins on the connection: what it writes, and its first read.
Opening(frames, read) == [writes |-> frames, reads |-> read]

-----------------------------------------------------------------------------
(* Steps.  What is written to a side that has closed goes nowhere.          *)

Delivered(p, frames, own) ==
  [inbox EXCEPT ![p] = own,
                ![Peer(p)] = IF Connected(Peer(p)) THEN @ \o frames ELSE @]

Takes(p, point, type) ==
  /\ at[p] = point
  /\ inbox[p] # <<>>
  /\ Head(inbox[p]).type = type
Saying(p) == Head(inbox[p]).says

Goes(p, next, frames, own) ==
  /\ at' = [at EXCEPT ![p] = next]
  /\ inbox' = Delivered(p, frames, own)
  /\ UNCHANGED <<kind, creds, outcome>>

Ends(p, result, frames) ==
  /\ at' = [at EXCEPT ![p] = "over"]
  /\ inbox' = Delivered(p, frames, <<>>)
  /\ outcome' = [outcome EXCEPT ![p] = result]
  /\ UNCHANGED <<kind, creds>>

\* The step of a read, and a step of the caller's own accord.
Replies(p, frames, next) == Goes(p, next, frames, Tail(inbox[p]))
Writes(p, frames, next) == Goes(p, next, frames, inbox[p])
Fails(p) == Ends(p, "failed", <<>>)

\* Every read checks the type of the frame; the session ends at any other.
Unexpected(p) ==
  /\ at[p] \in Reading
  /\ inbox[p] # <<>>
  /\ Head(inbox[p]).type \notin Awaits[at[p]]
  /\ Fails(p)

\* Mutant: a side that waits for the peer's first frame is not told.
ReadFails_later(p) ==
  /\ at[p] \in Reading \ {"Hello"}
  /\ at[Peer(p)] \in After
  /\ inbox[p] = <<>>
  /\ Fails(p)
(* The peer has closed and everything it sent is read, or is lost with it.  *)
ReadFails(p) ==
  /\ at[p] \in Reading
  /\ at[Peer(p)] \in After
  /\ inbox[p] = <<>>
  /\ Fails(p)

FramesLost(p) ==
  /\ at[Peer(p)] \in After
  /\ inbox[p] # <<>>
  /\ inbox' = [inbox EXCEPT ![p] = <<>>]
  /\ UNCHANGED <<kind, creds, at, outcome>>

\* The process is killed, or a read or write of its own fails.
Killed(p) == Connected(p) /\ Fails(p)
=============================================================================
