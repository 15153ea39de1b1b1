----------------------------- MODULE SyncSession -----------------------------
(***************************************************************************)
(* Directory sync: SyncSession::run of two peers (sync/session.rs) from    *)
(* the exchanged indices on, with the watcher of sync/watcher.rs.  run()   *)
(* first reconciles the indices and then runs four tasks: the watcher      *)
(* turns file system events into operations, outbound sends them, inbound  *)
(* applies those of the peer, keepalive sends Pings.  One mutex guards the *)
(* stream in both directions; inbound holds it while it waits for a frame. *)
(*                                                                         *)
(* Left out: the statistics, local_index after the reconciliation (only    *)
(* the kind of a Delete depends on it, which the receiver ignores), and    *)
(* the Rename arms, as no operation of that kind is ever made.             *)
(***************************************************************************)
EXTENDS SyncEngine, Sequences

CONSTANTS
  Host, Joiner,  \* the two peers
  Chunk,         \* the chunks files are made of
  Path,          \* paths below the sync root that no pattern excludes
  Above,         \* Above[x]: the paths of the directories above x
  Start,         \* pairs of indices the peers may start with
  Cwd,           \* the peers whose working directory is the sync root
  Deletions,     \* the peers with sync_deletions
  MaxEdits,      \* bound: how often each user changes something
  MaxPings,      \* bound: how often each keepalive sends a Ping
  MaxOps,        \* bound: how many operations each outbound takes
  OpCap,         \* capacity of the channel to outbound (100)
  Faults         \* what may go wrong in a behaviour, see FaultKinds

Peer == {Host, Joiner}
Other(p) == IF p = Host THEN Joiner ELSE Host

(* loss: the network drops the connection.  disk: a write of a received     *)
(* chunk fails.  corrupt: a chunk fails its checksum.  stop: Ctrl+C, or the *)
(* task of run() is aborted.                                                *)
FaultKinds == {"loss", "disk", "corrupt", "stop"}

(* What is at a path.                                                       *)
Absent == [kind |-> "none", content |-> <<>>]
Directory == [kind |-> "Directory", content |-> <<>>]
File(content) == [kind |-> "File", content |-> content]
Node == {Absent, Directory} \cup [kind : {"File"}, content : Seq(Chunk)]

Below(x) == {y \in Path : x \in Above[y]}

Index == [Path -> Entry]

(* The tree an index was built from.                                        *)
Tree(index) ==
  [x \in Path |-> CASE index[x].kind = "none" -> Absent
                    [] index[x].kind = "Directory" -> Directory
                    [] index[x].kind = "File" -> File(index[x].content_hash)]

ASSUME SyncAssumption ==
  /\ Host # Joiner
  /\ Contents \subseteq Seq(Chunk)
  /\ Above \in [Path -> SUBSET Path]
  /\ Start \subseteq Index \X Index
  /\ Cwd \subseteq Peer /\ Deletions \subseteq Peer
  /\ MaxEdits \in [Peer -> Nat] /\ MaxPings \in [Peer -> Nat] /\ MaxOps \in Nat
  /\ OpCap \in Nat \ {0}
  /\ Faults \subseteq FaultKinds

VARIABLES
  disk,          \* the tree below the sync root of each peer
  local_index,   \* the index built before the connection
  remote_index,  \* the index the peer has sent
  session,       \* run(): initial, live, returned
  pending,       \* the debouncer: the last event of each path, or "none"
  watcher,       \* where the watcher is: new, next, convert, send, ended
  event,         \* the path and kind of the event it converts
  queue,         \* outbound_rx
  outbound,      \* where outbound is: new, recv, lock, chunkAck, opAck, ended
  sending,       \* the operation outbound sends, and the chunks it has read
  counter,       \* op_id_counter
  inbound,       \* new, loop, lockRead, lockOp, lockPong, chunks, ended
  payload,       \* the SyncOp inbound works on
  written,       \* the chunks the FileWriter has been given
  failing,       \* a write of the FileWriter has failed in the background
  keepalive,     \* where keepalive is: new, tick, lock, ended
  pings,         \* number of Pings sent
  mutex,         \* the tasks that wait for the stream; the first one holds it
  wire,          \* wire[p]: frames for p that it has not read
  open,          \* p's end of the stream is open
  lost,          \* the network has dropped the connection
  edits          \* number of changes made by the user

watcherVars == <<pending, watcher, event>>
outboundVars == <<queue, outbound, sending, counter>>
inboundVars == <<inbound, payload, written, failing>>
keepaliveVars == <<keepalive, pings>>
indexVars == <<local_index, remote_index>>
streamVars == <<open, lost>>
vars == <<disk, indexVars, session, watcherVars, outboundVars, inboundVars,
          keepaliveVars, mutex, wire, streamVars, edits>>

-----------------------------------------------------------------------------
(* Operations, frames, the stream and its mutex                             *)

Op == [type : {"Write"}, path : Path, size : Nat]
        \cup [type : {"Delete"}, path : Path]

SyncOp(op, id) == [type |-> "SyncOp", op_id |-> id, op |-> op]
SyncOpAck(id) == [type |-> "SyncOpAck", op_id |-> id]
SyncChunk(id, chunk) == [type |-> "SyncChunk", op_id |-> id, data |-> chunk]
SyncChunkAck(id, ok) == [type |-> "SyncChunkAck", op_id |-> id, success |-> ok]
SyncComplete(id) == [type |-> "SyncComplete", op_id |-> id]
Ping == [type |-> "Ping"]
Pong == [type |-> "Pong"]

NoSending == [op |-> <<>>, op_id |-> 0, content |-> <<>>, next |-> 1]

(* The channels after p has read its next frame, if read is TRUE, and has   *)
(* written the frames fs.  Nothing arrives over a lost connection or at an  *)
(* end that is closed.                                                      *)
Exchange(p, read, fs) ==
  [q \in Peer |->
     IF q = p THEN (IF read THEN Tail(wire[p]) ELSE wire[p])
     ELSE IF lost \/ ~open[q] THEN wire[q] ELSE wire[q] \o fs]

Arrived(p, type) == wire[p] # <<>> /\ Head(wire[p]).type = type

(* read_frame fails: the connection is lost, or the peer has closed its end *)
(* and everything it wrote has been read.  write_frame fails alike.         *)
read_frame_fails(p) == lost \/ (~open[Other(p)] /\ wire[p] = <<>>)
write_frame_fails(p) == lost \/ ~open[Other(p)]

(* tokio's mutex is handed to the tasks in the order of their requests.     *)
Holds(p, task) == mutex[p] # <<>> /\ Head(mutex[p]) = task
Locking(p, task) == [mutex EXCEPT ![p] = Append(@, task)]
Released(p) == [mutex EXCEPT ![p] = Tail(@)]

Relocking(p, task) == [mutex EXCEPT ![p] = Append(Tail(@), task)]
Without(p, task) ==
  IF \E k \in DOMAIN mutex[p] : mutex[p][k] = task
  THEN LET k == CHOOSE j \in DOMAIN mutex[p] : mutex[p][j] = task
       IN [mutex EXCEPT ![p] = SubSeq(@, 1, k - 1) \o SubSeq(@, k + 1, Len(@))]
  ELSE mutex

-----------------------------------------------------------------------------
(* The file system                                                          *)

(* create_dir_all of the directories ds fails if one of them is a file.     *)
Blocked(tree, ds) == \E x \in ds : tree[x].kind = "File"
create_dir_all(tree, ds) ==
  [x \in Path |-> IF x \in ds THEN Directory ELSE tree[x]]

remove(tree, x) ==
  [y \in Path |-> IF y = x \/ y \in Below(x) THEN Absent ELSE tree[y]]

Put(tree, x, node) == [tree EXCEPT ![x] = node]

(* The events of p's tree becoming tree, which also has written to the      *)
(* paths in xs; later events of a path replace earlier ones.                *)
Notified(p, tree, xs) ==
  IF watcher[p] \in {"new", "ended"} THEN pending
  ELSE [pending EXCEPT ![p] =
          [x \in Path |->
             IF tree[x] = disk[p][x] /\ x \notin xs THEN @[x]
             ELSE IF tree[x] = Absent THEN "Deleted"
             ELSE IF disk[p][x] = Absent THEN "Created"
             ELSE "Modified"]]

Init ==
  \E ix \in Start :
    /\ disk = [p \in Peer |-> Tree(IF p = Host THEN ix[1] ELSE ix[2])]
    /\ local_index = [p \in Peer |-> IF p = Host THEN ix[1] ELSE ix[2]]
    /\ remote_index =
         [p \in Peer |-> LET index == IF p = Host THEN ix[2] ELSE ix[1]
                         IN [x \in Path |-> Exchanged(index[x])]]
    /\ session = [p \in Peer |-> "initial"]
    /\ pending = [p \in Peer |-> [x \in Path |-> "none"]]
    /\ watcher = [p \in Peer |-> "new"]
    /\ event = [p \in Peer |-> <<>>]
    /\ queue = [p \in Peer |-> <<>>]
    /\ outbound = [p \in Peer |-> "new"]
    /\ sending = [p \in Peer |-> NoSending]
    /\ counter = [p \in Peer |-> 0]
    /\ inbound = [p \in Peer |-> "new"]
    /\ payload = [p \in Peer |-> <<>>]
    /\ written = [p \in Peer |-> <<>>]
    /\ failing = [p \in Peer |-> FALSE]
    /\ keepalive = [p \in Peer |-> "new"]
    /\ pings = [p \in Peer |-> 0]
    /\ mutex = [p \in Peer |-> <<>>]
    /\ wire = [p \in Peer |-> <<>>]
    /\ open = [p \in Peer |-> TRUE]
    /\ lost = FALSE
    /\ edits = [p \in Peer |-> 0]

-----------------------------------------------------------------------------
(* Users                                                                    *)

Receiving(p, x) ==
  inbound[p] = "chunks" /\ payload[p].op.path \in {x} \cup Below(x)

(* The user changes what is at x, but not while a file there is received.   *)
UserChanges(p, x, tree) ==
  /\ edits[p] < MaxEdits[p]
  /\ session[p] # "returned"
  /\ ~Receiving(p, x)
  /\ tree # disk[p]
  /\ disk' = [disk EXCEPT ![p] = tree]
  /\ pending' = Notified(p, tree, {})
  /\ edits' = [edits EXCEPT ![p] = @ + 1]
  /\ UNCHANGED <<indexVars, session, watcher, event, outboundVars, inboundVars,
                 keepaliveVars, mutex, wire, streamVars>>

UserWrites(p, x, content) ==
  /\ \A y \in Above[x] : disk[p][y] = Directory
  /\ disk[p][x] # Directory
  /\ UserChanges(p, x, Put(disk[p], x, File(content)))

UserMakesDirectory(p, x) ==
  /\ \A y \in Above[x] : disk[p][y] = Directory
  /\ disk[p][x] = Absent
  /\ UserChanges(p, x, Put(disk[p], x, Directory))

UserDeletes(p, x) == UserChanges(p, x, remove(disk[p], x))

-----------------------------------------------------------------------------
(* run() up to the four tasks                                               *)

PlannedOp(p, x) == LocalOp(local_index[p][x], remote_index[p][x])

(* The directories that apply_local_op makes: for a directory itself and    *)
(* all above it, for a file only those above it.                            *)
Made(p) ==
  UNION {IF remote_index[p][x].kind = "Directory" THEN Above[x] \cup {x}
         ELSE Above[x] : x \in {y \in Path : PlannedOp(p, y) = "Create"}}

ForgetIndices(p) ==
  /\ local_index' = [local_index EXCEPT ![p] = [x \in Path |-> NoEntry]]
  /\ remote_index' = [remote_index EXCEPT ![p] = [x \in Path |-> NoEntry]]

run_initial_sync(p) ==
  /\ session[p] = "initial"
  /\ ~Blocked(disk[p], Made(p))
  /\ disk' = [disk EXCEPT ![p] = create_dir_all(@, Made(p))]
  /\ ForgetIndices(p)
  /\ session' = [session EXCEPT ![p] = "live"]
  /\ watcher' = [watcher EXCEPT ![p] = "next"]
  /\ outbound' = [outbound EXCEPT ![p] = "recv"]
  /\ inbound' = [inbound EXCEPT ![p] = "loop"]
  /\ keepalive' = [keepalive EXCEPT ![p] = "tick"]
  /\ UNCHANGED <<pending, event, queue, sending, counter, payload, written,
                 failing, pings, mutex, wire, streamVars, edits>>

(* create_dir_all finds a file in its way: run() returns the error, with    *)
(* what it has made before.                                                 *)
initial_sync_fails(p) ==
  /\ session[p] = "initial"
  /\ Blocked(disk[p], Made(p))
  /\ \E ds \in SUBSET Made(p) :
       /\ ~Blocked(disk[p], ds)
       /\ disk' = [disk EXCEPT ![p] = create_dir_all(@, ds)]
  /\ ForgetIndices(p)
  /\ session' = [session EXCEPT ![p] = "returned"]
  /\ watcher' = [watcher EXCEPT ![p] = "ended"]
  /\ outbound' = [outbound EXCEPT ![p] = "ended"]
  /\ inbound' = [inbound EXCEPT ![p] = "ended"]
  /\ keepalive' = [keepalive EXCEPT ![p] = "ended"]
  /\ UNCHANGED <<pending, event, queue, sending, counter, payload, written,
                 failing, pings, mutex, wire, streamVars, edits>>

-----------------------------------------------------------------------------
(* The watcher task                                                         *)

(* next_event: a path has been quiet for the debounce window.               *)
WNext(p, x) ==
  /\ watcher[p] = "next"
  /\ pending[p][x] # "none"
  /\ event' = [event EXCEPT ![p] = [path |-> x, kind |-> pending[p][x]]]
  /\ pending' = [pending EXCEPT ![p][x] = "none"]
  /\ watcher' = [watcher EXCEPT ![p] = "convert"]
  /\ UNCHANGED <<disk, indexVars, session, outboundVars, inboundVars,
                 keepaliveVars, mutex, wire, streamVars, edits>>

(* event_to_sync_op looks at the path as it is now, and takes it relative   *)
(* to the working directory.                                                *)
Convertible(p) ==
  LET node == disk[p][event[p].path] IN
    \/ event[p].kind = "Deleted"
    \/ p \in Cwd /\ node.kind = "File"
    \/ p \in Cwd /\ node.kind = "Directory" /\ event[p].kind = "Created"

(* Create and Modify are sent and received alike.  The kind of what is      *)
(* created is in the operation, but no receiver looks at it.                *)
OpOf(p) ==
  LET x == event[p].path IN
    IF event[p].kind = "Deleted" THEN [type |-> "Delete", path |-> x]
    ELSE [type |-> "Write", path |-> x, size |-> Len(disk[p][x].content)]

event_to_sync_op(p) ==
  /\ watcher[p] = "convert"
  /\ Convertible(p)
  /\ event' = [event EXCEPT ![p] = OpOf(p)]
  /\ watcher' = [watcher EXCEPT ![p] = "send"]
  /\ UNCHANGED <<disk, indexVars, session, pending, outboundVars, inboundVars,
                 keepaliveVars, mutex, wire, streamVars, edits>>

(* outbound_tx.send waits for room.                                         *)
WSend(p) ==
  /\ watcher[p] = "send"
  /\ outbound[p] # "ended"
  /\ Len(queue[p]) < OpCap
  /\ queue' = [queue EXCEPT ![p] = Append(@, event[p])]
  /\ event' = [event EXCEPT ![p] = <<>>]
  /\ watcher' = [watcher EXCEPT ![p] = "next"]
  /\ UNCHANGED <<disk, indexVars, session, pending, outbound, sending, counter,
                 inboundVars, keepaliveVars, mutex, wire, streamVars, edits>>

(* The task ends on shutdown, when outbound is gone, or with the error of   *)
(* an event that cannot be converted.                                       *)
WEnd(p) ==
  /\ \/ watcher[p] = "next" /\ session[p] = "returned"
     \/ watcher[p] = "send" /\ outbound[p] = "ended"
     \/ watcher[p] = "convert" /\ ~Convertible(p)
  /\ watcher' = [watcher EXCEPT ![p] = "ended"]
  /\ event' = [event EXCEPT ![p] = <<>>]
  /\ pending' = [pending EXCEPT ![p] = [x \in Path |-> "none"]]
  /\ UNCHANGED <<disk, indexVars, session, outboundVars, inboundVars,
                 keepaliveVars, mutex, wire, streamVars, edits>>

-----------------------------------------------------------------------------
(* The outbound task: send_sync_op holds the mutex from the operation to    *)
(* its acknowledgement.                                                     *)

ORecv(p) ==
  /\ outbound[p] = "recv"
  /\ queue[p] # <<>>
  /\ counter[p] < MaxOps
  /\ queue' = [queue EXCEPT ![p] = Tail(@)]
  /\ sending' = [sending EXCEPT ![p] =
                   [op |-> Head(queue[p]), op_id |-> counter[p],
                    content |-> <<>>, next |-> 1]]
  /\ counter' = [counter EXCEPT ![p] = @ + 1]
  /\ outbound' = [outbound EXCEPT ![p] = "lock"]
  /\ mutex' = Locking(p, "outbound")
  /\ UNCHANGED <<disk, indexVars, session, watcherVars, inboundVars,
                 keepaliveVars, wire, streamVars, edits>>

HasChunks(op) == op.type = "Write" /\ op.size > 0

(* What follows the chunks of content before number n.                      *)
NextFrame(s, content, n) ==
  IF n <= Len(content) THEN SyncChunk(s.op_id, content[n])
  ELSE SyncComplete(s.op_id)

(* An operation without chunks.                                             *)
OSend(p) ==
  /\ outbound[p] = "lock"
  /\ Holds(p, "outbound")
  /\ ~HasChunks(sending[p].op)
  /\ wire' = Exchange(p, FALSE, <<SyncOp(sending[p].op, sending[p].op_id)>>)
  /\ outbound' = [outbound EXCEPT ![p] = "opAck"]
  /\ UNCHANGED <<disk, indexVars, session, watcherVars, queue, sending,
                 counter, inboundVars, keepaliveVars, mutex, streamVars, edits>>

(* An operation with chunks: the file is read as it is now.                 *)
OSendFile(p) ==
  /\ outbound[p] = "lock"
  /\ Holds(p, "outbound")
  /\ HasChunks(sending[p].op)
  /\ LET s == sending[p]
         content == disk[p][s.op.path].content
     IN /\ disk[p][s.op.path].kind = "File"
        /\ sending' = [sending EXCEPT ![p].content = content]
        /\ outbound' = [outbound EXCEPT ![p] =
                          IF content = <<>> THEN "opAck" ELSE "chunkAck"]
        /\ wire' = Exchange(p, FALSE, <<SyncOp(s.op, s.op_id),
                                        NextFrame(s, content, 1)>>)
  /\ UNCHANGED <<disk, indexVars, session, watcherVars, queue, counter,
                 inboundVars, keepaliveVars, mutex, streamVars, edits>>

(* SyncChunkAck: the next chunk, or SyncComplete behind the last.           *)
OChunkAck(p) ==
  /\ outbound[p] = "chunkAck"
  /\ Arrived(p, "SyncChunkAck")
  /\ Head(wire[p]).success
  /\ LET s == sending[p] IN
       /\ sending' = [sending EXCEPT ![p].next = @ + 1]
       /\ outbound' = [outbound EXCEPT ![p] =
                         IF s.next < Len(s.content) THEN @ ELSE "opAck"]
       /\ wire' = Exchange(p, TRUE, <<NextFrame(s, s.content, s.next + 1)>>)
  /\ UNCHANGED <<disk, indexVars, session, watcherVars, queue, counter,
                 inboundVars, keepaliveVars, mutex, streamVars, edits>>

(* SyncOpAck: its op_id is not compared.                                    *)
OOpAck(p) ==
  /\ outbound[p] = "opAck"
  /\ Arrived(p, "SyncOpAck")
  /\ wire' = Exchange(p, TRUE, <<>>)
  /\ outbound' = [outbound EXCEPT ![p] = "recv"]
  /\ sending' = [sending EXCEPT ![p] = NoSending]
  /\ mutex' = Released(p)
  /\ UNCHANGED <<disk, indexVars, session, watcherVars, queue, counter,
                 inboundVars, keepaliveVars, streamVars, edits>>

Expected(p) ==
  IF outbound[p] = "opAck" THEN Arrived(p, "SyncOpAck")
  ELSE Arrived(p, "SyncChunkAck") /\ Head(wire[p]).success

OutboundEnds(p) ==
  /\ outbound' = [outbound EXCEPT ![p] = "ended"]
  /\ queue' = [queue EXCEPT ![p] = <<>>]
  /\ sending' = [sending EXCEPT ![p] = NoSending]
  /\ UNCHANGED <<disk, indexVars, session, watcherVars, counter, inboundVars,
                 keepaliveVars, streamVars, edits>>

(* Any other frame, a failed read or write, or a file that is gone ends the *)
(* task; in the last case the operation itself has been sent.               *)
OUnexpected(p) ==
  /\ outbound[p] \in {"chunkAck", "opAck"}
  /\ wire[p] # <<>>
  /\ ~Expected(p)
  /\ wire' = Exchange(p, TRUE, <<>>)
  /\ mutex' = Released(p)
  /\ OutboundEnds(p)

OStreamFails(p) ==
  /\ \/ outbound[p] = "lock" /\ Holds(p, "outbound") /\ write_frame_fails(p)
     \/ outbound[p] \in {"chunkAck", "opAck"} /\ read_frame_fails(p)
  /\ mutex' = Released(p)
  /\ OutboundEnds(p)
  /\ UNCHANGED wire

OCannotRead(p) ==
  /\ outbound[p] = "lock"
  /\ Holds(p, "outbound")
  /\ HasChunks(sending[p].op)
  /\ disk[p][sending[p].op.path].kind # "File"
  /\ wire' = Exchange(p, FALSE, <<SyncOp(sending[p].op, sending[p].op_id)>>)
  /\ mutex' = Released(p)
  /\ OutboundEnds(p)

OShutdown(p) ==
  /\ outbound[p] = "recv"
  /\ session[p] = "returned"
  /\ OutboundEnds(p)
  /\ UNCHANGED <<mutex, wire>>

-----------------------------------------------------------------------------
(* The keepalive task                                                       *)

KTick(p) ==
  /\ keepalive[p] = "tick"
  /\ pings[p] < MaxPings[p]
  /\ keepalive' = [keepalive EXCEPT ![p] = "lock"]
  /\ pings' = [pings EXCEPT ![p] = @ + 1]
  /\ mutex' = Locking(p, "keepalive")
  /\ UNCHANGED <<disk, indexVars, session, watcherVars, outboundVars,
                 inboundVars, wire, streamVars, edits>>

\* Mutant: the Ping is written without waiting for the mutex.
MayPing_unlocked(p) == keepalive[p] = "lock"

MayPing(p) == keepalive[p] = "lock" /\ Holds(p, "keepalive")

KPing(p) ==
  /\ MayPing(p)
  /\ wire' = Exchange(p, FALSE, <<Ping>>)
  /\ keepalive' = [keepalive EXCEPT ![p] = "tick"]
  /\ mutex' = Without(p, "keepalive")
  /\ UNCHANGED <<disk, indexVars, session, watcherVars, outboundVars,
                 inboundVars, pings, streamVars, edits>>

(* The Ping cannot be written, or the session is shut down.                 *)
KEnd(p) ==
  /\ \/ MayPing(p) /\ write_frame_fails(p)
     \/ keepalive[p] = "tick" /\ session[p] = "returned"
  /\ keepalive' = [keepalive EXCEPT ![p] = "ended"]
  /\ mutex' = Without(p, "keepalive")
  /\ UNCHANGED <<disk, indexVars, session, watcherVars, outboundVars,
                 inboundVars, pings, wire, streamVars, edits>>

-----------------------------------------------------------------------------
(* The inbound task                                                         *)

(* The first lock of the loop; later ones are requested when the previous   *)
(* frame has been dealt with.                                               *)
ILoop(p) ==
  /\ inbound[p] = "loop"
  /\ inbound' = [inbound EXCEPT ![p] = "lockRead"]
  /\ mutex' = Locking(p, "inbound")
  /\ UNCHANGED <<disk, indexVars, session, watcherVars, outboundVars, payload,
                 written, failing, keepaliveVars, wire, streamVars, edits>>

(* A frame has been read.  The guard is dropped, and the mutex requested    *)
(* again to deal with the frame, or to read the next one.                   *)
Handler(type) ==
  CASE type = "SyncOp" -> "lockOp"
    [] type = "Ping" -> "lockPong"
    [] OTHER -> "lockRead"

IRead(p) ==
  /\ inbound[p] = "lockRead"
  /\ Holds(p, "inbound")
  /\ wire[p] # <<>>
  /\ wire' = Exchange(p, TRUE, <<>>)
  /\ inbound' = [inbound EXCEPT ![p] = Handler(Head(wire[p]).type)]
  /\ payload' = [payload EXCEPT ![p] =
                   IF Head(wire[p]).type = "SyncOp" THEN Head(wire[p])
                   ELSE <<>>]
  /\ mutex' = Relocking(p, "inbound")
  /\ UNCHANGED <<disk, indexVars, session, watcherVars, outboundVars, written,
                 failing, keepaliveVars, streamVars, edits>>

IPong(p) ==
  /\ inbound[p] = "lockPong"
  /\ Holds(p, "inbound")
  /\ wire' = Exchange(p, FALSE, <<Pong>>)
  /\ inbound' = [inbound EXCEPT ![p] = "lockRead"]
  /\ mutex' = Relocking(p, "inbound")
  /\ UNCHANGED <<disk, indexVars, session, watcherVars, outboundVars, payload,
                 written, failing, keepaliveVars, streamVars, edits>>

\* Mutant: the acknowledgement carries this side's own counter.
AckOf_own(p) == SyncOpAck(counter[p])

AckOf(p) == SyncOpAck(payload[p].op_id)

(* The tree becomes tree, with writes to the paths xs, and the loop goes on *)
(* after the frames fs.                                                     *)
Applied(p, read, tree, xs, fs) ==
  /\ disk' = [disk EXCEPT ![p] = tree]
  /\ pending' = Notified(p, tree, xs)
  /\ wire' = Exchange(p, read, fs)
  /\ inbound' = [inbound EXCEPT ![p] = "lockRead"]
  /\ mutex' = Relocking(p, "inbound")
  /\ UNCHANGED <<indexVars, session, watcher, event, outboundVars, payload,
                 keepaliveVars, streamVars, edits>>

HandlesOp(p) == inbound[p] = "lockOp" /\ Holds(p, "inbound")

IDelete(p) ==
  /\ HandlesOp(p)
  /\ payload[p].op.type = "Delete"
  /\ LET tree == IF p \in Deletions
                 THEN remove(disk[p], payload[p].op.path) ELSE disk[p]
     IN Applied(p, FALSE, tree, {}, <<AckOf(p)>>)
  /\ UNCHANGED <<written, failing>>

(* create_dir_all of the parent and File::create can be done.               *)
Creatable(p) ==
  LET x == payload[p].op.path IN
    ~Blocked(disk[p], Above[x]) /\ disk[p][x] # Directory

(* The tree with the path of the operation created or truncated.            *)
Created(p) ==
  LET x == payload[p].op.path IN
    Put(create_dir_all(disk[p], Above[x]), x, File(<<>>))

ICreateEmpty(p) ==
  /\ HandlesOp(p)
  /\ payload[p].op.type = "Write" /\ ~HasChunks(payload[p].op)
  /\ Creatable(p)
  /\ Applied(p, FALSE, Created(p), {payload[p].op.path}, <<AckOf(p)>>)
  /\ UNCHANGED <<written, failing>>

(* FileWriter::new; the chunks are read with the mutex held.                *)
ICreate(p) ==
  /\ HandlesOp(p)
  /\ HasChunks(payload[p].op)
  /\ Creatable(p)
  /\ disk' = [disk EXCEPT ![p] = Created(p)]
  /\ pending' = Notified(p, Created(p), {payload[p].op.path})
  /\ written' = [written EXCEPT ![p] = <<>>]
  /\ failing' = [failing EXCEPT ![p] = FALSE]
  /\ inbound' = [inbound EXCEPT ![p] = "chunks"]
  /\ UNCHANGED <<indexVars, session, watcher, event, outboundVars, payload,
                 keepaliveVars, mutex, wire, streamVars, edits>>

(* Neither can: receive_sync_op returns the error, which is logged.  There  *)
(* is no acknowledgement.                                                   *)
ICannotCreate(p) ==
  /\ HandlesOp(p)
  /\ payload[p].op.type = "Write"
  /\ ~Creatable(p)
  /\ Applied(p, FALSE, IF Blocked(disk[p], Above[payload[p].op.path])
                       THEN disk[p]
                       ELSE create_dir_all(disk[p], Above[payload[p].op.path]),
             {}, <<>>)
  /\ UNCHANGED <<written, failing>>

ChunkIsForOp(p) ==
  Arrived(p, "SyncChunk") /\ Head(wire[p]).op_id = payload[p].op_id

(* SyncChunk: write_chunk hands the data to the file, whose write may fail  *)
(* later; the acknowledgement does not wait for it.                         *)
IChunk(p) ==
  /\ inbound[p] = "chunks"
  /\ ChunkIsForOp(p)
  /\ ~failing[p]
  /\ LET x == payload[p].op.path
         content == Append(written[p], Head(wire[p]).data)
     IN \/ /\ disk' = [disk EXCEPT ![p][x] = File(content)]
           /\ pending' = Notified(p, disk[p], {x})
           /\ written' = [written EXCEPT ![p] = content]
           /\ UNCHANGED failing
        \/ /\ "disk" \in Faults
           /\ failing' = [failing EXCEPT ![p] = TRUE]
           /\ UNCHANGED <<disk, pending, written>>
  /\ wire' = Exchange(p, TRUE, <<SyncChunkAck(payload[p].op_id, TRUE)>>)
  /\ UNCHANGED <<indexVars, session, watcher, event, outboundVars, inbound,
                 payload, keepaliveVars, mutex, streamVars, edits>>

\* Mutant: finalize does not report the failed write.
Finalized_unchecked(p) == TRUE

(* finalize() succeeds.                                                     *)
Finalized(p) == ~failing[p]

IComplete(p) ==
  /\ inbound[p] = "chunks"
  /\ Arrived(p, "SyncComplete")
  /\ Finalized(p)
  /\ Applied(p, TRUE, disk[p], {}, <<AckOf(p)>>)
  /\ UNCHANGED <<written, failing>>

(* A damaged chunk is refused; a failed write, a chunk of another operation *)
(* or an unexpected frame is an error.  All of them leave the chunk loop    *)
(* without an acknowledgement of the operation.                             *)
IChunkDamaged(p) ==
  /\ inbound[p] = "chunks"
  /\ "corrupt" \in Faults
  /\ ChunkIsForOp(p)
  /\ Applied(p, TRUE, disk[p], {}, <<SyncChunkAck(payload[p].op_id, FALSE)>>)
  /\ UNCHANGED <<written, failing>>

IChunksFail(p) ==
  /\ inbound[p] = "chunks"
  /\ wire[p] # <<>>
  /\ \/ failing[p] /\ (ChunkIsForOp(p) \/ Arrived(p, "SyncComplete"))
     \/ ~ChunkIsForOp(p) /\ ~Arrived(p, "SyncComplete")
  /\ Applied(p, TRUE, disk[p], {}, <<>>)
  /\ UNCHANGED <<written, failing>>

(* A failed read ends the chunk loop or the task, a failed Pong the task.   *)
IChunkReadFails(p) ==
  /\ inbound[p] = "chunks"
  /\ read_frame_fails(p)
  /\ Applied(p, FALSE, disk[p], {}, <<>>)
  /\ UNCHANGED <<written, failing>>

\* Mutant: a failed read does not end the task.
InboundFails_not(p) ==
  inbound[p] = "lockPong" /\ Holds(p, "inbound") /\ write_frame_fails(p)

InboundFails(p) ==
  /\ Holds(p, "inbound")
  /\ \/ inbound[p] = "lockRead" /\ read_frame_fails(p)
     \/ inbound[p] = "lockPong" /\ write_frame_fails(p)

(* On shutdown the task leaves its select!, also while it waits.            *)
IEnd(p) ==
  /\ \/ InboundFails(p)
     \/ inbound[p] \in {"loop", "lockRead"} /\ session[p] = "returned"
  /\ inbound' = [inbound EXCEPT ![p] = "ended"]
  /\ mutex' = Without(p, "inbound")
  /\ UNCHANGED <<disk, indexVars, session, watcherVars, outboundVars, payload,
                 written, failing, keepaliveVars, wire, streamVars, edits>>

-----------------------------------------------------------------------------
(* run() with its tasks                                                     *)

AllEnded(p) ==
  {watcher[p], outbound[p], inbound[p], keepalive[p]} = {"ended"}

(* select!: a task has ended, Ctrl+C was pressed, or the caller was         *)
(* aborted.  The tasks are told to shut down, and detached.                 *)
RunReturns(p) ==
  /\ session[p] = "live"
  /\ "ended" \in {watcher[p], outbound[p], inbound[p], keepalive[p]}
  /\ session' = [session EXCEPT ![p] = "returned"]
  /\ UNCHANGED <<disk, indexVars, watcherVars, outboundVars, inboundVars,
                 keepaliveVars, mutex, wire, streamVars, edits>>

Stop(p) ==
  /\ "stop" \in Faults
  /\ session[p] = "live"
  /\ session' = [session EXCEPT ![p] = "returned"]
  /\ UNCHANGED <<disk, indexVars, watcherVars, outboundVars, inboundVars,
                 keepaliveVars, mutex, wire, streamVars, edits>>

(* The stream is closed with the last task that holds it.                   *)
StreamDropped(p) ==
  /\ open[p]
  /\ session[p] = "returned" /\ AllEnded(p)
  /\ open' = [open EXCEPT ![p] = FALSE]
  /\ UNCHANGED <<disk, indexVars, session, watcherVars, outboundVars,
                 inboundVars, keepaliveVars, mutex, wire, lost, edits>>

(* The process may end once run() has returned: its tasks are gone.         *)
Exit(p) ==
  /\ open[p]
  /\ session[p] = "returned"
  /\ ~AllEnded(p)
  /\ open' = [open EXCEPT ![p] = FALSE]
  /\ watcher' = [watcher EXCEPT ![p] = "ended"]
  /\ outbound' = [outbound EXCEPT ![p] = "ended"]
  /\ inbound' = [inbound EXCEPT ![p] = "ended"]
  /\ keepalive' = [keepalive EXCEPT ![p] = "ended"]
  /\ mutex' = [mutex EXCEPT ![p] = <<>>]
  /\ UNCHANGED <<disk, indexVars, session, pending, event, queue, sending,
                 counter, payload, written, failing, pings, wire, lost, edits>>

ConnectionLost ==
  /\ "loss" \in Faults
  /\ ~lost
  /\ lost' = TRUE
  /\ UNCHANGED <<disk, indexVars, session, watcherVars, outboundVars,
                 inboundVars, keepaliveVars, mutex, wire, open, edits>>

UserActs(p) ==
  \E x \in Path :
    \/ \E content \in Contents : UserWrites(p, x, content)
    \/ UserMakesDirectory(p, x)
    \/ UserDeletes(p, x)

InitialSync(p) == run_initial_sync(p) \/ initial_sync_fails(p)

WatcherRuns(p) ==
  (\E x \in Path : WNext(p, x)) \/ event_to_sync_op(p) \/ WSend(p) \/ WEnd(p)

OutboundRuns(p) ==
  \/ ORecv(p) \/ OSend(p) \/ OSendFile(p) \/ OChunkAck(p) \/ OOpAck(p)
  \/ OUnexpected(p) \/ OStreamFails(p) \/ OCannotRead(p) \/ OShutdown(p)

KeepaliveRuns(p) == KTick(p) \/ KPing(p) \/ KEnd(p)

InboundRuns(p) ==
  \/ ILoop(p) \/ IRead(p) \/ IPong(p) \/ IDelete(p) \/ ICreateEmpty(p)
  \/ ICreate(p) \/ ICannotCreate(p) \/ IChunk(p) \/ IComplete(p)
  \/ IChunkDamaged(p) \/ IChunksFail(p) \/ IChunkReadFails(p) \/ IEnd(p)

Next ==
  \/ \E p \in Peer :
       \/ UserActs(p) \/ InitialSync(p)
       \/ WatcherRuns(p) \/ OutboundRuns(p) \/ KeepaliveRuns(p)
       \/ InboundRuns(p)
       \/ RunReturns(p) \/ Stop(p) \/ StreamDropped(p) \/ Exit(p)
  \/ ConnectionLost

Spec == Init /\ [][Next]_vars

(* The runtime runs every task that can run; timers fire.                   *)
Fairness ==
  \A p \in Peer :
    /\ WF_vars(InitialSync(p))
    /\ WF_vars(WatcherRuns(p))
    /\ WF_vars(OutboundRuns(p))
    /\ WF_vars(KeepaliveRuns(p))
    /\ WF_vars(InboundRuns(p))
    /\ WF_vars(RunReturns(p))
    /\ WF_vars(StreamDropped(p))

FairSpec == Spec /\ Fairness

-----------------------------------------------------------------------------
(* Properties                                                               *)

Id == 0..MaxOps
Frame ==
  [type : {"SyncOp"}, op_id : Id, op : Op]
    \cup [type : {"SyncOpAck", "SyncComplete"}, op_id : Id]
    \cup [type : {"SyncChunk"}, op_id : Id, data : Chunk]
    \cup [type : {"SyncChunkAck"}, op_id : Id, success : BOOLEAN]
    \cup [type : {"Ping", "Pong"}]

(* The tasks that have asked for the mutex, or hold it.                     *)
Waiters(p) ==
  {t \in {"outbound"} : outbound[p] \in {"lock", "chunkAck", "opAck"}}
    \cup {t \in {"inbound"} :
            inbound[p] \in {"lockRead", "lockOp", "lockPong", "chunks"}}
    \cup {t \in {"keepalive"} : keepalive[p] = "lock"}

(* Every variable has its type; each task waits for the mutex at most once, *)
(* and holds it where the code has the guard.                               *)
TypeOK ==
  /\ disk \in [Peer -> [Path -> Node]]
  /\ session \in [Peer -> {"initial", "live", "returned"}]
  /\ pending \in [Peer -> [Path -> {"none", "Created", "Modified", "Deleted"}]]
  /\ watcher \in [Peer -> {"new", "next", "convert", "send", "ended"}]
  /\ \A p \in Peer : watcher[p] = "convert" => event[p].path \in Path
  /\ \A p \in Peer : watcher[p] = "send" => event[p] \in Op
  /\ queue \in [Peer -> Seq(Op)]
  /\ outbound \in [Peer -> {"new", "recv", "lock", "chunkAck", "opAck",
                            "ended"}]
  /\ \A p \in Peer : outbound[p] \in {"lock", "chunkAck", "opAck"} =>
       sending[p] \in [op : Op, op_id : Id, content : Seq(Chunk), next : Nat]
  /\ counter \in [Peer -> Id]
  /\ inbound \in [Peer -> {"new", "loop", "lockRead", "lockOp", "lockPong",
                           "chunks", "ended"}]
  /\ \A p \in Peer : inbound[p] \in {"lockOp", "chunks"} =>
       payload[p] \in Frame /\ payload[p].type = "SyncOp"
  /\ written \in [Peer -> Seq(Chunk)]
  /\ failing \in [Peer -> BOOLEAN]
  /\ keepalive \in [Peer -> {"new", "tick", "lock", "ended"}]
  /\ pings \in [Peer -> Nat]
  /\ \A p \in Peer :
       /\ {mutex[p][k] : k \in DOMAIN mutex[p]} = Waiters(p)
       /\ \A j, k \in DOMAIN mutex[p] : mutex[p][j] = mutex[p][k] => j = k
       /\ outbound[p] \in {"chunkAck", "opAck"} => Holds(p, "outbound")
       /\ inbound[p] = "chunks" => Holds(p, "inbound")
  /\ wire \in [Peer -> Seq(Frame)]
  /\ open \in [Peer -> BOOLEAN]
  /\ lost \in BOOLEAN
  /\ edits \in [Peer -> Nat]

(* The acknowledgements outbound reads without comparing op_id are for the  *)
(* operation it is sending, and of the kind it waits for.                   *)
AckIsForOperation ==
  \A p \in Peer :
    outbound[p] \in {"chunkAck", "opAck"} =>
      \A k \in DOMAIN wire[p] :
        wire[p][k].type \in {"SyncOpAck", "SyncChunkAck"} =>
          /\ wire[p][k].op_id = sending[p].op_id
          /\ wire[p][k].type =
               IF outbound[p] = "opAck" THEN "SyncOpAck" ELSE "SyncChunkAck"

(* An operation with chunks that has been acknowledged has been written as  *)
(* the sender has read it, although chunks are acknowledged before their    *)
(* writes are done.                                                         *)
AckedMeansWritten ==
  \A p \in Peer :
    outbound[p] = "opAck" /\ HasChunks(sending[p].op) =>
      \A k \in DOMAIN wire[p] :
        wire[p][k].type = "SyncOpAck" =>
          written[Other(p)] = sending[p].content

(* As long as the sender is at it, a receiver in the chunk loop finds only  *)
(* what belongs to its operation: no Ping, Pong or answer of another task   *)
(* of the sender comes in between.                                          *)
ChunksNotInterrupted ==
  \A p \in Peer :
    inbound[p] = "chunks" /\ wire[p] # <<>> /\ outbound[Other(p)] # "ended" =>
      ChunkIsForOp(p) \/ Arrived(p, "SyncComplete")

(* The two plans never take one another's version of a path; and if one is  *)
(* newer by a second or more, its peer takes it, and its owner keeps it,    *)
(* although either side compares times with and without a fraction.         *)
PlansAgree ==
  session = [p \in Peer |-> "initial"] =>
    \A x \in Path :
      /\ \E p \in Peer : PlannedOp(p, x) # "Modify"
      /\ \A p \in Peer :
           LET mine == local_index[p][x]
               other == local_index[Other(p)][x]
           IN NoEntry \notin {mine, other} /\ content_changed(mine, other) =>
                /\ ~Later(Plus(mine.mtime, 1), other.mtime) =>
                     PlannedOp(p, x) = "Modify"
                /\ ~Later(Plus(other.mtime, 1), mine.mtime) =>
                     PlannedOp(p, x) # "Modify"

(* A session that loses its peer returns from run(), and closes its own     *)
(* end, whichever tasks wait for the mutex or the peer.                     *)
LossEndsRun ==
  \A p \in Peer :
    (lost \/ ~open[Other(p)]) ~> (session[p] = "returned" /\ ~open[p])

(* "Any file changes (additions, modifications, deletions) sync instantly   *)
(* between devices": an operation that outbound has taken is sent.          *)
ChangesAreSent ==
  \A p \in Peer : outbound[p] = "lock" ~> outbound[p] # "lock"

=============================================================================
