---------------------------- MODULE ClipboardSync ----------------------------
(***************************************************************************)
(* Live clipboard sync: two SyncSessionRunners (clipboard/session.rs) over *)
(* one connection.  A runner has three tasks: the watcher (watcher.rs)     *)
(* polls the clipboard and queues changes, the outbound task announces     *)
(* them, the inbound task answers requests and fetches what the peer       *)
(* announces.  The tasks share a hash (last_hash), the hash of the last    *)
(* content that came from the peer, a cache and the stream.                *)
(*                                                                         *)
(* Left out: SyncStats and last_local_hash, which nothing reads while the  *)
(* session runs, and Ping and TransferCancel, which no runner sends.       *)
(***************************************************************************)
EXTENDS Naturals, Sequences

CONSTANTS
  Host, Joiner,  \* the two ends of the session
  Texts,         \* the bytes of the texts a user may copy
  Images,        \* the bytes (PNG) of the images a user may copy
  Start,         \* what may be on a clipboard when the session starts
  MaxCopies,     \* bound: how often each user copies something
  ChangeCap,     \* capacity of the watcher's channel (16)
  EventCap,      \* capacity of the event channel (32)
  Faults         \* what may go wrong in a behaviour, see FaultKinds

Peer == {Host, Joiner}
Other(p) == IF p = Host THEN Joiner ELSE Host

(* loss: the network drops the connection.  write: the clipboard refuses a  *)
(* write.  overlap: a poll of the watcher overlaps a remote update.  stop:  *)
(* shutdown() is called or the task of run() is aborted.                    *)
FaultKinds == {"loss", "write", "overlap", "stop"}

(* ClipboardContent.  The hash depends on the bytes only, never on the type *)
(* of the content; 0, here NoHash, stands for an empty clipboard.           *)
NoHash == "0"
Bytes == Texts \cup Images
ContentType == {"PlainText", "ImagePng"}
NoContent == [content_type |-> "none", data |-> NoHash]
Content ==
  [content_type : {"PlainText"}, data : Texts]
    \cup [content_type : {"ImagePng"}, data : Images]

hash(content) == content.data

ASSUME PeerAssumption == Host # Joiner

ASSUME ContentAssumption ==
  /\ Texts \cap Images = {}
  /\ NoHash \notin Bytes
  /\ Start \subseteq Content \cup {NoContent}

ASSUME BoundAssumption ==
  /\ MaxCopies \in [Peer -> Nat]
  /\ ChangeCap \in Nat \ {0}
  /\ EventCap \in Nat \ {0}
  /\ Faults \subseteq FaultKinds

VARIABLES
  clipboard,         \* the operating system's clipboard of each peer
  last_hash,         \* the watcher's last known hash
  last_remote_hash,  \* hash of the last content that came from the peer
  cache,             \* content_cache: the last change taken by outbound
  watcher,           \* where the watcher is: sleep, compare, send, ended
  polled,            \* the content the watcher has read
  changes,           \* change_rx: changes not yet taken by outbound
  outbound,          \* where outbound is: recv, notify, event, ended
  inbound,           \* where inbound is: read, await, write, event, ended
  announced,         \* content type of the notification inbound works on
  incoming,          \* content inbound is writing to the clipboard
  events,            \* number of SyncEvents in event_tx
  running,           \* run() has not returned
  wire,              \* wire[p]: frames for p that it has not read
  open,              \* p's end of the stream is open
  lost,              \* the network has dropped the connection
  copied             \* history: what the user of p has copied, in order

hashVars == <<last_hash, last_remote_hash>>
watcherVars == <<watcher, polled>>
inboundVars == <<inbound, announced, incoming>>
sessionVars == <<events, running>>
streamVars == <<open, lost>>
vars == <<clipboard, hashVars, cache, watcherVars, changes, outbound,
          inboundVars, sessionVars, wire, streamVars, copied>>

-----------------------------------------------------------------------------
(* Frames and the stream.                                                   *)

ClipboardChanged(content) ==
  [type |-> "ClipboardChanged", content_type |-> content.content_type]
ClipboardRequest == [type |-> "ClipboardRequest"]
ClipboardData(content) == [type |-> "ClipboardData", data |-> content.data]
ClipboardAck == [type |-> "ClipboardAck"]

Frame ==
  [type : {"ClipboardRequest", "ClipboardAck"}]
    \cup [type : {"ClipboardChanged"}, content_type : ContentType]
    \cup [type : {"ClipboardData"}, data : Bytes]

(* The channels after p has read its next frame, if read is TRUE, and has   *)
(* written the frames fs.  Nothing arrives over a lost connection or at an  *)
(* end that is closed.                                                      *)
Exchange(p, read, fs) ==
  [q \in Peer |->
     IF q = p THEN (IF read THEN Tail(wire[p]) ELSE wire[p])
     ELSE IF lost \/ ~open[q] THEN wire[q] ELSE wire[q] \o fs]

Has(frames, type) == \E k \in DOMAIN frames : frames[k].type = type

AtMostOne(frames, type) ==
  \A j, k \in DOMAIN frames :
    frames[j].type = type /\ frames[k].type = type => j = k

Arrived(p, type) == wire[p] # <<>> /\ Head(wire[p]).type = type

-----------------------------------------------------------------------------
\* Mutant: text is taken as it comes.
from_bytes_unchecked(type, data) == [content_type |-> type, data |-> data]

(* from_bytes is given the type of the notification and the bytes of the    *)
(* answer: a PNG is not valid UTF-8, any bytes make an image.               *)
from_bytes(type, data) ==
  IF type = "PlainText" /\ data \in Images THEN NoContent
  ELSE [content_type |-> type, data |-> data]

(* Bytes that are no PNG cannot be put on the clipboard as an image.        *)
Decodable(content) ==
  content.content_type = "ImagePng" => content.data \in Images

Init ==
  /\ clipboard \in [Peer -> Start]
  /\ last_hash = [p \in Peer |-> hash(clipboard[p])]
  /\ last_remote_hash = [p \in Peer |-> NoHash]
  /\ cache = [p \in Peer |-> NoContent]
  /\ watcher = [p \in Peer |-> "sleep"]
  /\ polled = [p \in Peer |-> NoContent]
  /\ changes = [p \in Peer |-> <<>>]
  /\ outbound = [p \in Peer |-> "recv"]
  /\ inbound = [p \in Peer |-> "read"]
  /\ announced = [p \in Peer |-> "PlainText"]
  /\ incoming = [p \in Peer |-> NoContent]
  /\ events = [p \in Peer |-> 0]
  /\ running = [p \in Peer |-> TRUE]
  /\ wire = [p \in Peer |-> <<>>]
  /\ open = [p \in Peer |-> TRUE]
  /\ lost = FALSE
  /\ copied = [p \in Peer |-> <<>>]

(* Somebody copies something else to the clipboard.                         *)
UserCopies(p, content) ==
  /\ Len(copied[p]) < MaxCopies[p]
  /\ content # clipboard[p]
  /\ clipboard' = [clipboard EXCEPT ![p] = content]
  /\ copied' = [copied EXCEPT ![p] = Append(@, content)]
  /\ UNCHANGED <<hashVars, cache, watcherVars, changes, outbound, inboundVars,
                 sessionVars, wire, streamVars>>

-----------------------------------------------------------------------------
(* The watcher                                                              *)

(* A remote update is under way from the arrival of the content to the end  *)
(* of the write.  Nothing in the code keeps a poll out of it: only the runs *)
(* without overlap, those of liveness, look at the polls outside.           *)
Updating(p) ==
  inbound[p] = "write" \/ (inbound[p] = "await" /\ Arrived(p, "ClipboardData"))

(* The timer fires: read the clipboard.                                     *)
WRead(p) ==
  /\ watcher[p] = "sleep"
  /\ clipboard[p] # NoContent
  /\ "overlap" \in Faults \/ ~Updating(p)
  /\ polled' = [polled EXCEPT ![p] = clipboard[p]]
  /\ watcher' = [watcher EXCEPT ![p] = "compare"]
  /\ UNCHANGED <<clipboard, hashVars, cache, changes, outbound, inboundVars,
                 sessionVars, wire, streamVars, copied>>

(* A content whose hash is not the last known one is a change.              *)
WCompare(p) ==
  /\ watcher[p] = "compare"
  /\ IF hash(polled[p]) = last_hash[p]
     THEN /\ watcher' = [watcher EXCEPT ![p] = "sleep"]
          /\ polled' = [polled EXCEPT ![p] = NoContent]
          /\ UNCHANGED last_hash
     ELSE /\ watcher' = [watcher EXCEPT ![p] = "send"]
          /\ last_hash' = [last_hash EXCEPT ![p] = hash(polled[p])]
          /\ UNCHANGED polled
  /\ UNCHANGED <<clipboard, last_remote_hash, cache, changes, outbound,
                 inboundVars, sessionVars, wire, streamVars, copied>>

(* tx.send waits for room in the channel.                                   *)
WSend(p) ==
  /\ watcher[p] = "send"
  /\ outbound[p] # "ended"
  /\ Len(changes[p]) < ChangeCap
  /\ changes' = [changes EXCEPT ![p] = Append(@, polled[p])]
  /\ watcher' = [watcher EXCEPT ![p] = "sleep"]
  /\ polled' = [polled EXCEPT ![p] = NoContent]
  /\ UNCHANGED <<clipboard, hashVars, cache, outbound, inboundVars,
                 sessionVars, wire, streamVars, copied>>

(* The watcher ends when it is stopped, or finds the receiver dropped.      *)
WEnd(p) ==
  /\ \/ watcher[p] = "sleep" /\ ~running[p]
     \/ watcher[p] = "send" /\ outbound[p] = "ended"
  /\ watcher' = [watcher EXCEPT ![p] = "ended"]
  /\ polled' = [polled EXCEPT ![p] = NoContent]
  /\ UNCHANGED <<clipboard, hashVars, cache, changes, outbound, inboundVars,
                 sessionVars, wire, streamVars, copied>>

-----------------------------------------------------------------------------
(* The outbound task                                                        *)

(* event_tx.send waits for room; nobody receives until run() returns the    *)
(* receiver, and its caller then drops it.                                  *)
EventRoom(p) == running[p] => events[p] < EventCap
EventSent(p) == [events EXCEPT ![p] = IF running[p] THEN @ + 1 ELSE @]

\* Mutant: the cache is filled once and not refreshed.
NextCache_first(p) ==
  IF cache[p] = NoContent THEN Head(changes[p]) ELSE cache[p]

(* What the cache holds once the next change has been taken.                *)
NextCache(p) == Head(changes[p])

(* A change that came from the peer is skipped, another one is cached.      *)
OTake(p) ==
  /\ outbound[p] = "recv"
  /\ changes[p] # <<>>
  /\ changes' = [changes EXCEPT ![p] = Tail(@)]
  /\ IF hash(Head(changes[p])) = last_remote_hash[p]
     THEN UNCHANGED <<cache, outbound>>
     ELSE /\ cache' = [cache EXCEPT ![p] = NextCache(p)]
          /\ outbound' = [outbound EXCEPT ![p] = "notify"]
  /\ UNCHANGED <<clipboard, hashVars, watcherVars, inboundVars, sessionVars,
                 wire, streamVars, copied>>

(* The change just cached is announced.                                     *)
ONotify(p) ==
  /\ outbound[p] = "notify"
  /\ wire' = Exchange(p, FALSE, <<ClipboardChanged(cache[p])>>)
  /\ outbound' = [outbound EXCEPT ![p] = "event"]
  /\ UNCHANGED <<clipboard, hashVars, cache, watcherVars, changes,
                 inboundVars, sessionVars, streamVars, copied>>

OEvent(p) ==
  /\ outbound[p] = "event"
  /\ EventRoom(p)
  /\ events' = EventSent(p)
  /\ outbound' = [outbound EXCEPT ![p] = "recv"]
  /\ UNCHANGED <<clipboard, hashVars, cache, watcherVars, changes,
                 inboundVars, running, wire, streamVars, copied>>

(* The task ends when the watcher is gone, or the notification cannot be    *)
(* written.                                                                 *)
OEnd(p) ==
  /\ \/ outbound[p] = "recv" /\ changes[p] = <<>> /\ watcher[p] = "ended"
     \/ outbound[p] = "notify" /\ (lost \/ ~open[Other(p)])
  /\ outbound' = [outbound EXCEPT ![p] = "ended"]
  /\ changes' = [changes EXCEPT ![p] = <<>>]
  /\ UNCHANGED <<clipboard, hashVars, cache, watcherVars, inboundVars,
                 sessionVars, wire, streamVars, copied>>

-----------------------------------------------------------------------------
(* The inbound task                                                         *)

\* Mutant: the inner loop handles what the outer loop handles.
InOuterLoop_or_inner(p) == inbound[p] \in {"read", "await"}

(* Notifications and requests are handled by the outer loop only.           *)
InOuterLoop(p) == inbound[p] = "read"

\* Mutant: the inner loop does not notice a read error.
Reading_outer(p) == inbound[p] = "read"

(* Both loops read frames.                                                  *)
Reading(p) == inbound[p] \in {"read", "await"}

(* ClipboardChanged: ask for the content and wait for it in a loop of its   *)
(* own.                                                                     *)
IChanged(p) ==
  /\ InOuterLoop(p)
  /\ Arrived(p, "ClipboardChanged")
  /\ announced' = [announced EXCEPT ![p] = Head(wire[p]).content_type]
  /\ wire' = Exchange(p, TRUE, <<ClipboardRequest>>)
  /\ inbound' = [inbound EXCEPT ![p] = "await"]
  /\ UNCHANGED <<clipboard, hashVars, cache, watcherVars, changes, outbound,
                 incoming, sessionVars, streamVars, copied>>

(* ClipboardRequest: the answer is the cached content, else what is on the  *)
(* clipboard, else a negative acknowledgement.                              *)
Answer(p) == IF cache[p] # NoContent THEN cache[p] ELSE clipboard[p]

\* Mutant: the answer is moved out of the cache.
IRequest_takes(p) ==
  /\ InOuterLoop(p)
  /\ Arrived(p, "ClipboardRequest")
  /\ wire' = Exchange(p, TRUE, <<IF Answer(p) # NoContent
                                 THEN ClipboardData(Answer(p))
                                 ELSE ClipboardAck>>)
  /\ cache' = [cache EXCEPT ![p] = NoContent]
  /\ UNCHANGED <<clipboard, hashVars, watcherVars, changes, outbound,
                 inboundVars, sessionVars, streamVars, copied>>

IRequest(p) ==
  /\ InOuterLoop(p)
  /\ Arrived(p, "ClipboardRequest")
  /\ wire' = Exchange(p, TRUE, <<IF Answer(p) # NoContent
                                 THEN ClipboardData(Answer(p))
                                 ELSE ClipboardAck>>)
  /\ UNCHANGED <<clipboard, hashVars, cache, watcherVars, changes, outbound,
                 inboundVars, sessionVars, streamVars, copied>>

\* Mutant: the outer loop does not know requests.
Skipped_request(p, type) ==
  IF inbound[p] = "await" THEN type # "ClipboardData"
  ELSE type # "ClipboardChanged"

(* Every other frame is skipped, in the inner loop also the notifications   *)
(* and the requests of the peer.                                            *)
Skipped(p, type) ==
  IF inbound[p] = "await" THEN type # "ClipboardData"
  ELSE type \notin {"ClipboardChanged", "ClipboardRequest"}

ISkip(p) ==
  /\ Reading(p)
  /\ wire[p] # <<>>
  /\ Skipped(p, Head(wire[p]).type)
  /\ wire' = Exchange(p, TRUE, <<>>)
  /\ UNCHANGED <<clipboard, hashVars, cache, watcherVars, changes, outbound,
                 inboundVars, sessionVars, streamVars, copied>>

(* What the watcher is told to be the last known hash: that of the content  *)
(* about to be written.                                                     *)
ToldWatcher(p, content) == hash(content)

(* ClipboardData, decoded.  Both hashes are set before the clipboard is     *)
(* written; a poll may fall in between.                                     *)
IData(p) ==
  /\ inbound[p] = "await"
  /\ Arrived(p, "ClipboardData")
  /\ "overlap" \in Faults \/ watcher[p] # "compare"
  /\ LET content == from_bytes(announced[p], Head(wire[p]).data) IN
       /\ content # NoContent
       /\ last_hash' = [last_hash EXCEPT ![p] = ToldWatcher(p, content)]
       /\ last_remote_hash' = [last_remote_hash EXCEPT ![p] = hash(content)]
       /\ incoming' = [incoming EXCEPT ![p] = content]
  /\ wire' = Exchange(p, TRUE, <<>>)
  /\ inbound' = [inbound EXCEPT ![p] = "write"]
  /\ UNCHANGED <<clipboard, cache, watcherVars, changes, outbound, announced,
                 sessionVars, streamVars, copied>>

(* ClipboardData that cannot be decoded is acknowledged all the same.       *)
IDataInvalid(p) ==
  /\ inbound[p] = "await"
  /\ Arrived(p, "ClipboardData")
  /\ from_bytes(announced[p], Head(wire[p]).data) = NoContent
  /\ wire' = Exchange(p, TRUE, <<ClipboardAck>>)
  /\ inbound' = [inbound EXCEPT ![p] = "read"]
  /\ UNCHANGED <<clipboard, hashVars, cache, watcherVars, changes, outbound,
                 announced, incoming, sessionVars, streamVars, copied>>

(* write_and_wait succeeds.  On Linux an image is handed to a holder        *)
(* process: the call succeeds even if the holder cannot decode it.          *)
IWrite(p) ==
  /\ inbound[p] = "write"
  /\ clipboard' = [clipboard EXCEPT ![p] =
                     IF Decodable(incoming[p]) THEN incoming[p] ELSE @]
  /\ inbound' = [inbound EXCEPT ![p] = "event"]
  /\ UNCHANGED <<hashVars, cache, watcherVars, changes, outbound, announced,
                 incoming, sessionVars, wire, streamVars, copied>>

(* write_and_wait fails: a warning, and the same acknowledgement.           *)
IWriteFails(p) ==
  /\ inbound[p] = "write"
  /\ "write" \in Faults \/ ~Decodable(incoming[p])
  /\ wire' = Exchange(p, FALSE, <<ClipboardAck>>)
  /\ incoming' = [incoming EXCEPT ![p] = NoContent]
  /\ inbound' = [inbound EXCEPT ![p] = "read"]
  /\ UNCHANGED <<clipboard, hashVars, cache, watcherVars, changes, outbound,
                 announced, sessionVars, streamVars, copied>>

IEvent(p) ==
  /\ inbound[p] = "event"
  /\ EventRoom(p)
  /\ events' = EventSent(p)
  /\ wire' = Exchange(p, FALSE, <<ClipboardAck>>)
  /\ incoming' = [incoming EXCEPT ![p] = NoContent]
  /\ inbound' = [inbound EXCEPT ![p] = "read"]
  /\ UNCHANGED <<clipboard, hashVars, cache, watcherVars, changes, outbound,
                 announced, running, streamVars, copied>>

(* read_frame fails in either loop: the connection is lost, or the peer's   *)
(* end is closed and everything it wrote has been read.                     *)
IReadFails(p) ==
  /\ Reading(p)
  /\ lost \/ (~open[Other(p)] /\ wire[p] = <<>>)
  /\ inbound' = [inbound EXCEPT ![p] = "ended"]
  /\ UNCHANGED <<clipboard, hashVars, cache, watcherVars, changes, outbound,
                 announced, incoming, sessionVars, wire, streamVars, copied>>

-----------------------------------------------------------------------------
(* run()                                                                    *)

(* select!: a task has ended.  The other one is detached, not stopped.      *)
RunReturns(p) ==
  /\ running[p]
  /\ "ended" \in {outbound[p], inbound[p]}
  /\ running' = [running EXCEPT ![p] = FALSE]
  /\ UNCHANGED <<clipboard, hashVars, cache, watcherVars, changes, outbound,
                 inboundVars, events, wire, streamVars, copied>>

(* select!: shutdown() was called or its sender dropped; or the task that   *)
(* awaits run() is aborted.  Both tasks are detached.                       *)
Stop(p) ==
  /\ "stop" \in Faults
  /\ running[p]
  /\ running' = [running EXCEPT ![p] = FALSE]
  /\ UNCHANGED <<clipboard, hashVars, cache, watcherVars, changes, outbound,
                 inboundVars, events, wire, streamVars, copied>>

(* The stream is closed when neither run() nor a task holds a half of it.   *)
StreamDropped(p) ==
  /\ open[p]
  /\ ~running[p] /\ outbound[p] = "ended" /\ inbound[p] = "ended"
  /\ open' = [open EXCEPT ![p] = FALSE]
  /\ UNCHANGED <<clipboard, hashVars, cache, watcherVars, changes, outbound,
                 inboundVars, sessionVars, wire, lost, copied>>

(* The process may end once run() has returned: its tasks are gone.         *)
Exit(p) ==
  /\ open[p]
  /\ ~running[p]
  /\ open' = [open EXCEPT ![p] = FALSE]
  /\ watcher' = [watcher EXCEPT ![p] = "ended"]
  /\ outbound' = [outbound EXCEPT ![p] = "ended"]
  /\ inbound' = [inbound EXCEPT ![p] = "ended"]
  /\ UNCHANGED <<clipboard, hashVars, cache, polled, changes, announced,
                 incoming, sessionVars, wire, lost, copied>>

(* The network drops the connection.                                        *)
ConnectionLost ==
  /\ "loss" \in Faults
  /\ ~lost
  /\ lost' = TRUE
  /\ UNCHANGED <<clipboard, hashVars, cache, watcherVars, changes, outbound,
                 inboundVars, sessionVars, wire, open, copied>>

WatcherRuns(p) == WRead(p) \/ WCompare(p) \/ WSend(p) \/ WEnd(p)

OutboundRuns(p) == OTake(p) \/ ONotify(p) \/ OEvent(p) \/ OEnd(p)

InboundRuns(p) ==
  \/ IChanged(p) \/ IRequest(p) \/ ISkip(p) \/ IData(p) \/ IDataInvalid(p)
  \/ IWrite(p) \/ IWriteFails(p) \/ IEvent(p) \/ IReadFails(p)

Next ==
  \/ \E p \in Peer :
       \/ \E content \in Content : UserCopies(p, content)
       \/ WatcherRuns(p) \/ OutboundRuns(p) \/ InboundRuns(p)
       \/ RunReturns(p) \/ Stop(p) \/ StreamDropped(p) \/ Exit(p)
  \/ ConnectionLost

Spec == Init /\ [][Next]_vars

(* The runtime runs every task that can run, and a poll timer fires.  A     *)
(* watcher that is stopped gets the message: its select! finds the stop     *)
(* channel ready at once and the timer only after 500 ms.                   *)
Fairness ==
  \A p \in Peer :
    /\ WF_vars(WatcherRuns(p))
    /\ SF_vars(WEnd(p))
    /\ WF_vars(OutboundRuns(p))
    /\ WF_vars(InboundRuns(p))
    /\ WF_vars(RunReturns(p))
    /\ WF_vars(StreamDropped(p))

FairSpec == Spec /\ Fairness

-----------------------------------------------------------------------------

(* Every variable has its type.                                             *)
TypeOK ==
  /\ clipboard \in [Peer -> Content \cup {NoContent}]
  /\ last_hash \in [Peer -> Bytes \cup {NoHash}]
  /\ last_remote_hash \in [Peer -> Bytes \cup {NoHash}]
  /\ cache \in [Peer -> Content \cup {NoContent}]
  /\ watcher \in [Peer -> {"sleep", "compare", "send", "ended"}]
  /\ polled \in [Peer -> Content \cup {NoContent}]
  /\ \A p \in Peer : watcher[p] \in {"compare", "send"} => polled[p] \in Content
  /\ changes \in [Peer -> Seq(Content)]
  /\ outbound \in [Peer -> {"recv", "notify", "event", "ended"}]
  /\ inbound \in [Peer -> {"read", "await", "write", "event", "ended"}]
  /\ announced \in [Peer -> ContentType]
  /\ incoming \in [Peer -> Content \cup {NoContent}
                          \cup [content_type : {"ImagePng"}, data : Texts]]
  /\ events \in [Peer -> 0..EventCap]
  /\ running \in [Peer -> BOOLEAN]
  /\ wire \in [Peer -> Seq(Frame)]
  /\ open \in [Peer -> BOOLEAN]
  /\ lost \in BOOLEAN
  /\ copied \in [Peer -> Seq(Content)]

(* Request and answer stay paired without any sequence number: a request is *)
(* unread or its answer is, never both and never two of them, and only      *)
(* while the requester's inner loop waits.  So no answer is ever taken for  *)
(* that of another request, and none is skipped by the outer loop.          *)
OneRequestOutstanding ==
  \A p \in Peer :
    /\ AtMostOne(wire[Other(p)], "ClipboardRequest")
    /\ AtMostOne(wire[p], "ClipboardData")
    /\ ~ /\ Has(wire[Other(p)], "ClipboardRequest")
         /\ Has(wire[p], "ClipboardData")
    /\ Has(wire[Other(p)], "ClipboardRequest") \/ Has(wire[p], "ClipboardData")
         => inbound[p] \in {"await", "ended"}

(* What is announced is cached, from before the notification is written     *)
(* until the request for it is answered.  So a request always finds the     *)
(* cache filled, and never gets the negative acknowledgement, which the     *)
(* requester's inner loop would skip, waiting for ever.                     *)
RequestFindsCache ==
  \A p \in Peer :
    (\/ outbound[p] = "notify"
     \/ Has(wire[Other(p)], "ClipboardChanged")
     \/ Has(wire[p], "ClipboardRequest"))
      => cache[p] # NoContent

(* What was on a clipboard at the start, or was copied by a user.           *)
UserCopied ==
  {content \in Content :
     \E p \in Peer : \E k \in DOMAIN copied[p] : copied[p][k] = content}
Shown == Start \cup UserCopied

(* No clipboard ever holds anything but what some user has put on one,      *)
(* under the type it was copied with.  The type travels in the notification *)
(* and the bytes in a later answer, which is whatever the cache then holds: *)
(* when the type has changed in between they do not belong together.        *)
OnlyCopiedContent == \A p \in Peer : clipboard[p] \in Shown

(* A fetch comes to an end: inbound does not wait for ever for the content  *)
(* it has asked for.  This is for one user who copies, with polls that do   *)
(* not overlap updates: two inner loops that wait skip each other's request *)
(* (ClipboardsConverge), and a change detected by mistake is announced too. *)
RequestEnds == \A p \in Peer : []<>(inbound[p] # "await")

Broken == lost \/ \E p \in Peer : ~open[p] \/ ~running[p]

(* Once the users have copied their last, both clipboards become and stay   *)
(* the same, unless the session ends before.  It is not so when both copy   *)
(* at once.                                                                 *)
AllCopied == \A p \in Peer : Len(copied[p]) = MaxCopies[p]
ClipboardsConverge ==
  []<>AllCopied => \/ <>[](clipboard[Host] = clipboard[Joiner])
                  \/ []<>Broken

(* While the other user copies nothing, the last copy of a user comes to    *)
(* both clipboards and stays there, unless the session ends before, however *)
(* many copies were made while earlier ones were fetched.                   *)
LastCopyOnBoth(p) ==
  /\ copied[p] # <<>>
  /\ \A q \in Peer : clipboard[q] = copied[p][Len(copied[p])]
LastCopyArrives ==
  \A p \in Peer :
    MaxCopies[p] > 0 =>
      ([](copied[Other(p)] = <<>>) /\ []<>(Len(copied[p]) = MaxCopies[p])
         => <>[]LastCopyOnBoth(p) \/ []<>Broken)

(* A runner that loses its peer, with or without an orderly close, returns  *)
(* from run(); and it then closes its own end, so that neither side is left *)
(* behind.                                                                  *)
LossEndsRun ==
  \A p \in Peer :
    []<>(lost \/ ~open[Other(p)]) => []<>(~running[p] /\ ~open[p])

=============================================================================
