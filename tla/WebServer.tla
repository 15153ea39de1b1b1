------------------------------ MODULE WebServer ------------------------------
(***************************************************************************)
(* The web server (crates/yoop-core/src/web): HTTP handlers that run       *)
(* concurrently over the fields of AppState, each field behind a lock of   *)
(* its own that is held for one statement only.  A step is what happens    *)
(* between two awaits.                                                     *)
(*                                                                         *)
(* A request also names the session it creates and the background task it  *)
(* spawns: spawning is the last thing a handler does, so its pc goes on as *)
(* that of the task.  The progress channel is a watch channel, that is a   *)
(* value under a blocking lock: who waits for it keeps a worker thread.    *)
(*                                                                         *)
(* The sessions are ShareSession and ReceiveSession, modelled in modules   *)
(* of these names: here they publish progress and end, well or not.        *)
(***************************************************************************)
EXTENDS Naturals, Sequences, FiniteSets

CONSTANTS
  Request,      \* what clients and the user may do, a name for each
  Scripts,      \* which endpoint each of them is for, in a behaviour, or none
  Workers,      \* worker threads of the runtime
  MaxInFlight,  \* bound: requests that may be in flight at once
  None          \* no session, no value

(* The event stream is a request that is not answered before the browser    *)
(* closes it; ctrl_c is the signal that stops the server.                   *)
Endpoint ==
  {"create_share", "cancel_share", "get_share_code", "start_receive",
   "accept_receive", "decline_receive", "download_received", "get_status",
   "progress_sse", "ctrl_c"}

ASSUME WebAssumption ==
  /\ Scripts \subseteq [Request -> Endpoint \cup {None}]
  /\ None \notin Request
  /\ Workers \in Nat \ {0}
  /\ MaxInFlight \in Nat \ {0}

VARIABLES
  app,  \* AppState, and whether WebServer::start has not returned yet
  req,  \* op, pc, the session it has in its hands, whether it is answered;
        \* of accept_receive: whose files and directory it passes to its task
  ses,  \* of each session: its fate, its last progress, whether kept alive
  fwd   \* of each task that forwards progress: what it does or has in its
        \* hands, its session, whether that has news for it, whether aborted;
        \* of an event stream: whether the progress channel has news

vars == <<app, req, ses, fwd>>

(* What a session last published: Waiting, Connected and Transferring are   *)
(* all Active.                                                              *)
Published == {"Preparing", "Active", "Completed", "Cancelled"}

(* reset_to_idle writes six fields one after the other; `progress' is the   *)
(* last.                                                                    *)
ResetSteps ==
  <<"mode", "share_code", "active_share", "pending_receive",
    "active_receive", "progress">>

Pc ==
  {"unsent", "check", "look", "new", "setSharing", "setShare", "observe",
   "take", "wait", "setReceiving", "setPending", "keepAlive", "takePending",
   "setTransferring", "setReceive", "takeReceive", "refuse", "stream", "stop",
   "markOk", "markErr", "idleOk", "idleErr", "complete", "abort", "stuck",
   "done"} \cup {ResetSteps[i] : i \in DOMAIN ResetSteps}

(* A field holds sessions of its own kind only.                             *)
Asked(endpoint) == {r \in Request : req[r].op = endpoint} \cup {None}

TypeOK ==
  /\ app \in [mode : {"Idle", "Sharing", "Receiving", "Transferring"},
              share_code : Asked("create_share"),
              active_share : Asked("create_share"),
              pending_receive : Asked("start_receive"),
              active_receive : Asked("start_receive"),
              completed_receive : Asked("start_receive"),
              progress : Published \cup {None},
              running : BOOLEAN]
  /\ req \in [Request -> [op : Endpoint \cup {None}, pc : Pc, held : Request \cup {None},
                          files : Request \cup {None}, answered : BOOLEAN]]
  /\ ses \in [Request -> [state : {"none", "open", "ok", "failed", "refused",
                                   "dropped"},
                          published : Published, kept : BOOLEAN]]
  /\ fwd \in [Request -> [task : {"none", "waiting", "stuck", "stopped"}
                                   \cup Published,
                          source : Request \cup {None}, news : BOOLEAN,
                          aborted : BOOLEAN]]

Init ==
  /\ app = [mode |-> "Idle", share_code |-> None, active_share |-> None,
            pending_receive |-> None, active_receive |-> None,
            completed_receive |-> None, progress |-> None, running |-> TRUE]
  /\ \E script \in Scripts :
       req = [r \in Request |-> [op |-> script[r], pc |-> "unsent",
                                 held |-> None, files |-> None,
                                 answered |-> FALSE]]
  /\ ses = [r \in Request |-> [state |-> "none", published |-> "Preparing",
                               kept |-> FALSE]]
  /\ fwd = [r \in Request |-> [task |-> "none", source |-> None,
                               news |-> FALSE, aborted |-> FALSE]]

-----------------------------------------------------------------------------
(* Blocking.  mark_complete and mark_failed send while the guard of         *)
(* borrow() still holds the channel's lock, so they wait for themselves;    *)
(* from then on everybody who wants that lock waits too, on its thread.     *)
Blocked == {r \in Request : req[r].pc = "stuck"}
BlockedForwarders == {r \in Request : fwd[r].task = "stuck"}
ChannelBlocked == Blocked \cup BlockedForwarders # {}
Runnable ==
  /\ app.running
  /\ Cardinality(Blocked) + Cardinality(BlockedForwarders) < Workers

At(r, pc) == Runnable /\ req[r].pc = pc

Step(r, from, to) ==
  /\ At(r, from)
  /\ req' = [req EXCEPT ![r].pc = to]

StepWith(r, from, to, session) ==
  /\ At(r, from)
  /\ req' = [req EXCEPT ![r].pc = to, ![r].held = session]

(* A handler returns, or spawns its task and returns.                       *)
Answer(r, from, to) ==
  /\ At(r, from)
  /\ req' = [req EXCEPT ![r].pc = to, ![r].answered = TRUE, ![r].held = None]

Return(r, from) == Answer(r, from, "done")

InFlight == {r \in Request : req[r].pc # "unsent" /\ ~req[r].answered}
Stopping == \E r \in Request : req[r].op = "ctrl_c" /\ req[r].pc # "unsent"

(* Session s publishes its state; news for the tasks that forward it.       *)
Publish(s, state, fate) ==
  /\ ses' = [ses EXCEPT ![s].published = state, ![s].state = fate]
  /\ fwd' = [r \in Request |->
               [fwd[r] EXCEPT !.news = @ \/ fwd[r].source = s]]

(* Sending on the progress channel: news for the event streams.             *)
SendProgress(value) ==
  /\ ~ChannelBlocked
  /\ app' = [app EXCEPT !.progress = value]

StreamsHaveNews(f) ==
  [r \in Request |-> [f[r] EXCEPT !.news = @ \/ req[r].op = "progress_sse"]]

(* take() leaves None in the field.                                         *)
\* Mutant: a handle of the session stays in the field.
Taken_keeps(field) == app[field]
Taken(field) == None

(* A session whose field is overwritten is dropped.                         *)
Overwrite(field, value) ==
  /\ app' = [app EXCEPT ![field] = value]
  /\ ses' = [s \in Request |->
               IF field \in {"active_share", "pending_receive", "active_receive"}
                    /\ s = app[field] /\ ses[s].state = "open"
               THEN [ses[s] EXCEPT !.state = "dropped"]
               ELSE ses[s]]

-----------------------------------------------------------------------------
(* Requests.                                                                *)

SendRequest(r) ==
  /\ ~Stopping /\ Runnable
  /\ req[r].pc = "unsent" /\ req[r].op # None
  /\ Cardinality(InFlight) < MaxInFlight
  /\ req' = [req EXCEPT ![r].pc =
              CASE req[r].op \in {"get_share_code", "download_received"} -> "look"
                [] req[r].op = "progress_sse" -> "stream"
                [] req[r].op = "ctrl_c" -> "stop"
                [] OTHER -> "check"]
  /\ UNCHANGED <<app, ses, fwd>>

(* The mode a handler demands, and where it goes on when it finds it.  The  *)
(* lock is released before anything else happens.                           *)
Demand(op) ==
  CASE op \in {"create_share", "start_receive"} -> "Idle"
    [] op = "cancel_share" -> "Sharing"
    [] op \in {"accept_receive", "decline_receive"} -> "Receiving"
    [] op = "get_status" -> app.mode

First(op) ==
  CASE op \in {"create_share", "start_receive"} -> "new"
    [] op \in {"cancel_share", "decline_receive"} -> "refuse"
    [] op = "accept_receive" -> "takePending"
    [] op = "get_status" -> "look"

\* Mutant: a handler waits for the mode it needs.
Conflict_never(r) == FALSE
Conflict(r) == app.mode # Demand(req[r].op)

CheckMode(r) ==
  /\ At(r, "check")
  /\ \/ /\ Conflict(r)
        /\ Return(r, "check")
     \/ /\ app.mode = Demand(req[r].op)
        /\ Step(r, "check", First(req[r].op))
  /\ UNCHANGED <<app, ses, fwd>>

(* get_status and get_share_code look at a field and answer.                *)
Look(r) ==
  /\ req[r].op \in {"get_status", "get_share_code"}
  /\ Return(r, "look")
  /\ UNCHANGED <<app, ses, fwd>>

(* The result of a receive is taken, whatever becomes of the download.      *)
download_received(r) ==
  /\ req[r].op = "download_received"
  /\ Return(r, "look")
  /\ app' = [app EXCEPT !.completed_receive = None]
  /\ UNCHANGED <<ses, fwd>>

(* The code a new session leaves in share_code.                             *)
CodeAfter(r) == IF req[r].op = "create_share" THEN r ELSE app.share_code

(* ShareSession::new after the upload, or ReceiveSession::connect: either   *)
(* may fail, and nothing bounds how long they take (only the discovery has  *)
(* a timeout, not the TLS handshake nor the reads of connect).              *)
NewSession(r) ==
  /\ \/ /\ StepWith(r, "new", IF req[r].op = "create_share" THEN "setSharing"
                              ELSE "setReceiving", r)
        /\ app' = [app EXCEPT !.share_code = CodeAfter(r)]
        /\ ses' = [ses EXCEPT ![r].state = "open"]
     \/ /\ Return(r, "new")
        /\ UNCHANGED <<app, ses>>
  /\ UNCHANGED fwd

SetMode(r, from, mode, to) ==
  /\ Step(r, from, to)
  /\ app' = [app EXCEPT !.mode = mode]
  /\ UNCHANGED <<ses, fwd>>

(* The session is stored; create_share and accept_receive spawn their task  *)
(* then and answer.                                                         *)
StoreShare(r) ==
  /\ Answer(r, "setShare", "observe")
  /\ Overwrite("active_share", req[r].held)
  /\ UNCHANGED fwd

StorePending(r) ==
  /\ StepWith(r, "setPending", "keepAlive", None)
  /\ Overwrite("pending_receive", req[r].held)
  /\ UNCHANGED fwd

StoreReceive(r) ==
  /\ Answer(r, "setReceive", "takeReceive")
  /\ Overwrite("active_receive", req[r].held)
  /\ UNCHANGED fwd

(* start_receive locks the field a second time: it starts the keep-alive of *)
(* the session the field holds by then.                                     *)
\* Mutant: the field is empty already, as after a take.
KeptBy_none(s) == FALSE
KeptBy(s) == s = app.pending_receive

StartKeepAlive(r) ==
  /\ Return(r, "keepAlive")
  /\ ses' = [s \in Request |-> [ses[s] EXCEPT !.kept = @ \/ KeptBy(s)]]
  /\ UNCHANGED <<app, fwd>>

(* accept_receive notes the files and the directory of what it takes.       *)
TakePending(r) ==
  LET s == app.pending_receive
  IN /\ IF s = None THEN Return(r, "takePending")
        ELSE /\ At(r, "takePending")
             /\ req' = [req EXCEPT ![r].pc = "setTransferring",
                                   ![r].held = s, ![r].files = s]
     /\ app' = [app EXCEPT !.pending_receive = Taken("pending_receive")]
     /\ UNCHANGED <<ses, fwd>>

(* cancel_share and decline_receive take the session and end it.  wait()    *)
(* runs on a session that has left its field: nothing is cancelled then.    *)
Refuse(r) ==
  LET field == IF req[r].op = "cancel_share" THEN "active_share"
               ELSE "pending_receive"
  IN /\ Step(r, "refuse", ResetSteps[1])
     /\ app' = [app EXCEPT ![field] = Taken(field)]
     /\ IF app[field] # None THEN Publish(app[field], "Cancelled", "refused")
        ELSE UNCHANGED <<ses, fwd>>

(* reset_to_idle, one statement at a time, whatever the fields hold by now. *)
ResetField(r) ==
  /\ \E i \in 1 .. 5 :
       /\ Step(r, ResetSteps[i], ResetSteps[i + 1])
       /\ Overwrite(ResetSteps[i],
                    IF ResetSteps[i] = "mode" THEN "Idle" ELSE None)
  /\ UNCHANGED fwd

(* The last statement sends None; the handler, if it is one, returns.       *)
ResetProgress(r) ==
  /\ \/ /\ Return(r, "progress")
        /\ SendProgress(None)
        /\ fwd' = StreamsHaveNews(fwd)
     \/ /\ Step(r, "progress", "stuck")
        /\ ChannelBlocked
        /\ UNCHANGED <<app, fwd>>
  /\ UNCHANGED ses

-----------------------------------------------------------------------------
(* The background tasks: share_wait_task and receive_transfer_task.         *)

(* A task that forwards the progress of session s.                          *)
Forward(r, s) ==
  fwd' = [fwd EXCEPT ![r].task = "waiting", ![r].source = s,
                     ![r].news = ses[s].published # "Preparing"]

(* share_wait_task looks at the session for its progress channel...         *)
ObserveShare(r) ==
  /\ IF app.active_share = None
     THEN Step(r, "observe", "done") /\ UNCHANGED fwd
     ELSE Step(r, "observe", "take") /\ Forward(r, app.active_share)
  /\ UNCHANGED <<app, ses>>

(* ... and takes it in a second visit; wait() publishes Waiting at once.    *)
AfterTake(s) == IF s = None THEN "abort" ELSE "wait"

TakeShare(r) ==
  LET s == app.active_share
  IN /\ StepWith(r, "take", AfterTake(s), s)
     /\ app' = [app EXCEPT !.active_share = Taken("active_share")]
     /\ IF s # None THEN Publish(s, "Active", ses[s].state)
        ELSE UNCHANGED <<ses, fwd>>

(* The task takes what the field holds by now, maybe the session of another *)
(* accept_receive.  Somebody may have cleared the field since it was        *)
(* stored: then the task returns, and the mode stays as it is.              *)
TakeReceive(r) ==
  LET s == app.active_receive
  IN /\ StepWith(r, "takeReceive", IF s = None THEN "done" ELSE "wait", s)
     /\ app' = [app EXCEPT !.active_receive = Taken("active_receive")]
     /\ IF s # None THEN Forward(r, s) ELSE UNCHANGED fwd
     /\ UNCHANGED ses

(* The session runs, in wait() or accept(), and ends.  Bound: it publishes  *)
(* Active once.  A share the peer rejects publishes Cancelled, other        *)
(* failures publish nothing.                                                *)
SessionRuns(r) ==
  LET s == req[r].held
  IN /\ At(r, "wait")
     /\ ses[s].published # "Active"
     /\ Publish(s, "Active", ses[s].state)
     /\ UNCHANGED <<app, req>>

SessionCompletes(r) ==
  /\ Step(r, "wait", "markOk")
  /\ Publish(req[r].held, "Completed", "ok")
  /\ UNCHANGED app

SessionFails(r) ==
  LET s == req[r].held
  IN /\ Step(r, "wait", "markErr")
     /\ \/ /\ req[r].op = "create_share"
           /\ Publish(s, "Cancelled", "failed")
        \/ /\ ses' = [ses EXCEPT ![s].state = "failed"]
           /\ UNCHANGED fwd
     /\ UNCHANGED app

(* mark_complete and mark_failed: with a value in the channel the send      *)
(* never returns, without one there is nothing to send.                     *)
Mark(r) ==
  /\ \E from \in {"markOk", "markErr"} :
       Step(r, from, IF app.progress # None \/ ChannelBlocked THEN "stuck"
                     ELSE IF from = "markOk" THEN "idleOk" ELSE "idleErr")
  /\ UNCHANGED <<app, ses, fwd>>

(* Both set the mode to Idle last.  A receive that went well is stored for  *)
(* download then.                                                           *)
\* Mutant: what a failed receive has left is offered too.
Stored_always(r, from) == req[r].op = "accept_receive"
Stored(r, from) == req[r].op = "accept_receive" /\ from = "idleOk"

MarkIdle(r) ==
  /\ \E from \in {"idleOk", "idleErr"} :
       Step(r, from, IF Stored(r, from) THEN "complete" ELSE "abort")
  /\ app' = [app EXCEPT !.mode = "Idle"]
  /\ UNCHANGED <<ses, fwd>>

(* What is stored are the files and the directory the task was passed.      *)
StoreCompleted(r) ==
  /\ Step(r, "complete", "abort")
  /\ app' = [app EXCEPT !.completed_receive = req[r].files]
  /\ UNCHANGED <<ses, fwd>>

(* abort() ends the forwarder at its next await: one that has a value in    *)
(* its hands still sends it.                                                *)
AbortForwarder(r) ==
  /\ Step(r, "abort", IF req[r].op = "create_share" THEN ResetSteps[1] ELSE "done")
  /\ fwd' = [fwd EXCEPT ![r].aborted = TRUE]
  /\ UNCHANGED <<app, ses>>

-----------------------------------------------------------------------------
(* Forwarders, event streams and the end of the server.                     *)

FwdRead(r) ==
  /\ Runnable
  /\ fwd[r].task = "waiting" /\ fwd[r].news /\ ~fwd[r].aborted
  /\ fwd' = [fwd EXCEPT ![r].task = ses[fwd[r].source].published,
                        ![r].news = FALSE]
  /\ UNCHANGED <<app, req, ses>>

FwdSend(r) ==
  /\ Runnable
  /\ fwd[r].task \in Published
  /\ \/ /\ SendProgress(fwd[r].task)
        /\ fwd' = StreamsHaveNews([fwd EXCEPT ![r].task = "waiting"])
     \/ /\ ChannelBlocked
        /\ fwd' = [fwd EXCEPT ![r].task = "stuck"]
        /\ UNCHANGED app
  /\ UNCHANGED <<req, ses>>

FwdStop(r) ==
  /\ Runnable
  /\ fwd[r].task = "waiting" /\ fwd[r].aborted
  /\ fwd' = [fwd EXCEPT ![r].task = "stopped"]
  /\ UNCHANGED <<app, req, ses>>

(* A new stream has not seen what was sent before.  Every change is an      *)
(* event, but the reset to None, which is skipped.                          *)
StreamEvent(r) ==
  /\ fwd[r].news
  /\ Step(r, "stream", IF ChannelBlocked THEN "stuck" ELSE "stream")
  /\ fwd' = [fwd EXCEPT ![r].news = FALSE]
  /\ UNCHANGED <<app, ses>>

StreamClose(r) ==
  /\ Return(r, "stream")
  /\ UNCHANGED <<app, ses, fwd>>

(* WebServer::start returns once it has been told to stop and every other   *)
(* request has been answered; the process ends then, whatever its tasks do. *)
ServerReturns(r) ==
  /\ InFlight = {r}
  /\ Return(r, "stop")
  /\ app' = [app EXCEPT !.running = FALSE]
  /\ UNCHANGED <<ses, fwd>>

Handler(r) ==
  \/ CheckMode(r) \/ Look(r) \/ download_received(r)
  \/ SetMode(r, "setSharing", "Sharing", "setShare")
  \/ SetMode(r, "setReceiving", "Receiving", "setPending")
  \/ SetMode(r, "setTransferring", "Transferring", "setReceive")
  \/ StoreShare(r) \/ StorePending(r) \/ StoreReceive(r)
  \/ StartKeepAlive(r) \/ TakePending(r) \/ Refuse(r)
  \/ ResetField(r) \/ ResetProgress(r)
  \/ StreamEvent(r) \/ ServerReturns(r)

Task(r) ==
  \/ ObserveShare(r) \/ TakeShare(r) \/ TakeReceive(r)
  \/ Mark(r) \/ MarkIdle(r) \/ StoreCompleted(r) \/ AbortForwarder(r)
  \/ FwdRead(r) \/ FwdSend(r) \/ FwdStop(r)

Next ==
  \E r \in Request :
    \/ SendRequest(r) \/ StreamClose(r) \/ NewSession(r)
    \/ Handler(r)
    \/ Task(r)
    \/ SessionRuns(r) \/ SessionCompletes(r) \/ SessionFails(r)

Spec == Init /\ [][Next]_vars

(* The runtime never idles while a handler or a task can go on.  Clients,   *)
(* peers, sessions and the signal to stop come when they like, or never.    *)
(* Nothing in the server goes round for ever, so no task needs a fairness   *)
(* of its own.                                                              *)
FairSpec == Spec /\ WF_vars(\E r \in Request : Handler(r) \/ Task(r))

-----------------------------------------------------------------------------
(* Properties.                                                              *)

(* A session is run by one task only, and nobody finds it in a field        *)
(* meanwhile: requests race for the fields (handlers.rs), but what they     *)
(* take they take out under the lock.                                       *)
SessionRunByOne ==
  \A r \in Request : req[r].pc = "wait" =>
    /\ req[r].held \notin {app.active_share, app.pending_receive, app.active_receive}
    /\ \A q \in Request \ {r} : req[q].pc = "wait" => req[q].held # req[r].held

(* What is offered for download was received completely, though the mode is *)
(* Idle, and the next request admitted, before it is stored: or else the    *)
(* session of a second accept_receive was, run by the task of the first.    *)
CompletedIsReceived ==
  LET c == app.completed_receive IN
  c # None =>
    \/ ses[c].state = "ok"
    \/ \E r, q \in Request :
         /\ r # q /\ req[r].files = c
         /\ req[q].files # None /\ ses[req[q].files].state = "ok"

(* A connection that waits for the user's decision is kept alive once the   *)
(* handlers that start receives have returned, also when two of them have   *)
(* overwritten each other's session.                                        *)
PendingIsKept ==
  \A s \in Request :
    (/\ app.pending_receive = s
     /\ \A r \in Request : req[r].pc # "keepAlive")
    => ses[s].kept

(* Nobody waits for an answer for ever, unless some task waits for the lock *)
(* of the progress channel, or the server stops, or a session is still      *)
(* being made: as often as one looks, no other request is open later on.    *)
RequestsAnswered ==
  []<>(\A r \in Request :
         (req[r].pc # "unsent" /\ req[r].op # "progress_sse" /\ ~Stopping)
           => (req[r].answered \/ ChannelBlocked \/ req[r].pc = "new"))

(* state.rs:215, "Mark transfer as complete": once the transfer has ended,  *)
(* mark_complete or mark_failed returns and the server is idle again.       *)
TransferIsMarked ==
  \A r \in Request :
    req[r].pc \in {"markOk", "markErr"} ~> req[r].pc = "done"

=============================================================================
