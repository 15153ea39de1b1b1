------------------------------ MODULE TuiTasks ------------------------------
(***************************************************************************)
(* The background tasks of the terminal UI (src/crates/yoop-cli/src/tui/   *)
(* app.rs).  App::run polls the channels of the tasks, draws, and handles  *)
(* one key; the handlers start tasks, keep a handle to the one they can    *)
(* cancel, and show a session.  Share, Receive, Clipboard and Sync have    *)
(* each their own fields for this and do not touch each other's, so one    *)
(* set of variables stands for those of the view the user works in.  Tasks *)
(* are numbered in the order they are spawned; 0 is None.  What the        *)
(* sessions do inside is Transfer, ClipboardSync and SyncSession.          *)
(***************************************************************************)
EXTENDS Naturals, Sequences, FiniteSets

CONSTANTS
  Views,      \* the views the user may work in
  MaxTasks,   \* bound: sessions the user starts
  MaxQueue    \* bound: progress events wait only behind fewer than this

ASSUME ViewAssumption == Views \subseteq {"Share", "Receive", "Clipboard", "Sync"}
ASSUME BoundAssumption == MaxTasks \in Nat \ {0} /\ MaxQueue \in Nat \ {0}

Task == 1..MaxTasks
Event == {"Connected", "ConnectionFailed", "TransferProgress", "TransferComplete",
          "TransferFailed", "TransferCancelled", "Done", "SyncHostConnected",
          "Started", "PeerConnected", "Failed"}

VARIABLES
  view,     \* the view the user works in
  turn,     \* App::run polls, waits for a key, or is over
  shown,    \* share, receive, sync: active_session; clipboard: clipboard_sync
  status,   \* receive: active_session.status
  busy,     \* receive: is_connecting; clipboard: operation_in_progress
  handle,   \* the view's session handle
  rx,       \* share_progress_rx, receive_event_rx, sync_host_event_rx
  tx,       \* receive_command_tx
  pc,       \* pc[i]: where task i is
  signal,   \* signal[i]: its cancel_tx was used or dropped
  aborted,  \* aborted[i]: JoinHandle::abort was called
  events,   \* <<task, event>> on their way to the view, oldest first
  command,  \* command[i]: receive commands not yet taken
  forwards  \* forwards[i]: task i's forwarder of progress runs

ui == <<view, shown, status, busy, handle, rx, tx>>
tasks == <<pc, signal, aborted, command, forwards>>
vars == <<turn, events, ui, tasks>>

Init ==
  /\ view \in Views
  /\ turn = "poll"
  /\ shown = 0 /\ busy = 0 /\ handle = 0 /\ rx = 0 /\ tx = 0
  /\ status = "none"
  /\ pc = [i \in Task |-> "unborn"]
  /\ signal = [i \in Task |-> FALSE]
  /\ aborted = [i \in Task |-> FALSE]
  /\ events = <<>>
  /\ command = [i \in Task |-> <<>>]
  /\ forwards = [i \in Task |-> FALSE]

-----------------------------------------------------------------------------
(* Tasks and handles.                                                       *)

Live(i) == pc[i] \notin {"unborn", "done"}
Unborn == {i \in Task : pc[i] = "unborn"}
New == MaxTasks - Cardinality(Unborn) + 1

(* Dropping the handle of a share or a receive drops its cancel_tx, which   *)
(* completes cancel_rx like a signal; other handles only detach the task.   *)
\* Mutant: the task only reacts to a message on cancel_rx.
SignalledByDrop_not(i) == FALSE
SignalledByDrop(i) == i = handle /\ view \in {"Share", "Receive"}
DropHandle == signal' = [i \in Task |-> signal[i] \/ SignalledByDrop(i)]

(* cancel_share, cancel_receive, cancel_clipboard_operation, stop_sync:     *)
(* signal, where there is a channel for it, and abort.                      *)
CancelHandle ==
  /\ DropHandle
  /\ aborted' = [i \in Task |-> aborted[i] \/ i = handle]

Spawn(at) == Unborn # {} /\ pc' = [pc EXCEPT ![New] = at]

(* A send on a channel whose receiver is gone is ignored.  The clipboard's  *)
(* channel is never closed and shared by all its tasks.                     *)
Emit(i, e) ==
  events' = IF rx = i \/ view = "Clipboard" THEN Append(events, <<i, e>>) ELSE events
EmitAndEnd(i, e) ==
  /\ Emit(i, e)
  /\ pc' = [pc EXCEPT ![i] = "done"]
  /\ UNCHANGED <<turn, ui, signal, aborted, command, forwards>>

\* Replacing a receiver drops what is queued for the old one.
CloseRx == events' = <<>> /\ rx' = 0
OpenRx(i) == events' = <<>> /\ rx' = i

Key(v) == turn = "key" /\ view = v /\ turn' = "poll" /\ UNCHANGED view

-----------------------------------------------------------------------------
(* Share.                                                                   *)

(* start_share: Enter also starts one while another is shown.  If the       *)
(* session cannot be made nothing changes.                                  *)
StartShare ==
  /\ Key("Share")
  /\ Spawn("waiting")
  /\ DropHandle
  /\ OpenRx(New)
  /\ shown' = New
  /\ handle' = New
  /\ UNCHANGED <<status, busy, tx, aborted, command, forwards>>

CancelShare ==
  /\ Key("Share")
  /\ shown # 0
  /\ CancelHandle
  /\ shown' = 0 /\ handle' = 0
  /\ CloseRx
  /\ UNCHANGED <<status, busy, tx, pc, command, forwards>>

(* cancel_share, then start_share; if that fails it is CancelShare.         *)
RegenerateCode ==
  /\ Key("Share")
  /\ shown # 0
  /\ CancelHandle
  /\ Spawn("waiting")
  /\ OpenRx(New)
  /\ shown' = New
  /\ handle' = New
  /\ UNCHANGED <<status, busy, tx, command, forwards>>

(* wait() has a new state on the watch channel, of which only the last is   *)
(* kept: the end of the session ("Done") or something before it.            *)
Publish(i, e) == events' = IF rx = i THEN <<<<i, e>>>> ELSE events

ShareProgress(i) ==
  /\ pc[i] = "waiting" /\ view = "Share"
  /\ Publish(i, "TransferProgress")
  /\ UNCHANGED <<turn, ui, tasks>>

(* wait() or, after a signal, cancel() has published the last state.        *)
SharePublishesEnd(i) ==
  /\ pc[i] = "waiting" /\ view = "Share"
  /\ Publish(i, "Done")
  /\ pc' = [pc EXCEPT ![i] = "returned"]
  /\ UNCHANGED <<turn, ui, signal, aborted, command, forwards>>

(* The task drops the session, and with it the channel's sender.  has_changed *)
(* of a closed channel may be an error, and a state not yet seen is then    *)
(* never shown; which of the two is the library's choice.                   *)
SenderDropped(i) == events' \in IF rx = i THEN {events, <<>>} ELSE {events}

ShareReturns(i) ==
  /\ pc[i] = "returned"
  /\ pc' = [pc EXCEPT ![i] = "done"]
  /\ SenderDropped(i)
  /\ UNCHANGED <<turn, ui, signal, aborted, command, forwards>>

(* An error of wait() is not published.                                     *)
ShareFails(i) ==
  /\ pc[i] = "waiting" /\ view = "Share"
  /\ pc' = [pc EXCEPT ![i] = "done"]
  /\ SenderDropped(i)
  /\ UNCHANGED <<turn, ui, signal, aborted, command, forwards>>

-----------------------------------------------------------------------------
(* Receive.                                                                 *)

(* start_receive, connect_with_code or connect_to_trusted_device.  The keys *)
(* for it are mapped only when nothing is going on.                         *)
StartReceive ==
  /\ Key("Receive")
  /\ busy = 0 /\ shown = 0
  /\ Spawn("connecting")
  /\ DropHandle
  /\ OpenRx(New)
  /\ tx' = New /\ handle' = New /\ busy' = New
  /\ UNCHANGED <<shown, status, aborted, command, forwards>>

MayAccept == shown # 0 /\ status = "Pending"

(* accept_transfer: the send fails if the task has ended.                   *)
AcceptTransfer ==
  /\ Key("Receive")
  /\ MayAccept
  /\ status' = "Transferring"
  /\ command' = IF tx # 0 /\ Live(tx) THEN [command EXCEPT ![tx] = Append(@, "Accept")]
                                     ELSE command
  /\ UNCHANGED <<shown, busy, handle, rx, tx, events, pc, signal, aborted, forwards>>

\* Mutant: cleanup_receive_handles forgets is_connecting.
Cleanup_connecting == handle' = 0 /\ tx' = 0 /\ busy' = busy
Cleanup == handle' = 0 /\ tx' = 0 /\ busy' = 0

(* decline_transfer: the cleanup drops cancel_tx right behind the command.  *)
DeclineTransfer ==
  /\ Key("Receive")
  /\ MayAccept
  /\ command' = IF tx # 0 /\ Live(tx) THEN [command EXCEPT ![tx] = Append(@, "Decline")]
                                     ELSE command
  /\ DropHandle
  /\ shown' = 0 /\ status' = "none"
  /\ Cleanup
  /\ CloseRx
  /\ UNCHANGED <<pc, aborted, forwards>>

(* cancel_receive, while connecting and while transferring.                 *)
CancelReceive ==
  /\ Key("Receive")
  /\ busy # 0 /\ (shown = 0 \/ status = "Transferring")
  /\ CancelHandle
  /\ shown' = 0 /\ status' = "none"
  /\ Cleanup
  /\ CloseRx
  /\ UNCHANGED <<pc, command, forwards>>

(* run_receive_task and run_receive_trusted_task.                           *)
Connects(i) ==
  /\ pc[i] = "connecting"
  /\ Emit(i, "Connected")
  /\ pc' = [pc EXCEPT ![i] = "asking"]
  /\ UNCHANGED <<turn, ui, signal, aborted, command, forwards>>

ConnectFails(i) == pc[i] = "connecting" /\ EmitAndEnd(i, "ConnectionFailed")

(* The command arrives, although cancel_rx is looked at first: the signal   *)
(* may follow between the two looks.                                        *)
TakesCommand(i) ==
  /\ pc[i] = "asking" /\ command[i] # <<>>
  /\ pc' = [pc EXCEPT ![i] = IF Head(command[i]) = "Accept" THEN "accepting" ELSE "declining"]
  /\ forwards' = [forwards EXCEPT ![i] = Head(command[i]) = "Accept"]
  /\ command' = [command EXCEPT ![i] = Tail(@)]
  /\ UNCHANGED <<turn, ui, events, signal, aborted>>

\* Mutant: an error of accept() is only logged.
Outcomes_silent == {"TransferComplete", "TransferProgress"}
Outcomes == {"TransferComplete", "TransferFailed"}

AcceptReturns(i) ==
  pc[i] = "accepting" /\ \E e \in Outcomes : EmitAndEnd(i, e)

DeclineReturns(i) == pc[i] = "declining" /\ EmitAndEnd(i, "TransferCancelled")

(* The select! arms of cancel_rx, and a command channel that was closed     *)
(* without a command.                                                       *)
ReceiveCancelled(i) ==
  /\ \/ pc[i] \in {"connecting", "asking", "accepting"} /\ signal[i]
     \/ pc[i] = "asking" /\ tx # i /\ command[i] = <<>>
  /\ EmitAndEnd(i, "TransferCancelled")

(* The forwarder outlives the task by as long as it needs to notice that    *)
(* the session was dropped.                                                 *)
Forward(i) ==
  /\ forwards[i] /\ Len(events) < MaxQueue
  /\ Emit(i, "TransferProgress")
  /\ UNCHANGED <<turn, ui, tasks>>

ForwardEnds(i) ==
  /\ forwards[i]
  /\ forwards' = [forwards EXCEPT ![i] = FALSE]
  /\ UNCHANGED <<turn, ui, events, pc, signal, aborted, command>>

-----------------------------------------------------------------------------
(* Clipboard.                                                               *)

MayOperate == shown = 0 /\ busy = 0

(* share_clipboard, receive_clipboard, and start_clipboard_sync as a host.  *)
StartClipboard ==
  /\ Key("Clipboard")
  /\ MayOperate
  /\ \E at \in {"operating", "hosting"} : Spawn(at)
  /\ DropHandle
  /\ busy' = New /\ handle' = New
  /\ UNCHANGED <<shown, status, rx, tx, events, aborted, command, forwards>>

(* start_clipboard_sync with a code connects before it returns, and keeps   *)
(* no handle of the task it spawns.                                         *)
JoinClipboardSync ==
  /\ Key("Clipboard")
  /\ MayOperate
  /\ Spawn("syncing")
  /\ shown' = New
  /\ UNCHANGED <<status, busy, handle, rx, tx, events, signal, aborted, command, forwards>>

StopClipboardSync ==
  /\ Key("Clipboard")
  /\ shown # 0
  /\ shown' = 0
  /\ UNCHANGED <<status, busy, handle, rx, tx, events, tasks>>

CancelClipboardOperation ==
  /\ Key("Clipboard")
  /\ shown = 0 /\ busy # 0
  /\ CancelHandle
  /\ busy' = 0 /\ handle' = 0
  /\ UNCHANGED <<shown, status, rx, tx, events, pc, command, forwards>>

(* ShareComplete, ShareFailed, ReceiveComplete, ReceiveFailed: "Done".      *)
OperationReturns(i) == pc[i] = "operating" /\ EmitAndEnd(i, "Done")

ClipboardPeerConnects(i) ==
  /\ pc[i] = "hosting" /\ view = "Clipboard"
  /\ Emit(i, "SyncHostConnected")
  /\ pc' = [pc EXCEPT ![i] = "syncing"]
  /\ UNCHANGED <<turn, ui, signal, aborted, command, forwards>>

ClipboardHostFails(i) ==
  pc[i] = "hosting" /\ view = "Clipboard" /\ EmitAndEnd(i, "Done")

-----------------------------------------------------------------------------
(* Sync.                                                                    *)

StartSyncHost ==
  /\ Key("Sync")
  /\ shown = 0
  /\ Spawn("starting")
  /\ DropHandle
  /\ OpenRx(New)
  /\ shown' = New /\ handle' = New
  /\ UNCHANGED <<status, busy, tx, aborted, command, forwards>>

(* join_sync connects before it returns, and keeps no handle.               *)
JoinSync ==
  /\ Key("Sync")
  /\ shown = 0
  /\ Spawn("syncing")
  /\ shown' = New
  /\ UNCHANGED <<status, busy, handle, rx, tx, events, signal, aborted, command, forwards>>

StopSync ==
  /\ Key("Sync")
  /\ shown # 0
  /\ CancelHandle
  /\ shown' = 0 /\ handle' = 0
  /\ CloseRx
  /\ UNCHANGED <<status, busy, tx, pc, command, forwards>>

SyncStarted(i) ==
  /\ pc[i] = "starting"
  /\ Emit(i, "Started")
  /\ pc' = [pc EXCEPT ![i] = "hosting"]
  /\ UNCHANGED <<turn, ui, signal, aborted, command, forwards>>

SyncPeerConnects(i) ==
  /\ pc[i] = "hosting" /\ view = "Sync"
  /\ Emit(i, "PeerConnected")
  /\ pc' = [pc EXCEPT ![i] = "syncing"]
  /\ UNCHANGED <<turn, ui, signal, aborted, command, forwards>>

SyncFails(i) ==
  pc[i] \in {"starting", "hosting"} /\ view = "Sync" /\ EmitAndEnd(i, "Failed")

(* run() of either kind of session returns, and nobody is told.             *)
SyncReturns(i) ==
  /\ pc[i] = "syncing"
  /\ pc' = [pc EXCEPT ![i] = "done"]
  /\ UNCHANGED <<turn, ui, events, signal, aborted, command, forwards>>

-----------------------------------------------------------------------------
(* Every task: an abort takes effect at the next await, and the task may    *)
(* still send what it has before.  "returned" has no await any more.        *)
Aborts(i) ==
  /\ Live(i) /\ aborted[i] /\ pc[i] # "returned"
  /\ pc' = [pc EXCEPT ![i] = "done"]
  /\ IF view = "Share" THEN SenderDropped(i) ELSE events' = events
  /\ UNCHANGED <<turn, ui, signal, aborted, command, forwards>>

-----------------------------------------------------------------------------
(* App::run: poll_share_progress, poll_receive_events,                      *)
(* poll_clipboard_task_results and poll_sync_host_events take what is       *)
(* queued, event by event, before the next key is waited for.               *)

Polls(v, e) ==
  /\ turn = "poll" /\ view = v /\ events # <<>>
  /\ Head(events)[2] = e
  /\ UNCHANGED <<turn, view, tasks>>

PollShareDone ==
  /\ Polls("Share", "Done")
  /\ CloseRx
  /\ shown' = 0
  /\ UNCHANGED <<status, busy, handle, tx>>

(* The clipboard's results clear the handle, whichever task they are of.    *)
PollClipboardDone ==
  /\ Polls("Clipboard", "Done")
  /\ events' = Tail(events)
  /\ handle' = 0 /\ busy' = 0
  /\ UNCHANGED <<shown, status, rx, tx>>

PollSyncHostConnected ==
  /\ Polls("Clipboard", "SyncHostConnected")
  /\ events' = Tail(events)
  /\ handle' = 0 /\ busy' = 0
  /\ shown' = Head(events)[1]
  /\ UNCHANGED <<status, rx, tx>>

PollProgress ==
  /\ \/ Polls("Receive", "TransferProgress")
     \/ Polls("Share", "TransferProgress")
     \/ Polls("Sync", "PeerConnected")
  /\ events' = Tail(events)
  /\ UNCHANGED <<shown, status, busy, handle, rx, tx>>

PollConnected ==
  /\ Polls("Receive", "Connected")
  /\ events' = Tail(events)
  /\ shown' = rx /\ status' = "Pending"
  /\ UNCHANGED <<busy, handle, rx, tx>>

(* ConnectionFailed, TransferComplete, TransferFailed, TransferCancelled.   *)
(* Behind the last event there can only be progress, which is ignored when  *)
(* no session is shown.                                                     *)
PollReceiveEnd ==
  /\ \E e \in {"ConnectionFailed", "TransferComplete", "TransferFailed",
               "TransferCancelled"} : Polls("Receive", e)
  /\ shown' = 0 /\ status' = "none"
  /\ Cleanup
  /\ CloseRx

PollStarted ==
  /\ Polls("Sync", "Started")
  /\ events' = Tail(events)
  /\ shown' = rx
  /\ UNCHANGED <<status, busy, handle, rx, tx>>

PollSyncFailed ==
  /\ Polls("Sync", "Failed")
  /\ CloseRx
  /\ shown' = 0 /\ handle' = 0
  /\ UNCHANGED <<status, busy, tx>>

PollsEnd ==
  /\ turn = "poll" /\ events = <<>>
  /\ turn' = "key"
  /\ UNCHANGED <<events, ui, tasks>>

(* No key for 250 ms, or one that starts nothing.                           *)
KeyTimeout ==
  /\ turn = "key"
  /\ turn' = "poll"
  /\ UNCHANGED <<events, ui, tasks>>

(* Ctrl+C: the process ends.                                                *)
Quit ==
  /\ turn = "key"
  /\ turn' = "over"
  /\ UNCHANGED <<events, ui, tasks>>

-----------------------------------------------------------------------------
KeyAction ==
  \/ StartShare \/ CancelShare \/ RegenerateCode
  \/ StartReceive \/ AcceptTransfer \/ DeclineTransfer \/ CancelReceive
  \/ StartClipboard \/ JoinClipboardSync \/ StopClipboardSync
  \/ CancelClipboardOperation
  \/ StartSyncHost \/ JoinSync \/ StopSync
  \/ KeyTimeout \/ Quit

Poll ==
  \/ PollShareDone \/ PollClipboardDone \/ PollSyncHostConnected
  \/ PollProgress \/ PollConnected \/ PollReceiveEnd
  \/ PollStarted \/ PollSyncFailed \/ PollsEnd

(* Steps a task takes by itself, and steps that wait for a peer.            *)
OwnStep(i) ==
  \/ ShareReturns(i) \/ TakesCommand(i) \/ AcceptReturns(i) \/ DeclineReturns(i)
  \/ ReceiveCancelled(i) \/ ForwardEnds(i) \/ Aborts(i)
  \/ (signal[i] /\ SharePublishesEnd(i))

PeerStep(i) ==
  \/ ShareProgress(i) \/ (~signal[i] /\ SharePublishesEnd(i)) \/ ShareFails(i)
  \/ Connects(i) \/ ConnectFails(i) \/ Forward(i)
  \/ OperationReturns(i) \/ ClipboardPeerConnects(i) \/ ClipboardHostFails(i)
  \/ SyncStarted(i) \/ SyncPeerConnects(i) \/ SyncFails(i) \/ SyncReturns(i)

Next ==
  /\ turn # "over"
  /\ \/ KeyAction
     \/ Poll
     \/ \E i \in Task : OwnStep(i) \/ PeerStep(i)

(* The loop goes on, with or without keys, and a task that can continue by  *)
(* itself does; accept() returns whatever happens, which is AcceptEnds of   *)
(* Transfer.                                                                *)
FairSpec ==
  /\ Init /\ [][Next]_vars
  /\ WF_vars(turn # "over" /\ Poll)
  /\ WF_vars(turn # "over" /\ KeyTimeout)
  /\ \A i \in Task : WF_vars(turn # "over" /\ OwnStep(i))

-----------------------------------------------------------------------------
(* Properties.                                                              *)

(* Every variable has its type, and a receive task is told at most once     *)
(* what to do: a second command would be left in its channel.               *)
TypeOK ==
  /\ view \in Views
  /\ turn \in {"poll", "key", "over"}
  /\ {shown, busy, handle, rx, tx} \subseteq 0..MaxTasks
  /\ status \in {"none", "Pending", "Transferring"}
  /\ pc \in [Task -> {"unborn", "waiting", "returned", "connecting", "asking",
                      "accepting", "declining", "operating", "starting", "hosting",
                      "syncing", "done"}]
  /\ signal \in [Task -> BOOLEAN] /\ aborted \in [Task -> BOOLEAN]
  /\ forwards \in [Task -> BOOLEAN]
  /\ \A k \in 1..Len(events) : events[k] \in Task \X Event
  /\ command \in [Task -> {<<>>, <<"Accept">>, <<"Decline">>}]

(* What is shown as going on, the handle that cancels it and the channels   *)
(* it reports on are of the same task, although they are kept in separate   *)
(* fields, set in handlers and cleared in the polls.  A session that was    *)
(* joined has no handle.                                                    *)
CancelReachesShown ==
  /\ view = "Share" /\ shown # 0 => handle = shown /\ rx = shown
  /\ view = "Receive" /\ (shown # 0 \/ busy # 0) =>
       /\ busy # 0 /\ shown \in {0, busy}
       /\ handle = busy /\ rx = busy /\ tx = busy
  /\ view = "Clipboard" => handle = busy
  /\ view = "Sync" => handle = rx /\ rx \in {0, shown}

(* A share or a receive that can no longer be cancelled, because another    *)
(* was started over it or its handle was dropped, ends by itself.           *)
NoHiddenTask ==
  \A i \in Task :
    (view \in {"Share", "Receive"} /\ Live(i) /\ handle # i) ~> (~Live(i) \/ turn = "over")

(* A transfer that was accepted does not stay on the screen: its end is     *)
(* shown, also when its task had ended before the key was pressed.          *)
TransferEndIsShown ==
  (view = "Receive" /\ status = "Transferring") ~> (shown = 0 \/ turn = "over")

=============================================================================
