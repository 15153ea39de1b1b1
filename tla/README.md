# Verification of yoop

yoop shares files, clipboards and directories between machines of a local
network, from a command line, a terminal UI and a web page. This directory holds
TLA+ models of it, the TLC runs that check them on small instances and TLAPS
proofs that hold for every instance. Paths such as `transfer/mod.rs` are
relative to `src/crates/yoop-core/src/`, those that begin with `cli/` to
`src/crates/yoop-cli/src/`.

## 1. Inventory

| Component | State it keeps | Operations | Interacts with |
|---|---|---|---|
| Code share, sender: `ShareSession`, `transfer/mod.rs` 215-812 | position in one sequence of blocking reads and writes, progress channel, negotiated compression | `new`, `wait`, `cancel` | TLS stream, broadcaster, file chunker, progress observers |
| Code share, receiver: `ReceiveSession`, `transfer/mod.rs` 814-2117 | the stream or the task that holds it, file list, current file and writer, progress | three connect functions, `start_keep_alive`, `stop_keep_alive`, `accept`, `accept_files`, `accept_with_resume`, `decline`, drop | TLS stream, discovery, keep-alive task, file writer |
| Protocol: `protocol/mod.rs` | none | `read_frame`, `write_frame`, encoders | every session |
| Files: `file/mod.rs` | open file, hashes | enumeration, `read_chunks`, `FileWriter` | sender, receiver |
| Trusted transfer: `transfer/trusted.rs` | file list, place in it, writer | send, receive | trust store, device beacons |
| Resume store: `transfer/resume.rs` | one JSON file per transfer | save, load, find, delete, cleanup | nobody outside its tests |
| Directory sync: `sync/` | indices of both sides, one stream behind a mutex, four tasks | handshake, index exchange, reconcile, live operations | watcher, file system |
| Clipboard: `clipboard/` | last local and remote hash, content cache, watcher hash | one-shot share and receive, sync | operating system clipboard |
| Discovery: `discovery/` | broadcast task, listener socket, mDNS daemon | start, stop, find, scan | all sessions |
| Stores: `trust/`, `history/`, `config/`, `migration/` | one file each, backups and their manifest | load, change, save; migrate, roll back, clean up | commands, TUI, web |
| Session file: `cli/tui/session/` | `sessions.json`, shared by every command | add, update, remove, watch | commands, terminal UI |
| Web server: `web/` | mode, share, pending and active receive, each behind its own lock; a watch channel | HTTP handlers, background tasks, event stream | sessions |
| Commands: `cli/commands/` | none of their own | `share`, `receive`, `send`, `clipboard`, `sync`, `update` and those that only list | sessions, stores, session file |
| Terminal UI: `cli/tui/` | a state per view, a handle and channels per running task | key events, polls | sessions, stores, session file |
| Pure helpers: codes, addresses, previews, QR, compression, update check | none | | |

What is hard, and where it is listed: the entries `hazards` of `PROJECT.json`
name each place by line. In short:

* *Code transfer.* A keep-alive task owns the stream while the user makes up
  their mind, and hands it back when it happens to be told; acks carry indices
  nobody compares; markers and chunks are acknowledged at different frames;
  writes to the receiver's disk fail after they were acknowledged; files change
  between being listed and being read; either side, or the network, may go away
  between any two frames and reads have no timeout.
* *Sync and clipboard.* Tasks share a stream, a mutex, a cache and hash values;
  both peers may act at once.
* *Connecting.* Nothing that is announced says which session a host runs, the
  two sides do not agree on who speaks first, and whether a code is shown
  depends on what only one of them knows.
* *Stores.* Files are rewritten in place, without a lock, by several processes
  that may be killed; a migration and its restore are sequences of such steps.
* *Web and terminal UI.* Handlers check a mode under one lock and change it
  under another, later; what is shown, what cancels it and what reports on it
  are separate fields; keys are taken by whichever table looks first.

What makes each component correct: a transfer reported as completed has
delivered what the sender read; the two sides of a protocol never lose step, and
nobody waits for ever once the peer is gone; only a holder of the code, or a
trusted device, is let in; what the two users are told agrees; peers that both
change something converge; a store that cannot be read is not replaced by an
empty one, and the settings outlive a failed migration; a web request is
answered and a session run by one task; what the terminal UI shows as running
can be cancelled, and its end is shown.

## 2. What is modelled

| Module | Part of the code |
|---|---|
| `Wire` | the frames of the code transfer, the TLS stream as two channels, its two ends, the announcement of the share |
| `ShareSession` | the sender: `wait()` from the accepted connection to the end, `cancel()` |
| `ReceiveSession` | the receiver: connect functions, keep-alive task, `accept*`, `decline`, `stop_keep_alive`, `do_receive`, `FileWriter`, drop |
| `Transfer` | both over one connection, with network faults; the properties |
| `Delivery` | the abstract specification: entries copied in order, chunk by chunk, success only for a full copy |
| `TransferInv` | the inductive invariant |
| `TransferProofs` | the proofs: channels, sender, receiver, the invariants, the refinement |
| `ClipboardSync` | live clipboard sync: two `SyncSessionRunner::run` with watcher, outbound and inbound task each; the properties |
| `ClipboardProofs` | proofs about it |
| `SyncEngine` | directory sync: the comparison of two indices under LastWriteWins, as operators |
| `SyncSession` | directory sync: two `SyncSession::run` from the exchanged indices on, with their four tasks, the watcher, users and file systems; the properties |
| `SyncProofs` | proofs about both |
| `Connection` | one connection between a host and a client of any session: the frames of the handshakes and of the small sessions, reads, writes, loss, kill |
| `Discovery` | announcement by broadcast, mDNS and beacon, the search by each, stored and given addresses, fallback and probe |
| `ClipboardOneShot` | `ClipboardShareSession` and `ClipboardReceiveSession` to their ends |
| `SyncHandshakes` | the handshakes of clipboard sync and directory sync, by code and as a trusted device |
| `PathLookup` | `enumerate_files` and `find_file_path` as operators on trees of paths |
| `TrustedTransfer` | `TrustedSendSession` and `TrustedReceiveSession` |
| `Connecting` | any of four hosts met by any of seven clients: the modules above over one connection; the properties |
| `Commands` | what the commands refuse, ask and tell around these sessions; what the users are told |
| `Stores` | trust store, history, configuration, migration state and backups, with the commands that use them, killed, out of space and overlapping |
| `SessionFile` | `sessions.json` between commands, their progress tasks, the watcher and the terminal UI |
| `ResumeStore` | one transfer's resume state: save, delete, clean-up, killed and without power |
| `DataFiles` | the three as what lies on disk |
| `Yoop` | `Commands` and `DataFiles`: what one run of `yoop` does besides a code transfer |
| `ConnectionProofs`, `SendProofs` | proofs about its connections; `SendProofs` those of the trusted transfer and of all pairs together |
| `FilesProofs` | proofs about its files |
| `WebServer` | handlers, background tasks, forwarders and event streams over the locks of `AppState`; the properties |
| `WebProofs` | proofs about it |
| `TuiTasks` | the background tasks of the terminal UI, their handles, channels and polls; the properties |
| `TuiInput` | what a key does: the key tables of `event.rs` and the reducer `handle_action`, view by view; the properties |
| `Tui` | `TuiTasks` and `TuiInput` side by side |
| `TuiProofs` | proofs about both |
| `MC*` and `*.cfg` | instances for TLC |

The modules are composed where the code's parts share state: `Transfer` has
sender, receiver and stream; `Connecting` has a host, a client, their search and
the stream. Where parts share none they are put side by side so that one run
serves several, and a behaviour follows one of them: `DataFiles` (the three
directories have no file in common), `Yoop` (the connection and the files) and
`Tui` (the tasks and the keys). Nothing is lost by this, because no step of one
part reads or writes what another has, and the parts' properties speak of one
part each. A connection goes on where the handshake ends: a side that `runs` in
`SyncHandshakes` is at the initial state of `ClipboardSync` or `SyncSession`.

### Code transfer

The sender is one asynchronous function. Its state `sPc` is the `read_frame` at
which it waits, or the step of `do_transfer` it has reached; one action takes it
from one read to the next with all the writes in between. The error returns
(`?`) are actions of their own: they leave the reported state and the broadcast
alone, as the code does. The receiver is modelled in the same way, with a second
program counter `ka` for the keep-alive task, which owns the stream while it
runs. Three things are kept finer than one might expect because the properties
depend on them:

* `tokio::fs::File` reports a write as done when it is buffered. `flight` is the
  fate of the last write of the open file; the next write and `finalize` wait
  for it and pass its error on.
* `select!` may pick the timer although the stop signal is there, and does not
  look at the stop signal while it waits for a Pong.
* `File::create` truncates, `create_dir_all` accepts an existing directory, and
  either fails on the other kind: `Existing` is what was at the output paths.

Abstractions: a chunk is a model value; file and chunk indices count from 1;
HMAC and xxHash are injective and zstd is lossless (external); whether a chunk
is compressed is left open once compression was negotiated; one sender and one
receiver, since `wait()` serves a single connection. `Faults` selects what may
go wrong.

Bounds. The list has a directory, a file listed with two chunks and an empty
file: both kinds of marker, a file with a first and a last chunk, and each kind
of entry before and after another. With fault `edit` each file may turn out to
have no, one or two chunks, which moves the empty file to the chunk path and the
other to the marker path. Two chunk values tell the order and a damaged chunk
apart. Output paths are absent, a directory or a file with other content. No
counter is unbounded: the channels hold at most two frames, which `TransferInv`
states and the proofs show.

Deadlock is not checked in any run: the systems stop when both sides have ended,
when no user acts, and, with faults, when a side has gone. That nobody waits in
vain is what the liveness properties say.

Fairness. `FairSpec` assumes weak fairness of each task by itself: the sender's
`wait()`, the receiver's running operation, the keep-alive task (whose timer
fires) and the background write. The tokio runtime polls a woken task
eventually, which is all this says. Users are not obliged to call anything, and
faults are not obliged to happen.

### Clipboard sync

`ClipboardSync` starts where the handshakes end: each side has spawned its
three tasks, and the watcher knows the hash of what is on the clipboard. One
action is what a task does between two points at which another task can
interfere: the watcher's read of the clipboard, its comparison and its send are
three steps, as are storing the hashes, writing the clipboard and reporting the
event in the inbound task. `inbound = "await"` is the inner loop that waits for
ClipboardData, and `ISkip` what both loops do with frames they do not know. The
two channels between the tasks have their capacities as constants. When `run()`
returns, the task that has not ended is detached and stays in the model until
it ends by itself or the process exits. Contents are model values with a type;
the hash is the content's bytes, without the type, as in the code; a PNG is not
valid UTF-8, and text is not a PNG. A write may fail, and on Linux the holder
process may fail to decode an image after the call has succeeded. The two
stores of `IData` (lines 2066 and 2068) are one step: a poll or a take of the
outbound task between them has the outcome of one before or after both, up to
which of two stale contents is announced.

The fault `overlap` lets a poll of the watcher overlap a remote update. Polls
are 500 ms apart and an update takes much less, so this is rare, but nothing in
the code excludes it: `clipboard_safety` has it with users on both sides. What it
leads to is in section 3. `clipboard_liveness` is without overlaps and failing
writes and with one user, as `LastCopyArrives` does not hold with them.

Bounds: two copies on one side, or two on one and one on the other, or one on
each; two contents; one waiting change (16 in the code); two or six events (32).
Two copies suffice for a notification to be skipped while the answer to the one
before is on its way. Nothing is unbounded: every frame and event goes back to a
copy or to one of the finitely many overlaps.

Fairness: weak for each task and for the return of `run()`, and strong for a
watcher that was stopped, whose `select!` finds the stop channel ready at once
and the timer only after 500 ms.

### Directory sync

`SyncSession` starts where the handshakes end, with the indices exchanged. An
entry's time is a pair of seconds and a fraction, because `exchange_index`
drops the fraction and each side therefore compares its own full times with the
other's truncated ones. `run_initial_sync` is one action, as nothing else of the
session runs yet; all it does to the disk is to make directories.

Then four tasks run. `mutex[p]` is the queue of the tasks that have asked for
the stream's mutex, whose head holds it: tokio's mutex is fair, and the order
matters because the inbound task releases the mutex after each frame and asks
again to deal with it, behind whoever waits. Outbound holds it from an operation
to its acknowledgement (`chunkAck`, `opAck`), inbound while it waits for a frame
(`lockRead`) and while it receives the chunks of a file (`chunks`). The shutdown
signal is looked at where the code has a `select!` arm for it and nowhere else;
in particular not while a task waits for the mutex to send. `run()` returns with
the first task that ends, the others are detached and keep the stream open until
they have ended or the process exits.

Disks are trees of absent paths, directories and files with sequences of chunks.
`Notified` is the file system's events after the debouncer, one per path with the
latest kind; what the session writes causes events like what a user writes, and
is sent back. `event_to_sync_op` looks at the path when the event has been
quiet, relative to the working directory and not to the sync root (`Cwd`), and
outbound reads the file again when it has the mutex, so that the size announced
and the content sent may differ. As in the transfer, a write is acknowledged
before it is done and its failure reported with the next one or by `finalize`.
A user does not change a file while it is being received.

Bounds: a directory with one path below it, or a single path; one change per
user and one operation taken by each outbound task (an operation received is
echoed, so there are two in flight even with one change); a Ping; a channel of
one operation (100 in the code). `sync_safety` has both users act at once, which
is where operations cross on the wire, with files of one chunk or none.
`sync_loss` has one path and one user, and no Ping, but files of two chunks, six
pairs of times with differences of zero, one and two seconds and fractions on
either side, and a joiner that runs outside its sync root.

Fairness: weak for each task, for `run()` and for the drop of the stream.

### Connections

`Connecting` takes one host (a clipboard share, a clipboard sync host, a
directory sync host or a device that waits for a trusted sender) and one client
(clipboard receive, clipboard sync or directory sync, each by code or as a
trusted device, or a trusted sender), any of them with any other, because what
is announced carries a code or an id and no kind of session. Where each starts
on the connection (`ShareStarts` and so on) is what it writes before its first
read, and that read: some hosts speak first and some clients do, and a pair that
both wait is not excluded by anything. `creds` is what the two know of each
other: the code, whether the host's trust store has the client's key, whether the
host is the device that the client looks for. `inbox` is the frames on their way
to a side, `at` the read at which it is, `outcome` how it ended. A frame carries
what its reader looks at and nothing else. Frames of a kind that is not expected
end a session, except where the code skips them.

The search (`Discovery`) runs over three announcements: broadcasts and the mDNS
record of a host with a code, beacons of a waiting device. The record outlives
its host when the process is killed, and the hybrid search ends with whichever
half ends first, well or not. A client may instead use an address it was given or
has stored; a probe of a stored address is a connection, which uses up the single
`accept` of all hosts but one. `connect_with_fallback` and its search are in the
model although no command calls them.

`TrustedTransfer` has the file list made by `PathLookup` from a tree of paths,
the sender's loop with its uncompared acks, and the receiver's with its marker
rule and its change of writer. A chunk is acknowledged when the file's buffer has
taken it; `flight` is the fate of that write, which the next chunk, the next
entry or the end waits for and learns, after the last ack perhaps. Five trees are
shared: two files of which one is
empty, two files of one name, a directory alone, a directory along with files in
it, and a directory with a hidden file and an empty directory.
Symbolic links, previews and the limit of depth are left out.

`Commands` adds what the user is told, `told`, and the ways a command gives up
before its session exists. `DisplayHangs` is `yoop send`, whose display waits for
a final state that no error but a rejection sets.

Bounds: one connection, one Ping of a prompt (`MaxPings`), two chunks in a file.
Every frame is written once, so nothing else grows.

Fairness: a side that is connected reads what has come and notices that its peer
is gone (`Reads`). A FIN is assumed to arrive, or the read to fail. No user has to
answer a prompt, no search has to end, no process is killed on time.

### Files on disk

`Stores`. A command is the list of the steps it has left, each one access to one
file: read, open (which truncates), write, copy, and so on, so that a second
command, a kill or a full disk may come between any two. A file is absent,
empty, garbage (partly written), or whole, and then `own` says that nothing the
user had in it is missing, and `schema` which release its form belongs to. The commands are those that
change the trust store or the history, the two ways a configuration is loaded and
saved, with the migration in front of every load, and `update` with its rollback.
`same` says whether configuration and data directory are one, as on macOS:
`commands/update.rs` takes the first for the second.

Bounds: the four `Plans` of `MCYoop`: two commands at a time with a kill and a
full disk; three starts one after the other with two kills while a migration is
due; two such starts at once; updates and rollbacks. `MaxBackups` 2 (5 in the
code), four backups made. A kill comes before a step that changes a file: before
another it leaves the same files. A backup is named for its version and its
second: `second` is the backup whose second has not passed yet, if any, and a
further one of the same version goes into its directory (`shared`).

`SessionFile`. Every command has two threads, itself and the task that writes its
progress; each loads the file, truncates it and writes it. The watcher compares
modification times and sends events through a channel with `EventRoom` places (2;
16 in the code), at which it waits when it is full. A write after a look at the
modification time is taken to change it, and a process identifier not to be used
again. Bounds: one transfer, one clipboard command, one write of progress. That
suffices for two savers, for a stale copy on either side, and for a full channel.
Fairness: a thread that is saving goes on, the watcher polls every half second,
the UI takes an event per turn of its loop; no transfer has to end.

`ResumeStore`. The states of a transfer are numbered, three saves. `disk` is what
a power failure would leave of the state file: a rename may or may not have
reached the disk, what was flushed has. `write_all` only fills the buffer of
tokio's file, and `sync_all` waits for the background write without passing its
error on; since the code does not flush, a state cut short is then renamed like a
whole one (`Cut`).

### Web server

A step is what a handler or a task does between two awaits. `app` has the fields
of `AppState`, each with a lock of its own that is held for one statement, so a
handler that checks the mode, connects and then sets the mode is three steps at
least. The progress channel is a watch channel: a value under a blocking lock,
and `mark_complete` and `mark_failed` send while they hold the guard of
`borrow()`, so the thread stays there (`ChannelBlocked`), and whoever needs the
lock after it stays too. `Workers` threads run everything. Sessions publish
progress and end well or not; what they do inside is the code transfer.

The list of files and the directory that `accept_receive` gives its task
(`req[r].files`) are not the session that the task finds in `active_receive`.

Bounds: up to four requests, two of them in flight at once, in six scripts
(`MCScripts`) of what two browsers may do at the same time, each in every order
of arrival: cancel against start, accept against decline, a receive started and
accepted twice, download during a receive, a stream with a progress, the signal
that stops the server. Two worker threads, so that one that is stuck does not stop
the rest.

Fairness: the runtime never idles while some handler or task can go on. Clients,
sessions and the stop signal come when they like, and so does the end of a
connect (`NewSession`): the discovery in it is given thirty seconds, the TLS
handshake and the reads that follow have no timeout.

### Terminal UI

`TuiTasks` follows `App::run`: poll the channels, draw, handle one key. Tasks are
numbered as they are spawned. `shown`, `handle`, `rx`, `tx`, `busy` are the
fields of one view that tell what is displayed, cancelled and listened to; the
four views do not touch each other's, so a behaviour has one. Bounds: three
sessions started one over the other, progress events behind at most two others.
Fairness: the loop goes on with or without keys, and a task that can continue by
itself does; that `accept()` returns is `AcceptEnds` of `Transfer`.

`TuiInput` is the other half, what a key does: `MapKey` is `map_key_event` with
its order of tables, `HandleShare` and its like are `handle_action`. Typed texts
are their lengths. Paths are the sequences of the directories they go through, over a
tree that is a constant, as the sections of the settings are. Bounds: a code of one letter, two octets of two digits and a
port of one (lengths matter only as empty, partly and full), lists of two, a file
browser over a tree with one directory and a hidden file, paths of two names. Of
the seven views a behaviour presses keys in one and may look at one other
(`Away`), which is enough for what switching does, as views share no state.

## 3. Runs

| Run | What it shows |
|---|---|
| `transfer` | Under every fault, way to connect and operation: Completed on the receiver means every entry is on disk as read, with nothing outstanding (`CompletedDelivers`); Completed on the sender means everything was taken and at most the very last write is open (`SentMeansTaken`); only a holder of the code sees the list (`ListNeedsCode`); no side reads an unexpected frame unless `accept_with_resume` is used (`NeverUnexpected`); an ack is for what is outstanding although nobody compares (`AckIsForOutstanding`); a stream handed back by the keep-alive task is clean (`StreamCleanAtCall`); `Transfer` implements `Delivery` (`ImplementsDelivery`); an accepted transfer ends on both sides whatever fails (`AcceptEnds`); a sender notices that its receiver is gone (`SenderNotOrphaned`) |
| `clipboard_safety` | With texts and images, copies on both sides, failing writes and overlapping polls: requests and answers stay paired without identifiers (`OneRequestOutstanding`); a request always finds the cache filled (`RequestFindsCache`); no clipboard shows a content that no user has copied, such as a text decoded as the image that was announced (`OnlyCopiedContent`) |
| `clipboard_liveness` | One user copies texts, the connection may break and a side be stopped: every request is answered or given up (`RequestEnds`), the last copy of one user arrives although notifications are skipped, unless the session broke (`LastCopyArrives`), and a runner whose peer is gone returns and closes its end (`LossEndsRun`) |
| `sync_safety` | Users on both sides, failing writes, damaged chunks, a Ping: the acknowledgements that are read without comparing `op_id` are for the operation that waits (`AckIsForOperation`), also when operations cross; an acknowledged file has been written as it was read (`AckedMeansWritten`); nothing comes between the chunks of a file (`ChunksNotInterrupted`) |
| `sync_loss` | The plans of the two initial syncs agree for every combination of times (`PlansAgree`); a session that loses its peer, at any point and with any task waiting for the mutex, returns and closes its end (`LossEndsRun`) |
| `files_and_connections` | Files: an unreadable trust store or history is never replaced by an empty one (`UnreadableIsNotReplaced`); the settings are in the configuration or a backup whatever is killed or fails, as long as no two backups share a second (`SettingsSurvive`); a running session is listed whenever no two saves overlapped (`ListedWhileRunning`); the terminal UI comes to show what the file has (`DisplayConverges`); no kill, power failure or reported error leaves a resume file with a part of a state (`ResumeFileIsWhole`). Connections: whoever is let in has shown the code or is trusted (`AdmittedMeansShown`); sessions that belong together never both wait (`MatchedNeverStall`); nobody is left at a read when the peer has gone (`EndsWithPeer`); what the two users of a clipboard copy are told agrees (`AgreeOnCopy`); success of a trusted transfer means that the receiver has taken its files, and on the receiver's side that they are written: on the sender's the very last write may still be open or have failed (`SentMeansWritten`) |
| `web` | Under concurrent requests, two accepts at once among them, a session is run by one task and found in no field meanwhile (`SessionRunByOne`); what is offered for download was noted by a task whose own session was received, and is that session's files or those another accept noted (`CompletedIsReceived`); a receive that waits for its user is kept alive, also if two requests overwrite each other's (`PendingIsKept`); every request is answered unless the progress channel's lock is taken for ever or the request still connects, for which the code has no limit (`RequestsAnswered`) |
| `tui` | What is shown, the handle that cancels it and the channels it reports on are of one task (`CancelReachesShown`); a task that cannot be cancelled any more ends by itself (`NoHiddenTask`); the end of an accepted transfer is shown (`TransferEndIsShown`); and for every sequence of keys: cursors stay on their lists (`SelectionOnList`), Esc ends whatever runs or is open (`EscapeEndsAll`), an edit stays with its setting (`EditKeepsItsSetting`) |

Some properties say of themselves what they do not cover. `SettingsSurvive`: two
backups in one second (`shared_backup` shows that case), a save of the
configuration that is cut short or overlaps another command, a backup that was
pruned. `ListedWhileRunning`: two saves of the session file that overlap.
`ResumeFileIsWhole`: a background write whose error nobody asks for. There the code
does lose data, as listed below. `MatchedNeverStall` and `EndsWithPeer` leave out
the pairs of sessions that were never meant for each other, some of which do stall
(below); `NoHiddenTask` is of shares and receives, `LastCopyArrives` of one user.

Four runs refute what the repository says of itself; `findings` quotes the lines:

| Run | Finding |
|---|---|
| `sync_idle` | once both inbound tasks wait for a frame they hold both mutexes, and nothing is sent any more (`ChangesAreSent`) |
| `web_stuck` | a transfer that has ended is never marked: the thread waits for the lock it holds itself (`TransferIsMarked`) |
| `clipboard_both` | both users copy at once: the two contents change sides, or both sides wait for ever, and the clipboards stay different (`ClipboardsConverge`) |
| `shared_backup` | two migrations back up in one second into one directory, the second over the first's good copy, and a kill leaves the settings nowhere (`BackupsKeepSettings`) |

Each property of a passing run has a mutant in `PROJECT.json`: a plausible slip
in one mapped definition (an ack too many, a missing comparison, a stop signal
that interrupts the wait for a Pong) under which TLC finds the property
violated.

Also met while modelling, without a run of their own. All of it is what the
models do, not something they leave out.

Code transfer:

* `connect_trusted` of `ReceiveSession` waits for FileList while the sender waits
  for CodeVerify, for ever; a trusted receiver and a code sender of
  `ShareSession` likewise (`transfer/mod.rs` 517).
* `accept_files` receives every file: the sender drops the selection
  (`transfer/mod.rs` 569), and `do_receive` does not look at it.
* `accept_with_resume` ends both sides with `UnexpectedMessage`: no sender knows
  `ResumeRequest` (`transfer/mod.rs` 1406).
* The SHA-256 the receiver computes when it finalizes a file is compared with
  nothing (`transfer/mod.rs` 1868, 2100), so the check of the complete file that
  line 15 and the repository's README announce does not exist.
* A file that grew after it was listed takes the progress past 100 percent, and
  the computation of the remaining bytes (line 772) underflows.
* After an error of `wait()` observers of the progress go on seeing a running
  transfer: `?` bypasses `update_state` (line 444).
* The sender reports Completed although the receiver's last write may still
  fail; `SentMeansTaken` says exactly how much Completed promises.
* A file of a shared directory is listed under the directory's own name and looked
  up below the directory, so it is not found when its turn comes and the transfer
  ends with `FileNotFound` (`transfer/mod.rs` 788, `transfer/trusted.rs` 502), while
  line 38 of the repository's README shows "Share multiple files and folders".
* An empty file arrives as a directory in a trusted transfer
  (`transfer/trusted.rs` 879); files of one name overwrite each other at the
  receiver, and the first that matches is read for each of them.

Clipboard sync:

* The watcher is told the new hash before the clipboard is written, "to prevent the
  watcher from detecting our own writes" (`clipboard/watcher.rs` 174): a poll
  between the two (`clipboard/session.rs` 2066) finds what the peer had sent before,
  with a hash other than the one told, and announces it as a copy of the user.
* A copy of another content does not clear `last_remote_hash`: a user who then
  copies again what the peer last sent is skipped (`clipboard/session.rs` 1915),
  though the peer has the other content by then.
* The receiver of the event channel is only returned when `run()` ends
  (`clipboard/session.rs` 1870, 2223): after 32 events the tasks block.
  `clipboard_safety` goes to that limit, `clipboard_liveness` stays below it.
* A text copied soon after an image is decoded as that image, cannot be written,
  and its own notification has been skipped (`clipboard/session.rs` 2033).
* If the write that follows the store of the new hash fails
  (`clipboard/session.rs` 2066), what is still there, which may have come from the
  peer, no longer has the known hash: it is announced as a change and overwrites
  the peer's newer content, without any overlap.
* After shutdown the detached inbound task goes on writing to the clipboard
  until the process exits (`clipboard/session.rs` 2184).

Directory sync:

* The paths of events are taken relative to the working directory
  (`sync/session.rs` 1586): elsewhere the first created or modified file ends
  the session, as does a file deleted before its event is looked at.
* A created directory is received as an empty file (`sync/session.rs` 1826: the
  kind is not looked at), under which nothing can be created; an operation that
  fails is not acknowledged (1522), and the sender waits with the mutex held.
* A received write comes back as an event and is sent to the peer again; a
  rename leaves the old file at the peer, as its event is the modification of a
  path that is gone (`sync/watcher.rs` 170); changes between building the index
  and starting the watcher are missed; a receive that breaks off leaves a
  truncated file.
* The initial sync reports files as received that it neither asks for nor writes
  (`sync/session.rs` 947).

Connections:

* Pairs that both read first and wait for each other: a trusted receiver of the
  clipboard at a clipboard share, a trusted directory sync at its host, and any
  clipboard client at a directory sync host or at a device that waits for files.
  `Matched` lists the pairs for which the handshakes do fit.
* A clipboard sync by code to a host that knows the client's key: the host skips
  the code and runs, the client waits for CodeVerifyAck, against the comment of
  `wait_for_peer` that it "Supports both". The other way round, a trusted client
  that the host does not know runs while the host waits for CodeVerify. A trusted
  client that reaches a clipboard share considers itself established, as the
  share's Hello needs no answer it would notice.
* HelloAck is trusted without a signature; `yoop send` checks that the answer is
  signed, not that it is the device it was asked to find; the session key the
  sync handshake derives is not used.
* A probe of a stored address uses up the single `accept` of the host, and the
  port that is stored with an address is the source of a UDP packet
  (`cli/commands/send.rs` 279-287).
* `yoop send` hangs after any error but a rejection, and no command receives what
  it sends: only the library has the listening side.
* The hybrid search is over when either half has ended, also with an error,
  while `discovery/hybrid.rs` 9 and 200 speak of the first that succeeds; an mDNS record of
  a process that was killed is found until it expires; the beacon's
  `ready_to_receive` is not looked at, so two senders find each other.
* A second client is left in the backlog until the first session has ended. A
  share tells its user of success before the receiver has written its clipboard.

Files on disk:

* Nobody migrates: `MigrationState::load` without a file returns the current
  version, so only a state file of exactly 0.1.0 has anything pending
  (`config/mod.rs` 404-407 says that loading migrates).
* `update` takes the configuration directory for the data directory; on macOS,
  where they are one, the load that follows a rollback migrates again; the branch
  of the rollback that undoes the schema never finds the backup it restored.
* An empty `config.toml`, which is what a kill between open and write leaves,
  parses as all defaults, and the next save makes them permanent. A backup that is
  made while a save is in progress keeps the emptied file without a word, and a
  rollback puts it in the place of what was saved since: `loose` therefore covers a
  command that starts while a save is between its two steps. A torn
  manifest, trust store or state makes every later load fail; that is what
  `UnreadableIsNotReplaced` needs. Two savers at once can leave a mixture.
* Every start that fails to migrate makes another backup, and the sixth removes
  the oldest, which may be the last good one; a clock that is set back makes
  the clean-up remove the backup just made.
* Sessions are lost by overlapping saves and by a load that meets a truncated
  file; a session whose process died is shown until the file changes; the
  progress task may add a removed session again; a share whose code expires
  during its transfer vanishes from the list; a clipboard session of a command
  stays on the screen once merged (`cli/tui/app.rs` 302). No command asks
  `check_cancel_command`, nobody deletes the file.
* The resume state is not flushed before it is renamed (`transfer/resume.rs` 93-97;
  `FileWriter::finalize` does flush): when the background write fails, a state cut
  short replaces a whole one. Two savers of one transfer would share the temporary
  name; the clean-up may remove a state saved after it was read. `ResumeManager` has no caller.
* The update check saves a configuration it loaded before a network call.

Web server:

* `start_receive` has no timeout once the sender is found (`transfer/mod.rs` 1652,
  1700): with a silent peer it is never answered.
* Two accepts overlap: the task of the first finds the session of the second in
  `active_receive` and runs it, and offers the files of the first, whose session was
  dropped, for download (`web/handlers.rs` 507-543), though `web/state.rs` 93 calls
  them "Files that were received".
* `cancel_share` of a share that already waits cancels nothing, as the task has
  taken it; a late `reset_to_idle` drops a newer session; accept against decline
  can leave the mode at Transferring with nothing running; a second
  `start_receive` overwrites the pending one.
* A graceful stop does not end while an event stream is open; a download takes
  the result before it opens the file; the receive task never resets the
  progress; the history is loaded once, at the start (`web/state.rs` 171).

Terminal UI:

* The late result of a cancelled clipboard operation clears handle and display of
  the next one, which goes on unseen (`cli/tui/app.rs` 518).
* `stop_clipboard_sync` clears the display and leaves the session running
  (`cli/tui/app.rs` 2317); a sync that was joined has no handle (2450), and its
  end is never shown; an error of `wait()` leaves the share displayed; the end of
  a share may be missed, as a closed watch channel hides its last value.
* `decline_transfer` drops the cancel channel right behind the command (2067);
  `create_sync_event_sender` drops its own receiver (2530).
* `handle_global_keys` takes letters before the view does: Ctrl+S and Ctrl+R of
  the configuration view switch to Share and Receive although `help_overlay.rs`
  214 lists them, so the configuration can be neither saved nor reverted; the `y`
  of the three confirmation dialogs switches to Sync; `d` in a pending receive,
  `r` in the lists and `c` in the configuration are shadowed likewise.
* Ctrl+C is swallowed while help is shown, though `event.rs` 96 says that it
  always quits; no key is the "any key" of a failed receive.
* `open_file_browser` passes the option `compress` as `show_hidden`
  (`app.rs` 1573); entering ".." makes the path longer, as it has no file name,
  and Back then goes down again; an open browser in one view takes Tab and the
  arrows from the others; Enter starts a share over the one that is shown; Tab
  leaves a pattern in edit, and the view in input mode.

## 4. Proofs

Every safety invariant that a run checks is a theorem; section "Only
model-checked" below says what is not.

### Code transfer

For every list of files, every set of chunks, contents, codes, faults and
existing outputs, `TransferProofs` proves all the invariants of
`transfer`, and that `Transfer` implements `Delivery`
(`ImplementsDelivery`). The assumptions are those named in `Wire`, `ShareSession`
and `ReceiveSession`: the list is not empty, sizes are numbers, the shared
contents are sequences of chunks, the share's code is one of the codes, what is
at an output path is nothing, a directory or a file.

None of the properties is inductive. `CompletedDelivers`, for example, depends on
a frame: when `do_receive` reads TransferComplete it looks at nothing else, so
that every entry is in place must already follow from TransferComplete being on
the channel; that follows from where the sender was when it wrote it, that from
the acks it read before, and those from what the receiver had written when it
sent them. `IInv` in `TransferInv` spells this chain out:

* `Ends`, `InStep`: which points of the two programs go together, and who holds
  the stream (the session, the keep-alive task, nobody).
* `SenderChannel`, `ReceiverChannel`, `HalfDuplex`: what each channel may hold at
  each read. The protocol is half duplex: a side writes only when it has read
  everything, so a write finds an empty channel, and no channel ever holds more
  than two frames. The exceptions are what makes the code hard: a Ping may be on
  its way while the user decides, its Pong before `accept` takes the stream back
  (only while the task waits for it), and the ResumeRequest that no sender reads.
* `CodeShown`: who has proved to know the code, through the frames on their way.
* `Progress`, `FramesToReceiver`, `Outstanding`, `AcksToSender`: the entries
  before `sFile` are complete, the first `sChunk - 1` chunks of the current one
  are in place when its next chunk is due, a frame on its way is for the chunk
  the sender is at and carries it (or was damaged, and then its checksum tells),
  and a positive ack on its way means that the chunk was taken.

First come the facts about channels (reading the only frame empties
the channel, a write adds its frames or, after a loss, nothing). Then there is
one lemma per action of the sender and of the receiver, each with one step per
group of conjuncts. Two lemmas carry the argument about the data: `AtChunkStart` and
`AtChunkData` say where the sender is when the receiver reads such a frame. The
refinement needs one invariant more, `Agreed`: the receiver has agreed when it is
in the loop or has begun an entry, and not before. The refinement mapping is
`DeliveryOf` in `Transfer`; accept, reading a file, creating an entry, appending
a chunk and the two ends are the steps of `Delivery`, everything else stutters.

### Clipboard sync

`ClipboardProofs` proves `TypeOK` and the three properties of `clipboard_safety` for
all contents, numbers of copies, capacities and faults, from `PeerAssumption`,
`ContentAssumption` (a text is not an image, 0 is no hash of a content) and
`BoundAssumption`. The three are inductive together and not one by one: that the
frames on the channels have their types needs that outbound announces something
that is cached, and that the cache is filled needs to be known from before the
notification is written until the request is read, which is why
`RequestFindsCache` speaks of all three moments. `TypeOK` is more than types: no
clipboard ever holds bytes under the wrong type, although an answer may be newer
than the notification it is decoded with. `ProtocolStep` is the argument for
every step that exchanges frames: whoever asks does so from the outer loop and on
a notification, whoever answers takes a request off the channel, and only the
answer leads out of the inner loop. `QuietStep` covers the others.

`ClipboardsHoldCopies` is `OnlyCopiedContent` under every fault, failing writes and
overlapping polls included. `ShownInv` follows a content on its way: what the
watcher has read, what is queued and what is cached was on a clipboard
(`ShownPolled`, `ShownQueued`, `ShownCached`), and the bytes of an answer are those
of some content that was copied (`ShownAnswered`). The type under which they are
decoded came earlier, with the notification, and may be of another content:
`DecodedIsShown` says that the bytes then either cannot be decoded or written, or
are that content after all (`ShownIncoming`). It rests on `ContentAssumption`.

### Directory sync

`SyncProofs` proves `PlansAgree` for all trees, contents and times, from
`TimeAssumption` (times are pairs of natural numbers) and `SyncAssumption` (the
trees started from have entries of that kind). `TakesIfNewer` reduces both the
conflict and the plain case to a comparison of the whole seconds: a fraction can
make one's own version newer than the other's truncated one, but never the
reverse. `Exchanging` says that until one side leaves the initial sync each has
the index the other was built from, and `StepsFromInitial` that only the two
outcomes of the initial sync touch the indices.

The four tasks of both peers, for any number of changes, operations and chunks and
every fault: `SyncInv` implies `TypeOK` and all three invariants of
`sync_safety`. Its parts are proved one after the other, each from the earlier:

* `Types`, which says of each variable what it may hold.
* `Lines`: the mutex of a peer is a queue, in which a task that waits stands once
  and the task that has the guard first. `LinedAppend`, `LinedTail`,
  `LinedRelock` and `LinedWithout` are what the code does to the queue: a call of
  `lock()`, a dropped guard, one task after another, an aborted task.
* `Flow`: of an operation, its chunks and their acknowledgements at most one frame
  is unanswered. Operations of the two peers may cross, but the outbound task
  holds its own mutex while it waits, so its inbound task answers nothing
  meanwhile: behind an operation on a channel there is no acknowledgement, and a
  chunk is the last frame (`FramesInOrder`). `Handled`, `Acked` and `Prefix` follow one operation through the
  peer's inbound task: what it works on, what it answers, what it has written.

Nobody compares `op_id`: `AckIsForOperation` is the theorem that nobody needs to.

### Connections

Theorems of `YoopSpec`, for any credentials and ways, any number of pings and
chunks, any loss and kill. An action of the files leaves the connection alone.

* `AdmittedMeansShown`, for any credentials, ways and number of frames. A host
  decides when it reads a CodeVerify, so `AdmitInv` follows the channels: a
  CodeVerify on the way to a host says what the client was given, and only a
  client with a code writes one; the host's place then tells what it has read.
  That needs in turn where a client can be with such a host (`ClientPlace`): one
  that waits for a file list's answer never meets it. The lemmas `ClientStep` and
  `HostStep` reduce a step to the frames it writes and the place it reaches.
* `AgreeOnCopy`, for the pairs whose users copy, and with it the handshakes of
  clipboard sync and directory sync. What two sides that belong together say to
  each other is a list of rows (`CopyRow`, `TrustedSyncRow`, `CodeSyncRow`,
  `DirRow`): where the two are, and which frames are on their way, between two
  reads. While nothing has failed the connection is at a row. Once a side has gone
  no new row is reached, but what it wrote may still be read: for the handshakes
  `Gone` says all that is needed, for a copy `CopyHostGone` and `CopyClientGone`
  say what may be left. A share that has ended well leaves a receiver that holds
  the content and lacks only the last frame; a receiver that has gone leaves at
  most the answer it gave. `ToldInv` ties what the users are told to how the
  sessions ended. A receiver that trusts the share's device never comes to a copy,
  as the share asks for a code (`CopyRefused`).
* `SentMeansWritten`, from `TreeAssumption` and `ListAssumption`, for any tree.
  The sender writes markers for directories and empty files without waiting, so a
  channel holds a line of them of any length before the frames of the next file
  (`Markers`), and the receiver may have read any number of them. `Announced`,
  `Written` and `Acknowledged` say where the two are within a file: the entries
  before it are there or still on the line as markers, its first chunks are in
  place. `Finished` is the same at the end, when the sender has gone and only
  markers and TransferComplete are left to read. `Ended` says whose write may still
  be open by then: the file's that was sent last, and not if the receiver has
  reported success. That what is opened for an entry
  is the file it was listed for is `FoundIsListed`, a fact about `FindFilePath`.
* `MatchedNeverStall`, from all of these: at every row but the last a frame is on
  its way to a side that reads, or a side is with its user (`SpeaksOrRuns`).

`ListAssumption` says that the list a sender makes consists of entries, and that
the list of a file shared alone has no other file. Both follow from
`EnumerateFiles` by induction on what is shared. The definition is a fold, and the
induction is out of the prover's reach; TLC evaluates the assumption for the trees
of the run. `TreeAssumption` only says that paths are sequences of names and
sizes numbers.

### Files on disk

`FilesProofs` has theorems of `YoopSpec`, each from an invariant of its own.

* `ResumeFileIsWhole`, from `ResumeAssumption`, for any number of saves. It is
  not inductive: `ResumeInv` adds at which points of a save the temporary file
  holds what will stay (`Settled`: a whole state, or one whose background write has
  failed), that it has been synced before it is renamed, and that each file the disk
  may bring back after a power failure is such a one.
* `ListedWhileRunning`, from `SessionAssumption`, for any number of commands,
  progress writes and events. While saves do not overlap at most one thread has
  a copy of the file in memory (`OneSaves`); the copy names every session that
  must be listed (`CopyLists`), and so does the file except between truncating
  and writing (`FileLists`). `NoNewSave` covers every step that neither begins
  a save nor writes; that a thread which removes a session is its command's own,
  and one which writes progress is not, is needed for a load and for the end of a
  write (`Purposes`).
* `UnreadableIsNotReplaced` and the types of the stores, for any number of
  commands, steps and backups. A command is the list of the steps it still has, so
  `StoresInv` is about lists: a store is only overwritten by what was read from a
  file of its own name, and the trust store and the history never hold less than
  they had as long as they can be read (`Unharmed`). A rescue after a failed
  migration puts copies in front of the list; `Ready` says that nothing in it needs
  the number of a backup before the step that makes one.
* `SettingsSurvive`, for any number of commands, kills and full disks. The fact
  behind it is about what a command has still to do: before any step that could
  harm the configuration comes one that copies it to a backup. So as long as no
  good backup is there (`SafeBackup`), nothing has been done that could harm it
  (`Untouched`): no command has a rescue or knows a backup, the list of each is
  `Careful`, that is, harmless steps up to one that makes a backup, or up to a save
  of what was read from the good configuration; and the file is good, except
  between the two steps of such a save, and then that command runs alone. `Shape`
  keeps a good backup good: at most one command writes to each copy of the
  configuration, it does so with the first step of its list, to the copy with its
  own number, from the configuration; and numbers not given yet have no copy. All
  this holds until two backups fall into one second, a backup is removed or a save
  is cut short or overlapped; `Recent` says which numbers have been given when a
  backup is made.

### Web server

`WebInv` gives `TypeOK`, `SessionRunByOne`, `PendingIsKept` and
`CompletedIsReceived`, for any requests. A
session is at one place at a time (`Apart`): in a field of `AppState` or in the
hands of one handler or task, between two locks. It is open as long as it is at a
place (`States`), and a request that holds one is of the endpoint that runs it
(`Endpoints`). `Moves` is what most steps do: take a session from a field to the
hands or back. So what takes a session out of a field has it alone, and a session
that is refused or dropped is never one that somebody runs or has received.
`Accepts` ties what an accept has noted to what its task then runs: each session
that is active or run has been noted by some accept, the task's own or another's.

### Terminal UI

`ShownInv` gives `CancelReachesShown`, for any number of tasks and whatever is
started over what. Each view keeps its handle, channel and display in its own way,
and the Receive view needs one thing more: while a report is queued the task it is
from has not been dropped, as reading it sets the display.

`KeysInv` gives the three invariants of the keys, for lists of any length, any
tree of directories and any sections of settings (`ListAssumption`,
`TreeAssumption`, `SettingsAssumption`: numbers, finite directories below a root,
at least one section). Its parts are one per view
(`ShareOK` to `ConfigOK`): the fields of the view's state, its cursors on their
lists, an open browser in a directory of the tree with its cursor on what it
lists. `Edits` adds that a setting in edit is the one under the cursor and that no
question is open above it, without which one Esc would not be enough for both. The
proof has a lemma per view for its handler (`ShareHandled`), and one per table for
the actions it can give, since some handlers keep the invariant only because of
what `map_key_event` never answers: a browser is only confirmed where one is open,
no key but those of the text field is understood in an edit, and clearing the
history, which leaves the cursor where it was, waits for a `y` that is the Sync
view's. `EscapeEndsAll` follows by counting what lies above each other in a view
(`Layers`, at most two): each Esc takes one off, after the one that help takes.

The attempt changed the model twice. Confirming the removal of a device has a guard
that had been left out (the cursor is on a device), without which the count of
an empty list and its cursor went below 0; and tables whose order decides are now nested `IF`s, as a
`CASE` with overlapping guards says less than the code does.

### Only model-checked

* All liveness properties: fairness and ENABLED are out of the prover's reach.
  `PROPERTIES` of the runs are of this kind, except `ImplementsDelivery`, which is
  proved.
* What recursive definitions and folds compute (`EnumerateFiles`), beyond the
  assumption above.

The four refutations are counterexamples and need no proof. The type invariants
of `SessionFile`, `ResumeStore` and `TuiTasks` are stated in the modules and are
neither among the properties of the runs nor theorems of their own.

## 5. Plan

What is left, in this order:

1. `TrustedTransfer` against `Delivery`, which needs `Delivery` to allow for
   markers that are not acknowledged.
2. The byte layout of frame headers and of ChunkData (the narrowing to `u32`).
3. Of the commands `share` and `receive`: the history they record and the prompts
   around their sessions.

## 6. Not modelled

* The resumable receive, `do_receive_resumed`: no sender can make the receiver
  enter it.
* The strategies of conflict resolution other than LastWriteWins, exclusion
  patterns, the diff of two stored indices, `send_file_op` and
  `receive_file_op`: nothing in the program uses them, or they choose among paths
  only.
* Key generation, TLS, HMAC, xxHash and zstd: libraries, taken as injective,
  lossless and authentic.
* The scans of `discovery/`, which list and change nothing; the expiry of
  packets; several shares with one code.
* Symbolic links, permissions, limits of depth, file previews.
* Codes, addresses, QR codes, drawing, output, wording, statistics, logs: no
  state that a property is about.
* The network side of the self update, the package managers, the npm wrapper.
* The operating system's clipboard beyond what `ClipboardSync` takes it to
  promise.

`components` in `PROJECT.json` says for each part which of its operations are
modelled.
