---------------------------- MODULE SessionFile ----------------------------
(***************************************************************************)
(* sessions.json, through which the commands of one user show their        *)
(* transfers to the terminal UI (tui/session/state_file.rs): every command *)
(* adds its session before the transfer, writes its progress into it from  *)
(* a task of its own, and removes it afterwards.  Each of these loads the  *)
(* whole file, changes it and writes it back in place, without a lock.     *)
(* The UI polls the modification time (tui/session/watcher.rs), reloads    *)
(* the file on a change and can ask a command to stop (tui/app.rs).        *)
(*                                                                         *)
(* A write that follows a look at the modification time is taken to change *)
(* it, and a process identifier not to be used again.                      *)
(***************************************************************************)
EXTENDS Naturals, Sequences

CONSTANTS Cmds,        \* commands with a transfer session: share, receive, sync
          Clips,       \* clipboard sync commands
          EventRoom,   \* room in the watcher's channel, 16 in the code
          Ticks        \* bound: times a command writes its progress

ASSUME SessionAssumption == EventRoom \in Nat \ {0} /\ Cmds \cap Clips = {}

VARIABLES sfile,     \* sessions.json
          thread,    \* per thread of a command: its place and the copy it has loaded
          alive,     \* the commands that run
          expired,   \* the sessions whose time is over
          ticks,     \* progress still to be written
          ui,        \* the terminal UI is closed, has its watcher, or is open
          changed,   \* the file's modification time is not the one the watcher has seen
          events,    \* events the watcher has sent and the UI has not taken
          shown,     \* the sessions of commands that the UI shows
          shownClip, \* the clipboard session of a command that the UI shows
          clean      \* no two saves overlapped and no command was killed in one

sessionVars ==
  <<sfile, thread, alive, expired, ticks, ui, changed, events, shown, shownClip, clean>>
uiVars == <<ui, events, shown, shownClip>>

None == "none"
Commands == Cmds \cup Clips

\* The thread that runs a command, and the task that writes its progress.
Main(c) == <<c, "main">>
Task(c) == <<c, "task">>
Threads == {Main(c) : c \in Commands} \cup {Task(c) : c \in Cmds}

SessionStateFile == [sessions : SUBSET Cmds, clip : Clips \cup {None}]
EmptyFile == [sessions |-> {}, clip |-> None]
Torn == [is |-> "torn", has |-> EmptyFile]
Saved(file) == [is |-> "whole", has |-> file]

\* load_or_create: a file that cannot be parsed counts as empty; sessions that
\* have expired or whose process has ended are left out.
load_or_create ==
  IF sfile.is # "whole" THEN EmptyFile
  ELSE [sessions |-> (sfile.has.sessions \cap alive) \ expired,
        clip |-> IF sfile.has.clip \in alive THEN sfile.has.clip ELSE None]

SessionInit ==
  /\ sfile \in {[is |-> "absent", has |-> EmptyFile], Torn}
  /\ thread = [t \in Threads |-> [at |-> "idle", why |-> "add", copy |-> EmptyFile]]
  /\ alive = {} /\ expired = {} /\ ticks = [c \in Cmds |-> Ticks]
  /\ ui = "closed" /\ changed = FALSE /\ events = <<>>
  /\ shown = {} /\ shownClip = None /\ clean = TRUE

----------------------------------------------------------------------------
(* The threads of the commands.                                            *)

At(t, place) == t[1] \in alive /\ thread[t].at = place
Goto(t, place) == thread' = [thread EXCEPT ![t].at = place]

\* add_session, set_clipboard_sync and remove_session on a loaded file.
Added(c, file) == IF c \in Clips THEN [file EXCEPT !.clip = c]
                  ELSE [file EXCEPT !.sessions = @ \cup {c}]
Removed(c, file) == IF c \in Clips THEN [file EXCEPT !.clip = None]
                    ELSE [file EXCEPT !.sessions = @ \ {c}]

Begin(c) ==
  /\ c \notin alive /\ thread[Main(c)].at = "idle"
  /\ alive' = alive \cup {c}
  /\ Goto(Main(c), "load")
  /\ UNCHANGED <<sfile, expired, ticks, changed, clean>> /\ UNCHANGED uiVars

\* Some other thread has loaded the file and not yet written it back.
Overlaps(t) == \E other \in Threads \ {t} : At(other, "truncate") \/ At(other, "write")

\* Mutant: what is left when a session is removed is an empty file.
RemoveAll(t) ==
  /\ At(t, "load")
  /\ LET c == t[1]
         file == load_or_create
     IN  thread' = [thread EXCEPT ![t].at = "truncate",
           ![t].copy = CASE thread[t].why = "add"    -> Added(c, file)
                         [] thread[t].why = "remove" -> EmptyFile
                         [] OTHER                    -> file]
  /\ clean' = (clean /\ ~Overlaps(t))
  /\ UNCHANGED <<sfile, alive, expired, ticks, changed>> /\ UNCHANGED uiVars

\* The file is loaded and changed in memory.  Progress is only written for a
\* session that is still in the file.
Load(t) ==
  /\ At(t, "load")
  /\ LET c == t[1]
         file == load_or_create
         why == thread[t].why
     IN  IF why = "progress" /\ c \notin file.sessions THEN Goto(t, "run")
         ELSE thread' = [thread EXCEPT ![t].at = "truncate",
                ![t].copy = CASE why = "add"    -> Added(c, file)
                              [] why = "remove" -> Removed(c, file)
                              [] OTHER          -> file]
  /\ clean' = (clean /\ ~Overlaps(t))
  /\ UNCHANGED <<sfile, alive, expired, ticks, changed>> /\ UNCHANGED uiVars

\* save: the file is truncated, and then written.
Truncate(t) ==
  /\ At(t, "truncate")
  /\ sfile' = Torn /\ changed' = TRUE
  /\ Goto(t, "write")
  /\ UNCHANGED <<alive, expired, ticks, clean>> /\ UNCHANGED uiVars

\* A second writer may leave the end of what the first one had written.
Write(t) ==
  /\ At(t, "write")
  /\ sfile' \in {Saved(thread[t].copy)} \cup (IF sfile.is = "whole" THEN {Torn} ELSE {})
  /\ changed' = TRUE
  /\ LET done == IF thread[t].why = "remove" THEN "end" ELSE "run"
     IN  thread' = [u \in Threads |->
           IF u = t \/ (u = Task(t[1]) /\ thread[t].why = "add")
           THEN [at |-> IF u = t THEN done ELSE "run", why |-> "add", copy |-> EmptyFile]
           ELSE thread[u]]
  /\ UNCHANGED <<alive, expired, ticks, clean>> /\ UNCHANGED uiVars

\* update_session_state_once, from the task that follows the progress.
WriteProgress(c) ==
  /\ At(Task(c), "run") /\ ticks[c] > 0
  /\ ticks' = [ticks EXCEPT ![c] = @ - 1]
  /\ thread' = [thread EXCEPT ![Task(c)].at = "load", ![Task(c)].why = "progress"]
  /\ UNCHANGED <<sfile, alive, expired, changed, clean>> /\ UNCHANGED uiVars

\* The transfer, or the clipboard session, has ended one way or the other.
SessionEnds(c) ==
  /\ At(Main(c), "run")
  /\ thread' = [thread EXCEPT ![Main(c)].at = "load", ![Main(c)].why = "remove"]
  /\ UNCHANGED <<sfile, alive, expired, ticks, changed, clean>> /\ UNCHANGED uiVars

\* The share's code expires; a transfer that has begun goes on.
Expire(c) ==
  /\ At(Main(c), "run") /\ c \notin expired
  /\ expired' = expired \cup {c}
  /\ UNCHANGED <<sfile, thread, alive, ticks, changed, clean>> /\ UNCHANGED uiVars

Dies(c) ==
  /\ alive' = alive \ {c} /\ expired' = expired \ {c}
  /\ thread' = [t \in Threads |->
                  IF t[1] = c THEN [at |-> "over", why |-> "add", copy |-> EmptyFile]
                  ELSE thread[t]]
  /\ clean' = (clean /\ \A t \in Threads : t[1] = c => thread[t].at # "write")

\* The command waits for its task, asks its last question and returns.
Exit(c) ==
  /\ At(Main(c), "end")
  /\ c \in Cmds => At(Task(c), "run")
  /\ Dies(c)
  /\ UNCHANGED <<sfile, ticks, changed>> /\ UNCHANGED uiVars

\* The user ends a command, or it fails before it has removed its session.
Kill(c) ==
  /\ c \in alive
  /\ Dies(c)
  /\ UNCHANGED <<sfile, ticks, changed>> /\ UNCHANGED uiVars

----------------------------------------------------------------------------
(* The terminal UI.                                                        *)

\* App::new starts the watcher, which notes the modification time, and then
\* loads the file.
StartWatcher ==
  /\ ui = "closed"
  /\ ui' = "watching" /\ changed' = FALSE
  /\ UNCHANGED <<sfile, thread, alive, expired, ticks, events, shown, shownClip, clean>>

\* Mutant: the file as it is at the start is left to the watcher's first event.
FirstLoad_left ==
  /\ ui = "watching"
  /\ ui' = "open"
  /\ UNCHANGED <<sfile, thread, alive, expired, ticks, changed, events, shown, shownClip, clean>>
FirstLoad ==
  /\ ui = "watching"
  /\ ui' = "open"
  /\ shown' = load_or_create.sessions /\ shownClip' = load_or_create.clip
  /\ UNCHANGED <<sfile, thread, alive, expired, ticks, changed, events, clean>>

check_for_changes ==
  /\ ui # "closed" /\ changed /\ Len(events) < EventRoom
  /\ changed' = FALSE
  /\ events' = Append(events, "Modified")
  /\ UNCHANGED <<sfile, thread, alive, expired, ticks, ui, shown, shownClip, clean>>

\* poll_session_state and merge_cli_sessions.  A clipboard session that is
\* shown is kept, whatever the file says.
merge_cli_sessions ==
  /\ ui = "open" /\ events # <<>>
  /\ events' = Tail(events)
  /\ shown' = load_or_create.sessions
  /\ shownClip' = IF shownClip = None THEN load_or_create.clip ELSE shownClip
  /\ UNCHANGED <<sfile, thread, alive, expired, ticks, ui, changed, clean>>

\* The user cancels a session of a command: the process gets a signal, which
\* ends it, or is no longer there, and the session leaves the screen.
cancel_external_transfer(c) ==
  /\ ui = "open" /\ c \in shown
  /\ shown' = shown \ {c}
  /\ Dies(c)
  /\ UNCHANGED <<sfile, ticks, ui, changed, events, shownClip>>

----------------------------------------------------------------------------
ThreadSteps(t) == Load(t) \/ Truncate(t) \/ Write(t)

SessionNext ==
  \/ \E c \in Commands : Begin(c) \/ SessionEnds(c) \/ Exit(c) \/ Kill(c)
  \/ \E c \in Cmds : WriteProgress(c) \/ Expire(c) \/ cancel_external_transfer(c)
  \/ \E t \in Threads : ThreadSteps(t)
  \/ StartWatcher \/ FirstLoad \/ check_for_changes \/ merge_cli_sessions

\* A thread that is saving goes on, the watcher polls every half second and the
\* UI takes an event on every turn of its loop.  Nothing makes a transfer end.
SessionFairness ==
  /\ \A t \in Threads : WF_sessionVars(ThreadSteps(t))
  /\ WF_sessionVars(FirstLoad)
  /\ WF_sessionVars(check_for_changes)
  /\ WF_sessionVars(merge_cli_sessions)

----------------------------------------------------------------------------
SessionTypeOK ==
  /\ sfile.is \in {"absent", "torn", "whole"} /\ sfile.has \in SessionStateFile
  /\ \A t \in Threads : thread[t].copy \in SessionStateFile
  /\ alive \subseteq Commands /\ expired \subseteq Cmds
  /\ Len(events) <= EventRoom /\ shown \subseteq Cmds /\ shownClip \in Clips \cup {None}

\* What the read-modify-write without a lock costs, and no more: as long as no
\* two saves have overlapped and no command was killed in the middle of one,
\* every running session that has not expired is in the file whenever nobody
\* is saving, whatever other commands add, remove, abandon or find there
\* (state_file.rs load, add_session, remove_session).
ListedWhileRunning ==
  (clean /\ \A t \in Threads : ~At(t, "truncate") /\ ~At(t, "write"))
  => \A c \in Cmds \ expired : At(Main(c), "run") => c \in load_or_create.sessions

\* However saves, watcher and UI interleave, the UI ends up with exactly the
\* sessions of the file among the commands that still run (watcher.rs,
\* app.rs poll_session_state, merge_cli_sessions).
DisplayConverges ==
  <>[](ui = "open" => shown \cap (alive \ expired) = load_or_create.sessions)
=============================================================================
