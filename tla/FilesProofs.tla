---------------------------- MODULE FilesProofs -----------------------------
(***************************************************************************)
(* What is proved about the files that commands keep, in every behaviour   *)
(* of Yoop and each from an invariant of its own: the resume file is       *)
(* whole, a running session is listed, no store that cannot be read is     *)
(* replaced by one that has lost its entries, and the user's settings are  *)
(* in the configuration or a backup.                                       *)
(***************************************************************************)
EXTENDS Yoop, SequenceTheorems, TLAPS

(* The resume file.  It needs to be known at which points of a save the     *)
(* temporary file has been written and flushed; and the file that a power   *)
(* failure brings back is one of those the disk may hold.                   *)

\* No file, a whole state, or all that a failed write left of one.
Settled == 0 .. Saves \cup {Cut}

ResumeInv ==
  /\ tmp \in [has : ResumeFile, synced : BOOLEAN]
  /\ saver \in [at : {"idle", "write", "sync", "rename"}, state : 0 .. Saves]
  /\ final \in Settled
  /\ disk \subseteq Settled
  /\ saver.at = "rename" => tmp.synced /\ tmp.has \in Settled

\* Before the first save there is no file (resume.rs, ResumeManager).
LEMMA ResumeInvInit == YoopInit => ResumeInv
BY ResumeAssumption
   DEF YoopInit, DataInit, ResumeInit, ResumeInv, ResumeFile, Settled, Absent, Partial, Cut

\* Every step of a save, of the clean-up and of the environment keeps it
\* (resume.rs save, delete, cleanup_older_than).
LEMMA ResumeInvStep == ResumeInv /\ ResumeNext => ResumeInv'
<1> SUFFICES ASSUME ResumeInv, ResumeNext
             PROVE  ResumeInv'
  OBVIOUS
<1> USE ResumeAssumption DEF ResumeInv, ResumeFile, Settled, Absent, Partial, Cut, Saver
<1>1. CASE Create
  BY <1>1 DEF Create
<1>2. CASE WriteAll
  BY <1>2 DEF WriteAll
<1>3. CASE SyncAll
  <2>1. CASE UNCHANGED tmp /\ saver' = [saver EXCEPT !.at = "idle"]
    BY <1>3, <2>1 DEF SyncAll
  <2>2. ASSUME NEW written \in {saver.state, Cut},
               tmp' = [has |-> written, synced |-> TRUE],
               saver' = [saver EXCEPT !.at = "rename"]
        PROVE  ResumeInv'
    BY <1>3, <2>2 DEF SyncAll
  <2> QED
    BY <1>3, <2>1, <2>2 DEF SyncAll
<1>4. CASE Rename
  BY <1>4 DEF Rename
<1>5. CASE WriteBack
  BY <1>5 DEF WriteBack
<1>6. CASE Delete
  BY <1>6 DEF Delete
<1>7. CASE Age
  BY <1>7 DEF Age
<1>8. CASE CleanerLoads
  BY <1>8 DEF CleanerLoads
<1>9. CASE CleanerRemoves
  BY <1>9 DEF CleanerRemoves
<1>10. CASE SaverDies
  BY <1>10 DEF SaverDies
<1>11. CASE PowerFails
  BY <1>11 DEF PowerFails
<1> QED
  BY <1>1, <1>2, <1>3, <1>4, <1>5, <1>6, <1>7, <1>8, <1>9, <1>10, <1>11
     DEF ResumeNext

\* The other directories and the connections have no part in it.
LEMMA ResumeInvKept == ResumeInv /\ [YoopNext]_yoopVars => ResumeInv'
<1> SUFFICES ASSUME ResumeInv, [YoopNext]_yoopVars
             PROVE  ResumeInv'
  OBVIOUS
<1>1. CASE ResumeNext
  BY <1>1, ResumeInvStep
<1>2. CASE UNCHANGED resumeVars
  BY <1>2 DEF resumeVars, ResumeInv
<1> QED
  BY <1>1, <1>2 DEF YoopNext, DataNext, yoopVars, dataVars

\* However many states are saved, and whatever is killed, loses power or is
\* told of a failure during a save, the resume file does not hold a part of a
\* state; it may only after a background write whose error the save does not
\* see (resume.rs save).
THEOREM ResumeFileAlwaysWhole == YoopSpec => []ResumeFileIsWhole
<1>1. ResumeInv => ResumeFileIsWhole
  BY ResumeAssumption DEF ResumeInv, ResumeFileIsWhole, Settled, Partial, Cut
<1> QED
  BY <1>1, ResumeInvInit, ResumeInvKept, PTL DEF YoopSpec

-----------------------------------------------------------------------------
(* The session file.  While saves do not overlap there is at most one copy  *)
(* of the file in memory, and both name every session that must be listed;  *)
(* between truncating and writing only the copy does.                       *)

Places == {"idle", "load", "truncate", "write", "run", "end", "over"}
ThreadState == [at : Places, why : {"add", "remove", "progress"}, copy : SessionStateFile]
Savers == {t \in Threads : thread[t].at \in {"truncate", "write"}}
Writing == {t \in Threads : thread[t].at = "write"}
MustBeListed == {c \in Cmds \ expired : thread[Main(c)].at = "run"}

SessionTypes ==
  /\ thread \in [Threads -> ThreadState]
  /\ sfile \in [is : {"absent", "torn", "whole"}, has : SessionStateFile]
  /\ clean \in BOOLEAN
Living == \A t \in Threads : thread[t].at \notin {"idle", "over"} => t[1] \in alive
Purposes == \A t \in Threads : /\ thread[t].why = "remove" => t = Main(t[1])
                               /\ thread[t].why = "progress" => t # Main(t[1])
Adding == \A t \in Savers : thread[t].why = "add" /\ t[1] \in Cmds
                              => t[1] \in thread[t].copy.sessions
OneSaves == \A t, u \in Savers : t = u
CopyLists == \A t \in Savers : MustBeListed \subseteq thread[t].copy.sessions
FileLists ==
  IF Writing # {} THEN sfile.is = "torn"
  ELSE /\ MustBeListed \subseteq sfile.has.sessions
       /\ MustBeListed # {} => sfile.is = "whole"

SessionInv ==
  /\ SessionTypes /\ Living /\ Purposes /\ Adding
  /\ clean => OneSaves /\ CopyLists /\ FileLists

\* The threads of a command and their names.
LEMMA ThreadNames ==
  /\ \A t \in Threads : t[1] \in Commands
  /\ \A c \in Commands : Main(c) \in Threads
  /\ \A c \in Cmds : Task(c) \in Threads /\ c \in Commands
  /\ \A c : Main(c)[1] = c /\ Task(c)[1] = c
  /\ \A c, d : Main(c) # Task(d) /\ (Main(c) = Main(d) => c = d)
  BY DEF Threads, Main, Task, Commands

\* Nobody has started a command yet (SessionInit).
LEMMA SessionInvInit == YoopInit => SessionInv
<1> SUFFICES ASSUME YoopInit
             PROVE  SessionInv
  OBVIOUS
<1>1. SessionInit
  BY DEF YoopInit, DataInit
<1>2. EmptyFile \in SessionStateFile
  BY DEF EmptyFile, SessionStateFile
<1>3. SessionTypes
  BY <1>1, <1>2 DEF SessionInit, SessionTypes, ThreadState, Places, Torn
<1>4. /\ \A t \in Threads : thread[t].at = "idle" /\ thread[t].why = "add"
      /\ \A c \in Cmds : thread[Main(c)].at = "idle"
  BY <1>1, ThreadNames DEF SessionInit
<1>5. Savers = {} /\ Writing = {} /\ MustBeListed = {}
  BY <1>4 DEF Savers, Writing, MustBeListed
<1> QED
  BY <1>3, <1>4, <1>5 DEF SessionInv, Living, Purposes, Adding, OneSaves, CopyLists, FileLists

\* What a load returns: every running session the file names.
LEMMA Loads ==
  ASSUME SessionInv
  PROVE  /\ load_or_create \in SessionStateFile
         /\ FileLists /\ Writing = {} => MustBeListed \subseteq load_or_create.sessions
<1>1. EmptyFile \in SessionStateFile
  BY DEF EmptyFile, SessionStateFile
<1>2. sfile.has \in SessionStateFile
  BY DEF SessionInv, SessionTypes
<1>3. load_or_create \in SessionStateFile
  BY <1>1, <1>2 DEF load_or_create, SessionStateFile
<1>4. \A c \in MustBeListed : c \in alive /\ c \notin expired
  BY ThreadNames DEF SessionInv, Living, MustBeListed
<1> QED
  BY <1>3, <1>4 DEF load_or_create, FileLists

\* A step that begins no save and writes nothing leaves what is listed; one
\* that takes a thread out of its write leaves the file torn.
LEMMA NoNewSave ==
  ASSUME SessionInv, SessionTypes', Living', Purposes', sfile' = sfile,
         \A t \in Savers' : /\ t \in Savers /\ thread'[t].copy = thread[t].copy
                            /\ thread'[t].why = thread[t].why,
         clean' => clean /\ Writing' = Writing /\ MustBeListed' \subseteq MustBeListed
  PROVE  SessionInv'
<1>1. Adding'
  BY DEF SessionInv, Adding
<1>2. clean' => OneSaves'
  BY DEF SessionInv, OneSaves
<1>3. clean' => CopyLists'
  BY DEF SessionInv, CopyLists
<1>4. clean' => FileLists'
  BY DEF SessionInv, FileLists
<1> QED
  BY <1>1, <1>2, <1>3, <1>4 DEF SessionInv

\* A command begins: its threads were idle or are over.
LEMMA BeginListed ==
  ASSUME SessionInv, NEW c \in Commands, Begin(c)
  PROVE  SessionInv'
<1>1. /\ thread' = [thread EXCEPT ![Main(c)].at = "load"] /\ Main(c) \in Threads
      /\ UNCHANGED <<sfile, expired, clean>> /\ alive' = alive \cup {c}
  BY ThreadNames DEF Begin, Goto
<1>2. SessionTypes'
  BY <1>1 DEF SessionInv, SessionTypes, ThreadState, Places
<1>3. /\ \A t \in Threads : t # Main(c) => thread'[t] = thread[t]
      /\ thread'[Main(c)].at = "load" /\ thread'[Main(c)].why = thread[Main(c)].why
  BY <1>1 DEF SessionInv, SessionTypes, ThreadState
<1>4. Living' /\ Purposes'
  BY <1>1, <1>3, ThreadNames DEF SessionInv, Living, Purposes
<1>5. thread[Main(c)].at = "idle"
  BY DEF Begin
<1>6. /\ Writing' = Writing
      /\ \A t \in Savers' : t \in Savers /\ thread'[t] = thread[t]
  BY <1>3, <1>5 DEF Savers, Writing
<1>7. MustBeListed' \subseteq MustBeListed
  BY <1>1, <1>3, ThreadNames DEF MustBeListed
<1> QED
  BY <1>1, <1>2, <1>4, <1>6, <1>7, NoNewSave

\* A running command turns to its file: to write progress or to remove itself.
LEMMA TurnListed ==
  ASSUME SessionInv, NEW t \in Threads, thread[t].at = "run", NEW why \in {"remove", "progress"},
         why = "remove" <=> t = Main(t[1]),
         thread' = [thread EXCEPT ![t].at = "load", ![t].why = why],
         UNCHANGED <<sfile, alive, expired, clean>>
  PROVE  SessionInv'
<1>1. SessionTypes'
  <2>1. thread \in [Threads -> ThreadState]
    BY DEF SessionInv, SessionTypes
  <2>2. [thread[t] EXCEPT !.at = "load", !.why = why] \in ThreadState
    BY <2>1 DEF ThreadState, Places
  <2>3. thread' \in [Threads -> ThreadState]
    BY <2>1, <2>2
  <2> QED
    BY <2>3 DEF SessionInv, SessionTypes
<1>2. /\ \A u \in Threads : u # t => thread'[u] = thread[u]
      /\ thread'[t].at = "load" /\ thread'[t].why = why
  BY DEF SessionInv, SessionTypes, ThreadState
<1>3. Living' /\ Purposes'
  BY <1>2 DEF SessionInv, Living, Purposes
<1>4. /\ Writing' = Writing
      /\ \A u \in Savers' : u \in Savers /\ thread'[u] = thread[u]
  BY <1>2 DEF Savers, Writing
<1>5. MustBeListed' \subseteq MustBeListed
  BY <1>2, ThreadNames DEF MustBeListed
<1> QED
  BY <1>1, <1>3, <1>4, <1>5, NoNewSave

\* A thread goes back to its transfer when the session is no longer there.
LEMMA SkipListed ==
  ASSUME SessionInv, NEW t \in Threads, thread[t].at = "load", t # Main(t[1]),
         thread' = [thread EXCEPT ![t].at = "run"],
         UNCHANGED <<sfile, alive, expired>>, clean' \in BOOLEAN, clean' => clean
  PROVE  SessionInv'
<1>1. SessionTypes'
  BY DEF SessionInv, SessionTypes, ThreadState, Places
<1>2. /\ \A u \in Threads : u # t => thread'[u] = thread[u]
      /\ thread'[t].at = "run" /\ thread'[t].why = thread[t].why
  BY DEF SessionInv, SessionTypes, ThreadState
<1>3. Living' /\ Purposes'
  BY <1>2 DEF SessionInv, Living, Purposes
<1>4. /\ Writing' = Writing
      /\ \A u \in Savers' : u \in Savers /\ thread'[u] = thread[u]
  BY <1>2 DEF Savers, Writing
<1>5. MustBeListed' \subseteq MustBeListed
  BY <1>2, ThreadNames DEF MustBeListed
<1> QED
  BY <1>1, <1>3, <1>4, <1>5, NoNewSave

\* A command ends or is killed: unless it was writing, nothing is lost.
LEMMA DiesListed ==
  ASSUME SessionInv, NEW c, Dies(c), sfile' = sfile
  PROVE  SessionInv'
<1>1. /\ alive' = alive \ {c} /\ expired' = expired \ {c}
      /\ clean' = (clean /\ \A t \in Threads : t[1] = c => thread[t].at # "write")
      /\ thread' = [t \in Threads |->
                      IF t[1] = c THEN [at |-> "over", why |-> "add", copy |-> EmptyFile]
                      ELSE thread[t]]
  BY DEF Dies
<1>2. SessionTypes'
  BY <1>1 DEF SessionInv, SessionTypes, ThreadState, Places, EmptyFile, SessionStateFile
<1>3. /\ \A t \in Threads : t[1] # c => thread'[t] = thread[t]
      /\ \A t \in Threads : t[1] = c => thread'[t].at = "over" /\ thread'[t].why = "add"
  BY <1>1
<1>4. Living' /\ Purposes'
  BY <1>1, <1>3 DEF SessionInv, Living, Purposes
<1>5. /\ clean' => Writing' = Writing
      /\ \A t \in Savers' : t \in Savers /\ thread'[t] = thread[t]
  BY <1>1, <1>3 DEF Savers, Writing
<1>6. MustBeListed' \subseteq MustBeListed
  BY <1>1, <1>3, ThreadNames DEF MustBeListed
<1> QED
  BY <1>1, <1>2, <1>4, <1>5, <1>6, NoNewSave

\* A thread loads the file for a save.  Another that saves ends what is clean.
LEMMA LoadListed ==
  ASSUME SessionInv, NEW t \in Threads, NEW loaded \in SessionStateFile,
         thread[t].at = "load", thread' = [thread EXCEPT ![t].at = "truncate", ![t].copy = loaded],
         UNCHANGED <<sfile, alive, expired>>, clean' \in BOOLEAN,
         clean' => clean /\ Savers = {},
         thread[t].why = "add" /\ t[1] \in Cmds => t[1] \in loaded.sessions,
         clean' => MustBeListed \subseteq loaded.sessions
  PROVE  SessionInv'
<1>1. SessionTypes'
  <2>1. thread \in [Threads -> ThreadState]
    BY DEF SessionInv, SessionTypes
  <2>2. [thread[t] EXCEPT !.at = "truncate", !.copy = loaded] \in ThreadState
    BY <2>1 DEF ThreadState, Places
  <2>3. thread' \in [Threads -> ThreadState]
    BY <2>1, <2>2
  <2> QED
    BY <2>3 DEF SessionInv, SessionTypes
<1>2. /\ \A u \in Threads : u # t => thread'[u] = thread[u]
      /\ thread'[t].at = "truncate" /\ thread'[t].why = thread[t].why /\ thread'[t].copy = loaded
  BY DEF SessionInv, SessionTypes, ThreadState
<1>3. Living' /\ Purposes'
  BY <1>2 DEF SessionInv, Living, Purposes
<1>4. Writing' = Writing /\ Savers' = Savers \cup {t}
  BY <1>2 DEF Savers, Writing
<1>5. Adding'
  BY <1>2, <1>4 DEF SessionInv, Adding, Savers
<1>6. MustBeListed' \subseteq MustBeListed
  BY <1>2, ThreadNames DEF MustBeListed
<1>7. clean' => OneSaves' /\ CopyLists'
  BY <1>2, <1>4, <1>6 DEF OneSaves, CopyLists
<1>8. clean' => FileLists'
  BY <1>4, <1>6 DEF SessionInv, FileLists
<1> QED
  BY <1>1, <1>3, <1>5, <1>7, <1>8 DEF SessionInv

\* The file is truncated: from now on only the copy has the sessions.
LEMMA TruncateListed ==
  ASSUME SessionInv, NEW t \in Threads, Truncate(t)
  PROVE  SessionInv'
<1>1. /\ thread' = [thread EXCEPT ![t].at = "write"] /\ thread[t].at = "truncate"
      /\ sfile' = Torn /\ UNCHANGED <<alive, expired, clean>>
  BY DEF Truncate, Goto, At
<1>2. SessionTypes'
  BY <1>1 DEF SessionInv, SessionTypes, ThreadState, Places, Torn, EmptyFile, SessionStateFile
<1>3. /\ \A u \in Threads : u # t => thread'[u] = thread[u]
      /\ thread'[t].at = "write" /\ thread'[t].why = thread[t].why
      /\ thread'[t].copy = thread[t].copy
  BY <1>1 DEF SessionInv, SessionTypes, ThreadState
<1>4. Living' /\ Purposes'
  BY <1>1, <1>3 DEF SessionInv, Living, Purposes
<1>5. Savers' = Savers /\ Writing' # {}
  BY <1>1, <1>3 DEF Savers, Writing
<1>6. MustBeListed' \subseteq MustBeListed
  BY <1>1, <1>3, ThreadNames DEF MustBeListed
<1>7. Adding'
  BY <1>3, <1>5 DEF SessionInv, Adding, Savers
<1>8. clean' => OneSaves' /\ CopyLists'
  BY <1>1, <1>3, <1>5, <1>6 DEF SessionInv, OneSaves, CopyLists, Savers
<1>9. FileLists'
  BY <1>1, <1>5 DEF FileLists, Torn
<1> QED
  BY <1>2, <1>4, <1>7, <1>8, <1>9 DEF SessionInv

\* The copy is written, and a command that has added itself begins to run.
LEMMA WriteListed ==
  ASSUME SessionInv, NEW t \in Threads, Write(t)
  PROVE  SessionInv'
<1>1. /\ thread[t].at = "write" /\ t[1] \in alive /\ UNCHANGED <<alive, expired, clean>>
      /\ sfile' \in {Saved(thread[t].copy)} \cup (IF sfile.is = "whole" THEN {Torn} ELSE {})
      /\ thread' = [u \in Threads |->
           IF u = t \/ (u = Task(t[1]) /\ thread[t].why = "add")
           THEN [at |-> IF u = t THEN IF thread[t].why = "remove" THEN "end" ELSE "run" ELSE "run",
                 why |-> "add", copy |-> EmptyFile]
           ELSE thread[u]]
  BY DEF Write, At
<1>2. /\ thread \in [Threads -> ThreadState] /\ thread[t].copy \in SessionStateFile
      /\ EmptyFile \in SessionStateFile
  BY DEF SessionInv, SessionTypes, ThreadState, EmptyFile, SessionStateFile
<1>3. SessionTypes'
  BY <1>1, <1>2 DEF SessionInv, SessionTypes, ThreadState, Places, Saved, Torn
<1>4. /\ \A u \in Threads \ {t, Task(t[1])} : thread'[u] = thread[u]
      /\ \A u \in Threads : \/ thread'[u] = thread[u] /\ u # t
                            \/ thread'[u].at \in {"run", "end"} /\ thread'[u].why = "add"
      /\ thread'[t].at = IF thread[t].why = "remove" THEN "end" ELSE "run"
  BY <1>1
<1>5. Living' /\ Purposes'
  BY <1>1, <1>4, ThreadNames DEF SessionInv, Living, Purposes
<1>6. \A u \in Savers' : u \in Savers \ {t} /\ thread'[u] = thread[u]
  BY <1>4 DEF Savers
<1>7. Adding'
  BY <1>6 DEF SessionInv, Adding
<1>8. t \in Savers /\ t \in Writing
  BY <1>1 DEF Savers, Writing
<1>9. clean => Savers' = {} /\ Writing' = {}
  BY <1>6, <1>8 DEF SessionInv, OneSaves, Savers, Writing
<1>10. clean => sfile' = Saved(thread[t].copy)
  BY <1>1, <1>8 DEF SessionInv, FileLists
<1>11. clean => MustBeListed' \subseteq thread[t].copy.sessions
  <2>1. ASSUME NEW c \in MustBeListed', clean
        PROVE  c \in thread[t].copy.sessions
    <3>1. c \in Cmds \ expired /\ thread'[Main(c)].at = "run" /\ Main(c) \in Threads
      BY <1>1, <2>1, ThreadNames DEF MustBeListed
    <3>2. CASE Main(c) = t
      <4>1. t[1] = c
        BY <3>2, ThreadNames
      <4>2. thread[t].why # "remove" /\ thread[t].why # "progress"
        BY <1>4, <3>1, <3>2, <4>1 DEF SessionInv, Purposes
      <4>3. thread[t].why = "add"
        BY <1>2, <4>2 DEF ThreadState
      <4> QED
        BY <1>8, <3>1, <4>1, <4>3 DEF SessionInv, Adding
    <3>3. CASE Main(c) # t
      <4>1. thread'[Main(c)] = thread[Main(c)]
        BY <1>4, <3>1, <3>3, ThreadNames
      <4> QED
        BY <1>8, <2>1, <3>1, <4>1 DEF SessionInv, CopyLists, MustBeListed
    <3> QED
      BY <3>2, <3>3
  <2> QED
    BY <2>1
<1>12. clean' => OneSaves' /\ CopyLists' /\ FileLists'
  BY <1>1, <1>9, <1>10, <1>11 DEF OneSaves, CopyLists, FileLists, Saved
<1> QED
  BY <1>3, <1>5, <1>7, <1>12 DEF SessionInv

\* A thread loads the file (Load), for a save or for nothing.
LEMMA LoadKeeps ==
  ASSUME SessionInv, NEW t \in Threads, Load(t)
  PROVE  SessionInv'
<1>1. /\ thread[t].at = "load" /\ UNCHANGED <<sfile, alive, expired>>
      /\ clean' = (clean /\ ~Overlaps(t)) /\ clean' \in BOOLEAN
  BY DEF Load, At, SessionInv, SessionTypes
<1>2. clean' => clean /\ Savers = {}
  <2>1. clean' => ~Overlaps(t) /\ clean
    BY <1>1
  <2>2. ASSUME NEW u \in Savers, ~Overlaps(t)
        PROVE  FALSE
    <3>1. u \in Threads \ {t} /\ thread[u].at \in {"truncate", "write"}
      BY <1>1, <2>2 DEF Savers
    <3>2. u[1] \in alive
      BY <3>1 DEF SessionInv, Living
    <3> QED
      BY <2>2, <3>1, <3>2 DEF Overlaps, At
  <2> QED
    BY <2>1, <2>2
<1>3. clean' => MustBeListed \subseteq load_or_create.sessions
  <2>1. Savers = {} => Writing = {}
    BY DEF Savers, Writing
  <2> QED
    BY <1>2, <2>1, Loads DEF SessionInv
<1>4. /\ load_or_create \in SessionStateFile /\ t[1] \in Commands
      /\ thread[t].why \in {"add", "remove", "progress"}
  BY Loads, ThreadNames DEF SessionInv, SessionTypes, ThreadState
<1>5. CASE thread[t].why = "progress" /\ t[1] \notin load_or_create.sessions
  <2>1. thread' = [thread EXCEPT ![t].at = "run"]
    BY <1>5 DEF Load, Goto
  <2>2. t # Main(t[1])
    BY <1>5 DEF SessionInv, Purposes
  <2> QED
    BY <1>1, <2>1, <2>2, SkipListed
<1>6. CASE thread[t].why = "progress" /\ t[1] \in load_or_create.sessions
  <2>1. thread' = [thread EXCEPT ![t].at = "truncate", ![t].copy = load_or_create]
    BY <1>6 DEF Load
  <2> QED
    BY <1>1, <1>2, <1>3, <1>4, <1>6, <2>1, LoadListed
<1>7. CASE thread[t].why = "add"
  <2>1. thread' = [thread EXCEPT ![t].at = "truncate", ![t].copy = Added(t[1], load_or_create)]
    BY <1>7 DEF Load
  <2>2. /\ Added(t[1], load_or_create) \in SessionStateFile
        /\ load_or_create.sessions \subseteq Added(t[1], load_or_create).sessions
        /\ t[1] \in Cmds => t[1] \in Added(t[1], load_or_create).sessions
    BY <1>4, SessionAssumption DEF Added, SessionStateFile, Commands
  <2> QED
    BY <1>1, <1>2, <1>3, <2>1, <2>2, LoadListed
<1>8. CASE thread[t].why = "remove"
  <2>1. thread' = [thread EXCEPT ![t].at = "truncate", ![t].copy = Removed(t[1], load_or_create)]
    BY <1>8 DEF Load
  <2>2. t[1] \notin MustBeListed
    BY <1>1, <1>8 DEF SessionInv, Purposes, MustBeListed
  <2>3. /\ Removed(t[1], load_or_create) \in SessionStateFile
        /\ load_or_create.sessions \ {t[1]} \subseteq Removed(t[1], load_or_create).sessions
    BY <1>4 DEF Removed, SessionStateFile, Commands
  <2> QED
    BY <1>1, <1>2, <1>3, <1>8, <2>1, <2>2, <2>3, LoadListed
<1> QED
  BY <1>4, <1>5, <1>6, <1>7, <1>8

\* The invariant of the session file, over every step of a run.
LEMMA SessionInvKept == SessionInv /\ [YoopNext]_yoopVars => SessionInv'
<1> SUFFICES ASSUME SessionInv, [YoopNext]_yoopVars
             PROVE  SessionInv'
  OBVIOUS
<1>1. CASE SessionNext
  <2>1. ASSUME NEW c \in Commands, Begin(c) PROVE SessionInv'
    BY <2>1, BeginListed
  <2>2. ASSUME NEW c \in Commands, SessionEnds(c) PROVE SessionInv'
    <3>1. /\ thread[Main(c)].at = "run" /\ Main(c) \in Threads /\ Main(c)[1] = c
          /\ thread' = [thread EXCEPT ![Main(c)].at = "load", ![Main(c)].why = "remove"]
          /\ UNCHANGED <<sfile, alive, expired, clean>>
      BY <2>2, ThreadNames DEF SessionEnds, At
    <3> QED
      BY <3>1, TurnListed
  <2>3. ASSUME NEW c \in Commands, Exit(c) \/ Kill(c) PROVE SessionInv'
    BY <2>3, DiesListed DEF Exit, Kill
  <2>4. ASSUME NEW c \in Cmds, WriteProgress(c) PROVE SessionInv'
    <3>1. /\ thread[Task(c)].at = "run" /\ Task(c) \in Threads /\ Task(c) # Main(Task(c)[1])
          /\ thread' = [thread EXCEPT ![Task(c)].at = "load", ![Task(c)].why = "progress"]
          /\ UNCHANGED <<sfile, alive, expired, clean>>
      BY <2>4, ThreadNames DEF WriteProgress, At
    <3> QED
      BY <3>1, TurnListed
  <2>5. ASSUME NEW c \in Cmds, Expire(c) PROVE SessionInv'
    <3>1. UNCHANGED <<sfile, thread, alive, clean>> /\ expired \subseteq expired'
      BY <2>5 DEF Expire
    <3>2. /\ Writing' = Writing /\ Savers' = Savers /\ MustBeListed' \subseteq MustBeListed
          /\ SessionTypes' /\ Living' /\ Purposes'
      BY <3>1 DEF Writing, Savers, MustBeListed, SessionInv, SessionTypes, Living, Purposes
    <3> QED
      BY <3>1, <3>2, NoNewSave
  <2>6. ASSUME NEW c \in Cmds, cancel_external_transfer(c) PROVE SessionInv'
    BY <2>6, DiesListed DEF cancel_external_transfer
  <2>7. ASSUME NEW t \in Threads, ThreadSteps(t) PROVE SessionInv'
    BY <2>7, LoadKeeps, TruncateListed, WriteListed DEF ThreadSteps
  <2>8. CASE StartWatcher \/ FirstLoad \/ check_for_changes \/ merge_cli_sessions
    <3>1. UNCHANGED <<sfile, thread, alive, expired, clean>>
      BY <2>8 DEF StartWatcher, FirstLoad, check_for_changes, merge_cli_sessions
    <3> QED
      BY <3>1 DEF SessionInv, SessionTypes, Living, Purposes, Adding, OneSaves, CopyLists,
                  FileLists, Savers, Writing, MustBeListed
  <2> QED
    BY <1>1, <2>1, <2>2, <2>3, <2>4, <2>5, <2>6, <2>7, <2>8 DEF SessionNext
<1>2. CASE UNCHANGED sessionVars
  <2>1. UNCHANGED <<sfile, thread, alive, expired, clean>>
    BY <1>2 DEF sessionVars
  <2> QED
    BY <2>1 DEF SessionInv, SessionTypes, Living, Purposes, Adding, OneSaves, CopyLists,
                FileLists, Savers, Writing, MustBeListed
<1> QED
  BY <1>1, <1>2 DEF YoopNext, DataNext, yoopVars, dataVars

\* What the read-modify-write without a lock costs, and no more, for any number
\* of commands: while saves do not overlap and none is cut off, the file names
\* every running session whenever nobody is saving.
THEOREM SessionsAlwaysListed == YoopSpec => []ListedWhileRunning
<1>1. SessionInv => ListedWhileRunning
  <2> SUFFICES ASSUME SessionInv, clean,
                      \A t \in Threads : ~At(t, "truncate") /\ ~At(t, "write"),
                      NEW c \in Cmds \ expired, At(Main(c), "run")
               PROVE  c \in load_or_create.sessions
    BY DEF ListedWhileRunning
  <2>1. ASSUME NEW t \in Savers PROVE FALSE
    BY <2>1 DEF SessionInv, Living, Savers, At
  <2>2. Writing = {}
    BY <2>1 DEF Writing, Savers
  <2>3. c \in MustBeListed
    BY DEF MustBeListed, At
  <2> QED
    BY <2>2, <2>3, Loads DEF SessionInv
<1> QED
  BY <1>1, SessionInvInit, SessionInvKept, PTL DEF YoopSpec

-----------------------------------------------------------------------------
(* The stores.  A command is the list of its remaining steps, so the        *)
(* invariant is about lists: a store is only ever overwritten by what was   *)
(* read from a file of its name, and what needs the number of a backup      *)
(* comes after the step that makes one.                                     *)

BaseNames == {l[1] : l \in Locations}
OwnStores == {"trust", "history"}

\* What a file or a command's memory may hold: what is not whole has nothing.
Proper == {c \in Content : c.is # "whole" => ~c.own}
\* A store that can be read has everything in it.
Unharmed(c) == c.is = "whole" => c.own

\* The steps of commands; only those of NumberedSteps need the number of a backup.
CopySteps ==
  {s \in [op : {"copy", "fill"}, f : Locations, from : Locations] : s.f[1] = s.from[1]}
PlainSteps ==
  [op : {"read", "open", "put"}, f : Locations] \cup CopySteps
    \cup [op : {"cleanup", "migrate", "up", "restore", "undo"}]
NumberedSteps == [op : {"guard", "record", "add_to_manifest"}]
BackupSteps == [op : {"backup"}, dir : {"data", "conf"}]
AnyStep == PlainSteps \cup NumberedSteps \cup BackupSteps

\* What needs the number of a backup comes after the step that makes it.
Ready(todo, id) ==
  id \in Ids \/ \A i \in DOMAIN todo :
                  todo[i] \in NumberedSteps => \E j \in 1 .. (i - 1) : todo[j] \in BackupSteps

JobState ==
  [todo : Seq(AnyStep), rescue : Seq(CopySteps), id : Ids \cup {0}, mem : [BaseNames -> Proper]]
JobOk(j) ==
  /\ j \in JobState
  /\ Ready(j.todo, j.id)
  /\ \A f \in OwnStores : Unharmed(j.mem[f])

StoresInv ==
  /\ stored \in [Locations -> Proper]
  /\ \A f \in Locations : f[1] \in OwnStores => Unharmed(stored[f])
  /\ job = [p \in Procs |-> job[p]] /\ \A p \in Procs : JobOk(job[p])
  /\ made \in 0 .. MaxMade /\ same \in BOOLEAN

-----------------------------------------------------------------------------
(* Lists of steps.                                                          *)

\* Each kind of step is known by its op.
LEMMA StepKinds ==
  /\ \A s \in PlainSteps : s \notin NumberedSteps /\ s \notin BackupSteps
  /\ \A s \in BackupSteps : s.op = "backup" /\ s \notin NumberedSteps
  /\ \A s \in AnyStep : s.op = "backup" => s \in BackupSteps
  /\ \A s \in AnyStep : s.op \in {"guard", "record", "add_to_manifest"} => s \in NumberedSteps
  /\ \A s \in AnyStep : s.op \in {"read", "open", "put"} => s.f \in Locations
  /\ \A s \in AnyStep : s.op \in {"copy", "fill"} => s \in CopySteps
  /\ PlainSteps \subseteq AnyStep /\ CopySteps \subseteq PlainSteps
<1>1. \A s \in PlainSteps : s.op \in {"read", "open", "put", "copy", "fill", "cleanup", "migrate",
                                 "up", "restore", "undo"}
  BY DEF PlainSteps, CopySteps
<1>2. \A s \in NumberedSteps : s.op \in {"guard", "record", "add_to_manifest"}
  BY DEF NumberedSteps
<1>3. \A s \in BackupSteps : s.op = "backup"
  BY DEF BackupSteps
<1>4. \A s \in AnyStep : s.op \in {"read", "open", "put"} => s.f \in Locations
  BY <1>2, <1>3 DEF AnyStep, PlainSteps, CopySteps
<1>5. \A s \in AnyStep : s.op \in {"copy", "fill"} => s \in CopySteps
  BY <1>2, <1>3 DEF AnyStep, PlainSteps
<1> QED
  BY <1>1, <1>2, <1>3, <1>4, <1>5 DEF AnyStep, PlainSteps

\* A list of plain steps is ready, whatever the number.
LEMMA PlainReady ==
  ASSUME NEW q \in Seq(PlainSteps), NEW id
  PROVE  q \in Seq(AnyStep) /\ Ready(q, id)
<1>1. \A i \in DOMAIN q : q[i] \in PlainSteps
  OBVIOUS
<1>2. q \in Seq(AnyStep)
  BY StepKinds
<1> QED
  BY <1>1, <1>2, StepKinds DEF Ready

\* Two lists that are ready are one that is.
LEMMA ConcatReady ==
  ASSUME NEW q \in Seq(AnyStep), NEW r \in Seq(AnyStep), NEW id, Ready(q, id), Ready(r, id)
  PROVE  q \o r \in Seq(AnyStep) /\ Ready(q \o r, id)
<1>1. q \o r \in Seq(AnyStep)
  OBVIOUS
<1>2. CASE id \in Ids
  BY <1>1, <1>2 DEF Ready
<1>3. CASE id \notin Ids
  <2> SUFFICES ASSUME NEW i \in DOMAIN (q \o r), (q \o r)[i] \in NumberedSteps
               PROVE  \E j \in 1 .. (i - 1) : (q \o r)[j] \in BackupSteps
    BY <1>1 DEF Ready
  <2>1. CASE i <= Len(q)
    <3>1. i \in DOMAIN q /\ (q \o r)[i] = q[i]
      BY <2>1
    <3>2. PICK j \in 1 .. (i - 1) : q[j] \in BackupSteps
      BY <1>3, <3>1 DEF Ready
    <3>3. (q \o r)[j] = q[j]
      BY <2>1, <3>2
    <3> QED
      BY <3>2, <3>3
  <2>2. CASE i > Len(q)
    <3>1. i - Len(q) \in DOMAIN r /\ (q \o r)[i] = r[i - Len(q)]
      BY <2>2
    <3>2. PICK j \in 1 .. (i - Len(q) - 1) : r[j] \in BackupSteps
      BY <1>3, <3>1 DEF Ready
    <3>3. j + Len(q) \in 1 .. (i - 1) /\ (q \o r)[j + Len(q)] = r[j]
      BY <2>2, <3>1, <3>2
    <3> QED
      BY <3>2, <3>3
  <2> QED
    BY <2>1, <2>2
<1> QED
  BY <1>2, <1>3

\* The rest of a list that is ready is ready when its first step is done.
LEMMA RestReady ==
  ASSUME NEW q \in Seq(AnyStep), q # <<>>, NEW id, Ready(q, id)
  PROVE  /\ Head(q) \in AnyStep /\ Tail(q) \in Seq(AnyStep)
         /\ Head(q) \notin BackupSteps => Ready(Tail(q), id)
         /\ Head(q) \in NumberedSteps => id \in Ids
<1>1. Head(q) = q[1] /\ Head(q) \in AnyStep /\ Tail(q) \in Seq(AnyStep) /\ 1 \in DOMAIN q
  OBVIOUS
<1>2. ASSUME Head(q) \notin BackupSteps, id \notin Ids
      PROVE  Ready(Tail(q), id)
  <2> SUFFICES ASSUME NEW i \in DOMAIN Tail(q), Tail(q)[i] \in NumberedSteps
               PROVE  \E j \in 1 .. (i - 1) : Tail(q)[j] \in BackupSteps
    BY DEF Ready
  <2>1. i + 1 \in DOMAIN q /\ Tail(q)[i] = q[i + 1]
    OBVIOUS
  <2>2. PICK j \in 1 .. i : q[j] \in BackupSteps
    BY <1>2, <2>1 DEF Ready
  <2>3. j # 1 /\ j - 1 \in 1 .. (i - 1) /\ Tail(q)[j - 1] = q[j]
    BY <1>1, <1>2, <2>1, <2>2
  <2> QED
    BY <2>2, <2>3
<1>3. Head(q) \in NumberedSteps => id \in Ids
  BY <1>1 DEF Ready
<1> QED
  BY <1>1, <1>2, <1>3 DEF Ready

-----------------------------------------------------------------------------
(* The lists the commands are made of.                                      *)

Backed == {FILES_TO_BACKUP[i] : i \in 1 .. 4}

LEMMA BackedNames ==
  /\ Backed = {"config", "history", "trust", "migration_state"}
  /\ \A i \in 1 .. 4 : FILES_TO_BACKUP[i] \in Backed
  BY DEF Backed, FILES_TO_BACKUP

\* Where files are, and their base names.
LEMMA PlacesHave ==
  /\ \A f \in Locations : f[1] \in BaseNames
  /\ Backed \subseteq BaseNames /\ "manifest" \in BaseNames /\ OwnStores \subseteq Backed
  /\ \A n \in Backed, dir \in {"data", "conf"} :
       Source(n, dir) \in Locations /\ Source(n, dir)[1] = n
  /\ \A n \in Backed : Store(n) \in Locations /\ Store(n)[1] = n
  /\ config_path \in Locations /\ config_path[1] = "config"
  /\ \A n \in Backed, id \in Ids : Kept(n, id) \in Locations /\ Kept(n, id)[1] = n
  /\ Manifest \in Locations /\ Manifest[1] = "manifest"
<1>1. Locations = (Backed \X {"data", "conf"} \X {0}) \cup (Backed \X {"backup"} \X Ids)
                    \cup {Manifest}
  BY DEF Locations, Backed
<1>2. \A n \in Backed, dir \in {"data", "conf"} :
        /\ <<n, dir, 0>> \in Locations
        /\ Source(n, dir) \in {<<n, "data", 0>>, <<n, "conf", 0>>}
  BY <1>1 DEF Source
<1>3. \A n \in Backed, dir \in {"data", "conf"} :
        Source(n, dir) \in Locations /\ Source(n, dir)[1] = n
  <2> TAKE n \in Backed, dir \in {"data", "conf"}
  <2>1. <<n, "data", 0>> \in Locations /\ <<n, "conf", 0>> \in Locations
    BY <1>2
  <2>2. CASE Source(n, dir) = <<n, "data", 0>>
    BY <2>1, <2>2
  <2>3. CASE Source(n, dir) = <<n, "conf", 0>>
    BY <2>1, <2>3
  <2> QED
    BY <1>2, <2>2, <2>3
<1>4. \A n \in Backed, id \in Ids : Kept(n, id) \in Locations /\ Kept(n, id)[1] = n
  BY <1>1 DEF Kept
<1>5. Manifest \in Locations /\ Manifest[1] = "manifest"
  BY <1>1 DEF Manifest
<1>6. \A f \in Locations : f[1] \in BaseNames
  BY DEF BaseNames
<1>7. Backed \subseteq BaseNames
  BY <1>3, <1>6
<1>8. config_path \in Locations /\ config_path[1] = "config"
  BY <1>3, BackedNames DEF config_path
<1>9. \A n \in Backed : Store(n) \in Locations /\ Store(n)[1] = n
  BY <1>3 DEF Store
<1>10. OwnStores \subseteq Backed
  BY BackedNames DEF OwnStores
<1>11. "manifest" \in BaseNames
  BY <1>5, <1>6
<1> QED
  BY <1>3, <1>4, <1>5, <1>6, <1>7, <1>8, <1>9, <1>10, <1>11

\* Short lists of steps.
LEMMA Lists ==
  ASSUME NEW S
  PROVE  /\ <<>> \in Seq(S)
         /\ \A a \in S : <<a>> \in Seq(S)
         /\ \A a, b \in S : <<a, b>> \in Seq(S)
         /\ \A a, b, c \in S : <<a, b, c>> \in Seq(S)
         /\ \A q, r \in Seq(S) : q \o r \in Seq(S)
         /\ \A g \in [1 .. 4 -> S] : g \in Seq(S)
<1>1. /\ <<>> \in Seq(S)
      /\ \A a \in S : <<a>> \in Seq(S)
  OBVIOUS
<1>2. /\ \A a, b \in S : <<a, b>> \in Seq(S)
      /\ \A a, b, c \in S : <<a, b, c>> \in Seq(S)
  OBVIOUS
<1>3. \A q, r \in Seq(S) : q \o r \in Seq(S)
  OBVIOUS
<1>4. \A g \in [1 .. 4 -> S] : g \in Seq(S)
  <2> TAKE g \in [1 .. 4 -> S]
  <2>1. \E n \in Nat : g \in [1 .. n -> S]
    OBVIOUS
  <2> QED
    BY <2>1, SeqDef
<1> QED
  BY <1>1, <1>2, <1>3, <1>4

\* The plain steps.
LEMMA StepsAre ==
  /\ \A f \in Locations : read(f) \in PlainSteps /\ open(f) \in PlainSteps /\ put(f) \in PlainSteps
  /\ \A f, g \in Locations : f[1] = g[1] => copy(f, g) \in CopySteps /\ fill(f, g) \in CopySteps
  /\ \A op \in {"cleanup", "migrate", "up", "restore", "undo"} : do(op) \in PlainSteps
  /\ \A op \in {"guard", "record", "add_to_manifest"} : do(op) \in NumberedSteps
  /\ \A dir \in {"data", "conf"} : backup(dir) \in BackupSteps
<1>1. \A f \in Locations : read(f) \in PlainSteps /\ open(f) \in PlainSteps /\ put(f) \in PlainSteps
  BY DEF read, open, put, PlainSteps
<1>2. \A f, g \in Locations : f[1] = g[1] => copy(f, g) \in CopySteps /\ fill(f, g) \in CopySteps
  BY DEF copy, fill, CopySteps
<1>3. \A op \in {"cleanup", "migrate", "up", "restore", "undo"} : do(op) \in PlainSteps
  BY DEF do, PlainSteps
<1>4. \A op \in {"guard", "record", "add_to_manifest"} : do(op) \in NumberedSteps
  BY DEF do, NumberedSteps
<1>5. \A dir \in {"data", "conf"} : backup(dir) \in BackupSteps
  BY DEF backup, BackupSteps
<1> QED
  BY <1>1, <1>2, <1>3, <1>4, <1>5

LEMMA OverwriteReady ==
  ASSUME NEW f \in Locations PROVE Overwrite(f) \in Seq(PlainSteps)
  BY StepsAre, Lists DEF Overwrite

\* What is copied to and from a backup keeps its base name.
LEMMA CopiesReady ==
  ASSUME NEW id \in Ids, NEW dir \in {"data", "conf"}
  PROVE  CopyTo(id, dir) \in Seq(CopySteps) /\ restore_backup(id, dir) \in Seq(CopySteps)
<1>1. ASSUME NEW i \in 1 .. 4
      PROVE  /\ copy(Source(FILES_TO_BACKUP[i], dir), Kept(FILES_TO_BACKUP[i], id)) \in CopySteps
             /\ copy(Kept(FILES_TO_BACKUP[i], id), Source(FILES_TO_BACKUP[i], dir)) \in CopySteps
  BY BackedNames, PlacesHave, StepsAre
<1> QED
  BY <1>1, Lists DEF CopyTo, restore_backup

\* create_backup, once it has its number.
LEMMA BackupReady ==
  ASSUME NEW id \in Ids, NEW dir \in {"data", "conf"}
  PROVE  create_backup(id, dir) \in Seq(AnyStep)
<1>1. CopyTo(id, dir) \in Seq(AnyStep)
  BY CopiesReady, StepKinds
<1>2. read(Manifest) \in AnyStep /\ do("add_to_manifest") \in AnyStep /\ do("cleanup") \in AnyStep
  BY StepsAre, PlacesHave, StepKinds DEF AnyStep
<1>3. Overwrite(Manifest) \in Seq(AnyStep)
  BY OverwriteReady, PlacesHave, StepKinds
<1> QED
  BY <1>1, <1>2, <1>3, Lists DEF create_backup

LEMMA LoadReady == load_config \in Seq(PlainSteps)
  BY StepsAre, PlacesHave, BackedNames, Lists DEF load_config, migrate_if_needed

\* The steps of a command and those of a migration, which makes a backup first.
LEMMA ProgramReady ==
  /\ \A command \in {"trust", "history", "load", "save", "update", "rollback"}, id \in Ids \cup {0} :
       Program(command) \in Seq(AnyStep) /\ Ready(Program(command), id)
  /\ \A id \in Ids \cup {0} : run_migration \in Seq(AnyStep) /\ Ready(run_migration, id)
<1> USE BackedNames
<1>1. ASSUME NEW command \in {"trust", "history", "load", "save", "rollback"}
      PROVE  Program(command) \in Seq(PlainSteps)
  <2>1. CASE command \in {"trust", "history"}
    <3>1. Program(command) = <<read(Store(command))>> \o Overwrite(Store(command))
      BY <2>1 DEF Program
    <3> QED
      BY <2>1, <3>1, StepsAre, PlacesHave, OverwriteReady, Lists
  <2>2. CASE command = "load"
    BY <2>2, LoadReady DEF Program
  <2>3. CASE command = "save"
    <3>1. Program(command) = load_config \o Overwrite(config_path)
      BY <2>3 DEF Program
    <3> QED
      BY <3>1, LoadReady, OverwriteReady, PlacesHave, Lists
  <2>4. CASE command = "rollback"
    BY <2>4, StepsAre, PlacesHave, Lists DEF Program
  <2> QED
    BY <2>1, <2>2, <2>3, <2>4
<1>2. ASSUME NEW id \in Ids \cup {0}
      PROVE  Program("update") \in Seq(AnyStep) /\ Ready(Program("update"), id)
  <2>1. Program("update") = load_config \o <<backup("conf")>>
    BY DEF Program
  <2>2. load_config \in Seq(AnyStep) /\ Ready(load_config, id)
    BY LoadReady, PlainReady
  <2>3. backup("conf") \in BackupSteps /\ backup("conf") \notin NumberedSteps
    BY StepsAre, StepKinds
  <2>4. <<backup("conf")>> \in Seq(AnyStep) /\ Ready(<<backup("conf")>>, id)
    BY <2>3 DEF Ready, AnyStep
  <2> QED
    BY <2>1, <2>2, <2>4, ConcatReady
<1>3. ASSUME NEW id \in Ids \cup {0}
      PROVE  run_migration \in Seq(AnyStep) /\ Ready(run_migration, id)
  <2>1. Overwrite(Store("migration_state")) \in Seq(AnyStep)
    BY OverwriteReady, PlacesHave, StepKinds
  <2>2. /\ backup("data") \in AnyStep /\ backup("data") \in BackupSteps
        /\ read(Store("migration_state")) \in AnyStep /\ do("guard") \in AnyStep
        /\ do("up") \in AnyStep /\ do("record") \in AnyStep
    BY StepsAre, PlacesHave DEF AnyStep
  <2>3. run_migration \in Seq(AnyStep) /\ run_migration[1] = backup("data")
    BY <2>1, <2>2 DEF run_migration
  <2>4. \A i \in DOMAIN run_migration : run_migration[i] \in NumberedSteps => 1 \in 1 .. (i - 1)
    BY <2>2, <2>3, StepKinds
  <2> QED
    BY <2>2, <2>3, <2>4 DEF Ready
<1> QED
  BY <1>1, <1>2, <1>3, PlainReady

-----------------------------------------------------------------------------
(* What files hold, and where a command goes on.                            *)

LEMMA Contents ==
  /\ \A how \in {"absent", "empty", "garbage"} : Bad(how) \in Proper /\ Unharmed(Bad(how))
  /\ \A own \in BOOLEAN, schema \in 0 .. 2, list \in Seq(Ids) :
       Whole(own, schema, list) \in Proper /\ (own => Unharmed(Whole(own, schema, list)))
  /\ \A c \in Proper : c.list \in Seq(Ids)
  /\ \A c \in Proper, list \in Seq(Ids) : [c EXCEPT !.list = list] \in Proper
  /\ \A c \in Proper, schema \in 0 .. 2 : [c EXCEPT !.schema = schema] \in Proper
<1>1. \A how \in {"absent", "empty", "garbage"} : Bad(how) \in Proper /\ Unharmed(Bad(how))
  BY DEF Bad, Proper, Content, Unharmed
<1>2. \A own \in BOOLEAN, schema \in 0 .. 2, list \in Seq(Ids) :
        Whole(own, schema, list) \in Proper /\ (own => Unharmed(Whole(own, schema, list)))
  BY DEF Whole, Proper, Content, Unharmed
<1>3. \A c \in Proper, list \in Seq(Ids) : [c EXCEPT !.list = list] \in Proper
  BY DEF Proper, Content
<1>4. \A c \in Proper, schema \in 0 .. 2 : [c EXCEPT !.schema = schema] \in Proper
  BY DEF Proper, Content
<1> QED
  BY <1>1, <1>2, <1>3, <1>4 DEF Proper, Content

\* What the manifest and the migration state are replaced by.
LEMMA Records == \A list \in Seq(Ids) : Whole(TRUE, 2, list) \in Proper
  BY DEF Whole, Proper, Content

\* What is read from a file that can be parsed.
LEMMA ReadsProper ==
  ASSUME StoresInv, NEW f \in Locations
  PROVE  /\ Found(f) \in Proper /\ Loaded(f) \in Proper
         /\ f[1] \in OwnStores /\ ~Damaged(f) => Unharmed(Loaded(f))
<1>1. stored[f] \in Proper /\ (f[1] \in OwnStores => Unharmed(stored[f]))
  BY DEF StoresInv
<1>2. <<>> \in Seq(Ids)
  OBVIOUS
<1>3. /\ Whole(TRUE, 2, <<>>) \in Proper /\ Unharmed(Whole(TRUE, 2, <<>>))
      /\ Whole(FALSE, 1, <<>>) \in Proper
  BY <1>2 DEF Whole, Proper, Content, Unharmed
<1>4. Found(f) \in Proper
  BY <1>1, <1>3 DEF Found
<1>6. Loaded(f) \in Proper
  <2>1. [Found(f) EXCEPT !.schema = 2] \in Proper
    BY <1>4 DEF Proper, Content
  <2> QED
    BY <1>4, <2>1 DEF Loaded
<1>5. ASSUME f[1] \in OwnStores, ~Damaged(f)
      PROVE  Unharmed(Loaded(f))
  <2>1. Loaded(f) = Found(f) /\ f[1] # "config"
    BY <1>5, PlacesHave DEF Loaded, OwnStores
  <2>2. stored[f].is \in {"whole", "absent"}
    BY <1>1, <1>5, <2>1 DEF Damaged, Proper, Content
  <2>3. CASE stored[f].is = "whole"
    BY <1>1, <1>5, <2>1, <2>3 DEF Found
  <2>4. CASE stored[f].is = "absent"
    BY <1>3, <2>1, <2>4 DEF Found
  <2> QED
    BY <2>2, <2>3, <2>4
<1> QED
  BY <1>4, <1>5, <1>6

\* The step a command is at, and those that come after it.
LEMMA AtStep ==
  ASSUME StoresInv, NEW p \in Procs, ~Idle(p)
  PROVE  /\ job[p] \in JobState /\ \A f \in OwnStores : Unharmed(job[p].mem[f])
         /\ Head(job[p].todo) \in AnyStep /\ Rest(p) \in Seq(AnyStep)
         /\ Head(job[p].todo) \notin BackupSteps => Ready(Rest(p), job[p].id)
         /\ Head(job[p].todo) \in NumberedSteps => job[p].id \in Ids
         /\ Ready(job[p].todo, job[p].id)
<1>1. /\ job[p] \in JobState /\ Ready(job[p].todo, job[p].id)
      /\ \A f \in OwnStores : Unharmed(job[p].mem[f])
  BY DEF StoresInv, JobOk
<1>2. job[p].todo \in Seq(AnyStep) /\ job[p].todo # <<>>
  BY <1>1 DEF JobState, Idle
<1> QED
  BY <1>1, <1>2, RestReady DEF Rest

LEMMA NoJobOk == JobOk(NoJob) /\ NoJob \in JobState
<1>1. Bad("absent") \in Proper /\ Unharmed(Bad("absent"))
  BY Contents
<1>2. NoJob = [todo |-> <<>>, rescue |-> <<>>, id |-> 0, mem |-> [f \in BaseNames |-> Bad("absent")]]
  BY DEF NoJob, BaseNames
<1>3. OwnStores \subseteq BaseNames
  BY PlacesHave
<1>4. NoJob \in JobState
  BY <1>1, <1>2 DEF JobState
<1>5. Ready(NoJob.todo, NoJob.id)
  BY <1>2 DEF Ready
<1> QED
  BY <1>1, <1>2, <1>3, <1>4, <1>5 DEF JobOk

JobsOk == job = [p \in Procs |-> job[p]] /\ \A p \in Procs : JobOk(job[p])

\* A command goes on with other steps, or ends.
LEMMA DoKeeps ==
  ASSUME StoresInv, NEW p \in Procs, NEW steps \in Seq(AnyStep), NEW now \in JobState,
         Ready(steps, now.id), \A f \in OwnStores : Unharmed(now.mem[f]),
         Do(p, steps, now)
  PROVE  JobsOk'
<1> DEFINE j == IF steps = <<>> THEN NoJob ELSE [now EXCEPT !.todo = steps]
<1>1. JobOk([now EXCEPT !.todo = steps])
  <2>1. [now EXCEPT !.todo = steps] \in JobState
    BY DEF JobState
  <2>2. /\ [now EXCEPT !.todo = steps].todo = steps
        /\ [now EXCEPT !.todo = steps].id = now.id
        /\ [now EXCEPT !.todo = steps].mem = now.mem
    BY DEF JobState
  <2> QED
    BY <2>1, <2>2 DEF JobOk
<1>2. JobOk(j)
  BY <1>1, NoJobOk
<1>3. job' = [job EXCEPT ![p] = j]
  BY DEF Do
<1> HIDE DEF j
<1>4. job' = [q \in Procs |-> IF q = p THEN j ELSE job[q]]
  BY <1>3 DEF StoresInv
<1> QED
  BY <1>2, <1>4 DEF JobsOk, StoresInv

\* The forms of a step that leaves the number of the backup alone.
LEMMA GoesOn ==
  ASSUME StoresInv, NEW p \in Procs, ~Idle(p), Head(job[p].todo) \notin BackupSteps,
         NEW steps \in Seq(AnyStep), Ready(steps, job[p].id)
  PROVE  /\ Next1(p, steps) => JobsOk'
         /\ \A f \in BaseNames, content \in Proper :
              Keep(p, f, content, steps) /\ (f \in OwnStores => Unharmed(content)) => JobsOk'
<1> DEFINE later == steps \o Rest(p)
<1>1. later \in Seq(AnyStep) /\ Ready(later, job[p].id) /\ job[p] \in JobState
  BY AtStep, ConcatReady
<1>2. \A f \in OwnStores : Unharmed(job[p].mem[f])
  BY AtStep
<1>3. ASSUME NEW f \in BaseNames, NEW content \in Proper, f \in OwnStores => Unharmed(content)
      PROVE  /\ [job[p] EXCEPT !.mem[f] = content] \in JobState
             /\ [job[p] EXCEPT !.mem[f] = content].id = job[p].id
             /\ \A g \in OwnStores : Unharmed([job[p] EXCEPT !.mem[f] = content].mem[g])
  BY <1>1, <1>2, <1>3, PlacesHave DEF JobState
<1> HIDE DEF later
<1>4. Next1(p, steps) => JobsOk'
  <2>1. Next1(p, steps) => Do(p, later, job[p])
    BY DEF Next1, later
  <2> QED
    BY <1>1, <1>2, <2>1, DoKeeps
<1>5. ASSUME NEW f \in BaseNames, NEW content \in Proper,
             Keep(p, f, content, steps), f \in OwnStores => Unharmed(content)
      PROVE  JobsOk'
  <2>1. Do(p, later, [job[p] EXCEPT !.mem[f] = content])
    BY <1>5 DEF Keep, later
  <2> QED
    BY <1>1, <1>3, <1>5, <2>1, DoKeeps
<1> QED
  BY <1>4, <1>5

\* A step fails.
LEMMA FailKeeps ==
  ASSUME StoresInv, NEW p \in Procs, Fail(p)
  PROVE  JobsOk'
<1>1. /\ job[p] \in JobState /\ job[p].rescue \in Seq(CopySteps)
      /\ \A f \in OwnStores : Unharmed(job[p].mem[f])
  BY DEF StoresInv, JobOk, JobState
<1>2. [job[p] EXCEPT !.rescue = <<>>] \in JobState
  <2>1. <<>> \in Seq(CopySteps)
    OBVIOUS
  <2>2. \A q \in Seq(CopySteps) : [job[p] EXCEPT !.rescue = q] \in JobState
    BY <1>1 DEF JobState
  <2> QED
    BY <2>1, <2>2
<1>3. /\ [job[p] EXCEPT !.rescue = <<>>].id = job[p].id
      /\ [job[p] EXCEPT !.rescue = <<>>].mem = job[p].mem
  BY <1>1 DEF JobState
<1>4. job[p].rescue \in Seq(AnyStep) /\ Ready(job[p].rescue, job[p].id)
  BY <1>1, StepKinds, PlainReady
<1> QED
  BY <1>1, <1>2, <1>3, <1>4, DoKeeps DEF Fail

\* A file is now or not.
LEMMA StoresKept ==
  ASSUME StoresInv, JobsOk', UNCHANGED same, made' \in 0 .. MaxMade,
         \/ UNCHANGED stored
         \/ \E f \in Locations, content \in Proper :
              /\ stored' = [stored EXCEPT ![f] = content]
              /\ f[1] \in OwnStores => Unharmed(content)
  PROVE  StoresInv'
<1>1. stored \in [Locations -> Proper]
      /\ \A f \in Locations : f[1] \in OwnStores => Unharmed(stored[f])
  BY DEF StoresInv
<1>2. /\ stored' \in [Locations -> Proper]
      /\ \A f \in Locations : f[1] \in OwnStores => Unharmed(stored'[f])
  <2>1. CASE UNCHANGED stored
    BY <1>1, <2>1
  <2>2. ASSUME NEW f \in Locations, NEW content \in Proper,
               stored' = [stored EXCEPT ![f] = content],
               f[1] \in OwnStores => Unharmed(content)
        PROVE  /\ stored' \in [Locations -> Proper]
               /\ \A g \in Locations : g[1] \in OwnStores => Unharmed(stored'[g])
    BY <1>1, <2>2
  <2> QED
    BY <2>1, <2>2
<1> QED
  BY <1>2 DEF StoresInv, JobsOk

-----------------------------------------------------------------------------
(* The steps.                                                               *)

\* A command starts (yoop-cli/src/commands).
LEMMA StartKeeps ==
  ASSUME StoresInv, NEW p \in Procs,
         NEW command \in {"trust", "history", "load", "save", "update", "rollback"},
         Start(p, command)
  PROVE  StoresInv'
<1>1. Do(p, Program(command), NoJob) /\ UNCHANGED <<stored, same, made>>
  BY DEF Start
<1>2. Program(command) \in Seq(AnyStep) /\ Ready(Program(command), NoJob.id)
  <2>1. NoJob.id = 0
    BY DEF NoJob
  <2> QED
    BY <2>1, ProgramReady
<1>3. JobsOk'
  BY <1>1, <1>2, NoJobOk, DoKeeps DEF JobOk
<1> QED
  BY <1>1, <1>3, StoresKept DEF StoresInv

\* What a step at a file finds: the file, and what the command remembers of it.
LEMMA AtFile ==
  ASSUME StoresInv, NEW p \in Procs,
         NEW op \in {"read", "open", "put", "copy", "fill"}, Doing(p, op)
  PROVE  /\ ~Idle(p) /\ Head(job[p].todo) \notin BackupSteps
         /\ Target(p) \in Locations /\ Target(p)[1] \in BaseNames
         /\ Mem(p, Target(p)[1]) \in Proper
         /\ Target(p)[1] \in OwnStores => Unharmed(Mem(p, Target(p)[1]))
<1>1. ~Idle(p) /\ Head(job[p].todo).op = op
  BY DEF Doing
<1>2. Head(job[p].todo) \in AnyStep /\ Head(job[p].todo) \notin BackupSteps
  BY <1>1, AtStep, StepKinds
<1>3. Target(p) \in Locations
  BY <1>1, <1>2, StepKinds DEF Target, CopySteps
<1>4. Target(p)[1] \in BaseNames
  BY <1>3, PlacesHave
<1>5. job[p].mem \in [BaseNames -> Proper] /\ \A f \in OwnStores : Unharmed(job[p].mem[f])
  BY <1>1, AtStep DEF JobState
<1> QED
  BY <1>1, <1>2, <1>3, <1>4, <1>5 DEF Mem

\* The steps that read, open and write one file (load_from, save).
LEMMA FileKeeps ==
  ASSUME StoresInv, NEW p \in Procs, Read(p) \/ Open(p) \/ Put(p)
  PROVE  StoresInv'
<1>1. UNCHANGED <<same, made>>
  BY DEF Read, Open, Put
<1>2. <<>> \in Seq(AnyStep) /\ Ready(<<>>, job[p].id)
  BY DEF Ready
<1>3. CASE Read(p)
  <2>1. Doing(p, "read") /\ UNCHANGED stored
    BY <1>3 DEF Read
  <2>2. CASE Damaged(Target(p))
    BY <1>1, <1>3, <2>1, <2>2, FailKeeps, StoresKept DEF Read, StoresInv
  <2>3. CASE ~Damaged(Target(p))
    <3>1. Keep(p, Target(p)[1], Loaded(Target(p)), <<>>)
      BY <1>3, <2>3 DEF Read
    <3>2. /\ ~Idle(p) /\ Head(job[p].todo) \notin BackupSteps
          /\ Target(p) \in Locations /\ Target(p)[1] \in BaseNames
      BY <2>1, AtFile
    <3>3. /\ Loaded(Target(p)) \in Proper
          /\ Target(p)[1] \in OwnStores => Unharmed(Loaded(Target(p)))
      BY <2>3, <3>2, ReadsProper
    <3>4. JobsOk'
      BY <1>2, <3>1, <3>2, <3>3, GoesOn
    <3> QED
      BY <1>1, <2>1, <3>4, StoresKept DEF StoresInv
  <2> QED
    BY <2>2, <2>3
<1>4. ASSUME NEW op \in {"open", "put"}, Doing(p, op), Next1(p, <<>>), NEW content \in Proper,
             stored' = [stored EXCEPT ![Target(p)] = content],
             Target(p)[1] \in OwnStores => Unharmed(content)
      PROVE  StoresInv'
  <2>1. ~Idle(p) /\ Head(job[p].todo) \notin BackupSteps /\ Target(p) \in Locations
    BY <1>4, AtFile
  <2>2. JobsOk'
    BY <1>2, <1>4, <2>1, GoesOn
  <2> QED
    BY <1>1, <1>4, <2>1, <2>2, StoresKept DEF StoresInv
<1>5. CASE Open(p)
  BY <1>4, <1>5, Contents DEF Open
<1>6. CASE Put(p)
  <2>1. Doing(p, "put") /\ Next1(p, <<>>)
    BY <1>6 DEF Put
  <2>2. PICK content \in Outcomes(Target(p), Mem(p, Target(p)[1])) :
          stored' = [stored EXCEPT ![Target(p)] = content]
    BY <1>6 DEF Put
  <2>3. content \in {Mem(p, Target(p)[1]), Bad("garbage")}
    BY <2>2 DEF Outcomes
  <2>4. content \in Proper /\ (Target(p)[1] \in OwnStores => Unharmed(content))
    BY <2>1, <2>3, AtFile, Contents
  <2> QED
    BY <1>4, <2>1, <2>2, <2>4
<1> QED
  BY <1>3, <1>5, <1>6

\* A file is copied to one of the same name, in or out of a backup (backup.rs).
LEMMA CopyKeeps ==
  ASSUME StoresInv, NEW p \in Procs, Copy(p) \/ Fill(p)
  PROVE  StoresInv'
<1> DEFINE from == Head(job[p].todo).from
<1>1. UNCHANGED <<same, made>> /\ (Doing(p, "copy") \/ Doing(p, "fill"))
  BY DEF Copy, Fill
<1>2. /\ ~Idle(p) /\ Head(job[p].todo) \notin BackupSteps /\ Head(job[p].todo) \in CopySteps
      /\ Target(p) \in Locations /\ from \in Locations /\ Target(p)[1] = from[1]
  <2>1. ~Idle(p) /\ Head(job[p].todo).op \in {"copy", "fill"}
    BY <1>1 DEF Doing
  <2>2. Head(job[p].todo) \in CopySteps
    BY <2>1, AtStep, StepKinds
  <2> QED
    BY <2>1, <2>2, StepKinds DEF CopySteps, Target
<1>3. stored[from] \in Proper /\ (Target(p)[1] \in OwnStores => Unharmed(stored[from]))
  BY <1>2 DEF StoresInv
<1> HIDE DEF from
<1>4. ASSUME NEW steps \in Seq(PlainSteps), Next1(p, steps) PROVE JobsOk'
  <2>1. steps \in Seq(AnyStep) /\ Ready(steps, job[p].id)
    BY PlainReady
  <2> QED
    BY <1>2, <1>4, <2>1, GoesOn
<1>5. fill(from, Target(p)) \in PlainSteps
  BY <1>2, StepsAre, StepKinds
<1>6. CASE Copy(p)
  <2>1. \/ UNCHANGED stored /\ Next1(p, <<>>)
        \/ stored' = [stored EXCEPT ![Target(p)] = Bad("empty")] /\ Next1(p, <<fill(from, Target(p))>>)
    BY <1>6 DEF Copy, from
  <2>2. JobsOk'
    BY <1>4, <1>5, <2>1, Lists
  <2> QED
    BY <1>1, <1>2, <2>1, <2>2, StoresKept, Contents DEF StoresInv
<1>7. CASE Fill(p)
  <2>1. PICK content \in Outcomes(Target(p), stored[from]) :
          stored' = [stored EXCEPT ![Target(p)] = content]
    BY <1>7 DEF Fill, from
  <2>2. content \in {stored[from], Bad("garbage")}
    BY <2>1 DEF Outcomes
  <2>3. content \in Proper /\ (Target(p)[1] \in OwnStores => Unharmed(content))
    BY <1>3, <2>2, Contents
  <2>4. JobsOk'
    BY <1>4, <1>7, Lists DEF Fill
  <2> QED
    BY <1>1, <1>2, <2>1, <2>3, <2>4, StoresKept DEF StoresInv
<1> QED
  BY <1>6, <1>7

\* What a command remembers of a file.
LEMMA Remembers ==
  ASSUME StoresInv, NEW p \in Procs, NEW f \in BaseNames, ~Idle(p)
  PROVE  Mem(p, f) \in Proper /\ Mem(p, f).list \in Seq(Ids)
<1>1. Mem(p, f) \in Proper
  BY AtStep DEF Mem, JobState
<1> QED
  BY <1>1, Contents

\* The directories made in this second are among those that have been made.
Recent == second \in [{"data", "conf"} -> 0 .. made]

\* The directory of a backup is one made in this second, or the next one.
LEMMA BackupNames ==
  ASSUME StoresInv, Recent, NEW p \in Procs, Backup(p)
  PROVE  \E id \in Ids :
           /\ ~Idle(p) /\ Head(job[p].todo).op = "backup" /\ UNCHANGED <<stored, same>>
           /\ Do(p, create_backup(id, Head(job[p].todo).dir) \o Rest(p),
                 [job[p] EXCEPT !.id = id])
           /\ shared' \/ (made' = made + 1 /\ id = made')
           /\ made' \in 0 .. MaxMade /\ (shared => shared') /\ Recent'
<1> DEFINE version == Head(job[p].todo).dir
           none == [v \in DOMAIN second |-> 0]
<1>1. ~Idle(p) /\ Head(job[p].todo).op = "backup" /\ UNCHANGED <<stored, same>>
  BY DEF Backup, Doing
<1>2. version \in {"data", "conf"} /\ made \in 0 .. MaxMade /\ made \in Nat
  BY <1>1, AtStep, StepKinds, StoresAssumption DEF BackupSteps, StoresInv
<1>3. PICK now \in {second, none} :
        LET id == IF now[version] # 0 THEN now[version] ELSE made + 1 IN
        /\ id \in Ids
        /\ made' = IF now[version] # 0 THEN made ELSE id
        /\ second' = [now EXCEPT ![version] = id]
        /\ shared' = (shared \/ now[version] # 0)
        /\ Do(p, create_backup(id, version) \o Rest(p), [job[p] EXCEPT !.id = id])
  BY DEF Backup
<1>4. now \in [{"data", "conf"} -> 0 .. made]
  BY <1>2 DEF Recent
<1> HIDE DEF version, none
<1>5. CASE now[version] # 0
  <2>1. /\ now[version] \in Ids /\ made' = made /\ shared'
        /\ second' = [now EXCEPT ![version] = now[version]]
        /\ Do(p, create_backup(now[version], version) \o Rest(p),
              [job[p] EXCEPT !.id = now[version]])
    BY <1>3, <1>5
  <2>2. Recent'
    BY <1>2, <1>4, <2>1 DEF Recent
  <2> QED
    BY <1>1, <1>2, <2>1, <2>2, Zenon DEF version
<1>6. CASE now[version] = 0
  <2>1. /\ made + 1 \in Ids /\ made' = made + 1 /\ second' = [now EXCEPT ![version] = made + 1]
        /\ shared => shared'
        /\ Do(p, create_backup(made + 1, version) \o Rest(p), [job[p] EXCEPT !.id = made + 1])
    BY <1>3, <1>6
  <2>2. made' \in 0 .. MaxMade
    BY <1>2, <2>1, StoresAssumption DEF Ids
  <2>3. Recent'
    BY <1>2, <1>4, <2>1 DEF Recent
  <2> QED
    BY <1>1, <2>1, <2>2, <2>3, Zenon DEF version
<1> QED
  BY <1>5, <1>6

LEMMA BackupKeeps ==
  ASSUME StoresInv, Recent, NEW p \in Procs, Backup(p)
  PROVE  StoresInv' /\ Recent'
<1>1. PICK id \in Ids :
        /\ ~Idle(p) /\ Head(job[p].todo).op = "backup" /\ UNCHANGED <<stored, same>>
        /\ Do(p, create_backup(id, Head(job[p].todo).dir) \o Rest(p),
              [job[p] EXCEPT !.id = id])
        /\ made' \in 0 .. MaxMade /\ Recent'
  BY BackupNames
<1> DEFINE dir == Head(job[p].todo).dir
           steps == create_backup(id, dir) \o Rest(p)
<1>3. job[p] \in JobState /\ Head(job[p].todo) \in AnyStep /\ Rest(p) \in Seq(AnyStep)
      /\ \A f \in OwnStores : Unharmed(job[p].mem[f])
  BY <1>1, AtStep
<1>4. dir \in {"data", "conf"}
  BY <1>1, <1>3, StepKinds DEF BackupSteps
<1>5. steps \in Seq(AnyStep)
  BY <1>3, <1>4, BackupReady, Lists
<1>9. Do(p, steps, [job[p] EXCEPT !.id = id])
  BY <1>1
<1> HIDE DEF steps, dir
<1>6. /\ [job[p] EXCEPT !.id = id] \in JobState
      /\ [job[p] EXCEPT !.id = id].id = id
      /\ [job[p] EXCEPT !.id = id].mem = job[p].mem
  BY <1>3 DEF JobState
<1>7. Ready(steps, id)
  BY DEF Ready
<1>8. JobsOk'
  BY <1>3, <1>5, <1>6, <1>7, <1>9, DoKeeps
<1> QED
  BY <1>1, <1>8, StoresKept

\* A step that changes what the command remembers of a file, if that.
LEMMA MemoryKeeps ==
  ASSUME StoresInv, NEW p \in Procs, NEW op, Doing(p, op), op # "backup",
         UNCHANGED <<stored, same, made>>, NEW steps \in Seq(PlainSteps),
         \/ Next1(p, steps)
         \/ Fail(p)
         \/ \E f \in BaseNames \ OwnStores, content \in Proper : Keep(p, f, content, steps)
  PROVE  StoresInv'
<1>1. ~Idle(p) /\ Head(job[p].todo) \notin BackupSteps
  BY StepKinds DEF Doing
<1>2. steps \in Seq(AnyStep) /\ Ready(steps, job[p].id)
  BY PlainReady
<1>3. JobsOk'
  BY <1>1, <1>2, GoesOn, FailKeeps
<1> QED
  BY <1>3, StoresKept DEF StoresInv

\* The manifest of the backups (add_to_manifest, cleanup).
LEMMA ManifestKeeps ==
  ASSUME StoresInv, NEW p \in Procs, AddToManifest(p) \/ Cleanup(p)
  PROVE  StoresInv'
<1>1. "manifest" \in BaseNames \ OwnStores
  BY PlacesHave DEF OwnStores
<1>2. ~Idle(p) /\ UNCHANGED <<same, made>>
  BY DEF AddToManifest, Cleanup, Doing
<1>3. Mem(p, "manifest") \in Proper /\ Mem(p, "manifest").list \in Seq(Ids)
  BY <1>1, <1>2, Remembers
<1>4. <<>> \in Seq(PlainSteps) /\ Overwrite(Manifest) \in Seq(PlainSteps)
  BY OverwriteReady, PlacesHave
<1>5. CASE AddToManifest(p)
  <2>1. Doing(p, "add_to_manifest") /\ UNCHANGED stored
    BY <1>5 DEF AddToManifest
  <2>2. job[p].id \in Ids
    BY <1>2, <2>1, AtStep, StepKinds DEF Doing
  <2>3. Append(Mem(p, "manifest").list, job[p].id) \in Seq(Ids)
    BY <1>3, <2>2
  <2>4. [Mem(p, "manifest") EXCEPT !.list = Append(Mem(p, "manifest").list, job[p].id)] \in Proper
    BY <1>3, <2>3, Contents
  <2>5. \E content \in Proper : Keep(p, "manifest", content, <<>>)
    BY <1>5, <2>4 DEF AddToManifest
  <2> QED
    BY <1>1, <1>2, <1>4, <2>1, <2>5, MemoryKeeps
<1>6. CASE Cleanup(p)
  <2> DEFINE known == Mem(p, "manifest").list
  <2>1. Doing(p, "cleanup")
    BY <1>6 DEF Cleanup
  <2>2. CASE Len(known) <= MaxBackups
    <3>1. Next1(p, <<>>) /\ UNCHANGED stored
      BY <1>6, <2>2 DEF Cleanup
    <3> QED
      BY <1>2, <1>4, <2>1, <3>1, MemoryKeeps
  <2>3. CASE ~(Len(known) <= MaxBackups)
    <3>1. /\ Keep(p, "manifest", Whole(TRUE, 2, Tail(known)), Overwrite(Manifest))
          /\ stored' = [f \in Locations |->
                          IF f[2] = "backup" /\ f[3] = Head(known) THEN Bad("absent") ELSE stored[f]]
      BY <1>6, <2>3 DEF Cleanup
    <3>2. Tail(known) \in Seq(Ids)
      <4>1. Len(known) > 0
        BY <1>3, <2>3, StoresAssumption
      <4> QED
        BY <1>3, <4>1
    <3>3. Whole(TRUE, 2, Tail(known)) \in Proper
      BY <3>2, Records
    <3>4. JobsOk'
      <4>1. Overwrite(Manifest) \in Seq(AnyStep) /\ Ready(Overwrite(Manifest), job[p].id)
        BY <1>4, PlainReady
      <4>2. Head(job[p].todo) \notin BackupSteps
        BY <2>1, StepKinds DEF Doing
      <4> HIDE DEF known
      <4> QED
        BY <1>1, <1>2, <3>1, <3>3, <4>1, <4>2, GoesOn
    <3>5. Bad("absent") \in Proper /\ Unharmed(Bad("absent"))
      BY Contents
    <3> HIDE DEF known
    <3>6. /\ stored' \in [Locations -> Proper]
          /\ \A f \in Locations : f[1] \in OwnStores => Unharmed(stored'[f])
      BY <3>1, <3>5 DEF StoresInv
    <3> QED
      BY <1>2, <3>4, <3>6 DEF StoresInv, JobsOk
  <2> QED
    BY <2>2, <2>3
<1> QED
  BY <1>5, <1>6

\* The steps of a migration (migration/mod.rs run, v0_1_to_v0_2.rs up).
LEMMA MigrationKeeps ==
  ASSUME StoresInv, NEW p \in Procs, Migrate(p) \/ Guard(p) \/ Up(p) \/ Record(p)
  PROVE  StoresInv'
<1>1. ~Idle(p) /\ UNCHANGED <<stored, same, made>>
  BY DEF Migrate, Guard, Up, Record, Doing
<1>2. <<>> \in Seq(PlainSteps)
  OBVIOUS
<1>3. CASE Migrate(p)
  <2>1. Doing(p, "migrate") /\ (Next1(p, <<>>) \/ Next1(p, run_migration))
    BY <1>3 DEF Migrate
  <2>2. Head(job[p].todo) \notin BackupSteps /\ job[p].id \in Ids \cup {0}
    BY <1>1, <2>1, StepKinds, AtStep DEF Doing, JobState
  <2>3. Next1(p, run_migration) => JobsOk'
    BY <1>1, <2>2, ProgramReady, GoesOn
  <2> QED
    BY <1>1, <1>2, <2>1, <2>3, MemoryKeeps, StoresKept DEF StoresInv
<1>4. CASE Guard(p)
  <2>1. Head(job[p].todo).op = "guard"
        /\ Do(p, Rest(p), [job[p] EXCEPT !.rescue = restore_backup(job[p].id, "data")])
    BY <1>4 DEF Guard, Doing
  <2>2. /\ job[p] \in JobState /\ Rest(p) \in Seq(AnyStep) /\ Ready(Rest(p), job[p].id)
        /\ job[p].id \in Ids /\ \A f \in OwnStores : Unharmed(job[p].mem[f])
    BY <1>1, <2>1, AtStep, StepKinds
  <2> DEFINE back == restore_backup(job[p].id, "data")
  <2>3. back \in Seq(CopySteps)
    BY <2>2, CopiesReady
  <2> HIDE DEF back
  <2>4. /\ [job[p] EXCEPT !.rescue = back] \in JobState
        /\ [job[p] EXCEPT !.rescue = back].id = job[p].id
        /\ [job[p] EXCEPT !.rescue = back].mem = job[p].mem
    BY <2>2, <2>3 DEF JobState
  <2>5. JobsOk'
    BY <2>1, <2>2, <2>4, DoKeeps DEF back
  <2> QED
    BY <1>1, <2>5, StoresKept DEF StoresInv
<1>5. CASE Up(p)
  <2>1. Doing(p, "up") /\ "config" \in BaseNames \ OwnStores
    BY <1>5, PlacesHave, BackedNames DEF Up, OwnStores
  <2>2. config_path \in Locations /\ Overwrite(config_path) \in Seq(PlainSteps)
    BY PlacesHave, OverwriteReady
  <2>3. [Found(config_path) EXCEPT !.schema = 2] \in Proper
    <3>1. Found(config_path) \in Proper
      BY <2>2, ReadsProper
    <3> QED
      BY <3>1 DEF Proper, Content
  <2>4. \/ Next1(p, <<>>) \/ Fail(p)
        \/ Keep(p, "config", [Found(config_path) EXCEPT !.schema = 2], Overwrite(config_path))
    BY <1>5 DEF Up
  <2> QED
    BY <1>1, <1>2, <2>1, <2>2, <2>3, <2>4, MemoryKeeps
<1>6. CASE Record(p)
  <2> DEFINE m == job[p].mem["migration_state"]
             after == Whole(TRUE, 2, Append(m.list, job[p].id))
             now == [job[p] EXCEPT !.rescue = <<>>, !.mem["migration_state"] = after]
  <2>1. Head(job[p].todo).op = "record" /\ Do(p, Rest(p), now)
    BY <1>6 DEF Record, Doing
  <2>2. /\ job[p] \in JobState /\ Rest(p) \in Seq(AnyStep) /\ Ready(Rest(p), job[p].id)
        /\ job[p].id \in Ids /\ \A f \in OwnStores : Unharmed(job[p].mem[f])
    BY <1>1, <2>1, AtStep, StepKinds
  <2>3. "migration_state" \in BaseNames /\ "migration_state" \notin OwnStores
    BY PlacesHave, BackedNames DEF OwnStores
  <2>4. after \in Proper
    <3>1. m.list \in Seq(Ids)
      BY <2>2, <2>3, Contents DEF JobState
    <3>2. Append(m.list, job[p].id) \in Seq(Ids)
      BY <2>2, <3>1
    <3> QED
      BY <3>2, Records
  <2> HIDE DEF after
  <2>5. /\ now \in JobState /\ now.id = job[p].id
        /\ \A f \in OwnStores : now.mem[f] = job[p].mem[f]
    <3>1. <<>> \in Seq(CopySteps)
      OBVIOUS
    <3>2. \A q \in Seq(CopySteps) :
            LET j == [job[p] EXCEPT !.rescue = q, !.mem["migration_state"] = after]
            IN  /\ j \in JobState /\ j.id = job[p].id
                /\ \A f \in OwnStores : j.mem[f] = job[p].mem[f]
      BY <2>2, <2>3, <2>4, PlacesHave DEF JobState
    <3> QED
      BY <3>1, <3>2
  <2> HIDE DEF now
  <2>6. JobsOk'
    BY <2>1, <2>2, <2>5, DoKeeps
  <2> QED
    BY <1>1, <2>6, StoresKept DEF StoresInv
<1> QED
  BY <1>3, <1>4, <1>5, <1>6

\* The rollback of an update (update.rs handle_rollback, migration/mod.rs).
LEMMA RollbackKeeps ==
  ASSUME StoresInv, NEW p \in Procs, Restore(p) \/ Undo(p)
  PROVE  StoresInv'
<1>1. ~Idle(p) /\ UNCHANGED <<stored, same, made>>
  BY DEF Restore, Undo, Doing
<1>2. <<>> \in Seq(PlainSteps)
  OBVIOUS
<1>3. CASE Restore(p)
  <2> DEFINE known == Mem(p, "manifest").list
             id == known[Len(known)]
             steps == restore_backup(id, "conf")
                        \o <<read(Source("migration_state", "conf")), do("undo")>> \o load_config
  <2>1. Doing(p, "restore") /\ known \in Seq(Ids)
    BY <1>1, <1>3, PlacesHave, Remembers DEF Restore
  <2>2. CASE known = <<>> \/ BackupGone(id)
    <3>1. Fail(p)
      BY <1>3, <2>2 DEF Restore
    <3> QED
      BY <1>1, <1>2, <2>1, <3>1, MemoryKeeps
  <2>3. CASE known # <<>> /\ ~BackupGone(id)
    <3>1. id \in Ids
      BY <2>1, <2>3
    <3>2. Do(p, steps, [job[p] EXCEPT !.id = id])
      BY <1>3, <2>3 DEF Restore
    <3>3. steps \in Seq(PlainSteps)
      <4>1. restore_backup(id, "conf") \in Seq(PlainSteps)
        BY <3>1, CopiesReady, StepKinds
      <4>2. <<read(Source("migration_state", "conf")), do("undo")>> \in Seq(PlainSteps)
        BY StepsAre, PlacesHave, BackedNames, Lists
      <4> QED
        BY <4>1, <4>2, LoadReady, Lists
    <3> HIDE DEF id, steps, known
    <3>4. job[p] \in JobState /\ \A f \in OwnStores : Unharmed(job[p].mem[f])
      BY <1>1, AtStep
    <3>5. /\ [job[p] EXCEPT !.id = id] \in JobState
          /\ [job[p] EXCEPT !.id = id].id = id
          /\ [job[p] EXCEPT !.id = id].mem = job[p].mem
      BY <3>1, <3>4 DEF JobState
    <3>6. steps \in Seq(AnyStep) /\ Ready(steps, id)
      BY <3>3, PlainReady
    <3>7. JobsOk'
      BY <3>2, <3>4, <3>5, <3>6, DoKeeps
    <3> QED
      BY <1>1, <3>7, StoresKept DEF StoresInv
  <2> QED
    BY <2>2, <2>3
<1>4. CASE Undo(p)
  <2> DEFINE known == Mem(p, "migration_state")
             steps == Overwrite(Source("migration_state", "conf"))
  <2>1. Doing(p, "undo") /\ "migration_state" \in BaseNames \ OwnStores
    BY <1>4, PlacesHave, BackedNames DEF Undo, OwnStores
  <2>2. known \in Proper
    BY <1>1, <2>1, Remembers
  <2>3. [known EXCEPT !.schema = 1] \in Proper
    BY <2>2 DEF Proper, Content
  <2>4. steps \in Seq(PlainSteps)
    BY PlacesHave, BackedNames, OverwriteReady
  <2>5. Next1(p, <<>>) \/ Keep(p, "migration_state", [known EXCEPT !.schema = 1], steps)
    BY <1>4 DEF Undo
  <2> HIDE DEF known, steps
  <2> QED
    BY <1>1, <1>2, <2>1, <2>3, <2>4, <2>5, MemoryKeeps
<1> QED
  BY <1>3, <1>4

\* A command is killed, or the disk is full.
LEMMA FaultKeeps ==
  ASSUME StoresInv, NEW p \in Procs, Crash(p) \/ DiskFull(p)
  PROVE  StoresInv'
<1>1. CASE Crash(p)
  <2>1. Do(p, <<>>, NoJob) /\ UNCHANGED <<stored, same, made>>
    BY <1>1 DEF Crash
  <2>2. <<>> \in Seq(AnyStep) /\ Ready(<<>>, NoJob.id)
    BY DEF Ready
  <2>3. JobsOk'
    BY <2>1, <2>2, NoJobOk, DoKeeps DEF JobOk
  <2> QED
    BY <2>1, <2>3, StoresKept DEF StoresInv
<1>2. CASE DiskFull(p)
  <2>1. /\ Doing(p, "put") \/ Doing(p, "fill")
        /\ stored' = [stored EXCEPT ![Target(p)] = Bad("garbage")]
        /\ Fail(p) /\ UNCHANGED <<same, made>>
    BY <1>2 DEF DiskFull
  <2>2. Target(p) \in Locations /\ JobsOk'
    BY <2>1, AtFile, FailKeeps
  <2> QED
    BY <2>1, <2>2, StoresKept, Contents DEF StoresInv
<1> QED
  BY <1>1, <1>2

LEMMA StoresInvInit == YoopInit => StoresInv /\ Recent
<1> SUFFICES ASSUME StoresInit PROVE StoresInv /\ Recent
  BY DEF YoopInit, DataInit
<1>1. <<>> \in Seq(Ids)
  OBVIOUS
<1>2. PICK kept \in {Bad("absent"), Whole(TRUE, 0, <<>>)},
           state \in {Bad("absent"), Whole(TRUE, 1, <<>>)} :
        stored = [f \in Locations |->
                    CASE f = config_path                      -> Whole(TRUE, 1, <<>>)
                      [] f \in {Store("trust"), Store("history")} -> kept
                      [] f = Store("migration_state")         -> state
                      [] OTHER                                -> Bad("absent")]
  BY DEF StoresInit
<1>3. \A schema \in {0, 1} :
        Whole(TRUE, schema, <<>>) \in Proper /\ Unharmed(Whole(TRUE, schema, <<>>))
  BY <1>1 DEF Whole, Proper, Content, Unharmed
<1>4. Bad("absent") \in Proper /\ Unharmed(Bad("absent"))
  BY Contents
<1>5. \A f \in Locations : stored[f] \in Proper /\ Unharmed(stored[f])
  BY <1>2, <1>3, <1>4
<1>6. stored \in [Locations -> Proper]
  BY <1>2, <1>5
<1>7. job = [p \in Procs |-> NoJob] /\ made \in 0 .. MaxMade /\ same \in BOOLEAN
  BY StoresAssumption DEF StoresInit
<1>8. Recent
  BY DEF StoresInit, Recent
<1> QED
  BY <1>5, <1>6, <1>7, <1>8, NoJobOk DEF StoresInv

LEMMA StoresInvKept ==
  StoresInv /\ Recent /\ [YoopNext]_yoopVars => StoresInv' /\ Recent'
<1> SUFFICES ASSUME StoresInv, Recent, [YoopNext]_yoopVars
             PROVE  StoresInv' /\ Recent'
  OBVIOUS
<1>1. CASE StoresNext
  <2>1. PICK p \in Procs :
          \/ \E command \in {"trust", "history", "load", "save", "update", "rollback"} :
               Start(p, command)
          \/ Read(p) \/ Open(p) \/ Put(p) \/ Copy(p) \/ Fill(p)
          \/ Backup(p) \/ AddToManifest(p) \/ Cleanup(p)
          \/ Migrate(p) \/ Guard(p) \/ Up(p) \/ Record(p)
          \/ Restore(p) \/ Undo(p)
          \/ Crash(p) \/ DiskFull(p)
    BY <1>1 DEF StoresNext
  <2>2. Backup(p) \/ UNCHANGED <<made, second>>
    <3>1. \A command : Start(p, command) => UNCHANGED <<made, second>>
      BY DEF Start, naming
    <3>2. Read(p) \/ Open(p) \/ Put(p) \/ Copy(p) \/ Fill(p) => UNCHANGED <<made, second>>
      BY DEF Read, Open, Put, Copy, Fill, naming
    <3>3. AddToManifest(p) \/ Cleanup(p) \/ Migrate(p) \/ Guard(p) => UNCHANGED <<made, second>>
      BY DEF AddToManifest, Cleanup, Migrate, Guard, naming
    <3>4. Up(p) \/ Record(p) \/ Restore(p) \/ Undo(p) => UNCHANGED <<made, second>>
      BY DEF Up, Record, Restore, Undo, naming
    <3>5. Crash(p) \/ DiskFull(p) => UNCHANGED <<made, second>>
      BY DEF Crash, DiskFull, naming
    <3> QED
      BY <2>1, <3>1, <3>2, <3>3, <3>4, <3>5
  <2>3. UNCHANGED <<made, second>> => Recent'
    BY DEF Recent
  <2>4. Recent'
    BY <2>2, <2>3, BackupKeeps
  <2> QED
    BY <2>1, <2>4, StartKeeps, FileKeeps, CopyKeeps, BackupKeeps, ManifestKeeps, MigrationKeeps,
       RollbackKeeps, FaultKeeps
<1>2. CASE UNCHANGED storesVars
  BY <1>2 DEF storesVars, naming, StoresInv, Recent
<1> QED
  BY <1>1, <1>2 DEF YoopNext, DataNext, yoopVars, dataVars

\* A trust store or history that cannot be parsed is never replaced by one that
\* can and has lost its entries, for any number of commands, backups, rollbacks,
\* killed commands and full disks (trust/mod.rs and history/mod.rs load_from).
THEOREM UnreadableNeverReplaced == YoopSpec => []UnreadableIsNotReplaced
<1>1. StoresInv => UnreadableIsNotReplaced
  <2>1. \A f \in OwnStores : Store(f) \in Locations /\ Store(f)[1] = f
    BY PlacesHave
  <2> QED
    BY <2>1 DEF StoresInv, UnreadableIsNotReplaced, Unharmed, OwnStores
<1> QED
  BY <1>1, StoresInvInit, StoresInvKept, PTL DEF YoopSpec

\* The files of the data and configuration directories and of the backups have
\* the types the commands give them, and a backup has its number within bounds.
THEOREM StoresTyped == YoopSpec => []StoresTypeOK
<1>1. StoresInv /\ Recent => StoresTypeOK
  BY DEF StoresInv, Recent, StoresTypeOK, Proper, JobOk, JobState
<1> QED
  BY <1>1, StoresInvInit, StoresInvKept, PTL DEF YoopSpec

-----------------------------------------------------------------------------
(* The settings.  Either a backup of the configuration is safe, and then no *)
(* step left to any command writes to it; or nothing has been done yet that *)
(* could harm the configuration, and every command still makes a backup     *)
(* before it does.                                                          *)

Good(c) == c.is = "whole" /\ c.own

\* A step that copies the configuration into a backup.
ConfigBackup(s) == s.op \in {"copy", "fill"} /\ s.f[1] = "config" /\ s.f[2] = "backup"
Backs(s) == s.op = "backup" \/ ConfigBackup(s)

\* All other steps, which leave the copies of the configuration alone.
OutsideSteps ==
  {s \in AnyStep : /\ ~ConfigBackup(s)
                   /\ s.op \in {"open", "put"} => s.f[2] # "backup"}

\* The steps that leave the configuration, found at conf, alone too, and what
\* has to follow a backup.
HarmlessSteps(conf) ==
  {s \in AnyStep : /\ s.op \notin {"backup", "add_to_manifest", "guard", "up"}
                   /\ s.op \in {"open", "put", "copy", "fill"} => s.f[1] # "config"
                   /\ s.op = "read" => s.f[1] # "config" \/ s.f = conf}

\* The configuration is copied to a backup first of all, and by one command.
CopiesConfig(conf, number, j) ==
  /\ j.todo # <<>> /\ ConfigBackup(Head(j.todo))
  /\ Head(j.todo).from = conf /\ Head(j.todo).f = Kept("config", j.id)
  /\ j.id \in 1 .. number
  /\ Tail(j.todo) \in Seq(OutsideSteps)
Shaped(conf, number, j) ==
  /\ j.rescue \in Seq(OutsideSteps)
  /\ j.todo \in Seq(OutsideSteps) \/ CopiesConfig(conf, number, j)
AtBackup(j) == j.todo # <<>> /\ ConfigBackup(Head(j.todo))

Shape ==
  /\ \A p \in Procs : Shaped(config_path, made, job[p])
  /\ \A p \in Procs :
       AtBackup(job[p]) =>
         stored[Head(job[p].todo).f].is
           = IF Head(job[p].todo).op = "copy" THEN "absent" ELSE "empty"
  /\ \A p, q \in Procs :
       AtBackup(job[p]) /\ AtBackup(job[q]) /\ job[p].id = job[q].id => p = q
  /\ \A id \in Ids : id > made => stored[Kept("config", id)].is = "absent"

SafeBackup == \E id \in Ids : Good(stored[Kept("config", id)])

\* A list of steps that makes a backup before it does harm.  A save writes what
\* it has read from the good configuration, or still will.
CarefulList(conf, q, read_good) ==
  \E a \in Seq(HarmlessSteps(conf)), b \in Seq(AnyStep) :
    /\ q = a \o b
    /\ \/ b = <<>>
       \/ b # <<>> /\ Backs(Head(b))
       \/ b = Overwrite(conf) /\ (read_good \/ \E i \in DOMAIN a : a[i] = read(conf))
Careful(conf, j) ==
  /\ j.rescue = <<>> /\ j.mem["manifest"].list = <<>>
  /\ \/ CarefulList(conf, j.todo, Good(j.mem["config"]))
     \/ j.todo = <<put(conf)>> /\ Good(j.mem["config"])

\* The configuration is good, or it is being saved and nothing else runs.
Untouched ==
  /\ stored[Manifest].list = <<>>
  /\ \A p \in Procs : Careful(config_path, job[p])
  /\ \/ /\ Good(stored[config_path])
        /\ \A p \in Procs : job[p].todo # <<put(config_path)>>
     \/ /\ stored[config_path].is = "empty"
        /\ \E p \in Procs : /\ job[p].todo = <<put(config_path)>>
                            /\ \A q \in Procs \ {p} : Idle(q)

SettingsHold == Shape /\ (SafeBackup \/ Untouched)
SettingsInv == shared \/ pruned \/ loose \/ SettingsHold

-----------------------------------------------------------------------------
(* Where the configuration is, and the lists of its steps.                  *)

LEMMA ConfPlaces ==
  /\ config_path \in Locations /\ config_path[1] = "config" /\ config_path[2] # "backup"
  /\ \A n \in Backed, dir \in {"data", "conf"} :
       Source(n, dir) \in Locations /\ Source(n, dir)[1] = n /\ Source(n, dir)[2] # "backup"
  /\ \A dir \in {"data", "conf"} : Source("config", dir) = config_path
  /\ \A n \in Backed, id \in Ids :
       /\ Kept(n, id) \in Locations /\ Kept(n, id)[1] = n
       /\ Kept(n, id)[2] = "backup" /\ Kept(n, id)[3] = id
  /\ Manifest \in Locations /\ Manifest[1] = "manifest" /\ Manifest[2] # "backup"
  /\ \A f \in Locations : f[1] = "manifest" => f = Manifest
<1>1. /\ config_path \in Locations /\ config_path[1] = "config"
      /\ \A n \in Backed, dir \in {"data", "conf"} :
           Source(n, dir) \in Locations /\ Source(n, dir)[1] = n
      /\ \A n \in Backed, id \in Ids : Kept(n, id) \in Locations /\ Kept(n, id)[1] = n
      /\ Manifest \in Locations /\ Manifest[1] = "manifest"
  BY PlacesHave
<1>2. config_path[2] # "backup"
  BY DEF config_path, Source
<1>3. \A n \in Backed, dir \in {"data", "conf"} : Source(n, dir)[2] # "backup"
  BY DEF Source
<1>4. \A dir \in {"data", "conf"} : Source("config", dir) = config_path
  BY DEF Source, config_path
<1>5. \A n \in Backed, id \in Ids : Kept(n, id)[2] = "backup" /\ Kept(n, id)[3] = id
  BY DEF Kept
<1>6. Manifest[2] # "backup"
  BY DEF Manifest
<1>7. \A f \in Locations : f[1] = "manifest" => f = Manifest
  <2>1. Locations = (Backed \X {"data", "conf"} \X {0}) \cup (Backed \X {"backup"} \X Ids)
                      \cup {Manifest}
    BY DEF Locations, Backed
  <2>2. \A f \in Backed \X {"data", "conf"} \X {0} : f[1] \in Backed
    OBVIOUS
  <2>3. \A f \in Backed \X {"backup"} \X Ids : f[1] \in Backed
    OBVIOUS
  <2> QED
    BY <2>1, <2>2, <2>3, BackedNames
<1> QED
  BY <1>1, <1>2, <1>3, <1>4, <1>5, <1>6, <1>7

\* Nothing said here depends on more of the state than where the files are.
LEMMA ConfStays == UNCHANGED same => config_path' = config_path
  BY DEF config_path, Source

\* A list that begins with harmless steps, or with one that makes a backup.
LEMMA CarefulPrepend ==
  ASSUME NEW conf, NEW good, NEW q, CarefulList(conf, q, good),
         NEW steps \in Seq(HarmlessSteps(conf))
  PROVE  CarefulList(conf, steps \o q, good)
<1> DEFINE H == HarmlessSteps(conf)
<1>1. PICK a \in Seq(H), b \in Seq(AnyStep) :
        /\ q = a \o b
        /\ \/ b = <<>>
           \/ b # <<>> /\ Backs(Head(b))
           \/ b = Overwrite(conf) /\ (good \/ \E i \in DOMAIN a : a[i] = read(conf))
  BY DEF CarefulList
<1> HIDE DEF H
<1>2. /\ steps \o a \in Seq(H)
      /\ steps \o q = (steps \o a) \o b
  <2>1. H \subseteq AnyStep
    BY DEF H, HarmlessSteps
  <2>2. steps \in Seq(AnyStep) /\ a \in Seq(AnyStep) /\ steps \in Seq(H)
    BY <2>1 DEF H
  <2> QED
    BY <1>1, <2>2
<1>3. ASSUME NEW i \in DOMAIN a, a[i] = read(conf)
      PROVE  \E k \in DOMAIN (steps \o a) : (steps \o a)[k] = read(conf)
  <2>1. steps \in Seq(H) /\ a \in Seq(H)
    BY DEF H
  <2>2. Len(steps) + i \in DOMAIN (steps \o a) /\ (steps \o a)[Len(steps) + i] = a[i]
    BY <2>1
  <2> QED
    BY <1>3, <2>2
<1>4. \/ b = <<>>
      \/ b # <<>> /\ Backs(Head(b))
      \/ b = Overwrite(conf)
           /\ (good \/ \E k \in DOMAIN (steps \o a) : (steps \o a)[k] = read(conf))
  BY <1>1, <1>3
<1> QED
  BY <1>2, <1>4 DEF CarefulList, H

LEMMA CarefulStarts ==
  ASSUME NEW conf, NEW good
  PROVE  /\ \A q \in Seq(HarmlessSteps(conf)) : CarefulList(conf, q, good)
         /\ \A q \in Seq(AnyStep) : q # <<>> /\ Backs(Head(q)) => CarefulList(conf, q, good)
<1>1. ASSUME NEW q \in Seq(HarmlessSteps(conf))
      PROVE  CarefulList(conf, q, good)
  <2>1. <<>> \in Seq(AnyStep) /\ q = q \o <<>>
    OBVIOUS
  <2> QED
    BY <2>1 DEF CarefulList
<1>2. ASSUME NEW q \in Seq(AnyStep), q # <<>>, Backs(Head(q))
      PROVE  CarefulList(conf, q, good)
  <2>1. <<>> \in Seq(HarmlessSteps(conf)) /\ q = <<>> \o q
    OBVIOUS
  <2> QED
    BY <1>2, <2>1 DEF CarefulList
<1> QED
  BY <1>1, <1>2

\* What a careful list begins with, and what is left when a harmless step is done.
LEMMA CarefulRest ==
  ASSUME NEW conf, NEW good \in BOOLEAN, NEW q, q # <<>>, CarefulList(conf, q, good)
  PROVE  /\ \/ Head(q) \in HarmlessSteps(conf)
            \/ Backs(Head(q))
            \/ q = Overwrite(conf) /\ good
         /\ Head(q) # read(conf) /\ ~Backs(Head(q)) /\ q # Overwrite(conf)
              => CarefulList(conf, Tail(q), good)
         /\ Head(q) = read(conf) => CarefulList(conf, Tail(q), TRUE)
<1> DEFINE H == HarmlessSteps(conf)
<1>1. PICK a \in Seq(H), b \in Seq(AnyStep) :
        /\ q = a \o b
        /\ \/ b = <<>>
           \/ b # <<>> /\ Backs(Head(b))
           \/ b = Overwrite(conf) /\ (good \/ \E i \in DOMAIN a : a[i] = read(conf))
  BY DEF CarefulList
<1>2. H \subseteq AnyStep
  BY DEF HarmlessSteps
<1> HIDE DEF H
<1>3. a \in Seq(AnyStep)
  BY <1>2
<1>4. CASE a = <<>>
  <2>1. q = b
    BY <1>1, <1>4
  <2>2. ~\E i \in DOMAIN a : a[i] = read(conf)
    BY <1>4
  <2>3. Backs(Head(q)) \/ (q = Overwrite(conf) /\ good)
    BY <1>1, <2>1, <2>2
  <2>4. Head(q) # read(conf)
    <3>1. ~Backs(read(conf))
      BY DEF Backs, ConfigBackup, read
    <3>2. Head(Overwrite(conf)) = open(conf)
      BY DEF Overwrite
    <3>3. open(conf) # read(conf)
      BY DEF open, read
    <3> QED
      BY <2>3, <3>1, <3>2, <3>3
  <2> QED
    BY <2>3, <2>4
<1>5. CASE a # <<>>
  <2>1. /\ Head(q) = Head(a) /\ Head(a) \in H /\ Head(a) = a[1]
        /\ Tail(q) = Tail(a) \o b /\ Tail(a) \in Seq(H)
    <3>1. Head(a) \in H /\ Tail(a) \in Seq(H) /\ Head(a) = a[1]
      BY <1>5
    <3>2. Head(q) = Head(a) /\ Tail(q) = Tail(a) \o b
      BY <1>1, <1>3, <1>5
    <3> QED
      BY <3>1, <3>2
  <2>2. ASSUME NEW i \in DOMAIN a, a[i] = read(conf), Head(q) # read(conf)
        PROVE  \E k \in DOMAIN Tail(a) : Tail(a)[k] = read(conf)
    <3>1. i # 1
      BY <2>1, <2>2
    <3>2. i - 1 \in DOMAIN Tail(a) /\ Tail(a)[i - 1] = a[i]
      BY <1>5, <3>1
    <3> QED
      BY <2>2, <3>2
  <2>3. \/ b = <<>>
        \/ b # <<>> /\ Backs(Head(b))
        \/ b = Overwrite(conf) /\ (good \/ \E i \in DOMAIN a : a[i] = read(conf))
    BY <1>1, <1>5
  <2>4. Head(q) # read(conf) => CarefulList(conf, Tail(q), good)
    <3>1. ASSUME Head(q) # read(conf)
          PROVE  \/ b = <<>>
                 \/ b # <<>> /\ Backs(Head(b))
                 \/ b = Overwrite(conf)
                      /\ (good \/ \E k \in DOMAIN Tail(a) : Tail(a)[k] = read(conf))
      BY <2>2, <2>3, <3>1
    <3> QED
      BY <2>1, <3>1 DEF CarefulList, H
  <2>5. CarefulList(conf, Tail(q), TRUE)
    <3>1. \/ b = <<>>
          \/ b # <<>> /\ Backs(Head(b))
          \/ b = Overwrite(conf) /\ (TRUE \/ \E k \in DOMAIN Tail(a) : Tail(a)[k] = read(conf))
      BY <2>3
    <3> QED
      BY <2>1, <3>1 DEF CarefulList, H
  <2> QED
    BY <2>1, <2>4, <2>5 DEF H
<1> QED
  BY <1>4, <1>5

\* Such a list is not the end of a save.
LEMMA CarefulNotPut ==
  ASSUME NEW conf, conf[1] = "config", NEW good, NEW q, CarefulList(conf, q, good)
  PROVE  q # <<put(conf)>>
<1> SUFFICES ASSUME q = <<put(conf)>> PROVE FALSE
  OBVIOUS
<1> DEFINE H == HarmlessSteps(conf)
<1>1. PICK a \in Seq(H), b \in Seq(AnyStep) :
        /\ q = a \o b
        /\ \/ b = <<>>
           \/ b # <<>> /\ Backs(Head(b))
           \/ b = Overwrite(conf)
  BY DEF CarefulList
<1>2. put(conf) \notin H /\ ~Backs(put(conf)) /\ H \subseteq AnyStep
  BY DEF HarmlessSteps, Backs, ConfigBackup, put
<1> HIDE DEF H
<1>3. CASE a # <<>>
  <2>1. a[1] \in H /\ q[1] = a[1]
    BY <1>1, <1>2, <1>3
  <2> QED
    BY <1>2, <2>1
<1>4. CASE a = <<>>
  <2>1. b = <<put(conf)>>
    BY <1>1, <1>4
  <2>2. b # <<>> /\ Head(b) = put(conf) /\ Len(b) = 1
    BY <2>1
  <2>3. b # Overwrite(conf)
    BY <2>2 DEF Overwrite
  <2>4. ~Backs(Head(b))
    BY <1>2, <2>2
  <2> QED
    BY <1>1, <2>2, <2>3, <2>4
<1> QED
  BY <1>3, <1>4

-----------------------------------------------------------------------------
(* What a step must keep for the invariant to be kept.                      *)

\* A command goes on with other steps: the others do not, and it has nothing
\* left of itself when it is done.
LEMMA DoIs ==
  ASSUME StoresInv, NEW p \in Procs, NEW steps \in Seq(AnyStep), NEW now \in JobState,
         Do(p, steps, now)
  PROVE  /\ \A q \in Procs \ {p} : job'[q] = job[q]
         /\ job'[p].todo = steps
         /\ steps # <<>> => /\ job'[p].rescue = now.rescue
                             /\ job'[p].id = now.id /\ job'[p].mem = now.mem
         /\ steps = <<>> => job'[p] = NoJob
<1>1. job = [q \in Procs |-> job[q]]
  BY DEF StoresInv
<1>2. job' = [job EXCEPT ![p] = IF steps = <<>> THEN NoJob ELSE [now EXCEPT !.todo = steps]]
  BY DEF Do
<1>3. job'[p] = (IF steps = <<>> THEN NoJob ELSE [now EXCEPT !.todo = steps])
      /\ \A q \in Procs \ {p} : job'[q] = job[q]
  BY <1>1, <1>2
<1>4. NoJob.todo = <<>>
  BY DEF NoJob
<1> QED
  BY <1>3, <1>4 DEF JobState

\* A command that is done.
LEMMA NoJobIs ==
  /\ NoJob.todo = <<>> /\ NoJob.rescue = <<>>
  /\ NoJob.mem["manifest"].list = <<>>
  /\ \A conf, number : Shaped(conf, number, NoJob) /\ Careful(conf, NoJob)
<1>1. /\ NoJob.todo = <<>> /\ NoJob.rescue = <<>>
      /\ NoJob.mem = [f \in BaseNames |-> Bad("absent")]
  BY DEF NoJob, BaseNames
<1>2. NoJob.mem["manifest"].list = <<>>
  BY <1>1, PlacesHave DEF Bad
<1>3. \A conf : <<>> \in Seq(HarmlessSteps(conf)) /\ <<>> \in Seq(OutsideSteps)
  OBVIOUS
<1>4. \A conf, good : CarefulList(conf, <<>>, good)
  BY <1>3, CarefulStarts
<1> QED
  BY <1>1, <1>2, <1>3, <1>4 DEF Shaped, Careful

\* A step of one command keeps the shape, if its list keeps its own, it writes
\* to no copy of the configuration but its own, and takes no other's number.
LEMMA ShapeStep ==
  ASSUME StoresInv, Shape, UNCHANGED same, NEW p \in Procs,
         \A q \in Procs \ {p} : job'[q] = job[q],
         made' \in {made, made + 1}, made' \in 0 .. MaxMade,
         Shaped(config_path, made', job'[p]),
         \A id \in Ids : (stored'[Kept("config", id)] = stored[Kept("config", id)]
                          \/ (AtBackup(job[p]) /\ id = job[p].id)),
         AtBackup(job'[p]) =>
           ( /\ stored'[Head(job'[p].todo).f].is
                  = IF Head(job'[p].todo).op = "copy" THEN "absent" ELSE "empty"
             /\ \/ AtBackup(job[p]) /\ job'[p].id = job[p].id
                \/ made' = made + 1 /\ job'[p].id = made')
  PROVE  Shape' /\ (SafeBackup => SafeBackup')
<1>1. config_path' = config_path
  BY ConfStays
<1>2. made \in Nat /\ made' >= made /\ 1 .. made \subseteq 1 .. made'
  BY DEF StoresInv
<1>3. ASSUME NEW q \in Procs, AtBackup(job[q])
      PROVE  /\ job[q].id \in 1 .. made /\ Head(job[q].todo).f = Kept("config", job[q].id)
             /\ stored[Kept("config", job[q].id)].is
                  = IF Head(job[q].todo).op = "copy" THEN "absent" ELSE "empty"
  <2>1. Shaped(config_path, made, job[q])
    BY DEF Shape
  <2>2. job[q].todo \notin Seq(OutsideSteps)
    <3>1. Head(job[q].todo) \notin OutsideSteps
      BY <1>3 DEF AtBackup, OutsideSteps
    <3> QED
      BY <1>3, <3>1 DEF AtBackup
  <2>3. CopiesConfig(config_path, made, job[q])
    BY <2>1, <2>2 DEF Shaped
  <2> QED
    BY <1>3, <2>3 DEF CopiesConfig, Shape
<1>4. ASSUME NEW q \in Procs \ {p}, AtBackup(job[q])
      PROVE  stored'[Kept("config", job[q].id)] = stored[Kept("config", job[q].id)]
  <2>1. job[q].id \in Ids
    <3>1. job[q].id \in 1 .. made
      BY <1>3, <1>4
    <3>2. made <= MaxMade /\ made \in Nat /\ MaxMade \in Nat
      BY StoresAssumption DEF StoresInv
    <3> QED
      BY <3>1, <3>2 DEF Ids
  <2>2. ~(AtBackup(job[p]) /\ job[q].id = job[p].id)
    BY <1>4 DEF Shape
  <2> QED
    BY <2>1, <2>2
<1>5. \A q \in Procs : Shaped(config_path', made', job'[q])
  <2>1. ASSUME NEW q \in Procs \ {p}
        PROVE  Shaped(config_path, made', job[q])
    <3>1. Shaped(config_path, made, job[q])
      BY DEF Shape
    <3> QED
      BY <1>2, <3>1 DEF Shaped, CopiesConfig
  <2> QED
    BY <1>1, <2>1
<1>6. \A q \in Procs :
        AtBackup(job'[q]) =>
          stored'[Head(job'[q].todo).f].is
            = IF Head(job'[q].todo).op = "copy" THEN "absent" ELSE "empty"
  <2>1. ASSUME NEW q \in Procs \ {p}, AtBackup(job[q])
        PROVE  stored'[Head(job[q].todo).f].is
                 = IF Head(job[q].todo).op = "copy" THEN "absent" ELSE "empty"
    BY <1>3, <1>4, <2>1
  <2> QED
    BY <2>1
<1>7. ASSUME NEW q \in Procs, NEW r \in Procs, AtBackup(job'[q]), AtBackup(job'[r]),
             job'[q].id = job'[r].id
      PROVE  q = r
  <2>1. ASSUME NEW s \in Procs \ {p}, AtBackup(job[s]), AtBackup(job'[p]),
               job[s].id = job'[p].id
        PROVE  FALSE
    <3>1. CASE AtBackup(job[p]) /\ job'[p].id = job[p].id
      BY <2>1, <3>1 DEF Shape
    <3>2. CASE made' = made + 1 /\ job'[p].id = made'
      BY <1>2, <1>3, <2>1, <3>2
    <3> QED
      BY <2>1, <3>1, <3>2
  <2>2. CASE q # p /\ r # p
    BY <1>7, <2>2 DEF Shape
  <2> QED
    BY <1>7, <2>1, <2>2
<1>8. ASSUME NEW id \in Ids, id > made'
      PROVE  stored'[Kept("config", id)].is = "absent"
  <2>1. id > made
    BY <1>2, <1>8 DEF Ids
  <2>2. ~(AtBackup(job[p]) /\ id = job[p].id)
    BY <1>2, <1>3, <2>1
  <2> QED
    BY <2>1, <2>2 DEF Shape
<1>9. Shape'
  BY <1>5, <1>6, <1>7, <1>8 DEF Shape, AtBackup
<1>10. ASSUME NEW id \in Ids, Good(stored[Kept("config", id)])
       PROVE  Good(stored'[Kept("config", id)])
  <2>1. ~(AtBackup(job[p]) /\ id = job[p].id)
    BY <1>3, <1>10 DEF Good
  <2> QED
    BY <1>10, <2>1
<1> QED
  BY <1>9, <1>10 DEF SafeBackup

\* While nothing is being saved a step of one command that keeps its list careful
\* and leaves the configuration and the manifest's list alone.
LEMMA UntouchedAside ==
  ASSUME StoresInv, Untouched, UNCHANGED same, NEW p \in Procs,
         \A q \in Procs : job[q].todo # <<put(config_path)>>,
         \A q \in Procs \ {p} : job'[q] = job[q],
         Careful(config_path, job'[p]), job'[p].todo # <<put(config_path)>>,
         stored'[config_path] = stored[config_path], stored'[Manifest].list = <<>>
  PROVE  Untouched'
<1>1. config_path' = config_path /\ Manifest' = Manifest
  BY ConfStays DEF Manifest
<1>2. Good(stored[config_path]) /\ \A q \in Procs : Careful(config_path, job[q])
  BY DEF Untouched
<1> QED
  BY <1>1, <1>2 DEF Untouched

\* What is known of a command that runs while the configuration is untouched.
LEMMA UntouchedAt ==
  ASSUME StoresInv, Untouched, NEW p \in Procs, ~Idle(p)
  PROVE  /\ job[p].rescue = <<>> /\ Mem(p, "manifest").list = <<>>
         /\ stored[Manifest].list = <<>>
         /\ \/ /\ job[p].todo = <<put(config_path)>> /\ Good(Mem(p, "config"))
               /\ stored[config_path].is = "empty"
               /\ \A q \in Procs \ {p} : Idle(q)
            \/ /\ CarefulList(config_path, job[p].todo, Good(Mem(p, "config")))
               /\ Good(stored[config_path])
               /\ \A q \in Procs : job[q].todo # <<put(config_path)>>
<1>1. Careful(config_path, job[p]) /\ stored[Manifest].list = <<>>
  BY DEF Untouched
<1>2. ASSUME NEW q \in Procs, job[q].todo = <<put(config_path)>>
      PROVE  stored[config_path].is = "empty" /\ q = p /\ \A r \in Procs \ {p} : Idle(r)
  <2>1. PICK r \in Procs : /\ job[r].todo = <<put(config_path)>>
                           /\ \A s \in Procs \ {r} : Idle(s)
    BY <1>2 DEF Untouched
  <2>2. r = p
    BY <2>1
  <2>3. job[q].todo # <<>>
    BY <1>2
  <2>4. q = p
    BY <2>1, <2>2, <2>3 DEF Idle
  <2> QED
    BY <1>2, <2>1, <2>2, <2>4 DEF Untouched
<1>3. CASE \A q \in Procs : job[q].todo # <<put(config_path)>>
  <2>1. Good(stored[config_path])
    BY <1>3 DEF Untouched
  <2> QED
    BY <1>1, <1>3, <2>1 DEF Careful, Mem
<1>4. CASE \E q \in Procs : job[q].todo = <<put(config_path)>>
  <2>1. job[p].todo = <<put(config_path)>>
    BY <1>2, <1>4
  <2>2. ~CarefulList(config_path, job[p].todo, Good(Mem(p, "config")))
    BY <2>1, ConfPlaces, CarefulNotPut
  <2> QED
    BY <1>1, <1>2, <2>1, <2>2 DEF Careful, Mem
<1> QED
  BY <1>3, <1>4

\* What a step is, by its op.
LEMMA StepForms ==
  ASSUME NEW s \in AnyStep
  PROVE  /\ s.op = "read" => s = read(s.f) /\ s.f \in Locations
         /\ s.op = "put" => s = put(s.f) /\ s.f \in Locations
         /\ s.op \in {"copy", "fill"} =>
              s.f \in Locations /\ s.from \in Locations /\ s.f[1] = s.from[1]
<1>1. s.op = "read" => s = read(s.f) /\ s.f \in Locations
  BY StepKinds DEF AnyStep, PlainSteps, CopySteps, NumberedSteps, BackupSteps, read
<1>2. s.op = "put" => s = put(s.f) /\ s.f \in Locations
  BY StepKinds DEF AnyStep, PlainSteps, CopySteps, NumberedSteps, BackupSteps, put
<1>3. s.op \in {"copy", "fill"} =>
        s.f \in Locations /\ s.from \in Locations /\ s.f[1] = s.from[1]
  BY StepKinds DEF CopySteps
<1> QED
  BY <1>1, <1>2, <1>3

\* What the steps of a command that is not done look like.
LEMMA ShapeAt ==
  ASSUME StoresInv, Shape, NEW p \in Procs, ~Idle(p)
  PROVE  /\ Rest(p) \in Seq(OutsideSteps) /\ job[p].rescue \in Seq(OutsideSteps)
         /\ \/ Head(job[p].todo) \in OutsideSteps /\ ~AtBackup(job[p])
            \/ /\ AtBackup(job[p]) /\ job[p].id \in Ids
               /\ Head(job[p].todo).from = config_path
               /\ Target(p) = Kept("config", job[p].id)
               /\ stored[Target(p)].is
                    = IF Head(job[p].todo).op = "copy" THEN "absent" ELSE "empty"
<1>1. Shaped(config_path, made, job[p]) /\ job[p].todo # <<>>
  BY DEF Shape, Idle
<1>2. CASE job[p].todo \in Seq(OutsideSteps)
  <2>1. Head(job[p].todo) \in OutsideSteps /\ Tail(job[p].todo) \in Seq(OutsideSteps)
    BY <1>1, <1>2
  <2>2. ~AtBackup(job[p])
    BY <2>1 DEF AtBackup, OutsideSteps
  <2> QED
    BY <1>1, <2>1, <2>2 DEF Shaped, Rest
<1>3. CASE CopiesConfig(config_path, made, job[p])
  <2>1. /\ AtBackup(job[p]) /\ Tail(job[p].todo) \in Seq(OutsideSteps)
        /\ Head(job[p].todo).from = config_path
        /\ Target(p) = Kept("config", job[p].id) /\ job[p].id \in 1 .. made
    BY <1>3 DEF CopiesConfig, AtBackup, Target
  <2>2. made <= MaxMade /\ made \in Nat /\ MaxMade \in Nat
    BY StoresAssumption DEF StoresInv
  <2>3. job[p].id \in Ids
    BY <2>1, <2>2 DEF Ids
  <2>4. stored[Target(p)].is = IF Head(job[p].todo).op = "copy" THEN "absent" ELSE "empty"
    BY <2>1 DEF Shape, Target
  <2> QED
    BY <1>1, <2>1, <2>3, <2>4 DEF Shaped, Rest
<1> QED
  BY <1>1, <1>2, <1>3 DEF Shaped

\* A step writes to no copy of the configuration but the one it is making.
LEMMA WritesOwn ==
  ASSUME StoresInv, Shape, NEW p \in Procs,
         NEW op \in {"open", "put", "copy", "fill"}, Doing(p, op),
         NEW content, stored' = [stored EXCEPT ![Target(p)] = content]
  PROVE  \A id \in Ids : (stored'[Kept("config", id)] = stored[Kept("config", id)]
                          \/ (AtBackup(job[p]) /\ id = job[p].id))
<1> SUFFICES ASSUME NEW id \in Ids, Target(p) = Kept("config", id)
             PROVE  AtBackup(job[p]) /\ id = job[p].id
  <2>1. stored = [f \in Locations |-> stored[f]]
    BY DEF StoresInv
  <2>2. \A id \in Ids : Kept("config", id) \in Locations
    BY ConfPlaces, BackedNames
  <2> QED
    BY <2>1, <2>2
<1>1. ~Idle(p) /\ Head(job[p].todo).op = op
  BY DEF Doing
<1>2. Target(p)[1] = "config" /\ Target(p)[2] = "backup" /\ Target(p)[3] = id
  BY ConfPlaces, BackedNames
<1>3. Head(job[p].todo) \notin OutsideSteps
  BY <1>1, <1>2 DEF OutsideSteps, ConfigBackup, Target
<1>4. AtBackup(job[p]) /\ Target(p) = Kept("config", job[p].id) /\ job[p].id \in Ids
  BY <1>1, <1>3, ShapeAt
<1>5. Kept("config", job[p].id)[3] = job[p].id
  BY <1>4, ConfPlaces, BackedNames
<1> QED
  BY <1>2, <1>4, <1>5

\* A command goes on with other steps, and makes no copy of the configuration
\* with the first of them.
LEMMA HoldsOn ==
  ASSUME StoresInv, SettingsHold, UNCHANGED <<same, made>>,
         NEW p \in Procs, NEW steps \in Seq(OutsideSteps), NEW now \in JobState,
         Do(p, steps, now), now.rescue \in Seq(OutsideSteps),
         \A id \in Ids : (stored'[Kept("config", id)] = stored[Kept("config", id)]
                          \/ (AtBackup(job[p]) /\ id = job[p].id)),
         Untouched =>
           ( /\ \A q \in Procs : job[q].todo # <<put(config_path)>>
             /\ steps # <<>> =>
                  /\ now.rescue = <<>> /\ now.mem["manifest"].list = <<>>
                  /\ CarefulList(config_path, steps, Good(now.mem["config"]))
             /\ stored'[config_path] = stored[config_path]
             /\ stored'[Manifest].list = <<>>)
  PROVE  SettingsHold'
<1>1. steps \in Seq(AnyStep) /\ <<>> \in Seq(OutsideSteps)
  BY DEF OutsideSteps
<1>2. /\ \A q \in Procs \ {p} : job'[q] = job[q]
      /\ job'[p].todo = steps
      /\ steps # <<>> => /\ job'[p].rescue = now.rescue
                          /\ job'[p].id = now.id /\ job'[p].mem = now.mem
      /\ steps = <<>> => job'[p] = NoJob
  BY <1>1, DoIs
<1>3. Shaped(config_path, made', job'[p]) /\ ~AtBackup(job'[p])
  <2>1. job'[p].rescue \in Seq(OutsideSteps)
    BY <1>1, <1>2, NoJobIs
  <2>2. ~AtBackup(job'[p])
    <3>1. steps # <<>> => Head(steps) \in OutsideSteps
      OBVIOUS
    <3> QED
      BY <1>2, <3>1 DEF AtBackup, OutsideSteps
  <2> QED
    BY <1>2, <2>1, <2>2 DEF Shaped
<1>4. Shape' /\ (SafeBackup => SafeBackup')
  <2>1. made' \in {made, made + 1} /\ made' \in 0 .. MaxMade
    BY DEF StoresInv
  <2> QED
    BY <1>2, <1>3, <2>1, ShapeStep DEF SettingsHold
<1>5. ASSUME Untouched PROVE Untouched'
  <2>1. Careful(config_path, job'[p])
    <3>1. CASE steps = <<>>
      BY <1>2, <3>1, NoJobIs
    <3>2. CASE steps # <<>>
      BY <1>2, <1>5, <3>2 DEF Careful
    <3> QED
      BY <3>1, <3>2
  <2>2. job'[p].todo # <<put(config_path)>>
    <3>1. CASE steps = <<>>
      BY <1>2, <3>1
    <3>2. CASE steps # <<>>
      BY <1>2, <1>5, <3>2, CarefulNotPut, ConfPlaces
    <3> QED
      BY <3>1, <3>2
  <2> QED
    BY <1>2, <1>5, <2>1, <2>2, UntouchedAside
<1> QED
  BY <1>4, <1>5 DEF SettingsHold

\* The same where the command remembers what it did, or as a failure.
LEMMA HoldsNext ==
  ASSUME StoresInv, SettingsHold, UNCHANGED <<same, made>>, NEW p \in Procs, ~Idle(p),
         NEW steps \in Seq(OutsideSteps),
         \A id \in Ids : (stored'[Kept("config", id)] = stored[Kept("config", id)]
                          \/ (AtBackup(job[p]) /\ id = job[p].id)),
         Untouched =>
           ( /\ job[p].todo # <<put(config_path)>>
             /\ stored'[config_path] = stored[config_path]
             /\ stored'[Manifest].list = <<>>)
  PROVE  /\ Next1(p, steps)
              /\ (Untouched =>
                    CarefulList(config_path, steps \o Rest(p), Good(Mem(p, "config"))))
            => SettingsHold'
         /\ \A f \in BaseNames, content \in Proper :
              /\ Keep(p, f, content, steps)
              /\ Untouched =>
                   ( /\ f = "manifest" => content.list = <<>>
                     /\ CarefulList(config_path, steps \o Rest(p),
                          Good(IF f = "config" THEN content ELSE Mem(p, "config"))))
              => SettingsHold'
         /\ Fail(p) => SettingsHold'
<1>1. /\ job[p] \in JobState /\ Rest(p) \in Seq(OutsideSteps)
      /\ job[p].rescue \in Seq(OutsideSteps) /\ <<>> \in Seq(OutsideSteps)
  BY AtStep, ShapeAt DEF SettingsHold
<1>2. steps \o Rest(p) \in Seq(OutsideSteps)
  BY <1>1, Lists
<1>3. ASSUME Untouched
      PROVE  /\ job[p].rescue = <<>> /\ job[p].mem["manifest"].list = <<>>
             /\ \A q \in Procs : job[q].todo # <<put(config_path)>>
  BY <1>3, UntouchedAt DEF Mem
<1>4. ASSUME Next1(p, steps),
             Untouched => CarefulList(config_path, steps \o Rest(p), Good(Mem(p, "config")))
      PROVE  SettingsHold'
  <2>1. Do(p, steps \o Rest(p), job[p])
    BY <1>4 DEF Next1
  <2> QED
    BY <1>1, <1>2, <1>3, <1>4, <2>1, HoldsOn DEF Mem
<1>5. ASSUME NEW f \in BaseNames, NEW content \in Proper, Keep(p, f, content, steps),
             Untouched =>
               ( /\ f = "manifest" => content.list = <<>>
                 /\ CarefulList(config_path, steps \o Rest(p),
                      Good(IF f = "config" THEN content ELSE Mem(p, "config"))))
      PROVE  SettingsHold'
  <2> DEFINE now == [job[p] EXCEPT !.mem[f] = content]
  <2>1. Do(p, steps \o Rest(p), now)
    BY <1>5 DEF Keep
  <2>2. /\ now \in JobState /\ now.rescue = job[p].rescue
        /\ \A g \in BaseNames : now.mem[g] = IF g = f THEN content ELSE job[p].mem[g]
    BY <1>1 DEF JobState
  <2>3. "manifest" \in BaseNames /\ "config" \in BaseNames
    BY PlacesHave, BackedNames
  <2>4. now.mem["config"] = IF f = "config" THEN content ELSE Mem(p, "config")
    BY <2>2, <2>3 DEF Mem
  <2>5. Untouched => now.mem["manifest"].list = <<>>
    BY <1>3, <1>5, <2>2, <2>3
  <2> HIDE DEF now
  <2> QED
    BY <1>1, <1>2, <1>3, <1>5, <2>1, <2>2, <2>4, <2>5, HoldsOn
<1>6. ASSUME Fail(p) PROVE SettingsHold'
  <2> DEFINE now == [job[p] EXCEPT !.rescue = <<>>]
  <2>1. Do(p, job[p].rescue, now)
    BY <1>6 DEF Fail
  <2>2. now \in JobState /\ now.rescue = <<>>
    <3>1. <<>> \in Seq(CopySteps)
      OBVIOUS
    <3>2. \A q \in Seq(CopySteps) :
            [job[p] EXCEPT !.rescue = q] \in JobState /\ [job[p] EXCEPT !.rescue = q].rescue = q
      BY <1>1 DEF JobState
    <3> QED
      BY <3>1, <3>2
  <2> HIDE DEF now
  <2> QED
    BY <1>1, <1>3, <2>1, <2>2, HoldsOn
<1> QED
  BY <1>4, <1>5, <1>6

\* The lists that the commands and their steps are made of.
LEMMA OutsideLists ==
  /\ load_config \in Seq(OutsideSteps) /\ run_migration \in Seq(OutsideSteps)
  /\ \A command \in {"trust", "history", "load", "save", "update", "rollback"} :
       Program(command) \in Seq(OutsideSteps)
  /\ \A f \in Locations : f[2] # "backup" => Overwrite(f) \in Seq(OutsideSteps)
  /\ \A id \in Ids, dir \in {"data", "conf"} :
       /\ restore_backup(id, dir) \in Seq(OutsideSteps)
       /\ create_backup(id, dir) # <<>>
       /\ Head(create_backup(id, dir)) = copy(config_path, Kept("config", id))
       /\ Tail(create_backup(id, dir)) \in Seq(OutsideSteps)
<1> USE BackedNames
<1>1. /\ \A f \in Locations : read(f) \in OutsideSteps
      /\ \A f \in Locations : f[2] # "backup" => open(f) \in OutsideSteps /\ put(f) \in OutsideSteps
  BY StepsAre DEF OutsideSteps, AnyStep, ConfigBackup, read, open, put
<1>2. /\ \A f, g \in Locations : f[1] = g[1] /\ ~(g[1] = "config" /\ g[2] = "backup")
           => copy(f, g) \in OutsideSteps
  BY StepsAre, StepKinds DEF OutsideSteps, ConfigBackup, copy
<1>3. /\ \A op \in {"cleanup", "migrate", "up", "restore", "undo", "guard", "record",
                    "add_to_manifest"} : do(op) \in OutsideSteps
      /\ \A dir \in {"data", "conf"} : backup(dir) \in OutsideSteps
  BY StepsAre DEF OutsideSteps, AnyStep, ConfigBackup, do, backup
<1>4. \A f \in Locations : f[2] # "backup" => Overwrite(f) \in Seq(OutsideSteps)
  BY <1>1, Lists DEF Overwrite
<1>5. \A n \in Backed : Store(n) \in Locations /\ Store(n)[2] # "backup"
  BY ConfPlaces DEF Store
<1>6. load_config \in Seq(OutsideSteps)
  BY <1>1, <1>3, <1>5, ConfPlaces, Lists DEF load_config, migrate_if_needed
<1>7. run_migration \in Seq(OutsideSteps)
  <2>1. Overwrite(Store("migration_state")) \in Seq(OutsideSteps)
    BY <1>4, <1>5
  <2>2. <<backup("data"), read(Store("migration_state")), do("guard")>> \in Seq(OutsideSteps)
        /\ <<do("up"), do("record")>> \in Seq(OutsideSteps)
    BY <1>1, <1>3, <1>5, Lists
  <2>3. <<backup("data"), read(Store("migration_state")), do("guard"), do("up"), do("record")>>
          = <<backup("data"), read(Store("migration_state")), do("guard")>>
              \o <<do("up"), do("record")>>
    OBVIOUS
  <2> QED
    BY <2>1, <2>2, <2>3, Lists DEF run_migration
<1>8. ASSUME NEW command \in {"trust", "history", "load", "save", "update", "rollback"}
      PROVE  Program(command) \in Seq(OutsideSteps)
  <2>1. CASE command \in {"trust", "history"}
    <3>1. Program(command) = <<read(Store(command))>> \o Overwrite(Store(command))
      BY <2>1 DEF Program
    <3> QED
      BY <2>1, <3>1, <1>1, <1>4, <1>5, Lists
  <2>2. CASE command = "load"
    BY <2>2, <1>6 DEF Program
  <2>3. CASE command = "save"
    <3>1. Program(command) = load_config \o Overwrite(config_path)
      BY <2>3 DEF Program
    <3> QED
      BY <3>1, <1>4, <1>6, ConfPlaces, Lists
  <2>4. CASE command = "update"
    <3>1. Program(command) = load_config \o <<backup("conf")>>
      BY <2>4 DEF Program
    <3> QED
      BY <3>1, <1>3, <1>6, Lists
  <2>5. CASE command = "rollback"
    <3>1. Program(command) = <<read(Manifest), do("restore")>>
      BY <2>5 DEF Program
    <3> QED
      BY <3>1, <1>1, <1>3, ConfPlaces, Lists
  <2> QED
    BY <2>1, <2>2, <2>3, <2>4, <2>5
<1>9. ASSUME NEW id \in Ids, NEW dir \in {"data", "conf"}
      PROVE  /\ restore_backup(id, dir) \in Seq(OutsideSteps)
             /\ create_backup(id, dir) # <<>>
             /\ Head(create_backup(id, dir)) = copy(config_path, Kept("config", id))
             /\ Tail(create_backup(id, dir)) \in Seq(OutsideSteps)
  <2> DEFINE from(i) == copy(Source(FILES_TO_BACKUP[i], dir), Kept(FILES_TO_BACKUP[i], id))
             back(i) == copy(Kept(FILES_TO_BACKUP[i], id), Source(FILES_TO_BACKUP[i], dir))
  <2>1. \A i \in 1 .. 4 : back(i) \in OutsideSteps
    BY <1>2, ConfPlaces
  <2>2. restore_backup(id, dir) \in Seq(OutsideSteps)
    BY <2>1, Lists DEF restore_backup
  <2>3. \A i \in 2 .. 4 : from(i) \in OutsideSteps
    <3>1. \A i \in 2 .. 4 : FILES_TO_BACKUP[i] # "config" /\ FILES_TO_BACKUP[i] \in Backed
      BY DEF FILES_TO_BACKUP
    <3> QED
      BY <3>1, <1>2, ConfPlaces
  <2>4. from(1) = copy(config_path, Kept("config", id))
    BY ConfPlaces DEF FILES_TO_BACKUP
  <2> HIDE DEF from
  <2>5. CopyTo(id, dir) = <<from(1), from(2), from(3), from(4)>>
    BY DEF CopyTo, from
  <2>7. Tail(CopyTo(id, dir)) = <<from(2), from(3), from(4)>>
        /\ Head(CopyTo(id, dir)) = from(1) /\ CopyTo(id, dir) # <<>>
    BY <2>5
  <2>8. Tail(CopyTo(id, dir)) \in Seq(OutsideSteps)
    <3>1. from(2) \in OutsideSteps /\ from(3) \in OutsideSteps /\ from(4) \in OutsideSteps
      BY <2>3
    <3>2. \A a, b, c \in OutsideSteps : <<a, b, c>> \in Seq(OutsideSteps)
      BY Lists
    <3> QED
      BY <2>7, <3>1, <3>2
  <2>9. CopyTo(id, dir) \in Seq(AnyStep)
    BY CopiesReady, StepKinds
  <2>10. ASSUME NEW q \in Seq(AnyStep), NEW r \in Seq(OutsideSteps), q # <<>>,
                Head(q) = from(1), Tail(q) \in Seq(OutsideSteps)
         PROVE  /\ q \o r \in Seq(AnyStep) /\ q \o r # <<>>
                /\ Head(q \o r) = from(1) /\ Tail(q \o r) \in Seq(OutsideSteps)
    <3>1. r \in Seq(AnyStep)
      BY DEF OutsideSteps
    <3>2. q \o r # <<>> /\ Head(q \o r) = Head(q) /\ Tail(q \o r) = Tail(q) \o r
      BY <2>10, <3>1
    <3> QED
      BY <2>10, <3>1, <3>2, Lists
  <2>11. /\ <<read(Manifest), do("add_to_manifest")>> \in Seq(OutsideSteps)
         /\ <<read(Manifest), do("cleanup")>> \in Seq(OutsideSteps)
         /\ Overwrite(Manifest) \in Seq(OutsideSteps)
    BY <1>1, <1>3, <1>4, ConfPlaces, Lists
  <2> DEFINE known == CopyTo(id, dir) \o <<read(Manifest), do("add_to_manifest")>>
             saved == known \o Overwrite(Manifest)
  <2>12. /\ known \in Seq(AnyStep) /\ known # <<>>
         /\ Head(known) = from(1) /\ Tail(known) \in Seq(OutsideSteps)
    BY <2>7, <2>8, <2>9, <2>10, <2>11
  <2> HIDE DEF known
  <2>13. /\ saved \in Seq(AnyStep) /\ saved # <<>>
         /\ Head(saved) = from(1) /\ Tail(saved) \in Seq(OutsideSteps)
    BY <2>10, <2>11, <2>12
  <2>14. create_backup(id, dir) = saved \o <<read(Manifest), do("cleanup")>>
    BY DEF create_backup, known
  <2> HIDE DEF saved
  <2> QED
    BY <2>2, <2>4, <2>10, <2>11, <2>13, <2>14
<1> QED
  BY <1>4, <1>6, <1>7, <1>8, <1>9

\* Every command is careful when it starts.
LEMMA ProgramCareful ==
  ASSUME NEW command \in {"trust", "history", "load", "save", "update", "rollback"}, NEW good
  PROVE  CarefulList(config_path, Program(command), good)
<1> USE BackedNames
<1> DEFINE H == HarmlessSteps(config_path)
<1>1. /\ \A f \in Locations : f[1] # "config" \/ f = config_path => read(f) \in H
      /\ \A f \in Locations : f[1] # "config" => open(f) \in H /\ put(f) \in H
      /\ do("migrate") \in H /\ do("restore") \in H
  BY StepsAre DEF HarmlessSteps, AnyStep, read, open, put, do
<1>2. \A n \in Backed : Store(n) \in Locations /\ Store(n)[1] = n
  BY PlacesHave
<1> HIDE DEF H
<1>3. load_config \in Seq(H) /\ \E i \in DOMAIN load_config : load_config[i] = read(config_path)
  <2>1. migrate_if_needed \in Seq(H) /\ <<read(config_path)>> \in Seq(H)
    BY <1>1, <1>2, ConfPlaces, Lists DEF migrate_if_needed
  <2>2. Len(migrate_if_needed) = 2 /\ Len(<<read(config_path)>>) = 1
    BY DEF migrate_if_needed
  <2>3. ASSUME NEW m \in Seq(H), NEW r \in Seq(H), Len(m) = 2, Len(r) = 1
        PROVE  m \o r \in Seq(H) /\ 3 \in DOMAIN (m \o r) /\ (m \o r)[3] = r[1]
    <3>1. /\ m \o r \in Seq(H) /\ Len(m \o r) = Len(m) + Len(r)
          /\ \A i \in 1 .. Len(m) + Len(r) :
               (m \o r)[i] = IF i <= Len(m) THEN m[i] ELSE r[i - Len(m)]
      BY ConcatProperties, Zenon
    <3>2. 3 \in 1 .. Len(m) + Len(r) /\ ~(3 <= Len(m)) /\ 3 - Len(m) = 1
      BY <2>3
    <3>3. (m \o r)[3] = r[1]
      BY <3>1, <3>2
    <3> QED
      BY <2>3, <3>1, <3>2, <3>3
  <2>4. load_config \in Seq(H) /\ 3 \in DOMAIN load_config /\ load_config[3] = read(config_path)
    BY <2>1, <2>2, <2>3 DEF load_config
  <2> QED
    BY <2>4
<1>4. CASE command \in {"trust", "history"}
  <2>1. Program(command) = <<read(Store(command))>> \o Overwrite(Store(command))
    BY <1>4 DEF Program
  <2>2. Overwrite(Store(command)) \in Seq(H)
    BY <1>1, <1>2, <1>4, Lists DEF Overwrite
  <2>3. <<read(Store(command))>> \in Seq(H)
    BY <1>1, <1>2, <1>4, Lists
  <2>4. Program(command) \in Seq(H)
    BY <2>1, <2>2, <2>3, Lists
  <2> QED
    BY <2>4, CarefulStarts DEF H
<1>5. CASE command = "load"
  <2>1. Program(command) = load_config
    BY <1>5 DEF Program
  <2> QED
    BY <1>3, <2>1, CarefulStarts DEF H
<1>6. CASE command = "save"
  <2>1. Program(command) = load_config \o Overwrite(config_path)
    BY <1>6 DEF Program
  <2>2. Overwrite(config_path) \in Seq(AnyStep)
    BY OverwriteReady, PlacesHave, StepKinds
  <2> QED
    BY <1>3, <2>1, <2>2 DEF CarefulList, H
<1>7. CASE command = "update"
  <2>1. Program(command) = load_config \o <<backup("conf")>>
    BY <1>7 DEF Program
  <2>2. <<backup("conf")>> \in Seq(AnyStep) /\ <<backup("conf")>> # <<>>
        /\ Backs(Head(<<backup("conf")>>))
    <3>1. backup("conf") \in AnyStep
      BY StepsAre DEF AnyStep
    <3> QED
      BY <3>1 DEF Backs, backup
  <2>3. CarefulList(config_path, <<backup("conf")>>, good)
    BY <2>2, CarefulStarts
  <2> QED
    BY <1>3, <2>1, <2>3, CarefulPrepend DEF H
<1>8. CASE command = "rollback"
  <2>1. Program(command) = <<read(Manifest), do("restore")>>
    BY <1>8 DEF Program
  <2>2. Program(command) \in Seq(H)
    BY <1>1, <2>1, ConfPlaces, Lists
  <2> QED
    BY <2>2, CarefulStarts DEF H
<1> QED
  BY <1>4, <1>5, <1>6, <1>7, <1>8

-----------------------------------------------------------------------------
(* The steps again.                                                         *)

\* A command starts; no save of the configuration is under way.
LEMMA StartHolds ==
  ASSUME StoresInv, SettingsHold, NEW p \in Procs,
         NEW command \in {"trust", "history", "load", "save", "update", "rollback"},
         Start(p, command), ~loose'
  PROVE  SettingsHold'
<1>1. Do(p, Program(command), NoJob) /\ UNCHANGED <<stored, same, made>> /\ ~Saving
  BY DEF Start
<1>2. ASSUME Untouched, NEW q \in Procs, job[q].todo = <<put(config_path)>>
      PROVE  FALSE
  <2>1. ~Idle(q) /\ Head(job[q].todo) = put(config_path) /\ Rest(q) = <<>>
    BY <1>2 DEF Idle, Rest
  <2>2. Doing(q, "put") /\ Target(q) = config_path
    BY <2>1 DEF Doing, Target, put
  <2>3. SavesConfig(q)
    BY <2>1, <2>2 DEF SavesConfig
  <2> QED
    BY <1>1, <2>2, <2>3 DEF Saving
<1>3. NoJob \in JobState /\ NoJob.rescue = <<>> /\ NoJob.mem["manifest"].list = <<>>
      /\ <<>> \in Seq(OutsideSteps)
  BY NoJobOk, NoJobIs
<1>4. /\ Program(command) \in Seq(OutsideSteps)
      /\ CarefulList(config_path, Program(command), Good(NoJob.mem["config"]))
  BY OutsideLists, ProgramCareful
<1>5. Untouched => stored'[config_path] = stored[config_path] /\ stored'[Manifest].list = <<>>
  BY <1>1 DEF Untouched
<1> QED
  BY <1>1, <1>2, <1>3, <1>4, <1>5, HoldsOn

\* A step at which the configuration is not saved, and not copied to a backup:
\* what is left of the list is as careful as the list was.
LEMMA RestCareful ==
  ASSUME StoresInv, Untouched, NEW p \in Procs, ~Idle(p),
         Head(job[p].todo).op \notin {"open", "put"} \/ Target(p) # config_path
  PROVE  /\ Good(stored[config_path]) /\ job[p].todo # <<put(config_path)>>
         /\ Head(job[p].todo) \in HarmlessSteps(config_path) \/ Backs(Head(job[p].todo))
         /\ ~Backs(Head(job[p].todo)) /\ Head(job[p].todo) # read(config_path)
              => CarefulList(config_path, Rest(p), Good(Mem(p, "config")))
         /\ Head(job[p].todo) = read(config_path)
              => CarefulList(config_path, Rest(p), TRUE)
<1>1. job[p].todo # <<put(config_path)>> /\ job[p].todo # Overwrite(config_path)
  <2>1. Head(<<put(config_path)>>) = put(config_path)
        /\ Head(Overwrite(config_path)) = open(config_path)
    BY DEF Overwrite
  <2> QED
    BY <2>1 DEF Target, open, put
<1>2. Good(stored[config_path])
      /\ CarefulList(config_path, job[p].todo, Good(Mem(p, "config")))
  BY <1>1, UntouchedAt
<1>3. Good(Mem(p, "config")) \in BOOLEAN
  BY DEF Good
<1>4. job[p].todo # <<>>
  BY DEF Idle
<1> QED
  BY <1>1, <1>2, <1>3, <1>4, CarefulRest DEF Rest

\* What lies at a file that a harmless step writes to.
LEMMA WritesAside ==
  ASSUME StoresInv, Untouched, NEW f \in Locations, NEW content,
         f # config_path, stored' = [stored EXCEPT ![f] = content],
         f[1] = "manifest" => content.list = <<>>
  PROVE  stored'[config_path] = stored[config_path] /\ stored'[Manifest].list = <<>>
<1>1. stored = [g \in Locations |-> stored[g]]
  BY DEF StoresInv
<1>2. config_path \in Locations /\ Manifest \in Locations /\ Manifest[1] = "manifest"
  BY ConfPlaces
<1> QED
  BY <1>1, <1>2 DEF Untouched

LEMMA ReadHolds ==
  ASSUME StoresInv, SettingsHold, NEW p \in Procs, Read(p)
  PROVE  SettingsHold'
<1>1. ~Idle(p) /\ Head(job[p].todo).op = "read" /\ UNCHANGED <<stored, same, made>>
      /\ Doing(p, "read")
  BY DEF Read, Doing
<1>2. Target(p) \in Locations /\ Head(job[p].todo) = read(Target(p))
  BY <1>1, AtStep, StepForms DEF Target
<1>3. <<>> \in Seq(OutsideSteps) /\ <<>> \o Rest(p) = Rest(p)
  <2>1. Rest(p) \in Seq(AnyStep)
    BY <1>1, AtStep
  <2> QED
    BY <2>1
<1>4. Untouched => /\ job[p].todo # <<put(config_path)>>
                   /\ stored'[config_path] = stored[config_path]
                   /\ stored'[Manifest].list = <<>>
  BY <1>1, RestCareful DEF Untouched
<1>5. CASE Damaged(Target(p))
  <2>1. Fail(p)
    BY <1>5 DEF Read
  <2> QED
    BY <1>1, <1>3, <1>4, <2>1, HoldsNext
<1>6. CASE ~Damaged(Target(p))
  <2> DEFINE f == Target(p)
             found == Loaded(f)
  <2>1. Keep(p, f[1], found, <<>>)
    BY <1>6 DEF Read
  <2>2. f[1] \in BaseNames /\ found \in Proper
    BY <1>2, PlacesHave, ReadsProper
  <2>3. ASSUME Untouched
        PROVE  /\ f[1] = "manifest" => found.list = <<>>
               /\ CarefulList(config_path, Rest(p),
                    Good(IF f[1] = "config" THEN found ELSE Mem(p, "config")))
    <3>1. f[1] = "manifest" => found.list = <<>>
      <4>1. SUFFICES ASSUME f[1] = "manifest" PROVE found.list = <<>>
        OBVIOUS
      <4>2. f = Manifest /\ f # config_path
        BY <1>2, <4>1, ConfPlaces
      <4>3. found = Found(Manifest) /\ stored[Manifest].list = <<>>
        BY <2>3, <4>2 DEF Loaded, Untouched
      <4> QED
        BY <4>3 DEF Found, Whole
    <3>2. Head(job[p].todo) \in HarmlessSteps(config_path) /\ ~Backs(Head(job[p].todo))
      BY <1>1, <2>3, RestCareful DEF Backs, ConfigBackup
    <3>3. f[1] = "config" => f = config_path
      BY <1>1, <3>2 DEF HarmlessSteps, Target
    <3>4. CASE f = config_path
      <4>1. Good(stored[config_path]) /\ CarefulList(config_path, Rest(p), TRUE)
        BY <1>1, <1>2, <2>3, <3>4, RestCareful
      <4>2. stored[config_path] \in Proper
        BY ConfPlaces DEF StoresInv
      <4>3. found = [stored[config_path] EXCEPT !.schema = 2]
        BY <3>4, <4>1 DEF Loaded, Found, Good
      <4>4. Good(found)
        BY <4>1, <4>2, <4>3 DEF Good, Proper, Content
      <4>5. f[1] = "config"
        BY <3>4, ConfPlaces
      <4>6. CarefulList(config_path, Rest(p), Good(found))
        BY <4>1, <4>4 DEF CarefulList
      <4> QED
        BY <3>1, <4>5, <4>6
    <3>5. CASE f # config_path
      <4>1. Head(job[p].todo) # read(config_path)
        BY <3>5 DEF Target, read
      <4>2. CarefulList(config_path, Rest(p), Good(Mem(p, "config")))
        BY <1>1, <2>3, <3>2, <4>1, RestCareful
      <4> QED
        BY <3>1, <3>3, <3>5, <4>2
    <3> QED
      BY <3>4, <3>5
  <2> HIDE DEF f, found
  <2> QED
    BY <1>1, <1>3, <1>4, <2>1, <2>2, <2>3, HoldsNext
<1> QED
  BY <1>5, <1>6

\* A file is opened: of the configuration's, only by a command that runs alone.
LEMMA OpenHolds ==
  ASSUME StoresInv, SettingsHold, NEW p \in Procs, Open(p), ~loose'
  PROVE  SettingsHold'
<1>1. /\ ~Idle(p) /\ Head(job[p].todo).op = "open" /\ Doing(p, "open")
      /\ stored' = [stored EXCEPT ![Target(p)] = Bad("empty")]
      /\ Next1(p, <<>>) /\ UNCHANGED <<same, made>> /\ ~(SavesConfig(p) /\ Busy(p))
  BY DEF Open, Doing
<1>2. /\ Target(p) \in Locations /\ Rest(p) \in Seq(AnyStep) /\ <<>> \o Rest(p) = Rest(p)
      /\ job[p] \in JobState
  <2>1. Rest(p) \in Seq(AnyStep)
    BY <1>1, AtStep
  <2> QED
    BY <1>1, <2>1, AtFile, AtStep
<1>3. \A id \in Ids : (stored'[Kept("config", id)] = stored[Kept("config", id)]
                       \/ (AtBackup(job[p]) /\ id = job[p].id))
  BY <1>1, WritesOwn DEF SettingsHold
<1>4. <<>> \in Seq(OutsideSteps) /\ Bad("empty").list = <<>>
  BY DEF Bad
<1>5. CASE Untouched /\ job[p].todo = Overwrite(config_path)
  <2>1. /\ Rest(p) = <<put(config_path)>> /\ Target(p) = config_path
    BY <1>5 DEF Overwrite, Rest, Target, open
  <2>2. \A q \in Procs \ {p} : Idle(q)
    <3>1. \A i \in DOMAIN Rest(p) : Rest(p)[i].op # "record"
      BY <2>1 DEF put
    <3> QED
      BY <1>1, <2>1, <3>1 DEF SavesConfig, Busy
  <2>3. Do(p, <<put(config_path)>>, job[p])
    BY <1>1, <1>2, <2>1 DEF Next1
  <2>4. Good(Mem(p, "config")) /\ job[p].rescue = <<>> /\ Mem(p, "manifest").list = <<>>
    <3>1. job[p].todo # <<put(config_path)>>
      <4>1. Head(<<put(config_path)>>) = put(config_path)
        OBVIOUS
      <4> QED
        BY <1>1, <4>1 DEF put
    <3>2. CarefulList(config_path, job[p].todo, Good(Mem(p, "config")))
      BY <1>1, <1>5, <3>1, UntouchedAt
    <3>3. Good(Mem(p, "config")) \in BOOLEAN /\ job[p].todo # <<>>
      BY <1>1 DEF Good, Idle
    <3>4. Head(job[p].todo) \notin HarmlessSteps(config_path) /\ ~Backs(Head(job[p].todo))
      BY <1>1, <2>1, ConfPlaces DEF HarmlessSteps, Backs, ConfigBackup, Target
    <3>5. Good(Mem(p, "config"))
      BY <3>2, <3>3, <3>4, CarefulRest
    <3> QED
      BY <1>1, <1>5, <3>5, UntouchedAt
  <2>5. /\ \A q \in Procs \ {p} : job'[q] = job[q]
        /\ job'[p].todo = <<put(config_path)>>
        /\ job'[p].rescue = <<>> /\ job'[p].mem = job[p].mem
    <3>1. <<put(config_path)>> \in Seq(AnyStep) /\ <<put(config_path)>> # <<>>
      BY <1>2, <2>1
    <3> QED
      BY <1>2, <2>3, <2>4, <3>1, DoIs
  <2>6. Shape'
    <3>1. <<put(config_path)>> \in Seq(OutsideSteps)
      BY <1>1, <2>1, ShapeAt DEF SettingsHold
    <3>2. Shaped(config_path, made', job'[p])
      BY <2>5, <3>1, <1>4 DEF Shaped
    <3>3. ~AtBackup(job'[p])
      BY <2>5 DEF AtBackup, ConfigBackup, put
    <3>4. made' \in {made, made + 1} /\ made' \in 0 .. MaxMade
      BY <1>1 DEF StoresInv
    <3> QED
      BY <1>1, <1>3, <2>5, <3>2, <3>3, <3>4, ShapeStep DEF SettingsHold
  <2>7. config_path' = config_path /\ Manifest' = Manifest
    BY <1>1, ConfStays DEF Manifest
  <2>8. /\ stored'[config_path].is = "empty" /\ stored'[Manifest].list = <<>>
    <3>1. stored'[config_path] = Bad("empty")
      BY <1>1, <1>2, <2>1 DEF StoresInv
    <3>2. Manifest # config_path
      BY ConfPlaces
    <3>3. stored'[Manifest] = stored[Manifest]
      BY <1>1, <2>1, <3>2, ConfPlaces DEF StoresInv
    <3> QED
      BY <1>5, <3>1, <3>3 DEF Bad, Untouched
  <2>9. Careful(config_path, job'[p])
    BY <2>4, <2>5 DEF Careful, Mem
  <2>10. \A q \in Procs : Careful(config_path, job'[q])
    BY <1>5, <2>5, <2>9 DEF Untouched
  <2>11. \A q \in Procs \ {p} : job'[q].todo = <<>>
    BY <2>2, <2>5 DEF Idle
  <2>12. Untouched'
    BY <2>5, <2>7, <2>8, <2>10, <2>11 DEF Untouched, Idle
  <2> QED
    BY <2>6, <2>12 DEF SettingsHold
<1>6. CASE ~(Untouched /\ job[p].todo = Overwrite(config_path))
  <2>1. ASSUME Untouched
        PROVE  /\ job[p].todo # <<put(config_path)>>
               /\ stored'[config_path] = stored[config_path]
               /\ stored'[Manifest].list = <<>>
               /\ CarefulList(config_path, Rest(p), Good(Mem(p, "config")))
    <3>1. job[p].todo # <<put(config_path)>>
      <4>1. Head(<<put(config_path)>>) = put(config_path)
        OBVIOUS
      <4> QED
        BY <1>1, <4>1 DEF put
    <3>2. CarefulList(config_path, job[p].todo, Good(Mem(p, "config")))
      BY <1>1, <2>1, <3>1, UntouchedAt
    <3>3. Good(Mem(p, "config")) \in BOOLEAN /\ job[p].todo # <<>>
      BY <1>1 DEF Good, Idle
    <3>4. ~Backs(Head(job[p].todo)) /\ Head(job[p].todo) # read(config_path)
      BY <1>1 DEF Backs, ConfigBackup, read
    <3>5. Head(job[p].todo) \in HarmlessSteps(config_path)
      BY <1>6, <2>1, <3>2, <3>3, <3>4, CarefulRest
    <3>6. Target(p) # config_path
      BY <1>1, <3>5, ConfPlaces DEF HarmlessSteps, Target
    <3>7. CarefulList(config_path, Rest(p), Good(Mem(p, "config")))
      BY <1>6, <2>1, <3>2, <3>3, <3>4, CarefulRest DEF Rest
    <3> QED
      BY <1>1, <1>2, <1>4, <2>1, <3>1, <3>6, <3>7, WritesAside
  <2> QED
    BY <1>1, <1>2, <1>3, <1>4, <2>1, HoldsNext
<1> QED
  BY <1>5, <1>6

\* What is written is what the command remembers: the good configuration, if the
\* file is the configuration's.
LEMMA PutHolds ==
  ASSUME StoresInv, SettingsHold, NEW p \in Procs, Put(p)
  PROVE  SettingsHold'
<1>1. /\ ~Idle(p) /\ Head(job[p].todo).op = "put" /\ Doing(p, "put")
      /\ Next1(p, <<>>) /\ UNCHANGED <<same, made>>
  BY DEF Put, Doing
<1>2. PICK content \in Outcomes(Target(p), Mem(p, Target(p)[1])) :
        stored' = [stored EXCEPT ![Target(p)] = content]
  BY DEF Put
<1>3. /\ Target(p) \in Locations /\ Rest(p) \in Seq(AnyStep) /\ <<>> \o Rest(p) = Rest(p)
      /\ job[p] \in JobState
  <2>1. Rest(p) \in Seq(AnyStep)
    BY <1>1, AtStep
  <2> QED
    BY <1>1, <2>1, AtFile, AtStep
<1>4. \A id \in Ids : (stored'[Kept("config", id)] = stored[Kept("config", id)]
                       \/ (AtBackup(job[p]) /\ id = job[p].id))
  BY <1>1, <1>2, WritesOwn DEF SettingsHold
<1>5. <<>> \in Seq(OutsideSteps) /\ Bad("garbage").list = <<>>
  BY DEF Bad
<1>6. CASE Untouched /\ job[p].todo = <<put(config_path)>>
  <2>1. Rest(p) = <<>> /\ Target(p) = config_path
    BY <1>6 DEF Rest, Target, put
  <2>2. /\ Good(Mem(p, "config")) /\ stored[config_path].is = "empty"
        /\ \A q \in Procs \ {p} : Idle(q)
    <3>1. ~CarefulList(config_path, job[p].todo, Good(Mem(p, "config")))
      BY <1>6, ConfPlaces, CarefulNotPut
    <3> QED
      BY <1>1, <1>6, <3>1, UntouchedAt
  <2>3. Do(p, <<>>, job[p])
    BY <1>1, <1>3, <2>1 DEF Next1
  <2>4. (\A q \in Procs \ {p} : job'[q] = job[q]) /\ job'[p] = NoJob
    <3>1. <<>> \in Seq(AnyStep)
      OBVIOUS
    <3> QED
      BY <1>3, <2>3, <3>1, DoIs
  <2>5. \A q \in Procs : job'[q].todo = <<>>
    BY <2>2, <2>4, NoJobIs DEF Idle
  <2>6. Shape'
    <3>1. Shaped(config_path, made', job'[p])
      BY <2>4, NoJobIs
    <3>2. ~AtBackup(job'[p])
      BY <2>5 DEF AtBackup
    <3>3. made' \in {made, made + 1} /\ made' \in 0 .. MaxMade
      BY <1>1 DEF StoresInv
    <3> QED
      BY <1>1, <1>4, <2>4, <3>1, <3>2, <3>3, ShapeStep DEF SettingsHold
  <2>7. config_path' = config_path /\ Manifest' = Manifest
    BY <1>1, ConfStays DEF Manifest
  <2>8. Good(stored'[config_path])
    <3>1. content = Mem(p, "config")
      BY <2>1, <2>2, ConfPlaces DEF Outcomes
    <3> QED
      BY <1>2, <1>3, <2>1, <2>2, <3>1 DEF StoresInv
  <2>9. stored'[Manifest].list = <<>>
    <3>1. Manifest # config_path
      BY ConfPlaces
    <3>2. stored'[Manifest] = stored[Manifest]
      BY <1>2, <2>1, <3>1, ConfPlaces DEF StoresInv
    <3> QED
      BY <1>6, <3>2 DEF Untouched
  <2>10. \A q \in Procs : Careful(config_path, job'[q])
    BY <1>6, <2>4, NoJobIs DEF Untouched
  <2>11. \A q \in Procs : job'[q].todo # <<put(config_path)>>
    <3>1. \A s : <<s>> # <<>>
      OBVIOUS
    <3>2. <<put(config_path)>> # <<>>
      BY <3>1
    <3> QED
      BY <2>5, <3>2
  <2>12. Untouched'
    BY <2>7, <2>8, <2>9, <2>10, <2>11 DEF Untouched
  <2> QED
    BY <2>6, <2>12 DEF SettingsHold
<1>7. CASE ~(Untouched /\ job[p].todo = <<put(config_path)>>)
  <2>1. ASSUME Untouched
        PROVE  /\ job[p].todo # <<put(config_path)>>
               /\ stored'[config_path] = stored[config_path]
               /\ stored'[Manifest].list = <<>>
               /\ CarefulList(config_path, Rest(p), Good(Mem(p, "config")))
    <3>1. /\ CarefulList(config_path, job[p].todo, Good(Mem(p, "config")))
          /\ Mem(p, "manifest").list = <<>>
      BY <1>1, <1>7, <2>1, UntouchedAt
    <3>2. Good(Mem(p, "config")) \in BOOLEAN /\ job[p].todo # <<>>
      BY <1>1 DEF Good, Idle
    <3>3. ~Backs(Head(job[p].todo)) /\ Head(job[p].todo) # read(config_path)
      BY <1>1 DEF Backs, ConfigBackup, read
    <3>4. job[p].todo # Overwrite(config_path)
      <4>1. Head(Overwrite(config_path)) = open(config_path)
        BY DEF Overwrite
      <4> QED
        BY <1>1, <4>1 DEF open
    <3>5. Head(job[p].todo) \in HarmlessSteps(config_path)
      BY <3>1, <3>2, <3>3, <3>4, CarefulRest
    <3>6. Target(p) # config_path
      BY <1>1, <3>5, ConfPlaces DEF HarmlessSteps, Target
    <3>7. CarefulList(config_path, Rest(p), Good(Mem(p, "config")))
      BY <3>1, <3>2, <3>3, <3>4, CarefulRest DEF Rest
    <3>8. Target(p)[1] = "manifest" => content.list = <<>>
      BY <1>5, <3>1 DEF Outcomes
    <3> QED
      BY <1>2, <1>3, <1>7, <2>1, <3>6, <3>7, <3>8, WritesAside
  <2> QED
    BY <1>1, <1>3, <1>4, <1>5, <2>1, HoldsNext
<1> QED
  BY <1>6, <1>7

\* A step other than an open or a put at which a careful command is.
LEMMA CopyCareful ==
  ASSUME StoresInv, Untouched, NEW p \in Procs, ~Idle(p),
         Head(job[p].todo).op \in {"copy", "fill"}, ~AtBackup(job[p])
  PROVE  /\ job[p].todo # <<put(config_path)>> /\ Target(p)[1] # "config"
         /\ Head(job[p].todo) \in HarmlessSteps(config_path)
         /\ CarefulList(config_path, Rest(p), Good(Mem(p, "config")))
<1>1. ~Backs(Head(job[p].todo)) /\ Head(job[p].todo) # read(config_path)
  BY DEF Backs, AtBackup, Idle, read
<1> QED
  BY <1>1, RestCareful DEF HarmlessSteps, Target

\* A file that is there is copied: the configuration's, if it is to a backup.
LEMMA CopyHolds ==
  ASSUME StoresInv, SettingsHold, NEW p \in Procs, Copy(p)
  PROVE  SettingsHold'
<1> DEFINE from == Head(job[p].todo).from
           next == fill(from, Target(p))
<1>1. /\ ~Idle(p) /\ Head(job[p].todo).op = "copy" /\ Doing(p, "copy")
      /\ UNCHANGED <<same, made>>
      /\ \/ UNCHANGED stored /\ Next1(p, <<>>) /\ stored[from].is = "absent"
         \/ /\ stored' = [stored EXCEPT ![Target(p)] = Bad("empty")]
            /\ Next1(p, <<next>>) /\ stored[from].is # "absent"
  BY DEF Copy, Doing
<1>2. /\ Target(p) \in Locations /\ from \in Locations /\ Target(p)[1] = from[1]
      /\ Rest(p) \in Seq(AnyStep) /\ <<>> \o Rest(p) = Rest(p) /\ job[p] \in JobState
  <2>1. Rest(p) \in Seq(AnyStep) /\ Head(job[p].todo) \in AnyStep
    BY <1>1, AtStep
  <2> QED
    BY <1>1, <2>1, AtStep, StepForms DEF Target
<1>3. \A id \in Ids : (stored'[Kept("config", id)] = stored[Kept("config", id)]
                       \/ (AtBackup(job[p]) /\ id = job[p].id))
  BY <1>1, WritesOwn DEF SettingsHold
<1>4. <<>> \in Seq(OutsideSteps) /\ Bad("empty").list = <<>>
  BY DEF Bad
<1>5. next \in AnyStep /\ next.op = "fill" /\ next.f = Target(p) /\ next.from = from
  BY <1>2, StepsAre, StepKinds DEF fill
<1>6. CASE AtBackup(job[p])
  <2>1. /\ from = config_path /\ Target(p) = Kept("config", job[p].id) /\ job[p].id \in Ids
        /\ Rest(p) \in Seq(OutsideSteps) /\ job[p].rescue \in Seq(OutsideSteps)
    BY <1>1, <1>6, ShapeAt DEF SettingsHold
  <2>2. Target(p)[1] = "config" /\ Target(p)[2] = "backup"
    BY <2>1, ConfPlaces, BackedNames
  <2>3. Untouched => Good(stored[config_path]) /\ job[p].todo # <<put(config_path)>>
    BY <1>1, RestCareful
  <2>4. CASE UNCHANGED stored /\ Next1(p, <<>>) /\ stored[from].is = "absent"
    <3>1. ~Untouched
      BY <2>1, <2>3, <2>4 DEF Good
    <3> QED
      BY <1>1, <1>3, <1>4, <2>4, <3>1, HoldsNext
  <2>5. CASE /\ stored' = [stored EXCEPT ![Target(p)] = Bad("empty")]
             /\ Next1(p, <<next>>)
    <3> DEFINE steps == <<next>> \o Rest(p)
    <3>1. /\ steps \in Seq(AnyStep) /\ steps # <<>>
          /\ Head(steps) = next /\ Tail(steps) = Rest(p)
      <4>1. <<next>> \in Seq(AnyStep) /\ <<next>> # <<>> /\ Head(<<next>>) = next
            /\ Tail(<<next>>) = <<>>
        BY <1>5
      <4> HIDE DEF next
      <4>2. \A a, b \in Seq(AnyStep) :
              a # <<>> => /\ a \o b \in Seq(AnyStep) /\ a \o b # <<>>
                          /\ Head(a \o b) = Head(a) /\ Tail(a \o b) = Tail(a) \o b
        OBVIOUS
      <4> QED
        BY <1>2, <4>1, <4>2
    <3> HIDE DEF steps, next
    <3>2. Do(p, steps, job[p])
      BY <2>5 DEF Next1, steps
    <3>3. /\ \A q \in Procs \ {p} : job'[q] = job[q]
          /\ job'[p].todo = steps
          /\ job'[p].rescue = job[p].rescue
          /\ job'[p].id = job[p].id /\ job'[p].mem = job[p].mem
      BY <1>2, <3>1, <3>2, DoIs
    <3>4. ConfigBackup(next)
      BY <1>5, <2>2 DEF ConfigBackup
    <3>5. AtBackup(job'[p])
      BY <3>1, <3>3, <3>4 DEF AtBackup
    <3>6. Shaped(config_path, made', job'[p])
      <4>1. job[p].id \in 1 .. made
        <5>1. Shaped(config_path, made, job[p])
          BY DEF SettingsHold, Shape
        <5>2. job[p].todo \notin Seq(OutsideSteps)
          <6>1. Head(job[p].todo) \notin OutsideSteps /\ job[p].todo # <<>>
            BY <1>6 DEF AtBackup, OutsideSteps
          <6> QED
            BY <6>1
        <5> QED
          BY <5>1, <5>2 DEF Shaped, CopiesConfig
      <4>2. made' = made
        BY <1>1
      <4> QED
        BY <1>5, <2>1, <3>1, <3>3, <3>4, <4>1, <4>2 DEF Shaped, CopiesConfig
    <3>7. Shape' /\ (SafeBackup => SafeBackup')
      <4>1. made' \in {made, made + 1} /\ made' \in 0 .. MaxMade
        BY <1>1 DEF StoresInv
      <4>2. stored'[Head(job'[p].todo).f].is = "empty"
        <5>1. stored'[Target(p)] = Bad("empty")
          BY <1>2, <2>5 DEF StoresInv
        <5> QED
          BY <1>5, <3>1, <3>3, <5>1 DEF Bad
      <4>3. Head(job'[p].todo).op # "copy"
        BY <1>5, <3>1, <3>3
      <4> QED
        BY <1>1, <1>3, <1>6, <3>3, <3>5, <3>6, <4>1, <4>2, <4>3, ShapeStep DEF SettingsHold
    <3>8. ASSUME Untouched PROVE Untouched'
      <4>1. /\ job[p].rescue = <<>> /\ Mem(p, "manifest").list = <<>>
            /\ \A q \in Procs : job[q].todo # <<put(config_path)>>
        BY <1>1, <2>3, <3>8, UntouchedAt
      <4>2. Backs(Head(steps))
        BY <3>1, <3>4 DEF Backs
      <4>3. CarefulList(config_path, steps, Good(Mem(p, "config")))
        BY <3>1, <4>2, CarefulStarts
      <4>4. Careful(config_path, job'[p])
        BY <3>3, <4>1, <4>3 DEF Careful, Mem
      <4>5. job'[p].todo # <<put(config_path)>>
        BY <3>3, <4>3, CarefulNotPut, ConfPlaces
      <4>6. stored'[config_path] = stored[config_path] /\ stored'[Manifest].list = <<>>
        <5>1. Target(p) # config_path
          BY <2>2, ConfPlaces
        <5> QED
          BY <1>2, <1>4, <2>5, <3>8, <5>1, WritesAside
      <4> QED
        BY <1>1, <3>3, <3>8, <4>1, <4>4, <4>5, <4>6, UntouchedAside
    <3> QED
      BY <3>7, <3>8 DEF SettingsHold
  <2> QED
    BY <1>1, <2>4, <2>5
<1>7. CASE ~AtBackup(job[p])
  <2>1. next \in OutsideSteps
    BY <1>1, <1>5, <1>7 DEF OutsideSteps, ConfigBackup, AtBackup, Idle, Target
  <2>2. ASSUME Untouched
        PROVE  /\ job[p].todo # <<put(config_path)>>
               /\ stored'[config_path] = stored[config_path]
               /\ stored'[Manifest].list = <<>>
               /\ CarefulList(config_path, Rest(p), Good(Mem(p, "config")))
               /\ CarefulList(config_path, <<next>> \o Rest(p), Good(Mem(p, "config")))
    <3>1. /\ job[p].todo # <<put(config_path)>> /\ Target(p)[1] # "config"
          /\ CarefulList(config_path, Rest(p), Good(Mem(p, "config")))
      BY <1>1, <1>7, <2>2, CopyCareful
    <3>2. next \in HarmlessSteps(config_path)
      BY <1>5, <3>1 DEF HarmlessSteps
    <3> HIDE DEF next
    <3>3. CarefulList(config_path, <<next>> \o Rest(p), Good(Mem(p, "config")))
      BY <3>1, <3>2, CarefulPrepend, Lists
    <3>4. stored'[config_path] = stored[config_path] /\ stored'[Manifest].list = <<>>
      <4>1. CASE UNCHANGED stored
        BY <2>2, <4>1 DEF Untouched
      <4>2. CASE stored' = [stored EXCEPT ![Target(p)] = Bad("empty")]
        <5>1. Target(p) # config_path
          BY <3>1, ConfPlaces
        <5> QED
          BY <1>2, <1>4, <2>2, <4>2, <5>1, WritesAside
      <4> QED
        BY <1>1, <4>1, <4>2
    <3> QED
      BY <3>1, <3>3, <3>4
  <2> HIDE DEF next
  <2>3. <<next>> \in Seq(OutsideSteps)
    BY <2>1, Lists
  <2> QED
    BY <1>1, <1>2, <1>3, <1>4, <2>2, <2>3, HoldsNext
<1> QED
  BY <1>6, <1>7

\* A copy is written: that of the untouched configuration is the safe backup.
LEMMA FillHolds ==
  ASSUME StoresInv, SettingsHold, NEW p \in Procs, Fill(p)
  PROVE  SettingsHold'
<1> DEFINE from == Head(job[p].todo).from
<1>1. /\ ~Idle(p) /\ Head(job[p].todo).op = "fill" /\ Doing(p, "fill")
      /\ Next1(p, <<>>) /\ UNCHANGED <<same, made>>
  BY DEF Fill, Doing
<1>2. PICK content \in Outcomes(Target(p), stored[from]) :
        stored' = [stored EXCEPT ![Target(p)] = content]
  BY DEF Fill
<1>3. /\ Target(p) \in Locations /\ from \in Locations /\ Target(p)[1] = from[1]
      /\ Rest(p) \in Seq(AnyStep) /\ <<>> \o Rest(p) = Rest(p)
  <2>1. Rest(p) \in Seq(AnyStep) /\ Head(job[p].todo) \in AnyStep
    BY <1>1, AtStep
  <2> QED
    BY <1>1, <2>1, StepForms DEF Target
<1>4. \A id \in Ids : (stored'[Kept("config", id)] = stored[Kept("config", id)]
                       \/ (AtBackup(job[p]) /\ id = job[p].id))
  BY <1>1, <1>2, WritesOwn DEF SettingsHold
<1>5. <<>> \in Seq(OutsideSteps) /\ Bad("garbage").list = <<>>
  BY DEF Bad
<1>6. CASE AtBackup(job[p]) /\ Untouched
  <2>1. /\ from = config_path /\ Target(p) = Kept("config", job[p].id) /\ job[p].id \in Ids
        /\ stored[Target(p)].is = "empty"
    BY <1>1, <1>6, ShapeAt DEF SettingsHold
  <2>2. Good(stored[config_path])
    BY <1>1, <1>6, RestCareful
  <2>3. content = stored[config_path]
    BY <2>1 DEF Outcomes
  <2>4. Good(stored'[Kept("config", job[p].id)])
    BY <1>2, <1>3, <2>1, <2>2, <2>3 DEF StoresInv
  <2>5. SafeBackup'
    BY <2>1, <2>4 DEF SafeBackup, Kept
  <2>6. Shape'
    <3>1. Do(p, Rest(p), job[p]) /\ job[p] \in JobState
      BY <1>1, <1>3, AtStep DEF Next1
    <3>2. Rest(p) \in Seq(OutsideSteps) /\ job[p].rescue \in Seq(OutsideSteps)
      BY <1>1, ShapeAt DEF SettingsHold
    <3>3. /\ \A q \in Procs \ {p} : job'[q] = job[q]
          /\ job'[p].todo = Rest(p)
          /\ Rest(p) # <<>> => job'[p].rescue = job[p].rescue
          /\ Rest(p) = <<>> => job'[p] = NoJob
      BY <1>3, <3>1, DoIs
    <3>4. Shaped(config_path, made', job'[p])
      BY <3>2, <3>3, NoJobIs DEF Shaped
    <3>5. ~AtBackup(job'[p])
      <4>1. Rest(p) # <<>> => Head(Rest(p)) \in OutsideSteps
        BY <3>2
      <4> QED
        BY <3>3, <4>1 DEF AtBackup, OutsideSteps
    <3>6. made' \in {made, made + 1} /\ made' \in 0 .. MaxMade
      BY <1>1 DEF StoresInv
    <3> QED
      BY <1>1, <1>4, <3>3, <3>4, <3>5, <3>6, ShapeStep DEF SettingsHold
  <2> QED
    BY <2>5, <2>6 DEF SettingsHold
<1>7. CASE ~(AtBackup(job[p]) /\ Untouched)
  <2>1. ASSUME Untouched
        PROVE  /\ job[p].todo # <<put(config_path)>>
               /\ stored'[config_path] = stored[config_path]
               /\ stored'[Manifest].list = <<>>
               /\ CarefulList(config_path, Rest(p), Good(Mem(p, "config")))
    <3>1. /\ job[p].todo # <<put(config_path)>> /\ Target(p)[1] # "config"
          /\ CarefulList(config_path, Rest(p), Good(Mem(p, "config")))
      BY <1>1, <1>7, <2>1, CopyCareful
    <3>2. Target(p) # config_path
      BY <3>1, ConfPlaces
    <3>3. Target(p)[1] = "manifest" => content.list = <<>>
      <4>1. Target(p)[1] = "manifest" => from = Manifest
        BY <1>3, ConfPlaces
      <4>2. content = stored[from] \/ content = Bad("garbage")
        BY DEF Outcomes
      <4> QED
        BY <1>5, <2>1, <4>1, <4>2 DEF Untouched
    <3> QED
      BY <1>2, <1>3, <2>1, <3>1, <3>2, <3>3, WritesAside
  <2> QED
    BY <1>1, <1>3, <1>4, <1>5, <2>1, HoldsNext
<1> QED
  BY <1>6, <1>7

\* A backup gets a number that none has, and begins with the configuration.
LEMMA BackupHolds ==
  ASSUME StoresInv, SettingsHold, Recent, NEW p \in Procs, Backup(p),
         ~shared'
  PROVE  SettingsHold'
<1> DEFINE dir == Head(job[p].todo).dir
           steps == create_backup(made', dir) \o Rest(p)
           now == [job[p] EXCEPT !.id = made']
<1>1. /\ ~Idle(p) /\ Head(job[p].todo).op = "backup" /\ made' = made + 1
      /\ Do(p, steps, now) /\ UNCHANGED <<stored, same>>
      /\ made' \in Ids /\ made' \in 0 .. MaxMade
  <2>1. made \in Nat
    BY StoresAssumption DEF StoresInv
  <2> QED
    BY <2>1, BackupNames
<1>2. made' \in Ids /\ made' \in 0 .. MaxMade /\ made' > made
  BY <1>1, StoresAssumption DEF StoresInv
<1>3. /\ job[p] \in JobState /\ Head(job[p].todo) \in AnyStep /\ Rest(p) \in Seq(AnyStep)
      /\ Rest(p) \in Seq(OutsideSteps) /\ job[p].rescue \in Seq(OutsideSteps)
  BY <1>1, AtStep, ShapeAt DEF SettingsHold
<1>4. dir \in {"data", "conf"}
  BY <1>1, <1>3, StepKinds DEF BackupSteps
<1>5. /\ steps \in Seq(AnyStep) /\ steps # <<>>
      /\ Head(steps) = copy(config_path, Kept("config", made'))
      /\ Tail(steps) \in Seq(OutsideSteps)
  <2>1. /\ create_backup(made', dir) \in Seq(AnyStep)
        /\ create_backup(made', dir) # <<>>
        /\ Head(create_backup(made', dir)) = copy(config_path, Kept("config", made'))
        /\ Tail(create_backup(made', dir)) \in Seq(OutsideSteps)
    BY <1>2, <1>4, BackupReady, OutsideLists
  <2>2. \A a, b \in Seq(AnyStep) :
          a # <<>> => /\ a \o b \in Seq(AnyStep) /\ a \o b # <<>>
                      /\ Head(a \o b) = Head(a) /\ Tail(a \o b) = Tail(a) \o b
    OBVIOUS
  <2>3. /\ steps \in Seq(AnyStep) /\ steps # <<>>
        /\ Head(steps) = copy(config_path, Kept("config", made'))
        /\ Tail(steps) = Tail(create_backup(made', dir)) \o Rest(p)
    BY <1>3, <2>1, <2>2
  <2>4. Tail(create_backup(made', dir)) \o Rest(p) \in Seq(OutsideSteps)
    BY <1>3, <2>1, Lists
  <2> QED
    BY <2>3, <2>4
<1>6. /\ now \in JobState /\ now.id = made' /\ now.rescue = job[p].rescue /\ now.mem = job[p].mem
  BY <1>2, <1>3 DEF JobState
<1> HIDE DEF steps, dir, now
<1>7. /\ \A q \in Procs \ {p} : job'[q] = job[q]
      /\ job'[p].todo = steps /\ job'[p].rescue = job[p].rescue
      /\ job'[p].id = made' /\ job'[p].mem = job[p].mem
  BY <1>1, <1>5, <1>6, DoIs
<1>8. ConfigBackup(Head(steps)) /\ Head(steps).op = "copy"
      /\ Head(steps).f = Kept("config", made') /\ Head(steps).from = config_path
  <2>1. Kept("config", made')[1] = "config" /\ Kept("config", made')[2] = "backup"
    BY <1>2, ConfPlaces, BackedNames
  <2> QED
    BY <1>5, <2>1 DEF ConfigBackup, copy
<1>9. Shaped(config_path, made', job'[p]) /\ AtBackup(job'[p])
  <2>1. made' \in 1 .. made'
    BY <1>2 DEF Ids
  <2> QED
    BY <1>3, <1>5, <1>7, <1>8, <2>1 DEF Shaped, CopiesConfig, AtBackup
<1>10. Shape' /\ (SafeBackup => SafeBackup')
  <2>1. stored'[Head(job'[p].todo).f].is = "absent"
    BY <1>1, <1>2, <1>7, <1>8 DEF SettingsHold, Shape
  <2>2. made' \in {made, made + 1}
    BY <1>1
  <2>3. \A id \in Ids : stored'[Kept("config", id)] = stored[Kept("config", id)]
    BY <1>1
  <2> QED
    BY <1>1, <1>2, <1>7, <1>8, <1>9, <2>1, <2>2, <2>3, ShapeStep DEF SettingsHold
<1>11. ASSUME Untouched PROVE Untouched'
  <2>1. /\ job[p].rescue = <<>> /\ Mem(p, "manifest").list = <<>>
        /\ \A q \in Procs : job[q].todo # <<put(config_path)>>
    BY <1>1, <1>11, RestCareful, UntouchedAt
  <2>2. CarefulList(config_path, steps, Good(Mem(p, "config")))
    BY <1>5, <1>8, CarefulStarts DEF Backs
  <2>3. Careful(config_path, job'[p])
    BY <1>7, <2>1, <2>2 DEF Careful, Mem
  <2>4. job'[p].todo # <<put(config_path)>>
    BY <1>7, <2>2, CarefulNotPut, ConfPlaces
  <2>5. stored'[config_path] = stored[config_path] /\ stored'[Manifest].list = <<>>
    BY <1>1, <1>11 DEF Untouched
  <2> QED
    BY <1>1, <1>7, <1>11, <2>1, <2>3, <2>4, <2>5, UntouchedAside
<1> QED
  BY <1>10, <1>11 DEF SettingsHold

\* A step that changes what the command remembers of a file other than the
\* configuration, if that, and is not taken before a backup is made, or is harmless.
LEMMA StepHolds ==
  ASSUME StoresInv, SettingsHold, NEW p \in Procs, ~Idle(p),
         UNCHANGED <<stored, same, made>>, NEW steps \in Seq(OutsideSteps),
         Head(job[p].todo).op \notin {"read", "open", "put", "copy", "fill", "backup"},
         Untouched =>
           (Head(job[p].todo) \in HarmlessSteps(config_path) =>
              ( \/ steps \in Seq(HarmlessSteps(config_path))
                \/ steps \in Seq(AnyStep) /\ steps # <<>> /\ Backs(Head(steps)))),
         \/ Next1(p, steps)
         \/ Fail(p)
         \/ \E f \in BaseNames \ {"config"}, content \in Proper :
              /\ Keep(p, f, content, steps)
              /\ Untouched /\ f = "manifest" /\ Head(job[p].todo) \in HarmlessSteps(config_path)
                   => content.list = <<>>
         \/ /\ Head(job[p].todo) \notin HarmlessSteps(config_path)
            /\ \E content \in Proper : Keep(p, "config", content, steps)
  PROVE  SettingsHold'
<1>1. \A id \in Ids : (stored'[Kept("config", id)] = stored[Kept("config", id)]
                       \/ (AtBackup(job[p]) /\ id = job[p].id))
  OBVIOUS
<1>2. ASSUME Untouched
      PROVE  /\ job[p].todo # <<put(config_path)>>
             /\ stored'[config_path] = stored[config_path]
             /\ stored'[Manifest].list = <<>>
             /\ Head(job[p].todo) \in HarmlessSteps(config_path)
             /\ CarefulList(config_path, steps \o Rest(p), Good(Mem(p, "config")))
  <2>1. /\ ~Backs(Head(job[p].todo)) /\ Head(job[p].todo) # read(config_path)
    BY DEF Backs, ConfigBackup, read
  <2>2. /\ Head(job[p].todo) \in HarmlessSteps(config_path)
        /\ job[p].todo # <<put(config_path)>>
        /\ CarefulList(config_path, Rest(p), Good(Mem(p, "config")))
    BY <1>2, <2>1, RestCareful
  <2>3. CASE steps \in Seq(HarmlessSteps(config_path))
    <3>1. CarefulList(config_path, steps \o Rest(p), Good(Mem(p, "config")))
      BY <2>2, <2>3, CarefulPrepend
    <3> QED
      BY <1>2, <2>2, <3>1 DEF Untouched
  <2>4. CASE steps \in Seq(AnyStep) /\ steps # <<>> /\ Backs(Head(steps))
    <3>1. Rest(p) \in Seq(AnyStep)
      BY AtStep
    <3>2. /\ steps \o Rest(p) \in Seq(AnyStep) /\ steps \o Rest(p) # <<>>
          /\ Head(steps \o Rest(p)) = Head(steps)
      BY <2>4, <3>1
    <3>3. CarefulList(config_path, steps \o Rest(p), Good(Mem(p, "config")))
      BY <2>4, <3>2, CarefulStarts
    <3> QED
      BY <1>2, <2>2, <3>3 DEF Untouched
  <2> QED
    BY <1>2, <2>2, <2>3, <2>4
<1>3. CASE Next1(p, steps)
  BY <1>1, <1>2, <1>3, HoldsNext
<1>4. CASE Fail(p)
  BY <1>1, <1>2, <1>4, HoldsNext
<1>5. ASSUME NEW f \in BaseNames \ {"config"}, NEW content \in Proper,
             Keep(p, f, content, steps),
             Untouched /\ f = "manifest" /\ Head(job[p].todo) \in HarmlessSteps(config_path)
               => content.list = <<>>
      PROVE  SettingsHold'
  <2>1. Untouched =>
          ( /\ f = "manifest" => content.list = <<>>
            /\ CarefulList(config_path, steps \o Rest(p),
                 Good(IF f = "config" THEN content ELSE Mem(p, "config"))))
    BY <1>2, <1>5
  <2> QED
    BY <1>1, <1>2, <1>5, <2>1, HoldsNext
<1>6. ASSUME NEW content \in Proper, Keep(p, "config", content, steps),
             Head(job[p].todo) \notin HarmlessSteps(config_path)
      PROVE  SettingsHold'
  <2>1. ~Untouched /\ "config" \in BaseNames
    BY <1>2, <1>6, PlacesHave, BackedNames
  <2> QED
    BY <1>1, <1>6, <2>1, HoldsNext
<1> QED
  BY <1>3, <1>4, <1>5, <1>6

\* The manifest lists no backup as long as the configuration is untouched.
LEMMA ManifestHolds ==
  ASSUME StoresInv, SettingsHold, NEW p \in Procs,
         AddToManifest(p) \/ (Cleanup(p) /\ ~pruned')
  PROVE  SettingsHold'
<1>1. "manifest" \in BaseNames \ {"config"} /\ <<>> \in Seq(OutsideSteps)
      /\ <<>> \in Seq(HarmlessSteps(config_path))
  BY PlacesHave
<1>2. ~Idle(p) /\ UNCHANGED <<same, made>>
  BY DEF AddToManifest, Cleanup, Doing
<1>3. CASE AddToManifest(p)
  <2> DEFINE content == [Mem(p, "manifest") EXCEPT !.list = Append(@, job[p].id)]
  <2>1. /\ Head(job[p].todo).op = "add_to_manifest" /\ UNCHANGED stored
        /\ Keep(p, "manifest", content, <<>>)
    BY <1>3 DEF AddToManifest, Doing
  <2>2. content \in Proper
    <3>1. /\ Mem(p, "manifest") \in Proper /\ Mem(p, "manifest").list \in Seq(Ids)
          /\ job[p].id \in Ids
      BY <1>1, <1>2, <2>1, Remembers, AtStep, StepKinds
    <3>2. Append(Mem(p, "manifest").list, job[p].id) \in Seq(Ids)
      BY <3>1
    <3> QED
      BY <3>1, <3>2, Contents
  <2>3. Head(job[p].todo) \notin HarmlessSteps(config_path)
    BY <2>1 DEF HarmlessSteps
  <2> HIDE DEF content
  <2> QED
    BY <1>1, <1>2, <2>1, <2>2, <2>3, StepHolds
<1>4. CASE Cleanup(p) /\ ~pruned'
  <2>1. /\ Head(job[p].todo).op = "cleanup" /\ UNCHANGED stored /\ Next1(p, <<>>)
    BY <1>4 DEF Cleanup, Doing
  <2> QED
    BY <1>1, <1>2, <2>1, StepHolds
<1> QED
  BY <1>3, <1>4

\* A migration starts with a backup.
LEMMA MigrationHolds ==
  ASSUME StoresInv, SettingsHold, NEW p \in Procs, Migrate(p) \/ Guard(p) \/ Up(p) \/ Record(p)
  PROVE  SettingsHold'
<1>1. ~Idle(p) /\ UNCHANGED <<stored, same, made>>
  BY DEF Migrate, Guard, Up, Record, Doing
<1>2. /\ job[p] \in JobState /\ Rest(p) \in Seq(AnyStep) /\ Rest(p) \in Seq(OutsideSteps)
      /\ <<>> \in Seq(OutsideSteps) /\ <<>> \in Seq(HarmlessSteps(config_path))
  BY <1>1, AtStep, ShapeAt DEF SettingsHold
<1>3. CASE Migrate(p)
  <2>1. Head(job[p].todo).op = "migrate" /\ (Next1(p, <<>>) \/ Next1(p, run_migration))
    BY <1>3 DEF Migrate, Doing
  <2>2. /\ run_migration \in Seq(AnyStep) /\ run_migration \in Seq(OutsideSteps)
        /\ run_migration # <<>> /\ Backs(Head(run_migration))
    <3>1. run_migration \in Seq(AnyStep) /\ run_migration \in Seq(OutsideSteps)
      BY OutsideLists DEF OutsideSteps
    <3>2. run_migration # <<>> /\ Head(run_migration) = backup("data")
      <4>1. Overwrite(Store("migration_state")) \in Seq(AnyStep)
        BY OverwriteReady, PlacesHave, BackedNames, StepKinds
      <4>2. /\ backup("data") \in AnyStep /\ read(Store("migration_state")) \in AnyStep
            /\ do("guard") \in AnyStep /\ do("up") \in AnyStep /\ do("record") \in AnyStep
        BY StepsAre, PlacesHave, BackedNames DEF AnyStep
      <4> QED
        BY <4>1, <4>2 DEF run_migration
    <3>3. Backs(backup("data"))
      BY DEF Backs, backup
    <3> QED
      BY <3>1, <3>2, <3>3
  <2>3. CASE Next1(p, <<>>)
    BY <1>1, <1>2, <2>1, <2>3, StepHolds
  <2>4. CASE Next1(p, run_migration)
    BY <1>1, <2>1, <2>2, <2>4, StepHolds
  <2> QED
    BY <2>1, <2>3, <2>4
<1>4. CASE Guard(p)
  <2> DEFINE back == restore_backup(job[p].id, "data")
             now == [job[p] EXCEPT !.rescue = back]
  <2>1. Head(job[p].todo).op = "guard" /\ Do(p, Rest(p), now)
    BY <1>4 DEF Guard, Doing
  <2>2. job[p].id \in Ids
    BY <1>1, <2>1, AtStep, StepKinds
  <2>3. back \in Seq(CopySteps) /\ back \in Seq(OutsideSteps)
    BY <2>2, CopiesReady, OutsideLists
  <2> HIDE DEF back
  <2>4. now \in JobState /\ now.rescue = back
    BY <1>2, <2>3 DEF JobState
  <2>5. ~Untouched
    <3>1. /\ Head(job[p].todo) \notin HarmlessSteps(config_path)
          /\ ~Backs(Head(job[p].todo))
      BY <2>1 DEF HarmlessSteps, Backs, ConfigBackup
    <3> QED
      BY <1>1, <2>1, <3>1, RestCareful
  <2> HIDE DEF now
  <2> QED
    BY <1>1, <1>2, <2>1, <2>3, <2>4, <2>5, HoldsOn
<1>5. CASE Up(p)
  <2> DEFINE content == [Found(config_path) EXCEPT !.schema = 2]
  <2>1. Head(job[p].todo).op = "up"
    BY <1>5 DEF Up, Doing
  <2>2. Head(job[p].todo) \notin HarmlessSteps(config_path)
    BY <2>1 DEF HarmlessSteps
  <2>3. Overwrite(config_path) \in Seq(OutsideSteps)
    BY OutsideLists, ConfPlaces
  <2>4. content \in Proper
    <3>1. Found(config_path) \in Proper
      BY ConfPlaces, ReadsProper
    <3> QED
      BY <3>1 DEF Proper, Content
  <2>5. Next1(p, <<>>) \/ Fail(p) \/ Keep(p, "config", content, Overwrite(config_path))
    BY <1>5 DEF Up
  <2> HIDE DEF content
  <2>6. CASE Next1(p, <<>>) \/ Fail(p)
    BY <1>1, <1>2, <2>1, <2>2, <2>6, StepHolds
  <2>7. CASE Keep(p, "config", content, Overwrite(config_path))
    BY <1>1, <2>1, <2>2, <2>3, <2>4, <2>7, StepHolds
  <2> QED
    BY <2>5, <2>6, <2>7
<1>6. CASE Record(p)
  <2> DEFINE m == job[p].mem["migration_state"]
             after == Whole(TRUE, 2, Append(m.list, job[p].id))
             now == [job[p] EXCEPT !.rescue = <<>>, !.mem["migration_state"] = after]
  <2>1. Head(job[p].todo).op = "record" /\ Do(p, Rest(p), now)
    BY <1>6 DEF Record, Doing
  <2>2. "migration_state" \in BaseNames /\ "manifest" \in BaseNames /\ "config" \in BaseNames
    BY PlacesHave, BackedNames
  <2>3. after \in Proper
    <3>1. m.list \in Seq(Ids) /\ job[p].id \in Ids
      BY <1>1, <1>2, <2>1, <2>2, Contents, AtStep, StepKinds DEF JobState
    <3>2. Append(m.list, job[p].id) \in Seq(Ids)
      BY <3>1
    <3> QED
      BY <3>2, Records
  <2> HIDE DEF after
  <2>4. /\ now \in JobState /\ now.rescue = <<>>
        /\ \A f \in {"manifest", "config"} : now.mem[f] = job[p].mem[f]
    <3>1. <<>> \in Seq(CopySteps)
      OBVIOUS
    <3>2. \A q \in Seq(CopySteps) :
            LET j == [job[p] EXCEPT !.rescue = q, !.mem["migration_state"] = after]
            IN  /\ j \in JobState /\ j.rescue = q
                /\ \A f \in {"manifest", "config"} : j.mem[f] = job[p].mem[f]
      BY <1>2, <2>2, <2>3 DEF JobState
    <3> QED
      BY <3>1, <3>2
  <2> HIDE DEF now
  <2>5. ASSUME Untouched
        PROVE  /\ \A q \in Procs : job[q].todo # <<put(config_path)>>
               /\ now.mem["manifest"].list = <<>>
               /\ CarefulList(config_path, Rest(p), Good(now.mem["config"]))
    <3>1. ~Backs(Head(job[p].todo)) /\ Head(job[p].todo) # read(config_path)
      BY <2>1 DEF Backs, ConfigBackup, read
    <3>2. /\ job[p].todo # <<put(config_path)>>
          /\ CarefulList(config_path, Rest(p), Good(Mem(p, "config")))
      BY <1>1, <2>1, <2>5, <3>1, RestCareful
    <3> QED
      BY <1>1, <2>4, <2>5, <3>2, UntouchedAt DEF Mem
  <2>6. Untouched => stored'[config_path] = stored[config_path] /\ stored'[Manifest].list = <<>>
    BY <1>1 DEF Untouched
  <2> QED
    BY <1>1, <1>2, <2>1, <2>4, <2>5, <2>6, HoldsOn
<1> QED
  BY <1>3, <1>4, <1>5, <1>6

\* A rollback finds no backup as long as the configuration is untouched.
LEMMA RollbackHolds ==
  ASSUME StoresInv, SettingsHold, NEW p \in Procs, Restore(p) \/ Undo(p)
  PROVE  SettingsHold'
<1>1. ~Idle(p) /\ UNCHANGED <<stored, same, made>>
  BY DEF Restore, Undo, Doing
<1>2. <<>> \in Seq(OutsideSteps) /\ <<>> \in Seq(HarmlessSteps(config_path))
      /\ job[p] \in JobState
  BY <1>1, AtStep
<1>3. CASE Restore(p)
  <2> DEFINE known == Mem(p, "manifest").list
             id == known[Len(known)]
             steps == restore_backup(id, "conf")
                        \o <<read(Source("migration_state", "conf")), do("undo")>> \o load_config
             now == [job[p] EXCEPT !.id = id]
  <2>1. Head(job[p].todo).op = "restore" /\ known \in Seq(Ids)
    BY <1>1, <1>3, PlacesHave, Remembers DEF Restore, Doing
  <2>2. CASE known = <<>> \/ BackupGone(id)
    <3>1. Fail(p)
      BY <1>3, <2>2 DEF Restore
    <3> QED
      BY <1>1, <1>2, <2>1, <3>1, StepHolds
  <2>3. CASE known # <<>> /\ ~BackupGone(id)
    <3>1. id \in Ids
      BY <2>1, <2>3
    <3>2. Do(p, steps, now)
      BY <1>3, <2>3 DEF Restore
    <3>3. steps \in Seq(OutsideSteps)
      <4>1. restore_backup(id, "conf") \in Seq(OutsideSteps) /\ load_config \in Seq(OutsideSteps)
        BY <3>1, OutsideLists
      <4>2. <<read(Source("migration_state", "conf")), do("undo")>> \in Seq(OutsideSteps)
        <5>1. Source("migration_state", "conf") \in Locations
          BY PlacesHave, BackedNames
        <5>2. read(Source("migration_state", "conf")) \in OutsideSteps
          BY <5>1, StepsAre, StepKinds DEF OutsideSteps, ConfigBackup, read
        <5>3. do("undo") \in OutsideSteps
          BY StepsAre, StepKinds DEF OutsideSteps, ConfigBackup, do
        <5> QED
          BY <5>2, <5>3, Lists
      <4> QED
        BY <4>1, <4>2, Lists
    <3>4. now \in JobState /\ now.rescue = job[p].rescue
      BY <1>2, <3>1 DEF JobState
    <3>5. ~Untouched
      BY <1>1, <2>3, UntouchedAt
    <3>6. job[p].rescue \in Seq(OutsideSteps)
      BY <1>1, ShapeAt DEF SettingsHold
    <3> HIDE DEF known, id, steps, now
    <3> QED
      BY <1>1, <3>2, <3>3, <3>4, <3>5, <3>6, HoldsOn
  <2> QED
    BY <2>2, <2>3
<1>4. CASE Undo(p)
  <2> DEFINE known == Mem(p, "migration_state")
             content == [known EXCEPT !.schema = 1]
             steps == Overwrite(Source("migration_state", "conf"))
  <2>1. Head(job[p].todo).op = "undo" /\ "migration_state" \in BaseNames \ {"config"}
    BY <1>4, PlacesHave, BackedNames DEF Undo, Doing
  <2>2. content \in Proper
    <3>1. known \in Proper
      BY <1>1, <2>1, Remembers
    <3> QED
      BY <3>1 DEF Proper, Content
  <2>3. steps \in Seq(OutsideSteps) /\ steps \in Seq(HarmlessSteps(config_path))
    <3>1. /\ Source("migration_state", "conf") \in Locations
          /\ Source("migration_state", "conf")[1] # "config"
          /\ Source("migration_state", "conf")[2] # "backup"
      BY ConfPlaces, BackedNames
    <3>2. /\ open(Source("migration_state", "conf")) \in HarmlessSteps(config_path)
          /\ put(Source("migration_state", "conf")) \in HarmlessSteps(config_path)
      BY <3>1, StepsAre, StepKinds DEF HarmlessSteps, open, put
    <3> QED
      BY <3>1, <3>2, OutsideLists, Lists DEF Overwrite
  <2>4. Next1(p, <<>>) \/ Keep(p, "migration_state", content, steps)
    BY <1>4 DEF Undo
  <2> HIDE DEF known, content, steps
  <2>5. CASE Next1(p, <<>>)
    BY <1>1, <1>2, <2>1, <2>5, StepHolds
  <2>6. CASE Keep(p, "migration_state", content, steps)
    BY <1>1, <2>1, <2>2, <2>3, <2>6, StepHolds
  <2> QED
    BY <2>4, <2>5, <2>6
<1> QED
  BY <1>3, <1>4

\* A command that is killed, or for which the disk is full, was not saving the
\* configuration.
LEMMA FaultHolds ==
  ASSUME StoresInv, SettingsHold, NEW p \in Procs, Crash(p) \/ DiskFull(p), ~loose'
  PROVE  SettingsHold'
<1>1. ~Idle(p) /\ UNCHANGED <<same, made>> /\ ~(Doing(p, "put") /\ SavesConfig(p))
  BY DEF Crash, DiskFull, Doing
<1>2. job[p].todo # <<put(config_path)>>
  <2> SUFFICES ASSUME job[p].todo = <<put(config_path)>> PROVE FALSE
    OBVIOUS
  <2>1. Rest(p) = <<>> /\ Head(job[p].todo) = put(config_path)
    BY DEF Rest
  <2>2. Doing(p, "put") /\ SavesConfig(p)
    BY <1>1, <2>1 DEF Doing, SavesConfig, Target, put
  <2> QED
    BY <1>1, <2>2
<1>3. <<>> \in Seq(OutsideSteps)
  OBVIOUS
<1>4. CASE Crash(p)
  <2>1. Do(p, <<>>, NoJob) /\ UNCHANGED stored
    BY <1>4 DEF Crash
  <2>2. NoJob \in JobState /\ NoJob.rescue = <<>>
    BY NoJobOk, NoJobIs
  <2>3. ASSUME Untouched
        PROVE  /\ \A q \in Procs : job[q].todo # <<put(config_path)>>
               /\ stored'[config_path] = stored[config_path]
               /\ stored'[Manifest].list = <<>>
    BY <1>1, <1>2, <2>1, <2>3, UntouchedAt
  <2> QED
    BY <1>1, <1>3, <2>1, <2>2, <2>3, HoldsOn
<1>5. CASE DiskFull(p)
  <2>1. /\ Doing(p, "put") \/ Doing(p, "fill")
        /\ stored' = [stored EXCEPT ![Target(p)] = Bad("garbage")]
        /\ Fail(p)
    BY <1>5 DEF DiskFull
  <2>2. Target(p) \in Locations /\ Bad("garbage").list = <<>>
    BY <2>1, AtFile DEF Bad
  <2>3. \A id \in Ids : (stored'[Kept("config", id)] = stored[Kept("config", id)]
                         \/ (AtBackup(job[p]) /\ id = job[p].id))
    BY <2>1, WritesOwn DEF SettingsHold
  <2>4. ASSUME Untouched PROVE Target(p) # config_path
    <3>1. /\ CarefulList(config_path, job[p].todo, Good(Mem(p, "config")))
          /\ job[p].todo # <<>> /\ Good(Mem(p, "config")) \in BOOLEAN
      BY <1>1, <1>2, <2>4, UntouchedAt DEF Good, Idle
    <3>2. Head(job[p].todo).op \in {"put", "fill"}
      BY <2>1 DEF Doing
    <3>3. job[p].todo # Overwrite(config_path)
      <4>1. Head(Overwrite(config_path)) = open(config_path)
        BY DEF Overwrite
      <4> QED
        BY <3>2, <4>1 DEF open
    <3>4. Head(job[p].todo) \in HarmlessSteps(config_path) \/ Backs(Head(job[p].todo))
      BY <3>1, <3>3, CarefulRest
    <3> QED
      BY <3>2, <3>4, ConfPlaces DEF HarmlessSteps, Backs, ConfigBackup, Target
  <2>5. Untouched => stored'[config_path] = stored[config_path] /\ stored'[Manifest].list = <<>>
    BY <2>1, <2>2, <2>4, WritesAside
  <2> QED
    BY <1>1, <1>2, <1>3, <2>1, <2>3, <2>5, HoldsNext
<1> QED
  BY <1>4, <1>5

-----------------------------------------------------------------------------
(* The invariant holds, as long as no backup is removed and no save is cut  *)
(* short or overlapped.                                                     *)

LEMMA SettingsInvInit == YoopInit => SettingsInv
<1> SUFFICES ASSUME YoopInit PROVE SettingsHold
  BY DEF SettingsInv, SettingsHold
<1>1. StoresInv
  BY StoresInvInit
<1>2. /\ job = [p \in Procs |-> NoJob] /\ made = 0
      /\ \E kept, state \in {Bad("absent"), Whole(TRUE, 0, <<>>), Whole(TRUE, 1, <<>>)} :
           stored = [f \in Locations |->
                       CASE f = config_path                      -> Whole(TRUE, 1, <<>>)
                         [] f \in {Store("trust"), Store("history")} -> kept
                         [] f = Store("migration_state")         -> state
                         [] OTHER                                -> Bad("absent")]
  BY DEF YoopInit, DataInit, StoresInit
<1>3. \A p \in Procs : job[p] = NoJob
  BY <1>2
<1>4. \A f \in Locations :
        f[1] = "config" \/ f[1] = "manifest"
          => stored[f] = IF f = config_path THEN Whole(TRUE, 1, <<>>) ELSE Bad("absent")
  <2>1. Store("trust")[1] = "trust" /\ Store("history")[1] = "history"
        /\ Store("migration_state")[1] = "migration_state"
    BY PlacesHave, BackedNames
  <2> QED
    BY <1>2, <2>1
<1>5. Good(stored[config_path]) /\ stored[Manifest].list = <<>>
  BY <1>4, ConfPlaces DEF Good, Whole, Bad
<1>6. ASSUME NEW id \in Ids PROVE stored[Kept("config", id)].is = "absent"
  <2>1. /\ Kept("config", id) \in Locations /\ Kept("config", id)[1] = "config"
        /\ Kept("config", id)[2] = "backup"
    BY ConfPlaces, BackedNames
  <2>2. Kept("config", id) # config_path
    BY <2>1, ConfPlaces
  <2>3. stored[Kept("config", id)] = Bad("absent")
    BY <1>4, <2>1, <2>2
  <2> QED
    BY <2>3 DEF Bad
<1>7. \A p \in Procs : job[p].todo = <<>> /\ ~AtBackup(job[p])
  BY <1>3, NoJobIs DEF AtBackup
<1>8. Shape
  BY <1>3, <1>6, <1>7, NoJobIs DEF Shape
<1>9. \A p \in Procs : job[p].todo # <<put(config_path)>>
  <2>1. \A s : <<s>> # <<>>
    OBVIOUS
  <2>2. <<put(config_path)>> # <<>>
    BY <2>1
  <2> QED
    BY <1>7, <2>2
<1>10. Untouched
  BY <1>3, <1>5, <1>9, NoJobIs DEF Untouched
<1> QED
  BY <1>8, <1>10 DEF SettingsHold

LEMMA SettingsInvKept ==
  StoresInv /\ Recent /\ SettingsInv /\ [YoopNext]_yoopVars => SettingsInv'
<1> SUFFICES ASSUME StoresInv, Recent, SettingsInv, [YoopNext]_yoopVars
             PROVE  SettingsInv'
  OBVIOUS
<1>1. CASE StoresNext
  <2>1. PICK p \in Procs :
          \/ \E command \in {"trust", "history", "load", "save", "update", "rollback"} :
               Start(p, command)
          \/ Read(p) \/ Open(p) \/ Put(p) \/ Copy(p) \/ Fill(p)
          \/ Backup(p) \/ AddToManifest(p) \/ Cleanup(p)
          \/ Migrate(p) \/ Guard(p) \/ Up(p) \/ Record(p)
          \/ Restore(p) \/ Undo(p)
          \/ Crash(p) \/ DiskFull(p)
    BY <1>1 DEF StoresNext
  <2>2. (shared => shared') /\ (pruned => pruned') /\ (loose => loose')
    <3>1. \A command : Start(p, command) =>
            shared' = shared /\ pruned' = pruned /\ (loose => loose')
      BY DEF Start, naming
    <3>2. Open(p) \/ Crash(p) \/ DiskFull(p) =>
            shared' = shared /\ pruned' = pruned /\ (loose => loose')
      BY DEF Open, Crash, DiskFull, naming
    <3>3. Read(p) \/ Put(p) \/ Copy(p) \/ Fill(p) \/ AddToManifest(p)
            => UNCHANGED <<shared, pruned, loose>>
      BY DEF Read, Put, Copy, Fill, AddToManifest, naming
    <3>4. Migrate(p) \/ Guard(p) \/ Up(p) \/ Record(p) \/ Restore(p) \/ Undo(p)
            => UNCHANGED <<shared, pruned, loose>>
      BY DEF Migrate, Guard, Up, Record, Restore, Undo, naming
    <3>5. Cleanup(p) => shared' = shared /\ (pruned => pruned') /\ loose' = loose
      BY DEF Cleanup, naming
    <3>6. Backup(p) => (shared => shared') /\ UNCHANGED <<pruned, loose>>
      BY BackupNames DEF Backup
    <3> QED
      BY <2>1, <3>1, <3>2, <3>3, <3>4, <3>5, <3>6
  <2>3. CASE shared' \/ pruned' \/ loose'
    BY <2>3 DEF SettingsInv
  <2>4. CASE ~shared' /\ ~pruned' /\ ~loose'
    <3>1. SettingsHold
      BY <2>2, <2>4 DEF SettingsInv, SettingsHold
    <3>2. SettingsHold'
      BY <2>1, <2>4, <3>1, StartHolds, ReadHolds, OpenHolds, PutHolds, CopyHolds, FillHolds,
         BackupHolds, ManifestHolds, MigrationHolds, RollbackHolds, FaultHolds
    <3> QED
      BY <3>2 DEF SettingsInv, SettingsHold
  <2> QED
    BY <2>3, <2>4
<1>2. CASE UNCHANGED storesVars
  BY <1>2 DEF storesVars, naming, SettingsInv, SettingsHold, Shape, SafeBackup, Untouched, Idle,
     config_path, Source, Manifest
<1> QED
  BY <1>1, <1>2 DEF YoopNext, DataNext, yoopVars, dataVars

\* The user's settings are in the configuration or in a backup, however many
\* commands run, are killed or find the disk full, as long as no two backups of
\* one second had one directory, no backup was removed and no save of the
\* configuration is under way, was cut short or overlapped (migration/mod.rs
\* run, backup.rs, update.rs handle_rollback).
THEOREM SettingsAlwaysSurvive == YoopSpec => []SettingsSurvive
<1>1. StoresInv /\ SettingsInv => SettingsSurvive
  <2> SUFFICES ASSUME StoresInv, SettingsInv, ~shared, ~pruned, ~loose, ~Saving
               PROVE  \E f \in {config_path} \cup {Kept("config", id) : id \in Ids} :
                        stored[f].is = "whole" /\ stored[f].own
    BY DEF SettingsSurvive, BackupsKeepSettings
  <2>1. SafeBackup \/ Untouched
    BY DEF SettingsInv, SettingsHold
  <2>2. CASE SafeBackup
    BY <2>2 DEF SafeBackup, Good
  <2>3. CASE Untouched
    <3>1. ASSUME NEW p \in Procs, job[p].todo = <<put(config_path)>> PROVE FALSE
      <4>1. ~Idle(p) /\ Head(job[p].todo) = put(config_path) /\ Rest(p) = <<>>
        BY <3>1 DEF Idle, Rest
      <4>2. Doing(p, "put") /\ SavesConfig(p)
        BY <4>1 DEF Doing, SavesConfig, Target, put
      <4> QED
        BY <4>2 DEF Saving
    <3>2. Good(stored[config_path])
      BY <2>3, <3>1 DEF Untouched
    <3> QED
      BY <3>2 DEF Good
  <2> QED
    BY <2>1, <2>2, <2>3
<1> QED
  BY <1>1, StoresInvInit, StoresInvKept, SettingsInvInit, SettingsInvKept, PTL DEF YoopSpec
=============================================================================
