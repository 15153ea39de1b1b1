---------------------------- MODULE ResumeStore ----------------------------
(***************************************************************************)
(* The resume state of one transfer on disk (transfer/resume.rs): a save   *)
(* writes a temporary file, flushes it to the disk and renames it over the *)
(* old one, so that a crash or a power failure finds the old state or the  *)
(* new one.  The write is done behind the program's back: write_all of a   *)
(* tokio file returns when the data is in its buffer, and sync_all waits   *)
(* for the write but does not return its error.  Beside the saver, a       *)
(* clean-up of another session loads every state, and deletes those that   *)
(* are too old.                                                            *)
(*                                                                         *)
(* States are numbered in the order they are saved.  One saver writes the  *)
(* transfer: two would share the temporary file.                           *)
(***************************************************************************)
EXTENDS Naturals

CONSTANT Saves   \* bound: times the state is saved

ASSUME ResumeAssumption == Saves \in Nat \ {0}

VARIABLES tmp,      \* the temporary file
          final,    \* the state file
          disk,     \* what a power failure would leave of the state file
          saver,    \* place of the saver and the number of its state
          cleaner,  \* place of the clean-up and what it has loaded
          old       \* states up to this number are older than the limit

resumeVars == <<tmp, final, disk, saver, cleaner, old>>

\* 0: there is no file; Partial: a file that does not hold a whole state, as a
\* save still wrote to it or had not flushed it; Cut: one whose write has failed.
Absent == 0
Partial == Saves + 1
Cut == Saves + 2
ResumeFile == 0 .. Cut

ResumeInit ==
  /\ tmp = [has |-> Absent, synced |-> TRUE]
  /\ final = Absent /\ disk = {Absent}
  /\ saver = [at |-> "idle", state |-> 0]
  /\ cleaner = [at |-> "idle", state |-> 0]
  /\ old = 0

Saver(place) == saver' = [saver EXCEPT !.at = place]

Create ==
  /\ saver.at = "idle" /\ saver.state < Saves
  /\ tmp' = [has |-> Partial, synced |-> FALSE]
  /\ saver' = [at |-> "write", state |-> saver.state + 1]
  /\ UNCHANGED <<final, disk, cleaner, old>>

\* The data goes to the file's buffer, from which it is written in the
\* background.  More than the buffer holds waits for the first part, and fails
\* with it: then the save ends.
WriteAll ==
  /\ saver.at = "write"
  /\ Saver("sync") \/ Saver("idle")
  /\ UNCHANGED <<tmp, final, disk, cleaner, old>>

\* Mutant: the file gets its name before it is written and flushed.
NoSync ==
  /\ saver.at = "sync"
  /\ Saver("rename")
  /\ UNCHANGED <<tmp, final, disk, cleaner, old>>

\* The background write is waited for and the file flushed, which may fail.
\* That the write has failed, and only a part is there, is not noticed.
SyncAll ==
  /\ saver.at = "sync"
  /\ \/ /\ tmp' \in {[has |-> written, synced |-> TRUE] : written \in {saver.state, Cut}}
        /\ Saver("rename")
     \/ UNCHANGED tmp /\ Saver("idle")
  /\ UNCHANGED <<final, disk, cleaner, old>>

\* The new name reaches the disk at some later time; the data of a file that
\* was not flushed may not be there by then.
Rename ==
  /\ saver.at = "rename"
  /\ final' = tmp.has
  /\ disk' = disk \cup {tmp.has} \cup (IF tmp.synced THEN {} ELSE {Partial})
  /\ tmp' = [has |-> Absent, synced |-> TRUE]
  /\ Saver("idle")
  /\ UNCHANGED <<cleaner, old>>

\* The system writes the directory back.
WriteBack ==
  /\ disk # {final}
  /\ disk' = {final}
  /\ UNCHANGED <<tmp, final, saver, cleaner, old>>

Delete ==
  /\ saver.at = "idle" /\ final # Absent
  /\ final' = Absent /\ disk' = disk \cup {Absent}
  /\ UNCHANGED <<tmp, saver, cleaner, old>>

\* Time passes: the states saved so far are too old.
Age ==
  /\ old < saver.state
  /\ old' = saver.state
  /\ UNCHANGED <<tmp, final, disk, saver, cleaner>>

\* cleanup_older_than: a state that cannot be read is passed over.
CleanerLoads ==
  /\ cleaner.at = "idle"
  /\ final \in 1 .. old
  /\ cleaner' = [at |-> "remove", state |-> final]
  /\ UNCHANGED <<tmp, final, disk, saver, old>>

CleanerRemoves ==
  /\ cleaner.at = "remove"
  /\ final' = Absent /\ disk' = disk \cup {Absent}
  /\ cleaner' = [at |-> "idle", state |-> 0]
  /\ UNCHANGED <<tmp, saver, old>>

\* The process is killed: what it wrote is still in the system's cache.
SaverDies ==
  /\ saver.at # "idle"
  /\ Saver("idle")
  /\ UNCHANGED <<tmp, final, disk, cleaner, old>>

PowerFails ==
  /\ \E left \in disk : final' = left /\ disk' = {left}
  /\ tmp' = IF tmp.synced THEN tmp ELSE [has |-> Partial, synced |-> TRUE]
  /\ Saver("idle")
  /\ cleaner' = [at |-> "idle", state |-> 0]
  /\ UNCHANGED old

ResumeNext ==
  \/ Create \/ WriteAll \/ SyncAll \/ Rename \/ WriteBack
  \/ Delete \/ Age \/ CleanerLoads \/ CleanerRemoves
  \/ SaverDies \/ PowerFails

----------------------------------------------------------------------------
ResumeTypeOK ==
  /\ tmp \in [has : ResumeFile, synced : BOOLEAN]
  /\ final \in ResumeFile /\ disk \subseteq ResumeFile /\ final \in disk
  /\ saver \in [at : {"idle", "write", "sync", "rename"}, state : 0 .. Saves]
  /\ cleaner \in [at : {"idle", "remove"}, state : 0 .. Saves]

\* Neither a killed process nor a power failure, at any moment of a save, and no
\* write error that the save is told of leave a resume file that holds only a
\* part of a state: a file gets its name when nothing is left to be written or
\* flushed (resume.rs save: write_all, sync_all, rename).  Only the error of
\* the background write, which the save does not ask for, leaves one (Cut).
ResumeFileIsWhole == final # Partial
=============================================================================
