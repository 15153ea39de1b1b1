------------------------------- MODULE Stores -------------------------------
(***************************************************************************)
(* The files in which Yoop keeps what outlives a command: the trust store  *)
(* (trust/mod.rs), the transfer history (history/mod.rs), the              *)
(* configuration (config/mod.rs), the migration state and the backups      *)
(* (migration/), with the commands that read and write them, among them    *)
(* `yoop update` and its rollback (yoop-cli/src/commands/update.rs).       *)
(*                                                                         *)
(* None of these files is locked, and all are saved in place: opened,      *)
(* which truncates them, and then written.  A step here is one access to   *)
(* one file, so that a killed command, a full disk or a second command may *)
(* come between any two.  A command is the list of the steps it has still  *)
(* to do.  Release 2 is running: 1 stands for 0.1.0, the only version a    *)
(* migration starts from, and 2 for 0.2.0.                                 *)
(***************************************************************************)
EXTENDS Naturals, Sequences, FiniteSets

CONSTANTS Procs,        \* the commands that can run at the same time
          Plans,        \* what is run, and which faults happen, in one behaviour
          MaxBackups,   \* max_backups, 5 in the code
          MaxMade       \* bound: backup directories made in one behaviour

ASSUME StoresAssumption ==
  /\ MaxBackups \in Nat \ {0}
  /\ MaxMade \in Nat \ {0}

VARIABLES stored,   \* what each file holds
          job,      \* per process: the steps left, those of a failure, its memory
          plan,     \* what is still to be run, and the faults left
          same,     \* the configuration directory is the data directory (macOS)
          made,     \* backup directories made so far
          second,   \* the directory each version has made in this second, or 0
          shared,   \* two backups have had one directory
          pruned,   \* some backup was removed
          loose     \* a save of the configuration was cut short or overlapped

naming == <<second, shared>>
storesVars == <<stored, job, plan, same, made, naming, pruned, loose>>

----------------------------------------------------------------------------
(* Files and what is in them.                                              *)

FILES_TO_BACKUP == <<"config", "history", "trust", "migration_state">>

Ids == 1 .. MaxMade       \* backup directories, in the order they were made

\* A file is named by its base name, its directory and, in a backup, its number.
Kept(f, id) == <<f, "backup", id>>
Manifest == <<"manifest", "data", 0>>
Locations == LET names == {FILES_TO_BACKUP[i] : i \in 1 .. 4}
             IN  (names \X {"data", "conf"} \X {0}) \cup (names \X {"backup"} \X Ids)
                 \cup {Manifest}

\* Where a backup manager that was made for directory `dir` finds a file: the
\* configuration is always in its own directory.
Source(f, dir) == <<f, IF same THEN "data" ELSE IF f = "config" THEN "conf" ELSE dir, 0>>
config_path == Source("config", "conf")
Store(f) == Source(f, "data")

\* What a file holds.  `own` says that nothing the user had in it is missing,
\* `schema` is the release its form belongs to, `list` the backups named in it.
Content == [is : {"absent", "empty", "garbage", "whole"}, own : BOOLEAN,
            schema : 0 .. 2, list : Seq(Ids)]
Bad(how) == [is |-> how, own |-> FALSE, schema |-> 0, list |-> <<>>]
Whole(own, schema, list) ==
  [is |-> "whole", own |-> own, schema |-> schema, list |-> list]

\* A file cannot be parsed; an empty file is valid TOML, but not valid JSON.
Damaged(f) == \/ stored[f].is = "garbage"
              \/ stored[f].is = "empty" /\ f[1] # "config"

\* What is found in a file: in an empty or missing one, the defaults.
Found(f) ==
  CASE stored[f].is = "whole"  -> stored[f]
    [] stored[f].is = "absent" -> Whole(TRUE, 2, <<>>)
    [] OTHER                   -> Whole(FALSE, 1, <<>>)

\* A loaded configuration has all sections, and is saved with all of them.
Loaded(f) == IF f = config_path THEN [Found(f) EXCEPT !.schema = 2] ELSE Found(f)

----------------------------------------------------------------------------
(* The steps of a command, and the commands.                               *)

read(f) == [op |-> "read", f |-> f]
open(f) == [op |-> "open", f |-> f]
put(f) == [op |-> "put", f |-> f]
copy(from, to) == [op |-> "copy", f |-> to, from |-> from]
fill(from, to) == [op |-> "fill", f |-> to, from |-> from]
do(op) == [op |-> op]
backup(dir) == [op |-> "backup", dir |-> dir]

Overwrite(f) == <<open(f), put(f)>>

CopyTo(id, dir) ==
  [i \in 1 .. 4 |-> copy(Source(FILES_TO_BACKUP[i], dir), Kept(FILES_TO_BACKUP[i], id))]
restore_backup(id, dir) ==
  [i \in 1 .. 4 |-> copy(Kept(FILES_TO_BACKUP[i], id), Source(FILES_TO_BACKUP[i], dir))]

create_backup(id, dir) ==
  CopyTo(id, dir) \o <<read(Manifest), do("add_to_manifest")>> \o Overwrite(Manifest)
                  \o <<read(Manifest), do("cleanup")>>

migrate_if_needed == <<read(Store("migration_state")), do("migrate")>>
run_migration == <<backup("data"), read(Store("migration_state")), do("guard"), do("up"),
                   do("record")>> \o Overwrite(Store("migration_state"))
load_config == migrate_if_needed \o <<read(config_path)>>

Program(command) ==
  CASE command \in {"trust", "history"} -> <<read(Store(command))>> \o Overwrite(Store(command))
    [] command = "load"     -> load_config
    [] command = "save"     -> load_config \o Overwrite(config_path)
    [] command = "update"   -> load_config \o <<backup("conf")>>
    [] command = "rollback" -> <<read(Manifest), do("restore")>>

----------------------------------------------------------------------------
\* The configuration is one of release 0.1.0.  The state file that says so is
\* there, as in the tests of the migrations, or is not: this release writes
\* none before its first migration.
NoJob == [todo |-> <<>>, rescue |-> <<>>, id |-> 0,
          mem |-> [f \in {l[1] : l \in Locations} |-> Bad("absent")]]

StoresInit ==
  /\ plan \in Plans
  /\ same \in BOOLEAN
  /\ \E kept \in {Bad("absent"), Whole(TRUE, 0, <<>>)},
        state \in {Bad("absent"), Whole(TRUE, 1, <<>>)} :
       stored = [f \in Locations |->
                   CASE f = config_path                      -> Whole(TRUE, 1, <<>>)
                     [] f \in {Store("trust"), Store("history")} -> kept
                     [] f = Store("migration_state")         -> state
                     [] OTHER                                -> Bad("absent")]
  /\ job = [p \in Procs |-> NoJob]
  /\ made = 0 /\ second = [version \in {"data", "conf"} |-> 0]
  /\ shared = FALSE /\ pruned = FALSE /\ loose = FALSE

Idle(p) == job[p].todo = <<>>
Doing(p, op) == ~Idle(p) /\ Head(job[p].todo).op = op
Target(p) == Head(job[p].todo).f
Rest(p) == Tail(job[p].todo)
Mem(p, f) == job[p].mem[f]

\* The process goes on with a list of steps, or is done.
Do(p, steps, changed) ==
  job' = [job EXCEPT ![p] = IF steps = <<>> THEN NoJob ELSE [changed EXCEPT !.todo = steps]]

\* It goes on with `steps` in place of the step it has just done.
Next1(p, steps) == Do(p, steps \o Rest(p), job[p])
Keep(p, f, content, steps) == Do(p, steps \o Rest(p), [job[p] EXCEPT !.mem[f] = content])

\* A step fails: the command ends, or goes on with what its error path does.
Fail(p) == Do(p, job[p].rescue, [job[p] EXCEPT !.rescue = <<>>])

\* The command saves the configuration it has loaded: it has no migration to record.
SavesConfig(p) ==
  Target(p) = config_path /\ \A i \in DOMAIN Rest(p) : Rest(p)[i].op # "record"
Busy(p) == \E q \in Procs \ {p} : ~Idle(q)

\* A save has truncated the configuration and not written it yet.
Saving == \E p \in Procs : Doing(p, "put") /\ SavesConfig(p)

Start(p, command) ==
  /\ p \in plan.procs /\ Idle(p) /\ plan.runs > 0 /\ command \in plan.commands
  /\ Do(p, Program(command), NoJob)
  /\ plan' = [plan EXCEPT !.runs = @ - 1]
  /\ loose' = (loose \/ Saving)
  /\ UNCHANGED <<stored, same, made, naming, pruned>>

\* Mutant: a store that cannot be parsed is taken for an empty one.
ForgivingRead(p) ==
  /\ Doing(p, "read")
  /\ Keep(p, Target(p)[1], Loaded(Target(p)), <<>>)
  /\ UNCHANGED <<stored, plan, same, made, naming, pruned, loose>>

Read(p) ==
  /\ Doing(p, "read")
  /\ IF Damaged(Target(p)) THEN Fail(p)
     ELSE Keep(p, Target(p)[1], Loaded(Target(p)), <<>>)
  /\ UNCHANGED <<stored, plan, same, made, naming, pruned, loose>>

Open(p) ==
  /\ Doing(p, "open")
  /\ stored' = [stored EXCEPT ![Target(p)] = Bad("empty")]
  /\ loose' = (loose \/ (SavesConfig(p) /\ Busy(p)))
  /\ Next1(p, <<>>)
  /\ UNCHANGED <<plan, same, made, naming, pruned>>

\* Two writers of one file do not wait for each other: what the second writes
\* over the first may be followed by the end of what the first had written.
Outcomes(f, content) ==
  IF stored[f].is = "empty" THEN {content} ELSE {content, Bad("garbage")}

Put(p) ==
  /\ Doing(p, "put")
  /\ \E content \in Outcomes(Target(p), Mem(p, Target(p)[1])) :
       stored' = [stored EXCEPT ![Target(p)] = content]
  /\ Next1(p, <<>>)
  /\ UNCHANGED <<plan, same, made, naming, pruned, loose>>

\* fs::copy: a file that is not there is passed over, the target is truncated.
Copy(p) ==
  /\ Doing(p, "copy")
  /\ LET from == Head(job[p].todo).from
     IN  IF stored[from].is = "absent" THEN UNCHANGED stored /\ Next1(p, <<>>)
         ELSE /\ stored' = [stored EXCEPT ![Target(p)] = Bad("empty")]
              /\ Next1(p, <<fill(from, Target(p))>>)
  /\ UNCHANGED <<plan, same, made, naming, pruned, loose>>

Fill(p) ==
  /\ Doing(p, "fill")
  /\ \E content \in Outcomes(Target(p), stored[Head(job[p].todo).from]) :
       stored' = [stored EXCEPT ![Target(p)] = content]
  /\ Next1(p, <<>>)
  /\ UNCHANGED <<plan, same, made, naming, pruned, loose>>

----------------------------------------------------------------------------
(* Backups.                                                                *)

\* create_backup: the directory is named for the version and for the second it
\* is made in, and made if it is not there.  A migration makes it for release
\* 0.1.0, an update for the running one, so the two never share one; two of a
\* kind do within one second, and the later copies go over the earlier ones.
Backup(p) ==
  /\ Doing(p, "backup")
  /\ LET version == Head(job[p].todo).dir IN
     \E now \in {second, [v \in DOMAIN second |-> 0]} :   \* time may have passed
       LET id == IF now[version] # 0 THEN now[version] ELSE made + 1 IN
       /\ id \in Ids
       /\ made' = IF now[version] # 0 THEN made ELSE id
       /\ second' = [now EXCEPT ![version] = id]
       /\ shared' = (shared \/ now[version] # 0)
       /\ Do(p, create_backup(id, version) \o Rest(p), [job[p] EXCEPT !.id = id])
  /\ UNCHANGED <<stored, plan, same, pruned, loose>>

AddToManifest(p) ==
  /\ Doing(p, "add_to_manifest")
  /\ Keep(p, "manifest", [Mem(p, "manifest") EXCEPT !.list = Append(@, job[p].id)], <<>>)
  /\ UNCHANGED <<stored, plan, same, made, naming, pruned, loose>>

\* cleanup: the oldest backup beyond the limit goes first from the disk, then
\* from the manifest.
Cleanup(p) ==
  /\ Doing(p, "cleanup")
  /\ LET known == Mem(p, "manifest").list
     IN  IF Len(known) <= MaxBackups
         THEN Next1(p, <<>>) /\ UNCHANGED <<stored, pruned>>
         ELSE /\ Keep(p, "manifest", Whole(TRUE, 2, Tail(known)), Overwrite(Manifest))
              /\ stored' = [f \in Locations |->
                              IF f[2] = "backup" /\ f[3] = Head(known) THEN Bad("absent") ELSE stored[f]]
              /\ pruned' = TRUE
  /\ UNCHANGED <<plan, same, made, naming, loose>>

----------------------------------------------------------------------------
(* Migration.                                                              *)

\* Mutant: the backup is made when the migration has been applied.
BackupLast(p) ==
  /\ Doing(p, "migrate")
  /\ Next1(p, IF Mem(p, "migration_state").schema >= 2 THEN <<>>
              ELSE <<do("up"), backup("data"), do("record")>>
                   \o Overwrite(Store("migration_state")))
  /\ UNCHANGED <<stored, plan, same, made, naming, pruned, loose>>

\* migrate_if_needed: without a state file the files count as up to date.
Migrate(p) ==
  /\ Doing(p, "migrate")
  /\ Next1(p, IF Mem(p, "migration_state").schema >= 2 THEN <<>> ELSE run_migration)
  /\ UNCHANGED <<stored, plan, same, made, naming, pruned, loose>>

\* From here to the record of the migration an error restores the backup,
\* whose own errors are ignored, and ends the command.
Guard(p) ==
  /\ Doing(p, "guard")
  /\ Do(p, Rest(p), [job[p] EXCEPT !.rescue = restore_backup(job[p].id, "data")])
  /\ UNCHANGED <<stored, plan, same, made, naming, pruned, loose>>

\* V0_1ToV0_2::up: the configuration gets its [update] section.
Up(p) ==
  /\ Doing(p, "up")
  /\ LET found == Found(config_path)
     IN  CASE stored[config_path].is = "absent" -> Next1(p, <<>>)
           [] Damaged(config_path)              -> Fail(p)
           [] found.schema = 2                  -> Next1(p, <<>>)
           [] OTHER -> Keep(p, "config", [found EXCEPT !.schema = 2], Overwrite(config_path))
  /\ UNCHANGED <<stored, plan, same, made, naming, pruned, loose>>

Record(p) ==
  /\ Doing(p, "record")
  /\ Do(p, Rest(p), [job[p] EXCEPT !.rescue = <<>>,
       !.mem["migration_state"] = Whole(TRUE, 2, Append(@.list, job[p].id))])
  /\ UNCHANGED <<stored, plan, same, made, naming, pruned, loose>>

\* A backup whose directory was removed is still in the manifest if another one
\* shared it; a directory that is there holds a copy of the configuration.
BackupGone(id) == stored[Kept("config", id)].is = "absent"

\* handle_rollback: the newest backup is restored, from the directory and into
\* the directory that the update command takes for the data directory.
Restore(p) ==
  /\ Doing(p, "restore")
  /\ LET known == Mem(p, "manifest").list
         id == known[Len(known)]
     IN  IF known = <<>> \/ BackupGone(id) THEN Fail(p)
         ELSE Do(p, restore_backup(id, "conf")
                    \o <<read(Source("migration_state", "conf")), do("undo")>>
                    \o load_config, [job[p] EXCEPT !.id = id])
  /\ UNCHANGED <<stored, plan, same, made, naming, pruned, loose>>

\* MigrationManager::rollback: the schema of before, if the state names the backup.
Undo(p) ==
  /\ Doing(p, "undo")
  /\ LET known == Mem(p, "migration_state")
     IN  IF \E i \in DOMAIN known.list : known.list[i] = job[p].id
         THEN Keep(p, "migration_state", [known EXCEPT !.schema = 1],
                   Overwrite(Source("migration_state", "conf")))
         ELSE Next1(p, <<>>)
  /\ UNCHANGED <<stored, plan, same, made, naming, pruned, loose>>

----------------------------------------------------------------------------
(* Faults.                                                                 *)

\* The process is killed before a step that changes a file; before another step
\* it leaves the same files.
Crash(p) ==
  /\ \E op \in {"open", "put", "copy", "fill", "cleanup"} : Doing(p, op)
  /\ plan.crashes > 0
  /\ plan' = [plan EXCEPT !.crashes = @ - 1]
  /\ loose' = (loose \/ (Doing(p, "put") /\ SavesConfig(p)))
  /\ Do(p, <<>>, NoJob)
  /\ UNCHANGED <<stored, same, made, naming, pruned>>

\* The disk is full: only a part is written, and the step fails.
DiskFull(p) ==
  /\ Doing(p, "put") \/ Doing(p, "fill")
  /\ plan.full > 0
  /\ plan' = [plan EXCEPT !.full = @ - 1]
  /\ stored' = [stored EXCEPT ![Target(p)] = Bad("garbage")]
  /\ loose' = (loose \/ (Doing(p, "put") /\ SavesConfig(p)))
  /\ Fail(p)
  /\ UNCHANGED <<same, made, naming, pruned>>

StoresNext ==
  \E p \in Procs :
    \/ \E command \in {"trust", "history", "load", "save", "update", "rollback"} :
         Start(p, command)
    \/ Read(p) \/ Open(p) \/ Put(p) \/ Copy(p) \/ Fill(p)
    \/ Backup(p) \/ AddToManifest(p) \/ Cleanup(p)
    \/ Migrate(p) \/ Guard(p) \/ Up(p) \/ Record(p)
    \/ Restore(p) \/ Undo(p)
    \/ Crash(p) \/ DiskFull(p)

----------------------------------------------------------------------------
StoresTypeOK ==
  /\ \A f \in Locations : /\ stored[f] \in Content
                           /\ stored[f].is # "whole" => ~stored[f].own
  /\ \A p \in Procs : job[p].id \in Ids \cup {0}
  /\ made \in 0 .. MaxMade
  /\ second \in [{"data", "conf"} -> 0 .. made]

\* No sequence of killed commands, full disks and overlapping commands makes
\* an unreadable trust store or history readable with its entries gone: a store
\* that cannot be parsed stops the command that would have replaced it
\* (trust/mod.rs load_from, history/mod.rs load_from).
UnreadableIsNotReplaced ==
  \A f \in {"trust", "history"} :
    stored[Store(f)].is = "whole" => stored[Store(f)].own

\* What BackupId ("Unique identifier for a backup", migration/backup.rs 12) and
\* BackupManager ("for safe migrations", 49) promise: the user's settings are in
\* the configuration or in a backup, as long as no backup was removed and no
\* save of the configuration is under way, was cut short or overlapped.
BackupsKeepSettings ==
  \/ pruned \/ loose \/ Saving
  \/ \E f \in {config_path} \cup {Kept("config", id) : id \in Ids} :
       stored[f].is = "whole" /\ stored[f].own

\* However often a migration or a rollback is killed or fails, the settings are
\* kept, as long as no backup was made in the second and the directory of
\* another one (migration/mod.rs run, backup.rs create_backup, update.rs
\* handle_rollback).
SettingsSurvive == shared \/ BackupsKeepSettings
=============================================================================
