----------------------------- MODULE SyncEngine -----------------------------
(***************************************************************************)
(* The comparison of two file indices: SyncEngine::reconcile and           *)
(* apply_conflict_resolutions (sync/engine.rs) with the conflict detection *)
(* of sync/conflict.rs, under the strategy every session uses,             *)
(* LastWriteWins.  Entries are those of sync/index.rs.                     *)
(*                                                                         *)
(* A time is a pair of seconds and a fraction, as SystemTime is; an index  *)
(* that is exchanged keeps the seconds only.                               *)
(***************************************************************************)
EXTENDS Naturals

CONSTANTS
  Contents,  \* the contents of files
  Seconds,   \* modification times: seconds
  Fractions  \* modification times: fractions of a second

ASSUME TimeAssumption ==
  /\ Seconds \subseteq Nat
  /\ Fractions \subseteq Nat
  /\ 0 \in Fractions

(* ambiguity_window_secs of ConflictDetector::new                           *)
AmbiguityWindow == 2

Time == [secs : Seconds, frac : Fractions]

Later(s, t) == s.secs > t.secs \/ (s.secs = t.secs /\ s.frac > t.frac)

Plus(t, secs) == [t EXCEPT !.secs = @ + secs]

(* FileEntry of a file and of a directory, whose hash is 0; NoEntry where   *)
(* an index has no entry for a path.                                        *)
NoHash == <<"0">>
NoTime == [secs |-> 0, frac |-> 0]
FileEntry(content, mtime) ==
  [kind |-> "File", content_hash |-> content, mtime |-> mtime]
DirEntry(mtime) ==
  [kind |-> "Directory", content_hash |-> NoHash, mtime |-> mtime]
NoEntry == [kind |-> "none", content_hash |-> NoHash, mtime |-> NoTime]

Entry ==
  {NoEntry} \cup {DirEntry(t) : t \in Time}
    \cup {FileEntry(c, t) : c \in Contents, t \in Time}

(* What exchange_index makes of an entry: as_secs() drops the fraction.     *)
Exchanged(entry) == [entry EXCEPT !.mtime.frac = 0]

content_changed(local, remote) == local.content_hash # remote.content_hash

is_newer_than(entry, other) == Later(entry.mtime, other.mtime)

(* The times are less than the window apart.                                *)
is_ambiguous(local, remote) ==
  /\ Later(Plus(local.mtime, AmbiguityWindow), remote.mtime)
  /\ Later(Plus(remote.mtime, AmbiguityWindow), local.mtime)

(* Conflicting versions are resolved by resolve_last_write_wins.            *)
AcceptsRemote(local, remote) == is_newer_than(remote, local)

\* Mutant: the sides of the comparison are swapped for conflicts.
Takes_older(local, remote) ==
  /\ local # NoEntry /\ remote # NoEntry
  /\ content_changed(local, remote)
  /\ IF is_ambiguous(local, remote) THEN ~is_newer_than(remote, local)
     ELSE is_newer_than(remote, local)

(* Both sides have the path and this one is to take the remote version: a   *)
(* conflict is resolved so, or the remote entry is newer.                   *)
Takes(local, remote) ==
  /\ local # NoEntry /\ remote # NoEntry
  /\ content_changed(local, remote)
  /\ IF is_ambiguous(local, remote) THEN AcceptsRemote(local, remote)
     ELSE is_newer_than(remote, local)

(* The operation this side plans to apply for a path.  The operations for   *)
(* the other side are computed too and never sent.                          *)
LocalOp(local, remote) ==
  IF remote = NoEntry THEN "none"
  ELSE IF local = NoEntry THEN "Create"
  ELSE IF Takes(local, remote) THEN "Modify"
  ELSE "none"

=============================================================================
