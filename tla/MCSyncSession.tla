---------------------------- MODULE MCSyncSession ----------------------------
(* Values for the constants of SyncSession: a directory d and a path f in   *)
(* it, or a file in the place of d.                                         *)
EXTENDS SyncSession, TLC

CONSTANTS c1, c2, d, f

MCAbove == d :> {} @@ f :> {d}
MCContents == {<<>>, <<c1, c2>>}

MCIndex(atD, atF) == d :> atD @@ f :> atF
MCDir == DirEntry(NoTime)
MCFile(content) == FileEntry(content, NoTime)
(* Both peers have the empty directory, or the host has a file where the    *)
(* joiner has the directory.                                                *)
MCStart ==
  {<<MCIndex(MCDir, NoEntry), MCIndex(MCDir, NoEntry)>>,
   <<MCIndex(MCFile(<<>>), NoEntry), MCIndex(MCDir, MCFile(<<>>))>>}

(* A single path, with two versions of a file of various times.             *)
MCAlone == f :> {}
MCShort == {<<>>, <<c1>>}
MCVersions ==
  {ix \in Index \X Index :
     /\ ix[1][f].kind = "File" /\ ix[1][f].content_hash = <<>>
     /\ ix[1][f].mtime = [secs |-> 2, frac |-> 1]
     /\ ix[2][f].kind = "File" /\ ix[2][f].content_hash = <<c1, c2>>}

(* The path is nowhere.                                                     *)
MCEmpty == {<<f :> NoEntry, f :> NoEntry>>}

(* Bounds for the host and the joiner.                                      *)
MCEach1 == Host :> 1 @@ Joiner :> 1
MCHost1 == Host :> 1 @@ Joiner :> 0
MCNever == Host :> 0 @@ Joiner :> 0

=============================================================================
