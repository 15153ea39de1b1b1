----------------------------- MODULE PathLookup -----------------------------
(***************************************************************************)
(* Which files a share lists, and which file it opens for an entry of the  *)
(* list (enumerate_files of src/crates/yoop-core/src/file/mod.rs and       *)
(* find_file_path of the two sending sessions).  A path is the sequence of *)
(* the names on it; names are numbers, in the order of their spelling.     *)
(***************************************************************************)
EXTENDS Integers, SequencesExt

CONSTANT Hidden   \* the names that start with a dot

(* tree.has: the files and how many chunks each has; tree.dirs: the         *)
(* directories; tree.shared: what the user named, in order.                 *)
IsFile(tree, path) == path \in DOMAIN tree.has
IsDir(tree, path) == path \in tree.dirs
Exists(tree, path) == IsFile(tree, path) \/ IsDir(tree, path)

\* An entry of the list; its path is relative to the parent of what is shared.
Entry(tree, path, parent) ==
  [rel |-> SubSeq(path, parent + 1, Len(path)), own |-> path, dir |-> IsDir(tree, path)]

\* Directories before files, and each by path, component by component.
PathLess(s, t) ==
  \/ IsStrictPrefix(s, t)
  \/ \E k \in 1..Len(s) : /\ k <= Len(t) /\ s[k] < t[k]
                          /\ SubSeq(s, 1, k - 1) = SubSeq(t, 1, k - 1)
EntryLess(a, b) == IF a.dir # b.dir THEN a.dir ELSE PathLess(a.rel, b.rel)

(* A walk enters hidden directories but lists no entry with a hidden name.  *)
(* What was listed before the directory is sorted along with it.            *)
EnumerateDirectory(tree, dir, listed) ==
  LET under == {p \in DOMAIN tree.has \cup tree.dirs :
                  IsPrefix(dir, p) /\ Last(p) \notin Hidden}
      entries == {Entry(tree, p, Len(dir) - 1) : p \in under}
  IN SortSeq(listed \o SetToSeq(entries), EntryLess)

EnumerateFiles(tree) ==
  FoldLeft(LAMBDA listed, path :
             IF IsFile(tree, path) THEN Append(listed, Entry(tree, path, Len(path) - 1))
             ELSE IF IsDir(tree, path) THEN EnumerateDirectory(tree, path, listed)
             ELSE listed,
           <<>>, tree.shared)

NotFound == <<>>

(* The first shared file whose path ends with the entry's, or else the      *)
(* entry's path below the first shared directory that has one.              *)
FindFilePath(tree, rel) ==
  LET shared == tree.shared
      named == {k \in DOMAIN shared : IsFile(tree, shared[k]) /\ IsSuffix(rel, shared[k])}
      below == {k \in DOMAIN shared : IsDir(tree, shared[k]) /\ Exists(tree, shared[k] \o rel)}
  IN IF Len(shared) = 1 /\ IsFile(tree, Head(shared)) THEN Head(shared)
     ELSE IF named # {} THEN shared[Min(named)]
     ELSE IF below # {} THEN shared[Min(below)] \o rel
     ELSE NotFound

\* No other file that exists could be taken for the entry.
Unambiguous(tree, entry) ==
  \A p \in DOMAIN tree.has : IsSuffix(entry.rel, p) => p = entry.own
=============================================================================
