----------------------------- MODULE SyncProofs -----------------------------
(***************************************************************************)
(* Theorems about SyncSession, for any trees, contents, times and paths,   *)
(* any number of changes and operations, and every fault.                  *)
(*                                                                         *)
(* First the two plans of an initial sync: PlansAgree is an invariant.  The *)
(* comparison is made of two different pairs of times, as each side has    *)
(* its own with fractions and the other's without; the lemmas say what     *)
(* that changes.                                                           *)
(*                                                                         *)
(* Then the four tasks.  The inductive invariant SyncInv has three parts:  *)
(* Types; Lines, that the mutex of each peer is a queue of the tasks that  *)
(* wait for it and is held where the code has the guard; and Flow, that of *)
(* an operation, its chunks and their acknowledgements at most one frame   *)
(* is unanswered, and what has been written so far are the chunks that     *)
(* were acknowledged.                                                      *)
(***************************************************************************)
EXTENDS SyncSession, SequenceTheorems, TLAPS

(* An entry has a time, and that of NoEntry is no other's kind.             *)
LEMMA EntryHasTime ==
  ASSUME NEW e \in Entry
  PROVE  /\ e.mtime.secs \in Nat /\ e.mtime.frac \in Nat
         /\ e = [kind |-> e.kind, content_hash |-> e.content_hash,
                 mtime |-> [secs |-> e.mtime.secs, frac |-> e.mtime.frac]]
         /\ Exchanged(e) = NoEntry <=> e = NoEntry
<1>1. CASE e = NoEntry
  BY <1>1 DEF NoEntry, NoTime, Exchanged
<1>3. CASE \E t \in Time : e = DirEntry(t)
  BY <1>3, TimeAssumption DEF DirEntry, NoEntry, NoTime, Exchanged, Time
<1>2. CASE \E c \in Contents, t \in Time : e = FileEntry(c, t)
  BY <1>2, TimeAssumption DEF FileEntry, NoEntry, NoTime, Exchanged, Time
<1> QED BY <1>1, <1>2, <1>3 DEF Entry

(* A side takes the other's version if that is newer by the whole seconds,  *)
(* whether the two are a conflict or not.                                   *)
LEMMA TakesIfNewer ==
  ASSUME NEW mine \in Entry, NEW other \in Entry,
         mine # NoEntry, other # NoEntry, content_changed(mine, other)
  PROVE  Takes(mine, Exchanged(other)) <=> mine.mtime.secs < other.mtime.secs
<1> DEFINE e == Exchanged(other)
<1>1. /\ e # NoEntry
      /\ e.content_hash = other.content_hash
      /\ e.mtime.secs = other.mtime.secs
      /\ e.mtime.frac = 0
  BY EntryHasTime DEF Exchanged
<1>2. Takes(mine, e) <=> is_newer_than(e, mine)
  BY <1>1 DEF Takes, AcceptsRemote, content_changed
<1>3. is_newer_than(e, mine) <=> mine.mtime.secs < other.mtime.secs
  BY <1>1, EntryHasTime DEF is_newer_than, Later
<1> QED BY <1>2, <1>3

(* While both sessions are in the initial sync, each has the other's index  *)
(* as exchange_index has made it.                                           *)
Exchanging ==
  session = [p \in Peer |-> "initial"] =>
    /\ local_index \in [Peer -> Index]
    /\ remote_index =
         [p \in Peer |-> [x \in Path |-> Exchanged(local_index[Other(p)][x])]]

(* For two indices exchanged, the plans for a path agree.                   *)
LEMMA ExchangedPlansAgree == Exchanging => PlansAgree
<1> SUFFICES ASSUME Exchanging, session = [p \in Peer |-> "initial"],
                    NEW x \in Path
             PROVE  /\ \E p \in Peer : PlannedOp(p, x) # "Modify"
                    /\ \A p \in Peer :
                         LET mine == local_index[p][x]
                             other == local_index[Other(p)][x]
                         IN NoEntry \notin {mine, other}
                              /\ content_changed(mine, other) =>
                              /\ ~Later(Plus(mine.mtime, 1), other.mtime) =>
                                   PlannedOp(p, x) = "Modify"
                              /\ ~Later(Plus(other.mtime, 1), mine.mtime) =>
                                   PlannedOp(p, x) # "Modify"
  BY DEF PlansAgree
<1> DEFINE Mine(p) == local_index[p][x]
           Theirs(p) == local_index[Other(p)][x]
<1>1. ASSUME NEW p \in Peer
      PROVE  /\ Other(p) \in Peer /\ Other(Other(p)) = p
             /\ Mine(p) \in Entry /\ Theirs(p) \in Entry
             /\ PlannedOp(p, x) = LocalOp(Mine(p), Exchanged(Theirs(p)))
  BY <1>1, SyncAssumption DEF Exchanging, Index, PlannedOp, Peer, Other
<1>2. ASSUME NEW p \in Peer
      PROVE  PlannedOp(p, x) = "Modify" <=>
               /\ NoEntry \notin {Mine(p), Theirs(p)}
               /\ content_changed(Mine(p), Theirs(p))
               /\ Mine(p).mtime.secs < Theirs(p).mtime.secs
  <2>1. PlannedOp(p, x) = "Modify" <=>
          /\ Exchanged(Theirs(p)) # NoEntry /\ Mine(p) # NoEntry
          /\ Takes(Mine(p), Exchanged(Theirs(p)))
    BY <1>1 DEF LocalOp, Takes
  <2>2. Exchanged(Theirs(p)) # NoEntry <=> Theirs(p) # NoEntry
    BY <1>1, EntryHasTime
  <2>3. Takes(Mine(p), Exchanged(Theirs(p))) =>
          content_changed(Mine(p), Theirs(p))
    BY DEF Takes, content_changed, Exchanged
  <2> QED BY <1>1, <2>1, <2>2, <2>3, TakesIfNewer
<1>3. \E p \in Peer : PlannedOp(p, x) # "Modify"
  <2>1. Host \in Peer /\ Joiner \in Peer /\ Other(Host) = Joiner
        /\ Other(Joiner) = Host
    BY SyncAssumption DEF Peer, Other
  <2>2. Mine(Host).mtime.secs \in Nat /\ Mine(Joiner).mtime.secs \in Nat
    BY <2>1, <1>1, EntryHasTime
  <2> QED BY <2>1, <2>2, <1>2
<1>4. ASSUME NEW p \in Peer
      PROVE  /\ ~Later(Plus(Mine(p).mtime, 1), Theirs(p).mtime) =>
                  Mine(p).mtime.secs < Theirs(p).mtime.secs
             /\ ~Later(Plus(Theirs(p).mtime, 1), Mine(p).mtime) =>
                  ~(Mine(p).mtime.secs < Theirs(p).mtime.secs)
  <2> DEFINE m == Mine(p).mtime
             t == Theirs(p).mtime
  <2>1. /\ m.secs \in Nat /\ m.frac \in Nat /\ t.secs \in Nat /\ t.frac \in Nat
        /\ m = [secs |-> m.secs, frac |-> m.frac]
        /\ t = [secs |-> t.secs, frac |-> t.frac]
    BY <1>1, <1>4, EntryHasTime
  <2> HIDE DEF m, t
  <2>2. Plus(m, 1).secs = m.secs + 1 /\ Plus(t, 1).secs = t.secs + 1
    BY <2>1 DEF Plus
  <2>3. /\ ~Later(Plus(m, 1), t) => m.secs < t.secs
        /\ ~Later(Plus(t, 1), m) => ~(m.secs < t.secs)
    BY <2>1, <2>2 DEF Later
  <2> QED BY <2>3 DEF m, t
<1> QED BY <1>2, <1>3, <1>4

(* run() of p goes on or returns.                                           *)
Leaves(p) == \E s \in {"live", "returned"} : session' = [session EXCEPT ![p] = s]

(* The only steps that touch the indices leave the initial sync, and no     *)
(* step goes back to it.                                                    *)
LEMMA StepsFromInitial ==
  ASSUME Next
  PROVE  \/ UNCHANGED <<session, indexVars>>
         \/ \E p \in Peer : Leaves(p)
<1>1. ASSUME NEW p \in Peer, UserActs(p) PROVE UNCHANGED <<session, indexVars>>
  BY <1>1 DEF UserActs, UserWrites, UserMakesDirectory, UserDeletes, UserChanges,
              indexVars
<1>2. ASSUME NEW p \in Peer, WatcherRuns(p)
      PROVE  UNCHANGED <<session, indexVars>>
  BY <1>2 DEF WatcherRuns, WNext, event_to_sync_op, WSend, WEnd, indexVars
<1>3. ASSUME NEW p \in Peer, OutboundRuns(p)
      PROVE  UNCHANGED <<session, indexVars>>
  BY <1>3 DEF OutboundRuns, ORecv, OSend, OSendFile, OChunkAck, OOpAck,
              OUnexpected, OStreamFails, OCannotRead, OShutdown, OutboundEnds,
              indexVars
<1>4. ASSUME NEW p \in Peer, KeepaliveRuns(p)
      PROVE  UNCHANGED <<session, indexVars>>
  BY <1>4 DEF KeepaliveRuns, KTick, KPing, KEnd, indexVars
<1>5. ASSUME NEW p \in Peer, InboundRuns(p)
      PROVE  UNCHANGED <<session, indexVars>>
  BY <1>5 DEF InboundRuns, ILoop, IRead, IPong, IDelete, ICreateEmpty, ICreate,
              ICannotCreate, IChunk, IComplete, IChunkDamaged, IChunksFail,
              IChunkReadFails, IEnd, Applied, indexVars
<1>6. ASSUME NEW p \in Peer, StreamDropped(p) \/ Exit(p)
      PROVE  UNCHANGED <<session, indexVars>>
  BY <1>6 DEF StreamDropped, Exit, indexVars
<1>7. ASSUME ConnectionLost PROVE UNCHANGED <<session, indexVars>>
  BY <1>7 DEF ConnectionLost, indexVars
<1>8. ASSUME NEW p \in Peer, RunReturns(p) \/ Stop(p)
      PROVE  Leaves(p)
  BY <1>8 DEF RunReturns, Stop, Leaves
<1>9. ASSUME NEW p \in Peer, InitialSync(p)
      PROVE  Leaves(p)
  BY <1>9 DEF InitialSync, run_initial_sync, initial_sync_fails, Leaves
<1> QED BY <1>1, <1>2, <1>3, <1>4, <1>5, <1>6, <1>7, <1>8, <1>9 DEF Next

(* However many files there are and whatever their times, the two initial   *)
(* syncs never plan to take each other's version of a file, and a version   *)
(* that is newer by a second is taken by the peer and kept by its owner.    *)
THEOREM PlansAlwaysAgree == Spec => []PlansAgree
<1>1. Init => Exchanging
  BY SyncAssumption DEF Init, Exchanging, Peer, Other
<1>2. Exchanging /\ [Next]_vars => Exchanging'
  <2> SUFFICES ASSUME Exchanging, [Next]_vars PROVE Exchanging'
    OBVIOUS
  <2>1. \/ UNCHANGED <<session, indexVars>>
        \/ \E p \in Peer : Leaves(p)
    BY StepsFromInitial DEF vars
  <2>2. CASE UNCHANGED <<session, indexVars>>
    BY <2>2 DEF Exchanging, indexVars
  <2>3. ASSUME NEW p \in Peer, Leaves(p)
        PROVE  session' # [q \in Peer |-> "initial"]
    BY <2>3 DEF Leaves
  <2> QED BY <2>1, <2>2, <2>3 DEF Exchanging
<1> QED BY <1>1, <1>2, ExchangedPlansAgree, PTL DEF Spec

-----------------------------------------------------------------------------
(* The queue of the mutex.                                                  *)

TaskName == {"outbound", "inbound", "keepalive"}

(* The tasks of S stand in s, each once.                                    *)
Lined(s, S) ==
  /\ s \in Seq(TaskName)
  /\ {s[k] : k \in DOMAIN s} = S
  /\ \A j, k \in DOMAIN s : s[j] = s[k] => j = k

(* A task joins the end of the queue.                                       *)
LEMMA LinedAppend ==
  ASSUME NEW s, NEW S, NEW t \in TaskName, Lined(s, S), t \notin S
  PROVE  /\ Lined(Append(s, t), S \cup {t})
         /\ s # <<>> => Append(s, t) # <<>> /\ Head(Append(s, t)) = Head(s)
<1> DEFINE a == Append(s, t)
<1>1. /\ s \in Seq(TaskName) /\ Len(s) \in Nat /\ DOMAIN s = 1..Len(s)
      /\ a \in Seq(TaskName) /\ DOMAIN a = 1..(Len(s) + 1)
      /\ \A k \in 1..Len(s) : a[k] = s[k]
      /\ a[Len(s) + 1] = t
  BY AppendProperties, LenProperties DEF Lined
<1>2. \A k \in DOMAIN s : s[k] \in S
  BY DEF Lined
<1> HIDE DEF a
<1>3. {a[k] : k \in DOMAIN a} = S \cup {t}
  BY <1>1, <1>2 DEF Lined
<1>4. \A j, k \in DOMAIN a : a[j] = a[k] => j = k
  BY <1>1, <1>2 DEF Lined
<1>5. s # <<>> => a # <<>> /\ Head(a) = Head(s)
  BY <1>1, HeadTailAppend DEF a
<1> QED BY <1>1, <1>3, <1>4, <1>5 DEF Lined, a

(* The first task leaves the queue.                                         *)
LEMMA LinedTail ==
  ASSUME NEW s, NEW S, Lined(s, S), s # <<>>
  PROVE  Lined(Tail(s), S \ {Head(s)}) /\ Head(s) \in S /\ Head(s) \in TaskName
<1> DEFINE b == Tail(s)
<1>1. /\ s \in Seq(TaskName) /\ Len(s) \in Nat \ {0} /\ DOMAIN s = 1..Len(s)
      /\ b \in Seq(TaskName) /\ DOMAIN b = 1..(Len(s) - 1)
      /\ \A k \in 1..(Len(s) - 1) : b[k] = s[k + 1]
      /\ Head(s) = s[1]
  BY HeadTailProperties, LenProperties, EmptySeq DEF Lined
<1> HIDE DEF b
<1>2. \A k \in DOMAIN b : k + 1 \in DOMAIN s /\ b[k] = s[k + 1]
  BY <1>1
<1>3. \A k \in DOMAIN s : k # 1 => k - 1 \in DOMAIN b /\ b[k - 1] = s[k]
  BY <1>1
<1>4. {b[k] : k \in DOMAIN b} = S \ {s[1]}
  <2>1. 1 \in DOMAIN s
    BY <1>1
  <2>2. ASSUME NEW k \in DOMAIN b PROVE b[k] \in S \ {s[1]}
    BY <1>1, <1>2, <2>1 DEF Lined
  <2>3. ASSUME NEW t \in S, t # s[1] PROVE \E k \in DOMAIN b : b[k] = t
    <3>1. PICK k \in DOMAIN s : s[k] = t
      BY DEF Lined
    <3> QED BY <3>1, <2>3, <1>3
  <2> QED BY <2>2, <2>3
<1>5. \A j, k \in DOMAIN b : b[j] = b[k] => j = k
  <2> SUFFICES ASSUME NEW j \in DOMAIN b, NEW k \in DOMAIN b, b[j] = b[k]
               PROVE  j = k
    OBVIOUS
  <2>1. j + 1 = k + 1
    BY <1>2 DEF Lined
  <2> QED BY <2>1, <1>1
<1>6. s[1] \in S /\ s[1] \in TaskName
  BY <1>1, ElementOfSeq DEF Lined
<1> QED BY <1>1, <1>4, <1>5, <1>6 DEF Lined, b

(* The first task goes to the end.                                          *)
LEMMA LinedRelock ==
  ASSUME NEW s, NEW S, Lined(s, S), s # <<>>
  PROVE  Lined(Append(Tail(s), Head(s)), S)
<1>1. /\ Lined(Tail(s), S \ {Head(s)})
      /\ Head(s) \in TaskName /\ Head(s) \in S
  BY LinedTail
<1>2. Lined(Append(Tail(s), Head(s)), (S \ {Head(s)}) \cup {Head(s)})
  BY <1>1, LinedAppend
<1>3. (S \ {Head(s)}) \cup {Head(s)} = S
  BY <1>1
<1> QED BY <1>2, <1>3

(* A task leaves the queue from where it stands.                            *)
LEMMA LinedWithout ==
  ASSUME NEW s, NEW S, Lined(s, S), NEW i \in DOMAIN s
  PROVE  LET b == SubSeq(s, 1, i - 1) \o SubSeq(s, i + 1, Len(s))
         IN /\ Lined(b, S \ {s[i]})
            /\ i # 1 => b # <<>> /\ Head(b) = Head(s)
<1> DEFINE u == SubSeq(s, 1, i - 1)
           v == SubSeq(s, i + 1, Len(s))
           b == u \o v
<1>1. /\ s \in Seq(TaskName) /\ Len(s) \in Nat /\ DOMAIN s = 1..Len(s)
      /\ \A k \in 1..Len(s) : s[k] \in TaskName
  BY LenProperties, ElementOfSeq DEF Lined
<1>2. i \in Nat /\ 1 <= i /\ i <= Len(s)
  BY <1>1
<1>3. /\ u \in Seq(TaskName) /\ Len(u) = i - 1
      /\ \A k \in 1..(i - 1) : u[k] = s[k]
  <2>1. 1 \in Int /\ i - 1 \in Int /\ \A k \in 1..(i - 1) : s[k] \in TaskName
    BY <1>1, <1>2
  <2>2. /\ u \in Seq(TaskName)
        /\ Len(u) = IF 1 <= i - 1 THEN i - 1 - 1 + 1 ELSE 0
        /\ \A k \in 1..(i - 1 - 1 + 1) : u[k] = s[1 + k - 1]
    BY <2>1, SubSeqProperties
  <2> HIDE DEF u
  <2> QED BY <2>2, <1>2
<1>4. /\ v \in Seq(TaskName) /\ Len(v) = Len(s) - i
      /\ \A k \in 1..(Len(s) - i) : v[k] = s[k + i]
  <2>1. i + 1 \in Int /\ Len(s) \in Int /\ \A k \in (i + 1)..Len(s) : s[k] \in TaskName
    BY <1>1, <1>2
  <2>2. /\ v \in Seq(TaskName)
        /\ Len(v) = IF i + 1 <= Len(s) THEN Len(s) - (i + 1) + 1 ELSE 0
        /\ \A k \in 1..(Len(s) - (i + 1) + 1) : v[k] = s[(i + 1) + k - 1]
    BY <2>1, SubSeqProperties
  <2> HIDE DEF v
  <2>3. Len(v) = Len(s) - i
    BY <2>2, <1>1, <1>2
  <2>4. ASSUME NEW k \in 1..(Len(s) - i) PROVE v[k] = s[k + i]
    <3>1. k \in 1..(Len(s) - (i + 1) + 1) /\ (i + 1) + k - 1 = k + i
      BY <1>1, <1>2
    <3> QED BY <3>1, <2>2
  <2> QED BY <2>2, <2>3, <2>4
<1> HIDE DEF u, v
<1>5. /\ b \in Seq(TaskName) /\ Len(b) = (i - 1) + (Len(s) - i)
      /\ \A k \in 1..((i - 1) + (Len(s) - i)) :
           b[k] = IF k <= i - 1 THEN u[k] ELSE v[k - (i - 1)]
  <2>1. /\ b \in Seq(TaskName) /\ Len(b) = Len(u) + Len(v)
        /\ \A k \in 1..(Len(u) + Len(v)) :
             b[k] = IF k <= Len(u) THEN u[k] ELSE v[k - Len(u)]
    BY <1>3, <1>4, ConcatProperties
  <2> QED BY <2>1, <1>3, <1>4
<1> HIDE DEF b
<1>6. DOMAIN b = 1..(Len(s) - 1)
  BY <1>5, <1>1, <1>2, LenProperties
<1>7. \A k \in 1..(Len(s) - 1) : b[k] = IF k < i THEN s[k] ELSE s[k + 1]
  <2> SUFFICES ASSUME NEW k \in 1..(Len(s) - 1)
               PROVE  b[k] = IF k < i THEN s[k] ELSE s[k + 1]
    OBVIOUS
  <2>1. k \in 1..((i - 1) + (Len(s) - i))
    BY <1>1, <1>2
  <2>2. CASE k < i
    BY <2>1, <2>2, <1>2, <1>3, <1>5
  <2>3. CASE ~(k < i)
    <3>1. k - (i - 1) \in 1..(Len(s) - i)
      BY <2>3, <1>1, <1>2
    <3>2. v[k - (i - 1)] = s[(k - (i - 1)) + i]
      BY <3>1, <1>4
    <3> QED BY <3>2, <2>1, <2>3, <1>1, <1>2, <1>5
  <2> QED BY <2>2, <2>3
<1>8. {b[k] : k \in DOMAIN b} = S \ {s[i]}
  <2>1. ASSUME NEW k \in DOMAIN b PROVE b[k] \in S \ {s[i]}
    <3> DEFINE m == IF k < i THEN k ELSE k + 1
    <3>1. m \in DOMAIN s /\ m # i /\ b[k] = s[m]
      BY <1>1, <1>2, <1>6, <1>7
    <3> HIDE DEF m
    <3> QED BY <3>1 DEF Lined
  <2>2. ASSUME NEW t \in S, t # s[i] PROVE \E k \in DOMAIN b : b[k] = t
    <3>1. PICK m \in DOMAIN s : s[m] = t
      BY DEF Lined
    <3>2. CASE m < i
      <4>1. m \in DOMAIN b /\ b[m] = s[m]
        BY <3>2, <1>1, <1>2, <1>6, <1>7
      <4> QED BY <4>1, <3>1
    <3>3. CASE m > i
      <4>1. m - 1 \in DOMAIN b /\ ~(m - 1 < i) /\ (m - 1) + 1 = m
        BY <3>3, <1>1, <1>2, <1>6
      <4> QED BY <4>1, <3>1, <1>6, <1>7
    <3> QED BY <3>1, <3>2, <3>3, <2>2, <1>1, <1>2
  <2> QED BY <2>1, <2>2
<1>9. \A j, k \in DOMAIN b : b[j] = b[k] => j = k
  <2> SUFFICES ASSUME NEW j \in DOMAIN b, NEW k \in DOMAIN b, b[j] = b[k]
               PROVE  j = k
    OBVIOUS
  <2> DEFINE at(n) == IF n < i THEN n ELSE n + 1
  <2>1. at(j) \in DOMAIN s /\ at(k) \in DOMAIN s /\ b[j] = s[at(j)] /\ b[k] = s[at(k)]
    BY <1>1, <1>2, <1>6, <1>7
  <2>2. at(j) = at(k)
    BY <2>1 DEF Lined
  <2> QED BY <2>2, <1>1, <1>2, <1>6
<1>10. i # 1 => b # <<>> /\ Head(b) = Head(s)
  <2> SUFFICES ASSUME i # 1 PROVE b # <<>> /\ Head(b) = Head(s)
    OBVIOUS
  <2>1. 1 \in DOMAIN b /\ 1 \in DOMAIN s /\ b[1] = s[1]
    BY <1>1, <1>2, <1>6, <1>7
  <2>2. b # <<>> /\ s # <<>>
    BY <2>1, <1>1, <1>5, EmptySeq, LenProperties
  <2> QED BY <2>1, <2>2, <1>1, <1>5, HeadTailProperties
<1> QED BY <1>5, <1>8, <1>9, <1>10 DEF Lined, b, u, v

-----------------------------------------------------------------------------
(* The types, variable by variable.                                         *)

Places ==
  /\ session \in [Peer -> {"initial", "live", "returned"}]
  /\ watcher \in [Peer -> {"new", "next", "convert", "send", "ended"}]
  /\ outbound \in [Peer -> {"new", "recv", "lock", "chunkAck", "opAck", "ended"}]
  /\ inbound \in [Peer -> {"new", "loop", "lockRead", "lockOp", "lockPong", "chunks", "ended"}]
  /\ keepalive \in [Peer -> {"new", "tick", "lock", "ended"}]
Counts ==
  /\ failing \in [Peer -> BOOLEAN]
  /\ pings \in [Peer -> Nat] /\ edits \in [Peer -> Nat]
  /\ open \in [Peer -> BOOLEAN] /\ lost \in BOOLEAN
Trees ==
  /\ disk \in [Peer -> [Path -> Node]]
  /\ pending \in [Peer -> [Path -> {"none", "Created", "Modified", "Deleted"}]]
Events ==
  /\ event = [p \in Peer |-> event[p]]
  /\ \A p \in Peer : watcher[p] = "convert" => event[p].path \in Path
  /\ \A p \in Peer : watcher[p] = "send" => event[p] \in Op
Sent == [op : Op, op_id : Id, content : Seq(Chunk), next : Nat]
Sendings ==
  /\ queue \in [Peer -> Seq(Op)]
  /\ counter \in [Peer -> Id]
  /\ sending = [p \in Peer |-> sending[p]]
  /\ \A p \in Peer : outbound[p] \in {"lock", "chunkAck", "opAck"} => sending[p] \in Sent
Payloads ==
  /\ payload = [p \in Peer |-> payload[p]]
  /\ written \in [Peer -> Seq(Chunk)]
  /\ \A p \in Peer : inbound[p] \in {"lockOp", "chunks"} =>
       payload[p] \in Frame /\ payload[p].type = "SyncOp"
Wires == wire \in [Peer -> Seq(Frame)]
Types == Places /\ Counts /\ Trees /\ Events /\ Sendings /\ Payloads /\ Wires

(* What may be at a path.                                                   *)
LEMMA Nodes ==
  /\ Absent \in Node /\ Directory \in Node
  /\ \A c \in Seq(Chunk) : File(c) \in Node
  /\ \A n \in Node : n.content \in Seq(Chunk) /\ Len(n.content) \in Nat
<1>1. <<>> \in Seq(Chunk)
  BY EmptySeq
<1>2. ASSUME NEW n \in Node PROVE n.content \in Seq(Chunk)
  <2>1. CASE n \in {Absent, Directory}
    <3>1. n.content = <<>>
      BY <2>1 DEF Absent, Directory
    <3> QED BY <3>1, <1>1
  <2>2. CASE n \in [kind : {"File"}, content : Seq(Chunk)]
    BY <2>2
  <2> QED BY <2>1, <2>2 DEF Node
<1> QED BY <1>1, <1>2, LenProperties DEF Node, Absent, Directory, File

(* The operators on trees make trees.                                       *)
LEMMA TreesMade ==
  ASSUME NEW tree \in [Path -> Node]
  PROVE  /\ \A ds : create_dir_all(tree, ds) \in [Path -> Node]
         /\ \A x : remove(tree, x) \in [Path -> Node]
         /\ \A x : \A n \in Node : Put(tree, x, n) \in [Path -> Node]
BY Nodes DEF create_dir_all, remove, Put

(* What the debouncer has after a change is an event of every path.         *)
LEMMA NotifiedTyped ==
  ASSUME Trees, NEW p \in Peer, NEW tree, NEW xs
  PROVE  Notified(p, tree, xs) \in [Peer -> [Path -> {"none", "Created", "Modified", "Deleted"}]]
<1> DEFINE K == {"none", "Created", "Modified", "Deleted"}
           now == [x \in Path |->
                     IF tree[x] = disk[p][x] /\ x \notin xs THEN pending[p][x]
                     ELSE IF tree[x] = Absent THEN "Deleted"
                     ELSE IF disk[p][x] = Absent THEN "Created"
                     ELSE "Modified"]
<1>1. now \in [Path -> K]
  BY DEF Trees
<1>2. Notified(p, tree, xs) = IF watcher[p] \in {"new", "ended"} THEN pending
                              ELSE [pending EXCEPT ![p] = now]
  BY DEF Notified, Trees
<1> HIDE DEF now
<1> QED BY <1>1, <1>2 DEF Trees

(* What follows a step of p's tree.                                         *)
LEMMA TreeBecomes ==
  ASSUME Trees, NEW p \in Peer, NEW tree \in [Path -> Node], NEW xs,
         disk' = [disk EXCEPT ![p] = tree], pending' = Notified(p, tree, xs)
  PROVE  Trees'
BY NotifiedTyped DEF Trees

(* What an operation has.                                                   *)
LEMMA Operations ==
  ASSUME NEW op \in Op
  PROVE  /\ op.type \in {"Write", "Delete"} /\ op.path \in Path
         /\ HasChunks(op) => op.type = "Write"
BY DEF Op, HasChunks

(* The frames made of an operation, an id and a chunk are frames.           *)
LEMMA Frames ==
  /\ \A op \in Op, id \in Id : SyncOp(op, id) \in Frame
  /\ \A id \in Id : SyncOpAck(id) \in Frame /\ SyncComplete(id) \in Frame
  /\ \A id \in Id, c \in Chunk : SyncChunk(id, c) \in Frame
  /\ \A id \in Id, ok \in BOOLEAN : SyncChunkAck(id, ok) \in Frame
  /\ Ping \in Frame /\ Pong \in Frame
  /\ \A m \in Frame : m.type = "SyncOp" =>
       m.op \in Op /\ m.op_id \in Id /\ m = SyncOp(m.op, m.op_id)
  /\ \A m \in Frame : m.type = "SyncChunk" => m.data \in Chunk
BY DEF Frame, SyncOp, SyncOpAck, SyncComplete, SyncChunk, SyncChunkAck, Ping, Pong

(* So is what follows a number of chunks.                                   *)
LEMMA NextFrameTyped ==
  ASSUME NEW s \in Sent, NEW content \in Seq(Chunk), NEW n \in Nat, n >= 1
  PROVE  NextFrame(s, content, n) \in Frame
<1>1. n <= Len(content) => content[n] \in Chunk
  BY ElementOfSeq, LenProperties
<1> QED BY <1>1, Frames DEF NextFrame, Sent

(* What a task that reads and writes does to the two channels.              *)
LEMMA Exchanges ==
  ASSUME Wires, NEW p \in Peer, NEW read \in BOOLEAN, NEW fs \in Seq(Frame),
         read => wire[p] # <<>>
  PROVE  /\ Exchange(p, read, fs) \in [Peer -> Seq(Frame)]
         /\ Exchange(p, read, fs)[p] = IF read THEN Tail(wire[p]) ELSE wire[p]
         /\ Exchange(p, read, fs)[Other(p)] \in {wire[Other(p)], wire[Other(p)] \o fs}
         /\ Other(p) \in Peer /\ Other(p) # p
<1>1. Other(p) \in Peer /\ Other(p) # p
  BY SyncAssumption DEF Peer, Other
<1>2. \A q \in Peer : wire[q] \in Seq(Frame) /\ wire[q] \o fs \in Seq(Frame)
  BY ConcatProperties DEF Wires
<1>3. read => Tail(wire[p]) \in Seq(Frame)
  BY HeadTailProperties DEF Wires
<1> QED BY <1>1, <1>2, <1>3 DEF Exchange

(* What a task writes at once is a sequence of frames.                      *)
LEMMA FramesInSeq ==
  /\ <<>> \in Seq(Frame)
  /\ \A m \in Frame : <<m>> \in Seq(Frame)
  /\ \A m, n \in Frame : <<m, n>> \in Seq(Frame)
OBVIOUS

(* What is read is a frame.                                                 *)
LEMMA HeadArrived ==
  ASSUME Wires, NEW p \in Peer, wire[p] # <<>>
  PROVE  Head(wire[p]) \in Frame
BY HeadTailProperties DEF Wires

Handling(q) == inbound[q] \in {"lockOp", "chunks"}

(* The types are kept by the users,                                         *)
LEMMA UserTypes ==
  ASSUME Types, NEW p \in Peer, UserActs(p)
  PROVE  Types'
<1>1. Places'
  BY DEF Types, Places, UserActs, UserWrites, UserMakesDirectory, UserDeletes, UserChanges,
         indexVars, watcherVars, outboundVars, inboundVars, keepaliveVars, streamVars
<1>2. Counts'
  BY DEF Types, Places, Counts, UserActs, UserWrites, UserMakesDirectory, UserDeletes, UserChanges,
         indexVars, watcherVars, outboundVars, inboundVars, keepaliveVars, streamVars
<1>3. Trees'
  <2>1. disk[p] \in [Path -> Node]
    BY DEF Types, Trees
  <2>2. \E tree \in [Path -> Node] : disk' = [disk EXCEPT ![p] = tree] /\ pending' = Notified(p, tree, {})
    <3>1. CASE \E x \in Path, content \in Contents : UserWrites(p, x, content)
      <4>1. PICK x \in Path, content \in Contents : UserWrites(p, x, content)
        BY <3>1
      <4> DEFINE tree == Put(disk[p], x, File(content))
      <4>2. tree \in [Path -> Node]
        BY <2>1, TreesMade, Nodes, SyncAssumption
      <4>3. disk' = [disk EXCEPT ![p] = tree] /\ pending' = Notified(p, tree, {})
        BY <4>1 DEF UserWrites, UserChanges
      <4> QED BY <4>2, <4>3
    <3>2. CASE \E x \in Path : UserMakesDirectory(p, x)
      <4>1. PICK x \in Path : UserMakesDirectory(p, x)
        BY <3>2
      <4> DEFINE tree == Put(disk[p], x, Directory)
      <4>2. tree \in [Path -> Node]
        BY <2>1, TreesMade, Nodes
      <4>3. disk' = [disk EXCEPT ![p] = tree] /\ pending' = Notified(p, tree, {})
        BY <4>1 DEF UserMakesDirectory, UserChanges
      <4> QED BY <4>2, <4>3
    <3>3. CASE \E x \in Path : UserDeletes(p, x)
      BY <3>3, <2>1, TreesMade DEF UserDeletes, UserChanges
    <3> QED BY <3>1, <3>2, <3>3 DEF UserActs
  <2> QED BY <2>2, TreeBecomes DEF Types
<1>4. Events'
  BY DEF Types, Places, Events, UserActs, UserWrites, UserMakesDirectory, UserDeletes, UserChanges,
         indexVars, watcherVars, outboundVars, inboundVars, keepaliveVars, streamVars
<1>5. Sendings'
  BY DEF Types, Places, Sendings, UserActs, UserWrites, UserMakesDirectory, UserDeletes, UserChanges,
         indexVars, watcherVars, outboundVars, inboundVars, keepaliveVars, streamVars
<1>6. Payloads'
  BY DEF Types, Places, Payloads, UserActs, UserWrites, UserMakesDirectory, UserDeletes, UserChanges,
         indexVars, watcherVars, outboundVars, inboundVars, keepaliveVars, streamVars
<1>7. Wires'
  BY DEF Types, Places, Wires, UserActs, UserWrites, UserMakesDirectory, UserDeletes, UserChanges,
         indexVars, watcherVars, outboundVars, inboundVars, keepaliveVars, streamVars
<1> QED BY <1>1, <1>2, <1>3, <1>4, <1>5, <1>6, <1>7 DEF Types

(* by the initial sync,                                                     *)
LEMMA InitialTypes ==
  ASSUME Types, NEW p \in Peer, InitialSync(p)
  PROVE  Types'
<1>1. Places'
  BY DEF Types, Places, InitialSync, run_initial_sync, initial_sync_fails, ForgetIndices,
         indexVars, watcherVars, outboundVars, inboundVars, keepaliveVars, streamVars
<1>2. Counts'
  BY DEF Types, Places, Counts, InitialSync, run_initial_sync, initial_sync_fails, ForgetIndices,
         indexVars, watcherVars, outboundVars, inboundVars, keepaliveVars, streamVars
<1>3. Trees'
  <2>1. disk[p] \in [Path -> Node]
    BY DEF Types, Trees
  <2>2. \E tree \in [Path -> Node] : disk' = [disk EXCEPT ![p] = tree]
    BY <2>1, TreesMade DEF InitialSync, run_initial_sync, initial_sync_fails, Types, Trees
  <2>3. pending' = pending
    BY DEF InitialSync, run_initial_sync, initial_sync_fails
  <2> QED BY <2>2, <2>3 DEF Types, Trees
<1>4. Events'
  BY DEF Types, Places, Events, InitialSync, run_initial_sync, initial_sync_fails, ForgetIndices,
         indexVars, watcherVars, outboundVars, inboundVars, keepaliveVars, streamVars
<1>5. Sendings'
  BY DEF Types, Places, Sendings, InitialSync, run_initial_sync, initial_sync_fails, ForgetIndices,
         indexVars, watcherVars, outboundVars, inboundVars, keepaliveVars, streamVars
<1>6. Payloads'
  BY DEF Types, Places, Payloads, InitialSync, run_initial_sync, initial_sync_fails, ForgetIndices,
         indexVars, watcherVars, outboundVars, inboundVars, keepaliveVars, streamVars
<1>7. Wires'
  BY DEF Types, Places, Wires, InitialSync, run_initial_sync, initial_sync_fails, ForgetIndices,
         indexVars, watcherVars, outboundVars, inboundVars, keepaliveVars, streamVars
<1> QED BY <1>1, <1>2, <1>3, <1>4, <1>5, <1>6, <1>7 DEF Types

(* by the watcher,                                                          *)
LEMMA WatcherTypes ==
  ASSUME Types, NEW p \in Peer, WatcherRuns(p)
  PROVE  Types'
<1>1. Places'
  BY DEF Types, Places, WatcherRuns, WNext, event_to_sync_op, WSend, WEnd,
         indexVars, watcherVars, outboundVars, inboundVars, keepaliveVars, streamVars
<1>2. Counts'
  BY DEF Types, Places, Counts, WatcherRuns, WNext, event_to_sync_op, WSend, WEnd,
         indexVars, watcherVars, outboundVars, inboundVars, keepaliveVars, streamVars
<1>3. Trees'
  <2>1. disk' = disk
    BY DEF WatcherRuns, WNext, event_to_sync_op, WSend, WEnd
  <2>2. \E k \in [Path -> {"none", "Created", "Modified", "Deleted"}] :
          pending' = [pending EXCEPT ![p] = k] \/ pending' = pending
    <3>1. ASSUME NEW x \in Path, WNext(p, x)
          PROVE  /\ pending' = [pending EXCEPT ![p] = [pending[p] EXCEPT ![x] = "none"]]
                 /\ [pending[p] EXCEPT ![x] = "none"]
                      \in [Path -> {"none", "Created", "Modified", "Deleted"}]
      BY <3>1 DEF WNext, Types, Trees
    <3>2. [x \in Path |-> "none"] \in [Path -> {"none", "Created", "Modified", "Deleted"}]
      OBVIOUS
    <3> QED BY <3>1, <3>2 DEF WatcherRuns, event_to_sync_op, WSend, WEnd
  <2> QED BY <2>1, <2>2 DEF Types, Trees
<1>4. Events'
  <2> USE DEF Types, Places, Events
  <2>1. ASSUME NEW x \in Path, WNext(p, x) PROVE Events'
    BY <2>1 DEF WNext
  <2>2. ASSUME event_to_sync_op(p) PROVE Events'
    <3>1. event[p].path \in Path
      BY <2>2 DEF event_to_sync_op
    <3>2. Len(disk[p][event[p].path].content) \in Nat
      BY <3>1, Nodes DEF Trees
    <3>3. OpOf(p) \in Op
      BY <3>1, <3>2 DEF OpOf, Op
    <3> QED BY <2>2, <3>3 DEF event_to_sync_op
  <2>3. ASSUME WSend(p) \/ WEnd(p) PROVE Events'
    BY <2>3 DEF WSend, WEnd
  <2> QED BY <2>1, <2>2, <2>3 DEF WatcherRuns
<1>5. Sendings'
  <2>1. queue' \in [Peer -> Seq(Op)]
    <3>1. CASE WSend(p)
      <4>1. Append(queue[p], event[p]) \in Seq(Op)
        BY <3>1, AppendProperties DEF WSend, Types, Sendings, Events
      <4> QED BY <3>1, <4>1 DEF WSend, Types, Sendings
    <3>2. CASE ~WSend(p)
      BY <3>2 DEF Types, Sendings, WatcherRuns, WNext, event_to_sync_op, WEnd, outboundVars
    <3> QED BY <3>1, <3>2
  <2>2. UNCHANGED <<counter, sending, outbound>>
    BY DEF WatcherRuns, WNext, event_to_sync_op, WSend, WEnd, outboundVars
  <2> QED BY <2>1, <2>2 DEF Types, Sendings
<1>6. Payloads'
  BY DEF Types, Places, Payloads, WatcherRuns, WNext, event_to_sync_op, WSend, WEnd,
         indexVars, watcherVars, outboundVars, inboundVars, keepaliveVars, streamVars
<1>7. Wires'
  BY DEF Types, Places, Wires, WatcherRuns, WNext, event_to_sync_op, WSend, WEnd,
         indexVars, watcherVars, outboundVars, inboundVars, keepaliveVars, streamVars
<1> QED BY <1>1, <1>2, <1>3, <1>4, <1>5, <1>6, <1>7 DEF Types

(* by outbound,                                                             *)
LEMMA OutboundTypes ==
  ASSUME Types, NEW p \in Peer, OutboundRuns(p)
  PROVE  Types'
<1>1. Places'
  BY DEF Types, Places, OutboundRuns, ORecv, OSend, OSendFile, OChunkAck, OOpAck, OUnexpected, OStreamFails,
         OCannotRead, OShutdown, OutboundEnds,
         indexVars, watcherVars, outboundVars, inboundVars, keepaliveVars, streamVars
<1>2. Counts'
  BY DEF Types, Places, Counts, OutboundRuns, ORecv, OSend, OSendFile, OChunkAck, OOpAck, OUnexpected, OStreamFails,
         OCannotRead, OShutdown, OutboundEnds,
         indexVars, watcherVars, outboundVars, inboundVars, keepaliveVars, streamVars
<1>3. Trees'
  BY DEF Types, Places, Trees, OutboundRuns, ORecv, OSend, OSendFile, OChunkAck, OOpAck, OUnexpected, OStreamFails,
         OCannotRead, OShutdown, OutboundEnds,
         indexVars, watcherVars, outboundVars, inboundVars, keepaliveVars, streamVars
<1>4. Events'
  BY DEF Types, Places, Events, OutboundRuns, ORecv, OSend, OSendFile, OChunkAck, OOpAck, OUnexpected, OStreamFails,
         OCannotRead, OShutdown, OutboundEnds,
         indexVars, watcherVars, outboundVars, inboundVars, keepaliveVars, streamVars
<1>5. Sendings'
  <2> USE DEF Types, Places, Sendings
  <2>1. CASE ORecv(p)
    <3> DEFINE s == [op |-> Head(queue[p]), op_id |-> counter[p], content |-> <<>>, next |-> 1]
    <3>1. Head(queue[p]) \in Op /\ Tail(queue[p]) \in Seq(Op)
      BY <2>1, HeadTailProperties DEF ORecv
    <3>2. counter[p] \in Id /\ counter[p] + 1 \in Id
      BY <2>1, SyncAssumption DEF ORecv, Id
    <3>3. s \in Sent
      BY <3>1, <3>2, EmptySeq DEF Sent
    <3>4. sending' = [sending EXCEPT ![p] = s]
      BY <2>1 DEF ORecv
    <3> HIDE DEF s
    <3> QED BY <2>1, <3>1, <3>2, <3>3, <3>4 DEF ORecv
  <2>2. CASE OSend(p)
    BY <2>2 DEF OSend
  <2>3. CASE OSendFile(p)
    <3> DEFINE c == disk[p][sending[p].op.path].content
    <3>1. sending[p] \in Sent
      BY <2>3 DEF OSendFile
    <3>2. c \in Seq(Chunk)
      BY <3>1, Operations, Nodes DEF Sent, Trees
    <3>3. [sending[p] EXCEPT !.content = c] \in Sent
      BY <3>1, <3>2 DEF Sent
    <3>4. sending' = [sending EXCEPT ![p] = [sending[p] EXCEPT !.content = c]]
      BY <2>3 DEF OSendFile
    <3> QED BY <2>3, <3>3, <3>4 DEF OSendFile
  <2>4. CASE OChunkAck(p)
    <3>1. sending[p] \in Sent
      BY <2>4 DEF OChunkAck
    <3>2. [sending[p] EXCEPT !.next = @ + 1] \in Sent
      <4>1. sending[p].next + 1 \in Nat
        BY <3>1 DEF Sent
      <4> QED BY <3>1, <4>1 DEF Sent
    <3>3. sending' = [sending EXCEPT ![p] = [sending[p] EXCEPT !.next = @ + 1]]
      BY <2>4 DEF OChunkAck
    <3> QED BY <2>4, <3>2, <3>3 DEF OChunkAck
  <2>5. CASE OOpAck(p)
    BY <2>5 DEF OOpAck
  <2>6. CASE OUnexpected(p) \/ OStreamFails(p) \/ OCannotRead(p) \/ OShutdown(p)
    <3>1. <<>> \in Seq(Op)
      BY EmptySeq
    <3>2. OutboundEnds(p)
      BY <2>6 DEF OUnexpected, OStreamFails, OCannotRead, OShutdown
    <3> QED BY <3>1, <3>2 DEF OutboundEnds
  <2> QED BY <2>1, <2>2, <2>3, <2>4, <2>5, <2>6 DEF OutboundRuns
<1>6. Payloads'
  BY DEF Types, Places, Payloads, OutboundRuns, ORecv, OSend, OSendFile, OChunkAck, OOpAck, OUnexpected, OStreamFails,
         OCannotRead, OShutdown, OutboundEnds,
         indexVars, watcherVars, outboundVars, inboundVars, keepaliveVars, streamVars
<1>7. Wires'
  <2> USE DEF Types
  <2>1. CASE OSend(p) \/ OCannotRead(p)
    <3>1. SyncOp(sending[p].op, sending[p].op_id) \in Frame
      BY <2>1, Frames DEF OSend, OCannotRead, Sendings, Sent
    <3>2. wire' = Exchange(p, FALSE, <<SyncOp(sending[p].op, sending[p].op_id)>>)
      BY <2>1 DEF OSend, OCannotRead
    <3> QED BY <3>1, <3>2, FramesInSeq, Exchanges DEF Wires
  <2>2. CASE OSendFile(p)
    <3> DEFINE s == sending[p]
               c == disk[p][s.op.path].content
    <3>1. s \in Sent
      BY <2>2 DEF OSendFile, Sendings
    <3>2. c \in Seq(Chunk)
      BY <3>1, Operations, Nodes DEF Sent, Trees
    <3>3. SyncOp(s.op, s.op_id) \in Frame /\ NextFrame(s, c, 1) \in Frame
      BY <3>1, <3>2, Frames, NextFrameTyped DEF Sent
    <3>4. wire' = Exchange(p, FALSE, <<SyncOp(s.op, s.op_id), NextFrame(s, c, 1)>>)
      BY <2>2 DEF OSendFile
    <3> QED BY <3>3, <3>4, FramesInSeq, Exchanges DEF Wires
  <2>3. CASE OChunkAck(p)
    <3> DEFINE s == sending[p]
    <3>1. s \in Sent
      BY <2>3 DEF OChunkAck, Sendings
    <3>2. NextFrame(s, s.content, s.next + 1) \in Frame
      BY <3>1, NextFrameTyped DEF Sent
    <3>3. wire' = Exchange(p, TRUE, <<NextFrame(s, s.content, s.next + 1)>>) /\ wire[p] # <<>>
      BY <2>3 DEF OChunkAck, Arrived
    <3> QED BY <3>2, <3>3, FramesInSeq, Exchanges DEF Wires
  <2>4. CASE OOpAck(p) \/ OUnexpected(p)
    <3>1. wire' = Exchange(p, TRUE, <<>>) /\ wire[p] # <<>>
      BY <2>4 DEF OOpAck, OUnexpected, Arrived
    <3> QED BY <3>1, FramesInSeq, Exchanges DEF Wires
  <2>5. CASE ORecv(p) \/ OStreamFails(p) \/ OShutdown(p)
    BY <2>5 DEF ORecv, OStreamFails, OShutdown, Wires
  <2> QED BY <2>1, <2>2, <2>3, <2>4, <2>5 DEF OutboundRuns
<1> QED BY <1>1, <1>2, <1>3, <1>4, <1>5, <1>6, <1>7 DEF Types

(* by keepalive,                                                            *)
LEMMA KeepaliveTypes ==
  ASSUME Types, NEW p \in Peer, KeepaliveRuns(p)
  PROVE  Types'
<1>1. Places'
  BY DEF Types, Places, KeepaliveRuns, KTick, KPing, KEnd,
         indexVars, watcherVars, outboundVars, inboundVars, keepaliveVars, streamVars
<1>2. Counts'
  <2>1. pings' \in [Peer -> Nat]
    <3>1. pings[p] + 1 \in Nat
      BY DEF Types, Counts
    <3> QED BY <3>1 DEF Types, Counts, KeepaliveRuns, KTick, KPing, KEnd
  <2> QED BY <2>1 DEF Types, Counts, KeepaliveRuns, KTick, KPing, KEnd, inboundVars, streamVars
<1>3. Trees'
  BY DEF Types, Places, Trees, KeepaliveRuns, KTick, KPing, KEnd,
         indexVars, watcherVars, outboundVars, inboundVars, keepaliveVars, streamVars
<1>4. Events'
  BY DEF Types, Places, Events, KeepaliveRuns, KTick, KPing, KEnd,
         indexVars, watcherVars, outboundVars, inboundVars, keepaliveVars, streamVars
<1>5. Sendings'
  BY DEF Types, Places, Sendings, KeepaliveRuns, KTick, KPing, KEnd,
         indexVars, watcherVars, outboundVars, inboundVars, keepaliveVars, streamVars
<1>6. Payloads'
  BY DEF Types, Places, Payloads, KeepaliveRuns, KTick, KPing, KEnd,
         indexVars, watcherVars, outboundVars, inboundVars, keepaliveVars, streamVars
<1>7. Wires'
  <2>1. CASE KPing(p)
    BY <2>1, Frames, FramesInSeq, Exchanges DEF KPing, Types, Wires
  <2>2. CASE KTick(p) \/ KEnd(p)
    BY <2>2 DEF KTick, KEnd, Types, Wires
  <2> QED BY <2>1, <2>2 DEF KeepaliveRuns
<1> QED BY <1>1, <1>2, <1>3, <1>4, <1>5, <1>6, <1>7 DEF Types

(* by inbound,                                                              *)
LEMMA InboundTypes ==
  ASSUME Types, NEW p \in Peer, InboundRuns(p)
  PROVE  Types'
<1>1. Places'
  <2>1. \E a \in {"new", "loop", "lockRead", "lockOp", "lockPong", "chunks", "ended"} :
          inbound' = [inbound EXCEPT ![p] = a] \/ inbound' = inbound
    BY DEF InboundRuns, ILoop, IRead, IPong, IDelete, ICreateEmpty, ICreate, ICannotCreate, IChunk,
         IComplete, IChunkDamaged, IChunksFail, IChunkReadFails, IEnd, Applied, Handler
  <2>2. UNCHANGED <<session, watcher, outbound, keepalive>>
    BY DEF InboundRuns, ILoop, IRead, IPong, IDelete, ICreateEmpty, ICreate, ICannotCreate, IChunk,
         IComplete, IChunkDamaged, IChunksFail, IChunkReadFails, IEnd, Applied,
         watcherVars, outboundVars, keepaliveVars
  <2> QED BY <2>1, <2>2 DEF Types, Places
<1>2. Counts'
  BY DEF Types, Places, Counts, InboundRuns, ILoop, IRead, IPong, IDelete, ICreateEmpty, ICreate, ICannotCreate, IChunk,
         IComplete, IChunkDamaged, IChunksFail, IChunkReadFails, IEnd, Applied,
         indexVars, watcherVars, outboundVars, inboundVars, keepaliveVars, streamVars
<1>3. Trees'
  <2> USE DEF Types
  <2> DEFINE x == payload[p].op.path
  <2>1. disk[p] \in [Path -> Node]
    BY DEF Trees
  <2>2. CASE ILoop(p) \/ IRead(p) \/ IPong(p) \/ IEnd(p)
    BY <2>2 DEF ILoop, IRead, IPong, IEnd, Trees, watcherVars
  <2>3. CASE IDelete(p) \/ ICannotCreate(p) \/ IComplete(p) \/ IChunkDamaged(p) \/ IChunksFail(p)
               \/ IChunkReadFails(p)
    <3>1. \E tree \in [Path -> Node] : disk' = [disk EXCEPT ![p] = tree]
                                       /\ pending' = Notified(p, tree, {})
      BY <2>1, <2>3, TreesMade DEF IDelete, ICannotCreate, IComplete, IChunkDamaged, IChunksFail,
           IChunkReadFails, Applied
    <3> QED BY <3>1, TreeBecomes
  <2>4. CASE ICreateEmpty(p) \/ ICreate(p)
    <3>1. File(<<>>) \in Node
      BY Nodes, EmptySeq
    <3>2. Created(p) \in [Path -> Node]
      <4>1. create_dir_all(disk[p], Above[x]) \in [Path -> Node]
        BY <2>1, TreesMade
      <4> QED BY <3>1, <4>1, TreesMade DEF Created
    <3>3. disk' = [disk EXCEPT ![p] = Created(p)] /\ pending' = Notified(p, Created(p), {x})
      BY <2>4 DEF ICreateEmpty, ICreate, Applied
    <3> QED BY <3>2, <3>3, TreeBecomes
  <2>5. CASE IChunk(p)
    <3> DEFINE content == Append(written[p], Head(wire[p]).data)
    <3>1. Head(wire[p]).data \in Chunk
      BY <2>5, HeadArrived, Frames DEF IChunk, ChunkIsForOp, Arrived
    <3>2. File(content) \in Node
      BY <3>1, AppendProperties, Nodes DEF Payloads
    <3> HIDE DEF content
    <3>3. CASE disk' = [disk EXCEPT ![p][x] = File(content)] /\ pending' = Notified(p, disk[p], {x})
      <4>1. [disk[p] EXCEPT ![x] = File(content)] \in [Path -> Node]
        BY <2>1, <3>2
      <4>2. disk' = [disk EXCEPT ![p] = [disk[p] EXCEPT ![x] = File(content)]]
        BY <3>3
      <4>3. disk' \in [Peer -> [Path -> Node]]
        BY <4>1, <4>2 DEF Trees
      <4> QED BY <3>3, <4>3, NotifiedTyped DEF Trees
    <3>4. CASE UNCHANGED <<disk, pending>>
      BY <3>4 DEF Trees
    <3> QED BY <2>5, <3>3, <3>4 DEF IChunk, content
  <2> QED BY <2>2, <2>3, <2>4, <2>5 DEF InboundRuns
<1>4. Events'
  BY DEF Types, Places, Events, InboundRuns, ILoop, IRead, IPong, IDelete, ICreateEmpty, ICreate, ICannotCreate, IChunk,
         IComplete, IChunkDamaged, IChunksFail, IChunkReadFails, IEnd, Applied,
         indexVars, watcherVars, outboundVars, inboundVars, keepaliveVars, streamVars
<1>5. Sendings'
  BY DEF Types, Places, Sendings, InboundRuns, ILoop, IRead, IPong, IDelete, ICreateEmpty, ICreate, ICannotCreate, IChunk,
         IComplete, IChunkDamaged, IChunksFail, IChunkReadFails, IEnd, Applied,
         indexVars, watcherVars, outboundVars, inboundVars, keepaliveVars, streamVars
<1>6. Payloads'
  <2> USE DEF Types, Places, Payloads
  <2>1. CASE IRead(p)
    <3>1. Head(wire[p]) \in Frame
      BY <2>1, HeadArrived DEF IRead
    <3> QED BY <2>1, <3>1 DEF IRead, Handler
  <2>2. CASE ICreate(p)
    <3>1. <<>> \in Seq(Chunk)
      BY EmptySeq
    <3> QED BY <2>2, <3>1 DEF ICreate, HandlesOp
  <2>3. CASE IChunk(p)
    <3>1. Head(wire[p]).data \in Chunk
      BY <2>3, HeadArrived, Frames DEF IChunk, ChunkIsForOp, Arrived
    <3>2. Append(written[p], Head(wire[p]).data) \in Seq(Chunk)
      BY <3>1, AppendProperties
    <3>3. written' \in [Peer -> Seq(Chunk)]
      BY <2>3, <3>2 DEF IChunk
    <3> QED BY <2>3, <3>3 DEF IChunk
  <2>4. CASE ~(IRead(p) \/ ICreate(p) \/ IChunk(p))
    <3>1. UNCHANGED <<payload, written>>
      BY <2>4 DEF InboundRuns, ILoop, IPong, IDelete, ICreateEmpty, ICannotCreate, IComplete,
           IChunkDamaged, IChunksFail, IChunkReadFails, IEnd, Applied
    <3>2. \E a \in {"lockRead", "ended"} : inbound' = [inbound EXCEPT ![p] = a]
      BY <2>4 DEF InboundRuns, ILoop, IPong, IDelete, ICreateEmpty, ICannotCreate, IComplete,
           IChunkDamaged, IChunksFail, IChunkReadFails, IEnd, Applied
    <3> QED BY <3>1, <3>2
  <2> QED BY <2>1, <2>2, <2>3, <2>4
<1>7. Wires'
  <2> USE DEF Types
  <2>0. ASSUME Handling(p) PROVE payload[p].op_id \in Id
    BY <2>0, Frames DEF Payloads, Handling
  <2>1. CASE IRead(p) \/ IChunksFail(p)
    <3>1. wire' = Exchange(p, TRUE, <<>>) /\ wire[p] # <<>>
      BY <2>1 DEF IRead, IChunksFail, Applied
    <3> QED BY <3>1, FramesInSeq, Exchanges DEF Wires
  <2>2. CASE IPong(p)
    BY <2>2, Frames, FramesInSeq, Exchanges DEF IPong, Wires
  <2>3. CASE IDelete(p) \/ ICreateEmpty(p)
    <3>1. wire' = Exchange(p, FALSE, <<AckOf(p)>>) /\ AckOf(p) \in Frame
      BY <2>0, <2>3, Frames DEF IDelete, ICreateEmpty, HandlesOp, Applied, AckOf, Handling
    <3> QED BY <3>1, FramesInSeq, Exchanges DEF Wires
  <2>4. CASE IComplete(p)
    <3>1. wire' = Exchange(p, TRUE, <<AckOf(p)>>) /\ AckOf(p) \in Frame /\ wire[p] # <<>>
      BY <2>0, <2>4, Frames DEF IComplete, Applied, AckOf, Arrived, Handling
    <3> QED BY <3>1, FramesInSeq, Exchanges DEF Wires
  <2>5. CASE IChunk(p) \/ IChunkDamaged(p)
    <3>1. PICK ok \in BOOLEAN : wire' = Exchange(p, TRUE, <<SyncChunkAck(payload[p].op_id, ok)>>)
      BY <2>5 DEF IChunk, IChunkDamaged, Applied
    <3>2. wire[p] # <<>> /\ Handling(p)
      BY <2>5 DEF IChunk, IChunkDamaged, ChunkIsForOp, Arrived, Handling
    <3>3. SyncChunkAck(payload[p].op_id, ok) \in Frame
      BY <2>0, <3>2, Frames
    <3> QED BY <3>1, <3>2, <3>3, FramesInSeq, Exchanges DEF Wires
  <2>6. CASE ICannotCreate(p) \/ IChunkReadFails(p)
    <3>1. wire' = Exchange(p, FALSE, <<>>)
      BY <2>6 DEF ICannotCreate, IChunkReadFails, Applied
    <3> QED BY <3>1, FramesInSeq, Exchanges DEF Wires
  <2>7. CASE ILoop(p) \/ ICreate(p) \/ IEnd(p)
    BY <2>7 DEF ILoop, ICreate, IEnd, Wires
  <2> QED BY <2>1, <2>2, <2>3, <2>4, <2>5, <2>6, <2>7 DEF InboundRuns
<1> QED BY <1>1, <1>2, <1>3, <1>4, <1>5, <1>6, <1>7 DEF Types

(* and by the end of a session.                                             *)
LEMMA RunTypes ==
  ASSUME Types, NEW p \in Peer, RunReturns(p) \/ Stop(p) \/ StreamDropped(p) \/ Exit(p)
  PROVE  Types'
<1>1. Places'
  BY DEF Types, Places, RunReturns, Stop, StreamDropped, Exit,
         indexVars, watcherVars, outboundVars, inboundVars, keepaliveVars, streamVars
<1>2. Counts'
  BY DEF Types, Places, Counts, RunReturns, Stop, StreamDropped, Exit,
         indexVars, watcherVars, outboundVars, inboundVars, keepaliveVars, streamVars
<1>3. Trees'
  BY DEF Types, Places, Trees, RunReturns, Stop, StreamDropped, Exit,
         indexVars, watcherVars, outboundVars, inboundVars, keepaliveVars, streamVars
<1>4. Events'
  BY DEF Types, Places, Events, RunReturns, Stop, StreamDropped, Exit,
         indexVars, watcherVars, outboundVars, inboundVars, keepaliveVars, streamVars
<1>5. Sendings'
  BY DEF Types, Places, Sendings, RunReturns, Stop, StreamDropped, Exit,
         indexVars, watcherVars, outboundVars, inboundVars, keepaliveVars, streamVars
<1>6. Payloads'
  BY DEF Types, Places, Payloads, RunReturns, Stop, StreamDropped, Exit,
         indexVars, watcherVars, outboundVars, inboundVars, keepaliveVars, streamVars
<1>7. Wires'
  BY DEF Types, Places, Wires, RunReturns, Stop, StreamDropped, Exit,
         indexVars, watcherVars, outboundVars, inboundVars, keepaliveVars, streamVars
<1> QED BY <1>1, <1>2, <1>3, <1>4, <1>5, <1>6, <1>7 DEF Types

Awaits(p) == outbound[p] \in {"chunkAck", "opAck"}

(* The mutex is held where the code has the guard, and no task waits for it *)
(* before the initial sync is done.                                         *)
Fresh(p) ==
  session[p] = "initial" => outbound[p] = "new" /\ inbound[p] = "new" /\ keepalive[p] = "new"
Guarded(p) ==
  /\ Awaits(p) => Holds(p, "outbound")
  /\ inbound[p] = "chunks" => Holds(p, "inbound")
Lines ==
  /\ mutex = [p \in Peer |-> mutex[p]]
  /\ \A p \in Peer : Lined(mutex[p], Waiters(p)) /\ Guarded(p) /\ Fresh(p)

(* A task that holds the mutex stands in it first, and is the only one.     *)
LEMMA Holding ==
  ASSUME Lines, NEW p \in Peer
  PROVE  /\ Lined(mutex[p], Waiters(p)) /\ Guarded(p) /\ Fresh(p)
         /\ \A t : Holds(p, t) => mutex[p] # <<>> /\ Head(mutex[p]) = t
         /\ Awaits(p) => inbound[p] # "chunks" /\ ~Holds(p, "inbound") /\ ~Holds(p, "keepalive")
BY DEF Lines, Guarded, Holds

(* A step of p alone.                                                       *)
LEMMA LinesStep ==
  ASSUME Lines, Places, NEW p \in Peer, NEW s,
         mutex' = [mutex EXCEPT ![p] = s],
         \A q \in Peer : q # p =>
           /\ outbound'[q] = outbound[q] /\ inbound'[q] = inbound[q]
           /\ keepalive'[q] = keepalive[q] /\ session'[q] = session[q],
         Lined(s, Waiters(p)'), Fresh(p)',
         Awaits(p)' => s # <<>> /\ Head(s) = "outbound",
         inbound'[p] = "chunks" => s # <<>> /\ Head(s) = "inbound"
  PROVE  Lines'
<1>1. mutex' = [q \in Peer |-> mutex'[q]]
  BY DEF Lines
<1>2. mutex'[p] = s /\ \A q \in Peer : q # p => mutex'[q] = mutex[q]
  BY DEF Lines
<1>3. ASSUME NEW q \in Peer, q # p
      PROVE  (Lined(mutex[q], Waiters(q)) /\ Guarded(q) /\ Fresh(q))'
  <2>1. Waiters(q)' = Waiters(q)
    BY <1>3 DEF Waiters
  <2> QED BY <2>1, <1>2, <1>3 DEF Lines, Guarded, Fresh, Awaits, Holds
<1>4. (Lined(mutex[p], Waiters(p)) /\ Guarded(p) /\ Fresh(p))'
  BY <1>2 DEF Guarded, Holds
<1> QED BY <1>1, <1>3, <1>4 DEF Lines

(* The steps that do not touch the mutex or a task that waits for it.       *)
LEMMA LinesKept ==
  ASSUME Lines, UNCHANGED <<outbound, inbound, keepalive, session, mutex>>
  PROVE  Lines'
BY DEF Lines, Guarded, Fresh, Holds, Awaits, Waiters

(* A task that does not wait yet joins the queue of the mutex.              *)
LEMMA JoinsQueue ==
  ASSUME Lines, NEW p \in Peer, NEW t \in TaskName, t \notin Waiters(p)
  PROVE  /\ Lined(Append(mutex[p], t), Waiters(p) \cup {t})
         /\ mutex[p] # <<>> => /\ Append(mutex[p], t) # <<>>
                               /\ Head(Append(mutex[p], t)) = Head(mutex[p])
BY Holding, LinedAppend

(* Outbound takes its place in the queue, and gives it up.                  *)
LEMMA OutboundLines ==
  ASSUME Types, Lines, NEW p \in Peer, OutboundRuns(p)
  PROVE  Lines'
<1> USE DEF Types, Places
<1>1. UNCHANGED <<inbound, keepalive, session>>
  BY DEF OutboundRuns, ORecv, OSend, OSendFile, OChunkAck, OOpAck, OUnexpected, OStreamFails,
         OCannotRead, OShutdown, OutboundEnds, inboundVars, keepaliveVars
<1>2. PICK a : outbound' = [outbound EXCEPT ![p] = a]
  BY DEF OutboundRuns, ORecv, OSend, OSendFile, OChunkAck, OOpAck, OUnexpected, OStreamFails,
         OCannotRead, OShutdown, OutboundEnds
<1>3. /\ \A q \in Peer : q # p => outbound'[q] = outbound[q] /\ inbound'[q] = inbound[q]
                                  /\ keepalive'[q] = keepalive[q] /\ session'[q] = session[q]
      /\ outbound'[p] = a /\ inbound'[p] = inbound[p]
  BY <1>1, <1>2
<1>4. Fresh(p)'
  <2>1. Fresh(p)
    BY DEF Lines
  <2>2. outbound[p] # "new"
    BY DEF OutboundRuns, ORecv, OSend, OSendFile, OChunkAck, OOpAck, OUnexpected, OStreamFails,
           OCannotRead, OShutdown
  <2> QED BY <2>1, <2>2, <1>1 DEF Fresh
<1>5. CASE ORecv(p)
  <2>1. "outbound" \notin Waiters(p) /\ Waiters(p)' = Waiters(p) \cup {"outbound"}
    BY <1>1, <1>5 DEF ORecv, Waiters
  <2>2. /\ Lined(Append(mutex[p], "outbound"), Waiters(p)')
        /\ mutex[p] # <<>> => /\ Append(mutex[p], "outbound") # <<>>
                              /\ Head(Append(mutex[p], "outbound")) = Head(mutex[p])
    <3> HIDE DEF Types, Places
    <3>1. "outbound" \in TaskName
      BY DEF TaskName
    <3>2. /\ Lined(Append(mutex[p], "outbound"), Waiters(p) \cup {"outbound"})
          /\ mutex[p] # <<>> => /\ Append(mutex[p], "outbound") # <<>>
                                /\ Head(Append(mutex[p], "outbound")) = Head(mutex[p])
      BY <2>1, <3>1, JoinsQueue
    <3> QED BY <2>1, <3>2
  <2>3. mutex' = [mutex EXCEPT ![p] = Append(mutex[p], "outbound")]
    BY <1>5 DEF ORecv, Locking
  <2>4. ~Awaits(p)' /\ (inbound'[p] = "chunks" => mutex[p] # <<>> /\ Head(mutex[p]) = "inbound")
    BY <1>1, <1>5, Holding DEF ORecv, Awaits, Guarded, Holds
  <2> HIDE DEF Types, Places
  <2> QED BY <2>2, <2>3, <2>4, <1>3, <1>4, LinesStep DEF Types
<1>6. CASE OSend(p) \/ OSendFile(p) \/ OChunkAck(p)
  <2>1. outbound[p] \in {"lock", "chunkAck"} /\ a \in {"chunkAck", "opAck"} /\ mutex' = mutex
    BY <1>2, <1>6 DEF OSend, OSendFile, OChunkAck
  <2>2. Holds(p, "outbound")
    BY <1>6, Holding DEF OSend, OSendFile, OChunkAck, Guarded, Awaits
  <2>3. Waiters(p)' = Waiters(p)
    BY <2>1, <1>1, <1>3 DEF Waiters
  <2>4. inbound'[p] # "chunks"
    BY <2>2, <1>3, Holding DEF Guarded, Holds
  <2>5. mutex' = [mutex EXCEPT ![p] = mutex[p]]
    BY <2>1 DEF Lines
  <2>6. Lined(mutex[p], Waiters(p)') /\ mutex[p] # <<>> /\ Head(mutex[p]) = "outbound"
    BY <2>2, <2>3, Holding DEF Holds
  <2> HIDE DEF Types, Places
  <2> QED BY <2>4, <2>5, <2>6, <1>3, <1>4, LinesStep DEF Types
<1>7. CASE OOpAck(p) \/ OUnexpected(p) \/ OStreamFails(p) \/ OCannotRead(p)
  <2>1. outbound[p] \in {"lock", "chunkAck", "opAck"} /\ a \notin {"lock", "chunkAck", "opAck"}
    BY <1>2, <1>7 DEF OOpAck, OUnexpected, OStreamFails, OCannotRead, OutboundEnds
  <2>2. Holds(p, "outbound")
    BY <1>7, Holding DEF OOpAck, OUnexpected, OStreamFails, OCannotRead, Guarded, Awaits
  <2>3. Waiters(p)' = Waiters(p) \ {"outbound"}
    BY <2>1, <1>1, <1>3 DEF Waiters
  <2>4. inbound'[p] # "chunks" /\ ~Awaits(p)'
    BY <2>1, <2>2, <1>3, Holding DEF Guarded, Holds, Awaits
  <2>5. mutex' = [mutex EXCEPT ![p] = Tail(mutex[p])]
    BY <1>7 DEF OOpAck, OUnexpected, OStreamFails, OCannotRead, Released
  <2>6. Lined(Tail(mutex[p]), Waiters(p)')
    BY <2>2, <2>3, Holding, LinedTail DEF Holds
  <2> HIDE DEF Types, Places
  <2> QED BY <2>4, <2>5, <2>6, <1>3, <1>4, LinesStep DEF Types
<1>8. CASE OShutdown(p)
  <2>1. outbound[p] = "recv" /\ a = "ended" /\ mutex' = mutex
    BY <1>2, <1>8 DEF OShutdown, OutboundEnds
  <2>3. Waiters(p)' = Waiters(p)
    BY <2>1, <1>1, <1>3 DEF Waiters
  <2>4. ~Awaits(p)' /\ (inbound'[p] = "chunks" => mutex[p] # <<>> /\ Head(mutex[p]) = "inbound")
    BY <1>3, <2>1, Holding DEF Awaits, Guarded, Holds
  <2>5. mutex' = [mutex EXCEPT ![p] = mutex[p]]
    BY <2>1 DEF Lines
  <2>6. Lined(mutex[p], Waiters(p)')
    BY <2>3, Holding
  <2> HIDE DEF Types, Places
  <2> QED BY <2>4, <2>5, <2>6, <1>3, <1>4, LinesStep DEF Types
<1> QED BY <1>5, <1>6, <1>7, <1>8 DEF OutboundRuns

(* A task leaves the queue of the mutex wherever it stands.                 *)
LEMMA LeavesQueue ==
  ASSUME Lines, NEW p \in Peer, NEW t \in TaskName
  PROVE  \E s : /\ Without(p, t) = [mutex EXCEPT ![p] = s]
                /\ Lined(s, Waiters(p) \ {t})
                /\ mutex[p] # <<>> /\ Head(mutex[p]) # t => s # <<>> /\ Head(s) = Head(mutex[p])
<1>1. Lined(mutex[p], Waiters(p))
  BY Holding
<1>2. CASE ~\E k \in DOMAIN mutex[p] : mutex[p][k] = t
  <2>1. t \notin Waiters(p) /\ Waiters(p) \ {t} = Waiters(p)
    BY <1>1, <1>2 DEF Lined
  <2>2. Without(p, t) = [mutex EXCEPT ![p] = mutex[p]]
    BY <1>2 DEF Without, Lines
  <2> QED BY <1>1, <2>1, <2>2
<1>3. CASE \E k \in DOMAIN mutex[p] : mutex[p][k] = t
  <2> DEFINE i == CHOOSE j \in DOMAIN mutex[p] : mutex[p][j] = t
             s == SubSeq(mutex[p], 1, i - 1) \o SubSeq(mutex[p], i + 1, Len(mutex[p]))
  <2>1. i \in DOMAIN mutex[p] /\ mutex[p][i] = t
    BY <1>3
  <2>2. Without(p, t) = [mutex EXCEPT ![p] = s]
    BY <1>3 DEF Without
  <2> HIDE DEF i
  <2>3. Lined(s, Waiters(p) \ {t}) /\ (i # 1 => s # <<>> /\ Head(s) = Head(mutex[p]))
    BY <1>1, <2>1, LinedWithout
  <2>4. mutex[p] # <<>> => Head(mutex[p]) = mutex[p][1]
    BY <1>1, HeadTailProperties DEF Lined
  <2> HIDE DEF s
  <2>5. mutex[p] # <<>> /\ Head(mutex[p]) # t => i # 1
    BY <2>1, <2>4
  <2> QED BY <2>2, <2>3, <2>5
<1> QED BY <1>2, <1>3

(* Keepalive takes its place in the queue, and gives it up.                 *)
LEMMA KeepaliveLines ==
  ASSUME Types, Lines, NEW p \in Peer, KeepaliveRuns(p)
  PROVE  Lines'
<1> USE DEF Types, Places
<1>1. UNCHANGED <<inbound, outbound, session>>
  BY DEF KeepaliveRuns, KTick, KPing, KEnd, inboundVars, outboundVars
<1>2. PICK a : keepalive' = [keepalive EXCEPT ![p] = a]
  BY DEF KeepaliveRuns, KTick, KPing, KEnd
<1>3. \A q \in Peer : q # p => outbound'[q] = outbound[q] /\ inbound'[q] = inbound[q]
                               /\ keepalive'[q] = keepalive[q] /\ session'[q] = session[q]
  BY <1>1, <1>2
<1>4. Fresh(p)'
  <2>1. Fresh(p)
    BY DEF Lines
  <2>2. keepalive[p] # "new"
    BY DEF KeepaliveRuns, KTick, KPing, KEnd, MayPing
  <2> QED BY <2>1, <2>2, <1>1 DEF Fresh
<1>5. CASE KTick(p)
  <2>1. "keepalive" \notin Waiters(p) /\ Waiters(p)' = Waiters(p) \cup {"keepalive"}
    BY <1>1, <1>5 DEF KTick, Waiters
  <2>2. /\ Lined(Append(mutex[p], "keepalive"), Waiters(p)')
        /\ mutex[p] # <<>> => /\ Append(mutex[p], "keepalive") # <<>>
                              /\ Head(Append(mutex[p], "keepalive")) = Head(mutex[p])
    <3> HIDE DEF Types, Places
    <3>1. "keepalive" \in TaskName
      BY DEF TaskName
    <3>2. /\ Lined(Append(mutex[p], "keepalive"), Waiters(p) \cup {"keepalive"})
          /\ mutex[p] # <<>> => /\ Append(mutex[p], "keepalive") # <<>>
                                /\ Head(Append(mutex[p], "keepalive")) = Head(mutex[p])
      BY <2>1, <3>1, JoinsQueue
    <3> QED BY <2>1, <3>2
  <2>3. mutex' = [mutex EXCEPT ![p] = Append(mutex[p], "keepalive")]
    BY <1>5 DEF KTick, Locking
  <2>4. /\ Awaits(p)' => mutex[p] # <<>> /\ Head(mutex[p]) = "outbound"
        /\ inbound'[p] = "chunks" => mutex[p] # <<>> /\ Head(mutex[p]) = "inbound"
    BY <1>1, Holding DEF Awaits, Guarded, Holds
  <2> HIDE DEF Types, Places
  <2> QED BY <2>2, <2>3, <2>4, <1>3, <1>4, LinesStep DEF Types
<1>6. CASE KPing(p) \/ KEnd(p)
  <2>1. Waiters(p)' = Waiters(p) \ {"keepalive"} /\ mutex' = Without(p, "keepalive")
    BY <1>1, <1>6 DEF KPing, KEnd, MayPing, Waiters
  <2>2. PICK s : /\ Without(p, "keepalive") = [mutex EXCEPT ![p] = s]
                 /\ Lined(s, Waiters(p) \ {"keepalive"})
                 /\ mutex[p] # <<>> /\ Head(mutex[p]) # "keepalive" =>
                      s # <<>> /\ Head(s) = Head(mutex[p])
    BY LeavesQueue DEF TaskName
  <2>4. /\ Awaits(p)' => s # <<>> /\ Head(s) = "outbound"
        /\ inbound'[p] = "chunks" => s # <<>> /\ Head(s) = "inbound"
    BY <1>1, <2>2, Holding DEF Awaits, Guarded, Holds
  <2> HIDE DEF Types, Places
  <2> QED BY <2>1, <2>2, <2>4, <1>3, <1>4, LinesStep DEF Types
<1> QED BY <1>5, <1>6 DEF KeepaliveRuns

(* Inbound takes its place in the queue, and gives it up.                   *)
LEMMA InboundLines ==
  ASSUME Types, Lines, NEW p \in Peer, InboundRuns(p)
  PROVE  Lines'
<1> USE DEF Types, Places
<1>1. UNCHANGED <<keepalive, outbound, session>>
  BY DEF InboundRuns, ILoop, IRead, IPong, IDelete, ICreateEmpty, ICreate, ICannotCreate, IChunk,
         IComplete, IChunkDamaged, IChunksFail, IChunkReadFails, IEnd, Applied,
         outboundVars, keepaliveVars
<1>2. inbound[p] # "new" /\ \E a : inbound' = [inbound EXCEPT ![p] = a]
  <2>1. inbound[p] # "new"
    BY DEF InboundRuns, ILoop, IRead, IPong, IDelete, ICreateEmpty, ICreate, ICannotCreate, IChunk,
         IComplete, IChunkDamaged, IChunksFail, IChunkReadFails, IEnd, InboundFails, HandlesOp
  <2>2. \/ inbound' = inbound
        \/ inbound' = [inbound EXCEPT ![p] = Handler(Head(wire[p]).type)]
        \/ inbound' = [inbound EXCEPT ![p] = "lockRead"]
        \/ inbound' = [inbound EXCEPT ![p] = "chunks"]
        \/ inbound' = [inbound EXCEPT ![p] = "ended"]
    BY DEF InboundRuns, ILoop, IRead, IPong, IDelete, ICreateEmpty, ICreate, ICannotCreate, IChunk,
         IComplete, IChunkDamaged, IChunksFail, IChunkReadFails, IEnd, Applied
  <2>3. inbound = [inbound EXCEPT ![p] = inbound[p]]
    OBVIOUS
  <2> HIDE DEF Types, Places
  <2> QED BY <2>1, <2>2, <2>3
<1>3. \A q \in Peer : q # p => outbound'[q] = outbound[q] /\ inbound'[q] = inbound[q]
                               /\ keepalive'[q] = keepalive[q] /\ session'[q] = session[q]
  BY <1>1, <1>2
<1>4. Fresh(p)'
  <2>1. Fresh(p)
    BY DEF Lines
  <2> QED BY <2>1, <1>1, <1>2 DEF Fresh
<1>5. CASE ILoop(p)
  <2>1. "inbound" \notin Waiters(p) /\ Waiters(p)' = Waiters(p) \cup {"inbound"}
    BY <1>1, <1>5 DEF ILoop, Waiters
  <2>2. /\ Lined(Append(mutex[p], "inbound"), Waiters(p)')
        /\ mutex[p] # <<>> => /\ Append(mutex[p], "inbound") # <<>>
                              /\ Head(Append(mutex[p], "inbound")) = Head(mutex[p])
    <3> HIDE DEF Types, Places
    <3>1. "inbound" \in TaskName
      BY DEF TaskName
    <3>2. /\ Lined(Append(mutex[p], "inbound"), Waiters(p) \cup {"inbound"})
          /\ mutex[p] # <<>> => /\ Append(mutex[p], "inbound") # <<>>
                                /\ Head(Append(mutex[p], "inbound")) = Head(mutex[p])
      BY <2>1, <3>1, JoinsQueue
    <3> QED BY <2>1, <3>2
  <2>3. mutex' = [mutex EXCEPT ![p] = Append(mutex[p], "inbound")]
    BY <1>5 DEF ILoop, Locking
  <2>4. /\ Awaits(p)' => mutex[p] # <<>> /\ Head(mutex[p]) = "outbound"
        /\ inbound'[p] # "chunks"
    BY <1>1, <1>5, Holding DEF ILoop, Awaits, Guarded, Holds
  <2> HIDE DEF Types, Places
  <2> QED BY <2>2, <2>3, <2>4, <1>3, <1>4, LinesStep DEF Types
<1>6. CASE \/ IRead(p) \/ IPong(p) \/ IDelete(p) \/ ICreateEmpty(p) \/ ICannotCreate(p)
           \/ IComplete(p) \/ IChunkDamaged(p) \/ IChunksFail(p) \/ IChunkReadFails(p)
  <2>1. /\ inbound[p] \in {"lockRead", "lockOp", "lockPong", "chunks"}
        /\ inbound'[p] \in {"lockRead", "lockOp", "lockPong"}
        /\ mutex' = Relocking(p, "inbound")
    BY <1>6 DEF IRead, IPong, IDelete, ICreateEmpty, ICannotCreate, IComplete, IChunkDamaged,
                IChunksFail, IChunkReadFails, Applied, HandlesOp, Handler
  <2>2. Holds(p, "inbound")
    BY <1>6, Holding DEF IRead, IPong, IDelete, ICreateEmpty, ICannotCreate, IComplete,
                IChunkDamaged, IChunksFail, IChunkReadFails, HandlesOp, Guarded
  <2>3. Waiters(p)' = Waiters(p)
    BY <2>1, <1>1 DEF Waiters
  <2>4. ~Awaits(p)' /\ inbound'[p] # "chunks"
    BY <2>1, <2>2, <1>1, Holding DEF Awaits
  <2>5. Lined(Append(Tail(mutex[p]), "inbound"), Waiters(p)')
    BY <2>2, <2>3, Holding, LinedRelock DEF Holds
  <2>6. mutex' = [mutex EXCEPT ![p] = Append(Tail(mutex[p]), "inbound")]
    BY <2>1 DEF Relocking
  <2> HIDE DEF Types, Places
  <2> QED BY <2>4, <2>5, <2>6, <1>3, <1>4, LinesStep DEF Types
<1>7. CASE ICreate(p) \/ IChunk(p)
  <2>1. inbound[p] \in {"lockOp", "chunks"} /\ inbound'[p] = "chunks" /\ mutex' = mutex
    BY <1>7 DEF ICreate, IChunk, HandlesOp
  <2>2. Holds(p, "inbound")
    BY <1>7, Holding DEF ICreate, IChunk, HandlesOp, Guarded
  <2>3. Waiters(p)' = Waiters(p)
    BY <2>1, <1>1 DEF Waiters
  <2>4. ~Awaits(p)'
    BY <2>2, <1>1, Holding DEF Awaits
  <2>5. Lined(mutex[p], Waiters(p)') /\ mutex[p] # <<>> /\ Head(mutex[p]) = "inbound"
    BY <2>2, <2>3, Holding
  <2>6. mutex' = [mutex EXCEPT ![p] = mutex[p]]
    BY <2>1 DEF Lines
  <2> HIDE DEF Types, Places
  <2> QED BY <2>4, <2>5, <2>6, <1>3, <1>4, LinesStep DEF Types
<1>8. CASE IEnd(p)
  <2>1. /\ inbound'[p] = "ended" /\ inbound[p] \in {"loop", "lockRead", "lockPong"}
        /\ mutex' = Without(p, "inbound")
    BY <1>8 DEF IEnd, InboundFails
  <2>2. Waiters(p)' = Waiters(p) \ {"inbound"}
    BY <2>1, <1>1 DEF Waiters
  <2>3. PICK s : /\ Without(p, "inbound") = [mutex EXCEPT ![p] = s]
                 /\ Lined(s, Waiters(p) \ {"inbound"})
                 /\ mutex[p] # <<>> /\ Head(mutex[p]) # "inbound" =>
                      s # <<>> /\ Head(s) = Head(mutex[p])
    BY LeavesQueue DEF TaskName
  <2>4. /\ Awaits(p)' => s # <<>> /\ Head(s) = "outbound"
        /\ inbound'[p] # "chunks"
    BY <1>1, <2>1, <2>3, Holding DEF Awaits, Guarded, Holds
  <2> HIDE DEF Types, Places
  <2> QED BY <2>1, <2>2, <2>3, <2>4, <1>3, <1>4, LinesStep DEF Types
<1> QED BY <1>5, <1>6, <1>7, <1>8 DEF InboundRuns

(* The initial sync starts, and the end of a session empties, the queue.    *)
LEMMA RunLines ==
  ASSUME Types, Lines, NEW p \in Peer,
         InitialSync(p) \/ RunReturns(p) \/ Stop(p) \/ StreamDropped(p) \/ Exit(p)
  PROVE  Lines'
<1> USE DEF Types, Places
<1>1. CASE InitialSync(p)
  <2>1. \A q \in Peer : q # p => outbound'[q] = outbound[q] /\ inbound'[q] = inbound[q]
                                 /\ keepalive'[q] = keepalive[q] /\ session'[q] = session[q]
    BY <1>1 DEF InitialSync, run_initial_sync, initial_sync_fails
  <2>2. /\ outbound'[p] \in {"recv", "ended"} /\ inbound'[p] \in {"loop", "ended"}
        /\ keepalive'[p] \in {"tick", "ended"} /\ session'[p] # "initial"
        /\ mutex' = mutex /\ session[p] = "initial"
    BY <1>1 DEF InitialSync, run_initial_sync, initial_sync_fails
  <2>3. Waiters(p) = Waiters(p)'
    BY <2>2, Holding DEF Waiters, Fresh
  <2>4. Lined(mutex[p], Waiters(p)') /\ ~Awaits(p)' /\ inbound'[p] # "chunks" /\ Fresh(p)'
    BY <2>2, <2>3, Holding DEF Awaits, Fresh
  <2>5. mutex' = [mutex EXCEPT ![p] = mutex[p]]
    BY <2>2 DEF Lines
  <2> HIDE DEF Types, Places
  <2> QED BY <2>1, <2>4, <2>5, LinesStep DEF Types
<1>2. CASE Exit(p)
  <2>1. \A q \in Peer : q # p => outbound'[q] = outbound[q] /\ inbound'[q] = inbound[q]
                                 /\ keepalive'[q] = keepalive[q] /\ session'[q] = session[q]
    BY <1>2 DEF Exit
  <2>2. /\ outbound'[p] = "ended" /\ inbound'[p] = "ended" /\ keepalive'[p] = "ended"
        /\ session'[p] # "initial" /\ mutex' = [mutex EXCEPT ![p] = <<>>]
    BY <1>2 DEF Exit
  <2>3. Waiters(p)' = {} /\ ~Awaits(p)' /\ Fresh(p)' /\ inbound'[p] # "chunks"
    BY <2>2 DEF Waiters, Awaits, Fresh
  <2>4. Lined(<<>>, {})
    BY EmptySeq DEF Lined
  <2> HIDE DEF Types, Places
  <2> QED BY <2>1, <2>2, <2>3, <2>4, LinesStep DEF Types
<1>3. CASE RunReturns(p) \/ Stop(p)
  <2>1. /\ UNCHANGED <<outbound, inbound, keepalive, mutex>>
        /\ session' = [session EXCEPT ![p] = "returned"]
    BY <1>3 DEF RunReturns, Stop, outboundVars, inboundVars, keepaliveVars
  <2>2. \A q \in Peer : Waiters(q)' = Waiters(q) /\ (Fresh(q) => Fresh(q)')
    BY <2>1 DEF Waiters, Fresh
  <2> QED BY <2>1, <2>2 DEF Lines, Guarded, Holds, Awaits
<1>4. CASE StreamDropped(p)
  BY <1>4, LinesKept DEF StreamDropped, outboundVars, inboundVars, keepaliveVars
<1> QED BY <1>1, <1>2, <1>3, <1>4

-----------------------------------------------------------------------------
(* The conversation about one operation.                                    *)

OpFrame(m) == m.type \in {"SyncOp", "SyncChunk", "SyncComplete"}
IsAck(m) == m.type \in {"SyncOpAck", "SyncChunkAck"}
NoOps(q) == \A k \in DOMAIN wire[q] : ~OpFrame(wire[q][k])
NoAcks(p) == \A k \in DOMAIN wire[p] : ~IsAck(wire[p][k])

(* Between two operations nothing of one is under way.                      *)
Quiet(p) == NoOps(Other(p)) /\ NoAcks(p) /\ ~Handling(Other(p))

(* What p has written behind the operation and the chunks acknowledged.     *)
Following(p) == NextFrame(sending[p], sending[p].content, sending[p].next)

NextIsOpen(p) ==
  /\ sending[p].next \in 1..(Len(sending[p].content) + 1)
  /\ outbound[p] = "chunkAck" <=> sending[p].next <= Len(sending[p].content)
  /\ ~HasChunks(sending[p].op) => sending[p].content = <<>>

(* Of the operation and its chunks at most one is not yet answered.         *)
FramesInOrder(p) ==
  LET w == wire[Other(p)]
      s == sending[p]
  IN \A k \in DOMAIN w : OpFrame(w[k]) =>
       /\ NoAcks(p)
       /\ w[k].type = "SyncOp" =>
            /\ w[k] = SyncOp(s.op, s.op_id) /\ s.next = 1
            /\ ~Handling(Other(p))
            /\ \A j \in DOMAIN w : j > k => OpFrame(w[j]) /\ w[j].type # "SyncOp"
       /\ w[k].type # "SyncOp" => w[k] = Following(p) /\ HasChunks(s.op) /\ k = Len(w)

(* What the peer works on is what p has sent.                               *)
Handled(p) ==
  LET q == Other(p)
      s == sending[p]
  IN Handling(q) =>
       /\ payload[q] = SyncOp(s.op, s.op_id)
       /\ \A k \in DOMAIN wire[q] : OpFrame(wire[q][k])
       /\ inbound[q] = "lockOp" => NoAcks(p) /\ s.next = 1
       /\ inbound[q] = "chunks" => HasChunks(s.op)

Acked(p) ==
  LET q == Other(p)
      s == sending[p]
  IN \A k \in DOMAIN wire[p] : IsAck(wire[p][k]) =>
       /\ wire[p][k].op_id = s.op_id
       /\ wire[p][k].type = IF outbound[p] = "opAck" THEN "SyncOpAck" ELSE "SyncChunkAck"
       /\ \A j \in DOMAIN wire[p] : IsAck(wire[p][j]) => j = k
       /\ outbound[p] = "opAck" =>
            inbound[q] # "chunks" /\ (HasChunks(s.op) => written[q] = s.content)

(* What is written are the chunks acknowledged.                             *)
Prefix(p) ==
  LET q == Other(p)
      s == sending[p]
  IN inbound[q] = "chunks" =>
       \/ failing[q]
       \/ wire[q] # <<>> /\ written[q] = SubSeq(s.content, 1, s.next - 1)
       \/ wire[q] = <<>> /\ (NoAcks(p) \/ written[q] = SubSeq(s.content, 1, s.next))

Flow(p) ==
  /\ outbound[p] \in {"new", "recv", "lock"} => Quiet(p)
  /\ outbound[p] = "lock" => sending[p].next = 1 /\ sending[p].content = <<>>
  /\ Awaits(p) => NextIsOpen(p) /\ FramesInOrder(p) /\ Handled(p) /\ Acked(p) /\ Prefix(p)

(* The elements behind the first.                                           *)
LEMMA TailAt ==
  ASSUME NEW S, NEW s \in Seq(S), s # <<>>
  PROVE  /\ DOMAIN s = 1..Len(s) /\ 1 \in DOMAIN s /\ Head(s) = s[1]
         /\ Len(s) \in Nat /\ Len(Tail(s)) = Len(s) - 1
         /\ \A k \in DOMAIN Tail(s) :
              k \in Nat /\ k + 1 # 1 /\ k + 1 \in DOMAIN s /\ Tail(s)[k] = s[k + 1]
         /\ \A k \in DOMAIN s : k # 1 => k - 1 \in DOMAIN Tail(s) /\ Tail(s)[k - 1] = s[k]
<1>1. /\ Len(s) \in Nat \ {0} /\ DOMAIN s = 1..Len(s) /\ Tail(s) \in Seq(S)
      /\ Len(Tail(s)) = Len(s) - 1 /\ DOMAIN Tail(s) = 1..(Len(s) - 1)
      /\ \A k \in 1..(Len(s) - 1) : Tail(s)[k] = s[k + 1]
      /\ Head(s) = s[1]
  BY HeadTailProperties, LenProperties, EmptySeq
<1> QED BY <1>1

(* The elements of two sequences in a row.                                  *)
LEMMA AfterAt ==
  ASSUME NEW S, NEW s \in Seq(S), NEW t \in Seq(S)
  PROVE  /\ DOMAIN (s \o t) = 1..(Len(s) + Len(t)) /\ Len(s) \in Nat /\ Len(t) \in Nat
         /\ \A k \in DOMAIN (s \o t) :
              \/ k \in DOMAIN s /\ (s \o t)[k] = s[k]
              \/ k \notin DOMAIN s /\ k - Len(s) \in DOMAIN t /\ (s \o t)[k] = t[k - Len(s)]
<1>1. /\ Len(s) \in Nat /\ DOMAIN s = 1..Len(s) /\ Len(t) \in Nat /\ DOMAIN t = 1..Len(t)
      /\ s \o t \in Seq(S) /\ Len(s \o t) = Len(s) + Len(t)
      /\ DOMAIN (s \o t) = 1..(Len(s) + Len(t))
      /\ \A k \in 1..(Len(s) + Len(t)) :
           (s \o t)[k] = IF k <= Len(s) THEN s[k] ELSE t[k - Len(s)]
  BY ConcatProperties, LenProperties
<1>2. ASSUME NEW k \in 1..(Len(s) + Len(t)), ~(k <= Len(s))
      PROVE  k - Len(s) \in 1..Len(t)
  BY <1>1, <1>2
<1> QED BY <1>1, <1>2

(* There are two peers.                                                     *)
LEMMA Peers ==
  ASSUME NEW p \in Peer
  PROVE  /\ Other(p) \in Peer /\ Other(p) # p /\ Other(Other(p)) = p
         /\ \A q \in Peer : q = p \/ q = Other(p)
BY SyncAssumption DEF Peer, Other

(* The receiver, or another task of the peer, takes a frame or writes one   *)
(* that is no acknowledgement.                                              *)
LEMMA PeerAside ==
  ASSUME Wires, NEW p \in Peer, NEW q, q = Other(p), Flow(p),
         outbound'[p] = outbound[p], sending'[p] = sending[p],
         \/ wire'[q] = wire[q]
         \/ wire[q] # <<>> /\ wire'[q] = Tail(wire[q]) /\ inbound'[q] # "chunks",
         \A k \in DOMAIN wire'[p] :
           IsAck(wire'[p][k]) => k \in DOMAIN wire[p] /\ wire'[p][k] = wire[p][k],
         inbound'[q] = inbound[q] \/ ~Handling(q)',
         Handling(q)' => payload'[q] = payload[q],
         written'[q] = written[q],
         inbound'[q] = "chunks" => failing'[q] = failing[q]
  PROVE  Flow(p)'
<1>0. q \in Peer /\ wire[q] \in Seq(Frame)
  BY Peers DEF Wires
<1>1. NoAcks(p) => NoAcks(p)'
  BY DEF NoAcks
<1>2. NoOps(q) => NoOps(q)'
  <2>1. CASE wire'[q] = wire[q]
    BY <2>1 DEF NoOps
  <2>2. CASE wire[q] # <<>> /\ wire'[q] = Tail(wire[q])
    BY <2>2, <1>0, TailAt DEF NoOps
  <2> QED BY <2>1, <2>2
<1>3. Quiet(p) => Quiet(p)'
  BY <1>1, <1>2 DEF Quiet, Handling
<1>4. ASSUME Awaits(p)
      PROVE  (NextIsOpen(p) /\ FramesInOrder(p) /\ Handled(p) /\ Acked(p) /\ Prefix(p))'
  <2>0. NextIsOpen(p) /\ FramesInOrder(p) /\ Handled(p) /\ Acked(p) /\ Prefix(p)
    BY <1>4 DEF Flow
  <2>1. NextIsOpen(p)'
    BY <2>0 DEF NextIsOpen
  <2>2. FramesInOrder(p)'
    <3>1. Following(p)' = Following(p)
      BY DEF Following
    <3>2. Handling(q)' => Handling(q)
      BY DEF Handling
    <3>3. CASE wire'[q] = wire[q]
      BY <2>0, <3>1, <3>2, <3>3, <1>1 DEF FramesInOrder
    <3>4. CASE wire[q] # <<>> /\ wire'[q] = Tail(wire[q])
      <4> DEFINE w == wire[q]
      <4>1. /\ Len(Tail(w)) = Len(w) - 1 /\ Len(w) \in Nat
            /\ \A k \in DOMAIN Tail(w) : k \in Nat /\ k + 1 \in DOMAIN w /\ Tail(w)[k] = w[k + 1]
        BY <1>0, <3>4, TailAt
      <4>2. SUFFICES ASSUME NEW k \in DOMAIN Tail(w), OpFrame(w[k + 1])
            PROVE  /\ NoAcks(p)
                   /\ w[k + 1].type = "SyncOp" =>
                        /\ w[k + 1] = SyncOp(sending[p].op, sending[p].op_id) /\ sending[p].next = 1
                        /\ ~Handling(q)
                        /\ \A j \in DOMAIN Tail(w) :
                             j > k => OpFrame(w[j + 1]) /\ w[j + 1].type # "SyncOp"
                   /\ w[k + 1].type # "SyncOp" =>
                        w[k + 1] = Following(p) /\ HasChunks(sending[p].op) /\ k = Len(Tail(w))
        BY <4>1, <3>1, <3>2, <3>4, <1>1 DEF FramesInOrder, OpFrame
      <4>3. k + 1 \in DOMAIN w /\ k \in Nat
        BY <4>1
      <4>4. k + 1 = Len(w) => k = Len(Tail(w))
        BY <4>1, <4>3
      <4>5. \A j \in DOMAIN Tail(w) : j > k => j + 1 \in DOMAIN w /\ j + 1 > k + 1
        BY <4>1, <4>3
      <4> HIDE DEF w
      <4> QED BY <2>0, <4>2, <4>3, <4>4, <4>5 DEF FramesInOrder, w
    <3> QED BY <3>3, <3>4
  <2>3. Handled(p)'
    <3> SUFFICES ASSUME Handling(q)' PROVE Handled(p)'
      BY DEF Handled
    <3>1. inbound'[q] = inbound[q] /\ Handling(q)
      BY DEF Handling
    <3>2. \A k \in DOMAIN wire'[q] : OpFrame(wire'[q][k])
      <4>1. CASE wire'[q] = wire[q]
        BY <4>1, <3>1, <2>0 DEF Handled
      <4>2. CASE wire[q] # <<>> /\ wire'[q] = Tail(wire[q])
        BY <4>2, <3>1, <2>0, <1>0, TailAt DEF Handled
      <4> QED BY <4>1, <4>2
    <3> QED BY <2>0, <3>1, <3>2, <1>1 DEF Handled
  <2>4. Acked(p)'
    <3>1. inbound'[q] = "chunks" => inbound[q] = "chunks"
      BY DEF Handling
    <3> QED BY <2>0, <3>1 DEF Acked
  <2>5. Prefix(p)'
    <3> SUFFICES ASSUME inbound'[q] = "chunks" PROVE Prefix(p)'
      BY DEF Prefix
    <3>1. inbound[q] = "chunks" /\ wire'[q] = wire[q] /\ failing'[q] = failing[q]
      BY DEF Handling
    <3> QED BY <2>0, <3>1, <1>1 DEF Prefix
  <2> QED BY <2>1, <2>2, <2>3, <2>4, <2>5
<1>5. Awaits(p)' => Awaits(p)
  BY DEF Awaits
<1> QED BY <1>3, <1>4, <1>5 DEF Flow

(* Another task of the sender, between two operations.                      *)
LEMMA SenderAside ==
  ASSUME Wires, NEW p \in Peer, NEW q, q = Other(p), Flow(p), NEW fs \in Seq(Frame),
         ~Awaits(p), outbound'[p] = outbound[p], sending'[p] = sending[p],
         wire'[p] = wire[p] \/ (wire[p] # <<>> /\ wire'[p] = Tail(wire[p])),
         wire'[q] \in {wire[q], wire[q] \o fs},
         \A k \in DOMAIN fs : ~OpFrame(fs[k]),
         inbound'[q] = inbound[q]
  PROVE  Flow(p)'
<1>0. q \in Peer /\ wire[q] \in Seq(Frame) /\ wire[p] \in Seq(Frame)
  BY Peers DEF Wires
<1>1. NoAcks(p) => NoAcks(p)'
  <2>1. CASE wire'[p] = wire[p]
    BY <2>1 DEF NoAcks
  <2>2. CASE wire[p] # <<>> /\ wire'[p] = Tail(wire[p])
    BY <2>2, <1>0, TailAt DEF NoAcks
  <2> QED BY <2>1, <2>2
<1>2. NoOps(q) => NoOps(q)'
  <2>1. CASE wire'[q] = wire[q]
    BY <2>1 DEF NoOps
  <2>2. CASE wire'[q] = wire[q] \o fs
    BY <2>2, <1>0, AfterAt DEF NoOps
  <2> QED BY <2>1, <2>2
<1> QED BY <1>1, <1>2 DEF Flow, Awaits, Quiet, Handling

(* The receiver answers.                                                    *)
LEMMA PeerAnswers ==
  ASSUME Wires, NEW p \in Peer, NEW q, q = Other(p), Flow(p), Awaits(p), NoAcks(p),
         outbound'[p] = outbound[p], sending'[p] = sending[p],
         NEW ack \in Frame, wire'[p] \in {wire[p], wire[p] \o <<ack>>}, NoOps(q)',
         ack.op_id = sending[p].op_id,
         ack.type = IF outbound[p] = "opAck" THEN "SyncOpAck" ELSE "SyncChunkAck",
         \/ /\ inbound'[q] = "lockRead"
            /\ outbound[p] = "opAck" /\ HasChunks(sending[p].op) => written'[q] = sending[p].content
         \/ /\ inbound'[q] = "chunks" /\ HasChunks(sending[p].op) /\ outbound[p] = "chunkAck"
            /\ wire'[q] = <<>> /\ payload'[q] = SyncOp(sending[p].op, sending[p].op_id)
            /\ failing'[q] \/ written'[q] = SubSeq(sending[p].content, 1, sending[p].next)
  PROVE  Flow(p)'
<1>0. q \in Peer /\ wire[p] \in Seq(Frame) /\ <<ack>> \in Seq(Frame)
  BY Peers, FramesInSeq DEF Wires
<1>1. NextIsOpen(p)'
  BY DEF Flow, NextIsOpen
<1>2. FramesInOrder(p)'
  BY DEF FramesInOrder, NoOps
<1>3. Handled(p)'
  <2>1. wire'[q] = <<>> => \A k \in DOMAIN wire'[q] : OpFrame(wire'[q][k])
    OBVIOUS
  <2> QED BY <2>1 DEF Handled, Handling
<1>4. Acked(p)'
  <2>1. CASE wire'[p] = wire[p]
    BY <2>1 DEF Acked, NoAcks
  <2>2. CASE wire'[p] = wire[p] \o <<ack>>
    <3>1. \A k \in DOMAIN wire'[p] : IsAck(wire'[p][k]) => k = Len(wire[p]) + 1 /\ wire'[p][k] = ack
      <4>1. \A k \in DOMAIN wire'[p] :
              \/ k \in DOMAIN wire[p] /\ wire'[p][k] = wire[p][k]
              \/ k \notin DOMAIN wire[p] /\ k - Len(wire[p]) \in DOMAIN <<ack>>
                   /\ wire'[p][k] = <<ack>>[k - Len(wire[p])]
        BY <1>0, <2>2, AfterAt
      <4>2. DOMAIN <<ack>> = {1} /\ <<ack>>[1] = ack
        OBVIOUS
      <4>3. Len(wire[p]) \in Nat /\ \A k \in DOMAIN wire'[p] : k \in Int
        BY <1>0, <2>2, AfterAt
      <4> QED BY <4>1, <4>2, <4>3 DEF NoAcks
    <3> QED BY <3>1 DEF Acked
  <2> QED BY <2>1, <2>2
<1>5. Prefix(p)'
  BY DEF Prefix
<1> QED BY <1>1, <1>2, <1>3, <1>4, <1>5 DEF Flow, Awaits

-----------------------------------------------------------------------------
(* The outbound task of the sender.                                         *)

(* A single acknowledgement is in front of what p reads.                    *)
LEMMA AckIsAlone ==
  ASSUME Wires, NEW p \in Peer, NEW q, q = Other(p), Flow(p), Awaits(p), wire[p] # <<>>,
         IsAck(Head(wire[p]))
  PROVE  /\ \A k \in DOMAIN Tail(wire[p]) : ~IsAck(Tail(wire[p])[k])
         /\ NoOps(q) /\ ~NoAcks(p) /\ inbound[q] # "lockOp"
         /\ outbound[p] = "opAck" => inbound[q] # "chunks"
         /\ inbound[q] = "chunks" => wire[q] = <<>>
<1>0. q \in Peer /\ wire[p] \in Seq(Frame) /\ wire[q] \in Seq(Frame)
  BY Peers DEF Wires
<1>1. 1 \in DOMAIN wire[p] /\ IsAck(wire[p][1])
  BY <1>0, TailAt
<1>2. FramesInOrder(p) /\ Handled(p) /\ Acked(p)
  BY DEF Flow
<1>3. \A j \in DOMAIN wire[p] : IsAck(wire[p][j]) => j = 1
  BY <1>1, <1>2 DEF Acked
<1>4. \A k \in DOMAIN Tail(wire[p]) : ~IsAck(Tail(wire[p])[k])
  BY <1>0, <1>3, TailAt
<1>5. ~NoAcks(p)
  BY <1>1 DEF NoAcks
<1>6. NoOps(q)
  BY <1>2, <1>5 DEF FramesInOrder, NoOps
<1>7. inbound[q] # "lockOp" /\ (outbound[p] = "opAck" => inbound[q] # "chunks")
  BY <1>1, <1>2, <1>5 DEF Handled, Handling, Acked
<1>8. inbound[q] = "chunks" => wire[q] = <<>>
  <2> SUFFICES ASSUME inbound[q] = "chunks", wire[q] # <<>> PROVE FALSE
    OBVIOUS
  <2>1. 1 \in DOMAIN wire[q]
    BY <1>0, TailAt
  <2> QED BY <2>1, <1>2, <1>6 DEF Handled, Handling, NoOps
<1> QED BY <1>4, <1>5, <1>6, <1>7, <1>8

(* What follows a number of chunks: the next one, or the end.               *)
LEMMA NextFrameIs ==
  ASSUME NEW s, NEW c \in Seq(Chunk), NEW n \in Nat
  PROVE  /\ NextFrame(s, c, n).type \in {"SyncChunk", "SyncComplete"}
         /\ NextFrame(s, c, n).type = "SyncChunk" <=> n <= Len(c)
         /\ n <= Len(c) => NextFrame(s, c, n).data = c[n]
         /\ NextFrame(s, c, n).op_id = s.op_id
BY DEF NextFrame, SyncChunk, SyncComplete

(* The outbound task of p, seen from p's operation.                         *)
LEMMA OutboundFlow ==
  ASSUME Types, Lines, NEW p \in Peer, NEW q, q = Other(p), Flow(p), OutboundRuns(p)
  PROVE  Flow(p)'
<1>0. /\ q \in Peer /\ q # p /\ wire[p] \in Seq(Frame) /\ wire[q] \in Seq(Frame) /\ Wires
      /\ Places /\ Sendings /\ outbound \in [Peer -> {"new", "recv", "lock", "chunkAck", "opAck", "ended"}]
      /\ sending = [r \in Peer |-> sending[r]]
  BY Peers DEF Types, Wires, Places, Sendings
<1>1. UNCHANGED <<inbound, payload, written, failing>>
  BY DEF OutboundRuns, ORecv, OSend, OSendFile, OChunkAck, OOpAck, OUnexpected, OStreamFails,
         OCannotRead, OShutdown, OutboundEnds, inboundVars
<1>2. CASE ORecv(p)
  <2>1. outbound'[p] = "lock" /\ wire' = wire /\ Quiet(p)
    BY <1>0, <1>2 DEF ORecv, Flow
  <2>2. sending'[p].next = 1 /\ sending'[p].content = <<>>
    BY <1>0, <1>2 DEF ORecv
  <2>3. Quiet(p)'
    BY <2>1, <1>1 DEF Quiet, NoOps, NoAcks, Handling
  <2> QED BY <2>1, <2>2, <2>3 DEF Flow, Awaits
<1>3. CASE OSend(p)
  <2> DEFINE s == sending[p]
             m == SyncOp(s.op, s.op_id)
  <2>1. /\ outbound[p] = "lock" /\ outbound'[p] = "opAck" /\ ~HasChunks(s.op)
        /\ sending' = sending /\ wire' = Exchange(p, FALSE, <<m>>)
    BY <1>0, <1>3 DEF OSend
  <2>2. Quiet(p) /\ s.next = 1 /\ s.content = <<>>
    BY <2>1 DEF Flow
  <2>3. s \in Sent
    BY <1>0, <2>1 DEF Sendings
  <2>4. m \in Frame /\ m.type = "SyncOp"
    BY <2>3, Frames DEF Sent, SyncOp
  <2>5. wire'[p] = wire[p] /\ wire'[q] \in {wire[q], wire[q] \o <<m>>}
    BY <1>0, <2>1, <2>4, FramesInSeq, Exchanges
  <2>6. \A k \in DOMAIN wire'[q] : OpFrame(wire'[q][k]) =>
          wire'[q][k] = m /\ k = Len(wire[q]) + 1
    <3>1. CASE wire'[q] = wire[q]
      BY <3>1, <2>2 DEF Quiet, NoOps
    <3>2. CASE wire'[q] = wire[q] \o <<m>>
      <4>1. Len(wire[q]) \in Nat /\ \A k \in DOMAIN wire'[q] :
              /\ k \in Int
              /\ \/ k \in DOMAIN wire[q] /\ wire'[q][k] = wire[q][k]
                 \/ k - Len(wire[q]) \in DOMAIN <<m>> /\ wire'[q][k] = <<m>>[k - Len(wire[q])]
        BY <3>2, <2>4, <1>0, FramesInSeq, AfterAt
      <4>2. DOMAIN <<m>> = {1} /\ <<m>>[1] = m
        OBVIOUS
      <4> HIDE DEF m
      <4> QED BY <4>1, <4>2, <2>2 DEF Quiet, NoOps
    <3> QED BY <2>5, <3>1, <3>2
  <2>7. NoAcks(p)' /\ ~Handling(q)'
    BY <2>2, <2>5, <1>1 DEF Quiet, NoAcks, Handling
  <2>8. Len(wire[q]) + 1 \in Int
    BY <1>0, LenProperties
  <2> HIDE DEF m
  <2>9. FramesInOrder(p)'
    <3>1. \A k \in DOMAIN wire'[q] : k > Len(wire[q]) + 1 => ~OpFrame(wire'[q][k])
      BY <2>6, <2>8
    <3>2. ASSUME NEW k \in DOMAIN wire'[q], OpFrame(wire'[q][k])
          PROVE  \A j \in DOMAIN wire'[q] : ~(j > k)
      <4>1. wire'[q] \in Seq(Frame)
        <5>1. wire' = Exchange(p, FALSE, <<m>>)
          BY <2>1 DEF m
        <5>2. <<m>> \in Seq(Frame)
          BY <2>4, FramesInSeq
        <5>3. Exchange(p, FALSE, <<m>>) \in [Peer -> Seq(Frame)]
          BY <1>0, <5>2, Exchanges
        <5> QED BY <1>0, <5>1, <5>3
      <4>2. CASE wire'[q] = wire[q]
        BY <4>2, <3>2, <2>2 DEF Quiet, NoOps
      <4>3. CASE wire'[q] = wire[q] \o <<m>>
        <5>1. DOMAIN wire'[q] = 1..(Len(wire[q]) + Len(<<m>>)) /\ Len(<<m>>) = 1
          BY <4>3, <2>4, <1>0, FramesInSeq, AfterAt
        <5> QED BY <5>1, <3>2, <2>6, <2>8
      <4> QED BY <2>5, <4>2, <4>3
    <3> QED BY <2>1, <2>2, <2>4, <2>6, <2>7, <3>2 DEF FramesInOrder, m
  <2>10. NextIsOpen(p)' /\ Handled(p)' /\ Acked(p)' /\ Prefix(p)'
    <3>1. 1 \in 1..(Len(<<>>) + 1) /\ ~(1 <= Len(<<>>))
      OBVIOUS
    <3> QED BY <3>1, <2>1, <2>2, <2>7 DEF NextIsOpen, Handled, Acked, Prefix, NoAcks, Handling
  <2> QED BY <2>1, <2>9, <2>10 DEF Flow, Awaits
<1>4. CASE OSendFile(p)
  <2> DEFINE s == sending[p]
             c == disk[p][s.op.path].content
             m == SyncOp(s.op, s.op_id)
             n == NextFrame(s, c, 1)
  <2>1. /\ outbound[p] = "lock" /\ HasChunks(s.op)
        /\ outbound'[p] = IF c = <<>> THEN "opAck" ELSE "chunkAck"
        /\ wire' = Exchange(p, FALSE, <<m, n>>)
    BY <1>0, <1>4 DEF OSendFile
  <2>2. Quiet(p) /\ s.next = 1
    BY <2>1 DEF Flow
  <2>3. s \in Sent
    BY <1>0, <2>1 DEF Sendings
  <2>4. c \in Seq(Chunk) /\ Len(c) \in Nat /\ (c = <<>> <=> ~(1 <= Len(c)))
    <3>1. c \in Seq(Chunk)
      BY <2>3, Operations, Nodes DEF Sent, Types, Trees
    <3> HIDE DEF c
    <3> QED BY <3>1, EmptySeq, LenProperties
  <2>5. /\ sending'[p].op = s.op /\ sending'[p].op_id = s.op_id /\ sending'[p].content = c
        /\ sending'[p].next = 1
    BY <1>0, <1>4, <2>2, <2>3 DEF OSendFile, Sent
  <2>6. m \in Frame /\ n \in Frame /\ m.type = "SyncOp" /\ n.type # "SyncOp"
        /\ n = NextFrame(sending'[p], c, 1)
    <3>1. m \in Frame /\ m.type = "SyncOp"
      BY <2>3, Frames DEF Sent, SyncOp
    <3> HIDE DEF c
    <3>2. n \in Frame /\ n.type # "SyncOp"
      <4>1. 1 \in Nat /\ 1 >= 1
        OBVIOUS
      <4>2. NextFrame(s, c, 1) \in Frame
        BY <4>1, <2>3, <2>4, NextFrameTyped
      <4>3. NextFrame(s, c, 1).type \in {"SyncChunk", "SyncComplete"}
        BY <4>1, <2>4, NextFrameIs
      <4> QED BY <4>2, <4>3
    <3>3. n = NextFrame(sending'[p], c, 1)
      BY <2>5 DEF NextFrame
    <3> QED BY <3>1, <3>2, <3>3
  <2> HIDE DEF m, n, c
  <2>7. wire'[p] = wire[p] /\ wire'[q] \in {wire[q], wire[q] \o <<m, n>>}
    BY <1>0, <2>1, <2>6, FramesInSeq, Exchanges
  <2>8. Len(wire[q]) \in Nat
    BY <1>0, LenProperties
  <2>9. \/ \A k \in DOMAIN wire'[q] : ~OpFrame(wire'[q][k])
        \/ /\ DOMAIN wire'[q] = 1..(Len(wire[q]) + 2) /\ Len(wire'[q]) = Len(wire[q]) + 2
           /\ \A k \in DOMAIN wire'[q] :
                \/ k < Len(wire[q]) + 1 /\ ~OpFrame(wire'[q][k])
                \/ k = Len(wire[q]) + 1 /\ wire'[q][k] = m
                \/ k = Len(wire[q]) + 2 /\ wire'[q][k] = n
    <3>1. CASE wire'[q] = wire[q]
      BY <3>1, <2>2 DEF Quiet, NoOps
    <3>2. CASE wire'[q] = wire[q] \o <<m, n>>
      <4>0. <<m, n>> \in Seq(Frame)
        BY <2>6, FramesInSeq
      <4>1. DOMAIN <<m, n>> = {1, 2} /\ <<m, n>>[1] = m /\ <<m, n>>[2] = n /\ Len(<<m, n>>) = 2
        OBVIOUS
      <4>2. /\ DOMAIN wire'[q] = 1..(Len(wire[q]) + 2) /\ wire'[q] \in Seq(Frame)
            /\ \A k \in DOMAIN wire'[q] :
                 \/ k \in DOMAIN wire[q] /\ wire'[q][k] = wire[q][k]
                 \/ k - Len(wire[q]) \in {1, 2} /\ wire'[q][k] = <<m, n>>[k - Len(wire[q])]
        BY <3>2, <4>0, <4>1, <1>0, AfterAt, ConcatProperties
      <4>3. DOMAIN wire[q] = 1..Len(wire[q]) /\ Len(wire'[q]) = Len(wire[q]) + 2
        <5>1. DOMAIN wire'[q] = 1..Len(wire'[q]) /\ Len(wire'[q]) \in Nat
          BY <4>2, LenProperties
        <5>2. DOMAIN wire[q] = 1..Len(wire[q])
          BY <1>0, LenProperties
        <5>3. Len(wire'[q]) = Len(wire[q]) + Len(<<m, n>>)
          BY <3>2, <4>0, <1>0, ConcatProperties
        <5> QED BY <5>2, <5>3, <4>1
      <4>4. ASSUME NEW k \in DOMAIN wire'[q]
            PROVE  \/ k < Len(wire[q]) + 1 /\ ~OpFrame(wire'[q][k])
                   \/ k = Len(wire[q]) + 1 /\ wire'[q][k] = m
                   \/ k = Len(wire[q]) + 2 /\ wire'[q][k] = n
        <5>1. CASE k \in DOMAIN wire[q] /\ wire'[q][k] = wire[q][k]
          <6>1. ~OpFrame(wire[q][k])
            BY <5>1, <2>2 DEF Quiet, NoOps
          <6>2. k < Len(wire[q]) + 1
            BY <5>1, <4>3, <2>8
          <6> QED BY <5>1, <6>1, <6>2
        <5>2. CASE k - Len(wire[q]) \in {1, 2} /\ wire'[q][k] = <<m, n>>[k - Len(wire[q])]
          BY <5>2, <4>1, <4>2, <2>8
        <5> QED BY <5>1, <5>2, <4>2
      <4> QED BY <4>2, <4>3, <4>4
    <3> QED BY <2>7, <3>1, <3>2
  <2>10. NoAcks(p)' /\ ~Handling(q)'
    BY <2>2, <2>7, <1>1 DEF Quiet, NoAcks, Handling
  <2>11. Following(p)' = n
    BY <2>5, <2>6 DEF Following
  <2>12. FramesInOrder(p)'
    <3>1. CASE \A k \in DOMAIN wire'[q] : ~OpFrame(wire'[q][k])
      BY <3>1 DEF FramesInOrder
    <3>2. CASE ~\A k \in DOMAIN wire'[q] : ~OpFrame(wire'[q][k])
      <4>1. OpFrame(n)
        <5>1. n.type \in {"SyncChunk", "SyncComplete"}
          BY <2>4, NextFrameIs DEF n
        <5> QED BY <5>1 DEF OpFrame
      <4>2. ASSUME NEW k \in DOMAIN wire'[q], OpFrame(wire'[q][k])
            PROVE  /\ wire'[q][k].type = "SyncOp" =>
                        /\ wire'[q][k] = m
                        /\ \A j \in DOMAIN wire'[q] : j > k => wire'[q][j] = n
                   /\ wire'[q][k].type # "SyncOp" => wire'[q][k] = n /\ k = Len(wire'[q])
        <5>1. /\ DOMAIN wire'[q] = 1..(Len(wire[q]) + 2) /\ Len(wire'[q]) = Len(wire[q]) + 2
              /\ \A j \in DOMAIN wire'[q] :
                   \/ j < Len(wire[q]) + 1 /\ ~OpFrame(wire'[q][j])
                   \/ j = Len(wire[q]) + 1 /\ wire'[q][j] = m
                   \/ j = Len(wire[q]) + 2 /\ wire'[q][j] = n
          BY <3>2, <2>9
        <5>2. CASE k = Len(wire[q]) + 1 /\ wire'[q][k] = m
          <6>1. \A j \in DOMAIN wire'[q] : j > k => wire'[q][j] = n
            BY <5>1, <5>2, <2>8
          <6> QED BY <5>2, <6>1, <2>6
        <5>3. CASE k = Len(wire[q]) + 2 /\ wire'[q][k] = n
          BY <5>1, <5>3, <2>6
        <5> QED BY <4>2, <5>1, <5>2, <5>3
      <4>3. m = SyncOp(sending'[p].op, sending'[p].op_id) /\ sending'[p].next = 1
            /\ HasChunks(sending'[p].op) /\ m.type = "SyncOp"
        BY <2>1, <2>5, <2>6 DEF m
      <4>4. NoAcks(p)' /\ ~Handling(q)' /\ Following(p)' = n /\ OpFrame(n) /\ n.type # "SyncOp"
        BY <4>1, <2>6, <2>10, <2>11
      <4>5. \A k \in DOMAIN wire'[q] : OpFrame(wire'[q][k]) =>
              /\ NoAcks(p)'
              /\ wire'[q][k].type = "SyncOp" =>
                   /\ wire'[q][k] = SyncOp(sending'[p].op, sending'[p].op_id)
                   /\ sending'[p].next = 1 /\ ~Handling(q)'
                   /\ \A j \in DOMAIN wire'[q] :
                        j > k => OpFrame(wire'[q][j]) /\ wire'[q][j].type # "SyncOp"
              /\ wire'[q][k].type # "SyncOp" =>
                   /\ wire'[q][k] = Following(p)' /\ HasChunks(sending'[p].op)
                   /\ k = Len(wire'[q])
        BY <4>2, <4>3, <4>4
      <4> QED BY <4>5 DEF FramesInOrder
    <3> QED BY <3>1, <3>2
  <2>13. NextIsOpen(p)'
    <3>1. 1 \in 1..(Len(c) + 1)
      BY <2>4
    <3> QED BY <3>1, <2>1, <2>4, <2>5 DEF NextIsOpen
  <2>14. Handled(p)' /\ Acked(p)' /\ Prefix(p)'
    BY <2>10 DEF Handled, Acked, Prefix, NoAcks, Handling
  <2>15. Awaits(p)' /\ outbound'[p] \notin {"new", "recv", "lock"}
    BY <2>1 DEF Awaits
  <2> QED BY <2>12, <2>13, <2>14, <2>15 DEF Flow
<1>5. CASE OChunkAck(p)
  <2> DEFINE s == sending[p]
             n == NextFrame(s, s.content, s.next + 1)
  <2>1. /\ outbound[p] = "chunkAck" /\ wire[p] # <<>> /\ IsAck(Head(wire[p]))
        /\ outbound'[p] = IF s.next < Len(s.content) THEN "chunkAck" ELSE "opAck"
        /\ wire' = Exchange(p, TRUE, <<n>>)
    BY <1>0, <1>5 DEF OChunkAck, Arrived, IsAck
  <2>2. /\ \A k \in DOMAIN Tail(wire[p]) : ~IsAck(Tail(wire[p])[k])
        /\ NoOps(q) /\ ~NoAcks(p) /\ inbound[q] # "lockOp"
        /\ inbound[q] = "chunks" => wire[q] = <<>>
    BY <1>0, <2>1, AckIsAlone DEF Awaits
  <2>3. NextIsOpen(p) /\ Handled(p) /\ Prefix(p)
    BY <2>1 DEF Flow, Awaits
  <2>4. s \in Sent /\ s.content \in Seq(Chunk) /\ s.next \in Nat /\ s.next + 1 \in Nat
        /\ Len(s.content) \in Nat
    BY <1>0, <2>1, LenProperties DEF Sendings, Sent
  <2>5. /\ sending'[p].op = s.op /\ sending'[p].op_id = s.op_id /\ sending'[p].content = s.content
        /\ sending'[p].next = s.next + 1
    BY <1>0, <1>5, <2>4 DEF OChunkAck, Sent
  <2>6. n \in Frame /\ OpFrame(n) /\ n.type # "SyncOp"
    <3>1. s.next + 1 \in Nat /\ s.next + 1 >= 1
      BY <2>4
    <3>2. NextFrame(s, s.content, s.next + 1) \in Frame
      BY <3>1, <2>4, NextFrameTyped
    <3>3. NextFrame(s, s.content, s.next + 1).type \in {"SyncChunk", "SyncComplete"}
      BY <3>1, <2>4, NextFrameIs
    <3> QED BY <3>2, <3>3 DEF OpFrame
  <2>7. Following(p)' = n
    BY <2>5 DEF Following, NextFrame
  <2> HIDE DEF n
  <2>8. wire'[p] = Tail(wire[p]) /\ wire'[q] \in {wire[q], wire[q] \o <<n>>}
    BY <1>0, <2>1, <2>6, FramesInSeq, Exchanges
  <2>9. NoAcks(p)'
    BY <2>2, <2>8 DEF NoAcks
  <2>10. HasChunks(s.op)
    <3>1. s.next <= Len(s.content) /\ s.next \in 1..(Len(s.content) + 1)
      BY <2>1, <2>3 DEF NextIsOpen
    <3>2. s.content # <<>>
      BY <3>1, <2>4
    <3> QED BY <3>2, <2>3 DEF NextIsOpen
  <2>11. \A k \in DOMAIN wire'[q] : OpFrame(wire'[q][k]) => wire'[q][k] = n /\ k = Len(wire'[q])
    <3>1. CASE wire'[q] = wire[q]
      BY <3>1, <2>2 DEF NoOps
    <3>2. CASE wire'[q] = wire[q] \o <<n>>
      <4>0. <<n>> \in Seq(Frame) /\ DOMAIN <<n>> = {1} /\ <<n>>[1] = n /\ Len(<<n>>) = 1
        BY <2>6, FramesInSeq
      <4>1. Len(wire[q]) \in Nat /\ \A k \in DOMAIN wire'[q] :
              /\ k \in Int
              /\ \/ k \in DOMAIN wire[q] /\ wire'[q][k] = wire[q][k]
                 \/ k - Len(wire[q]) \in DOMAIN <<n>> /\ wire'[q][k] = <<n>>[k - Len(wire[q])]
        BY <3>2, <4>0, <1>0, AfterAt
      <4>2. Len(wire'[q]) = Len(wire[q]) + 1
        BY <3>2, <4>0, <1>0, ConcatProperties
      <4> QED BY <4>0, <4>1, <4>2, <2>2 DEF NoOps
    <3> QED BY <2>8, <3>1, <3>2
  <2>12. FramesInOrder(p)'
    BY <2>5, <2>6, <2>7, <2>9, <2>10, <2>11 DEF FramesInOrder
  <2>13. NextIsOpen(p)'
    <3>1. s.next \in 1..(Len(s.content) + 1) /\ s.next <= Len(s.content)
      BY <2>1, <2>3 DEF NextIsOpen
    <3>2. s.next + 1 \in 1..(Len(s.content) + 1) /\ (s.next < Len(s.content) <=> s.next + 1 <= Len(s.content))
      BY <3>1, <2>4
    <3> QED BY <3>2, <2>1, <2>5, <2>10 DEF NextIsOpen
  <2>14. inbound[q] = "chunks" => wire'[q] \in {<<>>, <<n>>}
    <3>1. <<>> \o <<n>> = <<n>>
      BY <2>6, FramesInSeq, ConcatEmptySeq
    <3> QED BY <3>1, <2>2, <2>8
  <2>15. Handled(p)'
    <3> SUFFICES ASSUME Handling(q)' PROVE Handled(p)'
      BY DEF Handled
    <3>1. inbound[q] = "chunks" /\ Handling(q)
      BY <1>1, <2>2 DEF Handling
    <3>2. \A k \in DOMAIN wire'[q] : OpFrame(wire'[q][k])
      BY <3>1, <2>6, <2>14
    <3>3. payload[q] = SyncOp(s.op, s.op_id)
      BY <3>1, <2>3 DEF Handled
    <3> QED BY <3>1, <3>2, <3>3, <1>1, <2>5, <2>10 DEF Handled
  <2>16. Acked(p)'
    BY <2>9 DEF Acked, NoAcks
  <2>17. Prefix(p)'
    <3> SUFFICES ASSUME inbound'[q] = "chunks", ~failing'[q] PROVE Prefix(p)'
      BY DEF Prefix
    <3>1. inbound[q] = "chunks" /\ ~failing[q] /\ wire[q] = <<>>
      BY <1>1, <2>2
    <3>2. written[q] = SubSeq(s.content, 1, s.next)
      BY <3>1, <2>2, <2>3 DEF Prefix
    <3>3. (s.next + 1) - 1 = s.next
      BY <2>4
    <3>4. written'[q] = SubSeq(sending'[p].content, 1, sending'[p].next - 1)
      BY <3>2, <3>3, <1>1, <2>5
    <3>5. wire'[q] # <<>> \/ (wire'[q] = <<>> /\ NoAcks(p)')
      BY <2>9
    <3> QED BY <3>4, <3>5 DEF Prefix
  <2>18. Awaits(p)' /\ outbound'[p] \notin {"new", "recv", "lock"}
    BY <2>1 DEF Awaits
  <2> QED BY <2>12, <2>13, <2>15, <2>16, <2>17, <2>18 DEF Flow
<1>6. CASE OOpAck(p)
  <2>1. /\ outbound[p] = "opAck" /\ wire[p] # <<>> /\ IsAck(Head(wire[p]))
        /\ outbound'[p] = "recv" /\ wire' = Exchange(p, TRUE, <<>>)
    BY <1>0, <1>6 DEF OOpAck, Arrived, IsAck
  <2>2. /\ \A k \in DOMAIN Tail(wire[p]) : ~IsAck(Tail(wire[p])[k])
        /\ NoOps(q) /\ inbound[q] \notin {"lockOp", "chunks"}
    BY <1>0, <2>1, AckIsAlone DEF Awaits
  <2>3. wire'[p] = Tail(wire[p]) /\ wire'[q] \in {wire[q], wire[q] \o <<>>}
    BY <1>0, <2>1, FramesInSeq, Exchanges
  <2>4. wire'[q] = wire[q]
    BY <2>3, <1>0, ConcatEmptySeq
  <2>5. Quiet(p)'
    BY <2>2, <2>3, <2>4, <1>1 DEF Quiet, NoOps, NoAcks, Handling
  <2> QED BY <2>1, <2>5 DEF Flow, Awaits
<1>7. CASE OUnexpected(p) \/ OStreamFails(p) \/ OCannotRead(p) \/ OShutdown(p)
  <2>1. outbound'[p] = "ended"
    BY <1>0, <1>7 DEF OUnexpected, OStreamFails, OCannotRead, OShutdown, OutboundEnds
  <2> QED BY <2>1 DEF Flow, Awaits
<1> QED BY <1>2, <1>3, <1>4, <1>5, <1>6, <1>7 DEF OutboundRuns

-----------------------------------------------------------------------------
(* The inbound task of the receiver.                                        *)

(* What the tasks of the peer write that is no acknowledgement.             *)
LEMMA NoAckWritten ==
  ASSUME Wires, NEW p \in Peer, NEW fs \in Seq(Frame), wire'[p] \in {wire[p], wire[p] \o fs},
         \A k \in DOMAIN fs : ~IsAck(fs[k])
  PROVE  \A k \in DOMAIN wire'[p] :
           IsAck(wire'[p][k]) => k \in DOMAIN wire[p] /\ wire'[p][k] = wire[p][k]
<1>1. wire[p] \in Seq(Frame)
  BY DEF Wires
<1>2. CASE wire'[p] = wire[p]
  BY <1>2
<1>3. CASE wire'[p] = wire[p] \o fs
  BY <1>1, <1>3, AfterAt
<1> QED BY <1>2, <1>3

(* Nothing that the conversation is about has changed.                      *)
LEMMA FlowKept ==
  ASSUME NEW p \in Peer, Flow(p),
         UNCHANGED <<outbound, sending, inbound, payload, written, failing, wire>>
  PROVE  Flow(p)'
BY DEF Flow, Awaits, Quiet, NoOps, NoAcks, Handling, NextIsOpen, FramesInOrder, Following, Handled,
       Acked, Prefix

(* The frames a task of p exchanges, seen from both ends.                   *)
LEMMA Written ==
  ASSUME Wires, NEW p \in Peer, NEW q, q = Other(p), NEW read \in BOOLEAN, NEW fs \in Seq(Frame),
         read => wire[p] # <<>>, wire' = Exchange(p, read, fs)
  PROVE  /\ q \in Peer /\ q # p /\ p = Other(q)
         /\ wire'[p] = IF read THEN Tail(wire[p]) ELSE wire[p]
         /\ wire'[q] \in {wire[q], wire[q] \o fs}
         /\ fs = <<>> => wire'[q] = wire[q]
<1>1. wire[q] \in Seq(Frame)
  BY Peers DEF Wires
<1>2. wire[q] \o <<>> = wire[q]
  BY <1>1, ConcatEmptySeq
<1>3. q \in Peer /\ q # p /\ p = Other(q)
  BY Peers
<1>4. /\ wire'[p] = IF read THEN Tail(wire[p]) ELSE wire[p]
      /\ wire'[q] \in {wire[q], wire[q] \o fs}
  BY Exchanges
<1> QED BY <1>2, <1>3, <1>4

(* The peer handles the operation p is at.                                  *)
LEMMA HandledFromP ==
  ASSUME NEW p \in Peer, NEW q, q = Other(p), Flow(p), Handling(q), Places,
         outbound[p] # "ended"
  PROVE  /\ Awaits(p) /\ NextIsOpen(p) /\ FramesInOrder(p) /\ Handled(p) /\ Acked(p) /\ Prefix(p)
         /\ payload[q] = SyncOp(sending[p].op, sending[p].op_id)
         /\ payload[q].op = sending[p].op /\ payload[q].op_id = sending[p].op_id
         /\ inbound[q] = "lockOp" => NoAcks(p) /\ sending[p].next = 1
<1>1. Awaits(p)
  BY DEF Flow, Quiet, Places, Awaits
<1>2. NextIsOpen(p) /\ FramesInOrder(p) /\ Handled(p) /\ Acked(p) /\ Prefix(p)
  BY <1>1 DEF Flow
<1>3. /\ payload[q] = SyncOp(sending[p].op, sending[p].op_id)
      /\ inbound[q] = "lockOp" => NoAcks(p) /\ sending[p].next = 1
  BY <1>2 DEF Handled
<1>4. payload[q].op = sending[p].op /\ payload[q].op_id = sending[p].op_id
  BY <1>3 DEF SyncOp
<1> QED BY <1>1, <1>2, <1>3, <1>4

(* A chunk, or the end of the chunks, in front of what the peer reads.      *)
LEMMA ChunkFromP ==
  ASSUME Types, NEW p \in Peer, NEW q, q = Other(p), Flow(p), inbound[q] = "chunks",
         outbound[p] # "ended", wire[q] # <<>>, Head(wire[q]).type \in {"SyncChunk", "SyncComplete"}
  PROVE  LET s == sending[p] IN
         /\ NoAcks(p) /\ Tail(wire[q]) = <<>>
         /\ s.content \in Seq(Chunk) /\ Len(s.content) \in Nat
         /\ s.next \in 1..(Len(s.content) + 1) /\ HasChunks(s.op) /\ s.op_id \in Id
         /\ Head(wire[q]).type = "SyncChunk" =>
              /\ outbound[p] = "chunkAck" /\ s.next <= Len(s.content)
              /\ Head(wire[q]).data = s.content[s.next]
         /\ Head(wire[q]).type = "SyncComplete" =>
              outbound[p] = "opAck" /\ s.next = Len(s.content) + 1
         /\ failing[q] \/ written[q] = SubSeq(s.content, 1, s.next - 1)
<1> DEFINE s == sending[p]
           m == Head(wire[q])
<1>0. q \in Peer /\ wire[q] \in Seq(Frame) /\ Places
  BY Peers DEF Types, Wires
<1>1. Awaits(p) /\ NextIsOpen(p) /\ FramesInOrder(p) /\ Handled(p) /\ Prefix(p)
  BY <1>0, HandledFromP DEF Handling
<1>2. s \in Sent
  BY <1>1 DEF Types, Sendings, Awaits
<1>3. s.content \in Seq(Chunk) /\ Len(s.content) \in Nat /\ s.op_id \in Id
  BY <1>2, LenProperties DEF Sent
<1>4. /\ 1 \in DOMAIN wire[q] /\ m = wire[q][1] /\ OpFrame(wire[q][1])
      /\ Tail(wire[q]) \in Seq(Frame) /\ Len(Tail(wire[q])) = Len(wire[q]) - 1
  BY <1>0, TailAt, HeadTailProperties DEF OpFrame
<1>5. NoAcks(p) /\ m = Following(p) /\ HasChunks(s.op) /\ 1 = Len(wire[q])
  BY <1>1, <1>4 DEF FramesInOrder
<1>6. Tail(wire[q]) = <<>>
  <2>1. Len(Tail(wire[q])) = 0
    BY <1>4, <1>5
  <2> QED BY <2>1, <1>4, EmptySeq
<1>7. s.next \in 1..(Len(s.content) + 1) /\ (outbound[p] = "chunkAck" <=> s.next <= Len(s.content))
  BY <1>1 DEF NextIsOpen
<1>8. s.next \in Nat
  BY <1>3, <1>7
<1>9. /\ m.type = "SyncChunk" <=> s.next <= Len(s.content)
      /\ s.next <= Len(s.content) => m.data = s.content[s.next]
  <2>1. LET n == NextFrame(s, s.content, s.next)
        IN /\ n.type = "SyncChunk" <=> s.next <= Len(s.content)
           /\ s.next <= Len(s.content) => n.data = s.content[s.next]
    BY <1>3, <1>8, NextFrameIs
  <2> QED BY <2>1, <1>5 DEF Following
<1>10. failing[q] \/ written[q] = SubSeq(s.content, 1, s.next - 1)
  BY <1>1 DEF Prefix
<1>11. m.type = "SyncChunk" => outbound[p] = "chunkAck" /\ s.next <= Len(s.content)
                                 /\ m.data = s.content[s.next]
  BY <1>7, <1>9
<1>12. m.type = "SyncComplete" => outbound[p] = "opAck" /\ s.next = Len(s.content) + 1
  <2>1. "SyncComplete" # "SyncChunk"
    OBVIOUS
  <2>2. m.type = "SyncComplete" => ~(s.next <= Len(s.content))
    BY <2>1, <1>9
  <2>3. m.type = "SyncComplete" => s.next = Len(s.content) + 1
    BY <2>2, <1>7, <1>3
  <2>4. outbound[p] # "chunkAck" => outbound[p] = "opAck"
    BY <1>1 DEF Awaits
  <2> QED BY <2>2, <2>3, <2>4, <1>7
<1> QED BY <1>3, <1>5, <1>6, <1>7, <1>10, <1>11, <1>12

(* Longer and longer prefixes.                                              *)
LEMMA Prefixes ==
  ASSUME NEW S, NEW c \in Seq(S)
  PROVE  /\ SubSeq(c, 1, 0) = <<>> /\ SubSeq(c, 1, Len(c)) = c
         /\ \A n \in 1..Len(c) : SubSeq(c, 1, n) = Append(SubSeq(c, 1, n - 1), c[n])
<1>0. Len(c) \in Nat /\ DOMAIN c = 1..Len(c) /\ \A k \in 1..Len(c) : c[k] \in S
  BY LenProperties, ElementOfSeq
<1>1. ASSUME NEW n \in 0..Len(c)
      PROVE  /\ SubSeq(c, 1, n) \in Seq(S) /\ Len(SubSeq(c, 1, n)) = n
             /\ \A k \in 1..n : SubSeq(c, 1, n)[k] = c[k]
  <2> DEFINE u == SubSeq(c, 1, n)
  <2>1. 1 \in Int /\ n \in Int /\ \A k \in 1..n : c[k] \in S
    BY <1>0, <1>1
  <2>2. /\ u \in Seq(S)
        /\ Len(u) = IF 1 <= n THEN n - 1 + 1 ELSE 0
        /\ \A k \in 1..(n - 1 + 1) : u[k] = c[1 + k - 1]
    BY <2>1, SubSeqProperties
  <2> HIDE DEF u
  <2> QED BY <2>1, <2>2
<1>2. SubSeq(c, 1, 0) = <<>>
  <2>1. 0 \in 0..Len(c)
    BY <1>0
  <2> QED BY <2>1, <1>1, EmptySeq
<1>3. SubSeq(c, 1, Len(c)) = c
  <2>1. Len(c) \in 0..Len(c)
    BY <1>0
  <2>2. /\ SubSeq(c, 1, Len(c)) \in Seq(S) /\ Len(SubSeq(c, 1, Len(c))) = Len(c)
        /\ \A k \in 1..Len(c) : SubSeq(c, 1, Len(c))[k] = c[k]
    BY <2>1, <1>1
  <2> QED BY <2>2, SeqEqual
<1>4. ASSUME NEW n \in 1..Len(c)
      PROVE  SubSeq(c, 1, n) = Append(SubSeq(c, 1, n - 1), c[n])
  <2> DEFINE u == SubSeq(c, 1, n)
             v == SubSeq(c, 1, n - 1)
             a == Append(v, c[n])
  <2>1. n \in 0..Len(c) /\ n - 1 \in 0..Len(c)
    BY <1>0, <1>4
  <2>2. u \in Seq(S) /\ Len(u) = n /\ \A k \in 1..n : u[k] = c[k]
    BY <2>1, <1>1
  <2>3. v \in Seq(S) /\ Len(v) = n - 1 /\ \A k \in 1..(n - 1) : v[k] = c[k]
    BY <2>1, <1>1
  <2> HIDE DEF u, v
  <2>4. c[n] \in S
    BY <1>0
  <2>5. /\ a \in Seq(S) /\ Len(a) = (n - 1) + 1
        /\ \A k \in 1..(n - 1) : a[k] = v[k]
        /\ a[(n - 1) + 1] = c[n]
    <3>1. /\ Append(v, c[n]) \in Seq(S) /\ Len(Append(v, c[n])) = Len(v) + 1
          /\ \A k \in 1..Len(v) : Append(v, c[n])[k] = v[k]
          /\ Append(v, c[n])[Len(v) + 1] = c[n]
      BY <2>3, <2>4, AppendProperties
    <3> HIDE DEF a
    <3>2. a \in Seq(S) /\ Len(a) = Len(v) + 1 /\ a[Len(v) + 1] = c[n]
      BY <3>1 DEF a
    <3>3. \A k \in 1..Len(v) : a[k] = v[k]
      BY <3>1 DEF a
    <3> QED BY <3>2, <3>3, <2>3
  <2> HIDE DEF a
  <2>6. Len(a) = n /\ \A k \in 1..n : a[k] = u[k]
    <3>1. n \in Nat /\ n >= 1 /\ (n - 1) + 1 = n
      BY <1>0
    <3>2. \A k \in 1..n : k \in 1..(n - 1) \/ k = n
      BY <3>1
    <3> QED BY <3>1, <3>2, <2>2, <2>3, <2>5
  <2>7. u = a
    BY <2>2, <2>5, <2>6, SeqEqual
  <2> QED BY <2>7 DEF u, a, v
<1> QED BY <1>2, <1>3, <1>4

(* The inbound task of the peer, seen from p's operation.                   *)
LEMMA PeerReads ==
  ASSUME Types, NEW p \in Peer, NEW q, q = Other(p), Flow(p), IRead(q)
  PROVE  Flow(p)'
<1>0. /\ q \in Peer /\ q # p /\ p = Other(q) /\ wire[q] \in Seq(Frame) /\ wire[q] # <<>> /\ Wires /\ Places
      /\ wire'[q] = Tail(wire[q]) /\ wire'[p] = wire[p]
  <2>1. wire[q] # <<>> /\ wire' = Exchange(q, TRUE, <<>>)
    BY DEF IRead
  <2>2. q \in Peer /\ q # p /\ p = Other(q) /\ Wires /\ Places
    BY Peers DEF Types
  <2>3. wire'[q] = Tail(wire[q]) /\ wire'[p] = wire[p]
    BY <2>1, <2>2, FramesInSeq, Written
  <2> QED BY <2>1, <2>2, <2>3 DEF Wires
<1>1. /\ outbound' = outbound /\ sending' = sending /\ written' = written /\ failing' = failing
      /\ inbound[q] = "lockRead" /\ inbound'[q] = Handler(Head(wire[q]).type)
      /\ Head(wire[q]).type = "SyncOp" => payload'[q] = Head(wire[q])
  BY <1>0 DEF IRead, outboundVars, Types, Payloads, Places
<1>2. CASE Head(wire[q]).type # "SyncOp"
  <2>1. ~Handling(q)' /\ inbound'[q] # "chunks"
    BY <1>1, <1>2 DEF Handler, Handling
  <2> QED BY <1>0, <1>1, <2>1, PeerAside
<1>3. CASE Head(wire[q]).type = "SyncOp" /\ outbound[p] = "ended"
  BY <1>1, <1>3 DEF Flow, Awaits
<1>4. CASE Head(wire[q]).type = "SyncOp" /\ outbound[p] # "ended"
  <2> DEFINE w == wire[q]
             s == sending[p]
  <2>1. /\ 1 \in DOMAIN w /\ Head(w) = w[1] /\ Len(w) \in Nat /\ Len(Tail(w)) = Len(w) - 1
        /\ \A k \in DOMAIN Tail(w) : k \in Nat /\ k + 1 # 1 /\ k + 1 \in DOMAIN w /\ Tail(w)[k] = w[k + 1]
        /\ DOMAIN w = 1..Len(w)
    BY <1>0, TailAt
  <2>2. OpFrame(w[1]) /\ w[1].type = "SyncOp"
    BY <2>1, <1>4 DEF OpFrame
  <2>3. Awaits(p)
    BY <2>1, <2>2, <1>0, <1>4 DEF Flow, Quiet, NoOps, Places, Awaits
  <2>4. NextIsOpen(p) /\ FramesInOrder(p)
    BY <2>3 DEF Flow
  <2>5. /\ NoAcks(p) /\ w[1] = SyncOp(s.op, s.op_id) /\ s.next = 1
        /\ \A j \in DOMAIN w : j > 1 => OpFrame(w[j]) /\ w[j].type # "SyncOp"
    BY <2>1, <2>2, <2>4 DEF FramesInOrder
  <2>6. inbound'[q] = "lockOp" /\ payload'[q] = SyncOp(s.op, s.op_id) /\ NoAcks(p)'
    BY <1>0, <1>1, <1>4, <2>1, <2>5 DEF Handler, NoAcks
  <2>7. ASSUME NEW k \in DOMAIN Tail(w)
        PROVE  OpFrame(w[k + 1]) /\ w[k + 1].type # "SyncOp" /\ w[k + 1] = Following(p)
               /\ HasChunks(s.op) /\ k = Len(Tail(w))
    <3>1. k + 1 \in DOMAIN w /\ k + 1 > 1
      BY <2>1
    <3>2. OpFrame(w[k + 1]) /\ w[k + 1].type # "SyncOp"
      BY <3>1, <2>5
    <3>3. w[k + 1] = Following(p) /\ HasChunks(s.op) /\ k + 1 = Len(w)
      BY <3>1, <3>2, <2>4 DEF FramesInOrder
    <3>4. k = Len(Tail(w))
      BY <3>3, <2>1
    <3> QED BY <3>2, <3>3, <3>4
  <2>8. \A k \in DOMAIN wire'[q] :
          /\ OpFrame(wire'[q][k]) /\ wire'[q][k].type # "SyncOp" /\ wire'[q][k] = Following(p)
          /\ HasChunks(s.op) /\ k = Len(wire'[q])
    BY <2>1, <2>7, <1>0
  <2>9. Following(p)' = Following(p)
    BY <1>1 DEF Following
  <2> HIDE DEF w
  <2>10. FramesInOrder(p)'
    BY <2>6, <2>8, <2>9, <1>1 DEF FramesInOrder
  <2>11. NextIsOpen(p)'
    BY <2>4, <1>1 DEF NextIsOpen
  <2>12. Handled(p)'
    BY <2>5, <2>6, <2>8, <1>1 DEF Handled
  <2>13. Acked(p)' /\ Prefix(p)'
    BY <2>6 DEF Acked, NoAcks, Prefix
  <2>14. Awaits(p)' /\ outbound'[p] \notin {"new", "recv", "lock"}
    BY <2>3, <1>1 DEF Awaits
  <2> QED BY <2>10, <2>11, <2>12, <2>13, <2>14 DEF Flow
<1> QED BY <1>2, <1>3, <1>4

(* The peer deletes, creates an empty file, or makes ready for chunks.      *)
LEMMA PeerHandles ==
  ASSUME Types, NEW p \in Peer, NEW q, q = Other(p), Flow(p),
         IDelete(q) \/ ICreateEmpty(q) \/ ICreate(q)
  PROVE  Flow(p)'
<1> DEFINE s == sending[p]
<1>0. q \in Peer /\ q # p /\ p = Other(q) /\ Wires /\ Places /\ wire[q] \in Seq(Frame)
  BY Peers DEF Types, Wires
<1>1. /\ outbound' = outbound /\ sending' = sending /\ inbound[q] = "lockOp" /\ Handling(q)
      /\ payload' = payload
  BY DEF IDelete, ICreateEmpty, ICreate, Applied, HandlesOp, outboundVars, Handling
<1>2. CASE outbound[p] = "ended"
  BY <1>1, <1>2 DEF Flow, Awaits
<1>3. CASE outbound[p] # "ended"
  <2>1. /\ Awaits(p) /\ NextIsOpen(p) /\ FramesInOrder(p) /\ Handled(p) /\ NoAcks(p) /\ s.next = 1
        /\ payload[q].op = s.op /\ payload[q].op_id = s.op_id
        /\ payload[q] = SyncOp(s.op, s.op_id)
    BY <1>0, <1>1, <1>3, HandledFromP
  <2>2. s \in Sent
    BY <2>1 DEF Types, Sendings, Awaits
  <2>3. s.content \in Seq(Chunk) /\ s.op_id \in Id
    BY <2>2 DEF Sent
  <2>4. CASE IDelete(q) \/ ICreateEmpty(q)
    <3>1. ~HasChunks(s.op) /\ wire' = Exchange(q, FALSE, <<AckOf(q)>>) /\ inbound'[q] = "lockRead"
      BY <2>1, <2>4, <1>0 DEF IDelete, ICreateEmpty, HasChunks, Applied, Places
    <3>2. AckOf(q) \in Frame /\ AckOf(q).type = "SyncOpAck" /\ AckOf(q).op_id = s.op_id
      BY <2>1, <2>3, Frames DEF AckOf, SyncOpAck
    <3> DEFINE ack == AckOf(q)
    <3>3. <<ack>> \in Seq(Frame)
      BY <3>2, FramesInSeq
    <3> HIDE DEF ack
    <3>4. wire'[q] = wire[q] /\ wire'[p] \in {wire[p], wire[p] \o <<ack>>}
      <4>1. wire' = Exchange(q, FALSE, <<ack>>)
        BY <3>1 DEF ack
      <4> QED BY <4>1, <3>3, <1>0, Written
    <3>5. NoOps(q)
      BY <2>1, <3>1, <1>1 DEF FramesInOrder, NoOps
    <3>6. NoOps(q)'
      BY <3>4, <3>5 DEF NoOps
    <3>7. outbound[p] = "opAck"
      <4>1. s.content = <<>>
        BY <2>1, <3>1 DEF NextIsOpen
      <4>2. Len(s.content) = 0
        BY <4>1, EmptySeq
      <4>3. ~(s.next <= Len(s.content))
        BY <4>2, <2>1
      <4>4. outbound[p] # "chunkAck"
        BY <4>3, <2>1 DEF NextIsOpen
      <4> QED BY <4>4, <2>1 DEF Awaits
    <3>8. ack \in Frame /\ ack.type = "SyncOpAck" /\ ack.op_id = s.op_id
      BY <3>2 DEF ack
    <3>9. outbound'[p] = outbound[p] /\ sending'[p] = sending[p]
      BY <1>1
    <3> QED BY <1>0, <2>1, <3>1, <3>4, <3>6, <3>7, <3>8, <3>9, PeerAnswers
  <2>5. CASE ICreate(q)
    <3>1. /\ HasChunks(s.op) /\ wire' = wire /\ inbound'[q] = "chunks" /\ written'[q] = <<>>
          /\ payload' = payload
      BY <2>1, <2>5, <1>0 DEF ICreate, Types, Payloads, Places
    <3>2. FramesInOrder(p)'
      <4>1. Following(p)' = Following(p) /\ NoAcks(p)'
        BY <2>1, <3>1, <1>1 DEF Following, NoAcks
      <4>2. \A k \in DOMAIN wire[q] : OpFrame(wire[q][k]) => wire[q][k].type # "SyncOp"
        BY <2>1, <1>1 DEF FramesInOrder
      <4> QED BY <2>1, <3>1, <4>1, <4>2, <1>1 DEF FramesInOrder
    <3>3. NextIsOpen(p)'
      BY <2>1, <1>1 DEF NextIsOpen
    <3>4. Handled(p)'
      BY <2>1, <3>1, <1>1 DEF Handled
    <3>5. NoAcks(p)' /\ Acked(p)'
      BY <2>1, <3>1, <1>1 DEF Acked, NoAcks
    <3>6. SubSeq(s.content, 1, 0) = <<>> /\ s.next - 1 = 0
      BY <2>1, <2>3, Prefixes
    <3>7. Prefix(p)'
      BY <3>1, <3>5, <3>6, <1>1 DEF Prefix
    <3>8. Awaits(p)' /\ outbound'[p] \notin {"new", "recv", "lock"}
      BY <2>1, <1>1 DEF Awaits
    <3> QED BY <3>2, <3>3, <3>4, <3>5, <3>7, <3>8 DEF Flow
  <2> QED BY <2>4, <2>5
<1> QED BY <1>2, <1>3

(* The peer takes a chunk, refuses it, or finishes the file.                *)
LEMMA PeerTakesChunk ==
  ASSUME Types, NEW p \in Peer, NEW q, q = Other(p), Flow(p),
         IChunk(q) \/ IChunkDamaged(q) \/ IComplete(q)
  PROVE  Flow(p)'
<1> DEFINE s == sending[p]
<1>0. q \in Peer /\ q # p /\ p = Other(q) /\ Wires /\ Places
  BY Peers DEF Types
<1>1. /\ outbound' = outbound /\ sending' = sending /\ inbound[q] = "chunks" /\ Handling(q)
      /\ payload' = payload /\ wire[q] # <<>>
      /\ Head(wire[q]).type = IF IComplete(q) THEN "SyncComplete" ELSE "SyncChunk"
  <2>1. outbound' = outbound /\ sending' = sending /\ inbound[q] = "chunks" /\ payload' = payload
    BY DEF IChunk, IChunkDamaged, IComplete, Applied, outboundVars
  <2>2. CASE IComplete(q)
    BY <2>1, <2>2 DEF IComplete, Arrived, Handling
  <2>3. CASE ~IComplete(q)
    BY <2>1, <2>3 DEF IChunk, IChunkDamaged, ChunkIsForOp, Arrived, Handling
  <2> QED BY <2>2, <2>3
<1>2. CASE outbound[p] = "ended"
  BY <1>1, <1>2 DEF Flow, Awaits
<1>3. CASE outbound[p] # "ended"
  <2>1. /\ Awaits(p) /\ payload[q].op_id = s.op_id /\ payload[q] = SyncOp(s.op, s.op_id)
    BY <1>0, <1>1, <1>3, HandledFromP
  <2>2. /\ NoAcks(p) /\ Tail(wire[q]) = <<>>
        /\ s.content \in Seq(Chunk) /\ Len(s.content) \in Nat
        /\ s.next \in 1..(Len(s.content) + 1) /\ HasChunks(s.op) /\ s.op_id \in Id
        /\ Head(wire[q]).type = "SyncChunk" =>
             /\ outbound[p] = "chunkAck" /\ s.next <= Len(s.content)
             /\ Head(wire[q]).data = s.content[s.next]
        /\ Head(wire[q]).type = "SyncComplete" =>
             outbound[p] = "opAck" /\ s.next = Len(s.content) + 1
        /\ failing[q] \/ written[q] = SubSeq(s.content, 1, s.next - 1)
    BY <1>1, <1>3, ChunkFromP
  <2>3. NoOps(q)' /\ wire'[q] = <<>> /\
        \A f \in Frame : wire' = Exchange(q, TRUE, <<f>>) =>
          wire'[p] \in {wire[p], wire[p] \o <<f>>}
    <3>1. \E f \in Frame : wire' = Exchange(q, TRUE, <<f>>)
      <4>1. /\ SyncChunkAck(payload[q].op_id, TRUE) \in Frame
            /\ SyncChunkAck(payload[q].op_id, FALSE) \in Frame /\ AckOf(q) \in Frame
        BY <2>1, <2>2, Frames DEF AckOf
      <4> QED BY <4>1 DEF IChunk, IChunkDamaged, IComplete, Applied
    <3>2. \A f \in Frame : wire' = Exchange(q, TRUE, <<f>>) =>
            wire'[q] = Tail(wire[q]) /\ wire'[p] \in {wire[p], wire[p] \o <<f>>}
      <4> SUFFICES ASSUME NEW f \in Frame, wire' = Exchange(q, TRUE, <<f>>)
                   PROVE  wire'[q] = Tail(wire[q]) /\ wire'[p] \in {wire[p], wire[p] \o <<f>>}
        OBVIOUS
      <4>1. <<f>> \in Seq(Frame)
        BY FramesInSeq
      <4> QED BY <4>1, <1>0, <1>1, Written
    <3>3. wire'[q] = <<>>
      BY <3>1, <3>2, <2>2
    <3>4. DOMAIN wire'[q] = {}
      BY <3>3
    <3> QED BY <3>2, <3>3, <3>4 DEF NoOps
  <2>4. outbound'[p] = outbound[p] /\ sending'[p] = sending[p]
    BY <1>1
  <2>5. CASE IChunk(q)
    <3> DEFINE ack == SyncChunkAck(payload[q].op_id, TRUE)
    <3>1. ack \in Frame /\ ack.type = "SyncChunkAck" /\ ack.op_id = s.op_id
      BY <2>1, <2>2, Frames DEF SyncChunkAck
    <3> HIDE DEF ack
    <3>2. wire'[p] \in {wire[p], wire[p] \o <<ack>>}
      BY <2>3, <2>5, <3>1 DEF IChunk, ack
    <3>3. Head(wire[q]).type = "SyncChunk" /\ ~failing[q]
      BY <2>5 DEF IChunk, ChunkIsForOp, Arrived
    <3>4. s.next \in 1..Len(s.content)
      BY <2>2, <3>3
    <3>5. /\ outbound[p] = "chunkAck" /\ Head(wire[q]).data = s.content[s.next]
          /\ written[q] = SubSeq(s.content, 1, s.next - 1)
      BY <2>2, <3>3
    <3>6. Append(written[q], Head(wire[q]).data) = SubSeq(s.content, 1, s.next)
      BY <2>2, <3>4, <3>5, Prefixes
    <3>7. failing'[q] \/ written'[q] = SubSeq(s.content, 1, s.next)
      <4>1. \/ written' = [written EXCEPT ![q] = Append(written[q], Head(wire[q]).data)]
            \/ failing' = [failing EXCEPT ![q] = TRUE]
        BY <2>5 DEF IChunk
      <4>2. written = [r \in Peer |-> written[r]] /\ failing = [r \in Peer |-> failing[r]]
        BY DEF Types, Payloads, Counts
      <4> QED BY <4>1, <4>2, <3>6, <1>0
    <3>8. inbound'[q] = "chunks" /\ payload'[q] = SyncOp(s.op, s.op_id)
      BY <2>1, <2>5, <1>1 DEF IChunk
    <3> QED BY <1>0, <2>1, <2>2, <2>3, <2>4, <3>1, <3>2, <3>5, <3>7, <3>8, PeerAnswers
  <2>6. CASE IChunkDamaged(q)
    <3> DEFINE ack == SyncChunkAck(payload[q].op_id, FALSE)
    <3>1. ack \in Frame /\ ack.type = "SyncChunkAck" /\ ack.op_id = s.op_id
      BY <2>1, <2>2, Frames DEF SyncChunkAck
    <3> HIDE DEF ack
    <3>2. wire'[p] \in {wire[p], wire[p] \o <<ack>>}
      BY <2>3, <2>6, <3>1 DEF IChunkDamaged, Applied, ack
    <3>3. Head(wire[q]).type = "SyncChunk"
      BY <2>6 DEF IChunkDamaged, ChunkIsForOp, Arrived
    <3>4. outbound[p] = "chunkAck"
      BY <2>2, <3>3
    <3>5. inbound'[q] = "lockRead"
      BY <2>6, <1>0 DEF IChunkDamaged, Applied, Places
    <3> QED BY <1>0, <2>1, <2>2, <2>3, <2>4, <3>1, <3>2, <3>4, <3>5, PeerAnswers
  <2>7. CASE IComplete(q)
    <3> DEFINE ack == AckOf(q)
    <3>1. ack \in Frame /\ ack.type = "SyncOpAck" /\ ack.op_id = s.op_id
      BY <2>1, <2>2, Frames DEF SyncOpAck, AckOf
    <3> HIDE DEF ack
    <3>2. wire'[p] \in {wire[p], wire[p] \o <<ack>>}
      BY <2>3, <2>7, <3>1 DEF IComplete, Applied, ack
    <3>3. Head(wire[q]).type = "SyncComplete" /\ ~failing[q]
      BY <2>7 DEF IComplete, Arrived, Finalized
    <3>4. outbound[p] = "opAck" /\ s.next - 1 = Len(s.content)
      BY <2>2, <3>3
    <3>5. written[q] = s.content
      BY <2>2, <3>3, <3>4, Prefixes
    <3>6. inbound'[q] = "lockRead" /\ written' = written
      BY <2>7, <1>0 DEF IComplete, Applied, Places
    <3> QED BY <1>0, <2>1, <2>2, <2>3, <2>4, <3>1, <3>2, <3>4, <3>5, <3>6, PeerAnswers
  <2> QED BY <2>5, <2>6, <2>7
<1> QED BY <1>2, <1>3

(* The other steps of the peer's inbound task.                              *)
LEMMA PeerInboundFlow ==
  ASSUME Types, Lines, NEW p \in Peer, NEW q, q = Other(p), Flow(p), InboundRuns(q)
  PROVE  Flow(p)'
<1>0. q \in Peer /\ q # p /\ p = Other(q) /\ Wires /\ Places
  BY Peers DEF Types
<1>1. CASE \/ IRead(q) \/ IDelete(q) \/ ICreateEmpty(q) \/ ICreate(q)
           \/ IChunk(q) \/ IChunkDamaged(q) \/ IComplete(q)
  BY <1>1, PeerReads, PeerHandles, PeerTakesChunk
<1>2. CASE ILoop(q) \/ IPong(q) \/ ICannotCreate(q) \/ IChunksFail(q) \/ IChunkReadFails(q) \/ IEnd(q)
  <2>1. /\ outbound' = outbound /\ sending' = sending /\ written' = written /\ failing' = failing
        /\ inbound'[q] \in {"lockRead", "ended"}
    BY <1>0, <1>2 DEF ILoop, IPong, ICannotCreate, IChunksFail, IChunkReadFails, IEnd, Applied,
                     outboundVars, Places
  <2>2. ~Handling(q)' /\ inbound'[q] # "chunks"
    BY <2>1 DEF Handling
  <2>3. \E read \in BOOLEAN, fs \in {<<>>, <<Pong>>} :
          (read => wire[q] # <<>>) /\ (wire' = Exchange(q, read, fs) \/ wire' = wire)
    BY <1>2 DEF ILoop, IPong, ICannotCreate, IChunksFail, IChunkReadFails, IEnd, Applied
  <2>4. PICK read \in BOOLEAN, fs \in {<<>>, <<Pong>>} :
          (read => wire[q] # <<>>) /\ (wire' = Exchange(q, read, fs) \/ wire' = wire)
    BY <2>3
  <2>5. fs \in Seq(Frame) /\ \A k \in DOMAIN fs : ~IsAck(fs[k])
    <3>1. CASE fs = <<>>
      BY <3>1, FramesInSeq
    <3>2. CASE fs = <<Pong>>
      <4>1. Pong \in Frame /\ ~IsAck(Pong)
        BY Frames DEF Pong, IsAck
      <4>2. DOMAIN <<Pong>> = {1} /\ <<Pong>>[1] = Pong
        OBVIOUS
      <4> QED BY <3>2, <4>1, <4>2, FramesInSeq
    <3> QED BY <3>1, <3>2
  <2>6. /\ wire'[q] = wire[q] \/ (wire[q] # <<>> /\ wire'[q] = Tail(wire[q]))
        /\ wire'[p] \in {wire[p], wire[p] \o fs}
    <3>1. CASE wire' = wire
      BY <3>1
    <3>2. CASE wire' = Exchange(q, read, fs)
      BY <3>2, <2>4, <2>5, <1>0, Written
    <3> QED BY <2>4, <3>1, <3>2
  <2>7. \A k \in DOMAIN wire'[p] :
          IsAck(wire'[p][k]) => k \in DOMAIN wire[p] /\ wire'[p][k] = wire[p][k]
    BY <1>0, <2>5, <2>6, NoAckWritten
  <2> QED BY <1>0, <2>1, <2>2, <2>6, <2>7, PeerAside
<1> QED BY <1>1, <1>2 DEF InboundRuns

-----------------------------------------------------------------------------
(* Everything else.                                                         *)

(* The other tasks of the peer.                                             *)
LEMMA PeerOutboundFlow ==
  ASSUME Types, Lines, NEW p \in Peer, NEW q, q = Other(p), Flow(p),
         OutboundRuns(q) \/ KeepaliveRuns(q)
  PROVE  Flow(p)'
<1>0. q \in Peer /\ q # p /\ p = Other(q) /\ Wires /\ Places
  BY Peers DEF Types
<1>1. UNCHANGED <<inbound, payload, written, failing>>
  BY DEF OutboundRuns, ORecv, OSend, OSendFile, OChunkAck, OOpAck, OUnexpected, OStreamFails,
         OCannotRead, OShutdown, OutboundEnds, KeepaliveRuns, KTick, KPing, KEnd, inboundVars
<1>2. outbound'[p] = outbound[p] /\ sending'[p] = sending[p]
  <2>1. CASE KeepaliveRuns(q)
    BY <2>1 DEF KeepaliveRuns, KTick, KPing, KEnd, outboundVars
  <2>2. CASE OutboundRuns(q)
    <3>1. \/ outbound' = [outbound EXCEPT ![q] = "lock"]
          \/ outbound' = [outbound EXCEPT ![q] = "chunkAck"]
          \/ outbound' = [outbound EXCEPT ![q] = "opAck"]
          \/ outbound' = [outbound EXCEPT ![q] = "recv"]
          \/ outbound' = [outbound EXCEPT ![q] = "ended"]
          \/ outbound' = [outbound EXCEPT ![q] = @]
      BY <2>2 DEF OutboundRuns, ORecv, OSend, OSendFile, OChunkAck, OOpAck, OUnexpected,
                  OStreamFails, OCannotRead, OShutdown, OutboundEnds
    <3>2. sending' = sending \/ \E s : sending' = [sending EXCEPT ![q] = s]
      <4>1. CASE ORecv(q)
        BY <4>1 DEF ORecv
      <4>2. CASE OSend(q)
        BY <4>2 DEF OSend
      <4>3. CASE OSendFile(q)
        BY <4>3 DEF OSendFile
      <4>4. CASE OChunkAck(q)
        BY <4>4 DEF OChunkAck
      <4>5. CASE OOpAck(q)
        BY <4>5 DEF OOpAck
      <4>6. CASE OUnexpected(q) \/ OStreamFails(q) \/ OCannotRead(q) \/ OShutdown(q)
        BY <4>6 DEF OUnexpected, OStreamFails, OCannotRead, OShutdown, OutboundEnds
      <4> QED BY <2>2, <4>1, <4>2, <4>3, <4>4, <4>5, <4>6 DEF OutboundRuns
    <3>3. sending = [r \in Peer |-> sending[r]] /\ outbound = [r \in Peer |-> outbound[r]]
      BY DEF Types, Sendings, Places
    <3> QED BY <3>1, <3>2, <3>3, <1>0
  <2> QED BY <2>1, <2>2
<1>3. \E read \in BOOLEAN, fs \in Seq(Frame) :
        /\ read => wire[q] # <<>> /\ inbound[q] # "chunks"
        /\ wire' = Exchange(q, read, fs) \/ wire' = wire
        /\ \A k \in DOMAIN fs : ~IsAck(fs[k])
  <2>1. <<>> \in Seq(Frame) /\ \A k \in DOMAIN <<>> : ~IsAck(<<>>[k])
    BY FramesInSeq
  <2>2. ASSUME NEW m \in Frame, ~IsAck(m)
        PROVE  <<m>> \in Seq(Frame) /\ \A k \in DOMAIN <<m>> : ~IsAck(<<m>>[k])
    <3>1. DOMAIN <<m>> = {1} /\ <<m>>[1] = m
      OBVIOUS
    <3> QED BY <3>1, <2>2, FramesInSeq
  <2>3. ASSUME NEW m \in Frame, ~IsAck(m), NEW n \in Frame, ~IsAck(n)
        PROVE  <<m, n>> \in Seq(Frame) /\ \A k \in DOMAIN <<m, n>> : ~IsAck(<<m, n>>[k])
    <3>1. DOMAIN <<m, n>> = {1, 2} /\ <<m, n>>[1] = m /\ <<m, n>>[2] = n
      OBVIOUS
    <3> QED BY <3>1, <2>3, FramesInSeq
  <2>4. outbound[q] \in {"lock", "chunkAck", "opAck"} => sending[q] \in Sent
    BY <1>0 DEF Types, Sendings
  <2>5. outbound[q] \in {"lock", "chunkAck", "opAck"} =>
          /\ SyncOp(sending[q].op, sending[q].op_id) \in Frame
          /\ ~IsAck(SyncOp(sending[q].op, sending[q].op_id))
    BY <2>4, Frames DEF Sent, SyncOp, IsAck
  <2>6. ASSUME outbound[q] \in {"lock", "chunkAck", "opAck"}, NEW c \in Seq(Chunk), NEW n \in Nat, n >= 1
        PROVE  NextFrame(sending[q], c, n) \in Frame /\ ~IsAck(NextFrame(sending[q], c, n))
    <3>1. NextFrame(sending[q], c, n) \in Frame
      BY <2>4, <2>6, NextFrameTyped
    <3>2. NextFrame(sending[q], c, n).type \in {"SyncChunk", "SyncComplete"}
      BY NextFrameIs
    <3> QED BY <3>1, <3>2 DEF IsAck
  <2>7. Awaits(q) => inbound[q] # "chunks"
    BY <1>0, Holding
  <2>8. CASE ORecv(q) \/ OStreamFails(q) \/ OShutdown(q) \/ KTick(q) \/ KEnd(q)
    <3>1. wire' = wire
      BY <2>8 DEF ORecv, OStreamFails, OShutdown, KTick, KEnd
    <3> QED BY <3>1, <2>1
  <2>9. CASE OSend(q) \/ OCannotRead(q)
    <3>1. wire' = Exchange(q, FALSE, <<SyncOp(sending[q].op, sending[q].op_id)>>)
          /\ outbound[q] = "lock"
      BY <2>9 DEF OSend, OCannotRead
    <3> QED BY <3>1, <2>2, <2>5
  <2>10. CASE OSendFile(q)
    <3> DEFINE c == disk[q][sending[q].op.path].content
    <3>1. wire' = Exchange(q, FALSE, <<SyncOp(sending[q].op, sending[q].op_id), NextFrame(sending[q], c, 1)>>)
          /\ outbound[q] = "lock"
      BY <2>10 DEF OSendFile
    <3>2. c \in Seq(Chunk)
      BY <1>0, <3>1, <2>4, Operations, Nodes DEF Sent, Types, Trees
    <3> HIDE DEF c
    <3>3. 1 \in Nat /\ 1 >= 1
      OBVIOUS
    <3>4. NextFrame(sending[q], c, 1) \in Frame /\ ~IsAck(NextFrame(sending[q], c, 1))
      BY <2>6, <3>1, <3>2, <3>3
    <3> QED BY <3>1, <3>4, <2>3, <2>5
  <2>11. CASE OChunkAck(q)
    <3> DEFINE s == sending[q]
    <3>1. /\ wire' = Exchange(q, TRUE, <<NextFrame(s, s.content, s.next + 1)>>)
          /\ outbound[q] = "chunkAck" /\ wire[q] # <<>>
      BY <2>11 DEF OChunkAck, Arrived
    <3>2. s.content \in Seq(Chunk) /\ s.next + 1 \in Nat /\ s.next + 1 >= 1
      BY <3>1, <2>4 DEF Sent
    <3>3. NextFrame(s, s.content, s.next + 1) \in Frame /\ ~IsAck(NextFrame(s, s.content, s.next + 1))
      BY <2>6, <3>1, <3>2
    <3> QED BY <3>1, <3>3, <2>2, <2>7 DEF Awaits
  <2>12. CASE OOpAck(q) \/ OUnexpected(q)
    <3>1. wire' = Exchange(q, TRUE, <<>>) /\ Awaits(q) /\ wire[q] # <<>>
      BY <2>12 DEF OOpAck, OUnexpected, Arrived, Awaits
    <3> QED BY <3>1, <2>1, <2>7
  <2>13. CASE KPing(q)
    <3>1. wire' = Exchange(q, FALSE, <<Ping>>) /\ Ping \in Frame /\ ~IsAck(Ping)
      BY <2>13, Frames DEF KPing, Ping, IsAck
    <3> QED BY <3>1, <2>2
  <2> QED BY <2>8, <2>9, <2>10, <2>11, <2>12, <2>13 DEF OutboundRuns, KeepaliveRuns
<1>4. PICK read \in BOOLEAN, fs \in Seq(Frame) :
        /\ read => wire[q] # <<>> /\ inbound[q] # "chunks"
        /\ wire' = Exchange(q, read, fs) \/ wire' = wire
        /\ \A k \in DOMAIN fs : ~IsAck(fs[k])
  BY <1>3
<1>5. /\ wire'[q] = wire[q] \/ (wire[q] # <<>> /\ wire'[q] = Tail(wire[q]) /\ inbound'[q] # "chunks")
      /\ wire'[p] \in {wire[p], wire[p] \o fs}
  <2>1. CASE wire' = wire
    BY <2>1
  <2>2. CASE wire' = Exchange(q, read, fs)
    BY <2>2, <1>0, <1>1, <1>4, Written
  <2> QED BY <1>4, <2>1, <2>2
<1>6. \A k \in DOMAIN wire'[p] :
        IsAck(wire'[p][k]) => k \in DOMAIN wire[p] /\ wire'[p][k] = wire[p][k]
  BY <1>0, <1>4, <1>5, NoAckWritten
<1> QED BY <1>0, <1>1, <1>2, <1>5, <1>6, PeerAside

(* The other tasks of p itself.                                             *)
LEMMA OwnTasksFlow ==
  ASSUME Types, Lines, NEW p \in Peer, NEW q, q = Other(p), Flow(p),
         InboundRuns(p) \/ KeepaliveRuns(p)
  PROVE  Flow(p)'
<1>0. q \in Peer /\ q # p /\ p = Other(q) /\ Wires /\ Places
  BY Peers DEF Types
<1>1. /\ outbound' = outbound /\ sending' = sending
  BY DEF InboundRuns, ILoop, IRead, IPong, IDelete, ICreateEmpty, ICreate, ICannotCreate, IChunk,
         IComplete, IChunkDamaged, IChunksFail, IChunkReadFails, IEnd, Applied,
         KeepaliveRuns, KTick, KPing, KEnd, outboundVars
<1>2. inbound'[q] = inbound[q]
  <2>1. \/ inbound' = inbound
        \/ inbound' = [inbound EXCEPT ![p] = Handler(Head(wire[p]).type)]
        \/ inbound' = [inbound EXCEPT ![p] = "lockRead"]
        \/ inbound' = [inbound EXCEPT ![p] = "chunks"]
        \/ inbound' = [inbound EXCEPT ![p] = "ended"]
    BY DEF InboundRuns, ILoop, IRead, IPong, IDelete, ICreateEmpty, ICreate, ICannotCreate, IChunk,
         IComplete, IChunkDamaged, IChunksFail, IChunkReadFails, IEnd, Applied,
         KeepaliveRuns, KTick, KPing, KEnd, inboundVars
  <2> QED BY <2>1, <1>0 DEF Places
<1>3. CASE ILoop(p) \/ IEnd(p) \/ ICreate(p) \/ KTick(p) \/ KEnd(p)
  <2>1. wire' = wire
    BY <1>3 DEF ILoop, IEnd, ICreate, KTick, KEnd
  <2>2. payload'[q] = payload[q] /\ written'[q] = written[q] /\ failing'[q] = failing[q]
    <3>1. /\ payload' = payload
          /\ written' = written \/ written' = [written EXCEPT ![p] = <<>>]
          /\ failing' = failing \/ failing' = [failing EXCEPT ![p] = FALSE]
      BY <1>3 DEF ILoop, IEnd, ICreate, KTick, KEnd, inboundVars
    <3>2. written = [r \in Peer |-> written[r]] /\ failing = [r \in Peer |-> failing[r]]
      BY DEF Types, Payloads, Counts
    <3> QED BY <3>1, <3>2, <1>0
  <2>3. wire'[q] = wire[q] /\ outbound'[p] = outbound[p] /\ sending'[p] = sending[p]
        /\ \A k \in DOMAIN wire'[p] :
             IsAck(wire'[p][k]) => k \in DOMAIN wire[p] /\ wire'[p][k] = wire[p][k]
    BY <2>1, <1>1
  <2> QED BY <1>0, <1>2, <2>2, <2>3, PeerAside
<1>4. CASE \/ IRead(p) \/ IPong(p) \/ IDelete(p) \/ ICreateEmpty(p) \/ ICannotCreate(p)
           \/ IChunk(p) \/ IComplete(p) \/ IChunkDamaged(p) \/ IChunksFail(p) \/ IChunkReadFails(p)
           \/ KPing(p)
  <2>1. Holds(p, "inbound") \/ Holds(p, "keepalive")
    BY <1>4, Holding DEF IRead, IPong, IDelete, ICreateEmpty, ICannotCreate, IComplete, IChunk,
                IChunkDamaged, IChunksFail, IChunkReadFails, HandlesOp, Guarded, KPing, MayPing
  <2>2. ~Awaits(p)
    BY <2>1, Holding
  <2>3. inbound[p] \in {"lockOp", "chunks"} => payload[p] \in Frame /\ payload[p].op_id \in Id
    BY Frames DEF Types, Payloads
  <2>4. \E read \in BOOLEAN, f \in {Ping, Pong, AckOf(p), SyncChunkAck(payload[p].op_id, TRUE),
                                   SyncChunkAck(payload[p].op_id, FALSE)} :
          /\ read => wire[p] # <<>>
          /\ wire' = Exchange(p, read, <<>>) \/ (wire' = Exchange(p, read, <<f>>)
               /\ (f \in {Ping, Pong} \/ inbound[p] \in {"lockOp", "chunks"}))
    BY <1>4 DEF IRead, IPong, IDelete, ICreateEmpty, ICannotCreate, IComplete, IChunk,
                IChunkDamaged, IChunksFail, IChunkReadFails, HandlesOp, KPing, Applied,
                ChunkIsForOp, Arrived
  <2>5. PICK read \in BOOLEAN, f \in {Ping, Pong, AckOf(p), SyncChunkAck(payload[p].op_id, TRUE),
                                     SyncChunkAck(payload[p].op_id, FALSE)} :
          /\ read => wire[p] # <<>>
          /\ wire' = Exchange(p, read, <<>>) \/ (wire' = Exchange(p, read, <<f>>)
               /\ (f \in {Ping, Pong} \/ inbound[p] \in {"lockOp", "chunks"}))
    BY <2>4
  <2>6. CASE wire' = Exchange(p, read, <<>>)
    <3>1. <<>> \in Seq(Frame)
      BY FramesInSeq
    <3>2. /\ wire'[p] = wire[p] \/ (wire[p] # <<>> /\ wire'[p] = Tail(wire[p]))
          /\ wire'[q] \in {wire[q], wire[q] \o <<>>}
      BY <3>1, <2>5, <2>6, <1>0, Written
    <3>3. \A k \in DOMAIN <<>> : ~OpFrame(<<>>[k])
      OBVIOUS
    <3> QED BY <1>0, <1>1, <1>2, <2>2, <3>1, <3>2, <3>3, SenderAside
  <2>7. CASE wire' = Exchange(p, read, <<f>>) /\ (f \in {Ping, Pong} \/ inbound[p] \in {"lockOp", "chunks"})
    <3>1. f \in Frame /\ ~OpFrame(f)
      <4>1. /\ Ping \in Frame /\ ~OpFrame(Ping) /\ Pong \in Frame /\ ~OpFrame(Pong)
            /\ \A id \in Id, ok \in BOOLEAN :
                 SyncChunkAck(id, ok) \in Frame /\ ~OpFrame(SyncChunkAck(id, ok))
            /\ \A id \in Id : SyncOpAck(id) \in Frame /\ ~OpFrame(SyncOpAck(id))
        BY Frames DEF SyncOpAck, SyncChunkAck, Ping, Pong, OpFrame
      <4>2. CASE f \in {Ping, Pong}
        BY <4>1, <4>2
      <4>3. CASE inbound[p] \in {"lockOp", "chunks"}
        <5>1. payload[p].op_id \in Id /\ TRUE \in BOOLEAN /\ FALSE \in BOOLEAN
          BY <2>3, <4>3
        <5>2. f \in {Ping, Pong, SyncOpAck(payload[p].op_id), SyncChunkAck(payload[p].op_id, TRUE),
                     SyncChunkAck(payload[p].op_id, FALSE)}
          BY DEF AckOf
        <5> QED BY <4>1, <5>1, <5>2
      <4> QED BY <2>7, <4>2, <4>3
    <3>2. <<f>> \in Seq(Frame) /\ DOMAIN <<f>> = {1} /\ <<f>>[1] = f
      BY <3>1, FramesInSeq
    <3>3. /\ wire'[p] = wire[p] \/ (wire[p] # <<>> /\ wire'[p] = Tail(wire[p]))
          /\ wire'[q] \in {wire[q], wire[q] \o <<f>>}
      BY <3>2, <2>5, <2>7, <1>0, Written
    <3>4. \A k \in DOMAIN <<f>> : ~OpFrame(<<f>>[k])
      BY <3>1, <3>2
    <3>5. outbound'[p] = outbound[p] /\ sending'[p] = sending[p]
      BY <1>1
    <3> QED BY <1>0, <1>2, <2>2, <3>2, <3>3, <3>4, <3>5, SenderAside
  <2> QED BY <2>5, <2>6, <2>7
<1> QED BY <1>3, <1>4 DEF InboundRuns, KeepaliveRuns

(* The start and the end of a session, of either peer.                      *)
LEMMA RunFlow ==
  ASSUME Types, Lines, NEW p \in Peer, Flow(p), NEW r \in Peer, InitialSync(r) \/ Exit(r)
  PROVE  Flow(p)'
<1>0. Other(p) \in Peer /\ (r = p \/ r = Other(p)) /\ Other(p) # p /\ Places
  BY Peers DEF Types
<1>1. /\ UNCHANGED <<sending, payload, written, failing, wire>>
      /\ outbound' = [outbound EXCEPT ![r] = outbound'[r]] /\ outbound'[r] \in {"recv", "ended"}
      /\ inbound' = [inbound EXCEPT ![r] = inbound'[r]] /\ inbound'[r] \in {"loop", "ended"}
  BY DEF InitialSync, run_initial_sync, initial_sync_fails, Exit, Types, Places
<1>2. outbound'[r] = "recv" => outbound[r] = "new"
  BY Holding DEF InitialSync, run_initial_sync, initial_sync_fails, Exit, Fresh, Types, Places
<1>3. CASE r = p
  <2>1. Quiet(p) => Quiet(p)'
    <3>1. inbound'[Other(p)] = inbound[Other(p)] /\ wire' = wire
      BY <1>0, <1>1, <1>3 DEF Places
    <3> QED BY <3>1 DEF Quiet, NoOps, NoAcks, Handling
  <2> QED BY <2>1, <1>1, <1>2, <1>3 DEF Flow, Awaits
<1>4. CASE r = Other(p)
  <2>1. /\ outbound'[p] = outbound[p] /\ ~Handling(Other(p))' /\ inbound'[Other(p)] # "chunks"
    BY <1>0, <1>1, <1>4 DEF Handling, Places
  <2>2. \A k \in DOMAIN wire'[p] :
          IsAck(wire'[p][k]) => k \in DOMAIN wire[p] /\ wire'[p][k] = wire[p][k]
    BY <1>1
  <2>3. sending'[p] = sending[p] /\ wire'[Other(p)] = wire[Other(p)] /\ written'[Other(p)] = written[Other(p)]
    BY <1>1
  <2>4. Wires
    BY DEF Types
  <2> QED BY <2>1, <2>2, <2>3, <2>4, PeerAside
<1> QED BY <1>0, <1>3, <1>4

-----------------------------------------------------------------------------
(* The invariant.                                                           *)

SyncInv == Types /\ Lines /\ \A p \in Peer : Flow(p)

(* The invariant holds at the start,                                        *)
LEMMA SyncStarts == Init => SyncInv
<1> SUFFICES ASSUME Init PROVE SyncInv
  OBVIOUS
<1>1. PICK ix \in Start : disk = [p \in Peer |-> Tree(IF p = Host THEN ix[1] ELSE ix[2])]
  BY DEF Init
<1>2. ix[1] \in Index /\ ix[2] \in Index
  BY SyncAssumption
<1>3. \A index \in Index : Tree(index) \in [Path -> Node]
  <2> SUFFICES ASSUME NEW index \in Index, NEW x \in Path PROVE Tree(index)[x] \in Node
    BY DEF Tree
  <2>1. index[x] \in Entry
    BY DEF Index
  <2>2. index[x].kind = "File" => index[x].content_hash \in Seq(Chunk)
    BY <2>1, SyncAssumption DEF Entry, NoEntry, FileEntry, DirEntry
  <2>3. index[x].kind \in {"none", "File", "Directory"}
    BY <2>1 DEF Entry, NoEntry, FileEntry, DirEntry
  <2> QED BY <2>2, <2>3, Nodes DEF Tree
<1>4. Trees
  <2>1. disk \in [Peer -> [Path -> Node]]
    BY <1>1, <1>2, <1>3
  <2> QED BY <2>1 DEF Init, Trees
<1>5. Types
  <2>1. <<>> \in Seq(Op) /\ <<>> \in Seq(Chunk) /\ <<>> \in Seq(Frame) /\ 0 \in Id
    BY SyncAssumption DEF Id
  <2>2. Places /\ Events
    <3>1. /\ watcher = [p \in Peer |-> "new"] /\ event = [p \in Peer |-> <<>>]
          /\ session = [p \in Peer |-> "initial"] /\ outbound = [p \in Peer |-> "new"]
          /\ inbound = [p \in Peer |-> "new"] /\ keepalive = [p \in Peer |-> "new"]
      BY DEF Init
    <3>2. Places
      BY <3>1 DEF Places
    <3>3. Events
      <4>1. \A p \in Peer : watcher[p] = "new" /\ event[p] = <<>>
        BY <3>1
      <4>2. event = [p \in Peer |-> event[p]]
        BY <3>1
      <4> QED BY <4>1, <4>2 DEF Events
    <3> QED BY <3>2, <3>3
  <2>5. Counts
    <3>1. /\ failing = [p \in Peer |-> FALSE] /\ open = [p \in Peer |-> TRUE] /\ lost = FALSE
          /\ pings = [p \in Peer |-> 0] /\ edits = [p \in Peer |-> 0]
      BY DEF Init
    <3>2. pings \in [Peer -> Nat] /\ edits \in [Peer -> Nat]
      BY <3>1
    <3>3. failing \in [Peer -> BOOLEAN] /\ open \in [Peer -> BOOLEAN] /\ lost \in BOOLEAN
      BY <3>1
    <3> QED BY <3>2, <3>3 DEF Counts
  <2>3. Sendings
    BY <2>1 DEF Init, Sendings
  <2>4. Payloads /\ Wires
    BY <2>1 DEF Init, Payloads, Wires
  <2> QED BY <1>4, <2>2, <2>3, <2>4, <2>5 DEF Types
<1>6. Lines
  <2>1. \A p \in Peer : Waiters(p) = {} /\ mutex[p] = <<>> /\ ~Awaits(p) /\ inbound[p] # "chunks"
                        /\ Fresh(p)
    BY DEF Init, Waiters, Awaits, Fresh
  <2>2. mutex = [p \in Peer |-> mutex[p]]
    BY DEF Init
  <2>3. Lined(<<>>, {})
    BY EmptySeq DEF Lined
  <2> QED BY <2>1, <2>2, <2>3 DEF Lines, Guarded
<1>7. ASSUME NEW p \in Peer PROVE Flow(p)
  <2>1. Other(p) \in Peer
    BY Peers
  <2>2. outbound[p] = "new" /\ wire[p] = <<>> /\ wire[Other(p)] = <<>> /\ inbound[Other(p)] = "new"
    BY <2>1 DEF Init
  <2>3. DOMAIN <<>> = {}
    OBVIOUS
  <2> QED BY <2>2, <2>3 DEF Flow, Awaits, Quiet, NoOps, NoAcks, Handling
<1> QED BY <1>5, <1>6, <1>7 DEF SyncInv

(* and every step keeps it.                                                 *)
LEMMA SyncStep ==
  ASSUME SyncInv, [Next]_vars
  PROVE  SyncInv'
<1>0. Types /\ Lines /\ \A p \in Peer : Flow(p)
  BY DEF SyncInv
<1>1. CASE UNCHANGED vars
  <2>1. UNCHANGED <<disk, session, pending, watcher, event, queue, outbound, sending, counter,
                    inbound, payload, written, failing, keepalive, pings, mutex, wire, open, lost,
                    edits>>
    BY <1>1 DEF vars, indexVars, watcherVars, outboundVars, inboundVars, keepaliveVars, streamVars
  <2>2. Types'
    BY <1>0, <2>1 DEF Types, Places, Counts, Trees, Events, Sendings, Payloads, Wires
  <2>3. Lines'
    BY <1>0, <2>1, LinesKept
  <2>4. \A p \in Peer : Flow(p)'
    BY <1>0, <2>1, FlowKept
  <2> QED BY <2>2, <2>3, <2>4 DEF SyncInv
<1>2. CASE ConnectionLost
  <2>1. /\ UNCHANGED <<disk, session, pending, watcher, event, queue, outbound, sending, counter,
                       inbound, payload, written, failing, keepalive, pings, mutex, wire, open,
                       edits>>
        /\ lost' = TRUE
    BY <1>2 DEF ConnectionLost, watcherVars, outboundVars, inboundVars, keepaliveVars
  <2>2. Types'
    BY <1>0, <2>1 DEF Types, Places, Counts, Trees, Events, Sendings, Payloads, Wires
  <2>3. Lines'
    BY <1>0, <2>1, LinesKept
  <2>4. \A p \in Peer : Flow(p)'
    BY <1>0, <2>1, FlowKept
  <2> QED BY <2>2, <2>3, <2>4 DEF SyncInv
<1>3. ASSUME NEW r \in Peer, UserActs(r) \/ WatcherRuns(r)
      PROVE  SyncInv'
  <2>1. UNCHANGED <<outbound, inbound, keepalive, session, mutex, sending, payload, written,
                    failing, wire>>
    BY <1>3 DEF UserActs, UserWrites, UserMakesDirectory, UserDeletes, UserChanges, WatcherRuns,
                WNext, event_to_sync_op, WSend, WEnd, outboundVars, inboundVars, keepaliveVars
  <2>2. Types'
    BY <1>0, <1>3, UserTypes, WatcherTypes
  <2>3. Lines'
    BY <1>0, <2>1, LinesKept
  <2>4. \A p \in Peer : Flow(p)'
    BY <1>0, <2>1, FlowKept
  <2> QED BY <2>2, <2>3, <2>4 DEF SyncInv
<1>4. ASSUME NEW r \in Peer, OutboundRuns(r)
      PROVE  SyncInv'
  <2>1. Types' /\ Lines'
    BY <1>0, <1>4, OutboundTypes, OutboundLines
  <2>2. ASSUME NEW p \in Peer PROVE Flow(p)'
    <3>1. r = p \/ r = Other(p)
      BY Peers
    <3> QED BY <3>1, <1>0, <1>4, OutboundFlow, PeerOutboundFlow
  <2> QED BY <2>1, <2>2 DEF SyncInv
<1>5. ASSUME NEW r \in Peer, KeepaliveRuns(r)
      PROVE  SyncInv'
  <2>1. Types' /\ Lines'
    BY <1>0, <1>5, KeepaliveTypes, KeepaliveLines
  <2>2. ASSUME NEW p \in Peer PROVE Flow(p)'
    <3>1. r = p \/ r = Other(p)
      BY Peers
    <3> QED BY <3>1, <1>0, <1>5, OwnTasksFlow, PeerOutboundFlow
  <2> QED BY <2>1, <2>2 DEF SyncInv
<1>6. ASSUME NEW r \in Peer, InboundRuns(r)
      PROVE  SyncInv'
  <2>1. Types' /\ Lines'
    BY <1>0, <1>6, InboundTypes, InboundLines
  <2>2. ASSUME NEW p \in Peer PROVE Flow(p)'
    <3>1. r = p \/ r = Other(p)
      BY Peers
    <3> QED BY <3>1, <1>0, <1>6, OwnTasksFlow, PeerInboundFlow
  <2> QED BY <2>1, <2>2 DEF SyncInv
<1>7. ASSUME NEW r \in Peer, InitialSync(r) \/ Exit(r)
      PROVE  SyncInv'
  <2>1. Types'
    BY <1>0, <1>7, InitialTypes, RunTypes
  <2>2. Lines'
    BY <1>0, <1>7, RunLines
  <2>3. \A p \in Peer : Flow(p)'
    BY <1>0, <1>7, RunFlow
  <2> QED BY <2>1, <2>2, <2>3 DEF SyncInv
<1>8. ASSUME NEW r \in Peer, RunReturns(r) \/ Stop(r) \/ StreamDropped(r)
      PROVE  SyncInv'
  <2>1. UNCHANGED <<outbound, inbound, sending, payload, written, failing, wire>>
    BY <1>8 DEF RunReturns, Stop, StreamDropped, outboundVars, inboundVars
  <2>2. Types'
    BY <1>0, <1>8, RunTypes
  <2>3. Lines'
    BY <1>0, <1>8, RunLines
  <2>4. \A p \in Peer : Flow(p)'
    BY <1>0, <2>1, FlowKept
  <2> QED BY <2>2, <2>3, <2>4 DEF SyncInv
<1> QED BY <1>1, <1>2, <1>3, <1>4, <1>5, <1>6, <1>7, <1>8 DEF Next

(* In every behaviour of the session, of any length and with any faults.    *)
THEOREM SyncInvariant == Spec => []SyncInv
<1>1. SyncInv /\ [Next]_vars => SyncInv'
  BY SyncStep
<1> QED BY SyncStarts, <1>1, PTL DEF Spec

(* The invariant implies the properties of SyncSession.                     *)
LEMMA SyncImplies ==
  ASSUME SyncInv
  PROVE  TypeOK /\ AckIsForOperation /\ AckedMeansWritten /\ ChunksNotInterrupted
<1>0. Types /\ Lines /\ \A p \in Peer : Flow(p)
  BY DEF SyncInv
<1>1. TypeOK
  <2>1. ASSUME NEW p \in Peer
        PROVE  /\ {mutex[p][k] : k \in DOMAIN mutex[p]} = Waiters(p)
               /\ \A j, k \in DOMAIN mutex[p] : mutex[p][j] = mutex[p][k] => j = k
               /\ outbound[p] \in {"chunkAck", "opAck"} => Holds(p, "outbound")
               /\ inbound[p] = "chunks" => Holds(p, "inbound")
    BY <1>0 DEF Lines, Lined, Guarded, Awaits
  <2>2. Places /\ Counts /\ Trees /\ Events /\ Sendings /\ Payloads /\ Wires
    BY <1>0 DEF Types
  <2>3. /\ session \in [Peer -> {"initial", "live", "returned"}]
        /\ watcher \in [Peer -> {"new", "next", "convert", "send", "ended"}]
        /\ outbound \in [Peer -> {"new", "recv", "lock", "chunkAck", "opAck", "ended"}]
        /\ inbound \in [Peer -> {"new", "loop", "lockRead", "lockOp", "lockPong", "chunks", "ended"}]
        /\ keepalive \in [Peer -> {"new", "tick", "lock", "ended"}]
    BY <2>2 DEF Places
  <2>4. /\ failing \in [Peer -> BOOLEAN] /\ pings \in [Peer -> Nat] /\ edits \in [Peer -> Nat]
        /\ open \in [Peer -> BOOLEAN] /\ lost \in BOOLEAN
    BY <2>2 DEF Counts
  <2>5. /\ disk \in [Peer -> [Path -> Node]]
        /\ pending \in [Peer -> [Path -> {"none", "Created", "Modified", "Deleted"}]]
    BY <2>2 DEF Trees
  <2>6. /\ \A p \in Peer : watcher[p] = "convert" => event[p].path \in Path
        /\ \A p \in Peer : watcher[p] = "send" => event[p] \in Op
    BY <2>2 DEF Events
  <2>7. /\ queue \in [Peer -> Seq(Op)] /\ counter \in [Peer -> Id]
        /\ \A p \in Peer : outbound[p] \in {"lock", "chunkAck", "opAck"} =>
             sending[p] \in [op : Op, op_id : Id, content : Seq(Chunk), next : Nat]
    BY <2>2 DEF Sendings, Sent
  <2>8. /\ written \in [Peer -> Seq(Chunk)]
        /\ \A p \in Peer : inbound[p] \in {"lockOp", "chunks"} =>
             payload[p] \in Frame /\ payload[p].type = "SyncOp"
        /\ wire \in [Peer -> Seq(Frame)]
    BY <2>2 DEF Payloads, Wires
  <2> QED BY <2>1, <2>3, <2>4, <2>5, <2>6, <2>7, <2>8 DEF TypeOK
<1>2. ASSUME NEW p \in Peer, outbound[p] \in {"chunkAck", "opAck"} PROVE Acked(p)
  BY <1>0, <1>2 DEF Flow, Awaits
<1>3. AckIsForOperation
  BY <1>2 DEF AckIsForOperation, Acked, IsAck
<1>4. AckedMeansWritten
  BY <1>2 DEF AckedMeansWritten, Acked, IsAck
<1>5. ChunksNotInterrupted
  <2> SUFFICES ASSUME NEW q \in Peer, inbound[q] = "chunks", wire[q] # <<>>,
                      outbound[Other(q)] # "ended"
               PROVE  ChunkIsForOp(q) \/ Arrived(q, "SyncComplete")
    BY DEF ChunksNotInterrupted
  <2> DEFINE p == Other(q)
             m == Head(wire[q])
  <2>1. p \in Peer /\ q = Other(p) /\ wire[q] \in Seq(Frame) /\ Places
    BY <1>0, Peers DEF Types, Wires
  <2>2. FramesInOrder(p) /\ Handled(p) /\ payload[q].op_id = sending[p].op_id /\ Handling(q)
    <3>1. Flow(p) /\ Handling(q) /\ outbound[p] # "ended"
      BY <1>0, <2>1 DEF Handling
    <3> HIDE DEF p
    <3> QED BY <3>1, <2>1, HandledFromP
  <2>3. 1 \in DOMAIN wire[q] /\ m = wire[q][1]
    BY <2>1, TailAt
  <2> HIDE DEF p
  <2>4. OpFrame(wire[q][1])
    BY <2>1, <2>2, <2>3 DEF Handled
  <2>5. m = Following(p)
    BY <2>1, <2>2, <2>3, <2>4 DEF FramesInOrder
  <2>6. m.type \in {"SyncChunk", "SyncComplete"} /\ m.op_id = payload[q].op_id
    BY <2>2, <2>5 DEF Following, NextFrame, SyncChunk, SyncComplete
  <2> QED BY <2>6 DEF ChunkIsForOp, Arrived
<1> QED BY <1>1, <1>3, <1>4, <1>5

(* Every variable keeps its type, and each task stands once in the queue of *)
(* the mutex and holds it where the code has the guard.                     *)
THEOREM SyncTypes == Spec => []TypeOK
BY SyncInvariant, SyncImplies, PTL

(* send_sync_op compares no op_id (session.rs): the acknowledgement it gets *)
(* is for its operation all the same, and of the kind it waits for.         *)
THEOREM SyncAcks == Spec => []AckIsForOperation
BY SyncInvariant, SyncImplies, PTL

(* An operation with chunks that is acknowledged has been written as the    *)
(* sender has read it, whatever the peer's file does.                       *)
THEOREM SyncWritten == Spec => []AckedMeansWritten
BY SyncInvariant, SyncImplies, PTL

(* Nothing of another task of the sender comes between the chunks.          *)
THEOREM SyncUninterrupted == Spec => []ChunksNotInterrupted
BY SyncInvariant, SyncImplies, PTL

=============================================================================
