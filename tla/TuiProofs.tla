----------------------------- MODULE TuiProofs ------------------------------
(***************************************************************************)
(* The terminal UI for every number of tasks and every list, tree and      *)
(* table of settings: what it shows, the handle that cancels it and the    *)
(* channels it reports on stay of one task; no sequence of keys moves a    *)
(* cursor off its list, an edit to another setting, or leaves anything     *)
(* that Esc does not end.                                                  *)
(***************************************************************************)
EXTENDS Tui, FiniteSetTheorems, SequenceTheorems, TLAPS

(* What a view shows is of its handle, and in Receive, where a report that  *)
(* is queued sets it later, no report is queued for a task that is gone.    *)
OfShare == shown # 0 => handle = shown /\ rx = shown
OfReceive ==
  /\ handle = busy /\ rx = busy /\ tx = busy
  /\ shown \in {0, busy}
  /\ events # <<>> => rx # 0
OfClipboard == handle = busy
OfSync == handle = rx /\ rx \in {0, shown}

ShownInv ==
  /\ view \in {"Share", "Receive", "Clipboard", "Sync"}
  /\ view = "Share" => OfShare
  /\ view = "Receive" => OfReceive
  /\ view = "Clipboard" => OfClipboard
  /\ view = "Sync" => OfSync

LEMMA NewIsTask ==
  ASSUME Unborn # {}
  PROVE  New \in Nat /\ New # 0
<1>1. IsFiniteSet(Task)
  BY BoundAssumption, FS_Interval DEF Task
<1>2. Unborn \subseteq Task
  BY DEF Unborn
<1>3. /\ Cardinality(Unborn) \in Nat
      /\ Cardinality(Unborn) <= Cardinality(Task)
  BY <1>1, <1>2, FS_Subset, FS_CardinalityType
<1>4. Cardinality(Task) = MaxTasks
  <2>1. 1 \in Int /\ MaxTasks \in Int
    BY BoundAssumption
  <2>2. Cardinality(1..MaxTasks) = IF 1 > MaxTasks THEN 0 ELSE MaxTasks - 1 + 1
    BY <2>1, FS_Interval
  <2> QED BY <2>2, BoundAssumption DEF Task
<1> QED BY <1>3, <1>4, BoundAssumption DEF New

(* Reports are only queued for the receiver that is there.                  *)
LEMMA EmitKeeps ==
  ASSUME NEW i \in Task, NEW e, Emit(i, e), view = "Receive", OfReceive
  PROVE  events' # <<>> => rx # 0
BY BoundAssumption DEF Emit, OfReceive, Task

(* The handle, the channels and the task that a view shows stay of one      *)
(* task, whatever is started, ends late or is cancelled.                    *)
THEOREM ShownInvariant == AppSteps => []ShownInv
<1>1. AppInit => ShownInv
  BY ViewAssumption DEF AppInit, Init, ShownInv, OfShare, OfReceive, OfClipboard, OfSync
<1>2. ShownInv /\ [Next]_vars => ShownInv'
  <2> SUFFICES ASSUME ShownInv, [Next]_vars PROVE ShownInv'
    OBVIOUS
  <2> USE DEF ShownInv
  <2>1. CASE UNCHANGED vars
    BY <2>1 DEF vars, ui, OfShare, OfReceive, OfClipboard, OfSync
  <2>2. CASE KeyAction
    <3>1. CASE StartShare \/ CancelShare \/ RegenerateCode
      BY <3>1 DEF StartShare, CancelShare, RegenerateCode, Key, OpenRx, CloseRx, OfShare
    <3>2. CASE StartReceive \/ AcceptTransfer \/ DeclineTransfer \/ CancelReceive
      <4>1. CASE StartReceive
        BY <4>1, NewIsTask DEF StartReceive, Key, OpenRx, OfReceive
      <4> QED
        BY <3>2, <4>1 DEF AcceptTransfer, DeclineTransfer, CancelReceive, Key, CloseRx,
                          Cleanup, OfReceive
    <3>3. CASE \/ StartClipboard \/ JoinClipboardSync \/ StopClipboardSync
               \/ CancelClipboardOperation
      BY <3>3 DEF StartClipboard, JoinClipboardSync, StopClipboardSync,
                  CancelClipboardOperation, Key, OfClipboard
    <3>4. CASE StartSyncHost \/ JoinSync \/ StopSync
      BY <3>4 DEF StartSyncHost, JoinSync, StopSync, Key, OpenRx, CloseRx, OfSync
    <3>5. CASE KeyTimeout \/ Quit
      BY <3>5 DEF KeyTimeout, Quit, ui, OfShare, OfReceive, OfClipboard, OfSync
    <3> QED BY <2>2, <3>1, <3>2, <3>3, <3>4, <3>5 DEF KeyAction
  <2>3. CASE Poll
    <3>1. CASE PollShareDone
      BY <3>1 DEF PollShareDone, Polls, OfShare
    <3>2. CASE PollClipboardDone \/ PollSyncHostConnected
      BY <3>2 DEF PollClipboardDone, PollSyncHostConnected, Polls, OfClipboard
    <3>3. CASE PollProgress \/ PollsEnd
      BY <3>3 DEF PollProgress, PollsEnd, Polls, ui, OfShare, OfReceive, OfClipboard, OfSync
    <3>4. CASE PollConnected \/ PollReceiveEnd
      BY <3>4 DEF PollConnected, PollReceiveEnd, Polls, Cleanup, CloseRx, OfReceive
    <3>5. CASE PollStarted \/ PollSyncFailed
      BY <3>5 DEF PollStarted, PollSyncFailed, Polls, CloseRx, OfSync
    <3> QED BY <2>3, <3>1, <3>2, <3>3, <3>4, <3>5 DEF Poll
  <2>4. ASSUME NEW i \in Task, OwnStep(i) \/ PeerStep(i)
        PROVE  ShownInv'
    <3>1. UNCHANGED ui
      BY <2>4 DEF OwnStep, PeerStep, ShareReturns, TakesCommand, AcceptReturns, DeclineReturns,
           ReceiveCancelled, ForwardEnds, Aborts, SharePublishesEnd, ShareProgress, ShareFails,
           Connects, ConnectFails, Forward, OperationReturns, ClipboardPeerConnects,
           ClipboardHostFails, SyncStarted, SyncPeerConnects, SyncFails, SyncReturns, EmitAndEnd
    <3>2. view = "Receive" => (\E e : Emit(i, e)) \/ events' \in {events, <<>>}
      BY <2>4 DEF OwnStep, PeerStep, ShareReturns, TakesCommand, AcceptReturns, DeclineReturns,
           ReceiveCancelled, ForwardEnds, Aborts, SharePublishesEnd, ShareProgress, ShareFails,
           Connects, ConnectFails, Forward, OperationReturns, ClipboardPeerConnects,
           ClipboardHostFails, SyncStarted, SyncPeerConnects, SyncFails, SyncReturns, EmitAndEnd,
           SenderDropped
    <3>3. view = "Receive" => (events' # <<>> => rx # 0)
      BY <3>2, EmitKeeps DEF OfReceive
    <3> QED BY <3>1, <3>3 DEF ui, OfShare, OfReceive, OfClipboard, OfSync
  <2> QED BY <2>1, <2>2, <2>3, <2>4 DEF Next
<1>3. [AppNext]_appVars => [Next]_vars
  BY DEF AppNext, appVars
<1> QED BY <1>1, <1>2, <1>3, PTL DEF AppSteps

(* What Esc and quit cancel (CancelShare, CancelReceive,                    *)
(* StopClipboardSync, StopSync of tui/app.rs) is the task that is on        *)
(* display.                                                                 *)
THEOREM CancelReaches == AppSteps => []CancelReachesShown
<1>1. ShownInv => CancelReachesShown
  BY DEF ShownInv, OfShare, OfReceive, OfClipboard, OfSync, CancelReachesShown
<1> QED BY <1>1, ShownInvariant, PTL

-----------------------------------------------------------------------------
(* The states of the views that keys, polls and late results can make: the  *)
(* fields of each record, the numbers a cursor is compared with, and a      *)
(* browser that is always somewhere in the tree.                            *)
BrowserFields == DOMAIN OpenBrowser(<<>>, FALSE)
Path == Seq(DOMAIN Tree)

BrowserOK(b, only) ==
  b.open =>
    /\ DOMAIN b = BrowserFields
    /\ b.dir \in Path
    /\ b.selected \in Nat /\ On(b.selected, Len(Listing(b, only)))
    /\ IsFiniteSet(b.chosen) /\ (only => b.chosen \subseteq Path)

ShareOK(v) ==
  /\ DOMAIN v = DOMAIN NewShare
  /\ v.files \in Nat /\ v.files <= MaxFiles
  /\ v.index \in Nat /\ On(v.index, v.files)
  /\ v.session \in BOOLEAN /\ v.browser.open \in BOOLEAN
  /\ BrowserOK(v.browser, FALSE)

(* What the operators of the file browser and of the lists return.          *)
LEMMA WiderSeq ==
  ASSUME NEW S, NEW T, S \subseteq T, NEW s \in Seq(S) PROVE s \in Seq(T)
OBVIOUS

LEMMA LastOfNat ==
  ASSUME NEW n \in Nat PROVE LastOf(n) \in Nat /\ LastOf(n) <= n
BY DEF LastOf

LEMMA AtIsDirectory ==
  ASSUME NEW path \in Path PROVE At(path) \in DOMAIN Tree /\ Parent(At(path)) \in DOMAIN Tree
<1>1. At(path) \in DOMAIN Tree
  BY TreeAssumption DEF At, Last, Path
<1> QED BY <1>1, TreeAssumption DEF Parent

LEMMA SetToSeqIsSeq ==
  ASSUME NEW S, IsFiniteSet(S)
  PROVE  SetToSeq(S) \in Seq(S)
<1>1. Cardinality(S) \in Nat /\ ExistsBijection(1..Cardinality(S), S)
  BY FS_CardinalityType
<1>2. PICK f \in [1..Cardinality(S) -> S] : IsInjective(f)
  BY <1>1 DEF ExistsBijection, Bijection, Injection, IsInjective
<1>3. SetToSeq(S) \in [1..Cardinality(S) -> S]
  BY <1>2 DEF SetToSeq
<1> QED BY <1>1, <1>3

LEMMA ListingType ==
  ASSUME NEW b, NEW only \in BOOLEAN, b.dir \in Path
  PROVE  /\ Listing(b, only) \in Seq(DOMAIN Tree \cup Tree[At(b.dir)])
         /\ Len(Listing(b, only)) \in Nat
         /\ only => \A i \in 1..Len(Listing(b, only)) : Listing(b, only)[i] \in DOMAIN Tree
<1> DEFINE D == DOMAIN Tree \cup Tree[At(b.dir)]
<1>1. At(b.dir) \in DOMAIN Tree /\ Parent(At(b.dir)) \in DOMAIN Tree
  BY AtIsDirectory
<1>2. IsFiniteSet(Visible(b, only))
  BY <1>1, TreeAssumption, FS_Subset DEF Visible
<1>3. SetToSeq(Visible(b, only)) \in Seq(Visible(b, only))
  BY <1>2, SetToSeqIsSeq
<1>4. Visible(b, only) \subseteq D /\ (only => Visible(b, only) \subseteq DOMAIN Tree)
  BY DEF Visible
<1>5. Listing(b, only) \in Seq(D) /\ (only => Listing(b, only) \in Seq(DOMAIN Tree))
  <2>1. \A X : SetToSeq(Visible(b, only)) \in Seq(X) /\ Parent(At(b.dir)) \in X
           => Listing(b, only) \in Seq(X)
    BY DEF Listing
  <2>2. SetToSeq(Visible(b, only)) \in Seq(D)
    BY <1>3, <1>4, WiderSeq
  <2>3. only => SetToSeq(Visible(b, only)) \in Seq(DOMAIN Tree)
    BY <1>3, <1>4, WiderSeq
  <2> QED BY <1>1, <2>1, <2>2, <2>3
<1> QED BY <1>5

LEMMA ToggleFinite ==
  ASSUME NEW S, IsFiniteSet(S), NEW x
  PROVE  IsFiniteSet(Toggle(S, x)) /\ Toggle(S, x) \subseteq S \cup {x}
BY FS_AddElement, FS_RemoveElement DEF Toggle

LEMMA NonEmptyList ==
  ASSUME NEW D, NEW s \in Seq(D), s # <<>>
  PROVE  Len(s) > 0
OBVIOUS

(* Whatever a key does to an open browser, it stays in the tree with its    *)
(* cursor on the list that it then shows.                                   *)
LEMMA BrowseKeeps ==
  ASSUME NEW b, NEW only \in BOOLEAN, NEW a, b.open, BrowserOK(b, only)
  PROVE  BrowserOK(Browse(b, a, only), only) /\ Browse(b, a, only).open
<1> DEFINE list == Listing(b, only)
           entry == list[b.selected + 1]
           path == Append(b.dir, entry)
<1>1. /\ DOMAIN b = BrowserFields /\ b.dir \in Path /\ b.selected \in Nat
      /\ On(b.selected, Len(list)) /\ IsFiniteSet(b.chosen)
      /\ only => b.chosen \subseteq Path
  BY DEF BrowserOK
<1>2. BrowserFields = {"open", "dir", "selected", "hidden", "chosen"}
  BY DEF BrowserFields, OpenBrowser
<1>3. /\ list \in Seq(DOMAIN Tree \cup Tree[At(b.dir)])
      /\ Len(list) \in Nat /\ LastOf(Len(list)) \in Nat
  BY <1>1, ListingType, LastOfNat
<1>4. ASSUME NEW i \in Nat, On(i, Len(list))
      PROVE  LET c == [b EXCEPT !.selected = i] IN BrowserOK(c, only) /\ c.open
  BY <1>1, <1>2, <1>4 DEF BrowserOK, Listing, Visible
<1>5. ASSUME NEW d \in Path
      PROVE  LET c == [b EXCEPT !.dir = d, !.selected = 0] IN BrowserOK(c, only) /\ c.open
  <2> DEFINE c == [b EXCEPT !.dir = d, !.selected = 0]
  <2>1. /\ DOMAIN c = BrowserFields /\ c.dir = d /\ c.selected = 0 /\ c.chosen = b.chosen
        /\ c.open = b.open
    BY <1>1, <1>2
  <2>2. LastOf(Len(Listing(c, only))) \in Nat
    BY <2>1, ListingType, LastOfNat
  <2>3. BrowserOK(c, only) /\ c.open
    <3> HIDE DEF c
    <3> QED BY <1>1, <2>1, <2>2 DEF BrowserOK, On
  <2> QED BY <2>3
<1>6. ASSUME NEW S, IsFiniteSet(S), only => S \subseteq Path
      PROVE  LET c == [b EXCEPT !.chosen = S] IN BrowserOK(c, only) /\ c.open
  BY <1>1, <1>2, <1>6 DEF BrowserOK, Listing, Visible
<1>7. BrowserOK(ToggleHidden(b, only), only) /\ ToggleHidden(b, only).open
  <2> DEFINE c == [b EXCEPT !.hidden = ~@]
             d == [c EXCEPT !.selected = AtMost(@, LastOf(Len(Listing(c, only))))]
  <2>1. /\ DOMAIN c = BrowserFields /\ c.dir = b.dir /\ c.selected = b.selected
        /\ c.chosen = b.chosen /\ c.open = b.open
    BY <1>1, <1>2
  <2>2. LastOf(Len(Listing(c, only))) \in Nat
    BY <1>1, <2>1, ListingType, LastOfNat
  <2>3. /\ DOMAIN d = BrowserFields /\ d.dir = c.dir /\ d.hidden = c.hidden
        /\ d.chosen = c.chosen /\ d.open = c.open
        /\ d.selected = AtMost(c.selected, LastOf(Len(Listing(c, only))))
    BY <1>2, <2>1
  <2>4. Listing(d, only) = Listing(c, only)
    BY <2>3 DEF Listing, Visible
  <2>5. d.selected \in Nat /\ On(d.selected, Len(Listing(d, only)))
    BY <1>1, <2>1, <2>2, <2>3, <2>4 DEF AtMost, On
  <2>6. ToggleHidden(b, only) = d
    BY DEF ToggleHidden
  <2> HIDE DEF c, d
  <2> QED BY <1>1, <2>1, <2>3, <2>5, <2>6 DEF BrowserOK
<1>8. CASE a = "FileBrowserUp"
  <2>1. Up(b.selected) \in Nat /\ On(Up(b.selected), Len(list))
    BY <1>1, <1>3 DEF Up, On
  <2>2. Browse(b, a, only) = [b EXCEPT !.selected = Up(@)]
    BY <1>8 DEF Browse
  <2> QED BY <1>4, <2>1, <2>2
<1>9. CASE a = "FileBrowserDown"
  <2>1. Down(b.selected, Len(list)) \in Nat /\ On(Down(b.selected, Len(list)), Len(list))
    BY <1>1, <1>3 DEF Down, On, LastOf
  <2>2. Browse(b, a, only) = [b EXCEPT !.selected = Down(@, Len(list))]
    BY <1>9 DEF Browse
  <2> QED BY <1>4, <2>1, <2>2
<1>10. CASE a = "FileBrowserBack"
  <2>1. b.dir # <<>> => Front(b.dir) \in Path
    BY <1>1 DEF Path, Front
  <2>2. Browse(b, a, only) = IF b.dir # <<>> THEN [b EXCEPT !.dir = Front(@), !.selected = 0] ELSE b
    BY <1>10 DEF Browse
  <2> QED BY <1>5, <2>1, <2>2
<1>11. entry \in DOMAIN Tree => path \in Path
  BY <1>1 DEF Path
<1>12. only /\ list # <<>> => path \in Path
  <2>1. list # <<>> => b.selected + 1 \in 1..Len(list)
    <3>1. list # <<>> => Len(list) > 0
      BY <1>3, NonEmptyList
    <3> QED BY <1>1, <1>3, <3>1 DEF On, LastOf
  <2> QED BY <1>1, <1>11, <2>1, ListingType
<1>13. ASSUME list # <<>>,
              \E C \in {b.chosen, IF only THEN IF path \in b.chosen THEN {} ELSE {path}
                                         ELSE Toggle(b.chosen, path)} :
                Browse(b, a, only) = [b EXCEPT !.chosen = C]
       PROVE  BrowserOK(Browse(b, a, only), only) /\ Browse(b, a, only).open
  <2> DEFINE S == IF only THEN IF path \in b.chosen THEN {} ELSE {path} ELSE Toggle(b.chosen, path)
  <2>1. IsFiniteSet(S) /\ (only => S \subseteq Path)
    <3>1. IsFiniteSet({}) /\ IsFiniteSet({path}) /\ IsFiniteSet(Toggle(b.chosen, path))
      BY <1>1, ToggleFinite, FS_EmptySet, FS_Singleton
    <3>2. only => path \in Path
      BY <1>12, <1>13
    <3> HIDE DEF path
    <3> QED BY <3>1, <3>2
  <2> HIDE DEF S
  <2> QED BY <1>1, <1>6, <1>13, <2>1 DEF S
<1>14. CASE a = "FileBrowserEnter"
  <2>1. CASE list # <<>> /\ entry \in DOMAIN Tree /\ Len(b.dir) < MaxDepth
    <3>1. Browse(b, a, only) = [b EXCEPT !.dir = path, !.selected = 0]
      BY <1>14, <2>1 DEF Browse
    <3> QED BY <1>5, <1>11, <2>1, <3>1
  <2>2. CASE list # <<>> /\ entry \notin DOMAIN Tree
    <3>1. \E C \in {b.chosen, IF only THEN IF path \in b.chosen THEN {} ELSE {path}
                                     ELSE Toggle(b.chosen, path)} :
            Browse(b, a, only) = [b EXCEPT !.chosen = C]
      BY <1>14, <2>2 DEF Browse
    <3> QED BY <1>13, <2>2, <3>1
  <2>3. CASE ~(list # <<>> /\ entry \in DOMAIN Tree /\ Len(b.dir) < MaxDepth)
             /\ ~(list # <<>> /\ entry \notin DOMAIN Tree)
    BY <1>14, <2>3 DEF Browse
  <2> QED BY <2>1, <2>2, <2>3
<1>15. CASE a = "FileBrowserToggleSelection"
  <2>1. CASE list = <<>>
    BY <1>15, <2>1 DEF Browse
  <2>2. CASE list # <<>>
    <3>1. CASE only \/ ~(b.dir # <<>> /\ b.selected = 0)
      <4>1. \E C \in {b.chosen, IF only THEN IF path \in b.chosen THEN {} ELSE {path}
                                       ELSE Toggle(b.chosen, path)} :
              Browse(b, a, only) = [b EXCEPT !.chosen = C]
        BY <1>15, <2>2, <3>1 DEF Browse
      <4> QED BY <1>13, <2>2, <4>1
    <3>2. CASE ~(only \/ ~(b.dir # <<>> /\ b.selected = 0))
      BY <1>15, <3>2 DEF Browse
    <3> QED BY <3>1, <3>2
  <2> QED BY <2>1, <2>2
<1>16. CASE a = "FileBrowserToggleHidden"
  BY <1>7, <1>16 DEF Browse
<1>17. CASE a \notin {"FileBrowserUp", "FileBrowserDown", "FileBrowserBack", "FileBrowserEnter",
                     "FileBrowserToggleSelection", "FileBrowserToggleHidden"}
  BY <1>17 DEF Browse
<1> QED BY <1>8, <1>9, <1>10, <1>14, <1>15, <1>16, <1>17

ReceiveOK(v) ==
  /\ DOMAIN v = DOMAIN NewReceive
  /\ v.device \in Nat /\ On(v.device, Devices)
  /\ v.session \in {"None", "Pending", "Transferring"} /\ v.connecting \in BOOLEAN

ClipboardOK(v) == DOMAIN v = DOMAIN NewClipboard /\ v.sync \in BOOLEAN

NoneOr(S, d) == d = <<>> \/ \E x \in S : d = <<x>>

SyncOK(v) ==
  /\ DOMAIN v = DOMAIN NewSync
  /\ v.patterns \in Nat /\ v.patterns <= MaxPatterns
  /\ v.pattern \in Nat /\ On(v.pattern, v.patterns)
  /\ NoneOr(Path, v.directory)
  /\ v.input \in Nat
  /\ v.session \in BOOLEAN /\ v.browser.open \in BOOLEAN
  /\ BrowserOK(v.browser, TRUE)

ListOK(v) ==
  /\ DOMAIN v = DOMAIN NewDevices
  /\ v.count \in Nat /\ v.index \in Nat /\ On(v.index, v.count)
  /\ v.confirm \in BOOLEAN

ConfigOK(v) ==
  /\ DOMAIN v = DOMAIN NewConfig
  /\ v.section \in DOMAIN Settings
  /\ v.setting \in Nat /\ On(v.setting, Len(Settings[v.section]))
  /\ v.editing \in BOOLEAN /\ v.save \in BOOLEAN /\ v.revert \in BOOLEAN

LEMMA Opened ==
  ASSUME NEW d \in Path, NEW h, NEW only \in BOOLEAN
  PROVE  BrowserOK(OpenBrowser(d, h), only) /\ OpenBrowser(d, h).open = TRUE
<1> DEFINE b == OpenBrowser(d, h)
<1>1. /\ DOMAIN b = BrowserFields /\ b.open = TRUE /\ b.dir = d /\ b.selected = 0 /\ b.chosen = {}
  BY DEF OpenBrowser, BrowserFields
<1>2. LastOf(Len(Listing(b, only))) \in Nat
  BY <1>1, ListingType, LastOfNat
<1>3. IsFiniteSet({})
  BY FS_EmptySet
<1> HIDE DEF b
<1>4. BrowserOK(b, only)
  BY <1>1, <1>2, <1>3 DEF BrowserOK, On
<1> QED BY <1>1, <1>4 DEF b

LEMMA Closed == NoBrowser.open = FALSE /\ \A only \in BOOLEAN : BrowserOK(NoBrowser, only)
BY DEF NoBrowser, BrowserOK

LEMMA Numbers ==
  ASSUME NEW n \in Nat, NEW count \in Nat, On(n, count)
  PROVE  /\ Up(n) \in Nat /\ On(Up(n), count)
         /\ Down(n, count) \in Nat /\ On(Down(n, count), count)
         /\ LastOf(count) \in Nat /\ On(LastOf(count), count) /\ On(0, count)
BY DEF Up, Down, On, LastOf

(* One lemma per view: its handler keeps the view's part of the invariant.  *)
(* A browser is only confirmed where one is open.                           *)
LEMMA ShareHandled ==
  ASSUME NEW v, ShareOK(v), NEW a, a = "FileBrowserConfirm" => v.browser.open,
         NEW w \in HandleShare(v, a)
  PROVE  ShareOK(w)
<1> USE DEF ShareOK
<1>1. DOMAIN NewShare = {"files", "index", "browser", "compress", "focus", "option", "session"}
  BY DEF NewShare
<1>2. CASE a \in {"FocusNext", "StartShare", "NextShareOption", "PrevShareOption", "ToggleShareOption"}
  BY <1>1, <1>2 DEF HandleShare
<1>3. CASE a \in {"CancelShare", "RegenerateCode"}
  BY <1>1, <1>3 DEF HandleShare, EndShare
<1>4. CASE a = "OpenFileBrowser"
  <2>1. <<>> \in Path
    BY DEF Path
  <2>2. w = [v EXCEPT !.browser = OpenBrowser(<<>>, v.compress)]
    BY <1>4 DEF HandleShare
  <2>3. LET b == OpenBrowser(<<>>, v.compress) IN BrowserOK(b, FALSE) /\ b.open = TRUE
    BY <2>1, Opened
  <2> QED BY <1>1, <2>2, <2>3
<1>5. CASE a = "CloseFileBrowser"
  BY <1>1, <1>5, Closed DEF HandleShare
<1>6. CASE a = "FileBrowserConfirm"
  <2>1. Cardinality(v.browser.chosen) \in Nat
    BY <1>6, FS_CardinalityType DEF BrowserOK
  <2>2. LET n == AtMost(v.files + Cardinality(v.browser.chosen), MaxFiles)
        IN n \in Nat /\ n <= MaxFiles /\ n >= v.files
    BY <2>1, ListAssumption DEF AtMost
  <2>3. On(v.index, AtMost(v.files + Cardinality(v.browser.chosen), MaxFiles))
    BY <2>2 DEF On, LastOf
  <2>4. w = [v EXCEPT !.browser = NoBrowser,
                      !.files = AtMost(@ + Cardinality(v.browser.chosen), MaxFiles)]
    BY <1>6 DEF HandleShare
  <2> QED BY <1>1, <2>2, <2>3, <2>4, Closed
<1>7. CASE a \in {"ListUp", "ListDown"}
  BY <1>1, <1>7, Numbers DEF HandleShare
<1>8. CASE a = "RemoveFile"
  <2>1. w = RemoveFile(v)
    BY <1>8 DEF HandleShare
  <2>2. CASE v.index < v.files
    <3> DEFINE i == IF v.index >= v.files - 1 THEN Up(v.index) ELSE v.index
    <3>1. i \in Nat /\ On(i, v.files - 1) /\ v.files - 1 \in Nat /\ v.files - 1 <= MaxFiles
      BY <2>2, ListAssumption DEF Up, On, LastOf
    <3>2. w = [v EXCEPT !.files = @ - 1, !.index = i]
      BY <2>1, <2>2 DEF RemoveFile
    <3> HIDE DEF i
    <3> QED BY <1>1, <3>1, <3>2
  <2> QED BY <2>1, <2>2 DEF RemoveFile
<1>9. CASE a \notin {"FocusNext", "StartShare", "NextShareOption", "PrevShareOption",
                     "ToggleShareOption", "CancelShare", "RegenerateCode", "OpenFileBrowser",
                     "CloseFileBrowser", "FileBrowserConfirm", "ListUp", "ListDown", "RemoveFile"}
  <2>1. CASE v.browser.open
    <3>1. w = [v EXCEPT !.browser = Browse(@, a, FALSE)]
      BY <1>9, <2>1 DEF HandleShare
    <3>2. LET b == Browse(v.browser, a, FALSE) IN BrowserOK(b, FALSE) /\ b.open
      BY <2>1, BrowseKeeps
    <3> QED BY <1>1, <3>1, <3>2
  <2>2. CASE ~v.browser.open
    BY <1>9, <2>2 DEF HandleShare
  <2> QED BY <2>1, <2>2
<1> QED BY <1>2, <1>3, <1>4, <1>5, <1>6, <1>7, <1>8, <1>9

LEMMA ReceiveHandled ==
  ASSUME NEW v, ReceiveOK(v), NEW a, NEW w \in HandleReceive(v, a)
  PROVE  ReceiveOK(w)
<1> USE DEF ReceiveOK
<1>1. DOMAIN NewReceive = {"focus", "code", "device", "pos", "connecting", "ip", "session"}
  BY DEF NewReceive
<1>2. Devices \in Nat
  BY ListAssumption
<1>3. CASE a \in {"ListUp", "ListDown"}
  BY <1>1, <1>2, <1>3, Numbers DEF HandleReceive
<1>4. CASE a \notin {"ListUp", "ListDown"}
  BY <1>1, <1>4 DEF HandleReceive, IpCursorNext, IpCursorPrev, IpClear, EndReceive
<1> QED BY <1>3, <1>4

LEMMA ClipboardHandled ==
  ASSUME NEW v, ClipboardOK(v), NEW a, NEW w \in HandleClipboard(v, a)
  PROVE  ClipboardOK(w)
BY DEF ClipboardOK, NewClipboard, HandleClipboard, EndOperation

LEMMA SyncHandled ==
  ASSUME NEW v, SyncOK(v), NEW a, a = "FileBrowserConfirm" => v.browser.open,
         NEW w \in HandleSync(v, a)
  PROVE  SyncOK(w)
<1> USE DEF SyncOK
<1>1. DOMAIN NewSync = {"directory", "focus", "option", "code", "browser", "session",
                        "patterns", "pattern", "editing", "input"}
  BY DEF NewSync
<1>2. CASE a \in {"FocusNext", "FocusPrev"}
  BY <1>1, <1>2 DEF HandleSync, MoveFocus
<1>12. CASE a \in {"Type", "Erase", "Clear"}
  <2>1. Typed(v.input, a, MaxText) \in Nat
    BY ListAssumption DEF Typed, AtMost, Up
  <2>2. \E n : w = [v EXCEPT !.code = n] \/ w = [v EXCEPT !.input = Typed(v.input, a, MaxText)]
    BY <1>12 DEF HandleSync
  <2> QED BY <1>1, <2>1, <2>2
<1>3. CASE a \in {"FocusExcludePatterns", "NextSyncOption", "PrevSyncOption"}
  BY <1>1, <1>3 DEF HandleSync
<1>13. CASE a \in {"StartAddExcludePattern", "CancelAddExcludePattern"}
  <2>1. \E e \in BOOLEAN : w = [v EXCEPT !.editing = e, !.input = 0]
    BY <1>13 DEF HandleSync
  <2>2. /\ DOMAIN w = DOMAIN v /\ w.input = 0 /\ w.patterns = v.patterns /\ w.pattern = v.pattern
        /\ w.directory = v.directory /\ w.session = v.session /\ w.browser = v.browser
    BY <1>1, <2>1
  <2>3. DOMAIN w = DOMAIN NewSync /\ w.session \in BOOLEAN
    BY <2>2
  <2>4. w.browser.open \in BOOLEAN /\ BrowserOK(w.browser, TRUE)
    BY <2>2
  <2>5. w.patterns \in Nat /\ w.patterns <= MaxPatterns
    BY <2>2
  <2>6. w.pattern \in Nat /\ On(w.pattern, w.patterns)
    BY <2>2
  <2>7. NoneOr(Path, w.directory) /\ w.input \in Nat
    BY <2>2
  <2> QED BY <2>3, <2>4, <2>5, <2>6, <2>7
<1>14. CASE a \in {"StartSyncHost", "JoinSync"}
  BY <1>1, <1>14 DEF HandleSync
<1>4. CASE a = "OpenSyncDirectoryBrowser"
  <2>1. (IF v.directory = <<>> THEN <<>> ELSE v.directory[1]) \in Path
    <3>1. <<>> \in Path
      BY DEF Path
    <3>2. \A d : <<d>>[1] = d
      OBVIOUS
    <3> QED BY <3>1, <3>2 DEF NoneOr
  <2> DEFINE d == IF v.directory = <<>> THEN <<>> ELSE v.directory[1]
  <2>2. w \in {v, [v EXCEPT !.browser = OpenBrowser(d, FALSE)]}
    BY <1>4 DEF HandleSync
  <2>3. BrowserOK(OpenBrowser(d, FALSE), TRUE) /\ OpenBrowser(d, FALSE).open = TRUE
    BY <2>1, Opened
  <2> HIDE DEF d
  <2> QED BY <1>1, <2>2, <2>3
<1>5. CASE a = "CloseFileBrowser"
  BY <1>1, <1>5, Closed DEF HandleSync
<1>6. CASE a = "FileBrowserConfirm"
  <2> DEFINE selected == IF v.browser.chosen = {} THEN v.browser.dir
                         ELSE CHOOSE d \in v.browser.chosen : TRUE
  <2>1. selected \in Path
    BY <1>6 DEF BrowserOK
  <2>2. w = [v EXCEPT !.browser = NoBrowser, !.directory = <<selected>>]
    BY <1>6 DEF HandleSync
  <2> HIDE DEF selected
  <2>3. NoneOr(Path, <<selected>>)
    BY <2>1 DEF NoneOr
  <2> QED BY <1>1, <2>2, <2>3, Closed
<1>7. CASE a \in {"ListUp", "ListDown"} /\ v.focus = "ExcludePatterns"
  <2>1. w \in {[v EXCEPT !.pattern = Up(@)], [v EXCEPT !.pattern = Down(@, v.patterns)]}
    BY <1>7 DEF HandleSync
  <2> QED BY <1>1, <2>1, Numbers
<1>8. CASE a = "ConfirmAddExcludePattern"
  <2> DEFINE n == AtMost(v.patterns + AtMost(v.input, 1), MaxPatterns)
  <2>1. n \in Nat /\ n <= MaxPatterns /\ n >= v.patterns
    <3>1. AtMost(v.input, 1) \in {0, 1}
      BY DEF AtMost
    <3> QED BY <3>1, ListAssumption DEF AtMost
  <2>2. On(v.pattern, n)
    BY <2>1 DEF On, LastOf
  <2> HIDE DEF n
  <2>3. \/ w = [v EXCEPT !.editing = FALSE, !.input = 0]
        \/ w = [[v EXCEPT !.editing = FALSE, !.input = 0] EXCEPT !.patterns = n]
    BY <1>1, <1>8 DEF HandleSync, n
  <2>4. /\ DOMAIN w = DOMAIN v /\ w.input = 0 /\ w.patterns \in {v.patterns, n}
        /\ w.pattern = v.pattern /\ w.directory = v.directory /\ w.session = v.session
        /\ w.browser = v.browser
    BY <1>1, <2>3
  <2>5. DOMAIN w = DOMAIN NewSync /\ w.session \in BOOLEAN
    BY <2>4
  <2>6. w.browser.open \in BOOLEAN /\ BrowserOK(w.browser, TRUE)
    BY <2>4
  <2>7. w.patterns \in Nat /\ w.patterns <= MaxPatterns /\ On(w.pattern, w.patterns)
    BY <2>1, <2>2, <2>4
  <2>8. w.pattern \in Nat /\ NoneOr(Path, w.directory) /\ w.input \in Nat
    BY <2>4
  <2> QED BY <2>5, <2>6, <2>7, <2>8
<1>9. CASE a = "RemoveExcludePattern"
  <2>1. w = RemovePattern(v)
    BY <1>9 DEF HandleSync
  <2>2. CASE v.pattern < v.patterns
    <3> DEFINE i == AtMost(v.pattern, LastOf(v.patterns - 1))
    <3>1. i \in Nat /\ On(i, v.patterns - 1) /\ v.patterns - 1 \in Nat /\ v.patterns - 1 <= MaxPatterns
      BY <2>2, ListAssumption DEF AtMost, On, LastOf
    <3>2. w = [v EXCEPT !.patterns = @ - 1, !.pattern = i]
      BY <2>1, <2>2 DEF RemovePattern
    <3> HIDE DEF i
    <3> QED BY <1>1, <3>1, <3>2
  <2> QED BY <2>1, <2>2 DEF RemovePattern
<1>10. CASE a = "StopSync"
  BY <1>1, <1>10, Closed DEF HandleSync, EndSync
<1>11. CASE /\ a \notin {"FocusNext", "FocusPrev", "FocusExcludePatterns", "Type", "Erase", "Clear",
                         "NextSyncOption", "PrevSyncOption", "StartAddExcludePattern",
                         "CancelAddExcludePattern", "StartSyncHost", "JoinSync",
                         "OpenSyncDirectoryBrowser", "CloseFileBrowser", "FileBrowserConfirm",
                         "ConfirmAddExcludePattern", "RemoveExcludePattern", "StopSync"}
            /\ ~(a \in {"ListUp", "ListDown"} /\ v.focus = "ExcludePatterns")
  <2>1. CASE v.browser.open
    <3>1. w = [v EXCEPT !.browser = Browse(@, a, TRUE)]
      BY <1>11, <2>1 DEF HandleSync
    <3>2. LET b == Browse(v.browser, a, TRUE) IN BrowserOK(b, TRUE) /\ b.open
      BY <2>1, BrowseKeeps
    <3> QED BY <1>1, <3>1, <3>2
  <2>2. CASE ~v.browser.open
    BY <1>11, <2>2 DEF HandleSync
  <2> QED BY <2>1, <2>2
<1> QED BY <1>2, <1>12, <1>13, <1>14, <1>3, <1>4, <1>5, <1>6, <1>7, <1>8, <1>9, <1>10, <1>11

(* Clearing the history would leave the cursor: no key does it, see         *)
(* HistoryActions.                                                          *)
LEMMA ListHandled ==
  ASSUME NEW v, ListOK(v), NEW a, a # "ConfirmClearHistory", NEW w \in HandleList(v, a)
  PROVE  ListOK(w)
<1> USE DEF ListOK
<1>1. DOMAIN NewDevices = {"index", "focus", "confirm", "count"}
  BY DEF NewDevices
<1>2. CASE a \in {"ListUp", "ListDown", "ListFirst", "ListLast"}
  BY <1>1, <1>2, Numbers DEF HandleList
<1>3. CASE a = "ConfirmRemoveDevice"
  <2>1. w = [v EXCEPT !.confirm = FALSE] \/ (v.index < v.count /\ w = RemoveDevice(v))
    BY <1>3 DEF HandleList
  <2>2. CASE v.index < v.count /\ w = RemoveDevice(v)
    <3> DEFINE i == AtMost(v.index, LastOf(v.count - 1))
    <3>1. i \in Nat /\ On(i, v.count - 1) /\ v.count - 1 \in Nat
      BY <2>2 DEF AtMost, On, LastOf
    <3>2. w = [v EXCEPT !.confirm = FALSE, !.count = @ - 1, !.index = i]
      BY <2>2 DEF RemoveDevice
    <3> HIDE DEF i
    <3> QED BY <1>1, <3>1, <3>2
  <2> QED BY <1>1, <2>1, <2>2
<1>4. CASE a \notin {"ListUp", "ListDown", "ListFirst", "ListLast", "ConfirmRemoveDevice"}
  BY <1>1, <1>4 DEF HandleList
<1> QED BY <1>2, <1>3, <1>4

LEMMA ConfigHandled ==
  ASSUME NEW v, ConfigOK(v), NEW a, NEW w \in HandleConfig(v, a)
  PROVE  ConfigOK(w)
<1> USE DEF ConfigOK
<1>1. DOMAIN NewConfig = {"section", "setting", "focus", "editing", "buffer", "pending", "save", "revert"}
  BY DEF NewConfig
<1>2. \A i \in DOMAIN Settings : Len(Settings[i]) \in Nat
  BY SettingsAssumption
<1>3. \A i \in DOMAIN Settings : ConfigOK(InSection(v, i))
  BY <1>1, <1>2, Numbers DEF InSection, On, LastOf
<1>4. CASE a \in {"ListUp", "ListDown", "ListFirst", "ListLast"} /\ v.focus = "SectionList"
  <2>1. /\ 1 \in DOMAIN Settings /\ Len(Settings) \in DOMAIN Settings
        /\ v.section # 1 => v.section - 1 \in DOMAIN Settings
        /\ v.section # Len(Settings) => v.section + 1 \in DOMAIN Settings
    BY SettingsAssumption
  <2>2. w = v \/ \E i \in DOMAIN Settings : w = InSection(v, i)
    BY <1>4, <2>1 DEF HandleConfig
  <2> QED BY <1>3, <2>2
<1>5. CASE a \in {"ListUp", "ListDown", "ListFirst", "ListLast"} /\ v.focus # "SectionList"
  BY <1>1, <1>2, <1>5, Numbers DEF HandleConfig
<1>6. CASE a \in {"ToggleConfigSetting", "CycleConfigSetting", "ConfirmEdit", "CancelEdit"}
  BY <1>1, <1>6 DEF HandleConfig, ToggleSetting, CycleSetting, ConfirmEdit, EndEdit, Changed
<1>7. CASE a \in {"ConfirmRevertConfig", "RefreshConfig"}
  <2>1. On(0, Len(Settings[v.section]))
    BY <1>2, Numbers DEF On, LastOf
  <2>2. w \in {[v EXCEPT !.revert = FALSE, !.pending = {}, !.setting = 0],
               [v EXCEPT !.pending = {}, !.setting = 0]}
    BY <1>7 DEF HandleConfig, RevertChanges
  <2>3. /\ DOMAIN w = DOMAIN v /\ w.section = v.section /\ w.setting = 0
        /\ w.editing = v.editing /\ w.save = v.save /\ w.revert \in {v.revert, FALSE}
    BY <1>1, <2>2
  <2>4. DOMAIN w = DOMAIN NewConfig
    BY <2>3
  <2>5. w.section \in DOMAIN Settings
    BY <2>3
  <2>6. w.setting \in Nat /\ On(w.setting, Len(Settings[w.section]))
    BY <2>1, <2>3
  <2>7. w.editing \in BOOLEAN /\ w.save \in BOOLEAN 
    BY <2>1, <2>3
  <2>8. w.revert \in BOOLEAN
    BY <2>1, <2>3
  <2> QED BY <2>4, <2>5, <2>6, <2>7, <2>8
<1>8. CASE a \notin {"ListUp", "ListDown", "ListFirst", "ListLast", "ToggleConfigSetting",
                     "CycleConfigSetting", "ConfirmEdit", "CancelEdit", "ConfirmRevertConfig",
                     "RefreshConfig"}
  BY <1>1, <1>8 DEF HandleConfig, SaveConfig
<1> QED BY <1>4, <1>5, <1>6, <1>7, <1>8

-----------------------------------------------------------------------------
AppOK(s) ==
  /\ DOMAIN s = DOMAIN Start("Share")
  /\ s.view \in AllViews /\ s.help \in BOOLEAN /\ s.quit \in BOOLEAN
  /\ ShareOK(s.share) /\ ReceiveOK(s.receive) /\ ClipboardOK(s.clipboard) /\ SyncOK(s.sync)
  /\ ListOK(s.devices) /\ ListOK(s.history) /\ ConfigOK(s.config)

Edits(c, setting) == c.editing => ~c.save /\ ~c.revert /\ setting = <<c.section, c.setting>>

KeysInv ==
  /\ AppOK(app)
  /\ app.config.editing => app.view = "Config"
  /\ Edits(app.config, edited)

-----------------------------------------------------------------------------
(* Every key that changes the view finds one.                               *)
LEMMA ViewPositions ==
  ASSUME NEW i \in 1..7
  PROVE  /\ ViewOrder[i] \in AllViews /\ Len(ViewOrder) = 7 /\ DOMAIN ViewOrder = 1..7
         /\ Position(ViewOrder[i]) = i
<1>1. Len(ViewOrder) = 7 /\ DOMAIN ViewOrder = 1..7
  BY DEF ViewOrder
<1>2. ViewOrder[i] \in AllViews
  BY <1>1 DEF AllViews
<1>3. \A j \in 1..7 : ViewOrder[j] = ViewOrder[i] => j = i
  BY DEF ViewOrder
<1>4. Position(ViewOrder[i]) = i
  BY <1>1, <1>3 DEF Position
<1> QED BY <1>1, <1>2, <1>4

LEMMA OtherViews ==
  /\ \A v \in AllViews : NextView(v) \in AllViews /\ PrevView(v) \in AllViews
  /\ \A k \in DOMAIN Shortcut : Shortcut[k] \in AllViews
<1>1. \A i \in 1..7 : NextView(ViewOrder[i]) = ViewOrder[(i % 7) + 1]
  BY ViewPositions DEF NextView
<1>2. \A v \in AllViews : \E i \in 1..7 : v = ViewOrder[i]
  BY ViewPositions DEF AllViews
<1>3. \A v \in AllViews : NextView(v) \in AllViews
  BY <1>1, <1>2, ViewPositions
<1>4. \A v \in AllViews : \E w \in AllViews : NextView(w) = v
  <2> SUFFICES ASSUME NEW i \in 1..7 PROVE \E w \in AllViews : NextView(w) = ViewOrder[i]
    BY <1>2
  <2>1. \E j \in 1..7 : (j % 7) + 1 = i
    <3>1. CASE i = 1
      <4>1. (7 % 7) + 1 = i
        BY <3>1
      <4> QED BY <4>1
    <3>2. CASE i # 1
      <4>1. i - 1 \in 1..7 /\ ((i - 1) % 7) + 1 = i
        BY <3>2
      <4> QED BY <4>1
    <3> QED BY <3>1, <3>2
  <2> QED BY <1>1, <2>1, ViewPositions
<1>5. \A v \in AllViews : PrevView(v) \in AllViews
  BY <1>4 DEF PrevView
<1>6. AllViews = {"Share", "Receive", "Clipboard", "Sync", "Devices", "History", "Config"}
  BY DEF AllViews, ViewOrder
<1>7. \A k \in DOMAIN Shortcut : Shortcut[k] \in AllViews
  BY <1>6 DEF Shortcut
<1> QED BY <1>3, <1>5, <1>7

(* What a key finds in two tables, and in one.                              *)
LEMMA InTables ==
  ASSUME NEW f, NEW g, NEW k
  PROVE  Lookup(f ++ g, k) = IF k \in DOMAIN f THEN Lookup(f, k) ELSE Lookup(g, k)
BY DEF Lookup, ++

LEMMA InEither ==
  ASSUME NEW f, NEW g, NEW k
  PROVE  Lookup(f ++ g, k) \in {Lookup(f, k), Lookup(g, k)}
BY DEF Lookup, ++

LEMMA InTable ==
  ASSUME NEW keys, NEW a, NEW k
  PROVE  /\ Lookup(Table(keys, a), k) = IF k \in keys THEN a ELSE "None"
         /\ DOMAIN Table(keys, a) = keys
BY DEF Lookup, Table

LEMMA Found ==
  ASSUME NEW keys, NEW a, NEW k
  PROVE  Lookup(Table(keys, a), k) \in {a, "None"}
BY InTable

(* Actions that no table of a view may hold, and one that none gets.        *)
NotOfView == {"SwitchView", "NextView", "PrevView", "Quit", "ToggleHelp", "ConfirmClearHistory"}

LEMMA CodeActions ==
  ASSUME NEW n, NEW k
  PROVE  Lookup(CodeKeys(n), k) \notin NotOfView \cup {"FileBrowserConfirm"}
BY InEither, Found DEF CodeKeys, Nothing, FocusKeys, NotOfView

LEMMA BrowserActions ==
  ASSUME NEW k PROVE Lookup(BrowserKeys, k) \notin NotOfView
BY InEither, Found DEF BrowserKeys, NotOfView

LEMMA ShareActions ==
  ASSUME NEW s, NEW k
  PROVE  /\ ShareKey(s, k) \notin NotOfView
         /\ ShareKey(s, k) = "FileBrowserConfirm" => s.share.browser.open
<1>1. Lookup(ShareOptionKeys(s), k) \notin NotOfView \cup {"FileBrowserConfirm"}
  <2>1. CASE s.share.option = "Expire"
    BY <2>1, InEither, Found DEF ShareOptionKeys, Nothing, NotOfView
  <2>2. CASE s.share.option # "Expire"
    BY <2>2, InEither, Found DEF ShareOptionKeys, Nothing, NotOfView
  <2> QED BY <2>1, <2>2
<1> QED BY <1>1, BrowserActions, InEither, Found DEF ShareKey, ListKeys, NotOfView

LEMMA ReceiveActions ==
  ASSUME NEW s, NEW k PROVE ReceiveKey(s, k) \notin NotOfView
<1>1. IpKey(s, k) \notin NotOfView
  BY DEF IpKey, NotOfView, Digits
<1> QED BY <1>1, CodeActions, InEither, Found DEF ReceiveKey, FocusKeys, ListKeys, NotOfView

LEMMA ClipboardActions ==
  ASSUME NEW s, NEW k PROVE ClipboardKey(s, k) \notin NotOfView
BY CodeActions, InEither, Found DEF ClipboardKey, FocusKeys, NotOfView

LEMMA SyncActions ==
  ASSUME NEW s, NEW k
  PROVE  /\ SyncKey(s, k) \notin NotOfView
         /\ SyncKey(s, k) = "FileBrowserConfirm" => s.sync.browser.open
<1> USE BrowserActions, CodeActions, InEither, Found DEF SyncKey, Nothing, ListKeys, NotOfView
<1>1. CASE s.sync.focus = "Directory"
  BY <1>1
<1>2. CASE s.sync.focus = "Options"
  BY <1>2
<1>3. CASE s.sync.focus = "CodeInput"
  BY <1>3
<1>4. CASE s.sync.focus = "ExcludePatterns"
  BY <1>4
<1>5. CASE s.sync.focus \notin {"Directory", "Options", "CodeInput", "ExcludePatterns"}
  BY <1>5
<1> QED BY <1>1, <1>2, <1>3, <1>4, <1>5

LEMMA DevicesActions ==
  ASSUME NEW s, NEW k PROVE DevicesKey(s, k) \notin NotOfView
BY InEither, Found DEF DevicesKey, AskKeys, ListKeys, EndKeys, NotOfView

(* [Y] would clear the history, but Y is the key of the Sync view.          *)
LEMMA HistoryActions ==
  ASSUME NEW s, NEW k, k # "y" PROVE HistoryKey(s, k) \notin NotOfView
BY InTables, InTable DEF HistoryKey, AskKeys, ListKeys, EndKeys, NotOfView

LEMMA ConfigActions ==
  ASSUME NEW s, NEW k PROVE ConfigKey(s, k) \notin NotOfView
<1> USE InEither, Found DEF ConfigKey, AskKeys, ListKeys, EndKeys, Nothing, NotOfView
<1>1. CASE s.config.save
  BY <1>1
<1>2. CASE ~s.config.save /\ s.config.revert
  BY <1>2
<1>3. CASE ~s.config.save /\ ~s.config.revert
  BY <1>3
<1> QED BY <1>1, <1>2, <1>3

LEMMA GlobalActions ==
  ASSUME NEW s, NEW k \in Keys
  PROVE  /\ GlobalKey(s, k) \in {"Quit", "ToggleHelp", "NextView", "PrevView", "SwitchView",
                                 "FocusNext", "FocusPrev", "None", "Pass"}
         /\ GlobalKey(s, k) = "SwitchView" => Plain(k) \in DOMAIN Shortcut
         /\ s.view = "History" /\ GlobalKey(s, k) = "Pass" => Plain(k) # "y"
<1>1. /\ GlobalKey(s, k) \in {"Quit", "ToggleHelp", "NextView", "PrevView", "SwitchView",
                                 "FocusNext", "FocusPrev", "None", "Pass"}
      /\ GlobalKey(s, k) = "SwitchView" => Plain(k) \in DOMAIN Shortcut
  BY InEither, Found DEF GlobalKey, FocusKeys
<1>2. s.view = "History" /\ k = "y" => GlobalKey(s, k) # "Pass"
  BY DEF GlobalKey, Plain, KeptByView, InInputMode, Shortcut
<1>3. k # "y" => Plain(k) # "y"
  BY DEF Plain
<1> QED BY <1>1, <1>2, <1>3

(* What map_key_event never answers, in any state.                          *)
LEMMA MappedActions ==
  ASSUME NEW s, NEW k \in Keys, s.view \in AllViews
  PROVE  /\ MapKey(s, k) # "ConfirmClearHistory"
         /\ MapKey(s, k) = "SwitchView" => Plain(k) \in DOMAIN Shortcut
         /\ MapKey(s, k) = "FileBrowserConfirm" /\ s.view = "Share" => s.share.browser.open
         /\ MapKey(s, k) = "FileBrowserConfirm" /\ s.view = "Sync" => s.sync.browser.open
<1>1. CASE s.help \/ GlobalKey(s, k) # "Pass"
  BY <1>1, GlobalActions DEF MapKey
<1>2. CASE ~s.help /\ GlobalKey(s, k) = "Pass"
  <2>1. MapKey(s, k) = ViewKey(s, k)
    BY <1>2 DEF MapKey
  <2>2. s.view = "History" => HistoryKey(s, Plain(k)) \notin NotOfView
    BY <1>2, GlobalActions, HistoryActions
  <2>3. /\ ViewKey(s, k) \notin NotOfView
        /\ s.view = "Share" => ViewKey(s, k) = ShareKey(s, Plain(k))
        /\ s.view = "Sync" => ViewKey(s, k) = SyncKey(s, Plain(k))
    BY <2>2, ShareActions, ReceiveActions, ClipboardActions, SyncActions, DevicesActions, ConfigActions
    DEF ViewKey, AllViews, ViewOrder
  <2> QED BY <2>1, <2>3, ShareActions, SyncActions DEF NotOfView
<1> QED BY <1>1, <1>2

AppFields == {"view", "help", "quit", "share", "receive", "clipboard", "sync", "devices", "history",
              "config"}

(* A key leaves a state of the views behind, whatever it means.             *)
LEMMA ActionHandled ==
  ASSUME NEW s, AppOK(s), NEW k \in Keys, NEW t \in HandleAction(s, MapKey(s, k), k)
  PROVE  AppOK(t)
<1> DEFINE a == MapKey(s, k)
<1>1. DOMAIN s = AppFields
  BY DEF AppOK, Start, AppFields
<1>2. CASE a \in {"Quit", "ToggleHelp", "SwitchView", "NextView", "PrevView"}
  <2>1. s.view \in AllViews
    BY DEF AppOK
  <2>2. \/ t = [s EXCEPT !.quit = TRUE]
        \/ t = [s EXCEPT !.help = ~@]
        \/ \E v \in AllViews : t = [s EXCEPT !.view = v]
    BY <1>2, <2>1, MappedActions, OtherViews DEF HandleAction
  <2> QED BY <1>1, <2>2 DEF AppOK, AppFields
<1>3. CASE a \notin {"Quit", "ToggleHelp", "SwitchView", "NextView", "PrevView"}
  <2>1. t \in HandleView(s, a)
    BY <1>3 DEF HandleAction
  <2>2. /\ a # "ConfirmClearHistory"
        /\ a = "FileBrowserConfirm" /\ s.view = "Share" => s.share.browser.open
        /\ a = "FileBrowserConfirm" /\ s.view = "Sync" => s.sync.browser.open
    BY MappedActions DEF AppOK
  <2> HIDE DEF a
  <2>3. CASE s.view = "Share"
    <3>1. PICK v \in HandleShare(s.share, a) : t = [s EXCEPT !.share = v]
      BY <2>1, <2>3 DEF HandleView
    <3>2. ShareOK(v)
      BY <2>2, <2>3, ShareHandled DEF AppOK
    <3> QED BY <1>1, <3>1, <3>2 DEF AppOK, AppFields
  <2>4. CASE s.view = "Receive"
    <3>1. PICK v \in HandleReceive(s.receive, a) : t = [s EXCEPT !.receive = v]
      BY <2>1, <2>4 DEF HandleView
    <3>2. ReceiveOK(v)
      BY ReceiveHandled DEF AppOK
    <3> QED BY <1>1, <3>1, <3>2 DEF AppOK, AppFields
  <2>5. CASE s.view = "Clipboard"
    <3>1. PICK v \in HandleClipboard(s.clipboard, a) : t = [s EXCEPT !.clipboard = v]
      BY <2>1, <2>5 DEF HandleView
    <3>2. ClipboardOK(v)
      BY ClipboardHandled DEF AppOK
    <3> QED BY <1>1, <3>1, <3>2 DEF AppOK, AppFields
  <2>6. CASE s.view = "Sync"
    <3>1. PICK v \in HandleSync(s.sync, a) : t = [s EXCEPT !.sync = v]
      BY <2>1, <2>6 DEF HandleView
    <3>2. SyncOK(v)
      BY <2>2, <2>6, SyncHandled DEF AppOK
    <3> QED BY <1>1, <3>1, <3>2 DEF AppOK, AppFields
  <2>7. CASE s.view = "Devices"
    <3>1. PICK v \in HandleList(s.devices, a) : t = [s EXCEPT !.devices = v]
      BY <2>1, <2>7 DEF HandleView
    <3>2. ListOK(v)
      BY <2>2, ListHandled DEF AppOK
    <3> QED BY <1>1, <3>1, <3>2 DEF AppOK, AppFields
  <2>8. CASE s.view = "History"
    <3>1. PICK v \in HandleList(s.history, a) : t = [s EXCEPT !.history = v]
      BY <2>1, <2>8 DEF HandleView
    <3>2. ListOK(v)
      BY <2>2, ListHandled DEF AppOK
    <3> QED BY <1>1, <3>1, <3>2 DEF AppOK, AppFields
  <2>9. CASE s.view = "Config"
    <3>1. PICK v \in HandleConfig(s.config, a) : t = [s EXCEPT !.config = v]
      BY <2>1, <2>9 DEF HandleView
    <3>2. ConfigOK(v)
      BY ConfigHandled DEF AppOK
    <3> QED BY <1>1, <3>1, <3>2 DEF AppOK, AppFields
  <2> QED BY <2>3, <2>4, <2>5, <2>6, <2>7, <2>8, <2>9 DEF AppOK, AllViews, ViewOrder
<1> QED BY <1>2, <1>3

-----------------------------------------------------------------------------
(* While a value is typed, no key moves a cursor or leaves the view.        *)
LEMMA EditingKeys ==
  ASSUME NEW s, NEW k \in Keys, s.view = "Config", s.config.editing,
         ~s.config.save, ~s.config.revert
  PROVE  MapKey(s, k) \in {"Quit", "ToggleHelp", "FocusNext", "FocusPrev", "ConfirmEdit",
                           "CancelEdit", "Erase", "Type", "None"}
<1>1. GlobalKey(s, k) \in {"Quit", "ToggleHelp", "FocusNext", "FocusPrev", "None", "Pass"}
  BY InEither, Found DEF GlobalKey, InInputMode, FocusKeys
<1>2. ConfigKey(s, k) \in {"ConfirmEdit", "CancelEdit", "Erase", "Type", "None"}
  BY InEither, Found DEF ConfigKey
<1> QED BY <1>1, <1>2 DEF MapKey, ViewKey

(* No edit starts under a question.                                         *)
LEMMA EditStarts ==
  ASSUME NEW s, NEW k \in Keys, s.view = "Config", MapKey(s, k) = "StartEditSetting"
  PROVE  ~s.config.save /\ ~s.config.revert
<1>1. GlobalKey(s, k) # "StartEditSetting"
  BY InEither, Found DEF GlobalKey, FocusKeys
<1>2. s.config.save \/ s.config.revert => ConfigKey(s, k) # "StartEditSetting"
  <2>1. CASE s.config.save
    BY <2>1, InEither, Found DEF ConfigKey, AskKeys
  <2>2. CASE ~s.config.save /\ s.config.revert
    BY <2>2, InEither, Found DEF ConfigKey, AskKeys
  <2> QED BY <2>1, <2>2
<1> QED BY <1>1, <1>2 DEF MapKey, ViewKey

LEMMA NotEdited ==
  ASSUME NEW v, ConfigOK(v), ~v.editing, NEW a, a # "StartEditSetting", NEW w \in HandleConfig(v, a)
  PROVE  ~w.editing
<1>1. DOMAIN v = {"section", "setting", "focus", "editing", "buffer", "pending", "save", "revert"}
  BY DEF ConfigOK, NewConfig
<1> QED BY <1>1 DEF HandleConfig, InSection, EndEdit, Changed, ToggleSetting, CycleSetting,
                    ConfirmEdit, SaveConfig, RevertChanges

LEMMA ConfigEdits ==
  ASSUME NEW v, ConfigOK(v), NEW a, NEW w \in HandleConfig(v, a), NEW e, Edits(v, e)
  PROVE  /\ a \in {"FocusNext", "FocusPrev", "ConfirmEdit", "CancelEdit", "Erase", "Type", "None"}
              => Edits(w, e)
         /\ a = "StartEditSetting" /\ ~v.save /\ ~v.revert => Edits(w, <<v.section, v.setting>>)
<1>1. DOMAIN v = {"section", "setting", "focus", "editing", "buffer", "pending", "save", "revert"}
  BY DEF ConfigOK, NewConfig
<1>2. a \in {"FocusNext", "FocusPrev", "ConfirmEdit", "CancelEdit", "Erase", "Type", "None"}
        => Edits(w, e)
  BY <1>1 DEF HandleConfig, EndEdit, Changed, ConfirmEdit, Edits
<1>3. a = "StartEditSetting" /\ ~v.save /\ ~v.revert => Edits(w, <<v.section, v.setting>>)
  BY <1>1 DEF HandleConfig, Edits
<1> QED BY <1>2, <1>3

(* Only the configuration view's own actions change its state.              *)
LEMMA OutsideConfig ==
  ASSUME NEW s, AppOK(s), NEW k \in Keys, NEW t \in HandleAction(s, MapKey(s, k), k)
  PROVE  \/ t.config = s.config /\ (t.view = s.view \/ MapKey(s, k) \in {"SwitchView", "NextView", "PrevView"})
         \/ /\ s.view = "Config" /\ t.view = "Config"
            /\ MapKey(s, k) \notin Common
            /\ t.config \in HandleConfig(s.config, MapKey(s, k))
<1> DEFINE a == MapKey(s, k)
<1>1. DOMAIN s = AppFields
  BY DEF AppOK, Start, AppFields
<1>2. CASE a \in Common
  BY <1>1, <1>2 DEF HandleAction, AppFields, Common
<1>3. CASE a \notin Common
  <2>1. t \in HandleView(s, a)
    BY <1>3 DEF HandleAction, Common
  <2>2. s.view \in {"Share", "Receive", "Clipboard", "Sync", "Devices", "History", "Config"}
    BY DEF AppOK, AllViews, ViewOrder
  <2> HIDE DEF a
  <2>3. CASE s.view = "Config"
    <3>1. PICK w \in HandleConfig(s.config, a) : t = [s EXCEPT !.config = w]
      BY <2>1, <2>3 DEF HandleView
    <3> QED BY <1>1, <1>3, <2>3, <3>1 DEF AppFields, a
  <2>4. CASE s.view # "Config"
    <3>1. \E f \in AppFields \ {"config", "view"} : \E w : t = [s EXCEPT ![f] = w]
      BY <2>1, <2>2, <2>4 DEF HandleView, AppFields
    <3> QED BY <1>1, <3>1 DEF AppFields
  <2> QED BY <2>3, <2>4
<1> QED BY <1>2, <1>3

LEMMA KeysStart == InputInit \/ (app = Start("Share") /\ edited = <<>>) => KeysInv
<1> SUFFICES ASSUME NEW v \in AllViews, app = Start(v) PROVE KeysInv
  BY DEF InputInit, AllViews, ViewOrder
<1>1. /\ DOMAIN app = DOMAIN Start("Share")
      /\ app.view = v /\ app.help = FALSE /\ app.quit = FALSE
      /\ app.share = NewShare /\ app.receive = NewReceive /\ app.clipboard = NewClipboard
      /\ app.sync = NewSync /\ app.devices = NewDevices /\ app.history = NewHistory
      /\ app.config = NewConfig
  BY DEF Start
<1>2. Devices \in Nat /\ Entries \in Nat /\ MaxFiles \in Nat /\ MaxPatterns \in Nat
  BY ListAssumption
<1>9. NoBrowser.open \in BOOLEAN /\ BrowserOK(NoBrowser, FALSE) /\ BrowserOK(NoBrowser, TRUE)
  BY Closed
<1>3. \A n \in Nat : On(0, n)
  BY DEF On, LastOf
<1>4. ShareOK(NewShare) /\ SyncOK(NewSync)
  <2>1. ShareOK(NewShare)
    <3>1. /\ NewShare.files = 0 /\ NewShare.index = 0 /\ NewShare.session \in BOOLEAN
          /\ NewShare.browser = NoBrowser
      BY DEF NewShare
    <3>2. 0 \in Nat /\ 0 <= MaxFiles /\ On(0, 0)
      BY <1>2, <1>3
    <3>3. NewShare.browser.open \in BOOLEAN /\ BrowserOK(NewShare.browser, FALSE)
      BY <1>9, <3>1
    <3>4. On(NewShare.index, NewShare.files)
      BY <3>1, <3>2
    <3> QED BY <3>1, <3>2, <3>3, <3>4 DEF ShareOK
  <2>2. SyncOK(NewSync)
    <3>1. /\ NewSync.patterns = 0 /\ NewSync.pattern = 0 /\ NewSync.directory = <<>>
          /\ NewSync.input = 0 /\ NewSync.session \in BOOLEAN /\ NewSync.browser = NoBrowser
      BY DEF NewSync
    <3>2. 0 \in Nat /\ 0 <= MaxPatterns /\ On(0, 0)
      BY <1>2, <1>3
    <3>3. NewSync.browser.open \in BOOLEAN /\ BrowserOK(NewSync.browser, TRUE)
      BY <1>9, <3>1
    <3>4. NoneOr(Path, NewSync.directory) /\ On(NewSync.pattern, NewSync.patterns)
      BY <3>1, <3>2 DEF NoneOr
    <3> QED BY <3>1, <3>2, <3>3, <3>4 DEF SyncOK
  <2> QED BY <2>1, <2>2
<1>5. ReceiveOK(NewReceive) /\ ClipboardOK(NewClipboard)
  BY <1>2, <1>3 DEF ReceiveOK, NewReceive, ClipboardOK, NewClipboard
<1>6. ListOK(NewDevices) /\ ListOK(NewHistory)
  BY <1>2, <1>3 DEF ListOK, NewDevices, NewHistory
<1>7. ConfigOK(NewConfig)
  BY <1>3, SettingsAssumption DEF ConfigOK, NewConfig
<1>8. NewConfig.editing = FALSE
  BY DEF NewConfig
<1> QED BY <1>1, <1>4, <1>5, <1>6, <1>7, <1>8 DEF KeysInv, AppOK, Edits

(* A key keeps the invariant.                                               *)
LEMMA KeysPressed ==
  ASSUME KeysInv, NEW k \in Keys, PressKey(k)
  PROVE  KeysInv'
<1> DEFINE a == MapKey(app, k)
<1>1. /\ app' \in HandleAction(app, a, k)
      /\ edited' = IF a = "StartEditSetting" THEN <<app.config.section, app.config.setting>>
                   ELSE edited
  BY DEF PressKey
<1>2. AppOK(app) /\ AppOK(app')
  BY <1>1, ActionHandled DEF KeysInv
<1>3. AppOK(app)'
  BY <1>2
<1>4. ConfigOK(app.config) /\ Edits(app.config, edited) /\ (app.config.editing => app.view = "Config")
  BY <1>2 DEF KeysInv, AppOK
<1>5. a \in {"SwitchView", "NextView", "PrevView"} => ~app.config.editing
  BY <1>4, EditingKeys DEF Edits
<1>6. CASE app'.config = app.config /\ (app'.view = app.view \/ a \in {"SwitchView", "NextView", "PrevView"})
  <2>1. app.config.editing => edited' = edited /\ app'.view = app.view
    BY <1>1, <1>4, <1>5, <1>6, EditingKeys DEF Edits
  <2> QED BY <1>3, <1>4, <1>6, <2>1 DEF KeysInv, Edits
<1>7. CASE /\ app.view = "Config" /\ app'.view = "Config" /\ a \notin Common
           /\ app'.config \in HandleConfig(app.config, a)
  <2>1. CASE app.config.editing
    <3>1. a \in {"FocusNext", "FocusPrev", "ConfirmEdit", "CancelEdit", "Erase", "Type", "None"}
      BY <1>4, <1>7, <2>1, EditingKeys DEF Edits, Common
    <3>2. Edits(app'.config, edited')
      <4> HIDE DEF a
      <4> QED BY <1>1, <1>4, <1>7, <3>1, ConfigEdits
    <3> QED BY <1>3, <1>7, <3>2 DEF KeysInv
  <2>2. CASE ~app.config.editing
    <3>1. a = "StartEditSetting" => ~app.config.save /\ ~app.config.revert
      BY <1>7, EditStarts
    <3> HIDE DEF a
    <3>2. CASE a = "StartEditSetting"
      BY <1>1, <1>3, <1>4, <1>7, <3>1, <3>2, ConfigEdits DEF KeysInv
    <3>3. CASE a # "StartEditSetting"
      <4>1. ~app'.config.editing
        BY <1>4, <1>7, <2>2, <3>3, NotEdited
      <4> QED BY <1>3, <4>1 DEF KeysInv, Edits
    <3> QED BY <3>2, <3>3
  <2> QED BY <2>1, <2>2
<1> QED BY <1>1, <1>2, <1>6, <1>7, OutsideConfig

(* What a poll changes: the session, the operation or the focus of a view.  *)
LEMMA KeysPolled ==
  ASSUME KeysInv,
         \/ ShareEnds \/ ReceiveConnected \/ ReceiveEnds \/ ClipboardShareEnds
         \/ ClipboardReceiveEnds \/ PeerConnected \/ SyncFailed
  PROVE  KeysInv'
<1>1. DOMAIN app = AppFields
  BY DEF KeysInv, AppOK, Start, AppFields
<1>2. edited' = edited
  BY DEF ShareEnds, ReceiveConnected, ReceiveEnds, ClipboardShareEnds, ClipboardReceiveEnds,
         PeerConnected, SyncFailed, Polled
<1>3. /\ ShareOK(app.share) /\ ReceiveOK(app.receive) /\ ClipboardOK(app.clipboard) /\ SyncOK(app.sync)
  BY DEF KeysInv, AppOK
<1>4. CASE ShareEnds
  <2>1. ShareOK([app.share EXCEPT !.session = FALSE])
    BY <1>3 DEF ShareOK, NewShare
  <2>2. app' = [app EXCEPT !.share = [app.share EXCEPT !.session = FALSE]]
    BY <1>4 DEF ShareEnds, Polled
  <2> QED BY <1>1, <1>2, <2>1, <2>2 DEF KeysInv, AppOK, AppFields
<1>5. CASE ReceiveConnected \/ ReceiveEnds
  <2>1. \E w : ReceiveOK(w) /\ app' = [app EXCEPT !.receive = w]
    <3>1. ReceiveOK([app.receive EXCEPT !.session = "Pending"]) /\ ReceiveOK(EndReceive(app.receive))
      BY <1>3 DEF ReceiveOK, NewReceive, EndReceive
    <3>2. app' \in {[app EXCEPT !.receive = [app.receive EXCEPT !.session = "Pending"]],
                    [app EXCEPT !.receive = EndReceive(app.receive)]}
      BY <1>5 DEF ReceiveConnected, ReceiveEnds, Polled
    <3> QED BY <3>1, <3>2
  <2> QED BY <1>1, <1>2, <2>1 DEF KeysInv, AppOK, AppFields
<1>6. CASE ClipboardShareEnds \/ ClipboardReceiveEnds \/ PeerConnected
  <2>1. \E w : ClipboardOK(w) /\ app' = [app EXCEPT !.clipboard = w]
    <3> DEFINE c == app.clipboard
               S == {EndOperation(c), [EndOperation(c) EXCEPT !.code = 0],
                     [c EXCEPT !.operation = "None", !.sync = TRUE]}
    <3>1. \A w \in S : ClipboardOK(w)
      BY <1>3 DEF ClipboardOK, NewClipboard, EndOperation
    <3>2. \E w \in S : app' = [app EXCEPT !.clipboard = w]
      BY <1>1, <1>6 DEF ClipboardShareEnds, ClipboardReceiveEnds, PeerConnected, Polled, AppFields
    <3> QED BY <3>1, <3>2
  <2> QED BY <1>1, <1>2, <2>1 DEF KeysInv, AppOK, AppFields
<1>7. CASE SyncFailed
  <2>1. SyncOK([app.sync EXCEPT !.session = FALSE])
    BY <1>3 DEF SyncOK, NewSync
  <2>2. app' = [app EXCEPT !.sync = [app.sync EXCEPT !.session = FALSE]]
    BY <1>7 DEF SyncFailed, Polled
  <2> QED BY <1>1, <1>2, <2>1, <2>2 DEF KeysInv, AppOK, AppFields
<1> QED BY <1>4, <1>5, <1>6, <1>7

(* The inductive invariant of the keys and the polls of App::run, for any   *)
(* lists, tree and sections: each view's state is one that its handlers     *)
(* are written for, and an edit is of the setting under the cursor, with    *)
(* no question open above it.                                               *)
THEOREM KeysInvariant == AppSteps => []KeysInv
<1>1. AppInit => KeysInv
  BY KeysStart DEF AppInit
<1>2. KeysInv /\ [AppNext]_appVars => KeysInv'
  <2> SUFFICES ASSUME KeysInv, [AppNext]_appVars PROVE KeysInv'
    OBVIOUS
  <2>1. CASE UNCHANGED inputVars
    BY <2>1 DEF inputVars, KeysInv
  <2>2. CASE InputNext
    BY <2>1, <2>2, KeysPressed, KeysPolled DEF InputNext, Stopped
  <2> QED BY <2>1, <2>2 DEF AppNext, appVars
<1> QED BY <1>1, <1>2, PTL DEF AppSteps

(* Every cursor is on an entry of its list, or at 0 in an empty one: no     *)
(* handler of tui/app.rs indexes past the end.                              *)
THEOREM CursorsOnLists == AppSteps => []SelectionOnList
<1>1. KeysInv => SelectionOnList
  BY DEF KeysInv, AppOK, SelectionOnList, ShareOK, ReceiveOK, SyncOK, ListOK, ConfigOK,
         BrowserOK, BrowserOn
<1> QED BY <1>1, KeysInvariant, PTL

(* A typed value is stored under the setting whose editing was started      *)
(* (confirm_edit reads the cursor again).                                   *)
THEOREM EditsStay == AppSteps => []EditKeepsItsSetting
<1>1. KeysInv => EditKeepsItsSetting
  BY DEF KeysInv, Edits, EditKeepsItsSetting
<1> QED BY <1>1, KeysInvariant, PTL

-----------------------------------------------------------------------------
(* What there is to end in the view that is shown: at most two things lie   *)
(* above each other.                                                        *)
One(b) == IF b THEN 1 ELSE 0
Layers(s) ==
  CASE s.view = "Share" -> One(s.share.browser.open) + One(s.share.session)
    [] s.view = "Receive" -> One(s.receive.session # "None" \/ s.receive.connecting)
    [] s.view = "Clipboard" -> One(s.clipboard.sync) + One(s.clipboard.operation # "None")
    [] s.view = "Sync" -> One(s.sync.browser.open) + One(s.sync.session)
    [] s.view = "Devices" -> One(s.devices.confirm)
    [] s.view = "History" -> One(s.history.confirm)
    [] s.view = "Config" -> One(s.config.editing) + One(s.config.save) + One(s.config.revert)

Escapable(s) ==
  /\ AppOK(s)
  /\ s.config.editing => ~s.config.save /\ ~s.config.revert

LEMMA OfTables ==
  ASSUME NEW f, NEW g, NEW k
  PROVE  k \in DOMAIN (f ++ g) <=> k \in DOMAIN f \/ k \in DOMAIN g
BY DEF ++

LEMMA OfTable ==
  ASSUME NEW keys, NEW a, NEW k
  PROVE  k \in DOMAIN Table(keys, a) <=> k \in keys
BY DEF Table

LEMMA BrowserEsc == Lookup(BrowserKeys, "Esc") = "CloseFileBrowser"
<1> DEFINE above ==
      Table({"Up", "k"}, "FileBrowserUp") ++ Table({"Down", "j"}, "FileBrowserDown")
        ++ Table({"Left", "h", "Backspace"}, "FileBrowserBack")
        ++ Table({"Right", "l", "Enter"}, "FileBrowserEnter")
        ++ Table({"Space"}, "FileBrowserToggleSelection") ++ Table({"."}, "FileBrowserToggleHidden")
        ++ Table({"Tab"}, "FileBrowserConfirm")
<1>1. "Esc" \notin DOMAIN above
  BY OfTables, OfTable
<1>2. BrowserKeys = above ++ Table({"Esc"}, "CloseFileBrowser")
  BY DEF BrowserKeys
<1> HIDE DEF above
<1> QED BY <1>1, <1>2, InTables, InTable

(* What Esc means, view by view.                                            *)
LEMMA EscPasses ==
  ASSUME NEW s, ~s.help
  PROVE  MapKey(s, "Esc") = ViewKey(s, "Esc")
<1>1. GlobalKey(s, "Esc") = "Pass"
  BY DEF GlobalKey, Plain, Shortcut
<1> QED BY <1>1 DEF MapKey

LEMMA PlainEsc == Plain("Esc") = "Esc"
BY DEF Plain

LEMMA CodeEsc ==
  ASSUME NEW n PROVE Lookup(CodeKeys(n), "Esc") \in {"Clear", "None"}
BY InTables, InTable DEF CodeKeys, Nothing, FocusKeys, Alphanumeric, Letters, Digits

(* Where a text is edited, Esc is not one of the characters.               *)
LEMMA EditEsc ==
  ASSUME NEW x, NEW y
  PROVE  Lookup(Table({"Enter"}, x) ++ Table({"Esc"}, y) ++ Table({"Backspace"}, "Erase")
                  ++ Table(Char, "Type"), "Esc") = y
<1> DEFINE f == Table({"Enter"}, x) ++ Table({"Esc"}, y)
           g == f ++ Table({"Backspace"}, "Erase")
<1>1. "Esc" \in DOMAIN f /\ "Esc" \in DOMAIN g
  BY OfTables, OfTable
<1>2. Lookup(f, "Esc") = y
  BY InTables, InTable, OfTable
<1> HIDE DEF f
<1>3. Lookup(g, "Esc") = y
  BY <1>1, <1>2, InTables
<1> HIDE DEF g
<1>4. Lookup(g ++ Table(Char, "Type"), "Esc") = y
  BY <1>1, <1>3, InTables
<1> QED BY <1>4 DEF f, g

LEMMA ShareEsc ==
  ASSUME NEW s
  PROVE  ShareKey(s, "Esc") = IF s.share.browser.open THEN "CloseFileBrowser"
                              ELSE IF s.share.session THEN "CancelShare" ELSE "None"
<1>2. Lookup(ShareOptionKeys(s), "Esc") = "None"
  <2>1. CASE s.share.option = "Expire"
    BY <2>1, InTables, InTable DEF ShareOptionKeys, Nothing
  <2>2. CASE s.share.option # "Expire"
    BY <2>2, InTables, InTable DEF ShareOptionKeys, Nothing
  <2> QED BY <2>1, <2>2
<1> DEFINE running == Table({"c", "Esc"}, "CancelShare") ++ Table({"n"}, "RegenerateCode")
           listed == Table({"a"}, "OpenFileBrowser") ++ Table({"x"}, "RemoveFile") ++ ListKeys
                  ++ Table({"Enter"}, IF s.share.files = 0 THEN "OpenFileBrowser" ELSE "StartShare")
<1>3. "Esc" \in DOMAIN running /\ Lookup(running, "Esc") = "CancelShare"
  <2>1. "Esc" \in DOMAIN running
    BY OfTables, OfTable
  <2> QED BY <2>1, InTables, InTable
<1>4. Lookup(listed, "Esc") = "None"
  BY InTables, InTable DEF ListKeys
<1> HIDE DEF running, listed
<1> QED BY BrowserEsc, <1>2, <1>3, <1>4 DEF ShareKey, running, listed

LEMMA ReceiveEsc ==
  ASSUME NEW s, ReceiveOK(s.receive)
  PROVE  IF s.receive.session = "Pending" THEN ReceiveKey(s, "Esc") = "DeclineTransfer"
         ELSE IF s.receive.session = "Transferring" \/ s.receive.connecting
         THEN ReceiveKey(s, "Esc") = "CancelReceive"
         ELSE ReceiveKey(s, "Esc") \in {"Clear", "IpClear", "None"}
<1>1. IpKey(s, "Esc") \in {"IpClear", "None"}
  BY DEF IpKey, Digits
<1>2. \A x : Lookup(Table({"Enter"}, x) ++ CodeKeys(s.receive.code), "Esc") \in {"Clear", "None"}
  BY InTables, InTable, CodeEsc
<1>3. Lookup(FocusKeys ++ ListKeys ++ Table({"Enter"}, "StartReceive"), "Esc") = "None"
  BY InTables, InTable DEF FocusKeys, ListKeys
<1>4. Lookup(Table({"a", "Enter"}, "AcceptTransfer") ++ Table({"d", "Esc"}, "DeclineTransfer"), "Esc")
        = "DeclineTransfer"
  BY InTables, InTable
<1> QED BY <1>1, <1>2, <1>3, <1>4 DEF ReceiveKey, ReceiveOK

LEMMA ClipboardEsc ==
  ASSUME NEW s, ClipboardOK(s.clipboard)
  PROVE  IF s.clipboard.sync THEN ClipboardKey(s, "Esc") = "StopClipboardSync"
         ELSE IF s.clipboard.operation # "None"
         THEN ClipboardKey(s, "Esc") = "CancelClipboardOperation"
         ELSE ClipboardKey(s, "Esc") \in {"Clear", "None"}
<1>1. \A x : Lookup(Table({"Enter"}, x) ++ CodeKeys(s.clipboard.code), "Esc") \in {"Clear", "None"}
  BY InTables, InTable, CodeEsc
<1>2. Lookup(FocusKeys ++ Table({"s"}, "ShareClipboard") ++ Table({"r"}, "ReceiveClipboard")
               ++ Table({"y", "Enter"}, "StartClipboardSync") ++ Table({"f"}, "RefreshClipboard"), "Esc")
        = "None"
  BY InTables, InTable DEF FocusKeys
<1> QED BY <1>1, <1>2 DEF ClipboardKey, ClipboardOK

LEMMA SyncEsc ==
  ASSUME NEW s
  PROVE  IF s.sync.browser.open THEN SyncKey(s, "Esc") = "CloseFileBrowser"
         ELSE IF s.sync.session THEN SyncKey(s, "Esc") = "StopSync"
         ELSE SyncKey(s, "Esc") \in {"Clear", "CancelAddExcludePattern", "None"}
<1>2. CASE ~s.sync.browser.open /\ ~s.sync.session
  <2> USE <1>2, CodeEsc, InTables, InTable DEF SyncKey, Nothing, ListKeys
  <2>1. CASE s.sync.focus = "Directory"
    BY <2>1
  <2>2. CASE s.sync.focus = "Options"
    BY <2>2
  <2>3. CASE s.sync.focus = "CodeInput"
    BY <2>3
  <2>4. CASE s.sync.focus = "ExcludePatterns"
    <3>1. CASE s.sync.editing
      <4> HIDE InTables, InTable
      <4> QED BY <2>4, <3>1, EditEsc
    <3>2. CASE ~s.sync.editing
      BY <2>4, <3>2
    <3> QED BY <3>1, <3>2
  <2>5. CASE s.sync.focus \notin {"Directory", "Options", "CodeInput", "ExcludePatterns"}
    BY <2>5
  <2> QED BY <2>1, <2>2, <2>3, <2>4, <2>5
<1> QED BY BrowserEsc, <1>2 DEF SyncKey

LEMMA ListEsc ==
  ASSUME NEW s
  PROVE  /\ DevicesKey(s, "Esc") = IF s.devices.confirm THEN "CancelRemoveDevice" ELSE "None"
         /\ HistoryKey(s, "Esc") = IF s.history.confirm THEN "CancelClearHistory" ELSE "None"
<1> USE InTables, InTable DEF AskKeys, ListKeys, EndKeys
<1>1. DevicesKey(s, "Esc") = IF s.devices.confirm THEN "CancelRemoveDevice" ELSE "None"
  BY DEF DevicesKey
<1>2. HistoryKey(s, "Esc") = IF s.history.confirm THEN "CancelClearHistory" ELSE "None"
  BY DEF HistoryKey
<1> QED BY <1>1, <1>2

LEMMA ConfigEsc ==
  ASSUME NEW s
  PROVE  ConfigKey(s, "Esc") = IF s.config.save THEN "CancelSaveConfig"
                               ELSE IF s.config.revert THEN "CancelRevertConfig"
                               ELSE IF s.config.editing THEN "CancelEdit" ELSE "None"
<1> USE PlainEsc, InTables, InTable DEF ConfigKey, AskKeys, ListKeys, EndKeys, Nothing
<1>1. CASE s.config.save
  BY <1>1
<1>2. CASE ~s.config.save /\ s.config.revert
  BY <1>2
<1>3. CASE ~s.config.save /\ ~s.config.revert /\ s.config.editing
  <2> HIDE InTables, InTable
  <2> QED BY <1>3, EditEsc
<1>4. CASE ~s.config.save /\ ~s.config.revert /\ ~s.config.editing
  BY <1>4
<1> QED BY <1>1, <1>2, <1>3, <1>4

LEMMA EscDecides ==
  ASSUME NEW s, ~s.help, s.view \in AllViews, NEW t \in Effect(s, "Esc")
  PROVE  t \in HandleView(s, ViewKey(s, "Esc")) /\ ViewKey(s, "Esc") \notin NotOfView
<1>1. s.view \in {"Share", "Receive", "Clipboard", "Sync", "Devices", "History", "Config"}
  BY DEF AllViews, ViewOrder
<1>2. MapKey(s, "Esc") = ViewKey(s, "Esc")
  BY EscPasses
<1>3. ViewKey(s, "Esc") \notin NotOfView
  BY <1>1, ShareActions, ReceiveActions, ClipboardActions, SyncActions, DevicesActions,
     HistoryActions, ConfigActions, PlainEsc DEF ViewKey
<1> QED BY <1>2, <1>3 DEF Effect, HandleAction, NotOfView

(* One Esc ends one thing, and where nothing is left it starts nothing.     *)
LEMMA EscPeels ==
  ASSUME NEW s, Escapable(s), ~s.help, NEW t \in Effect(s, "Esc")
  PROVE  /\ Escapable(t) /\ ~t.help
         /\ Layers(t) = Up(Layers(s))
<1> DEFINE a == ViewKey(s, "Esc")
<1>0. "Esc" \in Keys
  BY DEF Keys
<1>1. AppOK(s) /\ AppOK(t) /\ s.view \in AllViews
  BY <1>0, ActionHandled DEF Escapable, Effect, AppOK
<1>2. DOMAIN s = AppFields
  BY <1>1 DEF AppOK, Start, AppFields
<1>3. t \in HandleView(s, a)
  BY <1>1, EscDecides
<1>4. a = ViewKey(s, "Esc")
  OBVIOUS
<1> HIDE DEF a
<1>5. s.config.editing => ~s.config.save /\ ~s.config.revert
  BY DEF Escapable
<1>6. CASE s.view = "Share"
  <2>1. PICK v \in HandleShare(s.share, a) : t = [s EXCEPT !.share = v]
    BY <1>3, <1>6 DEF HandleView
  <2>2. /\ t.share = v /\ t.view = "Share" /\ ~t.help /\ t.config = s.config
    BY <1>2, <1>6, <2>1 DEF AppFields
  <2>3. ShareOK(s.share)
    BY <1>1 DEF AppOK
  <2>4. One(v.browser.open) + One(v.session) = Up(One(s.share.browser.open) + One(s.share.session))
    <3>1. a = IF s.share.browser.open THEN "CloseFileBrowser"
              ELSE IF s.share.session THEN "CancelShare" ELSE "None"
      BY <1>4, <1>6, ShareEsc, PlainEsc DEF ViewKey
    <3>2. CASE s.share.browser.open
      <4>1. v = [s.share EXCEPT !.browser = NoBrowser]
        BY <2>1, <3>1, <3>2 DEF HandleShare
      <4>2. v.browser.open = FALSE /\ v.session = s.share.session
        BY <2>3, <4>1, Closed DEF ShareOK, NewShare
      <4> QED BY <2>3, <3>2, <4>2 DEF One, Up, ShareOK
    <3>3. CASE ~s.share.browser.open /\ s.share.session
      <4>1. v = EndShare(s.share)
        BY <2>1, <3>1, <3>3 DEF HandleShare
      <4>2. v.browser = s.share.browser /\ v.session = FALSE
        BY <2>3, <4>1 DEF ShareOK, NewShare, EndShare
      <4> QED BY <3>3, <4>2 DEF One, Up
    <3>4. CASE ~s.share.browser.open /\ ~s.share.session
      <4>1. v = s.share
        BY <2>1, <3>1, <3>4 DEF HandleShare
      <4> QED BY <3>4, <4>1 DEF One, Up
    <3> QED BY <3>2, <3>3, <3>4
  <2> QED BY <1>1, <1>5, <1>6, <2>2, <2>4 DEF Escapable, Layers
<1>7. CASE s.view = "Receive"
  <2>1. PICK v \in HandleReceive(s.receive, a) : t = [s EXCEPT !.receive = v]
    BY <1>3, <1>7 DEF HandleView
  <2>2. /\ t.receive = v /\ t.view = "Receive" /\ ~t.help /\ t.config = s.config
    BY <1>2, <1>7, <2>1 DEF AppFields
  <2>3. ReceiveOK(s.receive)
    BY <1>1 DEF AppOK
  <2>4. One(v.session # "None" \/ v.connecting)
          = Up(One(s.receive.session # "None" \/ s.receive.connecting))
    <3>1. CASE s.receive.session # "None" \/ s.receive.connecting
      <4>1. a \in {"DeclineTransfer", "CancelReceive"}
        BY <1>4, <1>7, <2>3, <3>1, ReceiveEsc, PlainEsc DEF ViewKey, ReceiveOK
      <4>2. v = EndReceive(s.receive)
        BY <2>1, <4>1 DEF HandleReceive
      <4>3. v.session = "None" /\ v.connecting = FALSE
        BY <2>3, <4>2 DEF EndReceive, ReceiveOK, NewReceive
      <4> QED BY <3>1, <4>3 DEF One, Up
    <3>2. CASE ~(s.receive.session # "None" \/ s.receive.connecting)
      <4>1. a \in {"Clear", "IpClear", "None"}
        BY <1>4, <1>7, <2>3, <3>2, ReceiveEsc, PlainEsc DEF ViewKey
      <4>2. v.session = s.receive.session /\ v.connecting = s.receive.connecting
        BY <2>1, <2>3, <4>1 DEF HandleReceive, IpClear, ReceiveOK, NewReceive
      <4> QED BY <3>2, <4>2 DEF One, Up
    <3> QED BY <3>1, <3>2
  <2> QED BY <1>1, <1>5, <1>7, <2>2, <2>4 DEF Escapable, Layers
<1>8. CASE s.view = "Clipboard"
  <2>1. PICK v \in HandleClipboard(s.clipboard, a) : t = [s EXCEPT !.clipboard = v]
    BY <1>3, <1>8 DEF HandleView
  <2>2. /\ t.clipboard = v /\ t.view = "Clipboard" /\ ~t.help /\ t.config = s.config
    BY <1>2, <1>8, <2>1 DEF AppFields
  <2>3. ClipboardOK(s.clipboard)
    BY <1>1 DEF AppOK
  <2>4. One(v.sync) + One(v.operation # "None")
          = Up(One(s.clipboard.sync) + One(s.clipboard.operation # "None"))
    <3>1. CASE s.clipboard.sync
      <4>1. a = "StopClipboardSync"
        BY <1>4, <1>8, <2>3, <3>1, ClipboardEsc, PlainEsc DEF ViewKey
      <4>2. v = [s.clipboard EXCEPT !.sync = FALSE]
        BY <2>1, <4>1 DEF HandleClipboard
      <4>3. v.sync = FALSE /\ v.operation = s.clipboard.operation
        BY <2>3, <4>2 DEF ClipboardOK, NewClipboard
      <4> QED BY <3>1, <4>3 DEF One, Up
    <3>2. CASE ~s.clipboard.sync /\ s.clipboard.operation # "None"
      <4>1. a = "CancelClipboardOperation"
        BY <1>4, <1>8, <2>3, <3>2, ClipboardEsc, PlainEsc DEF ViewKey
      <4>2. v = EndOperation(s.clipboard)
        BY <2>1, <4>1 DEF HandleClipboard
      <4>3. v.sync = s.clipboard.sync /\ v.operation = "None"
        BY <2>3, <4>2 DEF ClipboardOK, NewClipboard, EndOperation
      <4> QED BY <3>2, <4>3 DEF One, Up
    <3>3. CASE ~s.clipboard.sync /\ s.clipboard.operation = "None"
      <4>1. a \in {"Clear", "None"}
        BY <1>4, <1>8, <2>3, <3>3, ClipboardEsc, PlainEsc DEF ViewKey
      <4>2. v.sync = s.clipboard.sync /\ v.operation = s.clipboard.operation
        BY <2>1, <2>3, <4>1 DEF HandleClipboard, ClipboardOK, NewClipboard
      <4> QED BY <3>3, <4>2 DEF One, Up
    <3> QED BY <3>1, <3>2, <3>3
  <2> QED BY <1>1, <1>5, <1>8, <2>2, <2>4 DEF Escapable, Layers
<1>9. CASE s.view = "Sync"
  <2>1. PICK v \in HandleSync(s.sync, a) : t = [s EXCEPT !.sync = v]
    BY <1>3, <1>9 DEF HandleView
  <2>2. /\ t.sync = v /\ t.view = "Sync" /\ ~t.help /\ t.config = s.config
    BY <1>2, <1>9, <2>1 DEF AppFields
  <2>3. SyncOK(s.sync)
    BY <1>1 DEF AppOK
  <2>4. One(v.browser.open) + One(v.session) = Up(One(s.sync.browser.open) + One(s.sync.session))
    <3>1. CASE s.sync.browser.open
      <4>1. a = "CloseFileBrowser"
        BY <1>4, <1>9, <3>1, SyncEsc, PlainEsc DEF ViewKey
      <4>2. v = [s.sync EXCEPT !.browser = NoBrowser]
        BY <2>1, <4>1 DEF HandleSync
      <4>3. v.browser.open = FALSE /\ v.session = s.sync.session
        BY <2>3, <4>2, Closed DEF SyncOK, NewSync
      <4> QED BY <2>3, <3>1, <4>3 DEF One, Up, SyncOK
    <3>2. CASE ~s.sync.browser.open /\ s.sync.session
      <4>1. a = "StopSync"
        BY <1>4, <1>9, <3>2, SyncEsc, PlainEsc DEF ViewKey
      <4>2. v = EndSync(s.sync)
        BY <2>1, <4>1 DEF HandleSync
      <4>3. v.browser.open = FALSE /\ v.session = FALSE
        BY <2>3, <4>2, Closed DEF SyncOK, NewSync, EndSync
      <4> QED BY <3>2, <4>3 DEF One, Up
    <3>3. CASE ~s.sync.browser.open /\ ~s.sync.session
      <4>1. a \in {"Clear", "CancelAddExcludePattern", "None"}
        BY <1>4, <1>9, <3>3, SyncEsc, PlainEsc DEF ViewKey
      <4>2. v.browser = s.sync.browser /\ v.session = s.sync.session
        BY <2>1, <2>3, <3>3, <4>1 DEF HandleSync, SyncOK, NewSync
      <4> QED BY <3>3, <4>2 DEF One, Up
    <3> QED BY <3>1, <3>2, <3>3
  <2> QED BY <1>1, <1>5, <1>9, <2>2, <2>4 DEF Escapable, Layers
<1>10. ASSUME NEW v, ListOK(v),
              NEW no \in {"CancelRemoveDevice", "CancelClearHistory"},
              NEW b, b = IF v.confirm THEN no ELSE "None",
              NEW w \in HandleList(v, b)
       PROVE  One(w.confirm) = Up(One(v.confirm))
  <2>1. w.confirm = FALSE
    BY <1>10 DEF HandleList, ListOK, NewDevices
  <2> QED BY <2>1 DEF One, Up
<1>11. CASE s.view = "Devices"
  <2>1. PICK v \in HandleList(s.devices, a) : t = [s EXCEPT !.devices = v]
    BY <1>3, <1>11 DEF HandleView
  <2>2. /\ t.devices = v /\ t.view = "Devices" /\ ~t.help /\ t.config = s.config
    BY <1>2, <1>11, <2>1 DEF AppFields
  <2>3. a = IF s.devices.confirm THEN "CancelRemoveDevice" ELSE "None"
    BY <1>4, <1>11, ListEsc, PlainEsc DEF ViewKey
  <2>4. One(v.confirm) = Up(One(s.devices.confirm))
    BY <1>1, <1>10, <2>1, <2>3 DEF AppOK
  <2> QED BY <1>1, <1>5, <1>11, <2>2, <2>4 DEF Escapable, Layers
<1>12. CASE s.view = "History"
  <2>1. PICK v \in HandleList(s.history, a) : t = [s EXCEPT !.history = v]
    BY <1>3, <1>12 DEF HandleView
  <2>2. /\ t.history = v /\ t.view = "History" /\ ~t.help /\ t.config = s.config
    BY <1>2, <1>12, <2>1 DEF AppFields
  <2>3. a = IF s.history.confirm THEN "CancelClearHistory" ELSE "None"
    BY <1>4, <1>12, ListEsc, PlainEsc DEF ViewKey
  <2>4. One(v.confirm) = Up(One(s.history.confirm))
    BY <1>1, <1>10, <2>1, <2>3 DEF AppOK
  <2> QED BY <1>1, <1>5, <1>12, <2>2, <2>4 DEF Escapable, Layers
<1>13. CASE s.view = "Config"
  <2>1. PICK v \in HandleConfig(s.config, a) : t = [s EXCEPT !.config = v]
    BY <1>3, <1>13 DEF HandleView
  <2>2. /\ t.config = v /\ t.view = "Config" /\ ~t.help
    BY <1>2, <1>13, <2>1 DEF AppFields
  <2>3. ConfigOK(s.config)
    BY <1>1 DEF AppOK
  <2>4. a = IF s.config.save THEN "CancelSaveConfig"
            ELSE IF s.config.revert THEN "CancelRevertConfig"
            ELSE IF s.config.editing THEN "CancelEdit" ELSE "None"
    BY <1>4, <1>13, ConfigEsc, PlainEsc DEF ViewKey
  <2> DEFINE c == s.config
  <2>5. \/ c.save /\ v.save = FALSE /\ v.revert = c.revert /\ v.editing = c.editing
        \/ ~c.save /\ c.revert /\ v.save = c.save /\ v.revert = FALSE /\ v.editing = c.editing
        \/ ~c.save /\ ~c.revert /\ c.editing /\ v.save = c.save /\ v.revert = c.revert /\ v.editing = FALSE
        \/ ~c.save /\ ~c.revert /\ ~c.editing /\ v = c
    <3>1. CASE c.save
      BY <2>1, <2>3, <2>4, <3>1 DEF HandleConfig, ConfigOK, NewConfig
    <3>2. CASE ~c.save /\ c.revert
      BY <2>1, <2>3, <2>4, <3>2 DEF HandleConfig, ConfigOK, NewConfig
    <3>3. CASE ~c.save /\ ~c.revert /\ c.editing
      BY <2>1, <2>3, <2>4, <3>3 DEF HandleConfig, ConfigOK, NewConfig, EndEdit
    <3>4. CASE ~c.save /\ ~c.revert /\ ~c.editing
      BY <2>1, <2>3, <2>4, <3>4 DEF HandleConfig, ConfigOK, NewConfig
    <3> QED BY <3>1, <3>2, <3>3, <3>4
  <2>6. One(v.editing) + One(v.save) + One(v.revert) = Up(One(c.editing) + One(c.save) + One(c.revert))
    BY <1>5, <2>3, <2>5 DEF One, Up, ConfigOK
  <2>7. v.editing => ~v.save /\ ~v.revert
    BY <1>5, <2>5
  <2> QED BY <1>1, <1>13, <2>2, <2>6, <2>7 DEF Escapable, Layers
<1> QED BY <1>1, <1>6, <1>7, <1>8, <1>9, <1>11, <1>12, <1>13 DEF AllViews, ViewOrder

(* Three presses are enough: one for the help, two for the rest.            *)
LEMMA FewLayers ==
  ASSUME NEW s, Escapable(s)
  PROVE  /\ Layers(s) \in {0, 1, 2}
         /\ Layers(s) = 0 /\ ~s.help => AtRest(s)
<1>1. s.view \in {"Share", "Receive", "Clipboard", "Sync", "Devices", "History", "Config"}
  BY DEF Escapable, AppOK, AllViews, ViewOrder
<1>2. \A b : One(b) \in {0, 1} /\ (One(b) = 0 => ~b)
  BY DEF One
<1>3. s.config.editing => One(s.config.save) = 0 /\ One(s.config.revert) = 0
  BY DEF Escapable, One
<1>4. Layers(s) \in {0, 1, 2}
  BY <1>1, <1>2, <1>3 DEF Layers, One
<1>5. Layers(s) = 0 /\ ~s.help => AtRest(s)
  <2>1. \A b, c : One(b) + One(c) = 0 => ~b /\ ~c
    BY DEF One
  <2>2. \A b, c, d : One(b) + One(c) + One(d) = 0 => ~b /\ ~c /\ ~d
    BY DEF One
  <2>3. CASE s.view \in {"Share", "Clipboard", "Sync"}
    BY <2>1, <2>3 DEF Layers, AtRest
  <2>4. CASE s.view \in {"Receive", "Devices", "History"}
    BY <1>2, <2>4 DEF Layers, AtRest
  <2>5. CASE s.view = "Config"
    BY <2>2, <2>5 DEF Layers, AtRest
  <2> QED BY <1>1, <2>3, <2>4, <2>5
<1> QED BY <1>4, <1>5

(* The help overlay takes one Esc and changes nothing beneath it.           *)
LEMMA EscHelp ==
  ASSUME NEW s, Escapable(s), s.help, NEW t \in Effect(s, "Esc")
  PROVE  Escapable(t) /\ ~t.help /\ Layers(t) = Layers(s)
<1>1. DOMAIN s = AppFields
  BY DEF Escapable, AppOK, Start, AppFields
<1>2. t = [s EXCEPT !.help = ~@]
  BY DEF Effect, MapKey, HandleAction
<1>3. /\ t.view = s.view /\ t.share = s.share /\ t.receive = s.receive /\ t.clipboard = s.clipboard
      /\ t.sync = s.sync /\ t.devices = s.devices /\ t.history = s.history /\ t.config = s.config
      /\ ~t.help /\ DOMAIN t = DOMAIN s /\ t.quit = s.quit /\ t.help \in BOOLEAN
  BY <1>1, <1>2 DEF AppFields
<1> QED BY <1>3 DEF Escapable, AppOK, Layers

(* Esc pressed three times ends whatever runs, is open, asked or edited in  *)
(* the view that is shown, from every state the keys and the polls can      *)
(* make.                                                                    *)
THEOREM EscEnds == AppSteps => []EscapeEndsAll
<1>1. KeysInv => EscapeEndsAll
  <2> SUFFICES ASSUME KeysInv, NEW t1 \in Effect(app, "Esc"), NEW t2 \in Effect(t1, "Esc"),
                      NEW t3 \in Effect(t2, "Esc")
               PROVE  AtRest(t3)
    BY DEF EscapeEndsAll, AfterEsc
  <2>1. Escapable(app)
    BY DEF KeysInv, Edits, Escapable
  <2>2. /\ Escapable(t1) /\ ~t1.help
        /\ Layers(t1) = Layers(app) \/ Layers(t1) = Up(Layers(app))
    BY <2>1, EscHelp, EscPeels
  <2>3. Escapable(t2) /\ ~t2.help /\ Layers(t2) = Up(Layers(t1))
    BY <2>2, EscPeels
  <2>4. Escapable(t3) /\ ~t3.help /\ Layers(t3) = Up(Layers(t2))
    BY <2>3, EscPeels
  <2>5. Layers(t3) = 0
    BY <2>1, <2>2, <2>3, <2>4, FewLayers DEF Up
  <2> QED BY <2>4, <2>5, FewLayers
<1> QED BY <1>1, KeysInvariant, PTL
=============================================================================
