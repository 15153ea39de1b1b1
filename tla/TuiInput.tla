------------------------------ MODULE TuiInput ------------------------------
(***************************************************************************)
(* What a key does in the terminal UI: map_key_event (tui/event.rs) finds  *)
(* the action of a key from the state, App::handle_action (tui/app.rs)     *)
(* carries it out.  What the sessions it starts do is TuiTasks; here they  *)
(* only appear, ask, end and go.  Typed texts are their lengths, a letter  *)
(* that no view knows is "z", a digit "1".  Left out: the log, the panels  *)
(* and messages, the values of the options, and keys for them ([L], [T]).  *)
(***************************************************************************)
EXTENDS Naturals, Sequences, FiniteSets, SequencesExt

CONSTANTS
  CodeLen,      \* length of a code: 4 in the program
  Octets,       \* octets before the port of an address: 4 in the program
  OctetLen,     \* digits of an octet: 3 in the program
  PortLen,      \* digits of a port: 5 in the program
  MaxFiles,     \* bound: entries of the list of files to share
  MaxPatterns,  \* bound: exclude patterns
  MaxText,      \* bound: length of a typed pattern or value
  MaxChosen,    \* bound: files chosen in one file browser
  MaxDepth,     \* bound: names in the file browser's path
  Devices,      \* trusted devices that were loaded at the start
  Entries,      \* transfers in the history that was loaded at the start
  Settings,     \* Settings[i]: the kinds of the settings of section i
  Away,         \* bound: the other view of a behaviour
  Tree,         \* Tree[d]: the files and directories in directory d
  Root,         \* the directory that has no parent
  Hidden        \* the files and directories whose name begins with a dot

ASSUME ListAssumption ==
  {MaxFiles, MaxPatterns, MaxText, Devices, Entries} \subseteq Nat
ASSUME SettingsAssumption == Settings # <<>> /\ Settings \in Seq(Seq({"Boolean", "Enum", "Text"}))
ASSUME TreeAssumption ==
  /\ Root \in DOMAIN Tree
  /\ \A d \in DOMAIN Tree : IsFiniteSet(Tree[d]) /\ (d # Root => \E p \in DOMAIN Tree : d \in Tree[p])

VARIABLES
  app,      \* the state of the views, AppState
  home,     \* bound: the view whose own keys are pressed; the user also looks at Away
  edited    \* history: the setting whose value is being typed

inputVars == <<app, home, edited>>

ViewOrder == <<"Share", "Receive", "Clipboard", "Sync", "Devices", "History", "Config">>
AllViews == {ViewOrder[i] : i \in DOMAIN ViewOrder}
Shortcut == [s |-> "Share", r |-> "Receive", c |-> "Clipboard", y |-> "Sync",
             d |-> "Devices", h |-> "History", g |-> "Config"]
Position(v) == CHOOSE i \in DOMAIN ViewOrder : ViewOrder[i] = v
NextView(v) == ViewOrder[(Position(v) % Len(ViewOrder)) + 1]
PrevView(v) == CHOOSE w \in AllViews : NextView(w) = v

Digits == {"1"}
Letters == {"a", "b", "c", "d", "e", "f", "g", "h", "j", "k", "l", "n", "o", "q",
            "r", "s", "x", "y", "z"}
(* With Ctrl a letter is still KeyCode::Char of that letter.                *)
Ctrl == {"^c", "^s", "^r"}
Plain(k) == CASE k = "^c" -> "c" [] k = "^s" -> "s" [] k = "^r" -> "r" [] OTHER -> k
Signs == {"?", "Space", ".", ":"}
Char == Letters \cup Digits \cup Signs
Keys == Char \cup Ctrl
          \cup {"Esc", "Tab", "BackTab", "Enter", "Up", "Down", "Left", "Right",
                "Home", "End", "Backspace", "Delete", "F1"}
Alphanumeric == Letters \cup Digits

NoBrowser == [open |-> FALSE]

(* Each view before any key: the defaults of its state.                     *)
NewShare == [files |-> 0, index |-> 0, browser |-> NoBrowser, compress |-> TRUE,
             focus |-> "FileList", option |-> "None", session |-> FALSE]
EmptyIp == [i \in 0..Octets |-> 0]
NewReceive == [focus |-> "Code", code |-> 0, device |-> 0, pos |-> 0, connecting |-> FALSE,
               ip |-> EmptyIp, session |-> "None"]
NewClipboard == [focus |-> "Preview", code |-> 0, operation |-> "None", sync |-> FALSE]
NewSync == [directory |-> <<>>, focus |-> "Directory", option |-> "None", code |-> 0,
            browser |-> NoBrowser, session |-> FALSE, patterns |-> 0,
            pattern |-> 0, editing |-> FALSE, input |-> 0]
NewDevices == [index |-> 0, focus |-> "List", confirm |-> FALSE, count |-> Devices]
NewHistory == [index |-> 0, focus |-> "List", confirm |-> FALSE, count |-> Entries]
NewConfig == [section |-> 1, setting |-> 0, focus |-> "SectionList", editing |-> FALSE,
              buffer |-> 0, pending |-> {}, save |-> FALSE, revert |-> FALSE]

Start(v) == [view |-> v, help |-> FALSE, quit |-> FALSE,
             share |-> NewShare, receive |-> NewReceive, clipboard |-> NewClipboard,
             sync |-> NewSync, devices |-> NewDevices, history |-> NewHistory,
             config |-> NewConfig]

InputInit == home \in AllViews /\ app = Start(home) /\ edited = <<>>

-----------------------------------------------------------------------------
(* From a key to an action.  A table gives the keys of a panel, a key that  *)
(* is not in it does nothing; an earlier table wins.                        *)

Table(keys, action) == [k \in keys |-> action]
f ++ g == [k \in DOMAIN f \cup DOMAIN g |-> IF k \in DOMAIN f THEN f[k] ELSE g[k]]
Nothing == Table({}, "None")
Lookup(table, k) == IF k \in DOMAIN table THEN table[k] ELSE "None"

FocusKeys == Table({"Tab"}, "FocusNext") ++ Table({"BackTab"}, "FocusPrev")
ListKeys == Table({"Up", "k"}, "ListUp") ++ Table({"Down", "j"}, "ListDown")
EndKeys == Table({"Home", "g"}, "ListFirst") ++ Table({"End"}, "ListLast")
AskKeys(yes, no) == Table({"y"}, yes) ++ Table({"n", "Esc"}, no)

(* A code: letters up to its length, Backspace, Esc clears what is there.   *)
CodeKeys(length) ==
  LET typed == IF length < CodeLen THEN Table(Alphanumeric, "Type") ELSE Nothing
      cleared == IF length > 0 THEN Table({"Esc"}, "Clear") ELSE Nothing
  IN FocusKeys ++ typed ++ Table({"Backspace"}, "Erase") ++ cleared

BrowserOpen(s) == s.share.browser.open \/ s.sync.browser.open

InInputMode(s) ==
  CASE s.view = "Share" -> s.share.session \/ s.share.focus = "Options"
    [] s.view = "Receive" -> s.receive.session = "None" /\ s.receive.focus \in {"Code", "DirectIp"}
    [] s.view = "Clipboard" ->
         s.clipboard.focus = "SyncStatus" /\ ~s.clipboard.sync /\ s.clipboard.operation = "None"
    [] s.view = "Sync" ->
         \/ s.sync.focus = "CodeInput" /\ ~s.sync.session /\ ~s.sync.browser.open
         \/ s.sync.editing
    [] s.view = "Config" -> s.config.editing
    [] OTHER -> FALSE

(* The view's own meaning of a letter that would switch the view.           *)
KeptByView(s, k) ==
  \/ s.view = "Clipboard" /\ Plain(k) \in {"s", "r", "y"}
  \/ s.view = "Sync" /\ Plain(k) = "h" /\ s.sync.directory # <<>>

GlobalKey(s, k) ==
  LET switches == Plain(k) \in DOMAIN Shortcut /\ ~KeptByView(s, k)
  IN CASE k = "^c" -> "Quit"
       [] k = "q" /\ ~InInputMode(s) -> "Quit"
       [] k \in {"?", "F1"} -> "ToggleHelp"
       [] k \in {"Left", "Right"} /\ ~InInputMode(s) /\ ~BrowserOpen(s) ->
            IF k = "Left" THEN "PrevView" ELSE "NextView"
       [] k \in {"Tab", "BackTab"} /\ ~BrowserOpen(s) -> Lookup(FocusKeys, k)
       [] switches /\ ~InInputMode(s) /\ k \notin {"^c", "q"} -> "SwitchView"
       [] OTHER -> "Pass"

BrowserKeys ==
  Table({"Up", "k"}, "FileBrowserUp") ++ Table({"Down", "j"}, "FileBrowserDown")
    ++ Table({"Left", "h", "Backspace"}, "FileBrowserBack")
    ++ Table({"Right", "l", "Enter"}, "FileBrowserEnter")
    ++ Table({"Space"}, "FileBrowserToggleSelection") ++ Table({"."}, "FileBrowserToggleHidden")
    ++ Table({"Tab"}, "FileBrowserConfirm") ++ Table({"Esc"}, "CloseFileBrowser")

ShareOptionKeys(s) ==
  LET expires == s.share.option = "Expire"
      set == IF s.share.option = "None" THEN "None"
             ELSE IF expires THEN "CycleExpire" ELSE "ToggleShareOption"
  IN Table({"Left", "h"}, "PrevShareOption") ++ Table({"Right", "l"}, "NextShareOption")
       ++ Table({"Space", "Enter"}, set)
       ++ (IF expires THEN Table({"Up", "k", "Down", "j"}, "CycleExpire") ELSE Nothing)

\* Mutant: the options are asked before the session that is shown.
ShareKey_options(s, k) ==
  IF s.share.browser.open THEN Lookup(BrowserKeys, k)
  ELSE IF s.share.focus = "Options" THEN Lookup(ShareOptionKeys(s), k)
  ELSE Lookup(Table({"Esc"}, "CancelShare") ++ Table({"a"}, "OpenFileBrowser") ++ Table({"Enter"}, "StartShare"), k)
ShareKey(s, k) ==
  LET running == Table({"c", "Esc"}, "CancelShare") ++ Table({"n"}, "RegenerateCode")
      listed == Table({"a"}, "OpenFileBrowser") ++ Table({"x"}, "RemoveFile") ++ ListKeys
                  ++ Table({"Enter"}, IF s.share.files = 0 THEN "OpenFileBrowser" ELSE "StartShare")
  IN IF s.share.browser.open THEN Lookup(BrowserKeys, k)
     ELSE IF s.share.session /\ k \in DOMAIN running THEN Lookup(running, k)
     ELSE IF s.share.focus = "Options" THEN Lookup(ShareOptionKeys(s), k)
     ELSE Lookup(listed, k)

IpEmpty(s) == \A i \in 0..Octets : s.receive.ip[i] = 0
IpComplete(s) == \A i \in 0..(Octets - 1) : s.receive.ip[i] > 0
SegmentLen(i) == IF i < Octets THEN OctetLen ELSE PortLen

(* A full octet passes the cursor on, and the digit is lost.                *)
IpKey(s, k) ==
  LET r == s.receive
      octet == r.pos < Octets
  IN CASE k = "Enter" -> IF IpComplete(s) /\ r.code >= CodeLen THEN "StartReceive" ELSE "None"
       [] k \in Digits -> IF r.ip[r.pos] < SegmentLen(r.pos) THEN "IpSegmentAppend"
                          ELSE IF octet THEN "IpCursorNext" ELSE "None"
       [] k = "." -> IF r.pos < Octets - 1 THEN "IpCursorNext" ELSE "None"
       [] k = ":" -> IF octet THEN "IpCursorNext" ELSE "None"
       [] k = "Right" -> "IpCursorNext"
       [] k = "Left" -> "IpCursorPrev"
       [] k = "Backspace" -> IF r.ip[r.pos] > 0 THEN "IpSegmentBackspace"
                             ELSE IF r.pos > 0 THEN "IpCursorPrev" ELSE "None"
       [] k = "Esc" -> IF IpEmpty(s) THEN "None" ELSE "IpClear"
       [] OTHER -> "None"

ReceiveKey(s, k) ==
  LET r == s.receive
      full == Table({"Enter"}, IF r.code >= CodeLen THEN "StartReceive" ELSE "None")
      asked == Table({"a", "Enter"}, "AcceptTransfer") ++ Table({"d", "Esc"}, "DeclineTransfer")
      running == r.session = "Transferring" \/ (r.session = "None" /\ r.connecting)
  IN IF r.session = "Pending" THEN Lookup(asked, k)
     ELSE IF running THEN IF k = "Esc" THEN "CancelReceive" ELSE "None"
     ELSE CASE r.focus = "Code" -> Lookup(full ++ CodeKeys(r.code), k)
            [] r.focus = "Devices" ->
                 Lookup(FocusKeys ++ ListKeys ++ Table({"Enter"}, "StartReceive"), k)
            [] OTHER -> IpKey(s, k)

ClipboardKey(s, k) ==
  LET c == s.clipboard
      enter == Table({"Enter"}, IF c.code >= CodeLen THEN "ReceiveClipboard"
                                ELSE IF c.code = 0 THEN "StartClipboardSync" ELSE "None")
      offered == FocusKeys ++ Table({"s"}, "ShareClipboard") ++ Table({"r"}, "ReceiveClipboard")
                   ++ Table({"y", "Enter"}, "StartClipboardSync") ++ Table({"f"}, "RefreshClipboard")
  IN CASE c.sync -> IF k \in {"d", "Esc"} THEN "StopClipboardSync" ELSE "None"
       [] ~c.sync /\ c.operation # "None" ->
            IF k = "Esc" THEN "CancelClipboardOperation" ELSE "None"
       [] ~c.sync /\ c.operation = "None" /\ c.focus = "SyncStatus" -> Lookup(enter ++ CodeKeys(c.code), k)
       [] OTHER -> Lookup(offered, k)

(* Editing a pattern comes first only where the patterns have the focus.    *)
SyncKey(s, k) ==
  LET y == s.sync
      host == IF y.directory # <<>> THEN Table({"h"}, "StartSyncHost") ELSE Nothing
      enter == Table({"Enter"}, IF y.directory = <<>> THEN "OpenSyncDirectoryBrowser"
                                ELSE IF y.code >= CodeLen THEN "JoinSync" ELSE "StartSyncHost")
      set == Table({"Space", "Enter"}, IF y.option = "None" THEN "None" ELSE "ToggleSyncOption")
      directory == Table({"b", "Enter"}, "OpenSyncDirectoryBrowser") ++ host
                     ++ Table({"e"}, "FocusExcludePatterns")
      options == Table({"Up", "k", "Left"}, "PrevSyncOption")
                   ++ Table({"Down", "j", "Right", "l"}, "NextSyncOption") ++ host ++ set
      editing == Table({"Enter"}, "ConfirmAddExcludePattern") ++ Table({"Esc"}, "CancelAddExcludePattern")
                   ++ Table({"Backspace"}, "Erase") ++ Table(Char, "Type")
      patterns == Table({"e", "Enter"}, "StartAddExcludePattern")
                    ++ Table({"x", "Delete"}, "RemoveExcludePattern") ++ host ++ ListKeys
  IN IF y.browser.open THEN Lookup(BrowserKeys, k)
     ELSE IF y.session THEN IF k = "Esc" THEN "StopSync" ELSE "None"
     ELSE Lookup(CASE y.focus = "Directory" -> directory
                   [] y.focus = "Options" -> options
                   [] y.focus = "CodeInput" -> enter ++ CodeKeys(y.code)
                   [] y.focus = "ExcludePatterns" -> IF y.editing THEN editing ELSE patterns
                   [] OTHER -> Nothing, k)

DevicesKey(s, k) ==
  Lookup(IF s.devices.confirm THEN AskKeys("ConfirmRemoveDevice", "CancelRemoveDevice")
         ELSE ListKeys ++ EndKeys ++ Table({"Enter"}, "SendToDevice") ++ Table({"e"}, "CycleTrustLevel")
                ++ Table({"x", "Delete"}, "RequestRemoveDevice") ++ Table({"r"}, "RefreshDevices"), k)

HistoryKey(s, k) ==
  Lookup(IF s.history.confirm THEN AskKeys("ConfirmClearHistory", "CancelClearHistory")
         ELSE ListKeys ++ EndKeys ++ Table({"Enter"}, "ViewHistoryDetails") ++ Table({"r"}, "RetryTransfer")
                ++ Table({"o"}, "OpenTransferDirectory") ++ Table({"x"}, "RequestClearHistory"), k)

\* Mutant: the list keys are understood before an edit is.
ConfigKey_lists(s, k) ==
  IF k \in DOMAIN ListKeys THEN ListKeys[k]
  ELSE Lookup(Table({"Enter"}, IF s.config.editing THEN "ConfirmEdit" ELSE "StartEditSetting")
                ++ Table({"Esc"}, "CancelEdit"), k)
ConfigKey(s, k) ==
  LET c == s.config
      in == c.focus = "Settings"
      editing == Table({"Enter"}, "ConfirmEdit") ++ Table({"Esc"}, "CancelEdit")
                   ++ Table({"Backspace"}, "Erase") ++ Table(Char, "Type")
      settings == IF in THEN Table({"Space"}, "ToggleConfigSetting") ++ Table({"c"}, "CycleConfigSetting")
                               ++ Table({"h", "Left"}, "FocusPrev") ELSE Nothing
  IN IF c.save THEN Lookup(AskKeys("ConfirmSaveConfig", "CancelSaveConfig"), Plain(k))
     ELSE IF c.revert THEN Lookup(AskKeys("ConfirmRevertConfig", "CancelRevertConfig"), Plain(k))
     ELSE IF c.editing THEN Lookup(editing, Plain(k))
     ELSE IF k \in {"^s", "^r"} THEN IF k = "^s" THEN "RequestSaveConfig" ELSE "RequestRevertConfig"
     ELSE Lookup(ListKeys ++ EndKeys ++ Table({"Enter", "l"}, IF in THEN "StartEditSetting" ELSE "FocusNext")
                   ++ Table({"r"}, "RefreshConfig") ++ settings, k)

ViewKey(s, k) ==
  CASE s.view = "Share" -> ShareKey(s, Plain(k))
    [] s.view = "Receive" -> ReceiveKey(s, Plain(k))
    [] s.view = "Clipboard" -> ClipboardKey(s, Plain(k))
    [] s.view = "Sync" -> SyncKey(s, Plain(k))
    [] s.view = "Devices" -> DevicesKey(s, Plain(k))
    [] s.view = "History" -> HistoryKey(s, Plain(k))
    [] s.view = "Config" -> ConfigKey(s, k)

MapKey(s, k) ==
  LET global == GlobalKey(s, k)
  IN IF s.help THEN IF k \in {"Esc", "?", "q", "F1"} THEN "ToggleHelp" ELSE "None"
     ELSE IF global # "Pass" THEN global ELSE ViewKey(s, k)

-----------------------------------------------------------------------------
(* From an action to the states it may leave: App::handle_action.           *)

AtMost(n, bound) == IF n > bound THEN bound ELSE n
Up(n) == IF n > 0 THEN n - 1 ELSE 0
Down(n, count) == IF n + 1 < count THEN n + 1 ELSE n
LastOf(count) == IF count = 0 THEN 0 ELSE count - 1
Cycle(order, x, step) ==
  LET i == CHOOSE i \in DOMAIN order : order[i] = x
  IN order[((i + Len(order) - 1 + step) % Len(order)) + 1]
Toggle(S, x) == IF x \in S THEN S \ {x} ELSE S \cup {x}

(* A length that a key types to or erases from.                             *)
Typed(n, a, bound) ==
  CASE a = "Type" -> AtMost(n + 1, bound) [] a = "Erase" -> Up(n) [] OTHER -> 0

(* The file browser of the view.  A path is the sequence of the nodes it    *)
(* goes through.  Path::file_name gives no name for a path that ends in     *)
(* "..", so that entry is entered like any other and the path grows, and    *)
(* Back, which drops the last name, then goes down again.                   *)
Parent(d) == IF d = Root THEN Root ELSE CHOOSE p \in DOMAIN Tree : d \in Tree[p]
At(path) == IF path = <<>> THEN Root ELSE Last(path)

(* Entry ".." and the rest, sorted: any order of theirs will do.            *)
Visible(b, only) ==
  {e \in Tree[At(b.dir)] : (b.hidden \/ e \notin Hidden) /\ (~only \/ e \in DOMAIN Tree)}
Listing(b, only) ==
  (IF b.dir = <<>> THEN <<>> ELSE <<Parent(At(b.dir))>>) \o SetToSeq(Visible(b, only))

OpenBrowser(dir, hidden) ==
  [open |-> TRUE, dir |-> dir, selected |-> 0, hidden |-> hidden, chosen |-> {}]

\* Mutant: the cursor stays where it was when hidden files are left out.
ToggleHidden_unclamped(b, only) == [b EXCEPT !.hidden = ~@]
ToggleHidden(b, only) ==
  LET c == [b EXCEPT !.hidden = ~@]
  IN [c EXCEPT !.selected = AtMost(@, LastOf(Len(Listing(c, only))))]

Browse(b, a, only) ==
  LET list == Listing(b, only)
      entry == list[b.selected + 1]
      directory == entry \in DOMAIN Tree
      above == b.dir # <<>> /\ b.selected = 0
      path == Append(b.dir, entry)
      toggled == IF only THEN IF path \in b.chosen THEN {} ELSE {path} ELSE Toggle(b.chosen, path)
      chosen == IF Cardinality(toggled) > MaxChosen \/ Len(path) > MaxDepth THEN b.chosen ELSE toggled
  IN CASE a = "FileBrowserUp" -> [b EXCEPT !.selected = Up(@)]
       [] a = "FileBrowserDown" -> [b EXCEPT !.selected = Down(@, Len(list))]
       [] a = "FileBrowserBack" /\ b.dir # <<>> -> [b EXCEPT !.dir = Front(@), !.selected = 0]
       [] a = "FileBrowserEnter" /\ list # <<>> /\ directory /\ Len(b.dir) < MaxDepth ->
            [b EXCEPT !.dir = path, !.selected = 0]
       [] a = "FileBrowserEnter" /\ list # <<>> /\ ~directory -> [b EXCEPT !.chosen = chosen]
       [] a = "FileBrowserToggleSelection" /\ list # <<>> /\ (only \/ ~above) ->
            [b EXCEPT !.chosen = chosen]
       [] a = "FileBrowserToggleHidden" -> ToggleHidden(b, only)
       [] OTHER -> b

RemoveFile(v) ==
  IF v.index < v.files
  THEN [v EXCEPT !.files = @ - 1, !.index = IF @ >= v.files - 1 THEN Up(@) ELSE @]
  ELSE v

EndShare(v) == [v EXCEPT !.session = FALSE, !.focus = "FileList", !.option = "None"]

NextFocus(focus) == IF focus = "FileList" THEN "Options" ELSE "FileList"
(* Expire and Compress are the only options either cycle visits.            *)
OtherOption(option) == IF option = "Expire" THEN "Compress" ELSE "Expire"

HandleShare(v, a) ==
  CASE a = "FocusNext" ->
         LET to == NextFocus(v.focus)
         IN {[v EXCEPT !.focus = to, !.option = IF to = "Options" THEN "Expire" ELSE "None"]}
    [] a = "OpenFileBrowser" -> {[v EXCEPT !.browser = OpenBrowser(<<>>, v.compress)]}
    [] a = "CloseFileBrowser" -> {[v EXCEPT !.browser = NoBrowser]}
    [] a = "FileBrowserConfirm" ->
         {[v EXCEPT !.browser = NoBrowser,
                    !.files = AtMost(@ + Cardinality(v.browser.chosen), MaxFiles)]}
    [] a = "ListUp" -> {[v EXCEPT !.index = Up(@)]}
    [] a = "ListDown" -> {[v EXCEPT !.index = Down(@, v.files)]}
    [] a = "RemoveFile" -> {RemoveFile(v)}
    [] a = "StartShare" -> {v, [v EXCEPT !.session = TRUE]}
    [] a = "CancelShare" -> {EndShare(v)}
    [] a = "RegenerateCode" ->
         {EndShare(v)} \cup (IF v.files = 0 THEN {} ELSE {[EndShare(v) EXCEPT !.session = TRUE]})
    [] a \in {"NextShareOption", "PrevShareOption"} ->
         {[v EXCEPT !.option = OtherOption(@)]}
    [] a = "ToggleShareOption" -> {[v EXCEPT !.compress = IF v.option = "Compress" THEN ~@ ELSE @]}
    [] OTHER -> {IF v.browser.open THEN [v EXCEPT !.browser = Browse(@, a, FALSE)] ELSE v}

EndReceive(v) == [v EXCEPT !.session = "None", !.connecting = FALSE]

IpCursorNext(v) == [v EXCEPT !.pos = AtMost(@ + 1, Octets)]
IpCursorPrev(v) == [v EXCEPT !.pos = Up(@)]
IpClear(v) == [v EXCEPT !.ip = EmptyIp, !.pos = 0]

HandleReceive(v, a) ==
  LET order == <<"Code", "Devices", "DirectIp">>
      octet == v.pos < Octets
      started == [v EXCEPT !.connecting = TRUE]
      appended == [v EXCEPT !.ip[v.pos] = AtMost(@ + 1, SegmentLen(v.pos))]
  IN CASE a = "FocusNext" -> {[v EXCEPT !.focus = Cycle(order, @, 1)]}
       [] a = "FocusPrev" -> {[v EXCEPT !.focus = Cycle(order, @, 2)]}
       [] a = "ListUp" -> {[v EXCEPT !.device = Up(@)]}
       [] a = "ListDown" -> {[v EXCEPT !.device = Down(@, Devices)]}
       [] a \in {"Type", "Erase", "Clear"} -> {[v EXCEPT !.code = Typed(@, a, CodeLen)]}
       [] a = "IpSegmentAppend" ->
            {[appended EXCEPT !.pos = IF octet /\ appended.ip[v.pos] = OctetLen THEN @ + 1 ELSE @]}
       [] a = "IpSegmentBackspace" -> {[v EXCEPT !.ip[v.pos] = Up(@)]}
       [] a = "IpCursorNext" -> {IpCursorNext(v)}
       [] a = "IpCursorPrev" -> {IpCursorPrev(v)}
       [] a = "IpClear" -> {IpClear(v)}
       [] a = "StartReceive" -> IF v.focus = "Devices" /\ v.device >= Devices THEN {v} ELSE {v, started}
       [] a = "AcceptTransfer" -> {[v EXCEPT !.session = "Transferring"]}
       [] a \in {"DeclineTransfer", "CancelReceive"} -> {EndReceive(v)}
       [] OTHER -> {v}

EndOperation(v) == [v EXCEPT !.operation = "None", !.focus = "Actions"]

(* Joining a sync by code connects within the handler.                      *)
HandleClipboard(v, a) ==
  LET order == <<"Preview", "Actions", "SyncStatus">>
      failed == [EndOperation(v) EXCEPT !.code = 0]
  IN CASE a = "FocusNext" -> {[v EXCEPT !.focus = Cycle(order, @, 1)]}
       [] a = "FocusPrev" -> {[v EXCEPT !.focus = Cycle(order, @, 2)]}
       [] a \in {"Type", "Erase", "Clear"} -> {[v EXCEPT !.code = Typed(@, a, CodeLen)]}
       [] a = "ShareClipboard" -> {v, [v EXCEPT !.operation = "Sharing"], EndOperation(v)}
       [] a = "ReceiveClipboard" ->
            IF v.code < CodeLen THEN {[v EXCEPT !.focus = "SyncStatus"]}
            ELSE {[v EXCEPT !.operation = "Receiving"]}
       [] a = "StartClipboardSync" ->
            {failed, IF v.code >= CodeLen THEN [v EXCEPT !.sync = TRUE, !.code = 0]
                     ELSE [v EXCEPT !.operation = "StartingSync", !.code = 0]}
       [] a = "StopClipboardSync" -> {[v EXCEPT !.sync = FALSE]}
       [] a = "CancelClipboardOperation" -> {EndOperation(v)}
       [] OTHER -> {v}

SyncOrder(session) ==
  <<"Directory", "Options", "CodeInput", "ExcludePatterns">>
    \o (IF session THEN <<"Events">> ELSE <<>>)
MoveFocus(v, step) ==
  LET order == SyncOrder(v.session)
      to == IF v.focus = "Events" /\ ~v.session
            THEN IF step = 1 THEN "Directory" ELSE "ExcludePatterns"
            ELSE Cycle(order, v.focus, IF step = 1 THEN 1 ELSE Len(order) - 1)
  IN [v EXCEPT !.focus = to,
               !.option = IF to = "Options" THEN "Some" ELSE @]

RemovePattern(v) ==
  IF v.pattern < v.patterns
  THEN [v EXCEPT !.patterns = @ - 1, !.pattern = AtMost(@, LastOf(v.patterns - 1))]
  ELSE v

EndSync(v) ==
  [v EXCEPT !.session = FALSE, !.focus = "Directory", !.option = "None",
            !.browser = NoBrowser, !.code = 0]

HandleSync(v, a) ==
  LET selected == IF v.browser.chosen = {} THEN v.browser.dir ELSE CHOOSE d \in v.browser.chosen : TRUE
      done == [v EXCEPT !.editing = FALSE, !.input = 0]
  IN CASE a = "FocusNext" -> {MoveFocus(v, 1)}
       [] a = "FocusPrev" -> {MoveFocus(v, 2)}
       [] a = "FocusExcludePatterns" -> {[v EXCEPT !.focus = "ExcludePatterns"]}
       [] a \in {"Type", "Erase", "Clear"} ->
            IF v.focus = "CodeInput" THEN {[v EXCEPT !.code = Typed(@, a, CodeLen)]}
            ELSE {[v EXCEPT !.input = Typed(@, a, MaxText)]}
       [] a = "OpenSyncDirectoryBrowser" ->
            {v, [v EXCEPT !.browser = OpenBrowser(IF v.directory = <<>> THEN <<>> ELSE v.directory[1], FALSE)]}
       [] a = "CloseFileBrowser" -> {[v EXCEPT !.browser = NoBrowser]}
       [] a = "FileBrowserConfirm" -> {[v EXCEPT !.browser = NoBrowser, !.directory = <<selected>>]}
       [] a \in {"NextSyncOption", "PrevSyncOption"} ->
            {[v EXCEPT !.option = "Some"]}
       [] a = "ListUp" /\ v.focus = "ExcludePatterns" -> {[v EXCEPT !.pattern = Up(@)]}
       [] a = "ListDown" /\ v.focus = "ExcludePatterns" -> {[v EXCEPT !.pattern = Down(@, v.patterns)]}
       [] a = "StartAddExcludePattern" -> {[v EXCEPT !.editing = TRUE, !.input = 0]}
       [] a = "ConfirmAddExcludePattern" ->
            {done, [done EXCEPT !.patterns = AtMost(@ + AtMost(v.input, 1), MaxPatterns)]}
       [] a = "CancelAddExcludePattern" -> {done}
       [] a = "RemoveExcludePattern" -> {RemovePattern(v)}
       [] a = "StartSyncHost" -> {[v EXCEPT !.session = @ \/ v.directory # <<>>]}
       [] a = "JoinSync" -> {[v EXCEPT !.code = 0], [v EXCEPT !.code = 0, !.session = TRUE]}
       [] a = "StopSync" -> {EndSync(v)}
       [] OTHER -> {IF v.browser.open THEN [v EXCEPT !.browser = Browse(@, a, TRUE)] ELSE v}

RemoveDevice(v) ==
  [v EXCEPT !.confirm = FALSE, !.count = @ - 1, !.index = AtMost(@, LastOf(v.count - 1))]

(* Devices and History: FocusPrev moves the focus on, as FocusNext does.    *)
(* A store that cannot be written stays.  No key reaches the refresh of the *)
(* devices or of the history: [R] is the Receive view's.                    *)
HandleList(v, a) ==
  CASE a \in {"FocusNext", "FocusPrev"} -> {[v EXCEPT !.focus = IF @ = "List" THEN "Details" ELSE "List"]}
    [] a = "ViewHistoryDetails" -> {[v EXCEPT !.focus = "Details"]}
    [] a = "ListUp" -> {[v EXCEPT !.index = Up(@)]}
    [] a = "ListDown" -> {[v EXCEPT !.index = Down(@, v.count)]}
    [] a = "ListFirst" -> {[v EXCEPT !.index = 0]}
    [] a = "ListLast" -> {[v EXCEPT !.index = LastOf(v.count)]}
    [] a \in {"RequestRemoveDevice", "RequestClearHistory"} -> {[v EXCEPT !.confirm = TRUE]}
    [] a \in {"CancelRemoveDevice", "CancelClearHistory"} -> {[v EXCEPT !.confirm = FALSE]}
    [] a = "ConfirmRemoveDevice" ->
         {[v EXCEPT !.confirm = FALSE]} \cup IF v.index < v.count THEN {RemoveDevice(v)} ELSE {}
    [] a = "ConfirmClearHistory" ->
         {[v EXCEPT !.confirm = FALSE], [v EXCEPT !.confirm = FALSE, !.count = 0]}
    [] OTHER -> {v}

InSection(v, i) == [v EXCEPT !.section = i, !.setting = 0]

EndEdit(v) == [v EXCEPT !.editing = FALSE, !.buffer = 0]
Changed(v) == [v EXCEPT !.pending = @ \cup {<<v.section, v.setting>>}]
Kind(v) == Settings[v.section][v.setting + 1]

ToggleSetting(v) == IF Kind(v) = "Boolean" THEN Changed(v) ELSE v
CycleSetting(v) == IF Kind(v) = "Enum" THEN Changed(v) ELSE v

(* What was typed is stored if it is of the setting's kind.                 *)
ConfirmEdit(v) == {EndEdit(v), EndEdit(Changed(v))}

(* One value that cannot be applied, or a file that cannot be written,      *)
(* leaves all changes pending.                                              *)
SaveConfig(v) == {[v EXCEPT !.save = FALSE], [v EXCEPT !.save = FALSE, !.pending = {}]}
RevertChanges(v) == [v EXCEPT !.revert = FALSE, !.pending = {}, !.setting = 0]

HandleConfig(v, a) ==
  LET count == Len(Settings[v.section])
      sections == v.focus = "SectionList"
  IN CASE a = "FocusNext" -> {[v EXCEPT !.focus = IF sections THEN "Settings" ELSE "SectionList"]}
       [] a = "ListUp" /\ sections -> {IF v.section = 1 THEN v ELSE InSection(v, v.section - 1)}
       [] a = "ListDown" /\ sections ->
            {IF v.section = Len(Settings) THEN v ELSE InSection(v, v.section + 1)}
       [] a = "ListUp" /\ ~sections -> {[v EXCEPT !.setting = Up(@)]}
       [] a = "ListDown" /\ ~sections -> {[v EXCEPT !.setting = Down(@, count)]}
       [] a = "ListFirst" -> {IF sections THEN InSection(v, 1) ELSE [v EXCEPT !.setting = 0]}
       [] a = "ListLast" ->
            {IF sections THEN InSection(v, Len(Settings)) ELSE [v EXCEPT !.setting = LastOf(count)]}
       [] a = "StartEditSetting" -> {[v EXCEPT !.editing = TRUE, !.buffer = MaxText]}
       [] a \in {"Type", "Erase"} -> {[v EXCEPT !.buffer = Typed(@, a, MaxText)]}
       [] a = "ConfirmEdit" -> ConfirmEdit(v)
       [] a = "CancelEdit" -> {EndEdit(v)}
       [] a = "ToggleConfigSetting" -> {ToggleSetting(v)}
       [] a = "CycleConfigSetting" -> {CycleSetting(v)}
       [] a = "RequestSaveConfig" -> {[v EXCEPT !.save = v.pending # {}]}
       [] a = "RequestRevertConfig" -> {[v EXCEPT !.revert = v.pending # {}]}
       [] a = "ConfirmSaveConfig" -> SaveConfig(v)
       [] a = "CancelSaveConfig" -> {[v EXCEPT !.save = FALSE]}
       [] a = "ConfirmRevertConfig" -> {RevertChanges(v)}
       [] a = "CancelRevertConfig" -> {[v EXCEPT !.revert = FALSE]}
       [] a = "RefreshConfig" -> {[v EXCEPT !.pending = {}, !.setting = 0]}
       [] OTHER -> {v}

HandleView(s, a) ==
  CASE s.view = "Share" -> {[s EXCEPT !.share = v] : v \in HandleShare(s.share, a)}
    [] s.view = "Receive" -> {[s EXCEPT !.receive = v] : v \in HandleReceive(s.receive, a)}
    [] s.view = "Clipboard" -> {[s EXCEPT !.clipboard = v] : v \in HandleClipboard(s.clipboard, a)}
    [] s.view = "Sync" -> {[s EXCEPT !.sync = v] : v \in HandleSync(s.sync, a)}
    [] s.view = "Devices" -> {[s EXCEPT !.devices = v] : v \in HandleList(s.devices, a)}
    [] s.view = "History" -> {[s EXCEPT !.history = v] : v \in HandleList(s.history, a)}
    [] s.view = "Config" -> {[s EXCEPT !.config = v] : v \in HandleConfig(s.config, a)}

(* The help overlay and the view are common; the rest is the view's.        *)
HandleAction(s, a, k) ==
  CASE a = "Quit" -> {[s EXCEPT !.quit = TRUE]}
    [] a = "ToggleHelp" -> {[s EXCEPT !.help = ~@]}
    [] a = "SwitchView" -> {[s EXCEPT !.view = Shortcut[Plain(k)]]}
    [] a = "NextView" -> {[s EXCEPT !.view = NextView(@)]}
    [] a = "PrevView" -> {[s EXCEPT !.view = PrevView(@)]}
    [] OTHER -> HandleView(s, a)

Effect(s, k) == HandleAction(s, MapKey(s, k), k)

(* A key that does what only its own view understands is pressed at home.   *)
Common == {"Quit", "ToggleHelp", "SwitchView", "NextView", "PrevView"}
PressKey(k) ==
  LET action == MapKey(app, k)
  IN /\ ~app.quit
     /\ app.view = home \/ action \in Common
     /\ app' \in {s \in HandleAction(app, action, k) : s.view \in {home, Away}}
     /\ edited' = IF action = "StartEditSetting" THEN <<app.config.section, app.config.setting>>
                  ELSE edited
     /\ UNCHANGED home

-----------------------------------------------------------------------------
(* What the polls of App::run find.                                         *)

Polled(s) == ~app.quit /\ app' = s /\ UNCHANGED <<home, edited>>

ShareEnds == app.share.session /\ Polled([app EXCEPT !.share.session = FALSE])

ReceiveConnected ==
  /\ app.receive.connecting /\ app.receive.session = "None"
  /\ Polled([app EXCEPT !.receive.session = "Pending"])

ReceiveEnds ==
  /\ app.receive.connecting
  /\ Polled([app EXCEPT !.receive = EndReceive(@)])

ClipboardShareEnds ==
  /\ app.clipboard.operation \in {"Sharing", "StartingSync"}
  /\ Polled([app EXCEPT !.clipboard = EndOperation(@)])

ClipboardReceiveEnds ==
  /\ app.clipboard.operation = "Receiving"
  /\ Polled([app EXCEPT !.clipboard = [EndOperation(@) EXCEPT !.code = 0]])

PeerConnected ==
  /\ app.clipboard.operation = "StartingSync"
  /\ Polled([app EXCEPT !.clipboard.operation = "None", !.clipboard.sync = TRUE])

SyncFailed ==
  /\ app.sync.session
  /\ Polled([app EXCEPT !.sync.session = FALSE])

Stopped == app.quit /\ UNCHANGED inputVars

InputNext ==
  \/ \E k \in Keys : PressKey(k)
  \/ ShareEnds
  \/ ReceiveConnected
  \/ ReceiveEnds
  \/ ClipboardShareEnds
  \/ ClipboardReceiveEnds
  \/ PeerConnected
  \/ SyncFailed
  \/ Stopped

InputSpec == InputInit /\ [][InputNext]_inputVars

-----------------------------------------------------------------------------
(* Every cursor stands on an entry of its list, or at 0 in an empty one,    *)
(* whatever was removed, filtered, confirmed or ended in between.           *)
On(index, count) == index <= LastOf(count)
BrowserOn(b, only) == b.open => On(b.selected, Len(Listing(b, only)))
SelectionOnList ==
  /\ On(app.share.index, app.share.files)
  /\ On(app.receive.device, Devices)
  /\ On(app.sync.pattern, app.sync.patterns)
  /\ On(app.devices.index, app.devices.count)
  /\ On(app.history.index, app.history.count)
  /\ On(app.config.setting, Len(Settings[app.config.section]))
  /\ BrowserOn(app.share.browser, FALSE)
  /\ BrowserOn(app.sync.browser, TRUE)

(* Whatever panel has the focus and whatever is open above it, Esc pressed  *)
(* a few times ends every session, operation, browser, question and edit of *)
(* the view that is shown: no focus takes the key from what runs.           *)
AtRest(s) ==
  /\ ~s.help
  /\ s.view = "Share" => ~s.share.session /\ ~s.share.browser.open
  /\ s.view = "Receive" => s.receive.session = "None" /\ ~s.receive.connecting
  /\ s.view = "Clipboard" => ~s.clipboard.sync /\ s.clipboard.operation = "None"
  /\ s.view = "Sync" => ~s.sync.session /\ ~s.sync.browser.open
  /\ s.view = "Devices" => ~s.devices.confirm
  /\ s.view = "History" => ~s.history.confirm
  /\ s.view = "Config" => ~(s.config.editing \/ s.config.save \/ s.config.revert)
AfterEsc(S) == UNION {Effect(s, "Esc") : s \in S}
EscapeEndsAll == ~app.quit => \A s \in AfterEsc(AfterEsc(AfterEsc({app}))) : AtRest(s)

(* A value that is typed goes to the setting whose editing was started: no  *)
(* key that moves a cursor or leaves the view is understood in between.     *)
EditKeepsItsSetting ==
  app.config.editing =>
    app.view = "Config" /\ edited = <<app.config.section, app.config.setting>>

=============================================================================
