------------------------------ MODULE Commands ------------------------------
(***************************************************************************)
(* The commands of the command line that run the sessions of a connection  *)
(* and what each tells its user (src/crates/yoop-cli/src/commands/).  The  *)
(* host of a trusted transfer has no command: only the library offers it.  *)
(***************************************************************************)
EXTENDS Connecting

VARIABLE told   \* told[p]: what the command of p has told its user at its end

commandVars == <<connectingVars, told>>

HasCommand(p) == kind[p] # "trusted_receive"

CommandInit == ConnectingInit /\ told = [p \in Side |-> "nothing"]

-----------------------------------------------------------------------------
(* Before its session exists a command looks at its arguments, the trust    *)
(* store, the directory or the files, and may give up.                      *)

GivesUp == at.client = "idle" /\ Fails("client") /\ Quiet /\ Same /\ NoTransfer

ClipCannotBegin ==
  kind.client \in {"clip_code", "clip_trusted", "csync_code", "csync_trusted"} /\ GivesUp
DirCannotBegin ==
  kind.client \in {"dsync_code", "dsync_trusted"} /\ GivesUp
SendCannotBegin ==
  kind.client = "trusted_send" /\ GivesUp

\* A user who is asked for every transfer, once the device has been found.
UserCancels ==
  /\ kind.client = "trusted_send" /\ kind.asks /\ at.client = "found"
  /\ Ends("client", "cancelled", <<>>)
  /\ Quiet /\ Same /\ NoTransfer

-----------------------------------------------------------------------------
(* What each makes of the result of its session.                            *)

OkOrError(result) == IF result = "ok" THEN "ok" ELSE "error"

RunShare(result) == OkOrError(result)
RunReceive(result) == IF result = "declined" THEN "declined" ELSE OkOrError(result)
RunReceiveTrusted(result) == RunReceive(result)
RunSync(result) == OkOrError(result)
RunSyncTrusted(result) == OkOrError(result)
RunSyncHost(result) == OkOrError(result)
RunDirHost(result) == OkOrError(result)
RunDirClient(result) == OkOrError(result)
RunDirTrusted(result) == OkOrError(result)
RunSend(result) == IF result = "cancelled" THEN "cancelled" ELSE OkOrError(result)

Tells(session, result) ==
  CASE session = "clip_share" -> RunShare(result)
    [] session = "clip_code" -> RunReceive(result)
    [] session = "clip_trusted" -> RunReceiveTrusted(result)
    [] session = "clip_sync" -> RunSyncHost(result)
    [] session = "csync_code" -> RunSync(result)
    [] session = "csync_trusted" -> RunSyncTrusted(result)
    [] session = "dir_sync" -> RunDirHost(result)
    [] session = "dsync_code" -> RunDirClient(result)
    [] session = "dsync_trusted" -> RunDirTrusted(result)
    [] session = "trusted_send" -> RunSend(result)

(* `yoop send` waits for display_progress, which waits for a final state of *)
(* the transfer.  No error but a rejection sets one, and the session, which *)
(* is still alive, keeps the channel open.                                  *)
DisplayHangs(p) ==
  kind[p] = "trusted_send" /\ kind.asks /\ outcome[p] \in {"failed", "not_found"}

Tell(p) ==
  /\ HasCommand(p) /\ at[p] = "over" /\ told[p] = "nothing"
  /\ ~DisplayHangs(p)
  /\ told' = [told EXCEPT ![p] = Tells(kind[p], outcome[p])]
  /\ UNCHANGED connectingVars

CommandsNext ==
  \/ (ConnectingNext \/ ClipCannotBegin \/ DirCannotBegin \/ SendCannotBegin
      \/ UserCancels) /\ UNCHANGED told
  \/ \E p \in Side : Tell(p)

CommandsSpec ==
  CommandInit /\ [][CommandsNext]_commandVars /\ ConnectingFairness

-----------------------------------------------------------------------------
(* Properties.                                                              *)

(* What the two users of a clipboard copy are told agrees: the share is     *)
(* reported as sent only if the receiver holds the content and no one has   *)
(* declined it, and a receiver that is told "copied" has no share that is   *)
(* told of an error.                                                        *)
AgreeOnCopy ==
  Sharing /\ Copying =>
    /\ told.host = "ok" => copied # "nothing" /\ told.client # "declined"
    /\ told.client = "ok" => told.host # "error"
=============================================================================
