-------------------------------- MODULE Yoop --------------------------------
(***************************************************************************)
(* What one run of `yoop` does besides its transfer: it finds another      *)
(* program and connects to it (Commands), and it keeps files (DataFiles).  *)
(* No step reads or writes the state of both, so a behaviour follows one.  *)
(***************************************************************************)
EXTENDS DataFiles, Commands

VARIABLE part   \* the one a behaviour follows: "files" or "connection"

yoopVars == <<dataVars, commandVars, part>>

\* One connection, for the behaviours that do not follow it.
NoConnection ==
  /\ kind = [host |-> "dir_sync", client |-> "dsync_code", asks |-> FALSE]
  /\ creds = [code |-> TRUE, known |-> FALSE, expected |-> FALSE]
  /\ via = "direct"

YoopInit ==
  /\ part \in {"files", "connection"}
  /\ DataInit
  /\ IF part = "connection" THEN directory = "resume" ELSE NoConnection
  /\ CommandInit

YoopNext ==
  \/ part = "files" /\ DataNext /\ UNCHANGED <<commandVars, part>>
  \/ part = "connection" /\ CommandsNext /\ UNCHANGED <<dataVars, part>>

YoopSpec ==
  YoopInit /\ [][YoopNext]_yoopVars /\ SessionFairness /\ ConnectingFairness
=============================================================================
