-------------------------------- MODULE Tui ---------------------------------
(***************************************************************************)
(* The terminal UI: TuiTasks, the sessions that run behind a view, and     *)
(* TuiInput, what the keys do in front of it.  The two share no state that *)
(* either depends on, so a behaviour is of one of the two.                 *)
(***************************************************************************)
EXTENDS TuiTasks, TuiInput

appVars == <<vars, inputVars>>

InTasks == home = "none"

AppInit ==
  \/ /\ Init
     /\ app = Start("Share") /\ home = "none" /\ edited = <<>>
  \/ /\ Init /\ view = "Share"
     /\ InputInit

AppNext ==
  \/ InTasks /\ Next /\ UNCHANGED inputVars
  \/ ~InTasks /\ InputNext /\ UNCHANGED vars

AppSteps == AppInit /\ [][AppNext]_appVars

AppSpec ==
  /\ AppSteps
  /\ WF_vars(turn # "over" /\ InTasks /\ Poll)
  /\ WF_vars(turn # "over" /\ InTasks /\ KeyTimeout)
  /\ \A i \in Task : WF_vars(turn # "over" /\ InTasks /\ OwnStep(i))

=============================================================================
