----------------------------- MODULE DataFiles ------------------------------
(***************************************************************************)
(* Everything Yoop keeps on disk: the stores of the data and configuration *)
(* directories, the session file of the cache directory and the resume     *)
(* directory.  They have no file in common, and no step touches two of     *)
(* them, so a behaviour follows one of the three.                          *)
(***************************************************************************)
EXTENDS Stores, SessionFile, ResumeStore

VARIABLE directory   \* the one a behaviour follows: "data", "cache" or "resume"

dataVars == <<storesVars, sessionVars, resumeVars, directory>>

DataInit ==
  /\ directory \in {"data", "cache", "resume"}
  /\ StoresInit /\ SessionInit /\ ResumeInit
  /\ directory # "data" => /\ plan = CHOOSE one \in Plans : TRUE
                           /\ ~same
                           /\ \A f \in {"trust", "migration_state"} :
                                stored[Store(f)].is = "absent"
  /\ directory # "cache" => sfile.is = "absent"

DataNext ==
  \/ directory = "data" /\ StoresNext /\ UNCHANGED <<sessionVars, resumeVars, directory>>
  \/ directory = "cache" /\ SessionNext /\ UNCHANGED <<storesVars, resumeVars, directory>>
  \/ directory = "resume" /\ ResumeNext /\ UNCHANGED <<storesVars, sessionVars, directory>>

\* Only the session file has anything that must happen in the end.
DataSpec == DataInit /\ [][DataNext]_dataVars /\ SessionFairness

DataTypeOK == StoresTypeOK /\ SessionTypeOK /\ ResumeTypeOK
=============================================================================
