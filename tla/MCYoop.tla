------------------------------- MODULE MCYoop -------------------------------
EXTENDS Yoop, MCConnecting

\* Two commands at a time that change the trust store and the history; several
\* starts one after the other, with crashes and a full disk, while a migration
\* is due; two such starts at the same time; updates and rollbacks.
MCPlans ==
  {[commands |-> {"trust", "history"}, runs |-> 3, procs |-> {1, 2}, crashes |-> 1, full |-> 1],
   [commands |-> {"load", "save"}, runs |-> 3, procs |-> {1}, crashes |-> 2, full |-> 1],
   [commands |-> {"load"}, runs |-> 2, procs |-> {1, 2}, crashes |-> 1, full |-> 0],
   [commands |-> {"update", "rollback"}, runs |-> 3, procs |-> {1},
    crashes |-> 1, full |-> 1]}

\* Two starts at the same time while a migration is due, one of them killed.
MCMigrations ==
  {[commands |-> {"load"}, runs |-> 2, procs |-> {1, 2}, crashes |-> 1, full |-> 0]}
=============================================================================
