--------------------------- MODULE MCTimedJobStore ---------------------------
(***************************************************************************)
(* The job store for TLC: one job id is enough, since no command touches   *)
(* the row of two jobs and only list_jobs reads more than one.  With both  *)
(* TTLs 0 nothing expires and time stands still.                           *)
(***************************************************************************)
EXTENDS TimedJobStore

AllUpdates == Fields \ {Heatmap}

\* Time does not depend on what a row says; an error and its way back do.
FewUpdates == {Error, Requeue}
=============================================================================
