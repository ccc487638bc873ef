------------------------ MODULE MCReconcileScheduler ------------------------
(* Small instances of ReconcileScheduler for TLC. *)
EXTENDS ReconcileScheduler

\* Two objects: a study, whose record comes with the page, and a citation. The
\* second change of either is its deletion.
MCObject == {"study", "citation"}
MCBatched == {"study"}
MCDeletes == {2}
=============================================================================
