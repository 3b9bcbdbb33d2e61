------------------------------- MODULE MCSync -------------------------------
(* The importer alone: three files on two pages, a queue of one job.         *)
EXTENDS DriveSync, TLC

MCPages == "d1" :> 1 @@ "d2" :> 1 @@ "d3" :> 2

\* The goroutines run, and their downloads and searches end; nobody kills the
\* process.
SyncSpec ==
  /\ DriveSyncInit
  /\ [][SyncSteps \/ Launch \/ Interrupt]_driveSyncVars
  /\ WF_driveSyncVars(SyncSteps)
=============================================================================
