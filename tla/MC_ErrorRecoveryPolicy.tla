----------------------- MODULE MC_ErrorRecoveryPolicy -----------------------
(* Instantiates ErrorRecoveryPolicy for TLC.  The clock advances by 5 s or *)
(* by 56 s, so closures can bunch at the end of one window and the start   *)
(* of the next (100, 156, 161 s) or spread over several windows.           *)
EXTENDS ErrorRecoveryPolicy

MCTimeSteps == {5, 56}
=============================================================================
