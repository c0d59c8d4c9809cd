----------------------------- MODULE MCBlackbox -----------------------------
(* Blackbox over the chips and configurations its runs consider. *)
EXTENDS Blackbox

\* A chip without erase suspend; rolling erase; logs while armed.
Base == [rolling |-> TRUE, initialFree |-> 0, fullErase |-> FALSE, canSuspend |-> FALSE,
         mode |-> "ARMED", erases |-> TRUE]

BaseSettings == {Base}

\* With erase suspend the volume is not erased by the pilot.
LogSettings ==
    {Base,
     [Base EXCEPT !.initialFree = Size - SectorSize],
     [Base EXCEPT !.rolling = FALSE, !.fullErase = TRUE, !.mode = "NORMAL"],
     [Base EXCEPT !.canSuspend = TRUE, !.erases = FALSE, !.mode = "SWITCH"]}
=============================================================================
