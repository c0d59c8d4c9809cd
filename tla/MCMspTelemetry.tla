--------------------------- MODULE MCMspTelemetry ---------------------------
(* MspTelemetry over the requests its runs consider. *)
EXTENDS MspTelemetry

Read == [cmd |-> "read", version |-> 2, origin |-> "radio", parts |-> 1, size |-> 2,
         tooBig |-> FALSE, save |-> FALSE]

\* A read of a long answer, a write of several chunks, the save, and a request
\* the buffer does not hold.
AllRequests ==
    {Read,
     [Read EXCEPT !.cmd = "write", !.parts = 2, !.size = 0, !.version = 3],
     [Read EXCEPT !.cmd = "save", !.size = 0, !.save = TRUE],
     [Read EXCEPT !.cmd = "big", !.parts = 2, !.tooBig = TRUE, !.version = 1]}

=============================================================================
