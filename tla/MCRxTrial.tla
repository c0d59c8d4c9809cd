------------------------------ MODULE MCRxTrial ------------------------------
(* RxTrial over the receivers its runs consider. *)
EXTENDS RxTrial

\* A main receiver wired right, with the inverter bit set.
Base == [kind |-> "MAIN", port |-> TRUE, ignoresHalfDuplex |-> FALSE,
         wiring |-> {"inverted"}, altBaud |-> FALSE, works |-> {{"inverted"}},
         cached |-> FALSE, twoRates |-> FALSE]

\* Two bits wrong; none right; a stale cached baud; a backup port of two speeds;
\* no port.
TrialSetups ==
    {[Base EXCEPT !.works = {{"halfDuplex"}}],
     [Base EXCEPT !.ignoresHalfDuplex = TRUE, !.works = {}],
     [Base EXCEPT !.ignoresHalfDuplex = TRUE, !.altBaud = TRUE,
                  !.works = {{"inverted", "halfDuplex"}}],
     [Base EXCEPT !.kind = "BACKUP", !.works = {{"pinSwap"}}, !.twoRates = TRUE],
     [Base EXCEPT !.kind = "BACKUP", !.port = FALSE]}

\* Nothing is wrong: the trial succeeds at once.
RightSetups == {[Base EXCEPT !.altBaud = TRUE, !.cached = TRUE]}
=============================================================================
