--------------------------- MODULE MCFlightSafety ---------------------------
(* FlightSafety over the configurations its runs consider. *)
EXTENDS FlightSafety

Config(p, m, b) == [procedure |-> p, switchMode |-> m, boxes |-> {"ARM"} \cup b]

\* Nav modes on switches beside a GPS rescue, and the failsafe switch in each of
\* its modes beside the two procedures it can start.
ModeConfigs ==
    {Config("GPS_RESCUE", "KILL", {"RTH", "LOITER"})}
      \cup {Config(p, m, {"FAILSAFE"}) : p \in {"AUTO_LANDING", "DROP_IT"}, m \in SwitchModes}

\* The link and the arm switch alone decide.
LandingConfigs == {Config("AUTO_LANDING", "KILL", {})}
RescueConfigs  == {Config("GPS_RESCUE", "KILL", {})}
LinkConfigs    == LandingConfigs \cup RescueConfigs
=============================================================================
