----------------------------- MODULE MCRcModes -----------------------------
(* RcModes over tables that mix the two logics and links in both orders. *)
EXTENDS RcModes

Mac(mode, logic, aux) == [mode |-> mode, logic |-> logic, linkedTo |-> Nothing, aux |-> aux]
Link(mode, logic, to) == [mode |-> mode, logic |-> logic, linkedTo |-> to, aux |-> 1]

Arm == Mac("ARM", "OR", 1)

\* An OR condition after an AND one, two AND conditions, and a link before the
\* mode it follows.
BenchTable == <<Link("MANUAL", "OR", "ANGLE"), Arm, Mac("ANGLE", "AND", 2), Mac("ANGLE", "OR", 3),
                Mac("ANGLE", "AND", 3), Mac("MANUAL", "AND", 2)>>
\* The switches that decide an arming.
FlightTable == <<Mac("PREARM", "AND", 2), Mac("GOVERNOR", "OR", 3), Arm,
                 Link("ANGLE", "AND", "GOVERNOR")>>

TwoTables == {BenchTable, FlightTable}
=============================================================================
