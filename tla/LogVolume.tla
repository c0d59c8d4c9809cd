------------------------------ MODULE LogVolume ------------------------------
(***************************************************************************)
(* What the flash volume of the logger promises to who reads it back, with *)
(* nothing of how src/main/io/flashfs.c keeps the promise: the pages that  *)
(* hold data are one run around the circular volume.  The run grows by one *)
(* page at its end; it is shortened by whole sectors, from its beginning,  *)
(* unless the whole volume is cleared on request.                          *)
(***************************************************************************)
EXTENDS Integers

CONSTANTS
    Pages,          \* pages of the volume
    SectorPages     \* pages of a sector

VARIABLES
    used,           \* the pages that hold data
    clearing        \* the volume is being cleared

vars == <<used, clearing>>

Run(start, length) == {(start + i) % Pages : i \in 0 .. length - 1}

Init == used = {} /\ clearing = FALSE

\* The run from `start' gets `added' pages and loses `lost' sectors.
Moves(start, length, added, lost) ==
    /\ used = Run(start, length)
    /\ lost > 0 => start % SectorPages = 0
    /\ used' = Run(start + lost * SectorPages, length + added - lost * SectorPages)

\* Cut off by a power loss, a write and an erase have each happened or not; so
\* both may be seen in one step.
Change ==
    /\ ~clearing /\ UNCHANGED clearing /\ used' # used
    /\ \E start \in 0 .. Pages - 1, length \in 0 .. Pages, added, lost \in {0, 1} :
          length + added <= Pages /\ Moves(start, length, added, lost)

StartClearing == ~clearing /\ clearing' = TRUE /\ UNCHANGED used

Clear == clearing /\ used' \subseteq used /\ UNCHANGED clearing

EndClearing == clearing /\ clearing' = FALSE /\ used' = {}

Next == Change \/ StartClearing \/ Clear \/ EndClearing

Spec == Init /\ [][Next]_vars
=============================================================================
