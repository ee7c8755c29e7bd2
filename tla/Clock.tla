-------------------------------- MODULE Clock --------------------------------
(***************************************************************************)
(* The clock the parts of the daemon read.  It only moves forward: Go      *)
(* compares monotonic readings, and the ownership store, which compares    *)
(* wall-clock seconds, relies on a wall clock that is not set back.        *)
(***************************************************************************)
EXTENDS Naturals

VARIABLE now    \* it starts at 1; 0 stands for the zero time

(* Time passes, up to the bound of the module that asks.                   *)
Tick(limit) ==
    /\ now < limit
    /\ now' = now + 1

=============================================================================
