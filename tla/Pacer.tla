--------------------------------- MODULE Pacer ---------------------------------
(***************************************************************************)
(* What a rate limiter promises whoever it protects: after one pass, at     *)
(* least Gap units of time go by before the next, whoever passes.           *)
(***************************************************************************)
EXTENDS Naturals

CONSTANT Gap          \* the least time between two passes

VARIABLE quiet        \* time since the last pass, counted up to Gap

Init == quiet = Gap

Tick == quiet' = IF quiet < Gap THEN quiet + 1 ELSE quiet

Pass == quiet = Gap /\ quiet' = 0

Spec == Init /\ [][Tick \/ Pass]_quiet
=============================================================================
