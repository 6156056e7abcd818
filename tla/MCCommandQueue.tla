---------------------------- MODULE MCCommandQueue ----------------------------
EXTENDS CommandQueue

CONSTANTS halt, resume, order, update, slide, nudge, form, reload, forged

Asks(kind, by, cap, qty) ==
  [kind |-> kind, by |-> by, cap |-> cap, qty |-> qty, listed |-> TRUE]

(* One request of each producer, two of the sliders and one that was forged. *)
MCRequest ==
  (halt   :> Asks("halt_agent", "api", NoCap, 0)) @@
  (resume :> Asks("resume_agent", "controls", NoCap, 0)) @@
  (order  :> Asks("place_paper_order", "positions", NoCap, 1)) @@
  (update :> Asks("update_risk_param", "mcp", 2, 0)) @@
  (slide  :> Asks("update_risk_param", "controls", 8, 0)) @@
  (nudge  :> Asks("update_risk_param", "controls", 6, 0)) @@
  (form   :> Asks("update_risk_param", "simulator", 20, 0)) @@
  (reload :> Asks("reload_config", "cli", NoCap, 0)) @@
  (forged :> Asks("update_risk_param", "review", 30, 0))

MCCommands == DOMAIN MCRequest
MCForged == {forged}

(* --env staging, which leaves the limit alone, where APP_ENV is dev, and   *)
(* the other way round.                                                     *)
MCEnvironments ==
  {[start |-> NoCap, reload |-> 3], [start |-> 3, reload |-> NoCap]}
=============================================================================
