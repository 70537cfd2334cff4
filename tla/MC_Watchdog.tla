--------------------------- MODULE MC_Watchdog ---------------------------
(* The instance of Watchdog that Watchdog.cfg gives its values. *)
EXTENDS Watchdog
=============================================================================
