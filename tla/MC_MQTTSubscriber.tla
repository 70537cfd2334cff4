------------------------- MODULE MC_MQTTSubscriber -------------------------
(* Small instances of MQTTSubscriber for TLC. *)
EXTENDS MQTTSubscriber

\* run_application subscribes the database and the pipeline to the events, then
\* the watchdog to the heartbeats.
StartupCalls == <<"events", "events", "health">>
=============================================================================
