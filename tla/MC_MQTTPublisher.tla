-------------------------- MODULE MC_MQTTPublisher --------------------------
(* The instance of MQTTPublisher that MQTTPublisher.cfg gives its values. *)
EXTENDS MQTTPublisher
=============================================================================
