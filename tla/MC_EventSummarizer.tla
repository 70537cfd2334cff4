------------------------ MODULE MC_EventSummarizer ------------------------
(* Small instances of EventSummarizer for TLC. *)
EXTENDS EventSummarizer

\* The hourly loop and one that sleeps for twice as long.
MCPeriod == <<2, 4>>
=============================================================================
