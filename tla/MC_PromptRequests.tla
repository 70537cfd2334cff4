------------------------- MODULE MC_PromptRequests -------------------------
(* Small instances of PromptRequests for TLC. *)
EXTENDS PromptRequests

CONSTANTS c1, c2

Wide == [f \in Fields |-> "absent"]
Complete == [f \in Fields |-> "fine"]
Sloppy == [[f \in Fields |-> "wrong"] EXCEPT !["suppress_if"] = "empty", !["zone"] = "empty"]

MCScopes == {<<c1, c2>>, <<c2, c1>>, <<c2>>}
MCAnswers == {Garbage, <<Wide>>, <<Complete, Sloppy>>, <<Sloppy, NotARule>>}
=============================================================================
