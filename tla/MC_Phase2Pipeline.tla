------------------------ MODULE MC_Phase2Pipeline ------------------------
(* The instance of Phase2Pipeline that Phase2Pipeline.cfg gives its values. *)
EXTENDS Phase2Pipeline
=============================================================================
