------------------------- MODULE MC_FrameCropStore -------------------------
(* A small instance of FrameCropStore for TLC: two events of two tenants. *)
EXTENDS FrameCropStore

CONSTANTS e1, e2, ta, tb

MCTenantOf == [e \in Events |-> IF e = e1 THEN ta ELSE tb]
=============================================================================
