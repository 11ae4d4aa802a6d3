--------------------------- MODULE MCGuestRuntime ---------------------------
(* GuestRuntime on small instances.                                        *)
EXTENDS GuestRefinement, TLC

\* Supervisors differ in their pid only.  For runs of safety properties.
Symmetry == Permutations(Guest)
=============================================================================
