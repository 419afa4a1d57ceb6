-------------------------- MODULE MCFinalityTracker --------------------------
(***************************************************************************)
(* Small instances of FinalityTracker for TLC.                             *)
(***************************************************************************)
EXTENDS FinalityTracker

\* The oldest row needs the secondary, the next nobody can prove, and the one behind
\* that needs the primary.
MixedHistory == [e \in Endpoints |-> IF e = "primary" THEN {3} ELSE {1}]
==============================================================================
