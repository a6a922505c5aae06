---------------------------- MODULE MCPanelMapping ----------------------------
(* Instances of PanelMapping for TLC.                                        *)
EXTENDS PanelMapping, TLC

\* No definition tells one item from another. Only safety is checked with symmetry;
\* the run of the liveness properties has none.
ItemSymmetry == Permutations(Items)
=============================================================================
