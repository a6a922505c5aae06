------------------------------- MODULE MCShmPool -------------------------------
(* Instance of ShmPool for TLC: two pools, one buffer, the arguments around the *)
(* limits of a pool of two rows of one pixel.                                  *)
EXTENDS ShmPool

Arguments == {-1, 0, 1, 2, 4, 5, 8, 9}
=============================================================================
