--------------------------- MODULE MCSurfaceCommit ---------------------------
(* Instance of SurfaceCommit for TLC: a root surface and its subsurface.     *)
EXTENDS SurfaceCommit
=============================================================================
