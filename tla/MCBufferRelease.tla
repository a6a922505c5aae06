--------------------------- MODULE MCBufferRelease ---------------------------
(***************************************************************************)
(* One buffer on two surfaces, with points up to 4: two commits, or one    *)
(* that is applied again up to three times, or a commit, a reapplication   *)
(* and a commit.                                                           *)
(***************************************************************************)
EXTENDS BufferRelease
=============================================================================
