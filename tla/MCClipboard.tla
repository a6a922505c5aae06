------------------------------ MODULE MCClipboard ------------------------------
(* Instances of Clipboard for TLC.                                            *)
EXTENDS Clipboard
=============================================================================
