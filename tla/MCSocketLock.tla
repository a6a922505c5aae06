----------------------------- MODULE MCSocketLock -----------------------------
(* Instances of SocketLock for TLC.                                          *)
EXTENDS SocketLock, TLC

\* Services are interchangeable, and so are finders.
ProcessSymmetry == Permutations(Services) \union Permutations(Finders)
=============================================================================
