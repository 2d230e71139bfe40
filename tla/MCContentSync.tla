--------------------------- MODULE MCContentSync ---------------------------
(* A small instance of ContentSync: one skill that may be built in or live  *)
(* at a store path, two packages that provide the same files, two slots for *)
(* overlapping syncs.                                                       *)
EXTENDS ContentSync

CONSTANTS p1, p2

OneConflict == {<<p1, p2>>}
=============================================================================
