---------------------------- MODULE MCEngineCache ----------------------------
(* A small instance of EngineCache for TLC.                                 *)
EXTENDS EngineCache, TLC

CONSTANTS f1, f2, f3, c1, c2, c3

MCFiles   == {f1, f2, f3}
MCCallers == {c1, c2, c3}
=============================================================================
