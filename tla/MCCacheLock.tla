---------------------------- MODULE MCCacheLock ----------------------------
(* CacheLock with three processes, for TLC. *)
EXTENDS CacheLock, TLC

CONSTANTS p1, p2, p3

MCProcs == {p1, p2, p3}
MCSome == {p1}
MCPair == {p1, p2}
MCNone == {}
=============================================================================
