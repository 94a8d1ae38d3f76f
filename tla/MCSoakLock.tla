----------------------------- MODULE MCSoakLock -----------------------------
(* TLC instances of SoakLock. *)
EXTENDS SoakLock

ThreeProcs == {"p1", "p2", "p3"}

=============================================================================
