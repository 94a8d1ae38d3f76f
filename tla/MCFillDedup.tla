---------------------------- MODULE MCFillDedup ----------------------------
(* TLC instance of FillDedup: four keys against a window of two, so that    *)
(* keys are evicted, delivered again, and lost by a crash.                  *)
EXTENDS FillDedup, TLC

MCKeys == {"k1", "k2", "k3", "k4"}

=============================================================================
