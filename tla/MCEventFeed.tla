---------------------------- MODULE MCEventFeed ----------------------------
(* TLC instances of EventFeed. *)
EXTENDS EventFeed

=============================================================================
