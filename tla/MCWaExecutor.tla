---------------------------- MODULE MCWaExecutor ----------------------------
EXTENDS WaExecutor, TLC

CONSTANTS e1, k1, k2, c1

MCPlan(k) == [key |-> k, contract |-> c1, order |-> TRUE, exit |-> FALSE, allowed |-> TRUE, execute |-> TRUE]

\* Two orders of one contract, the second one an exit; then the second one again, its order lost.
MCThree == LET exit == [MCPlan(k2) EXCEPT !.exit = TRUE, !.allowed = FALSE]
           IN  <<MCPlan(k1), exit, [exit EXCEPT !.order = FALSE]>>
=============================================================================
