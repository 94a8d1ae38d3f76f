----------------------------- MODULE MCOpsLoop -----------------------------
EXTENDS OpsLoop, TLC

CONSTANTS s1, s2, k1, k2

MCOrder(k) == [kind |-> "ORDER", key |-> k, test |-> FALSE, valid |-> TRUE, clean |-> TRUE]
MCArmed == [armed |-> TRUE, simulate |-> FALSE, override |-> FALSE, autoreset |-> TRUE, expired |-> FALSE]

\* The first order does not pass the sanitizer: it must not hold up the others.
MCPlans == {<<[MCOrder(k1) EXCEPT !.clean = FALSE], MCOrder(k2), MCOrder(k1)>>}
MCControls == {MCArmed}
=============================================================================
