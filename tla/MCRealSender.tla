---------------------------- MODULE MCRealSender ----------------------------
EXTENDS RealSender, TLC

CONSTANTS s1, k1, k2, k3

MCOrder(k) == [kind |-> "ORDER", key |-> k, test |-> FALSE, valid |-> TRUE, clean |-> TRUE]
MCTest(k) == [MCOrder(k) EXCEPT !.test = TRUE]
MCCancel == [MCOrder(k1) EXCEPT !.kind = "CANCEL_ALL"]
MCUnclean(k) == [MCTest(k) EXCEPT !.clean = FALSE]
MCBad == [MCOrder(k2) EXCEPT !.valid = FALSE]
MCArmed == [Disarmed EXCEPT !.armed = TRUE]

\* k1 is planned twice: the sender meets its own order again.
MCPlans == {<<MCTest(k1), MCOrder(k2), MCOrder(k1), MCOrder(k3)>>, <<MCCancel, MCUnclean(k1), MCTest(k2)>>,
            <<MCOrder(k1), MCBad>>}
MCControls == {Disarmed, MCArmed, [MCArmed EXCEPT !.simulate = TRUE], [MCArmed EXCEPT !.override = TRUE]}
=============================================================================
