--------------------------- MODULE MCExecEngine ---------------------------
(* TLC instances of ExecEngine and of its refinement of OrderLifecycle.     *)
EXTENDS ExecLifecycle, TLC

SellOne == [symbol |-> "S", side |-> "SELL", qty |-> 1]
SellTwo == [symbol |-> "S", side |-> "SELL", qty |-> 2]

OneIntent == {1}
TwoIntents == {1, 2}
ThreeIntents == {1, 2, 3}

OneSmallExit == [i \in OneIntent |-> SellOne]
OneExit == [i \in OneIntent |-> SellTwo]
TwoSmallExits == [i \in TwoIntents |-> SellOne]
TwoFullExits == [i \in TwoIntents |-> SellTwo]
TwoAndOneExits == [i \in TwoIntents |-> IF i = 1 THEN SellTwo ELSE SellOne]
ThreeSmallExits == [i \in ThreeIntents |-> SellOne]

LongTwo == [s \in {"S"} |-> 2]
LongThree == [s \in {"S"} |-> 3]

OnlyExits == [global_mode |-> "ONLY_EXITS", allowlist |-> {},
              execution_mode |-> "PAPER", enable_paper_execution |-> TRUE]
DryRun == [OnlyExits EXCEPT !.execution_mode = "DRYRUN", !.enable_paper_execution = FALSE]

\* The third intent stands for an order that was placed by hand before the
\* engine started, with the id 7 and no client order id.
HandOrder == 7
NoOrders == <<>>
OneHandOrder == HandOrder :> [coid |-> NoCoid, symbol |-> "S", side |-> "SELL", qty |-> 1,
                              filled |-> 0, remaining |-> 1, status |-> "Submitted",
                              acked |-> FALSE]
NoAdoption == <<>>
ThirdAdopted == 3 :> HandOrder

Nobody == {}
NoQtys == {}
Larger == {2, 3}

=============================================================================
