-------------------------- MODULE MCProfitability ---------------------------
(* A dollar has a hundred parts.  Both liquidations have a bonus of a      *)
(* tenth; that of the small one, of 24 dollars, is worth its costs when    *)
(* gas is free.  One arbitrage more than doubles its stake, which is what  *)
(* it takes to be approved; the other borrows the same, and leaves the     *)
(* margin with the fee the scanner counts and with that of no lender.      *)
EXTENDS Profitability

MCSmallOffers == {[id |-> "l1", units |-> 12, bonus |-> 10]}
MCLargeOffers == {[id |-> "l2", units |-> 40, bonus |-> 10]}
MCArbOffers ==
    {[id |-> "a1", gain |-> 900, stake |-> 400, gas |-> 50, fee |-> 1, slippage |-> 5, safety |-> 5],
     [id |-> "a2", gain |-> 464, stake |-> 400, gas |-> 50, fee |-> 0, slippage |-> 5, safety |-> 5]}
MCLenderLists == {<<"aaveV3", "balancer">>, <<"uniswapV3">>}
MCFeeOf == [aaveV3 |-> 5, balancer |-> 1]
=============================================================================
