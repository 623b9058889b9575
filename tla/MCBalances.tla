----------------------------- MODULE MCBalances -----------------------------
(* A small interval for Balances: five batches, three contracts; batches 1  *)
(* to 3 mix contracts, as breakNeededBalancesPerBatch does.                 *)
EXTENDS Balances

CONSTANTS broken, healthy, flaky

MCBatches ==
  << {<<"a", broken>>, <<"a", flaky>>},
     {<<"a", broken>>, <<"a", healthy>>, <<"b", healthy>>},
     {<<"b", flaky>>, <<"b", broken>>},
     {<<"a", healthy>>, <<"c", healthy>>},
     {<<"b", broken>>} >>

=============================================================================
