------------------------------ MODULE MCBooks ------------------------------
(* Small sets of tables that refer to each other, one set per behaviour,   *)
(* with the bounds that let the cases of these tables happen.              *)
EXTENDS Books, TLC

Interchangeable == Permutations(Portfolios)

Bound(n, crash, machine) ==
  [rows |-> n, crashes |-> crash, exports |-> 1, restores |-> 1, machines |-> machine]

MCBounds ==
  {"lots", "sales"} :> Bound(3, 0, 0) @@
  {"lots", "decisions"} :> Bound(3, 0, 0) @@
  {"fund_ops"} :> Bound(4, 0, 0) @@
  {"reserve_ops", "reserve_loans"} :> Bound(3, 0, 0) @@
  {"debts"} :> Bound(2, 1, 1) @@
  {"debts", "debt_ops"} :> Bound(2, 0, 0) @@
  {"debts", "debt_marks"} :> Bound(2, 0, 0) @@
  {"goals", "goal_ops"} :> Bound(3, 0, 0) @@
  {"goals", "term_deposits"} :> Bound(2, 0, 0) @@
  {"term_deposits", "deposit_topups"} :> Bound(3, 1, 0) @@
  {"npf_accounts", "npf_ops", "npf_nav"} :> Bound(3, 0, 0) @@
  {"plan_flows", "plan_flow_revisions", "plan_receipts"} :> Bound(5, 0, 1) @@
  {"plan_flows", "plan_flow_revisions", "npf_accounts"} :> Bound(4, 0, 1)
=============================================================================
