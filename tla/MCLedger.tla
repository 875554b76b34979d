------------------------------ MODULE MCLedger ------------------------------
(* Two requests at once, two currencies, and as many writes as the rows of *)
(* a topic need to disagree with one another.                              *)
EXTENDS Ledger

MCNominal == [bond |-> "UAH"]
MCAmounts == {-60, 0, 100}
MCDays == {20240110, 20240601}
MCBounds == [papers |-> 4, cushion |-> 3, debts |-> 4, plan |-> 4,
             savings |-> 4, pension |-> 4]
Interchangeable == Permutations(Clients)
=============================================================================
