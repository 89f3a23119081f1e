------------------------------ MODULE MCLedger ------------------------------
EXTENDS Ledger, TLC

CONSTANTS works, stores, payable, bank, petty, supplier, cement, late, scanned, delivery

\* A debit and a credit, and the pocket the line of Payable carries.
M(debit, credit, amount, party) ==
  [b \in Books |-> CASE b = debit -> amount [] b = credit -> -amount
                     [] b = party -> (IF debit = payable THEN amount ELSE -amount)
                     [] OTHER -> 0]

Alike == Permutations(Workers)

MCMoved == [e \in Entries |->
  CASE e = cement -> M(works, payable, 2, supplier)
    [] e = delivery -> M(stores, payable, 1, None)
    [] OTHER -> M(works, payable, 1, None)]
MCMonth == [e \in Entries |-> IF e = late THEN 5 ELSE 6]
MCManual == {M(petty, bank, 1, None)}
MCPay == [n \in 1 .. 2 |-> M(payable, bank, n, supplier)]
=============================================================================
