----------------------------- MODULE ShareLedger -----------------------------
(***************************************************************************)
(* One lazy balance in use: holders deposit and withdraw receipts, and the *)
(* owner of the balance mints into it and reaps from it, in any order.     *)
(* A call that fails leaves the state as it was (its caller drops the      *)
(* borrowed balance and the enclosing storage transaction is rolled back), *)
(* so it is no step.                                                       *)
(***************************************************************************)
EXTENDS ShareBalance, FiniteSets, Functions

CONSTANTS Ids,       \* receipts that can be outstanding at the same time
          Amounts    \* the amounts a call may carry

ASSUME AmountsAssumption == Amounts \subseteq Nat

\* A balance has finitely many receipts.
ASSUME IdsAssumption == IsFiniteSet(Ids)

VARIABLES balance,   \* the virtual balance
          receipts,  \* the receipt held under each id, NoReceipt when none is
          net,       \* history: value paid in less value paid out
          drained    \* history: receipts whose balance was drained since

vars == <<balance, receipts, net, drained>>

Outstanding == {i \in Ids : receipts[i].shares # 0}

Init ==
    /\ balance = FreshBalance
    /\ receipts = [i \in Ids |-> NoReceipt]
    /\ net = 0
    /\ drained = {}

Deposit(i, a) ==
    /\ i \notin Outstanding
    /\ DepositSucceeds(balance, a)
    /\ balance' = DepositBalance(balance, a)
    /\ receipts' = [receipts EXCEPT ![i] = DepositReceipt(balance, a)]
    /\ net' = net + a
    /\ drained' = drained \ {i}

Mint(a) ==
    /\ MintSucceeds(balance, a)
    /\ balance' = MintBalance(balance, a)
    /\ net' = net + a
    /\ drained' = IF a # 0 /\ balance'.bias = 0 THEN Outstanding ELSE drained
    /\ UNCHANGED receipts

Reap(a) ==
    /\ ReapSucceeds(balance, a)
    /\ balance' = ReapBalance(balance, a)
    /\ net' = net - a
    /\ drained' = IF a # 0 /\ balance'.bias = 0 THEN Outstanding ELSE drained
    /\ UNCHANGED receipts

\* A drain is a forced reap of the total value.
Drain == Reap(TotalValue(balance))

Withdraw(i) ==
    /\ WithdrawSucceeds(balance, receipts[i])
    /\ balance' = WithdrawBalance(balance, receipts[i])
    /\ receipts' = [receipts EXCEPT ![i] = NoReceipt]
    /\ net' = net - WithdrawPaid(balance, receipts[i])
    /\ drained' = drained \ {i}

Next ==
    \/ \E i \in Ids, a \in Amounts : Deposit(i, a)
    \/ \E a \in Amounts : Mint(a)
    \/ \E a \in Amounts : Reap(a)
    \/ Drain
    \/ \E i \in Ids : Withdraw(i)

Spec == Init /\ [][Next]_vars

-----------------------------------------------------------------------------
(* Properties *)

SharesOf == [i \in Ids |-> receipts[i].shares]

\* The balance and the receipts are within the widths of their types.
TypeOK ==
    /\ balance \in Balances
    /\ receipts \in [Ids -> Receipts]
    /\ net \in Int
    /\ drained \subseteq Ids

\* The price never promises more than the balance holds: all issued shares,
\* redeemed at `bias`, are worth at most `effective`, whatever was rounded
\* on the way.  (ModelDeposit floors the shares, ModelMint and ModelReap
\* floor the price, ModelWithdraw floors the payout.)
Solvent == balance.issued * balance.bias <= balance.effective * DIV

\* A receipt was bought at no less than its price: the rounding of
\* ModelDeposit is at the depositor's expense, so redeeming at the deposit
\* price never returns more than the principal.
ReceiptBacked ==
    \A i \in Ids : receipts[i].shares * receipts[i].bias <= receipts[i].principal * DIV

\* After the last withdrawal nothing stays behind and the price is back at
\* one, so a balance without shares always accepts the next deposit (it is
\* never left in the drained state that refuses deposits and mints alike).
EmptyMeansReset ==
    balance.issued = 0 =>
        balance.effective = 0 /\ (balance.init => balance.bias = One)

\* Every unit paid in is in the balance or was paid out once: the value of
\* `effective` is deposits and mints less reaps and withdrawals, the dust
\* that ModelWithdraw pays to the last holder included.
Conservation == balance.effective = net

\* The inductive strengthening: as long as no deposit has initialised the
\* balance, nothing has written to it.
FreshUntilDeposit == ~ balance.init => balance = FreshBalance

IInv ==
    /\ TypeOK
    /\ FreshUntilDeposit
    /\ Solvent
    /\ ReceiptBacked
    /\ EmptyMeansReset
    /\ Conservation

\* The checkpoint comparison of ModelWithdraw identifies exactly the receipts
\* whose balance was drained after their deposit (as long as the counter has
\* not reached its maximum, where saturating_add stops it).
OutdatedIffDrained ==
    balance.checkpoint < MaxTime =>
        \A i \in Outstanding : Outdated(balance, receipts[i]) <=> i \in drained

\* What OutdatedIffDrained and OthersUnaffected rest on: the issued shares are
\* the shares of the receipts, a receipt was bought at a price, and neither the
\* drain point nor the checkpoint of a receipt is ahead of the balance.
SharesIssued == balance.issued = SumFunction(SharesOf)

BoughtAtAPrice == \A i \in Outstanding : receipts[i].bias # 0

Timeline ==
    /\ balance.drainpoint <= balance.checkpoint
    /\ \A i \in Outstanding : receipts[i].checkpoint <= balance.checkpoint

LedgerInv ==
    /\ SharesIssued
    /\ BoughtAtAPrice
    /\ Timeline
    /\ OutdatedIffDrained

\* A receipt is never worth less because somebody else deposited or withdrew:
\* only a mint or a reap moves the value of the other receipts.
OthersUnaffected ==
    [][\A i \in Ids :
         (receipts' # receipts /\ i \in Outstanding /\ receipts'[i] = receipts[i])
            => withdraw_value(balance', receipts[i]) >= withdraw_value(balance, receipts[i])]_vars

=============================================================================
