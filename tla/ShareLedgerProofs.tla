-------------------------- MODULE ShareLedgerProofs --------------------------
(***************************************************************************)
(* The invariants of ShareLedger for every fixed-point precision, every    *)
(* width of the asset, price and checkpoint types, every set of receipts   *)
(* and every set of amounts.                                               *)
(***************************************************************************)
EXTENDS ShareLedger, ShareBalanceTheorems, SumTheorems, TLAPS

-----------------------------------------------------------------------------
(* The inductive invariant *)

\* The balance a deposit works on: an uninitialised one is initialised first.
LEMMA FreshBalanceFacts ==
    ASSUME IInv
    PROVE  LET b == is_fresh_balance(balance) IN
           /\ b \in Balances
           /\ b.init
           /\ b.effective = balance.effective
           /\ b.issued = balance.issued
           /\ b.issued = 0 => b.bias = One
           /\ b.issued * b.bias <= b.effective * DIV
<1>1. CASE balance.init
  BY <1>1 DEF is_fresh_balance, IInv, TypeOK, EmptyMeansReset, Solvent
<1>2. CASE ~ balance.init
  <2>1. balance = FreshBalance
    BY <1>2 DEF IInv, FreshUntilDeposit
  <2>2. is_fresh_balance(balance) = init_balance
    BY <1>2 DEF is_fresh_balance
  <2>3. init_balance \in Balances
    BY ShareBalanceAssumption DEF init_balance, Balances, One
  <2> QED
    BY <2>1, <2>2, <2>3, ShareBalanceAssumption DEF init_balance, FreshBalance, One
<1> QED  BY <1>1, <1>2

\* A balance that was never used satisfies the invariant.
LEMMA InitIInv == Init => IInv
<1> SUFFICES ASSUME Init PROVE IInv
  OBVIOUS
<1> USE ShareBalanceAssumption DEF Init, FreshBalance, NoReceipt
<1>1. TypeOK  BY DEF TypeOK, Balances, Receipts
<1>2. FreshUntilDeposit  BY DEF FreshUntilDeposit
<1>3. Solvent  BY DEF Solvent
<1>4. ReceiptBacked  BY DEF ReceiptBacked
<1>5. EmptyMeansReset  BY DEF EmptyMeansReset
<1>6. Conservation  BY DEF Conservation
<1> QED  BY <1>1, <1>2, <1>3, <1>4, <1>5, <1>6 DEF IInv

\* ModelDeposit preserves the invariant.
LEMMA DepositIInv ==
    ASSUME IInv, NEW i \in Ids, NEW a \in Amounts, Deposit(i, a)
    PROVE  IInv'
<1> DEFINE b == is_fresh_balance(balance)
           s == deposit_shares(b, a)
           r == DepositReceipt(balance, a)
<1>0. /\ a \in Nat /\ a # 0 /\ DIV \in Nat \ {0}
      /\ MaxAsset \in Nat /\ MaxInner \in Nat /\ MaxTime \in Nat
  BY ShareBalanceAssumption, AmountsAssumption DEF Deposit, DepositSucceeds
<1>1. /\ b \in Balances /\ b.init /\ b.effective = balance.effective
      /\ b.issued = 0 => b.bias = One
      /\ b.issued * b.bias <= b.effective * DIV
  BY FreshBalanceFacts
<1>2. /\ b.bias # 0 /\ s # 0
      /\ b.effective + a <= MaxAsset /\ b.issued + s <= MaxAsset
  BY DEF Deposit, DepositSucceeds
<1>3. s \in Nat /\ s * b.bias <= a * DIV
  BY <1>0, <1>1, <1>2, DepositSharesBound
<1>4. balance' = [b EXCEPT !.effective = @ + a, !.issued = @ + s]
  BY DEF Deposit, DepositBalance
<1>5. r = [principal |-> a, shares |-> s, bias |-> b.bias, checkpoint |-> b.checkpoint]
  BY DEF DepositReceipt
<1>6. receipts' = [receipts EXCEPT ![i] = r] /\ net' = net + a /\ drained' = drained \ {i}
  BY DEF Deposit
<1>7. receipts \in [Ids -> Receipts] /\ net \in Int /\ drained \subseteq Ids
  BY DEF IInv, TypeOK
<1> HIDE DEF b, s, r
<1>8. /\ b.effective \in Nat /\ b.issued \in Nat /\ b.bias \in 0 .. MaxInner
      /\ b.checkpoint \in 0 .. MaxTime
  BY <1>0, <1>1 DEF Balances
<1>9. /\ balance'.init = b.init
      /\ balance'.effective = b.effective + a /\ balance'.issued = b.issued + s
      /\ balance'.bias = b.bias
  BY <1>1, <1>4 DEF Balances
<1>10. TypeOK'
  <2>1. balance' \in Balances
    <3>1. b.effective + a \in 0 .. MaxAsset /\ b.issued + s \in 0 .. MaxAsset
      BY <1>0, <1>2, <1>3, <1>8
    <3>2. 0 \in 0 .. MaxInner
      BY <1>0
    <3> QED  BY <1>1, <1>4, <3>1, <3>2, SetTwoFields
  <2>2. r \in Receipts
    BY <1>0, <1>2, <1>3, <1>5, <1>8 DEF Receipts
  <2> QED  BY <1>0, <1>6, <1>7, <2>1, <2>2 DEF TypeOK
<1>11. FreshUntilDeposit'
  BY <1>1, <1>9 DEF FreshUntilDeposit
<1>12. Solvent'
  <2>1. (b.issued + s) * b.bias = b.issued * b.bias + s * b.bias
    BY <1>3, <1>8, MulDistrib
  <2>2. (b.effective + a) * DIV = b.effective * DIV + a * DIV
    BY <1>0, <1>8, MulDistrib
  <2>3. b.issued * b.bias \in Nat /\ s * b.bias \in Nat /\ b.effective * DIV \in Nat /\ a * DIV \in Nat
    BY <1>0, <1>3, <1>8, MulNat
  <2> QED  BY <1>1, <1>3, <1>9, <2>1, <2>2, <2>3 DEF Solvent
<1>13. ReceiptBacked'
  <2>1. r.shares * r.bias <= r.principal * DIV
    BY <1>3, <1>5
  <2> QED  BY <1>6, <1>7, <2>1 DEF ReceiptBacked, IInv
<1>14. EmptyMeansReset'
  BY <1>2, <1>3, <1>8, <1>9 DEF EmptyMeansReset
<1>15. Conservation'
  BY <1>1, <1>6, <1>9 DEF Conservation, IInv
<1> QED  BY <1>10, <1>11, <1>12, <1>13, <1>14, <1>15 DEF IInv

\* The invariant after a mint or a reap: the value becomes n and the price is
\* the floor of n over the shares.
LEMMA AdjustIInv ==
    ASSUME IInv, CanAdjust(balance),
           NEW n \in 0 .. MaxAsset, Fits(from_rational(n, balance.issued)),
           balance' = balance_checkpoint(
               [balance EXCEPT !.effective = n,
                               !.bias = from_rational(n, balance.issued)]),
           receipts' = receipts, drained' \subseteq Ids, net' = n
    PROVE  IInv'
<1> DEFINE p == from_rational(n, balance.issued)
           c == [balance EXCEPT !.effective = n, !.bias = p]
           now == Least(c.checkpoint + 1, MaxTime)
           d == [c EXCEPT !.checkpoint = now]
           e == IF c.bias = 0 THEN now ELSE c.drainpoint
<1>0. /\ DIV \in Nat \ {0} /\ MaxAsset \in Nat /\ MaxInner \in Nat /\ MaxTime \in Nat
  BY ShareBalanceAssumption
<1>1. /\ balance \in Balances /\ balance.issued \in Nat \ {0} /\ balance.init
      /\ n \in Nat
  BY <1>0 DEF IInv, TypeOK, Balances, CanAdjust
<1>2. p \in Nat /\ balance.issued * p <= n * DIV
  BY <1>1, PriceBound
<1>3. p \in 0 .. MaxInner
  BY <1>0, <1>2 DEF Fits
<1>4. c \in Balances
  BY <1>0, <1>1, <1>3, SetTwoFields
<1>5. /\ c.init = balance.init /\ c.effective = n /\ c.issued = balance.issued
      /\ c.bias = p
  BY <1>1, Zenon DEF Balances
<1>6. balance' = [d EXCEPT !.drainpoint = e]
  BY Zenon DEF balance_checkpoint
<1> HIDE DEF p, c
<1>7. now \in 0 .. MaxTime /\ e \in 0 .. MaxTime
  BY <1>0, <1>4 DEF Least, Balances
<1>8. d \in Balances /\ d.init = c.init /\ d.effective = c.effective
      /\ d.issued = c.issued /\ d.bias = c.bias
  BY <1>4, <1>7 DEF Balances
<1> HIDE DEF now, d, e
<1>9. /\ balance' \in Balances /\ balance'.init = balance.init
      /\ balance'.effective = n /\ balance'.issued = balance.issued
      /\ balance'.bias = p
  BY <1>5, <1>6, <1>7, <1>8 DEF Balances
<1>10. TypeOK'
  BY <1>1, <1>9 DEF TypeOK, IInv
<1>11. FreshUntilDeposit'
  BY <1>1, <1>9 DEF FreshUntilDeposit
<1>12. Solvent'
  BY <1>2, <1>9 DEF Solvent
<1>13. ReceiptBacked'
  BY DEF ReceiptBacked, IInv
<1>14. EmptyMeansReset'
  BY <1>1, <1>9 DEF EmptyMeansReset
<1>15. Conservation'
  BY <1>9 DEF Conservation
<1> QED  BY <1>10, <1>11, <1>12, <1>13, <1>14, <1>15 DEF IInv

\* A step that leaves balance, receipts and net as they were.
LEMMA SameIInv ==
    ASSUME IInv, balance' = balance, receipts' = receipts, net' = net, drained' \subseteq Ids
    PROVE  IInv'
  BY DEF IInv, TypeOK, FreshUntilDeposit, Solvent, ReceiptBacked, EmptyMeansReset, Conservation

\* ModelMint preserves the invariant.
LEMMA MintIInv ==
    ASSUME IInv, NEW a \in Nat, Mint(a)
    PROVE  IInv'
<1>1. balance.effective \in 0 .. MaxAsset /\ MaxAsset \in Nat /\ net = balance.effective
  BY ShareBalanceAssumption DEF IInv, TypeOK, Balances, Conservation
<1>2. drained' \subseteq Ids
  BY DEF Mint, Outstanding, IInv, TypeOK
<1>3. CASE a = 0
  BY <1>1, <1>2, <1>3, SameIInv DEF Mint, MintBalance
<1>4. CASE a # 0
  <2> DEFINE n == balance.effective + a
  <2>1. n \in 0 .. MaxAsset /\ CanAdjust(balance) /\ Fits(from_rational(n, balance.issued))
    BY <1>1, <1>4 DEF Mint, MintSucceeds
  <2>2. /\ balance' = balance_checkpoint(
               [balance EXCEPT !.effective = n,
                               !.bias = from_rational(n, balance.issued)])
        /\ receipts' = receipts
    BY <1>4, Zenon DEF Mint, MintBalance
  <2>3. net' = n
    BY <1>1 DEF Mint
  <2> HIDE DEF n
  <2> QED  BY <1>2, <2>1, <2>2, <2>3, AdjustIInv
<1> QED  BY <1>3, <1>4

\* ModelReap preserves the invariant.
LEMMA ReapIInv ==
    ASSUME IInv, NEW a \in Nat, Reap(a)
    PROVE  IInv'
<1>1. balance.effective \in 0 .. MaxAsset /\ MaxAsset \in Nat /\ net = balance.effective
  BY ShareBalanceAssumption DEF IInv, TypeOK, Balances, Conservation
<1>2. drained' \subseteq Ids
  BY DEF Reap, Outstanding, IInv, TypeOK
<1>3. CASE a = 0
  BY <1>1, <1>2, <1>3, SameIInv DEF Reap, ReapBalance
<1>4. CASE a # 0
  <2> DEFINE n == balance.effective - a
  <2>1. n \in 0 .. MaxAsset /\ CanAdjust(balance) /\ Fits(from_rational(n, balance.issued))
    BY <1>1, <1>4 DEF Reap, ReapSucceeds
  <2>2. /\ balance' = balance_checkpoint(
               [balance EXCEPT !.effective = n,
                               !.bias = from_rational(n, balance.issued)])
        /\ receipts' = receipts
    BY <1>4, Zenon DEF Reap, ReapBalance
  <2>3. net' = n
    BY <1>1 DEF Reap
  <2> HIDE DEF n
  <2> QED  BY <1>2, <2>1, <2>2, <2>3, AdjustIInv
<1> QED  BY <1>3, <1>4

\* ModelWithdraw preserves the invariant, the reset after the last share
\* included.
LEMMA WithdrawIInv ==
    ASSUME IInv, NEW i \in Ids, Withdraw(i)
    PROVE  IInv'
<1> DEFINE r == receipts[i]
           w == withdraw_value(balance, r)
           left == balance.effective - w
           issued == balance.issued - r.shares
<1>0. /\ DIV \in Nat \ {0} /\ MaxAsset \in Nat /\ MaxInner \in Nat /\ MaxTime \in Nat
      /\ DIV <= MaxInner
  BY ShareBalanceAssumption
<1>1. /\ balance \in Balances /\ receipts \in [Ids -> Receipts]
      /\ net = balance.effective /\ drained \subseteq Ids
      /\ balance.issued * balance.bias <= balance.effective * DIV
  BY DEF IInv, TypeOK, Conservation, Solvent
<1>2. r \in Receipts
  BY <1>1
<1>3. /\ balance.effective \in 0 .. MaxAsset /\ balance.issued \in 0 .. MaxAsset
      /\ balance.bias \in 0 .. MaxInner /\ r.shares \in Nat
  BY <1>1, <1>2 DEF Balances, Receipts
<1>4. balance.init /\ r.shares <= balance.issued /\ price_at_deposit(balance, r) # 0
  BY DEF Withdraw, WithdrawSucceeds, CanWithdraw
<1>5. /\ redeem_value(balance, r) \in Nat
      /\ redeem_value(balance, r) * DIV <= r.shares * balance.bias
  BY <1>1, <1>2, <1>4, RedeemBound
<1>6. /\ w \in Nat /\ w <= balance.effective
      /\ w * DIV <= r.shares * balance.bias
  <2>1. w \in Nat /\ w <= balance.effective /\ w <= redeem_value(balance, r)
    BY <1>0, <1>3, <1>5 DEF withdraw_value, Least
  <2>2. w * DIV <= redeem_value(balance, r) * DIV
    BY <1>0, <1>5, <2>1, MulMono
  <2> QED  BY <1>0, <1>3, <1>5, <2>1, <2>2, MulNat
<1>7. /\ balance' = WithdrawBalance(balance, r)
      /\ net' = net - WithdrawPaid(balance, r)
      /\ receipts' = [receipts EXCEPT ![i] = NoReceipt]
      /\ drained' = drained \ {i}
  BY DEF Withdraw
<1>8. left \in 0 .. MaxAsset /\ issued \in 0 .. MaxAsset
  BY <1>0, <1>3, <1>4, <1>6
<1>9. NoReceipt \in Receipts
  BY <1>0 DEF NoReceipt, Receipts
<1>10. receipts' \in [Ids -> Receipts] /\ drained' \subseteq Ids
  BY <1>1, <1>7, <1>9
<1>11. ReceiptBacked'
  <2>1. NoReceipt.shares * NoReceipt.bias <= NoReceipt.principal * DIV
    BY <1>0 DEF NoReceipt
  <2> QED  BY <1>1, <1>7, <2>1 DEF ReceiptBacked, IInv
<1>12. CASE issued = 0
  <2>1. net' = 0
    BY <1>1, <1>3, <1>7, <1>12 DEF WithdrawPaid
  <2>2. /\ balance' \in Balances /\ balance'.init /\ balance'.effective = 0
        /\ balance'.issued = 0 /\ balance'.bias = One
    <3>1. CASE left # 0
      <4>1. balance' = init_balance
        BY <1>7, <1>12, <3>1 DEF WithdrawBalance
      <4> QED  BY <1>0, <4>1 DEF init_balance, Balances, One
    <3>2. CASE left = 0
      <4> DEFINE c == [balance EXCEPT !.effective = 0, !.issued = 0]
      <4>1. balance' = [c EXCEPT !.bias = One]
        BY <1>7, <1>12, <3>2, Zenon DEF WithdrawBalance
      <4>2. 0 \in 0 .. MaxAsset /\ 0 \in 0 .. MaxInner /\ One \in 0 .. MaxInner
        BY <1>0 DEF One
      <4>3. c \in Balances
        BY <1>1, <4>2, SetTwoFields
      <4>4. c.init = balance.init /\ c.effective = 0 /\ c.issued = 0
        BY <1>1, Zenon DEF Balances
      <4> HIDE DEF c
      <4> QED  BY <1>4, <4>1, <4>2, <4>3, <4>4 DEF Balances
    <3> QED  BY <3>1, <3>2
  <2>3. TypeOK'  BY <1>10, <2>1, <2>2 DEF TypeOK
  <2>4. FreshUntilDeposit'  BY <2>2 DEF FreshUntilDeposit
  <2>5. Solvent'  BY <1>0, <2>2 DEF Solvent, One
  <2>6. EmptyMeansReset'  BY <2>2 DEF EmptyMeansReset
  <2>7. Conservation'  BY <2>1, <2>2 DEF Conservation
  <2> QED  BY <1>11, <2>3, <2>4, <2>5, <2>6, <2>7 DEF IInv
<1>13. CASE issued # 0
  <2>1. net' = left
    BY <1>1, <1>3, <1>7, <1>13 DEF WithdrawPaid
  <2>2. balance' = [balance EXCEPT !.effective = left, !.issued = issued]
    BY <1>7, <1>13, Zenon DEF WithdrawBalance
  <2> HIDE DEF left, issued
  <2>3. /\ balance'.init = balance.init /\ balance'.effective = left
        /\ balance'.issued = issued /\ balance'.bias = balance.bias
    BY <1>1, <2>2, Zenon DEF Balances
  <2>4. balance' \in Balances
    BY <1>1, <1>3, <1>8, <2>2, SetTwoFields
  <2>5. TypeOK'
    BY <1>8, <1>10, <2>1, <2>4 DEF TypeOK
  <2>6. FreshUntilDeposit'
    BY <1>4, <2>3 DEF FreshUntilDeposit
  <2>7. Solvent'
    <3>1. issued * balance.bias = balance.issued * balance.bias - r.shares * balance.bias
      BY <1>3, MulDistrib DEF issued
    <3>2. left * DIV = balance.effective * DIV - w * DIV
      BY <1>0, <1>3, <1>6, MulDistrib DEF left
    <3>3. /\ balance.issued * balance.bias \in Nat /\ r.shares * balance.bias \in Nat
          /\ balance.effective * DIV \in Nat /\ w * DIV \in Nat
      BY <1>0, <1>3, <1>6, MulNat
    <3> HIDE DEF r, w
    <3> QED  BY <1>1, <1>6, <2>3, <3>1, <3>2, <3>3 DEF Solvent
  <2>8. EmptyMeansReset'
    BY <1>13, <2>3 DEF EmptyMeansReset
  <2>9. Conservation'
    BY <2>1, <2>3 DEF Conservation
  <2> QED  BY <1>11, <2>5, <2>6, <2>7, <2>8, <2>9 DEF IInv
<1> QED  BY <1>12, <1>13

-----------------------------------------------------------------------------
(* Theorems *)

\* The conjunction is inductive: every operation of ShareBalanceFamily
\* preserves it.
THEOREM Inductive == Spec => []IInv
<1>1. IInv /\ [Next]_vars => IInv'
  <2> SUFFICES ASSUME IInv, [Next]_vars PROVE IInv'
    OBVIOUS
  <2>1. ASSUME NEW i \in Ids, NEW a \in Amounts, Deposit(i, a) PROVE IInv'
    BY <2>1, DepositIInv
  <2>2. ASSUME NEW a \in Amounts, Mint(a) PROVE IInv'
    BY <2>2, MintIInv, AmountsAssumption
  <2>3. ASSUME NEW a \in Amounts, Reap(a) PROVE IInv'
    BY <2>3, ReapIInv, AmountsAssumption
  <2>4. CASE Drain
    <3>1. TotalValue(balance) \in Nat
      BY ShareBalanceAssumption DEF TotalValue, IInv, TypeOK, Balances
    <3> QED  BY <2>4, <3>1, ReapIInv DEF Drain
  <2>5. ASSUME NEW i \in Ids, Withdraw(i) PROVE IInv'
    BY <2>5, WithdrawIInv
  <2>6. CASE UNCHANGED vars
    <3>1. drained' \subseteq Ids
      BY <2>6 DEF vars, IInv, TypeOK
    <3> QED  BY <2>6, <3>1, SameIInv DEF vars
  <2> QED  BY <2>1, <2>2, <2>3, <2>4, <2>5, <2>6 DEF Next
<1> QED  BY InitIInv, <1>1, PTL DEF Spec

\* No operation leaves the widths of the asset, the price or the checkpoint.
THEOREM TypeCorrect == Spec => []TypeOK
<1>1. IInv => TypeOK  BY DEF IInv
<1> QED  BY Inductive, <1>1, PTL

\* For every precision and every history of deposits, mints, reaps, drains
\* and withdrawals the issued shares are covered by the balance.
THEOREM Solvency == Spec => []Solvent
<1>1. IInv => Solvent  BY DEF IInv
<1> QED  BY Inductive, <1>1, PTL

\* No receipt was issued for more than its principal buys.
THEOREM Backing == Spec => []ReceiptBacked
<1>1. IInv => ReceiptBacked  BY DEF IInv
<1> QED  BY Inductive, <1>1, PTL

\* A balance whose last share was withdrawn is empty and priced at one.
THEOREM Reset == Spec => []EmptyMeansReset
<1>1. IInv => EmptyMeansReset  BY DEF IInv
<1> QED  BY Inductive, <1>1, PTL

\* No operation creates or loses value.
THEOREM ValueConserved == Spec => []Conservation
<1>1. IInv => Conservation  BY DEF IInv
<1> QED  BY Inductive, <1>1, PTL

-----------------------------------------------------------------------------
(* The receipts and the shares, and the order of drains and deposits *)

\* No receipt and no two receipts have more shares than were issued.
LEMMA HeldShares ==
    ASSUME IInv, SharesIssued
    PROVE  /\ \A i \in Ids : receipts[i].shares \in Nat
           /\ \A i \in Ids : receipts[i].shares <= balance.issued
           /\ \A i, j \in Ids : i # j => receipts[i].shares + receipts[j].shares <= balance.issued
           /\ balance.issued = 0 => Outstanding = {}
<1>1. receipts \in [Ids -> Receipts] /\ MaxAsset \in Nat
  BY ShareBalanceAssumption DEF IInv, TypeOK
<1>2. \A i \in Ids : receipts[i].shares \in Nat
  BY <1>1 DEF Receipts
<1>3. DOMAIN SharesOf = Ids /\ \A i \in Ids : SharesOf[i] = receipts[i].shares
  BY DEF SharesOf
<1>4. /\ \A i \in Ids : SharesOf[i] <= balance.issued
      /\ \A i, j \in Ids : i # j => SharesOf[i] + SharesOf[j] <= balance.issued
  BY <1>2, <1>3, IdsAssumption, SumOfNats DEF SharesIssued
<1>5. balance.issued = 0 => \A i \in Ids : receipts[i].shares = 0
  BY <1>2, <1>3, <1>4
<1> QED  BY <1>2, <1>3, <1>4, <1>5 DEF Outstanding

\* A receipt that takes the place of another moves the shares held by the
\* difference.
LEMMA SharesAfter ==
    ASSUME IInv, NEW i \in Ids, NEW r, r.shares \in Nat,
           receipts' = [receipts EXCEPT ![i] = r]
    PROVE  SumFunction(SharesOf') = SumFunction(SharesOf) + r.shares - receipts[i].shares
<1>1. receipts \in [Ids -> Receipts] /\ MaxAsset \in Nat
  BY ShareBalanceAssumption DEF IInv, TypeOK
<1>2. \A j \in Ids : receipts[j].shares \in Nat
  BY <1>1 DEF Receipts
<1> DEFINE f == SharesOf
           g == [j \in Ids |-> receipts'[j].shares]
<1>3. /\ DOMAIN f = Ids /\ \A j \in DOMAIN f : f[j] \in Int
      /\ f[i] = receipts[i].shares
  BY <1>2 DEF SharesOf
<1>4. /\ DOMAIN g = DOMAIN f \cup {i} /\ g[i] = r.shares
      /\ \A j \in DOMAIN f \ {i} : g[j] = f[j]
  BY <1>1 DEF SharesOf
<1>5. SharesOf' = g
  BY DEF SharesOf
<1> HIDE DEF f, g
<1>6. SumFunction(g) = SumFunction(f) + r.shares - (IF i \in DOMAIN f THEN f[i] ELSE 0)
  BY <1>3, <1>4, IdsAssumption, SumPut
<1> QED  BY <1>3, <1>5, <1>6 DEF f

\* A balance that was never used.
LEMMA InitLedger == Init => LedgerInv
<1> SUFFICES ASSUME Init PROVE LedgerInv
  OBVIOUS
<1>1. \A i \in Ids : receipts[i].shares = 0
  BY DEF Init, NoReceipt
<1>2. Outstanding = {}
  BY <1>1 DEF Outstanding
<1>3. DOMAIN SharesOf = Ids /\ \A i \in DOMAIN SharesOf : SharesOf[i] = 0
  BY <1>1 DEF SharesOf
<1>4. SumFunction(SharesOf) = 0
  BY <1>3, IdsAssumption, SumOfZeros
<1>5. SharesIssued  BY <1>4 DEF SharesIssued, Init, FreshBalance
<1>6. BoughtAtAPrice  BY <1>2 DEF BoughtAtAPrice
<1>7. Timeline  BY <1>2 DEF Timeline, Init, FreshBalance
<1>8. OutdatedIffDrained  BY <1>2 DEF OutdatedIffDrained
<1> QED  BY <1>5, <1>6, <1>7, <1>8 DEF LedgerInv

\* ModelDeposit: the receipt carries the checkpoint of the balance, which no
\* drain point has passed.
LEMMA DepositLedger ==
    ASSUME IInv, LedgerInv, NEW i \in Ids, NEW a \in Amounts, Deposit(i, a)
    PROVE  LedgerInv'
<1> DEFINE b == is_fresh_balance(balance)
           s == deposit_shares(b, a)
           r == DepositReceipt(balance, a)
<1>0. /\ a \in Nat /\ MaxAsset \in Nat /\ MaxTime \in Nat
      /\ receipts \in [Ids -> Receipts] /\ balance \in Balances
  BY ShareBalanceAssumption, AmountsAssumption DEF IInv, TypeOK
<1>1. b \in Balances /\ b.issued = balance.issued /\ (b.issued = 0 => b.bias = One)
  BY FreshBalanceFacts
<1>2. /\ b.bias # 0 /\ s # 0
      /\ i \notin Outstanding
  BY DEF Deposit, DepositSucceeds
<1>3. s \in Nat
  BY <1>0, <1>1, <1>2, DepositSharesBound
<1>4. balance' = [b EXCEPT !.effective = @ + a, !.issued = @ + s]
  BY DEF Deposit, DepositBalance
<1>5. /\ r = [principal |-> a, shares |-> s, bias |-> b.bias, checkpoint |-> b.checkpoint]
      /\ r.shares = s /\ r.bias = b.bias /\ r.checkpoint = b.checkpoint
  BY DEF DepositReceipt
<1>6. receipts' = [receipts EXCEPT ![i] = r] /\ drained' = drained \ {i}
  BY DEF Deposit
<1>7. receipts[i].shares = 0
  BY <1>2 DEF Outstanding
<1>8. SharesIssued /\ BoughtAtAPrice /\ Timeline /\ OutdatedIffDrained
  BY DEF LedgerInv
<1>9. /\ b.checkpoint \in 0 .. MaxTime /\ b.drainpoint \in 0 .. MaxTime
      /\ b.drainpoint <= b.checkpoint
      /\ \A j \in Outstanding : receipts[j].checkpoint <= b.checkpoint
      /\ b.checkpoint < MaxTime =>
            \A j \in Outstanding : b.drainpoint > receipts[j].checkpoint <=> j \in drained
  <2>1. b.checkpoint \in 0 .. MaxTime /\ b.drainpoint \in 0 .. MaxTime
    BY <1>1 DEF Balances
  <2>2. CASE balance.init
    BY <1>8, <2>1, <2>2 DEF is_fresh_balance, Timeline, OutdatedIffDrained, Outdated
  <2>3. CASE ~ balance.init
    <3>1. balance.issued = 0
      BY <2>3 DEF IInv, FreshUntilDeposit, FreshBalance
    <3>2. Outstanding = {}
      BY <1>8, <3>1, HeldShares
    <3>3. b.drainpoint = 0 /\ b.checkpoint = 0
      BY <2>3 DEF is_fresh_balance, init_balance
    <3> QED  BY <2>1, <3>2, <3>3
  <2> QED  BY <2>2, <2>3
<1> HIDE DEF b, s, r
<1>10. /\ balance'.issued = balance.issued + s
       /\ balance'.checkpoint = b.checkpoint /\ balance'.drainpoint = b.drainpoint
  BY <1>1, <1>4 DEF Balances
<1>11. Outstanding' = Outstanding \cup {i}
  BY <1>0, <1>2, <1>5, <1>6 DEF Outstanding
<1>12. \A j \in Outstanding : j # i /\ receipts'[j] = receipts[j]
  BY <1>0, <1>2, <1>6 DEF Outstanding
<1>13. receipts'[i] = r
  BY <1>0, <1>6
<1>14. SharesIssued'
  <2>1. SumFunction(SharesOf') = SumFunction(SharesOf) + s - 0
    BY <1>3, <1>5, <1>6, <1>7, SharesAfter
  <2>2. balance.issued \in Nat /\ SumFunction(SharesOf) = balance.issued
    BY <1>0, <1>8 DEF SharesIssued, Balances
  <2> QED  BY <1>3, <1>10, <2>1, <2>2 DEF SharesIssued
<1>15. BoughtAtAPrice'
  BY <1>2, <1>5, <1>8, <1>11, <1>12, <1>13 DEF BoughtAtAPrice
<1>16. Timeline'
  BY <1>5, <1>9, <1>10, <1>11, <1>12, <1>13 DEF Timeline
<1>17. OutdatedIffDrained'
  <2> SUFFICES ASSUME b.checkpoint < MaxTime, NEW j \in Outstanding \cup {i}
               PROVE  b.drainpoint > receipts'[j].checkpoint <=> j \in drained \ {i}
    BY <1>6, <1>10, <1>11 DEF OutdatedIffDrained, Outdated
  <2>1. CASE j = i
    BY <1>5, <1>9, <1>13, <2>1
  <2>2. CASE j # i
    BY <1>9, <1>12, <2>2
  <2> QED  BY <2>1, <2>2
<1> QED  BY <1>14, <1>15, <1>16, <1>17 DEF LedgerInv

\* ModelMint and ModelReap count a checkpoint, and one that leaves no value
\* puts the drain point past every receipt.
LEMMA AdjustLedger ==
    ASSUME IInv, LedgerInv, NEW n, NEW p,
           balance' = balance_checkpoint([balance EXCEPT !.effective = n, !.bias = p]),
           receipts' = receipts,
           drained' = IF balance'.bias = 0 THEN Outstanding ELSE drained
    PROVE  LedgerInv'
<1> DEFINE c == [balance EXCEPT !.effective = n, !.bias = p]
           now == Least(balance.checkpoint + 1, MaxTime)
           e == IF p = 0 THEN now ELSE balance.drainpoint
<1>0. /\ MaxTime \in Nat /\ MaxAsset \in Nat /\ receipts \in [Ids -> Receipts]
      /\ balance \in Balances
  BY ShareBalanceAssumption DEF IInv, TypeOK
<1>1. /\ c.issued = balance.issued /\ c.bias = p /\ c.checkpoint = balance.checkpoint
      /\ c.drainpoint = balance.drainpoint
      /\ DOMAIN c = {"init", "effective", "issued", "bias", "checkpoint", "drainpoint"}
  BY <1>0 DEF Balances
<1>2. balance' = [c EXCEPT !.checkpoint = Least(c.checkpoint + 1, MaxTime),
                           !.drainpoint = IF c.bias = 0 THEN Least(c.checkpoint + 1, MaxTime) ELSE @]
  BY Zenon DEF balance_checkpoint
<1> HIDE DEF c
<1>3. /\ balance'.issued = balance.issued /\ balance'.bias = p
      /\ balance'.checkpoint = now /\ balance'.drainpoint = e
  BY <1>1, <1>2
<1>4. /\ balance.checkpoint \in 0 .. MaxTime /\ balance.drainpoint \in 0 .. MaxTime
      /\ now \in 0 .. MaxTime /\ balance.checkpoint <= now
      /\ now < MaxTime => now = balance.checkpoint + 1
  BY <1>0 DEF Balances, Least
<1>5. \A i \in Ids : receipts[i].checkpoint \in Nat
  BY <1>0 DEF Receipts
<1> HIDE DEF now
<1>6. SharesIssued /\ BoughtAtAPrice /\ Timeline /\ OutdatedIffDrained
  BY DEF LedgerInv
<1>7. Outstanding' = Outstanding /\ Outstanding \subseteq Ids
  BY DEF Outstanding
<1>8. SharesIssued'
  BY <1>3, <1>6 DEF SharesIssued, SharesOf
<1>9. BoughtAtAPrice'
  BY <1>6, <1>7 DEF BoughtAtAPrice
<1>10. Timeline'
  BY <1>3, <1>4, <1>5, <1>6, <1>7 DEF Timeline
<1>11. OutdatedIffDrained'
  <2> SUFFICES ASSUME now < MaxTime, NEW i \in Outstanding
               PROVE  e > receipts[i].checkpoint <=> i \in drained'
    BY <1>3, <1>7 DEF OutdatedIffDrained, Outdated
  <2>1. balance.checkpoint < MaxTime
    BY <1>0, <1>4
  <2>2. receipts[i].checkpoint <= balance.checkpoint /\ receipts[i].checkpoint \in Nat
    BY <1>5, <1>6, <1>7 DEF Timeline
  <2>3. CASE p = 0
    BY <1>3, <1>4, <2>2, <2>3
  <2>4. CASE p # 0
    BY <1>3, <1>6, <2>1, <2>4 DEF OutdatedIffDrained, Outdated
  <2> QED  BY <2>3, <2>4
<1> QED  BY <1>8, <1>9, <1>10, <1>11 DEF LedgerInv

\* A step that leaves balance, receipts and drained as they were.
LEMMA SameLedger ==
    ASSUME LedgerInv, balance' = balance, receipts' = receipts, drained' = drained
    PROVE  LedgerInv'
  BY DEF LedgerInv, SharesIssued, SharesOf, BoughtAtAPrice, Timeline, OutdatedIffDrained, Outstanding

LEMMA MintLedger ==
    ASSUME IInv, LedgerInv, NEW a \in Nat, Mint(a)
    PROVE  LedgerInv'
<1>1. CASE a = 0
  BY <1>1, SameLedger DEF Mint, MintBalance
<1>2. CASE a # 0
  <2>1. balance' = balance_checkpoint(
            [balance EXCEPT !.effective = balance.effective + a,
                            !.bias = from_rational(balance.effective + a, balance.issued)])
    BY <1>2, Zenon DEF Mint, MintBalance
  <2>2. receipts' = receipts /\ drained' = IF balance'.bias = 0 THEN Outstanding ELSE drained
    BY <1>2 DEF Mint
  <2> QED  BY <2>1, <2>2, AdjustLedger
<1> QED  BY <1>1, <1>2

LEMMA ReapLedger ==
    ASSUME IInv, LedgerInv, NEW a \in Nat, Reap(a)
    PROVE  LedgerInv'
<1>1. CASE a = 0
  BY <1>1, SameLedger DEF Reap, ReapBalance
<1>2. CASE a # 0
  <2>1. balance' = balance_checkpoint(
            [balance EXCEPT !.effective = balance.effective - a,
                            !.bias = from_rational(balance.effective - a, balance.issued)])
    BY <1>2, Zenon DEF Reap, ReapBalance
  <2>2. receipts' = receipts /\ drained' = IF balance'.bias = 0 THEN Outstanding ELSE drained
    BY <1>2 DEF Reap
  <2> QED  BY <2>1, <2>2, AdjustLedger
<1> QED  BY <1>1, <1>2

\* ModelWithdraw: the counters restart only when no receipt is left.
LEMMA WithdrawLedger ==
    ASSUME IInv, LedgerInv, NEW i \in Ids, Withdraw(i)
    PROVE  LedgerInv'
<1> DEFINE r == receipts[i]
           left == balance.effective - withdraw_value(balance, r)
           issued == balance.issued - r.shares
<1>0. /\ MaxAsset \in Nat /\ MaxTime \in Nat
      /\ receipts \in [Ids -> Receipts] /\ balance \in Balances
  BY ShareBalanceAssumption DEF IInv, TypeOK
<1>1. r.shares \in Nat /\ r.shares <= balance.issued /\ r.shares # 0 /\ balance.issued \in Nat
  BY <1>0 DEF Receipts, Balances, Withdraw, WithdrawSucceeds, CanWithdraw
<1>2. /\ balance' = WithdrawBalance(balance, r)
      /\ receipts' = [receipts EXCEPT ![i] = NoReceipt]
      /\ drained' = drained \ {i}
  BY DEF Withdraw
<1>3. SharesIssued /\ BoughtAtAPrice /\ Timeline /\ OutdatedIffDrained
  BY DEF LedgerInv
<1>4. balance'.issued = issued
  <2>1. CASE issued = 0 /\ left # 0
    BY <1>2, <2>1 DEF WithdrawBalance, init_balance
  <2>2. CASE issued = 0 /\ left = 0
    <3>1. balance' = [balance EXCEPT !.effective = 0, !.issued = 0, !.bias = One]
      BY <1>2, <2>2, Zenon DEF WithdrawBalance
    <3> QED  BY <1>0, <2>2, <3>1, Zenon DEF Balances
  <2>3. CASE issued # 0
    <3>1. balance' = [balance EXCEPT !.effective = left, !.issued = issued]
      BY <1>2, <2>3, Zenon DEF WithdrawBalance
    <3> HIDE DEF issued, left
    <3> QED  BY <1>0, <3>1, Zenon DEF Balances
  <2> QED  BY <2>1, <2>2, <2>3
<1>5. SharesIssued'
  <2>1. NoReceipt.shares = 0 /\ 0 \in Nat
    BY DEF NoReceipt
  <2>2. SumFunction(SharesOf') = SumFunction(SharesOf) + NoReceipt.shares - receipts[i].shares
    BY <1>2, <2>1, SharesAfter
  <2> QED  BY <1>1, <1>3, <1>4, <2>1, <2>2 DEF SharesIssued
<1>6. Outstanding' = Outstanding \ {i}
  BY <1>0, <1>2 DEF Outstanding, NoReceipt
<1>7. \A j \in Outstanding' : receipts'[j] = receipts[j]
  BY <1>0, <1>2, <1>6 DEF Outstanding
<1>8. BoughtAtAPrice'
  BY <1>3, <1>6, <1>7 DEF BoughtAtAPrice
<1>9. CASE issued = 0
  <2>1. Outstanding' = {}
    <3> SUFFICES ASSUME NEW j \in Ids, j # i, receipts[j].shares # 0  PROVE FALSE
      BY <1>6 DEF Outstanding
    <3>1. receipts[i].shares + receipts[j].shares <= balance.issued /\ receipts[j].shares \in Nat
      BY <1>3, HeldShares
    <3> QED  BY <1>1, <1>9, <3>1
  <2>2. balance'.drainpoint <= balance'.checkpoint
    <3>1. CASE left # 0
      BY <1>2, <1>9, <3>1 DEF WithdrawBalance, init_balance
    <3>2. CASE left = 0
      <4>1. balance' = [balance EXCEPT !.effective = 0, !.issued = 0, !.bias = One]
        BY <1>2, <1>9, <3>2, Zenon DEF WithdrawBalance
      <4>2. balance'.drainpoint = balance.drainpoint /\ balance'.checkpoint = balance.checkpoint
        BY <1>0, <4>1, Zenon DEF Balances
      <4> QED  BY <1>3, <4>2 DEF Timeline
    <3> QED  BY <3>1, <3>2
  <2>3. Timeline' /\ OutdatedIffDrained'
    BY <2>1, <2>2 DEF Timeline, OutdatedIffDrained
  <2> QED  BY <1>5, <1>8, <2>3 DEF LedgerInv
<1>10. CASE issued # 0
  <2>1. balance' = [balance EXCEPT !.effective = left, !.issued = issued]
    BY <1>2, <1>10, Zenon DEF WithdrawBalance
  <2> HIDE DEF left, issued
  <2>2. balance'.drainpoint = balance.drainpoint /\ balance'.checkpoint = balance.checkpoint
    BY <1>0, <2>1, Zenon DEF Balances
  <2>3. Timeline'
    BY <1>3, <1>6, <1>7, <2>2 DEF Timeline
  <2>4. OutdatedIffDrained'
    BY <1>2, <1>3, <1>6, <1>7, <2>2 DEF OutdatedIffDrained, Outdated
  <2> QED  BY <1>5, <1>8, <2>3, <2>4 DEF LedgerInv
<1> QED  BY <1>9, <1>10

\* Every operation keeps the shares and the counters in step with the receipts.
LEMMA LedgerStep ==
    ASSUME IInv, LedgerInv, [Next]_vars
    PROVE  LedgerInv'
<1>1. ASSUME NEW i \in Ids, NEW a \in Amounts, Deposit(i, a) PROVE LedgerInv'
  BY <1>1, DepositLedger
<1>2. ASSUME NEW a \in Amounts, Mint(a) PROVE LedgerInv'
  BY <1>2, MintLedger, AmountsAssumption
<1>3. ASSUME NEW a \in Amounts, Reap(a) PROVE LedgerInv'
  BY <1>3, ReapLedger, AmountsAssumption
<1>4. CASE Drain
  <2>1. TotalValue(balance) \in Nat
    BY ShareBalanceAssumption DEF TotalValue, IInv, TypeOK, Balances
  <2> QED  BY <1>4, <2>1, ReapLedger DEF Drain
<1>5. ASSUME NEW i \in Ids, Withdraw(i) PROVE LedgerInv'
  BY <1>5, WithdrawLedger
<1>6. CASE UNCHANGED vars
  BY <1>6, SameLedger DEF vars
<1> QED  BY <1>1, <1>2, <1>3, <1>4, <1>5, <1>6 DEF Next

-----------------------------------------------------------------------------
(* Theorems about the receipts *)

\* The issued shares are the shares of the receipts, and the counters say of
\* every receipt whether its balance was drained since.
THEOREM LedgerInductive == Spec => []LedgerInv
<1>1. IInv /\ LedgerInv /\ [Next]_vars => LedgerInv'
  BY LedgerStep
<1> QED  BY InitLedger, Inductive, <1>1, PTL DEF Spec

\* ModelWithdraw prices a receipt at one exactly when the balance was drained
\* after its deposit, whatever deposits, mints and withdrawals came between.
THEOREM DrainsAreSeen == Spec => []OutdatedIffDrained
<1>1. LedgerInv => OutdatedIffDrained  BY DEF LedgerInv
<1> QED  BY LedgerInductive, <1>1, PTL

\* What an outstanding receipt is worth: at most its shares at the price of the
\* balance, and it has shares of a balance that was initialised.
LEMMA Redeemable ==
    ASSUME IInv, LedgerInv, NEW i \in Outstanding
    PROVE  /\ redeem_value(balance, receipts[i]) \in Nat
           /\ redeem_value(balance, receipts[i]) * DIV <= receipts[i].shares * balance.bias
           /\ balance.init /\ balance.issued # 0
<1>1. balance \in Balances /\ receipts[i] \in Receipts /\ i \in Ids /\ DIV # 0
  BY ShareBalanceAssumption DEF IInv, TypeOK, Outstanding
<1>2. price_at_deposit(balance, receipts[i]) # 0
  BY <1>1 DEF price_at_deposit, One, LedgerInv, BoughtAtAPrice
<1>3. balance.issued # 0
  BY HeldShares DEF LedgerInv
<1>4. balance.init
  BY <1>3 DEF IInv, FreshUntilDeposit, FreshBalance
<1> QED  BY <1>1, <1>2, <1>3, <1>4, RedeemBound

\* A deposit leaves the price, so the others' receipts are worth the same, or
\* more where the balance held too little.
LEMMA DepositUnaffected ==
    ASSUME IInv, LedgerInv, NEW j \in Ids, NEW a \in Amounts, Deposit(j, a), NEW i \in Outstanding
    PROVE  withdraw_value(balance', receipts[i]) >= withdraw_value(balance, receipts[i])
<1>1. balance \in Balances /\ a \in Nat /\ MaxAsset \in Nat
  BY ShareBalanceAssumption, AmountsAssumption DEF IInv, TypeOK
<1>2. balance.init /\ redeem_value(balance, receipts[i]) \in Nat
  BY Redeemable
<1> DEFINE s == deposit_shares(balance, a)
<1>3. balance' = [balance EXCEPT !.effective = @ + a, !.issued = @ + s]
  BY <1>2 DEF Deposit, DepositBalance, is_fresh_balance
<1> HIDE DEF s
<1>4. /\ balance'.effective = balance.effective + a
      /\ balance'.bias = balance.bias /\ balance'.drainpoint = balance.drainpoint
  BY <1>1, <1>3 DEF Balances
<1>5. redeem_value(balance', receipts[i]) = redeem_value(balance, receipts[i])
  BY <1>4 DEF redeem_value, value_at_deposit, price_ratio, price_at_deposit, Outdated
<1>6. balance.effective \in Nat
  BY <1>1 DEF Balances
<1> DEFINE v == redeem_value(balance, receipts[i])
<1>7. v \in Nat /\ withdraw_value(balance, receipts[i]) = Least(v, balance.effective)
      /\ withdraw_value(balance', receipts[i]) = Least(v, balance.effective + a)
  BY <1>2, <1>4, <1>5 DEF withdraw_value
<1> HIDE DEF v
<1> QED  BY <1>1, <1>6, <1>7 DEF Least

\* A withdrawal takes no more than its shares at the price, so the balance
\* still holds what the others' shares are worth.
LEMMA WithdrawUnaffected ==
    ASSUME IInv, LedgerInv, NEW j \in Ids, Withdraw(j), NEW i \in Outstanding, i # j
    PROVE  withdraw_value(balance', receipts[i]) >= withdraw_value(balance, receipts[i])
<1> DEFINE r == receipts[j]
           w == withdraw_value(balance, r)
           left == balance.effective - w
           issued == balance.issued - r.shares
           v == redeem_value(balance, receipts[i])
           u == redeem_value(balance, r)
<1>0. /\ balance \in Balances /\ receipts \in [Ids -> Receipts] /\ DIV \in Nat \ {0}
      /\ MaxAsset \in Nat /\ MaxInner \in Nat /\ i \in Ids
  BY ShareBalanceAssumption DEF IInv, TypeOK, Outstanding
<1>1. j \in Outstanding
  BY DEF Withdraw, WithdrawSucceeds, CanWithdraw, Outstanding
<1>2. /\ receipts[i].shares \in Nat /\ r.shares \in Nat /\ receipts[i].shares # 0
      /\ receipts[i].shares + r.shares <= balance.issued
  BY <1>0, HeldShares DEF LedgerInv, Outstanding
<1>3. /\ balance.effective \in Nat /\ balance.issued \in Nat /\ balance.bias \in Nat
      /\ balance.issued * balance.bias <= balance.effective * DIV
  BY <1>0 DEF Balances, IInv, Solvent
<1>4. /\ v \in Nat /\ v * DIV <= receipts[i].shares * balance.bias
      /\ u \in Nat /\ u * DIV <= r.shares * balance.bias
  BY <1>1, Redeemable
<1>5. w \in Nat /\ w <= u /\ w <= balance.effective
  BY <1>3, <1>4 DEF withdraw_value, Least
<1>6. issued # 0
  BY <1>2, <1>3
<1>7. balance' = [balance EXCEPT !.effective = left, !.issued = issued]
  <2>1. balance' = WithdrawBalance(balance, r)
    BY DEF Withdraw
  <2> QED  BY <1>6, <2>1, Zenon DEF WithdrawBalance
<1> HIDE DEF left, issued
<1>8. /\ balance'.effective = left
      /\ balance'.bias = balance.bias /\ balance'.drainpoint = balance.drainpoint
  BY <1>0, <1>7, Zenon DEF Balances
<1>9. redeem_value(balance', receipts[i]) = v
  BY <1>8 DEF redeem_value, value_at_deposit, price_ratio, price_at_deposit, Outdated
<1>10. /\ withdraw_value(balance, receipts[i]) = Least(v, balance.effective)
       /\ withdraw_value(balance', receipts[i]) = Least(v, left)
  BY <1>8, <1>9 DEF withdraw_value
<1> HIDE DEF v, w, u, r
<1>11. v + w <= balance.effective
  <2>1. (v + u) * DIV = v * DIV + u * DIV
    BY <1>0, <1>4, MulDistrib
  <2>2. (receipts[i].shares + r.shares) * balance.bias
          = receipts[i].shares * balance.bias + r.shares * balance.bias
    BY <1>2, <1>3, MulDistrib
  <2>3. (receipts[i].shares + r.shares) * balance.bias <= balance.issued * balance.bias
    <3>1. receipts[i].shares + r.shares \in Nat
      BY <1>2
    <3> QED  BY <1>2, <1>3, <3>1, MulMono
  <2>4. /\ v * DIV \in Nat /\ u * DIV \in Nat /\ balance.effective * DIV \in Nat
        /\ receipts[i].shares * balance.bias \in Nat /\ r.shares * balance.bias \in Nat
        /\ balance.issued * balance.bias \in Nat
    BY <1>0, <1>2, <1>3, <1>4, MulNat
  <2>5. (v + u) * DIV <= balance.effective * DIV
    BY <1>3, <1>4, <2>1, <2>2, <2>3, <2>4
  <2>6. v + u <= balance.effective
    <3>1. v + u \in Int
      BY <1>4
    <3> QED  BY <1>0, <1>3, <2>5, <3>1, MulCancel
  <2> QED  BY <1>3, <1>4, <1>5, <2>6
<1> QED  BY <1>3, <1>4, <1>5, <1>10, <1>11 DEF Least, left

\* No deposit and no withdrawal takes value from the receipts of others, with
\* every rounding of ModelDeposit and ModelWithdraw.
THEOREM NobodyDiluted == Spec => OthersUnaffected
<1> DEFINE Unaffected ==
      \A i \in Ids :
         (receipts' # receipts /\ i \in Outstanding /\ receipts'[i] = receipts[i])
            => withdraw_value(balance', receipts[i]) >= withdraw_value(balance, receipts[i])
<1>1. IInv /\ LedgerInv /\ [Next]_vars => Unaffected
  <2> SUFFICES ASSUME IInv, LedgerInv, [Next]_vars, NEW i \in Ids,
                      receipts' # receipts, i \in Outstanding, receipts'[i] = receipts[i]
               PROVE  withdraw_value(balance', receipts[i]) >= withdraw_value(balance, receipts[i])
    OBVIOUS
  <2>1. ASSUME NEW j \in Ids, NEW a \in Amounts, Deposit(j, a)
        PROVE  withdraw_value(balance', receipts[i]) >= withdraw_value(balance, receipts[i])
    BY <2>1, DepositUnaffected
  <2>2. ASSUME NEW j \in Ids, Withdraw(j)
        PROVE  withdraw_value(balance', receipts[i]) >= withdraw_value(balance, receipts[i])
    <3>1. receipts \in [Ids -> Receipts]
      BY DEF IInv, TypeOK
    <3>2. receipts'[j].shares = 0
      BY <2>2, <3>1 DEF Withdraw, NoReceipt
    <3>3. i # j
      BY <3>2 DEF Outstanding
    <3> QED  BY <2>2, <3>3, WithdrawUnaffected
  <2>3. ~ UNCHANGED vars /\ ~ Drain /\ \A a : ~ Mint(a) /\ ~ Reap(a)
    BY DEF vars, Drain, Mint, Reap
  <2> QED  BY <2>1, <2>2, <2>3 DEF Next
<1> QED  BY <1>1, Inductive, LedgerInductive, PTL DEF OthersUnaffected, Spec

=============================================================================
