------------------------ MODULE ShareBalanceTheorems ------------------------
(***************************************************************************)
(* What the operators of ShareBalance return, for every precision and      *)
(* every width: each rounding is at the expense of whoever deposits or     *)
(* withdraws, and every operation leaves a sound balance sound.            *)
(***************************************************************************)
EXTENDS DigestReceipts, SumTheorems, TLAPS

-----------------------------------------------------------------------------
(* Arithmetic *)

\* What integer division returns: the floor of the quotient.
LEMMA DivFloor ==
    ASSUME NEW n \in Nat, NEW d \in Nat \ {0}
    PROVE  /\ n \div d \in Nat
           /\ (n \div d) * d <= n
  BY SMT

\* Multiplication by a natural number keeps the order.
LEMMA MulMono ==
    ASSUME NEW x \in Nat, NEW y \in Nat, NEW k \in Nat, x <= y
    PROVE  x * k <= y * k
  BY SMT

\* A positive factor cancels from both sides of an inequality.
LEMMA MulCancel ==
    ASSUME NEW x \in Int, NEW y \in Int, NEW k \in Nat \ {0}, x * k <= y * k
    PROVE  x <= y
  BY SMT

\* Products may be regrouped.
LEMMA MulAssoc ==
    ASSUME NEW x \in Int, NEW y \in Int, NEW z \in Int
    PROVE  /\ (x * y) * z = x * (y * z)
           /\ (x * y) * z = (x * z) * y
           /\ (x * y) \in Int
  BY SMT

\* Products distribute over sums and differences.
LEMMA MulDistrib ==
    ASSUME NEW x \in Int, NEW y \in Int, NEW z \in Int
    PROVE  /\ (x + y) * z = x * z + y * z
           /\ (x - y) * z = x * z - y * z
  BY SMT

\* A product of natural numbers is one.
LEMMA MulNat ==
    ASSUME NEW x \in Nat, NEW y \in Nat
    PROVE  x * y \in Nat
  BY SMT

-----------------------------------------------------------------------------
(* The operators of ShareBalance *)

\* ModelDeposit issues shares worth, at the price of the balance, at most the
\* amount deposited (a first deposit finds the price at one).
LEMMA DepositSharesBound ==
    ASSUME NEW b \in Balances, NEW a \in Nat,
           b.bias # 0, b.issued = 0 => b.bias = One
    PROVE  /\ deposit_shares(b, a) \in Nat
           /\ deposit_shares(b, a) * b.bias <= a * DIV
<1> DEFINE x == saturating_from_integer(a)
           q == fixed_div(x, b.bias)
           s == q \div DIV
<1>0. b.bias \in Nat \ {0} /\ DIV \in Nat \ {0} /\ MaxInner \in Nat
  BY ShareBalanceAssumption DEF Balances
<1>1. CASE b.issued = 0
  BY <1>0, <1>1 DEF deposit_shares, One
<1>2. CASE b.issued # 0
  <2>1. x \in Nat /\ x <= a * DIV
    BY <1>0, MulNat DEF saturating_from_integer, Least
  <2>2. q \in Nat /\ q * b.bias <= x * DIV
    BY <1>0, <2>1, MulNat, DivFloor DEF fixed_div
  <2>3. s \in Nat /\ s * DIV <= q
    BY <1>0, <2>2, DivFloor
  <2> HIDE DEF x, q, s
  <2>4. (s * DIV) * b.bias <= x * DIV
    <3>1. s * DIV \in Nat /\ (s * DIV) * b.bias <= q * b.bias
      BY <1>0, <2>2, <2>3, MulMono, MulNat
    <3>2. (s * DIV) * b.bias \in Nat /\ q * b.bias \in Nat /\ x * DIV \in Nat
      BY <1>0, <2>1, <2>2, <3>1, MulNat
    <3> QED  BY <2>2, <3>1, <3>2
  <2>5. (s * b.bias) * DIV <= x * DIV
    BY <1>0, <2>3, <2>4, MulAssoc
  <2>6. s * b.bias <= x
    BY <1>0, <2>1, <2>3, <2>5, MulNat, MulCancel
  <2>7. s * b.bias <= a * DIV
    BY <1>0, <2>1, <2>3, <2>6, MulNat
  <2>8. deposit_shares(b, a) = s
    BY <1>2 DEF deposit_shares, s, q, x
  <2> QED  BY <2>3, <2>7, <2>8
<1> QED  BY <1>1, <1>2

\* ModelMint and ModelReap set a price at which all shares are worth at most
\* what the balance holds.
LEMMA PriceBound ==
    ASSUME NEW n \in Nat, NEW d \in Nat \ {0}
    PROVE  /\ from_rational(n, d) \in Nat
           /\ d * from_rational(n, d) <= n * DIV
<1>1. DIV \in Nat  BY ShareBalanceAssumption
<1>2. n * DIV \in Nat  BY <1>1, MulNat
<1>3. /\ (n * DIV) \div d \in Nat
      /\ ((n * DIV) \div d) * d <= n * DIV
  BY <1>2, DivFloor
<1> QED  BY <1>3 DEF from_rational

\* ModelWithdraw pays at most the receipt's shares at the current price: none
\* of the four roundings (value at deposit, price ratio, product, payout) is
\* in the holder's favour.
LEMMA RedeemBound ==
    ASSUME NEW b \in Balances, NEW r \in Receipts, price_at_deposit(b, r) # 0
    PROVE  /\ redeem_value(b, r) \in Nat
           /\ redeem_value(b, r) * DIV <= r.shares * b.bias
<1> DEFINE p == price_at_deposit(b, r)
           x == saturating_from_integer(r.shares)
           v == value_at_deposit(b, r)
           t == price_ratio(b, r)
           m == fixed_mul(v, t)
           w == redeem_value(b, r)
<1>0. /\ b.bias \in Nat /\ r.shares \in Nat /\ r.bias \in Nat
      /\ DIV \in Nat \ {0} /\ MaxInner \in Nat
  BY ShareBalanceAssumption DEF Balances, Receipts
<1>1. p \in Nat \ {0}
  BY <1>0 DEF price_at_deposit, One
<1>2. x \in Nat /\ x <= r.shares * DIV
  BY <1>0, MulNat DEF saturating_from_integer, Least
<1>3. v \in Nat /\ v * DIV <= x * p
  BY <1>0, <1>1, <1>2, MulNat, DivFloor DEF value_at_deposit, fixed_mul
<1>4. t \in Nat /\ t * p <= b.bias * DIV
  BY <1>0, <1>1, MulNat, DivFloor DEF price_ratio, fixed_div
<1>5. m \in Nat /\ m * DIV <= v * t
  BY <1>0, <1>3, <1>4, MulNat, DivFloor DEF fixed_mul
<1>6. w \in Nat /\ w * DIV <= m
  BY <1>0, <1>5, DivFloor DEF redeem_value
<1> HIDE DEF p, x, v, t, m, w
<1>7. v * t <= x * b.bias
  <2>1. (v * DIV) * t <= (x * p) * t
    BY <1>0, <1>1, <1>2, <1>3, <1>4, MulMono, MulNat
  <2>2. (t * p) * x <= (b.bias * DIV) * x
    BY <1>0, <1>1, <1>2, <1>4, MulMono, MulNat
  <2>3. (x * p) * t = (t * p) * x
    BY <1>1, <1>2, <1>4, SMT
  <2>4. (v * DIV) * t = (v * t) * DIV
    BY <1>0, <1>3, <1>4, MulAssoc
  <2>5. (b.bias * DIV) * x = (x * b.bias) * DIV
    BY <1>0, <1>2, SMT
  <2>6. /\ (v * t) * DIV \in Nat /\ (x * p) * t \in Nat
        /\ (x * b.bias) * DIV \in Nat
    BY <1>0, <1>1, <1>2, <1>3, <1>4, MulNat
  <2>7. (v * t) * DIV <= (x * b.bias) * DIV
    BY <2>1, <2>2, <2>3, <2>4, <2>5, <2>6
  <2> QED  BY <1>0, <1>2, <1>3, <1>4, <2>7, MulNat, MulCancel
<1>8. x * b.bias <= (r.shares * b.bias) * DIV
  <2>1. x * b.bias <= (r.shares * DIV) * b.bias
    BY <1>0, <1>2, MulMono, MulNat
  <2> QED  BY <1>0, <2>1, MulAssoc
<1>9. m <= r.shares * b.bias
  <2>1. m * DIV <= (r.shares * b.bias) * DIV
    BY <1>0, <1>2, <1>3, <1>4, <1>5, <1>7, <1>8, MulNat
  <2> QED  BY <1>0, <1>5, <2>1, MulNat, MulCancel
<1>10. w * DIV <= r.shares * b.bias
  BY <1>0, <1>5, <1>6, <1>9, MulNat
<1> QED  BY <1>6, <1>10 DEF w

\* Two fields of a balance may be written one after the other.
LEMMA SetTwoFields ==
    ASSUME NEW b \in Balances, NEW x \in 0 .. MaxAsset,
           NEW y \in 0 .. MaxAsset, NEW z \in 0 .. MaxInner
    PROVE  /\ [b EXCEPT !.effective = x, !.issued = y] \in Balances
           /\ [b EXCEPT !.effective = x, !.bias = z] \in Balances
<1> DEFINE c == [b EXCEPT !.effective = x]
<1>1. c \in Balances
  BY DEF Balances
<1> HIDE DEF c
<1>2. [c EXCEPT !.issued = y] \in Balances /\ [c EXCEPT !.bias = z] \in Balances
  BY <1>1 DEF Balances
<1> QED  BY <1>2, Zenon DEF c

-----------------------------------------------------------------------------
(* The operations on a sound balance *)

\* The balance a deposit works on: an uninitialised one is initialised first.
LEMMA FreshSound ==
    ASSUME NEW old \in Balances, SoundBalance(old)
    PROVE  LET b == is_fresh_balance(old) IN
           /\ b \in Balances
           /\ b.init
           /\ b.effective = old.effective
           /\ b.issued = old.issued
           /\ b.issued = 0 => b.effective = 0 /\ b.bias = One
           /\ b.issued * b.bias <= b.effective * DIV
<1>1. CASE old.init
  BY <1>1 DEF is_fresh_balance, SoundBalance
<1>2. CASE ~ old.init
  <2>1. old = FreshBalance
    BY <1>2 DEF SoundBalance
  <2>2. is_fresh_balance(old) = init_balance
    BY <1>2 DEF is_fresh_balance
  <2>3. init_balance \in Balances
    BY ShareBalanceAssumption DEF init_balance, Balances, One
  <2> QED
    BY <2>1, <2>2, <2>3, ShareBalanceAssumption DEF init_balance, FreshBalance, One
<1> QED  BY <1>1, <1>2

\* ModelDeposit: the value grows by the amount, the shares by those of the
\* receipt, and the receipt has some.
LEMMA DepositSound ==
    ASSUME NEW old \in Balances, SoundBalance(old), NEW a \in 0 .. MaxAsset,
           DepositSucceeds(old, a)
    PROVE  /\ DepositBalance(old, a) \in Balances
           /\ SoundBalance(DepositBalance(old, a))
           /\ DepositBalance(old, a).effective = old.effective + a
           /\ DepositBalance(old, a).issued = old.issued + DepositReceipt(old, a).shares
           /\ DepositReceipt(old, a) \in Receipts
           /\ DepositReceipt(old, a).principal = a
           /\ DepositReceipt(old, a).shares # 0
<1> DEFINE b == is_fresh_balance(old)
           s == deposit_shares(b, a)
           r == DepositReceipt(old, a)
           c == DepositBalance(old, a)
<1>0. /\ a \in Nat /\ a # 0 /\ DIV \in Nat \ {0}
      /\ MaxAsset \in Nat /\ MaxInner \in Nat /\ MaxTime \in Nat
  BY ShareBalanceAssumption DEF DepositSucceeds
<1>1. /\ b \in Balances /\ b.init /\ b.effective = old.effective /\ b.issued = old.issued
      /\ b.issued = 0 => b.bias = One
      /\ b.issued * b.bias <= b.effective * DIV
  BY FreshSound
<1>2. /\ b.bias # 0 /\ s # 0
      /\ b.effective + a <= MaxAsset /\ b.issued + s <= MaxAsset
  BY DEF DepositSucceeds
<1>3. s \in Nat /\ s * b.bias <= a * DIV
  BY <1>0, <1>1, <1>2, DepositSharesBound
<1>4. c = [b EXCEPT !.effective = @ + a, !.issued = @ + s]
  BY DEF DepositBalance
<1>5. r = [principal |-> a, shares |-> s, bias |-> b.bias, checkpoint |-> b.checkpoint]
  BY DEF DepositReceipt
<1> HIDE DEF b, s, r, c
<1>6. /\ b.effective \in Nat /\ b.issued \in Nat /\ b.bias \in 0 .. MaxInner
      /\ b.checkpoint \in 0 .. MaxTime
  BY <1>0, <1>1 DEF Balances
<1>7. c.init = b.init /\ c.effective = b.effective + a /\ c.issued = b.issued + s /\ c.bias = b.bias
  BY <1>1, <1>4 DEF Balances
<1>8. c \in Balances
  <2>1. b.effective + a \in 0 .. MaxAsset /\ b.issued + s \in 0 .. MaxAsset /\ 0 \in 0 .. MaxInner
    BY <1>0, <1>2, <1>3, <1>6
  <2> QED  BY <1>1, <1>4, <2>1, SetTwoFields
<1>9. r \in Receipts
  <2>1. s \in 0 .. MaxAsset
    BY <1>0, <1>2, <1>3, <1>6
  <2> QED  BY <1>5, <1>6, <2>1 DEF Receipts
<1>10. c.issued * c.bias <= c.effective * DIV
  <2>1. (b.issued + s) * b.bias = b.issued * b.bias + s * b.bias
    BY <1>3, <1>6, MulDistrib
  <2>2. (b.effective + a) * DIV = b.effective * DIV + a * DIV
    BY <1>0, <1>6, MulDistrib
  <2>3. b.issued * b.bias \in Nat /\ s * b.bias \in Nat /\ b.effective * DIV \in Nat /\ a * DIV \in Nat
    BY <1>0, <1>3, <1>6, MulNat
  <2> QED  BY <1>1, <1>3, <1>7, <2>1, <2>2, <2>3
<1>11. c.issued # 0
  BY <1>2, <1>3, <1>6, <1>7
<1>12. SoundBalance(c)
  BY <1>1, <1>7, <1>10, <1>11 DEF SoundBalance
<1>13. r.principal = a /\ r.shares = s
  BY <1>5
<1> QED  BY <1>1, <1>2, <1>7, <1>8, <1>9, <1>12, <1>13 DEF c, r

\* No deposit is taken at a price of zero.
LEMMA DepositPriced ==
    ASSUME NEW old, NEW a, DepositSucceeds(old, a)
    PROVE  DepositReceipt(old, a).bias # 0
  BY DEF DepositSucceeds, DepositReceipt

\* The balance after a mint or a reap that leaves the value n: the price is the
\* floor of n over the shares.
Adjusted(b, n) ==
    balance_checkpoint([b EXCEPT !.effective = n, !.bias = from_rational(n, b.issued)])

\* A mint and a reap leave a sound balance sound, with the shares it had.
LEMMA AdjustSound ==
    ASSUME NEW b \in Balances, SoundBalance(b), CanAdjust(b),
           NEW n \in 0 .. MaxAsset, Fits(from_rational(n, b.issued))
    PROVE  /\ Adjusted(b, n) \in Balances
           /\ SoundBalance(Adjusted(b, n))
           /\ Adjusted(b, n).effective = n
           /\ Adjusted(b, n).issued = b.issued
<1> DEFINE c == Adjusted(b, n)
           p == from_rational(n, b.issued)
           d == [b EXCEPT !.effective = n, !.bias = p]
           now == Least(d.checkpoint + 1, MaxTime)
           e == [d EXCEPT !.checkpoint = now]
           t == IF d.bias = 0 THEN now ELSE d.drainpoint
<1>0. /\ DIV \in Nat \ {0} /\ MaxAsset \in Nat /\ MaxInner \in Nat /\ MaxTime \in Nat
  BY ShareBalanceAssumption
<1>1. b.issued \in Nat \ {0} /\ b.init /\ n \in Nat
  BY <1>0 DEF Balances, CanAdjust
<1>2. p \in Nat /\ b.issued * p <= n * DIV
  BY <1>1, PriceBound
<1>3. p \in 0 .. MaxInner
  BY <1>0, <1>2 DEF Fits
<1>4. d \in Balances
  BY <1>0, <1>1, <1>3, SetTwoFields
<1>5. d.init = b.init /\ d.effective = n /\ d.issued = b.issued /\ d.bias = p
  BY <1>1, Zenon DEF Balances
<1>6. c = [e EXCEPT !.drainpoint = t]
  BY Zenon DEF balance_checkpoint, Adjusted
<1> HIDE DEF c, p, d
<1>7. now \in 0 .. MaxTime /\ t \in 0 .. MaxTime
  BY <1>0, <1>4 DEF Least, Balances
<1>8. /\ e \in Balances /\ e.init = d.init /\ e.effective = d.effective
      /\ e.issued = d.issued /\ e.bias = d.bias
  BY <1>4, <1>7 DEF Balances
<1> HIDE DEF now, e, t
<1>9. /\ c \in Balances /\ c.init = b.init /\ c.effective = n /\ c.issued = b.issued
      /\ c.bias = p
  BY <1>5, <1>6, <1>7, <1>8 DEF Balances
<1>10. SoundBalance(c)
  BY <1>1, <1>2, <1>9 DEF SoundBalance
<1> QED  BY <1>9, <1>10 DEF c

\* ModelMint: the value grows by the amount, the shares stay.
LEMMA MintSound ==
    ASSUME NEW b \in Balances, SoundBalance(b), NEW a \in Nat, a # 0, MintSucceeds(b, a)
    PROVE  /\ MintBalance(b, a) \in Balances
           /\ SoundBalance(MintBalance(b, a))
           /\ MintBalance(b, a).effective = b.effective + a
           /\ MintBalance(b, a).issued = b.issued
<1> DEFINE n == b.effective + a
<1>1. CanAdjust(b) /\ n <= MaxAsset /\ Fits(from_rational(n, b.issued))
  BY DEF MintSucceeds
<1>2. n \in 0 .. MaxAsset
  BY <1>1, ShareBalanceAssumption DEF Balances
<1>3. MintBalance(b, a) = Adjusted(b, n)
  BY DEF MintBalance, Adjusted
<1> HIDE DEF n
<1>4. /\ MintBalance(b, a) \in Balances /\ SoundBalance(MintBalance(b, a))
      /\ MintBalance(b, a).effective = n /\ MintBalance(b, a).issued = b.issued
  BY <1>1, <1>2, <1>3, AdjustSound
<1> QED  BY <1>4 DEF n

\* ModelReap: the value shrinks by the amount, the shares stay.
LEMMA ReapSound ==
    ASSUME NEW b \in Balances, SoundBalance(b), NEW a \in Nat, a # 0, ReapSucceeds(b, a)
    PROVE  /\ ReapBalance(b, a) \in Balances
           /\ SoundBalance(ReapBalance(b, a))
           /\ ReapBalance(b, a).effective = b.effective - a
           /\ ReapBalance(b, a).issued = b.issued
<1> DEFINE n == b.effective - a
<1>1. CanAdjust(b) /\ a <= b.effective /\ Fits(from_rational(n, b.issued))
  BY DEF ReapSucceeds
<1>2. n \in 0 .. MaxAsset
  BY <1>1, ShareBalanceAssumption DEF Balances
<1>3. ReapBalance(b, a) = Adjusted(b, n)
  BY DEF ReapBalance, Adjusted
<1> HIDE DEF n
<1>4. /\ ReapBalance(b, a) \in Balances /\ SoundBalance(ReapBalance(b, a))
      /\ ReapBalance(b, a).effective = n /\ ReapBalance(b, a).issued = b.issued
  BY <1>1, <1>2, <1>3, AdjustSound
<1> QED  BY <1>4 DEF n

\* ModelWithdraw: what is paid leaves the balance, the shares of the receipt
\* leave those issued, the holder gets all that the receipt redeems to, and as
\* long as shares are left the price stays.
LEMMA WithdrawSound ==
    ASSUME NEW b \in Balances, SoundBalance(b), NEW r \in Receipts, WithdrawSucceeds(b, r)
    PROVE  LET c == WithdrawBalance(b, r) IN
           /\ c \in Balances
           /\ SoundBalance(c)
           /\ WithdrawPaid(b, r) \in 0 .. b.effective
           /\ redeem_value(b, r) \in Nat
           /\ redeem_value(b, r) <= WithdrawPaid(b, r)
           /\ c.effective = b.effective - WithdrawPaid(b, r)
           /\ c.issued = b.issued - r.shares
           /\ c.init
           /\ c.issued # 0 => c.bias = b.bias /\ c.drainpoint = b.drainpoint
<1> DEFINE w == withdraw_value(b, r)
           v == redeem_value(b, r)
           left == b.effective - w
           issued == b.issued - r.shares
           c == WithdrawBalance(b, r)
<1>0. /\ DIV \in Nat \ {0} /\ MaxAsset \in Nat /\ MaxInner \in Nat /\ MaxTime \in Nat
      /\ DIV <= MaxInner
  BY ShareBalanceAssumption
<1>1. /\ b.effective \in 0 .. MaxAsset /\ b.issued \in 0 .. MaxAsset
      /\ b.bias \in 0 .. MaxInner /\ r.shares \in Nat
      /\ b.issued * b.bias <= b.effective * DIV
  BY DEF Balances, Receipts, SoundBalance
<1>2. /\ b.init /\ r.shares # 0 /\ r.shares <= b.issued
      /\ price_at_deposit(b, r) # 0
  BY DEF WithdrawSucceeds, CanWithdraw
<1>3. v \in Nat /\ v * DIV <= r.shares * b.bias
  BY <1>2, RedeemBound
<1> HIDE DEF v
<1>4. v <= b.effective
  <2>1. r.shares * b.bias <= b.issued * b.bias
    BY <1>0, <1>1, <1>2, MulMono
  <2>2. v * DIV \in Nat /\ r.shares * b.bias \in Nat /\ b.issued * b.bias \in Nat /\ b.effective * DIV \in Nat
    BY <1>0, <1>1, <1>3, MulNat
  <2>3. v * DIV <= b.effective * DIV
    BY <1>1, <1>3, <2>1, <2>2
  <2> QED  BY <1>0, <1>1, <1>3, <2>3, MulCancel
<1>5. w = v
  BY <1>1, <1>3, <1>4 DEF withdraw_value, Least, v
<1>6. left \in 0 .. MaxAsset /\ issued \in 0 .. MaxAsset
  BY <1>0, <1>1, <1>2, <1>3, <1>4, <1>5
<1>7. CASE issued = 0
  <2>1. WithdrawPaid(b, r) = b.effective
    BY <1>1, <1>7 DEF WithdrawPaid
  <2>2. c \in Balances /\ c.init /\ c.effective = 0 /\ c.issued = 0 /\ c.bias = One
    <3>1. CASE left # 0
      <4>1. c = init_balance
        BY <1>7, <3>1 DEF WithdrawBalance
      <4> QED  BY <1>0, <4>1 DEF init_balance, Balances, One
    <3>2. CASE left = 0
      <4> DEFINE d == [b EXCEPT !.effective = 0, !.issued = 0]
      <4>1. c = [d EXCEPT !.bias = One]
        BY <1>7, <3>2, Zenon DEF WithdrawBalance
      <4>2. 0 \in 0 .. MaxAsset /\ 0 \in 0 .. MaxInner /\ One \in 0 .. MaxInner
        BY <1>0 DEF One
      <4>3. d \in Balances
        BY <4>2, SetTwoFields
      <4>4. d.init = b.init /\ d.effective = 0 /\ d.issued = 0
        BY Zenon DEF Balances
      <4> HIDE DEF d, c
      <4> QED  BY <1>2, <4>1, <4>2, <4>3, <4>4 DEF Balances
    <3> QED  BY <3>1, <3>2
  <2>3. SoundBalance(c)
    BY <1>0, <2>2 DEF SoundBalance, One
  <2> HIDE DEF c
  <2> QED  BY <1>0, <1>1, <1>3, <1>4, <1>7, <2>1, <2>2, <2>3 DEF c, v
<1>8. CASE issued # 0
  <2>1. WithdrawPaid(b, r) = v
    BY <1>1, <1>5, <1>8 DEF WithdrawPaid
  <2>2. c = [b EXCEPT !.effective = left, !.issued = issued]
    BY <1>8 DEF WithdrawBalance
  <2> HIDE DEF c
  <2>3. /\ c.init = b.init /\ c.effective = left /\ c.issued = issued
        /\ c.bias = b.bias /\ c.drainpoint = b.drainpoint
    BY <2>2, Zenon DEF Balances
  <2>4. 0 \in 0 .. MaxInner
    BY <1>0
  <2>5. c \in Balances
    <3> HIDE DEF left, issued
    <3> QED  BY <1>6, <2>2, <2>4, SetTwoFields
  <2>6. issued * b.bias <= left * DIV
    <3>1. issued * b.bias = b.issued * b.bias - r.shares * b.bias
      BY <1>1, MulDistrib
    <3>2. left * DIV = b.effective * DIV - v * DIV
      BY <1>0, <1>1, <1>3, <1>5, MulDistrib
    <3>3. /\ v * DIV \in Nat /\ r.shares * b.bias \in Nat /\ b.issued * b.bias \in Nat
          /\ b.effective * DIV \in Nat
      BY <1>0, <1>1, <1>3, MulNat
    <3> QED  BY <1>1, <1>3, <3>1, <3>2, <3>3
  <2>7. SoundBalance(c)
    BY <1>2, <1>8, <2>3, <2>6 DEF SoundBalance
  <2>8. WithdrawPaid(b, r) \in 0 .. b.effective
    BY <1>1, <1>3, <1>4, <2>1
  <2> QED  BY <1>2, <1>3, <1>5, <2>1, <2>3, <2>5, <2>7, <2>8 DEF c, v
<1> QED  BY <1>7, <1>8

\* As long as shares are left, whether a receipt can be redeemed and to what
\* depends on the price and the drain point alone.
LEMMA SamePrice ==
    ASSUME NEW b, NEW c, c.bias = b.bias, c.drainpoint = b.drainpoint, NEW r
    PROVE  /\ redeem_value(c, r) = redeem_value(b, r)
           /\ WithdrawSucceeds(c, r) /\ CanWithdraw(b, r) => WithdrawSucceeds(b, r)
           /\ WithdrawSucceeds(b, r) /\ CanWithdraw(c, r) => WithdrawSucceeds(c, r)
<1>1. price_at_deposit(c, r) = price_at_deposit(b, r)
  BY DEF price_at_deposit, Outdated
<1>2. value_at_deposit(c, r) = value_at_deposit(b, r) /\ price_ratio(c, r) = price_ratio(b, r)
  BY <1>1 DEF value_at_deposit, price_ratio
<1> QED  BY <1>1, <1>2 DEF redeem_value, WithdrawSucceeds

-----------------------------------------------------------------------------
(* The receipts of a commitment, up to the n-th *)

PartSum(f, n) == SumFunctionOnSet(f, 1 .. n)

EachPrincipal(commits) == [i \in DOMAIN commits |-> commits[i].principal]

EachShares(commits) == [i \in DOMAIN commits |-> commits[i].shares]

\* What each receipt redeems to in b.
EachWorth(b, commits) == [i \in DOMAIN commits |-> redeem_value(b, commits[i])]

\* Part sums: of nothing, and of one more.
LEMMA PartSums ==
    ASSUME NEW f, NEW n \in Nat, \A i \in 1 .. (n + 1) : f[i] \in Int
    PROVE  /\ PartSum(f, 0) = 0
           /\ PartSum(f, n) \in Int
           /\ PartSum(f, n + 1) = PartSum(f, n) + f[n + 1]
<1>1. PartSum(f, 0) = 0
  <2>1. 1 .. 0 = {} /\ IsFiniteSet({})
    BY FS_EmptySet
  <2> QED  BY <2>1, SumFirst DEF PartSum
<1>2. IsFiniteSet(1 .. n) /\ IsFiniteSet(1 .. (n + 1))
  BY FS_Interval
<1>3. \A i \in 1 .. n : f[i] \in Int
  OBVIOUS
<1>4. PartSum(f, n) \in Int
  BY <1>2, <1>3, SumTyped DEF PartSum
<1>5. n + 1 \in 1 .. (n + 1) /\ (1 .. (n + 1)) \ {n + 1} = 1 .. n
  OBVIOUS
<1>6. PartSum(f, n + 1) = f[n + 1] + PartSum(f, n)
  BY <1>2, <1>5, SumRemove DEF PartSum
<1>7. f[n + 1] \in Int
  BY <1>5
<1> DEFINE a == f[n + 1]
           s == PartSum(f, n)
<1>8. a + s = s + a
  <2>1. a \in Int /\ s \in Int  BY <1>4, <1>7
  <2> HIDE DEF a, s
  <2> QED  BY <2>1
<1> QED  BY <1>1, <1>4, <1>6, <1>8

\* A part sum of natural numbers is one, and no greater than a longer one.
LEMMA PartSumsGrow ==
    ASSUME NEW f, NEW m \in Nat, NEW n \in Nat, m <= n, \A i \in 1 .. n : f[i] \in Nat
    PROVE  /\ PartSum(f, m) \in Nat /\ PartSum(f, n) \in Nat
           /\ PartSum(f, m) <= PartSum(f, n)
<1>1. IsFiniteSet(1 .. m) /\ IsFiniteSet(1 .. n) /\ 1 .. m \in SUBSET (1 .. n)
  BY FS_Interval
<1>2. \A i \in 1 .. m : f[i] \in Nat
  OBVIOUS
<1>3. PartSum(f, m) \in Nat /\ PartSum(f, n) \in Nat
  BY <1>1, <1>2, SumTyped DEF PartSum
<1>4. PartSum(f, m) <= PartSum(f, n)
  BY <1>1, SumSubset DEF PartSum
<1> QED  BY <1>3, <1>4

\* The receipts of a commitment and their totals.
LEMMA ReceiptSums ==
    ASSUME NEW commits \in Seq(Receipts)
    PROVE  /\ Len(commits) \in Nat /\ DOMAIN commits = 1 .. Len(commits)
           /\ \A i \in 1 .. Len(commits) :
                 /\ commits[i] \in Receipts
                 /\ EachPrincipal(commits)[i] = commits[i].principal
                 /\ EachShares(commits)[i] = commits[i].shares
                 /\ commits[i].principal \in Nat
                 /\ commits[i].shares \in Nat
           /\ Principals(commits) = PartSum(EachPrincipal(commits), Len(commits))
           /\ Shares(commits) = PartSum(EachShares(commits), Len(commits))
           /\ Principals(commits) \in Nat
           /\ Shares(commits) \in Nat
<1> DEFINE l == Len(commits)
<1>1. l \in Nat /\ DOMAIN commits = 1 .. l
  OBVIOUS
<1>2. \A i \in 1 .. l : commits[i] \in Receipts
  OBVIOUS
<1>3. \A i \in 1 .. l : commits[i].principal \in Nat /\ commits[i].shares \in Nat
  <2>1. \A c \in Receipts : c.principal \in 0 .. MaxAsset /\ c.shares \in 0 .. MaxAsset
    BY DEF Receipts
  <2>2. 0 .. MaxAsset \subseteq Nat
    OBVIOUS
  <2> QED  BY <1>2, <2>1, <2>2
<1>4. \A i \in 1 .. l : /\ EachPrincipal(commits)[i] = commits[i].principal
                        /\ EachShares(commits)[i] = commits[i].shares
  BY <1>1 DEF EachPrincipal, EachShares
<1>5. DOMAIN EachPrincipal(commits) = 1 .. l /\ DOMAIN EachShares(commits) = 1 .. l
  BY <1>1 DEF EachPrincipal, EachShares
<1>6. Principals(commits) = PartSum(EachPrincipal(commits), l)
  BY <1>5 DEF Principals, EachPrincipal, PartSum, SumFunction
<1>7. Shares(commits) = PartSum(EachShares(commits), l)
  BY <1>5 DEF Shares, EachShares, PartSum, SumFunction
<1> HIDE DEF l
<1>8. PartSum(EachPrincipal(commits), l) \in Nat /\ PartSum(EachShares(commits), l) \in Nat
  <2>1. \A i \in 1 .. l : EachPrincipal(commits)[i] \in Nat /\ EachShares(commits)[i] \in Nat
    BY <1>3, <1>4
  <2>2. l <= l
    BY <1>1
  <2> QED  BY <1>1, <2>1, <2>2, PartSumsGrow
<1> QED  BY <1>1, <1>2, <1>3, <1>4, <1>6, <1>7, <1>8 DEF l

\* One more receipt adds its principal and its shares.
LEMMA OneMore ==
    ASSUME NEW s \in Seq(Receipts), NEW c \in Receipts
    PROVE  /\ Append(s, c) \in Seq(Receipts)
           /\ Len(Append(s, c)) = Len(s) + 1
           /\ Principals(Append(s, c)) = Principals(s) + c.principal
           /\ Shares(Append(s, c)) = Shares(s) + c.shares
<1> DEFINE t == Append(s, c)
           n == Len(s)
           k == n + 1
<1>1. t \in Seq(Receipts) /\ Len(t) = k /\ n \in Nat /\ t[k] = c /\ \A i \in 1 .. n : t[i] = s[i]
  OBVIOUS
<1> HIDE DEF t
<1>2. /\ \A i \in 1 .. n : EachPrincipal(t)[i] = EachPrincipal(s)[i] /\ EachShares(t)[i] = EachShares(s)[i]
      /\ EachPrincipal(t)[k] = c.principal /\ EachShares(t)[k] = c.shares
  <2>1. DOMAIN t = 1 .. k /\ DOMAIN s = 1 .. n /\ k \in 1 .. k /\ \A i \in 1 .. n : i \in 1 .. k
    BY <1>1
  <2> HIDE DEF k, n
  <2> QED  BY <1>1, <2>1 DEF EachPrincipal, EachShares
<1>3. \A i \in 1 .. k : EachPrincipal(t)[i] \in Int /\ EachShares(t)[i] \in Int
  <2>1. \A i \in 1 .. Len(t) : EachPrincipal(t)[i] \in Nat /\ EachShares(t)[i] \in Nat
    <3>1. \A i \in 1 .. Len(t) :
             /\ EachPrincipal(t)[i] = t[i].principal /\ t[i].principal \in Nat
             /\ EachShares(t)[i] = t[i].shares /\ t[i].shares \in Nat
      BY <1>1, ReceiptSums
    <3> QED  BY <3>1
  <2>2. \A i \in 1 .. k : EachPrincipal(t)[i] \in Nat /\ EachShares(t)[i] \in Nat
    BY <1>1, <2>1
  <2> QED  BY <2>2
<1>4. /\ PartSum(EachPrincipal(t), n + 1) = PartSum(EachPrincipal(t), n) + EachPrincipal(t)[n + 1]
      /\ PartSum(EachShares(t), n + 1) = PartSum(EachShares(t), n) + EachShares(t)[n + 1]
  <2>1. n \in Nat
    BY <1>1
  <2> HIDE DEF n
  <2> QED  BY <1>3, <2>1, PartSums
<1>5. /\ PartSum(EachPrincipal(t), n) = PartSum(EachPrincipal(s), n)
      /\ PartSum(EachShares(t), n) = PartSum(EachShares(s), n)
  <2>1. IsFiniteSet(1 .. n)
    BY <1>1, FS_Interval
  <2> HIDE DEF n
  <2> QED  BY <1>2, <2>1, SumCongruent DEF PartSum
<1>6. /\ Principals(t) = PartSum(EachPrincipal(t), k) /\ Principals(s) = PartSum(EachPrincipal(s), n)
      /\ Shares(t) = PartSum(EachShares(t), k) /\ Shares(s) = PartSum(EachShares(s), n)
  <2>1. /\ Principals(t) = PartSum(EachPrincipal(t), Len(t))
        /\ Shares(t) = PartSum(EachShares(t), Len(t))
    BY <1>1, ReceiptSums
  <2> QED  BY <1>1, <2>1, ReceiptSums
<1>7. Principals(t) = Principals(s) + c.principal /\ Shares(t) = Shares(s) + c.shares
  BY <1>2, <1>4, <1>5, <1>6
<1> QED  BY <1>1, <1>7 DEF t

LEMMA OneReceipt ==
    ASSUME NEW c \in Receipts
    PROVE  /\ <<c>> \in Seq(Receipts) /\ Len(<<c>>) = 1
           /\ Principals(<<c>>) = c.principal /\ Shares(<<c>>) = c.shares
<1>1. <<>> \in Seq(Receipts) /\ Append(<<>>, c) = <<c>> /\ Len(<<>>) = 0
  OBVIOUS
<1>2. Principals(<<>>) = 0 /\ Shares(<<>>) = 0
  <2>1. DOMAIN <<>> = {}
    OBVIOUS
  <2> QED  BY <2>1, SumNothing DEF Principals, Shares
<1>3. c.principal \in Nat /\ c.shares \in Nat
  BY ShareBalanceAssumption DEF Receipts
<1>4. /\ Principals(<<c>>) = 0 + c.principal /\ Shares(<<c>>) = 0 + c.shares
      /\ <<c>> \in Seq(Receipts) /\ Len(<<c>>) = 1
  BY <1>1, <1>2, OneMore
<1> QED  BY <1>3, <1>4

\* No receipts have no principal and no shares.
LEMMA NoReceipts ==
    /\ <<>> \in Seq(Receipts)
    /\ Principals(<<>>) = 0 /\ Shares(<<>>) = 0
<1>1. <<>> \in Seq(Receipts) /\ DOMAIN <<>> = {}
  OBVIOUS
<1>2. /\ DOMAIN [i \in DOMAIN <<>> |-> <<>>[i].principal] = {}
      /\ DOMAIN [i \in DOMAIN <<>> |-> <<>>[i].shares] = {}
  BY <1>1
<1> QED  BY <1>1, <1>2, SumNothing DEF Principals, Shares

\* Commitments to indexes have no deposits and no shares of their own.
LEMMA NoPrincipals ==
    ASSUME NEW s \in Seq(Receipts), \A n \in DOMAIN s : s[n] = NoReceipt
    PROVE  Principals(s) = 0
<1> DEFINE f == [n \in DOMAIN s |-> s[n].principal]
<1>1. Principals(s) = SumFunction(f)
  BY DEF Principals
<1>2. DOMAIN f = 1 .. Len(s) /\ Len(s) \in Nat
  OBVIOUS
<1>3. \A n \in DOMAIN f : f[n] = 0
  BY DEF NoReceipt
<1> HIDE DEF f
<1>4. IsFiniteSet(DOMAIN f)
  BY <1>2, FS_Interval
<1> QED  BY <1>1, <1>3, <1>4, SumOfZeros

-----------------------------------------------------------------------------
(* withdraw_from_digest *)

\* What withdraw_from_digest starts with.
Start(b) == [ok |-> TRUE, balance |-> b, given |-> 0, taken |-> 0]

\* g[m] is what the first m receipts leave.
Chain(b, commits, n, g) ==
    g = [m \in 0 .. n |-> IF m = 0 THEN Start(b) ELSE withdraw_one(g[m - 1], commits[m])]

LEMMA WithdrawalChosen ==
    ASSUME NEW b, NEW commits
    PROVE  withdraw_from_digest(b, commits)
             = (CHOOSE g : Chain(b, commits, Len(commits), g))[Len(commits)]
  BY DEF withdraw_from_digest, Chain, Start

\* The recursion of withdraw_from_digest is well founded.
LEMMA ChainExists ==
    ASSUME NEW b, NEW commits, NEW n \in Nat
    PROVE  \E g : Chain(b, commits, n, g)
<1> DEFINE P == {k \in Nat : \E g : Chain(b, commits, k, g)}
<1>1. 0 \in P
  <2>1. Chain(b, commits, 0, [m \in 0 .. 0 |-> Start(b)])
    <3>1. \A m \in 0 .. 0 : m = 0
      OBVIOUS
    <3> QED  BY <3>1 DEF Chain
  <2> QED  BY <2>1
<1>2. ASSUME NEW k \in P  PROVE k + 1 \in P
  <2>1. PICK g : Chain(b, commits, k, g)
    OBVIOUS
  <2> DEFINE h == [m \in 0 .. (k + 1) |-> IF m = 0 THEN Start(b) ELSE withdraw_one(g[m - 1], commits[m])]
             j == [m \in 0 .. (k + 1) |-> IF m = 0 THEN Start(b) ELSE withdraw_one(h[m - 1], commits[m])]
  <2>2. ASSUME NEW m \in 0 .. k  PROVE g[m] = h[m]
    <3>1. g[m] = IF m = 0 THEN Start(b) ELSE withdraw_one(g[m - 1], commits[m])
      BY <2>1 DEF Chain
    <3>2. m \in 0 .. (k + 1)
      OBVIOUS
    <3> QED  BY <3>1, <3>2
  <2>3. ASSUME NEW m \in 0 .. (k + 1)  PROVE h[m] = j[m]
    <3>1. m # 0 => m - 1 \in 0 .. k
      OBVIOUS
    <3>2. m # 0 => g[m - 1] = h[m - 1]
      BY <2>2, <3>1
    <3>3. h[m] = IF m = 0 THEN Start(b) ELSE withdraw_one(g[m - 1], commits[m])
      OBVIOUS
    <3>4. j[m] = IF m = 0 THEN Start(b) ELSE withdraw_one(h[m - 1], commits[m])
      OBVIOUS
    <3> HIDE DEF h, j
    <3> QED  BY <3>2, <3>3, <3>4
  <2>4. h = [m \in 0 .. (k + 1) |-> h[m]] /\ j = [m \in 0 .. (k + 1) |-> j[m]]
    OBVIOUS
  <2>5. h = j
    <3> HIDE DEF h, j
    <3> QED  BY <2>3, <2>4
  <2>6. Chain(b, commits, k + 1, h)
    <3> HIDE DEF h
    <3> QED  BY <2>5 DEF Chain, j
  <2> HIDE DEF h
  <2> QED  BY <2>6
<1>3. P = Nat
  <2>1. P \in SUBSET Nat
    OBVIOUS
  <2> HIDE DEF P
  <2> QED  BY <1>1, <1>2, <2>1, NatInd
<1> QED  BY <1>3

\* The first and the next element of the chain.
LEMMA ChainStart ==
    ASSUME NEW b, NEW commits, NEW n \in Nat, NEW g, Chain(b, commits, n, g)
    PROVE  g[0] = Start(b)
  BY DEF Chain

LEMMA ChainNext ==
    ASSUME NEW b, NEW commits, NEW n \in Nat, NEW g, Chain(b, commits, n, g),
           NEW m \in Nat, m + 1 <= n
    PROVE  g[m + 1] = withdraw_one(g[m], commits[m + 1])
<1>1. m + 1 \in 0 .. n /\ m + 1 # 0 /\ (m + 1) - 1 = m
  OBVIOUS
<1>2. g[m + 1] = withdraw_one(g[(m + 1) - 1], commits[m + 1])
  BY <1>1 DEF Chain
<1> QED  BY <1>1, <1>2

\* One receipt: a withdrawal that has not failed withdrew it.
LEMMA OneWithdrawn ==
    ASSUME NEW a, "ok" \in DOMAIN a, NEW c
    PROVE  LET z == withdraw_one(a, c) IN
           /\ "ok" \in DOMAIN z
           /\ z.ok => /\ a.ok
                      /\ WithdrawSucceeds(a.balance, c)
                      /\ z.balance = WithdrawBalance(a.balance, c)
                      /\ z.given = a.given + c.principal
                      /\ z.taken = a.taken + WithdrawPaid(a.balance, c)
           /\ a.ok /\ WithdrawSucceeds(a.balance, c) => z.ok
<1>1. CASE a.ok /\ WithdrawSucceeds(a.balance, c)
  <2>1. withdraw_one(a, c) =
          [ok |-> TRUE, balance |-> WithdrawBalance(a.balance, c),
           given |-> a.given + c.principal, taken |-> a.taken + WithdrawPaid(a.balance, c)]
    BY <1>1 DEF withdraw_one
  <2> QED  BY <1>1, <2>1
<1>2. CASE ~ (a.ok /\ WithdrawSucceeds(a.balance, c))
  <2>1. withdraw_one(a, c) = [a EXCEPT !.ok = FALSE]
    BY <1>2 DEF withdraw_one
  <2>2. "ok" \in DOMAIN withdraw_one(a, c) /\ ~ withdraw_one(a, c).ok
    BY <2>1
  <2> QED  BY <1>2, <2>2
<1> QED  BY <1>1, <1>2

\* The elements of the chain say whether they failed.
LEMMA ChainRecords ==
    ASSUME NEW b, NEW commits, NEW n \in Nat, NEW g, Chain(b, commits, n, g)
    PROVE  \A m \in 0 .. n : "ok" \in DOMAIN g[m]
<1>0. \A m \in Nat : m + 1 <= n => g[m + 1] = withdraw_one(g[m], commits[m + 1])
  BY ChainNext
<1> DEFINE P == {m \in Nat : m <= n => "ok" \in DOMAIN g[m]}
<1>1. 0 \in P
  <2>1. "ok" \in DOMAIN g[0]
    <3>1. "ok" \in DOMAIN Start(b)
      BY DEF Start
    <3>2. g[0] = Start(b)
      BY ChainStart
    <3> QED  BY <3>1, <3>2
  <2> QED  BY <2>1
<1>2. ASSUME NEW m \in P  PROVE m + 1 \in P
  <2> SUFFICES ASSUME m + 1 <= n
               PROVE  "ok" \in DOMAIN g[m + 1]
    OBVIOUS
  <2>1. m \in Nat /\ m <= n
    OBVIOUS
  <2>2. g[m + 1] = withdraw_one(g[m], commits[m + 1])
    BY <1>0, <2>1
  <2>3. "ok" \in DOMAIN g[m]
    BY <2>1
  <2> QED  BY <2>2, <2>3, OneWithdrawn
<1>3. P = Nat
  <2>1. P \in SUBSET Nat
    OBVIOUS
  <2> HIDE DEF P
  <2> QED  BY <1>1, <1>2, <2>1, NatInd
<1> QED  BY <1>3

\* What the first m receipts took and left, when none of them failed: each was
\* backed by the balance there was before the first, and is paid at least what
\* it redeems to there.
Progress(b, commits, m, a) ==
    /\ a.balance \in Balances
    /\ SoundBalance(a.balance)
    /\ a.balance.init = b.init
    /\ a.given = PartSum(EachPrincipal(commits), m)
    /\ a.taken \in Nat
    /\ a.balance.effective = b.effective - a.taken
    /\ a.balance.issued = b.issued - PartSum(EachShares(commits), m)
    /\ (m = 0 \/ a.balance.issued # 0)
          => a.balance.bias = b.bias /\ a.balance.drainpoint = b.drainpoint
    /\ \A i \in 1 .. m : CanWithdraw(b, commits[i]) /\ EachWorth(b, commits)[i] \in Nat
    /\ PartSum(EachWorth(b, commits), m) <= a.taken

LEMMA ProgressStart ==
    ASSUME NEW b \in Balances, SoundBalance(b), NEW commits
    PROVE  Progress(b, commits, 0, Start(b))
<1>1. 1 .. 0 = {} /\ IsFiniteSet({})
  BY FS_EmptySet
<1>2. \A f : PartSum(f, 0) = 0
  BY <1>1, SumFirst DEF PartSum
<1>3. b.effective \in Nat /\ b.issued \in Nat
  BY ShareBalanceAssumption DEF Balances
<1>4. Start(b).balance = b /\ Start(b).given = 0 /\ Start(b).taken = 0
  BY DEF Start
<1> QED  BY <1>1, <1>2, <1>3, <1>4 DEF Progress

LEMMA ProgressNext ==
    ASSUME NEW b \in Balances, NEW commits \in Seq(Receipts),
           NEW m \in Nat, m + 1 <= Len(commits),
           NEW a, Progress(b, commits, m, a), WithdrawSucceeds(a.balance, commits[m + 1]),
           NEW z, z.balance = WithdrawBalance(a.balance, commits[m + 1]),
           z.given = a.given + commits[m + 1].principal,
           z.taken = a.taken + WithdrawPaid(a.balance, commits[m + 1])
    PROVE  Progress(b, commits, m + 1, z)
<1> DEFINE c == commits[m + 1]
           e == a.balance
           paid == WithdrawPaid(e, c)
           S(n) == PartSum(EachShares(commits), n)
           W == EachWorth(b, commits)
<1>1. m + 1 \in 1 .. Len(commits) /\ m + 1 \in DOMAIN commits /\ c \in Receipts
  BY ReceiptSums
<1>2. e \in Balances /\ SoundBalance(e) /\ e.init = b.init /\ a.taken \in Nat
  BY DEF Progress
<1>3. /\ z.balance \in Balances /\ SoundBalance(z.balance) /\ z.balance.init
      /\ paid \in 0 .. e.effective
      /\ redeem_value(e, c) \in Nat /\ redeem_value(e, c) <= paid
      /\ z.balance.effective = e.effective - paid
      /\ z.balance.issued = e.issued - c.shares
      /\ z.balance.issued # 0 => z.balance.bias = e.bias /\ z.balance.drainpoint = e.drainpoint
  BY <1>1, <1>2, WithdrawSound
<1>4. /\ e.effective = b.effective - a.taken /\ e.issued = b.issued - S(m)
      /\ a.given = PartSum(EachPrincipal(commits), m)
      /\ (m = 0 \/ e.issued # 0) => e.bias = b.bias /\ e.drainpoint = b.drainpoint
      /\ \A i \in 1 .. m : CanWithdraw(b, commits[i]) /\ W[i] \in Nat
      /\ PartSum(W, m) <= a.taken
  BY DEF Progress
<1>5. /\ e.effective \in Nat /\ e.issued \in Nat /\ b.effective \in Nat /\ b.issued \in Nat
      /\ c.shares \in Nat /\ c.principal \in Nat
  <2>1. c.shares \in Nat /\ c.principal \in Nat
    BY <1>1, ShareBalanceAssumption DEF Receipts
  <2> HIDE DEF e
  <2>2. e.effective \in Nat /\ e.issued \in Nat /\ b.effective \in Nat /\ b.issued \in Nat
    BY <1>2, ShareBalanceAssumption DEF Balances
  <2> QED  BY <2>1, <2>2
<1>6. e.init /\ c.shares # 0 /\ c.shares <= e.issued
  BY DEF WithdrawSucceeds, CanWithdraw
<1>7. /\ \A i \in 1 .. (m + 1) : EachShares(commits)[i] \in Int /\ EachPrincipal(commits)[i] \in Int
      /\ \A i \in 1 .. m : EachShares(commits)[i] \in Nat
      /\ EachShares(commits)[m + 1] = c.shares /\ EachPrincipal(commits)[m + 1] = c.principal
  <2>1. \A i \in 1 .. (m + 1) : i \in 1 .. Len(commits)
    BY <1>1
  <2>2. \A i \in 1 .. Len(commits) :
           /\ EachPrincipal(commits)[i] = commits[i].principal
           /\ EachShares(commits)[i] = commits[i].shares
           /\ commits[i].principal \in Nat
           /\ commits[i].shares \in Nat
    BY ReceiptSums
  <2>3. \A i \in 1 .. (m + 1) : EachShares(commits)[i] \in Int /\ EachPrincipal(commits)[i] \in Int
    <3> SUFFICES ASSUME NEW i \in 1 .. (m + 1)
                 PROVE  EachShares(commits)[i] \in Int /\ EachPrincipal(commits)[i] \in Int
      OBVIOUS
    <3>1. i \in 1 .. Len(commits)
      BY <2>1
    <3>2. commits[i].principal \in Int /\ commits[i].shares \in Int
      BY <2>2, <3>1
    <3> QED  BY <2>2, <3>1, <3>2
  <2>4. \A i \in 1 .. m : EachShares(commits)[i] \in Nat
    <3>1. \A i \in 1 .. m : i \in 1 .. (m + 1)
      OBVIOUS
    <3> QED  BY <2>1, <2>2, <3>1
  <2>5. EachShares(commits)[m + 1] = c.shares /\ EachPrincipal(commits)[m + 1] = c.principal
    <3> DEFINE k == m + 1
    <3>1. k \in 1 .. Len(commits)
      BY <1>1
    <3> HIDE DEF k
    <3>2. EachPrincipal(commits)[k] = commits[k].principal /\ EachShares(commits)[k] = commits[k].shares
      BY <2>2, <3>1
    <3> QED  BY <3>2 DEF k
  <2> QED  BY <2>3, <2>4, <2>5
<1>8. S(m) \in Nat /\ S(m + 1) = S(m) + c.shares
  <2>1. S(m + 1) = S(m) + c.shares
    BY <1>7, PartSums
  <2>2. m <= m
    OBVIOUS
  <2>3. S(m) \in Nat
    BY <1>7, <2>2, PartSumsGrow
  <2> QED  BY <2>1, <2>3
<1>9. /\ PartSum(EachPrincipal(commits), m + 1) = PartSum(EachPrincipal(commits), m) + c.principal
  BY <1>7, PartSums
<1>10. e.bias = b.bias /\ e.drainpoint = b.drainpoint
  BY <1>4, <1>5, <1>6
<1>11. CanWithdraw(b, c)
  <2>1. c.shares <= b.issued
    BY <1>4, <1>5, <1>6, <1>8
  <2> QED  BY <1>2, <1>6, <2>1 DEF CanWithdraw
<1>12. W[m + 1] = redeem_value(e, c)
  <2>1. W[m + 1] = redeem_value(b, c)
    BY <1>1 DEF EachWorth
  <2>2. redeem_value(e, c) = redeem_value(b, c)
    BY <1>10, SamePrice
  <2> QED  BY <2>1, <2>2
<1>13. \A i \in 1 .. (m + 1) : CanWithdraw(b, commits[i]) /\ W[i] \in Nat
  <2> SUFFICES ASSUME NEW i \in 1 .. (m + 1)
               PROVE  CanWithdraw(b, commits[i]) /\ W[i] \in Nat
    OBVIOUS
  <2>1. CASE i = m + 1
    BY <1>3, <1>11, <1>12, <2>1
  <2>2. CASE i # m + 1
    <3>1. i \in 1 .. m
      BY <2>2
    <3> QED  BY <1>4, <3>1
  <2> QED  BY <2>1, <2>2
<1> HIDE DEF e, c, paid, S, W
<1>14. PartSum(W, m + 1) <= a.taken + paid
  <2>1. PartSum(W, m + 1) = PartSum(W, m) + W[m + 1] /\ PartSum(W, m) \in Int
    <3>1. \A i \in 1 .. (m + 1) : W[i] \in Int
      BY <1>13
    <3> QED  BY <3>1, PartSums
  <2>2. redeem_value(e, c) \in Nat /\ redeem_value(e, c) <= paid /\ paid \in Nat /\ a.taken \in Nat
    BY <1>2, <1>3, <1>5
  <2>3. PartSum(W, m + 1) = PartSum(W, m) + redeem_value(e, c)
    BY <1>12, <2>1
  <2> QED  BY <1>4, <2>1, <2>2, <2>3
<1>15. z.taken = a.taken + paid /\ a.taken + paid \in Nat
  BY <1>2, <1>3, <1>5 DEF e, c, paid
<1>16. z.balance.effective = b.effective - (a.taken + paid)
  BY <1>2, <1>3, <1>4, <1>5
<1>17. z.balance.issued = b.issued - S(m + 1)
  BY <1>3, <1>4, <1>5, <1>8
<1>18. z.given = PartSum(EachPrincipal(commits), m + 1)
  BY <1>4, <1>9 DEF c
<1>19. z.balance.init = b.init
  BY <1>2, <1>3, <1>6 DEF Balances
<1>20. z.balance.issued # 0 => z.balance.bias = b.bias /\ z.balance.drainpoint = b.drainpoint
  BY <1>3, <1>10
<1>21. m + 1 # 0
  OBVIOUS
<1> QED
  BY <1>3, <1>13, <1>14, <1>15, <1>16, <1>17, <1>18, <1>19, <1>20, <1>21 DEF Progress, S, W

\* The chain, up to the first receipt that fails.
LEMMA ChainProgress ==
    ASSUME NEW b \in Balances, SoundBalance(b), NEW commits \in Seq(Receipts),
           NEW g, Chain(b, commits, Len(commits), g)
    PROVE  \A m \in 0 .. Len(commits) : g[m].ok => Progress(b, commits, m, g[m])
<1> DEFINE n == Len(commits)
           P == {m \in Nat : m <= n => (g[m].ok => Progress(b, commits, m, g[m]))}
<1>0. n \in Nat
  OBVIOUS
<1>1. 0 \in P
  <2>1. g[0] = Start(b)
    BY <1>0, ChainStart
  <2> QED  BY <2>1, ProgressStart
<1>2. ASSUME NEW m \in P  PROVE m + 1 \in P
  <2> SUFFICES ASSUME m + 1 <= n, g[m + 1].ok
               PROVE  Progress(b, commits, m + 1, g[m + 1])
    OBVIOUS
  <2>1. m \in Nat /\ m <= n
    BY <1>0
  <2>2. g[m + 1] = withdraw_one(g[m], commits[m + 1])
    BY <1>0, <2>1, ChainNext
  <2>3. "ok" \in DOMAIN g[m]
    <3>1. m \in 0 .. n
      BY <2>1
    <3> QED  BY <1>0, <3>1, ChainRecords
  <2>4. /\ g[m].ok /\ WithdrawSucceeds(g[m].balance, commits[m + 1])
        /\ g[m + 1].balance = WithdrawBalance(g[m].balance, commits[m + 1])
        /\ g[m + 1].given = g[m].given + commits[m + 1].principal
        /\ g[m + 1].taken = g[m].taken + WithdrawPaid(g[m].balance, commits[m + 1])
    <3> DEFINE c == commits[m + 1]
               z == g[m + 1]
    <3>1. z = withdraw_one(g[m], c) /\ z.ok
      BY <2>2
    <3> HIDE DEF c, z
    <3>2. /\ g[m].ok /\ WithdrawSucceeds(g[m].balance, c)
          /\ z.balance = WithdrawBalance(g[m].balance, c)
          /\ z.given = g[m].given + c.principal
          /\ z.taken = g[m].taken + WithdrawPaid(g[m].balance, c)
      BY <2>3, <3>1, OneWithdrawn
    <3> QED  BY <3>2 DEF c, z
  <2>5. Progress(b, commits, m, g[m])
    BY <2>1, <2>4
  <2> QED  BY <2>1, <2>4, <2>5, ProgressNext
<1>3. P = Nat
  <2>1. P \in SUBSET Nat
    OBVIOUS
  <2> HIDE DEF P
  <2> QED  BY <1>1, <1>2, <2>1, NatInd
<1> QED  BY <1>0, <1>3

\* A withdrawal that succeeds takes every receipt off the balance.
LEMMA Withdrawn ==
    ASSUME NEW b \in Balances, SoundBalance(b), NEW commits \in Seq(Receipts),
           withdraw_from_digest(b, commits).ok
    PROVE  Progress(b, commits, Len(commits), withdraw_from_digest(b, commits))
<1>1. Len(commits) \in Nat
  OBVIOUS
<1>2. PICK g : /\ Chain(b, commits, Len(commits), g)
               /\ withdraw_from_digest(b, commits) = g[Len(commits)]
  BY <1>1, ChainExists, WithdrawalChosen
<1>3. Len(commits) \in 0 .. Len(commits)
  BY <1>1
<1> QED  BY <1>2, <1>3, ChainProgress

\* Receipts that all pass alone, and that together have no more shares than were
\* issued, pass one after the other.
LEMMA PassTogether ==
    ASSUME NEW b \in Balances, SoundBalance(b), NEW commits \in Seq(Receipts),
           quoted(b, commits), Shares(commits) <= b.issued
    PROVE  withdraw_from_digest(b, commits).ok
<1> DEFINE n == Len(commits)
           S(m) == PartSum(EachShares(commits), m)
<1>1. n \in Nat
  OBVIOUS
<1>2. PICK g : /\ Chain(b, commits, n, g)
               /\ withdraw_from_digest(b, commits) = g[n]
  BY <1>1, ChainExists, WithdrawalChosen
<1>3. DOMAIN commits = 1 .. n /\ Shares(commits) = S(n)
  BY ReceiptSums
<1>4. \A i \in 1 .. n : /\ commits[i] \in Receipts
                       /\ EachShares(commits)[i] = commits[i].shares
                       /\ commits[i].shares \in Nat
  BY ReceiptSums
<1>5. b.issued \in Nat
  BY ShareBalanceAssumption DEF Balances
<1> DEFINE P == {m \in Nat : m <= n => g[m].ok}
<1>6. 0 \in P
  <2>1. g[0] = Start(b)
    BY <1>1, <1>2, ChainStart
  <2>2. g[0].ok
    BY <2>1 DEF Start
  <2> QED  BY <2>2
<1>7. ASSUME NEW m \in P  PROVE m + 1 \in P
  <2> SUFFICES ASSUME m + 1 <= n PROVE g[m + 1].ok
    OBVIOUS
  <2> DEFINE k == m + 1
             c == commits[k]
             a == g[m]
             e == a.balance
  <2>1. m \in Nat /\ m <= n /\ k \in 1 .. n /\ k \in Nat /\ k <= n /\ m \in 0 .. n
    BY <1>1
  <2>2. a.ok
    BY <2>1
  <2>3. g[k] = withdraw_one(a, c)
    BY <1>1, <1>2, <2>1, ChainNext
  <2>4. "ok" \in DOMAIN a
    BY <1>1, <1>2, <2>1, ChainRecords
  <2>5. Progress(b, commits, m, a)
    BY <1>2, <2>1, <2>2, ChainProgress
  <2>6. S(k) = S(m) + EachShares(commits)[k]
    <3>1. \A i \in 1 .. k : EachShares(commits)[i] \in Int
      BY <1>4, <2>1
    <3> QED  BY <2>1, <3>1, PartSums
  <2>7. S(m) \in Nat /\ S(k) \in Nat /\ S(k) <= S(n)
    <3>1. \A i \in 1 .. n : EachShares(commits)[i] \in Nat
      BY <1>4
    <3>2. \A i \in 1 .. m : EachShares(commits)[i] \in Nat
      BY <2>1, <3>1
    <3>3. m <= m
      BY <2>1
    <3>4. S(m) \in Nat
      BY <2>1, <3>2, <3>3, PartSumsGrow
    <3> QED  BY <1>1, <2>1, <3>1, <3>4, PartSumsGrow
  <2>8. /\ e \in Balances /\ e.init = b.init /\ e.issued = b.issued - S(m)
        /\ (m = 0 \/ e.issued # 0) => e.bias = b.bias /\ e.drainpoint = b.drainpoint
    BY <2>5 DEF Progress
  <2>9. c \in Receipts /\ EachShares(commits)[k] = c.shares /\ c.shares \in Nat
    BY <1>4, <2>1
  <2>10. WithdrawSucceeds(b, c)
    BY <1>3, <2>1 DEF quoted
  <2>11. CanWithdraw(b, c) /\ b.init /\ c.shares # 0
    BY <2>10 DEF WithdrawSucceeds, CanWithdraw
  <2> HIDE DEF c, a, e, k, S, P, n
  <2>12. S(n) <= b.issued
    BY <1>3
  <2>13. S(n) \in Int
    <3>1. Shares(commits) \in Nat
      BY ReceiptSums
    <3> QED  BY <1>3, <3>1
  <2>14. c.shares <= e.issued /\ e.issued # 0
    BY <1>5, <2>6, <2>7, <2>8, <2>9, <2>11, <2>12, <2>13
  <2>15. CanWithdraw(e, c)
    BY <2>8, <2>11, <2>14 DEF CanWithdraw
  <2>16. WithdrawSucceeds(e, c)
    BY <2>8, <2>10, <2>14, <2>15, SamePrice
  <2>17. g[k].ok
    BY <2>2, <2>3, <2>4, <2>16, OneWithdrawn DEF e
  <2> QED  BY <2>17 DEF k
<1>8. P = Nat
  <2>1. P \in SUBSET Nat
    OBVIOUS
  <2> HIDE DEF P
  <2> QED  BY <1>6, <1>7, <2>1, NatInd
<1>9. g[n].ok
  <2>1. n \in P /\ n <= n
    BY <1>1, <1>8
  <2> HIDE DEF n
  <2> QED  BY <2>1
<1> QED  BY <1>2, <1>9

\* What the receipts are quoted at before is no more than what they get.
LEMMA QuoteIsPaid ==
    ASSUME NEW b \in Balances, SoundBalance(b), NEW commits \in Seq(Receipts),
           withdraw_from_digest(b, commits).ok
    PROVE  quote(b, commits) <= withdraw_from_digest(b, commits).taken
<1> DEFINE n == Len(commits)
           out == withdraw_from_digest(b, commits)
           f == [i \in DOMAIN commits |-> ReceiptActiveValue(b, commits[i])]
           W == EachWorth(b, commits)
           H == EachShares(commits)
<1>1. n \in Nat /\ DOMAIN commits = 1 .. n
  BY ReceiptSums
<1>2. /\ out.balance \in Balances /\ out.taken \in Nat
      /\ out.balance.issued = b.issued - PartSum(H, n)
      /\ \A i \in 1 .. n : CanWithdraw(b, commits[i]) /\ W[i] \in Nat
      /\ PartSum(W, n) <= out.taken
  BY Withdrawn DEF Progress
<1>3. quote(b, commits) = PartSum(f, n)
  BY <1>1 DEF quote, PartSum, SumFunction
<1>4. \A i \in 1 .. n :
         /\ f[i] = WithdrawPaid(b, commits[i]) /\ W[i] = redeem_value(b, commits[i])
         /\ H[i] = commits[i].shares /\ commits[i].shares \in Nat /\ commits[i].shares # 0
  BY <1>1, <1>2, ReceiptSums DEF ReceiptActiveValue, EachWorth, CanWithdraw
<1>5. b.issued \in Nat /\ b.effective \in Nat /\ out.balance.issued \in Nat
  BY <1>2, ShareBalanceAssumption DEF Balances
<1> HIDE DEF n, out, f, W, H
<1>6. CASE n = 0
  <2>1. PartSum(f, 0) = 0 /\ PartSum(W, 0) = 0
    <3>1. 1 .. 0 = {} /\ IsFiniteSet({})
      BY FS_EmptySet
    <3> QED  BY <3>1, SumFirst DEF PartSum
  <2> QED  BY <1>2, <1>3, <1>6, <2>1 DEF out
<1>7. CASE n = 1
  <2>1. PICK g : Chain(b, commits, n, g) /\ out = g[n]
    BY <1>1, ChainExists, WithdrawalChosen DEF n, out
  <2> DEFINE c == commits[1]
             a == Start(b)
  <2>2. g[0] = a
    BY <1>1, <2>1, ChainStart
  <2>3. g[1] = withdraw_one(a, c)
    <3> DEFINE z == 0
    <3>1. z \in Nat /\ z + 1 <= n
      BY <1>7
    <3>2. z + 1 = 1 /\ z = 0
      OBVIOUS
    <3> HIDE DEF z
    <3>3. g[z + 1] = withdraw_one(g[z], commits[z + 1])
      BY <1>1, <2>1, <3>1, ChainNext
    <3> QED  BY <2>2, <3>2, <3>3
  <2>4. "ok" \in DOMAIN a /\ a.balance = b /\ a.taken = 0
    BY DEF Start
  <2>5. withdraw_one(a, c).ok
    BY <1>7, <2>1, <2>3 DEF out
  <2> HIDE DEF a, c
  <2>6. WithdrawSucceeds(b, c) /\ withdraw_one(a, c).taken = 0 + WithdrawPaid(b, c)
    BY <2>4, <2>5, OneWithdrawn
  <2>7. c \in Receipts /\ f[1] = WithdrawPaid(b, c)
    <3>1. 1 \in 1 .. n
      BY <1>7
    <3> QED  BY <1>4, <3>1, ReceiptSums DEF c, n
  <2>8. WithdrawPaid(b, c) \in Nat
    BY <1>5, <2>6, <2>7, WithdrawSound
  <2>9. PartSum(f, 1) = f[1]
    <3>1. 0 \in Nat /\ 0 + 1 = 1 /\ \A i \in 1 .. (0 + 1) : i = 1
      OBVIOUS
    <3>2. \A i \in 1 .. (0 + 1) : f[i] \in Int
      BY <2>7, <2>8, <3>1
    <3>3. PartSum(f, 0) = 0 /\ PartSum(f, 0 + 1) = PartSum(f, 0) + f[0 + 1]
      BY <3>1, <3>2, PartSums
    <3> QED  BY <2>7, <2>8, <3>1, <3>3
  <2>10. out.taken = WithdrawPaid(b, c)
    BY <1>7, <2>1, <2>3, <2>6, <2>8
  <2> QED  BY <1>2, <1>3, <1>7, <2>7, <2>9, <2>10 DEF out
<1>8. CASE n > 1
  <2>1. IsFiniteSet(1 .. n)
    BY <1>1, FS_Interval
  <2>2. \A i, j \in 1 .. n : i # j => H[i] + H[j] <= PartSum(H, n)
    <3>1. \A i \in 1 .. n : H[i] \in Nat
      BY <1>4
    <3> QED  BY <2>1, <3>1, SumBounds DEF PartSum
  <2>3. PartSum(H, n) <= b.issued /\ PartSum(H, n) \in Nat
    <3>1. PartSum(H, n) \in Nat
      <4>1. Shares(commits) \in Nat /\ Shares(commits) = PartSum(H, n)
        BY ReceiptSums DEF H, n
      <4> QED  BY <4>1
    <3> QED  BY <1>2, <1>5, <3>1
  <2>4. ASSUME NEW i \in 1 .. n
        PROVE  f[i] \in Int /\ W[i] \in Int /\ f[i] <= W[i]
    <3>1. PICK j \in 1 .. n : j # i
      <4>1. 1 \in 1 .. n /\ 2 \in 1 .. n
        BY <1>1, <1>8
      <4> QED  BY <4>1
    <3>2. H[i] + H[j] <= b.issued /\ H[i] \in Nat /\ H[j] \in Nat /\ H[j] # 0
      BY <1>4, <1>5, <2>2, <2>3, <3>1
    <3>3. commits[i].shares # b.issued
      BY <1>4, <1>5, <3>2
    <3>4. f[i] = Least(W[i], b.effective)
      BY <1>4, <3>3 DEF WithdrawPaid, withdraw_value
    <3> QED  BY <1>2, <1>5, <3>4 DEF Least
  <2>5. PartSum(f, n) <= PartSum(W, n)
    BY <2>1, <2>4, SumCompare DEF PartSum
  <2>6. PartSum(f, n) \in Int /\ PartSum(W, n) \in Int
    BY <2>1, <2>4, SumTyped DEF PartSum
  <2> QED  BY <1>2, <1>3, <2>5, <2>6 DEF out
<1> QED  BY <1>1, <1>6, <1>7, <1>8

\* Receipts that are withdrawn one after the other would each be withdrawn alone.
LEMMA WithdrawnQuoted ==
    ASSUME NEW b \in Balances, SoundBalance(b), NEW commits \in Seq(Receipts),
           withdraw_from_digest(b, commits).ok
    PROVE  quoted(b, commits)
<1> DEFINE n == Len(commits)
<1>1. n \in Nat /\ DOMAIN commits = 1 .. n
  BY ReceiptSums
<1>2. PICK g : Chain(b, commits, n, g) /\ withdraw_from_digest(b, commits) = g[n]
  BY <1>1, ChainExists, WithdrawalChosen
<1>3. \A m \in 0 .. n : "ok" \in DOMAIN g[m]
  BY <1>1, <1>2, ChainRecords
<1>4. \A m \in Nat : m + 1 <= n => g[m + 1] = withdraw_one(g[m], commits[m + 1])
  BY <1>1, <1>2, ChainNext
<1>5. \A m \in 0 .. n : g[m].ok => Progress(b, commits, m, g[m])
  BY <1>2, ChainProgress
<1> HIDE DEF n
<1>6. ASSUME NEW m \in Nat, m + 1 <= n, g[m + 1].ok
      PROVE  g[m].ok /\ WithdrawSucceeds(g[m].balance, commits[m + 1])
  <2>1. m \in 0 .. n
    BY <1>1, <1>6
  <2>2. "ok" \in DOMAIN g[m]
    BY <1>3, <2>1
  <2>3. g[m + 1] = withdraw_one(g[m], commits[m + 1])
    BY <1>4, <1>6
  <2> QED  BY <1>6, <2>2, <2>3, OneWithdrawn
<1> DEFINE P == {k \in Nat : k <= n => g[n - k].ok}
<1>7. P = Nat
  <2>1. 0 \in P
    <3>1. n - 0 = n
      BY <1>1
    <3> QED  BY <1>2, <3>1
  <2>2. ASSUME NEW k \in P  PROVE k + 1 \in P
    <3> SUFFICES ASSUME k + 1 <= n  PROVE g[n - (k + 1)].ok
      OBVIOUS
    <3> DEFINE m == n - (k + 1)
    <3>1. m \in Nat /\ m + 1 = n - k /\ m + 1 <= n
      BY <1>1
    <3>2. g[m + 1].ok
      <4>1. k \in Nat /\ k <= n
        BY <1>1
      <4> QED  BY <3>1, <4>1
    <3> HIDE DEF m
    <3>3. g[m].ok
      BY <1>6, <3>1, <3>2
    <3> QED  BY <3>3 DEF m
  <2>3. P \in SUBSET Nat
    OBVIOUS
  <2> HIDE DEF P
  <2> QED  BY <2>1, <2>2, <2>3, NatInd
<1>8. \A m \in 0 .. n : g[m].ok
  <2> SUFFICES ASSUME NEW m \in 0 .. n  PROVE g[m].ok
    OBVIOUS
  <2>1. n - m \in Nat /\ n - m <= n /\ n - (n - m) = m
    BY <1>1
  <2>2. n - m \in P
    BY <1>7, <2>1
  <2> QED  BY <2>1, <2>2
<1> SUFFICES ASSUME NEW i \in 1 .. n  PROVE WithdrawSucceeds(b, commits[i])
  BY <1>1 DEF quoted
<1> DEFINE m == i - 1
           c == commits[i]
           e == g[m].balance
<1>9. m \in Nat /\ m + 1 = i /\ m + 1 <= n /\ m \in 0 .. n /\ i \in 0 .. n
  BY <1>1
<1>10. WithdrawSucceeds(e, c)
  <2>1. g[m + 1].ok
    BY <1>8, <1>9
  <2> QED  BY <1>6, <1>9, <2>1
<1>11. Progress(b, commits, m, g[m])
  BY <1>5, <1>8, <1>9
<1>12. CanWithdraw(b, c)
  <2>1. Progress(b, commits, i, g[i])
    BY <1>5, <1>8, <1>9
  <2>2. i \in 1 .. i
    OBVIOUS
  <2> QED  BY <2>1, <2>2 DEF Progress
<1>13. c \in Receipts
  BY ReceiptSums DEF n
<1>14. e.bias = b.bias /\ e.drainpoint = b.drainpoint
  <2>1. e.issued \in Nat /\ c.shares \in Nat
    <3>1. e \in Balances
      BY <1>11 DEF Progress
    <3> HIDE DEF e, c, m
    <3> QED  BY <1>13, <3>1, ShareBalanceAssumption DEF Balances, Receipts
  <2>2. c.shares # 0 /\ c.shares <= e.issued
    BY <1>10 DEF WithdrawSucceeds, CanWithdraw
  <2>3. e.issued # 0
    BY <2>1, <2>2
  <2> QED  BY <1>11, <2>3 DEF Progress
<1> HIDE DEF c, e, m
<1>15. WithdrawSucceeds(b, c)
  BY <1>10, <1>12, <1>14, SamePrice
<1> QED  BY <1>15 DEF c

-----------------------------------------------------------------------------
(* What many receipts redeem to together *)

\* A receipt is valued at no more than the part of the balance its shares are.
LEMMA ReceiptBound ==
    ASSUME NEW b \in Balances, SoundBalance(b), NEW c \in Receipts, WithdrawSucceeds(b, c)
    PROVE  /\ WithdrawPaid(b, c) \in Nat
           /\ WithdrawPaid(b, c) * b.issued <= c.shares * b.effective
<1> DEFINE v == redeem_value(b, c)
           paid == WithdrawPaid(b, c)
<1>1. /\ b.effective \in Nat /\ b.issued \in Nat /\ b.bias \in Nat /\ c.shares \in Nat
      /\ DIV \in Nat \ {0}
  BY ShareBalanceAssumption DEF Balances, Receipts
<1>2. v \in Nat /\ v * DIV <= c.shares * b.bias
  BY RedeemBound DEF WithdrawSucceeds
<1>3. b.issued * b.bias <= b.effective * DIV
  BY DEF SoundBalance
<1>4. CASE c.shares = b.issued
  <2>1. paid = b.effective
    BY <1>4 DEF WithdrawPaid
  <2> HIDE DEF paid
  <2>2. paid * b.issued <= b.issued * b.effective
    BY <1>1, <2>1, SMT
  <2> QED  BY <1>1, <1>4, <2>1, <2>2 DEF paid
<1>5. CASE c.shares # b.issued
  <2>1. paid \in Nat /\ paid <= v
    BY <1>1, <1>2, <1>5 DEF WithdrawPaid, withdraw_value, Least
  <2> DEFINE s == c.shares
             n == b.issued
             e == b.effective
             p == b.bias
  <2>2. s \in Nat /\ n \in Nat /\ e \in Nat /\ p \in Nat /\ v * DIV <= s * p /\ n * p <= e * DIV
    BY <1>1, <1>2, <1>3
  <2> HIDE DEF s, n, e, p, v, paid
  <2>3. (v * DIV) * n <= (s * p) * n
    BY <1>1, <1>2, <2>2, MulMono, MulNat
  <2>4. (n * p) * s <= (e * DIV) * s
    BY <1>1, <2>2, MulMono, MulNat
  <2>5. (s * p) * n = (n * p) * s /\ (e * DIV) * s = (s * e) * DIV /\ (v * DIV) * n = (v * n) * DIV
    BY <1>1, <1>2, <2>2, SMT
  <2>6. (v * n) * DIV <= (s * e) * DIV
    <3>1. (v * n) * DIV \in Nat /\ (s * e) * DIV \in Nat /\ (s * p) * n \in Nat
      BY <1>1, <1>2, <2>2, MulNat
    <3> QED  BY <2>3, <2>4, <2>5, <3>1
  <2>7. v * n <= s * e
    BY <1>1, <1>2, <2>2, <2>6, MulNat, MulCancel
  <2>8. paid * n <= v * n
    BY <1>2, <2>1, <2>2, MulMono
  <2>9. paid * n \in Nat /\ v * n \in Nat /\ s * e \in Nat
    BY <1>2, <2>1, <2>2, MulNat
  <2>10. paid * n <= s * e
    BY <2>7, <2>8, <2>9
  <2> QED  BY <2>1, <2>10 DEF s, n, e, paid
<1> QED  BY <1>4, <1>5

\* Values that are each at most the part of a balance that some shares are.
Backs(q, s, K, b) ==
    /\ IsFiniteSet(K)
    /\ \A k \in K : /\ q[k] \in Nat /\ s[k] \in Nat
                    /\ q[k] * b.issued <= s[k] * b.effective
                    /\ b.issued = 0 => q[k] = 0

\* So is their sum.
LEMMA BackedSum ==
    ASSUME NEW b, b.issued \in Nat, b.effective \in Nat, NEW q, NEW s, NEW K, Backs(q, s, K, b)
    PROVE  /\ SumFunctionOnSet(q, K) \in Nat /\ SumFunctionOnSet(s, K) \in Nat
           /\ SumFunctionOnSet(q, K) * b.issued <= SumFunctionOnSet(s, K) * b.effective
           /\ b.issued = 0 => SumFunctionOnSet(q, K) = 0
<1> DEFINE n == b.issued
           e == b.effective
           zero == [k \in K |-> 0]
<1>1. /\ IsFiniteSet(K) /\ n \in Nat /\ e \in Nat
      /\ \A k \in K : q[k] \in Nat /\ s[k] \in Nat /\ q[k] * n <= s[k] * e /\ (n = 0 => q[k] = 0)
  BY DEF Backs
<1>2. SumFunctionOnSet(q, K) \in Nat /\ SumFunctionOnSet(s, K) \in Nat
  BY <1>1, SumTyped
<1>3. \A k \in K : zero[k] = 0
  OBVIOUS
<1> HIDE DEF n, e, zero
<1>4. n * SumFunctionOnSet(q, K) + 0 * SumFunctionOnSet(zero, K)
        <= e * SumFunctionOnSet(s, K) + 0 * SumFunctionOnSet(zero, K)
  <2>1. \A k \in K : /\ q[k] \in Int /\ zero[k] \in Int /\ s[k] \in Int
                     /\ n * q[k] + 0 * zero[k] <= e * s[k] + 0 * zero[k]
    <3> SUFFICES ASSUME NEW k \in K
                 PROVE  /\ q[k] \in Int /\ zero[k] \in Int /\ s[k] \in Int
                        /\ n * q[k] + 0 * zero[k] <= e * s[k] + 0 * zero[k]
      OBVIOUS
    <3>1. PICK x \in Nat, y \in Nat : x = q[k] /\ y = s[k]
      BY <1>1
    <3>2. x * n <= y * e
      BY <1>1, <3>1
    <3>3. n * x + 0 * 0 <= e * y + 0 * 0
      BY <1>1, <3>2, SMT
    <3> QED  BY <1>3, <3>1, <3>3
  <2>2. 0 \in Int /\ n \in Int /\ e \in Int
    BY <1>1
  <2> QED  BY <1>1, <2>1, <2>2, SumLinearCompare
<1>5. SumFunctionOnSet(q, K) * n <= SumFunctionOnSet(s, K) * e
  <2>1. SumFunctionOnSet(zero, K) \in Int
    BY <1>1, <1>3, SumTyped
  <2> DEFINE x == SumFunctionOnSet(q, K)
             y == SumFunctionOnSet(s, K)
             z == SumFunctionOnSet(zero, K)
  <2>2. x \in Nat /\ y \in Nat /\ z \in Int /\ n * x + 0 * z <= e * y + 0 * z
    BY <1>2, <1>4, <2>1
  <2> HIDE DEF x, y, z
  <2>3. 0 * z = 0
    BY <2>2
  <2>4. n * x <= e * y
    BY <1>1, <2>2, <2>3, MulNat
  <2>5. x * n <= y * e
    BY <1>1, <2>2, <2>4, SMT
  <2> QED  BY <2>5 DEF x, y
<1>6. n = 0 => SumFunctionOnSet(q, K) = 0
  <2> SUFFICES ASSUME n = 0  PROVE SumFunctionOnSet(q, K) = 0
    OBVIOUS
  <2> DEFINE f == [k \in K |-> q[k]]
  <2>1. DOMAIN f = K /\ \A k \in K : f[k] = 0 /\ f[k] = q[k]
    BY <1>1
  <2> HIDE DEF f
  <2>2. SumFunction(f) = 0
    BY <1>1, <2>1, SumOfZeros
  <2>3. SumFunctionOnSet(f, K) = SumFunctionOnSet(q, K)
    BY <1>1, <2>1, SumCongruent
  <2> QED  BY <2>1, <2>2, <2>3 DEF SumFunction
<1> QED  BY <1>2, <1>5, <1>6 DEF n, e

\* What receipts are quoted at is at most the part of the balance their shares are.
LEMMA QuoteBound ==
    ASSUME NEW b \in Balances, SoundBalance(b), NEW commits \in Seq(Receipts), quoted(b, commits)
    PROVE  /\ quote(b, commits) \in Nat
           /\ quote(b, commits) * b.issued <= Shares(commits) * b.effective
           /\ b.issued = 0 => quote(b, commits) = 0
<1> DEFINE K == DOMAIN commits
           q == [n \in K |-> ReceiptActiveValue(b, commits[n])]
           s == [n \in K |-> commits[n].shares]
<1>1. K = 1 .. Len(commits) /\ Len(commits) \in Nat
  BY ReceiptSums
<1>2. IsFiniteSet(K)
  BY <1>1, FS_Interval
<1>3. b.issued \in Nat /\ b.effective \in Nat
  BY ShareBalanceAssumption DEF Balances
<1>4. ASSUME NEW n \in K
      PROVE  /\ q[n] \in Nat /\ s[n] \in Nat
             /\ q[n] * b.issued <= s[n] * b.effective
             /\ b.issued = 0 => q[n] = 0
  <2> DEFINE c == commits[n]
  <2>1. c \in Receipts /\ c.shares \in Nat
    <3>1. c \in Receipts
      BY <1>1, ReceiptSums
    <3> HIDE DEF c
    <3> QED  BY <3>1, ShareBalanceAssumption DEF Receipts
  <2>2. WithdrawSucceeds(b, c)
    BY DEF quoted
  <2>3. q[n] = WithdrawPaid(b, c) /\ s[n] = c.shares
    BY DEF ReceiptActiveValue
  <2> HIDE DEF c, q, s
  <2>4. c.shares # 0 /\ c.shares <= b.issued
    BY <2>2 DEF WithdrawSucceeds, CanWithdraw
  <2>5. b.issued # 0
    BY <1>3, <2>1, <2>4
  <2>6. WithdrawPaid(b, c) \in Nat /\ WithdrawPaid(b, c) * b.issued <= c.shares * b.effective
    BY <2>1, <2>2, ReceiptBound
  <2> QED  BY <2>1, <2>3, <2>5, <2>6
<1>5. quote(b, commits) = SumFunctionOnSet(q, K) /\ Shares(commits) = SumFunctionOnSet(s, K)
  BY DEF quote, Shares, SumFunction
<1> HIDE DEF K, q, s
<1>6. Backs(q, s, K, b)
  BY <1>2, <1>4 DEF Backs
<1> QED  BY <1>3, <1>5, <1>6, BackedSum

\* The values and shares of some receipts of a balance.
Covered(worth, held, b) ==
    /\ worth \in Nat /\ held \in Nat
    /\ worth * b.issued <= held * b.effective
    /\ b.issued = 0 => worth = 0

\* Those who cover all the shares of a balance are worth no more than it.
LEMMA CoverAll ==
    ASSUME NEW b \in Balances, NEW x, NEW y, NEW s, NEW t, Covered(x, s, b), Covered(y, t, b),
           b.issued = s + t
    PROVE  x \in Nat /\ y \in Nat /\ b.effective \in Nat /\ x + y <= b.effective
<1> DEFINE n == b.issued
           e == b.effective
<1>1. n \in Nat /\ e \in Nat
  BY ShareBalanceAssumption DEF Balances
<1>2. /\ x \in Nat /\ y \in Nat /\ s \in Nat /\ t \in Nat /\ n = s + t
      /\ x * n <= s * e /\ y * n <= t * e
      /\ n = 0 => x = 0 /\ y = 0
  BY DEF Covered
<1> HIDE DEF n, e
<1>3. CASE n = 0
  <2>1. x = 0 /\ y = 0
    BY <1>2, <1>3
  <2> QED  BY <1>1, <2>1 DEF e
<1>4. CASE n # 0
  <2>1. x * n \in Nat /\ y * n \in Nat /\ s * e \in Nat /\ t * e \in Nat /\ n * e \in Nat
    BY <1>1, <1>2, MulNat
  <2>2. (x + y) * n = x * n + y * n /\ (s + t) * e = s * e + t * e
    BY <1>1, <1>2, SMT
  <2>3. (x + y) * n <= e * n
    <3>1. n * e = e * n
      BY <1>1, SMT
    <3>2. (x + y) * n <= n * e
      BY <1>2, <2>1, <2>2
    <3> QED  BY <3>1, <3>2
  <2>4. x + y <= e
    BY <1>1, <1>2, <1>4, <2>3, MulCancel
  <2> QED  BY <1>1, <1>2, <2>4 DEF e
<1> QED  BY <1>3, <1>4

\* A receipt that is not the last one gets no more than its shares at the price.
LEMMA PaidBound ==
    ASSUME NEW b \in Balances, NEW r \in Receipts, WithdrawSucceeds(b, r), b.issued # r.shares
    PROVE  /\ WithdrawPaid(b, r) \in Nat
           /\ WithdrawPaid(b, r) * DIV <= r.shares * b.bias
<1> DEFINE v == redeem_value(b, r)
           paid == WithdrawPaid(b, r)
<1>1. /\ b.effective \in Nat /\ b.bias \in Nat /\ r.shares \in Nat /\ DIV \in Nat
  BY ShareBalanceAssumption DEF Balances, Receipts
<1>2. v \in Nat /\ v * DIV <= r.shares * b.bias
  BY RedeemBound DEF WithdrawSucceeds
<1>3. paid \in Nat /\ paid <= v
  BY <1>1, <1>2 DEF WithdrawPaid, withdraw_value, Least
<1> HIDE DEF v, paid
<1>4. paid * DIV <= v * DIV /\ paid * DIV \in Nat /\ v * DIV \in Nat /\ r.shares * b.bias \in Nat
  BY <1>1, <1>2, <1>3, MulMono, MulNat
<1> QED  BY <1>2, <1>3, <1>4 DEF paid

\* As long as shares are left, what the first m receipts took is no more than
\* their shares at the price there was before the first.
Bounded(b, commits, m, a) ==
    m = 0 \/ a.balance.issued # 0 => a.taken * DIV <= PartSum(EachShares(commits), m) * b.bias

LEMMA BoundedNext ==
    ASSUME NEW b \in Balances, NEW commits \in Seq(Receipts),
           NEW m \in Nat, m + 1 <= Len(commits),
           NEW a, Progress(b, commits, m, a), Bounded(b, commits, m, a),
           WithdrawSucceeds(a.balance, commits[m + 1]),
           NEW z, z.balance = WithdrawBalance(a.balance, commits[m + 1]),
           z.taken = a.taken + WithdrawPaid(a.balance, commits[m + 1])
    PROVE  Bounded(b, commits, m + 1, z)
<1> SUFFICES ASSUME z.balance.issued # 0
             PROVE  z.taken * DIV <= PartSum(EachShares(commits), m + 1) * b.bias
  BY DEF Bounded
<1> DEFINE k == m + 1
           c == commits[k]
           e == a.balance
           paid == WithdrawPaid(e, c)
           S(n) == PartSum(EachShares(commits), n)
<1>1. k \in 1 .. Len(commits) /\ c \in Receipts
  BY ReceiptSums
<1>2. e \in Balances /\ SoundBalance(e) /\ a.taken \in Nat
  BY DEF Progress
<1>3. z.balance.issued = e.issued - c.shares
  BY <1>1, <1>2, WithdrawSound
<1>4. WithdrawSucceeds(e, c) /\ c.shares # 0 /\ c.shares <= e.issued
  BY DEF WithdrawSucceeds, CanWithdraw
<1>5. c.shares \in Nat
  <2> HIDE DEF c
  <2> QED  BY <1>1, ShareBalanceAssumption DEF Receipts
<1>6. e.issued \in Nat
  <2> HIDE DEF e
  <2> QED  BY <1>2, ShareBalanceAssumption DEF Balances
<1>7. e.issued # 0 /\ e.issued # c.shares
  BY <1>3, <1>4, <1>5, <1>6
<1>8. e.bias = b.bias /\ a.taken * DIV <= S(m) * b.bias
  BY <1>7 DEF Progress, Bounded
<1>9. paid \in Nat /\ paid * DIV <= c.shares * e.bias
  BY <1>1, <1>2, <1>4, <1>7, PaidBound
<1>10. \A i \in 1 .. k : EachShares(commits)[i] \in Nat
  <2>1. \A i \in 1 .. k : i \in 1 .. Len(commits)
    BY <1>1
  <2>2. \A i \in 1 .. Len(commits) : EachShares(commits)[i] = commits[i].shares /\ commits[i].shares \in Nat
    BY ReceiptSums
  <2> HIDE DEF k
  <2> QED  BY <2>1, <2>2
<1>11. S(m) \in Nat /\ S(k) = S(m) + EachShares(commits)[k]
  <2>1. \A i \in 1 .. k : EachShares(commits)[i] \in Int
    BY <1>10
  <2>2. \A i \in 1 .. m : EachShares(commits)[i] \in Nat
    BY <1>10
  <2>3. m <= m
    OBVIOUS
  <2> QED  BY <2>1, <2>2, <2>3, PartSums, PartSumsGrow
<1>12. EachShares(commits)[k] = c.shares
  BY <1>1, ReceiptSums
<1>13. b.bias \in Nat /\ DIV \in Nat
  BY ShareBalanceAssumption DEF Balances
<1>14. z.taken = a.taken + paid
  OBVIOUS
<1>15. PICK t \in Nat, p \in Nat, u \in Nat, x \in Nat : t = a.taken /\ p = paid /\ u = S(m) /\ x = c.shares
  BY <1>2, <1>5, <1>9, <1>11
<1>16. z.taken = t + p /\ S(k) = u + x /\ t * DIV <= u * b.bias /\ p * DIV <= x * b.bias
  BY <1>8, <1>9, <1>11, <1>12, <1>14, <1>15
<1>17. /\ (t + p) * DIV = t * DIV + p * DIV /\ (u + x) * b.bias = u * b.bias + x * b.bias
       /\ t * DIV \in Nat /\ p * DIV \in Nat /\ u * b.bias \in Nat /\ x * b.bias \in Nat
  BY <1>13, MulDistrib, MulNat
<1> HIDE DEF k, c, e, paid, S
<1>18. z.taken * DIV <= S(k) * b.bias
  BY <1>16, <1>17
<1> QED  BY <1>18 DEF S, k

\* What a withdrawal takes is no more than the part of the balance that the shares
\* withdrawn are: those who stay are not paid less for it.
LEMMA WithdrawnCovered ==
    ASSUME NEW b \in Balances, SoundBalance(b), NEW commits \in Seq(Receipts),
           withdraw_from_digest(b, commits).ok
    PROVE  Covered(withdraw_from_digest(b, commits).taken, Shares(commits), b)
<1> DEFINE n == Len(commits)
           out == withdraw_from_digest(b, commits)
<1>0. n \in Nat /\ n <= n /\ n \in 0 .. n
  OBVIOUS
<1>1. PICK g : Chain(b, commits, n, g) /\ out = g[n]
  BY <1>0, ChainExists, WithdrawalChosen
<1> DEFINE P == {m \in Nat : m <= n => (g[m].ok => Bounded(b, commits, m, g[m]))}
<1>2. 0 \in P
  <2>1. g[0].taken = 0
    <3>1. g[0] = Start(b)
      BY <1>0, <1>1, ChainStart
    <3> QED  BY <3>1 DEF Start
  <2>2. PartSum(EachShares(commits), 0) = 0
    <3>1. 1 .. 0 = {} /\ IsFiniteSet({})
      BY FS_EmptySet
    <3> QED  BY <3>1, SumFirst DEF PartSum
  <2>3. 0 * DIV = 0 /\ 0 * b.bias = 0
    BY ShareBalanceAssumption DEF Balances
  <2>4. Bounded(b, commits, 0, g[0])
    BY <2>1, <2>2, <2>3 DEF Bounded
  <2> QED  BY <2>4
<1>3. ASSUME NEW m \in P  PROVE m + 1 \in P
  <2> SUFFICES ASSUME m + 1 <= n, g[m + 1].ok
               PROVE  Bounded(b, commits, m + 1, g[m + 1])
    OBVIOUS
  <2>1. m \in Nat /\ m <= n /\ m \in 0 .. n
    BY <1>0
  <2> DEFINE c == commits[m + 1]
             z == g[m + 1]
             a == g[m]
  <2>2. z = withdraw_one(a, c) /\ z.ok
    BY <1>0, <1>1, <2>1, ChainNext
  <2>3. "ok" \in DOMAIN a
    BY <1>0, <1>1, <2>1, ChainRecords
  <2> HIDE DEF c, z, a
  <2>4. /\ a.ok /\ WithdrawSucceeds(a.balance, c)
        /\ z.balance = WithdrawBalance(a.balance, c)
        /\ z.taken = a.taken + WithdrawPaid(a.balance, c)
    BY <2>2, <2>3, OneWithdrawn
  <2>5. Progress(b, commits, m, a) /\ Bounded(b, commits, m, a)
    BY <1>1, <2>1, <2>4, ChainProgress DEF a
  <2>6. Bounded(b, commits, m + 1, z)
    BY <2>1, <2>4, <2>5, BoundedNext DEF c
  <2> QED  BY <2>6 DEF z
<1>4. P = Nat
  <2>1. P \in SUBSET Nat
    OBVIOUS
  <2> HIDE DEF P
  <2> QED  BY <1>2, <1>3, <2>1, NatInd
<1>5. Bounded(b, commits, n, out)
  <2>1. n \in P
    BY <1>0, <1>4
  <2> QED  BY <1>0, <1>1, <2>1
<1>6. Progress(b, commits, n, out)
  BY Withdrawn
<1>7. Shares(commits) \in Nat /\ Shares(commits) = PartSum(EachShares(commits), n)
  BY ReceiptSums
<1> HIDE DEF n, out, P
<1>8. /\ b.effective \in Nat /\ b.issued \in Nat /\ b.bias \in Nat /\ DIV \in Nat \ {0}
  BY ShareBalanceAssumption DEF Balances
<1>9. /\ out.taken \in Nat /\ out.balance \in Balances
      /\ out.balance.effective = b.effective - out.taken
      /\ out.balance.issued = b.issued - Shares(commits)
  BY <1>6, <1>7 DEF Progress
<1>10. out.taken <= b.effective
  <2>1. out.balance.effective \in Nat
    BY <1>9, ShareBalanceAssumption DEF Balances
  <2> QED  BY <1>8, <1>9, <2>1
<1>11. b.issued = 0 => out.taken = 0
  <2>1. b.issued = 0 => b.effective = 0
    BY DEF SoundBalance, FreshBalance
  <2> QED  BY <1>8, <1>9, <1>10, <2>1
<1>12. PICK t \in Nat, s \in Nat : t = out.taken /\ s = Shares(commits)
  BY <1>7, <1>9
<1>13. t * b.issued <= s * b.effective
  <2>1. CASE out.balance.issued = 0
    <3>1. s = b.issued
      BY <1>8, <1>9, <1>12, <2>1
    <3>2. t * b.issued <= b.effective * b.issued
      BY <1>8, <1>10, <1>12, MulMono
    <3>3. b.effective * b.issued = b.issued * b.effective
      BY <1>8, Z3
    <3> QED  BY <3>1, <3>2, <3>3
  <2>2. CASE out.balance.issued # 0
    <3>1. t * DIV <= s * b.bias
      BY <1>5, <1>7, <1>12, <2>2 DEF Bounded
    <3>2. b.issued * b.bias <= b.effective * DIV
      BY DEF SoundBalance
    <3>3. PICK i \in Nat, e \in Nat, p \in Nat : i = b.issued /\ e = b.effective /\ p = b.bias
      BY <1>8
    <3>4. (t * DIV) * i <= (s * p) * i /\ (i * p) * s <= (e * DIV) * s
      BY <1>8, <3>1, <3>2, <3>3, MulMono, MulNat
    <3>5. (s * p) * i = (i * p) * s /\ (e * DIV) * s = (s * e) * DIV /\ (t * DIV) * i = (t * i) * DIV
      BY <1>8, SMT
    <3>6. (t * i) * DIV \in Nat /\ (s * e) * DIV \in Nat /\ (s * p) * i \in Nat /\ t * i \in Nat /\ s * e \in Nat
      BY <1>8, MulNat
    <3>7. (t * i) * DIV <= (s * e) * DIV
      BY <3>4, <3>5, <3>6
    <3>8. t * i <= s * e
      BY <1>8, <3>6, <3>7, MulCancel
    <3> QED  BY <3>3, <3>8
  <2> QED  BY <2>1, <2>2
<1> QED  BY <1>11, <1>12, <1>13 DEF Covered, out

===============================================================================
