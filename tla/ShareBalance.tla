---------------------------- MODULE ShareBalance ----------------------------
(***************************************************************************)
(* The share-based lazy balance of frame/plugins/src/balances.rs: the      *)
(* plugin models of ShareBalanceFamily as operators on a balance record    *)
(* and on a receipt record.  A deposit issues shares at the current price  *)
(* (`bias`), a mint or a reap moves the price, a withdrawal redeems the    *)
(* shares of a receipt at the price it finds.                              *)
(*                                                                         *)
(* A fixed-point value (T::Rational) is kept as its inner integer, the     *)
(* value times DIV; T::Asset is bounded by MaxAsset, the inner integer of  *)
(* T::Rational by MaxInner, T::Time by MaxTime.  The runtime has u128,     *)
(* FixedU64 (DIV = 10^9, u64) and u32.                                     *)
(***************************************************************************)
EXTENDS Integers

CONSTANTS DIV,        \* T::Rational::DIV
          MaxAsset,   \* largest T::Asset
          MaxInner,   \* largest inner value of T::Rational
          MaxTime     \* largest T::Time

\* One is representable, and T::Asset: From<Inner> (the conversion is total).
ASSUME ShareBalanceAssumption ==
    /\ DIV \in Nat \ {0}
    /\ MaxAsset \in Nat
    /\ MaxInner \in Nat
    /\ MaxTime \in Nat
    /\ DIV <= MaxInner
    /\ MaxInner <= MaxAsset

Least(x, y) == IF x <= y THEN x ELSE y

-----------------------------------------------------------------------------
(* sp_arithmetic's FixedPointNumber, on inner values: every operation        *)
(* rounds down; the checked ones are None when the result exceeds MaxInner.  *)

One == DIV

saturating_from_integer(n) == Least(n * DIV, MaxInner)

fixed_mul(x, y) == (x * y) \div DIV

fixed_div(x, y) == (x * DIV) \div y

from_rational(n, d) == (n * DIV) \div d

Fits(x) == x <= MaxInner

-----------------------------------------------------------------------------
(* Balances and receipts.  `init` is FALSE while the virtual balance has no  *)
(* fields, the state every getter answers with None.                         *)

Balances ==
    [init : BOOLEAN, effective : 0 .. MaxAsset, issued : 0 .. MaxAsset,
     bias : 0 .. MaxInner, checkpoint : 0 .. MaxTime, drainpoint : 0 .. MaxTime]

Receipts ==
    [principal : 0 .. MaxAsset, shares : 0 .. MaxAsset,
     bias : 0 .. MaxInner, checkpoint : 0 .. MaxTime]

FreshBalance ==
    [init |-> FALSE, effective |-> 0, issued |-> 0, bias |-> 0,
     checkpoint |-> 0, drainpoint |-> 0]

\* A default receipt: no shares, which no withdrawal accepts.
NoReceipt == [principal |-> 0, shares |-> 0, bias |-> 0, checkpoint |-> 0]

init_balance ==
    [init |-> TRUE, effective |-> 0, issued |-> 0, bias |-> One,
     checkpoint |-> 0, drainpoint |-> 0]

is_fresh_balance(b) == IF b.init THEN b ELSE init_balance

\* Mutant: the drain point is left at the checkpoint before the drain.
balance_checkpoint_early(b) ==
    [b EXCEPT !.checkpoint = Least(b.checkpoint + 1, MaxTime),
              !.drainpoint = IF b.bias = 0 THEN b.checkpoint ELSE @]

\* A mint or a reap counts one checkpoint; one that leaves the price at zero
\* also moves the drain point there.
balance_checkpoint(b) ==
    LET now == Least(b.checkpoint + 1, MaxTime)
    IN  [b EXCEPT !.checkpoint = now,
                  !.drainpoint = IF b.bias = 0 THEN now ELSE @]

-----------------------------------------------------------------------------
(* Deposit *)

\* Mutant: the shares of a deposit are rounded up.
deposit_shares_up(b, a) ==
    IF b.issued = 0 THEN a
    ELSE (fixed_div(saturating_from_integer(a), b.bias) + DIV - 1) \div DIV

deposit_shares(b, a) ==
    IF b.issued = 0 THEN a
    ELSE fixed_div(saturating_from_integer(a), b.bias) \div DIV

\* Every early return of ModelDeposit is the negation of a conjunct.
DepositSucceeds(old, a) ==
    LET b == is_fresh_balance(old) IN
    /\ a # 0
    /\ b.bias # 0
    /\ b.issued # 0 => Fits(fixed_div(saturating_from_integer(a), b.bias))
    /\ deposit_shares(b, a) # 0
    /\ b.effective + a <= MaxAsset
    /\ b.issued + deposit_shares(b, a) <= MaxAsset

DepositBalance(old, a) ==
    LET b == is_fresh_balance(old) IN
    [b EXCEPT !.effective = @ + a, !.issued = @ + deposit_shares(b, a)]

\* Mutant: the receipt records the initial price.
DepositReceiptAtOne(old, a) ==
    LET b == is_fresh_balance(old) IN
    [principal |-> a, shares |-> deposit_shares(b, a),
     bias |-> One, checkpoint |-> b.checkpoint]

DepositReceipt(old, a) ==
    LET b == is_fresh_balance(old) IN
    [principal |-> a, shares |-> deposit_shares(b, a),
     bias |-> b.bias, checkpoint |-> b.checkpoint]

CanDeposit(b, a) ==
    \/ ~ b.init
    \/ /\ ~ (b.bias = 0 /\ b.issued # 0)
       /\ b.effective + a <= MaxAsset

-----------------------------------------------------------------------------
(* Mint, reap and drain: adjust the value behind the shares.  A zero amount  *)
(* succeeds and changes nothing.                                             *)

CanAdjust(b) == b.init /\ b.issued # 0

MintSucceeds(b, a) ==
    a # 0 => /\ CanAdjust(b)
             /\ b.effective + a <= MaxAsset
             /\ Fits(from_rational(b.effective + a, b.issued))

MintBalance(b, a) ==
    IF a = 0 THEN b
    ELSE balance_checkpoint(
            [b EXCEPT !.effective = @ + a,
                      !.bias = from_rational(b.effective + a, b.issued)])

CanMint(b, a) == a # 0 /\ CanAdjust(b) /\ b.effective + a <= MaxAsset

ReapSucceeds(b, a) ==
    a # 0 => /\ CanAdjust(b)
             /\ a <= b.effective
             /\ Fits(from_rational(b.effective - a, b.issued))

ReapBalance(b, a) ==
    IF a = 0 THEN b
    ELSE balance_checkpoint(
            [b EXCEPT !.effective = @ - a,
                      !.bias = from_rational(b.effective - a, b.issued)])

CanReap(b, a) == a # 0 /\ CanAdjust(b) /\ a <= b.effective

TotalValue(b) == b.effective

HasDeposits(b) == b.init /\ b.issued # 0

-----------------------------------------------------------------------------
(* Withdraw *)

\* The price was zero at some point after the receipt was issued.
Outdated(b, r) == b.drainpoint > r.checkpoint

price_at_deposit(b, r) == IF Outdated(b, r) THEN One ELSE r.bias

value_at_deposit(b, r) ==
    fixed_mul(saturating_from_integer(r.shares), price_at_deposit(b, r))

price_ratio(b, r) == fixed_div(b.bias, price_at_deposit(b, r))

\* Mutant: the redemption value is rounded up.
redeem_value_up(b, r) ==
    (fixed_mul(value_at_deposit(b, r), price_ratio(b, r)) + DIV - 1) \div DIV

\* The redemption value before it is capped at what the balance holds.
redeem_value(b, r) == fixed_mul(value_at_deposit(b, r), price_ratio(b, r)) \div DIV

CanWithdraw(b, r) == b.init /\ r.shares # 0 /\ r.shares <= b.issued

WithdrawSucceeds(b, r) ==
    /\ CanWithdraw(b, r)
    /\ Fits(fixed_mul(saturating_from_integer(r.shares), r.bias))
    /\ price_at_deposit(b, r) # 0
    /\ Fits(price_ratio(b, r))
    /\ Fits(fixed_mul(value_at_deposit(b, r), price_ratio(b, r)))

withdraw_value(b, r) == Least(redeem_value(b, r), b.effective)

\* The last receipt takes what is left (the dust) and the balance restarts at
\* price one; checkpoint and drain point are reset only when there was dust.
WithdrawBalance(b, r) ==
    LET left   == b.effective - withdraw_value(b, r)
        issued == b.issued - r.shares
    IN  IF issued = 0
        THEN IF left # 0 THEN init_balance
             ELSE [b EXCEPT !.effective = 0, !.issued = 0, !.bias = One]
        ELSE [b EXCEPT !.effective = left, !.issued = issued]

\* Mutant: the last receipt does not get the dust.
WithdrawPaidWithoutDust(b, r) == withdraw_value(b, r)

WithdrawPaid(b, r) ==
    IF b.issued = r.shares THEN b.effective ELSE withdraw_value(b, r)

\* A simulated withdrawal.
ReceiptActiveValue(b, r) == WithdrawPaid(b, r)

-----------------------------------------------------------------------------
(* What every balance is between two operations: untouched, or without     *)
(* shares and then empty and priced at one, or worth at least its shares.  *)

SoundBalance(b) ==
    /\ ~ b.init => b = FreshBalance
    /\ b.init /\ b.issued = 0 => b.effective = 0 /\ b.bias = One
    /\ b.issued * b.bias <= b.effective * DIV

=============================================================================
