---------------------------- MODULE DigestReceipts ----------------------------
(***************************************************************************)
(* The receipts of one commitment held against one lazy balance: how the   *)
(* commitment pallet withdraws them (withdraw_from_digest), what it checks *)
(* before (can_resolve_commit) and what it says they are worth             *)
(* (digest_commit_value).  Digests, entries of indexes, slots and pools    *)
(* use the same operators.                                                 *)
(***************************************************************************)
EXTENDS ShareBalance, Sequences, Functions

\* Mutant: the dust of the balance is not paid to the last receipt.
withdraw_one_without_dust(acc, c) ==
    IF acc.ok /\ WithdrawSucceeds(acc.balance, c)
    THEN [ok |-> TRUE, balance |-> WithdrawBalance(acc.balance, c),
          given |-> acc.given + c.principal,
          taken |-> acc.taken + withdraw_value(acc.balance, c)]
    ELSE [acc EXCEPT !.ok = FALSE]

\* withdraw_from_digest: the receipts are withdrawn one after the other, each
\* from the balance the one before left.
withdraw_one(acc, c) ==
    IF acc.ok /\ WithdrawSucceeds(acc.balance, c)
    THEN [ok |-> TRUE, balance |-> WithdrawBalance(acc.balance, c),
          given |-> acc.given + c.principal,
          taken |-> acc.taken + WithdrawPaid(acc.balance, c)]
    ELSE [acc EXCEPT !.ok = FALSE]

withdraw_from_digest(b, commits) ==
    LET after[n \in 0 .. Len(commits)] ==
            IF n = 0 THEN [ok |-> TRUE, balance |-> b, given |-> 0, taken |-> 0]
            ELSE withdraw_one(after[n - 1], commits[n])
    IN  after[Len(commits)]

\* Every receipt is held against the balance as it is.
can_withdraw_all(b, commits) == \A n \in DOMAIN commits : CanWithdraw(b, commits[n])

\* What receipts are worth, each valued on its own, and whether the valuation
\* goes through.
quoted(b, commits) == \A n \in DOMAIN commits : WithdrawSucceeds(b, commits[n])

quote(b, commits) ==
    SumFunction([n \in DOMAIN commits |-> ReceiptActiveValue(b, commits[n])])

Principals(commits) == SumFunction([i \in DOMAIN commits |-> commits[i].principal])

Shares(commits) == SumFunction([i \in DOMAIN commits |-> commits[i].shares])

===============================================================================
