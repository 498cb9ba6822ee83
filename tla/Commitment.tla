----------------------------- MODULE Commitment -----------------------------
(***************************************************************************)
(* pallet-commitment: proprietors commit assets to digests, one commitment *)
(* per proprietor and reason.  The assets behind a digest are a lazy       *)
(* balance (ShareBalance) per variant; setting the value of a digest       *)
(* rewards or punishes everybody committed to it at once, and the          *)
(* difference is settled with the asset pallet only when a commitment is   *)
(* resolved.  Until then it is counted in AssetToIssue and AssetToReap.    *)
(*                                                                         *)
(* This module has the direct digests.  The asset pallet (pallet-xp in the *)
(* runtime) is what the pallet uses of it: liquid points, points held for  *)
(* PrepareForCommit, points frozen per reason.  A call that fails is       *)
(* rolled back and is no step.                                             *)
(***************************************************************************)
EXTENDS DigestReceipts, FiniteSets

CONSTANTS Who, Reasons, Digests,
          VARIANT_COUNT,   \* number of positions of T::Position
          MaxCommits,      \* T::MaxCommits
          Funds,           \* liquid points of every proprietor at the start
          Amounts,         \* the values a call may carry
          Reserves,        \* the values a deposit or withdrawal of a reserve carries
          MaxAdjust        \* bound: how far SetDigestValue lets AssetToIssue,
                           \* AssetToReap and the net value granted grow

ASSUME CommitmentAssumption ==
    /\ VARIANT_COUNT \in Nat \ {0}
    /\ MaxCommits \in Nat \ {0}
    /\ Funds \in 0 .. MaxAsset
    /\ Amounts \subseteq 0 .. MaxAsset
    /\ Reserves \subseteq 0 .. MaxAsset
    /\ MaxAdjust \in 0 .. MaxAsset

ASSUME FiniteAssumption ==
    IsFiniteSet(Who) /\ IsFiniteSet(Reasons) /\ IsFiniteSet(Digests)

VARIABLES
    free, hold,     \* who -> points
    frozen,         \* who, reason -> points
    DigestMap,      \* reason, digest -> position -> balance
    CommitMap,      \* who, reason -> digest, variant, receipts
    AssetToIssue, AssetToReap,
    ReasonValue,    \* reason -> value committed
    adjusted        \* history: value granted to digests less value taken

accounts == <<free, hold, frozen>>

vars == <<accounts, DigestMap, CommitMap, AssetToIssue, AssetToReap, ReasonValue, adjusted>>

Positions == 0 .. VARIANT_COUNT - 1

Assets == 0 .. MaxAsset

\* DispatchPolicy: precision and fortitude.
Policies == [exact : BOOLEAN, force : BOOLEAN]

NoDigestInfo == [p \in Positions |-> FreshBalance]

digest_exists(r, d) == <<r, d>> \in DOMAIN DigestMap

commit_exists(w, r) == <<w, r>> \in DOMAIN CommitMap

\* The balances of a digest that a place_commit would create are fresh.
DigestInfo(r, d) == IF digest_exists(r, d) THEN DigestMap[<<r, d>>] ELSE NoDigestInfo

Insert(f, x, v) == [y \in DOMAIN f \cup {x} |-> IF y = x THEN v ELSE f[y]]

Delete(f, x) == [y \in DOMAIN f \ {x} |-> f[y]]

EmptyMap == [x \in {} |-> 0]

Init ==
    /\ free = [w \in Who |-> Funds]
    /\ hold = [w \in Who |-> 0]
    /\ frozen = [x \in Who \X Reasons |-> 0]
    /\ DigestMap = EmptyMap
    /\ CommitMap = EmptyMap
    /\ AssetToIssue = 0
    /\ AssetToReap = 0
    /\ ReasonValue = [r \in Reasons |-> 0]
    /\ adjusted = 0

-----------------------------------------------------------------------------
(* Funds *)

\* deduct_balance from an account with `liquid` and `reserve` points: held
\* points first, then liquid ones.
deduct_succeeds(liquid, reserve, x, p) ==
    \/ reserve >= x
    \/ /\ p.force \/ (~ p.exact /\ reserve # 0)
       /\ reserve + liquid <= MaxAsset
       /\ reserve + liquid >= x \/ (~ p.exact /\ reserve + liquid # 0)

deducted(liquid, reserve, x) == Least(x, reserve + liquid)

deducted_hold(reserve, x) == Least(x, reserve)

\* resolve_imbalance for an account with `liquid` points: the deposit comes
\* back, a reward is minted out of AssetToIssue, a penalty is burnt out of
\* AssetToReap.
resolve_succeeds(liquid, given, taken) ==
    /\ taken > given => AssetToIssue >= taken - given
    /\ taken < given => AssetToReap >= given - taken
    /\ liquid + given <= MaxAsset
    /\ liquid + taken <= MaxAsset

\* Mutant: a penalty is not taken off the counter.
resolve_imbalance_issue_only(given, taken) ==
    /\ AssetToIssue' = IF taken > given THEN AssetToIssue - (taken - given) ELSE AssetToIssue
    /\ UNCHANGED AssetToReap

resolve_imbalance(given, taken) ==
    /\ AssetToIssue' = IF taken > given THEN AssetToIssue - (taken - given) ELSE AssetToIssue
    /\ AssetToReap' = IF taken < given THEN AssetToReap - (given - taken) ELSE AssetToReap

\* The extrinsics that move points between liquid and held.
DepositReserve(w, x, exact) ==
    LET put == Least(x, free[w]) IN
    /\ exact => put = x
    /\ hold[w] + put <= MaxAsset
    /\ free' = [free EXCEPT ![w] = @ - put]
    /\ hold' = [hold EXCEPT ![w] = @ + put]
    /\ UNCHANGED <<frozen, DigestMap, CommitMap, AssetToIssue, AssetToReap, ReasonValue, adjusted>>

WithdrawReserve(w, x) ==
    /\ x <= hold[w]
    /\ free[w] + x <= MaxAsset
    /\ hold' = [hold EXCEPT ![w] = @ - x]
    /\ free' = [free EXCEPT ![w] = @ + x]
    /\ UNCHANGED <<frozen, DigestMap, CommitMap, AssetToIssue, AssetToReap, ReasonValue, adjusted>>

-----------------------------------------------------------------------------
(* Place and raise *)

\* What place and raise share: w pays x (or what it has) into variant v of
\* digest d, and the reason's total grows; `paid` is the amount.
deposit_to_digest(w, r, d, v, x, p, paid) ==
    LET b == DigestInfo(r, d)[v] IN
    /\ x # 0
    /\ deduct_succeeds(free[w], hold[w], x, p)
    /\ paid = deducted(free[w], hold[w], x)
    /\ DepositSucceeds(b, paid)
    /\ frozen[<<w, r>>] + paid <= MaxAsset
    /\ ReasonValue[r] + paid <= MaxAsset
    /\ free' = [free EXCEPT ![w] = @ - (paid - deducted_hold(hold[w], x))]
    /\ hold' = [hold EXCEPT ![w] = @ - deducted_hold(hold[w], x)]
    /\ DigestMap' = Insert(DigestMap, <<r, d>>,
                           [DigestInfo(r, d) EXCEPT ![v] = DepositBalance(b, paid)])
    /\ ReasonValue' = [ReasonValue EXCEPT ![r] = @ + paid]
    /\ UNCHANGED <<AssetToIssue, AssetToReap, adjusted>>

PlaceCommit(w, r, d, v, x, p) ==
    LET paid == deducted(free[w], hold[w], x) IN
    /\ ~ commit_exists(w, r)
    /\ deposit_to_digest(w, r, d, v, x, p, paid)
    /\ frozen' = [frozen EXCEPT ![<<w, r>>] = paid]
    /\ CommitMap' = Insert(CommitMap, <<w, r>>,
            [digest |-> d, variant |-> v,
             commits |-> <<DepositReceipt(DigestInfo(r, d)[v], paid)>>])

RaiseCommit(w, r, x, p) ==
    /\ commit_exists(w, r)
    /\ LET c    == CommitMap[<<w, r>>]
           paid == deducted(free[w], hold[w], x)
       IN
       /\ digest_exists(r, c.digest)
       /\ Len(c.commits) < MaxCommits
       /\ deposit_to_digest(w, r, c.digest, c.variant, x, p, paid)
       /\ frozen' = [frozen EXCEPT ![<<w, r>>] = @ + paid]
       /\ CommitMap' = [CommitMap EXCEPT ![<<w, r>>].commits =
                Append(@, DepositReceipt(DigestInfo(r, c.digest)[c.variant], paid))]

-----------------------------------------------------------------------------
(* Resolve *)

\* The withdrawal behind a commitment that exists.
Withdrawal(w, r) ==
    LET c == CommitMap[<<w, r>>] IN
    IF digest_exists(r, c.digest)
    THEN withdraw_from_digest(DigestMap[<<r, c.digest>>][c.variant], c.commits)
    ELSE [ok |-> FALSE, balance |-> FreshBalance, given |-> 0, taken |-> 0]

can_be_resolved(w, r) ==
    LET out == Withdrawal(w, r) IN
    /\ out.ok
    /\ out.given <= MaxAsset
    /\ out.taken <= MaxAsset
    /\ resolve_succeeds(free[w], out.given, out.taken)
    /\ out.taken <= ReasonValue[r]

ResolveCommit(w, r) ==
    /\ commit_exists(w, r)
    /\ can_be_resolved(w, r)
    /\ LET c   == CommitMap[<<w, r>>]
           out == Withdrawal(w, r)
       IN
       /\ DigestMap' = [DigestMap EXCEPT ![<<r, c.digest>>][c.variant] = out.balance]
       /\ free' = [free EXCEPT ![w] = @ + out.taken]
       /\ resolve_imbalance(out.given, out.taken)
       /\ ReasonValue' = [ReasonValue EXCEPT ![r] = @ - out.taken]
    /\ CommitMap' = Delete(CommitMap, <<w, r>>)
    /\ frozen' = [frozen EXCEPT ![<<w, r>>] = 0]
    /\ UNCHANGED <<hold, adjusted>>

\* set_commit_variant: resolve, and place what came back under another
\* variant of the digest, in one call.
SetCommitVariant(w, r, v, p) ==
    /\ commit_exists(w, r)
    /\ CommitMap[<<w, r>>].variant # v
    /\ can_be_resolved(w, r)
    /\ LET c      == CommitMap[<<w, r>>]
           out    == Withdrawal(w, r)
           liquid == free[w] + out.taken
           left   == [DigestMap[<<r, c.digest>>] EXCEPT ![c.variant] = out.balance]
           paid   == deducted(liquid, hold[w], out.taken)
           total  == ReasonValue[r] - out.taken + paid
       IN
       /\ out.taken # 0
       /\ deduct_succeeds(liquid, hold[w], out.taken, p)
       /\ DepositSucceeds(left[v], paid)
       /\ total <= MaxAsset
       /\ DigestMap' = [DigestMap EXCEPT ![<<r, c.digest>>] =
                            [left EXCEPT ![v] = DepositBalance(left[v], paid)]]
       /\ free' = [free EXCEPT ![w] = liquid - (paid - deducted_hold(hold[w], out.taken))]
       /\ hold' = [hold EXCEPT ![w] = @ - deducted_hold(hold[w], out.taken)]
       /\ resolve_imbalance(out.given, out.taken)
       /\ ReasonValue' = [ReasonValue EXCEPT ![r] = total]
       /\ frozen' = [frozen EXCEPT ![<<w, r>>] = paid]
       /\ CommitMap' = [CommitMap EXCEPT ![<<w, r>>] =
                [digest |-> c.digest, variant |-> v,
                 commits |-> <<DepositReceipt(left[v], paid)>>]]
    /\ UNCHANGED adjusted

-----------------------------------------------------------------------------
(* Digests *)

\* set_digest_variant_value mints or reaps the difference to the value x.
SetDigestValue(r, d, v, x) ==
    /\ digest_exists(r, d)
    /\ LET b   == DigestMap[<<r, d>>][v]
           cur == TotalValue(b)
       IN
       \/ /\ cur < x
          /\ MintSucceeds(b, x - cur)
          /\ AssetToIssue + (x - cur) <= MaxAdjust
          /\ ReasonValue[r] + (x - cur) <= MaxAsset
          /\ DigestMap' = [DigestMap EXCEPT ![<<r, d>>][v] = MintBalance(b, x - cur)]
          /\ AssetToIssue' = AssetToIssue + (x - cur)
          /\ ReasonValue' = [ReasonValue EXCEPT ![r] = @ + (x - cur)]
          /\ adjusted' = adjusted + (x - cur)
          /\ adjusted' <= MaxAdjust
          /\ UNCHANGED AssetToReap
       \/ /\ cur > x
          /\ ReapSucceeds(b, cur - x)
          /\ AssetToReap + (cur - x) <= MaxAdjust
          /\ cur - x <= ReasonValue[r]
          /\ DigestMap' = [DigestMap EXCEPT ![<<r, d>>][v] = ReapBalance(b, cur - x)]
          /\ AssetToReap' = AssetToReap + (cur - x)
          /\ ReasonValue' = [ReasonValue EXCEPT ![r] = @ - (cur - x)]
          /\ adjusted' = adjusted - (cur - x)
          /\ 0 - adjusted' <= MaxAdjust
          /\ UNCHANGED AssetToIssue
    /\ UNCHANGED <<accounts, CommitMap>>

\* What reap_digest finds left: the value of the last variant in use.
Remaining(info) ==
    LET used == {p \in Positions : info[p] # FreshBalance}
    IN  IF used = {} THEN 0 ELSE TotalValue(info[CHOOSE p \in used : \A q \in used : q <= p])

\* Mutant: only the first variant is asked whether it has deposits.
ReapDigestFirst(r, d) ==
    /\ digest_exists(r, d)
    /\ ~ HasDeposits(DigestMap[<<r, d>>][0])
    /\ DigestMap' = Delete(DigestMap, <<r, d>>)
    /\ UNCHANGED <<accounts, CommitMap, AssetToIssue, AssetToReap, ReasonValue, adjusted>>

ReapDigest(r, d) ==
    /\ digest_exists(r, d)
    /\ \A p \in Positions : ~ HasDeposits(DigestMap[<<r, d>>][p])
    /\ LET left == Remaining(DigestMap[<<r, d>>]) IN
       /\ AssetToReap + left <= MaxAsset
       /\ left <= ReasonValue[r]
       /\ AssetToReap' = AssetToReap + left
       /\ ReasonValue' = [ReasonValue EXCEPT ![r] = @ - left]
       /\ adjusted' = adjusted - left
    /\ DigestMap' = Delete(DigestMap, <<r, d>>)
    /\ UNCHANGED <<accounts, CommitMap, AssetToIssue>>

-----------------------------------------------------------------------------

Next ==
    \/ \E w \in Who, x \in Reserves :
        \/ \E exact \in BOOLEAN : DepositReserve(w, x, exact)
        \/ WithdrawReserve(w, x)
    \/ \E w \in Who, x \in Amounts, r \in Reasons, p \in Policies :
        \/ RaiseCommit(w, r, x, p)
        \/ \E d \in Digests, v \in Positions : PlaceCommit(w, r, d, v, x, p)
    \/ \E w \in Who : WithdrawReserve(w, hold[w])
    \/ \E w \in Who, r \in Reasons :
        \/ ResolveCommit(w, r)
        \/ \E v \in Positions, p \in Policies : SetCommitVariant(w, r, v, p)
    \/ \E r \in Reasons, d \in Digests :
        \/ ReapDigest(r, d)
        \/ \E v \in Positions, x \in Amounts : SetDigestValue(r, d, v, x)

Spec == Init /\ [][Next]_vars

-----------------------------------------------------------------------------
(* Queries and checks.  The limits of the share-based model are unbounded.   *)

\* Mutant: liquid points are not counted.
available_on_hold(w) == hold[w]

available_funds(w) == Least(hold[w] + free[w], MaxAsset)

\* A digest or variant that does not exist yet counts as a fresh balance.
can_place_commit(w, r, d, v, x) ==
    /\ ~ commit_exists(w, r)
    /\ available_funds(w) >= x
    /\ CanDeposit(DigestInfo(r, d)[v], x)

can_raise_commit(w, r, x) ==
    /\ commit_exists(w, r)
    /\ available_funds(w) >= x
    /\ CanDeposit(DigestInfo(r, CommitMap[<<w, r>>].digest)[CommitMap[<<w, r>>].variant], x)

can_resolve_digest_commit(w, r) ==
    LET c == CommitMap[<<w, r>>] IN
    /\ digest_exists(r, c.digest)
    /\ can_withdraw_all(DigestMap[<<r, c.digest>>][c.variant], c.commits)

can_set_digest_value(r, d, v, x) ==
    /\ digest_exists(r, d)
    /\ LET b   == DigestMap[<<r, d>>][v]
           cur == TotalValue(b)
       IN  /\ cur < x => CanMint(b, x - cur)
           /\ cur > x => CanReap(b, cur - x)

\* get_commit_value of a direct commitment.
CommitValue(w, r) ==
    LET c == CommitMap[<<w, r>>] IN quote(DigestMap[<<r, c.digest>>][c.variant], c.commits)

-----------------------------------------------------------------------------
(* Properties *)

CommitInfos ==
    [digest : Digests, variant : Positions,
     commits : Seq(Receipts)]

\* Storage stays within the widths of its types.
TypeOK ==
    /\ free \in [Who -> Assets]
    /\ hold \in [Who -> Assets]
    /\ frozen \in [Who \X Reasons -> Assets]
    /\ DOMAIN DigestMap \subseteq Reasons \X Digests
    /\ \A x \in DOMAIN DigestMap : DigestMap[x] \in [Positions -> Balances]
    /\ DOMAIN CommitMap \subseteq Who \X Reasons
    /\ \A x \in DOMAIN CommitMap :
          CommitMap[x] \in CommitInfos /\ Len(CommitMap[x].commits) \in 1 .. MaxCommits
    /\ AssetToIssue \in Assets
    /\ AssetToReap \in Assets
    /\ ReasonValue \in [Reasons -> Assets]
    /\ adjusted \in Int

Values(info) == SumFunction([p \in Positions |-> TotalValue(info[p])])

DigestValueOf(r) ==
    SumFunction([d \in Digests |-> Values(DigestInfo(r, d))])

DepositOf(w, r) == IF commit_exists(w, r) THEN Principals(CommitMap[<<w, r>>].commits) ELSE 0

TotalDeposit == SumFunction([x \in Who \X Reasons |-> DepositOf(x[1], x[2])])

TotalDigestValue == SumFunction([r \in Reasons |-> DigestValueOf(r)])

\* Exactly what a proprietor paid into a commitment is frozen, through raises
\* and changes of variant: finalize_place_commit, finalize_raise_commit and
\* finalize_resolve_commit keep the asset pallet and the receipts together.
FrozenIsDeposit ==
    \A w \in Who, r \in Reasons : frozen[<<w, r>>] = DepositOf(w, r)

\* The books balance: the value of all digests is what was deposited plus what
\* is still to be issued less what is still to be reaped.
Equilibrium == TotalDigestValue = TotalDeposit + AssetToIssue - AssetToReap

\* The total kept per reason is the value of the digests of the reason.
ReasonTotals == \A r \in Reasons : ReasonValue[r] = DigestValueOf(r)

\* Value is neither created nor lost but by set_digest_value: the points the
\* proprietors can dispose of and the value of the digests together change by
\* what digests were granted or lost, and by nothing else.
Conservation ==
    SumFunction(free) + SumFunction(hold) + TotalDigestValue
        = Cardinality(Who) * Funds + adjusted

\* The shares w holds of variant v of digest d.
SharesOf(w, r, d, v) ==
    IF /\ commit_exists(w, r)
       /\ CommitMap[<<w, r>>].digest = d
       /\ CommitMap[<<w, r>>].variant = v
    THEN Shares(CommitMap[<<w, r>>].commits)
    ELSE 0

SharesIn(r, d, v) == SumFunction([w \in Who |-> SharesOf(w, r, d, v)])

\* Every commitment is backed by a digest that exists, and the receipts of a
\* digest hold all its shares: reap_digest never strands a commitment, and a
\* digest that reports deposits has a proprietor who can withdraw them.
ReceiptsHoldShares ==
    /\ \A x \in DOMAIN CommitMap : digest_exists(x[2], CommitMap[x].digest)
    /\ \A r \in Reasons, d \in Digests, v \in Positions :
          DigestInfo(r, d)[v].issued = SharesIn(r, d, v)

\* Whoever resolves gets at least the value get_commit_value announced, although
\* the receipts are withdrawn one after the other from a changing balance.
PaidAsQuoted ==
    \A x \in DOMAIN CommitMap :
        can_be_resolved(x[1], x[2]) => Withdrawal(x[1], x[2]).taken >= CommitValue(x[1], x[2])

\* Whether w could pay exactly x into b.
takes(w, b, x) ==
    /\ x # 0
    /\ deduct_succeeds(free[w], hold[w], x, [exact |-> TRUE, force |-> TRUE])
    /\ DepositSucceeds(b, x)

\* The checks that callers make first agree with what the calls then find, on
\* fresh, drained and emptied balances and on digests that do not exist yet: no
\* exact call that would succeed is refused, and a commitment whose receipts pass
\* one by one also passes as a whole, each receipt from what the last one left.
ChecksAgree ==
    /\ \A w \in Who, r \in Reasons, x \in Amounts :
          /\ \A d \in Digests, v \in Positions :
                ~ commit_exists(w, r) /\ takes(w, DigestInfo(r, d)[v], x)
                    => can_place_commit(w, r, d, v, x)
          /\ commit_exists(w, r)
             /\ takes(w, DigestInfo(r, CommitMap[<<w, r>>].digest)[CommitMap[<<w, r>>].variant], x)
                    => can_raise_commit(w, r, x)
    /\ \A x \in DOMAIN CommitMap :
          LET c == CommitMap[x]
              b == DigestMap[<<x[2], c.digest>>][c.variant]
          IN  /\ Withdrawal(x[1], x[2]).ok => can_resolve_digest_commit(x[1], x[2])
              /\ can_resolve_digest_commit(x[1], x[2]) /\ quoted(b, c.commits)
                    => Withdrawal(x[1], x[2]).ok
    /\ \A y \in DOMAIN DigestMap, v \in Positions, x \in Amounts :
          LET b == DigestMap[y][v] IN
          (/\ x > TotalValue(b) => MintSucceeds(b, x - TotalValue(b))
           /\ x < TotalValue(b) => ReapSucceeds(b, TotalValue(b) - x))
              => can_set_digest_value(y[1], y[2], v, x)

\* The books of direct commitments: what is frozen was deposited, the value of
\* the digests is what was deposited plus what is to be issued less what is to be
\* reaped, the total of a reason is the value of its digests, and no value
\* appears or disappears but by set_digest_value.
DigestBooks == FrozenIsDeposit /\ Equilibrium /\ ReasonTotals /\ Conservation

-----------------------------------------------------------------------------
(* The inductive invariant *)

BalancesSound ==
    \A x \in DOMAIN DigestMap : \A v \in Positions : SoundBalance(DigestMap[x][v])

\* No receipt is without shares.
ReceiptsCount ==
    \A x \in DOMAIN CommitMap : \A n \in DOMAIN CommitMap[x].commits :
        CommitMap[x].commits[n].shares # 0

CommitmentInv ==
    /\ TypeOK
    /\ BalancesSound
    /\ ReceiptsCount
    /\ DigestBooks
    /\ ReceiptsHoldShares

=============================================================================
