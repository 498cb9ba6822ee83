----------------------------- MODULE CommitPool -----------------------------
(***************************************************************************)
(* Pools of pallet-commitment.  A pool is a lazy balance of its own, kept  *)
(* invested: its value lies in slots, one receipt per digest.  Every       *)
(* operation first releases the pool (withdraws all slots and adjusts the  *)
(* pool's balance to what came back) and then recovers it (splits the new  *)
(* value over the slots); what the split leaves over goes to the manager,  *)
(* and so does a commission on every withdrawal.                           *)
(*                                                                         *)
(* As in CommitIndex, the slots are a function from their digests.         *)
(***************************************************************************)
EXTENDS CommitIndex

CONSTANTS Pools,         \* ids of pools
          ACCURACY,      \* T::Commission::ACCURACY
          Commissions    \* parts of ACCURACY a pool may ask for

ASSUME CommitPoolAssumption ==
    /\ Pools \cap (Digests \cup Indexes) = {}
    /\ ACCURACY \in Nat \ {0}
    /\ Commissions \subseteq 0 .. ACCURACY

\* Ids are hashes of a fixed width.
ASSUME PoolsFinite == IsFiniteSet(Pools)

VARIABLES
    PoolMap,       \* reason, pool -> balance, commission, slots
    PoolManager    \* reason, pool -> who

poolVars == <<PoolMap, PoolManager>>

pool_exists(r, k) == <<r, k>> \in DOMAIN PoolMap

SlotOf(e) == [shares |-> e.shares, variant |-> e.variant, commit |-> NoReceipt]

PoolInit ==
    /\ IndexInit
    /\ PoolMap = EmptyMap
    /\ PoolManager = EmptyMap

-----------------------------------------------------------------------------
(* Release: withdraw every slot, and bring the pool's balance to the sum.    *)

InUse(pool) == {d \in DOMAIN pool.slots : pool.slots[d].commit # NoReceipt}

SlotBalance(r, pool, d) == DigestMap[<<r, d>>][pool.slots[d].variant]

SlotsPay(r, pool) ==
    SumFunction([d \in InUse(pool) |->
                    WithdrawPaid(SlotBalance(r, pool, d), pool.slots[d].commit)])

adjust_balance(b, value) ==
    IF value >= TotalValue(b) THEN MintBalance(b, value - TotalValue(b))
    ELSE ReapBalance(b, TotalValue(b) - value)

release_succeeds(r, k) ==
    LET pool == PoolMap[<<r, k>>]
        b    == pool.balance
        paid == SlotsPay(r, pool)
    IN
    b # FreshBalance =>
        /\ \A d \in InUse(pool) :
              /\ digest_exists(r, d)
              /\ WithdrawSucceeds(SlotBalance(r, pool, d), pool.slots[d].commit)
        /\ paid <= MaxAsset
        /\ paid > TotalValue(b) => MintSucceeds(b, paid - TotalValue(b))
        /\ paid < TotalValue(b) => ReapSucceeds(b, TotalValue(b) - paid)

release_balance(r, k) ==
    LET pool == PoolMap[<<r, k>>] IN
    IF pool.balance = FreshBalance THEN FreshBalance
    ELSE adjust_balance(pool.balance, SlotsPay(r, pool))

release_digests(r, k) ==
    LET pool == PoolMap[<<r, k>>] IN
    [x \in DOMAIN DigestMap |->
        IF x[1] = r /\ x[2] \in InUse(pool)
        THEN [DigestMap[x] EXCEPT ![pool.slots[x[2]].variant] =
                 WithdrawBalance(@, pool.slots[x[2]].commit)]
        ELSE DigestMap[x]]

-----------------------------------------------------------------------------
(* Recover: invest balance b in the slots, given the released digests.       *)

\* Slots are split by their shares as the entries of an index are.
slot_deposit(slots, d, b) == entry_deposit(slots, d, TotalValue(b))

invested(slots, b) == funded(slots, TotalValue(b))

recover_dust(slots, b) == TotalValue(b) - index_actual(slots, TotalValue(b))

recover_succeeds(r, k, slots, b, digests) ==
    LET dust == recover_dust(slots, b) IN
    /\ \A d \in DOMAIN slots : Fits(entry_fixed(slots, d, TotalValue(b)))
    /\ \A d \in invested(slots, b) :
          /\ <<r, d>> \in DOMAIN digests
          /\ DepositSucceeds(digests[<<r, d>>][slots[d].variant], slot_deposit(slots, d, b))
    /\ dust # 0 =>
          /\ dust <= ReasonValue[r]
          /\ ReapSucceeds(b, dust)

recover_digests(r, slots, b, digests) ==
    [x \in DOMAIN digests |->
        IF x[1] = r /\ x[2] \in invested(slots, b)
        THEN [digests[x] EXCEPT ![slots[x[2]].variant] =
                 DepositBalance(@, slot_deposit(slots, x[2], b))]
        ELSE digests[x]]

\* Mutant: a slot too small to be funded keeps its old receipt.
recover_slots_stale(r, slots, b, digests) ==
    [d \in DOMAIN slots |->
        IF d \in invested(slots, b)
        THEN [slots[d] EXCEPT !.commit =
                 DepositReceipt(digests[<<r, d>>][slots[d].variant], slot_deposit(slots, d, b))]
        ELSE slots[d]]

recover_slots(r, slots, b, digests) ==
    [d \in DOMAIN slots |->
        [slots[d] EXCEPT !.commit =
            IF d \in invested(slots, b)
            THEN DepositReceipt(digests[<<r, d>>][slots[d].variant], slot_deposit(slots, d, b))
            ELSE NoReceipt]]

\* Mutant: the dust stays in the pool's balance as well.
recover_balance_whole(slots, b) == b

recover_balance(slots, b) == ReapBalance(b, recover_dust(slots, b))

\* The writes of a recovery: pool k, with these slots, holds b from now on.
recover_pool(r, k, slots, b, digests) ==
    /\ recover_succeeds(r, k, slots, b, digests)
    /\ DigestMap' = recover_digests(r, slots, b, digests)
    /\ PoolMap' = [PoolMap EXCEPT ![<<r, k>>].balance = recover_balance(slots, b),
                                  ![<<r, k>>].slots = recover_slots(r, slots, b, digests)]

Pay(f, w, x) == [f EXCEPT ![w] = @ + x]

-----------------------------------------------------------------------------
(* Setting up *)

\* The pool takes the entries of an index, and its creator becomes manager.
SetPool(w, r, k, i, commission) ==
    /\ ~ pool_exists(r, k)
    /\ index_exists(r, i)
    /\ PoolMap' = Insert(PoolMap, <<r, k>>,
            [balance |-> FreshBalance, commission |-> commission,
             slots |-> [d \in DOMAIN IndexMap[<<r, i>>].entries |-> SlotOf(IndexMap[<<r, i>>].entries[d])]])
    /\ PoolManager' = Insert(PoolManager, <<r, k>>, w)
    /\ UNCHANGED <<vars, indexVars>>

SetPoolManager(w, r, k) ==
    /\ pool_exists(r, k)
    /\ PoolManager' = [PoolManager EXCEPT ![<<r, k>>] = w]
    /\ UNCHANGED <<vars, indexVars, PoolMap>>

\* Release, change the slots, recover.
change_slots(r, k, slots) ==
    LET b    == release_balance(r, k)
        dust == recover_dust(slots, b)
        m    == PoolManager[<<r, k>>]
    IN
    /\ release_succeeds(r, k)
    /\ recover_pool(r, k, slots, b, release_digests(r, k))
    /\ free[m] + dust <= MaxAsset
    /\ free' = Pay(free, m, dust)
    /\ ReasonValue' = [ReasonValue EXCEPT ![r] = @ - dust]
    /\ UNCHANGED <<hold, frozen, CommitMap, AssetToIssue, AssetToReap, adjusted,
                   indexVars, PoolManager>>

RemovePoolSlot(r, k, d) ==
    /\ pool_exists(r, k)
    /\ Removable(PoolMap[<<r, k>>].slots, d)
    /\ change_slots(r, k, Delete(PoolMap[<<r, k>>].slots, d))

\* set_pool_slot, behind set_slot_shares (which keeps the variant of a slot
\* that is there) and set_slot_of_variant.
SetPoolSlot(r, k, d, e) ==
    /\ pool_exists(r, k)
    /\ LET old == PoolMap[<<r, k>>].slots IN
       /\ Removable(old, d) \/ (d \notin DOMAIN old /\ digest_exists(r, d))
       /\ Entries_valid(Insert(old, d, SlotOf(e)))
       /\ change_slots(r, k, Insert(old, d, SlotOf(e)))

PoolIdle(r, k) == ~ HasDeposits(PoolMap[<<r, k>>].balance)

\* What an idle pool still holds would be minted to the manager.
ReapPool(r, k) ==
    /\ pool_exists(r, k)
    /\ PoolIdle(r, k)
    /\ LET left == TotalValue(PoolMap[<<r, k>>].balance)
           m    == PoolManager[<<r, k>>]
       IN
       /\ resolve_succeeds(free[m], 0, left)
       /\ left <= ReasonValue[r]
       /\ free' = Pay(free, m, left)
       /\ resolve_imbalance(0, left)
       /\ ReasonValue' = [ReasonValue EXCEPT ![r] = @ - left]
    /\ PoolMap' = Delete(PoolMap, <<r, k>>)
    /\ PoolManager' = Delete(PoolManager, <<r, k>>)
    /\ UNCHANGED <<hold, frozen, DigestMap, CommitMap, adjusted, indexVars>>

-----------------------------------------------------------------------------
(* Place and raise *)

dust_paid(slots, b) == recover_dust(slots, b)

\* What place and raise share: w pays x into pool k.
deposit_to_pool(w, r, k, x, paid) ==
    LET slots == PoolMap[<<r, k>>].slots
        b     == DepositBalance(release_balance(r, k), paid)
        dust  == recover_dust(slots, b)
        after == Pay(free, w, 0 - (paid - deducted_hold(hold[w], x)))
        m     == PoolManager[<<r, k>>]
    IN
    /\ release_succeeds(r, k)
    /\ DepositSucceeds(release_balance(r, k), paid)
    /\ recover_pool(r, k, slots, b, release_digests(r, k))
    /\ after[m] + dust <= MaxAsset
    /\ frozen[<<w, r>>] + paid <= MaxAsset
    /\ ReasonValue[r] - dust + paid <= MaxAsset
    /\ free' = Pay(after, m, dust_paid(slots, b))
    /\ hold' = [hold EXCEPT ![w] = @ - deducted_hold(hold[w], x)]
    /\ ReasonValue' = [ReasonValue EXCEPT ![r] = @ - dust + paid]
    /\ UNCHANGED <<AssetToIssue, AssetToReap, adjusted, indexVars, PoolManager>>

PlacePoolCommit(w, r, k, v, x, p) ==
    LET paid == deducted(free[w], hold[w], x) IN
    /\ ~ commit_exists(w, r)
    /\ pool_exists(r, k)
    /\ x # 0
    /\ deduct_succeeds(free[w], hold[w], x, p)
    /\ deposit_to_pool(w, r, k, x, paid)
    /\ frozen' = [frozen EXCEPT ![<<w, r>>] = paid]
    /\ CommitMap' = Insert(CommitMap, <<w, r>>,
            [digest |-> k, variant |-> v,
             commits |-> <<DepositReceipt(release_balance(r, k), paid)>>])

RaisePoolCommit(w, r, x, p) ==
    /\ commit_exists(w, r)
    /\ LET c    == CommitMap[<<w, r>>]
           paid == deducted(free[w], hold[w], x)
       IN
       /\ pool_exists(r, c.digest)
       /\ x # 0
       /\ deduct_succeeds(free[w], hold[w], x, p)
       /\ Len(c.commits) < MaxCommits
       /\ deposit_to_pool(w, r, c.digest, x, paid)
       /\ frozen' = [frozen EXCEPT ![<<w, r>>] = @ + paid]
       /\ CommitMap' = [CommitMap EXCEPT ![<<w, r>>].commits =
                Append(@, DepositReceipt(release_balance(r, c.digest), paid))]

-----------------------------------------------------------------------------
(* Resolve *)

\* The receipts of w, withdrawn from the released balance of its pool.
PoolWithdrawal(w, r) ==
    withdraw_from_digest(release_balance(r, CommitMap[<<w, r>>].digest), CommitMap[<<w, r>>].commits)

commission_of(pool, taken) == (taken * pool.commission) \div ACCURACY

\* deduct_from_imbalance: what a commission takes from a reward was never
\* reaped; the rest is counted as reaped before the proprietor is charged.
reaped_for(given, taken, fee) ==
    IF taken <= given THEN fee
    ELSE IF fee > taken - given THEN fee - (taken - given) ELSE 0

\* resolve_imbalance for the proprietor, after the commission.
pool_resolve_succeeds(given, taken, fee) ==
    LET own == taken - fee IN
    /\ AssetToReap + reaped_for(given, taken, fee) <= MaxAsset
    /\ own > given => AssetToIssue >= own - given
    /\ own < given => AssetToReap + reaped_for(given, taken, fee) >= given - own

\* Mutant: the total of the reason is not lowered by the commission.
leaves_reason_without_fee(taken, fee, dust) == taken - fee + dust

leaves_reason(taken, fee, dust) == taken + dust

ResolvePoolCommit(w, r) ==
    /\ commit_exists(w, r)
    /\ LET k     == CommitMap[<<w, r>>].digest
           out   == PoolWithdrawal(w, r)
           slots == PoolMap[<<r, k>>].slots
           dust  == recover_dust(slots, out.balance)
           m     == PoolManager[<<r, k>>]
           fee   == commission_of(PoolMap[<<r, k>>], out.taken)
           own   == out.taken - fee
           rich  == Pay(free, m, dust + fee)
       IN
       /\ pool_exists(r, k)
       /\ release_succeeds(r, k)
       /\ out.ok
       /\ out.given <= MaxAsset
       /\ out.taken * PoolMap[<<r, k>>].commission <= MaxAsset
       /\ recover_pool(r, k, slots, out.balance, release_digests(r, k))
       /\ pool_resolve_succeeds(out.given, out.taken, fee)
       /\ rich[m] <= MaxAsset
       /\ rich[w] + out.given <= MaxAsset
       /\ rich[w] + own <= MaxAsset
       /\ out.taken + dust <= ReasonValue[r]
       /\ free' = Pay(rich, w, own)
       /\ AssetToIssue' = IF own > out.given THEN AssetToIssue - (own - out.given) ELSE AssetToIssue
       /\ AssetToReap' = AssetToReap + reaped_for(out.given, out.taken, fee)
                             - (IF own < out.given THEN out.given - own ELSE 0)
       /\ ReasonValue' = [ReasonValue EXCEPT ![r] = @ - leaves_reason(out.taken, fee, dust)]
    /\ CommitMap' = Delete(CommitMap, <<w, r>>)
    /\ frozen' = [frozen EXCEPT ![<<w, r>>] = 0]
    /\ UNCHANGED <<hold, adjusted, indexVars, PoolManager>>

-----------------------------------------------------------------------------
(* Queries and checks *)

\* get_slot_value: what a slot's receipt is worth to the pool.
get_slot_value(r, k, d) ==
    LET pool == PoolMap[<<r, k>>] IN
    IF d \in InUse(pool) THEN ReceiptActiveValue(SlotBalance(r, pool, d), pool.slots[d].commit) ELSE 0

slot_quoted(r, k, d) ==
    LET pool == PoolMap[<<r, k>>] IN
    digest_exists(r, d) /\ WithdrawSucceeds(SlotBalance(r, pool, d), pool.slots[d].commit)

get_pool_value(r, k) ==
    Least(SumFunction([d \in DOMAIN PoolMap[<<r, k>>].slots |-> get_slot_value(r, k, d)]), MaxAsset)

\* pool_commit_value is an error when the sum of the slots does not fit or when
\* a slot does not answer; where the first slot is the one that is not funded
\* it answers zero at once.  Neither is a quote.
pool_quoted(w, r) ==
    LET k    == CommitMap[<<w, r>>].digest
        b    == PoolMap[<<r, k>>].balance
        paid == get_pool_value(r, k)
    IN
    /\ \A d \in DOMAIN PoolMap[<<r, k>>].slots : slot_quoted(r, k, d)
    /\ SumFunction([d \in DOMAIN PoolMap[<<r, k>>].slots |-> get_slot_value(r, k, d)]) <= MaxAsset
    /\ paid > TotalValue(b) => MintSucceeds(b, paid - TotalValue(b))
    /\ paid < TotalValue(b) => ReapSucceeds(b, TotalValue(b) - paid)
    /\ withdraw_from_digest(adjust_balance(b, paid), CommitMap[<<w, r>>].commits).ok

\* Mutant: the balance is not brought to what the slots are worth.
pool_commit_value_stale(w, r) ==
    withdraw_from_digest(PoolMap[<<r, CommitMap[<<w, r>>].digest>>].balance, CommitMap[<<w, r>>].commits).taken

\* The pool is valued as a withdrawal would find it: the slots' worth brings its
\* balance up or down, and the receipts are withdrawn from a copy of that.
pool_commit_value(w, r) ==
    LET k == CommitMap[<<w, r>>].digest IN
    withdraw_from_digest(adjust_balance(PoolMap[<<r, k>>].balance, get_pool_value(r, k)),
                         CommitMap[<<w, r>>].commits).taken

\* pool_slot_commit_value: the part of it that lies in slot d.
pool_slot_commit_value(w, r, d) ==
    entry_deposit(PoolMap[<<r, CommitMap[<<w, r>>].digest>>].slots, d, pool_commit_value(w, r))

\* The check looks at the balance of the pool as it was left.
can_resolve_pool_commit(w, r) ==
    can_withdraw_all(PoolMap[<<r, CommitMap[<<w, r>>].digest>>].balance, CommitMap[<<w, r>>].commits)

-----------------------------------------------------------------------------

PoolStep ==
    \/ \E r \in Reasons, k \in Pools :
        \/ \E w \in Who :
            \/ SetPoolManager(w, r, k)
            \/ \E i \in Indexes, c \in Commissions : SetPool(w, r, k, i, c)
            \/ \E v \in Positions, x \in Amounts, p \in Policies :
                  PlacePoolCommit(w, r, k, v, x, p)
        \/ \E d \in Digests :
            \/ RemovePoolSlot(r, k, d)
            \/ \E s \in ShareValues, v \in Positions :
                  SetPoolSlot(r, k, d, [shares |-> s, variant |-> v])
        \/ ReapPool(r, k)
    \/ \E w \in Who, r \in Reasons :
        \/ ResolvePoolCommit(w, r)
        \/ \E x \in Amounts, p \in Policies : RaisePoolCommit(w, r, x, p)

\* Beside pools there are direct commitments here, but indexes only as what
\* pools are made of; commitments to indexes are CommitIndex's.
PoolNext ==
    \/ PoolStep
    \/ Next /\ UNCHANGED <<indexVars, poolVars>>
    \/ \E r \in Reasons, i \in Indexes, D \in SUBSET Digests :
        \E entries \in [D -> [shares : ShareValues, variant : Positions]] :
            SetIndex(r, i, entries) /\ UNCHANGED poolVars

PoolSpec == PoolInit /\ [][PoolNext]_<<vars, indexVars, poolVars>>

-----------------------------------------------------------------------------
(* Properties *)

Slot == [shares : 1 .. MaxShares, variant : Positions, commit : Receipts]

PoolSlots == UNION {[D -> Slot] : D \in SUBSET Digests}

\* The storage of pools stays within the widths and bounds of its types.
PoolTypeOK ==
    /\ DOMAIN PoolMap \subseteq Reasons \X Pools
    /\ \A x \in DOMAIN PoolMap :
          /\ PoolMap[x] \in [balance : Balances, commission : Commissions, slots : PoolSlots]
          /\ Entries_valid(PoolMap[x].slots)
    /\ DOMAIN PoolManager = DOMAIN PoolMap
    /\ free \in [Who -> Assets]
    /\ AssetToIssue \in Assets
    /\ AssetToReap \in Assets
    /\ ReasonValue \in [Reasons -> Assets]

\* The shares of a pool are those of the commitments to it, through every
\* release, recovery and change of slots; a pool that is gone has none, so
\* reap_pool strands nobody.
PoolShares ==
    \A r \in Reasons, k \in Pools :
        LET mine == {x \in DOMAIN CommitMap : x[2] = r /\ CommitMap[x].digest = k}
            shares(c) == SumFunction([n \in DOMAIN c |-> c[n].shares])
        IN  SumFunction([x \in mine |-> shares(CommitMap[x].commits)])
                = IF pool_exists(r, k) THEN PoolMap[<<r, k>>].balance.issued ELSE 0

\* What a pool believes to hold is what it paid into its slots: dust that went
\* to the manager is not promised to the depositors a second time.
PoolInvested ==
    \A x \in DOMAIN PoolMap :
        TotalValue(PoolMap[x].balance) =
            SumFunction([d \in DOMAIN PoolMap[x].slots |-> PoolMap[x].slots[d].commit.principal])

SlotSharesIn(r, d, v) ==
    LET mine == {x \in DOMAIN PoolMap :
                    /\ x[1] = r /\ d \in DOMAIN PoolMap[x].slots
                    /\ PoolMap[x].slots[d].variant = v}
    IN  SumFunction([x \in mine |-> PoolMap[x].slots[d].commit.shares])

\* Direct commitments, entries and slots share the digests: together their
\* receipts hold all the shares of each, also while pools move in and out.
PoolReceiptsHoldShares ==
    \A r \in Reasons, d \in Digests, v \in Positions :
        DigestInfo(r, d)[v].issued =
            SharesIn(r, d, v) + EntrySharesIn(r, d, v) + SlotSharesIn(r, d, v)

\* Every share is somebody's, in the pools and in the digests.
SharesOwned == PoolShares /\ PoolReceiptsHoldShares

CommittedTo(r, k) == {w \in Who : commit_exists(w, r) /\ CommitMap[<<w, r>>].digest = k}

\* What a pool quotes without moving anything is what a withdrawal then finds by
\* releasing every slot; the quotes of all who are committed, and the parts that
\* lie in the slots, add up to no more than the whole; and the check on the
\* balance as it was left lets through what the released one pays.
PoolQuotes ==
    \A x \in DOMAIN PoolMap :
        LET r == x[1]
            k == x[2]
            asked == {w \in CommittedTo(r, k) : pool_quoted(w, r)}
        IN
        /\ \A w \in asked :
              /\ PoolWithdrawal(w, r).ok => PoolWithdrawal(w, r).taken = pool_commit_value(w, r)
              /\ SumFunction([d \in DOMAIN PoolMap[x].slots |-> pool_slot_commit_value(w, r, d)])
                    <= pool_commit_value(w, r)
        /\ SumFunction([w \in asked |-> pool_commit_value(w, r)]) <= get_pool_value(r, k)
        /\ \A w \in CommittedTo(r, k) :
              release_succeeds(r, k) /\ PoolWithdrawal(w, r).ok => can_resolve_pool_commit(w, r)

-----------------------------------------------------------------------------
(* The inductive invariant *)

\* A slot that is in use has a receipt that paid something, at a price, and has
\* shares, and a pool that was never paid into uses none.
SlotsCount ==
    \A x \in DOMAIN PoolMap :
        /\ PoolMap[x].balance = FreshBalance => InUse(PoolMap[x]) = {}
        /\ \A d \in InUse(PoolMap[x]) :
              /\ PoolMap[x].slots[d].commit.shares # 0 /\ PoolMap[x].slots[d].commit.principal # 0
              /\ PoolMap[x].slots[d].commit.bias # 0

PoolInv ==
    /\ StoredTypes(Digests \cup Pools)
    /\ IndexTypeOK /\ EntryMap = EmptyMap
    /\ PoolTypeOK
    /\ \A x \in DOMAIN PoolMap : PoolManager[x] \in Who /\ SoundBalance(PoolMap[x].balance)
    /\ BalancesSound
    /\ DirectBacked
    /\ SlotsCount
    /\ SharesOwned
    /\ PoolInvested
    /\ Books

=============================================================================
