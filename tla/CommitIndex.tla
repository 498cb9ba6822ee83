---------------------------- MODULE CommitIndex ----------------------------
(***************************************************************************)
(* Indexes of pallet-commitment.  An index names digests with shares; a    *)
(* commitment to it is split over its entries and the proprietor keeps one *)
(* list of receipts per entry in EntryMap.  The entries of an index never  *)
(* change: changing a share makes a new index.                             *)
(*                                                                         *)
(* The entries have distinct digests, so that the order in which the code  *)
(* walks them shows nowhere: they are a function from digests.  The id of  *)
(* an index is a hash and meets no other id.                               *)
(***************************************************************************)
EXTENDS Commitment

CONSTANTS Indexes,          \* ids of indexes
          ShareValues,      \* shares an entry may be given
          MaxShares,        \* largest T::Shares
          MaxIndexEntries   \* T::MaxIndexEntries

ASSUME CommitIndexAssumption ==
    /\ Indexes \cap Digests = {}
    /\ MaxShares \in Nat
    /\ ShareValues \subseteq 1 .. MaxShares
    /\ MaxIndexEntries \in Nat \ {0}

\* Ids are hashes of a fixed width.
ASSUME IndexesFinite == IsFiniteSet(Indexes)

VARIABLES
    IndexMap,   \* reason, index -> principal, entries
    EntryMap    \* reason, index, digest, who -> receipts

indexVars == <<IndexMap, EntryMap>>

index_exists(r, i) == <<r, i>> \in DOMAIN IndexMap

Entry == [shares : 1 .. MaxShares, variant : Positions]

Capital(entries) == SumFunction([d \in DOMAIN entries |-> entries[d].shares])

\* Entries::new and IndexInfo::new.
Entries_valid(entries) ==
    /\ DOMAIN entries # {}
    /\ Cardinality(DOMAIN entries) <= MaxIndexEntries
    /\ Capital(entries) <= MaxShares

IndexInit ==
    /\ Init
    /\ IndexMap = EmptyMap
    /\ EntryMap = EmptyMap

-----------------------------------------------------------------------------
(* Setting up *)

\* prepare_index (of variants) and set_index.
SetIndex(r, i, entries) ==
    /\ ~ index_exists(r, i)
    /\ \A d \in DOMAIN entries : digest_exists(r, d)
    /\ Entries_valid(entries)
    /\ IndexMap' = Insert(IndexMap, <<r, i>>, [principal |-> 0, entries |-> entries])
    /\ UNCHANGED <<vars, EntryMap>>

\* An entry that is there is removed first, which the only entry cannot be.
Removable(entries, d) == Cardinality(DOMAIN entries) > 1 /\ d \in DOMAIN entries

\* remove_index_entry: the index j has the entries of i but one.
RemoveIndexEntry(r, i, j, d) ==
    /\ index_exists(r, i)
    /\ ~ index_exists(r, j)
    /\ LET entries == IndexMap[<<r, i>>].entries IN
       /\ Removable(entries, d)
       /\ IndexMap' = Insert(IndexMap, <<r, j>>,
                             [principal |-> 0, entries |-> Delete(entries, d)])
    /\ UNCHANGED <<vars, EntryMap>>

\* set_index_entry, behind set_entry_shares (which keeps the variant of an
\* entry that is there) and set_entry_of_variant.
SetIndexEntry(r, i, j, d, e) ==
    /\ index_exists(r, i)
    /\ ~ index_exists(r, j)
    /\ LET old == IndexMap[<<r, i>>].entries
           new == Insert(old, d, e)
       IN
       /\ Removable(old, d) \/ (d \notin DOMAIN old /\ digest_exists(r, d))
       /\ Entries_valid(new)
       /\ IndexMap' = Insert(IndexMap, <<r, j>>, [principal |-> 0, entries |-> new])
    /\ UNCHANGED <<vars, EntryMap>>

HasNoCommits(r, i) ==
    \A x \in DOMAIN EntryMap : <<x[1], x[2]>> # <<r, i>>

ReapIndex(r, i) ==
    /\ index_exists(r, i)
    /\ IndexMap[<<r, i>>].principal = 0
    /\ HasNoCommits(r, i)
    /\ IndexMap' = Delete(IndexMap, <<r, i>>)
    /\ UNCHANGED <<vars, EntryMap>>

-----------------------------------------------------------------------------
(* Place and raise *)

\* What an entry gets of x, before the cut to whole units.
entry_fixed(entries, d, x) ==
    fixed_mul(saturating_from_integer(x), from_rational(entries[d].shares, Capital(entries)))

\* The whole units; an entry that would get less than one is skipped.
entry_deposit(entries, d, x) == entry_fixed(entries, d, x) \div DIV

funded(entries, x) == {d \in DOMAIN entries : entry_deposit(entries, d, x) # 0}

\* Mutant: the commitment counts what was offered.
index_offered(entries, x) == x

index_actual(entries, x) ==
    SumFunction([d \in DOMAIN entries |-> entry_deposit(entries, d, x)])

refund(paid, actual) == paid - actual

EntryCommits(r, i, d, w) ==
    IF <<r, i, d, w>> \in DOMAIN EntryMap THEN EntryMap[<<r, i, d, w>>] ELSE <<>>

\* Each funded entry takes its part into its own digest and variant.
deposit_to_index(w, r, i, paid) ==
    LET entries == IndexMap[<<r, i>>].entries
        getting == funded(entries, paid)
        part(d) == entry_deposit(entries, d, paid)
        bal(d)  == DigestMap[<<r, d>>][entries[d].variant]
        mine    == {<<r, i, d, w>> : d \in getting}
    IN
    /\ \A d \in DOMAIN entries : Fits(entry_fixed(entries, d, paid))
    /\ \A d \in getting :
          /\ digest_exists(r, d)
          /\ DepositSucceeds(bal(d), part(d))
          /\ Len(EntryCommits(r, i, d, w)) < MaxCommits
    /\ IndexMap[<<r, i>>].principal + index_actual(entries, paid) <= MaxAsset
    /\ DigestMap' = [x \in DOMAIN DigestMap |->
            IF x[1] = r /\ x[2] \in getting
            THEN [DigestMap[x] EXCEPT ![entries[x[2]].variant] =
                     DepositBalance(bal(x[2]), part(x[2]))]
            ELSE DigestMap[x]]
    /\ EntryMap' = [x \in DOMAIN EntryMap \cup mine |->
            IF x \in mine
            THEN Append(EntryCommits(r, i, x[3], w), DepositReceipt(bal(x[3]), part(x[3])))
            ELSE EntryMap[x]]
    /\ IndexMap' = [IndexMap EXCEPT ![<<r, i>>].principal = @ + index_actual(entries, paid)]

\* What place and raise share: w pays x and gets back what could not be split;
\* `actual` is the rest.
commit_to_index(w, r, i, x, actual) ==
    LET paid == deducted(free[w], hold[w], x) IN
    /\ actual = index_actual(IndexMap[<<r, i>>].entries, paid)
    /\ deposit_to_index(w, r, i, paid)
    /\ frozen[<<w, r>>] + actual <= MaxAsset
    /\ ReasonValue[r] + actual <= MaxAsset
    /\ free[w] - (paid - deducted_hold(hold[w], x)) + refund(paid, actual) <= MaxAsset
    /\ free' = [free EXCEPT ![w] = @ - (paid - deducted_hold(hold[w], x))
                                    + refund(paid, actual)]
    /\ hold' = [hold EXCEPT ![w] = @ - deducted_hold(hold[w], x)]
    /\ ReasonValue' = [ReasonValue EXCEPT ![r] = @ + actual]
    /\ UNCHANGED <<AssetToIssue, AssetToReap, adjusted>>

\* The commitment itself records a default receipt.  Freezing nothing is a
\* thaw, which fails where nothing is frozen: some entry must be funded.
PlaceIndexCommit(w, r, i, v, x, p) ==
    /\ ~ commit_exists(w, r)
    /\ index_exists(r, i)
    /\ x # 0
    /\ deduct_succeeds(free[w], hold[w], x, p)
    /\ LET actual == index_actual(IndexMap[<<r, i>>].entries, deducted(free[w], hold[w], x)) IN
       /\ actual # 0
       /\ commit_to_index(w, r, i, x, actual)
       /\ frozen' = [frozen EXCEPT ![<<w, r>>] = actual]
    /\ CommitMap' = Insert(CommitMap, <<w, r>>,
                           [digest |-> i, variant |-> v, commits |-> <<NoReceipt>>])

RaiseIndexCommit(w, r, x, p) ==
    /\ commit_exists(w, r)
    /\ LET c      == CommitMap[<<w, r>>]
           actual == index_actual(IndexMap[<<r, c.digest>>].entries, deducted(free[w], hold[w], x))
       IN
       /\ index_exists(r, c.digest)
       /\ x # 0
       /\ deduct_succeeds(free[w], hold[w], x, p)
       /\ Len(c.commits) < MaxCommits
       /\ commit_to_index(w, r, c.digest, x, actual)
       /\ frozen' = [frozen EXCEPT ![<<w, r>>] = @ + actual]
       /\ CommitMap' = [CommitMap EXCEPT ![<<w, r>>].commits = Append(@, NoReceipt)]

-----------------------------------------------------------------------------
(* Resolve *)

\* Mutant: only the first receipt of an entry is withdrawn.
EntryWithdrawalFirst(w, r, i, d) ==
    withdraw_from_digest(DigestMap[<<r, d>>][IndexMap[<<r, i>>].entries[d].variant],
                         <<EntryMap[<<r, i, d, w>>][1]>>)

\* The withdrawal from one entry.
EntryWithdrawal(w, r, i, d) ==
    withdraw_from_digest(DigestMap[<<r, d>>][IndexMap[<<r, i>>].entries[d].variant],
                         EntryMap[<<r, i, d, w>>])

\* withdraw_from_index asks every entry of the index for receipts of w.
withdraws_from_index(w, r, i) ==
    \A d \in DOMAIN IndexMap[<<r, i>>].entries :
        /\ <<r, i, d, w>> \in DOMAIN EntryMap
        /\ digest_exists(r, d)
        /\ EntryWithdrawal(w, r, i, d).ok

IndexGiven(w, r, i) ==
    SumFunction([d \in DOMAIN IndexMap[<<r, i>>].entries |-> EntryWithdrawal(w, r, i, d).given])

IndexTaken(w, r, i) ==
    SumFunction([d \in DOMAIN IndexMap[<<r, i>>].entries |-> EntryWithdrawal(w, r, i, d).taken])

\* Mutant: the principal of the index is lowered by what is paid out.
principal_less_taken(principal, given, taken) == IF taken <= principal THEN principal - taken ELSE 0

principal_after(principal, given, taken) == principal - given

ResolveIndexCommit(w, r) ==
    /\ commit_exists(w, r)
    /\ LET i     == CommitMap[<<w, r>>].digest
           given == IndexGiven(w, r, i)
           taken == IndexTaken(w, r, i)
       IN
       /\ index_exists(r, i)
       /\ withdraws_from_index(w, r, i)
       /\ given <= IndexMap[<<r, i>>].principal
       /\ taken <= MaxAsset
       /\ resolve_succeeds(free[w], given, taken)
       /\ taken <= ReasonValue[r]
       /\ DigestMap' = [x \in DOMAIN DigestMap |->
            IF x[1] = r /\ x[2] \in DOMAIN IndexMap[<<r, i>>].entries
            THEN [DigestMap[x] EXCEPT ![IndexMap[<<r, i>>].entries[x[2]].variant] =
                     EntryWithdrawal(w, r, i, x[2]).balance]
            ELSE DigestMap[x]]
       /\ EntryMap' = [x \in {y \in DOMAIN EntryMap : <<y[1], y[2], y[4]>> # <<r, i, w>>} |->
                          EntryMap[x]]
       /\ IndexMap' = [IndexMap EXCEPT ![<<r, i>>].principal = principal_after(@, given, taken)]
       /\ free' = [free EXCEPT ![w] = @ + taken]
       /\ resolve_imbalance(given, taken)
       /\ ReasonValue' = [ReasonValue EXCEPT ![r] = @ - taken]
    /\ CommitMap' = Delete(CommitMap, <<w, r>>)
    /\ frozen' = [frozen EXCEPT ![<<w, r>>] = 0]
    /\ UNCHANGED <<hold, adjusted>>

-----------------------------------------------------------------------------
(* Queries and checks *)

EntryBalance(r, i, d) == DigestMap[<<r, d>>][IndexMap[<<r, i>>].entries[d].variant]

\* index_entry_commit_value, and whether it goes through.
entry_quoted(w, r, i, d) ==
    /\ <<r, i, d, w>> \in DOMAIN EntryMap
    /\ digest_exists(r, d)
    /\ quoted(EntryBalance(r, i, d), EntryMap[<<r, i, d, w>>])

index_entry_commit_value(w, r, i, d) == quote(EntryBalance(r, i, d), EntryMap[<<r, i, d, w>>])

\* index_commit_value: every entry must answer.
index_quoted(w, r, i) == \A d \in DOMAIN IndexMap[<<r, i>>].entries : entry_quoted(w, r, i, d)

\* Mutant: an entry counts with its digest's whole value.
index_digest_value(w, r, i) ==
    SumFunction([d \in DOMAIN IndexMap[<<r, i>>].entries |-> TotalValue(EntryBalance(r, i, d))])

index_commit_value(w, r, i) ==
    SumFunction([d \in DOMAIN IndexMap[<<r, i>>].entries |-> index_entry_commit_value(w, r, i, d)])

\* Those who hold receipts of an entry.
EntryHolders(r, i, d) == {w \in Who : <<r, i, d, w>> \in DOMAIN EntryMap}

\* get_entry_value: what entry d holds for everybody through index i.
get_entry_value(r, i, d) ==
    Least(SumFunction([w \in EntryHolders(r, i, d) |-> index_entry_commit_value(w, r, i, d)]),
          MaxAsset)

\* can_resolve_commit passes over an entry that was too small to be funded.
can_resolve_index_commit(w, r, i) ==
    /\ index_exists(r, i)
    /\ \A d \in DOMAIN IndexMap[<<r, i>>].entries :
          <<r, i, d, w>> \in DOMAIN EntryMap =>
              /\ digest_exists(r, d)
              /\ can_withdraw_all(EntryBalance(r, i, d), EntryMap[<<r, i, d, w>>])

-----------------------------------------------------------------------------

IndexStep ==
    \/ \E r \in Reasons, i \in Indexes :
        \/ \E D \in SUBSET Digests :
              \E entries \in [D -> [shares : ShareValues, variant : Positions]] :
                  SetIndex(r, i, entries)
        \/ \E j \in Indexes, d \in Digests :
              \/ RemoveIndexEntry(r, i, j, d)
              \/ \E s \in ShareValues, v \in Positions :
                    SetIndexEntry(r, i, j, d, [shares |-> s, variant |-> v])
        \/ ReapIndex(r, i)
        \/ \E w \in Who, v \in Positions, x \in Amounts, p \in Policies :
              PlaceIndexCommit(w, r, i, v, x, p)
    \/ \E w \in Who, r \in Reasons :
        \/ ResolveIndexCommit(w, r)
        \/ \E x \in Amounts, p \in Policies : RaiseIndexCommit(w, r, x, p)

IndexNext == IndexStep \/ (Next /\ UNCHANGED indexVars)

IndexSpec == IndexInit /\ [][IndexNext]_<<vars, indexVars>>

-----------------------------------------------------------------------------
(* Properties *)

IndexEntries == UNION {[D -> Entry] : D \in SUBSET Digests}

\* The storage of indexes stays within the widths and bounds of its types.
IndexTypeOK ==
    /\ DOMAIN IndexMap \subseteq Reasons \X Indexes
    /\ \A x \in DOMAIN IndexMap :
          /\ IndexMap[x] \in [principal : Assets, entries : IndexEntries]
          /\ Entries_valid(IndexMap[x].entries)
    /\ DOMAIN EntryMap \subseteq Reasons \X Indexes \X Digests \X Who
    /\ \A x \in DOMAIN EntryMap :
          EntryMap[x] \in Seq(Receipts) /\ Len(EntryMap[x]) \in 1 .. MaxCommits
    /\ free \in [Who -> Assets]
    /\ ReasonValue \in [Reasons -> Assets]

PrincipalsOver(S) == SumFunction([x \in S |-> Principals(EntryMap[x])])

\* The principal an index records is what its entries' receipts were paid for:
\* reap_index relies on it to see that nobody is committed any more.
IndexPrincipals ==
    \A x \in DOMAIN IndexMap :
        IndexMap[x].principal =
            PrincipalsOver({y \in DOMAIN EntryMap : <<y[1], y[2]>> = x})

\* A commitment to an index freezes what its entries took, not what was
\* offered: the remainder of the split is liquid again.
IndexFrozen ==
    \A w \in Who, r \in Reasons :
        frozen[<<w, r>>] = DepositOf(w, r)
            + PrincipalsOver({y \in DOMAIN EntryMap : y[1] = r /\ y[4] = w})

\* The books of index commitments beside direct ones (and, in the pallet with
\* pools, beside those): what is frozen is what was taken, the total of the
\* reason is the value of its digests, and no value appears or disappears.
Books == IndexFrozen /\ ReasonTotals /\ Conservation

\* Every receipt of an entry belongs to a commitment that still names the index,
\* and the index still names the entry: nothing a proprietor paid is orphaned.
EntriesOwned ==
    \A x \in DOMAIN EntryMap :
        /\ commit_exists(x[4], x[1])
        /\ CommitMap[<<x[4], x[1]>>].digest = x[2]
        /\ index_exists(x[1], x[2])
        /\ x[3] \in DOMAIN IndexMap[<<x[1], x[2]>>].entries

EntrySharesIn(r, d, v) ==
    LET mine == {x \in DOMAIN EntryMap :
                    /\ x[1] = r /\ x[3] = d
                    /\ IndexMap[<<r, x[2]>>].entries[d].variant = v}
        shares(c) == SumFunction([n \in DOMAIN c |-> c[n].shares])
    IN  SumFunction([x \in mine |-> shares(EntryMap[x])])

\* Nothing paid through an index is lost track of.
EntriesAccounted == IndexPrincipals /\ EntriesOwned

\* Direct commitments and entries of indexes share the digests: together their
\* receipts hold all the shares of each, so that neither can redeem the other's.
IndexReceiptsHoldShares ==
    \A r \in Reasons, d \in Digests, v \in Positions :
        DigestInfo(r, d)[v].issued = SharesIn(r, d, v) + EntrySharesIn(r, d, v)

\* What an index quotes is there and is paid: whoever resolves gets at least
\* what index_commit_value said, and what the entries of all indexes and the
\* direct commitments are told a digest is worth to them adds up to no more
\* than the digest, as everyone's receipts are valued as if withdrawn first.
IndexQuotes ==
    /\ \A x \in DOMAIN CommitMap :
          LET i == CommitMap[x].digest IN
          index_exists(x[2], i) /\ withdraws_from_index(x[1], x[2], i) =>
              /\ index_quoted(x[1], x[2], i)
              /\ IndexTaken(x[1], x[2], i) >= index_commit_value(x[1], x[2], i)
    /\ \A y \in DOMAIN DigestMap :
          LET r == y[1]
              d == y[2]
              direct  == {w \in Who : commit_exists(w, r) /\ CommitMap[<<w, r>>].digest = d}
              indexes == {i \in Indexes : index_exists(r, i) /\ d \in DOMAIN IndexMap[<<r, i>>].entries}
          IN  /\ \A w \in direct : quoted(DigestMap[y][CommitMap[<<w, r>>].variant], CommitMap[<<w, r>>].commits)
              /\ \A i \in indexes : \A w \in EntryHolders(r, i, d) : entry_quoted(w, r, i, d)
              => SumFunction([w \in direct |-> CommitValue(w, r)])
                    + SumFunction([i \in indexes |-> get_entry_value(r, i, d)])
                    <= Values(DigestMap[y])

\* Skipping an entry too small for the deposit is "expected" (the comment in
\* deposit_to_index), and can_resolve_commit passes over it: a commitment that
\* it lets through is not refused for want of receipts.
SkippedEntryWithdraws ==
    \A x \in DOMAIN CommitMap :
        LET i == CommitMap[x].digest IN
        can_resolve_index_commit(x[1], x[2], i) =>
            \A d \in DOMAIN IndexMap[<<x[2], i>>].entries : <<x[2], i, d, x[1]>> \in DOMAIN EntryMap

-----------------------------------------------------------------------------
(* The inductive invariant *)

\* The storage that indexes and pools share with direct commitments, where a
\* commitment may name one of ids.
StoredTypes(ids) ==
    /\ free \in [Who -> Assets]
    /\ hold \in [Who -> Assets]
    /\ frozen \in [Who \X Reasons -> Assets]
    /\ DOMAIN DigestMap \subseteq Reasons \X Digests
    /\ \A x \in DOMAIN DigestMap : DigestMap[x] \in [Positions -> Balances]
    /\ DOMAIN CommitMap \subseteq Who \X Reasons
    /\ \A x \in DOMAIN CommitMap :
          /\ CommitMap[x] \in [digest : ids, variant : Positions, commits : Seq(Receipts)]
          /\ Len(CommitMap[x].commits) \in 1 .. MaxCommits
    /\ AssetToIssue \in Assets
    /\ AssetToReap \in Assets
    /\ ReasonValue \in [Reasons -> Assets]
    /\ adjusted \in Int

\* A direct commitment has receipts with shares of a digest that is there.
DirectBacked ==
    \A x \in DOMAIN CommitMap : CommitMap[x].digest \in Digests =>
        /\ digest_exists(x[2], CommitMap[x].digest)
        /\ \A n \in DOMAIN CommitMap[x].commits : CommitMap[x].commits[n].shares # 0

\* A commitment to an index has its receipts in EntryMap, all with shares, and
\* none of its own.
EntriesCount ==
    /\ \A x \in DOMAIN CommitMap : CommitMap[x].digest \in Indexes =>
          \A n \in DOMAIN CommitMap[x].commits : CommitMap[x].commits[n] = NoReceipt
    /\ \A x \in DOMAIN EntryMap : \A n \in DOMAIN EntryMap[x] : EntryMap[x][n].shares # 0

IndexInv ==
    /\ StoredTypes(Digests \cup Indexes)
    /\ IndexTypeOK
    /\ BalancesSound
    /\ DirectBacked
    /\ EntriesCount
    /\ EntriesAccounted
    /\ Books
    /\ IndexReceiptsHoldShares

=============================================================================
