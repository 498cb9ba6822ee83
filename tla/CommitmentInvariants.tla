------------------------- MODULE CommitmentInvariants -------------------------
(***************************************************************************)
(* The vocabulary of CommitmentProofs: what the inductive invariants of    *)
(* direct commitments, indexes and pools consist of, and what one step     *)
(* does to the state they are about.                                       *)
(***************************************************************************)
EXTENDS CommitPool

-----------------------------------------------------------------------------
(* The part of the pallet that direct commitments see                      *)
(*                                                                         *)
(* Commitments to indexes and pools use the digests as well.  To a call    *)
(* about a direct commitment they are what o says: the ids commitments may *)
(* name, the shares others hold of every variant of a digest, what is      *)
(* frozen of a proprietor beside its receipts, and by how much the value   *)
(* of the digests differs from what the receipts and counters say.  No     *)
(* such call changes any of it.                                            *)

OthersTyped(o) ==
    /\ Digests \subseteq o.ids
    /\ \A r \in Reasons, d \in Digests, v \in Positions : o.shares[<<r, d, v>>] \in Nat
    /\ \A w \in Who, r \in Reasons : o.frozen[<<w, r>>] \in Nat
    /\ o.gap \in Int

CoreInfos(o) == [digest : o.ids, variant : Positions, commits : Seq(Receipts)]

CoreTypes(o) ==
    /\ OthersTyped(o)
    /\ free \in [Who -> Assets]
    /\ hold \in [Who -> Assets]
    /\ frozen \in [Who \X Reasons -> Assets]
    /\ DOMAIN DigestMap \subseteq Reasons \X Digests
    /\ \A x \in DOMAIN DigestMap : DigestMap[x] \in [Positions -> Balances]
    /\ DOMAIN CommitMap \subseteq Who \X Reasons
    /\ \A x \in DOMAIN CommitMap :
          CommitMap[x] \in CoreInfos(o) /\ Len(CommitMap[x].commits) \in 1 .. MaxCommits
    /\ AssetToIssue \in Assets
    /\ AssetToReap \in Assets
    /\ ReasonValue \in [Reasons -> Assets]
    /\ adjusted \in Int

\* The commitment of w for r is a direct one, if there is one.
Directly(w, r) == commit_exists(w, r) => CommitMap[<<w, r>>].digest \in Digests

\* No receipt of a direct commitment is without shares.
DirectCount ==
    \A x \in DOMAIN CommitMap : CommitMap[x].digest \in Digests =>
        \A n \in DOMAIN CommitMap[x].commits : CommitMap[x].commits[n].shares # 0

CoreFrozen(o) ==
    \A w \in Who, r \in Reasons :
        /\ frozen[<<w, r>>] = DepositOf(w, r) + o.frozen[<<w, r>>]
        /\ Directly(w, r) => o.frozen[<<w, r>>] = 0

CoreEquilibrium(o) == TotalDigestValue = TotalDeposit + AssetToIssue - AssetToReap + o.gap

CoreBooks(o) == CoreFrozen(o) /\ CoreEquilibrium(o) /\ ReasonTotals /\ Conservation

\* Every direct commitment is backed by a digest that exists, and the shares of a
\* digest are those of the direct commitments and of the others.
CoreHeld(o) ==
    /\ \A x \in DOMAIN CommitMap :
          CommitMap[x].digest \in Digests => digest_exists(x[2], CommitMap[x].digest)
    /\ \A r \in Reasons, d \in Digests, v \in Positions :
          DigestInfo(r, d)[v].issued = SharesIn(r, d, v) + o.shares[<<r, d, v>>]

CoreInv(o) == CoreTypes(o) /\ BalancesSound /\ DirectCount /\ CoreBooks(o) /\ CoreHeld(o)

-----------------------------------------------------------------------------
(* The totals of digests and of commitments *)

\* What changes when one digest does: only it.
DigestPut(r, d, info) ==
    /\ DigestInfo(r, d)' = info
    /\ \A s \in Reasons, e \in Digests : s # r \/ e # d => DigestInfo(s, e)' = DigestInfo(s, e)

\* The commitments of everybody else, and of w for other reasons, stay.
OthersKeep(w, r) ==
    \A y \in Who, s \in Reasons : y # w \/ s # r =>
        /\ commit_exists(y, s)' <=> commit_exists(y, s)
        /\ commit_exists(y, s) => CommitMap'[<<y, s>>] = CommitMap[<<y, s>>]

-----------------------------------------------------------------------------
(* A step of one commitment *)

\* The commitment of w for r is to digest d, if there is one.
CommitsTo(w, r, d) == commit_exists(w, r) => CommitMap[<<w, r>>].digest = d

\* w's commitment for r, to digest d, changes together with the balances of the
\* digest, which become info and gain the value k that w pays.
CommitmentMoves(w, r, d, info, k) ==
    /\ DigestMap' = Insert(DigestMap, <<r, d>>, info)
    /\ \A v \in Positions : info[v].issued = DigestInfo(r, d)[v].issued
                                + SharesOf(w, r, d, v)' - SharesOf(w, r, d, v)
    /\ Values(info) = Values(DigestInfo(r, d)) + k
    /\ OthersKeep(w, r)
    /\ CommitsTo(w, r, d) /\ CommitsTo(w, r, d)'
    /\ DOMAIN CommitMap' \subseteq Who \X Reasons
    /\ commit_exists(w, r)' =>
          /\ CommitMap'[<<w, r>>] \in CommitInfos
          /\ Len(CommitMap'[<<w, r>>].commits) \in 1 .. MaxCommits
          /\ \A n \in DOMAIN CommitMap'[<<w, r>>].commits :
                CommitMap'[<<w, r>>].commits[n].shares # 0
    /\ DepositOf(w, r)' \in Assets
    /\ frozen' = [frozen EXCEPT ![<<w, r>>] = DepositOf(w, r)']
    /\ ReasonValue' \in [Reasons -> Assets] /\ ReasonValue' = [ReasonValue EXCEPT ![r] = @ + k]
    /\ free' \in [Who -> Assets] /\ \A y \in Who \ {w} : free'[y] = free[y]
    /\ hold' \in [Who -> Assets] /\ \A y \in Who \ {w} : hold'[y] = hold[y]
    /\ free'[w] + hold'[w] + k = free[w] + hold[w]
    /\ AssetToIssue' \in Assets /\ AssetToReap' \in Assets
    /\ AssetToIssue' - AssetToReap' + DepositOf(w, r)'
           = AssetToIssue - AssetToReap + DepositOf(w, r) + k
    /\ UNCHANGED adjusted

-----------------------------------------------------------------------------
(* Place and raise *)

\* What a deposit into one variant of a digest makes of its balances, and the
\* receipt for it.
InfoWith(old, v, paid) == [old EXCEPT ![v] = DepositBalance(old[v], paid)]

ReceiptFor(old, v, paid) == DepositReceipt(old[v], paid)

Deposited(old, v, paid, info, c) ==
    /\ info \in [Positions -> Balances] /\ \A u \in Positions : SoundBalance(info[u])
    /\ info[v].issued = old[v].issued + c.shares
    /\ \A u \in Positions \ {v} : info[u] = old[u]
    /\ Values(info) = Values(old) + paid
    /\ c \in Receipts /\ c.principal = paid /\ c.shares # 0

-----------------------------------------------------------------------------
(* Resolve *)

\* What comes back, and what the withdrawal leaves of the digest.
InfoLeft(old, v, b) == [old EXCEPT ![v] = b]

Resolved(w, r, d, v, old, left, out) ==
    /\ <<r, d>> \in DOMAIN DigestMap /\ DigestMap[<<r, d>>] = old
    /\ old \in [Positions -> Balances] /\ \A u \in Positions : SoundBalance(old[u])
    /\ left \in [Positions -> Balances] /\ \A u \in Positions : SoundBalance(left[u])
    /\ \A u \in Positions \ {v} : left[u] = old[u]
    /\ out.given = DepositOf(w, r) /\ out.taken \in Nat
    /\ left[v].issued = old[v].issued - SharesOf(w, r, d, v)
    /\ Values(left) = Values(old) - out.taken

-----------------------------------------------------------------------------
(* Digests and reserves *)

\* A digest changes its value by k, by what is issued or reaped for it; without
\* shares it may go.
DigestMoves(r, d, info, k) ==
    /\ DigestPut(r, d, info)
    /\ DOMAIN DigestMap' \subseteq Reasons \X Digests
    /\ \A x \in DOMAIN DigestMap' : DigestMap'[x] \in [Positions -> Balances]
    /\ BalancesSound'
    /\ \A x \in DOMAIN CommitMap :
          CommitMap[x].digest \in Digests => digest_exists(x[2], CommitMap[x].digest)'
    /\ \A v \in Positions : info[v].issued = DigestInfo(r, d)[v].issued
    /\ Values(info) = Values(DigestInfo(r, d)) + k
    /\ ReasonValue' \in [Reasons -> Assets] /\ ReasonValue' = [ReasonValue EXCEPT ![r] = @ + k]
    /\ AssetToIssue' \in Assets /\ AssetToReap' \in Assets
    /\ AssetToIssue' - AssetToReap' = AssetToIssue - AssetToReap + k
    /\ adjusted' = adjusted + k
    /\ UNCHANGED <<accounts, CommitMap>>

-----------------------------------------------------------------------------
(* The theorems *)

\* Nothing belongs to anybody else.
Alone(o) ==
    /\ Digests \subseteq o.ids
    /\ \A r \in Reasons, d \in Digests, v \in Positions : o.shares[<<r, d, v>>] = 0
    /\ \A w \in Who, r \in Reasons : o.frozen[<<w, r>>] = 0
    /\ o.gap = 0

\* In Commitment itself there is nobody else.
OnlyDirect ==
    [ids |-> Digests, shares |-> [x \in Reasons \X Digests \X Positions |-> 0],
     frozen |-> [x \in Who \X Reasons |-> 0], gap |-> 0]

-----------------------------------------------------------------------------
(* Many digests at once                                                    *)
(*                                                                         *)
(* A call about an index or a pool changes a variant of each of a set of   *)
(* digests of one reason.  M and N are values of DigestMap.                *)

InfoIn(M, r, d) == IF <<r, d>> \in DOMAIN M THEN M[<<r, d>>] ELSE NoDigestInfo

ValueIn(M, r) == SumFunctionOnSet([d \in Digests |-> Values(InfoIn(M, r, d))], Digests)

MapSound(M) ==
    /\ DOMAIN M \subseteq Reasons \X Digests
    /\ \A x \in DOMAIN M :
          /\ M[x] \in [Positions -> Balances]
          /\ \A v \in Positions : SoundBalance(M[x][v])

\* M with balance nb[d] in variant vf[d] of every digest d of S.
PutAll(M, r, S, vf, nb) ==
    [x \in DOMAIN M |->
        IF x[1] = r /\ x[2] \in S THEN [M[x] EXCEPT ![vf[x[2]]] = nb[x[2]]] ELSE M[x]]

\* The new balances are there to be put, and k is what each adds.
Puts(M, r, S, vf, nb, k) ==
    /\ S \subseteq Digests
    /\ \A d \in S :
          /\ <<r, d>> \in DOMAIN M
          /\ vf[d] \in Positions
          /\ nb[d] \in Balances /\ SoundBalance(nb[d])
          /\ k[d] = nb[d].effective - M[<<r, d>>][vf[d]].effective

-----------------------------------------------------------------------------
(* The receipts of entries *)

Keys == Reasons \X Indexes \X Digests \X Who

EntryTypes ==
    /\ DOMAIN EntryMap \subseteq Keys
    /\ \A x \in DOMAIN EntryMap : EntryMap[x] \in Seq(Receipts)

\* What w's receipts of the entries S of index i change by.
EntriesMove(w, r, i, S, sh, pr) ==
    /\ S \subseteq Digests
    /\ \A x \in Keys : (\A d \in S : x # <<r, i, d, w>>) =>
          /\ x \in DOMAIN EntryMap' <=> x \in DOMAIN EntryMap
          /\ x \in DOMAIN EntryMap => EntryMap'[x] = EntryMap[x]
    /\ \A d \in S :
          /\ sh[d] = Shares(EntryCommits(r, i, d, w)') - Shares(EntryCommits(r, i, d, w))
          /\ pr[d] = Principals(EntryCommits(r, i, d, w)') - Principals(EntryCommits(r, i, d, w))

\* A selection of keys that has all or none of those that change.
AllOrNone(w, r, i, S, C, all) ==
    /\ C \subseteq Keys
    /\ all \in BOOLEAN
    /\ \A d \in S : <<r, i, d, w>> \in C <=> all

\* Indexes that are there stay, with their entries.
EntriesStay ==
    \A x \in DOMAIN IndexMap : x \in DOMAIN IndexMap' /\ IndexMap'[x].entries = IndexMap[x].entries

-----------------------------------------------------------------------------
(* Steps of direct commitments, seen from those of indexes *)

\* A commitment that is not a direct one stays as it is, and no direct one
\* becomes one of the others.
OthersStay ==
    \A w \in Who, r \in Reasons :
        IF Directly(w, r) THEN Directly(w, r)'
        ELSE commit_exists(w, r)' /\ CommitMap'[<<w, r>>] = CommitMap[<<w, r>>]

\* What direct commitments see: sh is what others hold of the digests, fr what is
\* frozen for others.
Seen(sh, fr) ==
    /\ \A r \in Reasons, d \in Digests, v \in Positions :
          /\ sh[<<r, d, v>>] \in Nat
          /\ DigestInfo(r, d)[v].issued = SharesIn(r, d, v) + sh[<<r, d, v>>]
    /\ \A w \in Who, r \in Reasons :
          /\ fr[<<w, r>>] \in Nat
          /\ frozen[<<w, r>>] = DepositOf(w, r) + fr[<<w, r>>]
          /\ Directly(w, r) => fr[<<w, r>>] = 0

\* What direct commitments and the others rely on alike.
Shared(ids) ==
    /\ StoredTypes(ids)
    /\ BalancesSound
    /\ DirectBacked
    /\ ReasonTotals
    /\ Conservation

-----------------------------------------------------------------------------
(* The inductive invariant of indexes *)

Ids == Digests \cup Indexes

\* Entries as direct commitments see them.
EntryShares(sh) ==
    \A r \in Reasons, d \in Digests, v \in Positions : sh[<<r, d, v>>] = EntrySharesIn(r, d, v)

EntryPrincipals(fr) ==
    \A w \in Who, r \in Reasons :
        fr[<<w, r>>] = PrincipalsOver({y \in DOMAIN EntryMap : y[1] = r /\ y[4] = w})

-----------------------------------------------------------------------------
(* Setting indexes up and reaping them *)

\* What an index has when it is set up, and what it keeps.
IndexSound(x) ==
    /\ x \in [principal : Assets, entries : IndexEntries]
    /\ Entries_valid(x.entries)

-----------------------------------------------------------------------------
(* A step of one commitment to an index *)

NoOwn(i) == [digest : {i}, variant : Positions, commits : Seq({NoReceipt})]

\* w's receipts of the entries S of index i change by sh and pr together with the
\* balances nb of the digests, which gain the values k.
IndexMoves(w, r, i, S, vf, nb, sh, pr, k) ==
    /\ index_exists(r, i)
    /\ S \subseteq DOMAIN IndexMap[<<r, i>>].entries
    /\ Puts(DigestMap, r, S, vf, nb, k)
    /\ DigestMap' = PutAll(DigestMap, r, S, vf, nb)
    /\ \A d \in S : /\ vf[d] = IndexMap[<<r, i>>].entries[d].variant
                    /\ nb[d].issued = DigestMap[<<r, d>>][vf[d]].issued + sh[d]
    /\ EntriesMove(w, r, i, S, sh, pr)
    /\ DOMAIN EntryMap' \subseteq Keys
    /\ \A d \in S : <<r, i, d, w>> \in DOMAIN EntryMap' =>
          /\ EntryMap'[<<r, i, d, w>>] \in Seq(Receipts)
          /\ Len(EntryMap'[<<r, i, d, w>>]) \in 1 .. MaxCommits
          /\ \A n \in DOMAIN EntryMap'[<<r, i, d, w>>] : EntryMap'[<<r, i, d, w>>][n].shares # 0
    /\ \A d : <<r, i, d, w>> \in DOMAIN EntryMap' => commit_exists(w, r)'
    /\ IndexMap[<<r, i>>].principal + SumFunctionOnSet(pr, S) \in Assets
    /\ IndexMap' = [IndexMap EXCEPT ![<<r, i>>].principal = @ + SumFunctionOnSet(pr, S)]
    /\ frozen[<<w, r>>] + SumFunctionOnSet(pr, S) \in Assets
    /\ frozen' = [frozen EXCEPT ![<<w, r>>] = @ + SumFunctionOnSet(pr, S)]
    /\ ReasonValue[r] + SumFunctionOnSet(k, S) \in Assets
    /\ ReasonValue' = [ReasonValue EXCEPT ![r] = @ + SumFunctionOnSet(k, S)]
    /\ free' \in [Who -> Assets] /\ \A y \in Who \ {w} : free'[y] = free[y]
    /\ hold' \in [Who -> Assets] /\ \A y \in Who \ {w} : hold'[y] = hold[y]
    /\ free'[w] + hold'[w] + SumFunctionOnSet(k, S) = free[w] + hold[w]
    /\ AssetToIssue' \in Assets /\ AssetToReap' \in Assets /\ UNCHANGED adjusted
    /\ OthersKeep(w, r) /\ CommitsTo(w, r, i)
    /\ DOMAIN CommitMap' \subseteq Who \X Reasons
    /\ commit_exists(w, r)' => /\ CommitMap'[<<w, r>>] \in NoOwn(i)
                               /\ Len(CommitMap'[<<w, r>>].commits) \in 1 .. MaxCommits

-----------------------------------------------------------------------------
(* Placing and raising *)

Entries(r, i) == IndexMap[<<r, i>>].entries

Variants(r, i) == [d \in DOMAIN Entries(r, i) |-> Entries(r, i)[d].variant]

\* The part of each entry, and what the deposit of it makes.
Parts(r, i, paid) == [d \in DOMAIN Entries(r, i) |-> entry_deposit(Entries(r, i), d, paid)]

PartBalances(r, i, paid) ==
    [d \in DOMAIN Entries(r, i) |-> DepositBalance(EntryBalance(r, i, d), Parts(r, i, paid)[d])]

PartReceipts(r, i, paid) ==
    [d \in DOMAIN Entries(r, i) |-> DepositReceipt(EntryBalance(r, i, d), Parts(r, i, paid)[d])]

PartShares(r, i, paid) == [d \in DOMAIN Entries(r, i) |-> PartReceipts(r, i, paid)[d].shares]

\* The deposit of one part.
PartPaid(r, i, paid, d) ==
    /\ d \in Digests /\ Entries(r, i)[d].variant \in Positions
    /\ Parts(r, i, paid)[d] \in Nat
    /\ PartBalances(r, i, paid)[d] \in Balances /\ SoundBalance(PartBalances(r, i, paid)[d])
    /\ PartBalances(r, i, paid)[d].effective = EntryBalance(r, i, d).effective + Parts(r, i, paid)[d]
    /\ PartBalances(r, i, paid)[d].issued = EntryBalance(r, i, d).issued + PartShares(r, i, paid)[d]
    /\ PartReceipts(r, i, paid)[d] \in Receipts
    /\ PartReceipts(r, i, paid)[d].principal = Parts(r, i, paid)[d]
    /\ PartReceipts(r, i, paid)[d].shares = PartShares(r, i, paid)[d]
    /\ PartReceipts(r, i, paid)[d].shares # 0

\* What deposit_to_index does, in terms of the parts.
Funded(r, i, paid) == funded(Entries(r, i), paid)

\* What place and raise share leaves of a step of w: the frozen amount and the
\* commitment.
PaidToIndex(w, r, i, S, vf, nb, sh, pr, actual) ==
    /\ actual = SumFunctionOnSet(pr, S) /\ actual \in Nat
    /\ S \subseteq DOMAIN IndexMap[<<r, i>>].entries
    /\ Puts(DigestMap, r, S, vf, nb, pr)
    /\ DigestMap' = PutAll(DigestMap, r, S, vf, nb)
    /\ \A d \in S : /\ vf[d] = IndexMap[<<r, i>>].entries[d].variant
                    /\ nb[d].issued = DigestMap[<<r, d>>][vf[d]].issued + sh[d]
    /\ EntriesMove(w, r, i, S, sh, pr)
    /\ DOMAIN EntryMap' \subseteq Keys
    /\ \A d \in S :
          /\ EntryMap'[<<r, i, d, w>>] \in Seq(Receipts)
          /\ Len(EntryMap'[<<r, i, d, w>>]) \in 1 .. MaxCommits
          /\ \A n \in DOMAIN EntryMap'[<<r, i, d, w>>] : EntryMap'[<<r, i, d, w>>][n].shares # 0
    /\ IndexMap[<<r, i>>].principal + actual \in Assets
    /\ IndexMap' = [IndexMap EXCEPT ![<<r, i>>].principal = @ + actual]
    /\ frozen[<<w, r>>] + actual \in Assets
    /\ ReasonValue[r] + actual \in Assets
    /\ ReasonValue' = [ReasonValue EXCEPT ![r] = @ + actual]
    /\ free' \in [Who -> Assets] /\ \A y \in Who \ {w} : free'[y] = free[y]
    /\ hold' \in [Who -> Assets] /\ \A y \in Who \ {w} : hold'[y] = hold[y]
    /\ free'[w] + hold'[w] + actual = free[w] + hold[w]
    /\ AssetToIssue' \in Assets /\ AssetToReap' \in Assets /\ UNCHANGED adjusted

-----------------------------------------------------------------------------
(* Resolving *)

\* The withdrawal of each entry, and what it takes away.
Withdrawals(w, r, i) == [d \in DOMAIN Entries(r, i) |-> EntryWithdrawal(w, r, i, d)]

BalancesLeft(w, r, i) == [d \in DOMAIN Entries(r, i) |-> Withdrawals(w, r, i)[d].balance]

TakenAway(w, r, i) == [d \in DOMAIN Entries(r, i) |-> 0 - Withdrawals(w, r, i)[d].taken]

GivenAway(w, r, i) == [d \in DOMAIN Entries(r, i) |-> 0 - Withdrawals(w, r, i)[d].given]

SharesAway(w, r, i) == [d \in DOMAIN Entries(r, i) |-> 0 - Shares(EntryMap[<<r, i, d, w>>])]

EntryResolved(w, r, i, d) ==
    LET out == Withdrawals(w, r, i)[d]
        s   == EntryMap[<<r, i, d, w>>]
    IN  /\ d \in Digests /\ Entries(r, i)[d].variant \in Positions
        /\ <<r, i, d, w>> \in DOMAIN EntryMap /\ s \in Seq(Receipts)
        /\ out.balance \in Balances /\ SoundBalance(out.balance)
        /\ out.given = Principals(s) /\ out.given \in Nat /\ out.taken \in Nat
        /\ Shares(s) \in Nat
        /\ out.balance.effective = EntryBalance(r, i, d).effective - out.taken
        /\ out.balance.issued = EntryBalance(r, i, d).issued - Shares(s)

-----------------------------------------------------------------------------
(* The theorems about indexes *)

\* Nobody holds anything at the start.
NoShares == [x \in Reasons \X Digests \X Positions |-> 0]

NoneFrozen == [x \in Who \X Reasons |-> 0]

-----------------------------------------------------------------------------
(* What indexes quote *)

\* What direct commitments to a digest are worth, and those of a variant.
Direct(r, d) == {w \in Who : commit_exists(w, r) /\ CommitMap[<<w, r>>].digest = d}

DirectIn(r, d, v) == {w \in Direct(r, d) : CommitMap[<<w, r>>].variant = v}

DirectWorth(r) == [w \in Who |-> CommitValue(w, r)]

DirectQuoted(r, d) ==
    \A w \in Direct(r, d) :
        quoted(DigestMap[<<r, d>>][CommitMap[<<w, r>>].variant], CommitMap[<<w, r>>].commits)

\* What the entries of a digest hold, and those of a variant.
Naming(r, d) == {i \in Indexes : index_exists(r, i) /\ d \in DOMAIN IndexMap[<<r, i>>].entries}

KeysOf(r, d) == {x \in DOMAIN EntryMap : x[1] = r /\ x[3] = d}

KeysIn(r, d, v) ==
    {x \in DOMAIN EntryMap : x[1] = r /\ x[3] = d /\ IndexMap[<<r, x[2]>>].entries[d].variant = v}

EntryWorth(r, d) == [x \in KeysOf(r, d) |-> quote(EntryBalance(r, x[2], d), EntryMap[x])]

EntriesQuoted(r, d) == \A i \in Naming(r, d) : \A w \in EntryHolders(r, i, d) : entry_quoted(w, r, i, d)

-----------------------------------------------------------------------------
(* Pools *)

PoolIds == Digests \cup Pools

\* The shares a pool with these slots holds of a variant of a digest.
SlotHolds(slots, d, v) ==
    IF d \in DOMAIN slots /\ slots[d].variant = v THEN slots[d].commit.shares ELSE 0

SlotPrincipals(slots) == SumFunction([d \in DOMAIN slots |-> slots[d].commit.principal])

\* A pool between two operations.
PoolSound(p) ==
    /\ p \in [balance : Balances, commission : Commissions, slots : PoolSlots]
    /\ Entries_valid(p.slots)
    /\ SoundBalance(p.balance)
    /\ p.balance = FreshBalance => InUse(p) = {}
    /\ \A d \in InUse(p) : /\ p.slots[d].commit.shares # 0 /\ p.slots[d].commit.principal # 0
                           /\ p.slots[d].commit.bias # 0
    /\ TotalValue(p.balance) = SlotPrincipals(p.slots)

PoolHolds(r, k, d, v) == IF pool_exists(r, k) THEN SlotHolds(PoolMap[<<r, k>>].slots, d, v) ELSE 0

PoolsHold(r, d, v) == SumFunctionOnSet([k \in Pools |-> PoolHolds(r, k, d, v)], Pools)

\* The shares w holds of pool k, and those everybody holds.
HeldBy(w, r, k) ==
    IF commit_exists(w, r) /\ CommitMap[<<w, r>>].digest = k
    THEN Shares(CommitMap[<<w, r>>].commits) ELSE 0

HeldOf(r, k) == SumFunctionOnSet([w \in Who |-> HeldBy(w, r, k)], Who)

PoolIssued(r, k) == IF pool_exists(r, k) THEN PoolMap[<<r, k>>].balance.issued ELSE 0

PoolsSound ==
    /\ DOMAIN PoolMap \subseteq Reasons \X Pools
    /\ DOMAIN PoolManager = DOMAIN PoolMap
    /\ \A x \in DOMAIN PoolMap : PoolManager[x] \in Who /\ PoolSound(PoolMap[x])

AllFrozen == \A w \in Who, r \in Reasons : frozen[<<w, r>>] = DepositOf(w, r)

DigestsHeld ==
    \A r \in Reasons, d \in Digests, v \in Positions :
        DigestInfo(r, d)[v].issued = SharesIn(r, d, v) + PoolsHold(r, d, v)

PoolsHeld == \A r \in Reasons, k \in Pools : HeldOf(r, k) = PoolIssued(r, k)

\* PoolInv with its sums over proprietors and pools.
PoolCore ==
    /\ Shared(PoolIds)
    /\ IndexTypeOK /\ EntryMap = EmptyMap
    /\ PoolsSound
    /\ AllFrozen
    /\ DigestsHeld
    /\ PoolsHeld

\* What release_pool withdraws from a digest: the variant, the balance left and
\* the value that comes back, as a change of the digest.
SlotVariants(p) == [d \in DOMAIN p.slots |-> p.slots[d].variant]

SlotLeft(r, p) == [d \in InUse(p) |-> WithdrawBalance(SlotBalance(r, p, d), p.slots[d].commit)]

SlotPaid(r, p) == [d \in InUse(p) |-> WithdrawPaid(SlotBalance(r, p, d), p.slots[d].commit)]

SlotOut(r, p) == [d \in InUse(p) |-> 0 - SlotPaid(r, p)[d]]

SlotReleased(r, p, d) ==
    /\ d \in Digests /\ digest_exists(r, d) /\ p.slots[d].variant \in Positions
    /\ SlotLeft(r, p)[d] \in Balances /\ SoundBalance(SlotLeft(r, p)[d])
    /\ SlotPaid(r, p)[d] \in Nat
    /\ SlotLeft(r, p)[d].effective = SlotBalance(r, p, d).effective - SlotPaid(r, p)[d]
    /\ SlotLeft(r, p)[d].issued = SlotBalance(r, p, d).issued - p.slots[d].commit.shares
    /\ SlotBalance(r, p, d).effective \in Nat /\ SlotBalance(r, p, d).issued \in Nat

ReleasedTo(r, p, M) ==
    /\ MapSound(M) /\ DOMAIN M = DOMAIN DigestMap
    /\ \A s \in Reasons, d \in Digests, v \in Positions :
          InfoIn(M, s, d)[v].issued = InfoIn(DigestMap, s, d)[v].issued
                                         - (IF s = r THEN SlotHolds(p.slots, d, v) ELSE 0)
    /\ \A s \in Reasons :
          ValueIn(M, s) = ValueIn(DigestMap, s) - (IF s = r THEN SlotsPay(r, p) ELSE 0)

\* What recover_pool pays into a digest.
SlotBase(r, M, slots) == [d \in DOMAIN slots |-> M[<<r, d>>][slots[d].variant]]

SlotPart(slots, b) == [d \in DOMAIN slots |-> slot_deposit(slots, d, b)]

SlotFunded(r, M, slots, b) ==
    [d \in DOMAIN slots |-> DepositBalance(SlotBase(r, M, slots)[d], SlotPart(slots, b)[d])]

SlotReceipt(r, M, slots, b) ==
    [d \in DOMAIN slots |-> DepositReceipt(SlotBase(r, M, slots)[d], SlotPart(slots, b)[d])]

SlotRecovered(r, M, slots, b, d) ==
    /\ d \in Digests /\ <<r, d>> \in DOMAIN M /\ slots[d].variant \in Positions
    /\ SlotPart(slots, b)[d] \in Nat \ {0}
    /\ SlotBase(r, M, slots)[d].effective \in Nat /\ SlotBase(r, M, slots)[d].issued \in Nat
    /\ SlotFunded(r, M, slots, b)[d] \in Balances /\ SoundBalance(SlotFunded(r, M, slots, b)[d])
    /\ SlotFunded(r, M, slots, b)[d].effective
          = SlotBase(r, M, slots)[d].effective + SlotPart(slots, b)[d]
    /\ SlotReceipt(r, M, slots, b)[d] \in Receipts
    /\ SlotReceipt(r, M, slots, b)[d].shares \in Nat \ {0}
    /\ SlotReceipt(r, M, slots, b)[d].bias # 0
    /\ SlotReceipt(r, M, slots, b)[d].principal = SlotPart(slots, b)[d]
    /\ SlotFunded(r, M, slots, b)[d].issued
          = SlotBase(r, M, slots)[d].issued + SlotReceipt(r, M, slots, b)[d].shares

\* The hypotheses of a recovery.
Recovering(r, k, M, slots, b) ==
    /\ MapSound(M)
    /\ slots \in PoolSlots /\ Entries_valid(slots)
    /\ b \in Balances /\ SoundBalance(b)
    /\ recover_succeeds(r, k, slots, b, M)

RecoveredTo(r, M, slots, a, N) ==
    /\ MapSound(N) /\ DOMAIN N = DOMAIN M
    /\ \A s \in Reasons, d \in Digests, v \in Positions :
          InfoIn(N, s, d)[v].issued = InfoIn(M, s, d)[v].issued
                                         + (IF s = r THEN SlotHolds(slots, d, v) ELSE 0)
    /\ \A s \in Reasons : ValueIn(N, s) = ValueIn(M, s) + (IF s = r THEN a ELSE 0)

\* The slots z are those given, with receipt c[d] in those of I and none else.
SlotsWith(z, slots, I, c) ==
    /\ DOMAIN z = DOMAIN slots
    /\ \A d \in DOMAIN slots :
          z[d] = [shares |-> slots[d].shares, variant |-> slots[d].variant,
                  commit |-> IF d \in I THEN c[d] ELSE NoReceipt]

-----------------------------------------------------------------------------
(* What an operation on one pool does                                      *)

PoolPut(r, k, p) ==
    /\ pool_exists(r, k)
    /\ DOMAIN PoolMap' = DOMAIN PoolMap
    /\ PoolMap'[<<r, k>>] = p
    /\ \A x \in DOMAIN PoolMap : x # <<r, k>> => PoolMap'[x] = PoolMap[x]

\* The digests of r have the shares of the slots `new` for those of `old`, and
\* their value is V more.
DigestsMove(r, old, new, V) ==
    /\ MapSound(DigestMap') /\ DOMAIN DigestMap' = DOMAIN DigestMap
    /\ \A s \in Reasons, d \in Digests, v \in Positions :
          InfoIn(DigestMap', s, d)[v].issued
             = InfoIn(DigestMap, s, d)[v].issued
                  + (IF s = r THEN SlotHolds(new, d, v) - SlotHolds(old, d, v) ELSE 0)
    /\ \A s \in Reasons :
          ValueIn(DigestMap', s) = ValueIn(DigestMap, s) + (IF s = r THEN V ELSE 0)

\* What everybody's commitments do while pool k issues n shares more.
CommitsFit(r, k, n) ==
    /\ DOMAIN CommitMap' \subseteq Who \X Reasons
    /\ \A x \in DOMAIN CommitMap' :
          /\ CommitMap'[x] \in [digest : PoolIds, variant : Positions, commits : Seq(Receipts)]
          /\ Len(CommitMap'[x].commits) \in 1 .. MaxCommits
          /\ CommitMap'[x].digest \in Digests => x \in DOMAIN CommitMap /\ CommitMap'[x] = CommitMap[x]
    /\ frozen' \in [Who \X Reasons -> Assets]
    /\ AllFrozen'
    /\ \A s \in Reasons, d \in Digests, v \in Positions : SharesIn(s, d, v)' = SharesIn(s, d, v)
    /\ \A s \in Reasons, j \in Pools :
          HeldOf(s, j)' = HeldOf(s, j) + (IF s = r /\ j = k THEN n ELSE 0)

\* The commitment of w to pool k is made, raised or resolved.
CommitMoves(w, r, k) ==
    /\ OthersKeep(w, r) /\ CommitsTo(w, r, k)
    /\ DOMAIN CommitMap' \subseteq Who \X Reasons
    /\ commit_exists(w, r)' =>
          /\ CommitMap'[<<w, r>>] \in [digest : {k}, variant : Positions, commits : Seq(Receipts)]
          /\ Len(CommitMap'[<<w, r>>].commits) \in 1 .. MaxCommits
    /\ DepositOf(w, r)' \in Assets
    /\ frozen' = [frozen EXCEPT ![<<w, r>>] = DepositOf(w, r)']

\* A whole operation on pool k: it is p afterwards, and the value of the reason
\* has grown by V at the expense of the accounts.
PoolMoves(r, k, p, V) ==
    /\ PoolSound(p) /\ PoolPut(r, k, p)
    /\ V \in Int
    /\ DigestsMove(r, PoolMap[<<r, k>>].slots, p.slots, V)
    /\ CommitsFit(r, k, p.balance.issued - PoolMap[<<r, k>>].balance.issued)
    /\ ReasonValue[r] + V \in Assets
    /\ ReasonValue' = [ReasonValue EXCEPT ![r] = @ + V]
    /\ free' \in [Who -> Assets] /\ hold' \in [Who -> Assets]
    /\ SumFunction(free') + SumFunction(hold') = (SumFunction(free) + SumFunction(hold)) - V
    /\ AssetToIssue' \in Assets /\ AssetToReap' \in Assets
    /\ UNCHANGED <<adjusted, indexVars, PoolManager>>

-----------------------------------------------------------------------------
(* The operations on a pool                                                *)

PoolsHoldStill ==
    \A s \in Reasons, j \in Pools :
       /\ PoolIssued(s, j)' = PoolIssued(s, j)
       /\ \A d, v : PoolHolds(s, j, d, v)' = PoolHolds(s, j, d, v)

\* w pays for a deposit from what is free and what is reserved, m gets the dust.
Paying(w, m, paid, held, dust) ==
    /\ paid \in Nat /\ held \in Nat /\ dust \in Nat
    /\ held <= hold[w] /\ paid - held \in Nat /\ paid - held <= free[w]
    /\ Pay(free, w, 0 - (paid - held))[m] + dust <= MaxAsset
    /\ free' = Pay(Pay(free, w, 0 - (paid - held)), m, dust)
    /\ hold' = [hold EXCEPT ![w] = @ - held]

\* m gets the dust and the commission, w the rest.
Giving(w, m, tip, own) ==
    /\ tip \in Nat /\ own \in Nat
    /\ Pay(free, m, tip)[m] <= MaxAsset
    /\ Pay(free, m, tip)[w] + own <= MaxAsset
    /\ free' = Pay(Pay(free, m, tip), w, own)
    /\ hold' = hold

===============================================================================
