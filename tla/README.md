# Verification of FRAME Suite

TLA+ models of the pallets and behaviour models of FRAME Suite, TLC
configurations that check them on small instances, and TLAPS proofs of what
must hold for every instance. `PROJECT.json` lists the components, the runs,
the source lines behind each definition, the hazards the properties are aimed
at, and the theorems.

    tlc -workers 2 -config ShareLedger.cfg MCShareLedger     # one run
    tlapm ShareLedgerProofs.tla                              # one module's proofs

The modules with proofs are `SumTheorems`, `ShareBalanceTheorems`,
`ShareLedgerProofs`, `XpProofs`, `CommitmentProofs`, `AuthorsProofs`,
`ChainManagerProofs` and `AffidavitWorkerProofs`.

## 1. The system

FRAME Suite is a Substrate node assembled from traits (`frame/suite`),
behaviour models that plug into them (`frame/plugins`) and four pallets.
Nothing runs concurrently inside a block: a call is executed to its end or, if
it returns an error, rolled back with its storage layer. What is hard is
elsewhere: fixed-point arithmetic that rounds and saturates, totals that are
kept apart from what they total, obligations that are settled lazily and much
later, sequences of legal calls nobody wrote down, and offchain workers: those
run after a block, write an unprotected local database, may be stopped between
any two writes, and act on one of several forks.

| Component | State | Operations | What makes it correct |
|---|---|---|---|
| Lazy balance (`frame/plugins/src/balances.rs`) | value, shares, price, checkpoint of the last drain; snapshots | deposit, mint, reap, drain, withdraw | nobody is paid more than there is, nobody loses by another's deposit or withdrawal, an empty balance is usable again |
| XP pallet (`pallets/xp`) | a record per key (liquid, reserved, locked, pulse, last block), reserves and locks per reason, owners, disposed keys, configuration | begin, earn, slash, reserve, lock and their inverses; the fungible adapter; handover, dispose; root configuration | totals agree with their parts; points are conserved; the multiplier is applied once per block; a disposed key stays disposed |
| Commitment pallet (`pallets/commitment`): digests | a lazy balance per reason, digest and variant; a commitment per proprietor and reason; `AssetToIssue`, `AssetToReap`, `ReasonValue` | place, raise, resolve, set variant, set value, reap digest; reserve deposit and withdrawal | what is frozen was deposited; the books balance; a commitment can be resolved |
| Commitment pallet: indexes, pools | entries with shares, entry receipts; slots, the pool's own commitments, commission | set index, set pool, set slot shares, place on them | a deposit split over entries comes back whole; release and recovery of a pool lose nothing |
| Authors pallet (`pallets/authors`) | records with status, probation and risk; collateral and funding as digests of the commitment pallet; funders; rewards and penalties by block | enlist, refill, confirm, demit; back, exit; reward, reclaim, penalise, forgive; `on_initialize` | what is scheduled is found, applied once and in full; nobody leaves from under a penalty; funders are those who have funded |
| Chain manager (`pallets/chain-manager`), on chain | session and its start, affidavit keys, affidavits, elected set, block points | validate, declare, elect, chill; session hooks | who elects and who is elected stands for this session; every session is paid in full |
| Chain manager, off chain (`routines.rs`) | the active and the next affidavit key, each as a fork-aware hash and a ledger of observations | four routines per block: create a key, try the election, declare, rotate | keys rotate only to what the chain knows; no half-written state stops the node |
| Fork-aware offchain storage (`frame/suite/src/forks.rs`, `routines.rs`) | graph of branches with scopes, dividers, head; values | start, insert, mutate, remove; recovery | what a worker inserted is there for the workers of the following blocks |
| Fixed-point functions (`frame/suite/src/fixedpoint.rs`) | none | root, logarithm, exponential, power, conversions | iterations end near the value; functions undo each other; no jumps where two paths meet |
| Plugin models (`elections.rs`, `rewards.rs`, `penalty.rs`, `influence.rs`) | none | 13 payouts, 8 influences, 7 elections, 2 ways to share a payout, 2 penalties | the order of the inputs is kept through rounding, saturation and fallbacks; curves go where their contexts say; nobody gets more or less than its part |

Interactions: the authors pallet commits its collateral and its funders' money
through the commitment pallet and rewards or penalises by setting the value of
a digest; the commitment pallet keeps each digest as a lazy balance and settles
with the asset pallet, which in the runtime is the XP pallet; the chain manager
asks the authors pallet whether an author is available and for what it is
backed, is asked by it whether an author is idle, turns an election into a
session, and schedules rewards with it; its worker sees the chain, keeps keys in
the fork-aware storage, and sends transactions.

The behaviours that are hard are listed under `hazards` in `PROJECT.json`, each
at the line where it bites.

## 2. Modules

| Module | Models | Extends |
|---|---|---|
| `ShareBalance` | the share-based lazy balance as pure operators on a balance record and a receipt | |
| `ShareLedger` | one such balance in use by several receipts, and its properties | `ShareBalance` |
| `SumTheorems` | lemmas about sums over finite sets, as the community modules fold them | |
| `ShareBalanceTheorems` | lemmas about the operators of `ShareBalance` and `DigestReceipts` | `DigestReceipts`, `SumTheorems` |
| `ShareLedgerProofs` | theorems about `ShareLedger` | `ShareLedger`, both modules of lemmas |
| `XpPulse` | the accumulator and stepper, and the look-ahead query | |
| `Xp` | the XP pallet | `XpPulse` |
| `XpProofs` | theorems about `Xp` | `Xp`, `SumTheorems` |
| `DigestReceipts` | the receipts of one commitment against one balance: withdrawal, check and quote | `ShareBalance` |
| `Commitment` | direct digests of the commitment pallet | `DigestReceipts` |
| `CommitIndex` | indexes: commitments split over entries by shares | `Commitment` |
| `CommitPool` | pools: a lazy balance invested in slots, with manager and commission | `CommitIndex` |
| `CommitmentInvariants` | what the proofs about the three modules say of a state and of a step | `CommitPool` |
| `CommitmentProofs` | theorems about `Commitment`, `CommitIndex` and `CommitPool` | `CommitmentInvariants`, both modules of lemmas |
| `Authors` | the authors pallet over the promises of the commitment pallet | |
| `AuthorsProofs` | theorems about `Authors` | `Authors` |
| `ChainManager` | the chain manager on chain, with the election and reward models it is configured with | |
| `ChainManagerProofs` | theorems about `ChainManager` | `ChainManager`, `SumTheorems` |
| `Forks` | the fork graph of the off-chain workers and the fork-aware store | |
| `KeyCycle` | abstract: what a node's affidavit keys may do | |
| `AffidavitWorker` | the off-chain worker of one node on the store with finality; implements `KeyCycle` | instance of `KeyCycle` |
| `AffidavitWorkerProofs` | theorems about `AffidavitWorker`, the refinement among them | `AffidavitWorker` |
| `FixedPoint` | the functions of `fixedpoint.rs` as operators on inner values | |
| `FixedMath` | calls of them, and their properties | `FixedPoint` |
| `Curves` | payout and influence models | `FixedMath` |
| `Rankings` | election, payee and penalty models | `FixedMath` |
| `PluginModels` | all of these calls, one at a time | `Curves`, `Rankings` |
| `MC...` | symmetry sets and parameter sets for TLC | |

Definitions keep the names of the code; definitions marked *Mutant* in their
comment are wrong on purpose and used by no specification.

**`ShareBalance`.** A balance is `init` (the virtual fields exist), `effective`,
`issued`, `bias`, `checkpoint` and `drainpoint`; a receipt is `principal`,
`shares`, `bias`, `checkpoint`. Prices are fixed-point numbers: an integer of
at most `MaxInner` that counts units of `1/DIV`. Each model (`ModelDeposit`,
`ModelMint`, ...) is a pair of operators: `XSucceeds`, the conjunction of all
its early returns, and `XBalance` (with `XReceipt`, `XPaid`), the result. The
order of the roundings is the code's: lifting an integer saturates, a product
and a quotient of two fixed-point numbers fail when they do not fit.

**`ShareLedger`.** Actions `Deposit`, `Mint`, `Reap`, `Drain`, `Withdraw`. The
history variables `net` (paid in less paid out) and `drained` (receipts a drain
has outdated) exist to state properties; no guard reads them.

**`Xp`.** Storage maps are functions on the keys present. One action per trait
method, fungible method or extrinsic: `BeginXp` (creation and the three
branches of `earn_xp`), `SlashXp`, `MintInto`, `BurnFrom`, `SetBalance`,
`ReserveXp`, `WithdrawReserve`, `WithdrawReservePartial` (both precisions),
`SlashReserve`, `SetBalanceOnHold`, `LockXp`, `WithdrawLock`, `SlashLock`,
`SetFreeze` (with `Thaw`), `ExtendFreeze`, `Handover` (also `force_handover`),
`Dispose`, `ForceGenesisConfig`, `NextBlock`. A method that calls `set_reserve`
after it wrote `free` is one action with both writes. History: `net`, `capped`,
`scaled` (keys whose points were multiplied in this block).

**`Commitment`.** Actions `DepositReserve`, `WithdrawReserve`, `PlaceCommit`,
`RaiseCommit`, `ResolveCommit`, `SetCommitVariant`, `SetDigestValue`,
`ReapDigest`. The asset pallet is external: liquid points, points on hold for
`PrepareForCommit`, points frozen per reason. `withdraw_from_digest` of `DigestReceipts` folds the
withdrawal over the receipts of a commitment, each from the balance the one
before left. History: `adjusted`. The checks (`can_place_commit`,
`can_raise_commit`, `can_resolve_digest_commit`, `can_set_digest_value`) and the
quote (`quoted`: it answers, `quote`: what) are operators beside the actions, as
they are functions apart from the operations in the code, and have properties of
their own. `CommitmentInv` at its end is the inductive invariant of the proofs,
of which `BalancesSound` and `ReceiptsCount` are checked by no run of their own.

**`CommitIndex`.** `IndexMap` and `EntryMap` are added to the state. Actions
`SetIndex`, `SetIndexEntry` and `RemoveIndexEntry` (each makes a new index: the
entries of an index are fixed), `ReapIndex`, `PlaceIndexCommit`,
`RaiseIndexCommit`, `ResolveIndexCommit`. A deposit is split with the code's
fixed-point product, part by part; an entry whose part is below one unit is
skipped and what was not placed is paid back. Direct commitments go on beside
it, because the entries are funded as direct digests. Queries:
`index_commit_value`, `index_entry_commit_value`, `get_entry_value`,
`can_resolve_index_commit`.

**`CommitPool`.** `PoolMap` and `PoolManager` are added. `release_...` and
`recover_...` are the two halves of `release_pool` and `recover_pool` that every
pool operation is wrapped in: results as operators, early returns as
`release_succeeds` and `recover_succeeds`, and `recover_pool` the writes. Actions
`SetPool`, `SetPoolManager`, `SetPoolSlot`, `RemovePoolSlot`, `ReapPool`,
`PlacePoolCommit`, `RaisePoolCommit`, `ResolvePoolCommit` (with the commission,
`deduct_from_imbalance` and the settlement of the proprietor). Entries and slots
have distinct digests, so that the order in which the code walks them shows in
no result; they are functions from digests. Queries: `pool_commit_value`, which
values the slots without a release, `pool_slot_commit_value`, `get_slot_value`,
`get_pool_value`, `can_resolve_pool_commit`.

**`Authors`.** `AuthorsMap` is the storage map; `collateral` and `funding` are
the values of the two digests of an author, `backing` what a backer is committed
to. The commitment pallet is used by what `Commitment` shows of it: leaving a
digest pays some part of its value, and all of it to the last holder; a drained
digest takes no deposit; a digest nobody holds cannot be set to another value.
Actions `Enroll` (enlist, with the fall back to the minimum), `AddCollateral`,
`Confirm`, `Resign`, `RevokePermanence`, `CreateIndex`, `FundDirect` and
`FundVia` (back), `Draw` (exit), `Penalize`, `Forgive`, `Reward`, `Reclaim`,
`OnInitialize`, `ForceGenesisConfig`. `set_hold` keeps the code's order and
roundings: the funding digest first, rounded up, then what is left for the
collateral, and nothing undone if the second write is refused.

**`ChainManager`.** `NextBlock` is the block's hooks in the order the runtime
runs them: the point of the author, and at the end of a session `end_session`,
`start_session` and `new_session`. `Validate`, `Declare`, `Chill`, `Elect` are
the calls; `Enlist`, `CollateralChanges` and `Resign` what pallet-authors may do
in between (the last asks `is_idle`). The election is `TopDownFairModel` cut off
at `MaxElected`, the payout `ConstantPayout` shared by `SharesPay`; where the
code's sort leaves ties to an unspecified order, every order is allowed.
`AffidavitKeys` and `AuthorAffidavits` are kept only for sessions to come, which
is all that is ever read.

**`Forks`.** A branch is named by its root block and its path of counters, as
the code's keys are hashes of these. `work` holds what each worker that runs is
about to do, with the branch it read; between a read and a write of one worker
any other may act. `ForksHandler::start` is `Start` (import the block, look for the
branch of its parent's parent, recovering it if need be with `Recover`, and read
it, or give up at `MAX_FORKS`), then `Extend`, which compares before it writes and
turns to a branch of its own if another worker was faster, or `OpenBranch`, which
does not compare: two forks may choose the same slot. `ForkAware::insert` is
`Insert` (`add_to_scope` reads the branch), `StoreScope` (and writes it back as a
whole) and `SetValue`; `remove` is `Remove` (the value), `RemoveFromScope` (the
branch is read) and `StoreScope`; `mutate` is `Mutate` and `MutateValue`, or
`insert`. `ImportOnly` is a block without a worker; `Stop` ends all workers where
they are. The writes of a recovery, and those after `start` wrote a branch (the
block's divider, `HEAD_BLOCK`), are one step with it. History: `recovered`,
`overlapping`, `inserted`, `removed`, `owed`.

**`AffidavitWorker`.** `pc` walks through one run of `offchain_worker`; every
write of the local database is a step of its own. A slot is the fork-aware
hash (`hash`) and the persistent ledger (`ledger`) of `Finalized`; `See` is the
observation that `get` makes, `GetStops` its failures, `Hanging` a hash the
ledger does not know. The chain is what the worker sees of it. `Crash`, `Miss`
and `LoseTx` are the faults. It abstracts: one chain (forks are the other
module's); the worker of a block is done or dead before the next block; the
keystore keeps the pairs it made; the author stays available and affidavits are
allowed; a ledger without entries is a missing one. A transaction that was
admitted lives until the affidavits end. The worker's transactions are signed,
which `declare` and `elect` refuse (finding `signed_declaration`); so that the
rest can be studied, each is also in the pool as a bare one.

**`KeyCycle`.** Two cells and a set of registered keys: a key is created or
prepared, the next becomes the active one in one step if it is registered, any
key may be lost. The refinement maps a slot to the key it holds if the ledger
knows it; while a rotation moves a key, the next cell still holds it until the
last of the four writes.

**`FixedPoint`, `FixedMath`.** A fixed-point type is a record of its `div`, its
smallest and largest inner value, its decimal places and the inner value of e; a
number is its inner value. An `Option` is `None` (the empty set) or `Some(x)`.
Products, quotients and conversions of `sp_arithmetic` are external, with their
saturation and rounding; the iterations of the suite (Newton's method, the
series of logarithm and exponential, range reduction, repeated squaring) are
folds with the code's conditions to stop and its order of operations.
`fixed_to_i128` and `saturated_into` are the casts between types that the code
makes: the first rescales, the second keeps the inner value.

**`Curves`, `Rankings`, `PluginModels`.** A model is an operator of the asset
type, its context and its input, with the fallback the code has for each
operation that can fail. `call` is one call and its result: the pallets may call
any model at any time, and no model keeps anything. Lists are sequences; a
ranking is the sequence of the places in the list that was handed in.

**Failing calls.** A call that returns an error leaves no trace, because the
extrinsic's storage layer is rolled back; it is therefore no step, and its
conditions are guards. Where the code has a debug assertion before the error,
the model takes the release build.

## 3. Runs

Ten runs check 40 properties: invariants, two action properties, one
refinement (`RotationIsAtomic`) and one liveness property (`KeepsRotating`).
Deadlock is checked except in `authors`, `chain` and `forks`, whose behaviours
end at a bounded block number or with the last block of the tree.

Fairness is stated where the code schedules something by itself, in
`AffidavitWorker`: the worker that runs goes on (`WF`, the node executes it to
its end unless it crashes), blocks keep coming (`WF`), a declaration that the
chain would accept again and again is included some time, and the author's
operator validates a new key early in a session some time (both `SF`: a
transaction may miss any particular window). `Crash`, `Miss` and `LoseTx` are
not fair and bounded by `MaxFaults`: liveness is claimed for nodes that
eventually stop failing. In the other modules each action is somebody's call, so
no fairness is justified and no liveness is claimed.

| Run | Shows |
|---|---|
| `share_ledger` | Three receipts. The price never promises more than the balance holds (`Solvent`), a receipt is not worth more than its principal at its own price (`ReceiptBacked`), every unit is accounted for, dust included (`Conservation`), the checkpoint comparison finds exactly the drained receipts (`OutdatedIffDrained`), and only mints and reaps lower what others are worth (`OthersUnaffected`). |
| `xp` | One key, two owners. Totals equal the sums of their parts and points are neither created nor lost by moving them (`XpBooks`), the multiplier is applied at most once per block although root changes `MinPulse` meanwhile (`ScaledOncePerBlock`), the number of actions `xp_eligibility` announces is enough (`EligibilitySuffices`), disposed keys stay gone (`NeverRevived`), a key has one owner (`OneOwner`). |
| `commit_digest` | Two proprietors, one digest with two variants, values set up and down. What is frozen was deposited, value = deposits + to issue − to reap, the total of a reason is the value of its digests, nothing but `set_digest_value` creates or destroys value (`DigestBooks`); nobody gets less than quoted (`PaidAsQuoted`); the checks admit every exact call that would succeed, and a commitment that passes them receipt by receipt can be withdrawn as a whole (`ChecksAgree`); receipts hold all the shares of a digest, which is never reaped under a commitment (`ReceiptsHoldShares`). |
| `commit_index` | Two proprietors, two digests, two indexes, direct commitments to the same digests. An index's principal is what its entry receipts were paid for and every entry receipt has its commitment and its index (`EntriesAccounted`); direct and entry receipts together hold the shares of each digest (`IndexReceiptsHoldShares`); frozen amounts, the total of the reason and the value of everything stay consistent (`Books`); what is quoted is paid, and all quotes on a digest together are covered by it (`IndexQuotes`). |
| `commit_pool` | A pool whose slots and manager change while two proprietors come and go and digests gain and lose. The pool's shares are its depositors', slots and direct receipts together hold the shares of each digest (`SharesOwned`); its value is what its slots were paid (`PoolInvested`); `Books` with dust and commission; a quote, made without releasing, is what the release then pays, and the quotes of all are covered by the slots (`PoolQuotes`). |
| `authors` | Two authors, two backers, an index. What is scheduled lies ahead and within what `has_reward` and `has_penalty` search (`PendingVisible`); nobody who has left has a penalty to come (`NoEscape`); a reward or penalty changes the hold by exactly what it says, through both writes and both roundings (`DueApplied`); recorded funders and commitments agree (`FundersListed`). |
| `chain` | Two authors, two keys that either may name, three sessions. Who ran the election was a candidate in it, and once it was run, what is revealed are candidates of this session, however often it was run and whatever earlier sessions left (`ElectionCurrent`); elected authors keep the key for the session after, unless another author declares that very key (`ElectedKeepsKey`); every session is paid out by all its points and to the unit (`SettledInFull`). |
| `forks` | Two chains that part at one block, two workers at a time, interleaved between what they read and what they write, and a node that may stop in between. What a worker inserts before the next block arrives, while no other worker is in an operation, stays in scope, with a value, for the workers of its descendants, whatever overlaps later (`InsertsInherited`): on one chain with any blocks skipped, and on a fork where no parent had to be recovered, if the worker of the first child met no conflict when it resolved the block where they part. |
| `worker` | Unboundedly many sessions, seven keys that are used again, three faults at any write. The routines implement the atomic key cycle (`RotationIsAtomic`), a worker without faults holds every key the chain has registered (`NothingOrphaned`), and keys keep being rotated whatever a crash left half written (`KeepsRotating`). |
| `plugin_models` | Every fixed-point function and every model. Roots square back, wherever the iteration stops (`RootsSquareBack`); logarithm and exponential undo each other and do not jump at whole numbers (`LogsAgree`); a power by logarithm lies between the exact whole powers next to it (`PowBetween`); models that grow never fall and those that decay never rise, up to saturation (`Monotone`); sigmoids pass where their contexts say, segments meet their ends, periodic rewards compound to the annual rate (`CurvesAsAsked`); greedy loads never fall, rankings do not depend on the scale, filters keep the top of the ranking (`ElectionsConsistent`); a payout is shared to the unit, penalties keep their order (`PartsFair`). |

Runs that are expected to find a violation state what the documentation or an
assertion says and the code does not do; each is a finding in `PROJECT.json`.

| Run | The statement that does not hold |
|---|---|
| `signed_declaration` | a declaration comes from "a signed account": the worker signs it, and `declare` admits only unsigned ones (`SignedDeclares`) |
| `skipped_entry` | "If Zero Amount Depositted due to low shares": `can_resolve_commit` lets such a commitment to an index pass, `withdraw_from_index` wants receipts for every entry (`SkippedEntryWithdraws`) |

Smaller disagreements met while modelling, without a run: `ModelCanWithdraw`
accepts receipts whose redemption does not fit the fixed-point type and
`ModelWithdraw` refuses; a receipt with more shares than that type can hold is
redeemed for less than shares times price; several `earn_xp` calls of one block
each advance a pulse below `MinPulse`, although the documentation calls them a
single step; the last holder's reward contains the others' rounding and can
exceed `AssetToIssue`; a commission taken from a reward leaves `AssetToIssue`
too high by it; the first commitment of a reason fails if its pool's split
leaves dust, which is subtracted from the reason's total before the deposit is
added; `pool_commit_value` is zero when the first slot is not funded and an
error when a later one is not; the share
of the only entry or slot cannot be changed; `ModelCanDeposit`
accepts zero and amounts worth less than a share, which `ModelDeposit` refuses;
`xp_eligibility` ignores the steps carried over and may announce more actions
than are needed; `earn_preview` always advances the pulse, `earn_xp` not in a
block in which the key already earned nor for an active key without a lock;
`deduct_balance` with `Fortitude::Polite` and best effort falls through to the
liquid points. `Stepper::new` takes a threshold of zero, for which the loop of
`increment` never ends. Penalties are rounded against the holder and can exceed
`AssetToReap`, and dust that a pool pays its manager is not counted there: such
a commitment cannot be resolved until others are.

In the authors pallet: `force_genesis_config` takes buffers of zero, which put a
reward or penalty on the block whose `on_initialize` is over (the model assumes
at least one); the penalty of an author nobody ever backed is discarded, because
`get_hold` wants both digests (`lib.rs:1346`), and one who lost all of its hold
and has no backers loses its rewards; `AuthorFunders` is not updated when the
slots of a pool change.

In the chain manager: `new_session(s + 2)` looks for the runner under the
session it plans, the runner is recorded under the one before (`session.rs:118`),
so that runners' points are never awarded, as the model has it; two elections in
one block are united and may exceed `MaxElected` (`election.rs:517`); in the
last block of the window an author may chill or resign as neither a candidate
nor elected (`roles.rs:170`) and be elected afterwards, which is why
`ElectedKeepsKey` leaves out that block; `reward_authors` reports success after
a failure too. `validate` registers for the author who signs whatever key the
payload names (`lib.rs:1751`), and `declare` writes the key of the session after
without asking whose it is or was (`lib.rs:1804`): an author loses its key to
another one who declares it, elected or not, and so `ElectedKeepsKey` leaves out
those whose key another has rotated to (`supplanted`). `AffidavitWorker` is about
one author whose keys nobody else names.

In the worker: with the affidavits ending at 80 % of the session, the branch
that gives up (`routines.rs:1389`) is not reached, as `DeclareAffidavit` fails
first once the window is closed, although the documentation says the state is
cleared then; with an end at 100 % and a session beyond its estimate it is, and
a worker whose keys become final only in the last block declares and gives up in
the same run, every session. `KeepsRotating` is therefore about affidavits that
end before the session may; `NothingOrphaned` and the refinement are about both.

In the fork graph, beyond what `InsertsInherited` claims: `add_to_scope` and
`remove_from_scope` read the branch, change it and write the whole of it back
without comparing (`forks.rs:1262`, `forks.rs:1313`), and the value is written
after the scope (`routines.rs:934`), although a conflict of two workers is to be
"resolved by promoting the later writer into a sibling branch" (`forks.rs:710`)
and `mutate` is to be "an atomic read-modify-write operation"
(`routines.rs:1000`), which it is only for a key in scope. So the workers of a
block and of its child, which share a branch, may lose each other's inserts on
one chain: if an insert counts although another operation overlapped it, TLC
finds the worker of block 2 about to insert one key, that of block 3 inserting
another with its value, and the first one writing back the branch without it, so
that the worker of block 4 does not see it. An insert into a branch that a
sibling's `start` has already read, or has led the block away from, is not in
the sibling's branch either.

Nor does it claim more about forks: the recovery of a block's parent begins
three blocks back and never asks for the branch two blocks back
(`forks.rs:1363`, `forks.rs:1390`), so on a fork a skipped block may cost a
scope; a second sibling that resolves the parent on a chain that is not the
highest opens a branch anew and the first one's inserts are not in it: with
`MAX_FORKS = 1` and without `ResolvedAlone` in `OneFork`, TLC finds the first
sibling's worker meeting a conflict at the block where the chains part,
inserting into the branch that was opened for it, and its child's worker without
that key once the second sibling's worker has led the block to another branch;
an insert made after the child's worker met a conflict, and went to a branch of
its own, is not seen there. The value itself is stored under the hash of the
item alone (`make_key`, `misc.rs:270`), the same in every branch: a worker reads
what the worker of a competing fork has written if both have the key in scope,
and a removal clears it for all, although the documentation says "Values are not
shared across competing forks." (`frame/suite/src/routines.rs:834`).

In the fixed-point functions and the plugin models:

* `fixed_pow` takes the logarithm in the type of its base, so that a number below
  one to a fractional power is `None` on an unsigned type (`fixedpoint.rs:1784`,
  `1648`), a case the domain table does not list.
* `saturated_into` keeps the inner value, and `FixedU64` has another `DIV` than
  `FixedI128` (`fixedpoint.rs:489`): on an asset of 32 bits or less
  `ExpDecayPayout` pays more than the initial reward, although it is "correct for
  both signed and unsigned" types (`rewards.rs:619`). The sigmoids and the
  piecewise payout use the same cast. The run uses a wide asset.
* `HalvingPayout` shifts by the index (`rewards.rs:561`): at the width of the asset
  the shift panics, or without overflow checks begins anew with the whole reward.
* `InverseProportionalPayout` pays zero where `k / (x + eps)` does not fit
  (`rewards.rs:1008`), so that the smallest input is paid less than the next.
* `BalancedModel` adds the average to the total (`elections.rs:486`): of two
  candidates with one total the one with fewer backers is first, although it
  "Rewards both high total support and broad distribution." (`elections.rs:430`).
* `SharesPay` gives back at most one unit per payee (`rewards.rs:1816`): a payout
  above `DIV` divided by the payees may lose units, one beyond the fixed-point
  type is not seen in full, although "Total distributed payout equals input
  payout." (`rewards.rs:1757`).

`Monotone`, `CurvesAsAsked` and `PartsFair` leave these cases out by conditions
that name them, or, where the asset is too wide for them, by the instance.

### Bounds

In the runs of the pallets over the lazy balance:

* `DIV`, `MaxInner`, `MaxAsset`, `MaxTime`: precision and width of the
  fixed-point type, of the asset and of the checkpoint. The runtime has
  10^9, 2^64 − 1, 2^128 − 1 and 2^32 − 1. What matters is that they are
  small against the amounts: with `DIV = 4`, `MaxInner = 9` most quotients are
  rounded, prices above 2.25 overflow, integers above 2 saturate when lifted,
  and the checkpoint counter reaches its maximum after three drains. As in the
  runtime, the fixed-point type holds less than the asset type.
* `Ids` (3): one receipt to act, one to be affected and one so that the second
  is not the last. They are symmetric: nothing distinguishes them.
* `MaxXp`, `MaxPulse`: the widths of points and pulses, small enough for every
  checked and saturating addition to meet its limit.
* `MaxBlock`: the last block. Only the order of the block number, the record's
  last block and `MinTimeStamp` is read; two blocks after genesis give every
  order. `MinTimeStamp` is any past block (`force_genesis_config` checks that).
* `Amounts`: zero, one, and amounts that round, exhaust and overflow.
* `MaxCommits`: at most two receipts in a commitment, so that the third raise
  meets the bound and a withdrawal follows another within one resolve.
* `MaxAdjust`: how far `SetDigestValue` may let `AssetToIssue`, `AssetToReap`
  and the value granted in all grow. Without it the supply grows from run to
  run of mint and resolve up to `MaxAsset` for every proprietor. It restricts
  only an operation of the digest's owner, never a proprietor's.
* `Reserves`: what a call to deposit or withdraw a reserve may carry, apart from
  withdrawing all of it. Empty in the index and pool runs, where the reserve
  enters only through `deduct_balance`, which `commit_digest` covers.
* `Indexes`, `Pools`: two indexes, so that a change of an entry has an id to go
  to; one pool, whose slots compete with direct commitments for two digests.
* `ShareValues`, `MaxShares`, `MaxIndexEntries`: equal and unequal shares of two
  entries; with `Amounts = {2}` the parts are 2, 1 and 0 and the remainder 0 or 1.
* `MaxTime = 1` there: one drain can be told from none. The widths are the
  smallest at which every action of `CommitPool` fires; both runs would
  otherwise exceed a few hundred thousand states.
* `ACCURACY`, `Commissions`: a commission of one half, which rounds.
* `Funds`: what each proprietor starts with, less than `MaxAsset` so that both
  running out and overflowing happen.

In the others:

* `MaxBlock = 3`, `MaxPending = 2`, `MaxRisk = 3` (`Authors`): two obligations at
  a time let one displace another to the next block; with buffers of 1 and 2 and
  the configuration swapped, later decisions are due before earlier ones.
  `MaxRisk` ends the growth of `risk_until`. `Perbill = 4` and holdings of 0 to 2
  on each side make every split round. Only one of the two authors rises, leaves
  and is judged; the other is there to share funders and an index.
* `SessionLength = 3`, `MaxBlock = 6` (`ChainManager`): three sessions, so that
  what the first leaves behind meets the election of the second; the window
  covers two of three blocks and the election can be run twice. Two keys, either
  of which each author may name: one to declare with and one to rotate to, its own
  or the other author's. Authors are alike, and so are keys (symmetry).
  `MaxElected = 1` makes
  the cut, a payout of 4 over 3 or 5 points the rounding.
* The tree of `Forks`: four blocks on one branch and one besides, enough to
  skip two in a row and to recover. `MAX_FORKS = 0` leaves one slot, so that the
  second worker that needs one under the same branch is refused. `MaxRunning = 2`:
  a conflict takes two. `MaxOps = 3` operations on the storage: an insert and two
  that overlap afterwards, over two keys that are alike (symmetry), so that one
  may write over the other's.
* `AffidavitWorker`: sessions of 5 or 6 blocks of which 4 or 5 take affidavits,
  finality after 2 blocks and 2 more observations, so that both keys become
  final within a session or just not; seven keys suffice, as no more are ever
  in use, and let sessions go on for ever; `MaxFaults = 3`: a fault may hit the
  recovery from the recovery from a fault.
* `PluginModels`: the fixed-point types have a `DIV` of 1000 and reach up to 1400
  (unsigned) and 1100 (signed), so that the largest inner value is above `DIV`
  squared as in the code and the same products fit; the asset has 16 bits, more than the fixed-point
  type holds, as `u128` over `FixedU128`. Arguments are all small numbers, both
  sides of every whole and half one up to 31, near-squares over the whole range
  and the extremes; inputs of the models reach from 0 to saturation; lists have up
  to three elements, ballots share backers and reach the width of the asset.
  Tolerances in the properties are counted in units of the last place, multiplied
  where the code multiplies its own rounding errors.

## 4. Proofs

Every safety property that the runs `share_ledger`, `xp`, `commit_digest`,
`commit_index`, `commit_pool`, `authors`, `chain` and `worker` check is also a
theorem, for every value of the constants that the assumptions admit. These are
what the code's types and configuration demand (widths are natural numbers, `DIV`
is positive and representable, a fixed-point number fits an asset, ratios are at
most one, windows begin before they end), and that what the sums run over is
finite: receipts, reasons, proprietors, digests, authors. The bounds that only serve TLC
(`MaxAdjust`, `MaxPending`, `MaxBlock`, `MaxFaults`) are universally quantified
as well.

In each module an inductive invariant holds initially and is kept by every step;
the properties follow from it. None of the properties is inductive alone.

**`SumTheorems`.** The sum of a function over a finite set folds the set in an
order that `CHOOSE` fixes. The modules need that it does not depend on the
order: it moves by the difference when an entry is written (`SumPut`), bounds
its parts, keeps inequalities and is linear (`SumLinear`). The library's
induction theorems take an operator as a parameter, which no prover here
instantiates; `NatInd` and `FiniteInd` state induction of a *set* of numbers and
of a family of sets instead, and follow from the existence of minimal elements
in well-founded orders. That such a fold exists at all is proved the same way
(`FoldExists`, `FoldUnique`).

**`ShareBalanceTheorems`.** What each model of a lazy balance does to a
`SoundBalance`: solvent, reset if empty, written only once there was a deposit.
The lemmas about its arithmetic say in which direction each rounding goes: the
shares of a deposit times the price are at most the deposit, the new price times
the shares at most the new value, the payout times `DIV` at most shares times
price. They are non-linear; each isolates the one product the solver needs. Those
about `DigestReceipts` concern the receipts of one commitment, which are withdrawn
one after the other: `Chain` is that fold, and `Progress` what holds after each of
them. The balance is sound, has lost the shares and the value of the receipts so
far, and has paid at least what these were quoted as (`QuoteIsPaid`). A receipt
that passes alone also passes after those before it, if the shares are there
(`PassTogether`), and all of them together take no more than the part of the
balance that their shares are (`WithdrawnCovered`), the last one's dust included.

**`ShareLedgerProofs`.** `Solvent` is not inductive as it stands. A withdrawal
lowers `issued` by the receipt's shares and `effective` by what is paid, so that
solvency survives only if the payout is at most shares times price, and the dust
rule applies only if all other shares are gone; the reset of the price
afterwards is harmless only if nothing is left (`EmptyMeansReset`); a mint into
an empty balance must not be possible, which needs that a balance nobody
deposited into has not been written (`FreshUntilDeposit`). `IInv` is the
conjunction of `TypeOK`, `FreshUntilDeposit`, `Solvent`, `ReceiptBacked`,
`EmptyMeansReset` and `Conservation`. `LedgerInv` adds that the issued shares are
those of the receipts (`SharesIssued`, a sum), and the order of the drain point,
the checkpoints of the receipts and the checkpoint of the balance (`Timeline`).
`DrainsAreSeen` follows, and `NobodyDiluted`: a withdrawal takes at most its own
shares at the price, so that with solvency the shares of the others are still
covered.

**`XpProofs`.** `IInv` adds one conjunct to the properties, `DatedToday`: a key
that was multiplied in this block is dated to it. `ScaledOncePerBlock` follows,
because a record dated to this block is either below `MinPulse` or takes the
same-block branch, whatever root has done to `MinPulse` since. The invariants
support each other: that a key can be created only without a previous owner
needs the last part of `OneOwner`, and that a disposed key leaves nothing behind
needs that a vector without entries is the empty one. Almost all calls are about
one existing key; `KeyStep` states once what such a call may touch, the lemmas
for `set_xp`, `set_reserve`, `set_lock` and `burn_lock` instantiate it, and each
operation is one of those. `BooksKept` sums the entries of each vector by
`SumTheorems`. `AnnouncementHolds` is about a function and not about steps: as
many increments as `xp_eligibility` announces reach the minimum, by induction
over the increments, for every stepper that `Stepper::new` admits
(`FactorAccepted`).

**`CommitmentProofs`.** Four parts, on each other. What their invariants consist of,
and what they say of one step, is defined in `CommitmentInvariants`.

*Direct commitments.* `CommitmentInv` is `TypeOK`, `BalancesSound`,
`ReceiptsCount` (no receipt is without shares), `DigestBooks` and
`ReceiptsHoldShares`. `ReceiptsCount` is what keeps `reap_digest` from stranding
a commitment: the call asks whether shares are issued, and these are the sum of
the receipts' (`CommittedIsIssued`). A sound balance without deposits is
worth nothing, in any variant, so that what `Remaining` finds in the last one
(zero) is all that leaves the books (`NothingRemains`). Sums over variants,
digests, proprietors and reasons move by the difference when one digest or one
commitment changes (`DigestMoves`, `CommitmentMoves`); a deposit, a withdrawal
and a settlement say what that difference is; each action is an instance. The
withdrawal of a commitment folds over its receipts; `QuotesAreKept` and the second
half of `ChecksMatch` follow from `Progress` and `PassTogether`.

The direct calls are also the direct calls of `CommitIndex` and `CommitPool`,
where digests have other holders. So the steps are proved once, of `CoreInv(o)`,
in which `o` says what those others hold: the shares of each digest, what is
frozen for them, the ids commitments may name, and the gap they leave in the
books. `OnlyDirect` is the case that nobody else holds anything, and gives
`CommitmentInductive`; `Seen` says what `o` has to be in the other two modules.
A direct call leaves `o` as it was.

*Indexes.* `IndexInv` is the typing of the storage, `BalancesSound`, the three
properties `EntriesAccounted`, `Books` and `IndexReceiptsHoldShares`, and two
facts about receipts: a direct commitment names a digest that exists and has
shares in every receipt (`DirectBacked`); a commitment to an index has none of its
own and shares in every receipt of its entries (`EntriesCount`). New here is that
one call writes several balances, several receipts and the sums over both.
`PutAll` is the map of digests with all of them written, `EntriesMove` says by
what the receipts of one proprietor change, and each sum moves by the sum of the
differences (`PutAllValue` and the lemmas on `EntriesMove`). `IndexMoves` puts
these together for one commitment to one index, and placing, raising and
resolving are its instances. The entries of a withdrawal pay from different
digests, so that each is a `Progress` of its own.

*Quotes of indexes.* A quote is at most what the shares are worth at the
balance's price, rounded down (`ReceiptBound`), all holders' shares in a variant are
the balance's (`IndexReceiptsHoldShares`), and a sound balance is solvent: so in
each variant what direct commitments and entries are told stays within
the balance, and the sum over variants within the digest (`DigestClaims`). The
difficulty is bookkeeping: the same receipts are summed by holder, by index and
by variant.

*Pools.* Every call that changes a pool withdraws all of its slots, changes the
pool, and pays into the slots again. `ReleasedTo` says what the digests hold in
between, `RecoveredTo` what they hold after, and `DigestsMove` the two together:
each digest has the shares of the new slots for those of the old, and the reason
has gained what was paid less what was withdrawn. `CommitsFit` says what the
commitments do meanwhile, and `PoolMoves` is a whole call. `PoolInv` is the typing
of the storage, soundness of every balance, of digests and of pools,
`DirectBacked`, `SlotsCount` (a slot in use has a receipt that paid something, at a
price, and has shares; a pool never paid into uses none) and the properties `SharesOwned`,
`PoolInvested` and `Books`. `SlotsCount` is needed because a release skips slots
without a receipt: one with shares and no principal would keep its shares in the
digest, and belong to nobody. `PoolInvested` is needed by `Books`: the totals lose
what the slots pay, while the balance of the pool is set to it. What the proofs
carry from step to step is `PoolCore`, which is `PoolInv` with its sums written
over proprietors and over pools instead of over the keys of maps, so that a pool
or a commitment that comes or goes does not change what is summed over;
`PoolCoreGives` leads back. As in `commit_pool`, nobody is committed to an index
meanwhile (`EntryMap` is empty): an index is only what a pool is set up from.

*Quotes of pools.* A pool answers a quote only if every slot does; then all are in
use, and their worth is what a release brings back (`PoolQuoted`). So the balance
that the query adjusts on a copy is the released one, and pays what the
withdrawal pays. By `WithdrawnCovered` each proprietor is told at most the part of
that balance its shares are, and by `SharesOwned` these are all there are, so that
the quotes add up to no more than the slots are worth (`PoolClaims`). That what a
pool is worth is a number at all (`PoolValueTyped`) is why `SlotsCount` mentions the
price: a receipt without one would be valued by a division by zero. The check
looks at the balance as it was left, which has the shares of the released one
(`PoolChecks`).

The sums over indexes and pools have to be finite (`IndexesFinite`,
`PoolsFinite`): the ids are hashes of a fixed width.

**`AuthorsProofs`.** `PendingVisible` and `NoEscape` need each other: an author
resigns after `has_penalty` found nothing in the range it searches, so that
nothing may be scheduled beyond, whatever buffers root installed in between. `IInv` adds that a
commitment names the digests it is in (`BackingFollows`), from which
`FundersListed` follows, and that a digest nobody holds is worth nothing
(`UnheldIsEmpty`), without which a penalty could not be written in full.
`AppliedInFull` is an action property: the two writes of `set_hold`, each
rounded, together change the hold by the reward or penalty that is due.

**`ChainManagerProofs`.** `ElectionCurrent` needs to know where entries can be:
keys and affidavits are kept of the sessions to come only (`EntriesToCome`), a
rotated key is registered by nothing but a declaration of the author it is
registered for, whoever had it before (`RotatedHasDeclared`), every candidate
keeps one until the window closes, but for the supplanted ones
(`CandidatesKeepKey`), and whoever was elected since the session began is a
candidate of the coming one (`ElectedSinceStart`). No key has an owner in the
model or in the invariant: any author may name any key.

`SettledInFull` has an invariant of its own, `SessionsSettled`: sessions follow
each other without a gap and every block of the current one has given a point.
The sum that `SharesPay` pays is bounded from both sides by `SumLinear`: each
payee loses less than one unit of the fixed-point type to the first rounding and
less than one of the asset to the second, and gets at most one back. So the
statement is not true of every payout: `SessionsArePaid` says, without further
assumption, that no session is paid more than `Payout`, and is paid to the unit
if the number of its payees times `Payout` is at most `Fixed`;
`EverySessionSettled` concludes `SettledInFull` where that holds for all
authors. Beyond it units are lost (with `Fixed = 11`, `Payout = 10` and three
equal payees, one is; see section 3).

**`AffidavitWorkerProofs`.** `PlaceInv` says for each place of the worker what
the slots hold there: which are readable, which are empty, which key is on its
way. With it every write maps to a step of `KeyCycle` or to a stutter
(`Refinement`); the crash, which may come at any place, maps to a stutter or to
a loss. `KeepsRegistered` is about runs without faults (`FaultFreeInv`): a
declaration that can still be included names the two keys the node has, or was
already followed by the rotation; that needs that the keys of two sessions are
apart and that a registration is seen in the block that includes it.

The type invariants, `EmptyMeansReset` and `NoEmptyLock` are proved and therefore
not checked by a run as well.

Left to TLC:

* `KeepsRotating`, because liveness under fairness is out of the prover's reach.
* The properties of `PluginModels`, which are about what iterations (roots,
  logarithms, powers, sorting, the curves) compute from their inputs: induction
  over data.
* `InsertsInherited` of `Forks`. It is no property of every value of the
  constants: a recovery that may go back over fewer blocks than lie without a
  worker begins an empty branch (with `MAX_RECOVER_TRAVERSAL = 0` TLC refutes it).
  A theorem needs the order on branches and the reach of a recovery among its
  hypotheses.

## 5. Not modelled, and why

* Key and digest identifiers are hashes of account and nonce; a creation picks
  an unused identifier.
* `call` of the XP pallet dispatches another pallet's call; `decrement` has no
  caller.
* Events, weights, benchmarks, RPC, node start-up: no state the pallets read.
* Plugin and virtual-structure macros: they select an implementation at compile
  time. The closures of `fixedpoint.rs` over a signed workspace, which nothing
  calls.
* `set_commit_variant` on commitments to indexes and pools: it resolves and places
  again in one call, and both are actions, so that it ends in no state that these
  do not reach one after the other.
* Funding of authors through pools: the pool is `CommitPool`'s, and the calls of
  the authors pallet only pass it on; `update_slot_shares` among them.
* Reports of offences (`offence.rs`), which end in `Penalize` of `Authors`;
  changes of the windows by root, which take effect at a session's end; the
  priorities of unsigned transactions.
* Corrupt encodings in the off-chain database; the logger.
* Plugin models on signed assets and the conversions of signed integers: every
  asset of the pallets is unsigned. `base.rs` only bounds types.
* More than half of the repository's lines are documentation, tests, mocks and
  benchmarks inside the source files; they are not modelled, but were read for
  what the code is meant to do.

## 6. Plan

1. `ShareBalance`, `ShareLedger`, `Xp`, their proofs: done.
2. `Commitment`, `CommitIndex`, `CommitPool`: done.
3. `Authors`, `ChainManager`, `Forks`, `AffidavitWorker` with `KeyCycle`: done.
4. `FixedPoint`, `FixedMath`, `Curves`, `Rankings`, `PluginModels`, and the queries
   and checks of the commitment pallet: done.
5. Proofs of `ShareLedger`, `Xp`, `Commitment`, `Authors`, `ChainManager` and
   `AffidavitWorker`: done, for every safety property their runs check.
6. Proofs of `CommitIndex` and `CommitPool`: done.
7. `InsertsInherited` of `Forks`: an order on branches by their dividers, and that
   a scope is a prefix-closed part of it.
