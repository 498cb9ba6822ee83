------------------------------- MODULE Authors -------------------------------
(***************************************************************************)
(* pallet-authors: the life cycle of an author (enlisted on probation,     *)
(* permanent, resigned, enlisted again), the collateral and the funding    *)
(* behind it, and the rewards and penalties that are scheduled now and     *)
(* applied by on_initialize of a later block.                              *)
(*                                                                         *)
(* The commitment pallet is used through its promises (module Commitment): *)
(* a digest is a value and the set of those who hold its shares; a digest  *)
(* that nobody holds is worth nothing and cannot be minted to, one that    *)
(* was drained takes no deposit, and leaving a digest pays some part of    *)
(* its value, all of it to the last holder.  Whether an account can afford *)
(* a deposit, and whether the chain manager lets an author go (is_idle),   *)
(* is left open: such a call may fail, and a call that fails is no step.   *)
(***************************************************************************)
EXTENDS Integers, FiniteSets, Functions

CONSTANTS Author,       \* accounts that may enlist; also their digests
          Judged,       \* bound: the authors who rise, leave, are rewarded and
                        \* penalized; the others enlist and are funded
          Backers,
          Indexes,      \* digests of indexes of authors
          Perbill,      \* the denominator of T::Ratio
          MaxAsset,     \* largest asset value
          Amounts, Rewards, Factors,    \* what calls may carry
          Configs,      \* the parameters root may install
          MaxBlock,     \* bound: the last block of a behaviour
          MaxPending,   \* bound: rewards and penalties scheduled at a time
          MaxRisk       \* bound: the block up to which an author may be at risk

ASSUME AuthorsAssumption ==
    /\ Perbill \in Nat \ {0}
    /\ MaxAsset \in Nat
    /\ MaxBlock \in Nat \ {0}
    /\ MaxPending \in Nat
    /\ MaxRisk \in Nat
    /\ Amounts \subseteq 1 .. MaxAsset
    /\ Rewards \subseteq Nat
    /\ Factors \subseteq 1 .. Perbill
    /\ Configs \subseteq
         [ProbationPeriod : Nat, ReduceProbationBy : Nat, IncreaseProbationBy : Nat,
          RewardsBuffer : Nat \ {0}, PenaltiesBuffer : Nat \ {0},
          MinCollateral : Nat \ {0}, MinFund : Nat \ {0}, MaxExposure : Nat]
    /\ Judged \subseteq Author
    /\ Author \cap Indexes = {}

VARIABLES
    now,            \* the block number
    config,         \* the parameters in force
    AuthorsMap,     \* author -> its record, for those ever enlisted
    collateral,     \* author -> value of its AuthorCollateral digest, if there is one
    funding,        \* author -> value of its AuthorFunding digest, if there is one
    backing,        \* backer -> what it is committed to, if it is
    entriesOf,      \* index -> the authors of its entries, if it exists
    AuthorFunders,  \* <<author, backer>> -> the digest the backer used
    AuthorRewards, AuthorPenalties,     \* <<block, author>> -> what is due then
    RewardsUntil, PenaltiesUntil

vars == <<now, config, AuthorsMap, collateral, funding, backing, entriesOf,
          AuthorFunders, AuthorRewards, AuthorPenalties, RewardsUntil, PenaltiesUntil>>

digests     == <<collateral, funding>>
funds       == <<backing, entriesOf, AuthorFunders>>
obligations == <<AuthorRewards, AuthorPenalties, RewardsUntil, PenaltiesUntil>>

Statuses == {"Active", "Probation", "Resigned"}

AuthorInfo == [status : Statuses, status_since : Nat, risk_until : Int]

\* AuthorInfo::new, and re_enroll, which keeps only the digest.
NewInfo == [status |-> "Probation", status_since |-> now, risk_until |-> now]

-----------------------------------------------------------------------------
(* Helpers *)

Put(f, x, v) == [y \in DOMAIN f \cup {x} |-> IF y = x THEN v ELSE f[y]]

Remove(f, S) == Restrict(f, DOMAIN f \ S)

Nothing == [x \in {} |-> 0]

role_exists(a) == a \in DOMAIN AuthorsMap

is_status(a, s) == role_exists(a) /\ AuthorsMap[a].status = s

enrolled(a) == role_exists(a) /\ AuthorsMap[a].status # "Resigned"

\* The value of a digest to which x is added, if there is one yet.
Deposited(f, a, x) == Put(f, a, (IF a \in DOMAIN f THEN f[a] ELSE 0) + x)

\* The backers with shares of a's funding digest.
Holders(a) == {b \in DOMAIN backing : a \in backing[b].in}

\* A digest whose shares have lost all their value takes no deposit.
TakesDeposit(f, a, held, x) ==
    /\ (a \in DOMAIN f /\ held) => f[a] # 0
    /\ a \in DOMAIN f => f[a] + x <= MaxAsset

mul_floor(p, x) == (p * x) \div Perbill

mul_ceil(p, x) == (p * x + Perbill - 1) \div Perbill

\* PerThing::from_rational of a part of a whole: rounded down, and one when
\* there is no whole.
from_rational(p, q) == IF q = 0 THEN Perbill ELSE (p * Perbill) \div q

\* has_reward and has_penalty search the blocks after this one up to the last
\* block that anything was scheduled for.
has_pending(map, until, a) ==
    \E n \in now + 1 .. until : <<n, a>> \in DOMAIN map

\* Mutant: the last block is left out of the search.
has_penalty_before(a) == has_pending(AuthorPenalties, PenaltiesUntil - 1, a)

has_penalty(a) == has_pending(AuthorPenalties, PenaltiesUntil, a)

has_reward(a) == has_pending(AuthorRewards, RewardsUntil, a)

is_available(a) ==
    /\ enrolled(a)
    /\ a \in DOMAIN collateral
    /\ collateral[a] >= config.MinCollateral

-----------------------------------------------------------------------------
(* The life cycle *)

can_enroll(a, c) ==
    /\ role_exists(a) => is_status(a, "Resigned") /\ ~ has_reward(a)
    /\ c >= config.MinCollateral

\* enlist.  Where the digest's limits do not admit c, the minimum is placed.
Enroll(a, c) ==
    /\ can_enroll(a, c)
    /\ AuthorsMap' = Put(AuthorsMap, a, NewInfo)
    /\ \E actual \in {c, config.MinCollateral} :
          /\ TakesDeposit(collateral, a, FALSE, actual)
          /\ collateral' = Deposited(collateral, a, actual)
    /\ UNCHANGED <<now, config, funding, funds, obligations>>

\* refill, whatever the author's status, as long as there is collateral.
AddCollateral(a, x) ==
    /\ enrolled(a)
    /\ TakesDeposit(collateral, a, TRUE, x)
    /\ collateral' = Deposited(collateral, a, x)
    /\ UNCHANGED <<now, config, AuthorsMap, funding, funds, obligations>>

can_be_permanent(a) ==
    /\ is_status(a, "Probation")
    /\ AuthorsMap[a].status_since + config.ProbationPeriod <= now
    /\ AuthorsMap[a].risk_until <= now

\* confirm: set_status(Active), through set_permanence.
Confirm(a) ==
    /\ can_be_permanent(a)
    /\ AuthorsMap' = [AuthorsMap EXCEPT ![a].status = "Active"]
    /\ UNCHANGED <<now, config, digests, funds, obligations>>

can_resign(a) == is_status(a, "Active") /\ ~ has_penalty(a)

\* demit, and set_status(Resigned): the collateral commitment is resolved.
Resign(a) ==
    /\ can_resign(a)
    /\ AuthorsMap' = [AuthorsMap EXCEPT ![a].status = "Resigned"]
    /\ collateral' = [collateral EXCEPT ![a] = 0]
    /\ UNCHANGED <<now, config, funding, funds, obligations>>

can_revoke_permanence(info) ==
    info.status = "Active" /\ info.risk_until > now + config.ProbationPeriod

revoke_permanence(info) == [info EXCEPT !.status = "Probation", !.status_since = now]

\* set_status(Probation).
RevokePermanence(a) ==
    /\ role_exists(a)
    /\ can_revoke_permanence(AuthorsMap[a])
    /\ AuthorsMap' = [AuthorsMap EXCEPT ![a] = revoke_permanence(@)]
    /\ UNCHANGED <<now, config, digests, funds, obligations>>

-----------------------------------------------------------------------------
(* Funding: directly, or through an index of authors *)

\* create_index names authors by the digests of their collateral.
CreateIndex(i, S) ==
    /\ i \notin DOMAIN entriesOf
    /\ S # {}
    /\ \A a \in S : enrolled(a)
    /\ entriesOf' = Put(entriesOf, i, S)
    /\ UNCHANGED <<now, config, AuthorsMap, digests, backing, AuthorFunders, obligations>>

\* What those who leave the digests S may be paid: the last holder gets all.
Payouts(S, leaving) ==
    {w \in [S -> 0 .. MaxAsset] :
        \A a \in S : /\ w[a] <= funding[a]
                     /\ Holders(a) \subseteq leaving => w[a] = funding[a]}

WithoutPaid(w) == [a \in DOMAIN funding |-> IF a \in DOMAIN w THEN funding[a] - w[a] ELSE funding[a]]

\* Each of the authors S gets x.
FundedBy(f, S, x) ==
    [a \in DOMAIN f \cup S |-> IF a \in S THEN Deposited(f, a, x)[a] ELSE f[a]]

\* can_fund: of an index only the author of the first entry is asked
\* for, which is some entry.
can_fund(b, to, S, x) ==
    /\ \E a \in S : is_available(a)
    /\ x >= config.MinFund
    /\ x <= config.MaxExposure
    /\ b \in DOMAIN backing => backing[b].to = to

\* back: the first commitment, or a raise of it.  Every entry gets x.
Fund(b, to, S, x) ==
    /\ can_fund(b, to, S, x)
    /\ \A a \in S : TakesDeposit(funding, a, Holders(a) # {}, x)
    /\ funding' = FundedBy(funding, S, x)
    /\ backing' = Put(backing, b, [to |-> to, in |-> S])
    /\ AuthorFunders' = [y \in DOMAIN AuthorFunders \cup (S \X {b}) |->
                            IF y \in S \X {b} THEN to ELSE AuthorFunders[y]]
    /\ UNCHANGED <<now, config, AuthorsMap, collateral, entriesOf, obligations>>

FundDirect(b, a, x) == Fund(b, a, {a}, x)

FundVia(b, i, x) == i \in DOMAIN entriesOf /\ Fund(b, i, entriesOf[i], x)

\* Mutant: exit forgets the backer for the author of the first entry only.
DrawFirst(b) ==
    /\ b \in DOMAIN backing
    /\ \E w \in Payouts(backing[b].in, {b}) : funding' = WithoutPaid(w)
    /\ backing' = Remove(backing, {b})
    /\ \E a \in backing[b].in : AuthorFunders' = Remove(AuthorFunders, {<<a, b>>})
    /\ UNCHANGED <<now, config, AuthorsMap, collateral, entriesOf, obligations>>

\* exit, whatever the status of the authors.
Draw(b) ==
    /\ b \in DOMAIN backing
    /\ \E w \in Payouts(backing[b].in, {b}) : funding' = WithoutPaid(w)
    /\ backing' = Remove(backing, {b})
    /\ AuthorFunders' = Remove(AuthorFunders, backing[b].in \X {b})
    /\ UNCHANGED <<now, config, AuthorsMap, collateral, entriesOf, obligations>>

-----------------------------------------------------------------------------
(* Obligations *)

\* risk_permanence and risk_probation.
at_risk(info) ==
    [info EXCEPT !.risk_until =
        (IF @ < now THEN now ELSE @) + config.IncreaseProbationBy]

\* secure_permanence.
secured(info) ==
    [info EXCEPT !.risk_until = IF @ > now THEN @ - config.ReduceProbationBy ELSE @]

\* What a penalty does to the standing of an author.
penalized(info) ==
    LET risked == at_risk(info)
    IN  IF can_revoke_permanence(risked) THEN revoke_permanence(risked) ELSE risked

\* n is the first block from m on for which a has nothing scheduled.
next_free(map, a, m, n) ==
    /\ <<n, a>> \notin DOMAIN map
    /\ \A j \in m .. n - 1 : <<j, a>> \in DOMAIN map

Later(until, n) == IF n > until THEN n ELSE until

WithinPending ==
    Cardinality(DOMAIN AuthorRewards) + Cardinality(DOMAIN AuthorPenalties) < MaxPending

\* Mutant: the end of the schedule does not follow a penalty that moved on.
PenalizeAtBuffer(a, factor) ==
    /\ enrolled(a)
    /\ WithinPending
    /\ penalized(AuthorsMap[a]).risk_until <= MaxRisk
    /\ AuthorsMap' = [AuthorsMap EXCEPT ![a] = penalized(@)]
    /\ \E n \in now + config.PenaltiesBuffer .. MaxBlock :
       /\ next_free(AuthorPenalties, a, now + config.PenaltiesBuffer, n)
       /\ AuthorPenalties' = Put(AuthorPenalties, <<n, a>>, factor)
       /\ PenaltiesUntil' = Later(PenaltiesUntil, now + config.PenaltiesBuffer)
    /\ UNCHANGED <<now, config, digests, funds, AuthorRewards, RewardsUntil>>

\* penalize: the standing suffers now, the hold later.
Penalize(a, factor) ==
    /\ enrolled(a)
    /\ WithinPending
    /\ penalized(AuthorsMap[a]).risk_until <= MaxRisk
    /\ AuthorsMap' = [AuthorsMap EXCEPT ![a] = penalized(@)]
    /\ \E n \in now + config.PenaltiesBuffer .. MaxBlock :
       /\ next_free(AuthorPenalties, a, now + config.PenaltiesBuffer, n)
       /\ AuthorPenalties' = Put(AuthorPenalties, <<n, a>>, factor)
       /\ PenaltiesUntil' = Later(PenaltiesUntil, n)
    /\ UNCHANGED <<now, config, digests, funds, AuthorRewards, RewardsUntil>>

\* forgive: only what is still to come.
Forgive(a, n) ==
    /\ enrolled(a)
    /\ n > now
    /\ <<n, a>> \in DOMAIN AuthorPenalties
    /\ AuthorPenalties' = Remove(AuthorPenalties, {<<n, a>>})
    /\ AuthorsMap' = [AuthorsMap EXCEPT ![a] = secured(@)]
    /\ UNCHANGED <<now, config, digests, funds, AuthorRewards, RewardsUntil, PenaltiesUntil>>

\* reward.
Reward(a, value) ==
    /\ enrolled(a)
    /\ WithinPending
    /\ AuthorsMap' = [AuthorsMap EXCEPT ![a] = secured(@)]
    /\ \E n \in now + config.RewardsBuffer .. MaxBlock :
       /\ next_free(AuthorRewards, a, now + config.RewardsBuffer, n)
       /\ AuthorRewards' = Put(AuthorRewards, <<n, a>>, value)
       /\ RewardsUntil' = Later(RewardsUntil, n)
    /\ UNCHANGED <<now, config, digests, funds, AuthorPenalties, PenaltiesUntil>>

\* reclaim, whatever the author's status.
Reclaim(a, n) ==
    /\ role_exists(a)
    /\ n > now
    /\ <<n, a>> \in DOMAIN AuthorRewards
    /\ AuthorRewards' = Remove(AuthorRewards, {<<n, a>>})
    /\ UNCHANGED <<now, config, AuthorsMap, digests, funds, AuthorPenalties, RewardsUntil, PenaltiesUntil>>

-----------------------------------------------------------------------------
(* on_initialize: what is due is applied to the hold of its author, the      *)
(* rewards of the block before its penalties.                                *)

\* get_hold: defined when both digests exist.
HasHold(a) == a \in DOMAIN funding /\ a \in DOMAIN collateral

\* An author's hold: the funding part and the collateral part.
hold(h) == h.f + h.c

\* set_digest_value fails on a digest that nobody holds and on one that would
\* exceed the asset type; a value that does not change never fails.
Settable(old, value, held) == value = old \/ (held /\ value <= MaxAsset)

\* Mutant: each part is scaled and rounded for itself.
set_hold_apart(a, h, value) ==
    LET ratio == from_rational(h.f, hold(h))
    IN  [f |-> mul_floor(ratio, value), c |-> mul_floor(Perbill - ratio, value)]

\* set_hold splits the value in proportion of the parts and writes the funding
\* digest first; nothing is undone when the collateral digest then refuses.
set_hold(a, h, value) ==
    LET ratio == from_rational(h.f, hold(h))
        f     == mul_ceil(ratio, value)
        c     == IF value > f THEN value - f ELSE 0
    IN  IF ~ Settable(h.f, f, Holders(a) # {}) THEN h
        ELSE IF ~ Settable(h.c, c, enrolled(a)) THEN [h EXCEPT !.f = f]
        ELSE [f |-> f, c |-> c]

rewarded(a, h, n) ==
    IF <<n, a>> \in DOMAIN AuthorRewards
    THEN set_hold(a, h, hold(h) + AuthorRewards[<<n, a>>]) ELSE h

punished(a, h, n) ==
    IF <<n, a>> \in DOMAIN AuthorPenalties
    THEN set_hold(a, h, hold(h) - mul_floor(AuthorPenalties[<<n, a>>], hold(h))) ELSE h

settled(a, n) ==
    LET h == [f |-> funding[a], c |-> collateral[a]]
    IN  punished(a, rewarded(a, h, n), n)

\* The block begins; what was due is removed whether it was applied or not.
OnInitialize ==
    LET n   == now + 1
        due == {y \in DOMAIN AuthorRewards \cup DOMAIN AuthorPenalties : y[1] = n}
        new(a) == IF HasHold(a) /\ <<n, a>> \in due THEN settled(a, n)
                  ELSE [f |-> IF a \in DOMAIN funding THEN funding[a] ELSE 0,
                        c |-> IF a \in DOMAIN collateral THEN collateral[a] ELSE 0]
    IN
    /\ n <= MaxBlock
    /\ now' = n
    /\ funding' = [a \in DOMAIN funding |-> new(a).f]
    /\ collateral' = [a \in DOMAIN collateral |-> new(a).c]
    /\ AuthorRewards' = Remove(AuthorRewards, due)
    /\ AuthorPenalties' = Remove(AuthorPenalties, due)
    /\ UNCHANGED <<config, AuthorsMap, funds, RewardsUntil, PenaltiesUntil>>

\* force_genesis_config.
ForceGenesisConfig(c) ==
    /\ c # config
    /\ config' = c
    /\ UNCHANGED <<now, AuthorsMap, digests, funds, obligations>>

-----------------------------------------------------------------------------

Init ==
    /\ now = 1
    /\ config \in Configs
    /\ AuthorsMap = Nothing
    /\ collateral = Nothing
    /\ funding = Nothing
    /\ backing = Nothing
    /\ entriesOf = Nothing
    /\ AuthorFunders = Nothing
    /\ AuthorRewards = Nothing
    /\ AuthorPenalties = Nothing
    /\ RewardsUntil = 0
    /\ PenaltiesUntil = 0

Next ==
    \/ OnInitialize
    \/ \E c \in Configs : ForceGenesisConfig(c)
    \/ \E a \in Author :
        \/ \E x \in Amounts : Enroll(a, x) \/ AddCollateral(a, x)
    \/ \E a \in Judged :
        \/ Confirm(a)
        \/ RevokePermanence(a)
        \/ Resign(a)
        \/ \E p \in Factors : Penalize(a, p)
        \/ \E v \in Rewards : Reward(a, v)
        \/ \E n \in 1 .. MaxBlock : Forgive(a, n) \/ Reclaim(a, n)
    \/ \E i \in Indexes, S \in SUBSET Author : CreateIndex(i, S)
    \/ \E b \in Backers :
        \/ \E x \in Amounts :
            \/ \E a \in Author : FundDirect(b, a, x)
            \/ \E i \in Indexes : FundVia(b, i, x)
        \/ Draw(b)

Spec == Init /\ [][Next]_vars

-----------------------------------------------------------------------------
(* Properties *)

\* Storage stays within its types.
TypeOK ==
    /\ now \in 0 .. MaxBlock
    /\ config \in Configs
    /\ DOMAIN AuthorsMap \subseteq Author
    /\ \A a \in DOMAIN AuthorsMap : AuthorsMap[a] \in AuthorInfo
    /\ DOMAIN collateral \subseteq Author
    /\ DOMAIN funding \subseteq Author
    /\ \A a \in DOMAIN collateral : collateral[a] \in 0 .. MaxAsset
    /\ \A a \in DOMAIN funding : funding[a] \in 0 .. MaxAsset
    /\ RewardsUntil \in Nat
    /\ PenaltiesUntil \in Nat

\* Every reward and every penalty that is scheduled lies ahead, where a block
\* will still apply it, and within the range that has_reward and has_penalty
\* search: it can be neither stranded on a block that is over nor overlooked,
\* although it moves on to the next free block of its author.
PendingVisible ==
    /\ \A y \in DOMAIN AuthorRewards : y[1] > now /\ y[1] <= RewardsUntil
    /\ \A y \in DOMAIN AuthorPenalties : y[1] > now /\ y[1] <= PenaltiesUntil

\* Nobody resigns from under a penalty: an author who has left has none to
\* come (the assertion of can_enroll that a resigned author who returns has
\* no penalty).
NoEscape ==
    \A y \in DOMAIN AuthorPenalties : enrolled(y[2])

\* A reward or penalty that is due changes the hold of its author by exactly
\* what it says, whatever the split between funding and collateral rounds and
\* although the two digests are written one after the other; it can only be
\* without effect for an author who has no funding digest, who has neither
\* backers nor any collateral left, or whose hold would exceed the asset type.
DueApplied ==
    [][\A a \in Author :
          LET n    == now'
              r    == IF <<n, a>> \in DOMAIN AuthorRewards THEN AuthorRewards[<<n, a>>] ELSE 0
              p    == IF <<n, a>> \in DOMAIN AuthorPenalties THEN AuthorPenalties[<<n, a>>] ELSE 0
              full == funding[a] + collateral[a] + r
          IN  (now' # now /\ HasHold(a) /\ (collateral[a] # 0 \/ Holders(a) # {}) /\ full <= MaxAsset)
                => funding'[a] + collateral'[a] = full - mul_floor(p, full)]_vars

\* Whoever is recorded as a funder of an author has a commitment that reaches
\* the author, and every commitment is recorded with all its authors: backers_of
\* asks each recorded funder and fails when one of them has left.
FundersListed ==
    /\ \A y \in DOMAIN AuthorFunders :
          /\ y[2] \in DOMAIN backing
          /\ backing[y[2]].to = AuthorFunders[y]
          /\ y[1] \in backing[y[2]].in
    /\ \A b \in DOMAIN backing, a \in Author :
          a \in backing[b].in => <<a, b>> \in DOMAIN AuthorFunders

=============================================================================
