--------------------------------- MODULE Xp ---------------------------------
(***************************************************************************)
(* pallet-xp: experience points kept per key, liquid (`free`), reserved    *)
(* and locked per reason, with a pulse that scales what a key earns; keys  *)
(* have owners, change hands, and are disposed of for good when they have  *)
(* been idle.  Each action is one successful call of a trait method of     *)
(* frame/suite/src/xp.rs as the pallet implements it, of the fungible      *)
(* adapter, or of an extrinsic; a call that fails is rolled back with the  *)
(* storage layer it runs in and is no step.                                *)
(*                                                                         *)
(* Storage maps are functions whose domain is the set of keys present.     *)
(***************************************************************************)
EXTENDS XpPulse, Functions, FiniteSets

CONSTANTS Keys, Owners, ReserveReasons, LockReasons,
          MaxXp,        \* largest T::Xp
          MaxBlock,     \* bound: the last block of a behaviour
          Amounts,      \* the points a call may carry
          MinPulses, InitXps, Factors   \* what root may configure

ASSUME XpAssumption ==
    /\ MaxXp \in Nat
    /\ MaxBlock \in Nat
    /\ Amounts \subseteq 0 .. MaxXp
    /\ MinPulses \subseteq 0 .. MaxPulse
    /\ InitXps \subseteq 0 .. MaxXp
    /\ Factors \subseteq Steppers

\* The runtime has finitely many hold and freeze reasons.
ASSUME ReasonsAssumption == IsFiniteSet(ReserveReasons) /\ IsFiniteSet(LockReasons)

VARIABLES
    now,            \* the block number
    XpOf,           \* key -> its record
    XpOwners,       \* pairs <<owner, key>>
    ReservedXpOf,   \* key -> reason -> points
    LockedXpOf,     \* key -> reason -> points
    ReapedXp,       \* keys disposed of
    MinPulse, InitXp, PulseFactor, MinTimeStamp,
    net,            \* history: key -> points granted less points taken
    capped,         \* history: keys that once held more than MaxXp in all,
                    \* for which net is not kept
    scaled          \* history: keys whose pulse multiplied points in this block

config == <<MinPulse, InitXp, PulseFactor, MinTimeStamp>>

vars == <<now, XpOf, XpOwners, ReservedXpOf, LockedXpOf, ReapedXp, config,
          net, capped, scaled>>

Points == 0 .. MaxXp

Records ==
    [free : Points, reserve : Points, lock : Points,
     pulse : Pulses, timestamp : 0 .. MaxBlock]

\* An insertion into, and a removal from, a storage map or a bounded vector
\* of (reason, points) pairs.
Put(f, x, v) == [y \in DOMAIN f \cup {x} |-> IF y = x THEN v ELSE f[y]]

Remove(f, x) == [y \in DOMAIN f \ {x} |-> f[y]]

Nothing == [r \in {} |-> 0]

ValueAt(f, r) == IF r \in DOMAIN f THEN f[r] ELSE 0

Lower(x, y) == IF x <= y THEN x ELSE y

Higher(x, y) == IF x <= y THEN y ELSE x

xp_exists(k) == k \in DOMAIN XpOf

has_lock(k) == DOMAIN LockedXpOf[k] # {}

has_minimum_xp(k) == XpOf[k].timestamp >= MinTimeStamp

Held(x) == x.free + x.reserve + x.lock

new_xp ==
    [free |-> InitXp, reserve |-> 0, lock |-> 0, pulse |-> NoPulse, timestamp |-> now]

\* The genesis configuration lists every key at most once.
Init ==
    \E m \in MinPulses, i \in InitXps, f \in Factors,
       g \in UNION {[K -> Owners] : K \in SUBSET Keys} :
    /\ Stepper_new(f)
    /\ now = 0
    /\ MinPulse = m /\ InitXp = i /\ PulseFactor = f /\ MinTimeStamp = 0
    /\ XpOf = [k \in DOMAIN g |->
                 [free |-> i, reserve |-> 0, lock |-> 0, pulse |-> NoPulse, timestamp |-> 0]]
    /\ XpOwners = {<<g[k], k>> : k \in DOMAIN g}
    /\ ReservedXpOf = [k \in Keys |-> Nothing]
    /\ LockedXpOf = [k \in Keys |-> Nothing]
    /\ ReapedXp = {}
    /\ net = [k \in Keys |-> IF k \in DOMAIN g THEN i ELSE 0]
    /\ capped = {}
    /\ scaled = {}

\* Key k's record becomes x and the call reports d points granted (or taken).
Update(k, x, d) ==
    /\ XpOf' = [XpOf EXCEPT ![k] = x]
    /\ capped' = IF Held(x) > MaxXp THEN capped \cup {k} ELSE capped
    /\ net' = [net EXCEPT ![k] = IF k \in capped' THEN 0 ELSE @ + d]
    /\ UNCHANGED <<now, XpOwners, ReapedXp, config>>

-----------------------------------------------------------------------------
(* Creation and earning *)

create_xp(o, k) ==
    /\ XpOf' = Put(XpOf, k, new_xp)
    /\ XpOwners' = XpOwners \cup {<<o, k>>}
    /\ net' = [net EXCEPT ![k] = InitXp]
    /\ UNCHANGED <<now, ReservedXpOf, LockedXpOf, ReapedXp, config, capped, scaled>>

\* Which of the three branches of earn_xp the record takes.
SameBlock(x) == now <= x.timestamp /\ x.pulse.value >= MinPulse

WarmUp(x) == x.pulse.value < MinPulse

quote_earn_xp(x, p) ==
    IF SameBlock(x) THEN p
    ELSE IF WarmUp(x) THEN 0
    ELSE p * x.pulse.value

earn_succeeds(k, p) ==
    LET x == XpOf[k] IN
    /\ p * x.pulse.value <= MaxXp \/ SameBlock(x) \/ WarmUp(x)
    /\ x.free + quote_earn_xp(x, p) <= MaxXp
    /\ (WarmUp(x) \/ (~ SameBlock(x) /\ has_lock(k))) => Terminates(PulseFactor)

\* Mutant: the block of the earning is not recorded.
earned_undated(k, p) ==
    LET x == XpOf[k] IN
    IF SameBlock(x) THEN [x EXCEPT !.free = @ + p]
    ELSE IF WarmUp(x)
    THEN [x EXCEPT !.pulse = increment(@, PulseFactor)]
    ELSE [x EXCEPT !.free = @ + p * x.pulse.value,
                   !.pulse = IF has_lock(k) THEN increment(@, PulseFactor) ELSE @]

\* The record after earn_xp: raw points in the same block, a pulse and no
\* points below MinPulse, else points times the pulse, and a pulse if locked.
earned(k, p) ==
    LET x == XpOf[k] IN
    IF SameBlock(x) THEN [x EXCEPT !.free = @ + p]
    ELSE IF WarmUp(x)
    THEN [x EXCEPT !.timestamp = now, !.pulse = increment(@, PulseFactor)]
    ELSE [x EXCEPT !.timestamp = now, !.free = @ + p * x.pulse.value,
                   !.pulse = IF has_lock(k) THEN increment(@, PulseFactor) ELSE @]

earn_xp(k, p) ==
    /\ earn_succeeds(k, p)
    /\ Update(k, earned(k, p), quote_earn_xp(XpOf[k], p))
    /\ scaled' = IF SameBlock(XpOf[k]) \/ WarmUp(XpOf[k]) THEN scaled ELSE scaled \cup {k}
    /\ UNCHANGED <<ReservedXpOf, LockedXpOf>>

\* Mutant: a key disposed of may begin again.
BeginAnyXp(o, k, p) ==
    \/ ~ xp_exists(k) /\ create_xp(o, k)
    \/ xp_exists(k) /\ earn_xp(k, p)

BeginXp(o, k, p) ==
    /\ k \notin ReapedXp
    /\ \/ ~ xp_exists(k) /\ create_xp(o, k)
       \/ xp_exists(k) /\ earn_xp(k, p)

-----------------------------------------------------------------------------
(* Liquid points, through the trait and through the fungible adapter *)

SetFree(k, n, d) ==
    /\ Update(k, [XpOf[k] EXCEPT !.free = n], d)
    /\ UNCHANGED <<ReservedXpOf, LockedXpOf, scaled>>

\* slash_xp takes what there is when it is asked for more.
SlashXp(k, p) ==
    /\ xp_exists(k)
    /\ LET taken == Lower(p, XpOf[k].free)
       IN  SetFree(k, XpOf[k].free - taken, 0 - taken)

MintInto(k, p) ==
    /\ xp_exists(k)
    /\ XpOf[k].free + p <= MaxXp
    /\ SetFree(k, XpOf[k].free + p, p)

\* burn_from with Precision::Exact.
BurnFrom(k, p) ==
    /\ xp_exists(k)
    /\ p <= XpOf[k].free
    /\ SetFree(k, XpOf[k].free - p, 0 - p)

SetBalance(k, p) ==
    /\ xp_exists(k)
    /\ SetFree(k, p, p - XpOf[k].free)

-----------------------------------------------------------------------------
(* Reserves *)

\* set_reserve, after `free` was set to n: the total moves by the difference.
set_reserve(k, r, p, n, d) ==
    LET total == XpOf[k].reserve + p - ValueAt(ReservedXpOf[k], r) IN
    /\ total \in Points
    /\ ReservedXpOf' = [ReservedXpOf EXCEPT ![k] = Put(@, r, p)]
    /\ Update(k, [XpOf[k] EXCEPT !.free = n, !.reserve = total], d)
    /\ UNCHANGED <<LockedXpOf, scaled>>

ReserveXp(k, r, p) ==
    LET old == ValueAt(ReservedXpOf[k], r) IN
    /\ xp_exists(k)
    /\ p <= XpOf[k].free
    /\ old + p <= MaxXp
    /\ set_reserve(k, r, old + p, XpOf[k].free - p, 0)

\* withdraw_reserve_partial; the BestEffort form takes what there is and caps
\* the liquid points at the largest T::Xp.
WithdrawReservePartial(k, r, p, exact) ==
    LET old == ValueAt(ReservedXpOf[k], r)
        out == Lower(p, old)
    IN
    /\ xp_exists(k)
    /\ p # 0
    /\ r \in DOMAIN ReservedXpOf[k]
    /\ exact => p <= old /\ XpOf[k].free + p <= MaxXp
    /\ set_reserve(k, r, old - out, Lower(XpOf[k].free + out, MaxXp), 0)

WithdrawReserve(k, r) ==
    /\ r \in DOMAIN ReservedXpOf[k]
    /\ WithdrawReservePartial(k, r, ReservedXpOf[k][r], FALSE)

\* slash_reserve, and reset_reserve when it is asked for more than there is.
SlashReserve(k, r, p) ==
    /\ xp_exists(k)
    /\ r \in DOMAIN ReservedXpOf[k]
    /\ LET taken == Lower(p, ReservedXpOf[k][r])
       IN  set_reserve(k, r, ReservedXpOf[k][r] - taken, XpOf[k].free, 0 - taken)

\* The fungible adapter writes a hold without touching the liquid points.
SetBalanceOnHold(k, r, p) ==
    /\ xp_exists(k)
    /\ r \in DOMAIN ReservedXpOf[k] \/ p # 0
    /\ set_reserve(k, r, p, XpOf[k].free, p - ValueAt(ReservedXpOf[k], r))

-----------------------------------------------------------------------------
(* Locks *)

set_lock(k, l, p, n, d) ==
    LET total == XpOf[k].lock + p - ValueAt(LockedXpOf[k], l) IN
    /\ p # 0
    /\ total \in Points
    /\ LockedXpOf' = [LockedXpOf EXCEPT ![k] = Put(@, l, p)]
    /\ Update(k, [XpOf[k] EXCEPT !.free = n, !.lock = total], d)
    /\ UNCHANGED <<ReservedXpOf, scaled>>

\* Mutant: the total is not lowered.
burn_lock_only(k, l, n, d) ==
    /\ LockedXpOf' = [LockedXpOf EXCEPT ![k] = Remove(@, l)]
    /\ Update(k, [XpOf[k] EXCEPT !.free = n], d)
    /\ UNCHANGED <<ReservedXpOf, scaled>>

burn_lock(k, l, n, d) ==
    /\ LockedXpOf' = [LockedXpOf EXCEPT ![k] = Remove(@, l)]
    /\ Update(k, [XpOf[k] EXCEPT !.free = n, !.lock = Higher(@ - LockedXpOf[k][l], 0)], d)
    /\ UNCHANGED <<ReservedXpOf, scaled>>

LockXp(k, l, p) ==
    LET old == ValueAt(LockedXpOf[k], l) IN
    /\ xp_exists(k)
    /\ p # 0
    /\ p <= XpOf[k].free
    /\ old + p <= MaxXp
    /\ set_lock(k, l, old + p, XpOf[k].free - p, 0)

WithdrawLock(k, l) ==
    /\ xp_exists(k)
    /\ l \in DOMAIN LockedXpOf[k]
    /\ burn_lock(k, l, Lower(XpOf[k].free + LockedXpOf[k][l], MaxXp), 0)

\* A slash of exactly the locked points fails: set_lock refuses zero.
SlashLock(k, l, p) ==
    /\ xp_exists(k)
    /\ l \in DOMAIN LockedXpOf[k]
    /\ LET old == LockedXpOf[k][l] IN
       \/ old < p /\ burn_lock(k, l, XpOf[k].free, 0 - old)
       \/ old >= p /\ set_lock(k, l, old - p, XpOf[k].free, 0 - p)

Thaw(k, l) ==
    /\ xp_exists(k)
    /\ l \in DOMAIN LockedXpOf[k]
    /\ burn_lock(k, l, XpOf[k].free, 0 - LockedXpOf[k][l])

\* set_freeze, through which increase_frozen goes too; zero thaws.
SetFreeze(k, l, p) ==
    \/ p = 0 /\ Thaw(k, l)
    \/ /\ xp_exists(k)
       /\ set_lock(k, l, p, XpOf[k].free, p - ValueAt(LockedXpOf[k], l))

ExtendFreeze(k, l, p) ==
    /\ p # 0
    /\ l \in DOMAIN LockedXpOf[k]
    /\ SetFreeze(k, l, Higher(LockedXpOf[k][l], p))

-----------------------------------------------------------------------------
(* Ownership and the end of a key *)

\* Mutant: the previous owner stays.
HandoverShares(o, k, new) ==
    /\ xp_exists(k)
    /\ <<o, k>> \in XpOwners
    /\ o # new
    /\ XpOwners' = XpOwners \cup {<<new, k>>}
    /\ UNCHANGED <<now, XpOf, ReservedXpOf, LockedXpOf, ReapedXp, config, net, capped, scaled>>

\* handover, signed by the owner, and force_handover, by root.
Handover(o, k, new) ==
    /\ xp_exists(k)
    /\ <<o, k>> \in XpOwners
    /\ o # new
    /\ XpOwners' = (XpOwners \ {<<o, k>>}) \cup {<<new, k>>}
    /\ UNCHANGED <<now, XpOf, ReservedXpOf, LockedXpOf, ReapedXp, config, net, capped, scaled>>

can_reap(k) ==
    /\ k \notin ReapedXp
    /\ xp_exists(k)
    /\ ~ has_minimum_xp(k)
    /\ ~ has_lock(k)

reap_xp(k) ==
    /\ ~ has_lock(k)
    /\ XpOf' = Remove(XpOf, k)
    /\ ReservedXpOf' = [ReservedXpOf EXCEPT ![k] = Nothing]
    /\ ReapedXp' = ReapedXp \cup {k}

\* Anybody may dispose of an idle key; its owner entry stays.
Dispose(o, k) ==
    /\ <<o, k>> \in XpOwners
    /\ can_reap(k)
    /\ reap_xp(k)
    /\ UNCHANGED <<now, XpOwners, LockedXpOf, config, net, capped, scaled>>

-----------------------------------------------------------------------------
(* Root and time *)

Idle == UNCHANGED <<XpOf, XpOwners, ReservedXpOf, LockedXpOf, ReapedXp, net, capped>>

ForceGenesisConfig ==
    /\ \/ MinPulse' \in MinPulses /\ UNCHANGED <<InitXp, PulseFactor, MinTimeStamp>>
       \/ InitXp' \in InitXps /\ UNCHANGED <<MinPulse, PulseFactor, MinTimeStamp>>
       \/ /\ PulseFactor' \in {f \in Factors : Stepper_new(f)}
          /\ UNCHANGED <<MinPulse, InitXp, MinTimeStamp>>
       \/ MinTimeStamp' \in 0 .. now /\ UNCHANGED <<MinPulse, InitXp, PulseFactor>>
    /\ UNCHANGED <<now, scaled>>
    /\ Idle

NextBlock ==
    /\ now < MaxBlock
    /\ now' = now + 1
    /\ scaled' = {}
    /\ UNCHANGED config
    /\ Idle

Next ==
    \/ \E k \in Keys, p \in Amounts :
        \/ \E o \in Owners : BeginXp(o, k, p)
        \/ SlashXp(k, p)
        \/ MintInto(k, p)
        \/ BurnFrom(k, p)
        \/ SetBalance(k, p)
        \/ \E r \in ReserveReasons :
            \/ ReserveXp(k, r, p)
            \/ \E exact \in BOOLEAN : WithdrawReservePartial(k, r, p, exact)
            \/ SlashReserve(k, r, p)
            \/ SetBalanceOnHold(k, r, p)
        \/ \E l \in LockReasons :
            \/ LockXp(k, l, p)
            \/ SlashLock(k, l, p)
            \/ SetFreeze(k, l, p)
            \/ ExtendFreeze(k, l, p)
    \/ \E k \in Keys, r \in ReserveReasons : WithdrawReserve(k, r)
    \/ \E k \in Keys, l \in LockReasons : WithdrawLock(k, l)
    \/ \E k \in Keys, o \in Owners : Dispose(o, k) \/ \E new \in Owners : Handover(o, k, new)
    \/ ForceGenesisConfig
    \/ NextBlock

Spec == Init /\ [][Next]_vars

-----------------------------------------------------------------------------
(* Properties *)

PartialPoints(R) == UNION {[S -> Points] : S \in SUBSET R}

\* Storage stays within the widths of its types, and no vector of reserves or
\* locks has an entry for a reason the runtime does not have.
TypeOK ==
    /\ now \in 0 .. MaxBlock
    /\ DOMAIN XpOf \subseteq Keys
    /\ XpOf \in [DOMAIN XpOf -> Records]
    /\ XpOwners \subseteq Owners \X Keys
    /\ ReservedXpOf \in [Keys -> PartialPoints(ReserveReasons)]
    /\ LockedXpOf \in [Keys -> PartialPoints(LockReasons)]
    /\ ReapedXp \subseteq Keys
    /\ MinPulse \in 0 .. MaxPulse
    /\ InitXp \in Points
    /\ PulseFactor \in Steppers
    /\ MinTimeStamp \in 0 .. now
    /\ net \in [Keys -> Int]
    /\ capped \subseteq Keys
    /\ scaled \subseteq Keys

\* The totals in the key's record are the sums of the per-reason entries that
\* set_reserve, set_lock and burn_lock keep in other storage items.
TotalsMatch ==
    \A k \in DOMAIN XpOf :
        /\ XpOf[k].reserve = SumFunction(ReservedXpOf[k])
        /\ XpOf[k].lock = SumFunction(LockedXpOf[k])

\* Moving points between liquid, reserved and locked neither creates nor loses
\* any: a key holds what the calls reported as granted less what they reported
\* as taken.  Only a key that once held more than a T::Xp in all may have lost
\* points, to the saturating additions of withdraw_lock and withdraw_reserve.
Reconciled ==
    \A k \in DOMAIN XpOf : k \notin capped => Held(XpOf[k]) = net[k]

\* The key's record agrees with the storage items beside it and with the
\* history of its calls: an early return, an error or a saturating addition
\* between two writes would set them apart for good.
XpBooks == TotalsMatch /\ Reconciled

\* A disposed key is gone for good: begin_xp does not bring it back, and no
\* reserve or lock of it is left behind.
NeverRevived ==
    \A k \in ReapedXp :
        /\ k \notin DOMAIN XpOf
        /\ ReservedXpOf[k] = Nothing
        /\ LockedXpOf[k] = Nothing

\* A key that exists or was disposed of has one owner, whatever handovers
\* there were; a key that never existed has none.
OneOwner ==
    /\ \A k \in DOMAIN XpOf \cup ReapedXp : \E o \in Owners : <<o, k>> \in XpOwners
    /\ \A u, v \in XpOwners : u[2] = v[2] => u = v
    /\ \A u \in XpOwners : u[2] \in DOMAIN XpOf \cup ReapedXp

\* No lock is empty, so has_lock (which dispose and the pulse acceleration
\* rely on) says whether points are locked.
NoEmptyLock == \A k \in Keys : \A l \in DOMAIN LockedXpOf[k] : LockedXpOf[k][l] # 0

\* "The multiplier can be applied at most once per block": in a block in which
\* earn_xp has multiplied for a key it grants that key raw points, or none,
\* whatever root does to MinPulse in between.
ScaledOncePerBlock ==
    \A k \in DOMAIN XpOf, p \in Amounts :
        k \in scaled => quote_earn_xp(XpOf[k], p) \in {0, p}

\* The inductive strengthening: a key that was multiplied in this block is
\* dated to it.
DatedToday == \A k \in DOMAIN XpOf : k \in scaled => XpOf[k].timestamp >= now

IInv ==
    /\ TypeOK
    /\ NeverRevived
    /\ OneOwner
    /\ NoEmptyLock
    /\ DatedToday

\* What the books rest on: a key without a record has no entries, and a key
\* that holds more than a T::Xp is known to.
EntriesHaveRecord ==
    \A k \in Keys \ DOMAIN XpOf : ReservedXpOf[k] = Nothing /\ LockedXpOf[k] = Nothing

OverfullIsCapped == \A k \in DOMAIN XpOf : Held(XpOf[k]) > MaxXp => k \in capped

BooksInv == XpBooks /\ EntriesHaveRecord /\ OverfullIsCapped

\* Root installs only factors that Stepper::new accepts.
FactorAccepted == Stepper_new(PulseFactor)

\* As long as the configuration stays, the number of actions that
\* xp_eligibility announces is enough to activate the key.
EligibilitySuffices ==
    \A k \in DOMAIN XpOf :
        LET x == XpOf[k].pulse
            n == xp_eligibility(x, MinPulse, PulseFactor)
        IN  ~ eligibility_fails(x, MinPulse, PulseFactor)
               => Increments(x, PulseFactor, n).value >= MinPulse

=============================================================================
