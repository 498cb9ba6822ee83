------------------------------ MODULE XpProofs ------------------------------
(***************************************************************************)
(* Proofs that hold for every set of keys, owners, reasons and amounts and *)
(* every width of points and pulses: storage is well typed, a disposed key *)
(* stays gone, a key has one owner, no lock is empty, and the multiplier   *)
(* is applied at most once per block.                                      *)
(***************************************************************************)
EXTENDS Xp, SumTheorems, TLAPS

\* The accumulator stays within T::Pulse when the loop of increment ends.
LEMMA IncrementType ==
    ASSUME NEW p \in Pulses, NEW f \in Steppers, Terminates(f)
    PROVE  increment(p, f) \in Pulses
<1> DEFINE s == PulseCap(p.step + f.per_count)
           t == f.threshold
<1>1. s \in 0 .. MaxPulse /\ t \in 1 .. MaxPulse /\ p.value \in 0 .. MaxPulse
  BY MaxPulseAssumption DEF Pulses, Steppers, PulseCap, Terminates
<1>2. s \div t \in Nat /\ s % t \in 0 .. t - 1
  <2> HIDE DEF s, t
  <2> QED BY <1>1, MaxPulseAssumption, Z3
<1>3. PulseCap(p.value + s \div t) \in 0 .. MaxPulse
  <2> HIDE DEF s, t
  <2> QED BY <1>1, <1>2, MaxPulseAssumption DEF PulseCap
<1>4. s % t \in 0 .. MaxPulse
  <2> HIDE DEF s, t
  <2> QED BY <1>1, <1>2, MaxPulseAssumption
<1>5. increment(p, f) = [value |-> PulseCap(p.value + s \div t), step |-> s % t]
  BY DEF increment
<1> HIDE DEF s, t
<1> QED BY <1>3, <1>4, <1>5 DEF Pulses

\* An entry put into, or removed from, a vector of points per reason.
LEMMA PutType ==
    ASSUME NEW R, NEW f \in PartialPoints(R), NEW r \in R, NEW p \in Points
    PROVE  Put(f, r, p) \in PartialPoints(R)
<1> PICK S \in SUBSET R : f \in [S -> Points]
  BY DEF PartialPoints
<1>1. Put(f, r, p) \in [S \cup {r} -> Points]
  BY DEF Put
<1>2. S \cup {r} \in SUBSET R
  OBVIOUS
<1> QED BY <1>1, <1>2 DEF PartialPoints

\* The same for a removed entry (burn_lock).
LEMMA RemoveType ==
    ASSUME NEW R, NEW f \in PartialPoints(R), NEW r
    PROVE  Remove(f, r) \in PartialPoints(R)
<1> PICK S \in SUBSET R : f \in [S -> Points]
  BY DEF PartialPoints
<1>1. Remove(f, r) \in [S \ {r} -> Points]
  BY DEF Remove
<1>2. S \ {r} \in SUBSET R
  OBVIOUS
<1> QED BY <1>1, <1>2 DEF PartialPoints

\* The empty vector has the type of a vector of points per reason.
LEMMA NothingType ==
    ASSUME NEW R
    PROVE  Nothing \in PartialPoints(R)
<1>1. Nothing \in [{} -> Points]
  BY DEF Nothing
<1> QED BY <1>1 DEF PartialPoints

\* A vector without entries is the empty one.
LEMMA EmptyIsNothing ==
    ASSUME NEW R, NEW f \in PartialPoints(R), DOMAIN f = {}
    PROVE  f = Nothing
<1> PICK S \in SUBSET R : f \in [S -> Points]
  BY DEF PartialPoints
<1>1. f = [r \in DOMAIN f |-> f[r]]
  OBVIOUS
<1> QED BY <1>1 DEF Nothing

\* The points of a reason, zero when it has no entry.
LEMMA ValueType ==
    ASSUME NEW R, NEW f \in PartialPoints(R), NEW r
    PROVE  ValueAt(f, r) \in Points
<1> PICK S \in SUBSET R : f \in [S -> Points]
  BY DEF PartialPoints
<1> QED BY XpAssumption DEF ValueAt, Points


-----------------------------------------------------------------------------

Reserves == [Keys -> PartialPoints(ReserveReasons)]

Locks == [Keys -> PartialPoints(LockReasons)]

\* What a call about one existing key may do to the storage: every such call
\* preserves the invariant.
LEMMA KeyStep ==
    ASSUME IInv,
           NEW k \in DOMAIN XpOf, NEW x \in Records, NEW d \in Int,
           Update(k, x, d),
           ReservedXpOf' \in Reserves,
           \A j \in Keys \ {k} : ReservedXpOf'[j] = ReservedXpOf[j],
           LockedXpOf' \in Locks,
           \A j \in Keys \ {k} : LockedXpOf'[j] = LockedXpOf[j],
           \A l \in DOMAIN LockedXpOf'[k] : LockedXpOf'[k][l] # 0,
           scaled' \subseteq Keys,
           \A j \in Keys \ {k} : j \in scaled' => j \in scaled,
           k \in scaled' => x.timestamp >= now
    PROVE  IInv'
<1>1. /\ XpOf \in [DOMAIN XpOf -> Records] /\ DOMAIN XpOf \subseteq Keys
      /\ k \in Keys
  BY DEF IInv, TypeOK
<1>2. /\ XpOf' \in [DOMAIN XpOf -> Records]
      /\ DOMAIN XpOf' = DOMAIN XpOf
      /\ XpOf'[k] = x
      /\ \A j \in DOMAIN XpOf \ {k} : XpOf'[j] = XpOf[j]
  BY <1>1 DEF Update
<1>3. UNCHANGED <<now, XpOwners, ReapedXp, MinPulse, InitXp, PulseFactor, MinTimeStamp>>
  BY DEF Update, config
<1>4. TypeOK'
  <2>1. net' \in [Keys -> Int]
    BY <1>1 DEF IInv, TypeOK, Update
  <2>2. capped' \subseteq Keys
    BY <1>1 DEF IInv, TypeOK, Update
  <2> QED BY <1>1, <1>2, <1>3, <2>1, <2>2 DEF IInv, TypeOK, Reserves, Locks
<1>5. NeverRevived'
  BY <1>1, <1>2, <1>3 DEF IInv, NeverRevived, TypeOK
<1>6. OneOwner'
  BY <1>2, <1>3 DEF IInv, OneOwner
<1>7. NoEmptyLock'
  BY DEF IInv, NoEmptyLock
<1>8. DatedToday'
  BY <1>1, <1>2, <1>3 DEF IInv, DatedToday
<1> QED BY <1>4, <1>5, <1>6, <1>7, <1>8 DEF IInv

\* What the storage of one key is made of.
LEMMA KeyTypes ==
    ASSUME IInv, NEW k \in DOMAIN XpOf
    PROVE  /\ k \in Keys
           /\ XpOf[k] \in Records
           /\ XpOf[k].free \in Points /\ XpOf[k].reserve \in Points /\ XpOf[k].lock \in Points
           /\ ReservedXpOf \in Reserves /\ ReservedXpOf[k] \in PartialPoints(ReserveReasons)
           /\ LockedXpOf \in Locks /\ LockedXpOf[k] \in PartialPoints(LockReasons)
           /\ scaled \subseteq Keys
           /\ \A l \in DOMAIN LockedXpOf[k] : LockedXpOf[k][l] # 0
           /\ k \in scaled => XpOf[k].timestamp >= now
<1>1. k \in Keys /\ XpOf[k] \in Records
  BY DEF IInv, TypeOK
<1>2. XpOf[k].free \in Points /\ XpOf[k].reserve \in Points /\ XpOf[k].lock \in Points
  BY <1>1 DEF Records
<1>3. /\ ReservedXpOf \in Reserves /\ ReservedXpOf[k] \in PartialPoints(ReserveReasons)
      /\ LockedXpOf \in Locks /\ LockedXpOf[k] \in PartialPoints(LockReasons)
      /\ scaled \subseteq Keys
  BY <1>1 DEF IInv, TypeOK, Reserves, Locks
<1>4. \A l \in DOMAIN LockedXpOf[k] : LockedXpOf[k][l] # 0
  BY <1>1 DEF IInv, NoEmptyLock
<1>5. k \in scaled => XpOf[k].timestamp >= now
  BY DEF IInv, DatedToday
<1> QED BY <1>1, <1>2, <1>3, <1>4, <1>5

\* A call that writes the liquid points only.
LEMMA SetFreeStep ==
    ASSUME IInv, NEW k \in DOMAIN XpOf, NEW n \in Points, NEW d \in Int, SetFree(k, n, d)
    PROVE  IInv'
<1> DEFINE x == [XpOf[k] EXCEPT !.free = n]
<1>1. x \in Records /\ x.timestamp = XpOf[k].timestamp
  BY KeyTypes DEF Records
<1>2. Update(k, x, d) /\ UNCHANGED <<ReservedXpOf, LockedXpOf, scaled>>
  BY DEF SetFree
<1> HIDE DEF x
<1> QED BY <1>1, <1>2, KeyTypes, KeyStep

\* A call that goes through set_reserve.
LEMMA SetReserveStep ==
    ASSUME IInv, NEW k \in DOMAIN XpOf, NEW r \in ReserveReasons,
           NEW p \in Points, NEW n \in Points, NEW d \in Int, set_reserve(k, r, p, n, d)
    PROVE  IInv'
<1> DEFINE t == XpOf[k].reserve + p - ValueAt(ReservedXpOf[k], r)
           x == [XpOf[k] EXCEPT !.free = n, !.reserve = t]
<1>1. /\ t \in Points
      /\ Update(k, x, d)
      /\ ReservedXpOf' = [ReservedXpOf EXCEPT ![k] = Put(@, r, p)]
      /\ UNCHANGED <<LockedXpOf, scaled>>
  BY DEF set_reserve
<1> HIDE DEF t
<1>2. x \in Records /\ x.timestamp = XpOf[k].timestamp
  BY <1>1, KeyTypes DEF Records
<1>3. ReservedXpOf' \in Reserves /\ \A j \in Keys \ {k} : ReservedXpOf'[j] = ReservedXpOf[j]
  BY <1>1, KeyTypes, PutType DEF Reserves
<1> HIDE DEF x
<1> QED BY <1>1, <1>2, <1>3, KeyTypes, KeyStep

\* A call that goes through set_lock.
LEMMA SetLockStep ==
    ASSUME IInv, NEW k \in DOMAIN XpOf, NEW l \in LockReasons,
           NEW p \in Points, NEW n \in Points, NEW d \in Int, set_lock(k, l, p, n, d)
    PROVE  IInv'
<1> DEFINE t == XpOf[k].lock + p - ValueAt(LockedXpOf[k], l)
           x == [XpOf[k] EXCEPT !.free = n, !.lock = t]
<1>1. /\ t \in Points /\ p # 0
      /\ Update(k, x, d)
      /\ LockedXpOf' = [LockedXpOf EXCEPT ![k] = Put(@, l, p)]
      /\ UNCHANGED <<ReservedXpOf, scaled>>
  BY DEF set_lock
<1> HIDE DEF t
<1>2. x \in Records /\ x.timestamp = XpOf[k].timestamp
  BY <1>1, KeyTypes DEF Records
<1>3. /\ LockedXpOf' \in Locks /\ \A j \in Keys \ {k} : LockedXpOf'[j] = LockedXpOf[j]
      /\ LockedXpOf'[k] = Put(LockedXpOf[k], l, p)
  BY <1>1, KeyTypes, PutType DEF Locks
<1>4. \A q \in DOMAIN LockedXpOf'[k] : LockedXpOf'[k][q] # 0
  <2>1. \A q \in DOMAIN LockedXpOf[k] : LockedXpOf[k][q] # 0
    BY KeyTypes
  <2>2. /\ DOMAIN Put(LockedXpOf[k], l, p) = DOMAIN LockedXpOf[k] \cup {l}
        /\ Put(LockedXpOf[k], l, p)[l] = p
        /\ \A q \in DOMAIN LockedXpOf[k] \ {l} : Put(LockedXpOf[k], l, p)[q] = LockedXpOf[k][q]
    BY DEF Put
  <2> QED BY <1>1, <1>3, <2>1, <2>2
<1> HIDE DEF x
<1> QED BY <1>1, <1>2, <1>3, <1>4, KeyTypes, KeyStep

\* A call that goes through burn_lock.
LEMMA BurnLockStep ==
    ASSUME IInv, NEW k \in DOMAIN XpOf, NEW l \in DOMAIN LockedXpOf[k],
           NEW n \in Points, NEW d \in Int, burn_lock(k, l, n, d)
    PROVE  IInv'
<1> DEFINE t == Higher(XpOf[k].lock - LockedXpOf[k][l], 0)
           x == [XpOf[k] EXCEPT !.free = n, !.lock = t]
<1>1. LockedXpOf[k][l] \in Points
  BY KeyTypes DEF PartialPoints
<1>2. t \in Points
  BY <1>1, KeyTypes, XpAssumption DEF Points, Higher
<1>3. /\ Update(k, x, d)
      /\ LockedXpOf' = [LockedXpOf EXCEPT ![k] = Remove(@, l)]
      /\ UNCHANGED <<ReservedXpOf, scaled>>
  <2>1. [XpOf[k] EXCEPT !.free = n, !.lock = Higher(@ - LockedXpOf[k][l], 0)] = x
    BY KeyTypes DEF Records
  <2> QED BY <2>1 DEF burn_lock
<1> HIDE DEF t
<1>4. x \in Records /\ x.timestamp = XpOf[k].timestamp
  BY <1>2, KeyTypes DEF Records
<1>5. /\ LockedXpOf' \in Locks /\ \A j \in Keys \ {k} : LockedXpOf'[j] = LockedXpOf[j]
      /\ LockedXpOf'[k] = Remove(LockedXpOf[k], l)
  BY <1>3, KeyTypes, RemoveType DEF Locks
<1>6. \A q \in DOMAIN LockedXpOf'[k] : LockedXpOf'[k][q] # 0
  <2>1. \A q \in DOMAIN LockedXpOf[k] : LockedXpOf[k][q] # 0
    BY KeyTypes
  <2>2. /\ DOMAIN Remove(LockedXpOf[k], l) = DOMAIN LockedXpOf[k] \ {l}
        /\ \A q \in DOMAIN LockedXpOf[k] \ {l} : Remove(LockedXpOf[k], l)[q] = LockedXpOf[k][q]
    BY DEF Remove
  <2> QED BY <1>5, <2>1, <2>2
<1> HIDE DEF x
<1> QED BY <1>3, <1>4, <1>5, <1>6, KeyTypes, KeyStep


-----------------------------------------------------------------------------
(* One lemma per operation. *)

\* earn_xp: the three branches.
LEMMA EarnStep ==
    ASSUME IInv, NEW k \in DOMAIN XpOf, NEW p \in Points, earn_xp(k, p)
    PROVE  IInv'
<1> DEFINE x == earned(k, p)
           d == quote_earn_xp(XpOf[k], p)
<1>1. /\ XpOf[k].pulse \in Pulses /\ XpOf[k].pulse.value \in Nat
      /\ XpOf[k].timestamp \in 0 .. MaxBlock /\ now \in 0 .. MaxBlock
      /\ PulseFactor \in Steppers
  BY KeyTypes DEF Records, Pulses, IInv, TypeOK
<1>2. d \in Nat /\ XpOf[k].free + d \in Points
  <2>1. d \in Nat
    BY <1>1, XpAssumption DEF quote_earn_xp, Points
  <2>2. XpOf[k].free + d <= MaxXp
    BY DEF earn_xp, earn_succeeds
  <2> QED BY <2>1, <2>2, KeyTypes, XpAssumption DEF Points
<1>3. x \in Records /\ (~ SameBlock(XpOf[k]) => x.timestamp = now)
      /\ (SameBlock(XpOf[k]) => x.timestamp = XpOf[k].timestamp)
  <2>1. CASE SameBlock(XpOf[k])
    <3>1. d = p
      BY <2>1 DEF quote_earn_xp
    <3>2. x = [XpOf[k] EXCEPT !.free = XpOf[k].free + p]
      BY <2>1, KeyTypes DEF earned
    <3> QED BY <1>2, <2>1, <3>1, <3>2, KeyTypes DEF Records
  <2>2. CASE ~ SameBlock(XpOf[k]) /\ WarmUp(XpOf[k])
    <3>1. x = [XpOf[k] EXCEPT !.timestamp = now,
                              !.pulse = increment(XpOf[k].pulse, PulseFactor)]
      BY <2>2, KeyTypes DEF earned
    <3>2. increment(XpOf[k].pulse, PulseFactor) \in Pulses
      BY <1>1, <2>2, IncrementType DEF earn_xp, earn_succeeds
    <3> QED BY <1>1, <2>2, <3>1, <3>2, KeyTypes DEF Records
  <2>3. CASE ~ SameBlock(XpOf[k]) /\ ~ WarmUp(XpOf[k])
    <3> DEFINE q == IF has_lock(k) THEN increment(XpOf[k].pulse, PulseFactor) ELSE XpOf[k].pulse
    <3>1. x = [XpOf[k] EXCEPT !.timestamp = now,
                              !.free = XpOf[k].free + p * XpOf[k].pulse.value,
                              !.pulse = q]
      BY <2>3, KeyTypes DEF earned
    <3>2. q \in Pulses
      BY <1>1, <2>3, IncrementType DEF earn_xp, earn_succeeds
    <3>3. d = p * XpOf[k].pulse.value
      BY <2>3 DEF quote_earn_xp
    <3> HIDE DEF q
    <3> QED BY <1>1, <1>2, <2>3, <3>1, <3>2, <3>3, KeyTypes DEF Records
  <2> QED BY <2>1, <2>2, <2>3
<1>4. Update(k, x, d) /\ UNCHANGED <<ReservedXpOf, LockedXpOf>>
  BY DEF earn_xp
<1>5. /\ scaled' \subseteq Keys
      /\ \A j \in Keys \ {k} : j \in scaled' => j \in scaled
      /\ k \in scaled' => k \in scaled \/ ~ SameBlock(XpOf[k])
  BY KeyTypes DEF earn_xp
<1>6. k \in scaled' => x.timestamp >= now
  BY <1>1, <1>3, <1>5 DEF SameBlock
<1>7. d \in Int
  BY <1>2
<1> HIDE DEF x, d
<1> QED BY <1>3, <1>4, <1>5, <1>6, <1>7, KeyTypes, KeyStep

\* create_xp of a key that never existed: by OneOwner it has no owner yet.
LEMMA CreateStep ==
    ASSUME IInv, NEW o \in Owners, NEW k \in Keys, k \notin ReapedXp, ~ xp_exists(k),
           create_xp(o, k)
    PROVE  IInv'
<1>1. /\ UNCHANGED <<now, ReservedXpOf, LockedXpOf, ReapedXp, capped, scaled,
                     MinPulse, InitXp, PulseFactor, MinTimeStamp>>
      /\ XpOwners' = XpOwners \cup {<<o, k>>}
      /\ net' = [net EXCEPT ![k] = InitXp]
  BY DEF create_xp, config
<1>2. new_xp \in Records /\ new_xp.timestamp = now
  BY MaxPulseAssumption, XpAssumption
  DEF new_xp, Records, Points, Pulses, NoPulse, IInv, TypeOK
<1>3. /\ XpOf' \in [DOMAIN XpOf \cup {k} -> Records]
      /\ DOMAIN XpOf' = DOMAIN XpOf \cup {k}
      /\ XpOf'[k] = new_xp
      /\ \A j \in DOMAIN XpOf : XpOf'[j] = XpOf[j]
  BY <1>2 DEF create_xp, Put, IInv, TypeOK, xp_exists
<1>4. TypeOK'
  <2>1. net' \in [Keys -> Int]
    BY <1>1 DEF IInv, TypeOK, Points
  <2> QED BY <1>1, <1>3, <2>1 DEF IInv, TypeOK
<1>5. NeverRevived'
  BY <1>1, <1>3 DEF IInv, NeverRevived
<1>6. OneOwner'
  <2>1. \A u \in XpOwners : u[2] # k
    BY DEF IInv, OneOwner, xp_exists
  <2>2. \A u \in XpOwners' : u \in XpOwners \/ u = <<o, k>>
    BY <1>1
  <2> QED BY <1>1, <1>3, <2>1, <2>2 DEF IInv, OneOwner
<1>7. NoEmptyLock'
  BY <1>1 DEF IInv, NoEmptyLock
<1>8. DatedToday'
  BY <1>1, <1>2, <1>3 DEF IInv, DatedToday, TypeOK
<1> QED BY <1>4, <1>5, <1>6, <1>7, <1>8 DEF IInv

\* begin_xp.
LEMMA BeginStep ==
    ASSUME IInv, NEW o \in Owners, NEW k \in Keys, NEW p \in Points, BeginXp(o, k, p)
    PROVE  IInv'
BY CreateStep, EarnStep DEF BeginXp, xp_exists

\* slash_xp.
LEMMA SlashXpStep ==
    ASSUME IInv, NEW k \in Keys, NEW p \in Points, SlashXp(k, p)
    PROVE  IInv'
<1> DEFINE t == Lower(p, XpOf[k].free)
<1>1. k \in DOMAIN XpOf /\ SetFree(k, XpOf[k].free - t, 0 - t)
  BY DEF SlashXp, xp_exists
<1>2. XpOf[k].free - t \in Points /\ 0 - t \in Int
  BY <1>1, KeyTypes, XpAssumption DEF Lower, Points
<1> HIDE DEF t
<1> QED BY <1>1, <1>2, SetFreeStep

\* mint_into, burn_from and the balance setter of the fungible adapter.
LEMMA LiquidStep ==
    ASSUME IInv, NEW k \in Keys, NEW p \in Points,
           MintInto(k, p) \/ BurnFrom(k, p) \/ SetBalance(k, p)
    PROVE  IInv'
<1>1. k \in DOMAIN XpOf /\ XpOf[k].free \in Points
  BY KeyTypes DEF MintInto, BurnFrom, SetBalance, xp_exists
<1>2. CASE MintInto(k, p)
  <2>1. XpOf[k].free + p \in Points /\ p \in Int
    BY <1>1, <1>2, XpAssumption DEF MintInto, Points
  <2> QED BY <1>1, <1>2, <2>1, SetFreeStep DEF MintInto
<1>3. CASE BurnFrom(k, p)
  <2>1. XpOf[k].free - p \in Points /\ 0 - p \in Int
    BY <1>1, <1>3, XpAssumption DEF BurnFrom, Points
  <2> QED BY <1>1, <1>3, <2>1, SetFreeStep DEF BurnFrom
<1>4. CASE SetBalance(k, p)
  <2>1. p - XpOf[k].free \in Int
    BY <1>1, XpAssumption DEF Points
  <2> QED BY <1>1, <1>4, <2>1, SetFreeStep DEF SetBalance
<1> QED BY <1>2, <1>3, <1>4

\* reserve_xp.
LEMMA ReserveStep ==
    ASSUME IInv, NEW k \in Keys, NEW r \in ReserveReasons, NEW p \in Points, ReserveXp(k, r, p)
    PROVE  IInv'
<1> DEFINE old == ValueAt(ReservedXpOf[k], r)
<1>1. /\ k \in DOMAIN XpOf /\ p <= XpOf[k].free /\ old + p <= MaxXp
      /\ set_reserve(k, r, old + p, XpOf[k].free - p, 0)
  BY DEF ReserveXp, xp_exists
<1>2. old \in Points
  BY <1>1, KeyTypes, ValueType
<1> HIDE DEF old
<1>3. old + p \in Points /\ XpOf[k].free - p \in Points /\ 0 \in Int
  BY <1>1, <1>2, KeyTypes, XpAssumption DEF Points
<1> QED BY <1>1, <1>3, SetReserveStep

\* withdraw_reserve_partial, in both precisions.
LEMMA WithdrawReservePartialStep ==
    ASSUME IInv, NEW k \in Keys, NEW r \in ReserveReasons, NEW p \in Points,
           NEW exact \in BOOLEAN, WithdrawReservePartial(k, r, p, exact)
    PROVE  IInv'
<1> DEFINE old == ValueAt(ReservedXpOf[k], r)
           out == Lower(p, old)
           n   == Lower(XpOf[k].free + out, MaxXp)
<1>1. k \in DOMAIN XpOf /\ set_reserve(k, r, old - out, n, 0)
  BY DEF WithdrawReservePartial, xp_exists
<1>2. old \in Points
  BY <1>1, KeyTypes, ValueType
<1> HIDE DEF old
<1>3. old - out \in Points /\ n \in Points /\ 0 \in Int
  BY <1>1, <1>2, KeyTypes, XpAssumption DEF Points, Lower
<1> HIDE DEF out, n
<1> QED BY <1>1, <1>3, SetReserveStep

\* withdraw_reserve.
LEMMA WithdrawReserveStep ==
    ASSUME IInv, NEW k \in Keys, NEW r \in ReserveReasons, WithdrawReserve(k, r)
    PROVE  IInv'
<1>1. /\ r \in DOMAIN ReservedXpOf[k]
      /\ WithdrawReservePartial(k, r, ReservedXpOf[k][r], FALSE)
  BY DEF WithdrawReserve
<1>2. ReservedXpOf[k][r] \in Points
  BY <1>1, KeyTypes DEF WithdrawReservePartial, xp_exists, PartialPoints
<1> QED BY <1>1, <1>2, WithdrawReservePartialStep

\* slash_reserve.
LEMMA SlashReserveStep ==
    ASSUME IInv, NEW k \in Keys, NEW r \in ReserveReasons, NEW p \in Points,
           SlashReserve(k, r, p)
    PROVE  IInv'
<1> DEFINE old == ReservedXpOf[k][r]
           t   == Lower(p, old)
<1>1. /\ k \in DOMAIN XpOf /\ r \in DOMAIN ReservedXpOf[k]
      /\ set_reserve(k, r, old - t, XpOf[k].free, 0 - t)
  BY DEF SlashReserve, xp_exists
<1>2. old \in Points
  BY <1>1, KeyTypes DEF PartialPoints
<1> HIDE DEF old
<1>3. old - t \in Points /\ 0 - t \in Int
  BY <1>2, XpAssumption DEF Points, Lower
<1> HIDE DEF t
<1> QED BY <1>1, <1>3, KeyTypes, SetReserveStep

\* The fungible adapter's hold.
LEMMA SetBalanceOnHoldStep ==
    ASSUME IInv, NEW k \in Keys, NEW r \in ReserveReasons, NEW p \in Points,
           SetBalanceOnHold(k, r, p)
    PROVE  IInv'
<1> DEFINE d == p - ValueAt(ReservedXpOf[k], r)
<1>1. k \in DOMAIN XpOf /\ set_reserve(k, r, p, XpOf[k].free, d)
  BY DEF SetBalanceOnHold, xp_exists
<1>2. ValueAt(ReservedXpOf[k], r) \in Points
  BY <1>1, KeyTypes, ValueType
<1>3. d \in Int
  BY <1>2, XpAssumption DEF Points
<1> HIDE DEF d
<1> QED BY <1>1, <1>3, KeyTypes, SetReserveStep

\* lock_xp.
LEMMA LockStep ==
    ASSUME IInv, NEW k \in Keys, NEW l \in LockReasons, NEW p \in Points, LockXp(k, l, p)
    PROVE  IInv'
<1> DEFINE old == ValueAt(LockedXpOf[k], l)
<1>1. /\ k \in DOMAIN XpOf /\ p <= XpOf[k].free /\ old + p <= MaxXp
      /\ set_lock(k, l, old + p, XpOf[k].free - p, 0)
  BY DEF LockXp, xp_exists
<1>2. old \in Points
  BY <1>1, KeyTypes, ValueType
<1> HIDE DEF old
<1>3. old + p \in Points /\ XpOf[k].free - p \in Points /\ 0 \in Int
  BY <1>1, <1>2, KeyTypes, XpAssumption DEF Points
<1> QED BY <1>1, <1>3, SetLockStep

\* withdraw_lock.
LEMMA WithdrawLockStep ==
    ASSUME IInv, NEW k \in Keys, NEW l \in LockReasons, WithdrawLock(k, l)
    PROVE  IInv'
<1> DEFINE n == Lower(XpOf[k].free + LockedXpOf[k][l], MaxXp)
<1>1. k \in DOMAIN XpOf /\ l \in DOMAIN LockedXpOf[k] /\ burn_lock(k, l, n, 0)
  BY DEF WithdrawLock, xp_exists
<1>2. LockedXpOf[k][l] \in Points
  BY <1>1, KeyTypes DEF PartialPoints
<1>3. n \in Points /\ 0 \in Int
  BY <1>1, <1>2, KeyTypes, XpAssumption DEF Points, Lower
<1> HIDE DEF n
<1> QED BY <1>1, <1>3, BurnLockStep

\* slash_lock: a larger slash burns the lock, a smaller one lowers it.
LEMMA SlashLockStep ==
    ASSUME IInv, NEW k \in Keys, NEW l \in LockReasons, NEW p \in Points, SlashLock(k, l, p)
    PROVE  IInv'
<1> DEFINE old == LockedXpOf[k][l]
<1>1. /\ k \in DOMAIN XpOf /\ l \in DOMAIN LockedXpOf[k]
      /\ \/ old < p /\ burn_lock(k, l, XpOf[k].free, 0 - old)
         \/ old >= p /\ set_lock(k, l, old - p, XpOf[k].free, 0 - p)
  BY DEF SlashLock, xp_exists
<1>2. old \in Points
  BY <1>1, KeyTypes DEF PartialPoints
<1> HIDE DEF old
<1>3. XpOf[k].free \in Points /\ 0 - old \in Int /\ 0 - p \in Int
  BY <1>1, <1>2, KeyTypes, XpAssumption DEF Points
<1>4. CASE old < p
  BY <1>1, <1>2, <1>3, <1>4, BurnLockStep, XpAssumption DEF Points
<1>5. CASE old >= p
  <2>1. old - p \in Points
    BY <1>2, <1>5, XpAssumption DEF Points
  <2>2. set_lock(k, l, old - p, XpOf[k].free, 0 - p)
    BY <1>1, <1>2, <1>5, XpAssumption DEF Points
  <2> QED BY <1>1, <1>3, <2>1, <2>2, SetLockStep
<1> QED BY <1>1, <1>4, <1>5

\* set_freeze, and thaw for zero points.
LEMMA FreezeStep ==
    ASSUME IInv, NEW k \in Keys, NEW l \in LockReasons, NEW p \in Points, SetFreeze(k, l, p)
    PROVE  IInv'
<1>1. CASE Thaw(k, l)
  <2> DEFINE d == 0 - LockedXpOf[k][l]
  <2>1. k \in DOMAIN XpOf /\ l \in DOMAIN LockedXpOf[k] /\ burn_lock(k, l, XpOf[k].free, d)
    BY <1>1 DEF Thaw, xp_exists
  <2>2. LockedXpOf[k][l] \in Points
    BY <2>1, KeyTypes DEF PartialPoints
  <2>3. d \in Int
    BY <2>2, XpAssumption DEF Points
  <2> HIDE DEF d
  <2> QED BY <2>1, <2>3, KeyTypes, BurnLockStep
<1>2. CASE ~ Thaw(k, l)
  <2> DEFINE d == p - ValueAt(LockedXpOf[k], l)
  <2>1. k \in DOMAIN XpOf /\ set_lock(k, l, p, XpOf[k].free, d)
    BY <1>2 DEF SetFreeze, xp_exists
  <2>2. ValueAt(LockedXpOf[k], l) \in Points
    BY <2>1, KeyTypes, ValueType
  <2>3. d \in Int
    BY <2>2, XpAssumption DEF Points
  <2> HIDE DEF d
  <2> QED BY <2>1, <2>3, KeyTypes, SetLockStep
<1> QED BY <1>1, <1>2

\* extend_freeze.
LEMMA ExtendFreezeStep ==
    ASSUME IInv, NEW k \in Keys, NEW l \in LockReasons, NEW p \in Points, ExtendFreeze(k, l, p)
    PROVE  IInv'
<1> DEFINE h == Higher(LockedXpOf[k][l], p)
<1>1. l \in DOMAIN LockedXpOf[k] /\ SetFreeze(k, l, h)
  BY DEF ExtendFreeze
<1>2. LockedXpOf[k][l] \in Points
  BY <1>1 DEF IInv, TypeOK, PartialPoints
<1>3. h \in Points
  BY <1>2 DEF Higher
<1> HIDE DEF h
<1> QED BY <1>1, <1>3, FreezeStep

\* handover and force_handover replace the one owner.
LEMMA HandoverStep ==
    ASSUME IInv, NEW k \in Keys, NEW o \in Owners, NEW new \in Owners, Handover(o, k, new)
    PROVE  IInv'
<1>1. UNCHANGED <<now, XpOf, ReservedXpOf, LockedXpOf, ReapedXp, MinPulse, InitXp,
                  PulseFactor, MinTimeStamp, net, capped, scaled>>
  BY DEF Handover, config
<1>2. /\ k \in DOMAIN XpOf
      /\ <<o, k>> \in XpOwners
      /\ XpOwners' = (XpOwners \ {<<o, k>>}) \cup {<<new, k>>}
  BY DEF Handover, xp_exists
<1>3. TypeOK'
  BY <1>1, <1>2 DEF IInv, TypeOK
<1>4. OneOwner'
  <2>1. \A j \in DOMAIN XpOf \cup ReapedXp : \E q \in Owners : <<q, j>> \in XpOwners'
    BY <1>2 DEF IInv, OneOwner
  <2>2. \A u, v \in XpOwners' : u[2] = v[2] => u = v
    <3>1. \A u \in XpOwners : u[2] = k => u = <<o, k>>
      BY <1>2 DEF IInv, OneOwner
    <3>2. \A u \in XpOwners' : u[2] = k => u = <<new, k>>
      BY <1>2, <3>1
    <3>3. \A u \in XpOwners' : u[2] # k => u \in XpOwners
      BY <1>2
    <3> QED BY <3>2, <3>3 DEF IInv, OneOwner
  <2>3. \A u \in XpOwners' : u[2] \in DOMAIN XpOf \cup ReapedXp
    BY <1>2 DEF IInv, OneOwner
  <2> QED BY <1>1, <2>1, <2>2, <2>3 DEF OneOwner
<1>5. NeverRevived' /\ NoEmptyLock' /\ DatedToday'
  BY <1>1 DEF IInv, NeverRevived, NoEmptyLock, DatedToday
<1> QED BY <1>3, <1>4, <1>5 DEF IInv

\* dispose: no lock is left, so the key leaves nothing behind.
LEMMA DisposeStep ==
    ASSUME IInv, NEW k \in Keys, NEW o \in Owners, Dispose(o, k)
    PROVE  IInv'
<1>1. UNCHANGED <<now, XpOwners, LockedXpOf, MinPulse, InitXp, PulseFactor,
                  MinTimeStamp, net, capped, scaled>>
  BY DEF Dispose, config
<1>2. /\ k \in DOMAIN XpOf /\ DOMAIN LockedXpOf[k] = {}
      /\ XpOf' = Remove(XpOf, k)
      /\ ReservedXpOf' = [ReservedXpOf EXCEPT ![k] = Nothing]
      /\ ReapedXp' = ReapedXp \cup {k}
  BY DEF Dispose, reap_xp, can_reap, xp_exists, has_lock
<1>3. /\ XpOf' \in [DOMAIN XpOf \ {k} -> Records]
      /\ DOMAIN XpOf' = DOMAIN XpOf \ {k}
      /\ \A j \in DOMAIN XpOf \ {k} : XpOf'[j] = XpOf[j]
  BY <1>2 DEF Remove, IInv, TypeOK
<1>4. /\ ReservedXpOf' \in Reserves
      /\ ReservedXpOf'[k] = Nothing
      /\ \A j \in Keys \ {k} : ReservedXpOf'[j] = ReservedXpOf[j]
  BY <1>2, KeyTypes, NothingType DEF Reserves
<1>5. TypeOK'
  BY <1>1, <1>2, <1>3, <1>4 DEF IInv, TypeOK, Reserves
<1>6. NeverRevived'
  <2>1. LockedXpOf[k] = Nothing
    BY <1>2, KeyTypes, EmptyIsNothing
  <2> QED BY <1>1, <1>2, <1>3, <1>4, <2>1 DEF IInv, NeverRevived, TypeOK
<1>7. OneOwner'
  BY <1>1, <1>2, <1>3 DEF IInv, OneOwner
<1>8. NoEmptyLock' /\ DatedToday'
  BY <1>1, <1>3 DEF IInv, NoEmptyLock, DatedToday
<1> QED BY <1>5, <1>6, <1>7, <1>8 DEF IInv

\* force_genesis_config.
LEMMA ConfigStep ==
    ASSUME IInv, ForceGenesisConfig
    PROVE  IInv'
<1>1. UNCHANGED <<now, XpOf, XpOwners, ReservedXpOf, LockedXpOf, ReapedXp, net, capped, scaled>>
  BY DEF ForceGenesisConfig, Idle
<1>2. /\ MinPulse' \in 0 .. MaxPulse /\ InitXp' \in Points
      /\ PulseFactor' \in Steppers /\ MinTimeStamp' \in 0 .. now
  BY XpAssumption DEF ForceGenesisConfig, IInv, TypeOK, Points
<1>3. TypeOK'
  BY <1>1, <1>2 DEF IInv, TypeOK
<1> QED BY <1>1, <1>3 DEF IInv, NeverRevived, OneOwner, NoEmptyLock, DatedToday

\* A new block: nothing has been multiplied in it.
LEMMA BlockStep ==
    ASSUME IInv, NextBlock
    PROVE  IInv'
<1>1. /\ UNCHANGED <<XpOf, XpOwners, ReservedXpOf, LockedXpOf, ReapedXp, net, capped,
                     MinPulse, InitXp, PulseFactor, MinTimeStamp>>
      /\ now < MaxBlock /\ now' = now + 1 /\ scaled' = {}
  BY DEF NextBlock, Idle, config
<1>2. now' \in 0 .. MaxBlock /\ MinTimeStamp' \in 0 .. now'
  BY <1>1, XpAssumption DEF IInv, TypeOK
<1>3. TypeOK'
  BY <1>1, <1>2 DEF IInv, TypeOK
<1>4. DatedToday'
  BY <1>1 DEF DatedToday, IInv, TypeOK
<1> QED BY <1>1, <1>3, <1>4 DEF IInv, NeverRevived, OneOwner, NoEmptyLock

\* The genesis configuration.
LEMMA InitInv ==
    ASSUME Init
    PROVE  IInv
<1> PICK m \in MinPulses, i \in InitXps, f \in Factors,
         g \in UNION {[K -> Owners] : K \in SUBSET Keys} :
      /\ now = 0
      /\ MinPulse = m /\ InitXp = i /\ PulseFactor = f /\ MinTimeStamp = 0
      /\ XpOf = [k \in DOMAIN g |->
                   [free |-> i, reserve |-> 0, lock |-> 0, pulse |-> NoPulse, timestamp |-> 0]]
      /\ XpOwners = {<<g[k], k>> : k \in DOMAIN g}
      /\ ReservedXpOf = [k \in Keys |-> Nothing]
      /\ LockedXpOf = [k \in Keys |-> Nothing]
      /\ ReapedXp = {}
      /\ net = [k \in Keys |-> IF k \in DOMAIN g THEN i ELSE 0]
      /\ capped = {}
      /\ scaled = {}
  BY DEF Init
<1> PICK K \in SUBSET Keys : g \in [K -> Owners]
  OBVIOUS
<1>1. DOMAIN XpOf = K /\ XpOf \in [K -> Records]
  BY MaxPulseAssumption, XpAssumption DEF Records, Points, Pulses, NoPulse
<1>2. /\ ReservedXpOf \in [Keys -> PartialPoints(ReserveReasons)]
      /\ LockedXpOf \in [Keys -> PartialPoints(LockReasons)]
  BY NothingType
<1>3. net \in [Keys -> Int]
  BY XpAssumption
<1>4. XpOwners \subseteq Owners \X Keys
  OBVIOUS
<1>5. TypeOK
  BY <1>1, <1>2, <1>3, <1>4, MaxPulseAssumption, XpAssumption DEF TypeOK, Points
<1>6. OneOwner
  BY <1>1 DEF OneOwner
<1>7. NeverRevived /\ NoEmptyLock /\ DatedToday
  BY <1>1 DEF NeverRevived, NoEmptyLock, DatedToday, Nothing
<1> QED BY <1>5, <1>6, <1>7 DEF IInv

-----------------------------------------------------------------------------
(* The theorems. *)

\* Every call of the XP pallet, of its fungible adapter and of root, and every
\* new block, preserves the conjunction of the invariants.
THEOREM Inductive == Spec => []IInv
<1>1. Init => IInv
  BY InitInv
<1>2. IInv /\ [Next]_vars => IInv'
  <2> SUFFICES ASSUME IInv, [Next]_vars PROVE IInv'
    OBVIOUS
  <2>0. Amounts \subseteq Points
    BY XpAssumption DEF Points
  <2>1. ASSUME NEW k \in Keys, NEW p \in Amounts, NEW o \in Owners, BeginXp(o, k, p)
        PROVE  IInv'
    BY <2>0, <2>1, BeginStep
  <2>2. ASSUME NEW k \in Keys, NEW p \in Amounts,
               SlashXp(k, p) \/ MintInto(k, p) \/ BurnFrom(k, p) \/ SetBalance(k, p)
        PROVE  IInv'
    BY <2>0, <2>2, SlashXpStep, LiquidStep
  <2>3. ASSUME NEW k \in Keys, NEW p \in Amounts, NEW r \in ReserveReasons,
               \/ ReserveXp(k, r, p)
               \/ \E exact \in BOOLEAN : WithdrawReservePartial(k, r, p, exact)
               \/ SlashReserve(k, r, p)
               \/ SetBalanceOnHold(k, r, p)
        PROVE  IInv'
    BY <2>0, <2>3, ReserveStep, WithdrawReservePartialStep, SlashReserveStep,
       SetBalanceOnHoldStep
  <2>4. ASSUME NEW k \in Keys, NEW p \in Amounts, NEW l \in LockReasons,
               LockXp(k, l, p) \/ SlashLock(k, l, p) \/ SetFreeze(k, l, p)
                 \/ ExtendFreeze(k, l, p)
        PROVE  IInv'
    BY <2>0, <2>4, LockStep, SlashLockStep, FreezeStep, ExtendFreezeStep
  <2>5. ASSUME NEW k \in Keys, NEW r \in ReserveReasons, WithdrawReserve(k, r)
        PROVE  IInv'
    BY <2>5, WithdrawReserveStep
  <2>6. ASSUME NEW k \in Keys, NEW l \in LockReasons, WithdrawLock(k, l)
        PROVE  IInv'
    BY <2>6, WithdrawLockStep
  <2>7. ASSUME NEW k \in Keys, NEW o \in Owners,
               Dispose(o, k) \/ \E new \in Owners : Handover(o, k, new)
        PROVE  IInv'
    BY <2>7, DisposeStep, HandoverStep
  <2>8. CASE ForceGenesisConfig
    BY <2>8, ConfigStep
  <2>9. CASE NextBlock
    BY <2>9, BlockStep
  <2>10. CASE UNCHANGED vars
    BY <2>10
    DEF vars, config, IInv, TypeOK, NeverRevived, OneOwner, NoEmptyLock, DatedToday
  <2> QED
    BY <2>1, <2>2, <2>3, <2>4, <2>5, <2>6, <2>7, <2>8, <2>9, <2>10 DEF Next
<1> QED BY <1>1, <1>2, PTL DEF Spec

\* Storage stays within the widths of its types: no call of the trait, of the
\* fungible adapter or of root makes points, pulses or totals overflow.
THEOREM TypeCorrect == Spec => []TypeOK
<1>1. IInv => TypeOK
  BY DEF IInv
<1> QED BY <1>1, Inductive, PTL

\* A disposed key is gone for good: begin_xp never creates it again, and
\* reap_xp leaves neither a reserve nor a lock of it behind.
THEOREM GoneForGood == Spec => []NeverRevived
<1>1. IInv => NeverRevived
  BY DEF IInv
<1> QED BY <1>1, Inductive, PTL

\* A key that exists or was disposed of has exactly one owner, through every
\* sequence of create_xp, handover and dispose; no other key has one.
THEOREM SoleOwner == Spec => []OneOwner
<1>1. IInv => OneOwner
  BY DEF IInv
<1> QED BY <1>1, Inductive, PTL

\* No call leaves an empty lock: has_lock, on which dispose and the pulse
\* acceleration rely, says whether points are locked.
THEOREM LocksHold == Spec => []NoEmptyLock
<1>1. IInv => NoEmptyLock
  BY DEF IInv
<1> QED BY <1>1, Inductive, PTL

\* earn_xp multiplies at most once per block and key, whatever root does to
\* MinPulse between two calls: after a multiplied earning the record is dated
\* to the block, so a further one is raw or, below MinPulse, grants nothing.
THEOREM ScaledOnce == Spec => []ScaledOncePerBlock
<1>1. IInv => ScaledOncePerBlock
  <2> SUFFICES ASSUME IInv, NEW k \in DOMAIN XpOf, NEW p \in Amounts, k \in scaled
               PROVE  quote_earn_xp(XpOf[k], p) \in {0, p}
    BY DEF ScaledOncePerBlock
  <2>1. /\ XpOf[k].timestamp >= now
        /\ XpOf[k].timestamp \in Int /\ now \in Int
        /\ XpOf[k].pulse.value \in Int /\ MinPulse \in Int
    BY KeyTypes DEF IInv, DatedToday, TypeOK, Records, Pulses
  <2>2. SameBlock(XpOf[k]) \/ WarmUp(XpOf[k])
    BY <2>1 DEF SameBlock, WarmUp
  <2> QED BY <2>2 DEF quote_earn_xp
<1> QED BY <1>1, Inductive, PTL

-----------------------------------------------------------------------------
(* The books: the totals of a record and the entries beside it. *)

\* A vector of points per reason has finitely many entries, all of them points.
LEMMA EntriesFinite ==
    ASSUME NEW R, IsFiniteSet(R), NEW f \in PartialPoints(R)
    PROVE  /\ IsFiniteSet(DOMAIN f)
           /\ \A r \in DOMAIN f : f[r] \in Points /\ f[r] \in Nat /\ f[r] \in Int
<1> PICK S \in SUBSET R : f \in [S -> Points]
  BY DEF PartialPoints
<1> QED BY FS_Subset, XpAssumption DEF Points

\* An entry that is written moves the sum by the difference.
LEMMA SumAfterPut ==
    ASSUME NEW R, IsFiniteSet(R), NEW f \in PartialPoints(R), NEW r \in R, NEW p \in Points
    PROVE  SumFunction(Put(f, r, p)) = SumFunction(f) + p - ValueAt(f, r)
<1> DEFINE g == Put(f, r, p)
<1>1. IsFiniteSet(DOMAIN f) /\ \A q \in DOMAIN f : f[q] \in Int
  BY EntriesFinite
<1>2. /\ DOMAIN g = DOMAIN f \cup {r} /\ g[r] = p
      /\ \A q \in DOMAIN f \ {r} : g[q] = f[q]
  BY DEF Put
<1>3. p \in Int
  BY XpAssumption DEF Points
<1> HIDE DEF g
<1>4. SumFunction(g) = SumFunction(f) + p - (IF r \in DOMAIN f THEN f[r] ELSE 0)
  BY <1>1, <1>2, <1>3, SumPut
<1> QED BY <1>4 DEF ValueAt, g

\* An entry that is removed lowers the sum, of which it was a part.
LEMMA SumAfterRemove ==
    ASSUME NEW R, IsFiniteSet(R), NEW f \in PartialPoints(R), NEW r \in DOMAIN f
    PROVE  /\ SumFunction(Remove(f, r)) = SumFunction(f) - f[r]
           /\ f[r] <= SumFunction(f)
<1> DEFINE g == Remove(f, r)
<1>1. /\ IsFiniteSet(DOMAIN f) /\ \A q \in DOMAIN f : f[q] \in Int
      /\ \A q \in DOMAIN f : f[q] \in Nat
  BY EntriesFinite
<1>2. DOMAIN g = DOMAIN f \ {r} /\ \A q \in DOMAIN f \ {r} : g[q] = f[q]
  BY DEF Remove
<1> HIDE DEF g
<1>3. SumFunction(g) = SumFunction(f) - f[r]
  BY <1>1, <1>2, SumDrop
<1> QED BY <1>1, <1>3, SumOfNats DEF g

\* The value of a reason is part of the sum.
LEMMA ValueInSum ==
    ASSUME NEW R, IsFiniteSet(R), NEW f \in PartialPoints(R), NEW r
    PROVE  /\ ValueAt(f, r) \in Nat /\ SumFunction(f) \in Nat
           /\ ValueAt(f, r) <= SumFunction(f)
<1>1. IsFiniteSet(DOMAIN f) /\ \A q \in DOMAIN f : f[q] \in Nat
  BY EntriesFinite
<1>2. SumFunction(f) \in Nat /\ \A q \in DOMAIN f : f[q] <= SumFunction(f)
  BY <1>1, SumOfNats
<1> QED BY <1>1, <1>2 DEF ValueAt

\* What the books say of one key.
LEMMA KeyBooks ==
    ASSUME IInv, BooksInv, NEW k \in DOMAIN XpOf
    PROVE  /\ XpOf[k].reserve = SumFunction(ReservedXpOf[k])
           /\ XpOf[k].lock = SumFunction(LockedXpOf[k])
           /\ k \notin capped =>
                 Held(XpOf[k]) = net[k] /\ XpOf[k].free + XpOf[k].reserve + XpOf[k].lock <= MaxXp
<1>1. XpBooks /\ OverfullIsCapped
  BY DEF BooksInv
<1>2. Held(XpOf[k]) \in Int /\ MaxXp \in Int
  BY KeyTypes, XpAssumption DEF Held, Points
<1> QED BY <1>1, <1>2 DEF XpBooks, TotalsMatch, Reconciled, OverfullIsCapped, Held

\* A call about one existing key that writes the totals with the entries and
\* reports what it grants keeps the books.
LEMMA BooksStep ==
    ASSUME IInv, BooksInv,
           NEW k \in DOMAIN XpOf, NEW x \in Records, NEW d \in Int,
           Update(k, x, d),
           ReservedXpOf' \in Reserves,
           \A j \in Keys \ {k} : ReservedXpOf'[j] = ReservedXpOf[j],
           LockedXpOf' \in Locks,
           \A j \in Keys \ {k} : LockedXpOf'[j] = LockedXpOf[j],
           x.reserve = SumFunction(ReservedXpOf'[k]),
           x.lock = SumFunction(LockedXpOf'[k]),
           k \notin capped => Held(x) = Held(XpOf[k]) + d
    PROVE  BooksInv'
<1>1. /\ XpOf \in [DOMAIN XpOf -> Records] /\ DOMAIN XpOf \subseteq Keys
      /\ k \in Keys /\ net \in [Keys -> Int]
  BY DEF IInv, TypeOK
<1>2. /\ DOMAIN XpOf' = DOMAIN XpOf
      /\ XpOf'[k] = x
      /\ \A j \in DOMAIN XpOf \ {k} : XpOf'[j] = XpOf[j]
  BY <1>1 DEF Update
<1>3. /\ capped' = IF Held(x) > MaxXp THEN capped \cup {k} ELSE capped
      /\ net' = [net EXCEPT ![k] = IF k \in capped' THEN 0 ELSE @ + d]
  BY DEF Update
<1>4. /\ \A j \in Keys \ {k} : net'[j] = net[j] /\ (j \in capped' <=> j \in capped)
      /\ k \notin capped' => k \notin capped /\ net'[k] = net[k] + d
      /\ Held(x) > MaxXp => k \in capped'
  BY <1>1, <1>3
<1>5. TotalsMatch /\ Reconciled /\ EntriesHaveRecord /\ OverfullIsCapped
  BY DEF BooksInv, XpBooks
<1>6. TotalsMatch'
  BY <1>1, <1>2, <1>5 DEF TotalsMatch
<1>7. Reconciled'
  <2> SUFFICES ASSUME NEW j \in DOMAIN XpOf, j \notin capped'  PROVE Held(XpOf'[j]) = net'[j]
    BY <1>2 DEF Reconciled
  <2>1. CASE j = k
    BY <1>2, <1>4, <1>5, <2>1 DEF Reconciled
  <2>2. CASE j # k
    BY <1>1, <1>2, <1>4, <1>5, <2>2 DEF Reconciled
  <2> QED BY <2>1, <2>2
<1>8. EntriesHaveRecord'
  BY <1>2, <1>5 DEF EntriesHaveRecord
<1>9. OverfullIsCapped'
  BY <1>1, <1>2, <1>4, <1>5 DEF OverfullIsCapped
<1> QED BY <1>6, <1>7, <1>8, <1>9 DEF BooksInv, XpBooks

\* A call that writes the liquid points only.
LEMMA SetFreeBooks ==
    ASSUME IInv, BooksInv, NEW k \in DOMAIN XpOf, NEW n \in Points, NEW d \in Int,
           SetFree(k, n, d), n = XpOf[k].free + d
    PROVE  BooksInv'
<1> DEFINE x == [XpOf[k] EXCEPT !.free = n]
<1>1. /\ x \in Records /\ x.free = n /\ x.reserve = XpOf[k].reserve /\ x.lock = XpOf[k].lock
  BY KeyTypes DEF Records
<1>2. Update(k, x, d) /\ UNCHANGED <<ReservedXpOf, LockedXpOf>>
  BY DEF SetFree
<1> HIDE DEF x
<1>3. Held(x) = Held(XpOf[k]) + d
  BY <1>1, KeyTypes, XpAssumption DEF Held, Points
<1> QED BY <1>1, <1>2, <1>3, KeyTypes, KeyBooks, BooksStep

\* set_reserve moves the total by what the entry moves.
LEMMA SetReserveBooks ==
    ASSUME IInv, BooksInv, NEW k \in DOMAIN XpOf, NEW r \in ReserveReasons,
           NEW p \in Points, NEW n \in Points, NEW d \in Int, set_reserve(k, r, p, n, d),
           k \notin capped => n + p - ValueAt(ReservedXpOf[k], r) = XpOf[k].free + d
    PROVE  BooksInv'
<1> DEFINE t == XpOf[k].reserve + p - ValueAt(ReservedXpOf[k], r)
           x == [XpOf[k] EXCEPT !.free = n, !.reserve = t]
<1>1. /\ t \in Points
      /\ Update(k, x, d)
      /\ ReservedXpOf' = [ReservedXpOf EXCEPT ![k] = Put(@, r, p)]
      /\ UNCHANGED LockedXpOf
  BY DEF set_reserve
<1>2. ReservedXpOf' \in Reserves /\ \A j \in Keys \ {k} : ReservedXpOf'[j] = ReservedXpOf[j]
  BY <1>1, KeyTypes, PutType DEF Reserves
<1>3. ReservedXpOf'[k] = Put(ReservedXpOf[k], r, p)
  BY <1>1, KeyTypes DEF Reserves
<1>4. t = SumFunction(ReservedXpOf'[k])
  BY <1>3, KeyTypes, KeyBooks, SumAfterPut, ReasonsAssumption
<1>5. ValueAt(ReservedXpOf[k], r) \in Int
  BY KeyTypes, ValueType, XpAssumption DEF Points
<1>6. t + ValueAt(ReservedXpOf[k], r) = XpOf[k].reserve + p
  BY <1>5, KeyTypes, XpAssumption DEF Points
<1> HIDE DEF t
<1>7. /\ x \in Records /\ x.free = n /\ x.reserve = t /\ x.lock = XpOf[k].lock
  BY <1>1, KeyTypes DEF Records
<1> HIDE DEF x
<1>8. k \notin capped => Held(x) = Held(XpOf[k]) + d
  BY <1>1, <1>5, <1>6, <1>7, KeyTypes, XpAssumption DEF Held, Points
<1> QED BY <1>1, <1>2, <1>4, <1>7, <1>8, KeyTypes, KeyBooks, BooksStep

\* set_lock, the same.
LEMMA SetLockBooks ==
    ASSUME IInv, BooksInv, NEW k \in DOMAIN XpOf, NEW l \in LockReasons,
           NEW p \in Points, NEW n \in Points, NEW d \in Int, set_lock(k, l, p, n, d),
           k \notin capped => n + p - ValueAt(LockedXpOf[k], l) = XpOf[k].free + d
    PROVE  BooksInv'
<1> DEFINE t == XpOf[k].lock + p - ValueAt(LockedXpOf[k], l)
           x == [XpOf[k] EXCEPT !.free = n, !.lock = t]
<1>1. /\ t \in Points
      /\ Update(k, x, d)
      /\ LockedXpOf' = [LockedXpOf EXCEPT ![k] = Put(@, l, p)]
      /\ UNCHANGED ReservedXpOf
  BY DEF set_lock
<1>2. LockedXpOf' \in Locks /\ \A j \in Keys \ {k} : LockedXpOf'[j] = LockedXpOf[j]
  BY <1>1, KeyTypes, PutType DEF Locks
<1>3. LockedXpOf'[k] = Put(LockedXpOf[k], l, p)
  BY <1>1, KeyTypes DEF Locks
<1>4. t = SumFunction(LockedXpOf'[k])
  BY <1>3, KeyTypes, KeyBooks, SumAfterPut, ReasonsAssumption
<1>5. ValueAt(LockedXpOf[k], l) \in Int
  BY KeyTypes, ValueType, XpAssumption DEF Points
<1>6. t + ValueAt(LockedXpOf[k], l) = XpOf[k].lock + p
  BY <1>5, KeyTypes, XpAssumption DEF Points
<1> HIDE DEF t
<1>7. /\ x \in Records /\ x.free = n /\ x.reserve = XpOf[k].reserve /\ x.lock = t
  BY <1>1, KeyTypes DEF Records
<1> HIDE DEF x
<1>8. k \notin capped => Held(x) = Held(XpOf[k]) + d
  BY <1>1, <1>5, <1>6, <1>7, KeyTypes, XpAssumption DEF Held, Points
<1> QED BY <1>1, <1>2, <1>4, <1>7, <1>8, KeyTypes, KeyBooks, BooksStep

\* burn_lock takes the whole entry from the total; its saturating subtraction
\* never saturates.
LEMMA BurnLockBooks ==
    ASSUME IInv, BooksInv, NEW k \in DOMAIN XpOf, NEW l \in DOMAIN LockedXpOf[k],
           NEW n \in Points, NEW d \in Int, burn_lock(k, l, n, d),
           k \notin capped => n - LockedXpOf[k][l] = XpOf[k].free + d
    PROVE  BooksInv'
<1> DEFINE old == LockedXpOf[k][l]
           t == XpOf[k].lock - old
           x == [XpOf[k] EXCEPT !.free = n, !.lock = t]
<1>1. /\ old \in Points
      /\ SumFunction(Remove(LockedXpOf[k], l)) = SumFunction(LockedXpOf[k]) - old
      /\ old <= SumFunction(LockedXpOf[k])
  BY KeyTypes, EntriesFinite, SumAfterRemove, ReasonsAssumption
<1>2. t = SumFunction(Remove(LockedXpOf[k], l)) /\ t \in Points /\ Higher(t, 0) = t
  BY <1>1, KeyTypes, KeyBooks, XpAssumption DEF Points, Higher
<1>3. /\ Update(k, x, d)
      /\ LockedXpOf' = [LockedXpOf EXCEPT ![k] = Remove(@, l)]
      /\ UNCHANGED ReservedXpOf
  <2>1. [XpOf[k] EXCEPT !.free = n, !.lock = Higher(@ - LockedXpOf[k][l], 0)] = x
    <3>1. Higher(XpOf[k].lock - LockedXpOf[k][l], 0) = t
      BY <1>2
    <3> HIDE DEF t
    <3> QED BY <3>1, KeyTypes DEF Records
  <2> QED BY <2>1 DEF burn_lock
<1>4. /\ LockedXpOf' \in Locks /\ \A j \in Keys \ {k} : LockedXpOf'[j] = LockedXpOf[j]
      /\ LockedXpOf'[k] = Remove(LockedXpOf[k], l)
  BY <1>3, KeyTypes, RemoveType DEF Locks
<1>5. t + old = XpOf[k].lock
  BY <1>1, KeyTypes, XpAssumption DEF Points
<1> HIDE DEF t
<1>6. /\ x \in Records /\ x.free = n /\ x.reserve = XpOf[k].reserve /\ x.lock = t
  BY <1>2, KeyTypes DEF Records
<1> HIDE DEF x
<1>7. k \notin capped => Held(x) = Held(XpOf[k]) + d
  BY <1>1, <1>2, <1>5, <1>6, KeyTypes, XpAssumption DEF Held, Points
<1> QED BY <1>2, <1>3, <1>4, <1>6, <1>7, KeyTypes, KeyBooks, BooksStep

\* earn_xp: each of the three branches grants what quote_earn_xp announces.
LEMMA EarnBooks ==
    ASSUME IInv, BooksInv, NEW k \in DOMAIN XpOf, NEW p \in Points, earn_xp(k, p)
    PROVE  BooksInv'
<1> DEFINE x == earned(k, p)
           d == quote_earn_xp(XpOf[k], p)
<1>1. /\ XpOf[k].pulse \in Pulses /\ XpOf[k].pulse.value \in Nat
      /\ now \in 0 .. MaxBlock /\ PulseFactor \in Steppers
  BY KeyTypes DEF Records, Pulses, IInv, TypeOK
<1>2. d \in Nat /\ d \in Int /\ XpOf[k].free + d \in Points
  <2>1. d \in Nat
    BY <1>1, XpAssumption DEF quote_earn_xp, Points
  <2>2. XpOf[k].free + d <= MaxXp
    BY DEF earn_xp, earn_succeeds
  <2> QED BY <2>1, <2>2, KeyTypes, XpAssumption DEF Points
<1>3. x \in Records /\ x.free = XpOf[k].free + d
      /\ x.reserve = XpOf[k].reserve /\ x.lock = XpOf[k].lock
  <2>1. CASE SameBlock(XpOf[k])
    <3>1. d = p
      BY <2>1 DEF quote_earn_xp
    <3>2. x = [XpOf[k] EXCEPT !.free = XpOf[k].free + p]
      BY <2>1, KeyTypes DEF earned
    <3> QED BY <1>2, <3>1, <3>2, KeyTypes DEF Records
  <2>2. CASE ~ SameBlock(XpOf[k]) /\ WarmUp(XpOf[k])
    <3>1. x = [XpOf[k] EXCEPT !.timestamp = now,
                              !.pulse = increment(XpOf[k].pulse, PulseFactor)]
      BY <2>2, KeyTypes DEF earned
    <3>2. increment(XpOf[k].pulse, PulseFactor) \in Pulses
      BY <1>1, <2>2, IncrementType DEF earn_xp, earn_succeeds
    <3>3. x \in Records /\ x.free = XpOf[k].free
          /\ x.reserve = XpOf[k].reserve /\ x.lock = XpOf[k].lock
      BY <1>1, <3>1, <3>2, KeyTypes DEF Records
    <3>4. d = 0
      BY <2>2 DEF quote_earn_xp
    <3>5. XpOf[k].free + 0 = XpOf[k].free
      BY KeyTypes, XpAssumption DEF Points
    <3> QED BY <3>3, <3>4, <3>5
  <2>3. CASE ~ SameBlock(XpOf[k]) /\ ~ WarmUp(XpOf[k])
    <3> DEFINE q == IF has_lock(k) THEN increment(XpOf[k].pulse, PulseFactor) ELSE XpOf[k].pulse
    <3>1. x = [XpOf[k] EXCEPT !.timestamp = now,
                              !.free = XpOf[k].free + p * XpOf[k].pulse.value,
                              !.pulse = q]
      BY <2>3, KeyTypes DEF earned
    <3>2. q \in Pulses
      BY <1>1, <2>3, IncrementType DEF earn_xp, earn_succeeds
    <3>3. d = p * XpOf[k].pulse.value
      BY <2>3 DEF quote_earn_xp
    <3> HIDE DEF q
    <3> QED BY <1>1, <1>2, <3>1, <3>2, <3>3, KeyTypes DEF Records
  <2> QED BY <2>1, <2>2, <2>3
<1>4. Update(k, x, d) /\ UNCHANGED <<ReservedXpOf, LockedXpOf>>
  BY DEF earn_xp
<1> HIDE DEF x, d
<1>5. Held(x) = Held(XpOf[k]) + d
  BY <1>2, <1>3, KeyTypes, XpAssumption DEF Held, Points
<1> QED BY <1>2, <1>3, <1>4, <1>5, KeyTypes, KeyBooks, BooksStep

\* create_xp: a new key has no entries, and the initial points are granted.
LEMMA CreateBooks ==
    ASSUME IInv, BooksInv, NEW o \in Owners, NEW k \in Keys, ~ xp_exists(k), create_xp(o, k)
    PROVE  BooksInv'
<1>1. /\ UNCHANGED <<ReservedXpOf, LockedXpOf, capped>>
      /\ net' = [net EXCEPT ![k] = InitXp]
  BY DEF create_xp
<1>2. /\ DOMAIN XpOf' = DOMAIN XpOf \cup {k}
      /\ XpOf'[k] = new_xp
      /\ k \notin DOMAIN XpOf
      /\ \A j \in DOMAIN XpOf : XpOf'[j] = XpOf[j]
  BY DEF create_xp, Put, xp_exists
<1>3. /\ new_xp.reserve = 0 /\ new_xp.lock = 0 /\ new_xp.free = InitXp
      /\ InitXp \in Points /\ DOMAIN XpOf \subseteq Keys /\ net \in [Keys -> Int]
  BY DEF new_xp, IInv, TypeOK
<1>4. Held(new_xp) = InitXp /\ Held(new_xp) <= MaxXp
  BY <1>3, XpAssumption DEF Held, Points
<1>5. TotalsMatch /\ Reconciled /\ EntriesHaveRecord /\ OverfullIsCapped
  BY DEF BooksInv, XpBooks
<1>6. ReservedXpOf[k] = Nothing /\ LockedXpOf[k] = Nothing
  BY <1>2, <1>5 DEF EntriesHaveRecord
<1>7. SumFunction(Nothing) = 0
  BY SumNothing DEF Nothing
<1>8. TotalsMatch'
  BY <1>1, <1>2, <1>3, <1>5, <1>6, <1>7 DEF TotalsMatch
<1>9. Reconciled'
  BY <1>1, <1>2, <1>3, <1>4, <1>5 DEF Reconciled
<1>10. EntriesHaveRecord'
  BY <1>1, <1>2, <1>5 DEF EntriesHaveRecord
<1>11. OverfullIsCapped'
  <2>1. ~ Held(new_xp) > MaxXp
    BY <1>3, <1>4, XpAssumption DEF Points
  <2> QED BY <1>1, <1>2, <1>5, <2>1 DEF OverfullIsCapped
<1> QED BY <1>8, <1>9, <1>10, <1>11 DEF BooksInv, XpBooks

\* The calls on the liquid points report the difference they make.
LEMMA LiquidBooks ==
    ASSUME IInv, BooksInv, NEW k \in Keys, NEW p \in Points,
           SlashXp(k, p) \/ MintInto(k, p) \/ BurnFrom(k, p) \/ SetBalance(k, p)
    PROVE  BooksInv'
<1>0. k \in DOMAIN XpOf
  BY DEF SlashXp, MintInto, BurnFrom, SetBalance, xp_exists
<1> DEFINE free == XpOf[k].free
           t == Lower(p, free)
<1>1. free \in Points
  BY <1>0, KeyTypes
<1>2. CASE SlashXp(k, p)
  <2>1. SetFree(k, free - t, 0 - t)
    BY <1>2 DEF SlashXp
  <2> HIDE DEF free
  <2>2. free - t \in Points /\ 0 - t \in Int /\ free - t = free + (0 - t)
    BY <1>1, XpAssumption DEF Lower, Points
  <2> HIDE DEF t
  <2> QED BY <1>0, <2>1, <2>2, SetFreeBooks DEF free
<1>3. CASE MintInto(k, p)
  <2>1. free + p \in Points /\ p \in Int
    BY <1>1, <1>3, XpAssumption DEF MintInto, Points
  <2> QED BY <1>0, <1>3, <2>1, SetFreeBooks DEF MintInto
<1>4. CASE BurnFrom(k, p)
  <2>1. SetFree(k, free - p, 0 - p) /\ p <= free
    BY <1>4 DEF BurnFrom
  <2> HIDE DEF free
  <2>2. free - p \in Points /\ 0 - p \in Int /\ free - p = free + (0 - p)
    BY <1>1, <2>1, XpAssumption DEF Points
  <2> QED BY <1>0, <2>1, <2>2, SetFreeBooks DEF free
<1>5. CASE SetBalance(k, p)
  <2>1. SetFree(k, p, p - free)
    BY <1>5 DEF SetBalance
  <2> HIDE DEF free
  <2>2. p - free \in Int /\ p = free + (p - free)
    BY <1>1, XpAssumption DEF Points
  <2> QED BY <1>0, <2>1, <2>2, SetFreeBooks DEF free
<1> QED BY <1>2, <1>3, <1>4, <1>5

\* reserve_xp.
LEMMA ReserveBooks ==
    ASSUME IInv, BooksInv, NEW k \in Keys, NEW r \in ReserveReasons, NEW p \in Points,
           ReserveXp(k, r, p)
    PROVE  BooksInv'
<1> DEFINE old == ValueAt(ReservedXpOf[k], r)
           free == XpOf[k].free
<1>1. /\ k \in DOMAIN XpOf /\ p <= free /\ old + p <= MaxXp
      /\ set_reserve(k, r, old + p, free - p, 0)
  BY DEF ReserveXp, xp_exists
<1>2. old \in Points /\ free \in Points
  BY <1>1, KeyTypes, ValueType
<1> HIDE DEF old, free
<1>3. /\ old + p \in Points /\ free - p \in Points /\ 0 \in Int
      /\ (free - p) + (old + p) - old = free + 0
  BY <1>1, <1>2, XpAssumption DEF Points
<1> QED BY <1>1, <1>3, SetReserveBooks DEF old, free

\* withdraw_reserve_partial: the liquid points saturate only for a key that
\* holds more than a T::Xp in all.
LEMMA WithdrawReservePartialBooks ==
    ASSUME IInv, BooksInv, NEW k \in Keys, NEW r \in ReserveReasons, NEW p \in Points,
           NEW exact \in BOOLEAN, WithdrawReservePartial(k, r, p, exact)
    PROVE  BooksInv'
<1> DEFINE old == ValueAt(ReservedXpOf[k], r)
           out == Lower(p, old)
           free == XpOf[k].free
           n   == Lower(free + out, MaxXp)
<1>1. k \in DOMAIN XpOf /\ set_reserve(k, r, old - out, n, 0)
  BY DEF WithdrawReservePartial, xp_exists
<1>2. old \in Points /\ free \in Points
  BY <1>1, KeyTypes, ValueType
<1>3. k \notin capped => free + old <= MaxXp
  <2>1. old <= XpOf[k].reserve
    BY <1>1, KeyTypes, KeyBooks, ValueInSum, ReasonsAssumption
  <2>2. k \notin capped => free + XpOf[k].reserve + XpOf[k].lock <= MaxXp
    BY <1>1, KeyBooks
  <2>3. XpOf[k].reserve \in Points /\ XpOf[k].lock \in Points
    BY <1>1, KeyTypes
  <2> HIDE DEF old, free
  <2> QED BY <1>2, <2>1, <2>2, <2>3, XpAssumption DEF Points
<1> HIDE DEF old, free
<1>4. out \in Points /\ out <= old
  BY <1>2, XpAssumption DEF Points, Lower
<1> HIDE DEF out
<1>5. /\ old - out \in Points /\ n \in Points /\ 0 \in Int
      /\ k \notin capped => n + (old - out) - old = free + 0
  BY <1>2, <1>3, <1>4, XpAssumption DEF Points, Lower
<1> HIDE DEF n
<1> QED BY <1>1, <1>5, SetReserveBooks DEF old, free

\* withdraw_reserve.
LEMMA WithdrawReserveBooks ==
    ASSUME IInv, BooksInv, NEW k \in Keys, NEW r \in ReserveReasons, WithdrawReserve(k, r)
    PROVE  BooksInv'
<1>1. /\ r \in DOMAIN ReservedXpOf[k]
      /\ WithdrawReservePartial(k, r, ReservedXpOf[k][r], FALSE)
  BY DEF WithdrawReserve
<1>2. ReservedXpOf[k][r] \in Points
  BY <1>1, KeyTypes DEF WithdrawReservePartial, xp_exists, PartialPoints
<1> QED BY <1>1, <1>2, WithdrawReservePartialBooks

\* slash_reserve.
LEMMA SlashReserveBooks ==
    ASSUME IInv, BooksInv, NEW k \in Keys, NEW r \in ReserveReasons, NEW p \in Points,
           SlashReserve(k, r, p)
    PROVE  BooksInv'
<1> DEFINE old == ReservedXpOf[k][r]
           t   == Lower(p, old)
           free == XpOf[k].free
<1>1. /\ k \in DOMAIN XpOf /\ r \in DOMAIN ReservedXpOf[k]
      /\ set_reserve(k, r, old - t, free, 0 - t)
  BY DEF SlashReserve, xp_exists
<1>2. old \in Points /\ free \in Points
  BY <1>1, KeyTypes DEF PartialPoints
<1>3. ValueAt(ReservedXpOf[k], r) = old
  BY <1>1 DEF ValueAt
<1> HIDE DEF old, free
<1>4. /\ old - t \in Points /\ 0 - t \in Int
      /\ free + (old - t) - old = free + (0 - t)
  BY <1>2, XpAssumption DEF Points, Lower
<1> HIDE DEF t
<1> QED BY <1>1, <1>2, <1>3, <1>4, SetReserveBooks DEF free

\* The fungible adapter's hold.
LEMMA HoldBooks ==
    ASSUME IInv, BooksInv, NEW k \in Keys, NEW r \in ReserveReasons, NEW p \in Points,
           SetBalanceOnHold(k, r, p)
    PROVE  BooksInv'
<1> DEFINE old == ValueAt(ReservedXpOf[k], r)
           free == XpOf[k].free
<1>1. k \in DOMAIN XpOf /\ set_reserve(k, r, p, free, p - old)
  BY DEF SetBalanceOnHold, xp_exists
<1>2. old \in Points /\ free \in Points
  BY <1>1, KeyTypes, ValueType
<1> HIDE DEF old, free
<1>3. p - old \in Int /\ free + p - old = free + (p - old)
  BY <1>2, XpAssumption DEF Points
<1> QED BY <1>1, <1>2, <1>3, SetReserveBooks DEF old, free

\* lock_xp.
LEMMA LockBooks ==
    ASSUME IInv, BooksInv, NEW k \in Keys, NEW l \in LockReasons, NEW p \in Points, LockXp(k, l, p)
    PROVE  BooksInv'
<1> DEFINE old == ValueAt(LockedXpOf[k], l)
           free == XpOf[k].free
<1>1. /\ k \in DOMAIN XpOf /\ p <= free /\ old + p <= MaxXp
      /\ set_lock(k, l, old + p, free - p, 0)
  BY DEF LockXp, xp_exists
<1>2. old \in Points /\ free \in Points
  BY <1>1, KeyTypes, ValueType
<1> HIDE DEF old, free
<1>3. /\ old + p \in Points /\ free - p \in Points /\ 0 \in Int
      /\ (free - p) + (old + p) - old = free + 0
  BY <1>1, <1>2, XpAssumption DEF Points
<1> QED BY <1>1, <1>3, SetLockBooks DEF old, free

\* withdraw_lock: the liquid points saturate only for a key that holds more
\* than a T::Xp in all.
LEMMA WithdrawLockBooks ==
    ASSUME IInv, BooksInv, NEW k \in Keys, NEW l \in LockReasons, WithdrawLock(k, l)
    PROVE  BooksInv'
<1> DEFINE old == LockedXpOf[k][l]
           free == XpOf[k].free
           n == Lower(free + old, MaxXp)
<1>1. k \in DOMAIN XpOf /\ l \in DOMAIN LockedXpOf[k] /\ burn_lock(k, l, n, 0)
  BY DEF WithdrawLock, xp_exists
<1>2. old \in Points /\ free \in Points
  BY <1>1, KeyTypes DEF PartialPoints
<1>3. k \notin capped => free + old <= MaxXp
  <2>1. old <= XpOf[k].lock
    BY <1>1, KeyTypes, KeyBooks, SumAfterRemove, ReasonsAssumption
  <2>2. k \notin capped => free + XpOf[k].reserve + XpOf[k].lock <= MaxXp
    BY <1>1, KeyBooks
  <2>3. XpOf[k].reserve \in Points /\ XpOf[k].lock \in Points
    BY <1>1, KeyTypes
  <2> HIDE DEF old, free
  <2> QED BY <1>2, <2>1, <2>2, <2>3, XpAssumption DEF Points
<1> HIDE DEF old, free
<1>4. n \in Points /\ 0 \in Int /\ (k \notin capped => n - old = free + 0)
  BY <1>2, <1>3, XpAssumption DEF Points, Lower
<1> HIDE DEF n
<1> QED BY <1>1, <1>4, BurnLockBooks DEF old, free

\* slash_lock.
LEMMA SlashLockBooks ==
    ASSUME IInv, BooksInv, NEW k \in Keys, NEW l \in LockReasons, NEW p \in Points,
           SlashLock(k, l, p)
    PROVE  BooksInv'
<1> DEFINE old == LockedXpOf[k][l]
           free == XpOf[k].free
<1>1. /\ k \in DOMAIN XpOf /\ l \in DOMAIN LockedXpOf[k]
      /\ \/ old < p /\ burn_lock(k, l, free, 0 - old)
         \/ old >= p /\ set_lock(k, l, old - p, free, 0 - p)
  BY DEF SlashLock, xp_exists
<1>2. old \in Points /\ free \in Points
  BY <1>1, KeyTypes DEF PartialPoints
<1>3. ValueAt(LockedXpOf[k], l) = old
  BY <1>1 DEF ValueAt
<1>4. CASE burn_lock(k, l, free, 0 - old)
  <2> HIDE DEF old, free
  <2>1. 0 - old \in Int /\ free - old = free + (0 - old)
    BY <1>2, XpAssumption DEF Points
  <2> QED BY <1>1, <1>2, <1>4, <2>1, BurnLockBooks DEF old, free
<1>5. CASE old >= p /\ set_lock(k, l, old - p, free, 0 - p)
  <2> HIDE DEF old, free
  <2>1. old - p \in Points /\ 0 - p \in Int /\ free + (old - p) - old = free + (0 - p)
    BY <1>2, <1>5, XpAssumption DEF Points
  <2> QED BY <1>1, <1>2, <1>3, <1>5, <2>1, SetLockBooks DEF free
<1> QED BY <1>1, <1>4, <1>5

\* set_freeze, and thaw for zero points.
LEMMA FreezeBooks ==
    ASSUME IInv, BooksInv, NEW k \in Keys, NEW l \in LockReasons, NEW p \in Points,
           SetFreeze(k, l, p)
    PROVE  BooksInv'
<1> DEFINE free == XpOf[k].free
<1>0. k \in DOMAIN XpOf /\ free \in Points
  BY KeyTypes DEF SetFreeze, Thaw, xp_exists
<1>1. CASE Thaw(k, l)
  <2> DEFINE old == LockedXpOf[k][l]
  <2>1. l \in DOMAIN LockedXpOf[k] /\ burn_lock(k, l, free, 0 - old)
    BY <1>1 DEF Thaw
  <2>2. old \in Points
    BY <1>0, <2>1, KeyTypes DEF PartialPoints
  <2> HIDE DEF old, free
  <2>3. 0 - old \in Int /\ free - old = free + (0 - old)
    BY <1>0, <2>2, XpAssumption DEF Points
  <2> QED BY <1>0, <2>1, <2>3, BurnLockBooks DEF old, free
<1>2. CASE ~ Thaw(k, l)
  <2> DEFINE old == ValueAt(LockedXpOf[k], l)
  <2>1. set_lock(k, l, p, free, p - old)
    BY <1>2 DEF SetFreeze
  <2>2. old \in Points
    BY <1>0, KeyTypes, ValueType
  <2> HIDE DEF old, free
  <2>3. p - old \in Int /\ free + p - old = free + (p - old)
    BY <1>0, <2>2, XpAssumption DEF Points
  <2> QED BY <1>0, <2>1, <2>3, SetLockBooks DEF old, free
<1> QED BY <1>1, <1>2

\* extend_freeze.
LEMMA ExtendFreezeBooks ==
    ASSUME IInv, BooksInv, NEW k \in Keys, NEW l \in LockReasons, NEW p \in Points,
           ExtendFreeze(k, l, p)
    PROVE  BooksInv'
<1> DEFINE h == Higher(LockedXpOf[k][l], p)
<1>1. l \in DOMAIN LockedXpOf[k] /\ SetFreeze(k, l, h)
  BY DEF ExtendFreeze
<1>2. LockedXpOf[k][l] \in Points
  BY <1>1 DEF IInv, TypeOK, PartialPoints
<1>3. h \in Points
  BY <1>2 DEF Higher
<1> HIDE DEF h
<1> QED BY <1>1, <1>3, FreezeBooks

\* dispose: the record goes with its reserves, and it has no lock.
LEMMA DisposeBooks ==
    ASSUME IInv, BooksInv, NEW k \in Keys, NEW o \in Owners, Dispose(o, k)
    PROVE  BooksInv'
<1>1. UNCHANGED <<LockedXpOf, net, capped>>
  BY DEF Dispose
<1>2. /\ k \in DOMAIN XpOf /\ DOMAIN LockedXpOf[k] = {}
      /\ DOMAIN XpOf' = DOMAIN XpOf \ {k}
      /\ \A j \in DOMAIN XpOf \ {k} : XpOf'[j] = XpOf[j]
      /\ ReservedXpOf' = [ReservedXpOf EXCEPT ![k] = Nothing]
  BY DEF Dispose, reap_xp, can_reap, xp_exists, has_lock, Remove
<1>3. LockedXpOf[k] = Nothing
  BY <1>2, KeyTypes, EmptyIsNothing
<1>4. ReservedXpOf \in [Keys -> PartialPoints(ReserveReasons)] /\ DOMAIN XpOf \subseteq Keys
  BY DEF IInv, TypeOK
<1> QED BY <1>1, <1>2, <1>3, <1>4
        DEF BooksInv, XpBooks, TotalsMatch, Reconciled, EntriesHaveRecord, OverfullIsCapped

\* The genesis configuration grants every key its initial points.
LEMMA InitBooks ==
    ASSUME Init
    PROVE  BooksInv
<1> PICK m \in MinPulses, i \in InitXps, f \in Factors,
         g \in UNION {[K -> Owners] : K \in SUBSET Keys} :
      /\ XpOf = [k \in DOMAIN g |->
                   [free |-> i, reserve |-> 0, lock |-> 0, pulse |-> NoPulse, timestamp |-> 0]]
      /\ ReservedXpOf = [k \in Keys |-> Nothing]
      /\ LockedXpOf = [k \in Keys |-> Nothing]
      /\ net = [k \in Keys |-> IF k \in DOMAIN g THEN i ELSE 0]
      /\ capped = {}
  BY DEF Init
<1>1. DOMAIN g \subseteq Keys /\ i \in 0 .. MaxXp /\ MaxXp \in Nat
  BY XpAssumption
<1>2. SumFunction(Nothing) = 0
  BY SumNothing DEF Nothing
<1>3. \A k \in DOMAIN XpOf : Held(XpOf[k]) = i /\ Held(XpOf[k]) <= MaxXp
  BY <1>1 DEF Held
<1>4. TotalsMatch  BY <1>1, <1>2 DEF TotalsMatch
<1>5. Reconciled  BY <1>1, <1>3 DEF Reconciled
<1>6. EntriesHaveRecord  BY DEF EntriesHaveRecord
<1>7. OverfullIsCapped  BY <1>1, <1>3 DEF OverfullIsCapped
<1> QED BY <1>4, <1>5, <1>6, <1>7 DEF BooksInv, XpBooks

\* A step that does not touch the books.
LEMMA SameBooks ==
    ASSUME BooksInv, UNCHANGED <<XpOf, ReservedXpOf, LockedXpOf, net, capped>>
    PROVE  BooksInv'
  BY DEF BooksInv, XpBooks, TotalsMatch, Reconciled, EntriesHaveRecord, OverfullIsCapped

\* The totals of every record are the sums of the entries beside it, and a key
\* holds what it was granted less what was taken, through every call that can
\* fail, saturate or return early between its writes.
THEOREM BooksKept == Spec => []XpBooks
<1>1. IInv /\ BooksInv /\ [Next]_vars => BooksInv'
  <2> SUFFICES ASSUME IInv, BooksInv, [Next]_vars PROVE BooksInv'
    OBVIOUS
  <2>0. Amounts \subseteq Points
    BY XpAssumption DEF Points
  <2>1. ASSUME NEW k \in Keys, NEW p \in Amounts, NEW o \in Owners, BeginXp(o, k, p)
        PROVE  BooksInv'
    BY <2>0, <2>1, CreateBooks, EarnBooks DEF BeginXp, xp_exists
  <2>2. ASSUME NEW k \in Keys, NEW p \in Amounts,
               SlashXp(k, p) \/ MintInto(k, p) \/ BurnFrom(k, p) \/ SetBalance(k, p)
        PROVE  BooksInv'
    BY <2>0, <2>2, LiquidBooks
  <2>3. ASSUME NEW k \in Keys, NEW p \in Amounts, NEW r \in ReserveReasons,
               \/ ReserveXp(k, r, p)
               \/ \E exact \in BOOLEAN : WithdrawReservePartial(k, r, p, exact)
               \/ SlashReserve(k, r, p)
               \/ SetBalanceOnHold(k, r, p)
        PROVE  BooksInv'
    BY <2>0, <2>3, ReserveBooks, WithdrawReservePartialBooks, SlashReserveBooks, HoldBooks
  <2>4. ASSUME NEW k \in Keys, NEW p \in Amounts, NEW l \in LockReasons,
               LockXp(k, l, p) \/ SlashLock(k, l, p) \/ SetFreeze(k, l, p)
                 \/ ExtendFreeze(k, l, p)
        PROVE  BooksInv'
    BY <2>0, <2>4, LockBooks, SlashLockBooks, FreezeBooks, ExtendFreezeBooks
  <2>5. ASSUME NEW k \in Keys, NEW r \in ReserveReasons, WithdrawReserve(k, r)
        PROVE  BooksInv'
    BY <2>5, WithdrawReserveBooks
  <2>6. ASSUME NEW k \in Keys, NEW l \in LockReasons, WithdrawLock(k, l)
        PROVE  BooksInv'
    BY <2>6, WithdrawLockBooks
  <2>7. ASSUME NEW k \in Keys, NEW o \in Owners, Dispose(o, k)
        PROVE  BooksInv'
    BY <2>7, DisposeBooks
  <2>8. ASSUME NEW k \in Keys, NEW o \in Owners, NEW new \in Owners, Handover(o, k, new)
        PROVE  BooksInv'
    BY <2>8, SameBooks DEF Handover
  <2>9. CASE ForceGenesisConfig \/ NextBlock
    BY <2>9, SameBooks DEF ForceGenesisConfig, NextBlock, Idle
  <2>10. CASE UNCHANGED vars
    BY <2>10, SameBooks DEF vars
  <2> QED
    BY <2>1, <2>2, <2>3, <2>4, <2>5, <2>6, <2>7, <2>8, <2>9, <2>10 DEF Next
<1>2. BooksInv => XpBooks
  BY DEF BooksInv
<1> QED BY InitBooks, Inductive, <1>1, <1>2, PTL DEF Spec

-----------------------------------------------------------------------------
(* The number of actions that xp_eligibility announces. *)

\* Integer division by its two bounds.
LEMMA DivIs ==
    ASSUME NEW x \in Nat, NEW d \in Nat \ {0}, NEW q \in Nat, q * d <= x, x < q * d + d
    PROVE  x \div d = q
<1> DEFINE r == x \div d
<1>1. r \in Nat /\ r * d <= x /\ x < r * d + d
  BY Z3
<1> HIDE DEF r
<1>2. ~ q + 1 <= r
  <2> SUFFICES ASSUME q + 1 <= r PROVE FALSE
    OBVIOUS
  <2>1. (q + 1) * d <= r * d
    BY <1>1, Z3
  <2>2. (q + 1) * d = q * d + d
    BY Z3
  <2>3. q * d \in Nat /\ r * d \in Nat
    BY <1>1, Z3
  <2> QED BY <1>1, <2>1, <2>2, <2>3
<1>3. ~ r + 1 <= q
  <2> SUFFICES ASSUME r + 1 <= q PROVE FALSE
    OBVIOUS
  <2>1. (r + 1) * d <= q * d
    BY <1>1, Z3
  <2>2. (r + 1) * d = r * d + d
    BY <1>1, Z3
  <2>3. q * d \in Nat /\ r * d \in Nat
    BY <1>1, Z3
  <2> QED BY <1>1, <2>1, <2>2, <2>3
<1>4. r = q
  BY <1>1, <1>2, <1>3
<1> QED BY <1>4 DEF r

\* Division of a smaller number, of a sum with the divisor, and in order.
LEMMA DivFacts ==
    ASSUME NEW x \in Nat, NEW d \in Nat \ {0}
    PROVE  /\ x \div d \in Nat
           /\ x < d => x \div d = 0 /\ x % d = x
           /\ x >= d => x \div d >= 1
           /\ (x + d) \div d = x \div d + 1
           /\ \A y \in Nat : x <= y => x \div d <= y \div d
<1> DEFINE q == x \div d
<1>1. q \in Nat /\ q * d <= x /\ x < q * d + d
  BY Z3
<1>2. x < d => x \div d = 0 /\ x % d = x
  BY Z3
<1>3. x >= d => x \div d >= 1
  <2> SUFFICES ASSUME x >= d, q = 0 PROVE FALSE
    BY <1>1
  <2> QED BY <1>1
<1> HIDE DEF q
<1>4. (x + d) \div d = q + 1
  <2>1. (q + 1) * d = q * d + d /\ q * d \in Nat
    BY <1>1, Z3
  <2>2. (q + 1) * d <= x + d /\ x + d < (q + 1) * d + d /\ x + d \in Nat /\ q + 1 \in Nat
    BY <1>1, <2>1
  <2> QED BY <2>2, DivIs
<1>5. ASSUME NEW y \in Nat, x <= y  PROVE q <= y \div d
  <2> DEFINE r == y \div d
  <2>1. r \in Nat /\ y < r * d + d
    BY Z3
  <2> HIDE DEF r
  <2>2. ~ r + 1 <= q
    <3> SUFFICES ASSUME r + 1 <= q PROVE FALSE
      OBVIOUS
    <3>1. (r + 1) * d <= q * d
      BY <1>1, <2>1, Z3
    <3>2. (r + 1) * d = r * d + d
      BY <2>1, Z3
    <3>3. q * d \in Nat /\ r * d \in Nat
      BY <1>1, <2>1, Z3
    <3> QED BY <1>1, <1>5, <2>1, <3>1, <3>2, <3>3
  <2> QED BY <1>1, <2>1, <2>2 DEF r
<1> QED BY <1>1, <1>2, <1>3, <1>4, <1>5 DEF q

\* ceil_div_pulse counts at least one action, more for more, and one less when
\* the steps of one action are taken.
LEMMA CeilFacts ==
    ASSUME NEW n \in Nat, NEW d \in Nat \ {0}
    PROVE  /\ ceil_div_pulse(n, d) \in Nat /\ ceil_div_pulse(n, d) >= 1
           /\ \A m \in Nat : n <= m => ceil_div_pulse(n, d) <= ceil_div_pulse(m, d)
           /\ n > d => ceil_div_pulse(n - d, d) = ceil_div_pulse(n, d) - 1
<1> DEFINE pred(k) == IF k = 0 THEN 0 ELSE k - 1
<1>1. pred(n) \in Nat /\ \A m \in Nat : n <= m => pred(m) \in Nat /\ pred(n) <= pred(m)
  OBVIOUS
<1>2. n > d => pred(n - d) \in Nat /\ pred(n) = pred(n - d) + d
  OBVIOUS
<1>3. \A k : ceil_div_pulse(k, d) = pred(k) \div d + 1
  BY DEF ceil_div_pulse
<1> HIDE DEF pred
<1>4. pred(n) \div d \in Nat
  BY <1>1, DivFacts
<1>5. ASSUME NEW m \in Nat, n <= m  PROVE pred(n) \div d <= pred(m) \div d /\ pred(m) \div d \in Nat
  <2>1. pred(n) \in Nat /\ pred(m) \in Nat /\ pred(n) <= pred(m)
    BY <1>1, <1>5
  <2> QED BY <2>1, DivFacts
<1>6. ASSUME n > d  PROVE pred(n) \div d = pred(n - d) \div d + 1 /\ pred(n - d) \div d \in Nat
  <2>1. pred(n - d) \in Nat /\ pred(n) = pred(n - d) + d
    BY <1>2, <1>6
  <2> QED BY <2>1, DivFacts
<1>7. ASSUME NEW m \in Nat, n <= m  PROVE ceil_div_pulse(n, d) <= ceil_div_pulse(m, d)
  BY <1>3, <1>4, <1>5, <1>7
<1>8. n > d => ceil_div_pulse(n - d, d) = ceil_div_pulse(n, d) - 1
  BY <1>3, <1>6
<1> QED BY <1>3, <1>4, <1>7, <1>8

\* One action adds its steps, and turns a full threshold into value.
LEMMA IncrementFacts ==
    ASSUME NEW q \in Pulses, NEW f \in Steppers, Stepper_new(f), f.per_count # 0
    PROVE  /\ increment(q, f) \in Pulses
           /\ increment(q, f).value >= q.value
           /\ q.step + f.per_count < f.threshold =>
                 /\ increment(q, f).value = q.value
                 /\ increment(q, f).step = q.step + f.per_count
           /\ q.step + f.per_count >= f.threshold /\ q.value < MaxPulse =>
                 increment(q, f).value >= q.value + 1
<1> DEFINE c == f.per_count
           t == f.threshold
           s == PulseCap(q.step + c)
           v == q.value
<1>1. /\ q.step \in 0 .. MaxPulse /\ v \in 0 .. MaxPulse
      /\ c \in 1 .. MaxPulse /\ t \in 1 .. MaxPulse
  BY MaxPulseAssumption DEF Pulses, Steppers, Stepper_new
<1>2. increment(q, f) \in Pulses
  BY <1>1, IncrementType DEF Terminates
<1>3. increment(q, f).value = PulseCap(v + s \div t) /\ increment(q, f).step = s % t
  BY DEF increment
<1> HIDE DEF c, t, v
<1>4. /\ s \in Nat
      /\ q.step + c < t => s = q.step + c
      /\ q.step + c >= t => s >= t
  BY <1>1, MaxPulseAssumption DEF PulseCap
<1> HIDE DEF s
<1>5. /\ s \div t \in Nat
      /\ s < t => s \div t = 0 /\ s % t = s
      /\ s >= t => s \div t >= 1
  <2>1. t \in Nat \ {0}
    BY <1>1, MaxPulseAssumption
  <2> QED BY <1>4, <2>1, DivFacts
<1> DEFINE w == s \div t
<1>6. PulseCap(v + w) >= v /\ (w = 0 => PulseCap(v + w) = v)
      /\ (w >= 1 /\ v < MaxPulse => PulseCap(v + w) >= v + 1)
  <2>1. w \in Nat
    BY <1>5
  <2> HIDE DEF w
  <2> QED BY <1>1, <2>1, MaxPulseAssumption DEF PulseCap
<1>7. q.step + c < t => PulseCap(v + w) = v /\ s % t = q.step + c
  BY <1>4, <1>5, <1>6
<1>8. q.step + c >= t /\ v < MaxPulse => PulseCap(v + w) >= v + 1
  BY <1>4, <1>5, <1>6
<1> QED BY <1>2, <1>3, <1>6, <1>7, <1>8 DEF c, t, v, w

\* An action brings the announced number down, or activates the key.
LEMMA OneActionLess ==
    ASSUME NEW q \in Pulses, NEW f \in Steppers, Stepper_new(f), f.per_count # 0,
           NEW min \in 0 .. MaxPulse, q.value < min, increment(q, f).value < min
    PROVE  /\ eligible_in(increment(q, f), min, f) <= eligible_in(q, min, f) - 1
           /\ eligible_in(increment(q, f), min, f) \in Nat /\ eligible_in(q, min, f) \in Nat
<1> DEFINE r == increment(q, f)
           c == f.per_count
           t == f.threshold
           left(p) == IF p.step <= t THEN t - p.step ELSE 0
           C == ceil_div_pulse(t, c)
<1>1. /\ c \in Nat \ {0} /\ t \in Nat /\ MaxPulse \in Nat /\ min \in Nat
      /\ q.step \in Nat /\ q.value \in Nat
  BY MaxPulseAssumption DEF Pulses, Steppers, Stepper_new
<1>2. r \in Pulses /\ r.step \in Nat /\ r.value \in Nat
  <2>1. r \in Pulses
    BY IncrementFacts
  <2> QED BY <2>1, MaxPulseAssumption DEF Pulses
<1>3. /\ q.step + c < t => r.value = q.value /\ r.step = q.step + c
      /\ q.step + c >= t => r.value >= q.value + 1
  <2>1. q.value < MaxPulse
    BY <1>1
  <2> QED BY <2>1, IncrementFacts
<1>4. /\ eligible_in(q, min, f) = ceil_div_pulse(left(q), c) + (min - q.value - 1) * C
      /\ eligible_in(r, min, f) = ceil_div_pulse(left(r), c) + (min - r.value - 1) * C
  BY DEF eligible_in
<1>5. left(q) \in Nat /\ left(q) <= t /\ left(r) \in Nat /\ left(r) <= t
  BY <1>1, <1>2
<1>6. q.step + c < t => left(q) > c /\ left(r) = left(q) - c
  BY <1>1, <1>3
<1> HIDE DEF r, c, t, left
<1>7. C \in Nat /\ C >= 1
  BY <1>1, CeilFacts
<1> DEFINE eq == ceil_div_pulse(left(q), c)
           er == ceil_div_pulse(left(r), c)
<1>8. eq \in Nat /\ eq >= 1 /\ er \in Nat
  BY <1>1, <1>5, CeilFacts
<1>9. er <= C
  BY <1>1, <1>5, CeilFacts
<1>10. q.step + c < t => er = eq - 1
  BY <1>1, <1>5, <1>6, CeilFacts
<1> HIDE DEF C, eq, er
<1> DEFINE a == min - q.value - 1
           b == min - r.value - 1
<1>11. a \in Nat /\ b \in Nat
  BY <1>1, <1>2 DEF r
<1>12. a * C \in Nat /\ b * C \in Nat
  BY <1>7, <1>11, Z3
<1>13. er + b * C <= eq + a * C - 1
  <2>1. CASE q.step + c < t
    <3>1. a = b
      BY <1>3, <2>1
    <3> HIDE DEF a, b
    <3> QED BY <1>8, <1>10, <1>12, <2>1, <3>1
  <2>2. CASE q.step + c >= t
    <3>1. b + 1 <= a
      BY <1>1, <1>2, <1>3, <2>2
    <3> HIDE DEF a, b
    <3>2. (b + 1) * C <= a * C
      BY <1>7, <1>11, <3>1, Z3
    <3>3. (b + 1) * C = b * C + C
      BY <1>7, <1>11, Z3
    <3> QED BY <1>7, <1>8, <1>9, <1>12, <3>2, <3>3
  <2> QED BY <1>1, <2>1, <2>2
<1>14. eligible_in(q, min, f) = eq + a * C /\ eligible_in(r, min, f) = er + b * C
  BY <1>4 DEF eq, er
<1> HIDE DEF a, b
<1> DEFINE u == er + b * C
           w == eq + a * C
<1>15. u \in Nat /\ w \in Nat /\ u <= w - 1
  BY <1>8, <1>12, <1>13
<1> HIDE DEF u, w
<1>16. eligible_in(q, min, f) = w /\ eligible_in(r, min, f) = u
  BY <1>14 DEF u, w
<1> QED BY <1>15, <1>16 DEF r

\* g is the pulse after each of the first n actions.
Actions(p, f, n, g) == g = [m \in 0 .. n |-> IF m = 0 THEN p ELSE increment(g[m - 1], f)]

LEMMA IncrementsChosen ==
    ASSUME NEW p, NEW f, NEW n
    PROVE  Increments(p, f, n) = (CHOOSE g : Actions(p, f, n, g))[n]
BY DEF Increments, Actions

LEMMA ActionsExist ==
    ASSUME NEW p, NEW f, NEW n \in Nat
    PROVE  \E g : Actions(p, f, n, g)
<1> DEFINE P == {k \in Nat : \E g : Actions(p, f, k, g)}
<1>1. 0 \in P
  <2>1. Actions(p, f, 0, [m \in 0 .. 0 |-> p])
    <3>1. \A m \in 0 .. 0 : m = 0
      OBVIOUS
    <3> QED BY <3>1 DEF Actions
  <2> QED BY <2>1
<1>2. ASSUME NEW k \in P  PROVE k + 1 \in P
  <2>1. PICK g : Actions(p, f, k, g)
    OBVIOUS
  <2> DEFINE h == [m \in 0 .. (k + 1) |-> IF m = 0 THEN p ELSE increment(g[m - 1], f)]
  <2>2. ASSUME NEW m \in 0 .. k  PROVE g[m] = h[m]
    <3>1. g[m] = IF m = 0 THEN p ELSE increment(g[m - 1], f)
      BY <2>1 DEF Actions
    <3>2. m \in 0 .. (k + 1)
      OBVIOUS
    <3> QED BY <3>1, <3>2
  <2> DEFINE j == [m \in 0 .. (k + 1) |-> IF m = 0 THEN p ELSE increment(h[m - 1], f)]
  <2>3. ASSUME NEW m \in 0 .. (k + 1)  PROVE h[m] = j[m]
    <3>1. m # 0 => m - 1 \in 0 .. k
      OBVIOUS
    <3>2. m # 0 => g[m - 1] = h[m - 1]
      BY <2>2, <3>1
    <3>3. h[m] = IF m = 0 THEN p ELSE increment(g[m - 1], f)
      OBVIOUS
    <3>4. j[m] = IF m = 0 THEN p ELSE increment(h[m - 1], f)
      OBVIOUS
    <3> HIDE DEF h, j
    <3> QED BY <3>2, <3>3, <3>4
  <2>4. h = [m \in 0 .. (k + 1) |-> h[m]] /\ j = [m \in 0 .. (k + 1) |-> j[m]]
    OBVIOUS
  <2>5. h = j
    <3> HIDE DEF h, j
    <3> QED BY <2>3, <2>4
  <2>6. Actions(p, f, k + 1, h)
    <3> HIDE DEF h
    <3> QED BY <2>5 DEF Actions, j
  <2> HIDE DEF h
  <2> QED BY <2>6
<1>3. P = Nat
  <2>1. P \in SUBSET Nat
    OBVIOUS
  <2> HIDE DEF P
  <2> QED BY <1>1, <1>2, <2>1, NatInd
<1> QED BY <1>3

\* After the announced number of actions the value has reached the minimum.
LEMMA AnnouncedSuffices ==
    ASSUME NEW p \in Pulses, NEW f \in Steppers, Stepper_new(f), NEW min \in 0 .. MaxPulse,
           ~ eligibility_fails(p, min, f)
    PROVE  Increments(p, f, xp_eligibility(p, min, f)).value >= min
<1> DEFINE n == xp_eligibility(p, min, f)
<1>0. p.value \in Nat /\ min \in Nat /\ MaxPulse \in Nat
  BY MaxPulseAssumption DEF Pulses
<1>1. CASE p.value >= min
  <2>1. n = 0
    BY <1>1 DEF xp_eligibility
  <2>2. PICK g : Actions(p, f, 0, g) /\ Increments(p, f, 0) = g[0]
    <3>1. 0 \in Nat
      OBVIOUS
    <3> QED BY <3>1, ActionsExist, IncrementsChosen
  <2>3. g[0] = p
    BY <2>2 DEF Actions
  <2> QED BY <1>1, <2>1, <2>2, <2>3
<1>2. CASE p.value < min
  <2>1. f.per_count # 0
    BY <1>2 DEF eligibility_fails
  <2>2. n = eligible_in(p, min, f)
    BY <1>0, <1>2 DEF xp_eligibility
  <2>3. n \in Nat
    <3> DEFINE left == IF p.step <= f.threshold THEN f.threshold - p.step ELSE 0
    <3>1. f.per_count \in Nat \ {0} /\ f.threshold \in Nat /\ left \in Nat
      BY <2>1, MaxPulseAssumption DEF Steppers, Pulses
    <3>2. n = ceil_div_pulse(left, f.per_count)
                + (min - p.value - 1) * ceil_div_pulse(f.threshold, f.per_count)
      BY <2>2 DEF eligible_in
    <3> HIDE DEF left, n
    <3> DEFINE a == ceil_div_pulse(left, f.per_count)
               b == ceil_div_pulse(f.threshold, f.per_count)
               e == min - p.value - 1
    <3>3. a \in Nat /\ b \in Nat /\ e \in Nat
      <4>1. a \in Nat /\ b \in Nat
        BY <3>1, CeilFacts
      <4>2. e \in Nat
        BY <1>0, <1>2
      <4> QED BY <4>1, <4>2
    <3>4. n = a + e * b
      BY <3>2
    <3> HIDE DEF a, b, e
    <3>5. e * b \in Nat
      BY <3>3, Z3
    <3> QED BY <3>3, <3>4, <3>5
  <2>4. PICK g : Actions(p, f, n, g) /\ Increments(p, f, n) = g[n]
    <3> HIDE DEF n
    <3> QED BY <2>3, ActionsExist, IncrementsChosen
  <2> DEFINE P == {m \in Nat : m <= n =>
                     /\ g[m] \in Pulses
                     /\ \/ g[m].value >= min
                        \/ eligible_in(g[m], min, f) \in Nat /\ eligible_in(g[m], min, f) + m <= n}
  <2>5. 0 \in P
    <3>1. g[0] = p
      BY <2>3, <2>4 DEF Actions
    <3>2. eligible_in(p, min, f) + 0 <= n
      BY <2>2, <2>3
    <3> HIDE DEF n
    <3> QED BY <2>2, <2>3, <3>1, <3>2
  <2>6. ASSUME NEW m \in P  PROVE m + 1 \in P
    <3> SUFFICES ASSUME m + 1 <= n
                 PROVE  /\ g[m + 1] \in Pulses
                        /\ \/ g[m + 1].value >= min
                           \/ /\ eligible_in(g[m + 1], min, f) \in Nat
                              /\ eligible_in(g[m + 1], min, f) + (m + 1) <= n
      OBVIOUS
    <3> DEFINE q == g[m]
    <3>1. m \in Nat /\ m <= n
      BY <2>3
    <3>2. /\ q \in Pulses
          /\ \/ q.value >= min
             \/ eligible_in(q, min, f) \in Nat /\ eligible_in(q, min, f) + m <= n
      BY <3>1
    <3>3. g[m + 1] = increment(q, f)
      <4>1. m + 1 \in 0 .. n /\ m + 1 # 0 /\ (m + 1) - 1 = m
        BY <2>3, <3>1
      <4> HIDE DEF n
      <4>2. g[m + 1] = increment(g[(m + 1) - 1], f)
        BY <2>4, <4>1 DEF Actions
      <4> QED BY <4>1, <4>2
    <3> HIDE DEF q, n, P
    <3>4. increment(q, f) \in Pulses /\ increment(q, f).value >= q.value
      BY <2>1, <3>2, IncrementFacts
    <3>5. q.value \in Nat /\ increment(q, f).value \in Nat
      BY <3>2, <3>4, MaxPulseAssumption DEF Pulses
    <3>6. CASE increment(q, f).value >= min
      BY <3>3, <3>4, <3>6
    <3>7. CASE increment(q, f).value < min
      <4>1. q.value < min
        BY <1>0, <3>4, <3>5, <3>7
      <4>2. eligible_in(q, min, f) \in Nat /\ eligible_in(q, min, f) + m <= n
        BY <1>0, <3>2, <3>5, <4>1
      <4>3. /\ eligible_in(increment(q, f), min, f) <= eligible_in(q, min, f) - 1
            /\ eligible_in(increment(q, f), min, f) \in Nat
        BY <2>1, <3>2, <3>7, <4>1, OneActionLess
      <4> QED BY <2>3, <3>1, <3>3, <3>4, <4>2, <4>3
    <3> QED BY <1>0, <3>5, <3>6, <3>7
  <2>7. P = Nat
    <3>1. P \in SUBSET Nat
      OBVIOUS
    <3> HIDE DEF P
    <3> QED BY <2>5, <2>6, <3>1, NatInd
  <2>8. g[n] \in Pulses /\ (g[n].value >= min \/ eligible_in(g[n], min, f) <= 0)
    <3>1. n \in P /\ n <= n
      BY <2>3, <2>7
    <3> HIDE DEF n
    <3> QED BY <2>3, <3>1
  <2>9. g[n].value >= min
    <3> SUFFICES ASSUME g[n].value < min PROVE FALSE
      BY <1>0, <2>8, MaxPulseAssumption DEF Pulses
    <3> DEFINE q == g[n]
               left == IF q.step <= f.threshold THEN f.threshold - q.step ELSE 0
               a == ceil_div_pulse(left, f.per_count)
               b == ceil_div_pulse(f.threshold, f.per_count)
               e == min - q.value - 1
    <3>1. f.per_count \in Nat \ {0} /\ f.threshold \in Nat /\ q.step \in Nat /\ q.value \in Nat
      BY <2>1, <2>8, MaxPulseAssumption DEF Steppers, Pulses
    <3>2. left \in Nat /\ e \in Nat
      BY <1>0, <3>1
    <3>3. a \in Nat /\ a >= 1 /\ b \in Nat
      BY <3>1, <3>2, CeilFacts
    <3>4. eligible_in(q, min, f) = a + e * b
      BY DEF eligible_in
    <3> HIDE DEF a, b, e
    <3>5. e * b \in Nat
      BY <3>2, <3>3, Z3
    <3>6. ~ a + e * b <= 0
      BY <3>3, <3>5
    <3> QED BY <1>0, <2>8, <3>1, <3>4, <3>6
  <2> QED BY <2>4, <2>9
<1> QED BY <1>0, <1>1, <1>2

\* xp_eligibility never announces too few actions, whatever thresholds root
\* installed while the key was collecting steps.
THEOREM AnnouncementHolds == Spec => []EligibilitySuffices
<1>1. Init => FactorAccepted
  BY DEF Init, FactorAccepted
<1>2. FactorAccepted /\ [Next]_vars => FactorAccepted'
  <2> SUFFICES ASSUME FactorAccepted, [Next]_vars PROVE FactorAccepted'
    OBVIOUS
  <2>1. CASE ForceGenesisConfig
    BY <2>1 DEF ForceGenesisConfig, FactorAccepted
  <2>2. CASE ~ ForceGenesisConfig
    <3> SUFFICES PulseFactor' = PulseFactor
      BY DEF FactorAccepted
    <3>1. \A k, x, d : Update(k, x, d) => PulseFactor' = PulseFactor
      BY DEF Update, config
    <3>2. \A k, n, d : SetFree(k, n, d) => PulseFactor' = PulseFactor
      BY <3>1 DEF SetFree
    <3>3. \A k, r, p, n, d : set_reserve(k, r, p, n, d) \/ set_lock(k, r, p, n, d) \/ burn_lock(k, r, n, d)
             => PulseFactor' = PulseFactor
      BY <3>1 DEF set_reserve, set_lock, burn_lock
    <3>4. ASSUME NEW k, NEW p, NEW o, BeginXp(o, k, p)  PROVE PulseFactor' = PulseFactor
      BY <3>1, <3>4 DEF BeginXp, create_xp, earn_xp, config
    <3>5. ASSUME NEW k, NEW p, SlashXp(k, p) \/ MintInto(k, p) \/ BurnFrom(k, p) \/ SetBalance(k, p)
          PROVE  PulseFactor' = PulseFactor
      BY <3>2, <3>5 DEF SlashXp, MintInto, BurnFrom, SetBalance
    <3>6. ASSUME NEW k, NEW p, NEW r, NEW exact,
                 \/ ReserveXp(k, r, p) \/ WithdrawReservePartial(k, r, p, exact)
                 \/ SlashReserve(k, r, p) \/ SetBalanceOnHold(k, r, p)
          PROVE  PulseFactor' = PulseFactor
      BY <3>3, <3>6 DEF ReserveXp, WithdrawReservePartial, SlashReserve, SetBalanceOnHold
    <3>7. ASSUME NEW k, NEW p, NEW l,
                 \/ LockXp(k, l, p) \/ SlashLock(k, l, p)
                 \/ SetFreeze(k, l, p) \/ ExtendFreeze(k, l, p)
          PROVE  PulseFactor' = PulseFactor
      BY <3>3, <3>7 DEF LockXp, SlashLock, SetFreeze, ExtendFreeze, Thaw
    <3>8. ASSUME NEW k, NEW r, WithdrawReserve(k, r)  PROVE PulseFactor' = PulseFactor
      BY <3>6, <3>8 DEF WithdrawReserve
    <3>9. ASSUME NEW k, NEW o, Dispose(o, k) \/ \E new \in Owners : Handover(o, k, new)
          PROVE  PulseFactor' = PulseFactor
      BY <3>9 DEF Dispose, Handover, config
    <3>10. CASE NextBlock
      BY <3>10 DEF NextBlock, config
    <3>11. CASE UNCHANGED vars
      BY <3>11 DEF vars, config
    <3>12. CASE \E k \in Keys, p \in Amounts : \E r \in ReserveReasons :
                  \/ ReserveXp(k, r, p)
                  \/ \E exact \in BOOLEAN : WithdrawReservePartial(k, r, p, exact)
                  \/ SlashReserve(k, r, p)
                  \/ SetBalanceOnHold(k, r, p)
      <4>1. PICK k \in Keys, p \in Amounts, r \in ReserveReasons, exact \in BOOLEAN :
                  \/ ReserveXp(k, r, p) \/ WithdrawReservePartial(k, r, p, exact)
                  \/ SlashReserve(k, r, p) \/ SetBalanceOnHold(k, r, p)
        BY <3>12
      <4> QED BY <3>6, <4>1
    <3>13. ASSUME NEW k, NEW l, WithdrawLock(k, l)  PROVE PulseFactor' = PulseFactor
      BY <3>3, <3>13 DEF WithdrawLock
    <3> QED
      BY <2>2, <3>4, <3>5, <3>7, <3>8, <3>9, <3>10, <3>11, <3>12, <3>13 DEF Next
  <2> QED BY <2>1, <2>2
<1>3. IInv /\ FactorAccepted => EligibilitySuffices
  <2> SUFFICES ASSUME IInv, FactorAccepted, NEW k \in DOMAIN XpOf,
                      ~ eligibility_fails(XpOf[k].pulse, MinPulse, PulseFactor)
               PROVE  Increments(XpOf[k].pulse, PulseFactor,
                        xp_eligibility(XpOf[k].pulse, MinPulse, PulseFactor)).value >= MinPulse
    BY DEF EligibilitySuffices
  <2>1. XpOf[k].pulse \in Pulses /\ PulseFactor \in Steppers /\ MinPulse \in 0 .. MaxPulse
    BY KeyTypes DEF Records, IInv, TypeOK
  <2> QED BY <2>1, AnnouncedSuffices DEF FactorAccepted
<1> QED BY Inductive, <1>1, <1>2, <1>3, PTL DEF Spec

=============================================================================
