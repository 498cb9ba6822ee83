---------------------------- MODULE AuthorsProofs ----------------------------
(***************************************************************************)
(* The obligations and the funding of authors for every set of authors,    *)
(* backers and indexes, every width of the asset type, every precision of  *)
(* ratios, every set of parameters that root may install, and every bound  *)
(* on blocks and pending obligations.                                      *)
(***************************************************************************)
EXTENDS Authors, TLAPS

-----------------------------------------------------------------------------
(* The invariant *)

\* What is scheduled has a block, an author and an amount or a factor.
PendingTyped ==
    /\ DOMAIN AuthorRewards \subseteq Nat \X Author
    /\ DOMAIN AuthorPenalties \subseteq Nat \X Author
    /\ \A y \in DOMAIN AuthorRewards : AuthorRewards[y] \in Nat
    /\ \A y \in DOMAIN AuthorPenalties : AuthorPenalties[y] \in 1 .. Perbill

\* A backer is in the digest of the author, or in those of the entries of the
\* index, that its commitment names.
BackingFollows ==
    \A b \in DOMAIN backing :
        \/ backing[b].to \in Author /\ backing[b].in = {backing[b].to}
        \/ backing[b].to \in DOMAIN entriesOf /\ backing[b].in = entriesOf[backing[b].to]

FundsTyped ==
    /\ DOMAIN AuthorFunders \subseteq Author \X Backers
    /\ DOMAIN backing \subseteq Backers
    /\ DOMAIN entriesOf \subseteq Indexes
    /\ \A i \in DOMAIN entriesOf : entriesOf[i] \subseteq Author
    /\ BackingFollows

\* A digest without shares is worth nothing: the funding of an author whom
\* nobody backs, the collateral of one who has resigned.
UnheldIsEmpty ==
    /\ \A a \in DOMAIN funding : Holders(a) = {} => funding[a] = 0
    /\ \A a \in DOMAIN collateral : ~ enrolled(a) => collateral[a] = 0

IInv ==
    /\ TypeOK
    /\ PendingTyped
    /\ PendingVisible
    /\ NoEscape
    /\ FundsTyped
    /\ FundersListed
    /\ UnheldIsEmpty

-----------------------------------------------------------------------------
(* Ratios *)

\* What integer division returns: the floor of the quotient.
LEMMA DivFloor ==
    ASSUME NEW n \in Nat, NEW d \in Nat \ {0}
    PROVE  /\ n \div d \in Nat
           /\ (n \div d) * d <= n
           /\ n < (n \div d) * d + d
  BY SMT

\* A product of natural numbers is one.
LEMMA MulNat ==
    ASSUME NEW x \in Nat, NEW y \in Nat
    PROVE  x * y \in Nat
  BY SMT

\* Multiplication by a natural number keeps the order.
LEMMA MulMono ==
    ASSUME NEW x \in Int, NEW y \in Int, NEW k \in Nat, x <= y
    PROVE  x * k <= y * k
  BY SMT

\* A positive factor cancels from both sides of an inequality.
LEMMA MulCancel ==
    ASSUME NEW x \in Int, NEW y \in Int, NEW k \in Nat \ {0}, x * k < y * k
    PROVE  x < y
  BY SMT

\* The quotient of a product by one of its factors is the other.
LEMMA DivExact ==
    ASSUME NEW x \in Nat, NEW d \in Nat \ {0}, NEW r \in 0 .. d - 1
    PROVE  (x * d + r) \div d = x
<1> DEFINE n == x * d + r
           q == n \div d
<1>1. x * d \in Nat /\ n \in Nat
  BY MulNat
<1>2. q \in Nat /\ q * d <= n /\ n < q * d + d
  BY <1>1, DivFloor
<1>3. n = x * d + r
  OBVIOUS
<1> HIDE DEF n, q
<1>4. q < x + 1
  <2>1. q * d < x * d + d
    BY <1>1, <1>2, <1>3, MulNat
  <2>2. (x + 1) * d = x * d + d
    BY SMT
  <2>3. q * d < (x + 1) * d
    BY <2>1, <2>2
  <2> QED  BY <1>2, <2>3, MulCancel
<1>5. x < q + 1
  <2>1. x * d < q * d + d
    BY <1>1, <1>2, <1>3, MulNat
  <2>2. (q + 1) * d = q * d + d
    BY <1>2, SMT
  <2>3. x * d < (q + 1) * d
    BY <2>1, <2>2
  <2> QED  BY <1>2, <2>3, MulCancel
<1>6. q = x
  BY <1>2, <1>4, <1>5
<1> QED  BY <1>6 DEF q, n

\* A ratio of a number, rounded down or up, is at most the number.
LEMMA RatioOf ==
    ASSUME NEW p \in 0 .. Perbill, NEW x \in Nat
    PROVE  /\ mul_floor(p, x) \in 0 .. x
           /\ mul_ceil(p, x) \in 0 .. x
<1>0. Perbill \in Nat \ {0} /\ p \in Nat /\ p <= Perbill
  BY AuthorsAssumption
<1>1. p * x \in Nat /\ p * x <= x * Perbill
  <2>1. p * x <= Perbill * x
    BY <1>0, MulMono
  <2> QED  BY <1>0, <2>1, MulNat
<1>2. mul_floor(p, x) \in Nat /\ mul_ceil(p, x) \in Nat
  BY <1>0, <1>1, DivFloor DEF mul_floor, mul_ceil
<1>3. mul_floor(p, x) * Perbill <= p * x
  BY <1>0, <1>1, DivFloor DEF mul_floor
<1>4. mul_ceil(p, x) * Perbill <= p * x + Perbill - 1
  BY <1>0, <1>1, DivFloor DEF mul_ceil
<1>5. (x + 1) * Perbill = x * Perbill + Perbill /\ x * Perbill \in Nat
  BY <1>0, SMT
<1> DEFINE f == mul_floor(p, x)
           c == mul_ceil(p, x)
<1>6. f * Perbill < (x + 1) * Perbill /\ c * Perbill < (x + 1) * Perbill
  <2>1. f * Perbill \in Nat /\ c * Perbill \in Nat
    BY <1>0, <1>2, MulNat
  <2> HIDE DEF f, c
  <2> QED  BY <1>0, <1>1, <1>3, <1>4, <1>5, <2>1 DEF f, c
<1>7. f < x + 1 /\ c < x + 1
  <2> HIDE DEF f, c
  <2> QED  BY <1>0, <1>2, <1>6, MulCancel DEF f, c
<1> QED  BY <1>2, <1>7

\* The whole is all of a number, nothing is nothing of it.
LEMMA RatioEnds ==
    ASSUME NEW x \in Nat
    PROVE  mul_ceil(Perbill, x) = x /\ mul_ceil(0, x) = 0
<1>0. Perbill \in Nat \ {0}
  BY AuthorsAssumption
<1>1. (x * Perbill + (Perbill - 1)) \div Perbill = x
  BY <1>0, DivExact
<1>2. mul_ceil(Perbill, x) = x
  BY <1>0, <1>1, MulNat DEF mul_ceil
<1>3. (0 * Perbill + (Perbill - 1)) \div Perbill = 0
  BY <1>0, DivExact
<1> QED  BY <1>0, <1>2, <1>3 DEF mul_ceil

\* The ratio of a part to the whole: one if the part is all there is, nothing
\* if it is empty, and never more than one.
LEMMA RatioBetween ==
    ASSUME NEW p \in Nat, NEW q \in Nat, p <= q
    PROVE  /\ from_rational(p, q) \in 0 .. Perbill
           /\ p = q => from_rational(p, q) = Perbill
           /\ p = 0 /\ q # 0 => from_rational(p, q) = 0
<1>0. Perbill \in Nat \ {0}
  BY AuthorsAssumption
<1>1. CASE q = 0
  BY <1>0, <1>1 DEF from_rational
<1>2. CASE q # 0
  <2> DEFINE r == (p * Perbill) \div q
  <2>1. p * Perbill \in Nat /\ p * Perbill <= q * Perbill
    BY <1>0, MulNat, MulMono
  <2>2. r \in Nat /\ r * q <= p * Perbill
    BY <1>2, <2>1, DivFloor
  <2>3. r \in 0 .. Perbill
    <3> HIDE DEF r
    <3>1. r * q < (Perbill + 1) * q
      <4>1. (Perbill + 1) * q = q * Perbill + q
        BY <1>0, SMT
      <4> QED  BY <1>0, <1>2, <2>1, <2>2, <4>1, MulNat
    <3>2. r < Perbill + 1
      BY <1>0, <1>2, <2>2, <3>1, MulCancel
    <3> QED  BY <1>0, <2>2, <3>2
  <2>4. p = q => r = Perbill
    <3>1. (Perbill * q + 0) \div q = Perbill
      BY <1>0, <1>2, DivExact
    <3> QED  BY <1>0, <3>1, MulNat
  <2>5. p = 0 => r = 0
    <3>1. (0 * q + 0) \div q = 0
      BY <1>2, DivExact
    <3> QED  BY <1>0, <3>1
  <2>6. from_rational(p, q) = r
    BY <1>2 DEF from_rational
  <2> HIDE DEF r
  <2> QED  BY <1>0, <1>2, <2>3, <2>4, <2>5, <2>6
<1> QED  BY <1>1, <1>2

-----------------------------------------------------------------------------
(* The hold of an author *)

Holds == [f : 0 .. MaxAsset, c : 0 .. MaxAsset]

\* The parts of h that nobody has shares of are empty.
HeldBy(a, h) ==
    /\ Holders(a) = {} => h.f = 0
    /\ ~ enrolled(a) => h.c = 0

\* Somebody has shares of the hold.
Shared(a, h) == h.c # 0 \/ Holders(a) # {}

\* Both parts of a hold that is split are within the asset type, and those that
\* nobody has shares of stay empty, whether the two writes succeed or not.
LEMMA SetHoldTyped ==
    ASSUME NEW a \in Author, NEW h \in Holds, HeldBy(a, h), NEW value \in Nat
    PROVE  set_hold(a, h, value) \in Holds /\ HeldBy(a, set_hold(a, h, value))
<1> DEFINE ratio == from_rational(h.f, hold(h))
           f     == mul_ceil(ratio, value)
           c     == IF value > f THEN value - f ELSE 0
<1>0. MaxAsset \in Nat /\ Perbill \in Nat \ {0}
  BY AuthorsAssumption
<1>1. h.f \in 0 .. MaxAsset /\ h.c \in 0 .. MaxAsset /\ h = [f |-> h.f, c |-> h.c]
  BY DEF Holds
<1>2. h.f \in Nat /\ hold(h) \in Nat /\ h.f <= hold(h)
  BY <1>0, <1>1 DEF hold
<1>3. ratio \in 0 .. Perbill
  BY <1>2, RatioBetween
<1>4. f \in 0 .. value
  BY <1>3, RatioOf
<1> HIDE DEF f, ratio
<1>5. f \in Nat /\ c \in Nat
  BY <1>4
<1>6. set_hold(a, h, value) =
        IF ~ Settable(h.f, f, Holders(a) # {}) THEN h
        ELSE IF ~ Settable(h.c, c, enrolled(a)) THEN [f |-> f, c |-> h.c]
        ELSE [f |-> f, c |-> c]
  BY <1>1 DEF set_hold, f, ratio
<1>7. CASE ~ Settable(h.f, f, Holders(a) # {})
  BY <1>6, <1>7
<1>8. CASE Settable(h.f, f, Holders(a) # {}) /\ ~ Settable(h.c, c, enrolled(a))
  <2>1. set_hold(a, h, value) = [f |-> f, c |-> h.c]
    BY <1>6, <1>8
  <2>2. f \in 0 .. MaxAsset /\ (Holders(a) = {} => f = 0)
    BY <1>0, <1>1, <1>5, <1>8 DEF Settable, HeldBy
  <2> QED  BY <1>1, <2>1, <2>2 DEF Holds, HeldBy
<1>9. CASE Settable(h.f, f, Holders(a) # {}) /\ Settable(h.c, c, enrolled(a))
  <2>1. set_hold(a, h, value) = [f |-> f, c |-> c]
    BY <1>6, <1>9
  <2>2. f \in 0 .. MaxAsset /\ (Holders(a) = {} => f = 0)
    BY <1>0, <1>1, <1>5, <1>9 DEF Settable, HeldBy
  <2>3. c \in 0 .. MaxAsset /\ (~ enrolled(a) => c = 0)
    BY <1>0, <1>1, <1>5, <1>9 DEF Settable, HeldBy
  <2> HIDE DEF c
  <2> QED  BY <2>1, <2>2, <2>3 DEF Holds, HeldBy
<1> QED  BY <1>7, <1>8, <1>9

\* A hold that somebody has shares of can be set to any value of the asset
\* type: the parts add up to the value, although each is rounded, and the part
\* that nobody has shares of is given nothing.
LEMMA SetHoldExact ==
    ASSUME NEW a \in Author, NEW h \in Holds, HeldBy(a, h), Shared(a, h),
           NEW value \in 0 .. MaxAsset
    PROVE  hold(set_hold(a, h, value)) = value
<1> DEFINE ratio == from_rational(h.f, hold(h))
           f     == mul_ceil(ratio, value)
           c     == IF value > f THEN value - f ELSE 0
<1>0. MaxAsset \in Nat /\ Perbill \in Nat \ {0} /\ value \in Nat /\ value <= MaxAsset
  BY AuthorsAssumption
<1>1. h.f \in Nat /\ h.c \in Nat /\ h = [f |-> h.f, c |-> h.c]
  BY <1>0 DEF Holds
<1>2. hold(h) = h.f + h.c /\ hold(h) \in Nat /\ h.f <= hold(h)
  BY <1>1 DEF hold
<1>3. ratio \in 0 .. Perbill
  BY <1>1, <1>2, RatioBetween
<1>4. f \in 0 .. value
  BY <1>0, <1>3, RatioOf
<1>5. Holders(a) = {} => f = h.f
  <2> SUFFICES ASSUME Holders(a) = {} PROVE f = h.f
    OBVIOUS
  <2>1. h.f = 0 /\ h.c # 0
    BY DEF HeldBy, Shared
  <2>2. ratio = 0
    BY <1>1, <1>2, <2>1, RatioBetween
  <2> QED  BY <1>0, <2>1, <2>2, RatioEnds
<1>6. ~ enrolled(a) => f = value
  <2> SUFFICES ASSUME ~ enrolled(a) PROVE f = value
    OBVIOUS
  <2>1. h.c = 0
    BY DEF HeldBy
  <2>2. ratio = Perbill
    BY <1>1, <1>2, <2>1, RatioBetween
  <2> QED  BY <1>0, <2>2, RatioEnds
<1> HIDE DEF f, ratio
<1>7. f \in Nat /\ c \in Nat /\ f + c = value
  BY <1>0, <1>4
<1>8. Settable(h.f, f, Holders(a) # {})
  BY <1>0, <1>4, <1>5 DEF Settable
<1>9. Settable(h.c, c, enrolled(a))
  BY <1>0, <1>4, <1>6, <1>7 DEF Settable, HeldBy
<1>10. set_hold(a, h, value) = [f |-> f, c |-> c]
  BY <1>8, <1>9 DEF set_hold, f, ratio
<1> HIDE DEF c
<1> QED  BY <1>7, <1>10 DEF hold

Before(a) == [f |-> funding[a], c |-> collateral[a]]

DueReward(a, n)  == IF <<n, a>> \in DOMAIN AuthorRewards THEN AuthorRewards[<<n, a>>] ELSE 0
DuePenalty(a, n) == IF <<n, a>> \in DOMAIN AuthorPenalties THEN AuthorPenalties[<<n, a>>] ELSE 0

\* What an author holds before the block's obligations are applied.
LEMMA BeforeTyped ==
    ASSUME TypeOK, UnheldIsEmpty, NEW a \in Author, HasHold(a)
    PROVE  Before(a) \in Holds /\ HeldBy(a, Before(a))
  BY DEF TypeOK, UnheldIsEmpty, HasHold, Before, Holds, HeldBy

\* A penalty leaves a value that is not negative.
LEMMA PunishedValue ==
    ASSUME NEW p \in 0 .. Perbill, NEW x \in Nat
    PROVE  x - mul_floor(p, x) \in 0 .. x
<1>1. mul_floor(p, x) \in 0 .. x
  BY RatioOf
<1> QED  BY <1>1

\* on_initialize leaves a hold within the asset type, whatever it finds due.
LEMMA SettledTyped ==
    ASSUME TypeOK, PendingTyped, UnheldIsEmpty, NEW a \in Author, HasHold(a), NEW n \in Nat
    PROVE  settled(a, n) \in Holds /\ HeldBy(a, settled(a, n))
<1> DEFINE h == Before(a)
           r == rewarded(a, h, n)
<1>1. h \in Holds /\ HeldBy(a, h)
  BY BeforeTyped
<1>2. \A g \in Holds : hold(g) \in Nat
  BY AuthorsAssumption DEF Holds, hold
<1> HIDE DEF h
<1>3. r \in Holds /\ HeldBy(a, r)
  <2>1. CASE <<n, a>> \in DOMAIN AuthorRewards
    <3>1. AuthorRewards[<<n, a>>] \in Nat
      BY <2>1 DEF PendingTyped
    <3>2. hold(h) + AuthorRewards[<<n, a>>] \in Nat
      BY <1>1, <1>2, <3>1
    <3> QED  BY <1>1, <2>1, <3>2, SetHoldTyped DEF rewarded
  <2>2. CASE <<n, a>> \notin DOMAIN AuthorRewards
    BY <1>1, <2>2 DEF rewarded
  <2> QED  BY <2>1, <2>2
<1> HIDE DEF r
<1>4. punished(a, r, n) \in Holds /\ HeldBy(a, punished(a, r, n))
  <2>1. CASE <<n, a>> \in DOMAIN AuthorPenalties
    <3>1. AuthorPenalties[<<n, a>>] \in 0 .. Perbill
      BY <2>1 DEF PendingTyped
    <3>2. hold(r) - mul_floor(AuthorPenalties[<<n, a>>], hold(r)) \in Nat
      BY <1>2, <1>3, <3>1, PunishedValue
    <3> QED  BY <1>3, <2>1, <3>2, SetHoldTyped DEF punished
  <2>2. CASE <<n, a>> \notin DOMAIN AuthorPenalties
    BY <1>3, <2>2 DEF punished
  <2> QED  BY <2>1, <2>2
<1>5. settled(a, n) = punished(a, r, n)
  BY DEF settled, h, r, Before
<1> QED  BY <1>4, <1>5

\* The reward that is due, then the penalty that is due, change the hold by
\* exactly what they say.
LEMMA SettledExact ==
    ASSUME TypeOK, PendingTyped, UnheldIsEmpty, NEW a \in Author, HasHold(a), NEW n \in Nat,
           Shared(a, Before(a)), hold(Before(a)) + DueReward(a, n) <= MaxAsset
    PROVE  LET full == hold(Before(a)) + DueReward(a, n)
           IN  hold(settled(a, n)) = full - mul_floor(DuePenalty(a, n), full)
<1> DEFINE h == Before(a)
           r == rewarded(a, h, n)
           full == hold(h) + DueReward(a, n)
<1>1. h \in Holds /\ HeldBy(a, h) /\ Shared(a, h)
  BY BeforeTyped
<1>0. MaxAsset \in Nat
  BY AuthorsAssumption
<1>2. \A g \in Holds : hold(g) = g.f + g.c /\ hold(g) \in Nat /\ g.f \in Nat /\ g.c \in Nat
  BY <1>0 DEF Holds, hold
<1>3. DueReward(a, n) \in Nat
  BY DEF PendingTyped, DueReward
<1>4. full \in 0 .. MaxAsset
  BY <1>0, <1>1, <1>2, <1>3
<1> HIDE DEF h
<1>5. r \in Holds /\ HeldBy(a, r) /\ hold(r) = full
  <2>1. CASE <<n, a>> \in DOMAIN AuthorRewards
    <3>1. r = set_hold(a, h, full)
      BY <2>1 DEF rewarded, DueReward
    <3> HIDE DEF r, full
    <3>2. full \in Nat
      BY <1>0, <1>4
    <3> QED  BY <1>1, <1>4, <3>1, <3>2, SetHoldTyped, SetHoldExact
  <2>2. CASE <<n, a>> \notin DOMAIN AuthorRewards
    BY <1>1, <1>2, <2>2 DEF rewarded, DueReward
  <2> QED  BY <2>1, <2>2
<1>6. Shared(a, r)
  <2> SUFFICES ASSUME Holders(a) = {} PROVE r.c # 0
    BY DEF Shared
  <2>1. h.c # 0 /\ hold(h) > 0
    BY <1>1, <1>2 DEF Shared
  <2>2. r.f = 0 /\ hold(r) > 0
    BY <1>1, <1>2, <1>3, <1>5, <2>1 DEF HeldBy
  <2> QED  BY <1>2, <1>5, <2>2
<1> HIDE DEF r, full
<1>7. hold(punished(a, r, n)) = full - mul_floor(DuePenalty(a, n), full)
  <2>1. CASE <<n, a>> \in DOMAIN AuthorPenalties
    <3>1. AuthorPenalties[<<n, a>>] \in 0 .. Perbill /\ DuePenalty(a, n) = AuthorPenalties[<<n, a>>]
      BY <2>1 DEF PendingTyped, DuePenalty
    <3>2. full - mul_floor(AuthorPenalties[<<n, a>>], full) \in 0 .. MaxAsset
      <4>1. full \in Nat /\ full <= MaxAsset
        BY <1>0, <1>4
      <4>2. full - mul_floor(AuthorPenalties[<<n, a>>], full) \in 0 .. full
        BY <3>1, <4>1, PunishedValue
      <4> QED  BY <1>0, <4>1, <4>2
    <3>3. punished(a, r, n) = set_hold(a, r, full - mul_floor(AuthorPenalties[<<n, a>>], full))
      BY <1>5, <2>1 DEF punished
    <3> QED  BY <1>5, <1>6, <3>1, <3>2, <3>3, SetHoldExact
  <2>2. CASE <<n, a>> \notin DOMAIN AuthorPenalties
    <3>1. punished(a, r, n) = r /\ DuePenalty(a, n) = 0
      BY <2>2 DEF punished, DuePenalty
    <3>2. full \in Nat /\ Perbill \in Nat \ {0}
      BY <1>0, <1>4, AuthorsAssumption
    <3>3. mul_floor(0, full) = 0
      <4>1. (0 * Perbill + 0) \div Perbill = 0
        BY <3>2, DivExact
      <4> QED  BY <3>2, <4>1 DEF mul_floor
    <3> QED  BY <1>5, <3>1, <3>2, <3>3
  <2> QED  BY <2>1, <2>2
<1>8. settled(a, n) = punished(a, r, n)
  BY DEF settled, h, r, Before
<1> QED  BY <1>7, <1>8 DEF full, h

-----------------------------------------------------------------------------
(* The step of a block *)

\* What on_initialize does to the two digests of an author.
LEMMA BlockDigests ==
    ASSUME TypeOK, PendingTyped, UnheldIsEmpty, OnInitialize
    PROVE  /\ DOMAIN funding' = DOMAIN funding
           /\ DOMAIN collateral' = DOMAIN collateral
           /\ \A a \in Author : HasHold(a) =>
                 \/ funding'[a] = settled(a, now').f /\ collateral'[a] = settled(a, now').c
                 \/ /\ funding'[a] = funding[a] /\ collateral'[a] = collateral[a]
                    /\ <<now', a>> \notin DOMAIN AuthorRewards \cup DOMAIN AuthorPenalties
           /\ \A a \in DOMAIN funding : ~ HasHold(a) => funding'[a] = funding[a]
           /\ \A a \in DOMAIN collateral : ~ HasHold(a) => collateral'[a] = collateral[a]
  BY DEF OnInitialize, HasHold

-----------------------------------------------------------------------------
(* The helpers *)

\* Put adds or replaces one entry.
LEMMA PutEntry ==
    ASSUME NEW f, NEW x, NEW v
    PROVE  /\ DOMAIN Put(f, x, v) = DOMAIN f \cup {x}
           /\ Put(f, x, v)[x] = v
           /\ \A y \in DOMAIN f : y # x => Put(f, x, v)[y] = f[y]
  BY DEF Put

\* Remove forgets the entries of S and keeps the others.
LEMMA RemoveEntries ==
    ASSUME NEW f, NEW S
    PROVE  /\ DOMAIN Remove(f, S) = DOMAIN f \ S
           /\ \A y \in DOMAIN f \ S : Remove(f, S)[y] = f[y]
  BY DEF Remove, Restrict

\* Deposited changes the digest of one author.
LEMMA DepositedEntry ==
    ASSUME NEW f, NEW a, NEW x
    PROVE  /\ DOMAIN Deposited(f, a, x) = DOMAIN f \cup {a}
           /\ Deposited(f, a, x)[a] = (IF a \in DOMAIN f THEN f[a] ELSE 0) + x
           /\ \A y \in DOMAIN f : y # a => Deposited(f, a, x)[y] = f[y]
  BY DEF Deposited, Put

\* A deposit that the digest takes leaves it within the asset type.
LEMMA DepositedTyped ==
    ASSUME NEW f, \A a \in DOMAIN f : f[a] \in 0 .. MaxAsset,
           NEW a, NEW x \in 0 .. MaxAsset, NEW held, TakesDeposit(f, a, held, x)
    PROVE  Deposited(f, a, x)[a] \in 0 .. MaxAsset
<1>1. MaxAsset \in Nat
  BY AuthorsAssumption
<1>2. CASE a \in DOMAIN f
  BY <1>1, <1>2 DEF Deposited, Put, TakesDeposit
<1>3. CASE a \notin DOMAIN f
  BY <1>1, <1>3 DEF Deposited, Put
<1> QED  BY <1>2, <1>3

\* The bounds on what the parameters of root may be.
LEMMA ConfigTyped ==
    ASSUME NEW c \in Configs
    PROVE  /\ c.ProbationPeriod \in Nat /\ c.ReduceProbationBy \in Nat
           /\ c.IncreaseProbationBy \in Nat
           /\ c.RewardsBuffer \in Nat \ {0} /\ c.PenaltiesBuffer \in Nat \ {0}
           /\ c.MinCollateral \in Nat \ {0} /\ c.MinFund \in Nat \ {0} /\ c.MaxExposure \in Nat
  BY AuthorsAssumption

\* What rewards and penalties do to the standing of an author.
LEMMA StandingTyped ==
    ASSUME TypeOK, NEW info \in AuthorInfo
    PROVE  secured(info) \in AuthorInfo /\ penalized(info) \in AuthorInfo
<1>1. now \in Nat /\ now \in Int
  BY AuthorsAssumption DEF TypeOK
<1>2. /\ config.ProbationPeriod \in Nat /\ config.ReduceProbationBy \in Nat
      /\ config.IncreaseProbationBy \in Nat
  BY ConfigTyped DEF TypeOK
<1>3. secured(info) \in AuthorInfo
  BY <1>1, <1>2 DEF secured, AuthorInfo
<1>4. at_risk(info) \in AuthorInfo
  BY <1>1, <1>2 DEF at_risk, AuthorInfo
<1>5. \A i \in AuthorInfo : revoke_permanence(i) \in AuthorInfo
  BY <1>1 DEF revoke_permanence, AuthorInfo, Statuses
<1> QED  BY <1>3, <1>4, <1>5 DEF penalized

\* No obligation makes an author resign.
LEMMA StandingKeepsRole ==
    ASSUME NEW info \in AuthorInfo
    PROVE  /\ secured(info).status = info.status
           /\ info.status # "Resigned" => penalized(info).status # "Resigned"
<1>1. secured(info).status = info.status /\ at_risk(info).status = info.status
  BY DEF secured, at_risk, AuthorInfo
<1>2. at_risk(info) = [info EXCEPT !.risk_until = at_risk(info).risk_until]
  BY DEF at_risk, AuthorInfo
<1>3. revoke_permanence(at_risk(info)).status = "Probation"
  BY <1>2 DEF revoke_permanence, AuthorInfo
<1> QED  BY <1>1, <1>3 DEF penalized

\* What a backer funds: an author, or the authors of the entries of an index.
Target(to, S) ==
    \/ to \in Author /\ S = {to}
    \/ to \in DOMAIN entriesOf /\ S = entriesOf[to]

LEMMA FundTarget ==
    ASSUME NEW b \in Backers, NEW x \in Amounts,
           (\E a \in Author : FundDirect(b, a, x)) \/ (\E i \in Indexes : FundVia(b, i, x))
    PROVE  \E to, S : Target(to, S) /\ Fund(b, to, S, x)
<1>1. CASE \E a \in Author : FundDirect(b, a, x)
  <2>1. PICK a \in Author : FundDirect(b, a, x)
    BY <1>1
  <2>2. Target(a, {a}) /\ Fund(b, a, {a}, x)
    BY <2>1 DEF FundDirect, Target
  <2> QED  BY <2>2
<1>2. CASE \E i \in Indexes : FundVia(b, i, x)
  BY <1>2 DEF FundVia, Target
<1> QED  BY <1>1, <1>2

-----------------------------------------------------------------------------
(* Storage stays within its types *)

\* The records of authors.
LEMMA RolesStep ==
    ASSUME TypeOK, [Next]_vars
    PROVE  /\ DOMAIN AuthorsMap' \subseteq Author
           /\ \A a \in DOMAIN AuthorsMap' : AuthorsMap'[a] \in AuthorInfo
<1>0. /\ now \in Nat /\ now \in Int /\ Judged \subseteq Author
      /\ DOMAIN AuthorsMap \subseteq Author
      /\ \A a \in DOMAIN AuthorsMap : AuthorsMap[a] \in AuthorInfo
  BY AuthorsAssumption DEF TypeOK
<1>1. ASSUME NEW a \in Author, NEW info \in AuthorInfo, AuthorsMap' = Put(AuthorsMap, a, info)
      PROVE  /\ DOMAIN AuthorsMap' \subseteq Author
             /\ \A b \in DOMAIN AuthorsMap' : AuthorsMap'[b] \in AuthorInfo
  BY <1>0, <1>1 DEF Put
<1>2. ASSUME NEW a \in DOMAIN AuthorsMap, NEW info \in AuthorInfo,
             AuthorsMap' = [AuthorsMap EXCEPT ![a] = info]
      PROVE  /\ DOMAIN AuthorsMap' \subseteq Author
             /\ \A b \in DOMAIN AuthorsMap' : AuthorsMap'[b] \in AuthorInfo
  BY <1>0, <1>2
<1>3. CASE UNCHANGED AuthorsMap
  BY <1>0, <1>3
<1>4. ASSUME NEW a \in Author, NEW x \in Amounts, Enroll(a, x)
      PROVE  \E info \in AuthorInfo : AuthorsMap' = Put(AuthorsMap, a, info)
  <2>1. NewInfo \in AuthorInfo
    BY <1>0 DEF NewInfo, AuthorInfo, Statuses
  <2> QED  BY <1>4, <2>1 DEF Enroll
<1>5. ASSUME NEW a \in Judged, Confirm(a) \/ RevokePermanence(a) \/ Resign(a)
      PROVE  \E b \in DOMAIN AuthorsMap, info \in AuthorInfo : AuthorsMap' = [AuthorsMap EXCEPT ![b] = info]
  <2>1. a \in DOMAIN AuthorsMap
    BY <1>5 DEF Confirm, RevokePermanence, Resign, can_be_permanent, can_resign, is_status, role_exists
  <2>2. CASE Confirm(a)
    <3>1. [AuthorsMap[a] EXCEPT !.status = "Active"] \in AuthorInfo
      BY <1>0, <2>1 DEF AuthorInfo, Statuses
    <3>2. AuthorsMap' = [AuthorsMap EXCEPT ![a] = [AuthorsMap[a] EXCEPT !.status = "Active"]]
      BY <2>2 DEF Confirm
    <3> QED  BY <2>1, <3>1, <3>2
  <2>3. CASE RevokePermanence(a)
    <3>1. revoke_permanence(AuthorsMap[a]) \in AuthorInfo
      BY <1>0, <2>1 DEF revoke_permanence, AuthorInfo, Statuses
    <3> QED  BY <2>1, <2>3, <3>1 DEF RevokePermanence
  <2>4. CASE Resign(a)
    <3>1. [AuthorsMap[a] EXCEPT !.status = "Resigned"] \in AuthorInfo
      BY <1>0, <2>1 DEF AuthorInfo, Statuses
    <3>2. AuthorsMap' = [AuthorsMap EXCEPT ![a] = [AuthorsMap[a] EXCEPT !.status = "Resigned"]]
      BY <2>4 DEF Resign
    <3> QED  BY <2>1, <3>1, <3>2
  <2> QED  BY <1>5, <2>2, <2>3, <2>4
<1>6. ASSUME NEW a \in Judged,
             \/ \E p \in Factors : Penalize(a, p)
             \/ \E v \in Rewards : Reward(a, v)
             \/ \E n \in 1 .. MaxBlock : Forgive(a, n)
      PROVE  \E b \in DOMAIN AuthorsMap, info \in AuthorInfo : AuthorsMap' = [AuthorsMap EXCEPT ![b] = info]
  <2>1. a \in DOMAIN AuthorsMap
    BY <1>6 DEF Penalize, Reward, Forgive, enrolled, role_exists
  <2>2. secured(AuthorsMap[a]) \in AuthorInfo /\ penalized(AuthorsMap[a]) \in AuthorInfo
    BY <1>0, <2>1, StandingTyped
  <2>3. \/ AuthorsMap' = [AuthorsMap EXCEPT ![a] = secured(AuthorsMap[a])]
        \/ AuthorsMap' = [AuthorsMap EXCEPT ![a] = penalized(AuthorsMap[a])]
    BY <1>6 DEF Penalize, Reward, Forgive
  <2> QED  BY <2>1, <2>2, <2>3
<1>7. ASSUME \/ OnInitialize \/ \E c \in Configs : ForceGenesisConfig(c)
             \/ \E a \in Author, x \in Amounts : AddCollateral(a, x)
             \/ \E a \in Judged, n \in 1 .. MaxBlock : Reclaim(a, n)
             \/ \E i \in Indexes, S \in SUBSET Author : CreateIndex(i, S)
             \/ \E b \in Backers, x \in Amounts : \E to, S : Fund(b, to, S, x)
             \/ \E b \in Backers : Draw(b)
             \/ UNCHANGED vars
      PROVE  UNCHANGED AuthorsMap
  BY <1>7 DEF OnInitialize, ForceGenesisConfig, AddCollateral, Reclaim, CreateIndex, Fund, Draw, vars
<1> DEFINE Typed == /\ DOMAIN AuthorsMap' \subseteq Author
                    /\ \A b \in DOMAIN AuthorsMap' : AuthorsMap'[b] \in AuthorInfo
<1>8. \A a \in Author, x \in Amounts : Enroll(a, x) => Typed
  BY <1>1, <1>4
<1>9. \A a \in Judged : Confirm(a) \/ RevokePermanence(a) \/ Resign(a) => Typed
  BY <1>2, <1>5
<1>10. \A a \in Judged :
          \/ \E p \in Factors : Penalize(a, p)
          \/ \E v \in Rewards : Reward(a, v)
          \/ \E n \in 1 .. MaxBlock : Forgive(a, n)
          => Typed
  BY <1>2, <1>6
<1> HIDE DEF Typed
<1>11. Typed
  <2>1. ASSUME NEW a \in Judged,
               \/ Confirm(a) \/ RevokePermanence(a) \/ Resign(a)
               \/ \E p \in Factors : Penalize(a, p)
               \/ \E v \in Rewards : Reward(a, v)
               \/ \E n \in 1 .. MaxBlock : Forgive(a, n) \/ Reclaim(a, n)
        PROVE  Typed
    BY <1>3, <1>7, <1>9, <1>10, <2>1 DEF Typed
  <2>2. ASSUME NEW b \in Backers,
               \/ \E x \in Amounts :
                    \/ \E a \in Author : FundDirect(b, a, x)
                    \/ \E i \in Indexes : FundVia(b, i, x)
               \/ Draw(b)
        PROVE  Typed
    <3>1. CASE Draw(b)
      BY <1>3, <1>7, <3>1 DEF Typed
    <3>2. ASSUME NEW x \in Amounts,
                 (\E a \in Author : FundDirect(b, a, x)) \/ (\E i \in Indexes : FundVia(b, i, x))
          PROVE  Typed
      <4>1. \E to, S : Fund(b, to, S, x)
        BY <3>2, FundTarget
      <4>2. UNCHANGED AuthorsMap
        BY <1>7, <4>1
      <4> QED  BY <1>3, <4>2 DEF Typed
    <3> QED  BY <2>2, <3>1, <3>2
  <2> QED  BY <1>3, <1>7, <1>8, <2>1, <2>2 DEF Next, Typed
<1> QED  BY <1>11 DEF Typed

\* The parts of a funding call: every entry takes x.
LEMMA FundedTyped ==
    ASSUME NEW f, DOMAIN f \subseteq Author, \A a \in DOMAIN f : f[a] \in 0 .. MaxAsset,
           NEW S \in SUBSET Author, NEW x \in 0 .. MaxAsset,
           \A a \in S : TakesDeposit(f, a, Holders(a) # {}, x)
    PROVE  /\ DOMAIN FundedBy(f, S, x) = DOMAIN f \cup S
           /\ \A a \in DOMAIN f \cup S : FundedBy(f, S, x)[a] \in 0 .. MaxAsset
           /\ \A a \in DOMAIN f \ S : FundedBy(f, S, x)[a] = f[a]
<1>1. \A a \in S : Deposited(f, a, x)[a] \in 0 .. MaxAsset
  BY DepositedTyped
<1> QED  BY <1>1 DEF FundedBy

\* The values of the collateral digests.
LEMMA CollateralStep ==
    ASSUME TypeOK, PendingTyped, UnheldIsEmpty, [Next]_vars
    PROVE  /\ DOMAIN collateral' \subseteq Author
           /\ \A a \in DOMAIN collateral' : collateral'[a] \in 0 .. MaxAsset
<1> DEFINE Typed == /\ DOMAIN collateral' \subseteq Author
                    /\ \A a \in DOMAIN collateral' : collateral'[a] \in 0 .. MaxAsset
<1> SUFFICES Typed
  OBVIOUS
<1>0. /\ MaxAsset \in Nat /\ Judged \subseteq Author /\ Amounts \subseteq 1 .. MaxAsset
      /\ DOMAIN collateral \subseteq Author
      /\ \A a \in DOMAIN collateral : collateral[a] \in 0 .. MaxAsset
  BY AuthorsAssumption DEF TypeOK
<1>1. ASSUME NEW a \in Author, NEW x \in 0 .. MaxAsset, NEW held,
             TakesDeposit(collateral, a, held, x), collateral' = Deposited(collateral, a, x)
      PROVE  Typed
  <2>1. Deposited(collateral, a, x)[a] \in 0 .. MaxAsset
    BY <1>0, <1>1, DepositedTyped
  <2>2. /\ DOMAIN collateral' = DOMAIN collateral \cup {a}
        /\ \A y \in DOMAIN collateral : y # a => collateral'[y] = collateral[y]
    BY <1>1 DEF Deposited, Put
  <2> QED  BY <1>0, <1>1, <2>1, <2>2
<1>2. CASE UNCHANGED collateral
  BY <1>0, <1>2
<1>3. CASE OnInitialize
  <2>1. now' \in Nat /\ DOMAIN collateral' = DOMAIN collateral
    BY <1>3 DEF OnInitialize, TypeOK
  <2>2. ASSUME NEW a \in DOMAIN collateral  PROVE collateral'[a] \in 0 .. MaxAsset
    <3>1. CASE HasHold(a)
      <4>1. settled(a, now') \in Holds
        BY <1>0, <2>1, <3>1, SettledTyped
      <4>2. collateral'[a] = settled(a, now').c \/ collateral'[a] = collateral[a]
        BY <1>0, <1>3, <3>1, BlockDigests
      <4> QED  BY <1>0, <4>1, <4>2 DEF Holds
    <3>2. CASE ~ HasHold(a)
      BY <1>0, <1>3, <3>2, BlockDigests
    <3> QED  BY <3>1, <3>2
  <2> QED  BY <1>0, <2>1, <2>2
<1>4. ASSUME NEW a \in Author, NEW x \in Amounts, Enroll(a, x)
      PROVE  Typed
  <2>1. PICK actual \in {x, config.MinCollateral} :
             TakesDeposit(collateral, a, FALSE, actual) /\ collateral' = Deposited(collateral, a, actual)
    BY <1>4 DEF Enroll
  <2>2. actual \in 0 .. MaxAsset
    <3>1. config.MinCollateral \in Nat /\ x >= config.MinCollateral
      BY <1>4, ConfigTyped DEF Enroll, can_enroll, TypeOK
    <3> QED  BY <1>0, <3>1
  <2> QED  BY <1>1, <2>1, <2>2
<1>5. ASSUME NEW a \in Author, NEW x \in Amounts, AddCollateral(a, x)
      PROVE  Typed
  <2>1. x \in 0 .. MaxAsset
    BY <1>0
  <2> QED  BY <1>1, <1>5, <2>1 DEF AddCollateral
<1>6. ASSUME NEW a \in Judged, Resign(a)
      PROVE  Typed
  BY <1>0, <1>6 DEF Resign
<1>7. ASSUME \/ \E c \in Configs : ForceGenesisConfig(c)
             \/ \E a \in Judged : Confirm(a) \/ RevokePermanence(a)
             \/ \E a \in Judged, p \in Factors : Penalize(a, p)
             \/ \E a \in Judged, v \in Rewards : Reward(a, v)
             \/ \E a \in Judged, n \in 1 .. MaxBlock : Forgive(a, n) \/ Reclaim(a, n)
             \/ \E i \in Indexes, S \in SUBSET Author : CreateIndex(i, S)
             \/ \E b \in Backers, x \in Amounts : \E to, S : Fund(b, to, S, x)
             \/ \E b \in Backers : Draw(b)
             \/ UNCHANGED vars
      PROVE  UNCHANGED collateral
  BY <1>7 DEF ForceGenesisConfig, Confirm, RevokePermanence, Penalize, Reward, Forgive, Reclaim,
              CreateIndex, Fund, Draw, vars, digests
<1> HIDE DEF Typed
<1>8. ASSUME NEW b \in Backers,
             \/ \E x \in Amounts :
                  \/ \E a \in Author : FundDirect(b, a, x)
                  \/ \E i \in Indexes : FundVia(b, i, x)
             \/ Draw(b)
      PROVE  Typed
  <2>1. CASE Draw(b)
    BY <1>2, <1>7, <2>1
  <2>2. ASSUME NEW x \in Amounts,
               (\E a \in Author : FundDirect(b, a, x)) \/ (\E i \in Indexes : FundVia(b, i, x))
        PROVE  Typed
    <3>1. \E to, S : Fund(b, to, S, x)
      BY <2>2, FundTarget
    <3>2. UNCHANGED collateral
      BY <1>7, <3>1
    <3> QED  BY <1>2, <3>2
  <2> QED  BY <1>8, <2>1, <2>2
<1>9. ASSUME NEW a \in Judged,
             \/ Confirm(a) \/ RevokePermanence(a) \/ Resign(a)
             \/ \E p \in Factors : Penalize(a, p)
             \/ \E v \in Rewards : Reward(a, v)
             \/ \E n \in 1 .. MaxBlock : Forgive(a, n) \/ Reclaim(a, n)
      PROVE  Typed
  BY <1>2, <1>6, <1>7, <1>9
<1> QED  BY <1>2, <1>3, <1>4, <1>5, <1>7, <1>8, <1>9 DEF Next

\* The values of the funding digests.
LEMMA FundingStep ==
    ASSUME TypeOK, PendingTyped, UnheldIsEmpty, FundsTyped, [Next]_vars
    PROVE  /\ DOMAIN funding' \subseteq Author
           /\ \A a \in DOMAIN funding' : funding'[a] \in 0 .. MaxAsset
<1> DEFINE Typed == /\ DOMAIN funding' \subseteq Author
                    /\ \A a \in DOMAIN funding' : funding'[a] \in 0 .. MaxAsset
<1> SUFFICES Typed
  OBVIOUS
<1>0. /\ MaxAsset \in Nat /\ Amounts \subseteq 1 .. MaxAsset
      /\ DOMAIN funding \subseteq Author
      /\ \A a \in DOMAIN funding : funding[a] \in 0 .. MaxAsset
  BY AuthorsAssumption DEF TypeOK
<1>1. CASE UNCHANGED funding
  BY <1>0, <1>1
<1>2. CASE OnInitialize
  <2>1. now' \in Nat /\ DOMAIN funding' = DOMAIN funding
    BY <1>2 DEF OnInitialize, TypeOK
  <2>2. ASSUME NEW a \in DOMAIN funding  PROVE funding'[a] \in 0 .. MaxAsset
    <3>1. CASE HasHold(a)
      <4>1. settled(a, now') \in Holds
        BY <1>0, <2>1, <3>1, SettledTyped
      <4>2. funding'[a] = settled(a, now').f \/ funding'[a] = funding[a]
        BY <1>0, <1>2, <3>1, BlockDigests
      <4> QED  BY <1>0, <4>1, <4>2 DEF Holds
    <3>2. CASE ~ HasHold(a)
      BY <1>0, <1>2, <3>2, BlockDigests
    <3> QED  BY <3>1, <3>2
  <2> QED  BY <1>0, <2>1, <2>2
<1>3. ASSUME NEW b \in Backers, NEW x \in Amounts, NEW to, NEW S,
             Target(to, S), Fund(b, to, S, x)
      PROVE  Typed
  <2>1. S \in SUBSET Author
    BY <1>3 DEF Target, FundsTyped
  <2>2. x \in 0 .. MaxAsset
    BY <1>0
  <2>3. funding' = FundedBy(funding, S, x) /\ \A a \in S : TakesDeposit(funding, a, Holders(a) # {}, x)
    BY <1>3 DEF Fund
  <2>4. /\ DOMAIN funding' = DOMAIN funding \cup S
        /\ \A a \in DOMAIN funding \cup S : funding'[a] \in 0 .. MaxAsset
    BY <1>0, <2>1, <2>2, <2>3, FundedTyped
  <2> QED  BY <1>0, <2>1, <2>4
<1>4. ASSUME NEW b \in Backers, Draw(b)
      PROVE  Typed
  <2>1. PICK w \in Payouts(backing[b].in, {b}) : funding' = WithoutPaid(w)
    BY <1>4 DEF Draw
  <2>2. \A a \in DOMAIN w : w[a] \in 0 .. MaxAsset /\ w[a] <= funding[a]
    BY DEF Payouts
  <2> QED  BY <1>0, <2>1, <2>2 DEF WithoutPaid
<1>5. ASSUME \/ \E c \in Configs : ForceGenesisConfig(c)
             \/ \E a \in Author, x \in Amounts : Enroll(a, x) \/ AddCollateral(a, x)
             \/ \E a \in Judged :
                  \/ Confirm(a) \/ RevokePermanence(a) \/ Resign(a)
                  \/ \E p \in Factors : Penalize(a, p)
                  \/ \E v \in Rewards : Reward(a, v)
                  \/ \E n \in 1 .. MaxBlock : Forgive(a, n) \/ Reclaim(a, n)
             \/ \E i \in Indexes, S \in SUBSET Author : CreateIndex(i, S)
             \/ UNCHANGED vars
      PROVE  UNCHANGED funding
  BY <1>5 DEF ForceGenesisConfig, Enroll, AddCollateral, Confirm, RevokePermanence, Resign, Penalize,
              Reward, Forgive, Reclaim, CreateIndex, vars, digests
<1> HIDE DEF Typed
<1>6. ASSUME NEW b \in Backers, NEW x \in Amounts,
             (\E a \in Author : FundDirect(b, a, x)) \/ (\E i \in Indexes : FundVia(b, i, x))
      PROVE  Typed
  BY <1>3, <1>6, FundTarget
<1> QED  BY <1>1, <1>2, <1>4, <1>5, <1>6 DEF Next

\* TypeOK is kept.
LEMMA TypeStep ==
    ASSUME TypeOK, PendingTyped, UnheldIsEmpty, FundsTyped, [Next]_vars
    PROVE  TypeOK'
<1>1. now' \in 0 .. MaxBlock
  <2>0. MaxBlock \in Nat /\ now \in 0 .. MaxBlock
    BY AuthorsAssumption DEF TypeOK
  <2>1. now' = now \/ (now' = now + 1 /\ now + 1 <= MaxBlock)
    BY DEF Next, OnInitialize, ForceGenesisConfig, Enroll, AddCollateral, Confirm, RevokePermanence,
           Resign, Penalize, Reward, Forgive, Reclaim, CreateIndex, Fund, FundDirect, FundVia, Draw, vars
  <2> QED  BY <2>0, <2>1
<1>2. config' \in Configs
  <2>1. config' = config \/ config' \in Configs
    BY DEF Next, OnInitialize, ForceGenesisConfig, Enroll, AddCollateral, Confirm, RevokePermanence,
           Resign, Penalize, Reward, Forgive, Reclaim, CreateIndex, Fund, FundDirect, FundVia, Draw, vars
  <2> QED  BY <2>1 DEF TypeOK
<1>3. RewardsUntil' \in Nat /\ PenaltiesUntil' \in Nat
  <2>0. /\ now \in Nat /\ RewardsUntil \in Nat /\ PenaltiesUntil \in Nat
        /\ config.RewardsBuffer \in Nat /\ config.PenaltiesBuffer \in Nat
    BY AuthorsAssumption, ConfigTyped DEF TypeOK
  <2>1. /\ \A n \in now + config.RewardsBuffer .. MaxBlock : Later(RewardsUntil, n) \in Nat
        /\ \A n \in now + config.PenaltiesBuffer .. MaxBlock : Later(PenaltiesUntil, n) \in Nat
    BY <2>0 DEF Later
  <2>2. \/ UNCHANGED <<RewardsUntil, PenaltiesUntil>>
        \/ \E a \in Judged, v \in Rewards : Reward(a, v)
        \/ \E a \in Judged, p \in Factors : Penalize(a, p)
    BY DEF Next, OnInitialize, ForceGenesisConfig, Enroll, AddCollateral, Confirm, RevokePermanence,
           Resign, Forgive, Reclaim, CreateIndex, Fund, FundDirect, FundVia, Draw, vars, obligations
  <2> QED  BY <2>0, <2>1, <2>2 DEF Reward, Penalize
<1> QED  BY <1>1, <1>2, <1>3, RolesStep, CollateralStep, FundingStep DEF TypeOK

-----------------------------------------------------------------------------
(* Obligations *)

\* What calls do to the schedule: nothing, one more obligation of an enrolled
\* author, or one less; a block removes those that are due.
LEMMA PendingCases ==
    ASSUME [Next]_vars
    PROVE  \/ OnInitialize
           \/ \E a \in Judged, v \in Rewards : Reward(a, v)
           \/ \E a \in Judged, p \in Factors : Penalize(a, p)
           \/ \E a \in Judged, n \in 1 .. MaxBlock : Forgive(a, n)
           \/ \E a \in Judged, n \in 1 .. MaxBlock : Reclaim(a, n)
           \/ UNCHANGED <<now, AuthorRewards, AuthorPenalties, RewardsUntil, PenaltiesUntil>>
  BY DEF Next, ForceGenesisConfig, Enroll, AddCollateral, Confirm, RevokePermanence,
         Resign, CreateIndex, Fund, FundDirect, FundVia, Draw, vars, obligations

\* PendingTyped and PendingVisible are kept.
LEMMA PendingStep ==
    ASSUME TypeOK, PendingTyped, PendingVisible, [Next]_vars
    PROVE  PendingTyped' /\ PendingVisible'
<1>0. /\ now \in Nat /\ RewardsUntil \in Nat /\ PenaltiesUntil \in Nat /\ Judged \subseteq Author
      /\ Rewards \subseteq Nat /\ Factors \subseteq 1 .. Perbill
      /\ config.RewardsBuffer \in Nat \ {0} /\ config.PenaltiesBuffer \in Nat \ {0}
  BY AuthorsAssumption, ConfigTyped DEF TypeOK
<1>1. ASSUME NEW a \in Judged, NEW v \in Rewards, Reward(a, v)
      PROVE  PendingTyped' /\ PendingVisible'
  <2>1. PICK n \in now + config.RewardsBuffer .. MaxBlock :
             AuthorRewards' = Put(AuthorRewards, <<n, a>>, v) /\ RewardsUntil' = Later(RewardsUntil, n)
    BY <1>1 DEF Reward
  <2>2. n \in Nat /\ n > now
    BY <1>0
  <2>3. /\ DOMAIN AuthorRewards' = DOMAIN AuthorRewards \cup {<<n, a>>}
        /\ \A y \in DOMAIN AuthorRewards' : y[1] > now /\ y[1] <= RewardsUntil'
        /\ \A y \in DOMAIN AuthorRewards' :
              AuthorRewards'[y] = (IF y = <<n, a>> THEN v ELSE AuthorRewards[y])
    <3>1. /\ DOMAIN AuthorRewards' = DOMAIN AuthorRewards \cup {<<n, a>>}
          /\ \A y \in DOMAIN AuthorRewards' :
                AuthorRewards'[y] = (IF y = <<n, a>> THEN v ELSE AuthorRewards[y])
      BY <2>1 DEF Put
    <3>2. \A y \in DOMAIN AuthorRewards : y[1] \in Nat /\ y[1] > now /\ y[1] <= RewardsUntil
      BY DEF PendingTyped, PendingVisible
    <3>3. RewardsUntil' \in Nat /\ RewardsUntil' >= RewardsUntil /\ RewardsUntil' >= n
      BY <1>0, <2>1, <2>2 DEF Later
    <3>4. \A y \in DOMAIN AuthorRewards' : y[1] > now /\ y[1] <= RewardsUntil'
      BY <1>0, <2>2, <3>1, <3>2, <3>3
    <3> QED  BY <3>1, <3>4
  <2>4. now' = now /\ AuthorPenalties' = AuthorPenalties /\ PenaltiesUntil' = PenaltiesUntil
    BY <1>1 DEF Reward
  <2>5. PendingTyped'
    BY <1>0, <2>2, <2>3, <2>4 DEF PendingTyped
  <2>6. PendingVisible'
    BY <2>3, <2>4 DEF PendingVisible
  <2> QED  BY <2>5, <2>6
<1>2. ASSUME NEW a \in Judged, NEW p \in Factors, Penalize(a, p)
      PROVE  PendingTyped' /\ PendingVisible'
  <2>1. PICK n \in now + config.PenaltiesBuffer .. MaxBlock :
             AuthorPenalties' = Put(AuthorPenalties, <<n, a>>, p) /\ PenaltiesUntil' = Later(PenaltiesUntil, n)
    BY <1>2 DEF Penalize
  <2>2. n \in Nat /\ n > now
    BY <1>0
  <2>3. /\ DOMAIN AuthorPenalties' = DOMAIN AuthorPenalties \cup {<<n, a>>}
        /\ \A y \in DOMAIN AuthorPenalties' : y[1] > now /\ y[1] <= PenaltiesUntil'
        /\ \A y \in DOMAIN AuthorPenalties' :
              AuthorPenalties'[y] = (IF y = <<n, a>> THEN p ELSE AuthorPenalties[y])
    <3>1. /\ DOMAIN AuthorPenalties' = DOMAIN AuthorPenalties \cup {<<n, a>>}
          /\ \A y \in DOMAIN AuthorPenalties' :
                AuthorPenalties'[y] = (IF y = <<n, a>> THEN p ELSE AuthorPenalties[y])
      BY <2>1 DEF Put
    <3>2. \A y \in DOMAIN AuthorPenalties : y[1] \in Nat /\ y[1] > now /\ y[1] <= PenaltiesUntil
      BY DEF PendingTyped, PendingVisible
    <3>3. PenaltiesUntil' \in Nat /\ PenaltiesUntil' >= PenaltiesUntil /\ PenaltiesUntil' >= n
      BY <1>0, <2>1, <2>2 DEF Later
    <3>4. \A y \in DOMAIN AuthorPenalties' : y[1] > now /\ y[1] <= PenaltiesUntil'
      BY <1>0, <2>2, <3>1, <3>2, <3>3
    <3> QED  BY <3>1, <3>4
  <2>4. now' = now /\ AuthorRewards' = AuthorRewards /\ RewardsUntil' = RewardsUntil
    BY <1>2 DEF Penalize
  <2>5. PendingTyped'
    BY <1>0, <2>2, <2>3, <2>4 DEF PendingTyped
  <2>6. PendingVisible'
    BY <2>3, <2>4 DEF PendingVisible
  <2> QED  BY <2>5, <2>6
<1>3. ASSUME NEW a \in Judged, NEW n \in 1 .. MaxBlock, Forgive(a, n) \/ Reclaim(a, n)
      PROVE  PendingTyped' /\ PendingVisible'
  <2>1. /\ now' = now /\ RewardsUntil' = RewardsUntil /\ PenaltiesUntil' = PenaltiesUntil
        /\ AuthorRewards' \in {AuthorRewards, Remove(AuthorRewards, {<<n, a>>})}
        /\ AuthorPenalties' \in {AuthorPenalties, Remove(AuthorPenalties, {<<n, a>>})}
    BY <1>3 DEF Forgive, Reclaim
  <2>2. /\ DOMAIN AuthorRewards' \subseteq DOMAIN AuthorRewards
        /\ \A y \in DOMAIN AuthorRewards' : AuthorRewards'[y] = AuthorRewards[y]
        /\ DOMAIN AuthorPenalties' \subseteq DOMAIN AuthorPenalties
        /\ \A y \in DOMAIN AuthorPenalties' : AuthorPenalties'[y] = AuthorPenalties[y]
    BY <2>1 DEF Remove, Restrict
  <2>3. PendingTyped'
    BY <2>2 DEF PendingTyped
  <2>4. PendingVisible'
    BY <2>1, <2>2 DEF PendingVisible
  <2> QED  BY <2>3, <2>4
<1>4. CASE OnInitialize
  <2> DEFINE due == {y \in DOMAIN AuthorRewards \cup DOMAIN AuthorPenalties : y[1] = now + 1}
  <2>1. /\ now' = now + 1 /\ RewardsUntil' = RewardsUntil /\ PenaltiesUntil' = PenaltiesUntil
        /\ AuthorRewards' = Remove(AuthorRewards, due)
        /\ AuthorPenalties' = Remove(AuthorPenalties, due)
    BY <1>4 DEF OnInitialize
  <2>2. /\ DOMAIN AuthorRewards' = DOMAIN AuthorRewards \ due
        /\ \A y \in DOMAIN AuthorRewards' : AuthorRewards'[y] = AuthorRewards[y]
        /\ DOMAIN AuthorPenalties' = DOMAIN AuthorPenalties \ due
        /\ \A y \in DOMAIN AuthorPenalties' : AuthorPenalties'[y] = AuthorPenalties[y]
    BY <2>1 DEF Remove, Restrict
  <2>3. PendingTyped'
    BY <2>2 DEF PendingTyped
  <2>4. \A y \in DOMAIN AuthorRewards' \cup DOMAIN AuthorPenalties' :
            y[1] \in Nat /\ y[1] > now /\ y[1] # now + 1
    BY <2>2 DEF PendingTyped, PendingVisible
  <2>5. PendingVisible'
    <3>1. \A y \in DOMAIN AuthorRewards' \cup DOMAIN AuthorPenalties' : y[1] > now'
      BY <1>0, <2>1, <2>4
    <3> QED  BY <2>1, <2>2, <3>1 DEF PendingVisible
  <2> QED  BY <2>3, <2>5
<1>5. CASE UNCHANGED <<now, AuthorRewards, AuthorPenalties, RewardsUntil, PenaltiesUntil>>
  BY <1>5 DEF PendingTyped, PendingVisible
<1> QED  BY <1>1, <1>2, <1>3, <1>4, <1>5, PendingCases

\* Only a resignation ends the enrolment of an author.
LEMMA StaysEnrolled ==
    ASSUME TypeOK, [Next]_vars, NEW a, enrolled(a), ~ (a \in Judged /\ Resign(a))
    PROVE  enrolled(a)'
<1> DEFINE st == AuthorsMap[a].status
<1>0. a \in DOMAIN AuthorsMap /\ st # "Resigned"
  BY DEF enrolled, role_exists
<1>1. CASE UNCHANGED AuthorsMap
  BY <1>1 DEF enrolled, role_exists
<1>2. ASSUME NEW b \in Author, NEW x \in Amounts, Enroll(b, x)
      PROVE  enrolled(a)'
  <2>1. AuthorsMap' = Put(AuthorsMap, b, NewInfo) /\ NewInfo.status # "Resigned"
    BY <1>2 DEF Enroll, NewInfo
  <2> QED  BY <1>0, <2>1 DEF enrolled, role_exists, Put
<1>3. ASSUME NEW b \in DOMAIN AuthorsMap, NEW info, AuthorsMap' = [AuthorsMap EXCEPT ![b] = info],
             a = b => info.status # "Resigned"
      PROVE  enrolled(a)'
  BY <1>0, <1>3 DEF enrolled, role_exists
<1>4. ASSUME NEW b \in Judged, Confirm(b) \/ RevokePermanence(b) \/ Resign(b)
      PROVE  enrolled(a)'
  <2>1. b \in DOMAIN AuthorsMap /\ AuthorsMap[b] \in AuthorInfo
    BY <1>4 DEF TypeOK, Confirm, RevokePermanence, Resign, can_be_permanent, can_resign, is_status, role_exists
  <2>2. CASE Confirm(b)
    <3>1. AuthorsMap' = [AuthorsMap EXCEPT ![b] = [AuthorsMap[b] EXCEPT !.status = "Active"]]
      BY <2>2 DEF Confirm
    <3> QED  BY <1>3, <2>1, <3>1 DEF AuthorInfo
  <2>3. CASE RevokePermanence(b)
    <3>1. revoke_permanence(AuthorsMap[b]).status = "Probation"
      BY <2>1 DEF revoke_permanence, AuthorInfo
    <3> QED  BY <1>3, <2>1, <2>3, <3>1 DEF RevokePermanence
  <2>4. CASE Resign(b)
    <3>1. AuthorsMap' = [AuthorsMap EXCEPT ![b] = [AuthorsMap[b] EXCEPT !.status = "Resigned"]]
      BY <2>4 DEF Resign
    <3>2. a # b
      BY <2>4
    <3> QED  BY <1>3, <2>1, <3>1, <3>2
  <2> QED  BY <1>4, <2>2, <2>3, <2>4
<1>5. ASSUME NEW b \in Judged,
             \/ \E p \in Factors : Penalize(b, p)
             \/ \E v \in Rewards : Reward(b, v)
             \/ \E n \in 1 .. MaxBlock : Forgive(b, n)
      PROVE  enrolled(a)'
  <2>1. b \in DOMAIN AuthorsMap /\ AuthorsMap[b] \in AuthorInfo /\ AuthorsMap[b].status # "Resigned"
    BY <1>5 DEF TypeOK, Penalize, Reward, Forgive, enrolled, role_exists
  <2>2. \/ AuthorsMap' = [AuthorsMap EXCEPT ![b] = secured(AuthorsMap[b])]
        \/ AuthorsMap' = [AuthorsMap EXCEPT ![b] = penalized(AuthorsMap[b])]
    BY <1>5 DEF Penalize, Reward, Forgive
  <2> QED  BY <1>3, <2>1, <2>2, StandingKeepsRole
<1>6. ASSUME \/ OnInitialize \/ \E c \in Configs : ForceGenesisConfig(c)
             \/ \E b \in Author, x \in Amounts : AddCollateral(b, x)
             \/ \E b \in Judged, n \in 1 .. MaxBlock : Reclaim(b, n)
             \/ \E i \in Indexes, S \in SUBSET Author : CreateIndex(i, S)
             \/ \E b \in Backers : \/ \E x \in Amounts :
                                        \/ \E c \in Author : FundDirect(b, c, x)
                                        \/ \E i \in Indexes : FundVia(b, i, x)
                                   \/ Draw(b)
             \/ UNCHANGED vars
      PROVE  UNCHANGED AuthorsMap
  BY <1>6 DEF OnInitialize, ForceGenesisConfig, AddCollateral, Reclaim, CreateIndex, Fund, FundDirect,
              FundVia, Draw, vars
<1> QED  BY <1>1, <1>2, <1>4, <1>5, <1>6 DEF Next

\* NoEscape is kept.
LEMMA EscapeStep ==
    ASSUME TypeOK, PendingTyped, PendingVisible, NoEscape, [Next]_vars
    PROVE  NoEscape'
<1>0. now \in Nat /\ PenaltiesUntil \in Nat
  BY AuthorsAssumption DEF TypeOK
<1>1. \A y \in DOMAIN AuthorPenalties' :
          y \in DOMAIN AuthorPenalties \/ \E a \in Judged, p \in Factors, n \in Nat : Penalize(a, p) /\ y = <<n, a>>
  <2>1. CASE \E a \in Judged, p \in Factors : Penalize(a, p)
    <3>1. PICK a \in Judged, p \in Factors : Penalize(a, p)
      BY <2>1
    <3>2. PICK n \in now + config.PenaltiesBuffer .. MaxBlock : AuthorPenalties' = Put(AuthorPenalties, <<n, a>>, p)
      BY <3>1 DEF Penalize
    <3>3. DOMAIN AuthorPenalties' = DOMAIN AuthorPenalties \cup {<<n, a>>} /\ n \in Nat
      BY <1>0, <3>2, ConfigTyped DEF Put, TypeOK
    <3> QED  BY <3>1, <3>3
  <2>2. CASE ~ \E a \in Judged, p \in Factors : Penalize(a, p)
    <3>1. \/ AuthorPenalties' = AuthorPenalties
          \/ \E S : AuthorPenalties' = Remove(AuthorPenalties, S)
      BY <2>2, PendingCases DEF OnInitialize, Reward, Forgive, Reclaim
    <3> QED  BY <3>1 DEF Remove, Restrict
  <2> QED  BY <2>1, <2>2
<1>2. ASSUME NEW y \in DOMAIN AuthorPenalties  PROVE enrolled(y[2])'
  <2>1. enrolled(y[2])
    BY DEF NoEscape
  <2>2. ASSUME Resign(y[2])  PROVE FALSE
    <3>1. y = <<y[1], y[2]>> /\ y[1] \in now + 1 .. PenaltiesUntil
      BY <1>0 DEF PendingTyped, PendingVisible
    <3>2. has_penalty(y[2])
      BY <3>1 DEF has_penalty, has_pending
    <3> QED  BY <2>2, <3>2 DEF Resign, can_resign
  <2> QED  BY <2>1, <2>2, StaysEnrolled
<1>3. ASSUME NEW a \in Judged, NEW p \in Factors, Penalize(a, p)  PROVE enrolled(a)'
  <2>1. enrolled(a)
    BY <1>3 DEF Penalize
  <2>2. ~ Resign(a)
    <3>1. PICK n \in now + config.PenaltiesBuffer .. MaxBlock :
               /\ <<n, a>> \notin DOMAIN AuthorPenalties
               /\ AuthorPenalties' = Put(AuthorPenalties, <<n, a>>, p)
      BY <1>3 DEF Penalize, next_free
    <3>2. <<n, a>> \in DOMAIN AuthorPenalties'
      BY <3>1 DEF Put
    <3> QED  BY <3>1, <3>2 DEF Resign, obligations
  <2> QED  BY <2>1, <2>2, StaysEnrolled
<1> QED  BY <1>1, <1>2, <1>3 DEF NoEscape

-----------------------------------------------------------------------------
(* Funding *)

\* What calls do to the funding of authors.
LEMMA FundsCases ==
    ASSUME [Next]_vars
    PROVE  \/ \E b \in Backers, x \in Amounts : \E to, S : Target(to, S) /\ Fund(b, to, S, x)
           \/ \E b \in Backers : Draw(b)
           \/ \E i \in Indexes, S \in SUBSET Author : CreateIndex(i, S)
           \/ UNCHANGED funds
<1> DEFINE Funded == \E b \in Backers, x \in Amounts : \E to, S : Target(to, S) /\ Fund(b, to, S, x)
<1>1. ASSUME NEW b \in Backers, NEW x \in Amounts,
             (\E a \in Author : FundDirect(b, a, x)) \/ (\E i \in Indexes : FundVia(b, i, x))
      PROVE  Funded
  <2>1. \E to, S : Target(to, S) /\ Fund(b, to, S, x)
    BY <1>1, FundTarget
  <2> QED  BY <2>1
<1> HIDE DEF Funded
<1>2. Funded \/ (\E b \in Backers : Draw(b)) \/ (\E i \in Indexes, S \in SUBSET Author : CreateIndex(i, S))
      \/ UNCHANGED funds
  BY <1>1 DEF Next, OnInitialize, ForceGenesisConfig, Enroll, AddCollateral, Confirm, RevokePermanence,
              Resign, Penalize, Reward, Forgive, Reclaim, vars, funds
<1> QED  BY <1>2 DEF Funded

\* A backer who commits more is in the digests it is in already: the entries of
\* an index never change, and no index has the name of an author.
LEMMA SameEntries ==
    ASSUME FundsTyped, NEW to, NEW S, Target(to, S), NEW b \in DOMAIN backing, backing[b].to = to
    PROVE  backing[b].in = S
  BY AuthorsAssumption DEF FundsTyped, BackingFollows, Target

\* FundsTyped and FundersListed are kept.
LEMMA FundsStep ==
    ASSUME FundsTyped, FundersListed, [Next]_vars
    PROVE  FundsTyped' /\ FundersListed'
<1>1. ASSUME NEW b \in Backers, NEW x \in Amounts, NEW to, NEW S, Target(to, S), Fund(b, to, S, x)
      PROVE  FundsTyped' /\ FundersListed'
  <2>1. S \in SUBSET Author
    BY <1>1 DEF Target, FundsTyped
  <2>2. b \in DOMAIN backing => backing[b].to = to /\ backing[b].in = S
    BY <1>1, SameEntries DEF Fund, can_fund
  <2>3. /\ entriesOf' = entriesOf
        /\ DOMAIN backing' = DOMAIN backing \cup {b}
        /\ backing'[b] = [to |-> to, in |-> S]
        /\ \A c \in DOMAIN backing : c # b => backing'[c] = backing[c]
    BY <1>1 DEF Fund, Put
  <2>4. /\ DOMAIN AuthorFunders' = DOMAIN AuthorFunders \cup (S \X {b})
        /\ \A y \in DOMAIN AuthorFunders' :
              AuthorFunders'[y] = (IF y \in S \X {b} THEN to ELSE AuthorFunders[y])
    BY <1>1 DEF Fund
  <2>5. BackingFollows'
    <3>1. ASSUME NEW c \in DOMAIN backing'
          PROVE  \/ backing'[c].to \in Author /\ backing'[c].in = {backing'[c].to}
                 \/ backing'[c].to \in DOMAIN entriesOf' /\ backing'[c].in = entriesOf'[backing'[c].to]
      <4>1. CASE c = b
        BY <1>1, <2>3, <4>1 DEF Target
      <4>2. CASE c # b
        BY <2>3, <4>2 DEF FundsTyped, BackingFollows
      <4> QED  BY <4>1, <4>2
    <3> QED  BY <3>1 DEF BackingFollows
  <2>6. FundsTyped'
    BY <2>1, <2>3, <2>4, <2>5 DEF FundsTyped
  <2>7. ASSUME NEW y \in DOMAIN AuthorFunders'
        PROVE  /\ y[2] \in DOMAIN backing'
               /\ backing'[y[2]].to = AuthorFunders'[y]
               /\ y[1] \in backing'[y[2]].in
    <3>1. CASE y \in S \X {b}
      BY <2>3, <2>4, <3>1
    <3>2. CASE y \notin S \X {b}
      <4>1. /\ y \in DOMAIN AuthorFunders /\ AuthorFunders'[y] = AuthorFunders[y]
            /\ y[2] \in DOMAIN backing /\ backing[y[2]].to = AuthorFunders[y] /\ y[1] \in backing[y[2]].in
        BY <2>4, <3>2 DEF FundersListed
      <4> QED  BY <2>2, <2>3, <4>1
    <3> QED  BY <3>1, <3>2
  <2>8. ASSUME NEW c \in DOMAIN backing', NEW a \in Author, a \in backing'[c].in
        PROVE  <<a, c>> \in DOMAIN AuthorFunders'
    <3>1. CASE c = b
      BY <2>3, <2>4, <2>8, <3>1
    <3>2. CASE c # b
      BY <2>3, <2>4, <2>8, <3>2 DEF FundersListed
    <3> QED  BY <3>1, <3>2
  <2>9. FundersListed'
    BY <2>7, <2>8 DEF FundersListed
  <2> QED  BY <2>6, <2>9
<1>2. ASSUME NEW b \in Backers, Draw(b)
      PROVE  FundsTyped' /\ FundersListed'
  <2>1. /\ entriesOf' = entriesOf
        /\ DOMAIN backing' = DOMAIN backing \ {b}
        /\ \A c \in DOMAIN backing' : backing'[c] = backing[c]
    BY <1>2 DEF Draw, Remove, Restrict
  <2>2. /\ DOMAIN AuthorFunders' = DOMAIN AuthorFunders \ (backing[b].in \X {b})
        /\ \A y \in DOMAIN AuthorFunders' : AuthorFunders'[y] = AuthorFunders[y]
    BY <1>2 DEF Draw, Remove, Restrict
  <2>3. BackingFollows'
    BY <2>1 DEF FundsTyped, BackingFollows
  <2>4. FundsTyped'
    BY <2>1, <2>2, <2>3 DEF FundsTyped
  <2>5. ASSUME NEW y \in DOMAIN AuthorFunders'
        PROVE  /\ y[2] \in DOMAIN backing'
               /\ backing'[y[2]].to = AuthorFunders'[y]
               /\ y[1] \in backing'[y[2]].in
    <3>1. /\ y \in DOMAIN AuthorFunders /\ AuthorFunders'[y] = AuthorFunders[y]
          /\ y[2] \in DOMAIN backing /\ backing[y[2]].to = AuthorFunders[y] /\ y[1] \in backing[y[2]].in
          /\ y = <<y[1], y[2]>>
      BY <2>2 DEF FundersListed, FundsTyped
    <3>2. y[2] # b
      BY <2>2, <3>1
    <3> QED  BY <2>1, <3>1, <3>2
  <2>6. \A c \in DOMAIN backing', a \in Author : a \in backing'[c].in => <<a, c>> \in DOMAIN AuthorFunders'
    BY <2>1, <2>2 DEF FundersListed
  <2>7. FundersListed'
    BY <2>5, <2>6 DEF FundersListed
  <2> QED  BY <2>4, <2>7
<1>3. ASSUME NEW i \in Indexes, NEW S \in SUBSET Author, CreateIndex(i, S)
      PROVE  FundsTyped' /\ FundersListed'
  <2>1. /\ backing' = backing /\ AuthorFunders' = AuthorFunders
        /\ DOMAIN entriesOf' = DOMAIN entriesOf \cup {i}
        /\ entriesOf'[i] = S /\ i \notin DOMAIN entriesOf
        /\ \A j \in DOMAIN entriesOf : entriesOf'[j] = entriesOf[j]
    BY <1>3 DEF CreateIndex, Put
  <2>2. BackingFollows'
    BY <2>1 DEF FundsTyped, BackingFollows
  <2>3. FundsTyped'
    BY <2>1, <2>2 DEF FundsTyped
  <2>4. FundersListed'
    BY <2>1 DEF FundersListed
  <2> QED  BY <2>3, <2>4
<1>4. CASE UNCHANGED funds
  BY <1>4 DEF funds, FundsTyped, BackingFollows, FundersListed
<1> QED  BY <1>1, <1>2, <1>3, <1>4, FundsCases

-----------------------------------------------------------------------------
(* Digests without shares *)

\* The funding of an author whom nobody backs is nothing.
LEMMA UnbackedStep ==
    ASSUME TypeOK, PendingTyped, UnheldIsEmpty, FundsTyped, [Next]_vars
    PROVE  \A a \in DOMAIN funding' : Holders(a)' = {} => funding'[a] = 0
<1>0. /\ MaxAsset \in Nat /\ DOMAIN funding \subseteq Author
      /\ \A a \in DOMAIN funding : funding[a] \in Nat
      /\ \A a \in DOMAIN funding : Holders(a) = {} => funding[a] = 0
  BY AuthorsAssumption DEF TypeOK, UnheldIsEmpty
<1>1. CASE UNCHANGED <<funding, backing>>
  BY <1>0, <1>1 DEF Holders
<1>2. CASE OnInitialize
  <2>1. now' \in Nat /\ DOMAIN funding' = DOMAIN funding
    BY <1>2 DEF OnInitialize, TypeOK
  <2>2. \A a : Holders(a)' = Holders(a)
    BY <1>2 DEF OnInitialize, funds, Holders
  <2>3. ASSUME NEW a \in DOMAIN funding, Holders(a) = {}  PROVE funding'[a] = 0
    <3>1. CASE HasHold(a)
      <4>1. settled(a, now').f = 0
        BY <1>0, <2>1, <2>3, <3>1, SettledTyped DEF HeldBy
      <4> QED  BY <1>0, <1>2, <2>3, <3>1, <4>1, BlockDigests
    <3>2. CASE ~ HasHold(a)
      BY <1>0, <1>2, <2>3, <3>2, BlockDigests
    <3> QED  BY <3>1, <3>2
  <2> QED  BY <2>1, <2>2, <2>3
<1>3. ASSUME NEW b \in Backers, NEW x \in Amounts, NEW to, NEW S, Target(to, S), Fund(b, to, S, x)
      PROVE  \A a \in DOMAIN funding' : Holders(a)' = {} => funding'[a] = 0
  <2>1. b \in DOMAIN backing => backing[b].in = S
    BY <1>3, SameEntries DEF Fund, can_fund
  <2>2. /\ DOMAIN backing' = DOMAIN backing \cup {b}
        /\ backing'[b].in = S
        /\ \A c \in DOMAIN backing : c # b => backing'[c] = backing[c]
    BY <1>3 DEF Fund, Put
  <2>3. \A a : Holders(a) \subseteq Holders(a)'
    BY <2>1, <2>2 DEF Holders
  <2>4. \A a \in S : b \in Holders(a)'
    BY <2>2 DEF Holders
  <2>5. \A a \in DOMAIN funding' \ S : a \in DOMAIN funding /\ funding'[a] = funding[a]
    BY <1>3 DEF Fund, FundedBy
  <2> QED  BY <1>0, <2>3, <2>4, <2>5
<1>4. ASSUME NEW b \in Backers, Draw(b)
      PROVE  \A a \in DOMAIN funding' : Holders(a)' = {} => funding'[a] = 0
  <2>1. PICK w \in Payouts(backing[b].in, {b}) : funding' = WithoutPaid(w)
    BY <1>4 DEF Draw
  <2>2. \A a : Holders(a) \subseteq Holders(a)' \cup {b}
    BY <1>4 DEF Draw, Remove, Restrict, Holders
  <2>3. /\ DOMAIN w = backing[b].in /\ DOMAIN funding' = DOMAIN funding
        /\ \A a \in DOMAIN w : Holders(a) \subseteq {b} => w[a] = funding[a]
        /\ \A a \in DOMAIN funding : funding'[a] = (IF a \in DOMAIN w THEN funding[a] - w[a] ELSE funding[a])
    BY <2>1 DEF Payouts, WithoutPaid
  <2>4. ASSUME NEW a \in DOMAIN funding, Holders(a)' = {}  PROVE funding'[a] = 0
    <3>1. CASE a \in DOMAIN w
      BY <1>0, <2>2, <2>3, <2>4, <3>1
    <3>2. CASE a \notin DOMAIN w
      <4>1. b \notin Holders(a)
        BY <2>3, <3>2 DEF Holders
      <4> QED  BY <1>0, <2>2, <2>3, <2>4, <3>2, <4>1
    <3> QED  BY <3>1, <3>2
  <2> QED  BY <2>3, <2>4
<1> DEFINE Empty == \A a \in DOMAIN funding' : Holders(a)' = {} => funding'[a] = 0
<1> HIDE DEF Empty
<1>5. ASSUME NEW b \in Backers, NEW x \in Amounts,
             (\E a \in Author : FundDirect(b, a, x)) \/ (\E i \in Indexes : FundVia(b, i, x))
      PROVE  Empty
  BY <1>3, <1>5, FundTarget DEF Empty
<1>6. Empty
  <2>1. \/ OnInitialize
        \/ \E b \in Backers : Draw(b)
        \/ \E b \in Backers, x \in Amounts :
              (\E a \in Author : FundDirect(b, a, x)) \/ (\E i \in Indexes : FundVia(b, i, x))
        \/ UNCHANGED <<funding, backing>>
    BY DEF Next, ForceGenesisConfig, Enroll, AddCollateral, Confirm, RevokePermanence,
           Resign, Penalize, Reward, Forgive, Reclaim, CreateIndex, vars, funds, digests
  <2> QED  BY <1>1, <1>2, <1>4, <1>5, <2>1 DEF Empty
<1> QED  BY <1>6 DEF Empty

\* The collateral of an author who has resigned is nothing.
LEMMA ResignedStep ==
    ASSUME TypeOK, PendingTyped, UnheldIsEmpty, [Next]_vars
    PROVE  \A a \in DOMAIN collateral' : ~ enrolled(a)' => collateral'[a] = 0
<1>0. /\ DOMAIN collateral \subseteq Author
      /\ \A a \in DOMAIN collateral : ~ enrolled(a) => collateral[a] = 0
  BY DEF TypeOK, UnheldIsEmpty
<1>1. ASSUME NEW a \in DOMAIN collateral', ~ enrolled(a)'
      PROVE  \/ a \in Judged /\ Resign(a)
             \/ a \in DOMAIN collateral /\ ~ enrolled(a) /\ OnInitialize
             \/ a \in DOMAIN collateral /\ ~ enrolled(a) /\ collateral'[a] = collateral[a]
  <2>1. CASE a \in Judged /\ Resign(a)
    BY <2>1
  <2>2. CASE ~ (a \in Judged /\ Resign(a))
    <3>1. ~ enrolled(a)
      BY <1>1, <2>2, StaysEnrolled
    <3>2. ASSUME NEW b \in Author, NEW x \in Amounts, Enroll(b, x) \/ AddCollateral(b, x)
          PROVE  a \in DOMAIN collateral /\ collateral'[a] = collateral[a]
      <4>1. a # b
        <5>1. CASE Enroll(b, x)
          <6>1. enrolled(b)'
            BY <5>1 DEF Enroll, NewInfo, Put, enrolled, role_exists
          <6> QED  BY <1>1, <6>1
        <5>2. CASE AddCollateral(b, x)
          BY <3>1, <5>2 DEF AddCollateral
        <5> QED  BY <3>2, <5>1, <5>2
      <4>2. \E v : collateral' = Put(collateral, b, v)
        BY <3>2 DEF Enroll, AddCollateral, Deposited
      <4> QED  BY <1>1, <4>1, <4>2 DEF Put
    <3>3. ASSUME NEW b \in Judged, Resign(b)
          PROVE  a \in DOMAIN collateral /\ collateral'[a] = collateral[a]
      <4>1. a # b
        BY <2>2, <3>3
      <4> QED  BY <1>1, <3>3, <4>1 DEF Resign
    <3>4. \/ OnInitialize
          \/ \E b \in Author, x \in Amounts : Enroll(b, x) \/ AddCollateral(b, x)
          \/ \E b \in Judged : Resign(b)
          \/ UNCHANGED collateral
      BY DEF Next, ForceGenesisConfig, Confirm, RevokePermanence, Penalize, Reward, Forgive, Reclaim,
             CreateIndex, Fund, FundDirect, FundVia, Draw, vars, digests
    <3>5. CASE OnInitialize
      BY <1>1, <3>1, <3>5 DEF OnInitialize
    <3> QED  BY <1>1, <3>1, <3>2, <3>3, <3>4, <3>5
  <2> QED  BY <2>1, <2>2
<1>2. ASSUME NEW a \in DOMAIN collateral', ~ enrolled(a)'
      PROVE  collateral'[a] = 0
  <2>1. CASE Resign(a)
    BY <1>2, <2>1 DEF Resign
  <2>2. CASE a \in DOMAIN collateral /\ ~ enrolled(a) /\ OnInitialize
    <3>1. now' \in Nat
      BY <2>2 DEF OnInitialize, TypeOK
    <3>2. CASE HasHold(a)
      <4>1. settled(a, now').c = 0
        BY <1>0, <2>2, <3>1, <3>2, SettledTyped DEF HeldBy
      <4> QED  BY <1>0, <2>2, <3>2, <4>1, BlockDigests
    <3>3. CASE ~ HasHold(a)
      BY <1>0, <2>2, <3>3, BlockDigests
    <3> QED  BY <3>2, <3>3
  <2>3. CASE a \in DOMAIN collateral /\ ~ enrolled(a) /\ collateral'[a] = collateral[a]
    BY <1>0, <2>3
  <2> QED  BY <1>1, <1>2, <2>1, <2>2, <2>3
<1> QED  BY <1>2

-----------------------------------------------------------------------------
(* The theorems *)

\* UnheldIsEmpty is kept.
LEMMA EmptyStep ==
    ASSUME TypeOK, PendingTyped, UnheldIsEmpty, FundsTyped, [Next]_vars
    PROVE  UnheldIsEmpty'
  BY UnbackedStep, ResignedStep DEF UnheldIsEmpty

\* The invariant holds at genesis and is kept by every call and every block.
THEOREM Inductive == Spec => []IInv
<1>1. Init => IInv
  <2> SUFFICES ASSUME Init PROVE IInv
    OBVIOUS
  <2>1. \A x : x \notin DOMAIN Nothing
    BY DEF Nothing
  <2>2. TypeOK
    BY <2>1, AuthorsAssumption DEF Init, TypeOK
  <2>3. PendingTyped /\ PendingVisible /\ NoEscape
    BY <2>1 DEF Init, PendingTyped, PendingVisible, NoEscape
  <2>4. FundsTyped /\ FundersListed
    BY <2>1 DEF Init, FundsTyped, BackingFollows, FundersListed
  <2>5. UnheldIsEmpty
    BY <2>1 DEF Init, UnheldIsEmpty
  <2> QED  BY <2>2, <2>3, <2>4, <2>5 DEF IInv
<1>2. IInv /\ [Next]_vars => IInv'
  <2> SUFFICES ASSUME TypeOK, PendingTyped, PendingVisible, NoEscape, FundsTyped, FundersListed,
                      UnheldIsEmpty, [Next]_vars
               PROVE  IInv'
    BY DEF IInv
  <2> QED  BY TypeStep, PendingStep, EscapeStep, FundsStep, EmptyStep DEF IInv
<1> QED  BY <1>1, <1>2, PTL DEF Spec

\* Storage stays within its types: no deposit, reward or settlement takes a
\* digest out of the asset type.
THEOREM TypeCorrect == Spec => []TypeOK
<1>1. IInv => TypeOK
  BY DEF IInv
<1> QED  BY <1>1, Inductive, PTL

\* Whatever is scheduled lies ahead and within the range that has_reward and
\* has_penalty search, through every penalty, reward, pardon and block, and
\* whatever buffers root installs in between.
THEOREM AllVisible == Spec => []PendingVisible
<1>1. IInv => PendingVisible
  BY DEF IInv
<1> QED  BY <1>1, Inductive, PTL

\* An author who has resigned has no penalty to come: can_resign sees every one.
THEOREM NobodyEscapes == Spec => []NoEscape
<1>1. IInv => NoEscape
  BY DEF IInv
<1> QED  BY <1>1, Inductive, PTL

\* The recorded funders of an author are exactly its backers, through an index
\* or directly.
THEOREM FundersAreListed == Spec => []FundersListed
<1>1. IInv => FundersListed
  BY DEF IInv
<1> QED  BY <1>1, Inductive, PTL

\* A block applies exactly what is due, although each part of the hold is
\* rounded and the two digests are written one after the other: neither write
\* can be refused while somebody has shares of the hold.
THEOREM AppliedInFull == Spec => DueApplied
<1> DEFINE Applied ==
      \A a \in Author :
          LET n    == now'
              r    == IF <<n, a>> \in DOMAIN AuthorRewards THEN AuthorRewards[<<n, a>>] ELSE 0
              p    == IF <<n, a>> \in DOMAIN AuthorPenalties THEN AuthorPenalties[<<n, a>>] ELSE 0
              full == funding[a] + collateral[a] + r
          IN  (now' # now /\ HasHold(a) /\ (collateral[a] # 0 \/ Holders(a) # {}) /\ full <= MaxAsset)
                => funding'[a] + collateral'[a] = full - mul_floor(p, full)
<1>1. IInv /\ [Next]_vars => Applied
  <2> SUFFICES ASSUME TypeOK, PendingTyped, UnheldIsEmpty, [Next]_vars, NEW a \in Author,
                      now' # now, HasHold(a), collateral[a] # 0 \/ Holders(a) # {},
                      funding[a] + collateral[a] + DueReward(a, now') <= MaxAsset
               PROVE  LET full == funding[a] + collateral[a] + DueReward(a, now')
                      IN  funding'[a] + collateral'[a] = full - mul_floor(DuePenalty(a, now'), full)
    BY DEF IInv, DueReward, DuePenalty
  <2>1. OnInitialize
    BY DEF Next, ForceGenesisConfig, Enroll, AddCollateral, Confirm, RevokePermanence, Resign, Penalize,
           Reward, Forgive, Reclaim, CreateIndex, Fund, FundDirect, FundVia, Draw, vars
  <2>2. now' \in Nat
    BY <2>1 DEF OnInitialize, TypeOK
  <2>3. hold(Before(a)) = funding[a] + collateral[a] /\ Shared(a, Before(a))
    BY DEF hold, Before, Shared
  <2> DEFINE full == funding[a] + collateral[a] + DueReward(a, now')
  <2>4. hold(settled(a, now')) = full - mul_floor(DuePenalty(a, now'), full)
    BY <2>2, <2>3, SettledExact
  <2>5. CASE funding'[a] = settled(a, now').f /\ collateral'[a] = settled(a, now').c
    BY <2>4, <2>5 DEF hold
  <2>6. CASE /\ funding'[a] = funding[a] /\ collateral'[a] = collateral[a]
             /\ <<now', a>> \notin DOMAIN AuthorRewards \cup DOMAIN AuthorPenalties
    <3>1. DueReward(a, now') = 0 /\ DuePenalty(a, now') = 0
      BY <2>6 DEF DueReward, DuePenalty
    <3>2. settled(a, now') = Before(a)
      BY <2>6 DEF settled, rewarded, punished, Before
    <3> QED  BY <2>3, <2>4, <2>6, <3>2
  <2> QED  BY <2>1, <2>5, <2>6, BlockDigests
<1> QED  BY <1>1, Inductive, PTL DEF Spec, DueApplied

=============================================================================
