------------------------- MODULE ChainManagerProofs -------------------------
(***************************************************************************)
(* The elections of sessions for every set of authors and keys, every      *)
(* weight an author may be backed with, every length and every window of a *)
(* session, and every bound on the elected and on the blocks.              *)
(***************************************************************************)
EXTENDS ChainManager, SumTheorems

-----------------------------------------------------------------------------
(* The invariant *)

\* Entries are kept of the coming session and the one after it only: keys of
\* both, affidavits of the coming one; no election is of a later session.
EntriesToCome ==
    /\ DOMAIN AffidavitKeys \subseteq {next_session, next_afdt_session} \X Keys
    /\ DOMAIN AuthorAffidavits \subseteq {next_session} \X Author
    /\ \A s \in DOMAIN ElectsPreparedBy : s \in Nat /\ s <= next_session

\* A rotated key is registered by nothing but the affidavit of the author it is
\* registered for, whoever rotated to it before.
RotatedHasDeclared ==
    \A k \in Keys :
        <<next_afdt_session, k>> \in DOMAIN AffidavitKeys =>
            HasAffidavit(next_session, AffidavitKeys[<<next_afdt_session, k>>])

\* Until the last block of the window every candidate keeps a rotated key, but
\* for those whose key another one has rotated to.
CandidatesKeepKey ==
    now < end_affidavit =>
        \A a \in candidates \ supplanted : \E k \in Keys : OwnedBy(next_afdt_session, k, a)

\* Whoever was elected since the session began is a candidate of the coming
\* session.
ElectedSinceStart ==
    /\ RecentElectedOn <= now
    /\ RecentElectedOn >= SessionStartAt => Elected \subseteq candidates

IInv ==
    /\ TypeOK
    /\ EntriesToCome
    /\ RotatedHasDeclared
    /\ CandidatesKeepKey
    /\ ElectedSinceStart
    /\ ElectionCurrent
    /\ ElectedKeepsKey

-----------------------------------------------------------------------------
(* The helpers *)

\* What integer division returns: the floor of the quotient.
LEMMA DivFloor ==
    ASSUME NEW n \in Nat, NEW d \in Nat \ {0}
    PROVE  n \div d \in Nat
  BY SMT

\* A product of natural numbers is one.
LEMMA MulNat ==
    ASSUME NEW x \in Nat, NEW y \in Nat
    PROVE  x * y \in Nat
  BY SMT

\* The end of the affidavit window is a block.
LEMMA EndTyped ==
    ASSUME TypeOK
    PROVE  end_affidavit \in Nat
<1>1. /\ SessionLength \in Nat /\ AffidavitEndsAt \in Nat /\ Whole \in Nat \ {0}
      /\ SessionStartAt \in Nat
  BY ChainAssumption DEF TypeOK
<1>2. mul_floor(AffidavitEndsAt, SessionLength) \in Nat
  BY <1>1, MulNat, DivFloor DEF mul_floor
<1> QED  BY <1>1, <1>2 DEF end_affidavit

\* The window of a session does not move while the session lasts.
LEMMA EndStays ==
    ASSUME SessionStartAt' = SessionStartAt
    PROVE  end_affidavit' = end_affidavit
  BY DEF end_affidavit

\* Somebody is elected whenever there are enough candidates.
LEMMA TopDownElects ==
    ASSUME NEW S, Cardinality(S) >= MinElected, NEW T \in TopDown(S)
    PROVE  T \subseteq S /\ T # {}
<1>1. T \subseteq S /\ Cardinality(T) = (IF Cardinality(S) < MaxElected THEN Cardinality(S) ELSE MaxElected)
  BY DEF TopDown
<1>2. ASSUME Cardinality(T) = 0  PROVE FALSE
  <2>1. CASE Cardinality(S) < MaxElected
    <3>1. Cardinality(S) = 0
      BY <1>1, <1>2, <2>1
    <3> QED  BY <3>1, ChainAssumption
  <2>2. CASE ~ Cardinality(S) < MaxElected
    BY <1>1, <1>2, <2>2, ChainAssumption
  <2> QED  BY <2>1, <2>2
<1> QED  BY <1>1, <1>2, FS_EmptySet

-----------------------------------------------------------------------------
(* Storage stays within its types *)

\* What calls and blocks do.
LEMMA Cases ==
    ASSUME [Next]_vars
    PROVE  \/ \E a \in Author : NextBlock(a)
           \/ \E a \in Author : Enlist(a)
           \/ \E a \in Author : CollateralChanges(a)
           \/ \E a \in Author : Resign(a)
           \/ \E a \in Author, k \in Keys : Validate(a, k)
           \/ \E k \in Keys, rotate \in Keys, w \in Weights : Declare(k, rotate, w)
           \/ \E k \in Keys : Elect(k)
           \/ \E a \in Author, k \in Keys : Chill(a, k)
           \/ ForceAllowAffidavits
           \/ UNCHANGED vars
  BY DEF Next

\* Points are natural numbers of authors.
LEMMA WithPointsTyped ==
    ASSUME NEW store, DOMAIN store \subseteq Nat \X Author, \A y \in DOMAIN store : store[y] \in Nat,
           NEW s \in Nat, NEW a \in Author, NEW n \in Nat
    PROVE  /\ DOMAIN WithPoints(store, s, a, n) \subseteq Nat \X Author
           /\ \A y \in DOMAIN WithPoints(store, s, a, n) : WithPoints(store, s, a, n)[y] \in Nat
<1> DEFINE v == (IF <<s, a>> \in DOMAIN store THEN store[<<s, a>>] ELSE 0) + n
<1>1. v \in Nat
  OBVIOUS
<1> HIDE DEF v
<1>2. WithPoints(store, s, a, n) = Put(store, <<s, a>>, v)
  BY DEF WithPoints, v
<1> QED  BY <1>1, <1>2 DEF Put

\* A block: one more, and either of the same session or the first of the next
\* one, for which only the entries to come are kept.
LEMMA BlockStep ==
    ASSUME TypeOK, NEW a \in Author, NextBlock(a)
    PROVE  /\ now' = now + 1 /\ author' = a
           /\ UNCHANGED <<role, AllowAffidavits, election>>
           /\ \/ UNCHANGED <<sessions, AffidavitKeys, AuthorAffidavits, history>>
              \/ /\ supplanted' = {}
                 /\ CurrentSession' = CurrentSession + 1
                 /\ SessionStartAt' = now + 1
                 /\ validators' = queued
                 /\ queued' = (IF Elected = {} THEN queued ELSE Elected)
                 /\ AffidavitKeys' = ToCome(AffidavitKeys, CurrentSession + 1)
                 /\ AuthorAffidavits' = ToCome(AuthorAffidavits, CurrentSession + 1)
  BY DEF NextBlock, new_session_validators, reveal, history

\* The points of authors.
LEMMA PointsStep ==
    ASSUME TypeOK, NEW a \in Author, NextBlock(a)
    PROVE  /\ DOMAIN BlockPointsStore' \subseteq Nat \X Author
           /\ \A y \in DOMAIN BlockPointsStore' : BlockPointsStore'[y] \in Nat
<1> DEFINE s     == CurrentSession
           store == WithPoints(BlockPointsStore, s, a, 1)
           Typed(f) == DOMAIN f \subseteq Nat \X Author /\ \A y \in DOMAIN f : f[y] \in Nat
<1>1. s \in Nat /\ Typed(BlockPointsStore)
  BY DEF TypeOK
<1>2. Typed(store)
  BY <1>1, WithPointsTyped
<1>3. BlockPointsStore' = store \/ BlockPointsStore' = new_session_points(store, s + 1)
  BY DEF NextBlock
<1> HIDE DEF store
<1>4. Typed(new_session_points(store, s + 1))
  <2>1. CASE reveal # {} /\ s + 1 + 1 \in DOMAIN ElectsPreparedBy
    <3>1. /\ ElectsPreparedBy[s + 1 + 1] \in Author
          /\ s + 1 \in Nat /\ ElectionRunnerPoints \in Nat
      BY <1>1, <2>1, ChainAssumption DEF TypeOK
    <3>2. Typed(WithPoints(store, s + 1, ElectsPreparedBy[s + 1 + 1], ElectionRunnerPoints))
      BY <1>2, <3>1, WithPointsTyped
    <3> QED  BY <2>1, <3>2 DEF new_session_points
  <2>2. CASE ~ (reveal # {} /\ s + 1 + 1 \in DOMAIN ElectsPreparedBy)
    BY <1>2, <2>2 DEF new_session_points
  <2> QED  BY <2>1, <2>2
<1> QED  BY <1>2, <1>3, <1>4

\* An election: some of the candidates, and those of an earlier one of the
\* same block.
LEMMA ElectStep ==
    ASSUME NEW k \in Keys, Elect(k)
    PROVE  /\ OwnedBy(next_afdt_session, k, author)
           /\ RecentElectedOn' = now /\ start_affidavit <= now /\ now <= end_affidavit
           /\ ElectsPreparedBy' = Put(ElectsPreparedBy, next_session, author)
           /\ UNCHANGED <<block, sessions, role, AllowAffidavits, AffidavitKeys, AuthorAffidavits, payments, history>>
           /\ \E T \in SUBSET candidates :
                 T # {} /\ Elected' = T \cup (IF RecentElectedOn = now THEN Elected ELSE {})
<1>1. PICK T \in TopDown(candidates) : Elected' = T \cup (IF RecentElectedOn = now THEN Elected ELSE {})
  BY DEF Elect
<1>2. T \in SUBSET candidates /\ T # {}
  BY TopDownElects DEF Elect
<1> QED  BY <1>1, <1>2 DEF Elect, can_process_election

\* A declaration: the affidavit of an author and its rotated key, of the coming
\* session and of the one after it.  Whoever else had rotated to that key has no
\* claim to it from then on.
DeclaredBy(a, rotate, w) ==
    /\ AuthorAffidavits' = Put(AuthorAffidavits, <<next_session, a>>, w)
    /\ AffidavitKeys' = Put(AffidavitKeys, <<next_afdt_session, rotate>>, a)
    /\ supplanted' \subseteq Author
    /\ \A c \in Author \ {a} :
          c \notin supplanted' => c \notin supplanted /\ ~ OwnedBy(next_afdt_session, rotate, c)
    /\ UNCHANGED <<block, sessions, role, AllowAffidavits, election, payments>>
    /\ candidates' = candidates \cup {a}

LEMMA DeclareStep ==
    ASSUME TypeOK, NEW k \in Keys, NEW rotate \in Keys, NEW w \in Weights, Declare(k, rotate, w)
    PROVE  \E a \in Author : DeclaredBy(a, rotate, w)
<1> DEFINE a    == AffidavitKeys[<<next_session, k>>]
           next == <<next_afdt_session, rotate>>
           out  == IF next \in DOMAIN AffidavitKeys THEN {AffidavitKeys[next]} ELSE {}
<1>1. a \in Author
  BY DEF Declare, can_submit_affidavit, TypeOK
<1>2. /\ AuthorAffidavits' = Put(AuthorAffidavits, <<next_session, a>>, w)
      /\ AffidavitKeys' = Put(AffidavitKeys, next, a)
      /\ supplanted' = (supplanted \cup out) \ {a}
      /\ UNCHANGED <<block, sessions, role, AllowAffidavits, election, payments>>
  BY DEF Declare
<1>3. out \subseteq Author /\ supplanted \subseteq Author
  BY DEF TypeOK
<1>4. \A c : OwnedBy(next_afdt_session, rotate, c) => c \in out
  BY DEF OwnedBy
<1>5. DOMAIN AuthorAffidavits' = DOMAIN AuthorAffidavits \cup {<<next_session, a>>}
  BY <1>2 DEF Put
<1>6. next_session' = next_session
  BY <1>2 DEF next_session, sessions
<1> HIDE DEF a, out
<1>7. candidates' = candidates \cup {a}
  BY <1>1, <1>5, <1>6 DEF candidates, HasAffidavit
<1>8. DeclaredBy(a, rotate, w)
  BY <1>2, <1>3, <1>4, <1>7 DEF DeclaredBy
<1> QED  BY <1>1, <1>8

\* TypeOK is kept.
LEMMA TypeStep ==
    ASSUME TypeOK, [Next]_vars
    PROVE  TypeOK'
<1>1. CASE \E a \in Author : NextBlock(a)
  <2>1. PICK a \in Author : NextBlock(a)
    BY <1>1
  <2>2. /\ now' \in Nat /\ CurrentSession' \in Nat /\ SessionStartAt' \in Nat
        /\ author' \in Author
        /\ validators' \subseteq Author /\ validators' # {}
        /\ queued' \subseteq Author /\ queued' # {}
    BY <2>1, BlockStep DEF TypeOK, sessions
  <2>3. /\ RecentElectedOn' = RecentElectedOn /\ Elected' = Elected /\ role' = role
        /\ AllowAffidavits' = AllowAffidavits /\ ElectsPreparedBy' = ElectsPreparedBy
    BY <2>1, BlockStep DEF election
  <2>4. \A y \in DOMAIN AuthorAffidavits' : AuthorAffidavits'[y] \in Weights
    BY <2>1, BlockStep DEF TypeOK, ToCome, Restrict
  <2>5. AllowAffidavits' \in BOOLEAN
    BY <2>3, Zenon DEF TypeOK
  <2>6. /\ \A y \in DOMAIN AffidavitKeys' : AffidavitKeys'[y] \in Author
        /\ supplanted' \subseteq Author
    BY <2>1, BlockStep DEF TypeOK, ToCome, Restrict, history
  <2> QED  BY <2>1, <2>2, <2>3, <2>4, <2>5, <2>6, PointsStep DEF TypeOK
<1>2. CASE \E a \in Author : Enlist(a) \/ CollateralChanges(a) \/ Resign(a)
  <2>1. role' \in [Author -> {"none", "available", "short", "resigned"}]
    BY <1>2 DEF Enlist, CollateralChanges, Resign, TypeOK
  <2>2. UNCHANGED <<block, sessions, AllowAffidavits, AffidavitKeys, AuthorAffidavits, election, payments, history>>
    BY <1>2 DEF Enlist, CollateralChanges, Resign
  <2>3. AllowAffidavits' \in BOOLEAN
    BY <2>2, Zenon DEF TypeOK
  <2> QED  BY <2>1, <2>2, <2>3 DEF TypeOK, block, sessions, election, payments, history
<1>3. CASE \E a \in Author, k \in Keys : Validate(a, k) \/ Chill(a, k)
  <2>1. UNCHANGED <<block, sessions, role, AllowAffidavits, AuthorAffidavits, election, payments, history>>
    BY <1>3 DEF Validate, Chill
  <2>2. AllowAffidavits' \in BOOLEAN
    BY <2>1, Zenon DEF TypeOK
  <2>3. \A y \in DOMAIN AffidavitKeys' : AffidavitKeys'[y] \in Author
    BY <1>3 DEF TypeOK, Validate, Chill, Put, Restrict
  <2> QED  BY <2>1, <2>2, <2>3 DEF TypeOK, block, sessions, election, payments, history
<1>4. CASE \E k \in Keys, rotate \in Keys, w \in Weights : Declare(k, rotate, w)
  <2>0. PICK rotate \in Keys, w \in Weights, a \in Author : DeclaredBy(a, rotate, w)
    BY <1>4, DeclareStep
  <2>1. UNCHANGED <<block, sessions, role, AllowAffidavits, election, payments>> /\ supplanted' \subseteq Author
    BY <2>0 DEF DeclaredBy
  <2>2. /\ \A y \in DOMAIN AuthorAffidavits' : AuthorAffidavits'[y] \in Weights
        /\ \A y \in DOMAIN AffidavitKeys' : AffidavitKeys'[y] \in Author
    BY <2>0 DEF DeclaredBy, TypeOK, Put
  <2>3. AllowAffidavits' \in BOOLEAN
    BY <2>1, Zenon DEF TypeOK
  <2> QED  BY <2>1, <2>2, <2>3 DEF TypeOK, block, sessions, election, payments
<1>5. CASE \E k \in Keys : Elect(k)
  <2>1. PICK k \in Keys : Elect(k)
    BY <1>5
  <2>2. UNCHANGED <<block, sessions, role, AllowAffidavits, AffidavitKeys, AuthorAffidavits, payments, history>>
    BY <2>1, ElectStep
  <2>3. Elected' \subseteq Author /\ RecentElectedOn' \in Nat
    BY <2>1, ElectStep DEF TypeOK, candidates
  <2>4. \A s \in DOMAIN ElectsPreparedBy' : ElectsPreparedBy'[s] \in Author
    BY <2>1, ElectStep DEF TypeOK, Put
  <2>5. AllowAffidavits' \in BOOLEAN
    BY <2>2, Zenon DEF TypeOK
  <2> QED  BY <2>2, <2>3, <2>4, <2>5 DEF TypeOK, block, sessions, payments, history
<1>6. CASE ForceAllowAffidavits
  <2>1. UNCHANGED <<block, sessions, role, AffidavitKeys, AuthorAffidavits, election, payments, history>>
    BY <1>6 DEF ForceAllowAffidavits
  <2>2. AllowAffidavits' \in BOOLEAN
    BY <1>6, Zenon DEF ForceAllowAffidavits
  <2> QED  BY <2>1, <2>2 DEF TypeOK, block, sessions, election, payments, history
<1>7. CASE UNCHANGED vars
  BY <1>7 DEF vars, TypeOK
<1> QED  BY <1>1, <1>2, <1>3, <1>4, <1>5, <1>6, <1>7, Cases

-----------------------------------------------------------------------------
(* Keys and affidavits *)

\* EntriesToCome is kept.
LEMMA EntriesStep ==
    ASSUME TypeOK, EntriesToCome, [Next]_vars
    PROVE  EntriesToCome'
<1>0. CurrentSession \in Nat /\ now \in Nat
  BY DEF TypeOK
<1>1. CASE \E a \in Author : NextBlock(a)
  <2>1. PICK a \in Author : NextBlock(a)
    BY <1>1
  <2>2. ElectsPreparedBy' = ElectsPreparedBy
    BY <2>1, BlockStep DEF election
  <2>3. CASE UNCHANGED <<sessions, AffidavitKeys, AuthorAffidavits>>
    BY <2>2, <2>3 DEF EntriesToCome, next_session, next_afdt_session, sessions
  <2>4. CASE /\ CurrentSession' = CurrentSession + 1
             /\ AffidavitKeys' = ToCome(AffidavitKeys, CurrentSession + 1)
             /\ AuthorAffidavits' = ToCome(AuthorAffidavits, CurrentSession + 1)
    <3>1. /\ DOMAIN AffidavitKeys' = {y \in DOMAIN AffidavitKeys : y[1] > CurrentSession + 1}
          /\ DOMAIN AuthorAffidavits' = {y \in DOMAIN AuthorAffidavits : y[1] > CurrentSession + 1}
      BY <2>4 DEF ToCome, Restrict
    <3>3. \A y \in DOMAIN AffidavitKeys' : y \in {CurrentSession + 2} \X Keys
      BY <1>0, <3>1 DEF EntriesToCome, next_session, next_afdt_session
    <3>4. DOMAIN AuthorAffidavits' = {}
      BY <1>0, <3>1 DEF EntriesToCome, next_session
    <3>5. \A s \in DOMAIN ElectsPreparedBy' : s \in Nat /\ s <= CurrentSession + 2
      BY <1>0, <2>2 DEF EntriesToCome, next_session
    <3>6. next_session' = CurrentSession + 2
      BY <1>0, <2>4 DEF next_session
    <3> QED  BY <3>3, <3>4, <3>5, <3>6 DEF EntriesToCome
  <2> QED  BY <2>1, <2>3, <2>4, BlockStep
<1>2. CASE \E a \in Author, k \in Keys : Validate(a, k)
  <2>1. PICK a \in Author, k \in Keys : Validate(a, k)
    BY <1>2
  <2>2. AffidavitKeys' = Put(AffidavitKeys, <<next_session, k>>, a)
    BY <2>1 DEF Validate
  <2>3. UNCHANGED <<sessions, AuthorAffidavits, ElectsPreparedBy>>
    BY <2>1 DEF Validate, election
  <2>4. DOMAIN AffidavitKeys' = DOMAIN AffidavitKeys \cup {<<next_session, k>>}
    BY <2>2 DEF Put
  <2> QED  BY <2>3, <2>4 DEF EntriesToCome, next_session, next_afdt_session, sessions
<1>3. CASE \E k \in Keys, rotate \in Keys, w \in Weights : Declare(k, rotate, w)
  <2>1. PICK rotate \in Keys, w \in Weights, a \in Author : DeclaredBy(a, rotate, w)
    BY <1>3, DeclareStep
  <2>2. UNCHANGED <<sessions, ElectsPreparedBy>>
    BY <2>1 DEF DeclaredBy, election
  <2>3. /\ DOMAIN AffidavitKeys' = DOMAIN AffidavitKeys \cup {<<next_afdt_session, rotate>>}
        /\ DOMAIN AuthorAffidavits' = DOMAIN AuthorAffidavits \cup {<<next_session, a>>}
    BY <2>1 DEF DeclaredBy, Put
  <2> QED  BY <2>2, <2>3 DEF EntriesToCome, next_session, next_afdt_session, sessions
<1>4. CASE \E a \in Author, k \in Keys : Chill(a, k)
  <2>1. /\ DOMAIN AffidavitKeys' \subseteq DOMAIN AffidavitKeys
        /\ UNCHANGED <<sessions, AuthorAffidavits, ElectsPreparedBy>>
    BY <1>4 DEF Chill, Restrict, election
  <2> QED  BY <2>1 DEF EntriesToCome, next_session, next_afdt_session, sessions
<1>5. CASE \E k \in Keys : Elect(k)
  <2>1. UNCHANGED <<sessions, AffidavitKeys, AuthorAffidavits>>
    BY <1>5 DEF Elect
  <2>2. DOMAIN ElectsPreparedBy' = DOMAIN ElectsPreparedBy \cup {next_session}
    BY <1>5 DEF Elect, Put
  <2> QED  BY <1>0, <2>1, <2>2 DEF EntriesToCome, next_session, next_afdt_session, sessions
<1>6. CASE UNCHANGED <<sessions, AffidavitKeys, AuthorAffidavits, ElectsPreparedBy>>
  BY <1>6 DEF EntriesToCome, next_session, next_afdt_session, sessions
<1>7. ASSUME \/ \E a \in Author : Enlist(a) \/ CollateralChanges(a) \/ Resign(a)
             \/ ForceAllowAffidavits \/ UNCHANGED vars
      PROVE  UNCHANGED <<sessions, AffidavitKeys, AuthorAffidavits, ElectsPreparedBy>>
  BY <1>7 DEF Enlist, CollateralChanges, Resign, ForceAllowAffidavits, vars, sessions, election
<1> QED  BY <1>1, <1>2, <1>3, <1>4, <1>5, <1>6, <1>7, Cases

\* A step begins a session, with nothing declared and nobody elected for the
\* coming one, or the session goes on.
LEMMA Kinds ==
    ASSUME TypeOK, EntriesToCome, [Next]_vars
    PROVE  \/ /\ CurrentSession' = CurrentSession + 1
              /\ SessionStartAt' = now + 1 /\ now' = now + 1
              /\ UNCHANGED election
              /\ candidates' = {} /\ AuthorAffidavits' = Nothing
              /\ \A k \in Keys : <<next_afdt_session', k>> \notin DOMAIN AffidavitKeys'
              /\ next_session' \notin DOMAIN ElectsPreparedBy'
           \/ /\ UNCHANGED sessions /\ now' \in {now, now + 1}
              /\ \/ \E a \in Author, k \in Keys : Validate(a, k) \/ Chill(a, k)
                 \/ \E k \in Keys : Elect(k)
                 \/ \E k \in Keys, rotate \in Keys, w \in Weights : Declare(k, rotate, w)
                 \/ UNCHANGED <<AffidavitKeys, AuthorAffidavits, election, history>>
<1>0. CurrentSession \in Nat
  BY DEF TypeOK
<1>1. CASE \E a \in Author : NextBlock(a)
  <2>1. PICK a \in Author : NextBlock(a)
    BY <1>1
  <2>2. UNCHANGED election /\ now' = now + 1
    BY <2>1, BlockStep
  <2>3. CASE UNCHANGED <<sessions, AffidavitKeys, AuthorAffidavits, history>>
    BY <2>2, <2>3
  <2>4. CASE /\ CurrentSession' = CurrentSession + 1
             /\ SessionStartAt' = now + 1
             /\ AffidavitKeys' = ToCome(AffidavitKeys, CurrentSession + 1)
             /\ AuthorAffidavits' = ToCome(AuthorAffidavits, CurrentSession + 1)
    <3>1. next_session' = CurrentSession + 2 /\ next_afdt_session' = CurrentSession + 3
      BY <1>0, <2>4 DEF next_session, next_afdt_session
    <3>2. AuthorAffidavits' = Nothing
      <4>1. {y \in DOMAIN AuthorAffidavits : y[1] > CurrentSession + 1} = {}
        BY <1>0 DEF EntriesToCome, next_session
      <4> QED  BY <2>4, <4>1 DEF ToCome, Restrict, Nothing
    <3>3. candidates' = {}
      BY <3>2 DEF candidates, HasAffidavit, Nothing
    <3>4. \A k \in Keys : <<next_afdt_session', k>> \notin DOMAIN AffidavitKeys'
      <4>1. DOMAIN AffidavitKeys' \subseteq DOMAIN AffidavitKeys
        BY <2>4 DEF ToCome, Restrict
      <4> QED  BY <1>0, <3>1, <4>1 DEF EntriesToCome, next_session, next_afdt_session
    <3>5. next_session' \notin DOMAIN ElectsPreparedBy'
      BY <1>0, <2>2, <3>1 DEF EntriesToCome, next_session, election
    <3> QED  BY <2>2, <2>4, <3>2, <3>3, <3>4, <3>5
  <2> QED  BY <2>1, <2>3, <2>4, BlockStep
<1>2. CASE \E k \in Keys : Elect(k) \/ \E a \in Author : Validate(a, k) \/ Chill(a, k)
  <2>1. UNCHANGED <<block, sessions>>
    BY <1>2 DEF Validate, Elect, Chill
  <2> QED  BY <1>2, <2>1 DEF block
<1>3. CASE \E k \in Keys, rotate \in Keys, w \in Weights : Declare(k, rotate, w)
  <2>1. UNCHANGED <<block, sessions>>
    BY <1>3 DEF Declare
  <2> QED  BY <1>3, <2>1 DEF block
<1>4. CASE \/ \E a \in Author : Enlist(a) \/ CollateralChanges(a) \/ Resign(a)
           \/ ForceAllowAffidavits \/ UNCHANGED vars
  <2>1. UNCHANGED <<block, sessions, AffidavitKeys, AuthorAffidavits, election, history>>
    BY <1>4 DEF Enlist, CollateralChanges, Resign, ForceAllowAffidavits, vars, block, sessions, election, history
  <2> QED  BY <2>1 DEF block
<1> QED  BY <1>1, <1>2, <1>3, <1>4, Cases

\* Calls that change no affidavit leave the candidates as they are.
LEMMA CandidatesStay ==
    ASSUME UNCHANGED <<sessions, AuthorAffidavits>>
    PROVE  candidates' = candidates
  BY DEF sessions, candidates, HasAffidavit, next_session

\* RotatedHasDeclared is kept.
LEMMA RotatedStep ==
    ASSUME TypeOK, EntriesToCome, RotatedHasDeclared, [Next]_vars
    PROVE  RotatedHasDeclared'
<1>0. CurrentSession \in Nat /\ author \in Author
  BY DEF TypeOK
<1>1. CASE \A k \in Keys : <<next_afdt_session', k>> \notin DOMAIN AffidavitKeys'
  BY <1>1 DEF RotatedHasDeclared
<1>2. ASSUME UNCHANGED sessions, NEW a \in Author, NEW k \in Keys, Validate(a, k) \/ Elect(k) \/ Chill(a, k)
      PROVE  RotatedHasDeclared'
  <2>1. UNCHANGED AuthorAffidavits
    BY <1>2 DEF Validate, Elect, Chill
  <2>2. /\ DOMAIN AffidavitKeys' \subseteq DOMAIN AffidavitKeys \cup {<<next_session, k>>}
        /\ \A y \in DOMAIN AffidavitKeys' : y # <<next_session, k>> => AffidavitKeys'[y] = AffidavitKeys[y]
    BY <1>2 DEF Validate, Elect, Chill, Put, Restrict
  <2>3. next_session # next_afdt_session
    BY <1>0 DEF next_session, next_afdt_session
  <2> QED
    BY <1>2, <2>1, <2>2, <2>3 DEF RotatedHasDeclared, HasAffidavit, next_session, next_afdt_session, sessions
<1>3. ASSUME NEW k \in Keys, NEW rotate \in Keys, NEW w \in Weights, Declare(k, rotate, w)
      PROVE  RotatedHasDeclared'
  <2>1. PICK a \in Author : DeclaredBy(a, rotate, w)
    BY <1>3, DeclareStep
  <2>2. DOMAIN AuthorAffidavits' = DOMAIN AuthorAffidavits \cup {<<next_session, a>>}
    BY <2>1 DEF DeclaredBy, Put
  <2>3. /\ DOMAIN AffidavitKeys' = DOMAIN AffidavitKeys \cup {<<next_afdt_session, rotate>>}
        /\ \A y \in DOMAIN AffidavitKeys' :
              AffidavitKeys'[y] = IF y = <<next_afdt_session, rotate>> THEN a ELSE AffidavitKeys[y]
    BY <2>1 DEF DeclaredBy, Put
  <2>4. next_session' = next_session /\ next_afdt_session' = next_afdt_session
    BY <2>1 DEF DeclaredBy, sessions, next_session, next_afdt_session
  <2> QED  BY <2>2, <2>3, <2>4 DEF RotatedHasDeclared, HasAffidavit
<1>4. CASE UNCHANGED <<sessions, AffidavitKeys, AuthorAffidavits>>
  BY <1>4 DEF RotatedHasDeclared, HasAffidavit, next_session, next_afdt_session, sessions
<1> QED  BY <1>0, <1>1, <1>2, <1>3, <1>4, Kinds

-----------------------------------------------------------------------------
(* Elections *)

\* ElectedSinceStart and what it implies of the candidates is kept.
LEMMA ElectedStep ==
    ASSUME TypeOK, EntriesToCome, ElectedSinceStart, [Next]_vars
    PROVE  ElectedSinceStart'
<1>0. now \in Nat /\ RecentElectedOn \in Nat /\ SessionStartAt \in Nat
  BY DEF TypeOK
<1>1. CASE SessionStartAt' = now + 1 /\ now' = now + 1 /\ UNCHANGED election
  BY <1>0, <1>1 DEF ElectedSinceStart, election
<1>2. ASSUME NEW k \in Keys, Elect(k), UNCHANGED sessions, now' \in {now, now + 1}
      PROVE  ElectedSinceStart'
  <2>1. candidates' = candidates /\ RecentElectedOn' = now /\ now' = now
    BY <1>2, CandidatesStay DEF Elect, block
  <2>2. PICK T \in SUBSET candidates : Elected' = T \cup (IF RecentElectedOn = now THEN Elected ELSE {})
    BY <1>2, ElectStep
  <2>3. now >= SessionStartAt' => Elected' \subseteq candidates'
    <3>1. SessionStartAt' = SessionStartAt
      BY <1>2 DEF sessions
    <3> QED  BY <2>1, <2>2, <3>1 DEF ElectedSinceStart
  <2> QED  BY <1>0, <2>1, <2>3 DEF ElectedSinceStart
<1>3. CASE UNCHANGED <<sessions, election>> /\ now' \in {now, now + 1} /\ candidates \subseteq candidates'
  BY <1>0, <1>3 DEF ElectedSinceStart, sessions, election
<1>4. ASSUME NEW a \in Author, NEW k \in Keys, Validate(a, k) \/ Chill(a, k), UNCHANGED sessions
      PROVE  UNCHANGED election /\ candidates' = candidates
  BY <1>4, CandidatesStay DEF Validate, Chill
<1>5. ASSUME NEW k \in Keys, NEW rotate \in Keys, NEW w \in Weights, Declare(k, rotate, w)
      PROVE  UNCHANGED election /\ candidates \subseteq candidates'
  BY <1>5, DeclareStep DEF DeclaredBy
<1>6. CASE UNCHANGED <<sessions, AuthorAffidavits, election>> /\ now' \in {now, now + 1}
  BY <1>3, <1>6, CandidatesStay
<1> QED  BY <1>1, <1>2, <1>3, <1>4, <1>5, <1>6, Kinds

\* ElectionCurrent is kept.
LEMMA CurrentStep ==
    ASSUME TypeOK, EntriesToCome, RotatedHasDeclared, ElectedSinceStart,
           ElectionCurrent, [Next]_vars
    PROVE  ElectionCurrent'
<1>0. now \in Nat /\ RecentElectedOn \in Nat /\ SessionStartAt \in Nat
  BY DEF TypeOK
<1>1. CASE next_session' \notin DOMAIN ElectsPreparedBy'
  BY <1>1 DEF ElectionCurrent, RunnerIsCandidate, RevealedAreCandidates
<1>2. ASSUME UNCHANGED <<sessions, election>>, DOMAIN AuthorAffidavits \subseteq DOMAIN AuthorAffidavits'
      PROVE  ElectionCurrent'
  BY <1>2 DEF ElectionCurrent, RunnerIsCandidate, RevealedAreCandidates, HasAffidavit, candidates,
              next_session, sessions, election, reveal
<1>3. ASSUME NEW k \in Keys, Elect(k)
      PROVE  ElectionCurrent'
  <2>1. /\ UNCHANGED <<block, sessions, AffidavitKeys, AuthorAffidavits>>
        /\ RecentElectedOn' = now
        /\ ElectsPreparedBy' = Put(ElectsPreparedBy, next_session, author)
        /\ next_session' = next_session
    BY <1>3, ElectStep DEF next_session, sessions
  <2>2. ElectsPreparedBy'[next_session] = author
    BY <2>1 DEF Put
  <2>3. HasAffidavit(next_session, author)
    <3>1. OwnedBy(next_afdt_session, k, author)
      BY <1>3, ElectStep
    <3> QED  BY <3>1 DEF OwnedBy, RotatedHasDeclared
  <2>4. RunnerIsCandidate'
    BY <2>1, <2>2, <2>3 DEF RunnerIsCandidate, HasAffidavit
  <2>5. candidates' = candidates
    BY <2>1, CandidatesStay
  <2>6. PICK T \in SUBSET candidates :
             T # {} /\ Elected' = T \cup (IF RecentElectedOn = now THEN Elected ELSE {})
    BY <1>3, ElectStep
  <2>7. SessionStartAt <= now
    <3>1. start_affidavit <= now
      BY <1>3, ElectStep
    <3>2. mul_floor(AffidavitBeginsAt, SessionLength) \in Nat
      BY ChainAssumption, MulNat, DivFloor DEF mul_floor
    <3> QED  BY <1>0, <3>1, <3>2 DEF start_affidavit
  <2>8. RecentElectedOn = now => Elected \subseteq candidates
    BY <2>7 DEF ElectedSinceStart
  <2>9. Elected' # {} /\ Elected' \subseteq candidates'
    BY <2>5, <2>6, <2>8
  <2>10. RevealedAreCandidates'
    BY <1>0, <2>1, <2>7, <2>9 DEF RevealedAreCandidates, reveal, sessions
  <2> QED  BY <2>4, <2>10 DEF ElectionCurrent
<1>4. ASSUME NEW a \in Author, NEW k \in Keys, Validate(a, k) \/ Chill(a, k)
      PROVE  UNCHANGED <<election, AuthorAffidavits>>
  BY <1>4 DEF Validate, Chill
<1>5. ASSUME NEW k \in Keys, NEW rotate \in Keys, NEW w \in Weights, Declare(k, rotate, w)
      PROVE  UNCHANGED election /\ DOMAIN AuthorAffidavits \subseteq DOMAIN AuthorAffidavits'
  <2>1. PICK a \in Author : DeclaredBy(a, rotate, w)
    BY <1>5, DeclareStep
  <2> QED  BY <2>1 DEF DeclaredBy, Put
<1> QED  BY <1>1, <1>2, <1>3, <1>4, <1>5, Kinds

\* CandidatesKeepKey and ElectedKeepsKey are kept.
LEMMA KeysStep ==
    ASSUME TypeOK, EntriesToCome, RotatedHasDeclared, CandidatesKeepKey, ElectedSinceStart,
           ElectionCurrent, ElectedKeepsKey, [Next]_vars
    PROVE  CandidatesKeepKey' /\ ElectedKeepsKey'
<1> DEFINE Keeps(a) == \E k \in Keys : OwnedBy(next_afdt_session, k, a)
<1>0. /\ now \in Nat /\ RecentElectedOn \in Nat /\ SessionStartAt \in Nat /\ end_affidavit \in Nat
      /\ CurrentSession \in Nat /\ next_session # next_afdt_session
  BY EndTyped DEF TypeOK, next_session, next_afdt_session
<1>1. CASE candidates' = {} /\ next_session' \notin DOMAIN ElectsPreparedBy'
  BY <1>1 DEF CandidatesKeepKey, ElectedKeepsKey
<1>2. ASSUME UNCHANGED <<sessions, election, history>>, now' \in {now, now + 1}, candidates' = candidates,
             \A a \in Author : Keeps(a) => Keeps(a)'
      PROVE  CandidatesKeepKey' /\ ElectedKeepsKey'
  <2>1. end_affidavit' = end_affidavit /\ next_session' = next_session
    BY <1>2, EndStays DEF sessions, next_session
  <2>2. /\ candidates \subseteq Author /\ reveal \subseteq Author /\ reveal' = reveal
        /\ supplanted' = supplanted
    BY <1>2 DEF candidates, TypeOK, reveal, election, history
  <2>3. now' < end_affidavit' => now < end_affidavit
    BY <1>0, <1>2, <2>1
  <2>4. CandidatesKeepKey'
    BY <1>2, <2>2, <2>3 DEF CandidatesKeepKey
  <2>5. ElectsPreparedBy' = ElectsPreparedBy /\ RecentElectedOn' = RecentElectedOn
    BY <1>2 DEF election
  <2>6. ElectedKeepsKey'
    BY <1>2, <2>1, <2>2, <2>5 DEF ElectedKeepsKey
  <2> QED  BY <2>4, <2>6
<1>3. CASE UNCHANGED <<sessions, AffidavitKeys, AuthorAffidavits, election, history>> /\ now' \in {now, now + 1}
  <2>1. \A a \in Author : Keeps(a) => Keeps(a)'
    BY <1>3 DEF OwnedBy, sessions, next_afdt_session
  <2>2. candidates' = candidates
    BY <1>3, CandidatesStay
  <2> HIDE DEF Keeps
  <2> QED  BY <1>2, <1>3, <2>1, <2>2
<1>4. ASSUME NEW b \in Author, NEW k \in Keys, Validate(b, k)
      PROVE  CandidatesKeepKey' /\ ElectedKeepsKey'
  <2>1. UNCHANGED <<block, sessions, AuthorAffidavits, election, history>>
    BY <1>4 DEF Validate
  <2>2. AffidavitKeys' = Put(AffidavitKeys, <<next_session, k>>, b)
    BY <1>4 DEF Validate
  <2>3. \A j \in Keys, a \in Author : OwnedBy(next_afdt_session, j, a) => OwnedBy(next_afdt_session, j, a)'
    BY <1>0, <2>1, <2>2 DEF OwnedBy, Put, sessions, next_afdt_session
  <2>4. \A a \in Author : Keeps(a) => Keeps(a)'
    BY <2>3
  <2>5. candidates' = candidates /\ now' = now
    BY <2>1, CandidatesStay DEF block
  <2> HIDE DEF Keeps
  <2> QED  BY <1>2, <2>1, <2>4, <2>5
<1>5. ASSUME NEW b \in Author, NEW k \in Keys, Chill(b, k)
      PROVE  CandidatesKeepKey' /\ ElectedKeepsKey'
  <2>1. /\ UNCHANGED <<block, sessions, AuthorAffidavits, election, history>> /\ now' = now
        /\ can_chill(b, k)
    BY <1>5 DEF Chill, block
  <2>2. candidates' = candidates
    BY <2>1, CandidatesStay
  <2>3. CASE <<next_afdt_session, k>> \notin DOMAIN AffidavitKeys
    <3>1. AffidavitKeys' = Restrict(AffidavitKeys, DOMAIN AffidavitKeys \ {<<next_session, k>>})
      BY <1>5, <2>3 DEF Chill
    <3>2. \A j \in Keys, a \in Author : OwnedBy(next_afdt_session, j, a) => OwnedBy(next_afdt_session, j, a)'
      BY <1>0, <2>1, <3>1 DEF OwnedBy, Restrict, sessions, next_afdt_session
    <3>3. \A a \in Author : Keeps(a) => Keeps(a)'
      BY <3>2
    <3> HIDE DEF Keeps
    <3> QED  BY <1>2, <2>1, <2>2, <3>3
  <2>4. CASE <<next_afdt_session, k>> \in DOMAIN AffidavitKeys
    <3>1. AffidavitKeys' = Restrict(AffidavitKeys, DOMAIN AffidavitKeys \ {<<next_afdt_session, k>>})
      BY <1>5, <2>4 DEF Chill
    <3>2. now >= end_affidavit /\ b \notin reveal /\ AffidavitKeys[<<next_afdt_session, k>>] = b
      BY <2>1, <2>4 DEF can_chill, OwnedBy
    <3>3. end_affidavit' = end_affidavit /\ next_session' = next_session
      BY <2>1, EndStays DEF sessions, next_session
    <3>4. CandidatesKeepKey'
      BY <1>0, <2>1, <3>2, <3>3 DEF CandidatesKeepKey
    <3>5. \A j \in Keys, a \in reveal :
             OwnedBy(next_afdt_session, j, a) => OwnedBy(next_afdt_session, j, a)'
      <4>1. ASSUME NEW j \in Keys, NEW a \in reveal, OwnedBy(next_afdt_session, j, a)
            PROVE  OwnedBy(next_afdt_session, j, a)'
        <5>1. a = AffidavitKeys[<<next_afdt_session, j>>] /\ <<next_afdt_session, j>> \in DOMAIN AffidavitKeys
          BY <4>1 DEF OwnedBy
        <5>2. j # k
          BY <3>2, <5>1
        <5>3. next_afdt_session' = next_afdt_session
          BY <2>1 DEF sessions, next_afdt_session
        <5> QED  BY <3>1, <4>1, <5>1, <5>2, <5>3 DEF OwnedBy, Restrict
      <4> QED  BY <4>1
    <3>6. /\ ElectsPreparedBy' = ElectsPreparedBy /\ RecentElectedOn' = RecentElectedOn
          /\ reveal' = reveal /\ supplanted' = supplanted
      BY <2>1 DEF election, reveal, history
    <3>7. ElectedKeepsKey'
      BY <3>3, <3>5, <3>6 DEF ElectedKeepsKey
    <3> QED  BY <3>4, <3>7
  <2> QED  BY <2>3, <2>4
<1>6. ASSUME NEW k \in Keys, NEW rotate \in Keys, NEW w \in Weights, Declare(k, rotate, w)
      PROVE  CandidatesKeepKey' /\ ElectedKeepsKey'
  <2>1. PICK b \in Author : DeclaredBy(b, rotate, w)
    BY <1>6, DeclareStep
  <2>2. /\ end_affidavit' = end_affidavit /\ next_session' = next_session /\ now' = now
        /\ next_afdt_session' = next_afdt_session
        /\ ElectsPreparedBy' = ElectsPreparedBy /\ RecentElectedOn' = RecentElectedOn /\ reveal' = reveal
    BY <2>1, EndStays DEF DeclaredBy, block, sessions, next_session, next_afdt_session, election, reveal
  <2>3. AffidavitKeys' = Put(AffidavitKeys, <<next_afdt_session, rotate>>, b) /\ candidates' = candidates \cup {b}
    BY <2>1 DEF DeclaredBy
  <2>4. OwnedBy(next_afdt_session, rotate, b)'
    BY <2>2, <2>3 DEF OwnedBy, Put
  <2>5. ASSUME NEW a \in Author, a \notin supplanted', a # b
        PROVE  a \notin supplanted /\ (Keeps(a) => Keeps(a)')
    <3>1. a \notin supplanted /\ ~ OwnedBy(next_afdt_session, rotate, a)
      BY <2>1, <2>5 DEF DeclaredBy
    <3>2. ASSUME NEW j \in Keys, OwnedBy(next_afdt_session, j, a)
          PROVE  OwnedBy(next_afdt_session, j, a)'
      <4>1. j # rotate
        BY <3>1, <3>2
      <4> QED  BY <2>2, <2>3, <3>2, <4>1 DEF OwnedBy, Put
    <3> QED  BY <3>1, <3>2
  <2>6. candidates \subseteq Author /\ reveal \subseteq Author
    BY DEF candidates, TypeOK, reveal
  <2>7. ASSUME now < end_affidavit, NEW a \in candidates', a \notin supplanted'  PROVE Keeps(a)'
    BY <2>3, <2>4, <2>5, <2>6, <2>7 DEF CandidatesKeepKey
  <2>8. ASSUME next_session \in DOMAIN ElectsPreparedBy, RecentElectedOn < end_affidavit,
               NEW a \in reveal, a \notin supplanted'
        PROVE  Keeps(a)'
    BY <2>4, <2>5, <2>6, <2>8 DEF ElectedKeepsKey
  <2>9. CandidatesKeepKey'
    BY <2>2, <2>7 DEF CandidatesKeepKey
  <2>10. ElectedKeepsKey'
    BY <2>2, <2>8 DEF ElectedKeepsKey
  <2> QED  BY <2>9, <2>10
<1>7. ASSUME NEW k \in Keys, Elect(k)
      PROVE  CandidatesKeepKey' /\ ElectedKeepsKey'
  <2>1. /\ UNCHANGED <<block, sessions, AffidavitKeys, AuthorAffidavits, history>>
        /\ RecentElectedOn' = now
    BY <1>7, ElectStep
  <2>2. /\ end_affidavit' = end_affidavit /\ next_afdt_session' = next_afdt_session /\ now' = now
        /\ candidates' = candidates /\ supplanted' = supplanted
    BY <2>1, EndStays, CandidatesStay DEF block, sessions, next_afdt_session, history
  <2>3. CandidatesKeepKey'
    BY <2>1, <2>2 DEF CandidatesKeepKey, OwnedBy
  <2>4. ElectionCurrent'
    BY CurrentStep
  <2>5. ElectedKeepsKey'
    BY <2>1, <2>2, <2>3, <2>4 DEF ElectedKeepsKey, ElectionCurrent, RevealedAreCandidates, CandidatesKeepKey
  <2> QED  BY <2>3, <2>5
<1> QED  BY <1>1, <1>3, <1>4, <1>5, <1>6, <1>7, Kinds

-----------------------------------------------------------------------------
(* What a session pays *)

\* A quotient and what it leaves.
LEMMA DivBounds ==
    ASSUME NEW n \in Nat, NEW d \in Nat \ {0}
    PROVE  /\ n \div d \in Nat
           /\ d * (n \div d) <= n
           /\ n + 1 <= d * (n \div d) + d
  BY SMT

\* The parts of a payout P in shares of the points T to the denominator F: q is
\* the sum of the shares, w of the whole parts, n of the payees, each of whom
\* loses less than one unit to each of the roundings.
LEMMA RoundingLosses ==
    ASSUME NEW T \in Nat \ {0}, NEW F \in Nat \ {0}, NEW P \in Nat \ {0}, NEW n \in Nat \ {0},
           NEW q \in Nat, NEW w \in Nat,
           T * q <= F * T, T * q + T * n >= F * T + n,
           F * w <= P * q, F * w + F * n >= P * q + n
    PROVE  w <= P /\ (n * P <= F => P - w <= n)
<1>1. q <= F
  <2>1. ASSUME q > F  PROVE FALSE
    <3>1. T * q >= T * (F + 1)
      BY <2>1, Z3
    <3>2. T * (F + 1) = F * T + T
      BY Z3
    <3> QED  BY <3>1, <3>2
  <2> QED  BY <2>1
<1>2. w <= P
  <2>1. ASSUME w > P  PROVE FALSE
    <3>1. F * w >= F * (P + 1)
      BY <2>1, Z3
    <3>2. F * (P + 1) = P * F + F
      BY Z3
    <3>3. P * q <= P * F
      BY <1>1, Z3
    <3> QED  BY <3>1, <3>2, <3>3
  <2> QED  BY <2>1
<1>3. q + n > F
  <2>1. ASSUME q + n <= F  PROVE FALSE
    <3>1. T * (q + n) <= T * F
      BY <2>1, Z3
    <3>2. T * (q + n) = T * q + T * n /\ T * F = F * T
      BY Z3
    <3> QED  BY <3>1, <3>2
  <2> QED  BY <2>1
<1>4. ASSUME n * P <= F  PROVE P - w <= n
  <2>1. ASSUME P - w > n  PROVE FALSE
    <3>1. F * (w + n) <= F * (P - 1)
      BY <2>1, Z3
    <3>2. F * (w + n) = F * w + F * n /\ F * (P - 1) = P * F - F
      BY Z3
    <3>3. P * (q + n) >= P * (F + 1)
      BY <1>3, Z3
    <3>4. P * (q + n) = P * q + n * P /\ P * (F + 1) = P * F + P
      BY Z3
    <3> QED  BY <1>4, <3>1, <3>2, <3>3, <3>4
  <2> QED  BY <2>1
<1> QED  BY <1>2, <1>4

\* A payout is never exceeded, and paid to the unit as long as it is small
\* enough, by the number of payees, for the fixed-point numbers of their shares.
LEMMA SharesSettle ==
    ASSUME NEW points, IsFiniteSet(DOMAIN points), \A a \in DOMAIN points : points[a] \in Nat,
           SumFunction(points) # 0, NEW p \in SharesPay(points)
    PROVE  /\ SumFunction(p) \in Nat /\ SumFunction(p) <= Payout
           /\ Cardinality(DOMAIN points) * Payout <= Fixed => SumFunction(p) = Payout
<1> DEFINE ids   == DOMAIN points
           total == SumFunction(points)
           share == [a \in ids |-> (points[a] * Fixed) \div total]
           exact == [a \in ids |-> Payout * ((points[a] * Fixed) \div total)]
           whole == [a \in ids |-> exact[a] \div Fixed]
           left  == Payout - SumFunction(whole)
           extra == IF left < Cardinality(ids) THEN left ELSE Cardinality(ids)
           one   == [a \in ids |-> 1]
           Sum(f) == SumFunctionOnSet(f, ids)
<1>1. PICK T \in Nat \ {0} : T = total
  BY SumOfNats
<1>2. PICK n \in Nat : n = Cardinality(ids)
  BY FS_CardinalityType
<1>3. ids # {}
  BY SumNothing
<1>4. n # 0
  BY <1>2, <1>3, FS_EmptySet
<1>5. Fixed \in Nat \ {0} /\ Payout \in Nat \ {0}
  BY ChainAssumption
<1>6. ASSUME NEW a \in ids
      PROVE  /\ points[a] \in Nat /\ share[a] \in Nat /\ exact[a] \in Nat /\ whole[a] \in Nat
             /\ exact[a] = Payout * share[a]
             /\ T * share[a] <= Fixed * points[a]
             /\ T * share[a] + T >= Fixed * points[a] + 1
             /\ Fixed * whole[a] <= Payout * share[a]
             /\ Fixed * whole[a] + Fixed >= Payout * share[a] + 1
  <2>1. PICK x \in Nat : x = points[a]
    OBVIOUS
  <2>2. x * Fixed \in Nat /\ x * Fixed = Fixed * x
    BY <1>5, Z3
  <2>3. PICK q \in Nat : q = share[a]
    BY <1>1, <2>1, <2>2, DivBounds
  <2>4. /\ T * q <= x * Fixed
        /\ x * Fixed + 1 <= T * q + T
    BY <1>1, <2>1, <2>2, <2>3, DivBounds
  <2>5. Payout * q \in Nat /\ exact[a] = Payout * q
    BY <1>5, <2>1, <2>3, MulNat
  <2>6. PICK w \in Nat : w = whole[a]
    BY <1>5, <2>5, DivBounds
  <2>7. /\ Fixed * w <= Payout * q
        /\ Payout * q + 1 <= Fixed * w + Fixed
    BY <1>5, <2>5, <2>6, DivBounds
  <2>8. T * q \in Nat /\ Fixed * w \in Nat
    BY <1>5, MulNat
  <2> HIDE DEF share, exact, whole
  <2> QED  BY <1>5, <2>1, <2>2, <2>3, <2>4, <2>5, <2>6, <2>7, <2>8
<1> HIDE DEF share, exact, whole
<1>7. PICK q \in Nat, w \in Nat : q = Sum(share) /\ w = Sum(whole)
  BY <1>6, SumTyped
<1>8. Sum(points) = T /\ SumFunction(whole) = w /\ DOMAIN whole = ids
  BY <1>1, <1>7 DEF SumFunction, whole
<1>9. Sum(one) = n
  BY <1>2, SumCounts
<1> DEFINE Ints == /\ \A a \in ids : /\ points[a] \in Int /\ share[a] \in Int
                                     /\ whole[a] \in Int /\ one[a] \in Int
                   /\ T \in Int /\ Fixed \in Int /\ Payout \in Int /\ 0 \in Int /\ 1 \in Int
                   /\ IsFiniteSet(ids)
                   /\ q = Sum(share) /\ w = Sum(whole) /\ T = Sum(points) /\ n = Sum(one)
<1>a. Ints
  BY <1>5, <1>6, <1>7, <1>8, <1>9
<1> HIDE DEF one
<1>10. T * q <= Fixed * T
  <2>1. \A a \in ids : T * share[a] + 0 * one[a] <= Fixed * points[a] + 0 * one[a]
    BY <1>5, <1>6 DEF one
  <2>2. T * q + 0 * n <= Fixed * T + 0 * n
    BY <1>a, <2>1, SumLinearCompare, Zenon
  <2> QED  BY <1>5, <2>2
<1>11. T * q + T * n >= Fixed * T + n
  <2>1. \A a \in ids : Fixed * points[a] + 1 * one[a] <= T * share[a] + T * one[a]
    BY <1>5, <1>6 DEF one
  <2>2. Fixed * T + 1 * n <= T * q + T * n
    BY <1>a, <2>1, SumLinearCompare, Zenon
  <2> QED  BY <1>5, <2>2
<1>12. Fixed * w <= Payout * q
  <2>1. \A a \in ids : Fixed * whole[a] + 0 * one[a] <= Payout * share[a] + 0 * one[a]
    BY <1>5, <1>6 DEF one
  <2>2. Fixed * w + 0 * n <= Payout * q + 0 * n
    BY <1>a, <2>1, SumLinearCompare, Zenon
  <2> QED  BY <1>5, <2>2
<1>13. Fixed * w + Fixed * n >= Payout * q + n
  <2>1. \A a \in ids : Payout * share[a] + 1 * one[a] <= Fixed * whole[a] + Fixed * one[a]
    BY <1>5, <1>6 DEF one
  <2>2. Payout * q + 1 * n <= Fixed * w + Fixed * n
    BY <1>a, <2>1, SumLinearCompare, Zenon
  <2> QED  BY <1>5, <2>2
<1>14. w <= Payout /\ (n * Payout <= Fixed => Payout - w <= n)
  BY <1>4, <1>5, <1>10, <1>11, <1>12, <1>13, RoundingLosses
<1>15. PICK e \in Nat : e = extra /\ e <= Payout - w /\ (n * Payout <= Fixed => e = Payout - w)
  <2>1. left = Payout - w /\ left \in Nat
    BY <1>5, <1>8, <1>14
  <2> HIDE DEF left
  <2> QED  BY <1>2, <1>5, <1>14, <2>1
<1>16. PICK L \in SUBSET ids :
          Cardinality(L) = e /\ p = [a \in ids |-> whole[a] + (IF a \in L THEN 1 ELSE 0)]
  <2>1. SharesPay(points) =
          {[a \in ids |-> whole[a] + (IF a \in L THEN 1 ELSE 0)] :
              L \in {M \in SUBSET ids :
                       /\ Cardinality(M) = extra
                       /\ \A a \in M, b \in ids \ M : exact[a] % Fixed >= exact[b] % Fixed}}
    BY <1>1, <1>3 DEF SharesPay, whole, exact
  <2> HIDE DEF extra
  <2> QED  BY <1>15, <2>1
<1>17. SumFunction(p) = w + e
  <2> DEFINE more == [a \in ids |-> IF a \in L THEN 1 ELSE 0]
  <2>1. Sum(more) = e
    BY <1>16, SumCounts
  <2>2. Combines(p, 1, whole, 1, more, ids)
    <3>1. \A a \in ids : p[a] = whole[a] + more[a] /\ more[a] \in Int
      BY <1>16
    <3> HIDE DEF more
    <3> QED  BY <1>a, <1>6, <3>1 DEF Combines
  <2> HIDE DEF more
  <2>3. Sum(p) = 1 * w + 1 * e
    <3>1. Sum(p) = 1 * Sum(whole) + 1 * Sum(more)
      BY <2>2, SumLinear
    <3> QED  BY <1>7, <2>1, <3>1
  <2>4. DOMAIN p = ids
    BY <1>16
  <2> QED  BY <2>3, <2>4 DEF SumFunction
<1> QED  BY <1>2, <1>5, <1>14, <1>15, <1>17

-----------------------------------------------------------------------------
(* The points of a session *)

\* What is left of a division, as the division says it.
LEMMA Remainder ==
    ASSUME NEW n \in Nat, NEW d \in Nat \ {0}
    PROVE  n % d = n - d * (n \div d)
  BY SMTT(30)

LEMMA RemainderSmall ==
    ASSUME NEW n \in Nat, NEW d \in Nat \ {0}
    PROVE  n % d \in Nat /\ n % d < d
  BY SMT

\* The block after m is the last of session c.
LEMMA SessionEnds ==
    ASSUME NEW l \in Nat \ {0}, NEW c \in Nat, NEW m \in Nat, l * c <= m, m < l * c + l
    PROVE  (m + 1) % l = 0 <=> m + 1 = l * c + l
<1>1. PICK q \in Nat, r \in Nat : /\ r = (m + 1) % l /\ r < l
                                  /\ m + 1 = l * q + r
  <2>1. PICK k \in Nat : k = m + 1
    OBVIOUS
  <2>2. PICK q \in Nat : q = k \div l
    BY DivBounds
  <2>3. PICK r \in Nat : r = k % l /\ r < l
    BY RemainderSmall
  <2>4. r = k - l * q
    BY <2>2, <2>3, Remainder
  <2>5. l * q \in Nat
    BY MulNat
  <2> QED  BY <2>1, <2>3, <2>4, <2>5
<1>2. l * c \in Nat /\ l * q \in Nat /\ l * (c + 1) = l * c + l /\ l * (c + 2) = l * c + l + l
  BY Z3
<1>3. q <= c \/ q = c + 1 \/ q >= c + 2
  OBVIOUS
<1>4. CASE q <= c
  <2>1. l * q <= l * c
    BY <1>4, Z3
  <2> QED  BY <1>1, <1>2, <2>1
<1>5. CASE q = c + 1
  BY <1>1, <1>2, <1>5
<1>6. CASE q >= c + 2
  <2>1. l * q >= l * (c + 2)
    BY <1>6, Z3
  <2> QED  BY <1>1, <1>2, <2>1
<1> QED  BY <1>3, <1>4, <1>5, <1>6

\* Points of one session leave those of another alone.
LEMMA PointsStay ==
    ASSUME NEW store, NEW s, NEW a, NEW n, NEW t, t # s
    PROVE  PointsOf(WithPoints(store, s, a, n), t) = PointsOf(store, t)
<1> DEFINE v == (IF <<s, a>> \in DOMAIN store THEN store[<<s, a>>] ELSE 0) + n
<1>1. WithPoints(store, s, a, n) = Put(store, <<s, a>>, v)
  BY DEF WithPoints
<1> HIDE DEF v
<1>2. \A b : /\ <<t, b>> \in DOMAIN Put(store, <<s, a>>, v) <=> <<t, b>> \in DOMAIN store
             /\ <<t, b>> \in DOMAIN store => Put(store, <<s, a>>, v)[<<t, b>>] = store[<<t, b>>]
  BY DEF Put
<1> QED  BY <1>1, <1>2 DEF PointsOf

\* The points of a session are of finitely many authors, and natural numbers.
LEMMA PointsTyped ==
    ASSUME NEW store, \A y \in DOMAIN store : store[y] \in Nat, NEW s
    PROVE  /\ IsFiniteSet(DOMAIN PointsOf(store, s))
           /\ DOMAIN PointsOf(store, s) \subseteq Author
           /\ \A a \in DOMAIN PointsOf(store, s) : PointsOf(store, s)[a] \in Nat
           /\ SumFunction(PointsOf(store, s)) \in Nat
<1>1. /\ DOMAIN PointsOf(store, s) \subseteq Author
      /\ \A a \in DOMAIN PointsOf(store, s) : PointsOf(store, s)[a] \in Nat
  BY DEF PointsOf
<1>2. IsFiniteSet(DOMAIN PointsOf(store, s))
  BY <1>1, FiniteAssumption, FS_Subset
<1> QED  BY <1>1, <1>2, SumOfNats

\* A function that is larger by one in one place is in its sum.
LEMMA SumOneMore ==
    ASSUME NEW f, IsFiniteSet(DOMAIN f), \A b \in DOMAIN f : f[b] \in Nat,
           NEW a, NEW had, had = (IF a \in DOMAIN f THEN f[a] ELSE 0),
           NEW g, DOMAIN g = DOMAIN f \cup {a}, g[a] = had + 1,
           \A b \in DOMAIN f \ {a} : g[b] = f[b]
    PROVE  SumFunction(g) = SumFunction(f) + 1
<1>1. had \in Nat /\ SumFunction(f) \in Nat
  BY SumOfNats
<1>2. \A b \in DOMAIN f : f[b] \in Int
  OBVIOUS
<1>3. PICK u \in Int : u = had + 1
  BY <1>1
<1>4. g[a] = u
  BY <1>3
<1>5. SumFunction(g) = SumFunction(f) + u - (IF a \in DOMAIN f THEN f[a] ELSE 0)
  BY <1>2, <1>4, SumPut
<1> QED  BY <1>1, <1>3, <1>5

\* A point more for one is a point more in all.
LEMMA PointsAdded ==
    ASSUME NEW store, \A y \in DOMAIN store : store[y] \in Nat, NEW s, NEW a \in Author
    PROVE  SumFunction(PointsOf(WithPoints(store, s, a, 1), s)) = SumFunction(PointsOf(store, s)) + 1
<1> DEFINE f == PointsOf(store, s)
           g == PointsOf(WithPoints(store, s, a, 1), s)
           had == IF <<s, a>> \in DOMAIN store THEN store[<<s, a>>] ELSE 0
           v == had + 1
<1>1. WithPoints(store, s, a, 1) = Put(store, <<s, a>>, v)
  BY DEF WithPoints
<1>2. /\ DOMAIN g = DOMAIN f \cup {a} /\ g[a] = v
      /\ \A b \in DOMAIN f \ {a} : g[b] = f[b]
  <2> HIDE DEF v
  <2> QED  BY <1>1 DEF PointsOf, Put
<1>3. had = (IF a \in DOMAIN f THEN f[a] ELSE 0)
  BY DEF PointsOf
<1>4. IsFiniteSet(DOMAIN f) /\ \A b \in DOMAIN f : f[b] \in Nat
  BY PointsTyped
<1> HIDE DEF f, g, had
<1>5. SumFunction(g) = SumFunction(f) + 1
  BY <1>2, <1>3, <1>4, SumOneMore
<1> QED  BY <1>5 DEF f, g

\* Of a session that is over: paid by its points, of which every block gave one.
Settled(s) ==
    /\ rewards[s] \in SharesPay(PointsOf(BlockPointsStore, s))
    /\ SumFunction(PointsOf(BlockPointsStore, s)) >= SessionLength

\* Sessions follow each other without a gap; every block of the current one has
\* given a point, and those before it are settled.
SessionsSettled ==
    /\ SessionStartAt = SessionLength * CurrentSession
    /\ SessionStartAt <= now /\ now < SessionStartAt + SessionLength
    /\ DOMAIN rewards = 0 .. CurrentSession - 1
    /\ SumFunction(PointsOf(BlockPointsStore, CurrentSession)) >= now - SessionStartAt
    /\ \A s \in 0 .. CurrentSession - 1 : Settled(s)

\* The block that ends no session.
LEMMA BlockWithin ==
    ASSUME TypeOK, SessionsSettled, NEW a \in Author, NextBlock(a),
           (now + 1) % SessionLength # 0
    PROVE  SessionsSettled'
<1> DEFINE c == CurrentSession
<1>1. /\ now \in Nat /\ c \in Nat /\ SessionStartAt \in Nat /\ SessionLength \in Nat \ {0}
      /\ \A y \in DOMAIN BlockPointsStore : BlockPointsStore[y] \in Nat
  BY ChainAssumption DEF TypeOK
<1>2. /\ now' = now + 1 /\ CurrentSession' = c /\ SessionStartAt' = SessionStartAt
      /\ rewards' = rewards
      /\ BlockPointsStore' = WithPoints(BlockPointsStore, c, a, 1)
  BY DEF NextBlock, sessions
<1>3. now + 1 < SessionStartAt + SessionLength
  <2>1. ~ (now + 1 = SessionLength * c + SessionLength)
    BY <1>1, SessionEnds DEF SessionsSettled
  <2> QED  BY <1>1, <2>1 DEF SessionsSettled
<1>4. SumFunction(PointsOf(BlockPointsStore', c)) >= now + 1 - SessionStartAt
  <2>1. SumFunction(PointsOf(BlockPointsStore', c)) = SumFunction(PointsOf(BlockPointsStore, c)) + 1
    BY <1>1, <1>2, PointsAdded
  <2>2. SumFunction(PointsOf(BlockPointsStore, c)) \in Nat
    BY <1>1, PointsTyped
  <2> QED  BY <1>1, <2>1, <2>2 DEF SessionsSettled
<1>5. ASSUME NEW s \in 0 .. c - 1  PROVE Settled(s)'
  <2>1. PointsOf(BlockPointsStore', s) = PointsOf(BlockPointsStore, s)
    BY <1>1, <1>2, <1>5, PointsStay
  <2> QED  BY <1>2, <1>5, <2>1 DEF SessionsSettled, Settled
<1> QED  BY <1>1, <1>2, <1>3, <1>4, <1>5 DEF SessionsSettled

\* The last block of a session.
LEMMA BlockAtEnd ==
    ASSUME TypeOK, SessionsSettled, NEW a \in Author, NextBlock(a),
           (now + 1) % SessionLength = 0
    PROVE  SessionsSettled'
<1> DEFINE c == CurrentSession
           store == WithPoints(BlockPointsStore, c, a, 1)
<1>1. /\ now \in Nat /\ c \in Nat /\ SessionStartAt \in Nat /\ SessionLength \in Nat \ {0}
      /\ \A y \in DOMAIN BlockPointsStore : BlockPointsStore[y] \in Nat
  BY ChainAssumption DEF TypeOK
<1>2. PICK p \in SharesPay(PointsOf(store, c)) : rewards' = Put(rewards, c, p)
  BY DEF NextBlock
<1>3. /\ now' = now + 1 /\ CurrentSession' = c + 1 /\ SessionStartAt' = now + 1
      /\ BlockPointsStore' = new_session_points(store, c + 1)
  BY DEF NextBlock
<1>4. now + 1 = SessionLength * (c + 1) /\ now + 1 = SessionStartAt + SessionLength
  <2>1. now + 1 = SessionLength * c + SessionLength
    BY <1>1, SessionEnds DEF SessionsSettled
  <2>2. SessionLength * (c + 1) = SessionLength * c + SessionLength
    BY <1>1, Z3
  <2> QED  BY <1>1, <2>1, <2>2 DEF SessionsSettled
<1>5. ASSUME NEW s \in 0 .. c  PROVE PointsOf(BlockPointsStore', s) = PointsOf(store, s)
  <2>1. s # c + 1
    BY <1>1
  <2> HIDE DEF store
  <2> QED  BY <1>3, <2>1, PointsStay DEF new_session_points
<1>6. SumFunction(PointsOf(BlockPointsStore', c)) >= SessionLength
  <2>1. SumFunction(PointsOf(store, c)) = SumFunction(PointsOf(BlockPointsStore, c)) + 1
    BY <1>1, PointsAdded
  <2>2. SumFunction(PointsOf(BlockPointsStore, c)) \in Nat
    BY <1>1, PointsTyped
  <2>3. PointsOf(BlockPointsStore', c) = PointsOf(store, c)
    BY <1>1, <1>5
  <2> QED  BY <1>1, <1>4, <2>1, <2>2, <2>3 DEF SessionsSettled
<1>7. /\ DOMAIN rewards' = 0 .. c /\ rewards'[c] = p
      /\ \A s \in 0 .. c - 1 : rewards'[s] = rewards[s]
  <2>1. DOMAIN rewards = 0 .. c - 1
    BY DEF SessionsSettled
  <2> QED  BY <1>1, <1>2, <2>1 DEF Put
<1>8. ASSUME NEW s \in 0 .. c  PROVE Settled(s)'
  <2>1. CASE s = c
    BY <1>2, <1>5, <1>6, <1>7, <2>1 DEF Settled
  <2>2. CASE s # c
    <3>1. s \in 0 .. c - 1
      BY <1>1, <2>2
    <3>2. PointsOf(BlockPointsStore', s) = PointsOf(BlockPointsStore, s)
      BY <1>5, <2>2, PointsStay
    <3> QED  BY <1>7, <3>1, <3>2 DEF SessionsSettled, Settled
  <2> QED  BY <2>1, <2>2
<1>9. SumFunction(PointsOf(BlockPointsStore', c + 1)) \in Nat
  <2>1. \A y \in DOMAIN BlockPointsStore' : BlockPointsStore'[y] \in Nat
    BY PointsStep
  <2> QED  BY <2>1, PointsTyped
<1>10. CurrentSession' - 1 = c /\ now' - SessionStartAt' = 0 /\ now' < SessionStartAt' + SessionLength
  BY <1>1, <1>3
<1>11. SessionStartAt' = SessionLength * CurrentSession'
  BY <1>3, <1>4
<1>12. SumFunction(PointsOf(BlockPointsStore, CurrentSession))' >= now' - SessionStartAt'
  BY <1>3, <1>9, <1>10
<1>13. SessionStartAt' <= now'
  BY <1>1, <1>3
<1>14. DOMAIN rewards' = 0 .. CurrentSession' - 1 /\ \A s \in 0 .. CurrentSession' - 1 : Settled(s)'
  BY <1>7, <1>8, <1>10
<1> HIDE DEF c
<1> QED  BY <1>10, <1>11, <1>12, <1>13, <1>14 DEF SessionsSettled

\* SessionsSettled is kept.
LEMMA SettledStep ==
    ASSUME TypeOK, SessionsSettled, [Next]_vars
    PROVE  SessionsSettled'
<1>1. CASE \E a \in Author : NextBlock(a)
  BY <1>1, BlockWithin, BlockAtEnd
<1>2. CASE UNCHANGED <<now, CurrentSession, SessionStartAt, BlockPointsStore, rewards>>
  BY <1>2 DEF SessionsSettled, Settled
<1>3. CASE ~ \E a \in Author : NextBlock(a)
  <2>1. UNCHANGED <<now, CurrentSession, SessionStartAt, BlockPointsStore, rewards>>
    BY <1>3, Cases DEF history, Enlist, CollateralChanges, Resign, Validate, Declare, Elect, Chill,
          ForceAllowAffidavits, vars, block, sessions, payments
  <2> QED  BY <1>2, <2>1
<1> QED  BY <1>1, <1>3

-----------------------------------------------------------------------------
(* The theorems *)

\* The invariant holds at genesis and is kept by every call and every block.
THEOREM Inductive == Spec => []IInv
<1>1. Init => IInv
  <2> SUFFICES ASSUME Init PROVE IInv
    OBVIOUS
  <2>1. \A x : x \notin DOMAIN Nothing
    BY DEF Nothing
  <2>2. TypeOK
    <3>1. AllowAffidavits \in BOOLEAN
      BY DEF Init
    <3> QED  BY <2>1, <3>1 DEF Init, TypeOK
  <2>3. EntriesToCome /\ RotatedHasDeclared
    BY <2>1 DEF Init, EntriesToCome, RotatedHasDeclared
  <2>4. CandidatesKeepKey /\ ElectedSinceStart
    <3>1. candidates = {}
      BY <2>1 DEF Init, candidates, HasAffidavit
    <3> QED  BY <3>1 DEF Init, CandidatesKeepKey, ElectedSinceStart
  <2>5. ElectionCurrent /\ ElectedKeepsKey
    BY <2>1 DEF Init, ElectionCurrent, RunnerIsCandidate, RevealedAreCandidates, ElectedKeepsKey
  <2> QED  BY <2>2, <2>3, <2>4, <2>5 DEF IInv
<1>2. IInv /\ [Next]_vars => IInv'
  <2> SUFFICES ASSUME TypeOK, EntriesToCome, RotatedHasDeclared, CandidatesKeepKey,
                      ElectedSinceStart, ElectionCurrent, ElectedKeepsKey, [Next]_vars
               PROVE  IInv'
    BY DEF IInv
  <2> QED  BY TypeStep, EntriesStep, RotatedStep, ElectedStep, CurrentStep, KeysStep DEF IInv
<1> QED  BY <1>1, <1>2, PTL DEF Spec

\* Storage stays within its types.
THEOREM TypeCorrect == Spec => []TypeOK
<1>1. IInv => TypeOK
  BY DEF IInv
<1> QED  BY <1>1, Inductive, PTL

\* Whoever runs the election of a session is a candidate in it, and whom it
\* reveals are candidates of this session, whatever was elected before.
THEOREM ElectionsAreCurrent == Spec => []ElectionCurrent
<1>1. IInv => ElectionCurrent
  BY DEF IInv
<1> QED  BY <1>1, Inductive, PTL

\* No call takes from an author who was elected in time the key by which it
\* can be a candidate again, but for another author's declaration that names
\* that very key.
THEOREM ElectedKeepTheirKey == Spec => []ElectedKeepsKey
<1>1. IInv => ElectedKeepsKey
  BY DEF IInv
<1> QED  BY <1>1, Inductive, PTL

\* Every session that has ended was paid by all the points ever recorded for
\* it, never more than the payout, and to the unit where the payees are few
\* enough for the fixed-point numbers in which SharesPay holds their shares.
PaidByPoints ==
    \A s \in 0 .. CurrentSession - 1 :
        LET points == PointsOf(BlockPointsStore, s)
        IN  /\ rewards[s] \in SharesPay(points)
            /\ SumFunction(points) >= SessionLength
            /\ SumFunction(rewards[s]) <= Payout
            /\ Cardinality(DOMAIN points) * Payout <= Fixed => SumFunction(rewards[s]) = Payout

\* end_session pays by all the points of a session, as on_initialize adds that
\* of the last block before it and new_session those of a runner to a session
\* to come; the two roundings of SharesPay never pay too much.
THEOREM SessionsArePaid == Spec => []PaidByPoints
<1>1. Init => SessionsSettled
  <2> SUFFICES ASSUME Init PROVE SessionsSettled
    OBVIOUS
  <2>1. SessionLength \in Nat \ {0} /\ SessionLength * 0 = 0
    BY ChainAssumption, SMT
  <2>2. DOMAIN Nothing = {} /\ 0 .. 0 - 1 = {}
    BY SMT DEF Nothing
  <2>3. SumFunction(PointsOf(Nothing, 0)) \in Nat
    BY <2>2, PointsTyped
  <2> QED  BY <2>1, <2>2, <2>3 DEF Init, SessionsSettled
<1>2. TypeOK /\ SessionsSettled /\ [Next]_vars => SessionsSettled'
  BY SettledStep
<1>3. TypeOK /\ SessionsSettled => PaidByPoints
  <2> SUFFICES ASSUME TypeOK, SessionsSettled, NEW s \in 0 .. CurrentSession - 1
               PROVE  LET points == PointsOf(BlockPointsStore, s)
                      IN  /\ rewards[s] \in SharesPay(points)
                          /\ SumFunction(points) >= SessionLength
                          /\ SumFunction(rewards[s]) <= Payout
                          /\ Cardinality(DOMAIN points) * Payout <= Fixed
                                => SumFunction(rewards[s]) = Payout
    BY DEF PaidByPoints
  <2>1. /\ rewards[s] \in SharesPay(PointsOf(BlockPointsStore, s))
        /\ SumFunction(PointsOf(BlockPointsStore, s)) >= SessionLength
    BY DEF SessionsSettled, Settled
  <2>2. /\ IsFiniteSet(DOMAIN PointsOf(BlockPointsStore, s))
        /\ \A a \in DOMAIN PointsOf(BlockPointsStore, s) : PointsOf(BlockPointsStore, s)[a] \in Nat
        /\ SumFunction(PointsOf(BlockPointsStore, s)) \in Nat
    BY PointsTyped DEF TypeOK
  <2>3. SumFunction(PointsOf(BlockPointsStore, s)) # 0
    BY <2>1, <2>2, ChainAssumption
  <2> QED  BY <2>1, <2>2, <2>3, SharesSettle
<1> QED  BY <1>1, <1>2, <1>3, TypeCorrect, PTL DEF Spec

\* No point and no unit is lost: SettledInFull, for every payout and every
\* number of authors that DIV admits to one unit each at their rounding.
THEOREM EverySessionSettled ==
    ASSUME Cardinality(Author) * Payout <= Fixed
    PROVE  Spec => []SettledInFull
<1>1. TypeOK /\ PaidByPoints => SettledInFull
  <2> SUFFICES ASSUME TypeOK, PaidByPoints, NEW s \in 0 .. CurrentSession - 1
               PROVE  Cardinality(DOMAIN PointsOf(BlockPointsStore, s)) * Payout <= Fixed
    BY DEF SettledInFull, PaidByPoints
  <2>1. DOMAIN PointsOf(BlockPointsStore, s) \subseteq Author
    BY DEF PointsOf
  <2>2. PICK n \in Nat, m \in Nat :
           n = Cardinality(DOMAIN PointsOf(BlockPointsStore, s)) /\ m = Cardinality(Author) /\ n <= m
    BY <2>1, FiniteAssumption, FS_Subset, FS_CardinalityType
  <2>3. n * Payout <= m * Payout /\ n * Payout \in Nat /\ m * Payout \in Nat
    BY <2>2, ChainAssumption, Z3
  <2> QED  BY <2>2, <2>3, ChainAssumption
<1> QED  BY <1>1, TypeCorrect, SessionsArePaid, PTL

=============================================================================
