---------------------------- MODULE ChainManager ----------------------------
(***************************************************************************)
(* pallet-chain-manager on chain: sessions, the affidavits by which        *)
(* authors become candidates, the elections that any candidate may run in  *)
(* a block it authors, the points of block authors and election runners,   *)
(* and the rewards they turn into.  pallet-session rotates sessions of     *)
(* SessionLength blocks: it ends session s, starts s + 1 with the queued   *)
(* validators and then asks for the validators of s + 2.                   *)
(*                                                                         *)
(* The role of an author is what pallet-authors says of it: available,     *)
(* enrolled without enough collateral, or resigned (module Authors).  A    *)
(* call that fails is no step.                                             *)
(***************************************************************************)
EXTENDS Integers, FiniteSets, Functions

CONSTANTS Author,
          Keys,             \* affidavit keys; anyone may name any of them
          Weights,          \* what the backing of an author may amount to
          SessionLength,    \* the period of the sessions, in blocks
          Whole,            \* the denominator of Duration
          AffidavitBeginsAt, AffidavitEndsAt, ElectionBeginsAt,
          MinElected, MaxElected,
          ElectionRunnerPoints,
          Payout,           \* what a session pays
          Fixed,            \* the denominator of fixed-point numbers
          MaxBlock          \* bound: the last block of a behaviour

ASSUME ChainAssumption ==
    /\ Weights \subseteq Nat
    /\ ElectionRunnerPoints \in Nat
    /\ SessionLength \in Nat \ {0}
    /\ Whole \in Nat \ {0}
    /\ AffidavitBeginsAt \in 0 .. Whole
    /\ AffidavitEndsAt \in 0 .. Whole
    /\ ElectionBeginsAt \in 0 .. Whole
    /\ AffidavitBeginsAt < AffidavitEndsAt
    /\ MinElected \in Nat \ {0}
    /\ MaxElected \in Nat /\ MinElected <= MaxElected
    /\ Payout \in Nat \ {0}
    /\ Fixed \in Nat /\ Fixed > Payout
    /\ MaxBlock \in Nat

ASSUME FiniteAssumption == IsFiniteSet(Author)

VARIABLES
    now, author,            \* the block and who authors it
    CurrentSession, SessionStartAt,
    validators, queued,     \* pallet-session: of this session, of the next
    role,
    AllowAffidavits,
    AffidavitKeys,          \* <<session, key>> -> author, of sessions to come
    AuthorAffidavits,       \* <<session, author>> -> weight, of sessions to come
    Elected,                \* those elected in block RecentElectedOn
    RecentElectedOn,
    ElectsPreparedBy,       \* session -> who ran the election
    BlockPointsStore,       \* <<session, author>> -> points
    rewards,                \* session -> what its authors were rewarded with
    supplanted              \* the authors whose rotated key another one has since rotated to

vars == <<now, author, CurrentSession, SessionStartAt, validators, queued, role,
          AllowAffidavits, AffidavitKeys, AuthorAffidavits,
          Elected, RecentElectedOn, ElectsPreparedBy, BlockPointsStore, rewards, supplanted>>

block    == <<now, author>>
sessions == <<CurrentSession, SessionStartAt, validators, queued>>
election == <<Elected, RecentElectedOn, ElectsPreparedBy>>
payments == <<BlockPointsStore, rewards>>
history  == <<supplanted>>

-----------------------------------------------------------------------------
(* Helpers *)

Put(f, x, v) == [y \in DOMAIN f \cup {x} |-> IF y = x THEN v ELSE f[y]]

Nothing == [x \in {} |-> 0]

mul_floor(p, x) == (p * x) \div Whole

next_session      == CurrentSession + 1
next_afdt_session == CurrentSession + 2

\* compute_affidavit_window: both ends belong to it.
start_affidavit == SessionStartAt + mul_floor(AffidavitBeginsAt, SessionLength)
end_affidavit   == SessionStartAt + mul_floor(AffidavitEndsAt, SessionLength)

\* compute_election_window.
start_election ==
    start_affidavit + mul_floor(ElectionBeginsAt, end_affidavit - start_affidavit)

\* Whoever the latest election chose, in whichever session that was.
reveal == Elected

OwnedBy(s, k, a) == <<s, k>> \in DOMAIN AffidavitKeys /\ AffidavitKeys[<<s, k>>] = a

HasAffidavit(s, a) == <<s, a>> \in DOMAIN AuthorAffidavits

-----------------------------------------------------------------------------
(* Becoming a candidate *)

\* validate: an author registers a key, its own or not, for the next session.
Validate(a, k) ==
    /\ role[a] = "available"
    /\ AffidavitKeys' = Put(AffidavitKeys, <<next_session, k>>, a)
    /\ UNCHANGED <<block, sessions, role, AllowAffidavits, AuthorAffidavits, election, payments, history>>

can_submit_affidavit(k) ==
    /\ AllowAffidavits
    /\ <<next_session, k>> \in DOMAIN AffidavitKeys
    /\ role[AffidavitKeys[<<next_session, k>>]] = "available"
    /\ start_affidavit <= now
    /\ now <= end_affidavit

\* declare: the affidavit for the next session, and a key for the one after,
\* whoever may have rotated to that key before.
Declare(k, rotate, w) ==
    LET a    == AffidavitKeys[<<next_session, k>>]
        next == <<next_afdt_session, rotate>>
        out  == IF next \in DOMAIN AffidavitKeys THEN {AffidavitKeys[next]} ELSE {}
    IN
    /\ can_submit_affidavit(k)
    /\ AuthorAffidavits' = Put(AuthorAffidavits, <<next_session, a>>, w)
    /\ AffidavitKeys' = Put(AffidavitKeys, next, a)
    /\ supplanted' = (supplanted \cup out) \ {a}
    /\ UNCHANGED <<block, sessions, role, AllowAffidavits, election, payments>>

\* Mutant: an author who was elected may chill.
can_chill_elected(a, k) ==
    /\ role[a] # "none"
    /\ a \notin validators
    /\ \/ OwnedBy(next_afdt_session, k, a) /\ now >= end_affidavit
       \/ OwnedBy(next_session, k, a) /\ ~ HasAffidavit(next_session, a)

\* can_chill: with the rotated key only once the window is over and the author
\* was not elected, with the key itself only if no affidavit was declared.
can_chill(a, k) ==
    /\ role[a] # "none"
    /\ a \notin validators
    /\ \/ /\ OwnedBy(next_afdt_session, k, a)
          /\ now >= end_affidavit
          /\ a \notin reveal
       \/ /\ <<next_afdt_session, k>> \notin DOMAIN AffidavitKeys
          /\ OwnedBy(next_session, k, a)
          /\ ~ HasAffidavit(next_session, a)

\* chill.
Chill(a, k) ==
    LET s == IF <<next_afdt_session, k>> \in DOMAIN AffidavitKeys
             THEN next_afdt_session ELSE next_session
    IN
    /\ can_chill(a, k)
    /\ AffidavitKeys' = Restrict(AffidavitKeys, DOMAIN AffidavitKeys \ {<<s, k>>})
    /\ UNCHANGED <<block, sessions, role, AllowAffidavits, AuthorAffidavits, election, payments, history>>

-----------------------------------------------------------------------------
(* The election *)

\* prepare_candidates.
candidates == {a \in Author : HasAffidavit(next_session, a)}

\* TopDownFairModel and store with ForceMaxElected: the candidates by their
\* backing, cut off at MaxElected; equal ones in either order.
TopDown(S) ==
    {T \in SUBSET S :
        /\ Cardinality(T) = IF Cardinality(S) < MaxElected THEN Cardinality(S) ELSE MaxElected
        /\ \A a \in T, b \in S \ T :
              AuthorAffidavits[<<next_session, a>>] >= AuthorAffidavits[<<next_session, b>>]}

can_process_election ==
    /\ start_affidavit < end_affidavit
    /\ start_affidavit <= now
    /\ start_election <= now
    /\ now <= end_affidavit

\* Mutant: the election is run with the key of the affidavit itself.
ElectByDeclaredKey(k) ==
    /\ OwnedBy(next_session, k, author)
    /\ can_process_election
    /\ Cardinality(candidates) >= MinElected
    /\ \E T \in TopDown(candidates) :
          Elected' = T \cup (IF RecentElectedOn = now THEN Elected ELSE {})
    /\ RecentElectedOn' = now
    /\ ElectsPreparedBy' = Put(ElectsPreparedBy, next_session, author)
    /\ UNCHANGED <<block, sessions, role, AllowAffidavits, AffidavitKeys, AuthorAffidavits, payments, history>>

\* elect, by the author of the block, who has declared and rotated its key.  A
\* second election in one block adds to the first.
Elect(k) ==
    /\ OwnedBy(next_afdt_session, k, author)
    /\ can_process_election
    /\ Cardinality(candidates) >= MinElected
    /\ \E T \in TopDown(candidates) :
          Elected' = T \cup (IF RecentElectedOn = now THEN Elected ELSE {})
    /\ RecentElectedOn' = now
    /\ ElectsPreparedBy' = Put(ElectsPreparedBy, next_session, author)
    /\ UNCHANGED <<block, sessions, role, AllowAffidavits, AffidavitKeys, AuthorAffidavits, payments, history>>

-----------------------------------------------------------------------------
(* Roles *)

Enlist(a) ==
    /\ role[a] \in {"none", "resigned"}
    /\ role' = [role EXCEPT ![a] = "available"]
    /\ UNCHANGED <<block, sessions, AllowAffidavits, AffidavitKeys, AuthorAffidavits, election, payments, history>>

\* A penalty takes the collateral below the minimum, or it is filled up again.
CollateralChanges(a) ==
    /\ role[a] \in {"available", "short"}
    /\ role' = [role EXCEPT ![a] = IF @ = "short" THEN "available" ELSE "short"]
    /\ UNCHANGED <<block, sessions, AllowAffidavits, AffidavitKeys, AuthorAffidavits, election, payments, history>>

is_idle(a) ==
    \/ role[a] = "none"
    \/ /\ a \notin validators
       /\ \/ now < start_affidavit
          \/ /\ now < end_affidavit => ~ HasAffidavit(next_session, a)
             /\ now > end_affidavit => a \notin reveal

\* An author resigns when the chain manager finds it idle.
Resign(a) ==
    /\ role[a] \in {"available", "short"}
    /\ is_idle(a)
    /\ role' = [role EXCEPT ![a] = "resigned"]
    /\ UNCHANGED <<block, sessions, AllowAffidavits, AffidavitKeys, AuthorAffidavits, election, payments, history>>

-----------------------------------------------------------------------------
(* Blocks and sessions *)

PointsOf(store, s) == [a \in {b \in Author : <<s, b>> \in DOMAIN store} |-> store[<<s, a>>]]

WithPoints(store, s, a, n) ==
    Put(store, <<s, a>>, (IF <<s, a>> \in DOMAIN store THEN store[<<s, a>>] ELSE 0) + n)

\* SharesPay: everybody the whole part of its share, the rest in units to those
\* with the largest remainders; equal ones in either order.
SharesPay(points) ==
    LET ids     == DOMAIN points
        total   == SumFunction(points)
        exact   == [a \in ids |-> Payout * ((points[a] * Fixed) \div total)]
        whole   == [a \in ids |-> exact[a] \div Fixed]
        left    == Payout - SumFunction(whole)
        extra   == IF left < Cardinality(ids) THEN left ELSE Cardinality(ids)
    IN  IF ids = {} \/ total = 0 THEN {Nothing}
        ELSE {[a \in ids |-> whole[a] + (IF a \in L THEN 1 ELSE 0)] :
                 L \in {M \in SUBSET ids :
                          /\ Cardinality(M) = extra
                          /\ \A a \in M, b \in ids \ M : exact[a] % Fixed >= exact[b] % Fixed}}

\* new_session: what the latest election revealed, and the points of its
\* runner; without any election pallet-session keeps the validators.
new_session_validators(current) == IF reveal = {} THEN current ELSE reveal

new_session_points(store, s) ==
    IF reveal # {} /\ s + 1 \in DOMAIN ElectsPreparedBy
    THEN WithPoints(store, s, ElectsPreparedBy[s + 1], ElectionRunnerPoints)
    ELSE store

\* What is kept of the entries by session: nothing reads those of session s or
\* of an earlier one again.
ToCome(f, s) == Restrict(f, {y \in DOMAIN f : y[1] > s})

\* Mutant: the session ends before the point of its last block is added.
NextBlockPaidFirst(a) ==
    LET s   == CurrentSession
        due == (now + 1) % SessionLength = 0
        store == WithPoints(BlockPointsStore, s, a, 1)
    IN
    /\ now < MaxBlock
    /\ a \in validators
    /\ now' = now + 1
    /\ author' = a
    /\ IF due
       THEN /\ \E p \in SharesPay(PointsOf(BlockPointsStore, s)) : rewards' = Put(rewards, s, p)
            /\ CurrentSession' = s + 1
            /\ SessionStartAt' = now + 1
            /\ validators' = queued
            /\ queued' = new_session_validators(queued)
            /\ BlockPointsStore' = new_session_points(store, s + 1)
            /\ AffidavitKeys' = ToCome(AffidavitKeys, s + 1)
            /\ AuthorAffidavits' = ToCome(AuthorAffidavits, s + 1)
            /\ supplanted' = {}
       ELSE /\ BlockPointsStore' = store
            /\ UNCHANGED <<sessions, rewards, AffidavitKeys, AuthorAffidavits, history>>
    /\ UNCHANGED <<role, AllowAffidavits, election>>

\* The hooks of the next block: on_initialize adds the point of its author; if
\* the session is over, pallet-session then calls end_session, start_session
\* and new_session.
NextBlock(a) ==
    LET s     == CurrentSession
        due   == (now + 1) % SessionLength = 0
        store == WithPoints(BlockPointsStore, s, a, 1)
    IN
    /\ now < MaxBlock
    /\ a \in validators
    /\ now' = now + 1
    /\ author' = a
    /\ IF due
       THEN /\ \E p \in SharesPay(PointsOf(store, s)) : rewards' = Put(rewards, s, p)
            /\ CurrentSession' = s + 1
            /\ SessionStartAt' = now + 1
            /\ validators' = queued
            /\ queued' = new_session_validators(queued)
            /\ BlockPointsStore' = new_session_points(store, s + 1)
            /\ AffidavitKeys' = ToCome(AffidavitKeys, s + 1)
            /\ AuthorAffidavits' = ToCome(AuthorAffidavits, s + 1)
            /\ supplanted' = {}
       ELSE /\ BlockPointsStore' = store
            /\ UNCHANGED <<sessions, rewards, AffidavitKeys, AuthorAffidavits, history>>
    /\ UNCHANGED <<role, AllowAffidavits, election>>

\* force_genesis_config, of the switch that admits affidavits.
ForceAllowAffidavits ==
    /\ AllowAffidavits' = ~ AllowAffidavits
    /\ UNCHANGED <<block, sessions, role, AffidavitKeys, AuthorAffidavits, election, payments, history>>

-----------------------------------------------------------------------------

\* Genesis: some authors are enlisted and validate from the start.
Init ==
    /\ now = 0
    /\ CurrentSession = 0
    /\ SessionStartAt = 0
    /\ validators \in SUBSET Author \ {{}}
    /\ author \in validators
    /\ queued = validators
    /\ role = [a \in Author |-> IF a \in validators THEN "available" ELSE "none"]
    /\ AllowAffidavits = TRUE
    /\ AffidavitKeys = Nothing
    /\ AuthorAffidavits = Nothing
    /\ Elected = {}
    /\ RecentElectedOn = 0
    /\ ElectsPreparedBy = Nothing
    /\ BlockPointsStore = Nothing
    /\ rewards = Nothing
    /\ supplanted = {}

Next ==
    \/ \E a \in Author :
        \/ NextBlock(a)
        \/ Enlist(a)
        \/ CollateralChanges(a)
        \/ Resign(a)
        \/ \E k \in Keys : Validate(a, k) \/ Chill(a, k)
    \/ \E k \in Keys :
        \/ \E rotate \in Keys, w \in Weights : Declare(k, rotate, w)
        \/ Elect(k)
    \/ ForceAllowAffidavits

Spec == Init /\ [][Next]_vars

-----------------------------------------------------------------------------
(* Properties *)

\* Storage stays within its types.
TypeOK ==
    /\ now \in Nat /\ CurrentSession \in Nat /\ SessionStartAt \in Nat
    /\ RecentElectedOn \in Nat
    /\ author \in Author
    /\ validators \subseteq Author /\ validators # {}
    /\ queued \subseteq Author /\ queued # {}
    /\ Elected \subseteq Author
    /\ role \in [Author -> {"none", "available", "short", "resigned"}]
    /\ AllowAffidavits \in BOOLEAN
    /\ \A y \in DOMAIN AffidavitKeys : AffidavitKeys[y] \in Author
    /\ \A y \in DOMAIN AuthorAffidavits : AuthorAffidavits[y] \in Weights
    /\ \A s \in DOMAIN ElectsPreparedBy : ElectsPreparedBy[s] \in Author
    /\ DOMAIN BlockPointsStore \subseteq Nat \X Author
    /\ \A y \in DOMAIN BlockPointsStore : BlockPointsStore[y] \in Nat
    /\ supplanted \subseteq Author

\* Whoever runs an election is a candidate in it: elect only asks for the key
\* of the session after next, which is registered by the affidavit that makes
\* an author a candidate and by nothing else, for that author, whatever keys are
\* left over from earlier sessions and whoever has named them.
RunnerIsCandidate ==
    next_session \in DOMAIN ElectsPreparedBy =>
        HasAffidavit(next_session, ElectsPreparedBy[next_session])

\* Several candidates may run the election of a session, one after the other
\* or in one block, and a session may pass without one.  Once it was run, what
\* is revealed until the session ends are candidates of this session and not
\* the authors of an earlier election, although nothing ever clears those.
RevealedAreCandidates ==
    next_session \in DOMAIN ElectsPreparedBy =>
        /\ reveal # {}
        /\ reveal \subseteq candidates
        /\ RecentElectedOn >= SessionStartAt

\* An election that was run for the coming session is of this session, in who
\* ran it and in whom it reveals.
ElectionCurrent == RunnerIsCandidate /\ RevealedAreCandidates

\* An author elected before the last block of the window keeps a rotated key
\* by which it can be a candidate again, unless another author has declared that
\* very key, as declare does not ask whose it is: nothing else takes the key,
\* although chill removes those of authors who were not elected, keys change hands,
\* an election may be run again and the affidavit be declared again.
ElectedKeepsKey ==
    (next_session \in DOMAIN ElectsPreparedBy /\ RecentElectedOn < end_affidavit) =>
        \A a \in reveal \ supplanted : \E k \in Keys : OwnedBy(next_afdt_session, k, a)

\* Each session that has ended was paid by all the points that were ever
\* recorded for it, and exactly Payout: a point that is added after the
\* session was settled, or the part of the payout that rounding takes from
\* everybody, would be lost.
SettledInFull ==
    \A s \in 0 .. CurrentSession - 1 :
        LET points == PointsOf(BlockPointsStore, s)
        IN  /\ rewards[s] \in SharesPay(points)
            /\ SumFunction(points) >= SessionLength
            /\ SumFunction(rewards[s]) = Payout

=============================================================================
