-------------------------- MODULE CommitmentProofs --------------------------
(***************************************************************************)
(* The invariants of Commitment, CommitIndex and CommitPool for every      *)
(* number of proprietors, reasons, digests, variants, indexes and pools,   *)
(* every amount and every precision and width of the balances behind the   *)
(* digests.  The parts:                                                    *)
(*   direct commitments: CoreInv, what a step about a digest keeps of the  *)
(*      books whatever else holds receipts of it;                          *)
(*   indexes: a step changes a set of digests and of entries at once;      *)
(*   quotes: what is promised from a digest is covered by it;              *)
(*   pools: a step withdraws a pool's slots and funds them again, and what *)
(*      is promised from a pool is covered by its slots.                   *)
(***************************************************************************)
EXTENDS CommitmentInvariants, ShareBalanceTheorems, SumTheorems, TLAPS

-----------------------------------------------------------------------------
(* What direct commitments see *)

LEMMA InfosIncluded ==
    ASSUME NEW o, OthersTyped(o)
    PROVE  CommitInfos \subseteq CoreInfos(o)
  BY DEF OthersTyped, CommitInfos, CoreInfos

-----------------------------------------------------------------------------
(* The totals of digests and of commitments *)

LEMMA PositionsFinite == IsFiniteSet(Positions)
  BY CommitmentAssumption, FS_Interval DEF Positions

LEMMA ValuesTyped ==
    ASSUME NEW info \in [Positions -> Balances]
    PROVE  Values(info) \in Nat
<1> DEFINE f == [p \in Positions |-> TotalValue(info[p])]
<1>1. DOMAIN f = Positions /\ \A p \in Positions : f[p] \in Nat
  BY ShareBalanceAssumption DEF TotalValue, Balances
<1>2. Values(info) = SumFunction(f)
  BY DEF Values
<1> HIDE DEF f
<1> QED  BY <1>1, <1>2, PositionsFinite, SumOfNats

\* The value of a digest moves with that of the variant that is replaced.
LEMMA ValuesPut ==
    ASSUME NEW info \in [Positions -> Balances], NEW v \in Positions, NEW c \in Balances
    PROVE  /\ [info EXCEPT ![v] = c] \in [Positions -> Balances]
           /\ Values([info EXCEPT ![v] = c]) = Values(info) + c.effective - info[v].effective
<1> DEFINE new == [info EXCEPT ![v] = c]
           f == [p \in Positions |-> TotalValue(info[p])]
           g == [p \in Positions |-> TotalValue(new[p])]
<1>1. new \in [Positions -> Balances] /\ new[v] = c /\ \A p \in Positions \ {v} : new[p] = info[p]
  OBVIOUS
<1> HIDE DEF new
<1>2. /\ DOMAIN f = Positions /\ DOMAIN g = Positions
      /\ f[v] = info[v].effective /\ g[v] = c.effective
      /\ \A p \in Positions \ {v} : g[p] = f[p]
  BY <1>1 DEF TotalValue
<1>3. (\A p \in Positions : f[p] \in Int) /\ c.effective \in Int
  BY ShareBalanceAssumption DEF TotalValue, Balances
<1>4. Values(info) = SumFunction(f) /\ Values(new) = SumFunction(g)
  BY DEF Values
<1> HIDE DEF f, g
<1>5. SumFunction(g) = SumFunction(f) + c.effective - f[v]
  BY <1>2, <1>3, PositionsFinite, SumMoves
<1> QED  BY <1>1, <1>2, <1>4, <1>5 DEF new

\* Every digest, also one that does not exist yet, is made of sound balances.
LEMMA InfoSound ==
    ASSUME NEW o, CoreTypes(o), BalancesSound, NEW r \in Reasons, NEW d \in Digests
    PROVE  /\ DigestInfo(r, d) \in [Positions -> Balances]
           /\ \A v \in Positions : SoundBalance(DigestInfo(r, d)[v])
<1>1. CASE digest_exists(r, d)
  <2>1. <<r, d>> \in DOMAIN DigestMap /\ DigestInfo(r, d) = DigestMap[<<r, d>>]
    BY <1>1 DEF digest_exists, DigestInfo
  <2> QED  BY <2>1 DEF CoreTypes, BalancesSound
<1>2. CASE ~ digest_exists(r, d)
  <2>1. DigestInfo(r, d) = [p \in Positions |-> FreshBalance]
    BY <1>2 DEF DigestInfo, NoDigestInfo
  <2>2. FreshBalance \in Balances
    BY ShareBalanceAssumption DEF FreshBalance, Balances
  <2>3. SoundBalance(FreshBalance)
    BY ShareBalanceAssumption DEF FreshBalance, SoundBalance
  <2> QED  BY <2>1, <2>2, <2>3
<1> QED  BY <1>1, <1>2

LEMMA InsertDigest ==
    ASSUME NEW o, CoreTypes(o), BalancesSound, NEW r \in Reasons, NEW d \in Digests,
           NEW info \in [Positions -> Balances], \A v \in Positions : SoundBalance(info[v]),
           DigestMap' = Insert(DigestMap, <<r, d>>, info)
    PROVE  /\ DigestPut(r, d, info)
           /\ DOMAIN DigestMap' = DOMAIN DigestMap \cup {<<r, d>>}
           /\ DOMAIN DigestMap' \subseteq Reasons \X Digests
           /\ \A x \in DOMAIN DigestMap' : DigestMap'[x] \in [Positions -> Balances]
           /\ BalancesSound'
<1>1. /\ DOMAIN DigestMap' = DOMAIN DigestMap \cup {<<r, d>>}
      /\ DigestMap'[<<r, d>>] = info
      /\ \A x \in DOMAIN DigestMap : x # <<r, d>> => DigestMap'[x] = DigestMap[x]
  BY DEF Insert
<1>2. DigestInfo(r, d)' = info
  BY <1>1 DEF DigestInfo, digest_exists
<1>3. ASSUME NEW s \in Reasons, NEW e \in Digests, s # r \/ e # d
      PROVE  DigestInfo(s, e)' = DigestInfo(s, e)
  <2>1. <<s, e>> # <<r, d>>
    BY <1>3
  <2>2. <<s, e>> \in DOMAIN DigestMap' <=> <<s, e>> \in DOMAIN DigestMap
    BY <1>1, <2>1
  <2> QED  BY <1>1, <2>1, <2>2 DEF DigestInfo, digest_exists, NoDigestInfo
<1>4. \A x \in DOMAIN DigestMap' : /\ DigestMap'[x] \in [Positions -> Balances]
                                   /\ \A v \in Positions : SoundBalance(DigestMap'[x][v])
  <2> SUFFICES ASSUME NEW x \in DOMAIN DigestMap'
               PROVE  /\ DigestMap'[x] \in [Positions -> Balances]
                      /\ \A v \in Positions : SoundBalance(DigestMap'[x][v])
    OBVIOUS
  <2>1. CASE x = <<r, d>>
    BY <1>1, <2>1
  <2>2. CASE x # <<r, d>>
    <3>1. x \in DOMAIN DigestMap /\ DigestMap'[x] = DigestMap[x]
      BY <1>1, <2>2
    <3> QED  BY <3>1 DEF CoreTypes, BalancesSound
  <2> QED  BY <2>1, <2>2
<1>5. DOMAIN DigestMap' \subseteq Reasons \X Digests
  BY <1>1 DEF CoreTypes
<1> QED  BY <1>1, <1>2, <1>3, <1>4, <1>5 DEF DigestPut, BalancesSound

\* The totals move with the value of the digest that changes.
LEMMA DigestTotals ==
    ASSUME NEW o, CoreTypes(o), BalancesSound, NEW r \in Reasons, NEW d \in Digests,
           NEW info \in [Positions -> Balances], DigestPut(r, d, info),
           NEW k \in Int, Values(info) = Values(DigestInfo(r, d)) + k
    PROVE  /\ \A s \in Reasons : /\ DigestValueOf(s) \in Int
                                 /\ DigestValueOf(s)' = DigestValueOf(s) + (IF s = r THEN k ELSE 0)
           /\ TotalDigestValue \in Int
           /\ TotalDigestValue' = TotalDigestValue + k
<1> DEFINE V == [s \in Reasons |-> [e \in Digests |-> Values(DigestInfo(s, e))]]
           U == [s \in Reasons |-> [e \in Digests |-> Values(DigestInfo(s, e)')]]
           f == [s \in Reasons |-> SumFunction(V[s])]
           g == [s \in Reasons |-> SumFunction(U[s])]
           x == V[r][d]
           v == Values(info)
<1>1. \A s \in Reasons, e \in Digests : Values(DigestInfo(s, e)) \in Nat
  BY InfoSound, ValuesTyped
<1>2. v \in Int /\ x \in Int /\ v = x + k
  BY <1>1, ValuesTyped
<1>3. U[r][d] = v /\ DOMAIN U[r] = Digests
  BY DEF DigestPut
<1>4. \A e \in Digests \ {d} : U[r][e] = V[r][e]
  <2>1. ASSUME NEW e \in Digests \ {d}
        PROVE  DigestInfo(r, e)' = DigestInfo(r, e)
    BY DEF DigestPut
  <2> QED  BY <2>1
<1>5. \A s \in Reasons \ {r} : U[s] = V[s]
  <2>1. ASSUME NEW s \in Reasons \ {r}, NEW e \in Digests
        PROVE  DigestInfo(s, e)' = DigestInfo(s, e)
    BY DEF DigestPut
  <2> QED  BY <2>1
<1>6. \A s \in Reasons : DOMAIN V[s] = Digests /\ \A e \in Digests : V[s][e] \in Int
  BY <1>1
<1>7. \A s \in Reasons : DigestValueOf(s) = f[s] /\ DigestValueOf(s)' = g[s]
  BY DEF DigestValueOf
<1>8. TotalDigestValue = SumFunction(f) /\ TotalDigestValue' = SumFunction(g)
  BY DEF TotalDigestValue, DigestValueOf
<1>9. /\ DOMAIN f = Reasons /\ \A s \in Reasons : f[s] = SumFunction(V[s])
      /\ DOMAIN g = Reasons /\ \A s \in Reasons : g[s] = SumFunction(U[s])
  OBVIOUS
<1> HIDE DEF V, U, f, g, v, x
<1>10. ASSUME NEW s \in Reasons
       PROVE  f[s] \in Int
  BY <1>6, <1>9, FiniteAssumption, SumTyped DEF SumFunction
<1>11. \A s \in Reasons \ {r} : g[s] = f[s]
  BY <1>5, <1>9
<1>12. g[r] = f[r] + k
  <2> DEFINE old == V[r]
             new == U[r]
  <2>1. /\ DOMAIN old = Digests /\ DOMAIN new = Digests /\ new[d] = v /\ old[d] = x
        /\ \A e \in Digests : old[e] \in Int
        /\ \A e \in Digests \ {d} : new[e] = old[e]
    BY <1>3, <1>4, <1>6 DEF x
  <2>2. f[r] = SumFunction(old) /\ g[r] = SumFunction(new)
    BY <1>9
  <2> HIDE DEF old, new
  <2>3. SumFunction(new) = SumFunction(old) + v - old[d]
    BY <1>2, <2>1, FiniteAssumption, SumMoves
  <2>4. SumFunction(old) \in Int
    BY <1>10, <2>2
  <2> QED  BY <1>2, <2>1, <2>2, <2>3, <2>4
<1> DEFINE y == f[r] + k
<1>13. y \in Int /\ f[r] \in Int /\ g[r] = y
  BY <1>10, <1>12
<1> HIDE DEF y
<1>14. SumFunction(f) \in Int /\ SumFunction(g) = SumFunction(f) + y - f[r]
  BY <1>9, <1>10, <1>11, <1>13, FiniteAssumption, SumMoves
<1>15. SumFunction(g) = SumFunction(f) + k
  <2> DEFINE a == SumFunction(f)
             b == f[r]
  <2>1. a \in Int /\ b \in Int /\ y = b + k /\ SumFunction(g) = a + y - b
    BY <1>13, <1>14 DEF y
  <2> HIDE DEF a, b
  <2>2. SumFunction(g) = a + k
    BY <2>1
  <2> QED  BY <2>2 DEF a
<1>16. ASSUME NEW s \in Reasons
       PROVE  f[s] \in Int /\ g[s] = f[s] + (IF s = r THEN k ELSE 0)
  <2>1. CASE s = r
    BY <1>10, <1>12, <2>1
  <2>2. CASE s # r
    <3>1. g[s] = f[s] /\ f[s] \in Int
      BY <1>10, <1>11, <2>2
    <3> QED  BY <2>2, <3>1
  <2> QED  BY <2>1, <2>2
<1> QED  BY <1>7, <1>8, <1>14, <1>15, <1>16

\* A commitment that exists.
LEMMA CommitTyped ==
    ASSUME NEW o, CoreTypes(o), NEW w \in Who, NEW r \in Reasons, commit_exists(w, r)
    PROVE  LET c == CommitMap[<<w, r>>] IN
           /\ c.digest \in o.ids /\ c.variant \in Positions
           /\ c.commits \in Seq(Receipts) /\ Len(c.commits) \in 1 .. MaxCommits
           /\ Principals(c.commits) \in Nat /\ Shares(c.commits) \in Nat
           /\ digest_exists(r, c.digest) => c.digest \in Digests
<1>1. CommitMap[<<w, r>>] \in CoreInfos(o) /\ Len(CommitMap[<<w, r>>].commits) \in 1 .. MaxCommits
  BY DEF CoreTypes, commit_exists
<1>2. \A d : digest_exists(r, d) => d \in Digests
  BY DEF CoreTypes, digest_exists
<1> QED  BY <1>1, <1>2, ReceiptSums DEF CoreInfos

LEMMA DepositTyped ==
    ASSUME NEW o, CoreTypes(o), NEW w \in Who, NEW r \in Reasons
    PROVE  /\ DepositOf(w, r) \in Nat
           /\ \A d, v : SharesOf(w, r, d, v) \in Nat
<1>1. CASE commit_exists(w, r)
  BY <1>1, CommitTyped DEF DepositOf, SharesOf
<1>2. CASE ~ commit_exists(w, r)
  BY <1>2 DEF DepositOf, SharesOf
<1> QED  BY <1>1, <1>2

\* The sums of deposits and of shares.
LEMMA DepositSumTyped ==
    ASSUME NEW o, CoreTypes(o)
    PROVE  TotalDeposit \in Nat
<1> DEFINE f == [x \in Who \X Reasons |-> DepositOf(x[1], x[2])]
<1>1. DOMAIN f = Who \X Reasons /\ \A x \in DOMAIN f : f[x] \in Nat
  BY DepositTyped
<1>2. TotalDeposit = SumFunction(f)
  BY DEF TotalDeposit
<1> HIDE DEF f
<1> QED  BY <1>1, <1>2, FiniteAssumption, FS_Product, SumOfNats

LEMMA SharesInTyped ==
    ASSUME NEW o, CoreTypes(o), NEW r \in Reasons
    PROVE  \A d, v : SharesIn(r, d, v) \in Nat
<1> SUFFICES ASSUME NEW d, NEW v  PROVE SharesIn(r, d, v) \in Nat
  OBVIOUS
<1> DEFINE f == [w \in Who |-> SharesOf(w, r, d, v)]
<1>1. DOMAIN f = Who /\ \A w \in DOMAIN f : f[w] \in Nat
  BY DepositTyped
<1>2. SharesIn(r, d, v) = SumFunction(f)
  BY DEF SharesIn
<1> HIDE DEF f
<1> QED  BY <1>1, <1>2, FiniteAssumption, SumOfNats

LEMMA OthersDeposit ==
    ASSUME NEW w \in Who, NEW r \in Reasons, OthersKeep(w, r),
           NEW y \in Who, NEW s \in Reasons, y # w \/ s # r
    PROVE  /\ DepositOf(y, s)' = DepositOf(y, s)
           /\ \A d, v : SharesOf(y, s, d, v)' = SharesOf(y, s, d, v)
<1>1. /\ commit_exists(y, s)' <=> commit_exists(y, s)
      /\ commit_exists(y, s) => CommitMap'[<<y, s>>] = CommitMap[<<y, s>>]
  BY DEF OthersKeep
<1>2. CASE commit_exists(y, s)
  BY <1>1, <1>2 DEF DepositOf, SharesOf
<1>3. CASE ~ commit_exists(y, s)
  BY <1>1, <1>3 DEF DepositOf, SharesOf
<1> QED  BY <1>2, <1>3

LEMMA DepositTotals ==
    ASSUME NEW o, CoreTypes(o), NEW w \in Who, NEW r \in Reasons, OthersKeep(w, r),
           NEW a \in Int, DepositOf(w, r)' = a
    PROVE  /\ TotalDeposit \in Int
           /\ TotalDeposit' = TotalDeposit + a - DepositOf(w, r)
<1> DEFINE S == Who \X Reasons
           f == [x \in S |-> DepositOf(x[1], x[2])]
           g == [x \in S |-> DepositOf(x[1], x[2])']
           x == <<w, r>>
<1>1. x \in S /\ IsFiniteSet(S)
  BY FiniteAssumption, FS_Product
<1>2. \A y \in S : f[y] \in Int
  BY DepositTyped
<1>3. g[x] = a /\ f[x] = DepositOf(w, r)
  OBVIOUS
<1>4. \A y \in S \ {x} : g[y] = f[y]
  <2>1. ASSUME NEW y \in S \ {x}
        PROVE  DepositOf(y[1], y[2])' = DepositOf(y[1], y[2])
    <3>1. y[1] \in Who /\ y[2] \in Reasons /\ (y[1] # w \/ y[2] # r)
      OBVIOUS
    <3> QED  BY <3>1, OthersDeposit
  <2> QED  BY <2>1
<1>5. TotalDeposit = SumFunction(f) /\ TotalDeposit' = SumFunction(g)
  BY DEF TotalDeposit
<1>6. DOMAIN f = S /\ DOMAIN g = S
  OBVIOUS
<1> HIDE DEF f, g, S, x
<1>7. SumFunction(f) \in Int /\ SumFunction(g) = SumFunction(f) + a - f[x]
  BY <1>1, <1>2, <1>3, <1>4, <1>6, SumMoves
<1> QED  BY <1>3, <1>5, <1>7

LEMMA SharesTotals ==
    ASSUME NEW o, CoreTypes(o), NEW w \in Who, NEW r \in Reasons, OthersKeep(w, r),
           NEW s \in Reasons, NEW d, NEW v, NEW a \in Int, SharesOf(w, r, d, v)' = a
    PROVE  /\ SharesIn(s, d, v) \in Int
           /\ SharesIn(s, d, v)'
                = SharesIn(s, d, v) + (IF s = r THEN a - SharesOf(w, r, d, v) ELSE 0)
<1> DEFINE f == [y \in Who |-> SharesOf(y, s, d, v)]
           g == [y \in Who |-> SharesOf(y, s, d, v)']
           b == IF s = r THEN a ELSE f[w]
<1>1. \A y \in Who : f[y] \in Int
  BY DepositTyped
<1>2. g[w] = b /\ b \in Int
  <2>1. CASE s = r
    BY <2>1
  <2>2. CASE s # r
    <3>1. SharesOf(w, s, d, v)' = SharesOf(w, s, d, v)
      BY <2>2, OthersDeposit
    <3> QED  BY <1>1, <2>2, <3>1
  <2> QED  BY <2>1, <2>2
<1>3. \A y \in Who \ {w} : g[y] = f[y]
  <2>1. ASSUME NEW y \in Who \ {w}
        PROVE  SharesOf(y, s, d, v)' = SharesOf(y, s, d, v)
    <3>1. y \in Who /\ y # w
      OBVIOUS
    <3> QED  BY <3>1, OthersDeposit
  <2> QED  BY <2>1
<1>4. SharesIn(s, d, v) = SumFunction(f) /\ SharesIn(s, d, v)' = SumFunction(g)
  BY DEF SharesIn
<1>5. DOMAIN f = Who /\ DOMAIN g = Who /\ f[w] = SharesOf(w, s, d, v)
  OBVIOUS
<1> HIDE DEF f, g
<1>6. SumFunction(f) \in Int /\ SumFunction(g) = SumFunction(f) + b - f[w]
  <2> HIDE DEF b
  <2> QED  BY <1>1, <1>2, <1>3, <1>5, FiniteAssumption, SumMoves
<1>7. f[w] \in Int
  BY <1>1
<1>8. CASE s = r
  BY <1>4, <1>5, <1>6, <1>7, <1>8
<1>9. CASE s # r
  <2>1. SumFunction(g) = SumFunction(f) + f[w] - f[w]
    BY <1>6, <1>9
  <2> DEFINE p == SumFunction(f)
             q == f[w]
  <2>2. p \in Int /\ q \in Int /\ SumFunction(g) = p + q - q
    BY <1>6, <1>7, <2>1
  <2> HIDE DEF p, q
  <2>3. SumFunction(g) = p + 0 /\ p + 0 = p
    BY <2>2
  <2> QED  BY <1>4, <1>9, <2>2, <2>3 DEF p
<1> QED  BY <1>8, <1>9

-----------------------------------------------------------------------------
(* A step of one commitment *)

\* What the new commitment is, and what it leaves alone.
LEMMA MovesTyped ==
    ASSUME NEW o, CoreInv(o), NEW w \in Who, NEW r \in Reasons, NEW d \in Digests,
           NEW info \in [Positions -> Balances], \A v \in Positions : SoundBalance(info[v]),
           NEW k \in Int, CommitmentMoves(w, r, d, info, k)
    PROVE  CoreTypes(o)' /\ BalancesSound' /\ DirectCount'
<1>1. /\ DOMAIN DigestMap' \subseteq Reasons \X Digests
      /\ \A x \in DOMAIN DigestMap' : DigestMap'[x] \in [Positions -> Balances]
      /\ BalancesSound'
  BY InsertDigest DEF CommitmentMoves, CoreInv
<1>2. ASSUME NEW x \in DOMAIN CommitMap'
      PROVE  /\ CommitMap'[x] \in CoreInfos(o)
             /\ Len(CommitMap'[x].commits) \in 1 .. MaxCommits
             /\ CommitMap'[x].digest \in Digests =>
                   \A n \in DOMAIN CommitMap'[x].commits : CommitMap'[x].commits[n].shares # 0
  <2>1. PICK y \in Who, s \in Reasons : x = <<y, s>>
    BY DEF CommitmentMoves
  <2>2. CASE y = w /\ s = r
    <3>1. CommitInfos \subseteq CoreInfos(o)
      BY InfosIncluded DEF CoreInv, CoreTypes
    <3> QED  BY <2>1, <2>2, <3>1 DEF CommitmentMoves, commit_exists
  <2>3. CASE y # w \/ s # r
    <3>1. <<y, s>> \in DOMAIN CommitMap /\ CommitMap'[<<y, s>>] = CommitMap[<<y, s>>]
      BY <2>1, <2>3 DEF CommitmentMoves, OthersKeep, commit_exists
    <3> QED  BY <2>1, <3>1 DEF CoreInv, CoreTypes, DirectCount
  <2> QED  BY <2>2, <2>3
<1>3. frozen' \in [Who \X Reasons -> Assets] /\ adjusted' \in Int
  BY DEF CoreInv, CoreTypes, CommitmentMoves
<1>4. /\ free' \in [Who -> Assets] /\ hold' \in [Who -> Assets]
      /\ AssetToIssue' \in Assets /\ AssetToReap' \in Assets
      /\ ReasonValue' \in [Reasons -> Assets]
      /\ DOMAIN CommitMap' \subseteq Who \X Reasons
  BY DEF CommitmentMoves
<1>5. CoreTypes(o)'
  <2>1. OthersTyped(o)'
    BY DEF CoreInv, CoreTypes, OthersTyped, Positions
  <2> QED  BY <1>1, <1>2, <1>3, <1>4, <2>1 DEF CoreTypes, Positions, Assets, Balances, CoreInfos, Receipts
<1> QED  BY <1>1, <1>2, <1>5 DEF DirectCount

\* The receipts hold the shares.
LEMMA MovesShares ==
    ASSUME NEW o, CoreInv(o), NEW w \in Who, NEW r \in Reasons, NEW d \in Digests,
           NEW info \in [Positions -> Balances], \A v \in Positions : SoundBalance(info[v]),
           NEW k \in Int, CommitmentMoves(w, r, d, info, k), CoreTypes(o)'
    PROVE  CoreHeld(o)'
<1>0. CoreTypes(o) /\ BalancesSound /\ CoreHeld(o) /\ OthersKeep(w, r)
  BY DEF CoreInv, CommitmentMoves
<1>1. /\ DigestPut(r, d, info)
      /\ DOMAIN DigestMap' = DOMAIN DigestMap \cup {<<r, d>>}
  BY <1>0, InsertDigest DEF CommitmentMoves
<1>2. ASSUME NEW x \in DOMAIN CommitMap', CommitMap'[x].digest \in Digests
      PROVE  digest_exists(x[2], CommitMap[x].digest)'
  <2>1. PICK y \in Who, s \in Reasons : x = <<y, s>>
    BY DEF CommitmentMoves
  <2>2. CASE y = w /\ s = r
    <3>1. CommitMap'[x].digest = d
      BY <2>1, <2>2 DEF CommitmentMoves, CommitsTo, commit_exists
    <3> QED  BY <1>1, <2>1, <2>2, <3>1 DEF digest_exists
  <2>3. CASE y # w \/ s # r
    <3>1. x \in DOMAIN CommitMap /\ CommitMap'[x] = CommitMap[x]
      BY <1>0, <2>1, <2>3 DEF OthersKeep, commit_exists
    <3> QED  BY <1>0, <1>1, <1>2, <3>1 DEF CoreHeld, digest_exists
  <2> QED  BY <2>2, <2>3
<1>3. ASSUME NEW s \in Reasons, NEW e \in Digests, NEW v \in Positions
      PROVE  (DigestInfo(s, e)[v].issued = SharesIn(s, e, v) + o.shares[<<s, e, v>>])'
  <2> DEFINE a == SharesOf(w, r, e, v)'
             b == SharesOf(w, r, e, v)
             h == o.shares[<<s, e, v>>]
  <2>0. h \in Int
    BY <1>0 DEF CoreTypes, OthersTyped
  <2>1. a \in Int /\ b \in Int
    <3>1. b \in Nat
      BY <1>0, DepositTyped
    <3>2. a \in Nat
      <4>1. CASE commit_exists(w, r)'
        <5>1. CommitMap'[<<w, r>>].commits \in Seq(Receipts)
          BY <4>1 DEF CommitmentMoves, CommitInfos
        <5>2. Shares(CommitMap'[<<w, r>>].commits) \in Nat
          BY <5>1, ReceiptSums
        <5> QED  BY <4>1, <5>2 DEF SharesOf
      <4>2. CASE ~ commit_exists(w, r)'
        BY <4>2 DEF SharesOf
      <4> QED  BY <4>1, <4>2
    <3> QED  BY <3>1, <3>2
  <2>2. DigestInfo(s, e)[v].issued = SharesIn(s, e, v) + h
    BY <1>0 DEF CoreHeld
  <2>3. /\ SharesIn(s, e, v) \in Int
        /\ SharesIn(s, e, v)' = SharesIn(s, e, v) + (IF s = r THEN a - b ELSE 0)
    <3>1. a = SharesOf(w, r, e, v)'
      OBVIOUS
    <3> HIDE DEF a
    <3> QED  BY <1>0, <2>1, <3>1, SharesTotals
  <2> HIDE DEF a, b, h
  <2>4. CASE s = r /\ e = d
    <3>1. DigestInfo(s, e)' = info
      BY <1>1, <2>4 DEF DigestPut
    <3>2. info[v].issued = DigestInfo(s, e)[v].issued + a - b
      BY <2>4 DEF CommitmentMoves, a, b
    <3>3. DigestInfo(s, e)'[v].issued = DigestInfo(s, e)[v].issued + a - b
      BY <3>1, <3>2
    <3>4. SharesIn(s, e, v)' = SharesIn(s, e, v) + (a - b)
      BY <2>3, <2>4
    <3>5. DigestInfo(s, e)'[v].issued = SharesIn(s, e, v)' + h
      BY <2>0, <2>1, <2>2, <2>3, <3>3, <3>4
    <3> QED  BY <3>5 DEF h
  <2>5. CASE s # r \/ e # d
    <3>1. DigestInfo(s, e)' = DigestInfo(s, e)
      BY <1>1, <2>5 DEF DigestPut
    <3>2. SharesIn(s, e, v)' = SharesIn(s, e, v)
      <4>1. CASE s # r
        BY <2>3, <4>1
      <4>2. CASE s = r /\ e # d
        <5>1. CommitsTo(w, r, d) /\ CommitsTo(w, r, d)'
          BY DEF CommitmentMoves
        <5>2. a = 0 /\ b = 0
          BY <4>2, <5>1 DEF CommitsTo, SharesOf, a, b
        <5> QED  BY <2>3, <5>2
      <4> QED  BY <2>5, <4>1, <4>2
    <3> QED  BY <2>2, <3>1, <3>2 DEF h
  <2> QED  BY <2>4, <2>5
<1> QED  BY <1>2, <1>3 DEF CoreHeld, Positions

\* What everybody has moves with what w has.
LEMMA FundsTotals ==
    ASSUME NEW o, CoreTypes(o), NEW w \in Who,
           free' \in [Who -> Assets], \A y \in Who \ {w} : free'[y] = free[y],
           hold' \in [Who -> Assets], \A y \in Who \ {w} : hold'[y] = hold[y]
    PROVE  /\ SumFunction(free) + SumFunction(hold) \in Int
           /\ SumFunction(free') + SumFunction(hold')
                = SumFunction(free) + SumFunction(hold) + ((free'[w] + hold'[w]) - (free[w] + hold[w]))
           /\ free'[w] + hold'[w] \in Int
<1> DEFINE f == free'[w]
           h == hold'[w]
           a == free[w]
           b == hold[w]
           s == SumFunction(free)
           t == SumFunction(hold)
<1>1. /\ free \in [Who -> Int] /\ hold \in [Who -> Int]
      /\ free' \in [Who -> Int] /\ hold' \in [Who -> Int]
  <2>1. free \in [Who -> Assets] /\ hold \in [Who -> Assets]
    BY DEF CoreTypes
  <2>2. Assets \subseteq Int
    BY DEF Assets
  <2>3. ASSUME NEW g \in [Who -> Assets]
        PROVE  g \in [Who -> Int]
    BY <2>2
  <2> QED  BY <2>1, <2>3
<1>2. f \in Int /\ h \in Int /\ a \in Int /\ b \in Int
  BY <1>1
<1>3. s \in Int /\ SumFunction(free') = s + f - a
  <2>1. DOMAIN free = Who /\ DOMAIN free' = Who /\ \A y \in Who : free[y] \in Int
    BY <1>1
  <2>2. free'[w] = f
    OBVIOUS
  <2> HIDE DEF f
  <2> QED  BY <1>2, <2>1, <2>2, FiniteAssumption, SumMoves
<1>4. t \in Int /\ SumFunction(hold') = t + h - b
  <2>1. DOMAIN hold = Who /\ DOMAIN hold' = Who /\ \A y \in Who : hold[y] \in Int
    BY <1>1
  <2>2. hold'[w] = h
    OBVIOUS
  <2> HIDE DEF h
  <2> QED  BY <1>2, <2>1, <2>2, FiniteAssumption, SumMoves
<1> HIDE DEF f, h, a, b, s, t
<1>5. /\ SumFunction(free') + SumFunction(hold') = s + t + ((f + h) - (a + b))
      /\ s + t \in Int /\ f + h \in Int
  BY <1>2, <1>3, <1>4
<1> QED  BY <1>5 DEF f, h, a, b, s, t

\* The books stay balanced.
LEMMA MovesBooks ==
    ASSUME NEW o, CoreInv(o), NEW w \in Who, NEW r \in Reasons, NEW d \in Digests,
           NEW info \in [Positions -> Balances], \A v \in Positions : SoundBalance(info[v]),
           NEW k \in Int, CommitmentMoves(w, r, d, info, k)
    PROVE  CoreBooks(o)'
<1>0. /\ CoreTypes(o) /\ BalancesSound /\ OthersKeep(w, r)
      /\ CoreFrozen(o) /\ CoreEquilibrium(o) /\ ReasonTotals /\ Conservation
  BY DEF CoreInv, CoreBooks, CommitmentMoves
<1>1. DigestPut(r, d, info)
  BY <1>0, InsertDigest DEF CommitmentMoves
<1>2. /\ \A s \in Reasons : /\ DigestValueOf(s) \in Int
                            /\ DigestValueOf(s)' = DigestValueOf(s) + (IF s = r THEN k ELSE 0)
      /\ TotalDigestValue \in Int
      /\ TotalDigestValue' = TotalDigestValue + k
  <2>1. Values(info) = Values(DigestInfo(r, d)) + k
    BY DEF CommitmentMoves
  <2> QED  BY <1>0, <1>1, <2>1, DigestTotals
<1>3. CoreFrozen(o)'
  <2> SUFFICES ASSUME NEW y \in Who, NEW s \in Reasons
               PROVE  /\ frozen'[<<y, s>>] = DepositOf(y, s)' + o.frozen[<<y, s>>]
                      /\ Directly(y, s)' => o.frozen[<<y, s>>] = 0
    BY Zenon DEF CoreFrozen
  <2>1. CASE y = w /\ s = r
    <3>1. Directly(w, r)
      BY DEF CommitmentMoves, CommitsTo, Directly
    <3>2. o.frozen[<<w, r>>] = 0
      BY <1>0, <3>1 DEF CoreFrozen
    <3>3. frozen'[<<w, r>>] = DepositOf(w, r)' /\ DepositOf(w, r)' \in Int
      BY <1>0 DEF CoreTypes, CommitmentMoves, Assets
    <3> QED  BY <2>1, <3>2, <3>3
  <2>2. CASE y # w \/ s # r
    <3>1. DepositOf(y, s)' = DepositOf(y, s) /\ (Directly(y, s)' <=> Directly(y, s))
      <4>1. DepositOf(y, s)' = DepositOf(y, s)
        BY <1>0, <2>2, OthersDeposit
      <4>2. Directly(y, s)' <=> Directly(y, s)
        BY <1>0, <2>2 DEF OthersKeep, Directly
      <4> QED  BY <4>1, <4>2
    <3>2. frozen'[<<y, s>>] = frozen[<<y, s>>]
      BY <1>0, <2>2 DEF CoreTypes, CommitmentMoves
    <3> QED  BY <1>0, <3>1, <3>2 DEF CoreFrozen
  <2> QED  BY <2>1, <2>2
<1>4. CoreEquilibrium(o)'
  <2> DEFINE a == DepositOf(w, r)'
             b == DepositOf(w, r)
             i == AssetToIssue
             p == AssetToReap
             m == AssetToIssue'
             q == AssetToReap'
             t == TotalDeposit
             h == o.gap
  <2>0. h \in Int
    BY <1>0 DEF CoreTypes, OthersTyped
  <2>1. a \in Int /\ b \in Int /\ i \in Int /\ p \in Int /\ m \in Int /\ q \in Int
    <3>1. a \in Assets /\ i \in Assets /\ p \in Assets /\ m \in Assets /\ q \in Assets
      BY <1>0 DEF CommitmentMoves, CoreTypes
    <3>2. b \in Nat
      BY <1>0, DepositTyped
    <3> HIDE DEF a, b, i, p, m, q
    <3> QED  BY <3>1, <3>2 DEF Assets
  <2>2. t \in Int /\ TotalDeposit' = t + a - b
    <3>1. a = DepositOf(w, r)'
      OBVIOUS
    <3> HIDE DEF a
    <3> QED  BY <1>0, <2>1, <3>1, DepositTotals
  <2>3. m - q + a = i - p + b + k
    BY DEF CommitmentMoves
  <2>4. TotalDigestValue = t + i - p + h
    BY <1>0 DEF CoreEquilibrium
  <2> HIDE DEF a, b, i, p, m, q, t, h
  <2>5. TotalDigestValue' = t + a - b + m - q + h
    BY <1>2, <2>0, <2>1, <2>2, <2>3, <2>4
  <2> QED  BY <2>2, <2>5 DEF CoreEquilibrium, m, q, h
<1>5. ReasonTotals'
  <2> SUFFICES ASSUME NEW s \in Reasons
               PROVE  (ReasonValue[s] = DigestValueOf(s))'
    BY DEF ReasonTotals
  <2>1. ReasonValue'[s] = ReasonValue[s] + (IF s = r THEN k ELSE 0)
    <3>1. ReasonValue[s] \in Int
      BY <1>0 DEF CoreTypes, Assets
    <3> QED  BY <1>0, <3>1 DEF CommitmentMoves, CoreTypes
  <2> QED  BY <1>0, <1>2, <2>1 DEF ReasonTotals
<1>6. Conservation'
  <2> DEFINE s == SumFunction(free) + SumFunction(hold)
             x == Cardinality(Who) * Funds + adjusted
  <2>1. /\ s \in Int
        /\ SumFunction(free') + SumFunction(hold') = s + ((free'[w] + hold'[w]) - (free[w] + hold[w]))
        /\ free'[w] + hold'[w] \in Int
    BY <1>0, FundsTotals DEF CommitmentMoves
  <2>2. free'[w] + hold'[w] + k = free[w] + hold[w]
    BY DEF CommitmentMoves
  <2>3. s + TotalDigestValue = x /\ x' = x
    BY <1>0 DEF Conservation, CommitmentMoves
  <2> DEFINE f == free'[w] + hold'[w]
             a == free[w] + hold[w]
             t == SumFunction(free') + SumFunction(hold')
  <2> HIDE DEF s, f, a, t, x
  <2>4. t + TotalDigestValue' = s + TotalDigestValue
    <3>1. f + k = a
      BY <2>2 DEF f, a
    <3>2. f \in Int
      BY <2>1 DEF f
    <3>3. t = s + (f - a)
      BY <2>1 DEF f, a, t
    <3>4. s \in Int
      BY <2>1
    <3> QED  BY <1>2, <3>1, <3>2, <3>3, <3>4
  <2>5. t + TotalDigestValue' = x'
    BY <2>3, <2>4
  <2> QED  BY <2>5 DEF Conservation, t, x
<1> QED  BY <1>3, <1>4, <1>5, <1>6 DEF CoreBooks

LEMMA MovesKeep ==
    ASSUME NEW o, CoreInv(o), NEW w \in Who, NEW r \in Reasons, NEW d \in Digests,
           NEW info \in [Positions -> Balances], \A v \in Positions : SoundBalance(info[v]),
           NEW k \in Int, CommitmentMoves(w, r, d, info, k)
    PROVE  CoreInv(o)'
<1>1. CoreTypes(o)' /\ BalancesSound' /\ DirectCount'
  BY MovesTyped
<1>2. CoreHeld(o)'
  BY <1>1, MovesShares
<1>3. CoreBooks(o)'
  BY MovesBooks
<1> QED  BY <1>1, <1>2, <1>3 DEF CoreInv

-----------------------------------------------------------------------------
(* Place and raise *)

\* What is deducted is paid out of what is held and what is liquid.
LEMMA DeductSound ==
    ASSUME NEW liquid \in Nat, NEW reserve \in Nat, NEW x \in Assets
    PROVE  LET paid == deducted(liquid, reserve, x)
               held == deducted_hold(reserve, x)
           IN  /\ paid \in Assets
               /\ held \in Nat /\ held <= reserve
               /\ paid - held \in Nat /\ paid - held <= liquid
<1>1. x \in Nat /\ x <= MaxAsset /\ MaxAsset \in Nat
  BY ShareBalanceAssumption DEF Assets
<1> QED  BY <1>1 DEF deducted, deducted_hold, Least, Assets

LEMMA DepositedInto ==
    ASSUME NEW old \in [Positions -> Balances], \A u \in Positions : SoundBalance(old[u]),
           NEW v \in Positions, NEW paid \in Assets, DepositSucceeds(old[v], paid)
    PROVE  Deposited(old, v, paid, InfoWith(old, v, paid), ReceiptFor(old, v, paid))
<1> DEFINE b == DepositBalance(old[v], paid)
           info == [old EXCEPT ![v] = b]
<1>1. /\ b \in Balances /\ SoundBalance(b) /\ b.effective = old[v].effective + paid
      /\ b.issued = old[v].issued + DepositReceipt(old[v], paid).shares
      /\ DepositReceipt(old[v], paid) \in Receipts
      /\ DepositReceipt(old[v], paid).principal = paid
      /\ DepositReceipt(old[v], paid).shares # 0
  BY DepositSound DEF Assets
<1>2. old[v] \in Balances /\ old[v].effective \in Int /\ paid \in Int /\ Values(old) \in Int
  BY ShareBalanceAssumption, ValuesTyped DEF Balances, Assets
<1> HIDE DEF b
<1>3. info \in [Positions -> Balances] /\ Values(info) = Values(old) + b.effective - old[v].effective
  BY <1>1, ValuesPut
<1>4. info[v] = b /\ \A u \in Positions \ {v} : info[u] = old[u]
  OBVIOUS
<1>5. Values(info) = Values(old) + paid
  <2> DEFINE e == old[v].effective
             s == Values(old)
  <2>1. b.effective = e + paid /\ e \in Int /\ s \in Int /\ Values(info) = s + b.effective - e
    BY <1>1, <1>2, <1>3
  <2> HIDE DEF e, s
  <2>2. Values(info) = s + paid
    BY <1>2, <2>1
  <2> QED  BY <2>2 DEF s
<1>6. \A u \in Positions : SoundBalance(info[u])
  BY <1>1, <1>4
<1> QED  BY <1>1, <1>3, <1>4, <1>5, <1>6 DEF b, Deposited, InfoWith, ReceiptFor

\* The account and the total of the reason, after w paid k and of it h out of
\* what was held.
LEMMA PaidOut ==
    ASSUME NEW o, CoreTypes(o), NEW w \in Who, NEW a \in Nat, a <= MaxAsset, NEW h \in Nat, h <= MaxAsset,
           free' = [free EXCEPT ![w] = a], hold' = [hold EXCEPT ![w] = h]
    PROVE  /\ free' \in [Who -> Assets] /\ \A y \in Who \ {w} : free'[y] = free[y]
           /\ hold' \in [Who -> Assets] /\ \A y \in Who \ {w} : hold'[y] = hold[y]
           /\ free'[w] = a /\ hold'[w] = h
<1>1. a \in Assets /\ h \in Assets
  BY ShareBalanceAssumption DEF Assets
<1> QED  BY <1>1 DEF CoreTypes

LEMMA ReasonMoves ==
    ASSUME NEW o, CoreTypes(o), NEW r \in Reasons, NEW k \in Int, ReasonValue[r] + k \in Assets,
           ReasonValue' = [ReasonValue EXCEPT ![r] = @ + k]
    PROVE  ReasonValue' \in [Reasons -> Assets]
  BY DEF CoreTypes

\* What place_commit and raise_commit share.
LEMMA PaidIn ==
    ASSUME NEW o, CoreInv(o), NEW w \in Who, NEW r \in Reasons, NEW d \in Digests,
           NEW v \in Positions, NEW x \in Amounts, NEW p, NEW paid,
           deposit_to_digest(w, r, d, v, x, p, paid)
    PROVE  /\ paid \in Assets
           /\ DepositSucceeds(DigestInfo(r, d)[v], paid)
           /\ DigestMap' = Insert(DigestMap, <<r, d>>,
                                InfoWith(DigestInfo(r, d), v, paid))
           /\ ReasonValue' \in [Reasons -> Assets]
           /\ ReasonValue' = [ReasonValue EXCEPT ![r] = @ + paid]
           /\ free' \in [Who -> Assets] /\ \A y \in Who \ {w} : free'[y] = free[y]
           /\ hold' \in [Who -> Assets] /\ \A y \in Who \ {w} : hold'[y] = hold[y]
           /\ free'[w] + hold'[w] + paid = free[w] + hold[w]
           /\ frozen[<<w, r>>] + paid \in Assets
           /\ UNCHANGED <<AssetToIssue, AssetToReap, adjusted>>
<1> DEFINE held == deducted_hold(hold[w], x)
           a == free[w] - (paid - held)
           h == hold[w] - held
<1>0. CoreTypes(o) /\ MaxAsset \in Nat /\ x \in Assets
  BY ShareBalanceAssumption, CommitmentAssumption DEF CoreInv, Assets
<1>1. /\ free[w] \in Nat /\ free[w] <= MaxAsset /\ hold[w] \in Nat /\ hold[w] <= MaxAsset
      /\ frozen[<<w, r>>] \in Nat /\ ReasonValue[r] \in Nat
  BY <1>0 DEF CoreTypes, Assets
<1>2. /\ paid \in Assets /\ held \in Nat /\ held <= hold[w]
      /\ paid - held \in Nat /\ paid - held <= free[w]
  BY <1>0, <1>1, DeductSound DEF deposit_to_digest
<1>3. free' = [free EXCEPT ![w] = a] /\ hold' = [hold EXCEPT ![w] = h]
  BY DEF deposit_to_digest
<1>4. paid \in Nat
  BY <1>2 DEF Assets
<1> HIDE DEF held
<1>5. a \in Nat /\ a <= MaxAsset /\ h \in Nat /\ h <= MaxAsset /\ a + h + paid = free[w] + hold[w]
  BY <1>0, <1>1, <1>2, <1>4
<1> HIDE DEF a, h
<1>6. /\ free' \in [Who -> Assets] /\ \A y \in Who \ {w} : free'[y] = free[y]
      /\ hold' \in [Who -> Assets] /\ \A y \in Who \ {w} : hold'[y] = hold[y]
      /\ free'[w] = a /\ hold'[w] = h
  BY <1>0, <1>3, <1>5, PaidOut
<1>7. ReasonValue[r] + paid \in Assets /\ frozen[<<w, r>>] + paid \in Assets
  BY <1>0, <1>1, <1>4 DEF deposit_to_digest, Assets
<1>8. ReasonValue' = [ReasonValue EXCEPT ![r] = @ + paid] /\ ReasonValue' \in [Reasons -> Assets]
  <2>1. ReasonValue' = [ReasonValue EXCEPT ![r] = @ + paid]
    BY DEF deposit_to_digest
  <2>2. paid \in Int
    BY <1>4
  <2> QED  BY <1>0, <1>7, <2>1, <2>2, ReasonMoves
<1> QED  BY <1>2, <1>5, <1>6, <1>7, <1>8 DEF deposit_to_digest, InfoWith

LEMMA PlaceKeeps ==
    ASSUME NEW o, CoreInv(o), NEW w \in Who, NEW r \in Reasons, NEW d \in Digests,
           NEW v \in Positions, NEW x \in Amounts, NEW p, PlaceCommit(w, r, d, v, x, p)
    PROVE  CoreInv(o)'
<1> DEFINE paid == deducted(free[w], hold[w], x)
           old == DigestInfo(r, d)
           info == InfoWith(old, v, paid)
           c == ReceiptFor(old, v, paid)
           new == [digest |-> d, variant |-> v, commits |-> <<c>>]
<1>1. /\ ~ commit_exists(w, r) /\ deposit_to_digest(w, r, d, v, x, p, paid)
      /\ frozen' = [frozen EXCEPT ![<<w, r>>] = paid]
      /\ CommitMap' = Insert(CommitMap, <<w, r>>, new)
  BY DEF PlaceCommit, ReceiptFor
<1> HIDE DEF paid
<1>2. /\ paid \in Assets /\ DepositSucceeds(old[v], paid)
      /\ DigestMap' = Insert(DigestMap, <<r, d>>, info)
      /\ ReasonValue' \in [Reasons -> Assets]
      /\ ReasonValue' = [ReasonValue EXCEPT ![r] = @ + paid]
      /\ free' \in [Who -> Assets] /\ \A y \in Who \ {w} : free'[y] = free[y]
      /\ hold' \in [Who -> Assets] /\ \A y \in Who \ {w} : hold'[y] = hold[y]
      /\ free'[w] + hold'[w] + paid = free[w] + hold[w]
      /\ UNCHANGED <<AssetToIssue, AssetToReap, adjusted>>
  BY <1>1, PaidIn
<1>3. old \in [Positions -> Balances] /\ \A u \in Positions : SoundBalance(old[u])
  BY InfoSound DEF CoreInv
<1>4. /\ info \in [Positions -> Balances] /\ \A u \in Positions : SoundBalance(info[u])
      /\ info[v].issued = old[v].issued + c.shares
      /\ \A u \in Positions \ {v} : info[u] = old[u]
      /\ Values(info) = Values(old) + paid
      /\ c \in Receipts /\ c.principal = paid /\ c.shares # 0
  <2>1. paid \in Assets /\ DepositSucceeds(old[v], paid)
    BY <1>2
  <2> HIDE DEF old
  <2>2. Deposited(old, v, paid, info, c)
    BY <1>3, <2>1, DepositedInto
  <2> QED  BY <2>2 DEF Deposited
<1>5. /\ DOMAIN CommitMap' = DOMAIN CommitMap \cup {<<w, r>>}
      /\ CommitMap'[<<w, r>>] = new
      /\ \A y \in DOMAIN CommitMap : y # <<w, r>> => CommitMap'[y] = CommitMap[y]
  BY <1>1 DEF Insert
<1> HIDE DEF old, info, c
<1>6. /\ new.digest = d /\ new.variant = v /\ new.commits = <<c>>
      /\ <<c>> \in Seq(Receipts) /\ Len(<<c>>) = 1
      /\ Principals(<<c>>) = paid /\ Shares(<<c>>) = c.shares
      /\ \A n \in DOMAIN <<c>> : <<c>>[n].shares # 0
  <2>1. /\ <<c>> \in Seq(Receipts) /\ Len(<<c>>) = 1
        /\ Principals(<<c>>) = c.principal /\ Shares(<<c>>) = c.shares
    BY <1>4, OneReceipt
  <2>2. \A n \in DOMAIN <<c>> : <<c>>[n] = c
    OBVIOUS
  <2> QED  BY <1>4, <2>1, <2>2
<1>7. new \in CommitInfos
  BY <1>6 DEF CommitInfos
<1> HIDE DEF new
<1>8. commit_exists(w, r)' /\ DepositOf(w, r)' = paid /\ DepositOf(w, r) = 0
  BY <1>1, <1>5, <1>6 DEF commit_exists, DepositOf
<1>9. /\ SharesOf(w, r, d, v)' = c.shares
      /\ \A u \in Positions \ {v} : SharesOf(w, r, d, u)' = 0
      /\ \A u \in Positions : SharesOf(w, r, d, u) = 0
  BY <1>1, <1>5, <1>6, <1>8 DEF SharesOf
<1>10. ASSUME NEW u \in Positions
       PROVE  info[u].issued = DigestInfo(r, d)[u].issued + SharesOf(w, r, d, u)' - SharesOf(w, r, d, u)
  <2>1. old[u].issued \in Nat /\ c.shares \in Nat
    BY <1>3, <1>4, ShareBalanceAssumption DEF Balances, Receipts
  <2>2. info[u].issued = old[u].issued + SharesOf(w, r, d, u)' - SharesOf(w, r, d, u)
    <3>1. CASE u = v
      BY <1>4, <1>9, <2>1, <3>1
    <3>2. CASE u # v
      <4>1. info[u] = old[u] /\ SharesOf(w, r, d, u)' = 0 /\ SharesOf(w, r, d, u) = 0
        BY <1>4, <1>9, <3>2
      <4> QED  BY <2>1, <4>1
    <3> QED  BY <3>1, <3>2
  <2> QED  BY <2>2 DEF old
<1>11. OthersKeep(w, r)
  BY <1>5 DEF OthersKeep, commit_exists
<1>12. CommitsTo(w, r, d) /\ CommitsTo(w, r, d)'
  BY <1>1, <1>5, <1>6 DEF CommitsTo
<1>13. DOMAIN CommitMap' \subseteq Who \X Reasons
  BY <1>5 DEF CoreInv, CoreTypes
<1>14. Len(new.commits) \in 1 .. MaxCommits
  BY <1>6, CommitmentAssumption
<1>15. /\ AssetToIssue' \in Assets /\ AssetToReap' \in Assets
       /\ AssetToIssue' - AssetToReap' + DepositOf(w, r)'
             = AssetToIssue - AssetToReap + DepositOf(w, r) + paid
  <2>1. AssetToIssue \in Int /\ AssetToReap \in Int /\ paid \in Int
    BY <1>2 DEF CoreInv, CoreTypes, Assets
  <2> QED  BY <1>2, <1>8, <2>1 DEF CoreInv, CoreTypes
<1>16. paid \in Int /\ UNCHANGED adjusted
  BY <1>2 DEF Assets
<1>17. Values(info) = Values(DigestInfo(r, d)) + paid
  BY <1>4 DEF old
<1>18. CommitmentMoves(w, r, d, info, paid)
  BY <1>1, <1>2, <1>5, <1>6, <1>7, <1>8, <1>10, <1>11, <1>12, <1>13, <1>14, <1>15, <1>16, <1>17
      DEF CommitmentMoves
<1> QED  BY <1>4, <1>16, <1>18, MovesKeep

LEMMA RaiseKeeps ==
    ASSUME NEW o, CoreInv(o), NEW w \in Who, NEW r \in Reasons,
           NEW x \in Amounts, NEW p, RaiseCommit(w, r, x, p)
    PROVE  CoreInv(o)'
<1> DEFINE was == CommitMap[<<w, r>>]
<1>0. commit_exists(w, r) /\ CoreTypes(o)
  BY DEF RaiseCommit, CoreInv
<1>2. /\ was.digest \in Digests /\ was.variant \in Positions /\ was \in CommitInfos
      /\ was.commits \in Seq(Receipts) /\ Len(was.commits) \in 1 .. MaxCommits
      /\ Principals(was.commits) \in Nat /\ Shares(was.commits) \in Nat
      /\ \A n \in DOMAIN was.commits : was.commits[n].shares # 0
  <2>1. was.digest \in Digests
    BY <1>0, CommitTyped DEF RaiseCommit
  <2>2. \A n \in DOMAIN was.commits : was.commits[n].shares # 0
    BY <1>0, <2>1 DEF CoreInv, DirectCount, commit_exists
  <2>3. was \in CommitInfos
    <3>1. was \in CoreInfos(o)
      BY <1>0 DEF CoreTypes, commit_exists
    <3> QED  BY <2>1, <3>1 DEF CoreInfos, CommitInfos
  <2> QED  BY <1>0, <2>1, <2>2, <2>3, CommitTyped
<1> PICK d \in Digests, v \in Positions : was.digest = d /\ was.variant = v
  BY <1>2
<1> DEFINE paid == deducted(free[w], hold[w], x)
           old == DigestInfo(r, d)
           info == InfoWith(old, v, paid)
           c == ReceiptFor(old, v, paid)
           all == Append(was.commits, c)
           new == [was EXCEPT !.commits = all]
<1>1. /\ Len(was.commits) < MaxCommits
      /\ deposit_to_digest(w, r, d, v, x, p, paid)
      /\ frozen' = [frozen EXCEPT ![<<w, r>>] = @ + paid]
      /\ CommitMap' = [CommitMap EXCEPT ![<<w, r>>] = new]
  <2>1. /\ Len(was.commits) < MaxCommits
        /\ deposit_to_digest(w, r, d, v, x, p, paid)
        /\ frozen' = [frozen EXCEPT ![<<w, r>>] = @ + paid]
        /\ CommitMap' = [CommitMap EXCEPT ![<<w, r>>].commits = Append(@, c)]
    BY DEF RaiseCommit, ReceiptFor
  <2> HIDE DEF c, paid
  <2> QED  BY <2>1
<1> HIDE DEF paid
<1>3. /\ paid \in Assets /\ DepositSucceeds(old[v], paid)
      /\ DigestMap' = Insert(DigestMap, <<r, d>>, info)
      /\ ReasonValue' \in [Reasons -> Assets]
      /\ ReasonValue' = [ReasonValue EXCEPT ![r] = @ + paid]
      /\ free' \in [Who -> Assets] /\ \A y \in Who \ {w} : free'[y] = free[y]
      /\ hold' \in [Who -> Assets] /\ \A y \in Who \ {w} : hold'[y] = hold[y]
      /\ free'[w] + hold'[w] + paid = free[w] + hold[w]
      /\ frozen[<<w, r>>] + paid \in Assets
      /\ UNCHANGED <<AssetToIssue, AssetToReap, adjusted>>
  BY <1>1, <1>2, PaidIn
<1>4. old \in [Positions -> Balances] /\ \A u \in Positions : SoundBalance(old[u])
  BY <1>2, InfoSound DEF CoreInv
<1>5. /\ info \in [Positions -> Balances] /\ \A u \in Positions : SoundBalance(info[u])
      /\ info[v].issued = old[v].issued + c.shares
      /\ \A u \in Positions \ {v} : info[u] = old[u]
      /\ Values(info) = Values(old) + paid
      /\ c \in Receipts /\ c.principal = paid /\ c.shares # 0
  <2>1. paid \in Assets /\ DepositSucceeds(old[v], paid)
    BY <1>3
  <2> HIDE DEF old
  <2>2. Deposited(old, v, paid, info, c)
    BY <1>2, <1>4, <2>1, DepositedInto
  <2> QED  BY <2>2 DEF Deposited
<1> HIDE DEF old, info, c
<1>6. /\ new.digest = d /\ new.variant = v /\ new.commits = all /\ new \in CommitInfos
      /\ all \in Seq(Receipts) /\ Len(all) = Len(was.commits) + 1
      /\ Principals(all) = Principals(was.commits) + paid
      /\ Shares(all) = Shares(was.commits) + c.shares
      /\ \A n \in DOMAIN all : all[n].shares # 0
  <2>1. /\ all \in Seq(Receipts) /\ Len(all) = Len(was.commits) + 1
        /\ Principals(all) = Principals(was.commits) + c.principal
        /\ Shares(all) = Shares(was.commits) + c.shares
    BY <1>2, <1>5, OneMore
  <2>2. \A n \in DOMAIN all : all[n].shares # 0
    <3>1. \A n \in DOMAIN all : all[n] = c \/ (n \in DOMAIN was.commits /\ all[n] = was.commits[n])
      BY <1>2
    <3> QED  BY <1>2, <1>5, <3>1
  <2>3. new.digest = d /\ new.variant = v /\ new.commits = all /\ new \in CommitInfos
    <3> HIDE DEF all
    <3> QED  BY <1>2, <2>1 DEF CommitInfos
  <2> QED  BY <1>5, <2>1, <2>2, <2>3
<1>7. /\ DOMAIN CommitMap' = DOMAIN CommitMap
      /\ CommitMap'[<<w, r>>] = new
      /\ \A y \in DOMAIN CommitMap : y # <<w, r>> => CommitMap'[y] = CommitMap[y]
  BY <1>0, <1>1 DEF commit_exists
<1> HIDE DEF new, all
<1>8. /\ commit_exists(w, r)'
      /\ DepositOf(w, r) = Principals(was.commits)
      /\ DepositOf(w, r)' = Principals(was.commits) + paid
      /\ frozen[<<w, r>>] = DepositOf(w, r)
  <2>1. frozen[<<w, r>>] = DepositOf(w, r)
    <3>1. Directly(w, r)
      BY <1>2 DEF Directly
    <3>2. frozen[<<w, r>>] = DepositOf(w, r) + 0
      BY <3>1 DEF CoreInv, CoreBooks, CoreFrozen
    <3> QED  BY <1>0, <3>2, DepositTyped
  <2> QED  BY <1>0, <1>6, <1>7, <2>1 DEF commit_exists, DepositOf
<1>9. /\ SharesOf(w, r, d, v) = Shares(was.commits)
      /\ SharesOf(w, r, d, v)' = Shares(was.commits) + c.shares
      /\ \A u \in Positions \ {v} : SharesOf(w, r, d, u)' = 0 /\ SharesOf(w, r, d, u) = 0
  BY <1>0, <1>6, <1>7, <1>8 DEF SharesOf
<1>10. ASSUME NEW u \in Positions
       PROVE  info[u].issued = DigestInfo(r, d)[u].issued + SharesOf(w, r, d, u)' - SharesOf(w, r, d, u)
  <2>1. old[u].issued \in Nat /\ c.shares \in Nat
    BY <1>4, <1>5, ShareBalanceAssumption DEF Balances, Receipts
  <2>2. info[u].issued = old[u].issued + SharesOf(w, r, d, u)' - SharesOf(w, r, d, u)
    <3>1. CASE u = v
      <4> DEFINE s == Shares(was.commits)
                 e == old[v].issued
      <4>1. s \in Int /\ e \in Int /\ c.shares \in Int
        BY <1>2, <2>1, <3>1
      <4>2. /\ info[v].issued = e + c.shares
            /\ SharesOf(w, r, d, v) = s /\ SharesOf(w, r, d, v)' = s + c.shares
        BY <1>5, <1>9
      <4> HIDE DEF s, e
      <4>3. e + c.shares = e + (s + c.shares) - s
        BY <4>1
      <4>4. info[v].issued = e + SharesOf(w, r, d, v)' - SharesOf(w, r, d, v)
        BY <4>2, <4>3
      <4> QED  BY <3>1, <4>4 DEF e
    <3>2. CASE u # v
      <4>1. info[u] = old[u] /\ SharesOf(w, r, d, u)' = 0 /\ SharesOf(w, r, d, u) = 0
        BY <1>5, <1>9, <3>2
      <4> QED  BY <2>1, <4>1
    <3> QED  BY <3>1, <3>2
  <2> QED  BY <2>2 DEF old
<1>11. OthersKeep(w, r)
  BY <1>7 DEF OthersKeep, commit_exists
<1>12. CommitsTo(w, r, d) /\ CommitsTo(w, r, d)'
  BY <1>6, <1>7 DEF CommitsTo
<1>13. DOMAIN CommitMap' \subseteq Who \X Reasons
  BY <1>0, <1>7 DEF CoreTypes
<1>14. Len(new.commits) \in 1 .. MaxCommits
  <2> DEFINE n == Len(was.commits)
  <2>1. n \in Nat /\ n < MaxCommits /\ Len(new.commits) = n + 1
    BY <1>1, <1>2, <1>6
  <2> HIDE DEF n
  <2> QED  BY <2>1, CommitmentAssumption
<1>15. /\ AssetToIssue' \in Assets /\ AssetToReap' \in Assets
       /\ AssetToIssue' - AssetToReap' + DepositOf(w, r)'
             = AssetToIssue - AssetToReap + DepositOf(w, r) + paid
  <2> DEFINE s == Principals(was.commits)
  <2>1. AssetToIssue \in Int /\ AssetToReap \in Int /\ paid \in Int /\ s \in Int
    BY <1>0, <1>2, <1>3 DEF CoreTypes, Assets
  <2>2. DepositOf(w, r) = s /\ DepositOf(w, r)' = s + paid
    BY <1>8
  <2> HIDE DEF s
  <2> QED  BY <1>0, <1>3, <2>1, <2>2 DEF CoreTypes
<1>16. paid \in Int /\ UNCHANGED adjusted
  BY <1>3 DEF Assets
<1>17. Values(info) = Values(DigestInfo(r, d)) + paid
  BY <1>5 DEF old
<1>18. DepositOf(w, r)' \in Assets /\ frozen' = [frozen EXCEPT ![<<w, r>>] = DepositOf(w, r)']
  BY <1>1, <1>3, <1>8
<1>19. CommitmentMoves(w, r, d, info, paid)
  BY <1>3, <1>6, <1>7, <1>8, <1>10, <1>11, <1>12, <1>13, <1>14, <1>15, <1>16, <1>17, <1>18 DEF CommitmentMoves
<1> QED  BY <1>2, <1>5, <1>16, <1>19, MovesKeep

-----------------------------------------------------------------------------
(* Resolve *)

LEMMA WithdrawalSound ==
    ASSUME NEW o, CoreInv(o), NEW w \in Who, NEW r \in Reasons, NEW d \in Digests, NEW v \in Positions,
           commit_exists(w, r), CommitMap[<<w, r>>].digest = d, CommitMap[<<w, r>>].variant = v,
           Withdrawal(w, r).ok
    PROVE  Resolved(w, r, d, v, DigestInfo(r, d),
                    InfoLeft(DigestInfo(r, d), v, Withdrawal(w, r).balance), Withdrawal(w, r))
<1> DEFINE commits == CommitMap[<<w, r>>].commits
           old == DigestInfo(r, d)
           out == Withdrawal(w, r)
           b == out.balance
           left == InfoLeft(old, v, b)
<1>1. /\ commits \in Seq(Receipts)
      /\ DepositOf(w, r) = Principals(commits)
      /\ SharesOf(w, r, d, v) = Shares(commits)
  BY CommitTyped DEF CoreInv, DepositOf, SharesOf
<1>2. digest_exists(r, d) /\ old = DigestMap[<<r, d>>]
  BY DEF CoreInv, CoreHeld, DigestInfo, commit_exists
<1>3. out = withdraw_from_digest(old[v], commits)
  BY <1>2 DEF Withdrawal
<1>4. old \in [Positions -> Balances] /\ \A u \in Positions : SoundBalance(old[u])
  BY InfoSound DEF CoreInv
<1> HIDE DEF old, out, commits
<1>5. old[v] \in Balances /\ SoundBalance(old[v]) /\ out.ok
  BY <1>4 DEF out
<1>6. Progress(old[v], commits, Len(commits), out)
  BY <1>1, <1>3, <1>5, Withdrawn
<1>7. /\ b \in Balances /\ SoundBalance(b)
      /\ out.given = DepositOf(w, r) /\ out.taken \in Nat
      /\ b.effective = old[v].effective - out.taken
      /\ b.issued = old[v].issued - SharesOf(w, r, d, v)
  <2>1. /\ Principals(commits) = PartSum(EachPrincipal(commits), Len(commits))
        /\ Shares(commits) = PartSum(EachShares(commits), Len(commits))
    BY <1>1, ReceiptSums
  <2> QED  BY <1>1, <1>6, <2>1 DEF Progress
<1> HIDE DEF b
<1>8. left \in [Positions -> Balances] /\ Values(left) = Values(old) + b.effective - old[v].effective
  <2>1. old \in [Positions -> Balances] /\ b \in Balances
    BY <1>4, <1>7
  <2>2. /\ [old EXCEPT ![v] = b] \in [Positions -> Balances]
        /\ Values([old EXCEPT ![v] = b]) = Values(old) + b.effective - old[v].effective
    BY <2>1, ValuesPut
  <2> QED  BY <2>2 DEF InfoLeft
<1>9. left[v] = b /\ \A u \in Positions \ {v} : left[u] = old[u]
  BY <1>4 DEF InfoLeft
<1>10. Values(left) = Values(old) - out.taken
  <2> DEFINE e == old[v].effective
             s == Values(old)
             k == out.taken
  <2>1. e \in Int /\ s \in Int /\ k \in Int
    BY <1>4, <1>5, <1>7, ShareBalanceAssumption, ValuesTyped DEF Balances
  <2>2. b.effective = e - k /\ Values(left) = s + b.effective - e
    BY <1>7, <1>8
  <2> HIDE DEF e, s, k
  <2>3. Values(left) = s - k
    BY <2>1, <2>2
  <2> QED  BY <2>3 DEF s, k
<1>11. \A u \in Positions : SoundBalance(left[u])
  BY <1>4, <1>7, <1>9
<1> HIDE DEF left
<1>12. Resolved(w, r, d, v, old, left, out)
  BY <1>2, <1>4, <1>7, <1>8, <1>9, <1>10, <1>11 DEF Resolved, digest_exists
<1> QED  BY <1>12 DEF left, old, out, b

\* The counters take the difference between what was given and what came back.
LEMMA ImbalanceSound ==
    ASSUME NEW o, CoreTypes(o), NEW liquid, NEW given \in Nat, NEW taken \in Nat,
           resolve_succeeds(liquid, given, taken), resolve_imbalance(given, taken)
    PROVE  /\ AssetToIssue' \in Assets /\ AssetToReap' \in Assets
           /\ AssetToIssue' - AssetToReap' = AssetToIssue - AssetToReap + given - taken
<1> DEFINE i == AssetToIssue
           p == AssetToReap
<1>1. i \in Nat /\ i <= MaxAsset /\ p \in Nat /\ p <= MaxAsset /\ MaxAsset \in Nat
  BY ShareBalanceAssumption DEF CoreTypes, Assets
<1>2. (taken > given => i >= taken - given) /\ (taken < given => p >= given - taken)
  BY DEF resolve_succeeds
<1>3. /\ AssetToIssue' = IF taken > given THEN i - (taken - given) ELSE i
      /\ AssetToReap' = IF taken < given THEN p - (given - taken) ELSE p
  BY DEF resolve_imbalance
<1> HIDE DEF i, p
<1>4. /\ AssetToIssue' \in Assets /\ AssetToReap' \in Assets
      /\ AssetToIssue' - AssetToReap' = i - p + given - taken
  <2>1. CASE taken > given
    BY <1>1, <1>2, <1>3, <2>1 DEF Assets
  <2>2. CASE taken < given
    BY <1>1, <1>2, <1>3, <2>2 DEF Assets
  <2>3. CASE taken = given
    BY <1>1, <1>3, <2>3 DEF Assets
  <2> QED  BY <2>1, <2>2, <2>3
<1> QED  BY <1>4 DEF i, p

LEMMA ResolveKeeps ==
    ASSUME NEW o, CoreInv(o), NEW w \in Who, NEW r \in Reasons, ResolveCommit(w, r)
    PROVE  CoreInv(o)'
<1> DEFINE was == CommitMap[<<w, r>>]
<1>0. commit_exists(w, r) /\ can_be_resolved(w, r) /\ CoreTypes(o)
  BY DEF ResolveCommit, CoreInv
<1>1. was.digest \in Digests /\ was.variant \in Positions
  <2>1. digest_exists(r, was.digest)
    BY <1>0 DEF can_be_resolved, Withdrawal
  <2> QED  BY <1>0, <2>1, CommitTyped
<1> PICK d \in Digests, v \in Positions : was.digest = d /\ was.variant = v
  BY <1>1
<1> PICK out : out = Withdrawal(w, r)
  OBVIOUS
<1> PICK taken : taken = out.taken
  OBVIOUS
<1> DEFINE old == DigestInfo(r, d)
           info == InfoLeft(old, v, out.balance)
           k == 0 - taken
<1>2. Resolved(w, r, d, v, old, info, out)
  <2>1. Withdrawal(w, r).ok
    BY <1>0 DEF can_be_resolved
  <2> QED  BY <1>0, <2>1, WithdrawalSound
<1>3. /\ DigestMap' = [DigestMap EXCEPT ![<<r, d>>][v] = out.balance]
      /\ free' = [free EXCEPT ![w] = @ + taken]
      /\ resolve_imbalance(DepositOf(w, r), taken)
      /\ resolve_succeeds(free[w], DepositOf(w, r), taken)
      /\ taken <= ReasonValue[r]
      /\ ReasonValue' = [ReasonValue EXCEPT ![r] = @ - taken]
      /\ CommitMap' = Delete(CommitMap, <<w, r>>)
      /\ frozen' = [frozen EXCEPT ![<<w, r>>] = 0]
      /\ UNCHANGED <<hold, adjusted>>
  <2>1. out.given = DepositOf(w, r)
    BY <1>2 DEF Resolved
  <2> QED  BY <2>1 DEF ResolveCommit, can_be_resolved
<1>4. DigestMap' = Insert(DigestMap, <<r, d>>, info)
  <2>1. <<r, d>> \in DOMAIN DigestMap /\ DigestMap[<<r, d>>] = old
    BY <1>2 DEF Resolved
  <2>2. DigestMap' = [DigestMap EXCEPT ![<<r, d>>] = info]
    BY <1>3, <2>1 DEF InfoLeft
  <2> HIDE DEF info, old
  <2>3. DOMAIN DigestMap \cup {<<r, d>>} = DOMAIN DigestMap
    BY <2>1
  <2>4. DigestMap' = [y \in DOMAIN DigestMap |-> IF y = <<r, d>> THEN info ELSE DigestMap[y]]
    BY <2>1, <2>2
  <2> QED  BY <2>3, <2>4 DEF Insert
<1> HIDE DEF old, info
<1>5. taken \in Nat
  BY <1>2 DEF Resolved
<1>6. /\ DOMAIN CommitMap' = DOMAIN CommitMap \ {<<w, r>>}
      /\ \A y \in DOMAIN CommitMap : y # <<w, r>> => CommitMap'[y] = CommitMap[y]
  BY <1>3 DEF Delete
<1>7. ~ commit_exists(w, r)' /\ DepositOf(w, r)' = 0 /\ \A u \in Positions : SharesOf(w, r, d, u)' = 0
  BY <1>6 DEF commit_exists, DepositOf, SharesOf
<1>8. DepositOf(w, r) \in Nat /\ \A u \in Positions : SharesOf(w, r, d, u) \in Nat
  BY <1>0, DepositTyped
<1>9. ASSUME NEW u \in Positions
      PROVE  info[u].issued = DigestInfo(r, d)[u].issued + SharesOf(w, r, d, u)' - SharesOf(w, r, d, u)
  <2>1. old[u].issued \in Nat
    BY <1>2, ShareBalanceAssumption DEF Resolved, Balances
  <2>2. info[u].issued = old[u].issued - SharesOf(w, r, d, u)
    <3>1. CASE u = v
      BY <1>2, <3>1 DEF Resolved
    <3>2. CASE u # v
      <4>1. info[u] = old[u] /\ SharesOf(w, r, d, u) = 0
        BY <1>2, <3>2 DEF Resolved, SharesOf
      <4> QED  BY <2>1, <4>1
    <3> QED  BY <3>1, <3>2
  <2>3. info[u].issued = old[u].issued + 0 - SharesOf(w, r, d, u)
    BY <1>8, <2>1, <2>2
  <2> QED  BY <1>7, <2>3 DEF old
<1>10. /\ free' \in [Who -> Assets] /\ \A y \in Who \ {w} : free'[y] = free[y]
       /\ hold' \in [Who -> Assets] /\ \A y \in Who \ {w} : hold'[y] = hold[y]
       /\ free'[w] + hold'[w] + k = free[w] + hold[w]
  <2> DEFINE a == free[w] + taken
             h == hold[w]
  <2>1. /\ free[w] \in Nat /\ h \in Nat /\ h <= MaxAsset
        /\ a \in Nat /\ a <= MaxAsset /\ a + h + k = free[w] + h
    <3>1. free[w] \in Nat /\ h \in Nat /\ h <= MaxAsset /\ MaxAsset \in Nat
      BY <1>0, ShareBalanceAssumption DEF CoreTypes, Assets
    <3>2. a <= MaxAsset
      BY <1>3 DEF resolve_succeeds
    <3> QED  BY <1>5, <3>1, <3>2
  <2>2. free' = [free EXCEPT ![w] = a] /\ hold' = [hold EXCEPT ![w] = h]
    BY <1>0, <1>3 DEF CoreTypes
  <2> HIDE DEF a, h, k
  <2>3. /\ free' \in [Who -> Assets] /\ \A y \in Who \ {w} : free'[y] = free[y]
        /\ hold' \in [Who -> Assets] /\ \A y \in Who \ {w} : hold'[y] = hold[y]
        /\ free'[w] = a /\ hold'[w] = h
    BY <1>0, <2>1, <2>2, PaidOut
  <2> QED  BY <2>1, <2>3 DEF h
<1>11. ReasonValue' \in [Reasons -> Assets] /\ ReasonValue' = [ReasonValue EXCEPT ![r] = @ + k]
  <2>1. ReasonValue[r] \in Nat /\ ReasonValue[r] <= MaxAsset /\ MaxAsset \in Nat
    BY <1>0, ShareBalanceAssumption DEF CoreTypes, Assets
  <2>2. ReasonValue[r] - taken = ReasonValue[r] + k /\ ReasonValue[r] + k \in Assets
    BY <1>3, <1>5, <2>1 DEF Assets
  <2>3. ReasonValue' = [ReasonValue EXCEPT ![r] = @ + k]
    BY <1>3, <2>2
  <2>4. k \in Int
    BY <1>5
  <2> HIDE DEF k
  <2> QED  BY <1>0, <2>2, <2>3, <2>4, ReasonMoves
<1>12. /\ AssetToIssue' \in Assets /\ AssetToReap' \in Assets
       /\ AssetToIssue' - AssetToReap' + DepositOf(w, r)'
             = AssetToIssue - AssetToReap + DepositOf(w, r) + k
  <2> DEFINE g == DepositOf(w, r)
             i == AssetToIssue
             p == AssetToReap
             m == AssetToIssue'
             q == AssetToReap'
  <2>1. m \in Assets /\ q \in Assets /\ m - q = i - p + g - taken
    BY <1>0, <1>3, <1>5, <1>8, ImbalanceSound
  <2>2. i \in Int /\ p \in Int /\ m \in Int /\ q \in Int /\ g \in Int
    BY <1>0, <1>8, <2>1 DEF CoreTypes, Assets
  <2> HIDE DEF g, i, p, m, q
  <2>3. m - q + 0 = i - p + g + k
    BY <1>5, <2>1, <2>2
  <2> QED  BY <1>7, <2>1, <2>3 DEF g, i, p, m, q
<1>13. OthersKeep(w, r)
  BY <1>6 DEF OthersKeep, commit_exists
<1>14. CommitsTo(w, r, d) /\ CommitsTo(w, r, d)'
  BY <1>7 DEF CommitsTo
<1>15. DOMAIN CommitMap' \subseteq Who \X Reasons
  BY <1>0, <1>6 DEF CoreTypes
<1>16. DepositOf(w, r)' \in Assets /\ frozen' = [frozen EXCEPT ![<<w, r>>] = DepositOf(w, r)']
  BY <1>3, <1>7, ShareBalanceAssumption DEF Assets
<1>17. k \in Int /\ Values(info) = Values(DigestInfo(r, d)) + k
  <2>1. Values(info) = Values(old) - taken /\ Values(old) \in Int
    BY <1>2, ValuesTyped DEF Resolved
  <2>2. Values(info) = Values(old) + k /\ k \in Int
    BY <1>5, <2>1
  <2> QED  BY <2>2 DEF old
<1> HIDE DEF k
<1>18. CommitmentMoves(w, r, d, info, k)
  BY <1>3, <1>4, <1>7, <1>9, <1>10, <1>11, <1>12, <1>13, <1>14, <1>15, <1>16, <1>17 DEF CommitmentMoves
<1>19. info \in [Positions -> Balances] /\ \A u \in Positions : SoundBalance(info[u])
  BY <1>2 DEF Resolved
<1> QED  BY <1>17, <1>18, <1>19, MovesKeep

LEMMA SetVariantKeeps ==
    ASSUME NEW o, CoreInv(o), NEW w \in Who, NEW r \in Reasons, NEW v \in Positions, NEW p,
           SetCommitVariant(w, r, v, p)
    PROVE  CoreInv(o)'
<1> DEFINE was == CommitMap[<<w, r>>]
<1>0. commit_exists(w, r) /\ can_be_resolved(w, r) /\ CoreTypes(o)
  BY DEF SetCommitVariant, CoreInv
<1>1. was.digest \in Digests /\ was.variant \in Positions
  <2>1. digest_exists(r, was.digest)
    BY <1>0 DEF can_be_resolved, Withdrawal
  <2> QED  BY <1>0, <2>1, CommitTyped
<1> PICK d \in Digests, u \in Positions : was.digest = d /\ was.variant = u
  BY <1>1
<1> PICK out : out = Withdrawal(w, r)
  OBVIOUS
<1> PICK taken : taken = out.taken
  OBVIOUS
<1> DEFINE old == DigestInfo(r, d)
<1> PICK left : left = InfoLeft(old, u, out.balance)
  OBVIOUS
<1> PICK liquid : liquid = free[w] + taken
  OBVIOUS
<1> PICK held : held = deducted_hold(hold[w], taken)
  OBVIOUS
<1> PICK paid : paid = deducted(liquid, hold[w], taken)
  OBVIOUS
<1> DEFINE info == InfoWith(left, v, paid)
           c == ReceiptFor(left, v, paid)
           k == paid - taken
           new == [digest |-> d, variant |-> v, commits |-> <<c>>]
<1>2. Resolved(w, r, d, u, old, left, out)
  <2>1. Withdrawal(w, r).ok
    BY <1>0 DEF can_be_resolved
  <2> QED  BY <1>0, <2>1, WithdrawalSound
<1>3. /\ out.given = DepositOf(w, r)
      /\ DigestMap[<<r, d>>] = old
      /\ <<r, d>> \in DOMAIN DigestMap
      /\ taken \in Nat
  BY <1>2 DEF Resolved
<1>4. /\ u # v
      /\ DepositSucceeds(left[v], paid)
      /\ ReasonValue[r] - taken + paid <= MaxAsset
      /\ DigestMap' = [DigestMap EXCEPT ![<<r, d>>] = info]
      /\ free' = [free EXCEPT ![w] = liquid - (paid - held)]
      /\ hold' = [hold EXCEPT ![w] = @ - held]
      /\ resolve_imbalance(DepositOf(w, r), taken)
      /\ ReasonValue' = [ReasonValue EXCEPT ![r] = ReasonValue[r] - taken + paid]
      /\ frozen' = [frozen EXCEPT ![<<w, r>>] = paid]
      /\ CommitMap' = [CommitMap EXCEPT ![<<w, r>>] = new]
      /\ UNCHANGED adjusted
  BY <1>3 DEF SetCommitVariant, InfoLeft, InfoWith, ReceiptFor
<1>5. /\ resolve_succeeds(free[w], DepositOf(w, r), taken)
      /\ taken <= ReasonValue[r] /\ taken <= MaxAsset
  BY <1>3 DEF can_be_resolved, SetCommitVariant
<1>6. /\ taken \in Assets /\ MaxAsset \in Nat /\ liquid \in Nat /\ liquid <= MaxAsset
      /\ free[w] \in Nat /\ hold[w] \in Nat /\ hold[w] <= MaxAsset
      /\ ReasonValue[r] \in Nat
  <2>1. /\ free[w] \in Nat /\ hold[w] \in Nat /\ hold[w] <= MaxAsset /\ MaxAsset \in Nat
        /\ ReasonValue[r] \in Nat
    BY <1>0, ShareBalanceAssumption DEF CoreTypes, Assets
  <2>2. free[w] + taken <= MaxAsset
    BY <1>5 DEF resolve_succeeds
  <2> QED  BY <1>3, <1>5, <2>1, <2>2 DEF Assets
<1>7. /\ paid \in Assets /\ held \in Nat /\ held <= hold[w]
      /\ paid - held \in Nat /\ paid - held <= liquid
  BY <1>6, DeductSound
<1>8. paid \in Nat /\ k \in Int
  BY <1>3, <1>7 DEF Assets
<1>9. left \in [Positions -> Balances] /\ \A y \in Positions : SoundBalance(left[y])
  BY <1>2 DEF Resolved
<1>10. /\ info \in [Positions -> Balances] /\ \A y \in Positions : SoundBalance(info[y])
       /\ info[v].issued = left[v].issued + c.shares
       /\ \A y \in Positions \ {v} : info[y] = left[y]
       /\ Values(info) = Values(left) + paid
       /\ c \in Receipts /\ c.principal = paid /\ c.shares # 0
  <2>1. DepositSucceeds(left[v], paid)
    BY <1>4
  <2>2. Deposited(left, v, paid, info, c)
    BY <1>7, <1>9, <2>1, DepositedInto
  <2> QED  BY <2>2 DEF Deposited
<1> HIDE DEF old, info, c
<1>11. DigestMap' = Insert(DigestMap, <<r, d>>, info)
  <2>1. DOMAIN DigestMap \cup {<<r, d>>} = DOMAIN DigestMap
    BY <1>3
  <2>2. DigestMap' = [y \in DOMAIN DigestMap |-> IF y = <<r, d>> THEN info ELSE DigestMap[y]]
    BY <1>3, <1>4
  <2> QED  BY <2>1, <2>2 DEF Insert
<1>12. /\ new.digest = d /\ new.variant = v /\ new.commits = <<c>> /\ new \in CommitInfos
       /\ <<c>> \in Seq(Receipts) /\ Len(<<c>>) = 1
       /\ Principals(<<c>>) = paid /\ Shares(<<c>>) = c.shares
       /\ \A n \in DOMAIN <<c>> : <<c>>[n].shares # 0
  <2>1. /\ <<c>> \in Seq(Receipts) /\ Len(<<c>>) = 1
        /\ Principals(<<c>>) = c.principal /\ Shares(<<c>>) = c.shares
    BY <1>10, OneReceipt
  <2>2. \A n \in DOMAIN <<c>> : <<c>>[n] = c
    OBVIOUS
  <2> QED  BY <1>10, <2>1, <2>2 DEF CommitInfos
<1>13. /\ DOMAIN CommitMap' = DOMAIN CommitMap
       /\ CommitMap'[<<w, r>>] = new
       /\ \A y \in DOMAIN CommitMap : y # <<w, r>> => CommitMap'[y] = CommitMap[y]
  BY <1>0, <1>4 DEF commit_exists
<1> HIDE DEF new
<1>14. commit_exists(w, r)' /\ DepositOf(w, r)' = paid
  BY <1>0, <1>12, <1>13 DEF commit_exists, DepositOf
<1>15. /\ SharesOf(w, r, d, v)' = c.shares
       /\ \A y \in Positions \ {v} : SharesOf(w, r, d, y)' = 0
       /\ \A y \in Positions \ {u} : SharesOf(w, r, d, y) = 0
  BY <1>12, <1>13, <1>14 DEF SharesOf
<1>16. DepositOf(w, r) \in Nat /\ SharesOf(w, r, d, u) \in Nat
  BY <1>0, DepositTyped
<1>17. ASSUME NEW y \in Positions
       PROVE  info[y].issued = DigestInfo(r, d)[y].issued + SharesOf(w, r, d, y)' - SharesOf(w, r, d, y)
  <2> DEFINE e == old[y].issued
             s == SharesOf(w, r, d, u)
  <2>1. e \in Nat /\ s \in Nat /\ c.shares \in Nat
    BY <1>2, <1>10, <1>16, ShareBalanceAssumption DEF Resolved, Balances, Receipts
  <2>2. CASE y = u
    <3>1. info[y] = left[y] /\ SharesOf(w, r, d, y)' = 0
      BY <1>4, <1>10, <1>15, <2>2
    <3>2. left[y].issued = e - s
      BY <1>2, <2>2 DEF Resolved
    <3>3. SharesOf(w, r, d, y) = s
      BY <2>2
    <3> HIDE DEF e, s
    <3>4. e - s = e + 0 - s
      BY <2>1
    <3>5. info[y].issued = e + SharesOf(w, r, d, y)' - SharesOf(w, r, d, y)
      BY <3>1, <3>2, <3>3, <3>4
    <3> QED  BY <3>5 DEF e, old
  <2>3. CASE y = v
    <3>1. left[y] = old[y]
      BY <1>2, <1>4, <2>3 DEF Resolved
    <3>2. info[y].issued = left[y].issued + c.shares
      BY <1>10, <2>3
    <3>3. SharesOf(w, r, d, y)' = c.shares /\ SharesOf(w, r, d, y) = 0
      BY <1>4, <1>15, <2>3
    <3>4. info[y].issued = e + c.shares
      BY <3>1, <3>2
    <3> HIDE DEF e
    <3>5. e + c.shares = e + c.shares - 0
      BY <2>1
    <3>6. info[y].issued = e + SharesOf(w, r, d, y)' - SharesOf(w, r, d, y)
      BY <3>3, <3>4, <3>5
    <3> QED  BY <3>6 DEF e, old
  <2>4. CASE y # u /\ y # v
    <3>1. info[y] = old[y]
      BY <1>2, <1>10, <2>4 DEF Resolved
    <3>2. SharesOf(w, r, d, y)' = 0 /\ SharesOf(w, r, d, y) = 0
      BY <1>15, <2>4
    <3>3. info[y].issued = e + SharesOf(w, r, d, y)' - SharesOf(w, r, d, y)
      BY <2>1, <3>1, <3>2
    <3> QED  BY <3>3 DEF e, old
  <2> QED  BY <2>2, <2>3, <2>4
<1>18. /\ free' \in [Who -> Assets] /\ \A y \in Who \ {w} : free'[y] = free[y]
       /\ hold' \in [Who -> Assets] /\ \A y \in Who \ {w} : hold'[y] = hold[y]
       /\ free'[w] + hold'[w] + k = free[w] + hold[w]
  <2> DEFINE a == liquid - (paid - held)
             h == hold[w] - held
  <2>1. a \in Nat /\ a <= MaxAsset /\ h \in Nat /\ h <= MaxAsset /\ a + h + k = free[w] + hold[w]
    BY <1>3, <1>6, <1>7, <1>8
  <2>2. free' = [free EXCEPT ![w] = a] /\ hold' = [hold EXCEPT ![w] = h]
    BY <1>4
  <2> HIDE DEF a, h, k
  <2>3. /\ free' \in [Who -> Assets] /\ \A y \in Who \ {w} : free'[y] = free[y]
        /\ hold' \in [Who -> Assets] /\ \A y \in Who \ {w} : hold'[y] = hold[y]
        /\ free'[w] = a /\ hold'[w] = h
    BY <1>0, <2>1, <2>2, PaidOut
  <2> QED  BY <2>1, <2>3
<1>19. ReasonValue' \in [Reasons -> Assets] /\ ReasonValue' = [ReasonValue EXCEPT ![r] = @ + k]
  <2>1. ReasonValue[r] - taken + paid = ReasonValue[r] + k /\ ReasonValue[r] + k \in Assets
    BY <1>3, <1>4, <1>5, <1>6, <1>8 DEF Assets
  <2>2. ReasonValue' = [ReasonValue EXCEPT ![r] = @ + k]
    BY <1>4, <2>1
  <2> HIDE DEF k
  <2> QED  BY <1>0, <1>8, <2>1, <2>2, ReasonMoves
<1>20. /\ AssetToIssue' \in Assets /\ AssetToReap' \in Assets
       /\ AssetToIssue' - AssetToReap' + DepositOf(w, r)'
             = AssetToIssue - AssetToReap + DepositOf(w, r) + k
  <2> DEFINE g == DepositOf(w, r)
             i == AssetToIssue
             q == AssetToReap
             m == AssetToIssue'
             n == AssetToReap'
  <2>1. m \in Assets /\ n \in Assets /\ m - n = i - q + g - taken
    BY <1>0, <1>3, <1>4, <1>5, <1>16, ImbalanceSound
  <2>2. i \in Int /\ q \in Int /\ m \in Int /\ n \in Int /\ g \in Int
    BY <1>0, <1>16, <2>1 DEF CoreTypes, Assets
  <2> HIDE DEF g, i, q, m, n
  <2>3. m - n + paid = i - q + g + k
    BY <1>3, <1>8, <2>1, <2>2
  <2> QED  BY <1>14, <2>1, <2>3 DEF g, i, q, m, n
<1>21. OthersKeep(w, r)
  BY <1>13 DEF OthersKeep, commit_exists
<1>22. CommitsTo(w, r, d) /\ CommitsTo(w, r, d)'
  BY <1>12, <1>13 DEF CommitsTo
<1>23. DOMAIN CommitMap' \subseteq Who \X Reasons
  BY <1>0, <1>13 DEF CoreTypes
<1>24. DepositOf(w, r)' \in Assets /\ frozen' = [frozen EXCEPT ![<<w, r>>] = DepositOf(w, r)']
  BY <1>4, <1>7, <1>14
<1>25. Values(info) = Values(DigestInfo(r, d)) + k
  <2>1. Values(left) = Values(old) - taken /\ Values(old) \in Int
    BY <1>2, ValuesTyped DEF Resolved
  <2>2. Values(info) = Values(old) + k
    BY <1>3, <1>8, <1>10, <2>1
  <2> QED  BY <2>2 DEF old
<1>26. Len(new.commits) \in 1 .. MaxCommits
  BY <1>12, CommitmentAssumption
<1> HIDE DEF k
<1>27. /\ CommitMap'[<<w, r>>] \in CommitInfos
       /\ Len(CommitMap'[<<w, r>>].commits) \in 1 .. MaxCommits
       /\ \A n \in DOMAIN CommitMap'[<<w, r>>].commits :
             CommitMap'[<<w, r>>].commits[n].shares # 0
  BY <1>12, <1>13, <1>26
<1>28. UNCHANGED adjusted
  BY <1>4
<1>29. CommitmentMoves(w, r, d, info, k)
  BY <1>11, <1>17, <1>18, <1>19, <1>20, <1>21, <1>22, <1>23, <1>24, <1>25, <1>27, <1>28 DEF CommitmentMoves
<1> QED  BY <1>8, <1>10, <1>29, MovesKeep

-----------------------------------------------------------------------------
(* Digests and reserves *)

\* What does not touch commitments leaves the deposits and the shares alone.
LEMMA CommitsStay ==
    ASSUME NEW o, CoreTypes(o), CommitMap' = CommitMap
    PROVE  /\ TotalDeposit' = TotalDeposit
           /\ \A w, r : DepositOf(w, r)' = DepositOf(w, r)
           /\ \A r, d, v : SharesIn(r, d, v)' = SharesIn(r, d, v)
           /\ \A x \in DOMAIN CommitMap' :
                 CommitMap'[x] \in CoreInfos(o) /\ Len(CommitMap'[x].commits) \in 1 .. MaxCommits
<1>1. \A w, r : DepositOf(w, r)' = DepositOf(w, r)
  BY DEF DepositOf, commit_exists
<1>2. \A w, r, d, v : SharesOf(w, r, d, v)' = SharesOf(w, r, d, v)
  BY DEF SharesOf, commit_exists
<1>3. TotalDeposit' = TotalDeposit
  BY <1>1 DEF TotalDeposit
<1>4. \A r, d, v : SharesIn(r, d, v)' = SharesIn(r, d, v)
  BY <1>2 DEF SharesIn
<1> QED  BY <1>1, <1>3, <1>4 DEF CoreTypes

LEMMA DigestMovesKeep ==
    ASSUME NEW o, CoreInv(o), NEW r \in Reasons, NEW d \in Digests, NEW info \in [Positions -> Balances],
           NEW k \in Int, DigestMoves(r, d, info, k)
    PROVE  CoreInv(o)'
<1>0. /\ CoreTypes(o) /\ BalancesSound /\ CoreHeld(o) /\ DirectCount
      /\ CoreFrozen(o) /\ CoreEquilibrium(o) /\ ReasonTotals /\ Conservation
  BY DEF CoreInv, CoreBooks
<1>1. DigestPut(r, d, info) /\ CommitMap' = CommitMap /\ free' = free /\ hold' = hold /\ frozen' = frozen
  BY DEF DigestMoves, accounts
<1>2. /\ \A s \in Reasons : /\ DigestValueOf(s) \in Int
                            /\ DigestValueOf(s)' = DigestValueOf(s) + (IF s = r THEN k ELSE 0)
      /\ TotalDigestValue \in Int
      /\ TotalDigestValue' = TotalDigestValue + k
  <2>1. Values(info) = Values(DigestInfo(r, d)) + k
    BY DEF DigestMoves
  <2> QED  BY <1>0, <1>1, <2>1, DigestTotals
<1>3. /\ TotalDeposit' = TotalDeposit
      /\ \A w, s : DepositOf(w, s)' = DepositOf(w, s)
      /\ \A s, e, v : SharesIn(s, e, v)' = SharesIn(s, e, v)
      /\ \A x \in DOMAIN CommitMap' :
            CommitMap'[x] \in CoreInfos(o) /\ Len(CommitMap'[x].commits) \in 1 .. MaxCommits
  BY <1>0, <1>1, CommitsStay
<1>4. CoreTypes(o)'
  <2>1. adjusted' \in Int
    BY <1>0 DEF DigestMoves, CoreTypes
  <2>2. /\ free' \in [Who -> Assets] /\ hold' \in [Who -> Assets]
        /\ frozen' \in [Who \X Reasons -> Assets]
        /\ DOMAIN CommitMap' \subseteq Who \X Reasons
    BY <1>0, <1>1 DEF CoreTypes
  <2>3. /\ DOMAIN DigestMap' \subseteq Reasons \X Digests
        /\ \A x \in DOMAIN DigestMap' : DigestMap'[x] \in [Positions -> Balances]
        /\ AssetToIssue' \in Assets /\ AssetToReap' \in Assets
        /\ ReasonValue' \in [Reasons -> Assets]
    BY DEF DigestMoves
  <2>4. OthersTyped(o)'
    BY <1>0 DEF CoreTypes, OthersTyped, Positions
  <2> QED  BY <1>3, <2>1, <2>2, <2>3, <2>4 DEF CoreTypes, Positions, Assets, Balances, CoreInfos, Receipts
<1>5. BalancesSound' /\ DirectCount'
  BY <1>0, <1>1 DEF DigestMoves, DirectCount
<1>6. CoreHeld(o)'
  <2>1. ASSUME NEW s \in Reasons, NEW e \in Digests, NEW v \in Positions
        PROVE  DigestInfo(s, e)'[v].issued = DigestInfo(s, e)[v].issued
    <3>1. CASE s = r /\ e = d
      BY <1>1, <3>1 DEF DigestMoves, DigestPut
    <3>2. CASE s # r \/ e # d
      BY <1>1, <3>2 DEF DigestPut
    <3> QED  BY <3>1, <3>2
  <2>2. \A x \in DOMAIN CommitMap' :
           CommitMap'[x].digest \in Digests => digest_exists(x[2], CommitMap[x].digest)'
    BY <1>1 DEF DigestMoves
  <2>3. \A s \in Reasons, e \in Digests, v \in Positions :
           DigestInfo(s, e)[v].issued = SharesIn(s, e, v) + o.shares[<<s, e, v>>]
    BY <1>0 DEF CoreHeld
  <2>4. \A s \in Reasons, e \in Digests, v \in Positions :
           DigestInfo(s, e)'[v].issued = SharesIn(s, e, v)' + o.shares[<<s, e, v>>]
    BY <1>3, <2>1, <2>3
  <2> QED  BY <2>2, <2>4 DEF CoreHeld, Positions
<1>7. CoreFrozen(o)'
  <2>1. ASSUME NEW w \in Who, NEW s \in Reasons
        PROVE  /\ frozen'[<<w, s>>] = DepositOf(w, s)' + o.frozen[<<w, s>>]
               /\ Directly(w, s)' => o.frozen[<<w, s>>] = 0
    BY <1>0, <1>1, <1>3 DEF CoreFrozen, Directly, commit_exists
  <2> QED  BY <2>1, Zenon DEF CoreFrozen
<1>8. CoreEquilibrium(o)'
  <2> DEFINE i == AssetToIssue
             p == AssetToReap
             m == AssetToIssue'
             q == AssetToReap'
             t == TotalDeposit
             h == o.gap
  <2>1. i \in Int /\ p \in Int /\ m \in Int /\ q \in Int /\ h \in Int
    BY <1>0 DEF CoreTypes, DigestMoves, Assets, OthersTyped
  <2>2. m - q = i - p + k /\ TotalDigestValue = t + i - p + h
    BY <1>0 DEF DigestMoves, CoreEquilibrium
  <2>3. t \in Int
    BY <1>0, DepositSumTyped
  <2> HIDE DEF i, p, m, q, t, h
  <2>4. TotalDigestValue' = t + m - q + h
    BY <1>2, <2>1, <2>2, <2>3
  <2> QED  BY <1>3, <2>4 DEF CoreEquilibrium, t, m, q, h
<1>9. ReasonTotals'
  <2> SUFFICES ASSUME NEW s \in Reasons
               PROVE  (ReasonValue[s] = DigestValueOf(s))'
    BY DEF ReasonTotals
  <2>1. ReasonValue'[s] = ReasonValue[s] + (IF s = r THEN k ELSE 0)
    <3>1. ReasonValue[s] \in Int
      BY <1>0 DEF CoreTypes, Assets
    <3> QED  BY <1>0, <3>1 DEF DigestMoves, CoreTypes
  <2> QED  BY <1>0, <1>2, <2>1 DEF ReasonTotals
<1>10. Conservation'
  <2> DEFINE s == SumFunction(free) + SumFunction(hold)
             x == Cardinality(Who) * Funds
  <2>1. s + TotalDigestValue = x + adjusted /\ adjusted' = adjusted + k /\ adjusted \in Int
    BY <1>0 DEF Conservation, DigestMoves, CoreTypes
  <2>2. s \in Int /\ x \in Int
    <3>1. s \in Int
      <4>1. Assets \subseteq Int
        BY DEF Assets
      <4>2. SumFunction(free) \in Int /\ SumFunction(hold) \in Int
        BY <1>0, <4>1, FiniteAssumption, SumTyped DEF CoreTypes, SumFunction
      <4> QED  BY <4>2
    <3>2. Cardinality(Who) \in Nat /\ Funds \in Nat
      BY FiniteAssumption, FS_CardinalityType, CommitmentAssumption
    <3> QED  BY <3>1, <3>2, MulNat
  <2>3. SumFunction(free') + SumFunction(hold') = s
    BY <1>1
  <2> HIDE DEF s, x
  <2>4. s + TotalDigestValue' = x + adjusted'
    BY <1>2, <2>1, <2>2
  <2> QED  BY <2>3, <2>4 DEF Conservation, x
<1> QED  BY <1>4, <1>5, <1>6, <1>7, <1>8, <1>9, <1>10 DEF CoreInv, CoreBooks

\* One variant of a digest that exists is adjusted.
LEMMA Adjust ==
    ASSUME NEW o, CoreInv(o), NEW r \in Reasons, NEW d \in Digests, NEW v \in Positions,
           digest_exists(r, d), NEW b \in Balances, SoundBalance(b), NEW k \in Int,
           b.effective = DigestMap[<<r, d>>][v].effective + k,
           b.issued = DigestMap[<<r, d>>][v].issued,
           DigestMap' = [DigestMap EXCEPT ![<<r, d>>][v] = b],
           ReasonValue[r] + k \in Assets, ReasonValue' = [ReasonValue EXCEPT ![r] = @ + k],
           AssetToIssue' \in Assets, AssetToReap' \in Assets,
           AssetToIssue' - AssetToReap' = AssetToIssue - AssetToReap + k,
           adjusted' = adjusted + k, UNCHANGED <<accounts, CommitMap>>
    PROVE  CoreInv(o)'
<1> DEFINE old == DigestInfo(r, d)
           info == [old EXCEPT ![v] = b]
<1>0. CoreTypes(o) /\ BalancesSound /\ CoreHeld(o)
  BY DEF CoreInv
<1>1. <<r, d>> \in DOMAIN DigestMap /\ DigestMap[<<r, d>>] = old
  BY DEF digest_exists, DigestInfo
<1>2. old \in [Positions -> Balances] /\ \A u \in Positions : SoundBalance(old[u])
  BY <1>0, InfoSound
<1>3. DigestMap' = Insert(DigestMap, <<r, d>>, info)
  <2>1. DigestMap' = [DigestMap EXCEPT ![<<r, d>>] = info]
    BY <1>1
  <2> HIDE DEF info, old
  <2>2. DOMAIN DigestMap \cup {<<r, d>>} = DOMAIN DigestMap
    BY <1>1
  <2>3. DigestMap' = [y \in DOMAIN DigestMap |-> IF y = <<r, d>> THEN info ELSE DigestMap[y]]
    BY <1>1, <2>1
  <2> QED  BY <2>2, <2>3 DEF Insert
<1>4. b.effective = old[v].effective + k /\ b.issued = old[v].issued
  BY <1>1
<1> HIDE DEF old
<1>5. info \in [Positions -> Balances] /\ Values(info) = Values(old) + b.effective - old[v].effective
  BY <1>2, ValuesPut
<1>6. info[v] = b /\ \A u \in Positions \ {v} : info[u] = old[u]
  BY <1>2
<1> HIDE DEF info
<1>7. \A u \in Positions : SoundBalance(info[u]) /\ info[u].issued = old[u].issued
  BY <1>2, <1>4, <1>6
<1>8. Values(info) = Values(old) + k
  <2> DEFINE e == old[v].effective
             s == Values(old)
  <2>1. e \in Int /\ s \in Int /\ b.effective = e + k /\ Values(info) = s + b.effective - e
    BY <1>2, <1>4, <1>5, ShareBalanceAssumption, ValuesTyped DEF Balances
  <2> HIDE DEF e, s
  <2>2. Values(info) = s + k
    BY <2>1
  <2> QED  BY <2>2 DEF s
<1>9. /\ DigestPut(r, d, info)
      /\ DOMAIN DigestMap' = DOMAIN DigestMap \cup {<<r, d>>}
      /\ DOMAIN DigestMap' \subseteq Reasons \X Digests
      /\ \A x \in DOMAIN DigestMap' : DigestMap'[x] \in [Positions -> Balances]
      /\ BalancesSound'
  BY <1>0, <1>3, <1>5, <1>7, InsertDigest
<1>10. \A x \in DOMAIN CommitMap :
          CommitMap[x].digest \in Digests => digest_exists(x[2], CommitMap[x].digest)'
  BY <1>0, <1>9 DEF CoreHeld, digest_exists, accounts
<1>11. ReasonValue' \in [Reasons -> Assets]
  BY <1>0, ReasonMoves
<1>12. DigestMoves(r, d, info, k)
  BY <1>7, <1>8, <1>9, <1>10, <1>11 DEF DigestMoves, old
<1> QED  BY <1>5, <1>12, DigestMovesKeep

LEMMA SetValueKeeps ==
    ASSUME NEW o, CoreInv(o), NEW r \in Reasons, NEW d \in Digests, NEW v \in Positions,
           NEW x \in Amounts, SetDigestValue(r, d, v, x)
    PROVE  CoreInv(o)'
<1> PICK b : b = DigestMap[<<r, d>>][v]
  OBVIOUS
<1> DEFINE cur == b.effective
<1>0. /\ CoreTypes(o)
      /\ x \in Nat
      /\ x <= MaxAsset
      /\ MaxAsset \in Nat
      /\ MaxAdjust \in Nat
      /\ MaxAdjust <= MaxAsset
  BY ShareBalanceAssumption, CommitmentAssumption DEF CoreInv
<1>1. digest_exists(r, d) /\ UNCHANGED <<accounts, CommitMap>>
  BY DEF SetDigestValue
<1>2. b \in Balances /\ SoundBalance(b) /\ cur \in Nat
  <2>1. <<r, d>> \in DOMAIN DigestMap
    BY <1>1 DEF digest_exists
  <2>2. b \in Balances /\ SoundBalance(b)
    BY <2>1 DEF CoreInv, CoreTypes, BalancesSound
  <2> QED  BY <2>2, ShareBalanceAssumption DEF Balances
<1>3. /\ ReasonValue[r] \in Nat /\ ReasonValue[r] <= MaxAsset
      /\ AssetToIssue \in Nat /\ AssetToIssue <= MaxAsset
      /\ AssetToReap \in Nat /\ AssetToReap <= MaxAsset /\ adjusted \in Int
  BY <1>0 DEF CoreTypes, Assets
<1>4. CASE cur < x /\ MintSucceeds(b, x - cur)
            /\ AssetToIssue + (x - cur) <= MaxAdjust /\ ReasonValue[r] + (x - cur) <= MaxAsset
            /\ DigestMap' = [DigestMap EXCEPT ![<<r, d>>][v] = MintBalance(b, x - cur)]
            /\ AssetToIssue' = AssetToIssue + (x - cur)
            /\ ReasonValue' = [ReasonValue EXCEPT ![r] = @ + (x - cur)]
            /\ adjusted' = adjusted + (x - cur) /\ UNCHANGED AssetToReap
  <2> PICK k : k = x - cur
    OBVIOUS
  <2>1. k \in Nat /\ k # 0 /\ k \in Int /\ MintSucceeds(b, k)
    BY <1>0, <1>2, <1>4
  <2> PICK c : c = MintBalance(b, k)
    OBVIOUS
  <2>2. c \in Balances /\ SoundBalance(c) /\ c.effective = b.effective + k /\ c.issued = b.issued
    BY <1>2, <2>1, MintSound
  <2>3. ReasonValue[r] + k \in Assets /\ ReasonValue' = [ReasonValue EXCEPT ![r] = @ + k]
    BY <1>0, <1>3, <1>4, <2>1 DEF Assets
  <2>4. /\ AssetToIssue' \in Assets /\ AssetToReap' \in Assets
        /\ AssetToIssue' - AssetToReap' = AssetToIssue - AssetToReap + k
        /\ adjusted' = adjusted + k
    <3>1. /\ AssetToIssue' = AssetToIssue + k
          /\ AssetToIssue + k <= MaxAsset
          /\ AssetToReap' = AssetToReap
          /\ adjusted' = adjusted + k
      BY <1>0, <1>3, <1>4, <2>1
    <3> HIDE DEF cur
    <3> QED  BY <1>0, <1>3, <2>1, <3>1 DEF Assets
  <2>5. DigestMap' = [DigestMap EXCEPT ![<<r, d>>][v] = c]
    BY <1>4
  <2> QED  BY <1>1, <2>1, <2>2, <2>3, <2>4, <2>5, Adjust
<1>5. CASE cur > x /\ ReapSucceeds(b, cur - x)
            /\ AssetToReap + (cur - x) <= MaxAdjust /\ cur - x <= ReasonValue[r]
            /\ DigestMap' = [DigestMap EXCEPT ![<<r, d>>][v] = ReapBalance(b, cur - x)]
            /\ AssetToReap' = AssetToReap + (cur - x)
            /\ ReasonValue' = [ReasonValue EXCEPT ![r] = @ - (cur - x)]
            /\ adjusted' = adjusted - (cur - x) /\ UNCHANGED AssetToIssue
  <2> PICK n : n = cur - x
    OBVIOUS
  <2> PICK k : k = 0 - n
    OBVIOUS
  <2>1. n \in Nat /\ n # 0 /\ k \in Int /\ ReapSucceeds(b, n)
    BY <1>0, <1>2, <1>5
  <2> PICK c : c = ReapBalance(b, n)
    OBVIOUS
  <2>2. c \in Balances /\ SoundBalance(c) /\ c.effective = b.effective + k /\ c.issued = b.issued
    <3>1. c \in Balances /\ SoundBalance(c) /\ c.effective = b.effective - n /\ c.issued = b.issued
      BY <1>2, <2>1, ReapSound
    <3> QED  BY <1>2, <2>1, <3>1
  <2>3. ReasonValue[r] + k \in Assets /\ ReasonValue' = [ReasonValue EXCEPT ![r] = @ + k]
    <3>1. ReasonValue[r] - n = ReasonValue[r] + k /\ ReasonValue[r] + k \in Assets
      BY <1>0, <1>3, <1>5, <2>1 DEF Assets
    <3> QED  BY <1>5, <3>1
  <2>4. /\ AssetToIssue' \in Assets /\ AssetToReap' \in Assets
        /\ AssetToIssue' - AssetToReap' = AssetToIssue - AssetToReap + k
        /\ adjusted' = adjusted + k
    <3>1. /\ AssetToReap' = AssetToReap + n
          /\ AssetToReap + n <= MaxAsset
          /\ AssetToIssue' = AssetToIssue
          /\ adjusted' = adjusted - n
      BY <1>0, <1>3, <1>5, <2>1
    <3> HIDE DEF cur
    <3> QED  BY <1>0, <1>3, <2>1, <3>1 DEF Assets
  <2>5. DigestMap' = [DigestMap EXCEPT ![<<r, d>>][v] = c]
    BY <1>5
  <2> QED  BY <1>1, <2>1, <2>2, <2>3, <2>4, <2>5, Adjust
<1> QED  BY <1>4, <1>5 DEF SetDigestValue, TotalValue

\* A set of variants that is not empty has a last one.
LEMMA LastPosition ==
    ASSUME NEW U \in SUBSET Positions, U # {}
    PROVE  \E p \in U : \A q \in U : q <= p
<1> DEFINE M == {n \in Nat : \E p \in U : n = VARIANT_COUNT - p}
<1>1. VARIANT_COUNT \in Nat /\ \A p \in U : p \in Nat /\ p < VARIANT_COUNT
  BY CommitmentAssumption DEF Positions
<1>2. IsWellFoundedOn(OpToRel(<, Nat), Nat)
  BY NatLessThanWellFounded
<1>3. M \subseteq Nat /\ M # {}
  <2>1. PICK p \in U : TRUE
    OBVIOUS
  <2>2. VARIANT_COUNT - p \in M
    BY <1>1
  <2> QED  BY <2>2
<1> HIDE DEF M
<1>4. PICK n \in M : \A m \in M : ~ (<<m, n>> \in OpToRel(<, Nat))
  BY <1>2, <1>3, WFMin
<1>5. \A m \in M : ~ (m < n)
  BY <1>3, <1>4 DEF OpToRel
<1>6. PICK p \in U : n = VARIANT_COUNT - p
  BY DEF M
<1>7. ASSUME NEW q \in U
      PROVE  q <= p
  <2>1. VARIANT_COUNT - q \in M
    BY <1>1 DEF M
  <2>2. ~ (VARIANT_COUNT - q < VARIANT_COUNT - p)
    BY <1>5, <1>6, <2>1
  <2>3. p \in Nat /\ q \in Nat
    BY <1>1
  <2> QED  BY <1>1, <2>2, <2>3
<1> QED  BY <1>7

\* A digest without deposits is worth nothing, and nothing of it remains.
LEMMA NothingRemains ==
    ASSUME NEW info \in [Positions -> Balances], \A v \in Positions : SoundBalance(info[v]),
           \A p \in Positions : ~ HasDeposits(info[p])
    PROVE  /\ \A p \in Positions : info[p].issued = 0 /\ info[p].effective = 0
           /\ Values(info) = 0
           /\ Remaining(info) = 0
<1>1. ASSUME NEW p \in Positions
      PROVE  info[p].issued = 0 /\ info[p].effective = 0
  <2>1. info[p] \in Balances /\ SoundBalance(info[p]) /\ ~ HasDeposits(info[p])
    OBVIOUS
  <2> DEFINE b == info[p]
  <2> HIDE DEF b
  <2>2. CASE b.init
    BY <2>1, <2>2 DEF SoundBalance, HasDeposits, b
  <2>3. CASE ~ b.init
    <3>1. b = FreshBalance
      BY <2>1, <2>3 DEF SoundBalance, b
    <3> QED  BY <3>1 DEF FreshBalance, b
  <2> QED  BY <2>2, <2>3
<1>2. Values(info) = 0
  <2> DEFINE f == [p \in Positions |-> TotalValue(info[p])]
  <2>1. DOMAIN f = Positions /\ \A p \in Positions : f[p] = 0
    BY <1>1 DEF TotalValue
  <2>2. Values(info) = SumFunction(f)
    BY DEF Values
  <2> HIDE DEF f
  <2> QED  BY <2>1, <2>2, PositionsFinite, SumOfZeros
<1>3. Remaining(info) = 0
  <2> DEFINE used == {p \in Positions : info[p] # FreshBalance}
             last == CHOOSE p \in used : \A q \in used : q <= p
  <2>1. CASE used = {}
    BY <2>1 DEF Remaining
  <2>2. CASE used # {}
    <3>1. \E p \in used : \A q \in used : q <= p
      <4>1. used \in SUBSET Positions
        OBVIOUS
      <4> HIDE DEF used
      <4> QED  BY <2>2, <4>1, LastPosition
    <3>2. last \in used
      <4> HIDE DEF used
      <4> QED  BY <3>1
    <3>3. Remaining(info) = TotalValue(info[last])
      BY <2>2 DEF Remaining
    <3>4. last \in Positions
      BY <3>2
    <3> HIDE DEF last, used
    <3> QED  BY <1>1, <3>3, <3>4 DEF TotalValue
  <2> QED  BY <2>1, <2>2
<1> QED  BY <1>1, <1>2, <1>3

\* Whoever is committed holds shares of the variant that are issued.
LEMMA CommittedIsIssued ==
    ASSUME NEW o, CoreInv(o), NEW w \in Who, NEW r \in Reasons, commit_exists(w, r),
           CommitMap[<<w, r>>].digest \in Digests
    PROVE  DigestInfo(r, CommitMap[<<w, r>>].digest)[CommitMap[<<w, r>>].variant].issued # 0
<1> PICK d, v : d = CommitMap[<<w, r>>].digest /\ v = CommitMap[<<w, r>>].variant
  OBVIOUS
<1> DEFINE commits == CommitMap[<<w, r>>].commits
           f == [y \in Who |-> SharesOf(y, r, d, v)]
<1>1. /\ commits \in Seq(Receipts) /\ Len(commits) \in 1 .. MaxCommits
      /\ d \in Digests /\ v \in Positions
  BY CommitTyped DEF CoreInv
<1>2. \A n \in DOMAIN commits : commits[n].shares # 0
  BY DEF CoreInv, DirectCount, commit_exists
<1>3. SharesOf(w, r, d, v) = Shares(commits)
  BY DEF SharesOf
<1> HIDE DEF commits
<1>4. Shares(commits) \in Nat /\ Shares(commits) # 0
  <2> DEFINE g == [i \in DOMAIN commits |-> commits[i].shares]
  <2>1. DOMAIN commits = 1 .. Len(commits) /\ \A i \in DOMAIN commits : commits[i].shares \in Nat
    BY <1>1, ReceiptSums
  <2>2. IsFiniteSet(DOMAIN commits) /\ 1 \in DOMAIN commits
    BY <1>1, <2>1, FS_Interval, CommitmentAssumption
  <2>3. DOMAIN g = DOMAIN commits /\ (\A i \in DOMAIN commits : g[i] \in Nat) /\ g[1] # 0
    BY <1>2, <2>1, <2>2
  <2>4. Shares(commits) = SumFunction(g)
    BY DEF Shares
  <2> HIDE DEF g
  <2>5. SumFunction(g) \in Nat /\ g[1] <= SumFunction(g)
    BY <2>2, <2>3, SumOfNats
  <2> QED  BY <2>2, <2>3, <2>4, <2>5
<1>5. /\ DigestInfo(r, d)[v].issued = SharesIn(r, d, v) + o.shares[<<r, d, v>>]
      /\ o.shares[<<r, d, v>>] \in Nat
  BY <1>1 DEF CoreInv, CoreHeld, CoreTypes, OthersTyped
<1>6. \A y \in Who : f[y] \in Nat
  BY DepositTyped DEF CoreInv
<1>7. f[w] = Shares(commits) /\ SharesIn(r, d, v) = SumFunction(f) /\ DOMAIN f = Who
  BY <1>3 DEF SharesIn
<1> HIDE DEF f
<1>8. f[w] <= SumFunction(f) /\ SumFunction(f) \in Nat
  BY <1>6, <1>7, FiniteAssumption, SumOfNats
<1> QED  BY <1>4, <1>5, <1>7, <1>8

LEMMA ReapKeeps ==
    ASSUME NEW o, CoreInv(o), NEW r \in Reasons, NEW d \in Digests, ReapDigest(r, d)
    PROVE  CoreInv(o)'
<1> PICK old : old = DigestMap[<<r, d>>]
  OBVIOUS
<1>0. CoreTypes(o) /\ BalancesSound /\ CoreHeld(o)
  BY DEF CoreInv
<1>1. /\ <<r, d>> \in DOMAIN DigestMap
      /\ \A p \in Positions : ~ HasDeposits(old[p])
      /\ AssetToReap' = AssetToReap + Remaining(old)
      /\ ReasonValue' = [ReasonValue EXCEPT ![r] = @ - Remaining(old)]
      /\ adjusted' = adjusted - Remaining(old)
      /\ DigestMap' = Delete(DigestMap, <<r, d>>)
      /\ UNCHANGED <<accounts, CommitMap, AssetToIssue>>
  BY DEF ReapDigest, digest_exists
<1>2. old \in [Positions -> Balances] /\ (\A u \in Positions : SoundBalance(old[u])) /\ DigestInfo(r, d) = old
  BY <1>0, <1>1 DEF CoreTypes, BalancesSound, DigestInfo, digest_exists
<1>3. /\ \A p \in Positions : old[p].issued = 0 /\ old[p].effective = 0
      /\ Values(old) = 0 /\ Remaining(old) = 0
  BY <1>1, <1>2, NothingRemains
<1>4. /\ NoDigestInfo \in [Positions -> Balances]
      /\ \A u \in Positions : SoundBalance(NoDigestInfo[u]) /\ ~ HasDeposits(NoDigestInfo[u])
  <2>1. FreshBalance \in Balances /\ ~ HasDeposits(FreshBalance)
    BY ShareBalanceAssumption DEF FreshBalance, Balances, HasDeposits
  <2>2. SoundBalance(FreshBalance)
    BY ShareBalanceAssumption DEF FreshBalance, SoundBalance
  <2> QED  BY <2>1, <2>2 DEF NoDigestInfo
<1>5. Values(NoDigestInfo) = 0 /\ \A p \in Positions : NoDigestInfo[p].issued = 0
  BY <1>4, NothingRemains
<1>6. /\ DOMAIN DigestMap' = DOMAIN DigestMap \ {<<r, d>>}
      /\ \A x \in DOMAIN DigestMap' : DigestMap'[x] = DigestMap[x]
  BY <1>1 DEF Delete
<1>7. DigestPut(r, d, NoDigestInfo)
  <2>1. DigestInfo(r, d)' = NoDigestInfo
    BY <1>6 DEF DigestInfo, digest_exists, NoDigestInfo
  <2>2. ASSUME NEW s \in Reasons, NEW e \in Digests, s # r \/ e # d
        PROVE  DigestInfo(s, e)' = DigestInfo(s, e)
    <3>1. <<s, e>> # <<r, d>>
      BY <2>2
    <3>2. <<s, e>> \in DOMAIN DigestMap' <=> <<s, e>> \in DOMAIN DigestMap
      BY <1>6, <3>1
    <3> QED  BY <1>6, <3>2 DEF DigestInfo, digest_exists, NoDigestInfo
  <2> QED  BY <2>1, <2>2 DEF DigestPut
<1>8. /\ DOMAIN DigestMap' \subseteq Reasons \X Digests
      /\ \A x \in DOMAIN DigestMap' : DigestMap'[x] \in [Positions -> Balances]
      /\ BalancesSound'
  BY <1>0, <1>6 DEF CoreTypes, BalancesSound
<1>9. ASSUME NEW x \in DOMAIN CommitMap, CommitMap[x].digest \in Digests
      PROVE  digest_exists(x[2], CommitMap[x].digest)'
  <2>1. PICK y \in Who, s \in Reasons : x = <<y, s>>
    BY <1>0 DEF CoreTypes
  <2>2. CASE s = r /\ CommitMap[x].digest = d
    <3>1. commit_exists(y, s) /\ CommitMap[<<y, s>>].variant \in Positions
      BY <1>0, <2>1, CommitTyped DEF commit_exists
    <3>2. DigestInfo(s, CommitMap[<<y, s>>].digest)[CommitMap[<<y, s>>].variant].issued # 0
      BY <1>9, <2>1, <3>1, CommittedIsIssued
    <3> QED  BY <1>2, <1>3, <2>1, <2>2, <3>1, <3>2
  <2>3. CASE ~ (s = r /\ CommitMap[x].digest = d)
    <3>1. <<s, CommitMap[x].digest>> \in DOMAIN DigestMap
      BY <1>0, <1>9, <2>1 DEF CoreHeld, digest_exists
    <3>2. <<s, CommitMap[x].digest>> # <<r, d>>
      BY <2>3
    <3>3. <<s, CommitMap[x].digest>> \in DOMAIN DigestMap'
      BY <1>6, <3>1, <3>2
    <3>4. CommitMap' = CommitMap
      BY <1>1
    <3> QED  BY <2>1, <3>3, <3>4 DEF digest_exists
  <2> QED  BY <2>2, <2>3
<1> PICK k : k = 0
  OBVIOUS
<1>10. /\ ReasonValue' \in [Reasons -> Assets] /\ ReasonValue' = [ReasonValue EXCEPT ![r] = @ + k]
       /\ AssetToIssue' \in Assets /\ AssetToReap' \in Assets
       /\ AssetToIssue' - AssetToReap' = AssetToIssue - AssetToReap + k
       /\ adjusted' = adjusted + k
       /\ k \in Int
  <2>1. /\ ReasonValue[r] \in Int /\ AssetToReap \in Int /\ AssetToIssue \in Int /\ adjusted \in Int
        /\ ReasonValue[r] \in Assets
    BY <1>0 DEF CoreTypes, Assets
  <2>2. ReasonValue[r] - 0 = ReasonValue[r] + k /\ ReasonValue[r] + k \in Assets /\ k \in Int
    BY <2>1
  <2>3. ReasonValue' = [ReasonValue EXCEPT ![r] = @ + k]
    BY <1>1, <1>3, <2>2
  <2>4. ReasonValue' \in [Reasons -> Assets]
    BY <1>0, <2>2, <2>3, ReasonMoves
  <2>5. AssetToReap' = AssetToReap /\ AssetToIssue' = AssetToIssue /\ adjusted' = adjusted + k
    BY <1>1, <1>3, <2>1
  <2>6. AssetToIssue' \in Assets /\ AssetToReap' \in Assets
    BY <1>0, <2>5 DEF CoreTypes
  <2>7. AssetToIssue' - AssetToReap' = AssetToIssue - AssetToReap + k
    BY <2>1, <2>5
  <2> QED  BY <2>3, <2>4, <2>5, <2>6, <2>7
<1>11. /\ \A p \in Positions : NoDigestInfo[p].issued = DigestInfo(r, d)[p].issued
       /\ Values(NoDigestInfo) = Values(DigestInfo(r, d)) + k
  BY <1>2, <1>3, <1>5
<1>12. UNCHANGED <<accounts, CommitMap>>
  BY <1>1
<1>13. DigestMoves(r, d, NoDigestInfo, k)
  BY <1>7, <1>8, <1>9, <1>10, <1>11, <1>12 DEF DigestMoves
<1> QED  BY <1>4, <1>10, <1>13, DigestMovesKeep

\* Points that move between accounts, or between liquid and held.
LEMMA FundsMove ==
    ASSUME NEW o, CoreInv(o), free' \in [Who -> Assets], hold' \in [Who -> Assets],
           SumFunction(free') + SumFunction(hold') = SumFunction(free) + SumFunction(hold),
           UNCHANGED <<frozen, DigestMap, CommitMap, AssetToIssue, AssetToReap, ReasonValue, adjusted>>
    PROVE  CoreInv(o)'
<1>0. /\ CoreTypes(o) /\ BalancesSound /\ CoreHeld(o) /\ DirectCount
      /\ CoreFrozen(o) /\ CoreEquilibrium(o) /\ ReasonTotals /\ Conservation
  BY DEF CoreInv, CoreBooks
<1>1. /\ TotalDeposit' = TotalDeposit
      /\ \A y, s : DepositOf(y, s)' = DepositOf(y, s)
      /\ \A s, e, v : SharesIn(s, e, v)' = SharesIn(s, e, v)
      /\ \A x \in DOMAIN CommitMap' :
            CommitMap'[x] \in CoreInfos(o) /\ Len(CommitMap'[x].commits) \in 1 .. MaxCommits
  BY <1>0, CommitsStay
<1>2. \A s, e : DigestInfo(s, e)' = DigestInfo(s, e)
  BY DEF DigestInfo, digest_exists, NoDigestInfo
<1>3. \A s : DigestValueOf(s)' = DigestValueOf(s)
  BY <1>2 DEF DigestValueOf
<1>4. TotalDigestValue' = TotalDigestValue
  BY <1>3 DEF TotalDigestValue
<1>5. CoreTypes(o)'
  <2>1. /\ frozen' \in [Who \X Reasons -> Assets]
        /\ DOMAIN DigestMap' \subseteq Reasons \X Digests
        /\ \A x \in DOMAIN DigestMap' : DigestMap'[x] \in [Positions -> Balances]
        /\ DOMAIN CommitMap' \subseteq Who \X Reasons
        /\ AssetToIssue' \in Assets /\ AssetToReap' \in Assets
        /\ ReasonValue' \in [Reasons -> Assets] /\ adjusted' \in Int
    BY <1>0 DEF CoreTypes
  <2>2. OthersTyped(o)'
    BY <1>0 DEF CoreTypes, OthersTyped, Positions
  <2> QED  BY <1>1, <2>1, <2>2 DEF CoreTypes, Positions, Assets, Balances, CoreInfos, Receipts
<1>6. BalancesSound' /\ DirectCount'
  BY <1>0 DEF BalancesSound, DirectCount, Positions
<1>7. CoreHeld(o)'
  <2>1. \A x \in DOMAIN CommitMap' :
           CommitMap'[x].digest \in Digests => digest_exists(x[2], CommitMap[x].digest)'
    BY <1>0 DEF CoreHeld, digest_exists
  <2>2. \A s \in Reasons, e \in Digests, v \in Positions :
           DigestInfo(s, e)'[v].issued = SharesIn(s, e, v)' + o.shares[<<s, e, v>>]
    BY <1>0, <1>1, <1>2 DEF CoreHeld
  <2> QED  BY <2>1, <2>2 DEF CoreHeld, Positions
<1>8. CoreFrozen(o)'
  <2>1. ASSUME NEW w \in Who, NEW s \in Reasons
        PROVE  /\ frozen'[<<w, s>>] = DepositOf(w, s)' + o.frozen[<<w, s>>]
               /\ Directly(w, s)' => o.frozen[<<w, s>>] = 0
    BY <1>0, <1>1 DEF CoreFrozen, Directly, commit_exists
  <2> QED  BY <2>1, Zenon DEF CoreFrozen
<1>9. CoreEquilibrium(o)'
  BY <1>0, <1>1, <1>4 DEF CoreEquilibrium
<1>10. ReasonTotals'
  BY <1>0, <1>3 DEF ReasonTotals
<1>11. Conservation'
  BY <1>0, <1>4 DEF Conservation
<1> QED  BY <1>5, <1>6, <1>7, <1>8, <1>9, <1>10, <1>11 DEF CoreInv, CoreBooks

LEMMA ReserveMoves ==
    ASSUME NEW o, CoreInv(o), NEW w \in Who,
           free' \in [Who -> Assets], \A y \in Who \ {w} : free'[y] = free[y],
           hold' \in [Who -> Assets], \A y \in Who \ {w} : hold'[y] = hold[y],
           free'[w] + hold'[w] = free[w] + hold[w],
           UNCHANGED <<frozen, DigestMap, CommitMap, AssetToIssue, AssetToReap, ReasonValue, adjusted>>
    PROVE  CoreInv(o)'
<1> DEFINE s == SumFunction(free) + SumFunction(hold)
           f == free'[w] + hold'[w]
           a == free[w] + hold[w]
<1>1. s \in Int /\ SumFunction(free') + SumFunction(hold') = s + (f - a) /\ f \in Int
  BY FundsTotals DEF CoreInv
<1>2. f = a
  OBVIOUS
<1> HIDE DEF s, f, a
<1>3. SumFunction(free') + SumFunction(hold') = s
  BY <1>1, <1>2
<1> QED  BY <1>3, FundsMove DEF s

LEMMA DepositReserveKeeps ==
    ASSUME NEW o, CoreInv(o), NEW w \in Who, NEW x \in Reserves, NEW exact, DepositReserve(w, x, exact)
    PROVE  CoreInv(o)'
<1> PICK put : put = Least(x, free[w])
  OBVIOUS
<1> PICK a, h : a = free[w] - put /\ h = hold[w] + put
  OBVIOUS
<1>0. CoreTypes(o)
  BY DEF CoreInv
<1>1. /\ free' = [free EXCEPT ![w] = a] /\ hold' = [hold EXCEPT ![w] = h] /\ h <= MaxAsset
      /\ UNCHANGED <<frozen, DigestMap, CommitMap, AssetToIssue, AssetToReap, ReasonValue, adjusted>>
  BY DEF DepositReserve
<1>2. /\ a \in Nat /\ a <= MaxAsset /\ h \in Nat
      /\ a + h = free[w] + hold[w]
  <2>1. free[w] \in Nat /\ free[w] <= MaxAsset /\ hold[w] \in Nat /\ x \in Nat /\ MaxAsset \in Nat
    BY <1>0, ShareBalanceAssumption, CommitmentAssumption DEF CoreTypes, Assets
  <2> QED  BY <2>1 DEF Least
<1>3. /\ free' \in [Who -> Assets] /\ \A y \in Who \ {w} : free'[y] = free[y]
      /\ hold' \in [Who -> Assets] /\ \A y \in Who \ {w} : hold'[y] = hold[y]
      /\ free'[w] = a /\ hold'[w] = h
  BY <1>0, <1>1, <1>2, PaidOut
<1>4. free'[w] + hold'[w] = free[w] + hold[w]
  BY <1>2, <1>3
<1> QED  BY <1>1, <1>3, <1>4, ReserveMoves

LEMMA WithdrawReserveKeeps ==
    ASSUME NEW o, CoreInv(o), NEW w \in Who, NEW x \in Nat, WithdrawReserve(w, x)
    PROVE  CoreInv(o)'
<1> PICK a, h : a = free[w] + x /\ h = hold[w] - x
  OBVIOUS
<1>0. CoreTypes(o)
  BY DEF CoreInv
<1>1. /\ free' = [free EXCEPT ![w] = a] /\ hold' = [hold EXCEPT ![w] = h]
      /\ a <= MaxAsset /\ x <= hold[w]
      /\ UNCHANGED <<frozen, DigestMap, CommitMap, AssetToIssue, AssetToReap, ReasonValue, adjusted>>
  BY DEF WithdrawReserve
<1>2. /\ a \in Nat /\ h \in Nat /\ h <= MaxAsset
      /\ a + h = free[w] + hold[w]
  <2>1. free[w] \in Nat /\ hold[w] \in Nat /\ hold[w] <= MaxAsset /\ MaxAsset \in Nat
    BY <1>0, ShareBalanceAssumption DEF CoreTypes, Assets
  <2> QED  BY <1>1, <2>1
<1>3. /\ free' \in [Who -> Assets] /\ \A y \in Who \ {w} : free'[y] = free[y]
      /\ hold' \in [Who -> Assets] /\ \A y \in Who \ {w} : hold'[y] = hold[y]
      /\ free'[w] = a /\ hold'[w] = h
  BY <1>0, <1>1, <1>2, PaidOut
<1>4. free'[w] + hold'[w] = free[w] + hold[w]
  BY <1>2, <1>3
<1> QED  BY <1>1, <1>3, <1>4, ReserveMoves

LEMMA NothingMoves ==
    ASSUME NEW o, CoreInv(o), UNCHANGED vars
    PROVE  CoreInv(o)'
<1>1. free' = free /\ hold' = hold
  BY DEF vars, accounts
<1>2. free' \in [Who -> Assets] /\ hold' \in [Who -> Assets]
  BY <1>1 DEF CoreInv, CoreTypes
<1>3. SumFunction(free') + SumFunction(hold') = SumFunction(free) + SumFunction(hold)
  BY <1>1
<1>4. UNCHANGED <<frozen, DigestMap, CommitMap, AssetToIssue, AssetToReap, ReasonValue, adjusted>>
  BY DEF vars, accounts
<1> QED  BY <1>2, <1>3, <1>4, FundsMove

-----------------------------------------------------------------------------
(* The theorems *)

LEMMA InitInv ==
    ASSUME Init, NEW o, Alone(o)
    PROVE  CoreInv(o)
<1>1. DOMAIN DigestMap = {} /\ DOMAIN CommitMap = {}
  BY DEF Init, EmptyMap
<1>2. /\ \A w, r : ~ commit_exists(w, r) /\ DepositOf(w, r) = 0
      /\ \A w, r, d, v : SharesOf(w, r, d, v) = 0
      /\ \A r, d : DigestInfo(r, d) = NoDigestInfo
  BY <1>1 DEF commit_exists, DepositOf, SharesOf, DigestInfo, digest_exists
<1>3. /\ NoDigestInfo \in [Positions -> Balances]
      /\ \A u \in Positions : SoundBalance(NoDigestInfo[u]) /\ ~ HasDeposits(NoDigestInfo[u])
  <2>1. FreshBalance \in Balances /\ ~ HasDeposits(FreshBalance)
    BY ShareBalanceAssumption DEF FreshBalance, Balances, HasDeposits
  <2>2. SoundBalance(FreshBalance)
    BY ShareBalanceAssumption DEF FreshBalance, SoundBalance
  <2> QED  BY <2>1, <2>2 DEF NoDigestInfo
<1>4. Values(NoDigestInfo) = 0 /\ \A p \in Positions : NoDigestInfo[p].issued = 0
  BY <1>3, NothingRemains
<1>5. \A r : DigestValueOf(r) = 0
  <2>1. ASSUME NEW r
        PROVE  DigestValueOf(r) = 0
    <3> DEFINE f == [d \in Digests |-> Values(DigestInfo(r, d))]
    <3>1. DOMAIN f = Digests /\ \A d \in Digests : f[d] = 0
      BY <1>2, <1>4
    <3>2. DigestValueOf(r) = SumFunction(f)
      BY DEF DigestValueOf
    <3> HIDE DEF f
    <3> QED  BY <3>1, <3>2, FiniteAssumption, SumOfZeros
  <2> QED  BY <2>1
<1>6. TotalDigestValue = 0
  <2> DEFINE f == [r \in Reasons |-> DigestValueOf(r)]
  <2>1. DOMAIN f = Reasons /\ \A r \in Reasons : f[r] = 0
    BY <1>5
  <2>2. TotalDigestValue = SumFunction(f)
    BY DEF TotalDigestValue
  <2> HIDE DEF f
  <2> QED  BY <2>1, <2>2, FiniteAssumption, SumOfZeros
<1>7. TotalDeposit = 0
  <2> DEFINE f == [x \in Who \X Reasons |-> DepositOf(x[1], x[2])]
  <2>1. IsFiniteSet(DOMAIN f) /\ \A x \in DOMAIN f : f[x] = 0
    BY <1>2, FiniteAssumption, FS_Product
  <2>2. TotalDeposit = SumFunction(f)
    BY DEF TotalDeposit
  <2> HIDE DEF f
  <2> QED  BY <2>1, <2>2, SumOfZeros
<1>8. \A r, d, v : SharesIn(r, d, v) = 0
  <2>1. ASSUME NEW r, NEW d, NEW v
        PROVE  SharesIn(r, d, v) = 0
    <3> DEFINE f == [w \in Who |-> SharesOf(w, r, d, v)]
    <3>1. DOMAIN f = Who /\ \A w \in Who : f[w] = 0
      BY <1>2
    <3>2. SharesIn(r, d, v) = SumFunction(f)
      BY DEF SharesIn
    <3> HIDE DEF f
    <3> QED  BY <3>1, <3>2, FiniteAssumption, SumOfZeros
  <2> QED  BY <2>1
<1>9. CoreTypes(o)
  <2>1. 0 \in Assets /\ Funds \in Assets
    BY ShareBalanceAssumption, CommitmentAssumption DEF Assets
  <2> QED  BY <1>1, <2>1 DEF Init, CoreTypes, Alone, OthersTyped
<1>10. BalancesSound /\ DirectCount
  BY <1>1 DEF BalancesSound, DirectCount
<1>11. CoreHeld(o)
  BY <1>1, <1>2, <1>4, <1>8 DEF CoreHeld, Alone
<1>12. CoreFrozen(o) /\ ReasonTotals
  BY <1>2, <1>5 DEF Init, CoreFrozen, ReasonTotals, Alone
<1>13. CoreEquilibrium(o)
  BY <1>6, <1>7 DEF Init, CoreEquilibrium, Alone
<1>14. Conservation
  <2>1. Funds \in Int
    BY CommitmentAssumption
  <2>2. DOMAIN free = Who /\ DOMAIN hold = Who /\ \A w \in Who : free[w] = Funds /\ hold[w] = 0
    BY DEF Init
  <2>3. SumFunction(free) = Cardinality(Who) * Funds
    BY <2>1, <2>2, FiniteAssumption, SumConstant DEF SumFunction
  <2>4. SumFunction(hold) = 0
    BY <2>2, FiniteAssumption, SumOfZeros
  <2>5. Cardinality(Who) * Funds \in Int
    BY <2>1, FiniteAssumption, FS_CardinalityType
  <2> DEFINE x == Cardinality(Who) * Funds
  <2> HIDE DEF x
  <2>6. x + 0 + 0 = x + 0
    BY <2>5 DEF x
  <2>7. SumFunction(free) + SumFunction(hold) + TotalDigestValue = x + adjusted
    BY <1>6, <2>3, <2>4, <2>6 DEF Init, x
  <2> QED  BY <2>7 DEF Conservation, x
<1> QED  BY <1>9, <1>10, <1>11, <1>12, <1>13, <1>14 DEF CoreInv, CoreBooks

LEMMA StepInv ==
    ASSUME NEW o, CoreInv(o), [Next]_vars
    PROVE  CoreInv(o)'
<1>0. Reserves \subseteq Nat
  BY ShareBalanceAssumption, CommitmentAssumption
<1>1. ASSUME NEW w \in Who, NEW x \in Reserves, NEW exact \in BOOLEAN, DepositReserve(w, x, exact)
      PROVE  CoreInv(o)'
  BY <1>1, DepositReserveKeeps
<1>2. ASSUME NEW w \in Who, NEW x \in Reserves, WithdrawReserve(w, x)
      PROVE  CoreInv(o)'
  BY <1>0, <1>2, WithdrawReserveKeeps
<1>3. ASSUME NEW w \in Who, WithdrawReserve(w, hold[w])
      PROVE  CoreInv(o)'
  <2>1. hold[w] \in Nat
    BY DEF CoreInv, CoreTypes, Assets
  <2> QED  BY <1>3, <2>1, WithdrawReserveKeeps
<1>4. ASSUME NEW w \in Who, NEW x \in Amounts, NEW r \in Reasons, NEW p \in Policies, RaiseCommit(w, r, x, p)
      PROVE  CoreInv(o)'
  BY <1>4, RaiseKeeps
<1>5. ASSUME NEW w \in Who, NEW x \in Amounts, NEW r \in Reasons, NEW p \in Policies,
             NEW d \in Digests, NEW v \in Positions, PlaceCommit(w, r, d, v, x, p)
      PROVE  CoreInv(o)'
  BY <1>5, PlaceKeeps
<1>6. ASSUME NEW w \in Who, NEW r \in Reasons, ResolveCommit(w, r)
      PROVE  CoreInv(o)'
  BY <1>6, ResolveKeeps
<1>7. ASSUME NEW w \in Who, NEW r \in Reasons, NEW v \in Positions, NEW p \in Policies,
             SetCommitVariant(w, r, v, p)
      PROVE  CoreInv(o)'
  BY <1>7, SetVariantKeeps
<1>8. ASSUME NEW r \in Reasons, NEW d \in Digests, ReapDigest(r, d)
      PROVE  CoreInv(o)'
  BY <1>8, ReapKeeps
<1>9. ASSUME NEW r \in Reasons, NEW d \in Digests, NEW v \in Positions, NEW x \in Amounts,
             SetDigestValue(r, d, v, x)
      PROVE  CoreInv(o)'
  BY <1>9, SetValueKeeps
<1>10. CASE UNCHANGED vars
  BY <1>10, NothingMoves
<1> QED  BY <1>1, <1>2, <1>3, <1>4, <1>5, <1>6, <1>7, <1>8, <1>9, <1>10 DEF Next

LEMMA NobodyElse == Alone(OnlyDirect)
  BY DEF Alone, OnlyDirect

LEMMA TypesAlone ==
    ASSUME TypeOK
    PROVE  CoreTypes(OnlyDirect)
<1>1. OnlyDirect.ids = Digests /\ OthersTyped(OnlyDirect)
  BY DEF OnlyDirect, OthersTyped
<1>2. CoreInfos(OnlyDirect) = CommitInfos
  BY <1>1 DEF CoreInfos, CommitInfos
<1> QED  BY <1>1, <1>2 DEF TypeOK, CoreTypes

LEMMA DirectInv ==
    ASSUME CoreInv(OnlyDirect)
    PROVE  CommitmentInv
<1>1. /\ OnlyDirect.ids = Digests /\ OnlyDirect.gap = 0
      /\ \A r \in Reasons, d \in Digests, v \in Positions : OnlyDirect.shares[<<r, d, v>>] = 0
      /\ \A w \in Who, r \in Reasons : OnlyDirect.frozen[<<w, r>>] = 0
  BY DEF OnlyDirect
<1> DEFINE o == OnlyDirect
<1>2. CoreTypes(o) /\ BalancesSound /\ DirectCount /\ CoreBooks(o) /\ CoreHeld(o)
  BY DEF CoreInv
<1> HIDE DEF o
<1>3. CoreInfos(o) = CommitInfos
  BY <1>1 DEF CoreInfos, CommitInfos, o
<1>4. TypeOK
  BY <1>2, <1>3 DEF CoreTypes, TypeOK
<1>5. \A x \in DOMAIN CommitMap : CommitMap[x].digest \in Digests
  BY <1>4 DEF TypeOK, CommitInfos
<1>6. ReceiptsCount
  BY <1>2, <1>5 DEF DirectCount, ReceiptsCount
<1>7. FrozenIsDeposit
  <2>1. ASSUME NEW w \in Who, NEW r \in Reasons
        PROVE  frozen[<<w, r>>] = DepositOf(w, r)
    <3>1. frozen[<<w, r>>] = DepositOf(w, r) + 0
      BY <1>1, <1>2 DEF CoreBooks, CoreFrozen, o
    <3>2. DepositOf(w, r) \in Nat
      BY <1>2, DepositTyped
    <3> QED  BY <3>1, <3>2
  <2> QED  BY <2>1 DEF FrozenIsDeposit
<1>8. Equilibrium
  <2>1. TotalDigestValue = TotalDeposit + AssetToIssue - AssetToReap + 0
    BY <1>1, <1>2 DEF CoreBooks, CoreEquilibrium, o
  <2>2. TotalDeposit \in Int /\ AssetToIssue \in Int /\ AssetToReap \in Int
    BY <1>2, DepositSumTyped DEF CoreTypes, Assets
  <2> QED  BY <2>1, <2>2 DEF Equilibrium
<1>9. ReceiptsHoldShares
  <2>1. ASSUME NEW r \in Reasons, NEW d \in Digests, NEW v \in Positions
        PROVE  DigestInfo(r, d)[v].issued = SharesIn(r, d, v)
    <3>1. DigestInfo(r, d)[v].issued = SharesIn(r, d, v) + 0
      BY <1>1, <1>2 DEF CoreHeld, o
    <3>2. SharesIn(r, d, v) \in Nat
      BY <1>2, SharesInTyped
    <3> QED  BY <3>1, <3>2
  <2> QED  BY <1>2, <1>5, <2>1 DEF CoreHeld, ReceiptsHoldShares
<1> QED  BY <1>2, <1>4, <1>6, <1>7, <1>8, <1>9 DEF CommitmentInv, CoreBooks, DigestBooks

\* Every reachable state of the direct digests: every balance is sound, the
\* receipts hold the shares, and the books of place_commit, raise_commit,
\* resolve_commit, set_commit_variant, set_digest_value and reap_digest agree.
THEOREM CommitmentInductive == Spec => []CommitmentInv
<1>1. Init => CoreInv(OnlyDirect)
  BY InitInv, NobodyElse
<1>2. CoreInv(OnlyDirect) /\ [Next]_vars => CoreInv(OnlyDirect)'
  BY StepInv
<1>3. CoreInv(OnlyDirect) => CommitmentInv
  BY DirectInv
<1> QED  BY <1>1, <1>2, <1>3, PTL DEF Spec

\* Storage stays within the widths of its types.
THEOREM TypeCorrect == Spec => []TypeOK
<1>1. CommitmentInv => TypeOK
  BY DEF CommitmentInv
<1> QED  BY <1>1, CommitmentInductive, PTL

\* What is frozen is what was deposited, the value of the digests is what was
\* deposited plus AssetToIssue less AssetToReap, the total of a reason is the
\* value of its digests, and only set_digest_value creates or takes value.
THEOREM BooksBalance == Spec => []DigestBooks
<1>1. CommitmentInv => DigestBooks
  BY DEF CommitmentInv
<1> QED  BY <1>1, CommitmentInductive, PTL

\* The receipts of a digest hold all its shares, and reap_digest never strands a
\* commitment.
THEOREM SharesAreHeld == Spec => []ReceiptsHoldShares
<1>1. CommitmentInv => ReceiptsHoldShares
  BY DEF CommitmentInv
<1> QED  BY <1>1, CommitmentInductive, PTL

\* A commitment and the balance behind it.
LEMMA Backed ==
    ASSUME CommitmentInv, NEW w \in Who, NEW r \in Reasons, commit_exists(w, r)
    PROVE  LET c == CommitMap[<<w, r>>]
               b == DigestMap[<<r, c.digest>>][c.variant]
           IN  /\ digest_exists(r, c.digest)
               /\ b \in Balances /\ SoundBalance(b)
               /\ c.commits \in Seq(Receipts)
               /\ Shares(c.commits) <= b.issued
               /\ Withdrawal(w, r) = withdraw_from_digest(b, c.commits)
<1> PICK d, v, commits : /\ d = CommitMap[<<w, r>>].digest /\ v = CommitMap[<<w, r>>].variant
                         /\ commits = CommitMap[<<w, r>>].commits
  OBVIOUS
<1>0. CoreTypes(OnlyDirect)
  BY TypesAlone DEF CommitmentInv
<1>1. d \in Digests /\ v \in Positions /\ commits \in Seq(Receipts) /\ Shares(commits) \in Nat
  BY <1>0, CommitTyped DEF OnlyDirect
<1>2. digest_exists(r, d)
  BY DEF CommitmentInv, ReceiptsHoldShares, commit_exists
<1> PICK b : b = DigestMap[<<r, d>>][v]
  OBVIOUS
<1>3. b \in Balances /\ SoundBalance(b) /\ DigestInfo(r, d)[v] = b
  <2>1. <<r, d>> \in DOMAIN DigestMap
    BY <1>2 DEF digest_exists
  <2> QED  BY <1>1, <2>1 DEF CommitmentInv, TypeOK, BalancesSound, DigestInfo, digest_exists
<1>4. Shares(commits) <= b.issued
  <2> DEFINE f == [y \in Who |-> SharesOf(y, r, d, v)]
  <2>1. \A y \in Who : f[y] \in Nat
    BY <1>0, DepositTyped
  <2>2. f[w] = Shares(commits) /\ SharesIn(r, d, v) = SumFunction(f) /\ DOMAIN f = Who
    BY DEF SharesOf, SharesIn
  <2>3. b.issued = SharesIn(r, d, v)
    BY <1>1, <1>3 DEF CommitmentInv, ReceiptsHoldShares
  <2> HIDE DEF f
  <2>4. f[w] <= SumFunction(f)
    BY <2>1, <2>2, FiniteAssumption, SumOfNats
  <2> QED  BY <2>2, <2>3, <2>4
<1>5. Withdrawal(w, r) = withdraw_from_digest(b, commits)
  BY <1>2 DEF Withdrawal
<1> QED  BY <1>1, <1>2, <1>3, <1>4, <1>5

\* Whoever resolves gets at least what get_commit_value announced.
THEOREM QuotesAreKept == Spec => []PaidAsQuoted
<1>1. CommitmentInv => PaidAsQuoted
  <2> SUFFICES ASSUME CommitmentInv, NEW x \in DOMAIN CommitMap, can_be_resolved(x[1], x[2])
               PROVE  Withdrawal(x[1], x[2]).taken >= CommitValue(x[1], x[2])
    BY DEF PaidAsQuoted
  <2>1. PICK w \in Who, r \in Reasons : x = <<w, r>>
    BY DEF CommitmentInv, TypeOK
  <2>2. commit_exists(w, r) /\ Withdrawal(w, r).ok
    BY <2>1 DEF commit_exists, can_be_resolved
  <2> PICK b, commits : /\ commits = CommitMap[<<w, r>>].commits
                        /\ b = DigestMap[<<r, CommitMap[<<w, r>>].digest>>][CommitMap[<<w, r>>].variant]
    OBVIOUS
  <2>3. /\ b \in Balances /\ SoundBalance(b) /\ commits \in Seq(Receipts)
        /\ Withdrawal(w, r) = withdraw_from_digest(b, commits)
    BY <2>2, Backed
  <2>4. quote(b, commits) <= withdraw_from_digest(b, commits).taken
    BY <2>2, <2>3, QuoteIsPaid
  <2>5. CommitValue(w, r) = quote(b, commits)
    BY DEF CommitValue
  <2>6. CommitValue(w, r) <= Withdrawal(w, r).taken
    BY <2>3, <2>4, <2>5
  <2> QED  BY <2>1, <2>6
<1> QED  BY <1>1, CommitmentInductive, PTL

\* A deposit that goes through is one the checks allow.
LEMMA TakenIsAllowed ==
    ASSUME CommitmentInv, NEW w \in Who, NEW x \in Amounts, NEW b, takes(w, b, x)
    PROVE  available_funds(w) >= x /\ CanDeposit(b, x)
<1>1. /\ free[w] \in Nat /\ hold[w] \in Nat /\ x \in Nat /\ x <= MaxAsset /\ MaxAsset \in Nat
  BY ShareBalanceAssumption, CommitmentAssumption DEF CommitmentInv, TypeOK, Assets
<1>2. hold[w] >= x \/ hold[w] + free[w] >= x
  BY DEF takes, deduct_succeeds
<1>3. available_funds(w) >= x
  BY <1>1, <1>2 DEF available_funds, Least
<1>4. CanDeposit(b, x)
  BY DEF takes, DepositSucceeds, CanDeposit, is_fresh_balance
<1> QED  BY <1>3, <1>4

\* No exact call that would succeed is refused by the checks callers make first,
\* and receipts that pass one by one pass as a whole.
THEOREM ChecksMatch == Spec => []ChecksAgree
<1>1. ASSUME CommitmentInv, NEW w \in Who, NEW r \in Reasons, NEW x \in Amounts
      PROVE  /\ \A d \in Digests, v \in Positions :
                   ~ commit_exists(w, r) /\ takes(w, DigestInfo(r, d)[v], x)
                       => can_place_commit(w, r, d, v, x)
             /\ commit_exists(w, r)
                /\ takes(w, DigestInfo(r, CommitMap[<<w, r>>].digest)[CommitMap[<<w, r>>].variant], x)
                       => can_raise_commit(w, r, x)
  BY <1>1, TakenIsAllowed DEF can_place_commit, can_raise_commit
<1>2. ASSUME CommitmentInv, NEW x \in DOMAIN CommitMap
      PROVE  LET c == CommitMap[x]
                 b == DigestMap[<<x[2], c.digest>>][c.variant]
             IN  /\ Withdrawal(x[1], x[2]).ok => can_resolve_digest_commit(x[1], x[2])
                 /\ can_resolve_digest_commit(x[1], x[2]) /\ quoted(b, c.commits)
                       => Withdrawal(x[1], x[2]).ok
  <2>1. PICK w \in Who, r \in Reasons : x = <<w, r>>
    BY <1>2 DEF CommitmentInv, TypeOK
  <2>2. commit_exists(w, r)
    BY <2>1 DEF commit_exists
  <2> PICK b, commits : /\ commits = CommitMap[<<w, r>>].commits
                        /\ b = DigestMap[<<r, CommitMap[<<w, r>>].digest>>][CommitMap[<<w, r>>].variant]
    OBVIOUS
  <2>3. /\ digest_exists(r, CommitMap[<<w, r>>].digest)
        /\ b \in Balances /\ SoundBalance(b) /\ commits \in Seq(Receipts) /\ Shares(commits) <= b.issued
        /\ Withdrawal(w, r) = withdraw_from_digest(b, commits)
    BY <1>2, <2>2, Backed
  <2>4. ASSUME Withdrawal(w, r).ok
        PROVE  can_resolve_digest_commit(w, r)
    <3>1. Progress(b, commits, Len(commits), withdraw_from_digest(b, commits))
      BY <2>3, <2>4, Withdrawn
    <3>2. DOMAIN commits = 1 .. Len(commits)
      BY <2>3
    <3>3. \A n \in DOMAIN commits : CanWithdraw(b, commits[n])
      BY <3>1, <3>2 DEF Progress
    <3> QED  BY <2>3, <3>3 DEF can_resolve_digest_commit, can_withdraw_all
  <2>5. ASSUME quoted(b, commits)
        PROVE  Withdrawal(w, r).ok
    BY <2>3, <2>5, PassTogether
  <2> QED  BY <2>1, <2>4, <2>5
<1>3. ASSUME CommitmentInv, NEW y \in DOMAIN DigestMap, NEW v \in Positions, NEW x \in Amounts
      PROVE  LET b == DigestMap[y][v] IN
             (/\ x > TotalValue(b) => MintSucceeds(b, x - TotalValue(b))
              /\ x < TotalValue(b) => ReapSucceeds(b, TotalValue(b) - x))
                 => can_set_digest_value(y[1], y[2], v, x)
  <2> PICK b : b = DigestMap[y][v]
    OBVIOUS
  <2>1. PICK r \in Reasons, d \in Digests : y = <<r, d>>
    BY <1>3 DEF CommitmentInv, TypeOK
  <2>2. b \in Balances /\ b.effective \in Nat /\ x \in Nat
    <3>1. b \in Balances
      BY <1>3 DEF CommitmentInv, TypeOK
    <3> QED  BY <3>1, ShareBalanceAssumption, CommitmentAssumption DEF Balances
  <2>3. ASSUME /\ x > b.effective => MintSucceeds(b, x - b.effective)
               /\ x < b.effective => ReapSucceeds(b, b.effective - x)
        PROVE  can_set_digest_value(r, d, v, x)
    <3>1. ASSUME b.effective < x
          PROVE  CanMint(b, x - b.effective)
      BY <2>2, <2>3, <3>1 DEF MintSucceeds, CanMint
    <3>2. ASSUME b.effective > x
          PROVE  CanReap(b, b.effective - x)
      BY <2>2, <2>3, <3>2 DEF ReapSucceeds, CanReap
    <3>3. digest_exists(r, d)
      BY <2>1 DEF digest_exists
    <3> QED  BY <2>1, <3>1, <3>2, <3>3 DEF can_set_digest_value, TotalValue
  <2> QED  BY <2>1, <2>3 DEF TotalValue
<1>4. CommitmentInv => ChecksAgree
  BY <1>1, <1>2, <1>3 DEF ChecksAgree
<1> QED  BY <1>4, CommitmentInductive, PTL

-----------------------------------------------------------------------------
(* Many digests at once *)

LEMMA FreshInfo ==
    /\ NoDigestInfo \in [Positions -> Balances]
    /\ \A v \in Positions : SoundBalance(NoDigestInfo[v]) /\ NoDigestInfo[v] = FreshBalance
<1>1. FreshBalance \in Balances /\ SoundBalance(FreshBalance)
  BY ShareBalanceAssumption DEF FreshBalance, Balances, SoundBalance
<1> QED  BY <1>1 DEF NoDigestInfo

LEMMA InfoInSound ==
    ASSUME NEW M, MapSound(M), NEW r \in Reasons, NEW d \in Digests
    PROVE  /\ InfoIn(M, r, d) \in [Positions -> Balances]
           /\ \A v \in Positions : SoundBalance(InfoIn(M, r, d)[v]) /\ InfoIn(M, r, d)[v] \in Balances
           /\ Values(InfoIn(M, r, d)) \in Nat
<1>1. /\ InfoIn(M, r, d) \in [Positions -> Balances]
      /\ \A v \in Positions : SoundBalance(InfoIn(M, r, d)[v])
  BY FreshInfo DEF InfoIn, MapSound
<1> QED  BY <1>1, ValuesTyped

LEMMA ValueInTyped ==
    ASSUME NEW M, MapSound(M), NEW r \in Reasons
    PROVE  ValueIn(M, r) \in Nat
<1> DEFINE f == [d \in Digests |-> Values(InfoIn(M, r, d))]
<1>1. \A d \in Digests : f[d] \in Nat
  BY InfoInSound
<1> HIDE DEF f
<1>2. SumFunctionOnSet(f, Digests) \in Nat
  BY <1>1, FiniteAssumption, SumTyped
<1> QED  BY <1>2 DEF f, ValueIn

\* What PutAll changes, variant by variant.
LEMMA PutAllSound ==
    ASSUME NEW M, MapSound(M), NEW r \in Reasons, NEW S, NEW vf, NEW nb, NEW k,
           Puts(M, r, S, vf, nb, k), NEW N, N = PutAll(M, r, S, vf, nb)
    PROVE  /\ MapSound(N)
           /\ DOMAIN N = DOMAIN M
           /\ \A s \in Reasons, d \in Digests, v \in Positions :
                 InfoIn(N, s, d)[v]
                   = IF s = r /\ d \in S /\ v = vf[d] THEN nb[d] ELSE InfoIn(M, s, d)[v]
<1>0. DOMAIN N = DOMAIN M
  BY DEF PutAll
<1>1. ASSUME NEW s \in Reasons, NEW d \in Digests, <<s, d>> \in DOMAIN M
      PROVE  /\ N[<<s, d>>] \in [Positions -> Balances]
             /\ \A v \in Positions :
                   /\ N[<<s, d>>][v] = IF s = r /\ d \in S /\ v = vf[d] THEN nb[d] ELSE M[<<s, d>>][v]
                   /\ SoundBalance(N[<<s, d>>][v])
  <2>1. M[<<s, d>>] \in [Positions -> Balances] /\ \A v \in Positions : SoundBalance(M[<<s, d>>][v])
    BY <1>1 DEF MapSound
  <2>2. N[<<s, d>>] = IF s = r /\ d \in S THEN [M[<<s, d>>] EXCEPT ![vf[d]] = nb[d]] ELSE M[<<s, d>>]
    BY <1>1 DEF PutAll
  <2>3. CASE s = r /\ d \in S
    <3>1. vf[d] \in Positions /\ nb[d] \in Balances /\ SoundBalance(nb[d])
      BY <2>3 DEF Puts
    <3>2. N[<<s, d>>] = [M[<<s, d>>] EXCEPT ![vf[d]] = nb[d]]
      BY <2>2, <2>3
    <3> QED  BY <2>1, <2>3, <3>1, <3>2
  <2>4. CASE ~ (s = r /\ d \in S)
    BY <2>1, <2>2, <2>4
  <2> QED  BY <2>3, <2>4
<1>2. MapSound(N)
  <2> SUFFICES ASSUME NEW x \in DOMAIN N
               PROVE  N[x] \in [Positions -> Balances] /\ \A v \in Positions : SoundBalance(N[x][v])
    BY <1>0 DEF MapSound
  <2>1. PICK s \in Reasons, d \in Digests : x = <<s, d>>
    BY <1>0 DEF MapSound
  <2> QED  BY <1>0, <1>1, <2>1
<1>3. ASSUME NEW s \in Reasons, NEW d \in Digests, NEW v \in Positions
      PROVE  InfoIn(N, s, d)[v]
               = IF s = r /\ d \in S /\ v = vf[d] THEN nb[d] ELSE InfoIn(M, s, d)[v]
  <2>1. CASE <<s, d>> \in DOMAIN M
    BY <1>0, <1>1, <2>1 DEF InfoIn
  <2>2. CASE <<s, d>> \notin DOMAIN M
    <3>1. ~ (s = r /\ d \in S)
      BY <2>2 DEF Puts
    <3> QED  BY <1>0, <2>2, <3>1 DEF InfoIn
  <2> QED  BY <2>1, <2>2
<1> QED  BY <1>0, <1>2, <1>3

\* The value of the reason moves with those of the balances.
LEMMA PutAllValue ==
    ASSUME NEW M, MapSound(M), NEW r \in Reasons, NEW S, NEW vf, NEW nb, NEW k,
           Puts(M, r, S, vf, nb, k), NEW N, N = PutAll(M, r, S, vf, nb), NEW s \in Reasons
    PROVE  /\ SumFunctionOnSet(k, S) \in Int
           /\ ValueIn(N, s) = ValueIn(M, s) + (IF s = r THEN SumFunctionOnSet(k, S) ELSE 0)
<1> DEFINE f == [d \in Digests |-> Values(InfoIn(M, s, d))]
           g == [d \in Digests |-> Values(InfoIn(N, s, d))]
<1>0. S \in SUBSET Digests /\ MapSound(N)
  BY PutAllSound DEF Puts
<1>1. \A d \in Digests : f[d] \in Int
  BY InfoInSound
<1>2. \A d \in S : k[d] \in Int
  <2> SUFFICES ASSUME NEW d \in S  PROVE k[d] \in Int
    OBVIOUS
  <2>1. nb[d] \in Balances /\ M[<<r, d>>][vf[d]] \in Balances
    BY DEF Puts, MapSound
  <2> QED  BY <2>1 DEF Puts, Balances
<1>3. ASSUME NEW d \in Digests
      PROVE  Values(InfoIn(N, s, d)) = Values(InfoIn(M, s, d)) + (IF s = r /\ d \in S THEN k[d] ELSE 0)
  <2>1. CASE s = r /\ d \in S
    <3>1. /\ <<s, d>> \in DOMAIN M /\ vf[d] \in Positions /\ nb[d] \in Balances
          /\ k[d] = nb[d].effective - M[<<s, d>>][vf[d]].effective
          /\ M[<<s, d>>] \in [Positions -> Balances] /\ M[<<s, d>>][vf[d]] \in Balances
      BY <2>1 DEF Puts, MapSound
    <3>2. InfoIn(M, s, d) = M[<<s, d>>] /\ InfoIn(N, s, d) = [M[<<s, d>>] EXCEPT ![vf[d]] = nb[d]]
      BY <2>1, <3>1 DEF InfoIn, PutAll
    <3>3. Values(InfoIn(N, s, d)) = Values(InfoIn(M, s, d)) + nb[d].effective - M[<<s, d>>][vf[d]].effective
      <4>1. PICK info \in [Positions -> Balances], v \in Positions, c \in Balances :
               info = M[<<s, d>>] /\ v = vf[d] /\ c = nb[d]
        BY <3>1
      <4>2. Values([info EXCEPT ![v] = c]) = Values(info) + c.effective - info[v].effective
        BY ValuesPut
      <4>3. InfoIn(M, s, d) = info /\ InfoIn(N, s, d) = [info EXCEPT ![v] = c]
        BY <3>2, <4>1
      <4> QED  BY <4>1, <4>2, <4>3, Zenon
    <3>4. /\ nb[d].effective \in Int /\ M[<<s, d>>][vf[d]].effective \in Int
          /\ Values(InfoIn(M, s, d)) \in Int
      BY <3>1, InfoInSound DEF Balances
    <3> QED  BY <2>1, <3>1, <3>3, <3>4
  <2>2. CASE ~ (s = r /\ d \in S)
    <3>1. InfoIn(N, s, d) = InfoIn(M, s, d)
      <4>1. CASE <<s, d>> \in DOMAIN M
        BY <2>2, <4>1 DEF InfoIn, PutAll
      <4>2. CASE <<s, d>> \notin DOMAIN M
        BY <4>2 DEF InfoIn, PutAll
      <4> QED  BY <4>1, <4>2
    <3>2. Values(InfoIn(M, s, d)) \in Int
      BY InfoInSound
    <3> QED  BY <2>2, <3>1, <3>2
  <2> QED  BY <2>1, <2>2
<1>4. CASE s = r
  <2>1. \A d \in S : g[d] = f[d] + k[d]
    BY <1>0, <1>3, <1>4
  <2>1a. \A d \in Digests \ S : g[d] = f[d]
    BY <1>1, <1>3, <1>4
  <2> HIDE DEF f, g
  <2>1b. S \in SUBSET Digests /\ IsFiniteSet(Digests)
    BY <1>0, FiniteAssumption
  <2>2. /\ SumFunctionOnSet(k, S) \in Int
        /\ SumFunctionOnSet(g, Digests) = SumFunctionOnSet(f, Digests) + SumFunctionOnSet(k, S)
    <3>1. Grows(g, f, Digests, k, S)
      BY <1>1, <1>2, <2>1, <2>1a, <2>1b DEF Grows
    <3> QED  BY <3>1, SumPlus
  <2> QED  BY <1>4, <2>2 DEF f, g, ValueIn
<1>5. CASE s # r
  <2>1. IsFiniteSet(S)
    BY <1>0, FiniteAssumption, FS_Subset
  <2>2. SumFunctionOnSet(k, S) \in Int
    BY <1>2, <2>1, SumTyped
  <2>3. \A d \in Digests : g[d] = f[d]
    BY <1>1, <1>3, <1>5
  <2> HIDE DEF f, g
  <2>4. SumFunctionOnSet(g, Digests) = SumFunctionOnSet(f, Digests)
    BY <2>3, FiniteAssumption, SumCongruent
  <2>5. ValueIn(N, s) = ValueIn(M, s) /\ ValueIn(M, s) \in Int
    BY <2>4, ValueInTyped DEF f, g, ValueIn
  <2> QED  BY <1>5, <2>2, <2>5
<1> QED  BY <1>4, <1>5

\* Two changes of the balances of a reason, one after the other, are one.
LEMMA DigestMapSound ==
    ASSUME NEW ids, StoredTypes(ids), BalancesSound
    PROVE  /\ MapSound(DigestMap)
           /\ \A r, d : DigestInfo(r, d) = InfoIn(DigestMap, r, d)
           /\ \A r : DigestValueOf(r) = ValueIn(DigestMap, r)
<1>1. MapSound(DigestMap)
  BY DEF StoredTypes, BalancesSound, MapSound
<1>2. \A r, d : DigestInfo(r, d) = InfoIn(DigestMap, r, d)
  BY DEF DigestInfo, InfoIn, digest_exists
<1>3. \A r : DigestValueOf(r) = ValueIn(DigestMap, r)
  BY <1>2 DEF DigestValueOf, ValueIn, SumFunction
<1> QED  BY <1>1, <1>2, <1>3

\* The books of a call that moves value k into the digests of a reason and out of
\* the accounts.
LEMMA BooksMove ==
    ASSUME NEW ids, StoredTypes(ids), BalancesSound, ReasonTotals, Conservation,
           NEW r \in Reasons, NEW k \in Int,
           \A s \in Reasons : ValueIn(DigestMap', s) = ValueIn(DigestMap, s) + (IF s = r THEN k ELSE 0),
           ReasonValue' = [ReasonValue EXCEPT ![r] = @ + k],
           SumFunction(free) + SumFunction(hold) \in Int,
           SumFunction(free') + SumFunction(hold') = (SumFunction(free) + SumFunction(hold)) - k,
           adjusted' = adjusted
    PROVE  ReasonTotals' /\ Conservation'
<1>0. \A s \in Reasons : /\ DigestValueOf(s) = ValueIn(DigestMap, s) /\ ValueIn(DigestMap, s) \in Int
                         /\ DigestValueOf(s)' = ValueIn(DigestMap', s)
  <2>1. \A s \in Reasons : DigestValueOf(s)' = ValueIn(DigestMap', s)
    BY DEF DigestValueOf, DigestInfo, InfoIn, digest_exists, ValueIn, SumFunction
  <2> QED  BY <2>1, DigestMapSound, ValueInTyped
<1>1. ReasonTotals'
  BY <1>0 DEF ReasonTotals, StoredTypes, Assets
<1>2. TotalDigestValue \in Int /\ TotalDigestValue' = TotalDigestValue + k
  <2> DEFINE f == [s \in Reasons |-> DigestValueOf(s)]
             g == [s \in Reasons |-> DigestValueOf(s)']
  <2>1. \A s \in Reasons : f[s] \in Int
    BY <1>0
  <2>2. g[r] = f[r] + k /\ \A s \in Reasons \ {r} : g[s] = f[s]
    BY <1>0
  <2>3. DOMAIN f = Reasons /\ DOMAIN g = Reasons
    OBVIOUS
  <2> HIDE DEF f, g
  <2>3a. f[r] + k \in Int
    BY <2>1
  <2>4. SumFunction(f) \in Int /\ SumFunction(g) = SumFunction(f) + (f[r] + k) - f[r]
    BY <2>1, <2>2, <2>3, <2>3a, FiniteAssumption, SumMoves
  <2> DEFINE a == f[r]
             b == SumFunction(f)
             c == SumFunction(g)
  <2>4a. a \in Int /\ b \in Int /\ c = b + (a + k) - a
    BY <2>1, <2>4
  <2> HIDE DEF a, b, c
  <2>5. c = b + k
    BY <2>4a
  <2> QED  BY <2>4, <2>5 DEF f, g, b, c, TotalDigestValue
<1>3. Conservation'
  <2> DEFINE a == SumFunction(free) + SumFunction(hold)
             b == SumFunction(free') + SumFunction(hold')
             c == Cardinality(Who) * Funds
  <2>1. a + TotalDigestValue = c + adjusted
    BY DEF Conservation
  <2>2. b = a - k /\ a \in Int
    OBVIOUS
  <2>3. Conservation' <=> b + TotalDigestValue' = c + adjusted
    BY DEF Conservation
  <2> HIDE DEF a, b, c
  <2> QED  BY <1>2, <2>1, <2>2, <2>3
<1> QED  BY <1>1, <1>3

-----------------------------------------------------------------------------
(* Splitting an amount                                                     *)

\* The parts of a split: naturals that add up to no more than the whole.  Each
\* part is cut down, and so is the ratio it is taken at.
LEMMA SplitBound ==
    ASSUME NEW e, IsFiniteSet(DOMAIN e), DOMAIN e # {},
           \A d \in DOMAIN e : e[d].shares \in Nat \ {0}, NEW x \in Nat
    PROVE  /\ \A d \in DOMAIN e : entry_deposit(e, d, x) \in Nat
           /\ index_actual(e, x) \in Nat
           /\ index_actual(e, x) <= x
<1> DEFINE D == DOMAIN e
           s == [d \in D |-> e[d].shares]
           X == saturating_from_integer(x)
           R == [d \in D |-> from_rational(e[d].shares, Capital(e))]
           t == [d \in D |-> entry_deposit(e, d, x)]
           z == [d \in D |-> 0]
<1>0. DIV \in Nat \ {0} /\ MaxInner \in Nat
  BY ShareBalanceAssumption
<1>1. Capital(e) \in Nat \ {0} /\ SumFunctionOnSet(s, D) = Capital(e)
  <2>1. \A d \in D : s[d] \in Nat /\ s[d] # 0
    OBVIOUS
  <2>2. DOMAIN s = D /\ Capital(e) = SumFunction(s)
    BY DEF Capital
  <2>3. PICK d \in D : TRUE
    OBVIOUS
  <2> HIDE DEF s
  <2>4. SumFunction(s) \in Nat /\ s[d] <= SumFunction(s)
    BY <2>1, <2>2, SumOfNats
  <2>5. SumFunction(s) # 0
    <3>1. s[d] \in Nat /\ s[d] # 0
      BY <2>1
    <3> QED  BY <2>4, <3>1
  <2> QED  BY <2>2, <2>4, <2>5 DEF SumFunction
<1>2. X \in Nat /\ X <= x * DIV
  BY <1>0, MulNat DEF saturating_from_integer, Least
<1>3. PICK C \in Nat \ {0} : C = Capital(e)
  BY <1>1
<1>4. \A d \in D : R[d] \in Nat /\ R[d] * C <= s[d] * DIV
  <2> TAKE d \in D
  <2>1. PICK y \in Nat : y = e[d].shares
    OBVIOUS
  <2>2. y * DIV \in Nat
    BY <1>0, MulNat
  <2>3. R[d] = (y * DIV) \div C /\ s[d] = y
    BY <1>3, <2>1 DEF from_rational
  <2> HIDE DEF R, s
  <2> QED  BY <2>2, <2>3, DivFloor
<1>5. \A d \in D : t[d] \in Nat /\ t[d] * (DIV * DIV) <= R[d] * X
  <2> TAKE d \in D
  <2>1. R[d] \in Nat
    BY <1>4
  <2>2. PICK y \in Nat : y = R[d]
    BY <2>1
  <2>3. t[d] = ((X * y) \div DIV) \div DIV
    BY <2>2 DEF entry_deposit, entry_fixed, fixed_mul
  <2> HIDE DEF X, R, t
  <2>4. PICK p \in Nat : p = X * y
    BY <1>2, MulNat
  <2>5. p \div DIV \in Nat /\ (p \div DIV) * DIV <= p
    BY <1>0, DivFloor
  <2>6. PICK q \in Nat : q = p \div DIV
    BY <2>5
  <2>7. q \div DIV \in Nat /\ (q \div DIV) * DIV <= q
    BY <1>0, DivFloor
  <2>8. t[d] \in Nat /\ t[d] * DIV <= q /\ q * DIV <= p
    BY <2>3, <2>4, <2>5, <2>6, <2>7
  <2>9. PICK u \in Nat : u = t[d]
    BY <2>8
  <2>10. u * DIV \in Nat /\ (u * DIV) * DIV <= q * DIV
    BY <1>0, <2>8, <2>9, MulNat, MulMono
  <2>11. (u * DIV) * DIV = u * (DIV * DIV) /\ X * y = y * X
    BY <1>0, <1>2, MulAssoc, Z3
  <2>12. u * (DIV * DIV) <= y * X
    <3>1. q * DIV \in Nat
      BY <1>0, MulNat
    <3>2. PICK a \in Int : a = (u * DIV) * DIV
      BY <1>0, <2>10, MulNat
    <3>3. a <= p
      BY <2>8, <2>10, <3>1, <3>2
    <3>4. u * (DIV * DIV) = a /\ p = y * X
      BY <2>4, <2>11, <3>2
    <3> QED  BY <3>3, <3>4
  <2> QED  BY <2>2, <2>9, <2>12
<1>6. SumFunctionOnSet(t, D) = index_actual(e, x) /\ DOMAIN t = D
  BY DEF index_actual, SumFunction
<1>6a. SumFunctionOnSet(z, D) = 0
  <2>1. DOMAIN z = D /\ \A d \in DOMAIN z : z[d] = 0
    OBVIOUS
  <2> HIDE DEF z
  <2> QED  BY <2>1, SumOfZeros DEF SumFunction
<1>6b. \A d \in D : z[d] \in Int /\ z[d] = 0
  OBVIOUS
<1>6c. \A d \in D : s[d] \in Int
  OBVIOUS
<1> HIDE DEF s, R, t, z, X
<1>7. SumFunctionOnSet(R, D) \in Nat /\ SumFunctionOnSet(R, D) <= DIV
  <2>1. C * SumFunctionOnSet(R, D) + 0 * SumFunctionOnSet(z, D)
          <= DIV * SumFunctionOnSet(s, D) + 0 * SumFunctionOnSet(z, D)
    <3>1. \A d \in D : C * R[d] + 0 * z[d] <= DIV * s[d] + 0 * z[d]
      <4> TAKE d \in D
      <4>1. PICK a \in Int, b \in Int : a = R[d] /\ b = s[d] /\ a * C <= b * DIV
        BY <1>4, <1>6c
      <4>2. C * a = a * C /\ DIV * b = b * DIV /\ C * a \in Int /\ DIV * b \in Int
        BY <1>0, Z3
      <4>3. 0 * z[d] = 0
        BY <1>6b
      <4> QED  BY <4>1, <4>2, <4>3
    <3>2. \A d \in D : R[d] \in Int /\ s[d] \in Int /\ z[d] \in Int
      BY <1>4, <1>6b, <1>6c
    <3>3. C \in Int /\ DIV \in Int /\ 0 \in Int
      BY <1>0
    <3> QED  BY <3>1, <3>2, <3>3, SumLinearCompare
  <2>2. SumFunctionOnSet(R, D) \in Nat
    BY <1>4, SumTyped
  <2>3. PICK a \in Nat : a = SumFunctionOnSet(R, D)
    BY <2>2
  <2>4. C * a <= DIV * C
    <3>1. C * a + 0 * 0 <= DIV * C + 0 * 0
      BY <1>1, <1>3, <1>6a, <2>1, <2>3
    <3>2. C * a \in Int /\ DIV * C \in Int
      BY <1>0, Z3
    <3> QED  BY <3>1, <3>2
  <2>5. a * C <= DIV * C
    BY <2>4, Z3
  <2> QED  BY <1>0, <2>3, <2>5, MulCancel
<1>8. SumFunctionOnSet(t, D) \in Nat /\ SumFunctionOnSet(t, D) <= x
  <2> DEFINE K == DIV * DIV
  <2>0. K \in Nat \ {0}
    BY <1>0, Z3
  <2>0a. \A d \in D : t[d] * K <= R[d] * X
    BY <1>5
  <2> HIDE DEF K
  <2>1. K * SumFunctionOnSet(t, D) + 0 * SumFunctionOnSet(z, D)
          <= X * SumFunctionOnSet(R, D) + 0 * SumFunctionOnSet(z, D)
    <3>1. \A d \in D : K * t[d] + 0 * z[d] <= X * R[d] + 0 * z[d]
      <4> TAKE d \in D
      <4>1. PICK a \in Int, b \in Int : a = t[d] /\ b = R[d] /\ a * K <= b * X
        BY <1>4, <1>5, <2>0a
      <4>2. K * a = a * K /\ X * b = b * X /\ K * a \in Int /\ X * b \in Int
        BY <1>2, <2>0, Z3
      <4>3. 0 * z[d] = 0
        BY <1>6b
      <4> QED  BY <4>1, <4>2, <4>3
    <3>2. \A d \in D : t[d] \in Int /\ R[d] \in Int /\ z[d] \in Int
      BY <1>4, <1>5, <1>6b
    <3>3. K \in Int /\ X \in Int /\ 0 \in Int
      BY <1>2, <2>0
    <3> QED  BY <3>1, <3>2, <3>3, SumLinearCompare
  <2>2. SumFunctionOnSet(t, D) \in Nat
    BY <1>5, SumTyped
  <2>3. PICK a \in Nat, b \in Nat : a = SumFunctionOnSet(t, D) /\ b = SumFunctionOnSet(R, D) /\ b <= DIV
    BY <1>7, <2>2
  <2>4. K * a <= X * b
    <3>1. K * a + 0 * 0 <= X * b + 0 * 0
      BY <1>6a, <2>1, <2>3
    <3>2. K * a \in Int /\ X * b \in Int
      BY <1>2, <2>0, Z3
    <3> QED  BY <3>1, <3>2
  <2>5. b * X <= DIV * X /\ X * DIV <= (x * DIV) * DIV
    <3>1. x * DIV \in Nat
      BY <1>0, MulNat
    <3> QED  BY <1>0, <1>2, <2>3, <3>1, MulMono
  <2>6. (x * DIV) * DIV = x * K /\ b * X = X * b /\ DIV * X = X * DIV /\ K * a = a * K
    BY <1>0, <1>2, <2>0, Z3, MulAssoc DEF K
  <2>7. a * K <= x * K
    <3>1. a * K \in Int /\ x * K \in Int /\ X * b \in Int /\ X * DIV \in Int
      BY <1>0, <1>2, <2>0, Z3
    <3> QED  BY <2>4, <2>5, <2>6, <3>1
  <2>8. a <= x
    BY <2>0, <2>7, MulCancel
  <2> QED  BY <2>2, <2>3, <2>8
<1> QED  BY <1>5, <1>6, <1>8 DEF t

\* What is split is what the funded parts get.
LEMMA FundedSum ==
    ASSUME NEW e, IsFiniteSet(DOMAIN e), DOMAIN e # {},
           \A d \in DOMAIN e : e[d].shares \in Nat \ {0}, NEW x \in Nat,
           NEW k, \A d \in funded(e, x) : k[d] = entry_deposit(e, d, x)
    PROVE  index_actual(e, x) = SumFunctionOnSet(k, funded(e, x))
<1> DEFINE t == [d \in DOMAIN e |-> entry_deposit(e, d, x)]
<1>1. funded(e, x) \in SUBSET DOMAIN e
  BY DEF funded
<1>2. \A d \in funded(e, x) : t[d] \in Int /\ k[d] = t[d]
  BY <1>1, SplitBound
<1>3. \A d \in DOMAIN e \ funded(e, x) : t[d] = 0
  BY DEF funded
<1>4. SumFunction(t) = SumFunctionOnSet(t, DOMAIN e)
  BY DEF SumFunction
<1> HIDE DEF t
<1>5. SumFunctionOnSet(t, DOMAIN e) = SumFunctionOnSet(k, funded(e, x))
  BY <1>1, <1>2, <1>3, SumZeroOutside
<1> QED  BY <1>4, <1>5 DEF t, index_actual

-----------------------------------------------------------------------------
(* The receipts of entries *)

LEMMA KeysFinite == IsFiniteSet(Keys)
<1>1. IsFiniteSet(Reasons \X Indexes)
  BY FiniteAssumption, IndexesFinite, FS_Product
<1>2. IsFiniteSet((Reasons \X Indexes) \X (Digests \X Who))
  BY <1>1, FiniteAssumption, FS_Product
<1> DEFINE D == (Reasons \X Indexes) \X (Digests \X Who)
           h == [x \in D |-> <<x[1][1], x[1][2], x[2][1], x[2][2]>>]
<1>3. h \in Surjection(D, Keys)
  <2>1. h \in [D -> Keys]
    BY DEF Keys
  <2>2. ASSUME NEW y \in Keys  PROVE \E x \in D : h[x] = y
    <3>1. <<<<y[1], y[2]>>, <<y[3], y[4]>>>> \in D
      BY DEF Keys
    <3>2. h[<<<<y[1], y[2]>>, <<y[3], y[4]>>>>] = y
      BY <3>1 DEF Keys
    <3> QED  BY <3>1, <3>2
  <2> QED  BY <2>1, <2>2 DEF Surjection
<1> HIDE DEF D, h
<1> QED  BY <1>2, <1>3, FS_Surjection DEF D

LEMMA CommitsTyped ==
    ASSUME EntryTypes, NEW r, NEW i, NEW d, NEW w
    PROVE  /\ EntryCommits(r, i, d, w) \in Seq(Receipts)
           /\ Principals(EntryCommits(r, i, d, w)) \in Nat
           /\ Shares(EntryCommits(r, i, d, w)) \in Nat
<1>1. EntryCommits(r, i, d, w) \in Seq(Receipts)
  BY NoReceipts DEF EntryCommits, EntryTypes
<1> QED  BY <1>1, ReceiptSums

\* One key of those that change.
LEMMA KeyMoves ==
    ASSUME EntryTypes, EntryTypes', NEW w \in Who, NEW r \in Reasons, NEW i \in Indexes,
           NEW S, NEW sh, NEW pr, EntriesMove(w, r, i, S, sh, pr), NEW d \in S
    PROVE  LET x == <<r, i, d, w>>
           IN  /\ x \in Keys /\ sh[d] \in Int /\ pr[d] \in Int
               /\ pr[d] = (IF x \in DOMAIN EntryMap' THEN Principals(EntryMap'[x]) ELSE 0)
                             - (IF x \in DOMAIN EntryMap THEN Principals(EntryMap[x]) ELSE 0)
               /\ sh[d] = (IF x \in DOMAIN EntryMap' THEN Shares(EntryMap'[x]) ELSE 0)
                             - (IF x \in DOMAIN EntryMap THEN Shares(EntryMap[x]) ELSE 0)
<1> DEFINE x == <<r, i, d, w>>
<1>1. x \in Keys
  BY DEF EntriesMove, Keys
<1>2. /\ sh[d] = Shares(EntryCommits(r, i, d, w)') - Shares(EntryCommits(r, i, d, w))
      /\ pr[d] = Principals(EntryCommits(r, i, d, w)') - Principals(EntryCommits(r, i, d, w))
  BY DEF EntriesMove
<1>3. /\ EntryCommits(r, i, d, w) = IF x \in DOMAIN EntryMap THEN EntryMap[x] ELSE <<>>
      /\ EntryCommits(r, i, d, w)' = IF x \in DOMAIN EntryMap' THEN EntryMap'[x] ELSE <<>>
  BY DEF EntryCommits
<1>4. /\ Principals(EntryCommits(r, i, d, w)) = IF x \in DOMAIN EntryMap THEN Principals(EntryMap[x]) ELSE 0
      /\ Shares(EntryCommits(r, i, d, w)) = IF x \in DOMAIN EntryMap THEN Shares(EntryMap[x]) ELSE 0
  BY <1>3, NoReceipts
<1>5. /\ Principals(EntryCommits(r, i, d, w)') = IF x \in DOMAIN EntryMap' THEN Principals(EntryMap'[x]) ELSE 0
      /\ Shares(EntryCommits(r, i, d, w)') = IF x \in DOMAIN EntryMap' THEN Shares(EntryMap'[x]) ELSE 0
  BY <1>3, NoReceipts
<1>6. /\ Principals(EntryCommits(r, i, d, w)) \in Nat /\ Shares(EntryCommits(r, i, d, w)) \in Nat
      /\ Principals(EntryCommits(r, i, d, w)') \in Nat /\ Shares(EntryCommits(r, i, d, w)') \in Nat
  <2>1. EntryCommits(r, i, d, w)' \in Seq(Receipts)
    BY <1>3, NoReceipts DEF EntryTypes
  <2>2. Principals(EntryCommits(r, i, d, w)') \in Nat /\ Shares(EntryCommits(r, i, d, w)') \in Nat
    BY <2>1, ReceiptSums
  <2> QED  BY <2>2, CommitsTyped
<1> HIDE DEF x
<1> QED  BY <1>1, <1>2, <1>4, <1>5, <1>6 DEF x

\* The principals over such a selection.
LEMMA PrincipalsMove ==
    ASSUME EntryTypes, EntryTypes', NEW w \in Who, NEW r \in Reasons, NEW i \in Indexes,
           NEW S, NEW sh, NEW pr, EntriesMove(w, r, i, S, sh, pr),
           NEW C, NEW all, AllOrNone(w, r, i, S, C, all)
    PROVE  /\ PrincipalsOver({y \in DOMAIN EntryMap : y \in C}) \in Int
           /\ SumFunctionOnSet(pr, S) \in Int
           /\ PrincipalsOver({y \in DOMAIN EntryMap : y \in C})'
                = PrincipalsOver({y \in DOMAIN EntryMap : y \in C})
                     + (IF all THEN SumFunctionOnSet(pr, S) ELSE 0)
<1> DEFINE A == {y \in DOMAIN EntryMap : y \in C}
           B == {y \in DOMAIN EntryMap' : y \in C}
           f == [x \in A |-> Principals(EntryMap[x])]
           g == [x \in B |-> Principals(EntryMap'[x])]
           h == [d \in S |-> <<r, i, d, w>>]
           T == IF all THEN {h[d] : d \in S} ELSE {}
           k == [x \in T |-> pr[x[3]]]
<1>0. C \subseteq Keys /\ all \in BOOLEAN /\ \A d \in S : <<r, i, d, w>> \in C <=> all
  BY DEF AllOrNone
<1>1. IsFiniteSet(S) /\ \A d \in S : pr[d] \in Int
  <2>1. S \in SUBSET Digests
    BY DEF EntriesMove
  <2>2. IsFiniteSet(S)
    BY <2>1, FiniteAssumption, FS_Subset
  <2> QED  BY <2>2, KeyMoves
<1>2. SumFunctionOnSet(pr, S) \in Int
  BY <1>1, SumTyped
<1>3. \A d \in S : h[d] \in Keys /\ h[d][3] = d
  BY KeyMoves
<1>4. (\A x \in A : f[x] \in Int) /\ (\A x \in B : g[x] \in Int)
  <2>1. \A x \in A : EntryMap[x] \in Seq(Receipts)
    BY DEF EntryTypes
  <2>2. \A x \in B : EntryMap'[x] \in Seq(Receipts)
    BY DEF EntryTypes
  <2>3. \A x \in A : Principals(EntryMap[x]) \in Nat
    BY <2>1, ReceiptSums
  <2>4. \A x \in B : Principals(EntryMap'[x]) \in Nat
    BY <2>2, ReceiptSums
  <2> QED  BY <2>3, <2>4
<1>5. A \subseteq Keys /\ B \subseteq Keys /\ T \subseteq Keys
  BY <1>3 DEF EntryTypes
<1>6. ASSUME NEW x \in T  PROVE k[x] = ValueOr0(g, B, x) - ValueOr0(f, A, x)
  <2>1. PICK d \in S : x = <<r, i, d, w>> /\ all
    OBVIOUS
  <2>2. x \in C /\ k[x] = pr[d]
    BY <1>0, <2>1
  <2>3. pr[d] = (IF x \in DOMAIN EntryMap' THEN Principals(EntryMap'[x]) ELSE 0)
                    - (IF x \in DOMAIN EntryMap THEN Principals(EntryMap[x]) ELSE 0)
    BY <2>1, KeyMoves
  <2>4. /\ ValueOr0(g, B, x) = (IF x \in DOMAIN EntryMap' THEN Principals(EntryMap'[x]) ELSE 0)
        /\ ValueOr0(f, A, x) = (IF x \in DOMAIN EntryMap THEN Principals(EntryMap[x]) ELSE 0)
    BY <2>2 DEF ValueOr0
  <2> HIDE DEF k, f, g, A, B, T, h
  <2> QED  BY <2>2, <2>3, <2>4
<1>7. ASSUME NEW x \in Keys \ T  PROVE ValueOr0(g, B, x) = ValueOr0(f, A, x)
  <2>1. CASE x \in C
    <3>1. \A d \in S : x # <<r, i, d, w>>
      BY <1>0, <1>7, <2>1
    <3>2. /\ x \in DOMAIN EntryMap' <=> x \in DOMAIN EntryMap
          /\ x \in DOMAIN EntryMap => EntryMap'[x] = EntryMap[x]
      BY <3>1 DEF EntriesMove
    <3> QED  BY <3>2 DEF ValueOr0
  <2>2. CASE x \notin C
    BY <2>2 DEF ValueOr0
  <2> QED  BY <2>1, <2>2
<1>8. /\ PrincipalsOver({y \in DOMAIN EntryMap : y \in C}) = SumFunctionOnSet(f, A)
      /\ PrincipalsOver({y \in DOMAIN EntryMap : y \in C})' = SumFunctionOnSet(g, B)
  BY DEF PrincipalsOver, SumFunction
<1>9. IF all THEN SumFunctionOnSet(k, T) = SumFunctionOnSet(pr, S) ELSE SumFunctionOnSet(k, T) = 0
  <2>1. CASE all
    <3>1. T = {h[d] : d \in S}
      BY <2>1
    <3>2. \A d \in S : pr[d] \in Int /\ k[h[d]] = pr[d]
      BY <1>1, <1>3, <3>1
    <3>3. \A d, e \in S : h[d] = h[e] => d = e
      BY <1>3
    <3> HIDE DEF h, k, T
    <3>4. SumFunctionOnSet(k, {h[d] : d \in S}) = SumFunctionOnSet(pr, S)
      BY <1>1, <3>2, <3>3, SumReindex
    <3> QED  BY <2>1, <3>1, <3>4
  <2>2. CASE ~ all
    <3>1. T = {}
      BY <2>2
    <3> HIDE DEF T, k
    <3>2. SumFunctionOnSet(k, T) = 0
      BY <3>1, FS_EmptySet, SumFirst
    <3> QED  BY <2>2, <3>2
  <2> QED  BY <1>0, <2>1, <2>2
<1> HIDE DEF A, B, f, g, T, k
<1>10. Shifts(g, B, f, A, k, T, Keys)
  BY <1>4, <1>5, <1>6, <1>7, KeysFinite DEF Shifts
<1>11. /\ SumFunctionOnSet(f, A) \in Int
       /\ SumFunctionOnSet(g, B) = SumFunctionOnSet(f, A) + SumFunctionOnSet(k, T)
  BY <1>10, SumShifts
<1> QED  BY <1>0, <1>2, <1>8, <1>9, <1>11

\* The principals of an index and those of a proprietor.
LEMMA PrincipalsTotals ==
    ASSUME EntryTypes, EntryTypes', NEW w \in Who, NEW r \in Reasons, NEW i \in Indexes,
           NEW S, NEW sh, NEW pr, EntriesMove(w, r, i, S, sh, pr)
    PROVE  /\ SumFunctionOnSet(pr, S) \in Int
           /\ \A s \in Reasons, j \in Indexes :
                 /\ PrincipalsOver({y \in DOMAIN EntryMap : <<y[1], y[2]>> = <<s, j>>}) \in Int
                 /\ PrincipalsOver({y \in DOMAIN EntryMap : <<y[1], y[2]>> = <<s, j>>})'
                      = PrincipalsOver({y \in DOMAIN EntryMap : <<y[1], y[2]>> = <<s, j>>})
                           + (IF <<s, j>> = <<r, i>> THEN SumFunctionOnSet(pr, S) ELSE 0)
           /\ \A s \in Reasons, z \in Who :
                 /\ PrincipalsOver({y \in DOMAIN EntryMap : y[1] = s /\ y[4] = z}) \in Int
                 /\ PrincipalsOver({y \in DOMAIN EntryMap : y[1] = s /\ y[4] = z})'
                      = PrincipalsOver({y \in DOMAIN EntryMap : y[1] = s /\ y[4] = z})
                           + (IF s = r /\ z = w THEN SumFunctionOnSet(pr, S) ELSE 0)
<1>0. DOMAIN EntryMap \subseteq Keys /\ DOMAIN EntryMap' \subseteq Keys
  BY DEF EntryTypes
<1>1. ASSUME NEW s \in Reasons, NEW j \in Indexes
      PROVE  /\ PrincipalsOver({y \in DOMAIN EntryMap : <<y[1], y[2]>> = <<s, j>>}) \in Int
             /\ SumFunctionOnSet(pr, S) \in Int
             /\ PrincipalsOver({y \in DOMAIN EntryMap : <<y[1], y[2]>> = <<s, j>>})'
                  = PrincipalsOver({y \in DOMAIN EntryMap : <<y[1], y[2]>> = <<s, j>>})
                       + (IF <<s, j>> = <<r, i>> THEN SumFunctionOnSet(pr, S) ELSE 0)
  <2>1. PICK C \in SUBSET Keys : C = {y \in Keys : <<y[1], y[2]>> = <<s, j>>}
    OBVIOUS
  <2>2. PICK all \in BOOLEAN : all = (<<s, j>> = <<r, i>>)
    OBVIOUS
  <2>3. AllOrNone(w, r, i, S, C, all)
    BY <2>1, <2>2 DEF EntriesMove, Keys, AllOrNone
  <2>4. /\ {y \in DOMAIN EntryMap : y \in C} = {y \in DOMAIN EntryMap : <<y[1], y[2]>> = <<s, j>>}
        /\ {y \in DOMAIN EntryMap' : y \in C} = {y \in DOMAIN EntryMap' : <<y[1], y[2]>> = <<s, j>>}
    BY <1>0, <2>1
  <2>5. /\ PrincipalsOver({y \in DOMAIN EntryMap : y \in C})
             = PrincipalsOver({y \in DOMAIN EntryMap : <<y[1], y[2]>> = <<s, j>>})
        /\ PrincipalsOver({y \in DOMAIN EntryMap : y \in C})'
             = PrincipalsOver({y \in DOMAIN EntryMap : <<y[1], y[2]>> = <<s, j>>})'
    BY <2>4, Zenon DEF PrincipalsOver
  <2>6. /\ PrincipalsOver({y \in DOMAIN EntryMap : y \in C}) \in Int
        /\ SumFunctionOnSet(pr, S) \in Int
        /\ PrincipalsOver({y \in DOMAIN EntryMap : y \in C})'
             = PrincipalsOver({y \in DOMAIN EntryMap : y \in C})
                  + (IF all THEN SumFunctionOnSet(pr, S) ELSE 0)
    BY <2>3, PrincipalsMove
  <2> QED  BY <2>2, <2>5, <2>6, Zenon
<1>2. ASSUME NEW s \in Reasons, NEW z \in Who
      PROVE  /\ PrincipalsOver({y \in DOMAIN EntryMap : y[1] = s /\ y[4] = z}) \in Int
             /\ SumFunctionOnSet(pr, S) \in Int
             /\ PrincipalsOver({y \in DOMAIN EntryMap : y[1] = s /\ y[4] = z})'
                  = PrincipalsOver({y \in DOMAIN EntryMap : y[1] = s /\ y[4] = z})
                       + (IF s = r /\ z = w THEN SumFunctionOnSet(pr, S) ELSE 0)
  <2>1. PICK C \in SUBSET Keys : C = {y \in Keys : y[1] = s /\ y[4] = z}
    OBVIOUS
  <2>2. PICK all \in BOOLEAN : all = (s = r /\ z = w)
    OBVIOUS
  <2>3. AllOrNone(w, r, i, S, C, all)
    BY <2>1, <2>2 DEF EntriesMove, Keys, AllOrNone
  <2>4. /\ {y \in DOMAIN EntryMap : y \in C} = {y \in DOMAIN EntryMap : y[1] = s /\ y[4] = z}
        /\ {y \in DOMAIN EntryMap' : y \in C} = {y \in DOMAIN EntryMap' : y[1] = s /\ y[4] = z}
    BY <1>0, <2>1
  <2>5. /\ PrincipalsOver({y \in DOMAIN EntryMap : y \in C})
             = PrincipalsOver({y \in DOMAIN EntryMap : y[1] = s /\ y[4] = z})
        /\ PrincipalsOver({y \in DOMAIN EntryMap : y \in C})'
             = PrincipalsOver({y \in DOMAIN EntryMap : y[1] = s /\ y[4] = z})'
    BY <2>4, Zenon DEF PrincipalsOver
  <2>6. /\ PrincipalsOver({y \in DOMAIN EntryMap : y \in C}) \in Int
        /\ SumFunctionOnSet(pr, S) \in Int
        /\ PrincipalsOver({y \in DOMAIN EntryMap : y \in C})'
             = PrincipalsOver({y \in DOMAIN EntryMap : y \in C})
                  + (IF all THEN SumFunctionOnSet(pr, S) ELSE 0)
    BY <2>3, PrincipalsMove
  <2> QED  BY <2>2, <2>5, <2>6, Zenon
<1> QED  BY <1>1, <1>2

LEMMA EntrySharesTyped ==
    ASSUME EntryTypes, NEW s, NEW d, NEW v
    PROVE  EntrySharesIn(s, d, v) \in Nat
<1> DEFINE A == {x \in DOMAIN EntryMap :
                    x[1] = s /\ x[3] = d /\ IndexMap[<<s, x[2]>>].entries[d].variant = v}
           f == [x \in A |-> Shares(EntryMap[x])]
<1>1. EntrySharesIn(s, d, v) = SumFunctionOnSet(f, A)
  BY DEF EntrySharesIn, Shares, SumFunction
<1>2. \A x \in A : EntryMap[x] \in Seq(Receipts)
  BY DEF EntryTypes
<1>3. \A x \in A : f[x] \in Nat
  BY <1>2, ReceiptSums
<1>4. IsFiniteSet(A)
  BY KeysFinite, FS_Subset DEF EntryTypes
<1> HIDE DEF A, f
<1> QED  BY <1>1, <1>3, <1>4, SumTyped

\* The shares that entries hold of a variant of a digest.
LEMMA EntrySharesMove ==
    ASSUME EntryTypes, EntryTypes', NEW w \in Who, NEW r \in Reasons, NEW i \in Indexes,
           NEW S, NEW sh, NEW pr, EntriesMove(w, r, i, S, sh, pr), EntriesStay,
           index_exists(r, i), \A x \in DOMAIN EntryMap : index_exists(x[1], x[2]),
           NEW s \in Reasons, NEW d \in Digests, NEW v
    PROVE  /\ EntrySharesIn(s, d, v)'
                = EntrySharesIn(s, d, v)
                     + (IF s = r /\ d \in S /\ v = IndexMap[<<r, i>>].entries[d].variant
                        THEN sh[d] ELSE 0)
<1> DEFINE A == {x \in DOMAIN EntryMap :
                    x[1] = s /\ x[3] = d /\ IndexMap[<<s, x[2]>>].entries[d].variant = v}
           B == {x \in DOMAIN EntryMap' :
                    x[1] = s /\ x[3] = d /\ IndexMap'[<<s, x[2]>>].entries[d].variant = v}
           f == [x \in A |-> Shares(EntryMap[x])]
           g == [x \in B |-> Shares(EntryMap'[x])]
           hit == s = r /\ d \in S /\ v = IndexMap[<<r, i>>].entries[d].variant
           y == <<r, i, d, w>>
           T == IF hit THEN {y} ELSE {}
           k == [x \in T |-> sh[d]]
<1>1. /\ EntrySharesIn(s, d, v) = SumFunctionOnSet(f, A)
      /\ EntrySharesIn(s, d, v)' = SumFunctionOnSet(g, B)
  BY DEF EntrySharesIn, Shares, SumFunction
<1>2. A \subseteq Keys /\ B \subseteq Keys
  BY DEF EntryTypes
<1>3. (\A x \in A : f[x] \in Int) /\ (\A x \in B : g[x] \in Int)
  <2>1. \A x \in A : EntryMap[x] \in Seq(Receipts)
    BY DEF EntryTypes
  <2>2. \A x \in B : EntryMap'[x] \in Seq(Receipts)
    BY DEF EntryTypes
  <2>3. \A x \in A : Shares(EntryMap[x]) \in Nat
    BY <2>1, ReceiptSums
  <2>4. \A x \in B : Shares(EntryMap'[x]) \in Nat
    BY <2>2, ReceiptSums
  <2> QED  BY <2>3, <2>4
<1>4. /\ <<r, i>> \in DOMAIN IndexMap
      /\ IndexMap'[<<r, i>>].entries = IndexMap[<<r, i>>].entries
  BY DEF EntriesStay, index_exists
<1>5. ASSUME hit
      PROVE  y \in Keys /\ sh[d] \in Int /\ sh[d] = ValueOr0(g, B, y) - ValueOr0(f, A, y)
  <2>1. /\ y \in Keys /\ sh[d] \in Int
        /\ sh[d] = (IF y \in DOMAIN EntryMap' THEN Shares(EntryMap'[y]) ELSE 0)
                      - (IF y \in DOMAIN EntryMap THEN Shares(EntryMap[y]) ELSE 0)
    BY <1>5, KeyMoves
  <2>2. y[1] = s /\ y[2] = i /\ y[3] = d
    BY <1>5
  <2>3. (y \in A <=> y \in DOMAIN EntryMap) /\ (y \in B <=> y \in DOMAIN EntryMap')
    BY <1>4, <1>5, <2>2
  <2>4. /\ ValueOr0(g, B, y) = IF y \in DOMAIN EntryMap' THEN Shares(EntryMap'[y]) ELSE 0
        /\ ValueOr0(f, A, y) = IF y \in DOMAIN EntryMap THEN Shares(EntryMap[y]) ELSE 0
    <3> HIDE DEF A, B, y
    <3> QED  BY <2>3 DEF ValueOr0
  <2> HIDE DEF A, B, f, g, y
  <2> QED  BY <2>1, <2>4
<1>6. ASSUME NEW x \in Keys \ T  PROVE ValueOr0(g, B, x) = ValueOr0(f, A, x)
  <2>1. CASE \A e \in S : x # <<r, i, e, w>>
    <3>1. /\ x \in DOMAIN EntryMap' <=> x \in DOMAIN EntryMap
          /\ x \in DOMAIN EntryMap => EntryMap'[x] = EntryMap[x]
      BY <2>1 DEF EntriesMove
    <3>2. x \in DOMAIN EntryMap /\ x[1] = s
             => IndexMap'[<<s, x[2]>>].entries = IndexMap[<<s, x[2]>>].entries
      BY DEF EntriesStay, index_exists
    <3>3. x \in B <=> x \in A
      BY <3>1, <3>2
    <3> QED  BY <3>1, <3>3 DEF ValueOr0
  <2>2. CASE \E e \in S : x = <<r, i, e, w>>
    <3>1. PICK e \in S : x = <<r, i, e, w>>
      BY <2>2
    <3>2. x[1] = r /\ x[2] = i /\ x[3] = e
      BY <3>1
    <3>3. x \notin A /\ x \notin B
      BY <1>4, <1>6, <3>1, <3>2
    <3> QED  BY <3>3 DEF ValueOr0
  <2> QED  BY <2>1, <2>2
<1>7. SumFunctionOnSet(k, T) = IF hit THEN sh[d] ELSE 0
  <2>1. CASE hit
    <3>1. k[y] = sh[d] /\ sh[d] \in Int /\ T = {y}
      BY <1>5, <2>1
    <3> HIDE DEF k, T, y, hit
    <3>2. SumFunctionOnSet(k, {y}) = sh[d]
      BY <3>1, SumOne
    <3> QED  BY <2>1, <3>1, <3>2
  <2>2. CASE ~ hit
    <3>1. T = {}
      BY <2>2
    <3> HIDE DEF T, k, hit
    <3>2. SumFunctionOnSet(k, T) = 0
      BY <3>1, FS_EmptySet, SumFirst
    <3> QED  BY <2>2, <3>2
  <2> QED  BY <2>1, <2>2
<1>8. T \subseteq Keys /\ \A x \in T : k[x] = ValueOr0(g, B, x) - ValueOr0(f, A, x)
  BY <1>5
<1> HIDE DEF A, B, f, g, T, k, hit
<1>9. Shifts(g, B, f, A, k, T, Keys)
  BY <1>2, <1>3, <1>6, <1>8, KeysFinite DEF Shifts
<1>10. SumFunctionOnSet(g, B) = SumFunctionOnSet(f, A) + SumFunctionOnSet(k, T)
  BY <1>9, SumShifts
<1> QED  BY <1>1, <1>7, <1>10 DEF hit

-----------------------------------------------------------------------------
(* Steps of direct commitments, seen from those of indexes *)

LEMMA OneMoves ==
    ASSUME NEW w \in Who, NEW r \in Reasons, OthersKeep(w, r), Directly(w, r), Directly(w, r)'
    PROVE  OthersStay
<1> SUFFICES ASSUME NEW y \in Who, NEW s \in Reasons, y # w \/ s # r
             PROVE  IF Directly(y, s) THEN Directly(y, s)'
                    ELSE commit_exists(y, s)' /\ CommitMap'[<<y, s>>] = CommitMap[<<y, s>>]
  BY DEF OthersStay
<1>1. /\ commit_exists(y, s)' <=> commit_exists(y, s)
      /\ commit_exists(y, s) => CommitMap'[<<y, s>>] = CommitMap[<<y, s>>]
  BY DEF OthersKeep
<1> QED  BY <1>1 DEF Directly

LEMMA NoneMoves ==
    ASSUME UNCHANGED CommitMap
    PROVE  OthersStay
  BY DEF OthersStay, Directly, commit_exists

LEMMA InsertKeeps ==
    ASSUME NEW w \in Who, NEW r \in Reasons, NEW c, CommitMap' = Insert(CommitMap, <<w, r>>, c)
    PROVE  OthersKeep(w, r) /\ commit_exists(w, r)' /\ CommitMap'[<<w, r>>] = c
<1>1. /\ DOMAIN CommitMap' = DOMAIN CommitMap \cup {<<w, r>>} /\ CommitMap'[<<w, r>>] = c
      /\ \A x \in DOMAIN CommitMap : x # <<w, r>> => CommitMap'[x] = CommitMap[x]
  BY DEF Insert
<1>2. \A y, s : y # w \/ s # r => <<y, s>> # <<w, r>>
  OBVIOUS
<1> QED  BY <1>1, <1>2 DEF OthersKeep, commit_exists

LEMMA DeleteKeeps ==
    ASSUME NEW w \in Who, NEW r \in Reasons, CommitMap' = Delete(CommitMap, <<w, r>>)
    PROVE  OthersKeep(w, r) /\ ~ commit_exists(w, r)'
<1>1. /\ DOMAIN CommitMap' = DOMAIN CommitMap \ {<<w, r>>}
      /\ \A x \in DOMAIN CommitMap : x # <<w, r>> => CommitMap'[x] = CommitMap[x]
  BY DEF Delete
<1>2. \A y, s : y # w \/ s # r => <<y, s>> # <<w, r>>
  OBVIOUS
<1> QED  BY <1>1, <1>2 DEF OthersKeep, commit_exists

LEMMA ExceptKeeps ==
    ASSUME NEW w \in Who, NEW r \in Reasons, commit_exists(w, r), NEW c,
           CommitMap' = [CommitMap EXCEPT ![<<w, r>>] = c]
    PROVE  OthersKeep(w, r) /\ commit_exists(w, r)' /\ CommitMap'[<<w, r>>] = c
<1>1. <<w, r>> \in DOMAIN CommitMap
  BY DEF commit_exists
<1>2. /\ DOMAIN CommitMap' = DOMAIN CommitMap /\ CommitMap'[<<w, r>>] = c
      /\ \A x \in DOMAIN CommitMap : x # <<w, r>> => CommitMap'[x] = CommitMap[x]
  BY <1>1
<1>3. \A y, s : y # w \/ s # r => <<y, s>> # <<w, r>>
  OBVIOUS
<1> QED  BY <1>1, <1>2, <1>3 DEF OthersKeep, commit_exists

\* A call about a commitment that raises, resolves or moves it finds its digest,
\* which the id of an index or of a pool is not.
LEMMA DirectSteps ==
    ASSUME NEW o, CoreTypes(o), [Next]_vars
    PROVE  OthersStay
<1>0. \A r, d : digest_exists(r, d) => d \in Digests
  BY DEF CoreTypes, digest_exists
<1>1. ASSUME NEW w \in Who, NEW x, NEW exact, DepositReserve(w, x, exact)
      PROVE  OthersStay
  BY <1>1, NoneMoves DEF DepositReserve
<1>2. ASSUME NEW w \in Who, NEW x, WithdrawReserve(w, x)
      PROVE  OthersStay
  BY <1>2, NoneMoves DEF WithdrawReserve
<1>4. ASSUME NEW w \in Who, NEW x, NEW r \in Reasons, NEW p, RaiseCommit(w, r, x, p)
      PROVE  OthersStay
  <2> DEFINE c == CommitMap[<<w, r>>]
             e == Append(c.commits, DepositReceipt(DigestInfo(r, c.digest)[c.variant],
                                                   deducted(free[w], hold[w], x)))
             z == [c EXCEPT !.commits = e]
  <2>1. commit_exists(w, r) /\ digest_exists(r, c.digest)
    BY <1>4 DEF RaiseCommit
  <2>2. CommitMap' = [CommitMap EXCEPT ![<<w, r>>].commits = e]
    BY <1>4 DEF RaiseCommit
  <2>3. CommitMap' = [CommitMap EXCEPT ![<<w, r>>] = z]
    <3> HIDE DEF e
    <3> QED  BY <2>2
  <2>4. z.digest = c.digest
    <3>1. <<w, r>> \in DOMAIN CommitMap /\ CommitMap[<<w, r>>] \in CoreInfos(o)
      BY <2>1 DEF CoreTypes, commit_exists
    <3> HIDE DEF e
    <3> QED  BY <3>1 DEF CoreInfos
  <2> HIDE DEF z
  <2>5. OthersKeep(w, r) /\ CommitMap'[<<w, r>>] = z
    BY <2>1, <2>3, ExceptKeeps
  <2>6. Directly(w, r) /\ Directly(w, r)'
    BY <1>0, <2>1, <2>4, <2>5 DEF Directly
  <2> QED  BY <2>5, <2>6, OneMoves
<1>5. ASSUME NEW w \in Who, NEW x, NEW r \in Reasons, NEW p,
             NEW d \in Digests, NEW v, PlaceCommit(w, r, d, v, x, p)
      PROVE  OthersStay
  <2> DEFINE c == [digest |-> d, variant |-> v,
                   commits |-> <<DepositReceipt(DigestInfo(r, d)[v], deducted(free[w], hold[w], x))>>]
  <2>1. ~ commit_exists(w, r) /\ CommitMap' = Insert(CommitMap, <<w, r>>, c)
    BY <1>5 DEF PlaceCommit
  <2>2. c.digest = d
    OBVIOUS
  <2> HIDE DEF c
  <2>3. OthersKeep(w, r) /\ CommitMap'[<<w, r>>] = c
    BY <2>1, InsertKeeps
  <2>4. Directly(w, r) /\ Directly(w, r)'
    BY <2>1, <2>2, <2>3 DEF Directly
  <2> QED  BY <2>3, <2>4, OneMoves
<1>6. ASSUME NEW w \in Who, NEW r \in Reasons, ResolveCommit(w, r)
      PROVE  OthersStay
  <2>1. CommitMap' = Delete(CommitMap, <<w, r>>) /\ digest_exists(r, CommitMap[<<w, r>>].digest)
    BY <1>6 DEF ResolveCommit, can_be_resolved, Withdrawal
  <2>2. OthersKeep(w, r) /\ ~ commit_exists(w, r)'
    BY <2>1, DeleteKeeps
  <2>3. Directly(w, r) /\ Directly(w, r)'
    BY <1>0, <2>1, <2>2 DEF Directly
  <2> QED  BY <2>2, <2>3, OneMoves
<1>7. ASSUME NEW w \in Who, NEW r \in Reasons, NEW v, NEW p, SetCommitVariant(w, r, v, p)
      PROVE  OthersStay
  <2>1. commit_exists(w, r) /\ digest_exists(r, CommitMap[<<w, r>>].digest)
    BY <1>7 DEF SetCommitVariant, can_be_resolved, Withdrawal
  <2>2. PICK commits : CommitMap' = [CommitMap EXCEPT ![<<w, r>>] =
            [digest |-> CommitMap[<<w, r>>].digest, variant |-> v, commits |-> commits]]
    BY <1>7 DEF SetCommitVariant
  <2> DEFINE c == [digest |-> CommitMap[<<w, r>>].digest, variant |-> v, commits |-> commits]
  <2>3. c.digest = CommitMap[<<w, r>>].digest /\ CommitMap' = [CommitMap EXCEPT ![<<w, r>>] = c]
    BY <2>2
  <2> HIDE DEF c
  <2>4. OthersKeep(w, r) /\ CommitMap'[<<w, r>>] = c
    BY <2>1, <2>3, ExceptKeeps
  <2>5. Directly(w, r) /\ Directly(w, r)'
    BY <1>0, <2>1, <2>3, <2>4 DEF Directly
  <2> QED  BY <2>4, <2>5, OneMoves
<1>8. ASSUME NEW r \in Reasons, NEW d \in Digests, ReapDigest(r, d)
      PROVE  OthersStay
  BY <1>8, NoneMoves DEF ReapDigest
<1>9. ASSUME NEW r \in Reasons, NEW d \in Digests, NEW v, NEW x, SetDigestValue(r, d, v, x)
      PROVE  OthersStay
  BY <1>9, NoneMoves DEF SetDigestValue
<1>10. CASE UNCHANGED vars
  BY <1>10, NoneMoves DEF vars
<1> QED  BY <1>1, <1>2, <1>4, <1>5, <1>6, <1>7, <1>8, <1>9, <1>10 DEF Next

LEMMA CoreTyping ==
    ASSUME NEW ids, StoredTypes(ids), NEW o, o.ids = ids, OthersTyped(o)
    PROVE  CoreTypes(o)
<1>1. CoreInfos(o) = [digest : ids, variant : Positions, commits : Seq(Receipts)]
  BY DEF CoreInfos
<1> QED  BY <1>1 DEF StoredTypes, CoreTypes

LEMMA TotalValueTyped ==
    ASSUME NEW ids, StoredTypes(ids), BalancesSound
    PROVE  TotalDigestValue \in Int
<1> DEFINE f == [r \in Reasons |-> DigestValueOf(r)]
<1>1. \A r \in Reasons : f[r] \in Int
  BY DigestMapSound, ValueInTyped
<1>2. TotalDigestValue = SumFunctionOnSet(f, Reasons)
  BY DEF TotalDigestValue, SumFunction
<1> HIDE DEF f
<1> QED  BY <1>1, <1>2, FiniteAssumption, SumTyped

LEMMA CoreFrom ==
    ASSUME NEW ids, Digests \subseteq ids, Shared(ids), NEW sh, NEW fr, Seen(sh, fr)
    PROVE  \E o : CoreInv(o) /\ o.ids = ids /\ o.shares = sh /\ o.frozen = fr
<1> DEFINE p == [ids |-> ids, shares |-> sh, frozen |-> fr, gap |-> 0]
           gap == TotalDigestValue - (TotalDeposit + AssetToIssue - AssetToReap)
           o == [ids |-> ids, shares |-> sh, frozen |-> fr, gap |-> gap]
<1>1. p.ids = ids /\ OthersTyped(p)
  BY DEF OthersTyped, Seen
<1> HIDE DEF p
<1>2. CoreTypes(p)
  BY <1>1, CoreTyping DEF Shared
<1>3. /\ TotalDeposit \in Int /\ AssetToIssue \in Int /\ AssetToReap \in Int
      /\ TotalDigestValue \in Int
  <2>1. TotalDeposit \in Int
    BY <1>2, DepositSumTyped
  <2>2. AssetToIssue \in Int /\ AssetToReap \in Int
    BY <1>2 DEF CoreTypes, Assets
  <2>3. TotalDigestValue \in Int
    BY TotalValueTyped DEF Shared
  <2> QED  BY <2>1, <2>2, <2>3
<1>4. gap \in Int /\ TotalDigestValue = TotalDeposit + AssetToIssue - AssetToReap + gap
  BY <1>3
<1> HIDE DEF gap
<1>5. o.ids = ids /\ o.shares = sh /\ o.frozen = fr /\ o.gap = gap
  OBVIOUS
<1> HIDE DEF o
<1>6. OthersTyped(o)
  BY <1>4, <1>5 DEF OthersTyped, Seen
<1>7. CoreTypes(o)
  BY <1>5, <1>6, CoreTyping DEF Shared
<1>8. CoreFrozen(o) /\ CoreEquilibrium(o)
  BY <1>4, <1>5 DEF Seen, CoreFrozen, CoreEquilibrium
<1>9. CoreHeld(o) /\ DirectCount
  BY <1>5 DEF Shared, DirectBacked, Seen, CoreHeld, DirectCount
<1> QED  BY <1>5, <1>7, <1>8, <1>9 DEF CoreInv, CoreBooks, Shared

LEMMA CoreBack ==
    ASSUME NEW ids, NEW sh, NEW fr, NEW o, CoreInv(o)', o.ids = ids, o.shares = sh, o.frozen = fr
    PROVE  Shared(ids)' /\ Seen(sh, fr)'
<1>1. CoreTypes(o)' /\ CoreHeld(o)' /\ CoreBooks(o)' /\ BalancesSound' /\ DirectCount'
  BY DEF CoreInv
<1>2. StoredTypes(ids)' /\ OthersTyped(o)
  BY <1>1 DEF CoreTypes, StoredTypes, CoreInfos
<1>3. DirectBacked'
  BY <1>1 DEF CoreHeld, DirectCount, DirectBacked
<1>4. Seen(sh, fr)'
  BY <1>1, <1>2 DEF Seen, CoreHeld, CoreBooks, CoreFrozen, OthersTyped
<1> QED  BY <1>1, <1>2, <1>3, <1>4 DEF Shared, CoreBooks

\* A step of a direct commitment: the others see the same afterwards.
LEMMA SharedStep ==
    ASSUME NEW ids, Digests \subseteq ids, Shared(ids), NEW sh, NEW fr, Seen(sh, fr), [Next]_vars
    PROVE  Shared(ids)' /\ Seen(sh, fr)' /\ OthersStay
<1>1. PICK o : CoreInv(o) /\ o.ids = ids /\ o.shares = sh /\ o.frozen = fr
  BY CoreFrom
<1>2. CoreInv(o)' /\ OthersStay
  BY <1>1, StepInv, DirectSteps DEF CoreInv
<1> QED  BY <1>1, <1>2, CoreBack

-----------------------------------------------------------------------------
(* The inductive invariant of indexes *)

LEMMA EntriesTyped ==
    ASSUME IndexTypeOK
    PROVE  EntryTypes
  BY DEF IndexTypeOK, EntryTypes, Keys

LEMMA PrincipalsTyped ==
    ASSUME EntryTypes, NEW S \in SUBSET DOMAIN EntryMap
    PROVE  PrincipalsOver(S) \in Nat
<1> DEFINE f == [x \in S |-> Principals(EntryMap[x])]
<1>1. \A x \in S : EntryMap[x] \in Seq(Receipts)
  BY DEF EntryTypes
<1>2. \A x \in S : f[x] \in Nat
  BY <1>1, ReceiptSums
<1>3. IsFiniteSet(S)
  BY KeysFinite, FS_Subset DEF EntryTypes
<1>4. PrincipalsOver(S) = SumFunctionOnSet(f, S)
  BY DEF PrincipalsOver, SumFunction
<1> HIDE DEF f
<1> QED  BY <1>2, <1>3, <1>4, SumTyped

LEMMA PrincipalsOfNone == PrincipalsOver({}) = 0
<1> DEFINE f == [x \in {} |-> Principals(EntryMap[x])]
<1>1. DOMAIN f = {} /\ PrincipalsOver({}) = SumFunction(f)
  BY DEF PrincipalsOver
<1> HIDE DEF f
<1> QED  BY <1>1, SumNothing

LEMMA IndexSeen ==
    ASSUME IndexInv, NEW sh, NEW fr, EntryShares(sh), EntryPrincipals(fr)
    PROVE  Shared(Ids) /\ Seen(sh, fr)
<1>0. EntryTypes
  BY EntriesTyped DEF IndexInv
<1>1. Shared(Ids)
  BY DEF IndexInv, Shared, Books, Ids
<1>2. ASSUME NEW r \in Reasons, NEW d \in Digests, NEW v \in Positions
      PROVE  sh[<<r, d, v>>] \in Nat /\ DigestInfo(r, d)[v].issued = SharesIn(r, d, v) + sh[<<r, d, v>>]
  <2>1. EntrySharesIn(r, d, v) \in Nat
    BY <1>0, EntrySharesTyped
  <2> QED  BY <2>1 DEF IndexInv, IndexReceiptsHoldShares, EntryShares
<1>3. ASSUME NEW w \in Who, NEW r \in Reasons
      PROVE  /\ fr[<<w, r>>] \in Nat
             /\ frozen[<<w, r>>] = DepositOf(w, r) + fr[<<w, r>>]
             /\ Directly(w, r) => fr[<<w, r>>] = 0
  <2> DEFINE S == {y \in DOMAIN EntryMap : y[1] = r /\ y[4] = w}
  <2>1. fr[<<w, r>>] = PrincipalsOver(S)
    BY DEF EntryPrincipals
  <2>2. PrincipalsOver(S) \in Nat
    <3>1. S \in SUBSET DOMAIN EntryMap
      OBVIOUS
    <3> HIDE DEF S
    <3> QED  BY <1>0, <3>1, PrincipalsTyped
  <2>3. frozen[<<w, r>>] = DepositOf(w, r) + PrincipalsOver(S)
    BY DEF IndexInv, Books, IndexFrozen
  <2>4. Directly(w, r) => S = {}
    <3> SUFFICES ASSUME Directly(w, r), NEW y \in S  PROVE FALSE
      OBVIOUS
    <3>1. y \in Keys /\ y[1] = r /\ y[4] = w
      BY <1>0 DEF EntryTypes
    <3>2. y[2] \in Indexes
      BY <3>1 DEF Keys
    <3>3. commit_exists(w, r) /\ CommitMap[<<w, r>>].digest = y[2]
      BY <3>1 DEF IndexInv, EntriesAccounted, EntriesOwned
    <3> QED  BY <3>2, <3>3, CommitIndexAssumption DEF Directly
  <2> HIDE DEF S
  <2> QED  BY <2>1, <2>2, <2>3, <2>4, PrincipalsOfNone
<1> QED  BY <1>1, <1>2, <1>3 DEF Seen

\* What is left of the invariant beside what direct commitments see.
LEMMA IndexInvFrom ==
    ASSUME Shared(Ids)', IndexTypeOK', EntriesCount', IndexPrincipals', EntriesOwned',
           NEW sh, NEW fr, Seen(sh, fr)', EntryShares(sh)', EntryPrincipals(fr)'
    PROVE  IndexInv'
<1>1. IndexFrozen'
  BY DEF Seen, EntryPrincipals, IndexFrozen
<1>2. IndexReceiptsHoldShares'
  BY DEF Seen, EntryShares, IndexReceiptsHoldShares
<1> QED  BY <1>1, <1>2 DEF IndexInv, Shared, Ids, Books, EntriesAccounted

LEMMA EntriesSame ==
    ASSUME UNCHANGED EntryMap
    PROVE  \A S : PrincipalsOver(S)' = PrincipalsOver(S)
  BY DEF PrincipalsOver

\* Direct commitments do not disturb indexes.
LEMMA DirectKeepsIndexes ==
    ASSUME IndexInv, [Next]_vars, UNCHANGED indexVars
    PROVE  IndexInv'
<1>0. UNCHANGED <<IndexMap, EntryMap>>
  BY DEF indexVars
<1>1. PICK sh : sh = [x \in Reasons \X Digests \X Positions |-> EntrySharesIn(x[1], x[2], x[3])]
  OBVIOUS
<1>2. PICK fr : fr = [x \in Who \X Reasons |->
                        PrincipalsOver({y \in DOMAIN EntryMap : y[1] = x[2] /\ y[4] = x[1]})]
  OBVIOUS
<1>3. EntryShares(sh) /\ EntryPrincipals(fr)
  BY <1>1, <1>2 DEF EntryShares, EntryPrincipals
<1>4. Shared(Ids)' /\ Seen(sh, fr)' /\ OthersStay
  BY <1>3, IndexSeen, SharedStep DEF Ids
<1>5. EntryShares(sh)' /\ EntryPrincipals(fr)'
  <2>1. \A r, d, v : EntrySharesIn(r, d, v)' = EntrySharesIn(r, d, v)
    BY <1>0 DEF EntrySharesIn
  <2>2. \A w, r : PrincipalsOver({y \in DOMAIN EntryMap : y[1] = r /\ y[4] = w})'
                    = PrincipalsOver({y \in DOMAIN EntryMap : y[1] = r /\ y[4] = w})
    BY <1>0 DEF PrincipalsOver
  <2>3. EntryShares(sh)'
    BY <1>3, <2>1 DEF EntryShares
  <2>4. EntryPrincipals(fr)'
    <3> SUFFICES ASSUME NEW w \in Who, NEW r \in Reasons
                 PROVE  fr[<<w, r>>] = PrincipalsOver({y \in DOMAIN EntryMap : y[1] = r /\ y[4] = w})'
      BY Zenon DEF EntryPrincipals
    <3>1. fr[<<w, r>>] = PrincipalsOver({y \in DOMAIN EntryMap : y[1] = r /\ y[4] = w})
      BY <1>3 DEF EntryPrincipals
    <3> QED  BY <2>2, <3>1, Zenon
  <2> QED  BY <2>3, <2>4
<1>6. StoredTypes(Ids)' /\ StoredTypes(Ids) /\ IndexTypeOK /\ EntriesCount /\ IndexPrincipals /\ EntriesOwned
  BY <1>4 DEF Shared, IndexInv, EntriesAccounted, Ids
<1>7. IndexTypeOK'
  <2>1. free' \in [Who -> Assets] /\ ReasonValue' \in [Reasons -> Assets]
    BY <1>6 DEF StoredTypes
  <2> QED  BY <1>0, <1>6, <2>1 DEF IndexTypeOK
<1>8. ASSUME NEW w \in Who, NEW r \in Reasons, ~ Directly(w, r)
      PROVE  commit_exists(w, r) /\ commit_exists(w, r)' /\ CommitMap'[<<w, r>>] = CommitMap[<<w, r>>]
  BY <1>4, <1>8 DEF OthersStay, Directly
<1>9. EntriesCount'
  <2>1. ASSUME NEW x \in DOMAIN CommitMap', CommitMap'[x].digest \in Indexes,
               NEW n \in DOMAIN CommitMap'[x].commits
        PROVE  CommitMap'[x].commits[n] = NoReceipt
    <3>1. PICK w \in Who, r \in Reasons : x = <<w, r>>
      BY <1>6 DEF StoredTypes
    <3>2. ~ Directly(w, r)'
      BY <2>1, <3>1, CommitIndexAssumption DEF Directly, commit_exists
    <3>3. commit_exists(w, r) /\ CommitMap'[x] = CommitMap[x]
      BY <1>4, <1>8, <3>1, <3>2 DEF OthersStay
    <3> QED  BY <1>6, <2>1, <3>1, <3>3 DEF EntriesCount, commit_exists
  <2> QED  BY <1>0, <1>6, <2>1 DEF EntriesCount
<1>10. EntriesOwned'
  <2> SUFFICES ASSUME NEW x \in DOMAIN EntryMap
               PROVE  commit_exists(x[4], x[1])' /\ CommitMap'[<<x[4], x[1]>>] = CommitMap[<<x[4], x[1]>>]
    BY <1>0, <1>6 DEF EntriesOwned, index_exists
  <2>1. x[4] \in Who /\ x[1] \in Reasons /\ x[2] \in Indexes
    BY <1>6 DEF IndexTypeOK
  <2>2. ~ Directly(x[4], x[1])
    BY <1>6, <2>1, CommitIndexAssumption DEF EntriesOwned, Directly
  <2> QED  BY <1>8, <2>1, <2>2
<1>11. IndexPrincipals'
  BY <1>0, <1>6 DEF IndexPrincipals, PrincipalsOver
<1> QED  BY <1>4, <1>5, <1>7, <1>9, <1>10, <1>11, IndexInvFrom

-----------------------------------------------------------------------------
(* Setting indexes up and reaping them *)

LEMMA EntriesKind ==
    ASSUME NEW e
    PROVE  /\ e \in IndexEntries => DOMAIN e \subseteq Digests /\ \A d \in DOMAIN e : e[d] \in Entry
           /\ \A D \in SUBSET Digests : e \in [D -> Entry] => e \in IndexEntries
  BY DEF IndexEntries

\* Indexes with receipts stay, the others may come and go.
LEMMA IndexesChange ==
    ASSUME IndexInv, UNCHANGED <<vars, EntryMap>>,
           \A y \in DOMAIN EntryMap : /\ <<y[1], y[2]>> \in DOMAIN IndexMap'
                                      /\ IndexMap'[<<y[1], y[2]>>] = IndexMap[<<y[1], y[2]>>],
           DOMAIN IndexMap' \subseteq Reasons \X Indexes,
           \A x \in DOMAIN IndexMap' :
              \/ x \in DOMAIN IndexMap /\ IndexMap'[x] = IndexMap[x]
              \/ x \notin DOMAIN IndexMap /\ IndexSound(IndexMap'[x]) /\ IndexMap'[x].principal = 0
    PROVE  IndexInv'
<1>0. /\ EntryMap' = EntryMap
      /\ CommitMap' = CommitMap
      /\ free' = free
      /\ ReasonValue' = ReasonValue
      /\ [Next]_vars
  BY DEF vars, accounts
<1>1. PICK sh : sh = [x \in Reasons \X Digests \X Positions |-> EntrySharesIn(x[1], x[2], x[3])]
  OBVIOUS
<1>2. PICK fr : fr = [x \in Who \X Reasons |->
                        PrincipalsOver({y \in DOMAIN EntryMap : y[1] = x[2] /\ y[4] = x[1]})]
  OBVIOUS
<1>3. EntryShares(sh) /\ EntryPrincipals(fr)
  BY <1>1, <1>2 DEF EntryShares, EntryPrincipals
<1>4. Shared(Ids)' /\ Seen(sh, fr)'
  BY <1>0, <1>3, IndexSeen, SharedStep DEF Ids
<1>5. EntryShares(sh)'
  <2>1. ASSUME NEW r, NEW d, NEW v
        PROVE  EntrySharesIn(r, d, v)' = EntrySharesIn(r, d, v)
    <3>1. {x \in DOMAIN EntryMap : x[1] = r /\ x[3] = d /\ IndexMap'[<<r, x[2]>>].entries[d].variant = v}
            = {x \in DOMAIN EntryMap : x[1] = r /\ x[3] = d /\ IndexMap[<<r, x[2]>>].entries[d].variant = v}
      OBVIOUS
    <3> QED  BY <1>0, <3>1 DEF EntrySharesIn
  <2> QED  BY <1>3, <2>1 DEF EntryShares
<1>6. EntryPrincipals(fr)'
  <2> SUFFICES ASSUME NEW w \in Who, NEW r \in Reasons
               PROVE  fr[<<w, r>>] = PrincipalsOver({y \in DOMAIN EntryMap : y[1] = r /\ y[4] = w})'
    BY Zenon DEF EntryPrincipals
  <2>1. fr[<<w, r>>] = PrincipalsOver({y \in DOMAIN EntryMap : y[1] = r /\ y[4] = w})
    BY <1>3 DEF EntryPrincipals
  <2> QED  BY <1>0, <2>1, Zenon DEF PrincipalsOver
<1>7. IndexTypeOK /\ EntriesCount /\ IndexPrincipals /\ EntriesOwned
  BY DEF IndexInv, EntriesAccounted
<1>8. IndexTypeOK'
  <2>1. \A x \in DOMAIN IndexMap : IndexSound(IndexMap[x])
    BY <1>7 DEF IndexTypeOK, IndexSound
  <2>2. \A x \in DOMAIN IndexMap' : IndexSound(IndexMap'[x])
    BY <2>1
  <2> QED  BY <1>0, <1>7, <2>2 DEF IndexTypeOK, IndexSound
<1>9. EntriesCount' /\ EntriesOwned'
  BY <1>0, <1>7 DEF EntriesCount, EntriesOwned, commit_exists, index_exists
<1>10. IndexPrincipals'
  <2> SUFFICES ASSUME NEW x \in DOMAIN IndexMap'
               PROVE  IndexMap'[x].principal = PrincipalsOver({y \in DOMAIN EntryMap : <<y[1], y[2]>> = x})'
    BY Zenon DEF IndexPrincipals
  <2>1. PrincipalsOver({y \in DOMAIN EntryMap : <<y[1], y[2]>> = x})'
          = PrincipalsOver({y \in DOMAIN EntryMap : <<y[1], y[2]>> = x})
    BY <1>0, Zenon DEF PrincipalsOver
  <2>2. CASE x \in DOMAIN IndexMap /\ IndexMap'[x] = IndexMap[x]
    BY <1>7, <2>1, <2>2, Zenon DEF IndexPrincipals
  <2>3. CASE x \notin DOMAIN IndexMap /\ IndexMap'[x].principal = 0
    <3>1. {y \in DOMAIN EntryMap : <<y[1], y[2]>> = x} = {}
      BY <1>7, <2>3 DEF EntriesOwned, index_exists
    <3> QED  BY <2>1, <2>3, <3>1, PrincipalsOfNone
  <2> QED  BY <2>2, <2>3
<1> QED  BY <1>4, <1>5, <1>6, <1>8, <1>9, <1>10, IndexInvFrom

LEMMA NewIndex ==
    ASSUME IndexInv, NEW r \in Reasons, NEW i \in Indexes, ~ index_exists(r, i), NEW e \in IndexEntries,
           Entries_valid(e),
           IndexMap' = Insert(IndexMap, <<r, i>>, [principal |-> 0, entries |-> e]),
           UNCHANGED <<vars, EntryMap>>
    PROVE  IndexInv'
<1> DEFINE new == [principal |-> 0, entries |-> e]
<1>1. IndexSound(new) /\ new.principal = 0
  BY ShareBalanceAssumption DEF IndexSound, Assets
<1>2. IndexMap' = Insert(IndexMap, <<r, i>>, new)
  OBVIOUS
<1> HIDE DEF new
<1>3. /\ DOMAIN IndexMap' = DOMAIN IndexMap \cup {<<r, i>>} /\ IndexMap'[<<r, i>>] = new
      /\ \A x \in DOMAIN IndexMap : x # <<r, i>> => IndexMap'[x] = IndexMap[x]
  BY <1>2 DEF Insert
<1>4. <<r, i>> \notin DOMAIN IndexMap
  BY DEF index_exists
<1>5. \A y \in DOMAIN EntryMap : <<y[1], y[2]>> \in DOMAIN IndexMap
  BY DEF IndexInv, EntriesAccounted, EntriesOwned, index_exists
<1>6. \A y \in DOMAIN EntryMap : /\ <<y[1], y[2]>> \in DOMAIN IndexMap'
                                 /\ IndexMap'[<<y[1], y[2]>>] = IndexMap[<<y[1], y[2]>>]
  BY <1>3, <1>4, <1>5
<1>7. DOMAIN IndexMap' \subseteq Reasons \X Indexes
  <2>1. DOMAIN IndexMap \subseteq Reasons \X Indexes
    BY DEF IndexInv, IndexTypeOK
  <2> QED  BY <1>3, <2>1
<1>8. \A x \in DOMAIN IndexMap' :
         \/ x \in DOMAIN IndexMap /\ IndexMap'[x] = IndexMap[x]
         \/ x \notin DOMAIN IndexMap /\ IndexSound(IndexMap'[x]) /\ IndexMap'[x].principal = 0
  BY <1>1, <1>3, <1>4
<1> QED  BY <1>6, <1>7, <1>8, IndexesChange

LEMMA SetIndexKeeps ==
    ASSUME IndexInv, NEW r \in Reasons, NEW i \in Indexes, NEW D \in SUBSET Digests,
           NEW entries \in [D -> [shares : ShareValues, variant : Positions]], SetIndex(r, i, entries)
    PROVE  IndexInv'
<1>1. entries \in [D -> Entry]
  BY CommitIndexAssumption DEF Entry
<1>2. entries \in IndexEntries
  BY <1>1, EntriesKind
<1> QED  BY <1>2, NewIndex DEF SetIndex

\* The entries of an index that is there.
LEMMA EntriesOf ==
    ASSUME IndexInv, NEW r \in Reasons, NEW i \in Indexes, index_exists(r, i)
    PROVE  LET e == IndexMap[<<r, i>>].entries
           IN  /\ DOMAIN e \subseteq Digests /\ IsFiniteSet(DOMAIN e) /\ DOMAIN e # {}
               /\ \A d \in DOMAIN e : /\ e[d] \in Entry /\ e[d].shares \in Nat \ {0}
                                      /\ e[d].variant \in Positions
               /\ Entries_valid(e)
               /\ IndexMap[<<r, i>>].principal \in Assets
<1> DEFINE e == IndexMap[<<r, i>>].entries
<1>0. IndexMap[<<r, i>>] \in [principal : Assets, entries : IndexEntries] /\ Entries_valid(e)
  BY DEF IndexInv, IndexTypeOK, index_exists
<1>1. /\ IndexMap[<<r, i>>].principal \in Assets /\ DOMAIN e \subseteq Digests
      /\ \A d \in DOMAIN e : e[d] \in Entry
      /\ Entries_valid(e)
  BY <1>0, EntriesKind
<1>2. IsFiniteSet(DOMAIN e) /\ DOMAIN e # {}
  BY <1>1, FiniteAssumption, FS_Subset DEF Entries_valid
<1>3. \A d \in DOMAIN e : e[d].shares \in Nat \ {0} /\ e[d].variant \in Positions
  BY <1>1, CommitIndexAssumption DEF Entry
<1> QED  BY <1>1, <1>2, <1>3

\* Without one of several entries an index is as valid as with it.
LEMMA OneEntryLess ==
    ASSUME NEW e, IsFiniteSet(DOMAIN e), \A d \in DOMAIN e : e[d].shares \in Nat, Entries_valid(e),
           NEW d, Removable(e, d)
    PROVE  Entries_valid(Delete(e, d))
<1> DEFINE D == DOMAIN e
           f == [x \in D |-> e[x].shares]
           g == [x \in D \ {d} |-> Delete(e, d)[x].shares]
<1>1. d \in D /\ Cardinality(D) > 1 /\ Cardinality(D) <= MaxIndexEntries /\ Capital(e) <= MaxShares
  BY DEF Removable, Entries_valid
<1>2. DOMAIN Delete(e, d) = D \ {d} /\ \A x \in D \ {d} : Delete(e, d)[x] = e[x]
  BY DEF Delete
<1>3. Cardinality(D \ {d}) = Cardinality(D) - 1 /\ Cardinality(D) \in Nat /\ IsFiniteSet(D \ {d})
  BY <1>1, FS_RemoveElement, FS_CardinalityType
<1>4. D \ {d} # {}
  <2>1. Cardinality(D \ {d}) # 0
    BY <1>1, <1>3
  <2> HIDE DEF D
  <2> QED  BY <2>1, FS_EmptySet
<1>5. Capital(e) = SumFunction(f) /\ Capital(Delete(e, d)) = SumFunction(g)
  BY <1>2 DEF Capital
<1>6. /\ DOMAIN f = D /\ DOMAIN g = DOMAIN f \ {d}
      /\ (\A x \in DOMAIN f : f[x] \in Nat)
      /\ \A x \in DOMAIN f \ {d} : g[x] = f[x]
  BY <1>2
<1>6a. IsFiniteSet(D)
  OBVIOUS
<1> HIDE DEF f, g, D
<1>7. SumFunction(g) = SumFunction(f) - f[d] /\ SumFunction(f) \in Nat /\ f[d] \in Nat
  <2>1. \A x \in DOMAIN f : f[x] \in Int
    BY <1>6
  <2>2. d \in DOMAIN f /\ IsFiniteSet(DOMAIN f)
    BY <1>1, <1>6, <1>6a
  <2> QED  BY <1>6, <2>1, <2>2, SumDrop, SumOfNats
<1>8. Capital(Delete(e, d)) <= MaxShares
  BY <1>1, <1>5, <1>7, CommitIndexAssumption
<1>9. Cardinality(D \ {d}) <= MaxIndexEntries
  BY <1>1, <1>3, CommitIndexAssumption
<1> QED  BY <1>2, <1>4, <1>8, <1>9 DEF Entries_valid

LEMMA RemoveEntryKeeps ==
    ASSUME IndexInv, NEW r \in Reasons, NEW i \in Indexes, NEW j \in Indexes, NEW d \in Digests,
           RemoveIndexEntry(r, i, j, d)
    PROVE  IndexInv'
<1> DEFINE e == IndexMap[<<r, i>>].entries
           new == Delete(e, d)
<1>1. /\ index_exists(r, i) /\ ~ index_exists(r, j) /\ Removable(e, d)
      /\ IndexMap' = Insert(IndexMap, <<r, j>>, [principal |-> 0, entries |-> new])
      /\ UNCHANGED <<vars, EntryMap>>
  BY DEF RemoveIndexEntry
<1>2. /\ DOMAIN e \subseteq Digests /\ IsFiniteSet(DOMAIN e) /\ Entries_valid(e)
      /\ \A x \in DOMAIN e : e[x] \in Entry /\ e[x].shares \in Nat
  BY <1>1, EntriesOf
<1> HIDE DEF e
<1>3. Entries_valid(new)
  BY <1>1, <1>2, OneEntryLess
<1>4. new \in IndexEntries
  <2>1. new \in [DOMAIN e \ {d} -> Entry] /\ DOMAIN e \ {d} \in SUBSET Digests
    BY <1>2 DEF Delete
  <2> HIDE DEF new
  <2> QED  BY <2>1, EntriesKind
<1> HIDE DEF new
<1> QED  BY <1>1, <1>3, <1>4, NewIndex

LEMMA SetEntryKeeps ==
    ASSUME IndexInv, NEW r \in Reasons, NEW i \in Indexes, NEW j \in Indexes, NEW d \in Digests,
           NEW s \in ShareValues, NEW v \in Positions,
           SetIndexEntry(r, i, j, d, [shares |-> s, variant |-> v])
    PROVE  IndexInv'
<1> DEFINE e == IndexMap[<<r, i>>].entries
           z == [shares |-> s, variant |-> v]
           new == Insert(e, d, z)
<1>1. /\ index_exists(r, i) /\ ~ index_exists(r, j) /\ Entries_valid(new)
      /\ IndexMap' = Insert(IndexMap, <<r, j>>, [principal |-> 0, entries |-> new])
      /\ UNCHANGED <<vars, EntryMap>>
  BY DEF SetIndexEntry
<1>2. DOMAIN e \subseteq Digests /\ \A x \in DOMAIN e : e[x] \in Entry
  BY <1>1, EntriesOf
<1>3. z \in Entry
  BY CommitIndexAssumption DEF Entry
<1> HIDE DEF e, z
<1>4. new \in IndexEntries
  <2>1. new \in [DOMAIN e \cup {d} -> Entry] /\ DOMAIN e \cup {d} \in SUBSET Digests
    BY <1>2, <1>3 DEF Insert
  <2> HIDE DEF new
  <2> QED  BY <2>1, EntriesKind
<1> HIDE DEF new
<1> QED  BY <1>1, <1>4, NewIndex

LEMMA ReapIndexKeeps ==
    ASSUME IndexInv, NEW r \in Reasons, NEW i \in Indexes, ReapIndex(r, i)
    PROVE  IndexInv'
<1>1. /\ IndexMap' = Delete(IndexMap, <<r, i>>) /\ UNCHANGED <<vars, EntryMap>>
      /\ \A x \in DOMAIN EntryMap : <<x[1], x[2]>> # <<r, i>>
  BY DEF ReapIndex, HasNoCommits
<1>2. /\ DOMAIN IndexMap' = DOMAIN IndexMap \ {<<r, i>>}
      /\ \A x \in DOMAIN IndexMap : x # <<r, i>> => IndexMap'[x] = IndexMap[x]
  BY <1>1 DEF Delete
<1>3. \A y \in DOMAIN EntryMap : <<y[1], y[2]>> \in DOMAIN IndexMap
  BY DEF IndexInv, EntriesAccounted, EntriesOwned, index_exists
<1>4. \A y \in DOMAIN EntryMap : /\ <<y[1], y[2]>> \in DOMAIN IndexMap'
                                 /\ IndexMap'[<<y[1], y[2]>>] = IndexMap[<<y[1], y[2]>>]
  BY <1>1, <1>2, <1>3
<1>5. DOMAIN IndexMap' \subseteq Reasons \X Indexes
  BY <1>2 DEF IndexInv, IndexTypeOK
<1>6. \A x \in DOMAIN IndexMap' :
         \/ x \in DOMAIN IndexMap /\ IndexMap'[x] = IndexMap[x]
         \/ x \notin DOMAIN IndexMap /\ IndexSound(IndexMap'[x]) /\ IndexMap'[x].principal = 0
  BY <1>2
<1> QED  BY <1>1, <1>4, <1>5, <1>6, IndexesChange

-----------------------------------------------------------------------------
(* A step of one commitment to an index *)

LEMMA SharedCore ==
    ASSUME NEW ids, Digests \subseteq ids, StoredTypes(ids)
    PROVE  \E o : CoreTypes(o) /\ o.ids = ids
<1> DEFINE o == [ids |-> ids, shares |-> [x \in Reasons \X Digests \X Positions |-> 0],
                 frozen |-> [x \in Who \X Reasons |-> 0], gap |-> 0]
<1>1. OthersTyped(o) /\ o.ids = ids
  BY DEF OthersTyped
<1> HIDE DEF o
<1> QED  BY <1>1, CoreTyping

\* The sums that move.
LEMMA IndexSums ==
    ASSUME IndexInv, NEW w \in Who, NEW r \in Reasons, NEW i \in Indexes, NEW S, NEW vf, NEW nb,
           NEW sh, NEW pr, NEW k, IndexMoves(w, r, i, S, vf, nb, sh, pr, k)
    PROVE  /\ EntryTypes /\ EntryTypes' /\ EntriesStay
           /\ SumFunctionOnSet(pr, S) \in Int /\ SumFunctionOnSet(k, S) \in Int
           /\ MapSound(DigestMap) /\ MapSound(DigestMap') /\ DOMAIN DigestMap' = DOMAIN DigestMap
<1>1. EntryTypes
  BY EntriesTyped DEF IndexInv
<1>2. EntryTypes'
  <2>1. ASSUME NEW x \in DOMAIN EntryMap'  PROVE EntryMap'[x] \in Seq(Receipts)
    <3>1. x \in Keys
      BY DEF IndexMoves
    <3>2. CASE \E d \in S : x = <<r, i, d, w>>
      BY <3>2 DEF IndexMoves
    <3>3. CASE \A d \in S : x # <<r, i, d, w>>
      <4>1. x \in DOMAIN EntryMap /\ EntryMap'[x] = EntryMap[x]
        BY <3>1, <3>3 DEF IndexMoves, EntriesMove
      <4> QED  BY <1>1, <4>1 DEF EntryTypes
    <3> QED  BY <3>2, <3>3
  <2> QED  BY <2>1 DEF IndexMoves, EntryTypes
<1>3. EntriesStay
  <2>1. \A x \in DOMAIN IndexMap : IndexMap[x] \in [principal : Assets, entries : IndexEntries]
    BY DEF IndexInv, IndexTypeOK
  <2>2. IndexMap' = [IndexMap EXCEPT ![<<r, i>>].principal = @ + SumFunctionOnSet(pr, S)]
    BY DEF IndexMoves
  <2> QED  BY <2>1, <2>2 DEF EntriesStay
<1>4. SumFunctionOnSet(pr, S) \in Int
  <2>1. EntriesMove(w, r, i, S, sh, pr)
    BY DEF IndexMoves
  <2> QED  BY <1>1, <1>2, <2>1, PrincipalsTotals
<1>5. MapSound(DigestMap)
  BY DigestMapSound DEF IndexInv
<1>6. Puts(DigestMap, r, S, vf, nb, k) /\ DigestMap' = PutAll(DigestMap, r, S, vf, nb)
  BY DEF IndexMoves
<1>7. SumFunctionOnSet(k, S) \in Int
  BY <1>5, <1>6, PutAllValue
<1>8. MapSound(DigestMap') /\ DOMAIN DigestMap' = DOMAIN DigestMap
  BY <1>5, <1>6, PutAllSound
<1> QED  BY <1>1, <1>2, <1>3, <1>4, <1>5, <1>7, <1>8

LEMMA IndexMovesTyped ==
    ASSUME IndexInv, NEW w \in Who, NEW r \in Reasons, NEW i \in Indexes, NEW S, NEW vf, NEW nb,
           NEW sh, NEW pr, NEW k, IndexMoves(w, r, i, S, vf, nb, sh, pr, k)
    PROVE  /\ StoredTypes(Ids)' /\ BalancesSound' /\ DirectBacked'
           /\ IndexTypeOK' /\ EntriesCount' /\ EntriesOwned'
<1>0. /\ StoredTypes(Ids) /\ BalancesSound /\ DirectBacked /\ IndexTypeOK /\ EntriesCount /\ EntriesOwned
      /\ i \notin Digests
  BY CommitIndexAssumption DEF IndexInv, Ids, EntriesAccounted
<1>1. MapSound(DigestMap') /\ DOMAIN DigestMap' = DOMAIN DigestMap
  BY IndexSums
<1>2. BalancesSound'
  BY <1>1 DEF BalancesSound, MapSound
<1>3. ASSUME NEW x \in DOMAIN CommitMap', x # <<w, r>>
      PROVE  x \in DOMAIN CommitMap /\ CommitMap'[x] = CommitMap[x]
  <2>1. PICK y \in Who, s \in Reasons : x = <<y, s>>
    BY DEF IndexMoves
  <2>2. y # w \/ s # r
    BY <1>3, <2>1
  <2> QED  BY <2>1, <2>2 DEF IndexMoves, OthersKeep, commit_exists
<1>4. ASSUME <<w, r>> \in DOMAIN CommitMap'
      PROVE  /\ CommitMap'[<<w, r>>].digest = i
             /\ CommitMap'[<<w, r>>] \in [digest : Ids, variant : Positions, commits : Seq(Receipts)]
             /\ Len(CommitMap'[<<w, r>>].commits) \in 1 .. MaxCommits
             /\ \A n \in DOMAIN CommitMap'[<<w, r>>].commits : CommitMap'[<<w, r>>].commits[n] = NoReceipt
  <2>1. /\ CommitMap'[<<w, r>>] \in NoOwn(i)
        /\ Len(CommitMap'[<<w, r>>].commits) \in 1 .. MaxCommits
    BY <1>4 DEF IndexMoves, commit_exists
  <2>2. NoReceipt \in Receipts
    BY ShareBalanceAssumption DEF NoReceipt, Receipts
  <2>3. ASSUME NEW s \in Seq({NoReceipt})
        PROVE  s \in Seq(Receipts) /\ \A n \in DOMAIN s : s[n] = NoReceipt
    BY <2>2
  <2> QED  BY <2>1, <2>3 DEF NoOwn, Ids
<1>5. StoredTypes(Ids)'
  <2>1. \A x \in DOMAIN CommitMap' :
           /\ CommitMap'[x] \in [digest : Ids, variant : Positions, commits : Seq(Receipts)]
           /\ Len(CommitMap'[x].commits) \in 1 .. MaxCommits
    <3> SUFFICES ASSUME NEW x \in DOMAIN CommitMap'
                 PROVE  /\ CommitMap'[x] \in [digest : Ids, variant : Positions, commits : Seq(Receipts)]
                        /\ Len(CommitMap'[x].commits) \in 1 .. MaxCommits
      OBVIOUS
    <3>1. CASE x = <<w, r>>
      BY <1>4, <3>1
    <3>2. CASE x # <<w, r>>
      BY <1>0, <1>3, <3>2 DEF StoredTypes
    <3> QED  BY <3>1, <3>2
  <2>2. frozen' \in [Who \X Reasons -> Assets] /\ ReasonValue' \in [Reasons -> Assets]
    BY <1>0 DEF IndexMoves, StoredTypes
  <2>3. /\ free' \in [Who -> Assets] /\ hold' \in [Who -> Assets] /\ DOMAIN CommitMap' \subseteq Who \X Reasons
        /\ AssetToIssue' \in Assets /\ AssetToReap' \in Assets /\ adjusted' \in Int
    BY <1>0 DEF IndexMoves, StoredTypes
  <2> QED  BY <1>1, <2>1, <2>2, <2>3 DEF StoredTypes, MapSound
<1>6. DirectBacked'
  <2>1. ASSUME NEW x \in DOMAIN CommitMap', CommitMap'[x].digest \in Digests
        PROVE  /\ <<x[2], CommitMap'[x].digest>> \in DOMAIN DigestMap'
               /\ \A n \in DOMAIN CommitMap'[x].commits : CommitMap'[x].commits[n].shares # 0
    <3>1. x # <<w, r>>
      BY <1>0, <1>4, <2>1
    <3>2. x \in DOMAIN CommitMap /\ CommitMap'[x] = CommitMap[x]
      BY <1>3, <3>1
    <3> QED  BY <1>0, <1>1, <2>1, <3>2 DEF DirectBacked, digest_exists
  <2> QED  BY <2>1 DEF DirectBacked, digest_exists
<1>7. ASSUME NEW x \in DOMAIN EntryMap', \A d \in S : x # <<r, i, d, w>>
      PROVE  x \in DOMAIN EntryMap /\ EntryMap'[x] = EntryMap[x]
  BY <1>7 DEF IndexMoves, EntriesMove
<1>8. EntriesCount'
  <2>1. ASSUME NEW x \in DOMAIN CommitMap', CommitMap'[x].digest \in Indexes,
               NEW n \in DOMAIN CommitMap'[x].commits
        PROVE  CommitMap'[x].commits[n] = NoReceipt
    <3>1. CASE x = <<w, r>>
      BY <1>4, <3>1
    <3>2. CASE x # <<w, r>>
      BY <1>0, <1>3, <2>1, <3>2 DEF EntriesCount
    <3> QED  BY <3>1, <3>2
  <2>2. ASSUME NEW x \in DOMAIN EntryMap', NEW n \in DOMAIN EntryMap'[x]
        PROVE  EntryMap'[x][n].shares # 0
    <3>1. CASE \E d \in S : x = <<r, i, d, w>>
      BY <2>2, <3>1 DEF IndexMoves
    <3>2. CASE \A d \in S : x # <<r, i, d, w>>
      BY <1>0, <1>7, <2>2, <3>2 DEF EntriesCount
    <3> QED  BY <3>1, <3>2
  <2> QED  BY <2>1, <2>2 DEF EntriesCount
<1>9. IndexTypeOK'
  <2>1. DOMAIN IndexMap' \subseteq Reasons \X Indexes
    BY <1>0 DEF IndexMoves, IndexTypeOK
  <2>2. ASSUME NEW x \in DOMAIN IndexMap'
        PROVE  /\ x \in DOMAIN IndexMap
               /\ IndexMap'[x] \in [principal : Assets, entries : IndexEntries]
               /\ IndexMap'[x].entries = IndexMap[x].entries
    <3>1. x \in DOMAIN IndexMap /\ IndexMap[x] \in [principal : Assets, entries : IndexEntries]
      BY <1>0 DEF IndexMoves, IndexTypeOK
    <3>2. /\ IndexMap' = [IndexMap EXCEPT ![<<r, i>>].principal = @ + SumFunctionOnSet(pr, S)]
          /\ IndexMap[<<r, i>>].principal + SumFunctionOnSet(pr, S) \in Assets
      BY DEF IndexMoves
    <3> QED  BY <3>1, <3>2
  <2>3. \A x \in DOMAIN EntryMap' :
           EntryMap'[x] \in Seq(Receipts) /\ Len(EntryMap'[x]) \in 1 .. MaxCommits
    <3> SUFFICES ASSUME NEW x \in DOMAIN EntryMap'
                 PROVE  EntryMap'[x] \in Seq(Receipts) /\ Len(EntryMap'[x]) \in 1 .. MaxCommits
      OBVIOUS
    <3>1. CASE \E d \in S : x = <<r, i, d, w>>
      BY <3>1 DEF IndexMoves
    <3>2. CASE \A d \in S : x # <<r, i, d, w>>
      BY <1>0, <1>7, <3>2 DEF IndexTypeOK
    <3> QED  BY <3>1, <3>2
  <2>4. DOMAIN EntryMap' \subseteq Reasons \X Indexes \X Digests \X Who
    BY DEF IndexMoves, Keys
  <2>5. \A x \in DOMAIN IndexMap' : Entries_valid(IndexMap'[x].entries)
    BY <1>0, <2>2 DEF IndexTypeOK
  <2> QED  BY <1>5, <2>1, <2>2, <2>3, <2>4, <2>5 DEF IndexTypeOK, StoredTypes
<1>10. EntriesOwned'
  <2> SUFFICES ASSUME NEW x \in DOMAIN EntryMap'
               PROVE  /\ commit_exists(x[4], x[1])'
                      /\ CommitMap'[<<x[4], x[1]>>].digest = x[2]
                      /\ index_exists(x[1], x[2])'
                      /\ x[3] \in DOMAIN IndexMap'[<<x[1], x[2]>>].entries
    BY Zenon DEF EntriesOwned
  <2>0. \A y \in DOMAIN IndexMap : y \in DOMAIN IndexMap' /\ IndexMap'[y].entries = IndexMap[y].entries
    BY IndexSums DEF EntriesStay
  <2>1. PICK s \in Reasons, j \in Indexes, e \in Digests, y \in Who : x = <<s, j, e, y>>
    BY DEF IndexMoves, Keys
  <2>2. CASE e \in S /\ x = <<r, i, e, w>>
    <3>1. commit_exists(w, r)' /\ CommitMap'[<<w, r>>].digest = i
      BY <1>4, <2>2 DEF IndexMoves, commit_exists
    <3>2. index_exists(r, i) /\ e \in DOMAIN IndexMap[<<r, i>>].entries
      BY <2>2 DEF IndexMoves
    <3> QED  BY <2>0, <2>2, <3>1, <3>2 DEF index_exists
  <2>3. CASE \A d \in S : x # <<r, i, d, w>>
    <3>1. x \in DOMAIN EntryMap
      BY <1>7, <2>3
    <3>2. /\ commit_exists(y, s) /\ CommitMap[<<y, s>>].digest = j
          /\ index_exists(s, j) /\ e \in DOMAIN IndexMap[<<s, j>>].entries
      BY <1>0, <2>1, <3>1 DEF EntriesOwned
    <3>3. commit_exists(y, s)' /\ CommitMap'[<<y, s>>].digest = j
      <4>1. CASE y = w /\ s = r
        <5>1. j = i
          BY <3>2, <4>1 DEF IndexMoves, CommitsTo
        <5>2. commit_exists(w, r)'
          BY <2>1, <4>1, <5>1 DEF IndexMoves
        <5> QED  BY <1>4, <4>1, <5>1, <5>2 DEF commit_exists
      <4>2. CASE y # w \/ s # r
        BY <3>2, <4>2 DEF IndexMoves, OthersKeep
      <4> QED  BY <4>1, <4>2
    <3> QED  BY <2>0, <2>1, <3>2, <3>3 DEF index_exists
  <2> QED  BY <2>1, <2>2, <2>3
<1> QED  BY <1>2, <1>5, <1>6, <1>8, <1>9, <1>10

\* The books after such a step.
LEMMA IndexMovesBooks ==
    ASSUME IndexInv, NEW w \in Who, NEW r \in Reasons, NEW i \in Indexes, NEW S, NEW vf, NEW nb,
           NEW sh, NEW pr, NEW k, IndexMoves(w, r, i, S, vf, nb, sh, pr, k)
    PROVE  ReasonTotals' /\ Conservation' /\ IndexPrincipals'
<1> DEFINE K == SumFunctionOnSet(k, S)
           P == SumFunctionOnSet(pr, S)
<1>0. K \in Int /\ P \in Int /\ EntryTypes /\ EntryTypes'
  BY IndexSums
<1>1. StoredTypes(Ids) /\ BalancesSound /\ ReasonTotals /\ Conservation /\ IndexPrincipals
  BY DEF IndexInv, Ids, Books, EntriesAccounted
<1>2. /\ ReasonValue' = [ReasonValue EXCEPT ![r] = @ + K] /\ adjusted' = adjusted
      /\ free' \in [Who -> Assets] /\ \A y \in Who \ {w} : free'[y] = free[y]
      /\ hold' \in [Who -> Assets] /\ \A y \in Who \ {w} : hold'[y] = hold[y]
      /\ free'[w] + hold'[w] + K = free[w] + hold[w]
      /\ Puts(DigestMap, r, S, vf, nb, k) /\ DigestMap' = PutAll(DigestMap, r, S, vf, nb)
      /\ EntriesMove(w, r, i, S, sh, pr)
      /\ IndexMap' = [IndexMap EXCEPT ![<<r, i>>].principal = @ + P]
  BY DEF IndexMoves
<1>3. \A s \in Reasons : ValueIn(DigestMap', s) = ValueIn(DigestMap, s) + (IF s = r THEN K ELSE 0)
  BY <1>1, <1>2, DigestMapSound, PutAllValue
<1>4. /\ SumFunction(free) + SumFunction(hold) \in Int
      /\ SumFunction(free') + SumFunction(hold') = (SumFunction(free) + SumFunction(hold)) - K
  <2>1. PICK o : CoreTypes(o)
    BY <1>1, SharedCore DEF Ids
  <2>2. /\ SumFunction(free) + SumFunction(hold) \in Int
        /\ SumFunction(free') + SumFunction(hold')
             = SumFunction(free) + SumFunction(hold) + ((free'[w] + hold'[w]) - (free[w] + hold[w]))
    BY <1>2, <2>1, FundsTotals
  <2>3. /\ free[w] \in Int /\ hold[w] \in Int /\ free'[w] \in Int /\ hold'[w] \in Int
    <3>1. free[w] \in Assets /\ hold[w] \in Assets /\ free'[w] \in Assets /\ hold'[w] \in Assets
      BY <1>1, <1>2 DEF StoredTypes
    <3> QED  BY <3>1 DEF Assets
  <2> DEFINE a == SumFunction(free) + SumFunction(hold)
             b == free'[w] + hold'[w]
             c == free[w] + hold[w]
             z == SumFunction(free') + SumFunction(hold')
  <2>4. a \in Int /\ b \in Int /\ c \in Int /\ z = a + (b - c) /\ b + K = c
    BY <1>2, <2>2, <2>3
  <2> HIDE DEF a, b, c, z, K
  <2>5. z = a - K
    BY <1>0, <2>4
  <2> QED  BY <2>2, <2>5 DEF a, z
<1> HIDE DEF K
<1>5. ReasonTotals' /\ Conservation'
  BY <1>0, <1>1, <1>2, <1>3, <1>4, BooksMove
<1> HIDE DEF P
<1>6. IndexPrincipals'
  <2>1. ASSUME NEW x \in DOMAIN IndexMap'
        PROVE  IndexMap'[x].principal = PrincipalsOver({y \in DOMAIN EntryMap : <<y[1], y[2]>> = x})'
    <3>0. IndexTypeOK
      BY DEF IndexInv
    <3>1. PICK s \in Reasons, j \in Indexes : x = <<s, j>> /\ x \in DOMAIN IndexMap
      BY <1>2, <3>0 DEF IndexTypeOK
    <3>2. IndexMap[x] \in [principal : Assets, entries : IndexEntries]
      BY <3>0, <3>1 DEF IndexTypeOK
    <3>3. PrincipalsOver({y \in DOMAIN EntryMap : <<y[1], y[2]>> = <<s, j>>})'
            = PrincipalsOver({y \in DOMAIN EntryMap : <<y[1], y[2]>> = <<s, j>>})
                + (IF <<s, j>> = <<r, i>> THEN P ELSE 0)
      BY <1>0, <1>2, PrincipalsTotals DEF P
    <3>4. IndexMap[x].principal = PrincipalsOver({y \in DOMAIN EntryMap : <<y[1], y[2]>> = <<s, j>>})
      BY <1>1, <3>1 DEF IndexPrincipals
    <3>5. IndexMap[x].principal \in Int
      BY <3>2 DEF Assets
    <3>6. IndexMap'[x].principal = IF x = <<r, i>> THEN IndexMap[x].principal + P ELSE IndexMap[x].principal
      BY <1>2, <3>1, <3>2
    <3> QED  BY <3>1, <3>3, <3>4, <3>5, <3>6
  <2> QED  BY <2>1 DEF IndexPrincipals
<1> QED  BY <1>5, <1>6

LEMMA NothingOwned ==
    ASSUME StoredTypes(Ids), EntriesCount, NEW i \in Indexes, NEW w, NEW r, CommitsTo(w, r, i)
    PROVE  DepositOf(w, r) = 0 /\ \A d, v : d # i => SharesOf(w, r, d, v) = 0
<1> DEFINE s == CommitMap[<<w, r>>].commits
<1>1. commit_exists(w, r) => CommitMap[<<w, r>>].digest = i /\ \A n \in DOMAIN s : s[n] = NoReceipt
  BY DEF EntriesCount, CommitsTo, commit_exists
<1>2. commit_exists(w, r) => s \in Seq(Receipts)
  BY DEF StoredTypes, commit_exists
<1> HIDE DEF s
<1>3. commit_exists(w, r) => Principals(s) = 0
  BY <1>1, <1>2, NoPrincipals
<1> QED  BY <1>1, <1>3 DEF DepositOf, SharesOf, s

LEMMA NothingOwnedAfter ==
    ASSUME StoredTypes(Ids)', EntriesCount', NEW i \in Indexes, NEW w, NEW r,
           commit_exists(w, r)' => CommitMap'[<<w, r>>].digest = i
    PROVE  DepositOf(w, r)' = 0 /\ \A d, v : d # i => SharesOf(w, r, d, v)' = 0
<1> DEFINE s == CommitMap'[<<w, r>>].commits
<1>1. commit_exists(w, r)' => \A n \in DOMAIN s : s[n] = NoReceipt
  BY DEF EntriesCount, commit_exists
<1>2. commit_exists(w, r)' => s \in Seq(Receipts)
  BY DEF StoredTypes, commit_exists
<1> HIDE DEF s
<1>3. commit_exists(w, r)' => Principals(s) = 0
  BY <1>1, <1>2, NoPrincipals
<1> QED  BY <1>3 DEF DepositOf, SharesOf, s

LEMMA IndexMovesOwn ==
    ASSUME IndexInv, NEW w \in Who, NEW r \in Reasons, NEW i \in Indexes, NEW S, NEW vf, NEW nb,
           NEW sh, NEW pr, NEW k, IndexMoves(w, r, i, S, vf, nb, sh, pr, k),
           NEW y \in Who, NEW s \in Reasons
    PROVE  /\ DepositOf(y, s)' = DepositOf(y, s)
           /\ \A d \in Digests : \A v : SharesOf(y, s, d, v)' = SharesOf(y, s, d, v)
<1>1. OthersKeep(w, r) /\ CommitsTo(w, r, i) /\ (commit_exists(w, r)' => CommitMap'[<<w, r>>].digest = i)
  BY DEF IndexMoves, NoOwn
<1>2. CASE y # w \/ s # r
  BY <1>1, <1>2, OthersDeposit
<1>3. CASE y = w /\ s = r
  <2>1. StoredTypes(Ids) /\ EntriesCount /\ StoredTypes(Ids)' /\ EntriesCount'
    BY IndexMovesTyped DEF IndexInv, Ids
  <2>2. \A d \in Digests : d # i
    BY CommitIndexAssumption
  <2>3. DepositOf(w, r) = 0 /\ \A d, v : d # i => SharesOf(w, r, d, v) = 0
    BY <1>1, <2>1, NothingOwned
  <2>4. DepositOf(w, r)' = 0 /\ \A d, v : d # i => SharesOf(w, r, d, v)' = 0
    BY <1>1, <2>1, NothingOwnedAfter
  <2> QED  BY <1>3, <2>2, <2>3, <2>4
<1> QED  BY <1>2, <1>3

\* What is frozen, and the shares of the digests.
LEMMA IndexMovesHeld ==
    ASSUME IndexInv, NEW w \in Who, NEW r \in Reasons, NEW i \in Indexes, NEW S, NEW vf, NEW nb,
           NEW sh, NEW pr, NEW k, IndexMoves(w, r, i, S, vf, nb, sh, pr, k)
    PROVE  IndexFrozen' /\ IndexReceiptsHoldShares'
<1> DEFINE P == SumFunctionOnSet(pr, S)
<1>0. P \in Int /\ EntryTypes /\ EntryTypes' /\ EntriesStay /\ MapSound(DigestMap)
  BY IndexSums
<1>1. /\ StoredTypes(Ids) /\ BalancesSound /\ IndexFrozen /\ IndexReceiptsHoldShares /\ EntriesOwned
  BY DEF IndexInv, Ids, Books, EntriesAccounted
<1>2. /\ Puts(DigestMap, r, S, vf, nb, k) /\ DigestMap' = PutAll(DigestMap, r, S, vf, nb)
      /\ EntriesMove(w, r, i, S, sh, pr) /\ index_exists(r, i) /\ S \subseteq DOMAIN IndexMap[<<r, i>>].entries
      /\ frozen' = [frozen EXCEPT ![<<w, r>>] = @ + P]
      /\ \A d \in S : /\ vf[d] = IndexMap[<<r, i>>].entries[d].variant
                      /\ nb[d].issued = DigestMap[<<r, d>>][vf[d]].issued + sh[d]
  BY DEF IndexMoves
<1> HIDE DEF P
<1>3. IndexFrozen'
  <2>1. ASSUME NEW y \in Who, NEW s \in Reasons
        PROVE  frozen'[<<y, s>>] = DepositOf(y, s)'
                 + PrincipalsOver({x \in DOMAIN EntryMap : x[1] = s /\ x[4] = y})'
    <3> DEFINE was == PrincipalsOver({x \in DOMAIN EntryMap : x[1] = s /\ x[4] = y})
               now == PrincipalsOver({x \in DOMAIN EntryMap : x[1] = s /\ x[4] = y})'
    <3>1. was \in Int /\ now = was + (IF s = r /\ y = w THEN P ELSE 0)
      <4>1. \A t \in Reasons, z \in Who :
              /\ PrincipalsOver({x \in DOMAIN EntryMap : x[1] = t /\ x[4] = z}) \in Int
              /\ PrincipalsOver({x \in DOMAIN EntryMap : x[1] = t /\ x[4] = z})'
                   = PrincipalsOver({x \in DOMAIN EntryMap : x[1] = t /\ x[4] = z})
                        + (IF t = r /\ z = w THEN P ELSE 0)
        <5>1. EntriesMove(w, r, i, S, sh, pr) /\ EntryTypes /\ EntryTypes'
          BY <1>0, <1>2
        <5>2. \A t \in Reasons, z \in Who :
                /\ PrincipalsOver({x \in DOMAIN EntryMap : x[1] = t /\ x[4] = z}) \in Int
                /\ PrincipalsOver({x \in DOMAIN EntryMap : x[1] = t /\ x[4] = z})'
                     = PrincipalsOver({x \in DOMAIN EntryMap : x[1] = t /\ x[4] = z})
                          + (IF t = r /\ z = w THEN SumFunctionOnSet(pr, S) ELSE 0)
          BY <5>1, PrincipalsTotals
        <5> QED  BY <5>2 DEF P
      <4> QED  BY <4>1, Zenon
    <3>2. frozen[<<y, s>>] = DepositOf(y, s) + was
      BY <1>1 DEF IndexFrozen
    <3>3. DepositOf(y, s)' = DepositOf(y, s)
      BY IndexMovesOwn
    <3>4. DepositOf(y, s) \in Int
      <4>1. PICK o : CoreTypes(o)
        BY <1>1, SharedCore DEF Ids
      <4> QED  BY <4>1, DepositTyped
    <3>5. frozen'[<<y, s>>] = IF s = r /\ y = w THEN frozen[<<y, s>>] + P ELSE frozen[<<y, s>>]
      BY <1>1, <1>2 DEF StoredTypes
    <3> HIDE DEF was, now
    <3>6. frozen'[<<y, s>>] = DepositOf(y, s) + now
      BY <1>0, <3>1, <3>2, <3>4, <3>5
    <3> QED  BY <3>3, <3>6 DEF now
  <2> QED  BY <2>1 DEF IndexFrozen
<1>4. ASSUME NEW s \in Reasons, NEW d \in Digests, NEW v \in Positions
      PROVE  DigestInfo(s, d)'[v].issued = SharesIn(s, d, v)' + EntrySharesIn(s, d, v)'
  <2> DEFINE hit == s = r /\ d \in S /\ v = IndexMap[<<r, i>>].entries[d].variant
  <2>1. DigestInfo(s, d)[v].issued = SharesIn(s, d, v) + EntrySharesIn(s, d, v)
    BY <1>1 DEF IndexReceiptsHoldShares
  <2>2. EntrySharesIn(s, d, v)' = EntrySharesIn(s, d, v) + (IF hit THEN sh[d] ELSE 0)
    <3>1. \A x \in DOMAIN EntryMap : index_exists(x[1], x[2])
      BY <1>1 DEF EntriesOwned
    <3> QED  BY <1>0, <1>2, <3>1, EntrySharesMove
  <2>3. SharesIn(s, d, v)' = SharesIn(s, d, v)
    <3>1. \A y \in Who : SharesOf(y, s, d, v)' = SharesOf(y, s, d, v)
      BY IndexMovesOwn
    <3> QED  BY <3>1 DEF SharesIn
  <2>4. DigestInfo(s, d)' = InfoIn(DigestMap', s, d) /\ DigestInfo(s, d) = InfoIn(DigestMap, s, d)
    BY DEF DigestInfo, InfoIn, digest_exists
  <2>5. InfoIn(DigestMap', s, d)[v]
          = IF s = r /\ d \in S /\ v = vf[d] THEN nb[d] ELSE InfoIn(DigestMap, s, d)[v]
    BY <1>0, <1>2, PutAllSound
  <2>6. hit => /\ v = vf[d] /\ InfoIn(DigestMap, s, d)[v] = DigestMap[<<r, d>>][vf[d]]
               /\ nb[d].issued = DigestMap[<<r, d>>][vf[d]].issued + sh[d]
               /\ sh[d] \in Int
    BY <1>0, <1>2, KeyMoves DEF InfoIn, Puts
  <2>7. ~ hit => ~ (s = r /\ d \in S /\ v = vf[d])
    BY <1>2
  <2>8. SharesIn(s, d, v) \in Int /\ EntrySharesIn(s, d, v) \in Int
    <3>1. PICK o : CoreTypes(o)
      BY <1>1, SharedCore DEF Ids
    <3> QED  BY <1>0, <3>1, SharesInTyped, EntrySharesTyped
  <2> HIDE DEF hit
  <2>9. CASE hit
    BY <2>1, <2>2, <2>3, <2>4, <2>5, <2>6, <2>8, <2>9 DEF hit
  <2>10. CASE ~ hit
    <3>1. DigestInfo(s, d)'[v].issued = DigestInfo(s, d)[v].issued
      BY <2>4, <2>5, <2>7, <2>10
    <3> QED  BY <2>1, <2>2, <2>3, <2>8, <2>10, <3>1
  <2> QED  BY <2>9, <2>10
<1> QED  BY <1>3, <1>4 DEF IndexReceiptsHoldShares

LEMMA IndexMovesKeep ==
    ASSUME IndexInv, NEW w \in Who, NEW r \in Reasons, NEW i \in Indexes, NEW S, NEW vf, NEW nb,
           NEW sh, NEW pr, NEW k, IndexMoves(w, r, i, S, vf, nb, sh, pr, k)
    PROVE  IndexInv'
  BY IndexMovesTyped, IndexMovesBooks, IndexMovesHeld DEF IndexInv, Ids, Books, EntriesAccounted

-----------------------------------------------------------------------------
(* Placing and raising *)

\* The balance behind an entry.
LEMMA EntryBacked ==
    ASSUME IndexInv, NEW r \in Reasons, NEW i \in Indexes, index_exists(r, i),
           NEW d \in DOMAIN Entries(r, i), digest_exists(r, d)
    PROVE  /\ d \in Digests /\ Entries(r, i)[d].variant \in Positions
           /\ EntryBalance(r, i, d) \in Balances /\ SoundBalance(EntryBalance(r, i, d))
           /\ EntryBalance(r, i, d).effective \in Nat /\ EntryBalance(r, i, d).issued \in Nat
<1>1. d \in Digests /\ Entries(r, i)[d].variant \in Positions
  BY EntriesOf DEF Entries
<1>2. MapSound(DigestMap)
  BY DigestMapSound DEF IndexInv
<1>3. EntryBalance(r, i, d) \in Balances /\ SoundBalance(EntryBalance(r, i, d))
  BY <1>1, <1>2 DEF MapSound, digest_exists, EntryBalance, Entries
<1> QED  BY <1>1, <1>3, ShareBalanceAssumption DEF Balances

LEMMA OnePart ==
    ASSUME IndexInv, NEW r \in Reasons, NEW i \in Indexes, index_exists(r, i), NEW paid \in Assets,
           NEW d \in DOMAIN Entries(r, i), digest_exists(r, d),
           DepositSucceeds(EntryBalance(r, i, d), Parts(r, i, paid)[d])
    PROVE  PartPaid(r, i, paid, d)
<1> DEFINE b == EntryBalance(r, i, d)
           a == Parts(r, i, paid)[d]
<1>1. /\ d \in Digests /\ Entries(r, i)[d].variant \in Positions
      /\ b \in Balances /\ SoundBalance(b) /\ b.effective \in Nat
  BY EntryBacked
<1>2. a \in Nat
  <2>1. /\ IsFiniteSet(DOMAIN Entries(r, i)) /\ DOMAIN Entries(r, i) # {}
        /\ \A x \in DOMAIN Entries(r, i) : Entries(r, i)[x].shares \in Nat \ {0}
    BY EntriesOf DEF Entries
  <2>2. paid \in Nat
    BY ShareBalanceAssumption DEF Assets
  <2> QED  BY <2>1, <2>2, SplitBound DEF Parts
<1>3. PartBalances(r, i, paid)[d] = DepositBalance(b, a) /\ PartReceipts(r, i, paid)[d] = DepositReceipt(b, a)
  BY DEF PartBalances, PartReceipts
<1>4. PartShares(r, i, paid)[d] = PartReceipts(r, i, paid)[d].shares
  BY DEF PartShares
<1> HIDE DEF a, b
<1>5. is_fresh_balance(b).effective = b.effective
  BY <1>1, FreshSound
<1>6. a \in 0 .. MaxAsset
  BY <1>1, <1>2, <1>5, ShareBalanceAssumption DEF DepositSucceeds, a, b
<1>7. /\ DepositBalance(b, a) \in Balances /\ SoundBalance(DepositBalance(b, a))
      /\ DepositBalance(b, a).effective = b.effective + a
      /\ DepositBalance(b, a).issued = b.issued + DepositReceipt(b, a).shares
      /\ DepositReceipt(b, a) \in Receipts
      /\ DepositReceipt(b, a).principal = a
      /\ DepositReceipt(b, a).shares # 0
  <2>1. DepositSucceeds(b, a)
    BY DEF a, b
  <2> QED  BY <1>1, <1>6, <2>1, DepositSound
<1> QED  BY <1>1, <1>2, <1>3, <1>4, <1>7 DEF PartPaid, a, b

LEMMA PartsPut ==
    ASSUME IndexInv, NEW w \in Who, NEW r \in Reasons, NEW i \in Indexes, index_exists(r, i),
           NEW paid \in Assets, deposit_to_index(w, r, i, paid)
    PROVE  LET S == Funded(r, i, paid) IN
           /\ S \subseteq DOMAIN Entries(r, i)
           /\ \A d \in S : PartPaid(r, i, paid, d) /\ digest_exists(r, d)
           /\ DigestMap' = PutAll(DigestMap, r, S, Variants(r, i), PartBalances(r, i, paid))
           /\ Puts(DigestMap, r, S, Variants(r, i), PartBalances(r, i, paid), Parts(r, i, paid))
<1> DEFINE S == Funded(r, i, paid)
           e == Entries(r, i)
<1>0. S \subseteq DOMAIN e
  BY DEF Funded, funded
<1>1. ASSUME NEW d \in S
      PROVE  PartPaid(r, i, paid, d) /\ digest_exists(r, d)
  <2>1. digest_exists(r, d) /\ DepositSucceeds(EntryBalance(r, i, d), Parts(r, i, paid)[d])
    BY <1>0 DEF deposit_to_index, Funded, Entries, EntryBalance, Parts
  <2> QED  BY <1>0, <2>1, OnePart
<1>2. DigestMap' = PutAll(DigestMap, r, S, Variants(r, i), PartBalances(r, i, paid))
  <2>1. ASSUME NEW d \in S
        PROVE  /\ Variants(r, i)[d] = e[d].variant
               /\ PartBalances(r, i, paid)[d]
                    = DepositBalance(DigestMap[<<r, d>>][e[d].variant], entry_deposit(e, d, paid))
    BY <1>0 DEF Variants, PartBalances, Parts, EntryBalance, Entries
  <2>2. DigestMap' = [x \in DOMAIN DigestMap |->
            IF x[1] = r /\ x[2] \in S
            THEN [DigestMap[x] EXCEPT ![e[x[2]].variant] =
                     DepositBalance(DigestMap[<<r, x[2]>>][e[x[2]].variant], entry_deposit(e, x[2], paid))]
            ELSE DigestMap[x]]
    BY DEF deposit_to_index, Funded, Entries
  <2> HIDE DEF S, e
  <2>3. \A x \in DOMAIN DigestMap : x[2] \in S =>
          [DigestMap[x] EXCEPT ![e[x[2]].variant] =
                     DepositBalance(DigestMap[<<r, x[2]>>][e[x[2]].variant], entry_deposit(e, x[2], paid))]
            = [DigestMap[x] EXCEPT ![Variants(r, i)[x[2]]] = PartBalances(r, i, paid)[x[2]]]
    BY <2>1
  <2> QED  BY <2>2, <2>3 DEF PutAll
<1>3. Puts(DigestMap, r, S, Variants(r, i), PartBalances(r, i, paid), Parts(r, i, paid))
  <2> SUFFICES ASSUME NEW d \in S
               PROVE  /\ d \in Digests /\ <<r, d>> \in DOMAIN DigestMap
                      /\ Variants(r, i)[d] \in Positions
                      /\ PartBalances(r, i, paid)[d] \in Balances /\ SoundBalance(PartBalances(r, i, paid)[d])
                      /\ Parts(r, i, paid)[d] = PartBalances(r, i, paid)[d].effective
                                                  - DigestMap[<<r, d>>][Variants(r, i)[d]].effective
    BY DEF Puts
  <2>1. PartPaid(r, i, paid, d) /\ digest_exists(r, d) /\ d \in DOMAIN e
    BY <1>0, <1>1
  <2>2. Variants(r, i)[d] = e[d].variant /\ DigestMap[<<r, d>>][Variants(r, i)[d]] = EntryBalance(r, i, d)
    BY <2>1 DEF Variants, EntryBalance, Entries
  <2>3. EntryBalance(r, i, d).effective \in Nat
    BY <2>1, EntryBacked
  <2> QED  BY <2>1, <2>2, <2>3 DEF PartPaid, digest_exists
<1> QED  BY <1>0, <1>1, <1>2, <1>3

\* The receipts of the parts.
LEMMA PartsReceived ==
    ASSUME IndexInv, NEW w \in Who, NEW r \in Reasons, NEW i \in Indexes, index_exists(r, i),
           NEW paid \in Assets, deposit_to_index(w, r, i, paid)
    PROVE  LET S == Funded(r, i, paid) IN
           /\ EntriesMove(w, r, i, S, PartShares(r, i, paid), Parts(r, i, paid))
           /\ DOMAIN EntryMap' \subseteq Keys
           /\ \A d \in S : /\ EntryMap'[<<r, i, d, w>>] \in Seq(Receipts)
                           /\ Len(EntryMap'[<<r, i, d, w>>]) \in 1 .. MaxCommits
                           /\ \A n \in DOMAIN EntryMap'[<<r, i, d, w>>] :
                                 EntryMap'[<<r, i, d, w>>][n].shares # 0
           /\ EntryTypes
<1> DEFINE S == Funded(r, i, paid)
           mine == {<<r, i, d, w>> : d \in S}
<1>0. EntryTypes /\ IndexTypeOK /\ EntriesCount
  BY EntriesTyped DEF IndexInv
<1>1. S \subseteq DOMAIN Entries(r, i) /\ S \subseteq Digests /\ \A d \in S : PartPaid(r, i, paid, d)
  BY PartsPut DEF PartPaid
<1>2. EntryMap' = [x \in DOMAIN EntryMap \cup mine |->
            IF x \in mine
            THEN Append(EntryCommits(r, i, x[3], w),
                        DepositReceipt(EntryBalance(r, i, x[3]), entry_deposit(Entries(r, i), x[3], paid)))
            ELSE EntryMap[x]]
  BY DEF deposit_to_index, Funded, Entries, EntryBalance
<1>3. \A d \in S : Len(EntryCommits(r, i, d, w)) < MaxCommits
  BY DEF deposit_to_index, Funded, Entries
<1>4. ASSUME NEW d \in S
      PROVE  /\ <<r, i, d, w>> \in DOMAIN EntryMap'
             /\ EntryMap'[<<r, i, d, w>>] = Append(EntryCommits(r, i, d, w), PartReceipts(r, i, paid)[d])
  <2>1. PartReceipts(r, i, paid)[d]
          = DepositReceipt(EntryBalance(r, i, d), entry_deposit(Entries(r, i), d, paid))
    BY <1>1 DEF PartReceipts, Parts
  <2>2. <<r, i, d, w>> \in mine /\ <<r, i, d, w>>[3] = d
    OBVIOUS
  <2> HIDE DEF S, mine
  <2> QED  BY <1>2, <2>1, <2>2
<1>5. ASSUME NEW d \in S
      PROVE  /\ EntryCommits(r, i, d, w) \in Seq(Receipts)
             /\ EntryMap'[<<r, i, d, w>>] \in Seq(Receipts)
             /\ Len(EntryMap'[<<r, i, d, w>>]) = Len(EntryCommits(r, i, d, w)) + 1
             /\ Principals(EntryMap'[<<r, i, d, w>>])
                  = Principals(EntryCommits(r, i, d, w)) + Parts(r, i, paid)[d]
             /\ Shares(EntryMap'[<<r, i, d, w>>])
                  = Shares(EntryCommits(r, i, d, w)) + PartShares(r, i, paid)[d]
  <2>1. EntryCommits(r, i, d, w) \in Seq(Receipts)
    BY <1>0, CommitsTyped
  <2>2. PartPaid(r, i, paid, d)
    BY <1>1
  <2>3. PartReceipts(r, i, paid)[d] \in Receipts
    BY <2>2 DEF PartPaid
  <2> QED  BY <1>4, <2>1, <2>2, <2>3, OneMore DEF PartPaid
<1>6. DOMAIN EntryMap' \subseteq Keys
  BY <1>0, <1>1, <1>2 DEF EntryTypes, Keys
<1>7. \A d \in S : /\ EntryMap'[<<r, i, d, w>>] \in Seq(Receipts)
                   /\ Len(EntryMap'[<<r, i, d, w>>]) \in 1 .. MaxCommits
  <2> SUFFICES ASSUME NEW d \in S  PROVE Len(EntryMap'[<<r, i, d, w>>]) \in 1 .. MaxCommits
    BY <1>5
  <2>1. /\ Len(EntryMap'[<<r, i, d, w>>]) = Len(EntryCommits(r, i, d, w)) + 1
        /\ Len(EntryCommits(r, i, d, w)) \in Nat /\ Len(EntryCommits(r, i, d, w)) < MaxCommits
    BY <1>3, <1>5
  <2> QED  BY <2>1, CommitmentAssumption
<1>8. ASSUME NEW d \in S, NEW n \in DOMAIN EntryMap'[<<r, i, d, w>>]
      PROVE  EntryMap'[<<r, i, d, w>>][n].shares # 0
  <2> DEFINE s == EntryCommits(r, i, d, w)
             c == PartReceipts(r, i, paid)[d]
  <2>1. s \in Seq(Receipts) /\ EntryMap'[<<r, i, d, w>>] = Append(s, c)
    BY <1>4, <1>5
  <2>2. c.shares # 0
    BY <1>1 DEF PartPaid
  <2>3. \A m \in DOMAIN s : s[m].shares # 0
    BY <1>0 DEF EntriesCount, EntryCommits
  <2> HIDE DEF s, c
  <2>4. n \in 1 .. (Len(s) + 1) /\ Len(s) \in Nat
    BY <1>8, <2>1
  <2>5. CASE n = Len(s) + 1
    BY <2>1, <2>2, <2>5
  <2>6. CASE n \in 1 .. Len(s)
    BY <2>1, <2>3, <2>6
  <2> QED  BY <2>4, <2>5, <2>6
<1>9. EntriesMove(w, r, i, S, PartShares(r, i, paid), Parts(r, i, paid))
  <2>1. ASSUME NEW x \in Keys, \A d \in S : x # <<r, i, d, w>>
        PROVE  /\ x \in DOMAIN EntryMap' <=> x \in DOMAIN EntryMap
               /\ x \in DOMAIN EntryMap => EntryMap'[x] = EntryMap[x]
    BY <1>2, <2>1
  <2>2. ASSUME NEW d \in S
        PROVE  /\ PartShares(r, i, paid)[d] = Shares(EntryCommits(r, i, d, w)') - Shares(EntryCommits(r, i, d, w))
               /\ Parts(r, i, paid)[d]
                    = Principals(EntryCommits(r, i, d, w)') - Principals(EntryCommits(r, i, d, w))
    <3>1. EntryCommits(r, i, d, w)' = EntryMap'[<<r, i, d, w>>]
      BY <1>4 DEF EntryCommits
    <3>2. Principals(EntryCommits(r, i, d, w)) \in Nat /\ Shares(EntryCommits(r, i, d, w)) \in Nat
      BY <1>0, CommitsTyped
    <3>3. Parts(r, i, paid)[d] \in Nat /\ PartShares(r, i, paid)[d] \in Nat
      <4>1. /\ PartReceipts(r, i, paid)[d] \in Receipts
            /\ PartReceipts(r, i, paid)[d].shares = PartShares(r, i, paid)[d]
            /\ Parts(r, i, paid)[d] \in Nat
        BY <1>1 DEF PartPaid
      <4>2. PartReceipts(r, i, paid)[d].shares \in Nat
        BY <4>1, ShareBalanceAssumption DEF Receipts
      <4> QED  BY <4>1, <4>2
    <3> QED  BY <1>5, <3>1, <3>2, <3>3
  <2> QED  BY <1>1, <2>1, <2>2 DEF EntriesMove
<1> QED  BY <1>0, <1>6, <1>7, <1>8, <1>9

LEMMA CommitsToIndex ==
    ASSUME IndexInv, NEW w \in Who, NEW r \in Reasons, NEW i \in Indexes, index_exists(r, i),
           NEW x \in Amounts, NEW actual, commit_to_index(w, r, i, x, actual)
    PROVE  \E S, vf, nb, sh, pr : PaidToIndex(w, r, i, S, vf, nb, sh, pr, actual)
<1> DEFINE paid == deducted(free[w], hold[w], x)
           held == deducted_hold(hold[w], x)
           S == Funded(r, i, paid)
           pr == Parts(r, i, paid)
<1>0. /\ free \in [Who -> Assets] /\ hold \in [Who -> Assets] /\ frozen \in [Who \X Reasons -> Assets]
      /\ ReasonValue \in [Reasons -> Assets] /\ AssetToIssue \in Assets /\ AssetToReap \in Assets
      /\ StoredTypes(Ids)
  BY DEF IndexInv, StoredTypes, Ids
<1>1. /\ free[w] \in Nat /\ hold[w] \in Nat /\ frozen[<<w, r>>] \in Nat /\ ReasonValue[r] \in Nat
      /\ x \in Assets /\ MaxAsset \in Nat /\ hold[w] <= MaxAsset
  <2>1. free[w] \in Assets /\ hold[w] \in Assets /\ frozen[<<w, r>>] \in Assets /\ ReasonValue[r] \in Assets
    BY <1>0
  <2> QED  BY <2>1, ShareBalanceAssumption, CommitmentAssumption DEF Assets
<1>2. /\ paid \in Assets /\ paid \in Nat
      /\ held \in Nat /\ held <= hold[w] /\ paid - held \in Nat /\ paid - held <= free[w]
  <2>1. paid \in Assets /\ held \in Nat /\ held <= hold[w] /\ paid - held \in Nat /\ paid - held <= free[w]
    BY <1>1, DeductSound
  <2> QED  BY <2>1, ShareBalanceAssumption DEF Assets
<1>3. /\ actual = index_actual(Entries(r, i), paid)
      /\ deposit_to_index(w, r, i, paid)
      /\ frozen[<<w, r>>] + actual <= MaxAsset
      /\ ReasonValue[r] + actual <= MaxAsset
      /\ free[w] - (paid - held) + (paid - actual) <= MaxAsset
      /\ free' = [free EXCEPT ![w] = @ - (paid - held) + (paid - actual)]
      /\ hold' = [hold EXCEPT ![w] = @ - held]
      /\ ReasonValue' = [ReasonValue EXCEPT ![r] = @ + actual]
      /\ UNCHANGED <<AssetToIssue, AssetToReap, adjusted>>
  BY DEF commit_to_index, refund, Entries
<1>4. /\ IndexMap[<<r, i>>].principal + actual <= MaxAsset
      /\ IndexMap' = [IndexMap EXCEPT ![<<r, i>>].principal = @ + actual]
  BY <1>3 DEF deposit_to_index, Entries
<1> HIDE DEF paid, held
<1>5. actual = SumFunctionOnSet(pr, S) /\ actual \in Nat /\ actual <= paid
  <2>1. /\ IsFiniteSet(DOMAIN Entries(r, i)) /\ DOMAIN Entries(r, i) # {}
        /\ \A d \in DOMAIN Entries(r, i) : Entries(r, i)[d].shares \in Nat \ {0}
    BY EntriesOf DEF Entries
  <2>2. \A d \in S : pr[d] = entry_deposit(Entries(r, i), d, paid)
    BY DEF Funded, funded, Parts
  <2>3. index_actual(Entries(r, i), paid) \in Nat /\ index_actual(Entries(r, i), paid) <= paid
    BY <1>2, <2>1, SplitBound
  <2> HIDE DEF pr
  <2>4. index_actual(Entries(r, i), paid) = SumFunctionOnSet(pr, S)
    BY <1>2, <2>1, <2>2, FundedSum DEF Funded
  <2> QED  BY <1>3, <2>3, <2>4
<1>6. /\ S \subseteq DOMAIN Entries(r, i)
      /\ \A d \in S : PartPaid(r, i, paid, d)
      /\ DigestMap' = PutAll(DigestMap, r, S, Variants(r, i), PartBalances(r, i, paid))
      /\ Puts(DigestMap, r, S, Variants(r, i), PartBalances(r, i, paid), pr)
  BY <1>2, <1>3, PartsPut
<1>7. \A d \in S : /\ Variants(r, i)[d] = IndexMap[<<r, i>>].entries[d].variant
                   /\ PartBalances(r, i, paid)[d].issued
                        = DigestMap[<<r, d>>][Variants(r, i)[d]].issued + PartShares(r, i, paid)[d]
  BY <1>6 DEF PartPaid, Variants, Entries, EntryBalance
<1>8. /\ EntriesMove(w, r, i, S, PartShares(r, i, paid), pr)
      /\ DOMAIN EntryMap' \subseteq Keys
      /\ \A d \in S : /\ EntryMap'[<<r, i, d, w>>] \in Seq(Receipts)
                      /\ Len(EntryMap'[<<r, i, d, w>>]) \in 1 .. MaxCommits
                      /\ \A n \in DOMAIN EntryMap'[<<r, i, d, w>>] :
                            EntryMap'[<<r, i, d, w>>][n].shares # 0
  BY <1>2, <1>3, PartsReceived
<1> HIDE DEF S, pr
<1>9. /\ IndexMap[<<r, i>>].principal + actual \in Assets
      /\ frozen[<<w, r>>] + actual \in Assets
      /\ ReasonValue[r] + actual \in Assets
  <2>1. IndexMap[<<r, i>>].principal \in Nat
    <3>1. IndexMap[<<r, i>>].principal \in Assets
      BY EntriesOf
    <3> QED  BY <3>1, ShareBalanceAssumption DEF Assets
  <2> QED  BY <1>1, <1>3, <1>4, <1>5, <2>1 DEF Assets
<1>10. /\ free' \in [Who -> Assets] /\ \A y \in Who \ {w} : free'[y] = free[y]
       /\ hold' \in [Who -> Assets] /\ \A y \in Who \ {w} : hold'[y] = hold[y]
       /\ free'[w] + hold'[w] + actual = free[w] + hold[w]
  <2>1. PICK o : CoreTypes(o)
    BY <1>0, SharedCore DEF Ids
  <2> DEFINE a == free[w] - (paid - held) + (paid - actual)
             h == hold[w] - held
  <2>2. a \in Nat /\ a <= MaxAsset /\ h \in Nat /\ h <= MaxAsset
    BY <1>1, <1>2, <1>3, <1>5
  <2>3. free' = [free EXCEPT ![w] = a] /\ hold' = [hold EXCEPT ![w] = h]
    BY <1>3
  <2>4. a + h + actual = free[w] + hold[w]
    BY <1>1, <1>2, <1>5
  <2> HIDE DEF a, h
  <2>5. /\ free' \in [Who -> Assets] /\ \A y \in Who \ {w} : free'[y] = free[y]
        /\ hold' \in [Who -> Assets] /\ \A y \in Who \ {w} : hold'[y] = hold[y]
        /\ free'[w] = a /\ hold'[w] = h
    BY <2>1, <2>2, <2>3, PaidOut
  <2> QED  BY <2>4, <2>5
<1>11. PaidToIndex(w, r, i, S, Variants(r, i), PartBalances(r, i, paid), PartShares(r, i, paid), pr, actual)
  BY <1>0, <1>3, <1>4, <1>5, <1>6, <1>7, <1>8, <1>9, <1>10 DEF PaidToIndex, Entries
<1> QED  BY <1>11

LEMMA PaidToIndexKeeps ==
    ASSUME IndexInv, NEW w \in Who, NEW r \in Reasons, NEW i \in Indexes, index_exists(r, i),
           NEW S, NEW vf, NEW nb, NEW sh, NEW pr, NEW actual,
           PaidToIndex(w, r, i, S, vf, nb, sh, pr, actual),
           frozen' = [frozen EXCEPT ![<<w, r>>] = @ + actual],
           OthersKeep(w, r), CommitsTo(w, r, i), DOMAIN CommitMap' \subseteq Who \X Reasons,
           commit_exists(w, r)', CommitMap'[<<w, r>>] \in NoOwn(i),
           Len(CommitMap'[<<w, r>>].commits) \in 1 .. MaxCommits
    PROVE  IndexInv'
<1>1. actual = SumFunctionOnSet(pr, S)
  BY DEF PaidToIndex
<1>2. IndexMoves(w, r, i, S, vf, nb, sh, pr, pr)
  BY <1>1 DEF PaidToIndex, IndexMoves
<1> QED  BY <1>2, IndexMovesKeep

\* Who is not committed has no receipts in any entry and nothing frozen.
LEMMA NothingFrozen ==
    ASSUME IndexInv, NEW w \in Who, NEW r \in Reasons, ~ commit_exists(w, r)
    PROVE  frozen[<<w, r>>] = 0
<1>1. {y \in DOMAIN EntryMap : y[1] = r /\ y[4] = w} = {}
  BY DEF IndexInv, EntriesAccounted, EntriesOwned
<1>2. frozen[<<w, r>>] = DepositOf(w, r) + PrincipalsOver({y \in DOMAIN EntryMap : y[1] = r /\ y[4] = w})
  BY DEF IndexInv, Books, IndexFrozen
<1>3. DepositOf(w, r) = 0
  BY DEF DepositOf
<1> QED  BY <1>1, <1>2, <1>3, PrincipalsOfNone

LEMMA PlaceIndexKeeps ==
    ASSUME IndexInv, NEW w \in Who, NEW r \in Reasons, NEW i \in Indexes, NEW v \in Positions,
           NEW x \in Amounts, NEW p, PlaceIndexCommit(w, r, i, v, x, p)
    PROVE  IndexInv'
<1> DEFINE c == [digest |-> i, variant |-> v, commits |-> <<NoReceipt>>]
<1>1. PICK actual : /\ commit_to_index(w, r, i, x, actual)
                    /\ frozen' = [frozen EXCEPT ![<<w, r>>] = actual]
  BY DEF PlaceIndexCommit
<1>2. ~ commit_exists(w, r) /\ index_exists(r, i) /\ CommitMap' = Insert(CommitMap, <<w, r>>, c)
  BY DEF PlaceIndexCommit
<1>3. PICK S, vf, nb, sh, pr : PaidToIndex(w, r, i, S, vf, nb, sh, pr, actual)
  BY <1>1, <1>2, CommitsToIndex
<1>4. frozen' = [frozen EXCEPT ![<<w, r>>] = @ + actual]
  <2>1. frozen[<<w, r>>] = 0 /\ actual \in Nat
    BY <1>2, <1>3, NothingFrozen DEF PaidToIndex
  <2> QED  BY <1>1, <2>1
<1>5. c \in NoOwn(i) /\ Len(c.commits) \in 1 .. MaxCommits
  <2>1. <<NoReceipt>> \in Seq({NoReceipt}) /\ Len(<<NoReceipt>>) = 1
    OBVIOUS
  <2> QED  BY <2>1, CommitmentAssumption DEF NoOwn
<1> HIDE DEF c
<1>6. OthersKeep(w, r) /\ commit_exists(w, r)' /\ CommitMap'[<<w, r>>] = c
  BY <1>2, InsertKeeps
<1>7. DOMAIN CommitMap' \subseteq Who \X Reasons
  BY <1>2 DEF Insert, IndexInv, StoredTypes
<1> QED  BY <1>2, <1>3, <1>4, <1>5, <1>6, <1>7, PaidToIndexKeeps DEF CommitsTo

LEMMA RaiseIndexKeeps ==
    ASSUME IndexInv, NEW w \in Who, NEW r \in Reasons, NEW x \in Amounts, NEW p,
           RaiseIndexCommit(w, r, x, p)
    PROVE  IndexInv'
<1> DEFINE was == CommitMap[<<w, r>>]
           i == was.digest
           c == [was EXCEPT !.commits = Append(@, NoReceipt)]
<1>1. PICK actual : /\ commit_to_index(w, r, i, x, actual)
                    /\ frozen' = [frozen EXCEPT ![<<w, r>>] = @ + actual]
  BY DEF RaiseIndexCommit
<1>2. /\ commit_exists(w, r) /\ index_exists(r, i) /\ Len(was.commits) < MaxCommits
      /\ CommitMap' = [CommitMap EXCEPT ![<<w, r>>] = c]
  BY DEF RaiseIndexCommit
<1>3. i \in Indexes
  BY <1>2 DEF IndexInv, IndexTypeOK, index_exists
<1>4. PICK S, vf, nb, sh, pr : PaidToIndex(w, r, i, S, vf, nb, sh, pr, actual)
  BY <1>1, <1>2, <1>3, CommitsToIndex
<1>5. c \in NoOwn(i) /\ Len(c.commits) \in 1 .. MaxCommits
  <2>1. /\ was \in [digest : Ids, variant : Positions, commits : Seq(Receipts)]
        /\ Len(was.commits) \in 1 .. MaxCommits
        /\ \A n \in DOMAIN was.commits : was.commits[n] = NoReceipt
    BY <1>2, <1>3 DEF IndexInv, StoredTypes, EntriesCount, commit_exists, Ids
  <2> DEFINE s == was.commits
  <2>2. s \in Seq(Receipts) /\ \A n \in 1 .. Len(s) : s[n] \in {NoReceipt}
    BY <2>1
  <2>3. s \in Seq({NoReceipt})
    <3> HIDE DEF s
    <3>1. s \in [1 .. Len(s) -> {NoReceipt}] /\ Len(s) \in Nat
      BY <2>2
    <3> QED  BY <3>1
  <2>4. Append(s, NoReceipt) \in Seq({NoReceipt}) /\ Len(Append(s, NoReceipt)) = Len(s) + 1
    <3> HIDE DEF s
    <3> QED  BY <2>3
  <2> HIDE DEF was
  <2>5. /\ c.digest = was.digest /\ c.variant = was.variant /\ c.commits = Append(s, NoReceipt)
        /\ c = [digest |-> was.digest, variant |-> was.variant, commits |-> Append(s, NoReceipt)]
    <3> DEFINE q == Append(was.commits, NoReceipt)
    <3>1. was \in [digest : Ids, variant : Positions, commits : Seq(Receipts)]
      BY <2>1
    <3>2. c = [was EXCEPT !.commits = q] /\ q = Append(s, NoReceipt)
      OBVIOUS
    <3> HIDE DEF q, c, s
    <3>3. c = [digest |-> was.digest, variant |-> was.variant, commits |-> q]
      BY <3>1, <3>2
    <3> QED  BY <3>2, <3>3
  <2>6. Len(c.commits) \in 1 .. MaxCommits
    BY <1>2, <2>1, <2>4, <2>5, CommitmentAssumption
  <2>7. was.variant \in Positions
    BY <2>1
  <2> HIDE DEF s, c
  <2> QED  BY <2>4, <2>5, <2>6, <2>7 DEF NoOwn
<1>6. OthersKeep(w, r) /\ commit_exists(w, r)' /\ CommitMap'[<<w, r>>] = c
  <2> HIDE DEF c
  <2> QED  BY <1>2, ExceptKeeps
<1>7. DOMAIN CommitMap' \subseteq Who \X Reasons
  BY <1>2 DEF IndexInv, StoredTypes
<1>8. CommitsTo(w, r, i)
  BY DEF CommitsTo
<1> HIDE DEF was, i, c
<1> QED  BY <1>1, <1>2, <1>3, <1>4, <1>5, <1>6, <1>7, <1>8, PaidToIndexKeeps

-----------------------------------------------------------------------------
(* Resolving *)

LEMMA OneEntryResolved ==
    ASSUME IndexInv, NEW w \in Who, NEW r \in Reasons, NEW i \in Indexes, index_exists(r, i),
           withdraws_from_index(w, r, i), NEW d \in DOMAIN Entries(r, i)
    PROVE  EntryResolved(w, r, i, d)
<1> DEFINE b == EntryBalance(r, i, d)
           s == EntryMap[<<r, i, d, w>>]
           out == Withdrawals(w, r, i)[d]
<1>1. /\ <<r, i, d, w>> \in DOMAIN EntryMap /\ digest_exists(r, d) /\ EntryWithdrawal(w, r, i, d).ok
  BY DEF withdraws_from_index, Entries
<1>2. out = withdraw_from_digest(b, s) /\ out.ok
  BY <1>1 DEF Withdrawals, EntryWithdrawal, EntryBalance
<1>3. /\ d \in Digests /\ Entries(r, i)[d].variant \in Positions
      /\ b \in Balances /\ SoundBalance(b) /\ b.effective \in Nat /\ b.issued \in Nat
  BY <1>1, EntryBacked
<1>4. s \in Seq(Receipts)
  BY <1>1 DEF IndexInv, IndexTypeOK
<1> HIDE DEF b, s, out
<1>5. Progress(b, s, Len(s), out)
  BY <1>2, <1>3, <1>4, Withdrawn
<1>6. /\ Principals(s) = PartSum(EachPrincipal(s), Len(s)) /\ Shares(s) = PartSum(EachShares(s), Len(s))
      /\ Principals(s) \in Nat /\ Shares(s) \in Nat
  BY <1>4, ReceiptSums
<1>7. /\ out.balance \in Balances /\ SoundBalance(out.balance)
      /\ out.given = Principals(s) /\ out.given \in Nat /\ out.taken \in Nat
      /\ out.balance.effective = b.effective - out.taken
      /\ out.balance.issued = b.issued - Shares(s)
  BY <1>5, <1>6 DEF Progress
<1> QED  BY <1>1, <1>3, <1>4, <1>6, <1>7 DEF EntryResolved, b, s, out

\* The sums over the entries.
LEMMA ResolvedTotals ==
    ASSUME IndexInv, NEW w \in Who, NEW r \in Reasons, NEW i \in Indexes, index_exists(r, i),
           withdraws_from_index(w, r, i)
    PROVE  LET S == DOMAIN Entries(r, i) IN
           /\ IndexGiven(w, r, i) \in Nat /\ IndexTaken(w, r, i) \in Nat
           /\ SumFunctionOnSet(GivenAway(w, r, i), S) = 0 - IndexGiven(w, r, i)
           /\ SumFunctionOnSet(TakenAway(w, r, i), S) = 0 - IndexTaken(w, r, i)
<1> DEFINE S == DOMAIN Entries(r, i)
           given == [d \in S |-> EntryWithdrawal(w, r, i, d).given]
           taken == [d \in S |-> EntryWithdrawal(w, r, i, d).taken]
<1>1. IsFiniteSet(S)
  BY EntriesOf DEF Entries
<1>2. ASSUME NEW d \in S
      PROVE  /\ given[d] \in Nat /\ GivenAway(w, r, i)[d] = 0 - given[d]
             /\ taken[d] \in Nat /\ TakenAway(w, r, i)[d] = 0 - taken[d]
  <2>1. /\ Withdrawals(w, r, i)[d].given \in Nat /\ Withdrawals(w, r, i)[d].taken \in Nat
    BY OneEntryResolved DEF EntryResolved
  <2> QED  BY <2>1 DEF Withdrawals, GivenAway, TakenAway
<1>3. IndexGiven(w, r, i) = SumFunctionOnSet(given, S) /\ IndexTaken(w, r, i) = SumFunctionOnSet(taken, S)
  BY DEF IndexGiven, IndexTaken, SumFunction, Entries
<1> HIDE DEF S, given, taken
<1>4. /\ SumFunctionOnSet(given, S) \in Nat
      /\ SumFunctionOnSet(GivenAway(w, r, i), S) = 0 - SumFunctionOnSet(given, S)
  BY <1>1, <1>2, SumNegated
<1>5. /\ SumFunctionOnSet(taken, S) \in Nat
      /\ SumFunctionOnSet(TakenAway(w, r, i), S) = 0 - SumFunctionOnSet(taken, S)
  BY <1>1, <1>2, SumNegated
<1> QED  BY <1>3, <1>4, <1>5 DEF S

\* Without its receipts.
LEMMA EntriesGone ==
    ASSUME IndexInv, NEW w \in Who, NEW r \in Reasons, NEW i \in Indexes, index_exists(r, i),
           withdraws_from_index(w, r, i),
           EntryMap' = [x \in {y \in DOMAIN EntryMap : <<y[1], y[2], y[4]>> # <<r, i, w>>} |-> EntryMap[x]]
    PROVE  /\ EntriesMove(w, r, i, DOMAIN Entries(r, i), SharesAway(w, r, i), GivenAway(w, r, i))
           /\ DOMAIN EntryMap' \subseteq Keys
           /\ \A d : <<r, i, d, w>> \notin DOMAIN EntryMap'
           /\ EntryTypes /\ EntryTypes'
<1> DEFINE S == DOMAIN Entries(r, i)
<1>1. EntryTypes /\ EntriesOwned
  BY EntriesTyped DEF IndexInv, EntriesAccounted
<1>2. /\ DOMAIN EntryMap' = {y \in DOMAIN EntryMap : <<y[1], y[2], y[4]>> # <<r, i, w>>}
      /\ \A x \in DOMAIN EntryMap' : EntryMap'[x] = EntryMap[x]
  OBVIOUS
<1>3. \A d : <<r, i, d, w>> \notin DOMAIN EntryMap'
  BY <1>2
<1>4. DOMAIN EntryMap' \subseteq Keys /\ EntryTypes'
  BY <1>1, <1>2 DEF EntryTypes
<1>5. ASSUME NEW x \in Keys, \A d \in S : x # <<r, i, d, w>>
      PROVE  /\ x \in DOMAIN EntryMap' <=> x \in DOMAIN EntryMap
             /\ x \in DOMAIN EntryMap => EntryMap'[x] = EntryMap[x]
  <2>1. ASSUME x \in DOMAIN EntryMap
        PROVE  <<x[1], x[2], x[4]>> # <<r, i, w>>
    <3>1. x[3] \in DOMAIN IndexMap[<<x[1], x[2]>>].entries
      BY <1>1, <2>1 DEF EntriesOwned
    <3>2. x = <<x[1], x[2], x[3], x[4]>>
      BY DEF Keys
    <3> QED  BY <1>5, <3>1, <3>2 DEF Entries
  <2> QED  BY <1>2, <2>1
<1>6. ASSUME NEW d \in S
      PROVE  /\ SharesAway(w, r, i)[d] = Shares(EntryCommits(r, i, d, w)') - Shares(EntryCommits(r, i, d, w))
             /\ GivenAway(w, r, i)[d]
                  = Principals(EntryCommits(r, i, d, w)') - Principals(EntryCommits(r, i, d, w))
  <2>1. EntryCommits(r, i, d, w)' = <<>>
    BY <1>3 DEF EntryCommits
  <2>2. EntryResolved(w, r, i, d)
    BY OneEntryResolved
  <2>3. EntryCommits(r, i, d, w) = EntryMap[<<r, i, d, w>>]
    BY <2>2 DEF EntryResolved, EntryCommits
  <2>4. /\ SharesAway(w, r, i)[d] = 0 - Shares(EntryMap[<<r, i, d, w>>])
        /\ GivenAway(w, r, i)[d] = 0 - Principals(EntryMap[<<r, i, d, w>>])
    BY <2>2 DEF SharesAway, GivenAway, EntryResolved
  <2> QED  BY <2>1, <2>3, <2>4, NoReceipts
<1>7. S \subseteq Digests
  BY EntriesOf DEF Entries
<1> QED  BY <1>1, <1>3, <1>4, <1>5, <1>6, <1>7 DEF EntriesMove

LEMMA EntriesLeft ==
    ASSUME IndexInv, NEW w \in Who, NEW r \in Reasons, NEW i \in Indexes, index_exists(r, i),
           withdraws_from_index(w, r, i),
           DigestMap' = [x \in DOMAIN DigestMap |->
             IF x[1] = r /\ x[2] \in DOMAIN IndexMap[<<r, i>>].entries
             THEN [DigestMap[x] EXCEPT ![IndexMap[<<r, i>>].entries[x[2]].variant] =
                      EntryWithdrawal(w, r, i, x[2]).balance]
             ELSE DigestMap[x]]
    PROVE  LET S == DOMAIN Entries(r, i) IN
           /\ DigestMap' = PutAll(DigestMap, r, S, Variants(r, i), BalancesLeft(w, r, i))
           /\ Puts(DigestMap, r, S, Variants(r, i), BalancesLeft(w, r, i), TakenAway(w, r, i))
           /\ \A d \in S : /\ Variants(r, i)[d] = IndexMap[<<r, i>>].entries[d].variant
                           /\ BalancesLeft(w, r, i)[d].issued
                                = DigestMap[<<r, d>>][Variants(r, i)[d]].issued + SharesAway(w, r, i)[d]
<1> DEFINE S == DOMAIN Entries(r, i)
           e == Entries(r, i)
<1>1. ASSUME NEW d \in S
      PROVE  /\ EntryResolved(w, r, i, d) /\ digest_exists(r, d)
             /\ Variants(r, i)[d] = e[d].variant
             /\ BalancesLeft(w, r, i)[d] = EntryWithdrawal(w, r, i, d).balance
             /\ DigestMap[<<r, d>>][Variants(r, i)[d]] = EntryBalance(r, i, d)
             /\ EntryBalance(r, i, d).effective \in Nat /\ EntryBalance(r, i, d).issued \in Nat
  <2>1. digest_exists(r, d)
    BY DEF withdraws_from_index, Entries
  <2>2. Variants(r, i)[d] = e[d].variant /\ BalancesLeft(w, r, i)[d] = EntryWithdrawal(w, r, i, d).balance
    BY DEF Variants, BalancesLeft, Withdrawals
  <2>3. DigestMap[<<r, d>>][Variants(r, i)[d]] = EntryBalance(r, i, d)
    BY <2>2 DEF EntryBalance, Entries
  <2> QED  BY <2>1, <2>2, <2>3, OneEntryResolved, EntryBacked
<1>2. DigestMap' = PutAll(DigestMap, r, S, Variants(r, i), BalancesLeft(w, r, i))
  <2>1. DigestMap' = [x \in DOMAIN DigestMap |->
            IF x[1] = r /\ x[2] \in S
            THEN [DigestMap[x] EXCEPT ![e[x[2]].variant] = EntryWithdrawal(w, r, i, x[2]).balance]
            ELSE DigestMap[x]]
    BY DEF Entries
  <2> HIDE DEF S, e
  <2>2. \A x \in DOMAIN DigestMap : x[2] \in S =>
          [DigestMap[x] EXCEPT ![e[x[2]].variant] = EntryWithdrawal(w, r, i, x[2]).balance]
            = [DigestMap[x] EXCEPT ![Variants(r, i)[x[2]]] = BalancesLeft(w, r, i)[x[2]]]
    BY <1>1
  <2> QED  BY <2>1, <2>2 DEF PutAll
<1>3. ASSUME NEW d \in S
      PROVE  /\ d \in Digests /\ <<r, d>> \in DOMAIN DigestMap
             /\ Variants(r, i)[d] \in Positions
             /\ BalancesLeft(w, r, i)[d] \in Balances /\ SoundBalance(BalancesLeft(w, r, i)[d])
             /\ TakenAway(w, r, i)[d] = BalancesLeft(w, r, i)[d].effective
                                          - DigestMap[<<r, d>>][Variants(r, i)[d]].effective
             /\ BalancesLeft(w, r, i)[d].issued
                  = DigestMap[<<r, d>>][Variants(r, i)[d]].issued + SharesAway(w, r, i)[d]
  <2>1. /\ BalancesLeft(w, r, i)[d] = Withdrawals(w, r, i)[d].balance
        /\ TakenAway(w, r, i)[d] = 0 - Withdrawals(w, r, i)[d].taken
        /\ SharesAway(w, r, i)[d] = 0 - Shares(EntryMap[<<r, i, d, w>>])
    BY DEF BalancesLeft, TakenAway, SharesAway
  <2> DEFINE z == Withdrawals(w, r, i)[d]
             b == EntryBalance(r, i, d)
             n == Shares(EntryMap[<<r, i, d, w>>])
  <2>2. /\ d \in Digests /\ e[d].variant \in Positions
        /\ z.balance \in Balances /\ SoundBalance(z.balance)
        /\ z.taken \in Nat /\ n \in Nat
        /\ z.balance.effective = b.effective - z.taken
        /\ z.balance.issued = b.issued - n
    BY <1>1 DEF EntryResolved
  <2>3. b.effective \in Nat /\ b.issued \in Nat /\ DigestMap[<<r, d>>][Variants(r, i)[d]] = b
        /\ Variants(r, i)[d] = e[d].variant /\ <<r, d>> \in DOMAIN DigestMap
    BY <1>1 DEF digest_exists
  <2>4. BalancesLeft(w, r, i)[d] = z.balance /\ TakenAway(w, r, i)[d] = 0 - z.taken
        /\ SharesAway(w, r, i)[d] = 0 - n
    BY <2>1
  <2> HIDE DEF z, b, n, e, S
  <2> QED  BY <2>2, <2>3, <2>4
<1> QED  BY <1>1, <1>2, <1>3 DEF Puts, Entries

LEMMA PrincipalsOfOne ==
    ASSUME EntryTypes, EntryTypes', NEW w \in Who, NEW r \in Reasons, NEW i \in Indexes,
           NEW S, NEW sh, NEW pr, EntriesMove(w, r, i, S, sh, pr)
    PROVE  /\ SumFunctionOnSet(pr, S) \in Int
           /\ PrincipalsOver({y \in DOMAIN EntryMap : y[1] = r /\ y[4] = w}) \in Int
           /\ PrincipalsOver({y \in DOMAIN EntryMap : y[1] = r /\ y[4] = w})'
                = PrincipalsOver({y \in DOMAIN EntryMap : y[1] = r /\ y[4] = w})
                     + SumFunctionOnSet(pr, S)
<1>1. /\ SumFunctionOnSet(pr, S) \in Int
      /\ \A s \in Reasons, z \in Who :
            /\ PrincipalsOver({y \in DOMAIN EntryMap : y[1] = s /\ y[4] = z}) \in Int
            /\ PrincipalsOver({y \in DOMAIN EntryMap : y[1] = s /\ y[4] = z})'
                 = PrincipalsOver({y \in DOMAIN EntryMap : y[1] = s /\ y[4] = z})
                      + (IF s = r /\ z = w THEN SumFunctionOnSet(pr, S) ELSE 0)
  BY PrincipalsTotals
<1> QED  BY <1>1

\* What was frozen is what the entries took.
LEMMA FrozenInEntries ==
    ASSUME IndexInv, NEW w \in Who, NEW r \in Reasons, NEW i \in Indexes,
           commit_exists(w, r), CommitMap[<<w, r>>].digest = i,
           EntryTypes, EntryTypes', NEW S, NEW sh, NEW pr, EntriesMove(w, r, i, S, sh, pr),
           \A x \in DOMAIN EntryMap' : <<x[1], x[2], x[4]>> # <<r, i, w>>,
           \A x \in DOMAIN EntryMap' : x \in DOMAIN EntryMap
    PROVE  frozen[<<w, r>>] + SumFunctionOnSet(pr, S) = 0
<1>1. frozen[<<w, r>>] = DepositOf(w, r) + PrincipalsOver({y \in DOMAIN EntryMap : y[1] = r /\ y[4] = w})
  BY DEF IndexInv, Books, IndexFrozen
<1>2. DepositOf(w, r) = 0
  <2>1. StoredTypes(Ids) /\ EntriesCount /\ CommitsTo(w, r, i)
    BY DEF IndexInv, Ids, CommitsTo
  <2> QED  BY <2>1, NothingOwned
<1>4. PrincipalsOver({y \in DOMAIN EntryMap : y[1] = r /\ y[4] = w})' = 0
  <2>1. \A x \in DOMAIN EntryMap' : ~ (x[1] = r /\ x[4] = w)
    <3> SUFFICES ASSUME NEW x \in DOMAIN EntryMap', x[1] = r, x[4] = w  PROVE FALSE
      OBVIOUS
    <3>1. x \in DOMAIN EntryMap
      OBVIOUS
    <3>2. x[2] = i
      BY <3>1 DEF IndexInv, EntriesAccounted, EntriesOwned
    <3> QED  BY <3>2
  <2>2. {y \in DOMAIN EntryMap' : y[1] = r /\ y[4] = w} = {}
    BY <2>1
  <2>3. PrincipalsOver({})' = 0
    <3>1. DOMAIN [x \in {} |-> Principals(EntryMap'[x])] = {}
      OBVIOUS
    <3> QED  BY <3>1, SumNothing DEF PrincipalsOver
  <2>4. PrincipalsOver({y \in DOMAIN EntryMap : y[1] = r /\ y[4] = w})' = PrincipalsOver({})'
    BY <2>2, Zenon DEF PrincipalsOver
  <2> QED  BY <2>3, <2>4
<1>5. /\ PrincipalsOver({y \in DOMAIN EntryMap : y[1] = r /\ y[4] = w}) \in Int
      /\ PrincipalsOver({y \in DOMAIN EntryMap : y[1] = r /\ y[4] = w})'
           = PrincipalsOver({y \in DOMAIN EntryMap : y[1] = r /\ y[4] = w}) + SumFunctionOnSet(pr, S)
      /\ SumFunctionOnSet(pr, S) \in Int
  BY PrincipalsOfOne
<1> QED  BY <1>1, <1>2, <1>4, <1>5

LEMMA ResolveIndexKeeps ==
    ASSUME IndexInv, NEW w \in Who, NEW r \in Reasons, ResolveIndexCommit(w, r)
    PROVE  IndexInv'
<1> DEFINE i == CommitMap[<<w, r>>].digest
           given == IndexGiven(w, r, i)
           taken == IndexTaken(w, r, i)
           S == DOMAIN Entries(r, i)
           vf == Variants(r, i)
           nb == BalancesLeft(w, r, i)
           sh == SharesAway(w, r, i)
           pr == GivenAway(w, r, i)
           k == TakenAway(w, r, i)
<1>1. /\ commit_exists(w, r) /\ index_exists(r, i) /\ withdraws_from_index(w, r, i)
      /\ given <= IndexMap[<<r, i>>].principal
      /\ resolve_succeeds(free[w], given, taken) /\ taken <= ReasonValue[r]
      /\ EntryMap' = [x \in {y \in DOMAIN EntryMap : <<y[1], y[2], y[4]>> # <<r, i, w>>} |-> EntryMap[x]]
      /\ IndexMap' = [IndexMap EXCEPT ![<<r, i>>].principal = @ - given]
      /\ free' = [free EXCEPT ![w] = @ + taken]
      /\ resolve_imbalance(given, taken)
      /\ ReasonValue' = [ReasonValue EXCEPT ![r] = @ - taken]
      /\ CommitMap' = Delete(CommitMap, <<w, r>>)
      /\ frozen' = [frozen EXCEPT ![<<w, r>>] = 0]
      /\ UNCHANGED <<hold, adjusted>>
  BY DEF ResolveIndexCommit, principal_after
<1>2. DigestMap' = [x \in DOMAIN DigestMap |->
            IF x[1] = r /\ x[2] \in DOMAIN IndexMap[<<r, i>>].entries
            THEN [DigestMap[x] EXCEPT ![IndexMap[<<r, i>>].entries[x[2]].variant] =
                     EntryWithdrawal(w, r, i, x[2]).balance]
            ELSE DigestMap[x]]
  BY DEF ResolveIndexCommit
<1>3. i \in Indexes
  BY <1>1 DEF IndexInv, IndexTypeOK, index_exists
<1>0. StoredTypes(Ids) /\ IndexTypeOK
  BY DEF IndexInv, Ids
<1> HIDE DEF i
<1>4. /\ DigestMap' = PutAll(DigestMap, r, S, vf, nb)
      /\ Puts(DigestMap, r, S, vf, nb, k)
      /\ \A d \in S : /\ vf[d] = IndexMap[<<r, i>>].entries[d].variant
                      /\ nb[d].issued = DigestMap[<<r, d>>][vf[d]].issued + sh[d]
  BY <1>1, <1>2, <1>3, EntriesLeft
<1>5. /\ EntriesMove(w, r, i, S, sh, pr)
      /\ DOMAIN EntryMap' \subseteq Keys
      /\ \A d : <<r, i, d, w>> \notin DOMAIN EntryMap'
      /\ EntryTypes /\ EntryTypes'
  BY <1>1, <1>3, EntriesGone
<1>6. /\ given \in Nat /\ taken \in Nat
      /\ SumFunctionOnSet(pr, S) = 0 - given /\ SumFunctionOnSet(k, S) = 0 - taken
  BY <1>1, <1>3, ResolvedTotals
<1>7. S \subseteq DOMAIN IndexMap[<<r, i>>].entries
  BY DEF Entries
<1> HIDE DEF given, taken, S, vf, nb, sh, pr, k
<1>8. frozen[<<w, r>>] + SumFunctionOnSet(pr, S) = 0
  <2>1. commit_exists(w, r) /\ CommitMap[<<w, r>>].digest = i
    BY <1>1 DEF i
  <2>2. /\ \A x \in DOMAIN EntryMap' : <<x[1], x[2], x[4]>> # <<r, i, w>>
        /\ \A x \in DOMAIN EntryMap' : x \in DOMAIN EntryMap
    BY <1>1
  <2> QED  BY <1>3, <1>5, <2>1, <2>2, FrozenInEntries
<1>9. /\ frozen[<<w, r>>] + SumFunctionOnSet(pr, S) \in Assets
      /\ frozen' = [frozen EXCEPT ![<<w, r>>] = @ + SumFunctionOnSet(pr, S)]
  <2>1. 0 \in Assets
    BY ShareBalanceAssumption DEF Assets
  <2> QED  BY <1>1, <1>8, <2>1
<1>10. /\ IndexMap[<<r, i>>].principal + SumFunctionOnSet(pr, S) \in Assets
       /\ IndexMap' = [IndexMap EXCEPT ![<<r, i>>].principal = @ + SumFunctionOnSet(pr, S)]
  <2>1. IndexMap[<<r, i>>].principal \in Assets
    BY <1>1, <1>3, EntriesOf
  <2> DEFINE p == IndexMap[<<r, i>>].principal
  <2>2. p \in Nat /\ p <= MaxAsset /\ MaxAsset \in Nat
    BY <2>1, ShareBalanceAssumption DEF Assets
  <2>3. IndexMap' = [IndexMap EXCEPT ![<<r, i>>].principal = p - given]
    BY <1>1
  <2>4. p - given \in Assets /\ p - given = p + SumFunctionOnSet(pr, S)
    <3>1. given <= p
      BY <1>1
    <3> HIDE DEF p
    <3> QED  BY <1>6, <2>2, <3>1 DEF Assets
  <2> QED  BY <2>3, <2>4
<1>11. /\ ReasonValue[r] + SumFunctionOnSet(k, S) \in Assets
       /\ ReasonValue' = [ReasonValue EXCEPT ![r] = @ + SumFunctionOnSet(k, S)]
  <2> DEFINE p == ReasonValue[r]
  <2>2. p \in Nat /\ p <= MaxAsset /\ MaxAsset \in Nat
    BY <1>0, ShareBalanceAssumption DEF Assets, StoredTypes
  <2>3. ReasonValue' = [ReasonValue EXCEPT ![r] = p - taken]
    BY <1>1
  <2>4. p - taken \in Assets /\ p - taken = p + SumFunctionOnSet(k, S)
    <3>1. taken <= p
      BY <1>1
    <3> HIDE DEF p
    <3> QED  BY <1>6, <2>2, <3>1 DEF Assets
  <2> QED  BY <2>3, <2>4
<1>12. PICK o : CoreTypes(o)
  BY <1>0, SharedCore DEF Ids
<1>13. /\ free' \in [Who -> Assets] /\ \A y \in Who \ {w} : free'[y] = free[y]
       /\ hold' \in [Who -> Assets] /\ \A y \in Who \ {w} : hold'[y] = hold[y]
       /\ free'[w] + hold'[w] + SumFunctionOnSet(k, S) = free[w] + hold[w]
  <2> DEFINE f == free[w]
             h == hold[w]
  <2>1. f \in Nat /\ h \in Nat /\ hold \in [Who -> Assets] /\ hold' = hold
    BY <1>0, <1>1, ShareBalanceAssumption DEF Assets, StoredTypes
  <2>2. f + taken \in Assets
    <3>1. f + taken <= MaxAsset
      BY <1>1 DEF resolve_succeeds
    <3> HIDE DEF f
    <3> QED  BY <1>6, <2>1, <3>1, ShareBalanceAssumption DEF Assets
  <2>3. free' \in [Who -> Assets] /\ (\A y \in Who \ {w} : free'[y] = free[y]) /\ free'[w] = f + taken
    BY <1>0, <1>1, <2>2 DEF StoredTypes
  <2> HIDE DEF f
  <2>4. free'[w] + hold'[w] + SumFunctionOnSet(k, S) = f + h
    <3> HIDE DEF h
    <3>1. hold'[w] = h
      BY <2>1 DEF h
    <3> QED  BY <1>6, <2>1, <2>3, <3>1
  <2> QED  BY <2>1, <2>3, <2>4 DEF f
<1>14. AssetToIssue' \in Assets /\ AssetToReap' \in Assets /\ UNCHANGED adjusted
  BY <1>1, <1>6, <1>12, ImbalanceSound
<1>15. OthersKeep(w, r) /\ ~ commit_exists(w, r)' /\ CommitsTo(w, r, i)
  BY <1>1, DeleteKeeps DEF CommitsTo, i
<1>16. DOMAIN CommitMap' \subseteq Who \X Reasons
  BY <1>0, <1>1 DEF Delete, StoredTypes
<1>17. \A d \in S : <<r, i, d, w>> \in DOMAIN EntryMap' =>
          /\ EntryMap'[<<r, i, d, w>>] \in Seq(Receipts)
          /\ Len(EntryMap'[<<r, i, d, w>>]) \in 1 .. MaxCommits
          /\ \A n \in DOMAIN EntryMap'[<<r, i, d, w>>] : EntryMap'[<<r, i, d, w>>][n].shares # 0
  BY <1>5
<1>18. \A d : <<r, i, d, w>> \in DOMAIN EntryMap' => commit_exists(w, r)'
  BY <1>5
<1>19. IndexMoves(w, r, i, S, vf, nb, sh, pr, k)
  BY <1>1, <1>4, <1>5, <1>7, <1>9, <1>10, <1>11, <1>13, <1>14, <1>15, <1>16, <1>17, <1>18, Zenon
      DEF IndexMoves
<1> QED  BY <1>3, <1>19, IndexMovesKeep

-----------------------------------------------------------------------------
(* The theorems about indexes *)

LEMMA SharedStart ==
    ASSUME Init, NEW ids, Digests \subseteq ids
    PROVE  Shared(ids) /\ Seen(NoShares, NoneFrozen)
<1> DEFINE o == [ids |-> ids, shares |-> NoShares, frozen |-> NoneFrozen, gap |-> 0]
<1>1. o.ids = ids /\ o.shares = NoShares /\ o.frozen = NoneFrozen /\ o.gap = 0
  OBVIOUS
<1> HIDE DEF o
<1>2. Alone(o)
  BY <1>1 DEF Alone, NoShares, NoneFrozen
<1>3. CoreInv(o)
  BY <1>2, InitInv
<1>4. CoreTypes(o) /\ CoreHeld(o) /\ CoreBooks(o) /\ BalancesSound /\ DirectCount
  BY <1>3 DEF CoreInv
<1>5. StoredTypes(ids) /\ OthersTyped(o)
  BY <1>1, <1>4 DEF CoreTypes, StoredTypes, CoreInfos
<1>6. DirectBacked
  BY <1>4 DEF CoreHeld, DirectCount, DirectBacked
<1>7. Seen(NoShares, NoneFrozen)
  BY <1>1, <1>4, <1>5 DEF Seen, CoreHeld, CoreBooks, CoreFrozen, OthersTyped
<1> QED  BY <1>4, <1>5, <1>6, <1>7 DEF Shared, CoreBooks

LEMMA IndexStart ==
    ASSUME IndexInit
    PROVE  IndexInv
<1>1. DOMAIN IndexMap = {} /\ DOMAIN EntryMap = {} /\ DOMAIN CommitMap = {} /\ Init
  BY DEF IndexInit, Init, EmptyMap
<1>2. Shared(Ids) /\ Seen(NoShares, NoneFrozen)
  BY <1>1, SharedStart DEF Ids
<1>3. IndexTypeOK
  BY <1>1, <1>2 DEF IndexTypeOK, Shared, StoredTypes
<1>4. EntriesCount /\ EntriesOwned /\ IndexPrincipals
  BY <1>1 DEF EntriesCount, EntriesOwned, IndexPrincipals
<1>5. IndexFrozen
  <2>1. ASSUME NEW w \in Who, NEW r \in Reasons
        PROVE  frozen[<<w, r>>] = DepositOf(w, r)
                 + PrincipalsOver({y \in DOMAIN EntryMap : y[1] = r /\ y[4] = w})
    <3>1. {y \in DOMAIN EntryMap : y[1] = r /\ y[4] = w} = {}
      BY <1>1
    <3>2. frozen[<<w, r>>] = DepositOf(w, r) + 0
      BY <1>2 DEF Seen, NoneFrozen
    <3> QED  BY <3>1, <3>2, PrincipalsOfNone
  <2> QED  BY <2>1 DEF IndexFrozen
<1>6. IndexReceiptsHoldShares
  <2>1. ASSUME NEW r \in Reasons, NEW d \in Digests, NEW v \in Positions
        PROVE  DigestInfo(r, d)[v].issued = SharesIn(r, d, v) + EntrySharesIn(r, d, v)
    <3>1. DigestInfo(r, d)[v].issued = SharesIn(r, d, v) + 0
      BY <1>2 DEF Seen, NoShares
    <3>2. EntrySharesIn(r, d, v) = 0
      <4> DEFINE mine == {x \in DOMAIN EntryMap :
                             /\ x[1] = r /\ x[3] = d
                             /\ IndexMap[<<r, x[2]>>].entries[d].variant = v}
                 f == [x \in mine |-> SumFunction([n \in DOMAIN EntryMap[x] |-> EntryMap[x][n].shares])]
      <4>1. EntrySharesIn(r, d, v) = SumFunction(f) /\ DOMAIN f = {}
        BY <1>1 DEF EntrySharesIn
      <4> HIDE DEF f
      <4> QED  BY <4>1, SumNothing
    <3> QED  BY <3>1, <3>2
  <2> QED  BY <2>1 DEF IndexReceiptsHoldShares
<1> QED  BY <1>2, <1>3, <1>4, <1>5, <1>6 DEF IndexInv, Shared, Ids, Books, EntriesAccounted

LEMMA IndexStepInv ==
    ASSUME IndexInv, [IndexNext]_<<vars, indexVars>>
    PROVE  IndexInv'
<1>1. CASE Next /\ UNCHANGED indexVars
  BY <1>1, DirectKeepsIndexes
<1>2. CASE UNCHANGED <<vars, indexVars>>
  BY <1>2, DirectKeepsIndexes
<1>3. ASSUME NEW r \in Reasons, NEW i \in Indexes, NEW D \in SUBSET Digests,
             NEW entries \in [D -> [shares : ShareValues, variant : Positions]], SetIndex(r, i, entries)
      PROVE  IndexInv'
  BY <1>3, SetIndexKeeps
<1>4. ASSUME NEW r \in Reasons, NEW i \in Indexes, NEW j \in Indexes, NEW d \in Digests,
             RemoveIndexEntry(r, i, j, d)
      PROVE  IndexInv'
  BY <1>4, RemoveEntryKeeps
<1>5. ASSUME NEW r \in Reasons, NEW i \in Indexes, NEW j \in Indexes, NEW d \in Digests,
             NEW s \in ShareValues, NEW v \in Positions,
             SetIndexEntry(r, i, j, d, [shares |-> s, variant |-> v])
      PROVE  IndexInv'
  BY <1>5, SetEntryKeeps
<1>6. ASSUME NEW r \in Reasons, NEW i \in Indexes, ReapIndex(r, i)
      PROVE  IndexInv'
  BY <1>6, ReapIndexKeeps
<1>7. ASSUME NEW r \in Reasons, NEW i \in Indexes, NEW w \in Who, NEW v \in Positions,
             NEW x \in Amounts, NEW p \in Policies, PlaceIndexCommit(w, r, i, v, x, p)
      PROVE  IndexInv'
  BY <1>7, PlaceIndexKeeps
<1>8. ASSUME NEW w \in Who, NEW r \in Reasons, ResolveIndexCommit(w, r)
      PROVE  IndexInv'
  BY <1>8, ResolveIndexKeeps
<1>9. ASSUME NEW w \in Who, NEW r \in Reasons, NEW x \in Amounts, NEW p \in Policies,
             RaiseIndexCommit(w, r, x, p)
      PROVE  IndexInv'
  BY <1>9, RaiseIndexKeeps
<1> QED  BY <1>1, <1>2, <1>3, <1>4, <1>5, <1>6, <1>7, <1>8, <1>9 DEF IndexNext, IndexStep

\* The invariant of indexes beside direct commitments is inductive: set_index to
\* remove_index_entry, reap_index, and every call that commits to an index or
\* comes back from one, keep it, and so does every call about a direct commitment.
THEOREM IndexInductive == IndexSpec => []IndexInv
<1>1. IndexInit => IndexInv
  BY IndexStart
<1>2. IndexInv /\ [IndexNext]_<<vars, indexVars>> => IndexInv'
  BY IndexStepInv
<1> QED  BY <1>1, <1>2, PTL DEF IndexSpec

\* place_commit, raise_commit and resolve_commit of an index round in every entry:
\* what the digests of a reason are worth is still what is frozen for it, directly
\* or through indexes, corrected by AssetToIssue and AssetToReap.
THEOREM IndexBooksBalance == IndexSpec => []Books
<1>1. IndexInv => Books
  BY DEF IndexInv
<1> QED  BY <1>1, IndexInductive, PTL

\* deposit_to_index and withdraw_from_index orphan nothing: receipts in EntryMap
\* belong to a commitment to their index, and its principal is what they paid.
THEOREM IndexEntriesAccounted == IndexSpec => []EntriesAccounted
<1>1. IndexInv => EntriesAccounted
  BY DEF IndexInv
<1> QED  BY <1>1, IndexInductive, PTL

\* The shares a digest has issued are those of the receipts in direct commitments
\* and in the entries of all indexes: neither redeems the other's shares.
THEOREM IndexSharesAreHeld == IndexSpec => []IndexReceiptsHoldShares
<1>1. IndexInv => IndexReceiptsHoldShares
  BY DEF IndexInv
<1> QED  BY <1>1, IndexInductive, PTL

-----------------------------------------------------------------------------
(* What indexes quote *)

\* Whoever resolves an index is quoted, and gets at least the quote.
LEMMA IndexPaidAsQuoted ==
    ASSUME IndexInv, NEW w \in Who, NEW r \in Reasons, NEW i \in Indexes, index_exists(r, i),
           withdraws_from_index(w, r, i)
    PROVE  index_quoted(w, r, i) /\ IndexTaken(w, r, i) >= index_commit_value(w, r, i)
<1> DEFINE S == DOMAIN Entries(r, i)
           taken == [d \in S |-> EntryWithdrawal(w, r, i, d).taken]
           value == [d \in S |-> index_entry_commit_value(w, r, i, d)]
<1>1. ASSUME NEW d \in S
      PROVE  /\ entry_quoted(w, r, i, d)
             /\ taken[d] \in Nat /\ value[d] \in Nat /\ value[d] <= taken[d]
  <2> DEFINE b == EntryBalance(r, i, d)
             s == EntryMap[<<r, i, d, w>>]
  <2>1. /\ <<r, i, d, w>> \in DOMAIN EntryMap /\ digest_exists(r, d)
        /\ EntryWithdrawal(w, r, i, d).ok
    BY DEF withdraws_from_index, Entries
  <2>2. EntryWithdrawal(w, r, i, d) = withdraw_from_digest(b, s)
    BY DEF EntryWithdrawal, EntryBalance
  <2>3. b \in Balances /\ SoundBalance(b)
    BY <2>1, EntryBacked
  <2>4. s \in Seq(Receipts)
    BY <2>1 DEF IndexInv, IndexTypeOK
  <2>5. taken[d] = withdraw_from_digest(b, s).taken /\ value[d] = quote(b, s)
    BY <2>2 DEF index_entry_commit_value
  <2>6. entry_quoted(w, r, i, d) <=> quoted(b, s)
    BY <2>1 DEF entry_quoted
  <2>7. withdraw_from_digest(b, s).ok
    BY <2>1, <2>2
  <2> HIDE DEF b, s, taken, value
  <2>8. quoted(b, s)
    BY <2>3, <2>4, <2>7, WithdrawnQuoted
  <2>9. quote(b, s) \in Nat
    BY <2>3, <2>4, <2>8, QuoteBound
  <2>10. withdraw_from_digest(b, s).taken \in Nat
    BY <2>3, <2>4, <2>7, Withdrawn DEF Progress
  <2>11. quote(b, s) <= withdraw_from_digest(b, s).taken
    BY <2>3, <2>4, <2>7, QuoteIsPaid
  <2> QED  BY <2>5, <2>6, <2>8, <2>9, <2>10, <2>11
<1>2. index_quoted(w, r, i)
  BY <1>1 DEF index_quoted, Entries
<1>3. /\ IndexTaken(w, r, i) = SumFunctionOnSet(taken, S)
      /\ index_commit_value(w, r, i) = SumFunctionOnSet(value, S)
  BY DEF IndexTaken, index_commit_value, SumFunction, Entries
<1>4. IsFiniteSet(S)
  BY EntriesOf DEF Entries
<1> HIDE DEF S, taken, value
<1>5. SumFunctionOnSet(value, S) <= SumFunctionOnSet(taken, S)
  BY <1>1, <1>4, SumCompare
<1>6. SumFunctionOnSet(value, S) \in Int /\ SumFunctionOnSet(taken, S) \in Int
  BY <1>1, <1>4, SumTyped
<1> QED  BY <1>2, <1>3, <1>5, <1>6

LEMMA DirectClaims ==
    ASSUME IndexInv, NEW r \in Reasons, NEW d \in Digests, digest_exists(r, d),
           DirectQuoted(r, d), NEW v \in Positions
    PROVE  /\ \A w \in DirectIn(r, d, v) : DirectWorth(r)[w] \in Nat
           /\ Covered(SumFunctionOnSet(DirectWorth(r), DirectIn(r, d, v)), SharesIn(r, d, v),
                      DigestMap[<<r, d>>][v])
<1> DEFINE b == DigestMap[<<r, d>>][v]
           A == DirectIn(r, d, v)
           f == DirectWorth(r)
           s == [w \in Who |-> SharesOf(w, r, d, v)]
<1>1. b \in Balances /\ SoundBalance(b) /\ b.issued \in Nat /\ b.effective \in Nat
  <2>1. MapSound(DigestMap)
    BY DigestMapSound DEF IndexInv
  <2>2. b \in Balances /\ SoundBalance(b)
    BY <2>1 DEF MapSound, digest_exists
  <2> HIDE DEF b
  <2> QED  BY <2>2, ShareBalanceAssumption DEF Balances
<1>2. ASSUME NEW w \in A
      PROVE  /\ w \in Who /\ f[w] \in Nat /\ s[w] \in Nat
             /\ f[w] * b.issued <= s[w] * b.effective
             /\ b.issued = 0 => f[w] = 0
  <2> DEFINE c == CommitMap[<<w, r>>].commits
  <2>1. /\ w \in Who /\ commit_exists(w, r) /\ CommitMap[<<w, r>>].digest = d
        /\ CommitMap[<<w, r>>].variant = v /\ w \in Direct(r, d)
    BY DEF DirectIn, Direct
  <2>2. c \in Seq(Receipts)
    BY <2>1 DEF IndexInv, StoredTypes, commit_exists
  <2>3. quoted(b, c)
    BY <2>1 DEF DirectQuoted
  <2>4. f[w] = quote(b, c) /\ s[w] = Shares(c)
    BY <2>1 DEF DirectWorth, CommitValue, SharesOf
  <2> HIDE DEF c, b, f, s
  <2>5. Shares(c) \in Nat
    BY <2>2, ReceiptSums
  <2>6. /\ quote(b, c) \in Nat /\ quote(b, c) * b.issued <= Shares(c) * b.effective
        /\ b.issued = 0 => quote(b, c) = 0
    BY <1>1, <2>2, <2>3, QuoteBound
  <2> QED  BY <2>1, <2>4, <2>5, <2>6
<1>3. \A w \in Who \ A : s[w] = 0
  BY DEF DirectIn, Direct, SharesOf
<1>4. SharesIn(r, d, v) = SumFunctionOnSet(s, Who)
  BY DEF SharesIn, SumFunction
<1>5. A \in SUBSET Who /\ IsFiniteSet(A)
  <2>1. A \in SUBSET Who
    BY DEF DirectIn, Direct
  <2> QED  BY <2>1, FiniteAssumption, FS_Subset
<1> HIDE DEF A, f, s, b
<1>6. SumFunctionOnSet(s, Who) = SumFunctionOnSet(s, A)
  <2>1. \A w \in A : s[w] \in Int /\ s[w] = s[w]
    BY <1>2
  <2> QED  BY <1>3, <1>5, <2>1, FiniteAssumption, SumZeroOutside
<1>7. Backs(f, s, A, b)
  BY <1>2, <1>5 DEF Backs
<1>8. /\ SumFunctionOnSet(f, A) \in Nat /\ SumFunctionOnSet(s, A) \in Nat
      /\ SumFunctionOnSet(f, A) * b.issued <= SumFunctionOnSet(s, A) * b.effective
      /\ b.issued = 0 => SumFunctionOnSet(f, A) = 0
  BY <1>1, <1>7, BackedSum
<1> QED  BY <1>2, <1>4, <1>6, <1>8 DEF Covered, A, f, b

\* The key of an entry says whose it is.
LEMMA KeyOf ==
    ASSUME IndexInv, NEW r \in Reasons, NEW d \in Digests, NEW x \in KeysOf(r, d)
    PROVE  /\ x = <<r, x[2], d, x[4]>> /\ x[2] \in Naming(r, d) /\ x[4] \in EntryHolders(r, x[2], d)
           /\ EntryMap[x] \in Seq(Receipts)
<1>1. x \in DOMAIN EntryMap /\ x[1] = r /\ x[3] = d
  BY DEF KeysOf
<1>2. x \in Reasons \X Indexes \X Digests \X Who /\ EntryMap[x] \in Seq(Receipts)
  BY <1>1 DEF IndexInv, IndexTypeOK
<1>3. x = <<r, x[2], d, x[4]>> /\ x[2] \in Indexes /\ x[4] \in Who
  BY <1>1, <1>2
<1>4. index_exists(r, x[2]) /\ d \in DOMAIN IndexMap[<<r, x[2]>>].entries
  BY <1>1 DEF IndexInv, EntriesAccounted, EntriesOwned
<1> QED  BY <1>1, <1>2, <1>3, <1>4 DEF Naming, EntryHolders

LEMMA EntryClaims ==
    ASSUME IndexInv, NEW r \in Reasons, NEW d \in Digests, digest_exists(r, d),
           EntriesQuoted(r, d)
    PROVE  /\ \A x \in KeysOf(r, d) : EntryWorth(r, d)[x] \in Nat
           /\ \A v \in Positions :
                 Covered(SumFunctionOnSet(EntryWorth(r, d), KeysIn(r, d, v)),
                         EntrySharesIn(r, d, v), DigestMap[<<r, d>>][v])
<1> DEFINE f == EntryWorth(r, d)
           s == [x \in KeysOf(r, d) |-> Shares(EntryMap[x])]
<1>1. ASSUME NEW x \in KeysOf(r, d)
      PROVE  /\ f[x] \in Nat /\ s[x] \in Nat
             /\ f[x] * EntryBalance(r, x[2], d).issued <= s[x] * EntryBalance(r, x[2], d).effective
             /\ EntryBalance(r, x[2], d).issued = 0 => f[x] = 0
  <2> DEFINE i == x[2]
             b == EntryBalance(r, i, d)
             c == EntryMap[x]
  <2>1. /\ x = <<r, i, d, x[4]>> /\ i \in Naming(r, d) /\ x[4] \in EntryHolders(r, i, d)
        /\ c \in Seq(Receipts)
    BY KeyOf
  <2>2. i \in Indexes /\ index_exists(r, i) /\ d \in DOMAIN Entries(r, i)
    BY <2>1 DEF Naming, Entries
  <2> HIDE DEF i
  <2>3. b \in Balances /\ SoundBalance(b)
    BY <2>2, EntryBacked
  <2>4. quoted(b, c)
    <3>1. entry_quoted(x[4], r, i, d)
      BY <2>1 DEF EntriesQuoted
    <3>2. quoted(b, EntryMap[<<r, i, d, x[4]>>])
      BY <3>1 DEF entry_quoted
    <3> QED  BY <2>1, <3>2
  <2>5. f[x] = quote(b, c) /\ s[x] = Shares(c)
    BY DEF EntryWorth, i
  <2> HIDE DEF b, c, f, s
  <2>6. Shares(c) \in Nat
    BY <2>1, ReceiptSums
  <2>7. /\ quote(b, c) \in Nat /\ quote(b, c) * b.issued <= Shares(c) * b.effective
        /\ b.issued = 0 => quote(b, c) = 0
    BY <2>1, <2>3, <2>4, QuoteBound
  <2>8. b = EntryBalance(r, x[2], d)
    BY DEF b, i
  <2> QED  BY <2>5, <2>6, <2>7, <2>8
<1>2. ASSUME NEW v \in Positions
      PROVE  Covered(SumFunctionOnSet(f, KeysIn(r, d, v)), EntrySharesIn(r, d, v), DigestMap[<<r, d>>][v])
  <2> DEFINE A == KeysIn(r, d, v)
             b == DigestMap[<<r, d>>][v]
             t == [x \in A |-> Shares(EntryMap[x])]
  <2>1. A \subseteq KeysOf(r, d) /\ \A x \in A : EntryBalance(r, x[2], d) = b
    BY DEF KeysIn, KeysOf, EntryBalance
  <2>2. IsFiniteSet(A)
    <3>1. A \subseteq Keys
      BY DEF IndexInv, IndexTypeOK, Keys, KeysIn
    <3> QED  BY <3>1, KeysFinite, FS_Subset
  <2>3. EntrySharesIn(r, d, v) = SumFunctionOnSet(t, A)
    BY DEF EntrySharesIn, KeysIn, Shares, SumFunction
  <2>4. \A x \in A : t[x] = s[x]
    BY <2>1
  <2>5. b.issued \in Nat /\ b.effective \in Nat
    <3>1. MapSound(DigestMap)
      BY DigestMapSound DEF IndexInv
    <3>2. b \in Balances
      BY <3>1 DEF MapSound, digest_exists
    <3> HIDE DEF b
    <3> QED  BY <3>2, ShareBalanceAssumption DEF Balances
  <2> HIDE DEF A, b, t, f, s
  <2>6. Backs(f, s, A, b)
    BY <1>1, <2>1, <2>2 DEF Backs
  <2>7. /\ SumFunctionOnSet(f, A) \in Nat /\ SumFunctionOnSet(s, A) \in Nat
        /\ SumFunctionOnSet(f, A) * b.issued <= SumFunctionOnSet(s, A) * b.effective
        /\ b.issued = 0 => SumFunctionOnSet(f, A) = 0
    BY <2>5, <2>6, BackedSum
  <2>8. SumFunctionOnSet(t, A) = SumFunctionOnSet(s, A)
    <3>1. \A x \in A : t[x] \in Int
      BY <1>1, <2>1, <2>4
    <3> QED  BY <2>2, <2>4, <3>1, SumCongruent
  <2> QED  BY <2>3, <2>7, <2>8 DEF Covered, A, b
<1> QED  BY <1>1, <1>2

\* What the entries of an index hold of a digest, over the proprietors.
LEMMA EntryValueBound ==
    ASSUME IndexInv, NEW r \in Reasons, NEW d \in Digests, digest_exists(r, d),
           EntriesQuoted(r, d), NEW i \in Naming(r, d)
    PROVE  LET sum == SumFunctionOnSet(EntryWorth(r, d), {x \in KeysOf(r, d) : x[2] = i})
           IN  get_entry_value(r, i, d) \in Nat /\ sum \in Nat /\ get_entry_value(r, i, d) <= sum
<1> DEFINE H == EntryHolders(r, i, d)
           g == [w \in H |-> index_entry_commit_value(w, r, i, d)]
           h == [w \in H |-> <<r, i, d, w>>]
           f == EntryWorth(r, d)
           X == {x \in KeysOf(r, d) : x[2] = i}
<1>1. IsFiniteSet(H)
  <2>1. H \subseteq Who
    BY DEF EntryHolders
  <2> QED  BY <2>1, FiniteAssumption, FS_Subset
<1>2. ASSUME NEW w \in H
      PROVE  h[w] \in X /\ g[w] \in Nat /\ f[h[w]] = g[w]
  <2>1. h[w] = <<r, i, d, w>> /\ h[w] \in KeysOf(r, d) /\ h[w][2] = i
    BY DEF EntryHolders, KeysOf
  <2>2. f[h[w]] = g[w]
    BY <2>1 DEF EntryWorth, index_entry_commit_value
  <2>3. f[h[w]] \in Nat
    BY <2>1, EntryClaims
  <2> QED  BY <2>1, <2>2, <2>3
<1>3. X = {h[w] : w \in H}
  <2>1. ASSUME NEW x \in X  PROVE \E w \in H : x = h[w]
    <3>1. x = <<r, i, d, x[4]>> /\ x[4] \in H
      BY KeyOf
    <3> QED  BY <3>1
  <2> QED  BY <1>2, <2>1
<1>4. \A w, u \in H : h[w] = h[u] => w = u
  BY Zenon DEF h
<1>5. get_entry_value(r, i, d) = Least(SumFunctionOnSet(g, H), MaxAsset)
  BY DEF get_entry_value, SumFunction
<1> HIDE DEF H, g, h, f, X
<1>6. SumFunctionOnSet(f, {h[w] : w \in H}) = SumFunctionOnSet(g, H)
  BY <1>1, <1>2, <1>4, SumReindex
<1>7. SumFunctionOnSet(g, H) \in Nat
  BY <1>1, <1>2, SumTyped
<1>8. SumFunctionOnSet(f, X) = SumFunctionOnSet(g, H)
  BY <1>3, <1>6
<1>9. /\ get_entry_value(r, i, d) \in Nat
      /\ get_entry_value(r, i, d) <= SumFunctionOnSet(g, H)
  BY <1>5, <1>7, ShareBalanceAssumption DEF Least
<1> QED  BY <1>7, <1>8, <1>9 DEF f, X

\* All that is said about a digest adds up to no more than the digest.
LEMMA DigestClaims ==
    ASSUME IndexInv, NEW r \in Reasons, NEW d \in Digests, digest_exists(r, d),
           DirectQuoted(r, d), EntriesQuoted(r, d)
    PROVE  SumFunction([w \in Direct(r, d) |-> CommitValue(w, r)])
             + SumFunction([i \in Naming(r, d) |-> get_entry_value(r, i, d)])
             <= Values(DigestMap[<<r, d>>])
<1> DEFINE info == DigestMap[<<r, d>>]
           f == DirectWorth(r)
           A == Direct(r, d)
           u == [v \in Positions |-> SumFunctionOnSet(f, DirectIn(r, d, v))]
           k == [w \in A |-> CommitMap[<<w, r>>].variant]
           g == EntryWorth(r, d)
           B == KeysOf(r, d)
           y == [v \in Positions |-> SumFunctionOnSet(g, KeysIn(r, d, v))]
           l == [x \in B |-> IndexMap[<<r, x[2]>>].entries[d].variant]
           N == Naming(r, d)
           n == [i \in N |-> SumFunctionOnSet(g, {x \in B : x[2] = i})]
           h == [x \in B |-> x[2]]
           q == [i \in N |-> get_entry_value(r, i, d)]
           e == [v \in Positions |-> TotalValue(info[v])]
<1>1. IsFiniteSet(A) /\ IsFiniteSet(B) /\ IsFiniteSet(N)
  <2>1. A \subseteq Who /\ N \subseteq Indexes
    BY DEF Direct, Naming
  <2>2. B \subseteq Keys
    BY DEF IndexInv, IndexTypeOK, Keys, KeysOf
  <2> QED  BY <2>1, <2>2, KeysFinite, FiniteAssumption, IndexesFinite, FS_Subset
<1>2. ASSUME NEW v \in Positions
      PROVE  /\ \A w \in DirectIn(r, d, v) : f[w] \in Nat
             /\ u[v] \in Nat /\ y[v] \in Nat /\ e[v] \in Nat /\ u[v] + y[v] <= e[v]
  <2>1. /\ \A w \in DirectIn(r, d, v) : f[w] \in Nat
        /\ Covered(u[v], SharesIn(r, d, v), info[v])
    BY DirectClaims
  <2>2. Covered(y[v], EntrySharesIn(r, d, v), info[v])
    BY EntryClaims
  <2>3. info[v] \in Balances
    BY DigestMapSound DEF IndexInv, MapSound, digest_exists
  <2>4. info[v].issued = SharesIn(r, d, v) + EntrySharesIn(r, d, v)
    <3>1. DigestInfo(r, d) = info
      BY DEF DigestInfo
    <3> QED  BY <3>1 DEF IndexInv, IndexReceiptsHoldShares
  <2>5. e[v] = info[v].effective
    BY DEF TotalValue
  <2> HIDE DEF u, y, e, info, f
  <2> QED  BY <2>1, <2>2, <2>3, <2>4, <2>5, CoverAll
<1>3. \A w \in A : k[w] \in Positions /\ w \in DirectIn(r, d, k[w])
  <2> SUFFICES ASSUME NEW w \in A  PROVE k[w] \in Positions /\ w \in DirectIn(r, d, k[w])
    OBVIOUS
  <2>1. commit_exists(w, r) /\ w \in Who
    BY DEF Direct
  <2>2. CommitMap[<<w, r>>].variant \in Positions
    BY <2>1 DEF IndexInv, StoredTypes, commit_exists
  <2> QED  BY <2>2 DEF DirectIn
<1>4. \A v \in Positions : DirectIn(r, d, v) = {w \in A : k[w] = v}
  BY DEF DirectIn
<1>5. \A x \in B : /\ g[x] \in Int /\ l[x] \in Positions /\ h[x] \in N
  <2> SUFFICES ASSUME NEW x \in B  PROVE g[x] \in Int /\ l[x] \in Positions /\ h[x] \in N
    OBVIOUS
  <2>1. g[x] \in Nat
    BY EntryClaims
  <2>2. x[2] \in N
    BY KeyOf
  <2>3. IndexMap[<<r, x[2]>>].entries[d].variant \in Positions
    BY <2>2, EntriesOf DEF Naming
  <2> QED  BY <2>1, <2>2, <2>3
<1>6. \A v \in Positions : KeysIn(r, d, v) = {x \in B : l[x] = v}
  BY DEF KeysIn, KeysOf
<1>7. \A i \in N : {x \in B : x[2] = i} = {x \in B : h[x] = i}
  OBVIOUS
<1>8. \A i \in N : q[i] \in Nat /\ n[i] \in Nat /\ q[i] <= n[i]
  BY EntryValueBound
<1>9. /\ SumFunction([w \in A |-> CommitValue(w, r)]) = SumFunctionOnSet(f, A)
      /\ SumFunction([i \in N |-> get_entry_value(r, i, d)]) = SumFunctionOnSet(q, N)
      /\ Values(info) = SumFunctionOnSet(e, Positions)
  <2>1. SumFunction([w \in A |-> CommitValue(w, r)]) = SumFunctionOnSet(f, A)
    <3> DEFINE z == [w \in A |-> CommitValue(w, r)]
    <3>1. DOMAIN z = A /\ \A w \in A : z[w] = f[w]
      BY DEF DirectWorth, Direct
    <3> HIDE DEF z, f, A
    <3>2. SumFunctionOnSet(z, A) = SumFunctionOnSet(f, A)
      BY <1>1, <3>1, SumCongruent
    <3>3. SumFunction(z) = SumFunctionOnSet(f, A)
      BY <3>1, <3>2 DEF SumFunction
    <3> QED  BY <3>3 DEF z
  <2> QED  BY <2>1 DEF SumFunction, Values
<1>10. /\ \A v \in Positions : u[v] = SumFunctionOnSet(f, DirectIn(r, d, v))
       /\ \A v \in Positions : y[v] = SumFunctionOnSet(g, KeysIn(r, d, v))
       /\ \A i \in N : n[i] = SumFunctionOnSet(g, {x \in B : x[2] = i})
  OBVIOUS
<1> HIDE DEF info, f, A, u, k, g, B, y, l, N, n, h, q, e
<1>11. SumFunctionOnSet(f, A) = SumFunctionOnSet(u, Positions)
  <2>1. \A w \in A : f[w] \in Int /\ k[w] \in Positions
    BY <1>2, <1>3
  <2>2. \A v \in Positions : u[v] = SumFunctionOnSet(f, {w \in A : k[w] = v})
    BY <1>4, <1>10
  <2>3. Fibred(f, A, k, u, Positions)
    BY <1>1, <2>1, <2>2, PositionsFinite DEF Fibred
  <2> QED  BY <2>3, SumFibres
<1>12. SumFunctionOnSet(g, B) = SumFunctionOnSet(y, Positions)
  <2>1. \A v \in Positions : y[v] = SumFunctionOnSet(g, {x \in B : l[x] = v})
    BY <1>6, <1>10
  <2>2. Fibred(g, B, l, y, Positions)
    BY <1>1, <1>5, <2>1, PositionsFinite DEF Fibred
  <2> QED  BY <2>2, SumFibres
<1>13. SumFunctionOnSet(g, B) = SumFunctionOnSet(n, N)
  <2>1. \A i \in N : n[i] = SumFunctionOnSet(g, {x \in B : h[x] = i})
    BY <1>7, <1>10
  <2>2. Fibred(g, B, h, n, N)
    BY <1>1, <1>5, <2>1 DEF Fibred
  <2> QED  BY <2>2, SumFibres
<1>14. /\ SumFunctionOnSet(q, N) <= SumFunctionOnSet(n, N)
       /\ SumFunctionOnSet(q, N) \in Int /\ SumFunctionOnSet(n, N) \in Int
  BY <1>1, <1>8, SumCompare, SumTyped
<1>15. /\ SumFunctionOnSet(u, Positions) + SumFunctionOnSet(y, Positions) <= SumFunctionOnSet(e, Positions)
       /\ SumFunctionOnSet(u, Positions) \in Int /\ SumFunctionOnSet(y, Positions) \in Int
       /\ SumFunctionOnSet(e, Positions) \in Int
  <2> DEFINE z == [v \in Positions |-> 0]
  <2>1. \A v \in Positions : /\ u[v] \in Int /\ y[v] \in Int /\ e[v] \in Int /\ z[v] \in Int
                             /\ 1 * u[v] + 1 * y[v] <= 1 * e[v] + 0 * z[v]
    BY <1>2
  <2> HIDE DEF z
  <2>2. 1 * SumFunctionOnSet(u, Positions) + 1 * SumFunctionOnSet(y, Positions)
          <= 1 * SumFunctionOnSet(e, Positions) + 0 * SumFunctionOnSet(z, Positions)
    BY <2>1, PositionsFinite, SumLinearCompare
  <2>3. /\ SumFunctionOnSet(u, Positions) \in Int /\ SumFunctionOnSet(y, Positions) \in Int
        /\ SumFunctionOnSet(e, Positions) \in Int /\ SumFunctionOnSet(z, Positions) \in Int
    BY <2>1, PositionsFinite, SumTyped
  <2> QED  BY <2>2, <2>3
<1> QED  BY <1>9, <1>11, <1>12, <1>13, <1>14, <1>15 DEF info, A, N

\* Whoever resolves a commitment to an index is paid at least what
\* get_index_commit_value announced, and a digest pays at least the quotes of all
\* receipts held of it, those of direct commitments and of every index together.
THEOREM IndexQuotesAreKept == IndexSpec => []IndexQuotes
<1>1. IndexInv => IndexQuotes
  <2> SUFFICES ASSUME IndexInv  PROVE IndexQuotes
    OBVIOUS
  <2>1. ASSUME NEW x \in DOMAIN CommitMap, index_exists(x[2], CommitMap[x].digest),
               withdraws_from_index(x[1], x[2], CommitMap[x].digest)
        PROVE  /\ index_quoted(x[1], x[2], CommitMap[x].digest)
               /\ IndexTaken(x[1], x[2], CommitMap[x].digest)
                    >= index_commit_value(x[1], x[2], CommitMap[x].digest)
    <3>1. x[1] \in Who /\ x[2] \in Reasons
      BY DEF IndexInv, StoredTypes
    <3>2. CommitMap[x].digest \in Indexes
      BY <2>1 DEF IndexInv, IndexTypeOK, index_exists
    <3> QED  BY <2>1, <3>1, <3>2, IndexPaidAsQuoted
  <2>2. ASSUME NEW y \in DOMAIN DigestMap
        PROVE  LET r == y[1]
                   d == y[2]
               IN  DirectQuoted(r, d) /\ EntriesQuoted(r, d) =>
                     SumFunction([w \in Direct(r, d) |-> CommitValue(w, r)])
                        + SumFunction([i \in Naming(r, d) |-> get_entry_value(r, i, d)])
                        <= Values(DigestMap[y])
    <3>1. y[1] \in Reasons /\ y[2] \in Digests /\ y = <<y[1], y[2]>>
      BY DEF IndexInv, StoredTypes
    <3>2. digest_exists(y[1], y[2])
      BY <3>1 DEF digest_exists
    <3> QED  BY <3>1, <3>2, DigestClaims
  <2>3. \A y \in DOMAIN DigestMap : y = <<y[1], y[2]>>
    BY DEF IndexInv, StoredTypes
  <2> QED  BY <2>1, <2>2, <2>3 DEF IndexQuotes, DirectQuoted, EntriesQuoted, Direct, Naming
<1> QED  BY <1>1, IndexInductive, PTL

-----------------------------------------------------------------------------
(* Pools                                                                   *)
(*                                                                         *)
(* An operation on a pool withdraws all its slots and funds them again, so *)
(* it is two steps about many digests: the first takes out the shares of   *)
(* the slots in use and what they are worth, the second puts in those of   *)
(* the slots that are funded.                                              *)

LEMMA SlotsKind ==
    ASSUME NEW s
    PROVE  /\ s \in PoolSlots => DOMAIN s \subseteq Digests /\ \A d \in DOMAIN s : s[d] \in Slot
           /\ \A D \in SUBSET Digests : s \in [D -> Slot] => s \in PoolSlots
  BY DEF PoolSlots

LEMMA SlotsFit ==
    ASSUME NEW s \in PoolSlots, Entries_valid(s)
    PROVE  /\ DOMAIN s \subseteq Digests /\ IsFiniteSet(DOMAIN s) /\ DOMAIN s # {}
           /\ \A d \in DOMAIN s : /\ s[d] \in Slot /\ s[d].shares \in Nat \ {0}
                                  /\ s[d].variant \in Positions /\ s[d].commit \in Receipts
                                  /\ s[d].commit.shares \in Nat /\ s[d].commit.principal \in Nat
<1>1. DOMAIN s \subseteq Digests /\ \A d \in DOMAIN s : s[d] \in Slot
  BY SlotsKind
<1>2. IsFiniteSet(DOMAIN s)
  BY <1>1, FiniteAssumption, FS_Subset
<1>3. ASSUME NEW c \in Receipts
      PROVE  c.shares \in Nat /\ c.principal \in Nat
  BY ShareBalanceAssumption DEF Receipts
<1>4. ASSUME NEW e \in Slot
      PROVE  e.shares \in Nat \ {0} /\ e.variant \in Positions /\ e.commit \in Receipts
  BY CommitIndexAssumption DEF Slot
<1>5. DOMAIN s # {}
  BY DEF Entries_valid
<1> QED  BY <1>1, <1>2, <1>3, <1>4, <1>5

LEMMA PoolOf ==
    ASSUME PoolCore, NEW r \in Reasons, NEW k \in Pools, pool_exists(r, k)
    PROVE  /\ PoolSound(PoolMap[<<r, k>>])
           /\ PoolManager[<<r, k>>] \in Who
           /\ PoolMap[<<r, k>>].balance \in Balances
           /\ PoolMap[<<r, k>>].commission \in Commissions
           /\ PoolMap[<<r, k>>].slots \in PoolSlots
           /\ Entries_valid(PoolMap[<<r, k>>].slots)
<1>1. PoolSound(PoolMap[<<r, k>>]) /\ PoolManager[<<r, k>>] \in Who
  BY DEF PoolCore, PoolsSound, pool_exists
<1> QED  BY <1>1 DEF PoolSound

LEMMA OneSlotReleased ==
    ASSUME PoolCore, NEW r \in Reasons, NEW p, PoolSound(p), NEW d \in InUse(p), digest_exists(r, d),
           WithdrawSucceeds(SlotBalance(r, p, d), p.slots[d].commit)
    PROVE  SlotReleased(r, p, d)
<1>1. /\ d \in Digests /\ p.slots[d].variant \in Positions /\ p.slots[d].commit \in Receipts
  BY SlotsFit DEF PoolSound, InUse
<1> DEFINE b == SlotBalance(r, p, d)
           c == WithdrawBalance(b, p.slots[d].commit)
           x == WithdrawPaid(b, p.slots[d].commit)
<1>2. b \in Balances /\ SoundBalance(b)
  BY <1>1 DEF PoolCore, Shared, StoredTypes, BalancesSound, digest_exists, SlotBalance
<1>3. b.effective \in Nat /\ b.issued \in Nat
  <2> HIDE DEF b
  <2> QED  BY <1>2, ShareBalanceAssumption DEF Balances
<1>4. /\ c \in Balances /\ SoundBalance(c) /\ x \in 0 .. b.effective
      /\ c.effective = b.effective - x /\ c.issued = b.issued - p.slots[d].commit.shares
  BY <1>1, <1>2, WithdrawSound
<1>5. SlotLeft(r, p)[d] = c /\ SlotPaid(r, p)[d] = x
  BY DEF SlotLeft, SlotPaid
<1>6. x \in Nat
  <2> HIDE DEF b, x
  <2> QED  BY <1>3, <1>4
<1> HIDE DEF b, c, x
<1>7. /\ SlotLeft(r, p)[d] \in Balances /\ SoundBalance(SlotLeft(r, p)[d])
      /\ SlotPaid(r, p)[d] \in Nat
      /\ SlotLeft(r, p)[d].effective = b.effective - SlotPaid(r, p)[d]
      /\ SlotLeft(r, p)[d].issued = b.issued - p.slots[d].commit.shares
  BY <1>4, <1>5, <1>6
<1> QED  BY <1>1, <1>3, <1>7 DEF SlotReleased, b

LEMMA NothingHeld ==
    ASSUME NEW p, PoolSound(p), NEW d, NEW v, d \notin InUse(p) \/ v # p.slots[d].variant
    PROVE  SlotHolds(p.slots, d, v) = 0
<1>1. CASE d \in DOMAIN p.slots /\ v = p.slots[d].variant
  <2>1. p.slots[d].commit = NoReceipt
    BY <1>1 DEF InUse
  <2> QED  BY <2>1 DEF SlotHolds, NoReceipt
<1> QED  BY <1>1 DEF SlotHolds

LEMMA PoolDigests ==
    ASSUME PoolCore
    PROVE  /\ MapSound(DigestMap)
           /\ \A s, d : DigestInfo(s, d) = InfoIn(DigestMap, s, d)
  BY DigestMapSound DEF PoolCore, Shared

LEMMA DigestsReleased ==
    ASSUME PoolCore, NEW r \in Reasons, NEW k \in Pools, pool_exists(r, k), release_succeeds(r, k)
    PROVE  /\ SlotsPay(r, PoolMap[<<r, k>>]) \in Nat
           /\ ReleasedTo(r, PoolMap[<<r, k>>], release_digests(r, k))
<1> DEFINE p == PoolMap[<<r, k>>]
           S == InUse(p)
           M == release_digests(r, k)
<1>1. PoolSound(p)
  BY PoolOf
<1>2. S \subseteq DOMAIN p.slots /\ S \subseteq Digests /\ IsFiniteSet(S)
  BY <1>1, SlotsFit, FS_Subset DEF PoolSound, InUse
<1>3. ASSUME NEW d \in S
      PROVE  SlotReleased(r, p, d)
  <2>1. p.balance # FreshBalance
    BY <1>1 DEF PoolSound
  <2>2. digest_exists(r, d) /\ WithdrawSucceeds(SlotBalance(r, p, d), p.slots[d].commit)
    BY <2>1 DEF release_succeeds
  <2> QED  BY <1>1, <2>2, OneSlotReleased
<1>4. M = PutAll(DigestMap, r, S, SlotVariants(p), SlotLeft(r, p))
  <2>1. ASSUME NEW x \in DOMAIN DigestMap, x[1] = r, x[2] \in S
        PROVE  [DigestMap[x] EXCEPT ![p.slots[x[2]].variant] = WithdrawBalance(@, p.slots[x[2]].commit)]
                 = [DigestMap[x] EXCEPT ![SlotVariants(p)[x[2]]] = SlotLeft(r, p)[x[2]]]
    <3>1. x = <<r, x[2]>>
      BY <2>1 DEF PoolCore, Shared, StoredTypes
    <3>2. SlotVariants(p)[x[2]] = p.slots[x[2]].variant
      BY <1>2, <2>1 DEF SlotVariants
    <3>3. SlotLeft(r, p)[x[2]] = WithdrawBalance(DigestMap[x][p.slots[x[2]].variant], p.slots[x[2]].commit)
      BY <2>1, <3>1 DEF SlotLeft, SlotBalance
    <3> QED  BY <3>2, <3>3
  <2> QED  BY <2>1 DEF release_digests, PutAll
<1>5. Puts(DigestMap, r, S, SlotVariants(p), SlotLeft(r, p), SlotOut(r, p))
  <2> SUFFICES ASSUME NEW d \in S
               PROVE  /\ <<r, d>> \in DOMAIN DigestMap
                      /\ SlotVariants(p)[d] \in Positions
                      /\ SlotLeft(r, p)[d] \in Balances /\ SoundBalance(SlotLeft(r, p)[d])
                      /\ SlotOut(r, p)[d] = SlotLeft(r, p)[d].effective
                                               - DigestMap[<<r, d>>][SlotVariants(p)[d]].effective
    BY <1>2 DEF Puts
  <2>1. SlotReleased(r, p, d)
    BY <1>3
  <2>2. SlotVariants(p)[d] = p.slots[d].variant /\ SlotOut(r, p)[d] = 0 - SlotPaid(r, p)[d]
    BY <1>2 DEF SlotVariants, SlotOut
  <2>3. SlotBalance(r, p, d) = DigestMap[<<r, d>>][SlotVariants(p)[d]]
    BY <2>2 DEF SlotBalance
  <2> HIDE DEF p, S
  <2>4. SlotOut(r, p)[d] = SlotLeft(r, p)[d].effective - SlotBalance(r, p, d).effective
    BY <2>1, <2>2 DEF SlotReleased
  <2> QED  BY <2>1, <2>2, <2>3, <2>4 DEF SlotReleased, digest_exists
<1>6. /\ SumFunctionOnSet(SlotPaid(r, p), S) \in Nat
      /\ SumFunctionOnSet(SlotOut(r, p), S) = 0 - SumFunctionOnSet(SlotPaid(r, p), S)
  <2>1. \A d \in S : SlotPaid(r, p)[d] \in Nat /\ SlotOut(r, p)[d] = 0 - SlotPaid(r, p)[d]
    BY <1>3 DEF SlotReleased, SlotOut
  <2> QED  BY <1>2, <2>1, SumNegated
<1>7. SlotsPay(r, p) = SumFunctionOnSet(SlotPaid(r, p), S)
  BY DEF SlotsPay, SumFunction, SlotPaid
<1>8. MapSound(DigestMap)
  BY PoolDigests
<1>9. MapSound(M) /\ DOMAIN M = DOMAIN DigestMap
  BY <1>4, <1>5, <1>8, PutAllSound
<1>10. ASSUME NEW s \in Reasons, NEW d \in Digests, NEW v \in Positions
       PROVE  InfoIn(M, s, d)[v].issued = InfoIn(DigestMap, s, d)[v].issued
                                             - (IF s = r THEN SlotHolds(p.slots, d, v) ELSE 0)
  <2>1. InfoIn(M, s, d)[v] = IF s = r /\ d \in S /\ v = SlotVariants(p)[d] THEN SlotLeft(r, p)[d]
                             ELSE InfoIn(DigestMap, s, d)[v]
    BY <1>4, <1>5, <1>8, PutAllSound
  <2>2. InfoIn(DigestMap, s, d)[v] \in Balances
    BY <1>8, InfoInSound
  <2>3. InfoIn(DigestMap, s, d)[v].issued \in Nat
    BY <2>2, ShareBalanceAssumption DEF Balances
  <2>4. CASE s = r /\ d \in S /\ v = SlotVariants(p)[d]
    <3>1. v = p.slots[d].variant /\ SlotHolds(p.slots, d, v) = p.slots[d].commit.shares
      BY <1>2, <2>4 DEF SlotVariants, SlotHolds
    <3>2. InfoIn(DigestMap, s, d)[v] = SlotBalance(r, p, d)
      BY <1>3, <2>4, <3>1 DEF SlotReleased, InfoIn, digest_exists, SlotBalance
    <3>3. InfoIn(M, s, d)[v] = SlotLeft(r, p)[d]
      BY <2>1, <2>4
    <3>4. SlotLeft(r, p)[d].issued = SlotBalance(r, p, d).issued - p.slots[d].commit.shares
      BY <1>3, <2>4 DEF SlotReleased
    <3> QED  BY <2>4, <3>1, <3>2, <3>3, <3>4
  <2>5. CASE s # r
    BY <2>1, <2>3, <2>5
  <2>6. CASE s = r /\ ~ (d \in S /\ v = SlotVariants(p)[d])
    <3>1. d \notin S \/ v # p.slots[d].variant
      BY <1>2, <2>6 DEF SlotVariants
    <3>2. SlotHolds(p.slots, d, v) = 0
      BY <1>1, <3>1, NothingHeld
    <3>3. InfoIn(M, s, d)[v] = InfoIn(DigestMap, s, d)[v]
      BY <2>1, <2>6
    <3> QED  BY <2>3, <3>2, <3>3
  <2> QED  BY <2>4, <2>5, <2>6
<1>11. ASSUME NEW s \in Reasons
       PROVE  ValueIn(M, s) = ValueIn(DigestMap, s) - (IF s = r THEN SlotsPay(r, p) ELSE 0)
  <2>1. ValueIn(M, s) = ValueIn(DigestMap, s)
                           + (IF s = r THEN SumFunctionOnSet(SlotOut(r, p), S) ELSE 0)
    BY <1>4, <1>5, <1>8, PutAllValue
  <2>2. ValueIn(DigestMap, s) \in Nat
    BY <1>8, ValueInTyped
  <2> HIDE DEF p, S, M
  <2> QED  BY <1>6, <1>7, <2>1, <2>2
<1> QED  BY <1>6, <1>7, <1>9, <1>10, <1>11 DEF ReleasedTo

\* adjust_balance brings the balance to a value; the shares stay.
LEMMA AdjustedTo ==
    ASSUME NEW b \in Balances, SoundBalance(b), NEW x \in Nat,
           x > b.effective => MintSucceeds(b, x - b.effective),
           x < b.effective => ReapSucceeds(b, b.effective - x)
    PROVE  LET c == adjust_balance(b, x) IN
           c \in Balances /\ SoundBalance(c) /\ c.effective = x /\ c.issued = b.issued
<1>1. b.effective \in Nat
  BY ShareBalanceAssumption DEF Balances
<1>2. /\ x >= b.effective => adjust_balance(b, x) = MintBalance(b, x - b.effective)
      /\ x < b.effective => adjust_balance(b, x) = ReapBalance(b, b.effective - x)
  <2>1. x < b.effective => ~ (x >= b.effective)
    BY <1>1
  <2> QED  BY <2>1 DEF adjust_balance, TotalValue
<1>3. CASE x = b.effective
  <2>1. adjust_balance(b, x) = b
    BY <1>1, <1>2, <1>3 DEF MintBalance
  <2> QED  BY <1>3, <2>1
<1>4. CASE x > b.effective
  <2> DEFINE y == x - b.effective
  <2>1. y \in Nat /\ y # 0 /\ b.effective + y = x
    BY <1>1, <1>4
  <2>2. adjust_balance(b, x) = MintBalance(b, y) /\ MintSucceeds(b, y)
    BY <1>1, <1>2, <1>4
  <2> HIDE DEF y
  <2> QED  BY <2>1, <2>2, MintSound
<1>5. CASE x < b.effective
  <2> DEFINE y == b.effective - x
  <2>1. y \in Nat /\ y # 0 /\ b.effective - y = x
    BY <1>1, <1>5
  <2>2. adjust_balance(b, x) = ReapBalance(b, y) /\ ReapSucceeds(b, y)
    BY <1>2, <1>5
  <2> HIDE DEF y
  <2> QED  BY <2>1, <2>2, ReapSound
<1> QED  BY <1>1, <1>3, <1>4, <1>5

\* Release brings the balance to what came back from the slots.
LEMMA BalanceReleased ==
    ASSUME PoolCore, NEW r \in Reasons, NEW k \in Pools, pool_exists(r, k), release_succeeds(r, k)
    PROVE  LET b == release_balance(r, k) IN
           /\ b \in Balances /\ SoundBalance(b)
           /\ b.effective = SlotsPay(r, PoolMap[<<r, k>>])
           /\ b.issued = PoolIssued(r, k)
<1> DEFINE p == PoolMap[<<r, k>>]
           b == p.balance
           x == SlotsPay(r, p)
<1>1. PoolSound(p) /\ b \in Balances /\ SoundBalance(b)
  BY PoolOf DEF PoolSound
<1>2. x \in Nat
  BY DigestsReleased
<1>3. PoolIssued(r, k) = b.issued
  BY DEF PoolIssued
<1>4. CASE b = FreshBalance
  <2>1. x = 0
    BY <1>1, <1>4, SumNothing DEF SlotsPay, PoolSound
  <2>2. release_balance(r, k) = b
    BY <1>4 DEF release_balance
  <2>3. b.effective = 0
    BY <1>4 DEF FreshBalance
  <2> QED  BY <1>1, <1>3, <2>1, <2>2, <2>3
<1>5. CASE b # FreshBalance
  <2>1. release_balance(r, k) = adjust_balance(b, x)
    BY <1>5 DEF release_balance
  <2>2. /\ x > b.effective => MintSucceeds(b, x - b.effective)
        /\ x < b.effective => ReapSucceeds(b, b.effective - x)
    BY <1>5 DEF release_succeeds, TotalValue
  <2> HIDE DEF p, b, x
  <2>3. /\ adjust_balance(b, x) \in Balances /\ SoundBalance(adjust_balance(b, x))
        /\ adjust_balance(b, x).effective = x /\ adjust_balance(b, x).issued = b.issued
    BY <1>1, <1>2, <2>2, AdjustedTo
  <2> QED  BY <1>3, <2>1, <2>3 DEF x, p
<1> QED  BY <1>4, <1>5

LEMMA SlotsSplit ==
    ASSUME NEW r, NEW k, NEW M, NEW slots, NEW b, Recovering(r, k, M, slots, b)
    PROVE  /\ b.effective \in Nat /\ b.effective <= MaxAsset /\ b.issued \in Nat
           /\ index_actual(slots, b.effective) \in Nat
           /\ index_actual(slots, b.effective) <= b.effective
           /\ \A d \in DOMAIN slots : SlotPart(slots, b)[d] \in Assets
           /\ invested(slots, b) = {d \in DOMAIN slots : SlotPart(slots, b)[d] # 0}
           /\ index_actual(slots, b.effective) = SumFunctionOnSet(SlotPart(slots, b), DOMAIN slots)
           /\ index_actual(slots, b.effective) = SumFunctionOnSet(SlotPart(slots, b), invested(slots, b))
<1>1. slots \in PoolSlots /\ Entries_valid(slots) /\ b \in Balances
  BY DEF Recovering
<1>2. b.effective \in Nat /\ b.effective <= MaxAsset /\ b.issued \in Nat
  BY <1>1, ShareBalanceAssumption DEF Balances
<1>3. /\ IsFiniteSet(DOMAIN slots) /\ DOMAIN slots # {}
      /\ \A d \in DOMAIN slots : slots[d].shares \in Nat \ {0}
  BY <1>1, SlotsFit
<1> DEFINE x == b.effective
<1>4. /\ \A d \in DOMAIN slots : entry_deposit(slots, d, x) \in Nat
      /\ index_actual(slots, x) \in Nat /\ index_actual(slots, x) <= x
  BY <1>2, <1>3, SplitBound
<1>5. \A d \in DOMAIN slots : SlotPart(slots, b)[d] = entry_deposit(slots, d, x)
  BY DEF SlotPart, slot_deposit, TotalValue
<1>6. index_actual(slots, x) = SumFunctionOnSet(SlotPart(slots, b), DOMAIN slots)
  BY DEF index_actual, SumFunction, SlotPart, slot_deposit, TotalValue
<1>7. \A d \in DOMAIN slots : SlotPart(slots, b)[d] <= index_actual(slots, x)
  BY <1>3, <1>4, <1>5, <1>6, SumBounds
<1>8. invested(slots, b) = funded(slots, x) /\ funded(slots, x) \subseteq DOMAIN slots
  BY DEF invested, TotalValue, funded
<1>9. invested(slots, b) = {d \in DOMAIN slots : SlotPart(slots, b)[d] # 0}
  BY <1>5, <1>8 DEF funded
<1>10. index_actual(slots, x) = SumFunctionOnSet(SlotPart(slots, b), invested(slots, b))
  BY <1>2, <1>3, <1>5, <1>8, FundedSum
<1>11. ASSUME NEW d \in DOMAIN slots
       PROVE  SlotPart(slots, b)[d] \in Assets
  <2>1. /\ SlotPart(slots, b)[d] \in Nat /\ SlotPart(slots, b)[d] <= index_actual(slots, x)
        /\ index_actual(slots, x) <= x /\ index_actual(slots, x) \in Nat /\ x <= MaxAsset /\ x \in Nat
    BY <1>2, <1>4, <1>5, <1>7
  <2> HIDE DEF x
  <2> QED  BY <2>1, ShareBalanceAssumption DEF Assets
<1> QED  BY <1>2, <1>4, <1>6, <1>9, <1>10, <1>11

LEMMA OneSlotRecovered ==
    ASSUME NEW r, NEW k, NEW M, NEW slots, NEW b, Recovering(r, k, M, slots, b),
           NEW d \in invested(slots, b)
    PROVE  SlotRecovered(r, M, slots, b, d)
<1>1. d \in DOMAIN slots /\ SlotPart(slots, b)[d] # 0 /\ SlotPart(slots, b)[d] \in Assets
  BY SlotsSplit
<1>2. d \in Digests /\ slots[d].variant \in Positions
  BY <1>1, SlotsFit DEF Recovering
<1> DEFINE z == SlotBase(r, M, slots)[d]
           a == SlotPart(slots, b)[d]
<1>3. z = M[<<r, d>>][slots[d].variant] /\ a = slot_deposit(slots, d, b)
  BY <1>1 DEF SlotBase, SlotPart
<1>4. <<r, d>> \in DOMAIN M /\ DepositSucceeds(M[<<r, d>>][slots[d].variant], slot_deposit(slots, d, b))
  BY DEF Recovering, recover_succeeds
<1>5. M[<<r, d>>][slots[d].variant] \in Balances /\ SoundBalance(M[<<r, d>>][slots[d].variant])
  BY <1>2, <1>4 DEF Recovering, MapSound
<1>6. z \in Balances /\ SoundBalance(z) /\ DepositSucceeds(z, a) /\ a \in 0 .. MaxAsset /\ a # 0
  BY <1>1, <1>3, <1>4, <1>5 DEF Assets
<1>7. /\ SlotFunded(r, M, slots, b)[d] = DepositBalance(z, a)
      /\ SlotReceipt(r, M, slots, b)[d] = DepositReceipt(z, a)
  BY <1>1 DEF SlotFunded, SlotReceipt
<1>8. a \in Nat
  <2> HIDE DEF a
  <2> QED  BY <1>6, ShareBalanceAssumption
<1> HIDE DEF z, a
<1>9. z.effective \in Nat /\ z.issued \in Nat
  BY <1>6, ShareBalanceAssumption DEF Balances
<1>10. /\ DepositBalance(z, a) \in Balances
       /\ SoundBalance(DepositBalance(z, a))
       /\ DepositBalance(z, a).effective = z.effective + a
       /\ DepositBalance(z, a).issued = z.issued + DepositReceipt(z, a).shares
       /\ DepositReceipt(z, a) \in Receipts
       /\ DepositReceipt(z, a).principal = a
       /\ DepositReceipt(z, a).shares # 0
       /\ DepositReceipt(z, a).bias # 0
  BY <1>6, DepositSound, DepositPriced
<1>11. DepositReceipt(z, a).shares \in Nat
  <2> DEFINE c == DepositReceipt(z, a)
  <2>1. c \in Receipts
    BY <1>10
  <2> HIDE DEF c
  <2>2. c.shares \in Nat
    BY <2>1, ShareBalanceAssumption DEF Receipts
  <2> QED  BY <2>2 DEF c
<1> QED  BY <1>2, <1>4, <1>6, <1>7, <1>8, <1>9, <1>10, <1>11 DEF SlotRecovered, z, a

LEMMA SlotsAfter ==
    ASSUME NEW r, NEW k, NEW M, NEW slots, NEW b, Recovering(r, k, M, slots, b)
    PROVE  SlotsWith(recover_slots(r, slots, b, M), slots, invested(slots, b),
                     SlotReceipt(r, M, slots, b))
<1>1. \A d \in DOMAIN slots : slots[d] \in Slot
  BY SlotsFit DEF Recovering
<1>2. ASSUME NEW d \in DOMAIN slots, NEW c
      PROVE  [slots[d] EXCEPT !.commit = c]
               = [shares |-> slots[d].shares, variant |-> slots[d].variant, commit |-> c]
  <2>1. slots[d] \in Slot
    BY <1>1
  <2> DEFINE e == slots[d]
  <2> HIDE DEF e
  <2>2. e \in [shares : 1 .. MaxShares, variant : Positions, commit : Receipts]
    BY <2>1 DEF e, Slot
  <2>3. [e EXCEPT !.commit = c] = [shares |-> e.shares, variant |-> e.variant, commit |-> c]
    BY <2>2
  <2> QED  BY <2>3 DEF e
<1>3. \A d \in DOMAIN slots : SlotReceipt(r, M, slots, b)[d]
         = DepositReceipt(M[<<r, d>>][slots[d].variant], slot_deposit(slots, d, b))
  BY DEF SlotReceipt, SlotBase, SlotPart
<1>4. ASSUME NEW d \in DOMAIN slots
      PROVE  recover_slots(r, slots, b, M)[d]
               = [slots[d] EXCEPT !.commit =
                    IF d \in invested(slots, b) THEN SlotReceipt(r, M, slots, b)[d] ELSE NoReceipt]
  BY <1>3 DEF recover_slots
<1>5. DOMAIN recover_slots(r, slots, b, M) = DOMAIN slots
  BY DEF recover_slots
<1>6. ASSUME NEW d \in DOMAIN slots
      PROVE  recover_slots(r, slots, b, M)[d]
               = [shares |-> slots[d].shares, variant |-> slots[d].variant,
                  commit |-> IF d \in invested(slots, b)
                             THEN SlotReceipt(r, M, slots, b)[d] ELSE NoReceipt]
  BY <1>2, <1>4
<1> QED  BY <1>5, <1>6 DEF SlotsWith

LEMMA SlotsRecovered ==
    ASSUME NEW r, NEW k, NEW M, NEW slots, NEW b, Recovering(r, k, M, slots, b)
    PROVE  LET z == recover_slots(r, slots, b, M) IN
           /\ z \in PoolSlots /\ Entries_valid(z)
           /\ \A d \in DOMAIN z : z[d].commit # NoReceipt =>
                 /\ d \in invested(slots, b)
                 /\ z[d].commit.shares # 0 /\ z[d].commit.principal # 0 /\ z[d].commit.bias # 0
           /\ SlotPrincipals(z) = index_actual(slots, b.effective)
<1> DEFINE z == recover_slots(r, slots, b, M)
           I == invested(slots, b)
           c(d) == IF d \in I THEN SlotReceipt(r, M, slots, b)[d] ELSE NoReceipt
<1>1. /\ DOMAIN z = DOMAIN slots
      /\ \A d \in DOMAIN slots :
            z[d] = [shares |-> slots[d].shares, variant |-> slots[d].variant, commit |-> c(d)]
      /\ \A d \in DOMAIN slots :
            z[d].shares = slots[d].shares /\ z[d].variant = slots[d].variant /\ z[d].commit = c(d)
  <2>1. SlotsWith(z, slots, I, SlotReceipt(r, M, slots, b))
    BY SlotsAfter
  <2> HIDE DEF z, I
  <2> QED  BY <2>1 DEF SlotsWith
<1>2. /\ DOMAIN slots \subseteq Digests /\ IsFiniteSet(DOMAIN slots)
      /\ \A d \in DOMAIN slots : slots[d] \in Slot
      /\ Entries_valid(slots)
  BY SlotsFit DEF Recovering
<1>3. NoReceipt \in Receipts /\ NoReceipt.principal = 0
  BY ShareBalanceAssumption DEF NoReceipt, Receipts
<1>4. ASSUME NEW d \in I
      PROVE  /\ SlotReceipt(r, M, slots, b)[d] \in Receipts
             /\ SlotReceipt(r, M, slots, b)[d].shares # 0
             /\ SlotReceipt(r, M, slots, b)[d].bias # 0
             /\ SlotReceipt(r, M, slots, b)[d].principal = SlotPart(slots, b)[d]
             /\ SlotPart(slots, b)[d] # 0
  <2>1. SlotRecovered(r, M, slots, b, d)
    BY OneSlotRecovered
  <2> QED  BY <2>1 DEF SlotRecovered
<1>5. I \subseteq DOMAIN slots /\ \A d \in DOMAIN slots \ I : SlotPart(slots, b)[d] = 0
  BY SlotsSplit
<1>6. \A d \in DOMAIN slots : c(d) \in Receipts
  BY <1>3, <1>4
<1>7. \A d \in DOMAIN z : z[d] \in Slot
  <2> HIDE DEF z, c
  <2> QED  BY <1>1, <1>2, <1>6 DEF Slot
<1>8. z \in PoolSlots
  <2>1. z \in [DOMAIN slots -> Slot]
    <3>1. z = [d \in DOMAIN z |-> z[d]]
      BY DEF recover_slots
    <3> HIDE DEF z
    <3> QED  BY <1>1, <1>7, <3>1
  <2> QED  BY <1>2, <2>1, SlotsKind
<1>9. Entries_valid(z)
  <2>1. [d \in DOMAIN z |-> z[d].shares] = [d \in DOMAIN slots |-> slots[d].shares]
    BY <1>1
  <2>2. Capital(z) = Capital(slots)
    BY <2>1 DEF Capital
  <2> QED  BY <1>1, <1>2, <2>2 DEF Entries_valid
<1>10. ASSUME NEW d \in DOMAIN z, z[d].commit # NoReceipt
       PROVE  d \in I /\ z[d].commit.shares # 0 /\ z[d].commit.principal # 0 /\ z[d].commit.bias # 0
  BY <1>1, <1>4, <1>10
<1>11. SlotPrincipals(z) = index_actual(slots, b.effective)
  <2> DEFINE f == [d \in DOMAIN z |-> z[d].commit.principal]
  <2>1. \A d \in DOMAIN slots : f[d] = SlotPart(slots, b)[d]
    BY <1>1, <1>3, <1>4, <1>5
  <2>2. SumFunctionOnSet(f, DOMAIN slots) = SumFunctionOnSet(SlotPart(slots, b), DOMAIN slots)
    <3> HIDE DEF f
    <3> QED  BY <1>2, <2>1, SumCongruent
  <2>3. SlotPrincipals(z) = SumFunctionOnSet(f, DOMAIN slots)
    BY <1>1 DEF SlotPrincipals, SumFunction
  <2> QED  BY <2>2, <2>3, SlotsSplit
<1> QED  BY <1>8, <1>9, <1>10, <1>11

LEMMA DigestsRecovered ==
    ASSUME NEW r \in Reasons, NEW k, NEW M, NEW slots, NEW b, Recovering(r, k, M, slots, b)
    PROVE  RecoveredTo(r, M, recover_slots(r, slots, b, M), index_actual(slots, b.effective),
                       recover_digests(r, slots, b, M))
<1> DEFINE z == recover_slots(r, slots, b, M)
           S == invested(slots, b)
           N == recover_digests(r, slots, b, M)
           vf == [d \in DOMAIN slots |-> slots[d].variant]
           nb == SlotFunded(r, M, slots, b)
           pt == SlotPart(slots, b)
<1>1. MapSound(M)
  BY DEF Recovering
<1>2. /\ S \subseteq DOMAIN slots /\ DOMAIN slots \subseteq Digests
      /\ \A d \in S : SlotRecovered(r, M, slots, b, d)
  BY SlotsSplit, SlotsFit, OneSlotRecovered DEF Recovering
<1>0. SlotsWith(z, slots, S, SlotReceipt(r, M, slots, b))
  BY SlotsAfter
<1>a. DOMAIN z = DOMAIN slots
  BY <1>0 DEF SlotsWith
<1>b. ASSUME NEW d \in DOMAIN slots
      PROVE  /\ z[d].variant = slots[d].variant
             /\ z[d].commit = IF d \in S THEN SlotReceipt(r, M, slots, b)[d] ELSE NoReceipt
  <2> HIDE DEF z, S
  <2> QED  BY <1>0 DEF SlotsWith
<1>3. N = PutAll(M, r, S, vf, nb)
  <2>1. ASSUME NEW x \in DOMAIN M, x[1] = r, x[2] \in S
        PROVE  [M[x] EXCEPT ![slots[x[2]].variant] = DepositBalance(@, slot_deposit(slots, x[2], b))]
                 = [M[x] EXCEPT ![vf[x[2]]] = nb[x[2]]]
    <3>1. x = <<r, x[2]>>
      BY <1>1, <2>1 DEF MapSound
    <3>2. x[2] \in DOMAIN slots
      BY <1>2, <2>1
    <3>3. vf[x[2]] = slots[x[2]].variant
      BY <3>2
    <3>4. nb[x[2]] = DepositBalance(M[x][slots[x[2]].variant], slot_deposit(slots, x[2], b))
      BY <3>1, <3>2 DEF SlotFunded, SlotBase, SlotPart
    <3> QED  BY <3>3, <3>4
  <2> QED  BY <2>1 DEF recover_digests, PutAll
<1>4. Puts(M, r, S, vf, nb, pt)
  <2> SUFFICES ASSUME NEW d \in S
               PROVE  /\ <<r, d>> \in DOMAIN M
                      /\ vf[d] \in Positions
                      /\ nb[d] \in Balances /\ SoundBalance(nb[d])
                      /\ pt[d] = nb[d].effective - M[<<r, d>>][vf[d]].effective
    BY <1>2 DEF Puts
  <2>1. SlotRecovered(r, M, slots, b, d) /\ vf[d] = slots[d].variant
    BY <1>2
  <2>2. SlotBase(r, M, slots)[d] = M[<<r, d>>][vf[d]]
    BY <1>2 DEF SlotBase
  <2> HIDE DEF vf, nb, pt, S
  <2>3. pt[d] = nb[d].effective - SlotBase(r, M, slots)[d].effective
    BY <2>1 DEF SlotRecovered, nb, pt
  <2> QED  BY <2>1, <2>2, <2>3 DEF SlotRecovered, nb, pt
<1>5. MapSound(N) /\ DOMAIN N = DOMAIN M
  BY <1>1, <1>3, <1>4, PutAllSound
<1>6. ASSUME NEW s \in Reasons, NEW d \in Digests, NEW v \in Positions
      PROVE  InfoIn(N, s, d)[v].issued = InfoIn(M, s, d)[v].issued
                                            + (IF s = r THEN SlotHolds(z, d, v) ELSE 0)
  <2>1. InfoIn(N, s, d)[v] = IF s = r /\ d \in S /\ v = vf[d] THEN nb[d] ELSE InfoIn(M, s, d)[v]
    BY <1>1, <1>3, <1>4, PutAllSound
  <2>2. InfoIn(M, s, d)[v] \in Balances
    BY <1>1, InfoInSound
  <2>3. InfoIn(M, s, d)[v].issued \in Nat
    BY <2>2, ShareBalanceAssumption DEF Balances
  <2>4. CASE s = r /\ d \in S /\ v = vf[d]
    <3>1. d \in DOMAIN slots /\ v = slots[d].variant
      BY <1>2, <2>4
    <3>2. SlotHolds(z, d, v) = SlotReceipt(r, M, slots, b)[d].shares
      <4> HIDE DEF z, S
      <4> QED  BY <1>a, <1>b, <2>4, <3>1 DEF SlotHolds
    <3>3. InfoIn(M, s, d)[v] = SlotBase(r, M, slots)[d]
      BY <1>2, <2>4, <3>1 DEF SlotRecovered, InfoIn, SlotBase
    <3>4. nb[d].issued = SlotBase(r, M, slots)[d].issued + SlotReceipt(r, M, slots, b)[d].shares
      BY <1>2, <2>4 DEF SlotRecovered
    <3> HIDE DEF N, z, nb
    <3> QED  BY <2>1, <2>4, <3>2, <3>3, <3>4
  <2>5. CASE s # r
    BY <2>1, <2>3, <2>5
  <2>6. CASE s = r /\ ~ (d \in S /\ v = vf[d])
    <3>1. SlotHolds(z, d, v) = 0
      <4>1. CASE d \notin DOMAIN slots
        BY <1>a, <4>1 DEF SlotHolds
      <4>2. CASE d \in DOMAIN slots /\ v # slots[d].variant
        BY <1>a, <1>b, <4>2 DEF SlotHolds
      <4>3. CASE d \in DOMAIN slots /\ d \notin S
        <5> HIDE DEF z, S
        <5> QED  BY <1>a, <1>b, <4>3 DEF SlotHolds, NoReceipt
      <4> QED  BY <2>6, <4>1, <4>2, <4>3
    <3>2. InfoIn(N, s, d)[v] = InfoIn(M, s, d)[v]
      BY <2>1, <2>6
    <3> HIDE DEF N, z
    <3> QED  BY <2>3, <3>1, <3>2
  <2> QED  BY <2>4, <2>5, <2>6
<1>7. ASSUME NEW s \in Reasons
      PROVE  ValueIn(N, s) = ValueIn(M, s) + (IF s = r THEN index_actual(slots, b.effective) ELSE 0)
  <2>1. ValueIn(N, s) = ValueIn(M, s) + (IF s = r THEN SumFunctionOnSet(pt, S) ELSE 0)
    BY <1>1, <1>3, <1>4, PutAllValue
  <2>2. SumFunctionOnSet(pt, S) = index_actual(slots, b.effective)
    BY SlotsSplit
  <2> QED  BY <2>1, <2>2
<1> QED  BY <1>5, <1>6, <1>7 DEF RecoveredTo

LEMMA BalanceRecovered ==
    ASSUME NEW r, NEW k, NEW M, NEW slots, NEW b, Recovering(r, k, M, slots, b)
    PROVE  LET c == recover_balance(slots, b) IN
           /\ c \in Balances /\ SoundBalance(c)
           /\ c.effective = index_actual(slots, b.effective)
           /\ c.issued = b.issued
<1> DEFINE a == index_actual(slots, b.effective)
           x == recover_dust(slots, b)
<1>1. b.effective \in Nat /\ a \in Nat /\ a <= b.effective /\ b \in Balances /\ SoundBalance(b)
  BY SlotsSplit DEF Recovering
<1>2. x = b.effective - a /\ recover_balance(slots, b) = ReapBalance(b, x)
  BY DEF recover_dust, TotalValue, recover_balance
<1>3. x # 0 => ReapSucceeds(b, x)
  BY DEF Recovering, recover_succeeds
<1> HIDE DEF a, x
<1>4. x \in Nat /\ b.effective - x = a
  BY <1>1, <1>2
<1>5. CASE x = 0
  <2>1. ReapBalance(b, x) = b
    BY <1>5 DEF ReapBalance
  <2>2. b.effective = a
    BY <1>1, <1>4, <1>5
  <2> QED  BY <1>1, <1>2, <2>1, <2>2 DEF a
<1>6. CASE x # 0
  <2>1. /\ ReapBalance(b, x) \in Balances /\ SoundBalance(ReapBalance(b, x))
        /\ ReapBalance(b, x).effective = b.effective - x /\ ReapBalance(b, x).issued = b.issued
    BY <1>1, <1>3, <1>4, <1>6, ReapSound
  <2> QED  BY <1>2, <1>4, <2>1 DEF a
<1> QED  BY <1>5, <1>6

\* What a recovery leaves is a pool as the invariant wants it.
LEMMA PoolRecovered ==
    ASSUME NEW r, NEW k, NEW M, NEW slots, NEW b, Recovering(r, k, M, slots, b), NEW c \in Commissions
    PROVE  PoolSound([balance |-> recover_balance(slots, b), commission |-> c,
                      slots |-> recover_slots(r, slots, b, M)])
<1> DEFINE z == recover_slots(r, slots, b, M)
           y == recover_balance(slots, b)
           p == [balance |-> y, commission |-> c, slots |-> z]
<1>1. /\ y \in Balances /\ SoundBalance(y) /\ y.effective = index_actual(slots, b.effective)
  BY BalanceRecovered
<1>2. /\ z \in PoolSlots /\ Entries_valid(z)
      /\ \A d \in DOMAIN z : z[d].commit # NoReceipt =>
            /\ d \in invested(slots, b)
            /\ z[d].commit.shares # 0 /\ z[d].commit.principal # 0 /\ z[d].commit.bias # 0
      /\ SlotPrincipals(z) = index_actual(slots, b.effective)
  BY SlotsRecovered
<1>3. p.balance = y /\ p.slots = z /\ p \in [balance : Balances, commission : Commissions, slots : PoolSlots]
  <2> HIDE DEF y, z
  <2> QED  BY <1>1, <1>2
<1>4. InUse(p) = {d \in DOMAIN z : z[d].commit # NoReceipt}
  BY <1>3 DEF InUse
<1>5. ASSUME y = FreshBalance
      PROVE  invested(slots, b) = {}
  <2>1. index_actual(slots, b.effective) = 0
    BY <1>1, <1>5 DEF FreshBalance
  <2>2. /\ \A d \in DOMAIN slots : SlotPart(slots, b)[d] \in Assets
        /\ invested(slots, b) = {d \in DOMAIN slots : SlotPart(slots, b)[d] # 0}
        /\ index_actual(slots, b.effective) = SumFunctionOnSet(SlotPart(slots, b), DOMAIN slots)
    BY SlotsSplit
  <2>3. IsFiniteSet(DOMAIN slots)
    BY SlotsFit DEF Recovering
  <2>4. \A d \in DOMAIN slots : SlotPart(slots, b)[d] \in Nat
    BY <2>2, ShareBalanceAssumption DEF Assets
  <2>5. \A d \in DOMAIN slots : SlotPart(slots, b)[d] <= 0
    BY <2>1, <2>2, <2>3, <2>4, SumBounds
  <2>6. \A d \in DOMAIN slots : SlotPart(slots, b)[d] = 0
    BY <2>4, <2>5
  <2> QED  BY <2>2, <2>6
<1> HIDE DEF y, z
<1>6. \A d \in InUse(p) : /\ p.slots[d].commit.shares # 0 /\ p.slots[d].commit.principal # 0
                          /\ p.slots[d].commit.bias # 0
                          /\ d \in invested(slots, b)
  BY <1>2, <1>3, <1>4
<1>7. p.balance = FreshBalance => InUse(p) = {}
  BY <1>3, <1>5, <1>6
<1>8. TotalValue(p.balance) = SlotPrincipals(p.slots)
  BY <1>1, <1>2, <1>3 DEF TotalValue
<1>9. Entries_valid(p.slots) /\ SoundBalance(p.balance)
  BY <1>1, <1>2, <1>3
<1>10. PoolSound(p)
  <2> HIDE DEF p
  <2> QED  BY <1>3, <1>6, <1>7, <1>8, <1>9 DEF PoolSound
<1> QED  BY <1>10 DEF p, y, z

-----------------------------------------------------------------------------
(* What an operation on one pool does                                      *)

LEMMA SlotHoldsTyped ==
    ASSUME NEW s \in PoolSlots, Entries_valid(s), NEW d, NEW v
    PROVE  SlotHolds(s, d, v) \in Nat
  BY SlotsFit DEF SlotHolds

LEMMA InfoIssued ==
    ASSUME NEW M, MapSound(M), NEW r \in Reasons, NEW d \in Digests, NEW v \in Positions
    PROVE  InfoIn(M, r, d)[v].issued \in Nat
<1>1. InfoIn(M, r, d)[v] \in Balances
  BY InfoInSound
<1> QED  BY <1>1, ShareBalanceAssumption DEF Balances

\* A release and a recovery, together.
LEMMA ReleasedRecovered ==
    ASSUME PoolCore, NEW r \in Reasons, NEW k \in Pools, pool_exists(r, k), release_succeeds(r, k),
           NEW slots \in PoolSlots, Entries_valid(slots), NEW b \in Balances, SoundBalance(b),
           recover_pool(r, k, slots, b, release_digests(r, k))
    PROVE  /\ recover_dust(slots, b) \in Nat /\ recover_dust(slots, b) <= b.effective
           /\ recover_dust(slots, b) # 0 => recover_dust(slots, b) <= ReasonValue[r]
           /\ release_balance(r, k).effective \in Nat /\ b.effective \in Nat
           /\ \E p : /\ PoolSound(p) /\ PoolPut(r, k, p)
                     /\ p.balance.issued = b.issued
                     /\ DigestsMove(r, PoolMap[<<r, k>>].slots, p.slots,
                           (b.effective - recover_dust(slots, b)) - release_balance(r, k).effective)
<1> DEFINE q == PoolMap[<<r, k>>]
           M == release_digests(r, k)
           N == recover_digests(r, slots, b, M)
           z == recover_slots(r, slots, b, M)
           c == recover_balance(slots, b)
           a == index_actual(slots, b.effective)
           e == release_balance(r, k).effective
           dust == recover_dust(slots, b)
           p == [balance |-> c, commission |-> q.commission, slots |-> z]
<1>1. /\ PoolSound(q) /\ q.commission \in Commissions
      /\ q.slots \in PoolSlots /\ Entries_valid(q.slots)
  BY PoolOf
<1>2. ReleasedTo(r, q, M) /\ SlotsPay(r, q) \in Nat
  BY DigestsReleased
<1>3. e = SlotsPay(r, q)
  BY BalanceReleased
<1>4. Recovering(r, k, M, slots, b)
  BY <1>2 DEF ReleasedTo, Recovering, recover_pool
<1>5. RecoveredTo(r, M, z, a, N)
  BY <1>4, DigestsRecovered
<1>6. b.effective \in Nat /\ a \in Nat /\ a <= b.effective
  BY <1>4, SlotsSplit
<1>7. dust = b.effective - a
  BY DEF recover_dust, TotalValue
<1>8. dust \in Nat /\ dust <= b.effective /\ b.effective - dust = a
  <2> HIDE DEF a, dust
  <2> QED  BY <1>6, <1>7
<1>9. dust # 0 => dust <= ReasonValue[r]
  BY DEF recover_pool, recover_succeeds
<1>10. PoolSound(p)
  BY <1>1, <1>4, PoolRecovered
<1>11. z \in PoolSlots /\ Entries_valid(z)
  BY <1>4, SlotsRecovered
<1>12. c.issued = b.issued
  BY <1>4, BalanceRecovered
<1>13. PoolPut(r, k, p)
  <2>1. PoolMap' = [PoolMap EXCEPT ![<<r, k>>].balance = c, ![<<r, k>>].slots = z]
    BY DEF recover_pool
  <2>2. q \in [balance : Balances, commission : Commissions, slots : PoolSlots]
    BY <1>1 DEF PoolSound
  <2>3. DOMAIN PoolMap' = DOMAIN PoolMap /\ \A x \in DOMAIN PoolMap : x # <<r, k>> => PoolMap'[x] = PoolMap[x]
    <3> HIDE DEF c, z
    <3> QED  BY <2>1
  <2>4. <<r, k>> \in DOMAIN PoolMap
    BY DEF pool_exists
  <2>5. PoolMap'[<<r, k>>] = [[q EXCEPT !.balance = c] EXCEPT !.slots = z]
    <3> HIDE DEF c, z
    <3> QED  BY <2>1, <2>4
  <2>6. [[q EXCEPT !.balance = c] EXCEPT !.slots = z] = p
    <3> HIDE DEF c, z, q
    <3>1. [q EXCEPT !.balance = c] = [balance |-> c, commission |-> q.commission, slots |-> q.slots]
      BY <2>2
    <3>2. [[balance |-> c, commission |-> q.commission, slots |-> q.slots] EXCEPT !.slots = z]
            = [balance |-> c, commission |-> q.commission, slots |-> z]
      OBVIOUS
    <3> QED  BY <3>1, <3>2
  <2> HIDE DEF p
  <2> QED  BY <2>3, <2>4, <2>5, <2>6 DEF PoolPut, pool_exists
<1>14. DigestMap' = N
  BY DEF recover_pool
<1>15. DigestsMove(r, q.slots, z, a - e)
  <2>1. MapSound(DigestMap)
    BY PoolDigests
  <2>2. ASSUME NEW s \in Reasons, NEW d \in Digests, NEW v \in Positions
        PROVE  InfoIn(N, s, d)[v].issued
                 = InfoIn(DigestMap, s, d)[v].issued
                      + (IF s = r THEN SlotHolds(z, d, v) - SlotHolds(q.slots, d, v) ELSE 0)
    <3>1. InfoIn(M, s, d)[v].issued = InfoIn(DigestMap, s, d)[v].issued
                                         - (IF s = r THEN SlotHolds(q.slots, d, v) ELSE 0)
      BY <1>2 DEF ReleasedTo
    <3>2. InfoIn(N, s, d)[v].issued = InfoIn(M, s, d)[v].issued
                                         + (IF s = r THEN SlotHolds(z, d, v) ELSE 0)
      BY <1>5 DEF RecoveredTo
    <3>3. /\ InfoIn(DigestMap, s, d)[v].issued \in Nat
          /\ SlotHolds(q.slots, d, v) \in Nat /\ SlotHolds(z, d, v) \in Nat
      BY <1>1, <1>11, <2>1, InfoIssued, SlotHoldsTyped
    <3> HIDE DEF N, M, q, z
    <3> QED  BY <3>1, <3>2, <3>3
  <2>3. ASSUME NEW s \in Reasons
        PROVE  ValueIn(N, s) = ValueIn(DigestMap, s) + (IF s = r THEN a - e ELSE 0)
    <3>1. ValueIn(M, s) = ValueIn(DigestMap, s) - (IF s = r THEN SlotsPay(r, q) ELSE 0)
      BY <1>2 DEF ReleasedTo
    <3>2. ValueIn(N, s) = ValueIn(M, s) + (IF s = r THEN a ELSE 0)
      BY <1>5 DEF RecoveredTo
    <3>3. ValueIn(DigestMap, s) \in Nat
      BY <2>1, ValueInTyped
    <3> HIDE DEF N, M, q, a, e
    <3> QED  BY <1>2, <1>3, <1>6, <3>1, <3>2, <3>3
  <2>4. MapSound(N) /\ DOMAIN N = DOMAIN DigestMap
    BY <1>2, <1>5 DEF ReleasedTo, RecoveredTo
  <2> HIDE DEF N, a, e, z, q
  <2> QED  BY <1>14, <2>2, <2>3, <2>4 DEF DigestsMove
<1>16. p.balance = c /\ p.slots = z
  OBVIOUS
<1>17. DigestsMove(r, q.slots, p.slots, (b.effective - dust) - e)
  <2> HIDE DEF p, dust, z, a, e
  <2> QED  BY <1>8, <1>15, <1>16
<1>18. e \in Nat
  BY <1>2, <1>3
<1>19. p.balance.issued = b.issued
  BY <1>12, <1>16
<1> HIDE DEF p, dust, e
<1>20. \E y : /\ PoolSound(y) /\ PoolPut(r, k, y) /\ y.balance.issued = b.issued
              /\ DigestsMove(r, q.slots, y.slots, (b.effective - dust) - e)
  BY <1>10, <1>13, <1>17, <1>19
<1> QED  BY <1>6, <1>8, <1>9, <1>18, <1>20 DEF dust, e

LEMMA HeldTyped ==
    ASSUME PoolCore, NEW w \in Who, NEW r \in Reasons, NEW k
    PROVE  HeldBy(w, r, k) \in Nat
<1>1. CASE commit_exists(w, r)
  <2>1. CommitMap[<<w, r>>].commits \in Seq(Receipts)
    BY <1>1 DEF PoolCore, Shared, StoredTypes, commit_exists
  <2> QED  BY <2>1, ReceiptSums DEF HeldBy
<1>2. CASE ~ commit_exists(w, r)
  BY <1>2 DEF HeldBy
<1> QED  BY <1>1, <1>2

LEMMA FrozenFor ==
    ASSUME PoolCore, NEW w \in Who, NEW r \in Reasons
    PROVE  frozen[<<w, r>>] = DepositOf(w, r)
  BY DEF PoolCore, AllFrozen

LEMMA FrozenNow ==
    ASSUME \A w \in Who, r \in Reasons : frozen[<<w, r>>] = DepositOf(w, r)
    PROVE  AllFrozen
  BY DEF AllFrozen

LEMMA FrozenThen ==
    ASSUME \A w \in Who, r \in Reasons : frozen'[<<w, r>>] = DepositOf(w, r)'
    PROVE  AllFrozen'
  BY DEF AllFrozen

LEMMA NoneFit ==
    ASSUME PoolCore, NEW r, NEW k, UNCHANGED <<CommitMap, frozen>>
    PROVE  CommitsFit(r, k, 0)
<1>1. \A w, s : /\ commit_exists(w, s)' = commit_exists(w, s) /\ DepositOf(w, s)' = DepositOf(w, s)
                /\ \A j : HeldBy(w, s, j)' = HeldBy(w, s, j)
                /\ \A d, v : SharesOf(w, s, d, v)' = SharesOf(w, s, d, v)
  BY DEF commit_exists, DepositOf, HeldBy, SharesOf
<1>2. AllFrozen'
  BY <1>1 DEF PoolCore, AllFrozen
<1>3. \A s, d, v : SharesIn(s, d, v)' = SharesIn(s, d, v)
  BY <1>1 DEF SharesIn
<1>4. ASSUME NEW s \in Reasons, NEW j \in Pools
      PROVE  HeldOf(s, j)' = HeldOf(s, j) + (IF s = r /\ j = k THEN 0 ELSE 0)
  <2>1. HeldOf(s, j)' = HeldOf(s, j)
    BY <1>1 DEF HeldOf
  <2>2. HeldOf(s, j) \in Nat
    <3> DEFINE f == [w \in Who |-> HeldBy(w, s, j)]
    <3>1. \A w \in Who : f[w] \in Nat
      BY HeldTyped
    <3> HIDE DEF f
    <3>2. SumFunctionOnSet(f, Who) \in Nat
      BY <3>1, FiniteAssumption, SumTyped
    <3> QED  BY <3>2 DEF HeldOf, f
  <2> QED  BY <2>1, <2>2
<1>5. /\ DOMAIN CommitMap' \subseteq Who \X Reasons
      /\ \A x \in DOMAIN CommitMap' :
            /\ CommitMap'[x] \in [digest : PoolIds, variant : Positions, commits : Seq(Receipts)]
            /\ Len(CommitMap'[x].commits) \in 1 .. MaxCommits
            /\ x \in DOMAIN CommitMap /\ CommitMap'[x] = CommitMap[x]
      /\ frozen' \in [Who \X Reasons -> Assets]
  BY DEF PoolCore, Shared, StoredTypes
<1> QED  BY <1>2, <1>3, <1>4, <1>5 DEF CommitsFit

LEMMA OneFits ==
    ASSUME PoolCore, NEW w \in Who, NEW r \in Reasons, NEW k \in Pools, CommitMoves(w, r, k)
    PROVE  CommitsFit(r, k, HeldBy(w, r, k)' - HeldBy(w, r, k))
<1>0. k \notin Digests /\ k \in PoolIds
  BY CommitPoolAssumption DEF PoolIds
<1>1. ASSUME NEW x \in DOMAIN CommitMap', x # <<w, r>>
      PROVE  x \in DOMAIN CommitMap /\ CommitMap'[x] = CommitMap[x]
  <2>1. PICK y \in Who, s \in Reasons : x = <<y, s>>
    BY DEF CommitMoves
  <2>2. y # w \/ s # r
    BY <1>1, <2>1
  <2> QED  BY <2>1, <2>2 DEF CommitMoves, OthersKeep, commit_exists
<1>2. ASSUME <<w, r>> \in DOMAIN CommitMap'
      PROVE  /\ CommitMap'[<<w, r>>].digest = k
             /\ CommitMap'[<<w, r>>] \in [digest : PoolIds, variant : Positions, commits : Seq(Receipts)]
             /\ Len(CommitMap'[<<w, r>>].commits) \in 1 .. MaxCommits
             /\ CommitMap'[<<w, r>>].commits \in Seq(Receipts)
  BY <1>0, <1>2 DEF CommitMoves, commit_exists
<1>3. ASSUME NEW x \in DOMAIN CommitMap'
      PROVE  /\ CommitMap'[x] \in [digest : PoolIds, variant : Positions, commits : Seq(Receipts)]
             /\ Len(CommitMap'[x].commits) \in 1 .. MaxCommits
             /\ CommitMap'[x].digest \in Digests => x \in DOMAIN CommitMap /\ CommitMap'[x] = CommitMap[x]
  <2>1. CASE x = <<w, r>>
    BY <1>0, <1>2, <2>1
  <2>2. CASE x # <<w, r>>
    BY <1>1, <2>2 DEF PoolCore, Shared, StoredTypes
  <2> QED  BY <2>1, <2>2
<1>4. DOMAIN CommitMap' \subseteq Who \X Reasons /\ OthersKeep(w, r) /\ CommitsTo(w, r, k)
  BY DEF CommitMoves
<1>5. frozen' \in [Who \X Reasons -> Assets]
  BY DEF CommitMoves, PoolCore, Shared, StoredTypes
<1>6. AllFrozen'
  <2> SUFFICES ASSUME NEW y \in Who, NEW s \in Reasons
               PROVE  frozen'[<<y, s>>] = DepositOf(y, s)'
    BY Zenon DEF AllFrozen
  <2>1. frozen \in [Who \X Reasons -> Assets] /\ frozen[<<y, s>>] = DepositOf(y, s)
    BY DEF PoolCore, Shared, StoredTypes, AllFrozen
  <2>2. frozen' = [frozen EXCEPT ![<<w, r>>] = DepositOf(w, r)']
    BY DEF CommitMoves
  <2>3. CASE y = w /\ s = r
    BY <2>1, <2>2, <2>3
  <2>4. CASE y # w \/ s # r
    <3>1. DepositOf(y, s)' = DepositOf(y, s)
      BY <1>4, <2>4, OthersDeposit
    <3> QED  BY <2>1, <2>2, <2>4, <3>1
  <2> QED  BY <2>3, <2>4
<1>7. ASSUME NEW s \in Reasons, NEW d \in Digests, NEW v \in Positions
      PROVE  SharesIn(s, d, v)' = SharesIn(s, d, v)
  <2>1. ASSUME NEW y \in Who
        PROVE  SharesOf(y, s, d, v)' = SharesOf(y, s, d, v)
    <3>1. CASE y = w /\ s = r
      <4>1. SharesOf(w, r, d, v) = 0
        BY <1>0, <1>4 DEF SharesOf, CommitsTo
      <4>2. SharesOf(w, r, d, v)' = 0
        BY <1>0, <1>2 DEF SharesOf, commit_exists
      <4> QED  BY <3>1, <4>1, <4>2
    <3>2. CASE y # w \/ s # r
      BY <1>4, <3>2, OthersDeposit
    <3> QED  BY <3>1, <3>2
  <2>2. [y \in Who |-> SharesOf(y, s, d, v)'] = [y \in Who |-> SharesOf(y, s, d, v)]
    BY <2>1
  <2> QED  BY <2>2 DEF SharesIn
<1>8. HeldBy(w, r, k)' \in Nat
  <2>1. CASE <<w, r>> \in DOMAIN CommitMap'
    BY <1>2, <2>1, ReceiptSums DEF HeldBy, commit_exists
  <2>2. CASE <<w, r>> \notin DOMAIN CommitMap'
    BY <2>2 DEF HeldBy, commit_exists
  <2> QED  BY <2>1, <2>2
<1>9. ASSUME NEW s \in Reasons, NEW j \in Pools
      PROVE  HeldOf(s, j)' = HeldOf(s, j)
                                + (IF s = r /\ j = k THEN HeldBy(w, r, k)' - HeldBy(w, r, k) ELSE 0)
  <2> DEFINE f == [y \in Who |-> HeldBy(y, s, j)]
             g == [y \in Who |-> HeldBy(y, s, j)']
  <2>1. \A y \in Who : f[y] \in Int
    BY HeldTyped
  <2>2. HeldOf(s, j) = SumFunctionOnSet(f, Who) /\ HeldOf(s, j)' = SumFunctionOnSet(g, Who)
    BY DEF HeldOf
  <2>3. ASSUME NEW y \in Who, y # w \/ s # r
        PROVE  g[y] = f[y]
    <3>1. /\ commit_exists(y, s)' <=> commit_exists(y, s)
          /\ commit_exists(y, s) => CommitMap'[<<y, s>>] = CommitMap[<<y, s>>]
      BY <1>4, <2>3 DEF OthersKeep
    <3>2. HeldBy(y, s, j)' = HeldBy(y, s, j)
      BY <3>1 DEF HeldBy
    <3> QED  BY <3>2
  <2>4. CASE s = r
    <3>1. g[w] \in Int /\ g[w] - f[w] = IF j = k THEN HeldBy(w, r, k)' - HeldBy(w, r, k) ELSE 0
      <4>1. CASE j = k
        BY <1>8, <2>4, <4>1
      <4>2. CASE j # k
        <5>1. HeldBy(w, r, j) = 0
          BY <1>4, <4>2 DEF HeldBy, CommitsTo
        <5>2. HeldBy(w, r, j)' = 0
          BY <1>2, <4>2 DEF HeldBy, commit_exists
        <5> QED  BY <2>4, <4>2, <5>1, <5>2
      <4> QED  BY <4>1, <4>2
    <3>2. \A y \in Who \ {w} : g[y] = f[y]
      BY <2>3
    <3>3. f[w] \in Int /\ DOMAIN f = Who /\ DOMAIN g = Who
      BY <2>1
    <3> HIDE DEF f, g
    <3>4. /\ SumFunctionOnSet(f, Who \ {w}) = SumFunctionOnSet(g, Who \ {w})
          /\ SumFunctionOnSet(f, Who) = f[w] + SumFunctionOnSet(f, Who \ {w})
          /\ SumFunctionOnSet(f, Who) \in Int
      <4>1. SumFunctionOnSet(f, Who \ {w}) = SumFunctionOnSet(g, Who \ {w})
        BY <3>2, FiniteAssumption, FS_Subset, SumCongruent
      <4>2. SumFunctionOnSet(f, Who) = f[w] + SumFunctionOnSet(f, Who \ {w})
        BY <2>1, FiniteAssumption, SumRemove
      <4>3. SumFunctionOnSet(f, Who) \in Int
        BY <2>1, FiniteAssumption, SumTyped
      <4> QED  BY <4>1, <4>2, <4>3
    <3>5. SumFunctionOnSet(f, Who \ {w}) \in Int
      BY <2>1, FiniteAssumption, FS_Subset, SumTyped
    <3>6. SumFunctionOnSet(g, Who) = g[w] + SumFunctionOnSet(g, Who \ {w})
      <4>1. \A y \in Who : g[y] \in Int
        BY <2>1, <3>1, <3>2
      <4> QED  BY <4>1, FiniteAssumption, SumRemove
    <3> QED  BY <2>2, <2>4, <3>1, <3>3, <3>4, <3>5, <3>6
  <2>5. CASE s # r
    <3>1. f = g
      BY <2>3, <2>5
    <3>2. SumFunctionOnSet(f, Who) \in Int
      <4> HIDE DEF f
      <4> QED  BY <2>1, FiniteAssumption, SumTyped
    <3> HIDE DEF f, g
    <3> QED  BY <2>2, <2>5, <3>1, <3>2
  <2> QED  BY <2>4, <2>5
<1> QED  BY <1>3, <1>4, <1>5, <1>6, <1>7, <1>9 DEF CommitsFit

LEMMA FundsTyped ==
    ASSUME PoolCore
    PROVE  SumFunction(free) \in Int /\ SumFunction(hold) \in Int
<1>1. free \in [Who -> Assets] /\ hold \in [Who -> Assets]
  BY DEF PoolCore, Shared, StoredTypes
<1>2. \A w \in Who : free[w] \in Int /\ hold[w] \in Int
  BY <1>1, ShareBalanceAssumption DEF Assets
<1>3. SumFunctionOnSet(free, Who) \in Int /\ SumFunctionOnSet(hold, Who) \in Int
  BY <1>2, FiniteAssumption, SumTyped
<1> QED  BY <1>1, <1>3 DEF SumFunction

LEMMA IssuedTyped ==
    ASSUME NEW p, PoolSound(p)
    PROVE  p.balance \in Balances /\ p.balance.issued \in Nat /\ p.balance.effective \in Nat
<1>1. p.balance \in Balances
  BY DEF PoolSound
<1> QED  BY <1>1, ShareBalanceAssumption DEF Balances

LEMMA PoolMovesTyped ==
    ASSUME PoolCore, NEW r \in Reasons, NEW k \in Pools, NEW p, NEW V, PoolMoves(r, k, p, V)
    PROVE  /\ StoredTypes(PoolIds)' /\ BalancesSound' /\ DirectBacked'
           /\ IndexTypeOK' /\ EntryMap' = EmptyMap
           /\ PoolsSound' /\ AllFrozen'
<1>1. /\ MapSound(DigestMap') /\ DOMAIN DigestMap' = DOMAIN DigestMap
      /\ CommitsFit(r, k, p.balance.issued - PoolMap[<<r, k>>].balance.issued)
  BY DEF PoolMoves, DigestsMove
<1>2. /\ ReasonValue' \in [Reasons -> Assets] /\ adjusted' \in Int
      /\ free' \in [Who -> Assets] /\ hold' \in [Who -> Assets]
      /\ AssetToIssue' \in Assets /\ AssetToReap' \in Assets
  BY DEF PoolMoves, PoolCore, Shared, StoredTypes
<1>3. StoredTypes(PoolIds)'
  BY <1>1, <1>2 DEF StoredTypes, CommitsFit, MapSound
<1>4. BalancesSound'
  BY <1>1 DEF BalancesSound, MapSound
<1>5. DirectBacked'
  <2>1. ASSUME NEW x \in DOMAIN CommitMap', CommitMap'[x].digest \in Digests
        PROVE  /\ <<x[2], CommitMap'[x].digest>> \in DOMAIN DigestMap'
               /\ \A n \in DOMAIN CommitMap'[x].commits : CommitMap'[x].commits[n].shares # 0
    <3>1. x \in DOMAIN CommitMap /\ CommitMap'[x] = CommitMap[x]
      BY <1>1, <2>1 DEF CommitsFit
    <3> QED  BY <1>1, <2>1, <3>1 DEF PoolCore, Shared, DirectBacked, digest_exists
  <2> QED  BY <2>1 DEF DirectBacked, digest_exists
<1>6. IndexMap' = IndexMap /\ EntryMap' = EntryMap /\ PoolManager' = PoolManager
  BY DEF PoolMoves, indexVars
<1>7. IndexTypeOK' /\ EntryMap' = EmptyMap
  BY <1>2, <1>6 DEF PoolCore, IndexTypeOK
<1>8. PoolsSound'
  BY <1>6 DEF PoolCore, PoolsSound, PoolMoves, PoolPut
<1>9. AllFrozen'
  BY <1>1 DEF CommitsFit
<1> QED  BY <1>3, <1>4, <1>5, <1>7, <1>8, <1>9

LEMMA PoolMovesBooks ==
    ASSUME PoolCore, NEW r \in Reasons, NEW k \in Pools, NEW p, NEW V, PoolMoves(r, k, p, V)
    PROVE  ReasonTotals' /\ Conservation'
<1>1. StoredTypes(PoolIds) /\ BalancesSound /\ ReasonTotals /\ Conservation
  BY DEF PoolCore, Shared
<1>2. SumFunction(free) + SumFunction(hold) \in Int
  BY FundsTyped
<1>3. /\ V \in Int /\ ReasonValue' = [ReasonValue EXCEPT ![r] = @ + V] /\ adjusted' = adjusted
      /\ SumFunction(free') + SumFunction(hold') = (SumFunction(free) + SumFunction(hold)) - V
      /\ \A s \in Reasons : ValueIn(DigestMap', s) = ValueIn(DigestMap, s) + (IF s = r THEN V ELSE 0)
  BY DEF PoolMoves, DigestsMove
<1> QED  BY <1>1, <1>2, <1>3, BooksMove

\* The sum over the pools moves with one of them.
LEMMA PoolsHoldMove ==
    ASSUME PoolCore, NEW r \in Reasons, NEW k \in Pools, NEW p, PoolSound(p), PoolPut(r, k, p),
           NEW s \in Reasons, NEW d, NEW v
    PROVE  /\ PoolsHold(s, d, v) \in Int
           /\ PoolsHold(s, d, v)' = PoolsHold(s, d, v)
                + (IF s = r THEN SlotHolds(p.slots, d, v) - SlotHolds(PoolMap[<<r, k>>].slots, d, v)
                   ELSE 0)
<1> DEFINE f == [j \in Pools |-> PoolHolds(s, j, d, v)]
           g == [j \in Pools |-> PoolHolds(s, j, d, v)']
<1>1. \A j \in Pools : f[j] \in Int
  <2> SUFFICES ASSUME NEW j \in Pools PROVE PoolHolds(s, j, d, v) \in Int
    OBVIOUS
  <2>1. CASE pool_exists(s, j)
    <3>1. SlotHolds(PoolMap[<<s, j>>].slots, d, v) \in Nat
      BY <2>1, PoolOf, SlotHoldsTyped
    <3> QED  BY <2>1, <3>1 DEF PoolHolds
  <2>2. CASE ~ pool_exists(s, j)
    BY <2>2 DEF PoolHolds
  <2> QED  BY <2>1, <2>2
<1>2. PoolsHold(s, d, v) = SumFunctionOnSet(f, Pools) /\ PoolsHold(s, d, v)' = SumFunctionOnSet(g, Pools)
  BY DEF PoolsHold
<1>3. ASSUME NEW j \in Pools, s # r \/ j # k
      PROVE  g[j] = f[j]
  <2>1. pool_exists(s, j)' <=> pool_exists(s, j)
    BY DEF PoolPut, pool_exists
  <2>2. pool_exists(s, j) => PoolMap'[<<s, j>>] = PoolMap[<<s, j>>]
    BY <1>3 DEF PoolPut, pool_exists
  <2>3. PoolHolds(s, j, d, v)' = PoolHolds(s, j, d, v)
    BY <2>1, <2>2 DEF PoolHolds
  <2> QED  BY <2>3
<1>4. SumFunctionOnSet(f, Pools) \in Int
  <2> HIDE DEF f
  <2> QED  BY <1>1, PoolsFinite, SumTyped
<1>5. CASE s # r
  <2>1. f = g
    BY <1>3, <1>5
  <2> HIDE DEF f, g
  <2> QED  BY <1>2, <1>4, <1>5, <2>1
<1>6. CASE s = r
  <2>1. f[k] = SlotHolds(PoolMap[<<r, k>>].slots, d, v)
    BY <1>6 DEF PoolHolds, PoolPut
  <2>2. g[k] = SlotHolds(p.slots, d, v)
    BY <1>6 DEF PoolHolds, PoolPut, pool_exists
  <2>3. SlotHolds(p.slots, d, v) \in Nat
    BY SlotHoldsTyped DEF PoolSound
  <2>4. \A j \in Pools \ {k} : g[j] = f[j]
    BY <1>3
  <2> HIDE DEF f, g
  <2>5. SumFunctionOnSet(g, Pools \ {k}) = SumFunctionOnSet(f, Pools) - f[k]
    <3>1. SumFunctionOnSet(g, Pools \ {k}) = SumFunctionOnSet(f, Pools \ {k})
      BY <2>4, PoolsFinite, FS_Subset, SumCongruent
    <3>2. SumFunctionOnSet(f, Pools) = f[k] + SumFunctionOnSet(f, Pools \ {k})
      BY <1>1, PoolsFinite, SumRemove
    <3>3. SumFunctionOnSet(f, Pools \ {k}) \in Int /\ f[k] \in Int
      BY <1>1, PoolsFinite, FS_Subset, SumTyped
    <3> QED  BY <3>1, <3>2, <3>3
  <2>6. \A j \in Pools : g[j] \in Int
    BY <1>1, <2>2, <2>3, <2>4
  <2>7. SumFunctionOnSet(g, Pools) = g[k] + SumFunctionOnSet(g, Pools \ {k})
    BY <2>6, PoolsFinite, SumRemove
  <2>8. f[k] \in Int /\ g[k] \in Int
    BY <1>1, <2>6
  <2> QED  BY <1>2, <1>4, <1>6, <2>1, <2>2, <2>5, <2>7, <2>8
<1> QED  BY <1>2, <1>4, <1>5, <1>6

LEMMA PoolMovesHeld ==
    ASSUME PoolCore, NEW r \in Reasons, NEW k \in Pools, NEW p, NEW V, PoolMoves(r, k, p, V)
    PROVE  DigestsHeld' /\ PoolsHeld'
<1> DEFINE q == PoolMap[<<r, k>>]
<1>0. /\ PoolSound(p) /\ PoolPut(r, k, p) /\ DigestsMove(r, q.slots, p.slots, V)
      /\ CommitsFit(r, k, p.balance.issued - q.balance.issued)
      /\ PoolSound(q)
  BY PoolOf DEF PoolMoves, PoolPut
<1>1. DigestsHeld'
  <2> SUFFICES ASSUME NEW s \in Reasons, NEW d \in Digests, NEW v \in Positions
               PROVE  DigestInfo(s, d)'[v].issued = SharesIn(s, d, v)' + PoolsHold(s, d, v)'
    BY Zenon DEF DigestsHeld
  <2>1. DigestInfo(s, d)[v].issued = SharesIn(s, d, v) + PoolsHold(s, d, v)
    BY DEF PoolCore, DigestsHeld
  <2>2. DigestInfo(s, d) = InfoIn(DigestMap, s, d)
    BY PoolDigests
  <2>3. DigestInfo(s, d)' = InfoIn(DigestMap', s, d)
    BY DEF DigestInfo, InfoIn, digest_exists
  <2>4. InfoIn(DigestMap', s, d)[v].issued
          = InfoIn(DigestMap, s, d)[v].issued
               + (IF s = r THEN SlotHolds(p.slots, d, v) - SlotHolds(q.slots, d, v) ELSE 0)
    BY <1>0 DEF DigestsMove
  <2>5. SharesIn(s, d, v)' = SharesIn(s, d, v)
    BY <1>0 DEF CommitsFit
  <2>6. /\ PoolsHold(s, d, v) \in Int
        /\ PoolsHold(s, d, v)' = PoolsHold(s, d, v)
             + (IF s = r THEN SlotHolds(p.slots, d, v) - SlotHolds(q.slots, d, v) ELSE 0)
    BY <1>0, PoolsHoldMove
  <2>7. SharesIn(s, d, v) \in Nat
    <3>1. PICK o : CoreTypes(o)
      <4>1. Digests \subseteq PoolIds /\ StoredTypes(PoolIds)
        BY DEF PoolIds, PoolCore, Shared
      <4> QED  BY <4>1, SharedCore
    <3> QED  BY <3>1, SharesInTyped
  <2>8. SlotHolds(p.slots, d, v) \in Nat /\ SlotHolds(q.slots, d, v) \in Nat
    BY <1>0, SlotHoldsTyped DEF PoolSound
  <2> HIDE DEF q
  <2>9. DigestInfo(s, d)'[v].issued = DigestInfo(s, d)[v].issued
          + (IF s = r THEN SlotHolds(p.slots, d, v) - SlotHolds(q.slots, d, v) ELSE 0)
    BY <2>2, <2>3, <2>4
  <2> QED  BY <2>1, <2>5, <2>6, <2>7, <2>8, <2>9
<1>2. PoolsHeld'
  <2> SUFFICES ASSUME NEW s \in Reasons, NEW j \in Pools
               PROVE  HeldOf(s, j)' = PoolIssued(s, j)'
    BY Zenon DEF PoolsHeld
  <2>1. HeldOf(s, j) = PoolIssued(s, j)
    BY DEF PoolCore, PoolsHeld
  <2>2. HeldOf(s, j)' = HeldOf(s, j)
          + (IF s = r /\ j = k THEN p.balance.issued - q.balance.issued ELSE 0)
    BY <1>0 DEF CommitsFit
  <2>3. p.balance.issued \in Nat /\ q.balance.issued \in Nat
    BY <1>0, IssuedTyped
  <2>4. CASE s = r /\ j = k
    <3>1. PoolIssued(s, j) = q.balance.issued /\ PoolIssued(s, j)' = p.balance.issued
      BY <1>0, <2>4 DEF PoolIssued, PoolPut, pool_exists
    <3> HIDE DEF q
    <3> QED  BY <2>1, <2>2, <2>3, <2>4, <3>1
  <2>5. CASE s # r \/ j # k
    <3>1. PoolIssued(s, j)' = PoolIssued(s, j)
      <4>1. pool_exists(s, j)' <=> pool_exists(s, j)
        BY <1>0 DEF PoolPut, pool_exists
      <4>2. pool_exists(s, j) => PoolMap'[<<s, j>>] = PoolMap[<<s, j>>]
        BY <1>0, <2>5 DEF PoolPut, pool_exists
      <4> QED  BY <4>1, <4>2 DEF PoolIssued
    <3>2. PoolIssued(s, j) \in Nat
      <4>1. CASE pool_exists(s, j)
        <5>1. PoolSound(PoolMap[<<s, j>>])
          BY <4>1, PoolOf
        <5> QED  BY <4>1, <5>1, IssuedTyped DEF PoolIssued
      <4>2. CASE ~ pool_exists(s, j)
        BY <4>2 DEF PoolIssued
      <4> QED  BY <4>1, <4>2
    <3> HIDE DEF q
    <3> QED  BY <2>1, <2>2, <2>5, <3>1, <3>2
  <2> QED  BY <2>4, <2>5
<1> QED  BY <1>1, <1>2

LEMMA PoolMovesKeep ==
    ASSUME PoolCore, NEW r \in Reasons, NEW k \in Pools, NEW p, NEW V, PoolMoves(r, k, p, V)
    PROVE  PoolCore'
<1>1. /\ StoredTypes(PoolIds)' /\ BalancesSound' /\ DirectBacked'
      /\ IndexTypeOK' /\ EntryMap' = EmptyMap
      /\ PoolsSound' /\ AllFrozen'
  BY PoolMovesTyped
<1>2. ReasonTotals' /\ Conservation'
  BY PoolMovesBooks
<1>3. DigestsHeld' /\ PoolsHeld'
  BY PoolMovesHeld
<1> QED  BY <1>1, <1>2, <1>3 DEF PoolCore, Shared

-----------------------------------------------------------------------------
(* The operations on a pool                                                *)

LEMMA PaySum ==
    ASSUME NEW f \in [Who -> Int], NEW w \in Who, NEW x \in Int
    PROVE  /\ Pay(f, w, x) \in [Who -> Int]
           /\ \A y \in Who : Pay(f, w, x)[y] = f[y] + (IF y = w THEN x ELSE 0)
           /\ SumFunction(Pay(f, w, x)) = SumFunction(f) + x
           /\ SumFunction(f) \in Int
<1>1. /\ Pay(f, w, x) = [f EXCEPT ![w] = f[w] + x] /\ f[w] + x \in Int
      /\ DOMAIN f = Who /\ \A y \in Who : f[y] \in Int
  BY DEF Pay
<1>2. SumFunction([f EXCEPT ![w] = f[w] + x]) = SumFunction(f) + (f[w] + x) - f[w]
  BY <1>1, FiniteAssumption, SumExcept
<1>3. SumFunctionOnSet(f, Who) \in Int
  BY <1>1, FiniteAssumption, SumTyped
<1>4. SumFunction(f) \in Int
  BY <1>1, <1>3 DEF SumFunction
<1>5. SumFunction(Pay(f, w, x)) = SumFunction(f) + x
  BY <1>1, <1>2, <1>4
<1> QED  BY <1>1, <1>4, <1>5

LEMMA AssetsAre == Assets \subseteq Nat /\ \A x : x \in Assets <=> x \in Nat /\ x <= MaxAsset
  BY ShareBalanceAssumption DEF Assets

LEMMA PoolStored ==
    ASSUME PoolCore
    PROVE  /\ free \in [Who -> Assets] /\ hold \in [Who -> Assets]
           /\ free \in [Who -> Int] /\ hold \in [Who -> Int]
           /\ ReasonValue \in [Reasons -> Assets]
           /\ AssetToIssue \in Assets /\ AssetToReap \in Assets
           /\ frozen \in [Who \X Reasons -> Assets]
           /\ DOMAIN CommitMap \subseteq Who \X Reasons
<1>1. /\ free \in [Who -> Assets] /\ hold \in [Who -> Assets]
      /\ ReasonValue \in [Reasons -> Assets]
      /\ AssetToIssue \in Assets /\ AssetToReap \in Assets
      /\ frozen \in [Who \X Reasons -> Assets]
      /\ DOMAIN CommitMap \subseteq Who \X Reasons
  BY DEF PoolCore, Shared, StoredTypes
<1>2. Assets \subseteq Int
  BY AssetsAre
<1> QED  BY <1>1, <1>2

LEMMA ChangeSlotsKeeps ==
    ASSUME PoolCore, NEW r \in Reasons, NEW k \in Pools, pool_exists(r, k),
           NEW slots \in PoolSlots, Entries_valid(slots), change_slots(r, k, slots)
    PROVE  PoolCore'
<1> DEFINE b == release_balance(r, k)
           q == PoolMap[<<r, k>>]
           dust == recover_dust(slots, b)
           m == PoolManager[<<r, k>>]
<1>1. /\ release_succeeds(r, k)
      /\ recover_pool(r, k, slots, b, release_digests(r, k))
      /\ free[m] + dust <= MaxAsset
      /\ free' = Pay(free, m, dust)
      /\ ReasonValue' = [ReasonValue EXCEPT ![r] = @ - dust]
      /\ hold' = hold /\ frozen' = frozen /\ CommitMap' = CommitMap
      /\ AssetToIssue' = AssetToIssue /\ AssetToReap' = AssetToReap
      /\ UNCHANGED <<adjusted, indexVars, PoolManager>>
  BY DEF change_slots
<1>2. b \in Balances /\ SoundBalance(b) /\ b.issued = PoolIssued(r, k)
  BY <1>1, BalanceReleased
<1>3. /\ dust \in Nat /\ dust <= b.effective /\ (dust # 0 => dust <= ReasonValue[r])
      /\ b.effective \in Nat
      /\ \E p : /\ PoolSound(p) /\ PoolPut(r, k, p) /\ p.balance.issued = b.issued
                /\ DigestsMove(r, q.slots, p.slots, (b.effective - dust) - b.effective)
  BY <1>1, <1>2, ReleasedRecovered
<1>4. PICK p : /\ PoolSound(p) /\ PoolPut(r, k, p) /\ p.balance.issued = b.issued
               /\ DigestsMove(r, q.slots, p.slots, (b.effective - dust) - b.effective)
  BY <1>3
<1>5. m \in Who /\ PoolSound(q) /\ q.balance.issued \in Nat
  BY PoolOf, IssuedTyped
<1>6. p.balance.issued - q.balance.issued = 0
  BY <1>2, <1>4, <1>5 DEF PoolIssued
<1>7. CommitsFit(r, k, p.balance.issued - q.balance.issued)
  <2>1. CommitsFit(r, k, 0)
    BY <1>1, NoneFit
  <2> HIDE DEF q
  <2> QED  BY <1>6, <2>1
<1>8. /\ ReasonValue[r] \in Nat /\ ReasonValue[r] <= MaxAsset /\ free[m] \in Nat
      /\ ReasonValue \in [Reasons -> Assets]
  BY <1>5, PoolStored, AssetsAre
<1> HIDE DEF dust, q, m, b
<1> DEFINE V == 0 - dust
<1>9. V \in Int /\ (b.effective - dust) - b.effective = V
  BY <1>3
<1>10. ReasonValue[r] + V \in Assets /\ ReasonValue[r] + V = ReasonValue[r] - dust
  <2>1. ReasonValue[r] - dust \in Nat /\ ReasonValue[r] - dust <= MaxAsset
    BY <1>3, <1>8, ShareBalanceAssumption
  <2> QED  BY <1>3, <1>8, <2>1, AssetsAre
<1>11. ReasonValue' = [ReasonValue EXCEPT ![r] = @ + V]
  BY <1>1, <1>8, <1>10
<1>12. /\ SumFunction(free') = SumFunction(free) + dust /\ SumFunction(free) \in Int
       /\ \A y \in Who : free'[y] = free[y] + (IF y = m THEN dust ELSE 0)
       /\ free' \in [Who -> Int]
  <2>1. free \in [Who -> Int] /\ m \in Who /\ dust \in Int
    BY <1>3, <1>5, PoolStored
  <2>2. /\ SumFunction(Pay(free, m, dust)) = SumFunction(free) + dust /\ SumFunction(free) \in Int
        /\ \A y \in Who : Pay(free, m, dust)[y] = free[y] + (IF y = m THEN dust ELSE 0)
        /\ Pay(free, m, dust) \in [Who -> Int]
    BY <2>1, PaySum
  <2> QED  BY <1>1, <2>2
<1>13. free' \in [Who -> Assets]
  <2>1. \A y \in Who : free'[y] \in Assets
    <3> SUFFICES ASSUME NEW y \in Who PROVE free'[y] \in Assets
      OBVIOUS
    <3>1. free[y] \in Nat /\ free[y] <= MaxAsset
      BY PoolStored, AssetsAre
    <3>2. free'[y] = free[y] + (IF y = m THEN dust ELSE 0)
      BY <1>12
    <3>3. free'[y] \in Nat /\ free'[y] <= MaxAsset
      BY <1>1, <1>3, <3>1, <3>2
    <3> QED  BY <3>3, AssetsAre
  <2> QED  BY <1>12, <2>1
<1>14. SumFunction(free') + SumFunction(hold') = (SumFunction(free) + SumFunction(hold)) - V
  <2>1. SumFunction(hold) \in Int
    BY FundsTyped
  <2> QED  BY <1>1, <1>3, <1>12, <2>1
<1>15. hold' \in [Who -> Assets] /\ AssetToIssue' \in Assets /\ AssetToReap' \in Assets
  BY <1>1, PoolStored
<1> HIDE DEF V
<1>16. PoolMoves(r, k, p, V)
  BY <1>1, <1>4, <1>7, <1>9, <1>10, <1>11, <1>13, <1>14, <1>15 DEF PoolMoves, q
<1> QED  BY <1>16, PoolMovesKeep

LEMMA SlotFromEntry ==
    ASSUME NEW s \in 1 .. MaxShares, NEW v \in Positions
    PROVE  SlotOf([shares |-> s, variant |-> v]) \in Slot
<1>1. NoReceipt \in Receipts
  BY ShareBalanceAssumption DEF NoReceipt, Receipts
<1> QED  BY <1>1 DEF SlotOf, Slot

LEMMA RemoveSlotKeeps ==
    ASSUME PoolCore, NEW r \in Reasons, NEW k \in Pools, NEW d \in Digests, RemovePoolSlot(r, k, d)
    PROVE  PoolCore'
<1> DEFINE old == PoolMap[<<r, k>>].slots
           new == Delete(old, d)
<1>1. /\ pool_exists(r, k) /\ Removable(old, d) /\ change_slots(r, k, new)
  BY DEF RemovePoolSlot
<1>2. old \in PoolSlots /\ Entries_valid(old)
  BY <1>1, PoolOf
<1>3. /\ DOMAIN old \subseteq Digests /\ IsFiniteSet(DOMAIN old)
      /\ \A e \in DOMAIN old : old[e] \in Slot /\ old[e].shares \in Nat
  BY <1>2, SlotsFit
<1>4. Entries_valid(new)
  <2> HIDE DEF old
  <2> QED  BY <1>1, <1>2, <1>3, OneEntryLess
<1>5. new \in PoolSlots
  <2>1. new \in [DOMAIN old \ {d} -> Slot]
    BY <1>3 DEF Delete
  <2>2. DOMAIN old \ {d} \in SUBSET Digests
    BY <1>3
  <2> HIDE DEF new, old
  <2> QED  BY <2>1, <2>2, SlotsKind
<1> QED  BY <1>1, <1>4, <1>5, ChangeSlotsKeeps

LEMMA SetSlotKeeps ==
    ASSUME PoolCore, NEW r \in Reasons, NEW k \in Pools, NEW d \in Digests,
           NEW s \in ShareValues, NEW v \in Positions,
           SetPoolSlot(r, k, d, [shares |-> s, variant |-> v])
    PROVE  PoolCore'
<1> DEFINE old == PoolMap[<<r, k>>].slots
           e == SlotOf([shares |-> s, variant |-> v])
           new == Insert(old, d, e)
<1>1. /\ pool_exists(r, k) /\ Entries_valid(new) /\ change_slots(r, k, new)
  BY DEF SetPoolSlot
<1>2. /\ DOMAIN old \subseteq Digests /\ \A x \in DOMAIN old : old[x] \in Slot
  BY <1>1, PoolOf, SlotsFit
<1>3. e \in Slot
  <2>1. s \in 1 .. MaxShares
    BY CommitIndexAssumption
  <2> QED  BY <2>1, SlotFromEntry
<1>4. new \in PoolSlots
  <2>1. new \in [DOMAIN old \cup {d} -> Slot]
    <3> HIDE DEF old, e
    <3> QED  BY <1>2, <1>3 DEF Insert
  <2>2. DOMAIN old \cup {d} \in SUBSET Digests
    BY <1>2
  <2> HIDE DEF new, old
  <2> QED  BY <2>1, <2>2, SlotsKind
<1> QED  BY <1>1, <1>4, ChangeSlotsKeeps

\* A pool that is new is fresh, and none of its slots is in use.
LEMMA NewPoolSound ==
    ASSUME NEW entries \in IndexEntries, Entries_valid(entries), NEW c \in Commissions,
           NEW p, p = [balance |-> FreshBalance, commission |-> c,
                       slots |-> [d \in DOMAIN entries |-> SlotOf(entries[d])]]
    PROVE  /\ PoolSound(p) /\ p.balance.issued = 0
           /\ \A d, v : SlotHolds(p.slots, d, v) = 0
<1> DEFINE z == [d \in DOMAIN entries |-> SlotOf(entries[d])]
<1>1. DOMAIN entries \subseteq Digests /\ \A d \in DOMAIN entries : entries[d] \in Entry
  BY EntriesKind
<1>2. \A d \in DOMAIN entries : /\ z[d].shares = entries[d].shares /\ z[d].commit = NoReceipt
                                /\ z[d].variant = entries[d].variant
  BY DEF SlotOf
<1>3. \A d \in DOMAIN entries : z[d] \in Slot
  <2>1. NoReceipt \in Receipts
    BY ShareBalanceAssumption DEF NoReceipt, Receipts
  <2> QED  BY <1>1, <2>1 DEF SlotOf, Slot, Entry
<1>4. z \in PoolSlots
  <2>1. z \in [DOMAIN entries -> Slot]
    BY <1>3
  <2> HIDE DEF z
  <2> QED  BY <1>1, <2>1, SlotsKind
<1>5. Entries_valid(z)
  <2>1. [d \in DOMAIN z |-> z[d].shares] = [d \in DOMAIN entries |-> entries[d].shares]
    BY <1>2
  <2>2. Capital(z) = Capital(entries) /\ DOMAIN z = DOMAIN entries
    BY <2>1 DEF Capital
  <2> HIDE DEF z
  <2> QED  BY <2>2 DEF Entries_valid
<1>6. FreshBalance \in Balances /\ SoundBalance(FreshBalance) /\ FreshBalance.effective = 0
      /\ FreshBalance.issued = 0
  BY ShareBalanceAssumption DEF FreshBalance, Balances, SoundBalance
<1>7. p.balance = FreshBalance /\ p.slots = z
      /\ p \in [balance : Balances, commission : Commissions, slots : PoolSlots]
  <2> HIDE DEF z
  <2>1. p = [balance |-> FreshBalance, commission |-> c, slots |-> z]
    BY DEF z
  <2> QED  BY <1>4, <1>6, <2>1
<1>8. InUse(p) = {}
  BY <1>2, <1>7 DEF InUse
<1>9. SlotPrincipals(z) = 0
  <2> DEFINE f == [d \in DOMAIN z |-> z[d].commit.principal]
  <2>1. \A d \in DOMAIN f : f[d] = 0
    BY <1>2 DEF NoReceipt
  <2>2. IsFiniteSet(DOMAIN f)
    BY <1>1, FiniteAssumption, FS_Subset
  <2> HIDE DEF f
  <2>3. SumFunction(f) = 0
    BY <2>1, <2>2, SumOfZeros
  <2> QED  BY <2>3 DEF SlotPrincipals, f
<1>10. \A d, v : SlotHolds(z, d, v) = 0
  BY <1>2 DEF SlotHolds, NoReceipt
<1> HIDE DEF z
<1>11. PoolSound(p)
  BY <1>4, <1>5, <1>6, <1>7, <1>8, <1>9 DEF PoolSound, TotalValue
<1> QED  BY <1>6, <1>7, <1>10, <1>11

\* A pool that comes or goes while it holds nothing.
LEMMA PoolsChange ==
    ASSUME PoolCore, PoolsSound', UNCHANGED <<vars, indexVars>>, PoolsHoldStill
    PROVE  PoolCore'
<1>1. /\ UNCHANGED <<free, hold, frozen>> /\ DigestMap' = DigestMap /\ CommitMap' = CommitMap
      /\ AssetToIssue' = AssetToIssue /\ AssetToReap' = AssetToReap
      /\ ReasonValue' = ReasonValue /\ adjusted' = adjusted
      /\ IndexMap' = IndexMap /\ EntryMap' = EntryMap
  BY DEF vars, accounts, indexVars
<1>2. /\ \A r, d : DigestInfo(r, d)' = DigestInfo(r, d)
      /\ \A r : DigestValueOf(r)' = DigestValueOf(r)
      /\ \A w, r : /\ DepositOf(w, r)' = DepositOf(w, r)
                   /\ \A j : HeldBy(w, r, j)' = HeldBy(w, r, j)
                   /\ \A d, v : SharesOf(w, r, d, v)' = SharesOf(w, r, d, v)
  BY <1>1 DEF DigestInfo, digest_exists, DigestValueOf, DepositOf, HeldBy, SharesOf, commit_exists
<1>3. Shared(PoolIds)'
  <2>1. StoredTypes(PoolIds)' /\ BalancesSound' /\ DirectBacked'
    BY <1>1 DEF PoolCore, Shared, StoredTypes, BalancesSound, DirectBacked, digest_exists
  <2>2. ReasonTotals'
    BY <1>1, <1>2 DEF PoolCore, Shared, ReasonTotals
  <2>3. Conservation'
    BY <1>1, <1>2 DEF PoolCore, Shared, Conservation, TotalDigestValue
  <2> QED  BY <2>1, <2>2, <2>3 DEF Shared
<1>4. IndexTypeOK' /\ EntryMap' = EmptyMap
  BY <1>1 DEF PoolCore, IndexTypeOK
<1>5. AllFrozen'
  <2>1. CommitsFit(0, 0, 0)
    BY <1>1, NoneFit
  <2> QED  BY <2>1 DEF CommitsFit
<1>6. DigestsHeld'
  <2> SUFFICES ASSUME NEW s \in Reasons, NEW d \in Digests, NEW v \in Positions
               PROVE  DigestInfo(s, d)'[v].issued = SharesIn(s, d, v)' + PoolsHold(s, d, v)'
    BY Zenon DEF DigestsHeld
  <2>1. DigestInfo(s, d)[v].issued = SharesIn(s, d, v) + PoolsHold(s, d, v)
    BY DEF PoolCore, DigestsHeld
  <2>2. SharesIn(s, d, v)' = SharesIn(s, d, v)
    BY <1>2 DEF SharesIn
  <2> DEFINE f == [j \in Pools |-> PoolHolds(s, j, d, v)]
             g == [j \in Pools |-> PoolHolds(s, j, d, v)']
  <2>3. \A j \in Pools : PoolHolds(s, j, d, v)' = PoolHolds(s, j, d, v)
    BY Zenon DEF PoolsHoldStill
  <2>4. f = g
    BY <2>3, Zenon
  <2>5. PoolsHold(s, d, v) = SumFunctionOnSet(f, Pools) /\ PoolsHold(s, d, v)' = SumFunctionOnSet(g, Pools)
    BY DEF PoolsHold
  <2>6. PoolsHold(s, d, v)' = PoolsHold(s, d, v)
    BY <2>4, <2>5
  <2> QED  BY <1>2, <2>1, <2>2, <2>6
<1>7. PoolsHeld'
  <2> SUFFICES ASSUME NEW s \in Reasons, NEW j \in Pools
               PROVE  HeldOf(s, j)' = PoolIssued(s, j)'
    BY Zenon DEF PoolsHeld
  <2>1. HeldOf(s, j) = PoolIssued(s, j)
    BY DEF PoolCore, PoolsHeld
  <2>2. HeldOf(s, j)' = HeldOf(s, j)
    BY <1>2 DEF HeldOf
  <2>3. PoolIssued(s, j)' = PoolIssued(s, j)
    BY DEF PoolsHoldStill
  <2> QED  BY <2>1, <2>2, <2>3
<1> QED  BY <1>3, <1>4, <1>5, <1>6, <1>7 DEF PoolCore

LEMMA SetPoolKeeps ==
    ASSUME PoolCore, NEW w \in Who, NEW r \in Reasons, NEW k \in Pools, NEW i \in Indexes,
           NEW c \in Commissions, SetPool(w, r, k, i, c)
    PROVE  PoolCore'
<1> DEFINE e == IndexMap[<<r, i>>].entries
           p == [balance |-> FreshBalance, commission |-> c,
                 slots |-> [d \in DOMAIN e |-> SlotOf(e[d])]]
<1>1. /\ ~ pool_exists(r, k) /\ index_exists(r, i)
      /\ PoolMap' = Insert(PoolMap, <<r, k>>, p)
      /\ PoolManager' = Insert(PoolManager, <<r, k>>, w)
      /\ UNCHANGED <<vars, indexVars>>
  BY DEF SetPool
<1>2. IndexMap[<<r, i>>] \in [principal : Assets, entries : IndexEntries] /\ Entries_valid(e)
  BY <1>1 DEF PoolCore, IndexTypeOK, index_exists
<1>3. e \in IndexEntries
  BY <1>2
<1>4. PoolSound(p) /\ p.balance.issued = 0 /\ \A d, v : SlotHolds(p.slots, d, v) = 0
  BY <1>2, <1>3, NewPoolSound
<1> HIDE DEF p
<1>5. PoolsSound'
  BY <1>1, <1>4 DEF PoolCore, PoolsSound, Insert
<1>6. ASSUME NEW s \in Reasons, NEW j \in Pools
      PROVE  /\ PoolIssued(s, j)' = PoolIssued(s, j)
             /\ \A d, v : PoolHolds(s, j, d, v)' = PoolHolds(s, j, d, v)
  <2>1. CASE s = r /\ j = k
    <3>1. PoolMap'[<<r, k>>] = p /\ pool_exists(r, k)'
      BY <1>1 DEF Insert, pool_exists
    <3> QED  BY <1>1, <1>4, <2>1, <3>1 DEF PoolIssued, PoolHolds
  <2>2. CASE s # r \/ j # k
    <3>1. pool_exists(s, j)' <=> pool_exists(s, j)
      BY <1>1, <2>2 DEF Insert, pool_exists
    <3>2. pool_exists(s, j) => PoolMap'[<<s, j>>] = PoolMap[<<s, j>>]
      BY <1>1, <2>2 DEF Insert, pool_exists
    <3> QED  BY <3>1, <3>2 DEF PoolIssued, PoolHolds
  <2> QED  BY <2>1, <2>2
<1>7. PoolsHoldStill
  BY <1>6, Zenon DEF PoolsHoldStill
<1> QED  BY <1>1, <1>5, <1>7, PoolsChange

LEMMA SetManagerKeeps ==
    ASSUME PoolCore, NEW w \in Who, NEW r \in Reasons, NEW k \in Pools, SetPoolManager(w, r, k)
    PROVE  PoolCore'
<1>1. /\ pool_exists(r, k) /\ PoolManager' = [PoolManager EXCEPT ![<<r, k>>] = w]
      /\ UNCHANGED <<vars, indexVars>> /\ PoolMap' = PoolMap
  BY DEF SetPoolManager
<1>2. PoolsSound'
  BY <1>1 DEF PoolCore, PoolsSound
<1>3. PoolsHoldStill
  BY <1>1 DEF PoolIssued, PoolHolds, pool_exists, PoolsHoldStill
<1> QED  BY <1>1, <1>2, <1>3, PoolsChange

\* A pool without depositors holds no value and has no slot in use.
LEMMA IdleHolds ==
    ASSUME NEW p, PoolSound(p), ~ HasDeposits(p.balance)
    PROVE  /\ p.balance.effective = 0 /\ p.balance.issued = 0
           /\ \A d, v : SlotHolds(p.slots, d, v) = 0
<1>1. p.balance \in Balances /\ SoundBalance(p.balance) /\ p.slots \in PoolSlots /\ Entries_valid(p.slots)
  BY DEF PoolSound
<1>2. p.balance.effective = 0 /\ p.balance.issued = 0
  <2> DEFINE b == p.balance
  <2> HIDE DEF b
  <2>1. b \in Balances /\ SoundBalance(b) /\ ~ (b.init /\ b.issued # 0)
    BY <1>1 DEF b, HasDeposits
  <2>2. b.effective = 0 /\ b.issued = 0
    <3>1. b.init \in BOOLEAN
      BY <2>1 DEF Balances
    <3>2. CASE ~ b.init
      <4>1. b = FreshBalance
        BY <2>1, <3>2 DEF SoundBalance
      <4> QED  BY <4>1 DEF FreshBalance
    <3>3. CASE b.init
      <4>1. b.issued = 0
        BY <2>1, <3>3
      <4> QED  BY <2>1, <3>3, <4>1 DEF SoundBalance
    <3> QED  BY <3>1, <3>2, <3>3
  <2> QED  BY <2>2 DEF b
<1>3. SlotPrincipals(p.slots) = 0
  BY <1>2 DEF PoolSound, TotalValue
<1>4. ASSUME NEW d \in InUse(p)
      PROVE  FALSE
  <2> DEFINE f == [e \in DOMAIN p.slots |-> p.slots[e].commit.principal]
  <2>1. d \in DOMAIN p.slots /\ p.slots[d].commit.principal # 0
    BY DEF InUse, PoolSound
  <2>2. IsFiniteSet(DOMAIN f) /\ \A e \in DOMAIN f : f[e] \in Nat
    BY <1>1, SlotsFit
  <2>3. d \in DOMAIN f /\ f[d] # 0
    BY <2>1
  <2>4. SumFunction(f) = 0
    BY <1>3 DEF SlotPrincipals
  <2> HIDE DEF f
  <2>5. f[d] <= SumFunction(f)
    BY <2>2, <2>3, SumOfNats
  <2> QED  BY <2>2, <2>3, <2>4, <2>5
<1>5. \A d, v : SlotHolds(p.slots, d, v) = 0
  BY <1>4, NothingHeld
<1> QED  BY <1>2, <1>5

LEMMA ReapPoolKeeps ==
    ASSUME PoolCore, NEW r \in Reasons, NEW k \in Pools, ReapPool(r, k)
    PROVE  PoolCore'
<1> DEFINE p == PoolMap[<<r, k>>]
           m == PoolManager[<<r, k>>]
<1>1. /\ pool_exists(r, k) /\ ~ HasDeposits(p.balance)
      /\ free' = Pay(free, m, TotalValue(p.balance))
      /\ resolve_imbalance(0, TotalValue(p.balance))
      /\ ReasonValue' = [ReasonValue EXCEPT ![r] = @ - TotalValue(p.balance)]
      /\ PoolMap' = Delete(PoolMap, <<r, k>>)
      /\ PoolManager' = Delete(PoolManager, <<r, k>>)
      /\ UNCHANGED <<hold, frozen, DigestMap, CommitMap, adjusted, indexVars>>
  BY DEF ReapPool, PoolIdle
<1>2. PoolSound(p) /\ m \in Who
  BY <1>1, PoolOf
<1>3. /\ TotalValue(p.balance) = 0 /\ p.balance.issued = 0
      /\ \A d, v : SlotHolds(p.slots, d, v) = 0
  BY <1>1, <1>2, IdleHolds DEF TotalValue
<1>4. free' = free
  <2>1. free \in [Who -> Int] /\ free[m] + 0 = free[m]
    BY <1>2, PoolStored
  <2> HIDE DEF m
  <2>2. free' = [free EXCEPT ![m] = free[m] + 0]
    BY <1>1, <1>3 DEF Pay
  <2> QED  BY <2>1, <2>2
<1>5. ReasonValue' = ReasonValue
  <2>1. ReasonValue \in [Reasons -> Assets] /\ ReasonValue[r] \in Nat
    BY PoolStored, AssetsAre
  <2>2. ReasonValue[r] - 0 = ReasonValue[r]
    BY <2>1
  <2>3. ReasonValue' = [ReasonValue EXCEPT ![r] = ReasonValue[r] - 0]
    BY <1>1, <1>3
  <2> QED  BY <2>1, <2>2, <2>3
<1>6. AssetToIssue' = AssetToIssue /\ AssetToReap' = AssetToReap
  BY <1>1, <1>3 DEF resolve_imbalance
<1>7. UNCHANGED <<vars, indexVars>>
  BY <1>1, <1>4, <1>5, <1>6 DEF vars, accounts
<1>8. PoolsSound'
  BY <1>1 DEF PoolCore, PoolsSound, Delete
<1>9. ASSUME NEW s \in Reasons, NEW j \in Pools
      PROVE  /\ PoolIssued(s, j)' = PoolIssued(s, j)
             /\ \A d, v : PoolHolds(s, j, d, v)' = PoolHolds(s, j, d, v)
  <2>1. CASE s = r /\ j = k
    <3>1. ~ pool_exists(r, k)'
      BY <1>1 DEF Delete, pool_exists
    <3> QED  BY <1>1, <1>3, <2>1, <3>1 DEF PoolIssued, PoolHolds
  <2>2. CASE s # r \/ j # k
    <3>1. pool_exists(s, j)' <=> pool_exists(s, j)
      BY <1>1, <2>2 DEF Delete, pool_exists
    <3>2. pool_exists(s, j) => PoolMap'[<<s, j>>] = PoolMap[<<s, j>>]
      BY <1>1, <2>2 DEF Delete, pool_exists
    <3> QED  BY <3>1, <3>2 DEF PoolIssued, PoolHolds
  <2> QED  BY <2>1, <2>2
<1>10. PoolsHoldStill
  BY <1>9, Zenon DEF PoolsHoldStill
<1> QED  BY <1>7, <1>8, <1>10, PoolsChange

LEMMA FundsPaid ==
    ASSUME PoolCore, NEW w \in Who, NEW m \in Who, NEW paid, NEW held, NEW dust,
           Paying(w, m, paid, held, dust)
    PROVE  /\ free' \in [Who -> Assets] /\ hold' \in [Who -> Assets]
           /\ SumFunction(free') + SumFunction(hold')
                = (SumFunction(free) + SumFunction(hold)) - (paid - dust)
<1> USE DEF Paying
<1> DEFINE x == 0 - (paid - held)
           after == Pay(free, w, x)
<1>1. x \in Int /\ free \in [Who -> Int] /\ hold \in [Who -> Int]
  BY PoolStored
<1>2. /\ after \in [Who -> Int]
      /\ \A y \in Who : after[y] = free[y] + (IF y = w THEN x ELSE 0)
      /\ SumFunction(after) = SumFunction(free) + x /\ SumFunction(free) \in Int
  <2> HIDE DEF x
  <2> QED  BY <1>1, PaySum
<1> HIDE DEF after
<1>3. /\ free' \in [Who -> Int]
      /\ \A y \in Who : free'[y] = after[y] + (IF y = m THEN dust ELSE 0)
      /\ SumFunction(free') = SumFunction(after) + dust
  <2>1. dust \in Int /\ free' = Pay(after, m, dust) /\ after \in [Who -> Int]
    BY <1>2 DEF after
  <2>2. /\ Pay(after, m, dust) \in [Who -> Int]
        /\ \A y \in Who : Pay(after, m, dust)[y] = after[y] + (IF y = m THEN dust ELSE 0)
        /\ SumFunction(Pay(after, m, dust)) = SumFunction(after) + dust
    BY <2>1, PaySum
  <2> QED  BY <2>1, <2>2
<1>4. hold' = Pay(hold, w, 0 - held)
  <2>1. hold[w] - held = hold[w] + (0 - held)
    BY <1>1
  <2> QED  BY <2>1 DEF Pay
<1>5. /\ hold' \in [Who -> Int]
      /\ \A y \in Who : hold'[y] = hold[y] + (IF y = w THEN 0 - held ELSE 0)
      /\ SumFunction(hold') = SumFunction(hold) + (0 - held) /\ SumFunction(hold) \in Int
  <2> DEFINE z == 0 - held
  <2>1. z \in Int
    OBVIOUS
  <2> HIDE DEF z
  <2>2. /\ Pay(hold, w, z) \in [Who -> Int]
        /\ \A y \in Who : Pay(hold, w, z)[y] = hold[y] + (IF y = w THEN z ELSE 0)
        /\ SumFunction(Pay(hold, w, z)) = SumFunction(hold) + z /\ SumFunction(hold) \in Int
    BY <1>1, <2>1, PaySum
  <2> QED  BY <1>4, <2>2 DEF z
<1>6. after[m] + dust <= MaxAsset
  BY DEF after
<1>7. ASSUME NEW y \in Who
      PROVE  free'[y] \in Assets /\ hold'[y] \in Assets
  <2>1. free[y] \in Nat /\ free[y] <= MaxAsset /\ hold[y] \in Nat /\ hold[y] <= MaxAsset
    BY PoolStored, AssetsAre
  <2>2. after[y] = free[y] + (IF y = w THEN x ELSE 0)
    BY <1>2
  <2>3. after[y] \in Nat /\ after[y] <= MaxAsset
    BY <2>1, <2>2, ShareBalanceAssumption
  <2>4. free'[y] = after[y] + (IF y = m THEN dust ELSE 0)
    BY <1>3
  <2>5. free'[y] \in Nat /\ free'[y] <= MaxAsset
    BY <1>6, <2>3, <2>4
  <2>6. hold'[y] = hold[y] + (IF y = w THEN 0 - held ELSE 0)
    BY <1>5
  <2>7. hold'[y] \in Nat /\ hold'[y] <= MaxAsset
    <3>1. CASE y = w
      <4> DEFINE h == hold[y]
      <4>1. h \in Nat /\ h <= MaxAsset /\ held <= h /\ hold'[y] = h + (0 - held)
        BY <2>1, <2>6, <3>1
      <4> HIDE DEF h
      <4>2. h + (0 - held) \in Nat /\ h + (0 - held) <= MaxAsset
        BY <4>1, ShareBalanceAssumption
      <4> QED  BY <4>1, <4>2
    <3>2. CASE y # w
      BY <2>1, <2>6, <3>2
    <3> QED  BY <3>1, <3>2
  <2> QED  BY <2>5, <2>7, AssetsAre
<1>8. free' \in [Who -> Assets] /\ hold' \in [Who -> Assets]
  BY <1>3, <1>5, <1>7
<1>9. SumFunction(free') + SumFunction(hold') = (SumFunction(free) + SumFunction(hold)) - (paid - dust)
  BY <1>2, <1>3, <1>5
<1> QED  BY <1>8, <1>9

\* A deposit into a pool, whose receipt w holds from now on.
LEMMA PoolDeposited ==
    ASSUME PoolCore, NEW w \in Who, NEW r \in Reasons, NEW k \in Pools, pool_exists(r, k),
           NEW x \in Amounts, NEW paid, paid = deducted(free[w], hold[w], x),
           deposit_to_pool(w, r, k, x, paid), CommitMoves(w, r, k),
           HeldBy(w, r, k)' - HeldBy(w, r, k) = DepositReceipt(release_balance(r, k), paid).shares
    PROVE  PoolCore'
<1> DEFINE e == release_balance(r, k)
           b == DepositBalance(e, paid)
           c == DepositReceipt(e, paid)
           q == PoolMap[<<r, k>>]
           dust == recover_dust(q.slots, b)
           m == PoolManager[<<r, k>>]
           held == deducted_hold(hold[w], x)
           after == Pay(free, w, 0 - (paid - held))
<1>1. /\ release_succeeds(r, k)
      /\ DepositSucceeds(e, paid)
      /\ recover_pool(r, k, q.slots, b, release_digests(r, k))
      /\ after[m] + dust <= MaxAsset
      /\ ReasonValue[r] - dust + paid <= MaxAsset
      /\ free' = Pay(after, m, dust)
      /\ hold' = [hold EXCEPT ![w] = @ - held]
      /\ ReasonValue' = [ReasonValue EXCEPT ![r] = @ - dust + paid]
      /\ AssetToIssue' = AssetToIssue /\ AssetToReap' = AssetToReap
      /\ UNCHANGED <<adjusted, indexVars, PoolManager>>
  BY DEF deposit_to_pool, dust_paid
<1>2. /\ free[w] \in Nat /\ free[w] <= MaxAsset /\ hold[w] \in Nat /\ hold[w] <= MaxAsset
      /\ ReasonValue \in [Reasons -> Assets] /\ ReasonValue[r] \in Nat /\ ReasonValue[r] <= MaxAsset
  BY PoolStored, AssetsAre
<1>3. x \in Assets /\ m \in Who /\ q \in [balance : Balances, commission : Commissions, slots : PoolSlots]
      /\ Entries_valid(q.slots) /\ q.slots \in PoolSlots /\ PoolSound(q)
  BY CommitmentAssumption, PoolOf DEF PoolSound, Assets
<1>4. /\ paid \in Assets /\ paid \in Nat /\ held \in Nat /\ held <= hold[w]
      /\ paid - held \in Nat /\ paid - held <= free[w]
  BY <1>2, <1>3, DeductSound, AssetsAre
<1>5. e \in Balances /\ SoundBalance(e) /\ e.issued = PoolIssued(r, k)
  BY <1>1, BalanceReleased
<1> HIDE DEF held, m, e
<1>6. /\ b \in Balances /\ SoundBalance(b) /\ b.effective = e.effective + paid
      /\ b.issued = e.issued + c.shares /\ c \in Receipts /\ c.principal = paid
  <2>1. paid \in 0 .. MaxAsset
    BY <1>4 DEF Assets
  <2> QED  BY <1>1, <1>5, <2>1, DepositSound
<1>7. /\ dust \in Nat /\ dust <= b.effective /\ (dust # 0 => dust <= ReasonValue[r])
      /\ e.effective \in Nat /\ b.effective \in Nat
      /\ \E p : /\ PoolSound(p) /\ PoolPut(r, k, p) /\ p.balance.issued = b.issued
                /\ DigestsMove(r, q.slots, p.slots, (b.effective - dust) - e.effective)
  <2> HIDE DEF b
  <2> QED  BY <1>1, <1>3, <1>6, ReleasedRecovered DEF e
<1>8. PICK p : /\ PoolSound(p) /\ PoolPut(r, k, p) /\ p.balance.issued = b.issued
               /\ DigestsMove(r, q.slots, p.slots, (b.effective - dust) - e.effective)
  BY <1>7
<1>9. q.balance.issued \in Nat /\ PoolIssued(r, k) = q.balance.issued
  BY <1>3, IssuedTyped DEF PoolIssued
<1>10. c.shares \in Nat
  BY <1>6, ShareBalanceAssumption DEF Receipts
<1> HIDE DEF b, c, dust
<1>11. p.balance.issued - q.balance.issued = c.shares
  <2> HIDE DEF q
  <2> QED  BY <1>5, <1>6, <1>8, <1>9, <1>10
<1>12. CommitsFit(r, k, p.balance.issued - q.balance.issued)
  <2>1. CommitsFit(r, k, HeldBy(w, r, k)' - HeldBy(w, r, k))
    BY OneFits
  <2>2. HeldBy(w, r, k)' - HeldBy(w, r, k) = p.balance.issued - q.balance.issued
    BY <1>11 DEF c, e
  <2> QED  BY <2>1, <2>2
<1> DEFINE V == paid - dust
<1>13. V \in Int /\ (b.effective - dust) - e.effective = V
  BY <1>4, <1>6, <1>7
<1>14. ReasonValue[r] + V \in Assets /\ ReasonValue[r] + V = ReasonValue[r] - dust + paid
  <2>1. ReasonValue[r] + V \in Nat /\ ReasonValue[r] + V <= MaxAsset
        /\ ReasonValue[r] + V = ReasonValue[r] - dust + paid
    BY <1>1, <1>2, <1>4, <1>7
  <2> QED  BY <2>1, AssetsAre
<1>15. ReasonValue' = [ReasonValue EXCEPT ![r] = @ + V]
  BY <1>1, <1>2, <1>14
<1>16. /\ free' \in [Who -> Assets] /\ hold' \in [Who -> Assets]
       /\ SumFunction(free') + SumFunction(hold')
            = (SumFunction(free) + SumFunction(hold)) - (paid - dust)
  <2>1. m \in Who
    BY <1>3
  <2>2. /\ paid \in Nat /\ held \in Nat /\ dust \in Nat /\ held <= hold[w]
        /\ paid - held \in Nat /\ paid - held <= free[w]
    BY <1>4, <1>7
  <2>3. /\ Pay(free, w, 0 - (paid - held))[m] + dust <= MaxAsset
        /\ free' = Pay(Pay(free, w, 0 - (paid - held)), m, dust)
        /\ hold' = [hold EXCEPT ![w] = @ - held]
    BY <1>1
  <2>4. Paying(w, m, paid, held, dust)
    BY <2>2, <2>3 DEF Paying
  <2> HIDE DEF after, V, q
  <2> QED  BY <2>1, <2>4, FundsPaid
<1>17. AssetToIssue' \in Assets /\ AssetToReap' \in Assets
  BY <1>1, PoolStored
<1>18. PoolMoves(r, k, p, V)
  <2>1. SumFunction(free') + SumFunction(hold') = (SumFunction(free) + SumFunction(hold)) - V
    BY <1>16
  <2>2. DigestsMove(r, PoolMap[<<r, k>>].slots, p.slots, V)
    BY <1>8, <1>13
  <2>3. CommitsFit(r, k, p.balance.issued - PoolMap[<<r, k>>].balance.issued)
    BY <1>12
  <2> HIDE DEF V, q
  <2> QED  BY <1>1, <1>8, <1>13, <1>14, <1>15, <1>16, <1>17, <2>1, <2>2, <2>3 DEF PoolMoves
<1> QED  BY <1>18, PoolMovesKeep

LEMMA PlacePoolKeeps ==
    ASSUME PoolCore, NEW w \in Who, NEW r \in Reasons, NEW k \in Pools, NEW v \in Positions,
           NEW x \in Amounts, NEW p, PlacePoolCommit(w, r, k, v, x, p)
    PROVE  PoolCore'
<1> DEFINE paid == deducted(free[w], hold[w], x)
           c == DepositReceipt(release_balance(r, k), paid)
           new == [digest |-> k, variant |-> v, commits |-> <<c>>]
<1>1. /\ ~ commit_exists(w, r) /\ pool_exists(r, k)
      /\ deposit_to_pool(w, r, k, x, paid)
      /\ frozen' = [frozen EXCEPT ![<<w, r>>] = paid]
      /\ CommitMap' = Insert(CommitMap, <<w, r>>, new)
  BY DEF PlacePoolCommit
<1>2. /\ free[w] \in Nat /\ hold[w] \in Nat /\ x \in Assets /\ MaxAsset \in Nat
      /\ frozen[<<w, r>>] \in Nat
  BY PoolStored, AssetsAre, CommitmentAssumption, ShareBalanceAssumption DEF Assets
<1>3. paid \in Assets
  BY <1>2, DeductSound
<1> HIDE DEF paid
<1>4. c \in Receipts /\ c.principal = paid
  <2>1. release_succeeds(r, k) /\ DepositSucceeds(release_balance(r, k), paid)
    BY <1>1 DEF deposit_to_pool
  <2>2. release_balance(r, k) \in Balances /\ SoundBalance(release_balance(r, k))
    BY <1>1, <2>1, BalanceReleased
  <2> QED  BY <1>3, <2>1, <2>2, DepositSound DEF Assets
<1> HIDE DEF c
<1>5. /\ <<c>> \in Seq(Receipts) /\ Len(<<c>>) = 1
      /\ Principals(<<c>>) = paid /\ Shares(<<c>>) = c.shares
  BY <1>4, OneReceipt
<1>6. OthersKeep(w, r) /\ commit_exists(w, r)' /\ CommitMap'[<<w, r>>] = new
  <2> HIDE DEF new
  <2> QED  BY <1>1, InsertKeeps
<1>7. DepositOf(w, r)' = paid
  BY <1>5, <1>6 DEF DepositOf
<1>8. HeldBy(w, r, k)' - HeldBy(w, r, k) = c.shares
  <2>1. HeldBy(w, r, k)' = c.shares
    BY <1>5, <1>6 DEF HeldBy
  <2>2. HeldBy(w, r, k) = 0
    BY <1>1 DEF HeldBy
  <2>3. c.shares \in Nat
    BY <1>4, ShareBalanceAssumption DEF Receipts
  <2> QED  BY <2>1, <2>2, <2>3
<1>9. DOMAIN CommitMap' \subseteq Who \X Reasons
  BY <1>1, PoolStored DEF Insert
<1>10. CommitMoves(w, r, k)
  <2>1. CommitsTo(w, r, k)
    BY <1>1 DEF CommitsTo
  <2>2. /\ new \in [digest : {k}, variant : Positions, commits : Seq(Receipts)]
        /\ Len(new.commits) \in 1 .. MaxCommits
    BY <1>5, CommitmentAssumption
  <2> QED  BY <1>1, <1>3, <1>6, <1>7, <1>9, <2>1, <2>2 DEF CommitMoves
<1>11. HeldBy(w, r, k)' - HeldBy(w, r, k) = DepositReceipt(release_balance(r, k), paid).shares
  BY <1>8 DEF c
<1> QED  BY <1>1, <1>10, <1>11, PoolDeposited DEF paid

LEMMA RaisePoolKeeps ==
    ASSUME PoolCore, NEW w \in Who, NEW r \in Reasons,
           NEW x \in Amounts, NEW p, RaisePoolCommit(w, r, x, p)
    PROVE  PoolCore'
<1> DEFINE was == CommitMap[<<w, r>>]
<1>1. commit_exists(w, r) /\ pool_exists(r, was.digest) /\ Len(was.commits) < MaxCommits
  BY DEF RaisePoolCommit
<1>2. /\ was \in [digest : PoolIds, variant : Positions, commits : Seq(Receipts)]
      /\ Len(was.commits) \in 1 .. MaxCommits
  BY <1>1 DEF PoolCore, Shared, StoredTypes, commit_exists
<1>3. was.digest \in Pools
  BY <1>1 DEF PoolCore, PoolsSound, pool_exists
<1> PICK k \in Pools : was.digest = k
  BY <1>3
<1> DEFINE paid == deducted(free[w], hold[w], x)
           c == DepositReceipt(release_balance(r, k), paid)
           all == Append(was.commits, c)
           new == [was EXCEPT !.commits = all]
<1>4. /\ pool_exists(r, k) /\ deposit_to_pool(w, r, k, x, paid)
      /\ frozen' = [frozen EXCEPT ![<<w, r>>] = @ + paid]
      /\ CommitMap' = [CommitMap EXCEPT ![<<w, r>>] = new]
  <2>1. /\ pool_exists(r, k) /\ deposit_to_pool(w, r, k, x, paid)
        /\ frozen' = [frozen EXCEPT ![<<w, r>>] = @ + paid]
        /\ CommitMap' = [CommitMap EXCEPT ![<<w, r>>].commits = Append(@, c)]
    BY DEF RaisePoolCommit
  <2> HIDE DEF c, paid
  <2> QED  BY <2>1
<1>5. /\ free[w] \in Nat /\ hold[w] \in Nat /\ x \in Assets /\ MaxAsset \in Nat
      /\ frozen[<<w, r>>] \in Nat
  BY PoolStored, AssetsAre, CommitmentAssumption, ShareBalanceAssumption DEF Assets
<1>6. paid \in Assets /\ paid \in Nat
  BY <1>5, DeductSound, AssetsAre
<1> HIDE DEF paid
<1>7. c \in Receipts /\ c.principal = paid /\ c.shares \in Nat
  <2>1. release_succeeds(r, k) /\ DepositSucceeds(release_balance(r, k), paid)
    BY <1>4 DEF deposit_to_pool
  <2>2. release_balance(r, k) \in Balances /\ SoundBalance(release_balance(r, k))
    BY <1>4, <2>1, BalanceReleased
  <2>3. c \in Receipts /\ c.principal = paid
    BY <1>6, <2>1, <2>2, DepositSound DEF Assets
  <2> HIDE DEF c
  <2> QED  BY <2>3, ShareBalanceAssumption DEF Receipts
<1> HIDE DEF c
<1>8. was.commits \in Seq(Receipts) /\ Principals(was.commits) \in Nat /\ Shares(was.commits) \in Nat
  BY <1>2, ReceiptSums
<1>9. /\ all \in Seq(Receipts) /\ Len(all) = Len(was.commits) + 1
      /\ Principals(all) = Principals(was.commits) + paid
      /\ Shares(all) = Shares(was.commits) + c.shares
  BY <1>7, <1>8, OneMore
<1>10. /\ new.digest = k /\ new.commits = all
       /\ new \in [digest : {k}, variant : Positions, commits : Seq(Receipts)]
  <2> HIDE DEF all
  <2> QED  BY <1>2, <1>9
<1> HIDE DEF all
<1>11. OthersKeep(w, r) /\ commit_exists(w, r)' /\ CommitMap'[<<w, r>>] = new
  <2> HIDE DEF new, was
  <2> QED  BY <1>1, <1>4, ExceptKeeps
<1> HIDE DEF new
<1>12. DepositOf(w, r)' = DepositOf(w, r) + paid /\ frozen[<<w, r>>] = DepositOf(w, r)
  <2>1. DepositOf(w, r)' = Principals(all) /\ DepositOf(w, r) = Principals(was.commits)
    BY <1>1, <1>10, <1>11 DEF DepositOf
  <2> QED  BY <1>9, <2>1, FrozenFor
<1>13. DepositOf(w, r)' \in Assets
  <2>1. frozen[<<w, r>>] + paid <= MaxAsset
    BY <1>4 DEF deposit_to_pool
  <2>2. frozen[<<w, r>>] + paid \in Nat
    BY <1>5, <1>6
  <2> QED  BY <1>12, <2>1, <2>2, AssetsAre
<1>14. HeldBy(w, r, k)' - HeldBy(w, r, k) = c.shares
  <2>1. HeldBy(w, r, k)' = Shares(all)
    BY <1>10, <1>11 DEF HeldBy
  <2>2. HeldBy(w, r, k) = Shares(was.commits)
    BY <1>1 DEF HeldBy
  <2> QED  BY <1>7, <1>8, <1>9, <2>1, <2>2
<1>15. DOMAIN CommitMap' \subseteq Who \X Reasons
  BY <1>4, PoolStored
<1>16. CommitMoves(w, r, k)
  <2>1. CommitsTo(w, r, k)
    BY <1>1 DEF CommitsTo
  <2>2. Len(all) \in 1 .. MaxCommits
    BY <1>1, <1>2, <1>9, CommitmentAssumption
  <2>3. frozen' = [frozen EXCEPT ![<<w, r>>] = DepositOf(w, r)']
    BY <1>4, <1>12
  <2> QED  BY <1>10, <1>11, <1>13, <1>15, <2>1, <2>2, <2>3 DEF CommitMoves
<1>17. HeldBy(w, r, k)' - HeldBy(w, r, k) = DepositReceipt(release_balance(r, k), paid).shares
  BY <1>14 DEF c
<1> QED  BY <1>4, <1>16, <1>17, PoolDeposited DEF paid

LEMMA FundsGiven ==
    ASSUME PoolCore, NEW w \in Who, NEW m \in Who, NEW tip, NEW own, Giving(w, m, tip, own)
    PROVE  /\ free' \in [Who -> Assets] /\ hold' \in [Who -> Assets]
           /\ SumFunction(free') + SumFunction(hold')
                = (SumFunction(free) + SumFunction(hold)) + (tip + own)
<1> USE DEF Giving
<1> DEFINE rich == Pay(free, m, tip)
<1>1. free \in [Who -> Int] /\ hold \in [Who -> Assets] /\ SumFunction(hold) \in Int
  BY PoolStored, FundsTyped
<1>2. /\ rich \in [Who -> Int]
      /\ \A y \in Who : rich[y] = free[y] + (IF y = m THEN tip ELSE 0)
      /\ SumFunction(rich) = SumFunction(free) + tip /\ SumFunction(free) \in Int
  <2>1. tip \in Int
    OBVIOUS
  <2> QED  BY <1>1, <2>1, PaySum
<1> HIDE DEF rich
<1>3. /\ free' \in [Who -> Int]
      /\ \A y \in Who : free'[y] = rich[y] + (IF y = w THEN own ELSE 0)
      /\ SumFunction(free') = SumFunction(rich) + own
  <2>1. own \in Int /\ free' = Pay(rich, w, own) /\ rich \in [Who -> Int]
    BY <1>2 DEF rich
  <2>2. /\ Pay(rich, w, own) \in [Who -> Int]
        /\ \A y \in Who : Pay(rich, w, own)[y] = rich[y] + (IF y = w THEN own ELSE 0)
        /\ SumFunction(Pay(rich, w, own)) = SumFunction(rich) + own
    BY <2>1, PaySum
  <2> QED  BY <2>1, <2>2
<1>4. rich[m] <= MaxAsset /\ rich[w] + own <= MaxAsset
  BY DEF rich
<1>5. ASSUME NEW y \in Who
      PROVE  free'[y] \in Assets
  <2>1. free[y] \in Nat /\ free[y] <= MaxAsset
    BY PoolStored, AssetsAre
  <2>2. rich[y] = free[y] + (IF y = m THEN tip ELSE 0) /\ rich[y] \in Int
    BY <1>2
  <2>3. rich[y] \in Nat /\ rich[y] <= MaxAsset
    BY <1>4, <2>1, <2>2
  <2>4. free'[y] = rich[y] + (IF y = w THEN own ELSE 0)
    BY <1>3
  <2>5. free'[y] \in Nat /\ free'[y] <= MaxAsset
    BY <1>4, <2>3, <2>4
  <2> QED  BY <2>5, AssetsAre
<1>6. SumFunction(free') + SumFunction(hold') = (SumFunction(free) + SumFunction(hold)) + (tip + own)
  BY <1>1, <1>2, <1>3
<1> QED  BY <1>1, <1>3, <1>5, <1>6

\* A commission is a part of what it is taken from.
LEMMA CommissionFits ==
    ASSUME NEW pool, pool.commission \in Commissions, NEW taken \in Nat
    PROVE  commission_of(pool, taken) \in Nat /\ commission_of(pool, taken) <= taken
<1> DEFINE c == pool.commission
<1>0. c \in Commissions
  OBVIOUS
<1> HIDE DEF c
<1>1. c \in Nat /\ c <= ACCURACY /\ ACCURACY \in Nat /\ ACCURACY > 0
  BY <1>0, CommitPoolAssumption
<1>2. taken * c \in Nat /\ taken * c <= taken * ACCURACY
  BY <1>1, MulMono
<1>3. (taken * c) \div ACCURACY \in Nat /\ (taken * c) \div ACCURACY <= taken
  BY <1>1, <1>2, DivFloor
<1> QED  BY <1>3 DEF commission_of, c

\* What was issued and reaped stays within its width through a resolution.
LEMMA PoolImbalance ==
    ASSUME NEW issue \in Assets, NEW reap \in Assets, NEW given \in Nat, NEW taken \in Nat,
           NEW fee \in Nat, fee <= taken,
           reap + reaped_for(given, taken, fee) <= MaxAsset,
           taken - fee > given => issue >= (taken - fee) - given,
           taken - fee < given => reap + reaped_for(given, taken, fee) >= given - (taken - fee)
    PROVE  /\ (IF taken - fee > given THEN issue - ((taken - fee) - given) ELSE issue) \in Assets
           /\ reap + reaped_for(given, taken, fee)
                   - (IF taken - fee < given THEN given - (taken - fee) ELSE 0) \in Assets
<1> DEFINE own == taken - fee
           more == reaped_for(given, taken, fee)
<1>1. issue \in Nat /\ issue <= MaxAsset /\ reap \in Nat /\ reap <= MaxAsset /\ MaxAsset \in Nat
  BY AssetsAre, ShareBalanceAssumption
<1>2. own \in Nat /\ more \in Nat
  BY DEF reaped_for
<1> HIDE DEF own, more
<1>3. (IF own > given THEN issue - (own - given) ELSE issue) \in Assets
  <2>1. /\ (IF own > given THEN issue - (own - given) ELSE issue) \in Nat
        /\ (IF own > given THEN issue - (own - given) ELSE issue) <= MaxAsset
    BY <1>1, <1>2 DEF own
  <2> QED  BY <2>1, AssetsAre
<1>4. reap + more - (IF own < given THEN given - own ELSE 0) \in Assets
  <2>1. reap + more <= MaxAsset /\ (own < given => reap + more >= given - own)
    BY DEF own, more
  <2>2. /\ reap + more - (IF own < given THEN given - own ELSE 0) \in Nat
        /\ reap + more - (IF own < given THEN given - own ELSE 0) <= MaxAsset
    BY <1>1, <1>2, <2>1
  <2> QED  BY <2>2, AssetsAre
<1> QED  BY <1>3, <1>4 DEF own, more

LEMMA ResolvePoolKeeps ==
    ASSUME PoolCore, NEW w \in Who, NEW r \in Reasons, ResolvePoolCommit(w, r)
    PROVE  PoolCore'
<1> DEFINE was == CommitMap[<<w, r>>]
<1>1. commit_exists(w, r) /\ pool_exists(r, was.digest)
  BY DEF ResolvePoolCommit
<1>2. /\ was.digest \in Pools /\ was.commits \in Seq(Receipts)
  BY <1>1 DEF PoolCore, Shared, StoredTypes, commit_exists, PoolsSound, pool_exists
<1> PICK k \in Pools : was.digest = k
  BY <1>2
<1> DEFINE q == PoolMap[<<r, k>>]
           e == release_balance(r, k)
           out == withdraw_from_digest(e, was.commits)
           dust == recover_dust(q.slots, out.balance)
           m == PoolManager[<<r, k>>]
           fee == commission_of(q, out.taken)
           own == out.taken - fee
           rich == Pay(free, m, dust + fee)
<1>3. /\ pool_exists(r, k) /\ release_succeeds(r, k) /\ out.ok
      /\ recover_pool(r, k, q.slots, out.balance, release_digests(r, k))
      /\ pool_resolve_succeeds(out.given, out.taken, fee)
      /\ rich[m] <= MaxAsset
      /\ rich[w] + own <= MaxAsset
      /\ out.taken + dust <= ReasonValue[r]
      /\ free' = Pay(rich, w, own)
      /\ AssetToIssue' = IF own > out.given THEN AssetToIssue - (own - out.given) ELSE AssetToIssue
      /\ AssetToReap' = AssetToReap + reaped_for(out.given, out.taken, fee)
                            - (IF own < out.given THEN out.given - own ELSE 0)
      /\ ReasonValue' = [ReasonValue EXCEPT ![r] = @ - (out.taken + dust)]
      /\ CommitMap' = Delete(CommitMap, <<w, r>>)
      /\ frozen' = [frozen EXCEPT ![<<w, r>>] = 0]
      /\ UNCHANGED <<hold, adjusted, indexVars, PoolManager>>
  BY DEF ResolvePoolCommit, PoolWithdrawal, leaves_reason
<1>4. /\ m \in Who /\ q.commission \in Commissions /\ q.slots \in PoolSlots /\ Entries_valid(q.slots)
      /\ PoolSound(q)
  BY <1>3, PoolOf
<1>5. e \in Balances /\ SoundBalance(e) /\ e.issued = PoolIssued(r, k)
  BY <1>3, BalanceReleased
<1> HIDE DEF e, m
<1>6. Progress(e, was.commits, Len(was.commits), out)
  BY <1>2, <1>3, <1>5, Withdrawn
<1>7. /\ Principals(was.commits) \in Nat /\ Shares(was.commits) \in Nat
      /\ Principals(was.commits) = PartSum(EachPrincipal(was.commits), Len(was.commits))
      /\ Shares(was.commits) = PartSum(EachShares(was.commits), Len(was.commits))
  BY <1>2, ReceiptSums
<1> HIDE DEF was
<1> DEFINE b == out.balance
           taken == out.taken
           given == out.given
<1>8. /\ b \in Balances /\ SoundBalance(b) /\ taken \in Nat /\ given \in Nat
      /\ b.effective = e.effective - taken
      /\ b.issued = e.issued - Shares(was.commits)
  <2> HIDE DEF out
  <2> QED  BY <1>6, <1>7 DEF Progress
<1>9. /\ dust \in Nat /\ dust <= b.effective
      /\ e.effective \in Nat /\ b.effective \in Nat
      /\ \E p : /\ PoolSound(p) /\ PoolPut(r, k, p) /\ p.balance.issued = b.issued
                /\ DigestsMove(r, q.slots, p.slots, (b.effective - dust) - e.effective)
  <2> HIDE DEF out
  <2> QED  BY <1>3, <1>4, <1>8, ReleasedRecovered DEF e
<1>10. PICK p : /\ PoolSound(p) /\ PoolPut(r, k, p) /\ p.balance.issued = b.issued
                /\ DigestsMove(r, q.slots, p.slots, (b.effective - dust) - e.effective)
  BY <1>9
<1>11. fee \in Nat /\ fee <= taken
  <2> HIDE DEF out, q
  <2> QED  BY <1>4, <1>8, CommissionFits
<1>12. q.balance.issued \in Nat /\ PoolIssued(r, k) = q.balance.issued
  BY <1>3, <1>4, IssuedTyped DEF PoolIssued
<1> HIDE DEF out, fee, dust
<1>13. own \in Nat /\ own = taken - fee
  BY <1>8, <1>11
<1>14. OthersKeep(w, r) /\ ~ commit_exists(w, r)'
  BY <1>3, DeleteKeeps
<1>15. DepositOf(w, r)' = 0
  BY <1>14 DEF DepositOf
<1>16. HeldBy(w, r, k)' - HeldBy(w, r, k) = p.balance.issued - q.balance.issued
  <2>1. HeldBy(w, r, k)' = 0
    BY <1>14 DEF HeldBy
  <2>2. HeldBy(w, r, k) = Shares(was.commits)
    BY <1>1 DEF HeldBy, was
  <2> HIDE DEF q, b
  <2> QED  BY <1>5, <1>7, <1>8, <1>10, <1>12, <2>1, <2>2
<1>17. CommitMoves(w, r, k)
  <2>1. CommitsTo(w, r, k)
    BY <1>1 DEF CommitsTo, was
  <2>2. DOMAIN CommitMap' \subseteq Who \X Reasons
    BY <1>3, PoolStored DEF Delete
  <2>3. 0 \in Assets
    BY ShareBalanceAssumption DEF Assets
  <2> QED  BY <1>3, <1>14, <1>15, <2>1, <2>2, <2>3 DEF CommitMoves
<1>18. CommitsFit(r, k, p.balance.issued - q.balance.issued)
  <2>1. CommitsFit(r, k, HeldBy(w, r, k)' - HeldBy(w, r, k))
    BY <1>17, OneFits
  <2> QED  BY <1>16, <2>1
<1> DEFINE V == 0 - (taken + dust)
<1>19. V \in Int /\ (b.effective - dust) - e.effective = V
  <2> HIDE DEF b, taken
  <2> QED  BY <1>8, <1>9
<1>20. ReasonValue \in [Reasons -> Assets] /\ ReasonValue[r] \in Nat /\ ReasonValue[r] <= MaxAsset
  BY PoolStored, AssetsAre
<1>21. ReasonValue[r] + V \in Assets /\ ReasonValue[r] + V = ReasonValue[r] - (taken + dust)
  <2>1. taken + dust <= ReasonValue[r]
    BY <1>3
  <2> DEFINE z == taken + dust
             y == ReasonValue[r]
  <2> HIDE DEF taken
  <2>2. z \in Nat /\ y \in Nat /\ y <= MaxAsset /\ z <= y
    BY <1>8, <1>9, <1>20, <2>1
  <2> HIDE DEF z, y
  <2>3. y + (0 - z) \in Nat /\ y + (0 - z) <= MaxAsset /\ y + (0 - z) = y - z
    BY <2>2, ShareBalanceAssumption
  <2> QED  BY <2>3, AssetsAre DEF z, y
<1>22. ReasonValue' = [ReasonValue EXCEPT ![r] = @ + V]
  <2>1. ReasonValue' = [ReasonValue EXCEPT ![r] = @ - (taken + dust)]
    BY <1>3
  <2> HIDE DEF V, taken
  <2> QED  BY <1>20, <1>21, <2>1
<1>23. /\ free' \in [Who -> Assets] /\ hold' \in [Who -> Assets]
       /\ SumFunction(free') + SumFunction(hold')
            = (SumFunction(free) + SumFunction(hold)) + ((dust + fee) + own)
  <2>1. Giving(w, m, dust + fee, own)
    <3>1. /\ rich[m] <= MaxAsset /\ rich[w] + own <= MaxAsset
          /\ free' = Pay(rich, w, own) /\ hold' = hold
      BY <1>3
    <3>2. dust + fee \in Nat
      BY <1>9, <1>11
    <3> HIDE DEF own
    <3> QED  BY <1>13, <3>1, <3>2 DEF Giving
  <2>2. m \in Who
    BY <1>4
  <2> HIDE DEF own
  <2> QED  BY <2>1, <2>2, FundsGiven
<1>24. SumFunction(free') + SumFunction(hold') = (SumFunction(free) + SumFunction(hold)) - V
  <2>1. SumFunction(free) \in Int /\ SumFunction(hold) \in Int
    BY FundsTyped
  <2> HIDE DEF taken, own
  <2>2. (dust + fee) + own = 0 - V
    BY <1>8, <1>9, <1>11, <1>13
  <2> HIDE DEF V
  <2> QED  BY <1>19, <1>23, <2>1, <2>2
<1>25. AssetToIssue' \in Assets /\ AssetToReap' \in Assets
  <2>1. /\ AssetToReap + reaped_for(given, taken, fee) <= MaxAsset
        /\ taken - fee > given => AssetToIssue >= (taken - fee) - given
        /\ taken - fee < given => AssetToReap + reaped_for(given, taken, fee) >= given - (taken - fee)
    BY <1>3 DEF pool_resolve_succeeds
  <2>2. /\ AssetToIssue' = IF taken - fee > given THEN AssetToIssue - ((taken - fee) - given) ELSE AssetToIssue
        /\ AssetToReap' = AssetToReap + reaped_for(given, taken, fee)
                            - (IF taken - fee < given THEN given - (taken - fee) ELSE 0)
    BY <1>3
  <2>3. AssetToIssue \in Assets /\ AssetToReap \in Assets
    BY PoolStored
  <2> HIDE DEF taken, given
  <2> QED  BY <1>8, <1>11, <2>1, <2>2, <2>3, PoolImbalance
<1>26. PoolMoves(r, k, p, V)
  <2>1. DigestsMove(r, PoolMap[<<r, k>>].slots, p.slots, V)
    BY <1>10, <1>19
  <2>2. CommitsFit(r, k, p.balance.issued - PoolMap[<<r, k>>].balance.issued)
    BY <1>18
  <2>3. UNCHANGED <<adjusted, indexVars, PoolManager>>
    BY <1>3
  <2> HIDE DEF V, q
  <2> QED  BY <1>10, <1>19, <1>21, <1>22, <1>23, <1>24, <1>25, <2>1, <2>2, <2>3 DEF PoolMoves
<1> QED  BY <1>26, PoolMovesKeep

-----------------------------------------------------------------------------
(* Every step *)

LEMMA PoolHoldsTyped ==
    ASSUME PoolCore, NEW r \in Reasons, NEW k \in Pools, NEW d, NEW v
    PROVE  PoolHolds(r, k, d, v) \in Nat
<1>1. CASE pool_exists(r, k)
  <2>1. PoolMap[<<r, k>>].slots \in PoolSlots /\ Entries_valid(PoolMap[<<r, k>>].slots)
    BY <1>1, PoolOf
  <2> QED  BY <1>1, <2>1, SlotHoldsTyped DEF PoolHolds
<1>2. CASE ~ pool_exists(r, k)
  BY <1>2 DEF PoolHolds
<1> QED  BY <1>1, <1>2

LEMMA PoolsHoldTyped ==
    ASSUME PoolCore, NEW r \in Reasons, NEW d, NEW v
    PROVE  PoolsHold(r, d, v) \in Nat
<1> DEFINE f == [k \in Pools |-> PoolHolds(r, k, d, v)]
<1>1. \A k \in Pools : f[k] \in Nat
  BY PoolHoldsTyped
<1>2. PoolsHold(r, d, v) = SumFunctionOnSet(f, Pools)
  BY DEF PoolsHold
<1> HIDE DEF f
<1> QED  BY <1>1, <1>2, PoolsFinite, SumTyped

\* Pools as direct commitments see them.
LEMMA PoolsSeen ==
    ASSUME PoolCore, NEW sh, sh = [x \in Reasons \X Digests \X Positions |-> PoolsHold(x[1], x[2], x[3])]
    PROVE  Seen(sh, NoneFrozen)
<1>1. ASSUME NEW r \in Reasons, NEW d \in Digests, NEW v \in Positions
      PROVE  sh[<<r, d, v>>] \in Nat /\ DigestInfo(r, d)[v].issued = SharesIn(r, d, v) + sh[<<r, d, v>>]
  <2>1. PoolsHold(r, d, v) \in Nat
    BY PoolsHoldTyped
  <2>2. sh[<<r, d, v>>] = PoolsHold(r, d, v)
    OBVIOUS
  <2> QED  BY <2>1, <2>2 DEF PoolCore, DigestsHeld
<1>2. ASSUME NEW w \in Who, NEW r \in Reasons
      PROVE  /\ NoneFrozen[<<w, r>>] = 0
             /\ frozen[<<w, r>>] = DepositOf(w, r) + NoneFrozen[<<w, r>>]
  <2>1. NoneFrozen[<<w, r>>] = 0
    BY DEF NoneFrozen
  <2>2. frozen[<<w, r>>] = DepositOf(w, r) /\ frozen[<<w, r>>] \in Nat
    BY FrozenFor, PoolStored, AssetsAre
  <2> QED  BY <2>1, <2>2
<1>3. \A w \in Who, r \in Reasons :
         /\ NoneFrozen[<<w, r>>] \in Nat
         /\ frozen[<<w, r>>] = DepositOf(w, r) + NoneFrozen[<<w, r>>]
         /\ Directly(w, r) => NoneFrozen[<<w, r>>] = 0
  <2> SUFFICES ASSUME NEW w \in Who, NEW r \in Reasons
               PROVE  /\ NoneFrozen[<<w, r>>] \in Nat
                      /\ frozen[<<w, r>>] = DepositOf(w, r) + NoneFrozen[<<w, r>>]
                      /\ Directly(w, r) => NoneFrozen[<<w, r>>] = 0
    BY Zenon
  <2> QED  BY <1>2
<1> QED  BY <1>1, <1>3, Zenon DEF Seen

LEMMA DirectKeepsPools ==
    ASSUME PoolCore, [Next]_vars, UNCHANGED <<indexVars, poolVars>>
    PROVE  PoolCore'
<1>0. IndexMap' = IndexMap /\ EntryMap' = EntryMap /\ PoolMap' = PoolMap /\ PoolManager' = PoolManager
  BY DEF indexVars, poolVars
<1>1. PICK sh : sh = [x \in Reasons \X Digests \X Positions |-> PoolsHold(x[1], x[2], x[3])]
  OBVIOUS
<1>2. Seen(sh, NoneFrozen)
  BY <1>1, PoolsSeen
<1>3. Shared(PoolIds)' /\ Seen(sh, NoneFrozen)' /\ OthersStay
  <2>1. Digests \subseteq PoolIds /\ Shared(PoolIds)
    BY DEF PoolIds, PoolCore
  <2> QED  BY <1>2, <2>1, SharedStep
<1>4. IndexTypeOK' /\ EntryMap' = EmptyMap
  <2>1. free' \in [Who -> Assets] /\ ReasonValue' \in [Reasons -> Assets]
    BY <1>3 DEF Shared, StoredTypes
  <2> QED  BY <1>0, <2>1 DEF IndexTypeOK, PoolCore
<1>5. PoolsSound'
  BY <1>0 DEF PoolCore, PoolsSound
<1>6. AllFrozen'
  <2>1. ASSUME NEW w \in Who, NEW r \in Reasons
        PROVE  frozen'[<<w, r>>] = DepositOf(w, r)'
    <3>1. /\ frozen'[<<w, r>>] = DepositOf(w, r)' + NoneFrozen[<<w, r>>]
          /\ NoneFrozen[<<w, r>>] = 0
      BY <1>3 DEF Seen, NoneFrozen
    <3>2. frozen'[<<w, r>>] \in Nat
      BY <1>3, AssetsAre DEF Shared, StoredTypes
    <3>3. DepositOf(w, r)' \in Nat
      <4>1. CASE commit_exists(w, r)'
        <5>1. CommitMap'[<<w, r>>].commits \in Seq(Receipts)
          BY <1>3, <4>1 DEF Shared, StoredTypes, commit_exists
        <5> QED  BY <4>1, <5>1, ReceiptSums DEF DepositOf
      <4>2. CASE ~ commit_exists(w, r)'
        BY <4>2 DEF DepositOf
      <4> QED  BY <4>1, <4>2
    <3> QED  BY <3>1, <3>2, <3>3
  <2> QED  BY <2>1, FrozenThen
<1>7. DigestsHeld'
  <2> SUFFICES ASSUME NEW r \in Reasons, NEW d \in Digests, NEW v \in Positions
               PROVE  DigestInfo(r, d)'[v].issued = SharesIn(r, d, v)' + PoolsHold(r, d, v)'
    BY Zenon DEF DigestsHeld
  <2>1. DigestInfo(r, d)'[v].issued = SharesIn(r, d, v)' + sh[<<r, d, v>>]
    BY <1>3 DEF Seen
  <2>2. sh[<<r, d, v>>] = PoolsHold(r, d, v)
    BY <1>1
  <2>3. PoolsHold(r, d, v)' = PoolsHold(r, d, v)
    BY <1>0 DEF PoolsHold, PoolHolds, pool_exists
  <2> QED  BY <2>1, <2>2, <2>3
<1>8. PoolsHeld'
  <2> SUFFICES ASSUME NEW r \in Reasons, NEW k \in Pools
               PROVE  HeldOf(r, k)' = PoolIssued(r, k)'
    BY Zenon DEF PoolsHeld
  <2>1. HeldOf(r, k) = PoolIssued(r, k)
    BY DEF PoolCore, PoolsHeld
  <2>2. PoolIssued(r, k)' = PoolIssued(r, k)
    BY <1>0 DEF PoolIssued, pool_exists
  <2>3. \A w \in Who : HeldBy(w, r, k)' = HeldBy(w, r, k)
    <3> SUFFICES ASSUME NEW w \in Who
                 PROVE  HeldBy(w, r, k)' = HeldBy(w, r, k)
      OBVIOUS
    <3>1. k \notin Digests
      BY CommitPoolAssumption
    <3>2. CASE Directly(w, r)
      <4>1. Directly(w, r)'
        BY <1>3, <3>2 DEF OthersStay
      <4> QED  BY <3>1, <3>2, <4>1 DEF Directly, HeldBy
    <3>3. CASE ~ Directly(w, r)
      <4>1. commit_exists(w, r)' /\ CommitMap'[<<w, r>>] = CommitMap[<<w, r>>] /\ commit_exists(w, r)
        BY <1>3, <3>3 DEF OthersStay, Directly
      <4> QED  BY <4>1 DEF HeldBy
    <3> QED  BY <3>2, <3>3
  <2>4. HeldOf(r, k)' = HeldOf(r, k)
    BY <2>3, Zenon DEF HeldOf
  <2> QED  BY <2>1, <2>2, <2>4
<1> QED  BY <1>3, <1>4, <1>5, <1>6, <1>7, <1>8 DEF PoolCore

\* An index that is set up is what pools are made of.
LEMMA SetIndexKeepsPools ==
    ASSUME PoolCore, NEW r \in Reasons, NEW i \in Indexes, NEW D \in SUBSET Digests,
           NEW entries \in [D -> [shares : ShareValues, variant : Positions]], SetIndex(r, i, entries),
           UNCHANGED poolVars
    PROVE  PoolCore'
<1>1. /\ IndexMap' = Insert(IndexMap, <<r, i>>, [principal |-> 0, entries |-> entries])
      /\ Entries_valid(entries)
      /\ UNCHANGED <<free, hold, frozen>> /\ DigestMap' = DigestMap /\ CommitMap' = CommitMap
      /\ AssetToIssue' = AssetToIssue /\ AssetToReap' = AssetToReap
      /\ ReasonValue' = ReasonValue /\ adjusted' = adjusted /\ EntryMap' = EntryMap
      /\ PoolMap' = PoolMap /\ PoolManager' = PoolManager
  BY DEF SetIndex, vars, accounts, poolVars
<1>2. entries \in IndexEntries
  <2>1. entries \in [D -> Entry]
    BY CommitIndexAssumption DEF Entry
  <2> QED  BY <2>1, EntriesKind
<1>3. IndexTypeOK' /\ EntryMap' = EmptyMap
  <2> DEFINE new == [principal |-> 0, entries |-> entries]
  <2>1. new \in [principal : Assets, entries : IndexEntries] /\ Entries_valid(new.entries)
    BY <1>1, <1>2, ShareBalanceAssumption DEF Assets
  <2> HIDE DEF new
  <2>2. IndexMap' = Insert(IndexMap, <<r, i>>, new)
    BY <1>1 DEF new
  <2> QED  BY <1>1, <2>1, <2>2 DEF PoolCore, IndexTypeOK, Insert
<1>4. \A s, d : DigestInfo(s, d)' = DigestInfo(s, d)
  BY <1>1 DEF DigestInfo, digest_exists
<1>5. \A s : DigestValueOf(s)' = DigestValueOf(s)
  BY <1>4 DEF DigestValueOf
<1>6. Shared(PoolIds)'
  <2>1. StoredTypes(PoolIds)' /\ BalancesSound' /\ DirectBacked'
    BY <1>1 DEF PoolCore, Shared, StoredTypes, BalancesSound, DirectBacked, digest_exists
  <2>2. ReasonTotals'
    BY <1>1, <1>5 DEF PoolCore, Shared, ReasonTotals
  <2>3. Conservation'
    BY <1>1, <1>5 DEF PoolCore, Shared, Conservation, TotalDigestValue
  <2> QED  BY <2>1, <2>2, <2>3 DEF Shared
<1>7. CommitsFit(0, 0, 0)
  BY <1>1, NoneFit
<1>8. PoolsSound' /\ AllFrozen'
  BY <1>1, <1>7 DEF PoolCore, PoolsSound, CommitsFit
<1>9. DigestsHeld'
  <2> SUFFICES ASSUME NEW s \in Reasons, NEW d \in Digests, NEW v \in Positions
               PROVE  DigestInfo(s, d)'[v].issued = SharesIn(s, d, v)' + PoolsHold(s, d, v)'
    BY Zenon DEF DigestsHeld
  <2>1. DigestInfo(s, d)[v].issued = SharesIn(s, d, v) + PoolsHold(s, d, v)
    BY DEF PoolCore, DigestsHeld
  <2>2. SharesIn(s, d, v)' = SharesIn(s, d, v)
    BY <1>7 DEF CommitsFit
  <2>3. PoolsHold(s, d, v)' = PoolsHold(s, d, v)
    BY <1>1 DEF PoolsHold, PoolHolds, pool_exists
  <2> QED  BY <1>4, <2>1, <2>2, <2>3
<1>10. PoolsHeld'
  <2> SUFFICES ASSUME NEW s \in Reasons, NEW j \in Pools
               PROVE  HeldOf(s, j)' = PoolIssued(s, j)'
    BY Zenon DEF PoolsHeld
  <2>1. HeldOf(s, j) = PoolIssued(s, j)
    BY DEF PoolCore, PoolsHeld
  <2>2. PoolIssued(s, j)' = PoolIssued(s, j)
    BY <1>1 DEF PoolIssued, pool_exists
  <2>3. HeldOf(s, j)' = HeldOf(s, j)
    BY <1>1 DEF HeldOf, HeldBy, commit_exists
  <2> QED  BY <2>1, <2>2, <2>3
<1> QED  BY <1>3, <1>6, <1>8, <1>9, <1>10 DEF PoolCore

LEMMA PoolStart ==
    ASSUME PoolInit
    PROVE  PoolCore
<1>1. /\ DOMAIN IndexMap = {} /\ EntryMap = EmptyMap /\ DOMAIN EntryMap = {}
      /\ DOMAIN PoolMap = {} /\ DOMAIN PoolManager = {} /\ DOMAIN CommitMap = {} /\ Init
  BY DEF PoolInit, IndexInit, Init, EmptyMap
<1>2. Shared(PoolIds) /\ Seen(NoShares, NoneFrozen)
  BY <1>1, SharedStart DEF PoolIds
<1>3. IndexTypeOK
  BY <1>1, <1>2 DEF IndexTypeOK, Shared, StoredTypes
<1>4. PoolsSound
  BY <1>1 DEF PoolsSound
<1>5. AllFrozen
  <2>1. ASSUME NEW w \in Who, NEW r \in Reasons
        PROVE  frozen[<<w, r>>] = DepositOf(w, r)
    <3>1. frozen[<<w, r>>] = DepositOf(w, r) + 0
      BY <1>2 DEF Seen, NoneFrozen
    <3>2. DepositOf(w, r) = 0
      BY <1>1 DEF DepositOf, commit_exists
    <3> QED  BY <3>1, <3>2
  <2> QED  BY <2>1, FrozenNow
<1>6. DigestsHeld
  <2> SUFFICES ASSUME NEW r \in Reasons, NEW d \in Digests, NEW v \in Positions
               PROVE  DigestInfo(r, d)[v].issued = SharesIn(r, d, v) + PoolsHold(r, d, v)
    BY Zenon DEF DigestsHeld
  <2>1. DigestInfo(r, d)[v].issued = SharesIn(r, d, v) + 0
    BY <1>2 DEF Seen, NoShares
  <2>2. PoolsHold(r, d, v) = 0
    <3> DEFINE f == [k \in Pools |-> PoolHolds(r, k, d, v)]
    <3>1. PoolsHold(r, d, v) = SumFunction(f)
      BY DEF PoolsHold, SumFunction
    <3>2. IsFiniteSet(DOMAIN f) /\ \A k \in DOMAIN f : f[k] = 0
      BY <1>1, PoolsFinite DEF PoolHolds, pool_exists
    <3> HIDE DEF f
    <3> QED  BY <3>1, <3>2, SumOfZeros
  <2> QED  BY <2>1, <2>2
<1>7. PoolsHeld
  <2> SUFFICES ASSUME NEW r \in Reasons, NEW k \in Pools
               PROVE  HeldOf(r, k) = PoolIssued(r, k)
    BY Zenon DEF PoolsHeld
  <2> DEFINE f == [w \in Who |-> HeldBy(w, r, k)]
  <2>1. HeldOf(r, k) = SumFunction(f)
    BY DEF HeldOf, SumFunction
  <2>2. IsFiniteSet(DOMAIN f) /\ \A w \in DOMAIN f : f[w] = 0
    BY <1>1, FiniteAssumption DEF HeldBy, commit_exists
  <2> HIDE DEF f
  <2>3. HeldOf(r, k) = 0
    BY <2>1, <2>2, SumOfZeros
  <2>4. PoolIssued(r, k) = 0
    BY <1>1 DEF PoolIssued, pool_exists
  <2> QED  BY <2>3, <2>4
<1> QED  BY <1>1, <1>2, <1>3, <1>4, <1>5, <1>6, <1>7 DEF PoolCore

LEMMA PoolStepKeeps ==
    ASSUME PoolCore, [PoolNext]_<<vars, indexVars, poolVars>>
    PROVE  PoolCore'
<1>1. CASE Next /\ UNCHANGED <<indexVars, poolVars>>
  BY <1>1, DirectKeepsPools
<1>2. CASE UNCHANGED <<vars, indexVars, poolVars>>
  BY <1>2, DirectKeepsPools
<1>3. ASSUME NEW r \in Reasons, NEW i \in Indexes, NEW D \in SUBSET Digests,
             NEW entries \in [D -> [shares : ShareValues, variant : Positions]],
             SetIndex(r, i, entries) /\ UNCHANGED poolVars
      PROVE  PoolCore'
  BY <1>3, SetIndexKeepsPools
<1>4. ASSUME NEW r \in Reasons, NEW k \in Pools, NEW w \in Who, SetPoolManager(w, r, k)
      PROVE  PoolCore'
  BY <1>4, SetManagerKeeps
<1>5. ASSUME NEW r \in Reasons, NEW k \in Pools, NEW w \in Who, NEW i \in Indexes,
             NEW c \in Commissions, SetPool(w, r, k, i, c)
      PROVE  PoolCore'
  BY <1>5, SetPoolKeeps
<1>6. ASSUME NEW r \in Reasons, NEW k \in Pools, NEW w \in Who, NEW v \in Positions,
             NEW x \in Amounts, NEW p \in Policies, PlacePoolCommit(w, r, k, v, x, p)
      PROVE  PoolCore'
  BY <1>6, PlacePoolKeeps
<1>7. ASSUME NEW r \in Reasons, NEW k \in Pools, NEW d \in Digests, RemovePoolSlot(r, k, d)
      PROVE  PoolCore'
  BY <1>7, RemoveSlotKeeps
<1>8. ASSUME NEW r \in Reasons, NEW k \in Pools, NEW d \in Digests, NEW s \in ShareValues,
             NEW v \in Positions, SetPoolSlot(r, k, d, [shares |-> s, variant |-> v])
      PROVE  PoolCore'
  BY <1>8, SetSlotKeeps
<1>9. ASSUME NEW r \in Reasons, NEW k \in Pools, ReapPool(r, k)
      PROVE  PoolCore'
  BY <1>9, ReapPoolKeeps
<1>10. ASSUME NEW w \in Who, NEW r \in Reasons, ResolvePoolCommit(w, r)
       PROVE  PoolCore'
  BY <1>10, ResolvePoolKeeps
<1>11. ASSUME NEW w \in Who, NEW r \in Reasons, NEW x \in Amounts, NEW p \in Policies,
              RaisePoolCommit(w, r, x, p)
       PROVE  PoolCore'
  BY <1>11, RaisePoolKeeps
<1> QED  BY <1>1, <1>2, <1>3, <1>4, <1>5, <1>6, <1>7, <1>8, <1>9, <1>10, <1>11 DEF PoolNext, PoolStep

\* What the calls about pools rely on and keep: every release and recovery, every
\* change of slots and every commitment to a pool leaves the shares, the slots'
\* receipts and the totals as PoolCore says, and so do direct commitments.
THEOREM PoolCoreInductive == PoolSpec => []PoolCore
<1>1. PoolInit => PoolCore
  BY PoolStart
<1>2. PoolCore /\ [PoolNext]_<<vars, indexVars, poolVars>> => PoolCore'
  BY PoolStepKeeps
<1> QED  BY <1>1, <1>2, PTL DEF PoolSpec

-----------------------------------------------------------------------------
(* What it says of what a caller sees *)

LEMMA PoolSharesHeld ==
    ASSUME PoolCore
    PROVE  PoolShares
<1> SUFFICES ASSUME NEW r \in Reasons, NEW k \in Pools
             PROVE  LET mine == {x \in DOMAIN CommitMap : x[2] = r /\ CommitMap[x].digest = k}
                        shares(c) == SumFunction([n \in DOMAIN c |-> c[n].shares])
                    IN  SumFunction([x \in mine |-> shares(CommitMap[x].commits)])
                            = IF pool_exists(r, k) THEN PoolMap[<<r, k>>].balance.issued ELSE 0
  BY DEF PoolShares
<1> DEFINE mine == {x \in DOMAIN CommitMap : x[2] = r /\ CommitMap[x].digest = k}
           g == [x \in mine |-> Shares(CommitMap[x].commits)]
           f == [w \in Who |-> HeldBy(w, r, k)]
           h == [w \in Who |-> <<w, r>>]
           U == {w \in Who : commit_exists(w, r) /\ CommitMap[<<w, r>>].digest = k}
<1>1. DOMAIN CommitMap \subseteq Who \X Reasons
  BY PoolStored
<1>2. mine = {h[w] : w \in U}
  <2>1. ASSUME NEW x \in mine
        PROVE  x \in {h[w] : w \in U}
    <3>1. PICK w \in Who : x = <<w, r>>
      BY <1>1
    <3>2. w \in U
      BY <3>1 DEF commit_exists
    <3> QED  BY <3>1, <3>2
  <2>2. ASSUME NEW w \in U
        PROVE  h[w] \in mine
    BY DEF commit_exists
  <2> QED  BY <2>1, <2>2
<1>3. \A w \in U : g[h[w]] = f[w]
  BY DEF commit_exists, HeldBy
<1>4. \A w \in Who \ U : f[w] = 0
  BY DEF HeldBy
<1>5. \A w \in Who : f[w] \in Int
  BY HeldTyped
<1>6. \A x, y \in Who : h[x] = h[y] => x = y
  OBVIOUS
<1>7. U \in SUBSET Who
  OBVIOUS
<1>8. SumFunction(g) = SumFunctionOnSet(g, mine) /\ HeldOf(r, k) = SumFunctionOnSet(f, Who)
  BY DEF SumFunction, HeldOf
<1>9. HeldOf(r, k) = PoolIssued(r, k)
  BY DEF PoolCore, PoolsHeld
<1> HIDE DEF f, g, h, U, mine
<1>10. Counted(f, Who, g, h, mine)
  BY <1>2, <1>3, <1>4, <1>5, <1>6, <1>7, FiniteAssumption DEF Counted
<1>11. SumFunction(g) = PoolIssued(r, k)
  <2>1. SumFunctionOnSet(g, mine) = SumFunctionOnSet(f, Who)
    BY <1>10, SumCounted
  <2> QED  BY <1>8, <1>9, <2>1
<1> QED  BY <1>11 DEF g, mine, Shares, PoolIssued

LEMMA SlotSharesHeld ==
    ASSUME PoolCore, NEW r \in Reasons, NEW d \in Digests, NEW v \in Positions
    PROVE  SlotSharesIn(r, d, v) = PoolsHold(r, d, v)
<1> DEFINE mine == {x \in DOMAIN PoolMap : /\ x[1] = r /\ d \in DOMAIN PoolMap[x].slots
                                           /\ PoolMap[x].slots[d].variant = v}
           g == [x \in mine |-> PoolMap[x].slots[d].commit.shares]
           f == [k \in Pools |-> PoolHolds(r, k, d, v)]
           h == [k \in Pools |-> <<r, k>>]
           U == {k \in Pools : /\ pool_exists(r, k) /\ d \in DOMAIN PoolMap[<<r, k>>].slots
                               /\ PoolMap[<<r, k>>].slots[d].variant = v}
<1>1. DOMAIN PoolMap \subseteq Reasons \X Pools
  BY DEF PoolCore, PoolsSound
<1>2. mine = {h[k] : k \in U}
  <2>1. ASSUME NEW x \in mine
        PROVE  x \in {h[k] : k \in U}
    <3>1. PICK k \in Pools : x = <<r, k>>
      BY <1>1
    <3>2. k \in U
      BY <3>1 DEF pool_exists
    <3> QED  BY <3>1, <3>2
  <2>2. ASSUME NEW k \in U
        PROVE  h[k] \in mine
    BY DEF pool_exists
  <2> QED  BY <2>1, <2>2
<1>3. \A k \in U : g[h[k]] = f[k]
  BY DEF pool_exists, PoolHolds, SlotHolds
<1>4. \A k \in Pools \ U : f[k] = 0
  BY DEF PoolHolds, SlotHolds
<1>5. \A k \in Pools : f[k] \in Int
  BY PoolHoldsTyped
<1>6. \A x, y \in Pools : h[x] = h[y] => x = y
  OBVIOUS
<1>7. U \in SUBSET Pools
  OBVIOUS
<1>8. /\ SlotSharesIn(r, d, v) = SumFunctionOnSet(g, mine)
      /\ PoolsHold(r, d, v) = SumFunctionOnSet(f, Pools)
  BY DEF SlotSharesIn, SumFunction, PoolsHold
<1> HIDE DEF f, g, h, U, mine
<1>9. Counted(f, Pools, g, h, mine)
  BY <1>2, <1>3, <1>4, <1>5, <1>6, <1>7, PoolsFinite DEF Counted
<1> QED  BY <1>8, <1>9, SumCounted

LEMMA DirectSharesTyped ==
    ASSUME PoolCore, NEW r \in Reasons, NEW d \in Digests, NEW v \in Positions
    PROVE  SharesIn(r, d, v) \in Nat
<1>1. PICK sh : sh = [x \in Reasons \X Digests \X Positions |-> PoolsHold(x[1], x[2], x[3])]
  OBVIOUS
<1>2. Seen(sh, NoneFrozen) /\ Digests \subseteq PoolIds
  BY <1>1, PoolsSeen DEF PoolIds
<1>3. PICK o : CoreInv(o)
  BY <1>2, CoreFrom DEF PoolCore
<1> QED  BY <1>3, SharesInTyped DEF CoreInv

LEMMA PoolCoreGives ==
    ASSUME PoolCore
    PROVE  PoolInv
<1>1. Shared(PoolIds) /\ IndexTypeOK /\ EntryMap = EmptyMap /\ PoolsSound /\ AllFrozen /\ DigestsHeld
  BY DEF PoolCore
<1>2. PoolTypeOK
  <2>1. free \in [Who -> Assets] /\ ReasonValue \in [Reasons -> Assets]
        /\ AssetToIssue \in Assets /\ AssetToReap \in Assets
    BY PoolStored
  <2> QED  BY <1>1, <2>1 DEF PoolTypeOK, PoolsSound, PoolSound
<1>3. \A x \in DOMAIN PoolMap : PoolManager[x] \in Who /\ SoundBalance(PoolMap[x].balance)
  BY <1>1 DEF PoolsSound, PoolSound
<1>4. SlotsCount
  BY <1>1 DEF SlotsCount, PoolsSound, PoolSound
<1>5. PoolInvested
  BY <1>1 DEF PoolInvested, PoolsSound, PoolSound, SlotPrincipals
<1>6. PoolReceiptsHoldShares
  <2> SUFFICES ASSUME NEW r \in Reasons, NEW d \in Digests, NEW v \in Positions
               PROVE  DigestInfo(r, d)[v].issued =
                         SharesIn(r, d, v) + EntrySharesIn(r, d, v) + SlotSharesIn(r, d, v)
    BY Zenon DEF PoolReceiptsHoldShares
  <2>1. DigestInfo(r, d)[v].issued = SharesIn(r, d, v) + PoolsHold(r, d, v)
    BY <1>1 DEF DigestsHeld
  <2>2. EntrySharesIn(r, d, v) = 0
    <3> DEFINE mine == {x \in DOMAIN EntryMap :
                           /\ x[1] = r /\ x[3] = d
                           /\ IndexMap[<<r, x[2]>>].entries[d].variant = v}
               f == [x \in mine |-> SumFunction([n \in DOMAIN EntryMap[x] |-> EntryMap[x][n].shares])]
    <3>1. EntrySharesIn(r, d, v) = SumFunction(f) /\ DOMAIN f = {}
      BY <1>1 DEF EntrySharesIn, EmptyMap
    <3> HIDE DEF f
    <3> QED  BY <3>1, SumNothing
  <2>3. SharesIn(r, d, v) \in Nat /\ PoolsHold(r, d, v) \in Nat
    BY DirectSharesTyped, PoolsHoldTyped
  <2>4. SlotSharesIn(r, d, v) = PoolsHold(r, d, v)
    BY SlotSharesHeld
  <2> QED  BY <2>1, <2>2, <2>3, <2>4
<1>7. SharesOwned
  BY <1>6, PoolSharesHeld DEF SharesOwned
<1>8. Books
  <2>1. IndexFrozen
    <3> SUFFICES ASSUME NEW w \in Who, NEW r \in Reasons
                 PROVE  frozen[<<w, r>>] = DepositOf(w, r)
                          + PrincipalsOver({y \in DOMAIN EntryMap : y[1] = r /\ y[4] = w})
      BY Zenon DEF IndexFrozen
    <3>1. {y \in DOMAIN EntryMap : y[1] = r /\ y[4] = w} = {}
      BY <1>1 DEF EmptyMap
    <3>2. PrincipalsOver({y \in DOMAIN EntryMap : y[1] = r /\ y[4] = w}) = 0
      BY <3>1, PrincipalsOfNone
    <3>3. frozen[<<w, r>>] = DepositOf(w, r) /\ frozen[<<w, r>>] \in Nat
      BY FrozenFor, PoolStored, AssetsAre
    <3> QED  BY <3>2, <3>3
  <2> QED  BY <1>1, <2>1 DEF Books, Shared
<1> QED  BY <1>1, <1>2, <1>3, <1>4, <1>5, <1>7, <1>8 DEF PoolInv, Shared, PoolIds

\* Whatever is called on pools, and on direct commitments beside them: the storage
\* is typed, every share is owned, every pool has invested what it believes to
\* hold, every receipt in use counts, and the books balance.
THEOREM PoolInductive == PoolSpec => []PoolInv
<1>1. PoolCore => PoolInv
  BY PoolCoreGives
<1> QED  BY <1>1, PoolCoreInductive, PTL

\* PoolMap, PoolManager and the totals stay within the types of the storage.
THEOREM PoolTypesCorrect == PoolSpec => []PoolTypeOK
<1>1. PoolInv => PoolTypeOK
  BY DEF PoolInv
<1> QED  BY <1>1, PoolInductive, PTL

\* release_pool and recover_pool around every change, place_commit, raise_commit
\* and resolve_commit of a pool, reap_pool: the shares of a pool are those of the
\* commitments to it, and the shares of a digest are those of the receipts in
\* direct commitments and in slots.
THEOREM PoolSharesOwned == PoolSpec => []SharesOwned
<1>1. PoolInv => SharesOwned
  BY DEF PoolInv
<1> QED  BY <1>1, PoolInductive, PTL

\* recover_pool reaps from the pool's balance what it could not pay into a slot:
\* a pool never promises its depositors the dust that went to the manager.
THEOREM PoolMoneyInvested == PoolSpec => []PoolInvested
<1>1. PoolInv => PoolInvested
  BY DEF PoolInv
<1> QED  BY <1>1, PoolInductive, PTL

\* Dust, commissions and what is paid out leave the total of the reason, and no
\* value appears or disappears, in pools and direct commitments together.
THEOREM PoolBooksBalance == PoolSpec => []Books
<1>1. PoolInv => Books
  BY DEF PoolInv
<1> QED  BY <1>1, PoolInductive, PTL

-----------------------------------------------------------------------------
(* What pools quote *)

\* A slot in use is worth something known: its digest is there, and it was funded
\* at a price.
LEMMA SlotValueTyped ==
    ASSUME PoolCore, NEW r \in Reasons, NEW k \in Pools, pool_exists(r, k), NEW d
    PROVE  get_slot_value(r, k, d) \in Nat
<1> DEFINE p == PoolMap[<<r, k>>]
           c == p.slots[d].commit
           b == SlotBalance(r, p, d)
           v == p.slots[d].variant
<1>1. CASE d \notin InUse(p)
  BY <1>1 DEF get_slot_value
<1>2. CASE d \in InUse(p)
  <2>1. PoolSound(p) /\ p.slots \in PoolSlots /\ Entries_valid(p.slots) /\ d \in DOMAIN p.slots
    BY <1>2, PoolOf DEF InUse
  <2>2. d \in Digests /\ v \in Positions /\ c \in Receipts /\ c.shares \in Nat
    BY <2>1, SlotsFit
  <2>3. c.shares # 0 /\ c.bias # 0
    BY <1>2, <2>1 DEF PoolSound
  <2>4. PoolHolds(r, k, d, v) = c.shares
    BY <2>1 DEF PoolHolds, SlotHolds
  <2>5. c.shares <= PoolsHold(r, d, v)
    <3> DEFINE f == [j \in Pools |-> PoolHolds(r, j, d, v)]
    <3>1. DOMAIN f = Pools /\ f[k] = c.shares /\ PoolsHold(r, d, v) = SumFunction(f)
      BY <2>4 DEF PoolsHold, SumFunction
    <3>2. \A j \in Pools : f[j] \in Nat
      BY PoolHoldsTyped
    <3> HIDE DEF f, c, v
    <3> QED  BY <3>1, <3>2, PoolsFinite, SumOfNats
  <2>6. digest_exists(r, d)
    <3> SUFFICES ASSUME ~ digest_exists(r, d)  PROVE FALSE
      OBVIOUS
    <3>1. DigestInfo(r, d)[v].issued = SharesIn(r, d, v) + PoolsHold(r, d, v)
      BY <2>2 DEF PoolCore, DigestsHeld
    <3>2. DigestInfo(r, d)[v].issued = 0
      BY <2>2, FreshSound DEF DigestInfo, NoDigestInfo, FreshBalance
    <3>3. SharesIn(r, d, v) \in Nat /\ PoolsHold(r, d, v) \in Nat
      BY <2>2, DirectSharesTyped, PoolsHoldTyped
    <3> HIDE DEF c, v
    <3> QED  BY <2>2, <2>3, <2>5, <3>1, <3>2, <3>3
  <2>7. b \in Balances
    BY <2>2, <2>6 DEF PoolCore, Shared, StoredTypes, digest_exists, SlotBalance
  <2>8. get_slot_value(r, k, d) = WithdrawPaid(b, c)
    BY <1>2 DEF get_slot_value, ReceiptActiveValue
  <2> HIDE DEF b, c, p
  <2>9. price_at_deposit(b, c) # 0
    BY <2>3, ShareBalanceAssumption DEF price_at_deposit, One
  <2>10. redeem_value(b, c) \in Nat /\ b.effective \in Nat
    BY <2>2, <2>7, <2>9, RedeemBound, ShareBalanceAssumption DEF Balances
  <2> QED  BY <2>8, <2>10 DEF WithdrawPaid, withdraw_value, Least
<1> QED  BY <1>1, <1>2

LEMMA PoolValueTyped ==
    ASSUME PoolCore, NEW r \in Reasons, NEW k \in Pools, pool_exists(r, k)
    PROVE  get_pool_value(r, k) \in Nat
<1> DEFINE D == DOMAIN PoolMap[<<r, k>>].slots
           f == [d \in D |-> get_slot_value(r, k, d)]
<1>1. DOMAIN f = D /\ \A d \in D : f[d] \in Nat
  BY SlotValueTyped
<1>2. IsFiniteSet(D)
  BY PoolOf, SlotsFit
<1>3. get_pool_value(r, k) = Least(SumFunction(f), MaxAsset)
  BY DEF get_pool_value
<1> HIDE DEF f, D
<1>4. SumFunction(f) \in Nat
  BY <1>1, <1>2, SumOfNats
<1> QED  BY <1>3, <1>4, ShareBalanceAssumption DEF Least

\* A pool is quoted only when every slot is in use and answers, and then at what
\* a release brings back.
LEMMA PoolQuoted ==
    ASSUME PoolCore, NEW w \in Who, NEW r \in Reasons, NEW k \in Pools, pool_exists(r, k),
           commit_exists(w, r), CommitMap[<<w, r>>].digest = k, pool_quoted(w, r)
    PROVE  LET b == PoolMap[<<r, k>>].balance
               x == get_pool_value(r, k)
               c == adjust_balance(b, x)
               s == CommitMap[<<w, r>>].commits
           IN  /\ x \in Nat /\ x = SlotsPay(r, PoolMap[<<r, k>>])
               /\ release_balance(r, k) = c
               /\ c \in Balances /\ SoundBalance(c) /\ c.effective = x /\ c.issued = PoolIssued(r, k)
               /\ Covered(pool_commit_value(w, r), HeldBy(w, r, k), c)
<1> DEFINE p == PoolMap[<<r, k>>]
           b == p.balance
           D == DOMAIN p.slots
           f == [d \in D |-> get_slot_value(r, k, d)]
           x == get_pool_value(r, k)
           c == adjust_balance(b, x)
           s == CommitMap[<<w, r>>].commits
<1>1. PoolSound(p) /\ b \in Balances /\ SoundBalance(b) /\ p.slots \in PoolSlots /\ Entries_valid(p.slots)
  BY PoolOf DEF PoolSound
<1>2. D \subseteq Digests /\ IsFiniteSet(D) /\ D # {}
  BY <1>1, SlotsFit
<1>3. /\ \A d \in D : digest_exists(r, d) /\ WithdrawSucceeds(SlotBalance(r, p, d), p.slots[d].commit)
      /\ SumFunction(f) <= MaxAsset
      /\ x > b.effective => MintSucceeds(b, x - b.effective)
      /\ x < b.effective => ReapSucceeds(b, b.effective - x)
      /\ withdraw_from_digest(c, s).ok
  BY DEF pool_quoted, slot_quoted, TotalValue
<1>4. InUse(p) = D
  <2>1. ASSUME NEW d \in D
        PROVE  p.slots[d].commit # NoReceipt
    BY <1>3 DEF WithdrawSucceeds, CanWithdraw, NoReceipt
  <2> QED  BY <2>1 DEF InUse
<1>5. \A d \in D : f[d] \in Nat
  <2> SUFFICES ASSUME NEW d \in D  PROVE f[d] \in Nat
    OBVIOUS
  <2>1. SlotReleased(r, p, d)
    BY <1>1, <1>3, <1>4, OneSlotReleased
  <2>2. f[d] = SlotPaid(r, p)[d]
    BY <1>4 DEF get_slot_value, ReceiptActiveValue, SlotPaid
  <2> QED  BY <2>1, <2>2 DEF SlotReleased
<1>6. f = [d \in InUse(p) |-> WithdrawPaid(SlotBalance(r, p, d), p.slots[d].commit)]
  BY <1>4 DEF get_slot_value, ReceiptActiveValue
<1>7. SumFunction(f) = SlotsPay(r, p)
  BY <1>6 DEF SlotsPay
<1>8. x \in Nat /\ x = SlotsPay(r, p)
  <2>1. x = Least(SumFunction(f), MaxAsset)
    BY DEF get_pool_value
  <2>2. DOMAIN f = D
    OBVIOUS
  <2> HIDE DEF f, D
  <2>3. SumFunction(f) \in Nat
    BY <1>2, <1>5, <2>2, SumTyped DEF SumFunction
  <2> QED  BY <1>3, <1>7, <2>1, <2>3 DEF Least
<1>9. b # FreshBalance
  BY <1>1, <1>2, <1>4 DEF PoolSound
<1>10. release_balance(r, k) = c
  BY <1>8, <1>9 DEF release_balance
<1>11. PoolIssued(r, k) = b.issued
  BY DEF PoolIssued
<1>12. s \in Seq(Receipts)
  BY DEF PoolCore, Shared, StoredTypes, commit_exists
<1>13. HeldBy(w, r, k) = Shares(s) /\ pool_commit_value(w, r) = withdraw_from_digest(c, s).taken
  BY DEF HeldBy, pool_commit_value
<1> HIDE DEF s, f, D
<1>14. c \in Balances /\ SoundBalance(c) /\ c.effective = x /\ c.issued = b.issued
  <2> HIDE DEF x, b
  <2> QED  BY <1>1, <1>3, <1>8, AdjustedTo
<1>15. Covered(pool_commit_value(w, r), HeldBy(w, r, k), c)
  <2> HIDE DEF c
  <2> QED  BY <1>3, <1>12, <1>13, <1>14, WithdrawnCovered
<1> QED  BY <1>8, <1>10, <1>11, <1>14, <1>15

\* The quotes of all who are committed to a pool add up to no more than it.
LEMMA PoolClaims ==
    ASSUME PoolCore, NEW r \in Reasons, NEW k \in Pools, pool_exists(r, k)
    PROVE  LET asked == {w \in CommittedTo(r, k) : pool_quoted(w, r)}
           IN  SumFunction([w \in asked |-> pool_commit_value(w, r)]) <= get_pool_value(r, k)
<1> DEFINE A == {w \in CommittedTo(r, k) : pool_quoted(w, r)}
           q == [w \in A |-> pool_commit_value(w, r)]
           s == [w \in Who |-> HeldBy(w, r, k)]
           x == get_pool_value(r, k)
           c == adjust_balance(PoolMap[<<r, k>>].balance, x)
<1>1. A \in SUBSET Who
  BY DEF CommittedTo
<1>2. IsFiniteSet(A)
  BY <1>1, FiniteAssumption, FS_Subset
<1>3. ASSUME NEW w \in A
      PROVE  /\ x \in Nat /\ c \in Balances /\ c.effective = x /\ c.issued = PoolIssued(r, k)
             /\ Covered(q[w], s[w], c)
  <2>1. /\ commit_exists(w, r) /\ CommitMap[<<w, r>>].digest = k /\ pool_quoted(w, r) /\ w \in Who
    BY DEF CommittedTo
  <2>2. q[w] = pool_commit_value(w, r) /\ s[w] = HeldBy(w, r, k)
    BY <1>1
  <2> HIDE DEF A, q, s
  <2> QED  BY <2>1, <2>2, PoolQuoted
<1>4. SumFunction(q) = SumFunctionOnSet(q, A) /\ HeldOf(r, k) = SumFunctionOnSet(s, Who)
  BY DEF SumFunction, HeldOf
<1>5. \A w \in Who : s[w] \in Nat
  BY HeldTyped
<1>6. HeldOf(r, k) = PoolIssued(r, k)
  BY DEF PoolCore, PoolsHeld
<1>7. CASE A = {}
  <2>1. SumFunction(q) = 0
    BY <1>7, SumNothing
  <2> QED  BY <2>1, PoolValueTyped
<1>8. CASE A # {}
  <2>1. x \in Nat /\ c \in Balances /\ c.effective = x /\ c.issued = PoolIssued(r, k)
    BY <1>3, <1>8
  <2> HIDE DEF A, q, s, x, c
  <2>2. c.issued \in Nat
    BY <2>1, ShareBalanceAssumption DEF Balances
  <2>3. Backs(q, s, A, c)
    BY <1>2, <1>3 DEF Backs, Covered
  <2>4. /\ SumFunctionOnSet(q, A) \in Nat /\ SumFunctionOnSet(s, A) \in Nat
        /\ SumFunctionOnSet(q, A) * c.issued <= SumFunctionOnSet(s, A) * c.effective
        /\ c.issued = 0 => SumFunctionOnSet(q, A) = 0
    BY <2>1, <2>2, <2>3, BackedSum
  <2>5. SumFunctionOnSet(s, A) <= c.issued
    <3>1. SumFunctionOnSet(s, A) <= SumFunctionOnSet(s, Who)
      BY <1>1, <1>5, FiniteAssumption, SumSubset
    <3> QED  BY <1>4, <1>6, <2>1, <3>1
  <2>6. SumFunctionOnSet(q, A) <= x
    <3>1. PICK a \in Nat, t \in Nat, n \in Nat : /\ a = SumFunctionOnSet(q, A) /\ n = c.issued
                                                 /\ t = SumFunctionOnSet(s, A)
      BY <2>2, <2>4
    <3>2. CASE n = 0
      BY <2>1, <2>4, <3>1, <3>2
    <3>3. CASE n # 0
      <4>1. a * n <= t * x /\ t <= n
        BY <2>1, <2>4, <2>5, <3>1
      <4>2. t * x <= n * x /\ n * x = x * n /\ a * n \in Nat /\ t * x \in Nat /\ x * n \in Nat
        BY <2>1, <4>1, MulMono, MulNat, Z3
      <4>3. a <= x
        BY <2>1, <3>3, <4>1, <4>2, MulCancel
      <4> QED  BY <3>1, <4>3
    <3> QED  BY <3>2, <3>3
  <2> QED  BY <1>4, <2>6 DEF A, q, x
<1> QED  BY <1>7, <1>8 DEF A, q, x

\* What the released balance pays, the check on the balance as it was left lets
\* through.
LEMMA PoolChecks ==
    ASSUME PoolCore, NEW w \in Who, NEW r \in Reasons, NEW k \in Pools, pool_exists(r, k),
           commit_exists(w, r), CommitMap[<<w, r>>].digest = k,
           release_succeeds(r, k), PoolWithdrawal(w, r).ok
    PROVE  can_resolve_pool_commit(w, r)
<1> DEFINE b == PoolMap[<<r, k>>].balance
           c == release_balance(r, k)
           s == CommitMap[<<w, r>>].commits
           out == withdraw_from_digest(c, s)
<1>1. s \in Seq(Receipts)
  BY DEF PoolCore, Shared, StoredTypes, commit_exists
<1>2. SoundBalance(b) /\ PoolIssued(r, k) = b.issued
  BY PoolOf DEF PoolSound, PoolIssued
<1>3. c \in Balances /\ SoundBalance(c) /\ c.issued = PoolIssued(r, k)
  BY BalanceReleased
<1>4. out.ok /\ PoolWithdrawal(w, r) = out
  BY DEF PoolWithdrawal
<1>5. b = FreshBalance => c = FreshBalance
  BY DEF release_balance
<1>6. can_resolve_pool_commit(w, r) <=> \A n \in DOMAIN s : CanWithdraw(b, s[n])
  BY DEF can_resolve_pool_commit, can_withdraw_all
<1> HIDE DEF b, c, s, out
<1>7. \A n \in DOMAIN s : CanWithdraw(c, s[n])
  <2>1. Progress(c, s, Len(s), out)
    BY <1>1, <1>3, <1>4, Withdrawn DEF out
  <2> QED  BY <1>1, <2>1, ReceiptSums DEF Progress
<1>8. c.init => b.init
  <2>1. ~ b.init => c = FreshBalance
    BY <1>2, <1>5 DEF SoundBalance
  <2> QED  BY <2>1 DEF FreshBalance
<1> QED  BY <1>2, <1>3, <1>6, <1>7, <1>8 DEF CanWithdraw

\* What the parts of a quote that lie in the slots add up to.
LEMMA SlotClaims ==
    ASSUME PoolCore, NEW w \in Who, NEW r \in Reasons, NEW k \in Pools, pool_exists(r, k),
           CommitMap[<<w, r>>].digest = k, pool_commit_value(w, r) \in Nat
    PROVE  SumFunction([d \in DOMAIN PoolMap[<<r, k>>].slots |-> pool_slot_commit_value(w, r, d)])
             <= pool_commit_value(w, r)
<1> DEFINE e == PoolMap[<<r, k>>].slots
           x == pool_commit_value(w, r)
<1>1. e \in PoolSlots /\ Entries_valid(e)
  BY PoolOf
<1>2. IsFiniteSet(DOMAIN e) /\ DOMAIN e # {} /\ \A d \in DOMAIN e : e[d].shares \in Nat \ {0}
  BY <1>1, SlotsFit
<1>3. SumFunction([d \in DOMAIN e |-> pool_slot_commit_value(w, r, d)]) = index_actual(e, x)
  BY DEF pool_slot_commit_value, index_actual
<1> HIDE DEF e, x
<1>4. index_actual(e, x) <= x
  BY <1>2, SplitBound DEF x
<1> QED  BY <1>3, <1>4 DEF e, x

\* pool_commit_value and pool_slot_commit_value move nothing, and say what a
\* withdrawal that releases every slot then pays; can_resolve_commit, which looks
\* at the pool as it was left, refuses none that would be paid; and what all who
\* are committed are told is no more than the slots are worth together.
THEOREM PoolQuotesAreKept == PoolSpec => []PoolQuotes
<1>1. PoolCore => PoolQuotes
  <2> SUFFICES ASSUME PoolCore  PROVE PoolQuotes
    OBVIOUS
  <2>1. ASSUME NEW x \in DOMAIN PoolMap
        PROVE  LET r == x[1]
                   k == x[2]
                   asked == {w \in CommittedTo(r, k) : pool_quoted(w, r)}
               IN  /\ \A w \in asked :
                         /\ PoolWithdrawal(w, r).ok => PoolWithdrawal(w, r).taken = pool_commit_value(w, r)
                         /\ SumFunction([d \in DOMAIN PoolMap[x].slots |-> pool_slot_commit_value(w, r, d)])
                               <= pool_commit_value(w, r)
                   /\ SumFunction([w \in asked |-> pool_commit_value(w, r)]) <= get_pool_value(r, k)
                   /\ \A w \in CommittedTo(r, k) :
                         release_succeeds(r, k) /\ PoolWithdrawal(w, r).ok => can_resolve_pool_commit(w, r)
    <3>1. PICK r \in Reasons, k \in Pools : x = <<r, k>>
      BY DEF PoolCore, PoolsSound
    <3>2. x[1] = r /\ x[2] = k /\ pool_exists(r, k)
      BY <3>1 DEF pool_exists
    <3>3. ASSUME NEW w \in CommittedTo(r, k), pool_quoted(w, r)
          PROVE  /\ PoolWithdrawal(w, r).taken = pool_commit_value(w, r)
                 /\ SumFunction([d \in DOMAIN PoolMap[<<r, k>>].slots |-> pool_slot_commit_value(w, r, d)])
                       <= pool_commit_value(w, r)
      <4>1. w \in Who /\ commit_exists(w, r) /\ CommitMap[<<w, r>>].digest = k
        BY DEF CommittedTo
      <4>2. /\ release_balance(r, k) = adjust_balance(PoolMap[<<r, k>>].balance, get_pool_value(r, k))
            /\ pool_commit_value(w, r) \in Nat
        BY <3>2, <3>3, <4>1, PoolQuoted DEF Covered
      <4>3. PoolWithdrawal(w, r).taken = pool_commit_value(w, r)
        BY <4>1, <4>2 DEF PoolWithdrawal, pool_commit_value
      <4> QED  BY <3>2, <4>1, <4>2, <4>3, SlotClaims
    <3>4. SumFunction([w \in {w \in CommittedTo(r, k) : pool_quoted(w, r)} |-> pool_commit_value(w, r)])
            <= get_pool_value(r, k)
      BY <3>2, PoolClaims
    <3>5. ASSUME NEW w \in CommittedTo(r, k), release_succeeds(r, k), PoolWithdrawal(w, r).ok
          PROVE  can_resolve_pool_commit(w, r)
      <4>1. w \in Who /\ commit_exists(w, r) /\ CommitMap[<<w, r>>].digest = k
        BY DEF CommittedTo
      <4> QED  BY <3>2, <3>5, <4>1, PoolChecks
    <3> QED  BY <3>1, <3>2, <3>3, <3>4, <3>5
  <2> QED  BY <2>1, Zenon DEF PoolQuotes
<1> QED  BY <1>1, PoolCoreInductive, PTL

===============================================================================
