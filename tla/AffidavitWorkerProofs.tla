------------------------ MODULE AffidavitWorkerProofs ------------------------
(***************************************************************************)
(* AffidavitWorker implements KeyCycle, and without a fault the worker     *)
(* keeps every key the chain has registered, for every set of keys, every  *)
(* session length, every place of the affidavits and elections in the      *)
(* session, every depth of finality and any number of faults.              *)
(***************************************************************************)
EXTENDS AffidavitWorker, TLAPS

Active == hash[ACTIVE_AFDT_KEY]
NextK  == hash[NEXT_AFDT_KEY]

Dropping == pc \in {"drop next", "forget next", "drop active", "forget active"}

-----------------------------------------------------------------------------
(* What the worker's place says about the two slots *)

\* Once InitAffidavitKey has found the active key, it stays readable until it
\* is replaced or dropped; the next key from its declaration until it is moved.
FoundKeysReadable ==
    /\ pc \in {"elect", "declare", "insert next", "observe next", "rotate", "take next",
               "unlist next", "enter active", "drop next", "forget next", "drop active"}
          => Readable(ACTIVE_AFDT_KEY)
    /\ pc \in {"rotate", "take next", "drop next"} => Readable(NEXT_AFDT_KEY)

\* A slot that is about to be filled, or was just emptied, holds no hash.
EmptySlots ==
    /\ pc \in {"insert active", "forget active"} => Active = NoKey
    /\ pc \in {"insert next", "unlist next", "enter active", "adopt", "forget next",
               "drop active", "forget active"} => NextK = NoKey

\* A key whose hash is written and whose ledger entry is not is known nowhere else.
UnobservedIsNew ==
    /\ pc = "observe active" =>
          Active \in Key \ (DOMAIN ledger[ACTIVE_AFDT_KEY] \cup {NextK} \cup keys[2])
    /\ pc = "observe next" =>
          NextK \in Key \ (DOMAIN ledger[NEXT_AFDT_KEY] \cup {Active} \cup keys[2])

\* Only a registered key is moved, and it enters the active ledger before the
\* active hash is replaced.
MovedIsRegistered ==
    /\ pc = "take next" => NextK \in keys[2]
    /\ Moving => by \in keys[2]
    /\ pc = "adopt" => by \in DOMAIN ledger[ACTIVE_AFDT_KEY]

PlaceInv == FoundKeysReadable /\ EmptySlots /\ UnobservedIsNew /\ MovedIsRegistered

-----------------------------------------------------------------------------
(* What holds as long as there was no fault *)

\* Both keys are final and may be used for a declaration in this block.
Declarable ==
    /\ Readable(ACTIVE_AFDT_KEY) /\ Safe(ACTIVE_AFDT_KEY)
    /\ Readable(NEXT_AFDT_KEY) /\ Safe(NEXT_AFDT_KEY)

\* A registration is seen, and followed by the rotation, in the block that
\* includes it: between blocks only the active key can be registered.
RegisteredIsHeld ==
    /\ pc = "idle" => keys[2] \subseteq {Active}
    /\ pc # "idle" /\ ~ Moving /\ ~ Dropping => keys[2] \subseteq {Active, NextK}
    /\ Moving => keys[2] \subseteq {by} /\ Active \notin keys[2]
    /\ Dropping => keys[2] = {} /\ at >= AverageLength
    /\ NextK \in keys[2] =>
          /\ pc \in {"start", "elect", "declare", "rotate", "take next"}
          /\ Declarable
          /\ can_submit_affidavit(Active)
    /\ Active \in keys[2] => Readable(ACTIVE_AFDT_KEY)
    /\ pc \in {"elect", "declare"} => Safe(ACTIVE_AFDT_KEY)
    /\ pc = "rotate" => /\ can_submit_affidavit(Active)
                        /\ Declarable

\* The keys of one session are not those of the next, and the next key of the
\* node is not its active one, nor registered for the coming session.
KeysApart ==
    /\ keys[1] \cap keys[2] = {}
    /\ Active # NoKey => Active # NextK
    /\ NextK \notin keys[1]

\* A declaration that can still be included names the two keys of the node, or
\* was already followed.
DeclarationsCurrent ==
    (at < AffidavitEnds \/ pc = "start") =>
        \A t \in pool : t.kind = "declare" =>
            \/ t.key = Active /\ t.rotate = NextK /\ Declarable
            \/ t.rotate = Active /\ Active \in keys[2]
            \/ Moving /\ t.rotate = by

FaultFreeInv == faults = 0 => RegisteredIsHeld /\ KeysApart /\ DeclarationsCurrent

IInv == TypeOK /\ PlaceInv /\ FaultFreeInv

-----------------------------------------------------------------------------
(* The storage operations *)

\* A key just generated is a key, and no slot, ledger, session or transaction
\* has it.
LEMMA FreshIsNew ==
    ASSUME Unused # {}
    PROVE  /\ Fresh \in Key
           /\ Fresh # by
           /\ \A s \in Slots : Fresh # hash[s] /\ Fresh \notin DOMAIN ledger[s]
           /\ Fresh \notin keys[1] /\ Fresh \notin keys[2]
           /\ \A t \in pool : Fresh # t.key /\ Fresh # t.rotate
<1>1. Fresh \in Unused
  BY DEF Fresh
<1> QED  BY <1>1 DEF Unused

\* Seeing a value once more leaves the ledger's keys and all other observations,
\* and a value that is Safe stays so.
LEMMA SeeKeeps ==
    ASSUME TypeOK, NEW s \in Slots, Readable(s), See(s)
    PROVE  /\ DOMAIN ledger' = Slots
           /\ \A u \in Slots : DOMAIN ledger'[u] = DOMAIN ledger[u]
           /\ \A u \in Slots \ {s} : ledger'[u] = ledger[u]
           /\ \A u \in Slots : \A k \in DOMAIN ledger[u] : ledger'[u][k] \in Observations
           /\ Safe(s) => /\ ledger'[s][hash[s]].age >= FinalityAfter
                         /\ ledger'[s][hash[s]].blocks_seen >= FinalityTicks
<1> DEFINE o == ledger[s][hash[s]]
           n == [age         |-> AtMost(o.age + o.since, FinalityAfter),
                 since       |-> 0,
                 blocks_seen |-> o.blocks_seen + (IF Risky(s) /\ o.since > 0 THEN 1 ELSE 0)]
<1>1. o \in Observations /\ hash[s] \in DOMAIN ledger[s] /\ DOMAIN ledger = Slots
  BY DEF TypeOK, Readable, Hanging
<1>2. FinalityAfter \in Nat /\ FinalityTicks \in Nat
  BY WorkerAssumption
<1>3. /\ n \in Observations
      /\ n.age = AtMost(o.age + o.since, FinalityAfter)
      /\ n.blocks_seen >= o.blocks_seen
  BY <1>1, <1>2 DEF Observations, AtMost
<1>4. ledger' = [ledger EXCEPT ![s] = [ledger[s] EXCEPT ![hash[s]] = n]]
  BY DEF See
<1>5. Safe(s) => o.age >= FinalityAfter /\ o.blocks_seen >= FinalityTicks
  BY <1>1, <1>2 DEF Safe, Unsafe, Risky, ObservationOf, Observations
<1>6. Safe(s) => n.age >= FinalityAfter /\ n.blocks_seen >= FinalityTicks
  BY <1>1, <1>2, <1>3, <1>5 DEF Observations, AtMost
<1> HIDE DEF o, n
<1>7. /\ DOMAIN ledger' = Slots
      /\ ledger'[s] = [ledger[s] EXCEPT ![hash[s]] = n]
      /\ \A u \in Slots \ {s} : ledger'[u] = ledger[u]
  BY <1>1, <1>4
<1>8. /\ DOMAIN ledger'[s] = DOMAIN ledger[s]
      /\ ledger'[s][hash[s]] = n
      /\ \A k \in DOMAIN ledger[s] : k # hash[s] => ledger'[s][k] = ledger[s][k]
  BY <1>1, <1>7
<1>9. \A u \in Slots : \A k \in DOMAIN ledger[u] : ledger[u][k] \in Observations
  BY DEF TypeOK
<1> QED  BY <1>3, <1>6, <1>7, <1>8, <1>9

\* A step that leaves the ledger of a slot as it is, or sees its value, leaves
\* what is Safe so.
LEMMA SafeIs ==
    ASSUME TypeOK, NEW s \in Slots, Readable(s)
    PROVE  Safe(s) <=> /\ ledger[s][hash[s]].age >= FinalityAfter
                       /\ ledger[s][hash[s]].blocks_seen >= FinalityTicks
<1>1. ledger[s][hash[s]] \in Observations
  BY DEF TypeOK, Readable, Hanging
<1>2. FinalityAfter \in Nat /\ FinalityTicks \in Nat
  BY WorkerAssumption
<1> QED  BY <1>1, <1>2 DEF Safe, Unsafe, Risky, ObservationOf, Observations

\* Time passes: the ledgers keep their keys, and age and blocks_seen.
LEMMA LaterKeeps ==
    ASSUME TypeOK, ledger' = [s \in Slots |-> Later(ledger[s])]
    PROVE  /\ DOMAIN ledger' = Slots
           /\ \A s \in Slots : DOMAIN ledger'[s] = DOMAIN ledger[s]
           /\ \A s \in Slots : \A k \in DOMAIN ledger[s] :
                 /\ ledger'[s][k] \in Observations
                 /\ ledger'[s][k].age = ledger[s][k].age
                 /\ ledger'[s][k].blocks_seen = ledger[s][k].blocks_seen
<1>1. FinalityAfter \in Nat
  BY WorkerAssumption
<1>2. /\ DOMAIN ledger' = Slots
      /\ \A s \in Slots : ledger'[s] = Later(ledger[s])
  OBVIOUS
<1>3. ASSUME NEW s \in Slots, NEW k \in DOMAIN ledger[s]
      PROVE  /\ [ledger[s][k] EXCEPT !.since = AtMost(@ + 1, FinalityAfter)] \in Observations
             /\ [ledger[s][k] EXCEPT !.since = AtMost(@ + 1, FinalityAfter)].age = ledger[s][k].age
             /\ [ledger[s][k] EXCEPT !.since = AtMost(@ + 1, FinalityAfter)].blocks_seen
                   = ledger[s][k].blocks_seen
  <2>1. ledger[s][k] \in Observations
    BY <1>3 DEF TypeOK
  <2> QED  BY <1>1, <2>1 DEF Observations, AtMost
<1> QED  BY <1>2, <1>3 DEF Later

-----------------------------------------------------------------------------
(* Types *)

StorageTyped ==
    /\ hash \in [Slots -> Key \cup {NoKey}]
    /\ DOMAIN ledger = Slots
    /\ \A s \in Slots : DOMAIN ledger[s] \subseteq Key
    /\ \A s \in Slots : \A k \in DOMAIN ledger[s] : ledger[s][k] \in Observations

\* What the chain has registered are keys.
LEMMA KeysTyped ==
    ASSUME TypeOK
    PROVE  keys[1] \subseteq Key /\ keys[2] \subseteq Key
<1>1. 1 \in 1 .. 2 /\ 2 \in 1 .. 2
  OBVIOUS
<1> QED  BY <1>1 DEF TypeOK

\* The ledger write of insert and the two writes of remove keep the storage typed.
LEMMA WritesTyped ==
    ASSUME TypeOK, NEW s \in Slots, NEW p \in Steps,
           \/ InsertLedger(s, p) /\ Held(s)
           \/ RemoveHash(s, p) \/ RemoveLedger(s, p)
    PROVE  /\ StorageTyped'
           /\ pc' \in Steps
           /\ by' \in Key \cup {NoKey}
<1>0. Observed \in Observations
  BY WorkerAssumption DEF Observed, Observations
<1>1. CASE InsertLedger(s, p) /\ Held(s)
  BY <1>0, <1>1 DEF InsertLedger, Enter, Held, TypeOK, StorageTyped
<1>2. CASE RemoveHash(s, p)
  BY <1>2 DEF RemoveHash, TypeOK, StorageTyped
<1>3. CASE RemoveLedger(s, p)
  BY <1>3 DEF RemoveLedger, Forget, Restrict, TypeOK, StorageTyped
<1> QED  BY <1>1, <1>2, <1>3

\* A read that stops the worker keeps the storage typed.
LEMMA GetTyped ==
    ASSUME TypeOK, NEW s \in Slots,
           \/ GetStops(s)
           \/ Readable(s) /\ See(s) /\ UNCHANGED hash
    PROVE  StorageTyped'
<1>1. CASE Readable(s) /\ See(s) /\ UNCHANGED hash
  BY <1>1, SeeKeeps DEF TypeOK, StorageTyped
<1>2. CASE Hanging(s) /\ hash' = [hash EXCEPT ![s] = NoKey] /\ UNCHANGED ledger
  BY <1>2 DEF TypeOK, StorageTyped
<1> QED  BY <1>1, <1>2 DEF GetStops

\* What the worker sends is a transaction.
LEMMA SentTyped ==
    ASSUME NEW k \in Key, NEW r \in Key
    PROVE  /\ Sent("elect", k, NoKey) \subseteq Transactions
           /\ Sent("declare", k, r) \subseteq Transactions
           /\ \A t \in Sent("elect", k, NoKey) : t.kind = "elect"
           /\ \A t \in Sent("declare", k, r) :
                 t.kind = "declare" /\ t.key = k /\ t.rotate = r
  BY DEF Sent, Transactions

\* Every step keeps the types, if the worker's place says what it should about
\* the slots it fills.
LEMMA TypeStep ==
    ASSUME TypeOK, PlaceInv, [Next]_vars
    PROVE  TypeOK'
<1> USE DEF Slots, ACTIVE_AFDT_KEY, NEXT_AFDT_KEY
<1>1. CASE InitAffidavitKey
  <2>1. CASE ~ Held(ACTIVE_AFDT_KEY) /\ pc' = "insert active" /\ UNCHANGED <<storage, by>>
    BY <1>1, <2>1 DEF InitAffidavitKey, TypeOK, Steps, storage, chain
  <2>2. CASE GetStops(ACTIVE_AFDT_KEY)
    BY <1>1, <2>2, GetTyped DEF StorageTyped, InitAffidavitKey, GetStops, TypeOK, Steps, chain
  <2>3. CASE /\ Readable(ACTIVE_AFDT_KEY) /\ Safe(ACTIVE_AFDT_KEY)
             /\ See(ACTIVE_AFDT_KEY)
             /\ pc' = "elect"
             /\ UNCHANGED <<hash, by>>
    BY <1>1, <2>3, GetTyped DEF StorageTyped, InitAffidavitKey, TypeOK, Steps, chain
  <2> QED  BY <1>1, <2>1, <2>2, <2>3 DEF InitAffidavitKey
<1>2. CASE InsertActive
  <2>1. pc = "observe active" => Held(ACTIVE_AFDT_KEY)
    BY WorkerAssumption DEF PlaceInv, UnobservedIsNew, Active, Held
  <2>2. CASE InsertHash(ACTIVE_AFDT_KEY, "observe active")
    <3>1. "observe active" \in Steps
      BY DEF Steps
    <3>2. UNCHANGED <<chain, pool, faults>>
      BY <1>2 DEF InsertActive
    <3>3. StorageTyped' /\ pc' \in Steps /\ by' \in Key \cup {NoKey}
      BY <2>2, <3>1, FreshIsNew DEF InsertHash, StorageTyped, TypeOK
    <3> QED  BY <3>2, <3>3 DEF StorageTyped, TypeOK, chain
  <2>3. CASE pc = "observe active" /\ InsertLedger(ACTIVE_AFDT_KEY, "idle")
    <3>1. "idle" \in Steps
      BY DEF Steps
    <3> QED  BY <1>2, <2>1, <2>3, <3>1, WritesTyped DEF StorageTyped, InsertActive, TypeOK, chain
  <2> QED  BY <1>2, <2>2, <2>3 DEF InsertActive
<1>3. CASE TryElection
  <2>1. hash[ACTIVE_AFDT_KEY] \in Key
    BY <1>3 DEF TryElection, PlaceInv, FoundKeysReadable, Readable, Held, TypeOK
  <2> QED  BY <1>3, <2>1, SentTyped DEF TryElection, TypeOK, Steps, chain, storage
<1>4. CASE DeclareAffidavit
  <2>1. hash[ACTIVE_AFDT_KEY] \in Key
    BY <1>4 DEF DeclareAffidavit, PlaceInv, FoundKeysReadable, Readable, Held, TypeOK
  <2>2. CASE ~ Held(NEXT_AFDT_KEY) /\ pc' = "insert next" /\ UNCHANGED <<storage, by, pool>>
    BY <1>4, <2>2 DEF DeclareAffidavit, TypeOK, Steps, storage, chain
  <2>3. CASE GetStops(NEXT_AFDT_KEY) /\ UNCHANGED pool
    BY <1>4, <2>3, GetTyped DEF StorageTyped, DeclareAffidavit, GetStops, TypeOK, Steps, chain
  <2>4. CASE Readable(NEXT_AFDT_KEY) /\ Safe(NEXT_AFDT_KEY) /\ See(NEXT_AFDT_KEY) /\ UNCHANGED <<hash, by>>
    <3>1. hash[NEXT_AFDT_KEY] \in Key
      BY <2>4 DEF Readable, Held, TypeOK
    <3>2. pool' \subseteq Transactions /\ \A t \in pool' : t.kind = "declare" => t.rotate \in Key
      <4>1. pool' = pool \/ pool' = pool \cup Sent("declare", hash[ACTIVE_AFDT_KEY], hash[NEXT_AFDT_KEY])
        BY <1>4, <2>4 DEF DeclareAffidavit
      <4> QED  BY <2>1, <3>1, <4>1, SentTyped DEF TypeOK
    <3>3. pc' \in Steps
      BY <1>4, <2>4 DEF DeclareAffidavit, Steps, GetStops
    <3> QED  BY <1>4, <2>4, <3>2, <3>3, GetTyped DEF StorageTyped, DeclareAffidavit, TypeOK, chain
  <2> QED  BY <1>4, <2>2, <2>3, <2>4 DEF DeclareAffidavit
<1>5. CASE InsertNext
  <2>1. pc = "observe next" => Held(NEXT_AFDT_KEY)
    BY WorkerAssumption DEF PlaceInv, UnobservedIsNew, NextK, Held
  <2>2. CASE InsertHash(NEXT_AFDT_KEY, "observe next")
    <3>1. "observe next" \in Steps
      BY DEF Steps
    <3>2. UNCHANGED <<chain, pool, faults>>
      BY <1>5 DEF InsertNext
    <3>3. StorageTyped' /\ pc' \in Steps /\ by' \in Key \cup {NoKey}
      BY <2>2, <3>1, FreshIsNew DEF InsertHash, StorageTyped, TypeOK
    <3> QED  BY <3>2, <3>3 DEF StorageTyped, TypeOK, chain
  <2>3. CASE pc = "observe next" /\ InsertLedger(NEXT_AFDT_KEY, "idle")
    <3>1. "idle" \in Steps
      BY DEF Steps
    <3> QED  BY <1>5, <2>1, <2>3, <3>1, WritesTyped DEF StorageTyped, InsertNext, TypeOK, chain
  <2> QED  BY <1>5, <2>2, <2>3 DEF InsertNext
<1>6. CASE RotateAffidavitKey
  BY <1>6 DEF RotateAffidavitKey, TypeOK, Steps, chain, storage
<1>7. CASE Stop
  BY <1>7, WritesTyped DEF StorageTyped, Stop, TypeOK, Steps, chain
<1>8. CASE TakeNext
  BY <1>8, WritesTyped DEF StorageTyped, TakeNext, TypeOK, Steps, chain
<1>9. CASE EnterActive
  <2>1. by \in Key
    <3>1. Moving
      BY <1>9 DEF EnterActive, Moving
    <3> QED  BY <3>1, KeysTyped DEF PlaceInv, MovedIsRegistered
  <2>2. Observed \in Observations
    BY WorkerAssumption DEF Observed, Observations
  <2> QED  BY <1>9, <2>1, <2>2 DEF EnterActive, Enter, Forget, Restrict, TypeOK, Steps, chain
<1>10. CASE Adopt
  BY <1>10 DEF Adopt, TypeOK, Steps, chain
<1>11. CASE NextBlock
  <2>1. at' \in Nat /\ keys' \in [1 .. 2 -> SUBSET Key]
    BY <1>11 DEF NextBlock, TypeOK
  <2>2. prepared' \in BOOLEAN
    BY <1>11, Zenon DEF NextBlock, TypeOK
  <2>3. pool' \subseteq pool /\ pc' \in Steps /\ by' \in Key \cup {NoKey}
    BY <1>11 DEF NextBlock, TypeOK, Steps
  <2> QED  BY <1>11, <2>1, <2>2, <2>3, LaterKeeps DEF NextBlock, TypeOK
<1>12. CASE Validate
  <2>1. hash[ACTIVE_AFDT_KEY] \in Key
    BY <1>12 DEF Validate, Readable, Held, TypeOK
  <2> QED  BY <1>12, <2>1 DEF Validate, TypeOK, storage
<1>13. ASSUME NEW t \in pool, Include(t)
       PROVE  TypeOK'
  BY <1>13 DEF Include, TypeOK, storage
<1>14. CASE Crash \/ Miss \/ \E t \in pool : LoseTx(t)
  <2>1. faults' \in 0 .. MaxFaults
    BY <1>14, WorkerAssumption DEF Crash, Miss, LoseTx, Fault, TypeOK
  <2>2. pool' \subseteq pool /\ pc' \in Steps
    BY <1>14 DEF Crash, Miss, LoseTx, TypeOK, Steps
  <2>3. UNCHANGED <<chain, storage, by>>
    BY <1>14 DEF Crash, Miss, LoseTx
  <2> QED  BY <2>1, <2>2, <2>3 DEF TypeOK, chain, storage
<1>15. CASE UNCHANGED vars
  BY <1>15 DEF vars, TypeOK
<1> QED
  BY <1>1, <1>2, <1>3, <1>4, <1>5, <1>6, <1>7, <1>8, <1>9, <1>10, <1>11, <1>12, <1>13, <1>14, <1>15
     DEF Next, offchain_worker

-----------------------------------------------------------------------------
(* The worker's place *)

\* Every step keeps what the worker's place says about the two slots: only the
\* worker writes them, and the chain registers keys only before it begins.
LEMMA PlaceStep ==
    ASSUME TypeOK, PlaceInv, [Next]_vars
    PROVE  PlaceInv'
<1> USE DEF Slots, ACTIVE_AFDT_KEY, NEXT_AFDT_KEY
<1> USE DEF PlaceInv, FoundKeysReadable, EmptySlots, UnobservedIsNew, MovedIsRegistered,
            Moving, Active, NextK
<1>0. NoKey \notin Key /\ keys[2] \subseteq Key
  BY KeysTyped, WorkerAssumption
<1>1. CASE InitAffidavitKey
  <2>1. CASE ~ Held(ACTIVE_AFDT_KEY) /\ pc' = "insert active" /\ UNCHANGED <<storage, by>>
    BY <1>1, <2>1 DEF InitAffidavitKey, Held, storage
  <2>2. CASE GetStops(ACTIVE_AFDT_KEY)
    BY <1>1, <2>2 DEF InitAffidavitKey, GetStops
  <2>3. CASE /\ Readable(ACTIVE_AFDT_KEY) /\ Safe(ACTIVE_AFDT_KEY)
             /\ See(ACTIVE_AFDT_KEY)
             /\ pc' = "elect"
             /\ UNCHANGED <<hash, by>>
    <3>1. \A u \in Slots : DOMAIN ledger'[u] = DOMAIN ledger[u]
      BY <2>3, SeeKeeps
    <3> QED  BY <2>3, <3>1 DEF Readable, Hanging, Held
  <2> QED  BY <1>1, <2>1, <2>2, <2>3 DEF InitAffidavitKey
<1>2. CASE InsertActive
  <2>1. CASE pc = "insert active" /\ InsertHash(ACTIVE_AFDT_KEY, "observe active")
    BY <1>2, <2>1, FreshIsNew DEF InsertActive, InsertHash, chain, TypeOK
  <2>2. CASE pc = "observe active" /\ InsertLedger(ACTIVE_AFDT_KEY, "idle")
    BY <2>2 DEF InsertLedger
  <2> QED  BY <1>2, <2>1, <2>2 DEF InsertActive
<1>3. CASE TryElection
  BY <1>3 DEF TryElection, storage, Readable, Hanging, Held
<1>4. CASE DeclareAffidavit
  <2>1. CASE ~ Held(NEXT_AFDT_KEY) /\ pc' = "insert next" /\ UNCHANGED <<storage, by, pool>>
    BY <1>4, <2>1 DEF DeclareAffidavit, Held, storage, Readable, Hanging
  <2>2. CASE GetStops(NEXT_AFDT_KEY) /\ UNCHANGED pool
    BY <2>2 DEF GetStops
  <2>3. CASE /\ Readable(NEXT_AFDT_KEY) /\ Safe(NEXT_AFDT_KEY)
             /\ See(NEXT_AFDT_KEY)
             /\ pc' \in {"rotate", "idle"}
             /\ UNCHANGED <<hash, by>>
    <3>1. \A u \in Slots : DOMAIN ledger'[u] = DOMAIN ledger[u]
      BY <2>3, SeeKeeps
    <3> QED  BY <1>4, <2>3, <3>1 DEF DeclareAffidavit, Readable, Hanging, Held
  <2> QED  BY <1>4, <2>1, <2>2, <2>3 DEF DeclareAffidavit
<1>5. CASE InsertNext
  <2>1. CASE pc = "insert next" /\ InsertHash(NEXT_AFDT_KEY, "observe next")
    BY <1>5, <2>1, FreshIsNew DEF InsertNext, InsertHash, chain, TypeOK, Readable, Hanging, Held
  <2>2. CASE pc = "observe next" /\ InsertLedger(NEXT_AFDT_KEY, "idle")
    BY <2>2 DEF InsertLedger
  <2> QED  BY <1>5, <2>1, <2>2 DEF InsertNext
<1>6. CASE RotateAffidavitKey
  BY <1>6 DEF RotateAffidavitKey, chain, storage, Readable, Hanging, Held
<1>7. CASE Stop
  <2>1. CASE pc = "drop next" /\ RemoveHash(NEXT_AFDT_KEY, "forget next")
    BY <2>1 DEF RemoveHash, TypeOK, Readable, Hanging, Held
  <2>2. CASE pc = "forget next" /\ RemoveLedger(NEXT_AFDT_KEY, "drop active")
    BY <2>2 DEF RemoveLedger, TypeOK, Readable, Hanging, Held
  <2>3. CASE pc = "drop active" /\ RemoveHash(ACTIVE_AFDT_KEY, "forget active")
    BY <2>3 DEF RemoveHash, TypeOK
  <2>4. CASE pc = "forget active" /\ RemoveLedger(ACTIVE_AFDT_KEY, "idle")
    BY <2>4 DEF RemoveLedger
  <2> QED  BY <1>7, <2>1, <2>2, <2>3, <2>4 DEF Stop
<1>8. CASE TakeNext
  <2>1. CASE pc = "take next" /\ RemoveHash(NEXT_AFDT_KEY, "unlist next")
    BY <1>8, <2>1 DEF TakeNext, RemoveHash, chain, TypeOK, Readable, Hanging, Held
  <2>2. CASE pc = "unlist next" /\ RemoveLedger(NEXT_AFDT_KEY, "enter active")
    BY <1>8, <2>2 DEF TakeNext, RemoveLedger, chain, TypeOK, Readable, Hanging, Held
  <2> QED  BY <1>8, <2>1, <2>2 DEF TakeNext
<1>9. CASE EnterActive
  BY <1>9 DEF EnterActive, Enter, chain, TypeOK
<1>10. CASE Adopt
  BY <1>10 DEF Adopt
<1>11. CASE NextBlock
  BY <1>11 DEF NextBlock
<1>12. CASE Validate
  BY <1>12 DEF Validate
<1>13. ASSUME NEW t \in pool, Include(t)
       PROVE  PlaceInv'
  BY <1>13 DEF Include
<1>14. CASE Crash \/ Miss
  BY <1>14 DEF Crash, Miss
<1>15. ASSUME NEW t \in pool, LoseTx(t)
       PROVE  PlaceInv'
  BY <1>15 DEF LoseTx, chain, storage, Readable, Hanging, Held
<1>16. CASE UNCHANGED vars
  BY <1>16 DEF vars, Readable, Hanging, Held
<1> QED
  BY <1>1, <1>2, <1>3, <1>4, <1>5, <1>6, <1>7, <1>8, <1>9, <1>10, <1>11, <1>12, <1>13, <1>14,
     <1>15, <1>16
     DEF Next, offchain_worker

-----------------------------------------------------------------------------
(* The refinement *)

ActiveBar == IF pc = "adopt" THEN hash[ACTIVE_AFDT_KEY] ELSE Visible(ACTIVE_AFDT_KEY)
NextBar   == IF Moving THEN by ELSE Visible(NEXT_AFDT_KEY)

\* A step that shows the same keys is none of the key cycle.
LEMMA Stutters ==
    ASSUME ActiveBar' = ActiveBar, NextBar' = NextBar, keys'[2] = keys[2]
    PROVE  [Keys!CycleNext]_(Keys!cycle)
  BY DEF Keys!cycle, ActiveBar, NextBar

\* A step after which a key is no longer shown is a loss.
LEMMA Loses ==
    ASSUME ActiveBar' \in {ActiveBar, NoKey}, NextBar' \in {NextBar, NoKey}, keys'[2] = keys[2]
    PROVE  [Keys!CycleNext]_(Keys!cycle)
<1>1. Keys!Lose
  BY DEF Keys!Lose, ActiveBar, NextBar
<1> QED  BY <1>1 DEF Keys!CycleNext

\* Every step of the worker, of the chain and of a fault is one step of the key
\* cycle or shows no change.
LEMMA CycleStep ==
    ASSUME TypeOK, PlaceInv, [Next]_vars
    PROVE  [Keys!CycleNext]_(Keys!cycle)
<1> USE DEF Slots, ACTIVE_AFDT_KEY, NEXT_AFDT_KEY
<1> USE DEF PlaceInv, FoundKeysReadable, EmptySlots, UnobservedIsNew, MovedIsRegistered,
            Moving, Active, NextK, ActiveBar, NextBar
<1>0. NoKey \notin Key /\ keys[2] \subseteq Key
  BY KeysTyped, WorkerAssumption
<1>1. CASE InitAffidavitKey
  <2>0. keys'[2] = keys[2]
    BY <1>1 DEF InitAffidavitKey, chain
  <2>1. CASE ~ Held(ACTIVE_AFDT_KEY) /\ pc' = "insert active" /\ UNCHANGED <<storage, by>>
    BY <1>1, <2>0, <2>1, Stutters DEF InitAffidavitKey, storage, Visible, Readable, Hanging, Held
  <2>2. CASE /\ pc' \in {"idle", "elect"}
             /\ Readable(ACTIVE_AFDT_KEY) /\ See(ACTIVE_AFDT_KEY) /\ UNCHANGED <<hash, by>>
    <3>1. \A u \in Slots : DOMAIN ledger'[u] = DOMAIN ledger[u]
      BY <2>2, SeeKeeps
    <3> QED  BY <1>1, <2>0, <2>2, <3>1, Stutters DEF InitAffidavitKey, Visible, Readable, Hanging, Held
  <2>3. CASE /\ pc' = "idle" /\ Hanging(ACTIVE_AFDT_KEY)
             /\ hash' = [hash EXCEPT ![ACTIVE_AFDT_KEY] = NoKey] /\ UNCHANGED <<ledger, by>>
    BY <1>1, <2>0, <2>3, Stutters DEF InitAffidavitKey, TypeOK, Visible, Readable, Hanging, Held
  <2> QED  BY <1>1, <2>1, <2>2, <2>3 DEF InitAffidavitKey, GetStops
<1>2. CASE InsertActive
  <2>0. keys'[2] = keys[2]
    BY <1>2 DEF InsertActive, chain
  <2>1. CASE pc = "insert active" /\ InsertHash(ACTIVE_AFDT_KEY, "observe active")
    BY <2>0, <2>1, FreshIsNew, Stutters DEF InsertHash, TypeOK, Visible, Readable, Hanging, Held
  <2>2. CASE pc = "observe active" /\ InsertLedger(ACTIVE_AFDT_KEY, "idle")
    <3>1. ActiveBar = NoKey /\ ActiveBar' = Active /\ NextBar' = NextBar
      BY <1>0, <2>2 DEF InsertLedger, Enter, TypeOK, Visible, Readable, Hanging, Held
    <3>2. NextBar # Active /\ Active \in Key \ keys[2]
      BY <1>0, <2>2 DEF Visible, Readable, Hanging, Held
    <3>3. Keys!Create
      BY <2>0, <3>1, <3>2 DEF Keys!Create
    <3> QED  BY <3>3 DEF Keys!CycleNext
  <2> QED  BY <1>2, <2>1, <2>2 DEF InsertActive
<1>3. CASE TryElection
  BY <1>3, Stutters DEF TryElection, storage, chain, Visible, Readable, Hanging, Held
<1>4. CASE DeclareAffidavit
  <2>0. keys'[2] = keys[2]
    BY <1>4 DEF DeclareAffidavit, chain
  <2>1. CASE ~ Held(NEXT_AFDT_KEY) /\ pc' = "insert next" /\ UNCHANGED <<storage, by, pool>>
    BY <1>4, <2>0, <2>1, Stutters DEF DeclareAffidavit, storage, Visible, Readable, Hanging, Held
  <2>2. CASE /\ pc' \in {"idle", "rotate"}
             /\ Readable(NEXT_AFDT_KEY) /\ See(NEXT_AFDT_KEY) /\ UNCHANGED <<hash, by>>
    <3>1. \A u \in Slots : DOMAIN ledger'[u] = DOMAIN ledger[u]
      BY <2>2, SeeKeeps
    <3> QED  BY <1>4, <2>0, <2>2, <3>1, Stutters DEF DeclareAffidavit, Visible, Readable, Hanging, Held
  <2>3. CASE /\ pc' = "idle" /\ Hanging(NEXT_AFDT_KEY)
             /\ hash' = [hash EXCEPT ![NEXT_AFDT_KEY] = NoKey] /\ UNCHANGED <<ledger, by>>
    BY <1>4, <2>0, <2>3, Stutters DEF DeclareAffidavit, TypeOK, Visible, Readable, Hanging, Held
  <2> QED  BY <1>4, <2>1, <2>2, <2>3 DEF DeclareAffidavit, GetStops
<1>5. CASE InsertNext
  <2>0. keys'[2] = keys[2]
    BY <1>5 DEF InsertNext, chain
  <2>1. CASE pc = "insert next" /\ InsertHash(NEXT_AFDT_KEY, "observe next")
    BY <2>0, <2>1, FreshIsNew, Stutters DEF InsertHash, TypeOK, Visible, Readable, Hanging, Held
  <2>2. CASE pc = "observe next" /\ InsertLedger(NEXT_AFDT_KEY, "idle")
    <3>1. NextBar = NoKey /\ NextBar' = NextK /\ ActiveBar' = ActiveBar
      BY <1>0, <2>2 DEF InsertLedger, Enter, TypeOK, Visible, Readable, Hanging, Held
    <3>2. ActiveBar # NextK /\ NextK \in Key \ keys[2]
      BY <1>0, <2>2 DEF Visible, Readable, Hanging, Held
    <3>3. Keys!Prepare
      BY <2>0, <3>1, <3>2 DEF Keys!Prepare
    <3> QED  BY <3>3 DEF Keys!CycleNext
  <2> QED  BY <1>5, <2>1, <2>2 DEF InsertNext
<1>6. CASE RotateAffidavitKey
  BY <1>6, Stutters DEF RotateAffidavitKey, storage, chain, Visible, Readable, Hanging, Held
<1>7. CASE Stop
  <2>0. keys'[2] = keys[2]
    BY <1>7 DEF Stop, chain
  <2>1. CASE pc = "drop next" /\ RemoveHash(NEXT_AFDT_KEY, "forget next")
    BY <2>0, <2>1, Loses DEF RemoveHash, TypeOK, Visible, Readable, Hanging, Held
  <2>2. CASE pc = "forget next" /\ RemoveLedger(NEXT_AFDT_KEY, "drop active")
    BY <2>0, <2>2, Stutters DEF RemoveLedger, TypeOK, Visible, Readable, Hanging, Held
  <2>3. CASE pc = "drop active" /\ RemoveHash(ACTIVE_AFDT_KEY, "forget active")
    BY <2>0, <2>3, Loses DEF RemoveHash, TypeOK, Visible, Readable, Hanging, Held
  <2>4. CASE pc = "forget active" /\ RemoveLedger(ACTIVE_AFDT_KEY, "idle")
    BY <2>0, <2>4, Stutters DEF RemoveLedger, TypeOK, Visible, Readable, Hanging, Held
  <2> QED  BY <1>7, <2>1, <2>2, <2>3, <2>4 DEF Stop
<1>8. CASE TakeNext
  <2>0. keys'[2] = keys[2]
    BY <1>8 DEF TakeNext, chain
  <2>1. CASE pc = "take next" /\ RemoveHash(NEXT_AFDT_KEY, "unlist next")
    BY <2>0, <2>1, Stutters DEF RemoveHash, TypeOK, Visible, Readable, Hanging, Held
  <2>2. CASE pc = "unlist next" /\ RemoveLedger(NEXT_AFDT_KEY, "enter active")
    BY <2>0, <2>2, Stutters DEF RemoveLedger, TypeOK, Visible, Readable, Hanging, Held
  <2> QED  BY <1>8, <2>1, <2>2 DEF TakeNext
<1>9. CASE EnterActive
  BY <1>9, Stutters DEF EnterActive, chain, Visible, Readable, Hanging, Held
<1>10. CASE Adopt
  <2>1. ActiveBar' = by /\ NextBar = by /\ NextBar' = NoKey /\ keys'[2] = keys[2] /\ by \in keys[2]
    BY <1>0, <1>10 DEF Adopt, chain, TypeOK, Visible, Readable, Hanging, Held
  <2>2. Keys!Rotate
    BY <2>1 DEF Keys!Rotate
  <2> QED  BY <2>2 DEF Keys!CycleNext
<1>11. CASE NextBlock
  <2>1. ActiveBar' = ActiveBar /\ NextBar' = NextBar
    BY <1>11, LaterKeeps DEF NextBlock, Visible, Readable, Hanging, Held
  <2>2. keys'[2] = keys[2] \/ keys'[2] = {}
    BY <1>11 DEF NextBlock, TypeOK
  <2>3. keys'[2] = {} => Keys!Turn
    BY <2>1 DEF Keys!Turn
  <2> QED  BY <2>1, <2>2, <2>3, Stutters DEF Keys!CycleNext
<1>12. CASE Validate
  BY <1>12, Stutters DEF Validate, TypeOK, storage, Visible, Readable, Hanging, Held
<1>13. ASSUME NEW t \in pool, Include(t)
       PROVE  [Keys!CycleNext]_(Keys!cycle)
  <2>1. ActiveBar' = ActiveBar /\ NextBar' = NextBar
    BY <1>13 DEF Include, storage, Visible, Readable, Hanging, Held
  <2>2. CASE Accepted(t) /\ t.kind = "declare"
    <3>1. t.rotate \in Key /\ keys'[2] = keys[2] \cup {t.rotate}
      BY <1>13, <2>2 DEF Include, TypeOK
    <3>2. Keys!Register
      BY <2>1, <3>1 DEF Keys!Register
    <3> QED  BY <3>2 DEF Keys!CycleNext
  <2>3. CASE ~ (Accepted(t) /\ t.kind = "declare")
    BY <1>13, <2>1, <2>3, Stutters DEF Include
  <2> QED  BY <2>2, <2>3
<1>14. CASE Crash \/ Miss
  <2>1. pc' = "idle" /\ UNCHANGED <<chain, storage, by>>
    BY <1>14 DEF Crash, Miss
  <2>2. ActiveBar' \in {ActiveBar, NoKey} /\ NextBar' \in {NextBar, NoKey}
    BY <2>1 DEF storage, Visible, Readable, Hanging, Held
  <2> QED  BY <2>1, <2>2, Loses DEF chain
<1>15. ASSUME NEW t \in pool, LoseTx(t)
       PROVE  [Keys!CycleNext]_(Keys!cycle)
  BY <1>15, Stutters DEF LoseTx, chain, storage, Visible, Readable, Hanging, Held
<1>16. CASE UNCHANGED vars
  BY <1>16, Stutters DEF vars, Visible, Readable, Hanging, Held
<1> QED
  BY <1>1, <1>2, <1>3, <1>4, <1>5, <1>6, <1>7, <1>8, <1>9, <1>10, <1>11, <1>12, <1>13, <1>14,
     <1>15, <1>16
     DEF Next, offchain_worker

-----------------------------------------------------------------------------
(* Without a fault *)

\* A value that is Safe is so when it was seen once more.
LEMMA SeeKeepsSafe ==
    ASSUME TypeOK, TypeOK', hash' = hash, NEW s \in Slots, Readable(s), Safe(s), See(s)
    PROVE  Safe(s)'
<1>1. /\ ledger'[s][hash'[s]].age >= FinalityAfter
      /\ ledger'[s][hash'[s]].blocks_seen >= FinalityTicks
      /\ hash'[s] \in DOMAIN ledger'[s]
  BY SeeKeeps DEF Readable, Hanging
<1>2. ledger'[s][hash'[s]] \in Observations
  BY <1>1 DEF TypeOK
<1>3. FinalityAfter \in Nat /\ FinalityTicks \in Nat
  BY WorkerAssumption
<1> QED  BY <1>1, <1>2, <1>3 DEF Safe, Unsafe, Risky, ObservationOf, Observations

\* Two final keys stay final in a step that keeps the hashes and in which no
\* observation loses age or blocks.
LEMMA StaysDeclarable ==
    ASSUME TypeOK, TypeOK', Declarable, hash' = hash,
           \A s \in Slots : \A k \in DOMAIN ledger[s] :
              /\ k \in DOMAIN ledger'[s]
              /\ ledger[s][k].age >= FinalityAfter => ledger'[s][k].age >= FinalityAfter
              /\ ledger[s][k].blocks_seen >= FinalityTicks => ledger'[s][k].blocks_seen >= FinalityTicks
    PROVE  Declarable'
<1> USE DEF Slots, ACTIVE_AFDT_KEY, NEXT_AFDT_KEY
<1>1. FinalityAfter \in Nat /\ FinalityTicks \in Nat
  BY WorkerAssumption
<1>2. ASSUME NEW s \in Slots, Readable(s), Safe(s)
      PROVE  Readable(s)' /\ Safe(s)'
  <2>1. ledger[s][hash[s]].age >= FinalityAfter /\ ledger[s][hash[s]].blocks_seen >= FinalityTicks
    BY <1>2, SafeIs
  <2>2. Readable(s)'
    BY <1>2 DEF Readable, Hanging, Held
  <2>3. /\ ledger'[s][hash'[s]].age >= FinalityAfter
        /\ ledger'[s][hash'[s]].blocks_seen >= FinalityTicks
    BY <1>2, <2>1 DEF Readable, Hanging, Held
  <2>4. ledger'[s][hash'[s]] \in Observations
    BY <2>2 DEF Readable, Hanging, Held, TypeOK
  <2> QED  BY <1>1, <2>2, <2>3, <2>4 DEF Safe, Unsafe, Risky, ObservationOf, Observations
<1> QED  BY <1>2 DEF Declarable

\* The same for a step that only sees one of the two values once more.
LEMMA SeeKeepsDeclarable ==
    ASSUME TypeOK, TypeOK', Declarable, hash' = hash, NEW s \in Slots, See(s)
    PROVE  Declarable'
<1> USE DEF Slots, ACTIVE_AFDT_KEY, NEXT_AFDT_KEY
<1>1. Readable(s) /\ Safe(s)
  BY DEF Declarable
<1>2. \A u \in Slots \ {s} : ledger'[u] = ledger[u]
  BY <1>1, SeeKeeps
<1>3. /\ ledger'[s][hash[s]].age >= FinalityAfter
      /\ ledger'[s][hash[s]].blocks_seen >= FinalityTicks
      /\ DOMAIN ledger'[s] = DOMAIN ledger[s]
  BY <1>1, SeeKeeps
<1>4. \A k \in DOMAIN ledger[s] : k # hash[s] => ledger'[s][k] = ledger[s][k]
  BY <1>1 DEF See, TypeOK, Readable, Hanging
<1> QED  BY <1>2, <1>3, <1>4, StaysDeclarable

\* Every step without a fault keeps the node's keys and the chain's together:
\* a key is dropped only when no declaration of it can be accepted any more.
LEMMA FaultFreeStep ==
    ASSUME TypeOK, TypeOK', PlaceInv, FaultFreeInv, [Next]_vars
    PROVE  FaultFreeInv'
<1> SUFFICES ASSUME faults' = 0
             PROVE  RegisteredIsHeld' /\ KeysApart' /\ DeclarationsCurrent'
  BY DEF FaultFreeInv
<1> USE DEF Slots, ACTIVE_AFDT_KEY, NEXT_AFDT_KEY
<1>0. /\ NoKey \notin Key /\ keys[1] \subseteq Key /\ keys[2] \subseteq Key
      /\ AffidavitEnds \in Nat /\ AverageLength \in Nat /\ at \in Nat
      /\ AffidavitEnds <= AverageLength
      /\ Active \in Key \cup {NoKey} /\ NextK \in Key \cup {NoKey}
  BY KeysTyped, WorkerAssumption DEF TypeOK, Active, NextK
<1>00. faults \in Nat
  BY DEF TypeOK
<1>01. faults = 0 => RegisteredIsHeld /\ KeysApart /\ DeclarationsCurrent
  BY DEF FaultFreeInv
<1> USE DEF Active, NextK, Moving, Dropping
<1>1. CASE InitAffidavitKey
  <2>0. faults = 0 /\ pc = "start" /\ UNCHANGED <<chain, pool>>
    BY <1>1 DEF InitAffidavitKey
  <2>1. CASE ~ Held(ACTIVE_AFDT_KEY) /\ pc' = "insert active" /\ UNCHANGED <<storage, by>>
    BY <1>0, <1>01, <2>0, <2>1
       DEF RegisteredIsHeld, KeysApart, DeclarationsCurrent, Declarable, storage, chain,
           Readable, Hanging, Held
  <2>2. CASE GetStops(ACTIVE_AFDT_KEY)
    <3>1. ~ Declarable /\ pc' = "idle" /\ UNCHANGED by
      BY <2>2 DEF GetStops, Declarable, Readable
    <3>2. CASE Hanging(ACTIVE_AFDT_KEY) /\ hash' = [hash EXCEPT ![ACTIVE_AFDT_KEY] = NoKey] /\ UNCHANGED ledger
      <4>1. Active \notin keys[2] /\ NextK \notin keys[2]
        BY <1>01, <2>0, <3>1, <3>2 DEF RegisteredIsHeld, Readable
      <4>2. Active' = NoKey /\ NextK' = NextK /\ keys' = keys /\ at' = at /\ AffidavitEnds' = AffidavitEnds
        BY <2>0, <3>2 DEF TypeOK, chain
      <4>3. keys[2] = {}
        BY <1>01, <2>0, <4>1 DEF RegisteredIsHeld
      <4>4. \A t \in pool : t.kind # "declare"
        BY <1>01, <2>0, <3>1, <4>1 DEF DeclarationsCurrent
      <4> HIDE DEF Active, NextK
      <4> QED  BY <1>0, <1>01, <2>0, <3>1, <4>2, <4>3, <4>4 DEF RegisteredIsHeld, KeysApart, DeclarationsCurrent
    <3>3. CASE Readable(ACTIVE_AFDT_KEY) /\ See(ACTIVE_AFDT_KEY) /\ UNCHANGED hash
      <4>1. Readable(ACTIVE_AFDT_KEY)'
        BY <3>3, SeeKeeps DEF Readable, Hanging, Held
      <4>2. NextK \notin keys[2]
        BY <1>01, <2>0, <3>1 DEF RegisteredIsHeld
      <4> QED
        BY <1>0, <1>01, <2>0, <3>1, <3>3, <4>1, <4>2
           DEF RegisteredIsHeld, KeysApart, DeclarationsCurrent, chain
    <3> QED  BY <2>2, <3>2, <3>3 DEF GetStops
  <2>3. CASE /\ Readable(ACTIVE_AFDT_KEY) /\ Safe(ACTIVE_AFDT_KEY)
             /\ See(ACTIVE_AFDT_KEY)
             /\ pc' = "elect"
             /\ UNCHANGED <<hash, by>>
    <3>1. Declarable => Declarable'
      BY <2>3, SeeKeepsDeclarable
    <3>2. Readable(ACTIVE_AFDT_KEY)'
      BY <2>3, SeeKeeps DEF Readable, Hanging, Held
    <3>3. Safe(ACTIVE_AFDT_KEY)'
      BY <2>3, SeeKeepsSafe
    <3> QED
      BY <1>0, <1>01, <2>0, <2>3, <3>1, <3>2, <3>3
         DEF RegisteredIsHeld, KeysApart, DeclarationsCurrent, chain, can_submit_affidavit
  <2> QED  BY <1>1, <2>1, <2>2, <2>3 DEF InitAffidavitKey
<1>S. ASSUME UNCHANGED storage
      PROVE  /\ Declarable' <=> Declarable
             /\ Readable(ACTIVE_AFDT_KEY)' <=> Readable(ACTIVE_AFDT_KEY)
             /\ Safe(ACTIVE_AFDT_KEY)' <=> Safe(ACTIVE_AFDT_KEY)
             /\ Active' = Active /\ NextK' = NextK
  BY <1>S DEF storage, Declarable, Readable, Hanging, Held, Safe, Unsafe, Risky, ObservationOf
<1>2. CASE InsertActive
  <2>0. faults = 0 /\ UNCHANGED <<chain, pool>> /\ pc \in {"insert active", "observe active"}
    BY <1>2 DEF InsertActive
  <2>1. ~ Readable(ACTIVE_AFDT_KEY)
    BY <1>2, <2>0 DEF InsertActive, PlaceInv, EmptySlots, UnobservedIsNew, Readable, Hanging, Held
  <2>2. Active \notin keys[2] /\ NextK \notin keys[2] /\ ~ Declarable
    BY <1>01, <2>0, <2>1 DEF RegisteredIsHeld, Declarable
  <2>3. keys[2] = {} /\ (at < AffidavitEnds => \A t \in pool : t.kind # "declare")
    BY <1>01, <2>0, <2>2 DEF RegisteredIsHeld, DeclarationsCurrent
  <2>4. CASE pc = "insert active" /\ InsertHash(ACTIVE_AFDT_KEY, "observe active")
    <3>1. Active' # NextK /\ NextK' = NextK
      BY <2>4, FreshIsNew DEF InsertHash, TypeOK
    <3> QED
      BY <1>0, <1>01, <2>0, <2>3, <2>4, <3>1
         DEF RegisteredIsHeld, KeysApart, DeclarationsCurrent, chain, InsertHash
  <2>5. CASE pc = "observe active" /\ InsertLedger(ACTIVE_AFDT_KEY, "idle")
    BY <1>0, <1>01, <2>0, <2>3, <2>5
       DEF RegisteredIsHeld, KeysApart, DeclarationsCurrent, chain, InsertLedger
  <2> QED  BY <1>2, <2>4, <2>5 DEF InsertActive
<1>3. CASE TryElection
  <2>0. faults = 0 /\ UNCHANGED <<chain, storage, by>> /\ pc = "elect" /\ pc' = "declare"
    BY <1>3 DEF TryElection
  <2>1. \A t \in pool' : t.kind = "declare" => t \in pool
    BY <1>3 DEF TryElection, Sent
  <2> QED
    BY <1>0, <1>01, <1>S, <2>0, <2>1
       DEF RegisteredIsHeld, KeysApart, DeclarationsCurrent, chain, can_submit_affidavit
<1>4. CASE DeclareAffidavit
  <2>0. faults = 0 /\ UNCHANGED chain /\ pc = "declare"
    BY <1>4 DEF DeclareAffidavit
  <2>1. Readable(ACTIVE_AFDT_KEY) /\ Safe(ACTIVE_AFDT_KEY)
    BY <1>01, <2>0 DEF PlaceInv, FoundKeysReadable, RegisteredIsHeld
  <2>2. CASE ~ Held(NEXT_AFDT_KEY) /\ pc' = "insert next" /\ UNCHANGED <<storage, by, pool>>
    <3>1. ~ Declarable
      BY <2>2 DEF Declarable, Readable
    <3> QED
      BY <1>0, <1>01, <1>S, <2>0, <2>2, <3>1
         DEF RegisteredIsHeld, KeysApart, DeclarationsCurrent, chain
  <2>3. CASE GetStops(NEXT_AFDT_KEY) /\ UNCHANGED pool
    <3>1. ~ Declarable /\ pc' = "idle" /\ UNCHANGED by
      BY <2>3 DEF GetStops, Declarable, Readable
    <3>2. NextK \notin keys[2]
      BY <1>01, <2>0, <3>1 DEF RegisteredIsHeld
    <3>3. CASE Hanging(NEXT_AFDT_KEY) /\ hash' = [hash EXCEPT ![NEXT_AFDT_KEY] = NoKey] /\ UNCHANGED ledger
      <4>1. NextK' = NoKey /\ Active' = Active /\ Readable(ACTIVE_AFDT_KEY)'
        BY <2>1, <3>3 DEF TypeOK, Readable, Hanging, Held
      <4> QED
        BY <1>0, <1>01, <2>0, <2>3, <3>1, <3>2, <4>1
           DEF RegisteredIsHeld, KeysApart, DeclarationsCurrent, chain
    <3>4. CASE Readable(NEXT_AFDT_KEY) /\ See(NEXT_AFDT_KEY) /\ UNCHANGED hash
      <4>1. Readable(ACTIVE_AFDT_KEY)'
        BY <2>1, <3>4, SeeKeeps DEF Readable, Hanging, Held
      <4> QED
        BY <1>0, <1>01, <2>0, <2>3, <3>1, <3>2, <3>4, <4>1
           DEF RegisteredIsHeld, KeysApart, DeclarationsCurrent, chain
    <3> QED  BY <2>3, <3>3, <3>4 DEF GetStops
  <2>4. CASE /\ Readable(NEXT_AFDT_KEY) /\ Safe(NEXT_AFDT_KEY)
             /\ See(NEXT_AFDT_KEY)
             /\ IF can_submit_affidavit(hash[ACTIVE_AFDT_KEY])
                THEN /\ pool' = pool \cup Sent("declare", hash[ACTIVE_AFDT_KEY], hash[NEXT_AFDT_KEY])
                     /\ pc' = "rotate"
                ELSE pc' = "idle" /\ UNCHANGED pool
             /\ UNCHANGED <<hash, by>>
    <3>1. Declarable' /\ Readable(ACTIVE_AFDT_KEY)'
      BY <2>1, <2>4, SeeKeepsDeclarable DEF Declarable
    <3>2. CASE can_submit_affidavit(hash[ACTIVE_AFDT_KEY])
      <4>1. \A t \in pool' : t \in pool \/ (t.key = Active /\ t.rotate = NextK)
        BY <2>4, <3>2 DEF Sent
      <4> QED
        BY <1>0, <1>01, <2>0, <2>4, <3>1, <3>2, <4>1
           DEF RegisteredIsHeld, KeysApart, DeclarationsCurrent, chain, can_submit_affidavit
    <3>3. CASE ~ can_submit_affidavit(hash[ACTIVE_AFDT_KEY])
      BY <1>0, <1>01, <2>0, <2>4, <3>1, <3>3
         DEF RegisteredIsHeld, KeysApart, DeclarationsCurrent, chain
    <3> QED  BY <3>2, <3>3
  <2> QED  BY <1>4, <2>2, <2>3, <2>4 DEF DeclareAffidavit
<1>5. CASE InsertNext
  <2>0. faults = 0 /\ UNCHANGED <<chain, pool>> /\ pc \in {"insert next", "observe next"}
    BY <1>5 DEF InsertNext
  <2>1. ~ Declarable /\ Readable(ACTIVE_AFDT_KEY)
    BY <2>0 DEF PlaceInv, EmptySlots, UnobservedIsNew, FoundKeysReadable, Declarable, Readable, Hanging, Held
  <2>2. NextK \notin keys[2]
    BY <1>01, <2>0, <2>1 DEF RegisteredIsHeld
  <2>3. CASE pc = "insert next" /\ InsertHash(NEXT_AFDT_KEY, "observe next")
    <3>1. Active' = Active /\ NextK' # Active /\ NextK' \notin keys[1] /\ NextK' \notin keys[2]
      BY <2>3, FreshIsNew DEF InsertHash, TypeOK
    <3>2. Readable(ACTIVE_AFDT_KEY)'
      BY <2>1, <2>3 DEF InsertHash, TypeOK, Readable, Hanging, Held
    <3>3. keys[2] \subseteq {Active} /\ pc' = "observe next" /\ by' = by
      BY <1>01, <2>0, <2>2, <2>3 DEF RegisteredIsHeld, InsertHash
    <3> QED
      BY <1>0, <1>01, <2>0, <2>1, <3>1, <3>2, <3>3
         DEF RegisteredIsHeld, KeysApart, DeclarationsCurrent, chain
  <2>4. CASE pc = "observe next" /\ InsertLedger(NEXT_AFDT_KEY, "idle")
    <3>1. Readable(ACTIVE_AFDT_KEY)'
      BY <2>1, <2>4 DEF InsertLedger, TypeOK, Readable, Hanging, Held
    <3> QED
      BY <1>0, <1>01, <2>0, <2>1, <2>2, <2>4, <3>1
         DEF RegisteredIsHeld, KeysApart, DeclarationsCurrent, chain, InsertLedger
  <2> QED  BY <1>5, <2>3, <2>4 DEF InsertNext
<1>6. CASE RotateAffidavitKey
  <2>0. faults = 0 /\ UNCHANGED <<chain, pool, storage, by>> /\ pc = "rotate"
    BY <1>6 DEF RotateAffidavitKey
  <2>1. can_submit_affidavit(Active) /\ Active \in keys[1] /\ Active \notin keys[2] /\ Declarable
    BY <1>01, <2>0 DEF RegisteredIsHeld, KeysApart, can_submit_affidavit
  <2>2. keys[2] \subseteq {NextK} /\ Readable(ACTIVE_AFDT_KEY)
    BY <1>01, <2>0, <2>1 DEF RegisteredIsHeld, Declarable
  <2>3. CASE NextK \in keys[2]
    <3>1. pc' = "take next"
      BY <1>6, <2>3 DEF RotateAffidavitKey
    <3> QED
      BY <1>0, <1>01, <1>S, <2>0, <2>1, <2>2, <2>3, <3>1
         DEF RegisteredIsHeld, KeysApart, DeclarationsCurrent, chain, can_submit_affidavit
  <2>4. CASE NextK \notin keys[2]
    <3>1. (pc' = "drop next" /\ at >= AverageLength) \/ pc' = "idle"
      BY <1>0, <1>6, <2>4 DEF RotateAffidavitKey
    <3> QED
      BY <1>0, <1>01, <1>S, <2>0, <2>1, <2>2, <2>4, <3>1
         DEF RegisteredIsHeld, KeysApart, DeclarationsCurrent, chain
  <2> QED  BY <2>3, <2>4
<1>7. CASE Stop
  <2>0. faults = 0 /\ UNCHANGED <<chain, pool>> /\ Dropping /\ pc' # "start" /\ ~ Moving'
    BY <1>7 DEF Stop, RemoveHash, RemoveLedger
  <2>1. keys[2] = {} /\ at >= AverageLength
    BY <1>01, <2>0 DEF RegisteredIsHeld
  <2>2. Active' \in {Active, NoKey} /\ NextK' \in {NextK, NoKey}
    BY <1>7 DEF Stop, RemoveHash, RemoveLedger, TypeOK
  <2>3. pc' \in {"forget next", "drop active", "forget active", "idle"}
    BY <1>7 DEF Stop, RemoveHash, RemoveLedger
  <2>4. keys' = keys /\ at' = at /\ AffidavitEnds' = AffidavitEnds
    BY <2>0 DEF chain
  <2>5. NoKey \notin keys[1] /\ KeysApart
    BY <1>0, <1>01, <2>0
  <2> HIDE DEF Active, NextK
  <2>6. RegisteredIsHeld'
    BY <1>0, <2>1, <2>3, <2>4 DEF RegisteredIsHeld
  <2>7. KeysApart'
    BY <2>2, <2>4, <2>5 DEF KeysApart
  <2>8. DeclarationsCurrent'
    <3>1. pc' # "start"
      BY <2>3
    <3>2. ~ (at < AffidavitEnds)
      BY <1>0, <2>1
    <3>3. ~ (at' < AffidavitEnds')
      BY <2>4, <3>2
    <3> QED  BY <3>1, <3>3 DEF DeclarationsCurrent
  <2> QED  BY <2>6, <2>7, <2>8
<1>8. CASE TakeNext
  <2>0. faults = 0 /\ UNCHANGED <<chain, pool>> /\ pc' # "start"
    BY <1>8 DEF TakeNext, RemoveHash, RemoveLedger
  <2>1. keys' = keys /\ at' = at /\ AffidavitEnds' = AffidavitEnds
    BY <2>0 DEF chain
  <2>2. NoKey \notin keys[1] /\ NoKey \notin keys[2]
    BY <1>0
  <2>3. CASE pc = "take next" /\ RemoveHash(NEXT_AFDT_KEY, "unlist next")
    <3>1. Active' = Active /\ NextK' = NoKey /\ by' = NextK /\ pc' = "unlist next"
      BY <2>3 DEF RemoveHash, TypeOK
    <3>2. NextK \in keys[2]
      BY <2>3 DEF PlaceInv, MovedIsRegistered
    <3>3. Active \notin keys[2] /\ keys[2] \subseteq {NextK}
      BY <1>01, <2>0, <2>3, <3>2 DEF RegisteredIsHeld, KeysApart, can_submit_affidavit
    <3>4. at < AffidavitEnds => \A t \in pool : t.kind = "declare" => t.rotate = NextK
      BY <1>01, <2>0, <2>3, <3>3 DEF DeclarationsCurrent
    <3>5. pc' \in {"unlist next", "enter active", "adopt"}
      BY <3>1
    <3> HIDE DEF Active, NextK
    <3>6. RegisteredIsHeld'
      BY <2>1, <2>2, <3>1, <3>3 DEF RegisteredIsHeld
    <3>7. KeysApart'
      BY <1>01, <2>0, <2>1, <2>2, <3>1 DEF KeysApart
    <3>8. DeclarationsCurrent'
      BY <2>0, <2>1, <3>1, <3>4 DEF DeclarationsCurrent
    <3> QED  BY <3>6, <3>7, <3>8
  <2>4. CASE pc = "unlist next" /\ RemoveLedger(NEXT_AFDT_KEY, "enter active")
    <3>1. Active' = Active /\ NextK' = NextK /\ by' = by /\ pc' = "enter active"
      BY <2>4 DEF RemoveLedger
    <3>2. NextK = NoKey
      BY <2>4 DEF PlaceInv, EmptySlots
    <3>3. Active \notin keys[2] /\ keys[2] \subseteq {by}
      BY <1>01, <2>0, <2>4 DEF RegisteredIsHeld
    <3>4. at < AffidavitEnds => \A t \in pool : t.kind = "declare" => t.rotate = by
      BY <1>01, <2>0, <2>4, <3>2, <3>3 DEF DeclarationsCurrent, Declarable, Readable, Held
    <3> HIDE DEF Active, NextK
    <3>6. RegisteredIsHeld'
      BY <2>1, <2>2, <3>1, <3>2, <3>3 DEF RegisteredIsHeld
    <3>7. KeysApart'
      BY <1>01, <2>0, <2>1, <2>2, <3>1 DEF KeysApart
    <3>8. DeclarationsCurrent'
      BY <2>0, <2>1, <3>1, <3>4 DEF DeclarationsCurrent
    <3> QED  BY <3>6, <3>7, <3>8
  <2> QED  BY <1>8, <2>3, <2>4 DEF TakeNext
<1>9. CASE EnterActive \/ Adopt
  <2>0. /\ faults = 0 /\ UNCHANGED <<chain, pool>> /\ pc \in {"enter active", "adopt"}
        /\ pc' \in {"adopt", "idle"} /\ by' = by
    BY <1>9 DEF EnterActive, Adopt
  <2>1. keys' = keys /\ at' = at /\ AffidavitEnds' = AffidavitEnds
    BY <2>0 DEF chain
  <2>2. NoKey \notin keys[1] /\ NoKey \notin keys[2]
    BY <1>0
  <2>3. NextK = NoKey /\ by \in keys[2] /\ by \in Key
    BY <1>0, <2>0 DEF PlaceInv, EmptySlots, MovedIsRegistered
  <2>4. Active \notin keys[2] /\ keys[2] \subseteq {by}
    BY <1>01, <2>0 DEF RegisteredIsHeld
  <2>5. at < AffidavitEnds => \A t \in pool : t.kind = "declare" => t.rotate = by
    BY <1>01, <2>0, <2>3, <2>4 DEF DeclarationsCurrent, Declarable, Readable, Held
  <2>6. CASE EnterActive
    <3>1. Active' = Active /\ NextK' = NextK /\ pc' = "adopt"
      BY <2>6 DEF EnterActive
    <3> HIDE DEF Active, NextK
    <3>2. RegisteredIsHeld'
      BY <2>0, <2>1, <2>2, <2>3, <2>4, <3>1 DEF RegisteredIsHeld
    <3>3. KeysApart'
      BY <1>01, <2>0, <2>1, <2>2, <3>1 DEF KeysApart
    <3>4. DeclarationsCurrent'
      BY <2>0, <2>1, <2>5, <3>1 DEF DeclarationsCurrent
    <3> QED  BY <3>2, <3>3, <3>4
  <2>7. CASE Adopt
    <3>1. Active' = by /\ NextK' = NextK /\ pc' = "idle"
      BY <2>7 DEF Adopt, TypeOK
    <3>2. Readable(ACTIVE_AFDT_KEY)'
      BY <1>0, <2>3, <2>7, <3>1 DEF Adopt, PlaceInv, MovedIsRegistered, Readable, Hanging, Held
    <3> HIDE DEF Active, NextK
    <3>3. RegisteredIsHeld'
      BY <2>0, <2>1, <2>2, <2>3, <2>4, <3>1, <3>2 DEF RegisteredIsHeld
    <3>4. KeysApart'
      BY <1>01, <2>0, <2>1, <2>2, <2>3, <3>1 DEF KeysApart
    <3>5. DeclarationsCurrent'
      BY <2>0, <2>1, <2>3, <2>5, <3>1 DEF DeclarationsCurrent
    <3> QED  BY <3>3, <3>4, <3>5
  <2> QED  BY <1>9, <2>6, <2>7
<1>10. CASE NextBlock
  <2>0. /\ faults = 0 /\ pc = "idle" /\ pc' = "start" /\ hash' = hash
        /\ AffidavitEnds' = AffidavitEnds /\ by' = NoKey
    BY <1>10 DEF NextBlock
  <2>1. keys[2] \subseteq {Active} /\ NextK \notin keys[2]
    BY <1>01, <2>0 DEF RegisteredIsHeld
  <2>2. Declarable => Declarable'
    <3>1. \A s \in Slots : \A k \in DOMAIN ledger[s] :
              /\ k \in DOMAIN ledger'[s]
              /\ ledger'[s][k].age = ledger[s][k].age
              /\ ledger'[s][k].blocks_seen = ledger[s][k].blocks_seen
      BY <1>10, LaterKeeps DEF NextBlock
    <3> QED  BY <2>0, <3>1, StaysDeclarable
  <2>3. Readable(ACTIVE_AFDT_KEY) => Readable(ACTIVE_AFDT_KEY)'
    BY <1>10, LaterKeeps DEF NextBlock, Readable, Hanging, Held
  <2>4. CASE at' = at + 1 /\ keys' = keys
    <3>1. \A t \in pool' : t \in pool /\ at < AffidavitEnds
      BY <1>0, <1>10, <2>0, <2>4 DEF NextBlock
    <3>2. Active' = Active /\ NextK' = NextK
      BY <2>0
    <3> HIDE DEF Active, NextK
    <3>3. RegisteredIsHeld'
      BY <1>01, <2>0, <2>1, <2>3, <2>4, <3>2 DEF RegisteredIsHeld
    <3>4. KeysApart'
      BY <1>01, <2>0, <2>4, <3>2 DEF KeysApart
    <3>5. DeclarationsCurrent'
      BY <1>01, <2>0, <2>2, <2>4, <3>1, <3>2 DEF DeclarationsCurrent
    <3> QED  BY <3>3, <3>4, <3>5
  <2>5. CASE at' = 0 /\ keys' = [keys EXCEPT ![1] = keys[2], ![2] = {}]
    <3>1. pool' = {}
      BY <1>0, <1>10, <2>0, <2>5 DEF NextBlock
    <3>2. Active' = Active /\ NextK' = NextK
      BY <2>0
    <3>3. keys'[1] = keys[2] /\ keys'[2] = {}
      BY <2>5 DEF TypeOK
    <3> HIDE DEF Active, NextK
    <3>4. RegisteredIsHeld'
      BY <2>0, <3>3 DEF RegisteredIsHeld
    <3>5. KeysApart'
      BY <1>01, <2>0, <2>1, <3>2, <3>3 DEF KeysApart
    <3>6. DeclarationsCurrent'
      BY <3>1 DEF DeclarationsCurrent
    <3> QED  BY <3>4, <3>5, <3>6
  <2> QED  BY <1>10, <2>4, <2>5 DEF NextBlock
<1>11. CASE Validate
  <2>0. faults = 0 /\ pc = "start" /\ UNCHANGED <<AffidavitEnds, at, pool, storage, pc, by>>
    BY <1>11 DEF Validate
  <2>1. /\ keys'[1] = keys[1] \cup {Active} /\ keys'[2] = keys[2]
        /\ Active \notin keys[2] /\ Active # NoKey
    BY <1>11 DEF Validate, TypeOK, Readable, Held
  <2> HIDE DEF Active, NextK
  <2>2. RegisteredIsHeld'
    BY <1>01, <1>S, <2>0, <2>1 DEF RegisteredIsHeld, can_submit_affidavit
  <2>3. KeysApart'
    BY <1>01, <1>S, <2>0, <2>1 DEF KeysApart
  <2>4. DeclarationsCurrent'
    BY <1>01, <1>S, <2>0, <2>1 DEF DeclarationsCurrent
  <2> QED  BY <2>2, <2>3, <2>4
<1>12. ASSUME NEW t \in pool, Include(t)
       PROVE  RegisteredIsHeld' /\ KeysApart' /\ DeclarationsCurrent'
  <2>0. faults = 0 /\ pc = "start" /\ UNCHANGED <<AffidavitEnds, at, storage, pc, by>> /\ pool' \subseteq pool
    BY <1>12 DEF Include
  <2>1. CASE Accepted(t) /\ t.kind = "declare"
    <3>1. keys'[1] = keys[1] /\ keys'[2] = keys[2] \cup {t.rotate}
      BY <1>12, <2>1 DEF Include, TypeOK
    <3>2. can_submit_affidavit(t.key)
      BY <2>1 DEF Accepted
    <3>3. \/ t.key = Active /\ t.rotate = NextK /\ Declarable
          \/ t.rotate = Active /\ Active \in keys[2]
      BY <1>01, <2>0, <2>1 DEF DeclarationsCurrent
    <3>4. Declarable => Active # NoKey
      BY DEF Declarable, Readable, Held
    <3> HIDE DEF Active, NextK
    <3>5. RegisteredIsHeld'
      BY <1>01, <1>S, <2>0, <3>1, <3>2, <3>3, <3>4 DEF RegisteredIsHeld, KeysApart, can_submit_affidavit
    <3>6. KeysApart'
      BY <1>01, <1>S, <2>0, <3>1, <3>3 DEF KeysApart
    <3>7. DeclarationsCurrent'
      BY <1>01, <1>S, <2>0, <3>1 DEF DeclarationsCurrent
    <3> QED  BY <3>5, <3>6, <3>7
  <2>2. CASE ~ (Accepted(t) /\ t.kind = "declare")
    <3>1. keys' = keys
      BY <1>12, <2>2 DEF Include
    <3> HIDE DEF Active, NextK
    <3> QED
      BY <1>01, <1>S, <2>0, <3>1
         DEF RegisteredIsHeld, KeysApart, DeclarationsCurrent, can_submit_affidavit
  <2> QED  BY <2>1, <2>2
<1>13. CASE Crash \/ Miss \/ \E t \in pool : LoseTx(t)
  BY <1>00, <1>13 DEF Crash, Miss, LoseTx, Fault
<1>14. CASE UNCHANGED vars
  BY <1>01, <1>14
     DEF vars, RegisteredIsHeld, KeysApart, DeclarationsCurrent, Declarable, can_submit_affidavit,
         Readable, Hanging, Held, Safe, Unsafe, Risky, ObservationOf
<1> QED
  BY <1>1, <1>2, <1>3, <1>4, <1>5, <1>6, <1>7, <1>8, <1>9, <1>10, <1>11, <1>12, <1>13, <1>14
     DEF Next, offchain_worker

-----------------------------------------------------------------------------
(* The theorems *)

\* The inductive invariant holds in every reachable state.
THEOREM Inductive == Spec => []IInv
<1>1. Init => IInv
  <2> SUFFICES ASSUME Init PROVE IInv
    OBVIOUS
  <2> USE DEF Slots, ACTIVE_AFDT_KEY, NEXT_AFDT_KEY
  <2>1. TypeOK
    <3>1. keys \in [1 .. 2 -> SUBSET Key] /\ pool \subseteq Transactions /\ pool = {}
      BY DEF Init
    <3>2. StorageTyped
      BY DEF Init, StorageTyped
    <3>3. at \in Nat /\ faults \in 0 .. MaxFaults /\ pc \in Steps /\ by \in Key \cup {NoKey}
      BY WorkerAssumption DEF Init, Steps
    <3>4. AffidavitEnds \in AffidavitEndings /\ prepared \in BOOLEAN
      BY Zenon DEF Init
    <3> QED  BY <3>1, <3>2, <3>3, <3>4 DEF TypeOK, StorageTyped
  <2>2. PlaceInv
    BY DEF Init, PlaceInv, FoundKeysReadable, EmptySlots, UnobservedIsNew, MovedIsRegistered, Moving
  <2>3. FaultFreeInv
    BY DEF Init, FaultFreeInv, RegisteredIsHeld, KeysApart, DeclarationsCurrent, Active, NextK,
           Moving, Dropping
  <2> QED  BY <2>1, <2>2, <2>3 DEF IInv
<1>2. IInv /\ [Next]_vars => IInv'
  BY TypeStep, PlaceStep, FaultFreeStep DEF IInv
<1> QED  BY <1>1, <1>2, PTL DEF Spec

\* Storage, transactions and the worker's place stay within their types.
THEOREM TypeCorrect == Spec => []TypeOK
<1>1. IInv => TypeOK
  BY DEF IInv
<1> QED  BY <1>1, Inductive, PTL

\* The worker's writes, with a crash between any two of them, implement the
\* key cycle: RotateAffidavitKey, which removes the next key from one slot and
\* mutates the other in four writes, looks like one step, and replaces the
\* active key only by one that the chain has registered.
THEOREM Refinement == Spec => RotationIsAtomic
<1>1. Init => Keys!CycleInit
  BY DEF Init, Keys!CycleInit, Visible, Readable, Held, Moving, Slots, ACTIVE_AFDT_KEY, NEXT_AFDT_KEY
<1>2. IInv /\ [Next]_vars => [Keys!CycleNext]_(Keys!cycle)
  BY CycleStep DEF IInv
<1> QED  BY <1>1, <1>2, Inductive, PTL DEF Spec, RotationIsAtomic, Keys!Cycle

\* As long as nothing crashes and no block or transaction is lost, the node
\* holds every key that the chain has registered for it: can_run of
\* RotateAffidavitKey gives up on a declaration only when it cannot be included.
THEOREM KeepsRegistered == Spec => []NothingOrphaned
<1>1. IInv => NothingOrphaned
  BY DEF IInv, FaultFreeInv, RegisteredIsHeld, NothingOrphaned, Active, NextK, Moving, Dropping
<1> QED  BY <1>1, Inductive, PTL

=============================================================================
