--------------------------- MODULE AffidavitWorker ---------------------------
(***************************************************************************)
(* The off-chain worker of one validating node: InitAffidavitKey,          *)
(* TryElection, DeclareAffidavit and RotateAffidavitKey, run in this order *)
(* after every block, on the storage with finality (Finalized): the hash   *)
(* of a value in fork aware storage, and a ledger of observations that     *)
(* tells how long the value has been seen.  Each write of the off-chain    *)
(* storage is a step; the node may crash between any two.                  *)
(*                                                                         *)
(* The chain is what the worker sees of it: the keys registered for the    *)
(* next session and for the one after, the block's place in the session,   *)
(* and whether this node's author has run the election.  The author stays  *)
(* available and affidavits are allowed; there is one chain (module Forks  *)
(* is about several); the worker of a block is done, or dead, before the   *)
(* next block.  The keystore keeps every pair it has generated.  A ledger  *)
(* that was removed and an empty one are the same here.                    *)
(***************************************************************************)
EXTENDS Integers, FiniteSets, Functions

CONSTANTS Key, NoKey,
          AverageLength,    \* average_session_length
          MaxLength,        \* a session may be longer than the estimate, up to this
          AffidavitBegins, ElectionBegins,   \* blocks into the session
          AffidavitEndings, \* the ends of the affidavits that may be configured
          FinalityAfter,    \* in blocks
          FinalityTicks,
          MaxFaults         \* bound: crashes, missed runs and lost transactions

ASSUME WorkerAssumption ==
    /\ NoKey \notin Key
    /\ AverageLength \in Nat \ {0} /\ MaxLength \in Nat /\ AverageLength <= MaxLength
    /\ AffidavitBegins \in Nat /\ ElectionBegins \in Nat /\ AffidavitBegins <= ElectionBegins
    /\ \A e \in AffidavitEndings :
          e \in Nat /\ AffidavitBegins < e /\ ElectionBegins <= e /\ e <= AverageLength
    /\ FinalityAfter \in Nat \ {0} /\ FinalityTicks \in Nat \ {0}
    /\ MaxFaults \in Nat

VARIABLES
    AffidavitEnds,  \* the last block for affidavits, as configured
    at,         \* blocks since the session began
    keys,       \* AffidavitKeys of this author: session offset 1, 2 -> keys
    prepared,   \* ElectsPreparedBy of the next session is this author
    pool,       \* transactions on their way
    hash,       \* slot -> the key whose hash the fork aware storage holds
    ledger,     \* slot -> observations, by key
    pc,         \* what the worker does next
    by,         \* the key it is moving or removing
    faults

vars == <<AffidavitEnds, at, keys, prepared, pool, hash, ledger, pc, by, faults>>

chain   == <<AffidavitEnds, at, keys, prepared>>
storage == <<hash, ledger>>

ACTIVE_AFDT_KEY == "active"
NEXT_AFDT_KEY   == "next"

Slots == {ACTIVE_AFDT_KEY, NEXT_AFDT_KEY}

AtMost(n, m) == IF n <= m THEN n ELSE m

-----------------------------------------------------------------------------
(* Transactions.  The worker signs what it sends with send_signed_transaction; *)
(* the same payload may also reach the chain bare, by whoever forwards it.     *)

Sent(kind, k, r) == [kind : {kind}, key : {k}, rotate : {r}, origin : {"signed", "none"}]

\* The keys that are nowhere else.
Unused ==
    {k \in Key :
        /\ \A s \in Slots : k # hash[s] /\ k \notin DOMAIN ledger[s]
        /\ k # by
        /\ k \notin keys[1] \cup keys[2]
        /\ \A t \in pool : k # t.key /\ k # t.rotate}

\* generate_pair: a new key.
Fresh == CHOOSE k \in Unused : TRUE

-----------------------------------------------------------------------------
(* Finalized.  An observation keeps last_seen - first_seen (as far as finality *)
(* needs it), the time since last_seen, and blocks_seen.                       *)

Observed == [age |-> 0, since |-> 0, blocks_seen |-> 0]

Held(s) == hash[s] # NoKey

\* The ledger does not know the hash: get removes the hash and fails.
Hanging(s) == Held(s) /\ hash[s] \notin DOMAIN ledger[s]

Readable(s) == Held(s) /\ ~ Hanging(s)

ObservationOf(s) == ledger[s][hash[s]]

Unsafe(s) == ObservationOf(s).age < FinalityAfter

Risky(s) == ~ Unsafe(s) /\ ObservationOf(s).blocks_seen < FinalityTicks

Safe(s) == ~ Unsafe(s) /\ ~ Risky(s)

\* get of a value that the ledger knows: it is seen once more.
See(s) ==
    ledger' = [ledger EXCEPT ![s][hash[s]] =
        [age         |-> AtMost(@.age + @.since, FinalityAfter),
         since       |-> 0,
         blocks_seen |-> @.blocks_seen + (IF Risky(s) /\ @.since > 0 THEN 1 ELSE 0)]]

Forget(f, k) == Restrict(f, DOMAIN f \ {k})

Enter(f, k) == [x \in DOMAIN f \cup {k} |-> IF x = k THEN Observed ELSE f[x]]

\* The two writes of insert.  Key is the bound on the keys in use at a time.
InsertHash(s, then) ==
    /\ Unused # {}
    /\ hash' = [hash EXCEPT ![s] = Fresh]
    /\ pc' = then
    /\ UNCHANGED <<ledger, by>>

InsertLedger(s, then) ==
    /\ ledger' = [ledger EXCEPT ![s] = Enter(@, hash[s])]
    /\ pc' = then
    /\ UNCHANGED <<hash, by>>

\* The two writes of remove.
RemoveHash(s, then) ==
    /\ by' = hash[s]
    /\ hash' = [hash EXCEPT ![s] = NoKey]
    /\ pc' = then
    /\ UNCHANGED ledger

RemoveLedger(s, then) ==
    /\ ledger' = [ledger EXCEPT ![s] = Forget(@, by)]
    /\ pc' = then
    /\ UNCHANGED <<hash, by>>

\* Mutant: a hash that the ledger does not know stays.
GetStopsHanging(s) ==
    /\ pc' = "idle"
    /\ UNCHANGED <<hash, by>>
    /\ \/ Hanging(s) /\ UNCHANGED ledger
       \/ Readable(s) /\ ~ Safe(s) /\ See(s)

\* get of a slot that does not let the worker go on.
GetStops(s) ==
    /\ pc' = "idle"
    /\ UNCHANGED by
    /\ \/ /\ Hanging(s)
          /\ hash' = [hash EXCEPT ![s] = NoKey]
          /\ UNCHANGED ledger
       \/ /\ Readable(s)
          /\ ~ Safe(s)
          /\ See(s)
          /\ UNCHANGED hash

-----------------------------------------------------------------------------
(* The worker *)

\* InitAffidavitKey.  A value once found Safe is found so again in the block,
\* and one just inserted is Unsafe: TryElection, which reads it again, stops.
InitAffidavitKey ==
    /\ pc = "start"
    /\ UNCHANGED <<chain, pool, faults>>
    /\ \/ ~ Held(ACTIVE_AFDT_KEY) /\ pc' = "insert active" /\ UNCHANGED <<storage, by>>
       \/ GetStops(ACTIVE_AFDT_KEY)
       \/ /\ Readable(ACTIVE_AFDT_KEY) /\ Safe(ACTIVE_AFDT_KEY)
          /\ See(ACTIVE_AFDT_KEY)
          /\ pc' = "elect"
          /\ UNCHANGED <<hash, by>>

InsertActive ==
    /\ \/ pc = "insert active" /\ InsertHash(ACTIVE_AFDT_KEY, "observe active")
       \/ pc = "observe active" /\ InsertLedger(ACTIVE_AFDT_KEY, "idle")
    /\ UNCHANGED <<chain, pool, faults>>

can_process_election == ElectionBegins <= at /\ at <= AffidavitEnds

TryElection ==
    /\ pc = "elect"
    /\ pc' = "declare"
    /\ LET k == hash[ACTIVE_AFDT_KEY]
       IN  pool' = IF can_process_election /\ k \in keys[2] /\ ~ prepared
                   THEN pool \cup Sent("elect", k, NoKey) ELSE pool
    /\ UNCHANGED <<chain, storage, by, faults>>

can_submit_affidavit(k) == k \in keys[1] /\ AffidavitBegins <= at /\ at <= AffidavitEnds

DeclareAffidavit ==
    /\ pc = "declare"
    /\ UNCHANGED <<chain, faults>>
    /\ \/ /\ ~ Held(NEXT_AFDT_KEY)
          /\ pc' = "insert next"
          /\ UNCHANGED <<storage, by, pool>>
       \/ GetStops(NEXT_AFDT_KEY) /\ UNCHANGED pool
       \/ /\ Readable(NEXT_AFDT_KEY) /\ Safe(NEXT_AFDT_KEY)
          /\ See(NEXT_AFDT_KEY)
          /\ IF can_submit_affidavit(hash[ACTIVE_AFDT_KEY])
             THEN /\ pool' = pool \cup Sent("declare", hash[ACTIVE_AFDT_KEY], hash[NEXT_AFDT_KEY])
                  /\ pc' = "rotate"
             ELSE pc' = "idle" /\ UNCHANGED pool
          /\ UNCHANGED <<hash, by>>

InsertNext ==
    /\ \/ pc = "insert next" /\ InsertHash(NEXT_AFDT_KEY, "observe next")
       \/ pc = "observe next" /\ InsertLedger(NEXT_AFDT_KEY, "idle")
    /\ UNCHANGED <<chain, pool, faults>>

\* Mutant: gives up one block early.
RotateEarlyStop ==
    /\ pc = "rotate"
    /\ pc' = CASE hash[NEXT_AFDT_KEY] \in keys[2] -> "take next"
               [] hash[NEXT_AFDT_KEY] \notin keys[2] /\ at + 1 >= AverageLength -> "drop next"
               [] OTHER -> "idle"
    /\ UNCHANGED <<chain, pool, storage, by, faults>>

\* Mutant: what was sent is taken for registered.
RotateUnconfirmed ==
    /\ pc = "rotate"
    /\ pc' = IF at >= AverageLength THEN "drop next" ELSE "take next"
    /\ UNCHANGED <<chain, pool, storage, by, faults>>

\* RotateAffidavitKey, can_run.
RotateAffidavitKey ==
    /\ pc = "rotate"
    /\ pc' = CASE hash[NEXT_AFDT_KEY] \in keys[2] -> "take next"
               [] hash[NEXT_AFDT_KEY] \notin keys[2] /\ at >= AverageLength -> "drop next"
               [] OTHER -> "idle"
    /\ UNCHANGED <<chain, pool, storage, by, faults>>

\* The registration did not come in time: both keys go.
Stop ==
    /\ \/ pc = "drop next" /\ RemoveHash(NEXT_AFDT_KEY, "forget next")
       \/ pc = "forget next" /\ RemoveLedger(NEXT_AFDT_KEY, "drop active")
       \/ pc = "drop active" /\ RemoveHash(ACTIVE_AFDT_KEY, "forget active")
       \/ pc = "forget active" /\ RemoveLedger(ACTIVE_AFDT_KEY, "idle")
    /\ UNCHANGED <<chain, pool, faults>>

\* RotateAffidavitKey, run_service: remove of the next key ...
TakeNext ==
    /\ \/ pc = "take next" /\ RemoveHash(NEXT_AFDT_KEY, "unlist next")
       \/ pc = "unlist next" /\ RemoveLedger(NEXT_AFDT_KEY, "enter active")
    /\ UNCHANGED <<chain, pool, faults>>

\* ... and mutate of the active one, which writes the ledger first.
EnterActive ==
    /\ pc = "enter active"
    /\ ledger' = [ledger EXCEPT ![ACTIVE_AFDT_KEY] = Enter(Forget(@, hash[ACTIVE_AFDT_KEY]), by)]
    /\ pc' = "adopt"
    /\ UNCHANGED <<chain, pool, hash, by, faults>>

Adopt ==
    /\ pc = "adopt"
    /\ hash' = [hash EXCEPT ![ACTIVE_AFDT_KEY] = by]
    /\ pc' = "idle"
    /\ UNCHANGED <<chain, pool, ledger, by, faults>>

offchain_worker ==
    \/ InitAffidavitKey \/ InsertActive \/ TryElection \/ DeclareAffidavit \/ InsertNext
    \/ RotateAffidavitKey \/ Stop \/ TakeNext \/ EnterActive \/ Adopt

-----------------------------------------------------------------------------
(* The chain.  A block is executed, and then its worker begins. *)

\* Time has passed for every observation.
Later(f) ==
    [k \in DOMAIN f |-> [f[k] EXCEPT !.since = AtMost(@ + 1, FinalityAfter)]]

\* The next block, of this session or of the next.  A transaction that
\* validate_unsigned admits lives until the affidavits end.
NextBlock ==
    /\ pc = "idle"
    /\ pc' = "start"
    /\ \/ /\ at + 1 < MaxLength
          /\ at' = at + 1
          /\ UNCHANGED <<keys, prepared>>
       \/ /\ at + 1 >= AverageLength
          /\ at' = 0
          /\ keys' = [keys EXCEPT ![1] = keys[2], ![2] = {}]
          /\ prepared' = FALSE
    /\ pool' = IF at' \in 1 .. AffidavitEnds THEN pool ELSE {}
    /\ ledger' = [s \in Slots |-> Later(ledger[s])]
    /\ by' = NoKey
    /\ UNCHANGED <<AffidavitEnds, hash, faults>>

\* validate, by the author, for the key its node holds.
Validate ==
    /\ pc = "start"
    /\ Readable(ACTIVE_AFDT_KEY)
    /\ hash[ACTIVE_AFDT_KEY] \notin keys[1] \cup keys[2]
    /\ keys' = [keys EXCEPT ![1] = @ \cup {hash[ACTIVE_AFDT_KEY]}]
    /\ UNCHANGED <<AffidavitEnds, at, prepared, pool, storage, pc, by, faults>>

\* declare and elect: ensure_none, then the checks of the call.
Accepted(t) ==
    /\ t.origin = "none"
    /\ \/ t.kind = "declare" /\ can_submit_affidavit(t.key)
       \/ t.kind = "elect" /\ t.key \in keys[2] /\ can_process_election

Include(t) ==
    /\ pc = "start"
    /\ t \in pool
    /\ pool' = pool \ {t}
    /\ keys' = IF Accepted(t) /\ t.kind = "declare"
               THEN [keys EXCEPT ![2] = @ \cup {t.rotate}] ELSE keys
    /\ prepared' = (prepared \/ (Accepted(t) /\ t.kind = "elect"))
    /\ UNCHANGED <<AffidavitEnds, at, storage, pc, by, faults>>

-----------------------------------------------------------------------------
(* Faults *)

Fault == faults < MaxFaults /\ faults' = faults + 1

\* The node stops; what it has written stays.
Crash ==
    /\ Fault
    /\ pc \notin {"idle", "start"}
    /\ pc' = "idle"
    /\ UNCHANGED <<chain, pool, storage, by>>

\* No worker runs for this block.
Miss ==
    /\ Fault
    /\ pc = "start"
    /\ pc' = "idle"
    /\ UNCHANGED <<chain, pool, storage, by>>

LoseTx(t) ==
    /\ Fault
    /\ t \in pool
    /\ pool' = pool \ {t}
    /\ UNCHANGED <<chain, storage, pc, by>>

-----------------------------------------------------------------------------

Init ==
    /\ AffidavitEnds \in AffidavitEndings
    /\ at = 0
    /\ keys = [i \in 1 .. 2 |-> {}]
    /\ prepared = FALSE
    /\ pool = {}
    /\ hash = [s \in Slots |-> NoKey]
    /\ ledger = [s \in Slots |-> [k \in {} |-> Observed]]
    /\ pc = "idle"
    /\ by = NoKey
    /\ faults = 0

Next ==
    \/ offchain_worker
    \/ NextBlock
    \/ Validate
    \/ \E t \in pool : Include(t) \/ LoseTx(t)
    \/ Crash
    \/ Miss

\* The node goes on, a declaration that the chain would accept again and again
\* is included, and the author validates a key that is not registered before
\* the affidavits begin, again and again.
Fairness ==
    /\ WF_vars(offchain_worker)
    /\ WF_vars(NextBlock)
    /\ SF_vars(\E t \in pool : Include(t) /\ Accepted(t) /\ t.kind = "declare" /\ t.rotate \notin keys[2])
    /\ SF_vars(Validate /\ at <= AffidavitBegins)

Spec == Init /\ [][Next]_vars /\ Fairness

-----------------------------------------------------------------------------
(* Properties *)

Transactions ==
    [kind : {"declare", "elect"}, key : Key, rotate : Key \cup {NoKey}, origin : {"signed", "none"}]

Observations == [age : 0 .. FinalityAfter, since : 0 .. FinalityAfter, blocks_seen : Nat]

Steps ==
    {"idle", "start", "insert active", "observe active", "elect", "declare", "insert next",
     "observe next", "rotate", "take next", "unlist next", "enter active", "adopt",
     "drop next", "forget next", "drop active", "forget active"}

\* Storage, transactions and the worker's place stay within their types.
TypeOK ==
    /\ AffidavitEnds \in AffidavitEndings
    /\ at \in Nat
    /\ keys \in [1 .. 2 -> SUBSET Key]
    /\ prepared \in BOOLEAN
    /\ pool \subseteq Transactions
    /\ \A t \in pool : t.kind = "declare" => t.rotate \in Key
    /\ hash \in [Slots -> Key \cup {NoKey}]
    /\ DOMAIN ledger = Slots
    /\ \A s \in Slots : DOMAIN ledger[s] \subseteq Key
    /\ \A s \in Slots : \A k \in DOMAIN ledger[s] : ledger[s][k] \in Observations
    /\ pc \in Steps
    /\ by \in Key \cup {NoKey}
    /\ faults \in 0 .. MaxFaults

Visible(s) == IF Readable(s) THEN hash[s] ELSE NoKey

Moving == pc \in {"unlist next", "enter active", "adopt"}

Keys == INSTANCE KeyCycle WITH
            active     <- IF pc = "adopt" THEN hash[ACTIVE_AFDT_KEY] ELSE Visible(ACTIVE_AFDT_KEY),
            next       <- IF Moving THEN by ELSE Visible(NEXT_AFDT_KEY),
            registered <- keys[2]

\* The routines and their eight kinds of writes, with a crash between any two,
\* implement the key cycle: a rotation that is interrupted loses keys, and the
\* active key is never replaced by one the chain has not registered.
RotationIsAtomic == Keys!Cycle

\* Without a fault, a key that the chain has registered for the session after
\* next is one the node still holds: the worker that gives up on a declaration
\* does so when it can no longer be accepted.
NothingOrphaned ==
    faults = 0 => keys[2] \subseteq {hash[ACTIVE_AFDT_KEY], hash[NEXT_AFDT_KEY], by}

\* However the node crashes between two writes, misses blocks and loses
\* transactions, it goes on rotating keys: no half written state stops it.
\* The affidavits end before the session may: otherwise a worker whose keys
\* are final in the last block declares and gives up in one run, each session.
KeepsRotating == (AffidavitEnds < AverageLength) => []<><<Adopt>>_vars

-----------------------------------------------------------------------------
(* What the documentation says and the code does not do *)

\* "origin: Must be a signed account": a declaration the worker has signed and
\* sent, included while it may be submitted, registers the next key.
SignedDeclares ==
    [][\A t \in pool : Include(t) /\ t.kind = "declare" /\ can_submit_affidavit(t.key)
                          => t.rotate \in keys'[2]]_vars

=============================================================================
