-------------------------------- MODULE Forks --------------------------------
(***************************************************************************)
(* The fork graph of the off-chain workers (ForksHandler) and the fork     *)
(* aware storage on top of it (ForkAware).  The worker of a block first    *)
(* resolves the block's parent: a block that extends the highest resolved  *)
(* one continues the branch of its own parent, any other opens a branch    *)
(* that inherits what that branch has in scope; then its routines insert,  *)
(* mutate and remove.  Off-chain storage is one database for all forks.    *)
(*                                                                         *)
(* Workers run concurrently: reading a branch, writing it back and writing *)
(* a value are steps of their own.  Only the extension of a branch         *)
(* compares before it writes; any other write undoes what was written      *)
(* since its worker read.  A block may be imported without a worker        *)
(* (during a sync), and the node may stop at any step of its workers.      *)
(* A divider only leads from a block to its branch and a branch is never   *)
(* deleted, so the two maps are one here.                                  *)
(***************************************************************************)
EXTENDS Integers, Sequences, FiniteSets, Functions

CONSTANTS Block,        \* the blocks that are ever produced
          Genesis,
          Parent,       \* block -> its parent
          Number,       \* block -> its number
          Keys,
          MAX_FORKS, MAX_RECOVER_TRAVERSAL,
          NoHead,
          MaxRunning,   \* bound: workers that run at a time
          MaxOps        \* bound: operations on the storage

ASSUME ForksAssumption ==
    /\ Genesis \in Block
    /\ Parent \in [Block \ {Genesis} -> Block]
    /\ Number \in [Block -> Nat]
    /\ Number[Genesis] = 0
    /\ \A b \in Block \ {Genesis} : Number[b] = Number[Parent[b]] + 1
    /\ MAX_FORKS \in Nat
    /\ MAX_RECOVER_TRAVERSAL \in Nat
    /\ MaxRunning \in Nat
    /\ MaxOps \in Nat
    /\ NoHead \notin Nat

VARIABLES
    imported,   \* the blocks this node knows
    work,       \* block whose worker runs -> what the worker is about to do
    head,       \* HEAD_BLOCK: the highest number that was resolved
    branchOf,   \* block -> its branch, for those resolved or recovered
    branches,   \* branch -> its head, the keys it inherited and those of its own
    valued,     \* the keys that have a value
    ops,        \* how many operations on the storage began
    recovered,  \* whether a parent had to be recovered, once there were branches
    overlapping, \* the workers in an operation that another's operation overlaps
    inserted,   \* <<key, block>>: the inserts that nothing overlapped, before a child arrived
    removed,    \* the keys that were ever removed
    owed        \* running block -> the keys its ancestors had inserted when it began

vars == <<imported, work, head, branchOf, branches, valued, ops, recovered,
          overlapping, inserted, removed, owed>>

storage == <<valued, ops>>
graph   == <<head, branchOf, branches>>
history == <<recovered, inserted, removed, owed>>

running == DOMAIN work

Put(f, x, v) == [y \in DOMAIN f \cup {x} |-> IF y = x THEN v ELSE f[y]]

Ancestors[b \in Block] == {b} \cup (IF b = Genesis THEN {} ELSE Ancestors[Parent[b]])

Children(b) == {c \in imported \ {Genesis} : Parent[c] = b}

Anc(b, n) == CHOOSE a \in Ancestors[b] : Number[a] = n

-----------------------------------------------------------------------------
(* Branches and their scopes (Branch, ForkLocalDepot) *)

EmptyBranch(n) == [head |-> n, inherited |-> {}, local |-> {}]

in_scope(s) == s.inherited \cup s.local

accrete(s, n) == [head |-> n, inherited |-> in_scope(s), local |-> {}]

\* The branch the worker of b works in, looked up again by each operation.
BranchHash(b) == branchOf[Parent[b]]

scope_item_exists(b, k) == k \in in_scope(branches[BranchHash(b)])

-----------------------------------------------------------------------------
(* What a worker is about to do *)

Idle == [at |-> "idle"]

\* To extend the branch id, if it still is what was read.
Extending(id, read) == [at |-> "extend", id |-> id, branch |-> read]

\* To write a new branch ("fork", "promote").
Opening(at, id, new) == [at |-> at, id |-> id, branch |-> new]

\* To write back a branch for the sake of a key ("add", "unscope").
Rescoping(at, id, k, new) == [at |-> at, id |-> id, key |-> k, branch |-> new]

\* To go on about a key ("set", "mutate", "drop").
Turning(at, k) == [at |-> at, key |-> k]

\* The worker of b has resolved its parent and runs its routines.
Resolved(b) == work[b].at \notin {"extend", "fork", "promote"}

Busy == {c \in running : work[c] # Idle}

\* The worker of b begins an operation, goes on with it, or is through with it.
Begins(b, w) ==
    /\ work' = Put(work, b, w)
    /\ overlapping' = overlapping \cup (IF Busy = {} THEN {} ELSE Busy \cup {b})

Calls(b, w) ==
    /\ work[b] = Idle
    /\ ops < MaxOps
    /\ ops' = ops + 1
    /\ Begins(b, w)

GoesOn(b, w) ==
    /\ work' = [work EXCEPT ![b] = w]
    /\ UNCHANGED overlapping

Returns(b) ==
    /\ work' = [work EXCEPT ![b] = Idle]
    /\ overlapping' = overlapping \ {b}

Ends(b) ==
    /\ work' = Restrict(work, running \ {b})
    /\ overlapping' = overlapping \ {b}
    /\ owed' = Restrict(owed, running \ {b})

-----------------------------------------------------------------------------
(* start *)

\* parent_branch_hash_unavailable: p, the parent of x, has no branch.  The
\* blocks from p's grandparent back are asked for theirs; the nearest one's
\* scope goes to a branch of its own for the blocks that follow, up to p.
\* Failing that p is the root of an empty branch.
Recover(x) ==
    LET n     == Number[x]
        first == IF n > 2 THEN n - 2 ELSE 0
        found == {r \in 1 .. first :
                    /\ first - r < MAX_RECOVER_TRAVERSAL
                    /\ Anc(x, r - 1) \in DOMAIN branchOf}
        r     == CHOOSE m \in found : \A j \in found : j <= m
        new   == IF found = {} THEN EmptyBranch(n - 1)
                 ELSE accrete(branches[branchOf[Anc(x, r - 1)]], r + 1)
        id    == <<Anc(x, IF found = {} THEN first ELSE r), <<>>>>
        fixed == IF found = {} THEN {Parent[x]} ELSE {Anc(x, t) : t \in r + 1 .. n - 1}
    IN  [of  |-> [b \in DOMAIN branchOf \cup fixed |-> IF b \in fixed THEN id ELSE branchOf[b]],
         all |-> Put(branches, id, new)]

\* The graph in which the parent of x has a branch.
Resolvable(x) ==
    IF Parent[x] \in DOMAIN branchOf THEN [of |-> branchOf, all |-> branches] ELSE Recover(x)

Child(id, i) == <<id[1], Append(id[2], i)>>

FreeSlots(all, id) == {i \in 0 .. MAX_FORKS : Child(id, i) \notin DOMAIN all}

\* Mutant: the branch inherits only what its parent's branch has of its own.
SiblingLocal(at, all, id, n) ==
    LET free == FreeSlots(all, id)
    IN  Opening(at, Child(id, CHOOSE i \in free : \A j \in free : i <= j),
                [head |-> n, inherited |-> all[id].local, local |-> {}])

\* The branch to be opened in the first free slot under id, from what is read of id.
Sibling(at, all, id, n) ==
    LET free == FreeSlots(all, id)
    IN  Opening(at, Child(id, CHOOSE i \in free : \A j \in free : i <= j), accrete(all[id], n))

Import(b) ==
    /\ b \notin imported
    /\ Parent[b] \in imported
    /\ imported' = imported \cup {b}

\* The worker of b begins: it looks for the branch of the parent of x, the block
\* it resolves, and reads it.  Blocks next to genesis are left alone.
Start(b) ==
    /\ Import(b)
    /\ Number[b] >= 2
    /\ Cardinality(running) < MaxRunning
    /\ LET x  == Parent[b]
           n  == Number[x]
           g  == Resolvable(x)
           id == g.of[Parent[x]]
           h  == IF head = NoHead THEN n - 1 ELSE head
           due == {y[1] : y \in {z \in inserted : z[2] \in Ancestors[b]}}
       IN
       /\ branchOf' = g.of
       /\ branches' = g.all
       /\ head' = h
       /\ recovered' = (recovered \/ (branches # <<>> /\ Parent[x] \notin DOMAIN branchOf))
       /\ \/ /\ n > h                              \* x extends its parent's branch
             /\ Begins(b, Extending(id, g.all[id]))
             /\ owed' = Put(owed, b, due)
          \/ /\ n <= h                             \* a fork
             /\ FreeSlots(g.all, id) # {}
             /\ Begins(b, Sibling("fork", g.all, id, n))
             /\ owed' = Put(owed, b, due)
          \/ /\ n <= h                             \* max_forks
             /\ FreeSlots(g.all, id) = {}
             /\ overlapping' = overlapping \cup Busy
             /\ UNCHANGED <<work, owed>>
    /\ UNCHANGED <<storage, inserted, removed>>

\* The extension, if the branch is still what was read.  If it is not
\* (inherited_branch_mutation_conflict), x is to have a branch of its own.
Extend(b) ==
    LET x  == Parent[b]
        n  == Number[x]
        w  == work[b]
        id == branchOf[Parent[x]]
    IN
    /\ b \in running
    /\ w.at = "extend"
    /\ \/ /\ branches[w.id] = w.branch
          /\ branches' = [branches EXCEPT ![w.id].head = n]
          /\ branchOf' = Put(branchOf, x, w.id)
          /\ head' = n
          /\ Returns(b)
          /\ UNCHANGED owed
       \/ /\ branches[w.id] # w.branch
          /\ FreeSlots(branches, id) # {}
          /\ GoesOn(b, Sibling("promote", branches, id, n))
          /\ UNCHANGED <<graph, owed>>
       \/ /\ branches[w.id] # w.branch
          /\ FreeSlots(branches, id) = {}
          /\ Ends(b)
          /\ UNCHANGED graph
    /\ UNCHANGED <<imported, storage, recovered, inserted, removed>>

\* The branch of a fork, or after a conflict, is written and x led to it.
OpenBranch(b) ==
    /\ b \in running
    /\ work[b].at \in {"fork", "promote"}
    /\ branches' = Put(branches, work[b].id, work[b].branch)
    /\ branchOf' = Put(branchOf, Parent[b], work[b].id)
    /\ head' = IF work[b].at = "promote" THEN Number[Parent[b]] ELSE head
    /\ Returns(b)
    /\ UNCHANGED <<imported, storage, history>>

\* b is imported and no worker runs, or none that does anything.
ImportOnly(b) ==
    /\ Import(b)
    /\ UNCHANGED <<work, overlapping, graph, storage, history>>

\* The worker of b is done.
Finish(b) ==
    /\ b \in running
    /\ work[b] = Idle
    /\ Ends(b)
    /\ UNCHANGED <<imported, graph, storage, recovered, inserted, removed>>

\* The node stops, and with it every worker where it is.
Stop ==
    /\ running # {}
    /\ work' = <<>>
    /\ overlapping' = {}
    /\ owed' = <<>>
    /\ UNCHANGED <<imported, graph, storage, recovered, inserted, removed>>

-----------------------------------------------------------------------------
(* ForkAware, by the worker of b *)

\* insert: add_to_scope reads the branch.
Insert(b, k) ==
    /\ b \in running /\ Resolved(b)
    /\ LET id == BranchHash(b)
       IN  Calls(b, Rescoping("add", id, k, [branches[id] EXCEPT !.local = @ \cup {k}]))
    /\ UNCHANGED <<imported, graph, valued, history>>

\* remove of a key that is in scope clears the value.
Remove(b, k) ==
    /\ b \in running /\ Resolved(b)
    /\ scope_item_exists(b, k)
    /\ Calls(b, Turning("drop", k))
    /\ valued' = valued \ {k}
    /\ removed' = removed \cup {k}
    /\ UNCHANGED <<imported, graph, recovered, inserted, owed>>

\* remove_from_scope reads the branch, for the key in its own scope or else in
\* the inherited one.
RemoveFromScope(b) ==
    /\ b \in running
    /\ work[b].at = "drop"
    /\ LET k    == work[b].key
           id   == BranchHash(b)
           part == IF k \in branches[id].local THEN "local" ELSE "inherited"
       IN  \/ /\ scope_item_exists(b, k)
              /\ GoesOn(b, Rescoping("unscope", id, k, [branches[id] EXCEPT ![part] = @ \ {k}]))
           \/ /\ ~ scope_item_exists(b, k)
              /\ Returns(b)
    /\ UNCHANGED <<imported, graph, storage, history>>

\* store_encoded of add_to_scope and remove_from_scope: the branch that was
\* read, changed, is written back without comparing.
StoreScope(b) ==
    /\ b \in running
    /\ work[b].at \in {"add", "unscope"}
    /\ branches' = [branches EXCEPT ![work[b].id] = work[b].branch]
    /\ \/ work[b].at = "add" /\ GoesOn(b, Turning("set", work[b].key))
       \/ work[b].at = "unscope" /\ Returns(b)
    /\ UNCHANGED <<imported, head, branchOf, storage, history>>

\* insert sets the value, under a key that is the same in every branch.
SetValue(b) ==
    /\ b \in running
    /\ work[b].at = "set"
    /\ valued' = valued \cup {work[b].key}
    /\ inserted' = IF Children(b) = {} /\ b \notin overlapping
                   THEN inserted \cup {<<work[b].key, b>>} ELSE inserted
    /\ Returns(b)
    /\ UNCHANGED <<imported, graph, ops, recovered, removed, owed>>

\* mutate of a key that is in scope; otherwise it is insert.
Mutate(b, k) ==
    /\ b \in running /\ Resolved(b)
    /\ scope_item_exists(b, k)
    /\ Calls(b, Turning("mutate", k))
    /\ UNCHANGED <<imported, graph, valued, history>>

\* The value is changed, or another worker's change came in between.
MutateValue(b) ==
    /\ b \in running
    /\ work[b].at = "mutate"
    /\ \/ valued' = valued \cup {work[b].key}
       \/ /\ running # {b}
          /\ UNCHANGED valued
    /\ Returns(b)
    /\ UNCHANGED <<imported, graph, ops, history>>

-----------------------------------------------------------------------------

Init ==
    /\ imported = {Genesis}
    /\ work = <<>>
    /\ head = NoHead
    /\ branchOf = <<>>
    /\ branches = <<>>
    /\ valued = {}
    /\ ops = 0
    /\ recovered = FALSE
    /\ overlapping = {}
    /\ inserted = {}
    /\ removed = {}
    /\ owed = <<>>

Next ==
    \/ Stop
    \/ \E b \in Block \ {Genesis} :
          \/ Start(b)
          \/ Extend(b)
          \/ OpenBranch(b)
          \/ ImportOnly(b)
          \/ Finish(b)
          \/ RemoveFromScope(b)
          \/ StoreScope(b)
          \/ SetValue(b)
          \/ MutateValue(b)
          \/ \E k \in Keys : Insert(b, k) \/ Mutate(b, k) \/ Remove(b, k)

Spec == Init /\ [][Next]_vars

-----------------------------------------------------------------------------
(* Properties *)

\* Blocks arrive on one chain only, and no branch was opened besides it.
NoFork ==
    /\ \A b \in imported : Cardinality(Children(b)) <= 1
    /\ \A id \in DOMAIN branches : id[2] = <<>>

\* The worker of the first child of b met no conflict when it resolved b: the
\* branch of b is that of its parent, or the first a sibling opened under it.
ResolvedAlone(b) ==
    b # Genesis => branchOf[b] \in {branchOf[Parent[b]], Child(branchOf[Parent[b]], 0)}

\* Two chains part at one block, which was resolved without a conflict, and
\* no block's parent had to be recovered.
OneFork ==
    /\ ~ recovered
    /\ \A b \in imported : Cardinality(Children(b)) <= 2
    /\ \A b, c \in imported : Cardinality(Children(b)) = 2 /\ Cardinality(Children(c)) = 2 => b = c
    /\ \A b \in imported : Cardinality(Children(b)) = 2 => ResolvedAlone(b)

\* What a worker inserts before the next block arrives, while no other worker is
\* in an operation, is in scope for the workers of all its descendants, with a
\* value to read, unless somebody removes it: neither the fork that shares the
\* branch, nor a conflict between workers, nor operations that overwrite each
\* other's branches afterwards, nor the recovery after blocks without a worker
\* takes it from them.  (A conflict at the very block where chains part does: the
\* first child's worker then has a branch of its own, and the second's opens the
\* next one, which the parent's block is led to from then on.)
InsertsInherited ==
    \/ \A c \in running : Resolved(c) =>
          \A k \in owed[c] \ removed : scope_item_exists(c, k) /\ k \in valued
    \/ ~ (NoFork \/ OneFork)

=============================================================================
