------------------------------- MODULE KeyCycle -------------------------------
(***************************************************************************)
(* What the off-chain worker of a validating node promises about its       *)
(* affidavit keys: it holds an active key and prepares the next one, and   *)
(* the next becomes the active one in one step, once the chain has         *)
(* registered it for the session after next.  A key may be lost; none ever *)
(* takes the place of another in any other way.                            *)
(***************************************************************************)
CONSTANTS Key, NoKey

VARIABLES active, next,     \* a key, or NoKey
          registered        \* the keys known to the chain for the session after next

cycle == <<active, next, registered>>

Create ==
    /\ active = NoKey
    /\ active' \in Key \ ({next} \cup registered)
    /\ UNCHANGED <<next, registered>>

Prepare ==
    /\ next = NoKey
    /\ next' \in Key \ ({active} \cup registered)
    /\ UNCHANGED <<active, registered>>

Register ==
    /\ \E k \in Key : registered' = registered \cup {k}
    /\ UNCHANGED <<active, next>>

Rotate ==
    /\ next \in registered
    /\ active' = next
    /\ next' = NoKey
    /\ UNCHANGED registered

Lose ==
    /\ active' \in {active, NoKey}
    /\ next' \in {next, NoKey}
    /\ UNCHANGED registered

\* The session after next is another one: nothing is registered for it yet.
Turn ==
    /\ registered' = {}
    /\ UNCHANGED <<active, next>>

CycleInit == active = NoKey /\ next = NoKey /\ registered = {}

CycleNext == Create \/ Prepare \/ Register \/ Rotate \/ Lose \/ Turn

Cycle == CycleInit /\ [][CycleNext]_cycle

=============================================================================
