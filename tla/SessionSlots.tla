---------------------------- MODULE SessionSlots ----------------------------
(***************************************************************************)
(* What the broker promises about sessions, with no word about how: a slot *)
(* is admitted within the limits and in the account's access mode, a       *)
(* process tree lives only inside a slot, and a slot is given back only    *)
(* once its tree is gone.                                                  *)
(***************************************************************************)
EXTENDS Integers, FiniteSets

CONSTANTS Workers, Accounts, MaxSessions, MaxPerAccount

VARIABLES slot,   \* what each worker's slot was admitted for, or Free
          alive   \* the workers whose process tree exists

slotVars == <<slot, alive>>

Free == [free |-> TRUE]
Grants == [account : Accounts, restrict : BOOLEAN]

Taken == {w \in Workers : slot[w] # Free}
TakenFor(a) == {w \in Taken : slot[w].account = a}

SlotInit ==
    /\ slot = [w \in Workers |-> Free]
    /\ alive = {}

AdmitSlot(w, s) ==
    /\ slot[w] = Free
    /\ Cardinality(Taken) < MaxSessions
    /\ Cardinality(TakenFor(s.account)) < MaxPerAccount
    /\ \A v \in TakenFor(s.account) : slot[v].restrict = s.restrict
    /\ slot' = [slot EXCEPT ![w] = s]
    /\ UNCHANGED alive

StartTree(w) ==
    /\ slot[w] # Free
    /\ alive' = alive \cup {w}
    /\ UNCHANGED slot

EndTree(w) ==
    /\ alive' = alive \ {w}
    /\ UNCHANGED slot

ReleaseSlot(w) ==
    /\ w \notin alive
    /\ slot' = [slot EXCEPT ![w] = Free]
    /\ UNCHANGED alive

SlotNext ==
    \E w \in Workers :
        \/ \E s \in Grants : AdmitSlot(w, s)
        \/ StartTree(w)
        \/ EndTree(w)
        \/ ReleaseSlot(w)

SlotSpec == SlotInit /\ [][SlotNext]_slotVars
=============================================================================
