---------------------------- MODULE ScopeContract ----------------------------
(***************************************************************************)
(* What a read scope promises to the sessions that share it, with no word  *)
(* about directories, volumes or ACEs.  Two specifications meet here:      *)
(* ReadScope implements this contract with BrokerReadScope's walk, and     *)
(* BrokerSessions, which sees of a scope only whether its denials are in   *)
(* place, keeps it with every account's scope.                             *)
(***************************************************************************)
CONSTANT Sessions

VARIABLES stage,    \* where each session stands with respect to the scope
          inPlace   \* how much of the denials is in place

contractVars == <<stage, inPlace>>

Inside == {s \in Sessions : stage[s] # "out"}
Move(s, from, to) == stage[s] \in from /\ stage' = [stage EXCEPT ![s] = to]

\* Preparing: complete denials stay complete, incomplete ones may become so.
Partly == IF inPlace = "full" THEN {"full"} ELSE {"none", "partial", "full"}

\* A failed restoration may leave all of the denials or some of them.
Remains == IF inPlace = "none" THEN {"none"} ELSE {inPlace, "partial"}

ContractInit ==
    /\ stage = [s \in Sessions |-> "out"]
    /\ inPlace = "none"

\* The first session finds nothing of an earlier one.
Admit(s) ==
    /\ Move(s, {"out"}, "admitted")
    /\ inPlace' = IF Inside = {} THEN "none" ELSE inPlace

\* A restoration that failed is tried again, with nobody inside.
Retry ==
    /\ Inside = {}
    /\ inPlace' \in Remains \cup {"none"}
    /\ UNCHANGED stage

\* One session at a time prepares the scope.
Begin(s) ==
    /\ \A t \in Sessions : stage[t] # "ensuring"
    /\ Move(s, {"admitted"}, "ensuring")
    /\ UNCHANGED inPlace

Work ==
    /\ \E s \in Sessions : stage[s] = "ensuring"
    /\ inPlace' \in Partly
    /\ UNCHANGED stage

\* A program runs only under complete denials.
Ensured(s) ==
    /\ Move(s, {"ensuring"}, "running")
    /\ inPlace' = "full"

Abandoned(s) ==
    /\ Move(s, {"ensuring"}, "leaving")
    /\ inPlace' \in Partly

\* The launch fails before or after the scope was prepared.
Leave(s) ==
    /\ Move(s, {"admitted", "running"}, "leaving")
    /\ UNCHANGED inPlace

\* Nothing is taken away before the last session leaves.
Release(s) ==
    /\ Move(s, {"admitted", "running", "leaving"}, "out")
    /\ IF Inside = {s} THEN inPlace' \in Remains \cup {"none"} ELSE UNCHANGED inPlace

ContractNext ==
    \/ \E s \in Sessions :
          Admit(s) \/ Begin(s) \/ Ensured(s) \/ Abandoned(s) \/ Leave(s) \/ Release(s)
    \/ Work \/ Retry

ContractSpec == ContractInit /\ [][ContractNext]_contractVars
=============================================================================
