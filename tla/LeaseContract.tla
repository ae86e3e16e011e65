---------------------------- MODULE LeaseContract ----------------------------
(***************************************************************************)
(* What the desktop lease promises to interactive sessions, with no word   *)
(* about launchers, pipes or ACLs: a program is created and runs only on a *)
(* desktop that was opened to its logon, and that stays open to it until   *)
(* it is gone, whatever becomes of other sessions.  DesktopLease           *)
(* implements this with coordinators that may fail or be killed, and       *)
(* BrokerSessions keeps it, for which a lease is granted in one step.      *)
(***************************************************************************)
CONSTANT Sessions

VARIABLES stage,  \* out, launching, granted (a lease, no program yet), running
          open    \* the sessions whose logon has access to the desktop

leaseVars == <<stage, open>>

Move(s, from, to) == stage[s] \in from /\ stage' = [stage EXCEPT ![s] = to]

\* The sessions that have, or are about to have, a program on the desktop.
Held == {s \in Sessions : stage[s] \in {"granted", "running"}}

LeaseInit ==
    /\ stage = [s \in Sessions |-> "out"]
    /\ open = {}

\* One launch at a time.
Begin(s) ==
    /\ \A t \in Sessions : stage[t] \notin {"launching", "granted"}
    /\ Move(s, {"out"}, "launching")
    /\ UNCHANGED open

Grant(s) ==
    /\ Move(s, {"launching"}, "granted")
    /\ open' = open \cup {s}

Start(s) ==
    /\ Move(s, {"granted"}, "running")
    /\ UNCHANGED open

\* The program could not be created and the lease is given back, successfully or not.
GiveBack(s) ==
    /\ Move(s, {"granted"}, "launching")
    /\ open' \in {open, open \ {s}}

\* The launch fails, or the program is gone and the lease is given back.
Leave(s) ==
    /\ Move(s, {"launching", "granted", "running"}, "out")
    /\ open' \in {open, open \ {s}}

\* Access is granted ahead of the lease, taken back, or taken away late, of one session that
\* has no program.
Turn(s) ==
    /\ s \notin Held
    /\ open' \in {open \cup {s}, open \ {s}}
    /\ UNCHANGED stage

\* All sessions end at once, with whatever access they have.
Break ==
    /\ stage' = [s \in Sessions |-> "out"]
    /\ UNCHANGED open

LeaseNext ==
    \/ \E s \in Sessions : Begin(s) \/ Grant(s) \/ Start(s) \/ GiveBack(s) \/ Leave(s) \/ Turn(s)
    \/ Break

LeaseSpec == LeaseInit /\ [][LeaseNext]_leaseVars
=============================================================================
