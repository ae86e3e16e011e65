--------------------------- MODULE BrokerLifecycle ---------------------------
(***************************************************************************)
(* What a run of the broker service promises: it takes on requests while   *)
(* it runs, never more than its pool holds; once its end has begun, at     *)
(* most the one client whose pipe was on offer then; and it is gone only   *)
(* when nobody works in it.  ControlPipeListener implements it, and the    *)
(* session core of BrokerSessions relies on it.                            *)
(***************************************************************************)
EXTENDS Integers, FiniteSets

CONSTANTS Workers, MaxWorkers

VARIABLES phase,  \* up, ending (one more request may begin), closed (none may), down
          busy    \* the workers that run a request

lifecycleVars == <<phase, busy>>

LifecycleInit ==
    /\ phase \in {"up", "down"}
    /\ busy = {}

BeginRequest(w) ==
    /\ phase \in {"up", "ending"}
    /\ w \notin busy
    /\ Cardinality(busy) < MaxWorkers
    /\ busy' = busy \cup {w}
    /\ phase' = IF phase = "ending" THEN "closed" ELSE phase

FinishRequest(w) ==
    /\ busy' = busy \ {w}
    /\ UNCHANGED phase

End ==
    /\ phase = "up"
    /\ phase' \in {"ending", "closed"}
    /\ UNCHANGED busy

\* No client came to the pipe that was on offer when the end began.
Close ==
    /\ phase = "ending"
    /\ phase' = "closed"
    /\ UNCHANGED busy

Exit ==
    /\ phase \in {"ending", "closed"}
    /\ busy = {}
    /\ phase' = "down"
    /\ UNCHANGED busy

Start ==
    /\ phase = "down"
    /\ phase' = "up"
    /\ UNCHANGED busy

LifecycleNext ==
    \/ \E w \in Workers : BeginRequest(w) \/ FinishRequest(w)
    \/ End
    \/ Close
    \/ Exit
    \/ Start

LifecycleSpec == LifecycleInit /\ [][LifecycleNext]_lifecycleVars
=============================================================================
