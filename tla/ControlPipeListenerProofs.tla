---------------------- MODULE ControlPipeListenerProofs ----------------------
(***************************************************************************)
(* Theorems about ControlPipeListener, for every finite set of worker      *)
(* identities, every set of clients, every size of the pool and every      *)
(* choice of faults.                                                       *)
(*                                                                         *)
(* ListenerInvariant is inductive; its parts are proved one lemma each,    *)
(* action by action.  The safety properties follow from it, and with it    *)
(* every step maps to BrokerLifecycle.                                     *)
(***************************************************************************)
EXTENDS ControlPipeListener, FiniteSetTheorems, TLAPS

\* The pool is finite, and taking workers out of it leaves no more than there were.
LEMMA PoolIsFinite ==
    ASSUME TypeOK
    PROVE  /\ IsFiniteSet(pool)
           /\ Cardinality(pool) \in Nat
BY ListenerConstants, FS_Subset, FS_CardinalityType DEF TypeOK

LEMMA SmallerPool ==
    ASSUME TypeOK, NEW Rest \in SUBSET pool
    PROVE  /\ IsFiniteSet(Rest)
           /\ Cardinality(Rest) \in Nat
           /\ Cardinality(Rest) <= Cardinality(pool)
BY PoolIsFinite, FS_Subset, FS_CardinalityType

\* What is left after joining the completed workers.
LEMMA ReapShrinks ==
    ASSUME TypeOK, PoolOwnsThreads, Reap
    PROVE  /\ pool' \subseteq pool
           /\ HoldingPipe \subseteq pool'
           /\ Cardinality(pool') \in Nat
           /\ Cardinality(pool') <= Cardinality(pool)
<1>1. pool' \subseteq pool
  BY DEF Reap
<1>2. HoldingPipe \subseteq pool'
  BY DEF Reap, PoolOwnsThreads, HoldingPipe, Completed
<1>3. QED
  BY <1>1, <1>2, SmallerPool

\* Variables keep their shape.
LEMMA TypeStep ==
    ASSUME TypeOK, [Next]_vars
    PROVE  TypeOK'
<1> USE DEF TypeOK, ListenerSteps, Goto, ClosePipe, Reap
<1>1. ASSUME LoopTop PROVE TypeOK'
  BY <1>1 DEF LoopTop
<1>2. ASSUME ReapWorkers PROVE TypeOK'
  BY <1>2 DEF ReapWorkers
<1>3. ASSUME SlotFree PROVE TypeOK'
  BY <1>3 DEF SlotFree
<1>4. ASSUME AwaitSlot PROVE TypeOK'
  BY <1>4 DEF AwaitSlot
<1>5. ASSUME CreatePipe PROVE TypeOK'
  BY <1>5 DEF CreatePipe
<1>6. ASSUME Dispatch PROVE TypeOK'
  BY <1>6 DEF Dispatch
<1>7. ASSUME AbandonPipe PROVE TypeOK'
  BY <1>7 DEF AbandonPipe
<1>8. ASSUME CancelIdle PROVE TypeOK'
  BY <1>8 DEF CancelIdle
<1>9. ASSUME JoinWorkers PROVE TypeOK'
  BY <1>9 DEF JoinWorkers
<1>10. ASSUME ReportStopped PROVE TypeOK'
  BY <1>10 DEF ReportStopped
<1>11. ASSUME SlotTimeout PROVE TypeOK'
  BY <1>11 DEF SlotTimeout
<1>12. ASSUME DispatchFails PROVE TypeOK'
  BY <1>12 DEF DispatchFails
<1>13. ASSUME IdleTimeout PROVE TypeOK'
  BY <1>13 DEF IdleTimeout
<1>14. ASSUME ServiceMain PROVE TypeOK'
  BY <1>14 DEF ServiceMain
<1>15. ASSUME ServiceControlHandler PROVE TypeOK'
  BY <1>15 DEF ServiceControlHandler
<1>16. ASSUME NEW w \in Workers, WorkerCompletes(w) PROVE TypeOK'
  BY <1>16 DEF WorkerCompletes
<1>17. ASSUME NEW w \in Workers, WorkerExits(w) PROVE TypeOK'
  BY <1>17 DEF WorkerExits
<1>18. ASSUME NEW c \in Clients, Arrive(c) PROVE TypeOK'
  BY <1>18 DEF Arrive
<1>19. ASSUME NEW c \in Clients, Connect(c) PROVE TypeOK'
  BY <1>19 DEF Connect
<1>20. ASSUME NEW c \in Clients, AskForStart(c) PROVE TypeOK'
  BY <1>20 DEF AskForStart
<1>21. ASSUME NEW c \in Clients, StartRefused(c) PROVE TypeOK'
  BY <1>21 DEF StartRefused
<1>22. ASSUME NEW c \in Clients, GiveUpBusy(c) PROVE TypeOK'
  BY <1>22 DEF GiveUpBusy
<1>23. ASSUME NEW c \in Clients, GiveUpNotFound(c) PROVE TypeOK'
  BY <1>23 DEF GiveUpNotFound
<1>24. ASSUME NEW c \in Clients, Leave(c) PROVE TypeOK'
  BY <1>24 DEF Leave
<1>25. CASE UNCHANGED vars
  BY <1>25 DEF vars
<1>26. QED
  BY <1>1, <1>2, <1>3, <1>4, <1>5, <1>6, <1>7, <1>8, <1>9, <1>10, <1>11, <1>12, <1>13, <1>14,
     <1>15, <1>16, <1>17, <1>18, <1>19, <1>20, <1>21, <1>22, <1>23, <1>24, <1>25
     DEF Next, ListenerStep, ClientStep

\* The instance on offer, the service's state and the stop event fit the step.
LEMMA PipeStep ==
    ASSUME TypeOK, PipeFollowsStep, [Next]_vars
    PROVE  PipeFollowsStep'
<1> USE DEF TypeOK, ListenerSteps, PipeFollowsStep, Goto, ClosePipe
<1>1. ASSUME LoopTop PROVE PipeFollowsStep'
  BY <1>1 DEF LoopTop
<1>2. ASSUME ReapWorkers PROVE PipeFollowsStep'
  BY <1>2 DEF ReapWorkers
<1>3. ASSUME SlotFree PROVE PipeFollowsStep'
  BY <1>3 DEF SlotFree
<1>4. ASSUME AwaitSlot PROVE PipeFollowsStep'
  BY <1>4 DEF AwaitSlot
<1>5. ASSUME CreatePipe PROVE PipeFollowsStep'
  BY <1>5 DEF CreatePipe
<1>6. ASSUME Dispatch PROVE PipeFollowsStep'
  BY <1>6 DEF Dispatch
<1>7. ASSUME AbandonPipe PROVE PipeFollowsStep'
  BY <1>7 DEF AbandonPipe
<1>8. ASSUME CancelIdle PROVE PipeFollowsStep'
  BY <1>8 DEF CancelIdle
<1>9. ASSUME JoinWorkers PROVE PipeFollowsStep'
  BY <1>9 DEF JoinWorkers
<1>10. ASSUME ReportStopped PROVE PipeFollowsStep'
  BY <1>10 DEF ReportStopped
<1>11. ASSUME SlotTimeout PROVE PipeFollowsStep'
  BY <1>11 DEF SlotTimeout
<1>12. ASSUME DispatchFails PROVE PipeFollowsStep'
  BY <1>12 DEF DispatchFails
<1>13. ASSUME IdleTimeout PROVE PipeFollowsStep'
  BY <1>13 DEF IdleTimeout
<1>14. ASSUME ServiceMain PROVE PipeFollowsStep'
  BY <1>14 DEF ServiceMain
<1>15. ASSUME ServiceControlHandler PROVE PipeFollowsStep'
  BY <1>15 DEF ServiceControlHandler
<1>16. ASSUME NEW w \in Workers, WorkerCompletes(w) PROVE PipeFollowsStep'
  BY <1>16 DEF WorkerCompletes
<1>17. ASSUME NEW w \in Workers, WorkerExits(w) PROVE PipeFollowsStep'
  BY <1>17 DEF WorkerExits
<1>18. ASSUME NEW c \in Clients, Arrive(c) PROVE PipeFollowsStep'
  BY <1>18 DEF Arrive
<1>19. ASSUME NEW c \in Clients, Connect(c) PROVE PipeFollowsStep'
  BY <1>19 DEF Connect
<1>20. ASSUME NEW c \in Clients, AskForStart(c) PROVE PipeFollowsStep'
  BY <1>20 DEF AskForStart
<1>21. ASSUME NEW c \in Clients, StartRefused(c) PROVE PipeFollowsStep'
  BY <1>21 DEF StartRefused
<1>22. ASSUME NEW c \in Clients, GiveUpBusy(c) PROVE PipeFollowsStep'
  BY <1>22 DEF GiveUpBusy
<1>23. ASSUME NEW c \in Clients, GiveUpNotFound(c) PROVE PipeFollowsStep'
  BY <1>23 DEF GiveUpNotFound
<1>24. ASSUME NEW c \in Clients, Leave(c) PROVE PipeFollowsStep'
  BY <1>24 DEF Leave
<1>25. CASE UNCHANGED vars
  BY <1>25 DEF vars
<1>26. QED
  BY <1>1, <1>2, <1>3, <1>4, <1>5, <1>6, <1>7, <1>8, <1>9, <1>10, <1>11, <1>12, <1>13, <1>14,
     <1>15, <1>16, <1>17, <1>18, <1>19, <1>20, <1>21, <1>22, <1>23, <1>24, <1>25
     DEF Next, ListenerStep, ClientStep

\* Every thread that is not over stays in the pool, which never grows too large.
LEMMA PoolStep ==
    ASSUME TypeOK, PoolOwnsThreads, PipeFollowsStep, EachClientHasOneServer, [Next]_vars
    PROVE  PoolOwnsThreads'
<1> USE ListenerConstants DEF TypeOK, ListenerSteps, PoolOwnsThreads, HoldingPipe, Goto, ClosePipe
<1>1. ASSUME LoopTop PROVE PoolOwnsThreads'
  BY <1>1 DEF LoopTop
<1>2. ASSUME ReapWorkers PROVE PoolOwnsThreads'
  <2>1. pool' \subseteq pool /\ HoldingPipe \subseteq pool' /\ Cardinality(pool') <= MaxWorkers
    BY <1>2, ReapShrinks, PoolIsFinite DEF ReapWorkers
  <2>2. listener' = "slot"
    BY <1>2 DEF ReapWorkers
  <2>3. UNCHANGED <<worker, serves>>
    BY <1>2 DEF ReapWorkers
  <2>4. QED
    BY <2>1, <2>2, <2>3
<1>3. ASSUME SlotFree PROVE PoolOwnsThreads'
  BY <1>3, PoolIsFinite DEF SlotFree
<1>4. ASSUME AwaitSlot PROVE PoolOwnsThreads'
  BY <1>4 DEF AwaitSlot
<1>5. ASSUME CreatePipe PROVE PoolOwnsThreads'
  BY <1>5 DEF CreatePipe
<1>6. ASSUME Dispatch PROVE PoolOwnsThreads'
  <2>1. PICK w \in Workers : /\ w \notin pool
                             /\ worker' = [worker EXCEPT ![w] = "serving"]
                             /\ serves' = [serves EXCEPT ![w] = guest]
                             /\ pool' = pool \cup {w}
    BY <1>6 DEF Dispatch
  <2>2. Cardinality(pool) < MaxWorkers /\ listener' = "loop"
    BY <1>6 DEF Dispatch
  <2>3. Cardinality(pool') = Cardinality(pool) + 1
    BY <2>1, PoolIsFinite, FS_AddElement
  <2>4. Cardinality(pool') <= MaxWorkers
    BY <2>2, <2>3, PoolIsFinite
  <2>5. HoldingPipe' \subseteq pool'
    BY <2>1
  <2>6. QED
    BY <2>1, <2>2, <2>4, <2>5
<1>7. ASSUME AbandonPipe PROVE PoolOwnsThreads'
  BY <1>7 DEF AbandonPipe
<1>8. ASSUME CancelIdle PROVE PoolOwnsThreads'
  <2>1. pool' \subseteq pool /\ HoldingPipe \subseteq pool' /\ Cardinality(pool') <= MaxWorkers
    BY <1>8, ReapShrinks, PoolIsFinite DEF CancelIdle
  <2>2. listener' = "loop" \/ (listener' = "report" /\ pool' = {})
    BY <1>8 DEF CancelIdle
  <2>3. UNCHANGED <<worker, serves>>
    BY <1>8 DEF CancelIdle
  <2>4. QED
    BY <2>1, <2>2, <2>3
<1>9. ASSUME JoinWorkers PROVE PoolOwnsThreads'
  BY <1>9, FS_EmptySet DEF JoinWorkers
<1>10. ASSUME ReportStopped PROVE PoolOwnsThreads'
  BY <1>10 DEF ReportStopped
<1>11. ASSUME SlotTimeout PROVE PoolOwnsThreads'
  BY <1>11 DEF SlotTimeout
<1>12. ASSUME DispatchFails PROVE PoolOwnsThreads'
  BY <1>12 DEF DispatchFails
<1>13. ASSUME IdleTimeout PROVE PoolOwnsThreads'
  BY <1>13 DEF IdleTimeout
<1>14. ASSUME ServiceMain PROVE PoolOwnsThreads'
  BY <1>14 DEF ServiceMain
<1>15. ASSUME ServiceControlHandler PROVE PoolOwnsThreads'
  BY <1>15 DEF ServiceControlHandler
<1>16. ASSUME NEW w \in Workers, WorkerCompletes(w) PROVE PoolOwnsThreads'
  BY <1>16 DEF WorkerCompletes
<1>17. ASSUME NEW w \in Workers, WorkerExits(w) PROVE PoolOwnsThreads'
  BY <1>17 DEF WorkerExits
<1>18. ASSUME NEW c \in Clients, Arrive(c) PROVE PoolOwnsThreads'
  BY <1>18 DEF Arrive
<1>19. ASSUME NEW c \in Clients, Connect(c) PROVE PoolOwnsThreads'
  BY <1>19 DEF Connect
<1>20. ASSUME NEW c \in Clients, AskForStart(c) PROVE PoolOwnsThreads'
  BY <1>20 DEF AskForStart
<1>21. ASSUME NEW c \in Clients, StartRefused(c) PROVE PoolOwnsThreads'
  BY <1>21 DEF StartRefused
<1>22. ASSUME NEW c \in Clients, GiveUpBusy(c) PROVE PoolOwnsThreads'
  BY <1>22 DEF GiveUpBusy
<1>23. ASSUME NEW c \in Clients, GiveUpNotFound(c) PROVE PoolOwnsThreads'
  BY <1>23 DEF GiveUpNotFound
<1>24. ASSUME NEW c \in Clients, Leave(c) PROVE PoolOwnsThreads'
  BY <1>24 DEF Leave
<1>25. CASE UNCHANGED vars
  BY <1>25 DEF vars
<1>26. QED
  BY <1>1, <1>2, <1>3, <1>4, <1>5, <1>6, <1>7, <1>8, <1>9, <1>10, <1>11, <1>12, <1>13, <1>14,
     <1>15, <1>16, <1>17, <1>18, <1>19, <1>20, <1>21, <1>22, <1>23, <1>24, <1>25
     DEF Next, ListenerStep, ClientStep

\* Every connected client has exactly one server.
LEMMA ServerStep ==
    ASSUME TypeOK, PoolOwnsThreads, PipeFollowsStep, EachClientHasOneServer, [Next]_vars
    PROVE  EachClientHasOneServer'
<1> USE ListenerConstants DEF TypeOK, PoolOwnsThreads, PipeFollowsStep,
     EachClientHasOneServer, Goto, ClosePipe
<1>1. ASSUME LoopTop PROVE EachClientHasOneServer'
  BY <1>1 DEF LoopTop
<1>2. ASSUME ReapWorkers PROVE EachClientHasOneServer'
  BY <1>2 DEF ReapWorkers
<1>3. ASSUME SlotFree PROVE EachClientHasOneServer'
  BY <1>3 DEF SlotFree
<1>4. ASSUME AwaitSlot PROVE EachClientHasOneServer'
  BY <1>4 DEF AwaitSlot
<1>5. ASSUME CreatePipe PROVE EachClientHasOneServer'
  BY <1>5 DEF CreatePipe
<1>6. ASSUME Dispatch PROVE EachClientHasOneServer'
  BY <1>6 DEF Dispatch
<1>7. ASSUME AbandonPipe PROVE EachClientHasOneServer'
  BY <1>7 DEF AbandonPipe
<1>8. ASSUME CancelIdle PROVE EachClientHasOneServer'
  BY <1>8 DEF CancelIdle
<1>9. ASSUME JoinWorkers PROVE EachClientHasOneServer'
  BY <1>9 DEF JoinWorkers
<1>10. ASSUME ReportStopped PROVE EachClientHasOneServer'
  BY <1>10 DEF ReportStopped
<1>11. ASSUME SlotTimeout PROVE EachClientHasOneServer'
  BY <1>11 DEF SlotTimeout
<1>12. ASSUME DispatchFails PROVE EachClientHasOneServer'
  BY <1>12 DEF DispatchFails
<1>13. ASSUME IdleTimeout PROVE EachClientHasOneServer'
  BY <1>13 DEF IdleTimeout
<1>14. ASSUME ServiceMain PROVE EachClientHasOneServer'
  BY <1>14 DEF ServiceMain
<1>15. ASSUME ServiceControlHandler PROVE EachClientHasOneServer'
  BY <1>15 DEF ServiceControlHandler
<1>16. ASSUME NEW w \in Workers, WorkerCompletes(w) PROVE EachClientHasOneServer'
  BY <1>16 DEF WorkerCompletes
<1>17. ASSUME NEW w \in Workers, WorkerExits(w) PROVE EachClientHasOneServer'
  BY <1>17 DEF WorkerExits
<1>18. ASSUME NEW c \in Clients, Arrive(c) PROVE EachClientHasOneServer'
  BY <1>18 DEF Arrive
<1>19. ASSUME NEW c \in Clients, Connect(c) PROVE EachClientHasOneServer'
  BY <1>19 DEF Connect
<1>20. ASSUME NEW c \in Clients, AskForStart(c) PROVE EachClientHasOneServer'
  BY <1>20 DEF AskForStart
<1>21. ASSUME NEW c \in Clients, StartRefused(c) PROVE EachClientHasOneServer'
  BY <1>21 DEF StartRefused
<1>22. ASSUME NEW c \in Clients, GiveUpBusy(c) PROVE EachClientHasOneServer'
  BY <1>22 DEF GiveUpBusy
<1>23. ASSUME NEW c \in Clients, GiveUpNotFound(c) PROVE EachClientHasOneServer'
  BY <1>23 DEF GiveUpNotFound
<1>24. ASSUME NEW c \in Clients, Leave(c) PROVE EachClientHasOneServer'
  BY <1>24 DEF Leave
<1>25. CASE UNCHANGED vars
  BY <1>25 DEF vars
<1>26. QED
  BY <1>1, <1>2, <1>3, <1>4, <1>5, <1>6, <1>7, <1>8, <1>9, <1>10, <1>11, <1>12, <1>13, <1>14,
     <1>15, <1>16, <1>17, <1>18, <1>19, <1>20, <1>21, <1>22, <1>23, <1>24, <1>25
     DEF Next, ListenerStep, ClientStep

\* ListenerInvariant is inductive and holds in every state.
THEOREM InvariantHolds == Spec => []ListenerInvariant
<1>1. Init => ListenerInvariant
  <2> SUFFICES ASSUME Init PROVE ListenerInvariant
    OBVIOUS
  <2>1. TypeOK
    BY DEF Init, TypeOK, ListenerSteps
  <2>2. PoolOwnsThreads
    BY ListenerConstants, FS_EmptySet DEF Init, PoolOwnsThreads, HoldingPipe
  <2>3. PipeFollowsStep
    BY DEF Init, PipeFollowsStep
  <2>4. EachClientHasOneServer
    BY ListenerConstants DEF Init, EachClientHasOneServer
  <2>5. QED
    BY <2>1, <2>2, <2>3, <2>4 DEF ListenerInvariant
<1>2. ListenerInvariant /\ [Next]_vars => ListenerInvariant'
  BY TypeStep, PipeStep, PoolStep, ServerStep DEF ListenerInvariant
<1>3. QED
  BY <1>1, <1>2, PTL DEF Spec

\* Windows always has an instance of the pipe left when the listener creates one.
THEOREM RoomIsLeft == Spec => []PoolLeavesRoom
<1>1. ListenerInvariant => PoolLeavesRoom
  <2> SUFFICES ASSUME ListenerInvariant, listener = "create"
               PROVE  Cardinality(HoldingPipe) < MaxWorkers
    BY DEF PoolLeavesRoom
  <2>1. HoldingPipe \subseteq pool /\ Cardinality(pool) < MaxWorkers
    BY DEF ListenerInvariant, PoolOwnsThreads
  <2>2. Cardinality(HoldingPipe) \in Nat /\ Cardinality(HoldingPipe) <= Cardinality(pool)
    BY <2>1, SmallerPool DEF ListenerInvariant
  <2>3. QED
    BY <2>1, <2>2, PoolIsFinite, ListenerConstants DEF ListenerInvariant
<1>2. QED
  BY <1>1, InvariantHolds, PTL

\* No thread is left when the service has stopped.
THEOREM WorkersEndFirst == Spec => []NoWorkerOutlivesService
<1>1. ListenerInvariant => NoWorkerOutlivesService
  BY DEF ListenerInvariant, PoolOwnsThreads, NoWorkerOutlivesService
<1>2. QED
  BY <1>1, InvariantHolds, PTL

\* No client is stranded and none has two servers.
THEOREM ClientsHaveOneServer == Spec => []EachClientHasOneServer
<1>1. ListenerInvariant => EachClientHasOneServer
  BY DEF ListenerInvariant
<1>2. QED
  BY <1>1, InvariantHolds, PTL

\* The instance's own name for the cardinality of a set.
LEMMA SameCardinality == \A S : Lifecycle!Cardinality(S) = Cardinality(S)
BY DEF Lifecycle!Cardinality, Cardinality

\* A step of the service is one of the lifecycle or changes nothing there.
LifecycleStep == [Lifecycle!LifecycleNext]_(Lifecycle!lifecycleVars)

LEMMA RefinementStep ==
    ASSUME ListenerInvariant, [Next]_vars
    PROVE  LifecycleStep
<1> USE DEF LifecycleStep, Lifecycle!LifecycleNext, Lifecycle!lifecycleVars,
     ListenerInvariant, TypeOK, PoolOwnsThreads, PipeFollowsStep, HoldingPipe,
     Phase, MayDispatch, Busy, Goto, ClosePipe, Lifecycle!End, Lifecycle!Close,
     Lifecycle!Exit, Lifecycle!Start
<1>1. ASSUME LoopTop PROVE LifecycleStep
  BY <1>1 DEF LoopTop
<1>2. ASSUME ReapWorkers PROVE LifecycleStep
  BY <1>2 DEF ReapWorkers
<1>3. ASSUME SlotFree PROVE LifecycleStep
  BY <1>3 DEF SlotFree
<1>4. ASSUME AwaitSlot PROVE LifecycleStep
  BY <1>4 DEF AwaitSlot
<1>5. ASSUME CreatePipe PROVE LifecycleStep
  BY <1>5 DEF CreatePipe
<1>6. ASSUME Dispatch PROVE LifecycleStep
  <2>1. PICK w \in Workers : /\ w \notin pool
                             /\ worker' = [worker EXCEPT ![w] = "serving"]
    BY <1>6 DEF Dispatch
  <2>2. w \notin Busy /\ Busy' = Busy \cup {w}
    BY <2>1
  <2>3. Cardinality(Busy) < MaxWorkers
    <3>1. Busy \in SUBSET pool /\ Cardinality(pool) < MaxWorkers
      BY <1>6 DEF Dispatch
    <3>2. QED
      BY <3>1, SmallerPool, PoolIsFinite, ListenerConstants
  <2>4. /\ Phase \in {"up", "ending"}
        /\ Phase' = IF Phase = "ending" THEN "closed" ELSE Phase
    BY <1>6 DEF Dispatch
  <2> HIDE DEF Phase, Busy
  <2>5. Lifecycle!BeginRequest(w)
    BY <2>2, <2>3, <2>4, SameCardinality DEF Lifecycle!BeginRequest
  <2>6. QED
    BY <2>5
<1>7. ASSUME AbandonPipe PROVE LifecycleStep
  BY <1>7 DEF AbandonPipe
<1>8. ASSUME CancelIdle PROVE LifecycleStep
  BY <1>8 DEF CancelIdle
<1>9. ASSUME JoinWorkers PROVE LifecycleStep
  BY <1>9 DEF JoinWorkers
<1>10. ASSUME ReportStopped PROVE LifecycleStep
  BY <1>10 DEF ReportStopped
<1>11. ASSUME SlotTimeout PROVE LifecycleStep
  BY <1>11 DEF SlotTimeout
<1>12. ASSUME DispatchFails PROVE LifecycleStep
  BY <1>12 DEF DispatchFails
<1>13. ASSUME IdleTimeout PROVE LifecycleStep
  BY <1>13 DEF IdleTimeout
<1>14. ASSUME ServiceMain PROVE LifecycleStep
  BY <1>14 DEF ServiceMain
<1>15. ASSUME ServiceControlHandler PROVE LifecycleStep
  BY <1>15 DEF ServiceControlHandler
<1>16. ASSUME NEW w \in Workers, WorkerCompletes(w) PROVE LifecycleStep
  BY <1>16 DEF WorkerCompletes, Lifecycle!FinishRequest
<1>17. ASSUME NEW w \in Workers, WorkerExits(w) PROVE LifecycleStep
  BY <1>17 DEF WorkerExits
<1>18. ASSUME NEW c \in Clients, Arrive(c) PROVE LifecycleStep
  BY <1>18 DEF Arrive
<1>19. ASSUME NEW c \in Clients, Connect(c) PROVE LifecycleStep
  BY <1>19 DEF Connect
<1>20. ASSUME NEW c \in Clients, AskForStart(c) PROVE LifecycleStep
  BY <1>20 DEF AskForStart
<1>21. ASSUME NEW c \in Clients, StartRefused(c) PROVE LifecycleStep
  BY <1>21 DEF StartRefused
<1>22. ASSUME NEW c \in Clients, GiveUpBusy(c) PROVE LifecycleStep
  BY <1>22 DEF GiveUpBusy
<1>23. ASSUME NEW c \in Clients, GiveUpNotFound(c) PROVE LifecycleStep
  BY <1>23 DEF GiveUpNotFound
<1>24. ASSUME NEW c \in Clients, Leave(c) PROVE LifecycleStep
  BY <1>24 DEF Leave
<1>25. CASE UNCHANGED vars
  BY <1>25 DEF vars
<1>26. QED
  BY <1>1, <1>2, <1>3, <1>4, <1>5, <1>6, <1>7, <1>8, <1>9, <1>10, <1>11, <1>12, <1>13, <1>14,
     <1>15, <1>16, <1>17, <1>18, <1>19, <1>20, <1>21, <1>22, <1>23, <1>24, <1>25
     DEF Next, ListenerStep, ClientStep

\* The listener implements BrokerLifecycle: requests are taken on while the service runs, one
\* at most once the stop event is set, never too many, and it is gone only when none is left.
THEOREM ListenerImplementsLifecycle == Spec => ImplementsLifecycle
<1>1. Init => Lifecycle!LifecycleInit
  BY DEF Init, Lifecycle!LifecycleInit, Phase, Busy
<1>2. ListenerInvariant /\ [Next]_vars => [Lifecycle!LifecycleNext]_(Lifecycle!lifecycleVars)
  BY RefinementStep DEF LifecycleStep
<1>3. QED
  BY <1>1, <1>2, InvariantHolds, PTL DEF Spec, ImplementsLifecycle, Lifecycle!LifecycleSpec

-----------------------------------------------------------------------------
\* A pool that is not full leaves an identity for one more thread.
LEMMA SpareThread ==
    ASSUME ListenerInvariant, Cardinality(pool) < MaxWorkers
    PROVE  \E w \in Workers \ pool : worker[w] \in {"none", "exited"}
<1>1. /\ TypeOK /\ HoldingPipe \subseteq pool
      /\ IsFiniteSet(Workers) /\ MaxWorkers \in Nat
  BY ListenerConstants DEF ListenerInvariant, PoolOwnsThreads
<1>2. Cardinality(Workers) \in Nat /\ Cardinality(pool) \in Nat
  BY <1>1, FS_CardinalityType, PoolIsFinite
<1>3. pool # Workers
  BY <1>1, <1>2, ThreadsSuffice
<1>4. PICK w \in Workers : w \notin pool
  BY <1>1, <1>3 DEF TypeOK
<1> QED
  BY <1>1, <1>4 DEF TypeOK, HoldingPipe

\* A thread of the vector that is not over is serving or about to end.
LEMMA PoolThreads ==
    ASSUME ListenerInvariant
    PROVE  \A w \in pool : worker[w] \in {"serving", "completed", "exited"}
BY DEF ListenerInvariant, TypeOK, PoolOwnsThreads

\* The listener waits for a thread that ends, for a client, or for one of a busy pool
\* (RunBrokerControlPipeListener, ReapCompletedWorkers).
THEOREM ListenerGoesOn == Spec => []ListenerIsNeverStuck
<1>1. ListenerInvariant => ListenerIsNeverStuck
  <2> SUFFICES ASSUME ListenerInvariant PROVE ListenerIsNeverStuck
    OBVIOUS
  <2> USE DEF ListenerIsNeverStuck, ListenerCanMove
  <2>1. /\ TypeOK /\ PoolOwnsThreads /\ PipeFollowsStep
        /\ \A w \in pool : worker[w] \in {"none", "serving", "completed", "exited"}
        /\ \A w \in Completed : w \in pool /\ worker[w] # "serving"
    BY DEF ListenerInvariant, TypeOK, Completed
  <2>2. CASE listener \in {"reap", "idle"}
    BY <2>1, <2>2, PoolThreads
  <2>3. CASE listener = "slot"
    BY <2>1, <2>3 DEF Completed
  <2>4. CASE listener = "listen"
    <3>1. pipe \in {"free", "taken"} /\ Cardinality(pool) < MaxWorkers
      BY <2>1, <2>4 DEF TypeOK, PipeFollowsStep, PoolOwnsThreads
    <3> QED
      BY <2>4, <3>1, SpareThread
  <2>5. CASE listener = "join"
    BY <2>1, <2>5, PoolThreads DEF PipeFollowsStep
  <2>6. CASE listener \in {"down", "loop", "create", "report"}
    BY <2>6
  <2> QED
    BY <2>1, <2>2, <2>3, <2>4, <2>5, <2>6 DEF TypeOK, ListenerSteps
<1>2. QED
  BY <1>1, InvariantHolds, PTL

\* The threads that hold a pipe, and those that still serve, can be counted.
LEMMA ThreadsCount ==
    ASSUME NEW S \in SUBSET Workers
    PROVE  /\ IsFiniteSet(S) /\ Cardinality(S) \in Nat
           /\ \A w \in Workers \ S : Cardinality(S \cup {w}) = Cardinality(S) + 1
           /\ \A w \in S : Cardinality(S \ {w}) = Cardinality(S) - 1
BY ListenerConstants, FS_Subset, FS_CardinalityType, FS_AddElement, FS_RemoveElement

\* What the stop has left, where no thread changes, changes with the listener's place only.
LEMMA ThreadsStay ==
    ASSUME TypeOK, TypeOK', UNCHANGED worker
    PROVE  \E n \in Nat : /\ StopLeft = ListenerLeft[listener] + n
                          /\ StopLeft' = ListenerLeft[listener]' + n
<1>1. HoldingPipe \in SUBSET Workers /\ Busy \in SUBSET Workers
  BY DEF HoldingPipe, Busy
<1>2. HoldingPipe' = HoldingPipe /\ Busy' = Busy
  BY DEF HoldingPipe, Busy
<1>3. Cardinality(HoldingPipe) \in Nat /\ Cardinality(Busy) \in Nat
  BY <1>1, ThreadsCount
<1>4. ListenerLeft[listener] \in Nat /\ ListenerLeft[listener]' \in Nat
  BY DEF TypeOK, ListenerSteps, ListenerLeft
<1>5. /\ StopLeft = ListenerLeft[listener] + (Cardinality(HoldingPipe) + Cardinality(Busy))
      /\ StopLeft' = ListenerLeft[listener]' + (Cardinality(HoldingPipe) + Cardinality(Busy))
  BY <1>2, <1>3, <1>4 DEF StopLeft
<1> QED
  BY <1>3, <1>5

\* The listener on its way down.
LEMMA ListenerShortens ==
    ASSUME ListenerInvariant, TypeOK', stopEvent, ListenerStep
    PROVE  StopLeft' < StopLeft
<1>1. TypeOK /\ PipeFollowsStep /\ PoolOwnsThreads
  BY DEF ListenerInvariant
<1>2. CASE Dispatch
  <2>1. PICK w \in Workers :
          /\ listener = "listen" /\ listener' = "loop"
          /\ worker[w] \in {"none", "exited"}
          /\ worker' = [worker EXCEPT ![w] = "serving"]
    BY <1>2 DEF Dispatch, Goto
  <2>2. /\ HoldingPipe' = HoldingPipe \cup {w} /\ w \notin HoldingPipe
        /\ Busy' = Busy \cup {w} /\ w \notin Busy
    BY <1>1, <2>1 DEF TypeOK, HoldingPipe, Busy
  <2>3. HoldingPipe \in SUBSET Workers /\ Busy \in SUBSET Workers
    BY DEF HoldingPipe, Busy
  <2>4. /\ Cardinality(HoldingPipe) \in Nat /\ Cardinality(Busy) \in Nat
        /\ Cardinality(HoldingPipe') = Cardinality(HoldingPipe) + 1
        /\ Cardinality(Busy') = Cardinality(Busy) + 1
    BY <2>2, <2>3, ThreadsCount
  <2> QED
    BY <2>1, <2>4 DEF StopLeft, ListenerLeft
<1>3. CASE ~Dispatch
  <2>1. UNCHANGED worker
    BY <1>3
       DEF ListenerStep, LoopTop, ReapWorkers, SlotFree, AwaitSlot, CreatePipe, AbandonPipe,
           CancelIdle, JoinWorkers, ReportStopped
  <2>2. ListenerLeft[listener]' < ListenerLeft[listener]
    <3>1. CASE LoopTop
      BY <3>1 DEF LoopTop, Goto, ListenerLeft
    <3>2. CASE ReapWorkers
      BY <3>2 DEF ReapWorkers, Goto, ListenerLeft
    <3>3. CASE SlotFree
      BY <3>3 DEF SlotFree, Goto, ListenerLeft
    <3>4. CASE AwaitSlot
      BY <3>4 DEF AwaitSlot, Goto, ListenerLeft
    <3>5. CASE CreatePipe
      <4>1. listener = "create" /\ listener' \in {"listen", "join"}
        BY <3>5 DEF CreatePipe, Goto
      <4> QED
        BY <4>1 DEF ListenerLeft
    <3>6. CASE AbandonPipe
      BY <3>6 DEF AbandonPipe, Goto, ListenerLeft
    <3>7. CASE CancelIdle
      BY <3>7 DEF CancelIdle, Goto, ListenerLeft
    <3>8. CASE JoinWorkers
      BY <3>8 DEF JoinWorkers, Goto, ListenerLeft
    <3>9. CASE ReportStopped
      BY <3>9 DEF ReportStopped, Goto, ListenerLeft
    <3> QED
      BY <1>3, <3>1, <3>2, <3>3, <3>4, <3>5, <3>6, <3>7, <3>8, <3>9 DEF ListenerStep
  <2>3. ListenerLeft[listener] \in Nat /\ ListenerLeft[listener]' \in Nat
    BY <1>1 DEF TypeOK, ListenerSteps, ListenerLeft
  <2> QED
    BY <1>1, <2>1, <2>2, <2>3, ThreadsStay
<1> QED
  BY <1>2, <1>3

\* A thread on its way to its end.
LEMMA ThreadShortens ==
    ASSUME ListenerInvariant, NEW w \in Workers, WorkerCompletes(w) \/ WorkerExits(w)
    PROVE  StopLeft' < StopLeft
<1>1. TypeOK
  BY DEF ListenerInvariant
<1>2. /\ HoldingPipe \in SUBSET Workers /\ Busy \in SUBSET Workers
      /\ HoldingPipe' \in SUBSET Workers /\ Busy' \in SUBSET Workers
  BY DEF HoldingPipe, Busy
<1>3. listener' = listener /\ ListenerLeft[listener] \in Nat
  BY <1>1 DEF TypeOK, ListenerSteps, ListenerLeft, WorkerCompletes, WorkerExits
<1>4. CASE WorkerCompletes(w)
  <2>1. HoldingPipe' = HoldingPipe /\ Busy' = Busy \ {w} /\ w \in Busy
    BY <1>1, <1>4 DEF TypeOK, WorkerCompletes, HoldingPipe, Busy
  <2>2. /\ Cardinality(HoldingPipe) \in Nat /\ Cardinality(Busy) \in Nat
        /\ Cardinality(HoldingPipe') = Cardinality(HoldingPipe)
        /\ Cardinality(Busy') = Cardinality(Busy) - 1
    BY <1>2, <2>1, ThreadsCount
  <2> QED
    BY <1>3, <2>2 DEF StopLeft
<1>5. CASE WorkerExits(w)
  <2>1. HoldingPipe' = HoldingPipe \ {w} /\ Busy' = Busy /\ w \in HoldingPipe
    BY <1>1, <1>5 DEF TypeOK, WorkerExits, HoldingPipe, Busy
  <2>2. /\ Cardinality(HoldingPipe) \in Nat /\ Cardinality(Busy) \in Nat
        /\ Cardinality(HoldingPipe') = Cardinality(HoldingPipe) - 1
        /\ Cardinality(Busy') = Cardinality(Busy)
    BY <1>2, <2>1, ThreadsCount
  <2> QED
    BY <1>3, <2>2 DEF StopLeft
<1> QED
  BY <1>4, <1>5

\* Nobody else prolongs it.
LEMMA OthersDoNotProlong ==
    ASSUME ListenerInvariant, TypeOK', stopEvent,
           \/ SlotTimeout \/ DispatchFails \/ IdleTimeout \/ ServiceMain
           \/ ServiceControlHandler \/ (\E c \in Clients : ClientStep(c)) \/ UNCHANGED vars
    PROVE  StopLeft' <= StopLeft
<1>1. TypeOK /\ PipeFollowsStep
  BY DEF ListenerInvariant
<1>2. UNCHANGED worker
  BY
     DEF SlotTimeout, DispatchFails, IdleTimeout, ServiceMain, ServiceControlHandler, ClientStep,
         Arrive, Connect, AskForStart, StartRefused, GiveUpBusy, GiveUpNotFound, Leave, vars
<1>3. ListenerLeft[listener]' <= ListenerLeft[listener]
  <2>1. CASE SlotTimeout
    BY <2>1 DEF SlotTimeout, Goto, ListenerLeft
  <2>2. CASE DispatchFails
    BY <2>2 DEF DispatchFails, Goto, ListenerLeft
  <2>3. CASE IdleTimeout
    BY <2>3 DEF IdleTimeout
  <2>4. CASE ServiceMain
    BY <1>1, <2>4 DEF ServiceMain, PipeFollowsStep
  <2>5. CASE UNCHANGED listener
    BY <1>1, <2>5 DEF TypeOK, ListenerSteps, ListenerLeft
  <2>6. ServiceControlHandler \/ (\E c \in Clients : ClientStep(c)) \/ UNCHANGED vars
          => UNCHANGED listener
    BY
       DEF ServiceControlHandler, ClientStep, Arrive, Connect, AskForStart, StartRefused,
           GiveUpBusy, GiveUpNotFound, Leave, vars
  <2> QED
    BY <2>1, <2>2, <2>3, <2>4, <2>5, <2>6
<1>4. ListenerLeft[listener] \in Nat /\ ListenerLeft[listener]' \in Nat
  BY <1>1 DEF TypeOK, ListenerSteps, ListenerLeft
<1> QED
  BY <1>1, <1>2, <1>3, <1>4, ThreadsStay

\* From the stop event on the service comes nearer its end with each of its steps
\* (RunBrokerControlPipeListener, the worker threads, ServiceMain).
THEOREM StopEnds == Spec => StopRunsOut
<1>1. ListenerInvariant /\ ListenerInvariant' /\ [Next]_vars
        => [stopEvent =>
              /\ StopLeft' <= StopLeft
              /\ ListenerStep \/ (\E w \in Workers : WorkerCompletes(w) \/ WorkerExits(w))
                    => StopLeft' < StopLeft]_vars
  <2> SUFFICES ASSUME ListenerInvariant, ListenerInvariant', Next, stopEvent
               PROVE  /\ StopLeft' <= StopLeft
                      /\ ListenerStep \/ (\E w \in Workers : WorkerCompletes(w) \/ WorkerExits(w))
                            => StopLeft' < StopLeft
    OBVIOUS
  <2>1. TypeOK' /\ StopLeft \in Int /\ StopLeft' \in Int
    <3>1. TypeOK /\ TypeOK'
      BY DEF ListenerInvariant
    <3>2. /\ HoldingPipe \in SUBSET Workers /\ Busy \in SUBSET Workers
          /\ HoldingPipe' \in SUBSET Workers /\ Busy' \in SUBSET Workers
      BY DEF HoldingPipe, Busy
    <3>3. /\ Cardinality(HoldingPipe) \in Nat /\ Cardinality(Busy) \in Nat
          /\ Cardinality(HoldingPipe') \in Nat /\ Cardinality(Busy') \in Nat
      BY <3>2, ThreadsCount
    <3>4. ListenerLeft[listener] \in Nat /\ ListenerLeft[listener]' \in Nat
      BY <3>1 DEF TypeOK, ListenerSteps, ListenerLeft
    <3> QED
      BY <3>1, <3>3, <3>4 DEF StopLeft
  <2>2. ListenerStep \/ (\E w \in Workers : WorkerCompletes(w) \/ WorkerExits(w))
          => StopLeft' < StopLeft
    BY <2>1, ListenerShortens, ThreadShortens
  <2>3. StopLeft' <= StopLeft
    <3>1. CASE ListenerStep \/ (\E w \in Workers : WorkerCompletes(w) \/ WorkerExits(w))
      BY <2>1, <2>2, <3>1
    <3>2. CASE \/ SlotTimeout \/ DispatchFails \/ IdleTimeout \/ ServiceMain
               \/ ServiceControlHandler \/ (\E c \in Clients : ClientStep(c))
      BY <2>1, <3>2, OthersDoNotProlong
    <3> QED
      BY <3>1, <3>2 DEF Next
  <2> QED
    BY <2>2, <2>3
<1>2. QED
  BY <1>1, InvariantHolds, PTL DEF Spec, StopRunsOut
=============================================================================
