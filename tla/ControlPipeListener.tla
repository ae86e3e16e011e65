------------------------ MODULE ControlPipeListener ------------------------
(***************************************************************************)
(* The life of the broker service: RunBrokerControlPipeListener with its   *)
(* pool of worker threads, the states the service reports, and the clients *)
(* that open the control pipe and start the service when it is not there.  *)
(*                                                                         *)
(* Time is abstract: a timeout may strike whenever its wait is pending.    *)
(* Two bounds on time are kept: a service the manager agreed to start      *)
(* offers its pipe within the client's five seconds, and the listener's    *)
(* thirty seconds outlast the five a client polls after it asked.          *)
(***************************************************************************)
EXTENDS Integers, FiniteSets

CONSTANTS Clients,     \* processes that open the control pipe
          Workers,     \* identities for worker threads
          MaxWorkers,  \* MaximumConcurrentPipeWorkers (8 in the code)
          Faults,      \* what may go wrong: a subset of PossibleFaults
          Nobody       \* no client

\* A stop by the service manager, and a refusal by Windows to create the pipe or
\* its event, to create a thread, to start the service or to bring it up.
PossibleFaults == {"stop", "pipe", "thread", "start", "startup"}

ASSUME ListenerConstants ==
    /\ IsFiniteSet(Workers)
    /\ MaxWorkers \in Nat \ {0}
    /\ Faults \subseteq PossibleFaults
    /\ Nobody \notin Clients

\* Windows has an identity for every thread of the pool.
ASSUME ThreadsSuffice == Cardinality(Workers) >= MaxWorkers

VARIABLES
    service,    \* the state the manager knows: stopped, starting, running, stopPending
    stopEvent,  \* whether the service's stop event is set
    listener,   \* where RunBrokerControlPipeListener stands
    pipe,       \* the instance not yet handed to a worker: closed, free, taken
    guest,      \* the client at its other end
    pool,       \* the vector of workers
    worker,     \* each thread: none, serving, completed (event set), exited
    serves,     \* the client of each worker
    client      \* away, opening, asked (for a start), connected, notFound

vars == <<service, stopEvent, listener, pipe, guest, pool, worker, serves, client>>

ListenerSteps == {"down", "loop", "reap", "slot", "create", "listen", "idle", "join", "report"}

\* Threads that hold an instance of the pipe.
HoldingPipe == {w \in Workers : worker[w] \in {"serving", "completed"}}
Completed == {w \in pool : worker[w] # "serving"}
PipeExists == pipe # "closed" \/ HoldingPipe # {}

Init ==
    /\ service = "stopped"
    /\ stopEvent = FALSE
    /\ listener = "down"
    /\ pipe = "closed"
    /\ guest = Nobody
    /\ pool = {}
    /\ worker = [w \in Workers |-> "none"]
    /\ serves = [w \in Workers |-> Nobody]
    /\ client = [c \in Clients |-> "away"]

Goto(step) == listener' = step

\* The listener's instance is closed; a client at its other end is cut off.
ClosePipe ==
    /\ pipe' = "closed"
    /\ guest' = Nobody
    /\ client' = [c \in Clients |-> IF c = guest THEN "away" ELSE client[c]]

-----------------------------------------------------------------------------
(* RunBrokerControlPipeListener.                                           *)

\* ReapCompletedWorkers: joining waits until the thread has closed its pipe.
Reap ==
    /\ \A w \in Completed : worker[w] = "exited"
    /\ pool' = pool \ Completed

\* Mutant: the stop event is not looked at between two clients.
LoopTopUnstopped ==
    /\ listener = "loop"
    /\ Goto("reap")
    /\ UNCHANGED <<service, stopEvent, pipe, guest, pool, worker, serves, client>>

LoopTop ==
    /\ listener = "loop"
    /\ Goto(IF stopEvent THEN "join" ELSE "reap")
    /\ UNCHANGED <<service, stopEvent, pipe, guest, pool, worker, serves, client>>

\* The stop event is not looked at again before a pipe is on offer.
ReapWorkers ==
    /\ listener = "reap"
    /\ Reap
    /\ Goto("slot")
    /\ UNCHANGED <<service, stopEvent, pipe, guest, worker, serves, client>>

\* Mutant: the pool is full at one worker more than it has.
SlotFreeOneMore ==
    /\ listener = "slot"
    /\ Cardinality(pool) <= MaxWorkers
    /\ Goto("create")
    /\ UNCHANGED <<service, stopEvent, pipe, guest, pool, worker, serves, client>>

SlotFree ==
    /\ listener = "slot"
    /\ Cardinality(pool) < MaxWorkers
    /\ Goto("create")
    /\ UNCHANGED <<service, stopEvent, pipe, guest, pool, worker, serves, client>>

\* All workers are busy: wait for the stop event, which goes first, or for a worker.
AwaitSlot ==
    /\ listener = "slot"
    /\ Cardinality(pool) >= MaxWorkers
    /\ \/ /\ stopEvent
          /\ Goto("join")
       \/ /\ ~stopEvent
          /\ Completed # {}
          /\ Goto("reap")
    /\ UNCHANGED <<service, stopEvent, pipe, guest, pool, worker, serves, client>>

\* No worker completed for thirty seconds.
SlotTimeout ==
    /\ listener = "slot"
    /\ Cardinality(pool) >= MaxWorkers
    /\ Completed = {}
    /\ stopEvent' = TRUE
    /\ Goto("join")
    /\ UNCHANGED <<service, pipe, guest, pool, worker, serves, client>>

\* CreateNamedPipe allows MaxWorkers instances at a time.
CreatePipe ==
    /\ listener = "create"
    /\ \/ /\ Cardinality(HoldingPipe) < MaxWorkers
          /\ pipe' = "free"
          /\ Goto("listen")
          /\ UNCHANGED stopEvent
       \/ /\ Cardinality(HoldingPipe) >= MaxWorkers \/ "pipe" \in Faults
          /\ stopEvent' = TRUE
          /\ Goto("join")
          /\ UNCHANGED pipe
    /\ UNCHANGED <<service, guest, pool, worker, serves, client>>

\* A client connected: DispatchPipeWorker.  A stop that comes after the wait, or a
\* client that was there before it, does not keep the client from being served.
Dispatch ==
    /\ listener = "listen"
    /\ pipe = "taken"
    /\ \E w \in Workers :
          /\ w \notin pool
          /\ worker[w] \in {"none", "exited"}
          /\ worker' = [worker EXCEPT ![w] = "serving"]
          /\ serves' = [serves EXCEPT ![w] = guest]
          /\ pool' = pool \cup {w}
    /\ pipe' = "closed"
    /\ guest' = Nobody
    /\ Goto("loop")
    /\ UNCHANGED <<service, stopEvent, client>>

\* The thread or its event could not be created; the service ends.
DispatchFails ==
    /\ listener = "listen"
    /\ pipe = "taken"
    /\ "thread" \in Faults
    /\ ClosePipe
    /\ stopEvent' = TRUE
    /\ Goto("join")
    /\ UNCHANGED <<service, pool, worker, serves>>

\* The wait sees the stop event first, or the client had left before it was noticed.
AbandonPipe ==
    /\ listener = "listen"
    /\ stopEvent \/ (pipe = "taken" /\ guest = Nobody)
    /\ ClosePipe
    /\ Goto("loop")
    /\ UNCHANGED <<service, stopEvent, pool, worker, serves>>

\* Nobody connected for thirty seconds; somebody still may until CancelIoEx.
IdleTimeout ==
    /\ listener = "listen"
    /\ ~stopEvent
    /\ pipe = "free"
    /\ \A c \in Clients : client[c] # "asked"
    /\ Goto("idle")
    /\ UNCHANGED <<service, stopEvent, pipe, guest, pool, worker, serves, client>>

\* Mutant: idle whatever the workers do.
CancelIdleAlways ==
    /\ listener = "idle"
    /\ ClosePipe
    /\ Reap
    /\ Goto("report")
    /\ UNCHANGED <<service, stopEvent, worker, serves>>

\* Mutant: with workers left, the loop is over and they are joined.
CancelIdleJoins ==
    /\ listener = "idle"
    /\ ClosePipe
    /\ Reap
    /\ Goto(IF pool' = {} THEN "report" ELSE "join")
    /\ UNCHANGED <<service, stopEvent, worker, serves>>

\* The service ends itself only when no worker is left, without the stop event.
CancelIdle ==
    /\ listener = "idle"
    /\ ClosePipe
    /\ Reap
    /\ Goto(IF pool' = {} THEN "report" ELSE "loop")
    /\ UNCHANGED <<service, stopEvent, worker, serves>>

JoinWorkers ==
    /\ listener = "join"
    /\ \A w \in pool : worker[w] = "exited"
    /\ pool' = {}
    /\ Goto("report")
    /\ UNCHANGED <<service, stopEvent, pipe, guest, worker, serves, client>>

\* ReportServiceStatus(SERVICE_STOPPED), and the process and its event end.
ReportStopped ==
    /\ listener = "report"
    /\ service' = "stopped"
    /\ stopEvent' = FALSE
    /\ Goto("down")
    /\ UNCHANGED <<pipe, guest, pool, worker, serves, client>>

-----------------------------------------------------------------------------
(* The service manager and ServiceMain.                                    *)

\* ServiceMain up to SERVICE_RUNNING; any of its preparations may fail.
ServiceMain ==
    /\ service = "starting"
    /\ \/ /\ service' = "running"
          /\ Goto("loop")
       \/ /\ "startup" \in Faults
          /\ service' = "stopped"
          /\ UNCHANGED listener
    /\ UNCHANGED <<stopEvent, pipe, guest, pool, worker, serves, client>>

ServiceControlHandler ==
    /\ "stop" \in Faults
    /\ service = "running"
    /\ service' = "stopPending"
    /\ stopEvent' = TRUE
    /\ UNCHANGED <<listener, pipe, guest, pool, worker, serves, client>>

-----------------------------------------------------------------------------
(* The worker threads.                                                     *)

\* Mutant: the pipe is not disconnected.
WorkerCompletesConnected(w) ==
    /\ worker[w] = "serving"
    /\ worker' = [worker EXCEPT ![w] = "completed"]
    /\ serves' = [serves EXCEPT ![w] = Nobody]
    /\ UNCHANGED <<service, stopEvent, listener, pipe, guest, pool, client>>

\* ServeControlPipeRequest returns, the pipe is disconnected, the event is set.
WorkerCompletes(w) ==
    /\ worker[w] = "serving"
    /\ worker' = [worker EXCEPT ![w] = "completed"]
    /\ serves' = [serves EXCEPT ![w] = Nobody]
    /\ client' = [c \in Clients |-> IF c = serves[w] THEN "away" ELSE client[c]]
    /\ UNCHANGED <<service, stopEvent, listener, pipe, guest, pool>>

\* The thread function's closure, which owns the pipe, is destroyed.
WorkerExits(w) ==
    /\ worker[w] = "completed"
    /\ worker' = [worker EXCEPT ![w] = "exited"]
    /\ UNCHANGED <<service, stopEvent, listener, pipe, guest, pool, serves, client>>

-----------------------------------------------------------------------------
(* OpenBrokerControlPipe, and the client's use of the connection.          *)

Arrive(c) ==
    /\ client[c] \in {"away", "notFound"}
    /\ client' = [client EXCEPT ![c] = "opening"]
    /\ UNCHANGED <<service, stopEvent, listener, pipe, guest, pool, worker, serves>>

Connect(c) ==
    /\ client[c] \in {"opening", "asked"}
    /\ pipe = "free"
    /\ pipe' = "taken"
    /\ guest' = c
    /\ client' = [client EXCEPT ![c] = "connected"]
    /\ UNCHANGED <<service, stopEvent, listener, pool, worker, serves>>

\* StartBrokerService, asked for once; a service already running counts as started.
AskForStart(c) ==
    /\ client[c] = "opening"
    /\ ~PipeExists
    /\ client' = [client EXCEPT ![c] = "asked"]
    /\ service' = IF service = "stopped" THEN "starting" ELSE service
    /\ UNCHANGED <<stopEvent, listener, pipe, guest, pool, worker, serves>>

StartRefused(c) ==
    /\ client[c] = "opening"
    /\ ~PipeExists
    /\ "start" \in Faults
    /\ client' = [client EXCEPT ![c] = "away"]
    /\ UNCHANGED <<service, stopEvent, listener, pipe, guest, pool, worker, serves>>

\* ERROR_PIPE_BUSY until the deadline.
GiveUpBusy(c) ==
    /\ client[c] \in {"opening", "asked"}
    /\ PipeExists
    /\ pipe # "free"
    /\ client' = [client EXCEPT ![c] = "away"]
    /\ UNCHANGED <<service, stopEvent, listener, pipe, guest, pool, worker, serves>>

\* ERROR_FILE_NOT_FOUND until the deadline, which no start in progress outlasts.
GiveUpNotFound(c) ==
    /\ client[c] = "asked"
    /\ service = "stopped"
    /\ client' = [client EXCEPT ![c] = "notFound"]
    /\ UNCHANGED <<service, stopEvent, listener, pipe, guest, pool, worker, serves>>

Leave(c) ==
    /\ client[c] = "connected"
    /\ client' = [client EXCEPT ![c] = "away"]
    /\ guest' = IF guest = c THEN Nobody ELSE guest
    /\ serves' = [w \in Workers |-> IF serves[w] = c THEN Nobody ELSE serves[w]]
    /\ UNCHANGED <<service, stopEvent, listener, pipe, pool, worker>>

-----------------------------------------------------------------------------
ListenerStep ==
    \/ LoopTop \/ ReapWorkers \/ SlotFree \/ AwaitSlot \/ CreatePipe
    \/ Dispatch \/ AbandonPipe \/ CancelIdle \/ JoinWorkers \/ ReportStopped

ClientStep(c) ==
    \/ Arrive(c) \/ Connect(c) \/ AskForStart(c) \/ StartRefused(c)
    \/ GiveUpBusy(c) \/ GiveUpNotFound(c) \/ Leave(c)

Next ==
    \/ ListenerStep
    \/ SlotTimeout \/ DispatchFails \/ IdleTimeout
    \/ ServiceMain \/ ServiceControlHandler
    \/ \E w \in Workers : WorkerCompletes(w) \/ WorkerExits(w)
    \/ \E c \in Clients : ClientStep(c)

Spec == Init /\ [][Next]_vars

\* Threads are scheduled, and a worker that sees the stop event ends: that is what
\* BrokerSessions checks (StopCompletes).  Otherwise a session may last forever.
Fairness ==
    /\ WF_vars(ListenerStep)
    /\ WF_vars(ServiceMain)
    /\ \A w \in Workers :
          /\ WF_vars(stopEvent /\ WorkerCompletes(w))
          /\ WF_vars(WorkerExits(w))

FairSpec == Spec /\ Fairness
-----------------------------------------------------------------------------
(* Properties.                                                             *)

\* Variables keep their shape.
TypeOK ==
    /\ service \in {"stopped", "starting", "running", "stopPending"}
    /\ stopEvent \in BOOLEAN
    /\ listener \in ListenerSteps
    /\ pipe \in {"closed", "free", "taken"}
    /\ guest \in Clients \cup {Nobody}
    /\ pool \in SUBSET Workers
    /\ worker \in [Workers -> {"none", "serving", "completed", "exited"}]
    /\ serves \in [Workers -> Clients \cup {Nobody}]
    /\ client \in [Clients -> {"away", "opening", "asked", "connected", "notFound"}]

\* Whenever the listener is about to create an instance of the pipe, Windows has
\* one left: otherwise a busy moment would end the service (CreateControlPipe).
PoolLeavesRoom == listener = "create" => Cardinality(HoldingPipe) < MaxWorkers

\* Whichever way the service ends, no thread is left that uses its application, its
\* stop event or a pipe of its own when it reports that it has stopped.
NoWorkerOutlivesService == listener \in {"report", "down"} => HoldingPipe = {}

\* A client is connected exactly as long as one thread, or the instance not yet
\* handed over, has it at its other end: dispatching, idle timeout, stop and
\* disconnection neither strand a client nor give it two servers.
EachClientHasOneServer ==
    /\ \A c \in Clients : client[c] = "connected" <=> \/ guest = c
                                                     \/ \E w \in Workers : serves[w] = c
    /\ \A v, w \in Workers : serves[v] = serves[w] /\ serves[v] # Nobody => v = w
    /\ guest # Nobody => \A w \in Workers : serves[w] # guest

\* Waiting for a slot, the listener ends the service only because it was told to:
\* further clients meet a busy pipe until a worker completes.
FullPoolOnlyDelays ==
    [][listener = "slot" /\ ~stopEvent /\ stopEvent' => service' = "stopPending"]_vars

\* A client that found no pipe and had its start accepted does not give up for want
\* of a pipe when nothing fails.
StartedServiceIsFound == \A c \in Clients : client[c] # "notFound"

\* A stop, asked for or forced by a failure, ends in a stopped service.
StopIsReported == stopEvent ~> service = "stopped"

\* As long as it runs, a service with a slot to spare offers a pipe again and again:
\* sessions that never end do not keep others out.
RunningServiceListens ==
    (service = "running" /\ Cardinality(pool) < MaxWorkers)
        ~> (pipe # "closed" \/ service # "running" \/ stopEvent)

\* The steps of the loop from which a client may yet be dispatched, the stop event or not.
MayDispatch == listener \in {"reap", "slot", "create", "listen"}

\* The run of the service as BrokerLifecycle sees it.
Phase ==
    IF service \in {"stopped", "starting"} THEN "down"
    ELSE IF ~stopEvent /\ listener # "report" THEN "up"
    ELSE IF MayDispatch THEN "ending" ELSE "closed"
Busy == {w \in Workers : worker[w] = "serving"}

Lifecycle == INSTANCE BrokerLifecycle WITH phase <- Phase, busy <- Busy

\* Every step of the listener, its workers and the manager is one of the lifecycle: with the
\* stop event set, at most one client is dispatched before the loop sees it.
ImplementsLifecycle == Lifecycle!LifecycleSpec
-----------------------------------------------------------------------------
(* The inductive strengthening of the safety properties.                   *)

\* The vector holds every thread that is not over, and never too many.
PoolOwnsThreads ==
    /\ HoldingPipe \subseteq pool
    /\ Cardinality(pool) <= MaxWorkers
    /\ listener \in {"create", "listen", "idle"} => Cardinality(pool) < MaxWorkers
    /\ listener \in {"report", "down"} => pool = {}
    /\ \A w \in pool : worker[w] # "none"
    /\ \A w \in Workers : serves[w] # Nobody => worker[w] = "serving"

\* The instance on offer, the service's state and the stop event fit the step.
PipeFollowsStep ==
    /\ pipe # "closed" <=> listener \in {"listen", "idle"}
    /\ guest # Nobody => pipe = "taken"
    /\ listener = "down" <=> service \in {"stopped", "starting"}
    /\ service = "stopPending" => stopEvent
    /\ listener = "join" => stopEvent
    /\ stopEvent => listener # "down"

\* What every step preserves, and what the safety properties follow from.
ListenerInvariant ==
    /\ TypeOK
    /\ PoolOwnsThreads
    /\ PipeFollowsStep
    /\ EachClientHasOneServer
-----------------------------------------------------------------------------
(* Progress: what the liveness properties rest on, for a pool of any size. *)

\* The listener waits for nobody.
ListenerCanMove ==
    \/ listener \in {"loop", "create", "report"}
    \/ listener \in {"reap", "idle"} /\ \A w \in Completed : worker[w] = "exited"
    \/ listener = "slot" /\ (Cardinality(pool) < MaxWorkers \/ stopEvent \/ Completed # {})
    \/ /\ listener = "listen"
       /\ \/ stopEvent
          \/ /\ pipe = "taken"
             /\ guest = Nobody \/ \E w \in Workers \ pool : worker[w] \in {"none", "exited"}
    \/ listener = "join" /\ \A w \in pool : worker[w] = "exited"

\* A running service always knows what it waits for: a thread that is about to end, one that
\* has been told to end, a client on an offered pipe, or a worker of a pool that is busy to
\* the last.  None of its waits outlives its reason, whenever the stop event is set.
ListenerIsNeverStuck ==
    \/ listener = "down"
    \/ ListenerCanMove
    \/ \E w \in pool : worker[w] = "completed"
    \/ stopEvent /\ \E w \in pool : worker[w] = "serving"
    \/ ~stopEvent /\ listener = "listen" /\ pipe = "free"
    \/ ~stopEvent /\ listener = "slot" /\ \A w \in pool : worker[w] = "serving"

\* The steps from the stop event to the stopped service: dispatching a client that was there
\* before the stop costs two more, its thread's completion and its end.
ListenerLeft == [down |-> 0, report |-> 1, join |-> 2, loop |-> 3, idle |-> 4, listen |-> 6,
                 create |-> 7, slot |-> 8, reap |-> 9]
StopLeft == ListenerLeft[listener] + Cardinality(HoldingPipe) + Cardinality(Busy)

\* Once the stop event is set, every step of the listener and of its threads brings the
\* service nearer its end, and no client, timeout or failure takes it back: neither a client
\* that is dispatched still nor a pipe that is offered once more begins another round.
StopRunsOut ==
    [][stopEvent =>
          /\ StopLeft' <= StopLeft
          /\ ListenerStep \/ (\E w \in Workers : WorkerCompletes(w) \/ WorkerExits(w))
                => StopLeft' < StopLeft]_vars
=============================================================================
