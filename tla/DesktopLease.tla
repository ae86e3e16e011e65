---------------------------- MODULE DesktopLease ----------------------------
(***************************************************************************)
(* Interactive launches on one desktop.  Each launch has a launcher        *)
(* process, whose main thread coordinates the lease while a second thread  *)
(* waits for the broker, and a broker worker, which asks for the lease     *)
(* while it holds launchMutex_.  The coordinators grant and revoke one     *)
(* logon SID's access to the window station, the desktop and the session's *)
(* object directory, whose ACLs all launchers share under a lock.          *)
(*                                                                         *)
(* A launch is its logon SID: Windows never gives two logons the same one. *)
(* A lease pipe carries at most one message, so one slot per pipe is kept. *)
(***************************************************************************)
EXTENDS Integers, FiniteSets, FiniteSetsExt

CONSTANTS Launches,  \* interactive launches, each with its own logon SID
          Objects,   \* the protected objects, 1..Objects in the order of Acquire (3)
          Faults,    \* what may go wrong: a subset of PossibleFaults
          Nobody     \* no launch

\* The launcher is killed, the broker crashes or is stopped; a launch fails before its
\* lease, or its process does after it; the coordinator gives up before it answers;
\* locking or reading, writing or verifying an ACL fails.
PossibleFaults ==
    {"kill", "crash", "stop", "launch", "process", "refuse", "lock", "write", "verify"}

ASSUME LeaseConstants ==
    /\ Objects \in Nat \ {0}
    /\ Faults \subseteq PossibleFaults
    /\ Nobody \notin Launches

VARIABLES
    dacl,         \* the lease ACEs of each object
    lock,         \* the launch whose coordinator holds the mutation lock
    main,         \* where each launcher's main thread stands
    job,          \* what its ACL lease is doing: acquire, rollback, release, destroy
    todo,         \* the objects this job still has to treat
    seen,         \* the ACL it has read under the lock
    leased,       \* the objects it believes to carry its ACE
    clean,        \* whether every removal of its Release succeeded
    reply,        \* what the launcher's other thread got: none, launched, error
    pipe,         \* the broker's end of the lease pipe: fresh, open, shut
    message,      \* the message in it
    broker,       \* where each broker worker stands
    launchMutex,  \* the launch that holds the broker's launchMutex_
    stopEvent     \* whether the service is to stop

coordinatorVars == <<dacl, lock, job, todo, seen, leased, clean>>
brokerVars == <<broker, launchMutex, stopEvent, reply>>
vars == <<coordinatorVars, main, pipe, message, brokerVars>>

ObjectIds == 1..Objects
MainSteps == {"idle", "listen", "serve", "lock", "write", "verify", "answer", "hold",
              "join", "over", "killed"}
BrokerSteps == {"none", "queued", "launching", "awaiting", "granted", "undoing", "running",
                "releasing", "failed", "closed", "unconfirmed"}
Messages == {"none", "acquire", "granted", "refused", "release", "released", "unreleased"}

\* The launcher process, and with it the server's end of the lease pipe, exists.
Alive(i) == main[i] \notin {"idle", "over", "killed"}
BrokerEnded(i) == broker[i] \in {"none", "failed", "closed", "unconfirmed"}

Init ==
    /\ dacl = [o \in ObjectIds |-> {}]
    /\ lock = Nobody
    /\ main = [i \in Launches |-> "idle"]
    /\ job = [i \in Launches |-> "acquire"]
    /\ todo = [i \in Launches |-> {}]
    /\ seen = [i \in Launches |-> {}]
    /\ leased = [i \in Launches |-> {}]
    /\ clean = [i \in Launches |-> TRUE]
    /\ reply = [i \in Launches |-> "none"]
    /\ pipe = [i \in Launches |-> "fresh"]
    /\ message = [i \in Launches |-> "none"]
    /\ broker = [i \in Launches |-> "none"]
    /\ launchMutex = Nobody
    /\ stopEvent = FALSE

Goto(i, step) == main' = [main EXCEPT ![i] = step]
Send(i, m) == message' = [message EXCEPT ![i] = m]
FreeLock(i) == lock' = IF lock = i THEN Nobody ELSE lock

-----------------------------------------------------------------------------
(* InteractiveDesktopAclLease: Acquire, Release and the destructor.        *)

\* Release treats the leased objects only, in the reverse order of Acquire.
Current(i) == IF job[i] = "acquire" THEN Min(todo[i]) ELSE Max(todo[i])

AfterJob(j) == IF j = "destroy" THEN "join" ELSE "answer"

\* Remove the ACEs of the objects in S, the launch's leased objects.
BeginRelease(i, j, S) ==
    /\ job' = [job EXCEPT ![i] = j]
    /\ todo' = [todo EXCEPT ![i] = S]
    /\ Goto(i, IF S = {} THEN AfterJob(j) ELSE "lock")

\* Mutant: the last removal decides what Release reports.
AdvanceLastResult(i, ok) ==
    LET rest == todo[i] \ {Current(i)}
    IN  /\ clean' = [clean EXCEPT ![i] = ok \/ job[i] = "acquire"]
        /\ \/ /\ job[i] = "acquire" => ok
              /\ todo' = [todo EXCEPT ![i] = rest]
              /\ Goto(i, IF rest = {} THEN AfterJob(job[i]) ELSE "lock")
              /\ UNCHANGED job
           \/ /\ job[i] = "acquire" /\ ~ok
              /\ BeginRelease(i, "rollback", leased[i])

\* The object is done.  A failed grant ends the acquisition and rolls it back; a failed
\* removal is remembered and the next object treated all the same.
Advance(i, ok) ==
    LET rest == todo[i] \ {Current(i)}
    IN  /\ clean' = [clean EXCEPT ![i] = @ /\ (ok \/ job[i] = "acquire")]
        /\ \/ /\ job[i] = "acquire" => ok
              /\ todo' = [todo EXCEPT ![i] = rest]
              /\ Goto(i, IF rest = {} THEN AfterJob(job[i]) ELSE "lock")
              /\ UNCHANGED job
           \/ /\ job[i] = "acquire" /\ ~ok
              /\ BeginRelease(i, "rollback", leased[i])

\* Mutant: the ACL is read and written without the lock.
TakeLockHeld(i) ==
    /\ main[i] = "lock"
    /\ lock' = i
    /\ seen' = [seen EXCEPT ![i] = dacl[Current(i)]]
    /\ Goto(i, "write")
    /\ UNCHANGED <<dacl, job, todo, leased, clean, pipe, message, brokerVars>>

\* DesktopAclMutationLock::Acquire and reading the ACL.
TakeLock(i) ==
    /\ main[i] = "lock"
    /\ lock = Nobody
    /\ lock' = i
    /\ seen' = [seen EXCEPT ![i] = dacl[Current(i)]]
    /\ Goto(i, "write")
    /\ UNCHANGED <<dacl, job, todo, leased, clean, pipe, message, brokerVars>>

\* The lock is not had in thirty seconds, or the object or its ACL cannot be read.
LockFails(i) ==
    /\ "lock" \in Faults
    /\ main[i] = "lock"
    /\ Advance(i, FALSE)
    /\ UNCHANGED <<dacl, lock, seen, leased, pipe, message, brokerVars>>

\* Mutant: the object counts as leased only where the grant is verified.
WriteDaclUntracked(i) ==
    /\ main[i] = "write"
    /\ i \in seen[i] <=> job[i] # "acquire"
    /\ LET o == Current(i)
       IN  IF job[i] = "acquire"
           THEN /\ dacl' = [dacl EXCEPT ![o] = seen[i] \cup {i}]
                /\ \E verified \in BOOLEAN :
                      leased' = [leased EXCEPT ![i] = IF verified THEN @ \cup {o} ELSE @]
           ELSE /\ dacl' = [dacl EXCEPT ![o] = seen[i] \ {i}]
                /\ leased' = [leased EXCEPT ![i] = @ \ {o}]
    /\ Goto(i, "verify")
    /\ UNCHANGED <<lock, job, todo, seen, clean, pipe, message, brokerVars>>

\* The ACL is replaced by what was read with the lease's ACE added or taken out.
WriteDacl(i) ==
    /\ main[i] = "write"
    /\ i \in seen[i] <=> job[i] # "acquire"
    /\ LET o == Current(i)
       IN  IF job[i] = "acquire"
           THEN /\ dacl' = [dacl EXCEPT ![o] = seen[i] \cup {i}]
                /\ leased' = [leased EXCEPT ![i] = @ \cup {o}]
           ELSE /\ dacl' = [dacl EXCEPT ![o] = seen[i] \ {i}]
                /\ leased' = [leased EXCEPT ![i] = @ \ {o}]
    /\ Goto(i, "verify")
    /\ UNCHANGED <<lock, job, todo, seen, clean, pipe, message, brokerVars>>

\* An ACE to be granted is there already, one to be removed is not, or Windows refuses.
WriteFails(i) ==
    /\ main[i] = "write"
    /\ "write" \in Faults \/ (i \in seen[i] <=> job[i] = "acquire")
    /\ Advance(i, FALSE)
    /\ FreeLock(i)
    /\ UNCHANGED <<dacl, seen, leased, pipe, message, brokerVars>>

\* The ACL is read again and shows the change.
Verify(i) ==
    /\ main[i] = "verify"
    /\ Advance(i, TRUE)
    /\ FreeLock(i)
    /\ UNCHANGED <<dacl, seen, leased, pipe, message, brokerVars>>

VerifyFails(i) ==
    /\ "verify" \in Faults
    /\ main[i] = "verify"
    /\ Advance(i, FALSE)
    /\ FreeLock(i)
    /\ UNCHANGED <<dacl, seen, leased, pipe, message, brokerVars>>

-----------------------------------------------------------------------------
(* RunBrokerInteractive and its coordinator.                               *)

\* The lease pipe is created and the second thread sends the launch request.
Launch(i) ==
    /\ main[i] = "idle"
    /\ Goto(i, "listen")
    /\ \/ /\ ~stopEvent
          /\ broker' = [broker EXCEPT ![i] = "queued"]
          /\ UNCHANGED reply
       \/ /\ stopEvent \/ "launch" \in Faults
          /\ reply' = [reply EXCEPT ![i] = "error"]
          /\ UNCHANGED broker
    /\ UNCHANGED <<coordinatorVars, pipe, message, launchMutex, stopEvent>>

\* The broker, or one that has gone again, opened the pipe.
BrokerConnects(i) ==
    /\ main[i] = "listen"
    /\ pipe[i] # "fresh"
    /\ Goto(i, "serve")
    /\ UNCHANGED <<coordinatorVars, pipe, message, brokerVars>>

\* The launch is over and no lease was asked for.
Cancelled(i) ==
    /\ main[i] = "listen"
    /\ pipe[i] = "fresh"
    /\ reply[i] # "none"
    /\ Goto(i, "join")
    /\ UNCHANGED <<coordinatorVars, pipe, message, brokerVars>>

\* The pipe's mode, the peer, the message or its SID is refused: no answer is sent.
GiveUp(i) ==
    /\ "refuse" \in Faults
    /\ main[i] \in {"listen", "serve"}
    /\ Goto(i, "join")
    /\ message' = [message EXCEPT ![i] = IF main[i] = "serve" THEN "none" ELSE @]
    /\ UNCHANGED <<coordinatorVars, pipe, brokerVars>>

ReadAcquire(i) ==
    /\ main[i] = "serve"
    /\ message[i] = "acquire"
    /\ Send(i, "none")
    /\ job' = [job EXCEPT ![i] = "acquire"]
    /\ todo' = [todo EXCEPT ![i] = ObjectIds]
    /\ Goto(i, "lock")
    /\ UNCHANGED <<dacl, lock, seen, leased, clean, pipe, brokerVars>>

\* What the coordinator reports of the job it has finished.
Outcome(i) ==
    CASE job[i] = "acquire" -> "granted"
      [] job[i] = "rollback" -> "refused"
      [] OTHER -> IF clean[i] THEN "released" ELSE "unreleased"

\* Mutant: a refusal is not answered.
AnswerGranted(i) ==
    /\ main[i] = "answer"
    /\ message' = [message EXCEPT ![i] = IF pipe[i] = "open" /\ Outcome(i) # "refused"
                                          THEN Outcome(i) ELSE @]
    /\ \/ /\ job[i] = "acquire" /\ pipe[i] = "open"
          /\ Goto(i, "hold")
          /\ UNCHANGED <<job, todo>>
       \/ /\ job[i] # "acquire" \/ pipe[i] # "open"
          /\ BeginRelease(i, "destroy", leased[i])
    /\ UNCHANGED <<dacl, lock, seen, leased, clean, pipe, brokerVars>>

\* The answer is written, if the broker is still there.  A lease that is granted is
\* held; otherwise it is destroyed with whatever it could not remove before.
Answer(i) ==
    /\ main[i] = "answer"
    /\ message' = [message EXCEPT ![i] = IF pipe[i] = "open" THEN Outcome(i) ELSE @]
    /\ \/ /\ job[i] = "acquire" /\ pipe[i] = "open"
          /\ Goto(i, "hold")
          /\ UNCHANGED <<job, todo>>
       \/ /\ job[i] # "acquire" \/ pipe[i] # "open"
          /\ BeginRelease(i, "destroy", leased[i])
    /\ UNCHANGED <<dacl, lock, seen, leased, clean, pipe, brokerVars>>

ReadRelease(i) ==
    /\ main[i] = "hold"
    /\ message[i] = "release"
    /\ Send(i, "none")
    /\ clean' = [clean EXCEPT ![i] = TRUE]
    /\ BeginRelease(i, "release", leased[i])
    /\ UNCHANGED <<dacl, lock, seen, leased, pipe, brokerVars>>

\* The broker closed its end without a request.
ReadFails(i) ==
    /\ main[i] \in {"serve", "hold"}
    /\ pipe[i] = "shut"
    /\ message[i] \notin {"acquire", "release"}
    /\ BeginRelease(i, "destroy", leased[i])
    /\ UNCHANGED <<dacl, lock, seen, leased, clean, pipe, message, brokerVars>>

\* The second thread is joined, and only then the lease pipe is disconnected: what the
\* broker has not read is lost.
Join(i) ==
    /\ main[i] = "join"
    /\ reply[i] # "none"
    /\ Goto(i, "over")
    /\ Send(i, "none")
    /\ UNCHANGED <<coordinatorVars, pipe, brokerVars>>

\* The process is killed; its ACEs stay.
Kill(i) ==
    /\ "kill" \in Faults
    /\ Alive(i)
    /\ Goto(i, "killed")
    /\ FreeLock(i)
    /\ UNCHANGED <<dacl, job, todo, seen, leased, clean, pipe, message, brokerVars>>

-----------------------------------------------------------------------------
(* The broker's worker: LaunchBrokerInteractiveProcess and FinishSession.  *)

TakeLaunchMutex(i) ==
    /\ broker[i] = "queued"
    /\ launchMutex = Nobody
    /\ launchMutex' = i
    /\ broker' = [broker EXCEPT ![i] = "launching"]
    /\ UNCHANGED <<coordinatorVars, main, pipe, message, stopEvent, reply>>

\* Launch returns an error: the mutex is freed and the launcher told.
LaunchReturnsError(i) ==
    /\ broker' = [broker EXCEPT ![i] = "failed"]
    /\ launchMutex' = Nobody
    /\ reply' = [reply EXCEPT ![i] = "error"]
    /\ UNCHANGED stopEvent

\* Something before the lease fails, or the launcher's pipe is gone.
LaunchFails(i) ==
    /\ broker[i] = "launching"
    /\ "launch" \in Faults \/ ~Alive(i)
    /\ LaunchReturnsError(i)
    /\ UNCHANGED <<coordinatorVars, main, pipe, message>>

\* AcquireInteractiveDesktopLease up to its blocking read.
AskForLease(i) ==
    /\ broker[i] = "launching"
    /\ Alive(i)
    /\ pipe' = [pipe EXCEPT ![i] = "open"]
    /\ Send(i, "acquire")
    /\ broker' = [broker EXCEPT ![i] = "awaiting"]
    /\ UNCHANGED <<coordinatorVars, main, launchMutex, stopEvent, reply>>

LeaseGranted(i) ==
    /\ broker[i] = "awaiting"
    /\ message[i] = "granted"
    /\ Send(i, "none")
    /\ broker' = [broker EXCEPT ![i] = "granted"]
    /\ UNCHANGED <<coordinatorVars, main, pipe, launchMutex, stopEvent, reply>>

\* The lease is refused, or the launcher is gone.
LeaseRefused(i) ==
    /\ broker[i] = "awaiting"
    /\ message[i] = "refused" \/ (~Alive(i) /\ message[i] # "granted")
    /\ Send(i, "none")
    /\ pipe' = [pipe EXCEPT ![i] = "shut"]
    /\ LaunchReturnsError(i)
    /\ UNCHANGED <<coordinatorVars, main>>

\* The suspended process is created, verified and resumed.
StartProcess(i) ==
    /\ broker[i] = "granted"
    /\ broker' = [broker EXCEPT ![i] = "running"]
    /\ launchMutex' = Nobody
    /\ reply' = [reply EXCEPT ![i] = "launched"]
    /\ UNCHANGED <<coordinatorVars, main, pipe, message, stopEvent>>

\* Mutant: the connection is not closed when the process cannot be resumed.
ResumeFailsOpen(i) ==
    /\ broker[i] = "granted"
    /\ "process" \in Faults
    /\ LaunchReturnsError(i)
    /\ UNCHANGED <<coordinatorVars, main, pipe, message>>

\* The process cannot be resumed: the connection closes without a release.
ResumeFails(i) ==
    /\ broker[i] = "granted"
    /\ "process" \in Faults
    /\ pipe' = [pipe EXCEPT ![i] = "shut"]
    /\ LaunchReturnsError(i)
    /\ UNCHANGED <<coordinatorVars, main, message>>

\* The process cannot be created or verified: releaseAfterFailure, under the mutex.
ProcessFails(i) ==
    /\ broker[i] = "granted"
    /\ "process" \in Faults
    /\ \/ /\ Alive(i)
          /\ Send(i, "release")
          /\ broker' = [broker EXCEPT ![i] = "undoing"]
          /\ UNCHANGED <<pipe, launchMutex, stopEvent, reply>>
       \/ /\ ~Alive(i)
          /\ pipe' = [pipe EXCEPT ![i] = "shut"]
          /\ LaunchReturnsError(i)
          /\ UNCHANGED message
    /\ UNCHANGED <<coordinatorVars, main>>

\* The session ends with its process tree, or is ended by a stop; the lease follows.
EndSession(i) ==
    /\ broker[i] = "running"
    /\ \/ /\ Alive(i)
          /\ Send(i, "release")
          /\ broker' = [broker EXCEPT ![i] = "releasing"]
          /\ UNCHANGED pipe
       \/ /\ ~Alive(i)
          /\ pipe' = [pipe EXCEPT ![i] = "shut"]
          /\ broker' = [broker EXCEPT ![i] = "unconfirmed"]
          /\ UNCHANGED message
    /\ UNCHANGED <<coordinatorVars, main, launchMutex, stopEvent, reply>>

\* The answer to the release, or the launcher's end without one, is read.
ReleaseAnswered(i) ==
    /\ broker[i] \in {"undoing", "releasing"}
    /\ message[i] \in {"released", "unreleased"} \/ ~Alive(i)
    /\ Send(i, "none")
    /\ pipe' = [pipe EXCEPT ![i] = "shut"]
    /\ \/ /\ broker[i] = "undoing"
          /\ LaunchReturnsError(i)
       \/ /\ broker[i] = "releasing"
          /\ broker' = [broker EXCEPT ![i] = IF message[i] = "released"
                                             THEN "closed" ELSE "unconfirmed"]
          /\ UNCHANGED <<launchMutex, stopEvent, reply>>
    /\ UNCHANGED <<coordinatorVars, main>>

StopService ==
    /\ "stop" \in Faults
    /\ ~stopEvent
    /\ stopEvent' = TRUE
    /\ UNCHANGED <<coordinatorVars, main, pipe, message, broker, launchMutex, reply>>

\* The broker's process ends: its jobs kill their trees, its pipes are closed.
Crash ==
    /\ "crash" \in Faults
    /\ ~stopEvent
    /\ stopEvent' = TRUE
    /\ broker' = [i \in Launches |-> IF BrokerEnded(i) THEN broker[i] ELSE "failed"]
    /\ launchMutex' = Nobody
    /\ reply' = [i \in Launches |->
                    IF ~BrokerEnded(i) /\ reply[i] = "none" THEN "error" ELSE reply[i]]
    /\ pipe' = [i \in Launches |-> IF pipe[i] = "open" THEN "shut" ELSE pipe[i]]
    /\ UNCHANGED <<coordinatorVars, main, message>>

-----------------------------------------------------------------------------
LeaseStep(i) ==
    \/ TakeLock(i) \/ WriteDacl(i) \/ WriteFails(i) \/ Verify(i)

CoordinatorStep(i) ==
    \/ BrokerConnects(i) \/ Cancelled(i) \/ ReadAcquire(i) \/ Answer(i)
    \/ ReadRelease(i) \/ ReadFails(i) \/ Join(i)

BrokerStep(i) ==
    \/ TakeLaunchMutex(i) \/ LaunchFails(i) \/ AskForLease(i) \/ LeaseGranted(i)
    \/ LeaseRefused(i) \/ StartProcess(i) \/ ResumeFails(i) \/ ProcessFails(i)
    \/ ReleaseAnswered(i)

Next ==
    \/ \E i \in Launches :
          \/ Launch(i) \/ LeaseStep(i) \/ CoordinatorStep(i) \/ BrokerStep(i)
          \/ LockFails(i) \/ VerifyFails(i) \/ GiveUp(i) \/ Kill(i) \/ EndSession(i)
    \/ StopService \/ Crash

Spec == Init /\ [][Next]_vars

\* Threads are scheduled, a thread polling for the lock finds it free, and a stop
\* terminates the session's job.  A program may run, and a launcher not start, forever.
Fairness ==
    \A i \in Launches :
        /\ WF_vars(LeaseStep(i) \/ CoordinatorStep(i))
        /\ WF_vars(BrokerStep(i))
        /\ WF_vars(stopEvent /\ EndSession(i))

FairSpec == Spec /\ Fairness
-----------------------------------------------------------------------------
(* Properties.                                                             *)

\* Variables keep their shape.
TypeOK ==
    /\ dacl \in [ObjectIds -> SUBSET Launches]
    /\ lock \in Launches \cup {Nobody}
    /\ main \in [Launches -> MainSteps]
    /\ job \in [Launches -> {"acquire", "rollback", "release", "destroy"}]
    /\ todo \in [Launches -> SUBSET ObjectIds]
    /\ seen \in [Launches -> SUBSET Launches]
    /\ leased \in [Launches -> SUBSET ObjectIds]
    /\ clean \in [Launches -> BOOLEAN]
    /\ reply \in [Launches -> {"none", "launched", "error"}]
    /\ pipe \in [Launches -> {"fresh", "open", "shut"}]
    /\ message \in [Launches -> Messages]
    /\ broker \in [Launches -> BrokerSteps]
    /\ launchMutex \in Launches \cup {Nobody}
    /\ stopEvent \in BOOLEAN

(* The inductive invariant.                                                *)

\* The mutation lock is held while an ACL is read, written and verified.
LockDiscipline ==
    \A i \in Launches :
        /\ lock = i <=> main[i] \in {"write", "verify"}
        /\ main[i] = "write" => seen[i] = dacl[Current(i)]

\* A coordinator believes exactly those objects to be leased that carry its ACE.
AcesAreTracked ==
    \A i \in Launches : \A o \in ObjectIds : i \in dacl[o] <=> o \in leased[i]

\* What is left to grant or to remove, and what is leased, make up what the job began with.
Progress(i) ==
    LET treated == IF main[i] = "verify" THEN todo[i] \ {Current(i)} ELSE todo[i]
    IN  /\ main[i] \in {"idle", "listen", "serve"} => leased[i] = {} /\ clean[i]
        /\ main[i] \in {"lock", "write", "verify"} =>
              /\ todo[i] # {}
              /\ job[i] = "acquire" => clean[i] /\ treated = ObjectIds \ leased[i]
              /\ job[i] # "acquire" =>
                    treated \subseteq leased[i] /\ (clean[i] => treated = leased[i])
        /\ main[i] = "hold" => job[i] = "acquire"
        /\ main[i] \in {"answer", "hold"} /\ job[i] = "acquire" =>
              clean[i] /\ leased[i] = ObjectIds
        /\ main[i] = "answer" /\ job[i] # "acquire" /\ clean[i] => leased[i] = {}
        /\ main[i] \in {"join", "over"} /\ clean[i] => leased[i] = {}

JobProgress == \A i \in Launches : Progress(i)

\* What broker and coordinator may take for granted of each other.
Exchange ==
    \A i \in Launches :
        /\ main[i] = "idle" => broker[i] = "none"
        /\ pipe[i] = "open" <=>
              broker[i] \in {"awaiting", "granted", "running", "undoing", "releasing"}
        /\ broker[i] = "awaiting" /\ message[i] = "granted" => main[i] \in {"hold", "killed"}
        /\ broker[i] \in {"granted", "running"} =>
              main[i] \in {"hold", "killed"} /\ message[i] = "none"
        /\ message[i] = "released" \/ broker[i] = "closed" =>
              main[i] \in {"join", "over", "killed"} /\ leased[i] = {}

\* launchMutex_ is held from its acquisition to the result of the launch.
MutexDiscipline ==
    \A i \in Launches :
        launchMutex = i <=> broker[i] \in {"launching", "awaiting", "granted", "undoing"}

\* What the broker takes for granted covers all objects, a killed launcher's lease included.
GrantsAreComplete ==
    \A i \in Launches :
        \/ broker[i] = "awaiting" /\ message[i] = "granted"
        \/ broker[i] \in {"granted", "running"}
        => leased[i] = ObjectIds

\* Coordinators, leases and broker agree at every step of every launch.
LeaseInvariant ==
    /\ TypeOK
    /\ LockDiscipline
    /\ AcesAreTracked
    /\ JobProgress
    /\ Exchange
    /\ MutexDiscipline
    /\ GrantsAreComplete

-----------------------------------------------------------------------------
\* While a program runs, or is being created, all objects carry its ACE: no overlapping
\* lease's grant or cleanup takes it away, nor does the end of a launcher that is killed.
RunningMeansGranted ==
    \A i \in Launches : broker[i] \in {"granted", "running"} =>
        \A o \in ObjectIds : i \in dacl[o]

\* A cleanup removes only its lease's ACE, a grant adds only its own.
OnlyOwnAceChanges ==
    [][\A o \in ObjectIds : \A i, j \in Launches :
          (i \in dacl[o]) # (i \in dacl'[o]) /\ (j \in dacl[o]) # (j \in dacl'[o]) => i = j]_vars

\* A launcher that ended by itself leaves an ACE behind only where it knew of it and
\* Release and the destructor both failed to remove it.
StrayGrantsAreKnown ==
    \A i \in Launches : main[i] = "over" =>
        \A o \in ObjectIds : i \in dacl[o] => o \in leased[i] /\ ~clean[i]

\* When the broker takes a release for done, no object carries the ACE any more.
ReleasedMeansRemoved ==
    \A i \in Launches : broker[i] = "closed" => \A o \in ObjectIds : i \notin dacl[o]

\* Once the broker's worker has ended, however it ended, the launcher comes to its end:
\* it never waits for a release or a reply that nobody will send.
LauncherReturns(i) ==
    (main[i] # "idle" /\ BrokerEnded(i)) ~> main[i] \in {"over", "killed"}

\* The coordinator has given up and waits for its other thread, which has no reply yet.
GaveUp(i) == main[i] = "join" /\ job[i] = "acquire" /\ reply[i] = "none"

\* launchMutex_ comes free again, whatever the broker and the launcher's end are at; only
\* a coordinator that gives up without an answer can keep it for good.
OnlyGivingUpBlocks(i) == launchMutex = i ~> (launchMutex # i \/ GaveUp(i))

\* Where the broker's worker stands with a launch, and to which launches the desktop is open,
\* as LeaseContract sees it.
StageAt(step) ==
    IF step \in {"launching", "awaiting", "undoing"} THEN "launching"
    ELSE IF step \in {"granted", "running"} THEN step ELSE "out"
Stage == [i \in Launches |-> StageAt(broker[i])]
Open == {i \in Launches : \A o \in ObjectIds : i \in dacl[o]}

Contract == INSTANCE LeaseContract WITH Sessions <- Launches, stage <- Stage, open <- Open

\* Every step of a coordinator, a launcher or the broker is a step of LeaseContract, or
\* changes nothing there: the desktop opens and closes to a launch that has no program only.
ImplementsLeases == Contract!LeaseSpec

\* A stop of the service ends every broker worker, so that the service can join them.
StopJoinsWorkers ==
    stopEvent ~> \A i \in Launches : BrokerEnded(i)
-----------------------------------------------------------------------------
(* Progress: what the liveness properties rest on, for any number of       *)
(* launches and objects.                                                   *)

\* The launcher's coordinator waits for nobody: one of its steps is possible.
LauncherCanMove(i) ==
    \/ main[i] \in {"write", "verify", "answer"}
    \/ main[i] = "lock" /\ lock = Nobody
    \/ main[i] = "listen" /\ (pipe[i] # "fresh" \/ reply[i] # "none")
    \/ main[i] = "serve" /\ (message[i] = "acquire" \/ pipe[i] = "shut")
    \/ main[i] = "hold" /\ (message[i] = "release" \/ pipe[i] = "shut")
    \/ main[i] = "join" /\ reply[i] # "none"

\* The broker's worker waits for nobody.
WorkerCanMove(i) ==
    \/ broker[i] \in {"launching", "granted"}
    \/ broker[i] = "queued" /\ launchMutex = Nobody
    \/ broker[i] = "awaiting" /\ (message[i] \in {"granted", "refused"} \/ ~Alive(i))
    \/ broker[i] = "running" /\ stopEvent
    \/ /\ broker[i] \in {"undoing", "releasing"}
       /\ message[i] \in {"released", "unreleased"} \/ ~Alive(i)

\* The launch can go on at one of its ends, or waits for the lock of a coordinator that can.
GoesOn(i) ==
    \/ WorkerCanMove(i) \/ LauncherCanMove(i)
    \/ main[i] = "lock" /\ lock # Nobody /\ LauncherCanMove(lock)

\* Broker and launchers never all wait for one another, whatever was killed, refused, stopped
\* or crashed: a launch that cannot go on is over, runs its program, waits its turn, or has a
\* coordinator that gave up; a launcher whose worker has ended goes on by itself; and the
\* owner of launchMutex_ goes on unless its coordinator gave up.
NobodyWaitsInVain ==
    /\ \A i \in Launches :
          \/ main[i] = "idle"
          \/ BrokerEnded(i) /\ ~Alive(i)
          \/ broker[i] = "running" /\ ~stopEvent
          \/ broker[i] = "queued" /\ launchMutex # Nobody
          \/ GaveUp(i) \/ GoesOn(i)
    /\ \A i \in Launches : BrokerEnded(i) /\ Alive(i) =>
          \/ LauncherCanMove(i)
          \/ main[i] = "lock" /\ lock # Nobody /\ LauncherCanMove(lock)
    /\ launchMutex # Nobody => GaveUp(launchMutex) \/ GoesOn(launchMutex)

\* What this rests on: no lease is asked for yet, or the request is still under way.
Unasked(i) ==
    /\ main[i] = "idle" => reply[i] = "none"
    /\ main[i] # "idle" =>
          (reply[i] = "none" <=>
             broker[i] \in {"queued", "launching", "awaiting", "granted", "undoing"})
    /\ broker[i] \in {"none", "queued", "launching"} => pipe[i] = "fresh"
    /\ pipe[i] = "fresh" =>
          /\ message[i] = "none" /\ job[i] = "acquire"
          /\ main[i] \in {"idle", "listen", "join", "over", "killed"}
    /\ main[i] \in {"idle", "listen", "serve"} =>
          job[i] = "acquire" /\ message[i] \in {"none", "acquire"}
    /\ message[i] = "acquire" => main[i] \in {"listen", "serve", "join", "killed"}

\* Whoever waits for the coordinator's answer has it when the coordinator has finished.
Answering(i) ==
    /\ broker[i] = "awaiting" =>
          /\ job[i] # "release"
          /\ main[i] \in {"listen", "serve"} => message[i] = "acquire"
          /\ main[i] = "hold" => message[i] = "granted"
          /\ main[i] \in {"lock", "write", "verify"} /\ job[i] = "destroy" =>
                message[i] = "refused"
          /\ main[i] = "join" => job[i] = "acquire" \/ message[i] = "refused"
    /\ broker[i] \in {"undoing", "releasing"} =>
          /\ main[i] \notin {"idle", "listen", "serve"}
          /\ main[i] = "hold" => message[i] = "release"
          /\ main[i] \in {"lock", "write", "verify", "answer"} =>
                job[i] \in {"release", "destroy"}
          /\ main[i] \in {"lock", "write", "verify"} /\ job[i] = "destroy" =>
                message[i] \in {"released", "unreleased"}
          /\ main[i] = "join" => message[i] \in {"released", "unreleased"}
    /\ main[i] = "answer" => job[i] # "destroy"

WaitsAreAnswered == \A i \in Launches : Unasked(i) /\ Answering(i)

\* The steps a coordinator has left: what follows its job, and three for each object the job
\* still has to treat.
AfterJobLeft(i) ==
    CASE job[i] = "acquire" -> 6 * Objects + 4
      [] job[i] \in {"rollback", "release"} -> 3 * Objects + 2
      [] job[i] = "destroy" -> 1

MainLeft(i) ==
    CASE main[i] \in {"over", "killed"} -> 0
      [] main[i] = "join" -> 1
      [] main[i] = "answer" -> AfterJobLeft(i)
      [] main[i] = "verify" -> AfterJobLeft(i) + 3 * Cardinality(todo[i]) - 2
      [] main[i] = "write" -> AfterJobLeft(i) + 3 * Cardinality(todo[i]) - 1
      [] main[i] = "lock" -> AfterJobLeft(i) + 3 * Cardinality(todo[i])
      [] main[i] = "hold" -> 6 * Objects + 3
      [] main[i] = "serve" -> 9 * Objects + 5
      [] main[i] = "listen" -> 9 * Objects + 6
      [] main[i] = "idle" -> 9 * Objects + 7

BrokerLeft == [none |-> 7, queued |-> 6, launching |-> 5, awaiting |-> 4, granted |-> 3,
               running |-> 2, undoing |-> 1, releasing |-> 1,
               failed |-> 0, closed |-> 0, unconfirmed |-> 0]

StepsLeft(i) == MainLeft(i) + BrokerLeft[broker[i]]

LaunchStep(i) ==
    \/ Launch(i) \/ LeaseStep(i) \/ CoordinatorStep(i) \/ BrokerStep(i)
    \/ LockFails(i) \/ VerifyFails(i) \/ GiveUp(i) \/ Kill(i) \/ EndSession(i)

\* A launch is over after a bounded number of its own steps: no rollback, failed removal or
\* late answer sends either end round again, and nobody else's step, a stop and a crash of
\* the broker included, gives it more to do.
LaunchesRunOut ==
    [][\A i \in Launches : /\ 0 <= StepsLeft(i)' /\ StepsLeft(i)' <= StepsLeft(i)
                           /\ LaunchStep(i) => StepsLeft(i)' < StepsLeft(i)]_vars
=============================================================================
