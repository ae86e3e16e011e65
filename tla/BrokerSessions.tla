--------------------------- MODULE BrokerSessions ---------------------------
(***************************************************************************)
(* The broker's session core: BrokerApplication (admission, launch,        *)
(* configuration, release) driven by the pipe workers of                   *)
(* ServeControlPipeRequest, one worker per accepted control connection.    *)
(*                                                                         *)
(* A step of a worker is the code it runs between two points where another *)
(* worker, the child's process tree, the client or the service control     *)
(* manager can be observed.  sessionMutex_ guards single steps, so it does *)
(* not appear; launchMutex_ spans steps and does.                          *)
(***************************************************************************)
EXTENDS Integers, FiniteSets

CONSTANTS Workers,        \* threads of the control-pipe worker pool
          Accounts,       \* managed account names, already case-folded
          MaxSessions,    \* MaximumConcurrentSessions (4 in the code)
          MaxPerAccount,  \* MaximumConcurrentSessionsPerAccount (2 in the code)
          Operations,     \* the request operations clients send
          Nobody          \* owner of a free mutex, author of no password

LaunchOperations == {"console", "interactive"}
ManagementOperations == {"create", "takeOver", "forget", "delete", "list"}

ASSUME SessionConstants ==
    /\ IsFiniteSet(Workers)
    /\ Nobody \notin Workers
    /\ MaxSessions \in Nat \ {0}
    /\ MaxPerAccount \in Nat \ {0}
    /\ Operations \subseteq LaunchOperations \cup ManagementOperations

Requests ==
    [op : Operations \cap LaunchOperations, account : Accounts, restrict : BOOLEAN]
      \cup
    [op : Operations \cap ManagementOperations, account : Accounts, restrict : {FALSE}]

NoRequest == [op |-> "none"]

\* A record is stale once the account it names has been created anew.
Records == {"none", "matching", "stale"}

VARIABLES
    pc,            \* where each worker stands
    request,       \* the BrokerRequest it serves
    client,        \* whether the control connection is still open
    child,         \* BrokerSession::child: the job and its process tree
    lease,         \* BrokerSession::desktopLease, or Launch's local before the move
    launchMutex,   \* owner of launchMutex_
    count,         \* sessionsByAccount_[a].count
    entry,         \* sessionsByAccount_[a]: absent, plain, or holding a read scope
    sessionCount,  \* sessionCount_
    denials,       \* the temporary ACEs the account's read scope has in place
    stray,         \* accounts with ACEs no scope remembers any more
    osAccount,     \* Windows accounts that exist
    record,        \* each account's enrollment record: none, or whether its SID matches
    password,      \* the worker that generated the account's current password
    service        \* running, stopping, joining (no client is dispatched any more), exited

workerVars   == <<pc, request, client>>
sessionVars  == <<count, entry, sessionCount, denials>>
registryVars == <<osAccount, record, password>>
vars == <<pc, request, client, child, lease, launchMutex, count, entry,
          sessionCount, denials, stray, osAccount, record, password, service>>

Account(w) == request[w].account
Interactive(w) == request[w].op = "interactive"

\* The steps of Launch that run under launchMutex_.
LaunchSteps == {"reset", "logon", "lease", "scope", "spawn", "verify", "resume",
                "failLaunch", "failResume", "unreserve"}
\* The steps of ServeControlPipeRequest after a successful Launch.
ServeSteps == {"reply", "serve", "teardown", "wait", "confirm", "finish", "release"}
ReservedSteps == {"lock"} \cup LaunchSteps \cup ServeSteps
ConfigureSteps == {"manage", "delete"}
Steps == {"idle", "read", "reserve", "configure"} \cup ReservedSteps \cup ConfigureSteps

\* The worker's job still holds a process: created, running, or being killed.
TreeAlive(w) == child[w] \in {"suspended", "running", "hostExited", "dying"}

\* The stop event is set.
Stopping == service \in {"stopping", "joining"}

Goto(w, step) == pc' = [pc EXCEPT ![w] = step]

\* The worker's thread ends: its request and connection are gone.
EndRequest(w) ==
    /\ Goto(w, "idle")
    /\ request' = [request EXCEPT ![w] = NoRequest]
    /\ client' = [client EXCEPT ![w] = FALSE]

Init ==
    /\ pc = [w \in Workers |-> "idle"]
    /\ request = [w \in Workers |-> NoRequest]
    /\ client = [w \in Workers |-> FALSE]
    /\ child = [w \in Workers |-> "none"]
    /\ lease = [w \in Workers |-> FALSE]
    /\ launchMutex = Nobody
    /\ count = [a \in Accounts |-> 0]
    /\ entry = [a \in Accounts |-> "absent"]
    /\ sessionCount = 0
    /\ denials = [a \in Accounts |-> "none"]
    /\ stray = {}
    /\ osAccount \in SUBSET Accounts
    /\ record \in [Accounts -> Records]
    /\ password = [a \in Accounts |-> Nobody]
    /\ service = "running"

-----------------------------------------------------------------------------
(* Admission: TryReserveSession and ReleaseSession.                        *)

\* A connection is dispatched to a worker: one more after the stop event is set, as the
\* listener looks at the event only between two clients.
Accept(w) ==
    /\ service \in {"running", "stopping"}
    /\ pc[w] = "idle"
    /\ Goto(w, "read")
    /\ service' = IF service = "stopping" THEN "joining" ELSE service
    /\ UNCHANGED <<request, client, child, lease, launchMutex, sessionVars, stray,
                   registryVars>>

\* The worker reads, authenticates and parses a request, in the middle of a stop too: the
\* stop event ends a read that waits, not one that finds the request in the pipe.
ReadRequest(w, r) ==
    /\ pc[w] = "read"
    /\ Goto(w, IF r.op \in LaunchOperations THEN "reserve" ELSE "configure")
    /\ request' = [request EXCEPT ![w] = r]
    /\ client' = [client EXCEPT ![w] = TRUE]
    /\ UNCHANGED <<child, lease, launchMutex, sessionVars, stray, registryVars, service>>

\* No request within the timeout, or one that is rejected: nothing was changed.
RejectRequest(w) ==
    /\ pc[w] = "read"
    /\ EndRequest(w)
    /\ UNCHANGED <<child, lease, launchMutex, sessionVars, stray, registryVars, service>>

\* Mutant: both limits are tested one too late.
MayReserveOneMore(a, restrict) ==
    /\ sessionCount <= MaxSessions
    /\ entry[a] # "absent" => /\ count[a] <= MaxPerAccount
                              /\ (entry[a] = "scoped") = restrict

\* Mutant: a session joins the account's entry whatever access mode that has.
MayReserveAnyMode(a, restrict) ==
    /\ sessionCount < MaxSessions
    /\ entry[a] # "absent" => count[a] < MaxPerAccount

\* The tests of TryReserveSession that precede any change.
MayReserve(a, restrict) ==
    /\ sessionCount < MaxSessions
    /\ entry[a] # "absent" => /\ count[a] < MaxPerAccount
                              /\ (entry[a] = "scoped") = restrict

\* Restore() failed: some of the ACEs may be gone, the ledger keeps the rest.
RestorationFails(a) ==
    /\ denials[a] # "none"
    /\ \E left \in {denials[a], "partial"} : denials' = [denials EXCEPT ![a] = left]

Admit(w) ==
    LET a == Account(w) IN
    /\ pc[w] = "reserve"
    /\ MayReserve(a, request[w].restrict)
    /\ count' = [count EXCEPT ![a] = @ + 1]
    /\ sessionCount' = sessionCount + 1
    /\ entry' = [entry EXCEPT ![a] = IF request[w].restrict THEN "scoped" ELSE "plain"]
    /\ denials' = IF count[a] = 0 THEN [denials EXCEPT ![a] = "none"] ELSE denials
    /\ Goto(w, "lock")
    /\ UNCHANGED <<request, client, child, lease, launchMutex, stray, registryVars, service>>

\* ERROR_BUSY: over a limit, the other access mode, or a scope that an earlier
\* failed restoration left behind and that still cannot be restored.
Refuse(w) ==
    LET a == Account(w) IN
    /\ pc[w] = "reserve"
    /\ \/ /\ ~MayReserve(a, request[w].restrict)
          /\ UNCHANGED denials
       \/ /\ MayReserve(a, request[w].restrict)
          /\ count[a] = 0
          /\ RestorationFails(a)
    /\ EndRequest(w)
    /\ UNCHANGED <<child, lease, launchMutex, count, entry, sessionCount, stray,
                   registryVars, service>>

\* Mutant: every session's end restores the scope, not only the last one's.
ReleaseSessionRestoresEarly(a) ==
    /\ count' = [count EXCEPT ![a] = @ - 1]
    /\ sessionCount' = sessionCount - 1
    /\ denials' = [denials EXCEPT ![a] = "none"]
    /\ entry' = IF count[a] = 1 THEN [entry EXCEPT ![a] = "absent"] ELSE entry

\* ReleaseSession: the last session of the account restores its scope, and the
\* map entry goes only when that succeeded.
ReleaseSession(a) ==
    IF count[a] = 0
    THEN UNCHANGED sessionVars
    ELSE /\ count' = [count EXCEPT ![a] = @ - 1]
         /\ sessionCount' = sessionCount - 1
         /\ \/ /\ count[a] > 1
               /\ UNCHANGED <<entry, denials>>
            \/ /\ count[a] = 1
               /\ entry' = [entry EXCEPT ![a] = "absent"]
               /\ denials' = [denials EXCEPT ![a] = "none"]
            \/ /\ count[a] = 1
               /\ RestorationFails(a)
               /\ UNCHANGED entry

-----------------------------------------------------------------------------
(* Launch, under launchMutex_.                                             *)

\* Mutant: Configure does not lock launchMutex_.
TakeLaunchMutexUnlessConfiguring(w) ==
    /\ pc[w] \in {"lock", "configure"}
    /\ IF pc[w] = "lock" THEN launchMutex = Nobody /\ launchMutex' = w
                         ELSE UNCHANGED launchMutex
    /\ Goto(w, IF pc[w] = "lock" THEN "reset" ELSE "manage")
    /\ UNCHANGED <<request, client, child, lease, sessionVars, stray, registryVars, service>>

TakeLaunchMutex(w) ==
    /\ pc[w] \in {"lock", "configure"}
    /\ launchMutex = Nobody
    /\ launchMutex' = w
    /\ Goto(w, IF pc[w] = "lock" THEN "reset" ELSE "manage")
    /\ UNCHANGED <<request, client, child, lease, sessionVars, stray, registryVars, service>>

\* A fresh password is generated and set, unless the account is not (or no
\* longer) the enrolled one, or Windows refuses.
ResetPassword(w) ==
    /\ pc[w] = "reset"
    /\ \/ /\ Account(w) \in osAccount
          /\ record[Account(w)] = "matching"
          /\ password' = [password EXCEPT ![Account(w)] = w]
          /\ Goto(w, "logon")
       \/ /\ UNCHANGED password
          /\ Goto(w, "unreserve")
    /\ UNCHANGED <<request, client, child, lease, launchMutex, sessionVars, stray,
                   osAccount, record, service>>

\* LogonUser accepts only the password the account has now.
LogOn(w) ==
    /\ pc[w] = "logon"
    /\ \/ /\ Account(w) \in osAccount
          /\ password[Account(w)] = w
          /\ Goto(w, IF Interactive(w) THEN "lease" ELSE "scope")
       \/ Goto(w, "unreserve")
    /\ UNCHANGED <<request, client, child, lease, launchMutex, sessionVars, stray,
                   registryVars, service>>

\* The launcher's coordinator grants the desktop lease or the acquisition fails.
AcquireLease(w) ==
    /\ pc[w] = "lease"
    /\ \/ /\ lease' = [lease EXCEPT ![w] = TRUE]
          /\ Goto(w, "scope")
       \/ /\ UNCHANGED lease
          /\ Goto(w, "unreserve")
    /\ UNCHANGED <<request, client, child, launchMutex, sessionVars, stray,
                   registryVars, service>>

\* Mutant: a failed preparation takes away what is in place, whoever runs under it.
EnsureScopeRollsBack(w) ==
    LET a == Account(w) IN
    /\ pc[w] = "scope"
    /\ \/ /\ denials' = IF request[w].restrict THEN [denials EXCEPT ![a] = "full"]
                                               ELSE denials
          /\ Goto(w, "spawn")
       \/ /\ request[w].restrict
          /\ denials' = [denials EXCEPT ![a] = "none"]
          /\ Goto(w, "failLaunch")
    /\ UNCHANGED <<request, client, child, lease, launchMutex, count, entry,
                   sessionCount, stray, registryVars, service>>

\* BrokerReadScope::Ensure, when access is restricted.  A failure keeps what it had put
\* in place, which may be all; a scope already complete stays complete.
EnsureScope(w) ==
    LET a == Account(w) IN
    /\ pc[w] = "scope"
    /\ \/ /\ denials' = IF request[w].restrict THEN [denials EXCEPT ![a] = "full"]
                                               ELSE denials
          /\ Goto(w, "spawn")
       \/ /\ request[w].restrict
          /\ \E left \in IF denials[a] = "full" THEN {"full"} ELSE {"none", "partial", "full"} :
                denials' = [denials EXCEPT ![a] = left]
          /\ Goto(w, "failLaunch")
    /\ UNCHANGED <<request, client, child, lease, launchMutex, count, entry,
                   sessionCount, stray, registryVars, service>>

\* CreateProcessAsUser, suspended and in the job; on failure nothing is left.
Spawn(w) ==
    /\ pc[w] = "spawn"
    /\ \/ /\ child' = [child EXCEPT ![w] = "suspended"]
          /\ Goto(w, "verify")
       \/ /\ UNCHANGED child
          /\ Goto(w, "failLaunch")
    /\ UNCHANGED <<request, client, lease, launchMutex, sessionVars, stray,
                   registryVars, service>>

\* The child must not share the caller's logon SID.
VerifyChild(w) ==
    /\ pc[w] = "verify"
    /\ \/ Goto(w, "resume")
       \/ Goto(w, "failLaunch")
    /\ UNCHANGED <<request, client, child, lease, launchMutex, sessionVars, stray,
                   registryVars, service>>

\* Mutant: launchMutex_ stays locked for as long as the session runs.
ResumeLocked(w) ==
    /\ pc[w] = "resume"
    /\ child' = [child EXCEPT ![w] = "running"]
    /\ Goto(w, "reply")
    /\ UNCHANGED <<request, client, lease, launchMutex, sessionVars, stray, registryVars,
                   service>>

\* Launch returns: the lease moves to the session and launchMutex_ is unlocked.
Resume(w) ==
    /\ pc[w] = "resume"
    /\ \/ /\ child' = [child EXCEPT ![w] = "running"]
          /\ launchMutex' = Nobody
          /\ Goto(w, "reply")
       \/ /\ UNCHANGED <<child, launchMutex>>
          /\ Goto(w, "failResume")
    /\ UNCHANGED <<request, client, lease, sessionVars, stray, registryVars, service>>

-----------------------------------------------------------------------------
(* A failed launch: kill the tree, then free the slot, then the mutex.     *)

KillFailedLaunch(w) ==
    /\ pc[w] \in {"failLaunch", "failResume"}
    /\ child[w] = "suspended"
    /\ child' = [child EXCEPT ![w] = "dying"]
    /\ UNCHANGED <<workerVars, lease, launchMutex, sessionVars, stray, registryVars, service>>

\* LaunchBrokerInteractiveProcess releases its own lease; after a failed resume
\* the lease is a local of Launch and outlives ReleaseSession.
FailedLaunchGone(w) ==
    /\ pc[w] \in {"failLaunch", "failResume"}
    /\ child[w] \in {"none", "exited"}
    /\ child' = [child EXCEPT ![w] = "none"]
    /\ lease' = [lease EXCEPT ![w] = @ /\ pc[w] = "failResume"]
    /\ Goto(w, "unreserve")
    /\ UNCHANGED <<request, client, launchMutex, sessionVars, stray, registryVars, service>>

Unreserve(w) ==
    /\ pc[w] = "unreserve"
    /\ ReleaseSession(Account(w))
    /\ lease' = [lease EXCEPT ![w] = FALSE]
    /\ launchMutex' = Nobody
    /\ EndRequest(w)
    /\ UNCHANGED <<child, stray, registryVars, service>>

-----------------------------------------------------------------------------
(* Serving an admitted session and tearing it down.                        *)

\* The launch response is written, or the client or the service is gone (or the
\* write timed out) and the session is torn down at once.
Reply(w) ==
    /\ pc[w] = "reply"
    /\ \/ /\ client[w]
          /\ Goto(w, "serve")
       \/ Goto(w, "teardown")
    /\ UNCHANGED <<request, client, child, lease, launchMutex, sessionVars, stray,
                   registryVars, service>>

\* Mutant: the stop event is not among the handles waited for.
ServingEndsUnstopped(w) ==
    \/ Interactive(w) /\ child[w] = "exited"
    \/ ~Interactive(w) /\ (child[w] \in {"hostExited", "exited"} \/ ~client[w])

\* Mutant: the control connection is not among the handles waited for.
ServingEndsDetached(w) ==
    \/ Stopping
    \/ Interactive(w) /\ child[w] = "exited"
    \/ ~Interactive(w) /\ child[w] \in {"hostExited", "exited"}

\* Console: the dead-man switch, waiting for the stop event, the console host and
\* the client.  Interactive: the whole detached tree, whatever the client does.
ServingEnds(w) ==
    \/ Stopping
    \/ Interactive(w) /\ child[w] = "exited"
    \/ ~Interactive(w) /\ child[w] \in {"hostExited", "exited"}
    \/ ~Interactive(w) /\ ~client[w]

StopServing(w) ==
    /\ pc[w] = "serve"
    /\ ServingEnds(w)
    /\ Goto(w, "teardown")
    /\ UNCHANGED <<request, client, child, lease, launchMutex, sessionVars, stray,
                   registryVars, service>>

\* TerminateJobObject.
Teardown(w) ==
    /\ pc[w] = "teardown"
    /\ child' = [child EXCEPT ![w] = IF @ = "exited" THEN "exited" ELSE "dying"]
    /\ Goto(w, "wait")
    /\ UNCHANGED <<request, client, lease, launchMutex, sessionVars, stray,
                   registryVars, service>>

\* Mutant: an unconfirmed tree is given up, and the session finished.
TeardownUnconfirmedFinishes(w) ==
    /\ pc[w] = "wait"
    /\ Goto(w, "finish")
    /\ UNCHANGED <<request, client, child, lease, launchMutex, sessionVars, stray,
                   registryVars, service>>

\* Mutant: FinishSession(false) releases the session, and FinishSession(true) again.
TeardownUnconfirmedReleases(w) ==
    /\ pc[w] = "wait"
    /\ ReleaseSession(Account(w))
    /\ Goto(w, "confirm")
    /\ UNCHANGED <<request, client, child, lease, launchMutex, stray, registryVars, service>>

\* The tree outlived the termination timeout or the job query failed:
\* FinishSession(false) only audits, and the worker keeps the job, the lease and
\* the slot while it terminates and asks again.
TeardownUnconfirmed(w) ==
    /\ pc[w] = "wait"
    /\ Goto(w, "confirm")
    /\ UNCHANGED <<request, client, child, lease, launchMutex, sessionVars, stray,
                   registryVars, service>>

TreeConfirmedGone(w) ==
    /\ pc[w] \in {"wait", "confirm"}
    /\ child[w] = "exited"
    /\ child' = [child EXCEPT ![w] = "none"]
    /\ Goto(w, "finish")
    /\ UNCHANGED <<request, client, lease, launchMutex, sessionVars, stray,
                   registryVars, service>>

\* FinishSession(true), first half: ask the coordinator to release and drop the
\* connection whatever it answers.
ReleaseLease(w) ==
    /\ pc[w] = "finish"
    /\ lease' = [lease EXCEPT ![w] = FALSE]
    /\ Goto(w, "release")
    /\ UNCHANGED <<request, client, child, launchMutex, sessionVars, stray,
                   registryVars, service>>

\* FinishSession(true), second half; then the worker ends.
FinishSession(w) ==
    /\ pc[w] = "release"
    /\ ReleaseSession(Account(w))
    /\ EndRequest(w)
    /\ UNCHANGED <<child, lease, launchMutex, stray, registryVars, service>>

-----------------------------------------------------------------------------
(* Configure, under launchMutex_.                                          *)

\* The registry's outcomes; each may also fail and change nothing, and Create and
\* TakeOver may fail to store the record of the account they made or reset.
RegistryChange(op, a) ==
    \/ UNCHANGED registryVars
    \/ /\ op = "create"
       /\ a \notin osAccount
       /\ record[a] = "none"
       /\ osAccount' = osAccount \cup {a}
       /\ \E stored \in {"none", "matching"} : record' = [record EXCEPT ![a] = stored]
       /\ password' = [password EXCEPT ![a] = Nobody]
    \/ /\ op = "takeOver"                         \* forced: creates a missing account
       /\ osAccount' = osAccount \cup {a}
       /\ \E stored \in {IF a \in osAccount \/ record[a] = "none" THEN record[a] ELSE "stale",
                         "matching"} :
             record' = [record EXCEPT ![a] = stored]
       /\ password' = [password EXCEPT ![a] = Nobody]
    \/ /\ op = "forget"
       /\ record' = [record EXCEPT ![a] = "none"]
       /\ UNCHANGED <<osAccount, password>>

Manage(w) ==
    /\ pc[w] = "manage"
    /\ request[w].op # "delete"
    /\ RegistryChange(request[w].op, Account(w))
    /\ launchMutex' = Nobody
    /\ EndRequest(w)
    /\ UNCHANGED <<child, lease, sessionVars, stray, service>>

\* Mutant: Delete does not ask HasActiveSession.
CheckDeleteUnasked(w) ==
    /\ pc[w] = "manage"
    /\ request[w].op = "delete"
    /\ Goto(w, "delete")
    /\ UNCHANGED <<request, client, child, lease, launchMutex, sessionVars, stray,
                   registryVars, service>>

\* HasActiveSession is asked once; sessionMutex_ is free again afterwards.
CheckDelete(w) ==
    /\ pc[w] = "manage"
    /\ request[w].op = "delete"
    /\ \/ /\ entry[Account(w)] # "absent"
          /\ launchMutex' = Nobody
          /\ EndRequest(w)
       \/ /\ entry[Account(w)] = "absent"
          /\ Goto(w, "delete")
          /\ UNCHANGED <<request, client, launchMutex>>
    /\ UNCHANGED <<child, lease, sessionVars, stray, registryVars, service>>

\* NetUserDel for a matching record, then the record; either may fail.
DeleteAccount(w) ==
    LET a == Account(w) IN
    /\ pc[w] = "delete"
    /\ \/ UNCHANGED <<osAccount, record>>
       \/ /\ record[a] = "matching" \/ (record[a] = "stale" /\ a \notin osAccount)
          /\ osAccount' = osAccount \ {a}
          /\ \E left \in {record[a], "none"} : record' = [record EXCEPT ![a] = left]
    /\ launchMutex' = Nobody
    /\ EndRequest(w)
    /\ UNCHANGED <<child, lease, sessionVars, stray, password, service>>

-----------------------------------------------------------------------------
(* The environment: process trees, clients, the service control manager.   *)

\* The root process ends on its own, alone or with its whole tree; the rest of
\* a tree ends later; a terminated job empties.
TreeShrinks(w) ==
    /\ \/ child[w] = "running" /\ \E left \in {"hostExited", "exited"} :
                                     child' = [child EXCEPT ![w] = left]
       \/ child[w] \in {"hostExited", "dying"} /\ child' = [child EXCEPT ![w] = "exited"]
    /\ UNCHANGED <<workerVars, lease, launchMutex, sessionVars, stray, registryVars, service>>

\* The client closes the connection, or writes to it, which ends a session just so.
ClientDisconnects(w) ==
    /\ client[w]
    /\ client' = [client EXCEPT ![w] = FALSE]
    /\ UNCHANGED <<pc, request, child, lease, launchMutex, sessionVars, stray,
                   registryVars, service>>

\* SERVICE_CONTROL_STOP, the idle timeout, or any other end of the listener loop: with a
\* pipe still on offer, or with none.
StopService ==
    /\ service = "running"
    /\ service' \in {"stopping", "joining"}
    /\ UNCHANGED <<workerVars, child, lease, launchMutex, sessionVars, stray, registryVars>>

\* JoinWorkers has returned.  BrokerApplication is destroyed: every scope that is
\* still registered tries Restore() once more, and what it leaves is forgotten.
ServiceExits ==
    /\ Stopping
    /\ \A w \in Workers : pc[w] = "idle"
    /\ service' = "exited"
    /\ \E lost \in SUBSET {a \in Accounts : denials[a] # "none"} : stray' = stray \cup lost
    /\ denials' = [a \in Accounts |-> "none"]
    /\ entry' = [a \in Accounts |-> "absent"]
    /\ count' = [a \in Accounts |-> 0]
    /\ sessionCount' = 0
    /\ UNCHANGED <<workerVars, child, lease, launchMutex, registryVars>>

DemandStart ==
    /\ service = "exited"
    /\ service' = "running"
    /\ UNCHANGED <<workerVars, child, lease, launchMutex, sessionVars, stray, registryVars>>

-----------------------------------------------------------------------------
WorkerStep(w) ==
    \/ \E r \in Requests : ReadRequest(w, r)
    \/ RejectRequest(w)
    \/ Admit(w) \/ Refuse(w) \/ TakeLaunchMutex(w) \/ ResetPassword(w) \/ LogOn(w)
    \/ AcquireLease(w) \/ EnsureScope(w) \/ Spawn(w) \/ VerifyChild(w) \/ Resume(w)
    \/ KillFailedLaunch(w) \/ FailedLaunchGone(w) \/ Unreserve(w)
    \/ Reply(w) \/ StopServing(w) \/ Teardown(w) \/ TeardownUnconfirmed(w)
    \/ TreeConfirmedGone(w) \/ ReleaseLease(w) \/ FinishSession(w)
    \/ Manage(w) \/ CheckDelete(w) \/ DeleteAccount(w)

Next ==
    \/ \E w \in Workers :
          \/ Accept(w)
          \/ WorkerStep(w)
          \/ TreeShrinks(w)
          \/ ClientDisconnects(w)
    \/ StopService
    \/ ServiceExits
    \/ DemandStart

Spec == Init /\ [][Next]_vars

\* The launcher's coordinator has no deadline to answer a lease request.
AwaitsCoordinator(w) == Interactive(w) /\ pc[w] \in {"lease", "finish"}

\* Threads are scheduled, Windows empties a terminated job, and a stop completes
\* once every worker was joined.  Nothing else is promised: programs may run,
\* clients stay connected and coordinators stay silent forever.
Fairness ==
    /\ \A w \in Workers : WF_vars(~AwaitsCoordinator(w) /\ WorkerStep(w))
    /\ \A w \in Workers : WF_vars(child[w] = "dying" /\ TreeShrinks(w))
    /\ WF_vars(ServiceExits)

FairSpec == Spec /\ Fairness
-----------------------------------------------------------------------------
(* Properties.                                                             *)

Admitted == {w \in Workers : pc[w] \in ReservedSteps}
Holders(a) == {w \in Admitted : Account(w) = a}

\* Every variable keeps its shape, and a busy worker serves a real request.
TypeOK ==
    /\ pc \in [Workers -> Steps]
    /\ request \in [Workers -> Requests \cup {NoRequest}]
    /\ \A w \in Workers : pc[w] \notin {"idle", "read"} => request[w] \in Requests
    /\ client \in [Workers -> BOOLEAN]
    /\ child \in [Workers -> {"none", "suspended", "running", "hostExited", "dying", "exited"}]
    /\ lease \in [Workers -> BOOLEAN]
    /\ launchMutex \in Workers \cup {Nobody}
    /\ count \in [Accounts -> Nat]
    /\ entry \in [Accounts -> {"absent", "plain", "scoped"}]
    /\ sessionCount \in Nat
    /\ denials \in [Accounts -> {"none", "partial", "full"}]
    /\ stray \in SUBSET Accounts
    /\ osAccount \in SUBSET Accounts
    /\ record \in [Accounts -> Records]
    /\ password \in [Accounts -> Workers \cup {Nobody}]
    /\ service \in {"running", "stopping", "joining", "exited"}

\* However admissions, failed launches and teardowns interleave, the sessions
\* really admitted never exceed the global or the per-account limit that
\* TryReserveSession tests on its own counters.
SessionLimits ==
    /\ Cardinality(Admitted) <= MaxSessions
    /\ \A a \in Accounts : Cardinality(Holders(a)) <= MaxPerAccount

\* A restricted program exists only under its account's complete denials, and an
\* unrestricted one only while the account's scope denies nothing: sessions of the
\* two kinds, failed preparations and failed restorations never mix.
ConfinementMatchesRequest ==
    \A w \in Workers : TreeAlive(w) =>
        denials[Account(w)] = IF request[w].restrict THEN "full" ELSE "none"

\* ACEs that a scope has placed stay registered with the account until they are
\* gone, whichever launch failed and whichever restoration failed.
NoForgottenDenials ==
    \A a \in Accounts : denials[a] # "none" => entry[a] = "scoped"

\* A process tree outlives neither its session slot nor, for an interactive one,
\* the broker's hold on the desktop lease, on any failure or teardown path.
SlotAndLeaseOutliveTree ==
    \A w \in Workers : TreeAlive(w) =>
        /\ pc[w] \in ReservedSteps
        /\ Interactive(w) => lease[w]

\* Delete never removes a Windows account under a live process tree, although it
\* asks for active sessions once and sessions are reserved without launchMutex_.
AccountOutlivesTree ==
    \A w \in Workers : TreeAlive(w) => Account(w) \in osAccount

\* The password a launch logs on with is the one it has just set: no concurrent
\* launch, take-over or deletion replaces it between the reset and the logon.
LogonUsesOwnPassword ==
    \A w \in Workers : pc[w] = "logon" =>
        /\ Account(w) \in osAccount
        /\ password[Account(w)] = w

\* The account's scope stays reserved until its ACEs are gone, for as long as the
\* system runs: no ACE is left that no scope remembers.
NoStrayDenials == stray = {}

\* A stop requested at any moment, in the middle of any launch or teardown, ends with every
\* worker joined, the one that is dispatched after it included.
StopCompletes == Stopping ~> service = "exited"

\* The dead-man switch: a console session whose client is gone gives its slot back.
DeadManSwitch ==
    \A w \in Workers :
        (pc[w] = "serve" /\ ~Interactive(w) /\ ~client[w]) ~> (pc[w] = "idle")

\* launchMutex_ is never held forever by a request that needs no desktop lease.
LaunchMutexIsReleased ==
    \A w \in Workers : launchMutex = w ~> launchMutex # w

\* The slot a worker holds, as SessionSlots sees it, and the trees it sees.
SlotOf == [w \in Workers |-> IF pc[w] \in ReservedSteps
                             THEN [account |-> Account(w), restrict |-> request[w].restrict]
                             ELSE [free |-> TRUE]]
LiveTrees == {w \in Workers : TreeAlive(w)}

Discipline == INSTANCE SessionSlots WITH slot <- SlotOf, alive <- LiveTrees

\* Every step of the broker is a step of SessionSlots or changes no slot and no tree.
ImplementsSlots == Discipline!SlotSpec

\* Where a worker's session stands with respect to the read scope of account a, as
\* ScopeContract sees it.
StageAt(step) ==
    IF step \in {"lock", "reset", "logon", "lease"} THEN "admitted"
    ELSE IF step = "scope" THEN "ensuring"
    ELSE IF step \in {"failLaunch", "failResume", "unreserve"} THEN "leaving"
    ELSE "running"
Uses(w, a) == pc[w] \in ReservedSteps /\ Account(w) = a /\ request[w].restrict
StageOf(a) == [w \in Workers |-> IF Uses(w, a) THEN StageAt(pc[w]) ELSE "out"]

Scope(a) == INSTANCE ScopeContract WITH Sessions <- Workers, stage <- StageOf(a),
                                        inPlace <- denials[a]

\* What the broker takes its read scopes to do is, for every account, what ScopeContract
\* promises and BrokerReadScope implements: it never restores a scope in use, never lets
\* two launches prepare one, and starts no program under an incomplete one.
ImplementsScopes ==
    /\ \A a \in Accounts : Scope(a)!ContractInit
    /\ [][\A a \in Accounts : UNCHANGED Scope(a)!contractVars \/ Scope(a)!ContractNext]_vars

\* Where a worker stands with the desktop lease, as LeaseContract sees it.
LeaseStageAt(step) ==
    IF step \in {"reset", "logon", "lease", "unreserve"} THEN "launching"
    ELSE IF step \in {"scope", "spawn", "verify", "resume", "failLaunch", "failResume"}
    THEN "granted"
    ELSE IF step \in {"reply", "serve", "teardown", "wait", "confirm", "finish"}
    THEN "running" ELSE "out"
LeaseStageOf(w) == IF Interactive(w) THEN LeaseStageAt(pc[w]) ELSE "out"
LeaseStage == [w \in Workers |-> LeaseStageOf(w)]
HasLease == {w \in Workers : lease[w]}

Leases == INSTANCE LeaseContract WITH Sessions <- Workers, stage <- LeaseStage,
                                      open <- HasLease

\* The broker deals with desktop leases as LeaseContract says and DesktopLease implements: one
\* launch at a time asks for one, and whatever is left of an interactive program's tree is
\* left in the stages in which the contract keeps the desktop open to it.
KeepsLeases ==
    /\ Leases!LeaseSpec
    /\ [](\A w \in Workers : TreeAlive(w) /\ Interactive(w) => w \in Leases!Held)

\* A run of the service as BrokerLifecycle sees it: a worker is busy from its dispatch to the
\* end of its thread, and there are threads for all of Workers.
Phase == CASE service = "running"  -> "up"
           [] service = "stopping" -> "ending"
           [] service = "joining"  -> "closed"
           [] OTHER                -> "down"
Busy == {w \in Workers : pc[w] # "idle"}

Lifecycle == INSTANCE BrokerLifecycle WITH MaxWorkers <- Cardinality(Workers),
                                           phase <- Phase, busy <- Busy

\* The broker keeps to the life of the service that ControlPipeListener implements.
KeepsLifecycle == Lifecycle!LifecycleSpec
-----------------------------------------------------------------------------
(* The inductive strengthening of the safety properties.                   *)

\* The counters of the map are the sessions really admitted, within the limits.
CountersMatch ==
    /\ sessionCount = Cardinality(Admitted)
    /\ sessionCount <= MaxSessions
    /\ \A a \in Accounts : /\ count[a] = Cardinality(Holders(a))
                           /\ count[a] <= MaxPerAccount

\* A map entry has the mode of the sessions admitted under it.
EntryMatchesSessions ==
    /\ \A w \in Admitted :
          entry[Account(w)] = IF request[w].restrict THEN "scoped" ELSE "plain"
    /\ \A a \in Accounts : entry[a] = "absent" => count[a] = 0

\* Which process tree a worker may have at which step.
TreeFollowsStep ==
    \A w \in Workers :
        /\ pc[w] \in {"verify", "resume"} => child[w] = "suspended"
        /\ pc[w] \in {"failLaunch", "failResume"} =>
              child[w] \in {"none", "suspended", "dying", "exited"}
        /\ pc[w] \in {"reply", "serve", "teardown"} =>
              child[w] \in {"running", "hostExited", "exited"}
        /\ pc[w] \in {"wait", "confirm"} => child[w] \in {"dying", "exited"}
        /\ pc[w] \notin {"verify", "resume", "failLaunch", "failResume", "reply", "serve",
                         "teardown", "wait", "confirm"} => child[w] = "none"

LeaseSteps == {"scope", "spawn", "verify", "resume", "failLaunch", "failResume",
               "reply", "serve", "teardown", "wait", "confirm", "finish"}
LeaseFollowsStep ==
    \A w \in Workers : pc[w] \in LeaseSteps /\ Interactive(w) => lease[w]

MutexFollowsStep ==
    \A w \in Workers : launchMutex = w <=> pc[w] \in LaunchSteps \cup ConfigureSteps

\* From the moment its scope is complete until its tree is gone, a restricted
\* session keeps its account's denials complete.
DenialsFollowStep ==
    \A w \in Workers :
        /\ pc[w] \in {"spawn", "verify", "resume", "reply", "serve", "teardown", "wait",
                      "confirm"} \/ child[w] # "none"
        /\ request[w].restrict
        => denials[Account(w)] = "full"

\* Once logged on, the account is there until the session ends; a worker about to
\* delete an account shares it at most with a launch still waiting for the mutex.
AccountFollowsStep ==
    /\ \A w \in Workers :
          pc[w] \in ReservedSteps \ {"lock", "reset", "unreserve", "finish", "release"} =>
              Account(w) \in osAccount
    /\ \A v \in Workers : pc[v] = "delete" =>
          \A w \in Holders(Account(v)) : pc[w] = "lock"

\* What every step of the broker preserves, and what the safety properties follow from.
SessionInvariant ==
    /\ TypeOK
    /\ CountersMatch
    /\ EntryMatchesSessions
    /\ NoForgottenDenials
    /\ TreeFollowsStep
    /\ LeaseFollowsStep
    /\ MutexFollowsStep
    /\ DenialsFollowStep
    /\ AccountFollowsStep
    /\ LogonUsesOwnPassword

-----------------------------------------------------------------------------
(* Progress: what the liveness properties rest on, and what is proved of   *)
(* them for any number of workers.                                         *)

\* The steps a worker has left until its thread ends, if none of them fails early.
StepsLeft ==
    [idle |-> 0, release |-> 1, finish |-> 2, confirm |-> 3, wait |-> 4, teardown |-> 5,
     serve |-> 6, reply |-> 7, unreserve |-> 8, failLaunch |-> 9, failResume |-> 9,
     resume |-> 10, verify |-> 11, spawn |-> 12, scope |-> 13, lease |-> 14, logon |-> 15,
     reset |-> 16, lock |-> 17, reserve |-> 18, read |-> 19, delete |-> 1, manage |-> 2,
     configure |-> 3]

\* Killing a failed launch's suspended child is a step that stays where it is.
Left(w) == 2 * StepsLeft[pc[w]] + IF child[w] = "suspended" THEN 1 ELSE 0

\* No request keeps its worker for ever by what the worker does: each of its steps brings it
\* nearer its end, repeated terminations and failed launches included, and nobody else's step
\* takes it back.
RequestsRunOut ==
    [][\A w \in Workers : pc[w] # "idle" =>
          /\ Left(w)' <= Left(w)
          /\ WorkerStep(w) => Left(w)' < Left(w)]_vars

\* A worker that waits for nobody: its next step is possible.
CanStep(w) ==
    \/ pc[w] \in {"read", "reserve", "reset", "logon", "lease", "scope", "spawn", "verify",
                  "resume", "unreserve", "reply", "teardown", "wait", "finish", "release",
                  "manage", "delete"}
    \/ pc[w] \in {"lock", "configure"} /\ launchMutex = Nobody
    \/ pc[w] \in {"failLaunch", "failResume"} /\ child[w] \in {"none", "suspended", "exited"}
    \/ pc[w] = "serve" /\ ServingEnds(w)
    \/ pc[w] = "confirm" /\ child[w] = "exited"

\* Windows has still to empty a terminated job for this worker.
AwaitsTree(w) == pc[w] \in {"failLaunch", "failResume", "confirm"} /\ child[w] = "dying"

\* Workers wait for launchMutex_, for a tree that was killed, or for the end of a session they
\* serve, and for nothing else; whoever has launchMutex_ does not wait for another worker; and
\* once the service is stopping no worker waits for its client or its program (the waits of
\* Launch and Configure, TerminateAndWaitForExitConfirmed, WaitForBrokerChildExit).
WaitsAreBounded ==
    /\ \A w \in Workers : pc[w] # "idle" =>
          \/ CanStep(w) \/ AwaitsTree(w)
          \/ pc[w] \in {"lock", "configure"} /\ launchMutex # Nobody
          \/ pc[w] = "serve" /\ ~Stopping /\ TreeAlive(w)
    /\ launchMutex # Nobody => CanStep(launchMutex) \/ AwaitsTree(launchMutex)

\* A stop never hangs, however many workers are launching, serving, confirming and waiting for
\* one another when it comes: one of them can go on, or waits for a killed tree.
StopNeverHangs ==
    Stopping /\ (\E w \in Workers : pc[w] # "idle") =>
        \E w \in Workers : CanStep(w) \/ AwaitsTree(w)
=============================================================================
