# A verification project for launch-as

launch-as starts programs as managed local Windows accounts. A LocalSystem
service, the *broker*, listens on a named control pipe; the launcher asks it to
create a process under an account, confined to a job, with optional temporary
ACL restrictions ("restricted access"), either behind a pseudoconsole
(*console*) or on the caller's desktop (*interactive*). An elevated tool manages
the accounts.

This directory holds TLA+ modules translated from the source under
`src/src/`, the TLC configurations that check them and machine-checked proofs.
`PROJECT.json` maps every definition to the lines it models.

## Inventory

| Component | State | Operations | Talks to |
|---|---|---|---|
| Session core (`BrokerApplication`) | sessions per account and in total, each account's read scope, `launchMutex_`, `sessionMutex_` | Launch, Configure, FinishSession | all of the broker below |
| Pipe worker (`BrokerPipeServer`) | one request, one session | authenticate, parse, serve, tear down | client (pipe), core (callbacks), job, stop event |
| Listener and service (`BrokerControlPipeListener`, `BrokerServiceRuntime`) | worker pool of 8, pending pipe, stop event | accept, dispatch, reap, idle exit, stop, join | clients, service control manager |
| Demand start (`BrokerControlPipe`) | a deadline, whether a start was asked | open the pipe, start the service | listener, service control manager |
| Process launcher | job, suspended process | create, verify, resume, terminate, confirm empty | Windows |
| Read scope | ledger of ACEs added per object | Ensure, Restore | file and object ACLs, audit |
| Logon, password | none that lasts | reset password, log on, filter token | Windows accounts |
| Registration, provisioner, enrollment store | enrollment records, integrity key, Windows accounts | create, take over, forget, delete, list, reset | files, NetUser API |
| Desktop lease client | lease connection per session | acquire, release | launcher's coordinator (pipe) |
| Lease coordinator, ACL lease | three desktop objects' ACLs, a machine-wide mutation lock | grant, revoke, roll back | broker, other launchers |
| Launcher | control connection, log | run console, run interactive | broker, terminal bridge |
| Terminal bridge, pseudoconsole host | relay pipes, sizes, threads | relay, resize, drain, stop | user's console, child |
| Administration tool | service registration, files | install, uninstall, manage | service control manager, broker |
| Protocol, policy, audit, write scope, AppContainer | none shared | parse, format, load, log, grant | |

What is hard: eight workers run Launch and Configure against each other, two
mutexes, the service's stop and the client's disconnection; a launch holds
`launchMutex_` through a dozen Win32 calls, each of which may fail with
something to undo; scopes are shared by the sessions of an account and their
restoration may fail; process trees may outlive the termination timeout; the
launcher, a different process, must answer the broker while it waits for it;
and the service exits and is started again by itself.

What makes each part right:

- *Session core.* Limits hold; restricted and unrestricted programs of an account
  never mix; nothing is released before the process tree is gone; ACEs are
  never forgotten; an account is not deleted under a program; a launch logs on
  with its own password; every failure path undoes exactly what was done.
- *Listener.* The pool bound holds and a full pool only delays clients; no worker
  outlives the service; an idle exit loses no client.
- *Desktop lease.* The three objects carry exactly the ACEs of the live leases;
  release happens once, whoever ends first; broker and launcher never wait for
  each other for good.
- *Read scope.* A program is confined at every moment, also while a later launch
  widens the scope or fails to; it keeps the roots it was given; after a full
  restoration every object has its original ACL, whatever failed before.
- *Registration.* Only the account a trusted record names is reset or deleted;
  whatever a failure or a crash leaves, a later request can repair.
- *Relays.* Output is shown in order and completely before an exit code is
  returned; a session ends when its target has; sizes arrive.
- *Installation.* What reports success is complete, what failed can be repeated,
  an update changes no caller.

## Modules

| Module | Models | Checked by | Proved in |
|---|---|---|---|
| `SessionSlots` | abstract: slots, limits, one access mode per account, trees only inside slots | as a property of `BrokerSessions` | `BrokerSessionsProofs` |
| `ScopeContract` | abstract: what a read scope promises to the sessions that share it | as a property of `ReadScope` and of `BrokerSessions` | `ReadScopeProofs`, `BrokerSessionsProofs` |
| `LeaseContract` | abstract: a program runs only on a desktop that stays open to its logon | TLC, beside the runs | `DesktopLeaseProofs`, `BrokerSessionsProofs` |
| `BrokerSessions` | `BrokerApplication` driven by `ServeControlPipeRequest` | `Shared`, `Live`, `Exit` | `BrokerSessionsProofs` |
| `BrokerLifecycle` | abstract: a run of the service takes requests, never too many, at most one more once its end has begun, and ends after the last | as a property of `ControlPipeListener` | `ControlPipeListenerProofs`, `BrokerSessionsProofs` |
| `ControlPipeListener` | `RunBrokerControlPipeListener`, `ServiceMain`, `OpenBrokerControlPipe` | `Listener`, `FullPool`, `DemandStart` | `ControlPipeListenerProofs` |
| `DesktopLease` | `RunBrokerInteractive`, the lease coordinator, `InteractiveDesktopAclLease`, the lease client | `Leases`, `LeaseStop` | `DesktopLeaseProofs` |
| `ReadScope` | `BrokerReadScope` under the sessions that share it | `ReadScope` | `ReadScopeProofs` |
| `AccountRegistry` | `RegistrationService`, `BrokerAccountProvisioner.cpp`, `EnrollmentStore` | `Registry` | `AccountRegistryProofs` |
| `ServiceInstaller` | `InstallBrokerService`, `UninstallBrokerService`, the caller policy's file | `Installer` | `ServiceInstallerProofs` |
| `TerminalRelay` | `TerminalBridge` in the launcher, `PseudoConsoleSession` and `RunPseudoConsoleHost` behind it | `TerminalRelay` | `TerminalRelayProofs`, `TerminalRelayProgress` |

The detailed modules cut the system at its protocols. `BrokerSessions` takes the
listener for granted (a connection is accepted while the service runs, and at most one
more after the stop event is set), each exchange with a coordinator as one step
(`DesktopLease`), of the scope only how much is in place (`ReadScope`), and a
registration as its outcome (`AccountRegistry`). The first three cuts are proved to fit:
an abstract module says what the two sides may expect of each other, and both detailed
ones implement it (see "Where the modules meet" below). `ControlPipeListener` takes a
worker for granted (it completes once the stop event is set: `StopCompletes`).
`DesktopLease` has both processes of an interactive launch and `TerminalRelay` both of a
console launch; each repeats of the broker only what its exchange depends on.

### BrokerSessions

A worker's `pc` is its place in the code: `read` before `ReadRequest` and what
follows it up to the request's operation, `reserve` before `TryReserveSession`,
`lock` before `launchMutex_`, `reset`, `logon`, `lease`, `scope`, `spawn`,
`verify`, `resume` inside `Launch`; `reply` to `release` inside
`ServeControlPipeRequest` and `FinishSession`; `failLaunch`, `failResume` and
`unreserve` on the failure paths; `configure`, `manage`, `delete` in `Configure`.
A step runs to the next point where another thread, the process tree, the client
or a stop can be seen. `sessionMutex_` guards single steps and does not appear,
`launchMutex_` spans steps and does. `count`, `entry` and `sessionCount` are
`sessionsByAccount_` and `sessionCount_`, `denials` is what the account's
`BrokerReadScope` has in place, `stray` the ACEs no scope remembers any more.

Abstractions: a scope is absent, partly or completely in place; a further session's
widening of a shared scope keeps it complete or fails; only the broker changes
Windows accounts; `Unreserve` takes the release of the slot together with the return
that frees `launchMutex_`; the wait for the client to close its end is part of
ending the request; the destruction of the application is taken with the report that
the service has stopped. Launch never looks at the stop event, in the code and here,
and neither does a read that finds its request in the pipe: a worker dispatched
before a stop may begin its launch after it. So may the worker of one more client,
whose pipe was on offer when the stop event was set: `service` is `stopping` while
that client may still be dispatched and `joining` when no further one is.

### ControlPipeListener

`listener` is the place in the loop: join what has completed, wait for a slot,
create an instance, listen, dispatch, or after an idle timeout close and leave.
`pool` is the vector of workers and `worker` each thread, which signals its
completion before it closes its instance of the pipe, so that a slot of the pool
and an instance of the pipe are not free at the same moment. `service` is what the
manager knows, `client` a process that opens the pipe and may ask for one start.
The loop looks at the stop event before it waits, creates and listens, and not again
before it dispatches: `MayDispatch` names the steps from which a client may still come.

Time is abstract: a timeout may strike whenever its wait is pending, with two
exceptions that the code's constants justify. A service that is started offers its
pipe before the client's five seconds are over, and the listener's thirty seconds
outlast the five a client polls after its start was accepted.

### DesktopLease

A launch stands for its logon SID, which Windows gives to no other logon. `main`
is the launcher's main thread: it listens on the lease pipe, serves the broker's
acquire request object by object (`lock`, `write`, `verify`), answers, holds the
lease until the release request or the broker's end, removes the ACEs in the
reverse order, and joins the second thread. `job` tells an acquisition from its
rollback, a release and the destructor, which run the same code. `dacl` holds the
lease ACEs of each object, `seen` what a coordinator read of one under the lock
that `lock` stands for, `leased` what it believes to have added. `broker` is the
broker's worker, which holds `launchMutex_` from `launching` to the result.

The pipe carries one message at a time, so one slot is enough. A launcher that is
killed leaves its ACEs; one that comes to its end disconnects the pipe, which
discards what the broker has not read. A broker that crashes closes every pipe.
Other ACEs of the objects, and the fingerprint that compares them, are left out.

### ReadScope

One step is one object whose ACL is written. `dacl` is what an object carries of
the five kinds of ACE a scope writes, `First` what it carried before, `added` the
ledger's claim (`Entry`), `entries` and `held` the ledger's entries and their open
handles, `allowed` and `volumes` the members of the same names. `Begin` to
`Complete` are `Ensure`: the roots are committed first; each volume is walked from
its root, siblings are denied before an ancestor becomes traversable
(`VisitDenied`, `LeaveAncestor`), a directory that has become readable has the
entries below it released (`VisitReadable`, `Sweep`), and the namespace
directories are granted last. `Fail` and `EntryFails` may end it anywhere.

Abstractions: one account, since `readScopeMutex` serialises scopes and an ACE
belongs to one SID; the order of siblings and of volumes is left open, which
includes the code's; `Restore` is one step with any set of objects that keep their
ACEs, since `readScopeMutex` keeps every other scope away and no program of the
account runs during it; a directory tree does not change under a walk; a session
without a namespace is the case `Spaces = {}`.

### AccountRegistry

An operation is the sequence of its Windows calls: `op.at` names the next one.
`holder` is the account database, by SID, `record` the enrollment files with their
provenance and whether the machine key verifies them, `key` that key. Every call
may fail, the service may die before any step, and the administrator may delete,
create, disable and promote accounts at any time. `swapped` holds the accounts that an
administrator has put under a name since the operation under way, or the last one, has
begun; an earlier one stays in it only while a record names it.

Abstractions: operations run one at a time (`launchMutex_`); passwords and comments
have no content; a record of version 1, a truncated one and one signed with another
key are all unreadable; the key file is lost only while no operation runs; a record
is stored in one step, its rename, since the temporary file that a death before it
leaves is read by nobody and opened with `CREATE_ALWAYS` by the next write. Names share
nothing but the key, so one name with three accounts in turn shows everything, and
the theorems are for any set of names.

### ServiceInstaller

`at` is the next step of an installation or removal: `stop`, `wait`, `copy`,
`create`, `configure`, `secure`, `source`, `data`, `policy`, `write`, and `delete`,
`unregister`, `remove`. `service`, `doomed`, `config`, `starter` are the service
manager's record, `serving` the broker process, `lingering` one that has reported
STOPPED but not exited. A failing call and the administrator's interrupt are one
action, `Interrupt`, enabled at every step. `job.clear` says that nothing stood in
the way of a job when it began, `calm` that nothing has disturbed it since.

`RepairCompletes` and `UpdatesKeepCaller` say less than one may read into them. An
executable that is still in use after STOPPED, and the end of the job's own wait for
STOPPED, count as disturbances, so that `RepairCompletes` promises nothing to a job that
meets them. It asks for a policy and not for whose: after a first installation that
failed late, the retry takes itself for an update and keeps a policy left over from
before. `UpdatesKeepCaller` is about the policy only: the right to start the service
goes to whoever updates it.

Abstractions: one administrator's process at a time; the order of files is left
open; only the broker's own executable can be in use; the calls of
`ChangeServiceConfig` are one step; a service marked for deletion goes when the
last handle closes.

### TerminalRelay

`bridge` and `host` are the main threads of the launcher and of the pseudoconsole host,
`relay` their six relay threads, each in code, blocked in a read, or done. The pipes for
output and input hold at most `Capacity` frames or chunks, the one for sizes
`SizeCapacity` (16 KiB of `COORD` in the code), and a write to a full one waits;
`conOut` is what the pseudoconsole has written and the host has not read. A stop cancels
a blocked read once and joins the thread (`Cancelled`): a thread between two calls is
not reached. The output relay of the bridge cannot be missed, since its pipe is
disconnected besides (`GiveUpOutput`).

Abstractions: frames and chunks instead of bytes; a relay reads and writes in one
step, blocked until both ends are ready, so that a write of input into a full pipe is
part of the read, which a cancel ends as well; a grace period may be given up at any
time; window sizes are numbered in their order, their clamping is left out; a console's
input is read only when some is ready, although a key that is released or a change of
focus signals the handle, too, and the read then waits for the next character; typing
matters only while the terminal is raw, resizing only while the relay that polls for
sizes runs; the line with which the host asks for its identity is left out.

## Runs

| Run | Instance | What it shows |
|---|---|---|
| `Shared` | 1 account, 3 workers, 3 sessions in total, 2 per account | Restricted and unrestricted, console and interactive sessions race through every success and failure path, stops and restarts included; the inductive invariant and what follows from it hold, and `SessionSlots` and `ScopeContract` are kept. 1,379,000 states. |
| `Live` | 1 account, 2 workers, console launches and every management operation, fair | No live tree loses its account, no logon its password; a stop joins every worker, the dead-man switch works, the launch mutex comes free. 344,000 states. |
| `Exit` | 1 worker, 1 restricted session, fair | *Violated*: see finding 1. |
| `Listener` | 3 clients, 3 thread identities, pool of 2, every fault, fair | Room in the pool and one server for each client; the refinement of `BrokerLifecycle`, which lets in one client at most after a stop; a stop ends in a stopped service; a running service with a free slot offers its pipe again. 99,000 states. |
| `FullPool` | pool of 1, no fault | *Violated*: see finding 2. |
| `DemandStart` | 2 clients, no fault | *Violated*: see finding 3. |
| `Leases` | 2 launches, 2 objects, every fault, fair | Running programs keep their access, also when their launcher is killed, what stays behind is known, a confirmed release is complete; a launcher comes to its end; the launch mutex comes free unless a coordinator gave up. |
| `LeaseStop` | 1 launch, 2 objects, a stop and a coordinator that gives up, fair | *Violated*: see finding 4. |
| `ReadScope` | 2 sessions, 3 working directories, 9 folders on 2 volumes, 1 namespace directory, room for 9 entries | Confinement and reach of what runs, through every failed widening; first ACLs after a complete restoration; the refinement of `ScopeContract`. 386,000 states. |
| `Registry` | 1 name, 3 accounts in turn, every fault | Records name accounts that were provisioned; only the recorded account suffers; failures can be repaired; records that do not verify stay. 873,000 states. |
| `Installer` | 2 users, 2 packages of 2 files, every fault, fair | Successes are complete, failed jobs can be repeated, updates keep the caller, jobs end. |
| `TerminalRelay` | 2 frames, 1 chunk, 1 resize, pipes of 1, of 2 for sizes, every fault, fair | No frame is lost before an exit code, no target is terminated in its life, nobody waits in a circle and nothing repeats itself for ever, only a lost cancel blocks, the newest size is always on its way and arrives. 686,000 states. |

Why the bounds are enough to be interesting. Two sessions share an account's scope while
a third is refused, waits or manages the account; with three workers and a pool of two
the pool is full, partly free and being reaped at once; two objects are enough for the
second grant to fail after the first and for a rollback that fails in part; two launches
overlap at every step of one another's locking. The tree of `ReadScope` has a working
directory inside a readable root, one beside it, and one above another, a folder that
already denies the account, one the account owns, and a quota one short of the whole, so
that the walk overruns it. Three accounts under one name are the recorded one, its
successor, and one that comes in the middle of the operation. Two packages make an
update, and two users one by somebody else. Two frames and pipes of one keep a frame at
every place of the way while the threads stop. One resize never fills a pipe of two
sizes, as users never fill the code's of four thousand; with two resizes TLC fills it as
well and finds the same properties to hold (1,360,000 states, by hand). The code's own
sizes (8 workers, 4 and 2 sessions, 3 objects, 10'000 entries) and several accounts at
once, which are beyond five minutes of TLC, are covered by the theorems, which leave
every size open.

The inductive invariants of the other components, their progress facts and some of
the refinements below are no properties of a run: a run checks what follows from
them, and the theorems state them for every size. TLC has found no counterexample
to any of them on the instances of the runs.

`Leases` checks its two liveness properties for one watched launch of the two:
launches are told apart by nothing but their identity. `CHECK_DEADLOCK FALSE` is
set for `DesktopLease` and `TerminalRelay` only: their launches are made once, so
that the system stops when all are over. Every property of a passing run has a
mutant in `PROJECT.json`, a plausible slip in one definition, under which the run
fails.

### Fairness

- `BrokerSessions`: weak fairness of every worker except while it waits for a
  coordinator's answer (`AwaitsCoordinator`: that read has no deadline), of dying
  process trees, and of the service's exit. Programs may run and clients stay
  forever. For the same reason `Live` has no interactive sessions.
- `ControlPipeListener`: weak fairness of the listener, of service start-up, of a
  completed thread's end, and of a worker's completion only once the stop event is
  set. Clients, timeouts and faults owe nothing.
- `DesktopLease`: weak fairness of each launch's lease steps and coordinator, of
  the broker's worker, and of the end of a session only once the service is to
  stop. A coordinator polls for the lock every ten milliseconds; weak fairness
  suffices since each launch takes it finitely often.
- `ServiceInstaller`: weak fairness of the job's steps: each call returns, and the
  wait for a stopped service is bounded. The service and its clients owe nothing.
- `TerminalRelay`: weak fairness of the system's steps as a whole, threads,
  broker and pseudoconsole, which is less than fairness of each; it suffices since
  they are bounded in number. The user, the target and its descendants owe
  nothing.
- `ReadScope`, `AccountRegistry`: none, nothing is claimed to happen.

## Findings

1. *Restoration does not survive the service* (`Exit`). The documents promise that
   a scope whose restoration failed stays reserved until it succeeds. Its record is
   in memory only: the service's idle exit drops it with the ACEs in place.
2. *A full pool ends the service* (`FullPool`). Eight workers busy for thirty
   seconds make the listener set its own stop event, where the specification says
   that further clients meet normal contention.
3. *A start that is no start* (`DemandStart`). A client that comes between the idle
   exit's last closed pipe and the stopped service is told that the service is
   already running, takes that for a start, asks no second time and gives up.
4. *A stop that never ends* (`LeaseStop`). A coordinator that returns before it has
   answered leaves its launcher joining a thread that waits for the broker, which
   waits for the answer, with `launchMutex_` held and no eye on the stop event.
   `OnlyWatchedGivingUpBlocks` shows that nothing else blocks the mutex.

Passing properties that had to allow for something the code does are worth a look
as well. `OnlyLostCancelsBlock` excepts a relay thread that misses its only
cancel, which then keeps its process from returning. `TargetIsSpared` holds of a
target in its full life, but one that is just leaving its console is terminated,
and its exit code lost, when a chunk typed at that moment cannot be written.
`RecordNamesProvisioned` and `OnlyRecordedAccountsSuffer` except an account that an
administrator puts under the name while the operation runs that compares the SIDs and
then calls by name. `RepairCompletes` excepts an update over a policy cut short while it was
written, which every later update refuses to replace.

## What is proved

TLAPS proves, for all values of the constants that satisfy the named assumptions
(`SessionConstants`, `ListenerConstants`, `ThreadsSuffice`, `LeaseConstants`,
`ScopeConstants`, `NoneIsApart`, `BrokerIsAFile`, `BoundsAreNatural`). Two of them
deserve a word: `ThreadsSuffice` says that thread identities do not run out before
the pool is full, and `ScopeConstants` that some volume is not removable, which is
the system drive, so that a scope without a volume is one that has not been walked.

### Safety

- `BrokerSessionsProofs`: `Spec => []SessionInvariant` and from it type
  correctness, `SessionLimits`, `ConfinementMatchesRequest`, `NoForgottenDenials`,
  `SlotAndLeaseOutliveTree`, `AccountOutlivesTree`, `LogonUsesOwnPassword`, and
  `Spec => ImplementsSlots`. None of the properties is inductive alone: the limits
  need the counters to equal the number of workers in reserved steps
  (`CountersMatch`); confinement needs the entry's mode to be that of its sessions
  (`EntryMatchesSessions`) and the denials to be complete from `Ensure` to the
  confirmed end of the tree (`DenialsFollowStep`); the account needs a deletion to
  meet only launches that still wait for the mutex (`AccountFollowsStep`). What a
  step does to the sets of sessions, and so to their cardinalities, is proved once
  (`SlotChanges`, `AdmitCounts`, `ReleaseCounts`).
- `ControlPipeListenerProofs`: `Spec => []ListenerInvariant`, from it
  `PoolLeavesRoom`, `NoWorkerOutlivesService`, `EachClientHasOneServer`, and
  `Spec => ImplementsLifecycle`. The strengthening says that the vector owns every
  thread that still holds a pipe (`PoolOwnsThreads`) and which pipe, state and stop
  event each step of the loop may see (`PipeFollowsStep`).
- `DesktopLeaseProofs`: `Spec => []LeaseInvariant`, from it
  `RunningMeansGranted`, `StrayGrantsAreKnown`, `ReleasedMeansRemoved`, and
  `Spec => OnlyOwnAceChanges`. The heart is that the ACL written is the one read
  under the lock (`LockDiscipline`), hence a coordinator knows exactly the ACEs it
  has added (`AcesAreTracked`), that a job accounts for each object it began with
  (`JobProgress`), and that a granted lease finds its coordinator holding it
  (`Exchange`), or gone without having taken anything back (`GrantsAreComplete`),
  which is what covers a program whose launcher is killed.
- `ReadScopeProofs`: `Spec => []ScopeInvariant`, from it `ConfinedWhileRunning`,
  `RootsStayOpen`, `RestoredMeansFirst`, for every tree, owner and first ACL.
  Restoration follows from an exact ledger (`LedgerIsExact`). Confinement during a
  widening needs what the walk has dealt with to be denied below each finished
  directory (`Covered`, `WalkIsComplete`) while the volumes of earlier walks stay
  covered (`ScopeStaysInUse`), since an entry is dropped only below a directory
  that has become readable.
- `AccountRegistryProofs`: the conjunction `RegistryInvariant` and from it
  `RecordNamesProvisioned`, `FailuresCanBeRepaired`, `DeleteLeavesNoOrphan` and
  the action properties. Each step relies on what earlier ones have seen although
  accounts may have been exchanged since; the strengthening says which account
  that is.
- `ServiceInstallerProofs`: the conjunction `InstallerInvariant` and from it
  `InstalledIsComplete`, `UninstalledLeavesNothing`, `RepairCompletes`,
  `UpdatesKeepCaller`. Each step has the results of those before it
  (`StepsBuildOn`), and clients who start the service meanwhile start what is
  installed (`ProcessesRunWhatIsInstalled`).
- `TerminalRelayProofs`: `RelaySpec => []RelayInvariant`, from it
  `CodeMeansComplete`, `TargetIsSpared`, `SizesAreUnderWay` and
  `RelaySpec => SizesGoForward`. The frames on screen, in the pipe and
  before the host continue each other without a gap for as long as nobody has given
  up (`FramesAreWhole`), and the main threads give up or close an end only when the
  relays that use it are over (`BridgeFollowsStep`, `HostFollowsStep`). The size sent
  last is the pseudoconsole's or the last in the pipe (`SizesFollowWindow`), and the
  two threads that carry sizes run while their pipe has both ends (`SizeRelaysRun`):
  with a running target, a size that differs from the window's is on its way.

### Where the modules meet

*The scope behind the sessions.* `ScopeContract` says what the sessions of an
account and their scope may expect of each other: `Ensure` takes a scope that is not
complete to complete or leaves any part of it, a further `Ensure` keeps it complete,
and a restoration comes only with the last session and empties it or leaves part.
`ScopeKeepsContract` (`ReadScopeProofs`) and `BrokerKeepsScopeContract`
(`BrokerSessionsProofs`) show that both models implement it. The first maps the
ledger, the walk and the failures of `BrokerReadScope` to three values: no denial,
part of them, all of them. It rests on every walk going over all drives
(`OneWalkOverAllDrives`) and on a drive that was once complete staying so. The
second takes each account's workers for the sessions, and rests on
`sessionsByAccount_` counting exactly those inside and on `launchMutex_` letting one
of them prepare at a time. What `BrokerSessions` shows of confinement with three
values is therefore shown of the directory trees of `ReadScope`.

*The desktop behind an interactive session.* `LeaseContract` says that a program is
created and runs only on a desktop that was opened to its logon and stays open to it.
`LeasesAreImplemented` (`DesktopLeaseProofs`) maps launchers and coordinators to it: a
session is granted when the coordinator's answer has reached the broker, and open
when each object carries its ACE, whatever else is written to the three ACLs and
whoever crashes; it rests on `GrantsAreComplete`. `BrokerKeepsLeaseContract`
(`BrokerSessionsProofs`) maps the steps of a worker to it, where a lease is granted in
one step, and shows that every interactive tree with a live process is held there.

*The listener before the workers.* `ListenerImplementsLifecycle` and
`BrokerKeepsLifecycle` show that the pool of `ControlPipeListener` and the workers of
`BrokerSessions` live by the same `BrokerLifecycle`. Once the end has begun, by a stop,
a failure or idleness, one more request may begin and no second one: the loop looks at
the stop event only at its top and in its waits, so a client whose pipe was on offer, or
that finds the pipe offered once more, may still be dispatched. There are never more
requests at once than the pool has threads, and a service ends only after the last. The
first theorem says that the listener never exceeds this, the second that the session
core needs no more than this: its workers accept, after a stop, one request, and what is
proved of sessions (`StopNeverHangs` among it) holds with that request under way. For
`BrokerSessions` the limit is the number of its workers, whatever that is.

### Progress

The provers know neither fairness nor `ENABLED`, but what a liveness argument needs
besides is proved, for any number of workers, launches, objects and frames: a
measure that each step of the system shortens, so that nothing goes round in a
circle, and that whoever has not finished can go on or waits for something that
comes. The predicates that say that a process can go on are plain conditions on the
state, which repeat the guards of the steps they stand for; on the instances of the runs
TLC has found each of them to imply `ENABLED` of its steps. That compares the model with
itself and is no property of a run.

- *Broker* (`BrokerSessionsProofs`): a request is over after at most thirty-eight
  steps of its worker (`RequestsRunOut`). A worker waits for `launchMutex_`, for a
  killed tree or for the session it serves, and the owner of the mutex waits for no
  worker (`WaitsAreBounded`), so a stop never finds all of them waiting
  (`StopNeverHangs`). This is the core of `StopCompletes` and
  `LaunchMutexIsReleased`; that Windows empties a terminated job and that a
  coordinator answers are the fairness assumed.
- *Listener* (`ControlPipeListenerProofs`): the listener always knows what it waits
  for (`ListenerIsNeverStuck`), and from the stop event on each step of its own and
  of its threads brings the stopped service nearer, although one more client may be
  dispatched, from a pipe on offer or offered once more (`StopRunsOut`). This is the core of
  `StopIsReported`.
- *Desktop lease* (`DesktopLeaseProofs`): with any number of launchers over one lock
  and one `launchMutex_`, each broker worker that waits for a coordinator meets one
  that goes on, has answered, has ended, or gave up (`NobodyWaitsInVain`), and a
  launch has at most 9 steps for each object and 14 besides, whatever fails or
  crashes (`LaunchesRunOut`). It rests on which answer is under way whenever an end
  waits (`WaitsAreAnswered`). This is the core of `WatchedLauncherReturns` and
  `OnlyWatchedGivingUpBlocks`, and leaves `GaveUp`, finding 4, as the only way to
  block.
- *Relays* (`TerminalRelayProgress`): each step of launcher, host, relays and broker
  uses up work, and what the user, the target or a fault does adds at most four
  steps (`WorkRunsOut`). Until the session is over or its target runs alone, somebody can
  go on unless a relay missed its cancel (`NobodyIsStuck`), with pipes of any size.
  This is the core of `OnlyLostCancelsBlock`, as `SizesAreUnderWay` is of `SizesArrive`.

Only model-checked: the liveness properties themselves (`StopCompletes`,
`DeadManSwitch`, `LaunchMutexIsReleased`, `StopIsReported`, `RunningServiceListens`,
`WatchedLauncherReturns`, `OnlyWatchedGivingUpBlocks`, `JobEnds`,
`OnlyLostCancelsBlock`, `SizesArrive`) and the four violations, which are single
counterexamples. Induction over data is out of reach too, so that
`ScopeConstants` states what a tree of paths is instead of computing it; no module
declares a RECURSIVE operator.

## Not modelled

- *Wire protocol*: parsing and formatting of bounded byte strings without state;
  unit tests enumerate its boundaries, and a model would restate the code.
- *Write scope, AppContainer profile, Win32 support*: one pass of Win32 calls in
  one thread, without an interleaving or a lasting record of their own.
- *Launch log, audit events, routing of scope events to logs*: output.
- *Token, environment and job limits of a child, password generation, caller
  authentication, option parsing*: values handed to Windows in one thread.
- *Two broker processes over one scope*: STOPPED is reported before the
  application is destroyed, so a new process may begin while the old one restores
  its ACEs. `BrokerSessions` takes the two together; `ServiceInstaller` has the
  lingering process as far as its executable is concerned.
- *What a running broker has read of the caller policy* when an installation
  writes it.

## Plan

Done: `SessionSlots`, `BrokerSessions`; `BrokerLifecycle`, `ControlPipeListener`;
`DesktopLease`, `LeaseContract`; `ReadScope`, `ScopeContract`; `AccountRegistry`;
`ServiceInstaller`; `TerminalRelay`; each with its proofs.

What would add most from here: the last cut as a contract, the registration that
`BrokerSessions` takes as an outcome; the overlap of two broker processes, as a
second instance of `ReadScope`'s ledger over the same objects; a theorem beside each
finding that says how far its violated property does hold; the retry of a first
installation that meets an old policy, as a property of who the caller is.
