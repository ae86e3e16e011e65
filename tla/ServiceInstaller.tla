-------------------------- MODULE ServiceInstaller --------------------------
(***************************************************************************)
(* launch-as-admin install and uninstall against the service control       *)
(* manager: files are copied, the demand-start service is created or       *)
(* updated, the data directory is secured and the caller policy is         *)
(* written, one call after another.  Each call may fail and the            *)
(* administrator's process may die between two of them; launchers may      *)
(* start the service again meanwhile, and the broker's process outlives    *)
(* its report that it has stopped.                                         *)
(***************************************************************************)
EXTENDS Naturals, FiniteSets

CONSTANTS Users,     \* accounts that install, and launch
          Versions,  \* packages that may be installed
          Files,     \* the installed executables
          Broker,    \* the service's own executable
          None,
          Torn       \* a policy file created but not written

ASSUME BrokerIsAFile == Broker \in Files

VARIABLES
    service,    \* the state the service control manager knows
    doomed,     \* the service is marked for deletion
    config,     \* service SID, required privileges and description are set
    starter,    \* the user the service's DACL lets start it
    files,      \* the version of each installed file
    serving,    \* the version and authorised caller of the running broker process
    lingering,  \* a broker process has reported STOPPED and not yet exited
    source,     \* the event source is registered
    data,       \* the data directory
    policy,     \* the authorised caller on disk
    job,        \* the installation or removal under way, or the last one
    at,         \* its next step
    left,       \* files it still has to copy or delete
    created,    \* it created the service
    calm        \* nothing has disturbed it

serviceVars == <<service, doomed, config, starter, serving, lingering>>
installVars == <<serviceVars, files, source, data, policy, job, at, left, created, calm>>

Jobs == [kind : {"install", "uninstall"}, user : Users, version : Versions,
         existing : BOOLEAN, clear : BOOLEAN]

Processes == [image : Versions, caller : Users \cup {None}]

ASSUME NoneIsApart ==
    /\ None \notin Users \cup Versions /\ None \notin Jobs /\ None \notin Processes
    /\ Torn \notin Users \cup {None}

InstallSteps == {"copy", "create", "configure", "secure", "source", "data", "policy", "write"}
UninstallSteps == {"delete", "unregister", "remove"}
Ended == {"idle", "done", "failed"}

InUse == serving # None \/ lingering

InstallerInit ==
    /\ service = "absent" /\ doomed = FALSE /\ config = FALSE /\ starter = None
    /\ files = [f \in Files |-> None]
    /\ serving = None /\ lingering = FALSE
    /\ source = FALSE
    /\ data \in {"absent", "foreign", "secure"}
    /\ policy \in Users \cup {None, Torn} /\ (policy # None => data # "absent")
    /\ job = None /\ at = "idle" /\ left = {} /\ created = FALSE /\ calm = TRUE

-----------------------------------------------------------------------------
(* The administrator's process.                                            *)

\* BrokerServiceExists decides, once, whether the caller policy will be kept.  clear: nothing
\* stands in the way of the job that it does not itself repair.
Begin(kind, u, v) ==
    /\ at \in Ended
    /\ LET existing == service # "absent" IN
       job' = [kind |-> kind, user |-> u, version |-> v, existing |-> existing,
               clear |-> /\ service \in {"absent", "stopped", "running"} /\ ~doomed
                         /\ kind = "install" => /\ data # "foreign"
                                                /\ existing => policy # Torn]
    /\ at' = "stop" /\ left' = Files /\ created' = FALSE /\ calm' = TRUE
    /\ UNCHANGED <<serviceVars, files, source, data, policy>>

Goto(step) == at' = step /\ UNCHANGED <<job, created, calm>>
Stopped == IF job.kind = "install" THEN "copy" ELSE "delete"

\* StopBrokerService: a service that is starting or stopping accepts no control.
StopService ==
    /\ at = "stop"
    /\ \/ service = "absent" /\ UNCHANGED service
          /\ Goto(IF job.kind = "install" THEN "copy" ELSE "unregister")
       \/ service = "running" /\ service' = "stopping" /\ Goto("wait")
       \/ service = "stopped" /\ UNCHANGED service /\ Goto("wait")
       \/ service \in {"starting", "stopping"} /\ UNCHANGED service /\ Goto("failed")
    /\ UNCHANGED <<doomed, config, starter, serving, lingering, files, source, data, policy, left>>

\* Mutant: the wait for the service to stop has no deadline.
WaitsForever ==
    /\ at = "wait"
    /\ service = "stopped"
    /\ Goto(Stopped)
    /\ UNCHANGED <<serviceVars, files, source, data, policy, left>>

\* StopServiceAndWait polls the state, not the process, for ten seconds.
AwaitStopped ==
    /\ at = "wait"
    /\ \/ service = "stopped" /\ Goto(Stopped)
       \/ service # "stopped" /\ at' = "failed" /\ calm' = FALSE /\ UNCHANGED <<job, created>>
    /\ UNCHANGED <<serviceVars, files, source, data, policy, left>>

\* Mutant: a file in use is left as it is.
CopySkipsBusy(f) ==
    /\ at = "copy" /\ f \in left
    /\ files' = IF f = Broker /\ InUse THEN files ELSE [files EXCEPT ![f] = job.version]
    /\ left' = left \ {f}
    /\ Goto(IF left = {f} THEN "create" ELSE "copy")
    /\ UNCHANGED <<serviceVars, source, data, policy>>

\* A file that a process runs cannot be replaced or deleted.
Busy ==
    /\ at' = "failed" /\ calm' = FALSE
    /\ UNCHANGED <<job, created, left, files>>

\* CopyAndSecureInstallFile.
Copy(f) ==
    /\ at = "copy" /\ f \in left
    /\ \/ f = Broker /\ InUse /\ Busy
       \/ /\ ~(f = Broker /\ InUse)
          /\ files' = [files EXCEPT ![f] = job.version]
          /\ left' = left \ {f}
          /\ Goto(IF left = {f} THEN "create" ELSE "copy")
    /\ UNCHANGED <<serviceVars, source, data, policy>>

\* Mutant: a service that exists already is an error.
CreateOnly ==
    /\ at = "create"
    /\ IF service # "absent"
       THEN Goto("failed") /\ UNCHANGED serviceVars
       ELSE /\ service' = "stopped" /\ config' = FALSE /\ starter' = None
            /\ at' = "configure" /\ created' = TRUE
            /\ UNCHANGED <<doomed, serving, lingering, job, calm>>
    /\ UNCHANGED <<files, source, data, policy, left>>

\* InstallDemandStartBrokerService creates the service or opens the one there is.
Create ==
    /\ at = "create"
    /\ \/ /\ service = "absent"
          /\ service' = "stopped" /\ config' = FALSE /\ starter' = None
          /\ at' = "configure" /\ created' = TRUE
          /\ UNCHANGED <<doomed, serving, lingering, job, calm>>
       \/ service # "absent" /\ ~doomed /\ Goto("configure") /\ UNCHANGED serviceVars
       \/ service # "absent" /\ doomed /\ Goto("failed") /\ UNCHANGED serviceVars
    /\ UNCHANGED <<files, source, data, policy, left>>

Configure ==
    /\ at = "configure"
    /\ config' = TRUE
    /\ Goto("secure")
    /\ UNCHANGED <<service, doomed, starter, serving, lingering, files, source, data, policy, left>>

\* SetServiceObjectSecurity grants SERVICE_START to whoever installs.
Secure ==
    /\ at = "secure"
    /\ starter' = job.user
    /\ Goto("source")
    /\ UNCHANGED <<service, doomed, config, serving, lingering, files, source, data, policy, left>>

\* A configuration call fails: a service that this installation created is deleted again.
ConfigurationFails ==
    /\ at \in {"configure", "secure"}
    /\ doomed' = (doomed \/ created)
    /\ at' = "failed" /\ calm' = FALSE
    /\ UNCHANGED <<service, config, starter, serving, lingering, files, source, data, policy,
                   job, left, created>>

RegisterEventSource ==
    /\ at = "source"
    /\ source' = TRUE
    /\ Goto("data")
    /\ UNCHANGED <<serviceVars, files, data, policy, left>>

\* CreateSecureDirectory refuses a directory that a user owns.
SecureDirectories ==
    /\ at = "data"
    /\ \/ data = "foreign" /\ Goto("failed") /\ UNCHANGED data
       \/ data # "foreign" /\ data' = "secure" /\ Goto("policy")
    /\ UNCHANGED <<serviceVars, files, source, policy, left>>

\* Mutant: an update replaces the policy, too.
ReplaceAlways ==
    /\ at = "policy"
    /\ policy' = Torn /\ Goto("write")
    /\ UNCHANGED <<serviceVars, files, source, data, left>>

\* UpdateAuthorizedCallerPolicy: an update keeps the policy that is there.  CREATE_ALWAYS
\* truncates the file before the caller is written.
UpdatePolicy ==
    /\ at = "policy"
    /\ \/ job.existing /\ policy \in Users /\ Goto("done") /\ UNCHANGED policy
       \/ job.existing /\ policy = Torn /\ Goto("failed") /\ UNCHANGED policy
       \/ (job.existing => policy = None) /\ policy' = Torn /\ Goto("write")
    /\ UNCHANGED <<serviceVars, files, source, data, left>>

WritePolicy ==
    /\ at = "write"
    /\ policy' = job.user
    /\ Goto("done")
    /\ UNCHANGED <<serviceVars, files, source, data, left>>

\* UninstallDemandStartBrokerService: the entry goes once the service has stopped and every
\* handle is closed.
Delete ==
    /\ at = "delete"
    /\ doomed' = TRUE
    /\ Goto("unregister")
    /\ UNCHANGED <<service, config, starter, serving, lingering, files, source, data, policy, left>>

UnregisterEventSource ==
    /\ at = "unregister"
    /\ source' = FALSE
    /\ Goto("remove")
    /\ UNCHANGED <<serviceVars, files, data, policy, left>>

\* Mutant: a file in use is left where it is.
RemoveIgnoresBusy(f) ==
    /\ at = "remove" /\ f \in left
    /\ files' = IF f = Broker /\ InUse THEN files ELSE [files EXCEPT ![f] = None]
    /\ left' = left \ {f}
    /\ Goto(IF left = {f} THEN "done" ELSE "remove")
    /\ UNCHANGED <<serviceVars, source, data, policy>>

\* RemoveBrokerInstallFiles.
Remove(f) ==
    /\ at = "remove" /\ f \in left
    /\ \/ f = Broker /\ InUse /\ Busy
       \/ /\ ~(f = Broker /\ InUse)
          /\ files' = [files EXCEPT ![f] = None]
          /\ left' = left \ {f}
          /\ Goto(IF left = {f} THEN "done" ELSE "remove")
    /\ UNCHANGED <<serviceVars, source, data, policy>>

\* A call fails, or the administrator's process dies.
Interrupt ==
    /\ at \notin Ended
    /\ at' = "failed" /\ calm' = FALSE
    /\ UNCHANGED <<serviceVars, files, source, data, policy, job, left, created>>

-----------------------------------------------------------------------------
(* The service, its launchers and the machine.                             *)

Disturb == calm' = FALSE /\ UNCHANGED <<job, at, left, created>>
Undisturbed == UNCHANGED <<job, at, left, created, calm>>

\* A launcher starts the service on demand.
Launch ==
    /\ service = "stopped" /\ ~doomed
    /\ starter # None
    /\ files[Broker] # None
    /\ service' = "starting"
    /\ serving' = [image |-> files[Broker], caller |-> None]
    /\ Disturb
    /\ UNCHANGED <<doomed, config, starter, lingering, files, source, data, policy>>

\* ServiceMain: a policy that cannot be read authorises nobody.
ServiceRuns ==
    /\ service = "starting" /\ data # "foreign"
    /\ service' = "running" /\ data' = "secure"
    /\ serving' = [serving EXCEPT !.caller = IF policy \in Users THEN policy ELSE None]
    /\ Undisturbed
    /\ UNCHANGED <<doomed, config, starter, lingering, files, source, policy>>

\* ServiceMain gives up, or its listener ends, idle or told to stop; the application is
\* destroyed and the process exits later.
ReportStopped ==
    /\ \/ service = "starting" /\ data = "foreign"
       \/ service \in {"running", "stopping"}
    /\ service' = "stopped" /\ serving' = None /\ lingering' = TRUE
    /\ Undisturbed
    /\ UNCHANGED <<doomed, config, starter, files, source, data, policy>>

ProcessExits ==
    /\ lingering
    /\ lingering' = FALSE
    /\ Undisturbed
    /\ UNCHANGED <<service, doomed, config, starter, serving, files, source, data, policy>>

\* The last handle of a deleted service is closed.
EntryGoes ==
    /\ doomed /\ service = "stopped"
    /\ at \notin {"wait", "delete", "configure", "secure"}
    /\ service' = "absent" /\ doomed' = FALSE /\ config' = FALSE /\ starter' = None
    /\ Undisturbed
    /\ UNCHANGED <<serving, lingering, files, source, data, policy>>

\* Any user may create a directory of that name first.
ForeignDirectory ==
    /\ data = "absent"
    /\ data' = "foreign"
    /\ Disturb
    /\ UNCHANGED <<serviceVars, files, source, policy>>

-----------------------------------------------------------------------------
JobStep ==
    \/ StopService \/ AwaitStopped \/ (\E f \in Files : Copy(f)) \/ Create \/ Configure \/ Secure
    \/ RegisterEventSource \/ SecureDirectories \/ UpdatePolicy \/ WritePolicy
    \/ Delete \/ UnregisterEventSource \/ (\E f \in Files : Remove(f))

ServiceStep ==
    \/ Launch \/ ServiceRuns \/ ReportStopped \/ ProcessExits \/ EntryGoes \/ ForeignDirectory

InstallerNext ==
    \/ \E kind \in {"install", "uninstall"}, u \in Users, v \in Versions : Begin(kind, u, v)
    \/ JobStep \/ ConfigurationFails \/ Interrupt
    \/ ServiceStep

\* The administrator's process runs on while it lives.
InstallerSpec == InstallerInit /\ [][InstallerNext]_installVars /\ WF_installVars(JobStep)
-----------------------------------------------------------------------------
(* Properties.                                                             *)

\* Variables keep their shape.
MachineTypeOK ==
    /\ service \in {"absent", "stopped", "starting", "running", "stopping"}
    /\ doomed \in BOOLEAN /\ config \in BOOLEAN /\ starter \in Users \cup {None}
    /\ files \in [Files -> Versions \cup {None}]
    /\ serving \in Processes \cup {None}
    /\ lingering \in BOOLEAN /\ source \in BOOLEAN
    /\ data \in {"absent", "foreign", "secure"}
    /\ policy \in Users \cup {None, Torn}

JobTypeOK ==
    /\ job \in Jobs \cup {None}
    /\ at \in {"stop", "wait"} \cup InstallSteps \cup UninstallSteps \cup Ended
    /\ left \subseteq Files /\ created \in BOOLEAN /\ calm \in BOOLEAN

InstallerTypeOK == MachineTypeOK /\ JobTypeOK

\* An installation that reports success leaves the service configured and startable by whoever
\* installed it, every file of this package, and no process of another one, though the service
\* may have been started again in between; a fresh one also makes the installing user the
\* authorised caller (InstallBrokerService).
InstalledIsComplete ==
    at = "done" /\ job.kind = "install" =>
        /\ service # "absent" /\ ~doomed /\ config /\ starter = job.user
        /\ \A f \in Files : files[f] = job.version
        /\ serving # None => serving.image = job.version
        /\ source /\ data = "secure"
        /\ policy \in Users /\ (job.existing \/ policy = job.user)

\* A removal that reports success leaves no file, no event source, no process and no service
\* that could start again; the policy and the data stay (UninstallBrokerService).
UninstalledLeavesNothing ==
    at = "done" /\ job.kind = "uninstall" =>
        /\ service = "absent" \/ (doomed /\ service = "stopped")
        /\ ~source /\ ~InUse
        /\ \A f \in Files : files[f] = None

\* Only an installation that found no service changes who may call, and to the user who runs
\* it; updates and removals keep the caller (README.md, "updates preserve that caller policy").
UpdatesKeepCaller ==
    [][/\ policy \in Users /\ policy' # policy => ~job.existing
       /\ policy' \in Users /\ policy' # policy => policy' = job.user]_installVars

\* Whatever a failed job left behind, the next one that nothing disturbs succeeds, so both
\* commands can be repeated; what is beyond them is a foreign data directory and, for an
\* update, a policy cut short while it was written.
RepairCompletes ==
    at \in Ended /\ job # None /\ job.clear /\ calm => at = "done"

\* Every job ends: a service that does not stop is given up (StopServiceAndWait).
JobEnds == at \notin Ended ~> at \in Ended

-----------------------------------------------------------------------------
(* What these rest on.                                                     *)

\* A broker process runs exactly while its service is not stopped, from the file in place.
ProcessesRunWhatIsInstalled ==
    /\ serving # None <=> service \in {"starting", "running", "stopping"}
    /\ serving # None => serving.image = files[Broker]
    /\ InUse => files[Broker] # None
    /\ service = "absent" => ~doomed /\ at \notin {"wait", "delete", "configure", "secure"}
    /\ at \in InstallSteps => job # None /\ job.kind = "install"
    /\ at \in UninstallSteps => job # None /\ job.kind = "uninstall"
    /\ job = None <=> at = "idle"

\* What each step finds done by the steps before it, whatever launchers and processes do.
StepsBuildOn ==
    /\ at \in {"stop", "wait", "delete", "unregister"} => left = Files
    /\ at = "copy" => \A f \in Files \ left : files[f] = job.version
    /\ at \in InstallSteps \ {"copy"} => \A f \in Files : files[f] = job.version
    /\ at \in InstallSteps \ {"copy", "create"} => service # "absent" /\ ~doomed
    /\ at \in InstallSteps \ {"copy", "create", "configure"} => config
    /\ at \in {"source", "data", "policy", "write"} => starter = job.user
    /\ at \in {"data", "policy", "write"} => source
    /\ at \in {"policy", "write"} => data = "secure"
    /\ at = "write" => policy = Torn
    /\ at \in {"unregister", "remove"} => service = "absent" \/ doomed
    /\ at = "remove" => ~source /\ \A f \in Files \ left : files[f] = None

\* While nothing disturbs a job that began clear, nothing stands in its way.
CalmStaysClear ==
    job # None /\ job.clear /\ calm =>
        /\ at \in Ended => at = "done"
        /\ at = "stop" => service \in {"absent", "stopped", "running"}
        /\ job.kind = "install" /\ at \in {"stop", "wait", "copy", "create"} => ~doomed
        /\ job.kind = "install" /\ at \notin Ended =>
              data # "foreign" /\ (job.existing /\ at # "write" => policy # Torn)

\* The inductive invariant of installation.
InstallerInvariant ==
    /\ InstallerTypeOK /\ ProcessesRunWhatIsInstalled /\ StepsBuildOn
    /\ InstalledIsComplete /\ UninstalledLeavesNothing /\ CalmStaysClear
=============================================================================
