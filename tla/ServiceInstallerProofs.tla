----------------------- MODULE ServiceInstallerProofs -----------------------
(***************************************************************************)
(* Proofs about ServiceInstaller, for any users, packages and files.       *)
(***************************************************************************)
EXTENDS ServiceInstaller, TLAPS

\* Variables keep their shape.
LEMMA MachineTypeStep ==
    ASSUME InstallerTypeOK, ProcessesRunWhatIsInstalled,
           [InstallerNext]_installVars
    PROVE  MachineTypeOK'
<1> USE BrokerIsAFile, NoneIsApart DEF installVars, serviceVars, InUse
<1>j. job # None => job \in Jobs /\ job.user \in Users /\ job.version \in Versions
  BY DEF InstallerTypeOK, JobTypeOK, Jobs
<1>k. at \in InstallSteps => job # None
  BY DEF ProcessesRunWhatIsInstalled
<1>1. ASSUME NEW kind \in {"install", "uninstall"}, NEW u \in Users, NEW v \in Versions, Begin(kind, u, v)
      PROVE  MachineTypeOK'
  BY <1>1 DEF Begin, Goto, Busy, Disturb, Undisturbed, Stopped, InstallerTypeOK, MachineTypeOK
<1>2. CASE StopService
  BY <1>2 DEF StopService, Goto, Busy, Disturb, Undisturbed, Stopped, InstallerTypeOK,
     MachineTypeOK
<1>3. CASE AwaitStopped
  BY <1>3 DEF AwaitStopped, Goto, Busy, Disturb, Undisturbed, Stopped, InstallerTypeOK,
     MachineTypeOK
<1>4. ASSUME NEW f \in Files, Copy(f)
      PROVE  MachineTypeOK'
  BY <1>j, <1>k, <1>4 DEF Copy, Goto, Busy, Disturb, Undisturbed, Stopped, InstallSteps,
     InstallerTypeOK, MachineTypeOK
<1>5. CASE Create
  <2>1. CASE service = "absent"
    BY <1>5, <2>1 DEF Create, Goto, InstallerTypeOK, MachineTypeOK
  <2>2. CASE service # "absent"
    BY <1>5, <2>2 DEF Create, Goto, InstallerTypeOK, MachineTypeOK
  <2> QED
    BY <2>1, <2>2
<1>6. CASE Configure
  BY <1>6 DEF Configure, Goto, Busy, Disturb, Undisturbed, Stopped, InstallerTypeOK, MachineTypeOK
<1>7. CASE Secure
  BY <1>j, <1>k, <1>7 DEF Secure, Goto, Busy, Disturb, Undisturbed, Stopped, InstallSteps,
     InstallerTypeOK, MachineTypeOK
<1>8. CASE RegisterEventSource
  BY <1>8 DEF RegisterEventSource, Goto, Busy, Disturb, Undisturbed, Stopped, InstallerTypeOK,
     MachineTypeOK
<1>9. CASE SecureDirectories
  BY <1>9 DEF SecureDirectories, Goto, Busy, Disturb, Undisturbed, Stopped, InstallerTypeOK,
     MachineTypeOK
<1>10. CASE UpdatePolicy
  BY <1>10 DEF UpdatePolicy, Goto, Busy, Disturb, Undisturbed, Stopped, InstallerTypeOK,
     MachineTypeOK
<1>11. CASE WritePolicy
  BY <1>j, <1>k, <1>11 DEF WritePolicy, Goto, Busy, Disturb, Undisturbed, Stopped,
     InstallSteps, InstallerTypeOK, MachineTypeOK
<1>12. CASE Delete
  BY <1>12 DEF Delete, Goto, Busy, Disturb, Undisturbed, Stopped, InstallerTypeOK, MachineTypeOK
<1>13. CASE UnregisterEventSource
  BY <1>13 DEF UnregisterEventSource, Goto, Busy, Disturb, Undisturbed, Stopped,
     InstallerTypeOK, MachineTypeOK
<1>14. ASSUME NEW f \in Files, Remove(f)
      PROVE  MachineTypeOK'
  BY <1>14 DEF Remove, Goto, Busy, Disturb, Undisturbed, Stopped, InstallerTypeOK, MachineTypeOK
<1>15. CASE ConfigurationFails
  BY <1>15 DEF ConfigurationFails, Goto, Busy, Disturb, Undisturbed, Stopped, InstallerTypeOK,
     MachineTypeOK
<1>16. CASE Interrupt
  BY <1>16 DEF Interrupt, Goto, Busy, Disturb, Undisturbed, Stopped, InstallerTypeOK,
     MachineTypeOK
<1>17. CASE Launch
  <2>1. serving' \in Processes
    BY <1>17 DEF Launch, Processes, MachineTypeOK, InstallerTypeOK
  <2> QED
    BY <2>1, <1>17 DEF Launch, Disturb, InstallerTypeOK, MachineTypeOK
<1>18. CASE ServiceRuns
  <2>1. serving \in Processes
    BY <1>18 DEF ServiceRuns, ProcessesRunWhatIsInstalled, InstallerTypeOK, MachineTypeOK
  <2>2. serving' \in Processes
    BY <2>1, <1>18 DEF ServiceRuns, Processes, MachineTypeOK, InstallerTypeOK
  <2> QED
    BY <2>2, <1>18 DEF ServiceRuns, Undisturbed, InstallerTypeOK, MachineTypeOK
<1>19. CASE ReportStopped
  BY <1>19 DEF ReportStopped, Goto, Busy, Disturb, Undisturbed, Stopped, InstallerTypeOK,
     MachineTypeOK
<1>20. CASE ProcessExits
  BY <1>20 DEF ProcessExits, Goto, Busy, Disturb, Undisturbed, Stopped, InstallerTypeOK,
     MachineTypeOK
<1>21. CASE EntryGoes
  BY <1>21 DEF EntryGoes, Goto, Busy, Disturb, Undisturbed, Stopped, InstallerTypeOK,
     MachineTypeOK
<1>22. CASE ForeignDirectory
  BY <1>22 DEF ForeignDirectory, Goto, Busy, Disturb, Undisturbed, Stopped, InstallerTypeOK,
     MachineTypeOK
<1>23. CASE UNCHANGED installVars
  BY <1>23 DEF installVars, Goto, Busy, Disturb, Undisturbed, Stopped, InstallerTypeOK,
     MachineTypeOK
<1> QED
  BY <1>1, <1>2, <1>3, <1>4, <1>5, <1>6, <1>7, <1>8, <1>9, <1>10, <1>11, <1>12,
     <1>13, <1>14, <1>15, <1>16, <1>17, <1>18, <1>19, <1>20, <1>21, <1>22, <1>23
     DEF InstallerNext, JobStep, ServiceStep

\* Jobs keep their shape.
LEMMA JobTypeStep ==
    ASSUME InstallerTypeOK,
           [InstallerNext]_installVars
    PROVE  JobTypeOK'
<1> USE BrokerIsAFile, NoneIsApart DEF installVars, serviceVars, InUse
<1>1. ASSUME NEW kind \in {"install", "uninstall"}, NEW u \in Users, NEW v \in Versions, Begin(kind, u, v)
      PROVE  JobTypeOK'
  BY <1>1 DEF Begin, JobTypeOK, Jobs, Ended
<1>2. CASE StopService
  BY <1>2 DEF StopService, Goto, Busy, Disturb, Undisturbed, Stopped, Ended, InstallSteps,
     UninstallSteps, InstallerTypeOK, JobTypeOK
<1>3. CASE AwaitStopped
  BY <1>3 DEF AwaitStopped, Goto, Busy, Disturb, Undisturbed, Stopped, Ended, InstallSteps,
     UninstallSteps, InstallerTypeOK, JobTypeOK
<1>4. ASSUME NEW f \in Files, Copy(f)
      PROVE  JobTypeOK'
  BY <1>4 DEF Copy, Goto, Busy, Disturb, Undisturbed, Stopped, Ended, InstallSteps,
     UninstallSteps, InstallerTypeOK, JobTypeOK
<1>5. CASE Create
  BY <1>5 DEF Create, Goto, Busy, Disturb, Undisturbed, Stopped, Ended, InstallSteps,
     UninstallSteps, InstallerTypeOK, JobTypeOK
<1>6. CASE Configure
  BY <1>6 DEF Configure, Goto, Busy, Disturb, Undisturbed, Stopped, Ended, InstallSteps,
     UninstallSteps, InstallerTypeOK, JobTypeOK
<1>7. CASE Secure
  BY <1>7 DEF Secure, Goto, Busy, Disturb, Undisturbed, Stopped, Ended, InstallSteps,
     UninstallSteps, InstallerTypeOK, JobTypeOK
<1>8. CASE RegisterEventSource
  BY <1>8 DEF RegisterEventSource, Goto, Busy, Disturb, Undisturbed, Stopped, Ended,
     InstallSteps, UninstallSteps, InstallerTypeOK, JobTypeOK
<1>9. CASE SecureDirectories
  BY <1>9 DEF SecureDirectories, Goto, Busy, Disturb, Undisturbed, Stopped, Ended,
     InstallSteps, UninstallSteps, InstallerTypeOK, JobTypeOK
<1>10. CASE UpdatePolicy
  BY <1>10 DEF UpdatePolicy, Goto, Busy, Disturb, Undisturbed, Stopped, Ended, InstallSteps,
     UninstallSteps, InstallerTypeOK, JobTypeOK
<1>11. CASE WritePolicy
  BY <1>11 DEF WritePolicy, Goto, Busy, Disturb, Undisturbed, Stopped, Ended, InstallSteps,
     UninstallSteps, InstallerTypeOK, JobTypeOK
<1>12. CASE Delete
  BY <1>12 DEF Delete, Goto, Busy, Disturb, Undisturbed, Stopped, Ended, InstallSteps,
     UninstallSteps, InstallerTypeOK, JobTypeOK
<1>13. CASE UnregisterEventSource
  BY <1>13 DEF UnregisterEventSource, Goto, Busy, Disturb, Undisturbed, Stopped, Ended,
     InstallSteps, UninstallSteps, InstallerTypeOK, JobTypeOK
<1>14. ASSUME NEW f \in Files, Remove(f)
      PROVE  JobTypeOK'
  BY <1>14 DEF Remove, Goto, Busy, Disturb, Undisturbed, Stopped, Ended, InstallSteps,
     UninstallSteps, InstallerTypeOK, JobTypeOK
<1>15. CASE ConfigurationFails
  BY <1>15 DEF ConfigurationFails, Goto, Busy, Disturb, Undisturbed, Stopped, Ended,
     InstallSteps, UninstallSteps, InstallerTypeOK, JobTypeOK
<1>16. CASE Interrupt
  BY <1>16 DEF Interrupt, Goto, Busy, Disturb, Undisturbed, Stopped, Ended, InstallSteps,
     UninstallSteps, InstallerTypeOK, JobTypeOK
<1>17. CASE Launch
  BY <1>17 DEF Launch, Goto, Busy, Disturb, Undisturbed, Stopped, Ended, InstallSteps,
     UninstallSteps, InstallerTypeOK, JobTypeOK
<1>18. CASE ServiceRuns
  BY <1>18 DEF ServiceRuns, Goto, Busy, Disturb, Undisturbed, Stopped, Ended, InstallSteps,
     UninstallSteps, InstallerTypeOK, JobTypeOK
<1>19. CASE ReportStopped
  BY <1>19 DEF ReportStopped, Goto, Busy, Disturb, Undisturbed, Stopped, Ended, InstallSteps,
     UninstallSteps, InstallerTypeOK, JobTypeOK
<1>20. CASE ProcessExits
  BY <1>20 DEF ProcessExits, Goto, Busy, Disturb, Undisturbed, Stopped, Ended, InstallSteps,
     UninstallSteps, InstallerTypeOK, JobTypeOK
<1>21. CASE EntryGoes
  BY <1>21 DEF EntryGoes, Goto, Busy, Disturb, Undisturbed, Stopped, Ended, InstallSteps,
     UninstallSteps, InstallerTypeOK, JobTypeOK
<1>22. CASE ForeignDirectory
  BY <1>22 DEF ForeignDirectory, Goto, Busy, Disturb, Undisturbed, Stopped, Ended,
     InstallSteps, UninstallSteps, InstallerTypeOK, JobTypeOK
<1>23. CASE UNCHANGED installVars
  BY <1>23 DEF installVars, Goto, Busy, Disturb, Undisturbed, Stopped, Ended, InstallSteps,
     UninstallSteps, InstallerTypeOK, JobTypeOK
<1> QED
  BY <1>1, <1>2, <1>3, <1>4, <1>5, <1>6, <1>7, <1>8, <1>9, <1>10, <1>11, <1>12,
     <1>13, <1>14, <1>15, <1>16, <1>17, <1>18, <1>19, <1>20, <1>21, <1>22, <1>23
     DEF InstallerNext, JobStep, ServiceStep

LEMMA TypeStep ==
    ASSUME InstallerTypeOK, ProcessesRunWhatIsInstalled, [InstallerNext]_installVars
    PROVE  InstallerTypeOK'
BY MachineTypeStep, JobTypeStep DEF InstallerTypeOK

\* Processes run the files in place.
LEMMA ProcessStep ==
    ASSUME InstallerTypeOK, ProcessesRunWhatIsInstalled,
           [InstallerNext]_installVars
    PROVE  ProcessesRunWhatIsInstalled'
<1> USE BrokerIsAFile, NoneIsApart DEF installVars, serviceVars, InUse
<1>1. ASSUME NEW kind \in {"install", "uninstall"}, NEW u \in Users, NEW v \in Versions, Begin(kind, u, v)
      PROVE  ProcessesRunWhatIsInstalled'
  <2>1. job' \in Jobs
    BY <1>1 DEF Begin, Jobs
  <2> QED
    BY <2>1, <1>1 DEF Begin, Ended, InstallSteps, UninstallSteps, ProcessesRunWhatIsInstalled
<1>2. CASE StopService
  BY <1>2 DEF StopService, Goto, Busy, Disturb, Undisturbed, Stopped, Ended, InstallSteps,
     UninstallSteps, InstallerTypeOK, MachineTypeOK, JobTypeOK, ProcessesRunWhatIsInstalled, Jobs
<1>3. CASE AwaitStopped
  BY <1>3 DEF AwaitStopped, Goto, Busy, Disturb, Undisturbed, Stopped, Ended, InstallSteps,
     UninstallSteps, InstallerTypeOK, MachineTypeOK, JobTypeOK, ProcessesRunWhatIsInstalled, Jobs
<1>4. ASSUME NEW f \in Files, Copy(f)
      PROVE  ProcessesRunWhatIsInstalled'
  BY <1>4 DEF Copy, Goto, Busy, Disturb, Undisturbed, Stopped, Ended, InstallSteps,
     UninstallSteps, InstallerTypeOK, MachineTypeOK, JobTypeOK, ProcessesRunWhatIsInstalled, Jobs
<1>5. CASE Create
  BY <1>5 DEF Create, Goto, Busy, Disturb, Undisturbed, Stopped, Ended, InstallSteps,
     UninstallSteps, InstallerTypeOK, MachineTypeOK, JobTypeOK, ProcessesRunWhatIsInstalled, Jobs
<1>6. CASE Configure
  BY <1>6 DEF Configure, Goto, Busy, Disturb, Undisturbed, Stopped, Ended, InstallSteps,
     UninstallSteps, InstallerTypeOK, MachineTypeOK, JobTypeOK, ProcessesRunWhatIsInstalled, Jobs
<1>7. CASE Secure
  BY <1>7 DEF Secure, Goto, Busy, Disturb, Undisturbed, Stopped, Ended, InstallSteps,
     UninstallSteps, InstallerTypeOK, MachineTypeOK, JobTypeOK, ProcessesRunWhatIsInstalled, Jobs
<1>8. CASE RegisterEventSource
  BY <1>8 DEF RegisterEventSource, Goto, Busy, Disturb, Undisturbed, Stopped, Ended,
     InstallSteps, UninstallSteps, InstallerTypeOK, MachineTypeOK, JobTypeOK, ProcessesRunWhatIsInstalled, Jobs
<1>9. CASE SecureDirectories
  BY <1>9 DEF SecureDirectories, Goto, Busy, Disturb, Undisturbed, Stopped, Ended,
     InstallSteps, UninstallSteps, InstallerTypeOK, MachineTypeOK, JobTypeOK, ProcessesRunWhatIsInstalled, Jobs
<1>10. CASE UpdatePolicy
  BY <1>10 DEF UpdatePolicy, Goto, Busy, Disturb, Undisturbed, Stopped, Ended, InstallSteps,
     UninstallSteps, InstallerTypeOK, MachineTypeOK, JobTypeOK, ProcessesRunWhatIsInstalled, Jobs
<1>11. CASE WritePolicy
  BY <1>11 DEF WritePolicy, Goto, Busy, Disturb, Undisturbed, Stopped, Ended, InstallSteps,
     UninstallSteps, InstallerTypeOK, MachineTypeOK, JobTypeOK, ProcessesRunWhatIsInstalled, Jobs
<1>12. CASE Delete
  BY <1>12 DEF Delete, Goto, Busy, Disturb, Undisturbed, Stopped, Ended, InstallSteps,
     UninstallSteps, InstallerTypeOK, MachineTypeOK, JobTypeOK, ProcessesRunWhatIsInstalled, Jobs
<1>13. CASE UnregisterEventSource
  BY <1>13 DEF UnregisterEventSource, Goto, Busy, Disturb, Undisturbed, Stopped, Ended,
     InstallSteps, UninstallSteps, InstallerTypeOK, MachineTypeOK, JobTypeOK, ProcessesRunWhatIsInstalled, Jobs
<1>14. ASSUME NEW f \in Files, Remove(f)
      PROVE  ProcessesRunWhatIsInstalled'
  BY <1>14 DEF Remove, Goto, Busy, Disturb, Undisturbed, Stopped, Ended, InstallSteps,
     UninstallSteps, InstallerTypeOK, MachineTypeOK, JobTypeOK, ProcessesRunWhatIsInstalled, Jobs
<1>15. CASE ConfigurationFails
  BY <1>15 DEF ConfigurationFails, Goto, Busy, Disturb, Undisturbed, Stopped, Ended,
     InstallSteps, UninstallSteps, InstallerTypeOK, MachineTypeOK, JobTypeOK, ProcessesRunWhatIsInstalled, Jobs
<1>16. CASE Interrupt
  BY <1>16 DEF Interrupt, Goto, Busy, Disturb, Undisturbed, Stopped, Ended, InstallSteps,
     UninstallSteps, InstallerTypeOK, MachineTypeOK, JobTypeOK, ProcessesRunWhatIsInstalled, Jobs
<1>17. CASE Launch
  <2>1. serving' \in Processes /\ serving'.image = files[Broker]
    BY <1>17 DEF Launch, Processes, MachineTypeOK, InstallerTypeOK
  <2> QED
    BY <2>1, <1>17 DEF Launch, Disturb, ProcessesRunWhatIsInstalled
<1>18. CASE ServiceRuns
  <2>1. serving \in Processes
    BY <1>18 DEF ServiceRuns, ProcessesRunWhatIsInstalled, InstallerTypeOK, MachineTypeOK
  <2>2. serving' \in Processes /\ serving'.image = serving.image
    BY <2>1, <1>18 DEF ServiceRuns, Processes, MachineTypeOK, InstallerTypeOK
  <2> QED
    BY <2>1, <2>2, <1>18 DEF ServiceRuns, Undisturbed, ProcessesRunWhatIsInstalled
<1>19. CASE ReportStopped
  BY <1>19 DEF ReportStopped, Goto, Busy, Disturb, Undisturbed, Stopped, Ended, InstallSteps,
     UninstallSteps, InstallerTypeOK, MachineTypeOK, JobTypeOK, ProcessesRunWhatIsInstalled, Jobs
<1>20. CASE ProcessExits
  BY <1>20 DEF ProcessExits, Goto, Busy, Disturb, Undisturbed, Stopped, Ended, InstallSteps,
     UninstallSteps, InstallerTypeOK, MachineTypeOK, JobTypeOK, ProcessesRunWhatIsInstalled, Jobs
<1>21. CASE EntryGoes
  BY <1>21 DEF EntryGoes, Goto, Busy, Disturb, Undisturbed, Stopped, Ended, InstallSteps,
     UninstallSteps, InstallerTypeOK, MachineTypeOK, JobTypeOK, ProcessesRunWhatIsInstalled, Jobs
<1>22. CASE ForeignDirectory
  BY <1>22 DEF ForeignDirectory, Goto, Busy, Disturb, Undisturbed, Stopped, Ended,
     InstallSteps, UninstallSteps, InstallerTypeOK, MachineTypeOK, JobTypeOK, ProcessesRunWhatIsInstalled, Jobs
<1>23. CASE UNCHANGED installVars
  BY <1>23 DEF installVars, Goto, Busy, Disturb, Undisturbed, Stopped, Ended, InstallSteps,
     UninstallSteps, InstallerTypeOK, MachineTypeOK, JobTypeOK, ProcessesRunWhatIsInstalled, Jobs
<1> QED
  BY <1>1, <1>2, <1>3, <1>4, <1>5, <1>6, <1>7, <1>8, <1>9, <1>10, <1>11, <1>12,
     <1>13, <1>14, <1>15, <1>16, <1>17, <1>18, <1>19, <1>20, <1>21, <1>22, <1>23
     DEF InstallerNext, JobStep, ServiceStep

\* Every step finds what the steps before it did.
LEMMA BuildStep ==
    ASSUME InstallerTypeOK, ProcessesRunWhatIsInstalled, StepsBuildOn,
           [InstallerNext]_installVars
    PROVE  StepsBuildOn'
<1> USE BrokerIsAFile, NoneIsApart DEF installVars, serviceVars, InUse
<1>1. ASSUME NEW kind \in {"install", "uninstall"}, NEW u \in Users, NEW v \in Versions, Begin(kind, u, v)
      PROVE  StepsBuildOn'
  BY <1>1 DEF Begin, Goto, Busy, Disturb, Undisturbed, Stopped, Ended, InstallSteps,
     UninstallSteps, InstallerTypeOK, MachineTypeOK, JobTypeOK, ProcessesRunWhatIsInstalled, StepsBuildOn, Jobs
<1>2. CASE StopService
  BY <1>2 DEF StopService, Goto, Busy, Disturb, Undisturbed, Stopped, Ended, InstallSteps,
     UninstallSteps, InstallerTypeOK, MachineTypeOK, JobTypeOK, ProcessesRunWhatIsInstalled, StepsBuildOn, Jobs
<1>3. CASE AwaitStopped
  BY <1>3 DEF AwaitStopped, Goto, Busy, Disturb, Undisturbed, Stopped, Ended, InstallSteps,
     UninstallSteps, InstallerTypeOK, MachineTypeOK, JobTypeOK, ProcessesRunWhatIsInstalled, StepsBuildOn, Jobs
<1>4. ASSUME NEW f \in Files, Copy(f)
      PROVE  StepsBuildOn'
  BY <1>4 DEF Copy, Goto, Busy, Disturb, Undisturbed, Stopped, Ended, InstallSteps,
     UninstallSteps, InstallerTypeOK, MachineTypeOK, JobTypeOK, ProcessesRunWhatIsInstalled, StepsBuildOn, Jobs
<1>5. CASE Create
  BY <1>5 DEF Create, Goto, Busy, Disturb, Undisturbed, Stopped, Ended, InstallSteps,
     UninstallSteps, InstallerTypeOK, MachineTypeOK, JobTypeOK, ProcessesRunWhatIsInstalled, StepsBuildOn, Jobs
<1>6. CASE Configure
  BY <1>6 DEF Configure, Goto, Busy, Disturb, Undisturbed, Stopped, Ended, InstallSteps,
     UninstallSteps, InstallerTypeOK, MachineTypeOK, JobTypeOK, ProcessesRunWhatIsInstalled, StepsBuildOn, Jobs
<1>7. CASE Secure
  BY <1>7 DEF Secure, Goto, Busy, Disturb, Undisturbed, Stopped, Ended, InstallSteps,
     UninstallSteps, InstallerTypeOK, MachineTypeOK, JobTypeOK, ProcessesRunWhatIsInstalled, StepsBuildOn, Jobs
<1>8. CASE RegisterEventSource
  BY <1>8 DEF RegisterEventSource, Goto, Busy, Disturb, Undisturbed, Stopped, Ended,
     InstallSteps, UninstallSteps, InstallerTypeOK, MachineTypeOK, JobTypeOK, ProcessesRunWhatIsInstalled, StepsBuildOn, Jobs
<1>9. CASE SecureDirectories
  BY <1>9 DEF SecureDirectories, Goto, Busy, Disturb, Undisturbed, Stopped, Ended,
     InstallSteps, UninstallSteps, InstallerTypeOK, MachineTypeOK, JobTypeOK, ProcessesRunWhatIsInstalled, StepsBuildOn, Jobs
<1>10. CASE UpdatePolicy
  BY <1>10 DEF UpdatePolicy, Goto, Busy, Disturb, Undisturbed, Stopped, Ended, InstallSteps,
     UninstallSteps, InstallerTypeOK, MachineTypeOK, JobTypeOK, ProcessesRunWhatIsInstalled, StepsBuildOn, Jobs
<1>11. CASE WritePolicy
  BY <1>11 DEF WritePolicy, Goto, Busy, Disturb, Undisturbed, Stopped, Ended, InstallSteps,
     UninstallSteps, InstallerTypeOK, MachineTypeOK, JobTypeOK, ProcessesRunWhatIsInstalled, StepsBuildOn, Jobs
<1>12. CASE Delete
  BY <1>12 DEF Delete, Goto, Busy, Disturb, Undisturbed, Stopped, Ended, InstallSteps,
     UninstallSteps, InstallerTypeOK, MachineTypeOK, JobTypeOK, ProcessesRunWhatIsInstalled, StepsBuildOn, Jobs
<1>13. CASE UnregisterEventSource
  BY <1>13 DEF UnregisterEventSource, Goto, Busy, Disturb, Undisturbed, Stopped, Ended,
     InstallSteps, UninstallSteps, InstallerTypeOK, MachineTypeOK, JobTypeOK, ProcessesRunWhatIsInstalled, StepsBuildOn, Jobs
<1>14. ASSUME NEW f \in Files, Remove(f)
      PROVE  StepsBuildOn'
  BY <1>14 DEF Remove, Goto, Busy, Disturb, Undisturbed, Stopped, Ended, InstallSteps,
     UninstallSteps, InstallerTypeOK, MachineTypeOK, JobTypeOK, ProcessesRunWhatIsInstalled, StepsBuildOn, Jobs
<1>15. CASE ConfigurationFails
  BY <1>15 DEF ConfigurationFails, Goto, Busy, Disturb, Undisturbed, Stopped, Ended,
     InstallSteps, UninstallSteps, InstallerTypeOK, MachineTypeOK, JobTypeOK, ProcessesRunWhatIsInstalled, StepsBuildOn, Jobs
<1>16. CASE Interrupt
  BY <1>16 DEF Interrupt, Goto, Busy, Disturb, Undisturbed, Stopped, Ended, InstallSteps,
     UninstallSteps, InstallerTypeOK, MachineTypeOK, JobTypeOK, ProcessesRunWhatIsInstalled, StepsBuildOn, Jobs
<1>17. CASE Launch
  BY <1>17 DEF Launch, Goto, Busy, Disturb, Undisturbed, Stopped, Ended, InstallSteps,
     UninstallSteps, InstallerTypeOK, MachineTypeOK, JobTypeOK, ProcessesRunWhatIsInstalled, StepsBuildOn, Jobs
<1>18. CASE ServiceRuns
  BY <1>18 DEF ServiceRuns, Goto, Busy, Disturb, Undisturbed, Stopped, Ended, InstallSteps,
     UninstallSteps, InstallerTypeOK, MachineTypeOK, JobTypeOK, ProcessesRunWhatIsInstalled, StepsBuildOn, Jobs
<1>19. CASE ReportStopped
  BY <1>19 DEF ReportStopped, Goto, Busy, Disturb, Undisturbed, Stopped, Ended, InstallSteps,
     UninstallSteps, InstallerTypeOK, MachineTypeOK, JobTypeOK, ProcessesRunWhatIsInstalled, StepsBuildOn, Jobs
<1>20. CASE ProcessExits
  BY <1>20 DEF ProcessExits, Goto, Busy, Disturb, Undisturbed, Stopped, Ended, InstallSteps,
     UninstallSteps, InstallerTypeOK, MachineTypeOK, JobTypeOK, ProcessesRunWhatIsInstalled, StepsBuildOn, Jobs
<1>21. CASE EntryGoes
  BY <1>21 DEF EntryGoes, Goto, Busy, Disturb, Undisturbed, Stopped, Ended, InstallSteps,
     UninstallSteps, InstallerTypeOK, MachineTypeOK, JobTypeOK, ProcessesRunWhatIsInstalled, StepsBuildOn, Jobs
<1>22. CASE ForeignDirectory
  BY <1>22 DEF ForeignDirectory, Goto, Busy, Disturb, Undisturbed, Stopped, Ended,
     InstallSteps, UninstallSteps, InstallerTypeOK, MachineTypeOK, JobTypeOK, ProcessesRunWhatIsInstalled, StepsBuildOn, Jobs
<1>23. CASE UNCHANGED installVars
  BY <1>23 DEF installVars, Goto, Busy, Disturb, Undisturbed, Stopped, Ended, InstallSteps,
     UninstallSteps, InstallerTypeOK, MachineTypeOK, JobTypeOK, ProcessesRunWhatIsInstalled, StepsBuildOn, Jobs
<1> QED
  BY <1>1, <1>2, <1>3, <1>4, <1>5, <1>6, <1>7, <1>8, <1>9, <1>10, <1>11, <1>12,
     <1>13, <1>14, <1>15, <1>16, <1>17, <1>18, <1>19, <1>20, <1>21, <1>22, <1>23
     DEF InstallerNext, JobStep, ServiceStep

\* Installations that succeed are complete.
LEMMA CompleteStep ==
    ASSUME InstallerTypeOK, ProcessesRunWhatIsInstalled, StepsBuildOn, InstalledIsComplete,
           [InstallerNext]_installVars
    PROVE  InstalledIsComplete'
<1> USE BrokerIsAFile, NoneIsApart DEF installVars, serviceVars, InUse
<1>j. job # None => job \in Jobs /\ job.user \in Users /\ job.version \in Versions
  BY DEF InstallerTypeOK, JobTypeOK, Jobs
<1>1. ASSUME NEW kind \in {"install", "uninstall"}, NEW u \in Users, NEW v \in Versions, Begin(kind, u, v)
      PROVE  InstalledIsComplete'
  BY <1>1 DEF Begin, Goto, Busy, Disturb, Undisturbed, Stopped, Ended, InstallSteps,
     UninstallSteps, InstallerTypeOK, MachineTypeOK, JobTypeOK, ProcessesRunWhatIsInstalled, StepsBuildOn, InstalledIsComplete
<1>2. CASE StopService
  BY <1>2 DEF StopService, Goto, Busy, Disturb, Undisturbed, Stopped, Ended, InstallSteps,
     UninstallSteps, InstallerTypeOK, MachineTypeOK, JobTypeOK, ProcessesRunWhatIsInstalled, StepsBuildOn, InstalledIsComplete
<1>3. CASE AwaitStopped
  BY <1>3 DEF AwaitStopped, Goto, Busy, Disturb, Undisturbed, Stopped, Ended, InstallSteps,
     UninstallSteps, InstallerTypeOK, MachineTypeOK, JobTypeOK, ProcessesRunWhatIsInstalled, StepsBuildOn, InstalledIsComplete
<1>4. ASSUME NEW f \in Files, Copy(f)
      PROVE  InstalledIsComplete'
  BY <1>4 DEF Copy, Goto, Busy, Disturb, Undisturbed, Stopped, Ended, InstallSteps,
     UninstallSteps, InstallerTypeOK, MachineTypeOK, JobTypeOK, ProcessesRunWhatIsInstalled, StepsBuildOn, InstalledIsComplete
<1>5. CASE Create
  BY <1>5 DEF Create, Goto, Busy, Disturb, Undisturbed, Stopped, Ended, InstallSteps,
     UninstallSteps, InstallerTypeOK, MachineTypeOK, JobTypeOK, ProcessesRunWhatIsInstalled, StepsBuildOn, InstalledIsComplete
<1>6. CASE Configure
  BY <1>6 DEF Configure, Goto, Busy, Disturb, Undisturbed, Stopped, Ended, InstallSteps,
     UninstallSteps, InstallerTypeOK, MachineTypeOK, JobTypeOK, ProcessesRunWhatIsInstalled, StepsBuildOn, InstalledIsComplete
<1>7. CASE Secure
  BY <1>7 DEF Secure, Goto, Busy, Disturb, Undisturbed, Stopped, Ended, InstallSteps,
     UninstallSteps, InstallerTypeOK, MachineTypeOK, JobTypeOK, ProcessesRunWhatIsInstalled, StepsBuildOn, InstalledIsComplete
<1>8. CASE RegisterEventSource
  BY <1>8 DEF RegisterEventSource, Goto, Busy, Disturb, Undisturbed, Stopped, Ended,
     InstallSteps, UninstallSteps, InstallerTypeOK, MachineTypeOK, JobTypeOK, ProcessesRunWhatIsInstalled, StepsBuildOn, InstalledIsComplete
<1>9. CASE SecureDirectories
  BY <1>9 DEF SecureDirectories, Goto, Busy, Disturb, Undisturbed, Stopped, Ended,
     InstallSteps, UninstallSteps, InstallerTypeOK, MachineTypeOK, JobTypeOK, ProcessesRunWhatIsInstalled, StepsBuildOn, InstalledIsComplete
<1>10. CASE UpdatePolicy
  BY <1>10 DEF UpdatePolicy, Goto, Busy, Disturb, Undisturbed, Stopped, Ended, InstallSteps,
     UninstallSteps, InstallerTypeOK, MachineTypeOK, JobTypeOK, ProcessesRunWhatIsInstalled, StepsBuildOn, InstalledIsComplete
<1>11. CASE WritePolicy
  BY <1>j, <1>11 DEF WritePolicy, Goto, Busy, Disturb, Undisturbed, Stopped, Ended, InstallSteps,
     UninstallSteps, InstallerTypeOK, MachineTypeOK, JobTypeOK, ProcessesRunWhatIsInstalled, StepsBuildOn, InstalledIsComplete
<1>12. CASE Delete
  BY <1>12 DEF Delete, Goto, Busy, Disturb, Undisturbed, Stopped, Ended, InstallSteps,
     UninstallSteps, InstallerTypeOK, MachineTypeOK, JobTypeOK, ProcessesRunWhatIsInstalled, StepsBuildOn, InstalledIsComplete
<1>13. CASE UnregisterEventSource
  BY <1>13 DEF UnregisterEventSource, Goto, Busy, Disturb, Undisturbed, Stopped, Ended,
     InstallSteps, UninstallSteps, InstallerTypeOK, MachineTypeOK, JobTypeOK, ProcessesRunWhatIsInstalled, StepsBuildOn, InstalledIsComplete
<1>14. ASSUME NEW f \in Files, Remove(f)
      PROVE  InstalledIsComplete'
  BY <1>14 DEF Remove, Goto, Busy, Disturb, Undisturbed, Stopped, Ended, InstallSteps,
     UninstallSteps, InstallerTypeOK, MachineTypeOK, JobTypeOK, ProcessesRunWhatIsInstalled, StepsBuildOn, InstalledIsComplete
<1>15. CASE ConfigurationFails
  BY <1>15 DEF ConfigurationFails, Goto, Busy, Disturb, Undisturbed, Stopped, Ended,
     InstallSteps, UninstallSteps, InstallerTypeOK, MachineTypeOK, JobTypeOK, ProcessesRunWhatIsInstalled, StepsBuildOn, InstalledIsComplete
<1>16. CASE Interrupt
  BY <1>16 DEF Interrupt, Goto, Busy, Disturb, Undisturbed, Stopped, Ended, InstallSteps,
     UninstallSteps, InstallerTypeOK, MachineTypeOK, JobTypeOK, ProcessesRunWhatIsInstalled, StepsBuildOn, InstalledIsComplete
<1>17. CASE Launch
  BY <1>17 DEF Launch, Goto, Busy, Disturb, Undisturbed, Stopped, Ended, InstallSteps,
     UninstallSteps, InstallerTypeOK, MachineTypeOK, JobTypeOK, ProcessesRunWhatIsInstalled, StepsBuildOn, InstalledIsComplete
<1>18. CASE ServiceRuns
  BY <1>18 DEF ServiceRuns, Goto, Busy, Disturb, Undisturbed, Stopped, Ended, InstallSteps,
     UninstallSteps, InstallerTypeOK, MachineTypeOK, JobTypeOK, ProcessesRunWhatIsInstalled, StepsBuildOn, InstalledIsComplete
<1>19. CASE ReportStopped
  BY <1>19 DEF ReportStopped, Goto, Busy, Disturb, Undisturbed, Stopped, Ended, InstallSteps,
     UninstallSteps, InstallerTypeOK, MachineTypeOK, JobTypeOK, ProcessesRunWhatIsInstalled, StepsBuildOn, InstalledIsComplete
<1>20. CASE ProcessExits
  BY <1>20 DEF ProcessExits, Goto, Busy, Disturb, Undisturbed, Stopped, Ended, InstallSteps,
     UninstallSteps, InstallerTypeOK, MachineTypeOK, JobTypeOK, ProcessesRunWhatIsInstalled, StepsBuildOn, InstalledIsComplete
<1>21. CASE EntryGoes
  BY <1>21 DEF EntryGoes, Goto, Busy, Disturb, Undisturbed, Stopped, Ended, InstallSteps,
     UninstallSteps, InstallerTypeOK, MachineTypeOK, JobTypeOK, ProcessesRunWhatIsInstalled, StepsBuildOn, InstalledIsComplete
<1>22. CASE ForeignDirectory
  BY <1>22 DEF ForeignDirectory, Goto, Busy, Disturb, Undisturbed, Stopped, Ended,
     InstallSteps, UninstallSteps, InstallerTypeOK, MachineTypeOK, JobTypeOK, ProcessesRunWhatIsInstalled, StepsBuildOn, InstalledIsComplete
<1>23. CASE UNCHANGED installVars
  BY <1>23 DEF installVars, Goto, Busy, Disturb, Undisturbed, Stopped, Ended, InstallSteps,
     UninstallSteps, InstallerTypeOK, MachineTypeOK, JobTypeOK, ProcessesRunWhatIsInstalled, StepsBuildOn, InstalledIsComplete
<1> QED
  BY <1>1, <1>2, <1>3, <1>4, <1>5, <1>6, <1>7, <1>8, <1>9, <1>10, <1>11, <1>12,
     <1>13, <1>14, <1>15, <1>16, <1>17, <1>18, <1>19, <1>20, <1>21, <1>22, <1>23
     DEF InstallerNext, JobStep, ServiceStep

\* Removals that succeed leave nothing.
LEMMA NothingStep ==
    ASSUME InstallerTypeOK, ProcessesRunWhatIsInstalled, StepsBuildOn, UninstalledLeavesNothing,
           [InstallerNext]_installVars
    PROVE  UninstalledLeavesNothing'
<1> USE BrokerIsAFile, NoneIsApart DEF installVars, serviceVars, InUse
<1>1. ASSUME NEW kind \in {"install", "uninstall"}, NEW u \in Users, NEW v \in Versions, Begin(kind, u, v)
      PROVE  UninstalledLeavesNothing'
  BY <1>1 DEF Begin, Goto, Busy, Disturb, Undisturbed, Stopped, Ended, InstallSteps,
     UninstallSteps, InstallerTypeOK, MachineTypeOK, JobTypeOK, ProcessesRunWhatIsInstalled, StepsBuildOn, UninstalledLeavesNothing
<1>2. CASE StopService
  BY <1>2 DEF StopService, Goto, Busy, Disturb, Undisturbed, Stopped, Ended, InstallSteps,
     UninstallSteps, InstallerTypeOK, MachineTypeOK, JobTypeOK, ProcessesRunWhatIsInstalled, StepsBuildOn, UninstalledLeavesNothing
<1>3. CASE AwaitStopped
  BY <1>3 DEF AwaitStopped, Goto, Busy, Disturb, Undisturbed, Stopped, Ended, InstallSteps,
     UninstallSteps, InstallerTypeOK, MachineTypeOK, JobTypeOK, ProcessesRunWhatIsInstalled, StepsBuildOn, UninstalledLeavesNothing
<1>4. ASSUME NEW f \in Files, Copy(f)
      PROVE  UninstalledLeavesNothing'
  BY <1>4 DEF Copy, Goto, Busy, Disturb, Undisturbed, Stopped, Ended, InstallSteps,
     UninstallSteps, InstallerTypeOK, MachineTypeOK, JobTypeOK, ProcessesRunWhatIsInstalled, StepsBuildOn, UninstalledLeavesNothing
<1>5. CASE Create
  BY <1>5 DEF Create, Goto, Busy, Disturb, Undisturbed, Stopped, Ended, InstallSteps,
     UninstallSteps, InstallerTypeOK, MachineTypeOK, JobTypeOK, ProcessesRunWhatIsInstalled, StepsBuildOn, UninstalledLeavesNothing
<1>6. CASE Configure
  BY <1>6 DEF Configure, Goto, Busy, Disturb, Undisturbed, Stopped, Ended, InstallSteps,
     UninstallSteps, InstallerTypeOK, MachineTypeOK, JobTypeOK, ProcessesRunWhatIsInstalled, StepsBuildOn, UninstalledLeavesNothing
<1>7. CASE Secure
  BY <1>7 DEF Secure, Goto, Busy, Disturb, Undisturbed, Stopped, Ended, InstallSteps,
     UninstallSteps, InstallerTypeOK, MachineTypeOK, JobTypeOK, ProcessesRunWhatIsInstalled, StepsBuildOn, UninstalledLeavesNothing
<1>8. CASE RegisterEventSource
  BY <1>8 DEF RegisterEventSource, Goto, Busy, Disturb, Undisturbed, Stopped, Ended,
     InstallSteps, UninstallSteps, InstallerTypeOK, MachineTypeOK, JobTypeOK, ProcessesRunWhatIsInstalled, StepsBuildOn, UninstalledLeavesNothing
<1>9. CASE SecureDirectories
  BY <1>9 DEF SecureDirectories, Goto, Busy, Disturb, Undisturbed, Stopped, Ended,
     InstallSteps, UninstallSteps, InstallerTypeOK, MachineTypeOK, JobTypeOK, ProcessesRunWhatIsInstalled, StepsBuildOn, UninstalledLeavesNothing
<1>10. CASE UpdatePolicy
  BY <1>10 DEF UpdatePolicy, Goto, Busy, Disturb, Undisturbed, Stopped, Ended, InstallSteps,
     UninstallSteps, InstallerTypeOK, MachineTypeOK, JobTypeOK, ProcessesRunWhatIsInstalled, StepsBuildOn, UninstalledLeavesNothing
<1>11. CASE WritePolicy
  BY <1>11 DEF WritePolicy, Goto, Busy, Disturb, Undisturbed, Stopped, Ended, InstallSteps,
     UninstallSteps, InstallerTypeOK, MachineTypeOK, JobTypeOK, ProcessesRunWhatIsInstalled, StepsBuildOn, UninstalledLeavesNothing
<1>12. CASE Delete
  BY <1>12 DEF Delete, Goto, Busy, Disturb, Undisturbed, Stopped, Ended, InstallSteps,
     UninstallSteps, InstallerTypeOK, MachineTypeOK, JobTypeOK, ProcessesRunWhatIsInstalled, StepsBuildOn, UninstalledLeavesNothing
<1>13. CASE UnregisterEventSource
  BY <1>13 DEF UnregisterEventSource, Goto, Busy, Disturb, Undisturbed, Stopped, Ended,
     InstallSteps, UninstallSteps, InstallerTypeOK, MachineTypeOK, JobTypeOK, ProcessesRunWhatIsInstalled, StepsBuildOn, UninstalledLeavesNothing
<1>14. ASSUME NEW f \in Files, Remove(f)
      PROVE  UninstalledLeavesNothing'
  BY <1>14 DEF Remove, Goto, Busy, Disturb, Undisturbed, Stopped, Ended, InstallSteps,
     UninstallSteps, InstallerTypeOK, MachineTypeOK, JobTypeOK, ProcessesRunWhatIsInstalled, StepsBuildOn, UninstalledLeavesNothing
<1>15. CASE ConfigurationFails
  BY <1>15 DEF ConfigurationFails, Goto, Busy, Disturb, Undisturbed, Stopped, Ended,
     InstallSteps, UninstallSteps, InstallerTypeOK, MachineTypeOK, JobTypeOK, ProcessesRunWhatIsInstalled, StepsBuildOn, UninstalledLeavesNothing
<1>16. CASE Interrupt
  BY <1>16 DEF Interrupt, Goto, Busy, Disturb, Undisturbed, Stopped, Ended, InstallSteps,
     UninstallSteps, InstallerTypeOK, MachineTypeOK, JobTypeOK, ProcessesRunWhatIsInstalled, StepsBuildOn, UninstalledLeavesNothing
<1>17. CASE Launch
  BY <1>17 DEF Launch, Goto, Busy, Disturb, Undisturbed, Stopped, Ended, InstallSteps,
     UninstallSteps, InstallerTypeOK, MachineTypeOK, JobTypeOK, ProcessesRunWhatIsInstalled, StepsBuildOn, UninstalledLeavesNothing
<1>18. CASE ServiceRuns
  BY <1>18 DEF ServiceRuns, Goto, Busy, Disturb, Undisturbed, Stopped, Ended, InstallSteps,
     UninstallSteps, InstallerTypeOK, MachineTypeOK, JobTypeOK, ProcessesRunWhatIsInstalled, StepsBuildOn, UninstalledLeavesNothing
<1>19. CASE ReportStopped
  BY <1>19 DEF ReportStopped, Goto, Busy, Disturb, Undisturbed, Stopped, Ended, InstallSteps,
     UninstallSteps, InstallerTypeOK, MachineTypeOK, JobTypeOK, ProcessesRunWhatIsInstalled, StepsBuildOn, UninstalledLeavesNothing
<1>20. CASE ProcessExits
  BY <1>20 DEF ProcessExits, Goto, Busy, Disturb, Undisturbed, Stopped, Ended, InstallSteps,
     UninstallSteps, InstallerTypeOK, MachineTypeOK, JobTypeOK, ProcessesRunWhatIsInstalled, StepsBuildOn, UninstalledLeavesNothing
<1>21. CASE EntryGoes
  BY <1>21 DEF EntryGoes, Goto, Busy, Disturb, Undisturbed, Stopped, Ended, InstallSteps,
     UninstallSteps, InstallerTypeOK, MachineTypeOK, JobTypeOK, ProcessesRunWhatIsInstalled, StepsBuildOn, UninstalledLeavesNothing
<1>22. CASE ForeignDirectory
  BY <1>22 DEF ForeignDirectory, Goto, Busy, Disturb, Undisturbed, Stopped, Ended,
     InstallSteps, UninstallSteps, InstallerTypeOK, MachineTypeOK, JobTypeOK, ProcessesRunWhatIsInstalled, StepsBuildOn, UninstalledLeavesNothing
<1>23. CASE UNCHANGED installVars
  BY <1>23 DEF installVars, Goto, Busy, Disturb, Undisturbed, Stopped, Ended, InstallSteps,
     UninstallSteps, InstallerTypeOK, MachineTypeOK, JobTypeOK, ProcessesRunWhatIsInstalled, StepsBuildOn, UninstalledLeavesNothing
<1> QED
  BY <1>1, <1>2, <1>3, <1>4, <1>5, <1>6, <1>7, <1>8, <1>9, <1>10, <1>11, <1>12,
     <1>13, <1>14, <1>15, <1>16, <1>17, <1>18, <1>19, <1>20, <1>21, <1>22, <1>23
     DEF InstallerNext, JobStep, ServiceStep

\* What is not disturbed stays clear.
LEMMA CalmStep ==
    ASSUME InstallerTypeOK, ProcessesRunWhatIsInstalled, CalmStaysClear,
           [InstallerNext]_installVars
    PROVE  CalmStaysClear'
<1> USE BrokerIsAFile, NoneIsApart DEF installVars, serviceVars, InUse
<1>1. ASSUME NEW kind \in {"install", "uninstall"}, NEW u \in Users, NEW v \in Versions, Begin(kind, u, v)
      PROVE  CalmStaysClear'
  BY <1>1 DEF Begin, Goto, Busy, Disturb, Undisturbed, Stopped, Ended, InstallSteps,
     UninstallSteps, InstallerTypeOK, MachineTypeOK, JobTypeOK, ProcessesRunWhatIsInstalled, CalmStaysClear, Jobs
<1>2. CASE StopService
  BY <1>2 DEF StopService, Goto, Busy, Disturb, Undisturbed, Stopped, Ended, InstallSteps,
     UninstallSteps, InstallerTypeOK, MachineTypeOK, JobTypeOK, ProcessesRunWhatIsInstalled, CalmStaysClear, Jobs
<1>3. CASE AwaitStopped
  BY <1>3 DEF AwaitStopped, Goto, Busy, Disturb, Undisturbed, Stopped, Ended, InstallSteps,
     UninstallSteps, InstallerTypeOK, MachineTypeOK, JobTypeOK, ProcessesRunWhatIsInstalled, CalmStaysClear, Jobs
<1>4. ASSUME NEW f \in Files, Copy(f)
      PROVE  CalmStaysClear'
  BY <1>4 DEF Copy, Goto, Busy, Disturb, Undisturbed, Stopped, Ended, InstallSteps,
     UninstallSteps, InstallerTypeOK, MachineTypeOK, JobTypeOK, ProcessesRunWhatIsInstalled, CalmStaysClear, Jobs
<1>5. CASE Create
  BY <1>5 DEF Create, Goto, Busy, Disturb, Undisturbed, Stopped, Ended, InstallSteps,
     UninstallSteps, InstallerTypeOK, MachineTypeOK, JobTypeOK, ProcessesRunWhatIsInstalled, CalmStaysClear, Jobs
<1>6. CASE Configure
  BY <1>6 DEF Configure, Goto, Busy, Disturb, Undisturbed, Stopped, Ended, InstallSteps,
     UninstallSteps, InstallerTypeOK, MachineTypeOK, JobTypeOK, ProcessesRunWhatIsInstalled, CalmStaysClear, Jobs
<1>7. CASE Secure
  BY <1>7 DEF Secure, Goto, Busy, Disturb, Undisturbed, Stopped, Ended, InstallSteps,
     UninstallSteps, InstallerTypeOK, MachineTypeOK, JobTypeOK, ProcessesRunWhatIsInstalled, CalmStaysClear, Jobs
<1>8. CASE RegisterEventSource
  BY <1>8 DEF RegisterEventSource, Goto, Busy, Disturb, Undisturbed, Stopped, Ended,
     InstallSteps, UninstallSteps, InstallerTypeOK, MachineTypeOK, JobTypeOK, ProcessesRunWhatIsInstalled, CalmStaysClear, Jobs
<1>9. CASE SecureDirectories
  BY <1>9 DEF SecureDirectories, Goto, Busy, Disturb, Undisturbed, Stopped, Ended,
     InstallSteps, UninstallSteps, InstallerTypeOK, MachineTypeOK, JobTypeOK, ProcessesRunWhatIsInstalled, CalmStaysClear, Jobs
<1>10. CASE UpdatePolicy
  BY <1>10 DEF UpdatePolicy, Goto, Busy, Disturb, Undisturbed, Stopped, Ended, InstallSteps,
     UninstallSteps, InstallerTypeOK, MachineTypeOK, JobTypeOK, ProcessesRunWhatIsInstalled, CalmStaysClear, Jobs
<1>11. CASE WritePolicy
  BY <1>11 DEF WritePolicy, Goto, Busy, Disturb, Undisturbed, Stopped, Ended, InstallSteps,
     UninstallSteps, InstallerTypeOK, MachineTypeOK, JobTypeOK, ProcessesRunWhatIsInstalled, CalmStaysClear, Jobs
<1>12. CASE Delete
  BY <1>12 DEF Delete, Goto, Busy, Disturb, Undisturbed, Stopped, Ended, InstallSteps,
     UninstallSteps, InstallerTypeOK, MachineTypeOK, JobTypeOK, ProcessesRunWhatIsInstalled, CalmStaysClear, Jobs
<1>13. CASE UnregisterEventSource
  BY <1>13 DEF UnregisterEventSource, Goto, Busy, Disturb, Undisturbed, Stopped, Ended,
     InstallSteps, UninstallSteps, InstallerTypeOK, MachineTypeOK, JobTypeOK, ProcessesRunWhatIsInstalled, CalmStaysClear, Jobs
<1>14. ASSUME NEW f \in Files, Remove(f)
      PROVE  CalmStaysClear'
  BY <1>14 DEF Remove, Goto, Busy, Disturb, Undisturbed, Stopped, Ended, InstallSteps,
     UninstallSteps, InstallerTypeOK, MachineTypeOK, JobTypeOK, ProcessesRunWhatIsInstalled, CalmStaysClear, Jobs
<1>15. CASE ConfigurationFails
  BY <1>15 DEF ConfigurationFails, Goto, Busy, Disturb, Undisturbed, Stopped, Ended,
     InstallSteps, UninstallSteps, InstallerTypeOK, MachineTypeOK, JobTypeOK, ProcessesRunWhatIsInstalled, CalmStaysClear, Jobs
<1>16. CASE Interrupt
  BY <1>16 DEF Interrupt, Goto, Busy, Disturb, Undisturbed, Stopped, Ended, InstallSteps,
     UninstallSteps, InstallerTypeOK, MachineTypeOK, JobTypeOK, ProcessesRunWhatIsInstalled, CalmStaysClear, Jobs
<1>17. CASE Launch
  BY <1>17 DEF Launch, Goto, Busy, Disturb, Undisturbed, Stopped, Ended, InstallSteps,
     UninstallSteps, InstallerTypeOK, MachineTypeOK, JobTypeOK, ProcessesRunWhatIsInstalled, CalmStaysClear, Jobs
<1>18. CASE ServiceRuns
  BY <1>18 DEF ServiceRuns, Goto, Busy, Disturb, Undisturbed, Stopped, Ended, InstallSteps,
     UninstallSteps, InstallerTypeOK, MachineTypeOK, JobTypeOK, ProcessesRunWhatIsInstalled, CalmStaysClear, Jobs
<1>19. CASE ReportStopped
  BY <1>19 DEF ReportStopped, Goto, Busy, Disturb, Undisturbed, Stopped, Ended, InstallSteps,
     UninstallSteps, InstallerTypeOK, MachineTypeOK, JobTypeOK, ProcessesRunWhatIsInstalled, CalmStaysClear, Jobs
<1>20. CASE ProcessExits
  BY <1>20 DEF ProcessExits, Goto, Busy, Disturb, Undisturbed, Stopped, Ended, InstallSteps,
     UninstallSteps, InstallerTypeOK, MachineTypeOK, JobTypeOK, ProcessesRunWhatIsInstalled, CalmStaysClear, Jobs
<1>21. CASE EntryGoes
  BY <1>21 DEF EntryGoes, Goto, Busy, Disturb, Undisturbed, Stopped, Ended, InstallSteps,
     UninstallSteps, InstallerTypeOK, MachineTypeOK, JobTypeOK, ProcessesRunWhatIsInstalled, CalmStaysClear, Jobs
<1>22. CASE ForeignDirectory
  BY <1>22 DEF ForeignDirectory, Goto, Busy, Disturb, Undisturbed, Stopped, Ended,
     InstallSteps, UninstallSteps, InstallerTypeOK, MachineTypeOK, JobTypeOK, ProcessesRunWhatIsInstalled, CalmStaysClear, Jobs
<1>23. CASE UNCHANGED installVars
  BY <1>23 DEF installVars, Goto, Busy, Disturb, Undisturbed, Stopped, Ended, InstallSteps,
     UninstallSteps, InstallerTypeOK, MachineTypeOK, JobTypeOK, ProcessesRunWhatIsInstalled, CalmStaysClear, Jobs
<1> QED
  BY <1>1, <1>2, <1>3, <1>4, <1>5, <1>6, <1>7, <1>8, <1>9, <1>10, <1>11, <1>12,
     <1>13, <1>14, <1>15, <1>16, <1>17, <1>18, <1>19, <1>20, <1>21, <1>22, <1>23
     DEF InstallerNext, JobStep, ServiceStep

\* The machine starts with no service, and no job has run.
LEMMA InvariantInit == InstallerInit => InstallerInvariant
<1> SUFFICES ASSUME InstallerInit PROVE InstallerInvariant
  OBVIOUS
<1> USE NoneIsApart, BrokerIsAFile DEF InstallerInit
<1>1. InstallerTypeOK
  BY DEF InstallerTypeOK, MachineTypeOK, JobTypeOK, Ended
<1>2. ProcessesRunWhatIsInstalled
  BY DEF ProcessesRunWhatIsInstalled, InUse, InstallSteps, UninstallSteps
<1>3. StepsBuildOn /\ InstalledIsComplete /\ UninstalledLeavesNothing /\ CalmStaysClear
  BY DEF StepsBuildOn, InstalledIsComplete, UninstalledLeavesNothing, CalmStaysClear, InstallSteps
<1> QED
  BY <1>1, <1>2, <1>3 DEF InstallerInvariant

\* Every step keeps the invariant.
LEMMA InvariantStep == InstallerInvariant /\ [InstallerNext]_installVars => InstallerInvariant'
<1> SUFFICES ASSUME InstallerInvariant, [InstallerNext]_installVars PROVE InstallerInvariant'
  OBVIOUS
<1>1. /\ InstallerTypeOK /\ ProcessesRunWhatIsInstalled /\ StepsBuildOn
      /\ InstalledIsComplete /\ UninstalledLeavesNothing /\ CalmStaysClear
  BY DEF InstallerInvariant
<1>2. InstallerTypeOK' /\ ProcessesRunWhatIsInstalled'
  BY <1>1, TypeStep, ProcessStep
<1>3. StepsBuildOn' /\ InstalledIsComplete'
  BY <1>1, BuildStep, CompleteStep
<1>4. UninstalledLeavesNothing' /\ CalmStaysClear'
  BY <1>1, NothingStep, CalmStep
<1> QED
  BY <1>2, <1>3, <1>4 DEF InstallerInvariant

\* Installation keeps its inductive invariant (InstallBrokerService, UninstallBrokerService).
THEOREM InvariantHolds == InstallerSpec => []InstallerInvariant
<1> QED
  BY InvariantInit, InvariantStep, PTL DEF InstallerSpec

\* An installation that reports success is complete (InstallBrokerService).
THEOREM Installed == InstallerSpec => []InstalledIsComplete
<1>1. InstallerInvariant => InstalledIsComplete
  BY DEF InstallerInvariant
<1> QED
  BY <1>1, InvariantHolds, PTL

\* A removal that reports success leaves nothing that runs or could run
\* (UninstallBrokerService, RemoveBrokerInstallFiles).
THEOREM Uninstalled == InstallerSpec => []UninstalledLeavesNothing
<1>1. InstallerInvariant => UninstalledLeavesNothing
  BY DEF InstallerInvariant
<1> QED
  BY <1>1, InvariantHolds, PTL

\* Both commands can be repeated after a failure (InstallDemandStartBrokerService).
THEOREM Repairs == InstallerSpec => []RepairCompletes
<1>1. InstallerInvariant => RepairCompletes
  BY DEF InstallerInvariant, CalmStaysClear, RepairCompletes
<1> QED
  BY <1>1, InvariantHolds, PTL

\* Updates and removals keep the authorised caller (UpdateAuthorizedCallerPolicy).
THEOREM CallerKept == InstallerSpec => UpdatesKeepCaller
<1> DEFINE Keeps == /\ policy \in Users /\ policy' # policy => ~job.existing
                    /\ policy' \in Users /\ policy' # policy => policy' = job.user
<1>1. ASSUME InstallerInvariant, InstallerNext PROVE Keeps
  <2>1. CASE UpdatePolicy
    BY <2>1, NoneIsApart DEF UpdatePolicy, InstallerInvariant, InstallerTypeOK, MachineTypeOK
  <2>2. CASE WritePolicy
    <3>1. policy = Torn
      BY <2>2, <1>1 DEF WritePolicy, InstallerInvariant, StepsBuildOn
    <3>2. policy \notin Users /\ policy' = job.user
      BY <2>2, <3>1, NoneIsApart DEF WritePolicy
    <3> QED
      BY <3>2
  <2>3. CASE ~UpdatePolicy /\ ~WritePolicy
    <3>1. UNCHANGED policy
      BY <1>1, <2>3 DEF InstallerNext, JobStep, ServiceStep, Begin, StopService, AwaitStopped, Copy,
         Create, Configure, Secure, ConfigurationFails, RegisterEventSource, SecureDirectories,
         Delete, UnregisterEventSource, Remove, Interrupt, Launch, ServiceRuns, ReportStopped,
         ProcessExits, EntryGoes, ForeignDirectory
    <3> QED
      BY <3>1
  <2> QED
    BY <2>1, <2>2, <2>3
<1>2. InstallerInvariant /\ [InstallerNext]_installVars => [Keeps]_installVars
  BY <1>1
<1> QED
  BY <1>2, InvariantHolds, PTL DEF InstallerSpec, UpdatesKeepCaller
=============================================================================
