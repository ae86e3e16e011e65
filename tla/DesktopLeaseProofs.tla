------------------------- MODULE DesktopLeaseProofs -------------------------
(***************************************************************************)
(* Theorems about DesktopLease, for every set of launches, every number of *)
(* protected objects and every choice of faults.                           *)
(*                                                                         *)
(* LeaseInvariant is inductive; its parts are proved one lemma each,       *)
(* action by action.  The safety properties follow from it.                *)
(***************************************************************************)
EXTENDS DesktopLease, WellFoundedInduction, FiniteSetTheorems, TLAPS

\* The order of the natural numbers, as a relation.
Less == {p \in Nat \X Nat : p[1] < p[2]}

\* A set of natural numbers that is not empty has a least element.
LEMMA LeastNumber ==
    ASSUME NEW S \in SUBSET Nat, S # {}
    PROVE  \E x \in S : \A y \in S : x =< y
<1>1. IsWellFoundedOn(Less, Nat)
  BY NatLessThanWellFounded DEF OpToRel, Less
<1>2. PICK x \in S : \A y \in S : ~ (<<y, x>> \in Less)
  BY <1>1, WFMin
<1>3. SUFFICES ASSUME NEW y \in S PROVE x =< y
  BY <1>2
<1>4. <<y, x>> \in Nat \X Nat /\ <<y, x>> \notin Less
  BY <1>2
<1>5. ~ (y < x)
  BY <1>4 DEF Less
<1>6. QED
  BY <1>5

\* A set of protected objects that is not empty has a first and a last one.
LEMMA FirstAndLast ==
    ASSUME NEW S \in SUBSET ObjectIds, S # {}
    PROVE  Min(S) \in S /\ Max(S) \in S
<1>1. Min(S) \in S
  <2>1. S \in SUBSET Nat
    BY LeaseConstants DEF ObjectIds
  <2>2. QED
    BY <2>1, LeastNumber DEF Min
<1>2. Max(S) \in S
  <2> DEFINE Rest == {Objects - o : o \in S}
  <2>1. Rest \in SUBSET Nat
    BY LeaseConstants DEF ObjectIds
  <2>2. Rest # {}
    OBVIOUS
  <2>3. PICK x \in S : \A y \in Rest : Objects - x =< y
    BY <2>1, <2>2, LeastNumber
  <2>4. ASSUME NEW y \in S PROVE x >= y
    <3>1. Objects - y \in Rest
      OBVIOUS
    <3>2. Objects - x =< Objects - y
      BY <2>3, <3>1
    <3>3. QED
      BY <3>2, LeaseConstants DEF ObjectIds
  <2>5. QED
    BY <2>4 DEF Max
<1>3. QED
  BY <1>1, <1>2

\* The object a job treats next is one it still has to treat.
LEMMA CurrentIsLeft ==
    ASSUME TypeOK, NEW i \in Launches, todo[i] # {}
    PROVE  Current(i) \in todo[i] /\ Current(i) \in ObjectIds
BY FirstAndLast DEF Current, TypeOK

\* A coordinator that has done with an object, well or badly, keeps its job's shape.
LEMMA AdvanceTypes ==
    ASSUME TypeOK, NEW i \in Launches, NEW ok \in BOOLEAN, Advance(i, ok)
    PROVE  /\ main' \in [Launches -> MainSteps]
           /\ job' \in [Launches -> {"acquire", "rollback", "release", "destroy"}]
           /\ todo' \in [Launches -> SUBSET ObjectIds]
           /\ clean' \in [Launches -> BOOLEAN]
<1> USE DEF TypeOK, MainSteps, Goto
<1>1. clean' \in [Launches -> BOOLEAN]
  BY DEF Advance
<1>2. CASE /\ todo' = [todo EXCEPT ![i] = todo[i] \ {Current(i)}]
           /\ Goto(i, IF todo[i] \ {Current(i)} = {} THEN AfterJob(job[i]) ELSE "lock")
           /\ UNCHANGED job
  BY <1>1, <1>2 DEF AfterJob
<1>3. CASE BeginRelease(i, "rollback", leased[i])
  BY <1>1, <1>3 DEF BeginRelease, AfterJob
<1> QED
  BY <1>2, <1>3 DEF Advance

\* Variables keep their shape.
LEMMA TypeStep ==
    ASSUME LeaseInvariant, [Next]_vars
    PROVE  TypeOK'
<1> TypeOK /\ JobProgress
  BY DEF LeaseInvariant
<1> USE DEF TypeOK, MainSteps, BrokerSteps, Messages, Goto, Send, FreeLock, BeginRelease,
     AfterJob, coordinatorVars, brokerVars
<1>1. ASSUME NEW i \in Launches, Launch(i) PROVE TypeOK'
  BY <1>1 DEF Launch
<1>2. ASSUME NEW i \in Launches, TakeLock(i) PROVE TypeOK'
  BY <1>2, CurrentIsLeft DEF TakeLock, JobProgress, Progress
<1>3. ASSUME NEW i \in Launches, WriteDacl(i) PROVE TypeOK'
  <2>1. Current(i) \in ObjectIds
    <3>1. todo[i] # {}
      BY <1>3 DEF WriteDacl, JobProgress, Progress
    <3> QED
      BY <3>1, CurrentIsLeft DEF TypeOK
  <2>2. main' = [main EXCEPT ![i] = "verify"]
    BY <1>3 DEF WriteDacl
  <2>3. /\ \/ dacl' = [dacl EXCEPT ![Current(i)] = seen[i] \cup {i}]
           \/ dacl' = [dacl EXCEPT ![Current(i)] = seen[i] \ {i}]
        /\ \/ leased' = [leased EXCEPT ![i] = leased[i] \cup {Current(i)}]
           \/ leased' = [leased EXCEPT ![i] = leased[i] \ {Current(i)}]
    BY <1>3 DEF WriteDacl
  <2>4. UNCHANGED <<lock, job, todo, seen, clean, pipe, message, brokerVars>>
    BY <1>3 DEF WriteDacl
  <2>5. dacl' \in [ObjectIds -> SUBSET Launches]
    BY <2>1, <2>3
  <2>6. leased' \in [Launches -> SUBSET ObjectIds]
    BY <2>1, <2>3
  <2>7. main' \in [Launches -> MainSteps]
    BY <2>2
  <2> QED
    BY <2>4, <2>5, <2>6, <2>7
<1>4. ASSUME NEW i \in Launches, WriteFails(i) PROVE TypeOK'
  BY <1>4, AdvanceTypes DEF WriteFails
<1>5. ASSUME NEW i \in Launches, Verify(i) PROVE TypeOK'
  BY <1>5, AdvanceTypes DEF Verify
<1>6. ASSUME NEW i \in Launches, BrokerConnects(i) PROVE TypeOK'
  BY <1>6 DEF BrokerConnects
<1>7. ASSUME NEW i \in Launches, Cancelled(i) PROVE TypeOK'
  BY <1>7 DEF Cancelled
<1>8. ASSUME NEW i \in Launches, ReadAcquire(i) PROVE TypeOK'
  BY <1>8 DEF ReadAcquire
<1>9. ASSUME NEW i \in Launches, Answer(i) PROVE TypeOK'
  <2>1. message' \in [Launches -> Messages]
    BY <1>9 DEF Answer, Outcome
  <2>2. UNCHANGED <<dacl, lock, seen, leased, clean, pipe, brokerVars>>
    BY <1>9 DEF Answer
  <2>3. CASE Goto(i, "hold") /\ UNCHANGED <<job, todo>>
    BY <2>1, <2>2, <2>3
  <2>4. CASE BeginRelease(i, "destroy", leased[i])
    BY <2>1, <2>2, <2>4
  <2> QED
    BY <1>9, <2>3, <2>4 DEF Answer
<1>10. ASSUME NEW i \in Launches, ReadRelease(i) PROVE TypeOK'
  BY <1>10 DEF ReadRelease
<1>11. ASSUME NEW i \in Launches, ReadFails(i) PROVE TypeOK'
  BY <1>11 DEF ReadFails
<1>12. ASSUME NEW i \in Launches, Join(i) PROVE TypeOK'
  BY <1>12 DEF Join
<1>13. ASSUME NEW i \in Launches, TakeLaunchMutex(i) PROVE TypeOK'
  BY <1>13 DEF TakeLaunchMutex
<1>14. ASSUME NEW i \in Launches, LaunchFails(i) PROVE TypeOK'
  BY <1>14 DEF LaunchFails, LaunchReturnsError
<1>15. ASSUME NEW i \in Launches, AskForLease(i) PROVE TypeOK'
  BY <1>15 DEF AskForLease
<1>16. ASSUME NEW i \in Launches, LeaseGranted(i) PROVE TypeOK'
  BY <1>16 DEF LeaseGranted
<1>17. ASSUME NEW i \in Launches, LeaseRefused(i) PROVE TypeOK'
  BY <1>17 DEF LeaseRefused, LaunchReturnsError
<1>18. ASSUME NEW i \in Launches, StartProcess(i) PROVE TypeOK'
  BY <1>18 DEF StartProcess
<1>19. ASSUME NEW i \in Launches, ResumeFails(i) PROVE TypeOK'
  BY <1>19 DEF ResumeFails, LaunchReturnsError
<1>20. ASSUME NEW i \in Launches, ProcessFails(i) PROVE TypeOK'
  <2>1. CASE Alive(i)
    BY <1>20, <2>1 DEF ProcessFails
  <2>2. CASE ~Alive(i)
    BY <1>20, <2>2 DEF ProcessFails, LaunchReturnsError
  <2> QED
    BY <2>1, <2>2
<1>21. ASSUME NEW i \in Launches, ReleaseAnswered(i) PROVE TypeOK'
  <2>1. CASE broker[i] = "undoing"
    BY <1>21, <2>1 DEF ReleaseAnswered, LaunchReturnsError
  <2>2. CASE broker[i] = "releasing"
    BY <1>21, <2>2 DEF ReleaseAnswered
  <2> QED
    BY <1>21, <2>1, <2>2 DEF ReleaseAnswered
<1>22. ASSUME NEW i \in Launches, LockFails(i) PROVE TypeOK'
  BY <1>22, AdvanceTypes DEF LockFails
<1>23. ASSUME NEW i \in Launches, VerifyFails(i) PROVE TypeOK'
  BY <1>23, AdvanceTypes DEF VerifyFails
<1>24. ASSUME NEW i \in Launches, GiveUp(i) PROVE TypeOK'
  BY <1>24 DEF GiveUp
<1>25. ASSUME NEW i \in Launches, Kill(i) PROVE TypeOK'
  BY <1>25 DEF Kill
<1>26. ASSUME NEW i \in Launches, EndSession(i) PROVE TypeOK'
  <2>1. CASE Alive(i)
    BY <1>26, <2>1 DEF EndSession
  <2>2. CASE ~Alive(i)
    BY <1>26, <2>2 DEF EndSession
  <2> QED
    BY <2>1, <2>2
<1>27. ASSUME StopService PROVE TypeOK'
  BY <1>27 DEF StopService
<1>28. ASSUME Crash PROVE TypeOK'
  BY <1>28 DEF Crash
<1>29. CASE UNCHANGED vars
  BY <1>29 DEF vars
<1>30. QED
  BY <1>1, <1>2, <1>3, <1>4, <1>5, <1>6, <1>7, <1>8, <1>9, <1>10, <1>11, <1>12, <1>13, <1>14,
     <1>15, <1>16, <1>17, <1>18, <1>19, <1>20, <1>21, <1>22, <1>23, <1>24, <1>25, <1>26, <1>27,
     <1>28, <1>29
     DEF Next, LeaseStep, CoordinatorStep, BrokerStep

\* A coordinator writes the ACL it has read under the lock.
LEMMA LockStep ==
    ASSUME LeaseInvariant, [Next]_vars
    PROVE  LockDiscipline'
<1> USE LeaseConstants DEF LeaseInvariant, TypeOK, LockDiscipline, Goto, Send, FreeLock,
     BeginRelease, Advance, AfterJob, Current, coordinatorVars, brokerVars
<1>1. ASSUME NEW i \in Launches, Launch(i) PROVE LockDiscipline'
  BY <1>1 DEF Launch
<1>2. ASSUME NEW i \in Launches, TakeLock(i) PROVE LockDiscipline'
  BY <1>2 DEF TakeLock
<1>3. ASSUME NEW i \in Launches, WriteDacl(i) PROVE LockDiscipline'
  BY <1>3 DEF WriteDacl
<1>4. ASSUME NEW i \in Launches, WriteFails(i) PROVE LockDiscipline'
  BY <1>4 DEF WriteFails
<1>5. ASSUME NEW i \in Launches, Verify(i) PROVE LockDiscipline'
  BY <1>5 DEF Verify
<1>6. ASSUME NEW i \in Launches, BrokerConnects(i) PROVE LockDiscipline'
  BY <1>6 DEF BrokerConnects
<1>7. ASSUME NEW i \in Launches, Cancelled(i) PROVE LockDiscipline'
  BY <1>7 DEF Cancelled
<1>8. ASSUME NEW i \in Launches, ReadAcquire(i) PROVE LockDiscipline'
  BY <1>8 DEF ReadAcquire
<1>9. ASSUME NEW i \in Launches, Answer(i) PROVE LockDiscipline'
  BY <1>9 DEF Answer
<1>10. ASSUME NEW i \in Launches, ReadRelease(i) PROVE LockDiscipline'
  BY <1>10 DEF ReadRelease
<1>11. ASSUME NEW i \in Launches, ReadFails(i) PROVE LockDiscipline'
  BY <1>11 DEF ReadFails
<1>12. ASSUME NEW i \in Launches, Join(i) PROVE LockDiscipline'
  BY <1>12 DEF Join
<1>13. ASSUME NEW i \in Launches, TakeLaunchMutex(i) PROVE LockDiscipline'
  BY <1>13 DEF TakeLaunchMutex
<1>14. ASSUME NEW i \in Launches, LaunchFails(i) PROVE LockDiscipline'
  BY <1>14 DEF LaunchFails, LaunchReturnsError
<1>15. ASSUME NEW i \in Launches, AskForLease(i) PROVE LockDiscipline'
  BY <1>15 DEF AskForLease
<1>16. ASSUME NEW i \in Launches, LeaseGranted(i) PROVE LockDiscipline'
  BY <1>16 DEF LeaseGranted
<1>17. ASSUME NEW i \in Launches, LeaseRefused(i) PROVE LockDiscipline'
  BY <1>17 DEF LeaseRefused, LaunchReturnsError
<1>18. ASSUME NEW i \in Launches, StartProcess(i) PROVE LockDiscipline'
  BY <1>18 DEF StartProcess
<1>19. ASSUME NEW i \in Launches, ResumeFails(i) PROVE LockDiscipline'
  BY <1>19 DEF ResumeFails, LaunchReturnsError
<1>20. ASSUME NEW i \in Launches, ProcessFails(i) PROVE LockDiscipline'
  BY <1>20 DEF ProcessFails, LaunchReturnsError
<1>21. ASSUME NEW i \in Launches, ReleaseAnswered(i) PROVE LockDiscipline'
  BY <1>21 DEF ReleaseAnswered, LaunchReturnsError
<1>22. ASSUME NEW i \in Launches, LockFails(i) PROVE LockDiscipline'
  BY <1>22 DEF LockFails
<1>23. ASSUME NEW i \in Launches, VerifyFails(i) PROVE LockDiscipline'
  BY <1>23 DEF VerifyFails
<1>24. ASSUME NEW i \in Launches, GiveUp(i) PROVE LockDiscipline'
  BY <1>24 DEF GiveUp
<1>25. ASSUME NEW i \in Launches, Kill(i) PROVE LockDiscipline'
  BY <1>25 DEF Kill
<1>26. ASSUME NEW i \in Launches, EndSession(i) PROVE LockDiscipline'
  BY <1>26 DEF EndSession
<1>27. ASSUME StopService PROVE LockDiscipline'
  BY <1>27 DEF StopService
<1>28. ASSUME Crash PROVE LockDiscipline'
  BY <1>28 DEF Crash
<1>29. CASE UNCHANGED vars
  BY <1>29 DEF vars
<1>30. QED
  BY <1>1, <1>2, <1>3, <1>4, <1>5, <1>6, <1>7, <1>8, <1>9, <1>10, <1>11, <1>12, <1>13, <1>14,
     <1>15, <1>16, <1>17, <1>18, <1>19, <1>20, <1>21, <1>22, <1>23, <1>24, <1>25, <1>26, <1>27,
     <1>28, <1>29
     DEF Next, LeaseStep, CoordinatorStep, BrokerStep

\* A coordinator knows of every ACE it has added and not removed.
LEMMA AcesStep ==
    ASSUME LeaseInvariant, [Next]_vars
    PROVE  AcesAreTracked'
<1> USE DEF LeaseInvariant, TypeOK, AcesAreTracked, coordinatorVars, brokerVars
<1>1. ASSUME NEW i \in Launches, Launch(i) PROVE AcesAreTracked'
  BY <1>1 DEF Launch
<1>2. ASSUME NEW i \in Launches, TakeLock(i) PROVE AcesAreTracked'
  BY <1>2 DEF TakeLock
<1>3. ASSUME NEW i \in Launches, WriteDacl(i) PROVE AcesAreTracked'
  BY <1>3, CurrentIsLeft DEF WriteDacl, LockDiscipline, JobProgress, Progress
<1>4. ASSUME NEW i \in Launches, WriteFails(i) PROVE AcesAreTracked'
  BY <1>4 DEF WriteFails
<1>5. ASSUME NEW i \in Launches, Verify(i) PROVE AcesAreTracked'
  BY <1>5 DEF Verify
<1>6. ASSUME NEW i \in Launches, BrokerConnects(i) PROVE AcesAreTracked'
  BY <1>6 DEF BrokerConnects
<1>7. ASSUME NEW i \in Launches, Cancelled(i) PROVE AcesAreTracked'
  BY <1>7 DEF Cancelled
<1>8. ASSUME NEW i \in Launches, ReadAcquire(i) PROVE AcesAreTracked'
  BY <1>8 DEF ReadAcquire
<1>9. ASSUME NEW i \in Launches, Answer(i) PROVE AcesAreTracked'
  BY <1>9 DEF Answer
<1>10. ASSUME NEW i \in Launches, ReadRelease(i) PROVE AcesAreTracked'
  BY <1>10 DEF ReadRelease
<1>11. ASSUME NEW i \in Launches, ReadFails(i) PROVE AcesAreTracked'
  BY <1>11 DEF ReadFails
<1>12. ASSUME NEW i \in Launches, Join(i) PROVE AcesAreTracked'
  BY <1>12 DEF Join
<1>13. ASSUME NEW i \in Launches, TakeLaunchMutex(i) PROVE AcesAreTracked'
  BY <1>13 DEF TakeLaunchMutex
<1>14. ASSUME NEW i \in Launches, LaunchFails(i) PROVE AcesAreTracked'
  BY <1>14 DEF LaunchFails
<1>15. ASSUME NEW i \in Launches, AskForLease(i) PROVE AcesAreTracked'
  BY <1>15 DEF AskForLease
<1>16. ASSUME NEW i \in Launches, LeaseGranted(i) PROVE AcesAreTracked'
  BY <1>16 DEF LeaseGranted
<1>17. ASSUME NEW i \in Launches, LeaseRefused(i) PROVE AcesAreTracked'
  BY <1>17 DEF LeaseRefused
<1>18. ASSUME NEW i \in Launches, StartProcess(i) PROVE AcesAreTracked'
  BY <1>18 DEF StartProcess
<1>19. ASSUME NEW i \in Launches, ResumeFails(i) PROVE AcesAreTracked'
  BY <1>19 DEF ResumeFails
<1>20. ASSUME NEW i \in Launches, ProcessFails(i) PROVE AcesAreTracked'
  BY <1>20 DEF ProcessFails
<1>21. ASSUME NEW i \in Launches, ReleaseAnswered(i) PROVE AcesAreTracked'
  BY <1>21 DEF ReleaseAnswered
<1>22. ASSUME NEW i \in Launches, LockFails(i) PROVE AcesAreTracked'
  BY <1>22 DEF LockFails
<1>23. ASSUME NEW i \in Launches, VerifyFails(i) PROVE AcesAreTracked'
  BY <1>23 DEF VerifyFails
<1>24. ASSUME NEW i \in Launches, GiveUp(i) PROVE AcesAreTracked'
  BY <1>24 DEF GiveUp
<1>25. ASSUME NEW i \in Launches, Kill(i) PROVE AcesAreTracked'
  BY <1>25 DEF Kill
<1>26. ASSUME NEW i \in Launches, EndSession(i) PROVE AcesAreTracked'
  BY <1>26 DEF EndSession
<1>27. ASSUME StopService PROVE AcesAreTracked'
  BY <1>27 DEF StopService
<1>28. ASSUME Crash PROVE AcesAreTracked'
  BY <1>28 DEF Crash
<1>29. CASE UNCHANGED vars
  BY <1>29 DEF vars
<1>30. QED
  BY <1>1, <1>2, <1>3, <1>4, <1>5, <1>6, <1>7, <1>8, <1>9, <1>10, <1>11, <1>12, <1>13, <1>14,
     <1>15, <1>16, <1>17, <1>18, <1>19, <1>20, <1>21, <1>22, <1>23, <1>24, <1>25, <1>26, <1>27,
     <1>28, <1>29
     DEF Next, LeaseStep, CoordinatorStep, BrokerStep

\* The progress of a job depends on its own launch's state only.
LEMMA OtherProgress ==
    ASSUME NEW j \in Launches, Progress(j),
           main'[j] = main[j], job'[j] = job[j], todo'[j] = todo[j], leased'[j] = leased[j],
           clean'[j] = clean[j]
    PROVE  Progress(j)'
BY DEF Progress, Current

\* Treating the next object and beginning to roll back keep what is left and what is
\* leased in balance.
LEMMA AdvanceKeepsProgress ==
    ASSUME LeaseInvariant, NEW i \in Launches, NEW ok \in BOOLEAN,
           main[i] \in {"lock", "write", "verify"}, ok => main[i] = "verify",
           Advance(i, ok), UNCHANGED leased
    PROVE  Progress(i)'
<1> DEFINE rest == todo[i] \ {Current(i)}
<1>1. Progress(i)
  BY DEF LeaseInvariant, JobProgress
<1>2. /\ i \in DOMAIN main /\ i \in DOMAIN job /\ i \in DOMAIN todo /\ i \in DOMAIN clean
      /\ todo[i] \subseteq ObjectIds /\ leased[i] \subseteq ObjectIds
      /\ clean[i] \in BOOLEAN
  BY DEF LeaseInvariant, TypeOK
<1>3. CASE job[i] = "acquire" /\ ok
  <2>1. rest = ObjectIds \ leased[i] /\ clean[i]
    BY <1>1, <1>3 DEF Progress
  <2>2. /\ todo'[i] = rest /\ job'[i] = "acquire" /\ clean'[i]
        /\ main'[i] = IF rest = {} THEN "answer" ELSE "lock"
    BY <1>2, <1>3, <2>1 DEF Advance, Goto, AfterJob
  <2> HIDE DEF rest
  <2>3. QED
    BY <1>2, <2>1, <2>2 DEF Progress
<1>4. CASE job[i] = "acquire" /\ ~ok
  <2>1. clean[i]
    BY <1>1, <1>4 DEF Progress
  <2>2. /\ todo'[i] = leased[i] /\ job'[i] = "rollback" /\ clean'[i]
        /\ main'[i] = IF leased[i] = {} THEN "answer" ELSE "lock"
    BY <1>2, <1>4, <2>1 DEF Advance, BeginRelease, Goto, AfterJob
  <2>3. QED
    BY <2>2 DEF Progress
<1>5. CASE job[i] # "acquire"
  <2>1. rest \subseteq leased[i] /\ (ok /\ clean[i] => rest = leased[i])
    BY <1>1, <1>5 DEF Progress
  <2>2. /\ todo'[i] = rest /\ job'[i] = job[i] /\ clean'[i] = (clean[i] /\ ok)
        /\ main'[i] = IF rest = {} THEN AfterJob(job[i]) ELSE "lock"
    BY <1>2, <1>5 DEF Advance, Goto
  <2> HIDE DEF rest
  <2>3. QED
    BY <1>5, <2>1, <2>2 DEF Progress, AfterJob
<1>6. QED
  BY <1>3, <1>4, <1>5

\* A job accounts for every object it began with.
LEMMA ProgressStep ==
    ASSUME LeaseInvariant, [Next]_vars
    PROVE  JobProgress'
<1> USE DEF LeaseInvariant, TypeOK, JobProgress, coordinatorVars, brokerVars
<1>1. ASSUME NEW i \in Launches, Launch(i) PROVE JobProgress'
  <2>1. ASSUME NEW j \in Launches, j # i PROVE Progress(j)'
    BY <1>1, <2>1, OtherProgress DEF Launch, Goto, Send
  <2>2. Progress(i)'
    BY <1>1 DEF Launch, Goto, Send, Progress, Current
  <2>3. QED
    BY <2>1, <2>2
<1>2. ASSUME NEW i \in Launches, TakeLock(i) PROVE JobProgress'
  <2>1. ASSUME NEW j \in Launches, j # i PROVE Progress(j)'
    BY <1>2, <2>1, OtherProgress DEF TakeLock, Goto, Send
  <2>2. Progress(i)'
    BY <1>2 DEF TakeLock, Goto, Send, Progress, Current
  <2>3. QED
    BY <2>1, <2>2
<1>3. ASSUME NEW i \in Launches, WriteDacl(i) PROVE JobProgress'
  <2>1. ASSUME NEW j \in Launches, j # i PROVE Progress(j)'
    BY <1>3, <2>1, OtherProgress DEF WriteDacl, Goto, Send
  <2>2. Progress(i)'
    BY <1>3 DEF WriteDacl, Goto, Send, Progress, Current
  <2>3. QED
    BY <2>1, <2>2
<1>4. ASSUME NEW i \in Launches, WriteFails(i) PROVE JobProgress'
  <2>1. ASSUME NEW j \in Launches, j # i PROVE Progress(j)'
    BY <1>4, <2>1, OtherProgress DEF WriteFails, Goto, Advance, BeginRelease
  <2>2. Advance(i, FALSE) /\ main[i] \in {"lock", "write", "verify"} /\ UNCHANGED leased
    BY <1>4 DEF WriteFails
  <2>3. FALSE => main[i] = "verify"
    BY <1>4 DEF WriteFails
  <2>4. Progress(i)'
    BY <2>2, <2>3, AdvanceKeepsProgress
  <2>5. QED
    BY <2>1, <2>4
<1>5. ASSUME NEW i \in Launches, Verify(i) PROVE JobProgress'
  <2>1. ASSUME NEW j \in Launches, j # i PROVE Progress(j)'
    BY <1>5, <2>1, OtherProgress DEF Verify, Goto, Advance, BeginRelease
  <2>2. Advance(i, TRUE) /\ main[i] \in {"lock", "write", "verify"} /\ UNCHANGED leased
    BY <1>5 DEF Verify
  <2>3. TRUE => main[i] = "verify"
    BY <1>5 DEF Verify
  <2>4. Progress(i)'
    BY <2>2, <2>3, AdvanceKeepsProgress
  <2>5. QED
    BY <2>1, <2>4
<1>6. ASSUME NEW i \in Launches, BrokerConnects(i) PROVE JobProgress'
  <2>1. ASSUME NEW j \in Launches, j # i PROVE Progress(j)'
    BY <1>6, <2>1, OtherProgress DEF BrokerConnects, Goto, Send
  <2>2. Progress(i)'
    BY <1>6 DEF BrokerConnects, Goto, Send, Progress, Current
  <2>3. QED
    BY <2>1, <2>2
<1>7. ASSUME NEW i \in Launches, Cancelled(i) PROVE JobProgress'
  <2>1. ASSUME NEW j \in Launches, j # i PROVE Progress(j)'
    BY <1>7, <2>1, OtherProgress DEF Cancelled, Goto, Send
  <2>2. Progress(i)'
    BY <1>7 DEF Cancelled, Goto, Send, Progress, Current
  <2>3. QED
    BY <2>1, <2>2
<1>8. ASSUME NEW i \in Launches, ReadAcquire(i) PROVE JobProgress'
  <2>1. ASSUME NEW j \in Launches, j # i PROVE Progress(j)'
    BY <1>8, <2>1, OtherProgress DEF ReadAcquire, Goto
  <2>2. ObjectIds # {}
    <3>1. 1 \in ObjectIds
      BY LeaseConstants DEF ObjectIds
    <3>2. QED
      BY <3>1
  <2>3. leased[i] = {} /\ clean[i]
    BY <1>8 DEF ReadAcquire, Progress
  <2>4. /\ main'[i] = "lock" /\ job'[i] = "acquire" /\ todo'[i] = ObjectIds
        /\ leased'[i] = leased[i] /\ clean'[i] = clean[i]
    BY <1>8 DEF ReadAcquire, Goto
  <2>5. Progress(i)'
    BY <2>2, <2>3, <2>4 DEF Progress
  <2>6. QED
    BY <2>1, <2>5
<1>9. ASSUME NEW i \in Launches, Answer(i) PROVE JobProgress'
  <2>1. ASSUME NEW j \in Launches, j # i PROVE Progress(j)'
    BY <1>9, <2>1, OtherProgress DEF Answer, Goto, Send, BeginRelease, AfterJob
  <2>2. Progress(i)'
    BY <1>9 DEF Answer, Goto, Send, BeginRelease, AfterJob, Progress, Current
  <2>3. QED
    BY <2>1, <2>2
<1>10. ASSUME NEW i \in Launches, ReadRelease(i) PROVE JobProgress'
  <2>1. ASSUME NEW j \in Launches, j # i PROVE Progress(j)'
    BY <1>10, <2>1, OtherProgress DEF ReadRelease, Goto, Send, BeginRelease, AfterJob
  <2>2. Progress(i)'
    BY <1>10 DEF ReadRelease, Goto, Send, BeginRelease, AfterJob, Progress, Current
  <2>3. QED
    BY <2>1, <2>2
<1>11. ASSUME NEW i \in Launches, ReadFails(i) PROVE JobProgress'
  <2>1. ASSUME NEW j \in Launches, j # i PROVE Progress(j)'
    BY <1>11, <2>1, OtherProgress DEF ReadFails, Goto, Send, BeginRelease, AfterJob
  <2>2. Progress(i)'
    BY <1>11 DEF ReadFails, Goto, Send, BeginRelease, AfterJob, Progress, Current
  <2>3. QED
    BY <2>1, <2>2
<1>12. ASSUME NEW i \in Launches, Join(i) PROVE JobProgress'
  <2>1. ASSUME NEW j \in Launches, j # i PROVE Progress(j)'
    BY <1>12, <2>1, OtherProgress DEF Join, Goto, Send
  <2>2. Progress(i)'
    BY <1>12 DEF Join, Goto, Send, Progress, Current
  <2>3. QED
    BY <2>1, <2>2
<1>13. ASSUME NEW i \in Launches, TakeLaunchMutex(i) PROVE JobProgress'
  <2>1. UNCHANGED <<main, job, todo, leased, clean>>
    BY <1>13 DEF TakeLaunchMutex
  <2>2. QED
    BY <2>1, OtherProgress
<1>14. ASSUME NEW i \in Launches, LaunchFails(i) PROVE JobProgress'
  <2>1. UNCHANGED <<main, job, todo, leased, clean>>
    BY <1>14 DEF LaunchFails
  <2>2. QED
    BY <2>1, OtherProgress
<1>15. ASSUME NEW i \in Launches, AskForLease(i) PROVE JobProgress'
  <2>1. UNCHANGED <<main, job, todo, leased, clean>>
    BY <1>15 DEF AskForLease
  <2>2. QED
    BY <2>1, OtherProgress
<1>16. ASSUME NEW i \in Launches, LeaseGranted(i) PROVE JobProgress'
  <2>1. UNCHANGED <<main, job, todo, leased, clean>>
    BY <1>16 DEF LeaseGranted
  <2>2. QED
    BY <2>1, OtherProgress
<1>17. ASSUME NEW i \in Launches, LeaseRefused(i) PROVE JobProgress'
  <2>1. UNCHANGED <<main, job, todo, leased, clean>>
    BY <1>17 DEF LeaseRefused
  <2>2. QED
    BY <2>1, OtherProgress
<1>18. ASSUME NEW i \in Launches, StartProcess(i) PROVE JobProgress'
  <2>1. UNCHANGED <<main, job, todo, leased, clean>>
    BY <1>18 DEF StartProcess
  <2>2. QED
    BY <2>1, OtherProgress
<1>19. ASSUME NEW i \in Launches, ResumeFails(i) PROVE JobProgress'
  <2>1. UNCHANGED <<main, job, todo, leased, clean>>
    BY <1>19 DEF ResumeFails
  <2>2. QED
    BY <2>1, OtherProgress
<1>20. ASSUME NEW i \in Launches, ProcessFails(i) PROVE JobProgress'
  <2>1. UNCHANGED <<main, job, todo, leased, clean>>
    BY <1>20 DEF ProcessFails
  <2>2. QED
    BY <2>1, OtherProgress
<1>21. ASSUME NEW i \in Launches, ReleaseAnswered(i) PROVE JobProgress'
  <2>1. UNCHANGED <<main, job, todo, leased, clean>>
    BY <1>21 DEF ReleaseAnswered
  <2>2. QED
    BY <2>1, OtherProgress
<1>22. ASSUME NEW i \in Launches, LockFails(i) PROVE JobProgress'
  <2>1. ASSUME NEW j \in Launches, j # i PROVE Progress(j)'
    BY <1>22, <2>1, OtherProgress DEF LockFails, Goto, Advance, BeginRelease
  <2>2. Advance(i, FALSE) /\ main[i] \in {"lock", "write", "verify"} /\ UNCHANGED leased
    BY <1>22 DEF LockFails
  <2>3. FALSE => main[i] = "verify"
    BY <1>22 DEF LockFails
  <2>4. Progress(i)'
    BY <2>2, <2>3, AdvanceKeepsProgress
  <2>5. QED
    BY <2>1, <2>4
<1>23. ASSUME NEW i \in Launches, VerifyFails(i) PROVE JobProgress'
  <2>1. ASSUME NEW j \in Launches, j # i PROVE Progress(j)'
    BY <1>23, <2>1, OtherProgress DEF VerifyFails, Goto, Advance, BeginRelease
  <2>2. Advance(i, FALSE) /\ main[i] \in {"lock", "write", "verify"} /\ UNCHANGED leased
    BY <1>23 DEF VerifyFails
  <2>3. FALSE => main[i] = "verify"
    BY <1>23 DEF VerifyFails
  <2>4. Progress(i)'
    BY <2>2, <2>3, AdvanceKeepsProgress
  <2>5. QED
    BY <2>1, <2>4
<1>24. ASSUME NEW i \in Launches, GiveUp(i) PROVE JobProgress'
  <2>1. ASSUME NEW j \in Launches, j # i PROVE Progress(j)'
    BY <1>24, <2>1, OtherProgress DEF GiveUp, Goto, Send
  <2>2. Progress(i)'
    BY <1>24 DEF GiveUp, Goto, Send, Progress, Current
  <2>3. QED
    BY <2>1, <2>2
<1>25. ASSUME NEW i \in Launches, Kill(i) PROVE JobProgress'
  <2>1. ASSUME NEW j \in Launches, j # i PROVE Progress(j)'
    BY <1>25, <2>1, OtherProgress DEF Kill, Goto, Send
  <2>2. Progress(i)'
    BY <1>25 DEF Kill, Goto, Send, Progress, Current
  <2>3. QED
    BY <2>1, <2>2
<1>26. ASSUME NEW i \in Launches, EndSession(i) PROVE JobProgress'
  <2>1. UNCHANGED <<main, job, todo, leased, clean>>
    BY <1>26 DEF EndSession
  <2>2. QED
    BY <2>1, OtherProgress
<1>27. ASSUME StopService PROVE JobProgress'
  <2>1. UNCHANGED <<main, job, todo, leased, clean>>
    BY <1>27 DEF StopService
  <2>2. QED
    BY <2>1, OtherProgress
<1>28. ASSUME Crash PROVE JobProgress'
  <2>1. UNCHANGED <<main, job, todo, leased, clean>>
    BY <1>28 DEF Crash
  <2>2. QED
    BY <2>1, OtherProgress
<1>29. CASE UNCHANGED vars
  <2>1. UNCHANGED <<main, job, todo, leased, clean>>
    BY <1>29 DEF vars
  <2>2. QED
    BY <2>1, OtherProgress
<1>30. QED
  BY <1>1, <1>2, <1>3, <1>4, <1>5, <1>6, <1>7, <1>8, <1>9, <1>10, <1>11, <1>12, <1>13, <1>14,
     <1>15, <1>16, <1>17, <1>18, <1>19, <1>20, <1>21, <1>22, <1>23, <1>24, <1>25, <1>26, <1>27,
     <1>28, <1>29
     DEF Next, LeaseStep, CoordinatorStep, BrokerStep

\* Broker and coordinator keep what they may take for granted of each other.
LEMMA ExchangeStep ==
    ASSUME LeaseInvariant, [Next]_vars
    PROVE  Exchange'
<1> USE DEF LeaseInvariant, TypeOK, Exchange, Goto, Send, FreeLock, BeginRelease,
     Advance, AfterJob, coordinatorVars, brokerVars
<1>1. ASSUME NEW i \in Launches, Launch(i) PROVE Exchange'
  BY <1>1 DEF Launch
<1>2. ASSUME NEW i \in Launches, TakeLock(i) PROVE Exchange'
  BY <1>2 DEF TakeLock
<1>3. ASSUME NEW i \in Launches, WriteDacl(i) PROVE Exchange'
  BY <1>3 DEF WriteDacl
<1>4. ASSUME NEW i \in Launches, WriteFails(i) PROVE Exchange'
  BY <1>4 DEF WriteFails
<1>5. ASSUME NEW i \in Launches, Verify(i) PROVE Exchange'
  BY <1>5 DEF Verify
<1>6. ASSUME NEW i \in Launches, BrokerConnects(i) PROVE Exchange'
  BY <1>6 DEF BrokerConnects
<1>7. ASSUME NEW i \in Launches, Cancelled(i) PROVE Exchange'
  BY <1>7 DEF Cancelled
<1>8. ASSUME NEW i \in Launches, ReadAcquire(i) PROVE Exchange'
  BY <1>8 DEF ReadAcquire
<1>9. ASSUME NEW i \in Launches, Answer(i) PROVE Exchange'
  BY <1>9 DEF Answer, Outcome, JobProgress, Progress
<1>10. ASSUME NEW i \in Launches, ReadRelease(i) PROVE Exchange'
  BY <1>10 DEF ReadRelease
<1>11. ASSUME NEW i \in Launches, ReadFails(i) PROVE Exchange'
  BY <1>11 DEF ReadFails
<1>12. ASSUME NEW i \in Launches, Join(i) PROVE Exchange'
  BY <1>12 DEF Join
<1>13. ASSUME NEW i \in Launches, TakeLaunchMutex(i) PROVE Exchange'
  BY <1>13 DEF TakeLaunchMutex
<1>14. ASSUME NEW i \in Launches, LaunchFails(i) PROVE Exchange'
  BY <1>14 DEF LaunchFails, LaunchReturnsError
<1>15. ASSUME NEW i \in Launches, AskForLease(i) PROVE Exchange'
  BY <1>15 DEF AskForLease
<1>16. ASSUME NEW i \in Launches, LeaseGranted(i) PROVE Exchange'
  BY <1>16 DEF LeaseGranted
<1>17. ASSUME NEW i \in Launches, LeaseRefused(i) PROVE Exchange'
  BY <1>17 DEF LeaseRefused, LaunchReturnsError
<1>18. ASSUME NEW i \in Launches, StartProcess(i) PROVE Exchange'
  BY <1>18 DEF StartProcess
<1>19. ASSUME NEW i \in Launches, ResumeFails(i) PROVE Exchange'
  BY <1>19 DEF ResumeFails, LaunchReturnsError
<1>20. ASSUME NEW i \in Launches, ProcessFails(i) PROVE Exchange'
  BY <1>20 DEF ProcessFails, LaunchReturnsError
<1>21. ASSUME NEW i \in Launches, ReleaseAnswered(i) PROVE Exchange'
  BY <1>21 DEF ReleaseAnswered, LaunchReturnsError
<1>22. ASSUME NEW i \in Launches, LockFails(i) PROVE Exchange'
  BY <1>22 DEF LockFails
<1>23. ASSUME NEW i \in Launches, VerifyFails(i) PROVE Exchange'
  BY <1>23 DEF VerifyFails
<1>24. ASSUME NEW i \in Launches, GiveUp(i) PROVE Exchange'
  BY <1>24 DEF GiveUp
<1>25. ASSUME NEW i \in Launches, Kill(i) PROVE Exchange'
  BY <1>25 DEF Kill
<1>26. ASSUME NEW i \in Launches, EndSession(i) PROVE Exchange'
  BY <1>26 DEF EndSession
<1>27. ASSUME StopService PROVE Exchange'
  BY <1>27 DEF StopService
<1>28. ASSUME Crash PROVE Exchange'
  BY <1>28 DEF Crash, BrokerEnded
<1>29. CASE UNCHANGED vars
  BY <1>29 DEF vars
<1>30. QED
  BY <1>1, <1>2, <1>3, <1>4, <1>5, <1>6, <1>7, <1>8, <1>9, <1>10, <1>11, <1>12, <1>13, <1>14,
     <1>15, <1>16, <1>17, <1>18, <1>19, <1>20, <1>21, <1>22, <1>23, <1>24, <1>25, <1>26, <1>27,
     <1>28, <1>29
     DEF Next, LeaseStep, CoordinatorStep, BrokerStep

\* launchMutex_ has the holder the broker's workers think it has.
LEMMA MutexStep ==
    ASSUME LeaseInvariant, [Next]_vars
    PROVE  MutexDiscipline'
<1> USE LeaseConstants DEF LeaseInvariant, TypeOK, MutexDiscipline, coordinatorVars, brokerVars
<1>1. ASSUME NEW i \in Launches, Launch(i) PROVE MutexDiscipline'
  BY <1>1 DEF Launch, Exchange
<1>2. ASSUME NEW i \in Launches, TakeLock(i) PROVE MutexDiscipline'
  BY <1>2 DEF TakeLock
<1>3. ASSUME NEW i \in Launches, WriteDacl(i) PROVE MutexDiscipline'
  BY <1>3 DEF WriteDacl
<1>4. ASSUME NEW i \in Launches, WriteFails(i) PROVE MutexDiscipline'
  BY <1>4 DEF WriteFails
<1>5. ASSUME NEW i \in Launches, Verify(i) PROVE MutexDiscipline'
  BY <1>5 DEF Verify
<1>6. ASSUME NEW i \in Launches, BrokerConnects(i) PROVE MutexDiscipline'
  BY <1>6 DEF BrokerConnects
<1>7. ASSUME NEW i \in Launches, Cancelled(i) PROVE MutexDiscipline'
  BY <1>7 DEF Cancelled
<1>8. ASSUME NEW i \in Launches, ReadAcquire(i) PROVE MutexDiscipline'
  BY <1>8 DEF ReadAcquire
<1>9. ASSUME NEW i \in Launches, Answer(i) PROVE MutexDiscipline'
  BY <1>9 DEF Answer
<1>10. ASSUME NEW i \in Launches, ReadRelease(i) PROVE MutexDiscipline'
  BY <1>10 DEF ReadRelease
<1>11. ASSUME NEW i \in Launches, ReadFails(i) PROVE MutexDiscipline'
  BY <1>11 DEF ReadFails
<1>12. ASSUME NEW i \in Launches, Join(i) PROVE MutexDiscipline'
  BY <1>12 DEF Join
<1>13. ASSUME NEW i \in Launches, TakeLaunchMutex(i) PROVE MutexDiscipline'
  BY <1>13 DEF TakeLaunchMutex
<1>14. ASSUME NEW i \in Launches, LaunchFails(i) PROVE MutexDiscipline'
  BY <1>14 DEF LaunchFails, LaunchReturnsError
<1>15. ASSUME NEW i \in Launches, AskForLease(i) PROVE MutexDiscipline'
  BY <1>15 DEF AskForLease
<1>16. ASSUME NEW i \in Launches, LeaseGranted(i) PROVE MutexDiscipline'
  BY <1>16 DEF LeaseGranted
<1>17. ASSUME NEW i \in Launches, LeaseRefused(i) PROVE MutexDiscipline'
  BY <1>17 DEF LeaseRefused, LaunchReturnsError
<1>18. ASSUME NEW i \in Launches, StartProcess(i) PROVE MutexDiscipline'
  BY <1>18 DEF StartProcess
<1>19. ASSUME NEW i \in Launches, ResumeFails(i) PROVE MutexDiscipline'
  BY <1>19 DEF ResumeFails, LaunchReturnsError
<1>20. ASSUME NEW i \in Launches, ProcessFails(i) PROVE MutexDiscipline'
  BY <1>20 DEF ProcessFails, LaunchReturnsError
<1>21. ASSUME NEW i \in Launches, ReleaseAnswered(i) PROVE MutexDiscipline'
  BY <1>21 DEF ReleaseAnswered, LaunchReturnsError
<1>22. ASSUME NEW i \in Launches, LockFails(i) PROVE MutexDiscipline'
  BY <1>22 DEF LockFails
<1>23. ASSUME NEW i \in Launches, VerifyFails(i) PROVE MutexDiscipline'
  BY <1>23 DEF VerifyFails
<1>24. ASSUME NEW i \in Launches, GiveUp(i) PROVE MutexDiscipline'
  BY <1>24 DEF GiveUp
<1>25. ASSUME NEW i \in Launches, Kill(i) PROVE MutexDiscipline'
  BY <1>25 DEF Kill
<1>26. ASSUME NEW i \in Launches, EndSession(i) PROVE MutexDiscipline'
  BY <1>26 DEF EndSession
<1>27. ASSUME StopService PROVE MutexDiscipline'
  BY <1>27 DEF StopService
<1>28. ASSUME Crash PROVE MutexDiscipline'
  BY <1>28 DEF Crash, BrokerEnded
<1>29. CASE UNCHANGED vars
  BY <1>29 DEF vars
<1>30. QED
  BY <1>1, <1>2, <1>3, <1>4, <1>5, <1>6, <1>7, <1>8, <1>9, <1>10, <1>11, <1>12, <1>13, <1>14,
     <1>15, <1>16, <1>17, <1>18, <1>19, <1>20, <1>21, <1>22, <1>23, <1>24, <1>25, <1>26, <1>27,
     <1>28, <1>29
     DEF Next, LeaseStep, CoordinatorStep, BrokerStep

\* A lease that was granted stays complete until it is given back, killed launchers included.
LEMMA GrantsStep ==
    ASSUME LeaseInvariant, [Next]_vars
    PROVE  GrantsAreComplete'
<1> USE DEF LeaseInvariant, TypeOK, Exchange, GrantsAreComplete, Goto, Send, FreeLock, BeginRelease,
     Advance, AfterJob, coordinatorVars, brokerVars
<1>1. ASSUME NEW i \in Launches, Launch(i) PROVE GrantsAreComplete'
  BY <1>1 DEF Launch
<1>2. ASSUME NEW i \in Launches, TakeLock(i) PROVE GrantsAreComplete'
  BY <1>2 DEF TakeLock
<1>3. ASSUME NEW i \in Launches, WriteDacl(i) PROVE GrantsAreComplete'
  BY <1>3 DEF WriteDacl
<1>4. ASSUME NEW i \in Launches, WriteFails(i) PROVE GrantsAreComplete'
  BY <1>4 DEF WriteFails
<1>5. ASSUME NEW i \in Launches, Verify(i) PROVE GrantsAreComplete'
  BY <1>5 DEF Verify
<1>6. ASSUME NEW i \in Launches, BrokerConnects(i) PROVE GrantsAreComplete'
  BY <1>6 DEF BrokerConnects
<1>7. ASSUME NEW i \in Launches, Cancelled(i) PROVE GrantsAreComplete'
  BY <1>7 DEF Cancelled
<1>8. ASSUME NEW i \in Launches, ReadAcquire(i) PROVE GrantsAreComplete'
  BY <1>8 DEF ReadAcquire
<1>9. ASSUME NEW i \in Launches, Answer(i) PROVE GrantsAreComplete'
  BY <1>9 DEF Answer, Outcome, JobProgress, Progress
<1>10. ASSUME NEW i \in Launches, ReadRelease(i) PROVE GrantsAreComplete'
  BY <1>10 DEF ReadRelease
<1>11. ASSUME NEW i \in Launches, ReadFails(i) PROVE GrantsAreComplete'
  BY <1>11 DEF ReadFails
<1>12. ASSUME NEW i \in Launches, Join(i) PROVE GrantsAreComplete'
  BY <1>12 DEF Join
<1>13. ASSUME NEW i \in Launches, TakeLaunchMutex(i) PROVE GrantsAreComplete'
  BY <1>13 DEF TakeLaunchMutex
<1>14. ASSUME NEW i \in Launches, LaunchFails(i) PROVE GrantsAreComplete'
  BY <1>14 DEF LaunchFails, LaunchReturnsError
<1>15. ASSUME NEW i \in Launches, AskForLease(i) PROVE GrantsAreComplete'
  BY <1>15 DEF AskForLease
<1>16. ASSUME NEW i \in Launches, LeaseGranted(i) PROVE GrantsAreComplete'
  BY <1>16 DEF LeaseGranted
<1>17. ASSUME NEW i \in Launches, LeaseRefused(i) PROVE GrantsAreComplete'
  BY <1>17 DEF LeaseRefused, LaunchReturnsError
<1>18. ASSUME NEW i \in Launches, StartProcess(i) PROVE GrantsAreComplete'
  BY <1>18 DEF StartProcess
<1>19. ASSUME NEW i \in Launches, ResumeFails(i) PROVE GrantsAreComplete'
  BY <1>19 DEF ResumeFails, LaunchReturnsError
<1>20. ASSUME NEW i \in Launches, ProcessFails(i) PROVE GrantsAreComplete'
  BY <1>20 DEF ProcessFails, LaunchReturnsError
<1>21. ASSUME NEW i \in Launches, ReleaseAnswered(i) PROVE GrantsAreComplete'
  BY <1>21 DEF ReleaseAnswered, LaunchReturnsError
<1>22. ASSUME NEW i \in Launches, LockFails(i) PROVE GrantsAreComplete'
  BY <1>22 DEF LockFails
<1>23. ASSUME NEW i \in Launches, VerifyFails(i) PROVE GrantsAreComplete'
  BY <1>23 DEF VerifyFails
<1>24. ASSUME NEW i \in Launches, GiveUp(i) PROVE GrantsAreComplete'
  BY <1>24 DEF GiveUp
<1>25. ASSUME NEW i \in Launches, Kill(i) PROVE GrantsAreComplete'
  BY <1>25 DEF Kill
<1>26. ASSUME NEW i \in Launches, EndSession(i) PROVE GrantsAreComplete'
  BY <1>26 DEF EndSession
<1>27. ASSUME StopService PROVE GrantsAreComplete'
  BY <1>27 DEF StopService
<1>28. ASSUME Crash PROVE GrantsAreComplete'
  BY <1>28 DEF Crash, BrokerEnded
<1>29. CASE UNCHANGED vars
  BY <1>29 DEF vars
<1>30. QED
  BY <1>1, <1>2, <1>3, <1>4, <1>5, <1>6, <1>7, <1>8, <1>9, <1>10, <1>11, <1>12, <1>13, <1>14,
     <1>15, <1>16, <1>17, <1>18, <1>19, <1>20, <1>21, <1>22, <1>23, <1>24, <1>25, <1>26, <1>27,
     <1>28, <1>29
     DEF Next, LeaseStep, CoordinatorStep, BrokerStep

\* The conjunction of these parts is inductive.
THEOREM InvariantHolds == Spec => []LeaseInvariant
<1>1. ASSUME Init PROVE LeaseInvariant
  <2> USE <1>1 DEF Init
  <2>1. TypeOK
    BY DEF TypeOK, MainSteps, BrokerSteps, Messages
  <2>2. LockDiscipline
    BY LeaseConstants DEF LockDiscipline
  <2>3. AcesAreTracked
    BY DEF AcesAreTracked
  <2>4. JobProgress
    BY DEF JobProgress, Progress
  <2>5. Exchange
    BY DEF Exchange
  <2>6. MutexDiscipline
    BY LeaseConstants DEF MutexDiscipline
  <2>7. GrantsAreComplete
    BY DEF GrantsAreComplete
  <2>8. QED
    BY <2>1, <2>2, <2>3, <2>4, <2>5, <2>6, <2>7 DEF LeaseInvariant
<1>2. LeaseInvariant /\ [Next]_vars => LeaseInvariant'
  BY TypeStep, LockStep, AcesStep, ProgressStep, ExchangeStep, MutexStep, GrantsStep
     DEF LeaseInvariant
<1>3. QED
  BY <1>1, <1>2, PTL DEF Spec

\* While a program runs, or is being created, all protected objects carry its ACE, whatever
\* other leases do and although its launcher is killed.
THEOREM GrantsHold == Spec => []RunningMeansGranted
<1>1. LeaseInvariant => RunningMeansGranted
  BY DEF LeaseInvariant, AcesAreTracked, GrantsAreComplete, RunningMeansGranted
<1>2. QED
  BY <1>1, InvariantHolds, PTL

\* A launcher that came to its end left an ACE behind only if it knows of it and has
\* failed to remove it.
THEOREM StraysAreKnown == Spec => []StrayGrantsAreKnown
<1>1. LeaseInvariant => StrayGrantsAreKnown
  BY DEF LeaseInvariant, AcesAreTracked, JobProgress, Progress, StrayGrantsAreKnown
<1>2. QED
  BY <1>1, InvariantHolds, PTL

\* A release the broker takes for done has removed every ACE of the lease.
THEOREM ReleasesRemove == Spec => []ReleasedMeansRemoved
<1>1. LeaseInvariant => ReleasedMeansRemoved
  BY DEF LeaseInvariant, AcesAreTracked, Exchange, ReleasedMeansRemoved
<1>2. QED
  BY <1>1, InvariantHolds, PTL

\* One step changes one object's ACL, and only the ACE of the lease it is taken for.
LEMMA OwnAceStep ==
    ASSUME LeaseInvariant, [Next]_vars
    PROVE  \A o \in ObjectIds : \A j, k \in Launches :
              (j \in dacl[o]) # (j \in dacl'[o]) /\ (k \in dacl[o]) # (k \in dacl'[o]) => j = k
<1> DEFINE Own == \A o \in ObjectIds : \A j, k \in Launches :
              (j \in dacl[o]) # (j \in dacl'[o]) /\ (k \in dacl[o]) # (k \in dacl'[o]) => j = k
<1>0. ASSUME UNCHANGED dacl PROVE Own
  BY <1>0
<1>1. ASSUME NEW i \in Launches, WriteDacl(i) PROVE Own
  <2>1. seen[i] = dacl[Current(i)] /\ Current(i) \in ObjectIds
    BY <1>1, CurrentIsLeft DEF WriteDacl, LeaseInvariant, LockDiscipline, JobProgress, Progress
  <2>2. \A o \in ObjectIds : \/ dacl'[o] = dacl[o]
                             \/ dacl'[o] = dacl[o] \cup {i}
                             \/ dacl'[o] = dacl[o] \ {i}
    BY <1>1, <2>1 DEF WriteDacl, LeaseInvariant, TypeOK
  <2>3. QED
    BY <2>2
<1>2. ASSUME NEW i \in Launches, LeaseStep(i), ~WriteDacl(i) PROVE UNCHANGED dacl
  BY <1>2 DEF LeaseStep, TakeLock, WriteFails, Verify
<1>3. ASSUME NEW i \in Launches, CoordinatorStep(i) PROVE UNCHANGED dacl
  BY <1>3
     DEF CoordinatorStep, BrokerConnects, Cancelled, ReadAcquire, Answer, ReadRelease, ReadFails,
         Join, coordinatorVars
<1>4. ASSUME NEW i \in Launches, BrokerStep(i) PROVE UNCHANGED dacl
  BY <1>4
     DEF BrokerStep, TakeLaunchMutex, LaunchFails, AskForLease, LeaseGranted, LeaseRefused,
         StartProcess, ResumeFails, ProcessFails, ReleaseAnswered, coordinatorVars
<1>5. ASSUME NEW i \in Launches,
             Launch(i) \/ LockFails(i) \/ VerifyFails(i) \/ GiveUp(i) \/ Kill(i) \/ EndSession(i)
      PROVE  UNCHANGED dacl
  BY <1>5 DEF Launch, LockFails, VerifyFails, GiveUp, Kill, EndSession, coordinatorVars
<1>6. ASSUME StopService \/ Crash \/ UNCHANGED vars PROVE UNCHANGED dacl
  BY <1>6 DEF StopService, Crash, vars, coordinatorVars
<1> HIDE DEF Own
<1>7. Own
  BY <1>0, <1>1, <1>2, <1>3, <1>4, <1>5, <1>6 DEF Next
<1>8. QED
  BY <1>7 DEF Own

\* No grant, rollback or release touches the ACE of another lease.
THEOREM OwnAceOnly == Spec => OnlyOwnAceChanges
<1>1. LeaseInvariant /\ [Next]_vars
        => [\A o \in ObjectIds : \A i, j \in Launches :
              (i \in dacl[o]) # (i \in dacl'[o]) /\ (j \in dacl[o]) # (j \in dacl'[o]) => i = j]_vars
  BY OwnAceStep
<1>2. QED
  BY <1>1, InvariantHolds, PTL DEF Spec, OnlyOwnAceChanges

-----------------------------------------------------------------------------
(* The coordinators and the broker implement LeaseContract.                 *)

\* A step of the contract, or one that changes nothing it sees.
ContractStep == [Contract!LeaseNext]_(Contract!leaseVars)

\* A worker that moves changes its launch's stage only.
LEMMA StageMoves ==
    ASSUME TypeOK, NEW i \in Launches, NEW step, broker' = [broker EXCEPT ![i] = step]
    PROVE  /\ Stage[i] = StageAt(broker[i])
           /\ Stage' = [Stage EXCEPT ![i] = StageAt(step)]
BY DEF TypeOK, Stage

\* The launcher's steps leave the stages alone and open or close the desktop, if at all, to
\* their own launch, which has no program while they do.
LEMMA LauncherContractStep ==
    ASSUME LeaseInvariant, NEW i \in Launches,
           LeaseStep(i) \/ CoordinatorStep(i) \/ LockFails(i) \/ VerifyFails(i) \/ GiveUp(i)
             \/ Kill(i)
    PROVE  ContractStep
<1>1. Stage' = Stage
  <2>1. UNCHANGED broker
    BY
       DEF LeaseStep, TakeLock, WriteDacl, WriteFails, Verify, CoordinatorStep, BrokerConnects,
           Cancelled, ReadAcquire, Answer, ReadRelease, ReadFails, Join, LockFails, VerifyFails,
           GiveUp, Kill, brokerVars
  <2> QED
    BY <2>1 DEF Stage
<1>2. CASE WriteDacl(i)
  <2>1. seen[i] = dacl[Current(i)] /\ Current(i) \in ObjectIds
    BY <1>2, CurrentIsLeft DEF WriteDacl, LeaseInvariant, LockDiscipline, JobProgress, Progress
  <2>2. \A o \in ObjectIds : \/ dacl'[o] = dacl[o]
                             \/ dacl'[o] = dacl[o] \cup {i}
                             \/ dacl'[o] = dacl[o] \ {i}
    BY <1>2, <2>1 DEF WriteDacl, LeaseInvariant, TypeOK
  <2>3. Open' \in {Open \cup {i}, Open \ {i}}
    BY <2>2 DEF Open
  <2>4. i \notin Contract!Held
    <3>1. broker[i] \notin {"granted", "running"}
      BY <1>2 DEF WriteDacl, LeaseInvariant, Exchange
    <3> QED
      BY <3>1 DEF Contract!Held, Stage, StageAt
  <2>5. Contract!Turn(i)
    BY <1>1, <2>3, <2>4 DEF Contract!Turn
  <2> QED
    BY <2>5 DEF ContractStep, Contract!LeaseNext
<1>3. CASE ~WriteDacl(i)
  <2>1. UNCHANGED dacl
    BY <1>3
       DEF LeaseStep, TakeLock, WriteFails, Verify, CoordinatorStep, BrokerConnects, Cancelled,
           ReadAcquire, Answer, ReadRelease, ReadFails, Join, LockFails, VerifyFails, GiveUp,
           Kill, coordinatorVars
  <2>2. Open' = Open
    BY <2>1 DEF Open
  <2> QED
    BY <1>1, <2>2 DEF ContractStep, Contract!leaseVars
<1> QED
  BY <1>2, <1>3

\* The broker's worker begins when no other launch is under way, takes a grant for what it is,
\* and leaves the desktop as it is.
LEMMA WorkerContractStep ==
    ASSUME LeaseInvariant, NEW i \in Launches, Launch(i) \/ BrokerStep(i) \/ EndSession(i)
    PROVE  ContractStep
<1> USE DEF ContractStep, Contract!LeaseNext, Contract!Move
<1> TypeOK
  BY DEF LeaseInvariant
<1>1. Open' = Open
  <2>1. UNCHANGED dacl
    BY
       DEF Launch, BrokerStep, TakeLaunchMutex, LaunchFails, AskForLease, LeaseGranted,
           LeaseRefused, StartProcess, ResumeFails, ProcessFails, ReleaseAnswered, EndSession,
           coordinatorVars
  <2> QED
    BY <2>1 DEF Open
<1>2. ASSUME Stage' = Stage PROVE ContractStep
  BY <1>1, <1>2 DEF Contract!leaseVars
<1>3. ASSUME Stage[i] # "out", Stage' = [Stage EXCEPT ![i] = "out"] PROVE ContractStep
  <2>1. Stage[i] \in {"launching", "granted", "running"}
    BY <1>3 DEF Stage, StageAt
  <2>2. Contract!Leave(i)
    BY <1>1, <1>3, <2>1 DEF Contract!Leave
  <2> QED
    BY <2>2
<1>4. CASE Launch(i)
  <2>1. broker[i] = "none"
    BY <1>4 DEF Launch, LeaseInvariant, Exchange
  <2>2. broker' = [broker EXCEPT ![i] = "queued"] \/ broker' = broker
    BY <1>4 DEF Launch
  <2>3. Stage' = Stage
    BY <2>1, <2>2 DEF Stage, StageAt, TypeOK
  <2> QED
    BY <1>2, <2>3
<1>5. CASE TakeLaunchMutex(i)
  <2>1. \A j \in Launches : Stage[j] \notin {"launching", "granted"}
    BY <1>5, LeaseConstants DEF TakeLaunchMutex, LeaseInvariant, MutexDiscipline, Stage, StageAt
  <2>2. Stage[i] = "out" /\ Stage' = [Stage EXCEPT ![i] = "launching"]
    BY <1>5, StageMoves DEF TakeLaunchMutex, StageAt
  <2>3. Contract!Begin(i)
    BY <1>1, <2>1, <2>2 DEF Contract!Begin
  <2> QED
    BY <2>3
<1>6. CASE AskForLease(i)
  <2>1. Stage[i] = "launching" /\ Stage' = [Stage EXCEPT ![i] = "launching"]
    BY <1>6, StageMoves DEF AskForLease, StageAt
  <2>2. Stage' = Stage
    BY <2>1 DEF Stage
  <2> QED
    BY <1>2, <2>2
<1>7. CASE LeaseGranted(i)
  <2>1. i \in Open
    BY <1>7 DEF LeaseGranted, LeaseInvariant, GrantsAreComplete, AcesAreTracked, Open
  <2>2. Stage[i] = "launching" /\ Stage' = [Stage EXCEPT ![i] = "granted"]
    BY <1>7, StageMoves DEF LeaseGranted, StageAt
  <2>3. Contract!Grant(i)
    BY <1>1, <2>1, <2>2 DEF Contract!Grant
  <2> QED
    BY <2>3
<1>8. CASE StartProcess(i)
  <2>1. Stage[i] = "granted" /\ Stage' = [Stage EXCEPT ![i] = "running"]
    BY <1>8, StageMoves DEF StartProcess, StageAt
  <2>2. Contract!Start(i)
    BY <1>1, <2>1 DEF Contract!Start
  <2> QED
    BY <2>2
<1>9. CASE LaunchFails(i) \/ LeaseRefused(i) \/ ResumeFails(i)
  <2>1. Stage[i] # "out" /\ Stage' = [Stage EXCEPT ![i] = "out"]
    BY <1>9, StageMoves DEF LaunchFails, LeaseRefused, ResumeFails, LaunchReturnsError, StageAt
  <2> QED
    BY <1>3, <2>1
<1>10. CASE ProcessFails(i)
  <2>1. CASE broker' = [broker EXCEPT ![i] = "undoing"]
    <3>1. Stage[i] = "granted" /\ Stage' = [Stage EXCEPT ![i] = "launching"]
      BY <1>10, <2>1, StageMoves DEF ProcessFails, StageAt
    <3>2. Contract!GiveBack(i)
      BY <1>1, <3>1 DEF Contract!GiveBack
    <3> QED
      BY <3>2
  <2>2. CASE broker' = [broker EXCEPT ![i] = "failed"]
    <3>1. Stage[i] # "out" /\ Stage' = [Stage EXCEPT ![i] = "out"]
      BY <1>10, <2>2, StageMoves DEF ProcessFails, StageAt
    <3> QED
      BY <1>3, <3>1
  <2> QED
    BY <1>10, <2>1, <2>2 DEF ProcessFails, LaunchReturnsError
<1>11. CASE EndSession(i)
  <2>1. Stage[i] # "out" /\ Stage' = [Stage EXCEPT ![i] = "out"]
    BY <1>11, StageMoves DEF EndSession, StageAt
  <2> QED
    BY <1>3, <2>1
<1>12. CASE ReleaseAnswered(i)
  <2>1. CASE broker[i] = "undoing"
    <3>1. Stage[i] # "out" /\ Stage' = [Stage EXCEPT ![i] = "out"]
      BY <1>12, <2>1, StageMoves DEF ReleaseAnswered, LaunchReturnsError, StageAt
    <3> QED
      BY <1>3, <3>1
  <2>2. CASE broker[i] = "releasing"
    <3>1. PICK step \in {"closed", "unconfirmed"} : broker' = [broker EXCEPT ![i] = step]
      BY <1>12, <2>2 DEF ReleaseAnswered
    <3>2. Stage[i] = "out" /\ Stage' = [Stage EXCEPT ![i] = "out"]
      BY <2>2, <3>1, StageMoves DEF StageAt
    <3>3. Stage' = Stage
      BY <3>2 DEF Stage
    <3> QED
      BY <1>2, <3>3
  <2> QED
    BY <1>12, <2>1, <2>2 DEF ReleaseAnswered
<1> QED
  BY <1>4, <1>5, <1>6, <1>7, <1>8, <1>9, <1>10, <1>11, <1>12 DEF BrokerStep

\* A stop is not seen, and a crash of the broker ends all sessions at once.
LEMMA EndContractStep ==
    ASSUME LeaseInvariant, StopService \/ Crash \/ UNCHANGED vars
    PROVE  ContractStep
<1>1. Open' = Open
  BY DEF StopService, Crash, vars, coordinatorVars, Open
<1>2. CASE Crash
  <2>1. Stage' = [i \in Launches |-> "out"]
    <3>1. \A i \in Launches : StageAt(broker'[i]) = "out"
      BY <1>2 DEF Crash, BrokerEnded, StageAt
    <3> QED
      BY <3>1 DEF Stage
  <2> QED
    BY <1>1, <2>1 DEF ContractStep, Contract!LeaseNext, Contract!Break
<1>3. CASE StopService \/ UNCHANGED vars
  <2>1. Stage' = Stage
    BY <1>3 DEF StopService, vars, brokerVars, Stage
  <2> QED
    BY <1>1, <2>1 DEF ContractStep, Contract!leaseVars
<1> QED
  BY <1>2, <1>3

\* Coordinators that grant and revoke object by object, may fail at each, give up or are
\* killed, and a broker that may crash, keep the promise on which the session core builds: a
\* program exists only on a desktop that is open to it.
THEOREM LeasesAreImplemented == Spec => ImplementsLeases
<1>1. Init => Contract!LeaseInit
  <2> SUFFICES ASSUME Init PROVE Contract!LeaseInit
    OBVIOUS
  <2>1. Stage = [i \in Launches |-> "out"]
    BY DEF Init, Stage, StageAt
  <2>2. 1 \in ObjectIds
    BY LeaseConstants DEF ObjectIds
  <2>3. Open = {}
    BY <2>2 DEF Init, Open
  <2> QED
    BY <2>1, <2>3 DEF Contract!LeaseInit
<1>2. LeaseInvariant /\ [Next]_vars => [Contract!LeaseNext]_(Contract!leaseVars)
  BY LauncherContractStep, WorkerContractStep, EndContractStep DEF ContractStep, Next
<1>3. QED
  BY <1>1, <1>2, InvariantHolds, PTL DEF Spec, ImplementsLeases, Contract!LeaseSpec
\* Whatever a step does to one launch, the others' waits are as they were.
LEMMA OtherWaits ==
    ASSUME NEW j \in Launches, Unasked(j), Answering(j),
           main'[j] = main[j], job'[j] = job[j], pipe'[j] = pipe[j],
           message'[j] = message[j], broker'[j] = broker[j], reply'[j] = reply[j]
    PROVE  Unasked(j)' /\ Answering(j)'
BY DEF Unasked, Answering, BrokerEnded

\* Each end keeps the other's waits answered.
LEMMA WaitsStep ==
    ASSUME LeaseInvariant, WaitsAreAnswered, [Next]_vars
    PROVE  WaitsAreAnswered'
<1> DEFINE Waits(j) == Unasked(j) /\ Answering(j)
<1> USE DEF coordinatorVars, brokerVars
<1>0. /\ TypeOK /\ Exchange /\ JobProgress
      /\ \A j \in Launches : Waits(j)
  BY DEF LeaseInvariant, WaitsAreAnswered
<1>1. ASSUME NEW i \in Launches, Launch(i) PROVE \A j \in Launches : Waits(j)'
  <2>1. ASSUME NEW j \in Launches, j # i PROVE Waits(j)'
    BY <1>0, <1>1, <2>1, OtherWaits
       DEF TypeOK, Launch, Goto, Send, BeginRelease, Advance, AfterJob
  <2>2. Waits(i)'
    BY <1>0, <1>1
       DEF TypeOK, MainSteps, BrokerSteps, Messages, Launch, Unasked, Answering, BrokerEnded,
           Goto, Send, BeginRelease, Advance, AfterJob, Exchange, JobProgress, Progress, Alive
  <2> QED
    BY <2>1, <2>2
<1>2. ASSUME NEW i \in Launches, TakeLock(i) PROVE \A j \in Launches : Waits(j)'
  <2>1. ASSUME NEW j \in Launches, j # i PROVE Waits(j)'
    BY <1>0, <1>2, <2>1, OtherWaits
       DEF TypeOK, TakeLock, Goto, Send, BeginRelease, Advance, AfterJob
  <2>2. Waits(i)'
    BY <1>0, <1>2
       DEF TypeOK, MainSteps, BrokerSteps, Messages, TakeLock, Unasked, Answering, BrokerEnded,
           Goto, Send, BeginRelease, Advance, AfterJob, Exchange, JobProgress, Progress, Alive
  <2> QED
    BY <2>1, <2>2
<1>3. ASSUME NEW i \in Launches, WriteDacl(i) PROVE \A j \in Launches : Waits(j)'
  <2>1. ASSUME NEW j \in Launches, j # i PROVE Waits(j)'
    BY <1>0, <1>3, <2>1, OtherWaits
       DEF TypeOK, WriteDacl, Goto, Send, BeginRelease, Advance, AfterJob
  <2>2. Waits(i)'
    BY <1>0, <1>3
       DEF TypeOK, MainSteps, BrokerSteps, Messages, WriteDacl, Unasked, Answering, BrokerEnded,
           Goto, Send, BeginRelease, Advance, AfterJob, Exchange, JobProgress, Progress, Alive
  <2> QED
    BY <2>1, <2>2
<1>4. ASSUME NEW i \in Launches, WriteFails(i) PROVE \A j \in Launches : Waits(j)'
  <2>1. ASSUME NEW j \in Launches, j # i PROVE Waits(j)'
    BY <1>0, <1>4, <2>1, OtherWaits
       DEF TypeOK, WriteFails, Goto, Send, BeginRelease, Advance, AfterJob
  <2>2. Waits(i)'
    BY <1>0, <1>4
       DEF TypeOK, MainSteps, BrokerSteps, Messages, WriteFails, Unasked, Answering, BrokerEnded,
           Goto, Send, BeginRelease, Advance, AfterJob, Exchange, JobProgress, Progress, Alive
  <2> QED
    BY <2>1, <2>2
<1>5. ASSUME NEW i \in Launches, Verify(i) PROVE \A j \in Launches : Waits(j)'
  <2>1. ASSUME NEW j \in Launches, j # i PROVE Waits(j)'
    BY <1>0, <1>5, <2>1, OtherWaits
       DEF TypeOK, Verify, Goto, Send, BeginRelease, Advance, AfterJob
  <2>2. Waits(i)'
    BY <1>0, <1>5
       DEF TypeOK, MainSteps, BrokerSteps, Messages, Verify, Unasked, Answering, BrokerEnded,
           Goto, Send, BeginRelease, Advance, AfterJob, Exchange, JobProgress, Progress, Alive
  <2> QED
    BY <2>1, <2>2
<1>6. ASSUME NEW i \in Launches, BrokerConnects(i) PROVE \A j \in Launches : Waits(j)'
  <2>1. ASSUME NEW j \in Launches, j # i PROVE Waits(j)'
    BY <1>0, <1>6, <2>1, OtherWaits
       DEF TypeOK, BrokerConnects, Goto, Send, BeginRelease, Advance, AfterJob
  <2>2. Waits(i)'
    BY <1>0, <1>6
       DEF TypeOK, MainSteps, BrokerSteps, Messages, BrokerConnects, Unasked, Answering,
           BrokerEnded, Goto, Send, BeginRelease, Advance, AfterJob, Exchange, JobProgress,
           Progress, Alive
  <2> QED
    BY <2>1, <2>2
<1>7. ASSUME NEW i \in Launches, Cancelled(i) PROVE \A j \in Launches : Waits(j)'
  <2>1. ASSUME NEW j \in Launches, j # i PROVE Waits(j)'
    BY <1>0, <1>7, <2>1, OtherWaits
       DEF TypeOK, Cancelled, Goto, Send, BeginRelease, Advance, AfterJob
  <2>2. Waits(i)'
    BY <1>0, <1>7
       DEF TypeOK, MainSteps, BrokerSteps, Messages, Cancelled, Unasked, Answering, BrokerEnded,
           Goto, Send, BeginRelease, Advance, AfterJob, Exchange, JobProgress, Progress, Alive
  <2> QED
    BY <2>1, <2>2
<1>8. ASSUME NEW i \in Launches, ReadAcquire(i) PROVE \A j \in Launches : Waits(j)'
  <2>1. ASSUME NEW j \in Launches, j # i PROVE Waits(j)'
    BY <1>0, <1>8, <2>1, OtherWaits
       DEF TypeOK, ReadAcquire, Goto, Send, BeginRelease, Advance, AfterJob
  <2>2. Waits(i)'
    BY <1>0, <1>8
       DEF TypeOK, MainSteps, BrokerSteps, Messages, ReadAcquire, Unasked, Answering, BrokerEnded,
           Goto, Send, BeginRelease, Advance, AfterJob, Exchange, JobProgress, Progress, Alive
  <2> QED
    BY <2>1, <2>2
<1>9. ASSUME NEW i \in Launches, Answer(i) PROVE \A j \in Launches : Waits(j)'
  <2>1. ASSUME NEW j \in Launches, j # i PROVE Waits(j)'
    BY <1>0, <1>9, <2>1, OtherWaits
       DEF TypeOK, Answer, Outcome, Goto, Send, BeginRelease, Advance, AfterJob
  <2>2. Waits(i)'
    BY <1>0, <1>9
       DEF TypeOK, MainSteps, BrokerSteps, Messages, Answer, Outcome, Unasked, Answering,
           BrokerEnded, Goto, Send, BeginRelease, Advance, AfterJob, Exchange, JobProgress,
           Progress, Alive
  <2> QED
    BY <2>1, <2>2
<1>10. ASSUME NEW i \in Launches, ReadRelease(i) PROVE \A j \in Launches : Waits(j)'
  <2>1. ASSUME NEW j \in Launches, j # i PROVE Waits(j)'
    BY <1>0, <1>10, <2>1, OtherWaits
       DEF TypeOK, ReadRelease, Goto, Send, BeginRelease, Advance, AfterJob
  <2>2. Waits(i)'
    BY <1>0, <1>10
       DEF TypeOK, MainSteps, BrokerSteps, Messages, ReadRelease, Unasked, Answering, BrokerEnded,
           Goto, Send, BeginRelease, Advance, AfterJob, Exchange, JobProgress, Progress, Alive
  <2> QED
    BY <2>1, <2>2
<1>11. ASSUME NEW i \in Launches, ReadFails(i) PROVE \A j \in Launches : Waits(j)'
  <2>1. ASSUME NEW j \in Launches, j # i PROVE Waits(j)'
    BY <1>0, <1>11, <2>1, OtherWaits
       DEF TypeOK, ReadFails, Goto, Send, BeginRelease, Advance, AfterJob
  <2>2. Waits(i)'
    BY <1>0, <1>11
       DEF TypeOK, MainSteps, BrokerSteps, Messages, ReadFails, Unasked, Answering, BrokerEnded,
           Goto, Send, BeginRelease, Advance, AfterJob, Exchange, JobProgress, Progress, Alive
  <2> QED
    BY <2>1, <2>2
<1>12. ASSUME NEW i \in Launches, Join(i) PROVE \A j \in Launches : Waits(j)'
  <2>1. ASSUME NEW j \in Launches, j # i PROVE Waits(j)'
    BY <1>0, <1>12, <2>1, OtherWaits DEF TypeOK, Join, Goto, Send, BeginRelease, Advance, AfterJob
  <2>2. Waits(i)'
    BY <1>0, <1>12
       DEF TypeOK, MainSteps, BrokerSteps, Messages, Join, Unasked, Answering, BrokerEnded, Goto,
           Send, BeginRelease, Advance, AfterJob, Exchange, JobProgress, Progress, Alive
  <2> QED
    BY <2>1, <2>2
<1>13. ASSUME NEW i \in Launches, TakeLaunchMutex(i) PROVE \A j \in Launches : Waits(j)'
  <2>1. ASSUME NEW j \in Launches, j # i PROVE Waits(j)'
    BY <1>0, <1>13, <2>1, OtherWaits
       DEF TypeOK, TakeLaunchMutex, Goto, Send, BeginRelease, Advance, AfterJob
  <2>2. Waits(i)'
    BY <1>0, <1>13
       DEF TypeOK, MainSteps, BrokerSteps, Messages, TakeLaunchMutex, Unasked, Answering,
           BrokerEnded, Goto, Send, BeginRelease, Advance, AfterJob, Exchange, JobProgress,
           Progress, Alive
  <2> QED
    BY <2>1, <2>2
<1>14. ASSUME NEW i \in Launches, LaunchFails(i) PROVE \A j \in Launches : Waits(j)'
  <2>1. ASSUME NEW j \in Launches, j # i PROVE Waits(j)'
    BY <1>0, <1>14, <2>1, OtherWaits
       DEF TypeOK, LaunchFails, LaunchReturnsError, Goto, Send, BeginRelease, Advance, AfterJob
  <2>2. Waits(i)'
    BY <1>0, <1>14
       DEF TypeOK, MainSteps, BrokerSteps, Messages, LaunchFails, LaunchReturnsError, Unasked,
           Answering, BrokerEnded, Goto, Send, BeginRelease, Advance, AfterJob, Exchange,
           JobProgress, Progress, Alive
  <2> QED
    BY <2>1, <2>2
<1>15. ASSUME NEW i \in Launches, AskForLease(i) PROVE \A j \in Launches : Waits(j)'
  <2>1. ASSUME NEW j \in Launches, j # i PROVE Waits(j)'
    BY <1>0, <1>15, <2>1, OtherWaits
       DEF TypeOK, AskForLease, Goto, Send, BeginRelease, Advance, AfterJob
  <2>2. Waits(i)'
    BY <1>0, <1>15
       DEF TypeOK, MainSteps, BrokerSteps, Messages, AskForLease, Unasked, Answering, BrokerEnded,
           Goto, Send, BeginRelease, Advance, AfterJob, Exchange, JobProgress, Progress, Alive
  <2> QED
    BY <2>1, <2>2
<1>16. ASSUME NEW i \in Launches, LeaseGranted(i) PROVE \A j \in Launches : Waits(j)'
  <2>1. ASSUME NEW j \in Launches, j # i PROVE Waits(j)'
    BY <1>0, <1>16, <2>1, OtherWaits
       DEF TypeOK, LeaseGranted, Goto, Send, BeginRelease, Advance, AfterJob
  <2>2. Waits(i)'
    BY <1>0, <1>16
       DEF TypeOK, MainSteps, BrokerSteps, Messages, LeaseGranted, Unasked, Answering,
           BrokerEnded, Goto, Send, BeginRelease, Advance, AfterJob, Exchange, JobProgress,
           Progress, Alive
  <2> QED
    BY <2>1, <2>2
<1>17. ASSUME NEW i \in Launches, LeaseRefused(i) PROVE \A j \in Launches : Waits(j)'
  <2>1. ASSUME NEW j \in Launches, j # i PROVE Waits(j)'
    BY <1>0, <1>17, <2>1, OtherWaits
       DEF TypeOK, LeaseRefused, LaunchReturnsError, Goto, Send, BeginRelease, Advance, AfterJob
  <2>2. Waits(i)'
    BY <1>0, <1>17
       DEF TypeOK, MainSteps, BrokerSteps, Messages, LeaseRefused, LaunchReturnsError, Unasked,
           Answering, BrokerEnded, Goto, Send, BeginRelease, Advance, AfterJob, Exchange,
           JobProgress, Progress, Alive
  <2> QED
    BY <2>1, <2>2
<1>18. ASSUME NEW i \in Launches, StartProcess(i) PROVE \A j \in Launches : Waits(j)'
  <2>1. ASSUME NEW j \in Launches, j # i PROVE Waits(j)'
    BY <1>0, <1>18, <2>1, OtherWaits
       DEF TypeOK, StartProcess, Goto, Send, BeginRelease, Advance, AfterJob
  <2>2. Waits(i)'
    BY <1>0, <1>18
       DEF TypeOK, MainSteps, BrokerSteps, Messages, StartProcess, Unasked, Answering,
           BrokerEnded, Goto, Send, BeginRelease, Advance, AfterJob, Exchange, JobProgress,
           Progress, Alive
  <2> QED
    BY <2>1, <2>2
<1>19. ASSUME NEW i \in Launches, ResumeFails(i) PROVE \A j \in Launches : Waits(j)'
  <2>1. ASSUME NEW j \in Launches, j # i PROVE Waits(j)'
    BY <1>0, <1>19, <2>1, OtherWaits
       DEF TypeOK, ResumeFails, LaunchReturnsError, Goto, Send, BeginRelease, Advance, AfterJob
  <2>2. Waits(i)'
    BY <1>0, <1>19
       DEF TypeOK, MainSteps, BrokerSteps, Messages, ResumeFails, LaunchReturnsError, Unasked,
           Answering, BrokerEnded, Goto, Send, BeginRelease, Advance, AfterJob, Exchange,
           JobProgress, Progress, Alive
  <2> QED
    BY <2>1, <2>2
<1>20. ASSUME NEW i \in Launches, ProcessFails(i) PROVE \A j \in Launches : Waits(j)'
  <2>1. ASSUME NEW j \in Launches, j # i PROVE Waits(j)'
    BY <1>0, <1>20, <2>1, OtherWaits
       DEF TypeOK, ProcessFails, LaunchReturnsError, Goto, Send, BeginRelease, Advance, AfterJob
  <2>2. Waits(i)'
    BY <1>0, <1>20
       DEF TypeOK, MainSteps, BrokerSteps, Messages, ProcessFails, LaunchReturnsError, Unasked,
           Answering, BrokerEnded, Goto, Send, BeginRelease, Advance, AfterJob, Exchange,
           JobProgress, Progress, Alive
  <2> QED
    BY <2>1, <2>2
<1>21. ASSUME NEW i \in Launches, ReleaseAnswered(i) PROVE \A j \in Launches : Waits(j)'
  <2>1. ASSUME NEW j \in Launches, j # i PROVE Waits(j)'
    BY <1>0, <1>21, <2>1, OtherWaits
       DEF TypeOK, ReleaseAnswered, LaunchReturnsError, Goto, Send, BeginRelease, Advance,
           AfterJob
  <2>2. Waits(i)'
    BY <1>0, <1>21
       DEF TypeOK, MainSteps, BrokerSteps, Messages, ReleaseAnswered, LaunchReturnsError, Unasked,
           Answering, BrokerEnded, Goto, Send, BeginRelease, Advance, AfterJob, Exchange,
           JobProgress, Progress, Alive
  <2> QED
    BY <2>1, <2>2
<1>22. ASSUME NEW i \in Launches, LockFails(i) PROVE \A j \in Launches : Waits(j)'
  <2>1. ASSUME NEW j \in Launches, j # i PROVE Waits(j)'
    BY <1>0, <1>22, <2>1, OtherWaits
       DEF TypeOK, LockFails, Goto, Send, BeginRelease, Advance, AfterJob
  <2>2. Waits(i)'
    BY <1>0, <1>22
       DEF TypeOK, MainSteps, BrokerSteps, Messages, LockFails, Unasked, Answering, BrokerEnded,
           Goto, Send, BeginRelease, Advance, AfterJob, Exchange, JobProgress, Progress, Alive
  <2> QED
    BY <2>1, <2>2
<1>23. ASSUME NEW i \in Launches, VerifyFails(i) PROVE \A j \in Launches : Waits(j)'
  <2>1. ASSUME NEW j \in Launches, j # i PROVE Waits(j)'
    BY <1>0, <1>23, <2>1, OtherWaits
       DEF TypeOK, VerifyFails, Goto, Send, BeginRelease, Advance, AfterJob
  <2>2. Waits(i)'
    BY <1>0, <1>23
       DEF TypeOK, MainSteps, BrokerSteps, Messages, VerifyFails, Unasked, Answering, BrokerEnded,
           Goto, Send, BeginRelease, Advance, AfterJob, Exchange, JobProgress, Progress, Alive
  <2> QED
    BY <2>1, <2>2
<1>24. ASSUME NEW i \in Launches, GiveUp(i) PROVE \A j \in Launches : Waits(j)'
  <2>1. ASSUME NEW j \in Launches, j # i PROVE Waits(j)'
    BY <1>0, <1>24, <2>1, OtherWaits
       DEF TypeOK, GiveUp, Goto, Send, BeginRelease, Advance, AfterJob
  <2>2. Waits(i)'
    BY <1>0, <1>24
       DEF TypeOK, MainSteps, BrokerSteps, Messages, GiveUp, Unasked, Answering, BrokerEnded,
           Goto, Send, BeginRelease, Advance, AfterJob, Exchange, JobProgress, Progress, Alive
  <2> QED
    BY <2>1, <2>2
<1>25. ASSUME NEW i \in Launches, Kill(i) PROVE \A j \in Launches : Waits(j)'
  <2>1. ASSUME NEW j \in Launches, j # i PROVE Waits(j)'
    BY <1>0, <1>25, <2>1, OtherWaits DEF TypeOK, Kill, Goto, Send, BeginRelease, Advance, AfterJob
  <2>2. Waits(i)'
    BY <1>0, <1>25
       DEF TypeOK, MainSteps, BrokerSteps, Messages, Kill, Unasked, Answering, BrokerEnded, Goto,
           Send, BeginRelease, Advance, AfterJob, Exchange, JobProgress, Progress, Alive
  <2> QED
    BY <2>1, <2>2
<1>26. ASSUME NEW i \in Launches, EndSession(i) PROVE \A j \in Launches : Waits(j)'
  <2>1. ASSUME NEW j \in Launches, j # i PROVE Waits(j)'
    BY <1>0, <1>26, <2>1, OtherWaits
       DEF TypeOK, EndSession, Goto, Send, BeginRelease, Advance, AfterJob
  <2>2. Waits(i)'
    BY <1>0, <1>26
       DEF TypeOK, MainSteps, BrokerSteps, Messages, EndSession, Unasked, Answering, BrokerEnded,
           Goto, Send, BeginRelease, Advance, AfterJob, Exchange, JobProgress, Progress, Alive
  <2> QED
    BY <2>1, <2>2
<1>27. CASE StopService
  BY <1>0, <1>27 DEF StopService, WaitsAreAnswered, Unasked, Answering
<1>28. CASE Crash
  <2>1. SUFFICES ASSUME NEW j \in Launches PROVE Waits(j)'
    BY DEF WaitsAreAnswered
  <2>2. /\ broker'[j] = IF BrokerEnded(j) THEN broker[j] ELSE "failed"
        /\ reply'[j] = IF ~BrokerEnded(j) /\ reply[j] = "none" THEN "error" ELSE reply[j]
        /\ pipe'[j] = IF pipe[j] = "open" THEN "shut" ELSE pipe[j]
        /\ UNCHANGED <<main, job, message>>
    BY <1>28 DEF Crash
  <2>3. Unasked(j)'
    BY <1>0, <2>2 DEF Unasked, BrokerEnded, TypeOK, Exchange
  <2>4. Answering(j)'
    BY <1>0, <2>2 DEF Answering, BrokerEnded, TypeOK
  <2> QED
    BY <2>3, <2>4
<1>29. CASE UNCHANGED vars
  BY <1>0, <1>29 DEF vars, WaitsAreAnswered, Unasked, Answering
<1> QED
  BY <1>1, <1>2, <1>3, <1>4, <1>5, <1>6, <1>7, <1>8, <1>9, <1>10, <1>11, <1>12, <1>13, <1>14,
     <1>15, <1>16, <1>17, <1>18, <1>19, <1>20, <1>21, <1>22, <1>23, <1>24, <1>25, <1>26, <1>27,
     <1>28, <1>29
     DEF Next, LeaseStep, CoordinatorStep, BrokerStep, WaitsAreAnswered

\* The waits' promises hold throughout (AcquireInteractiveDesktopLease, Release, and
\* RunBrokerInteractive's coordinator on the other side).
THEOREM WaitsHold == Spec => []WaitsAreAnswered
<1>1. Init => WaitsAreAnswered
  BY DEF Init, WaitsAreAnswered, Unasked, Answering
<1>2. LeaseInvariant /\ WaitsAreAnswered /\ [Next]_vars => WaitsAreAnswered'
  BY WaitsStep
<1>3. QED
  BY <1>1, <1>2, InvariantHolds, PTL DEF Spec

\* Whoever holds the mutation lock is about to write or to verify, and so goes on.
LEMMA LockOwnerMoves ==
    ASSUME LeaseInvariant, lock # Nobody
    PROVE  lock \in Launches /\ LauncherCanMove(lock)
BY DEF LeaseInvariant, TypeOK, LockDiscipline, LauncherCanMove

\* A launcher whose worker has ended has its answer, its reply or a closed pipe.
LEMMA EndedLauncherMoves ==
    ASSUME LeaseInvariant, WaitsAreAnswered, NEW i \in Launches, BrokerEnded(i), Alive(i)
    PROVE  \/ LauncherCanMove(i)
           \/ main[i] = "lock" /\ lock # Nobody /\ LauncherCanMove(lock)
<1>1. /\ TypeOK /\ Exchange /\ Unasked(i)
  BY DEF LeaseInvariant, WaitsAreAnswered
<1>2. CASE main[i] = "lock"
  BY <1>2, LockOwnerMoves DEF LauncherCanMove
<1>3. CASE main[i] # "lock"
  BY <1>1, <1>3 DEF TypeOK, MainSteps, Alive, BrokerEnded, Exchange, Unasked, LauncherCanMove
<1> QED
  BY <1>2, <1>3

\* A worker in the middle of its launch, or of a release, is answered by a coordinator that
\* goes on, by its end, or not at all because it gave up.
LEMMA LaunchGoesOn ==
    ASSUME LeaseInvariant, WaitsAreAnswered, NEW i \in Launches,
           broker[i] \in {"launching", "awaiting", "granted", "undoing", "releasing"}
    PROVE  GaveUp(i) \/ GoesOn(i)
<1>1. /\ TypeOK /\ Exchange /\ Unasked(i) /\ Answering(i)
  BY DEF LeaseInvariant, WaitsAreAnswered
<1>2. CASE main[i] = "lock"
  BY <1>2, LockOwnerMoves DEF LauncherCanMove, GoesOn
<1>3. CASE broker[i] \in {"launching", "granted"} \/ ~Alive(i)
  BY <1>3 DEF WorkerCanMove, GoesOn
<1>4. CASE broker[i] = "awaiting" /\ Alive(i) /\ main[i] # "lock"
  BY <1>1, <1>4
     DEF TypeOK, MainSteps, Alive, Exchange, Unasked, Answering, GaveUp, GoesOn, WorkerCanMove,
         LauncherCanMove
<1>5. CASE broker[i] \in {"undoing", "releasing"} /\ Alive(i) /\ main[i] # "lock"
  BY <1>1, <1>5
     DEF TypeOK, MainSteps, Alive, Exchange, Unasked, Answering, GaveUp, GoesOn, WorkerCanMove,
         LauncherCanMove
<1> QED
  BY <1>2, <1>3, <1>4, <1>5

\* Broker and launchers never all wait for one another: only a coordinator that gave up
\* without an answer leaves its worker, and launchMutex_, waiting.
THEOREM LaunchesGoOn == Spec => []NobodyWaitsInVain
<1>1. LeaseInvariant /\ WaitsAreAnswered => NobodyWaitsInVain
  <2> SUFFICES ASSUME LeaseInvariant, WaitsAreAnswered PROVE NobodyWaitsInVain
    OBVIOUS
  <2>1. ASSUME NEW i \in Launches
        PROVE  \/ main[i] = "idle"
               \/ BrokerEnded(i) /\ ~Alive(i)
               \/ broker[i] = "running" /\ ~stopEvent
               \/ broker[i] = "queued" /\ launchMutex # Nobody
               \/ GaveUp(i) \/ GoesOn(i)
    <3>1. broker[i] \in BrokerSteps
      BY DEF LeaseInvariant, TypeOK
    <3>2. CASE BrokerEnded(i)
      BY <3>2, EndedLauncherMoves DEF GoesOn
    <3>3. CASE broker[i] \in {"queued", "running"}
      BY <3>3 DEF GoesOn, WorkerCanMove
    <3>4. CASE broker[i] \in {"launching", "awaiting", "granted", "undoing", "releasing"}
      BY <3>4, LaunchGoesOn
    <3> QED
      BY <3>1, <3>2, <3>3, <3>4 DEF BrokerSteps, BrokerEnded
  <2>2. launchMutex # Nobody => GaveUp(launchMutex) \/ GoesOn(launchMutex)
    <3>1. SUFFICES ASSUME launchMutex # Nobody
                   PROVE  GaveUp(launchMutex) \/ GoesOn(launchMutex)
      OBVIOUS
    <3>2. /\ launchMutex \in Launches
          /\ broker[launchMutex] \in {"launching", "awaiting", "granted", "undoing"}
      BY <3>1 DEF LeaseInvariant, TypeOK, MutexDiscipline
    <3> QED
      BY <3>2, LaunchGoesOn
  <2> QED
    BY <2>1, <2>2, EndedLauncherMoves DEF NobodyWaitsInVain
<1>2. QED
  BY <1>1, InvariantHolds, WaitsHold, PTL

-----------------------------------------------------------------------------
\* The protected objects can be counted.
LEMMA Sizes ==
    ASSUME NEW S \in SUBSET ObjectIds
    PROVE  /\ Cardinality(S) \in Nat /\ Cardinality(S) <= Objects
           /\ S # {} => Cardinality(S) >= 1
           /\ \A x \in S : Cardinality(S \ {x}) = Cardinality(S) - 1
<1>1. /\ Objects \in Nat
      /\ IsFiniteSet(ObjectIds) /\ Cardinality(ObjectIds) = Objects
  BY LeaseConstants, FS_Interval DEF ObjectIds
<1>2. IsFiniteSet(S) /\ Cardinality(S) <= Objects
  BY <1>1, FS_Subset
<1> QED
  BY <1>2, FS_CardinalityType, FS_EmptySet, FS_RemoveElement

\* What a coordinator has left is a natural number, within the span of its job.
LEMMA MainCounts ==
    ASSUME LeaseInvariant, NEW i \in Launches
    PROVE  /\ Objects \in Nat /\ MainLeft(i) \in Nat /\ BrokerLeft[broker[i]] \in Nat
           /\ main[i] \in {"lock", "write", "verify"} => MainLeft(i) > AfterJobLeft(i)
<1>1. Objects \in Nat /\ TypeOK /\ Progress(i)
  BY LeaseConstants DEF LeaseInvariant, JobProgress
<1>2. /\ Cardinality(todo[i]) \in Nat /\ Cardinality(todo[i]) <= Objects
      /\ todo[i] # {} => Cardinality(todo[i]) >= 1
  BY <1>1, Sizes DEF TypeOK
<1>3. AfterJobLeft(i) \in Nat
  BY <1>1 DEF TypeOK, AfterJobLeft
<1>4. BrokerLeft[broker[i]] \in Nat
  BY <1>1 DEF TypeOK, BrokerSteps, BrokerLeft
<1>5. main[i] \in {"lock", "write", "verify"} => todo[i] # {}
  BY <1>1 DEF Progress
<1> QED
  BY <1>1, <1>2, <1>3, <1>4, <1>5 DEF TypeOK, MainSteps, MainLeft

\* A coordinator that has begun to remove what it leased has less left than before it began
\* to grant, to hold, or to report.
LEMMA RemovalIsShort ==
    ASSUME LeaseInvariant, NEW i \in Launches, NEW j \in {"rollback", "release", "destroy"},
           BeginRelease(i, j, leased[i])
    PROVE  /\ MainLeft(i)' \in Int
           /\ MainLeft(i)' <= IF j = "destroy" THEN 3 * Objects + 1 ELSE 6 * Objects + 2
<1>1. Objects \in Nat /\ TypeOK
  BY LeaseConstants DEF LeaseInvariant
<1>2. /\ Cardinality(leased[i]) \in Nat /\ Cardinality(leased[i]) <= Objects
  BY <1>1, Sizes DEF TypeOK
<1>3. /\ job'[i] = j /\ todo'[i] = leased[i]
      /\ main'[i] = IF leased[i] = {} THEN AfterJob(j) ELSE "lock"
  BY <1>1 DEF BeginRelease, Goto, TypeOK
<1> QED
  BY <1>1, <1>2, <1>3 DEF MainLeft, AfterJobLeft, AfterJob

\* Going on with the next object shortens a job, and so does rolling it back.
LEMMA AdvanceIsShort ==
    ASSUME LeaseInvariant, NEW i \in Launches, NEW ok \in BOOLEAN, Advance(i, ok),
           main[i] \in {"lock", "write", "verify"}
    PROVE  MainLeft(i)' < MainLeft(i)
<1> DEFINE rest == todo[i] \ {Current(i)}
<1>1. /\ Objects \in Nat /\ TypeOK /\ todo[i] # {}
      /\ MainLeft(i) \in Nat /\ MainLeft(i) > AfterJobLeft(i)
  BY MainCounts DEF LeaseInvariant, JobProgress, Progress
<1>2. CASE BeginRelease(i, "rollback", leased[i]) /\ job[i] = "acquire"
  <2>1. MainLeft(i)' \in Int /\ MainLeft(i)' <= 6 * Objects + 2
    BY <1>2, RemovalIsShort
  <2>2. MainLeft(i) > 6 * Objects + 4
    BY <1>1, <1>2 DEF AfterJobLeft
  <2> QED
    BY <1>1, <2>1, <2>2
<1>3. CASE /\ job[i] = "acquire" => ok
           /\ todo' = [todo EXCEPT ![i] = rest]
           /\ Goto(i, IF rest = {} THEN AfterJob(job[i]) ELSE "lock")
           /\ UNCHANGED job
  <2>1. /\ Cardinality(todo[i]) \in Nat /\ Cardinality(todo[i]) >= 1
        /\ Cardinality(rest) = Cardinality(todo[i]) - 1
    BY <1>1, Sizes, CurrentIsLeft DEF TypeOK
  <2>2. /\ job'[i] = job[i] /\ todo'[i] = rest
        /\ main'[i] = IF rest = {} THEN AfterJob(job[i]) ELSE "lock"
    BY <1>1, <1>3 DEF TypeOK, Goto
  <2>3. AfterJobLeft(i)' = AfterJobLeft(i) /\ AfterJobLeft(i) \in Nat
    BY <1>1, <2>2 DEF AfterJobLeft, TypeOK
  <2>4. CASE rest = {}
    BY <1>1, <2>2, <2>3, <2>4 DEF MainLeft, AfterJob, AfterJobLeft, TypeOK
  <2>5. CASE rest # {}
    BY <1>1, <2>1, <2>2, <2>3, <2>5 DEF MainLeft
  <2> QED
    BY <2>4, <2>5
<1> QED
  BY <1>2, <1>3 DEF Advance

\* A step of the launcher shortens what its coordinator has left.
LEMMA LauncherShortens ==
    ASSUME LeaseInvariant, WaitsAreAnswered, NEW i \in Launches,
           LeaseStep(i) \/ CoordinatorStep(i) \/ LockFails(i) \/ VerifyFails(i)
             \/ GiveUp(i) \/ Kill(i)
    PROVE  MainLeft(i)' < MainLeft(i) /\ UNCHANGED broker
<1>1. /\ Objects \in Nat /\ TypeOK /\ Progress(i) /\ Answering(i)
      /\ MainLeft(i) \in Nat
      /\ main[i] \in {"lock", "write", "verify"} => MainLeft(i) > AfterJobLeft(i)
  BY MainCounts DEF LeaseInvariant, JobProgress, WaitsAreAnswered
<1>2. /\ Cardinality(todo[i]) \in Nat /\ Cardinality(ObjectIds) <= Objects
  BY <1>1, Sizes DEF TypeOK
<1> USE <1>1, <1>2 DEF TypeOK, brokerVars
<1>3. CASE TakeLock(i)
  BY <1>3 DEF TakeLock, MainLeft, AfterJobLeft, Goto
<1>4. CASE WriteDacl(i)
  BY <1>4 DEF WriteDacl, MainLeft, AfterJobLeft, Goto
<1>5. CASE WriteFails(i)
  BY <1>5, AdvanceIsShort DEF WriteFails
<1>6. CASE Verify(i)
  BY <1>6, AdvanceIsShort DEF Verify
<1>7. CASE BrokerConnects(i)
  BY <1>7 DEF BrokerConnects, MainLeft, AfterJobLeft, Goto
<1>8. CASE Cancelled(i)
  BY <1>8 DEF Cancelled, MainLeft, AfterJobLeft, Goto
<1>9. CASE ReadAcquire(i)
  <2>1. /\ main[i] = "serve" /\ main'[i] = "lock" /\ job'[i] = "acquire"
        /\ todo'[i] = ObjectIds
    BY <1>9 DEF ReadAcquire, Goto
  <2>2. MainLeft(i) = 9 * Objects + 5
    BY <2>1 DEF MainLeft
  <2>3. MainLeft(i)' = 6 * Objects + 4 + 3 * Cardinality(ObjectIds)
    BY <2>1 DEF MainLeft, AfterJobLeft
  <2>4. Cardinality(ObjectIds) \in Nat /\ Cardinality(ObjectIds) <= Objects
    BY Sizes
  <2>5. UNCHANGED broker
    BY <1>9 DEF ReadAcquire
  <2> QED
    BY <2>2, <2>3, <2>4, <2>5
<1>10. CASE Answer(i)
  <2>1. main[i] = "answer" /\ job[i] # "destroy" /\ UNCHANGED broker
    BY <1>10 DEF Answer, Answering
  <2>2. CASE job[i] = "acquire" /\ Goto(i, "hold")
    BY <2>1, <2>2 DEF MainLeft, AfterJobLeft, Goto
  <2>3. CASE BeginRelease(i, "destroy", leased[i])
    <3>1. MainLeft(i)' \in Int /\ MainLeft(i)' <= 3 * Objects + 1
      BY <2>3, RemovalIsShort
    <3>2. MainLeft(i) >= 3 * Objects + 2
      BY <2>1 DEF MainLeft, AfterJobLeft
    <3> QED
      BY <2>1, <3>1, <3>2
  <2> QED
    BY <1>10, <2>2, <2>3 DEF Answer
<1>11. CASE ReadRelease(i)
  <2>1. BeginRelease(i, "release", leased[i]) /\ UNCHANGED broker
    BY <1>11 DEF ReadRelease
  <2>2. MainLeft(i)' \in Int /\ MainLeft(i)' <= 6 * Objects + 2
    BY <2>1, RemovalIsShort
  <2>3. MainLeft(i) >= 6 * Objects + 3
    BY <1>11 DEF ReadRelease, MainLeft
  <2> QED
    BY <2>1, <2>2, <2>3
<1>12. CASE ReadFails(i)
  <2>1. BeginRelease(i, "destroy", leased[i]) /\ UNCHANGED broker
    BY <1>12 DEF ReadFails
  <2>2. MainLeft(i)' \in Int /\ MainLeft(i)' <= 3 * Objects + 1
    BY <2>1, RemovalIsShort
  <2>3. MainLeft(i) >= 6 * Objects + 3
    BY <1>12 DEF ReadFails, MainLeft
  <2> QED
    BY <2>1, <2>2, <2>3
<1>13. CASE Join(i)
  BY <1>13 DEF Join, MainLeft, AfterJobLeft, Goto
<1>14. CASE LockFails(i)
  BY <1>14, AdvanceIsShort DEF LockFails
<1>15. CASE VerifyFails(i)
  BY <1>15, AdvanceIsShort DEF VerifyFails
<1>16. CASE GiveUp(i)
  BY <1>16 DEF GiveUp, MainLeft, AfterJobLeft, Goto
<1>17. CASE Kill(i)
  <2>1. MainLeft(i)' = 0 /\ UNCHANGED broker
    BY <1>17 DEF Kill, MainLeft, Goto
  <2>2. MainLeft(i) # 0
    <3>1. CASE main[i] \in {"lock", "write", "verify"}
      BY <3>1 DEF AfterJobLeft
    <3>2. CASE main[i] \notin {"lock", "write", "verify"}
      BY <1>17, <3>2 DEF Kill, Alive, MainSteps, MainLeft, AfterJobLeft
    <3> QED
      BY <3>1, <3>2
  <2> QED
    BY <2>1, <2>2
<1> QED
  BY <1>3, <1>4, <1>5, <1>6, <1>7, <1>8, <1>9, <1>10, <1>11, <1>12, <1>13, <1>14, <1>15, <1>16,
     <1>17
     DEF LeaseStep, CoordinatorStep

\* A step of the worker shortens what it has left.
LEMMA WorkerShortens ==
    ASSUME LeaseInvariant, NEW i \in Launches, BrokerStep(i) \/ EndSession(i)
    PROVE  /\ BrokerLeft[broker[i]]' < BrokerLeft[broker[i]]
           /\ UNCHANGED <<main, job, todo>>
<1> USE DEF LeaseInvariant, TypeOK, BrokerSteps, BrokerLeft, coordinatorVars
<1>1. CASE TakeLaunchMutex(i)
  BY <1>1 DEF TakeLaunchMutex
<1>2. CASE LaunchFails(i)
  BY <1>2 DEF LaunchFails, LaunchReturnsError
<1>3. CASE AskForLease(i)
  BY <1>3 DEF AskForLease
<1>4. CASE LeaseGranted(i)
  BY <1>4 DEF LeaseGranted
<1>5. CASE LeaseRefused(i)
  BY <1>5 DEF LeaseRefused, LaunchReturnsError
<1>6. CASE StartProcess(i)
  BY <1>6 DEF StartProcess
<1>7. CASE ResumeFails(i)
  BY <1>7 DEF ResumeFails, LaunchReturnsError
<1>8. CASE ProcessFails(i)
  BY <1>8 DEF ProcessFails, LaunchReturnsError
<1>9. CASE ReleaseAnswered(i)
  BY <1>9 DEF ReleaseAnswered, LaunchReturnsError
<1>10. CASE EndSession(i)
  BY <1>10 DEF EndSession
<1> QED
  BY <1>1, <1>2, <1>3, <1>4, <1>5, <1>6, <1>7, <1>8, <1>9, <1>10 DEF BrokerStep

\* A launch's step changes nothing of another launch's places.
LEMMA OtherPlaces ==
    ASSUME LeaseInvariant, NEW i \in Launches, LaunchStep(i), NEW j \in Launches, j # i
    PROVE  /\ main'[j] = main[j] /\ job'[j] = job[j] /\ todo'[j] = todo[j]
           /\ broker'[j] = broker[j]
<1> USE DEF LeaseInvariant, TypeOK, Goto, BeginRelease, Advance, LaunchReturnsError,
     coordinatorVars, brokerVars
<1>1. CASE Launch(i)
  BY <1>1 DEF Launch
<1>2. CASE TakeLock(i)
  BY <1>2 DEF TakeLock
<1>3. CASE WriteDacl(i)
  BY <1>3 DEF WriteDacl
<1>4. CASE WriteFails(i)
  BY <1>4 DEF WriteFails
<1>5. CASE Verify(i)
  BY <1>5 DEF Verify
<1>6. CASE BrokerConnects(i)
  BY <1>6 DEF BrokerConnects
<1>7. CASE Cancelled(i)
  BY <1>7 DEF Cancelled
<1>8. CASE ReadAcquire(i)
  BY <1>8 DEF ReadAcquire
<1>9. CASE Answer(i)
  BY <1>9 DEF Answer
<1>10. CASE ReadRelease(i)
  BY <1>10 DEF ReadRelease
<1>11. CASE ReadFails(i)
  BY <1>11 DEF ReadFails
<1>12. CASE Join(i)
  BY <1>12 DEF Join
<1>13. CASE LockFails(i)
  BY <1>13 DEF LockFails
<1>14. CASE VerifyFails(i)
  BY <1>14 DEF VerifyFails
<1>15. CASE GiveUp(i)
  BY <1>15 DEF GiveUp
<1>16. CASE Kill(i)
  BY <1>16 DEF Kill
<1>17. CASE TakeLaunchMutex(i)
  BY <1>17 DEF TakeLaunchMutex
<1>18. CASE LaunchFails(i)
  BY <1>18 DEF LaunchFails
<1>19. CASE AskForLease(i)
  BY <1>19 DEF AskForLease
<1>20. CASE LeaseGranted(i)
  BY <1>20 DEF LeaseGranted
<1>21. CASE LeaseRefused(i)
  BY <1>21 DEF LeaseRefused
<1>22. CASE StartProcess(i)
  BY <1>22 DEF StartProcess
<1>23. CASE ResumeFails(i)
  BY <1>23 DEF ResumeFails
<1>24. CASE ProcessFails(i)
  BY <1>24 DEF ProcessFails
<1>25. CASE ReleaseAnswered(i)
  BY <1>25 DEF ReleaseAnswered
<1>26. CASE EndSession(i)
  BY <1>26 DEF EndSession
<1> QED
  BY <1>1, <1>2, <1>3, <1>4, <1>5, <1>6, <1>7, <1>8, <1>9, <1>10, <1>11, <1>12, <1>13, <1>14,
     <1>15, <1>16, <1>17, <1>18, <1>19, <1>20, <1>21, <1>22, <1>23, <1>24, <1>25, <1>26
     DEF LaunchStep, LeaseStep, CoordinatorStep, BrokerStep

\* What is left is a natural number on both sides, always.
StepsAreCounted ==
    /\ Objects \in Nat
    /\ \A i \in Launches : MainLeft(i) \in Nat /\ BrokerLeft[broker[i]] \in Nat

\* Each step of a launch shortens it and no other launch's step prolongs it.
LEMMA LaunchShortens ==
    ASSUME LeaseInvariant, WaitsAreAnswered, StepsAreCounted, StepsAreCounted',
           NEW i \in Launches, LaunchStep(i), NEW j \in Launches
    PROVE  IF j = i THEN StepsLeft(j)' < StepsLeft(j) ELSE StepsLeft(j)' = StepsLeft(j)
<1> DEFINE B == BrokerLeft[broker[i]]
<1>1. /\ Objects \in Nat
      /\ MainLeft(i) \in Nat /\ B \in Nat /\ MainLeft(i)' \in Nat /\ B' \in Nat
  BY DEF StepsAreCounted
<1>2. CASE j # i
  BY <1>2, OtherPlaces DEF StepsLeft, MainLeft, AfterJobLeft
<1>3. CASE Launch(i)
  <2>1. MainLeft(i) = 9 * Objects + 7 /\ MainLeft(i)' = 9 * Objects + 6
    BY <1>3 DEF Launch, Goto, MainLeft, LeaseInvariant, TypeOK
  <2>2. B' <= B
    BY <1>3 DEF Launch, BrokerLeft, LeaseInvariant, TypeOK, Exchange
  <2>3. StepsLeft(i) = MainLeft(i) + B /\ StepsLeft(i)' = MainLeft(i)' + B'
    BY DEF StepsLeft
  <2> HIDE DEF B
  <2> QED
    BY <1>1, <1>2, <2>1, <2>2, <2>3
<1>4. CASE LeaseStep(i) \/ CoordinatorStep(i) \/ LockFails(i) \/ VerifyFails(i)
             \/ GiveUp(i) \/ Kill(i)
  <2>1. MainLeft(i)' < MainLeft(i) /\ B' = B
    BY <1>4, LauncherShortens
  <2>2. StepsLeft(i) = MainLeft(i) + B /\ StepsLeft(i)' = MainLeft(i)' + B'
    BY DEF StepsLeft
  <2> HIDE DEF B
  <2> QED
    BY <1>1, <1>2, <2>1, <2>2
<1>5. CASE BrokerStep(i) \/ EndSession(i)
  <2>1. B' < B /\ UNCHANGED <<main, job, todo>>
    BY <1>5, WorkerShortens
  <2>2. MainLeft(i)' = MainLeft(i)
    BY <2>1 DEF MainLeft, AfterJobLeft
  <2>3. StepsLeft(i) = MainLeft(i) + B /\ StepsLeft(i)' = MainLeft(i)' + B'
    BY DEF StepsLeft
  <2> HIDE DEF B
  <2> QED
    BY <1>1, <1>2, <2>1, <2>2, <2>3
<1> QED
  BY <1>2, <1>3, <1>4, <1>5 DEF LaunchStep

\* A stop and a crash of the broker prolong no launch.
LEMMA EndsShorten ==
    ASSUME LeaseInvariant, StepsAreCounted, StepsAreCounted', NEW j \in Launches,
           StopService \/ Crash \/ UNCHANGED vars
    PROVE  StepsLeft(j)' <= StepsLeft(j)
<1>1. MainLeft(j)' = MainLeft(j)
  BY DEF StopService, Crash, vars, coordinatorVars, MainLeft, AfterJobLeft
<1>2. BrokerLeft[broker[j]]' <= BrokerLeft[broker[j]]
  <2>1. broker'[j] \in {broker[j], "failed"} /\ broker[j] \in BrokerSteps
    BY DEF StopService, Crash, vars, brokerVars, LeaseInvariant, TypeOK
  <2> QED
    BY <2>1 DEF BrokerSteps, BrokerLeft
<1> QED
  BY <1>1, <1>2 DEF StepsLeft, StepsAreCounted

\* A launch ends after a bounded number of its steps (RunBrokerInteractive, its coordinator,
\* LaunchBrokerInteractiveProcess, FinishSession), with any number of objects and launches.
THEOREM LaunchesEnd == Spec => LaunchesRunOut
<1> DEFINE Shortens(j) == /\ 0 <= StepsLeft(j)' /\ StepsLeft(j)' <= StepsLeft(j)
                          /\ LaunchStep(j) => StepsLeft(j)' < StepsLeft(j)
<1>1. LeaseInvariant => StepsAreCounted
  BY MainCounts, LeaseConstants DEF StepsAreCounted
<1>2. ASSUME LeaseInvariant, WaitsAreAnswered, StepsAreCounted, StepsAreCounted', Next
      PROVE  \A j \in Launches : Shortens(j)
  <2>1. SUFFICES ASSUME NEW j \in Launches PROVE Shortens(j)
    OBVIOUS
  <2>2. StepsLeft(j) \in Nat /\ StepsLeft(j)' \in Nat
    BY <1>2 DEF StepsAreCounted, StepsLeft
  <2>3. LaunchStep(j) => StepsLeft(j)' < StepsLeft(j)
    BY <1>2, LaunchShortens
  <2>4. StepsLeft(j)' <= StepsLeft(j)
    <3>1. CASE StopService \/ Crash
      BY <1>2, <3>1, EndsShorten
    <3>2. ASSUME NEW i \in Launches, LaunchStep(i) PROVE StepsLeft(j)' <= StepsLeft(j)
      BY <1>2, <2>2, <3>2, LaunchShortens
    <3> QED
      BY <1>2, <3>1, <3>2 DEF Next, LaunchStep
  <2> QED
    BY <2>2, <2>3, <2>4
<1>3. QED
  <2>1. LeaseInvariant /\ WaitsAreAnswered /\ StepsAreCounted /\ StepsAreCounted' /\ [Next]_vars
        => [\A i \in Launches : /\ 0 <= StepsLeft(i)' /\ StepsLeft(i)' <= StepsLeft(i)
                                /\ LaunchStep(i) => StepsLeft(i)' < StepsLeft(i)]_vars
    BY <1>2
  <2> QED
    BY <1>1, <2>1, InvariantHolds, WaitsHold, PTL DEF Spec, LaunchesRunOut
=============================================================================
