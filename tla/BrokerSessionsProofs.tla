------------------------ MODULE BrokerSessionsProofs ------------------------
(***************************************************************************)
(* Theorems about BrokerSessions, for every finite set of workers, every   *)
(* set of accounts and every pair of limits.                               *)
(*                                                                         *)
(* SessionInvariant is inductive.  Its parts are proved one lemma each: a  *)
(* lemma on what a step may do to the slots (SlotChanges) carries the      *)
(* counting part, the others go action by action.  The safety properties   *)
(* follow from the invariant, and with it every step maps to SessionSlots. *)
(***************************************************************************)
EXTENDS BrokerSessions, FiniteSetTheorems, TLAPS

\* A request names an account and says whether access is restricted.
LEMMA RequestFields ==
    ASSUME NEW r \in Requests
    PROVE  r.account \in Accounts /\ r.restrict \in BOOLEAN
BY DEF Requests

\* The admitted workers, what they were admitted for and the counters stay.
SlotsKept ==
    /\ \A w \in Workers : pc'[w] \in ReservedSteps <=> pc[w] \in ReservedSteps
    /\ \A w \in Admitted : request'[w] = request[w]
    /\ UNCHANGED <<count, entry, sessionCount>>

\* The worker's session is released and its thread ends.
Released(w) ==
    /\ pc[w] \in {"unreserve", "release"}
    /\ ReleaseSession(Account(w))
    /\ EndRequest(w)
    /\ UNCHANGED child

\* What a step may do to the admitted sessions.
SlotChange ==
    \/ SlotsKept
    \/ \E w \in Workers : Admit(w) \/ Released(w)
    \/ ServiceExits

\* What a step may do to the slots: nothing, admit one, release one, or (with every
\* worker idle) empty the map.
LEMMA SlotChanges ==
    ASSUME TypeOK, [Next]_vars
    PROVE  SlotChange
<1> USE DEF TypeOK, SlotChange, SlotsKept, Admitted, ReservedSteps, LaunchSteps,
     ServeSteps, Goto, EndRequest, Account, workerVars, sessionVars
<1>1. ASSUME NEW w \in Workers, Accept(w) PROVE SlotChange
  BY <1>1 DEF Accept
<1>1a. ASSUME NEW w \in Workers, NEW r \in Requests, ReadRequest(w, r) PROVE SlotChange
  BY <1>1a DEF ReadRequest
<1>1b. ASSUME NEW w \in Workers, RejectRequest(w) PROVE SlotChange
  BY <1>1b DEF RejectRequest
<1>2. ASSUME NEW w \in Workers, Admit(w) PROVE SlotChange
  BY <1>2 DEF Admit
<1>3. ASSUME NEW w \in Workers, Refuse(w) PROVE SlotChange
  BY <1>3 DEF Refuse
<1>4. ASSUME NEW w \in Workers, TakeLaunchMutex(w) PROVE SlotChange
  BY <1>4 DEF TakeLaunchMutex
<1>5. ASSUME NEW w \in Workers, ResetPassword(w) PROVE SlotChange
  BY <1>5 DEF ResetPassword
<1>6. ASSUME NEW w \in Workers, LogOn(w) PROVE SlotChange
  BY <1>6 DEF LogOn
<1>7. ASSUME NEW w \in Workers, AcquireLease(w) PROVE SlotChange
  BY <1>7 DEF AcquireLease
<1>8. ASSUME NEW w \in Workers, EnsureScope(w) PROVE SlotChange
  BY <1>8 DEF EnsureScope
<1>9. ASSUME NEW w \in Workers, Spawn(w) PROVE SlotChange
  BY <1>9 DEF Spawn
<1>10. ASSUME NEW w \in Workers, VerifyChild(w) PROVE SlotChange
  BY <1>10 DEF VerifyChild
<1>11. ASSUME NEW w \in Workers, Resume(w) PROVE SlotChange
  BY <1>11 DEF Resume
<1>12. ASSUME NEW w \in Workers, KillFailedLaunch(w) PROVE SlotChange
  BY <1>12 DEF KillFailedLaunch
<1>13. ASSUME NEW w \in Workers, FailedLaunchGone(w) PROVE SlotChange
  BY <1>13 DEF FailedLaunchGone
<1>14. ASSUME NEW w \in Workers, Unreserve(w) PROVE SlotChange
  BY <1>14 DEF Unreserve, Released
<1>15. ASSUME NEW w \in Workers, Reply(w) PROVE SlotChange
  BY <1>15 DEF Reply
<1>16. ASSUME NEW w \in Workers, StopServing(w) PROVE SlotChange
  BY <1>16 DEF StopServing
<1>17. ASSUME NEW w \in Workers, Teardown(w) PROVE SlotChange
  BY <1>17 DEF Teardown
<1>18. ASSUME NEW w \in Workers, TeardownUnconfirmed(w) PROVE SlotChange
  BY <1>18 DEF TeardownUnconfirmed
<1>19. ASSUME NEW w \in Workers, TreeConfirmedGone(w) PROVE SlotChange
  BY <1>19 DEF TreeConfirmedGone
<1>20. ASSUME NEW w \in Workers, ReleaseLease(w) PROVE SlotChange
  BY <1>20 DEF ReleaseLease
<1>21. ASSUME NEW w \in Workers, FinishSession(w) PROVE SlotChange
  BY <1>21 DEF FinishSession, Released
<1>22. ASSUME NEW w \in Workers, Manage(w) PROVE SlotChange
  BY <1>22 DEF Manage
<1>23. ASSUME NEW w \in Workers, CheckDelete(w) PROVE SlotChange
  BY <1>23 DEF CheckDelete
<1>24. ASSUME NEW w \in Workers, DeleteAccount(w) PROVE SlotChange
  BY <1>24 DEF DeleteAccount
<1>25. ASSUME NEW w \in Workers, TreeShrinks(w) PROVE SlotChange
  BY <1>25 DEF TreeShrinks
<1>26. ASSUME NEW w \in Workers, ClientDisconnects(w) PROVE SlotChange
  BY <1>26 DEF ClientDisconnects
<1>27. ASSUME StopService PROVE SlotChange
  BY <1>27 DEF StopService
<1>28. ASSUME ServiceExits PROVE SlotChange
  BY <1>28 DEF ServiceExits
<1>29. ASSUME DemandStart PROVE SlotChange
  BY <1>29 DEF DemandStart
<1>30. CASE UNCHANGED vars
  BY <1>30 DEF vars
<1>31. QED
  BY <1>1, <1>1a, <1>1b, <1>2, <1>3, <1>4, <1>5, <1>6, <1>7, <1>8, <1>9, <1>10, <1>11, <1>12,
     <1>13, <1>14, <1>15, <1>16, <1>17, <1>18, <1>19, <1>20, <1>21, <1>22, <1>23, <1>24, <1>25,
     <1>26, <1>27, <1>28, <1>29, <1>30
     DEF Next, WorkerStep

\* The sets of admitted workers are finite, and a busy worker has an account.
LEMMA SlotSets ==
    ASSUME TypeOK
    PROVE  /\ IsFiniteSet(Admitted)
           /\ \A a \in Accounts : IsFiniteSet(Holders(a))
           /\ \A w \in Workers : pc[w] \notin {"idle", "read"} => Account(w) \in Accounts
<1>1. IsFiniteSet(Admitted)
  BY SessionConstants, FS_Subset DEF Admitted
<1>2. \A a \in Accounts : IsFiniteSet(Holders(a))
  BY <1>1, FS_Subset DEF Holders
<1>3. \A w \in Workers : pc[w] \notin {"idle", "read"} => Account(w) \in Accounts
  BY RequestFields DEF TypeOK, Account
<1>4. QED
  BY <1>1, <1>2, <1>3

\* No counted session, no holder.
LEMMA NoHolders ==
    ASSUME TypeOK, CountersMatch, NEW a \in Accounts, count[a] = 0
    PROVE  Holders(a) = {}
BY SlotSets, FS_EmptySet DEF CountersMatch

\* An admitted worker is counted, and alone if the count is one.
LEMMA HolderIsCounted ==
    ASSUME TypeOK, CountersMatch, NEW w \in Admitted
    PROVE  /\ Account(w) \in Accounts
           /\ w \in Holders(Account(w))
           /\ sessionCount > 0
           /\ count[Account(w)] > 0
           /\ count[Account(w)] = 1 => \A v \in Holders(Account(w)) : v = w
<1>1. Account(w) \in Accounts
  BY SlotSets DEF Admitted, ReservedSteps, LaunchSteps, ServeSteps
<1>2. PICK a \in Accounts : a = Account(w)
  BY <1>1
<1>3. w \in Holders(a)
  BY <1>2 DEF Holders
<1>4. Cardinality(Admitted) # 0 /\ Cardinality(Holders(a)) # 0
  BY <1>3, SlotSets, FS_EmptySet
<1>5. Cardinality(Admitted) \in Nat /\ Cardinality(Holders(a)) \in Nat
  BY SlotSets, FS_CardinalityType
<1>6. count[a] = 1 => \A v \in Holders(a) : v = w
  <2>1. SUFFICES ASSUME count[a] = 1
                 PROVE  \A v \in Holders(a) : v = w
    OBVIOUS
  <2>2. PICK u : Holders(a) = {u}
    BY <2>1, SlotSets, FS_Singleton DEF CountersMatch
  <2>3. QED
    BY <1>3, <2>2
<1>7. QED
  BY <1>1, <1>2, <1>3, <1>4, <1>5, <1>6 DEF CountersMatch

\* Admission adds one worker to the sets that the counters count.
LEMMA AdmitCounts ==
    ASSUME TypeOK, CountersMatch, EntryMatchesSessions, NEW w \in Workers, Admit(w)
    PROVE  CountersMatch'
<1> USE DEF TypeOK
<1>1. PICK a \in Accounts : a = Account(w)
  BY SlotSets DEF Admit
<1>2. /\ pc[w] = "reserve"
      /\ pc' = [pc EXCEPT ![w] = "lock"]
      /\ request' = request
      /\ count' = [count EXCEPT ![a] = @ + 1]
      /\ sessionCount' = sessionCount + 1
      /\ MayReserve(a, request[w].restrict)
  BY <1>1 DEF Admit, Goto
<1>3. w \notin Admitted /\ Admitted' = Admitted \cup {w}
  BY <1>2 DEF Admitted, ReservedSteps, LaunchSteps, ServeSteps
<1>4. Cardinality(Admitted') = Cardinality(Admitted) + 1
  BY <1>3, SlotSets, FS_AddElement
<1>5. w \notin Holders(a) /\ Holders(a)' = Holders(a) \cup {w}
  BY <1>1, <1>2, <1>3 DEF Holders, Account
<1>6. \A b \in Accounts : b # a => Holders(b)' = Holders(b)
  BY <1>1, <1>2, <1>3 DEF Holders, Account
<1>7. Cardinality(Holders(a)') = Cardinality(Holders(a)) + 1
  <2>1. IsFiniteSet(Holders(a))
    BY SlotSets
  <2>2. Cardinality(Holders(a) \cup {w}) = Cardinality(Holders(a)) + 1
    BY <1>5, <2>1, FS_AddElement
  <2> QED
    BY <1>5, <2>2
<1>8. count[a] < MaxPerAccount /\ sessionCount < MaxSessions
  BY <1>2, SessionConstants DEF MayReserve, EntryMatchesSessions
<1>9. sessionCount' = Cardinality(Admitted') /\ sessionCount' <= MaxSessions
  BY <1>2, <1>4, <1>8, SessionConstants DEF CountersMatch
<1>10. count'[a] = Cardinality(Holders(a)') /\ count'[a] <= MaxPerAccount
  BY <1>2, <1>7, <1>8, SessionConstants DEF CountersMatch
<1>11. \A b \in Accounts : b # a => /\ count'[b] = Cardinality(Holders(b)')
                                    /\ count'[b] <= MaxPerAccount
  BY <1>2, <1>6 DEF CountersMatch
<1>12. QED
  BY <1>9, <1>10, <1>11 DEF CountersMatch

\* Release takes that worker out again.
LEMMA ReleaseCounts ==
    ASSUME TypeOK, CountersMatch, NEW w \in Workers, Released(w)
    PROVE  CountersMatch'
<1> USE DEF TypeOK
<1>0. w \in Admitted
  BY DEF Released, Admitted, ReservedSteps, LaunchSteps, ServeSteps
<1>1. PICK a \in Accounts : a = Account(w)
  BY <1>0, HolderIsCounted
<1>2. /\ pc' = [pc EXCEPT ![w] = "idle"]
      /\ request' = [request EXCEPT ![w] = NoRequest]
      /\ count' = [count EXCEPT ![a] = @ - 1]
      /\ sessionCount' = sessionCount - 1
  BY <1>0, <1>1, HolderIsCounted DEF Released, ReleaseSession, EndRequest, Goto
<1>3. Admitted' = Admitted \ {w}
  BY <1>2 DEF Admitted, ReservedSteps, LaunchSteps, ServeSteps
<1>4. Cardinality(Admitted') = Cardinality(Admitted) - 1
  BY <1>0, <1>3, SlotSets, FS_RemoveElement
<1>5. w \in Holders(a) /\ Holders(a)' = Holders(a) \ {w}
  BY <1>0, <1>1, <1>2, <1>3 DEF Holders, Account, Admitted
<1>6. \A b \in Accounts : b # a => Holders(b)' = Holders(b)
  BY <1>1, <1>2, <1>3 DEF Holders, Account, Admitted
<1>7. Cardinality(Holders(a)') = Cardinality(Holders(a)) - 1
  BY <1>5, SlotSets, FS_RemoveElement
<1>9. sessionCount' = Cardinality(Admitted') /\ sessionCount' <= MaxSessions
  BY <1>2, <1>4, SessionConstants DEF CountersMatch
<1>10. count'[a] = Cardinality(Holders(a)') /\ count'[a] <= MaxPerAccount
  BY <1>2, <1>7, SessionConstants DEF CountersMatch
<1>11. \A b \in Accounts : b # a => /\ count'[b] = Cardinality(Holders(b)')
                                    /\ count'[b] <= MaxPerAccount
  BY <1>2, <1>6 DEF CountersMatch
<1>12. QED
  BY <1>9, <1>10, <1>11 DEF CountersMatch

\* The counters stay the sizes of the sets they stand for, within the limits.
LEMMA CountersStep ==
    ASSUME TypeOK, CountersMatch, EntryMatchesSessions, [Next]_vars
    PROVE  CountersMatch'
<1>1. CASE SlotsKept
  <2>1. Admitted' = Admitted
    BY <1>1 DEF SlotsKept, Admitted
  <2>2. \A a \in Accounts : Holders(a)' = Holders(a)
    BY <1>1, <2>1 DEF SlotsKept, Holders, Account
  <2>3. QED
    BY <1>1, <2>1, <2>2 DEF SlotsKept, CountersMatch
<1>2. CASE ServiceExits
  <2>1. Admitted' = {}
    BY <1>2 DEF ServiceExits, Admitted, ReservedSteps, LaunchSteps, ServeSteps, workerVars
  <2>2. \A a \in Accounts : Holders(a)' = {}
    BY <2>1 DEF Holders
  <2>3. Cardinality(Admitted') = 0 /\ \A a \in Accounts : Cardinality(Holders(a)') = 0
    BY <2>1, <2>2, FS_EmptySet
  <2>4. sessionCount' = 0 /\ count' = [a \in Accounts |-> 0]
    BY <1>2 DEF ServiceExits
  <2>5. QED
    BY <2>3, <2>4, SessionConstants DEF CountersMatch
<1>3. QED
  BY <1>1, <1>2, SlotChanges, AdmitCounts, ReleaseCounts DEF SlotChange

\* An entry keeps the access mode of its sessions, and is absent only without any.
LEMMA EntryStep ==
    ASSUME TypeOK, CountersMatch, EntryMatchesSessions, [Next]_vars
    PROVE  EntryMatchesSessions'
<1> USE DEF TypeOK, EntryMatchesSessions, Admitted, ReservedSteps, LaunchSteps,
     ServeSteps, Account
<1>1. CASE SlotsKept
  BY <1>1 DEF SlotsKept
<1>2. ASSUME NEW w \in Workers, Admit(w) PROVE EntryMatchesSessions'
  <2>1. Account(w) \in Accounts /\ request[w].restrict \in BOOLEAN
    BY <1>2, RequestFields DEF Admit
  <2>2. \A v \in Admitted : Account(v) = Account(w) => request[v].restrict = request[w].restrict
    BY <1>2, <2>1, RequestFields DEF Admit, MayReserve
  <2>3. QED
    BY <1>2, <2>1, <2>2 DEF Admit, Goto
<1>3. ASSUME NEW w \in Workers, Released(w) PROVE EntryMatchesSessions'
  <2>1. w \in Admitted
    BY <1>3 DEF Released
  <2>2. PICK a \in Accounts : a = Account(w)
    BY <2>1, HolderIsCounted
  <2>3. count[a] > 0 /\ (count[a] = 1 => \A v \in Admitted : Account(v) = a => v = w)
    BY <2>1, <2>2, HolderIsCounted DEF Holders
  <2>4. CASE entry' = entry
    BY <1>3, <2>2, <2>3, <2>4 DEF Released, ReleaseSession, EndRequest, Goto
  <2>5. CASE count[a] = 1 /\ entry' = [entry EXCEPT ![a] = "absent"]
    BY <1>3, <2>2, <2>3, <2>5 DEF Released, ReleaseSession, EndRequest, Goto
  <2>6. QED
    BY <1>3, <2>2, <2>3, <2>4, <2>5 DEF Released, ReleaseSession
<1>4. CASE ServiceExits
  BY <1>4 DEF ServiceExits, workerVars
<1>5. QED
  BY <1>1, <1>2, <1>3, <1>4, SlotChanges DEF SlotChange

\* launchMutex_ belongs to the one worker that is between its lock and its unlock.
LEMMA MutexStep ==
    ASSUME TypeOK, MutexFollowsStep, [Next]_vars
    PROVE  MutexFollowsStep'
<1> USE SessionConstants DEF TypeOK, MutexFollowsStep, LaunchSteps, ConfigureSteps,
     Goto, EndRequest, workerVars
<1>1. ASSUME NEW w \in Workers, Accept(w) PROVE MutexFollowsStep'
  BY <1>1 DEF Accept
<1>1a. ASSUME NEW w \in Workers, NEW r \in Requests, ReadRequest(w, r) PROVE MutexFollowsStep'
  BY <1>1a DEF ReadRequest
<1>1b. ASSUME NEW w \in Workers, RejectRequest(w) PROVE MutexFollowsStep'
  BY <1>1b DEF RejectRequest
<1>2. ASSUME NEW w \in Workers, Admit(w) PROVE MutexFollowsStep'
  BY <1>2 DEF Admit
<1>3. ASSUME NEW w \in Workers, Refuse(w) PROVE MutexFollowsStep'
  BY <1>3 DEF Refuse
<1>4. ASSUME NEW w \in Workers, TakeLaunchMutex(w) PROVE MutexFollowsStep'
  BY <1>4 DEF TakeLaunchMutex
<1>5. ASSUME NEW w \in Workers, ResetPassword(w) PROVE MutexFollowsStep'
  BY <1>5 DEF ResetPassword
<1>6. ASSUME NEW w \in Workers, LogOn(w) PROVE MutexFollowsStep'
  BY <1>6 DEF LogOn
<1>7. ASSUME NEW w \in Workers, AcquireLease(w) PROVE MutexFollowsStep'
  BY <1>7 DEF AcquireLease
<1>8. ASSUME NEW w \in Workers, EnsureScope(w) PROVE MutexFollowsStep'
  BY <1>8 DEF EnsureScope
<1>9. ASSUME NEW w \in Workers, Spawn(w) PROVE MutexFollowsStep'
  BY <1>9 DEF Spawn
<1>10. ASSUME NEW w \in Workers, VerifyChild(w) PROVE MutexFollowsStep'
  BY <1>10 DEF VerifyChild
<1>11. ASSUME NEW w \in Workers, Resume(w) PROVE MutexFollowsStep'
  BY <1>11 DEF Resume
<1>12. ASSUME NEW w \in Workers, KillFailedLaunch(w) PROVE MutexFollowsStep'
  BY <1>12 DEF KillFailedLaunch
<1>13. ASSUME NEW w \in Workers, FailedLaunchGone(w) PROVE MutexFollowsStep'
  BY <1>13 DEF FailedLaunchGone
<1>14. ASSUME NEW w \in Workers, Unreserve(w) PROVE MutexFollowsStep'
  BY <1>14 DEF Unreserve
<1>15. ASSUME NEW w \in Workers, Reply(w) PROVE MutexFollowsStep'
  BY <1>15 DEF Reply
<1>16. ASSUME NEW w \in Workers, StopServing(w) PROVE MutexFollowsStep'
  BY <1>16 DEF StopServing
<1>17. ASSUME NEW w \in Workers, Teardown(w) PROVE MutexFollowsStep'
  BY <1>17 DEF Teardown
<1>18. ASSUME NEW w \in Workers, TeardownUnconfirmed(w) PROVE MutexFollowsStep'
  BY <1>18 DEF TeardownUnconfirmed
<1>19. ASSUME NEW w \in Workers, TreeConfirmedGone(w) PROVE MutexFollowsStep'
  BY <1>19 DEF TreeConfirmedGone
<1>20. ASSUME NEW w \in Workers, ReleaseLease(w) PROVE MutexFollowsStep'
  BY <1>20 DEF ReleaseLease
<1>21. ASSUME NEW w \in Workers, FinishSession(w) PROVE MutexFollowsStep'
  BY <1>21 DEF FinishSession
<1>22. ASSUME NEW w \in Workers, Manage(w) PROVE MutexFollowsStep'
  BY <1>22 DEF Manage
<1>23. ASSUME NEW w \in Workers, CheckDelete(w) PROVE MutexFollowsStep'
  BY <1>23 DEF CheckDelete
<1>24. ASSUME NEW w \in Workers, DeleteAccount(w) PROVE MutexFollowsStep'
  BY <1>24 DEF DeleteAccount
<1>25. ASSUME NEW w \in Workers, TreeShrinks(w) PROVE MutexFollowsStep'
  BY <1>25 DEF TreeShrinks
<1>26. ASSUME NEW w \in Workers, ClientDisconnects(w) PROVE MutexFollowsStep'
  BY <1>26 DEF ClientDisconnects
<1>27. ASSUME StopService PROVE MutexFollowsStep'
  BY <1>27 DEF StopService
<1>28. ASSUME ServiceExits PROVE MutexFollowsStep'
  BY <1>28 DEF ServiceExits
<1>29. ASSUME DemandStart PROVE MutexFollowsStep'
  BY <1>29 DEF DemandStart
<1>30. CASE UNCHANGED vars
  BY <1>30 DEF vars
<1>31. QED
  BY <1>1, <1>1a, <1>1b, <1>2, <1>3, <1>4, <1>5, <1>6, <1>7, <1>8, <1>9, <1>10, <1>11, <1>12,
     <1>13, <1>14, <1>15, <1>16, <1>17, <1>18, <1>19, <1>20, <1>21, <1>22, <1>23, <1>24, <1>25,
     <1>26, <1>27, <1>28, <1>29, <1>30
     DEF Next, WorkerStep

\* Which process tree a worker has follows from where it stands.
LEMMA TreeStep ==
    ASSUME TypeOK, TreeFollowsStep, [Next]_vars
    PROVE  TreeFollowsStep'
<1> USE DEF TypeOK, TreeFollowsStep, Goto, EndRequest, workerVars
<1>1. ASSUME NEW w \in Workers, Accept(w) PROVE TreeFollowsStep'
  BY <1>1 DEF Accept
<1>1a. ASSUME NEW w \in Workers, NEW r \in Requests, ReadRequest(w, r) PROVE TreeFollowsStep'
  BY <1>1a DEF ReadRequest
<1>1b. ASSUME NEW w \in Workers, RejectRequest(w) PROVE TreeFollowsStep'
  BY <1>1b DEF RejectRequest
<1>2. ASSUME NEW w \in Workers, Admit(w) PROVE TreeFollowsStep'
  BY <1>2 DEF Admit
<1>3. ASSUME NEW w \in Workers, Refuse(w) PROVE TreeFollowsStep'
  BY <1>3 DEF Refuse
<1>4. ASSUME NEW w \in Workers, TakeLaunchMutex(w) PROVE TreeFollowsStep'
  BY <1>4 DEF TakeLaunchMutex
<1>5. ASSUME NEW w \in Workers, ResetPassword(w) PROVE TreeFollowsStep'
  BY <1>5 DEF ResetPassword
<1>6. ASSUME NEW w \in Workers, LogOn(w) PROVE TreeFollowsStep'
  BY <1>6 DEF LogOn
<1>7. ASSUME NEW w \in Workers, AcquireLease(w) PROVE TreeFollowsStep'
  BY <1>7 DEF AcquireLease
<1>8. ASSUME NEW w \in Workers, EnsureScope(w) PROVE TreeFollowsStep'
  BY <1>8 DEF EnsureScope
<1>9. ASSUME NEW w \in Workers, Spawn(w) PROVE TreeFollowsStep'
  BY <1>9 DEF Spawn
<1>10. ASSUME NEW w \in Workers, VerifyChild(w) PROVE TreeFollowsStep'
  BY <1>10 DEF VerifyChild
<1>11. ASSUME NEW w \in Workers, Resume(w) PROVE TreeFollowsStep'
  BY <1>11 DEF Resume
<1>12. ASSUME NEW w \in Workers, KillFailedLaunch(w) PROVE TreeFollowsStep'
  BY <1>12 DEF KillFailedLaunch
<1>13. ASSUME NEW w \in Workers, FailedLaunchGone(w) PROVE TreeFollowsStep'
  BY <1>13 DEF FailedLaunchGone
<1>14. ASSUME NEW w \in Workers, Unreserve(w) PROVE TreeFollowsStep'
  BY <1>14 DEF Unreserve
<1>15. ASSUME NEW w \in Workers, Reply(w) PROVE TreeFollowsStep'
  BY <1>15 DEF Reply
<1>16. ASSUME NEW w \in Workers, StopServing(w) PROVE TreeFollowsStep'
  BY <1>16 DEF StopServing
<1>17. ASSUME NEW w \in Workers, Teardown(w) PROVE TreeFollowsStep'
  BY <1>17 DEF Teardown
<1>18. ASSUME NEW w \in Workers, TeardownUnconfirmed(w) PROVE TreeFollowsStep'
  BY <1>18 DEF TeardownUnconfirmed
<1>19. ASSUME NEW w \in Workers, TreeConfirmedGone(w) PROVE TreeFollowsStep'
  BY <1>19 DEF TreeConfirmedGone
<1>20. ASSUME NEW w \in Workers, ReleaseLease(w) PROVE TreeFollowsStep'
  BY <1>20 DEF ReleaseLease
<1>21. ASSUME NEW w \in Workers, FinishSession(w) PROVE TreeFollowsStep'
  BY <1>21 DEF FinishSession
<1>22. ASSUME NEW w \in Workers, Manage(w) PROVE TreeFollowsStep'
  BY <1>22 DEF Manage
<1>23. ASSUME NEW w \in Workers, CheckDelete(w) PROVE TreeFollowsStep'
  BY <1>23 DEF CheckDelete
<1>24. ASSUME NEW w \in Workers, DeleteAccount(w) PROVE TreeFollowsStep'
  BY <1>24 DEF DeleteAccount
<1>25. ASSUME NEW w \in Workers, TreeShrinks(w) PROVE TreeFollowsStep'
  BY <1>25 DEF TreeShrinks
<1>26. ASSUME NEW w \in Workers, ClientDisconnects(w) PROVE TreeFollowsStep'
  BY <1>26 DEF ClientDisconnects
<1>27. ASSUME StopService PROVE TreeFollowsStep'
  BY <1>27 DEF StopService
<1>28. ASSUME ServiceExits PROVE TreeFollowsStep'
  BY <1>28 DEF ServiceExits
<1>29. ASSUME DemandStart PROVE TreeFollowsStep'
  BY <1>29 DEF DemandStart
<1>30. CASE UNCHANGED vars
  BY <1>30 DEF vars
<1>31. QED
  BY <1>1, <1>1a, <1>1b, <1>2, <1>3, <1>4, <1>5, <1>6, <1>7, <1>8, <1>9, <1>10, <1>11, <1>12,
     <1>13, <1>14, <1>15, <1>16, <1>17, <1>18, <1>19, <1>20, <1>21, <1>22, <1>23, <1>24, <1>25,
     <1>26, <1>27, <1>28, <1>29, <1>30
     DEF Next, WorkerStep

\* An interactive worker keeps its lease from acquisition to the end of its tree.
LEMMA LeaseStep ==
    ASSUME TypeOK, LeaseFollowsStep, [Next]_vars
    PROVE  LeaseFollowsStep'
<1> USE DEF TypeOK, LeaseFollowsStep, LeaseSteps, Interactive, Goto, EndRequest, workerVars
<1>1. ASSUME NEW w \in Workers, Accept(w) PROVE LeaseFollowsStep'
  BY <1>1 DEF Accept
<1>1a. ASSUME NEW w \in Workers, NEW r \in Requests, ReadRequest(w, r) PROVE LeaseFollowsStep'
  BY <1>1a DEF ReadRequest
<1>1b. ASSUME NEW w \in Workers, RejectRequest(w) PROVE LeaseFollowsStep'
  BY <1>1b DEF RejectRequest
<1>2. ASSUME NEW w \in Workers, Admit(w) PROVE LeaseFollowsStep'
  BY <1>2 DEF Admit
<1>3. ASSUME NEW w \in Workers, Refuse(w) PROVE LeaseFollowsStep'
  BY <1>3 DEF Refuse
<1>4. ASSUME NEW w \in Workers, TakeLaunchMutex(w) PROVE LeaseFollowsStep'
  BY <1>4 DEF TakeLaunchMutex
<1>5. ASSUME NEW w \in Workers, ResetPassword(w) PROVE LeaseFollowsStep'
  BY <1>5 DEF ResetPassword
<1>6. ASSUME NEW w \in Workers, LogOn(w) PROVE LeaseFollowsStep'
  BY <1>6 DEF LogOn
<1>7. ASSUME NEW w \in Workers, AcquireLease(w) PROVE LeaseFollowsStep'
  BY <1>7 DEF AcquireLease
<1>8. ASSUME NEW w \in Workers, EnsureScope(w) PROVE LeaseFollowsStep'
  BY <1>8 DEF EnsureScope
<1>9. ASSUME NEW w \in Workers, Spawn(w) PROVE LeaseFollowsStep'
  BY <1>9 DEF Spawn
<1>10. ASSUME NEW w \in Workers, VerifyChild(w) PROVE LeaseFollowsStep'
  BY <1>10 DEF VerifyChild
<1>11. ASSUME NEW w \in Workers, Resume(w) PROVE LeaseFollowsStep'
  BY <1>11 DEF Resume
<1>12. ASSUME NEW w \in Workers, KillFailedLaunch(w) PROVE LeaseFollowsStep'
  BY <1>12 DEF KillFailedLaunch
<1>13. ASSUME NEW w \in Workers, FailedLaunchGone(w) PROVE LeaseFollowsStep'
  BY <1>13 DEF FailedLaunchGone
<1>14. ASSUME NEW w \in Workers, Unreserve(w) PROVE LeaseFollowsStep'
  BY <1>14 DEF Unreserve
<1>15. ASSUME NEW w \in Workers, Reply(w) PROVE LeaseFollowsStep'
  BY <1>15 DEF Reply
<1>16. ASSUME NEW w \in Workers, StopServing(w) PROVE LeaseFollowsStep'
  BY <1>16 DEF StopServing
<1>17. ASSUME NEW w \in Workers, Teardown(w) PROVE LeaseFollowsStep'
  BY <1>17 DEF Teardown
<1>18. ASSUME NEW w \in Workers, TeardownUnconfirmed(w) PROVE LeaseFollowsStep'
  BY <1>18 DEF TeardownUnconfirmed
<1>19. ASSUME NEW w \in Workers, TreeConfirmedGone(w) PROVE LeaseFollowsStep'
  BY <1>19 DEF TreeConfirmedGone
<1>20. ASSUME NEW w \in Workers, ReleaseLease(w) PROVE LeaseFollowsStep'
  BY <1>20 DEF ReleaseLease
<1>21. ASSUME NEW w \in Workers, FinishSession(w) PROVE LeaseFollowsStep'
  BY <1>21 DEF FinishSession
<1>22. ASSUME NEW w \in Workers, Manage(w) PROVE LeaseFollowsStep'
  BY <1>22 DEF Manage
<1>23. ASSUME NEW w \in Workers, CheckDelete(w) PROVE LeaseFollowsStep'
  BY <1>23 DEF CheckDelete
<1>24. ASSUME NEW w \in Workers, DeleteAccount(w) PROVE LeaseFollowsStep'
  BY <1>24 DEF DeleteAccount
<1>25. ASSUME NEW w \in Workers, TreeShrinks(w) PROVE LeaseFollowsStep'
  BY <1>25 DEF TreeShrinks
<1>26. ASSUME NEW w \in Workers, ClientDisconnects(w) PROVE LeaseFollowsStep'
  BY <1>26 DEF ClientDisconnects
<1>27. ASSUME StopService PROVE LeaseFollowsStep'
  BY <1>27 DEF StopService
<1>28. ASSUME ServiceExits PROVE LeaseFollowsStep'
  BY <1>28 DEF ServiceExits
<1>29. ASSUME DemandStart PROVE LeaseFollowsStep'
  BY <1>29 DEF DemandStart
<1>30. CASE UNCHANGED vars
  BY <1>30 DEF vars
<1>31. QED
  BY <1>1, <1>1a, <1>1b, <1>2, <1>3, <1>4, <1>5, <1>6, <1>7, <1>8, <1>9, <1>10, <1>11, <1>12,
     <1>13, <1>14, <1>15, <1>16, <1>17, <1>18, <1>19, <1>20, <1>21, <1>22, <1>23, <1>24, <1>25,
     <1>26, <1>27, <1>28, <1>29, <1>30
     DEF Next, WorkerStep

\* The reset password stays the worker's own until it has logged on.
LEMMA LogonStep ==
    ASSUME TypeOK, MutexFollowsStep, LogonUsesOwnPassword, [Next]_vars
    PROVE  LogonUsesOwnPassword'
<1> USE SessionConstants DEF TypeOK, MutexFollowsStep, LaunchSteps, ConfigureSteps,
     LogonUsesOwnPassword, Account, Goto, EndRequest, workerVars, sessionVars,
     registryVars
<1>1. ASSUME NEW w \in Workers, Accept(w)
      PROVE  LogonUsesOwnPassword'
  BY <1>1 DEF Accept
<1>1a. ASSUME NEW w \in Workers, NEW r \in Requests, ReadRequest(w, r)
      PROVE  LogonUsesOwnPassword'
  BY <1>1a DEF ReadRequest
<1>1b. ASSUME NEW w \in Workers, RejectRequest(w)
      PROVE  LogonUsesOwnPassword'
  BY <1>1b DEF RejectRequest
<1>2. ASSUME NEW w \in Workers, Admit(w) PROVE LogonUsesOwnPassword'
  BY <1>2 DEF Admit
<1>3. ASSUME NEW w \in Workers, Refuse(w) PROVE LogonUsesOwnPassword'
  BY <1>3 DEF Refuse
<1>4. ASSUME NEW w \in Workers, TakeLaunchMutex(w) PROVE LogonUsesOwnPassword'
  BY <1>4 DEF TakeLaunchMutex
<1>5. ASSUME NEW w \in Workers, ResetPassword(w) PROVE LogonUsesOwnPassword'
  BY <1>5 DEF ResetPassword
<1>6. ASSUME NEW w \in Workers, LogOn(w) PROVE LogonUsesOwnPassword'
  BY <1>6 DEF LogOn
<1>7. ASSUME NEW w \in Workers, AcquireLease(w) PROVE LogonUsesOwnPassword'
  BY <1>7 DEF AcquireLease
<1>8. ASSUME NEW w \in Workers, EnsureScope(w) PROVE LogonUsesOwnPassword'
  BY <1>8 DEF EnsureScope
<1>9. ASSUME NEW w \in Workers, Spawn(w) PROVE LogonUsesOwnPassword'
  BY <1>9 DEF Spawn
<1>10. ASSUME NEW w \in Workers, VerifyChild(w) PROVE LogonUsesOwnPassword'
  BY <1>10 DEF VerifyChild
<1>11. ASSUME NEW w \in Workers, Resume(w) PROVE LogonUsesOwnPassword'
  BY <1>11 DEF Resume
<1>12. ASSUME NEW w \in Workers, KillFailedLaunch(w) PROVE LogonUsesOwnPassword'
  BY <1>12 DEF KillFailedLaunch
<1>13. ASSUME NEW w \in Workers, FailedLaunchGone(w) PROVE LogonUsesOwnPassword'
  BY <1>13 DEF FailedLaunchGone
<1>14. ASSUME NEW w \in Workers, Unreserve(w) PROVE LogonUsesOwnPassword'
  BY <1>14 DEF Unreserve
<1>15. ASSUME NEW w \in Workers, Reply(w) PROVE LogonUsesOwnPassword'
  BY <1>15 DEF Reply
<1>16. ASSUME NEW w \in Workers, StopServing(w) PROVE LogonUsesOwnPassword'
  BY <1>16 DEF StopServing
<1>17. ASSUME NEW w \in Workers, Teardown(w) PROVE LogonUsesOwnPassword'
  BY <1>17 DEF Teardown
<1>18. ASSUME NEW w \in Workers, TeardownUnconfirmed(w) PROVE LogonUsesOwnPassword'
  BY <1>18 DEF TeardownUnconfirmed
<1>19. ASSUME NEW w \in Workers, TreeConfirmedGone(w) PROVE LogonUsesOwnPassword'
  BY <1>19 DEF TreeConfirmedGone
<1>20. ASSUME NEW w \in Workers, ReleaseLease(w) PROVE LogonUsesOwnPassword'
  BY <1>20 DEF ReleaseLease
<1>21. ASSUME NEW w \in Workers, FinishSession(w) PROVE LogonUsesOwnPassword'
  BY <1>21 DEF FinishSession
<1>22. ASSUME NEW w \in Workers, Manage(w) PROVE LogonUsesOwnPassword'
  BY <1>22 DEF Manage
<1>23. ASSUME NEW w \in Workers, CheckDelete(w) PROVE LogonUsesOwnPassword'
  BY <1>23 DEF CheckDelete
<1>24. ASSUME NEW w \in Workers, DeleteAccount(w) PROVE LogonUsesOwnPassword'
  BY <1>24 DEF DeleteAccount
<1>25. ASSUME NEW w \in Workers, TreeShrinks(w) PROVE LogonUsesOwnPassword'
  BY <1>25 DEF TreeShrinks
<1>26. ASSUME NEW w \in Workers, ClientDisconnects(w) PROVE LogonUsesOwnPassword'
  BY <1>26 DEF ClientDisconnects
<1>27. ASSUME StopService PROVE LogonUsesOwnPassword'
  BY <1>27 DEF StopService
<1>28. ASSUME ServiceExits PROVE LogonUsesOwnPassword'
  BY <1>28 DEF ServiceExits
<1>29. ASSUME DemandStart PROVE LogonUsesOwnPassword'
  BY <1>29 DEF DemandStart
<1>30. CASE UNCHANGED vars
  BY <1>30 DEF vars
<1>31. QED
  BY <1>1, <1>1a, <1>1b, <1>2, <1>3, <1>4, <1>5, <1>6, <1>7, <1>8, <1>9, <1>10, <1>11, <1>12,
     <1>13, <1>14, <1>15, <1>16, <1>17, <1>18, <1>19, <1>20, <1>21, <1>22, <1>23, <1>24, <1>25,
     <1>26, <1>27, <1>28, <1>29, <1>30
     DEF Next, WorkerStep

\* ReleaseSession keeps the shape of what it changes.
LEMMA ReleaseTypes ==
    ASSUME TypeOK, CountersMatch, NEW w \in Admitted, ReleaseSession(Account(w))
    PROVE  /\ count' \in [Accounts -> Nat]
           /\ sessionCount' \in Nat
           /\ entry' \in [Accounts -> {"absent", "plain", "scoped"}]
           /\ denials' \in [Accounts -> {"none", "partial", "full"}]
<1>1. PICK a \in Accounts : a = Account(w)
  BY HolderIsCounted
<1>2. count[a] > 0 /\ sessionCount > 0
  BY <1>1, HolderIsCounted
<1>3. QED
  BY <1>1, <1>2 DEF TypeOK, ReleaseSession, RestorationFails

\* Every variable keeps its shape.
LEMMA TypeStep ==
    ASSUME TypeOK, CountersMatch, [Next]_vars
    PROVE  TypeOK'
<1> USE SessionConstants DEF TypeOK, Steps, Records, ReservedSteps, LaunchSteps,
     ServeSteps, ConfigureSteps, Goto, EndRequest, Account, workerVars, sessionVars,
     registryVars
<1>1. ASSUME NEW w \in Workers, Accept(w) PROVE TypeOK'
  BY <1>1, RequestFields DEF Accept
<1>1a. ASSUME NEW w \in Workers, NEW r \in Requests, ReadRequest(w, r) PROVE TypeOK'
  BY <1>1a, RequestFields DEF ReadRequest
<1>1b. ASSUME NEW w \in Workers, RejectRequest(w) PROVE TypeOK'
  BY <1>1b, RequestFields DEF RejectRequest
<1>2. ASSUME NEW w \in Workers, Admit(w) PROVE TypeOK'
  BY <1>2, RequestFields DEF Admit, MayReserve
<1>3. ASSUME NEW w \in Workers, Refuse(w) PROVE TypeOK'
  BY <1>3, RequestFields DEF Refuse, MayReserve, RestorationFails
<1>4. ASSUME NEW w \in Workers, TakeLaunchMutex(w) PROVE TypeOK'
  BY <1>4 DEF TakeLaunchMutex
<1>5. ASSUME NEW w \in Workers, ResetPassword(w) PROVE TypeOK'
  BY <1>5 DEF ResetPassword
<1>6. ASSUME NEW w \in Workers, LogOn(w) PROVE TypeOK'
  BY <1>6 DEF LogOn
<1>7. ASSUME NEW w \in Workers, AcquireLease(w) PROVE TypeOK'
  <2>1. CASE lease' = [lease EXCEPT ![w] = TRUE] /\ Goto(w, "scope")
    BY <1>7, <2>1 DEF AcquireLease
  <2>2. CASE UNCHANGED lease /\ Goto(w, "unreserve")
    BY <1>7, <2>2 DEF AcquireLease
  <2> QED
    BY <1>7, <2>1, <2>2 DEF AcquireLease
<1>8. ASSUME NEW w \in Workers, EnsureScope(w) PROVE TypeOK'
  BY <1>8 DEF EnsureScope
<1>9. ASSUME NEW w \in Workers, Spawn(w) PROVE TypeOK'
  BY <1>9 DEF Spawn
<1>10. ASSUME NEW w \in Workers, VerifyChild(w) PROVE TypeOK'
  BY <1>10 DEF VerifyChild
<1>11. ASSUME NEW w \in Workers, Resume(w) PROVE TypeOK'
  BY <1>11 DEF Resume
<1>12. ASSUME NEW w \in Workers, KillFailedLaunch(w) PROVE TypeOK'
  BY <1>12 DEF KillFailedLaunch
<1>13. ASSUME NEW w \in Workers, FailedLaunchGone(w) PROVE TypeOK'
  BY <1>13 DEF FailedLaunchGone
<1>14. ASSUME NEW w \in Workers, Unreserve(w) PROVE TypeOK'
  <2>1. w \in Admitted
    BY <1>14 DEF Unreserve, Admitted
  <2>2. QED
    BY <2>1, <1>14, ReleaseTypes DEF Unreserve
<1>15. ASSUME NEW w \in Workers, Reply(w) PROVE TypeOK'
  BY <1>15 DEF Reply
<1>16. ASSUME NEW w \in Workers, StopServing(w) PROVE TypeOK'
  BY <1>16 DEF StopServing
<1>17. ASSUME NEW w \in Workers, Teardown(w) PROVE TypeOK'
  BY <1>17 DEF Teardown
<1>18. ASSUME NEW w \in Workers, TeardownUnconfirmed(w) PROVE TypeOK'
  BY <1>18 DEF TeardownUnconfirmed
<1>19. ASSUME NEW w \in Workers, TreeConfirmedGone(w) PROVE TypeOK'
  BY <1>19 DEF TreeConfirmedGone
<1>20. ASSUME NEW w \in Workers, ReleaseLease(w) PROVE TypeOK'
  BY <1>20 DEF ReleaseLease
<1>21. ASSUME NEW w \in Workers, FinishSession(w) PROVE TypeOK'
  <2>1. w \in Admitted
    BY <1>21 DEF FinishSession, Admitted
  <2>2. QED
    BY <2>1, <1>21, ReleaseTypes DEF FinishSession
<1>22. ASSUME NEW w \in Workers, Manage(w) PROVE TypeOK'
  BY <1>22, RequestFields DEF Manage, RegistryChange
<1>23. ASSUME NEW w \in Workers, CheckDelete(w) PROVE TypeOK'
  <2>1. CASE launchMutex' = Nobody /\ EndRequest(w)
    BY <1>23, <2>1 DEF CheckDelete
  <2>2. CASE Goto(w, "delete") /\ UNCHANGED <<request, client, launchMutex>>
    BY <1>23, <2>2 DEF CheckDelete
  <2> QED
    BY <1>23, <2>1, <2>2 DEF CheckDelete
<1>24. ASSUME NEW w \in Workers, DeleteAccount(w) PROVE TypeOK'
  <2>1. /\ pc' \in [Workers -> Steps]
        /\ request' \in [Workers -> Requests \cup {NoRequest}]
        /\ client' \in [Workers -> BOOLEAN]
    BY <1>24 DEF DeleteAccount
  <2>2. \A v \in Workers : pc'[v] \notin {"idle", "read"} => request'[v] \in Requests
    BY <1>24 DEF DeleteAccount
  <2>3. launchMutex' \in Workers \cup {Nobody} /\ osAccount' \in SUBSET Accounts
    BY <1>24 DEF DeleteAccount
  <2>4. record' \in [Accounts -> Records]
    BY <1>24, RequestFields DEF DeleteAccount
  <2>5. UNCHANGED <<child, lease, sessionVars, stray, password, service>>
    BY <1>24 DEF DeleteAccount
  <2> QED
    BY <2>1, <2>2, <2>3, <2>4, <2>5
<1>25. ASSUME NEW w \in Workers, TreeShrinks(w) PROVE TypeOK'
  BY <1>25 DEF TreeShrinks
<1>26. ASSUME NEW w \in Workers, ClientDisconnects(w) PROVE TypeOK'
  BY <1>26 DEF ClientDisconnects
<1>27. ASSUME StopService PROVE TypeOK'
  BY <1>27 DEF StopService
<1>28. ASSUME ServiceExits PROVE TypeOK'
  BY <1>28 DEF ServiceExits
<1>29. ASSUME DemandStart PROVE TypeOK'
  BY <1>29 DEF DemandStart
<1>30. CASE UNCHANGED vars
  BY <1>30 DEF vars
<1>31. QED
  BY <1>1, <1>1a, <1>1b, <1>2, <1>3, <1>4, <1>5, <1>6, <1>7, <1>8, <1>9, <1>10, <1>11, <1>12,
     <1>13, <1>14, <1>15, <1>16, <1>17, <1>18, <1>19, <1>20, <1>21, <1>22, <1>23, <1>24, <1>25,
     <1>26, <1>27, <1>28, <1>29, <1>30
     DEF Next, WorkerStep

\* ACEs in place keep the account's entry registered with its scope.
LEMMA ForgottenStep ==
    ASSUME TypeOK, CountersMatch, EntryMatchesSessions, NoForgottenDenials, [Next]_vars
    PROVE  NoForgottenDenials'
<1> USE DEF TypeOK, EntryMatchesSessions, NoForgottenDenials, Admitted, ReservedSteps,
     LaunchSteps, ServeSteps, Account, workerVars, sessionVars
<1>1. ASSUME NEW w \in Workers, Accept(w) PROVE NoForgottenDenials'
  BY <1>1 DEF Accept
<1>1a. ASSUME NEW w \in Workers, NEW r \in Requests, ReadRequest(w, r) PROVE NoForgottenDenials'
  BY <1>1a DEF ReadRequest
<1>1b. ASSUME NEW w \in Workers, RejectRequest(w) PROVE NoForgottenDenials'
  BY <1>1b DEF RejectRequest
<1>2. ASSUME NEW w \in Workers, Admit(w) PROVE NoForgottenDenials'
  BY <1>2, RequestFields DEF Admit, MayReserve
<1>3. ASSUME NEW w \in Workers, Refuse(w) PROVE NoForgottenDenials'
  BY <1>3 DEF Refuse, RestorationFails
<1>4. ASSUME NEW w \in Workers, TakeLaunchMutex(w) PROVE NoForgottenDenials'
  BY <1>4 DEF TakeLaunchMutex
<1>5. ASSUME NEW w \in Workers, ResetPassword(w) PROVE NoForgottenDenials'
  BY <1>5 DEF ResetPassword
<1>6. ASSUME NEW w \in Workers, LogOn(w) PROVE NoForgottenDenials'
  BY <1>6 DEF LogOn
<1>7. ASSUME NEW w \in Workers, AcquireLease(w) PROVE NoForgottenDenials'
  BY <1>7 DEF AcquireLease
<1>8. ASSUME NEW w \in Workers, EnsureScope(w) PROVE NoForgottenDenials'
  BY <1>8 DEF EnsureScope
<1>9. ASSUME NEW w \in Workers, Spawn(w) PROVE NoForgottenDenials'
  BY <1>9 DEF Spawn
<1>10. ASSUME NEW w \in Workers, VerifyChild(w) PROVE NoForgottenDenials'
  BY <1>10 DEF VerifyChild
<1>11. ASSUME NEW w \in Workers, Resume(w) PROVE NoForgottenDenials'
  BY <1>11 DEF Resume
<1>12. ASSUME NEW w \in Workers, KillFailedLaunch(w) PROVE NoForgottenDenials'
  BY <1>12 DEF KillFailedLaunch
<1>13. ASSUME NEW w \in Workers, FailedLaunchGone(w) PROVE NoForgottenDenials'
  BY <1>13 DEF FailedLaunchGone
<1>14. ASSUME NEW w \in Workers, Unreserve(w) PROVE NoForgottenDenials'
  <2>1. w \in Admitted
    BY <1>14 DEF Unreserve
  <2>2. count[Account(w)] > 0
    BY <2>1, HolderIsCounted
  <2>3. QED
    BY <2>1, <2>2, <1>14 DEF Unreserve, ReleaseSession, RestorationFails
<1>15. ASSUME NEW w \in Workers, Reply(w) PROVE NoForgottenDenials'
  BY <1>15 DEF Reply
<1>16. ASSUME NEW w \in Workers, StopServing(w) PROVE NoForgottenDenials'
  BY <1>16 DEF StopServing
<1>17. ASSUME NEW w \in Workers, Teardown(w) PROVE NoForgottenDenials'
  BY <1>17 DEF Teardown
<1>18. ASSUME NEW w \in Workers, TeardownUnconfirmed(w) PROVE NoForgottenDenials'
  BY <1>18 DEF TeardownUnconfirmed
<1>19. ASSUME NEW w \in Workers, TreeConfirmedGone(w) PROVE NoForgottenDenials'
  BY <1>19 DEF TreeConfirmedGone
<1>20. ASSUME NEW w \in Workers, ReleaseLease(w) PROVE NoForgottenDenials'
  BY <1>20 DEF ReleaseLease
<1>21. ASSUME NEW w \in Workers, FinishSession(w) PROVE NoForgottenDenials'
  <2>1. w \in Admitted
    BY <1>21 DEF FinishSession
  <2>2. count[Account(w)] > 0
    BY <2>1, HolderIsCounted
  <2>3. QED
    BY <2>1, <2>2, <1>21 DEF FinishSession, ReleaseSession, RestorationFails
<1>22. ASSUME NEW w \in Workers, Manage(w) PROVE NoForgottenDenials'
  BY <1>22 DEF Manage
<1>23. ASSUME NEW w \in Workers, CheckDelete(w) PROVE NoForgottenDenials'
  BY <1>23 DEF CheckDelete
<1>24. ASSUME NEW w \in Workers, DeleteAccount(w) PROVE NoForgottenDenials'
  BY <1>24 DEF DeleteAccount
<1>25. ASSUME NEW w \in Workers, TreeShrinks(w) PROVE NoForgottenDenials'
  BY <1>25 DEF TreeShrinks
<1>26. ASSUME NEW w \in Workers, ClientDisconnects(w) PROVE NoForgottenDenials'
  BY <1>26 DEF ClientDisconnects
<1>27. ASSUME StopService PROVE NoForgottenDenials'
  BY <1>27 DEF StopService
<1>28. ASSUME ServiceExits PROVE NoForgottenDenials'
  BY <1>28 DEF ServiceExits
<1>29. ASSUME DemandStart PROVE NoForgottenDenials'
  BY <1>29 DEF DemandStart
<1>30. CASE UNCHANGED vars
  BY <1>30 DEF vars
<1>31. QED
  BY <1>1, <1>1a, <1>1b, <1>2, <1>3, <1>4, <1>5, <1>6, <1>7, <1>8, <1>9, <1>10, <1>11, <1>12,
     <1>13, <1>14, <1>15, <1>16, <1>17, <1>18, <1>19, <1>20, <1>21, <1>22, <1>23, <1>24, <1>25,
     <1>26, <1>27, <1>28, <1>29, <1>30
     DEF Next, WorkerStep

\* An account that a launch has reached is not deleted under it.
LEMMA AccountStep ==
    ASSUME TypeOK, MutexFollowsStep, EntryMatchesSessions, AccountFollowsStep, [Next]_vars
    PROVE  AccountFollowsStep'
<1> USE SessionConstants DEF TypeOK, MutexFollowsStep, AccountFollowsStep, Holders,
     Admitted, ReservedSteps, LaunchSteps, ServeSteps, ConfigureSteps, Account, Goto,
     EndRequest, workerVars, sessionVars, registryVars
<1>1. ASSUME NEW w \in Workers, Accept(w) PROVE AccountFollowsStep'
  BY <1>1 DEF Accept
<1>1a. ASSUME NEW w \in Workers, NEW r \in Requests, ReadRequest(w, r) PROVE AccountFollowsStep'
  BY <1>1a DEF ReadRequest
<1>1b. ASSUME NEW w \in Workers, RejectRequest(w) PROVE AccountFollowsStep'
  BY <1>1b DEF RejectRequest
<1>2. ASSUME NEW w \in Workers, Admit(w) PROVE AccountFollowsStep'
  BY <1>2 DEF Admit
<1>3. ASSUME NEW w \in Workers, Refuse(w) PROVE AccountFollowsStep'
  BY <1>3 DEF Refuse
<1>4. ASSUME NEW w \in Workers, TakeLaunchMutex(w) PROVE AccountFollowsStep'
  BY <1>4 DEF TakeLaunchMutex
<1>5. ASSUME NEW w \in Workers, ResetPassword(w) PROVE AccountFollowsStep'
  BY <1>5 DEF ResetPassword
<1>6. ASSUME NEW w \in Workers, LogOn(w) PROVE AccountFollowsStep'
  BY <1>6 DEF LogOn
<1>7. ASSUME NEW w \in Workers, AcquireLease(w) PROVE AccountFollowsStep'
  BY <1>7 DEF AcquireLease
<1>8. ASSUME NEW w \in Workers, EnsureScope(w) PROVE AccountFollowsStep'
  BY <1>8 DEF EnsureScope
<1>9. ASSUME NEW w \in Workers, Spawn(w) PROVE AccountFollowsStep'
  BY <1>9 DEF Spawn
<1>10. ASSUME NEW w \in Workers, VerifyChild(w) PROVE AccountFollowsStep'
  BY <1>10 DEF VerifyChild
<1>11. ASSUME NEW w \in Workers, Resume(w) PROVE AccountFollowsStep'
  BY <1>11 DEF Resume
<1>12. ASSUME NEW w \in Workers, KillFailedLaunch(w) PROVE AccountFollowsStep'
  BY <1>12 DEF KillFailedLaunch
<1>13. ASSUME NEW w \in Workers, FailedLaunchGone(w) PROVE AccountFollowsStep'
  BY <1>13 DEF FailedLaunchGone
<1>14. ASSUME NEW w \in Workers, Unreserve(w) PROVE AccountFollowsStep'
  BY <1>14 DEF Unreserve
<1>15. ASSUME NEW w \in Workers, Reply(w) PROVE AccountFollowsStep'
  BY <1>15 DEF Reply
<1>16. ASSUME NEW w \in Workers, StopServing(w) PROVE AccountFollowsStep'
  BY <1>16 DEF StopServing
<1>17. ASSUME NEW w \in Workers, Teardown(w) PROVE AccountFollowsStep'
  BY <1>17 DEF Teardown
<1>18. ASSUME NEW w \in Workers, TeardownUnconfirmed(w) PROVE AccountFollowsStep'
  BY <1>18 DEF TeardownUnconfirmed
<1>19. ASSUME NEW w \in Workers, TreeConfirmedGone(w) PROVE AccountFollowsStep'
  BY <1>19 DEF TreeConfirmedGone
<1>20. ASSUME NEW w \in Workers, ReleaseLease(w) PROVE AccountFollowsStep'
  BY <1>20 DEF ReleaseLease
<1>21. ASSUME NEW w \in Workers, FinishSession(w) PROVE AccountFollowsStep'
  BY <1>21 DEF FinishSession
<1>22. ASSUME NEW w \in Workers, Manage(w) PROVE AccountFollowsStep'
  BY <1>22 DEF Manage, RegistryChange
<1>23. ASSUME NEW w \in Workers, CheckDelete(w) PROVE AccountFollowsStep'
  BY <1>23, RequestFields DEF CheckDelete, EntryMatchesSessions
<1>24. ASSUME NEW w \in Workers, DeleteAccount(w) PROVE AccountFollowsStep'
  BY <1>24 DEF DeleteAccount
<1>25. ASSUME NEW w \in Workers, TreeShrinks(w) PROVE AccountFollowsStep'
  BY <1>25 DEF TreeShrinks
<1>26. ASSUME NEW w \in Workers, ClientDisconnects(w) PROVE AccountFollowsStep'
  BY <1>26 DEF ClientDisconnects
<1>27. ASSUME StopService PROVE AccountFollowsStep'
  BY <1>27 DEF StopService
<1>28. ASSUME ServiceExits PROVE AccountFollowsStep'
  BY <1>28 DEF ServiceExits
<1>29. ASSUME DemandStart PROVE AccountFollowsStep'
  BY <1>29 DEF DemandStart
<1>30. CASE UNCHANGED vars
  BY <1>30 DEF vars
<1>31. QED
  BY <1>1, <1>1a, <1>1b, <1>2, <1>3, <1>4, <1>5, <1>6, <1>7, <1>8, <1>9, <1>10, <1>11, <1>12,
     <1>13, <1>14, <1>15, <1>16, <1>17, <1>18, <1>19, <1>20, <1>21, <1>22, <1>23, <1>24, <1>25,
     <1>26, <1>27, <1>28, <1>29, <1>30
     DEF Next, WorkerStep

\* A restricted session keeps its denials from the complete scope to the end of its
\* tree: only the last session's release, or an admission to an account without
\* sessions, takes them away.
LEMMA DenialsStep ==
    ASSUME TypeOK, CountersMatch, TreeFollowsStep, EntryMatchesSessions,
           DenialsFollowStep, [Next]_vars
    PROVE  DenialsFollowStep'
<1> USE DEF TypeOK, TreeFollowsStep, DenialsFollowStep, ReservedSteps, LaunchSteps,
     ServeSteps, ConfigureSteps, Account, Goto, EndRequest, workerVars, sessionVars,
     registryVars
<1>1. ASSUME NEW w \in Workers, Accept(w) PROVE DenialsFollowStep'
  BY <1>1 DEF Accept
<1>1a. ASSUME NEW w \in Workers, NEW r \in Requests, ReadRequest(w, r) PROVE DenialsFollowStep'
  BY <1>1a DEF ReadRequest
<1>1b. ASSUME NEW w \in Workers, RejectRequest(w) PROVE DenialsFollowStep'
  BY <1>1b DEF RejectRequest
<1>2. ASSUME NEW w \in Workers, Admit(w) PROVE DenialsFollowStep'
  <2>1. PICK a \in Accounts : a = Account(w)
    BY <1>2, RequestFields DEF Admit
  <2>2. CASE denials' = denials
    BY <1>2, <2>2 DEF Admit
  <2>3. CASE count[a] = 0
    <3>1. \A v \in Workers : pc[v] \in ReservedSteps => Account(v) # a
      BY <2>3, NoHolders DEF Holders, Admitted
    <3>2. \A b \in Accounts \ {a} : denials'[b] = denials[b]
      BY <2>1, <1>2 DEF Admit, RestorationFails
    <3>3. QED
      BY <1>2, <2>1, <3>1, <3>2, RequestFields DEF Admit
  <2>4. QED
    BY <1>2, <2>1, <2>2, <2>3 DEF Admit
<1>3. ASSUME NEW w \in Workers, Refuse(w) PROVE DenialsFollowStep'
  <2>1. PICK a \in Accounts : a = Account(w)
    BY <1>3, RequestFields DEF Refuse
  <2>2. CASE denials' = denials
    BY <1>3, <2>2 DEF Refuse
  <2>3. CASE count[a] = 0
    <3>1. \A v \in Workers : pc[v] \in ReservedSteps => Account(v) # a
      BY <2>3, NoHolders DEF Holders, Admitted
    <3>2. \A b \in Accounts \ {a} : denials'[b] = denials[b]
      BY <2>1, <1>3 DEF Refuse, RestorationFails
    <3>3. QED
      BY <1>3, <2>1, <3>1, <3>2, RequestFields DEF Refuse
  <2>4. QED
    BY <1>3, <2>1, <2>2, <2>3 DEF Refuse
<1>4. ASSUME NEW w \in Workers, TakeLaunchMutex(w) PROVE DenialsFollowStep'
  BY <1>4 DEF TakeLaunchMutex
<1>5. ASSUME NEW w \in Workers, ResetPassword(w) PROVE DenialsFollowStep'
  BY <1>5 DEF ResetPassword
<1>6. ASSUME NEW w \in Workers, LogOn(w) PROVE DenialsFollowStep'
  BY <1>6 DEF LogOn
<1>7. ASSUME NEW w \in Workers, AcquireLease(w) PROVE DenialsFollowStep'
  BY <1>7 DEF AcquireLease
<1>8. ASSUME NEW w \in Workers, EnsureScope(w) PROVE DenialsFollowStep'
  BY <1>8, RequestFields DEF EnsureScope
<1>9. ASSUME NEW w \in Workers, Spawn(w) PROVE DenialsFollowStep'
  BY <1>9 DEF Spawn
<1>10. ASSUME NEW w \in Workers, VerifyChild(w) PROVE DenialsFollowStep'
  BY <1>10 DEF VerifyChild
<1>11. ASSUME NEW w \in Workers, Resume(w) PROVE DenialsFollowStep'
  BY <1>11 DEF Resume
<1>12. ASSUME NEW w \in Workers, KillFailedLaunch(w) PROVE DenialsFollowStep'
  BY <1>12 DEF KillFailedLaunch
<1>13. ASSUME NEW w \in Workers, FailedLaunchGone(w) PROVE DenialsFollowStep'
  BY <1>13 DEF FailedLaunchGone
<1>14. ASSUME NEW w \in Workers, Unreserve(w) PROVE DenialsFollowStep'
  <2>1. w \in Admitted
    BY <1>14 DEF Unreserve, Admitted
  <2>2. PICK a \in Accounts : a = Account(w)
    BY <2>1, HolderIsCounted
  <2>3. CASE denials' = denials
    BY <1>14, <2>3 DEF Unreserve
  <2>4. CASE count[a] = 1
    <3>1. \A v \in Workers : pc[v] \in ReservedSteps /\ v # w => Account(v) # a
      BY <2>1, <2>2, <2>4, HolderIsCounted DEF Holders, Admitted
    <3>2. \A b \in Accounts \ {a} : denials'[b] = denials[b]
      BY <2>2, <1>14 DEF Unreserve, ReleaseSession, RestorationFails
    <3>3. QED
      BY <1>14, <2>2, <3>1, <3>2, RequestFields DEF Unreserve
  <2>5. QED
    BY <1>14, <2>2, <2>3, <2>4 DEF Unreserve, ReleaseSession
<1>15. ASSUME NEW w \in Workers, Reply(w) PROVE DenialsFollowStep'
  BY <1>15 DEF Reply
<1>16. ASSUME NEW w \in Workers, StopServing(w) PROVE DenialsFollowStep'
  BY <1>16 DEF StopServing
<1>17. ASSUME NEW w \in Workers, Teardown(w) PROVE DenialsFollowStep'
  BY <1>17 DEF Teardown
<1>18. ASSUME NEW w \in Workers, TeardownUnconfirmed(w) PROVE DenialsFollowStep'
  BY <1>18 DEF TeardownUnconfirmed
<1>19. ASSUME NEW w \in Workers, TreeConfirmedGone(w) PROVE DenialsFollowStep'
  BY <1>19 DEF TreeConfirmedGone
<1>20. ASSUME NEW w \in Workers, ReleaseLease(w) PROVE DenialsFollowStep'
  BY <1>20 DEF ReleaseLease
<1>21. ASSUME NEW w \in Workers, FinishSession(w) PROVE DenialsFollowStep'
  <2>1. w \in Admitted
    BY <1>21 DEF FinishSession, Admitted
  <2>2. PICK a \in Accounts : a = Account(w)
    BY <2>1, HolderIsCounted
  <2>3. CASE denials' = denials
    BY <1>21, <2>3 DEF FinishSession
  <2>4. CASE count[a] = 1
    <3>1. \A v \in Workers : pc[v] \in ReservedSteps /\ v # w => Account(v) # a
      BY <2>1, <2>2, <2>4, HolderIsCounted DEF Holders, Admitted
    <3>2. \A b \in Accounts \ {a} : denials'[b] = denials[b]
      BY <2>2, <1>21 DEF FinishSession, ReleaseSession, RestorationFails
    <3>3. QED
      BY <1>21, <2>2, <3>1, <3>2, RequestFields DEF FinishSession
  <2>5. QED
    BY <1>21, <2>2, <2>3, <2>4 DEF FinishSession, ReleaseSession
<1>22. ASSUME NEW w \in Workers, Manage(w) PROVE DenialsFollowStep'
  BY <1>22 DEF Manage
<1>23. ASSUME NEW w \in Workers, CheckDelete(w) PROVE DenialsFollowStep'
  BY <1>23 DEF CheckDelete
<1>24. ASSUME NEW w \in Workers, DeleteAccount(w) PROVE DenialsFollowStep'
  BY <1>24 DEF DeleteAccount
<1>25. ASSUME NEW w \in Workers, TreeShrinks(w) PROVE DenialsFollowStep'
  BY <1>25 DEF TreeShrinks
<1>26. ASSUME NEW w \in Workers, ClientDisconnects(w) PROVE DenialsFollowStep'
  BY <1>26 DEF ClientDisconnects
<1>27. ASSUME StopService PROVE DenialsFollowStep'
  BY <1>27 DEF StopService
<1>28. ASSUME ServiceExits PROVE DenialsFollowStep'
  BY <1>28 DEF ServiceExits
<1>29. ASSUME DemandStart PROVE DenialsFollowStep'
  BY <1>29 DEF DemandStart
<1>30. CASE UNCHANGED vars
  BY <1>30 DEF vars
<1>31. QED
  BY <1>1, <1>1a, <1>1b, <1>2, <1>3, <1>4, <1>5, <1>6, <1>7, <1>8, <1>9, <1>10, <1>11, <1>12,
     <1>13, <1>14, <1>15, <1>16, <1>17, <1>18, <1>19, <1>20, <1>21, <1>22, <1>23, <1>24, <1>25,
     <1>26, <1>27, <1>28, <1>29, <1>30
     DEF Next, WorkerStep

\* Every step preserves the invariant.
LEMMA InvariantStep ==
    ASSUME SessionInvariant, [Next]_vars
    PROVE  SessionInvariant'
BY TypeStep, CountersStep, EntryStep, ForgottenStep, TreeStep, LeaseStep, MutexStep, DenialsStep,
   AccountStep, LogonStep
   DEF SessionInvariant

\* The invariant holds initially.
LEMMA InvariantInit ==
    ASSUME Init
    PROVE  SessionInvariant
<1>1. Admitted = {} /\ \A a \in Accounts : Holders(a) = {}
  BY DEF Init, Admitted, Holders, ReservedSteps, LaunchSteps, ServeSteps
<1>2. Cardinality(Admitted) = 0 /\ \A a \in Accounts : Cardinality(Holders(a)) = 0
  BY <1>1, FS_EmptySet
<1>3. CountersMatch
  BY <1>2, SessionConstants DEF Init, CountersMatch
<1>4. TypeOK
  BY DEF Init, TypeOK, Steps
<1>5. QED
  BY <1>1, <1>3, <1>4, SessionConstants
     DEF Init, SessionInvariant, EntryMatchesSessions, NoForgottenDenials, TreeFollowsStep,
         LeaseFollowsStep, LeaseSteps, MutexFollowsStep, DenialsFollowStep, AccountFollowsStep,
         LogonUsesOwnPassword, ReservedSteps, LaunchSteps, ServeSteps, ConfigureSteps

\* SessionInvariant, the inductive invariant of the broker's session core.
THEOREM InvariantHolds == Spec => []SessionInvariant
<1>1. Init => SessionInvariant
  BY InvariantInit
<1>2. SessionInvariant /\ [Next]_vars => SessionInvariant'
  BY InvariantStep
<1>3. QED
  BY <1>1, <1>2, PTL DEF Spec

\* The safety properties follow from the invariant in every state.
LEMMA InvariantImplies ==
    ASSUME SessionInvariant
    PROVE  /\ SessionLimits
           /\ ConfinementMatchesRequest
           /\ SlotAndLeaseOutliveTree
           /\ AccountOutlivesTree
<1>1. SessionLimits
  BY DEF SessionInvariant, CountersMatch, SessionLimits
<1> DEFINE TreeSteps == {"verify", "resume", "failLaunch", "failResume", "reply", "serve",
                         "teardown", "wait", "confirm"}
<1>2. \A w \in Workers : TreeAlive(w) => pc[w] \in TreeSteps /\ child[w] # "none"
  BY DEF SessionInvariant, TreeFollowsStep, TreeAlive
<1>3. ConfinementMatchesRequest
  <2>1. SUFFICES ASSUME NEW w \in Workers, TreeAlive(w)
                 PROVE  denials[Account(w)] = IF request[w].restrict THEN "full" ELSE "none"
    BY DEF ConfinementMatchesRequest
  <2>2. w \in Admitted /\ Account(w) \in Accounts
    BY <1>2, <2>1, HolderIsCounted
       DEF SessionInvariant, Admitted, ReservedSteps, LaunchSteps, ServeSteps
  <2>3. CASE request[w].restrict
    BY <1>2, <2>1, <2>3 DEF SessionInvariant, DenialsFollowStep
  <2>4. CASE ~request[w].restrict
    BY <2>2, <2>4 DEF SessionInvariant, EntryMatchesSessions, NoForgottenDenials
  <2>5. QED
    BY <2>3, <2>4
<1>4. SlotAndLeaseOutliveTree
  BY <1>2
     DEF SessionInvariant, LeaseFollowsStep, LeaseSteps, SlotAndLeaseOutliveTree, ReservedSteps,
         LaunchSteps, ServeSteps
<1>5. AccountOutlivesTree
  BY <1>2
     DEF SessionInvariant, AccountFollowsStep, AccountOutlivesTree, ReservedSteps, LaunchSteps,
         ServeSteps
<1>6. QED
  BY <1>1, <1>3, <1>4, <1>5

\* Every variable of the broker keeps its type, whatever the number of workers, accounts
\* and slots.
THEOREM TypeCorrect == Spec => []TypeOK
<1>1. SessionInvariant => TypeOK
  BY DEF SessionInvariant
<1>2. QED
  BY <1>1, InvariantHolds, PTL

\* The sessions really admitted never exceed TryReserveSession's two limits.
THEOREM LimitsHold == Spec => []SessionLimits
<1>1. SessionInvariant => SessionLimits
  BY InvariantImplies
<1>2. QED
  BY <1>1, InvariantHolds, PTL

\* Restricted programs run only under complete denials, unrestricted ones only under none.
THEOREM ConfinementHolds == Spec => []ConfinementMatchesRequest
<1>1. SessionInvariant => ConfinementMatchesRequest
  BY InvariantImplies
<1>2. QED
  BY <1>1, InvariantHolds, PTL

\* While the service runs, ACEs in place belong to a scope the account's entry holds.
THEOREM DenialsStayRegistered == Spec => []NoForgottenDenials
<1>1. SessionInvariant => NoForgottenDenials
  BY DEF SessionInvariant
<1>2. QED
  BY <1>1, InvariantHolds, PTL

\* No process tree outlives its session slot or its desktop lease.
THEOREM SlotAndLeaseHold == Spec => []SlotAndLeaseOutliveTree
<1>1. SessionInvariant => SlotAndLeaseOutliveTree
  BY InvariantImplies
<1>2. QED
  BY <1>1, InvariantHolds, PTL

\* No account is deleted under a live process tree.
THEOREM AccountHolds == Spec => []AccountOutlivesTree
<1>1. SessionInvariant => AccountOutlivesTree
  BY InvariantImplies
<1>2. QED
  BY <1>1, InvariantHolds, PTL

\* A launch logs on with the password it has itself just set.
THEOREM LogonHolds == Spec => []LogonUsesOwnPassword
<1>1. SessionInvariant => LogonUsesOwnPassword
  BY DEF SessionInvariant
<1>2. QED
  BY <1>1, InvariantHolds, PTL

-----------------------------------------------------------------------------
(* The broker implements SessionSlots.                                      *)

\* A step of SessionSlots, or one that changes nothing it sees.
SlotStep == [Discipline!SlotNext]_(Discipline!slotVars)

\* SessionSlots counts as this module does.
LEMMA SameCardinality == \A S : Discipline!Cardinality(S) = Cardinality(S)
BY DEF Discipline!Cardinality, Cardinality

\* The abstract slots are the admitted workers.
LEMMA SlotMapping ==
    ASSUME TypeOK
    PROVE  /\ Discipline!Taken = Admitted
           /\ \A a \in Accounts : Discipline!TakenFor(a) = Holders(a)
           /\ \A w \in Workers : SlotOf[w] = Discipline!Free <=> w \notin Admitted
           /\ \A w \in Admitted : /\ SlotOf[w].account = Account(w)
                                   /\ SlotOf[w].restrict = request[w].restrict
<1>1. \A w \in Workers : SlotOf[w] = Discipline!Free <=> w \notin Admitted
  BY DEF SlotOf, Discipline!Free, Admitted
<1>2. \A w \in Admitted : /\ SlotOf[w].account = Account(w)
                          /\ SlotOf[w].restrict = request[w].restrict
  BY DEF SlotOf, Admitted
<1>3. Discipline!Taken = Admitted
  BY <1>1 DEF Discipline!Taken, Admitted
<1>4. \A a \in Accounts : Discipline!TakenFor(a) = Holders(a)
  BY <1>2, <1>3 DEF Discipline!TakenFor, Holders
<1>5. QED
  BY <1>1, <1>2, <1>3, <1>4

\* A step that keeps the slots keeps their abstraction.
LEMMA QuietSlots ==
    ASSUME SlotsKept
    PROVE  UNCHANGED SlotOf
BY DEF SlotsKept, SlotOf, Admitted, Account

\* TryReserveSession, succeeding, is the abstract admission.
LEMMA AdmitSlotStep ==
    ASSUME SessionInvariant, NEW w \in Workers, Admit(w)
    PROVE  Discipline!SlotNext
<1> USE DEF SessionInvariant
<1>1. PICK a \in Accounts : a = Account(w)
  BY SlotSets DEF Admit
<1> DEFINE s == [account |-> a, restrict |-> request[w].restrict]
<1>2. s \in Discipline!Grants
  BY <1>1, RequestFields DEF Admit, TypeOK, Discipline!Grants
<1>3. w \notin Admitted
  BY DEF Admit, Admitted, ReservedSteps, LaunchSteps, ServeSteps
<1>4. Discipline!AdmitSlot(w, s)
  <2>1. SlotOf[w] = Discipline!Free
    BY <1>3, SlotMapping
  <2>2. MayReserve(a, request[w].restrict)
    BY <1>1 DEF Admit
  <2>3. Cardinality(Discipline!Taken) < MaxSessions
    BY <2>2, SlotMapping DEF CountersMatch, MayReserve
  <2>4. Cardinality(Discipline!TakenFor(a)) < MaxPerAccount
    BY <2>2, SlotMapping, SessionConstants DEF CountersMatch, EntryMatchesSessions, MayReserve
  <2>5. ASSUME NEW v \in Holders(a)
        PROVE  SlotOf[v].restrict = request[w].restrict
    <3>1. request[v].restrict \in BOOLEAN /\ request[w].restrict \in BOOLEAN
      BY RequestFields
         DEF TypeOK, Holders, Admitted, ReservedSteps, LaunchSteps, ServeSteps, Admit
    <3>2. request[v].restrict = request[w].restrict
      BY <2>2, <3>1 DEF MayReserve, EntryMatchesSessions, Holders
    <3>3. QED
      BY <3>2, SlotMapping DEF Holders
  <2>6. SlotOf' = [SlotOf EXCEPT ![w] = s]
    BY <1>1 DEF Admit, Goto, TypeOK, SlotOf, ReservedSteps, Account
  <2>7. LiveTrees' = LiveTrees
    BY DEF Admit, LiveTrees, TreeAlive
  <2>8. s.account = a /\ s.restrict = request[w].restrict
    OBVIOUS
  <2> HIDE DEF s
  <2>9. \A v \in Discipline!TakenFor(s.account) : SlotOf[v].restrict = s.restrict
    BY <2>5, <2>8, SlotMapping
  <2>10. Cardinality(Discipline!TakenFor(s.account)) < MaxPerAccount
    BY <2>4, <2>8
  <2>11. QED
    BY <2>1, <2>3, <2>6, <2>7, <2>9, <2>10, SameCardinality DEF Discipline!AdmitSlot
<1>5. QED
  BY <1>2, <1>4 DEF Discipline!SlotNext

\* ReleaseSession is the abstract release: the worker's tree is gone by then.
LEMMA ReleaseSlotStep ==
    ASSUME SessionInvariant, NEW w \in Workers, Released(w)
    PROVE  Discipline!SlotNext
<1>1. w \notin LiveTrees
  BY DEF SessionInvariant, TreeFollowsStep, Released, LiveTrees, TreeAlive
<1>2. SlotOf' = [SlotOf EXCEPT ![w] = Discipline!Free]
  BY
     DEF SessionInvariant, TypeOK, Released, EndRequest, Goto, SlotOf, Discipline!Free,
         ReservedSteps, LaunchSteps, ServeSteps, Account
<1>3. LiveTrees' = LiveTrees
  BY DEF Released, LiveTrees, TreeAlive
<1>4. QED
  BY <1>1, <1>2, <1>3 DEF Discipline!SlotNext, Discipline!ReleaseSlot

\* What a step may do to the live trees.
TreeChange ==
    \/ UNCHANGED LiveTrees
    \/ \E w \in Admitted : LiveTrees' = LiveTrees \cup {w}
    \/ \E w \in Workers : LiveTrees' = LiveTrees \ {w}

\* A step changes at most one worker's tree, and starts one only in a slot.
LEMMA TreeChanges ==
    ASSUME TypeOK, TreeFollowsStep, [Next]_vars
    PROVE  TreeChange
<1> USE DEF TypeOK, TreeFollowsStep, TreeChange, LiveTrees, TreeAlive, Admitted,
     ReservedSteps, LaunchSteps, ServeSteps
<1>1. ASSUME NEW w \in Workers, Accept(w) PROVE TreeChange
  BY <1>1 DEF Accept
<1>1a. ASSUME NEW w \in Workers, NEW r \in Requests, ReadRequest(w, r) PROVE TreeChange
  BY <1>1a DEF ReadRequest
<1>1b. ASSUME NEW w \in Workers, RejectRequest(w) PROVE TreeChange
  BY <1>1b DEF RejectRequest
<1>2. ASSUME NEW w \in Workers, Admit(w) PROVE TreeChange
  BY <1>2 DEF Admit
<1>3. ASSUME NEW w \in Workers, Refuse(w) PROVE TreeChange
  BY <1>3 DEF Refuse
<1>4. ASSUME NEW w \in Workers, TakeLaunchMutex(w) PROVE TreeChange
  BY <1>4 DEF TakeLaunchMutex
<1>5. ASSUME NEW w \in Workers, ResetPassword(w) PROVE TreeChange
  BY <1>5 DEF ResetPassword
<1>6. ASSUME NEW w \in Workers, LogOn(w) PROVE TreeChange
  BY <1>6 DEF LogOn
<1>7. ASSUME NEW w \in Workers, AcquireLease(w) PROVE TreeChange
  BY <1>7 DEF AcquireLease
<1>8. ASSUME NEW w \in Workers, EnsureScope(w) PROVE TreeChange
  BY <1>8 DEF EnsureScope
<1>9. ASSUME NEW w \in Workers, Spawn(w) PROVE TreeChange
  BY <1>9 DEF Spawn
<1>10. ASSUME NEW w \in Workers, VerifyChild(w) PROVE TreeChange
  BY <1>10 DEF VerifyChild
<1>11. ASSUME NEW w \in Workers, Resume(w) PROVE TreeChange
  BY <1>11 DEF Resume
<1>12. ASSUME NEW w \in Workers, KillFailedLaunch(w) PROVE TreeChange
  BY <1>12 DEF KillFailedLaunch
<1>13. ASSUME NEW w \in Workers, FailedLaunchGone(w) PROVE TreeChange
  BY <1>13 DEF FailedLaunchGone
<1>14. ASSUME NEW w \in Workers, Unreserve(w) PROVE TreeChange
  BY <1>14 DEF Unreserve
<1>15. ASSUME NEW w \in Workers, Reply(w) PROVE TreeChange
  BY <1>15 DEF Reply
<1>16. ASSUME NEW w \in Workers, StopServing(w) PROVE TreeChange
  BY <1>16 DEF StopServing
<1>17. ASSUME NEW w \in Workers, Teardown(w) PROVE TreeChange
  BY <1>17 DEF Teardown
<1>18. ASSUME NEW w \in Workers, TeardownUnconfirmed(w) PROVE TreeChange
  BY <1>18 DEF TeardownUnconfirmed
<1>19. ASSUME NEW w \in Workers, TreeConfirmedGone(w) PROVE TreeChange
  BY <1>19 DEF TreeConfirmedGone
<1>20. ASSUME NEW w \in Workers, ReleaseLease(w) PROVE TreeChange
  BY <1>20 DEF ReleaseLease
<1>21. ASSUME NEW w \in Workers, FinishSession(w) PROVE TreeChange
  BY <1>21 DEF FinishSession
<1>22. ASSUME NEW w \in Workers, Manage(w) PROVE TreeChange
  BY <1>22 DEF Manage
<1>23. ASSUME NEW w \in Workers, CheckDelete(w) PROVE TreeChange
  BY <1>23 DEF CheckDelete
<1>24. ASSUME NEW w \in Workers, DeleteAccount(w) PROVE TreeChange
  BY <1>24 DEF DeleteAccount
<1>25. ASSUME NEW w \in Workers, TreeShrinks(w) PROVE TreeChange
  BY <1>25 DEF TreeShrinks
<1>26. ASSUME NEW w \in Workers, ClientDisconnects(w) PROVE TreeChange
  BY <1>26 DEF ClientDisconnects
<1>27. ASSUME StopService PROVE TreeChange
  BY <1>27 DEF StopService
<1>28. ASSUME ServiceExits PROVE TreeChange
  BY <1>28 DEF ServiceExits
<1>29. ASSUME DemandStart PROVE TreeChange
  BY <1>29 DEF DemandStart
<1>30. CASE UNCHANGED vars
  BY <1>30 DEF vars
<1>31. QED
  BY <1>1, <1>1a, <1>1b, <1>2, <1>3, <1>4, <1>5, <1>6, <1>7, <1>8, <1>9, <1>10, <1>11, <1>12,
     <1>13, <1>14, <1>15, <1>16, <1>17, <1>18, <1>19, <1>20, <1>21, <1>22, <1>23, <1>24, <1>25,
     <1>26, <1>27, <1>28, <1>29, <1>30
     DEF Next, WorkerStep

\* Every step of the broker is a step of SessionSlots or changes nothing there.
LEMMA RefinementStep ==
    ASSUME SessionInvariant, [Next]_vars
    PROVE  SlotStep
<1> USE DEF SlotStep, Discipline!slotVars
<1>1. CASE SlotsKept
  <2>1. UNCHANGED SlotOf
    BY <1>1, QuietSlots
  <2>2. ASSUME NEW w \in Admitted, LiveTrees' = LiveTrees \cup {w}
        PROVE  Discipline!SlotNext
    BY <2>1, <2>2, SlotMapping
       DEF SessionInvariant, Admitted, Discipline!SlotNext, Discipline!StartTree
  <2>3. ASSUME NEW w \in Workers, LiveTrees' = LiveTrees \ {w}
        PROVE  Discipline!SlotNext
    BY <2>1, <2>3 DEF Discipline!SlotNext, Discipline!EndTree
  <2>4. QED
    BY <2>1, <2>2, <2>3, TreeChanges DEF SessionInvariant, TreeChange
<1>2. CASE ServiceExits
  BY <1>2 DEF ServiceExits, workerVars, SlotOf, LiveTrees, TreeAlive, Account
<1>3. QED
  BY <1>1, <1>2, SlotChanges, AdmitSlotStep, ReleaseSlotStep DEF SessionInvariant, SlotChange

\* The broker's session core implements SessionSlots: within the limits and in the
\* account's mode, trees live only inside slots, and a slot is given back only
\* once its tree is gone.
THEOREM BrokerImplementsSlots == Spec => ImplementsSlots
<1>1. Init => Discipline!SlotInit
  BY
     DEF Init, Discipline!SlotInit, SlotOf, LiveTrees, TreeAlive, Discipline!Free, ReservedSteps,
         LaunchSteps, ServeSteps
<1>2. SessionInvariant /\ [Next]_vars => [Discipline!SlotNext]_(Discipline!slotVars)
  BY RefinementStep DEF SlotStep
<1>3. QED
  BY <1>1, <1>2, InvariantHolds, PTL DEF Spec, ImplementsSlots, Discipline!SlotSpec

-----------------------------------------------------------------------------
(* The broker keeps ScopeContract with every account's read scope.          *)

\* The sessions' stages and the denials stay.
StagesKept ==
    /\ \A w \in Workers : pc'[w] \in ReservedSteps <=> pc[w] \in ReservedSteps
    /\ \A w \in Admitted : request'[w] = request[w] /\ StageAt(pc'[w]) = StageAt(pc[w])
    /\ UNCHANGED denials

\* A launch turns to its scope.
Begins(w) ==
    /\ pc[w] \in {"logon", "lease"}
    /\ Goto(w, "scope")
    /\ UNCHANGED <<request, denials>>

\* A launch fails before its scope was looked at or after it was prepared.
Leaves(w) ==
    /\ pc[w] \in {"reset", "logon", "lease", "spawn", "verify", "resume"}
    /\ \E step \in {"failLaunch", "failResume", "unreserve"} : Goto(w, step)
    /\ UNCHANGED <<request, denials>>

\* What a step may do to the sessions' stages and to the denials.
StageChange ==
    \/ StagesKept
    \/ \E w \in Workers : \/ Admit(w) \/ Refuse(w) \/ Begins(w)
                          \/ EnsureScope(w) \/ Leaves(w) \/ Released(w)
    \/ ServiceExits

\* A step changes one session's stage at most, and only these change denials.
LEMMA StageChanges ==
    ASSUME TypeOK, [Next]_vars
    PROVE  StageChange
<1> USE DEF TypeOK, StageChange, StagesKept, StageAt, Admitted, ReservedSteps, LaunchSteps,
     ServeSteps, Goto, EndRequest, Account, workerVars, sessionVars
<1>1. ASSUME NEW w \in Workers, Accept(w) PROVE StageChange
  BY <1>1 DEF Accept
<1>1a. ASSUME NEW w \in Workers, NEW r \in Requests, ReadRequest(w, r) PROVE StageChange
  BY <1>1a DEF ReadRequest
<1>1b. ASSUME NEW w \in Workers, RejectRequest(w) PROVE StageChange
  BY <1>1b DEF RejectRequest
<1>2. ASSUME NEW w \in Workers, Admit(w) PROVE StageChange
  BY <1>2
<1>3. ASSUME NEW w \in Workers, Refuse(w) PROVE StageChange
  BY <1>3
<1>4. ASSUME NEW w \in Workers, TakeLaunchMutex(w) PROVE StageChange
  BY <1>4 DEF TakeLaunchMutex
<1>5. ASSUME NEW w \in Workers, ResetPassword(w) PROVE StageChange
  BY <1>5 DEF ResetPassword, Leaves
<1>6. ASSUME NEW w \in Workers, LogOn(w) PROVE StageChange
  BY <1>6 DEF LogOn, Begins, Leaves
<1>7. ASSUME NEW w \in Workers, AcquireLease(w) PROVE StageChange
  BY <1>7 DEF AcquireLease, Begins, Leaves
<1>8. ASSUME NEW w \in Workers, EnsureScope(w) PROVE StageChange
  BY <1>8
<1>9. ASSUME NEW w \in Workers, Spawn(w) PROVE StageChange
  BY <1>9 DEF Spawn, Leaves
<1>10. ASSUME NEW w \in Workers, VerifyChild(w) PROVE StageChange
  BY <1>10 DEF VerifyChild, Leaves
<1>11. ASSUME NEW w \in Workers, Resume(w) PROVE StageChange
  BY <1>11 DEF Resume, Leaves
<1>12. ASSUME NEW w \in Workers, KillFailedLaunch(w) PROVE StageChange
  BY <1>12 DEF KillFailedLaunch
<1>13. ASSUME NEW w \in Workers, FailedLaunchGone(w) PROVE StageChange
  BY <1>13 DEF FailedLaunchGone
<1>14. ASSUME NEW w \in Workers, Unreserve(w) PROVE StageChange
  BY <1>14 DEF Unreserve, Released
<1>15. ASSUME NEW w \in Workers, Reply(w) PROVE StageChange
  BY <1>15 DEF Reply
<1>16. ASSUME NEW w \in Workers, StopServing(w) PROVE StageChange
  BY <1>16 DEF StopServing
<1>17. ASSUME NEW w \in Workers, Teardown(w) PROVE StageChange
  BY <1>17 DEF Teardown
<1>18. ASSUME NEW w \in Workers, TeardownUnconfirmed(w) PROVE StageChange
  BY <1>18 DEF TeardownUnconfirmed
<1>19. ASSUME NEW w \in Workers, TreeConfirmedGone(w) PROVE StageChange
  BY <1>19 DEF TreeConfirmedGone
<1>20. ASSUME NEW w \in Workers, ReleaseLease(w) PROVE StageChange
  BY <1>20 DEF ReleaseLease
<1>21. ASSUME NEW w \in Workers, FinishSession(w) PROVE StageChange
  BY <1>21 DEF FinishSession, Released
<1>22. ASSUME NEW w \in Workers, Manage(w) PROVE StageChange
  BY <1>22 DEF Manage
<1>23. ASSUME NEW w \in Workers, CheckDelete(w) PROVE StageChange
  BY <1>23 DEF CheckDelete
<1>24. ASSUME NEW w \in Workers, DeleteAccount(w) PROVE StageChange
  BY <1>24 DEF DeleteAccount
<1>25. ASSUME NEW w \in Workers, TreeShrinks(w) PROVE StageChange
  BY <1>25 DEF TreeShrinks
<1>26. ASSUME NEW w \in Workers, ClientDisconnects(w) PROVE StageChange
  BY <1>26 DEF ClientDisconnects
<1>27. ASSUME StopService PROVE StageChange
  BY <1>27 DEF StopService
<1>28. ASSUME ServiceExits PROVE StageChange
  BY <1>28
<1>29. ASSUME DemandStart PROVE StageChange
  BY <1>29 DEF DemandStart
<1>30. CASE UNCHANGED vars
  BY <1>30 DEF vars
<1>31. QED
  BY <1>1, <1>1a, <1>1b, <1>2, <1>3, <1>4, <1>5, <1>6, <1>7, <1>8, <1>9, <1>10, <1>11, <1>12,
     <1>13, <1>14, <1>15, <1>16, <1>17, <1>18, <1>19, <1>20, <1>21, <1>22, <1>23, <1>24, <1>25,
     <1>26, <1>27, <1>28, <1>29, <1>30
     DEF Next, WorkerStep

\* A step of the contract for one account, or one that changes nothing it sees.
ContractStep(a) == [Scope(a)!ContractNext]_(Scope(a)!contractVars)

\* Whom the contract sees inside.
LEMMA InsideScope ==
    ASSUME NEW a \in Accounts
    PROVE  /\ \A w \in Workers : StageOf(a)[w] # "out" <=> Uses(w, a)
           /\ \A w \in Workers : Uses(w, a) => StageOf(a)[w] = StageAt(pc[w])
           /\ Scope(a)!Inside = {w \in Workers : Uses(w, a)}
<1>1. \A w \in Workers : StageOf(a)[w] # "out" <=> Uses(w, a)
  BY DEF StageOf, StageAt
<1>2. \A w \in Workers : Uses(w, a) => StageOf(a)[w] = StageAt(pc[w])
  BY DEF StageOf
<1> QED
  BY <1>1, <1>2 DEF Scope!Inside

\* A step of a session that does not use the account's scope is none of the contract.
LEMMA OthersStep ==
    ASSUME TypeOK, NEW a \in Accounts, NEW w \in Workers, ~Uses(w, a), ~Uses(w, a)',
           denials'[a] = denials[a],
           \A v \in Workers \ {w} : pc'[v] = pc[v] /\ request'[v] = request[v]
    PROVE  ContractStep(a)
<1>1. StageOf(a)' = StageOf(a)
  BY DEF StageOf, Uses, Account
<1> QED
  BY <1>1 DEF ContractStep, Scope!contractVars

\* Sessions of the account use its scope, all or none of them.
LEMMA UsersAreHolders ==
    ASSUME SessionInvariant, NEW a \in Accounts
    PROVE  /\ \A w \in Workers : Uses(w, a) => w \in Admitted /\ Account(w) = a
           /\ \A w \in Workers : Uses(w, a) => entry[a] = "scoped"
           /\ \A w \in Admitted : Account(w) = a /\ entry[a] = "scoped" => Uses(w, a)
           /\ (\E w \in Workers : Uses(w, a)) => \A w \in Holders(a) : Uses(w, a)
<1>1. \A w \in Workers : Uses(w, a) => w \in Admitted /\ Account(w) = a
  BY DEF Uses, Admitted
<1>2. \A w \in Workers : Uses(w, a) => entry[a] = "scoped"
  BY <1>1 DEF Uses, SessionInvariant, EntryMatchesSessions
<1>3. \A w \in Admitted : Account(w) = a /\ entry[a] = "scoped" => Uses(w, a)
  BY DEF Uses, SessionInvariant, EntryMatchesSessions, Admitted
<1> QED
  BY <1>1, <1>2, <1>3 DEF Holders

\* A step that changes the session of one worker changes its stage and no other.
LEMMA OneStage ==
    ASSUME TypeOK, NEW a \in Accounts, NEW w \in Workers, NEW to,
           \A v \in Workers \ {w} : pc'[v] = pc[v] /\ request'[v] = request[v],
           IF Uses(w, a)' THEN to = StageAt(pc'[w]) ELSE to = "out"
    PROVE  StageOf(a)' = [StageOf(a) EXCEPT ![w] = to]
<1>1. \A v \in Workers \ {w} : Uses(v, a)' <=> Uses(v, a)
  BY DEF Uses, Account
<1> QED
  BY <1>1 DEF StageOf

\* TryReserveSession admits to the scope, with nothing in place for the first session.
LEMMA AdmitScopeStep ==
    ASSUME SessionInvariant, NEW a \in Accounts, NEW w \in Workers, Admit(w)
    PROVE  ContractStep(a)
<1>1. /\ pc[w] = "reserve" /\ pc' = [pc EXCEPT ![w] = "lock"] /\ request' = request
      /\ MayReserve(Account(w), request[w].restrict)
      /\ denials' = IF count[Account(w)] = 0 THEN [denials EXCEPT ![Account(w)] = "none"]
                                            ELSE denials
  BY DEF Admit, Goto
<1>2. pc \in [Workers -> Steps] /\ denials \in [Accounts -> {"none", "partial", "full"}]
  BY DEF SessionInvariant, TypeOK
<1>3. ~Uses(w, a) /\ \A v \in Workers \ {w} : pc'[v] = pc[v] /\ request'[v] = request[v]
  BY <1>1, <1>2 DEF Uses, ReservedSteps, LaunchSteps, ServeSteps
<1>4. CASE Account(w) = a /\ request[w].restrict
  <2>1. Uses(w, a)' /\ pc'[w] = "lock"
    BY <1>1, <1>2, <1>4 DEF Uses, Account, ReservedSteps
  <2>2. StageOf(a)' = [StageOf(a) EXCEPT ![w] = "admitted"]
    BY <1>3, <2>1, OneStage DEF SessionInvariant, StageAt
  <2>3. StageOf(a)[w] = "out"
    BY <1>3 DEF StageOf
  <2>4. denials'[a] = IF Scope(a)!Inside = {} THEN "none" ELSE denials[a]
    <3>1. CASE count[a] = 0
      <4>1. Holders(a) = {}
        BY <3>1, NoHolders DEF SessionInvariant
      <4>2. Scope(a)!Inside = {}
        BY <4>1, InsideScope, UsersAreHolders DEF Holders
      <4> QED
        BY <1>1, <1>2, <1>4, <3>1, <4>2
    <3>2. CASE count[a] # 0
      <4>1. entry[a] = "scoped"
        BY <1>1, <1>4, <3>2 DEF MayReserve, SessionInvariant, EntryMatchesSessions
      <4>2. Holders(a) # {}
        BY <3>2, FS_EmptySet DEF SessionInvariant, CountersMatch
      <4>3. Scope(a)!Inside # {}
        BY <4>1, <4>2, InsideScope, UsersAreHolders DEF Holders, Admitted
      <4> QED
        BY <1>1, <1>4, <3>2, <4>3
    <3> QED
      BY <3>1, <3>2
  <2>5. Scope(a)!Admit(w)
    BY <2>2, <2>3, <2>4 DEF Scope!Admit, Scope!Move
  <2> QED
    BY <2>5 DEF ContractStep, Scope!ContractNext
<1>5. CASE ~(Account(w) = a /\ request[w].restrict)
  <2>1. ~Uses(w, a)'
    BY <1>1, <1>5 DEF Uses, Account
  <2>2. denials'[a] = denials[a]
    <3>1. CASE Account(w) = a
      <4>1. request[w].restrict = FALSE
        BY <1>1, <1>5, <3>1, RequestFields DEF SessionInvariant, TypeOK
      <4>2. denials[a] = "none"
        BY <1>1, <3>1, <4>1 DEF MayReserve, SessionInvariant, NoForgottenDenials
      <4> QED
        BY <1>1, <1>2, <3>1, <4>2
    <3> QED
      BY <1>1, <1>2, <3>1
  <2> QED
    BY <1>3, <2>1, <2>2, OthersStep DEF SessionInvariant
<1> QED
  BY <1>4, <1>5

\* A scope left by a failed restoration is tried again only with nobody inside.
LEMMA RefuseScopeStep ==
    ASSUME SessionInvariant, NEW a \in Accounts, NEW w \in Workers, Refuse(w)
    PROVE  ContractStep(a)
<1>1. /\ pc[w] = "reserve" /\ pc' = [pc EXCEPT ![w] = "idle"]
      /\ request' = [request EXCEPT ![w] = NoRequest]
      /\ \/ UNCHANGED denials
         \/ count[Account(w)] = 0 /\ RestorationFails(Account(w))
  BY DEF Refuse, EndRequest, Goto
<1>2. /\ pc \in [Workers -> Steps] /\ denials \in [Accounts -> {"none", "partial", "full"}]
      /\ request \in [Workers -> Requests \cup {NoRequest}]
  BY DEF SessionInvariant, TypeOK
<1>3. /\ ~Uses(w, a) /\ ~Uses(w, a)'
      /\ \A v \in Workers \ {w} : pc'[v] = pc[v] /\ request'[v] = request[v]
  BY <1>1, <1>2 DEF Uses, ReservedSteps, LaunchSteps, ServeSteps
<1>4. CASE denials'[a] = denials[a]
  BY <1>3, <1>4, OthersStep DEF SessionInvariant
<1>5. CASE denials'[a] # denials[a]
  <2>1. Account(w) = a /\ count[a] = 0 /\ denials'[a] \in {denials[a], "partial"}
        /\ denials[a] # "none"
    BY <1>1, <1>2, <1>5 DEF RestorationFails
  <2>2. Scope(a)!Inside = {}
    <3>1. Holders(a) = {}
      BY <2>1, NoHolders DEF SessionInvariant
    <3> QED
      BY <3>1, InsideScope, UsersAreHolders DEF Holders
  <2>3. StageOf(a)' = StageOf(a)
    BY <1>3 DEF StageOf, Uses, Account
  <2>4. Scope(a)!Retry
    BY <2>1, <2>2, <2>3 DEF Scope!Retry, Scope!Remains
  <2> QED
    BY <2>4 DEF ContractStep, Scope!ContractNext
<1> QED
  BY <1>4, <1>5

\* launchMutex_ lets one launch at a time prepare its scope.
LEMMA BeginScopeStep ==
    ASSUME SessionInvariant, NEW a \in Accounts, NEW w \in Workers, Begins(w)
    PROVE  ContractStep(a)
<1>1. /\ pc[w] \in {"logon", "lease"} /\ pc' = [pc EXCEPT ![w] = "scope"]
      /\ UNCHANGED <<request, denials>> /\ pc \in [Workers -> Steps]
  BY DEF Begins, Goto, SessionInvariant, TypeOK
<1>2. \A v \in Workers \ {w} : pc'[v] = pc[v] /\ request'[v] = request[v]
  BY <1>1
<1>3. Uses(w, a)' <=> Uses(w, a)
  BY <1>1 DEF Uses, Account, ReservedSteps, LaunchSteps
<1>4. CASE Uses(w, a)
  <2>1. StageOf(a)' = [StageOf(a) EXCEPT ![w] = "ensuring"]
    BY <1>1, <1>2, <1>3, <1>4, OneStage DEF SessionInvariant, StageAt
  <2>2. StageOf(a)[w] = "admitted"
    BY <1>1, <1>4, InsideScope DEF StageAt
  <2>3. \A t \in Workers : StageOf(a)[t] # "ensuring"
    <3>1. \A t \in Workers : pc[t] # "scope"
      BY <1>1 DEF SessionInvariant, MutexFollowsStep, LaunchSteps
    <3> QED
      BY <3>1 DEF StageOf, StageAt
  <2>4. Scope(a)!Begin(w)
    BY <1>1, <2>1, <2>2, <2>3 DEF Scope!Begin, Scope!Move
  <2> QED
    BY <2>4 DEF ContractStep, Scope!ContractNext
<1>5. CASE ~Uses(w, a)
  BY <1>1, <1>2, <1>3, <1>5, OthersStep DEF SessionInvariant
<1> QED
  BY <1>4, <1>5

\* Preparation completes the denials, or fails and leaves what the contract allows.
LEMMA EnsureScopeStep ==
    ASSUME SessionInvariant, NEW a \in Accounts, NEW w \in Workers, EnsureScope(w)
    PROVE  ContractStep(a)
<1>1. /\ pc[w] = "scope" /\ UNCHANGED request /\ pc \in [Workers -> Steps]
      /\ denials \in [Accounts -> {"none", "partial", "full"}]
      /\ pc' = [pc EXCEPT ![w] = "spawn"] \/ pc' = [pc EXCEPT ![w] = "failLaunch"]
  BY DEF EnsureScope, Goto, SessionInvariant, TypeOK
<1>2. \A v \in Workers \ {w} : pc'[v] = pc[v] /\ request'[v] = request[v]
  BY <1>1
<1>3. Uses(w, a)' <=> Uses(w, a)
  BY <1>1 DEF Uses, Account, ReservedSteps, LaunchSteps, ServeSteps
<1>4. CASE Uses(w, a)
  <2>1. Account(w) = a /\ request[w].restrict /\ StageOf(a)[w] = "ensuring"
    BY <1>1, <1>4, InsideScope DEF StageAt, Uses
  <2>2. CASE pc' = [pc EXCEPT ![w] = "spawn"] /\ denials' = [denials EXCEPT ![a] = "full"]
    <3>1. StageOf(a)' = [StageOf(a) EXCEPT ![w] = "running"]
      BY <1>1, <1>2, <1>3, <1>4, <2>2, OneStage DEF SessionInvariant, StageAt
    <3>2. Scope(a)!Ensured(w)
      BY <1>1, <2>1, <2>2, <3>1 DEF Scope!Ensured, Scope!Move
    <3> QED
      BY <3>2 DEF ContractStep, Scope!ContractNext
  <2>3. CASE /\ pc' = [pc EXCEPT ![w] = "failLaunch"]
             /\ \E left \in IF denials[a] = "full" THEN {"full"}
                                                   ELSE {"none", "partial", "full"} :
                   denials' = [denials EXCEPT ![a] = left]
    <3>1. StageOf(a)' = [StageOf(a) EXCEPT ![w] = "leaving"]
      BY <1>1, <1>2, <1>3, <1>4, <2>3, OneStage DEF SessionInvariant, StageAt
    <3>2. Scope(a)!Abandoned(w)
      BY <1>1, <2>1, <2>3, <3>1 DEF Scope!Abandoned, Scope!Partly, Scope!Move
    <3> QED
      BY <3>2 DEF ContractStep, Scope!ContractNext
  <2> QED
    BY <2>1, <2>2, <2>3 DEF EnsureScope, Goto
<1>5. CASE ~Uses(w, a)
  <2>1. w \in Admitted
    BY <1>1 DEF Admitted, ReservedSteps, LaunchSteps
  <2>2. Account(w) # a \/ ~request[w].restrict
    BY <1>5, <2>1 DEF Uses, Admitted
  <2>3. denials'[a] = denials[a]
    BY <1>1, <2>2 DEF EnsureScope
  <2> QED
    BY <1>2, <1>3, <1>5, <2>3, OthersStep DEF SessionInvariant
<1> QED
  BY <1>4, <1>5

\* A launch that fails outside the preparation leaves the denials alone.
LEMMA LeaveScopeStep ==
    ASSUME SessionInvariant, NEW a \in Accounts, NEW w \in Workers, Leaves(w)
    PROVE  ContractStep(a)
<1>1. /\ pc[w] \in {"reset", "logon", "lease", "spawn", "verify", "resume"}
      /\ UNCHANGED <<request, denials>> /\ pc \in [Workers -> Steps]
      /\ \E step \in {"failLaunch", "failResume", "unreserve"} : pc' = [pc EXCEPT ![w] = step]
  BY DEF Leaves, Goto, SessionInvariant, TypeOK
<1>2. \A v \in Workers \ {w} : pc'[v] = pc[v] /\ request'[v] = request[v]
  BY <1>1
<1>3. Uses(w, a)' <=> Uses(w, a)
  BY <1>1 DEF Uses, Account, ReservedSteps, LaunchSteps
<1>4. CASE Uses(w, a)
  <2>1. StageAt(pc'[w]) = "leaving"
    BY <1>1 DEF StageAt
  <2>2. StageOf(a)' = [StageOf(a) EXCEPT ![w] = "leaving"]
    BY <1>2, <1>3, <1>4, <2>1, OneStage DEF SessionInvariant
  <2>3. StageOf(a)[w] \in {"admitted", "running"}
    BY <1>1, <1>4, InsideScope DEF StageAt
  <2>4. Scope(a)!Leave(w)
    BY <1>1, <2>2, <2>3 DEF Scope!Leave, Scope!Move
  <2> QED
    BY <2>4 DEF ContractStep, Scope!ContractNext
<1>5. CASE ~Uses(w, a)
  BY <1>1, <1>2, <1>3, <1>5, OthersStep DEF SessionInvariant
<1> QED
  BY <1>4, <1>5

\* ReleaseSession touches the denials with the account's last session only.
LEMMA ReleaseScopeStep ==
    ASSUME SessionInvariant, NEW a \in Accounts, NEW w \in Workers, Released(w)
    PROVE  ContractStep(a)
<1>1. /\ pc[w] \in {"unreserve", "release"} /\ pc' = [pc EXCEPT ![w] = "idle"]
      /\ request' = [request EXCEPT ![w] = NoRequest] /\ ReleaseSession(Account(w))
      /\ pc \in [Workers -> Steps] /\ request \in [Workers -> Requests \cup {NoRequest}]
      /\ denials \in [Accounts -> {"none", "partial", "full"}]
  BY DEF Released, EndRequest, Goto, SessionInvariant, TypeOK
<1>2. /\ ~Uses(w, a)'
      /\ \A v \in Workers \ {w} : pc'[v] = pc[v] /\ request'[v] = request[v]
  BY <1>1 DEF Uses, ReservedSteps, LaunchSteps, ServeSteps
<1>3. w \in Admitted
  BY <1>1 DEF Admitted, ReservedSteps, LaunchSteps, ServeSteps
<1>4. CASE Uses(w, a)
  <2>1. Account(w) = a /\ StageOf(a)[w] \in {"leaving", "running"}
    BY <1>1, <1>4, InsideScope DEF StageAt, Uses
  <2>2. StageOf(a)' = [StageOf(a) EXCEPT ![w] = "out"]
    BY <1>2, OneStage DEF SessionInvariant
  <2>3. Scope(a)!Inside = Holders(a)
    BY <1>4, InsideScope, UsersAreHolders DEF Holders, Admitted
  <2>4. count[a] > 0 /\ w \in Holders(a) /\ (count[a] = 1 => \A v \in Holders(a) : v = w)
    BY <1>3, <2>1, HolderIsCounted DEF SessionInvariant
  <2>5. CASE count[a] > 1 /\ UNCHANGED denials
    <3>1. Holders(a) # {w}
      <4>1. Cardinality(Holders(a)) = count[a]
        BY DEF SessionInvariant, CountersMatch
      <4>2. Cardinality({w}) = 1
        BY FS_Singleton, Zenon
      <4> QED
        BY <2>5, <4>1, <4>2
    <3> QED
      BY <2>1, <2>2, <2>3, <2>5, <3>1
         DEF ContractStep, Scope!ContractNext, Scope!Release, Scope!Move
  <2>6. CASE count[a] = 1 /\ denials'[a] \in Scope(a)!Remains \cup {"none"}
    <3>1. Scope(a)!Inside = {w}
      BY <2>3, <2>4, <2>6
    <3> QED
      BY <2>1, <2>2, <2>6, <3>1 DEF ContractStep, Scope!ContractNext, Scope!Release, Scope!Move
  <2> QED
    BY <1>1, <2>1, <2>4, <2>5, <2>6 DEF ReleaseSession, RestorationFails, Scope!Remains
<1>5. CASE ~Uses(w, a)
  <2>1. denials'[a] = denials[a]
    <3>1. CASE Account(w) = a
      <4>1. ~request[w].restrict /\ entry[a] = "plain"
        BY <1>3, <1>5, <3>1 DEF Uses, Admitted, SessionInvariant, EntryMatchesSessions
      <4>2. denials[a] = "none"
        BY <4>1 DEF SessionInvariant, NoForgottenDenials
      <4> QED
        BY <1>1, <3>1, <4>2 DEF ReleaseSession, RestorationFails, sessionVars
    <3>2. CASE Account(w) # a
      BY <1>1, <3>2 DEF ReleaseSession, RestorationFails, sessionVars
    <3> QED
      BY <3>1, <3>2
  <2> QED
    BY <1>2, <1>5, <2>1, OthersStep DEF SessionInvariant
<1> QED
  BY <1>4, <1>5

\* Every step of the broker is, for each account, a step of its scope's contract or none.
LEMMA ContractSteps ==
    ASSUME SessionInvariant, NEW a \in Accounts, [Next]_vars
    PROVE  ContractStep(a)
<1>1. CASE StagesKept
  <2>1. \A w \in Workers : pc[w] \in ReservedSteps => w \in Admitted
    BY DEF Admitted
  <2>2. StageOf(a)' = StageOf(a)
    BY <1>1, <2>1 DEF StagesKept, StageOf, Uses, Account
  <2> QED
    BY <1>1, <2>2 DEF StagesKept, ContractStep, Scope!contractVars
<1>2. CASE ServiceExits
  <2>1. \A w \in Workers : ~Uses(w, a) /\ ~Uses(w, a)'
    BY <1>2 DEF ServiceExits, workerVars, Uses, ReservedSteps, LaunchSteps, ServeSteps
  <2>2. StageOf(a)' = StageOf(a) /\ Scope(a)!Inside = {}
    BY <2>1, InsideScope DEF StageOf
  <2>3. denials'[a] = "none"
    BY <1>2 DEF ServiceExits
  <2> QED
    BY <2>2, <2>3 DEF ContractStep, Scope!ContractNext, Scope!Retry
<1> QED
  BY <1>1, <1>2, StageChanges, AdmitScopeStep, RefuseScopeStep, BeginScopeStep, EnsureScopeStep,
     LeaveScopeStep, ReleaseScopeStep
     DEF SessionInvariant, StageChange

\* With every account's read scope the broker keeps the contract that BrokerReadScope
\* implements: no scope is restored in use or prepared by two launches at once, and no
\* restricted program starts under an incomplete one.
THEOREM BrokerKeepsScopeContract == Spec => ImplementsScopes
<1>1. Init => \A a \in Accounts : Scope(a)!ContractInit
  BY DEF Init, Scope!ContractInit, StageOf, Uses, ReservedSteps, LaunchSteps, ServeSteps
<1>2. SessionInvariant /\ [Next]_vars
        => [\A a \in Accounts : UNCHANGED Scope(a)!contractVars \/ Scope(a)!ContractNext]_vars
  BY ContractSteps DEF ContractStep
<1>3. QED
  BY <1>1, <1>2, InvariantHolds, PTL DEF Spec, ImplementsScopes

-----------------------------------------------------------------------------

\* A worker's own step moves it towards its end, or kills the child of a failed launch, and
\* leaves the other workers where they are.
MovesOn(w) ==
    /\ pc[w] # "idle"
    /\ \A v \in Workers \ {w} : pc'[v] = pc[v] /\ child'[v] = child[v]
    /\ pc'[w] \in Steps
    /\ \/ StepsLeft[pc'[w]] < StepsLeft[pc[w]]
       \/ pc'[w] = pc[w] /\ child[w] = "suspended" /\ child'[w] = "dying"

\* The steps a worker has left are a number.
LEMMA StepsLeftIsNat == \A step \in Steps : StepsLeft[step] \in Nat
BY DEF StepsLeft, Steps, ReservedSteps, LaunchSteps, ServeSteps, ConfigureSteps

\* Every step of a worker moves it on.
LEMMA WorkerMovesOn ==
    ASSUME TypeOK, TreeFollowsStep, NEW w \in Workers, WorkerStep(w)
    PROVE  MovesOn(w)
<1> USE DEF TypeOK, MovesOn, StepsLeft, Steps, ReservedSteps, LaunchSteps, ServeSteps,
     ConfigureSteps, Goto, EndRequest, workerVars
<1>1a. ASSUME NEW r \in Requests, ReadRequest(w, r) PROVE MovesOn(w)
  BY <1>1a DEF ReadRequest
<1>1b. ASSUME RejectRequest(w) PROVE MovesOn(w)
  BY <1>1b DEF RejectRequest
<1>1. ASSUME Admit(w) PROVE MovesOn(w)
  BY <1>1 DEF Admit
<1>2. ASSUME Refuse(w) PROVE MovesOn(w)
  BY <1>2 DEF Refuse
<1>3. ASSUME TakeLaunchMutex(w) PROVE MovesOn(w)
  BY <1>3 DEF TakeLaunchMutex
<1>4. ASSUME ResetPassword(w) PROVE MovesOn(w)
  BY <1>4 DEF ResetPassword
<1>5. ASSUME LogOn(w) PROVE MovesOn(w)
  BY <1>5 DEF LogOn
<1>6. ASSUME AcquireLease(w) PROVE MovesOn(w)
  BY <1>6 DEF AcquireLease
<1>7. ASSUME EnsureScope(w) PROVE MovesOn(w)
  BY <1>7 DEF EnsureScope
<1>8. ASSUME Spawn(w) PROVE MovesOn(w)
  BY <1>8 DEF Spawn
<1>9. ASSUME VerifyChild(w) PROVE MovesOn(w)
  BY <1>9 DEF VerifyChild
<1>10. ASSUME Resume(w) PROVE MovesOn(w)
  BY <1>10 DEF Resume
<1>11. ASSUME KillFailedLaunch(w) PROVE MovesOn(w)
  BY <1>11 DEF KillFailedLaunch
<1>12. ASSUME FailedLaunchGone(w) PROVE MovesOn(w)
  BY <1>12 DEF FailedLaunchGone
<1>13. ASSUME Unreserve(w) PROVE MovesOn(w)
  BY <1>13 DEF Unreserve
<1>14. ASSUME Reply(w) PROVE MovesOn(w)
  BY <1>14 DEF Reply
<1>15. ASSUME StopServing(w) PROVE MovesOn(w)
  BY <1>15 DEF StopServing
<1>16. ASSUME Teardown(w) PROVE MovesOn(w)
  BY <1>16 DEF Teardown
<1>17. ASSUME TeardownUnconfirmed(w) PROVE MovesOn(w)
  BY <1>17 DEF TeardownUnconfirmed
<1>18. ASSUME TreeConfirmedGone(w) PROVE MovesOn(w)
  BY <1>18 DEF TreeConfirmedGone
<1>19. ASSUME ReleaseLease(w) PROVE MovesOn(w)
  BY <1>19 DEF ReleaseLease
<1>20. ASSUME FinishSession(w) PROVE MovesOn(w)
  BY <1>20 DEF FinishSession
<1>21. ASSUME Manage(w) PROVE MovesOn(w)
  BY <1>21 DEF Manage
<1>22. ASSUME CheckDelete(w) PROVE MovesOn(w)
  BY <1>22 DEF CheckDelete
<1>23. ASSUME DeleteAccount(w) PROVE MovesOn(w)
  BY <1>23 DEF DeleteAccount
<1>24. QED
  BY <1>1, <1>1a, <1>1b, <1>2, <1>3, <1>4, <1>5, <1>6, <1>7, <1>8, <1>9, <1>10, <1>11, <1>12,
     <1>13, <1>14, <1>15, <1>16, <1>17, <1>18, <1>19, <1>20, <1>21, <1>22, <1>23
     DEF WorkerStep

\* A step that moves a worker on leaves less to do for it and the same for the others.
LEMMA MovingOnIsLess ==
    ASSUME TypeOK, NEW w \in Workers, MovesOn(w)
    PROVE  /\ Left(w)' < Left(w)
           /\ \A v \in Workers \ {w} : Left(v)' = Left(v)
<1>1. StepsLeft[pc[w]] \in Nat /\ StepsLeft[pc'[w]] \in Nat
  BY StepsLeftIsNat DEF MovesOn, TypeOK
<1>2. Left(w)' < Left(w)
  BY <1>1 DEF MovesOn, Left
<1>3. \A v \in Workers \ {w} : Left(v)' = Left(v)
  BY DEF MovesOn, Left
<1> QED
  BY <1>2, <1>3

\* What is not a worker's step takes no busy worker back.
LEMMA OthersTakeNothingBack ==
    ASSUME TypeOK, TreeFollowsStep, [Next]_vars, ~(\E w \in Workers : WorkerStep(w)),
           NEW v \in Workers, pc[v] # "idle"
    PROVE  Left(v)' <= Left(v)
<1>1. pc'[v] = pc[v] /\ (child'[v] = "suspended" => child[v] = "suspended") => Left(v)' <= Left(v)
  BY StepsLeftIsNat DEF Left, TypeOK
<1>2. ASSUME NEW w \in Workers, Accept(w)
      PROVE  pc'[v] = pc[v] /\ child'[v] = child[v]
  BY <1>2 DEF Accept, Goto, TypeOK
<1>3. ASSUME NEW w \in Workers, TreeShrinks(w)
      PROVE  pc'[v] = pc[v] /\ (child'[v] = "suspended" => child[v] = "suspended")
  BY <1>3 DEF TreeShrinks, workerVars, TypeOK
<1>4. ASSUME NEW w \in Workers, ClientDisconnects(w)
      PROVE  pc'[v] = pc[v] /\ child'[v] = child[v]
  BY <1>4 DEF ClientDisconnects
<1>5. ASSUME StopService \/ ServiceExits \/ DemandStart \/ UNCHANGED vars
      PROVE  pc'[v] = pc[v] /\ child'[v] = child[v]
  BY <1>5 DEF StopService, ServiceExits, DemandStart, workerVars, vars
<1> QED
  BY <1>1, <1>2, <1>3, <1>4, <1>5 DEF Next

\* Each of a worker's steps brings it nearer its end, and nobody else's takes it back, so a
\* request is over after a bounded number of its worker's steps (at most twice nineteen).
THEOREM RequestsEnd == Spec => RequestsRunOut
<1>1. ASSUME SessionInvariant, [Next]_vars, NEW w \in Workers, pc[w] # "idle"
      PROVE  /\ Left(w)' <= Left(w)
             /\ WorkerStep(w) => Left(w)' < Left(w)
  <2>1. TypeOK /\ TreeFollowsStep
    BY <1>1 DEF SessionInvariant
  <2>2. Left(w) \in Nat
    BY <2>1, StepsLeftIsNat DEF Left, TypeOK
  <2>3. ASSUME WorkerStep(w)
        PROVE  Left(w)' < Left(w) /\ Left(w)' <= Left(w)
    <3>1. Left(w)' < Left(w) /\ MovesOn(w)
      BY <2>1, <2>3, WorkerMovesOn, MovingOnIsLess
    <3>2. Left(w)' \in Nat
      BY <3>1, StepsLeftIsNat DEF Left, MovesOn
    <3> QED
      BY <2>2, <3>1, <3>2
  <2>4. ASSUME NEW v \in Workers, v # w, WorkerStep(v)
        PROVE  Left(w)' <= Left(w)
    <3>1. Left(w)' = Left(w)
      BY <2>1, <2>4, WorkerMovesOn, MovingOnIsLess
    <3> QED
      BY <2>2, <3>1
  <2>5. CASE ~(\E v \in Workers : WorkerStep(v))
    BY <1>1, <2>1, <2>5, OthersTakeNothingBack
  <2> QED
    BY <2>3, <2>4, <2>5
<1>2. SessionInvariant /\ [Next]_vars
        => [\A w \in Workers : pc[w] # "idle" =>
               /\ Left(w)' <= Left(w)
               /\ WorkerStep(w) => Left(w)' < Left(w)]_vars
  BY <1>1
<1>3. QED
  BY <1>2, InvariantHolds, PTL DEF Spec, RequestsRunOut

\* At every step but the waits for the mutex, for a killed tree and for the end of a session,
\* a worker can go on.
LEMMA WaitsOfStep ==
    ASSUME SessionInvariant, NEW w \in Workers, pc[w] # "idle"
    PROVE  \/ CanStep(w) \/ AwaitsTree(w)
           \/ pc[w] \in {"lock", "configure"} /\ launchMutex # Nobody
           \/ pc[w] = "serve" /\ ~Stopping /\ TreeAlive(w)
<1>1. pc[w] \in Steps
  BY DEF SessionInvariant, TypeOK
<1>2. CASE pc[w] \in {"failLaunch", "failResume"}
  BY <1>2 DEF SessionInvariant, TreeFollowsStep, CanStep, AwaitsTree
<1>3. CASE pc[w] = "confirm"
  BY <1>3 DEF SessionInvariant, TreeFollowsStep, CanStep, AwaitsTree
<1>4. CASE pc[w] = "serve"
  BY <1>4 DEF SessionInvariant, TreeFollowsStep, CanStep, ServingEnds, TreeAlive
<1>5. CASE pc[w] \in {"lock", "configure"}
  BY <1>5 DEF CanStep
<1> QED
  BY <1>1, <1>2, <1>3, <1>4, <1>5
     DEF CanStep, Steps, ReservedSteps, LaunchSteps, ServeSteps, ConfigureSteps

\* The owner of launchMutex_ waits for no other worker.
LEMMA OwnerMoves ==
    ASSUME SessionInvariant, launchMutex # Nobody
    PROVE  /\ launchMutex \in Workers /\ pc[launchMutex] # "idle"
           /\ CanStep(launchMutex) \/ AwaitsTree(launchMutex)
<1>1. launchMutex \in Workers
  BY DEF SessionInvariant, TypeOK
<1>2. pc[launchMutex] \in LaunchSteps \cup ConfigureSteps
  BY <1>1 DEF SessionInvariant, MutexFollowsStep
<1> QED
  BY <1>1, <1>2, WaitsOfStep DEF LaunchSteps, ConfigureSteps

\* Workers wait for the mutex, for a killed tree or for the end of a session only, and the
\* owner of the mutex for no other worker.
THEOREM WaitsHold == Spec => []WaitsAreBounded
<1>1. SessionInvariant => WaitsAreBounded
  BY WaitsOfStep, OwnerMoves DEF WaitsAreBounded
<1>2. QED
  BY <1>1, InvariantHolds, PTL

\* A stop meets no deadlock: while a worker is left, one can go on or waits for a killed tree.
THEOREM StopGoesOn == Spec => []StopNeverHangs
<1>1. SessionInvariant => StopNeverHangs
  <2> SUFFICES ASSUME SessionInvariant, Stopping, NEW w \in Workers, pc[w] # "idle"
               PROVE  \E v \in Workers : CanStep(v) \/ AwaitsTree(v)
    BY DEF StopNeverHangs
  <2>1. \/ CanStep(w) \/ AwaitsTree(w)
        \/ launchMutex # Nobody
    BY WaitsOfStep
  <2> QED
    BY <2>1, OwnerMoves
<1>2. QED
  BY <1>1, InvariantHolds, PTL

-----------------------------------------------------------------------------
(* The session core is what BrokerLifecycle lets run in the service.        *)

\* What this module and BrokerLifecycle call the size of a set is the same.
LEMMA SameSize == \A S : Lifecycle!Cardinality(S) = Cardinality(S)
BY DEF Lifecycle!Cardinality, Cardinality

\* A step of the broker is one of the lifecycle or changes nothing there.
LifecycleStep == [Lifecycle!LifecycleNext]_(Lifecycle!lifecycleVars)

\* A worker neither starts nor stops the service.
LEMMA WorkersKeepService ==
    ASSUME NEW w \in Workers, WorkerStep(w)
    PROVE  UNCHANGED service
BY
   DEF WorkerStep, ReadRequest, RejectRequest, Admit, Refuse, TakeLaunchMutex, ResetPassword,
       LogOn, AcquireLease, EnsureScope, Spawn, VerifyChild, Resume, KillFailedLaunch,
       FailedLaunchGone, Unreserve, Reply, StopServing, Teardown, TeardownUnconfirmed,
       TreeConfirmedGone, ReleaseLease, FinishSession, Manage, CheckDelete, DeleteAccount

\* A worker that steps stays busy or finishes its request.
LEMMA WorkerLifecycleStep ==
    ASSUME SessionInvariant, NEW w \in Workers, WorkerStep(w)
    PROVE  LifecycleStep
<1>1. MovesOn(w)
  BY WorkerMovesOn DEF SessionInvariant
<1>2. Phase' = Phase
  BY WorkersKeepService DEF Phase
<1>3. Busy' = Busy \/ Busy' = Busy \ {w}
  BY <1>1 DEF MovesOn, Busy
<1>4. CASE Busy' = Busy
  BY <1>2, <1>4 DEF LifecycleStep, Lifecycle!lifecycleVars
<1>5. CASE Busy' = Busy \ {w}
  BY <1>2, <1>5 DEF LifecycleStep, Lifecycle!LifecycleNext, Lifecycle!FinishRequest
<1> QED
  BY <1>3, <1>4, <1>5

\* A dispatch begins a request, for which there is a thread to spare.
LEMMA AcceptLifecycleStep ==
    ASSUME TypeOK, NEW w \in Workers, Accept(w)
    PROVE  LifecycleStep
<1>1. /\ Phase \in {"up", "ending"}
      /\ Phase' = IF Phase = "ending" THEN "closed" ELSE Phase
  BY DEF Accept, Phase
<1>2. w \notin Busy /\ Busy' = Busy \cup {w}
  BY DEF Accept, Goto, Busy, TypeOK
<1>3. IsFiniteSet(Workers) /\ Busy \subseteq Workers /\ Busy # Workers
  BY <1>2, SessionConstants DEF Busy
<1>4. /\ Cardinality(Busy) \in Nat /\ Cardinality(Workers) \in Nat
      /\ Cardinality(Busy) <= Cardinality(Workers)
      /\ Cardinality(Busy) # Cardinality(Workers)
  BY <1>3, FS_Subset, FS_CardinalityType
<1>5. Cardinality(Busy) < Cardinality(Workers)
  BY <1>4
<1>6. Lifecycle!BeginRequest(w)
  BY <1>1, <1>2, <1>5, SameSize DEF Lifecycle!BeginRequest
<1> QED
  BY <1>6 DEF LifecycleStep, Lifecycle!LifecycleNext

\* Stops, exits and starts are the lifecycle's; trees and clients are not seen there.
LEMMA ServiceLifecycleStep ==
    ASSUME TypeOK, \/ \E w \in Workers : TreeShrinks(w) \/ ClientDisconnects(w)
                   \/ StopService \/ ServiceExits \/ DemandStart \/ UNCHANGED vars
    PROVE  LifecycleStep
<1> USE DEF LifecycleStep, Lifecycle!LifecycleNext, Lifecycle!lifecycleVars, Phase, Busy,
     workerVars
<1>1. ASSUME NEW w \in Workers, TreeShrinks(w) PROVE LifecycleStep
  BY <1>1 DEF TreeShrinks
<1>2. ASSUME NEW w \in Workers, ClientDisconnects(w) PROVE LifecycleStep
  BY <1>2 DEF ClientDisconnects
<1>3. CASE StopService
  BY <1>3 DEF StopService, Lifecycle!End
<1>4. CASE ServiceExits
  BY <1>4 DEF ServiceExits, Stopping, Lifecycle!Exit
<1>5. CASE DemandStart
  BY <1>5 DEF DemandStart, Lifecycle!Start
<1>6. CASE UNCHANGED vars
  BY <1>6 DEF vars
<1> QED
  BY <1>1, <1>2, <1>3, <1>4, <1>5, <1>6

\* The session core asks of the service that runs it no more than the listener is proved to
\* give it: a worker begins only where a thread is to spare, while the service is up or, once,
\* after the stop event is set; and the service exits, and destroys the application, only when
\* no worker is left, that late one included.
THEOREM BrokerKeepsLifecycle == Spec => KeepsLifecycle
<1>1. Init => Lifecycle!LifecycleInit
  BY DEF Init, Lifecycle!LifecycleInit, Phase, Busy
<1>2. SessionInvariant /\ [Next]_vars => [Lifecycle!LifecycleNext]_(Lifecycle!lifecycleVars)
  BY WorkerLifecycleStep, AcceptLifecycleStep, ServiceLifecycleStep
     DEF SessionInvariant, LifecycleStep, Next
<1>3. QED
  BY <1>1, <1>2, InvariantHolds, PTL DEF Spec, KeepsLifecycle, Lifecycle!LifecycleSpec

-----------------------------------------------------------------------------
(* The broker keeps LeaseContract with the desktop leases.                  *)

\* The sessions' stages with their leases, and the leases, stay.
LeasesKept ==
    /\ \A v \in Workers : LeaseStageOf(v)' = LeaseStageOf(v)
    /\ UNCHANGED lease

\* What a step may do to them.
LeaseChange ==
    \/ LeasesKept
    \/ \E w \in Workers : \/ TakeLaunchMutex(w) \/ AcquireLease(w) \/ Resume(w)
                          \/ FailedLaunchGone(w) \/ Unreserve(w) \/ ReleaseLease(w)

\* Only the steps at which a launch begins, gets or gives up a lease or ends are seen.
LEMMA LeaseChanges ==
    ASSUME TypeOK, [Next]_vars
    PROVE  LeaseChange
<1> USE DEF TypeOK, LeaseChange, LeasesKept, LeaseStageOf, LeaseStageAt, Interactive, Goto,
     EndRequest, workerVars
<1>1. ASSUME NEW w \in Workers, Accept(w) PROVE LeaseChange
  BY <1>1 DEF Accept
<1>1a. ASSUME NEW w \in Workers, NEW r \in Requests, ReadRequest(w, r) PROVE LeaseChange
  BY <1>1a DEF ReadRequest
<1>1b. ASSUME NEW w \in Workers, RejectRequest(w) PROVE LeaseChange
  BY <1>1b DEF RejectRequest
<1>2. ASSUME NEW w \in Workers, Admit(w) PROVE LeaseChange
  BY <1>2 DEF Admit
<1>3. ASSUME NEW w \in Workers, Refuse(w) PROVE LeaseChange
  BY <1>3 DEF Refuse
<1>4. ASSUME NEW w \in Workers, TakeLaunchMutex(w) PROVE LeaseChange
  BY <1>4
<1>5. ASSUME NEW w \in Workers, ResetPassword(w) PROVE LeaseChange
  BY <1>5 DEF ResetPassword
<1>6. ASSUME NEW w \in Workers, LogOn(w) PROVE LeaseChange
  BY <1>6 DEF LogOn
<1>7. ASSUME NEW w \in Workers, AcquireLease(w) PROVE LeaseChange
  BY <1>7
<1>8. ASSUME NEW w \in Workers, EnsureScope(w) PROVE LeaseChange
  BY <1>8 DEF EnsureScope
<1>9. ASSUME NEW w \in Workers, Spawn(w) PROVE LeaseChange
  BY <1>9 DEF Spawn
<1>10. ASSUME NEW w \in Workers, VerifyChild(w) PROVE LeaseChange
  BY <1>10 DEF VerifyChild
<1>11. ASSUME NEW w \in Workers, Resume(w) PROVE LeaseChange
  BY <1>11
<1>12. ASSUME NEW w \in Workers, KillFailedLaunch(w) PROVE LeaseChange
  BY <1>12 DEF KillFailedLaunch
<1>13. ASSUME NEW w \in Workers, FailedLaunchGone(w) PROVE LeaseChange
  BY <1>13
<1>14. ASSUME NEW w \in Workers, Unreserve(w) PROVE LeaseChange
  BY <1>14
<1>15. ASSUME NEW w \in Workers, Reply(w) PROVE LeaseChange
  BY <1>15 DEF Reply
<1>16. ASSUME NEW w \in Workers, StopServing(w) PROVE LeaseChange
  BY <1>16 DEF StopServing
<1>17. ASSUME NEW w \in Workers, Teardown(w) PROVE LeaseChange
  BY <1>17 DEF Teardown
<1>18. ASSUME NEW w \in Workers, TeardownUnconfirmed(w) PROVE LeaseChange
  BY <1>18 DEF TeardownUnconfirmed
<1>19. ASSUME NEW w \in Workers, TreeConfirmedGone(w) PROVE LeaseChange
  BY <1>19 DEF TreeConfirmedGone
<1>20. ASSUME NEW w \in Workers, ReleaseLease(w) PROVE LeaseChange
  BY <1>20
<1>21. ASSUME NEW w \in Workers, FinishSession(w) PROVE LeaseChange
  BY <1>21 DEF FinishSession
<1>22. ASSUME NEW w \in Workers, Manage(w) PROVE LeaseChange
  BY <1>22 DEF Manage
<1>23. ASSUME NEW w \in Workers, CheckDelete(w) PROVE LeaseChange
  BY <1>23 DEF CheckDelete
<1>24. ASSUME NEW w \in Workers, DeleteAccount(w) PROVE LeaseChange
  BY <1>24 DEF DeleteAccount
<1>25. ASSUME NEW w \in Workers, TreeShrinks(w) PROVE LeaseChange
  BY <1>25 DEF TreeShrinks
<1>26. ASSUME NEW w \in Workers, ClientDisconnects(w) PROVE LeaseChange
  BY <1>26 DEF ClientDisconnects
<1>27. ASSUME StopService PROVE LeaseChange
  BY <1>27 DEF StopService
<1>28. ASSUME ServiceExits PROVE LeaseChange
  BY <1>28 DEF ServiceExits
<1>29. ASSUME DemandStart PROVE LeaseChange
  BY <1>29 DEF DemandStart
<1>30. CASE UNCHANGED vars
  BY <1>30 DEF vars
<1>31. QED
  BY <1>1, <1>1a, <1>1b, <1>2, <1>3, <1>4, <1>5, <1>6, <1>7, <1>8, <1>9, <1>10, <1>11, <1>12,
     <1>13, <1>14, <1>15, <1>16, <1>17, <1>18, <1>19, <1>20, <1>21, <1>22, <1>23, <1>24, <1>25,
     <1>26, <1>27, <1>28, <1>29, <1>30
     DEF Next, WorkerStep

\* A step of the lease's contract, or one that changes nothing it sees.
LeaseContractStep == [Leases!LeaseNext]_(Leases!leaseVars)

\* One worker's step moves only its own session's stage.
LEMMA LeaseStageMoves ==
    ASSUME NEW w \in Workers, \A v \in Workers \ {w} : LeaseStageOf(v)' = LeaseStageOf(v)
    PROVE  /\ LeaseStage[w] = LeaseStageOf(w)
           /\ LeaseStage' = [LeaseStage EXCEPT ![w] = LeaseStageOf(w)']
BY DEF LeaseStage

\* Launches take turns.
LEMMA BeginLeaseStep ==
    ASSUME SessionInvariant, NEW w \in Workers, TakeLaunchMutex(w)
    PROVE  LeaseContractStep
<1> USE DEF TakeLaunchMutex, Goto, LeaseStageOf, LeaseStageAt, Interactive
<1> TypeOK
  BY DEF SessionInvariant
<1>1. HasLease' = HasLease
  BY DEF HasLease
<1>2. \A v \in Workers \ {w} : LeaseStageOf(v)' = LeaseStageOf(v)
  BY DEF TypeOK
<1>3. CASE pc[w] = "lock" /\ Interactive(w)
  <2>1. LeaseStageOf(w) = "out" /\ LeaseStageOf(w)' = "launching"
    BY <1>3 DEF TypeOK
  <2>2. \A v \in Workers : LeaseStage[v] \notin {"launching", "granted"}
    <3>1. \A v \in Workers : pc[v] \notin LaunchSteps
      BY SessionConstants DEF SessionInvariant, MutexFollowsStep
    <3> QED
      BY <3>1 DEF LaunchSteps, LeaseStage
  <2>3. Leases!Begin(w)
    BY <1>1, <1>2, <2>1, <2>2, LeaseStageMoves DEF Leases!Begin, Leases!Move
  <2> QED
    BY <2>3 DEF LeaseContractStep, Leases!LeaseNext
<1>4. CASE pc[w] = "configure" \/ ~Interactive(w)
  <2>1. LeaseStageOf(w)' = LeaseStageOf(w)
    BY <1>4 DEF TypeOK
  <2>2. LeaseStage' = LeaseStage
    BY <1>2, <2>1 DEF LeaseStage
  <2> QED
    BY <1>1, <2>2 DEF LeaseContractStep, Leases!leaseVars
<1> QED
  BY <1>3, <1>4

\* A lease is granted to a launch that asks for it, or the launch goes on without one.
LEMMA GrantLeaseStep ==
    ASSUME TypeOK, NEW w \in Workers, AcquireLease(w)
    PROVE  LeaseContractStep
<1> USE DEF AcquireLease, Goto, LeaseStageOf, LeaseStageAt, Interactive, LeaseContractStep,
     Leases!LeaseNext
<1>1. \A v \in Workers \ {w} : LeaseStageOf(v)' = LeaseStageOf(v)
  BY DEF TypeOK
<1>2. CASE UNCHANGED lease /\ Goto(w, "unreserve")
  <2>1. LeaseStageOf(w)' = LeaseStageOf(w) /\ HasLease' = HasLease
    BY <1>2 DEF TypeOK, HasLease
  <2>2. LeaseStage' = LeaseStage
    BY <1>1, <2>1 DEF LeaseStage
  <2> QED
    BY <2>1, <2>2 DEF Leases!leaseVars
<1>3. CASE lease' = [lease EXCEPT ![w] = TRUE] /\ Goto(w, "scope")
  <2>1. HasLease' = HasLease \cup {w}
    BY <1>3 DEF TypeOK, HasLease
  <2>2. CASE Interactive(w)
    <3>1. LeaseStageOf(w) = "launching" /\ LeaseStageOf(w)' = "granted"
      BY <1>3, <2>2 DEF TypeOK
    <3>2. Leases!Grant(w)
      BY <1>1, <2>1, <3>1, LeaseStageMoves DEF Leases!Grant, Leases!Move
    <3> QED
      BY <3>2
  <2>3. CASE ~Interactive(w)
    <3>1. LeaseStageOf(w) = "out" /\ LeaseStageOf(w)' = "out"
      BY <2>3
    <3>2. LeaseStage' = LeaseStage
      BY <1>1, <3>1 DEF LeaseStage
    <3>3. Leases!Turn(w)
      BY <2>1, <3>1, <3>2 DEF Leases!Turn, Leases!Held, LeaseStage
    <3> QED
      BY <3>3
  <2> QED
    BY <2>2, <2>3
<1> QED
  BY <1>2, <1>3

\* The program is resumed, or cannot be.
LEMMA StartLeaseStep ==
    ASSUME TypeOK, NEW w \in Workers, Resume(w)
    PROVE  LeaseContractStep
<1> USE DEF Resume, Goto, LeaseStageOf, LeaseStageAt, Interactive, LeaseContractStep,
     Leases!LeaseNext
<1>1. HasLease' = HasLease
  BY DEF HasLease
<1>2. \A v \in Workers \ {w} : LeaseStageOf(v)' = LeaseStageOf(v)
  BY DEF TypeOK
<1>3. CASE Interactive(w) /\ Goto(w, "reply")
  <2>1. LeaseStageOf(w) = "granted" /\ LeaseStageOf(w)' = "running"
    BY <1>3 DEF TypeOK
  <2>2. Leases!Start(w)
    BY <1>1, <1>2, <2>1, LeaseStageMoves DEF Leases!Start, Leases!Move
  <2> QED
    BY <2>2
<1>4. CASE ~Interactive(w) \/ Goto(w, "failResume")
  <2>1. LeaseStageOf(w)' = LeaseStageOf(w)
    BY <1>4 DEF TypeOK
  <2>2. LeaseStage' = LeaseStage
    BY <1>2, <2>1 DEF LeaseStage
  <2> QED
    BY <1>1, <2>2 DEF Leases!leaseVars
<1> QED
  BY <1>3, <1>4

\* A lease goes with a failed launch or with the session whose tree is gone.
LEMMA EndLeaseStep ==
    ASSUME TypeOK, NEW w \in Workers, FailedLaunchGone(w) \/ Unreserve(w) \/ ReleaseLease(w)
    PROVE  LeaseContractStep
<1> USE DEF Goto, EndRequest, LeaseStageOf, LeaseStageAt, Interactive, LeaseContractStep,
     Leases!LeaseNext
<1>1. \A v \in Workers \ {w} : LeaseStageOf(v)' = LeaseStageOf(v)
  BY DEF TypeOK, FailedLaunchGone, Unreserve, ReleaseLease
<1>2. HasLease' \in {HasLease, HasLease \ {w}}
  BY DEF TypeOK, FailedLaunchGone, Unreserve, ReleaseLease, HasLease
<1>3. CASE Interactive(w) /\ FailedLaunchGone(w)
  <2>1. LeaseStageOf(w) = "granted" /\ LeaseStageOf(w)' = "launching"
    BY <1>3 DEF TypeOK, FailedLaunchGone
  <2>2. Leases!GiveBack(w)
    BY <1>1, <1>2, <2>1, LeaseStageMoves DEF Leases!GiveBack, Leases!Move
  <2> QED
    BY <2>2
<1>4. CASE Interactive(w) /\ (Unreserve(w) \/ ReleaseLease(w))
  <2>1. LeaseStageOf(w) \in {"launching", "running"} /\ LeaseStageOf(w)' = "out"
    BY <1>4 DEF TypeOK, Unreserve, ReleaseLease
  <2>2. Leases!Leave(w)
    BY <1>1, <1>2, <2>1, LeaseStageMoves DEF Leases!Leave, Leases!Move
  <2> QED
    BY <2>2
<1>5. CASE ~Interactive(w)
  <2>1. LeaseStageOf(w) = "out" /\ LeaseStageOf(w)' = "out"
    BY <1>5 DEF TypeOK, FailedLaunchGone, Unreserve, ReleaseLease
  <2>2. LeaseStage' = LeaseStage
    BY <1>1, <2>1 DEF LeaseStage
  <2>3. w \notin Leases!Held
    BY <2>1 DEF Leases!Held, LeaseStage
  <2>4. CASE HasLease' = HasLease
    BY <2>2, <2>4 DEF Leases!leaseVars
  <2>5. CASE HasLease' = HasLease \ {w}
    <3>1. Leases!Turn(w)
      BY <2>2, <2>3, <2>5 DEF Leases!Turn
    <3> QED
      BY <3>1
  <2> QED
    BY <1>2, <2>4, <2>5
<1> QED
  BY <1>3, <1>4, <1>5

\* The session core builds on leases as DesktopLease is proved to provide them: one launch at
\* a time asks for one, and an interactive program's tree exists, to its last process, only in
\* the stages in which the contract keeps the desktop open to it.
THEOREM BrokerKeepsLeaseContract == Spec => KeepsLeases
<1>1. Init => Leases!LeaseInit
  <2> SUFFICES ASSUME Init PROVE Leases!LeaseInit
    OBVIOUS
  <2>1. \A w \in Workers : LeaseStageOf(w) = "out"
    BY DEF Init, LeaseStageOf, LeaseStageAt
  <2>2. HasLease = {}
    BY DEF Init, HasLease
  <2> QED
    BY <2>1, <2>2 DEF Leases!LeaseInit, LeaseStage
<1>2. ASSUME SessionInvariant, [Next]_vars PROVE LeaseContractStep
  <2>1. TypeOK
    BY <1>2 DEF SessionInvariant
  <2>2. CASE LeasesKept
    <3>1. LeaseStage' = LeaseStage /\ HasLease' = HasLease
      BY <2>2 DEF LeasesKept, LeaseStage, HasLease
    <3> QED
      BY <3>1 DEF LeaseContractStep, Leases!leaseVars
  <2> QED
    BY <1>2, <2>1, <2>2, LeaseChanges, BeginLeaseStep, GrantLeaseStep, StartLeaseStep,
       EndLeaseStep
       DEF LeaseChange
<1>3. SessionInvariant /\ [Next]_vars => [Leases!LeaseNext]_(Leases!leaseVars)
  BY <1>2 DEF LeaseContractStep
<1>4. SessionInvariant => \A w \in Workers : TreeAlive(w) /\ Interactive(w) => w \in Leases!Held
  <2> SUFFICES ASSUME SessionInvariant, NEW w \in Workers, TreeAlive(w), Interactive(w)
               PROVE  w \in Leases!Held
    OBVIOUS
  <2>1. pc[w] \in {"verify", "resume", "failLaunch", "failResume", "reply", "serve", "teardown",
                   "wait", "confirm"}
    BY DEF SessionInvariant, TreeFollowsStep, TreeAlive
  <2> QED
    BY <2>1 DEF Leases!Held, LeaseStage, LeaseStageOf, LeaseStageAt
<1>5. QED
  BY <1>1, <1>3, <1>4, InvariantHolds, PTL DEF Spec, KeepsLeases, Leases!LeaseSpec
=============================================================================
