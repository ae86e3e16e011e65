--------------------------- MODULE ReadScopeProofs ---------------------------
(***************************************************************************)
(* Proofs about ReadScope, for any tree of directories: its invariant, and *)
(* from it confinement, open roots and complete restoration.               *)
(***************************************************************************)
EXTENDS ReadScope, TLAPS

-----------------------------------------------------------------------------
(* Paths.                                                                  *)

\* The assumptions on Up, one by one.
LEMMA Paths ==
    /\ \A d \in Dirs : Up[d] \in SUBSET Dirs /\ d \in Up[d]
    /\ \A d \in Dirs : \A e \in Up[d] : Up[e] \subseteq Up[d]
    /\ \A d \in Dirs : \A e \in Up[d] : d \in Up[e] => d = e
    /\ \A d \in Dirs : \A e, f \in Up[d] : e \in Up[f] \/ f \in Up[e]
  BY ScopeConstants

\* Directories of one path have a topmost one.
LEMMA Topmost ==
    ASSUME NEW d \in Dirs, NEW some \in SUBSET Up[d], some # {}
    PROVE  \E top \in some : \A e \in some : top \in Up[e]
  BY ScopeConstants

\* The way down from a directory to one below it begins with a child.
LEMMA ChildOnPath ==
    ASSUME NEW d \in Dirs, NEW e \in Above(d)
    PROVE  \E c \in Up[d] : Child(e, c)
<1> DEFINE below == {x \in Up[d] : e \in Above(x)}
<1>1. d \in below
  BY Paths DEF Above
<1>2. PICK c \in below : \A x \in below : c \in Up[x]
  <2>1. below \in SUBSET Up[d] /\ below # {}
    BY <1>1
  <2> QED
    BY <2>1, Topmost
<1> HIDE DEF below
<1>3. c \in Up[d] /\ c \in Dirs /\ e \in Above(c)
  BY <1>2, Paths DEF below
<1>4. ASSUME NEW f \in Above(c)
      PROVE  f \in Up[e]
  <2>1. f \in Up[c] /\ e \in Up[c] /\ f # c /\ f \in Dirs /\ f \in Up[d]
    BY <1>3, Paths DEF Above
  <2>2. CASE e \in Up[f] /\ e # f
    <3>1. f \in below
      BY <2>1, <2>2 DEF below, Above
    <3>2. c \in Up[f]
      BY <3>1, <1>2
    <3> QED
      BY <3>2, <2>1, <1>3, Paths
  <2>3. CASE e = f
    BY <2>1, <2>3, Paths
  <2> QED
    BY <2>1, <2>2, <2>3, <1>3, Paths
<1> QED
  BY <1>3, <1>4 DEF Child

\* The broadest roots cover whatever the roots covered, and none is inside another.
LEMMA BroadestCovers ==
    ASSUME NEW roots \in SUBSET Dirs
    PROVE  /\ Broadest(roots) \subseteq roots
           /\ \A q, r \in Broadest(roots) : q \in Up[r] => q = r
           /\ \A d \in Dirs : (\E r \in roots : r \in Up[d])
                                 => \E r \in Broadest(roots) : r \in Up[d]
<1>1. ASSUME NEW d \in Dirs, NEW r \in roots, r \in Up[d]
      PROVE  \E q \in Broadest(roots) : q \in Up[d]
  <2> DEFINE some == Up[d] \cap roots
  <2>1. PICK top \in some : \A e \in some : top \in Up[e]
    <3>1. some \in SUBSET Up[d] /\ some # {}
      BY <1>1
    <3> QED
      BY <3>1, Topmost
  <2>2. ASSUME NEW q \in roots, q \in Up[top]
        PROVE  q = top
    <3>1. q \in some
      BY <2>1, <2>2, Paths
    <3> QED
      BY <3>1, <2>1, <2>2, Paths
  <2> QED
    BY <2>1, <2>2 DEF Broadest
<1> QED
  BY <1>1 DEF Broadest

-----------------------------------------------------------------------------
(* One object's ACL.                                                       *)

\* SetAccess keeps the ledger exact and touches one object only.
LEMMA SetAccessIsLocal ==
    ASSUME TypeOK, LedgerIsExact, NEW o \in Objects,
           NEW mask \in {"none", "full", "ancestor", "space"}, NEW root \in BOOLEAN,
           SetAccess(o, mask, root)
    PROVE  /\ dacl' \in [Objects -> SUBSET Aces] /\ added' \in [Objects -> SUBSET Aces]
           /\ \A x \in Objects \ {o} : dacl'[x] = dacl[x] /\ added'[x] = added[x]
           /\ dacl'[o] = First[o] \cup added'[o]
           /\ First[o] \cap added'[o] = {}
           /\ added'[o] \subseteq Wanted(o, mask, root)
           /\ Wanted(o, mask, root) \subseteq dacl'[o]
<1> DEFINE kept == dacl[o] \ added[o]
           wanted == Wanted(o, mask, root)
<1>1. kept = First[o] /\ kept \in SUBSET Aces
  BY DEF LedgerIsExact, TypeOK
<1>2. wanted \in SUBSET Aces
  BY DEF Wanted, Aces
<1>3. dacl' = [dacl EXCEPT ![o] = kept \cup wanted] /\ added' = [added EXCEPT ![o] = wanted \ kept]
  BY DEF SetAccess
<1> HIDE DEF kept, wanted
<1>4. dacl \in [Objects -> SUBSET Aces] /\ added \in [Objects -> SUBSET Aces]
  BY DEF TypeOK
<1> QED
  BY <1>1, <1>2, <1>3, <1>4 DEF wanted

\* Restoration takes away the scope's own ACEs and no others, and leaves the ledger exact.
LEMMA RestoreIsExact ==
    ASSUME TypeOK, LedgerIsExact, NEW stuck \in SUBSET MayStick, RestoreExcept(stuck)
    PROVE  /\ dacl' \in [Objects -> SUBSET Aces] /\ added' \in [Objects -> SUBSET Aces]
           /\ \A o \in Objects :
                 \/ dacl'[o] = First[o] /\ added'[o] = {}
                 \/ o \in stuck /\ dacl'[o] = dacl[o] /\ added'[o] = added[o]
           /\ \/ /\ stuck = {}
                 /\ entries' = {} /\ held' = {} /\ allowed' = {} /\ volumes' = {} /\ served' = {}
              \/ UNCHANGED <<entries, held, allowed, volumes, served>>
<1>1. \A o \in Objects : dacl[o] \ added[o] = First[o] /\ dacl[o] \in SUBSET Aces
                         /\ added[o] \in SUBSET Aces
  BY DEF LedgerIsExact, TypeOK
<1>2. dacl' = [o \in Objects |-> IF o \in stuck THEN dacl[o] ELSE dacl[o] \ added[o]]
  BY DEF RestoreExcept
<1>3. added' = [o \in Objects |-> IF o \in stuck THEN added[o] ELSE {}]
  BY DEF RestoreExcept
<1>4. \/ /\ stuck = {}
         /\ entries' = {} /\ held' = {} /\ allowed' = {} /\ volumes' = {} /\ served' = {}
      \/ UNCHANGED <<entries, held, allowed, volumes, served>>
  BY DEF RestoreExcept
<1> QED
  BY <1>1, <1>2, <1>3, <1>4

-----------------------------------------------------------------------------
(* What a step does to the scope.                                          *)

\* The five steps that write one object's ACL.
Writes(o, mask, root) ==
    \/ o \in Dirs /\ mask = "none" /\ root = TRUE /\ (VisitReadable(o) \/ Sweep(o))
    \/ o \in Dirs /\ mask = "full" /\ root = FALSE /\ VisitDenied(o)
    \/ o \in Dirs /\ mask = "ancestor" /\ root = FALSE /\ LeaveAncestor(o)
    \/ mask = "space" /\ root = FALSE /\ GrantSpace(o)

\* Steps that leave all ACLs and the ledger's claims alone.
Keeps ==
    \/ \E s \in Sessions : \E work \in WorkDirs : Begin(s, work)
    \/ \E d \in Dirs : VisitAncestor(d) \/ FinishVolume(d) \/ SkipEmptyDrive(d)
    \/ \E o \in Objects : EntryFails(o)
    \/ VolumesDone \/ Complete \/ Fail
    \/ UNCHANGED vars

\* Admission and release, which restore the scope unless another session is active.
Restores ==
    \/ \E s \in Sessions : Admit(s) \/ Release(s)
    \/ Refuse

\* Every step is one of these.
LEMMA StepKinds ==
    ASSUME [Next]_vars
    PROVE  \/ \E o \in Objects, mask \in {"none", "full", "ancestor", "space"}, root \in BOOLEAN :
                 Writes(o, mask, root)
           \/ Keeps
           \/ Restores
<1>1. ASSUME NEW d \in Dirs, VisitReadable(d) \/ Sweep(d) \/ VisitDenied(d) \/ LeaveAncestor(d)
      PROVE  \E o \in Objects, mask \in {"none", "full", "ancestor", "space"}, root \in BOOLEAN :
                Writes(o, mask, root)
  <2>1. d \in Objects
    BY DEF Objects
  <2>2. CASE VisitReadable(d) \/ Sweep(d)
    <3>1. Writes(d, "none", TRUE)
      BY <2>2 DEF Writes
    <3> QED
      BY <3>1, <2>1
  <2>3. CASE VisitDenied(d)
    <3>1. Writes(d, "full", FALSE)
      BY <2>3 DEF Writes
    <3> QED
      BY <3>1, <2>1
  <2>4. CASE LeaveAncestor(d)
    <3>1. Writes(d, "ancestor", FALSE)
      BY <2>4 DEF Writes
    <3> QED
      BY <3>1, <2>1
  <2> QED
    BY <1>1, <2>2, <2>3, <2>4
<1>2. ASSUME NEW o \in Objects, GrantSpace(o)
      PROVE  \E x \in Objects, mask \in {"none", "full", "ancestor", "space"}, root \in BOOLEAN :
                Writes(x, mask, root)
  <2>1. Writes(o, "space", FALSE)
    BY <1>2 DEF Writes
  <2> QED
    BY <2>1
<1>3. CASE Next
  BY <1>1, <1>2, <1>3 DEF Next, Visit, Keeps, Restores
<1> QED
  BY <1>3 DEF Keeps

\* What a write does to the ACLs and to the rest of the scope.
LEMMA WriteSteps ==
    ASSUME TypeOK, NEW o \in Objects, NEW mask, NEW root,
           Writes(o, mask, root)
    PROVE  /\ SetAccess(o, mask, root)
           /\ UNCHANGED <<allowed, volumes, session, step, todo, served>>
           /\ \/ o \in held /\ held' = held
              \/ held' = held \cup {o}
              \/ held' = held \ {o} /\ added'[o] = {}
              \/ UNCHANGED held /\ LeaveAncestor(o)
<1>1. CASE VisitReadable(o) /\ mask = "none" /\ root = TRUE
  BY <1>1 DEF VisitReadable, Enter
<1>2. CASE Sweep(o) /\ mask = "none" /\ root = TRUE
  BY <1>2 DEF Sweep
<1>3. CASE VisitDenied(o) /\ mask = "full" /\ root = FALSE
  BY <1>3 DEF VisitDenied, Enter
<1>4. CASE LeaveAncestor(o) /\ mask = "ancestor" /\ root = FALSE
  BY <1>4 DEF LeaveAncestor
<1>5. CASE GrantSpace(o) /\ mask = "space" /\ root = FALSE
  BY <1>5 DEF GrantSpace, Enter
<1> QED
  BY <1>1, <1>2, <1>3, <1>4, <1>5 DEF Writes

\* The scope's shape.
LEMMA TypeStep == TypeOK /\ LedgerIsExact /\ [Next]_vars => TypeOK'
<1> SUFFICES ASSUME TypeOK, LedgerIsExact, [Next]_vars
             PROVE  TypeOK'
  OBVIOUS
<1>1. ASSUME NEW o \in Objects, NEW mask \in {"none", "full", "ancestor", "space"},
             NEW root \in BOOLEAN, Writes(o, mask, root)
      PROVE  TypeOK'
  <2>1. SetAccess(o, mask, root)
    BY <1>1, WriteSteps
  <2>2. dacl' \in [Objects -> SUBSET Aces] /\ added' \in [Objects -> SUBSET Aces]
    BY <2>1, SetAccessIsLocal
  <2>3. CASE o \in Dirs /\ (VisitReadable(o) \/ VisitDenied(o))
    <3>1. /\ entries' = entries \cup {o} /\ held' = held \cup {o} /\ done' = done \cup {o}
          /\ UNCHANGED <<allowed, volumes, session, step, todo, open, spaces, served>>
          /\ sweep' = sweep \/ sweep' = {e \in entries \cap Dirs : o \in Above(e)}
      BY <2>3 DEF VisitReadable, VisitDenied, Enter
    <3> QED
      BY <2>2, <2>3, <3>1 DEF TypeOK
  <2>4. CASE Sweep(o)
    BY <2>2, <2>4 DEF Sweep, TypeOK
  <2>5. CASE LeaveAncestor(o)
    BY <2>2, <2>5 DEF LeaveAncestor, Innermost, TypeOK
  <2>6. CASE GrantSpace(o)
    BY <2>2, <2>6 DEF GrantSpace, Enter, TypeOK
  <2> QED
    BY <1>1, <2>3, <2>4, <2>5, <2>6 DEF Writes
<1>2. CASE Keeps
  <2>1. ASSUME NEW s \in Sessions, NEW work \in WorkDirs, Begin(s, work)
        PROVE  TypeOK'
    <3>1. allowed \cup Readable \cup {work} \in SUBSET Dirs
      BY ScopeConstants DEF TypeOK
    <3>2. allowed' \in SUBSET Dirs
      BY <2>1, <3>1, BroadestCovers DEF Begin
    <3> QED
      BY <2>1, <3>2 DEF Begin, scopeVars, TypeOK
  <2>2. ASSUME NEW d \in Dirs, VisitAncestor(d) \/ FinishVolume(d) \/ SkipEmptyDrive(d)
        PROVE  TypeOK'
    BY <2>2
       DEF VisitAncestor, FinishVolume, SkipEmptyDrive, Enter, Due, scopeVars, Objects, TypeOK
  <2>3. ASSUME NEW o \in Objects, EntryFails(o)
        PROVE  TypeOK'
    BY <2>3 DEF EntryFails, Abandon, Enter, TypeOK
  <2>4. CASE VolumesDone
    BY <2>4 DEF VolumesDone, scopeVars, walkVars, TypeOK
  <2>5. CASE Complete
    BY <2>5 DEF Complete, scopeVars, TypeOK
  <2>6. CASE Fail
    BY <2>6 DEF Fail, Abandon, TypeOK
  <2>7. CASE UNCHANGED vars
    BY <2>7 DEF vars, TypeOK
  <2> QED
    BY <1>2, <2>1, <2>2, <2>3, <2>4, <2>5, <2>6, <2>7 DEF Keeps
<1>3. CASE Restores
  <2>1. ASSUME NEW stuck \in SUBSET MayStick, RestoreExcept(stuck),
               UNCHANGED <<step, walkVars>>,
               session' \in [Sessions -> {"out", "admitted", "ensuring", "running", "leaving"}]
        PROVE  TypeOK'
    <3>1. /\ dacl' \in [Objects -> SUBSET Aces] /\ added' \in [Objects -> SUBSET Aces]
          /\ \/ /\ entries' = {} /\ held' = {} /\ allowed' = {} /\ volumes' = {} /\ served' = {}
             \/ UNCHANGED <<entries, held, allowed, volumes, served>>
      BY <2>1, RestoreIsExact
    <3> QED
      BY <3>1, <2>1 DEF walkVars, TypeOK
  <2>2. ASSUME NEW s \in Sessions, Admit(s) \/ Release(s)
        PROVE  TypeOK'
    <3>1. session' \in [Sessions -> {"out", "admitted", "ensuring", "running", "leaving"}]
      BY <2>2 DEF Admit, Release, TypeOK
    <3>2. UNCHANGED <<step, walkVars>>
      BY <2>2 DEF Admit, Release
    <3>3. CASE UNCHANGED <<scopeVars, allowed, volumes, served>>
      BY <3>1, <3>2, <3>3 DEF scopeVars, walkVars, TypeOK
    <3>4. CASE \E stuck \in SUBSET MayStick : RestoreExcept(stuck)
      BY <3>1, <3>2, <3>4, <2>1
    <3>5. {} \in SUBSET MayStick
      OBVIOUS
    <3> QED
      BY <2>2, <3>3, <3>4, <3>5 DEF Admit, Release
  <2>3. CASE Refuse
    <3>1. PICK stuck \in SUBSET MayStick : RestoreExcept(stuck)
      BY <2>3 DEF Refuse
    <3> QED
      BY <3>1, <2>1, <2>3 DEF Refuse, TypeOK
  <2> QED
    BY <1>3, <2>2, <2>3 DEF Restores
<1> QED
  BY <1>1, <1>2, <1>3, StepKinds

\* What admission and release do: nothing to the scope, or a restoration with no walk on.
LEMMA RestoreSteps ==
    ASSUME Restores
    PROVE  /\ UNCHANGED <<step, walkVars>>
           /\ \/ UNCHANGED <<scopeVars, allowed, volumes, served>>
              \/ \E stuck \in SUBSET MayStick : RestoreExcept(stuck)
<1>1. {} \in SUBSET MayStick
  OBVIOUS
<1> QED
  BY <1>1 DEF Restores, Admit, Release, Refuse

\* The other steps leave all ACLs and keep every handle.
LEMMA KeepSteps ==
    ASSUME Keeps
    PROVE  UNCHANGED <<dacl, added>> /\ held \subseteq held'
  BY
     DEF Keeps, Begin, VisitAncestor, FinishVolume, SkipEmptyDrive, EntryFails, VolumesDone,
         Complete, Fail, Abandon, Enter, scopeVars, vars

\* The ledger stays exact.
LEMMA LedgerStep == TypeOK /\ LedgerIsExact /\ WalkFollowsStep /\ [Next]_vars => LedgerIsExact'
<1> SUFFICES ASSUME TypeOK, LedgerIsExact, WalkFollowsStep, [Next]_vars
             PROVE  LedgerIsExact'
  OBVIOUS
<1>1. ASSUME NEW o \in Objects, NEW mask \in {"none", "full", "ancestor", "space"},
             NEW root \in BOOLEAN, Writes(o, mask, root)
      PROVE  LedgerIsExact'
  <2>1. SetAccess(o, mask, root)
    BY <1>1, WriteSteps
  <2>2. \/ o \in held /\ held' = held
        \/ held' = held \cup {o}
        \/ held' = held \ {o} /\ added'[o] = {}
    <3>1. LeaveAncestor(o) => o \in held
      BY DEF LeaveAncestor, Innermost, WalkFollowsStep
    <3> QED
      BY <1>1, <3>1, WriteSteps
  <2>3. /\ \A x \in Objects \ {o} : dacl'[x] = dacl[x] /\ added'[x] = added[x]
        /\ dacl'[o] = First[o] \cup added'[o]
        /\ First[o] \cap added'[o] = {}
    BY <2>1, SetAccessIsLocal
  <2> QED
    BY <2>2, <2>3 DEF LedgerIsExact
<1>2. CASE Keeps
  BY <1>2, KeepSteps DEF LedgerIsExact
<1>3. CASE Restores
  <2>1. CASE UNCHANGED <<scopeVars, allowed, volumes, served>>
    BY <2>1 DEF scopeVars, LedgerIsExact
  <2>2. ASSUME NEW stuck \in SUBSET MayStick, RestoreExcept(stuck)
        PROVE  LedgerIsExact'
    <3>1. /\ \A o \in Objects :
                 \/ dacl'[o] = First[o] /\ added'[o] = {}
                 \/ o \in stuck /\ dacl'[o] = dacl[o] /\ added'[o] = added[o]
          /\ stuck = {} \/ held' = held
      BY <2>2, RestoreIsExact
    <3> QED
      BY <3>1 DEF LedgerIsExact
  <2> QED
    BY <1>3, <2>1, <2>2, RestoreSteps
<1> QED
  BY <1>1, <1>2, <1>3, StepKinds

-----------------------------------------------------------------------------
(* The walk.                                                               *)

\* Readable roots stay the broadest ones, and cover what was served.
LEMMA RootsStep == TypeOK /\ RootsAreBroadest /\ [Next]_vars => RootsAreBroadest'
<1> SUFFICES ASSUME TypeOK, RootsAreBroadest, [Next]_vars
             PROVE  RootsAreBroadest'
  OBVIOUS
<1>1. CASE UNCHANGED <<allowed, served>>
  BY <1>1 DEF RootsAreBroadest, Within
<1>2. CASE allowed' = {} /\ served' = {}
  BY <1>2 DEF RootsAreBroadest
<1>3. ASSUME NEW s \in Sessions, NEW work \in WorkDirs, Begin(s, work)
      PROVE  RootsAreBroadest'
  <2> DEFINE roots == allowed \cup Readable \cup {work}
  <2>1. roots \in SUBSET Dirs /\ allowed \subseteq roots
    BY ScopeConstants DEF TypeOK
  <2>2. allowed' = Broadest(roots) /\ served' = served
    BY <1>3 DEF Begin
  <2> HIDE DEF roots
  <2>3. \A q, r \in allowed' : q \in Up[r] => q = r
    BY <2>1, <2>2, BroadestCovers
  <2>4. ASSUME NEW r \in served
        PROVE  \E q \in allowed' : q \in Up[r]
    <3>1. r \in Dirs /\ \E q \in roots : q \in Up[r]
      BY <2>1 DEF RootsAreBroadest, Within, TypeOK
    <3> QED
      BY <3>1, <2>1, <2>2, BroadestCovers
  <2> QED
    BY <2>2, <2>3, <2>4 DEF RootsAreBroadest, Within
<1>4. CASE Complete
  <2>1. allowed' = allowed /\ served' \subseteq served \cup allowed
    BY <1>4 DEF Complete
  <2>2. \A r \in allowed : r \in Up[r]
    BY Paths DEF TypeOK
  <2> QED
    BY <2>1, <2>2 DEF RootsAreBroadest, Within
<1>5. CASE Restores
  <2>1. \A stuck \in SUBSET MayStick :
           RestoreExcept(stuck) => \/ UNCHANGED <<allowed, served>>
                                   \/ allowed' = {} /\ served' = {}
    BY DEF RestoreExcept
  <2> QED
    BY <1>1, <1>2, <1>5, <2>1, RestoreSteps
<1>6. ASSUME NEW o \in Objects, NEW mask \in {"none", "full", "ancestor", "space"},
             NEW root \in BOOLEAN, Writes(o, mask, root)
      PROVE  UNCHANGED <<allowed, served>>
  BY <1>6, WriteSteps
<1>7. CASE Keeps
  <2>1. CASE \E d \in Dirs : VisitAncestor(d) \/ FinishVolume(d) \/ SkipEmptyDrive(d)
    BY <2>1, <1>1 DEF VisitAncestor, FinishVolume, SkipEmptyDrive
  <2>2. CASE (\E o \in Objects : EntryFails(o)) \/ Fail
    BY <2>2, <1>1 DEF EntryFails, Fail, Abandon
  <2>3. CASE VolumesDone \/ UNCHANGED vars
    BY <2>3, <1>1 DEF VolumesDone, vars
  <2> QED
    BY <1>7, <1>3, <1>4, <2>1, <2>2, <2>3 DEF Keeps
<1> QED
  BY <1>1, <1>5, <1>6, <1>7, StepKinds

\* A restoration happens outside any walk.
LEMMA RestoresWhenIdle ==
    ASSUME TypeOK, WalkFollowsStep, Restores
    PROVE  \/ UNCHANGED <<scopeVars, allowed, volumes, served>> /\ Active # {}
           \/ /\ step = "idle" /\ ~Running'
              /\ \E stuck \in SUBSET MayStick :
                    RestoreExcept(stuck) /\ (stuck = {} \/ Active' = {})
<1>1. ASSUME NEW s \in Sessions, Admit(s), Active = {}
      PROVE  step = "idle" /\ ~Running' /\ RestoreExcept({})
  BY <1>1 DEF Admit, Active, Running, WalkFollowsStep, TypeOK
<1>2. ASSUME Refuse
      PROVE  /\ step = "idle" /\ ~Running' /\ Active' = {}
             /\ \E stuck \in SUBSET MayStick : RestoreExcept(stuck)
  BY <1>2 DEF Refuse, Active, Running, WalkFollowsStep
<1>3. ASSUME NEW s \in Sessions, Release(s), Active = {s}
      PROVE  step = "idle" /\ ~Running' /\ Active' = {}
  <2>1. session[s] # "ensuring" /\ session' = [session EXCEPT ![s] = "out"]
    BY <1>3 DEF Release
  <2>2. \A t \in Sessions : t # s => session[t] = "out"
    BY <1>3 DEF Active
  <2> QED
    BY <2>1, <2>2 DEF Active, Running, WalkFollowsStep, TypeOK
<1>4. {} \in SUBSET MayStick
  OBVIOUS
<1>5. ASSUME NEW s \in Sessions, Release(s)
      PROVE  \/ UNCHANGED <<scopeVars, allowed, volumes, served>> /\ Active # {}
             \/ Active = {s} /\ \E stuck \in SUBSET MayStick : RestoreExcept(stuck)
  BY <1>5 DEF Release, Active
<1>6. ASSUME NEW s \in Sessions, Admit(s), Active # {}
      PROVE  UNCHANGED <<scopeVars, allowed, volumes, served>>
  BY <1>6 DEF Admit
<1> QED
  BY <1>1, <1>2, <1>3, <1>4, <1>5, <1>6 DEF Restores

\* The walk's own state follows its step.
LEMMA WalkStep ==
    TypeOK /\ RootsAreBroadest /\ WalkFollowsStep /\ [Next]_vars => WalkFollowsStep'
<1> SUFFICES ASSUME TypeOK, RootsAreBroadest, WalkFollowsStep, [Next]_vars
             PROVE  WalkFollowsStep'
  OBVIOUS
<1>1. ASSUME NEW d \in Dirs, VisitReadable(d)
      PROVE  WalkFollowsStep'
  <2>1. step = "walk" /\ todo # {} /\ d \notin open
    <3>1. step = "walk" /\ (d \in todo \/ open # {})
      BY <1>1, ScopeConstants DEF VisitReadable, Enter, Due, Innermost, TypeOK
    <3>2. Within(d)
      BY <1>1 DEF VisitReadable
    <3> QED
      BY <3>1, <3>2 DEF WalkFollowsStep
  <2>2. /\ done' = done \cup {d} /\ held' = held \cup {d} /\ Within(d)
        /\ sweep' = {e \in entries \cap Dirs : d \in Above(e)}
        /\ UNCHANGED <<allowed, volumes, session, step, todo, open, spaces, served>>
    BY <1>1 DEF VisitReadable, Enter
  <2>3. \A e \in sweep' : Within(e)
    BY <2>2, Paths DEF Within, Above
  <2> QED
    BY <2>1, <2>2, <2>3 DEF WalkFollowsStep, Within, AncestorOf
<1>2. ASSUME NEW e \in Dirs, Sweep(e)
      PROVE  WalkFollowsStep'
  <2>1. /\ e \in sweep /\ sweep' = sweep \ {e} /\ held \ {e} \subseteq held'
        /\ UNCHANGED <<allowed, volumes, session, step, todo, open, done, spaces, served>>
    BY <1>2 DEF Sweep
  <2>2. e \notin open
    BY <2>1 DEF WalkFollowsStep
  <2> QED
    BY <2>1, <2>2 DEF WalkFollowsStep, Within, AncestorOf
<1>3. ASSUME NEW d \in Dirs, VisitDenied(d)
      PROVE  WalkFollowsStep'
  <2>1. step = "walk"
    BY <1>3, ScopeConstants DEF VisitDenied, Enter, Due, TypeOK
  <2>2. /\ done' = done \cup {d} /\ held' = held \cup {d} /\ ~AncestorOf(d)
        /\ UNCHANGED <<allowed, volumes, session, step, todo, open, sweep, spaces, served>>
    BY <1>3 DEF VisitDenied, Enter
  <2> QED
    BY <2>1, <2>2 DEF WalkFollowsStep, Within, AncestorOf
<1>4. ASSUME NEW d \in Dirs, LeaveAncestor(d)
      PROVE  WalkFollowsStep'
  <2>1. /\ step = "walk" /\ d \in open /\ done' = done \cup {d} /\ open' = open \ {d}
        /\ \A e \in open : e \in Up[d]
        /\ UNCHANGED <<held, allowed, volumes, session, step, todo, sweep, spaces, served>>
    BY <1>4 DEF LeaveAncestor, Innermost
  <2>2. \A e \in open' : d \notin Above(e)
    BY <2>1, Paths DEF Above, TypeOK
  <2> QED
    BY <2>1, <2>2 DEF WalkFollowsStep, Within, AncestorOf
<1>5. ASSUME NEW d \in Dirs, VisitAncestor(d)
      PROVE  WalkFollowsStep'
  <2>1. /\ step = "walk" /\ d \notin done
        /\ \/ open = {} /\ d \in todo
           \/ \E e \in open : Child(e, d)
    BY <1>5, ScopeConstants DEF VisitAncestor, Enter, Due, Innermost, TypeOK
  <2>2. /\ open' = open \cup {d} /\ held' = held \cup {d} /\ ~Within(d) /\ AncestorOf(d)
        /\ UNCHANGED <<allowed, volumes, session, step, todo, done, sweep, spaces, served>>
    BY <1>5 DEF VisitAncestor, Enter
  <2>3. Above(d) \subseteq open
    <3>1. CASE open = {} /\ d \in todo
      BY <3>1 DEF Above, Roots, TypeOK
    <3>2. ASSUME NEW e \in open, Child(e, d)
          PROVE  Above(d) \subseteq open
      BY <3>2 DEF Child, Above, WalkFollowsStep
    <3> QED
      BY <2>1, <3>1, <3>2
  <2> QED
    BY <2>1, <2>2, <2>3 DEF WalkFollowsStep, Within, AncestorOf
<1>6. ASSUME NEW p \in Objects, GrantSpace(p)
      PROVE  WalkFollowsStep'
  <2>1. step = "spaces" /\ p \in Spaces
    BY <1>6, ScopeConstants DEF GrantSpace, Enter, Due, TypeOK
  <2>2. /\ spaces' = spaces \ {p} /\ held' = held \cup {p}
        /\ UNCHANGED <<allowed, volumes, session, step, todo, open, done, sweep, served>>
    BY <1>6 DEF GrantSpace, Enter
  <2> QED
    BY <2>1, <2>2 DEF WalkFollowsStep, Within, AncestorOf
<1>7. ASSUME NEW s \in Sessions, NEW work \in WorkDirs, Begin(s, work)
      PROVE  WalkFollowsStep'
  BY <1>7 DEF Begin, WalkFollowsStep, TypeOK
<1>8. ASSUME Abandon
      PROVE  WalkFollowsStep'
  BY <1>8 DEF Abandon, WalkFollowsStep, TypeOK
<1>9. ASSUME NEW r \in Dirs, FinishVolume(r) \/ SkipEmptyDrive(r)
      PROVE  WalkFollowsStep'
  BY <1>9 DEF FinishVolume, SkipEmptyDrive, scopeVars, WalkFollowsStep, Within, AncestorOf
<1>10. CASE VolumesDone
  BY <1>10 DEF VolumesDone, scopeVars, walkVars, WalkFollowsStep, Within, AncestorOf
<1>11. CASE Complete
  BY <1>11 DEF Complete, scopeVars, WalkFollowsStep, TypeOK
<1>12. CASE UNCHANGED vars
  BY <1>12 DEF vars, WalkFollowsStep, Within, AncestorOf
<1>13. CASE Restores
  <2>1. UNCHANGED <<step, walkVars>>
    BY <1>13, RestoreSteps
  <2>2. \A t \in Sessions : session'[t] = "ensuring" <=> session[t] = "ensuring"
    BY <1>13 DEF Restores, Admit, Release, Refuse, TypeOK
  <2>3. CASE UNCHANGED <<scopeVars, allowed, volumes, served>>
    BY <2>1, <2>2, <2>3 DEF scopeVars, walkVars, WalkFollowsStep, Within, AncestorOf
  <2>4. CASE step = "idle"
    BY <2>1, <2>2, <2>4 DEF walkVars, WalkFollowsStep
  <2> QED
    BY <1>13, <2>3, <2>4, RestoresWhenIdle
<1>14. ASSUME NEW o \in Objects, NEW mask \in {"none", "full", "ancestor", "space"},
              NEW root \in BOOLEAN, Writes(o, mask, root)
       PROVE  WalkFollowsStep'
  BY <1>1, <1>2, <1>3, <1>4, <1>6, <1>14 DEF Writes
<1>15. CASE Keeps
  BY <1>5, <1>7, <1>8, <1>9, <1>10, <1>11, <1>12, <1>15 DEF Keeps, EntryFails, Fail
<1> QED
  BY <1>13, <1>14, <1>15, StepKinds

\* One session at a time prepares, and its walk passes over no fixed drive.
LEMMA DrivesStep ==
    TypeOK /\ WalkFollowsStep /\ OneWalkOverAllDrives /\ [Next]_vars => OneWalkOverAllDrives'
<1> SUFFICES ASSUME TypeOK, WalkFollowsStep, OneWalkOverAllDrives, [Next]_vars
             PROVE  OneWalkOverAllDrives'
  OBVIOUS
<1>1. ASSUME NEW o \in Objects, NEW mask \in {"none", "full", "ancestor", "space"},
             NEW root \in BOOLEAN, Writes(o, mask, root)
      PROVE  OneWalkOverAllDrives'
  BY <1>1, WriteSteps DEF OneWalkOverAllDrives
<1>2. CASE Keeps
  <2>1. ASSUME NEW s \in Sessions, NEW work \in WorkDirs, Begin(s, work)
        PROVE  OneWalkOverAllDrives'
    BY <2>1 DEF Begin, scopeVars, TypeOK, WalkFollowsStep, OneWalkOverAllDrives
  <2>2. ASSUME NEW d \in Dirs, VisitAncestor(d) \/ FinishVolume(d) \/ SkipEmptyDrive(d)
        PROVE  OneWalkOverAllDrives'
    BY <2>2 DEF VisitAncestor, FinishVolume, SkipEmptyDrive, OneWalkOverAllDrives
  <2>3. CASE Abandon \/ Complete
    BY <2>3 DEF Abandon, Complete, OneWalkOverAllDrives
  <2>4. CASE VolumesDone \/ UNCHANGED vars
    BY <2>4 DEF VolumesDone, vars, walkVars, OneWalkOverAllDrives
  <2> QED
    BY <1>2, <2>1, <2>2, <2>3, <2>4 DEF Keeps, EntryFails, Fail
<1>3. CASE Restores
  <2>1. UNCHANGED <<step, todo>>
    BY <1>3, RestoreSteps DEF walkVars
  <2>2. \A t \in Sessions : session'[t] = "ensuring" => session[t] = "ensuring"
    BY <1>3 DEF Restores, Admit, Release, Refuse, TypeOK
  <2>3. step = "idle" \/ UNCHANGED volumes
    BY <1>3, RestoresWhenIdle
  <2> QED
    BY <2>1, <2>2, <2>3 DEF OneWalkOverAllDrives
<1> QED
  BY <1>1, <1>2, <1>3, StepKinds

-----------------------------------------------------------------------------
(* Confinement.                                                            *)

\* What the written object carries afterwards.
LEMMA Written ==
    ASSUME TypeOK, LedgerIsExact, NEW o \in Objects,
           NEW mask \in {"none", "full", "ancestor", "space"}, NEW root \in BOOLEAN,
           SetAccess(o, mask, root)
    PROVE  /\ \A x \in Objects \ {o} : dacl'[x] = dacl[x] /\ added'[x] = added[x]
           /\ mask \in {"full", "space"} => mask \in dacl'[o]
           /\ mask = "ancestor" => "full" \notin added'[o]
           /\ mask = "none" => added'[o] \subseteq {"traverse"}
           /\ o \in Dirs /\ (mask = "ancestor" \/ root) => "traverse" \in dacl'[o]
  BY SetAccessIsLocal DEF Wanted

\* Writing o keeps a root open if o, when it is on the way or below, stays open.
LEMMA StillOpen ==
    ASSUME NEW o, \A x \in Dirs \ {o} : dacl'[x] = dacl[x] /\ added'[x] = added[x],
           NEW c \in Dirs, NEW r \in Dirs, NEW before, NEW after, OpenFrom(c, r, before),
           o \in Up[r] => "full" \notin added'[o] /\ "traverse" \in dacl'[o],
           o \in Dirs /\ r \in Up[o] => added'[o] \subseteq {"traverse"} \/ o \in after,
           before \ {o} \subseteq after
    PROVE  /\ \A u \in Up[r] : c \in Up[u] => "full" \notin added'[u] /\ "traverse" \in dacl'[u]
           /\ \A x \in Dirs : r \in Up[x] => added'[x] \subseteq {"traverse"} \/ x \in after
  BY Paths DEF OpenFrom, Passable

\* Writing o keeps what is denied below c if o is still denied, or not below c, or if
\* nothing below o has to be denied.
LEMMA StillCovered ==
    ASSUME NEW o, \A x \in Dirs \ {o} : dacl'[x] = dacl[x], allowed' = allowed,
           NEW c \in Dirs, Covered(c),
           o \in Dirs /\ c \in Up[o] /\ "full" \notin dacl'[o]
              => \A x \in Dirs : o \in Up[x] => Exempt(x)
    PROVE  Covered(c)'
  BY Paths DEF Covered, Exempt, Within, AncestorOf

\* A readable directory is opened without uncovering another.
LEMMA OpeningStep ==
    ASSUME ScopeInvariant, NEW o \in Dirs, Within(o), SetAccess(o, "none", TRUE),
           UNCHANGED <<allowed, volumes, session, step, spaces, served>>,
           sweep \ {o} \subseteq sweep', done \subseteq done',
           \A d \in done' \ done :
              d = o /\ sweep' = {e \in entries \cap Dirs : d \in Above(e)}
    PROVE  WalkIsComplete' /\ ScopeStaysInUse'
<1>1. /\ \A x \in Objects \ {o} : dacl'[x] = dacl[x] /\ added'[x] = added[x]
      /\ added'[o] \subseteq {"traverse"} /\ "traverse" \in dacl'[o]
  BY Written DEF ScopeInvariant, Objects
<1>2. /\ \A x \in Dirs \ {o} : dacl'[x] = dacl[x] /\ added'[x] = added[x]
      /\ \A p \in Spaces : dacl'[p] = dacl[p]
  BY <1>1, ScopeConstants DEF Objects
<1>3. \A x \in Dirs : o \in Up[x] => Exempt(x)
  BY Paths DEF Exempt, Within
<1>4. ASSUME NEW c \in Dirs, Covered(c)
      PROVE  Covered(c)'
  BY <1>2, <1>3, <1>4, StillCovered
<1>5. ASSUME NEW c \in Dirs, NEW r \in Dirs, OpenFrom(c, r, sweep)
      PROVE  OpenFrom(c, r, sweep)'
  <2>1. sweep \ {o} \subseteq sweep'
    OBVIOUS
  <2>2. /\ \A u \in Up[r] : c \in Up[u] => "full" \notin added'[u] /\ "traverse" \in dacl'[u]
        /\ \A x \in Dirs : r \in Up[x] => added'[x] \subseteq {"traverse"} \/ x \in sweep'
    BY <1>1, <1>2, <1>5, <2>1, StillOpen
  <2> QED
    BY <2>2 DEF OpenFrom, Passable
<1>6. ASSUME NEW c \in Dirs, NEW r \in Dirs, OpenFrom(c, r, {})
      PROVE  OpenFrom(c, r, {})'
  <2>1. {} \ {o} \subseteq {} /\ (o \in Dirs /\ r \in Up[o] => added'[o] \subseteq {"traverse"} \/ o \in {})
        /\ (o \in Up[r] => "full" \notin added'[o] /\ "traverse" \in dacl'[o])
    BY <1>1
  <2>2. /\ \A u \in Up[r] : c \in Up[u] => "full" \notin added'[u] /\ "traverse" \in dacl'[u]
        /\ \A x \in Dirs : r \in Up[x] => added'[x] \subseteq {"traverse"} \/ x \in {}
    BY <1>1, <1>2, <1>6, <2>1, StillOpen
  <2> QED
    BY <2>2 DEF OpenFrom, Passable
<1>7. ASSUME NEW d \in done' \ done
      PROVE  /\ Covered(d)'
             /\ \A r \in allowed' : d \in Up[r] => OpenFrom(d, r, sweep)'
  <2>1. d = o /\ sweep' = {e \in entries \cap Dirs : o \in Above(e)}
    BY <1>7
  <2>2. Covered(o)'
    BY <1>3 DEF Covered, Exempt, Within, AncestorOf
  <2>3. ASSUME NEW r \in allowed, o \in Up[r]
        PROVE  OpenFrom(o, r, sweep)'
    <3>1. r = o
      BY <2>3, Paths DEF Within, ScopeInvariant, RootsAreBroadest, TypeOK
    <3>2. \A u \in Up[r] : o \in Up[u] => u = o
      BY <3>1, Paths
    <3>3. ASSUME NEW x \in Dirs, r \in Up[x]
          PROVE  added'[x] \subseteq {"traverse"} \/ x \in sweep'
      <4>1. CASE x = o
        BY <4>1, <1>1
      <4>2. CASE x # o /\ x \in entries
        BY <4>2, <3>3, <3>1, <2>1 DEF Above
      <4>3. CASE x # o /\ x \notin entries
        <5>1. x \in Objects /\ x \notin held
          BY <4>3 DEF ScopeInvariant, TypeOK, Objects
        <5>2. added[x] = {}
          BY <5>1 DEF ScopeInvariant, LedgerIsExact
        <5> QED
          BY <5>2, <4>3, <1>2
      <4> QED
        BY <4>1, <4>2, <4>3
    <3> QED
      BY <3>2, <3>3, <1>1 DEF OpenFrom, Passable
  <2> QED
    BY <2>1, <2>2, <2>3
<1>8. done \subseteq Dirs /\ allowed \subseteq Dirs /\ volumes \subseteq Dirs /\ served \subseteq Dirs
  BY DEF ScopeInvariant, TypeOK, Roots
<1>9. WalkIsComplete'
  <2>1. \A d \in done' : Covered(d)'
    BY <1>4, <1>7, <1>8 DEF ScopeInvariant, WalkIsComplete
  <2>2. \A d \in done' : \A r \in allowed' : d \in Up[r] => OpenFrom(d, r, sweep)'
    BY <1>5, <1>7, <1>8 DEF ScopeInvariant, WalkIsComplete
  <2>3. step' # "idle" => \A p \in Spaces \ spaces' : "space" \in dacl'[p]
    BY <1>2 DEF ScopeInvariant, WalkIsComplete
  <2> QED
    BY <2>1, <2>2, <2>3 DEF WalkIsComplete
<1>10. ScopeStaysInUse'
  <2>1. Active' # {} => \A v \in volumes' : Covered(v)'
    BY <1>4, <1>8 DEF ScopeInvariant, ScopeStaysInUse, Active
  <2>2. Active' # {} => \A r \in served' : \A v \in Roots : v \in Up[r] => OpenFrom(v, r, {})'
    BY <1>6, <1>8 DEF ScopeInvariant, ScopeStaysInUse, Active, Roots
  <2>3. Running' => \A p \in Spaces : "space" \in dacl'[p]
    BY <1>2 DEF ScopeInvariant, ScopeStaysInUse, Running
  <2> QED
    BY <2>1, <2>2, <2>3 DEF ScopeStaysInUse
<1> QED
  BY <1>9, <1>10

\* A directory is denied, which is neither inside nor above a readable root.
LEMMA DeniedStep ==
    ASSUME ScopeInvariant, NEW o \in Dirs, VisitDenied(o)
    PROVE  WalkIsComplete' /\ ScopeStaysInUse'
<1>1. /\ SetAccess(o, "full", FALSE) /\ ~Within(o) /\ ~AncestorOf(o) /\ done' = done \cup {o}
      /\ UNCHANGED <<allowed, volumes, session, step, sweep, spaces, served>>
  BY DEF VisitDenied
<1>2. /\ \A x \in Objects \ {o} : dacl'[x] = dacl[x] /\ added'[x] = added[x]
      /\ "full" \in dacl'[o]
  BY <1>1, Written DEF ScopeInvariant, Objects
<1>3. /\ \A x \in Dirs \ {o} : dacl'[x] = dacl[x] /\ added'[x] = added[x]
      /\ \A p \in Spaces : dacl'[p] = dacl[p]
  BY <1>2, ScopeConstants DEF Objects
<1>4. ASSUME NEW c \in Dirs, Covered(c)
      PROVE  Covered(c)'
  BY <1>1, <1>2, <1>3, <1>4, StillCovered
<1>5. ASSUME NEW r \in Dirs, Within(r)
      PROVE  o \notin Up[r] /\ r \notin Up[o]
  BY <1>1, <1>5, Paths DEF Within, AncestorOf, ScopeInvariant, TypeOK
<1>6. ASSUME NEW c \in Dirs, NEW r \in Dirs, Within(r), NEW except, OpenFrom(c, r, except)
      PROVE  /\ \A u \in Up[r] : c \in Up[u]
                   => "full" \notin added'[u] /\ "traverse" \in dacl'[u]
             /\ \A x \in Dirs : r \in Up[x]
                   => added'[x] \subseteq {"traverse"} \/ x \in except
  BY <1>3, <1>5, <1>6, StillOpen
<1>7. /\ done \subseteq Dirs /\ allowed \subseteq Dirs /\ volumes \subseteq Dirs
      /\ served \subseteq Dirs /\ \A r \in allowed \cup served : Within(r)
  BY Paths DEF ScopeInvariant, TypeOK, Roots, RootsAreBroadest, Within
<1>8. Covered(o)'
  BY <1>2, Paths DEF Covered
<1>9. WalkIsComplete'
  <2>1. \A d \in done' : Covered(d)'
    BY <1>1, <1>4, <1>7, <1>8 DEF ScopeInvariant, WalkIsComplete
  <2>2. ASSUME NEW d \in done', NEW r \in allowed', d \in Up[r]
        PROVE  OpenFrom(d, r, sweep)'
    <3>1. d # o /\ d \in done /\ r \in allowed /\ r \in Dirs /\ d \in Dirs
      BY <2>2, <1>1, <1>5, <1>7
    <3>2. OpenFrom(d, r, sweep)
      BY <2>2, <3>1 DEF ScopeInvariant, WalkIsComplete
    <3> QED
      BY <3>1, <3>2, <1>1, <1>6, <1>7 DEF OpenFrom, Passable
  <2>3. step' # "idle" => \A p \in Spaces \ spaces' : "space" \in dacl'[p]
    BY <1>1, <1>3 DEF ScopeInvariant, WalkIsComplete
  <2> QED
    BY <2>1, <2>2, <2>3 DEF WalkIsComplete
<1>10. ScopeStaysInUse'
  <2>1. Active' # {} => \A v \in volumes' : Covered(v)'
    BY <1>1, <1>4, <1>7 DEF ScopeInvariant, ScopeStaysInUse, Active
  <2>2. ASSUME Active' # {}, NEW r \in served', NEW v \in Roots, v \in Up[r]
        PROVE  OpenFrom(v, r, {})'
    <3>1. OpenFrom(v, r, {}) /\ r \in served /\ v \in Dirs
      BY <2>2, <1>1 DEF ScopeInvariant, ScopeStaysInUse, Active, Roots
    <3>2. /\ \A u \in Up[r] : v \in Up[u]
                => "full" \notin added'[u] /\ "traverse" \in dacl'[u]
          /\ \A x \in Dirs : r \in Up[x] => added'[x] \subseteq {"traverse"} \/ x \in {}
      BY <3>1, <1>6, <1>7
    <3> QED
      BY <3>2 DEF OpenFrom, Passable
  <2>3. Running' => \A p \in Spaces : "space" \in dacl'[p]
    BY <1>1, <1>3 DEF ScopeInvariant, ScopeStaysInUse, Running
  <2> QED
    BY <2>1, <2>2, <2>3 DEF ScopeStaysInUse
<1> QED
  BY <1>9, <1>10

\* An ancestor becomes traversable when everything below it has been dealt with.
LEMMA AncestorStep ==
    ASSUME ScopeInvariant, NEW o \in Dirs, LeaveAncestor(o)
    PROVE  WalkIsComplete' /\ ScopeStaysInUse'
<1>1. /\ SetAccess(o, "ancestor", FALSE) /\ done' = done \cup {o} /\ step = "walk"
      /\ o \in open /\ \A c \in Dirs : Child(o, c) => c \in done
      /\ UNCHANGED <<allowed, volumes, session, step, sweep, spaces, served>>
  BY DEF LeaveAncestor, Innermost
<1>2. ~Within(o) /\ AncestorOf(o) /\ o \notin done /\ Above(o) \cap done = {}
  BY <1>1 DEF ScopeInvariant, WalkFollowsStep
<1>3. /\ \A x \in Objects \ {o} : dacl'[x] = dacl[x] /\ added'[x] = added[x]
      /\ "full" \notin added'[o] /\ "traverse" \in dacl'[o]
  BY <1>1, Written DEF ScopeInvariant, Objects
<1>4. /\ \A x \in Dirs \ {o} : dacl'[x] = dacl[x] /\ added'[x] = added[x]
      /\ \A p \in Spaces : dacl'[p] = dacl[p]
  BY <1>3, ScopeConstants DEF Objects
<1>5. /\ done \subseteq Dirs /\ allowed \subseteq Dirs /\ volumes \subseteq Dirs
      /\ served \subseteq Dirs /\ \A r \in allowed \cup served : Within(r)
  BY Paths DEF ScopeInvariant, TypeOK, Roots, RootsAreBroadest, Within
<1>6. ASSUME NEW c \in done
      PROVE  Covered(c)' /\ c \notin Up[o]
  <2>1. c \in Dirs /\ c \notin Up[o] /\ Covered(c)
    BY <1>2, <1>5 DEF Above, ScopeInvariant, WalkIsComplete
  <2> QED
    BY <2>1, <1>1, <1>4, StillCovered
<1>7. ASSUME NEW x \in Dirs, o \in Up[x], ~Exempt(x)
      PROVE  \E u \in Up[x] : u # o /\ o \in Up[u] /\ "full" \in dacl[u]
  <2>1. o \in Above(x)
    BY <1>7, <1>2 DEF Exempt, Above
  <2>2. PICK c \in Up[x] : Child(o, c)
    BY <2>1, ChildOnPath
  <2>3. c \in done /\ Covered(c) /\ c \in Dirs
    BY <2>2, <1>1, Paths DEF ScopeInvariant, WalkIsComplete
  <2>4. PICK u \in Up[x] : c \in Up[u] /\ "full" \in dacl[u]
    BY <2>2, <2>3, <1>7 DEF Covered
  <2>5. u \in Dirs /\ o \in Up[c]
    BY <2>2, <2>4, Paths DEF Child, Above
  <2>6. u # o /\ o \in Up[u]
    BY <2>3, <2>4, <2>5, <1>6, Paths
  <2> QED
    BY <2>4, <2>6
<1>8. Covered(o)'
  <2>1. ASSUME NEW x \in Dirs, o \in Up[x], ~Exempt(x)'
        PROVE  \E u \in Up[x] : o \in Up[u] /\ "full" \in dacl'[u]
    <3>1. ~Exempt(x)
      BY <2>1, <1>1 DEF Exempt, Within, AncestorOf
    <3>2. PICK u \in Up[x] : u # o /\ o \in Up[u] /\ "full" \in dacl[u]
      BY <2>1, <3>1, <1>7
    <3> QED
      BY <3>2, <1>4, Paths
  <2> QED
    BY <2>1 DEF Covered
<1>9. ASSUME NEW v \in Dirs, Covered(v)
      PROVE  Covered(v)'
  <2>1. ASSUME NEW x \in Dirs, v \in Up[x], ~Exempt(x)'
        PROVE  \E u \in Up[x] : v \in Up[u] /\ "full" \in dacl'[u]
    <3>1. ~Exempt(x)
      BY <2>1, <1>1 DEF Exempt, Within, AncestorOf
    <3>2. PICK u \in Up[x] : v \in Up[u] /\ "full" \in dacl[u]
      BY <1>9, <2>1, <3>1 DEF Covered
    <3>3. CASE u # o
      BY <3>2, <3>3, <1>4, Paths
    <3>4. CASE u = o
      <4>1. PICK w \in Up[x] : w # o /\ o \in Up[w] /\ "full" \in dacl[w]
        BY <3>1, <3>4, <1>7
      <4> QED
        BY <4>1, <3>2, <3>4, <1>4, Paths
    <3> QED
      BY <3>3, <3>4
  <2> QED
    BY <2>1 DEF Covered
<1>10. ASSUME NEW c \in Dirs, NEW r \in Dirs, Within(r), NEW except, OpenFrom(c, r, except)
       PROVE  /\ \A u \in Up[r] : c \in Up[u]
                    => "full" \notin added'[u] /\ "traverse" \in dacl'[u]
              /\ \A x \in Dirs : r \in Up[x]
                    => added'[x] \subseteq {"traverse"} \/ x \in except
  <2>1. r \notin Up[o]
    BY <1>2, <1>10, Paths DEF Within
  <2> QED
    BY <1>3, <1>4, <1>10, <2>1, StillOpen
<1>11. ASSUME NEW r \in allowed, o \in Up[r]
       PROVE  OpenFrom(o, r, sweep)'
  <2>1. r \in Dirs /\ r # o /\ o \in Above(r)
    BY <1>11, <1>2, <1>5, Paths DEF Within, Above
  <2>2. PICK c \in Up[r] : Child(o, c)
    BY <2>1, ChildOnPath
  <2>3. c \in done /\ c \in Dirs /\ OpenFrom(c, r, sweep)
    BY <2>1, <2>2, <1>1, Paths DEF ScopeInvariant, WalkIsComplete
  <2>4. /\ \A u \in Up[r] : c \in Up[u] => "full" \notin added'[u] /\ "traverse" \in dacl'[u]
        /\ \A x \in Dirs : r \in Up[x] => added'[x] \subseteq {"traverse"} \/ x \in sweep
    BY <2>1, <2>3, <1>5, <1>10
  <2>5. ASSUME NEW u \in Up[r], o \in Up[u], u # o
        PROVE  c \in Up[u]
    <3>1. u \in Dirs /\ (c \in Up[u] \/ u \in Up[c])
      BY <2>1, <2>2, Paths
    <3>2. CASE u \in Up[c] /\ u # c
      <4>1. u \in Up[o]
        BY <3>2, <2>2 DEF Child, Above
      <4> QED
        BY <4>1, <3>1, <2>5, Paths
    <3> QED
      BY <3>1, <3>2, Paths
  <2> QED
    BY <2>4, <2>5, <1>1, <1>3 DEF OpenFrom, Passable
<1>12. WalkIsComplete'
  <2>1. \A d \in done' : Covered(d)'
    BY <1>1, <1>6, <1>8
  <2>2. ASSUME NEW d \in done, NEW r \in allowed, d \in Up[r]
        PROVE  OpenFrom(d, r, sweep)'
    <3>1. OpenFrom(d, r, sweep) /\ d \in Dirs /\ r \in Dirs
      BY <2>2, <1>5 DEF ScopeInvariant, WalkIsComplete
    <3> QED
      BY <3>1, <1>1, <1>5, <1>10 DEF OpenFrom, Passable
  <2>3. step' # "idle" => \A p \in Spaces \ spaces' : "space" \in dacl'[p]
    BY <1>1, <1>4 DEF ScopeInvariant, WalkIsComplete
  <2>4. \A d \in done' : \A r \in allowed' : d \in Up[r] => OpenFrom(d, r, sweep)'
    BY <2>2, <1>1, <1>11
  <2> QED
    BY <2>1, <2>3, <2>4 DEF WalkIsComplete
<1>13. ScopeStaysInUse'
  <2>1. Active' # {} => \A v \in volumes' : Covered(v)'
    BY <1>1, <1>5, <1>9 DEF ScopeInvariant, ScopeStaysInUse, Active
  <2>2. ASSUME Active' # {}, NEW r \in served', NEW v \in Roots, v \in Up[r]
        PROVE  OpenFrom(v, r, {})'
    <3>1. OpenFrom(v, r, {}) /\ r \in served /\ v \in Dirs
      BY <2>2, <1>1 DEF ScopeInvariant, ScopeStaysInUse, Active, Roots
    <3>2. /\ \A u \in Up[r] : v \in Up[u]
                => "full" \notin added'[u] /\ "traverse" \in dacl'[u]
          /\ \A x \in Dirs : r \in Up[x] => added'[x] \subseteq {"traverse"} \/ x \in {}
      BY <3>1, <1>5, <1>10
    <3> QED
      BY <3>2 DEF OpenFrom, Passable
  <2>3. Running' => \A p \in Spaces : "space" \in dacl'[p]
    BY <1>1, <1>4 DEF ScopeInvariant, ScopeStaysInUse, Running
  <2> QED
    BY <2>1, <2>2, <2>3 DEF ScopeStaysInUse
<1> QED
  BY <1>12, <1>13

\* Every step keeps what the walk has dealt with, and the scope of running programs.
LEMMA ScopeStep ==
    ScopeInvariant /\ [Next]_vars => WalkIsComplete' /\ ScopeStaysInUse'
<1> SUFFICES ASSUME ScopeInvariant, [Next]_vars
             PROVE  WalkIsComplete' /\ ScopeStaysInUse'
  OBVIOUS
<1>1. ASSUME NEW d \in Dirs, VisitReadable(d)
      PROVE  WalkIsComplete' /\ ScopeStaysInUse'
  <2>1. sweep = {}
    BY <1>1, ScopeConstants DEF VisitReadable, Enter, Due, ScopeInvariant, TypeOK
  <2>2. /\ Within(d) /\ SetAccess(d, "none", TRUE) /\ done' = done \cup {d}
        /\ sweep' = {e \in entries \cap Dirs : d \in Above(e)}
        /\ UNCHANGED <<allowed, volumes, session, step, spaces, served>>
    BY <1>1 DEF VisitReadable
  <2> QED
    BY <2>1, <2>2, OpeningStep
<1>2. ASSUME NEW e \in Dirs, Sweep(e)
      PROVE  WalkIsComplete' /\ ScopeStaysInUse'
  <2>1. /\ Within(e) /\ SetAccess(e, "none", TRUE) /\ done' = done /\ sweep' = sweep \ {e}
        /\ UNCHANGED <<allowed, volumes, session, step, spaces, served>>
    BY <1>2 DEF Sweep, ScopeInvariant, WalkFollowsStep
  <2> QED
    BY <2>1, OpeningStep
<1>3. ASSUME NEW p \in Objects, GrantSpace(p)
      PROVE  WalkIsComplete' /\ ScopeStaysInUse'
  <2>1. /\ SetAccess(p, "space", FALSE) /\ p \in Spaces /\ spaces' = spaces \ {p}
        /\ UNCHANGED <<allowed, volumes, session, step, sweep, done, served>>
    BY <1>3 DEF GrantSpace
  <2>2. /\ \A x \in Objects \ {p} : dacl'[x] = dacl[x] /\ added'[x] = added[x]
        /\ "space" \in dacl'[p]
    BY <2>1, Written DEF ScopeInvariant
  <2>3. \A x \in Dirs : dacl'[x] = dacl[x] /\ added'[x] = added[x]
    BY <2>1, <2>2, ScopeConstants DEF Objects
  <2>4. \A c \in Dirs : Covered(c) => Covered(c)'
    BY <2>1, <2>3, Paths DEF Covered, Exempt, Within, AncestorOf
  <2>5. ASSUME NEW c \in Dirs, NEW r \in Dirs
        PROVE  /\ OpenFrom(c, r, sweep) => OpenFrom(c, r, sweep)'
               /\ OpenFrom(c, r, {}) => OpenFrom(c, r, {})'
    BY <2>1, <2>3, Paths DEF OpenFrom, Passable
  <2>6. /\ done \subseteq Dirs /\ allowed \subseteq Dirs /\ volumes \subseteq Dirs
        /\ served \subseteq Dirs /\ Roots \subseteq Dirs
    BY DEF ScopeInvariant, TypeOK, Roots
  <2>7. \A q \in Spaces \ {p} : dacl'[q] = dacl[q]
    BY <2>2 DEF Objects
  <2>8. WalkIsComplete'
    <3>1. \A d \in done' : Covered(d)'
      BY <2>1, <2>4, <2>6 DEF ScopeInvariant, WalkIsComplete
    <3>2. \A d \in done' : \A r \in allowed' : d \in Up[r] => OpenFrom(d, r, sweep)'
      BY <2>1, <2>5, <2>6 DEF ScopeInvariant, WalkIsComplete
    <3>3. step' # "idle" => \A q \in Spaces \ spaces' : "space" \in dacl'[q]
      BY <2>1, <2>2, <2>7 DEF ScopeInvariant, WalkIsComplete
    <3> QED
      BY <3>1, <3>2, <3>3 DEF WalkIsComplete
  <2>9. ScopeStaysInUse'
    <3>1. Active' # {} => \A v \in volumes' : Covered(v)'
      BY <2>1, <2>4, <2>6 DEF ScopeInvariant, ScopeStaysInUse, Active
    <3>2. Active' # {} =>
            \A r \in served' : \A v \in Roots : v \in Up[r] => OpenFrom(v, r, {})'
      BY <2>1, <2>5, <2>6 DEF ScopeInvariant, ScopeStaysInUse, Active
    <3>3. Running' => \A q \in Spaces : "space" \in dacl'[q]
      BY <2>1, <2>2, <2>7 DEF ScopeInvariant, ScopeStaysInUse, Running
    <3> QED
      BY <3>1, <3>2, <3>3 DEF ScopeStaysInUse
  <2> QED
    BY <2>8, <2>9
<1>4. ASSUME NEW s \in Sessions, NEW work \in WorkDirs, Begin(s, work)
      PROVE  WalkIsComplete' /\ ScopeStaysInUse'
  <2> DEFINE roots == allowed \cup Readable \cup {work}
  <2>1. roots \in SUBSET Dirs /\ allowed \subseteq roots
    BY ScopeConstants DEF ScopeInvariant, TypeOK
  <2>2. /\ allowed' = Broadest(roots) /\ done' = {} /\ spaces' = Spaces
        /\ UNCHANGED <<dacl, added, volumes, served>>
        /\ session[s] = "admitted" /\ session' = [session EXCEPT ![s] = "ensuring"]
    BY <1>4 DEF Begin, scopeVars
  <2> HIDE DEF roots
  <2>3. ASSUME NEW d \in Dirs, Exempt(d)
        PROVE  Exempt(d)'
    <3>1. CASE Within(d)
      BY <3>1, <2>1, <2>2, BroadestCovers DEF Exempt, Within
    <3>2. CASE AncestorOf(d)
      <4>1. PICK r \in allowed : d \in Up[r]
        BY <3>2 DEF AncestorOf
      <4>2. r \in Dirs /\ r \in roots /\ r \in Up[r]
        BY <2>1, Paths
      <4>3. PICK q \in Broadest(roots) : q \in Up[r]
        BY <4>2, <2>1, BroadestCovers
      <4> QED
        BY <4>1, <4>2, <4>3, <2>2, Paths DEF Exempt, Within, AncestorOf
    <3> QED
      BY <2>3, <3>1, <3>2 DEF Exempt
  <2>4. \A c \in Dirs : Covered(c) => Covered(c)'
    BY <2>2, <2>3 DEF Covered
  <2>5. \A c, r \in Dirs : OpenFrom(c, r, {}) => OpenFrom(c, r, {})'
    BY <2>2 DEF OpenFrom, Passable
  <2>6. Active # {} /\ (Running' => Running)
    BY <2>2 DEF Active, Running, ScopeInvariant, TypeOK
  <2>7. volumes \subseteq Dirs /\ served \subseteq Dirs /\ Roots \subseteq Dirs
    BY DEF ScopeInvariant, TypeOK, Roots
  <2>8. WalkIsComplete'
    BY <2>2 DEF WalkIsComplete
  <2> QED
    BY <2>2, <2>4, <2>5, <2>6, <2>7, <2>8 DEF ScopeInvariant, ScopeStaysInUse
<1>5. ASSUME UNCHANGED <<dacl, added, allowed, served, sweep, spaces>>,
             done' = done, Active' = Active, Running' = Running,
             step' # "idle" => step # "idle",
             \A v \in volumes' \ volumes : v \in done
      PROVE  WalkIsComplete' /\ ScopeStaysInUse'
  <2>1. \A c \in Dirs : Covered(c) => Covered(c)'
    BY <1>5 DEF Covered, Exempt, Within, AncestorOf
  <2>2. \A c, r \in Dirs : /\ OpenFrom(c, r, sweep) => OpenFrom(c, r, sweep)'
                           /\ OpenFrom(c, r, {}) => OpenFrom(c, r, {})'
    BY <1>5 DEF OpenFrom, Passable
  <2>3. /\ done \subseteq Dirs /\ allowed \subseteq Dirs /\ volumes \subseteq Dirs
        /\ served \subseteq Dirs /\ Roots \subseteq Dirs
    BY DEF ScopeInvariant, TypeOK, Roots
  <2>4. WalkIsComplete'
    BY <1>5, <2>1, <2>2, <2>3 DEF ScopeInvariant, WalkIsComplete
  <2>5. \A v \in volumes' : Active # {} => Covered(v)'
    BY <1>5, <2>1, <2>3 DEF ScopeInvariant, WalkIsComplete, ScopeStaysInUse
  <2> QED
    BY <1>5, <2>2, <2>3, <2>4, <2>5 DEF ScopeInvariant, ScopeStaysInUse
<1>6. ASSUME NEW d \in Dirs, VisitAncestor(d) \/ FinishVolume(d) \/ SkipEmptyDrive(d)
      PROVE  WalkIsComplete' /\ ScopeStaysInUse'
  <2>1. /\ UNCHANGED <<dacl, added, allowed, served, sweep, spaces, done, session, step>>
        /\ \A v \in volumes' \ volumes : v \in done
    BY <1>6 DEF VisitAncestor, FinishVolume, SkipEmptyDrive, scopeVars
  <2> QED
    BY <2>1, <1>5 DEF Active, Running
<1>7. CASE VolumesDone \/ UNCHANGED vars
  <2>1. /\ UNCHANGED <<dacl, added, allowed, served, sweep, spaces, done, session, volumes>>
        /\ step' # "idle" => step # "idle"
    BY <1>7 DEF VolumesDone, scopeVars, walkVars, vars
  <2> QED
    BY <2>1, <1>5 DEF Active, Running
<1>8. ASSUME Abandon
      PROVE  WalkIsComplete' /\ ScopeStaysInUse'
  <2>1. /\ done' = {} /\ step' = "idle" /\ UNCHANGED <<dacl, added, allowed, volumes, served>>
        /\ Active' = Active /\ (Running' => Running)
    BY <1>8 DEF Abandon, Active, Running, ScopeInvariant, TypeOK
  <2>2. WalkIsComplete'
    BY <2>1 DEF WalkIsComplete
  <2> QED
    BY <2>1, <2>2
       DEF ScopeInvariant, ScopeStaysInUse, Covered, Exempt, Within, AncestorOf, OpenFrom,
           Passable
<1>9. CASE Complete
  <2>1. /\ step = "spaces" /\ spaces = {} /\ done' = {} /\ step' = "idle"
        /\ served' = served \cup {r \in allowed : \E v \in volumes : v \in Up[r]}
        /\ UNCHANGED <<dacl, added, allowed, volumes>>
    BY <1>9 DEF Complete, scopeVars
  <2>2. sweep = {} /\ volumes \subseteq done
    BY <2>1 DEF ScopeInvariant, WalkFollowsStep
  <2>3. Active' = Active /\ Active # {}
    BY <1>9, <2>1 DEF Complete, Active, ScopeInvariant, WalkFollowsStep, TypeOK
  <2>4. \A c \in Dirs : Covered(c) => Covered(c)'
    BY <2>1 DEF Covered, Exempt, Within, AncestorOf
  <2>5. \A c, r \in Dirs : OpenFrom(c, r, {}) => OpenFrom(c, r, {})'
    BY <2>1 DEF OpenFrom, Passable
  <2>6. ASSUME NEW r \in served', NEW v \in Roots, v \in Up[r]
        PROVE  OpenFrom(v, r, {})
    <3>1. CASE r \in served
      BY <2>3, <2>6, <3>1 DEF ScopeInvariant, ScopeStaysInUse
    <3>2. CASE r \in allowed /\ \E w \in volumes : w \in Up[r]
      <4>1. PICK w \in volumes : w \in Up[r]
        BY <3>2
      <4>2. w \in Roots /\ r \in Dirs /\ w \in Dirs /\ v \in Dirs
        BY <3>2, <4>1 DEF ScopeInvariant, TypeOK, Roots
      <4>3. v = w
        <5>1. v \in Up[w] \/ w \in Up[v]
          BY <2>6, <4>1, <4>2, Paths
        <5> QED
          BY <5>1, <4>2 DEF Roots
      <4>4. OpenFrom(w, r, sweep)
        BY <2>2, <3>2, <4>1 DEF ScopeInvariant, WalkIsComplete
      <4> QED
        BY <2>2, <4>3, <4>4
    <3> QED
      BY <2>1, <3>1, <3>2
  <2>7. \A p \in Spaces : "space" \in dacl'[p]
    BY <2>1 DEF ScopeInvariant, WalkIsComplete
  <2>8. volumes \subseteq Dirs /\ served' \subseteq Dirs /\ Roots \subseteq Dirs
    BY <2>1 DEF ScopeInvariant, TypeOK, Roots
  <2>9. WalkIsComplete'
    BY <2>1 DEF WalkIsComplete
  <2> QED
    BY <2>1, <2>3, <2>4, <2>5, <2>6, <2>7, <2>8, <2>9 DEF ScopeInvariant, ScopeStaysInUse
<1>10. CASE Restores
  <2>1. UNCHANGED <<step, walkVars>>
    BY <1>10, RestoreSteps
  <2>2. CASE UNCHANGED <<scopeVars, allowed, volumes, served>> /\ Active # {}
    <3>1. Running' => Running
      BY <1>10 DEF Restores, Admit, Release, Refuse, Running, ScopeInvariant, TypeOK
    <3>2. UNCHANGED <<dacl, added, allowed, volumes, served, sweep, spaces, done, step>>
      BY <2>1, <2>2 DEF scopeVars, walkVars
    <3>3. \A c \in Dirs : Covered(c) => Covered(c)'
      BY <3>2 DEF Covered, Exempt, Within, AncestorOf
    <3>4. \A c, r \in Dirs : /\ OpenFrom(c, r, sweep) => OpenFrom(c, r, sweep)'
                             /\ OpenFrom(c, r, {}) => OpenFrom(c, r, {})'
      BY <3>2 DEF OpenFrom, Passable
    <3>5. /\ done \subseteq Dirs /\ allowed \subseteq Dirs /\ volumes \subseteq Dirs
          /\ served \subseteq Dirs /\ Roots \subseteq Dirs
      BY DEF ScopeInvariant, TypeOK, Roots
    <3>6. WalkIsComplete'
      BY <3>2, <3>3, <3>4, <3>5 DEF ScopeInvariant, WalkIsComplete
    <3>7. ScopeStaysInUse'
      BY <2>2, <3>1, <3>2, <3>3, <3>4, <3>5 DEF ScopeInvariant, ScopeStaysInUse
    <3> QED
      BY <3>6, <3>7
  <2>3. ASSUME NEW stuck \in SUBSET MayStick, step = "idle", ~Running', RestoreExcept(stuck),
               stuck = {} \/ Active' = {}
        PROVE  WalkIsComplete' /\ ScopeStaysInUse'
    <3>1. done' = {} /\ step' = "idle"
      BY <2>1, <2>3 DEF walkVars, ScopeInvariant, WalkFollowsStep
    <3>2. WalkIsComplete'
      BY <3>1 DEF WalkIsComplete
    <3>3. Active' # {} => volumes' = {} /\ served' = {}
      BY <2>3 DEF RestoreExcept
    <3> QED
      BY <2>3, <3>2, <3>3 DEF ScopeStaysInUse
  <2> QED
    BY <1>10, <2>2, <2>3, RestoresWhenIdle DEF ScopeInvariant
<1>11. ASSUME NEW o \in Objects, NEW mask \in {"none", "full", "ancestor", "space"},
              NEW root \in BOOLEAN, Writes(o, mask, root)
       PROVE  WalkIsComplete' /\ ScopeStaysInUse'
  BY <1>1, <1>2, <1>3, <1>11, DeniedStep, AncestorStep DEF Writes
<1>12. CASE Keeps
  BY <1>4, <1>6, <1>7, <1>8, <1>9, <1>12 DEF Keeps, EntryFails, Fail
<1> QED
  BY <1>10, <1>11, <1>12, StepKinds

-----------------------------------------------------------------------------
(* Theorems.                                                               *)

\* The invariant holds for any tree of directories and any number of sessions.
THEOREM InvariantHolds == Spec => []ScopeInvariant
<1>1. Init => ScopeInvariant
  <2> SUFFICES ASSUME Init
               PROVE  ScopeInvariant
    OBVIOUS
  <2>1. TypeOK
    BY ScopeConstants DEF Init, TypeOK, Aces
  <2>2. LedgerIsExact
    BY DEF Init, LedgerIsExact
  <2>3. RootsAreBroadest /\ WalkFollowsStep
    BY DEF Init, RootsAreBroadest, WalkFollowsStep
  <2>4. OneWalkOverAllDrives
    BY DEF Init, OneWalkOverAllDrives
  <2>5. WalkIsComplete /\ ScopeStaysInUse
    BY DEF Init, WalkIsComplete, ScopeStaysInUse, Running
  <2> QED
    BY <2>1, <2>2, <2>3, <2>4, <2>5 DEF ScopeInvariant
<1>2. ScopeInvariant /\ [Next]_vars => ScopeInvariant'
  BY TypeStep, LedgerStep, RootsStep, WalkStep, DrivesStep, ScopeStep DEF ScopeInvariant
<1> QED
  BY <1>1, <1>2, PTL DEF Spec

\* A running program is confined at every moment, whatever later launches do or fail to do.
THEOREM Confined == Spec => []ConfinedWhileRunning
<1>1. ScopeInvariant => ConfinedWhileRunning
  BY DEF ScopeInvariant, ScopeStaysInUse, ConfinedWhileRunning, Covered, Running, Active
<1> QED
  BY <1>1, InvariantHolds, PTL

\* A program keeps the roots it was given, and the way to them.
THEOREM RootsOpen == Spec => []RootsStayOpen
<1>1. ScopeInvariant => RootsStayOpen
  <2> SUFFICES ASSUME ScopeInvariant, Running, NEW r \in served
               PROVE  /\ \A u \in Up[r] : Passable(u)
                      /\ "full" \notin added[r] /\ "ancestor" \notin added[r]
    BY DEF RootsStayOpen
  <2>1. r \in Dirs /\ Active # {} /\ r \in Up[r]
    BY Paths DEF ScopeInvariant, TypeOK, Running, Active
  <2>2. PICK v \in Up[r] : \A u \in Up[r] : v \in Up[u]
    <3>1. Up[r] \in SUBSET Up[r] /\ Up[r] # {}
      BY <2>1
    <3> QED
      BY <3>1, <2>1, Topmost
  <2>3. v \in Roots
    BY <2>1, <2>2, Paths DEF Roots
  <2>4. OpenFrom(v, r, {})
    BY <2>1, <2>2, <2>3 DEF ScopeInvariant, ScopeStaysInUse
  <2> QED
    BY <2>1, <2>2, <2>4 DEF OpenFrom
<1> QED
  BY <1>1, InvariantHolds, PTL

\* A scope without entries has left nothing behind.
THEOREM Restored == Spec => []RestoredMeansFirst
<1>1. ScopeInvariant => RestoredMeansFirst
  <2> SUFFICES ASSUME ScopeInvariant, entries = {}
               PROVE  dacl = First
    BY DEF RestoredMeansFirst
  <2>1. dacl \in [Objects -> SUBSET Aces] /\ First \in [Objects -> SUBSET Aces]
    BY ScopeConstants DEF ScopeInvariant, TypeOK
  <2>2. held = {}
    BY DEF ScopeInvariant, TypeOK
  <2>3. \A o \in Objects : dacl[o] = First[o]
    BY <2>2 DEF ScopeInvariant, LedgerIsExact
  <2> QED
    BY <2>1, <2>3
<1> QED
  BY <1>1, InvariantHolds, PTL

-----------------------------------------------------------------------------
(* The scope keeps ScopeContract.                                          *)

\* A step of the contract, or one that changes nothing it sees.
ContractStep == [Contract!ContractNext]_(Contract!contractVars)

\* While somebody uses the scope, it is complete once the fixed drives were visited.
LEMMA FullInUse ==
    ASSUME ScopeStaysInUse, Active # {}
    PROVE  InPlace = "full" <=> Roots \ Removable \subseteq volumes
BY DEF InPlace, ScopeStaysInUse

\* What is in place depends on the ACLs, the visited volumes and the readable roots.
LEMMA SameInPlace ==
    ASSUME UNCHANGED <<dacl, volumes, allowed>>
    PROVE  InPlace' = InPlace
<1>1. \A d \in volumes : Covered(d)' <=> Covered(d)
  BY DEF Covered, Exempt, Within, AncestorOf
<1> QED
  BY <1>1 DEF InPlace

\* A walk is under way while some session prepares.
LEMMA SomeoneEnsures ==
    ASSUME WalkFollowsStep, step # "idle"
    PROVE  Active # {} /\ \E s \in Sessions : session[s] = "ensuring"
BY DEF WalkFollowsStep, Active

\* A step of the walk completes the denials at most, and never reduces complete ones.
LEMMA WorkStep ==
    ASSUME ScopeInvariant, ScopeStaysInUse', UNCHANGED session, volumes \subseteq volumes',
           step # "idle"
    PROVE  ContractStep
<1>1. Active # {} /\ Active' # {} /\ \E s \in Sessions : session[s] = "ensuring"
  BY SomeoneEnsures DEF ScopeInvariant, Active
<1>2. InPlace = "full" => InPlace' = "full"
  BY <1>1, FullInUse DEF InPlace, ScopeInvariant, ScopeStaysInUse
<1>3. InPlace' \in {"none", "partial", "full"}
  BY DEF InPlace
<1>4. Contract!Work
  BY <1>1, <1>2, <1>3 DEF Contract!Work, Contract!Partly
<1> QED
  BY <1>4 DEF ContractStep, Contract!ContractNext

\* Restoration leaves nothing, or no more than there was.
LEMMA RestoreLeaves ==
    ASSUME TypeOK, LedgerIsExact, NEW stuck \in SUBSET MayStick, RestoreExcept(stuck)
    PROVE  /\ stuck = {} => InPlace' = "none"
           /\ InPlace' \in Contract!Remains \cup {"none"}
<1>1. First \in [Objects -> SUBSET Aces] /\ Roots \ Removable # {}
  BY ScopeConstants
<1>2. /\ dacl' \in [Objects -> SUBSET Aces]
      /\ \A o \in Objects : \/ dacl'[o] = First[o]
                            \/ o \in stuck /\ dacl'[o] = dacl[o]
      /\ (stuck = {} /\ volumes' = {}) \/ UNCHANGED <<allowed, volumes>>
  BY RestoreIsExact
<1>3. ASSUME stuck = {}
      PROVE  InPlace' = "none"
  <2>1. dacl' = First
    BY <1>1, <1>2, <1>3
  <2>2. volumes' = {}
    BY <1>3 DEF RestoreExcept
  <2> QED
    BY <1>1, <2>1, <2>2 DEF InPlace
<1>4. ASSUME stuck # {}
      PROVE  InPlace # "none" /\ (InPlace' = "full" => InPlace = "full")
  <2>1. \A o \in Objects : dacl'[o] \subseteq dacl[o]
    BY <1>2 DEF LedgerIsExact
  <2>2. UNCHANGED <<allowed, volumes>> /\ volumes \subseteq Dirs
    BY <1>2, <1>4 DEF TypeOK, Roots
  <2>3. \A v \in volumes : Covered(v)' => Covered(v)
    BY <2>1, <2>2, Paths DEF Covered, Exempt, Within, AncestorOf, Objects
  <2>4. dacl # First
    BY <1>4 DEF MayStick, LedgerIsExact
  <2> QED
    BY <2>2, <2>3, <2>4 DEF InPlace
<1>5. InPlace' \in {"none", "partial", "full"}
  BY DEF InPlace
<1> QED
  BY <1>3, <1>4, <1>5 DEF Contract!Remains

\* Admission, retries and releases are those of the contract.
LEMMA RestoreContract ==
    ASSUME ScopeInvariant, Restores
    PROVE  ContractStep
<1> USE DEF ContractStep, Contract!ContractNext
<1>1. Contract!Inside = Active
  BY DEF Contract!Inside, Active
<1>2. TypeOK /\ LedgerIsExact
  BY DEF ScopeInvariant
<1>3. ASSUME NEW s \in Sessions, Admit(s)
      PROVE  ContractStep
  <2>1. session[s] = "out" /\ session' = [session EXCEPT ![s] = "admitted"]
    BY <1>3 DEF Admit
  <2>2. InPlace' = IF Active = {} THEN "none" ELSE InPlace
    <3>1. CASE Active = {}
      BY <1>2, <1>3, <3>1, RestoreLeaves DEF Admit
    <3>2. CASE Active # {}
      BY <1>3, <3>2, SameInPlace DEF Admit, scopeVars
    <3> QED
      BY <3>1, <3>2
  <2> QED
    BY <1>1, <2>1, <2>2 DEF Contract!Admit, Contract!Move
<1>4. CASE Refuse
  <2>1. PICK stuck \in SUBSET MayStick : RestoreExcept(stuck)
    BY <1>4 DEF Refuse
  <2>2. InPlace' \in Contract!Remains \cup {"none"}
    BY <1>2, <2>1, RestoreLeaves
  <2> QED
    BY <1>1, <1>4, <2>2 DEF Refuse, Contract!Retry
<1>5. ASSUME NEW s \in Sessions, Release(s)
      PROVE  ContractStep
  <2>1. /\ session[s] \in {"admitted", "running", "leaving"}
        /\ session' = [session EXCEPT ![s] = "out"]
    BY <1>5 DEF Release
  <2>2. IF Active = {s} THEN InPlace' \in Contract!Remains \cup {"none"}
                        ELSE InPlace' = InPlace
    <3>1. CASE Active = {s}
      BY <1>2, <1>5, <3>1, RestoreLeaves DEF Release
    <3>2. CASE Active # {s}
      BY <1>5, <3>2, SameInPlace DEF Release, scopeVars
    <3> QED
      BY <3>1, <3>2
  <2> QED
    BY <1>1, <2>1, <2>2 DEF Contract!Release, Contract!Move
<1> QED
  BY <1>3, <1>4, <1>5 DEF Restores

\* The end of Ensure, successful or not, is that of the one session preparing.
LEMMA EndContract ==
    ASSUME ScopeInvariant, (Abandon /\ step # "idle") \/ Complete
    PROVE  ContractStep
<1> USE DEF ContractStep, Contract!ContractNext
<1>1. step # "idle"
  BY DEF Complete
<1>2. PICK s \in Sessions : session[s] = "ensuring"
  BY <1>1, SomeoneEnsures DEF ScopeInvariant
<1>3. \A t \in Sessions : session[t] = "ensuring" => t = s
  BY <1>2 DEF ScopeInvariant, OneWalkOverAllDrives
<1>4. session \in [Sessions -> {"out", "admitted", "ensuring", "running", "leaving"}]
  BY DEF ScopeInvariant, TypeOK
<1>5. InPlace' = InPlace
  BY SameInPlace DEF Abandon, Complete, scopeVars
<1>6. CASE Abandon
  <2>1. session' = [session EXCEPT ![s] = "leaving"]
    BY <1>2, <1>3, <1>4, <1>6 DEF Abandon
  <2>2. InPlace \in {"none", "partial", "full"}
    BY DEF InPlace
  <2> QED
    BY <1>2, <1>5, <2>1, <2>2 DEF Contract!Abandoned, Contract!Move, Contract!Partly
<1>7. CASE Complete
  <2>1. session' = [session EXCEPT ![s] = "running"]
    BY <1>2, <1>3, <1>4, <1>7 DEF Complete
  <2>2. Roots \ Removable \subseteq volumes
    BY <1>7 DEF Complete, ScopeInvariant, WalkFollowsStep, OneWalkOverAllDrives
  <2>3. InPlace = "full"
    BY <1>1, <2>2, FullInUse, SomeoneEnsures DEF ScopeInvariant
  <2> QED
    BY <1>2, <1>5, <2>1, <2>3 DEF Contract!Ensured, Contract!Move
<1> QED
  BY <1>6, <1>7

\* Every step keeps the contract.
LEMMA ContractSteps ==
    ASSUME ScopeInvariant, ScopeStaysInUse', [Next]_vars
    PROVE  ContractStep
<1>1. ASSUME NEW o \in Objects, NEW mask \in {"none", "full", "ancestor", "space"},
             NEW root \in BOOLEAN, Writes(o, mask, root)
      PROVE  ContractStep
  <2>1. UNCHANGED <<session, volumes>>
    BY <1>1, WriteSteps DEF ScopeInvariant
  <2>2. step # "idle"
    BY <1>1
       DEF Writes, VisitReadable, VisitDenied, Sweep, LeaveAncestor, GrantSpace, Enter, Due,
           ScopeInvariant, WalkFollowsStep
  <2> QED
    BY <2>1, <2>2, WorkStep
<1>2. ASSUME NEW s \in Sessions, NEW work \in WorkDirs, Begin(s, work)
      PROVE  ContractStep
  <2>1. /\ session[s] = "admitted" /\ session' = [session EXCEPT ![s] = "ensuring"]
        /\ UNCHANGED <<dacl, volumes>>
        /\ \A t \in Sessions : session[t] # "ensuring"
    BY <1>2 DEF Begin, scopeVars, ScopeInvariant, WalkFollowsStep
  <2>2. Active # {} /\ Active' # {}
    BY <2>1 DEF Active, ScopeInvariant, TypeOK
  <2>3. InPlace' = "full" <=> InPlace = "full"
    BY <2>1, <2>2, FullInUse DEF InPlace, ScopeInvariant, ScopeStaysInUse
  <2>4. InPlace' = InPlace
    BY <2>1, <2>3 DEF InPlace
  <2> QED
    BY <2>1, <2>4 DEF ContractStep, Contract!ContractNext, Contract!Begin, Contract!Move
<1>3. ASSUME NEW d \in Dirs, VisitAncestor(d) \/ FinishVolume(d) \/ SkipEmptyDrive(d)
      PROVE  ContractStep
  <2>1. UNCHANGED session /\ volumes \subseteq volumes'
    BY <1>3 DEF VisitAncestor, FinishVolume, SkipEmptyDrive
  <2>2. step # "idle"
    BY <1>3 DEF VisitAncestor, FinishVolume, SkipEmptyDrive, Enter, Due
  <2> QED
    BY <2>1, <2>2, WorkStep
<1>4. ASSUME NEW o \in Objects, EntryFails(o)
      PROVE  ContractStep
  BY <1>4, EndContract DEF EntryFails, Enter, Due
<1>5. CASE VolumesDone \/ UNCHANGED vars
  <2>1. UNCHANGED <<session, dacl, volumes, allowed>>
    BY <1>5 DEF VolumesDone, scopeVars, vars
  <2> QED
    BY <2>1, SameInPlace DEF ContractStep, Contract!contractVars
<1>6. CASE Complete \/ Fail
  BY <1>6, EndContract DEF Fail
<1> QED
  BY <1>1, <1>2, <1>3, <1>4, <1>5, <1>6, RestoreContract, StepKinds DEF Keeps

\* BrokerReadScope keeps the contract the broker relies on, for any tree of directories
\* and any number of sessions.
THEOREM ScopeKeepsContract == Spec => ImplementsContract
<1>1. Init => Contract!ContractInit
  <2> SUFFICES ASSUME Init
               PROVE  Contract!ContractInit
    OBVIOUS
  <2>1. volumes = {} /\ Roots \ Removable # {} /\ dacl = First
    BY ScopeConstants DEF Init
  <2>2. InPlace = "none"
    BY <2>1 DEF InPlace
  <2> QED
    BY <2>2 DEF Init, Contract!ContractInit
<1>2. ScopeInvariant /\ ScopeInvariant' /\ [Next]_vars => ContractStep
  BY ContractSteps DEF ScopeInvariant
<1>3. ScopeInvariant /\ ScopeInvariant' /\ [Next]_vars
        => [Contract!ContractNext]_(Contract!contractVars)
  BY <1>2 DEF ContractStep
<1> QED
  BY <1>1, <1>3, InvariantHolds, PTL DEF Spec, ImplementsContract, Contract!ContractSpec
=============================================================================
