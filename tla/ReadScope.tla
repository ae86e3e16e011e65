------------------------------ MODULE ReadScope ------------------------------
(***************************************************************************)
(* The read scope of one account (BrokerReadScope) under the sessions that *)
(* share it: temporary ACEs deny the account every directory outside its   *)
(* readable roots.  A scope walks the volumes from their roots, denies     *)
(* what is outside, leaves ancestors of readable roots traversable and     *)
(* keeps in a ledger which ACEs it has added, so that restoration can take *)
(* them away again.  Every call to Windows may fail, programs of earlier   *)
(* sessions run meanwhile, and restoration may leave ACEs behind.          *)
(*                                                                         *)
(* One step is one object whose ACL is written: readScopeMutex keeps other *)
(* scopes away, but running programs see each write.                       *)
(***************************************************************************)
EXTENDS Naturals, FiniteSets

CONSTANTS Dirs,       \* directories of the mounted volumes
          Up,         \* Up[d]: d and the directories above it
          Removable,  \* roots of drives that may be empty
          Readable,   \* Windows, Program Files and the account's profile
          WorkDirs,   \* working directories sessions ask for
          Spaces,     \* object namespace directories of the session
          Owned,      \* directories the account owns
          First,      \* First[o]: the ACEs of these kinds before any scope
          MaxEntries, \* objects a scope may hold (10'000)
          Sessions    \* sessions that share the scope

Objects == Dirs \cup Spaces

\* What the account is denied: everything, or changes of an ancestor; WRITE_DAC of the
\* owner.  What it is granted: traversal of a directory, or of a namespace directory.
Aces == {"full", "ancestor", "owner", "traverse", "space"}

Above(d) == Up[d] \ {d}
Child(d, c) == d \in Above(c) /\ \A e \in Above(c) : e \in Up[d]
Roots == {d \in Dirs : Up[d] = {d}}

ASSUME ScopeConstants ==
    /\ Dirs \cap Spaces = {}
    /\ Up \in [Dirs -> SUBSET Dirs]
    /\ \A d \in Dirs : d \in Up[d]
    /\ \A d \in Dirs : \A e \in Up[d] : Up[e] \subseteq Up[d]
    /\ \A d \in Dirs : \A e \in Up[d] : d \in Up[e] => d = e
    /\ \A d \in Dirs : \A e, f \in Up[d] : e \in Up[f] \/ f \in Up[e]
    /\ \A d \in Dirs : \A some \in SUBSET Up[d] :
          some # {} => \E top \in some : \A e \in some : top \in Up[e]
    /\ Removable \subseteq Roots
    /\ Roots \ Removable # {}     \* the system drive
    /\ Readable \subseteq Dirs
    /\ WorkDirs \subseteq Dirs
    /\ Owned \subseteq Dirs
    /\ First \in [Objects -> SUBSET Aces]
    /\ MaxEntries \in Nat

VARIABLES
    dacl,     \* the ACEs of these kinds each object carries
    added,    \* those of them the scope's ledger claims (Entry::added...)
    entries,  \* objects the ledger has an entry for (entries_)
    held,     \* entries with an open handle
    allowed,  \* readable roots, broadest only (allowed_)
    volumes,  \* volume roots visited completely (volumes_)
    session,  \* what each session does
    step,     \* what Ensure does: "idle", "walk" or "spaces"
    todo,     \* volume roots this walk has not finished
    open,     \* ancestors this walk is inside of
    done,     \* directories this walk has dealt with
    sweep,    \* entries below a readable directory still to be released
    spaces,   \* namespace directories still to be granted
    served    \* readable roots some completed Ensure has opened

scopeVars == <<dacl, added, entries, held>>
walkVars == <<todo, open, done, sweep, spaces>>
vars == <<dacl, added, entries, held, allowed, volumes, session, step, todo, open, done,
          sweep, spaces, served>>

Init ==
    /\ dacl = First
    /\ added = [o \in Objects |-> {}]
    /\ entries = {} /\ held = {} /\ allowed = {} /\ volumes = {}
    /\ session = [s \in Sessions |-> "out"]
    /\ step = "idle"
    /\ todo = {} /\ open = {} /\ done = {} /\ sweep = {} /\ spaces = {}
    /\ served = {}

-----------------------------------------------------------------------------
(* One object's ACL (SetAccess).                                           *)

\* The ACEs SetAccess wants for a mask; it adds what others have not granted already.
Wanted(o, mask, readableRoot) ==
    (IF mask = "none" THEN {} ELSE {mask})
    \cup (IF mask # "none" /\ o \in Owned THEN {"owner"} ELSE {})
    \cup (IF o \in Dirs /\ (readableRoot \/ mask = "ancestor") THEN {"traverse"} ELSE {})

\* Everybody else's ACEs stay, the scope's own are replaced.
SetAccess(o, mask, readableRoot) ==
    LET kept == dacl[o] \ added[o]
        wanted == Wanted(o, mask, readableRoot)
    IN  /\ dacl' = [dacl EXCEPT ![o] = kept \cup wanted]
        /\ added' = [added EXCEPT ![o] = wanted \ kept]

\* Mutant: the ledger is forgotten although some ACEs stay.
RestoreForgets(stuck) ==
    /\ dacl' = [o \in Objects |-> IF o \in stuck THEN dacl[o] ELSE dacl[o] \ added[o]]
    /\ added' = [o \in Objects |-> {}]
    /\ entries' = {} /\ held' = {} /\ allowed' = {} /\ volumes' = {} /\ served' = {}

\* Restore goes over the whole ledger; the objects of stuck keep their ACEs.  Only a
\* complete restoration forgets the ledger and the roots.
RestoreExcept(stuck) ==
    /\ dacl' = [o \in Objects |-> IF o \in stuck THEN dacl[o] ELSE dacl[o] \ added[o]]
    /\ added' = [o \in Objects |-> IF o \in stuck THEN added[o] ELSE {}]
    /\ IF stuck = {}
       THEN entries' = {} /\ held' = {} /\ allowed' = {} /\ volumes' = {} /\ served' = {}
       ELSE UNCHANGED <<entries, held, allowed, volumes, served>>

MayStick == {o \in Objects : added[o] # {}}

-----------------------------------------------------------------------------
(* Sessions: admission, and release after the program or a failed launch.  *)

Active == {s \in Sessions : session[s] # "out"}

\* TryReserveSession: the first session of a retained scope restores it before anything.
Admit(s) ==
    /\ session[s] = "out"
    /\ session' = [session EXCEPT ![s] = "admitted"]
    /\ IF Active = {} THEN RestoreExcept({})
                      ELSE UNCHANGED <<scopeVars, allowed, volumes, served>>
    /\ UNCHANGED <<step, walkVars>>

\* The retained scope cannot be restored: nobody is admitted.
Refuse ==
    /\ Active = {}
    /\ \E stuck \in SUBSET MayStick \ {{}} : RestoreExcept(stuck)
    /\ UNCHANGED <<session, step, walkVars>>

\* ReleaseSession: the last one restores the scope, and retains it if that fails.
Release(s) ==
    /\ session[s] \in {"admitted", "running", "leaving"}
    /\ session' = [session EXCEPT ![s] = "out"]
    /\ \/ Active # {s} /\ UNCHANGED <<scopeVars, allowed, volumes, served>>
       \/ Active = {s} /\ \E stuck \in SUBSET MayStick : RestoreExcept(stuck)
    /\ UNCHANGED <<step, walkVars>>

-----------------------------------------------------------------------------
(* Ensure: commit the roots, walk the volumes, grant the namespace.        *)

Broadest(roots) == {r \in roots : \A q \in roots : q \in Up[r] => q = r}

\* launchMutex_ lets one session prepare at a time.
Begin(s, work) ==
    /\ session[s] = "admitted"
    /\ step = "idle"
    /\ session' = [session EXCEPT ![s] = "ensuring"]
    /\ step' = "walk"
    /\ allowed' = Broadest(allowed \cup Readable \cup {work})
    /\ todo' = Roots
    /\ open' = {} /\ done' = {} /\ sweep' = {} /\ spaces' = Spaces
    /\ UNCHANGED <<scopeVars, volumes, served>>

\* What was written stays written, and the session is released.
Abandon ==
    /\ step' = "idle"
    /\ session' = [s \in Sessions |-> IF session[s] = "ensuring" THEN "leaving" ELSE session[s]]
    /\ todo' = {} /\ open' = {} /\ done' = {} /\ sweep' = {} /\ spaces' = {}
    /\ UNCHANGED <<dacl, added, allowed, volumes, served>>

\* Any call fails, or the deadline or the limit of the walk is reached.
Fail ==
    /\ step # "idle"
    /\ Abandon
    /\ UNCHANGED <<entries, held>>

Within(d) == \E r \in allowed : r \in Up[d]
AncestorOf(d) == \E r \in allowed : d \in Up[r]

\* The walk goes on in the innermost ancestor it is inside of.
Innermost(d) == d \in open /\ \A e \in open : e \in Up[d]

\* What comes next: a volume's root, a child of the innermost open ancestor, or a
\* namespace directory.
Due(o) ==
    \/ /\ step = "walk" /\ sweep = {} /\ o \in Dirs \ done
       /\ \/ open = {} /\ done \cap todo = {} /\ o \in todo
          \/ \E e \in open : Innermost(e) /\ Child(e, o)
    \/ step = "spaces" /\ o \in spaces

\* Its entry; a fresh one counts against the quota before its handle is kept.  Only the
\* walk needs the handle an earlier entry has kept.
Enter(o) ==
    /\ Due(o)
    /\ entries' = entries \cup {o}
    /\ held' = held \cup {o}
    /\ Cardinality(entries') <= MaxEntries
    /\ o \in entries \cap Dirs => o \in held

\* Writing its ACL fails, or no handle is there: the entry stays, without an ACE of ours.
EntryFails(o) ==
    /\ \/ Enter(o)
       \/ /\ Due(o)
          /\ entries' = entries \cup {o}
          /\ Cardinality(entries') > MaxEntries \/ o \in Spaces
          /\ UNCHANGED held
    /\ Abandon

\* A readable directory: no denial, and none on what an earlier walk denied below it.
VisitReadable(d) ==
    /\ Enter(d)
    /\ Within(d)
    /\ SetAccess(d, "none", TRUE)
    /\ done' = done \cup {d}
    /\ sweep' = {e \in entries \cap Dirs : d \in Above(e)}
    /\ UNCHANGED <<allowed, volumes, session, step, todo, open, spaces, served>>

\* Mutant: a dropped entry takes the traversal of an old root with it.
SweepUntraversed(e) ==
    /\ e \in sweep \cap held
    /\ SetAccess(e, "none", FALSE)
    /\ sweep' = sweep \ {e}
    /\ entries' = entries \ {e} /\ held' = held \ {e}
    /\ UNCHANGED <<allowed, volumes, session, step, todo, open, done, spaces, served>>

\* An entry the scope has no ACE left on is dropped, so that the folder can be renamed
\* again; traversal that a formerly readable root needs is kept.
Sweep(e) ==
    /\ e \in sweep \cap held
    /\ SetAccess(e, "none", TRUE)
    /\ sweep' = sweep \ {e}
    /\ IF added'[e] = {} THEN entries' = entries \ {e} /\ held' = held \ {e}
                         ELSE UNCHANGED <<entries, held>>
    /\ UNCHANGED <<allowed, volumes, session, step, todo, open, done, spaces, served>>

VisitDenied(d) ==
    /\ Enter(d)
    /\ ~Within(d) /\ ~AncestorOf(d)
    /\ SetAccess(d, "full", FALSE)
    /\ done' = done \cup {d}
    /\ UNCHANGED <<allowed, volumes, session, step, todo, open, sweep, spaces, served>>

\* Mutant: an ancestor is made traversable before its children are denied.
VisitAncestorFirst(d) ==
    /\ Enter(d)
    /\ ~Within(d) /\ AncestorOf(d)
    /\ SetAccess(d, "ancestor", FALSE)
    /\ open' = open \cup {d}
    /\ UNCHANGED <<allowed, volumes, session, step, todo, done, sweep, spaces, served>>

\* An ancestor's children come first, its own access last.
VisitAncestor(d) ==
    /\ Enter(d)
    /\ ~Within(d) /\ AncestorOf(d)
    /\ open' = open \cup {d}
    /\ UNCHANGED <<dacl, added, allowed, volumes, session, step, todo, done, sweep, spaces,
                   served>>

LeaveAncestor(d) ==
    /\ step = "walk"
    /\ sweep = {}
    /\ Innermost(d)
    /\ \A c \in Dirs : Child(d, c) => c \in done
    /\ SetAccess(d, "ancestor", FALSE)
    /\ open' = open \ {d}
    /\ done' = done \cup {d}
    /\ UNCHANGED <<entries, held, allowed, volumes, session, step, todo, sweep, spaces,
                   served>>

FinishVolume(r) ==
    /\ step = "walk"
    /\ sweep = {} /\ open = {}
    /\ r \in todo \cap done
    /\ todo' = todo \ {r}
    /\ volumes' = volumes \cup {r}
    /\ UNCHANGED <<scopeVars, allowed, session, step, open, done, sweep, spaces, served>>

\* An empty drive has nothing to deny; it is looked at again at the next launch.
SkipEmptyDrive(r) ==
    /\ step = "walk"
    /\ sweep = {} /\ open = {} /\ done \cap todo = {}
    /\ r \in todo \cap Removable
    /\ r \notin volumes
    /\ todo' = todo \ {r}
    /\ UNCHANGED <<scopeVars, allowed, volumes, session, step, open, done, sweep, spaces,
                   served>>

VolumesDone ==
    /\ step = "walk"
    /\ todo = {}
    /\ step' = "spaces"
    /\ UNCHANGED <<scopeVars, allowed, volumes, session, walkVars, served>>

\* EnsureNamespaceDirectories, one directory of it.
GrantSpace(p) ==
    /\ p \in Spaces
    /\ Enter(p)
    /\ SetAccess(p, "space", FALSE)
    /\ spaces' = spaces \ {p}
    /\ UNCHANGED <<allowed, volumes, session, step, todo, open, done, sweep, served>>

\* Ensure returns: the session's program is created and runs.
Complete ==
    /\ step = "spaces"
    /\ spaces = {}
    /\ step' = "idle"
    /\ session' = [s \in Sessions |-> IF session[s] = "ensuring" THEN "running" ELSE session[s]]
    /\ served' = served \cup {r \in allowed : \E v \in volumes : v \in Up[r]}
    /\ done' = {}
    /\ UNCHANGED <<scopeVars, allowed, volumes, todo, open, sweep, spaces>>

-----------------------------------------------------------------------------
Visit(d) == VisitReadable(d) \/ VisitDenied(d) \/ VisitAncestor(d)

Next ==
    \/ \E s \in Sessions :
          Admit(s) \/ Release(s) \/ \E work \in WorkDirs : Begin(s, work)
    \/ Refuse
    \/ \E d \in Dirs :
          Visit(d) \/ Sweep(d) \/ LeaveAncestor(d) \/ FinishVolume(d) \/ SkipEmptyDrive(d)
    \/ \E o \in Objects : EntryFails(o) \/ GrantSpace(o)
    \/ VolumesDone \/ Complete \/ Fail

Spec == Init /\ [][Next]_vars
-----------------------------------------------------------------------------
(* Properties.                                                             *)

\* Variables keep their shape.
TypeOK ==
    /\ dacl \in [Objects -> SUBSET Aces]
    /\ added \in [Objects -> SUBSET Aces]
    /\ entries \in SUBSET Objects
    /\ held \in SUBSET entries
    /\ allowed \in SUBSET Dirs
    /\ volumes \in SUBSET Roots
    /\ session \in [Sessions -> {"out", "admitted", "ensuring", "running", "leaving"}]
    /\ step \in {"idle", "walk", "spaces"}
    /\ todo \in SUBSET Roots
    /\ open \in SUBSET Dirs
    /\ done \in SUBSET Dirs
    /\ sweep \in SUBSET Dirs
    /\ spaces \in SUBSET Spaces
    /\ served \in SUBSET Dirs

Running == \E s \in Sessions : session[s] = "running"
Exempt(d) == Within(d) \/ AncestorOf(d)

(* The inductive invariant.                                                *)

\* The ledger is exact: it claims the ACEs the scope has put in place and no others, and
\* an entry with a handle stands for each of them.
LedgerIsExact ==
    \A o \in Objects :
        /\ dacl[o] = First[o] \cup added[o]
        /\ First[o] \cap added[o] = {}
        /\ added[o] # {} => o \in held

\* Readable roots are the broadest ones, and what was served stays readable.
RootsAreBroadest ==
    /\ \A q, r \in allowed : q \in Up[r] => q = r
    /\ \A r \in served : Within(r)

\* Where the walk is.
WalkFollowsStep ==
    /\ step = "idle" <=> \A s \in Sessions : session[s] # "ensuring"
    /\ step = "idle" => todo = {} /\ open = {} /\ done = {} /\ sweep = {} /\ spaces = {}
    /\ todo = {} => open = {} /\ sweep = {}
    /\ step = "spaces" => todo = {}
    /\ step # "idle" => volumes \subseteq todo \cup done
    /\ \A d \in open :
          ~Within(d) /\ AncestorOf(d) /\ d \in held \ done /\ Above(d) \subseteq open
    /\ \A e \in sweep : Within(e)

\* One session at a time prepares, and its walk passes over no drive that is not empty.
OneWalkOverAllDrives ==
    /\ \A s, t \in Sessions : session[s] = "ensuring" /\ session[t] = "ensuring" => s = t
    /\ step # "idle" => Roots \ Removable \subseteq todo \cup volumes

\* Below d everything outside the readable roots is denied, by an object not above d.
Covered(d) ==
    \A x \in Dirs :
        d \in Up[x] /\ ~Exempt(x) => \E u \in Up[x] : d \in Up[u] /\ "full" \in dacl[u]

\* A directory the account can pass through.
Passable(d) == "full" \notin added[d] /\ "traverse" \in dacl[d]

\* A readable root and the way to it from d are open, as is all below it but the exceptions.
OpenFrom(d, r, except) ==
    /\ \A u \in Up[r] : d \in Up[u] => Passable(u)
    /\ \A x \in Dirs : r \in Up[x] => added[x] \subseteq {"traverse"} \/ x \in except

\* What the walk has dealt with is denied and opened as it should be.
WalkIsComplete ==
    /\ \A d \in done : Covered(d)
    /\ \A d \in done : \A r \in allowed : d \in Up[r] => OpenFrom(d, r, sweep)
    /\ step # "idle" => \A p \in Spaces \ spaces : "space" \in dacl[p]

\* While a session uses the scope, whatever later launches do, visited volumes are denied
\* and the served roots are open.
ScopeStaysInUse ==
    /\ Active # {} =>
          /\ \A v \in volumes : Covered(v)
          /\ \A r \in served : \A v \in Roots : v \in Up[r] => OpenFrom(v, r, {})
    /\ Running => \A p \in Spaces : "space" \in dacl[p]

ScopeInvariant ==
    TypeOK /\ LedgerIsExact /\ RootsAreBroadest /\ WalkFollowsStep /\ OneWalkOverAllDrives
    /\ WalkIsComplete /\ ScopeStaysInUse

(* What follows from it.                                                   *)

\* A running program is confined at every moment, also while a later launch of the account
\* widens the scope and when that fails half-way: outside the readable roots and the way to
\* them, each directory of a visited volume is denied, itself or above (Visit, "Deny siblings
\* first before making a previously blocked ancestor traversable").
ConfinedWhileRunning ==
    Running =>
        \A v \in volumes : \A d \in Dirs :
            v \in Up[d] /\ ~Exempt(d) => \E u \in Up[d] : "full" \in dacl[u]

\* A program keeps access to the roots it was given, traversal of every directory above them
\* included, when a later launch makes a broader root readable and drops entries below it.
RootsStayOpen ==
    Running =>
        \A r \in served :
            /\ \A u \in Up[r] : Passable(u)
            /\ "full" \notin added[r] /\ "ancestor" \notin added[r]

\* A scope without entries has left nothing behind: every object has the ACEs it had at
\* first, whatever failed before, however often the scope was widened or retried.
RestoredMeansFirst == entries = {} => dacl = First

\* How much of the denials is in place, as a session sees it: all that a fixed drive
\* needs, nothing beside the ACEs there were at first, or something between.
InPlace ==
    IF Roots \ Removable \subseteq volumes /\ \A v \in volumes : Covered(v) THEN "full"
    ELSE IF dacl = First THEN "none" ELSE "partial"

Contract == INSTANCE ScopeContract WITH stage <- session, inPlace <- InPlace

\* What the broker relies on: the scope starts empty for the first session, is complete
\* before a program runs, is never reduced while anybody uses it, by no failed or repeated
\* preparation either, and is taken away only with its last session.
ImplementsContract == Contract!ContractSpec
=============================================================================
