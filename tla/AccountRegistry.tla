--------------------------- MODULE AccountRegistry ---------------------------
(***************************************************************************)
(* Registration of accounts: RegistrationService over the Windows account  *)
(* database and the enrollment store.  A record, authenticated with a      *)
(* machine key, says which account (SID) the broker manages under a name.  *)
(* An operation is a sequence of Windows calls; each may fail, the service *)
(* may die between two of them, and an administrator may delete, create    *)
(* and change accounts meanwhile.  launchMutex_ lets one operation run at  *)
(* a time.                                                                 *)
(***************************************************************************)
EXTENDS Naturals, FiniteSets

CONSTANTS Names,  \* account names
          Sids,   \* SIDs Windows hands out, each to one account and never again
          None

VARIABLES
    holder,       \* the account (SID) that has each name now
    unused,       \* SIDs not handed out yet
    provisioned,  \* accounts the broker gave a password and then the required flags
    disabled,     \* disabled accounts
    admins,       \* members of the local Administrators group
    record,       \* the enrollment file of each name
    key,          \* the machine key file exists
    op,           \* the operation under way, or the last one
    swapped       \* accounts an administrator created while the operation on their name ran,
                  \* or an earlier one that recorded them (history, of no effect)

accountVars == <<holder, unused, provisioned, disabled, admins>>
registryVars == <<holder, unused, provisioned, disabled, admins, record, key, op, swapped>>

\* Version 2 records (managed FALSE) carry no provenance.  A record is readable while the
\* machine key is the one that signed it.
Records == [sid : Sids, managed : BOOLEAN, readable : BOOLEAN]

Kinds == {"create", "takeover", "reset", "forget", "delete"}
Steps == {"load", "check", "existing", "add", "password", "harden", "comment",
          "resolve", "store", "erase", "remove"}

\* clear: begun with a record that does not stand in the way; calm: no call has failed and
\* no administrator has interfered since.
Operations ==
    [kind : Kinds, name : Names, force : BOOLEAN, at : Steps \cup {"done", "refused"},
     sid : Sids \cup {None}, retried : BOOLEAN, clear : BOOLEAN, calm : BOOLEAN]

ASSUME NoneIsApart == None \notin Sids /\ None \notin Records /\ None \notin Operations

Idle == op # None => op.at \in {"done", "refused"}

RegistryInit ==
    /\ holder \in [Names -> Sids \cup {None}]
    /\ \A m, n \in Names : holder[m] = holder[n] /\ holder[m] # None => m = n
    /\ unused = Sids \ {holder[n] : n \in Names}
    /\ provisioned = {} /\ swapped = {}
    /\ disabled \in SUBSET (Sids \ unused) /\ admins \in SUBSET (Sids \ unused)
    /\ record \in [Names -> [sid : Sids \ unused, managed : {FALSE}, readable : BOOLEAN]
                               \cup {None}]
    /\ key \in BOOLEAN
    /\ op = None

-----------------------------------------------------------------------------
(* The enrollment store.                                                   *)

\* LoadOrCreateMachineKey: a missing key is replaced, and no older record verifies.
CreateKey ==
    /\ key' = TRUE
    /\ record' = [n \in Names |->
                    IF record[n] = None THEN None ELSE [record[n] EXCEPT !.readable = FALSE]]

Trusted(n) == record[n] # None /\ key /\ record[n].readable
Managed(n) == Trusted(n) /\ record[n].managed

Goto(step) == op' = [op EXCEPT !.at = step]
Return(result) == op' = [op EXCEPT !.at = result, !.sid = None, !.retried = FALSE]
Finish == Return("done")
Refuse == Return("refused")

\* Only the steps of the operation under way.
At(n, step) == op # None /\ op.name = n /\ op.at = step

\* What an operation starts with: of the accounts swapped in earlier only the recorded ones.
Recorded == {record[n].sid : n \in {m \in Names : record[m] # None}}

Begin(kind, n, force) ==
    /\ Idle
    /\ force => kind = "takeover"
    /\ op' = [kind |-> kind, name |-> n, force |-> force,
              at |-> IF kind = "forget" THEN "remove" ELSE "load",
              sid |-> None, retried |-> FALSE, calm |-> TRUE,
              clear |-> CASE kind = "takeover" ->
                                (record[n] = None \/ Trusted(n)) /\ holder[n] \notin admins
                          [] kind = "delete" -> Managed(n) /\ holder[n] \in {None, record[n].sid}
                          [] OTHER -> FALSE]
    /\ swapped' = swapped \cap Recorded
    /\ UNCHANGED <<accountVars, record, key>>

\* Mutant: a record that does not verify counts as none.
LoadIgnoresErrors(n) ==
    /\ At(n, "load")
    /\ CASE Managed(n) /\ op.kind # "create" ->
               op' = [op EXCEPT !.at = "check", !.sid = record[n].sid]
         [] ~Trusted(n) /\ op.kind = "create" -> Goto("add")
         [] ~Managed(n) /\ op.kind = "takeover" -> Goto("existing")
         [] OTHER -> Refuse
    /\ UNCHANGED <<accountVars, record, key, swapped>>

\* EnrollmentStore::Load, and what each operation does with the outcome.  A malformed record
\* is refused before the key is looked for.
Load(n) ==
    /\ At(n, "load")
    /\ \/ /\ record[n] = None
          /\ CASE op.kind = "create" -> Goto("add")
               [] op.kind = "takeover" -> Goto("existing")
               [] OTHER -> Refuse
          /\ UNCHANGED <<record, key>>
       \/ /\ record[n] # None /\ ~key
          /\ CreateKey
          /\ Refuse
       \/ /\ record[n] # None /\ (key \/ ~record[n].readable)
          /\ CASE Managed(n) /\ op.kind # "create" ->
                     op' = [op EXCEPT !.at = "check", !.sid = record[n].sid]
               [] Trusted(n) /\ ~Managed(n) /\ op.kind = "takeover" -> Goto("existing")
               [] OTHER -> Refuse
          /\ UNCHANGED <<record, key>>
    /\ UNCHANGED <<accountVars, swapped>>

\* Mutant: a deletion does not compare the account with the recorded one.
CheckDeletesAny(n) ==
    /\ At(n, "check")
    /\ CASE op.kind = "takeover" ->
              IF holder[n] = op.sid \/ op.force THEN Goto("existing") ELSE Refuse
         [] op.kind = "reset" -> IF holder[n] = op.sid THEN Goto("password") ELSE Refuse
         [] op.kind = "delete" -> IF holder[n] = None THEN Goto("remove") ELSE Goto("erase")
    /\ UNCHANGED <<accountVars, record, key, swapped>>

\* The account that has the name now must be the recorded one.
Check(n) ==
    /\ At(n, "check")
    /\ CASE op.kind = "takeover" ->
              IF holder[n] = op.sid \/ op.force THEN Goto("existing") ELSE Refuse
         [] op.kind = "reset" -> IF holder[n] = op.sid THEN Goto("password") ELSE Refuse
         [] op.kind = "delete" ->
              IF holder[n] = None THEN Goto("remove")
              ELSE IF holder[n] = op.sid THEN Goto("erase") ELSE Refuse
    /\ UNCHANGED <<accountVars, record, key, swapped>>

-----------------------------------------------------------------------------
(* Provisioning.                                                           *)

\* No account: a forced take-over creates it, once.
NotFound == IF op.force /\ ~op.retried THEN Goto("add") ELSE Refuse

\* Mutant: a forced take-over does not create the account that is missing.
LookOnlyAtExisting(n) ==
    /\ At(n, "existing")
    /\ IF holder[n] = None \/ holder[n] \in admins \/ (holder[n] \in disabled /\ ~op.force)
       THEN Refuse
       ELSE Goto("password")
    /\ UNCHANGED <<accountVars, record, key, swapped>>

\* TakeOverExistingLocalAccount looks first.
LookAtExisting(n) ==
    /\ At(n, "existing")
    /\ IF holder[n] = None THEN NotFound
       ELSE IF holder[n] \in admins \/ (holder[n] \in disabled /\ ~op.force) THEN Refuse
       ELSE Goto("password")
    /\ UNCHANGED <<accountVars, record, key, swapped>>

\* CreateBrokerManagedLocalAccount; a forced take-over goes back when the name is taken.
AddAccount(n) ==
    /\ At(n, "add")
    /\ IF holder[n] # None
       THEN /\ IF op.kind = "takeover"
               THEN op' = [op EXCEPT !.at = "existing", !.retried = TRUE]
               ELSE Refuse
            /\ UNCHANGED accountVars
       ELSE /\ \E s \in unused :
                 /\ holder' = [holder EXCEPT ![n] = s]
                 /\ unused' = unused \ {s}
                 /\ provisioned' = provisioned \cup {s}
            /\ Goto("resolve")
            /\ UNCHANGED <<disabled, admins>>
    /\ UNCHANGED <<record, key, swapped>>

\* NetUserSetInfo 1003, of ResetPassword and of RefreshBrokerManagedLocalAccount.
SetPassword(n) ==
    /\ At(n, "password")
    /\ IF holder[n] = None THEN NotFound
       ELSE IF op.kind = "reset" THEN Finish
       ELSE IF holder[n] \in admins THEN Refuse
       ELSE op' = [op EXCEPT !.at = "harden", !.sid = holder[n]]
    /\ UNCHANGED <<accountVars, record, key, swapped>>

\* Mutant: only an account that was disabled is hardened.
HardenIfDisabled(n) ==
    /\ At(n, "harden")
    /\ IF holder[n] = None THEN NotFound /\ UNCHANGED <<provisioned, disabled>>
       ELSE /\ provisioned' = provisioned \cup ({holder[n]} \cap {op.sid} \cap disabled)
            /\ disabled' = disabled \ {holder[n]}
            /\ Goto("comment")
    /\ UNCHANGED <<holder, unused, admins, record, key, swapped>>

\* EnableAndHardenBrokerManagedAccount, of the account whose password was set, or of one
\* swapped in since.
Harden(n) ==
    /\ At(n, "harden")
    /\ IF holder[n] = None THEN NotFound /\ UNCHANGED <<provisioned, disabled>>
       ELSE /\ provisioned' = provisioned \cup ({holder[n]} \cap {op.sid})
            /\ disabled' = disabled \ {holder[n]}
            /\ Goto("comment")
    /\ UNCHANGED <<holder, unused, admins, record, key, swapped>>

SetComment(n) ==
    /\ At(n, "comment")
    /\ IF holder[n] = None THEN NotFound ELSE Goto("resolve")
    /\ UNCHANGED <<accountVars, record, key, swapped>>

\* GetBrokerAccountSid, for the record.
Resolve(n) ==
    /\ At(n, "resolve")
    /\ IF holder[n] = None THEN Refuse
                           ELSE op' = [op EXCEPT !.at = "store", !.sid = holder[n]]
    /\ UNCHANGED <<accountVars, record, key, swapped>>

\* EnrollmentStore::Store: the key first, then the record, written aside and renamed.
StoreKey(n) ==
    /\ At(n, "store")
    /\ ~key
    /\ CreateKey
    /\ UNCHANGED <<accountVars, op, swapped>>

StoreRecord(n) ==
    /\ At(n, "store")
    /\ key
    /\ record' = [record EXCEPT ![n] = [sid |-> op.sid, managed |-> TRUE, readable |-> TRUE]]
    /\ Finish
    /\ UNCHANGED <<accountVars, key, swapped>>

-----------------------------------------------------------------------------
(* Removal, listing, failures.                                             *)

\* NetUserDel.
Erase(n) ==
    /\ At(n, "erase")
    /\ IF holder[n] = None THEN Refuse /\ UNCHANGED holder
                           ELSE holder' = [holder EXCEPT ![n] = None] /\ Goto("remove")
    /\ UNCHANGED <<unused, provisioned, disabled, admins, record, key, swapped>>

RemoveRecord(n) ==
    /\ At(n, "remove")
    /\ IF record[n] = None THEN Refuse ELSE Finish
    /\ record' = [record EXCEPT ![n] = None]
    /\ UNCHANGED <<accountVars, key, swapped>>

\* List loads every record, and so may replace a missing key.
List ==
    /\ Idle
    /\ ~key /\ \E n \in Names : record[n] # None
    /\ CreateKey
    /\ UNCHANGED <<accountVars, op, swapped>>

\* A call fails, or the service dies: what was done stays done.
Interrupt ==
    /\ ~Idle
    /\ op' = [op EXCEPT !.at = "refused", !.sid = None, !.retried = FALSE, !.calm = FALSE]
    /\ UNCHANGED <<accountVars, record, key, swapped>>

-----------------------------------------------------------------------------
(* Administrators.                                                         *)

Disturb(n) == op' = IF op # None /\ op.name = n THEN [op EXCEPT !.calm = FALSE] ELSE op

AdminDeletes(n) ==
    /\ holder[n] # None
    /\ holder' = [holder EXCEPT ![n] = None]
    /\ Disturb(n)
    /\ UNCHANGED <<unused, provisioned, disabled, admins, record, key, swapped>>

AdminCreates(n) ==
    /\ holder[n] = None
    /\ \E s \in unused :
          /\ holder' = [holder EXCEPT ![n] = s]
          /\ unused' = unused \ {s}
          /\ swapped' = IF ~Idle /\ op.name = n THEN swapped \cup {s} ELSE swapped
    /\ Disturb(n)
    /\ UNCHANGED <<provisioned, disabled, admins, record, key>>

AdminChanges(n) ==
    /\ holder[n] # None
    /\ \/ disabled' = disabled \cup {holder[n]} /\ UNCHANGED admins
       \/ admins' = admins \cup {holder[n]} /\ UNCHANGED disabled
    /\ Disturb(n)
    /\ UNCHANGED <<holder, unused, provisioned, record, key, swapped>>

\* The data directory is restored without the key file while nothing runs.
KeyIsLost ==
    /\ Idle /\ key
    /\ key' = FALSE
    /\ UNCHANGED <<accountVars, record, op, swapped>>

-----------------------------------------------------------------------------
OperationStep(n) ==
    \/ Load(n) \/ Check(n) \/ LookAtExisting(n) \/ AddAccount(n) \/ SetPassword(n)
    \/ Harden(n) \/ SetComment(n) \/ Resolve(n) \/ StoreKey(n) \/ StoreRecord(n)
    \/ Erase(n) \/ RemoveRecord(n)

AdminStep(n) == AdminDeletes(n) \/ AdminCreates(n) \/ AdminChanges(n)

RegistryNext ==
    \/ \E n \in Names :
          OperationStep(n) \/ AdminStep(n)
             \/ \E kind \in Kinds, force \in BOOLEAN : Begin(kind, n, force)
    \/ List \/ Interrupt \/ KeyIsLost

RegistrySpec == RegistryInit /\ [][RegistryNext]_registryVars
-----------------------------------------------------------------------------
(* Properties.                                                             *)

\* Variables keep their shape.
RegistryTypeOK ==
    /\ holder \in [Names -> Sids \cup {None}]
    /\ unused \in SUBSET Sids
    /\ provisioned \in SUBSET Sids
    /\ disabled \in SUBSET Sids /\ admins \in SUBSET Sids
    /\ record \in [Names -> Records \cup {None}]
    /\ key \in BOOLEAN
    /\ op \in Operations \cup {None}
    /\ swapped \in SUBSET Sids

\* SIDs are handed out once.
AccountsAreUnique ==
    /\ \A m, n \in Names : holder[m] = holder[n] /\ holder[m] # None => m = n
    /\ \A n \in Names : holder[n] \notin unused
    /\ \A n \in Names : record[n] # None => record[n].sid \notin unused
    /\ (disabled \cup admins) \cap unused = {}

SidsAreUnique == AccountsAreUnique /\ (op # None => op.sid \notin unused)

\* A managed record names an account that the broker has given a password and the required
\* flags, however registration was interrupted; only an account that an administrator put in
\* its place during the very registration that recorded it can slip through, as accounts are
\* named, not pinned, until the SID is read for the record (Create, TakeOver).
RecordNamesProvisioned ==
    \A n \in Names :
        record[n] # None /\ record[n].managed =>
            record[n].sid \in provisioned \cup swapped

\* The account a managed record of this name vouches for, or one swapped in since the
\* operation began.
Vouched(n) == (Managed(n) /\ record[n].sid = holder[n]) \/ holder[n] \in swapped

\* What each step of an operation relies on, whatever happens to the account meanwhile.
Registering(n) ==
    \/ \E step \in {"existing", "add", "harden", "comment", "resolve", "store"} : At(n, step)
    \/ At(n, "password") /\ op.kind # "reset"

StepsRelyOn(n) ==
    /\ op # None /\ op.name = n /\ op.force => op.kind = "takeover"
    /\ At(n, "load") => op.kind # "forget"
    /\ At(n, "check") => Managed(n) /\ op.sid = record[n].sid /\ op.kind \notin {"create", "forget"}
    /\ Registering(n) => op.kind \in {"create", "takeover"} /\ (record[n] = None \/ Trusted(n))
    /\ At(n, "password") /\ op.kind = "reset" => holder[n] = None \/ Vouched(n)
    /\ At(n, "harden") => holder[n] \in {None, op.sid} \cup swapped
    /\ At(n, "comment") \/ At(n, "resolve") => holder[n] \in {None} \cup provisioned \cup swapped
    /\ At(n, "store") => op.sid \in provisioned \cup swapped
    /\ At(n, "erase") => op.kind = "delete" /\ Managed(n) /\ (holder[n] = None \/ Vouched(n))
    /\ At(n, "remove") /\ op.kind # "forget" =>
          op.kind = "delete" /\ Managed(n) /\ record[n].sid # holder[n]

\* What they find when nobody interferes.
CalmStepsFind(n) ==
    /\ op.force /\ ~Idle => ~op.retried /\ holder[n] \notin admins
    /\ op.force =>
          /\ op.kind = "takeover"
          /\ op.at \in {"load", "check", "existing", "add", "password", "harden", "comment",
                        "resolve", "store", "done"}
          /\ At(n, "load") => record[n] = None \/ Trusted(n)
          /\ At(n, "add") => holder[n] = None
          /\ op.at \in {"password", "harden", "comment", "resolve", "store"} => holder[n] # None
          /\ op.at \in {"comment", "resolve", "store"} => holder[n] \notin disabled
          /\ At(n, "store") => op.sid = holder[n]
    /\ op.kind = "delete" =>
          /\ op.at \in {"load", "check", "erase", "remove", "done"}
          /\ At(n, "load") => Managed(n) /\ holder[n] \in {None, record[n].sid}
          /\ At(n, "check") => holder[n] \in {None, op.sid}
          /\ At(n, "erase") => holder[n] # None
          /\ At(n, "remove") => holder[n] = None

\* The broker resets the password of, or deletes, only the account its record names: not one
\* created later under the same name (ResetPassword, Delete).
OnlyRecordedAccountsSuffer ==
    [][\A n \in Names :
          \/ At(n, "password") /\ op.kind = "reset" /\ op'.at = "done"
          \/ At(n, "erase") /\ op'.at = "remove"
          => Vouched(n)]_registryVars

\* Deletion never leaves the account behind without its record: the record goes when the
\* account it names is gone, so a deletion cut short can be repeated (Delete).
DeleteLeavesNoOrphan ==
    [][\A n \in Names :
          At(n, "remove") /\ op.kind = "delete" /\ record[n] # None /\ record'[n] = None
              => record[n].sid # holder[n]]_registryVars

\* A record that does not verify, because the key was lost or the file is foreign, is never
\* replaced by a registration; only forgetting the account removes it (Load, TakeOver).
UntrustedRecordsStay ==
    [][\A n \in Names :
          record[n] # None /\ ~Trusted(n) =>
              \/ record'[n] # None /\ record'[n].sid = record[n].sid /\ ~record'[n].readable
              \/ UNCHANGED record[n]
              \/ op # None /\ op.kind = "forget" /\ record'[n] = None]_registryVars

\* Whatever earlier operations left behind, an undisturbed forced take-over makes the account
\* the broker's, and an undisturbed deletion of a managed account leaves neither account nor
\* record (README.md, "create --takeover"; TakeOver, Delete).
FailuresCanBeRepaired ==
    op # None /\ Idle /\ op.calm /\ op.clear =>
        /\ op.force =>
              /\ op.at = "done"
              /\ record[op.name] # None /\ record[op.name].managed
              /\ record[op.name].sid = holder[op.name] /\ holder[op.name] \notin disabled
        /\ op.kind = "delete" =>
              op.at = "done" /\ holder[op.name] = None /\ record[op.name] = None

\* The inductive invariant of registration.
RegistryInvariant ==
    /\ RegistryTypeOK /\ SidsAreUnique /\ RecordNamesProvisioned /\ FailuresCanBeRepaired
    /\ \A n \in Names : StepsRelyOn(n)
    /\ op # None /\ op.calm /\ op.clear => CalmStepsFind(op.name)
=============================================================================
