------------------------ MODULE AccountRegistryProofs ------------------------
(***************************************************************************)
(* Proofs about AccountRegistry, for any names, accounts and failures.     *)
(***************************************************************************)
EXTENDS AccountRegistry, TLAPS

\* The operation moves to a step, with the SID it holds and whether it went back and is calm.
Moved(step, s, again, undisturbed) ==
    /\ op' \in Operations
    /\ op'.kind = op.kind /\ op'.name = op.name /\ op'.force = op.force /\ op'.clear = op.clear
    /\ op'.at = step /\ op'.sid = s /\ op'.retried = again /\ op'.calm = undisturbed

\* Every way an operation moves on.
LEMMA Moves ==
    ASSUME op \in Operations
    PROVE  /\ \A step \in Steps : Goto(step) => Moved(step, op.sid, op.retried, op.calm)
           /\ \A step \in Steps : op' = [op EXCEPT !.at = step, !.retried = TRUE]
                                      => Moved(step, op.sid, TRUE, op.calm)
           /\ \A step \in Steps, s \in Sids \cup {None} :
                 op' = [op EXCEPT !.at = step, !.sid = s] => Moved(step, s, op.retried, op.calm)
           /\ Finish => Moved("done", None, FALSE, op.calm)
           /\ Refuse => Moved("refused", None, FALSE, op.calm)
           /\ op' = [op EXCEPT !.calm = FALSE] => Moved(op.at, op.sid, op.retried, FALSE)
           /\ op' = [op EXCEPT !.at = "refused", !.sid = None, !.retried = FALSE, !.calm = FALSE]
                 => Moved("refused", None, FALSE, FALSE)
<1> USE DEF Operations, Moved
<1>1. ASSUME NEW step \in Steps, Goto(step) PROVE Moved(step, op.sid, op.retried, op.calm)
  BY <1>1 DEF Goto
<1>2. ASSUME NEW step \in Steps, op' = [op EXCEPT !.at = step, !.retried = TRUE]
      PROVE  Moved(step, op.sid, TRUE, op.calm)
  BY <1>2
<1>3. ASSUME NEW step \in Steps, NEW s \in Sids \cup {None}, op' = [op EXCEPT !.at = step, !.sid = s]
      PROVE  Moved(step, s, op.retried, op.calm)
  BY <1>3
<1>4. Finish => Moved("done", None, FALSE, op.calm)
  BY DEF Finish, Return
<1>5. Refuse => Moved("refused", None, FALSE, op.calm)
  BY DEF Refuse, Return
<1>6. op' = [op EXCEPT !.calm = FALSE] => Moved(op.at, op.sid, op.retried, FALSE)
  OBVIOUS
<1>7. op' = [op EXCEPT !.at = "refused", !.sid = None, !.retried = FALSE, !.calm = FALSE]
         => Moved("refused", None, FALSE, FALSE)
  OBVIOUS
<1> HIDE DEF Operations, Moved
<1> QED
  BY <1>1, <1>2, <1>3, <1>4, <1>5, <1>6, <1>7

\* The steps, one by one.
LEMMA StepNames ==
    {"load", "check", "existing", "add", "password", "harden", "comment", "resolve", "store",
     "erase", "remove"} \subseteq Steps
BY DEF Steps

\* A new key leaves records behind that no longer verify.
LEMMA KeyReplaced ==
    ASSUME record \in [Names -> Records \cup {None}], NEW n \in Names, CreateKey
    PROVE  /\ record' \in [Names -> Records \cup {None}]
           /\ record'[n] = None <=> record[n] = None
           /\ record[n] # None => /\ record'[n] \in Records
                                  /\ record'[n].sid = record[n].sid
                                  /\ record'[n].managed = record[n].managed
                                  /\ ~record'[n].readable
           /\ key'
BY NoneIsApart DEF CreateKey, Records

\* Where each step takes the operation.
LEMMA LoadMoves ==
    ASSUME RegistryTypeOK, NEW n \in Names, StepsRelyOn(n), Load(n)
    PROVE  \/ op.kind # "create" /\ Managed(n) /\ Moved("check", record[n].sid, op.retried, op.calm)
           \/ op.kind = "create" /\ record[n] = None /\ Moved("add", op.sid, op.retried, op.calm)
           \/ /\ op.kind = "takeover" /\ (record[n] = None \/ (Trusted(n) /\ ~Managed(n)))
              /\ Moved("existing", op.sid, op.retried, op.calm)
           \/ /\ op.kind = "takeover" => record[n] # None /\ ~Trusted(n)
              /\ op.kind = "delete" => ~Managed(n)
              /\ Moved("refused", None, FALSE, op.calm)
<1>1. op \in Operations
  BY DEF RegistryTypeOK, Load, At
<1>2. CASE Managed(n) /\ op.kind # "create" /\ op' = [op EXCEPT !.at = "check", !.sid = record[n].sid]
  <2>1. record[n].sid \in Sids \cup {None}
    BY <1>2 DEF Managed, Trusted, Records, RegistryTypeOK
  <2> QED
    BY <1>1, <1>2, <2>1, Moves, StepNames
<1>3. ASSUME ~(Managed(n) /\ op.kind # "create" /\ op' = [op EXCEPT !.at = "check", !.sid = record[n].sid])
      PROVE  \/ op.kind = "create" /\ record[n] = None /\ Goto("add")
             \/ op.kind = "takeover" /\ (record[n] = None \/ (Trusted(n) /\ ~Managed(n))) /\ Goto("existing")
             \/ /\ op.kind = "takeover" => record[n] # None /\ ~Trusted(n)
                /\ op.kind = "delete" => ~Managed(n)
                /\ Refuse
  <2>1. CASE record[n] = None
    BY <2>1 DEF Load, Managed, Trusted
  <2>2. CASE record[n] # None /\ ~key /\ Refuse
    BY <2>2 DEF Managed, Trusted
  <2>3. CASE record[n] # None /\ (key \/ ~record[n].readable)
    <3>1. CASE Trusted(n) /\ ~Managed(n) /\ op.kind = "takeover" /\ Goto("existing")
      BY <3>1
    <3>2. CASE ~(Managed(n) /\ op.kind # "create") /\ ~(Trusted(n) /\ ~Managed(n) /\ op.kind = "takeover") /\ Refuse
      BY <2>3, <3>2 DEF Managed
    <3> QED
      BY <1>3, <2>3, <3>1, <3>2 DEF Load, Managed, Trusted
  <2> QED
    BY <2>1, <2>2, <2>3 DEF Load
<1> QED
  BY <1>1, <1>2, <1>3, Moves, StepNames

LEMMA CheckMoves ==
    ASSUME RegistryTypeOK, NEW n \in Names, StepsRelyOn(n), Check(n)
    PROVE  \/ op.kind = "takeover" /\ Moved("existing", op.sid, op.retried, op.calm)
           \/ op.kind = "reset" /\ holder[n] = op.sid /\ Moved("password", op.sid, op.retried, op.calm)
           \/ op.kind = "delete" /\ holder[n] = None /\ Moved("remove", op.sid, op.retried, op.calm)
           \/ /\ op.kind = "delete" /\ holder[n] = op.sid /\ holder[n] # None
              /\ Moved("erase", op.sid, op.retried, op.calm)
           \/ /\ op.kind # "takeover" \/ ~op.force
              /\ op.kind = "delete" => holder[n] \notin {None, op.sid}
              /\ Moved("refused", None, FALSE, op.calm)
<1>1. op \in Operations /\ op.kind \in {"takeover", "reset", "delete"}
  BY DEF RegistryTypeOK, Check, At, StepsRelyOn, Operations, Kinds
<1>2. \/ op.kind = "takeover" /\ Goto("existing")
      \/ op.kind = "reset" /\ holder[n] = op.sid /\ Goto("password")
      \/ op.kind = "delete" /\ holder[n] = None /\ Goto("remove")
      \/ op.kind = "delete" /\ holder[n] = op.sid /\ holder[n] # None /\ Goto("erase")
      \/ /\ op.kind # "takeover" \/ ~op.force
         /\ op.kind = "delete" => holder[n] \notin {None, op.sid}
         /\ Refuse
  BY <1>1 DEF Check
<1> QED
  BY <1>1, <1>2, Moves, StepNames

LEMMA LookAtExistingMoves ==
    ASSUME RegistryTypeOK, NEW n \in Names, StepsRelyOn(n), LookAtExisting(n)
    PROVE  \/ /\ op.force /\ ~op.retried /\ holder[n] = None
              /\ Moved("add", op.sid, op.retried, op.calm)
           \/ /\ op.force => holder[n] \in admins \/ op.retried
              /\ Moved("refused", None, FALSE, op.calm)
           \/ holder[n] # None /\ Moved("password", op.sid, op.retried, op.calm)
<1>1. op # None => op \in Operations
  BY DEF RegistryTypeOK
<1>2. holder[n] \in Sids \cup {None}
  BY DEF RegistryTypeOK
<1> QED
  BY <1>1, <1>2, Moves, StepNames, NoneIsApart DEF LookAtExisting, At, NotFound

LEMMA AddAccountMoves ==
    ASSUME RegistryTypeOK, NEW n \in Names, StepsRelyOn(n), AddAccount(n)
    PROVE  \/ op.kind = "takeover" /\ holder[n] # None /\ Moved("existing", op.sid, TRUE, op.calm)
           \/ op.kind # "takeover" /\ Moved("refused", None, FALSE, op.calm)
           \/ Moved("resolve", op.sid, op.retried, op.calm)
<1>1. op # None => op \in Operations
  BY DEF RegistryTypeOK
<1>2. holder[n] \in Sids \cup {None}
  BY DEF RegistryTypeOK
<1> QED
  BY <1>1, <1>2, Moves, StepNames, NoneIsApart DEF AddAccount, At

LEMMA SetPasswordMoves ==
    ASSUME RegistryTypeOK, NEW n \in Names, StepsRelyOn(n), SetPassword(n)
    PROVE  \/ op.force /\ holder[n] = None /\ Moved("add", op.sid, op.retried, op.calm)
           \/ holder[n] \in admins \cup {None} /\ Moved("refused", None, FALSE, op.calm)
           \/ op.kind = "reset" /\ Moved("done", None, FALSE, op.calm)
           \/ /\ op.kind # "reset" /\ holder[n] # None
              /\ Moved("harden", holder[n], op.retried, op.calm)
<1>1. op # None => op \in Operations
  BY DEF RegistryTypeOK
<1>2. holder[n] \in Sids \cup {None}
  BY DEF RegistryTypeOK
<1> QED
  BY <1>1, <1>2, Moves, StepNames, NoneIsApart DEF SetPassword, At, NotFound

LEMMA HardenMoves ==
    ASSUME RegistryTypeOK, NEW n \in Names, StepsRelyOn(n), Harden(n)
    PROVE  \/ op.force /\ holder[n] = None /\ Moved("add", op.sid, op.retried, op.calm)
           \/ holder[n] = None /\ Moved("refused", None, FALSE, op.calm)
           \/ holder[n] # None /\ Moved("comment", op.sid, op.retried, op.calm)
<1>1. op # None => op \in Operations
  BY DEF RegistryTypeOK
<1>2. holder[n] \in Sids \cup {None}
  BY DEF RegistryTypeOK
<1> QED
  BY <1>1, <1>2, Moves, StepNames, NoneIsApart DEF Harden, At, NotFound

LEMMA SetCommentMoves ==
    ASSUME RegistryTypeOK, NEW n \in Names, StepsRelyOn(n), SetComment(n)
    PROVE  \/ op.force /\ holder[n] = None /\ Moved("add", op.sid, op.retried, op.calm)
           \/ holder[n] = None /\ Moved("refused", None, FALSE, op.calm)
           \/ Moved("resolve", op.sid, op.retried, op.calm)
<1>1. op # None => op \in Operations
  BY DEF RegistryTypeOK
<1>2. holder[n] \in Sids \cup {None}
  BY DEF RegistryTypeOK
<1> QED
  BY <1>1, <1>2, Moves, StepNames, NoneIsApart DEF SetComment, At, NotFound

LEMMA ResolveMoves ==
    ASSUME RegistryTypeOK, NEW n \in Names, StepsRelyOn(n), Resolve(n)
    PROVE  \/ holder[n] = None /\ Moved("refused", None, FALSE, op.calm)
           \/ holder[n] # None /\ Moved("store", holder[n], op.retried, op.calm)
<1>1. op # None => op \in Operations
  BY DEF RegistryTypeOK
<1>2. holder[n] \in Sids \cup {None}
  BY DEF RegistryTypeOK
<1> QED
  BY <1>1, <1>2, Moves, StepNames, NoneIsApart DEF Resolve, At

LEMMA StoreRecordMoves ==
    ASSUME RegistryTypeOK, NEW n \in Names, StepsRelyOn(n), StoreRecord(n)
    PROVE  Moved("done", None, FALSE, op.calm)
<1>1. op # None => op \in Operations
  BY DEF RegistryTypeOK
<1>2. holder[n] \in Sids \cup {None}
  BY DEF RegistryTypeOK
<1> QED
  BY <1>1, <1>2, Moves, StepNames, NoneIsApart DEF StoreRecord, At

LEMMA EraseMoves ==
    ASSUME RegistryTypeOK, NEW n \in Names, StepsRelyOn(n), Erase(n)
    PROVE  \/ holder[n] = None /\ Moved("refused", None, FALSE, op.calm)
           \/ holder[n] # None /\ Moved("remove", op.sid, op.retried, op.calm)
<1>1. op # None => op \in Operations
  BY DEF RegistryTypeOK
<1>2. holder[n] \in Sids \cup {None}
  BY DEF RegistryTypeOK
<1> QED
  BY <1>1, <1>2, Moves, StepNames, NoneIsApart DEF Erase, At

LEMMA RemoveRecordMoves ==
    ASSUME RegistryTypeOK, NEW n \in Names, StepsRelyOn(n), RemoveRecord(n)
    PROVE  \/ record[n] = None /\ Moved("refused", None, FALSE, op.calm)
           \/ record[n] # None /\ Moved("done", None, FALSE, op.calm)
<1>1. op # None => op \in Operations
  BY DEF RegistryTypeOK
<1>2. holder[n] \in Sids \cup {None}
  BY DEF RegistryTypeOK
<1> QED
  BY <1>1, <1>2, Moves, StepNames, NoneIsApart DEF RemoveRecord, At

LEMMA AdminDeletesMoves ==
    ASSUME RegistryTypeOK, NEW n \in Names, StepsRelyOn(n), AdminDeletes(n)
    PROVE  op' = op \/ (op # None /\ op.name = n /\ Moved(op.at, op.sid, op.retried, FALSE))
<1>1. CASE op # None /\ op.name = n
  <2>1. op \in Operations
    BY <1>1 DEF RegistryTypeOK
  <2>2. op' = [op EXCEPT !.calm = FALSE]
    BY <1>1 DEF AdminDeletes, Disturb
  <2> QED
    BY <1>1, <2>1, <2>2, Moves
<1>2. ASSUME ~(op # None /\ op.name = n) PROVE op' = op
  BY <1>2 DEF AdminDeletes, Disturb
<1> QED
  BY <1>1, <1>2

LEMMA AdminCreatesMoves ==
    ASSUME RegistryTypeOK, NEW n \in Names, StepsRelyOn(n), AdminCreates(n)
    PROVE  op' = op \/ (op # None /\ op.name = n /\ Moved(op.at, op.sid, op.retried, FALSE))
<1>1. CASE op # None /\ op.name = n
  <2>1. op \in Operations
    BY <1>1 DEF RegistryTypeOK
  <2>2. op' = [op EXCEPT !.calm = FALSE]
    BY <1>1 DEF AdminCreates, Disturb
  <2> QED
    BY <1>1, <2>1, <2>2, Moves
<1>2. ASSUME ~(op # None /\ op.name = n) PROVE op' = op
  BY <1>2 DEF AdminCreates, Disturb
<1> QED
  BY <1>1, <1>2

LEMMA AdminChangesMoves ==
    ASSUME RegistryTypeOK, NEW n \in Names, StepsRelyOn(n), AdminChanges(n)
    PROVE  op' = op \/ (op # None /\ op.name = n /\ Moved(op.at, op.sid, op.retried, FALSE))
<1>1. CASE op # None /\ op.name = n
  <2>1. op \in Operations
    BY <1>1 DEF RegistryTypeOK
  <2>2. op' = [op EXCEPT !.calm = FALSE]
    BY <1>1 DEF AdminChanges, Disturb
  <2> QED
    BY <1>1, <2>1, <2>2, Moves
<1>2. ASSUME ~(op # None /\ op.name = n) PROVE op' = op
  BY <1>2 DEF AdminChanges, Disturb
<1> QED
  BY <1>1, <1>2

\* The operation keeps its shape.
LEMMA OpStep ==
    RegistryTypeOK /\ (\A n \in Names : StepsRelyOn(n)) /\ [RegistryNext]_registryVars
        => op' \in Operations \cup {None}
<1> SUFFICES ASSUME RegistryTypeOK, (\A n \in Names : StepsRelyOn(n)), [RegistryNext]_registryVars
             PROVE  op' \in Operations \cup {None}
  OBVIOUS
<1> USE DEF RegistryTypeOK, At
<1>1. ASSUME NEW n \in Names, Load(n)
      PROVE  op' \in Operations \cup {None}
  BY LoadMoves, <1>1 DEF Moved
<1>2. ASSUME NEW n \in Names, Check(n)
      PROVE  op' \in Operations \cup {None}
  BY CheckMoves, <1>2 DEF Moved
<1>3. ASSUME NEW n \in Names, LookAtExisting(n)
      PROVE  op' \in Operations \cup {None}
  BY LookAtExistingMoves, <1>3 DEF Moved
<1>4. ASSUME NEW n \in Names, AddAccount(n)
      PROVE  op' \in Operations \cup {None}
  BY AddAccountMoves, <1>4 DEF Moved
<1>5. ASSUME NEW n \in Names, SetPassword(n)
      PROVE  op' \in Operations \cup {None}
  BY SetPasswordMoves, <1>5 DEF Moved
<1>6. ASSUME NEW n \in Names, Harden(n)
      PROVE  op' \in Operations \cup {None}
  BY HardenMoves, <1>6 DEF Moved
<1>7. ASSUME NEW n \in Names, SetComment(n)
      PROVE  op' \in Operations \cup {None}
  BY SetCommentMoves, <1>7 DEF Moved
<1>8. ASSUME NEW n \in Names, Resolve(n)
      PROVE  op' \in Operations \cup {None}
  BY ResolveMoves, <1>8 DEF Moved
<1>9. ASSUME NEW n \in Names, StoreKey(n)
      PROVE  op' \in Operations \cup {None}
  BY Moves, StepNames, <1>9 DEF StoreKey
<1>10. ASSUME NEW n \in Names, StoreRecord(n)
      PROVE  op' \in Operations \cup {None}
  BY StoreRecordMoves, <1>10 DEF Moved
<1>11. ASSUME NEW n \in Names, Erase(n)
      PROVE  op' \in Operations \cup {None}
  BY EraseMoves, <1>11 DEF Moved
<1>12. ASSUME NEW n \in Names, RemoveRecord(n)
      PROVE  op' \in Operations \cup {None}
  BY RemoveRecordMoves, <1>12 DEF Moved
<1>13. ASSUME NEW n \in Names, AdminDeletes(n)
      PROVE  op' \in Operations \cup {None}
  BY AdminDeletesMoves, <1>13 DEF Moved
<1>14. ASSUME NEW n \in Names, AdminCreates(n)
      PROVE  op' \in Operations \cup {None}
  BY AdminCreatesMoves, <1>14 DEF Moved
<1>15. ASSUME NEW n \in Names, AdminChanges(n)
      PROVE  op' \in Operations \cup {None}
  BY AdminChangesMoves, <1>15 DEF Moved
<1>16. ASSUME NEW n \in Names, NEW kind \in Kinds, NEW force \in BOOLEAN, Begin(kind, n, force)
      PROVE  op' \in Operations \cup {None}
  BY <1>16 DEF Begin, Operations, Steps
<1>17. CASE List
  BY Moves, StepNames, <1>17 DEF List
<1>18. CASE Interrupt
  BY Moves, <1>18 DEF Interrupt, Idle, Moved
<1>19. CASE KeyIsLost
  BY Moves, StepNames, <1>19 DEF KeyIsLost
<1>20. CASE UNCHANGED registryVars
  BY Moves, StepNames, <1>20 DEF registryVars
<1> QED
  BY <1>1, <1>2, <1>3, <1>4, <1>5, <1>6, <1>7, <1>8, <1>9, <1>10,
     <1>11, <1>12, <1>13, <1>14, <1>15, <1>16, <1>17, <1>18, <1>19, <1>20
     DEF RegistryNext, OperationStep, AdminStep

\* Variables keep their shape.
LEMMA TypeStep ==
    RegistryTypeOK /\ (\A n \in Names : StepsRelyOn(n)) /\ [RegistryNext]_registryVars
        => RegistryTypeOK'
<1> SUFFICES ASSUME RegistryTypeOK, (\A n \in Names : StepsRelyOn(n)), [RegistryNext]_registryVars
             PROVE  RegistryTypeOK'
  OBVIOUS
<1> USE NoneIsApart DEF accountVars, Records, At
<1>1. ASSUME NEW n \in Names, Load(n)
      PROVE  RegistryTypeOK'
  BY OpStep, KeyReplaced, <1>1 DEF Load, RegistryTypeOK
<1>2. ASSUME NEW n \in Names, Check(n)
      PROVE  RegistryTypeOK'
  BY OpStep, KeyReplaced, <1>2 DEF Check, RegistryTypeOK
<1>3. ASSUME NEW n \in Names, LookAtExisting(n)
      PROVE  RegistryTypeOK'
  BY OpStep, KeyReplaced, <1>3 DEF LookAtExisting, RegistryTypeOK
<1>4. ASSUME NEW n \in Names, AddAccount(n)
      PROVE  RegistryTypeOK'
  BY OpStep, KeyReplaced, <1>4 DEF AddAccount, RegistryTypeOK
<1>5. ASSUME NEW n \in Names, SetPassword(n)
      PROVE  RegistryTypeOK'
  BY OpStep, KeyReplaced, <1>5 DEF SetPassword, RegistryTypeOK
<1>6. ASSUME NEW n \in Names, Harden(n)
      PROVE  RegistryTypeOK'
  BY OpStep, KeyReplaced, <1>6 DEF Harden, RegistryTypeOK
<1>7. ASSUME NEW n \in Names, SetComment(n)
      PROVE  RegistryTypeOK'
  BY OpStep, KeyReplaced, <1>7 DEF SetComment, RegistryTypeOK
<1>8. ASSUME NEW n \in Names, Resolve(n)
      PROVE  RegistryTypeOK'
  BY OpStep, KeyReplaced, <1>8 DEF Resolve, RegistryTypeOK
<1>9. ASSUME NEW n \in Names, StoreKey(n)
      PROVE  RegistryTypeOK'
  BY OpStep, KeyReplaced, <1>9 DEF StoreKey, RegistryTypeOK
<1>10. ASSUME NEW n \in Names, StoreRecord(n)
      PROVE  RegistryTypeOK'
  <2>1. op # None /\ op.sid \in Sids \cup {None}
    BY <1>10 DEF StoreRecord, RegistryTypeOK, Operations
  <2>2. op.sid # None
    BY <1>10, NoneIsApart DEF StoreRecord, StepsRelyOn, RegistryTypeOK
  <2> QED
    BY OpStep, <2>1, <2>2, <1>10 DEF StoreRecord, RegistryTypeOK
<1>11. ASSUME NEW n \in Names, Erase(n)
      PROVE  RegistryTypeOK'
  BY OpStep, KeyReplaced, <1>11 DEF Erase, RegistryTypeOK
<1>12. ASSUME NEW n \in Names, RemoveRecord(n)
      PROVE  RegistryTypeOK'
  BY OpStep, KeyReplaced, <1>12 DEF RemoveRecord, RegistryTypeOK
<1>13. ASSUME NEW n \in Names, AdminDeletes(n)
      PROVE  RegistryTypeOK'
  BY OpStep, KeyReplaced, <1>13 DEF AdminDeletes, RegistryTypeOK
<1>14. ASSUME NEW n \in Names, AdminCreates(n)
      PROVE  RegistryTypeOK'
  BY OpStep, KeyReplaced, <1>14 DEF AdminCreates, RegistryTypeOK
<1>15. ASSUME NEW n \in Names, AdminChanges(n)
      PROVE  RegistryTypeOK'
  BY OpStep, KeyReplaced, <1>15 DEF AdminChanges, RegistryTypeOK
<1>16. ASSUME NEW n \in Names, NEW kind \in Kinds, NEW force \in BOOLEAN, Begin(kind, n, force)
      PROVE  RegistryTypeOK'
  BY OpStep, KeyReplaced, <1>16 DEF Begin, RegistryTypeOK
<1>17. CASE List
  BY OpStep, KeyReplaced, <1>17 DEF List, RegistryTypeOK
<1>18. CASE Interrupt
  BY OpStep, KeyReplaced, <1>18 DEF Interrupt, RegistryTypeOK
<1>19. CASE KeyIsLost
  BY OpStep, KeyReplaced, <1>19 DEF KeyIsLost, RegistryTypeOK
<1>20. CASE UNCHANGED registryVars
  BY OpStep, KeyReplaced, <1>20 DEF registryVars, RegistryTypeOK
<1> QED
  BY <1>1, <1>2, <1>3, <1>4, <1>5, <1>6, <1>7, <1>8, <1>9, <1>10,
     <1>11, <1>12, <1>13, <1>14, <1>15, <1>16, <1>17, <1>18, <1>19, <1>20
     DEF RegistryNext, OperationStep, AdminStep

\* Accounts and records never share or reuse a SID.
LEMMA AccountsStep ==
    RegistryTypeOK /\ SidsAreUnique /\ (\A n \in Names : StepsRelyOn(n)) /\ [RegistryNext]_registryVars
        => AccountsAreUnique'
<1> SUFFICES ASSUME RegistryTypeOK, SidsAreUnique, (\A n \in Names : StepsRelyOn(n)),
                    [RegistryNext]_registryVars
             PROVE  AccountsAreUnique'
  OBVIOUS
<1> USE NoneIsApart DEF accountVars, At
<1>1. ASSUME NEW n \in Names, Load(n)
      PROVE  AccountsAreUnique'
  BY KeyReplaced, <1>1 DEF Load, SidsAreUnique, AccountsAreUnique, RegistryTypeOK
<1>2. ASSUME NEW n \in Names, Check(n)
      PROVE  AccountsAreUnique'
  BY KeyReplaced, <1>2 DEF Check, SidsAreUnique, AccountsAreUnique, RegistryTypeOK
<1>3. ASSUME NEW n \in Names, LookAtExisting(n)
      PROVE  AccountsAreUnique'
  BY KeyReplaced, <1>3 DEF LookAtExisting, SidsAreUnique, AccountsAreUnique, RegistryTypeOK
<1>4. ASSUME NEW n \in Names, AddAccount(n)
      PROVE  AccountsAreUnique'
  BY <1>4 DEF AddAccount, SidsAreUnique, AccountsAreUnique, RegistryTypeOK
<1>5. ASSUME NEW n \in Names, SetPassword(n)
      PROVE  AccountsAreUnique'
  BY KeyReplaced, <1>5 DEF SetPassword, SidsAreUnique, AccountsAreUnique, RegistryTypeOK
<1>6. ASSUME NEW n \in Names, Harden(n)
      PROVE  AccountsAreUnique'
  BY KeyReplaced, <1>6 DEF Harden, SidsAreUnique, AccountsAreUnique, RegistryTypeOK
<1>7. ASSUME NEW n \in Names, SetComment(n)
      PROVE  AccountsAreUnique'
  BY KeyReplaced, <1>7 DEF SetComment, SidsAreUnique, AccountsAreUnique, RegistryTypeOK
<1>8. ASSUME NEW n \in Names, Resolve(n)
      PROVE  AccountsAreUnique'
  BY KeyReplaced, <1>8 DEF Resolve, SidsAreUnique, AccountsAreUnique, RegistryTypeOK
<1>9. ASSUME NEW n \in Names, StoreKey(n)
      PROVE  AccountsAreUnique'
  BY KeyReplaced, <1>9 DEF StoreKey, SidsAreUnique, AccountsAreUnique, RegistryTypeOK
<1>10. ASSUME NEW n \in Names, StoreRecord(n)
      PROVE  AccountsAreUnique'
  BY <1>10 DEF StoreRecord, SidsAreUnique, AccountsAreUnique, RegistryTypeOK, StepsRelyOn
<1>11. ASSUME NEW n \in Names, Erase(n)
      PROVE  AccountsAreUnique'
  BY KeyReplaced, <1>11 DEF Erase, SidsAreUnique, AccountsAreUnique, RegistryTypeOK
<1>12. ASSUME NEW n \in Names, RemoveRecord(n)
      PROVE  AccountsAreUnique'
  BY KeyReplaced, <1>12 DEF RemoveRecord, SidsAreUnique, AccountsAreUnique, RegistryTypeOK
<1>13. ASSUME NEW n \in Names, AdminDeletes(n)
      PROVE  AccountsAreUnique'
  BY KeyReplaced, <1>13 DEF AdminDeletes, SidsAreUnique, AccountsAreUnique, RegistryTypeOK
<1>14. ASSUME NEW n \in Names, AdminCreates(n)
      PROVE  AccountsAreUnique'
  BY KeyReplaced, <1>14 DEF AdminCreates, SidsAreUnique, AccountsAreUnique, RegistryTypeOK
<1>15. ASSUME NEW n \in Names, AdminChanges(n)
      PROVE  AccountsAreUnique'
  BY KeyReplaced, <1>15 DEF AdminChanges, SidsAreUnique, AccountsAreUnique, RegistryTypeOK
<1>16. ASSUME NEW n \in Names, NEW kind \in Kinds, NEW force \in BOOLEAN, Begin(kind, n, force)
      PROVE  AccountsAreUnique'
  BY KeyReplaced, <1>16 DEF Begin, SidsAreUnique, AccountsAreUnique, RegistryTypeOK
<1>17. CASE List
  BY KeyReplaced, <1>17 DEF List, SidsAreUnique, AccountsAreUnique, RegistryTypeOK
<1>18. CASE Interrupt
  BY KeyReplaced, <1>18 DEF Interrupt, SidsAreUnique, AccountsAreUnique, RegistryTypeOK
<1>19. CASE KeyIsLost
  BY KeyReplaced, <1>19 DEF KeyIsLost, SidsAreUnique, AccountsAreUnique, RegistryTypeOK
<1>20. CASE UNCHANGED registryVars
  BY KeyReplaced, <1>20 DEF registryVars, SidsAreUnique, AccountsAreUnique, RegistryTypeOK
<1> QED
  BY <1>1, <1>2, <1>3, <1>4, <1>5, <1>6, <1>7, <1>8, <1>9, <1>10,
     <1>11, <1>12, <1>13, <1>14, <1>15, <1>16, <1>17, <1>18, <1>19, <1>20
     DEF RegistryNext, OperationStep, AdminStep

\* An operation holds the SID of an account that exists or has existed.
LEMMA OpSidStep ==
    RegistryTypeOK /\ SidsAreUnique /\ (\A n \in Names : StepsRelyOn(n)) /\ [RegistryNext]_registryVars
        => (op' # None => op'.sid \notin unused')
<1> SUFFICES ASSUME RegistryTypeOK, SidsAreUnique, (\A n \in Names : StepsRelyOn(n)),
                    [RegistryNext]_registryVars
             PROVE  op' # None => op'.sid \notin unused'
  OBVIOUS
<1> USE NoneIsApart DEF accountVars, At
<1>a. /\ None \notin unused
      /\ op # None => op \in Operations /\ op.sid \notin unused
  BY DEF SidsAreUnique, RegistryTypeOK
<1>b. ASSUME NEW n \in Names
      PROVE  /\ holder[n] \notin unused /\ holder[n] \in Sids \cup {None}
             /\ record[n] # None => record[n].sid \notin unused /\ record[n].sid \in Sids
  BY DEF SidsAreUnique, AccountsAreUnique, RegistryTypeOK, Records
<1>c. None \notin Operations
  OBVIOUS
<1>1. ASSUME NEW n \in Names, Load(n)
      PROVE  op' # None => op'.sid \notin unused'
  BY <1>a, <1>b, LoadMoves, <1>1 DEF Managed, Trusted, Load, Moved
<1>2. ASSUME NEW n \in Names, Check(n)
      PROVE  op' # None => op'.sid \notin unused'
  BY <1>a, <1>b, CheckMoves, <1>2 DEF Check, Moved
<1>3. ASSUME NEW n \in Names, LookAtExisting(n)
      PROVE  op' # None => op'.sid \notin unused'
  BY <1>a, <1>b, LookAtExistingMoves, <1>3 DEF LookAtExisting, Moved
<1>4. ASSUME NEW n \in Names, AddAccount(n)
      PROVE  op' # None => op'.sid \notin unused'
  <2>1. \A s : s \notin unused => s \notin unused'
    BY <1>4 DEF AddAccount
  <2>2. op # None
    BY <1>4 DEF AddAccount
  <2>3. op'.sid \in {op.sid, None}
    BY <1>4, AddAccountMoves DEF Moved
  <2> QED
    BY <1>a, <2>1, <2>2, <2>3
<1>5. ASSUME NEW n \in Names, SetPassword(n)
      PROVE  op' # None => op'.sid \notin unused'
  BY <1>a, <1>b, SetPasswordMoves, <1>5 DEF SetPassword, Moved
<1>6. ASSUME NEW n \in Names, Harden(n)
      PROVE  op' # None => op'.sid \notin unused'
  BY <1>a, <1>b, HardenMoves, <1>6 DEF Harden, Moved
<1>7. ASSUME NEW n \in Names, SetComment(n)
      PROVE  op' # None => op'.sid \notin unused'
  BY <1>a, <1>b, SetCommentMoves, <1>7 DEF SetComment, Moved
<1>8. ASSUME NEW n \in Names, Resolve(n)
      PROVE  op' # None => op'.sid \notin unused'
  BY <1>a, <1>b, ResolveMoves, <1>8 DEF Resolve, Moved
<1>9. ASSUME NEW n \in Names, StoreKey(n)
      PROVE  op' # None => op'.sid \notin unused'
  BY <1>a, <1>9 DEF StoreKey
<1>10. ASSUME NEW n \in Names, StoreRecord(n)
      PROVE  op' # None => op'.sid \notin unused'
  BY <1>a, <1>b, StoreRecordMoves, <1>10 DEF StoreRecord, Moved
<1>11. ASSUME NEW n \in Names, Erase(n)
      PROVE  op' # None => op'.sid \notin unused'
  BY <1>a, <1>b, EraseMoves, <1>11 DEF Erase, Moved
<1>12. ASSUME NEW n \in Names, RemoveRecord(n)
      PROVE  op' # None => op'.sid \notin unused'
  BY <1>a, <1>b, RemoveRecordMoves, <1>12 DEF RemoveRecord, Moved
<1>13. ASSUME NEW n \in Names, AdminDeletes(n)
      PROVE  op' # None => op'.sid \notin unused'
  BY <1>a, <1>b, AdminDeletesMoves, <1>13 DEF AdminDeletes, Moved
<1>14. ASSUME NEW n \in Names, AdminCreates(n)
      PROVE  op' # None => op'.sid \notin unused'
  BY <1>a, <1>b, AdminCreatesMoves, <1>14 DEF AdminCreates, Moved
<1>15. ASSUME NEW n \in Names, AdminChanges(n)
      PROVE  op' # None => op'.sid \notin unused'
  BY <1>a, <1>b, AdminChangesMoves, <1>15 DEF AdminChanges, Moved
<1>16. ASSUME NEW n \in Names, NEW kind \in Kinds, NEW force \in BOOLEAN, Begin(kind, n, force)
      PROVE  op' # None => op'.sid \notin unused'
  BY <1>a, <1>16 DEF Begin
<1>17. CASE List
  BY <1>a, <1>17 DEF List
<1>18. CASE Interrupt
  <2>1. op \in Operations /\ unused' = unused
    BY <1>a, <1>18 DEF Interrupt, Idle
  <2>2. op'.sid = None
    BY <2>1, <1>18, Moves DEF Interrupt, Moved
  <2> QED
    BY <1>a, <2>1, <2>2
<1>19. CASE KeyIsLost
  BY <1>a, <1>19 DEF KeyIsLost
<1>20. CASE UNCHANGED registryVars
  BY <1>a, <1>20 DEF registryVars
<1> QED
  BY <1>1, <1>2, <1>3, <1>4, <1>5, <1>6, <1>7, <1>8, <1>9, <1>10,
     <1>11, <1>12, <1>13, <1>14, <1>15, <1>16, <1>17, <1>18, <1>19, <1>20
     DEF RegistryNext, OperationStep, AdminStep

\* Managed records name provisioned accounts.
LEMMA ProvisionedStep ==
    RegistryTypeOK /\ RecordNamesProvisioned /\ (\A n \in Names : StepsRelyOn(n)) /\ [RegistryNext]_registryVars
        => RecordNamesProvisioned'
<1> SUFFICES ASSUME RegistryTypeOK, RecordNamesProvisioned, (\A n \in Names : StepsRelyOn(n)),
                    [RegistryNext]_registryVars
             PROVE  RecordNamesProvisioned'
  OBVIOUS
<1> USE NoneIsApart DEF accountVars, At, Goto, Return, Finish, Refuse, NotFound, Disturb,
        CreateKey, Idle
<1>1. ASSUME NEW n \in Names, Load(n)
      PROVE  RecordNamesProvisioned'
  BY <1>1 DEF Load, RecordNamesProvisioned, StepsRelyOn, RegistryTypeOK, Records, Operations
<1>2. ASSUME NEW n \in Names, Check(n)
      PROVE  RecordNamesProvisioned'
  BY <1>2 DEF Check, RecordNamesProvisioned, StepsRelyOn, RegistryTypeOK, Records, Operations
<1>3. ASSUME NEW n \in Names, LookAtExisting(n)
      PROVE  RecordNamesProvisioned'
  BY <1>3 DEF LookAtExisting, RecordNamesProvisioned, StepsRelyOn, RegistryTypeOK, Records,
     Operations
<1>4. ASSUME NEW n \in Names, AddAccount(n)
      PROVE  RecordNamesProvisioned'
  BY <1>4 DEF AddAccount, RecordNamesProvisioned, StepsRelyOn, RegistryTypeOK, Records, Operations
<1>5. ASSUME NEW n \in Names, SetPassword(n)
      PROVE  RecordNamesProvisioned'
  BY <1>5 DEF SetPassword, RecordNamesProvisioned, StepsRelyOn, RegistryTypeOK, Records,
     Operations
<1>6. ASSUME NEW n \in Names, Harden(n)
      PROVE  RecordNamesProvisioned'
  BY <1>6 DEF Harden, RecordNamesProvisioned, StepsRelyOn, RegistryTypeOK, Records, Operations
<1>7. ASSUME NEW n \in Names, SetComment(n)
      PROVE  RecordNamesProvisioned'
  BY <1>7 DEF SetComment, RecordNamesProvisioned, StepsRelyOn, RegistryTypeOK, Records, Operations
<1>8. ASSUME NEW n \in Names, Resolve(n)
      PROVE  RecordNamesProvisioned'
  BY <1>8 DEF Resolve, RecordNamesProvisioned, StepsRelyOn, RegistryTypeOK, Records, Operations
<1>9. ASSUME NEW n \in Names, StoreKey(n)
      PROVE  RecordNamesProvisioned'
  BY <1>9 DEF StoreKey, RecordNamesProvisioned, StepsRelyOn, RegistryTypeOK, Records, Operations
<1>10. ASSUME NEW n \in Names, StoreRecord(n)
      PROVE  RecordNamesProvisioned'
  BY <1>10 DEF StoreRecord, RecordNamesProvisioned, StepsRelyOn, RegistryTypeOK, Records,
     Operations
<1>11. ASSUME NEW n \in Names, Erase(n)
      PROVE  RecordNamesProvisioned'
  BY <1>11 DEF Erase, RecordNamesProvisioned, StepsRelyOn, RegistryTypeOK, Records, Operations
<1>12. ASSUME NEW n \in Names, RemoveRecord(n)
      PROVE  RecordNamesProvisioned'
  BY <1>12 DEF RemoveRecord, RecordNamesProvisioned, StepsRelyOn, RegistryTypeOK, Records,
     Operations
<1>13. ASSUME NEW n \in Names, AdminDeletes(n)
      PROVE  RecordNamesProvisioned'
  BY <1>13 DEF AdminDeletes, RecordNamesProvisioned, StepsRelyOn, RegistryTypeOK, Records,
     Operations
<1>14. ASSUME NEW n \in Names, AdminCreates(n)
      PROVE  RecordNamesProvisioned'
  BY <1>14 DEF AdminCreates, RecordNamesProvisioned, StepsRelyOn, RegistryTypeOK, Records,
     Operations
<1>15. ASSUME NEW n \in Names, AdminChanges(n)
      PROVE  RecordNamesProvisioned'
  BY <1>15 DEF AdminChanges, RecordNamesProvisioned, StepsRelyOn, RegistryTypeOK, Records,
     Operations
<1>16. ASSUME NEW n \in Names, NEW kind \in Kinds, NEW force \in BOOLEAN, Begin(kind, n, force)
      PROVE  RecordNamesProvisioned'
  <2>1. record' = record /\ provisioned' = provisioned /\ swapped' = swapped \cap Recorded
    BY <1>16 DEF Begin
  <2>2. \A k \in Names : record[k] # None => record[k].sid \in Recorded
    BY DEF Recorded
  <2> QED
    BY <2>1, <2>2 DEF RecordNamesProvisioned
<1>17. CASE List
  BY <1>17 DEF List, RecordNamesProvisioned, StepsRelyOn, RegistryTypeOK, Records, Operations
<1>18. CASE Interrupt
  BY <1>18 DEF Interrupt, RecordNamesProvisioned, StepsRelyOn, RegistryTypeOK, Records, Operations
<1>19. CASE KeyIsLost
  BY <1>19 DEF KeyIsLost, RecordNamesProvisioned, StepsRelyOn, RegistryTypeOK, Records, Operations
<1>20. CASE UNCHANGED registryVars
  BY <1>20 DEF registryVars, RecordNamesProvisioned, StepsRelyOn, RegistryTypeOK, Records,
     Operations
<1> QED
  BY <1>1, <1>2, <1>3, <1>4, <1>5, <1>6, <1>7, <1>8, <1>9, <1>10,
     <1>11, <1>12, <1>13, <1>14, <1>15, <1>16, <1>17, <1>18, <1>19, <1>20
     DEF RegistryNext, OperationStep, AdminStep

\* Each step finds what it relies on.
LEMMA RelyStep ==
    RegistryTypeOK /\ SidsAreUnique /\ (\A n \in Names : StepsRelyOn(n)) /\ [RegistryNext]_registryVars
        => (\A n \in Names : StepsRelyOn(n))'
<1> SUFFICES ASSUME RegistryTypeOK, SidsAreUnique, (\A n \in Names : StepsRelyOn(n)),
                    [RegistryNext]_registryVars
             PROVE  (\A n \in Names : StepsRelyOn(n))'
  OBVIOUS
<1> USE NoneIsApart DEF accountVars, At
<1> SUFFICES ASSUME NEW m \in Names, op' # None, op'.name = m
             PROVE  StepsRelyOn(m)'
  BY DEF StepsRelyOn, Registering
<1>a. op # None => op \in Operations
  BY DEF RegistryTypeOK
<1>b. /\ holder \in [Names -> Sids \cup {None}] /\ record \in [Names -> Records \cup {None}]
      /\ None \notin provisioned \cup swapped
  BY DEF RegistryTypeOK
<1>c. /\ StepsRelyOn(m)
      /\ holder[m] \notin unused
      /\ record[m] # None => record[m].sid \notin unused /\ record[m].sid # None
      /\ op # None => op.sid \notin unused
  BY DEF SidsAreUnique, AccountsAreUnique, RegistryTypeOK, Records
<1>1. ASSUME NEW n \in Names, Load(n)
      PROVE  StepsRelyOn(m)'
  <2>1. CASE op.kind # "create" /\ Managed(n) /\ Moved("check", record[n].sid, op.retried, op.calm)
    BY <1>a, <1>b, <1>c, <2>1, <1>1 DEF Load, Moved, StepsRelyOn, Registering, Managed, Trusted,
       Vouched
  <2>2. CASE op.kind = "create" /\ record[n] = None /\ Moved("add", op.sid, op.retried, op.calm)
    BY <1>a, <1>b, <1>c, <2>2, <1>1 DEF Load, Moved, StepsRelyOn, Registering, Managed, Trusted,
       Vouched
  <2>3. CASE /\ op.kind = "takeover" /\ (record[n] = None \/ (Trusted(n) /\ ~Managed(n)))
             /\ Moved("existing", op.sid, op.retried, op.calm)
    BY <1>a, <1>b, <1>c, <2>3, <1>1 DEF Load, Moved, StepsRelyOn, Registering, Managed, Trusted,
       Vouched
  <2>4. CASE /\ op.kind = "takeover" => record[n] # None /\ ~Trusted(n)
             /\ op.kind = "delete" => ~Managed(n)
             /\ Moved("refused", None, FALSE, op.calm)
    BY <1>a, <1>b, <1>c, <2>4, <1>1 DEF Load, Moved, StepsRelyOn, Registering, Managed, Trusted,
       Vouched
  <2> QED
    BY <2>1, <2>2, <2>3, <2>4, <1>c, LoadMoves, <1>1
<1>2. ASSUME NEW n \in Names, Check(n)
      PROVE  StepsRelyOn(m)'
  <2>1. CASE op.kind = "takeover" /\ Moved("existing", op.sid, op.retried, op.calm)
    BY <1>a, <1>b, <1>c, <2>1, <1>2 DEF Check, Moved, StepsRelyOn, Registering, Managed,
       Trusted, Vouched
  <2>2. CASE op.kind = "reset" /\ holder[n] = op.sid /\ Moved("password", op.sid, op.retried, op.calm)
    BY <1>a, <1>b, <1>c, <2>2, <1>2 DEF Check, Moved, StepsRelyOn, Registering, Managed,
       Trusted, Vouched
  <2>3. CASE op.kind = "delete" /\ holder[n] = None /\ Moved("remove", op.sid, op.retried, op.calm)
    BY <1>a, <1>b, <1>c, <2>3, <1>2 DEF Check, Moved, StepsRelyOn, Registering, Managed,
       Trusted, Vouched
  <2>4. CASE /\ op.kind = "delete" /\ holder[n] = op.sid /\ holder[n] # None
             /\ Moved("erase", op.sid, op.retried, op.calm)
    BY <1>a, <1>b, <1>c, <2>4, <1>2 DEF Check, Moved, StepsRelyOn, Registering, Managed,
       Trusted, Vouched
  <2>5. CASE /\ op.kind # "takeover" \/ ~op.force
             /\ op.kind = "delete" => holder[n] \notin {None, op.sid}
             /\ Moved("refused", None, FALSE, op.calm)
    BY <1>a, <1>b, <1>c, <2>5, <1>2 DEF Check, Moved, StepsRelyOn, Registering, Managed,
       Trusted, Vouched
  <2> QED
    BY <2>1, <2>2, <2>3, <2>4, <2>5, <1>c, CheckMoves, <1>2
<1>3. ASSUME NEW n \in Names, LookAtExisting(n)
      PROVE  StepsRelyOn(m)'
  <2>1. m = n /\ op # None /\ op.kind \in {"create", "takeover"} /\ (record[m] = None \/ Trusted(m))
    <3>1. m = n
      BY <1>a, LookAtExistingMoves, <1>3 DEF LookAtExisting, Moved
    <3>2. Registering(n)
      BY <1>3 DEF LookAtExisting, Registering, StepsRelyOn
    <3> QED
      BY <1>c, <3>1, <3>2, <1>3 DEF StepsRelyOn, AddAccount, LookAtExisting
  <2>2. /\ op'.at \in {"add", "refused", "password"}
        /\ op'.kind = op.kind /\ op'.force = op.force /\ op'.name = op.name
    BY <1>a, <1>c, LookAtExistingMoves, <1>3 DEF Moved
  <2>3. Trusted(m)' <=> Trusted(m)
    BY <1>3 DEF LookAtExisting, Trusted
  <2> QED
    BY <1>c, <2>1, <2>2, <2>3, <1>3 DEF LookAtExisting, StepsRelyOn, Registering
<1>4. ASSUME NEW n \in Names, AddAccount(n)
      PROVE  StepsRelyOn(m)'
  <2>1. m = n /\ op # None /\ op.kind \in {"create", "takeover"} /\ (record[m] = None \/ Trusted(m))
    <3>1. m = n
      BY <1>a, AddAccountMoves, <1>4 DEF AddAccount, Moved
    <3>2. Registering(n)
      BY <1>4 DEF AddAccount, Registering, StepsRelyOn
    <3> QED
      BY <1>c, <3>1, <3>2, <1>4 DEF StepsRelyOn, AddAccount, LookAtExisting
  <2>2. /\ op'.kind = op.kind /\ op'.force = op.force /\ op'.name = op.name
        /\ op'.at \in {"existing", "refused"} \/ (op'.at = "resolve" /\ holder'[n] \in provisioned')
    <3>1. /\ op'.kind = op.kind /\ op'.force = op.force /\ op'.name = op.name
          /\ op'.at \in {"existing", "refused", "resolve"}
      BY <1>a, AddAccountMoves, <1>4 DEF Moved
    <3>2. CASE holder[n] = None
      BY <1>b, <3>1, <3>2, <1>4 DEF AddAccount
    <3>3. CASE holder[n] # None
      BY <1>a, <3>3, <1>4 DEF AddAccount, Goto, Refuse, Return, Operations
    <3> QED
      BY <3>1, <3>2, <3>3
  <2>3. record'[m] = record[m] /\ (Trusted(m)' <=> Trusted(m))
    BY <1>4 DEF AddAccount, Trusted
  <2> QED
    BY <1>c, <2>1, <2>2, <2>3 DEF StepsRelyOn, Registering
<1>5. ASSUME NEW n \in Names, SetPassword(n)
      PROVE  StepsRelyOn(m)'
  <2>1. CASE op.force /\ holder[n] = None /\ Moved("add", op.sid, op.retried, op.calm)
    BY <1>a, <1>b, <1>c, <2>1, <1>5 DEF SetPassword, Moved, StepsRelyOn, Registering, Managed,
       Trusted, Vouched
  <2>2. CASE holder[n] \in admins \cup {None} /\ Moved("refused", None, FALSE, op.calm)
    BY <1>a, <1>b, <1>c, <2>2, <1>5 DEF SetPassword, Moved, StepsRelyOn, Registering, Managed,
       Trusted, Vouched
  <2>3. CASE op.kind = "reset" /\ Moved("done", None, FALSE, op.calm)
    BY <1>a, <1>b, <1>c, <2>3, <1>5 DEF SetPassword, Moved, StepsRelyOn, Registering, Managed,
       Trusted, Vouched
  <2>4. CASE /\ op.kind # "reset" /\ holder[n] # None
             /\ Moved("harden", holder[n], op.retried, op.calm)
    BY <1>a, <1>b, <1>c, <2>4, <1>5 DEF SetPassword, Moved, StepsRelyOn, Registering, Managed,
       Trusted, Vouched
  <2> QED
    BY <2>1, <2>2, <2>3, <2>4, <1>c, SetPasswordMoves, <1>5
<1>6. ASSUME NEW n \in Names, Harden(n)
      PROVE  StepsRelyOn(m)'
  <2>1. CASE op.force /\ holder[n] = None /\ Moved("add", op.sid, op.retried, op.calm)
    BY <1>a, <1>b, <1>c, <2>1, <1>6 DEF Harden, Moved, StepsRelyOn, Registering, Managed,
       Trusted, Vouched
  <2>2. CASE holder[n] = None /\ Moved("refused", None, FALSE, op.calm)
    BY <1>a, <1>b, <1>c, <2>2, <1>6 DEF Harden, Moved, StepsRelyOn, Registering, Managed,
       Trusted, Vouched
  <2>3. CASE holder[n] # None /\ Moved("comment", op.sid, op.retried, op.calm)
    <3>1. m = n /\ holder' = holder /\ swapped' = swapped
      BY <1>a, <2>3, <1>6 DEF Harden, Moved
    <3>2. holder[m] \in {None} \cup provisioned' \cup swapped
      BY <1>c, <1>6, <2>3, <3>1 DEF Harden, StepsRelyOn
    <3>3. op.kind \in {"create", "takeover"} /\ (op.force => op.kind = "takeover")
      BY <1>c, <1>6, <3>1 DEF Harden, StepsRelyOn, Registering
    <3>4. record'[m] = None \/ Trusted(m)'
      BY <1>c, <1>6, <3>1 DEF Harden, StepsRelyOn, Registering, Trusted
    <3> QED
      BY <2>3, <3>1, <3>2, <3>3, <3>4 DEF Moved, StepsRelyOn, Registering
  <2> QED
    BY <2>1, <2>2, <2>3, <1>c, HardenMoves, <1>6
<1>7. ASSUME NEW n \in Names, SetComment(n)
      PROVE  StepsRelyOn(m)'
  <2>1. CASE op.force /\ holder[n] = None /\ Moved("add", op.sid, op.retried, op.calm)
    BY <1>a, <1>b, <1>c, <2>1, <1>7
       DEF SetComment, Moved, StepsRelyOn, Registering, Managed, Trusted, Vouched
  <2>2. CASE holder[n] = None /\ Moved("refused", None, FALSE, op.calm)
    BY <1>a, <1>b, <1>c, <2>2, <1>7
       DEF SetComment, Moved, StepsRelyOn, Registering, Managed, Trusted, Vouched
  <2>3. CASE Moved("resolve", op.sid, op.retried, op.calm)
    BY <1>a, <1>b, <1>c, <2>3, <1>7
       DEF SetComment, Moved, StepsRelyOn, Registering, Managed, Trusted, Vouched
  <2> QED
    BY <2>1, <2>2, <2>3, <1>c, SetCommentMoves, <1>7
<1>8. ASSUME NEW n \in Names, Resolve(n)
      PROVE  StepsRelyOn(m)'
  <2>1. CASE holder[n] = None /\ Moved("refused", None, FALSE, op.calm)
    BY <1>a, <1>b, <1>c, <2>1, <1>8
       DEF Resolve, Moved, StepsRelyOn, Registering, Managed, Trusted, Vouched
  <2>2. CASE holder[n] # None /\ Moved("store", holder[n], op.retried, op.calm)
    BY <1>a, <1>b, <1>c, <2>2, <1>8
       DEF Resolve, Moved, StepsRelyOn, Registering, Managed, Trusted, Vouched
  <2> QED
    BY <2>1, <2>2, <1>c, ResolveMoves, <1>8
<1>9. ASSUME NEW n \in Names, StoreKey(n)
      PROVE  StepsRelyOn(m)'
  BY <1>a, <1>b, <1>c, KeyReplaced, <1>9 DEF StepsRelyOn, Registering, Managed, Trusted,
     StoreKey, Vouched
<1>10. ASSUME NEW n \in Names, StoreRecord(n)
      PROVE  StepsRelyOn(m)'
  BY <1>a, <1>b, <1>c, StoreRecordMoves, <1>10
     DEF StoreRecord, Moved, StepsRelyOn, Registering, Managed, Trusted, Vouched
<1>11. ASSUME NEW n \in Names, Erase(n)
      PROVE  StepsRelyOn(m)'
  <2>1. CASE holder[n] = None /\ Moved("refused", None, FALSE, op.calm)
    BY <1>a, <1>b, <1>c, <2>1, <1>11 DEF Erase, Moved, StepsRelyOn, Registering, Managed,
       Trusted, Vouched
  <2>2. CASE holder[n] # None /\ Moved("remove", op.sid, op.retried, op.calm)
    BY <1>a, <1>b, <1>c, <2>2, <1>11 DEF Erase, Moved, StepsRelyOn, Registering, Managed,
       Trusted, Vouched
  <2> QED
    BY <2>1, <2>2, <1>c, EraseMoves, <1>11
<1>12. ASSUME NEW n \in Names, RemoveRecord(n)
      PROVE  StepsRelyOn(m)'
  BY <1>a, <1>b, <1>c, RemoveRecordMoves, <1>12
     DEF RemoveRecord, Moved, StepsRelyOn, Registering, Managed, Trusted, Vouched
<1>13. ASSUME NEW n \in Names, AdminDeletes(n)
      PROVE  StepsRelyOn(m)'
  <2>1. /\ op # None /\ op.name = m
        /\ op'.at = op.at /\ op'.sid = op.sid /\ op'.kind = op.kind /\ op'.force = op.force
    BY <1>a, AdminDeletesMoves, <1>13 DEF Moved
  <2>2. CASE m # n
    <3>1. holder'[m] = holder[m] /\ record'[m] = record[m] /\ UNCHANGED <<provisioned, key>>
      BY <2>2, <1>b, <1>13 DEF AdminDeletes
    <3>2. holder'[m] \in swapped => holder'[m] \in swapped'
      BY <1>13 DEF AdminDeletes
    <3> QED
      BY <1>c, <2>1, <3>1, <3>2, <1>13 DEF AdminDeletes, StepsRelyOn, Registering, Managed,
         Trusted, Vouched
  <2>3. CASE m = n
    <3>1. /\ record' = record /\ UNCHANGED <<provisioned, key>> /\ swapped \subseteq swapped'
          /\ \/ holder' = holder
             \/ holder'[m] = None
             \/ (holder'[m] \in unused /\ (Idle \/ holder'[m] \in swapped'))
      BY <1>b, <2>1, <2>3, <1>13 DEF AdminDeletes
    <3> QED
      BY <1>b, <1>c, <2>1, <3>1 DEF StepsRelyOn, Registering, Managed, Trusted, Vouched, Idle
  <2> QED
    BY <2>2, <2>3
<1>14. ASSUME NEW n \in Names, AdminCreates(n)
      PROVE  StepsRelyOn(m)'
  <2>1. /\ op # None /\ op.name = m
        /\ op'.at = op.at /\ op'.sid = op.sid /\ op'.kind = op.kind /\ op'.force = op.force
    BY <1>a, AdminCreatesMoves, <1>14 DEF Moved
  <2>2. CASE m # n
    <3>1. holder'[m] = holder[m] /\ record'[m] = record[m] /\ UNCHANGED <<provisioned, key>>
      BY <2>2, <1>b, <1>14 DEF AdminCreates
    <3>2. holder'[m] \in swapped => holder'[m] \in swapped'
      BY <1>14 DEF AdminCreates
    <3> QED
      BY <1>c, <2>1, <3>1, <3>2, <1>14 DEF AdminCreates, StepsRelyOn, Registering, Managed,
         Trusted, Vouched
  <2>3. CASE m = n
    <3>1. /\ record' = record /\ UNCHANGED <<provisioned, key>> /\ swapped \subseteq swapped'
          /\ \/ holder' = holder
             \/ holder'[m] = None
             \/ (holder'[m] \in unused /\ (Idle \/ holder'[m] \in swapped'))
      BY <1>b, <2>1, <2>3, <1>14 DEF AdminCreates
    <3> QED
      BY <1>b, <1>c, <2>1, <3>1 DEF StepsRelyOn, Registering, Managed, Trusted, Vouched, Idle
  <2> QED
    BY <2>2, <2>3
<1>15. ASSUME NEW n \in Names, AdminChanges(n)
      PROVE  StepsRelyOn(m)'
  <2>1. /\ op # None /\ op.name = m
        /\ op'.at = op.at /\ op'.sid = op.sid /\ op'.kind = op.kind /\ op'.force = op.force
    BY <1>a, AdminChangesMoves, <1>15 DEF Moved
  <2>2. CASE m # n
    <3>1. holder'[m] = holder[m] /\ record'[m] = record[m] /\ UNCHANGED <<provisioned, key>>
      BY <2>2, <1>b, <1>15 DEF AdminChanges
    <3>2. holder'[m] \in swapped => holder'[m] \in swapped'
      BY <1>15 DEF AdminChanges
    <3> QED
      BY <1>c, <2>1, <3>1, <3>2, <1>15 DEF AdminChanges, StepsRelyOn, Registering, Managed,
         Trusted, Vouched
  <2>3. CASE m = n
    <3>1. /\ record' = record /\ UNCHANGED <<provisioned, key>> /\ swapped \subseteq swapped'
          /\ \/ holder' = holder
             \/ holder'[m] = None
             \/ (holder'[m] \in unused /\ (Idle \/ holder'[m] \in swapped'))
      BY <1>b, <2>1, <2>3, <1>15 DEF AdminChanges
    <3> QED
      BY <1>b, <1>c, <2>1, <3>1 DEF StepsRelyOn, Registering, Managed, Trusted, Vouched, Idle
  <2> QED
    BY <2>2, <2>3
<1>16. ASSUME NEW n \in Names, NEW kind \in Kinds, NEW force \in BOOLEAN, Begin(kind, n, force)
      PROVE  StepsRelyOn(m)'
  BY <1>a, <1>b, <1>16 DEF StepsRelyOn, Registering, Managed, Trusted, Begin
<1>17. CASE List
  BY <1>a, <1>b, <1>c, KeyReplaced, <1>17
     DEF StepsRelyOn, Registering, Managed, Trusted, List, Idle, Vouched
<1>18. CASE Interrupt
  BY <1>a, Moves, <1>18 DEF StepsRelyOn, Registering, Managed, Trusted, Interrupt, Idle, Moved
<1>19. CASE KeyIsLost
  BY <1>a, <1>b, <1>c, KeyReplaced, <1>19
     DEF StepsRelyOn, Registering, Managed, Trusted, KeyIsLost, Idle, Vouched
<1>20. CASE UNCHANGED registryVars
  BY <1>a, <1>b, <1>c, <1>20 DEF StepsRelyOn, Registering, Managed, Trusted, registryVars, Idle,
     Vouched
<1> QED
  BY <1>1, <1>2, <1>3, <1>4, <1>5, <1>6, <1>7, <1>8, <1>9, <1>10,
     <1>11, <1>12, <1>13, <1>14, <1>15, <1>16, <1>17, <1>18, <1>19, <1>20
     DEF RegistryNext, OperationStep, AdminStep

\* An undisturbed operation finds what it needs.
CalmOK == op # None /\ op.calm /\ op.clear => CalmStepsFind(op.name)

LEMMA CalmStep ==
    RegistryTypeOK /\ SidsAreUnique /\ (\A n \in Names : StepsRelyOn(n)) /\ CalmOK /\ [RegistryNext]_registryVars
        => CalmOK'
<1> SUFFICES ASSUME RegistryTypeOK, SidsAreUnique, (\A n \in Names : StepsRelyOn(n)), CalmOK,
                    [RegistryNext]_registryVars
             PROVE  CalmOK'
  OBVIOUS
<1> USE NoneIsApart DEF accountVars, At
<1> SUFFICES ASSUME NEW m, m = op'.name, op' # None, op'.calm, op'.clear
             PROVE  CalmStepsFind(m)'
  BY DEF CalmOK
<1>a. op # None => op \in Operations /\ (op.calm /\ op.clear => CalmStepsFind(op.name))
  BY DEF CalmOK, RegistryTypeOK
<1>b. /\ holder \in [Names -> Sids \cup {None}] /\ record \in [Names -> Records \cup {None}]
      /\ None \notin admins \cup disabled \cup unused
  BY DEF RegistryTypeOK
<1>c. /\ \A k, l \in Names : holder[k] = holder[l] /\ holder[k] # None => k = l
      /\ \A n \in Names : StepsRelyOn(n)
      /\ (disabled \cup admins) \cap unused = {}
  BY DEF SidsAreUnique, AccountsAreUnique, RegistryTypeOK, Records
<1>1. ASSUME NEW n \in Names, Load(n)
      PROVE  CalmStepsFind(m)'
  <2>1. CASE op.kind # "create" /\ Managed(n) /\ Moved("check", record[n].sid, op.retried, op.calm)
    BY <1>a, <1>b, <1>c, <2>1, <1>1 DEF Load, Moved, CalmStepsFind, Managed, Trusted, Idle
  <2>2. CASE op.kind = "create" /\ record[n] = None /\ Moved("add", op.sid, op.retried, op.calm)
    BY <1>a, <1>b, <1>c, <2>2, <1>1 DEF Load, Moved, CalmStepsFind, Managed, Trusted, Idle
  <2>3. CASE /\ op.kind = "takeover" /\ (record[n] = None \/ (Trusted(n) /\ ~Managed(n)))
             /\ Moved("existing", op.sid, op.retried, op.calm)
    BY <1>a, <1>b, <1>c, <2>3, <1>1 DEF Load, Moved, CalmStepsFind, Managed, Trusted, Idle
  <2>4. CASE /\ op.kind = "takeover" => record[n] # None /\ ~Trusted(n)
             /\ op.kind = "delete" => ~Managed(n)
             /\ Moved("refused", None, FALSE, op.calm)
    BY <1>a, <1>b, <1>c, <2>4, <1>1 DEF Load, Moved, CalmStepsFind, Managed, Trusted, Idle
  <2> QED
    BY <2>1, <2>2, <2>3, <2>4, <1>c, LoadMoves, <1>1
<1>2. ASSUME NEW n \in Names, Check(n)
      PROVE  CalmStepsFind(m)'
  <2>1. CASE op.kind = "takeover" /\ Moved("existing", op.sid, op.retried, op.calm)
    BY <1>a, <1>b, <1>c, <2>1, <1>2 DEF Check, Moved, CalmStepsFind, Managed, Trusted, Idle
  <2>2. CASE op.kind = "reset" /\ holder[n] = op.sid /\ Moved("password", op.sid, op.retried, op.calm)
    BY <1>a, <1>b, <1>c, <2>2, <1>2 DEF Check, Moved, CalmStepsFind, Managed, Trusted, Idle
  <2>3. CASE op.kind = "delete" /\ holder[n] = None /\ Moved("remove", op.sid, op.retried, op.calm)
    BY <1>a, <1>b, <1>c, <2>3, <1>2 DEF Check, Moved, CalmStepsFind, Managed, Trusted, Idle
  <2>4. CASE /\ op.kind = "delete" /\ holder[n] = op.sid /\ holder[n] # None
             /\ Moved("erase", op.sid, op.retried, op.calm)
    BY <1>a, <1>b, <1>c, <2>4, <1>2 DEF Check, Moved, CalmStepsFind, Managed, Trusted, Idle
  <2>5. CASE /\ op.kind # "takeover" \/ ~op.force
             /\ op.kind = "delete" => holder[n] \notin {None, op.sid}
             /\ Moved("refused", None, FALSE, op.calm)
    BY <1>a, <1>b, <1>c, <2>5, <1>2 DEF Check, Moved, CalmStepsFind, Managed, Trusted, Idle
  <2> QED
    BY <2>1, <2>2, <2>3, <2>4, <2>5, <1>c, CheckMoves, <1>2
<1>3. ASSUME NEW n \in Names, LookAtExisting(n)
      PROVE  CalmStepsFind(m)'
  <2>1. CASE /\ op.force /\ ~op.retried /\ holder[n] = None
             /\ Moved("add", op.sid, op.retried, op.calm)
    BY <1>a, <1>b, <1>c, <2>1, <1>3 DEF LookAtExisting, Moved, CalmStepsFind, Managed, Trusted,
       Idle
  <2>2. CASE /\ op.force => holder[n] \in admins \/ op.retried
             /\ Moved("refused", None, FALSE, op.calm)
    BY <1>a, <1>b, <1>c, <2>2, <1>3 DEF LookAtExisting, Moved, CalmStepsFind, Managed, Trusted,
       Idle
  <2>3. CASE holder[n] # None /\ Moved("password", op.sid, op.retried, op.calm)
    BY <1>a, <1>b, <1>c, <2>3, <1>3 DEF LookAtExisting, Moved, CalmStepsFind, Managed, Trusted,
       Idle
  <2> QED
    BY <2>1, <2>2, <2>3, <1>c, LookAtExistingMoves, <1>3
<1>4. ASSUME NEW n \in Names, AddAccount(n)
      PROVE  CalmStepsFind(m)'
  <2>1. CASE op.kind = "takeover" /\ holder[n] # None /\ Moved("existing", op.sid, TRUE, op.calm)
    BY <1>a, <1>b, <1>c, <2>1, <1>4 DEF AddAccount, Moved, CalmStepsFind, Managed, Trusted, Idle
  <2>2. CASE op.kind # "takeover" /\ Moved("refused", None, FALSE, op.calm)
    BY <1>a, <1>b, <1>c, <2>2, <1>4 DEF AddAccount, Moved, CalmStepsFind, Managed, Trusted, Idle
  <2>3. CASE Moved("resolve", op.sid, op.retried, op.calm)
    BY <1>a, <1>b, <1>c, <2>3, <1>4 DEF AddAccount, Moved, CalmStepsFind, Managed, Trusted, Idle
  <2> QED
    BY <2>1, <2>2, <2>3, <1>c, AddAccountMoves, <1>4
<1>5. ASSUME NEW n \in Names, SetPassword(n)
      PROVE  CalmStepsFind(m)'
  <2>1. CASE op.force /\ holder[n] = None /\ Moved("add", op.sid, op.retried, op.calm)
    BY <1>a, <1>b, <1>c, <2>1, <1>5 DEF SetPassword, Moved, CalmStepsFind, Managed, Trusted, Idle
  <2>2. CASE holder[n] \in admins \cup {None} /\ Moved("refused", None, FALSE, op.calm)
    BY <1>a, <1>b, <1>c, <2>2, <1>5 DEF SetPassword, Moved, CalmStepsFind, Managed, Trusted, Idle
  <2>3. CASE op.kind = "reset" /\ Moved("done", None, FALSE, op.calm)
    BY <1>a, <1>b, <1>c, <2>3, <1>5 DEF SetPassword, Moved, CalmStepsFind, Managed, Trusted, Idle
  <2>4. CASE /\ op.kind # "reset" /\ holder[n] # None
             /\ Moved("harden", holder[n], op.retried, op.calm)
    BY <1>a, <1>b, <1>c, <2>4, <1>5 DEF SetPassword, Moved, CalmStepsFind, Managed, Trusted, Idle
  <2> QED
    BY <2>1, <2>2, <2>3, <2>4, <1>c, SetPasswordMoves, <1>5
<1>6. ASSUME NEW n \in Names, Harden(n)
      PROVE  CalmStepsFind(m)'
  <2>1. CASE op.force /\ holder[n] = None /\ Moved("add", op.sid, op.retried, op.calm)
    BY <1>a, <1>b, <1>c, <2>1, <1>6 DEF Harden, Moved, CalmStepsFind, Managed, Trusted, Idle
  <2>2. CASE holder[n] = None /\ Moved("refused", None, FALSE, op.calm)
    BY <1>a, <1>b, <1>c, <2>2, <1>6 DEF Harden, Moved, CalmStepsFind, Managed, Trusted, Idle
  <2>3. CASE holder[n] # None /\ Moved("comment", op.sid, op.retried, op.calm)
    BY <1>a, <1>b, <1>c, <2>3, <1>6 DEF Harden, Moved, CalmStepsFind, Managed, Trusted, Idle
  <2> QED
    BY <2>1, <2>2, <2>3, <1>c, HardenMoves, <1>6
<1>7. ASSUME NEW n \in Names, SetComment(n)
      PROVE  CalmStepsFind(m)'
  <2>1. CASE op.force /\ holder[n] = None /\ Moved("add", op.sid, op.retried, op.calm)
    BY <1>a, <1>b, <1>c, <2>1, <1>7 DEF SetComment, Moved, CalmStepsFind, Managed, Trusted, Idle
  <2>2. CASE holder[n] = None /\ Moved("refused", None, FALSE, op.calm)
    BY <1>a, <1>b, <1>c, <2>2, <1>7 DEF SetComment, Moved, CalmStepsFind, Managed, Trusted, Idle
  <2>3. CASE Moved("resolve", op.sid, op.retried, op.calm)
    BY <1>a, <1>b, <1>c, <2>3, <1>7 DEF SetComment, Moved, CalmStepsFind, Managed, Trusted, Idle
  <2> QED
    BY <2>1, <2>2, <2>3, <1>c, SetCommentMoves, <1>7
<1>8. ASSUME NEW n \in Names, Resolve(n)
      PROVE  CalmStepsFind(m)'
  <2>1. CASE holder[n] = None /\ Moved("refused", None, FALSE, op.calm)
    BY <1>a, <1>b, <1>c, <2>1, <1>8 DEF Resolve, Moved, CalmStepsFind, Managed, Trusted, Idle
  <2>2. CASE holder[n] # None /\ Moved("store", holder[n], op.retried, op.calm)
    BY <1>a, <1>b, <1>c, <2>2, <1>8 DEF Resolve, Moved, CalmStepsFind, Managed, Trusted, Idle
  <2> QED
    BY <2>1, <2>2, <1>c, ResolveMoves, <1>8
<1>9. ASSUME NEW n \in Names, StoreKey(n)
      PROVE  CalmStepsFind(m)'
  BY <1>a, <1>b, <1>c, KeyReplaced, <1>9 DEF StoreKey, CalmStepsFind, Idle
<1>10. ASSUME NEW n \in Names, StoreRecord(n)
      PROVE  CalmStepsFind(m)'
  BY <1>a, <1>b, <1>c, StoreRecordMoves, <1>10
     DEF StoreRecord, Moved, CalmStepsFind, Managed, Trusted, Idle
<1>11. ASSUME NEW n \in Names, Erase(n)
      PROVE  CalmStepsFind(m)'
  <2>1. CASE holder[n] = None /\ Moved("refused", None, FALSE, op.calm)
    BY <1>a, <1>b, <1>c, <2>1, <1>11 DEF Erase, Moved, CalmStepsFind, Managed, Trusted, Idle
  <2>2. CASE holder[n] # None /\ Moved("remove", op.sid, op.retried, op.calm)
    BY <1>a, <1>b, <1>c, <2>2, <1>11 DEF Erase, Moved, CalmStepsFind, Managed, Trusted, Idle
  <2> QED
    BY <2>1, <2>2, <1>c, EraseMoves, <1>11
<1>12. ASSUME NEW n \in Names, RemoveRecord(n)
      PROVE  CalmStepsFind(m)'
  <2>1. CASE record[n] = None /\ Moved("refused", None, FALSE, op.calm)
    BY <1>a, <1>b, <1>c, <2>1, <1>12 DEF RemoveRecord, Moved, CalmStepsFind, StepsRelyOn,
       Managed, Trusted, Idle
  <2>2. CASE record[n] # None /\ Moved("done", None, FALSE, op.calm)
    BY <1>a, <1>b, <1>c, <2>2, <1>12 DEF RemoveRecord, Moved, CalmStepsFind, StepsRelyOn,
       Managed, Trusted, Idle
  <2> QED
    BY <2>1, <2>2, <1>c, RemoveRecordMoves, <1>12
<1>13. ASSUME NEW n \in Names, AdminDeletes(n)
      PROVE  CalmStepsFind(m)'
  <2>1. op' = op /\ op # None /\ op.calm /\ op.clear /\ op.name = m /\ CalmStepsFind(m)
    BY <1>a, <1>c, AdminDeletesMoves, <1>13 DEF Moved
  <2>2. op.name # n /\ m \in Names
    BY <1>a, <1>c, <2>1, <1>13 DEF AdminDeletes, Disturb, Operations
  <2>3. /\ record' = record /\ key' = key /\ holder'[m] = holder[m]
        /\ holder[m] \notin admins => holder[m] \notin admins'
        /\ holder[m] \notin disabled => holder[m] \notin disabled'
    BY <1>b, <1>c, <2>1, <2>2, <1>13 DEF AdminDeletes
  <2> QED
    BY <2>1, <2>3 DEF CalmStepsFind, Managed, Trusted, Idle
<1>14. ASSUME NEW n \in Names, AdminCreates(n)
      PROVE  CalmStepsFind(m)'
  <2>1. op' = op /\ op # None /\ op.calm /\ op.clear /\ op.name = m /\ CalmStepsFind(m)
    BY <1>a, <1>c, AdminCreatesMoves, <1>14 DEF Moved
  <2>2. op.name # n /\ m \in Names
    BY <1>a, <1>c, <2>1, <1>14 DEF AdminCreates, Disturb, Operations
  <2>3. /\ record' = record /\ key' = key /\ holder'[m] = holder[m]
        /\ holder[m] \notin admins => holder[m] \notin admins'
        /\ holder[m] \notin disabled => holder[m] \notin disabled'
    BY <1>b, <1>c, <2>1, <2>2, <1>14 DEF AdminCreates
  <2> QED
    BY <2>1, <2>3 DEF CalmStepsFind, Managed, Trusted, Idle
<1>15. ASSUME NEW n \in Names, AdminChanges(n)
      PROVE  CalmStepsFind(m)'
  <2>1. op' = op /\ op # None /\ op.calm /\ op.clear /\ op.name = m /\ CalmStepsFind(m)
    BY <1>a, <1>c, AdminChangesMoves, <1>15 DEF Moved
  <2>2. op.name # n /\ m \in Names
    BY <1>a, <1>c, <2>1, <1>15 DEF AdminChanges, Disturb, Operations
  <2>3. /\ record' = record /\ key' = key /\ holder'[m] = holder[m]
        /\ holder[m] \notin admins => holder[m] \notin admins'
        /\ holder[m] \notin disabled => holder[m] \notin disabled'
    BY <1>b, <1>c, <2>1, <2>2, <1>15 DEF AdminChanges
  <2> QED
    BY <2>1, <2>3 DEF CalmStepsFind, Managed, Trusted, Idle
<1>16. ASSUME NEW n \in Names, NEW kind \in Kinds, NEW force \in BOOLEAN, Begin(kind, n, force)
      PROVE  CalmStepsFind(m)'
  BY <1>a, <1>b, <1>16 DEF Begin, CalmStepsFind, Managed, Trusted, Idle
<1>17. CASE List
  BY <1>a, <1>b, <1>c, KeyReplaced, <1>17 DEF List, Idle, CalmStepsFind
<1>18. CASE Interrupt
  BY <1>a, Moves, <1>18 DEF Interrupt, Idle, Moved
<1>19. CASE KeyIsLost
  BY <1>a, <1>b, <1>c, KeyReplaced, <1>19 DEF KeyIsLost, Idle, CalmStepsFind
<1>20. CASE UNCHANGED registryVars
  BY <1>a, <1>b, <1>c, <1>20 DEF registryVars, Idle, CalmStepsFind, Managed, Trusted
<1> QED
  BY <1>1, <1>2, <1>3, <1>4, <1>5, <1>6, <1>7, <1>8, <1>9, <1>10,
     <1>11, <1>12, <1>13, <1>14, <1>15, <1>16, <1>17, <1>18, <1>19, <1>20
     DEF RegistryNext, OperationStep, AdminStep

\* What a repair leaves.
Repaired ==
    /\ op.force =>
          /\ op.at = "done"
          /\ record[op.name] # None /\ record[op.name].managed
          /\ record[op.name].sid = holder[op.name] /\ holder[op.name] \notin disabled
    /\ op.kind = "delete" =>
          op.at = "done" /\ holder[op.name] = None /\ record[op.name] = None

\* Undisturbed repairs succeed.
LEMMA RepairStep ==
    RegistryTypeOK /\ SidsAreUnique /\ (\A n \in Names : StepsRelyOn(n)) /\ CalmOK /\ FailuresCanBeRepaired /\ [RegistryNext]_registryVars
        => FailuresCanBeRepaired'
<1> SUFFICES ASSUME RegistryTypeOK, SidsAreUnique, (\A n \in Names : StepsRelyOn(n)), CalmOK,
                    FailuresCanBeRepaired, [RegistryNext]_registryVars
             PROVE  FailuresCanBeRepaired'
  OBVIOUS
<1> USE NoneIsApart DEF accountVars, At
<1> SUFFICES ASSUME op' # None, Idle', op'.calm, op'.clear
             PROVE  Repaired'
  BY DEF FailuresCanBeRepaired, Repaired
<1>a. op # None => /\ op \in Operations /\ op.name \in Names
                   /\ op.calm /\ op.clear => CalmStepsFind(op.name)
                   /\ op.calm /\ op.clear /\ Idle => Repaired
  BY DEF RegistryTypeOK, CalmOK, FailuresCanBeRepaired, Repaired, Operations
<1>b. /\ holder \in [Names -> Sids \cup {None}] /\ record \in [Names -> Records \cup {None}]
      /\ None \notin admins \cup disabled \cup unused
  BY DEF RegistryTypeOK
<1>c. /\ \A k, l \in Names : holder[k] = holder[l] /\ holder[k] # None => k = l
      /\ \A n \in Names : StepsRelyOn(n)
      /\ (disabled \cup admins) \cap unused = {}
  BY DEF SidsAreUnique, AccountsAreUnique, RegistryTypeOK, Records
<1>1. ASSUME NEW n \in Names, Load(n)
      PROVE  Repaired'
  <2>1. CASE op.kind # "create" /\ Managed(n) /\ Moved("check", record[n].sid, op.retried, op.calm)
    BY <1>a, <1>b, <1>c, <2>1, <1>1 DEF Load, Moved, Idle, CalmStepsFind, StepsRelyOn, Repaired
  <2>2. CASE op.kind = "create" /\ record[n] = None /\ Moved("add", op.sid, op.retried, op.calm)
    BY <1>a, <1>b, <1>c, <2>2, <1>1 DEF Load, Moved, Idle, CalmStepsFind, StepsRelyOn, Repaired
  <2>3. CASE /\ op.kind = "takeover" /\ (record[n] = None \/ (Trusted(n) /\ ~Managed(n)))
             /\ Moved("existing", op.sid, op.retried, op.calm)
    BY <1>a, <1>b, <1>c, <2>3, <1>1 DEF Load, Moved, Idle, CalmStepsFind, StepsRelyOn, Repaired
  <2>4. CASE /\ op.kind = "takeover" => record[n] # None /\ ~Trusted(n)
             /\ op.kind = "delete" => ~Managed(n)
             /\ Moved("refused", None, FALSE, op.calm)
    BY <1>a, <1>b, <1>c, <2>4, <1>1 DEF Load, Moved, Idle, CalmStepsFind, StepsRelyOn, Repaired
  <2> QED
    BY <2>1, <2>2, <2>3, <2>4, <1>c, LoadMoves, <1>1
<1>2. ASSUME NEW n \in Names, Check(n)
      PROVE  Repaired'
  <2>1. CASE op.kind = "takeover" /\ Moved("existing", op.sid, op.retried, op.calm)
    BY <1>a, <1>b, <1>c, <2>1, <1>2 DEF Check, Moved, Idle, CalmStepsFind, StepsRelyOn, Repaired
  <2>2. CASE op.kind = "reset" /\ holder[n] = op.sid /\ Moved("password", op.sid, op.retried, op.calm)
    BY <1>a, <1>b, <1>c, <2>2, <1>2 DEF Check, Moved, Idle, CalmStepsFind, StepsRelyOn, Repaired
  <2>3. CASE op.kind = "delete" /\ holder[n] = None /\ Moved("remove", op.sid, op.retried, op.calm)
    BY <1>a, <1>b, <1>c, <2>3, <1>2 DEF Check, Moved, Idle, CalmStepsFind, StepsRelyOn, Repaired
  <2>4. CASE /\ op.kind = "delete" /\ holder[n] = op.sid /\ holder[n] # None
             /\ Moved("erase", op.sid, op.retried, op.calm)
    BY <1>a, <1>b, <1>c, <2>4, <1>2 DEF Check, Moved, Idle, CalmStepsFind, StepsRelyOn, Repaired
  <2>5. CASE /\ op.kind # "takeover" \/ ~op.force
             /\ op.kind = "delete" => holder[n] \notin {None, op.sid}
             /\ Moved("refused", None, FALSE, op.calm)
    BY <1>a, <1>b, <1>c, <2>5, <1>2 DEF Check, Moved, Idle, CalmStepsFind, StepsRelyOn, Repaired
  <2> QED
    BY <2>1, <2>2, <2>3, <2>4, <2>5, <1>c, CheckMoves, <1>2
<1>3. ASSUME NEW n \in Names, LookAtExisting(n)
      PROVE  Repaired'
  <2>1. CASE /\ op.force /\ ~op.retried /\ holder[n] = None
             /\ Moved("add", op.sid, op.retried, op.calm)
    BY <1>a, <1>b, <1>c, <2>1, <1>3 DEF LookAtExisting, Moved, Idle, CalmStepsFind, StepsRelyOn,
       Repaired
  <2>2. CASE /\ op.force => holder[n] \in admins \/ op.retried
             /\ Moved("refused", None, FALSE, op.calm)
    BY <1>a, <1>b, <1>c, <2>2, <1>3 DEF LookAtExisting, Moved, Idle, CalmStepsFind, StepsRelyOn,
       Repaired
  <2>3. CASE holder[n] # None /\ Moved("password", op.sid, op.retried, op.calm)
    BY <1>a, <1>b, <1>c, <2>3, <1>3 DEF LookAtExisting, Moved, Idle, CalmStepsFind, StepsRelyOn,
       Repaired
  <2> QED
    BY <2>1, <2>2, <2>3, <1>c, LookAtExistingMoves, <1>3
<1>4. ASSUME NEW n \in Names, AddAccount(n)
      PROVE  Repaired'
  <2>1. CASE op.kind = "takeover" /\ holder[n] # None /\ Moved("existing", op.sid, TRUE, op.calm)
    BY <1>a, <1>b, <1>c, <2>1, <1>4 DEF AddAccount, Moved, Idle, CalmStepsFind, StepsRelyOn,
       Repaired
  <2>2. CASE op.kind # "takeover" /\ Moved("refused", None, FALSE, op.calm)
    BY <1>a, <1>b, <1>c, <2>2, <1>4 DEF AddAccount, Moved, Idle, CalmStepsFind, StepsRelyOn,
       Repaired
  <2>3. CASE Moved("resolve", op.sid, op.retried, op.calm)
    BY <1>a, <1>b, <1>c, <2>3, <1>4 DEF AddAccount, Moved, Idle, CalmStepsFind, StepsRelyOn,
       Repaired
  <2> QED
    BY <2>1, <2>2, <2>3, <1>c, AddAccountMoves, <1>4
<1>5. ASSUME NEW n \in Names, SetPassword(n)
      PROVE  Repaired'
  <2>1. CASE op.force /\ holder[n] = None /\ Moved("add", op.sid, op.retried, op.calm)
    BY <1>a, <1>b, <1>c, <2>1, <1>5 DEF SetPassword, Moved, Idle, CalmStepsFind, StepsRelyOn,
       Repaired
  <2>2. CASE holder[n] \in admins \cup {None} /\ Moved("refused", None, FALSE, op.calm)
    BY <1>a, <1>b, <1>c, <2>2, <1>5 DEF SetPassword, Moved, Idle, CalmStepsFind, StepsRelyOn,
       Repaired
  <2>3. CASE op.kind = "reset" /\ Moved("done", None, FALSE, op.calm)
    BY <1>a, <1>b, <1>c, <2>3, <1>5 DEF SetPassword, Moved, Idle, CalmStepsFind, StepsRelyOn,
       Repaired
  <2>4. CASE /\ op.kind # "reset" /\ holder[n] # None
             /\ Moved("harden", holder[n], op.retried, op.calm)
    BY <1>a, <1>b, <1>c, <2>4, <1>5 DEF SetPassword, Moved, Idle, CalmStepsFind, StepsRelyOn,
       Repaired
  <2> QED
    BY <2>1, <2>2, <2>3, <2>4, <1>c, SetPasswordMoves, <1>5
<1>6. ASSUME NEW n \in Names, Harden(n)
      PROVE  Repaired'
  <2>1. CASE op.force /\ holder[n] = None /\ Moved("add", op.sid, op.retried, op.calm)
    BY <1>a, <1>b, <1>c, <2>1, <1>6 DEF Harden, Moved, Idle, CalmStepsFind, StepsRelyOn, Repaired
  <2>2. CASE holder[n] = None /\ Moved("refused", None, FALSE, op.calm)
    BY <1>a, <1>b, <1>c, <2>2, <1>6 DEF Harden, Moved, Idle, CalmStepsFind, StepsRelyOn, Repaired
  <2>3. CASE holder[n] # None /\ Moved("comment", op.sid, op.retried, op.calm)
    BY <1>a, <1>b, <1>c, <2>3, <1>6 DEF Harden, Moved, Idle, CalmStepsFind, StepsRelyOn, Repaired
  <2> QED
    BY <2>1, <2>2, <2>3, <1>c, HardenMoves, <1>6
<1>7. ASSUME NEW n \in Names, SetComment(n)
      PROVE  Repaired'
  <2>1. CASE op.force /\ holder[n] = None /\ Moved("add", op.sid, op.retried, op.calm)
    BY <1>a, <1>b, <1>c, <2>1, <1>7 DEF SetComment, Moved, Idle, CalmStepsFind, StepsRelyOn,
       Repaired
  <2>2. CASE holder[n] = None /\ Moved("refused", None, FALSE, op.calm)
    BY <1>a, <1>b, <1>c, <2>2, <1>7 DEF SetComment, Moved, Idle, CalmStepsFind, StepsRelyOn,
       Repaired
  <2>3. CASE Moved("resolve", op.sid, op.retried, op.calm)
    BY <1>a, <1>b, <1>c, <2>3, <1>7 DEF SetComment, Moved, Idle, CalmStepsFind, StepsRelyOn,
       Repaired
  <2> QED
    BY <2>1, <2>2, <2>3, <1>c, SetCommentMoves, <1>7
<1>8. ASSUME NEW n \in Names, Resolve(n)
      PROVE  Repaired'
  <2>1. CASE holder[n] = None /\ Moved("refused", None, FALSE, op.calm)
    BY <1>a, <1>b, <1>c, <2>1, <1>8 DEF Resolve, Moved, Idle, CalmStepsFind, StepsRelyOn, Repaired
  <2>2. CASE holder[n] # None /\ Moved("store", holder[n], op.retried, op.calm)
    BY <1>a, <1>b, <1>c, <2>2, <1>8 DEF Resolve, Moved, Idle, CalmStepsFind, StepsRelyOn, Repaired
  <2> QED
    BY <2>1, <2>2, <1>c, ResolveMoves, <1>8
<1>9. ASSUME NEW n \in Names, StoreKey(n)
      PROVE  Repaired'
  BY <1>a, <1>9 DEF StoreKey, Idle
<1>10. ASSUME NEW n \in Names, StoreRecord(n)
      PROVE  Repaired'
  <2>1. /\ op # None /\ op.name = n /\ op.calm /\ op.clear
        /\ op'.at = "done" /\ op'.name = n /\ op'.kind = op.kind /\ op'.force = op.force
    BY <1>a, <1>c, StoreRecordMoves, <1>10 DEF StoreRecord, Moved
  <2>2. op.kind # "delete" /\ (op.force => op.sid = holder[n] /\ holder[n] \notin disabled)
    BY <1>a, <2>1, <1>10 DEF StoreRecord, CalmStepsFind
  <2>3. /\ record'[n] = [sid |-> op.sid, managed |-> TRUE, readable |-> TRUE]
        /\ holder' = holder /\ disabled' = disabled
    BY <1>b, <1>10 DEF StoreRecord
  <2>4. record'[n] # None
    <3>1. op.sid \in Sids
      BY <1>10 DEF StoreRecord, StepsRelyOn, RegistryTypeOK
    <3>2. record'[n] \in Records
      BY <2>3, <3>1 DEF Records
    <3> QED
      BY <3>2
  <2> QED
    BY <2>1, <2>2, <2>3, <2>4 DEF Repaired
<1>11. ASSUME NEW n \in Names, Erase(n)
      PROVE  Repaired'
  <2>1. CASE holder[n] = None /\ Moved("refused", None, FALSE, op.calm)
    BY <1>a, <1>b, <1>c, <2>1, <1>11 DEF Erase, Moved, Idle, CalmStepsFind, StepsRelyOn, Repaired
  <2>2. CASE holder[n] # None /\ Moved("remove", op.sid, op.retried, op.calm)
    BY <1>a, <1>b, <1>c, <2>2, <1>11 DEF Erase, Moved, Idle, CalmStepsFind, StepsRelyOn, Repaired
  <2> QED
    BY <2>1, <2>2, <1>c, EraseMoves, <1>11
<1>12. ASSUME NEW n \in Names, RemoveRecord(n)
      PROVE  Repaired'
  <2>1. /\ op # None /\ op.name = n /\ op.calm /\ op.clear
        /\ op'.name = n /\ op'.kind = op.kind /\ op'.force = op.force
        /\ (record[n] = None /\ op'.at = "refused") \/ (record[n] # None /\ op'.at = "done")
    BY <1>a, <1>c, RemoveRecordMoves, <1>12 DEF RemoveRecord, Moved
  <2>2. ~op.force
    BY <1>a, <2>1, <1>12 DEF RemoveRecord, CalmStepsFind
  <2>3. op.kind = "delete" => holder[n] = None /\ record[n] # None
    BY <1>a, <1>c, <2>1, <1>12 DEF RemoveRecord, CalmStepsFind, StepsRelyOn, Managed, Trusted
  <2>4. record'[n] = None /\ holder' = holder
    BY <1>b, <1>12 DEF RemoveRecord
  <2> QED
    BY <2>1, <2>2, <2>3, <2>4 DEF Repaired
<1>13. ASSUME NEW n \in Names, AdminDeletes(n)
      PROVE  Repaired'
  <2>1. op' = op /\ op # None /\ op.calm /\ op.clear /\ Idle /\ Repaired
    BY <1>a, <1>c, AdminDeletesMoves, <1>13 DEF Moved, Idle
  <2>2. op.name # n /\ op.name \in Names
    BY <1>a, <1>c, <2>1, <1>13 DEF AdminDeletes, Disturb, Operations
  <2>3. /\ record' = record /\ holder'[op.name] = holder[op.name]
        /\ holder[op.name] \notin disabled => holder[op.name] \notin disabled'
    BY <1>b, <1>c, <2>1, <2>2, <1>13 DEF AdminDeletes
  <2> QED
    BY <2>1, <2>3 DEF Repaired
<1>14. ASSUME NEW n \in Names, AdminCreates(n)
      PROVE  Repaired'
  <2>1. op' = op /\ op # None /\ op.calm /\ op.clear /\ Idle /\ Repaired
    BY <1>a, <1>c, AdminCreatesMoves, <1>14 DEF Moved, Idle
  <2>2. op.name # n /\ op.name \in Names
    BY <1>a, <1>c, <2>1, <1>14 DEF AdminCreates, Disturb, Operations
  <2>3. /\ record' = record /\ holder'[op.name] = holder[op.name]
        /\ holder[op.name] \notin disabled => holder[op.name] \notin disabled'
    BY <1>b, <1>c, <2>1, <2>2, <1>14 DEF AdminCreates
  <2> QED
    BY <2>1, <2>3 DEF Repaired
<1>15. ASSUME NEW n \in Names, AdminChanges(n)
      PROVE  Repaired'
  <2>1. op' = op /\ op # None /\ op.calm /\ op.clear /\ Idle /\ Repaired
    BY <1>a, <1>c, AdminChangesMoves, <1>15 DEF Moved, Idle
  <2>2. op.name # n /\ op.name \in Names
    BY <1>a, <1>c, <2>1, <1>15 DEF AdminChanges, Disturb, Operations
  <2>3. /\ record' = record /\ holder'[op.name] = holder[op.name]
        /\ holder[op.name] \notin disabled => holder[op.name] \notin disabled'
    BY <1>b, <1>c, <2>1, <2>2, <1>15 DEF AdminChanges
  <2> QED
    BY <2>1, <2>3 DEF Repaired
<1>16. ASSUME NEW n \in Names, NEW kind \in Kinds, NEW force \in BOOLEAN, Begin(kind, n, force)
      PROVE  Repaired'
  BY <1>a, <1>16 DEF Begin, Idle
<1>17. CASE List
  BY <1>a, <1>b, KeyReplaced, <1>17 DEF List, Repaired
<1>18. CASE Interrupt
  BY <1>a, Moves, <1>18 DEF Interrupt, Idle, Moved
<1>19. CASE KeyIsLost
  BY <1>a, <1>19 DEF KeyIsLost, Repaired
<1>20. CASE UNCHANGED registryVars
  BY <1>a, <1>20 DEF registryVars, Idle, Repaired
<1> QED
  BY <1>1, <1>2, <1>3, <1>4, <1>5, <1>6, <1>7, <1>8, <1>9, <1>10,
     <1>11, <1>12, <1>13, <1>14, <1>15, <1>16, <1>17, <1>18, <1>19, <1>20
     DEF RegistryNext, OperationStep, AdminStep

\* How an untrusted record fares in a step.
Stays(n) ==
    \/ record'[n] # None /\ record'[n].sid = record[n].sid /\ ~record'[n].readable
    \/ UNCHANGED record[n]
    \/ op # None /\ op.kind = "forget" /\ record'[n] = None

\* Untrusted records stay.
LEMMA UntrustedStep ==
    RegistryTypeOK /\ (\A n \in Names : StepsRelyOn(n)) /\ [RegistryNext]_registryVars
        => (\A n \in Names : record[n] # None /\ ~Trusted(n) => Stays(n))
<1> SUFFICES ASSUME RegistryTypeOK, (\A n \in Names : StepsRelyOn(n)), [RegistryNext]_registryVars
             PROVE  \A n \in Names : record[n] # None /\ ~Trusted(n) => Stays(n)
  OBVIOUS
<1> USE NoneIsApart DEF accountVars, At, Stays
<1>a. record \in [Names -> Records \cup {None}]
  BY DEF RegistryTypeOK
<1> SUFFICES ASSUME NEW m \in Names, record[m] # None, ~Trusted(m)
             PROVE  Stays(m)
  OBVIOUS
<1>1. ASSUME NEW n \in Names, Load(n)
      PROVE  Stays(m)
  BY <1>a, KeyReplaced, <1>1 DEF Load
<1>2. ASSUME NEW n \in Names, Check(n)
      PROVE  Stays(m)
  BY <1>2 DEF Check
<1>3. ASSUME NEW n \in Names, LookAtExisting(n)
      PROVE  Stays(m)
  BY <1>3 DEF LookAtExisting
<1>4. ASSUME NEW n \in Names, AddAccount(n)
      PROVE  Stays(m)
  BY <1>4 DEF AddAccount
<1>5. ASSUME NEW n \in Names, SetPassword(n)
      PROVE  Stays(m)
  BY <1>5 DEF SetPassword
<1>6. ASSUME NEW n \in Names, Harden(n)
      PROVE  Stays(m)
  BY <1>6 DEF Harden
<1>7. ASSUME NEW n \in Names, SetComment(n)
      PROVE  Stays(m)
  BY <1>7 DEF SetComment
<1>8. ASSUME NEW n \in Names, Resolve(n)
      PROVE  Stays(m)
  BY <1>8 DEF Resolve
<1>9. ASSUME NEW n \in Names, StoreKey(n)
      PROVE  Stays(m)
  BY <1>a, KeyReplaced, <1>9 DEF StoreKey
<1>10. ASSUME NEW n \in Names, StoreRecord(n)
      PROVE  Stays(m)
  <2>1. m = n => record[n] = None \/ Trusted(n)
    BY <1>10 DEF StoreRecord, StepsRelyOn, Registering
  <2> QED
    BY <1>a, <2>1, <1>10 DEF StoreRecord
<1>11. ASSUME NEW n \in Names, Erase(n)
      PROVE  Stays(m)
  BY <1>11 DEF Erase
<1>12. ASSUME NEW n \in Names, RemoveRecord(n)
      PROVE  Stays(m)
  BY <1>a, <1>12 DEF RemoveRecord, StepsRelyOn, Managed
<1>13. ASSUME NEW n \in Names, AdminDeletes(n)
      PROVE  Stays(m)
  BY <1>13 DEF AdminDeletes
<1>14. ASSUME NEW n \in Names, AdminCreates(n)
      PROVE  Stays(m)
  BY <1>14 DEF AdminCreates
<1>15. ASSUME NEW n \in Names, AdminChanges(n)
      PROVE  Stays(m)
  BY <1>15 DEF AdminChanges
<1>16. ASSUME NEW n \in Names, NEW kind \in Kinds, NEW force \in BOOLEAN, Begin(kind, n, force)
      PROVE  Stays(m)
  BY <1>16 DEF Begin
<1>17. CASE List
  BY <1>a, KeyReplaced, <1>17 DEF List
<1>18. CASE Interrupt
  BY <1>18 DEF Interrupt
<1>19. CASE KeyIsLost
  BY <1>19 DEF KeyIsLost
<1>20. CASE UNCHANGED registryVars
  BY <1>20 DEF registryVars
<1> QED
  BY <1>1, <1>2, <1>3, <1>4, <1>5, <1>6, <1>7, <1>8, <1>9, <1>10,
     <1>11, <1>12, <1>13, <1>14, <1>15, <1>16, <1>17, <1>18, <1>19, <1>20
     DEF RegistryNext, OperationStep, AdminStep

-----------------------------------------------------------------------------
\* The initial states satisfy the invariant.
LEMMA RegistryStarts == RegistryInit => RegistryInvariant
<1> SUFFICES ASSUME RegistryInit PROVE RegistryInvariant
  OBVIOUS
<1> USE NoneIsApart DEF RegistryInit
<1>1. RegistryTypeOK
  <2>1. \A r \in [sid : Sids \ unused, managed : {FALSE}, readable : BOOLEAN] : r \in Records
    BY DEF Records
  <2> QED
    BY <2>1 DEF RegistryTypeOK
<1>2. \A n \in Names : holder[n] # None => holder[n] \notin unused
  OBVIOUS
<1>3. \A n \in Names : record[n] # None => record[n].managed = FALSE /\ record[n].sid \notin unused
  OBVIOUS
<1>4. SidsAreUnique
  BY <1>1, <1>2, <1>3 DEF SidsAreUnique, AccountsAreUnique, RegistryTypeOK
<1>5. RecordNamesProvisioned
  BY <1>3 DEF RecordNamesProvisioned
<1>6. FailuresCanBeRepaired /\ \A n \in Names : StepsRelyOn(n)
  BY DEF FailuresCanBeRepaired, StepsRelyOn, Registering, At
<1> QED
  BY <1>1, <1>4, <1>5, <1>6 DEF RegistryInvariant

\* Every step keeps it.
LEMMA RegistryStep == RegistryInvariant /\ [RegistryNext]_registryVars => RegistryInvariant'
<1> SUFFICES ASSUME RegistryInvariant, [RegistryNext]_registryVars PROVE RegistryInvariant'
  OBVIOUS
<1>1. /\ RegistryTypeOK /\ SidsAreUnique /\ RecordNamesProvisioned /\ FailuresCanBeRepaired
      /\ \A n \in Names : StepsRelyOn(n)
      /\ CalmOK
  BY DEF RegistryInvariant, CalmOK
<1>2. SidsAreUnique'
  BY <1>1, AccountsStep, OpSidStep DEF SidsAreUnique
<1>3. RegistryTypeOK' /\ RecordNamesProvisioned' /\ FailuresCanBeRepaired'
  BY <1>1, TypeStep, ProvisionedStep, RepairStep
<1>4. (\A n \in Names : StepsRelyOn(n))' /\ CalmOK'
  BY <1>1, RelyStep, CalmStep
<1> QED
  BY <1>2, <1>3, <1>4 DEF RegistryInvariant, CalmOK

\* However operations, failures, crashes and administrators interleave, every step of
\* registration finds what it relies on.
THEOREM InvariantHolds == RegistrySpec => []RegistryInvariant
<1>1. RegistryInit => RegistryInvariant
  BY RegistryStarts
<1>2. RegistryInvariant /\ [RegistryNext]_registryVars => RegistryInvariant'
  BY RegistryStep
<1> QED
  BY <1>1, <1>2, PTL DEF RegistrySpec

\* A managed record names an account the broker provisioned, or one an administrator put in
\* its place during the registration (Create, TakeOver).
THEOREM Provisioned == RegistrySpec => []RecordNamesProvisioned
<1>1. RegistryInvariant => RecordNamesProvisioned
  BY DEF RegistryInvariant
<1> QED
  BY <1>1, InvariantHolds, PTL

\* From whatever state, an undisturbed forced take-over or deletion ends with account and
\* record in agreement (TakeOver, Delete).
THEOREM Repairable == RegistrySpec => []FailuresCanBeRepaired
<1>1. RegistryInvariant => FailuresCanBeRepaired
  BY DEF RegistryInvariant
<1> QED
  BY <1>1, InvariantHolds, PTL

\* Passwords are reset and accounts deleted only where the record names the account
\* (ResetPassword, Delete).
THEOREM RecordedSuffer == RegistrySpec => OnlyRecordedAccountsSuffer
<1> DEFINE Harms(n) == \/ At(n, "password") /\ op.kind = "reset" /\ op'.at = "done"
                       \/ At(n, "erase") /\ op'.at = "remove"
<1>1. ASSUME RegistryInvariant, [RegistryNext]_registryVars, NEW n \in Names, Harms(n)
      PROVE  Vouched(n)
  <2>1. /\ RegistryTypeOK /\ StepsRelyOn(n)
        /\ \A k \in Names : StepsRelyOn(k)
    BY <1>1 DEF RegistryInvariant
  <2>2. op \in Operations /\ op.name = n /\ op.at \in {"password", "erase"}
    BY <1>1, <2>1 DEF At, RegistryTypeOK
  <2>3. holder[n] # None
    <3>1. \/ SetPassword(n) \/ Erase(n)
          \/ op'.at \in {"refused"} \cup {op.at}
      <4>1. ASSUME NEW k \in Names, OperationStep(k) PROVE k = n /\ (SetPassword(n) \/ Erase(n))
        BY <1>1, <2>2, <4>1 DEF OperationStep, At, Load, Check, LookAtExisting, AddAccount,
           Harden,
           SetComment, Resolve, StoreKey, StoreRecord, RemoveRecord, SetPassword, Erase
      <4>2. ASSUME NEW k \in Names, AdminStep(k) PROVE op'.at = op.at
        BY <2>1, <2>2, <4>2, AdminDeletesMoves, AdminCreatesMoves, AdminChangesMoves
           DEF AdminStep, Moved
      <4>3. ASSUME NEW k \in Names, NEW kind \in Kinds, NEW force \in BOOLEAN, Begin(kind, k, force)
            PROVE  FALSE
        BY <2>1, <2>2, <4>3, NoneIsApart DEF Begin, Idle
      <4>4. List \/ KeyIsLost => FALSE
        BY <2>2, NoneIsApart DEF List, KeyIsLost, Idle
      <4>5. Interrupt => op'.at = "refused"
        BY <2>2, Moves DEF Interrupt, Moved
      <4>6. UNCHANGED registryVars => op'.at = op.at
        BY DEF registryVars
      <4> QED
        BY <1>1, <4>1, <4>2, <4>3, <4>4, <4>5, <4>6 DEF RegistryNext
    <3>2. SetPassword(n) \/ Erase(n)
      BY <1>1, <2>2, <3>1 DEF At
    <3>3. SetPassword(n) => holder[n] # None
      BY <1>1, <2>1, <2>2, SetPasswordMoves
         DEF At, SetPassword, Moved, NotFound, Goto, Refuse, Return,
         Operations
    <3>4. Erase(n) => holder[n] # None
      BY <1>1, <2>1, <2>2, EraseMoves DEF At, Erase, Moved
    <3> QED
      BY <3>2, <3>3, <3>4
  <2> QED
    BY <1>1, <2>1, <2>3 DEF StepsRelyOn, At
<1>2. RegistryInvariant /\ [RegistryNext]_registryVars
         => [\A n \in Names : Harms(n) => Vouched(n)]_registryVars
  BY <1>1
<1> QED
  BY <1>2, InvariantHolds, PTL DEF RegistrySpec, OnlyRecordedAccountsSuffer

\* A deletion removes the record only once the account it names is gone (Delete).
THEOREM NoOrphans == RegistrySpec => DeleteLeavesNoOrphan
<1>1. RegistryInvariant /\ [RegistryNext]_registryVars =>
         [\A n \in Names : At(n, "remove") /\ op.kind = "delete" /\ record[n] # None /\ record'[n] = None
              => record[n].sid # holder[n]]_registryVars
  BY DEF RegistryInvariant, StepsRelyOn, At
<1> QED
  BY <1>1, InvariantHolds, PTL DEF RegistrySpec, DeleteLeavesNoOrphan

\* Registration never replaces a record that does not verify (Load, TakeOver).
THEOREM UntrustedStay == RegistrySpec => UntrustedRecordsStay
<1>1. RegistryInvariant /\ [RegistryNext]_registryVars =>
         [\A n \in Names :
             record[n] # None /\ ~Trusted(n) =>
                 \/ record'[n] # None /\ record'[n].sid = record[n].sid /\ ~record'[n].readable
                 \/ UNCHANGED record[n]
                 \/ op # None /\ op.kind = "forget" /\ record'[n] = None]_registryVars
  BY UntrustedStep DEF RegistryInvariant, Stays
<1> QED
  BY <1>1, InvariantHolds, PTL DEF RegistrySpec, UntrustedRecordsStay
=============================================================================
