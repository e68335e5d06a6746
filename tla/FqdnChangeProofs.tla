--------------------------- MODULE FqdnChangeProofs ---------------------------
(* Theorems about FqdnChange for any set of values: its types, that the      *)
(* backup covers the change, and that ChangeFQDN implements AtomicChange.    *)
EXTENDS FqdnChange, TLAPS

-----------------------------------------------------------------------------
(* The inductive invariant.  BackupCoversChange alone is not inductive: it   *)
(* does not say that the backup is there before the first write, nor that    *)
(* the change is complete, or taken back, before the backup is deleted.      *)

\* Nothing is written before the backup is complete and the request is read.
UntouchedAtFirst ==
    at \in {"backupFqdn", "backupCert", "getConfig", "updateFqdn"} => <<config, cert>> = saved

\* From then on, and when a restore has failed, the backup is of this change.
BackupIsOfThisChange ==
    /\ at \in {"backupCert"} => fqdnBackup = saved[1]
    /\ at \in {"getConfig", "updateFqdn", "updateCert", "restoreCert", "restoreFqdn", "broken"} =>
        <<fqdnBackup, certBackup>> = saved

\* Half of the update, half of the restore.
HalfDone ==
    /\ at = "updateCert" => config = request
    /\ at = "restoreFqdn" => cert = saved[2]

\* The backup goes, and ChangeFQDN returns, when all is done or taken back.
DoneOrTakenBack ==
    LET outcome == IF at \in {"deleteFqdnBackup", "deleteCertBackup"} THEN result ELSE at
    IN  /\ outcome = "ok" => config = request /\ cert = request
        /\ outcome = "error" => <<config, cert>> = saved

FqdnInv == FqdnTypeOK /\ UntouchedAtFirst /\ BackupIsOfThisChange /\ HalfDone
           /\ DoneOrTakenBack /\ BackupCoversChange

\* FqdnInv holds when the first job starts.
LEMMA FqdnInvInit == ASSUME Init PROVE FqdnInv
BY DEF Init, FqdnInv, FqdnTypeOK, UntouchedAtFirst, BackupIsOfThisChange, HalfDone,
       DoneOrTakenBack, BackupCoversChange, Running, Finished

-----------------------------------------------------------------------------
(* Types. *)

\* Every step of ChangeFQDN keeps the types; no FQDN is written that nobody
\* asked for, and no backup is restored that was not made.
LEMMA FqdnTypeStep ==
    ASSUME FqdnTypeOK, BackupIsOfThisChange, [Next]_vars
    PROVE  FqdnTypeOK'
<1> USE DEF FqdnTypeOK, Running, Finished
<1>1. CASE ChangeBegins BY <1>1 DEF ChangeBegins, clusterVars
<1>2. CASE BackupFqdn BY <1>2 DEF BackupFqdn
<1>3. CASE BackupCert BY <1>3 DEF BackupCert
<1>4. CASE GetConfig BY <1>4 DEF GetConfig, clusterVars
<1>5. CASE UpdateFqdn BY <1>5 DEF UpdateFqdn, BackupIsOfThisChange
<1>6. CASE UpdateCert BY <1>6 DEF UpdateCert, BackupIsOfThisChange
<1>7. CASE RestoreCert BY <1>7 DEF RestoreCert
<1>8. CASE RestoreFqdn BY <1>8 DEF RestoreFqdn
<1>9. CASE DeleteFqdnBackup BY <1>9 DEF DeleteFqdnBackup
<1>10. CASE DeleteCertBackup BY <1>10 DEF DeleteCertBackup
<1>11. CASE Killed BY <1>11 DEF Killed, clusterVars
<1>12. CASE UNCHANGED vars BY <1>12 DEF vars, clusterVars
<1> QED BY <1>1, <1>2, <1>3, <1>4, <1>5, <1>6, <1>7, <1>8, <1>9, <1>10, <1>11, <1>12 DEF Next

\* Every step keeps what FqdnInv says of the backup and of the two halves.
LEMMA FqdnPartsStep ==
    ASSUME FqdnInv, [Next]_vars
    PROVE  UntouchedAtFirst' /\ BackupIsOfThisChange' /\ HalfDone' /\ DoneOrTakenBack'
<1> USE DEF FqdnInv, FqdnTypeOK, UntouchedAtFirst, BackupIsOfThisChange, HalfDone, DoneOrTakenBack,
            Running, Finished
<1>1. CASE ChangeBegins BY <1>1 DEF ChangeBegins, clusterVars
<1>2. CASE BackupFqdn BY <1>2 DEF BackupFqdn
<1>3. CASE BackupCert BY <1>3 DEF BackupCert
<1>4. CASE GetConfig BY <1>4 DEF GetConfig, clusterVars
<1>5. CASE UpdateFqdn BY <1>5 DEF UpdateFqdn
<1>6. CASE UpdateCert BY <1>6 DEF UpdateCert
<1>7. CASE RestoreCert BY <1>7 DEF RestoreCert
<1>8. CASE RestoreFqdn BY <1>8 DEF RestoreFqdn
<1>9. CASE DeleteFqdnBackup BY <1>9 DEF DeleteFqdnBackup
<1>10. CASE DeleteCertBackup BY <1>10 DEF DeleteCertBackup
<1>11. CASE Killed BY <1>11 DEF Killed, clusterVars
<1>12. CASE UNCHANGED vars BY <1>12 DEF vars, clusterVars
<1> QED BY <1>1, <1>2, <1>3, <1>4, <1>5, <1>6, <1>7, <1>8, <1>9, <1>10, <1>11, <1>12 DEF Next

\* A step that writes to the config or the certificate does so while the backup
\* is complete; a step that writes to the backup, while there is nothing half
\* done.  So some copy of the old state, or all of the new one, remains.
LEMMA BackupCoversStep ==
    ASSUME FqdnInv, [Next]_vars
    PROVE  BackupCoversChange'
<1> USE DEF FqdnInv, FqdnTypeOK, BackupCoversChange
<1>1. CASE ChangeBegins BY <1>1 DEF ChangeBegins, clusterVars
<1>2. CASE BackupFqdn BY <1>2 DEF BackupFqdn, UntouchedAtFirst
<1>3. CASE BackupCert BY <1>3 DEF BackupCert, UntouchedAtFirst
<1>4. CASE GetConfig BY <1>4 DEF GetConfig, clusterVars, UntouchedAtFirst
<1>5. CASE UpdateFqdn BY <1>5 DEF UpdateFqdn, BackupIsOfThisChange
<1>6. CASE UpdateCert BY <1>6 DEF UpdateCert, BackupIsOfThisChange
<1>7. CASE RestoreCert BY <1>7 DEF RestoreCert, BackupIsOfThisChange
<1>8. CASE RestoreFqdn BY <1>8 DEF RestoreFqdn, BackupIsOfThisChange
<1>9. CASE DeleteFqdnBackup BY <1>9 DEF DeleteFqdnBackup, DoneOrTakenBack
<1>10. CASE DeleteCertBackup BY <1>10 DEF DeleteCertBackup, DoneOrTakenBack
<1>11. CASE Killed BY <1>11 DEF Killed, clusterVars
<1>12. CASE UNCHANGED vars BY <1>12 DEF vars, clusterVars
<1> QED BY <1>1, <1>2, <1>3, <1>4, <1>5, <1>6, <1>7, <1>8, <1>9, <1>10, <1>11, <1>12 DEF Next

\* FqdnInv is an invariant.
LEMMA FqdnInvHolds == Spec => []FqdnInv
<1>1. Init => FqdnInv BY FqdnInvInit
<1>2. FqdnInv /\ [Next]_vars => FqdnInv'
    BY FqdnTypeStep, FqdnPartsStep, BackupCoversStep DEF FqdnInv
<1> QED BY <1>1, <1>2, PTL DEF Spec

\* The variables have their types, for any set of values.
THEOREM FqdnTypeCorrect == Spec => []FqdnTypeOK
<1>1. FqdnInv => FqdnTypeOK BY DEF FqdnInv
<1> QED BY <1>1, FqdnInvHolds, PTL

\* Over failed calls and kills, the state before the change is in the cluster,
\* as itself or as the backup, until the change is complete.
THEOREM OldStateIsKept == Spec => []BackupCoversChange
<1>1. FqdnInv => BackupCoversChange BY DEF FqdnInv
<1> QED BY <1>1, FqdnInvHolds, PTL

\* What an administrator who reads the result of ChangeFQDN finds in the cluster:
\* after nil the requested FQDN with its certificate; after an error the old ones;
\* after a restoreError, which leaves the backup in place, a backup of both as they
\* were (service.go:133-186).
ReturnIsTrue ==
    /\ at = "ok" => config = request /\ cert = request
    /\ at = "error" => <<config, cert>> = saved
    /\ at = "broken" => <<fqdnBackup, certBackup>> = saved

\* The result of ChangeFQDN is true, whatever calls failed before it, and whatever
\* backups earlier jobs have left.
THEOREM ResultIsTrue == Spec => []ReturnIsTrue
<1>1. FqdnInv => ReturnIsTrue
    BY DEF FqdnInv, DoneOrTakenBack, BackupIsOfThisChange, ReturnIsTrue
<1> QED BY <1>1, FqdnInvHolds, PTL

-----------------------------------------------------------------------------
(* The refinement. *)

\* Each step of ChangeFQDN is a step of the atomic change, or none.
LEMMA StepIsAtomicStep ==
    ASSUME FqdnInv, FqdnInv', [Next]_vars
    PROVE  [Atomic!AtomicNext]_Atomic!atomicVars
<1> USE DEF FqdnInv, FqdnTypeOK, Running, Finished, Atomic!AtomicNext, Atomic!atomicVars
<1>1. CASE ChangeBegins BY <1>1 DEF ChangeBegins, clusterVars, Atomic!Begin
<1>2. CASE BackupFqdn BY <1>2 DEF BackupFqdn, UntouchedAtFirst, Atomic!RollBack
<1>3. CASE BackupCert BY <1>3 DEF BackupCert, UntouchedAtFirst, Atomic!RollBack
<1>4. CASE GetConfig BY <1>4 DEF GetConfig, clusterVars
<1>5. CASE UpdateFqdn BY <1>5 DEF UpdateFqdn, Atomic!Work
<1>6. CASE UpdateCert BY <1>6 DEF UpdateCert, Atomic!Work
<1>7. CASE RestoreCert BY <1>7 DEF RestoreCert, Atomic!Work, Atomic!Break
<1>8. CASE RestoreFqdn BY <1>8 DEF RestoreFqdn, Atomic!Work, Atomic!Break
<1>9. CASE DeleteFqdnBackup
    BY <1>9 DEF DeleteFqdnBackup, DoneOrTakenBack, Atomic!Succeed, Atomic!RollBack
<1>10. CASE DeleteCertBackup
    BY <1>10 DEF DeleteCertBackup, DoneOrTakenBack, Atomic!Succeed, Atomic!RollBack
<1>11. CASE Killed BY <1>11 DEF Killed, clusterVars, Atomic!CutOff
<1>12. CASE UNCHANGED vars BY <1>12 DEF vars, clusterVars
<1> QED BY <1>1, <1>2, <1>3, <1>4, <1>5, <1>6, <1>7, <1>8, <1>9, <1>10, <1>11, <1>12 DEF Next

\* ChangeFQDN implements the atomic change: names and certificate change
\* together or not at all, unless it reports that it could not take the change
\* back, or is killed.
THEOREM ChangeImplementsAtomic == Spec => ChangeIsAtomic
<1>1. Init => Atomic!AtomicInit BY DEF Init, Atomic!AtomicInit, Running
<1>2. FqdnInv /\ FqdnInv' /\ [Next]_vars => [Atomic!AtomicNext]_Atomic!atomicVars
    BY StepIsAtomicStep
<1> QED BY <1>1, <1>2, FqdnInvHolds, PTL DEF Spec, ChangeIsAtomic, Atomic!AtomicSpec

=============================================================================
