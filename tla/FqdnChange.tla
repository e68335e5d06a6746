------------------------------ MODULE FqdnChange ------------------------------
(* migration/fqdn: ChangeFQDN takes over the FQDN and the certificate of the *)
(* exporting system, with a backup of both in the cluster.  It is the last   *)
(* step of the import job of a final migration (cmd/import-job/executer.go). *)
(*                                                                           *)
(* A call of the API server is retried; at the end it was applied and        *)
(* returned, or an error is returned and it was applied or not.  The job can *)
(* be killed anywhere, and a later final migration runs a new one: what is   *)
(* in the cluster then is what the new one finds.                            *)

CONSTANTS
    Values,         \* a value stands for an FQDN with the certificate for it
    None            \* no backup, no request

ASSUME FqdnAssumption == None \notin Values

VARIABLES
    config,         \* the FQDN, its alternatives and the certificate type in the global config
    cert,           \* the secret ecosystem-certificate
    fqdnBackup,     \* the ConfigMap ecosystem-fqdn-backup
    certBackup,     \* the secret ecosystem-certificate-backup
    request,        \* the change request
    at,             \* where ChangeFQDN is; "idle" before the first and after a kill
    result,         \* its result, while the backup is being deleted
    saved           \* history: config and cert when ChangeFQDN began

clusterVars == <<config, cert, fqdnBackup, certBackup>>
vars == <<clusterVars, request, at, result, saved>>

Finished == {"ok", "error", "broken"}
Running == {"backupFqdn", "backupCert", "getConfig", "updateFqdn", "updateCert",
            "restoreCert", "restoreFqdn", "deleteFqdnBackup", "deleteCertBackup"}

FqdnTypeOK ==
    /\ config \in Values /\ cert \in Values
    /\ fqdnBackup \in Values \cup {None}
    /\ certBackup \in Values \cup {None}
    /\ request \in Values \cup {None}
    /\ at \in {"idle"} \cup Running \cup Finished
    /\ result \in {"ok", "error"}
    /\ saved \in Values \X Values
    /\ at \in {"updateFqdn", "updateCert"} => request \in Values
    /\ at \in {"restoreCert", "restoreFqdn"} => certBackup \in Values /\ fqdnBackup \in Values

Init ==
    /\ config \in Values /\ cert \in Values
    /\ fqdnBackup = None /\ certBackup = None
    /\ request = None /\ at = "idle" /\ result = "ok"
    /\ saved = <<config, cert>>

-----------------------------------------------------------------------------
(* ChangeFQDN, and the deferred deletion of the backup. *)

ChangeBegins ==
    /\ at \in {"idle"} \cup Finished
    /\ at' = "backupFqdn"
    /\ saved' = <<config, cert>>
    /\ request' = None
    /\ UNCHANGED <<clusterVars, result>>

\* An older backup is overwritten.  An error ends ChangeFQDN before its defer.
BackupFqdn ==
    /\ at = "backupFqdn"
    /\ \/ fqdnBackup' = config /\ at' = "backupCert"
       \/ fqdnBackup' \in {fqdnBackup, config} /\ at' = "error"
    /\ UNCHANGED <<config, cert, certBackup, request, result, saved>>

BackupCert ==
    /\ at = "backupCert"
    /\ \/ certBackup' = cert /\ at' = "getConfig"
       \/ certBackup' \in {certBackup, cert} /\ at' = "error"
    /\ UNCHANGED <<config, cert, fqdnBackup, request, result, saved>>

\* Mutation: a change request without an FQDN is not refused.
GetConfigUnchecked ==
    /\ at = "getConfig"
    /\ \/ request' \in Values \cup {None} /\ at' = "updateFqdn" /\ UNCHANGED result
       \/ at' = "deleteFqdnBackup" /\ result' = "error" /\ UNCHANGED request
    /\ UNCHANGED <<clusterVars, saved>>

\* The exporter does not answer, or its global config lacks a value.
GetConfig ==
    /\ at = "getConfig"
    /\ \/ request' \in Values /\ at' = "updateFqdn" /\ UNCHANGED result
       \/ at' = "deleteFqdnBackup" /\ result' = "error" /\ UNCHANGED request
    /\ UNCHANGED <<clusterVars, saved>>

UpdateFqdn ==
    /\ at = "updateFqdn"
    /\ \/ config' = request /\ at' = "updateCert"
       \/ config' \in {config, request} /\ at' = "restoreCert"
    /\ UNCHANGED <<cert, fqdnBackup, certBackup, request, result, saved>>

UpdateCert ==
    /\ at = "updateCert"
    /\ \/ cert' = request /\ at' = "deleteFqdnBackup" /\ result' = "ok"
       \/ cert' \in {cert, request} /\ at' = "restoreCert" /\ UNCHANGED result
    /\ UNCHANGED <<config, fqdnBackup, certBackup, request, saved>>

\* Mutation: a restoreError does not keep the backup from being deleted.
RestoreCertAlwaysDeletes ==
    /\ at = "restoreCert"
    /\ \/ cert' = certBackup /\ at' = "restoreFqdn" /\ UNCHANGED result
       \/ cert' \in {cert, certBackup} /\ at' = "deleteFqdnBackup" /\ result' = "error"
    /\ UNCHANGED <<config, fqdnBackup, certBackup, request, saved>>

\* A restoreError keeps the backup.
RestoreCert ==
    /\ at = "restoreCert"
    /\ \/ cert' = certBackup /\ at' = "restoreFqdn"
       \/ cert' \in {cert, certBackup} /\ at' = "broken"
    /\ UNCHANGED <<config, fqdnBackup, certBackup, request, result, saved>>

\* Mutation: only the certificate is restored.
RestoreFqdnNot ==
    /\ at = "restoreFqdn"
    /\ at' = "deleteFqdnBackup" /\ result' = "error"
    /\ UNCHANGED <<config, cert, fqdnBackup, certBackup, request, saved>>

RestoreFqdn ==
    /\ at = "restoreFqdn"
    /\ \/ config' = fqdnBackup /\ at' = "deleteFqdnBackup" /\ result' = "error"
       \/ config' \in {config, fqdnBackup} /\ at' = "broken" /\ UNCHANGED result
    /\ UNCHANGED <<cert, fqdnBackup, certBackup, request, saved>>

\* A failed deletion is only logged; that of the certificate is not tried then.
DeleteFqdnBackup ==
    /\ at = "deleteFqdnBackup"
    /\ \/ fqdnBackup' = None /\ at' = "deleteCertBackup"
       \/ fqdnBackup' \in {fqdnBackup, None} /\ at' = result
    /\ UNCHANGED <<config, cert, certBackup, request, result, saved>>

DeleteCertBackup ==
    /\ at = "deleteCertBackup"
    /\ certBackup' \in {certBackup, None} /\ at' = result
    /\ UNCHANGED <<config, cert, fqdnBackup, request, result, saved>>

\* The pod of the job is evicted, or the job deleted.
Killed ==
    /\ at \in Running
    /\ at' = "idle"
    /\ UNCHANGED <<clusterVars, request, result, saved>>

Next == \/ ChangeBegins \/ BackupFqdn \/ BackupCert \/ GetConfig \/ UpdateFqdn \/ UpdateCert
        \/ RestoreCert \/ RestoreFqdn \/ DeleteFqdnBackup \/ DeleteCertBackup \/ Killed

Spec == Init /\ [][Next]_vars

-----------------------------------------------------------------------------
(* Properties. *)

\* At every moment, over kills and failed calls, the system is what it was
\* before the change, or what was requested, or the backup in the cluster is
\* what it was before: the administrator of a system that a change has broken
\* can take it back (service.go:133-153).
BackupCoversChange ==
    \/ <<config, cert>> = saved
    \/ <<config, cert>> = <<request, request>>
    \/ <<fqdnBackup, certBackup>> = saved

Atomic == INSTANCE AtomicChange WITH
    phase <- IF at \in Running THEN "changing" ELSE at

\* ChangeFQDN changes both names and certificate when it returns nil, and
\* neither when it returns an error that is no restoreError (AtomicChange.tla;
\* service.go:133-186).
ChangeIsAtomic == Atomic!AtomicSpec

=============================================================================
