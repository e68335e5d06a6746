----------------------------- MODULE AtomicChange -----------------------------
(* What ChangeFQDN (migration/fqdn/service.go) promises to the import job:   *)
(* the names in the global config and the certificate become the requested   *)
(* ones together, or they are what they were when the change began.  Only a  *)
(* change that could not be taken back, or was cut off, may leave a mixture. *)

CONSTANT Values     \* a value stands for an FQDN with the certificate for it

VARIABLES
    config,     \* the FQDN in the global config
    cert,       \* the certificate of the ecosystem
    phase,      \* "idle", "changing", or the result of the last change
    saved       \* what config and cert were when the change began

atomicVars == <<config, cert, phase, saved>>

AtomicInit ==
    /\ config \in Values /\ cert \in Values
    /\ phase = "idle"
    /\ saved = <<config, cert>>

Begin ==
    /\ phase # "changing"
    /\ phase' = "changing" /\ saved' = <<config, cert>>
    /\ UNCHANGED <<config, cert>>

Work ==
    /\ phase = "changing"
    /\ config' \in Values /\ cert' \in Values
    /\ UNCHANGED <<phase, saved>>

Succeed ==
    /\ phase = "changing" /\ config = cert
    /\ phase' = "ok"
    /\ UNCHANGED <<config, cert, saved>>

RollBack ==
    /\ phase = "changing" /\ <<config, cert>> = saved
    /\ phase' = "error"
    /\ UNCHANGED <<config, cert, saved>>

\* Taking it back fails.
Break ==
    /\ phase = "changing"
    /\ phase' = "broken"
    /\ config' \in Values /\ cert' \in Values
    /\ UNCHANGED saved

CutOff ==
    /\ phase = "changing"
    /\ phase' = "idle"
    /\ UNCHANGED <<config, cert, saved>>

AtomicNext == Begin \/ Work \/ Succeed \/ RollBack \/ Break \/ CutOff

AtomicSpec == AtomicInit /\ [][AtomicNext]_atomicVars

=============================================================================
