----------------------------- MODULE MCFqdnChange -----------------------------
(* Values for TLC: the FQDN of the target, that of the source, and another   *)
(* one that the source is given between two final migrations.                *)
EXTENDS FqdnChange

CONSTANTS target, source, renamed

MCValues == {target, source, renamed}

=============================================================================
