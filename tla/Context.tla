------------------------------- MODULE Context -------------------------------
(* The context.Context that main creates and hands to every call.  It is     *)
(* cancelled by a signal (cmd/ces-importer/main.go) and never revived within *)
(* a process.                                                                *)

VARIABLE ctx

CtxTypeOK == ctx \in {"active", "done"}

CtxDone == ctx = "done"

=============================================================================
