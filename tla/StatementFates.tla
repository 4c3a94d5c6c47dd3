--------------------------- MODULE StatementFates ---------------------------
(***************************************************************************)
(* What may become of a database statement: it is applied and answered,    *)
(* applied with its answer lost, or not applied at all.  To the handler    *)
(* that awaits it the last two are the same thrown error.                  *)
(***************************************************************************)
Outcomes == {"ok", "lost", "refused"}
Applied(o) == o # "refused"

\* Where a handler is after the statement, if it answers every error with a 500.
Resume(o, next) == IF o = "ok" THEN next ELSE "serverError"
=============================================================================
