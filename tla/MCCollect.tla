----------------------------- MODULE MCCollect -------------------------------
(***************************************************************************)
(* A silent signal of two windows, a signal that names its errors, and a   *)
(* target with a monthly and a 90-day counter.                             *)
(***************************************************************************)
EXTENDS Collect, TLC

MCNumbers == {"7d", "total", "90d"}

MCNumbersOf == "visits" :> {"7d", "total"} @@ "sentry" :> {"total"} @@ "pypi" :> {"total", "90d"}
=============================================================================
