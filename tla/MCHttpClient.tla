---------------------------- MODULE MCHttpClient ----------------------------
(* The daily collect makes every kind of call.  Of admin-collect only the     *)
(* plain gets are explored: its Sentry pages bypass the cache, the only thing *)
(* that two processes share.                                                  *)
EXTENDS HttpClient, TLC

MCUses == ("collect" :> Kinds) @@ ("admin-collect" :> {"get"})
=============================================================================
