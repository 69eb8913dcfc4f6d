---------------------------- MODULE MCRetryTiming ----------------------------
(***************************************************************************)
(* Two ticks are a second.  The deadline comes when the backoff has left   *)
(* its floor, and within the drain delay of a late drain.                  *)
(***************************************************************************)
EXTENDS RetryTiming
=============================================================================
