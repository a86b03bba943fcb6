----------------------------- MODULE MCAuthCache -----------------------------
(* Two requests with one token, a TTL of two ticks, lookups of up to one   *)
(* and a stale window of ten TTLs.  Lags are counted past every bound that *)
(* is claimed for them.                                                    *)
EXTENDS AuthCache
=============================================================================
