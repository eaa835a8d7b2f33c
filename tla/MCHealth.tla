----------------------------- MODULE MCHealth -----------------------------
(* One backend with the thresholds of pool.go (3 failures, 2 successes)    *)
(* and counters just wide enough for them, so that they wrap around within *)
(* a few probes.  The goroutines of several backends share nothing but the *)
(* context, so one of them shows everything but the wait for all of them.  *)
EXTENDS Health

MCBackends == {"b1"}
=============================================================================
