---------------------------- MODULE MCLifecycle -----------------------------
EXTENDS Lifecycle
MCRequests == {"r1", "r2"}
=============================================================================
