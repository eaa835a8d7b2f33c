---------------------------- MODULE MCTelemetry -----------------------------
EXTENDS Telemetry
MCRequests == {"r1", "r2", "r3"}
=============================================================================
