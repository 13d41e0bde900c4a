---- MODULE MCTelemetryAuthService ----
EXTENDS TelemetryAuthService, TLC

Symmetry == Permutations(Requests)
====
