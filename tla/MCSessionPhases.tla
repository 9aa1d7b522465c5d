---------------------------- MODULE MCSessionPhases ----------------------------
\* A session of at most three macro-cycles run by two processes, one storage error.
EXTENDS SessionPhases
=============================================================================
