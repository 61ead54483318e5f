-------------------------- MODULE MCInstrumentation --------------------------
EXTENDS Instrumentation
=============================================================================
