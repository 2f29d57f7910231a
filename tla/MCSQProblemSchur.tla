-------------------------- MODULE MCSQProblemSchur --------------------------
EXTENDS SQProblemSchur
=============================================================================
