SPECIFICATION Spec
INVARIANTS FailedRestartLeavesDegraded
