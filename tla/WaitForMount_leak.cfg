\* Behaviours end once a call succeeds or the retries run out: no deadlock check.
SPECIFICATION Spec
CHECK_DEADLOCK FALSE
PROPERTY PollersExit
CONSTANT MaxAttempts = 2
