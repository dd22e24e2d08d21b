SPECIFICATION Spec
CONSTANT MaxAnswer = 3
\* When the thread is killed, nothing is left to do.
CHECK_DEADLOCK FALSE
INVARIANT TypeOK
PROPERTIES BoxSpec AnswerIsConfirmed KillEnds
