\* Request bodies of up to three pieces, and messages a client writes with the
\* generated code.
SPECIFICATION FairSpec
CONSTANTS
  Bodies <- MCBodies
  Reused <- MCReused
INVARIANTS ReadsWhatWasSent AbsentFieldsAreEmpty AnswersAreFramed ReadsWithinBody
PROPERTY ParseEnds
\* The parse returns.
CHECK_DEADLOCK FALSE
