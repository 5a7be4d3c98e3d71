CONSTANTS
  Call = {c1, c2, c3}
  Task = {"work", "look"}
  TypeOf <- MCTypeOf
  Models = {"", "execute"}
  Answers <- MCAnswers
  Backends = {"claude-code", "codex"}
  MaxToggles = 1
  MaxUnderWay = 2
  NoTask = NoTask
  Nobody = Nobody
SPECIFICATION AmbientSpec
SYMMETRY Symmetry
INVARIANTS
  AttemptTraced
  FailureStands
  WaitMeansWork
  StatusCurrent
CHECK_DEADLOCK FALSE
