CONSTANTS
  agent_a = agent_a
  nonsense = nonsense
  EmptyText = EmptyText
  IdTexts = {agent_a, nonsense, EmptyText}
  WellFormedIds = {agent_a}
  Registries <- MCRegistries
  MaxHangUps = 1
SPECIFICATION LiveSpec
CHECK_DEADLOCK FALSE
INVARIANT HangUpExitsZero
