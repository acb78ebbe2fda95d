CONSTANTS
  agent_a = agent_a
  nonsense = nonsense
  EmptyText = EmptyText
  IdTexts = {agent_a, nonsense, EmptyText}
  WellFormedIds = {agent_a}
  Registries <- MCRegistries
  MaxHangUps = 2
SPECIFICATION FairLiveSpec
CHECK_DEADLOCK FALSE
INVARIANTS
  LiveInv
  MicrophoneReleased
  OneStopEach
  ToolsAreServed
  ExitIsHonest
PROPERTY RunEnds
