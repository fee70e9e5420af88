SPECIFICATION FairSpec
CONSTANTS
  m1 = m1
  Machine = {m1}
  Cmd <- TwoCommands
  Hub = Hub
  Alias = {"a", "b"}
  Unit = {"u", "v"}
  ServerLife = 2
  ClientLife = 2
  Scenarios <- FileChanges
  None = None
  Torn = Torn
INVARIANTS
  TypeOK
  IdentityFits
  HubAccepts
  RegistryUnique
PROPERTIES
  HubComesBack
CHECK_DEADLOCK FALSE
