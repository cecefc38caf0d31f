SPECIFICATION FairLinkSpec
CONSTANT MaxHelloAckTimeouts = 2
INVARIANTS
  TypeOK
  ConnectedIsHealthy
  ConnectedOnlyWhileOnline
  NotConnectedWhileDown
  PresenceTellsPause
PROPERTIES
  ComesOnline
  DownIsRepairedByReconnects
