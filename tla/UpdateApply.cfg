\* An installation, two staged updates, two crashes or failures, one rollback.
SPECIFICATION UpdateSpec
CONSTANTS
  Files <- MCFiles
  AppFile = "app"
  Payload <- MCPayload
  Protocol <- MCProtocol
  Catalogs <- MCCatalogs
  MaxTroubles = 2
  MaxStages = 2
  MaxInstalls = 1
  MaxRollbacks = 1
INVARIANTS CommittedIsInstalled ProtocolsAgree NothingLost RestoresWhenUndone
CHECK_DEADLOCK FALSE
