SPECIFICATION Spec
CONSTANTS
  writer = writer
  admin = admin
  Clients = {writer, admin}
  May <- Roles
  ShardKeys <- OneEach
  Pairs <- TwoFields
  Configs <- UniqueAndGroup
  Nil = Nil
  Careful = TRUE
  MaxIndexes = 2
INVARIANTS
  IndexExact
  EntriesCounted
