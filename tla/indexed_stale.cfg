SPECIFICATION Spec
CONSTANTS
  writer = writer
  admin = admin
  Clients = {admin}
  May <- Roles
  ShardKeys <- OneEach
  Pairs <- TwoFields
  Configs <- UniqueAndGroup
  Nil = Nil
  Careful = FALSE
  MaxIndexes = 2
INVARIANT
  NoStaleEntries
