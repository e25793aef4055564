SPECIFICATION LinSpec
CONSTANTS
  writer = writer
  anyone = anyone
  clearer = clearer
  v1 = v1
  v2 = v2
  Clients = {writer, anyone, clearer}
  May <- Roles
  N = 2
  Keys = {1, 2}
  Values = {v1, v2}
  NoValue = NoValue
  ShardOf <- Modulo
  Pairs <- OneValue
  Ranges <- WholeRange
  Bulks <- TwiceInOne
  MaxClears = 1
INVARIANT SweepsAll KeyLinearizable
