SPECIFICATION Spec
CONSTANTS
  Count = 5
  BlockSize = 4
  Name = {"a", "ab"}
  Extends <- MCExtends
  Host = {"short", "block", "long"}
  Size <- MCSize
  MaxDepth = 2
  MaxTyped = 4
  Variants = {"garbled", "stray"}
INVARIANTS
  TypeOK
  TreeIsSound
  Durable
  NothingLost
  FilesReadBack
  TextGuardsSuffice
  SpaceCheckCovers
CHECK_DEADLOCK FALSE
