SPECIFICATION Spec
CONSTANTS
  Count = 4
  BlockSize = 4
  Name = {"a", "ab"}
  Extends <- MCExtends
  Host = {"short", "block"}
  Size <- MCSize
  MaxDepth = 2
  MaxTyped = 3
  Variants = {"slashes"}
INVARIANT NoRemovalFromInside
CHECK_DEADLOCK FALSE
