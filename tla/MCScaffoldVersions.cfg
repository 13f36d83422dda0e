\* Two versions of a module.
CONSTANTS
  Protos <- Versions
  NoProto = NoProto
  Singular <- SingularOrder
  BaseOf <- ProtoBases
  RawPaths <- ShortPaths
  Words <- ShortWords
  Modules <- SmallModules

SPECIFICATION Spec

INVARIANTS
  StubsAreItsOwn
