\* A module, and one of the same name in a directory inside its own.
CONSTANTS
  Protos <- Namesakes
  NoProto = NoProto
  Singular <- SingularOrder
  BaseOf <- ProtoBases
  RawPaths <- ShortPaths
  Words <- ShortWords
  Modules <- SmallModules

SPECIFICATION Spec

INVARIANTS
  ModuleIsRegistered
