\* Two modules that share their file names and all they are registered by.
CONSTANTS
  Protos <- Namesakes
  NoProto = NoProto
  Singular <- SingularOrder
  BaseOf <- ProtoBases
  RawPaths <- ShortPaths
  Words <- ShortWords
  Modules <- SmallModules

SPECIFICATION Spec

INVARIANTS
  TypeOK
  SuccessIsComplete
  EachNameOnce

PROPERTIES
  RerunKeepsEdits
