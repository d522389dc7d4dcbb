CONSTANTS
  Name <- MCName
  ContainerPrimPath <- MCContainer
  Prototype <- MCPrototype
  ProtoVariants <- MCProtoVariants
  ContainerVariants <- MCVariants
  OutputAsset <- MCOutput
  SourceLoaded <- MCLoaded
  HasPrototypesPrim <- MCLoaded
  Unit = {"mm", "m"}
  Selections <- MCSelections
SPECIFICATION Spec
PROPERTIES
  NothingUnnamedLost
