SPECIFICATION Spec
CONSTANTS
  ApiNames = {"x"}
  FileBlocks <- OneFileBlock
  Paths = {"a", "b"}
  Kinds = {"image"}
  Volumes = {}
  FileAt <- LinkedFile
  MaxFile = 2
PROPERTY FailureLeavesAsWas
