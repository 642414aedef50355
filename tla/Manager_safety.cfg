SPECIFICATION Spec
CONSTANTS
  ApiNames = {"x"}
  FileBlocks <- OneFileBlock
  Paths = {"a", "b"}
  Kinds = {"image", "ext4"}
  Volumes = {}
  FileAt <- LinkedFile
  MaxFile = 2
INVARIANT ServesWhatIsWritten
INVARIANT StateFileStarts
INVARIANT DriversHeld
INVARIANT OneDriverPerKey
