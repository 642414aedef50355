SPECIFICATION FairSpec
CONSTANTS
  ApiNames = {"x"}
  FileBlocks <- NoFileBlocks
  Paths = {"a"}
  Kinds = {"directory"}
  Volumes = {"a"}
  FileAt <- OwnFiles
  MaxFile = 1
PROPERTY ChangeAnswered
PROPERTY UsedVolumeKept
PROPERTY ImplementsLedger
