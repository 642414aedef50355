SPECIFICATION Spec
CONSTANTS
  Names = {"v", "w"}
  Quotas = {1}
  Tags = {1, 2, 3}
  Snaps = {}
  Kinds = {"btrfs"}
INVARIANT HalfMadeIsClaimed
