SPECIFICATION Spec
CONSTANTS
  Names = {"v", "w"}
  Quotas = {1, 2}
  Tags = {1, 2}
  Snaps = {"s"}
  Kinds = {"project", "btrfs", "zfs"}
INVARIANT NeverUnlimited
INVARIANT OneVolumePerTag
INVARIANT MadeIsRecorded
PROPERTY ForeignUntouched
