CONSTANT Slots <- MCSlots
SPECIFICATION Spec
INVARIANTS
  EselectTypeOK
  SuccessLeavesALauncher
  UpdateFailsOverLeftovers
  LinksThatDisagreeLeaveAStray
