CONSTANT Slots <- MCSlots
SPECIFICATION Spec
INVARIANT UpdateKeepsTheActiveSlot
