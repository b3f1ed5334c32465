---------------------------- MODULE MCAllocator ----------------------------
(* Three sites with any presets. The budgets lie on both sides of the multiples *)
(* of total weights at which a downgrade or a bonus worker is decided.         *)
EXTENDS Allocator

SmallBudgets == {0, 127, 384, 575, 576, 1000, 1407, 2305}

=============================================================================
