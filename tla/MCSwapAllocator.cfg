\* A swap file of 4 pages, objects of 1 to 3 pages.  The near-page counter
\* restarts the scan at page 0 after 3 allocations (65536 in the code) so
\* that the restart happens; the random jump keeps its real size and so
\* never happens in a file this small.
CONSTANTS
  NPages = 4
  MaxRun = 3
  MaxNearPages = 3
  MaxRandomJump = 4096
SPECIFICATION Spec
INVARIANT FindsRoomWhenFree
