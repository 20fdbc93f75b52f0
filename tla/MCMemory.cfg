\* Allocation, reuse and resets, the heap of another server to begin with.
SPECIFICATION Spec
CONSTANTS
  Null = Null
  Zero = Zero
  Dirty = Dirty
  Page = 4
  Pages = 3
  SizeClass <- MCSizeClass
  LargeSize <- MCLargeSize
INVARIANTS BlocksAreApart BlocksAreKept HeadersAreKept ListsAreStacks
