\* Appends, reads, truncation, unlinking and crashes of a process of two fibers.
SPECIFICATION Spec
CONSTANTS
  f1 = f1
  f2 = f2
  p = p
  q = q
  i1 = i1
  i2 = i2
  i3 = i3
  a = a
  b = b
  Zero = Zero
  Absent = Absent
  Nothing = Nothing
  Fiber <- MCFiber
  Path <- MCPath
  Inode <- MCInode
  Chunk <- MCChunk
  Length = {1}
  BufferSize = {1}
  MaxFd = 2
  MaxSize = 1
INVARIANTS CallsKeepTheirFile ReadsOneFile
PROPERTIES ImplementsFileStore
SYMMETRY Alike
