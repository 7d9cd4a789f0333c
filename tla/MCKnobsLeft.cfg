SPECIFICATION Spec
CONSTANTS
  Procs = {c1, c2}
  Paths = {path1, path2}
  path1 = path1
  path2 = path2
  drive = drive
  part1 = part1
  part2 = part2
  Nodes <- NodesOnDisk
  Disk <- DiskOf
  NoNode = NoNode
  plain = plain
  Tuned = Tuned
  None = None
  Value = {plain, Tuned}
  Original <- Before
  Commands <- OnePartitionEach
  Layouts <- Partitions
  Renames = {}
INVARIANTS
  OriginalsPutBack
