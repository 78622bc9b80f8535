SPECIFICATION Spec
CONSTANTS
  MaxRequests = 2
  Addresses = {"1.1"}
  LongUri = "huge"
  LongName = "name"
  MaxPartition = 4
  Pages = 18
  HighLine = 9
  FirstCap = 4
  DoubleUpTo = 8
  Stride = 3
  MaxPacket = 4
  MaxTries = 2
  Limit = 30
  Mib = 16
  Line = 192
  Beyond = 4096
  DefaultTop = 112
  MinFile = 6
  HeaderRoom = 8
  ZeroPage = 2
  Mib2 = 16
  Gib = 32
  Window = 96
  Line48 = 160
  HeaderSize = 4
  OldOffset = 8
  Headroom = 24
  Privileged = 1000
INVARIANTS
  ResourceExact
  ImageExact
  KernelCanRun
  RiscKernelCanRun
CHECK_DEADLOCK FALSE
