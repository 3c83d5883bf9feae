SPECIFICATION LibSpec
CONSTANTS
    NULL = NULL
    MaxMsg = 1  MaxSends = 2  MaxNotes = 2
    RtMax = 2  SetBits = 37  Sigs = {17, 32, 35}  MaxHandled = 2
    Names = {"/a", "/b"}  IntMax = 2  Kept = TRUE
    Threads = {t1, t2, t3}
    Callers = {c1}
    ShmObjs = {o1}
    Fds = {f1}
    Regions = {r1}
    Streams = {s1}
    Parsed <- ParsedDatabases  Keys <- NetKeys
    SizeOf <- Sizes  PathMax <- Paths  Addresses <- SomeAddresses  Storage = 8  ScopeMod = 2
    Listing <- Directories  NameMax = 3  LockMax = 1  RangeEnd = 2
    Alnum = {"a", "b", "c", "l", "o", "r", "e", "z"}
    Argvs <- GetoptArgvs  OptString <- ShortOptions  LongOpts <- LongOptions
    NsPerMs = 2  MsPerSec = 2  TimeoutMax = 4  TimeLimit = 10  AddrStrLen = 16  Word = 4
SYMMETRY Symmetry
CHECK_DEADLOCK FALSE
INVARIANTS EveryOptionIsSeen
