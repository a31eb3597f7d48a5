SPECIFICATION FairSpec
CONSTANTS
  nro = nro  ntdll = ntdll  config = config  r1 = r1  r2 = r2
  Files <- MCFiles  Nro = nro  Managed <- MCManaged  Present <- MCManaged
  Releases = {r1, r2}  Ships <- MCShips
  Base = base  Absent = absent  Torn = torn  None = None
INVARIANTS RuntimeWhole Bootable BackupsKept WrittenTruly
PROPERTIES Recovers
