SPECIFICATION FairSpec
CONSTANTS
  s1 = s1
  s2 = s2
  f1 = f1
  f2 = f2
  NoOne = NoOne
  Session = {s1, s2}
  BenchmarkSession = {}
  Isin = {f1, f2}
  NumCodes = 1
  Jobs <- MCJobs
  MaxSnapshots = 2
  MaxBenchmarks = 0
INVARIANTS
  CommittedSnapshotsWhole
PROPERTIES
  ImplementsAppendOnlyHistory
  LockIsReleased
