SPECIFICATION Spec
CONSTANTS
  s1 = s1
  s2 = s2
  f1 = f1
  f2 = f2
  NoOne = NoOne
  Session = {s1, s2}
  BenchmarkSession = {s2}
  Isin = {f1, f2}
  NumCodes = 1
  Jobs <- MCJobs
  MaxSnapshots = 2
  MaxBenchmarks = 1
INVARIANTS
  CommittedSnapshotsWhole
