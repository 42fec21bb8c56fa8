SPECIFICATION FairSpec
CONSTANTS
  s1 = s1
  s2 = s2
  f1 = f1
  f2 = f2
  NoOne = NoOne
  Session = {s1}
  BenchmarkSession = {s1}
  Isin = {f1, f2}
  NumCodes = 2
  Jobs <- MCJobs
  MaxSnapshots = 4
  MaxBenchmarks = 2
INVARIANTS
  TypeOK
  SavedBenchmarksAreDurable
  ReadersSeeWholeSnapshots
  SeedComesFirst
  LoadedMeansSeeded
