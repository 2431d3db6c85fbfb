\* The report of a run with one command, which succeeds.
CONSTANTS
  Workers = {w1, w2}
  Completions <- MCCompletions
  Failures = {}
  BufferSize = 2
  Unset = 9
  MaxEvents = 1
SPECIFICATION Spec
INVARIANTS ReportFaithful
