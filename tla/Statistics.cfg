\* Two workers record four commands; the buffer of two samples wraps.
CONSTANTS
  Workers = {w1, w2}
  Completions <- MCCompletions
  Failures <- MCFailures
  BufferSize = 2
  Unset = 9
  MaxEvents = 4
SPECIFICATION Spec
INVARIANTS TypeOK CountersExact ExtremesExact SamplesExact
