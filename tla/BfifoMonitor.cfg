\* The fifos of das_monitor.c: 100 * 1024 bytes, which does not divide 2^32.
SPECIFICATION Spec
CONSTANTS
  Producers = {p1}
  Consumers = {c1}
  Size = 3
  Word = 8
  MaxChunk = 2
  MaxBytes = 12
INVARIANTS Intact
