SPECIFICATION Spec
CONSTANTS
  Receivers = {r1, r2}
  Capacity = 3
  MaxSends = 6
  SpuriousWakeups = TRUE
  ResetAnytime = TRUE
SYMMETRY ReceiverSymmetry
INVARIANTS NoLostWakeup InOrder
