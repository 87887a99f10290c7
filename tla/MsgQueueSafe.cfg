SPECIFICATION FairSpec
CONSTANTS
  Receivers = {r1}
  Capacity = 3
  MaxSends = 6
  SpuriousWakeups = FALSE
  ResetAnytime = FALSE
PROPERTIES ImplementsQueue Delivery
\* The senders stop at the bound MaxSends; a receiver then waits for ever.
CHECK_DEADLOCK FALSE
