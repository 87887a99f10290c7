SPECIFICATION HSpec
INVARIANTS TwoStrikes
