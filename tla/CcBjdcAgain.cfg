SPECIFICATION BFairSpec
CONSTANT MaxFlight = 3
PROPERTIES Verifies
