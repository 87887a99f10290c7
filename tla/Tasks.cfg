SPECIFICATION TSpec
CONSTANTS
  MaxFlight = 3
  Intervals <- MCIntervals
  MaxTries = 2
INVARIANTS ReportsLoggedIn ReportsVerified MqttListens
PROPERTIES LogsIn SilenceDetected VerifiesFromScratch MqttConnReports
