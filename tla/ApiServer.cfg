SPECIFICATION FairSpec
CONSTANTS
  NoConfig = NoConfig
  Requests = {q1, q2}
  Envs <- Environments1
  Outages = {"otel", "db", "migrate", "storage", "listen", "sync"}
  MayPanic = TRUE
INVARIANTS TypeOK ActiveIsInFlight ReportsAgree PanicsAreAnswered ClosesAfterDrain ServedIsExported ReleasedOnExit
PROPERTIES GracefulSpec SignalEndsProcess ReadIsAnswered
CHECK_DEADLOCK FALSE
