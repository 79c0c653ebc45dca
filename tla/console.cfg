SPECIFICATION ConsoleSpec
CONSTANTS
  Max = 1
  Window = 3
  TimeCap = 4
  CallCap = 2
  Logins = {p, q}
  Clients = {c}
  MaxAttempts = 1
  LoginWindow = 3
  Ttl = 1
  Stale = 1
  AttemptCap = 2
  TokenCap = 2
  Meshtastic = {t}
  MeshCore = {m}
  Simulated = {d}
  Unnamed = any
  Lag = 1
INVARIANTS ConsoleTypeOK AirtimeCapped OnAirCapped AnswersTrue AttemptsCapped HonouredWhileGood
PROPERTY QuotaKept
SYMMETRY Threads
