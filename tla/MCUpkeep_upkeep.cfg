SPECIFICATION Spec
CONSTANTS
  Users = {ann, bob}
  FirstAdmin = ann
  Guessed = {ann, bob}
  MaxTracked = 1
  MaxClock = 3
  MaxCodes = 2
  MaxSessions = 2
  InviteTtl = 2
  TokenTtl = 3
  MaxFailures = 2
  Lockout = 2
  Apps = {p1, p2}
  D1 = D1
  D2 = D2
  D3 = D3
  Calls = {c1}
  Phones = {phone}
  MaxResults = 2
  QueueSize = 1
  InboxSize = 2
  Handles = {h1, h2}
  MaxAttempts = 3
  Names = {"flow"}
  Ids <- MCIds
  MaxVersion = 3
  Foreign <- MCForeign
  Openers = {oa, ob}
  Releases = {0, 6, 7, 8}
  Paths = {path}
  MaxRows = 2
  Watched = {wa, wb}
  MaxRecords = 2
  MaxRestarts = 1
  Dialers = {1, 2}
  Settings = {"a", "b"}
INVARIANTS
  AnAdminRemains
  GuessesAreSpaced
  AProgramRemains
  OneLiveVersion
  DecidedOnce
  EventsTellTheirAttempt
  UpgradeIsWhole
  SweepTellsOfAll
  LinkIsCurrent
CHECK_DEADLOCK FALSE
