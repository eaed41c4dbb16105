SPECIFICATION Spec
CONSTANTS
  Sessions = {s1, s2}
  Works = {w1}
  Leases = {1, 2, 3}
  MaxTasks = 2
  AllowCustom = TRUE
  Nowhere = Nowhere
  SkillA = SkillA
  SkillB = SkillB
  Tasks = {t1}
  Skills <- MCSkills
  Agents = {"claude", "other"}
  Trees = {wt}
  Runs = {r1}
  TaskSkills <- MCTaskSkills
  Workflows <- MCWorkflows
  Reviews = {v1}
  MaxCards = 2
  Done = Done
  Leased = {wa, wb}
  Files = {fa, fb}
  Base = {fa}
  LogsIgnored = FALSE
  MaxChanges = 3
  Owners = {s1, s2}
  Roots = {main}
  Wts = {pa, pb}
  Nobody = Nobody
INVARIANTS
  LeaseHasWorktree
  TaskFilesStay
  NothingLeftBehind
  GatesHold
  NothingOverlooked
  OnlyOwnPlaces
PROPERTIES
  UncommittedStays
CHECK_DEADLOCK FALSE
