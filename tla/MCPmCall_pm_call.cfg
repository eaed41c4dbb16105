SPECIFICATION Spec
CONSTANTS
  Tools = {"search", "fetch", "browse", "command", "test"}
  MaxRounds = 2
  MaxBatch = 2
  MaxCalls = 2
  MaxItems = 2
  Wall = 4
  Stall = 2
  MaxRequests = 2
  Compactors = {"pm", "api"}
  MaxTime = 2
  MaxEvents = 2
  MaxPoints = 2
  Anchors = 12
  Profile <- MCProfile
  OfKind <- MCOfKind
  Picked = {3}
  Planners = {pa, pb}
  Limits = {1}
  MaxSelected = 1
  MaxTokens = 1
  MaxPulls = 1
  MaxEdits = 1
  Item <- MCItem
  Frame = 1
  Entry = 2
  Core = 1
  ListKept = 2
  ListCopied = 2
  MaxPrior = 3
  Floor = 12
  Cap = 9
  ContextLengths = {0, 8, 40}
  Configured = {34}
  Reserves = {4, 40}
INVARIANTS
  FunnelKeepsFaith
  EvictionIsHonest
  CommandAfterWebIsAsked
  PlanRestsOnEvidence
  FramesAccounted
  CommandDiesWithCall
PROPERTIES
  TurnEnds
CHECK_DEADLOCK FALSE
