SPECIFICATION ModerationSpec
CONSTANTS
  c1 = c1
  c2 = c2
  event = event
  ann = ann
  bob = bob
  bot = bot
  general = general
  random = random
  Actors = {ann}
  Channels = {general, random}
  NoChannel = no_channel
  MemberChanges <- MCChanges
  MaxBulk = 2
  Handlers = {c1, c2, event}
  MaxFiles = 1
  Pause = 1
  Tolerance = 2
  MaxTime = 3
  Calls = {c1, c2}
  Kinds <- AllKinds
  Members = {ann, bob, bot}
  Bot = bot
  Owner = bob
  Moderators = {bob}
  Targets = {ann}
  Ranks = {1, 2}
  FirstRank <- MCRank
  MaxChanges = 1
CONSTRAINT FewThings
SYMMETRY Symmetry
CHECK_DEADLOCK FALSE
INVARIANTS LogTellsTruth DoneIsLogged
