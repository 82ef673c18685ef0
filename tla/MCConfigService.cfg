CONSTANTS
  guild = guild
  anna = anna
  ben = ben
  volume = volume
  NoGuild = NoGuild
  Guilds <- OneGuild
  Clients <- TwoClients
  Keys <- OneKey
  Faults <- AllFaults
  MaxVersion = 3
SPECIFICATION SequentialSpec
INVARIANTS AuditIsTruth SettledWhenAlone
PROPERTIES StaleSavesRefused StoreSpec RequestsEnd
