SPECIFICATION FairSpec
CONSTANTS
  s1 = s1
  s2 = s2
  s3 = s3
  entities = entities
  aliases = aliases
  facts = facts
  relationships = relationships
  sessions = sessions
  turns = turns
  messages = messages
  entitiesByName = entitiesByName
  aliasesByName = aliasesByName
  factsBySubject = factsBySubject
  relationshipsBySource = relationshipsBySource
  relationshipsByTarget = relationshipsByTarget
  turnsBySequence = turnsBySequence
  messagesBySequence = messagesBySequence
  Servers = {s1, s2, s3}
  Latest = 2
  Objects <- MCObjects
  Indexes <- MCIndexes
  Refs <- MCRefs
  Up <- MCUp
  Down <- MCDown
  MaxCrashes = 1
INVARIANTS IndInv
PROPERTIES EventuallyReady
