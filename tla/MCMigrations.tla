----------------------------- MODULE MCMigrations -----------------------------
(***************************************************************************)
(* Model checking of Migrations: the scripts of the repository.             *)
(***************************************************************************)
EXTENDS Migrations, TLC

CONSTANTS s1, s2, s3,
          entities, aliases, facts, relationships, sessions, turns, messages,
          entitiesByName, aliasesByName, factsBySubject, relationshipsBySource,
          relationshipsByTarget, turnsBySequence, messagesBySequence

MCIndexes ==
  {entitiesByName, aliasesByName, factsBySubject, relationshipsBySource,
   relationshipsByTarget, turnsBySequence, messagesBySequence}
MCObjects ==
  {entities, aliases, facts, relationships, sessions, turns, messages} \cup MCIndexes

MCUp ==
  <<<<entities, entitiesByName, aliases, aliasesByName, facts, factsBySubject,
      relationships, relationshipsBySource, relationshipsByTarget>>,
    <<sessions, turns, turnsBySequence, messages, messagesBySequence>>>>
MCDown ==
  <<<<relationships, facts, aliases, entities>>, <<messages, turns, sessions>>>>

MCRefs == [o \in MCObjects |->
  CASE o \in {entities, sessions} -> {}
    [] o \in {aliases, facts, relationships, entitiesByName} -> {entities}
    [] o = aliasesByName -> {aliases}
    [] o = factsBySubject -> {facts}
    [] o \in {relationshipsBySource, relationshipsByTarget} -> {relationships}
    [] o = turns -> {sessions}
    [] o = messages -> {sessions, turns}
    [] o = turnsBySequence -> {turns}
    [] o = messagesBySequence -> {messages}]

=============================================================================
