\* One memory of the scope asked for and one of another, with two contents; or
\* two and one, with one content, for two places; texts of four pieces.
CONSTANTS
  m1 = m1
  m2 = m2
  m3 = m3
  hit = hit
  topic = topic
  NoContent = NoContent
  MemoryId = {m1, m2, m3}
  Content = {hit, topic}
  ScopeOf <- MCScopeOf
  Filter = {"asked"}
  TextHits = {hit}
  EntityHits <- MCEntityHits
  Embedding = TRUE
  RerankPool = 2
  K = 1
  MaxCalls = 1
  Libraries <- MCLibraries
  Concepts <- MCConcepts
  Commands <- MCCommands
  Extensions <- MCExtensions
  Pieces <- MCPieces
  MaxPieces = 4
SPECIFICATION QuerySpec
INVARIANTS
  AnswersAreSound
  CountsAreAnswers
  SteadyIsFound
  ExtractionIsSound
CHECK_DEADLOCK FALSE
