\* A turn behind four kinds of earlier transcripts; beside it, in behaviours of their own,
\* a streamed response, its tags, two messages with two attachments, and two turns' files.
SPECIFICATION SideSpec
CONSTANTS
  PreserveRecent = 2
  MaxToolDepth = 2
  MaxAttempts = 2
  MaxStreak = 2
  MaxBatch = 2
  MaxTurns = 1
  Earlier <- MCEarlier
  Tool = {"bash"}
  Call = {1, 2}
  StreamAttempts = 2
  MaxChunks = 2
  ReasoningMax = 2
  MaxText = 7
  MaxChunk = 3
  Attachment = {"photo", "sheet"}
  Image = {"photo"}
  MaxRecordTurns = 2
  MaxEdits = 2
  MaxQuestions = 2
  FileName = {"chart", "report"}
  MaxOutputTurns = 2
  MaxWrites = 3
INVARIANTS
  PairsAreKept
  CompleteBatchesAreSent
  AnswersOnce
  ScreenIsAnswer
  CallsAnnounced
  CutAnywhere
  QuestionIsCurrent
  
  OutputsAreShown
PROPERTIES
  ArchiveGrows
  
CHECK_DEADLOCK FALSE
