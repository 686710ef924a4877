SPECIFICATION FairSpec
CONSTANTS
  QueueCap = 2
  MaxJoins = 2
INVARIANTS OneOutcomePerJoin JoiningIsBacked PollsAsAsked
PROPERTIES WaitingIsAnswered AnswerIsVisible NoStrayTurbo
