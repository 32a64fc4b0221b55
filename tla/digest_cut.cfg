SPECIFICATION QuestionsSpec
CONSTANTS
  None = None
  Interviews = {r1}
  Answers = {a1, a2}
  FirstAnswer = a1
  Scan = Scan
  ReplayKeys = {k1}
  MaxQuestions = 2
  MaxTalkVersion = 2
  MaxAttempts = 2
  MaxOutboxFaults = 2
  DigestQuestions = {i1}
  MaxDays = 3
INVARIANTS SuppressedWasRepeated
CHECK_DEADLOCK FALSE
