SPECIFICATION Spec
CONSTANTS
  Requests = {r1, r2, r3}
  NoRequest = NoRequest
  c1 = c1
  c2 = c2
  Cameras = {c1, c2}
  Scopes <- MCScopes
  Answers <- MCAnswers
  Garbage = Garbage
  NotARule = NotARule
  LLMSuspends = TRUE
  SavesMayFail = TRUE
  MaxVersions = 6
INVARIANTS OnePrevails RepliesTell RulesAsAnswered
CHECK_DEADLOCK FALSE
