SPECIFICATION Spec
CONSTANTS
  Rounds = 4
  Interval = 2
  MaxRestarts = 1
INVARIANTS TypeOK ConversationFollowsLineage LastAttemptInView FeedbackOfLastResult
