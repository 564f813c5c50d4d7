SPECIFICATION Spec
CONSTANTS
  Task = {t1}
  Caller = {ann, bob}
  Requester = ann
  Reviewer = {bob}
  Administrator = {}
  MaxReviewCycles = 1
  JobAttempts = 2
  MaxRequests = 2
  MaxOvertaken = 1
INVARIANT DecisionAnswersItsRound
CHECK_DEADLOCK FALSE
