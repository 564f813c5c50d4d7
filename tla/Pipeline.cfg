SPECIFICATION Spec
CONSTANTS
  Task = {t1, t2}
  Caller = {ann, bob}
  Requester = ann
  Reviewer = {ann, bob}
  Administrator = {}
  MaxReviewCycles = 1
  JobAttempts = 2
  MaxRequests = 2
  MaxOvertaken = 1
INVARIANTS
  TypeOK
  CompletedIsPublished
  PublishedIsWhole
  ReportedIsReviewed
  RepeatedOnlyWhenRaced
  ShownReviewIsOpen
  OneAnswerPerRound
  OwnTransitionsAreAllowed
PROPERTIES
  Settles
CHECK_DEADLOCK FALSE
