---------------------------- MODULE JobModel ----------------------------
(***************************************************************************)
(* The vocabulary of a research job (domain/models.py): its statuses, the  *)
(* table of allowed transitions, access classes and reviewer statuses.     *)
(* Nothing here has state; every other module extends this one.            *)
(***************************************************************************)
EXTENDS Naturals, FiniteSets

CREATED         == "created"
PLANNING        == "planning"
RESEARCHING     == "researching"
ANALYZING       == "analyzing"
REVIEW_REQUIRED == "review_required"
REPORTING       == "reporting"
COMPLETED       == "completed"
FAILED          == "failed"
PARTIAL         == "partial"

JobStatus == {CREATED, PLANNING, RESEARCHING, ANALYZING, REVIEW_REQUIRED,
              REPORTING, COMPLETED, FAILED, PARTIAL}

\* Mutant: a rejected-for-lack-of-research job may no longer be sent back.
ALLOWED_TRANSITIONS_no_second_pass(s) ==
    CASE s = CREATED         -> {PLANNING, FAILED}
      [] s = PLANNING        -> {RESEARCHING, FAILED}
      [] s = RESEARCHING     -> {ANALYZING, PARTIAL, FAILED}
      [] s = ANALYZING       -> {REVIEW_REQUIRED, REPORTING, PARTIAL, FAILED}
      [] s = REVIEW_REQUIRED -> {REPORTING, FAILED}
      [] s = REPORTING       -> {COMPLETED, PARTIAL, FAILED}
      [] OTHER               -> {}

ALLOWED_TRANSITIONS(s) ==
    CASE s = CREATED         -> {PLANNING, FAILED}
      [] s = PLANNING        -> {RESEARCHING, FAILED}
      [] s = RESEARCHING     -> {ANALYZING, PARTIAL, FAILED}
      [] s = ANALYZING       -> {REVIEW_REQUIRED, REPORTING, PARTIAL, FAILED}
      [] s = REVIEW_REQUIRED -> {RESEARCHING, REPORTING, FAILED}
      [] s = REPORTING       -> {COMPLETED, PARTIAL, FAILED}
      [] OTHER               -> {}

Terminal == {COMPLETED, FAILED, PARTIAL}

NOT_REQUIRED == "not_required"
PENDING      == "pending"
APPROVED     == "approved"
REJECTED     == "rejected"

ReviewerStatus == {NOT_REQUIRED, PENDING, APPROVED, REJECTED}

APPROVE == "approve"
REJECT  == "reject"
MORE    == "request_more_research"

ReviewerDecision == {APPROVE, REJECT, MORE}
=============================================================================
