SPECIFICATION Spec
CONSTANTS
  Catchable <- MCCatchable
  Requests <- MCRequests
  MailLimit = 1
INVARIANTS NoDeafSleep FocusIsLive
PROPERTY EndsAreReaped
