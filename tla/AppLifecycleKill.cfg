SPECIFICATION Spec
CONSTANTS
  Catchable <- MCCatchable
  Requests <- MCRequests
  MailLimit = 1
INVARIANT KillIsFatal
