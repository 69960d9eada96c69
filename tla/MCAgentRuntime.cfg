SPECIFICATION Spec
CONSTANTS
  r1 = r1  r2 = r2  e = e  agent = agent  search = search  mail = mail
  find = find  write = write
  Run <- MCRun
  Execution = {e}
  Of <- MCOf
  Drives <- MCDrives
  Agent = {agent}
  Tool = {search, mail}
  Call <- MCCall
  ToolOf <- MCToolOf
  ToolSpec <- MCToolSpec
  ApprovalRisks = {3, 4}
  Rules <- MCRules
  Lists <- MCLists
  Width = 2
  Replies <- MCReplies
  MaxIterations = 1
  MaxAttempts = 2
  MaxTools = 1
  ToolLimit = 1
  MaxResumes = 1
  MaxEdits = 1
INVARIANTS GatedCallsAreApproved CeilingHolds SuspensionsCanBeAnswered BudgetFailuresStop
CHECK_DEADLOCK FALSE
PROPERTY RunsSettle
