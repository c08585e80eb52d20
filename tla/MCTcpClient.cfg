CONSTANTS
  owner = owner  other = other
  Clients <- MCClients
  Owner = owner
  Tasks <- MCTasks
  NoTask = NoTask
  MaxAdds = 3
  MaxEnds = 1
SPECIFICATION ClientSpec
INVARIANTS WrittenWhereMeant LossIsFinal
PROPERTIES EveryTaskHandled MailboxSafe
CHECK_DEADLOCK FALSE
