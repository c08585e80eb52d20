CONSTANTS
  a = a  b = b
  audio = audio  video = video
  Clients = {a, b}
  Names = {audio, video}
  WorkerThread = WorkerThread
  NoTask = NoTask
  Tasks <- MCTasks
  MaxAdds = 4
  MaxEnds = 1
SPECIFICATION SenderSpec
INVARIANTS TasksHandledInOrder PipeIsAccountedFor SentToItsConnection
PROPERTIES MailboxSafe EveryTaskHandled
CHECK_DEADLOCK FALSE
