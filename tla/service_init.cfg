\* One service of each file, one of them missing from the directories.
CONSTANTS
  UINT32_MAX = 7
  Names = {"server", "testservice", "missing"}
  Dirs = {"test", "scripts"}
  Present <- Files
  Arguments <- SomeArguments
  MaxContexts = 3
  MaxAsked = 2
SPECIFICATION Spec
INVARIANTS TypeOK CallbackAlive VerdictExact InitLeaves WorkerIdExact
\* The service is destroyed in the end.
CHECK_DEADLOCK FALSE
