\* Every configuration of MCStartup.
CONSTANTS
  UINT32_MAX = 7
  Configs <- AllConfigs
SPECIFICATION Spec
INVARIANTS TypeOK StackKept WorkersAsConfigured DirsBeforeService
\* Startup ends: with the call of run(), an exit or an abort.
CHECK_DEADLOCK FALSE
