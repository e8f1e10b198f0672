\* Three requests over two repositories, one failing store call, one restart.
SPECIFICATION Spec
CONSTANTS
  Job = {j1, j2, j3}
  Repo = {r1, r2}
  NoRepo = NoRepo
  NoJob = NoJob
  MaxFault = 1
  MaxCrash = 1
SYMMETRY Symmetric
INVARIANTS IInv AtMostOneIngest SuccessIsRecorded
PROPERTIES TerminalRowIsFinal ReportedEndIsFinal ImplementsSlots
\* Every request answered and every thread ended is a legal rest.
CHECK_DEADLOCK FALSE
