SPECIFICATION ShimSpec
CONSTANTS
  sb = sb
  w = w
  e = e
  Sandbox = sb
  Workloads = {w}
  Execs = {e}
  ExecOf <- MCExecOf
  Kinds <- MCKinds
  Used <- MCUsed
  Faults <- MCFaults
  vm = vm
  init = init
  Systems = {vm}
  Procs = {init}
  SystemOf <- MCSystemOf
  Callers = {c}
  OpKinds = {"Pause", "Resume"}
  MaxOps = 2
  MaxFailing = 1
  HcsFaults = {"create", "register", "properties", "open", "files", "lost", "terminate", "connect",
               "disconnect"}
  Outputs = {"none", "linux", "windows"}
CHECK_DEADLOCK FALSE
INVARIANTS
  ClosedReleased
  OneExit
  ExitsAreReal
PROPERTIES
  EverythingCloses
