SPECIFICATION Spec
CONSTANTS
  c1 = c1  c2 = c2  p1 = p1  p2 = p2  p3 = p3  p4 = p4
  o1 = o1  o2 = o2  o3 = o3  o4 = o4
  None = None
  Children = {c1}
  Policy <- OnePolicy
  MaxRestarts = 1
  Procs = {p1, p2, p3}
  Ops = {o1, o2}
  Requests <- TwinRequests
  Crashing = {c1}
  ExecMayFail = FALSE
  MaxWork = 1
INVARIANTS
  OneProcess
CHECK_DEADLOCK FALSE
