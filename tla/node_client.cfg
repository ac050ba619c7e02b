SPECIFICATION NodeSpec
CONSTANTS
  a = a  b = b
  Core = Core  None = None  Malformed = Malformed
  ask = ask  tell = tell  reload = reload
  i1 = i1  i2 = i2  i3 = i3  p1 = p1  p2 = p2
  Me = b
  Nodes = {a, b}
  Surfaces = {ask, tell, reload}
  Host <- MCHost
  Mode <- MCMode
  Ids = {i1, i2, i3, p1, p2}
  Calls <- MCCalls
  Answers <- MCAnswers
  Reqs = {q1, q2}
  Sessions = {s1, s2}
  Streams = {t1, t2}
  QueueMax = 1
  NonceMax = 5
  Manifests <- MCManifests
  FirstManifest <- Small
  Payloads <- MCPayloads
  HandEdits <- MCEdits
SYMMETRY MCSymmetry
INVARIANTS
  NodeTypeOK
  HandledOnce
  AnsweredWasHandled
  StopIsQuiet
CHECK_DEADLOCK FALSE
