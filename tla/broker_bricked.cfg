SPECIFICATION Spec
CONSTANTS
  a = a
  b = b
  Core = Core  None = None  Malformed = Malformed
  ask = ask  tell = tell
  look = look  run = run  rewrite = rewrite  reload = reload
  i1 = i1  i2 = i2  i3 = i3  p1 = p1  p2 = p2
  Nodes = {a, b}
  Surfaces <- MCSurfaces
  Host <- MCHost
  Mode <- MCMode
  Ids = {i1, i2, i3, p1, p2}
  Calls <- ReloadCalls
  Answers <- ReloadAnswers
  Reqs = {q1, q2, q3}
  Sessions = {s1, s2}
  Streams = {}
  QueueMax = 1
  NonceMax = 5
  Manifests <- MCManifests
  FirstManifest <- Full
  Payloads <- NoManifests
  HandEdits <- BrokenEdit
INVARIANTS
  CoreAlwaysPresent
CHECK_DEADLOCK FALSE
