CONSTANTS
  r1 = r1
  r2 = r2
  r3 = r3
  r4 = r4
  r5 = r5
  p1 = p1
  p2 = p2
  p3 = p3
  p4 = p4
  read = read
  push = push
  Requests = {r1, r2, r3, r4, r5}
  Fingerprints = {p1, p2, p3, p4}
  Keys = {read, push}
  Fingerprint <- PrintOf
  RuleKey <- KeyOfPrint
  ForceInteractive = {push}
  AutoApproved = {read, push}
  Forced = {r1, r2, r3}
  MaxResolved = 1
  MaxApprovals = 3
SPECIFICATION Spec
INVARIANTS TypeOK WaitersCanBeDecided IndexMatchesPending SharedDecision
PROPERTIES InteractiveIsDecided
