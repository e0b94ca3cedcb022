CONSTANTS
  t1 = t1
  t2 = t2
  d1 = d1
  d2 = d2
  e1 = e1
  e2 = e2
  used = used
  w = w
  blank = blank
  partial = partial
  c = c
  Tx = {t1, t2}
  Direct = {d1, d2}
  Seed = seed
  Entity = {e1, e2}
  Val = {used, w, blank, partial}
  Claim = {c}
  ClaimsOf <- MCClaimsOf
  PartialVal = {partial}
  None = none
  SubmitTimeTTL = 1
  Load <- MCDirect
SPECIFICATION Spec
CHECK_DEADLOCK FALSE
INVARIANTS CommitInDoubtNotRetried
