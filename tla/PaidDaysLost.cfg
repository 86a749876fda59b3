SPECIFICATION Spec
CONSTANTS
  m1 = m1
  h1 = h1
  h2 = h2
  hybrid = hybrid
  premium = premium
  free = free
  Free = free
  Rows <- MCRows
  Members = {m1}
  Hashes = {h1, h2}
  Handlers = {w1, w2}
  PaidTiers = {hybrid, premium}
  Owner <- MCOwner
  TierOf <- MCTierOf
  Period = 2
  InvoiceMaxAge = 1
  LastInvoice = 2
  MaxTime = 4
  MaxFailures = 0
INVARIANT
  NoPaidDaysLost
