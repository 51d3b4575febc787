\* A PayPal event sent twice, a Coinbase event on which the adapter raises and an oversized
\* event, at a relay that serves one at a time and an adapter that may hang.
SPECIFICATION FairSpec
CONSTANTS
  Events = {pp, cb, big}
  PayPal = {pp}
  Coinbase = {cb}
  Zelle = {big}
  Sized = {pp, cb}
  Signed = {pp}
  WellFormed = {pp, cb}
  Raising = {cb}
  HasSecret = TRUE
  HasDsn = TRUE
  Repeated = {pp}
  MaxSends = 2
  None = None
INVARIANTS AcceptedIsStored RefusedLeavesNoRow
PROPERTIES IntakePromise EveryTransmissionAnswered
CHECK_DEADLOCK FALSE
