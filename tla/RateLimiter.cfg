SPECIFICATION Spec
CONSTANTS
  q1 = q1
  q2 = q2
  q3 = q3
  q4 = q4
  a1 = a1
  a2 = a2
  Requests <- FourRequests
  Clients <- TwoClients
  ClientOf <- Senders
  MaxAttempts = 2
  Window = 3
  MaxTime = 5
SYMMETRY SameSender
CHECK_DEADLOCK FALSE
INVARIANTS
  TypeOK
  RefusedOnlyOverLimit
  LimitHoldsOneAtATime
