SPECIFICATION Spec
CONSTANTS
  g1 = g1
  g2 = g2
  h1 = h1
  h2 = h2
  p1 = p1
  Gateways <- MCGateways
  Handlers <- MCHandlers
  Payments <- MCPayments
  TX_PER_TICK = 2
  MaxCount = 3
  MaxRequests = 3
  MaxMinutes = 1
  MaxFaults = 1
SYMMETRY Symmetry
CHECK_DEADLOCK FALSE
INVARIANTS
  ClockKeepsPace
  OneFaultPerGateway
  PaymentFiledOnce
