CONSTANTS
  MAX_PAYLOAD_BYTES = 72
  INJECT_ERROR_BIT = 25
  PowerUpBytes = {170}
  Offers <- MCOffers
  MaxRequests = 1
  Resettable = {}
SPECIFICATION WSpec
INVARIANTS ReservedIgnored
