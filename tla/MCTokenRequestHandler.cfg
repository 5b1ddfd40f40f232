CONSTANTS
  MAX_PAYLOAD_BYTES = 72
  INJECT_ERROR_BIT = 340
  PowerUpBytes = {170}
  Offers <- MCOffers
  MaxRequests = 2
  Resettable <- MCResettable
SPECIFICATION FairWSpec
INVARIANTS AcceptsPacked
PROPERTIES ImplementsService RequestsAnswered
