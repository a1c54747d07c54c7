CONSTANTS
    Writers = {w1, w2}
    MaxU64 = 3
    MaxProposed = 2
    MAX_FILE_ID_RESERVATION_RETRIES = 1
SPECIFICATION Spec
PROPERTIES ReservationReturns AllocatorSpec
