CONSTANTS
    Numerals = {"0", "5", "7", "9"}
    NotNumbers = {"", "N/A", "NaN"}
    Payloads <- SomePayloads
    Listings <- SomeListings
SPECIFICATION Spec
CHECK_DEADLOCK FALSE
INVARIANT RejectionIsMarked
