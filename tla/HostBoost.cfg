\* Every access of the bus may fail until it heals; the chip trips, the board restarts.
SPECIFICATION FairBoostSpec
INVARIANT ConverterIsSafe
PROPERTY ChipIsReturned
PROPERTY LostBoostIsReleased
