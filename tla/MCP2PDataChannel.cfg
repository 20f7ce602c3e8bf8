CONSTANTS
    MAX_SEQUENCE_NUMBER = 7
    SEQUENCE_PROCESSING_BOUNDARY = 3
    MaxSent = 18
SPECIFICATION FairSpec
PROPERTIES
    ImplementsOrderedDelivery
    EveryPacketIsDelivered
