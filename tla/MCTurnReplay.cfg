SPECIFICATION Spec
CONSTANTS
    MaxBlocks = 2
    MaxDeltas = 2
    MaxTurns = 2
INVARIANTS
    ArgumentsAreVerbatim
    ConversationContinues
    TurnsRoundTrip
CHECK_DEADLOCK FALSE
