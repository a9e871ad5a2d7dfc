CONSTANTS
    DEFAULT_INIT_CAPACITY = 2
    ID_VECTOR_INLINE_IDS = 1
    CHAR_BIT = 3
    INT_MAX = 20
    Indefinite = 99
    IdSpace = 4
    MaxHops = 2
    Sources <- MCSources
    Entries <- MCEntries
    Arguments <- MCArguments
    PacketHeaders <- MCPacketHeaders
    Metadata <- MCMetadata
SPECIFICATION UseSpec
CHECK_DEADLOCK FALSE
INVARIANTS FormatsKeepProgram DatabaseIsUsable IdsAreStable EntriesAreFaithful PacketsAreFaithful
