CONSTANTS
    m_nentities_size = 2
    update_freq = 1
    Inside = {1, 2}
    MaxUpdates = 3
    MaxSpurious = 1
SPECIFICATION FairSpec
INVARIANTS
    SentNotOlder
PROPERTIES
    UpdateWakes
    WakeupShows
CHECK_DEADLOCK FALSE
