SPECIFICATION FairSpec
CONSTANTS
    asker = asker
    streamer = streamer
    other = other
    Providers <- MCProviders
    Requesters = {asker}
    RequesterOf <- MCRequesterOf
    MaxSize = 1
    Messages <- MCMessages
    MaxQueues = 2
INVARIANTS TypeOK OneWriter StreamInOrder
PROPERTIES OutboxKept HandlersReturn QueuedIsWritten
CHECK_DEADLOCK FALSE
