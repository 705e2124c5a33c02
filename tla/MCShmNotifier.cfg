\* Two readers, one message per socket, two writes, one answer.
SPECIFICATION FairSpec
CONSTANTS
    r1 = r1
    r2 = r2
    Readers = {r1, r2}
    Writer = writer
    Nobody = nobody
    Answering = {r1, writer}
    Locking = {writer}
    Leaving = {r2}
    Cap = 1
    MaxWrites = 2
    MaxAnswers = 1
INVARIANTS TypeOK NobodyMissed
PROPERTIES LatestHeard
CHECK_DEADLOCK FALSE
