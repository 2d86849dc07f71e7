\* Two frames, two pages at start and up to two more from new_page, two pins
\* per page, two versions per page.
CONSTANTS
    NumFrames = 2
    InitPages = 2
    MaxPage = 3
    MaxPins = 2
    MaxVersion = 2

INIT BPInit
NEXT BPNext
INVARIANT PinsMatchHolders
INVARIANT FrameOwnership
INVARIANT ReplacerExact
INVARIANT NoLostWrite
