\* A capture that commits between the count of references and the unlink.
SPECIFICATION MCSpec
CONSTANTS
    o1 = o1  o2 = o2  r1 = r1  d1 = d1  d2 = d2  h1 = h1  h2 = h2
    Originals = {o1, o2}
    Redactions = {r1}
    Parent <- ParentOfAll
    Digests = {d1, d2}
    None = None
    Threads = {h1, h2}
    Startup = Startup
    MaxCrashes = 1
    MaxFaults = 1
PROPERTIES
    UnlinkedOnlyUnreferenced
