\* The response, in every mode, on views whose boundaries all have ids of their own
SPECIFICATION Spec
CONSTANTS
    Suspenses <- MCSuspenses
    Boundaries <- MCBoundaries
    Root = "root"
    Resources <- MCResources
    Chunks <- MCSuspenses
    Errors <- MCErrors
    Apps <- MCApps
INVARIANTS
    DocumentComplete
    InDocumentOrder
    PendingFirst
    AllDelivered
PROPERTIES
    ResponseEnds
    IsDataStream
\* the response is over
CHECK_DEADLOCK FALSE
