\* The response, out of order, on a view with a Suspense after an error boundary
SPECIFICATION Spec
CONSTANTS
    Suspenses <- MCSuspenses
    Boundaries <- MCBoundaries
    Root = "root"
    Resources <- MCResources
    Chunks <- MCSuspenses
    Errors <- MCErrors
    Apps <- FirstApps
INVARIANT DocumentComplete
CHECK_DEADLOCK FALSE
