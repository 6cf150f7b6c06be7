SPECIFICATION Spec
CONSTANTS
    Deliveries = {d1, d2, d3}
    MaxInFlight = 2
    MaxActive = 6
CHECK_DEADLOCK FALSE
INVARIANTS WaitsOnlyWhenFull
