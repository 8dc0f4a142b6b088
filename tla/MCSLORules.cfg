SPECIFICATION Spec
CONSTANTS
    SLIs <- MCSLIs
    Traffic <- MCTraffic
    Ticks <- MCTicks
    Holds <- MCHolds
    Unit = 2
    Keep <- MCKeep
INVARIANTS
    AlertClears
PROPERTIES
    TrafficWeighted
    OutageAlerts
