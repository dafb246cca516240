CONSTANTS
    Handles = {h1, h2, h3}
    Pools = {p1, p2}
    Cells = {c1, c2}
    NoPool = NoPool
    NoCell = NoCell
SPECIFICATION Spec
INVARIANTS TypeOK LeasedHeldOnce StrategyTravels
