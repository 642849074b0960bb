\* Three runs of two projects, every window of four units.
SPECIFICATION Spec
CONSTANTS
    Projects = {p1, p2}
    Horizon = 3
    MaxRuns = 3
SYMMETRY Symmetric
INVARIANTS WallClockCountsOverlapOnce ParallelismIsMeasured WindowsAddUp DashboardAgrees
CHECK_DEADLOCK FALSE
