CONSTANTS
    Side <- MCSide
    MaxImageSide = 8192
    MaxPixels = 40000000
    HeatmapSide = 1024
    MinSide = 64
SPECIFICATION Spec
INVARIANTS TypeOK Comparable HeatmapBounded WorkBounded HeatmapKeepsShape
CHECK_DEADLOCK FALSE
