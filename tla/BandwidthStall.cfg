SPECIFICATION BandwidthSpec
CONSTANTS
    b1 = b1
    b2 = b2
    Bodies = {b1, b2}
    FramesOf <- MCFramesOf
    BytesPerSec = 2
    TicksPerSec = 4
PROPERTIES
    FramesDelivered
