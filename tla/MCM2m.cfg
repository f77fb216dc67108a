SPECIFICATION M2mFairSpec
CONSTANTS
  Formats = {"h264", "mjpeg", "jpeg"}
  Geometries = {g1, g2}
  MaxBufs = 2
  Unset = Unset
INVARIANT OwnFrameReturned
INVARIANT NothingHeldBetweenCalls
PROPERTY CompressReturns
