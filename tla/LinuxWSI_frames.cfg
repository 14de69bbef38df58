\* All backends, three images, a failing gbm_bo_map and a lost connection.
SPECIFICATION FairSpec
CONSTANTS
    Kinds = {"gbm", "cpu", "dmabuf", "shm"}
    Images = 3
    Frames <- TwoFrames
    Mishaps = {"remap", "hangup"}
    MaxCount = 4
    MinRun = 3
    Gain = 1
    MaxSize = 10
INVARIANTS TypeOK FramesStayIntact InUseIsAccounted RoundTrip
PROPERTY PresentReturns
