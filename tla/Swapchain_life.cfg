\* Two clients, two swapchains each, of one or two images; three images fit
\* into the driver, which fails once while an image is copied.
CONSTANTS
  h1 = h1
  h2 = h2
  h3 = h3
  Handles = {h1, h2, h3}
  Counts = {1, 2}
  MaxImages = 2
  MaxId = 2
  MaxClient = 2
  MaxRender = 1
  AppMay = {}
  MaxFailures = 1
SYMMETRY HandleSymmetry
SPECIFICATION Spec
INVARIANTS TypeOK ClientServed RegisteredAreAlive ShownIsRendered LeaksOnlyGivenUp
