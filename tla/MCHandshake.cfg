SPECIFICATION Spec
CONSTANTS
  Builds <- MCBuilds
  Labels <- MCLabels
  MaxFaults = 2
  Numbers <- MCNumbers
  Envelopes <- MCEnvelopes
  Hellos <- MCHellos
  Tensors <- MCTensors
  Messages <- MCMessages
  Bodies <- MCBodies
  MaxEdits = 2
INVARIANT TypeOK
INVARIANT CardsCurrent
INVARIANT VerdictsRight
INVARIANT FramesArrive
INVARIANT CutsRefused
INVARIANT Q8Close
INVARIANT SkewNoticed
INVARIANT BlobsArrive
INVARIANT CutBlobs
PROPERTY Settles
CHECK_DEADLOCK FALSE
