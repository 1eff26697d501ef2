\* Every kind of field alone and repeated, with values at and beyond the ends
\* of their ranges, and a second configuration at any moment.
SPECIFICATION Spec
CONSTANTS
  Characters <- TestCharacters
  Conversions <- TestConversions
  Types <- TestTypes
  Names <- TestNames
  Files <- TestFiles
  Configurations <- TestConfigurations
  Requests <- TestRequests
  DeviceMessages <- TestMessages
  Nodes <- TestNodes
  Indices = {0, 1, 2}
  NodeSizes <- Sizes
  Depth = 2
  Half32 = 2
  Half64 = 8
INVARIANTS
  EchoComesBack
  NothingAltered
  AnswerAccepted
  DerivationChains
