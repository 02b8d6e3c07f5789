SPECIFICATION FairSpec
CONSTANTS
  NODE = 73
  CommandLines <- Lines
INVARIANTS
  ArgumentIsOwn
  TransferInStep
  InfoIsWhole
  SuccessMeansFlashed
  WhatIsLeft
PROPERTIES
  ProgramsNode
  Ends
