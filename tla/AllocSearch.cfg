SPECIFICATION Spec
CONSTANTS
  NBlocks = 6
  MaxRequest = 4
PROPERTIES LongestRun NextFit SearchEnds
