SPECIFICATION Spec
CONSTANTS
  nameA = nameA
  nameB = nameB
  nameC = nameC
  nameV = nameV
  foldA = foldA
  foldB = foldB
  foldV = foldV
  Name = {nameA, nameB, nameC, nameV}
  Fold <- MCFold
  Vol = nameV
  Up = Up
  NoName = NoName
  Paths <- MCPaths
  OldVolumes <- MCOldVolumes
  MaxId = 18
  MaxHarm = 1
CONSTRAINT FewHarms
INVARIANTS RecordsSound ThreadsExact CountsSound ChecksSuffice
PROPERTIES IsDirTree
