------------------------------ MODULE MCMedia ------------------------------
(* Media on a small medium, blank or with a map in which free space comes   *)
(* before and behind a partition.                                          *)
EXTENDS Media

MCOldMaps ==
  {<<Entry("map", 1, 5, 4), Entry("free", 6, 3, 4), Entry("hfs", 9, 17, 4),
     Entry("free", 26, 18, 4)>>}
=============================================================================
