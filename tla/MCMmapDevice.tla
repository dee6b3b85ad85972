---------------------------- MODULE MCMmapDevice ----------------------------
EXTENDS MmapDevice, TLC

MmapSymmetry ==
  Permutations(Files) \cup Permutations(Areas) \cup Permutations(Users)
    \cup Permutations(Pages) \cup Permutations(Offsets)
=============================================================================
