------------------------- MODULE MCDiskPersistence -------------------------
(* DiskPersistence with two images and two writes.  The images are symmetric: *)
(* no definition tells one from the other.                                    *)
EXTENDS DiskPersistence, TLC
ImageSymmetry == Permutations(Files)
=============================================================================
