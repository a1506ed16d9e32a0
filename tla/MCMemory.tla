------------------------------ MODULE MCMemory ------------------------------
(* A memory of ten pages of four bytes, and maps whose entries are unaligned, *)
(* overlap, wrap around the word, or cannot be read.                          *)
EXTENDS Memory

E820(base, length, type) == [base |-> base, length |-> length, type |-> type]

MCMaps ==
  { << >>,
    << E820(0, 40, "ram") >>,
    << E820(0, 4, "ram"), E820(9, 22, "ram"), E820(31, 32, "ram") >>,
    << E820(8, 55, "ram"), E820(33, 2, "other"), E820(27, 1, "other") >>,
    << E820(35, 60, "other"), E820(17, 0, "other"), E820(0, 63, "ram"), E820(44, 8, "other") >>,
    << E820(8, 32, "ram"), E820(8, 8, "bad"), E820(20, 4, "other") >>,
    << E820(8, 9, "ram"), E820(18, 5, "ram"), E820(50, 9, "ram") >> }

\* The loader's range, the kernel's image, the boot stack, and an empty range.
MCReserved == { <<8, 12>>, <<12, 14>>, <<26, 28>>, <<6, 6>> }
=============================================================================
