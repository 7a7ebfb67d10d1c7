-------------------------------- MODULE Bits --------------------------------
(***************************************************************************)
(* The bit helpers of ymirc/bits.h that the interrupt path uses.           *)
(***************************************************************************)
EXTENDS Integers

Byte == 0 .. 255

\* isset_8 and isset_16 differ only in the width beyond which no bit is set.
isset(val, nth, width) == nth < width /\ (val \div (2 ^ nth)) % 2 = 1

isset_8(val, nth) == isset(val, nth, 8)
isset_16(val, nth) == isset(val, nth, 16)

=============================================================================
