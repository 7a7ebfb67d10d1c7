--------------------------- MODULE MCBinAllocator ---------------------------
(***************************************************************************)
(* A small instance of BinAllocator.                                       *)
(***************************************************************************)
EXTENDS BinAllocator

MCBinSizes == <<1, 2>>

=============================================================================
