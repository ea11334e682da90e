---------------------------- MODULE MCBootloader ----------------------------
(* Instances of Bootloader for TLC: the whole slot writable, and the slot   *)
(* without its first chunks, as flash1 of the linker script begins 1 KiB    *)
(* behind the image's meta-data.                                            *)
EXTENDS Bootloader

MCAll == Chunks
MCLinked == Chunks \ {0, 1}
==============================================================================
