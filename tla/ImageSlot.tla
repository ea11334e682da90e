------------------------------ MODULE ImageSlot ------------------------------
(***************************************************************************)
(* What the bootloader of an F0 card promises of the one firmware slot it  *)
(* manages, whatever happens on the bus and whenever power fails: the slot *)
(* holds the old image, no image or the new one, it changes only while no  *)
(* application runs, the new image never replaces the old one in one step, *)
(* and what the card runs is the image the slot holds.                     *)
(***************************************************************************)
CONSTANTS Old, New, None

VARIABLES
  image,  \* the complete image in the slot, None if there is none
  run     \* the image the card runs, None while it runs the bootloader

Init ==
  /\ image \in {Old, None}
  /\ run = None

(* An erase or a write that leaves the slot without a complete image. *)
Spoil ==
  /\ run = None
  /\ image' = None
  /\ UNCHANGED run

(* The write that completes the new image. *)
Install ==
  /\ run = None /\ image = None
  /\ image' = New
  /\ UNCHANGED run

Launch ==
  /\ run = None /\ image # None
  /\ run' = image
  /\ UNCHANGED image

Halt ==
  /\ run' = None
  /\ UNCHANGED image

Next == Spoil \/ Install \/ Launch \/ Halt

Spec == Init /\ [][Next]_<<image, run>>
==============================================================================
