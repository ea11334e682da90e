------------------------------ MODULE Bootloader ------------------------------
(***************************************************************************)
(* Firmware update of an F0 card over CAN: the card's bootloader           *)
(* (src/f0/app_bootloader/main.c, flash_f0.c) and the host that drives it  *)
(* (common/can_bootloader.c), with cards "that power on and off at         *)
(* variable times" and frames that get lost, arrive late or are strangers. *)
(*                                                                         *)
(* The slot is an array of the chunks the host writes, 64 bytes each;      *)
(* chunk 0 begins with the CRC and the length.  The frames of one command, *)
(* which only ever has one in flight, are abstracted to the outcomes of    *)
(* the exchange.  The CRC is taken to tell a complete image from any other *)
(* content.  The stm32_bootloader_mode of the host, the GET command, which *)
(* changes nothing, and the serial output are left out.                    *)
(***************************************************************************)
EXTENDS Integers, FiniteSets

CONSTANTS
  Pages,      \* pages of the slot
  PerPage,    \* chunks in a page
  OldLen,     \* chunks of the image the card starts with
  NewLen,     \* chunks of the image the host writes
  Writable,   \* chunks inside flash1 of the bootloader's linker script
  Tries,      \* DEFAULT_RETRY_LIMIT
  Conns,      \* attempts of can_bootloader_verify_retry_connection
  MayCut,     \* whether power may fail
  MayLose     \* whether an exchange may lose a frame or meet a strange one

Chunks == 0 .. Pages * PerPage - 1

ASSUME BootloaderAssumption ==
  /\ Pages \in Nat /\ PerPage \in Nat \ {0}
  /\ OldLen \in 1 .. Pages * PerPage
  /\ NewLen \in 2 .. Pages * PerPage
  /\ NewLen \div PerPage < Pages
  /\ Writable \subseteq Chunks
  /\ Tries \in Nat \ {0} /\ Conns \in Nat \ {0}
  /\ MayCut \in BOOLEAN /\ MayLose \in BOOLEAN

VARIABLES
  flash,    \* what each chunk holds: "old", "new", "erased" or "bad"
  node,     \* the card: "off", "boot" (at reset), "listen", "stay" or "app"
  valid,    \* is_firmware_a_valid of can_bootloader_run
  magic,    \* the word above the RAM holds the magic number
  running,  \* the image branched to, "none" otherwise
  ann,      \* an announcement waits in the host's receive FIFO
  phase,    \* how far oresat_firmware_update_m0 is, "idle" outside
  pos,      \* the page or chunk the phase has come to
  tries,    \* failed attempts of the *_reliable function it is in
  conn,     \* "up", or where can_bootloader_verify_retry_connection is
  conns,    \* attempts of that function
  result    \* what the last update returned, "none" before it has

nodeVars == <<node, valid, magic, running>>
hostVars == <<phase, pos, tries, conn, conns, result>>
vars == <<flash, node, valid, magic, running, ann, phase, pos, tries, conn, conns,
          result>>

Contents == {"old", "new", "erased", "bad"}
Working == {"erase", "body", "checkBody", "head", "checkHead", "go"}

Init ==
  /\ flash = [c \in Chunks |-> IF c < OldLen THEN "old" ELSE "erased"]
  /\ node = "off" /\ valid = FALSE /\ magic = FALSE /\ running = "none"
  /\ ann = FALSE
  /\ phase = "idle" /\ pos = 0 /\ tries = 0 /\ conn = "up" /\ conns = 0
  /\ result = "none"

----------------------------------------------------------------------------
(* The card.  A definition called a variant is a plausible mistake in the  *)
(* one after it; nothing uses it but the mutants in PROJECT.json.          *)

Length(v) == IF v = "old" THEN OldLen ELSE NewLen

(* Every chunk of image v is in place. *)
Holds(f, v) == \A c \in 0 .. Length(v) - 1 : f[c] = v

MetaDataValid(f) == f[0] \in {"old", "new"}

(* check_firmware_crc_and_branch. *)
MetaDataOnly(f) == MetaDataValid(f)                 \* variant
FirmwareValid(f) == MetaDataValid(f) /\ Holds(f, f[0])

(* Power comes on; the word above the RAM holds anything. *)
PowerUp ==
  /\ node = "off"
  /\ node' = "boot"
  /\ magic' \in BOOLEAN
  /\ UNCHANGED <<flash, valid, running, ann, hostVars>>

PowerCut ==
  /\ node # "off" /\ MayCut
  /\ node' = "off" /\ running' = "none"
  /\ UNCHANGED <<flash, valid, magic, ann, hostVars>>

(* main, with the magic number of the reset after a successful check. *)
Branch ==
  /\ node = "boot" /\ magic /\ FirmwareValid(flash)
  /\ magic' = FALSE
  /\ node' = "app" /\ running' = flash[0]
  /\ UNCHANGED <<flash, valid, ann, hostVars>>

(* main otherwise: the check, and the announcement of can_bootloader_run,  *)
(* which the host may miss.                                                *)
Listen ==
  /\ node = "boot" /\ ~(magic /\ FirmwareValid(flash))
  /\ magic' = FALSE
  /\ valid' = FirmwareValid(flash)
  /\ node' = "listen"
  /\ ann' \in {ann, TRUE}
  /\ UNCHANGED <<flash, running, hostVars>>

(* Every 5 seconds, if the firmware is not valid. *)
Reannounce ==
  /\ node = "listen" /\ ~valid /\ ~ann
  /\ ann' = TRUE
  /\ UNCHANGED <<flash, nodeVars, hostVars>>

(* main, before it resets the card. *)
ResetMagicInverted == ~valid                        \* variant
ResetMagic == valid

HostWaits == phase = "connect" \/ conn = "initiate"

(* Three seconds without a frame to stay: reset with the magic number.  A  *)
(* host that waits for the announcement answers within that time.          *)
ListenTimeout ==
  /\ node = "listen" /\ valid /\ ~(ann /\ HostWaits)
  /\ magic' = ResetMagic
  /\ node' = "boot"
  /\ UNCHANGED <<flash, valid, running, ann, hostVars>>

PageOf(p) == {c \in Chunks : c \div PerPage = p}

(* What flashPageEraseF091 makes of page p. *)
Erased(p) == [c \in Chunks |-> IF c \in PageOf(p) THEN "erased" ELSE flash[c]]

(* What flashWriteF091 makes of a chunk holding x: a half-word that is not *)
(* erased cannot be programmed, and the failure goes unnoticed.            *)
Programmed(x) ==
  IF x = "erased" THEN {"new"} ELSE IF x = "bad" THEN {"new", "bad"} ELSE {x}

(* What handling the command of phase ph for p may leave in the flash. *)
Effect(ph, p) ==
  IF ph = "erase" THEN {Erased(p)}
  ELSE IF ph \in {"body", "head"} /\ p \in Writable
  THEN {[flash EXCEPT ![p] = x] : x \in Programmed(flash[p])}
  ELSE {flash}

(* ... and what a power loss in the middle of it may leave. *)
Torn(ph, p) ==
  IF ph = "erase"
  THEN {[c \in Chunks |-> IF c \in bad THEN "bad" ELSE IF c \in gone THEN "erased"
                           ELSE flash[c]] :
          bad \in SUBSET PageOf(p), gone \in SUBSET PageOf(p)}
  ELSE IF ph \in {"body", "head"} /\ p \in Writable /\ flash[p] \in {"erased", "bad"}
  THEN {[flash EXCEPT ![p] = "bad"]}
  ELSE {flash}

----------------------------------------------------------------------------
(* The host. *)

FirstZero(ph) == 0                                  \* variant
First(ph) == IF ph \in {"body", "checkBody"} THEN 1 ELSE 0

LastPos(ph) ==
  IF ph = "erase" THEN NewLen \div PerPage
  ELSE IF ph \in {"body", "checkBody"} THEN NewLen - 1 ELSE 0

AfterUnchecked(ph) ==                               \* variant
  CASE ph = "erase" -> "body" [] ph = "body" -> "head"
    [] ph = "head" -> "checkHead" [] OTHER -> "go"
After(ph) ==
  CASE ph = "erase" -> "body" [] ph = "body" -> "checkBody"
    [] ph = "checkBody" -> "head" [] ph = "head" -> "checkHead" [] OTHER -> "go"

(* oresat_firmware_update_m0 goes on to its next page or chunk ... *)
Advance ==
  /\ IF pos < LastPos(phase)
     THEN phase' = phase /\ pos' = pos + 1
     ELSE phase' = After(phase) /\ pos' = First(phase')
  /\ tries' = 0
  /\ UNCHANGED <<conn, conns, result>>

(* ... or returns r. *)
Return(r) ==
  /\ result' = r
  /\ phase' = "idle" /\ pos' = 0 /\ tries' = 0 /\ conn' = "up" /\ conns' = 0

(* The attempt failed: can_bootloader_verify_retry_connection begins. *)
FailAttempt ==
  /\ tries' = tries + 1
  /\ conn' = "check" /\ conns' = 0
  /\ UNCHANGED <<phase, pos, result>>

ReconnectedUnbounded ==                             \* variant
  tries' = 0 /\ conn' = "up" /\ conns' = 0 /\ UNCHANGED <<phase, pos, result>>
ReconnectedUncounted ==                             \* variant
  conn' = "up" /\ conns' = 0 /\ UNCHANGED <<phase, pos, tries, result>>

(* It returned true: the next attempt, or none is left. *)
Reconnected ==
  IF tries = Tries THEN Return("false")
  ELSE conn' = "up" /\ conns' = 0 /\ UNCHANGED <<phase, pos, tries, result>>

Start ==
  /\ phase = "idle"
  /\ ann' = FALSE
  /\ phase' = "connect" /\ result' = "none"
  /\ UNCHANGED <<flash, nodeVars, pos, tries, conn, conns>>

(* can_bootloader_initiate reads an announcement, maybe one of the past,   *)
(* and answers it.                                                         *)
Initiate ==
  /\ HostWaits
  /\ ann
  /\ ann' = FALSE
  /\ node' = IF node = "listen" THEN "stay" ELSE node
  /\ IF phase = "connect"
     THEN phase' = "erase" /\ pos' = 0 /\ UNCHANGED <<tries, conn, conns, result>>
     ELSE Reconnected
  /\ UNCHANGED <<flash, valid, magic, running>>

(* It times out, but not when there is an announcement every 5 seconds and *)
(* it waits 15; or the one frame it reads is another, or its answer fails. *)
InitiateFails ==
  /\ HostWaits
  /\ \/ /\ ~ann /\ (phase = "connect" \/ node # "listen" \/ valid)
        /\ UNCHANGED ann
     \/ MayLose /\ ann' \in {ann, FALSE}
  /\ IF phase = "connect" \/ conns + 1 = Conns
     THEN Return("false")
     ELSE /\ conn' = "check" /\ conns' = conns + 1
          /\ UNCHANGED <<phase, pos, tries, result>>
  /\ UNCHANGED <<flash, nodeVars>>

(* can_bootloader_check_communication: purge, then read something. *)
CheckCommunication ==
  /\ phase \in Working /\ conn = "check"
  /\ ann' = FALSE
  /\ \/ node = "stay" /\ Reconnected
     \/ /\ node # "stay" \/ MayLose
        /\ conn' = "initiate"
        /\ UNCHANGED <<phase, pos, tries, conns, result>>
  /\ UNCHANGED <<flash, nodeVars>>

Exchange == phase \in Working \ {"go"} /\ conn = "up"

Erase ==
  /\ Exchange /\ phase = "erase" /\ node = "stay"
  /\ flash' \in Effect(phase, pos)
  /\ Advance
  /\ UNCHANGED <<nodeVars, ann>>

(* The whole chunk arrives and is programmed, or the address is refused. *)
Write ==
  /\ Exchange /\ phase \in {"body", "head"} /\ node = "stay"
  /\ flash' \in Effect(phase, pos)
  /\ IF pos \in Writable THEN Advance ELSE FailAttempt
  /\ UNCHANGED <<nodeVars, ann>>

(* The chunk is read back; a difference ends the update. *)
Verify ==
  /\ Exchange /\ phase \in {"checkBody", "checkHead"} /\ node = "stay"
  /\ IF flash[pos] = "new" THEN Advance ELSE Return("false")
  /\ UNCHANGED <<flash, nodeVars, ann>>

(* A frame of the exchange is lost, late or strange: the command may have  *)
(* been carried out and the host does not know; a read may look different. *)
ExchangeLost ==
  /\ Exchange /\ node = "stay" /\ MayLose
  /\ flash' \in Effect(phase, pos) \cup {flash}
  /\ FailAttempt \/ (phase \in {"checkBody", "checkHead"} /\ Return("false"))
  /\ UNCHANGED <<nodeVars, ann>>

(* Power fails while the card carries out the command. *)
ExchangeCut ==
  /\ Exchange /\ node = "stay" /\ MayCut
  /\ flash' \in Torn(phase, pos)
  /\ node' = "off"
  /\ FailAttempt
  /\ UNCHANGED <<valid, magic, running, ann>>

(* Nobody answers; an announcement that comes meanwhile is not recognized. *)
NoAnswer ==
  /\ Exchange /\ node # "stay"
  /\ ann' \in {ann, FALSE}
  /\ FailAttempt
  /\ UNCHANGED <<flash, nodeVars>>

(* can_bootloader_go, whose result nobody looks at: the card resets, if    *)
(* the command reaches it.                                                 *)
Go ==
  /\ phase = "go" /\ conn = "up"
  /\ \/ node = "stay" /\ node' = "boot"
     \/ (node # "stay" \/ MayLose) /\ UNCHANGED node
  /\ Return("true")
  /\ UNCHANGED <<flash, valid, magic, running, ann>>

----------------------------------------------------------------------------
NodeNext == PowerUp \/ PowerCut \/ Branch \/ Listen \/ Reannounce \/ ListenTimeout

HostStep == Initiate \/ InitiateFails \/ CheckCommunication \/ Erase \/ Write
            \/ Verify \/ ExchangeLost \/ ExchangeCut \/ NoAnswer \/ Go

Next == NodeNext \/ Start \/ HostStep

(* The host's thread and the powered card run on; nobody has to start an   *)
(* update or to switch the power on.  The host's waits have a deadline,    *)
(* which a card that keeps losing power cannot put off: hence SF.          *)
Fairness == SF_vars(HostStep) /\ WF_vars(Branch \/ Listen \/ Reannounce \/ ListenTimeout)

Spec == Init /\ [][Next]_vars /\ Fairness

----------------------------------------------------------------------------
(* Every variable keeps its type. *)
TypeOK ==
  /\ flash \in [Chunks -> Contents]
  /\ node \in {"off", "boot", "listen", "stay", "app"}
  /\ valid \in BOOLEAN /\ magic \in BOOLEAN /\ ann \in BOOLEAN
  /\ running \in {"none", "old", "new"}
  /\ phase \in Working \cup {"idle", "connect"}
  /\ pos \in 0 .. LastPos(phase)
  /\ tries \in 0 .. Tries
  /\ conn \in {"up", "check", "initiate"} /\ conns \in 0 .. Conns - 1
  /\ result \in {"none", "true", "false"}

(* oresat_firmware_update_m0 returns true only with the whole new image in *)
(* the flash, and it stays there: acknowledgements do not show that a      *)
(* write worked, so this rests on reading everything back                  *)
(* (can_bootloader.c:886, 895).                                            *)
SuccessMeansInstalled == result = "true" => Holds(flash, "new")

(* "Initially skip the meta-data portion so that if the node power cycle   *)
(* mid update, the bootloader will not try to CRC check the whole image"   *)
(* (can_bootloader.c:881): while the body is written and read back, the    *)
(* meta-data are not valid.                                                *)
MetaDataLast == phase \in {"body", "checkBody"} => ~MetaDataValid(flash)

(* The card implements the promise of ImageSlot: it never runs anything    *)
(* but the complete image the flash holds, and the flash changes only      *)
(* while it runs none.                                                     *)
Image ==
  IF Holds(flash, "old") THEN "old" ELSE IF Holds(flash, "new") THEN "new" ELSE "none"
Slot == INSTANCE ImageSlot WITH
          Old <- "old", New <- "new", None <- "none", image <- Image, run <- running
SlotSafe == Slot!Spec

(* An update comes to an end, however often the exchanges fail: the retry  *)
(* loops are bounded, and the wait for an announcement ends.               *)
UpdateReturns == phase # "idle" ~> phase = "idle"

(* Whatever the bus and the card do, each step of the host brings the      *)
(* update nearer to its end: a later phase, a later page or chunk, one     *)
(* attempt less of the *_reliable function, or one step less of            *)
(* can_bootloader_verify_retry_connection; and nothing else moves it.  A   *)
(* retry that forgot what it had used up would go on for ever with a dead  *)
(* card.                                                                   *)
Ahead(ph) ==
  CASE ph = "connect" -> {"idle", "erase"}
    [] ph = "idle" -> {}
    [] OTHER -> {"idle", After(ph)}

ConnectionLeft ==
  IF conn = "up" THEN 0 ELSE 2 * (Conns - conns) - (IF conn = "initiate" THEN 1 ELSE 0)

Nearer ==
  \/ phase' # phase /\ phase' \in Ahead(phase)
  \/ phase' = phase /\ pos' > pos
  \/ UNCHANGED <<phase, pos>> /\ tries' > tries
  \/ UNCHANGED <<phase, pos, tries>> /\ ConnectionLeft' < ConnectionLeft

UpdateShrinks ==
  [][(HostStep => Nearer) /\ (~ HostStep /\ phase # "idle" => UNCHANGED hostVars)]_vars

(* A powered card with a complete image starts it unless a host holds it   *)
(* in the bootloader (main.c:504).                                         *)
CompleteRuns ==
  (node \in {"boot", "listen"} /\ FirmwareValid(flash) /\ (node = "listen" => valid))
    ~> (node \in {"app", "stay", "off"})

(* Once the card is in the bootloader and power and bus hold, the update   *)
(* succeeds.                                                               *)
Succeeds == (phase = "erase" /\ node = "stay") ~> result = "true"
==============================================================================
