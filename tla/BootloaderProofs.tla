--------------------------- MODULE BootloaderProofs ---------------------------
(***************************************************************************)
(* Theorems about Bootloader, for slots and images of any size, any layout *)
(* of the writable flash, any number of updates, power losses and lost     *)
(* frames: what a returned success means, that the meta-data come last,    *)
(* and that the card implements ImageSlot.                                 *)
(***************************************************************************)
EXTENDS Bootloader, TLAPS

(* The host's bookkeeping outside an update, and its retries. *)
HostOK ==
  /\ phase \notin Working => pos = 0 /\ tries = 0 /\ conn = "up" /\ conns = 0
  /\ conn = "up" => tries < Tries

(* The card runs nothing, or the complete image that begins with chunk 0.  *)
RunningOK ==
  IF node = "app"
  THEN running \in {"old", "new"} /\ Holds(flash, running)
  ELSE running = "none"

(* What the flash holds for certain in each phase of an update. *)
PhaseOK ==
  /\ phase = "erase" /\ pos > 0 => flash[0] = "erased"
  /\ phase \in {"body", "checkBody"} => pos > 0 /\ flash[0] = "erased"
  /\ phase = "checkBody" => \A c \in 1 .. pos - 1 : flash[c] = "new"
  /\ phase \in {"head", "checkHead", "go"} =>
       \A c \in 1 .. NewLen - 1 : flash[c] = "new"
  /\ phase = "go" => flash[0] = "new"
  /\ result = "true" => phase = "idle" /\ Holds(flash, "new")

(* The inductive invariant.  SuccessMeansInstalled needs to know what was  *)
(* read back, phase by phase, and that nothing was written since.          *)
IInv == TypeOK /\ HostOK /\ RunningOK /\ PhaseOK

(* The constants' types, one by one. *)
LEMMA ConstTypes ==
  /\ Pages \in Nat /\ PerPage \in Nat /\ PerPage > 0
  /\ OldLen \in Nat /\ OldLen > 0 /\ NewLen \in Nat /\ NewLen > 1
  /\ Tries \in Nat /\ Tries > 0 /\ Conns \in Nat /\ Conns > 0
  /\ NewLen \div PerPage \in Nat
  /\ 0 \div PerPage = 0
  /\ 0 .. OldLen - 1 \subseteq Chunks /\ 0 .. NewLen - 1 \subseteq Chunks
<1>1. Pages \in Nat /\ PerPage \in Nat /\ PerPage > 0
  BY BootloaderAssumption
<1>2. Pages * PerPage \in Nat
  BY <1>1
<1>3. 0 \div PerPage = 0
  BY <1>1
<1>4. NewLen \div PerPage \in Nat
  BY <1>1, <1>2, BootloaderAssumption
<1>5. QED
  BY <1>1, <1>2, <1>3, <1>4, BootloaderAssumption DEF Chunks

(* Chunk 0 lies in page 0 and in no other. *)
LEMMA HeadPage ==
  0 \in Chunks /\ 0 \in PageOf(0) /\ \A p \in Nat \ {0} : 0 \notin PageOf(p)
BY ConstTypes DEF PageOf

(* Where an update can be. *)
LEMMA PosRange ==
  /\ LastPos("erase") = NewLen \div PerPage
  /\ LastPos("body") = NewLen - 1 /\ LastPos("checkBody") = NewLen - 1
  /\ LastPos("head") = 0 /\ LastPos("checkHead") = 0 /\ LastPos("go") = 0
  /\ LastPos("idle") = 0 /\ LastPos("connect") = 0
  /\ First("erase") = 0 /\ First("body") = 1 /\ First("checkBody") = 1
  /\ First("head") = 0 /\ First("checkHead") = 0 /\ First("go") = 0
  /\ After("erase") = "body" /\ After("body") = "checkBody"
  /\ After("checkBody") = "head" /\ After("head") = "checkHead"
  /\ After("checkHead") = "go"
BY DEF LastPos, First, After

(* How a command that is carried out, lost or cut off may change the flash. *)
Change == flash' \in Effect(phase, pos) \cup Torn(phase, pos) \cup {flash}

(* It never brings the old image back, nor writes over it; what it erases  *)
(* is one page, what it writes is one chunk, and reading changes nothing.  *)
LEMMA ChangeFacts ==
  ASSUME TypeOK, Change
  PROVE  /\ flash' \in [Chunks -> Contents]
         /\ \A c \in Chunks : flash'[c] = "old" => flash[c] = "old"
         /\ \A c \in Chunks : flash[c] = "old" => flash'[c] # "new"
         /\ phase = "erase" =>
              /\ \A c \in Chunks \ PageOf(pos) : flash'[c] = flash[c]
              /\ \A c \in Chunks : flash'[c] \in {flash[c], "erased", "bad"}
         /\ phase \in {"body", "head"} =>
              \A c \in Chunks \ {pos} : flash'[c] = flash[c]
         /\ phase \notin {"erase", "body", "head"} => flash' = flash
<1>1. flash \in [Chunks -> Contents]
  BY DEF TypeOK
<1>2. CASE phase = "erase"
  <2>1. \A c \in Chunks : flash'[c] \in {flash[c], "erased", "bad"}
    BY <1>1, <1>2 DEF Change, Effect, Torn, Erased
  <2>2. flash' \in [Chunks -> Contents]
    BY <1>1, <1>2 DEF Change, Effect, Torn, Erased, Contents
  <2>3. \A c \in Chunks \ PageOf(pos) : flash'[c] = flash[c]
    BY <1>1, <1>2 DEF Change, Effect, Torn, Erased
  <2>4. QED
    BY <1>2, <2>1, <2>2, <2>3
<1>3. CASE phase \in {"body", "head"}
  <2>1. PICK x \in Contents :
          /\ flash' = flash \/ flash' = [flash EXCEPT ![pos] = x]
          /\ x = "old" => flash[pos] = "old"
          /\ x = "new" => flash[pos] # "old"
    BY <1>1, <1>3 DEF Change, Effect, Torn, Programmed, Contents
  <2>2. QED
    BY <1>1, <1>3, <2>1
<1>4. CASE phase \notin {"erase", "body", "head"}
  BY <1>1, <1>4 DEF Change, Effect, Torn
<1>5. QED
  BY <1>2, <1>3, <1>4

(* The two images differ in their first chunk. *)
LEMMA HoldsHead ==
  ASSUME NEW f, NEW v \in {"old", "new"}, Holds(f, v)
  PROVE  f[0] = v
BY ConstTypes DEF Holds, Length

(* So a command leaves the image alone, destroys it or completes the new   *)
(* one where there was none.                                               *)
LEMMA ChangeImage ==
  ASSUME TypeOK, Change
  PROVE  Image' = Image \/ Image' = "none" \/ (Image = "none" /\ Image' = "new")
<1>1. Holds(flash', "old") => Holds(flash, "old")
  BY ChangeFacts, ConstTypes DEF Holds, Length
<1>2. ~(Holds(flash, "old") /\ Holds(flash', "new"))
  BY ChangeFacts, HoldsHead, HeadPage
<1>3. QED
  BY <1>1, <1>2 DEF Image

(* The first chunk survives the commands of the later phases. *)
LEMMA ChangeHead ==
  ASSUME TypeOK, HostOK, PhaseOK, Change
  PROVE  /\ phase = "erase" /\ pos > 0 => flash'[0] = "erased"
         /\ phase \in {"body", "checkBody"} => flash'[0] = "erased"
BY ChangeFacts, HeadPage DEF PhaseOK, TypeOK

(* The host's part of the type invariant. *)
HostType ==
  /\ phase \in Working \cup {"idle", "connect"}
  /\ pos \in 0 .. LastPos(phase)
  /\ tries \in 0 .. Tries
  /\ conn \in {"up", "check", "initiate"} /\ conns \in 0 .. Conns - 1
  /\ result \in {"none", "true", "false"}

(* Going on to the next page, chunk or phase. *)
LEMMA AdvanceHost ==
  ASSUME TypeOK, HostOK, Exchange, Advance
  PROVE  /\ HostType' /\ HostOK'
         /\ \/ phase' = phase /\ pos' = pos + 1 /\ pos < LastPos(phase)
            \/ phase' = After(phase) /\ pos' = First(After(phase)) /\ pos = LastPos(phase)
         /\ result' = result
<1>1. pos \in 0 .. LastPos(phase) /\ LastPos(phase) \in Nat
  BY ConstTypes DEF TypeOK, LastPos
<1>2. CASE pos < LastPos(phase)
  BY <1>1, <1>2, ConstTypes DEF Advance, Exchange, HostType, HostOK, TypeOK, Working
<1>3. CASE ~(pos < LastPos(phase))
  <2>1. phase' = After(phase) /\ pos' = First(phase') /\ pos = LastPos(phase)
    BY <1>1, <1>3 DEF Advance
  <2>2. After(phase) \in Working
    BY PosRange DEF Exchange, Working
  <2>3. First(After(phase)) \in 0 .. LastPos(After(phase))
    BY PosRange, ConstTypes DEF Exchange, Working
  <2>4. QED
    BY <1>3, <2>1, <2>2, <2>3, ConstTypes
       DEF Advance, Exchange, HostType, HostOK, TypeOK, Working
<1>4. QED
  BY <1>2, <1>3

(* Leaving oresat_firmware_update_m0. *)
LEMMA ReturnHost ==
  ASSUME NEW r \in {"true", "false"}, Return(r)
  PROVE  HostType' /\ HostOK'
BY ConstTypes, PosRange DEF Return, HostType, HostOK, Working

(* A failed attempt, as long as one is allowed. *)
LEMMA FailHost ==
  ASSUME TypeOK, HostOK, Exchange, FailAttempt
  PROVE  HostType' /\ HostOK'
BY ConstTypes DEF TypeOK, HostOK, Exchange, FailAttempt, HostType

(* Back from can_bootloader_verify_retry_connection. *)
LEMMA ReconnectedHost ==
  ASSUME TypeOK, HostOK, phase \in Working, Reconnected
  PROVE  /\ HostType' /\ HostOK'
         /\ Return("false") \/ UNCHANGED <<phase, pos, result>>
BY ConstTypes, ReturnHost DEF TypeOK, HostOK, Reconnected, HostType

(* The flash and the host's place unchanged keep what is known of them;    *)
(* an update that fails leaves nothing to know.                            *)
LEMMA SamePlace ==
  ASSUME PhaseOK, flash' = flash, UNCHANGED <<phase, pos, result>>
  PROVE  PhaseOK'
BY DEF PhaseOK, Holds

LEMMA Failed ==
  ASSUME Return("false")
  PROVE  PhaseOK'
BY DEF PhaseOK, Return

(* A command while the card stays in its bootloader keeps RunningOK.       *)
LEMMA NotRunning ==
  ASSUME RunningOK, node # "app", node' # "app", UNCHANGED running
  PROVE  RunningOK'
BY DEF RunningOK

(* The card's own steps. *)
LEMMA NodeIInv ==
  ASSUME IInv, NodeNext
  PROVE  IInv'
<1>1. flash' = flash /\ UNCHANGED hostVars
  BY DEF NodeNext, PowerUp, PowerCut, Branch, Listen, Reannounce, ListenTimeout, nodeVars
<1>2. TypeOK'
  <2>1. FirmwareValid(flash) \in BOOLEAN
    BY DEF FirmwareValid, MetaDataValid, Holds
  <2>2. HostType'
    BY <1>1 DEF IInv, TypeOK, HostType, hostVars, LastPos
  <2>3. flash' \in [Chunks -> Contents]
    BY <1>1 DEF IInv, TypeOK
  <2>4. /\ node' \in {"off", "boot", "listen", "stay", "app"}
        /\ valid' \in BOOLEAN /\ magic' \in BOOLEAN /\ ann' \in BOOLEAN
        /\ running' \in {"none", "old", "new"}
    BY <2>1 DEF IInv, TypeOK, NodeNext, PowerUp, PowerCut, Branch, Listen, Reannounce,
       ListenTimeout, nodeVars, MetaDataValid, FirmwareValid, ResetMagic
  <2>5. QED
    BY <2>2, <2>3, <2>4 DEF TypeOK, HostType
<1>3. HostOK' /\ PhaseOK'
  BY <1>1 DEF IInv, HostOK, PhaseOK, Holds, hostVars
<1>4. RunningOK'
  BY <1>1 DEF IInv, RunningOK, NodeNext, PowerUp, PowerCut, Branch, Listen, Reannounce,
     ListenTimeout, nodeVars, FirmwareValid, MetaDataValid, Holds
<1>5. QED
  BY <1>2, <1>3, <1>4 DEF IInv

(* Starting an update, connecting and waiting leave the flash alone.       *)
LEMMA ConnectIInv ==
  ASSUME IInv, Start \/ Initiate \/ InitiateFails \/ CheckCommunication \/ NoAnswer
  PROVE  IInv'
<1>1. /\ flash' = flash /\ UNCHANGED <<valid, magic, running>> /\ ann' \in BOOLEAN
      /\ node' = node \/ (node = "listen" /\ node' = "stay")
  BY DEF Start, Initiate, InitiateFails, CheckCommunication, NoAnswer, nodeVars, IInv, TypeOK
<1>2. HostType' /\ HostOK' /\ PhaseOK'
  <2>1. CASE Start
    BY <2>1, ConstTypes, PosRange
       DEF Start, IInv, TypeOK, HostOK, PhaseOK, HostType, Holds, Working
  <2>2. CASE Initiate
    <3>1. CASE phase = "connect"
      BY <2>2, <3>1, ConstTypes, PosRange
         DEF Initiate, IInv, TypeOK, HostOK, PhaseOK, HostType, Holds, Working
    <3>2. CASE phase # "connect"
      <4>1. phase \in Working /\ Reconnected
        BY <2>2, <3>2 DEF Initiate, HostWaits, IInv, TypeOK, HostOK
      <4>2. QED
        BY <4>1, <1>1, ReconnectedHost, SamePlace, Failed DEF IInv
    <3>3. QED
      BY <3>1, <3>2
  <2>3. CASE InitiateFails
    <3>1. CASE phase = "connect" \/ conns + 1 = Conns
      <4>1. Return("false")
        BY <2>3, <3>1 DEF InitiateFails
      <4>2. QED
        BY <4>1, ReturnHost, Failed
    <3>2. CASE ~(phase = "connect" \/ conns + 1 = Conns)
      BY <1>1, <2>3, <3>2, ConstTypes, SamePlace
         DEF InitiateFails, HostWaits, IInv, TypeOK, HostOK, HostType, Working
    <3>3. QED
      BY <3>1, <3>2
  <2>4. CASE CheckCommunication
    <3>1. CASE Reconnected
      BY <1>1, <2>4, <3>1, ReconnectedHost, SamePlace, Failed DEF IInv, CheckCommunication
    <3>2. CASE ~Reconnected
      BY <1>1, <2>4, <3>2, SamePlace
         DEF CheckCommunication, IInv, TypeOK, HostOK, HostType, Working
    <3>3. QED
      BY <3>1, <3>2
  <2>5. CASE NoAnswer
    <3>1. FailAttempt /\ Exchange
      BY <2>5 DEF NoAnswer
    <3>2. QED
      BY <1>1, <3>1, FailHost, SamePlace DEF IInv, FailAttempt
  <2>6. QED
    BY <2>1, <2>2, <2>3, <2>4, <2>5
<1>3. TypeOK'
  BY <1>1, <1>2 DEF IInv, TypeOK, HostType
<1>4. RunningOK'
  BY <1>1 DEF IInv, RunningOK, Holds
<1>5. QED
  BY <1>2, <1>3, <1>4 DEF IInv

(* A command that fails, lost or cut off: what is known of the flash stays *)
(* true whatever it did.                                                   *)
LEMMA FailedExchange ==
  ASSUME IInv, Exchange, Change, FailAttempt
  PROVE  PhaseOK'
<1>1. /\ phase' = phase /\ pos' = pos /\ result' = result
      /\ phase \in Working \ {"go"} /\ result # "true"
  BY DEF FailAttempt, Exchange, IInv, PhaseOK, Working
<1>2. phase \in {"head", "checkHead"} =>
        \A c \in 1 .. NewLen - 1 : flash'[c] = "new"
  <2>1. phase \in {"head", "checkHead"} => pos = 0
    BY PosRange DEF IInv, TypeOK
  <2>2. QED
    BY <2>1, ChangeFacts, ConstTypes DEF IInv, PhaseOK
<1>3. QED
  BY <1>1, <1>2, ChangeHead, ChangeFacts DEF IInv, PhaseOK, Working

(* A command the card carries out before it acknowledges it. *)
LEMMA AdvanceExchange ==
  ASSUME IInv, Exchange, Advance, Change,
         phase = "erase" /\ pos = 0 => flash'[0] = "erased",
         phase \in {"checkBody", "checkHead"} => flash[pos] = "new"
  PROVE  PhaseOK'
<1>1. /\ TypeOK /\ HostOK /\ PhaseOK
      /\ pos \in 0 .. LastPos(phase) /\ LastPos(phase) \in Nat
      /\ phase \in {"erase", "body", "checkBody", "head", "checkHead"}
      /\ result' = result /\ result # "true"
  BY ConstTypes DEF IInv, TypeOK, Exchange, Working, LastPos, PhaseOK, Advance
<1>2. CASE phase = "erase"
  <2>1. flash'[0] = "erased"
    BY <1>1, <1>2, ChangeHead
  <2>2. \/ phase' = "erase"
        \/ phase' = "body" /\ pos' = 1
    BY <1>1, <1>2, AdvanceHost, PosRange
  <2>3. QED
    BY <1>1, <2>1, <2>2 DEF PhaseOK
<1>3. CASE phase = "body"
  <2>1. flash'[0] = "erased" /\ pos > 0
    BY <1>1, <1>3, ChangeHead DEF PhaseOK
  <2>2. \/ phase' = "body" /\ pos' = pos + 1
        \/ phase' = "checkBody" /\ pos' = 1
    BY <1>1, <1>3, AdvanceHost, PosRange
  <2>3. QED
    BY <1>1, <2>1, <2>2 DEF PhaseOK
<1>4. CASE phase = "checkBody"
  <2>1. flash' = flash /\ flash[0] = "erased" /\ pos > 0
    BY <1>1, <1>4, ChangeFacts DEF PhaseOK
  <2>2. \A c \in 1 .. pos : flash'[c] = "new"
    BY <1>1, <1>4, <2>1 DEF PhaseOK
  <2>3. CASE phase' = "checkBody" /\ pos' = pos + 1
    BY <1>1, <2>1, <2>2, <2>3 DEF PhaseOK
  <2>4. CASE phase' = "head" /\ pos = NewLen - 1
    BY <1>1, <2>2, <2>4 DEF PhaseOK
  <2>5. QED
    BY <1>1, <1>4, <2>3, <2>4, AdvanceHost, PosRange
<1>5. CASE phase \in {"head", "checkHead"}
  <2>1. pos = 0 /\ phase' = After(phase)
    BY <1>1, <1>5, AdvanceHost, PosRange
  <2>2. \A c \in 1 .. NewLen - 1 : flash'[c] = "new"
    BY <1>1, <1>5, <2>1, ChangeFacts, ConstTypes DEF PhaseOK
  <2>3. phase = "checkHead" => flash'[0] = "new"
    BY <1>1, <2>1, ChangeFacts
  <2>4. phase' \in {"checkHead", "go"} /\ (phase' = "go" => phase = "checkHead")
    BY <1>5, <2>1, PosRange
  <2>5. QED
    BY <1>1, <2>2, <2>3, <2>4 DEF PhaseOK
<1>6. QED
  BY <1>1, <1>2, <1>3, <1>4, <1>5

(* Every command the card takes part in. *)
LEMMA ExchangeIInv ==
  ASSUME IInv, Erase \/ Write \/ Verify \/ ExchangeLost \/ ExchangeCut
  PROVE  IInv'
<1>1. /\ Exchange /\ Change /\ node = "stay" /\ node' \in {"stay", "off"}
      /\ UNCHANGED <<valid, magic, running, ann>>
  BY DEF Erase, Write, Verify, ExchangeLost, ExchangeCut, Change, nodeVars
<1>2. TypeOK /\ HostOK /\ RunningOK /\ PhaseOK
  BY DEF IInv
<1>3. \/ Advance /\ (Erase \/ Write \/ Verify)
      \/ FailAttempt
      \/ Return("false")
  BY DEF Erase, Write, Verify, ExchangeLost, ExchangeCut
<1>4. HostType' /\ HostOK' /\ PhaseOK'
  <2>1. CASE Advance /\ (Erase \/ Write \/ Verify)
    <3>1. phase = "erase" /\ pos = 0 => flash'[0] = "erased"
      BY <2>1, HeadPage DEF Erase, Write, Verify, Effect, Erased
    <3>2. phase \in {"checkBody", "checkHead"} => flash[pos] = "new"
      <4>1. CASE Verify /\ flash[pos] # "new"
        <5>1. phase' = "idle"
          BY <4>1 DEF Verify, Return
        <5>2. phase' \in Working
          BY <1>1, <1>2, <2>1, AdvanceHost, PosRange DEF Exchange, Working
        <5>3. QED
          BY <5>1, <5>2 DEF Working
      <4>2. CASE ~(Verify /\ flash[pos] # "new")
        BY <2>1, <4>2 DEF Erase, Write
      <4>3. QED
        BY <4>1, <4>2
    <3>3. QED
      BY <1>1, <1>2, <2>1, <3>1, <3>2, AdvanceHost, AdvanceExchange
  <2>2. CASE FailAttempt
    BY <1>1, <1>2, <2>2, FailHost, FailedExchange
  <2>3. CASE Return("false")
    BY <2>3, ReturnHost, Failed
  <2>4. QED
    BY <1>3, <2>1, <2>2, <2>3
<1>5. TypeOK'
  BY <1>1, <1>2, <1>4, ChangeFacts DEF TypeOK, HostType
<1>6. RunningOK'
  BY <1>1, <1>2, NotRunning
<1>7. QED
  BY <1>4, <1>5, <1>6 DEF IInv

(* The end of an update. *)
LEMMA GoIInv ==
  ASSUME IInv, Go
  PROVE  IInv'
<1>1. /\ Return("true") /\ flash' = flash /\ UNCHANGED <<valid, magic, running, ann>>
      /\ node' = node \/ (node = "stay" /\ node' = "boot")
  BY DEF Go
<1>2. HostType' /\ HostOK'
  BY <1>1, ReturnHost
<1>3. TypeOK'
  BY <1>1, <1>2 DEF IInv, TypeOK, HostType
<1>4. RunningOK'
  BY <1>1 DEF IInv, RunningOK, Holds
<1>5. Holds(flash, "new")
  BY ConstTypes DEF IInv, PhaseOK, Go, Holds, Length
<1>6. PhaseOK'
  BY <1>1, <1>5 DEF PhaseOK, Return, Holds
<1>7. QED
  BY <1>2, <1>3, <1>4, <1>6 DEF IInv

LEMMA InitIInv == Init => IInv
<1>1. SUFFICES ASSUME Init PROVE IInv
  OBVIOUS
<1>2. TypeOK
  <2>1. flash \in [Chunks -> Contents]
    BY <1>1 DEF Init, Contents
  <2>2. HostType
    BY <1>1, ConstTypes, PosRange DEF Init, HostType
  <2>3. QED
    BY <1>1, <2>1, <2>2 DEF Init, TypeOK, HostType
<1>3. HostOK /\ RunningOK /\ PhaseOK
  BY <1>1, ConstTypes DEF Init, HostOK, RunningOK, PhaseOK, Working
<1>4. QED
  BY <1>2, <1>3 DEF IInv

LEMMA StepIInv == IInv /\ [Next]_vars => IInv'
<1>1. SUFFICES ASSUME IInv, [Next]_vars PROVE IInv'
  OBVIOUS
<1>2. CASE UNCHANGED vars
  BY <1>1, <1>2 DEF vars, IInv, TypeOK, HostOK, RunningOK, PhaseOK, Holds, LastPos
<1>3. CASE NodeNext
  BY <1>1, <1>3, NodeIInv
<1>4. CASE Start \/ Initiate \/ InitiateFails \/ CheckCommunication \/ NoAnswer
  BY <1>1, <1>4, ConnectIInv
<1>5. CASE Erase \/ Write \/ Verify \/ ExchangeLost \/ ExchangeCut
  BY <1>1, <1>5, ExchangeIInv
<1>6. CASE Go
  BY <1>1, <1>6, GoIInv
<1>7. QED
  BY <1>1, <1>2, <1>3, <1>4, <1>5, <1>6 DEF Next, HostStep

(* Every reachable state satisfies the inductive invariant. *)
THEOREM BootloaderInvariant == Spec => []IInv
BY InitIInv, StepIInv, PTL DEF Spec

(* Every variable keeps its type: in particular an update never leaves the *)
(* slot, nor makes more attempts than DEFAULT_RETRY_LIMIT.                 *)
THEOREM BootloaderTypes == Spec => []TypeOK
<1>1. IInv => TypeOK
  BY DEF IInv
<1>2. QED
  BY <1>1, BootloaderInvariant, PTL

(* An update that reports success has left the whole new image in the      *)
(* flash, and as long as the result stands it is still there: the card     *)
(* cannot lose power, or the bus a frame, at a moment that breaks this.    *)
THEOREM BootloaderSuccess == Spec => []SuccessMeansInstalled
<1>1. IInv => SuccessMeansInstalled
  BY DEF IInv, PhaseOK, SuccessMeansInstalled
<1>2. QED
  BY <1>1, BootloaderInvariant, PTL

(* While the body is written and read back the meta-data are not valid, so *)
(* that a card which loses power then does not even check the image.       *)
THEOREM BootloaderMetaDataLast == Spec => []MetaDataLast
<1>1. IInv => MetaDataLast
  BY DEF IInv, PhaseOK, MetaDataLast, MetaDataValid
<1>2. QED
  BY <1>1, BootloaderInvariant, PTL

(* Each step of the card and the host is a step of ImageSlot, or none.     *)
LEMMA SlotInit == Init => Slot!Init
<1>1. SUFFICES ASSUME Init PROVE Slot!Init
  OBVIOUS
<1>2. Holds(flash, "old")
  BY <1>1, ConstTypes DEF Init, Holds, Length
<1>3. QED
  BY <1>1, <1>2 DEF Init, Slot!Init, Image

LEMMA SlotStep == IInv /\ [Next]_vars => [Slot!Next]_<<Image, running>>
<1>1. SUFFICES ASSUME IInv, [Next]_vars PROVE [Slot!Next]_<<Image, running>>
  OBVIOUS
<1>2. CASE flash' = flash /\ running' = running
  BY <1>2 DEF Image, Holds
<1>3. CASE Erase \/ Write \/ Verify \/ ExchangeLost \/ ExchangeCut
  <2>1. Change /\ running = "none" /\ running' = running
    BY <1>1, <1>3 DEF Erase, Write, Verify, ExchangeLost, ExchangeCut, Change, nodeVars,
       IInv, RunningOK
  <2>2. \/ Image' = Image
        \/ Image' = "none"
        \/ Image = "none" /\ Image' = "new"
    BY <1>1, <2>1, ChangeImage DEF IInv
  <2>3. QED
    BY <2>1, <2>2 DEF Slot!Next, Slot!Spoil, Slot!Install
<1>4. CASE PowerCut
  <2>1. Image' = Image /\ running' = "none"
    BY <1>4 DEF PowerCut, Image, Holds
  <2>2. QED
    BY <2>1 DEF Slot!Next, Slot!Halt
<1>5. CASE Branch
  <2>1. /\ Image' = Image /\ running' = flash[0] /\ running = "none"
        /\ flash[0] \in {"old", "new"} /\ Holds(flash, flash[0])
    BY <1>1, <1>5 DEF Branch, Image, Holds, FirmwareValid, MetaDataValid, IInv, RunningOK
  <2>2. Image = flash[0]
    BY <2>1, HoldsHead DEF Image
  <2>3. QED
    BY <2>1, <2>2 DEF Slot!Next, Slot!Launch
<1>6. QED
  BY <1>1, <1>2, <1>3, <1>4, <1>5
     DEF Next, NodeNext, HostStep, vars, nodeVars, PowerUp, Listen, Reannounce,
         ListenTimeout, Start, Initiate, InitiateFails, CheckCommunication, NoAnswer, Go

(* The card implements ImageSlot: it never runs anything but the complete  *)
(* image that the flash holds, the flash changes only while it runs none,  *)
(* and the new image takes the place of no image, whenever power fails.    *)
THEOREM BootloaderImplementsImageSlot == Spec => SlotSafe
<1>1. Spec => Slot!Init /\ [][Slot!Next]_<<Image, running>>
  BY SlotInit, SlotStep, BootloaderInvariant, PTL DEF Spec
<1>2. QED
  BY <1>1 DEF SlotSafe, Slot!Spec

(* Each move of the host, by itself, is nearer to the end. *)
LEMMA AdvanceNearer ==
  ASSUME TypeOK, HostOK, Exchange, Advance
  PROVE  Nearer
<1>1. CASE pos < LastPos(phase)
  <2>1. phase' = phase /\ pos' = pos + 1 /\ pos \in Int
    BY <1>1 DEF Advance, TypeOK
  <2>2. QED
    BY <2>1 DEF Nearer
<1>2. CASE ~(pos < LastPos(phase))
  <2>1. phase' = After(phase) /\ phase \notin {"connect", "idle"}
    BY <1>2 DEF Advance, Exchange, Working
  <2>2. After(phase) # phase
    BY PosRange DEF Exchange, Working
  <2>3. QED
    BY <2>1, <2>2 DEF Nearer, Ahead
<1>3. QED
  BY <1>1, <1>2

LEMMA ReturnNearer ==
  ASSUME NEW r, Return(r), phase # "idle"
  PROVE  Nearer
BY DEF Return, Nearer, Ahead

LEMMA FailNearer ==
  ASSUME TypeOK, FailAttempt
  PROVE  Nearer
<1>1. tries \in Int /\ tries' = tries + 1 /\ UNCHANGED <<phase, pos>>
  BY ConstTypes DEF TypeOK, FailAttempt
<1>2. QED
  BY <1>1 DEF Nearer

(* The connection is verified in a bounded number of steps. *)
LEMMA ReconnectedNearer ==
  ASSUME TypeOK, phase \in Working, conn # "up", Reconnected
  PROVE  Nearer
<1>1. CASE tries = Tries
  BY <1>1, ReturnNearer DEF Reconnected, Working
<1>2. CASE tries # Tries
  <2>1. UNCHANGED <<phase, pos, tries>> /\ conn' = "up" /\ conns' = 0
    BY <1>2 DEF Reconnected
  <2>2. ConnectionLeft' = 0
    BY <2>1 DEF ConnectionLeft
  <2>3. ConnectionLeft > 0
    BY ConstTypes DEF ConnectionLeft, TypeOK
  <2>4. QED
    BY <2>1, <2>2, <2>3 DEF Nearer
<1>3. QED
  BY <1>1, <1>2

LEMMA InitiateFailsNearer ==
  ASSUME TypeOK, HostOK, InitiateFails
  PROVE  Nearer
<1>1. CASE phase = "connect" \/ conns + 1 = Conns
  <2>1. phase # "idle"
    BY DEF InitiateFails, HostWaits, HostOK, Working
  <2>2. QED
    BY <1>1, <2>1, ReturnNearer DEF InitiateFails
<1>2. CASE ~(phase = "connect" \/ conns + 1 = Conns)
  <2>1. /\ UNCHANGED <<phase, pos, tries>> /\ conn = "initiate"
        /\ conn' = "check" /\ conns' = conns + 1
    BY <1>2 DEF InitiateFails, HostWaits
  <2>2. conns \in Int
    BY ConstTypes DEF TypeOK
  <2>3. ConnectionLeft = 2 * (Conns - conns) - 1
        /\ ConnectionLeft' = 2 * (Conns - (conns + 1))
    BY <2>1, <2>2, ConstTypes DEF ConnectionLeft
  <2>4. QED
    BY <2>1, <2>2, <2>3, ConstTypes DEF Nearer
<1>3. QED
  BY <1>1, <1>2

LEMMA CheckNearer ==
  ASSUME TypeOK, CheckCommunication
  PROVE  Nearer
<1>1. CASE Reconnected
  BY <1>1, ReconnectedNearer DEF CheckCommunication
<1>2. CASE ~ Reconnected
  <2>1. /\ UNCHANGED <<phase, pos, tries, conns>>
        /\ conn = "check" /\ conn' = "initiate"
    BY <1>2 DEF CheckCommunication
  <2>2. ConnectionLeft = 2 * (Conns - conns)
        /\ ConnectionLeft' = 2 * (Conns - conns) - 1 /\ conns \in Int
    BY <2>1, ConstTypes DEF ConnectionLeft, TypeOK
  <2>3. QED
    BY <2>1, <2>2, ConstTypes DEF Nearer
<1>3. QED
  BY <1>1, <1>2

(* Every step of the host does. *)
LEMMA HostNearer == IInv /\ HostStep => Nearer
<1>1. SUFFICES ASSUME IInv, HostStep PROVE Nearer
  OBVIOUS
<1>2. TypeOK /\ HostOK
  BY <1>1 DEF IInv
<1>3. CASE Initiate
  <2>1. CASE phase = "connect"
    <3>1. phase' = "erase"
      BY <1>3, <2>1 DEF Initiate
    <3>2. QED
      BY <2>1, <3>1 DEF Nearer, Ahead
  <2>2. CASE phase # "connect"
    <3>1. phase \in Working /\ conn # "up" /\ Reconnected
      BY <1>2, <1>3, <2>2 DEF Initiate, HostWaits, TypeOK, HostOK
    <3>2. QED
      BY <1>2, <3>1, ReconnectedNearer
  <2>3. QED
    BY <2>1, <2>2
<1>4. CASE InitiateFails
  BY <1>2, <1>4, InitiateFailsNearer
<1>5. CASE CheckCommunication
  BY <1>2, <1>5, CheckNearer
<1>6. CASE Erase \/ Write \/ Verify \/ ExchangeLost \/ ExchangeCut \/ NoAnswer
  <2>1. /\ Exchange /\ phase # "idle"
        /\ Advance \/ FailAttempt \/ Return("false")
    BY <1>6 DEF Erase, Write, Verify, ExchangeLost, ExchangeCut, NoAnswer, Exchange, Working
  <2>2. QED
    BY <1>2, <2>1, AdvanceNearer, FailNearer, ReturnNearer
<1>7. CASE Go
  BY <1>7, ReturnNearer DEF Go
<1>8. QED
  BY <1>1, <1>3, <1>4, <1>5, <1>6, <1>7 DEF HostStep

(* An update takes a bounded number of steps, for any number of attempts   *)
(* allowed, whatever is lost and whenever power fails: each step of the    *)
(* host lowers what is left, lexicographically, by phase, by page or       *)
(* chunk, by attempt and by step of the reconnection, and no step of the   *)
(* card raises it.  That a step always follows is left to fairness.        *)
THEOREM BootloaderShrinks == Spec => UpdateShrinks
<1>1. IInv /\ [Next]_vars =>
        [(HostStep => Nearer) /\ (~ HostStep /\ phase # "idle" => UNCHANGED hostVars)]_vars
  <2>1. SUFFICES ASSUME IInv, Next
                 PROVE  /\ HostStep => Nearer
                        /\ ~ HostStep /\ phase # "idle" => UNCHANGED hostVars
    OBVIOUS
  <2>2. NodeNext => UNCHANGED hostVars
    BY DEF NodeNext, PowerUp, PowerCut, Branch, Listen, Reannounce, ListenTimeout
  <2>3. Start => phase = "idle"
    BY DEF Start
  <2>4. QED
    BY <2>1, <2>2, <2>3, HostNearer DEF Next
<1>2. QED
  BY <1>1, BootloaderInvariant, PTL DEF Spec, UpdateShrinks

(* A chunk outside flash1 never comes to hold what the host writes. *)
LEMMA UnwritableStep ==
  ASSUME IInv, [Next]_vars, NEW c \in Chunks, c \notin Writable, flash[c] # "new"
  PROVE  flash'[c] # "new"
<1>1. CASE flash' = flash
  BY <1>1
<1>2. CASE Erase \/ Write \/ Verify \/ ExchangeLost \/ ExchangeCut
  <2>1. flash' \in Effect(phase, pos) \cup Torn(phase, pos) \cup {flash}
    BY <1>2 DEF Erase, Write, Verify, ExchangeLost, ExchangeCut
  <2>2. flash \in [Chunks -> Contents]
    BY DEF IInv, TypeOK
  <2>3. QED
    BY <2>1, <2>2 DEF Effect, Torn, Erased
<1>3. QED
  BY <1>1, <1>2 DEF Next, NodeNext, HostStep, vars, nodeVars, PowerUp, PowerCut, Branch, Listen,
     Reannounce, ListenTimeout, Start, Initiate, InitiateFails, CheckCommunication, NoAnswer, Go

(* An image that does not lie inside flash1 can never be installed: with   *)
(* the meta-data in front of flash1, as the linker script has it, no       *)
(* update of any image reports success, whatever the bus does.             *)
THEOREM BootloaderOutsideFails ==
  ASSUME NEW c \in 0 .. NewLen - 1, c \notin Writable
  PROVE  Spec => [](result # "true")
<1> DEFINE Lacking == flash[c] # "new"
<1>1. c \in Chunks
  BY ConstTypes
<1>2. Init => Lacking
  BY <1>1 DEF Init
<1>3. IInv /\ Lacking /\ [Next]_vars => Lacking'
  BY <1>1, UnwritableStep
<1>4. SuccessMeansInstalled /\ Lacking => result # "true"
  BY DEF SuccessMeansInstalled, Holds, Length
<1> HIDE DEF Lacking
<1>5. QED
  BY <1>2, <1>3, <1>4, BootloaderInvariant, BootloaderSuccess, PTL DEF Spec
============================================================================
