------------------------------ MODULE C3Proofs ------------------------------
(***************************************************************************)
(* Proofs about the mode logic, for every value of the time-outs, of the   *)
(* number of attempts, and of the bounds.                                  *)
(*                                                                         *)
(* What the properties need of the state is said in six parts:             *)
(*   AttemptBound   the heaters are on only for an attempt that is left    *)
(*   Boot           a reset leaves nothing under way                       *)
(*   DeployedKnown  no image, in FRAM or on its way there, is ahead of RAM *)
(*   BeaconPlace    which modes have the antennas out and may have a       *)
(*                  beacon thread                                          *)
(*   Wakes          which timer is running in which mode, already in the   *)
(*                  steps that lead to a sleep                             *)
(*   Durable        after deployment, the image in FRAM or on its way      *)
(*                  lacks only what a pending event will have saved        *)
(* One lemma for each, with a case for every action that can disturb it;   *)
(* then their conjunction with the types, and the theorems.  At the end,   *)
(* SaveBus, which the six do not need: who has the bus of the FRAM, and    *)
(* with it which resets can leave an image that is not valid.              *)
(***************************************************************************)
EXTENDS C3, TLAPS

(* The heaters are on only for an attempt that is left.                    *)
AttemptBound == pc = "deploying" => attempts < MaxAttempts

(* Until c3's thread runs nothing is on its way to FRAM.                    *)
Boot ==
  pc = "boot" =>
    mode = "PREDEPLOY" /\ beacon = "none" /\ ~buf.valid /\ ~edlBuf.valid

(* An image that says the antennas are out is right.                       *)
Recorded(image) == image.valid /\ image.state.deployed => ps.deployed
DeployedKnown == Recorded(fram) /\ Recorded(buf) /\ Recorded(edlBuf)

(* The modes past deployment, and the beacon's life in them.               *)
InOrbit == {"STANDBY", "BEACON", "EDL"}
BeaconPlace ==
  /\ mode \in InOrbit => ps.deployed
  /\ beacon # "none" => mode \in InOrbit
  /\ pc = "wait" /\ mode # "BEACON" => beacon = "none"
  /\ beacon = "stopping" => pc = "stopBeacon"

(* The timer that will wake c3, from the step that starts it on.           *)
Wakes ==
  /\ mode = "PREDEPLOY" /\ pc = "wait" /\ "WAKEUP" \notin events => alarm["A"] # NoAlarm
  /\ mode = "DEPLOY" /\ pc \in {"wait", "deploying"} => wakeup
  /\ mode \in InOrbit /\ pc # "exited" => wakeup
  /\ pc = "arm" => mode = "PREDEPLOY"

(* The events pending, and the one the EDL thread is about to signal.      *)
Owed ==
  events \cup (IF edl \in {"txOn", "txOff", "txSignal"} THEN {"TX"} ELSE {})
         \cup (IF edl \in {"edlOn", "edlSignal"} THEN {"EDL"} ELSE {})

(* What an image lacks, a pending event will have saved.                   *)
FreshFor(image, pending, state, alarms) ==
  /\ image.valid /\ image.state.deployed
  /\ "EDL" \notin pending => image.state.lastEDL = state.lastEDL
  /\ pending \cap {"WAKEUP", "TX", "EDL"} = {} =>
       image.state = state /\ image.alarm = alarms
Fresh(image) == FreshFor(image, Owed, ps, alarm)

(* After deployment the image in FRAM, or the one c3 is about to put       *)
(* there, is fresh, as long as the EDL thread makes no image of its own.   *)
Durable ==
  mode \in InOrbit /\ (edl = "idle" \/ EdlBusy) =>
    /\ pc \in {"acquire", "writing"} => Fresh(buf)
    /\ pc \in {"loop", "wait", "stopBeacon"} => Fresh(fram)

(* Every way to start again. *)
AnyReset ==
  SoftReset \/ SoftResetUnsaved \/ HardReset \/ FactoryReset \/ WatchdogReset \/ Crash

(* The constants, as the steps below use them. *)
LEMMA ConstTypes ==
  /\ Epoch \in Nat /\ MaxTime \in Nat /\ Epoch <= MaxTime
  /\ Times \subseteq Nat /\ Epoch \in Times
  /\ SetTimes \subseteq Times
  /\ Month \in Nat /\ Month > 0
  /\ DeployDelay \in Nat /\ TxTimeout \in Nat /\ EdlTimeout \in Nat
  /\ ResetTimeout \in Nat /\ MaxAttempts \in Nat
  /\ MaxContacts \in Nat /\ MaxCrashes \in Nat
<1>1. Epoch \in Nat /\ MaxTime \in Nat /\ Epoch <= MaxTime
  BY C3Assumption
<1>2. Times \subseteq Nat /\ Epoch \in Times
  BY <1>1 DEF Times
<1> QED  BY <1>1, <1>2, C3Assumption DEF Times

(* An alarm set for any time holds what its register can hold. *)
LEMMA SetAlarmType ==
  ASSUME alarm \in Alarms, NEW a \in {"A", "B"}, NEW t \in Nat
  PROVE  SetAlarm(a, t) \in Alarms
<1>1. t % Month \in 0 .. Month - 1
  BY ConstTypes
<1> QED  BY <1>1 DEF SetAlarm, Alarms

(* An alarm that is set is not off, and the other one stays as it was.     *)
LEMMA SetAlarmSets ==
  ASSUME alarm \in Alarms, NEW a \in {"A", "B"}, NEW t \in Nat
  PROVE  /\ SetAlarm(a, t)[a] # NoAlarm
         /\ \A o \in {"A", "B"} : o # a => SetAlarm(a, t)[o] = alarm[o]
<1>1. t % Month # NoAlarm
  BY ConstTypes DEF NoAlarm
<1> QED  BY <1>1 DEF SetAlarm, Alarms

(* An image is a whole one or the invalid one, as its flag says. *)
LEMMA ImageCases ==
  ASSUME NEW image \in Images \cup {Invalid}
  PROVE  /\ image.valid => image \in Images
         /\ ~image.valid => image = Invalid
<1>1. Invalid.valid = FALSE
  BY DEF Invalid
<1>2. image \in Images => image.valid = TRUE
  BY DEF Images
<1> QED  BY <1>1, <1>2

(* persistRestoreGroup leaves a state, whatever it read. *)
LEMMA RestoredType ==
  ASSUME NEW image \in Images \cup {Invalid}, NEW ram \in States
  PROVE  Restored(image, ram) \in States
BY ImageCases DEF Restored, Images

(* So is the state of a board that has no image. *)
LEMMA DefaultType == DefaultState \in States
BY DEF DefaultState, States, Stamps

(* A new time stamp of TX or EDL keeps the deployed flag. *)
LEMMA StampTypes ==
  ASSUME TypeOK, NEW on \in BOOLEAN
  PROVE  /\ TxStamp(on) \in States /\ TxStamp(on).deployed = ps.deployed
         /\ TxStamp(on).lastEDL = ps.lastEDL
         /\ EdlStamp(on) \in States /\ EdlStamp(on).deployed = ps.deployed
<1>1. now \in Times /\ ps \in States
  BY DEF TypeOK, ClockTypes, StateTypes
<1> QED  BY <1>1 DEF TxStamp, EdlStamp, States, Stamps

(* A time stamp is a number. *)
LEMMA StampNat ==
  ASSUME TypeOK
  PROVE  ps.lastTX \in Nat /\ ps.lastEDL \in Nat
<1>1. Times \subseteq Nat
  BY ConstTypes
<1>2. ps.lastTX \in Stamps /\ ps.lastEDL \in Stamps
  BY DEF TypeOK, StateTypes, States
<1>3. 0 \in Nat
  OBVIOUS
<1>4. Stamps \subseteq Nat
  BY <1>1, <1>3, Zenon DEF Stamps
<1> QED  BY <1>2, <1>4, Zenon

(* The alarm for a time stamp never turns off alarm A. *)
LEMMA StampAlarmTypes ==
  ASSUME TypeOK, NEW on \in BOOLEAN, NEW stamp \in Nat
  PROVE  /\ TxAlarm(on, stamp) \in Alarms
         /\ alarm["A"] # NoAlarm => TxAlarm(on, stamp)["A"] # NoAlarm
         /\ EdlAlarm(on, stamp) \in Alarms
         /\ alarm["A"] # NoAlarm => EdlAlarm(on, stamp)["A"] # NoAlarm
<1>1. alarm \in Alarms /\ stamp + TxTimeout \in Nat /\ stamp + EdlTimeout \in Nat
  BY ConstTypes DEF TypeOK, ClockTypes
<1>2. /\ SetAlarm("B", stamp + TxTimeout) \in Alarms
      /\ alarm["A"] # NoAlarm => SetAlarm("B", stamp + TxTimeout)["A"] # NoAlarm
  BY <1>1, SetAlarmType, SetAlarmSets
<1>3. /\ SetAlarm("A", stamp + EdlTimeout) \in Alarms
      /\ SetAlarm("A", stamp + EdlTimeout)["A"] # NoAlarm
  BY <1>1, SetAlarmType, SetAlarmSets
<1>4. /\ [alarm EXCEPT !["B"] = NoAlarm] \in Alarms
      /\ [alarm EXCEPT !["B"] = NoAlarm]["A"] = alarm["A"]
  BY <1>1 DEF Alarms
<1> QED  BY <1>2, <1>3, <1>4 DEF TxAlarm, EdlAlarm, EDL_ALARM, TX_ENABLE_ALARM

(* What the shell's tx_enable and edl_enable keep.                         *)
LEMMA EnableTypes ==
  ASSUME TypeOK, NEW on \in BOOLEAN, TxEnable(on) \/ EdlEnable(on)
  PROVE  /\ ps' \in States /\ ps'.deployed = ps.deployed
         /\ alarm' \in Alarms
         /\ alarm["A"] # NoAlarm => alarm'["A"] # NoAlarm
         /\ events \subseteq events' /\ events' \subseteq Events
<1>1. now \in Nat /\ alarm \in Alarms /\ ps \in States /\ events \subseteq Events
  BY ConstTypes DEF TypeOK, ClockTypes, StateTypes, ControlTypes
<1>2. CASE TxEnable(on)
  <2>1. ps' \in States /\ ps'.deployed = ps.deployed
    BY <1>2, StampTypes DEF TxEnable
  <2>2. alarm' \in Alarms /\ (alarm["A"] # NoAlarm => alarm'["A"] # NoAlarm)
    BY <1>1, <1>2, StampAlarmTypes DEF TxEnable
  <2> QED  BY <1>1, <1>2, <2>1, <2>2 DEF TxEnable, Events
<1>3. CASE EdlEnable(on)
  <2>1. ps' \in States /\ ps'.deployed = ps.deployed
    BY <1>1, <1>3, StampTypes DEF EdlEnable
  <2>2. alarm' \in Alarms /\ (alarm["A"] # NoAlarm => alarm'["A"] # NoAlarm)
    BY <1>1, <1>3, StampAlarmTypes DEF EdlEnable
  <2> QED  BY <1>1, <1>3, <2>1, <2>2 DEF EdlEnable, Events
<1> QED  BY <1>2, <1>3

(* What c3StateSave takes, of the state before a step ... *)
LEMMA SnapshotType ==
  ASSUME TypeOK PROVE Snapshot \in Images /\ Snapshot.valid /\ Snapshot.state = ps
BY DEF TypeOK, FlagTypes, ClockTypes, StateTypes, Snapshot, Images

(* ... and of the state after it. *)
LEMMA SnapshotTypePrimed ==
  ASSUME ps' \in States, now' \in Times, alarm' \in Alarms, wakeup' \in BOOLEAN
  PROVE  Snapshot' \in Images /\ Snapshot'.valid /\ Snapshot'.state = ps'
BY DEF Snapshot, Images

(* What every reset leaves; RAM is the image when there is one. *)
LEMMA ResetTypes ==
  ASSUME TypeOK, AnyReset
  PROVE  /\ StateTypes' /\ bootTime' \in Times /\ term' = FALSE /\ resetting' = FALSE
         /\ attempts' = 0
         /\ mode' = "PREDEPLOY" /\ pc' = "boot" /\ events' = {}
         /\ fram'.valid => ps' = fram'.state
         /\ ~buf'.valid /\ ~edlBuf'.valid
         /\ bus' = "free" /\ beacon' = "none" /\ edl' = "idle" /\ job' = "none"
<1>1. PICK images \in SUBSET (Images \cup {Invalid}) : Reset(images)
  <2>1. {fram, buf, edlBuf} \subseteq Images \cup {Invalid}
    BY DEF TypeOK, StateTypes
  <2>2. CutOff \in SUBSET (Images \cup {Invalid})
    BY <2>1 DEF CutOff, TypeOK, ControlTypes
  <2>3. /\ {edlBuf, Invalid, buf} \in SUBSET (Images \cup {Invalid})
        /\ {edlBuf} \in SUBSET (Images \cup {Invalid})
    BY <2>1
  <2>4. CASE SoftReset
    BY <2>3, <2>4 DEF SoftReset
  <2>5. CASE SoftResetUnsaved \/ HardReset \/ FactoryReset \/ WatchdogReset \/ Crash
    BY <2>2, <2>5 DEF SoftResetUnsaved, HardReset, FactoryReset, WatchdogReset, Crash
  <2> QED  BY <2>4, <2>5 DEF AnyReset
<1>2. fram' \in Images \cup {Invalid} /\ ps' = Restored(fram', DefaultState)
  BY <1>1 DEF Reset
<1>3. ps' \in States
  BY <1>2, RestoredType, DefaultType
<1>4. buf' \in Images \cup {Invalid} /\ edlBuf' \in Images \cup {Invalid}
  BY <1>1 DEF Reset
<1>5. StateTypes'
  BY <1>2, <1>3, <1>4 DEF StateTypes
<1>6. fram'.valid => ps' = fram'.state
  BY <1>2 DEF Restored
<1>7. ~buf'.valid /\ ~edlBuf'.valid
  BY <1>1 DEF Reset, Invalid
<1> QED  BY <1>1, <1>5, <1>6, <1>7, ConstTypes DEF Reset

(* The flags. *)
LEMMA FlagStep ==
  ASSUME TypeOK, Next
  PROVE  FlagTypes'
<1>1. CASE Restore
  <2>1. fram.valid => fram.wakeup \in BOOLEAN
    BY ImageCases DEF TypeOK, StateTypes, Images
  <2>2. wakeup' \in BOOLEAN
    <3>1. wakeup' = wakeup \/ wakeup' = (wakeup \/ fram.wakeup)
      BY <1>1, Zenon DEF Restore, rtcVars
    <3>2. (wakeup \/ fram.wakeup) \in BOOLEAN
      OBVIOUS
    <3> QED  BY <3>1, <3>2, Zenon DEF TypeOK, FlagTypes
  <2> QED  BY <1>1, <2>2 DEF Restore, edlVars, TypeOK, FlagTypes
<1>2. CASE AnyReset
  <2>1. wakeup' = wakeup \/ wakeup' = FALSE
    BY <1>2
       DEF AnyReset, SoftReset, SoftResetUnsaved, HardReset, WatchdogReset,
           FactoryReset, Crash, LoseRtc, rtcVars
  <2> QED  BY <1>2, <2>1, ResetTypes DEF TypeOK, FlagTypes
<1>3. CASE Deploy \/ StandbyBeacon \/ Exit \/ StopC3 \/ CommandFactoryReset
  BY <1>3
     DEF Deploy, StandbyBeacon, Exit, StopC3, CommandFactoryReset, SaveWakeup,
         edlVars, rtcVars, c3Vars, TypeOK, FlagTypes
<1>4. CASE Predeploy \/ PredeployArm \/ Deployed \/ StopBeacon \/ Edl \/ Wake
           \/ Saved \/ CommandTx \/ ArmTx \/ SignalTx \/ CommandSetTime
           \/ CommandOther \/ CommandReset \/ AcceptFrame \/ ArmEdl \/ SignalEdl
           \/ CommandSaved \/ C3Joined \/ Shell \/ Tick \/ PeriodicWakeup \/ BeaconExit
  <2>1. UNCHANGED <<wakeup, term, resetting>>
    BY <1>4
       DEF Predeploy, PredeployArm, Deployed, StopBeacon, Edl, Wake, Saved,
           CommandTx, ArmTx, SignalTx, CommandSetTime, CommandOther, CommandReset,
           AcceptFrame, ArmEdl, SignalEdl, CommandSaved, C3Joined, Shell, Tick,
           PeriodicWakeup, BeaconExit,
           c3Vars, rtcVars, edlVars
  <2> QED  BY <2>1 DEF TypeOK, FlagTypes
<1> QED  BY <1>1, <1>2, <1>3, <1>4
        DEF Next, C3Step, EdlStep, AnyReset

(* The counters. *)
LEMMA CounterStep ==
  ASSUME TypeOK, AttemptBound, Next
  PROVE  CounterTypes'
<1>1. CASE Deploy
  <2>1. attempts' = attempts \/ attempts' = 0
    BY <1>1 DEF Deploy
  <2>2. UNCHANGED <<contacts, crashes>>
    BY <1>1 DEF Deploy, edlVars
  <2> QED  BY <2>1, <2>2, ConstTypes DEF TypeOK, CounterTypes
<1>2. CASE Deployed
  <2>1. attempts \in Nat /\ attempts < MaxAttempts
    BY <1>2, ConstTypes DEF Deployed, TypeOK, CounterTypes, AttemptBound
  <2>2. attempts' = attempts + 1 /\ UNCHANGED <<contacts, crashes>>
    BY <1>2 DEF Deployed, edlVars
  <2> QED  BY <2>1, <2>2, ConstTypes DEF TypeOK, CounterTypes
<1>3. CASE AnyReset
  <2>1. attempts' = 0
    BY <1>3, ResetTypes
  <2>2. /\ contacts' = contacts \/ (contacts < MaxContacts /\ contacts' = contacts + 1)
        /\ crashes' = crashes \/ (crashes < MaxCrashes /\ crashes' = crashes + 1)
    BY <1>3
       DEF AnyReset, SoftReset, SoftResetUnsaved, MayCommand, HardReset, WatchdogReset,
           FactoryReset, Crash, rtcVars
  <2> QED  BY <2>1, <2>2, ConstTypes DEF TypeOK, CounterTypes
<1>4. CASE CommandTx \/ CommandSetTime \/ CommandOther \/ CommandReset
           \/ CommandFactoryReset \/ Shell
  BY <1>4, ConstTypes
     DEF CommandTx, CommandSetTime, CommandOther, CommandReset,
         CommandFactoryReset, Shell, MayCommand, c3Vars, TypeOK, CounterTypes
<1>5. CASE Restore \/ Predeploy \/ PredeployArm \/ StopBeacon
           \/ StandbyBeacon \/ Edl \/ Wake \/ Saved \/ Exit \/ AcceptFrame
           \/ ArmTx \/ SignalTx \/ ArmEdl \/ SignalEdl \/ CommandSaved \/ StopC3
           \/ C3Joined \/ Tick \/ PeriodicWakeup
           \/ BeaconExit
  <2>1. UNCHANGED <<attempts, contacts, crashes>>
    BY <1>5
       DEF Restore, Predeploy, PredeployArm, StopBeacon, StandbyBeacon, Edl,
           Wake, Saved, Exit, AcceptFrame, ArmTx, SignalTx,
           ArmEdl, SignalEdl, CommandSaved, StopC3, C3Joined, Tick,
           PeriodicWakeup, BeaconExit, c3Vars, rtcVars, edlVars
  <2> QED  BY <2>1 DEF TypeOK, CounterTypes
<1> QED  BY <1>1, <1>2, <1>3, <1>4, <1>5
        DEF Next, C3Step, EdlStep, AnyReset

(* The heaters are on only for an attempt that is left. *)
LEMMA AttemptStep ==
  ASSUME TypeOK, AttemptBound, Next
  PROVE  AttemptBound'
<1>1. CASE Deploy
  <2>1. pc' = "deploying" => MustDeploy /\ attempts' = attempts
    BY <1>1 DEF Deploy, GoTo, StateSave
  <2> QED  BY <2>1, Zenon DEF MustDeploy, AttemptBound
<1>2. CASE AnyReset
  BY <1>2, ResetTypes DEF AttemptBound
<1>3. CASE Deployed
  BY <1>3
     DEF Deployed, StateSave, AttemptBound
<1>4. CASE Restore \/ Predeploy \/ PredeployArm \/ StopBeacon
           \/ StandbyBeacon \/ Edl \/ Wake \/ Saved \/ Exit \/ CommandTx
           \/ ArmTx \/ SignalTx \/ ArmEdl \/ SignalEdl
           \/ CommandSetTime \/ CommandOther \/ CommandReset
           \/ CommandFactoryReset \/ AcceptFrame \/ CommandSaved \/ StopC3
           \/ C3Joined \/ Shell \/ Tick \/ PeriodicWakeup \/ BeaconExit
  <2>1. attempts' = attempts /\ (pc' = "deploying" => pc = "deploying")
    BY <1>4
       DEF Restore, Predeploy, PredeployArm, StopBeacon, StandbyBeacon, Edl,
           Wake, Saved, Exit, CommandTx, ArmTx, SignalTx, ArmEdl, SignalEdl,
           CommandSetTime, CommandOther,
           CommandReset, CommandFactoryReset, AcceptFrame, CommandSaved, StopC3,
           C3Joined, Shell, Tick, PeriodicWakeup, BeaconExit, c3Vars, rtcVars,
           edlVars, GoTo, StateSave, WaitEvents
  <2> QED  BY <2>1 DEF AttemptBound
<1> QED  BY <1>1, <1>2, <1>3, <1>4
        DEF Next, C3Step, EdlStep, AnyReset

(* The clock and the alarms. *)
LEMMA ClockStep ==
  ASSUME TypeOK, Next
  PROVE  ClockTypes'
<1>1. CASE Restore
  <2>1. fram.valid => fram.time \in Times /\ fram.alarm \in Alarms
    BY ImageCases DEF TypeOK, StateTypes, Images
  <2>2. now' \in Times
    BY <1>1, <2>1 DEF Restore, rtcVars, TypeOK, ClockTypes
  <2>3. alarm' \in Alarms
    BY <1>1, <2>1 DEF Restore, rtcVars, TypeOK, ClockTypes, Alarms
  <2> QED  BY <1>1, <2>2, <2>3 DEF Restore, ClockTypes
<1>2. CASE PredeployArm
  <2>1. now + TxTimeout \in Nat /\ Epoch + DeployDelay \in Nat
    BY ConstTypes DEF TypeOK, ClockTypes
  <2>2. SetAlarm("A", Epoch + DeployDelay) \in Alarms
    BY <2>1, SetAlarmType DEF TypeOK, ClockTypes
  <2>3. (now + TxTimeout) % Month \in 0 .. Month - 1
    BY <2>1, ConstTypes
  <2>4. alarm' = [SetAlarm("A", Epoch + DeployDelay)
                    EXCEPT !["B"] = (now + TxTimeout) % Month]
    BY <1>2 DEF PredeployArm, PREDEPLOY_ALARM, TX_ENABLE_ALARM
  <2>5. alarm' \in Alarms
    BY <2>2, <2>3, <2>4 DEF Alarms
  <2> QED  BY <1>2, <2>5 DEF PredeployArm, TypeOK, ClockTypes
<1>3. CASE Edl
  <2>1. now + ResetTimeout \in Nat
    BY ConstTypes DEF TypeOK, ClockTypes
  <2>2. SetAlarm("A", now + ResetTimeout) \in Alarms
    BY <2>1, SetAlarmType DEF TypeOK, ClockTypes
  <2> QED  BY <1>3, <2>2 DEF Edl, RESET_ALARM, TypeOK, ClockTypes
<1>4. CASE Exit
  <2>1. [a \in {"A", "B"} |-> NoAlarm] \in Alarms
    BY DEF Alarms
  <2> QED  BY <1>4, <2>1 DEF Exit, TypeOK, ClockTypes
<1>5. CASE ArmTx
  BY <1>5, StampNat, StampAlarmTypes DEF ArmTx, c3Vars, TypeOK, ClockTypes
<1>6. CASE CommandSetTime
  BY <1>6, ConstTypes
     DEF CommandSetTime, c3Vars, TypeOK, ClockTypes
<1>7. CASE ArmEdl
  BY <1>7, StampNat, StampAlarmTypes DEF ArmEdl, c3Vars, TypeOK, ClockTypes
<1>8. CASE Shell
  BY <1>8, EnableTypes
     DEF Shell, TypeOK, ClockTypes
<1>9. CASE Tick
  <2>1. now' \in Times
    BY <1>9, ConstTypes DEF Tick, InTime, TypeOK, ClockTypes, Times
  <2>2. alarm' \in Alarms
    BY <1>9 DEF Tick, TypeOK, ClockTypes, Alarms
  <2> QED  BY <1>9, <2>1, <2>2 DEF Tick, TypeOK, ClockTypes
<1>10. CASE AnyReset
  <2>1. bootTime' \in Times
    BY <1>10, ResetTypes
  <2>2. UNCHANGED <<now, alarm>> \/ LoseRtc
    BY <1>10
       DEF AnyReset, SoftReset, SoftResetUnsaved, HardReset, WatchdogReset, FactoryReset,
           Crash, rtcVars
  <2>3. [a \in {"A", "B"} |-> NoAlarm] \in Alarms
    BY DEF Alarms
  <2> QED  BY <2>1, <2>2, <2>3, ConstTypes DEF LoseRtc, TypeOK, ClockTypes
<1>11. CASE Predeploy \/ Deploy \/ Deployed \/ StopBeacon \/ StandbyBeacon
            \/ Wake \/ Saved \/ CommandOther \/ CommandReset
            \/ CommandFactoryReset \/ CommandSaved \/ StopC3 \/ C3Joined
            \/ CommandTx \/ SignalTx \/ AcceptFrame \/ SignalEdl
            \/ PeriodicWakeup \/ BeaconExit
  <2>1. UNCHANGED <<now, bootTime, alarm>>
    BY <1>11
       DEF Predeploy, Deploy, Deployed, StopBeacon, StandbyBeacon, Wake, Saved,
           CommandOther, CommandReset, CommandFactoryReset, CommandSaved,
           CommandTx, SignalTx, AcceptFrame, SignalEdl,
           StopC3, C3Joined, PeriodicWakeup, BeaconExit, c3Vars, rtcVars,
           edlVars
  <2> QED  BY <2>1 DEF TypeOK, ClockTypes
<1> QED  BY <1>1, <1>2, <1>3, <1>4, <1>5, <1>6, <1>7, <1>8, <1>9, <1>10, <1>11
        DEF Next, C3Step, EdlStep, AnyReset

(* The state in RAM, in FRAM and on its way there. *)
LEMMA StateStep ==
  ASSUME TypeOK, ClockTypes', FlagTypes', Next
  PROVE  StateTypes'
<1>1. CASE Restore
  BY <1>1, RestoredType
     DEF Restore, c3Vars, edlVars, TypeOK, StateTypes
<1>2. CASE Predeploy \/ Deployed \/ StandbyBeacon \/ Edl \/ Wake
  <2>1. UNCHANGED <<ps, fram, edlBuf>>
    BY <1>2 DEF Predeploy, Deployed, StandbyBeacon, Edl, Wake, edlVars
  <2>2. Snapshot' \in Images
    BY <2>1, SnapshotTypePrimed DEF TypeOK, StateTypes, ClockTypes, FlagTypes
  <2>3. buf' = buf \/ buf' = Snapshot'
    BY <1>2 DEF Predeploy, Deployed, StandbyBeacon, Edl, Wake, GoTo, WaitEvents, StateSave
  <2> QED  BY <2>1, <2>2, <2>3 DEF TypeOK, StateTypes
<1>3. CASE Deploy
  <2>1. UNCHANGED <<fram, edlBuf>>
    BY <1>3 DEF Deploy, edlVars
  <2>2. ps' \in States
    BY <1>3 DEF Deploy, TypeOK, StateTypes, States
  <2>3. Snapshot' \in Images
    BY <2>2, SnapshotTypePrimed DEF ClockTypes, FlagTypes
  <2>4. buf' = buf \/ buf' = Snapshot'
    BY <1>3 DEF Deploy, GoTo, StateSave
  <2> QED  BY <2>1, <2>2, <2>3, <2>4 DEF TypeOK, StateTypes
<1>4. CASE PredeployArm
  BY <1>4
     DEF PredeployArm, edlVars, TypeOK, ClockTypes, StateTypes, States, Stamps
<1>5. CASE Saved \/ CommandSaved
  BY <1>5
     DEF Saved, CommandSaved, TypeOK, StateTypes
<1>6. CASE CommandTx
  <2>1. ps' \in States
    BY <1>6, StampTypes DEF CommandTx
  <2> QED  BY <1>6, <2>1 DEF CommandTx, c3Vars, TypeOK, StateTypes
<1>7. CASE AcceptFrame
  <2>1. ps' \in States
    BY <1>7, StampTypes DEF AcceptFrame, TypeOK, StateTypes
  <2> QED  BY <1>7, <2>1 DEF AcceptFrame, c3Vars, TypeOK, StateTypes
<1>8. CASE Shell
  BY <1>8, EnableTypes
     DEF Shell, TypeOK, StateTypes
<1>9. CASE CommandReset
  BY <1>9, SnapshotType
     DEF CommandReset, c3Vars, TypeOK, StateTypes
<1>10. CASE C3Joined
  BY <1>10
     DEF C3Joined, c3Vars, TypeOK, StateTypes
<1>11. CASE AnyReset
  BY <1>11, ResetTypes
<1>12. CASE StopBeacon \/ Exit \/ CommandSetTime \/ CommandOther
            \/ CommandFactoryReset \/ StopC3 \/ Tick \/ PeriodicWakeup
            \/ ArmTx \/ SignalTx \/ ArmEdl \/ SignalEdl
            \/ BeaconExit
  <2>1. UNCHANGED <<ps, fram, buf, edlBuf>>
    BY <1>12
       DEF StopBeacon, Exit, CommandSetTime, CommandOther, CommandFactoryReset,
           StopC3, ArmTx, SignalTx, ArmEdl, SignalEdl, Tick, PeriodicWakeup, BeaconExit,
           c3Vars, rtcVars, edlVars
  <2> QED  BY <2>1 DEF TypeOK, StateTypes
<1> QED  BY <1>1, <1>2, <1>3, <1>4, <1>5, <1>6, <1>7, <1>8, <1>9, <1>10, <1>11,
          <1>12
        DEF Next, C3Step, EdlStep, AnyReset

(* The threads, the mode, the bus. *)
LEMMA ControlStep ==
  ASSUME TypeOK, Next
  PROVE  ControlTypes'
<1>1. CASE Restore \/ Saved \/ CommandSaved \/ StopBeacon
  BY <1>1
     DEF Restore, Saved, CommandSaved, StopBeacon, c3Vars, edlVars, TypeOK,
         ControlTypes
<1>2. CASE Predeploy \/ Deployed \/ Wake
  BY <1>2
     DEF Predeploy, Deployed, Wake, GoTo, WaitEvents, StateSave, edlVars, Modes,
         TypeOK, ControlTypes
<1>3. CASE StandbyBeacon
  <2>1. mode' \in Modes
    BY <1>3 DEF StandbyBeacon, GoTo, WaitEvents, Modes, TypeOK, ControlTypes
  <2>2. pc' \in {"loop", "wait", "acquire", "writing"} /\ bus' \in {"free", "c3", "edl"}
    BY <1>3 DEF StandbyBeacon, GoTo, WaitEvents, StateSave, TypeOK, ControlTypes
  <2>3. beacon' \in {"none", "run", "stopping"}
    BY <1>3 DEF StandbyBeacon, TypeOK, ControlTypes
  <2> QED  BY <1>3, <2>1, <2>2, <2>3 DEF StandbyBeacon, edlVars, TypeOK, ControlTypes
<1>4. CASE Deploy
  <2>1. mode' \in Modes
    BY <1>4 DEF Deploy, GoTo, Modes, TypeOK, ControlTypes
  <2>2. /\ pc' \in {"loop", "wait", "deploying", "acquire", "writing"}
        /\ bus' \in {"free", "c3", "edl"}
    BY <1>4 DEF Deploy, GoTo, StateSave, TypeOK, ControlTypes
  <2> QED  BY <1>4, <2>1, <2>2 DEF Deploy, edlVars, TypeOK, ControlTypes
<1>5. CASE Edl
  <2>1. mode' \in Modes
    BY <1>5 DEF Edl, GoTo, WaitEvents, Modes, TypeOK, ControlTypes
  <2>2. pc' \in {"loop", "wait", "acquire", "writing"} /\ bus' \in {"free", "c3", "edl"}
    BY <1>5 DEF Edl, GoTo, WaitEvents, StateSave, TypeOK, ControlTypes
  <2> QED  BY <1>5, <2>1, <2>2 DEF Edl, edlVars, TypeOK, ControlTypes
<1>6. CASE PredeployArm \/ Exit
  BY <1>6
     DEF PredeployArm, Exit, edlVars, Events, TypeOK, ControlTypes
<1>7. CASE CommandTx \/ AcceptFrame \/ ArmTx \/ ArmEdl
  BY <1>7
     DEF CommandTx, AcceptFrame, ArmTx, ArmEdl, c3Vars, TypeOK, ControlTypes
<1>8. CASE SignalTx \/ SignalEdl
  BY <1>8
     DEF SignalTx, SignalEdl, Events, TypeOK, ControlTypes
<1>9. CASE Shell
  BY <1>9, EnableTypes
     DEF Shell, TypeOK, ControlTypes
<1>10. CASE CommandReset \/ CommandFactoryReset \/ StopC3 \/ C3Joined
  BY <1>10
     DEF CommandReset, CommandFactoryReset, StopC3, C3Joined, c3Vars, Events,
         TypeOK, ControlTypes
<1>11. CASE CommandSetTime \/ CommandOther
  BY <1>11
     DEF CommandSetTime, CommandOther, c3Vars, TypeOK, ControlTypes
<1>12. CASE Tick \/ PeriodicWakeup
  BY <1>12
     DEF Tick, PeriodicWakeup, edlVars, Events, TypeOK, ControlTypes
<1>13. CASE BeaconExit
  BY <1>13
     DEF BeaconExit, c3Vars, edlVars, TypeOK, ControlTypes
<1>14. CASE AnyReset
  BY <1>14, ResetTypes
     DEF Modes, TypeOK, ControlTypes
<1> QED  BY <1>1, <1>2, <1>3, <1>4, <1>5, <1>6, <1>7, <1>8, <1>9, <1>10, <1>11,
          <1>12, <1>13, <1>14
        DEF Next, C3Step, EdlStep, AnyReset

----------------------------------------------------------------------------

(* Before c3's thread runs. *)
LEMMA BootStep ==
  ASSUME TypeOK, Boot, Next
  PROVE  Boot'
<1>1. CASE AnyReset
  BY <1>1, ResetTypes DEF Boot
<1>2. CASE Restore \/ Predeploy \/ PredeployArm \/ Deploy \/ Deployed
           \/ StopBeacon \/ StandbyBeacon \/ Edl \/ Wake \/ Saved \/ Exit
  BY <1>2
     DEF Restore, Predeploy, PredeployArm, Deploy, Deployed, StopBeacon,
         StandbyBeacon, Edl, Wake, Saved, Exit, GoTo, WaitEvents, StateSave,
         Boot
<1>3. CASE CommandReset
  BY <1>3
     DEF CommandReset, c3Vars, Boot
<1>4. CASE CommandSaved
  <2>1. /\ UNCHANGED <<mode, beacon, buf>> /\ edlBuf' = Invalid
        /\ pc' = "boot" => pc = "boot"
    BY <1>4 DEF CommandSaved
  <2> QED  BY <2>1 DEF Boot, Invalid
<1>5. CASE BeaconExit
  BY <1>5
     DEF BeaconExit, c3Vars, edlVars, Boot
<1>6. CASE CommandTx \/ CommandSetTime \/ CommandOther \/ CommandFactoryReset
           \/ ArmTx \/ SignalTx \/ AcceptFrame \/ ArmEdl \/ SignalEdl \/ StopC3
           \/ C3Joined \/ Shell \/ Tick
           \/ PeriodicWakeup
  <2>1. UNCHANGED <<mode, beacon, buf, edlBuf>> /\ (pc' = "boot" => pc = "boot")
    BY <1>6
       DEF CommandTx, CommandSetTime, CommandOther, CommandFactoryReset,
           ArmTx, SignalTx, AcceptFrame, ArmEdl, SignalEdl, StopC3, C3Joined, Shell,
           Tick, PeriodicWakeup, c3Vars,
           rtcVars, edlVars
  <2> QED  BY <2>1 DEF Boot
<1> QED  BY <1>1, <1>2, <1>3, <1>4, <1>5, <1>6
        DEF Next, C3Step, EdlStep, AnyReset

(* Every valid image tells no more of the deployment than RAM. *)
LEMMA DeployedKnownStep ==
  ASSUME TypeOK, Boot, DeployedKnown, Next
  PROVE  DeployedKnown'
<1>1. CASE AnyReset
  BY <1>1, ResetTypes DEF DeployedKnown, Recorded
<1>2. CASE Restore
  <2>1. ~buf.valid /\ ~edlBuf.valid
    BY <1>2 DEF Restore, Boot
  <2>2. UNCHANGED <<fram, buf, edlBuf>> /\ ps' = Restored(fram, ps)
    BY <1>2 DEF Restore, edlVars
  <2> QED  BY <2>1, <2>2 DEF DeployedKnown, Recorded, Restored
<1>3. CASE Deploy
  <2>1. UNCHANGED <<fram, edlBuf>>
    BY <1>3 DEF Deploy, edlVars
  <2>2. ps.deployed => ps'.deployed
    BY <1>3 DEF Deploy, TypeOK, StateTypes, States
  <2>3. buf' = buf \/ buf' = Snapshot'
    BY <1>3 DEF Deploy, GoTo, StateSave
  <2> QED  BY <2>1, <2>2, <2>3 DEF DeployedKnown, Recorded, Snapshot
<1>4. CASE Predeploy \/ Deployed \/ StandbyBeacon \/ Edl \/ Wake
  <2>1. UNCHANGED <<ps, fram, edlBuf>>
    BY <1>4 DEF Predeploy, Deployed, StandbyBeacon, Edl, Wake, edlVars
  <2>2. buf' = buf \/ buf' = Snapshot'
    BY <1>4 DEF Predeploy, Deployed, StandbyBeacon, Edl, Wake, GoTo, WaitEvents, StateSave
  <2> QED  BY <2>1, <2>2 DEF DeployedKnown, Recorded, Snapshot
<1>5. CASE Saved \/ CommandSaved
  <2>1. UNCHANGED ps /\ fram' \in {buf, edlBuf}
    BY <1>5 DEF Saved, CommandSaved
  <2>2. buf' \in {buf, Invalid} /\ edlBuf' \in {edlBuf, Invalid}
    BY <1>5 DEF Saved, CommandSaved
  <2> QED  BY <2>1, <2>2 DEF DeployedKnown, Recorded, Invalid
<1>6. CASE PredeployArm
  <2>1. ps'.deployed = ps.deployed
    BY <1>6 DEF PredeployArm, TypeOK, StateTypes, States
  <2> QED  BY <1>6, <2>1 DEF PredeployArm, edlVars, DeployedKnown, Recorded
<1>7. CASE CommandTx
  <2>1. ps'.deployed = ps.deployed
    BY <1>7, StampTypes DEF CommandTx
  <2> QED  BY <1>7, <2>1 DEF CommandTx, c3Vars, DeployedKnown, Recorded
<1>8. CASE AcceptFrame
  <2>1. ps'.deployed = ps.deployed
    BY <1>8, StampTypes DEF AcceptFrame
  <2> QED  BY <1>8, <2>1 DEF AcceptFrame, c3Vars, DeployedKnown, Recorded
<1>9. CASE Shell
  <2>1. ps'.deployed = ps.deployed
    BY <1>9, EnableTypes DEF Shell
  <2> QED  BY <1>9, <2>1 DEF Shell, DeployedKnown, Recorded
<1>10. CASE CommandReset
  <2>1. UNCHANGED <<ps, fram, buf>> /\ (edlBuf' = edlBuf \/ edlBuf' = Snapshot)
    BY <1>10 DEF CommandReset, c3Vars
  <2> QED  BY <2>1 DEF DeployedKnown, Recorded, Snapshot
<1>11. CASE C3Joined
  <2>1. UNCHANGED <<ps, buf, edlBuf>> /\ (fram' = fram \/ fram' = Invalid)
    BY <1>11 DEF C3Joined, c3Vars
  <2> QED  BY <2>1 DEF DeployedKnown, Recorded, Invalid
<1>12. CASE StopBeacon \/ Exit \/ CommandSetTime \/ CommandOther
            \/ CommandFactoryReset \/ StopC3 \/ Tick \/ PeriodicWakeup
            \/ ArmTx \/ SignalTx \/ ArmEdl \/ SignalEdl
            \/ BeaconExit
  <2>1. UNCHANGED <<ps, fram, buf, edlBuf>>
    BY <1>12
       DEF StopBeacon, Exit, CommandSetTime, CommandOther, CommandFactoryReset,
           StopC3, ArmTx, SignalTx, ArmEdl, SignalEdl, Tick, PeriodicWakeup, BeaconExit,
           c3Vars, rtcVars, edlVars
  <2> QED  BY <2>1 DEF DeployedKnown, Recorded
<1> QED  BY <1>1, <1>2, <1>3, <1>4, <1>5, <1>6, <1>7, <1>8, <1>9, <1>10, <1>11,
          <1>12
        DEF Next, C3Step, EdlStep, AnyReset

(* Modes with the antennas out, and where the beacon runs. *)
LEMMA BeaconPlaceStep ==
  ASSUME TypeOK, Boot, BeaconPlace, Wakes, Next
  PROVE  BeaconPlace'
<1>1. CASE AnyReset
  BY <1>1, ResetTypes DEF BeaconPlace, InOrbit
<1>2. CASE Restore
  BY <1>2
     DEF Restore, Boot, edlVars, BeaconPlace, InOrbit
<1>3. CASE Deploy
  <2>1. beacon = "none" /\ beacon' = "none" /\ mode = "DEPLOY"
    BY <1>3 DEF Deploy, BeaconPlace, InOrbit
  <2>2. mode' = "DEPLOY" \/ ps'.deployed
    BY <1>3 DEF Deploy, TypeOK, StateTypes, States
  <2>3. mode' \in {"DEPLOY", "STANDBY"}
    BY <1>3, <2>1 DEF Deploy, GoTo
  <2> QED  BY <2>1, <2>2, <2>3 DEF BeaconPlace, InOrbit
<1>4. CASE Predeploy
  BY <1>4
     DEF Predeploy, GoTo, StateSave, BeaconPlace, InOrbit
<1>5. CASE Deployed \/ Wake
  <2>1. UNCHANGED <<mode, ps, beacon>> /\ pc' # "wait" /\ pc \in {"deploying", "wait"}
    BY <1>5 DEF Deployed, Wake, Woken, StateSave
  <2> QED  BY <2>1 DEF BeaconPlace, InOrbit
<1>6. CASE StopBeacon
  BY <1>6
     DEF StopBeacon, QuietModes, BeaconPlace, InOrbit
<1>7. CASE StandbyBeacon
  <2>1. ps' = ps /\ mode \in InOrbit /\ mode' \in InOrbit
    BY <1>7 DEF StandbyBeacon, GoTo, WaitEvents, InOrbit
  <2>2. beacon' # "stopping"
    BY <1>7 DEF StandbyBeacon, AtTests, BeaconPlace
  <2>3. pc' = "wait" => mode' = mode
    BY <1>7 DEF StandbyBeacon, GoTo, WaitEvents, StateSave
  <2>4. mode # "BEACON" => beacon' = "none"
    BY <1>7 DEF StandbyBeacon, AtTests, QuietModes, BeaconPlace, TypeOK, ControlTypes
  <2> QED  BY <2>1, <2>2, <2>3, <2>4 DEF BeaconPlace
<1>8. CASE Edl
  <2>1. ps' = ps /\ mode = "EDL" /\ mode' \in InOrbit /\ beacon' = beacon
    BY <1>8 DEF Edl, GoTo, WaitEvents, InOrbit
  <2>2. beacon = "none"
    BY <1>8 DEF Edl, AtTests, QuietModes, BeaconPlace, TypeOK, ControlTypes
  <2> QED  BY <2>1, <2>2 DEF BeaconPlace, InOrbit
<1>9. CASE Saved \/ Exit \/ CommandSaved
  BY <1>9
     DEF Saved, Exit, CommandSaved, edlVars, BeaconPlace, InOrbit
<1>10. CASE PredeployArm
  <2>1. ps'.deployed = ps.deployed
    BY <1>10 DEF PredeployArm, TypeOK, StateTypes, States
  <2>2. beacon' = "none" /\ mode' = mode
    BY <1>10 DEF PredeployArm, BeaconPlace, Wakes, InOrbit
  <2>3. mode = "PREDEPLOY"
    BY <1>10 DEF PredeployArm, Wakes
  <2> QED  BY <2>1, <2>2, <2>3 DEF BeaconPlace, InOrbit
<1>11. CASE SignalTx
  <2>1. UNCHANGED <<mode, beacon, ps>> /\ (pc' = pc \/ (pc = "boot" /\ pc' = "halted"))
    BY <1>11 DEF SignalTx, NoC3
  <2> QED  BY <2>1 DEF BeaconPlace, Boot
<1>12. CASE CommandTx \/ AcceptFrame
  <2>1. ps'.deployed = ps.deployed
    <3>1. CASE CommandTx
      BY <3>1, StampTypes DEF CommandTx
    <3>2. CASE AcceptFrame
      BY <3>2, StampTypes DEF AcceptFrame
    <3> QED  BY <1>12, <3>1, <3>2
  <2> QED  BY <1>12, <2>1 DEF CommandTx, AcceptFrame, c3Vars, BeaconPlace
<1>13. CASE Shell
  <2>1. ps'.deployed = ps.deployed
    BY <1>13, EnableTypes DEF Shell
  <2> QED  BY <1>13, <2>1 DEF Shell, BeaconPlace
<1>14. CASE CommandFactoryReset
  BY <1>14
     DEF CommandFactoryReset, NoC3, Boot, BeaconPlace, InOrbit
<1>15. CASE BeaconExit
  BY <1>15
     DEF BeaconExit, c3Vars, edlVars, BeaconPlace, InOrbit
<1>16. CASE CommandSetTime \/ CommandOther \/ CommandReset \/ StopC3
            \/ C3Joined \/ Tick \/ PeriodicWakeup \/ ArmTx \/ ArmEdl \/ SignalEdl
  <2>1. UNCHANGED <<mode, pc, ps, beacon>>
    BY <1>16
       DEF CommandSetTime, CommandOther, CommandReset, StopC3, C3Joined, ArmTx, ArmEdl,
           SignalEdl, Tick,
           PeriodicWakeup, c3Vars, rtcVars, edlVars
  <2> QED  BY <2>1 DEF BeaconPlace
<1> QED  BY <1>1, <1>2, <1>3, <1>4, <1>5, <1>6, <1>7, <1>8, <1>9, <1>10, <1>11,
          <1>12, <1>13, <1>14, <1>15, <1>16
        DEF Next, C3Step, EdlStep, AnyReset

(* The timers a waiting c3 relies on. *)
LEMMA WakesStep ==
  ASSUME TypeOK, Boot, Wakes, Next
  PROVE  Wakes'
<1>1. CASE AnyReset
  BY <1>1, ResetTypes DEF Wakes, InOrbit
<1>2. CASE Restore
  BY <1>2
     DEF Restore, Boot, Wakes, InOrbit
<1>3. CASE Deploy
  <2>1. /\ wakeup' = TRUE /\ mode = "DEPLOY"
        /\ mode' \in {"DEPLOY", "STANDBY"} /\ pc' # "arm"
    BY <1>3 DEF Deploy, GoTo, StateSave, SaveWakeup
  <2> QED  BY <2>1 DEF Wakes, InOrbit
<1>4. CASE Predeploy
  BY <1>4
     DEF Predeploy, GoTo, StateSave, rtcVars, Wakes, InOrbit
<1>5. CASE PredeployArm
  <2>1. Epoch + DeployDelay \in Nat /\ alarm \in Alarms
    BY ConstTypes DEF TypeOK, ClockTypes
  <2>2. SetAlarm("A", Epoch + DeployDelay)["A"] # NoAlarm
    BY <2>1, SetAlarmSets
  <2>3. SetAlarm("A", Epoch + DeployDelay) \in Alarms
    BY <2>1, SetAlarmType
  <2>4. alarm'["A"] # NoAlarm
    BY <1>5, <2>2, <2>3 DEF PredeployArm, PREDEPLOY_ALARM, TX_ENABLE_ALARM, Alarms
  <2>5. mode = "PREDEPLOY" /\ mode' = mode
    BY <1>5 DEF PredeployArm, Wakes
  <2> QED  BY <2>4, <2>5 DEF Wakes, InOrbit
<1>6. CASE Deployed \/ Wake
  <2>1. /\ UNCHANGED <<mode, wakeup>>
        /\ pc' \notin {"wait", "deploying", "arm"} /\ pc \in {"deploying", "wait"}
    BY <1>6 DEF Deployed, Wake, Woken, StateSave, rtcVars
  <2> QED  BY <2>1 DEF Wakes
<1>7. CASE StopBeacon
  BY <1>7
     DEF StopBeacon, QuietModes, rtcVars, Wakes, InOrbit
<1>8. CASE StandbyBeacon
  <2>1. UNCHANGED wakeup /\ mode \in InOrbit /\ mode' \in InOrbit
    BY <1>8 DEF StandbyBeacon, GoTo, WaitEvents, InOrbit, rtcVars
  <2>2. pc \in {"loop", "stopBeacon"} /\ pc' # "arm"
    BY <1>8 DEF StandbyBeacon, AtTests, GoTo, WaitEvents, StateSave
  <2> QED  BY <2>1, <2>2 DEF Wakes, InOrbit
<1>9. CASE Edl
  <2>1. UNCHANGED wakeup /\ mode \in InOrbit /\ mode' \in InOrbit
    BY <1>9 DEF Edl, GoTo, WaitEvents, InOrbit
  <2>2. pc \in {"loop", "stopBeacon"} /\ pc' # "arm"
    BY <1>9 DEF Edl, AtTests, GoTo, WaitEvents, StateSave
  <2> QED  BY <2>1, <2>2 DEF Wakes, InOrbit
<1>10. CASE Exit
  BY <1>10
     DEF Exit, Wakes, InOrbit
<1>11. CASE Saved \/ CommandSaved
  <2>1. UNCHANGED <<mode, wakeup, alarm, events>>
    BY <1>11 DEF Saved, CommandSaved, rtcVars
  <2>2. pc' = pc \/ (pc # "exited" /\ pc' \notin {"wait", "deploying", "arm"})
    BY <1>11 DEF Saved, CommandSaved
  <2> QED  BY <2>1, <2>2 DEF Wakes
<1>12. CASE SignalTx \/ SignalEdl
  <2>1. /\ UNCHANGED <<mode, alarm, wakeup>> /\ events \subseteq events'
        /\ pc' = pc \/ (pc = "boot" /\ pc' = "halted")
    BY <1>12 DEF SignalTx, SignalEdl, NoC3, rtcVars
  <2> QED  BY <2>1 DEF Wakes, Boot, InOrbit
<1>13. CASE CommandFactoryReset
  BY <1>13
     DEF CommandFactoryReset, NoC3, Boot, rtcVars, Wakes, InOrbit
<1>14. CASE ArmTx \/ ArmEdl
  <2>1. alarm["A"] # NoAlarm => alarm'["A"] # NoAlarm
    BY <1>14, StampNat, StampAlarmTypes DEF ArmTx, ArmEdl
  <2> QED  BY <1>14, <2>1 DEF ArmTx, ArmEdl, c3Vars, Wakes
<1>15. CASE Shell
  <2>1. (alarm["A"] # NoAlarm => alarm'["A"] # NoAlarm) /\ events \subseteq events'
    BY <1>15, EnableTypes DEF Shell
  <2> QED  BY <1>15, <2>1 DEF Shell, Wakes
<1>16. CASE Tick
  <2>1. UNCHANGED <<mode, pc, wakeup>>
    BY <1>16 DEF Tick
  <2>2. pc = "wait" => "WAKEUP" \in events' \/ UNCHANGED <<alarm, events>>
    BY <1>16 DEF Tick, CallbackSet
  <2> QED  BY <2>1, <2>2 DEF Wakes
<1>17. CASE PeriodicWakeup
  BY <1>17
     DEF PeriodicWakeup, rtcVars, Wakes, InOrbit
<1>18. CASE CommandSetTime \/ CommandOther \/ CommandReset \/ StopC3
            \/ C3Joined \/ CommandTx \/ AcceptFrame \/ BeaconExit
  <2>1. UNCHANGED <<mode, pc, events, alarm, wakeup>>
    BY <1>18
       DEF CommandSetTime, CommandOther, CommandReset, StopC3, C3Joined,
           CommandTx, AcceptFrame, BeaconExit, c3Vars, rtcVars, edlVars
  <2> QED  BY <2>1 DEF Wakes
<1> QED  BY <1>1, <1>2, <1>3, <1>4, <1>5, <1>6, <1>7, <1>8, <1>9, <1>10, <1>11,
          <1>12, <1>13, <1>14, <1>15, <1>16, <1>17, <1>18
        DEF Next, C3Step, EdlStep, AnyReset

(* What c3StateSave takes is fresh. *)
LEMMA SnapshotFresh ==
  ASSUME buf' = Snapshot', ps'.deployed
  PROVE  Fresh(buf)'
BY DEF Fresh, FreshFor, Snapshot

(* An image stays fresh while it, the state and the alarms stay and events *)
(* are only added ...                                                      *)
LEMMA FreshKept ==
  ASSUME NEW image, Fresh(image), UNCHANGED <<ps, alarm>>, Owed \subseteq Owed'
  PROVE  FreshFor(image, Owed', ps', alarm')
BY DEF Fresh, FreshFor

(* ... while an alarm changes with an event that makes c3 save ...         *)
LEMMA FreshAlarm ==
  ASSUME NEW image, Fresh(image), UNCHANGED ps, Owed \subseteq Owed',
         Owed' \cap {"WAKEUP", "TX", "EDL"} # {}
  PROVE  FreshFor(image, Owed', ps', alarm')
BY DEF Fresh, FreshFor

(* ... while the stamp of TX changes with an event for it ...              *)
LEMMA FreshTx ==
  ASSUME NEW image, Fresh(image), ps'.lastEDL = ps.lastEDL,
         Owed \cup {"TX"} \subseteq Owed'
  PROVE  FreshFor(image, Owed', ps', alarm')
BY DEF Fresh, FreshFor

(* ... and while anything does with an event of EDL. *)
LEMMA FreshEdl ==
  ASSUME NEW image, Fresh(image), "EDL" \in Owed'
  PROVE  FreshFor(image, Owed', ps', alarm')
BY DEF Fresh, FreshFor

(* What is saved and what is about to be. *)
LEMMA DurableStep ==
  ASSUME TypeOK, Boot, BeaconPlace, Wakes, Durable, Next
  PROVE  Durable'
<1>1. CASE AnyReset
  BY <1>1, ResetTypes DEF Durable, InOrbit
<1>2. CASE Restore \/ Predeploy \/ PredeployArm
  <2>1. mode' \notin InOrbit
    BY <1>2 DEF Restore, Predeploy, PredeployArm, GoTo, Boot, Wakes, InOrbit
  <2> QED  BY <2>1 DEF Durable
<1>3. CASE Deploy
  <2>1. ~MustDeploy => pc' \in {"acquire", "writing"} /\ buf' = Snapshot'
    BY <1>3 DEF Deploy, GoTo, StateSave
  <2>2. ~MustDeploy => ps'.deployed
    BY <1>3 DEF Deploy, MustDeploy, TypeOK, StateTypes, States
  <2>3. MustDeploy => mode' \notin InOrbit
    BY <1>3 DEF Deploy, InOrbit
  <2> QED  BY <2>1, <2>2, <2>3, SnapshotFresh DEF Durable
<1>4. CASE Deployed \/ Wake
  <2>1. UNCHANGED <<mode, ps>>
    BY <1>4 DEF Deployed, Wake, StateSave
  <2>2. mode # "PREDEPLOY" => pc' \in {"acquire", "writing"} /\ buf' = Snapshot'
    BY <1>4 DEF Deployed, Wake, StateSave
  <2>3. mode \in InOrbit => mode # "PREDEPLOY" /\ ps.deployed
    BY DEF BeaconPlace, InOrbit
  <2> QED  BY <2>1, <2>2, <2>3, SnapshotFresh DEF Durable
<1>5. CASE StandbyBeacon \/ Edl
  <2>1. /\ mode \in InOrbit /\ pc \in {"loop", "stopBeacon"}
        /\ UNCHANGED <<ps, events, fram, edl>>
    BY <1>5 DEF StandbyBeacon, Edl, AtTests, InOrbit, edlVars
  <2>2. \/ pc' = "wait" /\ UNCHANGED alarm
        \/ pc' \in {"acquire", "writing"} /\ buf' = Snapshot'
    BY <1>5 DEF StandbyBeacon, Edl, GoTo, WaitEvents, StateSave, rtcVars
  <2>3. CASE pc' = "wait" /\ UNCHANGED alarm
    BY <2>1, <2>3 DEF Durable, EdlBusy, Owed, Fresh
  <2>4. CASE pc' \in {"acquire", "writing"} /\ buf' = Snapshot'
    <3>1. ps'.deployed
      BY <2>1 DEF BeaconPlace
    <3> QED  BY <2>4, <3>1, SnapshotFresh DEF Durable
  <2> QED  BY <2>2, <2>3, <2>4
<1>6. CASE Saved
  <2>1. UNCHANGED <<mode, ps, events, alarm>> /\ pc = "writing" /\ fram' = buf
    BY <1>6 DEF Saved, rtcVars
  <2>2. pc' \in {"loop", "halted"} /\ (edl' = edl \/ edl' = "writing")
    BY <1>6 DEF Saved
  <2> QED  BY <2>1, <2>2 DEF Durable, EdlBusy, Owed, Fresh
<1>7. CASE StopBeacon
  <2>1. /\ UNCHANGED <<mode, ps, events, alarm, fram, edl>>
        /\ pc = "loop" /\ pc' = "stopBeacon"
    BY <1>7 DEF StopBeacon, rtcVars, edlVars
  <2> QED  BY <2>1 DEF Durable, EdlBusy, Owed, Fresh
<1>8. CASE Exit \/ CommandReset \/ CommandSaved \/ StopC3 \/ C3Joined
           \/ CommandFactoryReset
  <2>1. pc' \in {"exited", "halted"} \/ ~(edl = "idle" \/ EdlBusy)'
    BY <1>8
       DEF Exit, CommandReset, CommandSaved, StopC3, C3Joined, CommandFactoryReset, EdlBusy
  <2> QED  BY <2>1 DEF Durable
<1>9. CASE CommandTx
  <2>1. UNCHANGED <<mode, pc, buf, fram, events>> /\ edl = "idle" /\ edl' \in {"txOn",
         "txOff"}
    BY <1>9 DEF CommandTx, c3Vars
  <2>2. ps'.lastEDL = ps.lastEDL
    BY <1>9, StampTypes DEF CommandTx
  <2>3. Owed \cup {"TX"} \subseteq Owed'
    BY <2>1 DEF Owed
  <2> QED  BY <2>1, <2>2, <2>3, FreshTx DEF Durable, Fresh
<1>10. CASE AcceptFrame
  <2>1. UNCHANGED <<mode, pc, buf, fram, events>> /\ edl = "enable"
    BY <1>10 DEF AcceptFrame, c3Vars
  <2>2. mode \in InOrbit => edl' = "edlOn"
    BY <1>10 DEF AcceptFrame, InOrbit
  <2>3. mode \in InOrbit => "EDL" \in Owed'
    BY <2>2 DEF Owed
  <2> QED  BY <2>1, <2>3, FreshEdl DEF Durable, EdlBusy, Fresh
<1>11. CASE ArmTx \/ ArmEdl
  <2>1. /\ UNCHANGED <<mode, pc, buf, fram, ps, events>> /\ EdlBusy
        /\ Owed' = Owed /\ Owed \cap {"TX", "EDL"} # {}
    BY <1>11 DEF ArmTx, ArmEdl, c3Vars, Owed, EdlBusy
  <2> QED  BY <2>1, FreshAlarm DEF Durable, Fresh
<1>12. CASE SignalTx \/ SignalEdl
  <2>1. /\ UNCHANGED <<mode, buf, fram, ps, alarm>> /\ EdlBusy
        /\ pc' = pc \/ pc' = "halted"
    BY <1>12 DEF SignalTx, SignalEdl, EdlBusy, rtcVars
  <2>2. pc' = pc => Owed \subseteq Owed'
    <3>1. NoC3 => pc # "halted"
      BY DEF NoC3
    <3> QED  BY <1>12, <3>1 DEF SignalTx, SignalEdl, NoC3, Owed
  <2> QED  BY <2>1, <2>2, FreshKept DEF Durable, Fresh
<1>13. CASE Shell
  <2>1. UNCHANGED <<mode, pc, buf, fram, edl>>
    BY <1>13 DEF Shell
  <2>2. PICK on \in BOOLEAN : TxEnable(on) \/ EdlEnable(on)
    BY <1>13 DEF Shell
  <2>3. CASE TxEnable(on)
    <3>1. Owed \cup {"TX"} \subseteq Owed'
      BY <2>1, <2>3 DEF TxEnable, Owed
    <3>2. ps'.lastEDL = ps.lastEDL
      BY <2>3, StampTypes DEF TxEnable
    <3> QED  BY <2>1, <3>1, <3>2, FreshTx DEF Durable, EdlBusy, Fresh
  <2>4. CASE EdlEnable(on)
    <3>1. mode \in InOrbit => "EDL" \in Owed'
      BY <2>4 DEF EdlEnable, Owed, InOrbit
    <3> QED  BY <2>1, <3>1, FreshEdl DEF Durable, EdlBusy, Fresh
  <2> QED  BY <2>2, <2>3, <2>4
<1>14. CASE Tick
  <2>1. UNCHANGED <<mode, pc, buf, fram, ps, edl>>
    BY <1>14 DEF Tick, edlVars
  <2>2. events' = events \cup {"WAKEUP"} \/ UNCHANGED <<alarm, events>>
    BY <1>14 DEF Tick
  <2>3. /\ Owed \subseteq Owed'
        /\ "WAKEUP" \in Owed' \/ UNCHANGED alarm
    BY <2>1, <2>2 DEF Owed
  <2> QED  BY <2>1, <2>3, FreshAlarm, FreshKept DEF Durable, EdlBusy, Fresh
<1>15. CASE CommandSetTime \/ CommandOther \/ PeriodicWakeup \/ BeaconExit
  <2>1. /\ UNCHANGED <<mode, pc, buf, fram, ps, alarm>> /\ events \subseteq events'
        /\ edl' = edl \/ (edl = "idle" /\ edl' = "enable")
    BY <1>15
       DEF CommandSetTime, CommandOther, PeriodicWakeup, BeaconExit, c3Vars,
           rtcVars, edlVars
  <2>2. Owed \subseteq Owed'
    BY <2>1 DEF Owed
  <2> QED  BY <2>1, <2>2, FreshKept DEF Durable, EdlBusy, Fresh
<1> QED  BY <1>1, <1>2, <1>3, <1>4, <1>5, <1>6, <1>7, <1>8, <1>9, <1>10, <1>11,
          <1>12, <1>13, <1>14, <1>15
        DEF Next, C3Step, EdlStep, AnyReset
----------------------------------------------------------------------------
(* The inductive invariant. *)
IInv ==
  TypeOK /\ AttemptBound /\ Boot /\ DeployedKnown /\ BeaconPlace /\ Wakes /\ Durable

(* It holds of a board that was never switched on.                         *)
LEMMA InitIInv == Init => IInv
<1> SUFFICES ASSUME Init PROVE IInv
  OBVIOUS
<1>1. ControlTypes /\ FlagTypes
  BY DEF Init, ControlTypes, FlagTypes, Modes, Events
<1>2. CounterTypes
  BY ConstTypes DEF Init, CounterTypes
<1>3. ClockTypes
  BY ConstTypes DEF Init, ClockTypes, Alarms
<1>4. StateTypes
  BY DefaultType DEF Init, StateTypes
<1>5. AttemptBound /\ Boot /\ DeployedKnown /\ BeaconPlace /\ Wakes /\ Durable
  BY DEF Init, AttemptBound, Boot, DeployedKnown, Recorded, BeaconPlace, Wakes, Durable,
         InOrbit, Invalid
<1> QED  BY <1>1, <1>2, <1>3, <1>4, <1>5 DEF IInv, TypeOK

(* A stuttering step changes nothing that it speaks of. *)
LEMMA StutterIInv ==
  ASSUME IInv, UNCHANGED vars
  PROVE  IInv'
<1>1. UNCHANGED <<mode, pc, events, attempts, bootTime, resetting, buf, ps, fram, bus,
                  now, alarm, wakeup, beacon, edl, job, edlBuf, term, contacts, crashes>>
  BY DEF vars, c3Vars, rtcVars, edlVars
<1>2. TypeOK'
  BY <1>1 DEF IInv, TypeOK, ControlTypes, FlagTypes, CounterTypes, ClockTypes, StateTypes
<1>3. (AttemptBound /\ Boot /\ DeployedKnown)'
  BY <1>1 DEF IInv, AttemptBound, Boot, DeployedKnown, Recorded
<1>4. (BeaconPlace /\ Wakes /\ Durable)'
  BY <1>1 DEF IInv, BeaconPlace, Wakes, Durable, EdlBusy, Owed, Fresh
<1> QED  BY <1>2, <1>3, <1>4 DEF IInv

(* Every step keeps it, a step at a time and a part at a time. *)
LEMMA StepIInv == IInv /\ [Next]_vars => IInv'
<1>1. CASE ~(IInv /\ [Next]_vars)
  BY <1>1
<1>2. CASE IInv /\ UNCHANGED vars
  BY <1>2, StutterIInv
<1>3. CASE IInv /\ Next
  <2>1. /\ TypeOK /\ AttemptBound /\ Boot /\ DeployedKnown
        /\ BeaconPlace /\ Wakes /\ Durable /\ Next
    BY <1>3 DEF IInv
  <2>2. FlagTypes' /\ ClockTypes'
    BY <2>1, FlagStep, ClockStep
  <2>3. TypeOK'
    BY <2>1, <2>2, ControlStep, CounterStep, StateStep DEF TypeOK
  <2>4. AttemptBound' /\ Boot' /\ DeployedKnown' /\ BeaconPlace' /\ Wakes' /\ Durable'
    BY <2>1, AttemptStep, BootStep, DeployedKnownStep, BeaconPlaceStep, WakesStep,
           DurableStep
  <2> QED  BY <2>3, <2>4 DEF IInv
<1> QED  BY <1>1, <1>2, <1>3

(* Only Deploy turns the heaters on, and what it tests in RAM is what any  *)
(* valid image says.                                                       *)
LEMMA DeployOnly ==
  ASSUME DeployedKnown, Next, pc # "deploying", pc' = "deploying"
  PROVE  ~(fram.valid /\ fram.state.deployed)
<1>1. Deploy
  <2>1. ~AnyReset
    BY DEF AnyReset, SoftReset, SoftResetUnsaved, HardReset, FactoryReset, WatchdogReset,
       Crash, Reset
  <2>2. ~(Restore \/ Predeploy \/ PredeployArm \/ Deployed \/ StopBeacon
            \/ StandbyBeacon \/ Edl \/ Wake \/ Saved \/ Exit)
    BY DEF Restore, Predeploy, PredeployArm, Deployed, StopBeacon, StandbyBeacon, Edl,
           Wake, Saved, Exit, GoTo, WaitEvents, StateSave
  <2>3. ~(CommandTx \/ CommandSetTime \/ CommandOther \/ CommandReset
            \/ CommandFactoryReset \/ Shell)
    BY DEF CommandTx, CommandSetTime, CommandOther, CommandReset, CommandFactoryReset,
           Shell, c3Vars
  <2>4. ~(AcceptFrame \/ CommandSaved \/ StopC3 \/ C3Joined)
    BY DEF AcceptFrame, CommandSaved, StopC3, C3Joined, c3Vars
  <2>6. ~(ArmTx \/ SignalTx \/ ArmEdl \/ SignalEdl)
    BY DEF ArmTx, SignalTx, ArmEdl, SignalEdl, c3Vars
  <2>5. ~(Tick \/ PeriodicWakeup \/ BeaconExit)
    BY DEF Tick, PeriodicWakeup, BeaconExit, c3Vars
  <2> QED  BY <2>1, <2>2, <2>3, <2>4, <2>5, <2>6 DEF Next, C3Step, EdlStep, AnyReset
<1>2. MustDeploy
  BY <1>1 DEF Deploy, GoTo, StateSave
<1> QED  BY <1>2 DEF MustDeploy, DeployedKnown, Recorded

----------------------------------------------------------------------------
(* Whatever the ground sends and whenever power is lost, the system stays  *)
(* in the states of IInv.                                                  *)
THEOREM C3Invariant == Spec => []IInv
<1>1. Init => IInv
  BY InitIInv
<1>2. IInv /\ [Next]_vars => IInv'
  BY StepIInv
<1> QED  BY <1>1, <1>2, PTL DEF Spec

(* Every variable keeps its type; an alarm always fits its register.       *)
THEOREM C3TypeCorrect == Spec => []TypeOK
<1>1. IInv => TypeOK
  BY DEF IInv
<1> QED  BY <1>1, C3Invariant, PTL

(* No beacon thread before the antennas are out, nor while c3 sleeps in a  *)
(* mode other than BEACON.                                                 *)
THEOREM BeaconOffUntilDeployed == Spec => []BeaconOff
<1>1. IInv => BeaconOff
  BY DEF IInv, BeaconPlace, BeaconOff, Asleep
<1> QED  BY <1>1, C3Invariant, PTL

(* c3 never sleeps without an alarm or the periodic wakeup to wake it.     *)
THEOREM AlwaysWakes == Spec => []WakeSource
<1>1. IInv => WakeSource
  <2> SUFFICES ASSUME IInv, Asleep
               PROVE  IF mode = "PREDEPLOY"
                      THEN \E a \in {"A", "B"} : alarm[a] # NoAlarm
                      ELSE wakeup
    BY DEF WakeSource
  <2>1. mode \in Modes /\ pc = "wait" /\ Wakes
    BY DEF IInv, TypeOK, ControlTypes, Asleep
  <2>2. "WAKEUP" \in EventMask(mode)
    BY <2>1 DEF EventMask, Events, Modes
  <2>3. "WAKEUP" \notin events
    BY <2>2 DEF Asleep
  <2> QED  BY <2>1, <2>3 DEF Wakes, InOrbit, Modes
<1> QED  BY <1>1, C3Invariant, PTL

(* Whenever c3 sleeps after deployment and no command is under way, FRAM   *)
(* holds what a power loss must not lose: the deployed flag, the EDL time, *)
(* and outside EDL the whole state and the alarms.                         *)
THEOREM SleepsDurably == Spec => []DurableWhenAsleep
<1>1. IInv => DurableWhenAsleep
  <2> SUFFICES ASSUME IInv, Asleep, edl = "idle", mode \in {"STANDBY", "BEACON", "EDL"}
               PROVE  /\ fram.valid
                      /\ fram.state.deployed
                      /\ fram.state.lastEDL = ps.lastEDL
                      /\ mode # "EDL" => fram.state = ps /\ fram.alarm = alarm
    BY DEF DurableWhenAsleep
  <2>1. Fresh(fram)
    BY DEF IInv, Durable, InOrbit, Asleep
  <2>2. events \cap EventMask(mode) = {}
    BY DEF Asleep
  <2>3. "EDL" \notin events
    <3>1. "EDL" \in EventMask(mode)
      BY DEF EventMask, Events
    <3> QED  BY <2>2, <3>1
  <2>4. mode # "EDL" => events \cap {"WAKEUP", "TX", "EDL"} = {}
    <3>1. mode # "EDL" => EventMask(mode) = Events
      BY DEF EventMask
    <3> QED  BY <2>2, <3>1 DEF Events
  <2>5. Owed = events
    BY DEF Owed
  <2> QED  BY <2>1, <2>3, <2>4, <2>5 DEF Fresh, FreshFor
<1> QED  BY <1>1, C3Invariant, PTL

(* The antennas are not fired again while a valid image in FRAM says that  *)
(* they are out, whatever crashes and resets came in between.              *)
THEOREM NeverRedeploys == Spec => NoRedeploy
<1>1. IInv /\ [Next]_vars =>
        [pc # "deploying" /\ pc' = "deploying" =>
           ~(fram.valid /\ fram.state.deployed)]_vars
  BY DeployOnly DEF IInv
<1> QED  BY <1>1, C3Invariant, PTL DEF Spec, NoRedeploy

----------------------------------------------------------------------------
(* The two savers and the bus of the FRAM: it belongs to the one that is   *)
(* in its transfer; a saver that waits waits for the other, never for a    *)
(* bus that is free, so each wait ends with a transfer.  What a saver      *)
(* holds is a whole image, and a thread that was joined saves no more.     *)
SaveBus ==
  /\ bus = "c3" <=> pc = "writing"
  /\ bus = "edl" <=> edl = "writing"
  /\ pc = "acquire" => bus = "edl"
  /\ edl = "acquire" => bus = "c3"
  /\ pc \in {"acquire", "writing"} => buf.valid
  /\ edl \in {"acquire", "writing"} => edlBuf.valid /\ job # "factory"
  /\ edl = "erased" \/ (edl = "others" /\ term) => pc = "exited"
  /\ term => edl \in {"join", "others", "erased"}

(* A step of c3 outside StateSave neither takes nor gives the bus. *)
LEMMA SaveKeepsBus ==
  ASSUME TypeOK, SaveBus, NEW m, StateSave(m), UNCHANGED <<edl, job, edlBuf, term>>,
         pc \in {"loop", "wait", "deploying", "stopBeacon"}
  PROVE  SaveBus'
<1>1. /\ pc' \in {"loop", "acquire", "writing"}
      /\ ~(edl = "erased" \/ (edl = "others" /\ term))
  BY DEF StateSave, SaveBus
<1>2. bus # "c3" /\ edl # "acquire"
  BY DEF SaveBus
<1>3. CASE pc' = "loop"
  <2>1. UNCHANGED <<buf, bus>>
    BY <1>3 DEF StateSave
  <2> QED  BY <1>1, <1>2, <1>3, <2>1 DEF SaveBus
<1>4. CASE pc' # "loop"
  <2>1. buf'.valid
    BY <1>4 DEF StateSave, Snapshot
  <2>2. IF bus = "free" THEN bus' = "c3" /\ pc' = "writing"
                        ELSE pc' = "acquire" /\ bus' = bus
    BY <1>4 DEF StateSave
  <2>3. bus # "free" => bus = "edl"
    BY <1>2 DEF TypeOK, ControlTypes
  <2> QED  BY <1>1, <1>2, <2>1, <2>2, <2>3 DEF SaveBus
<1> QED  BY <1>3, <1>4

LEMMA SaveBusStep ==
  ASSUME TypeOK, SaveBus, [Next]_vars
  PROVE  SaveBus'
<1>1. CASE AnyReset
  <2>1. /\ pc' = "boot" /\ bus' = "free" /\ edl' = "idle" /\ term' = FALSE
    BY <1>1, ResetTypes
  <2> QED  BY <2>1 DEF SaveBus
<1>2. CASE Wake \/ Deployed
  <2>1. /\ StateSave(mode) /\ UNCHANGED <<edl, job, edlBuf, term>>
        /\ pc \in {"wait", "deploying"}
    BY <1>2 DEF Wake, Woken, Deployed, edlVars
  <2> QED  BY <2>1, SaveKeepsBus
<1>3. CASE Predeploy \/ Deploy \/ StandbyBeacon \/ Edl
  <2>1. UNCHANGED <<edl, job, edlBuf, term>> /\ pc \in {"loop", "stopBeacon"}
    BY <1>3 DEF Predeploy, Deploy, StandbyBeacon, Edl, AtTests, edlVars
  <2>2. CASE \E m : StateSave(m)
    BY <2>1, <2>2, SaveKeepsBus
  <2>3. CASE pc' \in {"arm", "wait", "deploying"} /\ UNCHANGED <<buf, bus>>
    BY <2>1, <2>3 DEF SaveBus
  <2>4. \/ \E m : StateSave(m)
        \/ pc' \in {"arm", "wait", "deploying"} /\ UNCHANGED <<buf, bus>>
    BY <1>3 DEF Predeploy, Deploy, StandbyBeacon, Edl, GoTo, WaitEvents
  <2> QED  BY <2>2, <2>3, <2>4
<1>4. CASE Saved
  <2>1. pc = "writing" /\ pc' \in {"halted", "loop"} /\ UNCHANGED <<job, edlBuf, term>>
    BY <1>4 DEF Saved
  <2>2. IF edl = "acquire" THEN bus' = "edl" /\ edl' = "writing"
                           ELSE bus' = "free" /\ edl' = edl
    BY <1>4 DEF Saved
  <2> QED  BY <2>1, <2>2 DEF SaveBus
<1>5. CASE CommandSaved
  <2>1. edl = "writing" /\ edl' = "saved" /\ UNCHANGED <<buf, job, term>>
    BY <1>5 DEF CommandSaved
  <2>2. IF pc = "acquire" THEN bus' = "c3" /\ pc' = "writing"
                          ELSE bus' = "free" /\ pc' = pc
    BY <1>5 DEF CommandSaved
  <2> QED  BY <2>1, <2>2 DEF SaveBus
<1>6. CASE CommandReset
  <2>1. UNCHANGED <<pc, buf, term>> /\ edl = "idle" /\ job' # "factory"
    BY <1>6 DEF CommandReset, c3Vars
  <2>2. \/ edl' = "saved" /\ UNCHANGED <<edlBuf, bus>>
        \/ /\ edlBuf'.valid
           /\ IF bus = "free" THEN bus' = "edl" /\ edl' = "writing"
                              ELSE edl' = "acquire" /\ bus' = bus
    BY <1>6 DEF CommandReset, Snapshot
  <2>3. bus \in {"free", "c3"}
    BY <2>1 DEF SaveBus, TypeOK, ControlTypes
  <2> QED  BY <2>1, <2>2, <2>3 DEF SaveBus
<1>7. CASE C3Joined \/ StopC3 \/ CommandFactoryReset
  <2>1. /\ edl \in {"join", "saved", "idle"} /\ edl' \notin {"acquire", "writing"}
        /\ UNCHANGED <<bus, buf>> /\ (pc' = pc \/ (pc = "boot" /\ pc' = "halted"))
        /\ term' => term \/ edl' = "join"
        /\ edl = "join" => edl' \in {"others", "erased"}
    BY <1>7 DEF C3Joined, StopC3, CommandFactoryReset, NoC3, c3Vars
  <2>2. edl' = "erased" \/ (edl' = "others" /\ term') => pc' = "exited"
    <3>1. CASE C3Joined
      BY <3>1 DEF C3Joined, c3Vars
    <3>2. CASE StopC3
      BY <3>2 DEF StopC3, SaveBus
    <3>3. CASE CommandFactoryReset
      BY <3>3 DEF CommandFactoryReset
    <3> QED  BY <1>7, <3>1, <3>2, <3>3
  <2> QED  BY <2>1, <2>2 DEF SaveBus
<1>8. CASE Restore \/ PredeployArm \/ StopBeacon \/ Exit
  <2>1. /\ pc \in {"boot", "arm", "loop"}
        /\ pc' \in {"loop", "wait", "stopBeacon", "exited"}
        /\ UNCHANGED <<bus, buf, edl, edlBuf, job, term>>
    BY <1>8 DEF Restore, PredeployArm, StopBeacon, Exit, edlVars
  <2> QED  BY <2>1 DEF SaveBus
<1>9. CASE SignalTx
  <2>1. /\ UNCHANGED <<bus, buf, edlBuf, job, term>> /\ edl = "txSignal"
        /\ \/ pc = "boot" /\ pc' = "halted" /\ edl' = edl
           \/ pc' = pc /\ edl' = "enable"
    BY <1>9 DEF SignalTx, NoC3
  <2> QED  BY <2>1 DEF SaveBus
<1>10. CASE CommandTx \/ ArmTx \/ AcceptFrame \/ ArmEdl \/ SignalEdl \/ CommandSetTime
       \/ CommandOther \/ Shell \/ Tick
           \/ PeriodicWakeup \/ BeaconExit \/ UNCHANGED vars
  <2>1. /\ UNCHANGED <<pc, bus, buf, edlBuf, job, term>>
        /\ edl' = edl \/ ((edl = "idle" \/ EdlBusy) /\ (edl = "idle" \/ EdlBusy)')
    BY <1>10 DEF CommandTx, ArmTx, AcceptFrame, ArmEdl, SignalEdl, EdlBusy,
           CommandSetTime, CommandOther, Shell, Tick, PeriodicWakeup,
       BeaconExit, vars, c3Vars, edlVars
  <2> QED  BY <2>1 DEF SaveBus, EdlBusy
<1> QED  BY <1>1, <1>2, <1>3, <1>4, <1>5, <1>6, <1>7, <1>8, <1>9, <1>10
        DEF Next, C3Step, EdlStep, AnyReset

(* Nobody waits for a bus that nobody will give back: at no time do both   *)
(* savers wait, and no saver waits for a free bus.                         *)
THEOREM C3SaveBus == Spec => []SaveBus
<1>1. Init => SaveBus
  BY DEF Init, SaveBus
<1>2. IInv /\ SaveBus /\ [Next]_vars => SaveBus'
  BY SaveBusStep DEF IInv
<1> QED  BY <1>1, <1>2, C3Invariant, PTL DEF Spec

(* What a reset outside a transfer leaves in FRAM. *)
LEMMA ResetImage ==
  ASSUME bus = "free",
         SoftResetUnsaved \/ HardReset \/ FactoryReset \/ WatchdogReset \/ Crash
  PROVE  fram' = fram
BY DEF SoftResetUnsaved, HardReset, FactoryReset, WatchdogReset, Crash, Reset, CutOff

(* The steps that write FRAM. *)
LEMMA FramWrites ==
  ASSUME Next, fram' # fram
  PROVE  \/ Saved \/ CommandSaved \/ C3Joined
         \/ AnyReset
<1>1. ~(Restore \/ Predeploy \/ PredeployArm \/ Deploy \/ Deployed \/ StopBeacon
          \/ StandbyBeacon \/ Edl \/ Wake \/ Exit)
  BY DEF Restore, Predeploy, PredeployArm, Deploy, Deployed, StopBeacon, StandbyBeacon, Edl,
     Wake, Exit
<1>2. ~(CommandTx \/ CommandSetTime \/ CommandOther \/ CommandReset
          \/ CommandFactoryReset \/ Shell)
  BY DEF CommandTx, CommandSetTime, CommandOther, CommandReset, CommandFactoryReset, Shell
<1>3. ~(ArmTx \/ SignalTx \/ AcceptFrame \/ ArmEdl \/ SignalEdl \/ StopC3
          \/ Tick \/ PeriodicWakeup \/ BeaconExit)
  BY DEF ArmTx, SignalTx, AcceptFrame, ArmEdl, SignalEdl, StopC3, Tick, PeriodicWakeup,
     BeaconExit
<1> QED  BY <1>1, <1>2, <1>3 DEF Next, C3Step, EdlStep, AnyReset

(* A valid image in FRAM is lost to two things only: the erasure a factory *)
(* reset is there for, and a reset in the middle of a transfer.            *)
THEOREM ImageSurvives ==
  Spec => [][fram.valid /\ ~fram'.valid =>
               (edl = "join" /\ job = "factory") \/ bus # "free"]_vars
<1>1. IInv /\ SaveBus /\ [Next]_vars =>
        [fram.valid /\ ~fram'.valid =>
           (edl = "join" /\ job = "factory") \/ bus # "free"]_vars
  <2> SUFFICES ASSUME IInv, SaveBus, Next, fram.valid, ~fram'.valid, bus = "free"
               PROVE  edl = "join" /\ job = "factory"
    OBVIOUS
  <2>1. fram' # fram
    OBVIOUS
  <2>2. ~(Saved \/ CommandSaved \/ SoftReset)
    BY DEF Saved, CommandSaved, SoftReset, SaveBus
  <2>3. ~AnyReset
    BY <2>1, <2>2, ResetImage DEF AnyReset
  <2>4. C3Joined
    BY <2>1, <2>2, <2>3, FramWrites
  <2> QED  BY <2>1, <2>4 DEF C3Joined
<1> QED  BY <1>1, C3Invariant, C3SaveBus, PTL DEF Spec

(* The run c3_soft_reset shows that a soft reset can cut off c3's save.    *)
(* That is the only loss a commanded reset can cause: a soft reset while   *)
(* c3 does not wait for the bus finds the image it saved, and a hard or    *)
(* factory reset that has joined c3 leaves FRAM as it is.                  *)
THEOREM ResetsKeepImage ==
  Spec => [][/\ SoftReset /\ pc # "acquire" => fram'.valid
             /\ (HardReset /\ term) \/ FactoryReset => fram' = fram]_vars
<1>1. IInv /\ SaveBus /\ [Next]_vars =>
        [/\ SoftReset /\ pc # "acquire" => fram'.valid
         /\ (HardReset /\ term) \/ FactoryReset => fram' = fram]_vars
  <2> SUFFICES ASSUME IInv, SaveBus
               PROVE  /\ SoftReset /\ pc # "acquire" => fram'.valid
                      /\ (HardReset /\ term) \/ FactoryReset => fram' = fram
    OBVIOUS
  <2>1. ASSUME SoftReset, pc # "acquire"
        PROVE  fram'.valid
    <3>1. Reset({edlBuf}) /\ edlBuf.valid
      BY <2>1 DEF SoftReset, SaveBus
    <3> QED  BY <3>1 DEF Reset
  <2>2. ASSUME (HardReset /\ term) \/ FactoryReset
        PROVE  fram' = fram
    <3>1. edl \in {"others", "erased"} /\ pc = "exited"
      BY <2>2 DEF HardReset, FactoryReset, SaveBus
    <3>2. bus = "free"
      BY <3>1 DEF SaveBus, IInv, TypeOK, ControlTypes
    <3> QED  BY <2>2, <3>2, ResetImage
  <2> QED  BY <2>1, <2>2
<1> QED  BY <1>1, C3Invariant, C3SaveBus, PTL DEF Spec
=============================================================================
