--------------------------------- MODULE C3 ---------------------------------
(***************************************************************************)
(* The flight computer's mode logic, app_control/source/c3.c: the c3       *)
(* thread steps through PREDEPLOY, DEPLOY, STANDBY, BEACON and EDL, sleeps *)
(* on events between two steps, and saves its state to FRAM after each.    *)
(* With it: the RTC with its alarms and periodic wakeup, the beacon thread *)
(* it starts and joins, the EDL thread (priority below c3) that executes   *)
(* ground commands, resets and power losses.                               *)
(*                                                                         *)
(* c3 outranks the threads that send it commands: they run only while it   *)
(* is blocked, in chEvtWaitAny, a FRAM transfer, a join or a sleep.        *)
(* Interrupts run at any time.                                             *)
(*                                                                         *)
(* Left out: telemetry counters, the contents of beacons, what is sent on  *)
(* request from the ground (module Link), and the other workers that a     *)
(* hard reset stops (module Workers).                                      *)
(***************************************************************************)
EXTENDS Integers, FiniteSets

CONSTANTS
  Epoch,         \* CHIBIOS_EPOCH, the time of an RTC that lost power
  DeployDelay,   \* x6002 deploymentControl.timeout
  EdlTimeout,    \* x6001 stateControl.EDL_Timeout
  TxTimeout,     \* x6003 TX_Control.timeout
  ResetTimeout,  \* x6001 stateControl.resetTimeout
  MaxAttempts,   \* x6002 deploymentControl.attempts
  Month,         \* an alarm holds a day of the month, it matches every month
  MaxTime,       \* BOUND: the last instant of the model
  LastContact,   \* BOUND: the ground sends nothing after this instant
  SetTimes,      \* the times the ground sets the clock to
  MaxContacts,   \* BOUND: number of commands
  MaxCrashes     \* BOUND: number of crashes and power losses

ASSUME C3Assumption ==
  /\ {DeployDelay, EdlTimeout, TxTimeout, ResetTimeout, MaxAttempts} \subseteq Nat
  /\ {MaxContacts, MaxCrashes} \subseteq Nat
  /\ Epoch \in Nat /\ Month \in Nat \ {0}
  \* the Unix time 0 of a time stamp never set is long past
  /\ \A t \in {EdlTimeout, TxTimeout} : Epoch >= t
  /\ MaxTime \in Nat /\ MaxTime >= Epoch
  /\ LastContact \in Epoch .. MaxTime
  /\ SetTimes \subseteq Epoch .. MaxTime

VARIABLES
  mode,      \* x6000_C3_State
  pc,        \* where the c3 thread is; "halted": the whole system has stopped
  events,    \* pending events of the c3 thread
  attempts,  \* deployment attempts, a static of the c3 thread
  bootTime,  \* boot_time
  resetting, \* c3 is inside hard_reset()
  buf,       \* what c3 is writing to FRAM
  ps,        \* OD_PERSIST_STATE in RAM
  fram,      \* its copy in FRAM
  bus,       \* owner of the FRAM's I2C bus
  now,       \* the RTC calendar
  alarm,     \* ALARM_A and ALARM_B
  wakeup,    \* the periodic wakeup is on
  beacon,    \* the beacon thread
  edl,       \* where the EDL thread is
  job,       \* the reset command it executes
  edlBuf,    \* what it is writing to FRAM
  term,      \* c3's thread is asked to terminate
  contacts,  \* commands so far
  crashes    \* crashes so far

c3Vars  == <<mode, pc, events, attempts, bootTime, resetting, buf>>
rtcVars == <<now, alarm, wakeup>>
edlVars == <<edl, job, edlBuf, term, contacts>>
vars == <<c3Vars, ps, fram, bus, rtcVars, beacon, edlVars, crashes>>

Modes  == {"PREDEPLOY", "DEPLOY", "STANDBY", "BEACON", "EDL"}
Events == {"WAKEUP", "TERMINATE", "TX", "EDL"}

NoAlarm == -1
Times == Epoch .. MaxTime
Stamps == {0} \cup Times        \* a time stamp in OD_PERSIST_STATE

Invalid == [valid |-> FALSE]    \* FRAM contents whose CRC does not match
DefaultState == [lastTX |-> 0, lastEDL |-> 0, deployed |-> FALSE]

----------------------------------------------------------------------------
(* Helpers of c3.c.  A definition called a variant is a plausible mistake  *)
(* in the one after it; nothing uses it but the mutants in PROJECT.json.   *)

PREDEPLOY_ALARM == "A"
EDL_ALARM == "A"
RESET_ALARM == "A"
TxAlarmShared == "A"      \* variant
TX_ENABLE_ALARM == "B"

SetAlarmDate(a, t) == [alarm EXCEPT ![a] = t]   \* variant: a full date

(* set_alarm: the register holds day of month and time of day. *)
SetAlarm(a, t) == [alarm EXCEPT ![a] = t % Month]

DelayDeploy == now - Epoch < DeployDelay
EdlEnabled == now - ps.lastEDL < EdlTimeout
TxEnabled == now - ps.lastTX < TxTimeout
TriggerResetSwapped == bootTime - now >= ResetTimeout   \* variant
TriggerReset == now - bootTime >= ResetTimeout

(* tx_enable(on) sets the time stamp, then the alarm, from the stamp, and  *)
(* then signals c3.                                                        *)
TxStamp(on) == [ps EXCEPT !.lastTX = IF on THEN now ELSE 0]
TxAlarm(on, stamp) ==
  IF on THEN SetAlarm(TX_ENABLE_ALARM, stamp + TxTimeout)
        ELSE [alarm EXCEPT ![TX_ENABLE_ALARM] = NoAlarm]

(* edl_enable(on) likewise; turning EDL off clears the TX alarm.           *)
EdlStamp(on) == [ps EXCEPT !.lastEDL = IF on THEN now ELSE 0]
EdlAlarm(on, stamp) ==
  IF on THEN SetAlarm(EDL_ALARM, stamp + EdlTimeout)
        ELSE [alarm EXCEPT ![TX_ENABLE_ALARM] = NoAlarm]

(* The whole of each, for the shell, whose calls are taken as one step.    *)
TxEnable(on) ==
  /\ ps' = TxStamp(on)
  /\ alarm' = TxAlarm(on, now)
  /\ events' = events \cup {"TX"}

EdlEnable(on) ==
  IF mode = "PREDEPLOY"
  THEN UNCHANGED <<ps, alarm, events>>
  ELSE /\ ps' = EdlStamp(on)
       /\ alarm' = EdlAlarm(on, now)
       /\ events' = events \cup {"EDL"}

(* c3StateSave up to the transfer: the image of state, clock and alarms.   *)
Snapshot ==
  [valid |-> TRUE, state |-> ps, time |-> now, alarm |-> alarm, wakeup |-> wakeup]

(* persistRestoreGroup: an image with a wrong CRC leaves RAM as it is.     *)
Restored(image, ram) == IF image.valid THEN image.state ELSE ram

EventMaskNoTx(m) == {"WAKEUP", "TERMINATE", "EDL"}      \* variant
EventMaskNoWakeup(m) ==                                 \* variant
  CASE m \in {"PREDEPLOY", "DEPLOY"} -> {"WAKEUP", "TERMINATE"}
    [] m \in {"STANDBY", "BEACON"}   -> Events
    [] m = "EDL"                     -> {"TERMINATE", "EDL"}

(* The events each case of the switch waits for.  C3_EVENT_BAT is left     *)
(* out: nothing signals it.                                                *)
EventMask(m) ==
  CASE m \in {"PREDEPLOY", "DEPLOY"} -> {"WAKEUP", "TERMINATE"}
    [] m \in {"STANDBY", "BEACON"}   -> Events
    [] m = "EDL"                     -> {"WAKEUP", "TERMINATE", "EDL"}

Woken == pc = "wait" /\ events \cap EventMask(mode) # {}
Asleep == pc = "wait" /\ events \cap EventMask(mode) = {}

C3Blocked ==
  \/ Asleep
  \/ pc \in {"boot", "deploying", "acquire", "writing", "exited"}
  \/ pc = "stopBeacon" /\ beacon # "none"

Running == pc # "halted"

(* Interrupts reach alarmcb while c3 has it registered. *)
CallbackSet == pc \notin {"boot", "exited", "halted"}

----------------------------------------------------------------------------
Init ==
  /\ mode = "PREDEPLOY" /\ pc = "boot" /\ events = {}
  /\ attempts = 0 /\ bootTime = Epoch /\ resetting = FALSE /\ buf = Invalid
  /\ ps = DefaultState /\ fram = Invalid /\ bus = "free"
  /\ now = Epoch /\ alarm = [a \in {"A", "B"} |-> NoAlarm] /\ wakeup = FALSE
  /\ beacon = "none"
  /\ edl = "idle" /\ job = "none" /\ edlBuf = Invalid /\ term = FALSE
  /\ contacts = 0 /\ crashes = 0

(* A FRAM transfer that a reset cuts off leaves the old image, the new     *)
(* one, or one with a wrong CRC.                                           *)
CutOff ==
  CASE bus = "free" -> {fram}
    [] bus = "c3"   -> {fram, Invalid, buf}
    [] bus = "edl"  -> {fram, Invalid, edlBuf}

(* A reset that may find these images: RAM starts over and                 *)
(* persistRestoreAll reads the FRAM.                                       *)
Reset(images) ==
  /\ \E image \in images :
       /\ fram' = image
       /\ ps' = Restored(image, DefaultState)
  /\ mode' = "PREDEPLOY" /\ pc' = "boot" /\ events' = {}
  /\ attempts' = 0 /\ resetting' = FALSE /\ buf' = Invalid
  /\ bus' = "free" /\ beacon' = "none"
  /\ edl' = "idle" /\ job' = "none" /\ edlBuf' = Invalid /\ term' = FALSE
  /\ bootTime' = Epoch

LoseRtc ==
  /\ now' = Epoch
  /\ alarm' = [a \in {"A", "B"} |-> NoAlarm]
  /\ wakeup' = FALSE

----------------------------------------------------------------------------
(* The c3 thread.                                                          *)

(* Start of the thread: c3StateRestore and the boot time. *)
Restore ==
  /\ pc = "boot"
  /\ pc' = "loop"
  /\ ps' = Restored(fram, ps)
  /\ IF fram.valid
     THEN /\ now' = IF fram.time > now THEN fram.time ELSE now
          /\ alarm' = [a \in {"A", "B"} |->
                         IF fram.alarm[a] # NoAlarm THEN fram.alarm[a] ELSE alarm[a]]
          /\ wakeup' = (wakeup \/ fram.wakeup)
     ELSE UNCHANGED rtcVars
  /\ bootTime' = now'
  /\ UNCHANGED <<mode, events, attempts, resetting, buf, fram, bus, beacon,
                 edlVars, crashes>>

(* c3StateSave on the c3 thread, called in mode m with the values the step *)
(* leaves: nothing in PREDEPLOY; otherwise the snapshot is taken and       *)
(* framWrite takes the bus or waits for it.                                *)
StateSave(m) ==
  \/ m = "PREDEPLOY" /\ pc' = "loop" /\ UNCHANGED <<buf, bus>>
  \/ /\ m # "PREDEPLOY"
     /\ buf' = Snapshot'
     /\ IF bus = "free" THEN bus' = "c3" /\ pc' = "writing"
                        ELSE pc' = "acquire" /\ UNCHANGED bus

(* End of the transfer; the bus goes to the thread that waits for it.      *)
(* hard_reset goes on to stop_workers, which joins the c3 thread from the  *)
(* c3 thread: the kernel's check of chThdWait halts the system.            *)
Saved ==
  /\ pc = "writing"
  /\ fram' = buf
  /\ buf' = Invalid
  /\ pc' = IF resetting THEN "halted" ELSE "loop"
  /\ IF edl = "acquire" THEN bus' = "edl" /\ edl' = "writing"
                        ELSE bus' = "free" /\ UNCHANGED edl
  /\ UNCHANGED <<mode, events, attempts, bootTime, resetting, ps, rtcVars, beacon, job,
                 edlBuf, term, contacts, crashes>>

(* The switch waits for events, or goes to mode m; every case ends in      *)
(* c3StateSave.                                                            *)
WaitEvents == pc' = "wait" /\ UNCHANGED <<mode, buf, bus>>
GoTo(m) == mode' = m /\ StateSave(m)

Wake ==
  /\ Woken
  /\ events' = events \ EventMask(mode)
  /\ UNCHANGED <<mode, attempts, bootTime, resetting, ps, fram, rtcVars, beacon, edlVars,
                 crashes>>
  /\ StateSave(mode)

Predeploy ==
  /\ pc = "loop" /\ ~term /\ mode = "PREDEPLOY"
  /\ UNCHANGED <<events, attempts, bootTime, resetting, ps, fram, rtcVars, beacon, edlVars,
                 crashes>>
  /\ \/ DelayDeploy /\ pc' = "arm" /\ UNCHANGED <<mode, buf, bus>>
     \/ ~DelayDeploy /\ GoTo("DEPLOY")

(* The alarm is set after the check: the RTC may tick in between. *)
PredeployArm ==
  /\ pc = "arm"
  /\ pc' = "wait"
  /\ ps' = [ps EXCEPT !.lastTX = now]
  /\ alarm' = [SetAlarm(PREDEPLOY_ALARM, Epoch + DeployDelay)
                 EXCEPT ![TX_ENABLE_ALARM] = (now + TxTimeout) % Month]
  /\ events' = events \cup {"TX"}
  /\ UNCHANGED <<mode, attempts, bootTime, resetting, buf, fram, bus, now, wakeup, beacon,
                 edlVars, crashes>>

AttemptsLeft == attempts < MaxAttempts   \* variant
MustDeploy == ~ps.deployed /\ attempts < MaxAttempts

WakeupKept == wakeup   \* variant
SaveWakeup == TRUE

(* bat_good() reads what the battery card last reported: low after a       *)
(* reset, and anything from then on.                                       *)
Deploy ==
  /\ pc = "loop" /\ ~term /\ mode = "DEPLOY"
  /\ wakeup' = SaveWakeup
  /\ UNCHANGED <<events, bootTime, resetting, fram, now, alarm, beacon, edlVars, crashes>>
  /\ \/ /\ MustDeploy
        /\ pc' \in {"deploying", "wait"}
        /\ UNCHANGED <<mode, attempts, ps, buf, bus>>
     \/ /\ ~MustDeploy
        /\ ps' = [ps EXCEPT !.deployed = TRUE]
        /\ attempts' = 0
        /\ GoTo("STANDBY")

(* The heaters have been on for their time, c3 asleep meanwhile. *)
Deployed ==
  /\ pc = "deploying"
  /\ attempts' = attempts + 1
  /\ UNCHANGED <<mode, events, bootTime, resetting, ps, fram, rtcVars, beacon, edlVars,
                 crashes>>
  /\ StateSave(mode)

StandbyOnly == {"STANDBY"}   \* variant
QuietModes == {"STANDBY", "EDL"}

(* beacon_enable(false) asks the beacon thread to end and joins it, which  *)
(* takes up to the beacon's sleep.                                         *)
StopBeacon ==
  /\ pc = "loop" /\ ~term /\ mode \in QuietModes /\ beacon = "run"
  /\ beacon' = "stopping"
  /\ pc' = "stopBeacon"
  /\ UNCHANGED <<mode, events, attempts, bootTime, resetting, buf, ps, fram, bus, rtcVars,
                 edlVars, crashes>>

(* Past beacon_enable, at the tests of the mode's case. *)
AtTests ==
  \/ pc = "loop" /\ ~term /\ ~(mode \in QuietModes /\ beacon = "run")
  \/ pc = "stopBeacon" /\ beacon = "none"

BatteryOnly(good) == good   \* variant
MayBeacon(good) == TxEnabled /\ good

(* The tests of STANDBY and BEACON, after beacon_enable(true) in BEACON.   *)
(* hard_reset first saves the state.                                       *)
StandbyBeacon ==
  /\ AtTests /\ mode \in {"STANDBY", "BEACON"}
  /\ beacon' = IF mode = "BEACON" THEN "run" ELSE beacon
  /\ UNCHANGED <<events, attempts, bootTime, ps, fram, rtcVars, edlVars, crashes>>
  /\ \/ EdlEnabled /\ GoTo("EDL") /\ UNCHANGED resetting
     \/ ~EdlEnabled /\ TriggerReset /\ GoTo(mode) /\ resetting' = TRUE
     \/ /\ ~EdlEnabled /\ ~TriggerReset
        /\ UNCHANGED resetting
        /\ \E good \in BOOLEAN :
             IF MayBeacon(good) = (mode = "BEACON")
             THEN WaitEvents
             ELSE GoTo(IF mode = "BEACON" THEN "STANDBY" ELSE "BEACON")

Edl ==
  /\ AtTests /\ mode = "EDL"
  /\ UNCHANGED <<events, attempts, bootTime, resetting, ps, fram, now, wakeup, beacon,
                 edlVars, crashes>>
  /\ \/ EdlEnabled /\ WaitEvents /\ UNCHANGED alarm
     \/ /\ ~EdlEnabled
        /\ alarm' = SetAlarm(RESET_ALARM, now + ResetTimeout)
        /\ \E good \in BOOLEAN : GoTo(IF MayBeacon(good) THEN "BEACON" ELSE "STANDBY")

Exit ==
  /\ pc = "loop" /\ term
  /\ pc' = "exited"
  /\ alarm' = [a \in {"A", "B"} |-> NoAlarm]
  /\ wakeup' = FALSE
  /\ UNCHANGED <<mode, events, attempts, bootTime, resetting, buf, ps, fram, bus, now,
                 beacon, edlVars, crashes>>

C3Step ==
  \/ Restore \/ Predeploy \/ PredeployArm \/ Deploy \/ Deployed \/ StopBeacon
  \/ StandbyBeacon \/ Edl \/ Wake \/ Saved \/ Exit

----------------------------------------------------------------------------
(* The EDL thread and the shell.                                           *)

MayCommand ==
  /\ C3Blocked
  /\ now <= LastContact /\ contacts < MaxContacts
  /\ contacts' = contacts + 1

(* Until the c3 thread runs, c3_tp is NULL and signalling it halts. *)
NoC3 == pc = "boot"

(* The command calls tx_enable on the EDL thread, where c3 and interrupts  *)
(* may come between any two of its statements.                             *)
CommandTx ==
  /\ edl = "idle" /\ MayCommand
  /\ \E on \in BOOLEAN :
       /\ ps' = TxStamp(on)
       /\ edl' = IF on THEN "txOn" ELSE "txOff"
  /\ UNCHANGED <<c3Vars, fram, bus, rtcVars, beacon, job, edlBuf, term, crashes>>

ArmTx ==
  /\ edl \in {"txOn", "txOff"} /\ C3Blocked
  /\ alarm' = TxAlarm(edl = "txOn", ps.lastTX)
  /\ edl' = "txSignal"
  /\ UNCHANGED <<c3Vars, ps, fram, bus, now, wakeup, beacon, job, edlBuf, term,
                 contacts, crashes>>

SignalTx ==
  /\ edl = "txSignal" /\ C3Blocked
  /\ IF NoC3
     THEN pc' = "halted" /\ UNCHANGED <<events, edl>>
     ELSE events' = events \cup {"TX"} /\ edl' = "enable" /\ UNCHANGED pc
  /\ UNCHANGED <<mode, attempts, bootTime, resetting, buf, ps, fram, bus, rtcVars,
                 beacon, job, edlBuf, term, contacts, crashes>>

CommandSetTime ==
  /\ edl = "idle" /\ MayCommand
  /\ now' \in SetTimes
  /\ edl' = "enable"
  /\ UNCHANGED <<c3Vars, ps, fram, bus, alarm, wakeup, beacon, job, edlBuf, term,
                 crashes>>

(* A command that does not touch this module's state, or a file frame. *)
CommandOther ==
  /\ edl = "idle" /\ MayCommand
  /\ edl' = "enable"
  /\ UNCHANGED <<c3Vars, ps, fram, bus, rtcVars, beacon, job, edlBuf, term, crashes>>

(* edl_thd: every accepted frame renews EDL, after its command was         *)
(* executed.  edl_enable(true) is ignored in PREDEPLOY.                    *)
AcceptFrame ==
  /\ edl = "enable" /\ C3Blocked
  /\ IF mode = "PREDEPLOY"
     THEN edl' = "idle" /\ UNCHANGED ps
     ELSE edl' = "edlOn" /\ ps' = EdlStamp(TRUE)
  /\ UNCHANGED <<c3Vars, fram, bus, rtcVars, beacon, job, edlBuf, term, contacts,
                 crashes>>

ArmEdl ==
  /\ edl = "edlOn" /\ C3Blocked
  /\ alarm' = EdlAlarm(TRUE, ps.lastEDL)
  /\ edl' = "edlSignal"
  /\ UNCHANGED <<c3Vars, ps, fram, bus, now, wakeup, beacon, job, edlBuf, term,
                 contacts, crashes>>

SignalEdl ==
  /\ edl = "edlSignal" /\ C3Blocked
  /\ events' = events \cup {"EDL"}
  /\ edl' = "idle"
  /\ UNCHANGED <<mode, pc, attempts, bootTime, resetting, buf, ps, fram, bus, rtcVars,
                 beacon, job, edlBuf, term, contacts, crashes>>

(* soft_reset and hard_reset begin with c3StateSave, on this thread.  In   *)
(* PREDEPLOY it saves nothing: hard_reset goes on, and a soft reset takes  *)
(* place (SoftResetUnsaved).                                               *)
CommandReset ==
  /\ edl = "idle" /\ MayCommand
  /\ \/ mode = "PREDEPLOY" /\ job' = "hard" /\ edl' = "saved" /\ UNCHANGED <<edlBuf, bus>>
     \/ /\ mode # "PREDEPLOY"
        /\ job' \in {"soft", "hard"}
        /\ edlBuf' = Snapshot
        /\ IF bus = "free" THEN bus' = "edl" /\ edl' = "writing"
                           ELSE edl' = "acquire" /\ UNCHANGED bus
  /\ UNCHANGED <<c3Vars, ps, fram, rtcVars, beacon, term, crashes>>

SoftResetUnsaved ==
  /\ edl = "idle" /\ MayCommand /\ mode = "PREDEPLOY"
  /\ Reset(CutOff)
  /\ UNCHANGED <<rtcVars, crashes>>

(* hard_reset: the end of the transfer, the bus goes to a c3 that waits.   *)
CommandSaved ==
  /\ edl = "writing" /\ job = "hard" /\ C3Blocked
  /\ fram' = edlBuf
  /\ edlBuf' = Invalid
  /\ edl' = "saved"
  /\ IF pc = "acquire" THEN bus' = "c3" /\ pc' = "writing"
                       ELSE bus' = "free" /\ UNCHANGED pc
  /\ UNCHANGED <<mode, events, attempts, bootTime, resetting, buf, ps, rtcVars,
                 beacon, job, term, contacts, crashes>>

(* soft_reset: the end of the transfer, and the reset at once.  A c3 that  *)
(* waits for the bus is given it and, having the higher priority, begins   *)
(* its own transfer, which the reset cuts off.                             *)
SoftReset ==
  /\ edl = "writing" /\ job = "soft" /\ C3Blocked
  /\ Reset(IF pc = "acquire" THEN {edlBuf, Invalid, buf} ELSE {edlBuf})
  /\ UNCHANGED <<rtcVars, contacts, crashes>>

(* stop_workers(true) asks c3 to terminate, without an event, and joins it. *)
StopC3 ==
  /\ edl = "saved" /\ job = "hard" /\ C3Blocked
  /\ IF NoC3 THEN edl' = "others" /\ UNCHANGED term
             ELSE edl' = "join" /\ term' = TRUE
  /\ UNCHANGED <<c3Vars, ps, fram, bus, rtcVars, beacon, job, edlBuf, contacts,
                 crashes>>

(* factory_reset: c3 is asked to terminate, with an event, and joined. *)
CommandFactoryReset ==
  /\ edl = "idle" /\ MayCommand
  /\ job' = "factory"
  /\ IF NoC3
     THEN pc' = "halted" /\ UNCHANGED <<edl, term, events>>
     ELSE /\ edl' = "join" /\ term' = TRUE
          /\ events' = events \cup {"TERMINATE"}
          /\ UNCHANGED pc
  /\ UNCHANGED <<mode, attempts, bootTime, resetting, buf, ps, fram, bus, rtcVars,
                 beacon, edlBuf, crashes>>

C3Joined ==
  /\ edl = "join" /\ pc = "exited"
  /\ \/ job = "hard" /\ edl' = "others" /\ UNCHANGED fram
     \/ job = "factory" /\ edl' = "erased" /\ fram' = Invalid
  /\ UNCHANGED <<c3Vars, ps, bus, rtcVars, beacon, job, edlBuf, term, contacts,
                 crashes>>

(* The other workers have stopped and a minute has passed.  Nothing here   *)
(* makes them stop: see Workers.                                           *)
HardReset ==
  /\ edl = "others" /\ C3Blocked
  /\ Reset(CutOff)
  /\ UNCHANGED <<rtcVars, contacts, crashes>>

(* The backup domain, and the RTC with it, is reset too. *)
FactoryReset ==
  /\ edl = "erased"
  /\ Reset(CutOff) /\ LoseRtc
  /\ UNCHANGED <<contacts, crashes>>

EdlStep ==
  \/ ArmTx \/ SignalTx \/ AcceptFrame \/ ArmEdl \/ SignalEdl
  \/ CommandSaved \/ SoftReset \/ StopC3 \/ C3Joined \/ FactoryReset

(* The shell's "state tx" and "state edl" commands. *)
Shell ==
  /\ MayCommand /\ ~NoC3
  /\ \E on \in BOOLEAN : TxEnable(on) \/ EdlEnable(on)
  /\ UNCHANGED <<mode, pc, attempts, bootTime, resetting, buf, fram, bus, now, wakeup,
                 beacon, edl, job, edlBuf, term, crashes>>

----------------------------------------------------------------------------
(* Interrupts, the beacon thread, the battery card and the hardware.       *)

(* The EDL thread is executing a command or renewing EDL.                  *)
EdlBusy == edl \in {"txOn", "txOff", "txSignal", "enable", "edlOn", "edlSignal"}

(* BOUND: time runs out at MaxTime, so a thread about to set an alarm is   *)
(* not held up for longer than the run has left for it.                    *)
InTime ==
  /\ now < MaxTime
  /\ pc = "arm" => DelayDeploy
  /\ EdlBusy => now < LastContact

(* One unit of time.  alarmcb turns off an alarm that went off.            *)
Tick ==
  /\ InTime
  /\ now' = now + 1
  /\ LET fired == {a \in {"A", "B"} : alarm[a] = now' % Month} IN
     IF CallbackSet /\ fired # {}
     THEN /\ alarm' = [a \in {"A", "B"} |-> IF a \in fired THEN NoAlarm ELSE alarm[a]]
          /\ events' = events \cup {"WAKEUP"}
     ELSE UNCHANGED <<alarm, events>>
  /\ UNCHANGED <<mode, pc, attempts, bootTime, resetting, buf, ps, fram, bus, wakeup,
                 beacon, edlVars, crashes>>

(* Every saveInterval seconds, which is short beside a unit of time. *)
PeriodicWakeup ==
  /\ wakeup /\ CallbackSet /\ "WAKEUP" \notin events
  /\ events' = events \cup {"WAKEUP"}
  /\ UNCHANGED <<mode, pc, attempts, bootTime, resetting, buf, ps, fram, bus, rtcVars,
                 beacon, edlVars, crashes>>

BeaconExit ==
  /\ beacon = "stopping" /\ Running
  /\ beacon' = "none"
  /\ UNCHANGED <<c3Vars, ps, fram, bus, rtcVars, edlVars, crashes>>

(* The external watchdog, once its line stops toggling. *)
WatchdogReset ==
  /\ pc = "halted"
  /\ Reset(CutOff)
  /\ UNCHANGED <<rtcVars, contacts, crashes>>

Crash ==
  /\ crashes < MaxCrashes
  /\ crashes' = crashes + 1
  /\ Reset(CutOff)
  /\ LoseRtc \/ UNCHANGED rtcVars
  /\ UNCHANGED contacts

Next ==
  \/ C3Step
  \/ CommandTx \/ CommandSetTime \/ CommandOther
  \/ CommandReset \/ SoftResetUnsaved \/ CommandFactoryReset
  \/ EdlStep \/ HardReset \/ Shell
  \/ Tick \/ PeriodicWakeup \/ BeaconExit \/ WatchdogReset \/ Crash

(* Threads are scheduled, time passes, the wakeup timer and the watchdog   *)
(* run.  HardReset is not fair: it waits for the other workers.            *)
Fairness ==
  /\ WF_vars(C3Step) /\ SF_vars(EdlStep) /\ WF_vars(BeaconExit)
  /\ WF_vars(Tick) /\ WF_vars(PeriodicWakeup) /\ WF_vars(WatchdogReset)

Spec == Init /\ [][Next]_vars /\ Fairness

----------------------------------------------------------------------------
States == [lastTX : Stamps, lastEDL : Stamps, deployed : BOOLEAN]
Alarms == [{"A", "B"} -> {NoAlarm} \cup 0 .. Month - 1]
Images ==
  [valid : {TRUE}, state : States, time : Times, alarm : Alarms, wakeup : BOOLEAN]

ControlTypes ==
  /\ mode \in Modes
  /\ pc \in {"boot", "loop", "arm", "wait", "deploying", "stopBeacon", "acquire",
             "writing", "exited", "halted"}
  /\ events \subseteq Events
  /\ bus \in {"free", "c3", "edl"}
  /\ beacon \in {"none", "run", "stopping"}
  /\ edl \in {"idle", "txOn", "txOff", "txSignal", "enable", "edlOn", "edlSignal",
              "acquire", "writing", "saved", "join", "others", "erased"}
  /\ job \in {"none", "soft", "hard", "factory"}

FlagTypes == wakeup \in BOOLEAN /\ term \in BOOLEAN /\ resetting \in BOOLEAN

CounterTypes ==
  /\ attempts \in 0 .. MaxAttempts
  /\ contacts \in 0 .. MaxContacts
  /\ crashes \in 0 .. MaxCrashes

ClockTypes == now \in Times /\ bootTime \in Times /\ alarm \in Alarms

StateTypes ==
  /\ ps \in States
  /\ fram \in Images \cup {Invalid}
  /\ buf \in Images \cup {Invalid}
  /\ edlBuf \in Images \cup {Invalid}

(* The types of the state; alarms hold what their registers can hold.      *)
TypeOK == ControlTypes /\ FlagTypes /\ CounterTypes /\ ClockTypes /\ StateTypes

(* No beacon thread runs before the antennas are out, nor while c3 sleeps  *)
(* in a mode other than BEACON, whatever order frames, timeouts and joins  *)
(* came in.                                                                *)
BeaconOff ==
  ~ps.deployed \/ (Asleep /\ mode # "BEACON") => beacon = "none"

(* Once c3 sleeps after deployment, what it would need after a power loss  *)
(* is in FRAM: TX and EDL times, the deployed flag, alarms.  In EDL a      *)
(* change of TX by the shell waits for the next save.                      *)
DurableWhenAsleep ==
  Asleep /\ edl = "idle" /\ mode \in {"STANDBY", "BEACON", "EDL"} =>
    /\ fram.valid
    /\ fram.state.deployed
    /\ fram.state.lastEDL = ps.lastEDL
    /\ mode # "EDL" => fram.state = ps /\ fram.alarm = alarm

(* A sleeping c3 has a timer that will wake it. *)
WakeSource ==
  Asleep =>
    IF mode = "PREDEPLOY" THEN \E a \in {"A", "B"} : alarm[a] # NoAlarm ELSE wakeup

(* The antennas are not fired again while a valid image says they are out. *)
NoRedeploy ==
  [][pc # "deploying" /\ pc' = "deploying" => ~(fram.valid /\ fram.state.deployed)]_vars

(* A soft reset finds the state saved: the system starts again from an     *)
(* image, never from the defaults.                                         *)
SoftResetKeepsState == [][SoftReset => fram'.valid]_vars

(* A hard reset commanded from the ground that waits for the other workers *)
(* leaves the modes frozen.                                                *)
Frozen == edl = "others"

(* The pre-deployment wait ends, even when the clock passes the deadline   *)
(* between the check and the alarm, or is set past it.                     *)
PredeployEnds == mode = "PREDEPLOY" ~> (mode # "PREDEPLOY" \/ Frozen)

(* Without frames from the ground, EDL ends and beacons may resume. *)
EdlEnds == mode = "EDL" ~> (mode # "EDL" \/ Frozen)

(* Once TX is disabled or has timed out the beacon stops. *)
BeaconStops ==
  (beacon = "run" /\ now - ps.lastTX >= TxTimeout)
     ~> (beacon = "none" \/ now - ps.lastTX < TxTimeout \/ Frozen)

(* The daily reset takes place, EDL or not. *)
DailyReset ==
  (mode \in {"STANDBY", "BEACON", "EDL"} /\ now - bootTime >= ResetTimeout)
     ~> (pc = "boot" \/ now - bootTime < ResetTimeout \/ Frozen)
=============================================================================
