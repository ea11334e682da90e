# A TLA+ model of the OreSat firmware

This directory holds TLA+ modules, TLC configurations and TLAPS proofs for the
firmware in `src/`: the satellite's flight computer (C3, an STM32F4 running
ChibiOS) and the cards it talks to over CANopen (STM32F0). It models the parts
where threads, interrupts, resets, power losses and ground commands meet.

To check a run: `tlc -config MCC3.cfg MCC3`. To check the proofs of a module:
`tlapm C3Proofs.tla`. The runs, the mutants, the map from definitions to source
lines, the findings and the hazards are listed in `PROJECT.json`.

## 1. Inventory

Paths are relative to `src/`; `control/` stands for
`src/f4/app_control/source/`, `common/` for `src/common/`.

### The flight computer

* **Mode logic** (`control/c3.c`). State: the mode `x6000_C3_State`, the number
  of deployment attempts, `boot_time`, the group `OD_PERSIST_STATE` (time of the
  last TX enable, of the last EDL frame, the deployed flag, ...), the RTC's
  calendar, two alarms and periodic wakeup. Operations: one step of each mode,
  saving and restoring the state, `tx_enable`, `edl_enable`, three resets.
  Called by the EDL thread (`control/cmd.c`, `comms.c`) and the shell; woken by
  the RTC's interrupt; starts and joins the beacon thread.
  *Hard:* conditions are read before `chEvtWaitAny` and may change during it;
  alarms share registers; a save runs on whichever thread asks for it; resets
  cut off what other threads are doing; three of the resets join threads.
  *Correct means:* no beacon thread runs before deployment nor in the quiet modes
  (replies to the ground, and a beacon it asks for, are sent in every mode: module
  `Link`); a sleeping c3 will be woken; what a power loss must not lose is in FRAM when
  c3 sleeps; antennas are not fired twice; every time-out ends its mode; the
  daily reset takes place.
* **Persistent state and FRAM** (`control/persist.c`, `common/fram.c`). State:
  groups of the object dictionary, each with a CRC, on an I2C bus with a mutex.
  *Hard:* a transfer cut by a reset. *Correct means:* a group is restored as it
  was stored or not at all.
* **EDL, TX and radio** (`control/comms.c`, `common/radio.c`, `control/hmac.c`,
  `control/beacon.c`). State: two pools of frame buffers with their FIFOs,
  sequence counts, the radio threads. *Hard:* buffers taken with an infinite
  wait by several threads; the sequence count against power losses. *Correct
  means:* no buffer is used after it is returned, none is lost, no cycle of
  waits, a sequence number is accepted once.
* **Radio driver** (`common/ax5043.c`). State: the driver's state, its worker
  thread, the transmit lock, the profile. *Correct means:* the lock is released
  on every path; the driver's state matches the chip's.
* **Node manager** (`common/node_mgr.c`, `opd.c`, `max7310.c`). State per card:
  power state, retries, the circuit breaker's expander. Driven by heartbeat
  callbacks and ground commands. *Hard:* node indices travel as event flags;
  a power cycle sleeps in the middle. *Correct means:* a card that lost its
  heartbeat is power-cycled at most three times and then left off; the flag
  `enable` of a card and its pin agree. (A card the ground turns off during a power
  cycle is turned on again at its end: the code has nothing against it.)
* **Firmware update** (`control/fw.c`). State: the other flash bank, an info
  record, the boot bank. *Correct means:* the bank booted from holds the image
  its record describes, at whatever step power is lost.
* **Files** (`common/fs.c`, `control/file_xfr.c`). Mount on first access,
  unmount, format, and a transfer with an open file. *Correct means:* no
  operation on an open file of an unmounted system.
* **Deployment and watchdog threads** (`control/deployer.c`, `wdt.c`), **shell
  and bench tests** (`control/test/`, `src/f4/app_cantest`): timed lines and
  manual commands.

### Common to all cards

* **CAN driver** (`common/CO_driver.c`). Transmit: `CANtxCount`, `bufferFull` of
  each buffer, the three mailboxes, `bufferInhibitFlag`. Receive: filters, the
  dispatch, the error status word. Called by every CANopen thread and by the CAN
  interrupts. *Hard:* the count and the flags are kept separately; the interrupt
  looks at the flags only if the count is not zero. *Correct means:* a queued
  frame is sent, transmission never stalls.
* **CANopen threads** (`common/CO_threads.c`, `CO_master.c`): SDO server and
  client, emergency, NMT, heartbeat, PDO. *Correct means:* a job runs on data
  that is still there, the threads end when asked.
* **Workers and their manager** (`common/worker.c`, `oresat.c`). State: the list
  of workers with their threads, the manager's event flags. Driven by the NMT
  callback; ended by an NMT reset. *Hard:* events merge, joins wait. *Correct
  means:* the threads follow the NMT state, a change is handled, a reset ends.

### The cards

* **Bootloader** (`src/f0/app_bootloader`, and the host that drives it,
  `common/can_bootloader.c`). State: the flash, a magic word that survives a
  reset, the frame that keeps the card in the bootloader; the host's place in
  the update and its retries. *Hard:* solar cards "power on and off at variable
  times"; a command may have been carried out without the host knowing.
  *Correct means:* the card runs only a complete image; an update that reports
  success has installed one; updates and boots end.
* **Battery** (`src/f0/app_battery`, `common/max17205.c`): heater hysteresis.
* **Solar** (`src/f0/app_solar`, `ina226.c`, `tmp101.c`): perturb and observe.
* **IMU** (`src/f0/app_imu`, `bmi088.c`): a periodic sensor read.
* Drivers and formats without a protocol of their own: `si41xx.c`, `max580x.c`,
  `mmc5883ma.c`, `ax25.c`, `aprs.c`, `morse.c`.
* Demonstrations, boards, profiles, archive: not part of the flight software.

Every component, with its status, is in `PROJECT.json`; the hazards of each, at
their lines, are in `"hazards"`.

## 2. Plan

| module | models | specification it answers to | status |
| --- | --- | --- | --- |
| `CanTx` | `CO_driver.c`, transmission | no stall, no loss, drains | checked, proved |
| `C3` | `c3.c` with RTC, FRAM copy, beacon, EDL commands | modes, durability, wake-ups, resets | checked, proved |
| `Workers` | `worker.c`, `oresat.c`, NMT callback | threads as a function of the state | checked, proved |
| `Bootloader` | the F0 bootloader and the host's update | the abstract module `ImageSlot`, and termination | checked, proved |
| `NodeMgr` | `node_mgr.c`, `opd.c`, `max7310.c`, their commands | bus, power under control, bounded power cycles | checked, proved |
| `Link` | `ax5043.c` workers and lock, `radio.c`, `comms.c`, `beacon.c`, `hmac.c` | ownership of buffers, half duplex, replay, termination | checked, proved |

Modules called `MC...` hold the instances for TLC, those called `...Proofs` the
theorems.

**How the modules fit together.** They share no variables; each states what it
assumes of another, and where the other module shows it:

* `C3` assumes that joining the beacon thread ends (fairness of `BeaconExit`).
  `Link` has that thread's loop with the buffers and the lock it waits for, and
  `BeaconJoined` says when the assumption holds: always, but for the two states
  named in `Stuck`.
* `Link` has as much of c3's modes as the sequence count depends on: `edl_enable`
  does nothing in PREDEPLOY and `c3StateSave` saves nothing there; the waits of
  PREDEPLOY and DEPLOY do not hold the EDL event, which stays pending; those of
  STANDBY, BEACON and EDL do (`EventMask` in `C3`), and c3 saves after them
  (`EdlEvent`, with strong fairness, as c3 comes back to its wait between two
  joins).
* `C3` gives its hard reset no fairness, because it joins workers that may not
  end. `NodeMgr` has the reason: the manager waits without a time-out
  (`MgrWake`), and `Terminate` comes without an event.
* `NodeMgr`'s ground threads are the EDL thread of `Link`, in the step between
  `EdlAlloc` and `EdlReply`, and the shell, which the default build has too
  (`Makefile:176`, `main.c:138`) and whose commands in `control/test/test_opd.c`
  call `node_enable` and the functions of `opd.c`, at the same priority.
  `CommandsReturn` is why the commands of the power domain end in that step. A
  ground's `hard_reset` may not: it joins the node manager, as above. `Link` takes
  it to end, so `EdlReturns` says nothing of a frame with that command.

Worth adding if the submodules come within reach: the SDO client's jobs, and
`fw.c` against `ImageSlot` with two slots.

## 3. Modules

### CanTx

`full` is the set of buffers whose `bufferFull` is set, `count` is `CANtxCount`
(modulo `CountMod`), `busy` the mailboxes in use, `irq` a completion whose
`CO_CANtx_cb` has not run yet, `inhibit` is `bufferInhibitFlag`. Actions: `Send`
(`CO_CANsend`), `ClearPendingSyncPDOs`, `TxBufferInit`, `TxIsr` (`CO_CANtx_cb`)
and the hardware's `MailboxDone`. The critical section is `chSysLock`: a mailbox
may complete during it, which `Send` allows (`done`), and the interrupt runs
right after it. `ClearPendingSyncPDOs` and `TxBufferInit` do not touch
mailboxes, so a completion during them is one just before or after. A buffer's
contents are left out, and with them the overflow bit of the error status.

### C3

The model follows the c3 thread from step to step of its `switch`, with `pc`
where it blocks: waiting for events (`"wait"`), for the FRAM bus (`"acquire"`),
for a transfer (`"writing"`), for the heaters (`"deploying"`), for the beacon
thread's end (`"stopBeacon"`). c3 runs at NORMALPRIO+1 and the EDL thread at
NORMALPRIO, so commands execute only while c3 is blocked (`C3Blocked`);
interrupts (`Tick`, `PeriodicWakeup`) come at any time, in `PREDEPLOY` also
between the check of the time and the arming of the alarm (`PredeployArm`).
`tx_enable` and `edl_enable` are three statements on the EDL thread, the time
stamp, the alarm and the event, and c3 or an interrupt may come in between
(`CommandTx`, `ArmTx`, `SignalTx`; `AcceptFrame`, `ArmEdl`, `SignalEdl`); called by
the shell, or by c3 itself in PREDEPLOY, they are one step. A
save (`Snapshot`, `StateSave`, `Saved`) takes the image first and the bus
afterwards, and there are two savers: c3 and the EDL thread before a reset.
`Reset` leaves the old image, the new one or an invalid one of a transfer it
cuts off. `soft_reset` calls `NVIC_SystemReset` right behind its save, so
`SoftReset` is the end of the EDL thread's transfer and the reset in one step: what
c3 can do in between is to be given the bus it waits for and to begin its own
transfer, since it outranks the thread that released it. In PREDEPLOY the save does
nothing and the reset comes with the command (`SoftResetUnsaved`).

What the code does and the model keeps although it surprises:

* alarms hold a day of the month and a time of day, so an alarm in the past is
  not lost for good, it goes off next month (`Month`);
* `edl_enable(false)` clears the TX alarm;
* predeployment, EDL and the daily reset share ALARM_A;
* `hard_reset` of the c3 thread itself (the daily reset) asks its own thread to
  terminate and joins it; the kernel's check halts the system, and the external
  watchdog resets it (`WatchdogReset`);
* a command that signals c3 before its thread runs signals a NULL thread and
  halts likewise;
* a hard reset asked for by the ground also joins the other workers, one of
  which waits without a time-out (`common/node_mgr.c:61`): once
  c3 has been joined the modes stand still until then (`Frozen`, unfair
  `HardReset`);
* `C3_EVENT_BAT` is never signalled (its callback is commented out, `c3.c:120`),
  and `bat_good()` may return anything at any call.

Left out: telemetry counters, what is transmitted on request, and the shell's own
reset commands.

### Workers

`flags` are the states broadcast to the manager and not yet read, `state` the
one it read, `worker` each worker's thread, `mgr` and `next` where the manager
is in its loop and in `stop_workers`. NMT codes are 0, 4, 5 and 127; as sets of
bits they are nested, so ORing two gives the greater one (`FlagsOr`). The
manager, the NMT thread and `oresat_start` share one priority that is not time
sliced, hence each runs to its next wait in one action. Left out:
`reg_worker`/`unreg_worker`, which run before the manager, and the initial call
of the NMT callback at registration, with INITIALIZING.

### ImageSlot and Bootloader

`ImageSlot` is the promise in six lines of state: the slot has the old image,
none or the new one, and the card runs none or the one in the slot.
`Bootloader` has the detail. `flash` is the slot in chunks of 64 bytes, the unit
the host writes (`M0_FIRMWARE_UPDATE_WRITE_CHUNK_SIZE`); chunk 0 holds the CRC
and the length, so "the CRC matches" is `Holds(flash, flash[0])`. `node` is
where the card is: off, in `main` after a reset, listening, kept in the
bootloader, or in the application. The host's `phase` and `pos` are the place in
`oresat_firmware_update_m0`, `tries` the attempts of a `*_reliable` function,
`conn` and `conns` the place in `can_bootloader_verify_retry_connection`. One
action is one exchange (command, data, acknowledgements); since there is only
ever one in flight, what a lost or late frame can do to it is a set of outcomes:
carried out or not, known to the host or not. `Torn` is what a power loss in the
middle of an erase or a write leaves. Facts of the code the model keeps: the
host erases one page more than the image needs when it ends at a page boundary;
an announcement of the past can be answered when nobody listens any more;
programming errors go unnoticed; the first verification failure ends the update
without a retry; `can_bootloader_go`'s result is ignored.

### NodeMgr

`dev`, `valid` and `chip` are the driver's state, the flag of `opd_dev` and what
the MAX7310 really drives; `line` is the control line of the subsystem. `bus` is
the mutex of the I2C bus with its queue. A thread's record says which function
it is in and at which transfer; transfers of one possession of the bus are one
step, made when the bus is released. `enable`, `attempts` and `state` are
`node_state[]`, `flags` the indices broadcast and not yet read, merged bit by bit
(`Or`). Ground threads call whatever `cmd.c` does: switching a node or a card,
starting, stopping and scanning the subsystem, resetting a breaker and reading
its registers. The assertions of `max7310.c` and of `i2cStop` are modelled and
halt the computer (`halted`), after which the watchdog resets it: they do fail
when a restarting scan meets a command on another thread, and `AssertWindow`
says that this is the only way for a valid device. A chip in `Lossy` may miss any
transfer, and the driver looks at no result: a write may be missed (`Written`),
`max7310Stop` and `max7310Start` write several registers, each of which may be
(`Stopped`, `Started`), and a read that fails makes a pin's read-modify-write put
an uninitialised byte into the output register, the supply's pin included
(`Garbled`). `byNode`, `missed`, `cycled` are history.

There may be any number of ground threads: besides the EDL thread, the shell's
commands call the same functions. Left out: `opd_probe` of one address, a command
of the shell.

The code declares `node_state[OD_CNT_HB_CONS]` with one entry while the table of
`main.c` has more nodes; the model takes the array to be as long as the table,
since what the memory behind it holds depends on the link.

### Link

Frame buffers are counted, not named: `rxFree` and `txFree` free ones, `rxMail`
and `txMail` sent ones, and a thread's place says whether it holds one.
`worker` is each radio's receive thread, one chunk at a time; `asked` the UHF
worker's order to end, given by `ax5043Idle`; `lock` the transmit mutex, `at`
the three threads that transmit. `count` is the sequence count, `saved` its
image in FRAM, `told` the EDL event pending at c3, and `mode` how far c3 is past a
reset: "predeploy", "deploy", or "orbit" for the three other modes. The frames
are those the ground may send: commands with a number, file transfers, requests
for a beacon and frames the link layer refuses.

What the code does and the model keeps:

* a transmission whose PLL does not lock returns with the lock (`ax5043.c:681`),
  and with the receiver off: nobody transmits again until a reset (`Leaked`);
* a transmission joins the receive worker, which may be waiting for a buffer
  only the EDL thread can free, which waits for the transmission (`Cycle`);
* after a packet too long for a buffer was dropped, a further chunk of it meets
  an assertion (`StrayChunk`) and the watchdog resets the computer;
* a command accepted in PREDEPLOY may be accepted again after a reset, since c3 is
  not told of it and saves nothing there (`ToldC3`, `Store`; `c3.c:64` and `301`).
  It is the save of `NextMode` that takes its number to FRAM.

## 4. Runs

| run | instance | shows |
| --- | --- | --- |
| `cantx` | 3 buffers (one synchronous, one re-initialised), 2 mailboxes, up to 6 queued frames, count modulo 8 | `TypeOK`, `CountCoversFull`, `NoStall`, `NoFrameLostInIsr`, `Drains` |
| `cantx_wrap` | 1 mailbox, 2 buffers, the real 2^16 | `Drains` fails (finding) |
| `c3` | 5 instants, 2 commands, 1 crash or power loss | `TypeOK`, `BeaconOff`, `DurableWhenAsleep`, `WakeSource`, `NoRedeploy` |
| `c3_live` | the same times, 1 command, no crash | `PredeployEnds`, `EdlEnds`, `BeaconStops`, `DailyReset` |
| `c3_soft_reset` | as `c3_live` | `SoftResetKeepsState` fails (finding) |
| `workers` | 3 workers, one critical, 4 NMT changes and a reset | `TypeOK`, `WorkersFollowState`, `ChangeHandled` |
| `workers_merge` | 3 changes | `ManagerUpToDate` fails (finding) |
| `workers_reset` | 1 change and a reset | `ManagerStops` fails (finding) |
| `bootloader` | 3 pages of 2 chunks, images of 3 and 4 chunks, 3 tries, 2 reconnections, any power loss, any frame lost | `TypeOK`, `SuccessMeansInstalled`, `MetaDataLast`, `SlotSafe` (refinement), `UpdateShrinks`, `UpdateReturns`, `CompleteRuns` |
| `bootloader_layout` | the same slot without its first page, no faults | `Succeeds` fails (finding) |
| `nodemgr` | 2 nodes, one with a card whose chip misses transfers, 1 ground thread, 1 retry | `TypeOK`, `BusDiscipline`, `DrivenIsControlled`, `AssertWindow`, `PinFollowsEnable`, `CyclesBounded`, `CommandsReturn` |
| `link` | 2 radios, 2 buffers in each pool, commands and beacon requests, PLL failures and resets | `TypeOK`, `BuffersConserved`, `HalfDuplex`, `AcceptedOnce`, `NoOtherDeadlock`, `EdlReturns`, `ReceptionResumes`, `BeaconJoined`, `CountSaved` |

**Bounds.** *cantx:* six frames over three buffers fill every buffer twice, so
that the count exceeds the number of full buffers, which is what the driver's
bookkeeping gets wrong if anything; two mailboxes distinguish "one free" from
"none" and "all". `CountMod` 8 is above `Backlog`, so nothing wraps in this run:
the wrap is `cantx_wrap`'s. *c3:* the time-outs are one or two units and the
alarm month three, so time-outs expire in every order and alarms match in the
wrong "month"; `MaxTime` lets predeployment, EDL, TX and the daily reset run out
one after the other; `SetTimes` moves the clock back to its start and forward
past every deadline. Two commands are needed for one to overtake the effect of
another, one crash to cut any step. About 3.1 million distinct states.
`LastContact` keeps the last instants free of commands (three of the five in `c3`,
two in `c3_live`, which has one command and 180,000 states), and `InTime` keeps the
bounded clock from running out on a thread that is about to arm an alarm.
*workers:* two workers that are not critical, one on each side of the critical
one, let stopping be interrupted between the two; four changes let two merge
while the manager joins. `CHECK_DEADLOCK FALSE`, because after an NMT reset the
system really stops: that is the finding of `workers_reset`. *bootloader:* the
new image is longer than the old and fills two pages, so erasing, writing and
verifying each have a first, a middle and a last position, and the page behind
the image is erased too, as in the code; three tries and two reconnections (5 in the
code) leave room for failing once, failing again and giving up in each of
the nested loops. Power losses and lost frames are unlimited. About 35,000
states. *nodemgr:* with one retry "cycled", "given up" and "back" all happen; the
second node has no card and is there for its index, which merges with others in
`flags`; one register read stands for the five of `opd_status`, which only repeat.
About 380,000 states, with one ground thread. An instance with two cards, three
indices, one more retry and no lossy chip, 1.6 million states, and one with two
ground threads and no heartbeats, 385,000 states, were checked for the invariants
too; the theorems cover any number of cards and threads. *link:* two buffers are
the fewest with which one thread can hold one while another waits; a pool can be
emptied by the two receive workers, by the FIFO or by the EDL thread. `Last`
bounds the sequence numbers: with one, replaying it is what `AcceptedOnce` is
about; `Kinds` leaves out files, which are handled like commands without a number,
and refused frames, which only free their buffer. About 61,000 states; an instance
with three receive buffers, two numbers and all kinds of frames, 5.1 million
states, was checked for the invariants.

**Fairness.** *CanTx:* some node acknowledges frames (`MailboxDone`) and a
pending interrupt is served. *C3:* threads that can run do (the scheduler is
preemptive by priority and c3 blocks in every iteration), time passes, the
periodic wakeup recurs, the beacon thread sleeps a bounded time and tests for
termination, the watchdog is a piece of hardware. The EDL thread has strong
fairness: it runs only while c3 is blocked, and c3 blocks again and again for
longer than the few statements of a command take. Commands and crashes have no
fairness, nor has `HardReset`. *Workers:* the manager is scheduled, and a worker
asked to end does so: the workers that are not critical sleep for a fixed time
and then test `chThdShouldTerminateX`. *Bootloader:* the host's thread has strong
fairness, since all its waits have a deadline, which a card that keeps losing
power cannot put off; the powered card's steps have weak fairness; nobody has to
start an update or switch the power on. *NodeMgr:* threads, transfers and sleeps
end, the watchdog bites; heartbeats, commands and `Terminate` have none. *Link:*
the threads and the hand-over of buffers and of the lock have strong fairness,
because ChibiOS hands both to waiting threads in turn (a free buffer goes to the
thread that waits, not back to the pool); so has c3's wait with a pending EDL
event, in the modes that wait for it (`EdlEvent`); traffic, beacon switching, the
change of modes and resets have none.

**Every property has a mutant**: a definition called a variant in the modules,
a plausible slip in the one after it, under which TLC finds the property
violated.

## 5. Findings

* `cantx_wrap`: `CANtxCount` is 16 bits wide and counts sends, not buffers.
  65536 sends without an acknowledged frame bring it to zero with buffers full;
  the interrupt then ignores them.
* `c3_soft_reset`: `soft_reset` saves on the EDL thread; c3, woken meanwhile, waits
  for the bus with a save of its own; the end of the EDL thread's transfer gives
  it the bus, it begins its transfer, and the reset cuts it off. The next start
  finds a wrong CRC and starts from the defaults. `ImageSurvives` and `ResetsKeepImage`
  (section 6) bound it: a valid image is lost only to a reset in the middle of a
  transfer or to a factory reset, and a hard reset that has joined c3 does no harm.
* `workers_merge`: two NMT changes between two reads are ORed; OPERATIONAL then
  STOPPED starts all workers in a stopped node. `WorkersNotBehind` bounds it: the
  merged state is never below the last one, so no worker that should run is stopped.
* `workers_reset`: the manager is signalled but not asked to terminate, so
  `oresat_start` joins it forever and the NMT reset does not take place.
* `bootloader_layout`: images begin at 0x0800A000 with their meta-data, which
  the card's own linker script leaves out of the region the card lets the host
  write to (`flash1`, from 0x0800A400). The update erases the old image, writes
  the body, and is then refused the first chunk until its retries are used up.
  In the instance the two chunks of the first page are outside the region;
  `BootloaderOutsideFails` proves it for every layout with a chunk outside.

More facts are modelled and are not findings, since no doc or comment says
otherwise: the two ways in which the ground link stops for good (`Leaked`,
`Cycle` in `Link`; its liveness properties do not exclude these, they say that
nothing else stops it), the assertion after a packet that is too long, a command
of PREDEPLOY that may be accepted again, and a chip that misses the transfers that
stop it and drives on (`missed`).

## 6. Proofs

The theorems hold for every value of the constants that satisfies the module's
named assumption, hence for any number of buffers, mailboxes, workers, commands,
crashes and instants. Each rests on an inductive invariant `IInv`.

* **`CanTxProofs`** assumes, for all its theorems, that the count does not wrap
  (`Backlog < CountMod`), which `cantx_wrap` shows to be needed. `NoStall` is
  not inductive by itself: an interrupt that queues nothing new must leave a
  busy mailbox behind, which needs that it found one free (`NoFrameLostInIsr`)
  and that the count covers the full buffers. Theorems: `CanTxInvariant`,
  `CanTxTypeCorrect`, `CountCoversFullAlways`, `NeverStalls`, `IsrLosesNothing`.
* **`WorkersProofs`**. Between two waits the threads fit no state; the invariant
  says how far `stop_workers` has come: workers below `next` have no thread,
  those above were not touched, the one it waits for was asked to end.
  `NotBehind` is a second invariant, on top of the types: the NMT codes being
  nested sets of bits, a broadcast can only raise what the manager will read.
  With `WorkersFollowState` it gives `PreOperationalStops`: of PRE_OPERATIONAL,
  the greatest code, the manager's picture cannot be wrong.
  Theorems: `WorkersInvariant`, `WorkersTypeCorrect`, `WorkersAlwaysFollow`,
  `JoinsOnlyAsked`, `WorkersNotBehind`, `PreOperationalStops`.
* **`C3Proofs`**. Six parts besides the types. `AttemptBound` is what keeps the
  attempt counter in range; `Boot` that nothing is under way after a reset;
  `DeployedKnown` that no image in FRAM, *or in either saver's buffer*, says
  "deployed" while RAM does not, without which a save that ends after a step of
  c3 could break `NoRedeploy`; `BeaconPlace` which modes may have a beacon and that
  only `"stopBeacon"` has one ending, without which c3 could sleep with a beacon
  left; `Wakes` which timer runs in each mode, from the step that starts it on;
  `Durable` that the image in FRAM, or the one c3 has taken and not yet written,
  lacks only what will still make c3 save (`Owed`): a pending event its mask holds,
  or one the EDL thread, between two statements of `tx_enable` or `edl_enable`, has
  yet to signal. `SaveBus` is a separate invariant: who owns the bus of the FRAM
  is told by where the two savers are, a saver waits only for the other, and the
  EDL thread is past its own save once it joins c3. From it follow the two action
  theorems that bound the soft reset's finding. Theorems: `C3Invariant`,
  `C3TypeCorrect`, `BeaconOffUntilDeployed`, `AlwaysWakes`, `SleepsDurably`,
  `NeverRedeploys`, `C3SaveBus`, `ImageSurvives`, `ResetsKeepImage`.
* **`BootloaderProofs`**. The invariant says what each phase has behind it: while
  the body is written chunk 0 is not valid meta-data, the chunks before `pos` of a
  verifying phase are the new ones, all of the body is once the head is being
  written, and what the head adds completes it; and it relates the place of the
  card to the flash (an application runs only what the flash holds, and no
  exchange changes the flash while one runs). The refinement is then a case
  split on the actions: all of them stutter in `ImageSlot` but those that erase,
  that write or tear a chunk, that branch and that end an application.
  Theorems: `BootloaderInvariant`, `BootloaderTypes`, `BootloaderSuccess`,
  `BootloaderMetaDataLast`, `BootloaderImplementsImageSlot`. Two more:
  `BootloaderShrinks`, that what is left of an update (phases, then positions, then
  tries, then reconnections, in lexicographic order) is lowered by every step of
  the host and raised by nothing the card, the bus or the power does, which is why
  an update ends once the host's waits do; and `BootloaderOutsideFails`, that an
  image with a chunk outside `flash1` is never reported as installed.
* **`NodeMgrProofs`**. `PlaceInv` ties each thread's place to the queue of the bus
  and to what its function has already done, `PowerInv` the chips to drivers and
  flags, with the one exception of a restart on its way, `CountInv` the history
  `cycled` to `attempts`, which is incremented only after the power cycle.
  Any number of cards and ground threads. Theorems: `NodeMgrInvariant`,
  `NodeMgrTypes`, `NodeMgrBus`, `NodeMgrDriven`, `NodeMgrAssert`, `NodeMgrCycles`.
* **`NodeMgrPinProofs`** proves `PinFollowsEnable` for the manager and any number of
  ground threads. What a thread is about to write may differ from the flag, which
  is set before the wait for the bus; `LatestWins` says that for a valid device a
  thread behind it in the queue will then write the flag's value. It rests on the queue
  being first in, first out (`BeforeKept`, `LastIsBehind`): whoever sets the flag of a
  valid device joins it behind all that wait. A `node_enable` that finds the device not
  valid sets the flag alone and overtakes whoever still waits for the pin; that does
  no harm if the device is not valid when they write either. `Ordered` says so: to
  be valid again the device has to be started, and the thread that starts it joined
  the queue when the device was stopped, behind all that asked for the pin when it
  was ready. Theorem: `NodeMgrPins`.
* **`NodeMgrEndProofs`** has the safety part of `CommandsReturn`, for any number of
  cards and threads. `JobShrinks`: a thread in `opd.c` comes nearer to the end of its
  function with each of its steps (later card, fewer registers, later stage, in
  this order), and no step of another throws it back. `QueueMoves`: nobody is
  overtaken in the queue of the bus, and each transfer of the owner brings all
  who wait one place nearer. That the owner's transfer ends is the fairness.
  Theorems: `NodeMgrJobsShrink`, `NodeMgrNoOvertaking`.
* **`LinkProofs`**. `BuffersConserved` is inductive with the types; that a pool is
  never overfilled (a part of `TypeOK`) follows from it, so the two are proved
  together. `Duplex` adds to `HalfDuplex` that only a thread that owns the lock
  and waits in the join has asked the worker to end; `Counted` that the count is
  above every number accepted, in RAM and in the image. `NoOtherDeadlock` follows
  the waits: the owner of the lock can go on, or joins the UHF worker; that worker,
  asked to end, can go on or waits for a receive buffer, and those are with the
  EDL thread, in its FIFO or with the other worker; so the chain ends at a thread
  that can go on, or is one of the two states of `Stuck`. The last theorem needs
  two receive buffers or more (`RxBufs > 1`; the radio has eight), since a single
  one may be kept by a packet whose end never comes. `CountOnItsWay` is the safety
  part of `CountSaved`: while the count in FRAM is behind, c3 is still in PREDEPLOY, or
  the EDL event is pending at c3, or the EDL thread has yet to signal it; leaving
  PREDEPLOY saves the count, so nothing is left behind there. Theorems: `LinkInvariant`, `LinkTypes`,
  `LinkConserved`, `LinkHalfDuplex`, `LinkAcceptedOnce`, `LinkNoOtherDeadlock`,
  `LinkCountOnItsWay`.

**Only model-checked:** the liveness properties (`Drains`, `ChangeHandled`,
`PredeployEnds`, `EdlEnds`, `BeaconStops`, `DailyReset`, `UpdateReturns`,
`CompleteRuns`, `CommandsReturn`, `EdlReturns`, `ReceptionResumes`,
`BeaconJoined`, `CountSaved`), since the proof system reasons neither about
fairness nor about ENABLED. For five components the part of the argument that is
safety is proved, and what is left to TLC is that enabled steps are taken:
`NeverStalls` for `Drains`, `BootloaderShrinks` for `UpdateReturns`,
`NodeMgrJobsShrink` and `NodeMgrNoOvertaking` for `CommandsReturn`,
`LinkNoOtherDeadlock` for `EdlReturns`, `ReceptionResumes` and `BeaconJoined`,
`LinkCountOnItsWay` for `CountSaved`, `AlwaysWakes` for the ends of c3's modes.

## 7. Not modelled

* **SDO client and server, emergency, PDO and heartbeat threads** (`CO_threads.c`,
  `CO_master.c`), and the **CAN error status**: their state machines are
  CANopenNode's, a submodule that is not in the tree; a model of the threads
  around them would show what it assumes.
* **Files** (`fs.c`, `file_xfr.c`): what an unmount or a format does to an open
  file is decided in littlefs, a submodule.
* **Firmware update of the flight computer** (`fw.c`): a straight sequence of
  flash operations, an info record and, by a separate command, the switch of the
  boot bank, which checks nothing. What power losses do to the order is the same
  question as for the cards, which `Bootloader` answers; the embedded flash driver
  and the option bytes are outside the repository.
* **Battery and solar cards**: one polling thread each. Whether their thresholds
  oscillate and whether the search finds the maximum depend on packs and panels.
* **IMU, synthesizer, LNA, magnetometer, encoders** (`ax25.c`, `aprs.c`,
  `morse.c`): no state a step of another actor could disturb.
* **Shell, bench tests, demonstrations, boards, profiles, archive, and the
  generated object dictionaries** (`OD.c`, `OD.h`), most of the lines of the
  repository: data and tools, not behaviour. The object dictionary's entries are
  in the models where the code reads and writes them.
* littlefs, CANopenNode, ChibiOS and uslp are submodules: what the code needs of
  them (events that merge, mutexes handed to the waiter, joins, mailboxes) is part
  of the actions that use it. Radiation upsets, bus electrical errors and wrong
  sensor readings are outside, except as a crash or a lost frame at any point.
