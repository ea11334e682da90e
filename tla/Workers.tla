------------------------------ MODULE Workers ------------------------------
(***************************************************************************)
(* The application's worker threads, common/worker.c, and their lifetime   *)
(* under CANopen network management: the NMT thread of CO_threads.c tells  *)
(* every state change to the worker manager, which starts and stops the    *)
(* workers that are not critical; oresat_start waits for an NMT reset and  *)
(* then wants the manager to end.                                          *)
(*                                                                         *)
(* The manager, the NMT thread and oresat_start all run at HIGHPRIO, which *)
(* is not time sliced: each runs on until it blocks.  Workers run below.   *)
(***************************************************************************)
EXTENDS Integers, FiniteSets

CONSTANTS
  N,          \* number of workers; worker 1 heads the list
  Critical,   \* workers registered as critical
  MaxChanges  \* BOUND: number of NMT state changes

Workers == 1 .. N

ASSUME WorkersAssumption ==
  /\ N \in Nat
  /\ Critical \subseteq Workers
  /\ MaxChanges \in Nat

(* CO_NMT_internalState_t. *)
INITIALIZING == 0
STOPPED == 4
OPERATIONAL == 5
PRE_OPERATIONAL == 127
NmtStates == {INITIALIZING, STOPPED, OPERATIONAL, PRE_OPERATIONAL}

VARIABLES
  nmt,      \* the NMT state of this node
  flags,    \* the manager's event flags: the states broadcast since the last read
  pending,  \* WRK_EVT_NMT is pending
  signal,   \* WRK_EVT_TERMINATE is pending
  state,    \* worker.c's state: what the manager last read
  worker,   \* worker's thread: "none" (tp is NULL), "run", "ending", "dead"
  mgr,      \* where the manager is
  next,     \* the worker its stop_workers has come to
  main,     \* where oresat_start is
  changes   \* NMT changes so far

vars == <<nmt, flags, pending, signal, state, worker, mgr, next, main, changes>>

Init ==
  /\ nmt = INITIALIZING /\ flags = 0 /\ state = INITIALIZING
  /\ pending = FALSE /\ signal = FALSE
  /\ worker = [w \in Workers |-> "none"]
  /\ mgr = "start" /\ next = 1 /\ main = "run" /\ changes = 0

----------------------------------------------------------------------------
(* The codes of the states, 0, 4, 5 and 127, are nested as bit sets, so    *)
(* the flags' bitwise OR is the maximum.  A definition called a variant is *)
(* a plausible mistake in the one after it; nothing uses it but the        *)
(* mutants in PROJECT.json.                                                *)
FlagsAdd(s) == flags + s                            \* variant
FlagsOr(s) == IF s > flags THEN s ELSE flags

(* nmt_change_cb on the NMT thread, as long as that thread exists. *)
NmtChange ==
  /\ main = "run" /\ mgr # "start"
  /\ changes < MaxChanges
  /\ changes' = changes + 1
  /\ nmt' \in NmtStates \ {nmt, INITIALIZING}
  /\ flags' = FlagsOr(nmt')
  /\ pending' = TRUE
  /\ UNCHANGED <<signal, state, worker, mgr, next, main>>

(* An NMT reset command: the NMT thread ends, CO_run returns, and          *)
(* oresat_start signals the manager and joins it.                          *)
NmtReset ==
  /\ main = "run" /\ mgr # "start"
  /\ main' = "join"
  /\ signal' = TRUE
  /\ UNCHANGED <<nmt, flags, pending, state, worker, mgr, next, changes>>

----------------------------------------------------------------------------
MayStartAll(w, s) == TRUE                           \* variant
MayStart(w, s) == s = OPERATIONAL \/ w \in Critical

(* start_workers under state s: those that have no thread get one. *)
StartWorkers(s) ==
  worker' = [w \in Workers |->
               IF worker[w] = "none" /\ MayStart(w, s) THEN "run" ELSE worker[w]]

(* The manager's thread begins by starting the critical workers. *)
MgrStart ==
  /\ mgr = "start"
  /\ StartWorkers(state)
  /\ mgr' = "wait"
  /\ UNCHANGED <<nmt, flags, pending, signal, state, next, main, changes>>

(* chThdShouldTerminateX of the manager: chThdTerminate is called for      *)
(* workers and for the CANopen threads, and never for the manager.         *)
ShouldTerminate == FALSE

(* chEvtWaitAny returns without WRK_EVT_NMT; the loop's test follows. *)
MgrWoken ==
  /\ mgr = "wait" /\ signal /\ ~pending
  /\ signal' = FALSE
  /\ mgr' = IF ShouldTerminate THEN "final" ELSE "wait"
  /\ UNCHANGED <<nmt, flags, pending, state, worker, next, main, changes>>

(* chEvtWaitAny returns with WRK_EVT_NMT, having cleared what it waited    *)
(* for, and chEvtGetAndClearFlags reads the state.                         *)
MgrRead ==
  /\ mgr = "wait" /\ pending
  /\ state' = flags
  /\ flags' = 0
  /\ pending' = FALSE /\ signal' = FALSE
  /\ IF state' = OPERATIONAL
     THEN StartWorkers(state') /\ UNCHANGED <<mgr, next>>
     ELSE mgr' = "stop" /\ next' = 1 /\ UNCHANGED worker
  /\ UNCHANGED <<nmt, main, changes>>

NotAsked == "run"                                   \* variant
Asked == "ending"

(* stop_workers(false): the next worker that is not critical is asked to   *)
(* terminate and joined; at the end of the list the manager waits again.   *)
MgrStop ==
  /\ mgr = "stop"
  /\ \/ /\ next > N
        /\ mgr' = "wait"
        /\ UNCHANGED <<worker, next>>
     \/ /\ next <= N
        /\ IF next \in Critical \/ worker[next] = "none"
           THEN next' = next + 1 /\ UNCHANGED <<worker, mgr>>
           ELSE /\ worker' = [worker EXCEPT ![next] = Asked]
                /\ mgr' = "join"
                /\ UNCHANGED next
  /\ UNCHANGED <<nmt, flags, pending, signal, state, main, changes>>

MgrJoined ==
  /\ mgr = "join" /\ worker[next] = "dead"
  /\ worker' = [worker EXCEPT ![next] = "none"]
  /\ next' = next + 1
  /\ mgr' = "stop"
  /\ UNCHANGED <<nmt, flags, pending, signal, state, main, changes>>

Manager == MgrStart \/ MgrWoken \/ MgrRead \/ MgrStop \/ MgrJoined

(* A worker that is asked to terminate comes round to its loop's test.     *)
WorkerExit(w) ==
  /\ worker[w] = "ending"
  /\ worker' = [worker EXCEPT ![w] = "dead"]
  /\ UNCHANGED <<nmt, flags, pending, signal, state, mgr, next, main, changes>>

Next ==
  \/ NmtChange \/ NmtReset \/ Manager
  \/ \E w \in Workers : WorkerExit(w)

(* The manager is scheduled, and the workers that are not critical (imu,   *)
(* blink) sleep for a fixed time and then test chThdShouldTerminateX.      *)
Fairness ==
  /\ WF_vars(Manager)
  /\ \A w \in Workers : WF_vars(WorkerExit(w))

Spec == Init /\ [][Next]_vars /\ Fairness

----------------------------------------------------------------------------
(* The types of the state; what the manager is told and reads is always a  *)
(* state of the NMT, though states are ORed together.                      *)
TypeOK ==
  /\ nmt \in NmtStates /\ flags \in NmtStates /\ state \in NmtStates
  /\ pending \in BOOLEAN /\ signal \in BOOLEAN
  /\ worker \in [Workers -> {"none", "run", "ending", "dead"}]
  /\ mgr \in {"start", "wait", "stop", "join", "final"}
  /\ next \in 1 .. N + 1
  /\ main \in {"run", "join"}
  /\ changes \in 0 .. MaxChanges

(* Between two state changes the workers are those of the state the        *)
(* manager read: all of them when operational, otherwise exactly the       *)
(* critical ones, with no thread left behind from an interrupted stop.     *)
WorkersFollowState ==
  mgr = "wait" =>
    \A w \in Workers : worker[w] = IF state = OPERATIONAL \/ w \in Critical
                                   THEN "run" ELSE "none"

(* A state change told to the manager is handled, though it may come while *)
(* the manager waits for a worker to end.                                  *)
ChangeHandled == pending ~> ~pending

(* The comments of the manager's loop: operational, start all workers;     *)
(* non-operational, stop the non-critical workers.  So once the manager    *)
(* has nothing left to handle, it holds the node's state.                  *)
ManagerUpToDate == mgr = "wait" /\ ~pending => state = nmt

(* The comment of oresat_start, "Stop worker thread manager": once it has  *)
(* been signalled, the manager leaves its loop, so that the join ends.     *)
ManagerStops == main = "join" ~> mgr = "final"
=============================================================================
