--------------------------- MODULE WorkersProofs ---------------------------
(***************************************************************************)
(* Proofs about the worker manager, for every number of workers and every  *)
(* choice of the critical ones.  Only MgrStop leaves workers in between,   *)
(* so the invariant says how far it has come: the workers below next have  *)
(* no thread, those above it were not touched, and the one it waits for    *)
(* has been asked to end.                                                  *)
(***************************************************************************)
EXTENDS Workers, TLAPS

Others == Workers \ Critical

(* The manager has not left its loop: nobody asks it to.                   *)
InLoop == mgr # "final"

(* Critical workers run from the manager's start on; before it, none does. *)
CriticalRun ==
  /\ mgr = "start" => \A w \in Workers : worker[w] = "none"
  /\ mgr # "start" => \A w \in Critical : worker[w] = "run"

(* While it waits, the others have a thread if the state is operational.   *)
OthersFollow ==
  mgr = "wait" =>
    \A w \in Others : worker[w] = IF state = OPERATIONAL THEN "run" ELSE "none"

(* The progress of stop_workers. *)
StopProgress ==
  mgr \in {"stop", "join"} =>
    /\ state # OPERATIONAL
    /\ \A w \in Others : /\ w < next => worker[w] = "none"
                         /\ w > next => worker[w] \in {"none", "run"}
    /\ mgr = "stop" /\ next \in Others => worker[next] \in {"none", "run"}
    /\ mgr = "join" => next \in Others /\ worker[next] \in {"ending", "dead"}

IInv == TypeOK /\ InLoop /\ CriticalRun /\ OthersFollow /\ StopProgress

----------------------------------------------------------------------------
(* A worker is ending or dead only as the one the manager waits for.       *)
LEMMA OnlyTheJoinedEnds ==
  ASSUME IInv, NEW w \in Workers, worker[w] \in {"ending", "dead"}
  PROVE  mgr = "join" /\ w = next
<1>1. w \in Others
  <2>1. mgr # "start" => w \notin Critical
    BY DEF IInv, CriticalRun
  <2>2. mgr # "start"
    BY DEF IInv, CriticalRun
  <2> QED  BY <2>1, <2>2 DEF Others
<1>2. mgr \in {"stop", "join"}
  <2>1. mgr # "start"
    BY DEF IInv, CriticalRun
  <2>2. mgr # "wait"
    BY <1>1 DEF IInv, OthersFollow
  <2> QED  BY <2>1, <2>2 DEF IInv, TypeOK, InLoop
<1>3. w = next
  <2>1. w \in Int /\ next \in Int
    BY WorkersAssumption DEF IInv, TypeOK, Workers
  <2>2. ~ (w < next) /\ ~ (w > next)
    BY <1>1, <1>2 DEF IInv, StopProgress
  <2> QED  BY <2>1, <2>2
<1>4. mgr = "join"
  BY <1>1, <1>2, <1>3 DEF IInv, StopProgress
<1> QED  BY <1>3, <1>4

(* It holds before the manager runs. *)
LEMMA InitIInv == Init => IInv
<1> SUFFICES ASSUME Init PROVE IInv
  OBVIOUS
<1>1. TypeOK
  <2>1. nmt \in NmtStates /\ flags \in NmtStates /\ state \in NmtStates
    BY DEF Init, NmtStates, INITIALIZING
  <2>2. pending \in BOOLEAN /\ signal \in BOOLEAN
    BY DEF Init
  <2>3. next \in 1 .. N + 1 /\ changes \in 0 .. MaxChanges
    BY WorkersAssumption DEF Init
  <2>4. worker \in [Workers -> {"none", "run", "ending", "dead"}]
    BY DEF Init
  <2>5. mgr \in {"start", "wait", "stop", "join", "final"} /\ main \in {"run", "join"}
    BY DEF Init
  <2> QED  BY <2>1, <2>2, <2>3, <2>4, <2>5 DEF TypeOK
<1>2. InLoop /\ OthersFollow /\ StopProgress
  BY DEF Init, InLoop, OthersFollow, StopProgress
<1>3. CriticalRun
  BY DEF Init, CriticalRun
<1> QED  BY <1>1, <1>2, <1>3 DEF IInv

(* What the NMT and the manager's wakeups change does not concern workers. *)
LEMMA QuietIInv ==
  ASSUME IInv, NmtChange \/ NmtReset \/ MgrWoken
  PROVE  IInv'
<1>1. UNCHANGED <<state, worker, mgr, next>>
  <2>1. CASE NmtChange  BY <2>1 DEF NmtChange
  <2>2. CASE NmtReset   BY <2>2 DEF NmtReset
  <2>3. CASE MgrWoken   BY <2>3 DEF MgrWoken, ShouldTerminate
  <2> QED  BY <2>1, <2>2, <2>3
<1>2. TypeOK'
  <2>1. CASE NmtChange
    <3>1. nmt' \in NmtStates /\ flags' \in NmtStates
      BY <2>1 DEF NmtChange, FlagsOr, IInv, TypeOK
    <3>2. changes' \in 0 .. MaxChanges
      BY <2>1, WorkersAssumption DEF NmtChange, IInv, TypeOK
    <3>3. pending' \in BOOLEAN /\ signal' \in BOOLEAN /\ main' \in {"run", "join"}
      BY <2>1, Zenon DEF NmtChange, IInv, TypeOK
    <3> QED  BY <1>1, <3>1, <3>2, <3>3 DEF IInv, TypeOK
  <2>2. CASE NmtReset
    BY <1>1, <2>2 DEF NmtReset, IInv, TypeOK
  <2>3. CASE MgrWoken
    BY <1>1, <2>3 DEF MgrWoken, IInv, TypeOK
  <2> QED  BY <2>1, <2>2, <2>3
<1>3. (InLoop /\ CriticalRun /\ OthersFollow /\ StopProgress)'
  BY <1>1 DEF IInv, InLoop, CriticalRun, OthersFollow, StopProgress
<1> QED  BY <1>2, <1>3 DEF IInv

(* start_workers under the state it is given leaves what that state wants, *)
(* when every worker has no thread or a running one.                       *)
LEMMA StartWorkersWorks ==
  ASSUME IInv, NEW s, StartWorkers(s),
         \A w \in Others : s # OPERATIONAL => worker[w] = "none",
         \A w \in Workers : worker[w] \in {"none", "run"}
  PROVE  /\ worker' \in [Workers -> {"none", "run", "ending", "dead"}]
         /\ \A w \in Critical : worker'[w] = "run"
         /\ \A w \in Others : worker'[w] = IF s = OPERATIONAL THEN "run" ELSE "none"
BY WorkersAssumption DEF StartWorkers, MayStart, Others, IInv, TypeOK

(* Starting the critical workers keeps it ... *)
LEMMA MgrStartIInv == ASSUME IInv, MgrStart PROVE IInv'
<1>1. \A w \in Workers : worker[w] = "none"
  BY DEF IInv, CriticalRun, MgrStart
<1>2. /\ worker' \in [Workers -> {"none", "run", "ending", "dead"}]
      /\ \A w \in Critical : worker'[w] = "run"
      /\ \A w \in Others : worker'[w] = IF state = OPERATIONAL THEN "run" ELSE "none"
  BY <1>1, StartWorkersWorks DEF MgrStart, Others
<1>3. mgr' = "wait" /\ state' = state
  BY DEF MgrStart
<1>4. TypeOK'
  BY <1>2, <1>3 DEF MgrStart, IInv, TypeOK
<1>5. (InLoop /\ CriticalRun /\ OthersFollow /\ StopProgress)'
  BY <1>2, <1>3 DEF InLoop, CriticalRun, OthersFollow, StopProgress
<1> QED  BY <1>4, <1>5 DEF IInv

(* What MgrRead reads is of the type it was told. *)
LEMMA ReadTypes ==
  ASSUME IInv, MgrRead,
         worker' \in [Workers -> {"none", "run", "ending", "dead"}],
         mgr' \in {"wait", "stop"}, next' \in 1 .. N + 1
  PROVE  TypeOK'
<1>1. nmt' \in NmtStates /\ flags' \in NmtStates /\ state' \in NmtStates
  BY DEF MgrRead, IInv, TypeOK, NmtStates, INITIALIZING
<1>2. pending' \in BOOLEAN /\ signal' \in BOOLEAN
  BY DEF MgrRead
<1>3. main' \in {"run", "join"} /\ changes' \in 0 .. MaxChanges
  BY DEF MgrRead, IInv, TypeOK
<1> QED  BY <1>1, <1>2, <1>3 DEF TypeOK

(* ... so does reading a state, which may start all of them ... *)
LEMMA MgrReadIInv == ASSUME IInv, MgrRead PROVE IInv'
<1>1. mgr = "wait" /\ state' = flags
  BY DEF MgrRead
<1>2. \A w \in Critical : worker[w] = "run"
  BY <1>1 DEF IInv, CriticalRun
<1>3. \A w \in Others : worker[w] \in {"none", "run"}
  BY <1>1 DEF IInv, OthersFollow
<1>4. \A w \in Workers : worker[w] \in {"none", "run"}
  BY <1>2, <1>3 DEF Others
<1>5. CASE state' = OPERATIONAL
  <2>1. StartWorkers(state') /\ UNCHANGED <<mgr, next>>
    BY <1>5 DEF MgrRead
  <2>2. /\ worker' \in [Workers -> {"none", "run", "ending", "dead"}]
        /\ \A w \in Critical : worker'[w] = "run"
        /\ \A w \in Others : worker'[w] = IF state' = OPERATIONAL THEN "run" ELSE "none"
    BY <1>4, <1>5, <2>1, StartWorkersWorks
  <2>3. TypeOK'
    <3>1. next' \in 1 .. N + 1
      BY <2>1 DEF IInv, TypeOK
    <3> QED  BY <1>1, <2>1, <2>2, <3>1, ReadTypes
  <2>4. (InLoop /\ CriticalRun /\ OthersFollow /\ StopProgress)'
    BY <1>1, <2>1, <2>2 DEF InLoop, CriticalRun, OthersFollow, StopProgress
  <2> QED  BY <2>3, <2>4 DEF IInv
<1>6. CASE state' # OPERATIONAL
  <2>1. mgr' = "stop" /\ next' = 1 /\ worker' = worker
    BY <1>6 DEF MgrRead
  <2>2. TypeOK'
    <3>1. next' \in 1 .. N + 1
      BY <2>1, WorkersAssumption
    <3>2. worker' \in [Workers -> {"none", "run", "ending", "dead"}]
      BY <2>1 DEF IInv, TypeOK
    <3> QED  BY <2>1, <3>1, <3>2, ReadTypes
  <2>3. (InLoop /\ CriticalRun /\ OthersFollow)'
    BY <1>2, <2>1 DEF InLoop, CriticalRun, OthersFollow
  <2>4. StopProgress'
    <3>1. \A w \in Others : ~ (w < 1)
      BY WorkersAssumption DEF Others, Workers
    <3> QED  BY <1>3, <1>6, <2>1, <3>1 DEF StopProgress
  <2> QED  BY <2>2, <2>3, <2>4 DEF IInv
<1> QED  BY <1>5, <1>6

(* The conjuncts stop_workers and the join leave alone. *)
LEMMA StoppingType ==
  ASSUME IInv, UNCHANGED <<nmt, flags, pending, signal, state, main, changes>>,
         worker' \in [Workers -> {"none", "run", "ending", "dead"}],
         mgr' \in {"wait", "stop", "join"}, next' \in 1 .. N + 1
  PROVE  TypeOK' /\ InLoop'
BY DEF IInv, TypeOK, InLoop

(* ... stopping the next worker ... *)
LEMMA MgrStopIInv == ASSUME IInv, MgrStop PROVE IInv'
<1>1. /\ mgr = "stop" /\ mgr # "start"
      /\ UNCHANGED <<nmt, flags, pending, signal, state, main, changes>>
  BY DEF MgrStop
<1>2. next \in 1 .. N + 1 /\ N \in Nat
  BY WorkersAssumption DEF IInv, TypeOK
<1>3. /\ \A w \in Critical : worker[w] = "run"
      /\ state # OPERATIONAL
      /\ \A w \in Others : /\ w < next => worker[w] = "none"
                           /\ w > next => worker[w] \in {"none", "run"}
      /\ next \in Others => worker[next] \in {"none", "run"}
  BY <1>1 DEF IInv, CriticalRun, StopProgress
<1>4. worker \in [Workers -> {"none", "run", "ending", "dead"}]
  BY DEF IInv, TypeOK
<1>5. CASE next > N
  <2>1. mgr' = "wait" /\ UNCHANGED <<worker, next>>
    BY <1>2, <1>5 DEF MgrStop
  <2>2. \A w \in Others : w < next
    BY <1>2, <1>5 DEF Others, Workers
  <2>3. TypeOK' /\ InLoop'
    BY <1>1, <1>2, <1>4, <2>1, StoppingType
  <2>4. (CriticalRun /\ OthersFollow /\ StopProgress)'
    BY <1>1, <1>3, <2>1, <2>2 DEF CriticalRun, OthersFollow, StopProgress
  <2> QED  BY <2>3, <2>4 DEF IInv
<1>6. CASE next <= N /\ (next \in Critical \/ worker[next] = "none")
  <2>1. next' = next + 1 /\ UNCHANGED <<worker, mgr>>
    BY <1>2, <1>6 DEF MgrStop
  <2>2. TypeOK' /\ InLoop'
    <3>1. next' \in 1 .. N + 1
      BY <1>2, <1>6, <2>1
    <3> QED  BY <1>1, <1>4, <2>1, <3>1, StoppingType
  <2>3. (CriticalRun /\ OthersFollow)'
    BY <1>1, <1>3, <2>1 DEF CriticalRun, OthersFollow
  <2>4. \A w \in Others : w < next + 1 => worker[w] = "none"
    <3> TAKE w \in Others
    <3>1. w \in Int /\ w \notin Critical
      BY <1>2 DEF Others, Workers
    <3>2. CASE w = next   BY <1>6, <3>1, <3>2
    <3>3. CASE w # next   BY <1>2, <1>3, <3>1, <3>3
    <3> QED  BY <3>2, <3>3
  <2>5. \A w \in Others : w >= next + 1 => worker[w] \in {"none", "run"}
    BY <1>2, <1>3 DEF Others, Workers
  <2>6. StopProgress'
    BY <1>1, <1>2, <1>3, <2>1, <2>4, <2>5 DEF StopProgress, Others, Workers
  <2> QED  BY <2>2, <2>3, <2>6 DEF IInv
<1>7. CASE next <= N /\ next \notin Critical /\ worker[next] # "none"
  <2>1. /\ worker' = [worker EXCEPT ![next] = Asked]
        /\ mgr' = "join" /\ next' = next
    BY <1>2, <1>7 DEF MgrStop
  <2>2. next \in Others
    BY <1>2, <1>7 DEF Others, Workers
  <2>3. /\ worker' \in [Workers -> {"none", "run", "ending", "dead"}]
        /\ worker'[next] = "ending"
        /\ \A w \in Workers : w # next => worker'[w] = worker[w]
    BY <1>4, <2>1, <2>2 DEF Asked, Others
  <2>4. TypeOK' /\ InLoop'
    BY <1>1, <1>2, <2>1, <2>3, StoppingType
  <2>5. (CriticalRun /\ OthersFollow)'
    BY <1>1, <1>3, <1>7, <2>1, <2>3, WorkersAssumption
       DEF CriticalRun, OthersFollow
  <2>6. \A w \in Others : /\ w < next => worker'[w] = "none"
                          /\ w > next => worker'[w] \in {"none", "run"}
    BY <1>2, <1>3, <2>3 DEF Others, Workers
  <2>7. StopProgress'
    BY <1>1, <1>3, <2>1, <2>2, <2>3, <2>6 DEF StopProgress
  <2> QED  BY <2>4, <2>5, <2>7 DEF IInv
<1> QED  BY <1>2, <1>5, <1>6, <1>7

(* ... and going on past one that has ended. *)
LEMMA MgrJoinedIInv == ASSUME IInv, MgrJoined PROVE IInv'
<1>1. /\ mgr = "join" /\ mgr' = "stop" /\ next' = next + 1
      /\ worker' = [worker EXCEPT ![next] = "none"]
      /\ UNCHANGED <<nmt, flags, pending, signal, state, main, changes>>
  BY DEF MgrJoined
<1>2. next \in Others /\ next \in 1 .. N /\ N \in Nat
  BY <1>1, WorkersAssumption DEF IInv, StopProgress, Others, Workers
<1>3. /\ \A w \in Critical : worker[w] = "run"
      /\ state # OPERATIONAL
      /\ \A w \in Others : /\ w < next => worker[w] = "none"
                           /\ w > next => worker[w] \in {"none", "run"}
  BY <1>1 DEF IInv, CriticalRun, StopProgress
<1>4. /\ worker' \in [Workers -> {"none", "run", "ending", "dead"}]
      /\ worker'[next] = "none"
      /\ \A w \in Workers : w # next => worker'[w] = worker[w]
  BY <1>1, <1>2 DEF IInv, TypeOK, Others
<1>5. TypeOK' /\ InLoop'
  <2>1. next' \in 1 .. N + 1
    BY <1>1, <1>2
  <2> QED  BY <1>1, <1>4, <2>1, StoppingType
<1>6. (CriticalRun /\ OthersFollow)'
  BY <1>1, <1>2, <1>3, <1>4, WorkersAssumption
     DEF CriticalRun, OthersFollow, Others
<1>7. \A w \in Others : /\ w < next + 1 => worker'[w] = "none"
                        /\ w >= next + 1 => worker'[w] \in {"none", "run"}
  BY <1>2, <1>3, <1>4 DEF Others, Workers
<1>8. StopProgress'
  BY <1>1, <1>2, <1>3, <1>7 DEF StopProgress, Others, Workers
<1> QED  BY <1>5, <1>6, <1>8 DEF IInv

(* A worker that ends is the one the manager waits for. *)
LEMMA WorkerExitIInv ==
  ASSUME IInv, NEW w \in Workers, WorkerExit(w) PROVE IInv'
<1>1. /\ worker[w] = "ending"
      /\ worker' = [worker EXCEPT ![w] = "dead"]
      /\ UNCHANGED <<nmt, flags, pending, signal, state, mgr, next, main, changes>>
  BY DEF WorkerExit
<1>2. mgr = "join" /\ w = next
  BY <1>1, OnlyTheJoinedEnds
<1>3. next \in Others
  BY <1>2 DEF IInv, StopProgress
<1>4. /\ worker' \in [Workers -> {"none", "run", "ending", "dead"}]
      /\ worker'[w] = "dead"
      /\ \A v \in Workers : v # w => worker'[v] = worker[v]
  BY <1>1 DEF IInv, TypeOK
<1>5. (TypeOK /\ InLoop)'
  BY <1>1, <1>4 DEF IInv, TypeOK, InLoop
<1>6. (CriticalRun /\ OthersFollow)'
  BY <1>1, <1>2, <1>3, <1>4, WorkersAssumption
     DEF IInv, CriticalRun, OthersFollow, Others
<1>7. \A v \in Others : /\ v < next => worker'[v] = "none"
                        /\ v > next => worker'[v] \in {"none", "run"}
  <2>1. next \in Int
    BY <1>3, WorkersAssumption DEF Others, Workers
  <2> QED  BY <1>2, <1>4, <2>1 DEF IInv, StopProgress, Others
<1>8. StopProgress'
  BY <1>1, <1>2, <1>3, <1>4, <1>7 DEF IInv, StopProgress
<1> QED  BY <1>5, <1>6, <1>8 DEF IInv

(* Every step keeps it; those of the NMT and of oresat_start touch no worker. *)
LEMMA StepIInv == IInv /\ [Next]_vars => IInv'
<1> SUFFICES ASSUME IInv, [Next]_vars PROVE IInv'
  OBVIOUS
<1>1. CASE NmtChange \/ NmtReset \/ MgrWoken   BY <1>1, QuietIInv
<1>2. CASE MgrStart    BY <1>2, MgrStartIInv
<1>3. CASE MgrRead     BY <1>3, MgrReadIInv
<1>4. CASE MgrStop     BY <1>4, MgrStopIInv
<1>5. CASE MgrJoined   BY <1>5, MgrJoinedIInv
<1>6. ASSUME NEW w \in Workers, WorkerExit(w) PROVE IInv'
  BY <1>6, WorkerExitIInv
<1>7. CASE UNCHANGED vars
  BY <1>7 DEF vars, IInv, TypeOK, InLoop, CriticalRun, OthersFollow, StopProgress
<1> QED  BY <1>1, <1>2, <1>3, <1>4, <1>5, <1>6, <1>7 DEF Next, Manager

----------------------------------------------------------------------------
(* The manager's inductive invariant, on which the other theorems rest.    *)
THEOREM WorkersInvariant == Spec => []IInv
<1>1. Init => IInv
  BY InitIInv
<1>2. IInv /\ [Next]_vars => IInv'
  BY StepIInv
<1> QED  BY <1>1, <1>2, PTL DEF Spec

(* The manager's variables keep their types, and it never reads a state    *)
(* that is not one of the NMT's, however many broadcasts are merged.       *)
THEOREM WorkersTypeCorrect == Spec => []TypeOK
<1>1. IInv => TypeOK
  BY DEF IInv
<1> QED  BY <1>1, WorkersInvariant, PTL

(* Whatever the interleaving of state changes, reset and workers ending:   *)
(* while the manager waits, the threads are those of the state it read.    *)
THEOREM WorkersAlwaysFollow == Spec => []WorkersFollowState
<1>1. IInv => WorkersFollowState
  BY DEF IInv, CriticalRun, OthersFollow, WorkersFollowState, Others
<1> QED  BY <1>1, WorkersInvariant, PTL

(* stop_workers never joins a critical worker, and joins nothing it has    *)
(* not asked to end.                                                       *)
THEOREM JoinsOnlyAsked ==
  Spec => [](mgr = "join" => /\ next \in Workers \ Critical
                             /\ worker[next] \in {"ending", "dead"})
<1>1. IInv => (mgr = "join" => /\ next \in Workers \ Critical
                               /\ worker[next] \in {"ending", "dead"})
  BY DEF IInv, StopProgress, Others
<1> QED  BY <1>1, WorkersInvariant, PTL

----------------------------------------------------------------------------
(* Merged state changes err to one side only: ORing the codes never gives  *)
(* less than the last of them, so what the manager has been told, or has   *)
(* read, is at least the node's state in the order of the codes.           *)
NotBehind == nmt <= (IF pending THEN flags ELSE state)

LEMMA NotBehindStep ==
  ASSUME IInv, NotBehind, [Next]_vars
  PROVE  NotBehind'
<1>1. nmt \in Int /\ flags \in Int /\ state \in Int /\ pending \in BOOLEAN
  BY DEF IInv, TypeOK, NmtStates, INITIALIZING, STOPPED, OPERATIONAL, PRE_OPERATIONAL
<1>2. CASE NmtChange
  <2>1. nmt' \in Int /\ flags' = (IF nmt' > flags THEN nmt' ELSE flags) /\ pending'
    BY <1>2 DEF NmtChange, FlagsOr, NmtStates, INITIALIZING, STOPPED, OPERATIONAL,
       PRE_OPERATIONAL
  <2> QED  BY <1>1, <2>1 DEF NotBehind
<1>3. CASE MgrRead
  BY <1>1, <1>3 DEF MgrRead, NotBehind
<1>4. CASE NmtReset \/ MgrStart \/ MgrWoken \/ MgrStop \/ MgrJoined \/ UNCHANGED vars
  <2>1. UNCHANGED <<nmt, flags, pending, state>>
    BY <1>4 DEF NmtReset, MgrStart, MgrWoken, MgrStop, MgrJoined, vars
  <2> QED  BY <2>1 DEF NotBehind
<1>5. ASSUME NEW w \in Workers, WorkerExit(w) PROVE NotBehind'
  BY <1>5 DEF WorkerExit, NotBehind
<1> QED  BY <1>2, <1>3, <1>4, <1>5 DEF Next, Manager

(* Whatever changes are merged, the manager is never below the node: it    *)
(* can take a stopped node for an operational one, as the run              *)
(* workers_merge shows, and not the other way round.                       *)
THEOREM WorkersNotBehind == Spec => []NotBehind
<1>1. Init => NotBehind
  BY DEF Init, NotBehind, INITIALIZING
<1>2. IInv /\ NotBehind /\ [Next]_vars => NotBehind'
  BY NotBehindStep
<1> QED  BY <1>1, <1>2, WorkersInvariant, PTL DEF Spec

(* Hence PRE_OPERATIONAL, the greatest code, is never missed: once the     *)
(* manager waits with nothing left to read, a pre-operational node runs    *)
(* its critical workers only, whatever came before.                        *)
THEOREM PreOperationalStops ==
  Spec => [](mgr = "wait" /\ ~pending /\ nmt = PRE_OPERATIONAL =>
               \A w \in Workers \ Critical : worker[w] = "none")
<1>1. IInv /\ NotBehind =>
        (mgr = "wait" /\ ~pending /\ nmt = PRE_OPERATIONAL =>
           \A w \in Workers \ Critical : worker[w] = "none")
  <2> SUFFICES ASSUME IInv, NotBehind, mgr = "wait", ~pending, nmt = PRE_OPERATIONAL
               PROVE  \A w \in Others : worker[w] = "none"
    BY DEF Others
  <2>1. state # OPERATIONAL
    BY DEF NotBehind, PRE_OPERATIONAL, OPERATIONAL
  <2> QED  BY <2>1 DEF IInv, OthersFollow
<1> QED  BY <1>1, WorkersInvariant, WorkersNotBehind, PTL
=============================================================================
