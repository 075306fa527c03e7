--------------------------- MODULE FsmIndexProofs ---------------------------
(***************************************************************************)
(* The state SETs of FsmStore, which are its index: what they list can be  *)
(* read, they are exact for a machine that nothing disturbs, and what they *)
(* list under a state goes on belonging to that state.                     *)
(***************************************************************************)
EXTENDS FsmStreams, FsmStoreProofs

-----------------------------------------------------------------------------
(* The state SETs                                                           *)

\* A call that is about to index a machine has found or stored it.
IndexInv ==
  /\ IndexNeverDangles
  /\ ConfigIsPresent
  /\ \A c \in EventCalls :
       pc[c] \in {"getConfig", "srem", "sadd", "exec"} => fsm[key[c]] # NoFsm
  /\ \A c \in PutCalls : pc[c] \in {"srem", "sadd"} => fsm[key[c]] # NoFsm

\* No step changes the arguments of a call.
LEMMA KeysFixed == [Next]_vars => UNCHANGED args
BY DEF Next, Start, TxStep, Watch, WatchFails, GetStateMachine, GetStateMachineFails,
   SendEvent, SendEventRejected, GetConfigFails, Exec, ExecAborted, ExecFails,
   PutStep, PutGetConfig, PutRefused, PutStateMachine, PutTimesOut, PutFails,
   UpdateStateStep, SRem, SAdd, UpdateStateFails, vars, args

\* A machine only changes into a machine whose configuration is stored, and is
\* never deleted.
LEMMA Written ==
  ASSUME LocalInv, CommitInv, [Next]_vars, NEW i \in Ids, fsm'[i] # fsm[i]
  PROVE  fsm'[i] \in FiniteStateMachine /\ fsm'[i].configId \in DOMAIN Config
<1>1. ASSUME NEW c \in EventCalls, TxStep(c)
      PROVE  fsm'[i] \in FiniteStateMachine /\ fsm'[i].configId \in DOMAIN Config
  <2>1. pc[c] = "exec" /\ Set(c)
    BY <1>1 DEF TxStep, Watch, WatchFails, GetStateMachine, GetStateMachineFails, SendEvent,
       SendEventRejected, GetConfigFails, Exec, ExecAborted, ExecFails, Commit, redis
  <2>2. fsm'[i] = next[c] /\ next[c] \in FiniteStateMachine
    BY <2>1 DEF Set, LocalInv, TypeOK, TxLocal
  <2>3. /\ read[c] \in FiniteStateMachine
        /\ read[c].configId \in DOMAIN Config
        /\ \E t : next[c] = Moved(read[c], evt[c], t)
    BY <2>1 DEF CommitInv, Sound, Prepared, LocalInv, TxLocal
  <2>4. next[c].configId = read[c].configId
    BY <2>3 DEF Moved, FiniteStateMachine
  <2> QED
    BY Zenon, <2>2, <2>3, <2>4
<1>2. ASSUME NEW c \in PutCalls, PutStep(c)
      PROVE  fsm'[i] \in FiniteStateMachine /\ fsm'[i].configId \in DOMAIN Config
  <2>1. pc[c] = "put" /\ Set(c)
    BY <1>2 DEF PutStep, PutGetConfig, PutRefused, PutStateMachine, PutTimesOut, PutFails,
       SetUnknown, redis
  <2>2. fsm'[i] = next[c]
    BY <2>1 DEF Set, LocalInv, TypeOK
  <2> QED
    BY Zenon, <2>1, <2>2, StateOrDefaultTyped DEF LocalInv, PutLocal
<1>3. ASSUME NEW c \in Calls, Start(c) \/ UpdateStateStep(c) PROVE FALSE
  BY <1>3 DEF Start, UpdateStateStep, SRem, SAdd, UpdateStateFails, redis
<1>4. CASE UNCHANGED vars
  BY <1>4 DEF vars, redis
<1> QED
  BY <1>1, <1>2, <1>3, <1>4 DEF Next

\* SREM lists nothing new, and SADD only the machine of the call.
LEMMA IndexGrowth ==
  ASSUME LocalInv, NEW c \in Calls, NEW s \in StateSets
  PROVE  /\ Removed(c)[s] \subseteq inState[s]
         /\ Added(c)[s] \subseteq inState[s] \union {key[c]}
<1>1. inState \in [StateSets -> SUBSET Ids]
  BY DEF LocalInv, TypeOK
<1>2. Removed(c)[s] \subseteq inState[s]
  BY <1>1 DEF Removed
<1>3. Added(c)[s] \subseteq inState[s] \union {key[c]}
  BY <1>1 DEF Added
<1> QED
  BY <1>2, <1>3

\* Every step leaves only stored machines in the state SETs.
LEMMA IndexStep == LocalInv /\ CommitInv /\ IndexInv /\ [Next]_vars => IndexInv'
<1> SUFFICES ASSUME LocalInv, CommitInv, IndexInv, [Next]_vars PROVE IndexInv'
  OBVIOUS
<1>1. \A i \in Ids : fsm[i] # NoFsm => fsm'[i] # NoFsm
  BY Written, NoFsmAssumption
<1>2. ConfigIsPresent'
  BY Written DEF IndexInv, ConfigIsPresent
<1> DEFINE OnlyAdded ==
      \A s \in StateSets : \A i \in inState'[s] :
        i \in inState[s] \/ \E c \in Calls : i = key[c] /\ pc[c] = "sadd"
<1>3. OnlyAdded
  <2>1. ASSUME NEW c \in Calls, UpdateStateStep(c) PROVE OnlyAdded
    <3>1. inState' = Removed(c) \/ inState' = inState \/ (inState' = Added(c) /\ pc[c] = "sadd")
      BY <2>1 DEF UpdateStateStep, SRem, SAdd, UpdateStateFails
    <3> QED
      BY <2>1, <3>1, IndexGrowth
  <2>2. CASE UNCHANGED inState
    BY <2>2
  <2>3. (\E c \in Calls : UpdateStateStep(c)) \/ UNCHANGED inState
    BY Zenon DEF Next, Start, TxStep, Watch, WatchFails, GetStateMachine, GetStateMachineFails,
       SendEvent, SendEventRejected, GetConfigFails, Exec, ExecAborted, ExecFails,
       PutStep, PutGetConfig, PutRefused, PutStateMachine, PutTimesOut, PutFails, vars, redis
  <2> QED
    BY <2>1, <2>2, <2>3
<1>4. \A s \in StateSets : inState'[s] \subseteq Ids
  BY LocalStep DEF LocalInv, TypeOK
<1>5. IndexNeverDangles'
  <2> SUFFICES ASSUME NEW s \in StateSets, NEW i \in inState'[s] PROVE fsm'[i] # NoFsm
    BY DEF IndexNeverDangles
  <2>1. i \in Ids
    BY <1>4
  <2>2. CASE i \in inState[s]
    BY Zenon, <1>1, <2>1, <2>2 DEF IndexInv, IndexNeverDangles
  <2>3. ASSUME NEW c \in Calls, i = key[c], pc[c] = "sadd" PROVE fsm'[i] # NoFsm
    <3>1. fsm[key[c]] # NoFsm
      BY <2>3 DEF IndexInv, Calls
    <3> QED
      BY <1>1, <2>1, <2>3, <3>1
  <2> QED
    BY <1>3, <2>2, <2>3
<1>6. \A c \in EventCalls :
        pc'[c] \in {"getConfig", "srem", "sadd", "exec"} => fsm'[key'[c]] # NoFsm
  <2> SUFFICES ASSUME NEW c \in EventCalls, pc'[c] \in {"getConfig", "srem", "sadd", "exec"}
               PROVE  fsm'[key'[c]] # NoFsm
    OBVIOUS
  <2> DEFINE Found == \/ pc[c] = "getFsm" /\ fsm[key[c]] # NoFsm
                      \/ pc[c] \in {"getConfig", "srem", "sadd", "exec"}
  <2>1. ASSUME NEW d \in EventCalls, TxStep(d) PROVE Found
    BY Zenon, <2>1 DEF TxStep, Watch, WatchFails, GetStateMachine, GetStateMachineFails, SendEvent,
       SendEventRejected, GetConfigFails, Exec, ExecAborted, ExecFails, Goto, Return,
       LocalInv, TypeOK, Calls
  <2>2. ASSUME NEW d \in PutCalls, PutStep(d) PROVE Found
    BY Zenon, <2>2, CallsAssumption DEF PutStep, PutGetConfig, PutRefused, PutStateMachine,
       PutTimesOut, PutFails,
       Goto, Return, LocalInv, TypeOK, Calls
  <2>3. ASSUME NEW d \in Calls, Start(d) \/ UpdateStateStep(d) PROVE Found
    BY Zenon, <2>3, CallsAssumption DEF Start, UpdateStateStep, SRem, SAdd, UpdateStateFails,
       Goto, Return, LocalInv, TypeOK, TxLocal, PutLocal, Calls
  <2>4. ASSUME UNCHANGED vars PROVE Found
    BY Zenon, <2>4 DEF vars
  <2>5. Found
    BY Zenon, <2>1, <2>2, <2>3, <2>4 DEF Next
  <2>6. key'[c] = key[c] /\ key[c] \in Ids
    BY KeysFixed DEF args, LocalInv, TypeOK, Calls
  <2> QED
    BY <1>1, <2>5, <2>6 DEF IndexInv
<1>7. \A c \in PutCalls : pc'[c] \in {"srem", "sadd"} => fsm'[key'[c]] # NoFsm
  <2> SUFFICES ASSUME NEW c \in PutCalls, pc'[c] \in {"srem", "sadd"}
               PROVE  fsm'[key'[c]] # NoFsm
    OBVIOUS
  <2> DEFINE Stored == \/ pc[c] \in {"srem", "sadd"}
                       \/ pc[c] = "put" /\ Set(c)
  <2>1. ASSUME NEW d \in EventCalls, TxStep(d) PROVE Stored
    BY ZenonT(30), <2>1, CallsAssumption DEF TxStep, Watch, WatchFails, GetStateMachine,
       GetStateMachineFails, SendEvent,
       SendEventRejected, GetConfigFails, Exec, ExecAborted, ExecFails, Goto, Return,
       LocalInv, TypeOK, Calls
  <2>2. ASSUME NEW d \in PutCalls, PutStep(d) PROVE Stored
    BY Zenon, <2>2, CallsAssumption DEF PutStep, PutGetConfig, PutRefused, PutStateMachine,
       PutTimesOut, PutFails,
       Goto, Return, LocalInv, TypeOK, Calls
  <2>3. ASSUME NEW d \in Calls, Start(d) \/ UpdateStateStep(d) PROVE Stored
    BY <2>3, CallsAssumption DEF Start, UpdateStateStep, SRem, SAdd, UpdateStateFails,
       Goto, Return, LocalInv, TypeOK, TxLocal, PutLocal, Calls
  <2>4. ASSUME UNCHANGED vars PROVE Stored
    BY Zenon, <2>4 DEF vars
  <2>5. Stored
    BY Zenon, <2>1, <2>2, <2>3, <2>4 DEF Next
  <2>6. key'[c] = key[c] /\ key[c] \in Ids
    BY Zenon, KeysFixed DEF args, LocalInv, TypeOK, Calls
  <2>7. CASE pc[c] = "put" /\ Set(c)
    <3>1. fsm'[key[c]] = next[c]
      BY Zenon, <2>6, <2>7 DEF Set, LocalInv, TypeOK
    <3>2. next[c] \in FiniteStateMachine
      BY Zenon, <2>7, StateOrDefaultTyped DEF LocalInv, PutLocal
    <3> QED
      BY Zenon, <2>6, <3>1, <3>2, NoFsmAssumption
  <2> QED
    BY <1>1, <2>5, <2>6, <2>7 DEF IndexInv
<1> QED
  BY <1>2, <1>5, <1>6, <1>7 DEF IndexInv

\* It holds at the start.
LEMMA IndexInit == Init => IndexInv
BY DEF Init, IndexInv, IndexNeverDangles, ConfigIsPresent, Calls

\* IndexNeverDangles: the state SETs only list machines that can be read, even
\* when puts and events fail half way.
THEOREM NeverDangles == Spec => []IndexNeverDangles
<1>1. IndexInv => IndexNeverDangles
  BY DEF IndexInv
<1> QED
  BY <1>1, LocalInit, LocalStep, CommitInit, CommitStep, IndexInit, IndexStep, PTL DEF Spec

\* ConfigIsPresent: no machine is ever stored without its configuration.
THEOREM ConfigPresent == Spec => []ConfigIsPresent
<1>1. Init => IndexInv
  BY DEF Init, IndexInv, IndexNeverDangles, ConfigIsPresent, Calls
<1>2. IndexInv => ConfigIsPresent
  BY DEF IndexInv
<1> QED
  BY <1>1, <1>2, LocalInit, LocalStep, CommitInit, CommitStep, IndexStep, PTL DEF Spec

-----------------------------------------------------------------------------
(* The state SETs of an undisturbed machine                                 *)

Unindexed(i) == \A s \in StateSets : i \notin inState[s]

\* How far the one call in progress has brought the state SETs of machine i.
Progress(i, c) ==
  /\ c \in EventCalls =>
       /\ watch[c] # "dirty"
       /\ pc[c] \in {"watch", "getFsm", "getConfig", "srem"} => Indexed(i)
       /\ pc[c] = "sadd" => Unindexed(i)
       /\ pc[c] = "exec" => \A s \in StateSets : i \in inState[s] <=> next[c].state = s
  /\ c \in PutCalls =>
       /\ pc[c] \in {"getConfig", "put"} => Indexed(i)
       /\ pc[c] \in {"srem", "sadd"} => fsm[i] = next[c] /\ Unindexed(i)

Orderly(i) ==
  /\ ~Busy(i) => Indexed(i)
  /\ \A c, d \in Calls :
       InFlight(c) /\ InFlight(d) /\ key[c] = i /\ key[d] = i => c = d
  /\ \A c \in Calls : InFlight(c) /\ key[c] = i => Progress(i, c)

OrderInv ==
  /\ \A i \in Ids \ disturbed : Orderly(i)
  /\ \A c \in EventCalls : pc[c] = "new" => watch[c] = "off"

\* Nothing that a step can change about machine i has changed.
Same(i) ==
  /\ fsm'[i] = fsm[i]
  /\ \A s \in StateSets : i \in inState'[s] <=> i \in inState[s]
  /\ key' = key
  /\ \A d \in Calls : key[d] = i => pc'[d] = pc[d] /\ next'[d] = next[d]
  /\ \A d \in EventCalls : key[d] = i => watch'[d] = watch[d]
  /\ i \in disturbed => i \in disturbed'

\* A step that changes nothing that the order of a call's index updates depends
\* on keeps that order.
LEMMA SameOrderly ==
  ASSUME NEW i \in Ids, Same(i), Orderly(i)
  PROVE  Orderly(i)'
<1>1. Indexed(i)' <=> Indexed(i)
  BY DEF Same, Indexed
<1>2. Unindexed(i)' <=> Unindexed(i)
  BY DEF Same, Unindexed
<1>3. \A c \in Calls : (InFlight(c) /\ key[c] = i)' <=> InFlight(c) /\ key[c] = i
  BY DEF Same, InFlight
<1>4. Busy(i)' <=> Busy(i)
  BY Zenon, <1>3 DEF Busy
<1>5. ASSUME NEW c \in Calls, InFlight(c), key[c] = i PROVE Progress(i, c)'
  BY <1>1, <1>2, <1>5 DEF Orderly, Progress, Same
<1> QED
  BY Zenon, <1>1, <1>3, <1>4, <1>5 DEF Orderly

\* SREM and SADD concern one machine.
LEMMA IndexOthers ==
  ASSUME LocalInv, NEW c \in Calls, NEW i \in Ids, key[c] # i, NEW s \in StateSets
  PROVE  /\ i \in Removed(c)[s] <=> i \in inState[s]
         /\ i \in Added(c)[s] <=> i \in inState[s]
<1>1. inState \in [StateSets -> SUBSET Ids]
  BY DEF LocalInv, TypeOK
<1>2. i \in Removed(c)[s] <=> i \in inState[s]
  BY <1>1 DEF Removed
<1>3. i \in Added(c)[s] <=> i \in inState[s]
  BY <1>1 DEF Added
<1> QED
  BY <1>2, <1>3

\* A step of a call on another machine.
LEMMA OthersSame ==
  ASSUME LocalInv, NEW c \in Calls, NEW i \in Ids, key[c] # i,
         \/ c \in EventCalls /\ TxStep(c)
         \/ c \in PutCalls /\ PutStep(c)
         \/ Start(c) \/ UpdateStateStep(c)
  PROVE  Same(i)
<1> USE DEF LocalInv, TypeOK, Calls, Goto, Return, redis, args, aux, Same
<1>1. CASE c \in EventCalls /\ TxStep(c)
  <2>1. CASE Watch(c) \/ WatchFails(c) \/ GetStateMachine(c) \/ GetStateMachineFails(c)
    BY <1>1, <2>1 DEF Watch, WatchFails, GetStateMachine, GetStateMachineFails
  <2>2. CASE SendEvent(c)
    BY Zenon, <1>1, <2>2 DEF SendEvent
  <2>3. CASE SendEventRejected(c) \/ GetConfigFails(c) \/ ExecAborted(c)
    BY Zenon, <1>1, <2>3 DEF SendEventRejected, GetConfigFails, ExecAborted
  <2>4. CASE Exec(c) \/ ExecFails(c)
    BY <1>1, <2>4 DEF Exec, ExecFails, Commit, Set, Rival, Disturb
  <2> QED
    BY Zenon, <1>1, <2>1, <2>2, <2>3, <2>4 DEF TxStep
<1>2. CASE c \in PutCalls /\ PutStep(c)
  <2>1. CASE PutGetConfig(c)
    BY Zenon, <1>2, <2>1 DEF PutGetConfig
  <2>2. CASE PutRefused(c)
    BY Zenon, <1>2, <2>2 DEF PutRefused
  <2>3. CASE PutStateMachine(c)
    BY Zenon, <1>2, <2>3 DEF PutStateMachine, Set, Rival
  <2>4. CASE PutTimesOut(c)
    BY Zenon, <1>2, <2>4 DEF PutTimesOut, SetUnknown, Set, Rival, Disturb
  <2>5. CASE PutFails(c)
    BY Zenon, <1>2, <2>5 DEF PutFails, SetUnknown, Set, Rival, Disturb
  <2> QED
    BY Zenon, <1>2, <2>1, <2>2, <2>3, <2>4, <2>5 DEF PutStep
<1>3. CASE Start(c)
  BY <1>3 DEF Start
<1>4. CASE UpdateStateStep(c)
  <2>1. inState' \in {inState, Removed(c), Added(c)}
    BY Zenon, <1>4 DEF UpdateStateStep, SRem, SAdd, UpdateStateFails
  <2>2. \A s \in StateSets : i \in inState'[s] <=> i \in inState[s]
    BY <2>1, IndexOthers
  <2> QED
    BY Zenon, <1>4, <2>2 DEF UpdateStateStep, SRem, SAdd, UpdateStateFails, Disturb
<1> QED
  BY <1>1, <1>2, <1>3, <1>4

\* A step of the only call on machine i.
LEMMA AloneOrderly ==
  ASSUME LocalInv, NEW c \in Calls, NEW i \in Ids, key[c] = i, key' = key,
         \A d \in Calls : InFlight(d) /\ key[d] = i => d = c,
         NEW l, l # "new", pc' = [pc EXCEPT ![c] = l],
         l = "done" => Indexed(i)',
         l # "done" => Progress(i, c)'
  PROVE  Orderly(i)'
<1>1. \A d \in Calls : (InFlight(d) /\ key[d] = i)' => d = c
  BY DEF InFlight, LocalInv, TypeOK
<1>2. InFlight(c)' <=> l # "done"
  BY DEF InFlight, LocalInv, TypeOK
<1>3. Busy(i)' <=> l # "done"
  BY <1>1, <1>2 DEF Busy
<1> QED
  BY <1>1, <1>2, <1>3 DEF Orderly

\* A step of TxProcessEvent on an undisturbed machine.
LEMMA TxOrderly ==
  ASSUME LocalInv, CommitInv, OrderInv, NEW c \in EventCalls, TxStep(c),
         NEW i \in Ids, key[c] = i, i \notin disturbed'
  PROVE  Orderly(i)'
<1>1. c \in Calls /\ i \notin disturbed /\ key' = key
  BY Zenon DEF TxStep, Watch, WatchFails, GetStateMachine, GetStateMachineFails, SendEvent,
     SendEventRejected, GetConfigFails, Exec, ExecAborted, ExecFails, Disturb,
     LocalInv, TypeOK, Calls, args, aux
<1>2. InFlight(c)
  BY Zenon DEF TxStep, Watch, WatchFails, GetStateMachine, GetStateMachineFails, SendEvent,
     SendEventRejected, GetConfigFails, Exec, ExecAborted, ExecFails, InFlight
<1>3. /\ \A d \in Calls : InFlight(d) /\ key[d] = i => d = c
      /\ Progress(i, c)
  BY <1>1, <1>2 DEF OrderInv, Orderly
<1>4. CASE Exec(c)
  <2>1. fsm'[i] = next[c] /\ next[c] # NoFsm /\ inState' = inState
    BY Zenon, <1>1, <1>4, NoFsmAssumption DEF Exec, Commit, Set, LocalInv, TypeOK, TxLocal
  <2>2. Indexed(i)'
    BY Zenon, <1>3, <1>4, <2>1 DEF Exec, Progress, Indexed
  <2> QED
    BY Zenon, <1>1, <1>3, <1>4, <2>2, AloneOrderly DEF Exec, Return, Goto
<1>5. CASE ExecAborted(c)
  BY Zenon, <1>3, <1>5 DEF ExecAborted, Progress
<1>6. CASE ExecFails(c)
  BY <1>6 DEF ExecFails, Disturb
<1>7. CASE WatchFails(c) \/ GetStateMachineFails(c) \/ SendEventRejected(c) \/ GetConfigFails(c)
  <2>1. Indexed(i) /\ UNCHANGED <<fsm, inState>> /\ pc' = [pc EXCEPT ![c] = "done"]
    BY Zenon, <1>3, <1>7 DEF WatchFails, GetStateMachineFails, SendEventRejected, GetConfigFails,
       Return, Goto, Progress, redis
  <2>2. Indexed(i)'
    BY <2>1 DEF Indexed
  <2> QED
    BY Zenon, <1>1, <1>3, <2>1, <2>2, AloneOrderly
<1>8. CASE Watch(c) \/ GetStateMachine(c) \/ SendEvent(c)
  <2>1. PICK l \in {"getFsm", "getConfig", "srem"} : pc' = [pc EXCEPT ![c] = l]
    BY Zenon, <1>8 DEF Watch, GetStateMachine, SendEvent, Goto
  <2>2. Indexed(i) /\ UNCHANGED <<fsm, inState>> /\ watch'[c] # "dirty"
    BY Zenon, <1>3, <1>8 DEF Watch, GetStateMachine, SendEvent, Progress, redis, LocalInv, TypeOK
  <2>3. Indexed(i)' /\ pc'[c] = l
    BY <1>1, <2>1, <2>2 DEF Indexed, LocalInv, TypeOK
  <2>4. Progress(i, c)'
    BY Zenon, <2>2, <2>3, CallsAssumption DEF Progress
  <2> QED
    BY Zenon, <1>1, <1>3, <2>1, <2>4, AloneOrderly
<1> QED
  BY <1>4, <1>5, <1>6, <1>7, <1>8 DEF TxStep

\* A step of PutFiniteStateMachine on an undisturbed machine.
LEMMA PutOrderly ==
  ASSUME LocalInv, OrderInv, NEW c \in PutCalls, PutStep(c),
         NEW i \in Ids, key[c] = i, i \notin disturbed'
  PROVE  Orderly(i)'
<1>1. c \in Calls /\ i \notin disturbed /\ key' = key
  BY Zenon DEF PutStep, PutGetConfig, PutRefused, PutStateMachine, PutTimesOut, PutFails, Disturb,
     LocalInv, TypeOK, Calls, args, aux
<1>2. InFlight(c)
  BY Zenon DEF PutStep, PutGetConfig, PutRefused, PutStateMachine, PutTimesOut, PutFails, InFlight
<1>3. /\ \A d \in Calls : InFlight(d) /\ key[d] = i => d = c
      /\ Progress(i, c)
  BY <1>1, <1>2 DEF OrderInv, Orderly
<1>4. CASE PutGetConfig(c)
  <2>1. Indexed(i) /\ UNCHANGED <<fsm, inState>> /\ pc' = [pc EXCEPT ![c] = "put"]
    BY Zenon, <1>3, <1>4 DEF PutGetConfig, Goto, Progress, redis
  <2>2. Indexed(i)' /\ pc'[c] = "put"
    BY <1>1, <2>1 DEF Indexed, LocalInv, TypeOK
  <2>3. Progress(i, c)'
    BY <2>2, CallsAssumption DEF Progress
  <2> QED
    BY Zenon, <1>1, <1>3, <2>1, <2>3, AloneOrderly
<1>5. CASE PutRefused(c)
  <2>1. Indexed(i) /\ UNCHANGED <<fsm, inState>> /\ pc' = [pc EXCEPT ![c] = "done"]
    BY <1>3, <1>5 DEF PutRefused, Return, Goto, Progress, redis
  <2>2. Indexed(i)'
    BY <2>1 DEF Indexed
  <2> QED
    BY Zenon, <1>1, <1>3, <2>1, <2>2, AloneOrderly
<1>6. CASE PutStateMachine(c)
  <2>1. fsm[i] = NoFsm /\ Indexed(i) /\ UNCHANGED <<inState, next>>
    BY Zenon, <1>3, <1>6 DEF PutStateMachine, Progress
  <2>2. fsm'[i] = next[c] /\ pc' = [pc EXCEPT ![c] = "srem"] /\ pc'[c] = "srem"
    BY <1>1, <1>6 DEF PutStateMachine, Set, Goto, LocalInv, TypeOK
  <2>3. Unindexed(i)'
    BY <2>1 DEF Indexed, Unindexed
  <2>4. Progress(i, c)'
    BY ZenonT(30), <2>1, <2>2, <2>3, CallsAssumption DEF Progress
  <2> QED
    BY Zenon, <1>1, <1>3, <2>2, <2>4, AloneOrderly
<1>7. CASE PutTimesOut(c) \/ PutFails(c)
  BY <1>7 DEF PutTimesOut, PutFails, Disturb
<1> QED
  BY <1>4, <1>5, <1>6, <1>7 DEF PutStep

\* A step of UpdateState on an undisturbed machine.
LEMMA UpdateOrderly ==
  ASSUME LocalInv, CommitInv, OrderInv, NEW c \in Calls, UpdateStateStep(c),
         NEW i \in Ids, key[c] = i, i \notin disturbed'
  PROVE  Orderly(i)'
<1>1. i \notin disturbed /\ key' = key
  BY Zenon DEF UpdateStateStep, SRem, SAdd, UpdateStateFails, Disturb, args, aux
<1>2. InFlight(c)
  BY Zenon DEF UpdateStateStep, SRem, SAdd, UpdateStateFails, InFlight
<1>3. /\ \A d \in Calls : InFlight(d) /\ key[d] = i => d = c
      /\ Progress(i, c)
  BY <1>1, <1>2 DEF OrderInv, Orderly
<1>4. inState \in [StateSets -> SUBSET Ids] /\ c \in EventCalls \cup PutCalls
  BY DEF LocalInv, TypeOK, Calls
<1>5. CASE SRem(c)
  <2>1. UNCHANGED <<fsm, next, watch>> /\ pc' = [pc EXCEPT ![c] = "sadd"] /\ pc'[c] = "sadd"
    BY <1>5 DEF SRem, Goto, LocalInv, TypeOK
  <2>2. CASE c \in EventCalls
    <3>1. fsm[i] = read[c] /\ Indexed(i)
      BY <1>3, <1>5, <2>2 DEF SRem, Progress, CommitInv, Sound
    <3>2. \A s \in StateSets : i \in inState[s] => s = OldState(c)
      BY Zenon, <2>2, <3>1 DEF Indexed, OldState
    <3>3. Unindexed(i)'
      BY Zenon, <1>4, <1>5, <3>2 DEF SRem, Removed, Unindexed, StateSets
    <3>4. Progress(i, c)'
      BY Zenon, <1>3, <2>1, <2>2, <3>3, CallsAssumption DEF Progress
    <3> QED
      BY ZenonT(30), <1>1, <1>3, <2>1, <3>4, AloneOrderly
  <2>3. CASE c \in PutCalls
    <3>1. inState' = inState
      BY Zenon, <1>5, <2>3, CallsAssumption DEF SRem, Removed, OldState
    <3>2. fsm[i] = next[c] /\ Unindexed(i)
      BY Zenon, <1>3, <1>5, <2>3 DEF SRem, Progress
    <3>3. Unindexed(i)'
      BY ZenonT(30), <3>1, <3>2 DEF Unindexed
    <3>4. Progress(i, c)'
      BY <2>1, <2>3, <3>2, <3>3, CallsAssumption DEF Progress
    <3> QED
      BY Zenon, <1>1, <1>3, <2>1, <3>4, AloneOrderly
  <2> QED
    BY Zenon, <1>4, <2>2, <2>3
<1>6. CASE SAdd(c)
  <2>1. next[c] \in FiniteStateMachine
    BY Zenon, <1>4, <1>6, StateOrDefaultTyped DEF SAdd, LocalInv, TxLocal, PutLocal
  <2>2. next[c].state \in States \cup {Unset}
    BY Zenon, <2>1 DEF FiniteStateMachine
  <2>3. Unindexed(i) /\ UNCHANGED <<fsm, next, watch>>
    BY Zenon, <1>3, <1>4, <1>6 DEF SAdd, Progress
  <2>4. \A s \in StateSets : i \in inState'[s] <=> next[c].state = s
    BY <1>4, <1>6, <2>2, <2>3 DEF SAdd, Added, Unindexed, StateSets
  <2>5. CASE c \in EventCalls
    <3>1. pc' = [pc EXCEPT ![c] = "exec"] /\ pc'[c] = "exec"
      BY <1>6, <2>5 DEF SAdd, Goto, LocalInv, TypeOK
    <3>2. Progress(i, c)'
      BY Zenon, <1>3, <2>3, <2>4, <2>5, <3>1, CallsAssumption DEF Progress
    <3> QED
      BY Zenon, <1>1, <1>3, <3>1, <3>2, AloneOrderly
  <2>6. CASE c \in PutCalls
    <3>1. pc' = [pc EXCEPT ![c] = "done"]
      BY Zenon, <1>6, <2>6, CallsAssumption DEF SAdd, Return, Goto
    <3>2. fsm'[i] = next[c] /\ next[c] # NoFsm
      BY Zenon, <1>3, <1>6, <2>1, <2>3, <2>6, NoFsmAssumption DEF SAdd, Progress
    <3>3. Indexed(i)'
      BY <2>4, <3>2 DEF Indexed
    <3> QED
      BY Zenon, <1>1, <1>3, <3>1, <3>3, AloneOrderly
  <2> QED
    BY <1>4, <2>5, <2>6
<1>7. CASE UpdateStateFails(c)
  BY <1>7 DEF UpdateStateFails, Disturb
<1> QED
  BY Zenon, <1>5, <1>6, <1>7 DEF UpdateStateStep

\* The start of a call on a machine that stays undisturbed.
LEMMA StartOrderly ==
  ASSUME LocalInv, OrderInv, NEW c \in Calls, Start(c),
         NEW i \in Ids, key[c] = i, i \notin disturbed'
  PROVE  Orderly(i)'
<1>1. ~Busy(i) /\ i \notin disturbed /\ key' = key /\ UNCHANGED <<fsm, inState, watch>>
  BY Zenon DEF Start, args, redis
<1>2. Indexed(i)'
  BY <1>1 DEF OrderInv, Orderly, Indexed
<1>3. PICK l \in {"watch", "getConfig"} :
        /\ pc' = [pc EXCEPT ![c] = l] /\ pc'[c] = l
        /\ c \in EventCalls => watch'[c] # "dirty"
  BY Zenon, <1>1 DEF Start, Goto, OrderInv, LocalInv, TypeOK
<1>4. Progress(i, c)'
  BY <1>2, <1>3, CallsAssumption DEF Progress
<1> QED
  BY Zenon, <1>1, <1>3, <1>4, AloneOrderly DEF Busy

\* Every step keeps the undisturbed machines orderly.
LEMMA OrderStep == LocalInv /\ CommitInv /\ OrderInv /\ [Next]_vars => OrderInv'
<1> SUFFICES ASSUME LocalInv, CommitInv, OrderInv, [Next]_vars PROVE OrderInv'
  OBVIOUS
<1>1. \A c \in EventCalls : pc'[c] = "new" => watch'[c] = "off"
  <2> USE DEF OrderInv, LocalInv, TypeOK, Calls, Goto, Return, redis
  <2>1. ASSUME NEW d \in EventCalls, TxStep(d), NEW c \in EventCalls, pc'[c] = "new"
        PROVE  watch'[c] = "off"
    <3>1. CASE Watch(d)
      BY Zenon, <2>1, <3>1 DEF Watch
    <3>2. CASE WatchFails(d)
      BY Zenon, <2>1, <3>2 DEF WatchFails
    <3>3. CASE GetStateMachine(d)
      BY Zenon, <2>1, <3>3 DEF GetStateMachine
    <3>4. CASE GetStateMachineFails(d)
      BY <2>1, <3>4 DEF GetStateMachineFails
    <3>5. CASE SendEvent(d)
      BY Zenon, <2>1, <3>5 DEF SendEvent
    <3>6. CASE SendEventRejected(d)
      BY Zenon, <2>1, <3>6 DEF SendEventRejected
    <3>7. CASE GetConfigFails(d)
      BY Zenon, <2>1, <3>7 DEF GetConfigFails
    <3>8. CASE Exec(d)
      BY Zenon, <2>1, <3>8 DEF Exec, Commit, Set, Rival, InFlight
    <3>9. CASE ExecAborted(d)
      BY Zenon, <2>1, <3>9 DEF ExecAborted
    <3>10. CASE ExecFails(d)
      BY <2>1, <3>10 DEF ExecFails, Commit, Set, Rival, InFlight
    <3> QED
      BY Zenon, <2>1, <3>1, <3>2, <3>3, <3>4, <3>5, <3>6, <3>7, <3>8, <3>9, <3>10 DEF TxStep
  <2>2. ASSUME NEW d \in PutCalls, PutStep(d), NEW c \in EventCalls, pc'[c] = "new"
        PROVE  watch'[c] = "off"
    <3>1. CASE PutGetConfig(d)
      BY Zenon, <2>2, <3>1 DEF PutGetConfig
    <3>2. CASE PutRefused(d)
      BY Zenon, <2>2, <3>2 DEF PutRefused
    <3>3. CASE PutStateMachine(d)
      BY Zenon, <2>2, <3>3 DEF PutStateMachine, Set, Rival, InFlight
    <3>4. CASE PutTimesOut(d)
      BY Zenon, <2>2, <3>4 DEF PutTimesOut, SetUnknown, Set, Rival, InFlight
    <3>5. CASE PutFails(d)
      BY Zenon, <2>2, <3>5 DEF PutFails, SetUnknown, Set, Rival, InFlight
    <3> QED
      BY Zenon, <2>2, <3>1, <3>2, <3>3, <3>4, <3>5 DEF PutStep
  <2>3. ASSUME NEW d \in Calls, Start(d) \/ UpdateStateStep(d),
               NEW c \in EventCalls, pc'[c] = "new"
        PROVE  watch'[c] = "off"
    BY Zenon, <2>3 DEF Start, UpdateStateStep, SRem, SAdd, UpdateStateFails
  <2>4. ASSUME UNCHANGED vars, NEW c \in EventCalls, pc'[c] = "new" PROVE watch'[c] = "off"
    BY <2>4 DEF vars
  <2> QED
    BY Zenon, <2>1, <2>2, <2>3, <2>4 DEF Next
<1>2. ASSUME NEW i \in Ids, i \notin disturbed' PROVE Orderly(i)'
  <2>1. ASSUME Same(i) PROVE Orderly(i)'
    <3>1. i \notin disturbed
      BY <1>2, <2>1 DEF Same
    <3> QED
      BY Zenon, <2>1, <3>1, SameOrderly DEF OrderInv
  <2>2. ASSUME NEW c \in EventCalls, TxStep(c) PROVE Orderly(i)'
    BY <1>2, <2>1, <2>2, TxOrderly, OthersSame DEF Calls
  <2>3. ASSUME NEW c \in PutCalls, PutStep(c) PROVE Orderly(i)'
    BY Zenon, <1>2, <2>1, <2>3, PutOrderly, OthersSame DEF Calls
  <2>4. ASSUME NEW c \in Calls, Start(c) PROVE Orderly(i)'
    BY Zenon, <1>2, <2>1, <2>4, StartOrderly, OthersSame
  <2>5. ASSUME NEW c \in Calls, UpdateStateStep(c) PROVE Orderly(i)'
    BY <1>2, <2>1, <2>5, UpdateOrderly, OthersSame
  <2>6. CASE UNCHANGED vars
    <3>1. Same(i)
      BY Zenon, <2>6 DEF vars, redis, args, aux, Same
    <3> QED
      BY Zenon, <2>1, <3>1
  <2> QED
    BY Zenon, <2>2, <2>3, <2>4, <2>5, <2>6 DEF Next
<1> QED
  BY <1>1, <1>2 DEF OrderInv

\* At the start no machine is indexed and no call is under way.
LEMMA OrderInit == Init => OrderInv
BY DEF Init, OrderInv, Orderly, Busy, InFlight, Indexed, Calls

\* IndexedIfUndisturbed, for any number of machines and calls: without overlap,
\* failure or replacement, GetAllInState lists exactly the machines in a state.
THEOREM UndisturbedIsIndexed == Spec => []IndexedIfUndisturbed
<1>1. OrderInv => IndexedIfUndisturbed
  BY DEF OrderInv, Orderly, IndexedIfUndisturbed
<1> QED
  BY <1>1, LocalInit, LocalStep, CommitInit, CommitStep, OrderInit, OrderStep, PTL DEF Spec

-----------------------------------------------------------------------------
(* What the store owes the readers of FsmStreams                            *)

\* What is shown of the store.
StoreInv == LocalInv /\ CommitInv /\ IndexInv /\ OrderInv

\* The invariant of the store holds at the start.
LEMMA StoreInit == Init => StoreInv
BY LocalInit, CommitInit, IndexInit, OrderInit DEF StoreInv

\* Every step of a writer keeps it.
LEMMA StoreNext == StoreInv /\ [Next]_vars => StoreInv'
BY Zenon, LocalStep, CommitStep, IndexStep, OrderStep DEF StoreInv

\* A machine in the SET of a state belongs to that state, if no calls on it
\* overlapped or failed.
LEMMA ListedBelongs ==
  ASSUME StoreInv, NEW s \in StateSets, NEW i \in inState[s], i \notin disturbed
  PROVE  Belongs(i, s)
<1>1. i \in Ids /\ Orderly(i)
  BY Zenon DEF StoreInv, LocalInv, TypeOK, OrderInv
<1>2. CASE ~Busy(i)
  BY Zenon, <1>1, <1>2 DEF Orderly, Indexed, Belongs
<1>3. ASSUME NEW c \in Calls, InFlight(c), key[c] = i PROVE Belongs(i, s)
  <2>1. Progress(i, c)
    BY Zenon, <1>1, <1>3 DEF Orderly
  <2>2. CASE Indexed(i)
    BY <2>2 DEF Indexed, Belongs
  <2>3. CASE Unindexed(i)
    BY Zenon, <2>3 DEF Unindexed
  <2>4. CASE c \in EventCalls /\ pc[c] = "exec"
    BY Zenon, <1>3, <2>1, <2>4 DEF Progress, Belongs
  <2>5. CASE c \in EventCalls /\ pc[c] # "exec"
    <3>1. pc[c] \in {"watch", "getFsm", "getConfig", "srem", "sadd"}
      BY Zenon, <1>3, <2>5 DEF StoreInv, LocalInv, TypeOK, TxLocal, InFlight
    <3> QED
      BY Zenon, <2>1, <2>2, <2>3, <2>5, <3>1 DEF Progress
  <2>6. CASE c \in PutCalls
    <3>1. pc[c] \in {"getConfig", "put", "srem", "sadd"}
      BY Zenon, <1>3, <2>6 DEF StoreInv, LocalInv, TypeOK, PutLocal, InFlight
    <3> QED
      BY Zenon, <2>1, <2>2, <2>3, <2>6, <3>1 DEF Progress
  <2> QED
    BY Zenon, <2>4, <2>5, <2>6 DEF Calls
<1> QED
  BY Zenon, <1>2, <1>3 DEF Busy

\* A step that leaves the machine, and the calls on it that are about to EXEC,
\* as they are.
LEMMA BelongsSame ==
  ASSUME NEW i \in Ids, NEW s, Belongs(i, s), fsm'[i] = fsm[i], key' = key,
         \A d \in EventCalls : key[d] = i /\ pc[d] = "exec" =>
           pc'[d] = "exec" /\ next'[d] = next[d]
  PROVE  Belongs(i, s)'
BY DEF Belongs

\* EXEC: the machine enters the state of next, and its History keeps the one
\* that it leaves.
LEMMA BelongsExec ==
  ASSUME StoreInv, NEW c \in EventCalls, Exec(c), key[c] \notin disturbed,
         NEW s, Belongs(key[c], s)
  PROVE  Belongs(key[c], s)'
<1> DEFINE i == key[c]
<1>1. /\ i \in Ids /\ Orderly(i) /\ pc[c] = "exec" /\ watch[c] # "dirty" /\ c \in Calls
      /\ fsm' = [fsm EXCEPT ![i] = next[c]] /\ key' = key
  BY DEF StoreInv, LocalInv, TypeOK, OrderInv, Exec, Commit, Set, Calls, args
<1>2. fsm[i] = read[c] /\ read[c] \in FiniteStateMachine /\ Prepared(c)
  BY Zenon, <1>1 DEF StoreInv, LocalInv, TxLocal, CommitInv, Sound
<1>3. fsm'[i] = next[c]
  BY <1>1 DEF StoreInv, LocalInv, TypeOK
<1>4. PICK t : next[c] = Moved(fsm[i], evt[c], t)
  BY Zenon, <1>2 DEF Prepared
<1> DEFINE h == fsm[i].history
           entry == [id |-> evt[c].id, event |-> evt[c].event, from |-> fsm[i].state, to |-> t.to]
<1>5. fsm[i] \in FiniteStateMachine /\ h \in Seq(HistoryEntry)
  BY Zenon, <1>2 DEF FiniteStateMachine
<1>6. fsm'[i].history = Append(h, entry)
  BY ZenonT(30), <1>3, <1>4, <1>5 DEF Moved, FiniteStateMachine
<1>7. /\ Len(h) + 1 \in DOMAIN fsm'[i].history
      /\ fsm'[i].history[Len(h) + 1].from = fsm[i].state
      /\ \A n \in DOMAIN h : n \in DOMAIN fsm'[i].history /\ fsm'[i].history[n] = h[n]
  <2> HIDE DEF h
  <2>1. Append(h, entry) = [n \in 1 .. Len(h) + 1 |-> IF n = Len(h) + 1 THEN entry ELSE h[n]]
        /\ Len(h) \in Nat /\ DOMAIN h = 1 .. Len(h)
    BY <1>5
  <2> QED
    BY <1>6, <2>1
<1>8. CASE fsm[i].state = s
  BY Zenon, <1>1, <1>7, <1>8 DEF Belongs
<1>9. CASE \E n \in DOMAIN h : h[n].from = s
  BY ZenonT(30), <1>1, <1>7, <1>9 DEF Belongs
<1>10. ASSUME NEW d \in EventCalls, key[d] = i, pc[d] = "exec", next[d].state = s
       PROVE  Belongs(i, s)'
  <2>1. d = c
    BY Zenon, <1>1, <1>10 DEF Orderly, InFlight, Calls
  <2> QED
    BY Zenon, <1>1, <1>3, <1>10, <2>1 DEF Belongs
<1> QED
  BY Zenon, <1>8, <1>9, <1>10 DEF Belongs

\* A machine stays disturbed.
LEMMA DisturbedStays ==
  ASSUME [Next]_vars, NEW i, i \in disturbed
  PROVE  i \in disturbed'
BY Zenon DEF Next, Start, TxStep, Watch, WatchFails, GetStateMachine, GetStateMachineFails,
   SendEvent, SendEventRejected, GetConfigFails, Exec, ExecAborted, ExecFails,
   PutStep, PutGetConfig, PutRefused, PutStateMachine, PutTimesOut, PutFails,
   UpdateStateStep, SRem, SAdd, UpdateStateFails, Disturb, vars, aux

\* A machine that is stored stays stored.
LEMMA StaysStored ==
  ASSUME StoreInv, [Next]_vars, NEW i \in Ids, fsm[i] # NoFsm
  PROVE  fsm'[i] # NoFsm
BY Zenon, Written, NoFsmAssumption DEF StoreInv

\* A machine goes on belonging to a state, until calls on it overlap or fail, or
\* one of them replaces it.
LEMMA BelongsKept ==
  ASSUME StoreInv, [Next]_vars, NEW i \in Ids, fsm[i] # NoFsm, i \notin disturbed',
         NEW s, Belongs(i, s)
  PROVE  Belongs(i, s)'
<1>0. LocalInv /\ OrderInv /\ UNCHANGED args /\ TypeOK
  BY KeysFixed DEF StoreInv, LocalInv
<1>1. key' = key
  BY Zenon, <1>0 DEF args
<1>2. CASE Same(i)
  BY <1>1, <1>2, BelongsSame DEF Same, Calls
<1>3. CASE UNCHANGED vars
  BY Zenon, <1>3, BelongsSame DEF vars, redis, args
<1>4. ASSUME NEW c \in EventCalls, TxStep(c), key[c] = i PROVE Belongs(i, s)'
  <2>1. c \in Calls /\ i \notin disturbed
    BY Zenon, <1>4
       DEF Calls, TxStep, Watch, WatchFails, GetStateMachine, GetStateMachineFails, SendEvent,
       SendEventRejected, GetConfigFails, Exec, ExecAborted, ExecFails, aux, Disturb
  <2>2. CASE Exec(c)
    BY Zenon, <1>1, <1>4, <2>1, <2>2, BelongsExec
  <2>3. CASE ExecFails(c)
    BY <1>4, <2>3 DEF ExecFails, Disturb
  <2>4. CASE ExecAborted(c)
    <3>1. Progress(i, c)
      BY Zenon, <1>0, <1>4, <2>1, <2>4 DEF OrderInv, Orderly, ExecAborted, InFlight
    <3> QED
      BY Zenon, <1>4, <2>4, <3>1 DEF Progress, ExecAborted
  <2>5. CASE ~(Exec(c) \/ ExecFails(c) \/ ExecAborted(c))
    <3>1. /\ fsm' = fsm /\ pc[c] # "exec"
          /\ \A d \in EventCalls \ {c} : pc'[d] = pc[d] /\ next'[d] = next[d]
      BY Zenon, <1>0, <1>4, <2>1, <2>5 DEF TxStep, Watch, WatchFails, GetStateMachine,
         GetStateMachineFails, SendEvent, SendEventRejected, GetConfigFails, Goto, Return, TypeOK,
         redis, Calls
    <3> QED
      BY Zenon, <1>1, <3>1, BelongsSame
  <2> QED
    BY <2>2, <2>3, <2>4, <2>5
<1>5. ASSUME NEW c \in PutCalls, PutStep(c), key[c] = i PROVE Belongs(i, s)'
  <2>1. PutGetConfig(c) \/ PutRefused(c)
    BY <1>5 DEF PutStep, PutStateMachine, PutTimesOut, PutFails, Disturb
  <2>2. /\ fsm' = fsm
        /\ \A d \in EventCalls : pc'[d] = pc[d] /\ next'[d] = next[d]
    BY Zenon, <1>0, <2>1, CallsAssumption
       DEF PutGetConfig, PutRefused, Goto, Return, TypeOK, redis, Calls
  <2> QED
    BY ZenonT(30), <1>1, <2>2, BelongsSame
<1>6. ASSUME NEW c \in Calls, Start(c) \/ UpdateStateStep(c), key[c] = i PROVE Belongs(i, s)'
  <2>1. /\ fsm' = fsm /\ next' = next /\ pc[c] # "exec"
        /\ \A d \in Calls \ {c} : pc'[d] = pc[d]
    BY Zenon, <1>0, <1>6
       DEF Start, UpdateStateStep, SRem, SAdd, UpdateStateFails, Goto, Return, TypeOK,
       redis
  <2> QED
    BY Zenon, <1>1, <2>1, BelongsSame DEF Calls
<1>7. \/ \E c \in EventCalls : TxStep(c)
      \/ \E c \in PutCalls : PutStep(c)
      \/ \E c \in Calls : Start(c) \/ UpdateStateStep(c)
      \/ UNCHANGED vars
  BY DEF Next
<1> QED
  BY Zenon, <1>0, <1>2, <1>3, <1>4, <1>5, <1>6, <1>7, OthersSame DEF Calls
=============================================================================
