--------------------------- MODULE FsmStoreProofs ---------------------------
(***************************************************************************)
(* The properties of FsmStore, for any number of machines, calls and        *)
(* retries, and any failures.                                               *)
(***************************************************************************)
EXTENDS FsmStore, TLAPS

-----------------------------------------------------------------------------
(* Types, and where a call can be                                           *)

\* The part of the inductive invariant about one call of TxProcessEvent: it has
\* read a machine once it is past GetStateMachine, and has attempts left.
TxLocal(c) ==
  /\ pc[c] # "put"
  /\ pc[c] \in {"getConfig", "srem", "sadd", "exec"} => read[c] \in FiniteStateMachine
  /\ pc[c] \in {"srem", "sadd", "exec"} => next[c] \in FiniteStateMachine
  /\ pc[c] # "done" => tries[c] < DefaultMaxRetries

\* And about one call of PutFiniteStateMachine: what it is going to store.
PutLocal(c) ==
  /\ pc[c] \notin {"watch", "getFsm", "exec"}
  /\ pc[c] \in {"new", "getConfig"} => next[c] \in PutRequests
  /\ pc[c] \in {"put", "srem", "sadd"} =>
       \E f \in PutRequests : f.configId \in DOMAIN Config /\ next[c] = StateOrDefault(f)
  /\ pc[c] \in {"new", "getConfig", "put"} => tries[c] < MaxRetries

LocalInv ==
  /\ TypeOK
  /\ \A c \in EventCalls : TxLocal(c)
  /\ \A c \in PutCalls : PutLocal(c)

\* The transition that fires is one of the configuration's.
LEMMA FiresTyped ==
  ASSUME NEW cfg \in Configuration, NEW s, NEW e, NEW k, Fires(cfg, s, e, k)
  PROVE  cfg.transitions[k] \in Transition
<1>1. cfg.transitions \in Seq(Transition)
  BY DEF Configuration
<1>2. k \in DOMAIN cfg.transitions
  BY DEF Fires
<1> QED
  BY <1>1, <1>2

\* Firing a transition from the machine's state yields a machine.
LEMMA MovedTyped ==
  ASSUME NEW f \in FiniteStateMachine, NEW e \in Event, NEW t \in Transition,
         f.state = t.from
  PROVE  Moved(f, e, t) \in FiniteStateMachine
<1> DEFINE entry == [id |-> e.id, event |-> e.event, from |-> f.state, to |-> t.to]
<1>1. entry \in HistoryEntry
  BY DEF Event, Transition, HistoryEntry
<1>2. Append(f.history, entry) \in Seq(HistoryEntry)
  <2>1. f.history \in Seq(HistoryEntry)
    BY DEF FiniteStateMachine
  <2> HIDE DEF entry
  <2> QED
    BY <1>1, <2>1
<1>3. t.to \in States \cup {Unset}
  BY DEF Transition
<1> QED
  BY Zenon, <1>2, <1>3 DEF Moved, FiniteStateMachine

\* Defaulting the state of a machine that is put yields a machine.
LEMMA StateOrDefaultTyped ==
  ASSUME NEW f \in PutRequests, f.configId \in DOMAIN Config
  PROVE  /\ StateOrDefault(f) \in FiniteStateMachine
         /\ StateOrDefault(f).configId = f.configId
<1>1. f \in FiniteStateMachine
  BY PutRequestsAssumption
<1>2. Config[f.configId] \in Configuration
  BY ConfigAssumption
<1>3. Config[f.configId].startingState \in States \cup {Unset}
  BY <1>2 DEF Configuration
<1> QED
  BY <1>1, <1>3 DEF StateOrDefault, FiniteStateMachine

\* Initially no call has started.
LEMMA LocalInit == Init => LocalInv
<1> SUFFICES ASSUME Init PROVE LocalInv
  OBVIOUS
<1>1. PICK req \in [PutCalls -> PutRequests] :
        next = [c \in Calls |-> IF c \in PutCalls THEN req[c] ELSE NoFsm]
  BY DEF Init
<1>2. next \in [Calls -> FiniteStateMachine \cup {NoFsm}]
  BY <1>1, PutRequestsAssumption
<1>3. TypeOK
  BY <1>2, RetriesAssumption DEF Init, TypeOK, Calls, Results
<1>4. \A c \in EventCalls : TxLocal(c)
  BY RetriesAssumption DEF Init, TxLocal, Calls
<1>5. \A c \in PutCalls : PutLocal(c)
  BY <1>1, RetriesAssumption DEF Init, PutLocal, Calls
<1> QED
  BY <1>3, <1>4, <1>5 DEF LocalInv

\* SREM and SADD leave SETs of ids.
LEMMA IndexTyped ==
  ASSUME TypeOK, NEW c \in Calls
  PROVE  Removed(c) \in [StateSets -> SUBSET Ids] /\ Added(c) \in [StateSets -> SUBSET Ids]
<1>1. inState \in [StateSets -> SUBSET Ids] /\ key[c] \in Ids
  BY DEF TypeOK
<1> QED
  BY Zenon, <1>1 DEF Removed, Added

\* Every step of a call keeps the types and the shape of the calls.
LEMMA LocalStep == LocalInv /\ [Next]_vars => LocalInv'
<1> SUFFICES ASSUME LocalInv, [Next]_vars PROVE LocalInv'
  OBVIOUS
<1>1. ASSUME NEW c \in Calls, Start(c) PROVE LocalInv'
  BY <1>1, CallsAssumption DEF Start, Goto, Return, Results, LocalInv, TypeOK, TxLocal,
     PutLocal, Calls, redis, args, aux
<1>2. ASSUME NEW c \in EventCalls, Watch(c) PROVE LocalInv'
  BY <1>2 DEF Watch, Goto, Return, Results, LocalInv, TypeOK, TxLocal, PutLocal, Calls,
     redis, args, aux
<1>3. ASSUME NEW c \in EventCalls, WatchFails(c) PROVE LocalInv'
  BY <1>3 DEF WatchFails, Goto, Return, Results, LocalInv, TypeOK, TxLocal, PutLocal, Calls,
     redis, args, aux
<1>4. ASSUME NEW c \in EventCalls, GetStateMachine(c) PROVE LocalInv'
  BY <1>4 DEF GetStateMachine, Goto, Return, Results, LocalInv, TypeOK, TxLocal, PutLocal,
     Calls, redis, args, aux
<1>5. ASSUME NEW c \in EventCalls, GetStateMachineFails(c) PROVE LocalInv'
  BY <1>5 DEF GetStateMachineFails, Goto, Return, Results, LocalInv, TypeOK, TxLocal,
     PutLocal, Calls, redis, args, aux
<1>6. ASSUME NEW c \in EventCalls, SendEventRejected(c) PROVE LocalInv'
  BY <1>6 DEF SendEventRejected, Goto, Return, Results, LocalInv, TypeOK, TxLocal, PutLocal,
     Calls, redis, args, aux
<1>7. ASSUME NEW c \in EventCalls, GetConfigFails(c) PROVE LocalInv'
  BY Zenon, <1>7 DEF GetConfigFails, Goto, Return, Results, LocalInv, TypeOK, TxLocal, PutLocal,
     Calls, redis, args, aux
<1>8. ASSUME NEW c \in EventCalls, SendEvent(c) PROVE LocalInv'
  <2>1. PICK k \in DOMAIN Config[read[c].configId].transitions :
          /\ Fires(Config[read[c].configId], read[c].state, evt[c].event, k)
          /\ next' = [next EXCEPT ![c] = Moved(read[c], evt[c],
                                        Config[read[c].configId].transitions[k])]
    BY Zenon, <1>8 DEF SendEvent
  <2>2. read[c] \in FiniteStateMachine /\ evt[c] \in Event
    BY Zenon, <1>8, EventsAssumption DEF SendEvent, LocalInv, TxLocal, TypeOK
  <2>3. Config[read[c].configId] \in Configuration
    BY <1>8, ConfigAssumption DEF SendEvent
  <2>4. /\ Config[read[c].configId].transitions[k] \in Transition
        /\ read[c].state = Config[read[c].configId].transitions[k].from
    BY <2>1, <2>3, FiresTyped DEF Fires, Matches
  <2>5. Moved(read[c], evt[c], Config[read[c].configId].transitions[k]) \in FiniteStateMachine
    BY Zenon, <2>2, <2>4, MovedTyped
  <2> QED
    BY <1>8, <2>1, <2>5, CallsAssumption DEF SendEvent, Goto, LocalInv, TypeOK, TxLocal,
       PutLocal, Calls, redis, args, aux
<1>9. ASSUME NEW c \in EventCalls, Exec(c) PROVE LocalInv'
  BY <1>9, SMTT(20) DEF Exec, Commit, Set, Goto, Return, Results, LocalInv, TypeOK, TxLocal,
     PutLocal,
     Calls, redis, args, aux
<1>10. ASSUME NEW c \in EventCalls, ExecAborted(c) PROVE LocalInv'
  BY <1>10, RetriesAssumption, SMTT(20) DEF ExecAborted, Goto, Return, Results, LocalInv, TypeOK,
     TxLocal, PutLocal, Calls, redis, args, aux
<1>11. ASSUME NEW c \in EventCalls, ExecFails(c) PROVE LocalInv'
  BY <1>11, SMTT(20) DEF ExecFails, Commit, Set, Disturb, Goto, Return, Results, LocalInv, TypeOK,
     TxLocal, PutLocal, Calls, redis, args, aux
<1>12. ASSUME NEW c \in PutCalls, PutGetConfig(c) PROVE LocalInv'
  <2>1. next[c] \in PutRequests /\ next[c].configId \in DOMAIN Config
    BY <1>12 DEF PutGetConfig, LocalInv, PutLocal
  <2>2. StateOrDefault(next[c]) \in FiniteStateMachine
    BY Zenon, <2>1, StateOrDefaultTyped
  <2> QED
    BY <1>12, <2>1, <2>2, CallsAssumption DEF PutGetConfig, Goto, LocalInv, TypeOK,
       TxLocal, PutLocal, Calls, redis, args, aux
<1>13. ASSUME NEW c \in PutCalls, PutRefused(c) PROVE LocalInv'
  BY <1>13 DEF PutRefused, Goto, Return, Results, LocalInv, TypeOK, TxLocal, PutLocal,
     Calls, redis, args, aux
<1>14. ASSUME NEW c \in PutCalls, PutStateMachine(c) PROVE LocalInv'
  BY <1>14, SMTT(20) DEF PutStateMachine, Set, Goto, Return, Results, LocalInv, TypeOK, TxLocal,
     PutLocal, Calls, redis, args, aux
<1>15. ASSUME NEW c \in PutCalls, PutTimesOut(c) PROVE LocalInv'
  BY <1>15, RetriesAssumption DEF PutTimesOut, SetUnknown, Set, Disturb, Goto, Return,
     Results, LocalInv, TypeOK, TxLocal, PutLocal, Calls, redis, args, aux
<1>16. ASSUME NEW c \in PutCalls, PutFails(c) PROVE LocalInv'
  BY <1>16, SMTT(20) DEF PutFails, SetUnknown, Set, Disturb, Goto, Return, Results, LocalInv,
     TypeOK,
     TxLocal, PutLocal, Calls, redis, args, aux
<1>17. ASSUME NEW c \in Calls, SRem(c) PROVE LocalInv'
  BY Zenon, <1>17 DEF SRem, Removed, Goto, Return, Results, LocalInv, TypeOK, TxLocal, PutLocal,
     Calls, redis, args, aux
<1>18. ASSUME NEW c \in Calls, SAdd(c) PROVE LocalInv'
  <2>1. inState' \in [StateSets -> SUBSET Ids]
    BY <1>18, IndexTyped DEF SAdd, LocalInv
  <2>2. TypeOK'
    BY Zenon, <1>18, <2>1 DEF SAdd, Goto, Return, Results, LocalInv, TypeOK, Calls, args, aux
  <2>3. (\A d \in EventCalls : TxLocal(d)')
    BY Zenon, <1>18, CallsAssumption
       DEF SAdd, Goto, Return, LocalInv, TypeOK, TxLocal, PutLocal, Calls
  <2>4. (\A d \in PutCalls : PutLocal(d)')
    BY <1>18, CallsAssumption DEF SAdd, Goto, Return, LocalInv, TypeOK, TxLocal, PutLocal, Calls
  <2> QED
    BY <2>2, <2>3, <2>4 DEF LocalInv
<1>19. ASSUME NEW c \in Calls, UpdateStateFails(c) PROVE LocalInv'
  <2>1. inState' \in [StateSets -> SUBSET Ids]
    BY ZenonT(30), <1>19, IndexTyped DEF UpdateStateFails, LocalInv, TypeOK
  <2>2. TypeOK'
    BY Zenon, <1>19, <2>1 DEF UpdateStateFails, Disturb, Goto, Return, Results, LocalInv, TypeOK,
       Calls, args, aux
  <2>3. (\A d \in EventCalls : TxLocal(d)')
    BY Zenon, <1>19, CallsAssumption DEF UpdateStateFails, Goto, Return, LocalInv, TypeOK,
       TxLocal, PutLocal, Calls
  <2>4. (\A d \in PutCalls : PutLocal(d)')
    BY Zenon, <1>19, CallsAssumption DEF UpdateStateFails, Goto, Return, LocalInv, TypeOK,
       TxLocal, PutLocal, Calls
  <2> QED
    BY <2>2, <2>3, <2>4 DEF LocalInv
<1>20. CASE UNCHANGED vars
  BY <1>20 DEF vars, LocalInv, TypeOK, TxLocal, PutLocal, Calls, redis, args, aux
<1> QED
  BY <1>1, <1>2, <1>3, <1>4, <1>5, <1>6, <1>7, <1>8, <1>9, <1>10, <1>11, <1>12, <1>13,
     <1>14, <1>15, <1>16, <1>17, <1>18, <1>19, <1>20
     DEF Next, TxStep, PutStep, UpdateStateStep

\* TypeOK, whatever the calls, their interleaving and the failures.
THEOREM TypeCorrect == Spec => []TypeOK
<1>1. LocalInv => TypeOK
  BY DEF LocalInv
<1> QED
  BY <1>1, LocalInit, LocalStep, PTL DEF Spec

-----------------------------------------------------------------------------
(* Optimistic concurrency                                                   *)

\* What txf has computed from the machine it read.
Prepared(c) ==
  LET cfg == Config[read[c].configId] IN
  /\ read[c].configId \in DOMAIN Config
  /\ \E k \in DOMAIN cfg.transitions :
       /\ Fires(cfg, read[c].state, evt[c].event, k)
       /\ next[c] = Moved(read[c], evt[c], cfg.transitions[k])

\* The heart of the argument: as long as the watched key is not dirty, the
\* machine txf has read is the stored one, so that EXEC commits the outcome of
\* the event on the current machine; and a call that is not done has not
\* committed.
Sound(c) ==
  /\ pc[c] \in {"getFsm", "getConfig", "srem", "sadd", "exec"} => watch[c] # "off"
  /\ pc[c] \in {"getConfig", "srem", "sadd", "exec"} /\ watch[c] # "dirty" =>
       fsm[key[c]] = read[c]
  /\ pc[c] \in {"srem", "sadd", "exec"} => Prepared(c)
  /\ pc[c] # "done" => c \notin committed /\ ret[c] = "none"
  /\ ret[c] = "nil" => c \in committed
  /\ ret[c] \in {"none", "NotFound", "ConfigNotFound", "UnexpectedTransition",
                 "TooManyAttempts"} => c \notin committed

CommitInv == \A c \in EventCalls : Sound(c)

\* Initially no call has read or committed anything.
LEMMA CommitInit == Init => CommitInv
BY Zenon DEF Init, CommitInv, Sound, Calls

\* What a step of another call may do to call d: it writes the machine only by
\* making the watch of d dirty, if d relies on that machine.
Quiet(d) ==
  /\ key' = key /\ evt' = evt
  /\ pc'[d] = pc[d] /\ read'[d] = read[d] /\ next'[d] = next[d] /\ ret'[d] = ret[d]
  /\ d \in committed' <=> d \in committed
  /\ \/ pc[d] \in {"new", "watch", "done"}
     \/ watch'[d] = "dirty"
     \/ watch'[d] = watch[d] /\ fsm'[key[d]] = fsm[key[d]]

\* Prepared only depends on the local variables of the call.
LEMMA PreparedKept ==
  ASSUME NEW d \in EventCalls, evt' = evt, read'[d] = read[d], next'[d] = next[d], Prepared(d)
  PROVE  Prepared(d)'
BY Zenon DEF Prepared

\* A quiet step keeps a call sound.
LEMMA QuietSound ==
  ASSUME NEW d \in EventCalls, Sound(d), Quiet(d)
  PROVE  Sound(d)'
<1>1. Prepared(d) => Prepared(d)'
  BY Zenon, PreparedKept DEF Quiet
<1>2. (pc[d] \in {"getFsm", "getConfig", "srem", "sadd", "exec"} => watch[d] # "off")'
  BY DEF Quiet, Sound
<1>3. (pc[d] \in {"getConfig", "srem", "sadd", "exec"} /\ watch[d] # "dirty" =>
         fsm[key[d]] = read[d])'
  BY DEF Quiet, Sound
<1> QED
  BY Zenon, <1>1, <1>2, <1>3 DEF Quiet, Sound

\* SET is quiet for every other call: Redis makes its watch dirty.
LEMMA SetQuiet ==
  ASSUME LocalInv, CommitInv, NEW c \in Calls, NEW d \in EventCalls, d # c, Set(c)
  PROVE  \/ pc[d] \in {"new", "watch", "done"}
         \/ watch'[d] = "dirty"
         \/ watch'[d] = watch[d] /\ fsm'[key[d]] = fsm[key[d]]
<1> SUFFICES ASSUME pc[d] \notin {"new", "watch", "done"}
             PROVE  watch'[d] = "dirty" \/ (watch'[d] = watch[d] /\ fsm'[key[d]] = fsm[key[d]])
  OBVIOUS
<1>1. pc[d] \in {"getFsm", "getConfig", "srem", "sadd", "exec"}
  BY CallsAssumption DEF LocalInv, TxLocal, TypeOK, Calls
<1>2. watch[d] \in {"clean", "dirty"}
  BY <1>1 DEF CommitInv, Sound, LocalInv, TypeOK
<1>3. watch'[d] = IF Rival(d, c) /\ watch[d] = "clean" THEN "dirty" ELSE watch[d]
  BY DEF Set
<1>4. CASE key[d] = key[c]
  BY <1>2, <1>3, <1>4 DEF Rival, InFlight
<1>5. CASE key[d] # key[c]
  <2>1. watch'[d] = watch[d]
    BY <1>3, <1>5 DEF Rival
  <2>2. fsm'[key[d]] = fsm[key[d]]
    BY <1>5 DEF Set, LocalInv, TypeOK, Calls
  <2> QED
    BY <2>1, <2>2
<1> QED
  BY <1>4, <1>5

\* Every step is quiet for the calls that do not take it.
LEMMA OthersQuiet ==
  ASSUME LocalInv, CommitInv, NEW c \in Calls, NEW d \in EventCalls, d # c,
         \/ c \in EventCalls /\ TxStep(c)
         \/ c \in PutCalls /\ PutStep(c)
         \/ Start(c) \/ UpdateStateStep(c)
  PROVE  Quiet(d)
<1>0. /\ d \in Calls
      /\ pc = [x \in Calls |-> pc[x]] /\ ret = [x \in Calls |-> ret[x]]
      /\ next = [x \in Calls |-> next[x]]
      /\ read = [x \in EventCalls |-> read[x]] /\ watch = [x \in EventCalls |-> watch[x]]
  BY DEF LocalInv, TypeOK, Calls
<1> USE <1>0 DEF Goto, Return, redis, args, aux, Quiet
<1>1. CASE Start(c)
  BY <1>1 DEF Start
<1>2. CASE Watch(c)
  BY <1>2 DEF Watch
<1>3. CASE WatchFails(c)
  BY <1>3 DEF WatchFails
<1>4. CASE GetStateMachine(c)
  BY <1>4 DEF GetStateMachine
<1>5. CASE GetStateMachineFails(c)
  BY Zenon, <1>5 DEF GetStateMachineFails
<1>6. CASE SendEvent(c)
  BY <1>6 DEF SendEvent
<1>7. CASE SendEventRejected(c)
  BY <1>7 DEF SendEventRejected
<1>8. CASE GetConfigFails(c)
  BY <1>8 DEF GetConfigFails
<1>9. CASE Exec(c)
  <2>1. CASE Set(c)
    <3>1. \/ pc[d] \in {"new", "watch", "done"}
          \/ watch'[d] = "dirty"
          \/ watch'[d] = watch[d] /\ fsm'[key[d]] = fsm[key[d]]
      BY <2>1, SetQuiet
    <3> QED
      BY <1>9, <3>1 DEF Exec, Commit
  <2>2. CASE ~Set(c)
    BY <1>9, <2>2 DEF Exec, Commit
  <2> QED
    BY <2>1, <2>2
<1>10. CASE ExecAborted(c)
  BY <1>10 DEF ExecAborted
<1>11. CASE ExecFails(c)
  <2>1. CASE Set(c)
    <3>1. \/ pc[d] \in {"new", "watch", "done"}
          \/ watch'[d] = "dirty"
          \/ watch'[d] = watch[d] /\ fsm'[key[d]] = fsm[key[d]]
      BY <2>1, SetQuiet
    <3> QED
      BY <1>11, <3>1 DEF ExecFails, Commit
  <2>2. CASE ~Set(c)
    BY <1>11, <2>2 DEF ExecFails, Commit
  <2> QED
    BY <2>1, <2>2
<1>12. CASE PutGetConfig(c)
  BY <1>12 DEF PutGetConfig
<1>13. CASE PutRefused(c)
  BY Zenon, <1>13 DEF PutRefused
<1>14. CASE PutStateMachine(c)
  <2>1. CASE Set(c)
    <3>1. \/ pc[d] \in {"new", "watch", "done"}
          \/ watch'[d] = "dirty"
          \/ watch'[d] = watch[d] /\ fsm'[key[d]] = fsm[key[d]]
      BY <2>1, SetQuiet
    <3> QED
      BY <1>14, <3>1 DEF PutStateMachine
  <2>2. CASE ~Set(c)
    BY Zenon, <1>14, <2>2 DEF PutStateMachine
  <2> QED
    BY <2>1, <2>2
<1>15. CASE PutTimesOut(c)
  <2>1. CASE Set(c)
    <3>1. \/ pc[d] \in {"new", "watch", "done"}
          \/ watch'[d] = "dirty"
          \/ watch'[d] = watch[d] /\ fsm'[key[d]] = fsm[key[d]]
      BY <2>1, SetQuiet
    <3> QED
      BY <1>15, <3>1 DEF PutTimesOut, SetUnknown
  <2>2. CASE ~Set(c)
    BY <1>15, <2>2 DEF PutTimesOut, SetUnknown
  <2> QED
    BY <2>1, <2>2
<1>16. CASE PutFails(c)
  <2>1. CASE Set(c)
    <3>1. \/ pc[d] \in {"new", "watch", "done"}
          \/ watch'[d] = "dirty"
          \/ watch'[d] = watch[d] /\ fsm'[key[d]] = fsm[key[d]]
      BY <2>1, SetQuiet
    <3> QED
      BY <1>16, <3>1 DEF PutFails, SetUnknown
  <2>2. CASE ~Set(c)
    BY <1>16, <2>2 DEF PutFails, SetUnknown
  <2> QED
    BY <2>1, <2>2
<1>17. CASE SRem(c)
  BY <1>17 DEF SRem
<1>18. CASE SAdd(c)
  BY <1>18 DEF SAdd
<1>19. CASE UpdateStateFails(c)
  BY <1>19 DEF UpdateStateFails
<1> QED
  BY Zenon, <1>1, <1>2, <1>3, <1>4, <1>5, <1>6, <1>7, <1>8, <1>9, <1>10, <1>11, <1>12, <1>13,
     <1>14, <1>15, <1>16, <1>17, <1>18, <1>19
     DEF TxStep, PutStep, UpdateStateStep

\* Every step of a call keeps that call sound.
LEMMA OwnSound ==
  ASSUME LocalInv, CommitInv, NEW c \in EventCalls,
         TxStep(c) \/ Start(c) \/ UpdateStateStep(c)
  PROVE  Sound(c)'
<1>0. /\ c \in Calls /\ c \notin PutCalls /\ Sound(c)
      /\ pc = [x \in Calls |-> pc[x]] /\ ret = [x \in Calls |-> ret[x]]
      /\ next = [x \in Calls |-> next[x]]
      /\ read = [x \in EventCalls |-> read[x]] /\ watch = [x \in EventCalls |-> watch[x]]
      /\ watch[c] \in {"off", "clean", "dirty"}
  BY CallsAssumption DEF LocalInv, TypeOK, Calls, CommitInv
<1>p. evt' = evt /\ read'[c] = read[c] /\ next'[c] = next[c] /\ Prepared(c) => Prepared(c)'
  BY PreparedKept
<1> USE <1>0 DEF Goto, Return, redis, args, aux
<1>1. CASE Start(c)
  BY <1>1 DEF Start, Sound
<1>2. CASE Watch(c)
  BY <1>2 DEF Watch, Sound
<1>3. CASE WatchFails(c)
  BY <1>3 DEF WatchFails, Sound
<1>4. CASE GetStateMachine(c)
  BY <1>4 DEF GetStateMachine, Sound
<1>5. CASE GetStateMachineFails(c)
  BY <1>5 DEF GetStateMachineFails, Sound
<1>6. CASE SendEvent(c)
  <2>1. Prepared(c)'
    BY <1>6 DEF SendEvent, Prepared
  <2> QED
    BY <1>6, <2>1 DEF SendEvent, Sound
<1>7. CASE SendEventRejected(c)
  BY <1>7 DEF SendEventRejected, Sound
<1>8. CASE GetConfigFails(c)
  BY <1>8 DEF GetConfigFails, Sound
<1>9. CASE Exec(c)
  BY <1>9 DEF Exec, Commit, Sound
<1>10. CASE ExecAborted(c)
  BY <1>10 DEF ExecAborted, Sound
<1>11. CASE ExecFails(c)
  BY Zenon, <1>11 DEF ExecFails, Commit, Sound
<1>12. CASE SRem(c)
  BY <1>12, <1>p DEF SRem, Sound
<1>13. CASE SAdd(c)
  BY <1>13, <1>p DEF SAdd, Sound
<1>14. CASE UpdateStateFails(c)
  BY <1>14 DEF UpdateStateFails, Sound
<1> QED
  BY Zenon, <1>1, <1>2, <1>3, <1>4, <1>5, <1>6, <1>7, <1>8, <1>9, <1>10, <1>11, <1>12, <1>13,
     <1>14
     DEF TxStep, UpdateStateStep

\* Every step of a call keeps what the calls have read current or dirty.
LEMMA CommitStep == LocalInv /\ CommitInv /\ [Next]_vars => CommitInv'
<1> SUFFICES ASSUME LocalInv, CommitInv, [Next]_vars, NEW d \in EventCalls PROVE Sound(d)'
  BY DEF CommitInv
<1>1. Sound(d) /\ d \in Calls /\ d \notin PutCalls
  BY CallsAssumption DEF CommitInv, Calls
<1>2. ASSUME NEW c \in Calls,
             \/ c \in EventCalls /\ TxStep(c)
             \/ c \in PutCalls /\ PutStep(c)
             \/ Start(c) \/ UpdateStateStep(c)
      PROVE  Sound(d)'
  <2>1. CASE c = d
    BY <1>1, <1>2, <2>1, OwnSound
  <2>2. CASE c # d
    <3>1. Quiet(d)
      BY <1>2, <2>2, OthersQuiet
    <3> QED
      BY <1>1, <3>1, QuietSound
  <2> QED
    BY <2>1, <2>2
<1>3. CASE UNCHANGED vars
  <2>1. Quiet(d)
    BY <1>3 DEF Quiet, vars, redis, args, aux
  <2> QED
    BY Zenon, <1>1, <2>1, QuietSound
<1> QED
  BY <1>2, <1>3 DEF Next, Calls

\* ResultIsTrue: nil exactly reports a commit, and the errors that TxProcessEvent
\* decides on itself exactly report that there was none.
THEOREM ResultTrue == Spec => []ResultIsTrue
<1>1. CommitInv => ResultIsTrue
  BY DEF CommitInv, Sound, ResultIsTrue
<1> QED
  BY <1>1, LocalInit, LocalStep, CommitInit, CommitStep, PTL DEF Spec

\* EXEC of an event whose key is not dirty is the atomic step of the event.
LEMMA CommitIsApply ==
  ASSUME LocalInv, CommitInv, NEW c \in EventCalls, pc[c] = "exec", Commit(c),
         UNCHANGED args
  PROVE  Atomic!Apply(c)
<1>1. /\ fsm[key[c]] = read[c]
      /\ read[c] # NoFsm
      /\ c \notin committed
      /\ Prepared(c)
  BY Zenon, NoFsmAssumption DEF CommitInv, Sound, Commit, LocalInv, TxLocal
<1>2. fsm' = [fsm EXCEPT ![key[c]] = next[c]] /\ committed' = committed \cup {c}
  BY Zenon DEF Commit, Set
<1> DEFINE cfg == Config[read[c].configId]
<1>3. PICK k \in DOMAIN cfg.transitions :
        /\ Fires(cfg, read[c].state, evt[c].event, k)
        /\ next[c] = Moved(read[c], evt[c], cfg.transitions[k])
  BY <1>1 DEF Prepared
<1>4. Atomic!Fires(cfg, read[c].state, evt[c].event, k)
  BY Zenon, <1>3 DEF Fires, Atomic!Fires, Matches, Atomic!Matches
<1>5. next[c] = Atomic!Moved(read[c], evt[c], cfg.transitions[k])
  BY <1>3 DEF Moved, Atomic!Moved
<1>6. cfg = Config[fsm[key[c]].configId] /\ fsm[key[c]].configId \in DOMAIN Config
  BY <1>1 DEF Prepared
<1> HIDE DEF cfg
<1> QED
  BY Zenon, <1>1, <1>2, <1>3, <1>4, <1>5, <1>6 DEF Atomic!Apply, args

\* SET of a put is the atomic step of the put.
LEMMA SetIsPut ==
  ASSUME LocalInv, NEW c \in PutCalls, pc[c] = "put", Set(c), UNCHANGED <<args, committed>>
  PROVE  Atomic!Put(c)
<1>1. PICK f \in PutRequests : f.configId \in DOMAIN Config /\ next[c] = StateOrDefault(f)
  BY DEF LocalInv, PutLocal
<1>2. fsm' = [fsm EXCEPT ![key[c]] = next[c]]
  BY DEF Set
<1>3. StateOrDefault(f) = Atomic!StateOrDefault(f)
  BY DEF StateOrDefault, Atomic!StateOrDefault, Unset, Atomic!Unset
<1> QED
  BY Zenon, <1>1, <1>2, <1>3 DEF Atomic!Put, args

\* EventsAreAtomic: TxProcessEvent and PutFiniteStateMachine, with any number of
\* concurrent calls and any failures of Redis, implement the atomic store.
THEOREM Atomicity == Spec => EventsAreAtomic
<1>1. Init => Atomic!Init
  BY DEF Init, Atomic!Init, Calls, Atomic!Calls
<1>2. LocalInv /\ CommitInv /\ [Next]_vars => [Atomic!Next]_(Atomic!vars)
  <2> SUFFICES ASSUME LocalInv, CommitInv, [Next]_vars,
                      ~ UNCHANGED <<fsm, committed, key, evt>>
               PROVE  Atomic!Next
    BY DEF Atomic!vars
  <2>1. ASSUME NEW c \in EventCalls, TxStep(c) PROVE Atomic!Next
    <3>1. pc[c] = "exec" /\ Commit(c) /\ UNCHANGED args
      BY Zenon, <2>1
         DEF TxStep, Watch, WatchFails, GetStateMachine, GetStateMachineFails, SendEvent,
         SendEventRejected, GetConfigFails, Exec, ExecAborted, ExecFails, redis, args, aux
    <3>2. Atomic!Apply(c)
      BY <3>1, CommitIsApply
    <3> QED
      BY <3>2 DEF Atomic!Next
  <2>2. ASSUME NEW c \in PutCalls, PutStep(c) PROVE Atomic!Next
    <3>1. pc[c] = "put" /\ Set(c) /\ UNCHANGED <<args, committed>>
      BY <2>2 DEF PutStep, PutGetConfig, PutRefused, PutStateMachine, PutTimesOut, PutFails,
         SetUnknown, redis, args, aux
    <3>2. Atomic!Put(c)
      BY Zenon, <3>1, SetIsPut
    <3> QED
      BY Zenon, <3>2 DEF Atomic!Next
  <2>3. ASSUME NEW c \in Calls, Start(c) \/ UpdateStateStep(c) PROVE FALSE
    BY <2>3 DEF Start, UpdateStateStep, SRem, SAdd, UpdateStateFails, redis, args, aux
  <2>4. CASE UNCHANGED vars
    BY Zenon, <2>4 DEF vars, redis, args, aux
  <2> QED
    BY <2>1, <2>2, <2>3, <2>4 DEF Next
<1> QED
  BY <1>1, <1>2, LocalInit, LocalStep, CommitInit, CommitStep, PTL
     DEF Spec, EventsAreAtomic, Atomic!Spec

-----------------------------------------------------------------------------
(* Retries                                                                  *)

\* A dirty key was written by another call during the current attempt, which
\* no earlier failed attempt accounts for.
Paid(c) ==
  /\ tries[c] <= foreign[c]
  /\ InFlight(c) /\ pc[c] # "watch" /\ watch[c] = "dirty" => tries[c] < foreign[c]
  /\ ~InFlight(c) \/ pc[c] = "watch" \/ watch[c] # "off"

PaidInv == \A c \in EventCalls : Paid(c)

\* Every step keeps the failed attempts of a call paid for.
LEMMA PaidStep == LocalInv /\ PaidInv /\ [Next]_vars => PaidInv'
<1> SUFFICES ASSUME LocalInv, PaidInv, [Next]_vars PROVE PaidInv'
  OBVIOUS
<1> USE CallsAssumption
<1>1. ASSUME NEW c \in Calls, Start(c) PROVE PaidInv'
  BY Zenon, <1>1 DEF Start, Goto, Return, InFlight, PaidInv, Paid, LocalInv, TypeOK, Calls,
     redis, args, aux
<1>2. ASSUME NEW c \in EventCalls, Watch(c) PROVE PaidInv'
  BY Zenon, <1>2 DEF Watch, Goto, Return, InFlight, PaidInv, Paid, LocalInv, TypeOK, Calls,
     redis, args, aux
<1>3. ASSUME NEW c \in EventCalls, WatchFails(c) PROVE PaidInv'
  BY Zenon, <1>3 DEF WatchFails, Goto, Return, InFlight, PaidInv, Paid, LocalInv, TypeOK, Calls,
     redis, args, aux
<1>4. ASSUME NEW c \in EventCalls, GetStateMachine(c) PROVE PaidInv'
  BY Zenon, <1>4
     DEF GetStateMachine, Goto, Return, InFlight, PaidInv, Paid, LocalInv, TypeOK, Calls,
     redis, args, aux
<1>5. ASSUME NEW c \in EventCalls, GetStateMachineFails(c) PROVE PaidInv'
  BY Zenon, <1>5 DEF GetStateMachineFails, Goto, Return, InFlight, PaidInv, Paid, LocalInv, TypeOK,
     Calls,
     redis, args, aux
<1>6. ASSUME NEW c \in EventCalls, SendEvent(c) PROVE PaidInv'
  BY Zenon, <1>6 DEF SendEvent, Goto, Return, InFlight, PaidInv, Paid, LocalInv, TypeOK, Calls,
     redis, args, aux
<1>7. ASSUME NEW c \in EventCalls, SendEventRejected(c) PROVE PaidInv'
  BY Zenon, <1>7
     DEF SendEventRejected, Goto, Return, InFlight, PaidInv, Paid, LocalInv, TypeOK, Calls,
     redis, args, aux
<1>8. ASSUME NEW c \in EventCalls, GetConfigFails(c) PROVE PaidInv'
  BY Zenon, <1>8 DEF GetConfigFails, Goto, Return, InFlight, PaidInv, Paid, LocalInv, TypeOK, Calls,
     redis, args, aux
<1>9. ASSUME NEW c \in EventCalls, Exec(c) PROVE PaidInv'
  BY <1>9, SMTT(20) DEF Exec, Commit, Set, Rival, Goto, Return, InFlight, PaidInv, Paid, LocalInv,
     TypeOK, Calls,
     redis, args, aux
<1>10. ASSUME NEW c \in EventCalls, ExecAborted(c) PROVE PaidInv'
  BY <1>10, SMTT(20) DEF ExecAborted, Goto, Return, InFlight, PaidInv, Paid, LocalInv, TypeOK,
     Calls,
     redis, args, aux
<1>11. ASSUME NEW c \in EventCalls, ExecFails(c) PROVE PaidInv'
  BY <1>11, SMTT(20) DEF ExecFails, Commit, Set, Rival, Goto, Return, InFlight, PaidInv, Paid,
     LocalInv, TypeOK, Calls,
     redis, args, aux
<1>12. ASSUME NEW c \in PutCalls, PutGetConfig(c) PROVE PaidInv'
  BY Zenon, <1>12 DEF PutGetConfig, Goto, Return, InFlight, PaidInv, Paid, LocalInv, TypeOK, Calls,
     redis, args, aux
<1>13. ASSUME NEW c \in PutCalls, PutRefused(c) PROVE PaidInv'
  BY Zenon, <1>13 DEF PutRefused, Goto, Return, InFlight, PaidInv, Paid, LocalInv, TypeOK, Calls,
     redis, args, aux
<1>14. ASSUME NEW c \in PutCalls, PutStateMachine(c) PROVE PaidInv'
  BY <1>14, SMTT(20) DEF PutStateMachine, Set, Rival, Goto, Return, InFlight, PaidInv, Paid,
     LocalInv,
     TypeOK, Calls,
     redis, args, aux
<1>15. ASSUME NEW c \in PutCalls, PutTimesOut(c) PROVE PaidInv'
  BY <1>15, SMTT(20) DEF PutTimesOut, SetUnknown, Set, Rival, Goto, Return, InFlight, PaidInv,
     Paid,
     LocalInv, TypeOK, Calls,
     redis, args, aux
<1>16. ASSUME NEW c \in PutCalls, PutFails(c) PROVE PaidInv'
  BY <1>16, SMTT(20) DEF PutFails, SetUnknown, Set, Rival, Goto, Return, InFlight, PaidInv, Paid,
     LocalInv, TypeOK, Calls,
     redis, args, aux
<1>17. ASSUME NEW c \in Calls, SRem(c) PROVE PaidInv'
  BY Zenon, <1>17 DEF SRem, Goto, Return, InFlight, PaidInv, Paid, LocalInv, TypeOK, Calls,
     redis, args, aux
<1>18. ASSUME NEW c \in Calls, SAdd(c) PROVE PaidInv'
  BY <1>18 DEF SAdd, Goto, Return, InFlight, PaidInv, Paid, LocalInv, TypeOK, Calls,
     redis, args, aux
<1>19. ASSUME NEW c \in Calls, UpdateStateFails(c) PROVE PaidInv'
  BY ZenonT(30), <1>19
     DEF UpdateStateFails, Goto, Return, InFlight, PaidInv, Paid, LocalInv, TypeOK, Calls,
         redis, args, aux
<1>20. CASE UNCHANGED vars
  BY <1>20 DEF vars, PaidInv, Paid, InFlight, redis, args, aux
<1> QED
  BY Zenon, <1>1, <1>2, <1>3, <1>4, <1>5, <1>6, <1>7, <1>8, <1>9, <1>10, <1>11, <1>12, <1>13,
     <1>14, <1>15, <1>16, <1>17, <1>18, <1>19, <1>20
     DEF Next, TxStep, PutStep, UpdateStateStep

\* RetriesArePaidFor, for every number of attempts and calls: TxProcessEvent
\* only gives up after as many writes by others as it made attempts.
THEOREM RetriesPaidFor == Spec => []RetriesArePaidFor
<1>1. Init => PaidInv
  BY DEF Init, PaidInv, Paid, InFlight, Calls
<1>2. PaidInv => RetriesArePaidFor
  BY DEF PaidInv, Paid, RetriesArePaidFor
<1> QED
  BY <1>1, <1>2, LocalInit, LocalStep, PaidStep, PTL DEF Spec

-----------------------------------------------------------------------------
(* Every call is bounded                                                    *)

\* The attempts that a call is allowed, and how far each label is from the end of
\* an attempt.
Attempts(c) == IF c \in EventCalls THEN DefaultMaxRetries ELSE MaxRetries

Ahead(l) ==
  CASE l = "new" -> 8 [] l = "watch" -> 7 [] l = "getFsm" -> 6 [] l = "getConfig" -> 5
    [] l = "put" -> 4 [] l = "srem" -> 3 [] l = "sadd" -> 2 [] l = "exec" -> 1 [] OTHER -> 0

\* A bound on the steps that a call has still to make.
StepsLeft(c) == 8 * (Attempts(c) - tries[c]) + Ahead(pc[c])

\* A step of call c: it goes forward, or has used up an attempt.
Advances(c) ==
  \/ /\ tries' = tries
     /\ \E l \in {"watch", "getFsm", "getConfig", "put", "srem", "sadd", "exec", "done"} :
          pc' = [pc EXCEPT ![c] = l] /\ Ahead(l) < Ahead(pc[c])
  \/ /\ tries' = [tries EXCEPT ![c] = @ + 1]
     /\ \E l \in {"watch", "put", "done"} : pc' = [pc EXCEPT ![c] = l]

\* Every step is a step forward of some call.
LEMMA StepAdvances ==
  ASSUME LocalInv, Next
  PROVE  \E c \in Calls : Advances(c)
<1>1. ASSUME NEW c \in Calls, Start(c) PROVE Advances(c)
  <2>1. PICK l \in {"watch", "getConfig"} : pc' = [pc EXCEPT ![c] = l]
    BY <1>1, Zenon DEF Start, Goto
  <2>2. tries' = tries /\ pc[c] = "new"
    BY <1>1 DEF Start
  <2>3. Ahead(l) < Ahead(pc[c])
    BY <2>2 DEF Ahead
  <2> QED BY Zenon, <2>1, <2>2, <2>3 DEF Advances
<1>2. ASSUME NEW c \in EventCalls, Watch(c) \/ GetStateMachine(c) \/ SendEvent(c)
      PROVE  Advances(c)
  BY <1>2 DEF Watch, GetStateMachine, SendEvent, Goto, Advances, Ahead
<1>3. ASSUME NEW c \in EventCalls,
             \/ WatchFails(c) \/ GetStateMachineFails(c) \/ SendEventRejected(c)
             \/ GetConfigFails(c) \/ Exec(c) \/ ExecFails(c)
      PROVE  Advances(c)
  BY <1>3 DEF WatchFails, GetStateMachineFails, SendEventRejected, GetConfigFails, Exec,
              ExecFails, Return, Goto, Advances, Ahead
<1>4. ASSUME NEW c \in EventCalls, ExecAborted(c) PROVE Advances(c)
  BY <1>4 DEF ExecAborted, Return, Goto, Advances
<1>5. ASSUME NEW c \in PutCalls, PutGetConfig(c) \/ PutRefused(c) \/ PutFails(c)
      PROVE  Advances(c)
  BY <1>5 DEF PutGetConfig, PutRefused, PutFails, Return, Goto, Advances, Ahead
<1>6. ASSUME NEW c \in PutCalls, PutStateMachine(c) PROVE Advances(c)
  BY <1>6 DEF PutStateMachine, Goto, Advances, Ahead
<1>7. ASSUME NEW c \in PutCalls, PutTimesOut(c) PROVE Advances(c)
  <2>1. pc = [pc EXCEPT ![c] = "put"]
    BY <1>7 DEF PutTimesOut, LocalInv, TypeOK, Calls
  <2>2. pc' \in {pc, [pc EXCEPT ![c] = "done"]} /\ tries' = [tries EXCEPT ![c] = @ + 1]
    BY <1>7 DEF PutTimesOut, Return, Goto
  <2> QED BY Zenon, <2>1, <2>2 DEF Advances
<1>8. ASSUME NEW c \in Calls, SRem(c) \/ SAdd(c) PROVE Advances(c)
  BY <1>8 DEF SRem, SAdd, Return, Goto, Advances, Ahead
<1>9. ASSUME NEW c \in Calls, UpdateStateFails(c) PROVE Advances(c)
  BY <1>9 DEF UpdateStateFails, Return, Goto, Advances, Ahead
<1> QED
  BY <1>1, <1>2, <1>3, <1>4, <1>5, <1>6, <1>7, <1>8, <1>9
     DEF Next, TxStep, PutStep, UpdateStateStep, Calls

\* A call has never more steps to make than its attempts allow.
LEMMA StepsBounded ==
  ASSUME LocalInv, NEW c \in Calls
  PROVE  /\ StepsLeft(c) \in 0 .. 8 * Attempts(c) + 8
         /\ tries[c] \in Nat /\ Attempts(c) \in Nat /\ Ahead(pc[c]) \in 0 .. 8
<1>1. tries[c] \in Nat /\ Attempts(c) \in Nat /\ tries[c] <= Attempts(c)
  BY RetriesAssumption DEF LocalInv, TypeOK, Attempts, Calls
<1>2. Ahead(pc[c]) \in 0 .. 8
  BY DEF Ahead
<1> QED BY <1>1, <1>2 DEF StepsLeft

\* Every step brings one call nearer to its end, and no other further from it.
\* So a call of TxProcessEvent or PutFiniteStateMachine returns after at most
\* 8 * Attempts + 8 steps of its own, however many others there are, whatever they
\* do to the machine, and whatever fails: the retry loops cannot go on for ever.
THEOREM CallsAreBounded ==
  Spec => /\ [](\A c \in Calls : StepsLeft(c) \in 0 .. 8 * Attempts(c) + 8)
          /\ [][\E c \in Calls :
                  /\ StepsLeft(c)' < StepsLeft(c)
                  /\ \A d \in Calls \ {c} : StepsLeft(d)' = StepsLeft(d)]_vars
<1>1. LocalInv => \A c \in Calls : StepsLeft(c) \in 0 .. 8 * Attempts(c) + 8
  BY Zenon, StepsBounded
<1>2. ASSUME LocalInv, Next
      PROVE  \E c \in Calls :
                  /\ StepsLeft(c)' < StepsLeft(c)
                  /\ \A d \in Calls \ {c} : StepsLeft(d)' = StepsLeft(d)
  <2>1. PICK c \in Calls : Advances(c)
    BY <1>2, StepAdvances
  <2>2. DOMAIN pc = Calls /\ pc = [d \in Calls |-> pc[d]] /\ tries \in [Calls -> Nat]
    BY <1>2 DEF LocalInv, TypeOK
  <2>3. \A d \in Calls \ {c} : StepsLeft(d)' = StepsLeft(d)
    BY <2>1, <2>2 DEF Advances, StepsLeft, Attempts
  <2>4. tries[c] \in Nat /\ Attempts(c) \in Nat /\ Ahead(pc[c]) \in 0 .. 8
    BY <1>2, StepsBounded
  <2>5. StepsLeft(c)' = 8 * (Attempts(c) - tries'[c]) + Ahead(pc'[c])
    BY DEF StepsLeft, Attempts
  <2>6. ASSUME NEW a \in Nat, NEW t \in Nat, NEW h \in 0 .. 8, NEW k \in 0 .. 8,
               NEW u \in Nat, (u = t /\ k < h) \/ (u = t + 1 /\ k < 8)
        PROVE  8 * (a - u) + k < 8 * (a - t) + h
    BY <2>6
  <2>7. \/ tries' = tries /\ Ahead(pc'[c]) < Ahead(pc[c]) /\ Ahead(pc'[c]) \in 0 .. 8
        \/ tries'[c] = tries[c] + 1 /\ Ahead(pc'[c]) \in 0 .. 7
    BY <2>1, <2>2 DEF Advances, Ahead
  <2>8. tries'[c] \in Nat
    BY <2>4, <2>7
  <2> QED BY <2>3, <2>4, <2>5, <2>6, <2>7, <2>8 DEF StepsLeft
<1> QED BY <1>1, <1>2, LocalInit, LocalStep, PTL DEF Spec
=============================================================================
