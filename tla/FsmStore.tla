------------------------------ MODULE FsmStore ------------------------------
(***************************************************************************)
(* The state machines in Redis and the calls that write them, one step per *)
(* Redis command: RedisStore.TxProcessEvent with its WATCH / MULTI / EXEC  *)
(* retry loop, RedisStore.UpdateState, and the gRPC PutFiniteStateMachine. *)
(*                                                                         *)
(* UpdateState is called from inside the TxPipelined callback but sends    *)
(* its SREM and SADD through csm.client, not through the pipeline: they    *)
(* take effect at once, before EXEC and whatever EXEC returns.             *)
(***************************************************************************)
EXTENDS StoreCalls

CONSTANTS DefaultMaxRetries, \* attempts of TxProcessEvent
          MaxRetries,        \* attempts of RedisStore.put
          Faults             \* the kinds of failure that may happen, a subset of
                             \* {"read", "write", "index", "deadline"}

ASSUME RetriesAssumption ==
  DefaultMaxRetries \in Nat \ {0} /\ MaxRetries \in Nat \ {0}

VARIABLES
  fsm,     \* Redis: the machine stored at fsm:<config>#<id>
  inState, \* Redis: the SETs fsm:<config>:state#<state>
  watch,   \* Redis: per call, whether the key it WATCHes was written since
  key, evt,\* arguments of the calls
  pc,      \* where a call is
  tries,   \* failed attempts of a call so far
  read,    \* the machine txf read
  next,    \* the machine a call is to store
  ret,     \* what a call returned
  \* Auxiliary variables, which no step reads:
  committed, \* event calls whose EXEC was executed
  foreign,   \* per event call, the writes to its key by others while it runs
  disturbed  \* machines on which calls overlapped, failed or replaced a machine

redis == <<fsm, inState, watch>>
aux == <<committed, foreign, disturbed>>
args == <<key, evt>>
vars == <<redis, args, pc, tries, read, next, ret, aux>>

StateSets == States \ {Unset}

Results == {"none", "nil", "NotFound", "ConfigNotFound", "UnexpectedTransition",
            "TooManyAttempts", "RedisError", "OK", "FailedPrecondition",
            "DeadlineExceeded", "Internal"}

TypeOK ==
  /\ fsm \in [Ids -> FiniteStateMachine \cup {NoFsm}]
  /\ inState \in [StateSets -> SUBSET Ids]
  /\ watch \in [EventCalls -> {"off", "clean", "dirty"}]
  /\ key \in [Calls -> Ids]
  /\ evt \in [EventCalls -> Events]
  /\ pc \in [Calls -> {"new", "watch", "getFsm", "getConfig", "put", "srem", "sadd",
                       "exec", "done"}]
  /\ tries \in [Calls -> Nat]
  /\ \A c \in EventCalls : tries[c] <= DefaultMaxRetries
  /\ \A c \in PutCalls : tries[c] <= MaxRetries
  /\ read \in [EventCalls -> FiniteStateMachine \cup {NoFsm}]
  /\ next \in [Calls -> FiniteStateMachine \cup {NoFsm}]
  /\ ret \in [Calls -> Results]
  /\ committed \subseteq EventCalls
  /\ foreign \in [EventCalls -> Nat]
  /\ disturbed \subseteq Ids

Init ==
  /\ fsm = [i \in Ids |-> NoFsm]
  /\ inState = [s \in StateSets |-> {}]
  /\ watch = [c \in EventCalls |-> "off"]
  /\ key \in [Calls -> Ids]
  /\ evt \in [EventCalls -> Events]
  /\ pc = [c \in Calls |-> "new"]
  /\ tries = [c \in Calls |-> 0]
  /\ read = [c \in EventCalls |-> NoFsm]
  /\ \E req \in [PutCalls -> PutRequests] :
       next = [c \in Calls |-> IF c \in PutCalls THEN req[c] ELSE NoFsm]
  /\ ret = [c \in Calls |-> "none"]
  /\ committed = {}
  /\ foreign = [c \in EventCalls |-> 0]
  /\ disturbed = {}

-----------------------------------------------------------------------------
InFlight(c) == pc[c] \notin {"new", "done"}

Busy(i) == \E c \in Calls : InFlight(c) /\ key[c] = i

Goto(c, l) == pc' = [pc EXCEPT ![c] = l]

Return(c, r) == Goto(c, "done") /\ ret' = [ret EXCEPT ![c] = r]

Disturb(c) == disturbed' = disturbed \cup {key[c]}

Rival(d, c) == d # c /\ key[d] = key[c] /\ InFlight(d)

\* SET of the machine of call c.  Redis fails the EXEC of every other client
\* that watches the key; a call that returned has closed its Tx.
Set(c) ==
  /\ fsm' = [fsm EXCEPT ![key[c]] = next[c]]
  /\ watch' = [d \in EventCalls |->
                 IF Rival(d, c) /\ watch[d] = "clean" THEN "dirty" ELSE watch[d]]
  /\ foreign' = [d \in EventCalls |-> IF Rival(d, c) THEN foreign[d] + 1 ELSE foreign[d]]

Start(c) ==
  /\ pc[c] = "new"
  /\ Goto(c, IF c \in EventCalls THEN "watch" ELSE "getConfig")
  /\ disturbed' = IF Busy(key[c]) THEN disturbed \cup {key[c]} ELSE disturbed
  /\ UNCHANGED <<redis, args, tries, read, next, ret, committed, foreign>>

-----------------------------------------------------------------------------
(* TxProcessEvent                                                           *)

\* Mutant: Watch is called without the key.
WatchNothing(c) ==
  /\ pc[c] = "watch"
  /\ Goto(c, "getFsm")
  /\ UNCHANGED <<redis, args, tries, read, next, ret, aux>>

\* Mutant: the retry loop is inside the transaction, which stays dirty.
WatchOnce(c) ==
  /\ pc[c] = "watch"
  /\ watch' = [watch EXCEPT ![c] = IF @ = "dirty" THEN "dirty" ELSE "clean"]
  /\ Goto(c, "getFsm")
  /\ UNCHANGED <<fsm, inState, args, tries, read, next, ret, aux>>

\* csm.client.Watch: the WATCH command that precedes txf.
Watch(c) ==
  /\ pc[c] = "watch"
  /\ watch' = [watch EXCEPT ![c] = "clean"]
  /\ Goto(c, "getFsm")
  /\ UNCHANGED <<fsm, inState, args, tries, read, next, ret, aux>>

\* ctx, which spans all the attempts, has expired.
WatchFails(c) ==
  /\ pc[c] = "watch"
  /\ "deadline" \in Faults
  /\ Return(c, "RedisError")
  /\ UNCHANGED <<redis, args, tries, read, next, aux>>

GetStateMachine(c) ==
  /\ pc[c] = "getFsm"
  /\ fsm[key[c]] # NoFsm
  /\ read' = [read EXCEPT ![c] = fsm[key[c]]]
  /\ Goto(c, "getConfig")
  /\ UNCHANGED <<redis, args, tries, next, ret, aux>>

\* Any error of the read, a timeout included, is returned as NotFoundError.
GetStateMachineFails(c) ==
  /\ pc[c] = "getFsm"
  /\ fsm[key[c]] = NoFsm \/ "read" \in Faults
  /\ Return(c, "NotFound")
  /\ UNCHANGED <<redis, args, tries, read, next, aux>>

\* GetConfig, then ConfiguredStateMachine.SendEvent on the machine read.
SendEvent(c) ==
  /\ pc[c] = "getConfig"
  /\ read[c].configId \in DOMAIN Config
  /\ LET cfg == Config[read[c].configId] IN
     \E k \in DOMAIN cfg.transitions :
       /\ Fires(cfg, read[c].state, evt[c].event, k)
       /\ next' = [next EXCEPT ![c] = Moved(read[c], evt[c], cfg.transitions[k])]
  /\ Goto(c, "srem")
  /\ UNCHANGED <<redis, args, tries, read, ret, aux>>

\* Mutant: every error is retried, and only an aborted EXEC is counted.
SendEventRejectedRetried(c) ==
  /\ pc[c] = "getConfig"
  /\ read[c].configId \in DOMAIN Config
  /\ Rejects(Config[read[c].configId], read[c].state, evt[c].event)
  /\ Goto(c, "watch")
  /\ UNCHANGED <<redis, args, tries, read, next, ret, aux>>

SendEventRejected(c) ==
  /\ pc[c] = "getConfig"
  /\ read[c].configId \in DOMAIN Config
  /\ Rejects(Config[read[c].configId], read[c].state, evt[c].event)
  /\ Return(c, "UnexpectedTransition")
  /\ UNCHANGED <<redis, args, tries, read, next, aux>>

\* NotFoundError around the error of GetConfig, whatever that error is.
GetConfigFails(c) ==
  /\ pc[c] = "getConfig"
  /\ read[c].configId \notin DOMAIN Config \/ "read" \in Faults
  /\ Return(c, "ConfigNotFound")
  /\ UNCHANGED <<redis, args, tries, read, next, aux>>

\* Mutant: oldState is taken after SendEvent changed the machine.
OldStateTooLate(c) == IF c \in EventCalls THEN next[c].state ELSE Unset

\* The oldState argument of UpdateState.
OldState(c) == IF c \in EventCalls THEN read[c].state ELSE Unset

\* The state SETs after SREM and after SADD; UpdateState skips an empty state.
Removed(c) ==
  IF OldState(c) = Unset THEN inState
  ELSE [inState EXCEPT ![OldState(c)] = @ \ {key[c]}]

Added(c) ==
  IF next[c].state = Unset THEN inState
  ELSE [inState EXCEPT ![next[c].state] = @ \cup {key[c]}]

SRem(c) ==
  /\ pc[c] = "srem"
  /\ inState' = Removed(c)
  /\ Goto(c, "sadd")
  /\ UNCHANGED <<fsm, watch, args, tries, read, next, ret, aux>>

\* The end of UpdateState: TxProcessEvent goes on to EXEC, and
\* PutFiniteStateMachine returns.
SAdd(c) ==
  /\ pc[c] = "sadd"
  /\ inState' = Added(c)
  /\ IF c \in EventCalls THEN Goto(c, "exec") /\ UNCHANGED ret ELSE Return(c, "OK")
  /\ UNCHANGED <<fsm, watch, args, tries, read, next, aux>>

\* SREM or SADD returns an error, executed or not; so does UpdateState, and no
\* EXEC is sent.
UpdateStateFails(c) ==
  /\ "index" \in Faults
  /\ \/ pc[c] = "srem" /\ OldState(c) # Unset /\ inState' \in {inState, Removed(c)}
     \/ pc[c] = "sadd" /\ next[c].state # Unset /\ inState' \in {inState, Added(c)}
  /\ Return(c, IF c \in EventCalls THEN "RedisError" ELSE "Internal")
  /\ Disturb(c)
  /\ UNCHANGED <<fsm, watch, args, tries, read, next, committed, foreign>>

Commit(c) ==
  /\ watch[c] # "dirty"
  /\ Set(c)
  /\ committed' = committed \cup {c}

Exec(c) ==
  /\ pc[c] = "exec"
  /\ Commit(c)
  /\ Return(c, "nil")
  /\ UNCHANGED <<inState, args, tries, read, next, disturbed>>

\* Mutant: when the loop is exhausted TxProcessEvent returns nil.
ExecAbortedForgotten(c) ==
  /\ pc[c] = "exec"
  /\ watch[c] = "dirty"
  /\ tries' = [tries EXCEPT ![c] = @ + 1]
  /\ IF tries[c] + 1 < DefaultMaxRetries THEN Goto(c, "watch") /\ UNCHANGED ret
     ELSE Return(c, "nil")
  /\ UNCHANGED <<redis, args, read, next, aux>>

\* Mutant: the loop runs once too often.
ExecAbortedOffByOne(c) ==
  /\ pc[c] = "exec"
  /\ watch[c] = "dirty"
  /\ tries' = [tries EXCEPT ![c] = @ + 1]
  /\ IF tries[c] < DefaultMaxRetries THEN Goto(c, "watch") /\ UNCHANGED ret
     ELSE Return(c, "TooManyAttempts")
  /\ UNCHANGED <<redis, args, read, next, aux>>

\* TxFailedErr: try again, the state SETs stay as UpdateState left them.
ExecAborted(c) ==
  /\ pc[c] = "exec"
  /\ watch[c] = "dirty"
  /\ tries' = [tries EXCEPT ![c] = @ + 1]
  /\ IF tries[c] + 1 < DefaultMaxRetries THEN Goto(c, "watch") /\ UNCHANGED ret
     ELSE Return(c, "TooManyAttempts")
  /\ UNCHANGED <<redis, args, read, next, aux>>

\* ctx expires before EXEC is sent, or before its reply is received.
ExecFails(c) ==
  /\ pc[c] = "exec"
  /\ "deadline" \in Faults
  /\ Commit(c) \/ UNCHANGED <<fsm, watch, committed, foreign>>
  /\ Return(c, "RedisError")
  /\ Disturb(c)
  /\ UNCHANGED <<inState, args, tries, read, next>>

-----------------------------------------------------------------------------
(* PutFiniteStateMachine                                                    *)

\* Mutant: the machine is added to the SET of its state and never stored.
PutGetConfigIndexOnly(c) ==
  /\ pc[c] = "getConfig"
  /\ next[c].configId \in DOMAIN Config
  /\ next' = [next EXCEPT ![c] = StateOrDefault(next[c])]
  /\ Goto(c, "srem")
  /\ UNCHANGED <<redis, args, tries, read, ret, aux>>

PutGetConfig(c) ==
  /\ pc[c] = "getConfig"
  /\ next[c].configId \in DOMAIN Config
  /\ next' = [next EXCEPT ![c] = StateOrDefault(next[c])]
  /\ Goto(c, "put")
  /\ UNCHANGED <<redis, args, tries, read, ret, aux>>

\* GetConfig returned an error, or the deadline of the request has passed.
PutRefused(c) ==
  /\ pc[c] = "getConfig"
  /\ \/ /\ next[c].configId \notin DOMAIN Config \/ "read" \in Faults
        /\ Return(c, "FailedPrecondition")
     \/ /\ next[c].configId \in DOMAIN Config /\ "deadline" \in Faults
        /\ Return(c, "DeadlineExceeded")
  /\ UNCHANGED <<redis, args, tries, read, next, aux>>

\* PutStateMachine: the SET of RedisStore.put succeeds.
PutStateMachine(c) ==
  /\ pc[c] = "put"
  /\ Set(c)
  /\ disturbed' = IF fsm[key[c]] = NoFsm THEN disturbed ELSE disturbed \cup {key[c]}
  /\ Goto(c, "srem")
  /\ UNCHANGED <<inState, args, tries, read, next, ret, committed>>

\* The SET takes effect, or not, without its reply being received.
SetUnknown(c) == Set(c) \/ UNCHANGED <<fsm, watch, foreign>>

\* Mutant: once put has given up the machine is indexed all the same.
PutTimesOutIgnored(c) ==
  /\ pc[c] = "put"
  /\ "write" \in Faults
  /\ SetUnknown(c)
  /\ tries' = [tries EXCEPT ![c] = @ + 1]
  /\ Goto(c, IF tries[c] + 1 = MaxRetries THEN "srem" ELSE "put")
  /\ Disturb(c)
  /\ UNCHANGED <<inState, args, read, next, ret, committed>>

\* The deadline of one attempt of put: retried until the attempts are used up.
PutTimesOut(c) ==
  /\ pc[c] = "put"
  /\ "write" \in Faults
  /\ SetUnknown(c)
  /\ tries' = [tries EXCEPT ![c] = @ + 1]
  /\ IF tries[c] + 1 = MaxRetries THEN Return(c, "Internal") ELSE UNCHANGED <<pc, ret>>
  /\ Disturb(c)
  /\ UNCHANGED <<inState, args, read, next, committed>>

\* Any other error of the SET is not retried.
PutFails(c) ==
  /\ pc[c] = "put"
  /\ "write" \in Faults
  /\ SetUnknown(c)
  /\ Return(c, "Internal")
  /\ Disturb(c)
  /\ UNCHANGED <<inState, args, tries, read, next, committed>>

-----------------------------------------------------------------------------
TxStep(c) ==
  \/ Watch(c) \/ WatchFails(c)
  \/ GetStateMachine(c) \/ GetStateMachineFails(c)
  \/ SendEvent(c) \/ SendEventRejected(c) \/ GetConfigFails(c)
  \/ Exec(c) \/ ExecAborted(c) \/ ExecFails(c)

PutStep(c) ==
  \/ PutGetConfig(c) \/ PutRefused(c)
  \/ PutStateMachine(c) \/ PutTimesOut(c) \/ PutFails(c)

UpdateStateStep(c) == SRem(c) \/ SAdd(c) \/ UpdateStateFails(c)

Next ==
  \/ \E c \in EventCalls : TxStep(c)
  \/ \E c \in PutCalls : PutStep(c)
  \/ \E c \in Calls : Start(c) \/ UpdateStateStep(c)

Spec == Init /\ [][Next]_vars

\* A started call keeps running: every Redis command it sends is answered or
\* times out.  Nothing obliges a call to start.
FairSpec ==
  /\ Spec
  /\ \A c \in EventCalls : WF_vars(TxStep(c) \/ UpdateStateStep(c))
  /\ \A c \in PutCalls : WF_vars(PutStep(c) \/ UpdateStateStep(c))

-----------------------------------------------------------------------------
Atomic == INSTANCE AtomicFsmStore WITH applied <- committed

\* TxProcessEvent is atomic for the machine: WATCH and the retries make every
\* committed event a single step on the machine's current value, at most one
\* per call, and nothing but a put changes a machine otherwise.
EventsAreAtomic == Atomic!Spec

\* What TxProcessEvent returns is what happened: nil when the event was
\* applied; not-found, unexpected transition and too many attempts when not.
\* (An error of EXEC itself tells nothing.)
ResultIsTrue ==
  \A c \in EventCalls :
    /\ ret[c] = "nil" => c \in committed
    /\ ret[c] \in {"none", "NotFound", "ConfigNotFound", "UnexpectedTransition",
                   "TooManyAttempts"} => c \notin committed

\* Attempts are only lost to others: each aborted EXEC is paid for by a write
\* of another call to the same machine, so that TooManyAttempts is returned
\* only under contention, and some call always gets through.
RetriesArePaidFor == \A c \in EventCalls : tries[c] <= foreign[c]

\* A machine is in no state SET before it is stored, so that StreamAllInstate,
\* which fails on the first id it cannot read, finds every id it lists.
IndexNeverDangles ==
  \A s \in StateSets : \A i \in inState[s] : fsm[i] # NoFsm

\* The configuration of every stored machine exists: TxProcessEvent always
\* finds the one it needs.
ConfigIsPresent ==
  \A i \in Ids : fsm[i] # NoFsm => fsm[i].configId \in DOMAIN Config

\* Machine i is in the SET of its state and in no other.
Indexed(i) ==
  \A s \in StateSets : i \in inState[s] <=> fsm[i] # NoFsm /\ fsm[i].state = s

\* When the calls on a machine come one after the other, each succeeds or
\* fails cleanly, and none replaces the machine, its state SETs are right
\* whenever no call is in progress.
IndexedIfUndisturbed ==
  \A i \in Ids \ disturbed : Busy(i) \/ Indexed(i)

\* types.go of TxProcessEvent: it runs "in a transaction, guaranteeing that
\* there will be no races when updating the FSM state".  So an attempt that is
\* not committed leaves no trace: once no call is in progress, the machine is
\* only in SETs of states that it is in, or was in according to its History.
OnlyVisitedStates ==
  \A i \in Ids, s \in StateSets :
    i \in inState[s] =>
      \/ Busy(i)
      \/ fsm[i].state = s
      \/ \E n \in DOMAIN fsm[i].history : fsm[i].history[n].from = s

\* Every call that starts returns, whatever fails and however often: whatever
\* is in progress, there comes a time when nothing is.
CallsReturn ==
  (\E c \in Calls : InFlight(c)) ~> (\A c \in Calls : ~InFlight(c))
=============================================================================
