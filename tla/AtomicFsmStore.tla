--------------------------- MODULE AtomicFsmStore ---------------------------
(***************************************************************************)
(* What the store promises for the state machines themselves: an event is  *)
(* applied in one step to the machine's current value, at most once per    *)
(* call of TxProcessEvent; the only other way a machine changes is a put.  *)
(***************************************************************************)
EXTENDS StoreCalls

VARIABLES fsm,     \* the stored machines
          applied, \* calls of TxProcessEvent whose event was applied
          key,     \* the machine a call is about
          evt      \* the event of a call of TxProcessEvent

vars == <<fsm, applied, key, evt>>

Init ==
  /\ fsm = [i \in Ids |-> NoFsm]
  /\ applied = {}
  /\ key \in [Calls -> Ids]
  /\ evt \in [EventCalls -> Events]

Apply(c) ==
  /\ c \notin applied
  /\ fsm[key[c]] # NoFsm
  /\ LET cur == fsm[key[c]]
         cfg == Config[cur.configId] IN
     /\ cur.configId \in DOMAIN Config
     /\ \E k \in DOMAIN cfg.transitions :
          /\ Fires(cfg, cur.state, evt[c].event, k)
          /\ fsm' = [fsm EXCEPT ![key[c]] = Moved(cur, evt[c], cfg.transitions[k])]
  /\ applied' = applied \cup {c}
  /\ UNCHANGED <<key, evt>>

Put(c) ==
  /\ \E f \in PutRequests :
       /\ f.configId \in DOMAIN Config
       /\ fsm' = [fsm EXCEPT ![key[c]] = StateOrDefault(f)]
  /\ UNCHANGED <<applied, key, evt>>

Next ==
  \/ \E c \in EventCalls : Apply(c)
  \/ \E c \in PutCalls : Put(c)

Spec == Init /\ [][Next]_vars
=============================================================================
