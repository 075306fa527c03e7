----------------------------- MODULE FsmStreams -----------------------------
(***************************************************************************)
(* The gRPC methods that read state machines while the calls of FsmStore   *)
(* write them: GetFiniteStateMachine, GetAllInState and StreamAllInstate,  *)
(* which lists the ids in the SET of a state and then reads the machines   *)
(* one by one, each with the retry loop of RedisStore.get.                 *)
(***************************************************************************)
EXTENDS FsmStore

CONSTANTS Readers, \* calls of the three methods
          Queries  \* their requests: [method, config, id, state], where config
                   \* tells whether the request names a configuration
\* Faults may also hold "list", "get" and "send", the failures of a reader.

Methods == {"GetFiniteStateMachine", "GetAllInState", "StreamAllInstate"}
Query == [method : Methods, config : BOOLEAN, id : Ids \cup {Unset}, state : States]

ASSUME QueriesAssumption == Queries \subseteq Query

VARIABLES
  query,   \* the request of each reader; NoFsm before it begins
  at,      \* where a reader is
  todo,    \* the ids that are listed and not yet read
  cur,     \* the id that is being read
  attempt, \* the attempts of get that timed out
  sent,    \* the ids and states of the machines in the answer
  status,  \* the status of the answer
  steady   \* auxiliary: the machines that were in the state asked for, with no
           \* call in progress on them, ever since the reader began

readers == <<query, at, todo, cur, attempt, sent, status, steady>>
allVars == <<vars, readers>>

Statuses == {"none", "OK", "InvalidArgument", "Unimplemented", "NotFound", "Unknown"}

StreamsTypeOK ==
  /\ query \in [Readers -> Queries \cup {NoFsm}]
  /\ at \in [Readers -> {"new", "list", "loop", "get", "done"}]
  /\ todo \in [Readers -> SUBSET Ids]
  /\ cur \in [Readers -> Ids \cup {Unset}]
  /\ attempt \in [Readers -> 0 .. MaxRetries]
  /\ sent \in [Readers -> SUBSET (Ids \X (States \cup {Unset}))]
  /\ status \in [Readers -> Statuses]
  /\ steady \in [Readers -> SUBSET Ids]

StreamsInit ==
  /\ Init
  /\ query = [r \in Readers |-> NoFsm]
  /\ at = [r \in Readers |-> "new"]
  /\ todo = [r \in Readers |-> {}]
  /\ cur = [r \in Readers |-> Unset]
  /\ attempt = [r \in Readers |-> 0]
  /\ sent = [r \in Readers |-> {}]
  /\ status = [r \in Readers |-> "none"]
  /\ steady = [r \in Readers |-> {}]

-----------------------------------------------------------------------------
Moves(r, l) == at' = [at EXCEPT ![r] = l]

Answers(r, s) == Moves(r, "done") /\ status' = [status EXCEPT ![r] = s]

\* Machine i is at rest in state s.
Rests(i, s) ==
  fsm[i] # NoFsm /\ fsm[i].state = s /\ ~Busy(i) /\ i \notin disturbed

\* The checks at the start of the three methods; "none" when they pass.
Refusal(q) ==
  IF ~q.config \/ (q.method = "GetFiniteStateMachine" /\ q.id = Unset) THEN "InvalidArgument"
  ELSE IF q.method # "GetFiniteStateMachine" /\ q.state = Unset THEN "Unimplemented"
  ELSE "none"

Begin(r, q) ==
  /\ at[r] = "new"
  /\ query' = [query EXCEPT ![r] = q]
  /\ cur' = [cur EXCEPT ![r] = q.id]
  /\ IF Refusal(q) # "none" THEN Answers(r, Refusal(q))
     ELSE /\ Moves(r, IF q.method = "GetFiniteStateMachine" THEN "get" ELSE "list")
          /\ UNCHANGED status
  /\ steady' = [steady EXCEPT ![r] = {i \in Ids : Rests(i, q.state)}]
  /\ UNCHANGED <<vars, todo, attempt, sent>>

\* Mutant: the SETs of all the states are listed.
ListsAll(r) ==
  /\ at[r] = "list"
  /\ \/ /\ todo' = [todo EXCEPT ![r] = UNION {inState[s] : s \in StateSets}]
        /\ UNCHANGED steady
     \/ /\ "list" \in Faults
        /\ todo' = [todo EXCEPT ![r] = {}]
        /\ steady' = [steady EXCEPT ![r] = {}]
  /\ IF query[r].method = "StreamAllInstate" THEN Moves(r, "loop") /\ UNCHANGED status
     ELSE Answers(r, "OK")
  /\ UNCHANGED <<vars, query, cur, attempt, sent>>

\* SMEMBERS of the state.  An error is answered by an empty list.
GetAllInState(r) ==
  /\ at[r] = "list"
  /\ \/ todo' = [todo EXCEPT ![r] = inState[query[r].state]] /\ UNCHANGED steady
     \/ /\ "list" \in Faults
        /\ todo' = [todo EXCEPT ![r] = {}]
        /\ steady' = [steady EXCEPT ![r] = {}]
  /\ IF query[r].method = "StreamAllInstate" THEN Moves(r, "loop") /\ UNCHANGED status
     ELSE Answers(r, "OK")
  /\ UNCHANGED <<vars, query, cur, attempt, sent>>

\* The next id of the loop of StreamAllInstate; SMEMBERS has no order.
NextId(r) ==
  /\ at[r] = "loop"
  /\ \/ todo[r] = {} /\ Answers(r, "OK") /\ UNCHANGED <<todo, cur, attempt>>
     \/ \E i \in todo[r] :
          /\ todo' = [todo EXCEPT ![r] = @ \ {i}]
          /\ cur' = [cur EXCEPT ![r] = i]
          /\ attempt' = [attempt EXCEPT ![r] = 0]
          /\ Moves(r, "get") /\ UNCHANGED status
  /\ UNCHANGED <<vars, query, sent, steady>>

\* Mutant: the stream returns from within the loop.
GetsFirst(r) ==
  /\ at[r] = "get"
  /\ fsm[cur[r]] # NoFsm
  /\ sent' = [sent EXCEPT ![r] = @ \cup {<<cur[r], fsm[cur[r]].state>>}]
  /\ Answers(r, "OK")
  /\ UNCHANGED <<vars, query, todo, cur, attempt, steady>>

\* GET of the machine, which is then sent to the client.
Get(r) ==
  /\ at[r] = "get"
  /\ fsm[cur[r]] # NoFsm
  /\ sent' = [sent EXCEPT ![r] = @ \cup {<<cur[r], fsm[cur[r]].state>>}]
  /\ IF query[r].method = "StreamAllInstate" THEN Moves(r, "loop") /\ UNCHANGED status
     ELSE Answers(r, "OK")
  /\ UNCHANGED <<vars, query, todo, cur, attempt, steady>>

\* The status of a failed read: GetFiniteStateMachine has one for all errors,
\* the stream ends with the error as it is.
ReadError(r) ==
  IF query[r].method = "StreamAllInstate" THEN "Unknown" ELSE "NotFound"

\* The key does not exist, GET fails, or the client is gone.
GetFails(r) ==
  /\ at[r] = "get"
  /\ \/ fsm[cur[r]] = NoFsm \/ "get" \in Faults
     \/ "send" \in Faults /\ query[r].method = "StreamAllInstate"
  /\ Answers(r, ReadError(r))
  /\ UNCHANGED <<vars, query, todo, cur, attempt, sent, steady>>

\* Mutant: when the attempts are used up the loop starts again.
GetTimesOutForever(r) ==
  /\ at[r] = "get"
  /\ "get" \in Faults
  /\ attempt' = [attempt EXCEPT ![r] = (@ + 1) % MaxRetries]
  /\ UNCHANGED <<vars, query, at, todo, cur, sent, status, steady>>

\* GET times out; it is tried again until the attempts are used up.
GetTimesOut(r) ==
  /\ at[r] = "get"
  /\ "get" \in Faults
  /\ attempt' = [attempt EXCEPT ![r] = @ + 1]
  /\ IF attempt'[r] = MaxRetries THEN Answers(r, ReadError(r))
     ELSE UNCHANGED <<at, status>>
  /\ UNCHANGED <<vars, query, todo, cur, sent, steady>>

ReaderStep(r) == GetAllInState(r) \/ NextId(r) \/ Get(r) \/ GetFails(r) \/ GetTimesOut(r)

\* A step of a writer.
StoreStep ==
  /\ Next
  /\ UNCHANGED <<query, at, todo, cur, attempt, sent, status>>
  /\ steady' = [r \in Readers |-> {i \in steady[r] : Rests(i, query[r].state)'}]

StreamsNext ==
  \/ StoreStep
  \/ \E r \in Readers : ReaderStep(r) \/ \E q \in Queries : Begin(r, q)

StreamsSpec == StreamsInit /\ [][StreamsNext]_allVars

\* A reader that has begun keeps running; nothing obliges the writers.
StreamsFairSpec ==
  StreamsSpec /\ \A r \in Readers : WF_allVars(ReaderStep(r))

-----------------------------------------------------------------------------
\* The calls of StreamAllInstate that have begun.
Streams == {r \in Readers : at[r] # "new" /\ query[r].method = "StreamAllInstate"}

\* A stream finds every machine that it lists: the ids that StreamAllInstate
\* has still to read are those of stored machines, whatever the writers do
\* between the listing and the read.  So only a failure of Redis or of the
\* client ends a stream early.
StreamFindsListed ==
  \A r \in Streams :
      /\ \A i \in todo[r] : fsm[i] # NoFsm
      /\ at[r] = "get" => fsm[cur[r]] # NoFsm

\* A stream that ends with OK has sent every machine that rested in the state
\* asked for while the stream ran, in that state.  (When SMEMBERS fails the
\* stream is empty and ends with OK: this is excepted.)
StreamIsComplete ==
  \A r \in Streams :
    status[r] = "OK" => \A i \in steady[r] : <<i, query[r].state>> \in sent[r]

\* Machine i is in state s, was in it, or a call that has added it to the SET of
\* the state is about to put it there.
Belongs(i, s) ==
  \/ fsm[i].state = s
  \/ \E n \in DOMAIN fsm[i].history : fsm[i].history[n].from = s
  \/ \E c \in EventCalls : key[c] = i /\ pc[c] = "exec" /\ next[c].state = s

\* What a stream sends may be out of date but is never unrelated: a machine that
\* is sent in another state than the one asked for has left that state since
\* it was listed, or is about to enter it.  Overlapping calls and failures,
\* after which the SETs can be wrong, are excepted.
StreamedBelongs ==
  \A r \in Streams : \A m \in sent[r] :
    m[1] \notin disturbed => m[2] = query[r].state \/ Belongs(m[1], query[r].state)

\* Every reader that begins ends, whatever the writers do: a stream reads the
\* ids of one listing, and get gives up.
ReadersEnd ==
  \A r \in Readers : at[r] \in {"list", "loop", "get"} ~> at[r] = "done"
=============================================================================
