-------------------------- MODULE FsmStreamsProofs --------------------------
(***************************************************************************)
(* The properties of FsmStreams, for any number of readers, writers and    *)
(* machines, and any failures of either.                                   *)
(***************************************************************************)
EXTENDS FsmIndexProofs

\* Where a reader can be.
Placed(r) ==
  /\ at[r] = "new" => todo[r] = {} /\ sent[r] = {} /\ steady[r] = {} /\ status[r] = "none"
  /\ at[r] # "new" => query[r] \in Queries
  /\ at[r] \in {"list", "loop", "get"} => status[r] = "none" /\ Refusal(query[r]) = "none"
  /\ at[r] = "list" => query[r].method # "GetFiniteStateMachine"
  /\ at[r] = "loop" => query[r].method = "StreamAllInstate"
  /\ at[r] = "get" => query[r].method # "GetAllInState" /\ cur[r] \in Ids
  /\ at[r] # "done" => attempt[r] < MaxRetries

\* The machines that stream r has listed or sent.
Mentioned(r) ==
  todo[r] \cup {m[1] : m \in sent[r]} \cup (IF at[r] = "get" THEN {cur[r]} ELSE {})

\* Each of them is stored, and belongs to the state asked for.
Related(r) ==
  \A i \in Mentioned(r) :
    fsm[i] # NoFsm /\ (i \notin disturbed => Belongs(i, query[r].state))

\* A machine that rests in the state asked for is listed, being read, or sent.
Covered(r) ==
  \A i \in steady[r] :
    /\ Rests(i, query[r].state)
    /\ \/ at[r] = "list"
       \/ i \in todo[r] /\ status[r] # "OK"
       \/ at[r] = "get" /\ cur[r] = i
       \/ at[r] = "done" /\ status[r] # "OK"
       \/ <<i, query[r].state>> \in sent[r]

StreamInv(r) == r \in Streams => Related(r) /\ Covered(r)

ReaderInv ==
  /\ StreamsTypeOK
  /\ \A r \in Readers : Placed(r) /\ StreamInv(r)

-----------------------------------------------------------------------------
\* While the store stands still, what a reader mentions stays related to the state
\* it asks for, if it mentions no more than before.
LEMMA RelatedKept ==
  ASSUME NEW r, Related(r), query'[r] = query[r], Mentioned(r)' \subseteq Mentioned(r),
         fsm' = fsm, key' = key, pc' = pc, next' = next, disturbed' = disturbed
  PROVE  Related(r)'
BY DEF Related, Belongs

\* So does the machine that rests in it.
LEMMA RestsKept ==
  ASSUME NEW r, NEW i, Rests(i, query[r].state), query'[r] = query[r],
         fsm' = fsm, key' = key, pc' = pc, disturbed' = disturbed
  PROVE  Rests(i, query[r].state)'
BY DEF Rests, Busy, InFlight

\* No reader has begun.
LEMMA ReaderInit == StreamsInit => ReaderInv
<1> SUFFICES ASSUME StreamsInit PROVE ReaderInv
  OBVIOUS
<1>1. MaxRetries \in Nat /\ 0 < MaxRetries
  BY RetriesAssumption
<1>2. StreamsTypeOK
  <2>1. attempt \in [Readers -> 0 .. MaxRetries]
    <3>1. attempt = [r \in Readers |-> 0]
      BY DEF StreamsInit
    <3>2. 0 \in 0 .. MaxRetries
      BY <1>1
    <3> QED BY <3>1, <3>2
  <2>2. todo \in [Readers -> SUBSET Ids] /\ steady \in [Readers -> SUBSET Ids]
        /\ sent \in [Readers -> SUBSET (Ids \X (States \cup {Unset}))]
    BY DEF StreamsInit
  <2> QED
    BY <2>1, <2>2 DEF StreamsInit, StreamsTypeOK, Statuses
<1>3. \A r \in Readers : Placed(r)
  BY <1>1 DEF StreamsInit, Placed
<1> QED
  BY <1>2, <1>3 DEF StreamsInit, ReaderInv, StreamInv, Streams

\* A step of a writer.
LEMMA WriterStep ==
  ASSUME StoreInv, ReaderInv, StoreStep
  PROVE  ReaderInv'
<1>0. StreamsTypeOK /\ [Next]_vars
  BY DEF ReaderInv, StoreStep
<1>1. /\ UNCHANGED <<query, at, todo, cur, attempt, sent, status>>
      /\ steady' = [r \in Readers |-> {i \in steady[r] : Rests(i, query[r].state)'}]
  BY DEF StoreStep
<1>2. \A r \in Readers : steady'[r] \subseteq steady[r]
                         /\ \A i \in steady'[r] : Rests(i, query[r].state)'
  BY <1>1
<1>3. StreamsTypeOK'
  <2>1. steady' \in [Readers -> SUBSET Ids]
    BY <1>0, <1>1 DEF StreamsTypeOK
  <2> QED
    BY <1>0, <1>1, <2>1 DEF StreamsTypeOK
<1>4. ASSUME NEW r \in Readers PROVE Placed(r)'
  BY <1>1, <1>2 DEF ReaderInv, Placed, Refusal
<1>5. ASSUME NEW r \in Readers, r \in Streams' PROVE Related(r)' /\ Covered(r)'
  <2>0. query'[r] = query[r]
    BY <1>1
  <2>1. r \in Streams /\ Related(r) /\ Covered(r) /\ Placed(r)
    BY <1>1, <1>5 DEF Streams, ReaderInv, StreamInv
  <2>2. Mentioned(r)' = Mentioned(r)
    BY <1>1 DEF Mentioned
  <2>3. Mentioned(r) \subseteq Ids
    <3>1. todo[r] \subseteq Ids /\ sent[r] \subseteq Ids \X (States \cup {Unset})
      BY <1>0 DEF StreamsTypeOK
    <3> QED
      BY <2>1, <3>1 DEF Mentioned, Placed
  <2>4. ASSUME NEW i \in Mentioned(r)
        PROVE  fsm'[i] # NoFsm /\ (i \notin disturbed' => Belongs(i, query[r].state)')
    <3>1. i \in Ids /\ fsm[i] # NoFsm /\ (i \notin disturbed => Belongs(i, query[r].state))
      BY <2>1, <2>3, <2>4 DEF Related
    <3>2. i \in disturbed => i \in disturbed'
      BY <1>0, DisturbedStays
    <3>3. fsm'[i] # NoFsm
      BY <1>0, <3>1, StaysStored
    <3>4. ASSUME NEW s, s = query[r].state, i \notin disturbed' PROVE Belongs(i, s)'
      BY <1>0, <3>1, <3>2, <3>4, BelongsKept
    <3> QED
      BY <2>0, <3>3, <3>4 DEF Belongs
  <2>5. Related(r)'
    BY Zenon, <2>0, <2>2, <2>4 DEF Related, Belongs
  <2>6. Covered(r)'
    BY <1>1, <1>2, <2>1 DEF Covered, Rests
  <2> QED
    BY <2>5, <2>6
<1> QED
  BY <1>3, <1>4, <1>5 DEF ReaderInv, StreamInv, Streams

\* A step of reader r leaves the others alone.
OthersKept(r) ==
  /\ UNCHANGED vars
  /\ \A q \in Readers \ {r} :
       /\ query'[q] = query[q] /\ at'[q] = at[q] /\ todo'[q] = todo[q] /\ cur'[q] = cur[q]
       /\ attempt'[q] = attempt[q] /\ sent'[q] = sent[q] /\ status'[q] = status[q]
       /\ steady'[q] = steady[q]

\* So it is enough to look at reader r itself.
LEMMA OthersInv ==
  ASSUME ReaderInv, NEW r \in Readers, OthersKept(r), StreamsTypeOK', Placed(r)',
         r \in Streams' => Related(r)' /\ Covered(r)'
  PROVE  ReaderInv'
<1>1. fsm' = fsm /\ key' = key /\ pc' = pc /\ next' = next /\ disturbed' = disturbed
  BY DEF OthersKept, vars, redis, args, aux
<1>2. \A i, s : (Belongs(i, s)' <=> Belongs(i, s)) /\ (Rests(i, s)' <=> Rests(i, s))
  BY <1>1 DEF Belongs, Rests, Busy, InFlight
<1>3. ASSUME NEW q \in Readers \ {r} PROVE Placed(q)' /\ StreamInv(q)'
  <2>0. Placed(q)
    BY Zenon DEF ReaderInv
  <2>1. Placed(q)'
    BY <2>0 DEF OthersKept, Placed, Refusal
  <2>2. q \in Streams' <=> q \in Streams
    BY DEF OthersKept, Streams
  <2>3. Related(q) => Related(q)'
    <3>1. query'[q] = query[q] /\ Mentioned(q)' \subseteq Mentioned(q)
      BY Zenon DEF OthersKept, Mentioned
    <3> QED
      BY <1>1, <3>1, RelatedKept
  <2>4. Covered(q) => Covered(q)'
    BY <1>1 DEF OthersKept, Covered, Rests, Busy, InFlight
  <2> QED
    BY <2>1, <2>2, <2>3, <2>4 DEF ReaderInv, StreamInv
<1> QED
  BY <1>3 DEF ReaderInv, StreamInv

\* A reader begins.
LEMMA BeginStep ==
  ASSUME StoreInv, ReaderInv, NEW r \in Readers, NEW q \in Queries, Begin(r, q)
  PROVE  ReaderInv'
<1>0. /\ StreamsTypeOK /\ Placed(r) /\ at[r] = "new" /\ q \in Query
      /\ MaxRetries \in Nat /\ UNCHANGED vars
  BY QueriesAssumption, RetriesAssumption DEF ReaderInv, Begin
<1>1. /\ query' = [query EXCEPT ![r] = q] /\ cur' = [cur EXCEPT ![r] = q.id]
      /\ steady' = [steady EXCEPT ![r] = {i \in Ids : Rests(i, q.state)}]
      /\ UNCHANGED <<todo, attempt, sent>>
      /\ \/ /\ Refusal(q) # "none"
            /\ at' = [at EXCEPT ![r] = "done"] /\ status' = [status EXCEPT ![r] = Refusal(q)]
         \/ /\ Refusal(q) = "none" /\ status' = status
            /\ at' = [at EXCEPT ![r] =
                        IF q.method = "GetFiniteStateMachine" THEN "get" ELSE "list"]
  BY DEF Begin, Answers, Moves
<1>2. /\ Refusal(q) \in {"none", "InvalidArgument", "Unimplemented"}
      /\ Refusal(q) = "none" /\ q.method = "GetFiniteStateMachine" => q.id \in Ids
      /\ q.id \in Ids \cup {Unset}
  BY <1>0 DEF Refusal, Query
<1>3. StreamsTypeOK'
  <2>1. steady' \in [Readers -> SUBSET Ids] /\ cur' \in [Readers -> Ids \cup {Unset}]
        /\ query' \in [Readers -> Queries \cup {NoFsm}]
    BY Zenon, <1>0, <1>1, <1>2 DEF StreamsTypeOK
  <2>2. at' \in [Readers -> {"new", "list", "loop", "get", "done"}]
        /\ status' \in [Readers -> Statuses]
    BY Zenon, <1>0, <1>1, <1>2 DEF StreamsTypeOK, Statuses
  <2> QED
    BY Zenon, <1>0, <1>1, <2>1, <2>2 DEF StreamsTypeOK
<1>4. OthersKept(r)
  BY Zenon, <1>0, <1>1 DEF OthersKept, StreamsTypeOK
<1>5. /\ query'[r] = q /\ cur'[r] = q.id /\ todo'[r] = {} /\ sent'[r] = {}
      /\ attempt'[r] < MaxRetries /\ steady'[r] = {i \in Ids : Rests(i, q.state)}
      /\ \/ Refusal(q) # "none" /\ at'[r] = "done" /\ status'[r] = Refusal(q)
         \/ /\ Refusal(q) = "none" /\ status'[r] = "none"
            /\ at'[r] = IF q.method = "GetFiniteStateMachine" THEN "get" ELSE "list"
  BY Zenon, <1>0, <1>1 DEF StreamsTypeOK, Placed
<1>6. Placed(r)'
  BY Zenon, <1>2, <1>5 DEF Placed
<1>7. ASSUME r \in Streams' PROVE Related(r)' /\ Covered(r)'
  <2>1. q.method = "StreamAllInstate" /\ at'[r] \in {"list", "done"}
    BY Zenon, <1>5, <1>7 DEF Streams
  <2>2. Mentioned(r)' = {}
    BY <1>5, <2>1 DEF Mentioned
  <2>3. fsm' = fsm /\ key' = key /\ pc' = pc /\ disturbed' = disturbed
    BY <1>0 DEF vars, redis, args, aux
  <2>4. \A i \in steady'[r] : Rests(i, query[r].state)'
    BY Zenon, <1>5, <2>3 DEF Rests, Busy, InFlight
  <2>5. at'[r] = "list" \/ (at'[r] = "done" /\ status'[r] # "OK")
    BY <1>2, <1>5, <2>1
  <2> QED
    BY Zenon, <2>2, <2>4, <2>5 DEF Related, Covered
<1> QED
  BY Zenon, <1>3, <1>4, <1>6, <1>7, OthersInv

\* SMEMBERS lists every machine that rests in the state, and none that does not
\* belong to it.
LEMMA ListStep ==
  ASSUME StoreInv, ReaderInv, NEW r \in Readers, GetAllInState(r)
  PROVE  ReaderInv'
<1> DEFINE s == query[r].state
<1>0. /\ StreamsTypeOK /\ Placed(r) /\ at[r] = "list" /\ query[r] \in Query
      /\ Refusal(query[r]) = "none" /\ UNCHANGED vars
  BY Zenon, QueriesAssumption DEF ReaderInv, GetAllInState, Placed
<1>1. s \in StateSets
  BY Zenon, <1>0 DEF Refusal, Query, StateSets, Placed
<1>2. /\ UNCHANGED <<query, cur, attempt, sent>>
      /\ \/ todo' = [todo EXCEPT ![r] = inState[s]] /\ steady' = steady
         \/ todo' = [todo EXCEPT ![r] = {}] /\ steady' = [steady EXCEPT ![r] = {}]
      /\ \/ /\ query[r].method = "StreamAllInstate"
            /\ at' = [at EXCEPT ![r] = "loop"] /\ status' = status
         \/ /\ query[r].method # "StreamAllInstate"
            /\ at' = [at EXCEPT ![r] = "done"] /\ status' = [status EXCEPT ![r] = "OK"]
  BY DEF GetAllInState, Answers, Moves
<1>3. inState[s] \subseteq Ids
  BY Zenon, <1>1 DEF StoreInv, LocalInv, TypeOK
<1>4. StreamsTypeOK'
  <2>1. todo' \in [Readers -> SUBSET Ids] /\ steady' \in [Readers -> SUBSET Ids]
    BY Zenon, <1>0, <1>2, <1>3 DEF StreamsTypeOK
  <2>2. at' \in [Readers -> {"new", "list", "loop", "get", "done"}]
        /\ status' \in [Readers -> Statuses]
    BY Zenon, <1>0, <1>2 DEF StreamsTypeOK, Statuses
  <2> QED
    BY Zenon, <1>0, <1>2, <2>1, <2>2 DEF StreamsTypeOK
<1>5. OthersKept(r)
  BY ZenonT(30), <1>0, <1>2 DEF OthersKept, StreamsTypeOK
<1>6. /\ query'[r] = query[r] /\ attempt'[r] = attempt[r] /\ sent'[r] = sent[r]
      /\ \/ todo'[r] = inState[s] /\ steady'[r] = steady[r]
         \/ todo'[r] = {} /\ steady'[r] = {}
      /\ \/ query[r].method = "StreamAllInstate" /\ at'[r] = "loop" /\ status'[r] = "none"
         \/ query[r].method # "StreamAllInstate" /\ at'[r] = "done" /\ status'[r] = "OK"
  BY Zenon, <1>0, <1>2 DEF StreamsTypeOK, Placed
<1>7. Placed(r)'
  BY <1>0, <1>6 DEF Placed
<1>8. ASSUME r \in Streams' PROVE Related(r)' /\ Covered(r)'
  <2>1. r \in Streams /\ Related(r) /\ Covered(r) /\ at'[r] = "loop" /\ status'[r] = "none"
    BY Zenon, <1>0, <1>6, <1>8 DEF Streams, ReaderInv, StreamInv
  <2>2. fsm' = fsm /\ key' = key /\ pc' = pc /\ next' = next /\ disturbed' = disturbed
    BY ZenonT(30), <1>0 DEF vars, redis, args, aux
  <2>3. ASSUME NEW i \in Mentioned(r)'
        PROVE  fsm[i] # NoFsm /\ (i \notin disturbed => Belongs(i, s))
    <3>1. CASE i \in inState[s]
      BY Zenon, <1>1, <3>1, ListedBelongs DEF StoreInv, IndexInv, IndexNeverDangles
    <3>2. CASE i \in Mentioned(r)
      BY ZenonT(30), <2>1, <3>2 DEF Related
    <3> QED
      BY <1>6, <2>1, <2>3, <3>1, <3>2 DEF Mentioned
  <2>4. Related(r)'
    BY <1>6, <2>2, <2>3 DEF Related, Belongs
  <2>5. ASSUME NEW i \in steady'[r]
        PROVE  Rests(i, query[r].state)' /\ i \in todo'[r]
    <3>1. Rests(i, s) /\ todo'[r] = inState[s] /\ i \in Ids
      BY Zenon, <1>0, <1>6, <2>1, <2>5 DEF Covered, StreamsTypeOK
    <3>2. Indexed(i)
      BY Zenon, <3>1 DEF Rests, StoreInv, OrderInv, Orderly
    <3> QED
      BY Zenon, <1>1, <1>6, <2>2, <3>1, <3>2 DEF Indexed, Rests, Busy, InFlight
  <2>6. Covered(r)'
    BY Zenon, <2>1, <2>5 DEF Covered
  <2> QED
    BY Zenon, <2>4, <2>6
<1> QED
  BY Zenon, <1>4, <1>5, <1>7, <1>8, OthersInv

\* A step that only ends reader r, without OK, keeps what it has listed and sent.
LEMMA EndStep ==
  ASSUME ReaderInv, NEW r \in Readers, UNCHANGED <<vars, query, todo, cur, sent, steady>>,
         at[r] = "get", attempt' \in [Readers -> 0 .. MaxRetries],
         \A q \in Readers \ {r} : attempt'[q] = attempt[q],
         NEW st \in {"NotFound", "Unknown"},
         \/ /\ at' = [at EXCEPT ![r] = "done"] /\ status' = [status EXCEPT ![r] = st]
         \/ at' = at /\ status' = status /\ attempt'[r] < MaxRetries
  PROVE  ReaderInv'
<1>0. StreamsTypeOK /\ Placed(r)
  BY DEF ReaderInv
<1>1. StreamsTypeOK'
  BY <1>0 DEF StreamsTypeOK, Statuses
<1>2. OthersKept(r)
  BY Zenon, <1>0 DEF OthersKept, StreamsTypeOK
<1>3. Placed(r)'
  BY Zenon, <1>0 DEF Placed, StreamsTypeOK, Refusal
<1>4. ASSUME r \in Streams' PROVE Related(r)' /\ Covered(r)'
  <2>1. r \in Streams /\ Related(r) /\ Covered(r)
    BY Zenon, <1>4 DEF Streams, ReaderInv, StreamInv
  <2>2. fsm' = fsm /\ key' = key /\ pc' = pc /\ next' = next /\ disturbed' = disturbed
    BY DEF vars, redis, args, aux
  <2>3. Mentioned(r)' \subseteq Mentioned(r)
    BY Zenon, <1>0 DEF Mentioned, StreamsTypeOK
  <2>4. Related(r)'
    BY <2>1, <2>2, <2>3 DEF Related, Belongs
  <2>5. at'[r] \in {"get", "done"} /\ (at'[r] = "done" => status'[r] # "OK")
        /\ (at'[r] = "get" => status'[r] = status[r])
    BY Zenon, <1>0 DEF StreamsTypeOK
  <2>6. Covered(r)'
    BY <2>1, <2>2, <2>5 DEF Covered, Rests, Busy, InFlight
  <2> QED BY Zenon, <2>4, <2>6
<1> QED
  BY Zenon, <1>1, <1>2, <1>3, <1>4, OthersInv

\* A read that fails, or times out.
LEMMA FailStep ==
  ASSUME ReaderInv, NEW r \in Readers, GetFails(r) \/ GetTimesOut(r)
  PROVE  ReaderInv'
<1>0. StreamsTypeOK /\ Placed(r) /\ at[r] = "get" /\ MaxRetries \in Nat
  BY Zenon, RetriesAssumption DEF ReaderInv, GetFails, GetTimesOut
<1>1. ReadError(r) \in {"NotFound", "Unknown"}
  BY DEF ReadError
<1>2. attempt[r] \in 0 .. MaxRetries /\ attempt[r] < MaxRetries
  BY <1>0 DEF StreamsTypeOK, Placed
<1>3. CASE GetFails(r)
  BY Zenon, <1>0, <1>1, <1>3, EndStep DEF GetFails, Answers, Moves, StreamsTypeOK
<1>4. CASE GetTimesOut(r)
  <2>1. attempt' = [attempt EXCEPT ![r] = @ + 1]
    BY <1>4 DEF GetTimesOut
  <2>2. attempt' \in [Readers -> 0 .. MaxRetries] /\ attempt'[r] = attempt[r] + 1
        /\ \A q \in Readers \ {r} : attempt'[q] = attempt[q]
    <3>1. attempt \in [Readers -> 0 .. MaxRetries] /\ MaxRetries \in Nat
      BY <1>0 DEF StreamsTypeOK
    <3>2. attempt[r] + 1 \in 0 .. MaxRetries
      BY <1>2, <3>1
    <3> QED
      BY Zenon, <2>1, <3>1, <3>2
  <2>3. \/ /\ at' = [at EXCEPT ![r] = "done"] /\ status' = [status EXCEPT ![r] = ReadError(r)]
        \/ at' = at /\ status' = status /\ attempt'[r] < MaxRetries
    BY <1>0, <1>2, <1>4, <2>2 DEF GetTimesOut, Answers, Moves
  <2>4. UNCHANGED <<vars, query, todo, cur, sent, steady>>
    BY Zenon, <1>4 DEF GetTimesOut
  <2> QED
    BY Zenon, <1>0, <1>1, <2>2, <2>3, <2>4, EndStep
<1> QED
  BY Zenon, <1>3, <1>4

\* The loop takes the next id, or ends when there is none.
LEMMA LoopStep ==
  ASSUME ReaderInv, NEW r \in Readers, NextId(r)
  PROVE  ReaderInv'
<1>0. /\ StreamsTypeOK /\ Placed(r) /\ at[r] = "loop" /\ UNCHANGED vars
      /\ query[r].method = "StreamAllInstate" /\ todo[r] \subseteq Ids
  BY Zenon DEF ReaderInv, NextId, Placed, StreamsTypeOK
<1>1. UNCHANGED <<query, sent, steady>>
  BY DEF NextId
<1>2. r \in Streams /\ Related(r) /\ Covered(r)
  BY Zenon, <1>0 DEF ReaderInv, StreamInv, Streams
<1>3. fsm' = fsm /\ key' = key /\ pc' = pc /\ next' = next /\ disturbed' = disturbed
  BY <1>0 DEF vars, redis, args, aux
<1>4. CASE todo[r] = {} /\ Answers(r, "OK") /\ UNCHANGED <<todo, cur, attempt>>
  <2>1. StreamsTypeOK'
    BY Zenon, <1>0, <1>1, <1>4 DEF Answers, Moves, StreamsTypeOK, Statuses
  <2>2. OthersKept(r)
    BY Zenon, <1>0, <1>1, <1>4 DEF Answers, Moves, OthersKept, StreamsTypeOK
  <2>3. at'[r] = "done"
    BY Zenon, <1>0, <1>4 DEF Answers, Moves, StreamsTypeOK
  <2>4. Placed(r)'
    BY Zenon, <1>0, <1>1, <2>3 DEF Placed
  <2>5. Related(r)'
    <3>1. query'[r] = query[r] /\ Mentioned(r)' \subseteq Mentioned(r)
      BY Zenon, <1>1, <1>4, <2>3 DEF Mentioned
    <3> QED
      BY Zenon, <1>2, <1>3, <3>1, RelatedKept
  <2>6. Covered(r)'
    BY Zenon, <1>0, <1>1, <1>2, <1>3, <1>4 DEF Covered, Rests, Busy, InFlight
  <2> QED
    BY Zenon, <2>1, <2>2, <2>4, <2>5, <2>6, OthersInv
<1>5. ASSUME NEW i \in todo[r], todo' = [todo EXCEPT ![r] = @ \ {i}], cur' = [cur EXCEPT ![r] = i],
             attempt' = [attempt EXCEPT ![r] = 0], Moves(r, "get"), status' = status
      PROVE  ReaderInv'
  <2>1. StreamsTypeOK'
    <3>1. attempt' \in [Readers -> 0 .. MaxRetries]
      <4>1. attempt \in [Readers -> 0 .. MaxRetries]
        BY <1>0 DEF StreamsTypeOK
      <4>2. 0 \in 0 .. MaxRetries
        BY RetriesAssumption
      <4> QED
        BY <1>5, <4>1, <4>2
    <3>2. todo' \in [Readers -> SUBSET Ids] /\ cur' \in [Readers -> Ids \cup {Unset}]
      BY Zenon, <1>0, <1>5 DEF StreamsTypeOK
    <3> QED
      BY Zenon, <1>0, <1>1, <1>5, <3>1, <3>2 DEF Moves, StreamsTypeOK
  <2>2. OthersKept(r)
    BY Zenon, <1>0, <1>1, <1>5 DEF Moves, OthersKept, StreamsTypeOK
  <2>3. /\ at'[r] = "get" /\ cur'[r] = i /\ todo'[r] = todo[r] \ {i} /\ attempt'[r] = 0
        /\ i \in Ids
    BY Zenon, <1>0, <1>5 DEF Moves, StreamsTypeOK
  <2>4. attempt'[r] < MaxRetries
    BY <2>3, RetriesAssumption
  <2>5. Placed(r)'
    BY Zenon, <1>0, <1>1, <1>5, <2>3, <2>4 DEF Placed
  <2>6. Mentioned(r)' \subseteq Mentioned(r)
    BY Zenon, <1>1, <2>3 DEF Mentioned
  <2>7. Related(r)'
    BY <1>1, <1>2, <1>3, <2>6, RelatedKept
  <2>8. Covered(r)'
    BY Zenon, <1>0, <1>1, <1>2, <1>3, <1>5, <2>3 DEF Covered, Rests, Busy, InFlight
  <2> QED
    BY Zenon, <2>1, <2>2, <2>5, <2>7, <2>8, OthersInv
<1> QED
  BY Zenon, <1>4, <1>5 DEF NextId

\* The machine that is read is sent in the state that it has now.
LEMMA GetStep ==
  ASSUME StoreInv, ReaderInv, NEW r \in Readers, Get(r)
  PROVE  ReaderInv'
<1> DEFINE i == cur[r]
<1>0. /\ StreamsTypeOK /\ Placed(r) /\ at[r] = "get" /\ i \in Ids /\ UNCHANGED vars
      /\ fsm[i] \in FiniteStateMachine
  BY Zenon DEF ReaderInv, Get, Placed, StoreInv, LocalInv, TypeOK
<1>1. /\ UNCHANGED <<query, todo, cur, attempt, steady>>
      /\ sent' = [sent EXCEPT ![r] = @ \cup {<<i, fsm[i].state>>}]
      /\ \/ /\ query[r].method = "StreamAllInstate"
            /\ at' = [at EXCEPT ![r] = "loop"] /\ status' = status
         \/ /\ query[r].method # "StreamAllInstate"
            /\ at' = [at EXCEPT ![r] = "done"] /\ status' = [status EXCEPT ![r] = "OK"]
  BY Zenon DEF Get, Answers, Moves
<1>2. StreamsTypeOK'
  <2>1. <<i, fsm[i].state>> \in Ids \X (States \cup {Unset})
    BY Zenon, <1>0 DEF FiniteStateMachine
  <2>2. sent' \in [Readers -> SUBSET (Ids \X (States \cup {Unset}))]
    <3> HIDE DEF i
    <3> QED BY Zenon, <1>0, <1>1, <2>1 DEF StreamsTypeOK
  <2>3. at' \in [Readers -> {"new", "list", "loop", "get", "done"}]
        /\ status' \in [Readers -> Statuses]
    BY Zenon, <1>0, <1>1 DEF StreamsTypeOK, Statuses
  <2> QED
    BY <1>0, <1>1, <2>2, <2>3 DEF StreamsTypeOK
<1>3. OthersKept(r)
  BY Zenon, <1>0, <1>1 DEF OthersKept, StreamsTypeOK
<1>4. /\ sent'[r] = sent[r] \cup {<<i, fsm[i].state>>}
      /\ \/ query[r].method = "StreamAllInstate" /\ at'[r] = "loop" /\ status'[r] = "none"
         \/ query[r].method # "StreamAllInstate" /\ at'[r] = "done"
  BY Zenon, <1>0, <1>1 DEF StreamsTypeOK, Placed
<1>5. Placed(r)'
  BY Zenon, <1>0, <1>1, <1>4 DEF Placed, Refusal
<1>6. ASSUME r \in Streams' PROVE Related(r)' /\ Covered(r)'
  <2>1. r \in Streams /\ Related(r) /\ Covered(r) /\ at'[r] = "loop" /\ status'[r] = "none"
    BY Zenon, <1>0, <1>1, <1>4, <1>6 DEF Streams, ReaderInv, StreamInv
  <2>2. fsm' = fsm /\ key' = key /\ pc' = pc /\ next' = next /\ disturbed' = disturbed
    BY Zenon, <1>0 DEF vars, redis, args, aux
  <2>3. Mentioned(r)' \subseteq Mentioned(r)
    BY <1>0, <1>1, <1>4, <2>1 DEF Mentioned
  <2>4. Related(r)'
    BY Zenon, <1>1, <2>1, <2>2, <2>3, RelatedKept
  <2>5. ASSUME NEW j \in steady[r]
        PROVE  /\ Rests(j, query[r].state)
               /\ j \in todo[r] \/ <<j, query[r].state>> \in sent'[r]
    <3>1. /\ Rests(j, query[r].state)
          /\ j \in todo[r] \/ j = i \/ <<j, query[r].state>> \in sent[r]
      BY <1>0, <2>1, <2>5 DEF Covered
    <3>2. CASE j = i
      BY Zenon, <1>4, <3>1, <3>2 DEF Rests
    <3> QED
      BY <1>4, <3>1, <3>2
  <2>6. Covered(r)'
    BY Zenon, <1>1, <2>1, <2>2, <2>5 DEF Covered, Rests, Busy, InFlight
  <2> QED
    BY <2>4, <2>6
<1> QED
  BY <1>2, <1>3, <1>5, <1>6, OthersInv

\* Every step keeps the invariant of the readers.
LEMMA ReaderNext == StoreInv /\ ReaderInv /\ [StreamsNext]_allVars => ReaderInv'
<1> SUFFICES ASSUME StoreInv, ReaderInv, [StreamsNext]_allVars PROVE ReaderInv'
  OBVIOUS
<1>1. CASE UNCHANGED allVars
  <2>1. /\ UNCHANGED <<query, at, todo, cur, attempt, sent, status, steady>>
        /\ fsm' = fsm /\ key' = key /\ pc' = pc /\ next' = next /\ disturbed' = disturbed
    BY Zenon, <1>1 DEF allVars, readers, vars, redis, args, aux
  <2>2. StreamsTypeOK'
    BY <2>1 DEF ReaderInv, StreamsTypeOK
  <2>3. ASSUME NEW r \in Readers PROVE Placed(r)' /\ StreamInv(r)'
    <3>1. Placed(r) /\ StreamInv(r)
      BY DEF ReaderInv
    <3>2. Placed(r)'
      BY Zenon, <2>1, <3>1 DEF Placed, Refusal
    <3>3. r \in Streams' <=> r \in Streams
      BY <2>1 DEF Streams
    <3>4. Related(r) => Related(r)'
      <4>1. query'[r] = query[r] /\ Mentioned(r)' \subseteq Mentioned(r)
        BY Zenon, <2>1 DEF Mentioned
      <4> QED
        BY Zenon, <2>1, <4>1, RelatedKept
    <3>5. Covered(r) => Covered(r)'
      BY <2>1, RestsKept DEF Covered
    <3> QED
      BY Zenon, <3>1, <3>2, <3>3, <3>4, <3>5 DEF StreamInv
  <2> QED
    BY Zenon, <2>2, <2>3 DEF ReaderInv
<1> QED
  BY Zenon, <1>1, WriterStep, BeginStep, ListStep, LoopStep, GetStep, FailStep
     DEF StreamsNext, ReaderStep

\* For the store, every step is one of a writer, or none.
LEMMA StreamsNextIsNext == [StreamsNext]_allVars => [Next]_vars
BY Zenon DEF StreamsNext, StoreStep, ReaderStep, Begin, GetAllInState, NextId, Get, GetFails,
             GetTimesOut, allVars

\* The invariants of the store and of the readers hold in every state.
LEMMA StreamsInvariant == StreamsSpec => [](StoreInv /\ ReaderInv)
<1>1. StreamsInit => StoreInv /\ ReaderInv
  BY StoreInit, ReaderInit DEF StreamsInit
<1>2. StoreInv /\ ReaderInv /\ [StreamsNext]_allVars => (StoreInv /\ ReaderInv)'
  BY StoreNext, ReaderNext, StreamsNextIsNext
<1> QED
  BY <1>1, <1>2, PTL DEF StreamsSpec

\* StreamsTypeOK, for any number of readers: among others, get never makes more
\* than MaxRetries attempts.
THEOREM StreamsTypeCorrect == StreamsSpec => []StreamsTypeOK
<1>1. ReaderInv => StreamsTypeOK
  BY DEF ReaderInv
<1> QED
  BY <1>1, StreamsInvariant, PTL

\* StreamFindsListed, for any number of readers and writers and any failures of
\* either: StreamAllInstate finds every machine that it has listed.
THEOREM ListedIsFound == StreamsSpec => []StreamFindsListed
<1>1. ReaderInv => StreamFindsListed
  BY DEF ReaderInv, StreamInv, Streams, Related, Mentioned, StreamFindsListed
<1> QED
  BY <1>1, StreamsInvariant, PTL

\* StreamIsComplete, for any number of readers and writers: a stream that ends with
\* OK has sent every machine that rested in the state asked for.
THEOREM StreamsAreComplete == StreamsSpec => []StreamIsComplete
<1>1. ASSUME ReaderInv, NEW r \in Streams, status[r] = "OK", NEW i \in steady[r]
      PROVE  <<i, query[r].state>> \in sent[r]
  <2>1. r \in Readers /\ Covered(r) /\ Placed(r)
    BY Zenon, <1>1 DEF ReaderInv, StreamInv, Streams
  <2> QED
    BY Zenon, <1>1, <2>1 DEF Covered, Placed
<1>2. ReaderInv => StreamIsComplete
  BY Zenon, <1>1 DEF StreamIsComplete
<1> QED
  BY <1>2, StreamsInvariant, PTL

\* StreamedBelongs, for any number of readers and writers: what a stream sends is
\* in the state asked for, was in it, or is about to enter it.
THEOREM StreamedIsRelated == StreamsSpec => []StreamedBelongs
<1>1. ReaderInv => StreamedBelongs
  BY DEF ReaderInv, StreamInv, Streams, Related, Mentioned, StreamedBelongs
<1> QED
  BY <1>1, StreamsInvariant, PTL

\* The readers change nothing in the store: the calls of FsmStore under them are
\* calls of FsmStore, and what is proved of these holds while streams run.
THEOREM ReadersOnlyRead == StreamsSpec => Spec
<1>1. StreamsInit => Init
  BY DEF StreamsInit
<1> QED
  BY <1>1, StreamsNextIsNext, PTL DEF StreamsSpec, Spec
=============================================================================
