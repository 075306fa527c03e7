----------------------------- MODULE RedisStore -----------------------------
(***************************************************************************)
(* The methods get and put through which RedisStore reads and writes all   *)
(* its entities, with their retry loops, and the keys that they use.  The  *)
(* other modules about the store take these two as steps that succeed or   *)
(* fail.                                                                   *)
(*                                                                         *)
(* A SET whose answer did not arrive in time has been executed, is lost,   *)
(* or is still to be executed: nothing calls it back.                      *)
(***************************************************************************)
EXTENDS Integers, Sequences

CONSTANTS Calls,
          Requests,   \* what they may be asked: [op, entity, nil], see Request
          Retries,    \* the values of -max-retries
          Exhausted,  \* bound: below - Exhausted, attemptsLeft is -1 again
          MaxLate,    \* bound: unanswered SETs of one call that are still to come
          Absent,     \* stands for a key that does not exist
          Faults      \* a subset of {"timeout", "error", "marshal"}

(* Names and keys are sequences of tokens; ":" and "#" are the separators. *)

Name == Seq(STRING)
Kinds == {"config", "fsm", "event", "outcome"}
Entity == [kind : Kinds, cfg : Name, id : Name]
Request == [op : {"get", "put"}, entity : Entity, nil : BOOLEAN]

\* Configurations are not kept below another.
ASSUME RequestsAssumption ==
  Requests \subseteq Request /\ \A r \in Requests : r.entity.kind = "config" => r.entity.cfg = <<>>
ASSUME RetriesAssumption == Retries \subseteq Int /\ Exhausted \in Nat \ {0, 1} /\ MaxLate \in Nat

Entities == {r.entity : r \in Requests}
Values == [entity : Entities, by : Calls]

ASSUME AbsentAssumption == Absent \notin Calls \cup Requests \cup Values

NewKeyForConfig(id) == <<"configs", "#">> \o id

NewKeyForMachine(id, cfg) == <<"fsm", ":">> \o cfg \o <<"#">> \o id

NewKeyForEvent(id, cfg) == <<"events", ":">> \o cfg \o <<"#">> \o id

NewKeyForOutcome(id, cfg) == <<"events", ":">> \o cfg \o <<":", "outcome", "#">> \o id

\* Mutant: the outcome of an event is kept at the key of the event.
KeyOfEvent(e) ==
  CASE e.kind = "config"  -> NewKeyForConfig(e.id)
    [] e.kind = "fsm"     -> NewKeyForMachine(e.id, e.cfg)
    [] e.kind = "event"   -> NewKeyForEvent(e.id, e.cfg)
    [] e.kind = "outcome" -> NewKeyForEvent(e.id, e.cfg)

\* The key that each pair of methods computes: GetConfig and PutConfig,
\* GetStateMachine and PutStateMachine, GetEvent and PutEvent,
\* GetOutcomeForEvent and AddEventOutcome.
Key(e) ==
  CASE e.kind = "config"  -> NewKeyForConfig(e.id)
    [] e.kind = "fsm"     -> NewKeyForMachine(e.id, e.cfg)
    [] e.kind = "event"   -> NewKeyForEvent(e.id, e.cfg)
    [] e.kind = "outcome" -> NewKeyForOutcome(e.id, e.cfg)

Keys == {Key(e) : e \in Entities}

VARIABLES
  maxRetries, \* RedisStore.MaxRetries
  db,         \* Redis: at each key an entity and the call that put it, or Absent
  req,        \* the request of each call
  pc,         \* "new", "try" or "done"
  left,       \* attemptsLeft
  ret,        \* what the call returned
  got,        \* what a get returned with it
  late,       \* how many SETs of each call are still to be executed
  last,       \* auxiliary: the last put that began on a key
  contended,  \* auxiliary: keys on which two puts overlapped, late SETs included
  seen        \* auxiliary: the gets whose key existed when they began

call == <<req, pc, left, ret, got>>
aux == <<last, contended, seen>>
vars == <<maxRetries, db, call, late, aux>>

Results == {"none", "nil", "NotFound", "InvalidData", "TooManyAttempts", "DeadlineExceeded",
            "StoreError"}

TypeOK ==
  /\ maxRetries \in Retries
  /\ db \in [Keys -> Values \cup {Absent}]
  /\ req \in [Calls -> Requests \cup {Absent}]
  /\ pc \in [Calls -> {"new", "try", "done"}]
  /\ left \in [Calls -> Int]
  /\ \A c \in Calls : maxRetries > 0 => left[c] \in 0 .. maxRetries
  /\ ret \in [Calls -> Results]
  /\ got \in [Calls -> Values \cup {Absent}]
  /\ late \in [Calls -> Nat] /\ seen \subseteq Calls
  /\ last \in [Keys -> Calls \cup {Absent}]
  /\ contended \subseteq Keys

Init ==
  /\ maxRetries \in Retries
  /\ db = [k \in Keys |-> Absent]
  /\ req = [c \in Calls |-> Absent]
  /\ pc = [c \in Calls |-> "new"]
  /\ left = [c \in Calls |-> 0]
  /\ ret = [c \in Calls |-> "none"]
  /\ got = [c \in Calls |-> Absent]
  /\ late = [c \in Calls |-> 0]
  /\ seen = {} /\ contended = {}
  /\ last = [k \in Keys |-> Absent]

-----------------------------------------------------------------------------
KeyOf(c) == Key(req[c].entity)

At(c, op) == pc[c] = "try" /\ req[c].op = op

Return(c, r) == pc' = [pc EXCEPT ![c] = "done"] /\ ret' = [ret EXCEPT ![c] = r]

\* A put is going on for key k, or may still have an effect on it.
Writing(k) ==
  \E d \in Calls : (At(d, "put") \/ late[d] > 0) /\ KeyOf(d) = k

\* PutEvent, AddEventOutcome and PutStateMachine refuse a nil argument.
Start(c, r) ==
  /\ pc[c] = "new"
  /\ req' = [req EXCEPT ![c] = r]
  /\ left' = [left EXCEPT ![c] = maxRetries]
  /\ IF r.op = "put" /\ r.nil THEN Return(c, "InvalidData") /\ UNCHANGED aux
     ELSE /\ pc' = [pc EXCEPT ![c] = "try"]
          /\ LET k == Key(r.entity) IN
             IF r.op = "put"
             THEN /\ last' = [last EXCEPT ![k] = c]
                  /\ contended' = IF Writing(k) THEN contended \cup {k} ELSE contended
                  /\ UNCHANGED seen
             ELSE /\ seen' = IF db[k] # Absent THEN seen \cup {c} ELSE seen
                  /\ UNCHANGED <<last, contended>>
          /\ UNCHANGED ret
  /\ UNCHANGED <<maxRetries, db, got, late>>

\* Mutant: the last attempt starts the count again.
CountDownRestarts(c) ==
  left' = [left EXCEPT ![c] = IF @ = 1 THEN maxRetries ELSE IF @ > - Exhausted THEN @ - 1 ELSE -1]

\* attemptsLeft--
CountDown(c) ==
  left' = [left EXCEPT ![c] = IF @ > - Exhausted THEN @ - 1 ELSE -1]

\* Mutant: the loop ends one attempt later.
TriedOneMore(c, r) == IF left[c] = 0 THEN Return(c, r) ELSE UNCHANGED <<pc, ret>>

\* A timeout: the loop ends when attemptsLeft, already counted, is exactly 0.
Tried(c, r) == IF left'[c] = 0 THEN Return(c, r) ELSE UNCHANGED <<pc, ret>>

(* get                                                                     *)

\* Bytes of another kind of entity are not always refused by Unmarshal.
GetReads(c) ==
  /\ At(c, "get")
  /\ db[KeyOf(c)] # Absent
  /\ CountDown(c)
  /\ \/ Return(c, "nil") /\ got' = [got EXCEPT ![c] = db[KeyOf(c)]]
     \/ /\ db[KeyOf(c)].entity.kind # req[c].entity.kind
        /\ Return(c, "StoreError") /\ UNCHANGED got
  /\ UNCHANGED <<maxRetries, db, req, late, aux>>

GetNotFound(c) ==
  /\ At(c, "get")
  /\ db[KeyOf(c)] = Absent
  /\ CountDown(c)
  /\ Return(c, "NotFound")
  /\ UNCHANGED <<maxRetries, db, req, got, late, aux>>

\* Mutant: a get that gives up reports that there is no such key.
GetTimesOutNotFound(c) ==
  /\ At(c, "get")
  /\ "timeout" \in Faults
  /\ CountDown(c)
  /\ Tried(c, "NotFound")
  /\ UNCHANGED <<maxRetries, db, req, got, late, aux>>

GetTimesOut(c) ==
  /\ At(c, "get")
  /\ "timeout" \in Faults
  /\ CountDown(c)
  /\ Tried(c, "DeadlineExceeded")
  /\ UNCHANGED <<maxRetries, db, req, got, late, aux>>

GetFails(c) ==
  /\ At(c, "get")
  /\ "error" \in Faults
  /\ CountDown(c)
  /\ Return(c, "StoreError")
  /\ UNCHANGED <<maxRetries, db, req, got, late, aux>>

(* put                                                                     *)

Set(c) == db' = [db EXCEPT ![KeyOf(c)] = [entity |-> req[c].entity, by |-> c]]

PutSets(c) ==
  /\ At(c, "put")
  /\ Set(c)
  /\ CountDown(c)
  /\ Return(c, "nil")
  /\ UNCHANGED <<maxRetries, req, got, late, aux>>

\* What becomes of a SET that got no answer.
Unanswered(c) ==
  \/ Set(c) /\ UNCHANGED late
  \/ UNCHANGED <<db, late>>
  \/ late[c] < MaxLate /\ late' = [late EXCEPT ![c] = @ + 1] /\ UNCHANGED db

\* Mutant: a put that gives up reports success.
PutTimesOutForgotten(c) ==
  /\ At(c, "put")
  /\ "timeout" \in Faults
  /\ Unanswered(c)
  /\ CountDown(c)
  /\ Tried(c, "nil")
  /\ UNCHANGED <<maxRetries, req, got, aux>>

PutTimesOut(c) ==
  /\ At(c, "put")
  /\ "timeout" \in Faults
  /\ Unanswered(c)
  /\ CountDown(c)
  /\ Tried(c, "TooManyAttempts")
  /\ UNCHANGED <<maxRetries, req, got, aux>>

PutFails(c) ==
  /\ At(c, "put")
  /\ CountDown(c)
  /\ \/ "error" \in Faults /\ Unanswered(c) /\ Return(c, "StoreError")
     \/ "marshal" \in Faults /\ Return(c, "InvalidData") /\ UNCHANGED <<db, late>>
  /\ UNCHANGED <<maxRetries, req, got, aux>>

\* Redis executes the SET of a call that no longer waits for it.
LateSet(c) ==
  /\ late[c] > 0
  /\ Set(c)
  /\ late' = [late EXCEPT ![c] = @ - 1]
  /\ UNCHANGED <<maxRetries, call, aux>>

Step(c) ==
  \/ GetReads(c) \/ GetNotFound(c) \/ GetTimesOut(c) \/ GetFails(c)
  \/ PutSets(c) \/ PutTimesOut(c) \/ PutFails(c)

Next ==
  \E c \in Calls : Step(c) \/ LateSet(c) \/ \E r \in Requests : Start(c, r)

Spec == Init /\ [][Next]_vars

\* A call that has begun goes on.
FairSpec == Spec /\ \A c \in Calls : WF_vars(Step(c))

-----------------------------------------------------------------------------
Plain(e) ==
  \A n \in {e.cfg, e.id} : \A i \in DOMAIN n : n[i] \notin {":", "#"}

\* What get returns for an entity was put for that entity and for no other,
\* if the names of both are free of the separators of the keys.
ReadsItsOwn ==
  \A c \in Calls : got[c] # Absent /\ Plain(got[c].entity) /\ Plain(req[c].entity) =>
    got[c].entity = req[c].entity

\* The value of a put that returned nil stays, until the next put of that key
\* begins.  Excepted are keys on which puts overlapped: for this a put goes on,
\* even after it has returned an error, until the last of its SETs is executed.
NilMeansStored ==
  \A k \in Keys \ contended : last[k] # Absent /\ ret[last[k]] = "nil" =>
    db[k] # Absent /\ db[k].by = last[k]

\* NotFound is the truth: a key that existed when get was called is found, or the
\* error is another one.  The listener tells FsmNotFound from InternalError
\* by this.
NotFoundIsTrue == \A c \in seen : ret[c] # "NotFound"

\* NewRedisStore: "Some store queries (typically the get and put actions) will
\* be retried up to maxRetries times, if they time out after timeout expires."
\* Every call ends, if maxRetries is positive.  Otherwise attemptsLeft is never 0,
\* and a call may be retried for ever.
CallsEnd == \A c \in Calls : maxRetries > 0 /\ pc[c] = "try" ~> pc[c] = "done"
=============================================================================
