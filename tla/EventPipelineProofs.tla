------------------------ MODULE EventPipelineProofs ------------------------
(***************************************************************************)
(* The safety properties of EventPipeline, for any number of calls,        *)
(* messages, deliveries and restarts, and any failures.                    *)
(***************************************************************************)
EXTENDS EventPipeline, FiniteSetTheorems, TLAPS

-----------------------------------------------------------------------------
(* The inductive invariant                                                 *)

Busy == {"store", "process", "notify", "report"}

\* Which senders the listener has received from, and what they are at.
SenderInv ==
  /\ IsFiniteSet(taken)
  /\ \A g \in Grpc : grpc[g] = "accepted" <=> g \in taken
  /\ \A w \in Workers :
       /\ worker[w] = "new" <=> msg[w] = NoSource
       /\ worker[w] \in {"new", "send"} => w \notin taken /\ removals[w] = 0
       /\ worker[w] = "remove" => w \in taken /\ removals[w] < MessageRemoveRetries
  /\ IF listener.pc \in Busy THEN listener.src \in taken ELSE listener.src = NoSource

\* The request that the listener holds has not moved its machine.
Unmoved ==
  \/ listener.pc \in {"store", "process"}
  \/ /\ listener.pc \in {"notify", "report"} /\ listener.code # "Ok"
     /\ "deadline" \notin Faults

\* What the listener has done for the request that it holds.
ListenInv ==
  /\ listener.pc = "process" => Event \in events
  /\ listener.pc = "notify" => listener.code \in Errors
  /\ listener.pc = "report" =>
       IF listener.code = "Ok" THEN applied[Event] > 0
       ELSE Notifications => <<Event, listener.code>> \in announced
  /\ Unmoved => applied[Event] < Cardinality(Deliveries(Event))

\* Nothing is recorded of an event that was not received, and no outcome of one
\* that was received only now.
RecordInv ==
  /\ \A e \in events : \E x \in taken : EventId(x) = e
  /\ \A e \in EventIds : outcome[e] # "none" => \E x \in taken \ {listener.src} : EventId(x) = e

Safe ==
  /\ OkMeansApplied /\ ErrorsAreAnnounced /\ AppliedIsStored
  /\ AppliedOncePerDelivery /\ DeletedIsTaken

Inv == TypeOK /\ SenderInv /\ ListenInv /\ RecordInv /\ Safe

-----------------------------------------------------------------------------
(* Types and senders                                                       *)

\* The event of a source.
LEMMA EventIdType ==
  ASSUME TypeOK, NEW x \in Sources
  PROVE  EventId(x) \in EventIds
BY DEF EventId, EventIds, Sources

\* The event that the listener holds.
LEMMA EventType ==
  ASSUME TypeOK, SenderInv, listener.pc \in Busy
  PROVE  listener.src \in taken /\ listener.src \in Sources /\ Event \in EventIds
<1>1. listener.src \in taken /\ listener.src \in Sources
  BY DEF SenderInv, TypeOK
<1> QED BY <1>1, EventIdType DEF Event

\* The listener is a record of its three fields.
LEMMA ListenerGoesTo ==
  ASSUME TypeOK, NEW l \in ListenerPc, NEW code \in Errors \cup {"Ok"}, ListenerGoes(l, code)
  PROVE  listener' = [pc |-> l, src |-> listener.src, code |-> code]
BY Zenon DEF TypeOK, ListenerGoes

\* The steps that the listener, its request and what is recorded have no part in.
Quiet ==
  /\ UNCHANGED <<kind, listener, announced, redis, taken>>
  /\ \/ \E g \in Grpc : SendEvent(g) \/ Timeout(g)
     \/ Poll \/ ReceiveEnds \/ \E w \in Workers, m \in Msgs : Receive(w, m)
     \/ \E w \in Workers : DeleteMessage(w) \/ DeleteMessageFails(w)
     \/ \E m \in Msgs : VisibilityTimeout(m)
     \/ Publish
     \/ Stop \/ CloseEvents \/ GracefulStop \/ GracefulStopReturns \/ Restart

\* A step is a quiet one, one of the listener, or the end of the process.
LEMMA NextCases ==
  ASSUME Next
  PROVE  \/ Quiet
         \/ \E x \in Sources : Accept(x)
         \/ PutEvent \/ TxProcessEvent \/ Notify \/ ReportOutcome \/ ListenerExits
         \/ \E how \in {"exited", "panicked", "crashed"} : Ends(how)
<1>1. CASE \E g \in Grpc : SendEvent(g) \/ Timeout(g)
  BY <1>1 DEF Quiet, SendEvent, Timeout, notices, redis
<1>2. CASE Poll \/ ReceiveEnds \/ \E w \in Workers, m \in Msgs : Receive(w, m)
  BY <1>2 DEF Quiet, Poll, ReceiveEnds, Receive, notices, redis
<1>3. CASE \E w \in Workers : DeleteMessage(w) \/ DeleteMessageFails(w)
  BY <1>3 DEF Quiet, DeleteMessage, DeleteMessageFails, notices, redis
<1>4. CASE \E m \in Msgs : VisibilityTimeout(m)
  BY Zenon, <1>4 DEF Quiet, VisibilityTimeout, notices, redis
<1>5. CASE Publish
  BY <1>5 DEF Quiet, Publish, redis
<1>6. CASE Stop \/ CloseEvents \/ GracefulStop \/ GracefulStopReturns
  BY <1>6 DEF Quiet, Stop, CloseEvents, GracefulStop, GracefulStopReturns, MainGoes, notices, redis
<1>7. CASE Restart
  BY <1>7 DEF Quiet, Restart, notices, redis
<1>8. CASE Exit \/ Crash \/ \E x \in Sources : Panic(x)
  BY <1>8 DEF Exit, Crash, Panic
<1>9. CASE ListenerStep \/ \E x \in Sources : Accept(x)
  BY Zenon, <1>9 DEF ListenerStep
<1> QED
  BY Zenon, <1>1, <1>2, <1>3, <1>4, <1>5, <1>6, <1>7, <1>8, <1>9 DEF Next, ServerStep, MainStep

\* A quiet step keeps the types and the senders' invariant.
LEMMA QuietStep ==
  ASSUME TypeOK, SenderInv, Quiet
  PROVE  TypeOK' /\ SenderInv'
<1>1. /\ kind' = kind /\ listener' = listener /\ announced' = announced /\ taken' = taken
      /\ events' = events /\ outcome' = outcome /\ applied' = applied
  BY Zenon DEF Quiet, redis
<1> USE DEF SenderInv, process, sqs, notices
<1>2. CASE \E g \in Grpc : SendEvent(g) \/ Timeout(g)
  <2>1. PICK g \in Grpc : SendEvent(g) \/ Timeout(g)
    BY <1>2
  <2>2. PICK to \in {"refused", "send", "timeout"} : grpc' = [grpc EXCEPT ![g] = to]
    BY <2>1 DEF SendEvent, Timeout
  <2>3. grpc[g] # "accepted"
    BY <2>1 DEF SendEvent, Timeout
  <2>4. /\ main' = main /\ restarts' = restarts /\ queue' = queue /\ sub' = sub
        /\ worker' = worker /\ msg' = msg /\ removals' = removals
        /\ publisher' = publisher /\ posted' = posted
    BY <2>1 DEF SendEvent, Timeout
  <2>5. TypeOK'
    BY <1>1, <2>2, <2>4 DEF TypeOK
  <2>6. SenderInv'
    BY <1>1, <2>2, <2>3, <2>4 DEF TypeOK
  <2> QED BY <2>5, <2>6
<1>3. CASE Poll \/ ReceiveEnds
  <2>1. /\ main' = main /\ restarts' = restarts /\ queue' = queue /\ grpc' = grpc
        /\ worker' = worker /\ msg' = msg /\ removals' = removals
        /\ publisher' = publisher /\ posted' = posted
        /\ sub' \in {"poll", "receive", "exited"}
    BY <1>3 DEF Poll, ReceiveEnds
  <2>2. TypeOK'
    BY Zenon, <1>1, <2>1 DEF TypeOK
  <2> QED BY <1>1, <2>1, <2>2
<1>4. CASE \E w \in Workers, m \in Msgs : Receive(w, m)
  <2>1. PICK w \in Workers, m \in Msgs : Receive(w, m)
    BY Zenon, <1>4
  <2>2. /\ worker[w] = "new" /\ queue' = [queue EXCEPT ![m] = "hidden"]
        /\ msg' = [msg EXCEPT ![w] = m]
        /\ main' = main /\ restarts' = restarts /\ sub' = sub /\ grpc' = grpc
        /\ removals' = removals /\ publisher' = publisher /\ posted' = posted
    BY <2>1 DEF Receive
  <2>3. PICK to \in {"ended", "send"} : worker' = [worker EXCEPT ![w] = to]
    BY Zenon, <2>1 DEF Receive
  <2>4. TypeOK'
    BY <1>1, <2>2, <2>3 DEF TypeOK
  <2>5. m # NoSource
    BY SourcesAssumption
  <2>6. SenderInv'
    BY <1>1, <2>2, <2>3, <2>5 DEF TypeOK
  <2> QED BY <2>4, <2>6
<1>5. CASE \E w \in Workers : DeleteMessage(w)
  <2>1. PICK w \in Workers : DeleteMessage(w)
    BY <1>5
  <2>2. /\ worker[w] = "remove" /\ worker' = [worker EXCEPT ![w] = "ended"]
        /\ queue' = [queue EXCEPT ![msg[w]] = "gone"]
        /\ main' = main /\ restarts' = restarts /\ sub' = sub /\ grpc' = grpc
        /\ msg' = msg /\ removals' = removals /\ publisher' = publisher /\ posted' = posted
    BY Zenon, <2>1 DEF DeleteMessage
  <2>3. TypeOK'
    BY Zenon, <1>1, <2>2 DEF TypeOK
  <2>4. SenderInv'
    BY <1>1, <2>2 DEF TypeOK
  <2> QED BY <2>3, <2>4
<1>6. CASE \E w \in Workers : DeleteMessageFails(w)
  <2>1. PICK w \in Workers : DeleteMessageFails(w)
    BY <1>6
  <2>2. /\ worker[w] = "remove" /\ removals' = [removals EXCEPT ![w] = @ + 1]
        /\ worker' = [worker EXCEPT ![w] = IF removals'[w] = MessageRemoveRetries THEN "ended" ELSE @]
        /\ main' = main /\ restarts' = restarts /\ sub' = sub /\ grpc' = grpc
        /\ queue' = queue /\ msg' = msg /\ publisher' = publisher /\ posted' = posted
    BY <2>1 DEF DeleteMessageFails
  <2>3. removals'[w] = removals[w] + 1 /\ removals[w] < MessageRemoveRetries /\ removals[w] \in Nat
    BY <2>2 DEF TypeOK
  <2>4. removals' \in [Workers -> 0 .. MessageRemoveRetries]
    BY <2>2, <2>3, BoundsAssumption DEF TypeOK
  <2>5. TypeOK'
    BY Zenon, <1>1, <2>2, <2>4 DEF TypeOK
  <2>6. /\ worker'[w] \in {"ended", "remove"} /\ msg[w] # NoSource /\ w \in taken
        /\ worker'[w] = "remove" => removals'[w] < MessageRemoveRetries
    BY <2>2, <2>3, BoundsAssumption DEF TypeOK
  <2>7. \A v \in Workers \ {w} : worker'[v] = worker[v] /\ removals'[v] = removals[v]
    BY <2>2 DEF TypeOK
  <2>8. SenderInv'
    BY <1>1, <2>2, <2>6, <2>7
  <2> QED BY <2>5, <2>8
<1>7. CASE \E m \in Msgs : VisibilityTimeout(m)
  <2>1. PICK m \in Msgs : VisibilityTimeout(m)
    BY <1>7
  <2>2. /\ queue' = [queue EXCEPT ![m] = "visible"]
        /\ main' = main /\ restarts' = restarts /\ sub' = sub /\ grpc' = grpc /\ worker' = worker
        /\ msg' = msg /\ removals' = removals /\ publisher' = publisher /\ posted' = posted
    BY <2>1 DEF VisibilityTimeout
  <2>3. TypeOK'
    BY Zenon, <1>1, <2>2 DEF TypeOK
  <2> QED BY Zenon, <1>1, <2>2, <2>3
<1>8. CASE Publish
  <2>1. /\ main' = main /\ restarts' = restarts /\ sub' = sub /\ grpc' = grpc /\ worker' = worker
        /\ queue' = queue /\ msg' = msg /\ removals' = removals
        /\ publisher # NoSource /\ publisher' = NoSource
        /\ posted' \in {posted, posted \cup {publisher}}
    BY Zenon, <1>8 DEF Publish
  <2>2. TypeOK'
    BY Zenon, <1>1, <2>1 DEF TypeOK
  <2> QED BY Zenon, <1>1, <2>1, <2>2
<1>9. CASE Stop \/ CloseEvents \/ GracefulStop \/ GracefulStopReturns \/ Restart
  <2>1. /\ main' \in {"running", "done", "closed", "graceful", "waiting"}
        /\ restarts' \in {restarts, restarts + 1} /\ (restarts' = restarts \/ restarts < MaxRestarts)
        /\ sub' \in {sub, "poll"} /\ grpc' = grpc /\ worker' = worker
        /\ queue' = queue /\ msg' = msg /\ removals' = removals
        /\ publisher' = publisher /\ posted' = posted
    BY Zenon, <1>9 DEF Stop, CloseEvents, GracefulStop, GracefulStopReturns, MainGoes, Restart
  <2>2. restarts' \in 0 .. MaxRestarts
    BY <2>1, BoundsAssumption DEF TypeOK
  <2>3. TypeOK'
    BY Zenon, <1>1, <2>1, <2>2 DEF TypeOK
  <2> QED BY Zenon, <1>1, <2>1, <2>3
<1> QED
  BY <1>2, <1>3, <1>4, <1>5, <1>6, <1>7, <1>8, <1>9 DEF Quiet

\* What the rendezvous on eventsCh does.
LEMMA AcceptShape ==
  ASSUME TypeOK, SenderInv, NEW x \in Sources, Accept(x)
  PROVE  /\ x \notin taken /\ taken' = taken \cup {x} /\ listener.src = NoSource
         /\ \/ listener' = [pc |-> "store", src |-> x, code |-> "Ok"]
            \/ listener' = [pc |-> PostNotification, src |-> x, code |-> "MissingDestination"]
         /\ UNCHANGED <<kind, process, queue, sub, msg, removals, notices, redis>>
         /\ x \in Workers => msg[x] # NoSource
<1>1. SendersAt(x) /\ listener.pc = "idle"
  BY Zenon DEF Accept, ListenerAt
<1>2. CASE x \in Grpc
  <2>1. x \notin Workers /\ grpc[x] = "send"
    BY Zenon, <1>1, <1>2, SourcesAssumption DEF SendersAt
  <2> QED BY <1>1, <1>2, <2>1 DEF Accept, SenderInv, Busy
<1>3. CASE x \in Workers
  <2>1. x \notin Grpc /\ worker[x] = "send"
    BY <1>1, <1>3, SourcesAssumption DEF SendersAt
  <2> QED BY <1>1, <1>3, <2>1 DEF Accept, SenderInv, Busy
<1> QED BY Zenon, <1>2, <1>3 DEF Sources

\* Accept keeps the types and the senders' invariant.
LEMMA AcceptStep ==
  ASSUME TypeOK, SenderInv, NEW x \in Sources, Accept(x)
  PROVE  TypeOK' /\ SenderInv'
<1>1. /\ x \notin taken /\ taken' = taken \cup {x}
      /\ kind' = kind /\ main' = main /\ restarts' = restarts /\ queue' = queue /\ sub' = sub
      /\ msg' = msg /\ removals' = removals /\ publisher' = publisher /\ posted' = posted
      /\ announced' = announced /\ events' = events /\ outcome' = outcome /\ applied' = applied
  BY AcceptShape DEF process, notices, redis
<1>2. /\ grpc' = IF x \in Grpc THEN [grpc EXCEPT ![x] = "accepted"] ELSE grpc
      /\ worker' = IF x \in Workers THEN [worker EXCEPT ![x] = "remove"] ELSE worker
  BY DEF Accept
<1>3. listener' \in [pc : ListenerPc, src : Sources \cup {NoSource}, code : Errors \cup {"Ok"}]
  BY AcceptShape DEF PostNotification, ListenerPc, Errors
<1>4. listener'.pc \in Busy /\ listener'.src = x
  BY AcceptShape DEF PostNotification, Busy
<1>5. TypeOK'
  BY Zenon, <1>1, <1>2, <1>3 DEF TypeOK
<1>6. IsFiniteSet(taken')
  BY <1>1, FS_AddElement DEF SenderInv
<1>7. \A g \in Grpc : grpc'[g] = "accepted" <=> g \in taken'
  BY <1>1, <1>2 DEF SenderInv, TypeOK
<1>8. x \in Workers => worker[x] = "send" /\ removals[x] = 0 /\ msg[x] # NoSource
  BY Zenon, SourcesAssumption DEF Accept, SendersAt, SenderInv
<1>9. \A w \in Workers :
        /\ worker'[w] = "new" <=> msg'[w] = NoSource
        /\ worker'[w] \in {"new", "send"} => w \notin taken' /\ removals'[w] = 0
        /\ worker'[w] = "remove" => w \in taken' /\ removals'[w] < MessageRemoveRetries
  <2> TAKE w \in Workers
  <2>1. CASE w = x
    BY <1>1, <1>2, <1>8, <2>1, BoundsAssumption DEF TypeOK
  <2>2. CASE w # x
    BY <1>1, <1>2, <2>2 DEF TypeOK, SenderInv
  <2> QED BY <2>1, <2>2
<1>10. SenderInv'
  BY <1>1, <1>4, <1>6, <1>7, <1>9 DEF SenderInv
<1> QED BY Zenon, <1>5, <1>10

\* What a step of the listener does: it works for the same source or is done.
ListenerStays ==
  /\ UNCHANGED <<kind, main, restarts, grpc, queue, sub, worker, msg, removals, posted, taken>>
  /\ listener' \in [pc : ListenerPc, src : Sources \cup {NoSource}, code : Errors \cup {"Ok"}]
  /\ IF listener'.pc \in Busy THEN listener'.src \in taken ELSE listener'.src = NoSource

\* A step of the listener keeps the types and the senders' invariant.
LEMMA ListenerStepStep ==
  ASSUME TypeOK, SenderInv, ListenInv,
         PutEvent \/ TxProcessEvent \/ Notify \/ ReportOutcome \/ ListenerExits
  PROVE  ListenerStays /\ TypeOK' /\ SenderInv'
<1> DEFINE R == [pc : ListenerPc, src : Sources \cup {NoSource}, code : Errors \cup {"Ok"}]
<1>0. listener.src \in Sources \cup {NoSource} /\ listener.code \in Errors \cup {"Ok"}
  BY DEF TypeOK
<1>1. CASE PutEvent
  <2>1. listener.pc \in Busy /\ Event \in EventIds /\ listener.src \in taken
    BY <1>1, EventType DEF PutEvent, ListenerAt, Busy
  <2>2. \E l \in {"process", PostNotification}, c \in {"Ok", "InternalError"} : ListenerGoes(l, c)
    BY <1>1 DEF PutEvent
  <2>3. listener' \in R /\ listener'.src = listener.src /\ listener'.pc \in Busy
    <3>1. PICK l \in {"process", PostNotification}, c \in {"Ok", "InternalError"} : ListenerGoes(l, c)
      BY <2>2
    <3>2. l \in ListenerPc /\ l \in Busy /\ c \in Errors \cup {"Ok"}
      BY DEF PostNotification, ListenerPc, Busy, Errors
    <3> QED BY <1>0, <3>1, <3>2, ListenerGoesTo
  <2>4. ListenerStays
    BY Zenon, <1>1, <2>1, <2>3 DEF PutEvent, ListenerStays, process, sqs, notices
  <2>5. TypeOK'
    BY Zenon, <1>1, <2>1, <2>3 DEF PutEvent, TypeOK, process, sqs, notices
  <2> QED BY <2>4, <2>5 DEF ListenerStays, SenderInv
<1>2. CASE TxProcessEvent
  <2>1. listener.pc \in Busy /\ Event \in EventIds /\ listener.src \in taken
    BY <1>2, EventType DEF TxProcessEvent, ListenerAt, Busy
  <2>2. \E l \in {"report", PostNotification}, c \in {"Ok", "InternalError", "FsmNotFound"} :
          ListenerGoes(l, c)
    BY <1>2 DEF TxProcessEvent
  <2>3. listener' \in R /\ listener'.src = listener.src /\ listener'.pc \in Busy
    <3>1. PICK l \in {"report", PostNotification}, c \in {"Ok", "InternalError", "FsmNotFound"} :
            ListenerGoes(l, c)
      BY <2>2
    <3>2. l \in ListenerPc /\ l \in Busy /\ c \in Errors \cup {"Ok"}
      BY DEF PostNotification, ListenerPc, Busy, Errors
    <3> QED BY <1>0, <3>1, <3>2, ListenerGoesTo
  <2>4. ListenerStays
    BY Zenon, <1>2, <2>1, <2>3 DEF TxProcessEvent, ListenerStays, process, sqs, notices
  <2>5. applied' \in [EventIds -> Nat]
    BY <1>2, <2>1 DEF TxProcessEvent, Apply, TypeOK
  <2>6. TypeOK'
    BY Zenon, <1>2, <2>3, <2>5 DEF TxProcessEvent, TypeOK, process, sqs, notices
  <2> QED BY <2>4, <2>6 DEF ListenerStays, SenderInv
<1>3. CASE Notify
  <2>1. listener.pc \in Busy /\ Event \in EventIds /\ listener.src \in taken
    BY Zenon, <1>3, EventType DEF Notify, ListenerAt, Busy
  <2>2. listener' = [pc |-> "report", src |-> listener.src, code |-> listener.code]
    BY Zenon, <1>0, <1>3, ListenerGoesTo DEF Notify, ListenerPc
  <2>3. listener' \in R /\ listener'.src = listener.src /\ listener'.pc \in Busy
    BY Zenon, <1>0, <2>2 DEF ListenerPc, Busy
  <2>4. ListenerStays
    BY Zenon, <1>3, <2>1, <2>3 DEF Notify, ListenerStays, process, sqs
  <2>5. listener.code \in Errors
    BY Zenon, <1>3 DEF Notify, ListenerAt, ListenInv
  <2>6. publisher' \in Responses /\ announced' \subseteq Responses
    BY <1>3, <2>1, <2>5 DEF Notify, Responses, TypeOK
  <2>7. TypeOK'
    BY Zenon, <1>3, <2>3, <2>6 DEF Notify, TypeOK, process, sqs, redis
  <2> QED BY <2>4, <2>7 DEF ListenerStays, SenderInv
<1>4. CASE ReportOutcome
  <2>1. listener.pc \in Busy /\ Event \in EventIds
    BY Zenon, <1>4, EventType DEF ReportOutcome, ListenerAt, Busy
  <2>2. listener' \in R /\ listener'.pc \notin Busy /\ listener'.src = NoSource
    BY <1>4 DEF ReportOutcome, Idle, ListenerPc, Busy
  <2>3. ListenerStays
    BY Zenon, <1>4, <2>2 DEF ReportOutcome, ListenerStays, process, sqs, notices
  <2>4. outcome' \in [EventIds -> Errors \cup {"none", "Ok"}]
    BY Zenon, <1>0, <1>4, <2>1 DEF ReportOutcome, TypeOK
  <2>5. TypeOK'
    BY Zenon, <1>4, <2>2, <2>4 DEF ReportOutcome, TypeOK, process, sqs, notices
  <2> QED BY <2>3, <2>5 DEF ListenerStays, SenderInv
<1>5. CASE ListenerExits
  <2>1. listener' = [pc |-> "exited", src |-> listener.src, code |-> "Ok"]
    BY Zenon, <1>5, ListenerGoesTo DEF ListenerExits, ListenerPc
  <2>2. listener.src = NoSource
    BY <1>5 DEF ListenerExits, ListenerAt, SenderInv, Busy
  <2>3. listener' \in R /\ listener'.pc \notin Busy /\ listener'.src = NoSource
    BY <2>1, <2>2 DEF ListenerPc, Busy
  <2>4. ListenerStays
    BY Zenon, <1>5, <2>3 DEF ListenerExits, ListenerStays, process, sqs, notices
  <2>5. TypeOK'
    BY <1>5, <2>3 DEF ListenerExits, TypeOK, process, sqs, notices, redis
  <2> QED BY <2>4, <2>5 DEF ListenerStays, SenderInv
<1> QED
  BY <1>1, <1>2, <1>3, <1>4, <1>5

\* The end of the process keeps the types and the senders' invariant.
LEMMA EndsStep ==
  ASSUME TypeOK, SenderInv, NEW how \in {"exited", "panicked", "crashed"}, Ends(how)
  PROVE  TypeOK' /\ SenderInv'
<1>1. /\ main' = how /\ listener' = Idle /\ publisher' = NoSource
      /\ kind' = kind /\ restarts' = restarts /\ queue' = queue /\ sub' = sub /\ msg' = msg
      /\ removals' = removals /\ posted' = posted /\ announced' = announced
      /\ events' = events /\ outcome' = outcome /\ applied' = applied /\ taken' = taken
  BY DEF Ends, redis
<1>2. /\ grpc' = [g \in Grpc |-> IF grpc[g] = "send" THEN "broken" ELSE grpc[g]]
      /\ worker' = [w \in Workers |-> IF worker[w] = "new" THEN "new" ELSE "ended"]
  BY Zenon DEF Ends
<1>3. TypeOK'
  <2>1. Idle \in [pc : ListenerPc, src : Sources \cup {NoSource}, code : Errors \cup {"Ok"}]
    BY DEF Idle, ListenerPc
  <2>2. /\ grpc' \in [Grpc -> {"new", "send", "accepted", "refused", "timeout", "broken"}]
        /\ worker' \in [Workers -> {"new", "send", "remove", "ended"}]
    BY Zenon, <1>2 DEF TypeOK
  <2> QED BY Zenon, <1>1, <2>1, <2>2 DEF TypeOK
<1>4. SenderInv'
  BY <1>1, <1>2 DEF SenderInv, TypeOK, Idle, Busy
<1> QED BY <1>3, <1>4

-----------------------------------------------------------------------------
(* What is recorded                                                        *)

\* The deliveries of an event can be counted.
LEMMA CountDeliveries ==
  ASSUME SenderInv, NEW e
  PROVE  IsFiniteSet(Deliveries(e)) /\ Cardinality(Deliveries(e)) \in Nat
<1>1. Deliveries(e) \subseteq taken /\ IsFiniteSet(taken)
  BY DEF Deliveries, SenderInv
<1> QED BY Zenon, <1>1, FS_Subset, FS_CardinalityType

\* An event that was received from two sources was received more than once.
LEMMA TwoDeliveries ==
  ASSUME SenderInv, NEW x \in taken, NEW y \in taken, x # y, EventId(x) = EventId(y)
  PROVE  /\ Cardinality(Deliveries(EventId(x))) \in Nat
         /\ Cardinality(Deliveries(EventId(x))) > 1
<1> DEFINE D == Deliveries(EventId(x))
<1>1. {x, y} \subseteq D
  BY DEF Deliveries
<1>2. IsFiniteSet(D) /\ Cardinality(D) \in Nat
  BY CountDeliveries
<1>3. Cardinality({x, y}) = 2
  <2>1. IsFiniteSet({x}) /\ Cardinality({x}) = 1
    BY Zenon, FS_Singleton
  <2>2. Cardinality({x} \cup {y}) = Cardinality({x}) + 1
    BY <2>1, FS_AddElement
  <2>3. {x} \cup {y} = {x, y}
    OBVIOUS
  <2> QED BY <2>1, <2>2, <2>3
<1>4. Cardinality({x, y}) <= Cardinality(D)
  BY <1>1, <1>2, FS_Subset
<1> QED BY <1>2, <1>3, <1>4

\* If the messages of the received requests stay and nothing is received, then the
\* deliveries of all events stay the same.
LEMMA DeliveriesStay ==
  ASSUME taken' = taken, \A w \in Workers \cap taken : msg'[w] = msg[w]
  PROVE  /\ \A x \in taken : EventId(x)' = EventId(x)
         /\ \A e : Deliveries(e)' = Deliveries(e)
<1>1. \A x \in taken : EventId(x)' = EventId(x)
  BY DEF EventId
<1>2. \A e : Deliveries(e)' = Deliveries(e)
  BY <1>1 DEF Deliveries
<1> QED BY <1>1, <1>2

\* A quiet step leaves the requests alone that the listener received.
LEMMA QuietKeepsMessages ==
  ASSUME TypeOK, SenderInv, Quiet
  PROVE  \A w \in Workers \cap taken : msg'[w] = msg[w]
<1>1. CASE \E w \in Workers, m \in Msgs : Receive(w, m)
  <2>1. PICK w \in Workers, m \in Msgs : Receive(w, m)
    BY Zenon, <1>1
  <2>2. w \notin taken /\ msg' = [msg EXCEPT ![w] = m]
    BY <2>1 DEF Receive, SenderInv
  <2> QED BY <2>2 DEF TypeOK
<1>2. CASE ~\E w \in Workers, m \in Msgs : Receive(w, m)
  <2>1. msg' = msg
    BY Zenon, <1>2 
       DEF Quiet, SendEvent, Timeout, Poll, ReceiveEnds, DeleteMessage, DeleteMessageFails,
                VisibilityTimeout, Publish, Stop, CloseEvents, GracefulStop,
                GracefulStopReturns, MainGoes, Restart, sqs
  <2> QED BY <2>1
<1> QED BY Zenon, <1>1, <1>2

\* A quiet step keeps the rest of the invariant.
LEMMA QuietRecords ==
  ASSUME Inv, Quiet
  PROVE  (ListenInv /\ RecordInv /\ Safe)'
<1>1. TypeOK /\ SenderInv /\ ListenInv /\ RecordInv /\ Safe
  BY DEF Inv
<1>2. /\ listener' = listener /\ announced' = announced /\ taken' = taken
      /\ events' = events /\ outcome' = outcome /\ applied' = applied
  BY DEF Quiet, redis
<1>3. \A w \in Workers \cap taken : msg'[w] = msg[w]
  BY Zenon, <1>1, QuietKeepsMessages
<1>4. \A m \in Msgs : queue'[m] = "gone" =>
        queue[m] = "gone" \/ \E w \in taken \cap Workers : msg[w] = m
  <2>1. CASE \E w \in Workers : DeleteMessage(w)
    <3>1. PICK w \in Workers : DeleteMessage(w)
      BY Zenon, <2>1
    <3>2. w \in taken /\ queue' = [queue EXCEPT ![msg[w]] = "gone"]
      BY Zenon, <1>1, <3>1 DEF DeleteMessage, SenderInv
    <3> QED BY <1>1, <3>2 DEF TypeOK
  <2>2. CASE \E w \in Workers, m \in Msgs : Receive(w, m)
    BY <1>1, <2>2 DEF Receive, TypeOK
  <2>3. CASE \E m \in Msgs : VisibilityTimeout(m)
    BY <1>1, <2>3 DEF VisibilityTimeout, TypeOK
  <2>4. CASE /\ ~\E w \in Workers : DeleteMessage(w)
             /\ ~\E w \in Workers, m \in Msgs : Receive(w, m)
             /\ ~\E m \in Msgs : VisibilityTimeout(m)
    <3>1. queue' = queue
      BY Zenon, <2>4
         DEF Quiet, SendEvent, Timeout, Poll, ReceiveEnds, DeleteMessageFails, Publish, Stop,
                  CloseEvents, GracefulStop, GracefulStopReturns, MainGoes, Restart, sqs
    <3> QED BY Zenon, <3>1
  <2> QED BY Zenon, <2>1, <2>2, <2>3, <2>4
<1>5. /\ \A x \in taken : EventId(x)' = EventId(x)
      /\ \A e : Deliveries(e)' = Deliveries(e)
  BY <1>2, <1>3, DeliveriesStay
<1>6. ListenInv'
  <2>1. CASE listener.pc \in Busy
    <3>1. Event' = Event
      BY <1>1, <1>2, <1>5, <2>1 DEF Event, SenderInv
    <3>2. Deliveries(Event)' = Deliveries(Event)
      BY <1>5, <3>1
    <3> QED BY Zenon, <1>1, <1>2, <3>1, <3>2 DEF ListenInv, Unmoved
  <2>2. CASE listener.pc \notin Busy
    BY <1>2, <2>2 DEF ListenInv, Unmoved, Busy
  <2> QED BY <2>1, <2>2
<1>7. RecordInv'
  BY Zenon, <1>1, <1>2, <1>5 DEF RecordInv
<1>8. (OkMeansApplied /\ ErrorsAreAnnounced /\ AppliedIsStored)'
  BY <1>1, <1>2 DEF Safe, OkMeansApplied, ErrorsAreAnnounced, AppliedIsStored
<1>9. AppliedOncePerDelivery'
  BY Zenon, <1>1, <1>2, <1>5 DEF Safe, AppliedOncePerDelivery
<1>10. DeletedIsTaken'
  BY <1>1, <1>2, <1>3, <1>4 DEF Safe, DeletedIsTaken
<1> QED BY <1>6, <1>7, <1>8, <1>9, <1>10 DEF Safe

\* Accept is one more delivery of the event that it hands over.
LEMMA AcceptDeliveries ==
  ASSUME TypeOK, SenderInv, NEW x \in Sources, Accept(x)
  PROVE  /\ \A e : Deliveries(e)' = IF EventId(x) = e THEN Deliveries(e) \cup {x}
                                   ELSE Deliveries(e)
         /\ Cardinality(Deliveries(EventId(x)) \cup {x}) = Cardinality(Deliveries(EventId(x))) + 1
<1>1. x \notin taken /\ taken' = taken \cup {x} /\ msg' = msg
  BY Zenon, AcceptShape
<1>2. \A y : EventId(y)' = EventId(y)
  BY <1>1 DEF EventId
<1>3. \A e : Deliveries(e)' = IF EventId(x) = e THEN Deliveries(e) \cup {x} ELSE Deliveries(e)
  BY <1>1, <1>2 DEF Deliveries
<1>4. x \notin Deliveries(EventId(x))
  BY <1>1 DEF Deliveries
<1> QED BY Zenon, <1>3, <1>4, CountDeliveries, FS_AddElement

\* Accept keeps the rest of the invariant: the request it hands over is one more
\* delivery.
LEMMA AcceptRecords ==
  ASSUME Inv, NEW x \in Sources, Accept(x)
  PROVE  (ListenInv /\ RecordInv /\ Safe)'
<1>1. TypeOK /\ SenderInv /\ ListenInv /\ RecordInv /\ Safe
  BY Zenon DEF Inv
<1>2. /\ x \notin taken /\ taken' = taken \cup {x} /\ listener'.src = x
      /\ msg' = msg /\ queue' = queue /\ announced' = announced
      /\ events' = events /\ outcome' = outcome /\ applied' = applied
  BY <1>1, AcceptShape DEF notices, redis
<1>3. \/ listener'.pc = "store"
      \/ listener'.pc = "notify" /\ listener'.code \in Errors
      \/ listener'.pc = "report" /\ listener'.code # "Ok" /\ ~Notifications
  BY <1>1, AcceptShape DEF PostNotification, Errors
<1>4. \A y : EventId(y)' = EventId(y)
  BY Zenon, <1>2 DEF EventId
<1>5. Event' = EventId(x) /\ EventId(x) \in EventIds
  BY <1>1, <1>2, <1>4, EventIdType DEF Event
<1>6. \A e : Deliveries(e)' = IF EventId(x) = e THEN Deliveries(e) \cup {x} ELSE Deliveries(e)
  BY Zenon, <1>1, AcceptDeliveries
<1>7. Cardinality(Deliveries(EventId(x)) \cup {x}) = Cardinality(Deliveries(EventId(x))) + 1
  BY Zenon, <1>1, AcceptDeliveries
<1>8. \A e \in EventIds : applied[e] \in Nat /\ applied[e] <= Cardinality(Deliveries(e))
                          /\ Cardinality(Deliveries(e)) \in Nat
  BY Zenon, <1>1, CountDeliveries DEF Safe, AppliedOncePerDelivery, TypeOK
<1>9. applied[EventId(x)] < Cardinality(Deliveries(EventId(x)))'
  <2>1. Deliveries(EventId(x))' = Deliveries(EventId(x)) \cup {x}
    BY Zenon, <1>4, <1>6
  <2> QED BY <1>5, <1>7, <1>8, <2>1
<1>10. ListenInv'
  <2>1. Cardinality(Deliveries(Event))' = Cardinality(Deliveries(EventId(x)))'
    BY <1>4, <1>5
  <2>2. applied'[Event'] < Cardinality(Deliveries(Event))'
    BY Zenon, <1>2, <1>5, <1>9, <2>1
  <2> QED BY Zenon, <1>3, <2>2 DEF ListenInv
<1>11. RecordInv'
  BY Zenon, <1>1, <1>2, <1>4 DEF RecordInv
<1>12. (OkMeansApplied /\ ErrorsAreAnnounced /\ AppliedIsStored)'
  BY <1>1, <1>2 DEF Safe, OkMeansApplied, ErrorsAreAnnounced, AppliedIsStored
<1>13. AppliedOncePerDelivery'
  <2> SUFFICES ASSUME NEW e \in EventIds PROVE applied[e] <= Cardinality(Deliveries(e)')
    BY <1>2 DEF AppliedOncePerDelivery
  <2>1. CASE EventId(x) = e
    <3>1. Deliveries(e)' = Deliveries(e) \cup {x}
      BY <1>6, <2>1
    <3> QED BY <1>7, <1>8, <2>1, <3>1
  <2>2. CASE EventId(x) # e
    <3>1. Deliveries(e)' = Deliveries(e)
      BY Zenon, <1>6, <2>2
    <3> QED BY <1>8, <3>1
  <2> QED BY <2>1, <2>2
<1>14. DeletedIsTaken'
  BY Zenon, <1>1, <1>2 DEF Safe, DeletedIsTaken
<1> QED BY Zenon, <1>10, <1>11, <1>12, <1>13, <1>14 DEF Safe

\* A step of the listener keeps the rest of the invariant.
LEMMA ListenerRecords ==
  ASSUME Inv, PutEvent \/ TxProcessEvent \/ Notify \/ ReportOutcome \/ ListenerExits
  PROVE  (ListenInv /\ RecordInv /\ Safe)'
<1>1. TypeOK /\ SenderInv /\ ListenInv /\ RecordInv /\ Safe
  BY DEF Inv
<1>2. msg' = msg /\ queue' = queue /\ taken' = taken
  BY Zenon, <1>1, ListenerStepStep DEF ListenerStays
<1>3. /\ \A x : EventId(x)' = EventId(x)
      /\ \A e : Deliveries(e)' = Deliveries(e)
  BY <1>2 DEF EventId, Deliveries
<1>4. DeletedIsTaken'
  BY <1>1, <1>2 DEF Safe, DeletedIsTaken
<1>5. /\ OkMeansApplied /\ ErrorsAreAnnounced /\ AppliedIsStored /\ AppliedOncePerDelivery
  BY Zenon, <1>1 DEF Safe
<1>6. ASSUME listener'.src = listener.src
      PROVE  Event' = Event /\ Deliveries(Event)' = Deliveries(Event)
  BY Zenon, <1>3, <1>6 DEF Event
<1>7. listener.code \in Errors \cup {"Ok"} /\ "Ok" \notin Errors /\ "none" \notin Errors
  BY <1>1 DEF TypeOK, Errors
<1>8. CASE PutEvent
  <2>1. /\ listener.pc = "store" /\ listener.src \in taken /\ Event \in EventIds
        /\ outcome' = outcome /\ applied' = applied /\ announced' = announced
    BY Zenon, <1>1, <1>8, EventType DEF PutEvent, ListenerAt, Busy, notices
  <2>2. /\ events \subseteq events' /\ events' \subseteq events \cup {Event}
        /\ listener'.src = listener.src
        /\ \/ listener'.pc = "process" /\ Event \in events'
           \/ listener'.pc = PostNotification /\ listener'.code = "InternalError"
    <3>1. "process" \in ListenerPc /\ PostNotification \in ListenerPc /\ "InternalError" \in Errors
      BY DEF ListenerPc, PostNotification, Errors
    <3>2. CASE events' = events \cup {Event} /\ ListenerGoes("process", "Ok")
      BY <1>1, <3>1, <3>2, ListenerGoesTo
    <3>3. CASE /\ events' \in {events, events \cup {Event}}
               /\ ListenerGoes(PostNotification, "InternalError")
      BY <1>1, <3>1, <3>3, ListenerGoesTo
    <3> QED BY Zenon, <1>8, <3>2, <3>3 DEF PutEvent
  <2>3. ListenInv'
    BY Zenon, <1>1, <1>6, <2>1, <2>2 DEF ListenInv, Unmoved, PostNotification, Errors
  <2>4. RecordInv'
    <3>1. EventId(listener.src) = Event
      BY Zenon DEF Event
    <3> QED BY Zenon, <1>1, <1>2, <1>3, <2>1, <2>2, <3>1 DEF RecordInv
  <2>5. (OkMeansApplied /\ ErrorsAreAnnounced /\ AppliedIsStored)'
    BY Zenon, <1>5, <2>1, <2>2 DEF OkMeansApplied, ErrorsAreAnnounced, AppliedIsStored
  <2>6. AppliedOncePerDelivery'
    BY <1>3, <1>5, <2>1 DEF AppliedOncePerDelivery
  <2> QED BY Zenon, <1>4, <2>3, <2>4, <2>5, <2>6 DEF Safe
<1>9. CASE TxProcessEvent
  <2>1. /\ listener.pc = "process" /\ listener.src \in taken /\ Event \in EventIds
        /\ outcome' = outcome /\ events' = events /\ announced' = announced
        /\ applied[Event] < Cardinality(Deliveries(Event)) /\ Event \in events
    BY <1>1, <1>9, EventType DEF TxProcessEvent, ListenerAt, Busy, notices, ListenInv, Unmoved
  <2>2. /\ listener'.src = listener.src
        /\ \/ Apply /\ listener'.pc = "report" /\ listener'.code = "Ok"
           \/ /\ UNCHANGED applied \/ ("deadline" \in Faults /\ Apply)
              /\ listener'.pc = PostNotification /\ listener'.code \in Errors
    <3>1. /\ "report" \in ListenerPc /\ PostNotification \in ListenerPc
          /\ "InternalError" \in Errors /\ "FsmNotFound" \in Errors
      BY Zenon DEF ListenerPc, PostNotification, Errors
    <3>2. CASE Apply /\ ListenerGoes("report", "Ok")
      BY <1>1, <3>1, <3>2, ListenerGoesTo
    <3>3. CASE /\ UNCHANGED applied \/ ("deadline" \in Faults /\ Apply)
               /\ \E code \in {"FsmNotFound", "InternalError"} : ListenerGoes(PostNotification, code)
      BY <1>1, <3>1, <3>3, ListenerGoesTo
    <3> QED BY Zenon, <1>9, <3>2, <3>3 DEF TxProcessEvent
  <2>3. \A e \in EventIds : /\ applied[e] \in Nat /\ applied'[e] \in Nat
                            /\ applied'[e] = applied[e] \/ (e = Event /\ applied'[e] = applied[e] + 1)
    BY <1>1, <2>1, <2>2 DEF Apply, TypeOK
  <2>4. Apply => applied'[Event] > 0
    BY <1>1, <2>1 DEF Apply, TypeOK
  <2>5. ListenInv'
    BY Zenon, <1>6, <1>7, <2>1, <2>2, <2>4 DEF ListenInv, Unmoved, PostNotification
  <2>6. RecordInv'
    BY Zenon, <1>1, <1>2, <1>3, <2>1, <2>2 DEF RecordInv
  <2>7. (OkMeansApplied /\ ErrorsAreAnnounced)'
    BY <1>5, <2>1, <2>3 DEF OkMeansApplied, ErrorsAreAnnounced
  <2>8. AppliedIsStored'
    BY Zenon, <1>5, <2>1, <2>3 DEF AppliedIsStored
  <2>9. AppliedOncePerDelivery'
    <3> SUFFICES ASSUME NEW e \in EventIds PROVE applied'[e] <= Cardinality(Deliveries(e)')
      BY DEF AppliedOncePerDelivery
    <3>1. Deliveries(e)' = Deliveries(e) /\ Cardinality(Deliveries(e)) \in Nat
      BY Zenon, <1>1, <1>3, CountDeliveries
    <3>2. CASE applied'[e] = applied[e]
      BY Zenon, <1>5, <3>1, <3>2 DEF AppliedOncePerDelivery
    <3>3. CASE e = Event /\ applied'[e] = applied[e] + 1
      BY <2>1, <2>3, <3>1, <3>3
    <3> QED BY Zenon, <2>3, <3>2, <3>3
  <2> QED BY Zenon, <1>4, <2>5, <2>6, <2>7, <2>8, <2>9 DEF Safe
<1>10. CASE Notify
  <2>1. /\ listener.pc = "notify" /\ listener.src \in taken /\ Event \in EventIds
        /\ listener.code \in Errors
        /\ outcome' = outcome /\ events' = events /\ applied' = applied
        /\ announced' = announced \cup {<<Event, listener.code>>}
    BY Zenon, <1>1, <1>10, EventType DEF Notify, ListenerAt, Busy, redis, ListenInv
  <2>2. listener'.pc = "report" /\ listener'.src = listener.src /\ listener'.code = listener.code
    <3>1. "report" \in ListenerPc /\ ListenerGoes("report", listener.code)
      BY Zenon, <1>10 DEF ListenerPc, Notify
    <3> QED BY <1>1, <1>7, <3>1, ListenerGoesTo
  <2>3. ListenInv'
    BY Zenon, <1>1, <1>6, <1>7, <2>1, <2>2 DEF ListenInv, Unmoved
  <2>4. RecordInv'
    BY Zenon, <1>1, <1>2, <1>3, <2>1, <2>2 DEF RecordInv
  <2>5. (OkMeansApplied /\ ErrorsAreAnnounced /\ AppliedIsStored)'
    BY Zenon, <1>5, <2>1 DEF OkMeansApplied, ErrorsAreAnnounced, AppliedIsStored
  <2>6. AppliedOncePerDelivery'
    BY <1>3, <1>5, <2>1 DEF AppliedOncePerDelivery
  <2> QED BY <1>4, <2>3, <2>4, <2>5, <2>6 DEF Safe
<1>11. CASE ReportOutcome
  <2>1. /\ listener.pc = "report" /\ listener.src \in taken /\ listener.src \in Sources
        /\ Event \in EventIds
        /\ events' = events /\ applied' = applied /\ announced' = announced /\ listener' = Idle
    BY Zenon, <1>1, <1>11, EventType DEF ReportOutcome, ListenerAt, Busy, notices
  <2>2. \A e \in EventIds : outcome'[e] = outcome[e] \/ (e = Event /\ outcome'[e] = listener.code)
    BY <1>1, <1>11, <2>1 DEF ReportOutcome, TypeOK
  <2>3. IF listener.code = "Ok" THEN applied[Event] > 0
        ELSE Notifications => <<Event, listener.code>> \in announced
    BY Zenon, <1>1, <2>1 DEF ListenInv
  <2>4. ListenInv'
    BY <2>1 DEF ListenInv, Unmoved, Idle
  <2>5. RecordInv'
    <3>1. NoSource \notin taken /\ listener'.src = NoSource /\ EventId(listener.src) = Event
      BY Zenon, <1>1, <2>1, SourcesAssumption DEF TypeOK, Idle, Event
    <3>2. \A e \in events' : \E x \in taken' : EventId(x)' = e
      BY <1>1, <1>2, <1>3, <2>1 DEF RecordInv
    <3>3. ASSUME NEW e \in EventIds, outcome'[e] # "none"
          PROVE  \E x \in taken' \ {listener'.src} : EventId(x)' = e
      <4>1. CASE e = Event
        BY Zenon, <1>2, <1>3, <2>1, <3>1, <4>1
      <4>2. CASE e # Event
        BY Zenon, <1>1, <1>2, <1>3, <2>2, <3>1, <3>3, <4>2 DEF RecordInv
      <4> QED BY Zenon, <4>1, <4>2
    <3> QED BY Zenon, <3>2, <3>3 DEF RecordInv
  <2>6. OkMeansApplied'
    BY Zenon, <1>5, <2>1, <2>2, <2>3 DEF OkMeansApplied
  <2>7. ErrorsAreAnnounced'
    BY Zenon, <1>5, <1>7, <2>1, <2>2, <2>3 DEF ErrorsAreAnnounced
  <2>8. AppliedIsStored'
    BY <1>5, <2>1 DEF AppliedIsStored
  <2>9. AppliedOncePerDelivery'
    BY Zenon, <1>3, <1>5, <2>1 DEF AppliedOncePerDelivery
  <2> QED BY Zenon, <1>4, <2>4, <2>5, <2>6, <2>7, <2>8, <2>9 DEF Safe
<1>12. CASE ListenerExits
  <2>1. /\ events' = events /\ applied' = applied /\ outcome' = outcome /\ announced' = announced
    BY <1>12 DEF ListenerExits, redis, notices
  <2>2. listener'.pc = "exited" /\ listener'.src = listener.src
    <3>1. "exited" \in ListenerPc /\ ListenerGoes("exited", "Ok")
      BY <1>12 DEF ListenerPc, ListenerExits
    <3> QED BY <1>1, <3>1, ListenerGoesTo
  <2>3. ListenInv'
    BY Zenon, <2>2 DEF ListenInv, Unmoved
  <2>4. RecordInv'
    BY Zenon, <1>1, <1>2, <1>3, <2>1, <2>2 DEF RecordInv
  <2>5. (OkMeansApplied /\ ErrorsAreAnnounced /\ AppliedIsStored)'
    BY Zenon, <1>5, <2>1 DEF OkMeansApplied, ErrorsAreAnnounced, AppliedIsStored
  <2>6. AppliedOncePerDelivery'
    BY Zenon, <1>3, <1>5, <2>1 DEF AppliedOncePerDelivery
  <2> QED BY <1>4, <2>3, <2>4, <2>5, <2>6 DEF Safe
<1> QED
  BY Zenon, <1>8, <1>9, <1>10, <1>11, <1>12

\* The end of the process keeps the rest of the invariant: a request that the
\* listener held is lost, and what was recorded stays.
LEMMA EndsRecords ==
  ASSUME Inv, NEW how \in {"exited", "panicked", "crashed"}, Ends(how)
  PROVE  (ListenInv /\ RecordInv /\ Safe)'
<1>1. TypeOK /\ SenderInv /\ ListenInv /\ RecordInv /\ Safe
  BY Zenon DEF Inv
<1>2. /\ listener' = Idle /\ msg' = msg /\ queue' = queue /\ taken' = taken
      /\ events' = events /\ outcome' = outcome /\ applied' = applied /\ announced' = announced
  BY DEF Ends, redis
<1>3. /\ \A x : EventId(x)' = EventId(x)
      /\ \A e : Deliveries(e)' = Deliveries(e)
  BY Zenon, <1>2 DEF EventId, Deliveries
<1>4. ListenInv'
  BY Zenon, <1>2 DEF ListenInv, Unmoved, Idle
<1>5. RecordInv'
  <2>1. NoSource \notin taken /\ listener'.src = NoSource
    BY Zenon, <1>1, <1>2, SourcesAssumption DEF TypeOK, Idle
  <2> QED BY Zenon, <1>1, <1>2, <1>3, <2>1 DEF RecordInv
<1>6. (OkMeansApplied /\ ErrorsAreAnnounced /\ AppliedIsStored /\ DeletedIsTaken)'
  BY Zenon, <1>1, <1>2 DEF Safe, OkMeansApplied, ErrorsAreAnnounced, AppliedIsStored, DeletedIsTaken
<1>7. AppliedOncePerDelivery'
  BY <1>1, <1>2, <1>3 DEF Safe, AppliedOncePerDelivery
<1> QED BY Zenon, <1>4, <1>5, <1>6, <1>7 DEF Safe

-----------------------------------------------------------------------------
(* The theorems about the server                                           *)

\* The initial states.
LEMMA InitInv == Init => Inv
<1> SUFFICES ASSUME Init PROVE Inv
  OBVIOUS
<1>1. TypeOK
  BY BoundsAssumption DEF Init, TypeOK, Idle, ListenerPc
<1>2. SenderInv
  BY Zenon, FS_EmptySet DEF Init, SenderInv, Idle, Busy
<1>3. ListenInv /\ RecordInv
  BY Zenon DEF Init, ListenInv, Unmoved, RecordInv, Idle
<1>4. AppliedOncePerDelivery
  BY <1>2, CountDeliveries DEF Init, AppliedOncePerDelivery
<1>5. OkMeansApplied /\ ErrorsAreAnnounced /\ AppliedIsStored /\ DeletedIsTaken
  BY DEF Init, OkMeansApplied, ErrorsAreAnnounced, AppliedIsStored, DeletedIsTaken, Errors
<1> QED BY <1>1, <1>2, <1>3, <1>4, <1>5 DEF Inv, Safe

\* A stuttering step keeps the invariant.
LEMMA StutterInv ==
  ASSUME Inv, UNCHANGED vars
  PROVE  Inv'
<1>1. /\ kind' = kind /\ main' = main /\ restarts' = restarts /\ grpc' = grpc /\ queue' = queue
      /\ sub' = sub /\ worker' = worker /\ msg' = msg /\ removals' = removals
      /\ listener' = listener /\ publisher' = publisher /\ posted' = posted
      /\ announced' = announced /\ events' = events /\ outcome' = outcome
      /\ applied' = applied /\ taken' = taken
  BY Zenon DEF vars, process, sqs, notices, redis
<1>2. TypeOK' /\ SenderInv'
  BY <1>1 DEF Inv, TypeOK, SenderInv
<1>3. ListenInv'
  BY <1>1 DEF Inv, ListenInv, Unmoved, Event, EventId, Deliveries
<1>4. RecordInv'
  BY Zenon, <1>1 DEF Inv, RecordInv, EventId
<1>5. AppliedOncePerDelivery'
  BY Zenon, <1>1 DEF Inv, Safe, AppliedOncePerDelivery, Deliveries, EventId
<1>6. OkMeansApplied' /\ AppliedIsStored'
  BY <1>1 DEF Inv, Safe, OkMeansApplied, AppliedIsStored
<1>7. ErrorsAreAnnounced' /\ DeletedIsTaken'
  BY <1>1 DEF Inv, Safe, ErrorsAreAnnounced, DeletedIsTaken
<1> QED BY Zenon, <1>2, <1>3, <1>4, <1>5, <1>6, <1>7 DEF Inv, Safe

\* Every step keeps the invariant.
LEMMA NextInv == Inv /\ [Next]_vars => Inv'
<1> SUFFICES ASSUME Inv, [Next]_vars PROVE Inv'
  OBVIOUS
<1>1. TypeOK /\ SenderInv /\ ListenInv
  BY DEF Inv
<1>2. CASE Quiet
  BY Zenon, <1>1, <1>2, QuietStep, QuietRecords DEF Inv
<1>3. CASE \E x \in Sources : Accept(x)
  BY Zenon, <1>1, <1>3, AcceptStep, AcceptRecords DEF Inv
<1>4. CASE PutEvent \/ TxProcessEvent \/ Notify \/ ReportOutcome \/ ListenerExits
  BY Zenon, <1>1, <1>4, ListenerStepStep, ListenerRecords DEF Inv
<1>5. CASE \E how \in {"exited", "panicked", "crashed"} : Ends(how)
  BY <1>1, <1>5, EndsStep, EndsRecords DEF Inv
<1>6. CASE UNCHANGED vars
  BY <1>6, StutterInv
<1> QED
  BY Zenon, <1>2, <1>3, <1>4, <1>5, <1>6, NextCases

\* The invariant holds in every state.
LEMMA InvHolds == Spec => []Inv
BY InitInv, NextInv, PTL DEF Spec

\* A gRPC call is its own event, and no message is.
LEMMA CallIsEvent ==
  ASSUME TypeOK, NEW g \in Grpc, NEW x \in taken
  PROVE  g \in EventIds /\ (EventId(x) = g <=> x = g)
BY SourcesAssumption DEF TypeOK, EventId, EventIds, Sources

\* What was not received left no trace.
LEMMA UntakenIsUnprocessed ==
  ASSUME Inv, NEW g \in Grpc, g \notin taken
  PROVE  applied[g] = 0 /\ outcome[g] = "none" /\ g \notin events
<1>1. TypeOK /\ RecordInv /\ AppliedIsStored
  BY DEF Inv, Safe
<1>2. g \in EventIds
  BY DEF EventIds
<1>3. ~\E x \in taken : EventId(x) = g
  BY <1>1, CallIsEvent
<1>4. g \notin events /\ outcome[g] = "none"
  BY Zenon, <1>1, <1>2, <1>3 DEF RecordInv
<1>5. applied[g] \in Nat /\ ~(applied[g] > 0)
  BY <1>1, <1>2, <1>4 DEF TypeOK, AppliedIsStored
<1> QED BY <1>4, <1>5

\* The server keeps to its types: no goroutine deletes a message more often than
\* messageRemoveRetries allows.
THEOREM TypeCorrect == Spec => []TypeOK
<1>1. Inv => TypeOK
  BY DEF Inv
<1> QED BY <1>1, InvHolds, PTL

\* The listener stores the outcome Ok only for events that moved their machine,
\* whatever fails and whenever the server ends.
THEOREM OkIsApplied == Spec => []OkMeansApplied
<1>1. Inv => OkMeansApplied
  BY DEF Inv, Safe
<1> QED BY <1>1, InvHolds, PTL

\* PostNotificationAndReportOutcome announces every error before it stores it.
THEOREM StoredErrorsAreAnnounced == Spec => []ErrorsAreAnnounced
<1>1. Inv => ErrorsAreAnnounced
  BY DEF Inv, Safe
<1> QED BY <1>1, InvHolds, PTL

\* The listener stores an event before it has the store process it.
THEOREM AppliedStaysStored == Spec => []AppliedIsStored
<1>1. Inv => AppliedIsStored
  BY DEF Inv, Safe
<1> QED BY <1>1, InvHolds, PTL

\* No event is applied more often than the listener received it.
THEOREM AppliedAtMostOncePerDelivery == Spec => []AppliedOncePerDelivery
<1>1. Inv => AppliedOncePerDelivery
  BY Zenon DEF Inv, Safe
<1> QED BY <1>1, InvHolds, PTL

\* An event that SendEvent reports as not posted is never processed.
THEOREM UnpostedStaysUnprocessed == Spec => []UnpostedIsUnprocessed
<1>1. Inv => UnpostedIsUnprocessed
  <2> SUFFICES ASSUME Inv, NEW g \in Grpc, grpc[g] \in {"timeout", "refused"}
               PROVE  applied[g] = 0 /\ outcome[g] = "none" /\ g \notin events
    BY Zenon DEF UnpostedIsUnprocessed
  <2>1. g \notin taken
    BY DEF Inv, SenderInv
  <2> QED BY Zenon, <2>1, UntakenIsUnprocessed
<1> QED BY <1>1, InvHolds, PTL

\* ProcessMessage deletes only messages that the listener received.
THEOREM DeletedWasTaken == Spec => []DeletedIsTaken
<1>1. Inv => DeletedIsTaken
  BY Zenon DEF Inv, Safe
<1> QED BY <1>1, InvHolds, PTL

\* An outcome changes only when an event is received that was received before.
LEMMA OutcomeStays ==
  ASSUME Inv, [Next]_vars, NEW e \in EventIds, outcome[e] # "none", outcome'[e] # outcome[e]
  PROVE  \E x \in taken, y \in taken : x # y /\ EventId(x) = e /\ EventId(y) = e
<1>1. TypeOK /\ SenderInv /\ RecordInv
  BY DEF Inv
<1>2. ReportOutcome
  <2>1. ~(UNCHANGED vars) /\ ~Quiet /\ ~(\E how \in {"exited", "panicked", "crashed"} : Ends(how))
    BY Zenon DEF vars, Quiet, Ends, redis
  <2>2. ~(\E x \in Sources : Accept(x)) /\ ~PutEvent /\ ~TxProcessEvent /\ ~Notify /\ ~ListenerExits
    BY Zenon DEF Accept, PutEvent, TxProcessEvent, Notify, ListenerExits, redis
  <2> QED BY Zenon, <2>1, <2>2, NextCases
<1>3. listener.src \in taken /\ Event \in EventIds
  BY Zenon, <1>1, <1>2, EventType DEF ReportOutcome, ListenerAt, Busy
<1>4. Event = e
  BY Zenon, <1>1, <1>2, <1>3 DEF ReportOutcome, TypeOK
<1>5. PICK x \in taken \ {listener.src} : EventId(x) = e
  BY <1>1 DEF RecordInv
<1> QED BY Zenon, <1>3, <1>4, <1>5 DEF Event

\* The outcome Ok is replaced only for an event that was delivered twice.
THEOREM OkIsNotReplaced == Spec => OkStaysOk
<1>1. ASSUME Inv, [Next]_vars, NEW e \in EventIds, outcome[e] = "Ok",
             Cardinality(Deliveries(e)) <= 1
      PROVE  outcome'[e] = "Ok"
  <2> SUFFICES ASSUME outcome'[e] # outcome[e] PROVE FALSE
    BY Zenon, <1>1
  <2>1. PICK x \in taken, y \in taken : x # y /\ EventId(x) = e /\ EventId(y) = e
    BY Zenon, <1>1, OutcomeStays
  <2>2. Cardinality(Deliveries(e)) \in Nat /\ Cardinality(Deliveries(e)) > 1
    BY Zenon, <1>1, <2>1, TwoDeliveries DEF Inv
  <2> QED BY <1>1, <2>2
<1>2. Inv /\ [Next]_vars =>
        [\A e \in EventIds :
           outcome[e] = "Ok" /\ Cardinality(Deliveries(e)) <= 1 => outcome'[e] = "Ok"]_vars
  BY Zenon, <1>1
<1> QED BY <1>2, InvHolds, PTL DEF Spec, OkStaysOk

-----------------------------------------------------------------------------
(* The ledger                                                              *)

\* The event that the listener holds is open: if it has an outcome already, then
\* that of another delivery.
LEMMA EventIsOpen ==
  ASSUME Inv, listener.pc \in Busy
  PROVE  /\ Event \in EventIds
         /\ Cardinality(Deliveries(Event)) \in Nat
         /\ Cardinality(Deliveries(Event)) > 0
         /\ outcome[Event] = "none" \/ Cardinality(Deliveries(Event)) > 1
<1>1. TypeOK /\ SenderInv /\ RecordInv
  BY DEF Inv
<1>2. listener.src \in taken /\ Event \in EventIds /\ EventId(listener.src) = Event
  BY <1>1, EventType DEF Event
<1>3. listener.src \in Deliveries(Event)
  BY <1>2 DEF Deliveries
<1>4. IsFiniteSet(Deliveries(Event)) /\ Cardinality(Deliveries(Event)) \in Nat
  BY Zenon, <1>1, CountDeliveries
<1>5. Cardinality(Deliveries(Event)) # 0
  BY Zenon, <1>3, <1>4, FS_EmptySet
<1>6. ASSUME outcome[Event] # "none" PROVE Cardinality(Deliveries(Event)) > 1
  <2>1. PICK x \in taken \ {listener.src} : EventId(x) = Event
    BY Zenon, <1>1, <1>2, <1>6 DEF RecordInv
  <2> QED BY <1>1, <1>2, <2>1, TwoDeliveries
<1> QED BY <1>2, <1>4, <1>5, <1>6

\* At first the ledger is empty.
LEMMA LedgerInit == Init => Ledger!Init
<1> SUFFICES ASSUME Init PROVE Ledger!Init
  OBVIOUS
<1>1. \A e : Deliveries(e) = {}
  BY DEF Init, Deliveries
<1>2. \A e : Cardinality(Deliveries(e)) = 0
  BY Zenon, <1>1, FS_EmptySet
<1> QED BY Zenon, <1>2 DEF Init, Ledger!Init

\* A step that receives nothing and records nothing leaves the ledger alone.
LEMMA LedgerStays ==
  ASSUME \A e : Deliveries(e)' = Deliveries(e), UNCHANGED <<events, applied, announced, outcome>>
  PROVE  UNCHANGED Ledger!vars
BY DEF Ledger!vars

\* A step of the listener is one of the ledger on the event that it holds, or none.
LEMMA ListenerLedger ==
  ASSUME Inv, PutEvent \/ TxProcessEvent \/ Notify \/ ReportOutcome \/ ListenerExits
  PROVE  Ledger!Next \/ UNCHANGED Ledger!vars
<1> DEFINE Received == [e \in EventIds |-> Cardinality(Deliveries(e))]
<1>1. TypeOK /\ SenderInv /\ ListenInv
  BY Zenon DEF Inv
<1>2. \A e : Deliveries(e)' = Deliveries(e)
  BY Zenon, <1>1, ListenerStepStep DEF ListenerStays, Deliveries, EventId
<1>3. Received' = Received
  BY Zenon, <1>2
<1>4. listener.pc \in Busy => Event \in EventIds /\ Ledger!Open(Event)
  BY Zenon, EventIsOpen DEF Ledger!Open
<1>5. listener.pc \in Busy => Received[Event] = Cardinality(Deliveries(Event))
  BY EventIsOpen
<1> HIDE DEF Received
<1>6. CASE PutEvent
  <2>1. /\ listener.pc \in Busy /\ events' \in {events, events \cup {Event}}
        /\ UNCHANGED <<applied, announced, outcome>>
    BY <1>6 DEF PutEvent, ListenerAt, Busy, notices
  <2>2. CASE events' = events \cup {Event}
    <3>1. Ledger!Store(Event)
      BY Zenon, <1>3, <1>4, <2>1, <2>2 DEF Ledger!Store, Received
    <3> QED BY Zenon, <1>4, <2>1, <3>1 DEF Ledger!Next
  <2>3. CASE events' = events
    BY <1>2, <2>1, <2>3, LedgerStays
  <2> QED BY Zenon, <2>1, <2>2, <2>3
<1>7. CASE TxProcessEvent
  <2>1. /\ listener.pc = "process" /\ (Apply \/ applied' = applied)
        /\ UNCHANGED <<events, announced, outcome>>
    BY <1>7 DEF TxProcessEvent, ListenerAt, notices
  <2>2. CASE Apply
    <3>1. Event \in events /\ applied[Event] < Received[Event]
      BY Zenon, <1>1, <1>5, <2>1 DEF ListenInv, Unmoved, Busy
    <3>2. Ledger!Move(Event)
      BY Zenon, <1>3, <1>4, <2>1, <2>2, <3>1 DEF Ledger!Move, Apply, Busy, Received
    <3> QED BY Zenon, <1>4, <2>1, <3>2 DEF Ledger!Next, Busy
  <2>3. CASE applied' = applied
    BY Zenon, <1>2, <2>1, <2>3, LedgerStays
  <2> QED BY Zenon, <2>1, <2>2, <2>3
<1>8. CASE Notify
  <2>1. /\ listener.pc = "notify" /\ listener.code \in Errors
        /\ announced' = announced \cup {<<Event, listener.code>>}
        /\ UNCHANGED <<events, applied, outcome>>
    BY Zenon, <1>1, <1>8 DEF Notify, ListenerAt, ListenInv, redis
  <2>2. Ledger!Announce(Event, listener.code)
    BY Zenon, <1>3, <1>4, <2>1 DEF Ledger!Announce, Busy, Received
  <2> QED BY Zenon, <1>4, <2>1, <2>2 DEF Ledger!Next, Busy
<1>9. CASE ReportOutcome
  <2>1. /\ listener.pc = "report" /\ listener.code \in Errors \cup {"Ok"}
        /\ UNCHANGED <<events, applied, announced>>
        /\ \/ outcome' = [outcome EXCEPT ![Event] = listener.code]
           \/ outcome' = outcome
    BY Zenon, <1>1, <1>9 DEF ReportOutcome, ListenerAt, TypeOK, notices
  <2>2. CASE outcome' = [outcome EXCEPT ![Event] = listener.code]
    <3>1. IF listener.code = "Ok" THEN applied[Event] > 0
          ELSE /\ Notifications => <<Event, listener.code>> \in announced
               /\ "deadline" \in Faults \/ applied[Event] < Received[Event]
      BY Zenon, <1>1, <1>5, <2>1 DEF ListenInv, Unmoved, Busy
    <3>2. Ledger!Report(Event, listener.code)
      BY Zenon, <1>3, <1>4, <2>1, <2>2, <3>1 DEF Ledger!Report, Busy, Received
    <3> QED BY Zenon, <1>4, <2>1, <3>2 DEF Ledger!Next, Busy
  <2>3. CASE outcome' = outcome
    BY Zenon, <1>2, <2>1, <2>3, LedgerStays
  <2> QED BY Zenon, <2>1, <2>2, <2>3
<1>10. CASE ListenerExits
  BY Zenon, <1>2, <1>10, LedgerStays DEF ListenerExits, notices, redis
<1> QED BY Zenon, <1>6, <1>7, <1>8, <1>9, <1>10

\* The rendezvous on eventsCh is one more delivery in the ledger.
LEMMA AcceptLedger ==
  ASSUME Inv, NEW x \in Sources, Accept(x)
  PROVE  Ledger!Next
<1>1. TypeOK /\ SenderInv
  BY DEF Inv
<1>2. EventId(x) \in EventIds
  BY <1>1, EventIdType
<1>3. UNCHANGED <<events, applied, announced, outcome>>
  BY Zenon, <1>1, AcceptShape DEF notices, redis
<1>4. \A e : Cardinality(Deliveries(e)') = IF e = EventId(x) THEN Cardinality(Deliveries(e)) + 1
                                         ELSE Cardinality(Deliveries(e))
  BY Zenon, <1>1, AcceptDeliveries
<1>5. Ledger!Receive(EventId(x))
  BY Zenon, <1>2, <1>3, <1>4 DEF Ledger!Receive
<1> QED BY <1>2, <1>5 DEF Ledger!Next

\* Every step of the server is one of the ledger, or leaves it alone.
LEMMA LedgerStep == Inv /\ [Next]_vars => [Ledger!Next]_(Ledger!vars)
<1> SUFFICES ASSUME Inv, [Next]_vars PROVE Ledger!Next \/ UNCHANGED Ledger!vars
  OBVIOUS
<1>1. CASE Quiet
  <2>1. \A e : Deliveries(e)' = Deliveries(e)
    BY <1>1, QuietKeepsMessages, DeliveriesStay DEF Inv, Quiet
  <2> QED BY ZenonT(30), <1>1, <2>1, LedgerStays DEF Quiet, redis
<1>2. CASE \E x \in Sources : Accept(x)
  BY <1>2, AcceptLedger
<1>3. CASE PutEvent \/ TxProcessEvent \/ Notify \/ ReportOutcome \/ ListenerExits
  BY Zenon, <1>3, ListenerLedger
<1>4. CASE \E how \in {"exited", "panicked", "crashed"} : Ends(how)
  <2>1. taken' = taken /\ msg' = msg /\ UNCHANGED <<events, applied, announced, outcome>>
    BY Zenon, <1>4 DEF Ends, redis
  <2> QED BY Zenon, <2>1, DeliveriesStay, LedgerStays
<1>5. CASE UNCHANGED vars
  <2>1. taken' = taken /\ msg' = msg /\ UNCHANGED <<events, applied, announced, outcome>>
    BY <1>5 DEF vars, sqs, notices, redis
  <2> QED BY <2>1, DeliveriesStay, LedgerStays
<1> QED BY Zenon, <1>1, <1>2, <1>3, <1>4, <1>5, NextCases

\* The server implements EventLedger: the listener stores an event, has it
\* processed, announces an error and stores the outcome in this order, and what
\* it does not come to do for a crash it never does for the same delivery.
THEOREM ServerKeepsLedger == Spec => KeepsLedger
BY LedgerInit, LedgerStep, InvHolds, PTL DEF Spec, KeepsLedger, Ledger!Spec

\* What the ledger tells of an event that was received once is true, and stays so.
LEMMA TrueStep ==
  Inv /\ TrueIfReceivedOnce /\ [Next]_vars => TrueIfReceivedOnce'
<1> DEFINE N(e) == Cardinality(Deliveries(e))
<1> SUFFICES ASSUME Inv, TrueIfReceivedOnce, [Next]_vars, "deadline" \notin Faults,
                    NEW e \in EventIds, outcome'[e] # "none", N(e)' <= 1
             PROVE  applied'[e] = IF outcome'[e] = "Ok" THEN 1 ELSE 0
  BY Zenon DEF TrueIfReceivedOnce
<1>1. /\ N(e) \in Nat /\ N(e)' \in Nat /\ applied[e] \in Nat /\ applied[e] <= N(e)
      /\ outcome[e] # "none" => N(e) > 0
  <2>1. Inv' /\ TypeOK /\ SenderInv /\ SenderInv' /\ AppliedOncePerDelivery /\ RecordInv
    BY Zenon, NextInv DEF Inv, Safe
  <2>2. IsFiniteSet(Deliveries(e)) /\ N(e) \in Nat
    BY <2>1, CountDeliveries
  <2>3. outcome[e] # "none" => Deliveries(e) # {}
    BY Zenon, <2>1 DEF RecordInv, Deliveries
  <2>4. outcome[e] # "none" => N(e) # 0
    BY Zenon, <2>2, <2>3, FS_EmptySet
  <2>5. Deliveries(e)' \subseteq taken' /\ IsFiniteSet(taken')
    BY <2>1 DEF Deliveries, SenderInv
  <2>6. N(e)' \in Nat
    BY Zenon, <2>5, FS_Subset, FS_CardinalityType
  <2> QED BY <2>1, <2>2, <2>4, <2>6 DEF TypeOK, AppliedOncePerDelivery
<1>2. outcome[e] # "none" /\ N(e) <= 1 => applied[e] = IF outcome[e] = "Ok" THEN 1 ELSE 0
  BY Zenon DEF TrueIfReceivedOnce
<1>3. applied \in [EventIds -> Nat] /\ outcome \in [EventIds -> Errors \cup {"none", "Ok"}]
  BY DEF Inv, TypeOK
<1>4. Ledger!Next \/ UNCHANGED Ledger!vars
  BY LedgerStep
<1>5. CASE UNCHANGED Ledger!vars
  <2>1. [d \in EventIds |-> N(d)]' = [d \in EventIds |-> N(d)]
    BY <1>5 DEF Ledger!vars
  <2>2. N(e)' = N(e)
    BY Zenon, <2>1
  <2> QED BY Zenon, <1>2, <1>5, <2>2 DEF Ledger!vars
<1>6. ASSUME NEW d \in EventIds, Ledger!Receive(d)
      PROVE  applied'[e] = IF outcome'[e] = "Ok" THEN 1 ELSE 0
  <2>1. /\ N(e)' = IF e = d THEN N(e) + 1 ELSE N(e)
        /\ applied' = applied /\ outcome' = outcome
    BY Zenon, <1>6 DEF Ledger!Receive
  <2> QED BY <1>1, <1>2, <2>1
<1>7. ASSUME NEW d \in EventIds, Ledger!Open(d),
             Ledger!Store(d) \/ Ledger!Move(d) \/ \E code \in Errors : Ledger!Announce(d, code)
      PROVE  applied'[e] = IF outcome'[e] = "Ok" THEN 1 ELSE 0
  <2>1. /\ N(e)' = N(e) /\ outcome' = outcome
        /\ applied' = applied \/ applied' = [applied EXCEPT ![d] = @ + 1]
        /\ outcome[d] = "none" \/ N(d) > 1
    BY Zenon, <1>7 DEF Ledger!Store, Ledger!Move, Ledger!Announce, Ledger!Open
  <2> QED BY <1>1, <1>2, <1>3, <2>1
<1>8. ASSUME NEW d \in EventIds, NEW code \in Errors \cup {"Ok"}, Ledger!Report(d, code)
      PROVE  applied'[e] = IF outcome'[e] = "Ok" THEN 1 ELSE 0
  <2>1. /\ N(e)' = N(e) /\ applied' = applied /\ outcome' = [outcome EXCEPT ![d] = code]
        /\ IF code = "Ok" THEN applied[d] > 0 ELSE applied[d] < N(d)
    BY <1>8 DEF Ledger!Report
  <2> QED BY <1>1, <1>2, <1>3, <2>1
<1> QED BY <1>4, <1>5, <1>6, <1>7, <1>8 DEF Ledger!Next

\* Where the store does not time out, the outcome of every event that was received
\* once tells whether it moved its machine: OutcomeIsTrue fails only for events
\* that are delivered again.
THEOREM OutcomeTrueIfReceivedOnce == Spec => []TrueIfReceivedOnce
<1>1. Init => TrueIfReceivedOnce
  BY DEF Init, TrueIfReceivedOnce
<1> QED BY <1>1, TrueStep, InvHolds, PTL DEF Spec

\* SendEvent posts an event once: the event of a gRPC call moves its machine at
\* most once, and where the store does not time out, its outcome is true.
THEOREM CallsAreTrue ==
  Spec => [](\A g \in Grpc : /\ applied[g] <= 1
                             /\ "deadline" \notin Faults /\ outcome[g] # "none" =>
                                  applied[g] = IF outcome[g] = "Ok" THEN 1 ELSE 0)
<1>1. ASSUME Inv, TrueIfReceivedOnce, NEW g \in Grpc
      PROVE  /\ applied[g] <= 1
             /\ "deadline" \notin Faults /\ outcome[g] # "none" =>
                  applied[g] = IF outcome[g] = "Ok" THEN 1 ELSE 0
  <2>1. g \in EventIds /\ Deliveries(g) \subseteq {g}
    BY Zenon, <1>1, CallIsEvent DEF Inv, Deliveries, EventIds
  <2>2. Cardinality(Deliveries(g)) <= 1 /\ Cardinality(Deliveries(g)) \in Nat
    <3>1. IsFiniteSet({g}) /\ Cardinality({g}) = 1
      BY Zenon, FS_Singleton
    <3>2. Cardinality(Deliveries(g)) <= Cardinality({g})
      BY <2>1, <3>1, FS_Subset
    <3>3. Cardinality(Deliveries(g)) \in Nat
      BY Zenon, <1>1, CountDeliveries DEF Inv
    <3> QED BY Zenon, <3>1, <3>2, <3>3
  <2>3. applied[g] \in Nat /\ applied[g] <= Cardinality(Deliveries(g))
    BY Zenon, <1>1, <2>1 DEF Inv, Safe, AppliedOncePerDelivery, TypeOK
  <2> QED BY <1>1, <2>1, <2>2, <2>3 DEF TrueIfReceivedOnce
<1>2. Inv /\ TrueIfReceivedOnce =>
        \A g \in Grpc : /\ applied[g] <= 1
                        /\ "deadline" \notin Faults /\ outcome[g] # "none" =>
                             applied[g] = IF outcome[g] = "Ok" THEN 1 ELSE 0
  BY <1>1, Zenon
<1> QED BY <1>2, InvHolds, OutcomeTrueIfReceivedOnce, PTL
=============================================================================
