------------------------- MODULE ConfigStoreProofs -------------------------
(***************************************************************************)
(* The properties of ConfigStore and ConfigReaders, for any number of      *)
(* calls, readers, configurations and retries, and any failures.           *)
(***************************************************************************)
EXTENDS ConfigReaders, TLAPS

-----------------------------------------------------------------------------
(* Types, and where a call can be                                          *)

\* What a call has done is known from where it is: it has attempts left and has
\* returned nothing before its end, and no SET before the last step.
Local(c) ==
  /\ pc[c] # "done" => tries[c] < MaxRetries /\ ret[c] = "none"
  /\ pc[c] \in {"new", "exists", "names", "versions"} => late[c] = 0

LocalInv == TypeOK /\ \A c \in Calls : Local(c)

\* Initially no call has started.
LEMMA LocalInit == Init => LocalInv
BY MaxRetriesAssumption DEF Init, LocalInv, Local, TypeOK

\* The id and the name of a request.
LEMMA IdTyped ==
  ASSUME TypeOK, NEW c \in Calls
  PROVE  /\ req[c] \in Requests /\ req[c] # NoConfig
         /\ Id(c) \in VersionIds /\ req[c].name \in Names /\ Id(c)[1] = req[c].name
<1>1. req[c] \in Requests
  BY DEF TypeOK
<1> QED
  BY <1>1, RequestsAssumption, NoConfigAssumption DEF Id, VersionIds, Names, GetVersionId

CallStep(c) == Start(c) \/ Refuse(c) \/ Step(c) \/ LateSet(c) \/ Crash(c)

\* What becomes of a SET keeps the types.
LEMMA SetTyped ==
  ASSUME TypeOK, NEW c \in Calls, Set(c) \/ UNCHANGED config
  PROVE  config' \in [VersionIds -> Requests \cup {NoConfig}]
<1>1. req[c] \in Requests /\ Id(c) \in VersionIds
  BY IdTyped
<1> QED
  BY <1>1 DEF Set, TypeOK

\* Every step of a call keeps the types and the shape of the calls.
LEMMA LocalStep == LocalInv /\ [Next]_vars => LocalInv'
<1> SUFFICES ASSUME LocalInv, [Next]_vars PROVE LocalInv'
  OBVIOUS
<1>0. TypeOK /\ MaxRetries \in Nat \ {0}
  BY MaxRetriesAssumption DEF LocalInv
<1>1. ASSUME NEW c \in Calls, Start(c) PROVE LocalInv'
  <2>1. Id(c) \in VersionIds
    BY <1>0, IdTyped
  <2> QED
    BY <1>1, <2>1 DEF Start, Goto, LocalInv, Local, TypeOK, redis
<1>2. ASSUME NEW c \in Calls, Refuse(c) PROVE LocalInv'
  BY <1>2 DEF Refuse, Goto, Return, LocalInv, Local, TypeOK, redis, aux
<1>3. ASSUME NEW c \in Calls, Exists(c) PROVE LocalInv'
  BY <1>3 DEF Exists, Goto, Return, LocalInv, Local, TypeOK, redis, aux
<1>4. ASSUME NEW c \in Calls, ExistsFails(c) PROVE LocalInv'
  <2>1. Id(c) \in VersionIds
    BY <1>0, IdTyped
  <2> QED
    BY <1>4, <2>1 DEF ExistsFails, Goto, LocalInv, Local, TypeOK, redis
<1>5. ASSUME NEW c \in Calls, AddName(c) PROVE LocalInv'
  <2>1. Id(c) \in VersionIds /\ req[c].name \in Names
    BY <1>0, IdTyped
  <2> QED
    BY <1>5, <2>1 DEF AddName, SAddFails, Goto, LocalInv, Local, TypeOK
<1>6. ASSUME NEW c \in Calls, AddVersion(c) PROVE LocalInv'
  <2>1. Id(c) \in VersionIds /\ req[c].name \in Names
    BY <1>0, IdTyped
  <2> QED
    BY <1>6, <2>1 DEF AddVersion, SAddFails, Goto, LocalInv, Local, TypeOK
<1>7. ASSUME NEW c \in Calls, Put(c) PROVE LocalInv'
  <2>1. config' \in [VersionIds -> Requests \cup {NoConfig}]
    BY <1>0, <1>7, SetTyped DEF Put
  <2> QED
    BY <1>7, <2>1 DEF Put, Goto, Return, LocalInv, Local, TypeOK, aux
<1>8. ASSUME NEW c \in Calls, PutTimesOut(c) PROVE LocalInv'
  <2>1. config' \in [VersionIds -> Requests \cup {NoConfig}]
    BY <1>0, <1>8, SetTyped DEF PutTimesOut, Unanswered
  <2> QED
    BY <1>0, <1>8, <2>1, SMTT(30) DEF PutTimesOut, Unanswered, Goto, Return, LocalInv, Local,
       TypeOK, aux
<1>9. ASSUME NEW c \in Calls, PutFails(c) PROVE LocalInv'
  <2>1. config' \in [VersionIds -> Requests \cup {NoConfig}]
    BY <1>0, <1>9, SetTyped DEF PutFails, Unanswered
  <2> QED
    BY <1>9, <2>1 DEF PutFails, Unanswered, Goto, Return, LocalInv, Local, TypeOK, aux
<1>10. ASSUME NEW c \in Calls, LateSet(c) PROVE LocalInv'
  <2>1. config' \in [VersionIds -> Requests \cup {NoConfig}]
    BY <1>0, <1>10, SetTyped DEF LateSet
  <2> QED
    BY <1>10, <2>1 DEF LateSet, LocalInv, Local, TypeOK, aux
<1>11. ASSUME NEW c \in Calls, Crash(c) PROVE LocalInv'
  <2>1. config' \in [VersionIds -> Requests \cup {NoConfig}]
    BY <1>0, <1>11, SetTyped DEF Crash, Unanswered
  <2> QED
    BY <1>11, <2>1 DEF Crash, Unanswered, Goto, LocalInv, Local, TypeOK, aux
<1>12. CASE UNCHANGED vars
  BY <1>12 DEF vars, redis, aux, LocalInv, Local, TypeOK
<1> QED
  BY <1>1, <1>2, <1>3, <1>4, <1>5, <1>6, <1>7, <1>8, <1>9, <1>10, <1>11, <1>12
     DEF Next, Step

\* TypeOK, whatever the calls, their interleaving and the failures.
THEOREM TypeCorrect == Spec => []TypeOK
<1>1. LocalInv => TypeOK
  BY DEF LocalInv
<1> QED
  BY <1>1, LocalInit, LocalStep, PTL DEF Spec

-----------------------------------------------------------------------------
(* Immutability                                                            *)

\* A call that has begun and may still have an effect on its configuration, one
\* that has a SET to do, and one that has found that there was no such
\* configuration.
Active(c) == InFlight(c) \/ late[c] > 0

Writes(c) == pc[c] = "put" \/ late[c] > 0

Writer(c) == pc[c] \in {"names", "versions"} \/ Writes(c)

\* The heart of the argument: unless an id is raced for, it has at most one
\* active call, and once this call is going to write, what is stored is
\* nothing or the configuration of the call itself.
RaceInv ==
  /\ \A c, d \in Calls : Active(c) /\ Active(d) /\ Id(c) = Id(d) /\ c # d => Id(c) \in raced
  /\ \A c \in Calls : Writer(c) /\ Id(c) \notin raced => config[Id(c)] \in {NoConfig, req[c]}

\* What a step of call c does: nothing to the other calls; a write only if c is a
\* writer; and c becomes active or a writer only in the way it should.
LEMMA StepShape ==
  ASSUME LocalInv, NEW c \in Calls, CallStep(c)
  PROVE  /\ req' = req
         /\ \A d \in Calls : d # c => /\ pc'[d] = pc[d] /\ ret'[d] = ret[d]
                                     /\ late'[d] = late[d]
         /\ raced \subseteq raced'
         /\ config' = config \/ (Writes(c) /\ Set(c))
         /\ Active(c)' => \/ Active(c)
                          \/ \A d \in Calls : Active(d) /\ Id(d) = Id(c) => Id(c) \in raced'
         /\ Writer(c)' => \/ Writer(c)
                          \/ config[Id(c)] = NoConfig /\ config' = config
                          \/ Id(c) \in raced'
<1>0. /\ pc = [x \in Calls |-> pc[x]] /\ ret = [x \in Calls |-> ret[x]]
      /\ late = [x \in Calls |-> late[x]] /\ late[c] \in Nat
      /\ pc[c] \in {"new", "exists", "names", "versions"} => late[c] = 0
  BY DEF LocalInv, Local, TypeOK
<1> USE <1>0 DEF Active, Writer, Writes, InFlight, Goto, Return
<1>1. CASE Start(c)
  BY <1>1 DEF Start, redis
<1>2. CASE Refuse(c)
  BY <1>2 DEF Refuse, redis, aux
<1>3. CASE Exists(c)
  BY <1>3 DEF Exists, redis, aux
<1>4. CASE ExistsFails(c)
  BY <1>4 DEF ExistsFails, redis
<1>5. CASE AddName(c)
  BY <1>5 DEF AddName
<1>6. CASE AddVersion(c)
  BY <1>6 DEF AddVersion
<1>7. CASE Put(c)
  BY <1>7 DEF Put, aux
<1>8. CASE PutTimesOut(c)
  BY <1>8 DEF PutTimesOut, Unanswered, aux
<1>9. CASE PutFails(c)
  BY <1>9 DEF PutFails, Unanswered, aux
<1>10. CASE LateSet(c)
  BY <1>10 DEF LateSet, aux
<1>11. CASE Crash(c)
  BY <1>11 DEF Crash, Unanswered, aux
<1> QED
  BY <1>1, <1>2, <1>3, <1>4, <1>5, <1>6, <1>7, <1>8, <1>9, <1>10, <1>11
     DEF CallStep, Step

\* Next is a step of some call.
LEMMA NextIsCallStep == Next => \E c \in Calls : CallStep(c)
BY DEF Next, CallStep

\* Initially no call is active.
LEMMA RaceInit == Init => RaceInv
BY DEF Init, RaceInv, Active, Writer, Writes, InFlight

\* A step keeps two calls from being active for the same id, unless it is raced
\* for, and a writer from meeting another's configuration.
LEMMA RaceStep == LocalInv /\ RaceInv /\ [Next]_vars => RaceInv'
<1> SUFFICES ASSUME LocalInv, RaceInv, [Next]_vars PROVE RaceInv'
  OBVIOUS
<1>1. ASSUME NEW c \in Calls, CallStep(c) PROVE RaceInv'
  <2>0. /\ req' = req
        /\ \A d \in Calls : d # c => pc'[d] = pc[d] /\ late'[d] = late[d]
        /\ raced \subseteq raced'
        /\ config' = config \/ (Writes(c) /\ Set(c))
        /\ Active(c)' => \/ Active(c)
                         \/ \A d \in Calls : Active(d) /\ Id(d) = Id(c) => Id(c) \in raced'
        /\ Writer(c)' => \/ Writer(c)
                         \/ config[Id(c)] = NoConfig /\ config' = config
                         \/ Id(c) \in raced'
    BY <1>1, StepShape
  <2>1. /\ \A d \in Calls : Id(d)' = Id(d)
        /\ \A d \in Calls : d # c => (Active(d)' <=> Active(d)) /\ (Writer(d)' <=> Writer(d))
    BY Zenon, <2>0 DEF Id, Active, Writer, Writes, InFlight
  <2>2. ASSUME NEW a \in Calls, NEW b \in Calls, Active(a)', Active(b)', Id(a) = Id(b), a # b
        PROVE  Id(a) \in raced'
    BY Zenon, <2>0, <2>1, <2>2 DEF RaceInv
  <2>3. ASSUME NEW d \in Calls, Writer(d)', Id(d) \notin raced'
        PROVE  config'[Id(d)] \in {NoConfig, req[d]}
    <3>1. CASE config' = config
      BY <2>0, <2>1, <2>3, <3>1 DEF RaceInv
    <3>2. CASE Writes(c) /\ Set(c)
      <4>1. config'[Id(d)] = IF Id(d) = Id(c) THEN req[c] ELSE config[Id(d)]
        BY <3>2, IdTyped DEF Set, LocalInv, TypeOK
      <4>2. CASE d = c
        BY Zenon, <4>1, <4>2
      <4>3. CASE d # c
        <5>1. Writer(d) /\ Active(d) /\ Active(c)
          BY Zenon, <2>1, <2>3, <3>2, <4>3 DEF Writer, Writes, Active, InFlight
        <5>2. Id(d) # Id(c)
          BY <2>0, <2>3, <4>3, <5>1 DEF RaceInv
        <5> QED
          BY Zenon, <2>0, <2>3, <4>1, <5>1, <5>2 DEF RaceInv
      <4> QED
        BY Zenon, <4>2, <4>3
    <3> QED
      BY Zenon, <2>0, <3>1, <3>2
  <2> QED
    BY Zenon, <2>0, <2>1, <2>2, <2>3 DEF RaceInv
<1>2. CASE UNCHANGED vars
  BY <1>2 DEF vars, redis, aux, RaceInv, Active, Writer, Writes, InFlight, Id
<1> QED
  BY <1>1, <1>2, NextIsCallStep

\* One step: a configuration that is stored, and not raced for, stays.
LEMMA StoredStays ==
  ASSUME LocalInv, RaceInv, [Next]_vars, NEW v \in VersionIds, v \notin raced, config[v] # NoConfig
  PROVE  config'[v] = config[v]
<1>1. ASSUME NEW c \in Calls, CallStep(c) PROVE config'[v] = config[v]
  <2>1. config' = config \/ (Writes(c) /\ Set(c))
    BY <1>1, StepShape
  <2>2. ASSUME Writes(c), Set(c) PROVE config'[v] = config[v]
    <3>1. config'[v] = IF v = Id(c) THEN req[c] ELSE config[v]
      BY Zenon, <2>2, IdTyped DEF Set, LocalInv, TypeOK
    <3>2. v = Id(c) => config[v] \in {NoConfig, req[c]}
      BY <2>2 DEF RaceInv, Writer
    <3> QED
      BY Zenon, <3>1, <3>2
  <2> QED
    BY Zenon, <2>1, <2>2
<1>2. CASE UNCHANGED vars
  BY <1>2 DEF vars, redis
<1> QED
  BY <1>1, <1>2, NextIsCallStep

\* PutConfiguration never replaces a configuration, except where two calls for
\* the same id overlap or EXISTS fails.
THEOREM StoredIsImmutable == Spec => ImmutableUnlessRaced
<1>1. LocalInv /\ RaceInv /\ [Next]_vars =>
        [\A v \in VersionIds \ raced : config[v] # NoConfig => config'[v] = config[v]]_vars
  BY StoredStays
<1> QED
  BY <1>1, LocalInit, LocalStep, RaceInit, RaceStep, PTL DEF Spec, ImmutableUnlessRaced

-----------------------------------------------------------------------------
(* What the callers and the readers find                                   *)

\* A configuration is never removed, and what a call stores is its own.
LEMMA NeverRemoved ==
  ASSUME LocalInv, [Next]_vars, NEW v \in VersionIds, config[v] # NoConfig
  PROVE  config'[v] # NoConfig
<1>1. ASSUME NEW c \in Calls, CallStep(c) PROVE config'[v] # NoConfig
  <2>1. config' = config \/ Set(c)
    BY Zenon, <1>1, StepShape
  <2>2. Set(c) => config'[v] = IF v = Id(c) THEN req[c] ELSE config[v]
    BY IdTyped DEF Set, LocalInv, TypeOK
  <2>3. req[c] # NoConfig
    BY IdTyped DEF LocalInv
  <2> QED
    BY Zenon, <2>1, <2>2, <2>3
<1>2. CASE UNCHANGED vars
  BY Zenon, <1>2 DEF vars, redis
<1> QED
  BY <1>1, <1>2, NextIsCallStep

\* A call that returns OK has just stored its configuration.
LEMMA OkStores ==
  ASSUME LocalInv, NEW c \in Calls, CallStep(c), ret'[c] = "OK", ret[c] # "OK"
  PROVE  Set(c)
<1>0. ret = [x \in Calls |-> ret[x]]
  BY DEF LocalInv, TypeOK
<1> USE <1>0 DEF Goto, Return, Step, CallStep
<1>1. CASE Put(c)
  BY <1>1 DEF Put
<1>2. CASE PutTimesOut(c)
  BY <1>2 DEF PutTimesOut
<1> QED
  BY <1>1, <1>2 DEF Start, Refuse, Exists, ExistsFails, AddName, AddVersion, PutFails, LateSet,
     Crash

\* An acknowledged configuration is stored, and stays.
LEMMA AckStep ==
  LocalInv /\ RaceInv /\ AcknowledgedIsStored /\ [Next]_vars => AcknowledgedIsStored'
<1> SUFFICES ASSUME LocalInv, RaceInv, AcknowledgedIsStored, [Next]_vars
             PROVE  AcknowledgedIsStored'
  OBVIOUS
<1>1. ASSUME NEW c \in Calls, CallStep(c), NEW d \in Calls, ret'[d] = "OK"
      PROVE  (config[Id(d)] # NoConfig /\ (Id(d) \in raced \/ config[Id(d)] = req[d]))'
  <2>0. /\ req' = req /\ Id(d)' = Id(d) /\ raced \subseteq raced'
        /\ d # c => ret'[d] = ret[d]
    BY <1>1, StepShape DEF Id
  <2>1. Id(d) \in VersionIds /\ req[d] # NoConfig
    BY IdTyped DEF LocalInv
  <2>2. CASE ret[d] = "OK"
    <3>1. config'[Id(d)] # NoConfig
      BY <2>1, <2>2, NeverRemoved DEF AcknowledgedIsStored
    <3>2. Id(d) \notin raced => config'[Id(d)] = req[d]
      BY <2>1, <2>2, StoredStays DEF AcknowledgedIsStored
    <3> QED
      BY <2>0, <3>1, <3>2
  <2>3. CASE ret[d] # "OK"
    <3>1. d = c /\ Set(c)
      BY <1>1, <2>0, <2>3, OkStores
    <3>2. config'[Id(d)] = req[d]
      BY <2>1, <3>1 DEF Set, LocalInv, TypeOK
    <3> QED
      BY <2>0, <2>1, <3>2
  <2> QED
    BY <2>2, <2>3
<1>2. ASSUME NEW c \in Calls, CallStep(c) PROVE AcknowledgedIsStored'
  BY Zenon, <1>1, <1>2 DEF AcknowledgedIsStored
<1>3. CASE UNCHANGED vars
  BY <1>3 DEF vars, redis, aux, AcknowledgedIsStored, Id
<1> QED
  BY <1>2, <1>3, NextIsCallStep

\* Whoever was told OK finds the configuration under its id, from then on.
THEOREM AcknowledgedStays == Spec => []AcknowledgedIsStored
<1>1. Init => AcknowledgedIsStored
  BY DEF Init, AcknowledgedIsStored
<1> QED
  BY <1>1, LocalInit, LocalStep, RaceInit, RaceStep, AckStep, PTL DEF Spec

-----------------------------------------------------------------------------
(* The lists of names and of versions                                      *)

\* A call adds its name, then its version, and only then may write.
Lists(c) ==
  Id(c) \notin unlisted =>
    /\ pc[c] = "versions" \/ Writes(c) => req[c].name \in names
    /\ Writes(c) => Id(c) \in versions[req[c].name]

ListInv == StoredIsListed /\ \A c \in Calls : Lists(c)

\* The lists only grow, and so does what is known to be missing in them.
LEMMA ListsGrow ==
  ASSUME LocalInv, NEW c \in Calls, CallStep(c)
  PROVE  /\ names \subseteq names' /\ unlisted \subseteq unlisted'
         /\ \A n \in Names : versions[n] \subseteq versions'[n]
<1>0. req[c].name \in Names
  BY IdTyped DEF LocalInv
<1>1. CASE AddVersion(c)
  BY Zenon, <1>0, <1>1 DEF AddVersion, SAddFails, LocalInv, TypeOK
<1> QED
  BY <1>1 DEF CallStep, Step, Start, Refuse, Exists, ExistsFails, AddName, SAddFails, Put,
     PutTimesOut, PutFails, LateSet, Crash, redis, aux

\* A step of a call keeps its own place in the lists.
LEMMA OwnLists ==
  ASSUME LocalInv, NEW c \in Calls, Lists(c), CallStep(c)
  PROVE  Lists(c)'
<1>0. /\ pc = [x \in Calls |-> pc[x]] /\ late = [x \in Calls |-> late[x]] /\ late[c] \in Nat
      /\ pc[c] \in {"new", "exists", "names", "versions"} => late[c] = 0
      /\ versions = [n \in Names |-> versions[n]] /\ req[c].name \in Names
  BY IdTyped DEF LocalInv, Local, TypeOK
<1> USE <1>0 DEF Lists, Writes, Id, Goto, Return, redis, aux
<1>1. CASE Start(c)
  BY <1>1 DEF Start
<1>2. CASE Refuse(c)
  BY <1>2 DEF Refuse
<1>3. CASE Exists(c)
  BY <1>3 DEF Exists
<1>4. CASE ExistsFails(c)
  BY <1>4 DEF ExistsFails
<1>5. CASE AddName(c)
  BY <1>5 DEF AddName, SAddFails
<1>6. CASE AddVersion(c)
  BY <1>6 DEF AddVersion, SAddFails
<1>7. CASE Put(c)
  BY <1>7 DEF Put
<1>8. CASE PutTimesOut(c)
  BY <1>8 DEF PutTimesOut, Unanswered
<1>9. CASE PutFails(c)
  BY <1>9 DEF PutFails, Unanswered
<1>10. CASE LateSet(c)
  BY <1>10 DEF LateSet
<1>11. CASE Crash(c)
  BY <1>11 DEF Crash, Unanswered
<1> QED
  BY Zenon, <1>1, <1>2, <1>3, <1>4, <1>5, <1>6, <1>7, <1>8, <1>9, <1>10, <1>11
     DEF CallStep, Step

\* A step keeps the lists complete.
LEMMA ListStep == LocalInv /\ ListInv /\ [Next]_vars => ListInv'
<1> SUFFICES ASSUME LocalInv, ListInv, [Next]_vars PROVE ListInv'
  OBVIOUS
<1>1. ASSUME NEW c \in Calls, CallStep(c) PROVE ListInv'
  <2>0. /\ req' = req
        /\ \A d \in Calls : d # c => pc'[d] = pc[d] /\ late'[d] = late[d]
        /\ config' = config \/ (Writes(c) /\ Set(c))
        /\ names \subseteq names' /\ unlisted \subseteq unlisted'
        /\ \A n \in Names : versions[n] \subseteq versions'[n]
    BY <1>1, StepShape, ListsGrow
  <2>1. ASSUME NEW d \in Calls PROVE Lists(d)'
    <3>1. CASE d = c
      BY Zenon, <1>1, <3>1, OwnLists DEF ListInv
    <3>2. CASE d # c
      <4>1. Lists(d) /\ req[d].name \in Names
        BY IdTyped DEF ListInv, LocalInv
      <4> QED
        BY <2>0, <3>2, <4>1 DEF Lists, Writes, Id
    <3> QED
      BY <3>1, <3>2
  <2>2. ASSUME NEW v \in VersionIds, v \notin unlisted', config'[v] # NoConfig
        PROVE  v[1] \in names' /\ v \in versions'[v[1]]
    <3>1. PICK r \in Requests : v = GetVersionId(r)
      BY DEF VersionIds
    <3>2. v[1] \in Names
      BY <3>1 DEF Names, GetVersionId
    <3>3. CASE config[v] # NoConfig
      BY Zenon, <2>0, <2>2, <3>2, <3>3 DEF ListInv, StoredIsListed
    <3>4. CASE config[v] = NoConfig
      <4>1. Writes(c) /\ v = Id(c)
        BY <2>0, <2>2, <3>4 DEF Set, LocalInv, TypeOK
      <4>2. Lists(c) /\ Id(c)[1] = req[c].name
        BY Zenon, IdTyped DEF ListInv, LocalInv
      <4> QED
        BY Zenon, <2>0, <2>2, <3>2, <4>1, <4>2 DEF Lists
    <3> QED
      BY <3>3, <3>4
  <2> QED
    BY Zenon, <2>1, <2>2 DEF ListInv, StoredIsListed
<1>2. CASE UNCHANGED vars
  BY <1>2 DEF vars, redis, aux, ListInv, StoredIsListed, Lists, Writes, Id
<1> QED
  BY <1>1, <1>2, NextIsCallStep

\* Every stored configuration is listed, unless an SADD failed for it.
THEOREM StoredStaysListed == Spec => []StoredIsListed
<1>1. Init => ListInv
  BY DEF Init, ListInv, StoredIsListed, Lists, Writes
<1>2. ListInv => StoredIsListed
  BY DEF ListInv
<1> QED
  BY <1>1, <1>2, LocalInit, LocalStep, ListStep, PTL DEF Spec

\* A version that is listed and not stored is owed by a call that is past its
\* checks: it is about to put, or has failed or crashed.
Owed(v) ==
  \E c \in Calls : Id(c) = v /\ pc[c] \in {"put", "done"} /\ ret[c] \in {"none", "Internal"}

OwedInv == \A n \in Names : \A v \in versions[n] : config[v] = NoConfig => Owed(v)

\* A version is listed by a call that then owes it.
LEMMA ListedIsOwed ==
  ASSUME LocalInv, NEW c \in Calls, CallStep(c), NEW n \in Names, NEW v \in versions'[n],
         v \notin versions[n]
  PROVE  Id(c) = v /\ pc'[c] = "put" /\ ret'[c] = "none"
<1>0. /\ pc = [x \in Calls |-> pc[x]] /\ versions = [m \in Names |-> versions[m]]
      /\ pc[c] # "done" => ret[c] = "none"
  BY Zenon DEF LocalInv, Local, TypeOK
<1>1. AddVersion(c)
  BY Zenon
     DEF CallStep, Step, Start, Refuse, Exists, ExistsFails, AddName, Put, PutTimesOut, PutFails,
     LateSet, Crash, redis
<1> QED
  BY <1>0, <1>1 DEF AddVersion, Goto

\* A call stops owing its version only by storing it.
LEMMA OwedUntilStored ==
  ASSUME LocalInv, NEW c \in Calls, CallStep(c), pc[c] \in {"put", "done"},
         ret[c] \in {"none", "Internal"}
  PROVE  Set(c) \/ (pc'[c] \in {"put", "done"} /\ ret'[c] \in {"none", "Internal"})
<1>0. pc = [x \in Calls |-> pc[x]] /\ ret = [x \in Calls |-> ret[x]]
  BY DEF LocalInv, TypeOK
<1>1. Put(c) \/ PutTimesOut(c) \/ PutFails(c) \/ LateSet(c) \/ Crash(c)
  BY Zenon DEF CallStep, Step, Start, Refuse, Exists, ExistsFails, AddName, AddVersion
<1> QED
  BY <1>0, <1>1 DEF Put, PutTimesOut, PutFails, LateSet, Crash, Goto, Return

\* A step keeps every version that cannot be read owed.
LEMMA OwedStep == LocalInv /\ OwedInv /\ [Next]_vars => OwedInv'
<1> SUFFICES ASSUME LocalInv, OwedInv, [Next]_vars PROVE OwedInv'
  OBVIOUS
<1>1. ASSUME NEW c \in Calls, CallStep(c) PROVE OwedInv'
  <2>0. /\ req' = req
        /\ \A d \in Calls : d # c => pc'[d] = pc[d] /\ ret'[d] = ret[d]
    BY Zenon, <1>1, StepShape
  <2> SUFFICES ASSUME NEW n \in Names, NEW v \in versions'[n], config'[v] = NoConfig
               PROVE  Owed(v)'
    BY DEF OwedInv
  <2>1. CASE v \notin versions[n]
    BY <1>1, <2>0, <2>1, ListedIsOwed DEF Owed, Id
  <2>2. CASE v \in versions[n]
    <3>1. v \in VersionIds
      BY <2>2 DEF LocalInv, TypeOK
    <3>2. config[v] = NoConfig
      BY <3>1, NeverRemoved
    <3>3. PICK d \in Calls : /\ Id(d) = v /\ pc[d] \in {"put", "done"}
                             /\ ret[d] \in {"none", "Internal"}
      BY Zenon, <2>2, <3>2 DEF OwedInv, Owed
    <3>4. d = c => ~Set(c)
      <4>1. req[c] # NoConfig
        BY IdTyped DEF LocalInv
      <4> QED
        BY Zenon, <3>1, <3>3, <4>1 DEF Set, LocalInv, TypeOK
    <3>5. pc'[d] \in {"put", "done"} /\ ret'[d] \in {"none", "Internal"}
      BY <1>1, <2>0, <3>3, <3>4, OwedUntilStored
    <3> QED
      BY Zenon, <2>0, <3>3, <3>5 DEF Owed, Id
  <2> QED
    BY Zenon, <2>1, <2>2
<1>2. CASE UNCHANGED vars
  BY <1>2 DEF vars, redis, OwedInv, Owed, Id
<1> QED
  BY <1>1, <1>2, NextIsCallStep

\* StreamAllConfigurations fails only on versions that are being put, or whose
\* put failed or crashed.
THEOREM UnreadableIsOwed == Spec => []UnreadableOnlyAfterFailure
<1>1. Init => OwedInv
  BY DEF Init, OwedInv
<1>2. OwedInv => UnreadableOnlyAfterFailure
  BY DEF OwedInv, Owed, UnreadableOnlyAfterFailure
<1> QED
  BY <1>1, <1>2, LocalInit, LocalStep, OwedStep, PTL DEF Spec

-----------------------------------------------------------------------------
(* The readers                                                             *)

\* Every configuration is stored under its own id.
KeyInv == \A v \in VersionIds : config[v] # NoConfig => GetVersionId(config[v]) = v

\* All that is proved about the writers, in one.
StoreInv == LocalInv /\ RaceInv /\ AcknowledgedIsStored /\ ListInv /\ KeyInv

\* A SET is made under the id of the configuration.
LEMMA KeyStep == LocalInv /\ KeyInv /\ [Next]_vars => KeyInv'
<1> SUFFICES ASSUME LocalInv, KeyInv, [Next]_vars, NEW v \in VersionIds, config'[v] # NoConfig
             PROVE  GetVersionId(config'[v]) = v
  BY DEF KeyInv
<1>1. ASSUME NEW c \in Calls, CallStep(c) PROVE GetVersionId(config'[v]) = v
  <2>1. config' = config \/ Set(c)
    BY Zenon, <1>1, StepShape
  <2>2. Set(c) => config'[v] = IF v = Id(c) THEN req[c] ELSE config[v]
    BY IdTyped DEF Set, LocalInv, TypeOK
  <2> QED
    BY Zenon, <2>1, <2>2 DEF KeyInv, Id
<1>2. CASE UNCHANGED vars
  BY <1>2 DEF vars, redis, KeyInv
<1> QED
  BY <1>1, <1>2, NextIsCallStep

\* Nothing is stored and no call has started.
LEMMA StoreInit == Init => StoreInv
<1>1. Init => AcknowledgedIsStored /\ ListInv /\ KeyInv
  BY DEF Init, AcknowledgedIsStored, ListInv, StoredIsListed, Lists, Writes, KeyInv
<1> QED
  BY Zenon, <1>1, LocalInit, RaceInit DEF StoreInv

\* The parts of the invariant are kept together.
LEMMA StoreStep == StoreInv /\ [Next]_vars => StoreInv'
BY LocalStep, RaceStep, AckStep, ListStep, KeyStep DEF StoreInv

\* Where a reader is fits its method.
Placed(r) ==
  /\ at[r] # "new" => query[r] \in Queries
  /\ at[r] # "done" => status[r] = "none"
  /\ at[r] = "get" => cur[r] \in VersionIds
  /\ query[r] \in Queries =>
       CASE query[r].method = "StreamAllConfigurations" ->
              at[r] \in {"list", "loop", "get"} => query[r].name # Unset
         [] query[r].method = "GetAllConfigurations" -> at[r] \in {"list", "done"}
         [] OTHER -> at[r] \in {"get", "done"}

\* What is acknowledged when a reader begins is stored.
Promised(r) ==
  \A v \in acked[r] :
    /\ v \in VersionIds /\ config[v] # NoConfig
    /\ query[r] \in Queries /\ query[r].name \in {Unset, v[1]}

\* A version that a stream owes its client: still to be read, or sent.
Streamed(r, v) ==
  \/ at[r] # "done" /\ v \in todo[r]
  \/ at[r] = "get" /\ cur[r] = v
  \/ \E cfg \in sent[r] : GetVersionId(cfg) = v

\* Once it has its list, a reader misses nothing of what was acknowledged.
Complete(r) ==
  /\ query[r] \in Queries /\ query[r].method = "StreamAllConfigurations"
       /\ (at[r] \in {"loop", "get"} \/ status[r] = "OK") =>
       \A v \in acked[r] \ unlisted : Streamed(r, v)
  /\ query[r] \in Queries /\ query[r].method = "GetAllConfigurations" /\ status[r] = "OK" =>
       \A v \in acked[r] \ unlisted : v \in todo[r] \/ v[1] \in found[r]

ReaderInv ==
  ReadersTypeOK /\ ReadIsCurrent /\ \A r \in Readers : Placed(r) /\ Promised(r) /\ Complete(r)

\* Initially no reader has begun.
LEMMA ReaderInit == ReadersInit => ReaderInv
<1> SUFFICES ASSUME ReadersInit PROVE ReaderInv
  OBVIOUS
<1>1. ReadersTypeOK /\ ReadIsCurrent
  BY DEF ReadersInit, ReadersTypeOK, ReadIsCurrent, Statuses
<1>2. ASSUME NEW r \in Readers PROVE Placed(r) /\ Promised(r) /\ Complete(r)
  BY QueriesAssumption DEF ReadersInit, Placed, Promised, Complete
<1> QED
  BY <1>1, <1>2 DEF ReaderInv

\* A step of a writer takes nothing from a reader.
LEMMA WriterKeeps ==
  ASSUME StoreInv, ReaderInv, Next, UNCHANGED readers
  PROVE  ReaderInv'
<1>0. /\ query' = query /\ at' = at /\ todo' = todo /\ cur' = cur /\ found' = found
      /\ sent' = sent /\ status' = status /\ acked' = acked
  BY DEF readers
<1>1. ReadersTypeOK'
  BY <1>0 DEF ReaderInv, ReadersTypeOK
<1>2. PICK c \in Calls : CallStep(c)
  BY Zenon, NextIsCallStep
<1>3. raced \subseteq raced' /\ unlisted \subseteq unlisted'
  BY Zenon, <1>2, StepShape, ListsGrow DEF StoreInv
<1>4. ReadIsCurrent'
  <2> SUFFICES ASSUME NEW r \in Readers, NEW cfg \in sent[r], GetVersionId(cfg) \notin raced'
               PROVE  config'[GetVersionId(cfg)] = cfg
    BY <1>0 DEF ReadIsCurrent
  <2>1. cfg \in Requests /\ cfg # NoConfig /\ GetVersionId(cfg) \in VersionIds
    BY RequestsAssumption, NoConfigAssumption DEF ReaderInv, ReadersTypeOK, VersionIds
  <2>2. config[GetVersionId(cfg)] = cfg
    BY <1>3 DEF ReaderInv, ReadIsCurrent
  <2> QED
    BY Zenon, <1>3, <2>1, <2>2, StoredStays DEF StoreInv
<1>5. ASSUME NEW r \in Readers PROVE (Placed(r) /\ Promised(r) /\ Complete(r))'
  <2>1. Placed(r)' /\ Complete(r)'
    BY Zenon, <1>0, <1>3 DEF ReaderInv, Placed, Complete, Streamed
  <2>2. Promised(r)'
    BY Zenon, <1>0, NeverRemoved DEF ReaderInv, Promised, StoreInv
  <2> QED
    BY <2>1, <2>2
<1> QED
  BY <1>1, <1>4, <1>5 DEF ReaderInv

\* What a step of reader r leaves alone.
OthersKept(r) ==
  /\ UNCHANGED vars
  /\ \A x \in Readers : x # r =>
       /\ query'[x] = query[x] /\ at'[x] = at[x] /\ todo'[x] = todo[x] /\ cur'[x] = cur[x]
       /\ found'[x] = found[x] /\ sent'[x] = sent[x] /\ status'[x] = status[x]
       /\ acked'[x] = acked[x]

\* If a step of reader r keeps its own part of the invariant it keeps it all.
LEMMA OwnPartIsEnough ==
  ASSUME ReaderInv, NEW r \in Readers, OthersKept(r), ReadersTypeOK',
         (Placed(r) /\ Promised(r) /\ Complete(r))',
         \A cfg \in sent'[r] : GetVersionId(cfg) \in raced \/ config[GetVersionId(cfg)] = cfg
  PROVE  ReaderInv'
<1>1. config' = config /\ raced' = raced /\ unlisted' = unlisted
  BY DEF OthersKept, vars, redis, aux
<1>2. ASSUME NEW x \in Readers PROVE (Placed(x) /\ Promised(x) /\ Complete(x))'
  <2>1. CASE x # r
    <3>1. Placed(x) /\ Promised(x) /\ Complete(x)
      BY Zenon DEF ReaderInv
    <3>2. /\ query'[x] = query[x] /\ at'[x] = at[x] /\ todo'[x] = todo[x] /\ cur'[x] = cur[x]
          /\ found'[x] = found[x] /\ sent'[x] = sent[x] /\ status'[x] = status[x]
          /\ acked'[x] = acked[x]
      BY <2>1 DEF OthersKept
    <3>3. Placed(x)'
      BY <3>1, <3>2 DEF Placed
    <3>4. Promised(x)'
      BY <1>1, <3>1, <3>2 DEF Promised
    <3>5. Complete(x)'
      BY Zenon, <1>1, <3>1, <3>2 DEF Complete, Streamed
    <3> QED
      BY Zenon, <3>3, <3>4, <3>5
  <2> QED
    BY Zenon, <2>1
<1>3. ReadIsCurrent'
  BY Zenon, <1>1 DEF OthersKept, ReaderInv, ReadIsCurrent
<1> QED
  BY Zenon, <1>2, <1>3 DEF ReaderInv

\* The ids that a reader counts as acknowledged are those of stored
\* configurations.
LEMMA BeginKeeps ==
  ASSUME StoreInv, ReaderInv, NEW r \in Readers, NEW q \in Queries, Begin(r, q)
  PROVE  ReaderInv'
<1>0. /\ q \in Query /\ (q.method = "GetConfiguration" => q.id \in VersionIds)
      /\ status[r] = "none" /\ sent'[r] = sent[r] /\ ReadersTypeOK
  BY Zenon, QueriesAssumption DEF ReaderInv, Placed, Begin
<1>1. ASSUME NEW v \in acked'[r]
      PROVE  v \in VersionIds /\ config[v] # NoConfig /\ q.name \in {Unset, v[1]}
  <2>1. PICK c \in Calls : ret[c] = "OK" /\ q.name \in {Unset, req[c].name} /\ v = Id(c)
    BY Zenon, <1>0, <1>1 DEF Begin, ReadersTypeOK
  <2>2. Id(c) \in VersionIds /\ Id(c)[1] = req[c].name
    BY Zenon, IdTyped DEF StoreInv, LocalInv
  <2> QED
    BY Zenon, <2>1, <2>2 DEF StoreInv, AcknowledgedIsStored
<1>2. acked'[r] \subseteq VersionIds
  BY Zenon, <1>1
<1>3. ReadersTypeOK'
  BY Zenon, <1>0, <1>2 DEF Begin, Moves, Answers, ReadersTypeOK, Query, Statuses
<1>4. OthersKept(r)
  BY Zenon, <1>0 DEF Begin, Moves, Answers, OthersKept, ReadersTypeOK
<1>5. query'[r] = q /\ cur'[r] = q.id /\ config' = config
  BY Zenon, <1>0 DEF Begin, ReadersTypeOK, vars, redis
<1>6. Promised(r)'
  BY <1>1, <1>5 DEF Promised
<1>7. CASE q.method = "StreamAllConfigurations" /\ q.name = Unset
  <2>1. at'[r] = "done" /\ status'[r] = "InvalidArgument"
    BY <1>0, <1>7 DEF Begin, Moves, Answers, ReadersTypeOK
  <2>2. (Placed(r) /\ Complete(r))'
    BY Zenon, <1>5, <1>7, <2>1 DEF Placed, Complete
  <2> QED
    BY Zenon, <1>0, <1>3, <1>4, <1>6, <2>2, OwnPartIsEnough DEF ReaderInv, ReadIsCurrent
<1>8. CASE ~(q.method = "StreamAllConfigurations" /\ q.name = Unset)
  <2>1. /\ at'[r] = (IF q.method = "GetConfiguration" THEN "get" ELSE "list")
        /\ status'[r] = "none"
    BY <1>0, <1>8 DEF Begin, Moves, ReadersTypeOK
  <2>2. q.method \in Methods
    BY <1>0 DEF Query
  <2>3. (Placed(r) /\ Complete(r))'
    BY <1>0, <1>5, <1>8, <2>1, <2>2 DEF Placed, Complete, Methods
  <2> QED
    BY Zenon, <1>0, <1>3, <1>4, <1>6, <2>3, OwnPartIsEnough DEF ReaderInv, ReadIsCurrent
<1> QED
  BY <1>7, <1>8

\* The list has every acknowledged configuration, because what is stored is listed.
LEMMA ListKeeps ==
  ASSUME StoreInv, ReaderInv, NEW r \in Readers, GetAllConfigurations(r)
  PROVE  ReaderInv'
<1>0. /\ ReadersTypeOK /\ Placed(r) /\ Promised(r) /\ at[r] = "list"
      /\ query[r] \in Queries /\ query[r] \in Query
  BY QueriesAssumption DEF ReaderInv, GetAllConfigurations, Placed
<1>1. /\ names \subseteq Names /\ GetAllVersions(query[r].name) \subseteq VersionIds
  BY Zenon DEF StoreInv, LocalInv, TypeOK, GetAllVersions
<1>2. ReadersTypeOK'
  <2>1. found' \in [Readers -> SUBSET Names] /\ todo' \in [Readers -> SUBSET VersionIds]
    BY Zenon, <1>0, <1>1 DEF GetAllConfigurations, GetAllConfigs, ReadersTypeOK
  <2>2. acked' \in [Readers -> SUBSET VersionIds]
    BY Zenon, <1>0 DEF GetAllConfigurations, ReadersTypeOK
  <2> QED
    BY <1>0, <2>1, <2>2 DEF GetAllConfigurations, Moves, Answers, ReadersTypeOK, Statuses
<1>3. OthersKept(r)
  BY <1>0 DEF GetAllConfigurations, Moves, Answers, OthersKept, ReadersTypeOK
<1>4. /\ query' = query /\ cur' = cur /\ sent' = sent /\ config' = config /\ unlisted' = unlisted
      /\ acked'[r] \in {acked[r], {}}
  BY Zenon, <1>0 DEF GetAllConfigurations, ReadersTypeOK, vars, redis, aux
<1>5. Promised(r)'
  BY <1>0, <1>4 DEF Promised
<1>6. query[r].method \in {"StreamAllConfigurations", "GetAllConfigurations"}
  BY <1>0 DEF Placed, Query, Methods
<1>7. Placed(r)'
  BY Zenon, <1>0, <1>4, <1>6 DEF GetAllConfigurations, Moves, Answers, Placed, ReadersTypeOK
<1>8. ASSUME NEW v \in acked'[r] \ unlisted
      PROVE  IF query[r].name = Unset THEN v[1] \in found'[r] ELSE v \in todo'[r]
  <2>1. acked'[r] = acked[r] /\ v \in acked[r]
    BY Zenon, <1>4, <1>8
  <2>2. v \in VersionIds /\ config[v] # NoConfig /\ query[r].name \in {Unset, v[1]}
    BY <1>0, <2>1 DEF Promised
  <2>3. v[1] \in names /\ v \in versions[v[1]]
    BY <1>8, <2>2 DEF StoreInv, ListInv, StoredIsListed
  <2>4. v[1] \in Names
    BY Zenon, <1>1, <2>3
  <2>5. /\ query[r].name = Unset => found'[r] = names
        /\ query[r].name # Unset => todo'[r] = GetAllVersions(query[r].name)
    BY <1>0, <1>8, <2>1 DEF GetAllConfigurations, GetAllConfigs, ReadersTypeOK
  <2> QED
    BY <2>2, <2>3, <2>4, <2>5 DEF GetAllVersions
<1>9. query[r].method = "StreamAllConfigurations" =>
        query[r].name # Unset /\ at'[r] = "loop"
  BY <1>0 DEF Placed, GetAllConfigurations, Moves, ReadersTypeOK
<1>10. Complete(r)'
  BY Zenon, <1>4, <1>8, <1>9 DEF Complete, Streamed
<1> QED
  BY <1>2, <1>3, <1>4, <1>5, <1>7, <1>10, OwnPartIsEnough DEF ReaderInv, ReadIsCurrent

\* The loop of a stream moves an id from the list to the read.
LEMMA NextIdKeeps ==
  ASSUME StoreInv, ReaderInv, NEW r \in Readers, NextId(r)
  PROVE  ReaderInv'
<1>0. /\ ReadersTypeOK /\ Placed(r) /\ Promised(r) /\ Complete(r) /\ at[r] = "loop"
      /\ query[r] \in Queries /\ query[r] \in Query /\ query[r].method \in Methods
  BY Zenon, QueriesAssumption DEF ReaderInv, NextId, Placed, Query
<1>1. ReadersTypeOK'
  BY <1>0 DEF NextId, Moves, Answers, ReadersTypeOK, Statuses
<1>2. OthersKept(r)
  BY ZenonT(30), <1>0 DEF NextId, Moves, Answers, OthersKept, ReadersTypeOK
<1>3. /\ query' = query /\ sent' = sent /\ acked' = acked /\ config' = config
      /\ unlisted' = unlisted
  BY DEF NextId, vars, redis, aux
<1>4. query[r].method = "StreamAllConfigurations" /\ query[r].name # Unset
  BY <1>0 DEF Placed, Methods
<1>5. Promised(r)'
  BY Zenon, <1>0, <1>3 DEF Promised
<1>6. CASE todo[r] = {}
  <2>1. at'[r] = "done" /\ status'[r] = "OK"
    BY <1>0, <1>6 DEF NextId, Moves, Answers, ReadersTypeOK
  <2>2. (Placed(r) /\ Complete(r))'
    BY <1>0, <1>3, <1>4, <1>6, <2>1 DEF Placed, Complete, Streamed
  <2> QED
    BY Zenon, <1>1, <1>2, <1>3, <1>5, <2>2, OwnPartIsEnough DEF ReaderInv, ReadIsCurrent
<1>7. ASSUME NEW i \in todo[r],
             todo' = [todo EXCEPT ![r] = @ \ {i}], cur' = [cur EXCEPT ![r] = i],
             Moves(r, "get"), UNCHANGED status
      PROVE  ReaderInv'
  <2>1. /\ at'[r] = "get" /\ cur'[r] = i /\ todo'[r] = todo[r] \ {i} /\ status' = status
        /\ i \in VersionIds
    BY <1>0, <1>7 DEF Moves, ReadersTypeOK
  <2>2. (Placed(r) /\ Complete(r))'
    BY Zenon, <1>0, <1>3, <1>4, <2>1 DEF Placed, Complete, Streamed
  <2> QED
    BY Zenon, <1>1, <1>2, <1>3, <1>5, <2>2, OwnPartIsEnough DEF ReaderInv, ReadIsCurrent
<1> QED
  BY <1>6, <1>7 DEF NextId

\* A configuration that is read is the one of the id that was asked for.
LEMMA GetConfigKeeps ==
  ASSUME StoreInv, ReaderInv, NEW r \in Readers, GetConfig(r)
  PROVE  ReaderInv'
<1>0. /\ ReadersTypeOK /\ Placed(r) /\ Promised(r) /\ Complete(r) /\ at[r] = "get"
      /\ query[r] \in Queries /\ query[r] \in Query /\ query[r].method \in Methods
      /\ cur[r] \in VersionIds /\ config[cur[r]] # NoConfig
  BY Zenon, QueriesAssumption DEF ReaderInv, GetConfig, Placed, Query
<1>1. config[cur[r]] \in Requests /\ GetVersionId(config[cur[r]]) = cur[r]
  BY Zenon, <1>0 DEF StoreInv, LocalInv, TypeOK, KeyInv
<1>2. ReadersTypeOK'
  BY Zenon, <1>0, <1>1 DEF GetConfig, Moves, Answers, ReadersTypeOK, Statuses
<1>3. OthersKept(r)
  BY Zenon, <1>0 DEF GetConfig, Moves, Answers, OthersKept, ReadersTypeOK
<1>4. /\ query' = query /\ acked' = acked /\ config' = config /\ unlisted' = unlisted
      /\ todo' = todo /\ cur' = cur /\ sent'[r] = sent[r] \cup {config[cur[r]]}
  BY Zenon, <1>0 DEF GetConfig, ReadersTypeOK, vars, redis, aux
<1>5. Promised(r)'
  BY Zenon, <1>0, <1>4 DEF Promised
<1>6. query[r].method \in {"StreamAllConfigurations", "GetConfiguration"}
  BY Zenon, <1>0 DEF Placed, Methods
<1>7. /\ query[r].method = "StreamAllConfigurations" => at'[r] = "loop" /\ status' = status
      /\ query[r].method # "StreamAllConfigurations" => at'[r] = "done"
  BY <1>0 DEF GetConfig, Moves, Answers, ReadersTypeOK
<1>8. Placed(r)'
  BY Zenon, <1>0, <1>4, <1>6, <1>7 DEF Placed
<1>9. Complete(r)'
  BY ZenonT(30), <1>0, <1>1, <1>4, <1>6, <1>7 DEF Complete, Streamed
<1>10. \A cfg \in sent'[r] : GetVersionId(cfg) \in raced \/ config[GetVersionId(cfg)] = cfg
  BY <1>1, <1>4 DEF ReaderInv, ReadIsCurrent
<1> QED
  BY <1>2, <1>3, <1>5, <1>8, <1>9, <1>10, OwnPartIsEnough

\* A reader that ends with an error promises nothing.
LEMMA GetConfigFailsKeeps ==
  ASSUME StoreInv, ReaderInv, NEW r \in Readers, GetConfigFails(r)
  PROVE  ReaderInv'
<1>0. /\ ReadersTypeOK /\ Placed(r) /\ Promised(r) /\ at[r] = "get"
      /\ query[r] \in Queries /\ query[r] \in Query /\ query[r].method \in Methods
  BY Zenon, QueriesAssumption DEF ReaderInv, GetConfigFails, Placed, Query
<1>1. ReadersTypeOK'
  BY <1>0 DEF GetConfigFails, Moves, Answers, ReadersTypeOK, Statuses
<1>2. OthersKept(r)
  BY Zenon, <1>0 DEF GetConfigFails, Moves, Answers, OthersKept, ReadersTypeOK
<1>3. /\ query' = query /\ sent' = sent /\ acked' = acked /\ config' = config
      /\ at'[r] = "done" /\ status'[r] \in {"Unknown", "NotFound"}
  BY Zenon, <1>0 DEF GetConfigFails, Moves, Answers, ReadersTypeOK, vars, redis
<1>4. (Placed(r) /\ Promised(r) /\ Complete(r))'
  BY <1>0, <1>3 DEF Placed, Promised, Complete, Methods
<1> QED
  BY Zenon, <1>1, <1>2, <1>3, <1>4, OwnPartIsEnough DEF ReaderInv, ReadIsCurrent

\* Every step of a writer or of a reader keeps both invariants.
LEMMA ReadersStep ==
  StoreInv /\ ReaderInv /\ [ReadersNext]_allVars => StoreInv' /\ ReaderInv'
<1> SUFFICES ASSUME StoreInv, ReaderInv, [ReadersNext]_allVars PROVE StoreInv' /\ ReaderInv'
  OBVIOUS
<1>1. CASE Next /\ UNCHANGED readers
  BY <1>1, StoreStep, WriterKeeps
<1>2. ASSUME NEW r \in Readers, ReaderStep(r) PROVE StoreInv' /\ ReaderInv'
  <2>1. UNCHANGED vars
    BY Zenon, <1>2 DEF ReaderStep, GetAllConfigurations, NextId, GetConfig, GetConfigFails
  <2> QED
    BY <1>2, <2>1, StoreStep, ListKeeps, NextIdKeeps, GetConfigKeeps, GetConfigFailsKeeps
       DEF ReaderStep
<1>3. ASSUME NEW r \in Readers, NEW q \in Queries, Begin(r, q) PROVE StoreInv' /\ ReaderInv'
  <2>1. UNCHANGED vars
    BY Zenon, <1>3 DEF Begin
  <2> QED
    BY <1>3, <2>1, StoreStep, BeginKeeps
<1>4. CASE UNCHANGED allVars
  <2>1. UNCHANGED vars /\ UNCHANGED readers
    BY <1>4 DEF allVars
  <2>2. /\ config' = config /\ raced' = raced /\ unlisted' = unlisted
    BY <2>1 DEF vars, redis, aux
  <2>3. /\ query' = query /\ at' = at /\ todo' = todo /\ cur' = cur /\ found' = found
        /\ sent' = sent /\ status' = status /\ acked' = acked
    BY <2>1 DEF readers
  <2>4. ReaderInv'
    BY <2>2, <2>3 DEF ReaderInv, ReadersTypeOK, ReadIsCurrent, Placed, Promised, Complete, Streamed
  <2> QED
    BY <2>1, <2>4, StoreStep
<1> QED
  BY <1>1, <1>2, <1>3, <1>4 DEF ReadersNext

\* A configuration that was read is never out of date, so that it can be cached.
THEOREM ReadStaysCurrent == ReadersSpec => []ReadIsCurrent
<1>1. ReadersInit => StoreInv /\ ReaderInv
  BY StoreInit, ReaderInit DEF ReadersInit
<1>2. ReaderInv => ReadIsCurrent
  BY DEF ReaderInv
<1> QED
  BY <1>1, <1>2, ReadersStep, PTL DEF ReadersSpec

\* An answer OK has all that was acknowledged before the call began.
THEOREM AnswersAreComplete == ReadersSpec => []AnswerHasAcknowledged
<1>1. ReadersInit => StoreInv /\ ReaderInv
  BY StoreInit, ReaderInit DEF ReadersInit
<1>2. ReaderInv => AnswerHasAcknowledged
  <2> SUFFICES ASSUME ReaderInv, NEW r \in Readers, status[r] = "OK", NEW v \in acked[r] \ unlisted
               PROVE  CASE query[r].method = "StreamAllConfigurations" ->
                             \E cfg \in sent[r] : GetVersionId(cfg) = v
                        [] query[r].method = "GetAllConfigurations" ->
                             v \in todo[r] \/ v[1] \in found[r]
                        [] OTHER -> TRUE
    BY DEF AnswerHasAcknowledged
  <2>1. at[r] = "done" /\ query[r] \in Queries
    BY DEF ReaderInv, Placed
  <2> QED
    BY <2>1 DEF ReaderInv, Complete, Streamed
<1> QED
  BY <1>1, <1>2, ReadersStep, PTL DEF ReadersSpec

\* The readers change nothing in the store: what is proved of the calls of
\* PutConfiguration holds while they run.
THEOREM ReadersOnlyRead == ReadersSpec => Spec
<1>1. ReadersInit => Init
  BY DEF ReadersInit
<1>2. [ReadersNext]_allVars => [Next]_vars
  BY Zenon DEF ReadersNext, ReaderStep, Begin, GetAllConfigurations, NextId, GetConfig,
               GetConfigFails, allVars
<1> QED BY <1>1, <1>2, PTL DEF ReadersSpec, Spec

-----------------------------------------------------------------------------
(* Every call is bounded                                                   *)

Ahead(l) ==
  CASE l = "new" -> 6 [] l = "exists" -> 5 [] l = "names" -> 4 [] l = "versions" -> 3
    [] l = "put" -> 2 [] OTHER -> 0

\* A bound on the steps of a call still to come, SETs executed late included.
StepsLeft(c) == 2 * (MaxRetries - tries[c]) + Ahead(pc[c]) + late[c]

\* A step of a call changes no other call; it goes forward, leaving at most one SET
\* behind, or has used up an attempt, or such a SET is executed.
LEMMA CallAdvances ==
  ASSUME LocalInv, NEW c \in Calls, CallStep(c)
  PROVE  /\ \A d \in Calls \ {c} : pc'[d] = pc[d] /\ late'[d] = late[d] /\ tries'[d] = tries[d]
         /\ \/ /\ Ahead(pc'[c]) < Ahead(pc[c])
               /\ late'[c] = late[c] /\ tries'[c] = tries[c]
            \/ /\ pc[c] = "put" /\ pc'[c] = "done"
               /\ late'[c] = late[c] + 1 /\ tries'[c] = tries[c]
            \/ /\ pc'[c] = pc[c]
               /\ late'[c] = late[c] - 1 /\ tries'[c] = tries[c]
            \/ /\ pc[c] = "put" /\ pc'[c] \in {"put", "done"}
               /\ late'[c] \in {late[c], late[c] + 1} /\ tries'[c] = tries[c] + 1
<1>0. /\ DOMAIN pc = Calls /\ late \in [Calls -> Nat] /\ tries \in [Calls -> Nat]
      /\ pc[c] \in {"new", "exists", "names", "versions", "put", "done"}
  BY DEF LocalInv, TypeOK
<1>1. CASE Start(c) \/ Refuse(c) \/ Exists(c) \/ ExistsFails(c)
  BY <1>0, <1>1 DEF Start, Refuse, Exists, ExistsFails, Return, Goto, Ahead, redis
<1>2. CASE AddName(c) \/ AddVersion(c) \/ Put(c)
  BY <1>0, <1>2 DEF AddName, AddVersion, Put, Return, Goto, Ahead
<1>3. ASSUME Unanswered(c)
      PROVE  /\ \A d \in Calls \ {c} : late'[d] = late[d]
             /\ late'[c] \in {late[c], late[c] + 1}
  BY Zenon, <1>0, <1>3 DEF Unanswered
<1>4. CASE PutTimesOut(c)
  <2>1. \A d \in Calls \ {c} : pc'[d] = pc[d] /\ tries'[d] = tries[d]
    BY <1>0, <1>4 DEF PutTimesOut, Return, Goto
  <2>2. pc[c] = "put" /\ pc'[c] \in {"put", "done"} /\ tries'[c] = tries[c] + 1
    BY <1>0, <1>4 DEF PutTimesOut, Return, Goto
  <2> QED BY Zenon, <1>3, <1>4, <2>1, <2>2 DEF PutTimesOut
<1>5. CASE PutFails(c)
  <2>1. \A d \in Calls \ {c} : pc'[d] = pc[d] /\ tries'[d] = tries[d]
    BY <1>0, <1>5 DEF PutFails, Return, Goto
  <2>2. pc[c] = "put" /\ pc'[c] = "done" /\ tries'[c] = tries[c]
    BY Zenon, <1>0, <1>5 DEF PutFails, Return, Goto
  <2> QED BY <1>3, <1>5, <2>1, <2>2 DEF PutFails, Ahead
<1>6. CASE LateSet(c)
  BY <1>0, <1>6 DEF LateSet
<1>7. CASE Crash(c)
  <2>1. \A d \in Calls \ {c} : pc'[d] = pc[d] /\ tries'[d] = tries[d]
    BY <1>0, <1>7 DEF Crash, Goto
  <2>2. pc[c] \notin {"new", "done"} /\ pc'[c] = "done" /\ tries'[c] = tries[c]
    BY <1>0, <1>7 DEF Crash, InFlight, Goto
  <2>3. pc[c] = "put" \/ UNCHANGED late
    BY Zenon, <1>7 DEF Crash
  <2> QED BY <1>0, <1>3, <1>7, <2>1, <2>2, <2>3 DEF Crash, Ahead
<1> QED BY Zenon, <1>1, <1>2, <1>4, <1>5, <1>6, <1>7 DEF CallStep, Step

\* What the bound is made of.
LEMMA StepsBounded ==
  ASSUME LocalInv, NEW c \in Calls
  PROVE  /\ tries[c] \in Nat /\ late[c] \in Nat /\ MaxRetries \in Nat
         /\ Ahead(pc[c]) \in 0 .. 6 /\ StepsLeft(c) \in Nat
<1>1. /\ tries[c] \in Nat /\ tries[c] <= MaxRetries /\ late[c] \in Nat /\ MaxRetries \in Nat
  BY MaxRetriesAssumption DEF LocalInv, TypeOK
<1>2. Ahead(pc[c]) \in 0 .. 6
  BY DEF Ahead
<1> QED BY <1>1, <1>2 DEF StepsLeft

\* Every step brings one call nearer to its end and no other further from it: a
\* call of PutConfiguration, with all the SETs that it leaves behind, is over after
\* at most 2 * MaxRetries + 6 steps, whatever fails and whatever the others do.
THEOREM CallsAreBounded ==
  Spec => /\ [](\A c \in Calls : StepsLeft(c) \in Nat)
          /\ [][\E c \in Calls :
                  /\ StepsLeft(c)' < StepsLeft(c)
                  /\ \A d \in Calls \ {c} : StepsLeft(d)' = StepsLeft(d)]_vars
<1>1. LocalInv => \A c \in Calls : StepsLeft(c) \in Nat
  BY StepsBounded
<1>2. ASSUME LocalInv, LocalInv', Next
      PROVE  \E c \in Calls :
               /\ StepsLeft(c)' < StepsLeft(c)
               /\ \A d \in Calls \ {c} : StepsLeft(d)' = StepsLeft(d)
  <2>1. PICK c \in Calls : CallStep(c)
    BY <1>2, NextIsCallStep
  <2>2. /\ tries[c] \in Nat /\ late[c] \in Nat /\ MaxRetries \in Nat
        /\ Ahead(pc[c]) \in 0 .. 6
    BY <1>2, StepsBounded
  <2>3. Ahead("put") = 2 /\ Ahead("done") = 0 /\ Ahead(pc'[c]) \in 0 .. 6
    BY DEF Ahead
  <2>4. StepsLeft(c)' < StepsLeft(c)
    BY <1>2, <2>1, <2>2, <2>3, CallAdvances DEF StepsLeft
  <2>5. \A d \in Calls \ {c} : StepsLeft(d)' = StepsLeft(d)
    BY <1>2, <2>1, CallAdvances DEF StepsLeft
  <2> QED BY <2>4, <2>5
<1> QED BY <1>1, <1>2, LocalInit, LocalStep, PTL DEF Spec
=============================================================================
