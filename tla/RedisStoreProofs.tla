-------------------------- MODULE RedisStoreProofs --------------------------
(***************************************************************************)
(* The safety properties of RedisStore, for any calls, entities and        *)
(* numbers of retries, and any failures.                                   *)
(***************************************************************************)
EXTENDS RedisStore, SequenceTheorems, TLAPS

-----------------------------------------------------------------------------
(* The keys of plain names                                                 *)

\* The provers do not know that a literal is in STRING.
Tokens == STRING \cup {"configs", "fsm", "events", "outcome", ":", "#"}

\* The tokens of a concatenation.
LEMMA Concat ==
  ASSUME NEW s \in Seq(Tokens), NEW t \in Seq(Tokens)
  PROVE  /\ s \o t \in Seq(Tokens) /\ Len(s \o t) = Len(s) + Len(t)
         /\ \A i \in 1 .. Len(s) : (s \o t)[i] = s[i]
         /\ \A i \in 1 .. Len(t) : (s \o t)[Len(s) + i] = t[i]
<1> DEFINE u == s \o t
<1>1. Len(s) \in Nat /\ Len(t) \in Nat
  BY LenProperties
<1>2. /\ u \in Seq(Tokens) /\ Len(u) = Len(s) + Len(t)
      /\ \A i \in 1 .. Len(s) + Len(t) : u[i] = IF i <= Len(s) THEN s[i] ELSE t[i - Len(s)]
  BY ConcatProperties
<1> HIDE DEF u
<1>3. \A i \in 1 .. Len(s) : u[i] = s[i]
  BY <1>1, <1>2
<1>4. ASSUME NEW i \in 1 .. Len(t) PROVE u[Len(s) + i] = t[i]
  <2>1. Len(s) + i \in 1 .. Len(s) + Len(t) /\ ~(Len(s) + i <= Len(s)) /\ Len(s) + i - Len(s) = i
    BY <1>1
  <2> QED
    BY <1>2, <2>1
<1> QED
  BY <1>2, <1>3, <1>4 DEF u

\* k is the key prefix cfg middle id, token by token.
IsKey(k, p, c, m, d) ==
  /\ Len(k) = Len(p) + Len(c) + Len(m) + Len(d)
  /\ \A i \in 1 .. Len(p) : k[i] = p[i]
  /\ \A i \in 1 .. Len(c) : k[Len(p) + i] = c[i]
  /\ \A i \in 1 .. Len(m) : k[Len(p) + Len(c) + i] = m[i]
  /\ \A i \in 1 .. Len(d) : k[Len(p) + Len(c) + Len(m) + i] = d[i]

\* The concatenation of the four is such a key.
LEMMA KeyTokens ==
  ASSUME NEW p \in Seq(Tokens), NEW c \in Seq(Tokens), NEW m \in Seq(Tokens), NEW d \in Seq(Tokens)
  PROVE  IsKey(p \o c \o m \o d, p, c, m, d)
<1> DEFINE a == p \o c
           b == a \o m
           k == b \o d
<1>1. /\ a \in Seq(Tokens) /\ Len(a) = Len(p) + Len(c)
      /\ \A i \in 1 .. Len(p) : a[i] = p[i]
      /\ \A i \in 1 .. Len(c) : a[Len(p) + i] = c[i]
  BY Concat
<1>2. /\ b \in Seq(Tokens) /\ Len(b) = Len(a) + Len(m)
      /\ \A i \in 1 .. Len(a) : b[i] = a[i]
      /\ \A i \in 1 .. Len(m) : b[Len(a) + i] = m[i]
  <2> HIDE DEF a
  <2> QED BY Zenon, <1>1, Concat
<1>4. /\ k \in Seq(Tokens) /\ Len(k) = Len(b) + Len(d)
      /\ \A i \in 1 .. Len(b) : k[i] = b[i]
      /\ \A i \in 1 .. Len(d) : k[Len(b) + i] = d[i]
  <2> HIDE DEF a, b
  <2> QED BY Zenon, <1>2, Concat
<1> HIDE DEF a, b, k
<1>5. Len(p) \in Nat /\ Len(c) \in Nat /\ Len(m) \in Nat /\ Len(d) \in Nat
  BY LenProperties
<1>6. \A i \in 1 .. Len(p) : k[i] = p[i]
  <2> TAKE i \in 1 .. Len(p)
  <2>1. i \in 1 .. Len(a) /\ i \in 1 .. Len(b)
    BY <1>1, <1>2, <1>5
  <2> QED BY <1>1, <1>2, <1>4, <2>1
<1>7. \A i \in 1 .. Len(c) : k[Len(p) + i] = c[i]
  <2> TAKE i \in 1 .. Len(c)
  <2>1. Len(p) + i \in 1 .. Len(a) /\ Len(p) + i \in 1 .. Len(b)
    BY <1>1, <1>2, <1>5
  <2> QED BY <1>1, <1>2, <1>4, <2>1
<1>8. \A i \in 1 .. Len(m) : k[Len(p) + Len(c) + i] = m[i]
  <2> TAKE i \in 1 .. Len(m)
  <2>1. Len(a) + i \in 1 .. Len(b) /\ Len(a) + i = Len(p) + Len(c) + i
    BY <1>1, <1>2, <1>5
  <2> QED BY Zenon, <1>2, <1>4, <2>1
<1>9. \A i \in 1 .. Len(d) : k[Len(p) + Len(c) + Len(m) + i] = d[i]
  BY <1>1, <1>2, <1>4, <1>5
<1> QED
  <2>1. Len(k) = Len(p) + Len(c) + Len(m) + Len(d)
    BY <1>1, <1>2, <1>4, <1>5
  <2>2. IsKey(k, p, c, m, d)
    BY <1>6, <1>7, <1>8, <1>9, <2>1 DEF IsKey
  <2> QED BY <2>2 DEF k, b, a

\* cfg ends at the first separator after the prefix, if it is plain: two such
\* keys with the same prefix and middle have the same cfg and id.
LEMMA SameForm ==
  ASSUME NEW k, NEW p \in Seq(Tokens), NEW m \in Seq(Tokens), NEW t, Len(m) >= 1, m[1] = t,
         NEW c1 \in Seq(Tokens), NEW d1 \in Seq(Tokens),
         NEW c2 \in Seq(Tokens), NEW d2 \in Seq(Tokens),
         \A i \in 1 .. Len(c1) : c1[i] # t, \A i \in 1 .. Len(c2) : c2[i] # t,
         IsKey(k, p, c1, m, d1), IsKey(k, p, c2, m, d2)
  PROVE  c1 = c2 /\ d1 = d2
<1>1. /\ Len(p) \in Nat /\ Len(m) \in Nat /\ Len(c1) \in Nat /\ Len(c2) \in Nat
      /\ Len(d1) \in Nat /\ Len(d2) \in Nat
  BY LenProperties
<1>2. k[Len(p) + Len(c1) + 1] = t /\ k[Len(p) + Len(c2) + 1] = t
  <2>1. 1 \in 1 .. Len(m)
    BY <1>1
  <2> QED BY <2>1 DEF IsKey
<1>3. ~(Len(c1) < Len(c2))
  <2> SUFFICES ASSUME Len(c1) < Len(c2) PROVE FALSE
    OBVIOUS
  <2>1. Len(c1) + 1 \in 1 .. Len(c2) /\ Len(p) + (Len(c1) + 1) = Len(p) + Len(c1) + 1
    BY <1>1
  <2>2. k[Len(p) + (Len(c1) + 1)] = c2[Len(c1) + 1]
    BY <2>1 DEF IsKey
  <2> QED BY <1>2, <2>1, <2>2
<1>4. ~(Len(c2) < Len(c1))
  <2> SUFFICES ASSUME Len(c2) < Len(c1) PROVE FALSE
    OBVIOUS
  <2>1. Len(c2) + 1 \in 1 .. Len(c1) /\ Len(p) + (Len(c2) + 1) = Len(p) + Len(c2) + 1
    BY <1>1
  <2>2. k[Len(p) + (Len(c2) + 1)] = c1[Len(c2) + 1]
    BY <2>1 DEF IsKey
  <2> QED BY <1>2, <2>1, <2>2
<1>5. Len(c1) = Len(c2)
  BY <1>1, <1>3, <1>4
<1>6. Len(d1) = Len(d2)
  BY <1>1, <1>5 DEF IsKey
<1>7. c1 = c2
  <2>1. \A i \in 1 .. Len(c1) : c1[i] = c2[i]
    BY <1>5 DEF IsKey
  <2> QED BY <1>5, <2>1, SeqEqual
<1>8. d1 = d2
  <2>1. \A i \in 1 .. Len(d1) : d1[i] = d2[i]
    BY <1>5, <1>6 DEF IsKey
  <2> QED BY <1>6, <2>1, SeqEqual
<1> QED
  BY <1>7, <1>8

\* The key of an event and that of an outcome differ, if the cfg of both is plain.
LEMMA OtherForm ==
  ASSUME NEW k, NEW p \in Seq(Tokens), NEW m1 \in Seq(Tokens), NEW m2 \in Seq(Tokens),
         Len(m1) >= 1, Len(m2) >= 1, m1[1] = "#", m2[1] = ":",
         NEW c1 \in Seq(Tokens), NEW d1, NEW c2 \in Seq(Tokens), NEW d2,
         \A i \in 1 .. Len(c1) : c1[i] # ":", \A i \in 1 .. Len(c2) : c2[i] # "#",
         IsKey(k, p, c1, m1, d1), IsKey(k, p, c2, m2, d2)
  PROVE  FALSE
<1>1. /\ Len(p) \in Nat /\ Len(c1) \in Nat /\ Len(c2) \in Nat
      /\ 1 \in 1 .. Len(m1) /\ 1 \in 1 .. Len(m2)
  BY LenProperties
<1>2. k[Len(p) + Len(c1) + 1] = "#" /\ k[Len(p) + Len(c2) + 1] = ":"
  BY <1>1 DEF IsKey
<1>3. CASE Len(c1) < Len(c2)
  <2>1. Len(c1) + 1 \in 1 .. Len(c2) /\ Len(p) + (Len(c1) + 1) = Len(p) + Len(c1) + 1
    BY <1>1, <1>3
  <2>2. k[Len(p) + (Len(c1) + 1)] = c2[Len(c1) + 1]
    BY <2>1 DEF IsKey
  <2> QED BY <1>2, <2>1, <2>2
<1>4. CASE Len(c2) < Len(c1)
  <2>1. Len(c2) + 1 \in 1 .. Len(c1) /\ Len(p) + (Len(c2) + 1) = Len(p) + Len(c2) + 1
    BY <1>1, <1>4
  <2>2. k[Len(p) + (Len(c2) + 1)] = c1[Len(c2) + 1]
    BY <2>1 DEF IsKey
  <2> QED BY <1>2, <2>1, <2>2
<1>5. CASE Len(c1) = Len(c2)
  BY <1>2, <1>5
<1> QED
  BY <1>1, <1>3, <1>4, <1>5

\* The form of the key of each kind of entity.
LEMMA KeyForms ==
  ASSUME NEW e \in Entity
  PROVE  /\ e.kind = "config"  => IsKey(Key(e), <<"configs", "#">>, <<>>, <<>>, e.id)
         /\ e.kind = "fsm"     => IsKey(Key(e), <<"fsm", ":">>, e.cfg, <<"#">>, e.id)
         /\ e.kind = "event"   => IsKey(Key(e), <<"events", ":">>, e.cfg, <<"#">>, e.id)
         /\ e.kind = "outcome" =>
              IsKey(Key(e), <<"events", ":">>, e.cfg, <<":", "outcome", "#">>, e.id)
<1>1. e.cfg \in Seq(Tokens) /\ e.id \in Seq(Tokens)
  <2>1. e.cfg \in Seq(STRING) /\ e.id \in Seq(STRING) /\ STRING \subseteq Tokens
    BY DEF Entity, Name, Tokens
  <2> QED BY Zenon, <2>1, SeqMonotonic
<1>t. \A t \in {"configs", "fsm", "events", "outcome", ":", "#"} : t \in Tokens
  BY DEF Tokens
<1>2. CASE e.kind = "config"
  <2>1. Key(e) = <<"configs", "#">> \o e.id
    BY <1>2 DEF Key, NewKeyForConfig
  <2>2. <<"configs", "#">> \o <<>> \o <<>> \o e.id = <<"configs", "#">> \o e.id
    BY <1>1, ConcatEmptySeq
  <2>3. <<"configs", "#">> \in Seq(Tokens) /\ <<>> \in Seq(Tokens)
    BY <1>t
  <2> QED BY Zenon, <1>1, <1>2, <2>1, <2>2, <2>3, KeyTokens
<1>3. CASE e.kind = "fsm"
  <2>1. Key(e) = <<"fsm", ":">> \o e.cfg \o <<"#">> \o e.id
    BY Zenon, <1>3 DEF Key, NewKeyForMachine
  <2>2. <<"fsm", ":">> \in Seq(Tokens) /\ <<"#">> \in Seq(Tokens)
    BY <1>t
  <2> QED BY Zenon, <1>1, <1>3, <2>1, <2>2, KeyTokens
<1>4. CASE e.kind = "event"
  <2>1. Key(e) = <<"events", ":">> \o e.cfg \o <<"#">> \o e.id
    BY Zenon, <1>4 DEF Key, NewKeyForEvent
  <2>2. <<"events", ":">> \in Seq(Tokens) /\ <<"#">> \in Seq(Tokens)
    BY <1>t
  <2> QED BY Zenon, <1>1, <1>4, <2>1, <2>2, KeyTokens
<1>5. CASE e.kind = "outcome"
  <2>1. Key(e) = <<"events", ":">> \o e.cfg \o <<":", "outcome", "#">> \o e.id
    BY Zenon, <1>5 DEF Key, NewKeyForOutcome
  <2>2. <<"events", ":">> \in Seq(Tokens) /\ <<":", "outcome", "#">> \in Seq(Tokens)
    BY <1>t
  <2> QED BY Zenon, <1>1, <1>5, <2>1, <2>2, KeyTokens
<1> QED
  BY <1>2, <1>3, <1>4, <1>5 DEF Entity, Kinds

\* Entities with plain names are kept at keys of their own.
LEMMA PlainKeys ==
  ASSUME NEW e \in Entities, NEW f \in Entities, Plain(e), Plain(f), Key(e) = Key(f)
  PROVE  e = f
<1> DEFINE k == Key(e)
           P(x) == CASE x.kind = "config" -> <<"configs", "#">>
                     [] x.kind = "fsm"    -> <<"fsm", ":">>
                     [] OTHER             -> <<"events", ":">>
           C(x) == IF x.kind = "config" THEN <<>> ELSE x.cfg
           M(x) == CASE x.kind = "config"  -> <<>>
                     [] x.kind = "outcome" -> <<":", "outcome", "#">>
                     [] OTHER              -> <<"#">>
<1>1. /\ e \in Entity /\ (e.kind = "config" => e.cfg = <<>>)
      /\ f \in Entity /\ (f.kind = "config" => f.cfg = <<>>)
  BY RequestsAssumption DEF Entities, Request
<1>2. /\ e.cfg \in Seq(Tokens) /\ e.id \in Seq(Tokens)
      /\ f.cfg \in Seq(Tokens) /\ f.id \in Seq(Tokens)
  <2>1. /\ e.cfg \in Seq(STRING) /\ e.id \in Seq(STRING)
        /\ f.cfg \in Seq(STRING) /\ f.id \in Seq(STRING) /\ STRING \subseteq Tokens
    BY <1>1 DEF Entity, Name, Tokens
  <2> QED BY Zenon, <2>1, SeqMonotonic
<1>3. /\ \A i \in 1 .. Len(e.cfg) : e.cfg[i] # ":" /\ e.cfg[i] # "#"
      /\ \A i \in 1 .. Len(f.cfg) : f.cfg[i] # ":" /\ f.cfg[i] # "#"
  BY <1>2, LenProperties DEF Plain
<1>4. \A t \in {"configs", "fsm", "events", "outcome", ":", "#"} : t \in Tokens
  BY DEF Tokens
<1>5. IsKey(k, P(e), C(e), M(e), e.id) /\ IsKey(k, P(f), C(f), M(f), f.id)
  BY <1>1, KeyForms DEF Entity, Kinds
<1>6. /\ e.kind \in {"config", "fsm", "event", "outcome"}
      /\ f.kind \in {"config", "fsm", "event", "outcome"}
      /\ e = [kind |-> e.kind, cfg |-> e.cfg, id |-> e.id]
      /\ f = [kind |-> f.kind, cfg |-> f.cfg, id |-> f.id]
  BY <1>1 DEF Entity, Kinds
<1>7. P(e)[1] = P(f)[1]
  <2>1. 1 \in 1 .. Len(P(e)) /\ 1 \in 1 .. Len(P(f))
    BY <1>6
  <2> HIDE DEF P, C, M, k
  <2>2. k[1] = P(e)[1]
    BY Zenon, <1>5, <2>1 DEF IsKey
  <2>3. k[1] = P(f)[1]
    BY Zenon, <1>5, <2>1 DEF IsKey
  <2> QED BY <2>2, <2>3
<1>8. CASE e.kind = "config"
  <2>1. f.kind = "config"
    BY <1>6, <1>7, <1>8
  <2>2. /\ IsKey(k, <<"configs", "#">>, <<>>, <<>>, e.id)
        /\ IsKey(k, <<"configs", "#">>, <<>>, <<>>, f.id)
    BY <1>5, <1>8, <2>1
  <2>3. e.id = f.id
    <3> HIDE DEF k
    <3>1. Len(<<"configs", "#">>) = 2 /\ Len(<<>>) = 0 /\ Len(e.id) \in Nat /\ Len(f.id) \in Nat
      BY <1>2, LenProperties
    <3>2. Len(e.id) = Len(f.id)
      BY <2>2, <3>1 DEF IsKey
    <3>3. \A i \in 1 .. Len(e.id) : e.id[i] = f.id[i]
      BY <2>2, <3>2 DEF IsKey
    <3> QED BY Zenon, <1>2, <3>2, <3>3, SeqEqual
  <2> QED BY <1>1, <1>6, <1>8, <2>1, <2>3
<1>9. CASE e.kind # "config" /\ e.kind = f.kind
  <2>1. /\ P(e) \in Seq(Tokens) /\ M(e) \in Seq(Tokens) /\ Len(M(e)) >= 1
        /\ M(e)[1] \in {":", "#"}
        /\ P(f) = P(e) /\ M(f) = M(e) /\ C(e) = e.cfg /\ C(f) = f.cfg
    BY <1>4, <1>6, <1>9
  <2> HIDE DEF P, C, M, k
  <2>2. IsKey(k, P(e), e.cfg, M(e), e.id) /\ IsKey(k, P(e), f.cfg, M(e), f.id)
    BY <1>5, <2>1
  <2>3. /\ \A i \in 1 .. Len(e.cfg) : e.cfg[i] # M(e)[1]
        /\ \A i \in 1 .. Len(f.cfg) : f.cfg[i] # M(e)[1]
    BY <1>3, <2>1
  <2>4. e.cfg = f.cfg /\ e.id = f.id
    BY <1>2, <2>1, <2>2, <2>3, SameForm
  <2> QED BY <1>6, <1>9, <2>4
<1>10. CASE e.kind = "event" /\ f.kind = "outcome"
  <2>1. /\ P(e) \in Seq(Tokens) /\ M(e) \in Seq(Tokens) /\ M(f) \in Seq(Tokens)
        /\ Len(M(e)) >= 1 /\ Len(M(f)) >= 1 /\ M(e)[1] = "#" /\ M(f)[1] = ":"
        /\ P(f) = P(e) /\ C(e) = e.cfg /\ C(f) = f.cfg
    BY <1>4, <1>10
  <2> HIDE DEF P, C, M, k
  <2>2. IsKey(k, P(e), e.cfg, M(e), e.id) /\ IsKey(k, P(e), f.cfg, M(f), f.id)
    BY <1>5, <2>1
  <2> QED BY Zenon, <1>2, <1>3, <2>1, <2>2, OtherForm
<1>11. CASE e.kind = "outcome" /\ f.kind = "event"
  <2>1. /\ P(e) \in Seq(Tokens) /\ M(e) \in Seq(Tokens) /\ M(f) \in Seq(Tokens)
        /\ Len(M(e)) >= 1 /\ Len(M(f)) >= 1 /\ M(f)[1] = "#" /\ M(e)[1] = ":"
        /\ P(f) = P(e) /\ C(e) = e.cfg /\ C(f) = f.cfg
    BY <1>4, <1>11
  <2> HIDE DEF P, C, M, k
  <2>2. IsKey(k, P(e), f.cfg, M(f), f.id) /\ IsKey(k, P(e), e.cfg, M(e), e.id)
    BY <1>5, <2>1
  <2> QED BY Zenon, <1>2, <1>3, <2>1, <2>2, OtherForm
<1>12. CASE e.kind # "config" /\ e.kind # f.kind /\ {e.kind, f.kind} # {"event", "outcome"}
  BY <1>6, <1>7, <1>12
<1> QED
  BY <1>6, <1>8, <1>9, <1>10, <1>11, <1>12

-----------------------------------------------------------------------------
(* The inductive invariant                                                 *)

\* What holds of each call by itself.
Local(c) ==
  /\ pc[c] = "new" => ret[c] = "none" /\ got[c] = Absent /\ late[c] = 0
  /\ pc[c] # "new" => req[c] \in Requests
  /\ pc[c] = "try" => ret[c] = "none" /\ (maxRetries > 0 => left[c] >= 1)
  /\ late[c] > 0 => req[c].op = "put"
  /\ got[c] # Absent => pc[c] = "done" /\ Key(got[c].entity) = KeyOf(c)

LocalInv == \A c \in Calls : Local(c)

\* An entity is kept at its own key.
DbInv == \A k \in Keys : db[k] # Absent => Key(db[k].entity) = k

\* Without contention only the last put of a key may still write to it.
WriteInv ==
  \A k \in Keys :
    /\ last[k] # Absent =>
         pc[last[k]] # "new" /\ req[last[k]].op = "put" /\ KeyOf(last[k]) = k
    /\ k \notin contended => \A d \in Calls :
         (At(d, "put") \/ late[d] > 0) /\ KeyOf(d) = k => d = last[k]

\* Keys are never deleted.
SeenInv ==
  \A c \in seen : pc[c] # "new" /\ req[c].op = "get" /\ db[KeyOf(c)] # Absent

Inv == TypeOK /\ LocalInv /\ DbInv /\ WriteInv /\ NilMeansStored /\ SeenInv /\ NotFoundIsTrue

\* The key and the values of a request.
LEMMA RequestKeys ==
  ASSUME NEW r \in Requests, NEW c \in Calls
  PROVE  /\ Key(r.entity) \in Keys /\ r.entity \in Entities
         /\ [entity |-> r.entity, by |-> c] \in Values
         /\ [entity |-> r.entity, by |-> c] # Absent
         /\ r # Absent /\ c # Absent
BY AbsentAssumption DEF Keys, Entities, Values

\* What a step of the loop of call c does.
LEMMA StepShape ==
  ASSUME TypeOK, LocalInv, NEW c \in Calls, Step(c)
  PROVE  /\ pc[c] = "try" /\ req[c] \in Requests
         /\ UNCHANGED <<maxRetries, req, aux>>
         /\ \E p \in {"try", "done"} : pc' = [pc EXCEPT ![c] = p]
         /\ \E r \in Results : ret' = [ret EXCEPT ![c] = r]
         /\ pc'[c] = "try" => ret' = ret /\ left'[c] # 0
         /\ CountDown(c)
         /\ \/ UNCHANGED db
            \/ Set(c) /\ req[c].op = "put"
         /\ \/ UNCHANGED late
            \/ late' = [late EXCEPT ![c] = @ + 1] /\ req[c].op = "put"
         /\ req[c].op = "get" /\ ret'[c] = "NotFound" => db[KeyOf(c)] = Absent
         /\ req[c].op = "put" /\ ret'[c] = "nil" => Set(c)
         /\ \/ UNCHANGED got
            \/ /\ got' = [got EXCEPT ![c] = db[KeyOf(c)]]
               /\ db[KeyOf(c)] # Absent /\ pc'[c] = "done"
<1> USE DEF At, Return, aux
<1>1. pc[c] = "try"
  BY DEF Step, GetReads, GetNotFound, GetTimesOut, GetFails, PutSets, PutTimesOut, PutFails
<1>2. /\ req[c] \in Requests /\ ret[c] = "none"
      /\ pc = [pc EXCEPT ![c] = "try"] /\ ret = [ret EXCEPT ![c] = "none"]
      /\ DOMAIN left = Calls /\ DOMAIN pc = Calls /\ DOMAIN ret = Calls
  BY <1>1 DEF LocalInv, Local, TypeOK
<1>3. CASE GetReads(c)
  BY <1>1, <1>2, <1>3 DEF GetReads, Results, TypeOK
<1>4. CASE GetNotFound(c)
  BY <1>1, <1>2, <1>4 DEF GetNotFound, Results, TypeOK
<1>5. CASE GetTimesOut(c)
  BY <1>1, <1>2, <1>5 DEF GetTimesOut, Tried, Results, TypeOK
<1>6. CASE GetFails(c)
  BY <1>1, <1>2, <1>6 DEF GetFails, Results, TypeOK
<1>7. CASE PutSets(c)
  BY <1>1, <1>2, <1>7 DEF PutSets, Results, TypeOK
<1>8. CASE PutTimesOut(c)
  BY <1>1, <1>2, <1>8 DEF PutTimesOut, Unanswered, Tried, Results, TypeOK
<1>9. CASE PutFails(c)
  BY <1>1, <1>2, <1>9 DEF PutFails, Unanswered, Results, TypeOK
<1> QED
  BY Zenon, <1>3, <1>4, <1>5, <1>6, <1>7, <1>8, <1>9 DEF Step

\* The initial states.
LEMMA InitInv == Init => Inv
<1> SUFFICES ASSUME Init PROVE Inv
  OBVIOUS
<1>1. TypeOK
  BY RetriesAssumption DEF Init, TypeOK, Results
<1>2. LocalInv
  <2> SUFFICES ASSUME NEW c \in Calls PROVE Local(c)
    BY Zenon DEF LocalInv
  <2>1. pc[c] = "new" /\ ret[c] = "none" /\ got[c] = Absent /\ late[c] = 0
    BY DEF Init
  <2> QED BY <2>1 DEF Local
<1>3. DbInv /\ WriteInv /\ NilMeansStored /\ SeenInv /\ NotFoundIsTrue
  BY DEF Init, DbInv, WriteInv, NilMeansStored, SeenInv, NotFoundIsTrue, At
<1> QED
  BY <1>1, <1>2, <1>3 DEF Inv

\* A step of the loop of a call preserves the invariant.
LEMMA StepInv ==
  ASSUME Inv, NEW c \in Calls, Step(c)
  PROVE  Inv'
<1>1. TypeOK /\ LocalInv /\ DbInv /\ WriteInv /\ NilMeansStored /\ SeenInv /\ NotFoundIsTrue
  BY DEF Inv
<1>2. /\ pc[c] = "try" /\ req[c] \in Requests
      /\ maxRetries' = maxRetries /\ req' = req
      /\ last' = last /\ contended' = contended /\ seen' = seen
  BY <1>1, StepShape DEF aux
<1>3. PICK p \in {"try", "done"} : pc' = [pc EXCEPT ![c] = p]
  BY <1>1, StepShape
<1>4. PICK r \in Results : ret' = [ret EXCEPT ![c] = r]
  BY <1>1, StepShape
<1>5. pc'[c] = "try" => ret' = ret /\ left'[c] # 0
  BY <1>1, StepShape
<1>6. left' = [left EXCEPT ![c] = IF @ > - Exhausted THEN @ - 1 ELSE -1]
  BY <1>1, StepShape DEF CountDown
<1>7. \/ db' = db
      \/ db' = [db EXCEPT ![KeyOf(c)] = [entity |-> req[c].entity, by |-> c]] /\ req[c].op = "put"
  BY <1>1, StepShape DEF Set
<1>8. late' = late \/ (late' = [late EXCEPT ![c] = @ + 1] /\ req[c].op = "put")
  BY <1>1, StepShape
<1>9. req[c].op = "get" /\ ret'[c] = "NotFound" => db[KeyOf(c)] = Absent
  BY <1>1, StepShape
<1>10. req[c].op = "put" /\ ret'[c] = "nil" =>
         db' = [db EXCEPT ![KeyOf(c)] = [entity |-> req[c].entity, by |-> c]]
  BY <1>1, StepShape DEF Set
<1>11. \/ got' = got
       \/ got' = [got EXCEPT ![c] = db[KeyOf(c)]] /\ db[KeyOf(c)] # Absent /\ pc'[c] = "done"
  BY <1>1, StepShape
<1>12. /\ KeyOf(c) \in Keys /\ [entity |-> req[c].entity, by |-> c] \in Values
       /\ [entity |-> req[c].entity, by |-> c] # Absent
  BY <1>2, RequestKeys DEF KeyOf
<1>13. \A d \in Calls : KeyOf(d)' = KeyOf(d)
  BY <1>2 DEF KeyOf
<1>14. TypeOK'
  <2>1. left' \in [Calls -> Int]
    BY <1>1, <1>6, RetriesAssumption DEF TypeOK
  <2>2. ASSUME NEW d \in Calls, maxRetries > 0 PROVE left'[d] \in 0 .. maxRetries
    <3>1. maxRetries \in Int /\ left[d] \in 0 .. maxRetries
      BY <1>1, <2>2, RetriesAssumption DEF TypeOK
    <3>2. CASE d = c
      BY <1>1, <1>2, <1>6, <2>2, <3>1, <3>2, RetriesAssumption DEF TypeOK, LocalInv, Local
    <3>3. CASE d # c
      BY <1>1, <1>6, <3>1, <3>3 DEF TypeOK
    <3> QED BY <3>2, <3>3
  <2>3. db' \in [Keys -> Values \cup {Absent}]
    BY <1>1, <1>7, <1>12 DEF TypeOK
  <2>4. got' \in [Calls -> Values \cup {Absent}]
    BY <1>1, <1>11, <1>12 DEF TypeOK
  <2>5. late' \in [Calls -> Nat]
    BY <1>1, <1>8 DEF TypeOK
  <2>6. pc' \in [Calls -> {"new", "try", "done"}] /\ ret' \in [Calls -> Results]
    BY <1>1, <1>3, <1>4 DEF TypeOK
  <2> QED BY <1>1, <1>2, <2>1, <2>2, <2>3, <2>4, <2>5, <2>6 DEF TypeOK
<1>15. LocalInv'
  <2> SUFFICES ASSUME NEW d \in Calls PROVE Local(d)'
    BY DEF LocalInv
  <2>1. CASE d # c
    <3>1. /\ pc'[d] = pc[d] /\ ret'[d] = ret[d] /\ got'[d] = got[d] /\ late'[d] = late[d]
          /\ left'[d] = left[d]
      BY <1>1, <1>3, <1>4, <1>6, <1>8, <1>11, <2>1 DEF TypeOK
    <3> QED BY <1>1, <1>2, <1>13, <3>1 DEF LocalInv, Local
  <2>2. CASE d = c
    <3>1. pc'[c] # "new" /\ got[c] = Absent
      BY <1>1, <1>2, <1>3 DEF TypeOK, LocalInv, Local
    <3>2. pc'[c] = "try" => ret'[c] = "none" /\ (maxRetries' > 0 => left'[c] >= 1)
      <4>1. maxRetries > 0 => left'[c] \in 0 .. maxRetries
        BY <1>2, <1>14 DEF TypeOK
      <4> QED BY <1>1, <1>2, <1>5, <4>1, RetriesAssumption DEF LocalInv, Local, TypeOK
    <3>3. late'[c] > 0 => req'[c].op = "put"
      BY Zenon, <1>1, <1>2, <1>8 DEF LocalInv, Local, TypeOK
    <3>4. got'[c] # Absent => pc'[c] = "done" /\ Key(got'[c].entity) = KeyOf(c)
      <4>1. got'[c] # Absent => got'[c] = db[KeyOf(c)] /\ db[KeyOf(c)] # Absent /\ pc'[c] = "done"
        BY <1>1, <1>11, <3>1 DEF TypeOK
      <4> QED BY Zenon, <1>1, <1>12, <4>1 DEF DbInv
    <3> QED BY <1>2, <1>13, <2>2, <3>1, <3>2, <3>3, <3>4 DEF Local
  <2> QED BY <2>1, <2>2
<1>16. DbInv'
  BY <1>1, <1>7, <1>12 DEF DbInv, TypeOK, KeyOf
<1>17. WriteInv'
  <2>1. \A d \in Calls : pc'[d] # "new" <=> pc[d] # "new"
    BY <1>1, <1>2, <1>3 DEF TypeOK
  <2>2. \A d \in Calls : At(d, "put")' \/ late'[d] > 0 => At(d, "put") \/ late[d] > 0
    BY <1>1, <1>2, <1>3, <1>8 DEF TypeOK, At
  <2>3. \A k \in Keys : last[k] \in Calls \cup {Absent}
    BY <1>1 DEF TypeOK
  <2> QED BY <1>1, <1>2, <1>13, <2>1, <2>2, <2>3 DEF WriteInv
<1>18. NilMeansStored'
  <2> SUFFICES ASSUME NEW k \in Keys \ contended, last[k] # Absent, ret'[last[k]] = "nil"
               PROVE  db'[k] # Absent /\ db'[k].by = last[k]
    BY Zenon, <1>2 DEF NilMeansStored
  <2>1. last[k] \in Calls /\ req[last[k]].op = "put" /\ KeyOf(last[k]) = k
    BY <1>1 DEF TypeOK, WriteInv
  <2>2. req[c].op = "put" /\ KeyOf(c) = k => c = last[k]
    BY <1>1, <1>2 DEF WriteInv, At
  <2>3. CASE last[k] = c
    BY <1>1, <1>10, <1>12, <2>1, <2>3 DEF TypeOK
  <2>4. CASE last[k] # c
    <3>1. ret[last[k]] = "nil"
      BY <1>1, <1>4, <2>1, <2>4 DEF TypeOK
    <3>2. db'[k] = db[k]
      BY <1>1, <1>7, <1>12, <2>2, <2>4 DEF TypeOK
    <3> QED BY <1>1, <3>1, <3>2 DEF NilMeansStored
  <2> QED BY Zenon, <2>3, <2>4
<1>19. SeenInv'
  <2> SUFFICES ASSUME NEW d \in seen
               PROVE  pc'[d] # "new" /\ req[d].op = "get" /\ db'[KeyOf(d)] # Absent
    BY <1>1, <1>2, <1>13 DEF SeenInv, TypeOK
  <2>1. d \in Calls /\ pc[d] # "new" /\ req[d].op = "get" /\ db[KeyOf(d)] # Absent
    BY <1>1 DEF SeenInv, TypeOK
  <2>2. KeyOf(d) \in Keys
    BY Zenon, <1>1, <2>1, RequestKeys DEF LocalInv, Local, KeyOf
  <2>3. db'[KeyOf(d)] # Absent
    BY <1>1, <1>7, <1>12, <2>1, <2>2 DEF TypeOK
  <2>4. pc'[d] # "new"
    BY <1>1, <1>3, <2>1 DEF TypeOK
  <2> QED BY <2>1, <2>3, <2>4
<1>20. NotFoundIsTrue'
  <2> SUFFICES ASSUME NEW d \in seen PROVE ret'[d] # "NotFound"
    BY <1>2 DEF NotFoundIsTrue
  <2>1. d \in Calls /\ req[d].op = "get" /\ db[KeyOf(d)] # Absent /\ ret[d] # "NotFound"
    BY <1>1 DEF SeenInv, NotFoundIsTrue, TypeOK
  <2> QED BY <1>1, <1>4, <1>9, <2>1 DEF TypeOK
<1> QED
  BY <1>14, <1>15, <1>16, <1>17, <1>18, <1>19, <1>20 DEF Inv

\* The beginning of a call preserves the invariant.
LEMMA StartInv ==
  ASSUME Inv, NEW c \in Calls, NEW r \in Requests, Start(c, r)
  PROVE  Inv'
<1> DEFINE k == Key(r.entity)
<1>1. TypeOK /\ LocalInv /\ DbInv /\ WriteInv /\ NilMeansStored /\ SeenInv /\ NotFoundIsTrue
  BY DEF Inv
<1>2. /\ pc[c] = "new" /\ ret[c] = "none" /\ got[c] = Absent /\ late[c] = 0
      /\ maxRetries' = maxRetries /\ db' = db /\ got' = got /\ late' = late
      /\ req' = [req EXCEPT ![c] = r] /\ left' = [left EXCEPT ![c] = maxRetries]
  BY <1>1 DEF Start, LocalInv, Local
<1>3. k \in Keys /\ r # Absent /\ c # Absent
  BY Zenon, RequestKeys
<1>4. req'[c] = r /\ KeyOf(c)' = k /\ \A d \in Calls \ {c} : req'[d] = req[d] /\ KeyOf(d)' = KeyOf(d)
  BY <1>1, <1>2 DEF TypeOK, KeyOf
<1>5. \A x \in Keys : last[x] # Absent => last[x] \in Calls \ {c}
  BY <1>1, <1>2 DEF TypeOK, WriteInv
<1>6. seen \subseteq Calls \ {c}
  BY Zenon, <1>1, <1>2 DEF TypeOK, SeenInv
<1>7. PICK p \in {"try", "done"}, x \in {"none", "InvalidData"} :
        /\ pc' = [pc EXCEPT ![c] = p] /\ ret' = [ret EXCEPT ![c] = x]
        /\ p = "try" => x = "none"
  <2>1. ret = [ret EXCEPT ![c] = "none"]
    BY Zenon, <1>1, <1>2 DEF TypeOK
  <2> QED BY <2>1 DEF Start, Return
<1>8. \/ p = "done" /\ last' = last /\ contended' = contended /\ seen' = seen
      \/ /\ r.op = "put"
         /\ last' = [last EXCEPT ![k] = c] /\ seen' = seen
         /\ contended' = IF Writing(k) THEN contended \cup {k} ELSE contended
      \/ /\ r.op = "get" /\ last' = last /\ contended' = contended
         /\ seen' = IF db[k] # Absent THEN seen \cup {c} ELSE seen
  <2>1. r.op \in {"get", "put"}
    BY RequestsAssumption DEF Request
  <2>2. pc'[c] = p
    BY <1>1, <1>7 DEF TypeOK
  <2>3. CASE r.op = "put" /\ r.nil
    <3>1. pc' = [pc EXCEPT ![c] = "done"] /\ UNCHANGED aux
      BY Zenon, <2>3 DEF Start, Return
    <3> QED BY Zenon, <1>1, <2>2, <3>1 DEF TypeOK, aux
  <2>4. CASE ~(r.op = "put" /\ r.nil)
    BY <2>1, <2>4 DEF Start
  <2> QED BY <2>3, <2>4
<1> HIDE DEF k
<1>9. \A d \in Calls \ {c} : pc'[d] = pc[d] /\ ret'[d] = ret[d]
  BY <1>1, <1>7 DEF TypeOK
<1>10. pc'[c] = p /\ ret'[c] = x
  BY <1>1, <1>7 DEF TypeOK
<1>11. TypeOK'
  <2>1. left' \in [Calls -> Int] /\ \A d \in Calls : maxRetries > 0 => left'[d] \in 0 .. maxRetries
    BY <1>1, <1>2, RetriesAssumption DEF TypeOK
  <2>2. req' \in [Calls -> Requests \cup {Absent}]
    BY <1>1, <1>2 DEF TypeOK
  <2>3. pc' \in [Calls -> {"new", "try", "done"}] /\ ret' \in [Calls -> Results]
    BY <1>1, <1>7 DEF TypeOK, Results
  <2>4. last' \in [Keys -> Calls \cup {Absent}] /\ contended' \subseteq Keys /\ seen' \subseteq Calls
    BY <1>1, <1>3, <1>8 DEF TypeOK
  <2> QED BY <1>1, <1>2, <2>1, <2>2, <2>3, <2>4 DEF TypeOK
<1>12. LocalInv'
  <2> SUFFICES ASSUME NEW d \in Calls PROVE Local(d)'
    BY Zenon DEF LocalInv
  <2>1. CASE d # c
    <3>1. left'[d] = left[d]
      BY Zenon, <1>1, <1>2, <2>1 DEF TypeOK
    <3> QED BY <1>1, <1>2, <1>4, <1>9, <2>1, <3>1 DEF LocalInv, Local
  <2>2. CASE d = c
    <3>1. left'[c] = maxRetries /\ maxRetries \in Int
      BY Zenon, <1>1, <1>2, RetriesAssumption DEF TypeOK
    <3> QED BY <1>2, <1>4, <1>7, <1>10, <2>2, <3>1 DEF Local
  <2> QED BY <2>1, <2>2
<1>13. DbInv'
  BY Zenon, <1>1, <1>2 DEF DbInv
<1>14. WriteInv'
  <2> SUFFICES ASSUME NEW y \in Keys
               PROVE  /\ last'[y] # Absent =>
                           /\ pc'[last'[y]] # "new" /\ req'[last'[y]].op = "put"
                           /\ Key(req'[last'[y]].entity) = y
                      /\ y \notin contended' => \A d \in Calls :
                           (At(d, "put")' \/ late'[d] > 0) /\ KeyOf(d)' = y => d = last'[y]
    BY DEF WriteInv, KeyOf, At
  <2>1. last'[y] = last[y] \/ (last'[y] = c /\ y = k /\ r.op = "put")
    BY <1>1, <1>8 DEF TypeOK
  <2>2. last'[y] # Absent =>
          pc'[last'[y]] # "new" /\ req'[last'[y]].op = "put" /\ Key(req'[last'[y]].entity) = y
    <3>1. CASE last'[y] = last[y]
      <4>1. last[y] # Absent => pc[last[y]] # "new" /\ req[last[y]].op = "put" /\ KeyOf(last[y]) = y
        BY <1>1 DEF WriteInv
      <4>2. last[y] # Absent => /\ pc'[last[y]] = pc[last[y]] /\ req'[last[y]] = req[last[y]]
                                /\ Key(req'[last[y]].entity) = KeyOf(last[y])
        BY <1>4, <1>5, <1>9 DEF KeyOf
      <4> QED BY Zenon, <3>1, <4>1, <4>2 DEF KeyOf
    <3>2. CASE last'[y] = c /\ y = k /\ r.op = "put"
      BY <1>4, <1>7, <1>10, <3>2 DEF KeyOf
    <3> QED BY Zenon, <2>1, <3>1, <3>2
  <2>3. ASSUME y \notin contended', NEW d \in Calls,
               At(d, "put")' \/ late'[d] > 0, KeyOf(d)' = y
        PROVE  d = last'[y]
    <3>1. y \notin contended
      BY <1>8, <2>3
    <3>2. CASE d = c
      <4>1. p = "try" /\ r.op = "put" /\ y = k
        BY <1>2, <1>4, <1>10, <2>3, <3>2 DEF At
      <4> QED BY Zenon, <1>1, <1>3, <1>8, <3>2, <4>1 DEF TypeOK
    <3>3. CASE d # c
      <4>1. (At(d, "put") \/ late[d] > 0) /\ KeyOf(d) = y
        BY Zenon, <1>2, <1>4, <1>9, <2>3, <3>3 DEF At
      <4>2. d = last[y]
        BY <1>1, <3>1, <4>1 DEF WriteInv
      <4>3. Writing(y)
        BY Zenon, <4>1 DEF Writing
      <4>4. last'[y] = last[y]
        BY Zenon, <1>1, <1>8, <2>3, <4>3 DEF TypeOK
      <4> QED BY Zenon, <4>2, <4>4
    <3> QED BY Zenon, <3>2, <3>3
  <2> QED BY Zenon, <2>2, <2>3
<1>15. NilMeansStored'
  <2> SUFFICES ASSUME NEW y \in Keys, y \notin contended', last'[y] # Absent, ret'[last'[y]] = "nil"
               PROVE  db[y] # Absent /\ db[y].by = last'[y]
    BY <1>2 DEF NilMeansStored
  <2>1. last'[y] # c
    BY Zenon, <1>7, <1>10
  <2>2. last'[y] = last[y] /\ y \notin contended
    BY Zenon, <1>1, <1>8, <2>1 DEF TypeOK
  <2> QED BY Zenon, <1>1, <1>5, <1>9, <2>2 DEF NilMeansStored
<1>16. SeenInv' /\ NotFoundIsTrue'
  <2> SUFFICES ASSUME NEW d \in seen'
               PROVE  /\ pc'[d] # "new" /\ req'[d].op = "get" /\ db[Key(req'[d].entity)] # Absent
                      /\ ret'[d] # "NotFound"
    BY Zenon, <1>2 DEF SeenInv, NotFoundIsTrue, KeyOf
  <2>1. CASE d \in seen
    BY Zenon, <1>1, <1>4, <1>6, <1>9, <2>1 DEF SeenInv, NotFoundIsTrue, KeyOf
  <2>2. CASE d \notin seen
    BY <1>4, <1>7, <1>8, <1>10, <2>2 DEF KeyOf, k
  <2> QED BY Zenon, <2>1, <2>2
<1> QED
  BY <1>11, <1>12, <1>13, <1>14, <1>15, <1>16 DEF Inv

\* A SET that is executed late preserves the invariant.
LEMMA LateSetInv ==
  ASSUME Inv, NEW c \in Calls, LateSet(c)
  PROVE  Inv'
<1>1. TypeOK /\ LocalInv /\ DbInv /\ WriteInv /\ NilMeansStored /\ SeenInv /\ NotFoundIsTrue
  BY DEF Inv
<1>2. /\ late[c] > 0 /\ late' = [late EXCEPT ![c] = @ - 1]
      /\ db' = [db EXCEPT ![KeyOf(c)] = [entity |-> req[c].entity, by |-> c]]
      /\ maxRetries' = maxRetries /\ req' = req /\ pc' = pc /\ left' = left /\ ret' = ret
      /\ got' = got /\ last' = last /\ contended' = contended /\ seen' = seen
  BY Zenon DEF LateSet, Set, call, aux
<1>3. req[c] \in Requests
  BY <1>1, <1>2 DEF LocalInv, Local
<1>4. /\ KeyOf(c) \in Keys /\ [entity |-> req[c].entity, by |-> c] \in Values
      /\ [entity |-> req[c].entity, by |-> c] # Absent
  BY <1>3, RequestKeys DEF KeyOf
<1>5. late' \in [Calls -> Nat] /\ \A d \in Calls : late'[d] > 0 => late[d] > 0
  BY <1>1, <1>2 DEF TypeOK
<1>6. TypeOK'
  BY Zenon, <1>1, <1>2, <1>4, <1>5 DEF TypeOK
<1>7. LocalInv'
  <2> SUFFICES ASSUME NEW d \in Calls PROVE Local(d)'
    BY DEF LocalInv
  <2>1. late[d] = 0 => late'[d] = 0
    BY <1>1, <1>2 DEF TypeOK
  <2> QED BY <1>1, <1>2, <1>5, <2>1 DEF LocalInv, Local, KeyOf
<1>8. DbInv'
  BY Zenon, <1>1, <1>2, <1>4 DEF DbInv, TypeOK, KeyOf
<1>9. WriteInv'
  BY Zenon, <1>1, <1>2, <1>5 DEF WriteInv, At, KeyOf
<1>10. NilMeansStored'
  <2> SUFFICES ASSUME NEW k \in Keys \ contended, last[k] # Absent, ret[last[k]] = "nil"
               PROVE  db'[k] # Absent /\ db'[k].by = last[k]
    BY Zenon, <1>2 DEF NilMeansStored
  <2>1. KeyOf(c) = k => c = last[k]
    BY Zenon, <1>1, <1>2 DEF WriteInv
  <2> QED BY Zenon, <1>1, <1>2, <1>4, <2>1 DEF NilMeansStored, TypeOK
<1>11. SeenInv' /\ NotFoundIsTrue'
  <2>1. \A k \in Keys : db[k] # Absent => db'[k] # Absent
    BY <1>1, <1>2, <1>4 DEF TypeOK
  <2>2. \A d \in seen : KeyOf(d) \in Keys
    BY Zenon, <1>1, RequestKeys DEF SeenInv, TypeOK, LocalInv, Local, KeyOf
  <2> QED BY Zenon, <1>1, <1>2, <2>1, <2>2 DEF SeenInv, NotFoundIsTrue, KeyOf
<1> QED
  BY Zenon, <1>6, <1>7, <1>8, <1>9, <1>10, <1>11 DEF Inv

\* Every step preserves the invariant.
LEMMA NextInv == Inv /\ [Next]_vars => Inv'
<1> SUFFICES ASSUME Inv, [Next]_vars PROVE Inv'
  OBVIOUS
<1>1. CASE Next
  BY <1>1, StepInv, StartInv, LateSetInv DEF Next
<1>2. CASE UNCHANGED vars
  <2>1. /\ maxRetries' = maxRetries /\ db' = db /\ req' = req /\ pc' = pc /\ left' = left
        /\ ret' = ret /\ got' = got /\ late' = late /\ last' = last
        /\ contended' = contended /\ seen' = seen
    BY <1>2 DEF vars, call, aux
  <2>2. TypeOK'
    BY Zenon, <2>1 DEF Inv, TypeOK
  <2>3. LocalInv' /\ DbInv' /\ WriteInv'
    BY <2>1 DEF Inv, LocalInv, Local, DbInv, WriteInv, At, KeyOf
  <2>4. NilMeansStored' /\ SeenInv' /\ NotFoundIsTrue'
    BY Zenon, <2>1 DEF Inv, NilMeansStored, SeenInv, NotFoundIsTrue, KeyOf
  <2> QED BY <2>2, <2>3, <2>4 DEF Inv
<1> QED
  BY <1>1, <1>2

\* The invariant holds in every state.
LEMMA InvHolds == Spec => []Inv
BY InitInv, NextInv, PTL DEF Spec

\* The retry loops keep to their types; with a positive MaxRetries, attemptsLeft
\* stays between 0 and MaxRetries.
THEOREM TypeCorrect == Spec => []TypeOK
<1>1. Inv => TypeOK
  BY DEF Inv
<1> QED BY <1>1, InvHolds, PTL

\* For any number of calls of put, retried, failing or executed late: the value of
\* one that returned nil stays until the next put of the key begins, unless puts
\* of the key overlapped.
THEOREM NilStaysStored == Spec => []NilMeansStored
<1>1. Inv => NilMeansStored
  BY DEF Inv
<1> QED BY <1>1, InvHolds, PTL

\* get does not report NotFound for a key that existed when it was called.
THEOREM NotFoundStaysTrue == Spec => []NotFoundIsTrue
<1>1. Inv => NotFoundIsTrue
  BY Zenon DEF Inv
<1> QED BY <1>1, InvHolds, PTL

\* The keys of NewKeyForConfig, NewKeyForMachine, NewKeyForEvent and
\* NewKeyForOutcome keep entities with plain names apart, whatever these are, so
\* that get returns what was put for the same entity.
THEOREM GetReadsItsOwn == Spec => []ReadsItsOwn
<1>1. Inv => ReadsItsOwn
  <2> SUFFICES ASSUME Inv, NEW c \in Calls, got[c] # Absent,
                      Plain(got[c].entity), Plain(req[c].entity)
               PROVE  got[c].entity = req[c].entity
    BY DEF ReadsItsOwn
  <2>1. got[c] \in Values /\ req[c] \in Requests /\ Key(got[c].entity) = Key(req[c].entity)
    BY DEF Inv, TypeOK, LocalInv, Local, KeyOf
  <2>2. got[c].entity \in Entities /\ req[c].entity \in Entities
    BY <2>1 DEF Values, Entities
  <2> QED BY <2>1, <2>2, PlainKeys
<1> QED BY <1>1, InvHolds, PTL

-----------------------------------------------------------------------------
(* The retry loops                                                         *)

\* A bound on the steps of a call still to come: its attempts, and the SETs that
\* are executed after their attempt has timed out.
StepsLeft(c) ==
  IF pc[c] = "new" THEN 2 * maxRetries + 2
  ELSE IF pc[c] = "try" THEN 2 * left[c] + late[c] + 1 ELSE late[c]

\* A step of call c leaves the others alone and is one of those still to come.
LEMMA StepCounts ==
  ASSUME Inv, maxRetries > 0, NEW c \in Calls,
         Step(c) \/ LateSet(c) \/ \E r \in Requests : Start(c, r)
  PROVE  /\ StepsLeft(c)' < StepsLeft(c)
         /\ \A d \in Calls \ {c} : StepsLeft(d)' = StepsLeft(d)
<1>1. /\ TypeOK /\ LocalInv /\ Local(c)
      /\ maxRetries \in Int /\ left[c] \in 0 .. maxRetries /\ late[c] \in Nat
      /\ pc \in [Calls -> {"new", "try", "done"}]
      /\ left \in [Calls -> Int] /\ late \in [Calls -> Nat]
  BY Zenon, RetriesAssumption DEF Inv, TypeOK, LocalInv
<1>2. CASE Step(c)
  <2>1. /\ pc[c] = "try" /\ left[c] >= 1 /\ maxRetries' = maxRetries
        /\ \E p \in {"try", "done"} : pc' = [pc EXCEPT ![c] = p]
        /\ late' = late \/ late' = [late EXCEPT ![c] = @ + 1]
    BY <1>1, <1>2, StepShape DEF Local
  <2>2. left' = [left EXCEPT ![c] = @ - 1]
    <3>1. left' = [left EXCEPT ![c] = IF @ > - Exhausted THEN @ - 1 ELSE -1]
      BY <1>1, <1>2, StepShape, Zenon DEF CountDown
    <3>2. left[c] > - Exhausted
      BY <1>1, <2>1, RetriesAssumption
    <3> QED BY <1>1, <3>1, <3>2
  <2>3. \A d \in Calls \ {c} : pc'[d] = pc[d] /\ left'[d] = left[d] /\ late'[d] = late[d]
    BY <1>1, <2>1, <2>2
  <2>4. /\ pc'[c] \in {"try", "done"} /\ left'[c] = left[c] - 1
        /\ late'[c] \in {late[c], late[c] + 1}
    BY <1>1, <2>1, <2>2
  <2>5. StepsLeft(c)' < StepsLeft(c)
    BY <1>1, <2>1, <2>4 DEF StepsLeft
  <2> QED BY Zenon, <2>1, <2>3, <2>5 DEF StepsLeft
<1>3. CASE LateSet(c)
  <2>1. /\ late[c] > 0 /\ late' = [late EXCEPT ![c] = @ - 1]
        /\ maxRetries' = maxRetries /\ pc' = pc /\ left' = left
    BY Zenon, <1>3 DEF LateSet, call
  <2>2. pc[c] # "new"
    BY <1>1, <2>1 DEF Local
  <2> QED BY <1>1, <2>1, <2>2 DEF StepsLeft
<1>4. CASE \E r \in Requests : Start(c, r)
  <2>1. /\ pc[c] = "new" /\ left' = [left EXCEPT ![c] = maxRetries]
        /\ \E p \in {"try", "done"} : pc' = [pc EXCEPT ![c] = p]
        /\ maxRetries' = maxRetries /\ late' = late
    BY Zenon, <1>4 DEF Start, Return
  <2>2. late[c] = 0
    BY <1>1, <2>1 DEF Local
  <2> QED BY <1>1, <2>1, <2>2 DEF StepsLeft
<1> QED BY <1>2, <1>3, <1>4

\* With a positive MaxRetries, every step brings a get or a put nearer to its end
\* and no other further from it: a call makes at most MaxRetries attempts, and no
\* SET of it is executed once the count is 0, however the timeouts fall.
THEOREM CallsAreBounded ==
  Spec => /\ [](maxRetries > 0 => \A c \in Calls : StepsLeft(c) \in Nat)
          /\ [][maxRetries > 0 =>
                  \E c \in Calls :
                    /\ StepsLeft(c)' < StepsLeft(c)
                    /\ \A d \in Calls \ {c} : StepsLeft(d)' = StepsLeft(d)]_vars
<1>1. ASSUME Inv, maxRetries > 0, NEW c \in Calls PROVE StepsLeft(c) \in Nat
  <2>1. maxRetries \in Int /\ left[c] \in 0 .. maxRetries /\ late[c] \in Nat
    BY <1>1, RetriesAssumption DEF Inv, TypeOK
  <2> QED BY <1>1, <2>1 DEF StepsLeft
<1>2. ASSUME Inv, Next, maxRetries > 0
      PROVE  \E c \in Calls :
               /\ StepsLeft(c)' < StepsLeft(c)
               /\ \A d \in Calls \ {c} : StepsLeft(d)' = StepsLeft(d)
  BY <1>2, StepCounts DEF Next
<1>3. Inv => (maxRetries > 0 => \A c \in Calls : StepsLeft(c) \in Nat)
  BY <1>1, Zenon
<1> QED BY <1>2, <1>3, InvHolds, PTL DEF Spec

\* Without a positive MaxRetries attemptsLeft is past 0 from the start.
CountInv ==
  maxRetries <= 0 =>
    \A c \in Calls : left[c] <= 0 /\ ret[c] \notin {"TooManyAttempts", "DeadlineExceeded"}

\* The count goes on downwards, and the test for 0 never succeeds.
LEMMA CountStep == Inv /\ CountInv /\ [Next]_vars => CountInv'
<1> SUFFICES ASSUME Inv, CountInv, [Next]_vars, maxRetries' <= 0 PROVE
               \A c \in Calls :
                 left'[c] <= 0 /\ ret'[c] \notin {"TooManyAttempts", "DeadlineExceeded"}
  BY DEF CountInv
<1>1. /\ TypeOK /\ maxRetries' = maxRetries /\ maxRetries \in Int
      /\ left \in [Calls -> Int] /\ ret \in [Calls -> Results]
  <2>1. TypeOK /\ maxRetries \in Int
    BY ZenonT(30), RetriesAssumption DEF Inv, TypeOK
  <2>2. maxRetries' = maxRetries
    BY StepShape DEF Inv, Next, Start, LateSet, vars
  <2> QED BY <2>1, <2>2 DEF TypeOK
<1>2. \A c \in Calls : left[c] <= 0 /\ ret[c] \notin {"TooManyAttempts", "DeadlineExceeded"}
  BY <1>1 DEF CountInv
<1>3. ASSUME NEW c \in Calls, Step(c)
      PROVE  \A d \in Calls :
               left'[d] <= 0 /\ ret'[d] \notin {"TooManyAttempts", "DeadlineExceeded"}
  <2>1. CountDown(c)
    BY <1>3, StepShape DEF Inv
  <2>2. left'[c] \in Int /\ left'[c] < 0 /\ \A d \in Calls \ {c} : left'[d] = left[d]
    BY <1>1, <1>2, <2>1, RetriesAssumption DEF CountDown
  <2>3. ret' = ret \/ \E r \in Results \ {"TooManyAttempts", "DeadlineExceeded"} :
                        ret' = [ret EXCEPT ![c] = r]
    BY <1>3, <2>2 DEF Step, GetReads, GetNotFound, GetTimesOut, GetFails, PutSets, PutTimesOut,
                      PutFails, Tried, Return, Results
  <2>4. \A d \in Calls : ret'[d] \notin {"TooManyAttempts", "DeadlineExceeded"}
    BY <1>1, <1>2, <2>3
  <2>5. \A d \in Calls : left'[d] <= 0
    BY <1>1, <1>2, <2>2
  <2> QED BY Zenon, <2>4, <2>5
<1>4. ASSUME NEW c \in Calls, NEW r \in Requests, Start(c, r)
      PROVE  \A d \in Calls :
               left'[d] <= 0 /\ ret'[d] \notin {"TooManyAttempts", "DeadlineExceeded"}
  <2>1. /\ left' = [left EXCEPT ![c] = maxRetries]
        /\ ret' = ret \/ ret' = [ret EXCEPT ![c] = "InvalidData"]
    BY Zenon, <1>4 DEF Start, Return
  <2> QED BY Zenon, <1>1, <1>2, <2>1
<1>5. CASE (\E c \in Calls : LateSet(c)) \/ UNCHANGED vars
  <2>1. left' = left /\ ret' = ret
    BY <1>5 DEF LateSet, call, vars
  <2> QED BY <1>2, <2>1
<1> QED BY Zenon, <1>3, <1>4, <1>5 DEF Next

\* Without a positive MaxRetries, get and put never give up: they do not return
\* the errors of a loop whose attempts are used up, whatever times out.
THEOREM NeverGivesUp ==
  Spec => [](maxRetries <= 0 =>
               \A c \in Calls : ret[c] \notin {"TooManyAttempts", "DeadlineExceeded"})
<1>1. ASSUME Init, NEW c \in Calls
      PROVE  left[c] <= 0 /\ ret[c] \notin {"TooManyAttempts", "DeadlineExceeded"}
  <2>1. left[c] = 0 /\ ret[c] = "none"
    BY <1>1 DEF Init
  <2> QED BY <2>1
<1>2. CountInv => (maxRetries <= 0 =>
                     \A c \in Calls : ret[c] \notin {"TooManyAttempts", "DeadlineExceeded"})
  BY Zenon DEF CountInv
<1>3. Init => CountInv
  BY <1>1, Zenon DEF CountInv
<1> QED BY <1>2, <1>3, CountStep, InvHolds, PTL DEF Spec
=============================================================================
