--------------------------- MODULE DeliveryProofs ---------------------------
(***************************************************************************)
(* Delivery for any number of messages, replicas, tabs, failures and       *)
(* restarts.                                                               *)
(***************************************************************************)
EXTENDS Delivery, SequenceTheorems, TLAPS

-----------------------------------------------------------------------------
(* Types *)

Busy == {"handle", "push", "mail", "dlt", "done"}

\* Notifications alone are pushed and mailed after their rows are saved.
WorkerRecord ==
    { x \in [pc : {"idle"} \cup Busy, k : Kinds, at : Nat, attempt : 0..Retries] :
        x.pc \in {"push", "mail"} => x.k = "notify" }

Typed ==
    /\ kind \in [Messages -> Kinds] /\ malformed \subseteq Messages
    /\ change \in [Messages -> {"none", "open", "committed", "undone"}]
    /\ wire \in [Messages -> {"unsent", "sending", "ended"}]
    /\ log \in [Kinds -> Seq(Messages)]
    /\ position \in [Kinds -> Nat]
    /\ committed \in [Kinds -> Int]
    /\ \A k \in Kinds :
         /\ position[k] <= Len(log[k])
         /\ committed[k] = None \/ committed[k] \in 0..Len(log[k])
    /\ assigned \in [Kinds -> Replicas]
    /\ worker \in [Workers -> WorkerRecord]
    /\ \A w \in Workers : worker[w].pc # "idle" =>
         /\ GroupOf(worker[w].k) = w[1]
         /\ worker[w].at \in 1..Len(log[worker[w].k])
         /\ worker[w].attempt \in 1..Retries
    /\ up \subseteq Workers /\ subscribed \subseteq Replicas /\ down \subseteq Stores
    /\ stored \in [Messages -> Nat]
    /\ dead \subseteq Messages /\ pushed \subseteq Messages
    /\ publishing \subseteq Replicas \X Messages
    /\ inbound \subseteq Replicas \X Messages
    /\ tab \in [Tabs -> Replicas \cup {Closed}]
    /\ unheard \in [Messages -> SUBSET Tabs] /\ deaf \in [Messages -> SUBSET Tabs]
    /\ lost \subseteq Messages /\ again \subseteq Messages
    /\ faults \in 0..MaxFaults /\ restarts \in 0..MaxRestarts

LEMMA LogType ==
    ASSUME Typed, NEW k \in Kinds
    PROVE  /\ log[k] \in Seq(Messages) /\ Len(log[k]) \in Nat
           /\ \A i \in 1..Len(log[k]) : log[k][i] \in Messages
           /\ position[k] \in Nat /\ position[k] <= Len(log[k])
           /\ \A i \in 1..position[k] : i \in 1..Len(log[k])
  <1>1. log[k] \in Seq(Messages)
    BY DEF Typed
  <1>2. Len(log[k]) \in Nat /\ \A i \in 1..Len(log[k]) : log[k][i] \in Messages
    BY <1>1, LenProperties, ElementOfSeq
  <1>. QED
    BY <1>1, <1>2 DEF Typed

LEMMA WorkerType ==
    ASSUME Typed, NEW w \in Workers
    PROVE  /\ worker[w] \in WorkerRecord /\ worker[w].k \in Kinds
           /\ worker[w].pc # "idle" =>
                /\ GroupOf(worker[w].k) = w[1]
                /\ worker[w].at \in 1..Len(log[worker[w].k])
                /\ worker[w].attempt \in 1..Retries
                /\ Current(w) \in Messages
  <1>1. worker[w] \in WorkerRecord /\ worker[w].k \in Kinds
    BY DEF Typed, WorkerRecord
  <1>2. worker[w].pc # "idle" => worker[w].at \in 1..Len(log[worker[w].k])
    BY DEF Typed
  <1>3. worker[w].pc # "idle" => Current(w) \in Messages
    BY <1>1, <1>2, LogType DEF Current
  <1>. QED
    BY <1>1, <1>2, <1>3 DEF Typed

LEMMA IdleType == Idle \in WorkerRecord /\ Idle.pc = "idle"
  BY DEF Idle, WorkerRecord, Kinds, Retries

LEMMA TypeOKOfTyped == Typed => TypeOK
  <1>. SUFFICES ASSUME Typed PROVE TypeOK
    OBVIOUS
  <1>1. \A k \in Kinds :
          /\ \A i \in 1..Len(log[k]) : log[k][i] \in Messages
          /\ position[k] \in 0..Len(log[k])
          /\ committed[k] \in {None} \cup 0..Len(log[k])
    <2>. TAKE k \in Kinds
    <2>1. position[k] \in 0..Len(log[k])
      BY LogType
    <2>2. committed[k] \in {None} \cup 0..Len(log[k])
      BY DEF Typed
    <2>. QED
      BY <2>1, <2>2, LogType
  <1>2. \A w \in Workers :
          /\ worker[w].pc \in {"idle", "handle", "push", "mail", "dlt", "done"}
          /\ worker[w].pc # "idle" =>
               /\ GroupOf(worker[w].k) = w[1]
               /\ worker[w].at \in 1..Len(log[worker[w].k])
               /\ worker[w].attempt \in 1..Retries
    BY WorkerType DEF WorkerRecord, Busy
  <1>. QED
    BY <1>1, <1>2 DEF Typed, TypeOK

-----------------------------------------------------------------------------
(* What a step of a worker does to the workers *)

\* Only w changes; it stays with its message, at pc.
MovesTo(w, pc) ==
    /\ worker' \in [Workers -> WorkerRecord]
    /\ \A v \in Workers \ {w} : worker'[v] = worker[v]
    /\ worker'[w].pc = pc
    /\ worker'[w].k = worker[w].k /\ worker'[w].at = worker[w].at
    /\ worker'[w].attempt \in 1..Retries

LEMMA ToEffect ==
    ASSUME Typed, NEW w \in Workers, NEW pc \in Busy, worker[w].pc # "idle", To(w, pc),
           pc \in {"push", "mail"} => worker[w].k = "notify"
    PROVE  MovesTo(w, pc)
  <1>1. worker[w] \in WorkerRecord /\ worker[w].attempt \in 1..Retries
    BY WorkerType
  <1>2. worker' = [worker EXCEPT ![w] = [worker[w] EXCEPT !.pc = pc]]
    BY DEF To
  <1>. DEFINE x == [worker[w] EXCEPT !.pc = pc]
  <1>3. /\ x \in WorkerRecord /\ x.pc = pc /\ x.k = worker[w].k /\ x.at = worker[w].at
        /\ x.attempt = worker[w].attempt
    BY <1>1 DEF WorkerRecord
  <1>. HIDE DEF x
  <1>. QED
    BY <1>1, <1>2, <1>3 DEF Typed, MovesTo, x

LEMMA FailedEffect ==
    ASSUME Typed, NEW w \in Workers, worker[w].pc # "idle", Failed(w)
    PROVE  MovesTo(w, "handle") \/ MovesTo(w, "dlt")
  <1>1. worker[w] \in WorkerRecord /\ worker[w].attempt \in 1..Retries
    BY WorkerType
  <1>2. CASE worker[w].attempt < Retries
    <2>. DEFINE x == [worker[w] EXCEPT !.pc = "handle", !.attempt = worker[w].attempt + 1]
    <2>1. worker' = [worker EXCEPT ![w] = x]
      BY <1>2 DEF Failed, Typed
    <2>2. worker[w].attempt + 1 \in 1..Retries
      BY <1>1, <1>2 DEF Retries
    <2>3. \A n \in 1..Retries : n \in 0..Retries
      BY DEF Retries
    <2>4. PICK n \in 1..Retries : n = worker[w].attempt + 1
      BY <2>2
    <2>5. x = [worker[w] EXCEPT !.pc = "handle", !.attempt = n]
      BY <2>4
    <2>6. /\ x \in WorkerRecord /\ x.pc = "handle" /\ x.k = worker[w].k /\ x.at = worker[w].at
          /\ x.attempt \in 1..Retries
      BY <1>1, <2>3, <2>5 DEF WorkerRecord, Busy
    <2>. HIDE DEF x
    <2>. QED
      BY <2>1, <2>6 DEF Typed, MovesTo
  <1>3. CASE ~(worker[w].attempt < Retries)
    <2>. DEFINE x == [worker[w] EXCEPT !.pc = "dlt"]
    <2>1. worker' = [worker EXCEPT ![w] = x]
      BY <1>3 DEF Failed
    <2>2. /\ x \in WorkerRecord /\ x.pc = "dlt" /\ x.k = worker[w].k /\ x.at = worker[w].at
          /\ x.attempt \in 1..Retries
      BY <1>1 DEF WorkerRecord, Busy
    <2>. HIDE DEF x
    <2>. QED
      BY <2>1, <2>2 DEF Typed, MovesTo
  <1>. QED
    BY <1>2, <1>3

LEMMA FaultEffect ==
    ASSUME Typed, Fault
    PROVE  faults' \in 0..MaxFaults /\ restarts' = restarts
  <1>1. faults \in 0..MaxFaults /\ MaxFaults \in Nat
    BY DeliveryAssumption DEF Typed
  <1>. QED
    BY <1>1 DEF Fault

\* The only counts and sets a handler touches are those of its message.
OnlyOf(m) ==
    /\ stored' \in [Messages -> Nat]
    /\ \A n \in Messages \ {m} : stored'[n] = stored[n]
    /\ stored'[m] = stored[m] \/ stored'[m] = stored[m] + 1
    /\ dead \subseteq dead' /\ dead' \subseteq dead \cup {m}
    /\ lost \subseteq lost' /\ lost' \subseteq lost \cup {m}
    /\ again \subseteq again' /\ again' \subseteq again \cup {m}
    /\ faults' \in 0..MaxFaults /\ restarts' = restarts

\* What Written does when the handler goes on to pc.
LEMMA WrittenEffect ==
    ASSUME Typed, NEW w \in Workers, NEW pc \in Busy, worker[w].pc # "idle", Written(w, pc),
           pc \in {"push", "mail"} => worker[w].k = "notify",
           UNCHANGED <<dead, lost>>
    PROVE  /\ OnlyOf(Current(w))
           /\ \/ MovesTo(w, pc) /\ stored'[Current(w)] > 0
              \/ /\ MovesTo(w, "handle") \/ MovesTo(w, "dlt")
                 /\ stored'[Current(w)] = stored[Current(w)] \/ Current(w) \in again'
  <1>. DEFINE m == Current(w)
  <1>1. m \in Messages /\ stored[m] \in Nat
    BY WorkerType DEF Typed
  <1>2. faults \in 0..MaxFaults /\ stored \in [Messages -> Nat]
    BY DEF Typed
  <1>3. CASE /\ stored' = [stored EXCEPT ![m] = @ + 1]
             /\ \/ To(w, pc) /\ UNCHANGED <<again, budget>>
                \/ Fault /\ again' = again \cup {m} /\ Failed(w)
    <2>0. PICK n \in Nat : n = stored[m] + 1
      BY <1>1
    <2>1. /\ stored' \in [Messages -> Nat] /\ stored'[m] = stored[m] + 1
          /\ \A o \in Messages \ {m} : stored'[o] = stored[o]
      BY <1>1, <1>2, <1>3, <2>0
    <2>2. stored'[m] > 0
      BY <1>1, <2>1
    <2>3. /\ again \subseteq again' /\ again' \subseteq again \cup {m}
          /\ faults' \in 0..MaxFaults /\ restarts' = restarts
      BY <1>2, <1>3, FaultEffect DEF budget
    <2>4. MovesTo(w, pc) \/ (m \in again' /\ (MovesTo(w, "handle") \/ MovesTo(w, "dlt")))
      BY <1>3, ToEffect, FailedEffect
    <2>5. OnlyOf(m)
      BY <1>2, <2>1, <2>3 DEF OnlyOf
    <2>. QED
      BY <2>2, <2>4, <2>5
  <1>4. CASE Failed(w) /\ UNCHANGED <<stored, again, budget>>
    <2>1. OnlyOf(m)
      BY <1>2, <1>4 DEF OnlyOf, budget
    <2>. QED
      BY <1>4, <2>1, FailedEffect
  <1>. QED
    BY <1>3, <1>4 DEF Written

\* What Discard, Index, Save, SendMail, Push, Mail and DeadLetter have in common.
Handles(w) ==
    \/ Discard(w) \/ Index(w) \/ Save(w) \/ SendMail(w)
    \/ Push(w) \/ Mail(w) \/ DeadLetter(w)

Handling(w) ==
    LET m == Current(w)  k == worker[w].k IN
    /\ m \in Messages /\ worker[w].pc \in {"handle", "push", "mail", "dlt"}
    /\ OnlyOf(m)
    /\ \E pc \in Busy : MovesTo(w, pc)
    /\ UNCHANGED <<producer, broker, health, inbound, pushed, unheard, deaf, tab>>
    /\ publishing \subseteq publishing'
    /\ publishing' \subseteq publishing \cup {<<w[2], m>>}
    /\ publishing' # publishing =>
         \/ k = "notify" /\ worker[w].pc = "push"
         \/ k = "signal"
    /\ worker'[w].pc = "handle" =>
         /\ worker[w].pc = "handle"
         /\ stored'[m] = stored[m] \/ m \in again'
    /\ stored'[m] # stored[m] => worker[w].pc = "handle"
    /\ worker'[w].pc = "push" => stored'[m] > 0
    /\ worker'[w].pc = "mail" => worker[w].pc = "push" /\ <<w[2], m>> \in publishing'
    /\ worker'[w].pc = "done" =>
         \/ m \in dead' \cup lost'
         \/ k \in {"audit", "email"} /\ stored'[m] > 0
         \/ worker[w].pc = "mail"
         \/ <<w[2], m>> \in publishing'

\* A handler that does not publish.
Quiet == UNCHANGED <<producer, broker, health, events, tab>>

LEMMA WritingEffect ==
    ASSUME Typed, NEW w \in Workers, NEW pc \in {"push", "done"},
           worker[w].pc = "handle", Written(w, pc), Quiet, UNCHANGED <<dead, lost>>,
           pc = "push" => worker[w].k = "notify",
           pc = "done" => worker[w].k \in {"audit", "email"}
    PROVE  Handling(w)
  <1>. DEFINE m == Current(w)
  <1>1. m \in Messages /\ stored[m] \in Nat
    BY WorkerType DEF Typed
  <1>2. /\ OnlyOf(m)
        /\ \/ MovesTo(w, pc) /\ stored'[m] > 0
           \/ /\ MovesTo(w, "handle") \/ MovesTo(w, "dlt")
              /\ stored'[m] = stored[m] \/ m \in again'
    BY WrittenEffect DEF Busy
  <1>. QED
    BY <1>1, <1>2 DEF Handling, MovesTo, Busy, Quiet, events

LEMMA DroppingEffect ==
    ASSUME Typed, NEW w \in Workers, worker[w].pc \in {"handle", "dlt"},
           To(w, "done"), Quiet, UNCHANGED <<stored, again>>,
           \/ lost' = lost \cup {Current(w)} /\ dead' = dead
           \/ dead' = dead \cup {Current(w)} /\ lost' = lost,
           Fault \/ UNCHANGED budget
    PROVE  Handling(w)
  <1>. DEFINE m == Current(w)
  <1>1. m \in Messages /\ stored[m] \in Nat /\ worker[w].pc # "idle"
    BY WorkerType DEF Typed
  <1>2. faults' \in 0..MaxFaults /\ restarts' = restarts
    BY FaultEffect DEF Typed, budget
  <1>3. OnlyOf(m)
    BY <1>2 DEF OnlyOf, Typed
  <1>4. MovesTo(w, "done")
    BY <1>1, ToEffect DEF Busy
  <1>. QED
    BY <1>1, <1>3, <1>4 DEF Handling, MovesTo, Busy, Quiet, events

LEMMA PushEffect ==
    ASSUME Typed, NEW w \in Workers, Push(w)
    PROVE  Handling(w)
  <1>. DEFINE m == Current(w)
  <1>1. \/ worker[w].pc = "push" /\ To(w, "mail")
        \/ worker[w].pc = "handle" /\ worker[w].k = "signal" /\ To(w, "done")
    BY DEF Push, Accepts
  <1>2. /\ publishing' = publishing \cup {<<w[2], m>>}
        /\ UNCHANGED <<producer, broker, health, effects, inbound, pushed, unheard,
                       deaf, tab, seen, budget>>
    BY DEF Push
  <1>3. m \in Messages /\ worker[w].pc # "idle"
    BY <1>1, WorkerType
  <1>4. worker[w].pc = "push" => worker[w].k = "notify"
    BY WorkerType DEF WorkerRecord
  <1>5. \/ worker[w].pc = "push" /\ worker[w].k = "notify" /\ MovesTo(w, "mail")
        \/ worker[w].pc = "handle" /\ worker[w].k = "signal" /\ MovesTo(w, "done")
    BY <1>1, <1>3, <1>4, ToEffect DEF Busy
  <1>6. OnlyOf(m)
    BY <1>2 DEF OnlyOf, Typed, effects, seen, budget
  <1>. HIDE DEF m
  <1>7. <<w[2], m>> \in publishing'
    BY <1>2
  <1>. QED
    BY <1>2, <1>3, <1>5, <1>6, <1>7 DEF Handling, MovesTo, Busy, effects, m

LEMMA HandlingEffect ==
    ASSUME Typed, NEW w \in Workers, Handles(w)
    PROVE  Handling(w)
  <1>1. CASE Discard(w)
    <2>1. /\ worker[w].pc = "handle" /\ To(w, "done") /\ Quiet
          /\ UNCHANGED <<stored, dead, again, budget>>
          /\ lost' = lost \cup {Current(w)}
      BY <1>1 DEF Discard, Quiet, effects
    <2>. QED
      BY <2>1, DroppingEffect
  <1>2. CASE Index(w)
    <2>1. /\ worker[w].pc = "handle" /\ worker[w].k = "audit" /\ Written(w, "done")
          /\ Quiet /\ UNCHANGED <<dead, lost>>
      BY <1>2 DEF Index, Accepts, Quiet
    <2>. QED
      BY <2>1, WritingEffect
  <1>3. CASE Save(w)
    <2>1. /\ worker[w].pc = "handle" /\ worker[w].k = "notify" /\ Written(w, "push")
          /\ Quiet /\ UNCHANGED <<dead, lost>>
      BY <1>3 DEF Save, Accepts, Quiet
    <2>. QED
      BY <2>1, WritingEffect
  <1>4. CASE SendMail(w)
    <2>1. /\ worker[w].pc = "handle" /\ worker[w].k = "email"
          /\ Quiet /\ UNCHANGED dead
      BY <1>4 DEF SendMail, Accepts, Quiet
    <2>2. CASE Written(w, "done") /\ UNCHANGED lost
      BY <2>1, <2>2, WritingEffect
    <2>3. CASE /\ Fault /\ To(w, "done")
               /\ lost' = lost \cup {Current(w)}
               /\ UNCHANGED <<stored, again>>
      BY <2>1, <2>3, DroppingEffect
    <2>. QED
      BY <1>4, <2>2, <2>3 DEF SendMail
  <1>5. CASE Push(w)
    BY <1>5, PushEffect
  <1>6. CASE Mail(w)
    <2>1. /\ worker[w].pc = "mail" /\ Current(w) \in Messages /\ MovesTo(w, "done")
          /\ UNCHANGED <<producer, broker, health, effects, events, tab, seen, budget>>
      BY <1>6, ToEffect, WorkerType DEF Mail, Busy
    <2>2. OnlyOf(Current(w))
      BY <2>1 DEF OnlyOf, Typed, effects, seen, budget
    <2>. QED
      BY <2>1, <2>2 DEF Handling, MovesTo, Busy, effects, events
  <1>7. CASE DeadLetter(w)
    <2>1. /\ worker[w].pc = "dlt" /\ To(w, "done") /\ Quiet
          /\ UNCHANGED <<stored, again>>
          /\ \/ dead' = dead \cup {Current(w)} /\ lost' = lost /\ UNCHANGED budget
             \/ Fault /\ lost' = lost \cup {Current(w)} /\ dead' = dead
      BY <1>7 DEF DeadLetter, Quiet
    <2>. QED
      BY <2>1, DroppingEffect
  <1>. QED
    BY <1>1, <1>2, <1>3, <1>4, <1>5, <1>6, <1>7 DEF Handles

-----------------------------------------------------------------------------
(* The steps, in the groups the proofs below take them in *)

\* The message is handed to the producer.
Emits(m) == Record(m) \/ Announce(m)

\* A Redis client sends an event or gives it up.
Publishes(p, m) == Publish(p, m) \/ PublishFails(p, m)

\* Outages, subscriptions and streams.
Aside ==
    \/ \E s \in Stores : GoesDown(s) \/ ComesUp(s)
    \/ \E p \in Replicas : CutOff(p) \/ Resubscribe(p)
    \/ \E p \in Replicas, m \in Messages : Pmessage(p, m)
    \/ \E t \in Tabs : Close(t) \/ \E p \in Replicas : Connect(t, p)
    \/ UNCHANGED vars

LEMMA NextCases ==
    ASSUME [Next]_vars
    PROVE  \/ \E m \in Messages, k \in Kinds : Begin(m, k)
           \/ \E m \in Messages : Emits(m)
           \/ \E m \in Messages : Commit(m)
           \/ \E m \in Messages : Undo(m)
           \/ \E m \in Messages : Accept(m)
           \/ \E m \in Messages : SendLost(m)
           \/ \E w \in Workers : Poll(w)
           \/ \E w \in Workers : Handles(w)
           \/ \E w \in Workers : Advance(w)
           \/ \E w \in Workers : Crash(w)
           \/ \E w \in Workers : Boot(w)
           \/ \E k \in Kinds : CommitOffset(k)
           \/ \E k \in Kinds, p \in Replicas : Rebalance(k, p)
           \/ \E p \in Replicas, m \in Messages : Publishes(p, m)
           \/ Aside
  <1>1. CASE \E m \in Messages :
               \/ \E k \in Kinds : Begin(m, k)
               \/ Record(m) \/ Commit(m) \/ Undo(m)
               \/ Announce(m) \/ Accept(m) \/ SendLost(m)
    BY <1>1 DEF Emits
  <1>2. CASE \E w \in Workers : Work(w) \/ Crash(w)
    BY <1>2 DEF Work, Handles
  <1>3. CASE \E k \in Kinds :
               \/ CommitOffset(k)
               \/ \E p \in Replicas : Rebalance(k, p)
    BY <1>3
  <1>4. CASE \E p \in Replicas :
               \/ CutOff(p) \/ Resubscribe(p)
               \/ \E m \in Messages :
                    Publish(p, m) \/ PublishFails(p, m) \/ Pmessage(p, m)
    BY <1>4 DEF Aside, Publishes
  <1>5. CASE \E s \in Stores : GoesDown(s) \/ ComesUp(s)
    BY <1>5 DEF Aside
  <1>6. CASE \E t \in Tabs : Close(t) \/ \E p \in Replicas : Connect(t, p)
    BY <1>6 DEF Aside
  <1>7. CASE UNCHANGED vars
    BY <1>7 DEF Aside
  <1>. QED
    BY <1>1, <1>2, <1>3, <1>4, <1>5, <1>6, <1>7 DEF Next

\* The subscriptions that break take no event and no tab along that is not
\* known.
LEMMA UnsubscribedEffect ==
    ASSUME Typed, NEW ps \in SUBSET Replicas, Unsubscribed(ps)
    PROVE  /\ subscribed' \subseteq Replicas /\ inbound' \subseteq Replicas \X Messages
           /\ deaf' \in [Messages -> SUBSET Tabs]
           /\ subscribed' = subscribed \ ps
           /\ inbound' = {e \in inbound : e[1] \notin ps}
           /\ \A m \in Messages :
                deaf'[m] = deaf[m] \cup {t \in unheard[m] : tab[t] \in ps}
  <1>1. /\ subscribed \subseteq Replicas /\ inbound \subseteq Replicas \X Messages
        /\ \A m \in Messages : deaf[m] \subseteq Tabs /\ unheard[m] \subseteq Tabs
    BY DEF Typed
  <1>2. \A m \in Messages :
          deaf[m] \cup {t \in unheard[m] : tab[t] \in ps} \in SUBSET Tabs
    BY <1>1
  <1>. QED
    BY <1>1, <1>2 DEF Unsubscribed

\* What the steps aside leave alone, and the types of what they change.
AsideTyped ==
    /\ UNCHANGED <<producer, broker, worker, up, effects, publishing, pushed, seen>>
    /\ subscribed' \subseteq Replicas /\ down' \subseteq Stores
    /\ inbound' \subseteq Replicas \X Messages
    /\ tab' \in [Tabs -> Replicas \cup {Closed}]
    /\ unheard' \in [Messages -> SUBSET Tabs] /\ deaf' \in [Messages -> SUBSET Tabs]
    /\ faults' \in 0..MaxFaults /\ restarts' \in 0..MaxRestarts

LEMMA AsideEffect ==
    ASSUME Typed, Aside
    PROVE  AsideTyped
  <1>0. /\ subscribed \subseteq Replicas /\ down \subseteq Stores
        /\ inbound \subseteq Replicas \X Messages
        /\ tab \in [Tabs -> Replicas \cup {Closed}]
        /\ unheard \in [Messages -> SUBSET Tabs] /\ deaf \in [Messages -> SUBSET Tabs]
        /\ faults \in 0..MaxFaults /\ restarts \in 0..MaxRestarts
    BY DEF Typed
  <1>1. ASSUME NEW s \in Stores, GoesDown(s) PROVE AsideTyped
    <2>1. \/ Unsubscribed(Replicas)
          \/ UNCHANGED <<subscribed, inbound, deaf>>
      BY <1>1 DEF GoesDown
    <2>2. /\ subscribed' \subseteq Replicas /\ inbound' \subseteq Replicas \X Messages
          /\ deaf' \in [Messages -> SUBSET Tabs]
      BY <1>0, <2>1, UnsubscribedEffect
    <2>. QED
      BY <1>0, <1>1, <2>2 DEF GoesDown, AsideTyped, budget
  <1>2. ASSUME NEW s \in Stores, ComesUp(s) PROVE AsideTyped
    BY <1>0, <1>2 DEF ComesUp, AsideTyped, events, budget
  <1>3. ASSUME NEW p \in Replicas, CutOff(p) PROVE AsideTyped
    <2>1. /\ subscribed' \subseteq Replicas /\ inbound' \subseteq Replicas \X Messages
          /\ deaf' \in [Messages -> SUBSET Tabs]
      BY <1>3, UnsubscribedEffect DEF CutOff
    <2>2. faults' \in 0..MaxFaults /\ restarts' = restarts
      BY <1>3, FaultEffect DEF CutOff
    <2>. QED
      BY <1>0, <1>3, <2>1, <2>2 DEF CutOff, AsideTyped
  <1>4. ASSUME NEW p \in Replicas, Resubscribe(p) PROVE AsideTyped
    BY <1>0, <1>4 DEF Resubscribe, AsideTyped, events, budget
  <1>5. ASSUME NEW p \in Replicas, NEW m \in Messages, Pmessage(p, m) PROVE AsideTyped
    <2>1. PICK u \in SUBSET Tabs, d \in SUBSET Tabs :
            /\ unheard' = [unheard EXCEPT ![m] = u]
            /\ deaf' = [deaf EXCEPT ![m] = d]
      <3>1. /\ {t \in unheard[m] : tab[t] # p} \in SUBSET Tabs
            /\ {t \in deaf[m] : tab[t] # p} \in SUBSET Tabs
        BY <1>0
      <3>. QED
        BY <1>5, <3>1 DEF Pmessage
    <2>. QED
      BY <1>0, <1>5, <2>1 DEF Pmessage, AsideTyped, health, budget
  <1>6. ASSUME NEW t \in Tabs, Close(t) PROVE AsideTyped
    <2>1. /\ tab' \in [Tabs -> Replicas \cup {Closed}]
          /\ unheard' \in [Messages -> SUBSET Tabs] /\ deaf' \in [Messages -> SUBSET Tabs]
      BY <1>0, <1>6 DEF Close
    <2>. QED
      BY <1>0, <1>6, <2>1 DEF Close, AsideTyped, health, budget
  <1>7. ASSUME NEW t \in Tabs, NEW p \in Replicas, Connect(t, p) PROVE AsideTyped
    BY <1>0, <1>7 DEF Connect, AsideTyped, health, events, budget
  <1>8. CASE UNCHANGED vars
    BY <1>0, <1>8 DEF vars, AsideTyped, producer, broker, effects, seen
  <1>. QED
    BY <1>1, <1>2, <1>3, <1>4, <1>5, <1>6, <1>7, <1>8 DEF Aside

\* An event that leaves a Redis client was taken by Redis, or given up.
LEMMA PublishesEffect ==
    ASSUME Typed, NEW p \in Replicas, NEW m \in Messages, Publishes(p, m)
    PROVE  /\ <<p, m>> \in publishing /\ m \in pushed' \cup lost'
           /\ publishing' \subseteq publishing
           /\ \A e \in publishing : e \in publishing' \/ e = <<p, m>>
           /\ pushed \subseteq pushed' /\ pushed' \subseteq pushed \cup {m}
           /\ lost \subseteq lost' /\ lost' \subseteq lost \cup {m}
           /\ inbound' \subseteq Replicas \X Messages
           /\ faults' \in 0..MaxFaults /\ restarts' = restarts
           /\ UNCHANGED <<producer, broker, worker, health, effects, unheard, deaf, tab,
                          again>>
  <1>0. /\ subscribed \subseteq Replicas /\ inbound \subseteq Replicas \X Messages
        /\ faults \in 0..MaxFaults
    BY DEF Typed
  <1>1. CASE Publish(p, m)
    <2>1. faults' \in 0..MaxFaults /\ restarts' = restarts
      BY <1>0, <1>1, FaultEffect DEF Publish, budget
    <2>2. inbound' \subseteq Replicas \X Messages
      BY <1>0, <1>1 DEF Publish
    <2>. QED
      BY <1>1, <2>1, <2>2 DEF Publish, seen
  <1>2. CASE PublishFails(p, m)
    BY <1>0, <1>2 DEF PublishFails, budget
  <1>. QED
    BY <1>1, <1>2 DEF Publishes

LEMMA EmitsEffect ==
    ASSUME Typed, NEW m \in Messages, Emits(m)
    PROVE  /\ wire' \in [Messages -> {"unsent", "sending", "ended"}]
           /\ wire[m] = "unsent" /\ wire'[m] = "sending"
           /\ \A n \in Messages \ {m} : wire'[n] = wire[n]
           /\ change[m] # "none" /\ (kind[m] # "audit" => change[m] = "committed")
           /\ UNCHANGED <<kind, malformed, change, broker, worker, health, effects,
                          events, tab, seen, budget>>
  BY DEF Typed, Emits, Record, Announce, EmitSafe

\* The log after the broker took m, and that nothing else of it changed.
LEMMA AcceptEffect ==
    ASSUME Typed, NEW m \in Messages, Accept(m)
    PROVE  /\ wire[m] = "sending" /\ log' \in [Kinds -> Seq(Messages)]
           /\ \A k \in Kinds \ {kind[m]} : log'[k] = log[k]
           /\ Len(log'[kind[m]]) = Len(log[kind[m]]) + 1
           /\ log'[kind[m]][Len(log[kind[m]]) + 1] = m
           /\ \A k \in Kinds : /\ Len(log[k]) <= Len(log'[k])
                               /\ \A i \in 1..Len(log[k]) : log'[k][i] = log[k][i]
           /\ \/ /\ again' = again /\ wire'[m] = "ended"
                 /\ \A n \in Messages \ {m} : wire'[n] = wire[n]
              \/ again' = again \cup {m} /\ wire' = wire
           /\ wire' \in [Messages -> {"unsent", "sending", "ended"}]
           /\ faults' \in 0..MaxFaults /\ restarts' = restarts
           /\ UNCHANGED <<kind, malformed, change, assigned, position, committed,
                          worker, health, effects, events, tab, lost>>
  <1>. DEFINE j == kind[m]
  <1>1. j \in Kinds /\ log \in [Kinds -> Seq(Messages)] /\ faults \in 0..MaxFaults
    BY DEF Typed
  <1>2. log' = [log EXCEPT ![j] = Append(log[j], m)]
    BY DEF Accept
  <1>. HIDE DEF j
  <1>3. log' \in [Kinds -> Seq(Messages)] /\ \A k \in Kinds \ {j} : log'[k] = log[k]
    BY <1>1, <1>2, AppendProperties
  <1>4. log'[j] = Append(log[j], m) /\ log[j] \in Seq(Messages)
    BY <1>1, <1>2
  <1>5. /\ Len(log'[j]) = Len(log[j]) + 1 /\ log'[j][Len(log[j]) + 1] = m
        /\ \A i \in 1..Len(log[j]) : log'[j][i] = log[j][i]
    BY <1>4, AppendProperties
  <1>6. \A k \in Kinds : Len(log[k]) \in Nat
    BY LogType
  <1>7. \A k \in Kinds : /\ Len(log[k]) <= Len(log'[k])
                         /\ \A i \in 1..Len(log[k]) : log'[k][i] = log[k][i]
    BY <1>3, <1>5, <1>6
  <1>8. faults' \in 0..MaxFaults /\ restarts' = restarts
    BY <1>1, FaultEffect DEF Accept, budget
  <1>9. /\ wire[m] = "sending"
        /\ \/ /\ again' = again /\ wire'[m] = "ended"
              /\ \A n \in Messages \ {m} : wire'[n] = wire[n]
           \/ again' = again \cup {m} /\ wire' = wire
        /\ wire' \in [Messages -> {"unsent", "sending", "ended"}]
        /\ UNCHANGED <<kind, malformed, change, assigned, position, committed,
                       worker, health, effects, events, tab, lost>>
    BY DEF Accept, Typed
  <1>. QED
    BY <1>3, <1>5, <1>7, <1>8, <1>9 DEF j

\* Where the topics ks are read from now.
LEMMA RewindEffect ==
    ASSUME Typed, NEW ks \in SUBSET Kinds, Rewind(ks)
    PROVE  /\ position' \in [Kinds -> Nat]
           /\ \A k \in Kinds : position'[k] <= Len(log[k])
           /\ \A k \in Kinds \ ks : position'[k] = position[k]
           /\ \A k \in ks : /\ position'[k] = Resume(k)
                            /\ committed[k] # None => position'[k] = committed[k]
                            /\ committed[k] = None => position'[k] = Len(log[k])
  <1>1. \A k \in Kinds : Resume(k) \in Nat /\ Resume(k) <= Len(log[k])
    <2>. TAKE k \in Kinds
    <2>1. committed[k] = None \/ committed[k] \in 0..Len(log[k])
      BY DEF Typed
    <2>2. Len(log[k]) \in Nat
      BY LogType
    <2>. QED
      BY <2>1, <2>2 DEF Resume
  <1>2. position' = [k \in Kinds |-> IF k \in ks THEN Resume(k) ELSE position[k]]
    BY DEF Rewind
  <1>3. /\ position' \in [Kinds -> Nat]
        /\ \A k \in Kinds : position'[k] <= Len(log[k])
        /\ \A k \in Kinds \ ks : position'[k] = position[k]
        /\ \A k \in ks : position'[k] = Resume(k)
    BY <1>1, <1>2, LogType
  <1>. QED
    BY <1>3 DEF Resume

\* What is known of the messages that are read again or passed over.
LEMMA RewoundEffect ==
    ASSUME Typed, NEW ks \in SUBSET Kinds
    PROVE  /\ Repeated(ks) \subseteq Messages /\ Skipped(ks) \subseteq Messages
           /\ \A k \in ks : \A i \in 1..Len(log[k]) :
                /\ Resume(k) < i /\ i <= position[k] + 1 => log[k][i] \in Repeated(ks)
                /\ committed[k] = None /\ position[k] < i => log[k][i] \in Skipped(ks)
  <1>1. \A k \in Kinds : \A a, b : Slice(k, a, b) \subseteq Messages
    BY LogType DEF Slice
  <1>2. Repeated(ks) \subseteq Messages
    BY <1>1 DEF Repeated
  <1>3. Skipped(ks) \subseteq Messages
    BY <1>1 DEF Skipped
  <1>4. ASSUME NEW k \in ks, NEW i \in 1..Len(log[k]), Resume(k) < i, i <= position[k] + 1
        PROVE  log[k][i] \in Repeated(ks)
    <2>1. position[k] \in Nat /\ Len(log[k]) \in Nat /\ i \in Nat
      BY <1>4, LogType
    <2>2. Resume(k) \in Int
      BY <2>1 DEF Resume, Typed
    <2>3. i \in (Resume(k) + 1)..(position[k] + 1)
      BY <1>4, <2>1, <2>2
    <2>4. log[k][i] \in Slice(k, Resume(k) + 1, position[k] + 1)
      BY <1>4, <2>3 DEF Slice
    <2>. QED
      BY <2>4 DEF Repeated
  <1>5. ASSUME NEW k \in ks, NEW i \in 1..Len(log[k]), committed[k] = None, position[k] < i
        PROVE  log[k][i] \in Skipped(ks)
    <2>1. position[k] \in Nat /\ Resume(k) = Len(log[k]) /\ i \in Nat /\ Len(log[k]) \in Nat
      BY <1>5, LogType DEF Resume
    <2>2. i \in (position[k] + 1)..Resume(k)
      BY <1>5, <2>1
    <2>3. log[k][i] \in Slice(k, position[k] + 1, Resume(k))
      BY <1>5, <2>2 DEF Slice
    <2>. QED
      BY <1>5, <2>3 DEF Skipped
  <1>. QED
    BY <1>2, <1>3, <1>4, <1>5

\* The replicas of notification-service whose process worker w is.
Dies(w) == {p \in Replicas : w = <<"notification-service", p>>}

LEMMA CrashEffect ==
    ASSUME Typed, NEW w \in Workers, Crash(w)
    PROVE  /\ Rewind(TopicsOf(w)) /\ TopicsOf(w) \in SUBSET Kinds
           /\ again' = again \cup Repeated(TopicsOf(w))
           /\ lost \cup Skipped(TopicsOf(w)) \subseteq lost' /\ lost' \subseteq Messages
           /\ worker' \in [Workers -> WorkerRecord] /\ worker'[w].pc = "idle"
           /\ \A v \in Workers \ {w} : worker'[v] = worker[v]
           /\ up' = up \ {w} /\ subscribed' \subseteq Replicas
           /\ publishing' = {e \in publishing : e[1] \notin Dies(w)}
           /\ inbound' \subseteq Replicas \X Messages
           /\ \A p \in Replicas, m \in Messages :
                <<p, m>> \in publishing =>
                  \/ <<p, m>> \in publishing'
                  \/ w = <<"notification-service", p>> /\ (OnItsWay(m)' \/ m \in lost')
           /\ tab' \in [Tabs -> Replicas \cup {Closed}]
           /\ unheard' \in [Messages -> SUBSET Tabs] /\ deaf' \in [Messages -> SUBSET Tabs]
           /\ faults' \in 0..MaxFaults /\ restarts' \in 0..MaxRestarts
           /\ UNCHANGED <<producer, log, assigned, committed, down, effects, pushed>>
  <1>0. TopicsOf(w) \in SUBSET Kinds
    BY DEF TopicsOf
  <1>1. /\ Rewind(TopicsOf(w)) /\ again' = again \cup Repeated(TopicsOf(w))
        /\ up' = up \ {w} /\ publishing' = {e \in publishing : e[1] \notin Dies(w)}
        /\ UNCHANGED <<producer, log, assigned, committed, down, effects, pushed>>
    BY DEF Crash, Dies
  <1>2. /\ worker' \in [Workers -> WorkerRecord] /\ worker'[w].pc = "idle"
        /\ \A v \in Workers \ {w} : worker'[v] = worker[v]
    BY IdleType DEF Crash, Typed
  <1>3. /\ tab \in [Tabs -> Replicas \cup {Closed}]
        /\ unheard \in [Messages -> SUBSET Tabs] /\ deaf \in [Messages -> SUBSET Tabs]
        /\ faults \in 0..MaxFaults /\ restarts \in 0..MaxRestarts
        /\ MaxRestarts \in Nat /\ lost \subseteq Messages
        /\ subscribed \subseteq Replicas /\ inbound \subseteq Replicas \X Messages
    BY DeliveryAssumption DEF Typed
  <1>4. tab' \in [Tabs -> Replicas \cup {Closed}]
    BY <1>3 DEF Crash
  <1>5. unheard' \in [Messages -> SUBSET Tabs] /\ deaf' \in [Messages -> SUBSET Tabs]
    BY <1>3 DEF Crash
  <1>6. faults' \in 0..MaxFaults /\ restarts' \in 0..MaxRestarts
    BY <1>3 DEF Crash, Restart
  <1>7. subscribed' \subseteq Replicas /\ inbound' \subseteq Replicas \X Messages
    BY <1>3 DEF Crash
  <1>8. PICK gone \in SUBSET Messages :
          /\ lost' = lost \cup Skipped(TopicsOf(w)) \cup gone
          /\ \A p \in Dies(w), m \in Messages :
               <<p, m>> \in publishing /\ ~OnItsWay(m)' => m \in gone
    <2>. DEFINE dropped == {m \in Messages : \E p \in Dies(w) : <<p, m>> \in publishing}
                gone == {m \in dropped : ~OnItsWay(m)'}
    <2>1. lost' = lost \cup Skipped(TopicsOf(w)) \cup gone
      BY DEF Crash, Dies
    <2>2. gone \in SUBSET Messages
      OBVIOUS
    <2>3. \A p \in Dies(w), m \in Messages :
            <<p, m>> \in publishing /\ ~OnItsWay(m)' => m \in gone
      OBVIOUS
    <2>. HIDE DEF gone
    <2>. QED
      BY <2>1, <2>2, <2>3
  <1>9. lost \cup Skipped(TopicsOf(w)) \subseteq lost' /\ lost' \subseteq Messages
    BY <1>0, <1>3, <1>8, RewoundEffect
  <1>10. ASSUME NEW p \in Replicas, NEW m \in Messages, <<p, m>> \in publishing,
                <<p, m>> \notin publishing'
         PROVE  w = <<"notification-service", p>> /\ (OnItsWay(m)' \/ m \in lost')
    <2>1. p \in Dies(w)
      BY <1>1, <1>10
    <2>. QED
      BY <1>8, <1>10, <2>1 DEF Dies
  <1>. QED
    BY <1>0, <1>1, <1>2, <1>4, <1>5, <1>6, <1>7, <1>9, <1>10

LEMMA BootEffect ==
    ASSUME Typed, NEW w \in Workers, Boot(w)
    PROVE  /\ Rewind(TopicsOf(w)) /\ TopicsOf(w) \in SUBSET Kinds
           /\ w \notin up /\ up' = up \cup {w}
           /\ subscribed' \subseteq Replicas /\ subscribed \subseteq subscribed'
           /\ lost' = lost \cup Skipped(TopicsOf(w)) /\ lost' \subseteq Messages
           /\ UNCHANGED <<producer, log, assigned, committed, worker, down, effects,
                          events, tab, again, budget>>
  <1>1. TopicsOf(w) \in SUBSET Kinds
    BY DEF TopicsOf
  <1>2. lost \subseteq Messages /\ subscribed \subseteq Replicas
    BY DEF Typed
  <1>3. Skipped(TopicsOf(w)) \subseteq Messages
    BY <1>1, RewoundEffect
  <1>. QED
    BY <1>1, <1>2, <1>3 DEF Boot

LEMMA RebalanceEffect ==
    ASSUME Typed, NEW k \in Kinds, NEW p \in Replicas, Rebalance(k, p)
    PROVE  /\ Rewind({k}) /\ assigned' \in [Kinds -> Replicas]
           /\ again' = again \cup Repeated({k}) /\ lost' = lost \cup Skipped({k})
           /\ again' \subseteq Messages /\ lost' \subseteq Messages
           /\ \A j \in Kinds \ {k} : assigned'[j] = assigned[j]
           /\ faults' \in 0..MaxFaults /\ restarts' \in 0..MaxRestarts
           /\ UNCHANGED <<producer, log, committed, worker, health, effects, events, tab>>
  <1>1. /\ faults \in 0..MaxFaults /\ restarts \in 0..MaxRestarts
        /\ MaxRestarts \in Nat /\ assigned \in [Kinds -> Replicas]
        /\ again \subseteq Messages /\ lost \subseteq Messages
    BY DeliveryAssumption DEF Typed
  <1>2. faults' \in 0..MaxFaults /\ restarts' \in 0..MaxRestarts
    BY <1>1 DEF Rebalance, Restart
  <1>3. Repeated({k}) \subseteq Messages /\ Skipped({k}) \subseteq Messages
    BY RewoundEffect
  <1>. QED
    BY <1>1, <1>2, <1>3 DEF Rebalance

-----------------------------------------------------------------------------
(* Types *)

LEMMA TypedInit == Init => Typed
  <1>. SUFFICES ASSUME Init PROVE Typed
    OBVIOUS
  <1>1. log = [k \in Kinds |-> << >>] /\ worker = [w \in Workers |-> Idle]
    BY DEF Init
  <1>2. << >> \in Seq(Messages) /\ Len(<< >>) = 0
    BY EmptySeq
  <1>3. log \in [Kinds -> Seq(Messages)] /\ \A k \in Kinds : Len(log[k]) = 0
    BY <1>1, <1>2
  <1>4. worker \in [Workers -> WorkerRecord] /\ \A w \in Workers : worker[w].pc = "idle"
    BY <1>1, IdleType
  <1>5. position \in [Kinds -> Nat] /\ committed \in [Kinds -> Int]
    BY DEF Init, None
  <1>6. \A k \in Kinds :
          /\ position[k] <= Len(log[k])
          /\ committed[k] = None \/ committed[k] \in 0..Len(log[k])
    BY <1>3 DEF Init
  <1>7. assigned \in [Kinds -> Replicas]
    <2>1. (CHOOSE p \in Replicas : TRUE) \in Replicas
      BY DeliveryAssumption
    <2>. QED
      BY <2>1 DEF Init
  <1>8. /\ kind \in [Messages -> Kinds] /\ malformed \subseteq Messages
        /\ change \in [Messages -> {"none", "open", "committed", "undone"}]
        /\ wire \in [Messages -> {"unsent", "sending", "ended"}]
    BY DEF Init, Kinds
  <1>9. /\ up \subseteq Workers /\ subscribed \subseteq Replicas /\ down \subseteq Stores
        /\ stored \in [Messages -> Nat]
        /\ dead \subseteq Messages /\ pushed \subseteq Messages
        /\ tab \in [Tabs -> Replicas \cup {Closed}]
        /\ publishing \subseteq Replicas \X Messages
        /\ inbound \subseteq Replicas \X Messages
        /\ unheard \in [Messages -> SUBSET Tabs] /\ deaf \in [Messages -> SUBSET Tabs]
        /\ lost \subseteq Messages /\ again \subseteq Messages
        /\ faults \in 0..MaxFaults /\ restarts \in 0..MaxRestarts
    BY DeliveryAssumption DEF Init
  <1>. QED
    BY <1>3, <1>4, <1>5, <1>6, <1>7, <1>8, <1>9 DEF Typed

\* The workers keep their type when at most one of them moves, to a message
\* that its topic holds.
LEMMA WorkersTyped ==
    ASSUME Typed, NEW w \in Workers, worker' \in [Workers -> WorkerRecord],
           \A v \in Workers \ {w} : worker'[v] = worker[v],
           \A k \in Kinds : Len(log'[k]) >= Len(log[k]) /\ Len(log'[k]) \in Nat,
           worker'[w].pc # "idle" =>
             /\ GroupOf(worker'[w].k) = w[1]
             /\ worker'[w].at \in 1..Len(log[worker'[w].k])
             /\ worker'[w].attempt \in 1..Retries
    PROVE  \A v \in Workers : worker'[v].pc # "idle" =>
             /\ GroupOf(worker'[v].k) = v[1]
             /\ worker'[v].at \in 1..Len(log'[worker'[v].k])
             /\ worker'[v].attempt \in 1..Retries
  <1>. SUFFICES ASSUME NEW v \in Workers, worker'[v].pc # "idle"
                PROVE  /\ GroupOf(worker'[v].k) = v[1]
                       /\ worker'[v].at \in 1..Len(log'[worker'[v].k])
                       /\ worker'[v].attempt \in 1..Retries
    OBVIOUS
  <1>1. /\ GroupOf(worker'[v].k) = v[1]
        /\ worker'[v].at \in 1..Len(log[worker'[v].k])
        /\ worker'[v].attempt \in 1..Retries
    BY WorkerType
  <1>2. worker'[v].k \in Kinds
    BY DEF WorkerRecord
  <1>3. Len(log[worker'[v].k]) \in Nat
    BY <1>2, LogType
  <1>. QED
    BY <1>1, <1>2, <1>3

LEMMA TypedProducer ==
    ASSUME Typed, NEW m \in Messages,
           \/ \E k \in Kinds : Begin(m, k)
           \/ Emits(m) \/ Commit(m) \/ Undo(m) \/ Accept(m) \/ SendLost(m)
    PROVE  Typed'
  <1>1. ASSUME NEW k \in Kinds, Begin(m, k) PROVE Typed'
    <2>1. /\ change' \in [Messages -> {"none", "open", "committed", "undone"}]
          /\ kind' \in [Messages -> Kinds] /\ malformed' \subseteq Messages
      BY <1>1 DEF Begin, Typed
    <2>2. faults' \in 0..MaxFaults /\ restarts' = restarts
      BY <1>1, FaultEffect DEF Begin, Typed, budget
    <2>. QED
      BY <1>1, <2>1, <2>2
         DEF Begin, Typed, broker, health, effects, events, seen
  <1>2. CASE Emits(m)
    <2>1. /\ wire' \in [Messages -> {"unsent", "sending", "ended"}]
          /\ UNCHANGED <<kind, malformed, change, broker, worker, health, effects,
                         events, tab, seen, budget>>
      BY <1>2, EmitsEffect
    <2>. QED
      BY <2>1 DEF Typed, broker, health, effects, events, seen, budget
  <1>3. CASE Commit(m)
    <2>1. change' \in [Messages -> {"none", "open", "committed", "undone"}]
      BY <1>3 DEF Commit, Typed
    <2>2. unheard' \in [Messages -> SUBSET Tabs] /\ deaf' \in [Messages -> SUBSET Tabs]
      <3>1. PICK u \in SUBSET Tabs, d \in SUBSET Tabs :
              unheard' = [unheard EXCEPT ![m] = u] /\ deaf' = [deaf EXCEPT ![m] = d]
        BY <1>3 DEF Commit
      <3>. QED
        BY <3>1 DEF Typed
    <2>. QED
      BY <1>3, <2>1, <2>2 DEF Commit, Typed, broker, health, effects, seen, budget
  <1>4. CASE Undo(m)
    <2>1. change' \in [Messages -> {"none", "open", "committed", "undone"}]
      BY <1>4 DEF Undo, Typed
    <2>2. wire' \in [Messages -> {"unsent", "sending", "ended"}]
      BY <1>4 DEF Undo, Typed
    <2>3. faults' \in 0..MaxFaults /\ restarts' = restarts
      BY <1>4, FaultEffect DEF Undo
    <2>. QED
      BY <1>4, <2>1, <2>2, <2>3 DEF Undo, Typed, broker, health, effects, events, seen
  <1>5. CASE Accept(m)
    <2>1. \A k \in Kinds : Len(log'[k]) >= Len(log[k]) /\ Len(log'[k]) \in Nat
                           /\ Len(log[k]) \in Nat
      BY <1>5, AcceptEffect, LogType, LenProperties
    <2>2. \A k \in Kinds :
            /\ position[k] <= Len(log'[k])
            /\ committed[k] = None \/ committed[k] \in 0..Len(log'[k])
      <3>1. \A k \in Kinds :
              /\ position[k] \in Nat /\ position[k] <= Len(log[k])
              /\ committed[k] = None \/ committed[k] \in 0..Len(log[k])
        BY DEF Typed
      <3>. QED
        BY <2>1, <3>1
    <2>3. \A w \in Workers : worker[w].pc # "idle" =>
            /\ GroupOf(worker[w].k) = w[1]
            /\ worker[w].at \in 1..Len(log'[worker[w].k])
            /\ worker[w].attempt \in 1..Retries
      BY <2>1, WorkerType
    <2>4. /\ log' \in [Kinds -> Seq(Messages)]
          /\ wire' \in [Messages -> {"unsent", "sending", "ended"}]
          /\ faults' \in 0..MaxFaults /\ restarts' = restarts
          /\ again' \in {again, again \cup {m}}
          /\ UNCHANGED <<kind, malformed, change, assigned, position, committed,
                         worker, health, effects, events, tab, lost>>
      BY <1>5, AcceptEffect
    <2>5. again' \subseteq Messages
      BY <2>4 DEF Typed
    <2>. QED
      BY <2>2, <2>3, <2>4, <2>5 DEF Typed, health, effects, events
  <1>6. CASE SendLost(m)
    <2>1. wire' \in [Messages -> {"unsent", "sending", "ended"}]
      BY <1>6 DEF SendLost, Typed
    <2>2. faults' \in 0..MaxFaults /\ restarts' = restarts
      BY <1>6, FaultEffect DEF SendLost
    <2>. QED
      BY <1>6, <2>1, <2>2 DEF SendLost, Typed, broker, health, effects, events
  <1>. QED
    BY <1>1, <1>2, <1>3, <1>4, <1>5, <1>6

\* Advance moves its worker to Idle and at most one position by one.
LEMMA AdvanceEffect ==
    ASSUME Typed, NEW w \in Workers, Advance(w)
    PROVE  /\ worker[w].pc = "done" /\ worker'[w].pc = "idle"
           /\ worker' \in [Workers -> WorkerRecord]
           /\ \A v \in Workers \ {w} : worker'[v] = worker[v]
           /\ position' \in [Kinds -> Nat]
           /\ \A k \in Kinds \ {worker[w].k} : position'[k] = position[k]
           /\ \/ /\ position'[worker[w].k] = position[worker[w].k]
                 /\ ~( /\ worker[w].at = position[worker[w].k] + 1
                       /\ assigned[worker[w].k] = w[2] )
              \/ /\ position'[worker[w].k] = position[worker[w].k] + 1
                 /\ worker[w].at = position[worker[w].k] + 1
                 /\ assigned[worker[w].k] = w[2]
           /\ UNCHANGED <<producer, log, assigned, committed, health, effects,
                          events, tab, seen, budget>>
  <1>. DEFINE k == worker[w].k
  <1>1. k \in Kinds /\ position \in [Kinds -> Nat]
    BY WorkerType DEF Typed
  <1>2. position' = [position EXCEPT ![k] =
          IF assigned[k] = w[2] /\ position[k] + 1 = worker[w].at
          THEN position[k] + 1 ELSE position[k]]
    BY DEF Advance
  <1>3. worker[w].pc = "done" /\ worker' = [worker EXCEPT ![w] = Idle]
    BY DEF Advance
  <1>4. UNCHANGED <<producer, log, assigned, committed, health, effects, events,
                    tab, seen, budget>>
    BY DEF Advance
  <1>5. /\ worker'[w].pc = "idle" /\ worker' \in [Workers -> WorkerRecord]
        /\ \A v \in Workers \ {w} : worker'[v] = worker[v]
    BY <1>3, IdleType DEF Typed
  <1>. HIDE DEF k
  <1>6. /\ position' \in [Kinds -> Nat]
        /\ \A j \in Kinds \ {k} : position'[j] = position[j]
        /\ \/ /\ position'[k] = position[k]
              /\ ~(worker[w].at = position[k] + 1 /\ assigned[k] = w[2])
           \/ /\ position'[k] = position[k] + 1 /\ worker[w].at = position[k] + 1
              /\ assigned[k] = w[2]
    BY <1>1, <1>2
  <1>. QED
    BY <1>3, <1>4, <1>5, <1>6 DEF k

LEMMA PollEffect ==
    ASSUME Typed, NEW w \in Workers, Poll(w)
    PROVE  /\ worker[w].pc = "idle" /\ worker' \in [Workers -> WorkerRecord]
           /\ \A v \in Workers \ {w} : worker'[v] = worker[v]
           /\ worker'[w].pc = "handle" /\ GroupOf(worker'[w].k) = w[1]
           /\ assigned[worker'[w].k] = w[2]
           /\ worker'[w].at = position[worker'[w].k] + 1
           /\ worker'[w].at \in 1..Len(log[worker'[w].k])
           /\ worker'[w].attempt \in 1..Retries
           /\ w \in up
           /\ UNCHANGED <<producer, broker, health, effects, events, tab, seen, budget>>
  <1>1. PICK k \in Kinds :
         /\ GroupOf(k) = w[1] /\ assigned[k] = w[2]
         /\ position[k] < Len(log[k])
         /\ worker' = [worker EXCEPT ![w] =
              [pc |-> "handle", k |-> k, at |-> position[k] + 1, attempt |-> 1]]
    BY DEF Poll
  <1>2. position[k] \in Nat /\ Len(log[k]) \in Nat
    BY LogType
  <1>3. PICK a \in 1..Len(log[k]) : a = position[k] + 1
    BY <1>1, <1>2
  <1>. DEFINE x == [pc |-> "handle", k |-> k, at |-> a, attempt |-> 1]
  <1>4. x \in WorkerRecord /\ x.pc = "handle" /\ x.k = k /\ x.at = a /\ x.attempt = 1
    BY <1>2, <1>3 DEF WorkerRecord, Busy, Retries
  <1>5. worker' = [worker EXCEPT ![w] = x]
    BY <1>1, <1>3
  <1>. HIDE DEF x
  <1>6. /\ worker' \in [Workers -> WorkerRecord] /\ worker'[w] = x
        /\ \A v \in Workers \ {w} : worker'[v] = worker[v]
    BY <1>4, <1>5 DEF Typed
  <1>7. worker'[w].attempt \in 1..Retries
    BY <1>4, <1>6 DEF Retries
  <1>. QED
    BY <1>1, <1>3, <1>4, <1>6, <1>7 DEF Poll

LEMMA TypedWorker ==
    ASSUME Typed, NEW w \in Workers, Poll(w) \/ Handles(w) \/ Advance(w)
    PROVE  Typed'
  <1>1. \A k \in Kinds : Len(log[k]) >= Len(log[k]) /\ Len(log[k]) \in Nat
    BY LogType
  <1>2. CASE Poll(w)
    <2>1. \A v \in Workers : worker'[v].pc # "idle" =>
            /\ GroupOf(worker'[v].k) = v[1]
            /\ worker'[v].at \in 1..Len(log'[worker'[v].k])
            /\ worker'[v].attempt \in 1..Retries
      BY <1>1, <1>2, PollEffect, WorkersTyped DEF broker
    <2>2. /\ worker' \in [Workers -> WorkerRecord]
          /\ UNCHANGED <<producer, broker, health, effects, events, tab, seen, budget>>
      BY <1>2, PollEffect
    <2>. QED
      BY <2>1, <2>2 DEF Typed, producer, broker, health, effects, events, seen, budget
  <1>3. CASE Handles(w)
    <2>1. Handling(w)
      BY <1>3, HandlingEffect
    <2>2. PICK pc \in Busy : MovesTo(w, pc)
      BY <2>1 DEF Handling
    <2>3. /\ worker' \in [Workers -> WorkerRecord]
          /\ \A v \in Workers \ {w} : worker'[v] = worker[v]
          /\ worker'[w].k = worker[w].k /\ worker'[w].at = worker[w].at
          /\ worker'[w].attempt \in 1..Retries
          /\ UNCHANGED <<producer, broker, health, inbound, pushed, unheard, deaf, tab>>
          /\ worker[w].pc # "idle" /\ Current(w) \in Messages
      BY <2>1, <2>2 DEF MovesTo, Handling
    <2>4. \A v \in Workers : worker'[v].pc # "idle" =>
            /\ GroupOf(worker'[v].k) = v[1]
            /\ worker'[v].at \in 1..Len(log'[worker'[v].k])
            /\ worker'[v].attempt \in 1..Retries
      BY <1>1, <2>3, WorkerType, WorkersTyped DEF broker
    <2>5. /\ stored' \in [Messages -> Nat]
          /\ dead' \subseteq Messages
          /\ lost' \subseteq Messages /\ again' \subseteq Messages
          /\ faults' \in 0..MaxFaults /\ restarts' \in 0..MaxRestarts
      BY <2>1, <2>3 DEF Handling, OnlyOf, Typed
    <2>6. publishing' \subseteq Replicas \X Messages
      <3>1. publishing' \subseteq publishing \cup {<<w[2], Current(w)>>} /\ w[2] \in Replicas
        BY <2>1 DEF Handling, Workers
      <3>2. publishing \subseteq Replicas \X Messages
        BY DEF Typed
      <3>. QED
        BY <2>3, <3>1, <3>2
    <2>. QED
      BY <2>3, <2>4, <2>5, <2>6 DEF Typed, producer, broker, health
  <1>4. CASE Advance(w)
    <2>1. \A v \in Workers : worker'[v].pc # "idle" =>
            /\ GroupOf(worker'[v].k) = v[1]
            /\ worker'[v].at \in 1..Len(log'[worker'[v].k])
            /\ worker'[v].attempt \in 1..Retries
      BY <1>1, <1>4, AdvanceEffect, WorkersTyped
    <2>2. worker[w].at \in 1..Len(log[worker[w].k]) /\ worker[w].k \in Kinds
      BY <1>4, AdvanceEffect, WorkerType
    <2>3. \A k \in Kinds : position'[k] <= Len(log[k])
      <3>1. position[worker[w].k] \in Nat /\ Len(log[worker[w].k]) \in Nat
            /\ position[worker[w].k] <= Len(log[worker[w].k])
        BY <2>2, LogType
      <3>2. position'[worker[w].k] <= Len(log[worker[w].k])
        <4>. DEFINE b == position[worker[w].k]  n == Len(log[worker[w].k])
                    a == worker[w].at           c == position'[worker[w].k]
        <4>1. a \in 1..n /\ b \in Nat /\ n \in Nat /\ b <= n
          BY <2>2, <3>1
        <4>2. c = b \/ (c = b + 1 /\ a = b + 1)
          BY <1>4, AdvanceEffect
        <4>. HIDE DEF a, b, c, n
        <4>3. c <= n
          BY <4>1, <4>2
        <4>. QED
          BY <4>3 DEF c, n
      <3>3. \A k \in Kinds \ {worker[w].k} : position'[k] = position[k] /\ position[k] <= Len(log[k])
        BY <1>4, AdvanceEffect, LogType
      <3>. QED
        BY <3>2, <3>3
    <2>4. /\ worker' \in [Workers -> WorkerRecord] /\ position' \in [Kinds -> Nat]
          /\ UNCHANGED <<producer, log, assigned, committed, health, effects, events,
                         tab, seen, budget>>
      BY <1>4, AdvanceEffect
    <2>. QED
      BY <2>1, <2>3, <2>4
         DEF Typed, producer, health, effects, events, seen, budget
  <1>. QED
    BY <1>2, <1>3, <1>4

LEMMA TypedRestart ==
    ASSUME Typed,
           \/ \E w \in Workers : Crash(w) \/ Boot(w)
           \/ \E k \in Kinds, p \in Replicas : Rebalance(k, p)
    PROVE  Typed'
  <1>1. ASSUME NEW w \in Workers, Crash(w) PROVE Typed'
    <2>1. \A v \in Workers : worker'[v].pc # "idle" =>
            /\ GroupOf(worker'[v].k) = v[1]
            /\ worker'[v].at \in 1..Len(log[worker'[v].k])
            /\ worker'[v].attempt \in 1..Retries
      BY <1>1, CrashEffect, WorkerType
    <2>2. /\ position' \in [Kinds -> Nat]
          /\ \A k \in Kinds : position'[k] <= Len(log[k])
      BY <1>1, CrashEffect, RewindEffect
    <2>3. again' \subseteq Messages
      <3>1. Repeated(TopicsOf(w)) \subseteq Messages
        BY <1>1, CrashEffect, RewoundEffect
      <3>2. again' = again \cup Repeated(TopicsOf(w))
        BY <1>1, CrashEffect
      <3>. QED
        BY <3>1, <3>2 DEF Typed
    <2>4. /\ worker' \in [Workers -> WorkerRecord]
          /\ tab' \in [Tabs -> Replicas \cup {Closed}]
          /\ unheard' \in [Messages -> SUBSET Tabs] /\ deaf' \in [Messages -> SUBSET Tabs]
          /\ faults' \in 0..MaxFaults /\ restarts' \in 0..MaxRestarts
          /\ subscribed' \subseteq Replicas /\ inbound' \subseteq Replicas \X Messages
          /\ up' = up \ {w} /\ lost' \subseteq Messages
          /\ publishing' = {e \in publishing : e[1] \notin Dies(w)}
          /\ UNCHANGED <<producer, log, assigned, committed, down, effects, pushed>>
      BY <1>1, CrashEffect
    <2>. QED
      BY <2>1, <2>2, <2>3, <2>4 DEF Typed, producer, effects
  <1>2. ASSUME NEW w \in Workers, Boot(w) PROVE Typed'
    <2>1. /\ position' \in [Kinds -> Nat]
          /\ \A k \in Kinds : position'[k] <= Len(log[k])
      BY <1>2, BootEffect, RewindEffect
    <2>2. /\ subscribed' \subseteq Replicas /\ up' = up \cup {w} /\ lost' \subseteq Messages
          /\ UNCHANGED <<producer, log, assigned, committed, worker, down, effects,
                         events, tab, again, budget>>
      BY <1>2, BootEffect
    <2>. QED
      BY <2>1, <2>2 DEF Typed, producer, effects, events, budget
  <1>3. ASSUME NEW k \in Kinds, NEW p \in Replicas, Rebalance(k, p) PROVE Typed'
    <2>1. /\ position' \in [Kinds -> Nat]
          /\ \A j \in Kinds : position'[j] <= Len(log[j])
      BY <1>3, RebalanceEffect, RewindEffect
    <2>2. /\ assigned' \in [Kinds -> Replicas]
          /\ faults' \in 0..MaxFaults /\ restarts' \in 0..MaxRestarts
          /\ again' \subseteq Messages /\ lost' \subseteq Messages
          /\ UNCHANGED <<producer, log, committed, worker, health, effects, events, tab>>
      BY <1>3, RebalanceEffect
    <2>. QED
      BY <2>1, <2>2 DEF Typed, producer, health, effects, events
  <1>. QED
    BY <1>1, <1>2, <1>3

LEMMA TypedStep ==
    ASSUME Typed, [Next]_vars
    PROVE  Typed'
  <1>1. ASSUME NEW k \in Kinds, CommitOffset(k) PROVE Typed'
    <2>1. position[k] \in 0..Len(log[k]) /\ position[k] \in Int
      BY LogType
    <2>2. /\ committed' = [committed EXCEPT ![k] = position[k]]
          /\ UNCHANGED <<producer, log, assigned, position, worker, health, effects,
                         events, tab, seen, budget>>
      BY <1>1 DEF CommitOffset
    <2>3. /\ committed' \in [Kinds -> Int]
          /\ \A j \in Kinds : committed'[j] = None \/ committed'[j] \in 0..Len(log[j])
      BY <2>1, <2>2 DEF Typed
    <2>. QED
      BY <2>2, <2>3 DEF Typed, producer, health, effects, events, seen, budget
  <1>2. ASSUME NEW p \in Replicas, NEW m \in Messages, Publishes(p, m) PROVE Typed'
    <2>1. /\ publishing' \subseteq publishing /\ pushed' \subseteq pushed \cup {m}
          /\ lost' \subseteq lost \cup {m} /\ inbound' \subseteq Replicas \X Messages
          /\ faults' \in 0..MaxFaults /\ restarts' = restarts
          /\ UNCHANGED <<producer, broker, worker, health, effects, unheard, deaf, tab,
                         again>>
      BY <1>2, PublishesEffect
    <2>. QED
      BY <2>1 DEF Typed, producer, broker, health, effects
  <1>3. CASE Aside
    <2>1. AsideTyped
      BY <1>3, AsideEffect
    <2>. QED
      BY <2>1 DEF AsideTyped, Typed, producer, broker, effects, seen
  <1>. QED
    BY <1>1, <1>2, <1>3, NextCases, TypedProducer, TypedWorker, TypedRestart

LEMMA TypedAlways == Spec => []Typed
  <1>1. Init => Typed
    BY TypedInit
  <1>2. Typed /\ [Next]_vars => Typed'
    BY TypedStep
  <1>. QED
    BY <1>1, <1>2, PTL DEF Spec

\* Whatever crashes, rebalances and outages happen, every variable keeps its
\* type, no topic is resolved past its end, no offset is committed beyond it,
\* and every worker is busy with a message its topic holds (kafka-consumer's
\* eachMessage and withDlt, notification-service's streams).
THEOREM TypeCorrect == Spec => []TypeOK
  <1>1. Typed => TypeOK
    BY TypeOKOfTyped
  <1>. QED
    BY <1>1, TypedAlways, PTL

-----------------------------------------------------------------------------
(* What a topic holds was sent, and what had an effect is in a topic *)

InLog(m) == \E i \in 1..Len(log[kind[m]]) : log[kind[m]][i] = m

\* A Redis client was given the event.
Given(m) == m \in pushed \/ \E p \in Replicas : <<p, m>> \in publishing

\* The messages of a topic are of its kind and announce a change that began,
\* and one that committed everywhere but in the audit topic.
Announced ==
    \A k \in Kinds : \A i \in 1..Len(log[k]) :
        /\ kind[log[k][i]] = k
        /\ change[log[k][i]] # "none"
        /\ k # "audit" => change[log[k][i]] = "committed"

\* How far the producer is tells where the message can be.
Sent ==
    \A m \in Messages :
        /\ wire[m] = "unsent" => ~InLog(m)
        /\ wire[m] = "sending" =>
             change[m] # "none" /\ (kind[m] # "audit" => change[m] = "committed")
        /\ wire[m] = "ended" => m \in lost \/ change[m] = "undone" \/ InLog(m)
        /\ stored[m] > 0 => InLog(m)
        /\ Given(m) => InLog(m) /\ kind[m] \in {"notify", "signal"}

Logged == Announced /\ Sent

\* Steps of no producer and of no handler.
Elsewhere ==
    /\ UNCHANGED <<kind, change, wire, log, stored, dead>>
    /\ lost \subseteq lost' /\ again \subseteq again' /\ pushed \subseteq pushed'
    /\ \A m \in Messages : Given(m)' => Given(m)

LEMMA ElsewhereCases ==
    ASSUME Typed, [Next]_vars
    PROVE  \/ \E m \in Messages, k \in Kinds : Begin(m, k)
           \/ \E m \in Messages : Emits(m)
           \/ \E m \in Messages : Commit(m)
           \/ \E m \in Messages : Undo(m)
           \/ \E m \in Messages : Accept(m)
           \/ \E m \in Messages : SendLost(m)
           \/ \E w \in Workers : Handles(w)
           \/ Elsewhere
  <1>1. ASSUME UNCHANGED <<kind, change, wire, log, effects, pushed>>,
               publishing' \subseteq publishing,
               lost \subseteq lost', again \subseteq again'
        PROVE  Elsewhere
    BY <1>1 DEF Elsewhere, Given, effects
  <1>2. ASSUME NEW w \in Workers, Poll(w) PROVE Elsewhere
    BY <1>1, <1>2 DEF Poll, producer, broker, events, seen
  <1>3. ASSUME NEW w \in Workers, Advance(w) PROVE Elsewhere
    BY <1>1, <1>3 DEF Advance, producer, events, seen
  <1>4. ASSUME NEW w \in Workers, Crash(w) PROVE Elsewhere
    <2>1. /\ UNCHANGED <<producer, log, effects, pushed>> /\ lost \subseteq lost'
          /\ again' = again \cup Repeated(TopicsOf(w))
          /\ publishing' = {e \in publishing : e[1] \notin Dies(w)}
      BY <1>4, CrashEffect
    <2>. QED
      BY <1>1, <2>1 DEF producer
  <1>5. ASSUME NEW w \in Workers, Boot(w) PROVE Elsewhere
    BY <1>1, <1>5, BootEffect DEF producer, events
  <1>6. ASSUME NEW k \in Kinds, CommitOffset(k) PROVE Elsewhere
    BY <1>1, <1>6 DEF CommitOffset, producer, events, seen
  <1>7. ASSUME NEW k \in Kinds, NEW p \in Replicas, Rebalance(k, p) PROVE Elsewhere
    BY <1>1, <1>7, RebalanceEffect DEF producer, events
  <1>8. ASSUME NEW p \in Replicas, NEW m \in Messages, Publishes(p, m) PROVE Elsewhere
    <2>1. /\ <<p, m>> \in publishing /\ publishing' \subseteq publishing
          /\ pushed \subseteq pushed' /\ pushed' \subseteq pushed \cup {m}
          /\ lost \subseteq lost'
          /\ UNCHANGED <<producer, broker, effects, again>>
      BY <1>8, PublishesEffect
    <2>2. \A n \in Messages : Given(n)' => Given(n)
      BY <2>1 DEF Given
    <2>. QED
      BY <2>1, <2>2 DEF Elsewhere, producer, broker, effects
  <1>9. CASE Aside
    BY <1>1, <1>9, AsideEffect DEF AsideTyped, producer, broker, seen
  <1>. QED
    BY <1>2, <1>3, <1>4, <1>5, <1>6, <1>7, <1>8, <1>9, NextCases

\* A worker's message lies in its topic.
LEMMA CurrentLogged ==
    ASSUME Typed, Logged, NEW w \in Workers, worker[w].pc # "idle"
    PROVE  /\ Current(w) \in Messages /\ kind[Current(w)] = worker[w].k
           /\ InLog(Current(w))
  <1>1. /\ worker[w].k \in Kinds /\ worker[w].at \in 1..Len(log[worker[w].k])
        /\ Current(w) \in Messages
    BY WorkerType
  <1>2. kind[Current(w)] = worker[w].k
    BY <1>1 DEF Logged, Announced, Current
  <1>. QED
    BY <1>1, <1>2 DEF InLog, Current

LEMMA LoggedProducer ==
    ASSUME Typed, Logged, NEW m \in Messages,
           \/ \E k \in Kinds : Begin(m, k)
           \/ Emits(m) \/ Commit(m) \/ Undo(m) \/ Accept(m) \/ SendLost(m)
    PROVE  Logged'
  <1>1. \A k \in Kinds : \A i \in 1..Len(log[k]) : log[k][i] \in Messages
    BY LogType
  <1>2. /\ kind \in [Messages -> Kinds] /\ wire[m] \in {"unsent", "sending", "ended"}
        /\ \A n \in Messages : kind[n] \in Kinds
    BY DEF Typed
  <1>3. ASSUME NEW k \in Kinds, Begin(m, k) PROVE Logged'
    <2>1. /\ change[m] = "none" /\ change'[m] = "open" /\ kind'[m] = k
          /\ \A n \in Messages \ {m} : change'[n] = change[n] /\ kind'[n] = kind[n]
          /\ UNCHANGED <<wire, log, stored, pushed, publishing, lost>>
      BY <1>3 DEF Begin, Typed, broker, effects, events, seen
    <2>2. \A j \in Kinds : \A i \in 1..Len(log[j]) : log[j][i] \in Messages \ {m}
      BY <1>1, <2>1 DEF Logged, Announced
    <2>3. ~InLog(m) /\ ~InLog(m)'
      BY <1>2, <2>1, <2>2 DEF InLog
    <2>4. /\ \A n \in Messages \ {m} : InLog(n)' = InLog(n)
          /\ \A n \in Messages : Given(n)' = Given(n)
      BY <2>1 DEF InLog, Given
    <2>5. Announced'
      BY <2>1, <2>2 DEF Logged, Announced
    <2>6. Sent'
      BY <2>1, <2>3, <2>4 DEF Logged, Sent
    <2>. QED
      BY <2>5, <2>6 DEF Logged
  <1>4. CASE Emits(m)
    <2>1. /\ wire[m] = "unsent" /\ wire'[m] = "sending"
          /\ \A n \in Messages \ {m} : wire'[n] = wire[n]
          /\ change[m] # "none" /\ (kind[m] # "audit" => change[m] = "committed")
          /\ UNCHANGED <<kind, change, log, stored, pushed, publishing, lost>>
      BY <1>4, EmitsEffect DEF broker, effects, events, seen
    <2>2. \A n \in Messages : InLog(n)' = InLog(n) /\ Given(n)' = Given(n)
      BY <2>1 DEF InLog, Given
    <2>. QED
      BY <2>1, <2>2 DEF Logged, Announced, Sent
  <1>5. CASE Commit(m) \/ Undo(m)
    <2>1. /\ change[m] = "open" /\ change'[m] \in {"committed", "undone"}
          /\ \A n \in Messages \ {m} : change'[n] = change[n] /\ wire'[n] = wire[n]
          /\ UNCHANGED <<kind, log, stored, pushed, publishing, lost>>
          /\ \/ change'[m] = "committed" /\ wire' = wire
             \/ /\ change'[m] = "undone"
                /\ wire'[m] = IF wire[m] = "unsent" THEN "ended" ELSE wire[m]
      BY <1>5 DEF Commit, Undo, Typed, broker, effects, events, seen
    <2>2. \A n \in Messages : InLog(n)' = InLog(n) /\ Given(n)' = Given(n)
      BY <2>1 DEF InLog, Given
    <2>3. Announced'
      BY <1>1, <2>1 DEF Logged, Announced
    <2>4. \A n \in Messages \ {m} :
            /\ wire'[n] = wire[n] /\ change'[n] = change[n] /\ kind'[n] = kind[n]
            /\ lost' = lost /\ stored' = stored
      BY <2>1
    <2>5. /\ wire'[m] = "unsent" => ~InLog(m)
          /\ wire'[m] = "sending" =>
               change'[m] # "none" /\ (kind[m] # "audit" => change'[m] = "committed")
          /\ wire'[m] = "ended" => m \in lost \/ change'[m] = "undone" \/ InLog(m)
      BY <2>1 DEF Logged, Sent
    <2>6. Sent'
      BY <2>1, <2>2, <2>4, <2>5 DEF Logged, Sent
    <2>. QED
      BY <2>3, <2>6 DEF Logged
  <1>6. CASE Accept(m)
    <2>1. /\ wire[m] = "sending" /\ wire'[m] \in {"sending", "ended"}
          /\ \A n \in Messages \ {m} : wire'[n] = wire[n]
          /\ UNCHANGED <<kind, change, stored, pushed, publishing, lost>>
          /\ \A k \in Kinds \ {kind[m]} : log'[k] = log[k]
          /\ Len(log'[kind[m]]) = Len(log[kind[m]]) + 1
          /\ log'[kind[m]][Len(log[kind[m]]) + 1] = m
          /\ \A k \in Kinds : /\ Len(log[k]) <= Len(log'[k])
                              /\ \A i \in 1..Len(log[k]) : log'[k][i] = log[k][i]
      BY <1>6, AcceptEffect DEF effects, events
    <2>2. \A k \in Kinds : Len(log[k]) \in Nat /\ Len(log'[k]) \in Nat
      BY <1>2, <2>1, LogType
    <2>3. \A k \in Kinds : \A i \in 1..Len(log'[k]) :
            \/ i \in 1..Len(log[k]) /\ log'[k][i] = log[k][i]
            \/ k = kind[m] /\ log'[k][i] = m
      BY <2>1, <2>2
    <2>4. change[m] # "none" /\ (kind[m] # "audit" => change[m] = "committed")
      BY <2>1 DEF Logged, Sent
    <2>5. Announced'
      BY <2>1, <2>3, <2>4 DEF Logged, Announced
    <2>6. InLog(m)'
      <3>1. Len(log[kind[m]]) + 1 \in 1..Len(log'[kind[m]])
        BY <1>2, <2>1, <2>2
      <3>. QED
        BY <2>1, <3>1 DEF InLog
    <2>7. \A n \in Messages : InLog(n) => InLog(n)'
      <3>. SUFFICES ASSUME NEW n \in Messages, InLog(n) PROVE InLog(n)'
        OBVIOUS
      <3>1. PICK i \in 1..Len(log[kind[n]]) : log[kind[n]][i] = n
        BY DEF InLog
      <3>2. i \in 1..Len(log'[kind[n]]) /\ log'[kind[n]][i] = n
        BY <1>2, <2>1, <2>2, <3>1
      <3>. QED
        BY <2>1, <3>2 DEF InLog
    <2>8. \A n \in Messages \ {m} : InLog(n)' => InLog(n)
      <3>. SUFFICES ASSUME NEW n \in Messages \ {m}, InLog(n)' PROVE InLog(n)
        OBVIOUS
      <3>1. PICK i \in 1..Len(log'[kind[n]]) : log'[kind[n]][i] = n
        BY <2>1 DEF InLog
      <3>. QED
        BY <1>2, <2>3, <3>1 DEF InLog
    <2>9. \A n \in Messages : Given(n)' = Given(n)
      BY <2>1 DEF Given
    <2>10. Sent'
      BY <2>1, <2>4, <2>6, <2>7, <2>8, <2>9 DEF Logged, Sent
    <2>. QED
      BY <2>5, <2>10 DEF Logged
  <1>7. CASE SendLost(m)
    <2>1. /\ wire'[m] = "ended" /\ m \in lost' /\ lost \subseteq lost'
          /\ \A n \in Messages \ {m} : wire'[n] = wire[n]
          /\ UNCHANGED <<kind, change, log, stored, pushed, publishing>>
      BY <1>7 DEF SendLost, Typed, broker, effects, events
    <2>2. \A n \in Messages : InLog(n)' = InLog(n) /\ Given(n)' = Given(n)
      BY <2>1 DEF InLog, Given
    <2>. QED
      BY <2>1, <2>2 DEF Logged, Announced, Sent
  <1>. QED
    BY <1>3, <1>4, <1>5, <1>6, <1>7

LEMMA LoggedStep ==
    ASSUME Typed, Logged, [Next]_vars
    PROVE  Logged'
  <1>1. ASSUME NEW w \in Workers, Handles(w) PROVE Logged'
    <2>. DEFINE m == Current(w)
    <2>1. Handling(w)
      BY <1>1, HandlingEffect
    <2>2. m \in Messages /\ kind[m] = worker[w].k /\ InLog(m)
      BY <2>1, CurrentLogged DEF Handling
    <2>3. /\ UNCHANGED <<kind, change, wire, log>>
          /\ \A n \in Messages \ {m} : stored'[n] = stored[n]
          /\ lost \subseteq lost'
          /\ pushed' = pushed /\ publishing' \subseteq publishing \cup {<<w[2], m>>}
          /\ publishing' # publishing => worker[w].k \in {"notify", "signal"}
          /\ publishing \subseteq publishing'
      BY <2>1 DEF Handling, OnlyOf, producer, broker
    <2>4. \A n \in Messages : InLog(n)' = InLog(n)
      BY <2>3 DEF InLog
    <2>. HIDE DEF m
    <2>5. \A n \in Messages : Given(n)' =>
            Given(n) \/ (n = m /\ worker[w].k \in {"notify", "signal"})
      BY <2>3 DEF Given
    <2>6. Sent'
      BY <2>2, <2>3, <2>4, <2>5 DEF Logged, Sent
    <2>. QED
      BY <2>3, <2>6 DEF Logged, Announced
  <1>2. CASE Elsewhere
    <2>1. \A n \in Messages : InLog(n)' = InLog(n)
      BY <1>2 DEF Elsewhere, InLog
    <2>. QED
      BY <1>2, <2>1 DEF Elsewhere, Logged, Announced, Sent
  <1>. QED
    BY <1>1, <1>2, ElsewhereCases, LoggedProducer

LEMMA LoggedAlways == Spec => []Logged
  <1>1. Init => Logged
    <2>. SUFFICES ASSUME Init PROVE Logged
      OBVIOUS
    <2>1. \A k \in Kinds : Len(log[k]) = 0
      BY EmptySeq DEF Init
    <2>2. Announced
      BY <2>1 DEF Announced
    <2>3. \A m \in Messages :
            wire[m] = "unsent" /\ ~(stored[m] > 0) /\ ~Given(m) /\ kind[m] \in Kinds
      BY DEF Init, Kinds, Given
    <2>4. Sent
      BY <2>1, <2>3 DEF Sent, InLog
    <2>. QED
      BY <2>2, <2>4 DEF Logged
  <1>2. Typed /\ Logged /\ [Next]_vars => Logged'
    BY LoggedStep
  <1>. QED
    BY <1>1, <1>2, TypedAlways, PTL DEF Spec

-----------------------------------------------------------------------------
(* What a handler has done when it is done *)

\* The message took the last effect it has, or was given up.
Reached(m) ==
    \/ m \in dead \cup lost \cup pushed
    \/ kind[m] \in {"audit", "email"} /\ stored[m] > 0

\* Nothing takes back what a message left.
LEMMA ReachedStays ==
    ASSUME Typed, [Next]_vars, NEW m \in Messages, change[m] # "none"
    PROVE  /\ Reached(m) => Reached(m)'
           /\ stored[m] > 0 => stored'[m] > 0
           /\ kind'[m] = kind[m]
  <1>0. stored[m] \in Nat
    BY DEF Typed
  <1>1. ASSUME kind'[m] = kind[m], stored'[m] = stored[m] \/ stored'[m] = stored[m] + 1,
               dead \subseteq dead', lost \subseteq lost', pushed \subseteq pushed'
        PROVE  /\ Reached(m) => Reached(m)'
               /\ stored[m] > 0 => stored'[m] > 0
    BY <1>0, <1>1 DEF Reached
  <1>2. ASSUME NEW n \in Messages, NEW k \in Kinds, Begin(n, k)
        PROVE  UNCHANGED <<stored, pushed, dead, lost>> /\ kind'[m] = kind[m]
    BY <1>2 DEF Begin, effects, events, seen, Typed
  <1>3. ASSUME NEW n \in Messages, Emits(n) \/ Commit(n) \/ Undo(n) \/ Accept(n) \/ SendLost(n)
        PROVE  UNCHANGED <<kind, stored, pushed, dead>> /\ lost \subseteq lost'
    BY <1>3 DEF Emits, Record, Announce, Commit, Undo, Accept, SendLost, effects, events, seen
  <1>4. ASSUME NEW w \in Workers, Handles(w)
        PROVE  /\ dead \subseteq dead' /\ lost \subseteq lost' /\ pushed' = pushed
               /\ kind' = kind
               /\ stored'[m] = stored[m] \/ stored'[m] = stored[m] + 1
    BY <1>4, HandlingEffect DEF Handling, OnlyOf, producer
  <1>5. CASE Elsewhere
    BY <1>1, <1>5 DEF Elsewhere
  <1>. QED
    BY <1>1, <1>2, <1>3, <1>4, <1>5, ElsewhereCases

\* A step leaves every worker as it was, makes it idle, gives it a message to
\* handle, or is a step of its handler.
LEMMA WorkerSteps ==
    ASSUME Typed, [Next]_vars, NEW w \in Workers
    PROVE  \/ worker'[w] = worker[w]
           \/ worker'[w].pc \in {"idle", "handle"}
           \/ Handles(w)
  <1>1. ASSUME NEW v \in Workers, Poll(v)
        PROVE  worker'[w] = worker[w] \/ worker'[w].pc \in {"idle", "handle"}
    BY <1>1, PollEffect
  <1>2. ASSUME NEW v \in Workers, Handles(v), v # w
        PROVE  worker'[w] = worker[w]
    BY <1>2, HandlingEffect DEF Handling, MovesTo
  <1>3. ASSUME NEW v \in Workers, Advance(v)
        PROVE  worker'[w] = worker[w] \/ worker'[w].pc \in {"idle", "handle"}
    BY <1>3, AdvanceEffect
  <1>4. ASSUME NEW v \in Workers, Crash(v)
        PROVE  worker'[w] = worker[w] \/ worker'[w].pc \in {"idle", "handle"}
    BY <1>4, CrashEffect
  <1>5. ASSUME NEW m \in Messages, NEW k \in Kinds, Begin(m, k) PROVE worker' = worker
    BY <1>5 DEF Begin
  <1>6. ASSUME NEW m \in Messages, Emits(m) \/ Commit(m) \/ Undo(m) \/ Accept(m) \/ SendLost(m)
        PROVE  worker' = worker
    BY <1>6 DEF Emits, Record, Announce, Commit, Undo, Accept, SendLost
  <1>7. ASSUME NEW k \in Kinds, CommitOffset(k) \/ \E p \in Replicas : Rebalance(k, p)
        PROVE  worker' = worker
    BY <1>7 DEF CommitOffset, Rebalance
  <1>8. ASSUME NEW v \in Workers, Boot(v) PROVE worker' = worker
    BY <1>8 DEF Boot
  <1>9. ASSUME NEW p \in Replicas, NEW m \in Messages, Publishes(p, m) PROVE worker' = worker
    BY <1>9, PublishesEffect
  <1>10. CASE Aside
    BY <1>10, AsideEffect DEF AsideTyped
  <1>. QED
    BY <1>1, <1>2, <1>3, <1>4, <1>5, <1>6, <1>7, <1>8, <1>9, <1>10, NextCases

\* Topics only grow.
LEMMA TopicsGrow ==
    ASSUME Typed, [Next]_vars, NEW k \in Kinds
    PROVE  /\ Len(log[k]) <= Len(log'[k])
           /\ \A i \in 1..Len(log[k]) : log'[k][i] = log[k][i]
  <1>0. Len(log[k]) \in Nat
    BY LogType
  <1>1. ASSUME NEW m \in Messages, Accept(m)
        PROVE  Len(log[k]) <= Len(log'[k]) /\ \A i \in 1..Len(log[k]) : log'[k][i] = log[k][i]
    BY <1>1, AcceptEffect
  <1>2. ASSUME NEW m \in Messages, NEW j \in Kinds, Begin(m, j) PROVE log' = log
    BY <1>2 DEF Begin, broker
  <1>3. ASSUME NEW m \in Messages, Emits(m) \/ Commit(m) \/ Undo(m) \/ SendLost(m)
        PROVE  log' = log
    BY <1>3 DEF Emits, Record, Announce, Commit, Undo, SendLost, broker
  <1>4. ASSUME NEW w \in Workers, Handles(w) PROVE log' = log
    BY <1>4, HandlingEffect DEF Handling, broker
  <1>5. CASE Elsewhere
    BY <1>5 DEF Elsewhere
  <1>. QED
    BY <1>0, <1>1, <1>2, <1>3, <1>4, <1>5, ElsewhereCases

\* An event stays with the client of its replica until Redis takes it, it is
\* given up, or the process dies.
LEMMA PublishingStays ==
    ASSUME Typed, [Next]_vars, NEW p \in Replicas, NEW m \in Messages,
           <<p, m>> \in publishing
    PROVE  \/ <<p, m>> \in publishing' \/ m \in pushed' \cup lost'
           \/ /\ <<"notification-service", p>> \in Workers
              /\ Crash(<<"notification-service", p>>)
  <1>1. ASSUME NEW n \in Messages, NEW k \in Kinds, Begin(n, k)
        PROVE  publishing' = publishing
    BY <1>1 DEF Begin, events
  <1>2. ASSUME NEW n \in Messages, Emits(n) \/ Commit(n) \/ Undo(n) \/ Accept(n) \/ SendLost(n)
        PROVE  publishing' = publishing
    BY <1>2 DEF Emits, Record, Announce, Commit, Undo, Accept, SendLost, events
  <1>3. ASSUME NEW w \in Workers, Poll(w) \/ Advance(w) \/ Boot(w)
        PROVE  publishing' = publishing
    BY <1>3 DEF Poll, Advance, Boot, events
  <1>4. ASSUME NEW w \in Workers, Handles(w) PROVE publishing \subseteq publishing'
    BY <1>4, HandlingEffect DEF Handling
  <1>5. ASSUME NEW w \in Workers, Crash(w)
        PROVE  <<p, m>> \in publishing' \/ w = <<"notification-service", p>>
    BY <1>5, CrashEffect
  <1>6. ASSUME NEW k \in Kinds, CommitOffset(k) \/ \E r \in Replicas : Rebalance(k, r)
        PROVE  publishing' = publishing
    BY <1>6 DEF CommitOffset, Rebalance, events
  <1>7. ASSUME NEW r \in Replicas, NEW n \in Messages, Publishes(r, n)
        PROVE  <<p, m>> \in publishing' \/ m \in pushed' \cup lost'
    <2>1. /\ n \in pushed' \cup lost'
          /\ <<p, m>> \in publishing' \/ <<p, m>> = <<r, n>>
      BY <1>7, PublishesEffect
    <2>. QED
      BY <2>1
  <1>8. CASE Aside
    BY <1>8, AsideEffect DEF AsideTyped
  <1>. QED
    BY <1>1, <1>2, <1>3, <1>4, <1>5, <1>6, <1>7, <1>8, NextCases

\* A worker pushes and mails only what it stored, and is past its push, or done,
\* with a message that is at its end or waits in the Redis client of its process.
HandedOn(w) == Reached(Current(w)) \/ <<w[2], Current(w)>> \in publishing

Staged ==
    \A w \in Workers :
        /\ worker[w].pc \in {"push", "mail"} => stored[Current(w)] > 0
        /\ worker[w].pc \in {"mail", "done"} => HandedOn(w)

LEMMA StagedStays ==
    ASSUME Typed, Logged, Staged, [Next]_vars, NEW w \in Workers,
           worker'[w] = worker[w], worker[w].pc \in {"push", "mail", "done"}
    PROVE  /\ worker'[w].pc \in {"push", "mail"} => stored'[Current(w)'] > 0
           /\ worker'[w].pc \in {"mail", "done"} => HandedOn(w)'
  <1>1. /\ worker[w].k \in Kinds /\ worker[w].at \in 1..Len(log[worker[w].k])
        /\ GroupOf(worker[w].k) = w[1]
    BY WorkerType
  <1>2. Current(w)' = Current(w)
    BY <1>1, TopicsGrow DEF Current
  <1>3. PICK m \in Messages : m = Current(w) /\ kind[m] = worker[w].k /\ change[m] # "none"
    BY <1>1, CurrentLogged DEF Logged, Announced, Current
  <1>4. /\ worker[w].pc \in {"push", "mail"} => stored[m] > 0
        /\ worker[w].pc \in {"mail", "done"} => Reached(m) \/ <<w[2], m>> \in publishing
    BY <1>3 DEF Staged, HandedOn
  <1>5. /\ Reached(m) => Reached(m)'
        /\ stored[m] > 0 => stored'[m] > 0
    BY <1>3, ReachedStays
  <1>6. ASSUME <<w[2], m>> \in publishing
        PROVE  Reached(m)' \/ <<w[2], m>> \in publishing'
    <2>1. Given(m) /\ w[2] \in Replicas /\ w = <<w[1], w[2]>>
      BY <1>6 DEF Given, Workers
    <2>2. worker[w].k \in {"notify", "signal"}
      BY <1>3, <2>1 DEF Logged, Sent
    <2>3. w = <<"notification-service", w[2]>>
      BY <1>1, <2>1, <2>2 DEF GroupOf
    <2>4. ~Crash(<<"notification-service", w[2]>>)
      BY <2>3, CrashEffect
    <2>5. <<w[2], m>> \in publishing' \/ m \in pushed' \cup lost'
      BY <1>6, <2>1, <2>4, PublishingStays
    <2>. QED
      BY <2>5 DEF Reached
  <1>7. Reached(m)' \/ <<w[2], m>> \in publishing' => HandedOn(w)'
    BY <1>2, <1>3 DEF HandedOn, Reached
  <1>. QED
    BY <1>2, <1>3, <1>4, <1>5, <1>6, <1>7

LEMMA StagedHandles ==
    ASSUME Typed, Logged, Staged, [Next]_vars, NEW w \in Workers, Handles(w)
    PROVE  /\ worker'[w].pc \in {"push", "mail"} => stored'[Current(w)'] > 0
           /\ worker'[w].pc \in {"mail", "done"} => HandedOn(w)'
  <1>1. Handling(w) /\ Current(w) \in Messages /\ worker[w].pc # "idle"
    BY HandlingEffect DEF Handling
  <1>2. PICK m \in Messages : m = Current(w) /\ kind[m] = worker[w].k /\ change[m] # "none"
    BY <1>1, WorkerType, CurrentLogged DEF Logged, Announced, Current
  <1>3. PICK pc \in Busy : MovesTo(w, pc)
    BY <1>1 DEF Handling
  <1>4. Current(w)' = m
    BY <1>1, <1>2, <1>3 DEF Handling, MovesTo, Current, broker
  <1>5. /\ worker[w].pc \in {"push", "mail"} => stored[m] > 0
        /\ worker[w].pc = "mail" => Reached(m) \/ <<w[2], m>> \in publishing
    BY <1>2 DEF Staged, HandedOn
  <1>6. /\ Reached(m) => Reached(m)'
        /\ stored[m] > 0 => stored'[m] > 0
        /\ kind'[m] = kind[m]
    BY <1>2, ReachedStays
  <1>7. /\ publishing \subseteq publishing'
        /\ worker'[w].pc = "push" => stored'[m] > 0
        /\ worker'[w].pc = "mail" => worker[w].pc = "push" /\ <<w[2], m>> \in publishing'
        /\ worker'[w].pc = "done" =>
             \/ m \in dead' \cup lost'
             \/ kind[m] \in {"audit", "email"} /\ stored'[m] > 0
             \/ worker[w].pc = "mail"
             \/ <<w[2], m>> \in publishing'
    BY <1>1, <1>2 DEF Handling
  <1>8. worker'[w].pc \in {"push", "mail"} => stored'[m] > 0
    BY <1>5, <1>6, <1>7
  <1>9. worker'[w].pc \in {"mail", "done"} => Reached(m)' \/ <<w[2], m>> \in publishing'
    <2>1. m \in dead' \cup lost' => Reached(m)'
      BY DEF Reached
    <2>2. kind[m] \in {"audit", "email"} /\ stored'[m] > 0 => Reached(m)'
      BY <1>6 DEF Reached
    <2>. QED
      BY <1>5, <1>6, <1>7, <2>1, <2>2
  <1>10. Reached(m)' \/ <<w[2], m>> \in publishing' => HandedOn(w)'
    BY <1>4 DEF HandedOn, Reached
  <1>. QED
    BY <1>4, <1>8, <1>9, <1>10

LEMMA StagedStep ==
    ASSUME Typed, Logged, Staged, [Next]_vars
    PROVE  Staged'
  <1>. SUFFICES ASSUME NEW w \in Workers, worker'[w].pc \in {"push", "mail", "done"}
                PROVE  /\ worker'[w].pc \in {"push", "mail"} => stored'[Current(w)'] > 0
                       /\ worker'[w].pc \in {"mail", "done"} => HandedOn(w)'
    BY DEF Staged
  <1>1. worker'[w] = worker[w] \/ Handles(w)
    BY WorkerSteps
  <1>. QED
    BY <1>1, StagedStays, StagedHandles

\* A notification is given to Redis after its rows are saved.
StoredFirst == \A m \in Messages : kind[m] = "notify" /\ Given(m) => stored[m] > 0

LEMMA StoredFirstStep ==
    ASSUME Typed, Logged, Staged, StoredFirst, [Next]_vars
    PROVE  StoredFirst'
  <1>0. \A m \in Messages : kind[m] \in Kinds /\ (change[m] # "none" => kind'[m] = kind[m])
    BY ReachedStays DEF Typed
  <1>1. \A m \in Messages : Given(m) => change[m] # "none"
    BY <1>0 DEF Logged, Sent, Announced, InLog
  <1>2. \A m \in Messages : kind'[m] = "notify" /\ Given(m) => stored'[m] > 0
    BY <1>0, <1>1, ReachedStays DEF StoredFirst
  <1>3. ASSUME NEW w \in Workers, Handles(w)
        PROVE  \A m \in Messages : kind'[m] = "notify" /\ Given(m)' => stored'[m] > 0
    <2>. DEFINE c == Current(w)
    <2>1. /\ c \in Messages /\ worker[w].pc # "idle"
          /\ publishing' \subseteq publishing \cup {<<w[2], c>>} /\ pushed' = pushed
          /\ publishing' # publishing =>
               \/ worker[w].k = "notify" /\ worker[w].pc = "push"
               \/ worker[w].k = "signal"
          /\ kind' = kind
      BY <1>3, HandlingEffect DEF Handling, producer
    <2>2. kind[c] = worker[w].k /\ change[c] # "none"
      BY <2>1, CurrentLogged, WorkerType DEF Logged, Announced, Current
    <2>3. worker[w].pc = "push" => stored[c] > 0
      BY DEF Staged
    <2>4. stored[c] > 0 => stored'[c] > 0
      BY <2>1, <2>2, ReachedStays
    <2>. HIDE DEF c
    <2>5. \A m \in Messages : Given(m)' => Given(m) \/ (m = c /\ publishing' # publishing)
      BY <2>1 DEF Given
    <2>. QED
      BY <1>2, <2>1, <2>2, <2>3, <2>4, <2>5
  <1>4. ASSUME NEW n \in Messages, NEW k \in Kinds, Begin(n, k)
        PROVE  UNCHANGED <<pushed, publishing>>
    BY <1>4 DEF Begin, events
  <1>5. ASSUME NEW n \in Messages, Emits(n) \/ Commit(n) \/ Undo(n) \/ Accept(n) \/ SendLost(n)
        PROVE  UNCHANGED <<pushed, publishing>>
    BY <1>5 DEF Emits, Record, Announce, Commit, Undo, Accept, SendLost, events
  <1>6. UNCHANGED <<pushed, publishing>> => \A m \in Messages : Given(m)' => Given(m)
    BY DEF Given
  <1>7. CASE Elsewhere
    BY <1>2, <1>7 DEF Elsewhere, StoredFirst
  <1>. QED
    BY <1>2, <1>3, <1>4, <1>5, <1>6, <1>7, ElsewhereCases DEF StoredFirst

LEMMA StagedAlways == Spec => [](Staged /\ StoredFirst)
  <1>1. Init => Staged /\ StoredFirst
    <2>. SUFFICES ASSUME Init PROVE Staged /\ StoredFirst
      OBVIOUS
    <2>1. \A w \in Workers : worker[w].pc = "idle"
      BY IdleType DEF Init
    <2>2. \A m \in Messages : ~Given(m)
      BY DEF Init, Given
    <2>. QED
      BY <2>1, <2>2 DEF Staged, StoredFirst
  <1>2. Typed /\ Logged /\ Staged /\ StoredFirst /\ [Next]_vars => (Staged /\ StoredFirst)'
    BY StagedStep, StoredFirstStep
  <1>. QED
    BY <1>1, <1>2, TypedAlways, LoggedAlways, PTL DEF Spec

-----------------------------------------------------------------------------
(* Everything that is not on its way any more is at its end *)

\* The parts of being on the way: in the topic, or in a Redis client.
Unresolved(m) ==
    \E i \in 1..Len(log[kind[m]]) : log[kind[m]][i] = m /\ i > position[kind[m]]

Waits(m) == \E p \in Replicas : <<p, m>> \in publishing

LEMMA WayParts ==
    ASSUME NEW m
    PROVE  /\ OnItsWay(m) <=> wire[m] # "ended" \/ Unresolved(m) \/ Waits(m)
           /\ OnItsWay(m)' <=> wire'[m] # "ended" \/ Unresolved(m)' \/ Waits(m)'
  BY DEF OnItsWay, Unresolved, Waits

\* No offset is committed past the position a topic is read from: a restart
\* skips nothing that was not resolved, unless it knows no offset at all.
Behind == \A k \in Kinds : committed[k] # None => committed[k] <= position[k]

Resolved ==
    /\ \A m \in Messages : InLog(m) /\ ~OnItsWay(m) => Reached(m)
    /\ Behind

\* What a step must not do to message m for Resolved to hold after it.
LeavesNobody(m) ==
    /\ OnItsWay(m) => OnItsWay(m)' \/ Reached(m)' \/ ~InLog(m)'
    /\ InLog(m)' => InLog(m) \/ OnItsWay(m)'

LEMMA ResolvedOfLeavesNobody ==
    ASSUME Typed, Logged, Resolved, [Next]_vars, NEW m \in Messages, LeavesNobody(m),
           InLog(m)', ~OnItsWay(m)'
    PROVE  Reached(m)'
  <1>1. InLog(m)
    BY DEF LeavesNobody
  <1>2. change[m] # "none"
    <2>1. kind[m] \in Kinds
      BY DEF Typed
    <2>. QED
      BY <1>1, <2>1 DEF InLog, Logged, Announced
  <1>3. CASE OnItsWay(m)
    BY <1>3 DEF LeavesNobody
  <1>4. CASE ~OnItsWay(m)
    BY <1>1, <1>2, <1>4, ReachedStays DEF Resolved
  <1>. QED
    BY <1>3, <1>4

\* A step that leaves the wire, the topics and the positions alone, and takes no
\* event from a Redis client.
LEMMA WayOfOthers ==
    ASSUME NEW m \in Messages, wire'[m] = wire[m] \/ wire'[m] = "sending",
           UNCHANGED <<log, position>>, kind'[m] = kind[m], Waits(m) => Waits(m)'
    PROVE  LeavesNobody(m)
  <1>1. InLog(m)' = InLog(m) /\ Unresolved(m)' = Unresolved(m)
    BY DEF InLog, Unresolved
  <1>. QED
    BY <1>1, WayParts DEF LeavesNobody

LEMMA WayProducer ==
    ASSUME Typed, Logged, [Next]_vars, NEW m \in Messages, NEW n \in Messages,
           \/ \E k \in Kinds : Begin(n, k)
           \/ Emits(n) \/ Commit(n) \/ Undo(n) \/ SendLost(n)
    PROVE  LeavesNobody(m)
  <1>1. UNCHANGED <<log, position, publishing>>
    BY DEF Begin, Emits, Record, Announce, Commit, Undo, SendLost, broker, events
  <1>2. Waits(m)' = Waits(m)
    BY <1>1 DEF Waits
  <1>3. ASSUME NEW k \in Kinds, Begin(n, k) PROVE LeavesNobody(m)
    <2>1. /\ change[n] = "none" /\ change'[n] = "open" /\ wire' = wire
          /\ \A o \in Messages \ {n} : kind'[o] = kind[o]
      BY <1>3 DEF Begin, Typed
    <2>2. CASE m = n
      <3>1. \A j \in Kinds : \A i \in 1..Len(log[j]) : log[j][i] # m
        BY <2>1, <2>2 DEF Logged, Announced
      <3>2. kind'[m] = k
        BY <1>3, <2>2 DEF Begin, Typed
      <3>3. ~InLog(m)'
        BY <1>1, <3>1, <3>2 DEF InLog
      <3>. QED
        BY <3>3 DEF LeavesNobody
    <2>3. CASE m # n
      BY <1>1, <1>2, <2>1, <2>3, WayOfOthers
    <2>. QED
      BY <2>2, <2>3
  <1>4. CASE Emits(n) \/ Commit(n)
    <2>1. kind' = kind /\ (wire'[m] = wire[m] \/ wire'[m] = "sending")
      BY <1>4, EmitsEffect DEF Commit
    <2>. QED
      BY <1>1, <1>2, <2>1, WayOfOthers
  <1>5. CASE Undo(n)
    <2>1. /\ kind' = kind /\ \A o \in Messages \ {n} : wire'[o] = wire[o]
          /\ wire'[n] = (IF wire[n] = "unsent" THEN "ended" ELSE wire[n])
      BY <1>5 DEF Undo, Typed
    <2>2. InLog(m)' = InLog(m)
      BY <1>1, <2>1 DEF InLog
    <2>3. CASE m = n /\ wire[m] = "unsent"
      <3>1. ~InLog(m)'
        BY <2>2, <2>3 DEF Logged, Sent
      <3>. QED
        BY <3>1 DEF LeavesNobody
    <2>4. CASE ~(m = n /\ wire[m] = "unsent")
      <3>1. wire'[m] = wire[m] /\ kind'[m] = kind[m]
        BY <2>1, <2>4
      <3>. QED
        BY <1>1, <1>2, <3>1, WayOfOthers
    <2>. QED
      BY <2>3, <2>4
  <1>6. CASE SendLost(n)
    <2>1. /\ kind' = kind /\ \A o \in Messages \ {n} : wire'[o] = wire[o]
          /\ n \in lost'
      BY <1>6 DEF SendLost, Typed
    <2>2. CASE m = n
      <3>1. Reached(m)' /\ InLog(m)' = InLog(m)
        BY <1>1, <2>1, <2>2 DEF Reached, InLog
      <3>. QED
        BY <3>1 DEF LeavesNobody
    <2>3. CASE m # n
      BY <1>1, <1>2, <2>1, <2>3, WayOfOthers
    <2>. QED
      BY <2>2, <2>3
  <1>. QED
    BY <1>3, <1>4, <1>5, <1>6

LEMMA WayAccept ==
    ASSUME Typed, Logged, NEW m \in Messages, NEW n \in Messages, Accept(n)
    PROVE  LeavesNobody(m)
  <1>0. /\ kind[m] \in Kinds /\ kind[n] \in Kinds
        /\ \/ \A o \in Messages \ {n} : wire'[o] = wire[o]
           \/ wire' = wire
        /\ UNCHANGED <<kind, position, publishing>>
    BY AcceptEffect DEF Typed, events
  <1>1. /\ kind' = kind /\ kind[m] \in Kinds /\ kind[n] \in Kinds
        /\ wire'[m] = wire[m] \/ m = n
        /\ \A k \in Kinds \ {kind[n]} : log'[k] = log[k]
        /\ Len(log'[kind[n]]) = Len(log[kind[n]]) + 1
        /\ log'[kind[n]][Len(log[kind[n]]) + 1] = n
        /\ \A k \in Kinds : /\ Len(log[k]) <= Len(log'[k])
                            /\ \A i \in 1..Len(log[k]) : log'[k][i] = log[k][i]
        /\ UNCHANGED <<position, publishing>>
    BY <1>0, AcceptEffect
  <1>2. \A k \in Kinds : /\ Len(log[k]) \in Nat /\ Len(log'[k]) \in Nat
                         /\ position[k] \in Nat /\ position[k] <= Len(log[k])
    BY <1>1, LogType
  <1>3. CASE m = n
    <2>. DEFINE e == Len(log[kind[n]]) + 1
    <2>1. e \in 1..Len(log'[kind[n]]) /\ e > position[kind[n]] /\ log'[kind[n]][e] = n
      BY <1>1, <1>2
    <2>. HIDE DEF e
    <2>2. Unresolved(m)'
      BY <1>1, <1>3, <2>1 DEF Unresolved
    <2>. QED
      BY <2>2, WayParts DEF LeavesNobody
  <1>4. CASE m # n
    <2>1. Waits(m)' = Waits(m) /\ wire'[m] = wire[m]
      BY <1>1, <1>4 DEF Waits
    <2>2. Unresolved(m) => Unresolved(m)'
      <3>. SUFFICES ASSUME Unresolved(m) PROVE Unresolved(m)'
        OBVIOUS
      <3>1. PICK i \in 1..Len(log[kind[m]]) : log[kind[m]][i] = m /\ i > position[kind[m]]
        BY DEF Unresolved
      <3>2. i \in 1..Len(log'[kind[m]]) /\ log'[kind[m]][i] = m
        BY <1>1, <1>2, <3>1
      <3>. QED
        BY <1>1, <3>1, <3>2 DEF Unresolved
    <2>3. InLog(m)' => InLog(m)
      <3>. SUFFICES ASSUME InLog(m)' PROVE InLog(m)
        OBVIOUS
      <3>1. PICK i \in 1..Len(log'[kind[m]]) : log'[kind[m]][i] = m
        BY <1>1 DEF InLog
      <3>2. i \in 1..Len(log[kind[m]])
        BY <1>1, <1>2, <1>4, <3>1
      <3>. QED
        BY <1>1, <3>1, <3>2 DEF InLog
    <2>. QED
      BY <2>1, <2>2, <2>3, WayParts DEF LeavesNobody
  <1>. QED
    BY <1>3, <1>4

LEMMA WayAdvance ==
    ASSUME Typed, Logged, Staged, NEW m \in Messages, NEW w \in Workers, Advance(w)
    PROVE  LeavesNobody(m)
  <1>1. /\ worker[w].pc = "done"
        /\ \A k \in Kinds \ {worker[w].k} : position'[k] = position[k]
        /\ \/ position'[worker[w].k] = position[worker[w].k]
           \/ /\ position'[worker[w].k] = position[worker[w].k] + 1
              /\ worker[w].at = position[worker[w].k] + 1
        /\ UNCHANGED <<producer, log, effects, events, seen>>
    BY AdvanceEffect
  <1>2. UNCHANGED <<kind, wire, stored, dead, pushed, publishing, lost>>
    BY <1>1 DEF producer, effects, events, seen
  <1>3. /\ InLog(m)' = InLog(m) /\ Waits(m)' = Waits(m) /\ Reached(m)' = Reached(m)
        /\ kind[m] \in Kinds
    BY <1>1, <1>2 DEF InLog, Waits, Reached, Typed
  <1>4. ASSUME Unresolved(m), ~Unresolved(m)'
        PROVE  Reached(m) \/ Waits(m)
    <2>1. PICK i \in 1..Len(log[kind[m]]) : log[kind[m]][i] = m /\ i > position[kind[m]]
      BY <1>4 DEF Unresolved
    <2>2. ~(i > position'[kind[m]])
      BY <1>1, <1>2, <1>4, <2>1 DEF Unresolved
    <2>3. position[kind[m]] \in Nat /\ i \in Nat
      BY <1>3, LogType
    <2>4. kind[m] = worker[w].k /\ i = worker[w].at
      BY <1>1, <1>3, <2>1, <2>2, <2>3
    <2>5. Current(w) = m
      BY <2>1, <2>4 DEF Current
    <2>6. Reached(m) \/ <<w[2], m>> \in publishing
      BY <1>1, <2>5 DEF Staged, HandedOn
    <2>7. w[2] \in Replicas
      BY DEF Workers
    <2>. QED
      BY <2>6, <2>7 DEF Waits
  <1>. QED
    BY <1>2, <1>3, <1>4, WayParts DEF LeavesNobody

\* A rewind leaves behind only what it passes over.
LEMMA WayRewind ==
    ASSUME Typed, Logged, Behind, NEW m \in Messages, NEW ks \in SUBSET Kinds, Rewind(ks),
           UNCHANGED <<kind, wire, log>>, Skipped(ks) \subseteq lost',
           Waits(m) => OnItsWay(m)' \/ m \in lost'
    PROVE  LeavesNobody(m)
  <1>1. InLog(m)' = InLog(m) /\ kind[m] \in Kinds
    BY DEF InLog, Typed
  <1>2. ASSUME Unresolved(m), ~Unresolved(m)'
        PROVE  m \in lost'
    <2>1. PICK i \in 1..Len(log[kind[m]]) : log[kind[m]][i] = m /\ i > position[kind[m]]
      BY <1>2 DEF Unresolved
    <2>. DEFINE k == kind[m]
    <2>2. ~(i > position'[k])
      BY <1>2, <2>1 DEF Unresolved
    <2>3. position[k] \in Nat /\ position'[k] \in Nat /\ i \in Nat
      BY <1>1, LogType, RewindEffect
    <2>4. k \in ks
      BY <1>1, <2>1, <2>2, <2>3, RewindEffect
    <2>5. committed[k] = None
      <3>1. SUFFICES ASSUME committed[k] # None PROVE FALSE
        OBVIOUS
      <3>2. position'[k] = committed[k] /\ committed[k] <= position[k]
        BY <1>1, <2>4, <3>1, RewindEffect DEF Behind
      <3>. QED
        BY <2>1, <2>2, <2>3, <3>2
    <2>6. position[k] < i
      BY <2>1, <2>3
    <2>7. log[k][i] \in Skipped(ks)
      BY <2>1, <2>4, <2>5, <2>6, RewoundEffect
    <2>. QED
      BY <2>1, <2>7
  <1>3. m \in lost' => Reached(m)'
    BY DEF Reached
  <1>. QED
    BY <1>1, <1>2, <1>3, WayParts DEF LeavesNobody

LEMMA WayRestart ==
    ASSUME Typed, Logged, Behind, NEW m \in Messages,
           \/ \E w \in Workers : Crash(w) \/ Boot(w)
           \/ \E k \in Kinds, p \in Replicas : Rebalance(k, p)
    PROVE  LeavesNobody(m)
  <1>1. ASSUME NEW w \in Workers, Crash(w) PROVE LeavesNobody(m)
    <2>1. /\ Rewind(TopicsOf(w)) /\ TopicsOf(w) \in SUBSET Kinds
          /\ Skipped(TopicsOf(w)) \subseteq lost'
          /\ UNCHANGED <<kind, wire, log>>
      BY <1>1, CrashEffect DEF producer
    <2>2. ASSUME Waits(m) PROVE OnItsWay(m)' \/ m \in lost'
      <3>1. PICK p \in Replicas : <<p, m>> \in publishing
        BY <2>2 DEF Waits
      <3>2. <<p, m>> \in publishing' \/ OnItsWay(m)' \/ m \in lost'
        BY <1>1, <3>1, CrashEffect
      <3>. QED
        BY <3>2 DEF OnItsWay
    <2>. QED
      BY <2>1, <2>2, WayRewind
  <1>2. ASSUME NEW w \in Workers, Boot(w) PROVE LeavesNobody(m)
    <2>1. /\ Rewind(TopicsOf(w)) /\ TopicsOf(w) \in SUBSET Kinds
          /\ Skipped(TopicsOf(w)) \subseteq lost'
          /\ UNCHANGED <<kind, wire, log, publishing>>
      BY <1>2, BootEffect DEF producer, events
    <2>2. Waits(m) => OnItsWay(m)'
      BY <2>1 DEF Waits, OnItsWay
    <2>. QED
      BY <2>1, <2>2, WayRewind
  <1>3. ASSUME NEW k \in Kinds, NEW p \in Replicas, Rebalance(k, p) PROVE LeavesNobody(m)
    <2>1. /\ Rewind({k}) /\ Skipped({k}) \subseteq lost'
          /\ UNCHANGED <<kind, wire, log, publishing>>
      BY <1>3, RebalanceEffect DEF producer, events
    <2>2. Waits(m) => OnItsWay(m)'
      BY <2>1 DEF Waits, OnItsWay
    <2>. QED
      BY <2>1, <2>2, WayRewind
  <1>. QED
    BY <1>1, <1>2, <1>3

LEMMA WayStep ==
    ASSUME Typed, Logged, Staged, Behind, [Next]_vars, NEW m \in Messages
    PROVE  LeavesNobody(m)
  <1>1. ASSUME UNCHANGED <<kind, wire, log, position>>, publishing \subseteq publishing'
        PROVE  LeavesNobody(m)
    <2>1. Waits(m) => Waits(m)'
      BY <1>1 DEF Waits
    <2>. QED
      BY <1>1, <2>1, WayOfOthers
  <1>2. ASSUME NEW w \in Workers, Poll(w) PROVE LeavesNobody(m)
    BY <1>1, <1>2 DEF Poll, producer, broker, events
  <1>3. ASSUME NEW w \in Workers, Handles(w) PROVE LeavesNobody(m)
    BY <1>1, <1>3, HandlingEffect DEF Handling, producer, broker
  <1>4. ASSUME NEW k \in Kinds, CommitOffset(k) PROVE LeavesNobody(m)
    BY <1>1, <1>4 DEF CommitOffset, producer, events
  <1>5. CASE Aside
    BY <1>1, <1>5, AsideEffect DEF AsideTyped, producer, broker
  <1>6. ASSUME NEW p \in Replicas, NEW n \in Messages, Publishes(p, n) PROVE LeavesNobody(m)
    <2>1. /\ n \in pushed' \cup lost' /\ UNCHANGED <<kind, wire, log, position>>
          /\ \A e \in publishing : e \in publishing' \/ e = <<p, n>>
      BY <1>6, PublishesEffect DEF producer, broker
    <2>2. CASE m = n
      <3>1. Reached(m)' /\ InLog(m)' = InLog(m)
        BY <2>1, <2>2 DEF Reached, InLog
      <3>. QED
        BY <3>1 DEF LeavesNobody
    <2>3. CASE m # n
      <3>1. Waits(m) => Waits(m)'
        BY <2>1, <2>3 DEF Waits
      <3>. QED
        BY <2>1, <3>1, WayOfOthers
    <2>. QED
      BY <2>2, <2>3
  <1>. QED
    BY <1>2, <1>3, <1>4, <1>5, <1>6, NextCases, WayProducer, WayAccept, WayAdvance,
       WayRestart

LEMMA BehindRewind ==
    ASSUME Typed, Behind, NEW ks \in SUBSET Kinds, Rewind(ks), UNCHANGED committed
    PROVE  Behind'
  <1>. SUFFICES ASSUME NEW k \in Kinds, committed[k] # None
                PROVE  committed[k] <= position'[k]
    BY DEF Behind
  <1>1. committed[k] <= position[k] /\ committed[k] \in Int
    BY DEF Behind, Typed
  <1>2. position'[k] \in {position[k], committed[k]}
    BY RewindEffect
  <1>. QED
    BY <1>1, <1>2

LEMMA BehindStep ==
    ASSUME Typed, Behind, [Next]_vars
    PROVE  Behind'
  <1>1. ASSUME UNCHANGED <<position, committed>> PROVE Behind'
    BY <1>1 DEF Behind
  <1>2. ASSUME NEW m \in Messages, NEW k \in Kinds, Begin(m, k) PROVE Behind'
    BY <1>1, <1>2 DEF Begin, broker
  <1>3. ASSUME NEW m \in Messages, Emits(m) \/ Commit(m) \/ Undo(m) \/ Accept(m) \/ SendLost(m)
        PROVE  Behind'
    BY <1>1, <1>3 DEF Emits, Record, Announce, Commit, Undo, Accept, SendLost, broker
  <1>4. ASSUME NEW w \in Workers, Poll(w) \/ Handles(w) PROVE Behind'
    BY <1>1, <1>4, PollEffect, HandlingEffect DEF Handling, broker
  <1>5. ASSUME NEW w \in Workers, Advance(w) PROVE Behind'
    <2>1. \A k \in Kinds : /\ position[k] \in Nat /\ position'[k] \in Nat
                           /\ position'[k] = position[k] \/ position'[k] = position[k] + 1
                           /\ committed[k] \in Int /\ committed'[k] = committed[k]
      BY <1>5, AdvanceEffect DEF Typed
    <2>. QED
      BY <2>1 DEF Behind
  <1>6. ASSUME NEW w \in Workers, Crash(w) \/ Boot(w) PROVE Behind'
    BY <1>6, CrashEffect, BootEffect, BehindRewind
  <1>7. ASSUME NEW k \in Kinds, CommitOffset(k) PROVE Behind'
    <2>1. \A j \in Kinds : /\ position'[j] = position[j] /\ position[j] \in Nat
                           /\ committed'[j] = committed[j] \/ committed'[j] = position[j]
      BY <1>7 DEF CommitOffset, Typed
    <2>. QED
      BY <2>1 DEF Behind
  <1>8. ASSUME NEW k \in Kinds, NEW p \in Replicas, Rebalance(k, p) PROVE Behind'
    BY <1>8, RebalanceEffect, BehindRewind
  <1>9. ASSUME NEW p \in Replicas, NEW m \in Messages, Publishes(p, m) PROVE Behind'
    BY <1>1, <1>9, PublishesEffect DEF broker
  <1>10. CASE Aside
    BY <1>1, <1>10, AsideEffect DEF AsideTyped, broker
  <1>. QED
    BY <1>2, <1>3, <1>4, <1>5, <1>6, <1>7, <1>8, <1>9, <1>10, NextCases

LEMMA ResolvedAlways == Spec => []Resolved
  <1>1. Init => Resolved
    <2>. SUFFICES ASSUME Init PROVE Resolved
      OBVIOUS
    <2>1. \A k \in Kinds : Len(log[k]) = 0 /\ committed[k] = None
      BY EmptySeq DEF Init
    <2>2. \A m \in Messages : kind[m] \in Kinds
      BY DEF Init, Kinds
    <2>. QED
      BY <2>1, <2>2 DEF Resolved, Behind, InLog
  <1>2. Typed /\ Logged /\ Staged /\ StoredFirst /\ Resolved /\ [Next]_vars => Resolved'
    <2>. SUFFICES ASSUME Typed, Logged, Staged, Resolved, [Next]_vars
                  PROVE  Resolved'
      OBVIOUS
    <2>1. Behind'
      BY BehindStep DEF Resolved
    <2>2. \A m \in Messages : LeavesNobody(m)
      BY WayStep DEF Resolved
    <2>3. \A m \in Messages : InLog(m)' /\ ~OnItsWay(m)' => Reached(m)'
      BY <2>2, ResolvedOfLeavesNobody
    <2>. QED
      BY <2>1, <2>3 DEF Resolved
  <1>. QED
    BY <1>1, <1>2, TypedAlways, LoggedAlways, StagedAlways, PTL DEF Spec

\* A committed change's message that is not on its way is at its end.
LEMMA ReachedOf ==
    ASSUME Typed, Logged, Resolved, NEW m \in Messages,
           change[m] = "committed", ~OnItsWay(m)
    PROVE  Reached(m)
  <1>1. wire[m] = "ended"
    BY DEF OnItsWay
  <1>2. m \in lost \/ InLog(m)
    BY <1>1 DEF Logged, Sent
  <1>. QED
    BY <1>2 DEF Resolved, Reached

\* The message of a committed change does not vanish, however often processes
\* crash, topics move and stores go out: it takes effect, lies in a dead letter
\* topic, or was given up where the code gives messages up, or it is on its way.
\* kafkajs commits only what a handler resolved, and withDlt resolves only what
\* the handler took or the dead letter topic has.
THEOREM NothingVanishesCorrect == Spec => []NothingVanishes
  <1>1. Typed /\ Logged /\ StoredFirst /\ Resolved => NothingVanishes
    <2>. SUFFICES ASSUME Typed, Logged, StoredFirst, Resolved, NEW m \in Messages,
                         change[m] = "committed", ~OnItsWay(m)
                  PROVE  Settled(m)
      BY DEF NothingVanishes
    <2>1. Reached(m)
      BY ReachedOf
    <2>2. CASE m \in pushed
      <3>1. Given(m)
        BY <2>2 DEF Given
      <3>2. kind[m] = "signal" \/ stored[m] > 0
        BY <3>1 DEF Logged, Sent, StoredFirst
      <3>. QED
        BY <2>2, <3>2 DEF Settled
    <2>. QED
      BY <2>1, <2>2 DEF Reached, Settled
  <1>. QED
    BY <1>1, TypedAlways, LoggedAlways, StagedAlways, ResolvedAlways, PTL

-----------------------------------------------------------------------------
(* A tab that was not told has lost its subscription, or is about to be told *)

Heard ==
    \A m \in Messages : \A t \in unheard[m] :
        /\ kind[m] \in {"notify", "signal"} /\ change[m] = "committed"
        /\ t \in deaf[m] \/ tab[t] \in subscribed
        /\ m \in pushed => t \in deaf[m] \/ <<tab[t], m>> \in inbound

LEMMA HeardProducer ==
    ASSUME Typed, Logged, Heard, NEW m \in Messages,
           \/ \E k \in Kinds : Begin(m, k)
           \/ Emits(m) \/ Commit(m) \/ Undo(m) \/ Accept(m) \/ SendLost(m)
    PROVE  Heard'
  <1>1. ASSUME UNCHANGED <<pushed, inbound, unheard, deaf, tab, subscribed>>,
               \A n \in Messages \ {m} : change'[n] = change[n] /\ kind'[n] = kind[n],
               \/ change'[m] = change[m] /\ kind'[m] = kind[m]
               \/ change[m] # "committed"
        PROVE  Heard'
    BY <1>1 DEF Heard
  <1>2. ASSUME NEW k \in Kinds, Begin(m, k) PROVE Heard'
    <2>1. /\ UNCHANGED <<pushed, inbound, unheard, deaf, tab, subscribed>>
          /\ \A n \in Messages \ {m} : change'[n] = change[n] /\ kind'[n] = kind[n]
          /\ change[m] # "committed"
      BY <1>2 DEF Begin, Typed, events, health
    <2>. QED
      BY <1>1, <2>1
  <1>3. CASE Emits(m) \/ Accept(m) \/ SendLost(m)
    <2>1. UNCHANGED <<kind, change, pushed, inbound, unheard, deaf, tab, subscribed>>
      BY <1>3 DEF Emits, Record, Announce, Accept, SendLost, events, health
    <2>. QED
      BY <1>1, <2>1
  <1>4. CASE Undo(m)
    <2>1. /\ UNCHANGED <<kind, pushed, inbound, unheard, deaf, tab, subscribed>>
          /\ \A n \in Messages \ {m} : change'[n] = change[n]
          /\ change[m] # "committed"
      BY <1>4 DEF Undo, Typed, events, health
    <2>. QED
      BY <1>1, <2>1
  <1>5. CASE Commit(m)
    <2>1. /\ UNCHANGED <<kind, pushed, inbound, tab, subscribed>>
          /\ change[m] = "open" /\ change'[m] = "committed"
          /\ \A n \in Messages \ {m} :
               change'[n] = change[n] /\ unheard'[n] = unheard[n] /\ deaf'[n] = deaf[n]
      BY <1>5 DEF Commit, Typed, health
    <2>2. \A t \in unheard'[m] :
            /\ kind[m] \in {"notify", "signal"}
            /\ t \in deaf'[m] \/ tab[t] \in subscribed
      BY <1>5 DEF Commit, Typed
    <2>3. m \notin pushed
      <3>. SUFFICES ASSUME m \in pushed PROVE FALSE
        OBVIOUS
      <3>1. InLog(m) /\ kind[m] \in {"notify", "signal"} /\ kind[m] \in Kinds
        BY DEF Given, Logged, Sent, Typed
      <3>2. change[m] = "committed"
        BY <3>1 DEF InLog, Logged, Announced
      <3>. QED
        BY <2>1, <3>2
    <2>. QED
      BY <2>1, <2>2, <2>3 DEF Heard
  <1>. QED
    BY <1>2, <1>3, <1>4, <1>5

\* A subscription that breaks makes the tabs it served deaf, and takes the
\* events along that were on their way to them.
LEMMA HeardUnsubscribed ==
    ASSUME Typed, Heard, NEW ps \in SUBSET Replicas, Unsubscribed(ps),
           UNCHANGED <<kind, change, pushed, unheard, tab>>
    PROVE  Heard'
  <1>1. /\ subscribed' = subscribed \ ps
        /\ inbound' = {e \in inbound : e[1] \notin ps}
        /\ \A m \in Messages :
             deaf'[m] = deaf[m] \cup {t \in unheard[m] : tab[t] \in ps}
    BY UnsubscribedEffect
  <1>. SUFFICES ASSUME NEW m \in Messages, NEW t \in unheard[m]
                PROVE  /\ t \in deaf'[m] \/ tab[t] \in subscribed'
                       /\ m \in pushed => t \in deaf'[m] \/ <<tab[t], m>> \in inbound'
    BY DEF Heard
  <1>2. /\ t \in deaf[m] \/ tab[t] \in subscribed
        /\ m \in pushed => t \in deaf[m] \/ <<tab[t], m>> \in inbound
    BY DEF Heard
  <1>3. CASE t \in deaf[m] \/ tab[t] \in ps
    BY <1>1, <1>3
  <1>4. CASE t \notin deaf[m] /\ tab[t] \notin ps
    BY <1>1, <1>2, <1>4
  <1>. QED
    BY <1>3, <1>4

LEMMA HeardAside ==
    ASSUME Typed, Heard, Aside
    PROVE  Heard'
  <1>0. AsideTyped /\ UNCHANGED <<kind, change, pushed>>
    BY AsideEffect DEF AsideTyped, producer
  <1>1. ASSUME UNCHANGED <<unheard, deaf, inbound, tab>>, subscribed \subseteq subscribed'
        PROVE  Heard'
    BY <1>0, <1>1 DEF Heard
  <1>2. ASSUME NEW s \in Stores, GoesDown(s) PROVE Heard'
    <2>1. /\ UNCHANGED <<unheard, tab>>
          /\ \/ Unsubscribed(Replicas)
             \/ UNCHANGED <<subscribed, inbound, deaf>>
      BY <1>2 DEF GoesDown
    <2>. QED
      BY <1>0, <1>1, <2>1, HeardUnsubscribed
  <1>3. ASSUME NEW s \in Stores, ComesUp(s) PROVE Heard'
    BY <1>1, <1>3 DEF ComesUp, events
  <1>4. ASSUME NEW p \in Replicas, CutOff(p) PROVE Heard'
    BY <1>0, <1>4, HeardUnsubscribed DEF CutOff
  <1>5. ASSUME NEW p \in Replicas, Resubscribe(p) PROVE Heard'
    BY <1>1, <1>5 DEF Resubscribe, events
  <1>6. ASSUME NEW p \in Replicas, NEW n \in Messages, Pmessage(p, n) PROVE Heard'
    <2>1. /\ inbound' = inbound \ {<<p, n>>}
          /\ UNCHANGED <<subscribed, tab>>
          /\ \A m \in Messages \ {n} : unheard'[m] = unheard[m] /\ deaf'[m] = deaf[m]
          /\ unheard'[n] = {t \in unheard[n] : tab[t] # p}
          /\ deaf'[n] = {t \in deaf[n] : tab[t] # p}
      BY <1>6 DEF Pmessage, Typed, health
    <2>. SUFFICES ASSUME NEW m \in Messages, NEW t \in unheard'[m]
                  PROVE  /\ kind[m] \in {"notify", "signal"} /\ change[m] = "committed"
                         /\ t \in deaf'[m] \/ tab[t] \in subscribed
                         /\ m \in pushed => t \in deaf'[m] \/ <<tab[t], m>> \in inbound'
      BY <1>0, <2>1 DEF Heard
    <2>2. /\ t \in unheard[m] /\ <<tab[t], m>> # <<p, n>>
          /\ t \in deaf[m] => t \in deaf'[m]
      BY <2>1
    <2>. QED
      BY <2>1, <2>2 DEF Heard
  <1>7. ASSUME NEW t \in Tabs, Close(t) PROVE Heard'
    <2>1. /\ UNCHANGED <<inbound, subscribed>>
          /\ \A m \in Messages : /\ unheard'[m] = unheard[m] \ {t}
                                 /\ deaf'[m] = deaf[m] \ {t}
                                 /\ unheard[m] \subseteq Tabs
          /\ \A u \in Tabs \ {t} : tab'[u] = tab[u]
      BY <1>7 DEF Close, Typed, health
    <2>. QED
      BY <1>0, <2>1 DEF Heard
  <1>8. ASSUME NEW t \in Tabs, NEW p \in Replicas, Connect(t, p) PROVE Heard'
    <2>1. /\ UNCHANGED <<unheard, deaf, inbound, subscribed>> /\ tab[t] = Closed
          /\ \A m \in Messages : unheard[m] \subseteq Tabs
          /\ \A u \in Tabs \ {t} : tab'[u] = tab[u]
          /\ Closed \notin subscribed
          /\ \A m \in Messages : <<Closed, m>> \notin inbound
      BY <1>8, DeliveryAssumption DEF Connect, Typed, events, health
    <2>2. ASSUME NEW m \in Messages, NEW u \in unheard[m]
          PROVE  u \in deaf[m] \/ tab'[u] = tab[u]
      BY <2>1, <2>2 DEF Heard
    <2>. QED
      BY <1>0, <2>1, <2>2 DEF Heard
  <1>9. CASE UNCHANGED vars
    BY <1>1, <1>9 DEF vars
  <1>. QED
    BY <1>2, <1>3, <1>4, <1>5, <1>6, <1>7, <1>8, <1>9 DEF Aside

LEMMA HeardCrash ==
    ASSUME Typed, Heard, NEW w \in Workers, Crash(w)
    PROVE  Heard'
  <1>1. /\ subscribed' = subscribed \ Dies(w)
        /\ inbound' = {e \in inbound : e[1] \notin Dies(w)}
        /\ tab' = [t \in Tabs |-> IF tab[t] \in Dies(w) THEN Closed ELSE tab[t]]
        /\ UNCHANGED <<kind, change, pushed>>
    BY DEF Crash, Dies, producer
  <1>2. \A m \in Messages : /\ unheard'[m] = {t \in unheard[m] : tab[t] \notin Dies(w)}
                            /\ deaf'[m] = {t \in deaf[m] : tab[t] \notin Dies(w)}
                            /\ unheard[m] \subseteq Tabs
    BY DEF Crash, Dies, Typed
  <1>. SUFFICES ASSUME NEW m \in Messages, NEW t \in unheard'[m]
                PROVE  /\ kind[m] \in {"notify", "signal"} /\ change[m] = "committed"
                       /\ t \in deaf'[m] \/ tab'[t] \in subscribed'
                       /\ m \in pushed => t \in deaf'[m] \/ <<tab'[t], m>> \in inbound'
    BY <1>1 DEF Heard
  <1>3. t \in unheard[m] /\ tab[t] \notin Dies(w) /\ t \in Tabs
    BY <1>2
  <1>4. tab'[t] = tab[t]
    BY <1>1, <1>3
  <1>. QED
    BY <1>1, <1>2, <1>3, <1>4 DEF Heard

\* Redis sends an event to every replica that is subscribed, whichever published.
LEMMA HeardPublishes ==
    ASSUME Typed, Heard, NEW p \in Replicas, NEW n \in Messages, Publishes(p, n)
    PROVE  Heard'
  <1>1. UNCHANGED <<kind, change, unheard, deaf, tab, subscribed>>
    BY PublishesEffect DEF producer, health
  <1>2. \/ /\ inbound' = inbound \cup (subscribed \X {n})
           /\ pushed' = pushed \cup {n}
        \/ UNCHANGED <<inbound, pushed>>
    BY DEF Publishes, Publish, PublishFails
  <1>. SUFFICES ASSUME NEW m \in Messages, NEW t \in unheard[m], m \in pushed'
                PROVE  t \in deaf[m] \/ <<tab[t], m>> \in inbound'
    BY <1>1 DEF Heard
  <1>3. CASE m \in pushed
    BY <1>2, <1>3 DEF Heard
  <1>4. CASE m \notin pushed
    <2>1. m = n /\ inbound' = inbound \cup (subscribed \X {n})
      BY <1>2, <1>4
    <2>2. t \in deaf[m] \/ tab[t] \in subscribed
      BY DEF Heard
    <2>. QED
      BY <2>1, <2>2
  <1>. QED
    BY <1>3, <1>4

LEMMA HeardStep ==
    ASSUME Typed, Logged, Heard, [Next]_vars
    PROVE  Heard'
  <1>1. ASSUME UNCHANGED <<kind, change, pushed, inbound, unheard, deaf, tab>>,
               subscribed \subseteq subscribed'
        PROVE  Heard'
    BY <1>1 DEF Heard
  <1>2. ASSUME NEW w \in Workers, Poll(w) \/ Advance(w) PROVE Heard'
    BY <1>1, <1>2 DEF Poll, Advance, producer, events, health
  <1>3. ASSUME NEW w \in Workers, Handles(w) PROVE Heard'
    BY <1>1, <1>3, HandlingEffect DEF Handling, producer, health
  <1>4. ASSUME NEW w \in Workers, Boot(w) PROVE Heard'
    BY <1>1, <1>4, BootEffect DEF producer, events
  <1>5. ASSUME NEW k \in Kinds, CommitOffset(k) PROVE Heard'
    BY <1>1, <1>5 DEF CommitOffset, producer, events, health
  <1>6. ASSUME NEW k \in Kinds, NEW p \in Replicas, Rebalance(k, p) PROVE Heard'
    BY <1>1, <1>6 DEF Rebalance, producer, events, health
  <1>. QED
    BY <1>2, <1>3, <1>4, <1>5, <1>6, NextCases, HeardProducer, HeardAside, HeardCrash,
       HeardPublishes

LEMMA HeardAlways == Spec => []Heard
  <1>1. Init => Heard
    BY DEF Init, Heard
  <1>2. Typed /\ Logged /\ Heard /\ [Next]_vars => Heard'
    BY HeardStep
  <1>. QED
    BY <1>1, <1>2, TypedAlways, LoggedAlways, PTL DEF Spec

\* When the message of a committed change is on its way no more, every tab of
\* the user that has streamed since was told: whichever replica handled the
\* message, it was given to a Redis client there, and what Redis took it sent to
\* every replica with a subscription (sse.service's emit and pmessage).  The
\* exceptions are a message that was given up or is a dead letter, and a tab
\* whose own replica was without its subscription.
THEOREM TabsToldCorrect == Spec => []TabsTold
  <1>1. Typed /\ Logged /\ Resolved /\ Heard => TabsTold
    <2>. SUFFICES ASSUME Typed, Logged, Resolved, Heard, NEW m \in Messages,
                         change[m] = "committed", ~OnItsWay(m),
                         NEW t \in unheard[m], m \notin dead \cup lost
                  PROVE  t \in deaf[m] \/ <<tab[t], m>> \in inbound
      BY DEF TabsTold
    <2>1. Reached(m)
      BY ReachedOf
    <2>2. m \in pushed
      BY <2>1 DEF Reached, Heard
    <2>. QED
      BY <2>2 DEF Heard
  <1>. QED
    BY <1>1, TypedAlways, LoggedAlways, ResolvedAlways, HeardAlways, PTL

-----------------------------------------------------------------------------
(* A message is stored once unless it was handed over twice *)

\* Unless the broker took it twice, a message is in its topic once, and not
\* before its producer is done with it.
Once ==
    /\ \A m \in Messages \ again : wire[m] = "sending" => ~InLog(m)
    /\ \A k \in Kinds : \A i, j \in 1..Len(log[k]) :
         log[k][i] = log[k][j] /\ i # j => log[k][i] \in again

LEMMA OnceAccept ==
    ASSUME Typed, Logged, Once, NEW m \in Messages, Accept(m)
    PROVE  Once'
  <1>1. /\ wire[m] = "sending" /\ kind' = kind /\ kind[m] \in Kinds
        /\ \A k \in Kinds \ {kind[m]} : log'[k] = log[k]
        /\ Len(log'[kind[m]]) = Len(log[kind[m]]) + 1
        /\ log'[kind[m]][Len(log[kind[m]]) + 1] = m
        /\ \A k \in Kinds : /\ Len(log[k]) <= Len(log'[k])
                            /\ \A i \in 1..Len(log[k]) : log'[k][i] = log[k][i]
        /\ \/ /\ again' = again /\ wire'[m] = "ended"
              /\ \A n \in Messages \ {m} : wire'[n] = wire[n]
           \/ again' = again \cup {m} /\ wire' = wire
    BY AcceptEffect DEF Typed
  <1>2. \A k \in Kinds : Len(log[k]) \in Nat /\ Len(log'[k]) \in Nat
    BY <1>1, LogType
  <1>3. \A k \in Kinds : \A i \in 1..Len(log'[k]) :
          \/ i \in 1..Len(log[k]) /\ log'[k][i] = log[k][i]
          \/ k = kind[m] /\ i = Len(log[k]) + 1 /\ log'[k][i] = m
    BY <1>1, <1>2
  <1>4. \A n \in Messages \ {m} : InLog(n)' => InLog(n)
    <2>. SUFFICES ASSUME NEW n \in Messages \ {m}, InLog(n)' PROVE InLog(n)
      OBVIOUS
    <2>1. kind[n] \in Kinds
      BY DEF Typed
    <2>2. PICK i \in 1..Len(log'[kind[n]]) : log'[kind[n]][i] = n
      BY <1>1 DEF InLog
    <2>. QED
      BY <1>3, <2>1, <2>2 DEF InLog
  <1>5. \A n \in Messages \ again' : wire'[n] = "sending" => ~InLog(n)'
    BY <1>1, <1>4 DEF Once
  <1>6. ASSUME NEW k \in Kinds, NEW i \in 1..Len(log'[k]), NEW j \in 1..Len(log'[k]),
               log'[k][i] = log'[k][j], i # j
        PROVE  log'[k][i] \in again'
    <2>1. again \subseteq again'
      BY <1>1
    <2>2. CASE i \in 1..Len(log[k]) /\ j \in 1..Len(log[k])
      BY <1>3, <1>6, <2>1, <2>2, <1>1 DEF Once
    <2>3. CASE ~(i \in 1..Len(log[k]) /\ j \in 1..Len(log[k]))
      <3>1. k = kind[m] /\ log'[k][i] = m
        BY <1>3, <1>6, <2>3
      <3>2. PICK o \in 1..Len(log[k]) : log[k][o] = m
        BY <1>3, <1>6, <2>3, <3>1
      <3>3. InLog(m)
        BY <3>1, <3>2 DEF InLog
      <3>4. m \in again
        BY <1>1, <3>3 DEF Once
      <3>. QED
        BY <2>1, <3>1, <3>4
    <2>. QED
      BY <2>2, <2>3
  <1>. QED
    BY <1>5, <1>6 DEF Once

LEMMA OnceStep ==
    ASSUME Typed, Logged, Once, [Next]_vars
    PROVE  Once'
  <1>1. ASSUME NEW m \in Messages, NEW k \in Kinds, Begin(m, k) PROVE Once'
    <2>1. /\ change[m] = "none" /\ UNCHANGED <<wire, log, again>>
          /\ \A n \in Messages \ {m} : kind'[n] = kind[n]
      BY <1>1 DEF Begin, Typed, broker, seen
    <2>2. wire[m] # "sending"
      BY <2>1 DEF Logged, Sent
    <2>3. \A n \in Messages \ {m} : InLog(n)' = InLog(n)
      BY <2>1 DEF InLog
    <2>. QED
      BY <2>1, <2>2, <2>3 DEF Once
  <1>2. ASSUME NEW m \in Messages, Emits(m) PROVE Once'
    <2>1. /\ wire[m] = "unsent" /\ UNCHANGED <<kind, log, again>>
          /\ \A n \in Messages \ {m} : wire'[n] = wire[n]
      BY <1>2, EmitsEffect DEF broker, seen
    <2>2. ~InLog(m)
      BY <2>1 DEF Logged, Sent
    <2>3. \A n \in Messages : InLog(n)' = InLog(n)
      BY <2>1 DEF InLog
    <2>. QED
      BY <2>1, <2>2, <2>3 DEF Once
  <1>3. ASSUME NEW m \in Messages, Commit(m) \/ Undo(m) \/ SendLost(m) PROVE Once'
    <2>1. /\ UNCHANGED <<kind, log, again>>
          /\ \A n \in Messages : wire'[n] = "sending" => wire[n] = "sending"
      BY <1>3 DEF Commit, Undo, SendLost, Typed, broker, seen
    <2>2. \A n \in Messages : InLog(n)' = InLog(n)
      BY <2>1 DEF InLog
    <2>. QED
      BY <2>1, <2>2 DEF Once
  <1>4. ASSUME NEW w \in Workers, Handles(w) PROVE Once'
    <2>1. UNCHANGED <<kind, wire, log>> /\ again \subseteq again'
      BY <1>4, HandlingEffect DEF Handling, OnlyOf, producer, broker
    <2>2. \A n \in Messages : InLog(n)' = InLog(n)
      BY <2>1 DEF InLog
    <2>. QED
      BY <2>1, <2>2 DEF Once
  <1>5. CASE Elsewhere
    <2>1. \A n \in Messages : InLog(n)' = InLog(n)
      BY <1>5 DEF Elsewhere, InLog
    <2>. QED
      BY <1>5, <2>1 DEF Elsewhere, Once
  <1>. QED
    BY <1>1, <1>2, <1>3, <1>4, <1>5, OnceAccept, ElsewhereCases

LEMMA OnceAlways == Spec => []Once
  <1>1. Init => Once
    <2>. SUFFICES ASSUME Init PROVE Once
      OBVIOUS
    <2>1. \A k \in Kinds : Len(log[k]) = 0
      BY EmptySeq DEF Init
    <2>2. \A m \in Messages : wire[m] = "unsent"
      BY DEF Init
    <2>. QED
      BY <2>1, <2>2 DEF Once
  <1>2. Typed /\ Logged /\ Once /\ [Next]_vars => Once'
    BY OnceStep
  <1>. QED
    BY <1>1, <1>2, TypedAlways, LoggedAlways, PTL DEF Spec

\* A worker whose process is down is idle, and where the topics it was assigned
\* are read from is where its group resumes them, if it committed an offset.
Stopped ==
    \A w \in Workers \ up :
        /\ worker[w].pc = "idle"
        /\ \A k \in TopicsOf(w) : committed[k] # None => position[k] = committed[k]

LEMMA StoppedStep ==
    ASSUME Typed, Stopped, [Next]_vars
    PROVE  Stopped'
  <1>0. \A w \in Workers : w = <<w[1], w[2]>>
    BY DEF Workers
  <1>1. ASSUME UNCHANGED <<position, committed, assigned, worker, up>> PROVE Stopped'
    BY <1>1 DEF Stopped, TopicsOf
  <1>2. ASSUME NEW m \in Messages, NEW k \in Kinds, Begin(m, k) PROVE Stopped'
    BY <1>1, <1>2 DEF Begin, broker, health
  <1>3. ASSUME NEW m \in Messages, Emits(m) \/ Commit(m) \/ Undo(m) \/ Accept(m) \/ SendLost(m)
        PROVE  Stopped'
    BY <1>1, <1>3 DEF Emits, Record, Announce, Commit, Undo, Accept, SendLost, broker, health
  <1>4. ASSUME NEW w \in Workers, Poll(w) PROVE Stopped'
    <2>1. /\ w \in up /\ \A v \in Workers \ {w} : worker'[v] = worker[v]
          /\ UNCHANGED <<position, committed, assigned, up>>
      BY <1>4, PollEffect DEF broker, health
    <2>. QED
      BY <2>1 DEF Stopped, TopicsOf
  <1>5. ASSUME NEW w \in Workers, Handles(w) PROVE Stopped'
    <2>1. /\ worker[w].pc # "idle" /\ \A v \in Workers \ {w} : worker'[v] = worker[v]
          /\ UNCHANGED <<position, committed, assigned, up>>
      BY <1>5, HandlingEffect DEF Handling, MovesTo, broker, health
    <2>. QED
      BY <2>1 DEF Stopped, TopicsOf
  <1>6. ASSUME NEW w \in Workers, Advance(w) PROVE Stopped'
    <2>1. /\ worker[w].pc # "idle" /\ \A v \in Workers \ {w} : worker'[v] = worker[v]
          /\ \A k \in Kinds : position'[k] = position[k] \/ k \in TopicsOf(w)
          /\ UNCHANGED <<committed, assigned, up>>
      BY <1>6, AdvanceEffect, WorkerType DEF TopicsOf, health
    <2>. SUFFICES ASSUME NEW v \in Workers \ up, NEW k \in TopicsOf(v)
                  PROVE  /\ worker'[v].pc = "idle"
                         /\ committed[k] # None => position'[k] = committed[k]
      BY <2>1 DEF Stopped, TopicsOf
    <2>2. v # w /\ k \in Kinds
      BY <2>1 DEF Stopped, TopicsOf
    <2>3. k \notin TopicsOf(w)
      BY <1>0, <2>2 DEF TopicsOf
    <2>. QED
      BY <2>1, <2>2, <2>3 DEF Stopped
  <1>7. ASSUME NEW w \in Workers, Crash(w) \/ Boot(w) PROVE Stopped'
    <2>1. /\ Rewind(TopicsOf(w)) /\ TopicsOf(w) \in SUBSET Kinds
          /\ \A v \in Workers \ {w} : worker'[v] = worker[v] /\ (v \in up' <=> v \in up)
          /\ w \in up' \/ worker'[w].pc = "idle"
          /\ UNCHANGED <<committed, assigned>>
      BY <1>7, CrashEffect, BootEffect
    <2>2. \A v \in Workers : TopicsOf(v)' = TopicsOf(v)
      BY <2>1 DEF TopicsOf
    <2>. SUFFICES ASSUME NEW v \in Workers \ up'
                  PROVE  /\ worker'[v].pc = "idle"
                         /\ \A k \in TopicsOf(v) :
                              committed[k] # None => position'[k] = committed[k]
      BY <2>1, <2>2 DEF Stopped
    <2>3. CASE v = w
      BY <2>1, <2>3, RewindEffect
    <2>4. CASE v # w
      <3>1. \A k \in TopicsOf(v) : k \in Kinds /\ k \notin TopicsOf(w)
        BY <1>0, <2>4 DEF TopicsOf
      <3>2. \A k \in TopicsOf(v) : position'[k] = position[k]
        BY <2>1, <3>1, RewindEffect
      <3>. QED
        BY <2>1, <2>4, <3>2 DEF Stopped
    <2>. QED
      BY <2>3, <2>4
  <1>8. ASSUME NEW k \in Kinds, CommitOffset(k) PROVE Stopped'
    <2>1. /\ <<GroupOf(k), assigned[k]>> \in up
          /\ \A j \in Kinds \ {k} : committed'[j] = committed[j]
          /\ UNCHANGED <<position, assigned, worker, up>>
      BY <1>8 DEF CommitOffset, Typed, health
    <2>2. \A v \in Workers \ up : k \notin TopicsOf(v)
      BY <1>0, <2>1 DEF TopicsOf
    <2>. QED
      BY <2>1, <2>2 DEF Stopped, TopicsOf
  <1>9. ASSUME NEW k \in Kinds, NEW p \in Replicas, Rebalance(k, p) PROVE Stopped'
    <2>1. /\ <<GroupOf(k), p>> \in up /\ assigned'[k] = p /\ Rewind({k})
          /\ \A j \in Kinds \ {k} : assigned'[j] = assigned[j]
          /\ UNCHANGED <<committed, worker, up>>
      BY <1>9 DEF Rebalance, Typed, health
    <2>2. \A j \in Kinds \ {k} : position'[j] = position[j]
      BY <2>1, RewindEffect
    <2>3. \A v \in Workers \ up : k \notin TopicsOf(v)'
      BY <1>0, <2>1 DEF TopicsOf
    <2>4. \A v \in Workers : \A j \in TopicsOf(v)' : j = k \/ j \in TopicsOf(v) \ {k}
      BY <2>1 DEF TopicsOf
    <2>. SUFFICES ASSUME NEW v \in Workers \ up
                  PROVE  /\ worker[v].pc = "idle"
                         /\ \A j \in TopicsOf(v)' :
                              committed[j] # None => position'[j] = committed[j]
      BY <2>1 DEF Stopped
    <2>5. \A j \in TopicsOf(v)' : j \in Kinds \ {k} /\ j \in TopicsOf(v)
      BY <2>3, <2>4 DEF TopicsOf
    <2>. QED
      BY <2>2, <2>5 DEF Stopped
  <1>10. ASSUME NEW p \in Replicas, NEW m \in Messages, Publishes(p, m) PROVE Stopped'
    BY <1>1, <1>10, PublishesEffect DEF broker, health
  <1>11. CASE Aside
    BY <1>1, <1>11, AsideEffect DEF AsideTyped, broker
  <1>. QED
    BY <1>2, <1>3, <1>4, <1>5, <1>6, <1>7, <1>8, <1>9, <1>10, <1>11, NextCases

LEMMA StoppedAlways == Spec => []Stopped
  <1>1. Init => Stopped
    BY DEF Init, Stopped
  <1>2. Typed /\ Stopped /\ [Next]_vars => Stopped'
    BY StoppedStep
  <1>. QED
    BY <1>1, <1>2, TypedAlways, PTL DEF Spec

Handled(w, k, a) == worker[w].pc # "idle" /\ worker[w].k = k /\ worker[w].at = a

\* How far message a of topic k is, if it was handed over once: nobody wrote it
\* before its handler does, it has one handler, the one its topic is assigned
\* to, and it was not written and then left behind unresolved.
AtMostOnce(k, a) ==
    /\ stored[log[k][a]] \in {0, 1}
    /\ \A w \in Workers : Handled(w, k, a) =>
         /\ worker[w].pc = "handle" => stored[log[k][a]] = 0
         /\ \A v \in Workers : Handled(v, k, a) => v = w
         /\ a <= position[k] + 1
         /\ a = position[k] + 1 => assigned[k] = w[2]
    /\ stored[log[k][a]] > 0 =>
         \/ a <= position[k]
         \/ a = position[k] + 1 /\ \E w \in Workers : Handled(w, k, a)

HandledOnce ==
    \A k \in Kinds : \A a \in 1..Len(log[k]) :
        log[k][a] \notin again => AtMostOnce(k, a)

LEMMA HandledOnceAccept ==
    ASSUME Typed, Logged, Once, HandledOnce, NEW m \in Messages, Accept(m)
    PROVE  HandledOnce'
  <1>1. /\ wire[m] = "sending" /\ kind' = kind /\ kind[m] \in Kinds
        /\ \A k \in Kinds \ {kind[m]} : log'[k] = log[k]
        /\ Len(log'[kind[m]]) = Len(log[kind[m]]) + 1
        /\ log'[kind[m]][Len(log[kind[m]]) + 1] = m
        /\ \A k \in Kinds : /\ Len(log[k]) <= Len(log'[k])
                            /\ \A i \in 1..Len(log[k]) : log'[k][i] = log[k][i]
        /\ again' = again \/ again' = again \cup {m}
        /\ UNCHANGED <<position, assigned, worker, effects>>
    BY AcceptEffect DEF Typed
  <1>2. \A k \in Kinds : Len(log[k]) \in Nat /\ Len(log'[k]) \in Nat
    BY <1>1, LogType
  <1>. SUFFICES ASSUME NEW k \in Kinds, NEW a \in 1..Len(log'[k]), log'[k][a] \notin again'
                PROVE  AtMostOnce(k, a)'
    BY DEF HandledOnce
  <1>0. stored' = stored /\ again \subseteq again'
    BY <1>1 DEF effects
  <1>3. CASE a \in 1..Len(log[k])
    <2>1. log'[k][a] = log[k][a] /\ AtMostOnce(k, a)
      BY <1>0, <1>1, <1>3 DEF HandledOnce
    <2>. QED
      BY <1>0, <1>1, <2>1 DEF AtMostOnce, Handled
  <1>4. CASE ~(a \in 1..Len(log[k]))
    <2>1. k = kind[m] /\ a = Len(log[k]) + 1 /\ log'[k][a] = m
      BY <1>1, <1>2, <1>4
    <2>2. ~InLog(m)
      BY <1>0, <1>1, <2>1 DEF Once
    <2>3. stored'[m] = 0
      BY <1>0, <2>2 DEF Logged, Sent, Typed
    <2>4. \A w \in Workers : ~Handled(w, k, a)
      BY <1>2, <2>1, WorkerType DEF Handled
    <2>5. \A w \in Workers : ~Handled(w, k, a)'
      BY <1>1, <2>4 DEF Handled
    <2>. QED
      BY <2>1, <2>3, <2>5 DEF AtMostOnce
  <1>. QED
    BY <1>3, <1>4

LEMMA HandledOncePoll ==
    ASSUME Typed, HandledOnce, NEW w \in Workers, Poll(w)
    PROVE  HandledOnce'
  <1>. SUFFICES ASSUME NEW k \in Kinds, NEW a \in 1..Len(log[k]), log[k][a] \notin again
                PROVE  AtMostOnce(k, a)'
    BY PollEffect DEF HandledOnce, broker, seen
  <1>1. /\ worker[w].pc = "idle" /\ \A v \in Workers \ {w} : worker'[v] = worker[v]
        /\ worker'[w].pc = "handle" /\ GroupOf(worker'[w].k) = w[1]
        /\ assigned[worker'[w].k] = w[2]
        /\ worker'[w].at = position[worker'[w].k] + 1
        /\ UNCHANGED <<log, assigned, position, stored, again>>
    BY PollEffect DEF broker, effects, seen
  <1>2. AtMostOnce(k, a) /\ stored[log[k][a]] \in Nat /\ position[k] \in Nat
    BY LogType DEF HandledOnce, Typed
  <1>3. CASE worker'[w].k = k /\ worker'[w].at = a
    <2>1. a = position[k] + 1 /\ assigned[k] = w[2] /\ GroupOf(k) = w[1]
      BY <1>1, <1>3
    <2>2. \A v \in Workers : ~Handled(v, k, a)
      <3>. SUFFICES ASSUME NEW v \in Workers, Handled(v, k, a) PROVE FALSE
        OBVIOUS
      <3>1. v[2] = w[2] /\ v[1] = w[1]
        BY <1>2, <2>1, WorkerType DEF AtMostOnce, Handled
      <3>2. v = w
        BY <3>1 DEF Workers
      <3>. QED
        BY <1>1, <3>2 DEF Handled
    <2>3. stored[log[k][a]] = 0
      BY <1>2, <2>1, <2>2 DEF AtMostOnce
    <2>4. \A v \in Workers : Handled(v, k, a)' => v = w
      BY <1>1, <2>2 DEF Handled
    <2>. QED
      BY <1>1, <2>1, <2>3, <2>4 DEF AtMostOnce
  <1>4. CASE ~(worker'[w].k = k /\ worker'[w].at = a)
    <2>1. \A v \in Workers : Handled(v, k, a)' <=> Handled(v, k, a)
      BY <1>1, <1>4 DEF Handled
    <2>2. \A v \in Workers : Handled(v, k, a) => worker'[v] = worker[v]
      BY <1>1 DEF Handled
    <2>. QED
      BY <1>1, <1>2, <2>1, <2>2 DEF AtMostOnce
  <1>. QED
    BY <1>3, <1>4

LEMMA HandledOnceHandling ==
    ASSUME Typed, Logged, Once, HandledOnce, NEW w \in Workers, Handles(w)
    PROVE  HandledOnce'
  <1>. DEFINE m == Current(w)
  <1>1. Handling(w)
    BY HandlingEffect
  <1>2. /\ m \in Messages /\ worker[w].pc \in {"handle", "push", "mail", "dlt"}
        /\ \A n \in Messages \ {m} : stored'[n] = stored[n]
        /\ stored'[m] = stored[m] \/ stored'[m] = stored[m] + 1
        /\ again \subseteq again'
        /\ UNCHANGED <<log, assigned, position>>
        /\ worker'[w].pc = "handle" =>
             /\ worker[w].pc = "handle"
             /\ stored'[m] = stored[m] \/ m \in again'
        /\ stored'[m] # stored[m] => worker[w].pc = "handle"
    BY <1>1 DEF Handling, OnlyOf, broker
  <1>3. PICK pc \in Busy : MovesTo(w, pc)
    BY <1>1 DEF Handling
  <1>4. /\ \A v \in Workers \ {w} : worker'[v] = worker[v]
        /\ worker'[w].pc # "idle" /\ worker[w].pc # "idle"
        /\ worker'[w].k = worker[w].k /\ worker'[w].at = worker[w].at
    BY <1>2, <1>3 DEF MovesTo, Busy
  <1>5. /\ kind[m] = worker[w].k /\ worker[w].k \in Kinds
        /\ worker[w].at \in 1..Len(log[worker[w].k]) /\ m = log[worker[w].k][worker[w].at]
    BY <1>4, WorkerType, CurrentLogged DEF Current
  <1>. HIDE DEF m
  <1>. SUFFICES ASSUME NEW k \in Kinds, NEW a \in 1..Len(log[k]), log[k][a] \notin again'
                PROVE  AtMostOnce(k, a)'
    BY <1>2 DEF HandledOnce
  <1>6. /\ AtMostOnce(k, a) /\ log[k][a] \in Messages /\ stored[log[k][a]] \in Nat
        /\ position[k] \in Nat
    BY <1>2, LogType DEF HandledOnce, Typed
  <1>7. \A v \in Workers : Handled(v, k, a)' <=> Handled(v, k, a)
    BY <1>4 DEF Handled
  <1>8. CASE log[k][a] = m
    <2>1. k = worker[w].k
      BY <1>5, <1>8 DEF Logged, Announced
    <2>2. a = worker[w].at
      BY <1>2, <1>5, <1>8, <2>1 DEF Once
    <2>3. Handled(w, k, a)
      BY <1>4, <2>1, <2>2 DEF Handled
    <2>4. /\ worker[w].pc = "handle" => stored[m] = 0
          /\ \A v \in Workers : Handled(v, k, a) => v = w
          /\ a <= position[k] + 1
          /\ a = position[k] + 1 => assigned[k] = w[2]
          /\ stored[m] \in {0, 1}
      BY <1>6, <1>8, <2>3 DEF AtMostOnce
    <2>5. stored'[m] \in {0, 1} /\ (worker'[w].pc = "handle" => stored'[m] = 0)
      BY <1>2, <1>8, <2>4
    <2>6. a <= position[k] \/ a = position[k] + 1
      BY <1>6, <2>4
    <2>. QED
      BY <1>2, <1>7, <1>8, <2>3, <2>4, <2>5, <2>6 DEF AtMostOnce
  <1>9. CASE log[k][a] # m
    <2>1. \A v \in Workers : Handled(v, k, a) => v # w
      BY <1>5, <1>9 DEF Handled
    <2>2. \A v \in Workers : Handled(v, k, a) => worker'[v] = worker[v]
      BY <1>4, <2>1
    <2>3. stored'[log[k][a]] = stored[log[k][a]]
      BY <1>2, <1>6, <1>9
    <2>. QED
      BY <1>2, <1>6, <1>7, <2>2, <2>3 DEF AtMostOnce
  <1>. QED
    BY <1>8, <1>9

LEMMA HandledOnceAdvance ==
    ASSUME Typed, HandledOnce, NEW w \in Workers, Advance(w)
    PROVE  HandledOnce'
  <1>1. /\ worker[w].pc = "done" /\ worker'[w].pc = "idle"
        /\ \A v \in Workers \ {w} : worker'[v] = worker[v]
        /\ position' \in [Kinds -> Nat]
        /\ \A k \in Kinds \ {worker[w].k} : position'[k] = position[k]
        /\ \/ /\ position'[worker[w].k] = position[worker[w].k]
              /\ ~( /\ worker[w].at = position[worker[w].k] + 1
                    /\ assigned[worker[w].k] = w[2] )
           \/ /\ position'[worker[w].k] = position[worker[w].k] + 1
              /\ worker[w].at = position[worker[w].k] + 1
              /\ assigned[worker[w].k] = w[2]
        /\ UNCHANGED <<log, assigned, stored, again>>
    BY AdvanceEffect DEF effects, seen
  <1>. SUFFICES ASSUME NEW k \in Kinds, NEW a \in 1..Len(log[k]), log[k][a] \notin again
                PROVE  AtMostOnce(k, a)'
    BY <1>1 DEF HandledOnce
  <1>2. AtMostOnce(k, a) /\ position[k] \in Nat /\ position'[k] \in Nat
    BY <1>1, LogType DEF HandledOnce
  <1>3. position'[k] = position[k] \/ position'[k] = position[k] + 1
    BY <1>1
  <1>4. \A v \in Workers : Handled(v, k, a)' => Handled(v, k, a) /\ worker'[v] = worker[v]
    BY <1>1 DEF Handled
  <1>5. stored[log[k][a]] > 0 =>
          \/ a <= position'[k]
          \/ a = position'[k] + 1 /\ \E v \in Workers : Handled(v, k, a)'
    <2>. SUFFICES ASSUME stored[log[k][a]] > 0, ~(a <= position'[k])
                  PROVE  a = position'[k] + 1 /\ \E v \in Workers : Handled(v, k, a)'
      OBVIOUS
    <2>1. a = position[k] + 1 /\ position'[k] = position[k]
      BY <1>2, <1>3 DEF AtMostOnce
    <2>2. PICK v \in Workers : Handled(v, k, a)
      BY <1>2, <2>1 DEF AtMostOnce
    <2>3. assigned[k] = v[2]
      BY <1>2, <2>1, <2>2 DEF AtMostOnce
    <2>4. v # w
      BY <1>1, <1>2, <2>1, <2>2, <2>3 DEF Handled
    <2>5. Handled(v, k, a)'
      BY <1>1, <2>2, <2>4 DEF Handled
    <2>. QED
      BY <2>1, <2>5
  <1>6. ASSUME NEW v \in Workers, Handled(v, k, a)'
        PROVE  /\ worker'[v].pc = "handle" => stored[log[k][a]] = 0
               /\ \A u \in Workers : Handled(u, k, a)' => u = v
               /\ a <= position'[k] + 1
               /\ a = position'[k] + 1 => assigned[k] = v[2]
    <2>1. /\ worker'[v].pc = "handle" => stored[log[k][a]] = 0
          /\ \A u \in Workers : Handled(u, k, a) => u = v
          /\ a <= position[k] + 1
          /\ a = position[k] + 1 => assigned[k] = v[2]
      BY <1>2, <1>4, <1>6 DEF AtMostOnce
    <2>2. a <= position'[k] + 1 /\ (a = position'[k] + 1 => assigned[k] = v[2])
      BY <1>2, <1>3, <2>1
    <2>. QED
      BY <1>4, <2>1, <2>2
  <1>7. stored[log[k][a]] \in {0, 1}
    BY <1>2 DEF AtMostOnce
  <1>. QED
    BY <1>1, <1>5, <1>6, <1>7 DEF AtMostOnce

\* A rewind of ks: no handler of another topic is cut, and whoever reads those
\* of ks again is known to.
LEMMA HandledOnceRewind ==
    ASSUME Typed, HandledOnce, NEW ks \in SUBSET Kinds, Rewind(ks),
           again' = again \cup Repeated(ks),
           \A v \in Workers : worker'[v].pc # "idle" => worker'[v] = worker[v],
           \A v \in Workers :
             /\ worker[v].pc # "idle" /\ worker[v].k \notin ks
             /\ assigned[worker[v].k] = v[2]
             => worker'[v] = worker[v],
           \A k \in Kinds \ ks : assigned'[k] = assigned[k],
           UNCHANGED <<log, stored>>
    PROVE  HandledOnce'
  <1>1. /\ \A k \in Kinds \ ks : position'[k] = position[k]
        /\ position' \in [Kinds -> Nat]
        /\ again \subseteq again'
        /\ \A k \in ks : \A i \in 1..Len(log[k]) :
             position'[k] < i /\ i <= position[k] + 1 => log[k][i] \in again'
    BY RewindEffect, RewoundEffect
  <1>. SUFFICES ASSUME NEW k \in Kinds, NEW a \in 1..Len(log[k]), log[k][a] \notin again'
                PROVE  AtMostOnce(k, a)'
    BY DEF HandledOnce
  <1>2. AtMostOnce(k, a) /\ position[k] \in Nat /\ position'[k] \in Nat
    BY <1>1, LogType DEF HandledOnce
  <1>3. \A v \in Workers : Handled(v, k, a)' => Handled(v, k, a) /\ worker'[v] = worker[v]
    BY DEF Handled
  <1>4. stored[log[k][a]] \in {0, 1}
    BY <1>2 DEF AtMostOnce
  <1>5. ASSUME NEW v \in Workers, Handled(v, k, a)'
        PROVE  /\ worker'[v].pc = "handle" => stored[log[k][a]] = 0
               /\ \A u \in Workers : Handled(u, k, a)' => u = v
               /\ a <= position[k] + 1
               /\ a = position[k] + 1 => assigned[k] = v[2]
    BY <1>2, <1>3, <1>5 DEF AtMostOnce
  <1>6. CASE k \in ks
    <2>1. a <= position'[k] \/ ~(a <= position[k] + 1)
      BY <1>1, <1>2, <1>6
    <2>2. \A v \in Workers : Handled(v, k, a)' => a <= position'[k]
      BY <1>5, <2>1
    <2>3. stored[log[k][a]] > 0 => a <= position'[k]
      BY <1>2, <2>1 DEF AtMostOnce
    <2>4. a <= position'[k] => a <= position'[k] + 1 /\ a # position'[k] + 1
      BY <1>2
    <2>. QED
      BY <1>4, <1>5, <2>2, <2>3, <2>4 DEF AtMostOnce
  <1>7. CASE k \notin ks
    <2>1. position'[k] = position[k] /\ assigned'[k] = assigned[k]
      BY <1>1, <1>7
    <2>2. ASSUME stored[log[k][a]] > 0, ~(a <= position[k])
          PROVE  a = position[k] + 1 /\ \E v \in Workers : Handled(v, k, a)'
      <3>1. PICK v \in Workers : Handled(v, k, a) /\ a = position[k] + 1
        BY <1>2, <2>2 DEF AtMostOnce
      <3>2. assigned[k] = v[2]
        BY <1>2, <3>1 DEF AtMostOnce
      <3>3. Handled(v, k, a)'
        BY <1>7, <3>1, <3>2 DEF Handled
      <3>. QED
        BY <3>1, <3>3
    <2>. QED
      BY <1>4, <1>5, <2>1, <2>2 DEF AtMostOnce
  <1>. QED
    BY <1>6, <1>7

\* A worker that starts again finds its topics where they were left, or later.
LEMMA HandledOnceBoot ==
    ASSUME Typed, Stopped, HandledOnce, NEW w \in Workers, Boot(w)
    PROVE  HandledOnce'
  <1>1. /\ Rewind(TopicsOf(w)) /\ TopicsOf(w) \in SUBSET Kinds /\ w \notin up
        /\ UNCHANGED <<log, assigned, worker, stored, again>>
    BY BootEffect DEF effects
  <1>. SUFFICES ASSUME NEW k \in Kinds, NEW a \in 1..Len(log[k]), log[k][a] \notin again
                PROVE  AtMostOnce(k, a)'
    BY <1>1 DEF HandledOnce
  <1>2. /\ AtMostOnce(k, a) /\ position[k] \in Nat /\ position'[k] \in Nat
        /\ Len(log[k]) \in Nat /\ position[k] <= Len(log[k])
    BY <1>1, LogType, RewindEffect DEF HandledOnce
  <1>3. position[k] <= position'[k]
    <2>1. CASE k \in TopicsOf(w)
      <3>1. position'[k] \in {position[k], Len(log[k])}
        BY <1>1, <2>1, RewindEffect DEF Stopped
      <3>. QED
        BY <1>2, <3>1
    <2>2. CASE k \notin TopicsOf(w)
      BY <1>1, <1>2, <2>2, RewindEffect
    <2>. QED
      BY <2>1, <2>2
  <1>4. \A v \in Workers : Handled(v, k, a)' <=> Handled(v, k, a)
    BY <1>1 DEF Handled
  <1>5. ASSUME NEW v \in Workers, Handled(v, k, a)
        PROVE  /\ a <= position'[k] + 1
               /\ a = position'[k] + 1 => assigned[k] = v[2]
    <2>1. a <= position[k] + 1 /\ (a = position[k] + 1 => assigned[k] = v[2])
      BY <1>2, <1>5 DEF AtMostOnce
    <2>. QED
      BY <1>2, <1>3, <2>1
  <1>6. stored[log[k][a]] > 0 =>
          \/ a <= position'[k]
          \/ a = position'[k] + 1 /\ \E v \in Workers : Handled(v, k, a)
    <2>1. stored[log[k][a]] > 0 =>
            \/ a <= position[k]
            \/ a = position[k] + 1 /\ \E v \in Workers : Handled(v, k, a)
      BY <1>2 DEF AtMostOnce
    <2>2. /\ a <= position[k] => a <= position'[k]
          /\ a = position[k] + 1 => a <= position'[k] \/ a = position'[k] + 1
      BY <1>2, <1>3
    <2>. QED
      BY <2>1, <2>2
  <1>. QED
    BY <1>1, <1>2, <1>4, <1>5, <1>6 DEF AtMostOnce

LEMMA HandledOnceStep ==
    ASSUME Typed, Logged, Stopped, Once, HandledOnce, [Next]_vars
    PROVE  HandledOnce'
  <1>1. ASSUME NEW w \in Workers, Crash(w) PROVE HandledOnce'
    <2>1. /\ TopicsOf(w) \in SUBSET Kinds /\ Rewind(TopicsOf(w)) /\ worker'[w].pc = "idle"
          /\ again' = again \cup Repeated(TopicsOf(w))
          /\ \A v \in Workers \ {w} : worker'[v] = worker[v]
          /\ UNCHANGED <<log, assigned, stored>>
      BY <1>1, CrashEffect DEF effects
    <2>2. \A v \in Workers : worker'[v].pc # "idle" => worker'[v] = worker[v]
      BY <2>1
    <2>3. \A v \in Workers :
            /\ worker[v].pc # "idle" /\ worker[v].k \notin TopicsOf(w)
            /\ assigned[worker[v].k] = v[2]
            => v # w
      BY WorkerType DEF TopicsOf
    <2>4. \A v \in Workers :
            /\ worker[v].pc # "idle" /\ worker[v].k \notin TopicsOf(w)
            /\ assigned[worker[v].k] = v[2]
            => worker'[v] = worker[v]
      BY <2>1, <2>3
    <2>. QED
      BY <2>1, <2>2, <2>4, HandledOnceRewind
  <1>2. ASSUME NEW k \in Kinds, NEW p \in Replicas, Rebalance(k, p) PROVE HandledOnce'
    <2>1. /\ Rewind({k}) /\ again' = again \cup Repeated({k})
          /\ \A j \in Kinds \ {k} : assigned'[j] = assigned[j]
          /\ UNCHANGED <<log, worker, stored>>
      BY <1>2, RebalanceEffect DEF effects
    <2>. QED
      BY <2>1, HandledOnceRewind
  <1>3. ASSUME UNCHANGED <<log, position, assigned, worker, stored, again>>
        PROVE  HandledOnce'
    BY <1>3 DEF HandledOnce, AtMostOnce, Handled
  <1>4. ASSUME NEW m \in Messages, NEW k \in Kinds, Begin(m, k) PROVE HandledOnce'
    <2>1. UNCHANGED <<log, position, assigned, worker, stored, again>>
      BY <1>4 DEF Begin, broker, effects, seen
    <2>. QED
      BY <1>3, <2>1
  <1>5. ASSUME NEW m \in Messages, Emits(m) \/ Commit(m) \/ Undo(m) \/ SendLost(m)
        PROVE  HandledOnce'
    <2>1. UNCHANGED <<log, position, assigned, worker, stored, again>>
      BY <1>5 DEF Emits, Record, Announce, Commit, Undo, SendLost, broker, effects, seen
    <2>. QED
      BY <1>3, <2>1
  <1>6. ASSUME NEW k \in Kinds, CommitOffset(k) PROVE HandledOnce'
    <2>1. UNCHANGED <<log, position, assigned, worker, stored, again>>
      BY <1>6 DEF CommitOffset, effects, seen
    <2>. QED
      BY <1>3, <2>1
  <1>7. ASSUME NEW p \in Replicas, NEW m \in Messages, Publishes(p, m) PROVE HandledOnce'
    <2>1. UNCHANGED <<log, position, assigned, worker, stored, again>>
      BY <1>7, PublishesEffect DEF broker, effects
    <2>. QED
      BY <1>3, <2>1
  <1>8. CASE Aside
    <2>1. UNCHANGED <<log, position, assigned, worker, stored, again>>
      BY <1>8, AsideEffect DEF AsideTyped, broker, effects, seen
    <2>. QED
      BY <1>3, <2>1
  <1>. QED
    BY <1>1, <1>2, <1>4, <1>5, <1>6, <1>7, <1>8, NextCases, HandledOnceAccept,
       HandledOncePoll, HandledOnceHandling, HandledOnceAdvance, HandledOnceBoot

LEMMA HandledOnceAlways == Spec => []HandledOnce
  <1>1. Init => HandledOnce
    <2>1. Init => \A k \in Kinds : Len(log[k]) = 0
      BY EmptySeq DEF Init
    <2>. QED
      BY <2>1 DEF HandledOnce
  <1>2. Typed /\ Logged /\ Stopped /\ Once /\ HandledOnce /\ [Next]_vars => HandledOnce'
    BY HandledOnceStep
  <1>. QED
    BY <1>1, <1>2, TypedAlways, LoggedAlways, StoppedAlways, OnceAlways, PTL DEF Spec

\* A message leaves a second document, row or mail only if its consumer was
\* given it twice, or did not hear that the first was taken: however a handler
\* fails later on, and whatever else crashes or moves meanwhile, withDlt repeats
\* no write that had succeeded.
THEOREM RepeatsExplainedCorrect == Spec => []RepeatsExplained
  <1>1. Typed /\ Logged /\ HandledOnce => RepeatsExplained
    <2>. SUFFICES ASSUME Typed, Logged, HandledOnce, NEW m \in Messages, stored[m] > 1
                  PROVE  m \in again
      BY DEF RepeatsExplained
    <2>1. stored[m] \in Nat /\ kind[m] \in Kinds
      BY DEF Typed
    <2>2. InLog(m)
      BY <2>1 DEF Logged, Sent
    <2>3. PICK i \in 1..Len(log[kind[m]]) : log[kind[m]][i] = m
      BY <2>2 DEF InLog
    <2>. QED
      BY <2>1, <2>3 DEF HandledOnce, AtMostOnce
  <1>. QED
    BY <1>1, TypedAlways, LoggedAlways, HandledOnceAlways, PTL

=============================================================================
