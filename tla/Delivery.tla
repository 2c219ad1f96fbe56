------------------------------ MODULE Delivery ------------------------------
(***************************************************************************)
(* From a change in one service to what other services make of it: the     *)
(* Kafka producer every service shares, the topics, the consumers of       *)
(* audit-service and notification-service with their retries and dead      *)
(* letters, and the event stream a browser tab holds open.                 *)
(*                                                                         *)
(* A message is announced by one change of one service.  Its kind says the *)
(* topic it travels on and what its consumer does with it:                 *)
(*   "audit"   audit.log, indexed as a document by audit-service;          *)
(*   "notify"  notification.send, stored as rows, pushed to the tabs of    *)
(*             the recipient and mailed by notification-service;           *)
(*   "email"   user.invited and auth.password-reset, mailed;               *)
(*   "signal"  user.disabled, user.org-removed and the like, pushed to the *)
(*             tabs of the user and nowhere else.                          *)
(*                                                                         *)
(* Replicas names the processes of a service; worker <<g, p>> is the       *)
(* consumer of service g in its process p.                                 *)
(***************************************************************************)
EXTENDS Integers, Sequences, FiniteSets

CONSTANTS Messages, Replicas, Tabs, MaxFaults, MaxRestarts

Kinds == {"audit", "notify", "email", "signal"}
Groups == {"audit-service", "notification-service"}
Workers == Groups \X Replicas

\* The consumer group that subscribes to the topics of kind k.
GroupOf(k) == IF k = "audit" THEN "audit-service" ELSE "notification-service"

\* What a handler of each kind cannot do without.
Stores == {"elasticsearch", "postgres", "resend", "redis"}
Uses == [audit |-> {"elasticsearch"}, notify |-> {"postgres", "redis"},
         email |-> {"resend"}, signal |-> {"redis"}]

\* Total number of attempts withDlt makes.
Retries == 3

\* No offset was committed for the topic, and a tab without a stream.
None == -1
Closed == "closed"

ASSUME DeliveryAssumption ==
    /\ Replicas # {} /\ Closed \notin Replicas
    /\ MaxFaults \in Nat /\ MaxRestarts \in Nat

VARIABLES
    kind,       \* the kind of each message, chosen when its change begins
    malformed,  \* messages with a payload their consumer does not accept
    change,     \* the change that announces it: none, open, committed, undone
    wire,       \* its producer: unsent, sending, ended
    log,        \* for each kind, the messages of the topic, in broker order
    assigned,   \* the replica that consumes each topic
    position,   \* how many messages of the topic that replica has resolved
    committed,  \* the offset the group committed, or None
    worker,     \* for each worker, the message it handles
    up,         \* the workers whose process has started
    subscribed, \* notification-service's replicas with a subscription at Redis
    down,       \* the stores and providers that are out
    stored,     \* how many documents, rows or mails the message has left
    dead,       \* messages in a dead letter topic
    publishing, \* <<p, m>>: the Redis client of replica p has event m to publish
    inbound,    \* <<p, m>>: Redis has sent event m to the subscriber of p
    pushed,     \* messages whose event Redis took
    tab,        \* the replica each tab streams from, or Closed
    unheard,    \* tabs that stream since the change and were not told of it
    deaf,       \* those of them whose replica was unsubscribed meanwhile
    lost,       \* observation: messages given up, where the code gives them up
    again,      \* observation: messages their consumer was given a second time
    faults,     \* failures so far
    restarts    \* crashes and rebalances so far

vars == <<kind, malformed, change, wire, log, assigned, position, committed,
          worker, up, subscribed, down, stored, dead, publishing, inbound,
          pushed, tab, unheard, deaf, lost, again, faults, restarts>>
producer == <<kind, malformed, change, wire>>
broker == <<log, assigned, position, committed>>
health == <<up, subscribed, down>>
effects == <<stored, dead>>
events == <<publishing, inbound, pushed, unheard, deaf>>
seen == <<lost, again>>
budget == <<faults, restarts>>

Idle == [pc |-> "idle", k |-> "audit", at |-> 0, attempt |-> 0]

\* The message worker w handles.
Current(w) == log[worker[w].k][worker[w].at]

Init ==
    /\ kind = [m \in Messages |-> "audit"]
    /\ malformed = {}
    /\ change = [m \in Messages |-> "none"]
    /\ wire = [m \in Messages |-> "unsent"]
    /\ log = [k \in Kinds |-> <<>>]
    /\ assigned = [k \in Kinds |-> CHOOSE p \in Replicas : TRUE]
    /\ position = [k \in Kinds |-> 0]
    /\ committed = [k \in Kinds |-> None]
    /\ worker = [w \in Workers |-> Idle]
    /\ up = Workers
    /\ subscribed = Replicas
    /\ down = {}
    /\ stored = [m \in Messages |-> 0]
    /\ dead = {}
    /\ publishing = {}
    /\ inbound = {}
    /\ pushed = {}
    /\ tab = [t \in Tabs |-> Closed]
    /\ unheard = [m \in Messages |-> {}]
    /\ deaf = [m \in Messages |-> {}]
    /\ lost = {}
    /\ again = {}
    /\ faults = 0
    /\ restarts = 0

Fault ==
    /\ faults < MaxFaults
    /\ faults' = faults + 1
    /\ UNCHANGED restarts

(***************************************************************************)
(* The producing service.                                                  *)
(***************************************************************************)

\* A handler opens the transaction of the change.  A producer of another
\* version may fill the payload otherwise than the consumer expects.
Begin(m, k) ==
    /\ change[m] = "none"
    /\ change' = [change EXCEPT ![m] = "open"]
    /\ kind' = [kind EXCEPT ![m] = k]
    /\ \/ UNCHANGED <<malformed, budget>>
       \/ Fault /\ malformed' = malformed \cup {m}
    /\ UNCHANGED <<wire, broker, worker, health, effects, events, tab, seen>>

\* emitSafe hands the message to the Kafka client, whoever calls it and when,
\* and does not wait for the broker.
EmitSafe(m) ==
    /\ wire[m] = "unsent"
    /\ wire' = [wire EXCEPT ![m] = "sending"]

\* WorkflowTimelineService.record: saves the timeline row in the transaction
\* of the change and emits the audit message at once.
Record(m) ==
    /\ change[m] = "open" /\ kind[m] = "audit"
    /\ EmitSafe(m)
    /\ UNCHANGED <<kind, malformed, change, broker, worker, health, effects,
                   events, tab, seen, budget>>

\* Every other message is emitted by its handler after the transaction.
Announce(m) ==
    /\ change[m] = "committed"
    /\ EmitSafe(m)
    /\ UNCHANGED <<kind, malformed, change, broker, worker, health, effects,
                   events, tab, seen, budget>>

\* The transaction commits.  The tabs that stream now are the ones the change
\* concerns until they close; some may stream from a replica that has lost its
\* subscription.
Commit(m) ==
    LET concerned == {t \in Tabs : kind[m] \in {"notify", "signal"} /\ tab[t] # Closed}
    IN
    /\ change[m] = "open"
    /\ change' = [change EXCEPT ![m] = "committed"]
    /\ unheard' = [unheard EXCEPT ![m] = concerned]
    /\ deaf' = [deaf EXCEPT ![m] = {t \in concerned : tab[t] \notin subscribed}]
    /\ UNCHANGED <<kind, malformed, wire, broker, worker, health, effects,
                   publishing, inbound, pushed, tab, seen, budget>>

\* The transaction fails: a later statement throws, or its process dies.
Undo(m) ==
    /\ change[m] = "open"
    /\ Fault
    /\ change' = [change EXCEPT ![m] = "undone"]
    /\ wire' = [wire EXCEPT ![m] = IF @ = "unsent" THEN "ended" ELSE @]
    /\ UNCHANGED <<kind, malformed, broker, worker, health, effects, events,
                   tab, seen>>

\* The broker appends the message and the producer hears of it, or does not
\* and its client sends the message once more.
Accept(m) ==
    /\ wire[m] = "sending"
    /\ log' = [log EXCEPT ![kind[m]] = Append(@, m)]
    /\ \/ wire' = [wire EXCEPT ![m] = "ended"] /\ UNCHANGED <<again, budget>>
       \/ Fault /\ again' = again \cup {m} /\ UNCHANGED wire
    /\ UNCHANGED <<kind, malformed, change, assigned, position, committed, worker,
                   health, effects, events, tab, lost>>

\* The producing process dies between the commit and the broker's answer, or
\* the send fails: emitSafe logs it.
SendLost(m) ==
    /\ change[m] \in {"committed", "undone"} /\ wire[m] # "ended"
    /\ Fault
    /\ wire' = [wire EXCEPT ![m] = "ended"]
    /\ lost' = lost \cup {m}
    /\ UNCHANGED <<kind, malformed, change, broker, worker, health, effects,
                   events, tab, again>>

(***************************************************************************)
(* The consuming worker.                                                   *)
(***************************************************************************)

\* eachMessage is called with the next message of an assigned topic.
Poll(w) ==
    /\ w \in up /\ worker[w].pc = "idle"
    /\ \E k \in Kinds :
         /\ GroupOf(k) = w[1] /\ assigned[k] = w[2]
         /\ position[k] < Len(log[k])
         /\ worker' = [worker EXCEPT ![w] =
              [pc |-> "handle", k |-> k, at |-> position[k] + 1, attempt |-> 1]]
    /\ UNCHANGED <<producer, broker, health, effects, events, tab, seen, budget>>

\* A retry that never ends.
FailedForever(w) ==
    worker' = [worker EXCEPT ![w].pc = "handle"]

\* withDlt catches what the handler threw: one more attempt, or the DLT.
Failed(w) ==
    IF worker[w].attempt < Retries
    THEN worker' = [worker EXCEPT ![w].pc = "handle",
                                  ![w].attempt = worker[w].attempt + 1]
    ELSE worker' = [worker EXCEPT ![w].pc = "dlt"]

To(w, pc) == worker' = [worker EXCEPT ![w].pc = pc]

\* The handler of kind k has an acceptable payload before it.
Accepts(w, k) ==
    /\ worker[w].pc = "handle" /\ worker[w].k = k
    /\ Current(w) \notin malformed

\* The handler validates the payload first: what fails is logged and skipped.
Discard(w) ==
    /\ worker[w].pc = "handle" /\ Current(w) \in malformed
    /\ To(w, "done")
    /\ lost' = lost \cup {Current(w)}
    /\ UNCHANGED <<producer, broker, health, effects, events, tab, again, budget>>

\* The store or the mail provider takes what the handler gives it, and
\* answers; or takes it and the answer is lost, which the handler throws on;
\* or is out, which it throws on too.  next is where the handler goes.
Written(w, next) ==
    LET m == Current(w)
        out == Uses[kind[m]] \ {"redis"} \subseteq down
    IN
    \/ /\ ~out
       /\ stored' = [stored EXCEPT ![m] = @ + 1]
       /\ \/ To(w, next) /\ UNCHANGED <<again, budget>>
          \/ Fault /\ again' = again \cup {m} /\ Failed(w)
    \/ /\ out
       /\ Failed(w)
       /\ UNCHANGED <<stored, again, budget>>

\* AuditService.index: a new document, without an id of its own.
Index(w) ==
    /\ Accepts(w, "audit")
    /\ Written(w, "done")
    /\ UNCHANGED <<producer, broker, health, dead, events, tab, lost>>

\* dispatch saves one row for each recipient, in one transaction.
Save(w) ==
    /\ Accepts(w, "notify")
    /\ Written(w, "push")
    /\ UNCHANGED <<producer, broker, health, dead, events, tab, lost>>

\* sendInvitation and sendPasswordReset: a timeout, 429 or 5xx is thrown; any
\* other refusal is logged and the mail dropped.
SendMail(w) ==
    /\ Accepts(w, "email")
    /\ \/ Written(w, "done") /\ UNCHANGED lost
       \/ /\ Fault /\ To(w, "done")
          /\ lost' = lost \cup {Current(w)}
          /\ UNCHANGED <<stored, again>>
    /\ UNCHANGED <<producer, broker, health, dead, events, tab>>

\* SseService.emit, for a stored notification and as the whole handling of a
\* signal: the command goes to the replica's Redis client and nobody waits for
\* its answer.
Push(w) ==
    /\ \/ worker[w].pc = "push" /\ To(w, "mail")
       \/ Accepts(w, "signal") /\ To(w, "done")
    /\ publishing' = publishing \cup {<<w[2], Current(w)>>}
    /\ UNCHANGED <<producer, broker, health, effects, inbound, pushed, unheard,
                   deaf, tab, seen, budget>>

\* Notification mails that are awaited as a whole: one refusal is thrown.
MailOrThrow(w) ==
    /\ worker[w].pc = "mail"
    /\ \/ To(w, "done")
       \/ Failed(w)
    /\ UNCHANGED <<producer, broker, health, effects, events, tab, seen, budget>>

\* dispatch mails the recipients; no failure of a mail reaches the handler.
Mail(w) ==
    /\ worker[w].pc = "mail"
    /\ To(w, "done")
    /\ UNCHANGED <<producer, broker, health, effects, events, tab, seen, budget>>

\* emitToDlt after the last attempt; if that fails the message is gone.
DeadLetter(w) ==
    /\ worker[w].pc = "dlt"
    /\ To(w, "done")
    /\ \/ dead' = dead \cup {Current(w)} /\ UNCHANGED <<lost, budget>>
       \/ Fault /\ lost' = lost \cup {Current(w)} /\ UNCHANGED dead
    /\ UNCHANGED <<producer, broker, health, stored, events, tab, again>>

\* withDlt has returned: the offset is resolved, unless the topic was given to
\* another worker meanwhile.
Advance(w) ==
    LET k == worker[w].k IN
    /\ worker[w].pc = "done"
    /\ position' = [position EXCEPT ![k] =
         IF assigned[k] = w[2] /\ @ + 1 = worker[w].at THEN @ + 1 ELSE @]
    /\ worker' = [worker EXCEPT ![w] = Idle]
    /\ UNCHANGED <<producer, log, assigned, committed, health, effects, events,
                   tab, seen, budget>>

\* Offsets committed when a message is fetched.
CommitFetched(k) ==
    /\ committed' = [committed EXCEPT ![k] =
         IF position[k] < Len(log[k]) THEN position[k] + 1 ELSE position[k]]
    /\ UNCHANGED <<producer, log, assigned, position, worker, health, effects,
                   events, tab, seen, budget>>

\* The consumer's periodic commit of the offsets it resolved.
CommitOffset(k) ==
    /\ <<GroupOf(k), assigned[k]>> \in up
    /\ position[k] > 0 /\ committed[k] # position[k]
    /\ committed' = [committed EXCEPT ![k] = position[k]]
    /\ UNCHANGED <<producer, log, assigned, position, worker, health, effects,
                   events, tab, seen, budget>>

(***************************************************************************)
(* Redis Pub/Sub: every replica of notification-service publishes on one    *)
(* connection and listens on another; Redis stores no event.                *)
(***************************************************************************)

\* The message has yet to be sent, lies in its topic past what was resolved, or
\* waits in a Redis client.
OnItsWay(m) ==
    \/ wire[m] # "ended"
    \/ \E i \in 1..Len(log[kind[m]]) :
         log[kind[m]][i] = m /\ i > position[kind[m]]
    \/ \E p \in Replicas : <<p, m>> \in publishing

\* An event that reaches the publishing replica only.
PublishLocally(p, m) ==
    /\ <<p, m>> \in publishing /\ "redis" \notin down
    /\ publishing' = publishing \ {<<p, m>>}
    /\ inbound' = inbound \cup ((subscribed \cap {p}) \X {m})
    /\ pushed' = pushed \cup {m}
    /\ UNCHANGED <<producer, broker, worker, health, effects, unheard, deaf,
                   tab, seen, budget>>

\* Redis takes the event and sends it to the replicas subscribed at this moment;
\* if the connection breaks before the answer, the client publishes it again.
Publish(p, m) ==
    /\ <<p, m>> \in publishing /\ "redis" \notin down
    /\ \/ publishing' = publishing \ {<<p, m>>} /\ UNCHANGED budget
       \/ Fault /\ UNCHANGED publishing
    /\ inbound' = inbound \cup (subscribed \X {m})
    /\ pushed' = pushed \cup {m}
    /\ UNCHANGED <<producer, broker, worker, health, effects, unheard, deaf,
                   tab, seen>>

\* The client gives the command up after its reconnection attempts, and emit
\* logs it.
PublishFails(p, m) ==
    /\ <<p, m>> \in publishing /\ "redis" \in down
    /\ publishing' = publishing \ {<<p, m>>}
    /\ lost' = lost \cup {m}
    /\ UNCHANGED <<producer, broker, worker, health, effects, inbound, pushed,
                   unheard, deaf, tab, again, budget>>

\* pmessage: the replica pushes the event to the streams it holds.
Pmessage(p, m) ==
    LET elsewhere(ts) == {t \in ts : tab[t] # p} IN
    /\ <<p, m>> \in inbound
    /\ inbound' = inbound \ {<<p, m>>}
    /\ unheard' = [unheard EXCEPT ![m] = elsewhere(@)]
    /\ deaf' = [deaf EXCEPT ![m] = elsewhere(@)]
    /\ UNCHANGED <<producer, broker, worker, health, effects, publishing, pushed,
                   tab, seen, budget>>

\* The subscriptions of replicas ps break, with the events on their way there.
Unsubscribed(ps) ==
    /\ subscribed' = subscribed \ ps
    /\ inbound' = {e \in inbound : e[1] \notin ps}
    /\ deaf' = [m \in Messages |->
                  deaf[m] \cup {t \in unheard[m] : tab[t] \in ps}]

\* The connection a replica listens on breaks.
CutOff(p) ==
    /\ p \in subscribed
    /\ Fault
    /\ Unsubscribed({p})
    /\ UNCHANGED <<producer, broker, worker, up, down, effects, publishing, pushed,
                   unheard, tab, seen>>

\* The client reconnects and subscribes again by itself.
Resubscribe(p) ==
    /\ <<"notification-service", p>> \in up
    /\ p \notin subscribed /\ "redis" \notin down
    /\ subscribed' = subscribed \cup {p}
    /\ UNCHANGED <<producer, broker, worker, up, down, effects, events, tab,
                   seen, budget>>

(***************************************************************************)
(* Restarts, rebalances and outages.                                       *)
(***************************************************************************)

\* Where a worker that is given topic k starts: at the committed offset, or,
\* with fromBeginning FALSE and no offset committed yet, at the end.
Resume(k) == IF committed[k] = None THEN Len(log[k]) ELSE committed[k]

\* The messages of topic k in a range of offsets.
Slice(k, a, b) == {log[k][i] : i \in {j \in a..b : j \in 1..Len(log[k])}}

\* The topics ks are read from where their group resumes.
Rewind(ks) ==
    position' = [k \in Kinds |-> IF k \in ks THEN Resume(k) ELSE position[k]]

\* What a rewind of the topics ks hands out again, and what it passes over.
Repeated(ks) == UNION {Slice(k, Resume(k) + 1, position[k] + 1) : k \in ks}
Skipped(ks) == UNION {Slice(k, position[k] + 1, Resume(k)) :
                      k \in {j \in ks : committed[j] = None}}

TopicsOf(w) == {k \in Kinds : GroupOf(k) = w[1] /\ assigned[k] = w[2]}

Restart ==
    /\ restarts < MaxRestarts
    /\ restarts' = restarts + 1
    /\ UNCHANGED faults

\* The process of worker w dies.  If it is one of notification-service, its
\* streams are cut, and with it goes what its Redis clients had to send or to
\* read.
Crash(w) ==
    LET dies == {p \in Replicas : w = <<"notification-service", p>>}
        dropped == {m \in Messages : \E p \in dies : <<p, m>> \in publishing}
        leftBy(ts) == {t \in ts : tab[t] \notin dies}
    IN
    /\ w \in up
    /\ \E m \in Messages : change[m] # "none" /\ GroupOf(kind[m]) = w[1]
    /\ Restart
    /\ up' = up \ {w}
    /\ worker' = [worker EXCEPT ![w] = Idle]
    /\ Rewind(TopicsOf(w))
    /\ again' = again \cup Repeated(TopicsOf(w))
    /\ subscribed' = subscribed \ dies
    /\ publishing' = {e \in publishing : e[1] \notin dies}
    /\ inbound' = {e \in inbound : e[1] \notin dies}
    /\ tab' = [t \in Tabs |-> IF tab[t] \in dies THEN Closed ELSE tab[t]]
    /\ unheard' = [m \in Messages |-> leftBy(unheard[m])]
    /\ deaf' = [m \in Messages |-> leftBy(deaf[m])]
    /\ UNCHANGED <<producer, log, assigned, committed, down, effects, pushed>>
    /\ lost' = lost \cup Skipped(TopicsOf(w)) \cup {m \in dropped : ~OnItsWay(m)'}

\* The process starts again.  notification-service awaits its subscription
\* before it consumes or serves a stream, so it does not start without Redis.
\* A group without a committed offset begins at the end of its topics.
Boot(w) ==
    /\ w \notin up
    /\ w[1] = "notification-service" => "redis" \notin down
    /\ up' = up \cup {w}
    /\ subscribed' = subscribed \cup {p \in Replicas : w = <<"notification-service", p>>}
    /\ Rewind(TopicsOf(w))
    /\ lost' = lost \cup Skipped(TopicsOf(w))
    /\ UNCHANGED <<producer, log, assigned, committed, worker, down, effects,
                   events, tab, again, budget>>

\* The group moves topic k to another worker, for instance because a handler
\* outlasted the session timeout; the handler goes on all the same.
Rebalance(k, p) ==
    /\ assigned[k] # p /\ log[k] # <<>>
    /\ <<GroupOf(k), p>> \in up
    /\ Restart
    /\ assigned' = [assigned EXCEPT ![k] = p]
    /\ Rewind({k})
    /\ again' = again \cup Repeated({k})
    /\ lost' = lost \cup Skipped({k})
    /\ UNCHANGED <<producer, log, committed, worker, health, effects, events,
                   tab>>

\* Redis goes out and takes every subscription with it; or Elasticsearch, the
\* database or the mail provider does, which only a handler at work can tell.
GoesDown(s) ==
    /\ s \notin down
    /\ down' = down \cup {s}
    /\ \/ /\ s = "redis"
          /\ \E m \in Messages : change[m] # "none" /\ s \in Uses[kind[m]]
          /\ Unsubscribed(Replicas)
       \/ /\ s # "redis"
          /\ \E w \in Workers : worker[w].pc = "handle" /\ s \in Uses[worker[w].k]
          /\ UNCHANGED <<subscribed, inbound, deaf>>
    /\ UNCHANGED <<producer, broker, worker, up, effects, publishing, pushed,
                   unheard, tab, seen, budget>>

ComesUp(s) ==
    /\ s \in down
    /\ down' = down \ {s}
    /\ UNCHANGED <<producer, broker, worker, up, subscribed, effects, events,
                   tab, seen, budget>>

(***************************************************************************)
(* The stream of a browser tab.                                            *)
(***************************************************************************)

\* POST stream/ticket puts a ticket in Redis, GET stream finds it there, and
\* connect registers the stream in the process that serves the request.
Connect(t, p) ==
    /\ tab[t] = Closed /\ "redis" \notin down
    /\ <<"notification-service", p>> \in up
    /\ tab' = [tab EXCEPT ![t] = p]
    /\ UNCHANGED <<producer, broker, worker, health, effects, events, seen, budget>>

\* The request closes and removeClient forgets the stream.
Close(t) ==
    /\ tab[t] # Closed
    /\ tab' = [tab EXCEPT ![t] = Closed]
    /\ unheard' = [m \in Messages |-> unheard[m] \ {t}]
    /\ deaf' = [m \in Messages |-> deaf[m] \ {t}]
    /\ UNCHANGED <<producer, broker, worker, health, effects, publishing, inbound,
                   pushed, seen, budget>>

(***************************************************************************)
(* The specification.                                                      *)
(***************************************************************************)

Work(w) ==
    \/ Boot(w) \/ Poll(w) \/ Discard(w) \/ Index(w) \/ Save(w) \/ SendMail(w)
    \/ Push(w) \/ Mail(w) \/ DeadLetter(w) \/ Advance(w)

Next ==
    \/ \E m \in Messages :
         \/ \E k \in Kinds : Begin(m, k)
         \/ Record(m) \/ Commit(m) \/ Undo(m)
         \/ Announce(m) \/ Accept(m) \/ SendLost(m)
    \/ \E w \in Workers : Work(w) \/ Crash(w)
    \/ \E k \in Kinds :
         \/ CommitOffset(k)
         \/ \E p \in Replicas : Rebalance(k, p)
    \/ \E p \in Replicas :
         \/ CutOff(p) \/ Resubscribe(p)
         \/ \E m \in Messages :
              Publish(p, m) \/ PublishFails(p, m) \/ Pmessage(p, m)
    \/ \E s \in Stores : GoesDown(s) \/ ComesUp(s)
    \/ \E t \in Tabs :
         \/ Close(t)
         \/ \E p \in Replicas : Connect(t, p)

Spec == Init /\ [][Next]_vars

\* A process that died is started again, a running consumer keeps polling and
\* every promise it awaits settles, the network calls by a timeout and the
\* back-off by its timer, and a client of Kafka or Redis sends what it was given
\* or gives it up; nothing is assumed of the changes, the stores, the commits or
\* the tabs.
FairSpec ==
    /\ Spec
    /\ \A m \in Messages : WF_vars(Accept(m) \/ SendLost(m))
    /\ \A w \in Workers : WF_vars(Work(w))
    /\ \A p \in Replicas, m \in Messages :
         WF_vars(Publish(p, m) \/ PublishFails(p, m))

(***************************************************************************)
(* Properties.                                                             *)
(***************************************************************************)

\* Every variable keeps its type, no topic is resolved past its end, and a
\* commit never runs ahead of the log.
TypeOK ==
    /\ kind \in [Messages -> Kinds] /\ malformed \subseteq Messages
    /\ change \in [Messages -> {"none", "open", "committed", "undone"}]
    /\ wire \in [Messages -> {"unsent", "sending", "ended"}]
    /\ \A k \in Kinds :
         /\ \A i \in 1..Len(log[k]) : log[k][i] \in Messages
         /\ position[k] \in 0..Len(log[k])
         /\ committed[k] \in {None} \cup 0..Len(log[k])
    /\ assigned \in [Kinds -> Replicas]
    /\ \A w \in Workers :
         /\ worker[w].pc \in {"idle", "handle", "push", "mail", "dlt", "done"}
         /\ worker[w].pc # "idle" =>
              /\ GroupOf(worker[w].k) = w[1]
              /\ worker[w].at \in 1..Len(log[worker[w].k])
              /\ worker[w].attempt \in 1..Retries
    /\ up \subseteq Workers /\ subscribed \subseteq Replicas /\ down \subseteq Stores
    /\ stored \in [Messages -> Nat]
    /\ dead \subseteq Messages /\ pushed \subseteq Messages
    /\ publishing \subseteq Replicas \X Messages
    /\ inbound \subseteq Replicas \X Messages
    /\ tab \in [Tabs -> Replicas \cup {Closed}]
    /\ unheard \in [Messages -> SUBSET Tabs] /\ deaf \in [Messages -> SUBSET Tabs]
    /\ lost \subseteq Messages /\ again \subseteq Messages
    /\ faults \in 0..MaxFaults /\ restarts \in 0..MaxRestarts

\* The message took effect, or lies where an operator finds it, or was given
\* up at one of the places the code gives messages up.
Settled(m) ==
    \/ stored[m] > 0
    \/ kind[m] = "signal" /\ m \in pushed
    \/ m \in dead
    \/ m \in lost

\* A committed change's message does not vanish: whatever crashes, rebalances
\* and outages happen, it is settled or still on its way.  The excuses are the
\* ones the code has: a producer that dies or whose send fails, a payload its
\* consumer does not accept, a dead letter that cannot be sent, a mail refused
\* for good, an event Redis did not take, an event that waits for Redis in a
\* process that dies, a group that restarts before its first commit.
NothingVanishes ==
    \A m \in Messages : change[m] = "committed" => Settled(m) \/ OnItsWay(m)

\* A message leaves a second document, row or mail only if its consumer was
\* given it twice or did not hear that the first was taken: no failure later
\* in a handler makes withDlt repeat a write that had succeeded.
RepeatsExplained ==
    \A m \in Messages : stored[m] > 1 => m \in again

\* Once nothing of a change is on its way any more, every tab of the user that
\* has streamed since the change was told of it, whichever replicas its message
\* was handled by and the tab streams from, and whatever was retried, read again
\* or committed meanwhile; if the message was not given up and is no dead letter,
\* and the tab's own replica did not go without its subscription.
TabsTold ==
    \A m \in Messages :
        change[m] = "committed" /\ ~OnItsWay(m) =>
            \A t \in unheard[m] :
                \/ m \in dead \cup lost
                \/ t \in deaf[m]
                \/ <<tab[t], m>> \in inbound

\* A message its producer sends is settled in the end: no failure keeps its
\* consumer on it, or before it, for ever.  Without Redis the replicas of
\* notification-service that restart do not come back, so Redis must.
HandledInTheEnd ==
    <>[]("redis" \notin down) =>
        \A m \in Messages : wire[m] = "sending" ~> Settled(m)
=============================================================================
