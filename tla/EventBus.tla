------------------------------ MODULE EventBus ------------------------------
(***************************************************************************)
(* InMemoryEventBus (src/low_altitude_ai/adapters/event_bus/in_memory.py): *)
(* every subscription has a bounded queue and one worker task; publish()   *)
(* puts a message into the queue of each match in turn and waits for room, *)
(* up to a timeout.                                                        *)
(*                                                                         *)
(* All tasks share one asyncio loop, so what runs between two awaits is    *)
(* one step.  wait_for() runs put() in a task of its own (Python 3.11, the *)
(* version the project targets), so the checks of enqueue(), the put and   *)
(* the return to publish() are three steps.  A task that is woken runs     *)
(* later, after whatever else was ready.                                   *)
(***************************************************************************)
EXTENDS Integers, Sequences, Functions

CONSTANTS
  Task,             \* tasks that publish and are not handlers
  Sub,              \* subscription objects
  Topic,            \* topics, each a sequence of words
  Pattern,          \* Sub -> [words, wild]: what it subscribes to
  Group,            \* Sub -> its group
  TruthGroups,      \* InMemoryEventBus._truth_access_groups
  Emits,            \* Sub -> the topics its handler publishes on
  Fallible,         \* subscriptions whose handler may raise of its own
  QueueSize,        \* InMemoryEventBus._queue_size
  MaxPublish        \* bound: publish() calls each caller makes

Caller == Task \cup Sub   \* a handler publishes from its worker task

ASSUME BusAssumption ==
  /\ Task \cap Sub = {}
  /\ QueueSize \in Nat \ {0}
  /\ MaxPublish \in Nat
  /\ Emits \in [Sub -> SUBSET Topic]

VARIABLES
  subscriptions,    \* InMemoryEventBus._subscriptions
  phase,            \* of each subscription: its worker and its close()
  log,              \* every message a subscription accepted, in order
  taken,            \* how many of them its worker has got from the queue
  done,             \* how many of them it has finished: task_done()
  failure,          \* InMemorySubscription._failure: place in "log" of the message
                    \* whose handler raised it, 0 while it is None
  owed,             \* how many it had accepted when close() was called
  call,             \* the publish() each caller is in
  parked,           \* callers waiting in put(), per subscription, in order
  published,        \* publish() calls each caller has made
  acked,            \* messages publish() has acknowledged
  drain,            \* the one drain() call
  shutdown          \* the bus's own close()

subVars == <<subscriptions, phase, failure, owed>>
queueVars == <<log, taken, done>>
callVars == <<call, parked, published, acked>>
vars == <<subVars, queueVars, callVars, drain, shutdown>>

Idle == [at |-> "idle", todo |-> <<>>]
Raised == [at |-> "raised", todo |-> <<>>]   \* the handler sees the error

Unfinished(s) == Len(log[s]) - done[s]
Settled(s) == Unfinished(s) = 0
Empty(s) == taken[s] = Len(log[s])
Full(s) == Len(log[s]) - taken[s] >= QueueSize
Handling(s) == taken[s] > done[s]
Failed(s) == failure[s] # 0
Running(s) == phase[s] \notin {"new", "cancelled", "stopped"}
Rest(q) == SubSeq(q, 2, Len(q))

(* The members S of q in the order of q, as the only element of a set;     *)
(* q has no member twice.                                                  *)
Only(S, q) ==
  {p \in UNION {[1..k -> S] : k \in 0..Len(q)} :
     /\ Range(p) = S
     /\ \A i, j \in DOMAIN p : i < j =>
          \E k, l \in DOMAIN q : k < l /\ q[k] = p[i] /\ q[l] = p[j]}

\* A pattern that ends in ".*" takes every longer topic with its prefix.
TopicMatches(pattern, topic) ==
  IF pattern.wild
  THEN /\ Len(topic) > Len(pattern.words)
       /\ SubSeq(topic, 1, Len(pattern.words)) = pattern.words
  ELSE topic = pattern.words

IsTruth(pattern) ==
  /\ SubSeq(pattern.words, 1, 2) = <<"simulation", "truth">>
  /\ pattern.wild \/ Len(pattern.words) > 2

Init ==
  /\ subscriptions = <<>>
  /\ phase = [s \in Sub |-> "new"]
  /\ log = [s \in Sub |-> <<>>]
  /\ taken = [s \in Sub |-> 0]
  /\ done = [s \in Sub |-> 0]
  /\ failure = [s \in Sub |-> 0]
  /\ owed = [s \in Sub |-> 0]
  /\ call = [x \in Caller |-> Idle]
  /\ parked = [s \in Sub |-> <<>>]
  /\ published = [x \in Caller |-> 0]
  /\ acked = {}
  /\ drain = [at |-> "idle", todo |-> <<>>, round |-> <<>>, owed |-> done]
  /\ shutdown = [at |-> "open", todo |-> <<>>]

-----------------------------------------------------------------------------
(* Subscribing.                                                            *)

Subscribe(s) ==
  /\ shutdown.at # "done"
  /\ phase[s] = "new"
  /\ IsTruth(Pattern[s]) => Group[s] \in TruthGroups
  /\ \A i \in DOMAIN subscriptions :
       LET other == subscriptions[i] IN
       Pattern[other] # Pattern[s] \/ Group[other] # Group[s]
  /\ phase' = [phase EXCEPT ![s] = "open"]
  /\ subscriptions' = Append(subscriptions, s)
  /\ UNCHANGED <<failure, owed, queueVars, callVars, drain, shutdown>>

-----------------------------------------------------------------------------
(* Publishing.                                                             *)

Targets(topic) ==
  {s \in Range(subscriptions) : TopicMatches(Pattern[s], topic)}

\* The checks enqueue() makes before it tries to put.
Refuses(s) == phase[s] # "open" \/ Failed(s)

Raise(x) == call' = [call EXCEPT ![x] = IF x \in Sub THEN Raised ELSE Idle]

\* publish() of m goes on to the targets in todo.
Proceed(x, m, todo) ==
  \/ /\ todo = <<>>
     /\ call' = [call EXCEPT ![x] = Idle]
     /\ acked' = acked \cup {m}
  \/ /\ todo # <<>> /\ Refuses(Head(todo))
     /\ Raise(x)
     /\ UNCHANGED acked
  \/ /\ todo # <<>> /\ ~Refuses(Head(todo))
     /\ call' = [call EXCEPT ![x] = [at |-> "put", msg |-> m, todo |-> todo]]
     /\ UNCHANGED acked

Publish(x, topic) ==
  /\ shutdown.at # "done"
  /\ call[x] = Idle
  /\ x \in Sub => Running(x) /\ Handling(x) /\ topic \in Emits[x]
  /\ published[x] < MaxPublish
  /\ published' = [published EXCEPT ![x] = @ + 1]
  /\ \E todo \in Only(Targets(topic), subscriptions) :
       Proceed(x, [by |-> x, n |-> published[x], to |-> Targets(topic)], todo)
  /\ UNCHANGED <<parked, subVars, queueVars, drain, shutdown>>

\* The bus is closed: EventBusClosedError.  (A task other than a handler
\* sees the error and nothing changes.)
PublishRefused(s) ==
  /\ shutdown.at = "done"
  /\ call[s] = Idle
  /\ Running(s) /\ Handling(s) /\ Emits[s] # {}
  /\ Raise(s)
  /\ UNCHANGED <<parked, published, acked, subVars, queueVars, drain, shutdown>>

\* Mutant: a woken caller takes the place without looking again.
Put_Unchecked(x) ==
  /\ call[x].at \in {"put", "woken"}
  /\ LET s == Head(call[x].todo) IN
     \/ /\ ~Full(s) \/ call[x].at = "woken"
        /\ log' = [log EXCEPT ![s] = Append(@, call[x].msg)]
        /\ call' = [call EXCEPT ![x].at = "accepted"]
        /\ UNCHANGED parked
     \/ /\ Full(s) /\ call[x].at = "put"
        /\ parked' = [parked EXCEPT ![s] = Append(@, x)]
        /\ call' = [call EXCEPT ![x].at = "parked"]
        /\ UNCHANGED log
  /\ UNCHANGED <<taken, done, published, acked, subVars, drain, shutdown>>

\* put() finds room, or waits for its turn at the end of the line.
Put(x) ==
  /\ call[x].at \in {"put", "woken"}
  /\ LET s == Head(call[x].todo) IN
     \/ /\ ~Full(s)
        /\ log' = [log EXCEPT ![s] = Append(@, call[x].msg)]
        /\ call' = [call EXCEPT ![x].at = "accepted"]
        /\ UNCHANGED parked
     \/ /\ Full(s)
        /\ parked' = [parked EXCEPT ![s] = Append(@, x)]
        /\ call' = [call EXCEPT ![x].at = "parked"]
        /\ UNCHANGED log
  /\ UNCHANGED <<taken, done, published, acked, subVars, drain, shutdown>>

\* Mutant: enqueue() is tried again on the target that just accepted.
Resume_Retries(x) ==
  /\ call[x].at = "accepted"
  /\ x \in Sub => Running(x)
  /\ Proceed(x, call[x].msg, call[x].todo)
  /\ UNCHANGED <<parked, published, subVars, queueVars, drain, shutdown>>

\* enqueue() has returned.
Resume(x) ==
  /\ call[x].at = "accepted"
  /\ x \in Sub => Running(x)
  /\ Proceed(x, call[x].msg, Rest(call[x].todo))
  /\ UNCHANGED <<parked, published, subVars, queueVars, drain, shutdown>>

\* Where the calls stand once the first caller parked at s is woken.
WithNextWoken(s, calls) ==
  IF parked[s] = <<>> THEN calls
  ELSE [calls EXCEPT ![Head(parked[s])].at = "woken"]

(* Call x gives up on its put().  One that was woken already hands its     *)
(* turn on, if there is still room.                                        *)
Abandon(x, outcome) ==
  LET s == Head(call[x].todo)
      ended == [call EXCEPT ![x] = outcome]
  IN  IF call[x].at = "woken" /\ ~Full(s)
      THEN /\ call' = WithNextWoken(s, ended)
           /\ parked' = [parked EXCEPT ![s] = Rest(@)]
      ELSE /\ call' = ended
           /\ \E left \in Only(Range(parked[s]) \ {x}, parked[s]) :
                parked' = [parked EXCEPT ![s] = left]

\* Mutant: a full queue drops the message and the publish goes on.
TimeOut_Drops(x) ==
  /\ call[x].at \in {"put", "parked", "woken"}
  /\ Abandon(x, [call[x] EXCEPT !.at = "accepted"])
  /\ UNCHANGED <<published, acked, subVars, queueVars, drain, shutdown>>

\* Mutant: no deadline for a caller that is waiting in line.
TimeOut_NotParked(x) ==
  /\ call[x].at \in {"put", "woken"}
  /\ Abandon(x, IF x \in Sub THEN Raised ELSE Idle)
  /\ UNCHANGED <<published, acked, subVars, queueVars, drain, shutdown>>

\* publish_timeout_s has passed: EventBusFullError.
TimeOut(x) ==
  /\ call[x].at \in {"put", "parked", "woken"}
  /\ Abandon(x, IF x \in Sub THEN Raised ELSE Idle)
  /\ UNCHANGED <<published, acked, subVars, queueVars, drain, shutdown>>

-----------------------------------------------------------------------------
(* The worker of a subscription.                                           *)

Take(s) ==
  /\ Running(s)
  /\ ~Handling(s)
  /\ ~Empty(s)
  /\ taken' = [taken EXCEPT ![s] = @ + 1]
  /\ call' = WithNextWoken(s, call)
  /\ parked' = [parked EXCEPT ![s] = Rest(@)]
  /\ UNCHANGED <<log, done, published, acked, subVars, drain, shutdown>>

\* Mutant: off by one, the last message is not noticed.
TaskDone_OffByOne(s) ==
  LET settled == done[s] = Len(log[s]) IN
  /\ done' = [done EXCEPT ![s] = @ + 1]
  /\ phase' = IF settled /\ phase[s] = "closing"
              THEN [phase EXCEPT ![s] = "woken"] ELSE phase
  /\ drain' = IF settled /\ drain.at = "joining" /\ Head(drain.todo) = s
              THEN [drain EXCEPT !.at = "woken"] ELSE drain

\* Mutant: close() is woken and drain() is forgotten.
TaskDone_OneWaiter(s) ==
  /\ done' = [done EXCEPT ![s] = @ + 1]
  /\ phase' = IF done[s] + 1 = Len(log[s]) /\ phase[s] = "closing"
              THEN [phase EXCEPT ![s] = "woken"] ELSE phase
  /\ UNCHANGED drain

\* The last task_done() wakes whoever waits in join().
TaskDone(s) ==
  LET settled == done[s] + 1 = Len(log[s]) IN
  /\ done' = [done EXCEPT ![s] = @ + 1]
  /\ phase' = IF settled /\ phase[s] = "closing"
              THEN [phase EXCEPT ![s] = "woken"] ELSE phase
  /\ drain' = IF settled /\ drain.at = "joining" /\ Head(drain.todo) = s
              THEN [drain EXCEPT !.at = "woken"] ELSE drain

HandlerReturns(s) ==
  /\ Running(s) /\ Handling(s)
  /\ call[s] = Idle
  /\ TaskDone(s)
  /\ UNCHANGED <<subscriptions, failure, owed, log, taken, callVars, shutdown>>

\* Only the first failure is kept.
HandlerFails(s) ==
  /\ Running(s) /\ Handling(s)
  /\ call[s] = Raised \/ (call[s] = Idle /\ s \in Fallible)
  /\ failure' = [failure EXCEPT ![s] = IF @ = 0 THEN taken[s] ELSE @]
  /\ call' = [call EXCEPT ![s] = Idle]
  /\ TaskDone(s)
  /\ UNCHANGED <<subscriptions, owed, log, taken, parked, published, acked, shutdown>>

-----------------------------------------------------------------------------
(* InMemorySubscription.close(): join the queue, then cancel the worker.   *)

\* Mutant: the worker is cancelled without joining the queue.
StartClose_NoJoin(s) ==
  /\ phase[s] = "open"
  /\ phase' = [phase EXCEPT ![s] = "cancelled"]
  /\ subscriptions' \in Only(Range(subscriptions) \ {s}, subscriptions)
  /\ owed' = [owed EXCEPT ![s] = Len(log[s])]
  /\ UNCHANGED failure

StartClose(s) ==
  /\ phase[s] = "open"
  /\ phase' = [phase EXCEPT ![s] = IF Settled(s) THEN "cancelled" ELSE "closing"]
  /\ subscriptions' \in Only(Range(subscriptions) \ {s}, subscriptions)
  /\ owed' = [owed EXCEPT ![s] = Len(log[s])]
  /\ UNCHANGED failure

Close(s) ==
  /\ StartClose(s)
  /\ UNCHANGED <<queueVars, callVars, drain, shutdown>>

\* close() returns from join(), whatever was put since it was woken.
Cancel(s) ==
  /\ phase[s] = "woken"
  /\ phase' = [phase EXCEPT ![s] = "cancelled"]
  /\ UNCHANGED <<subscriptions, failure, owed, queueVars, callVars, drain, shutdown>>

\* CancelledError ends the worker, and with it a handler it is in.
Stop(s) ==
  /\ phase[s] = "cancelled"
  /\ phase' = [phase EXCEPT ![s] = "stopped"]
  /\ done' = [done EXCEPT ![s] = taken[s]]
  /\ IF call[s].at \in {"put", "parked", "woken"}
     THEN Abandon(s, Idle)
     ELSE call' = [call EXCEPT ![s] = Idle] /\ UNCHANGED parked
  /\ drain' = IF /\ Handling(s) /\ Empty(s)
                 /\ drain.at = "joining" /\ Head(drain.todo) = s
              THEN [drain EXCEPT !.at = "woken"] ELSE drain
  /\ UNCHANGED <<subscriptions, failure, owed, log, taken, published, acked, shutdown>>

-----------------------------------------------------------------------------
(* drain(): join the subscriptions one after the other until, after a      *)
(* round, every queue of the round is empty.                               *)

\* The joins of todo that do not return at once: they have to wait, or raise.
Joins(todo) ==
  {i \in DOMAIN todo : ~Settled(todo[i]) \/ Failed(todo[i])}

\* Where drain() gets to without waiting, in a round over "round".
DrainRound(from, todo, round, again) ==
  LET joins == Joins(todo)
      first == CHOOSE i \in joins : \A j \in joins : i <= j
  IN  IF joins = {}
      THEN IF \A i \in DOMAIN round : Empty(round[i])
           THEN [from EXCEPT !.at = "returned"]
           ELSE again
      ELSE IF Settled(todo[first])
           THEN [from EXCEPT !.at = "raised"]
           ELSE [from EXCEPT !.at = "joining", !.round = round,
                   !.todo = SubSeq(todo, first, Len(todo))]

\* A round that ends with a queue not empty is followed by another, which
\* has to wait for that queue unless its subscription has been removed.
DrainOn(from, todo, round) ==
  drain' = DrainRound(from, todo, round,
             DrainRound(from, subscriptions, subscriptions,
               [from EXCEPT !.at = "returned"]))

StartDrain ==
  /\ drain.at = "idle"
  /\ DrainOn([drain EXCEPT !.owed =
                [s \in Sub |-> IF phase[s] = "open" THEN Len(log[s]) ELSE 0]],
             subscriptions, subscriptions)
  /\ UNCHANGED <<subVars, queueVars, callVars, shutdown>>

\* Mutant: join() does not look at the failure after it has waited.
ResumeDrain_Swallows ==
  /\ drain.at = "woken"
  /\ DrainOn(drain, Rest(drain.todo), drain.round)
  /\ UNCHANGED <<subVars, queueVars, callVars, shutdown>>

\* join() has returned; it raises the failure of its subscription.
ResumeDrain ==
  /\ drain.at = "woken"
  /\ IF Failed(Head(drain.todo))
     THEN drain' = [drain EXCEPT !.at = "raised"]
     ELSE DrainOn(drain, Rest(drain.todo), drain.round)
  /\ UNCHANGED <<subVars, queueVars, callVars, shutdown>>

-----------------------------------------------------------------------------
(* InMemoryEventBus.close(): close what is subscribed now, one by one.  A  *)
(* subscription that somebody else is closing is not waited for.           *)

StartShutdown ==
  /\ shutdown.at = "open"
  /\ shutdown' = [at |-> "next", todo |-> subscriptions]
  /\ UNCHANGED <<subVars, queueVars, callVars, drain>>

ShutdownNext ==
  /\ shutdown.at = "next"
  /\ \/ /\ shutdown.todo = <<>>
        /\ shutdown' = [shutdown EXCEPT !.at = "done"]
        /\ UNCHANGED subVars
     \/ /\ shutdown.todo # <<>>
        /\ phase[Head(shutdown.todo)] # "open"
        /\ shutdown' = [shutdown EXCEPT !.todo = Rest(@)]
        /\ UNCHANGED subVars
     \/ /\ shutdown.todo # <<>>
        /\ StartClose(Head(shutdown.todo))
        /\ shutdown' = [shutdown EXCEPT !.at = "waiting"]
  /\ UNCHANGED <<queueVars, callVars, drain>>

ShutdownWaited ==
  /\ shutdown.at = "waiting"
  /\ phase[Head(shutdown.todo)] = "stopped"
  /\ shutdown' = [at |-> "next", todo |-> Rest(shutdown.todo)]
  /\ UNCHANGED <<subVars, queueVars, callVars, drain>>

-----------------------------------------------------------------------------
Next ==
  \/ \E s \in Sub :
       \/ Subscribe(s) \/ Take(s) \/ HandlerReturns(s) \/ HandlerFails(s)
       \/ PublishRefused(s) \/ Close(s) \/ Cancel(s) \/ Stop(s)
  \/ \E x \in Caller :
       \/ \E t \in Topic : Publish(x, t)
       \/ Put(x) \/ Resume(x) \/ TimeOut(x)
  \/ StartDrain \/ ResumeDrain
  \/ StartShutdown \/ ShutdownNext \/ ShutdownWaited

Spec == Init /\ [][Next]_vars

(* The loop runs every ready task, timers fire, and handlers come to an    *)
(* end: those of the repository do nothing but compute and publish.        *)
Fairness ==
  /\ \A s \in Sub :
       /\ WF_vars(Take(s))
       /\ WF_vars(HandlerReturns(s) \/ HandlerFails(s))
       /\ WF_vars(Cancel(s))
       /\ WF_vars(Stop(s))
  /\ \A x \in Caller : WF_vars(Put(x) \/ TimeOut(x)) /\ WF_vars(Resume(x))
  /\ WF_vars(ResumeDrain)
  /\ WF_vars(ShutdownNext)
  /\ WF_vars(ShutdownWaited)

FairSpec == Spec /\ Fairness

-----------------------------------------------------------------------------
(* Properties.                                                             *)

Message == [by: Caller, n: Nat, to: SUBSET Sub]

PublishCall ==
  [at: {"put", "parked", "woken", "accepted"}, msg: Message, todo: Seq(Sub)]

\* Includes the bound of the queues, which a caller woken for a free place
\* may find taken again, and that a worker is in one handler at most.
TypeOK ==
  /\ subscriptions \in Seq(Sub)
  /\ phase \in [Sub -> {"new", "open", "closing", "woken", "cancelled", "stopped"}]
  /\ log \in [Sub -> Seq(Message)]
  /\ taken \in [Sub -> Nat] /\ done \in [Sub -> Nat] /\ owed \in [Sub -> Nat]
  /\ \A s \in Sub :
       /\ taken[s] \in {done[s], done[s] + 1}
       /\ Len(log[s]) \in taken[s]..(taken[s] + QueueSize)
  /\ failure \in [Sub -> Nat] /\ \A s \in Sub : failure[s] <= done[s]
  /\ call \in [Caller -> {Idle, Raised} \cup PublishCall]
  /\ parked \in [Sub -> Seq(Caller)]
  /\ published \in [Caller -> Nat]
  /\ acked \subseteq Message
  /\ drain \in [at: {"idle", "joining", "woken", "returned", "raised"},
                todo: Seq(Sub), round: Seq(Sub), owed: [Sub -> Nat]]
  /\ shutdown \in [at: {"open", "next", "waiting", "done"}, todo: Seq(Sub)]

(* The bus implements Delivery: whatever was parked, overtaken, woken or   *)
(* abandoned in between, a subscription gets the messages of one publisher *)
(* in the order they were published and none of them twice ("delivery is   *)
(* at-most-once"), and has at most a full queue and one more unfinished.   *)
Abstract ==
  INSTANCE Delivery WITH Publisher <- Caller, Receiver <- Sub,
    Backlog <- QueueSize + 1, accepted <- log, handled <- done

Delivers == Abstract!Spec

(* An acknowledged message was accepted by every subscription that         *)
(* matched when it was published, including any that failed or closed      *)
(* while publish() was waiting for another one.                            *)
AckMeansAccepted ==
  \A m \in acked : \A s \in m.to : m \in Range(log[s])

(* What a subscription had accepted when close() was called is handled     *)
(* before its worker ends, also when the queue fills up again meanwhile.   *)
HandledBeforeStop ==
  \A s \in Sub : phase[s] \in {"cancelled", "stopped"} => done[s] >= owed[s]

(* When drain() returns normally, what its subscriptions had accepted when *)
(* it was called is handled, and no handler has failed on any of it: not   *)
(* before the call, not while another subscription was joined, and not in  *)
(* one that was closed meanwhile.  As only the first failure is kept, one  *)
(* on a later message does not hide one on these.                          *)
DrainCoversEarlierWork ==
  drain.at = "returned" =>
    \A s \in Sub : done[s] >= drain.owed[s] /\ failure[s] \notin 1..drain.owed[s]

(* The documented barrier (drain's docstring, ADR 0002 item 1): when       *)
(* drain() returns, nothing was closed or subscribed and no message of an  *)
(* outside task was accepted since it was called, then no accepted message *)
(* is left unfinished, those published by handlers included.               *)
DrainIsBarrier ==
  [][/\ drain.at # "returned" /\ drain'.at = "returned"
     /\ \A s \in Sub :
          /\ phase[s] = "open" /\ s \in Range(drain.round)
          /\ \A i \in DOMAIN log[s] : log[s][i].by \in Task => i <= drain'.owed[s]
     => \A s \in Sub : Settled(s)]_vars

(* Nobody waits for ever: a publish() comes to an end even if handlers     *)
(* publish to each other's full queues, for want of anything but timeouts. *)
PublishReturns == \A x \in Task : (call[x] # Idle) ~> (call[x] = Idle)

(* close() of a subscription comes to an end, under a stream of puts that  *)
(* were already past its checks, and so does close() of the bus.           *)
CloseReturns ==
  /\ \A s \in Sub : (phase[s] = "closing") ~> (phase[s] = "stopped")
  /\ (shutdown.at = "next") ~> (shutdown.at = "done")

(* drain() comes to an end, unless a subscription is closed under it.      *)
DrainReturns ==
  (drain.at = "joining") ~>
    \/ drain.at \in {"returned", "raised"}
    \/ \E s \in Sub : phase[s] \notin {"new", "open"}
=============================================================================
