--------------------------- MODULE EventBusProofs ---------------------------
(***************************************************************************)
(* Proofs about the event bus, for any tasks, subscriptions, topics,       *)
(* patterns, queue sizes and numbers of messages.                          *)
(***************************************************************************)
EXTENDS EventBus, TLAPS, SequenceTheorems, WellFoundedInduction

At == {"put", "parked", "woken", "accepted"}
Phase == {"new", "open", "closing", "woken", "cancelled", "stopped"}

(* A subscription is in the list once, and only while it is open.          *)
SubscriptionsInv ==
  /\ phase \in [Sub -> Phase]
  /\ subscriptions \in Seq(Sub) /\ IsInjective(subscriptions)
  /\ \A s \in Range(subscriptions) : phase[s] = "open"

\* close() of the bus works on a copy of the list.
ShutdownInv ==
  shutdown \in [at: {"open", "next", "waiting", "done"}, todo: Seq(Sub)]

(* What a worker has got, finished and owes.                               *)
QueuesInv ==
  /\ log \in [Sub -> Seq(Message)]
  /\ taken \in [Sub -> Nat] /\ done \in [Sub -> Nat] /\ owed \in [Sub -> Nat]
  /\ \A s \in Sub :
       /\ taken[s] \in {done[s], done[s] + 1}
       /\ taken[s] <= Len(log[s]) /\ Len(log[s]) <= taken[s] + QueueSize
       /\ owed[s] <= Len(log[s])
       /\ phase[s] \in {"woken", "cancelled", "stopped"} => owed[s] <= done[s]

(* A caller stands in one line at most, that of the target it has come to. *)
LinesInv ==
  /\ parked \in [Sub -> Seq(Caller)]
  /\ \A s \in Sub :
       /\ IsInjective(parked[s])
       /\ \A x \in Range(parked[s]) :
            /\ call[x] \in PublishCall /\ call[x].at = "parked"
            /\ Head(call[x].todo) = s

\* The targets that a publish() has still to put its message to.
Pending(c) == {c.todo[i] : i \in {j \in DOMAIN c.todo : c.at = "accepted" => j > 1}}

(* What publish() of caller x has done and not done: its message is at     *)
(* every target behind it and newer than all of x's at those before it.    *)
CallSound(x) ==
  LET c == call[x]
      m == call[x].msg
  IN  /\ c.todo # <<>> /\ IsInjective(c.todo) /\ Range(c.todo) \subseteq m.to
      /\ m.by = x /\ m.n < published[x]
      /\ \A s \in m.to \ Pending(c) : m \in Range(log[s])
      /\ \A s \in Pending(c) : \A e \in Range(log[s]) : e.by = x => e.n < m.n

CallsInv ==
  /\ published \in [Caller -> Nat]
  /\ call \in [Caller -> {Idle, Raised} \cup PublishCall]
  /\ \A x \in Caller : call[x] \in PublishCall => CallSound(x)
  /\ \A s \in Sub : \A e \in Range(log[s]) : e.n < published[e.by]

AcksInv == acked \subseteq Message /\ AckMeansAccepted

BusInv ==
  SubscriptionsInv /\ ShutdownInv /\ QueuesInv /\ LinesInv /\ CallsInv /\ AcksInv

-----------------------------------------------------------------------------
(* Sequences without repetitions.                                          *)

\* Only() keeps order and adds nothing, so nothing is repeated either.
LEMMA OnlyIsOrdered ==
  ASSUME NEW T, NEW S \in SUBSET T, NEW q \in Seq(T), IsInjective(q),
         NEW p \in Only(S, q)
  PROVE  p \in Seq(T) /\ Range(p) = S /\ IsInjective(p)
<1>1. PICK k \in 0..Len(q) : p \in [1..k -> S]
  BY DEF Only
<1>2. p \in Seq(T) /\ DOMAIN p = 1..k
  BY <1>1, IsASeq
<1>3. ASSUME NEW i \in DOMAIN p, NEW j \in DOMAIN p, i < j
      PROVE  p[i] # p[j]
  BY <1>3 DEF Only, IsInjective
<1>4. \A i, j \in DOMAIN p : p[i] = p[j] => i = j
  BY <1>2, <1>3
<1>5. QED
  BY <1>2, <1>4 DEF Only, IsInjective

\* What is left of a sequence without its head.
LEMMA RestIsASeq ==
  ASSUME NEW T, NEW q \in Seq(T), q # <<>>
  PROVE  /\ Head(q) \in T /\ Rest(q) \in Seq(T) /\ Len(Rest(q)) = Len(q) - 1
         /\ \A i \in 1..(Len(q) - 1) : Rest(q)[i] = q[i + 1]
<1>1. /\ Len(q) \in Nat /\ Len(q) > 0 /\ Head(q) = q[1]
      /\ \A i \in 1..Len(q) : q[i] \in T
  OBVIOUS
<1>2. /\ Rest(q) \in Seq(T) /\ Len(Rest(q)) = Len(q) - 2 + 1
      /\ \A i \in 1..(Len(q) - 2 + 1) : Rest(q)[i] = q[2 + i - 1]
  <2>1. \A i \in 2..Len(q) : q[i] \in T
    BY <1>1
  <2>2. /\ Rest(q) \in Seq(T)
        /\ Len(Rest(q)) = IF 2 <= Len(q) THEN Len(q) - 2 + 1 ELSE 0
        /\ \A i \in 1..(Len(q) - 2 + 1) : Rest(q)[i] = q[2 + i - 1]
    BY <1>1, <2>1, SubSeqProperties DEF Rest
  <2>3. \A n \in Nat : n > 0 => (IF 2 <= n THEN n - 2 + 1 ELSE 0) = n - 2 + 1
    OBVIOUS
  <2>4. QED
    BY <1>1, <2>2, <2>3
<1>3. QED
  BY <1>1, <1>2

\* Without a repetition the head is gone for good.
LEMMA RestDropsHead ==
  ASSUME NEW T, NEW q \in Seq(T), q # <<>>, IsInjective(q)
  PROVE  /\ Head(q) \in T /\ Head(q) \in Range(q)
         /\ Rest(q) \in Seq(T) /\ IsInjective(Rest(q))
         /\ Range(Rest(q)) = Range(q) \ {Head(q)}
<1>1. /\ Len(q) \in Nat /\ Len(q) > 0 /\ DOMAIN q = 1..Len(q)
      /\ \A i \in 1..Len(q) : q[i] \in T
      /\ Head(q) = q[1]
  OBVIOUS
<1>2. /\ Rest(q) \in Seq(T) /\ Len(Rest(q)) = Len(q) - 1
      /\ \A i \in 1..(Len(q) - 1) : Rest(q)[i] = q[i + 1]
  BY RestIsASeq
<1>3. DOMAIN Rest(q) = 1..(Len(q) - 1)
  BY <1>1, <1>2
<1>4. IsInjective(Rest(q))
  BY <1>1, <1>2, <1>3, SMTT(30) DEF IsInjective
<1>5. \A e \in Range(q) \ {Head(q)} : e \in Range(Rest(q))
  <2> TAKE e \in Range(q) \ {Head(q)}
  <2>1. PICK i \in 1..Len(q) : e = q[i] /\ i # 1
    BY <1>1 DEF Range
  <2>2. i - 1 \in 1..(Len(q) - 1) /\ Rest(q)[i - 1] = e
    BY <1>1, <1>2, <2>1
  <2>3. QED
    BY <1>3, <2>2 DEF Range
<1>6. \A e \in Range(Rest(q)) : e \in Range(q) \ {Head(q)}
  <2> TAKE e \in Range(Rest(q))
  <2>1. PICK i \in 1..(Len(q) - 1) : e = q[i + 1]
    BY <1>2, <1>3 DEF Range
  <2>2. i + 1 \in 1..Len(q) /\ i + 1 # 1
    BY <1>1, <2>1
  <2>3. QED
    BY <1>1, <2>1, <2>2 DEF Range, IsInjective
<1>7. Head(q) \in T /\ Head(q) \in Range(q)
  BY <1>1 DEF Range
<1>8. QED
  BY <1>2, <1>4, <1>5, <1>6, <1>7

\* An element is appended to a sequence it is not in.
LEMMA AppendOne ==
  ASSUME NEW T, NEW q \in Seq(T), NEW e \in T
  PROVE  /\ Append(q, e) \in Seq(T) /\ Len(Append(q, e)) = Len(q) + 1
         /\ Append(q, e)[Len(q) + 1] = e
         /\ Range(Append(q, e)) = Range(q) \cup {e}
         /\ IsInjective(q) /\ e \notin Range(q) => IsInjective(Append(q, e))
<1>1. /\ Len(q) \in Nat /\ DOMAIN q = 1..Len(q)
      /\ Append(q, e) \in Seq(T) /\ DOMAIN Append(q, e) = 1..(Len(q) + 1)
      /\ Len(Append(q, e)) = Len(q) + 1
      /\ Append(q, e)[Len(q) + 1] = e
      /\ \A i \in 1..Len(q) : Append(q, e)[i] = q[i]
  BY AppendProperties
<1>2. Range(Append(q, e)) = Range(q) \cup {e}
  BY <1>1 DEF Range
<1>3. ASSUME IsInjective(q), e \notin Range(q) PROVE IsInjective(Append(q, e))
  BY <1>1, <1>3 DEF IsInjective, Range
<1>4. QED
  BY <1>1, <1>2, <1>3

-----------------------------------------------------------------------------
(* Calls.                                                                  *)

\* A caller that is idle or sees an error is in no publish().
LEMMA NotPublishing == Idle \notin PublishCall /\ Raised \notin PublishCall
BY DEF Idle, Raised, PublishCall

\* A publish() that moves on keeps its message and its targets.
LEMMA AtMoves ==
  ASSUME NEW c \in PublishCall, NEW a \in At
  PROVE  /\ [c EXCEPT !.at = a] \in PublishCall
         /\ [c EXCEPT !.at = a].at = a
         /\ [c EXCEPT !.at = a].msg = c.msg
         /\ [c EXCEPT !.at = a].todo = c.todo
BY DEF PublishCall, At

-----------------------------------------------------------------------------
(* The list of subscriptions.                                              *)

\* close() takes a subscription off the list that it was on once.
LEMMA StartCloseUnlists ==
  ASSUME BusInv, NEW s \in Sub, StartClose(s)
  PROVE  SubscriptionsInv'
<1>1. /\ subscriptions \in Seq(Sub) /\ IsInjective(subscriptions)
      /\ Range(subscriptions) \ {s} \in SUBSET Sub
  BY DEF BusInv, SubscriptionsInv, Range
<1>2. subscriptions' \in Only(Range(subscriptions) \ {s}, subscriptions)
  BY DEF StartClose
<1>3. /\ subscriptions' \in Seq(Sub) /\ IsInjective(subscriptions')
      /\ Range(subscriptions') = Range(subscriptions) \ {s}
  BY <1>1, <1>2, OnlyIsOrdered
<1>4. phase' \in [Sub -> Phase] /\ \A r \in Sub \ {s} : phase'[r] = phase[r]
  BY DEF BusInv, SubscriptionsInv, StartClose, Phase
<1>5. QED
  BY <1>1, <1>3, <1>4 DEF BusInv, SubscriptionsInv

\* A step adds an open subscription at most, and only closes listed ones.
LEMMA SubscriptionsKept == BusInv /\ [Next]_vars => SubscriptionsInv'
<1> SUFFICES ASSUME BusInv, [Next]_vars PROVE SubscriptionsInv'
  OBVIOUS
<1>1. ASSUME NEW s \in Sub, Subscribe(s) PROVE SubscriptionsInv'
  <2>1. /\ s \notin Range(subscriptions)
        /\ phase' \in [Sub -> Phase] /\ phase'[s] = "open"
        /\ \A r \in Sub \ {s} : phase'[r] = phase[r]
        /\ subscriptions' = Append(subscriptions, s)
    BY <1>1 DEF Subscribe, BusInv, SubscriptionsInv, Phase
  <2>2. /\ subscriptions \in Seq(Sub) /\ IsInjective(subscriptions)
        /\ Range(subscriptions) \subseteq Sub
    BY DEF BusInv, SubscriptionsInv, Range
  <2>3. /\ subscriptions' \in Seq(Sub) /\ IsInjective(subscriptions')
        /\ Range(subscriptions') = Range(subscriptions) \cup {s}
    BY <2>1, <2>2, AppendOne
  <2>4. QED
    BY <2>1, <2>2, <2>3 DEF BusInv, SubscriptionsInv
<1>2. ASSUME NEW s \in Sub, Close(s) \/ StartClose(s) PROVE SubscriptionsInv'
  BY <1>2, StartCloseUnlists DEF Close
<1>3. ASSUME NEW s \in Sub, TaskDone(s), UNCHANGED subscriptions
      PROVE  SubscriptionsInv'
  <2>1. /\ phase' \in [Sub -> Phase]
        /\ \A r \in Sub : phase[r] = "open" => phase'[r] = "open"
    BY <1>3 DEF TaskDone, BusInv, SubscriptionsInv, Phase
  <2>2. Range(subscriptions) \subseteq Sub
    BY DEF BusInv, SubscriptionsInv, Range
  <2>3. QED
    BY <1>3, <2>1, <2>2 DEF BusInv, SubscriptionsInv
<1>4. ASSUME NEW s \in Sub, Cancel(s) \/ Stop(s) PROVE SubscriptionsInv'
  <2>1. /\ phase' \in [Sub -> Phase] /\ subscriptions' = subscriptions
        /\ \A r \in Sub : phase[r] = "open" => phase'[r] = "open"
    BY <1>4 DEF Cancel, Stop, BusInv, SubscriptionsInv, Phase
  <2>2. Range(subscriptions) \subseteq Sub
    BY DEF BusInv, SubscriptionsInv, Range
  <2>3. QED
    BY <2>1, <2>2 DEF BusInv, SubscriptionsInv
<1>5. CASE UNCHANGED <<subscriptions, phase>>
  BY <1>5 DEF BusInv, SubscriptionsInv
<1>6. ASSUME NEW s \in Sub, HandlerReturns(s) \/ HandlerFails(s)
      PROVE  SubscriptionsInv'
  BY <1>3, <1>6 DEF HandlerReturns, HandlerFails
<1>7. ASSUME NEW s \in Sub, Take(s) \/ PublishRefused(s)
      PROVE  SubscriptionsInv'
  BY <1>5, <1>7 DEF Take, PublishRefused, subVars
<1>8. ASSUME NEW x \in Caller,
             (\E t \in Topic : Publish(x, t)) \/ Put(x) \/ Resume(x) \/ TimeOut(x)
      PROVE  SubscriptionsInv'
  BY <1>5, <1>8 DEF Publish, Put, Resume, TimeOut, subVars
<1>9. CASE StartDrain \/ ResumeDrain \/ StartShutdown \/ ShutdownWaited
  BY <1>5, <1>9 DEF StartDrain, ResumeDrain, StartShutdown, ShutdownWaited, subVars
<1>10. CASE ShutdownNext
  <2>1. shutdown.todo # <<>> => Head(shutdown.todo) \in Sub
    BY RestIsASeq DEF BusInv, ShutdownInv
  <2>2. QED
    BY <1>2, <1>5, <1>10, <2>1 DEF ShutdownNext, subVars
<1>11. CASE UNCHANGED vars
  BY <1>5, <1>11 DEF vars, subVars
<1>12. QED
  BY <1>1, <1>2, <1>4, <1>6, <1>7, <1>8, <1>9, <1>10, <1>11 DEF Next

\* close() of the bus only takes heads off its copy.
LEMMA ShutdownKept == BusInv /\ [Next]_vars => ShutdownInv'
<1> SUFFICES ASSUME BusInv, [Next]_vars PROVE ShutdownInv'
  OBVIOUS
<1> USE DEF ShutdownInv
<1>1. subscriptions \in Seq(Sub) /\ ShutdownInv
  BY DEF BusInv, SubscriptionsInv
<1>2. CASE StartShutdown
  BY <1>1, <1>2 DEF StartShutdown
<1>3. CASE ShutdownNext \/ ShutdownWaited
  <2>1. shutdown.todo # <<>> => Rest(shutdown.todo) \in Seq(Sub)
    BY <1>1, RestIsASeq
  <2>2. shutdown.todo = <<>> => Rest(shutdown.todo) = <<>>
    BY SubSeqEmpty DEF Rest
  <2>3. QED
    BY <1>1, <1>3, <2>1, <2>2 DEF ShutdownNext, ShutdownWaited
<1>4. CASE UNCHANGED shutdown
  BY <1>1, <1>4
<1>5. QED
  BY <1>2, <1>3, <1>4
     DEF Next, vars, Subscribe, Take, HandlerReturns, HandlerFails, PublishRefused,
         Close, Cancel, Stop, Publish, Put, Resume, TimeOut, StartDrain, ResumeDrain

-----------------------------------------------------------------------------
(* The queues and their workers.                                           *)

\* What may be in a call: a message that is put is one.
LEMMA PuttingIsTyped ==
  ASSUME BusInv, NEW x \in Caller, call[x].at \in At
  PROVE  /\ call[x] \in PublishCall /\ CallSound(x)
         /\ call[x].msg \in Message /\ call[x].todo \in Seq(Sub)
         /\ Head(call[x].todo) \in Sub
<1>1. call[x] \in {Idle, Raised} \cup PublishCall
  BY DEF BusInv, CallsInv
<1>2. call[x] \in PublishCall
  BY <1>1 DEF Idle, Raised, At
<1>3. CallSound(x)
  BY <1>2 DEF BusInv, CallsInv
<1>4. call[x].msg \in Message /\ call[x].todo \in Seq(Sub)
  BY <1>2 DEF PublishCall
<1>5. QED
  BY <1>2, <1>3, <1>4, RestIsASeq DEF CallSound

(* A worker takes and finishes one message after the other; close() counts *)
(* what there is, and is woken only once all of it is finished.            *)
LEMMA QueuesKept == BusInv /\ [Next]_vars => QueuesInv'
<1> SUFFICES ASSUME BusInv, [Next]_vars PROVE QueuesInv'
  OBVIOUS
<1>1. QueuesInv /\ phase \in [Sub -> Phase]
  BY DEF BusInv, SubscriptionsInv
<1>2. \A s \in Sub : Len(log[s]) \in Nat
  BY <1>1 DEF QueuesInv
<1>3. ASSUME NEW s \in Sub, Subscribe(s) PROVE QueuesInv'
  BY <1>1, <1>3 DEF Subscribe, QueuesInv, queueVars
<1>4. ASSUME NEW x \in Caller, Put(x) PROVE QueuesInv'
  <2> DEFINE s == Head(call[x].todo)
  <2>1. call[x].msg \in Message /\ s \in Sub
    BY <1>4, PuttingIsTyped DEF Put, At
  <2>2. CASE ~Full(s) /\ log' = [log EXCEPT ![s] = Append(@, call[x].msg)]
    <3>1. /\ log' \in [Sub -> Seq(Message)] /\ Len(log'[s]) = Len(log[s]) + 1
          /\ \A r \in Sub \ {s} : log'[r] = log[r]
      BY <1>1, <2>1, <2>2 DEF QueuesInv
    <3>2. Len(log[s]) - taken[s] < QueueSize
      BY <1>1, <1>2, <2>1, <2>2, BusAssumption DEF Full, QueuesInv
    <3>3. UNCHANGED <<taken, done, owed, phase>>
      BY <1>4 DEF Put, subVars
    <3>4. ASSUME NEW r \in Sub
          PROVE  /\ taken[r] <= Len(log'[r]) /\ Len(log'[r]) <= taken[r] + QueueSize
                 /\ owed[r] <= Len(log'[r])
      <4>1. /\ taken[r] \in Nat /\ owed[r] \in Nat /\ QueueSize \in Nat
            /\ Len(log[r]) \in Nat
            /\ taken[r] <= Len(log[r]) /\ Len(log[r]) <= taken[r] + QueueSize
            /\ owed[r] <= Len(log[r])
        BY <1>1, <1>2, BusAssumption DEF QueuesInv
      <4>2. CASE r = s
        <5>1. /\ Len(log'[r]) = Len(log[r]) + 1
              /\ Len(log[r]) - taken[r] < QueueSize
          BY <3>1, <3>2, <4>2
        <5>2. QED
          BY <4>1, <5>1
      <4>3. CASE r # s
        BY <3>1, <4>1, <4>3
      <4>4. QED
        BY <4>2, <4>3
    <3>5. QED
      BY <1>1, <3>1, <3>3, <3>4 DEF QueuesInv
  <2>3. CASE UNCHANGED log
    BY <1>1, <1>4, <2>3 DEF Put, QueuesInv, subVars
  <2>4. QED
    BY <1>4, <2>2, <2>3 DEF Put
<1>5. ASSUME NEW s \in Sub, Take(s) PROVE QueuesInv'
  BY <1>1, <1>2, <1>5, BusAssumption DEF Take, QueuesInv, Handling, Empty, subVars
<1>6. ASSUME NEW s \in Sub, TaskDone(s), Handling(s), UNCHANGED <<log, taken, owed>>
      PROVE  QueuesInv'
  BY <1>1, <1>2, <1>6 DEF TaskDone, QueuesInv, Handling, Phase
<1>7. ASSUME NEW s \in Sub, StartClose(s), UNCHANGED queueVars PROVE QueuesInv'
  <2>1. Settled(s) => done[s] = Len(log[s])
    BY <1>1, <1>2 DEF Settled, Unfinished, QueuesInv
  <2>2. QED
    BY <1>1, <1>2, <1>7, <2>1 DEF StartClose, QueuesInv, queueVars
<1>8. ASSUME NEW s \in Sub, Cancel(s) \/ Stop(s) PROVE QueuesInv'
  <2>1. CASE Cancel(s)
    BY <1>1, <2>1 DEF Cancel, QueuesInv, queueVars
  <2>2. CASE Stop(s)
    <3>1. /\ done' = [done EXCEPT ![s] = taken[s]]
          /\ phase' = [phase EXCEPT ![s] = "stopped"] /\ phase[s] = "cancelled"
          /\ UNCHANGED <<log, taken, owed>>
      BY <2>2 DEF Stop
    <3>2. QED
      BY <1>1, <1>2, <3>1 DEF QueuesInv
  <2>3. QED
    BY <1>8, <2>1, <2>2
<1>9. CASE UNCHANGED <<queueVars, owed, phase>>
  BY <1>1, <1>9 DEF QueuesInv, queueVars
<1>10. ASSUME NEW s \in Sub, HandlerReturns(s) \/ HandlerFails(s) PROVE QueuesInv'
  BY <1>6, <1>10 DEF HandlerReturns, HandlerFails
<1>11. ASSUME NEW s \in Sub, Close(s) PROVE QueuesInv'
  BY <1>7, <1>11 DEF Close
<1>12. CASE ShutdownNext
  <2>1. shutdown.todo # <<>> => Head(shutdown.todo) \in Sub
    BY RestIsASeq DEF BusInv, ShutdownInv
  <2>2. QED
    BY <1>7, <1>9, <1>12, <2>1 DEF ShutdownNext, subVars
<1>13. ASSUME NEW x \in Caller, (\E t \in Topic : Publish(x, t)) \/ Resume(x) \/ TimeOut(x)
       PROVE  QueuesInv'
  BY <1>9, <1>13 DEF Publish, Resume, TimeOut, subVars
<1>14. CASE \/ \E s \in Sub : PublishRefused(s)
            \/ StartDrain \/ ResumeDrain \/ StartShutdown \/ ShutdownWaited
            \/ UNCHANGED vars
  BY <1>9, <1>14 DEF vars, PublishRefused, StartDrain, ResumeDrain, StartShutdown,
                     ShutdownWaited, subVars
<1>15. QED
  BY <1>3, <1>4, <1>5, <1>8, <1>10, <1>11, <1>12, <1>13, <1>14 DEF Next

-----------------------------------------------------------------------------
(* Callers, their lines and their messages.                                *)

PublishingInv == LinesInv /\ CallsInv /\ AcksInv

\* Nobody new stands in a line, and who still does has not moved.
LEMMA LinesStay ==
  ASSUME BusInv, parked' \in [Sub -> Seq(Caller)],
         \A s \in Sub :
           /\ IsInjective(parked'[s]) /\ Range(parked'[s]) \subseteq Range(parked[s])
           /\ \A y \in Range(parked'[s]) : call'[y] = call[y]
  PROVE  LinesInv'
BY DEF BusInv, LinesInv

\* What is accepted stays accepted.
LEMMA AcksStay ==
  ASSUME BusInv, UNCHANGED acked,
         \A s \in Sub : Range(log[s]) \subseteq Range(log'[s])
  PROVE  AcksInv'
BY DEF BusInv, AcksInv, AckMeansAccepted, Message

(* A publish() that does not get past a target is as sound as before, if   *)
(* only others put messages meanwhile.                                     *)
LEMMA CallStays ==
  ASSUME BusInv, NEW x \in Caller, call[x] \in PublishCall,
         call'[x].msg = call[x].msg, call'[x].todo = call[x].todo,
         call'[x].at = "accepted" <=> call[x].at = "accepted",
         published'[x] = published[x],
         \A s \in Sub :
           /\ Range(log[s]) \subseteq Range(log'[s])
           /\ \A e \in Range(log'[s]) : e.by = x => e \in Range(log[s])
  PROVE  CallSound(x)'
<1>1. CallSound(x) /\ call[x].msg.to \subseteq Sub /\ call[x].todo \in Seq(Sub)
  BY DEF BusInv, CallsInv, PublishCall, Message
<1>2. Pending(call'[x]) = Pending(call[x]) /\ Pending(call[x]) \subseteq Sub
  BY <1>1 DEF Pending
<1>3. QED
  BY <1>1, <1>2 DEF CallSound

\* The calls after a step that only moves callers within their lines.
LEMMA CallsStay ==
  ASSUME BusInv, UNCHANGED <<log, published>>,
         call' \in [Caller -> {Idle, Raised} \cup PublishCall],
         \A y \in Caller :
           \/ call'[y] \in {Idle, Raised}
           \/ call'[y] = call[y]
           \/ /\ call[y] \in PublishCall /\ call[y].at = "parked"
              /\ call'[y] = [call[y] EXCEPT !.at = "woken"]
  PROVE  CallsInv'
<1>1. ASSUME NEW y \in Caller, call'[y] \in PublishCall PROVE CallSound(y)'
  <2>1. CASE call'[y] = call[y]
    BY <1>1, <2>1, CallStays
  <2>2. CASE /\ call[y] \in PublishCall /\ call[y].at = "parked"
             /\ call'[y] = [call[y] EXCEPT !.at = "woken"]
    <3>1. /\ call'[y].msg = call[y].msg /\ call'[y].todo = call[y].todo
          /\ call'[y].at = "woken"
      BY <2>2, AtMoves DEF At
    <3>2. QED
      BY <2>2, <3>1, CallStays
  <2>3. QED
    BY <1>1, <2>1, <2>2, NotPublishing
<1>2. QED
  BY <1>1 DEF BusInv, CallsInv

(* The first in line at s is woken and leaves the line, when nobody but    *)
(* callers outside all lines has ended a call in the same step.            *)
LEMMA WokenKeeps ==
  ASSUME BusInv, NEW s \in Sub,
         NEW calls \in [Caller -> {Idle, Raised} \cup PublishCall],
         \A y \in Caller :
           \/ calls[y] = call[y]
           \/ calls[y] \in {Idle, Raised} /\ \A r \in Sub : y \notin Range(parked[r]),
         call' = WithNextWoken(s, calls),
         parked' = [parked EXCEPT ![s] = Rest(@)],
         UNCHANGED <<log, published, acked>>
  PROVE  PublishingInv'
<1> DEFINE first == Head(parked[s])
<1>1. /\ parked \in [Sub -> Seq(Caller)]
      /\ \A r \in Sub : IsInjective(parked[r]) /\ Range(parked[r]) \subseteq Caller
      /\ \A r \in Sub : \A y \in Range(parked[r]) :
           /\ call[y] \in PublishCall /\ call[y].at = "parked"
           /\ Head(call[y].todo) = r
  BY DEF BusInv, LinesInv, Range
<1>2. AcksInv'
  BY AcksStay
<1>3. CASE parked[s] = <<>>
  <2>1. Rest(parked[s]) = <<>>
    BY <1>3, SubSeqEmpty DEF Rest
  <2>2. parked' = parked /\ call' = calls
    BY <1>1, <1>3, <2>1 DEF WithNextWoken
  <2>3. LinesInv'
    BY <1>1, <2>2, LinesStay
  <2>4. CallsInv'
    BY <2>2, CallsStay
  <2>5. QED
    BY <1>2, <2>3, <2>4 DEF PublishingInv
<1>4. CASE parked[s] # <<>>
  <2>1. /\ first \in Caller /\ first \in Range(parked[s])
        /\ Rest(parked[s]) \in Seq(Caller) /\ IsInjective(Rest(parked[s]))
        /\ Range(Rest(parked[s])) = Range(parked[s]) \ {first}
    BY <1>1, <1>4, RestDropsHead
  <2>2. /\ call[first] \in PublishCall /\ call[first].at = "parked"
        /\ Head(call[first].todo) = s /\ calls[first] = call[first]
    BY <1>1, <2>1
  <2>3. call' = [calls EXCEPT ![first] = [call[first] EXCEPT !.at = "woken"]]
    BY <1>4, <2>2 DEF WithNextWoken
  <2>4. /\ [call[first] EXCEPT !.at = "woken"] \in PublishCall
        /\ call' \in [Caller -> {Idle, Raised} \cup PublishCall]
        /\ call'[first] = [call[first] EXCEPT !.at = "woken"]
        /\ \A y \in Caller \ {first} : call'[y] = calls[y]
    <3>1. [call[first] EXCEPT !.at = "woken"] \in PublishCall
      BY <2>2, AtMoves DEF At
    <3>2. QED
      BY <1>1, <2>1, <2>3, <3>1
  <2>5. CallsInv'
    BY <2>2, <2>4, CallsStay
  <2>6. /\ parked' \in [Sub -> Seq(Caller)]
        /\ parked'[s] = Rest(parked[s])
        /\ \A r \in Sub \ {s} : parked'[r] = parked[r]
    BY <1>1, <2>1
  <2>7. ASSUME NEW r \in Sub
        PROVE  /\ IsInjective(parked'[r])
               /\ Range(parked'[r]) \subseteq Range(parked[r])
               /\ first \notin Range(parked'[r])
    BY <1>1, <2>1, <2>2, <2>6
  <2>8. \A r \in Sub : \A y \in Range(parked'[r]) : call'[y] = call[y]
    BY <1>1, <2>4, <2>7
  <2>9. LinesInv'
    BY <2>6, <2>7, <2>8, LinesStay
  <2>10. QED
    BY <1>2, <2>5, <2>9 DEF PublishingInv
<1>5. QED
  BY <1>3, <1>4

\* A call outside all lines comes to an end.
LEMMA EndKeeps ==
  ASSUME BusInv, NEW x \in Caller, NEW outcome \in {Idle, Raised},
         \A s \in Sub : x \notin Range(parked[s]),
         call' = [call EXCEPT ![x] = outcome],
         UNCHANGED <<log, published, acked, parked>>
  PROVE  PublishingInv'
<1>1. /\ call' \in [Caller -> {Idle, Raised} \cup PublishCall]
      /\ \A y \in Caller : call'[y] = call[y] \/ call'[y] \in {Idle, Raised}
      /\ \A y \in Caller \ {x} : call'[y] = call[y]
  BY DEF BusInv, CallsInv
<1>2. CallsInv'
  BY <1>1, CallsStay
<1>3. \A s \in Sub : Range(parked[s]) \subseteq Caller
  BY DEF BusInv, LinesInv, Range
<1>4. LinesInv'
  BY <1>1, <1>3, LinesStay DEF BusInv, LinesInv
<1>5. AcksInv'
  BY AcksStay
<1>6. QED
  BY <1>2, <1>4, <1>5 DEF PublishingInv

\* Who stands in a line has not got past its put().
LEMMA InLineIsParked ==
  ASSUME BusInv, NEW x \in Caller, call[x].at # "parked"
  PROVE  \A s \in Sub : x \notin Range(parked[s])
BY DEF BusInv, LinesInv

\* A put() that is given up leaves its line or hands its turn on.
LEMMA AbandonKeeps ==
  ASSUME BusInv, NEW x \in Caller, call[x].at \in {"put", "parked", "woken"},
         NEW outcome \in {Idle, Raised}, Abandon(x, outcome),
         UNCHANGED <<log, published, acked>>
  PROVE  PublishingInv'
<1> DEFINE s == Head(call[x].todo)
           ended == [call EXCEPT ![x] = outcome]
<1>1. s \in Sub
  BY PuttingIsTyped DEF At
<1>2. /\ ended \in [Caller -> {Idle, Raised} \cup PublishCall]
      /\ ended[x] \in {Idle, Raised}
      /\ \A y \in Caller \ {x} : ended[y] = call[y]
  BY DEF BusInv, CallsInv
<1>3. CASE call[x].at = "woken" /\ ~Full(s)
  <2>1. /\ call' = WithNextWoken(s, ended)
        /\ parked' = [parked EXCEPT ![s] = Rest(@)]
    BY <1>3 DEF Abandon
  <2>2. \A r \in Sub : x \notin Range(parked[r])
    BY <1>3, InLineIsParked
  <2>3. \A y \in Caller :
          \/ ended[y] = call[y]
          \/ ended[y] \in {Idle, Raised} /\ \A r \in Sub : y \notin Range(parked[r])
    BY <1>2, <2>2
  <2>4. QED
    BY <1>1, <1>2, <2>1, <2>3, WokenKeeps
<1>4. CASE ~(call[x].at = "woken" /\ ~Full(s))
  <2>1. PICK left \in Only(Range(parked[s]) \ {x}, parked[s]) :
          call' = ended /\ parked' = [parked EXCEPT ![s] = left]
    BY <1>4 DEF Abandon
  <2>2. /\ parked \in [Sub -> Seq(Caller)]
        /\ \A r \in Sub : IsInjective(parked[r]) /\ Range(parked[r]) \subseteq Caller
        /\ \A r \in Sub \ {s} : x \notin Range(parked[r])
    BY DEF BusInv, LinesInv, Range
  <2>3. left \in Seq(Caller) /\ Range(left) = Range(parked[s]) \ {x} /\ IsInjective(left)
    <3>1. parked[s] \in Seq(Caller) /\ Range(parked[s]) \ {x} \in SUBSET Caller
      BY <1>1, <2>2
    <3>2. QED
      BY <1>1, <2>2, <3>1, OnlyIsOrdered
  <2>4. /\ parked' \in [Sub -> Seq(Caller)] /\ parked'[s] = left
        /\ \A r \in Sub \ {s} : parked'[r] = parked[r]
    BY <1>1, <2>1, <2>2, <2>3
  <2>5. ASSUME NEW r \in Sub
        PROVE  /\ IsInjective(parked'[r])
               /\ Range(parked'[r]) \subseteq Range(parked[r])
               /\ x \notin Range(parked'[r])
    BY <2>2, <2>3, <2>4
  <2>6. LinesInv'
    BY <1>2, <2>1, <2>2, <2>4, <2>5, LinesStay
  <2>7. CallsInv'
    BY <1>2, <2>1, CallsStay
  <2>8. AcksInv'
    BY AcksStay
  <2>9. QED
    BY <2>6, <2>7, <2>8 DEF PublishingInv
<1>5. QED
  BY <1>3, <1>4

(* put(): the message joins a log whose messages of its publisher are all  *)
(* older, or the caller joins the line; its other targets are distinct.    *)
LEMMA PutKeeps ==
  ASSUME BusInv, NEW x \in Caller, Put(x)
  PROVE  PublishingInv'
<1> DEFINE s == Head(call[x].todo)
           m == call[x].msg
<1>1. /\ call[x].at \in {"put", "woken"} /\ call[x] \in PublishCall
      /\ CallSound(x) /\ m \in Message /\ call[x].todo \in Seq(Sub) /\ s \in Sub
  BY PuttingIsTyped DEF Put, At
<1>2. /\ call \in [Caller -> {Idle, Raised} \cup PublishCall]
      /\ log \in [Sub -> Seq(Message)]
      /\ parked \in [Sub -> Seq(Caller)]
      /\ \A r \in Sub : x \notin Range(parked[r])
      /\ UNCHANGED <<published, acked>>
  BY <1>1, InLineIsParked DEF BusInv, CallsInv, QueuesInv, LinesInv, Put
<1>3. /\ s = call[x].todo[1] /\ 1 \in DOMAIN call[x].todo
      /\ s \in Pending(call[x]) /\ s \in m.to
  BY <1>1 DEF CallSound, Pending, Range
<1>4. CASE /\ log' = [log EXCEPT ![s] = Append(@, m)]
           /\ call' = [call EXCEPT ![x].at = "accepted"]
           /\ UNCHANGED parked
  <2>1. /\ call' \in [Caller -> {Idle, Raised} \cup PublishCall]
        /\ call'[x] \in PublishCall /\ call'[x].at = "accepted"
        /\ call'[x].msg = m /\ call'[x].todo = call[x].todo
        /\ \A y \in Caller \ {x} : call'[y] = call[y]
    <3>1. call' = [call EXCEPT ![x] = [call[x] EXCEPT !.at = "accepted"]]
      BY <1>2, <1>4
    <3>2. QED
      BY <1>1, <1>2, <3>1, AtMoves DEF At
  <2>2. /\ \A r \in Sub \ {s} : log'[r] = log[r]
        /\ Range(log'[s]) = Range(log[s]) \cup {m}
    BY <1>1, <1>2, <1>4, AppendOne
  <2>3. CallSound(x)'
    <3>1. Pending(call'[x]) = Pending(call[x]) \ {s}
      BY <1>1, <1>3, <2>1 DEF Pending, CallSound, IsInjective
    <3>2. m.to \subseteq Sub /\ Pending(call[x]) \subseteq Sub
      BY <1>1 DEF Message, Pending
    <3>3. \A r \in m.to \ Pending(call'[x]) : m \in Range(log'[r])
      BY <1>1, <2>2, <3>1, <3>2 DEF CallSound
    <3>4. \A r \in Pending(call'[x]) : \A e \in Range(log'[r]) : e.by = x => e.n < m.n
      BY <1>1, <2>2, <3>1, <3>2 DEF CallSound
    <3>5. QED
      BY <1>1, <1>2, <2>1, <3>3, <3>4 DEF CallSound
  <2>4. ASSUME NEW y \in Caller \ {x}, call'[y] \in PublishCall PROVE CallSound(y)'
    <3>1. m.by # y
      BY <1>1 DEF CallSound
    <3>2. \A r \in Sub :
            /\ Range(log[r]) \subseteq Range(log'[r])
            /\ \A e \in Range(log'[r]) : e.by = y => e \in Range(log[r])
      BY <2>2, <3>1
    <3>3. QED
      BY <1>2, <2>1, <2>4, <3>2, CallStays
  <2>5. \A r \in Sub : \A e \in Range(log'[r]) : e.n < published'[e.by]
    BY <1>1, <1>2, <2>2, ZenonT(40) DEF BusInv, CallsInv, CallSound
  <2>6. CallsInv'
    BY <1>2, <2>1, <2>3, <2>4, <2>5 DEF BusInv, CallsInv
  <2>7. LinesInv'
    BY <1>2, <1>4, <2>1, LinesStay DEF BusInv, LinesInv, Range
  <2>8. AcksInv'
    BY <1>2, <2>2, AcksStay
  <2>9. QED
    BY <2>6, <2>7, <2>8 DEF PublishingInv
<1>5. CASE /\ parked' = [parked EXCEPT ![s] = Append(@, x)]
           /\ call' = [call EXCEPT ![x].at = "parked"]
           /\ UNCHANGED log
  <2>1. /\ call' \in [Caller -> {Idle, Raised} \cup PublishCall]
        /\ call'[x] \in PublishCall /\ call'[x].at = "parked"
        /\ call'[x].msg = m /\ call'[x].todo = call[x].todo
        /\ \A y \in Caller \ {x} : call'[y] = call[y]
    <3>1. call' = [call EXCEPT ![x] = [call[x] EXCEPT !.at = "parked"]]
      BY <1>2, <1>5
    <3>2. QED
      BY <1>1, <1>2, <3>1, AtMoves DEF At
  <2>2. ASSUME NEW y \in Caller, call'[y] \in PublishCall PROVE CallSound(y)'
    BY <1>1, <1>2, <1>5, <2>1, <2>2, CallStays
  <2>3. CallsInv'
    BY <1>2, <1>5, <2>1, <2>2 DEF BusInv, CallsInv
  <2>4. /\ parked' \in [Sub -> Seq(Caller)] /\ IsInjective(parked'[s])
        /\ Range(parked'[s]) = Range(parked[s]) \cup {x}
        /\ \A r \in Sub \ {s} : parked'[r] = parked[r]
    BY <1>1, <1>2, <1>5, AppendOne DEF BusInv, LinesInv
  <2>5. \A r \in Sub : Range(parked[r]) \subseteq Caller
    BY <1>2 DEF Range
  <2>6. ASSUME NEW r \in Sub
        PROVE  /\ IsInjective(parked'[r])
               /\ \A y \in Range(parked'[r]) :
                    /\ call'[y] \in PublishCall /\ call'[y].at = "parked"
                    /\ Head(call'[y].todo) = r
    <3>1. /\ IsInjective(parked[r])
          /\ \A y \in Range(parked[r]) :
               /\ y \in Caller \ {x} /\ call[y] \in PublishCall
               /\ call[y].at = "parked" /\ Head(call[y].todo) = r
      BY <1>2, <2>5 DEF BusInv, LinesInv
    <3>2. r = s \/ parked'[r] = parked[r]
      BY <2>4
    <3>3. QED
      BY <2>1, <2>4, <3>1, <3>2
  <2>7. LinesInv'
    BY <2>4, <2>6 DEF LinesInv
  <2>8. AcksInv'
    BY <1>2, <1>5, AcksStay
  <2>9. QED
    BY <2>3, <2>7, <2>8 DEF PublishingInv
<1>6. QED
  BY <1>4, <1>5 DEF Put

(* publish() goes on with the targets in todo: those of its message behind *)
(* it have accepted it, those before it nothing of its caller that is as   *)
(* new.                                                                    *)
LEMMA ProceedKeeps ==
  ASSUME BusInv, NEW x \in Caller, call[x].at # "parked",
         NEW m \in Message, NEW todo \in Seq(Sub), Proceed(x, m, todo),
         m.by = x, IsInjective(todo), Range(todo) \subseteq m.to,
         \A s \in m.to \ Range(todo) : m \in Range(log[s]),
         \A s \in Range(todo) : \A e \in Range(log[s]) : e.by = x => e.n < m.n,
         published' \in [Caller -> Nat], m.n < published'[x],
         published[x] <= published'[x],
         \A y \in Caller \ {x} : published'[y] = published[y],
         UNCHANGED <<log, parked>>
  PROVE  PublishingInv'
<1> DEFINE c == [at |-> "put", msg |-> m, todo |-> todo]
<1>1. /\ call \in [Caller -> {Idle, Raised} \cup PublishCall]
      /\ published \in [Caller -> Nat]
      /\ log \in [Sub -> Seq(Message)]
      /\ \A s \in Sub : \A e \in Range(log[s]) : e.n < published[e.by]
  BY DEF BusInv, CallsInv, QueuesInv
<1>2. \A r \in Sub : x \notin Range(parked[r])
  BY InLineIsParked
<1>3. c \in PublishCall
  BY DEF PublishCall
<1>4. /\ call' \in [Caller -> {Idle, Raised} \cup PublishCall]
      /\ call'[x] \in {Idle, Raised} \/ (call'[x] = c /\ todo # <<>>)
      /\ \A y \in Caller \ {x} : call'[y] = call[y]
  <2>. HIDE DEF c
  <2>1. CASE call' = [call EXCEPT ![x] = Idle]
    BY <1>1, <2>1
  <2>2. CASE Raise(x)
    BY <1>1, <2>2 DEF Raise
  <2>3. CASE todo # <<>> /\ call' = [call EXCEPT ![x] = c]
    BY <1>1, <1>3, <2>3
  <2>4. QED
    BY <2>1, <2>2, <2>3 DEF Proceed, c
<1>5. ASSUME call'[x] = c, todo # <<>> PROVE CallSound(x)'
  <2>1. Pending(c) = Range(todo)
    BY DEF Pending, Range
  <2>2. c.msg = m /\ c.todo = todo
    OBVIOUS
  <2>3. QED
    BY <1>5, <2>1, <2>2 DEF CallSound
<1>6. ASSUME NEW y \in Caller, call'[y] \in PublishCall PROVE CallSound(y)'
  <2>1. CASE y = x
    BY <1>4, <1>5, <1>6, <2>1, NotPublishing
  <2>2. CASE y # x
    BY <1>4, <1>6, <2>2, CallStays
  <2>3. QED
    BY <2>1, <2>2
<1>7. \A s \in Sub : \A e \in Range(log'[s]) : e.n < published'[e.by]
  <2> SUFFICES ASSUME NEW s \in Sub, NEW e \in Range(log[s])
               PROVE  e.n < published'[e.by]
    OBVIOUS
  <2>1. e.n < published[e.by]
    BY <1>1
  <2>2. e \in Message
    BY <1>1 DEF Range
  <2>3. e.by \in Caller /\ e.n \in Int
    BY <2>2, BusAssumption DEF Message
  <2>4. \A y \in Caller :
          /\ published[y] \in Int /\ published'[y] \in Int
          /\ published[y] <= published'[y]
    <3> TAKE y \in Caller
    <3>1. published[y] \in Nat /\ published'[y] \in Nat
      BY <1>1
    <3>2. y = x \/ published'[y] = published[y]
      OBVIOUS
    <3>3. QED
      BY <3>1, <3>2, BusAssumption
  <2>5. QED
    BY <2>1, <2>3, <2>4
<1>8. CallsInv'
  BY <1>4, <1>6, <1>7 DEF CallsInv
<1>9. LinesInv'
  <2>1. \A r \in Sub : Range(parked[r]) \subseteq Caller /\ IsInjective(parked[r])
    BY DEF BusInv, LinesInv, Range
  <2>2. \A r \in Sub : \A y \in Range(parked[r]) : call'[y] = call[y]
    BY <1>2, <1>4, <2>1
  <2>3. QED
    BY <2>1, <2>2, LinesStay DEF BusInv, LinesInv
<1>10. AcksInv'
  <2>1. CASE todo = <<>> /\ acked' = acked \cup {m}
    <3>1. \A s \in m.to : m \in Range(log[s])
      BY <2>1 DEF Range
    <3>2. QED
      BY <2>1, <3>1 DEF BusInv, AcksInv, AckMeansAccepted
  <2>2. CASE UNCHANGED acked
    BY <2>2, AcksStay
  <2>3. QED
    BY <2>1, <2>2 DEF Proceed
<1>11. QED
  BY <1>8, <1>9, <1>10 DEF PublishingInv

\* publish() starts with a message newer than all of its caller's.
LEMMA PublishKeeps ==
  ASSUME BusInv, NEW x \in Caller, NEW topic \in Topic, Publish(x, topic)
  PROVE  PublishingInv'
<1> DEFINE to == Targets(topic)
           m == [by |-> x, n |-> published[x], to |-> to]
<1>1. /\ subscriptions \in Seq(Sub) /\ IsInjective(subscriptions)
      /\ published \in [Caller -> Nat]
      /\ log \in [Sub -> Seq(Message)]
      /\ \A s \in Sub : \A e \in Range(log[s]) : e.n < published[e.by]
  BY DEF BusInv, SubscriptionsInv, CallsInv, QueuesInv
<1>2. to \in SUBSET Sub
  BY <1>1 DEF Targets, Range
<1>3. PICK todo \in Only(to, subscriptions) : Proceed(x, m, todo)
  BY DEF Publish
<1>4. todo \in Seq(Sub) /\ Range(todo) = to /\ IsInjective(todo)
  BY <1>1, <1>2, OnlyIsOrdered
<1>5. /\ call[x].at # "parked" /\ published[x] \in Nat
      /\ published' = [published EXCEPT ![x] = @ + 1]
      /\ UNCHANGED <<log, parked>>
  BY <1>1, BusAssumption DEF Publish, Idle, queueVars
<1>6. m \in Message /\ m.by = x /\ m.n = published[x] /\ m.to = to
  BY <1>1, <1>5, <1>2 DEF Message
<1>7. /\ published' \in [Caller -> Nat]
      /\ published'[x] = published[x] + 1
      /\ \A y \in Caller \ {x} : published'[y] = published[y]
  BY <1>1, <1>5, BusAssumption
<1>8. \A s \in Range(todo) : \A e \in Range(log[s]) : e.by = x => e.n < m.n
  BY <1>1, <1>2, <1>4, <1>6
<1>9. m.n < published'[x] /\ published[x] <= published'[x]
  BY <1>5, <1>6, <1>7
<1>10. QED
  BY <1>3, <1>4, <1>5, <1>6, <1>7, <1>8, <1>9, ProceedKeeps

\* publish() goes on once the first of its targets has accepted.
LEMMA ResumeKeeps ==
  ASSUME BusInv, NEW x \in Caller, Resume(x)
  PROVE  PublishingInv'
<1> DEFINE c == call[x]
           m == call[x].msg
           todo == Rest(call[x].todo)
<1>1. /\ c.at = "accepted" /\ c \in PublishCall /\ CallSound(x)
      /\ m \in Message /\ c.todo \in Seq(Sub)
  BY PuttingIsTyped DEF Resume, At
<1>2. c.todo # <<>> /\ IsInjective(c.todo)
  BY <1>1 DEF CallSound
<1>3. /\ todo \in Seq(Sub) /\ IsInjective(todo)
      /\ Range(todo) = Range(c.todo) \ {Head(c.todo)}
  BY <1>1, <1>2, RestDropsHead
<1>4. Pending(c) = Range(todo)
  <2>1. Head(c.todo) = c.todo[1] /\ 1 \in DOMAIN c.todo
    BY <1>1, <1>2
  <2>2. Pending(c) = Range(c.todo) \ {Head(c.todo)}
    BY <1>1, <1>2, <2>1 DEF Pending, Range, IsInjective
  <2>3. QED
    BY <1>3, <2>2
<1>5. /\ Proceed(x, m, todo) /\ UNCHANGED <<log, parked, published>>
  BY DEF Resume, queueVars
<1>6. published \in [Caller -> Nat]
  BY DEF BusInv, CallsInv
<1>7. /\ m.by = x /\ m.n < published[x] /\ Range(todo) \subseteq m.to
      /\ \A s \in m.to \ Range(todo) : m \in Range(log[s])
      /\ \A s \in Range(todo) : \A e \in Range(log[s]) : e.by = x => e.n < m.n
  BY <1>1, <1>3, <1>4 DEF CallSound
<1>8. QED
  BY <1>1, <1>3, <1>5, <1>6, <1>7, ProceedKeeps

\* What publish() and the workers do to callers, lines and messages.
LEMMA PublishingKept == BusInv /\ [Next]_vars => PublishingInv'
<1> SUFFICES ASSUME BusInv, [Next]_vars PROVE PublishingInv'
  OBVIOUS
<1>1. Sub \subseteq Caller
  BY DEF Caller
<1>2. ASSUME NEW x \in Caller,
             (\E t \in Topic : Publish(x, t)) \/ Put(x) \/ Resume(x)
      PROVE  PublishingInv'
  BY <1>2, PublishKeeps, PutKeeps, ResumeKeeps
<1>3. ASSUME NEW x \in Caller, TimeOut(x) PROVE PublishingInv'
  <2>1. /\ call[x].at \in {"put", "parked", "woken"}
        /\ Abandon(x, IF x \in Sub THEN Raised ELSE Idle)
        /\ UNCHANGED <<log, published, acked>>
    BY <1>3 DEF TimeOut, queueVars
  <2>2. QED
    BY <2>1, AbandonKeeps
<1>4. ASSUME NEW s \in Sub, Take(s) PROVE PublishingInv'
  <2>1. /\ call' = WithNextWoken(s, call)
        /\ parked' = [parked EXCEPT ![s] = Rest(@)]
        /\ UNCHANGED <<log, published, acked>>
        /\ call \in [Caller -> {Idle, Raised} \cup PublishCall]
    BY <1>4 DEF Take, BusInv, CallsInv
  <2>2. QED
    BY <2>1, WokenKeeps
<1>5. ASSUME NEW s \in Sub, PublishRefused(s) PROVE PublishingInv'
  <2>1. /\ call[s].at # "parked"
        /\ call' = [call EXCEPT ![s] = Raised]
        /\ UNCHANGED <<log, published, acked, parked>>
    BY <1>5 DEF PublishRefused, Raise, Idle, queueVars
  <2>2. QED
    BY <1>1, <2>1, InLineIsParked, EndKeeps
<1>6. ASSUME NEW s \in Sub, HandlerFails(s) PROVE PublishingInv'
  <2>1. /\ call[s].at # "parked"
        /\ call' = [call EXCEPT ![s] = Idle]
        /\ UNCHANGED <<log, published, acked, parked>>
    BY <1>6 DEF HandlerFails, Idle, Raised
  <2>2. QED
    BY <1>1, <2>1, InLineIsParked, EndKeeps
<1>7. ASSUME NEW s \in Sub, Stop(s) PROVE PublishingInv'
  <2>1. UNCHANGED <<log, published, acked>>
    BY <1>7 DEF Stop
  <2>2. CASE call[s].at \in {"put", "parked", "woken"}
    BY <1>1, <1>7, <2>1, <2>2, AbandonKeeps DEF Stop
  <2>3. CASE call[s].at \notin {"put", "parked", "woken"}
    <3>1. /\ call[s].at # "parked"
          /\ call' = [call EXCEPT ![s] = Idle] /\ UNCHANGED parked
      BY <1>7, <2>3 DEF Stop
    <3>2. QED
      BY <1>1, <2>1, <3>1, InLineIsParked, EndKeeps
  <2>4. QED
    BY <2>2, <2>3
<1>8. CASE UNCHANGED <<callVars, log>>
  <2>1. UNCHANGED <<call, parked, published, acked, log>>
    BY <1>8 DEF callVars
  <2>2. QED
    BY <2>1 DEF BusInv, PublishingInv, LinesInv, CallsInv, AcksInv, CallSound,
                AckMeansAccepted
<1>9. ASSUME NEW s \in Sub, Subscribe(s) \/ HandlerReturns(s) \/ Close(s) \/ Cancel(s)
      PROVE  PublishingInv'
  BY <1>8, <1>9 DEF Subscribe, HandlerReturns, Close, Cancel, queueVars
<1>10. CASE StartDrain \/ ResumeDrain \/ StartShutdown \/ ShutdownNext
            \/ ShutdownWaited \/ UNCHANGED vars
  BY <1>8, <1>10 DEF StartDrain, ResumeDrain, StartShutdown, ShutdownNext,
                     ShutdownWaited, vars, queueVars
<1>11. QED
  BY <1>2, <1>3, <1>4, <1>5, <1>6, <1>7, <1>9, <1>10 DEF Next

-----------------------------------------------------------------------------
(* Results.                                                                *)

(* The inductive invariant: what every publish() in progress has done and  *)
(* has not done, and who stands in which line.                             *)
THEOREM BusInvariant == Spec => []BusInv
<1>1. Init => BusInv
  <2> SUFFICES ASSUME Init PROVE BusInv
    OBVIOUS
  <2>1. SubscriptionsInv
    BY DEF Init, SubscriptionsInv, Phase, IsInjective, Range
  <2>2. ShutdownInv
    BY DEF Init, ShutdownInv
  <2>3. QueuesInv
    BY BusAssumption DEF Init, QueuesInv
  <2>4. LinesInv
    BY DEF Init, LinesInv, IsInjective, Range
  <2>5. CallsInv
    BY NotPublishing, BusAssumption DEF Init, CallsInv, Range
  <2>6. AcksInv
    BY DEF Init, AcksInv, AckMeansAccepted
  <2>7. QED
    BY <2>1, <2>2, <2>3, <2>4, <2>5, <2>6 DEF BusInv
<1>2. BusInv /\ [Next]_vars => BusInv'
  BY SubscriptionsKept, ShutdownKept, QueuesKept, PublishingKept
     DEF BusInv, PublishingInv
<1>3. QED
  BY <1>1, <1>2, PTL DEF Spec

(* An acknowledgement means that every subscription that matched has       *)
(* accepted the message, whatever closed, failed or timed out meanwhile.   *)
THEOREM AcknowledgedIsAccepted == Spec => []AckMeansAccepted
<1>1. BusInv => AckMeansAccepted
  BY DEF BusInv, AcksInv
<1>2. QED
  BY <1>1, BusInvariant, PTL

(* close() ends a worker only after what it had accepted when it was       *)
(* called is handled.                                                      *)
THEOREM ClosesAfterItsWork == Spec => []HandledBeforeStop
<1>1. BusInv => HandledBeforeStop
  BY DEF BusInv, QueuesInv, HandledBeforeStop
<1>2. QED
  BY <1>1, BusInvariant, PTL

-----------------------------------------------------------------------------
(* The bus implements Delivery.                                            *)

\* The two modules mean the same by what is accepted.
LEMMA SameAccepted ==
  ASSUME NEW s
  PROVE  /\ Abstract!Accepted(s) = Range(log[s])
         /\ (Abstract!Accepted(s))' = Range(log'[s])
BY DEF Abstract!Accepted, Abstract!Range, Range

\* put() is the one step that accepts: a newer message, and there is room.
LEMMA PutAccepts ==
  ASSUME BusInv, NEW x \in Caller, Put(x)
  PROVE  [Abstract!Next]_(Abstract!vars)
<1> SUFFICES ASSUME NEW s \in Sub, s = Head(call[x].todo),
                    NEW m, m = call[x].msg
             PROVE  [Abstract!Next]_(Abstract!vars)
  BY PuttingIsTyped DEF Put, At
<1>1. /\ call[x].at \in {"put", "woken"} /\ CallSound(x)
      /\ m \in Message /\ call[x].todo \in Seq(Sub) /\ s \in Sub
      /\ log \in [Sub -> Seq(Message)] /\ UNCHANGED <<done, acked>>
  BY PuttingIsTyped DEF Put, At, BusInv, QueuesInv
<1>2. s \in Pending(call[x]) /\ s \in m.to /\ m.by = x
  BY <1>1 DEF CallSound, Pending, Range
<1>3. CASE ~Full(s) /\ log' = [log EXCEPT ![s] = Append(@, m)]
  <2>1. \A earlier \in Range(log[s]) : earlier.by = m.by => earlier.n < m.n
    BY <1>1, <1>2 DEF CallSound
  <2>2. Len(log[s]) - done[s] < QueueSize + 1
    <3>1. /\ Len(log[s]) \in Nat /\ taken[s] \in Nat /\ done[s] \in Nat
          /\ taken[s] \in {done[s], done[s] + 1} /\ QueueSize \in Nat
      BY <1>1, BusAssumption DEF BusInv, QueuesInv
    <3>2. ~(Len(log[s]) - taken[s] >= QueueSize)
      BY <1>3 DEF Full
    <3>3. QED
      BY <3>1, <3>2, SMTT(30)
  <2>3. Range(log'[s]) = Range(log[s]) \cup {m}
    BY <1>1, <1>3, AppendOne
  <2>4. m \notin Range(log[s])
    <3>1. m.n \in Int
      BY <1>1, BusAssumption DEF Message
    <3>2. ~(m.n < m.n)
      BY <3>1
    <3>3. QED
      BY <2>1, <3>2
  <2>5. m \in Abstract!Message
    BY <1>1 DEF Message, Abstract!Message
  <2>6. Abstract!Accept(s, m)
    BY <1>1, <1>2, <1>3, <2>1, <2>2, <2>5, SameAccepted DEF Abstract!Accept
  <2>7. m \in (Abstract!Accepted(s))' \ Abstract!Accepted(s)
    BY <2>3, <2>4, SameAccepted
  <2>8. QED
    BY <1>1, <2>6, <2>7 DEF Abstract!Next
<1>4. CASE UNCHANGED log
  BY <1>1, <1>4 DEF Abstract!vars
<1>5. QED
  BY <1>3, <1>4 DEF Put

\* publish() acknowledges only what the invariant says is accepted.
LEMMA AcksImplement ==
  ASSUME BusInv, BusInv', NEW x \in Caller, NEW m, NEW todo, Proceed(x, m, todo),
         UNCHANGED <<log, done>>
  PROVE  [Abstract!Next]_(Abstract!vars)
<1>1. CASE acked' = acked \cup {m} /\ m \notin acked
  <2>1. m \in Message /\ \A s \in m.to : m \in Range(log[s])
    BY <1>1 DEF BusInv, AcksInv, AckMeansAccepted
  <2>2. Abstract!Acknowledge(m)
    BY <1>1, <2>1, SameAccepted
       DEF Abstract!Acknowledge, Abstract!Message, Message
  <2>3. m \in acked' \ acked
    BY <1>1
  <2>4. QED
    BY <2>2, <2>3 DEF Abstract!Next
<1>2. CASE UNCHANGED acked
  BY <1>2 DEF Abstract!vars
<1>3. QED
  BY <1>1, <1>2 DEF Proceed

\* A worker that finishes, or is cancelled in, a message finishes that one.
LEMMA FinishImplements ==
  ASSUME BusInv, NEW s \in Sub, Handling(s), done' = [done EXCEPT ![s] = @ + 1],
         UNCHANGED <<log, acked>>
  PROVE  [Abstract!Next]_(Abstract!vars)
<1>1. done[s] < Len(log[s])
  BY DEF Handling, BusInv, QueuesInv
<1>2. Abstract!Finish(s)
  BY <1>1 DEF Abstract!Finish
<1>3. QED
  BY <1>2 DEF Abstract!Next

(* The bus keeps the promise of its docstring: delivery in order and at    *)
(* most once, bounded, acknowledged when accepted.                         *)
THEOREM BusDelivers == Spec => Delivers
<1>1. Init => Abstract!Init
  BY DEF Init, Abstract!Init
<1>2. BusInv /\ BusInv' /\ [Next]_vars => [Abstract!Next]_(Abstract!vars)
  <2> SUFFICES ASSUME BusInv, BusInv', [Next]_vars
               PROVE  [Abstract!Next]_(Abstract!vars)
    OBVIOUS
  <2>1. ASSUME NEW x \in Caller, Put(x) PROVE [Abstract!Next]_(Abstract!vars)
    BY <2>1, PutAccepts
  <2>2. ASSUME NEW x \in Caller, (\E t \in Topic : Publish(x, t)) \/ Resume(x)
        PROVE  [Abstract!Next]_(Abstract!vars)
    BY <2>2, AcksImplement DEF Publish, Resume, queueVars
  <2>3. ASSUME NEW s \in Sub, HandlerReturns(s) \/ HandlerFails(s)
        PROVE  [Abstract!Next]_(Abstract!vars)
    BY <2>3, FinishImplements DEF HandlerReturns, HandlerFails, TaskDone, callVars
  <2>4. ASSUME NEW s \in Sub, Stop(s) PROVE [Abstract!Next]_(Abstract!vars)
    <3>1. /\ done' = [done EXCEPT ![s] = taken[s]] /\ UNCHANGED <<log, acked>>
          /\ done \in [Sub -> Nat] /\ taken[s] \in {done[s], done[s] + 1}
      BY <2>4 DEF Stop, BusInv, QueuesInv
    <3>2. CASE taken[s] = done[s]
      BY <3>1, <3>2 DEF Abstract!vars
    <3>3. CASE taken[s] = done[s] + 1
      <4>1. Handling(s) /\ done' = [done EXCEPT ![s] = @ + 1]
        BY <3>1, <3>3 DEF Handling
      <4>2. QED
        BY <3>1, <4>1, FinishImplements
    <3>4. QED
      BY <3>1, <3>2, <3>3
  <2>5. CASE UNCHANGED <<log, done, acked>>
    BY <2>5 DEF Abstract!vars
  <2>6. ASSUME NEW s \in Sub,
               Subscribe(s) \/ Take(s) \/ PublishRefused(s) \/ Close(s) \/ Cancel(s)
        PROVE  [Abstract!Next]_(Abstract!vars)
    BY <2>5, <2>6
       DEF Subscribe, Take, PublishRefused, Close, Cancel, queueVars, callVars
  <2>7. ASSUME NEW x \in Caller, TimeOut(x) PROVE [Abstract!Next]_(Abstract!vars)
    BY <2>5, <2>7 DEF TimeOut, queueVars
  <2>8. CASE StartDrain \/ ResumeDrain \/ StartShutdown \/ ShutdownNext
             \/ ShutdownWaited \/ UNCHANGED vars
    BY <2>5, <2>8 DEF StartDrain, ResumeDrain, StartShutdown, ShutdownNext,
                      ShutdownWaited, vars, queueVars, callVars
  <2>9. QED
    BY <2>1, <2>2, <2>3, <2>4, <2>6, <2>7, <2>8 DEF Next
<1>3. QED
  BY <1>1, <1>2, BusInvariant, PTL DEF Spec, Delivers, Abstract!Spec

-----------------------------------------------------------------------------
(* drain().                                                                *)

DrainRecord ==
  [at: {"idle", "joining", "woken", "returned", "raised"},
   todo: Seq(Sub), round: Seq(Sub), owed: [Sub -> Nat]]

\* What the drain d owes at s is finished, and nothing failed on it.
Covered(d, s) == d.owed[s] <= done[s] /\ failure[s] \notin 1..d.owed[s]

(* What drain() owes is covered, or among the joins still to come; it is   *)
(* woken from one that is finished.                                        *)
DrainSound(d) ==
  /\ d \in DrainRecord
  /\ \A s \in Sub : d.owed[s] <= Len(log[s])
  /\ d.at \in {"joining", "woken"} =>
       /\ d.todo # <<>>
       /\ \A s \in Sub : Covered(d, s) \/ s \in Range(d.todo)
  /\ d.at = "woken" => d.owed[Head(d.todo)] <= done[Head(d.todo)]
  /\ d.at = "returned" => \A s \in Sub : Covered(d, s)

(* Every open subscription is on the list that drain() goes through, and a *)
(* failure is of a message that is finished.                               *)
ListedInv ==
  /\ failure \in [Sub -> Nat] /\ \A s \in Sub : failure[s] <= done[s]
  /\ \A s \in Sub : phase[s] = "open" => s \in Range(subscriptions)

DrainInv == BusInv /\ ListedInv /\ DrainSound(drain)

\* A nonempty set of naturals has a smallest element.
LEMMA FirstExists ==
  ASSUME NEW T \in SUBSET Nat, T # {}
  PROVE  \E x \in T : \A y \in T : x <= y
<1> DEFINE R == OpToRel(<, Nat)
<1>1. IsWellFoundedOn(R, Nat)
  BY NatLessThanWellFounded
<1>2. \A x, y \in Nat : y < x => <<y, x>> \in R
  BY DEF OpToRel
<1> HIDE DEF R
<1>3. PICK x \in T : \A y \in T : ~(<<y, x>> \in R)
  BY <1>1, WFMin
<1>4. ASSUME NEW y \in T PROVE x <= y
  <2>1. ~(y < x)
    BY <1>2, <1>3
  <2>2. QED
    BY <2>1
<1>5. QED
  BY <1>4

\* The rest of a sequence from one of its positions on.
LEMMA RestFrom ==
  ASSUME NEW q \in Seq(Sub), NEW k \in DOMAIN q
  PROVE  /\ SubSeq(q, k, Len(q)) \in Seq(Sub) /\ SubSeq(q, k, Len(q)) # <<>>
         /\ Head(SubSeq(q, k, Len(q))) = q[k]
         /\ \A i \in DOMAIN q : i >= k => q[i] \in Range(SubSeq(q, k, Len(q)))
<1> DEFINE r == SubSeq(q, k, Len(q))
<1>1. Len(q) \in Nat /\ DOMAIN q = 1..Len(q) /\ k \in 1..Len(q)
  OBVIOUS
<1>2. /\ r \in Seq(Sub) /\ Len(r) = Len(q) - k + 1
      /\ \A i \in 1..(Len(q) - k + 1) : r[i] = q[k + i - 1]
  BY <1>1, SubSeqProperties
<1> HIDE DEF r
<1>3. DOMAIN r = 1..(Len(q) - k + 1)
  BY <1>1, <1>2
<1>4. r # <<>> /\ Head(r) = q[k]
  BY <1>1, <1>2
<1>5. ASSUME NEW i \in DOMAIN q, i >= k PROVE q[i] \in Range(r)
  <2>1. i - k + 1 \in DOMAIN r /\ r[i - k + 1] = q[k + (i - k + 1) - 1]
    BY <1>1, <1>2, <1>3, <1>5
  <2>2. k + (i - k + 1) - 1 = i
    BY <1>1
  <2>3. QED
    BY <2>1, <2>2 DEF Range
<1>6. QED
  BY <1>2, <1>4, <1>5 DEF r

(* A round skips the joins that return at once, whose work is finished,    *)
(* and stops at the first that does not.                                   *)
LEMMA RoundIsSound ==
  ASSUME QueuesInv, NEW from \in DrainRecord, \A s \in Sub : from.owed[s] <= Len(log[s]),
         NEW todo \in Seq(Sub), NEW round \in Seq(Sub),
         \A s \in Sub : Covered(from, s) \/ s \in Range(todo),
         NEW again,
         (\A s \in Sub : Covered(from, s)) => DrainSound(again)
  PROVE  DrainSound(DrainRound(from, todo, round, again))
<1>1. PICK d : d = DrainRound(from, todo, round, again)
  OBVIOUS
<1>2. PICK joins : joins = Joins(todo)
  OBVIOUS
<1>3. \A s \in Sub : from.owed[s] \in Nat /\ done[s] \in Nat /\ Len(log[s]) \in Nat
  BY DEF QueuesInv, DrainRecord
<1>4. \A s \in Sub : Settled(s) /\ ~Failed(s) => Covered(from, s)
  BY <1>3 DEF Settled, Unfinished, Failed, Covered
<1>5. DOMAIN todo \subseteq Nat /\ \A i \in DOMAIN todo : todo[i] \in Sub
  OBVIOUS
<1>6. \A i \in DOMAIN todo \ joins : Covered(from, todo[i])
  BY <1>2, <1>4, <1>5 DEF Joins
<1>7. CASE joins = {}
  <2>1. \A s \in Sub : Covered(from, s)
    BY <1>6, <1>7 DEF Range
  <2>2. DrainSound(again)
    BY <2>1
  <2>3. DrainSound([from EXCEPT !.at = "returned"])
    BY <2>1 DEF DrainSound, DrainRecord, Covered
  <2>4. d = [from EXCEPT !.at = "returned"] \/ d = again
    BY <1>1, <1>2, <1>7 DEF DrainRound
  <2>5. QED
    BY <1>1, <2>2, <2>3, <2>4
<1>8. CASE joins # {}
  <2>1. joins \in SUBSET Nat /\ joins \subseteq DOMAIN todo
    BY <1>2, <1>5 DEF Joins
  <2>2. PICK first : first = CHOOSE i \in joins : \A j \in joins : i <= j
    OBVIOUS
  <2>3. first \in joins /\ \A j \in joins : first <= j
    BY <1>8, <2>1, <2>2, FirstExists
  <2>4. CASE Settled(todo[first])
    <3>1. d = [from EXCEPT !.at = "raised"]
      BY <1>1, <1>2, <1>8, <2>2, <2>4 DEF DrainRound
    <3>2. QED
      BY <1>1, <3>1 DEF DrainSound, DrainRecord
  <2>5. CASE ~Settled(todo[first])
    <3>1. PICK left : left = SubSeq(todo, first, Len(todo))
      OBVIOUS
    <3>2. d = [from EXCEPT !.at = "joining", !.round = round, !.todo = left]
      BY <1>1, <1>2, <1>8, <2>2, <2>5, <3>1 DEF DrainRound
    <3>3. first \in DOMAIN todo
      BY <2>1, <2>3
    <3>4. /\ left \in Seq(Sub) /\ left # <<>>
          /\ \A i \in DOMAIN todo : i >= first => todo[i] \in Range(left)
      BY <3>1, <3>3, RestFrom
    <3>5. ASSUME NEW s \in Sub
          PROVE  Covered(from, s) \/ s \in Range(left)
      <4>1. CASE s \in Range(todo)
        <5>1. PICK i \in DOMAIN todo : s = todo[i]
          BY <4>1 DEF Range
        <5>2. CASE i >= first
          BY <3>4, <5>1, <5>2
        <5>3. CASE ~(i >= first)
          <6>1. i \notin joins
            BY <1>5, <2>1, <2>3, <5>3
          <6>2. QED
            BY <1>6, <5>1, <6>1
        <5>4. QED
          BY <5>2, <5>3
      <4>2. QED
        BY <4>1
    <3>6. /\ d \in DrainRecord /\ d.owed = from.owed /\ d.todo = left /\ d.at = "joining"
      BY <3>2, <3>4 DEF DrainRecord
    <3>7. QED
      BY <1>1, <3>4, <3>5, <3>6 DEF DrainSound, Covered
  <2>6. QED
    BY <2>4, <2>5
<1>9. QED
  BY <1>7, <1>8

LEMMA DrainOnIsSound ==
  ASSUME BusInv, NEW from \in DrainRecord, \A s \in Sub : from.owed[s] <= Len(log[s]),
         NEW todo \in Seq(Sub), NEW round \in Seq(Sub),
         \A s \in Sub : Covered(from, s) \/ s \in Range(todo),
         DrainOn(from, todo, round)
  PROVE  DrainSound(drain')
<1>1. QueuesInv /\ subscriptions \in Seq(Sub)
  BY DEF BusInv, SubscriptionsInv
<1>2. PICK last : last = [from EXCEPT !.at = "returned"]
  OBVIOUS
<1>3. (\A s \in Sub : Covered(from, s)) => DrainSound(last)
  BY <1>2 DEF DrainSound, DrainRecord, Covered
<1>4. PICK again : again = DrainRound(from, subscriptions, subscriptions, last)
  OBVIOUS
<1>5. (\A s \in Sub : Covered(from, s)) => DrainSound(again)
  BY <1>1, <1>3, <1>4, RoundIsSound
<1>6. DrainSound(DrainRound(from, todo, round, again))
  BY <1>1, <1>5, RoundIsSound
<1>7. drain' = DrainRound(from, todo, round, again)
  BY <1>2, <1>4 DEF DrainOn
<1>8. QED
  BY <1>6, <1>7

\* What is accepted and finished grows.
LEMMA WorkGrows ==
  ASSUME BusInv, [Next]_vars, NEW s \in Sub
  PROVE  /\ Len(log[s]) \in Nat /\ Len(log'[s]) \in Nat /\ Len(log[s]) <= Len(log'[s])
         /\ done[s] \in Nat /\ done'[s] \in Nat /\ done[s] <= done'[s]
<1>1. /\ log \in [Sub -> Seq(Message)] /\ Len(log[s]) \in Nat /\ done[s] \in Nat
      /\ taken[s] \in Nat /\ done[s] <= taken[s] /\ done \in [Sub -> Nat]
      /\ taken \in [Sub -> Nat]
  BY DEF BusInv, QueuesInv
<1>2. QueuesInv'
  BY QueuesKept
<1>3. Len(log'[s]) \in Nat /\ done'[s] \in Nat
  BY <1>2 DEF QueuesInv
<1>4. Len(log[s]) <= Len(log'[s])
  <2>1. CASE UNCHANGED log
    BY <1>1, <2>1
  <2>2. ASSUME NEW x \in Caller, Put(x) PROVE Len(log[s]) <= Len(log'[s])
    <3>1. PICK r, m : log' = log \/ log' = [log EXCEPT ![r] = Append(@, m)]
      BY <2>2 DEF Put
    <3>2. Len(Append(log[s], m)) = Len(log[s]) + 1
      BY <1>1
    <3>3. log'[s] = log[s] \/ log'[s] = Append(log[s], m)
      BY <1>1, <3>1
    <3>4. QED
      BY <1>1, <3>2, <3>3
  <2>3. (\E x \in Caller : Put(x)) \/ UNCHANGED log
    BY DEF Next, vars, queueVars, Subscribe, Take, HandlerReturns, HandlerFails,
           PublishRefused, Close, Cancel, Stop, Publish, Resume, TimeOut, StartDrain,
           ResumeDrain, StartShutdown, ShutdownNext, ShutdownWaited
  <2>4. QED
    BY <2>1, <2>2, <2>3
<1>5. done[s] <= done'[s]
  <2>1. CASE UNCHANGED done
    BY <1>1, <2>1
  <2>2. ASSUME NEW r \in Sub, done' = [done EXCEPT ![r] = @ + 1]
        PROVE  done[s] <= done'[s]
    BY <1>1, <2>2
  <2>3. ASSUME NEW r \in Sub, done' = [done EXCEPT ![r] = taken[r]]
        PROVE  done[s] <= done'[s]
    BY <1>1, <2>3
  <2>4. \/ UNCHANGED done
        \/ \E r \in Sub : done' = [done EXCEPT ![r] = @ + 1]
        \/ \E r \in Sub : done' = [done EXCEPT ![r] = taken[r]]
    BY DEF Next, vars, queueVars, Subscribe, Take, HandlerReturns, HandlerFails, TaskDone,
           PublishRefused, Close, Cancel, Stop, Publish, Put, Resume, TimeOut, StartDrain,
           ResumeDrain, StartShutdown, ShutdownNext, ShutdownWaited
  <2>5. QED
    BY <2>1, <2>2, <2>3, <2>4
<1>6. QED
  BY <1>1, <1>3, <1>4, <1>5

\* A failure is kept, and a new one is of the message finished with it.
LEMMA FailureKept ==
  ASSUME BusInv, failure \in [Sub -> Nat], [Next]_vars
  PROVE  /\ failure' \in [Sub -> Nat]
         /\ \A s \in Sub :
              \/ failure'[s] = failure[s]
              \/ /\ failure'[s] = done[s] + 1
                 /\ done'[s] = done[s] + 1
<1>1. QueuesInv
  BY DEF BusInv
<1>2. ASSUME NEW r \in Sub, HandlerFails(r)
      PROVE  /\ failure' \in [Sub -> Nat]
             /\ \A s \in Sub :
                  \/ failure'[s] = failure[s]
                  \/ /\ failure'[s] = done[s] + 1
                     /\ done'[s] = done[s] + 1
  <2>1. /\ done'[r] = done[r] + 1 /\ taken[r] = done[r] + 1
        /\ taken[r] \in Nat /\ done[r] \in Nat
    BY <1>1, <1>2 DEF HandlerFails, TaskDone, Handling, QueuesInv
  <2>2. \/ failure' = failure
        \/ failure' = [failure EXCEPT ![r] = taken[r]]
    BY <1>2 DEF HandlerFails
  <2>3. CASE failure' = failure
    BY <2>3
  <2>4. CASE failure' = [failure EXCEPT ![r] = taken[r]]
    BY <2>1, <2>4
  <2>5. QED
    BY <2>2, <2>3, <2>4
<1>3. (\E r \in Sub : HandlerFails(r)) \/ failure' = failure
  BY DEF Next, vars, subVars, Subscribe, Take, HandlerReturns, PublishRefused, Close,
         Cancel, Stop, StartClose, Publish, Put, Resume, TimeOut, StartDrain,
         ResumeDrain, StartShutdown, ShutdownNext, ShutdownWaited
<1>4. QED
  BY <1>2, <1>3

(* What is covered stays covered: what is finished is never handled again, *)
(* so a handler that fails now fails on something later.                   *)
LEMMA CoveredStays ==
  ASSUME BusInv, ListedInv, [Next]_vars, NEW s \in Sub, NEW n \in Nat,
         n <= done[s], failure[s] \notin 1..n
  PROVE  n <= done'[s] /\ failure'[s] \notin 1..n
<1>1. /\ done[s] \in Nat /\ done'[s] \in Nat /\ done[s] <= done'[s]
  BY WorkGrows
<1>2. failure'[s] = failure[s] \/ failure'[s] = done[s] + 1
  BY FailureKept DEF ListedInv
<1>3. n <= done'[s]
  BY <1>1
<1>4. QED
  BY <1>1, <1>2, <1>3

\* What is not the head is in the rest.
LEMMA HeadOrRest ==
  ASSUME NEW q \in Seq(Sub), q # <<>>, NEW s \in Range(q)
  PROVE  s = Head(q) \/ s \in Range(Rest(q))
<1>1. PICK i \in 1..Len(q) : s = q[i]
  BY DEF Range
<1>2. Len(q) \in Nat /\ Len(Rest(q)) = Len(q) - 1 /\ Rest(q) \in Seq(Sub)
  BY RestIsASeq
<1>3. CASE i = 1
  BY <1>1, <1>3
<1>4. CASE i # 1
  <2>1. i - 1 \in 1..(Len(q) - 1)
    BY <1>2, <1>4
  <2>2. Rest(q)[i - 1] = q[(i - 1) + 1]
    BY <2>1, RestIsASeq
  <2>3. (i - 1) + 1 = i /\ i - 1 \in DOMAIN Rest(q)
    BY <1>2, <2>1
  <2>4. QED
    BY <1>1, <2>2, <2>3 DEF Range
<1>5. QED
  BY <1>3, <1>4

\* Every open subscription stays on the list.
LEMMA ListedKept ==
  ASSUME BusInv, ListedInv, [Next]_vars
  PROVE  ListedInv'
<1>1. phase \in [Sub -> Phase] /\ subscriptions \in Seq(Sub)
  BY DEF BusInv, SubscriptionsInv
<1>2. /\ failure' \in [Sub -> Nat]
      /\ \A s \in Sub : failure'[s] <= done'[s]
  <2>1. failure' \in [Sub -> Nat]
    BY FailureKept DEF ListedInv
  <2>2. ASSUME NEW s \in Sub PROVE failure'[s] <= done'[s]
    <3>1. failure[s] \in Nat /\ failure[s] <= done[s]
      BY DEF ListedInv
    <3>2. CASE failure'[s] = failure[s]
      BY <3>1, <3>2, WorkGrows
    <3>3. CASE failure'[s] = done[s] + 1 /\ done'[s] = done[s] + 1
      BY <3>3, WorkGrows
    <3>4. QED
      BY <3>2, <3>3, FailureKept DEF ListedInv
  <2>3. QED
    BY <2>1, <2>2
<1>. DEFINE Listed == \A s \in Sub : phase[s] = "open" => s \in Range(subscriptions)
<1>3. Listed
  BY DEF ListedInv
<1>4. ASSUME NEW s \in Sub, Subscribe(s) PROVE Listed'
  <2>1. Range(subscriptions') = Range(subscriptions) \cup {s}
    BY <1>1, <1>4, AppendOne DEF Subscribe
  <2>2. \A r \in Sub \ {s} : phase'[r] = phase[r]
    BY <1>1, <1>4 DEF Subscribe
  <2>3. QED
    BY <1>3, <2>1, <2>2
<1>5. ASSUME NEW s \in Sub, StartClose(s) PROVE Listed'
  <2>1. Range(subscriptions') = Range(subscriptions) \ {s}
    <3>1. /\ subscriptions' \in Only(Range(subscriptions) \ {s}, subscriptions)
          /\ IsInjective(subscriptions) /\ Range(subscriptions) \ {s} \in SUBSET Sub
      BY <1>5 DEF StartClose, BusInv, SubscriptionsInv, Range
    <3>2. QED
      BY <1>1, <3>1, OnlyIsOrdered
  <2>2. phase'[s] # "open" /\ \A r \in Sub \ {s} : phase'[r] = phase[r]
    BY <1>1, <1>5 DEF StartClose
  <2>3. QED
    BY <1>3, <2>1, <2>2
<1>6. ASSUME subscriptions' = subscriptions,
             \A r \in Sub : phase'[r] = "open" => phase[r] = "open"
      PROVE  Listed'
  BY <1>3, <1>6
<1>. HIDE DEF Listed
<1>7. ASSUME NEW s \in Sub, HandlerReturns(s) \/ HandlerFails(s) PROVE Listed'
  <2>1. subscriptions' = subscriptions /\ TaskDone(s)
    BY <1>7 DEF HandlerReturns, HandlerFails
  <2>2. \A r \in Sub : phase'[r] = "open" => phase[r] = "open"
    BY <1>1, <2>1 DEF TaskDone
  <2>3. QED
    BY <1>6, <2>1, <2>2
<1>8. ASSUME NEW s \in Sub, Cancel(s) \/ Stop(s) PROVE Listed'
  <2>1. /\ subscriptions' = subscriptions
        /\ \A r \in Sub : phase'[r] = "open" => phase[r] = "open"
    BY <1>1, <1>8 DEF Cancel, Stop
  <2>2. QED
    BY <1>6, <2>1
<1>9. ASSUME UNCHANGED subVars PROVE Listed'
  BY <1>6, <1>9 DEF subVars
<1>10. ASSUME ShutdownNext PROVE Listed'
  <2>1. shutdown.todo # <<>> => Head(shutdown.todo) \in Sub
    BY RestIsASeq DEF BusInv, ShutdownInv
  <2>2. QED
    BY <1>5, <1>9, <1>10, <2>1 DEF ShutdownNext
<1>11. \/ \E s \in Sub : \/ Subscribe(s)
                        \/ StartClose(s)
                        \/ HandlerReturns(s)
                        \/ HandlerFails(s)
                        \/ Cancel(s)
                        \/ Stop(s)
       \/ ShutdownNext
       \/ UNCHANGED subVars
  BY DEF Next, vars, Take, PublishRefused, Close, Publish, Put, Resume, TimeOut,
         StartDrain, ResumeDrain, StartShutdown, ShutdownWaited
<1>12. Listed'
  BY <1>4, <1>5, <1>7, <1>8, <1>9, <1>10, <1>11
<1>13. QED
  BY <1>2, <1>12 DEF ListedInv, Listed

\* A step that does not change what drain() owes takes nothing back.
LEMMA DebtKept ==
  ASSUME BusInv, ListedInv, DrainSound(drain), [Next]_vars, drain'.owed = drain.owed,
         NEW r \in Sub
  PROVE  /\ drain.owed[r] <= Len(log'[r])
         /\ drain.owed[r] <= done[r] => drain.owed[r] <= done'[r]
         /\ Covered(drain, r) => Covered(drain, r)'
<1>1. drain.owed[r] \in Nat /\ drain.owed[r] <= Len(log[r])
  BY DEF DrainSound, DrainRecord
<1>2. /\ drain.owed[r] <= Len(log'[r])
      /\ drain.owed[r] <= done[r] => drain.owed[r] <= done'[r]
  BY <1>1, WorkGrows
<1>3. ASSUME Covered(drain, r) PROVE Covered(drain, r)'
  BY <1>1, <1>3, CoveredStays DEF Covered
<1>4. QED
  BY <1>2, <1>3

\* drain() is woken by the end of the last work it waits for.
LEMMA WokenIsSound ==
  ASSUME BusInv, ListedInv, DrainSound(drain), [Next]_vars, drain.at = "joining",
         NEW s, s = Head(drain.todo), drain' = [drain EXCEPT !.at = "woken"],
         done'[s] = Len(log[s])
  PROVE  DrainSound(drain)'
<1>1. /\ drain' \in DrainRecord /\ drain'.at = "woken" /\ drain'.owed = drain.owed
      /\ drain'.todo = drain.todo
  BY DEF DrainSound, DrainRecord
<1>2. drain.owed \in [Sub -> Nat] /\ drain.todo \in Seq(Sub) /\ drain.todo # <<>>
  BY DEF DrainSound, DrainRecord
<1>3. s \in Sub
  BY <1>2, RestIsASeq
<1>4. \A r \in Sub : /\ drain.owed[r] <= Len(log'[r])
                     /\ Covered(drain, r) => Covered(drain, r)'
  BY <1>1, DebtKept
<1>5. drain.owed[s] <= done'[s]
  BY <1>3 DEF DrainSound
<1>6. QED
  BY <1>1, <1>2, <1>4, <1>5 DEF DrainSound

LEMMA DrainKept ==
  ASSUME BusInv, ListedInv, DrainSound(drain), [Next]_vars
  PROVE  DrainSound(drain)'
<1>1. drain \in DrainRecord
  BY DEF DrainSound
<1>2. CASE drain' = drain
  <2>1. \A r \in Sub : /\ drain.owed[r] <= Len(log'[r])
                       /\ drain.owed[r] <= done[r] => drain.owed[r] <= done'[r]
                       /\ Covered(drain, r) => Covered(drain, r)'
    BY <1>2, DebtKept
  <2>2. drain.at \in {"joining", "woken"} => Head(drain.todo) \in Sub
    BY <1>1, RestIsASeq DEF DrainSound, DrainRecord
  <2>3. QED
    BY <1>2, <2>1, <2>2 DEF DrainSound
<1>3. ASSUME NEW s \in Sub, TaskDone(s), UNCHANGED log PROVE DrainSound(drain)'
  <2>1. done'[s] = done[s] + 1
    BY <1>3 DEF TaskDone, BusInv, QueuesInv
  <2>2. CASE done[s] + 1 = Len(log[s]) /\ drain.at = "joining" /\ Head(drain.todo) = s
    <3>1. drain' = [drain EXCEPT !.at = "woken"]
      BY <1>3, <2>2 DEF TaskDone
    <3>2. QED
      BY <2>1, <2>2, <3>1, WokenIsSound
  <2>3. QED
    BY <1>2, <1>3, <2>2 DEF TaskDone
<1>4. ASSUME NEW s \in Sub, HandlerReturns(s) \/ HandlerFails(s) PROVE DrainSound(drain)'
  BY <1>3, <1>4 DEF HandlerReturns, HandlerFails
<1>5. ASSUME NEW s \in Sub, Stop(s) PROVE DrainSound(drain)'
  <2>1. done'[s] = taken[s] /\ UNCHANGED log
    BY <1>5 DEF Stop, BusInv, QueuesInv
  <2>2. CASE Handling(s) /\ Empty(s) /\ drain.at = "joining" /\ Head(drain.todo) = s
    <3>1. drain' = [drain EXCEPT !.at = "woken"]
      BY <1>5, <2>2 DEF Stop
    <3>2. done'[s] = Len(log[s])
      BY <2>1, <2>2 DEF Empty
    <3>3. QED
      BY <2>2, <3>1, <3>2, WokenIsSound
  <2>3. CASE ~(Handling(s) /\ Empty(s) /\ drain.at = "joining" /\ Head(drain.todo) = s)
    BY <1>2, <1>5, <2>3 DEF Stop
  <2>4. QED
    BY <2>2, <2>3
<1>6. ASSUME UNCHANGED <<log, done, failure>>, DrainSound(drain') PROVE DrainSound(drain)'
  BY <1>6 DEF DrainSound, Covered
<1>7. CASE StartDrain
  <2>1. PICK from : from = [drain EXCEPT !.owed =
                      [s \in Sub |-> IF phase[s] = "open" THEN Len(log[s]) ELSE 0]]
    OBVIOUS
  <2>2. \A s \in Sub : Len(log[s]) \in Nat /\ done[s] \in Nat
    BY DEF BusInv, QueuesInv
  <2>3. /\ from \in DrainRecord
        /\ \A s \in Sub : from.owed[s] = IF phase[s] = "open" THEN Len(log[s]) ELSE 0
    BY <1>1, <2>1, <2>2 DEF DrainRecord
  <2>4. \A s \in Sub : /\ from.owed[s] <= Len(log[s])
                       /\ Covered(from, s) \/ s \in Range(subscriptions)
    BY <2>2, <2>3 DEF ListedInv, Covered
  <2>5. subscriptions \in Seq(Sub) /\ UNCHANGED <<log, done, failure>>
    BY <1>7 DEF StartDrain, queueVars, subVars, BusInv, SubscriptionsInv
  <2>6. DrainOn(from, subscriptions, subscriptions)
    BY <1>7, <2>1 DEF StartDrain
  <2>7. DrainSound(drain')
    BY <2>3, <2>4, <2>5, <2>6, DrainOnIsSound
  <2>8. QED
    BY <1>6, <2>5, <2>7
<1>8. CASE ResumeDrain
  <2>1. UNCHANGED <<log, done, failure>> /\ drain.at = "woken"
    BY <1>8 DEF ResumeDrain, queueVars, subVars
  <2>2. CASE drain' = [drain EXCEPT !.at = "raised"]
    BY <1>6, <2>1, <2>2 DEF DrainSound, DrainRecord
  <2>3. CASE ~Failed(Head(drain.todo)) /\ DrainOn(drain, Rest(drain.todo), drain.round)
    <3>1. /\ drain.todo \in Seq(Sub) /\ drain.todo # <<>> /\ drain.round \in Seq(Sub)
          /\ Covered(drain, Head(drain.todo))
          /\ \A s \in Sub : Covered(drain, s) \/ s \in Range(drain.todo)
          /\ \A s \in Sub : drain.owed[s] <= Len(log[s])
      <4>1. Head(drain.todo) \in Sub
        BY <1>1, <2>1, RestIsASeq DEF DrainSound, DrainRecord
      <4>2. drain.owed[Head(drain.todo)] \in Nat
        BY <1>1, <4>1 DEF DrainRecord
      <4>3. QED
        BY <2>1, <2>3, <4>2 DEF DrainSound, DrainRecord, Failed, Covered
    <3>2. \A s \in Sub : Covered(drain, s) \/ s \in Range(Rest(drain.todo))
      BY <3>1, HeadOrRest
    <3>3. Rest(drain.todo) \in Seq(Sub)
      BY <3>1, RestIsASeq
    <3>4. DrainSound(drain')
      BY <1>1, <2>1, <2>3, <3>1, <3>2, <3>3, DrainOnIsSound
    <3>5. QED
      BY <1>6, <2>1, <3>4
  <2>4. QED
    BY <1>8, <2>2, <2>3 DEF ResumeDrain
<1>9. \/ UNCHANGED drain
      \/ StartDrain
      \/ ResumeDrain
      \/ \E s \in Sub : \/ HandlerReturns(s)
                        \/ HandlerFails(s)
                        \/ Stop(s)
  BY DEF Next, vars, Subscribe, Take, PublishRefused, Close, Cancel, Publish, Put,
         Resume, TimeOut, StartShutdown, ShutdownNext, ShutdownWaited
<1>10. QED
  BY <1>2, <1>4, <1>5, <1>7, <1>8, <1>9

(* The inductive invariant of drain(): what it owes is finished without a  *)
(* failure or still to be joined.                                          *)
THEOREM DrainInvariant == Spec => []DrainInv
<1>1. Init /\ BusInv => DrainInv
  <2> SUFFICES ASSUME Init, BusInv PROVE DrainInv
    OBVIOUS
  <2>1. /\ drain.at = "idle" /\ drain.todo = <<>> /\ drain.round = <<>>
        /\ drain.owed = done /\ done = [s \in Sub |-> 0] /\ log = [s \in Sub |-> <<>>]
        /\ phase = [s \in Sub |-> "new"] /\ failure = [s \in Sub |-> 0]
    BY DEF Init
  <2>2. drain \in DrainRecord
    BY DEF Init, DrainRecord
  <2>3. \A s \in Sub : drain.owed[s] <= Len(log[s])
    BY <2>1
  <2>4. DrainSound(drain)
    BY <2>1, <2>2, <2>3 DEF DrainSound
  <2>5. ListedInv
    BY <2>1 DEF ListedInv
  <2>6. QED
    BY <2>4, <2>5 DEF DrainInv
<1>2. DrainInv /\ BusInv' /\ [Next]_vars => DrainInv'
  BY ListedKept, DrainKept DEF DrainInv
<1>3. QED
  BY <1>1, <1>2, BusInvariant, PTL DEF Spec

(* When drain() returns normally, all that its subscriptions had accepted  *)
(* when it was called is handled and no handler has failed on any of it,   *)
(* whatever was closed or published in between and whatever failed later.  *)
THEOREM DrainCoversItsWork == Spec => []DrainCoversEarlierWork
<1>1. DrainInv => DrainCoversEarlierWork
  <2> SUFFICES ASSUME DrainInv, drain.at = "returned", NEW s \in Sub
               PROVE  done[s] >= drain.owed[s] /\ failure[s] \notin 1..drain.owed[s]
    BY DEF DrainCoversEarlierWork
  <2>1. Covered(drain, s) /\ drain.owed[s] \in Nat
    BY DEF DrainInv, DrainSound, DrainRecord
  <2>2. done[s] \in Nat
    BY DEF DrainInv, BusInv, QueuesInv
  <2>3. QED
    BY <2>1, <2>2 DEF Covered
<1>2. QED
  BY <1>1, DrainInvariant, PTL

(* The bus stays in its types, no queue holds more than its size, and a    *)
(* worker is in one handler at most.                                       *)
THEOREM BusTyped == Spec => []TypeOK
<1>1. DrainInv => TypeOK
  <2> SUFFICES ASSUME DrainInv PROVE TypeOK
    OBVIOUS
  <2>1. QueuesInv /\ LinesInv /\ CallsInv /\ AcksInv /\ ShutdownInv /\ SubscriptionsInv
    BY DEF DrainInv, BusInv
  <2>2. ASSUME NEW s \in Sub PROVE Len(log[s]) \in taken[s]..(taken[s] + QueueSize)
    <3>1. /\ Len(log[s]) \in Nat /\ taken[s] \in Nat /\ QueueSize \in Nat
          /\ taken[s] <= Len(log[s]) /\ Len(log[s]) <= taken[s] + QueueSize
      BY <2>1, BusAssumption DEF QueuesInv
    <3>2. QED
      BY <3>1
  <2>3. /\ failure \in [Sub -> Nat] /\ \A s \in Sub : failure[s] <= done[s]
        /\ drain \in DrainRecord
    BY DEF DrainInv, ListedInv, DrainSound
  <2>4. /\ log \in [Sub -> Seq(Message)]
        /\ taken \in [Sub -> Nat] /\ done \in [Sub -> Nat] /\ owed \in [Sub -> Nat]
        /\ \A s \in Sub : taken[s] \in {done[s], done[s] + 1}
    BY <2>1 DEF QueuesInv
  <2>5. /\ subscriptions \in Seq(Sub) /\ phase \in [Sub -> Phase]
        /\ parked \in [Sub -> Seq(Caller)] /\ published \in [Caller -> Nat]
        /\ call \in [Caller -> {Idle, Raised} \cup PublishCall]
        /\ acked \subseteq Message
    BY <2>1 DEF SubscriptionsInv, LinesInv, CallsInv, AcksInv
  <2>6. QED
    BY <2>1, <2>2, <2>3, <2>4, <2>5 DEF TypeOK, ShutdownInv, DrainRecord, Phase
<1>2. QED
  BY <1>1, DrainInvariant, PTL
=============================================================================
