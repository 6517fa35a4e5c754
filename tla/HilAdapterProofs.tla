-------------------------- MODULE HilAdapterProofs --------------------------
(***************************************************************************)
(* Proofs about the HIL adapter, for every number of adapters, callers,    *)
(* commands and sets of evidence.                                          *)
(***************************************************************************)
EXTENDS HilAdapter, TLAPS, FiniteSetTheorems

(* What a call in flight, a cached answer and a trace have in common.  The *)
(* last conjunct is what keeps an acknowledged command from being sent     *)
(* again: what was returned is in the cache, and stays there.              *)
ReturnsRemembered ==
  \A i \in Returns : acks[trace[i].adapter][trace[i].command] # NoAck

HilInv ==
  /\ HilTypeOK
  /\ SentUnderApproval
  /\ ReturnsRemembered
  /\ AcknowledgedNotResent

-----------------------------------------------------------------------------
\* What appending one event does to the trace.
LEMMA Appended ==
  ASSUME trace \in Seq(TraceEvent), NEW e \in TraceEvent, trace' = Append(trace, e)
  PROVE  /\ trace' \in Seq(TraceEvent)
         /\ DOMAIN trace' = DOMAIN trace \cup {Len(trace) + 1}
         /\ \A i \in DOMAIN trace : trace'[i] = trace[i] /\ i < Len(trace) + 1
         /\ trace'[Len(trace) + 1] = e
OBVIOUS

\* Each event names an adapter and a command.
LEMMA TraceTyped ==
  ASSUME trace \in Seq(TraceEvent), NEW i \in DOMAIN trace
  PROVE  trace[i].adapter \in Adapter /\ trace[i].command \in CommandId
<1>1. trace[i] \in TraceEvent
  OBVIOUS
<1>2. QED
  BY <1>1 DEF TraceEvent

\* What the code records of a call is an event.
LEMMA EventTyped ==
  ASSUME HilTypeOK, NEW kind \in {"send", "return"}, NEW x \in Caller,
         NEW a \in Adapter, NEW c \in CommandId, NEW status \in AckStatus \cup {NoAck}
  PROVE  Event(kind, x, a, c, status) \in TraceEvent
BY ClockAssumption DEF HilTypeOK, ClockTypeOK, Event, TraceEvent

\* The call a caller has in flight.
LEMMA CallTyped ==
  ASSUME HilTypeOK, NEW x \in Caller, call[x] # NoCall
  PROVE  call[x].adapter \in Adapter /\ call[x].command \in CommandId
BY DEF HilTypeOK

\* What becomes of a transport's reply is an answer.
LEMMA StatusTyped ==
  ASSUME NEW reply \in Reply
  PROVE  StatusOf(reply) \in AckStatus /\ StatusOf(reply) # NoAck
BY DEF StatusOf, AckStatus, NoAck

-----------------------------------------------------------------------------
(* Type correctness, which says of an adapter's permit that it was issued. *)

\* Every action by itself.
LEMMA TypesKept == HilTypeOK /\ [HilNext]_hilVars => HilTypeOK'
<1> SUFFICES ASSUME HilTypeOK, [HilNext]_hilVars PROVE HilTypeOK'
  OBVIOUS
<1> USE DEF HilTypeOK, linkVars
<1>1. CASE HilTick
  BY <1>1, ClockAssumption DEF HilTick, Advance, ClockTypeOK
<1>2. ASSUME NEW a \in Adapter, NEW ev \in EvidenceId, Install(a, ev) PROVE HilTypeOK'
  <2>1. permit' \in [Adapter -> EvidenceId \cup {NoPermit}]
    BY <1>2 DEF Install
  <2>2. ASSUME NEW b \in Adapter
        PROVE  IF permit'[b] = NoPermit
               THEN ~connected[b] /\ b \notin connecting \cup closing
               ELSE Bench[permit'[b]].proven
    BY <1>2, HilAssumption DEF Install, Ready
  <2>3. QED
    BY <1>2, <2>1, <2>2 DEF Install, ClockTypeOK
<1>3. ASSUME NEW a \in Adapter, Connect(a) PROVE HilTypeOK'
  BY <1>3 DEF Connect, ClockTypeOK
<1>4. ASSUME NEW a \in Adapter, Connected(a) PROVE HilTypeOK'
  BY <1>4 DEF Connected, ClockTypeOK
<1>5. ASSUME NEW a \in Adapter, Close(a) PROVE HilTypeOK'
  BY <1>5 DEF Close, ClockTypeOK
<1>6. ASSUME NEW a \in Adapter, Closed(a) PROVE HilTypeOK'
  BY <1>6 DEF Closed, ClockTypeOK
<1>7. ASSUME NEW a \in Adapter, NEW x \in Caller, NEW c \in CommandId, Execute(x, a, c)
      PROVE  HilTypeOK'
  <2>1. trace' \in Seq(TraceEvent)
    BY <1>7, Appended, EventTyped DEF Execute
  <2>2. call' \in [Caller -> {NoCall} \cup [adapter: Adapter, command: CommandId]]
    BY <1>7 DEF Execute
  <2>3. QED
    BY <1>7, <2>1, <2>2 DEF Execute, ClockTypeOK
<1>8. ASSUME NEW a \in Adapter, NEW x \in Caller, NEW c \in CommandId, Repeat(x, a, c)
      PROVE  HilTypeOK'
  <2>1. trace' \in Seq(TraceEvent)
    BY <1>8, Appended, EventTyped DEF Repeat
  <2>2. QED
    BY <1>8, <2>1 DEF Repeat, ClockTypeOK
<1>9. ASSUME NEW x \in Caller, Abort(x) PROVE HilTypeOK'
  BY <1>9 DEF Abort, ClockTypeOK
<1>10. ASSUME NEW x \in Caller, NEW reply \in Reply, Answer(x, reply) PROVE HilTypeOK'
  <2> DEFINE a == call[x].adapter
             c == call[x].command
             status == StatusOf(reply)
  <2>1. a \in Adapter /\ c \in CommandId /\ status \in AckStatus
    BY <1>10, CallTyped, StatusTyped DEF Answer
  <2>2. /\ acks' = [acks EXCEPT ![a][c] = status]
        /\ trace' = Append(trace, Event("return", x, a, c, status))
    BY <1>10 DEF Answer, Remembered
  <2> HIDE DEF a, c, status
  <2>3. trace' \in Seq(TraceEvent)
    BY <2>1, <2>2, Appended, EventTyped
  <2>4. acks' \in [Adapter -> [CommandId -> AckStatus \cup {NoAck}]]
    BY <2>1, <2>2
  <2>5. call' \in [Caller -> {NoCall} \cup [adapter: Adapter, command: CommandId]]
    BY <1>10 DEF Answer
  <2>6. QED
    BY <1>10, <2>3, <2>4, <2>5 DEF Answer, ClockTypeOK
<1>11. CASE UNCHANGED hilVars
  BY <1>11 DEF hilVars, ClockTypeOK
<1>12. QED
  BY <1>1, <1>2, <1>3, <1>4, <1>5, <1>6, <1>7, <1>8, <1>9, <1>10, <1>11 DEF HilNext

(* Every reachable state is well typed; a permit that is held was issued   *)
(* for proven evidence, and without one there is no connection.            *)
THEOREM HilTypeCorrect == HilSpec => []HilTypeOK
<1>1. HilInit => HilTypeOK
  BY ClockAssumption DEF HilInit, ClockInit, HilTypeOK, ClockTypeOK
<1>2. QED
  BY <1>1, TypesKept, PTL DEF HilSpec

-----------------------------------------------------------------------------
(* The safety of what is sent and returned.  It changes only when an event *)
(* is appended to the trace; otherwise permits and cached answers stay.    *)

Stays ==
  /\ \A a \in Adapter : permit[a] # NoPermit => permit'[a] = permit[a]
  /\ \A a \in Adapter, c \in CommandId :
       acks[a][c] # NoAck => acks'[a][c] # NoAck

\* A step that sends and returns nothing.
LEMMA KeptWithoutEvent ==
  ASSUME HilInv, Stays, UNCHANGED trace
  PROVE  (SentUnderApproval /\ ReturnsRemembered /\ AcknowledgedNotResent)'
<1>1. Sends' = Sends /\ Returns' = Returns
  BY DEF Sends, Returns
<1>2. \A i \in DOMAIN trace :
        trace[i].adapter \in Adapter /\ trace[i].command \in CommandId
  BY TraceTyped DEF HilInv, HilTypeOK
<1>3. SentUnderApproval'
  BY <1>1, <1>2 DEF HilInv, SentUnderApproval, Sends, Stays
<1>4. ReturnsRemembered'
  BY <1>1, <1>2 DEF HilInv, ReturnsRemembered, Returns, Stays
<1>5. AcknowledgedNotResent'
  BY <1>1 DEF HilInv, AcknowledgedNotResent
<1>6. QED
  BY <1>3, <1>4, <1>5

\* A send under the conditions of execute(), of a command without an answer.
LEMMA KeptBySend ==
  ASSUME HilInv, NEW x \in Caller, NEW a \in Adapter, NEW c \in CommandId,
         Execute(x, a, c)
  PROVE  (SentUnderApproval /\ ReturnsRemembered /\ AcknowledgedNotResent)'
<1> DEFINE e == Event("send", x, a, c, NoAck)
           n == Len(trace) + 1
<1>1. e \in TraceEvent /\ trace \in Seq(TraceEvent)
  BY EventTyped DEF HilInv, HilTypeOK
<1>2. /\ e.kind = "send" /\ e.adapter = a /\ e.command = c /\ e.at = now
      /\ trace' = Append(trace, e)
      /\ permit' = permit /\ acks' = acks
  BY DEF Event, Execute, linkVars
<1> HIDE DEF e
<1>3. /\ DOMAIN trace' = DOMAIN trace \cup {n}
      /\ \A i \in DOMAIN trace : trace'[i] = trace[i] /\ i < n
      /\ trace'[n] = e
  BY <1>1, <1>2, Appended
<1> HIDE DEF n
<1>4. /\ Sends' = Sends \cup {n} /\ Returns' = Returns
      /\ Sends \subseteq DOMAIN trace /\ Returns \subseteq DOMAIN trace
  BY <1>2, <1>3 DEF Sends, Returns
<1>5. /\ permit[a] # NoPermit /\ Bench[permit[a]].proven
      /\ now < Bench[permit[a]].approvedUntil /\ now < Command[c].deadline
      /\ Command[c].token = permit[a] /\ Command[c].mode = "HIL"
      /\ Command[c].endpoint = Bench[permit[a]].endpoint
  <2>1. permit[a] # NoPermit /\ Bench[permit[a]].proven
    BY DEF Execute, HilInv, HilTypeOK
  <2>2. permit[a] \in EvidenceId
    BY <2>1 DEF HilInv, HilTypeOK
  <2>3. /\ now \in Nat
        /\ Bench[permit[a]].approvedUntil \in Nat /\ Command[c].deadline \in Nat
    BY <2>2, HilAssumption, ClockAssumption
       DEF HilInv, HilTypeOK, ClockTypeOK, BenchRecord, CommandRecord
  <2>4. QED
    BY <2>1, <2>3 DEF Execute, Admissible
<1>6. SentUnderApproval'
  <2> SUFFICES ASSUME NEW i \in Sends'
               PROVE  LET ev == permit[trace'[i].adapter]
                          d == Command[trace'[i].command]
                      IN  /\ ev # NoPermit /\ Bench[ev].proven
                          /\ trace'[i].at < Bench[ev].approvedUntil
                          /\ trace'[i].at < d.deadline
                          /\ d.token = ev /\ d.endpoint = Bench[ev].endpoint
                          /\ d.mode = "HIL"
    BY <1>2 DEF SentUnderApproval
  <2>1. CASE i = n
    BY <2>1, <1>2, <1>3, <1>5
  <2>2. CASE i \in Sends
    BY <2>2, <1>3, <1>4 DEF HilInv, SentUnderApproval
  <2>3. QED
    BY <2>1, <2>2, <1>4
<1>7. ReturnsRemembered'
  BY <1>2, <1>3, <1>4 DEF HilInv, ReturnsRemembered
<1>8. AcknowledgedNotResent'
  <2>1. acks[a][c] = NoAck
    BY DEF Execute
  <2>2. \A i \in Returns : trace[i].adapter # a \/ trace[i].command # c
    BY <2>1 DEF HilInv, ReturnsRemembered
  <2> SUFFICES ASSUME NEW i \in Returns, NEW j \in Sends',
                      trace'[i].adapter = trace'[j].adapter,
                      trace'[i].command = trace'[j].command
               PROVE  j < i
    BY <1>4 DEF AcknowledgedNotResent
  <2>3. j # n
    BY <2>2, <1>2, <1>3, <1>4
  <2>4. QED
    BY <2>3, <1>3, <1>4 DEF HilInv, AcknowledgedNotResent
<1>9. QED
  BY <1>6, <1>7, <1>8

\* A return of an answer that is in the cache by then.
LEMMA KeptByReturn ==
  ASSUME HilInv, Stays,
         NEW x \in Caller, NEW a \in Adapter, NEW c \in CommandId,
         NEW status \in AckStatus, acks'[a][c] # NoAck,
         trace' = Append(trace, Event("return", x, a, c, status))
  PROVE  (SentUnderApproval /\ ReturnsRemembered /\ AcknowledgedNotResent)'
<1> DEFINE e == Event("return", x, a, c, status)
           n == Len(trace) + 1
<1>1. e \in TraceEvent /\ trace \in Seq(TraceEvent)
  BY EventTyped DEF HilInv, HilTypeOK
<1>2. /\ e.kind = "return" /\ e.adapter = a /\ e.command = c
      /\ trace' = Append(trace, e)
  BY DEF Event
<1> HIDE DEF e
<1>3. /\ DOMAIN trace' = DOMAIN trace \cup {n}
      /\ \A i \in DOMAIN trace : trace'[i] = trace[i] /\ i < n
      /\ trace'[n] = e
  BY <1>1, <1>2, Appended
<1>4. \A i \in DOMAIN trace :
        trace[i].adapter \in Adapter /\ trace[i].command \in CommandId
  BY <1>1, TraceTyped
<1> HIDE DEF n
<1>5. /\ Sends' = Sends /\ Returns' = Returns \cup {n}
      /\ Sends \subseteq DOMAIN trace /\ Returns \subseteq DOMAIN trace
  BY <1>2, <1>3 DEF Sends, Returns
<1>6. SentUnderApproval'
  BY <1>3, <1>4, <1>5 DEF HilInv, SentUnderApproval, Stays
<1>7. ReturnsRemembered'
  <2>1. ASSUME NEW i \in Returns
        PROVE  acks'[trace'[i].adapter][trace'[i].command] # NoAck
    BY <2>1, <1>3, <1>4, <1>5 DEF HilInv, ReturnsRemembered, Stays
  <2>2. acks'[trace'[n].adapter][trace'[n].command] # NoAck
    BY <1>2, <1>3
  <2>3. QED
    BY <2>1, <2>2, <1>5 DEF ReturnsRemembered
<1>8. AcknowledgedNotResent'
  BY <1>3, <1>5 DEF HilInv, AcknowledgedNotResent
<1>9. QED
  BY <1>6, <1>7, <1>8

\* Every action by itself: most append nothing.
LEMMA HilInvKept == HilInv /\ [HilNext]_hilVars => HilInv'
<1> SUFFICES ASSUME HilInv, [HilNext]_hilVars PROVE HilInv'
  OBVIOUS
<1> DEFINE Kept == (SentUnderApproval /\ ReturnsRemembered /\ AcknowledgedNotResent)'
<1>1. HilTypeOK'
  BY TypesKept DEF HilInv
<1>2. ASSUME HilTick PROVE Kept
  BY <1>2, KeptWithoutEvent DEF HilTick, linkVars, Stays
<1>3. ASSUME NEW a \in Adapter, NEW ev \in EvidenceId, Install(a, ev) PROVE Kept
  BY <1>3, KeptWithoutEvent DEF Install, Stays, HilInv, HilTypeOK
<1>4. ASSUME NEW a \in Adapter, Connect(a) \/ Connected(a) \/ Close(a) \/ Closed(a)
      PROVE  Kept
  BY <1>4, KeptWithoutEvent DEF Connect, Connected, Close, Closed, Stays
<1>5. ASSUME NEW a \in Adapter, NEW x \in Caller, NEW c \in CommandId, Execute(x, a, c)
      PROVE  Kept
  BY <1>5, KeptBySend
<1>6. ASSUME NEW a \in Adapter, NEW x \in Caller, NEW c \in CommandId, Repeat(x, a, c)
      PROVE  Kept
  <2>1. Stays
    BY <1>6 DEF Repeat, linkVars, Stays
  <2>2. acks[a][c] \in AckStatus /\ acks'[a][c] # NoAck
    BY <1>6 DEF Repeat, HilInv, HilTypeOK
  <2>3. QED
    BY <1>6, <2>1, <2>2, KeptByReturn DEF Repeat
<1>7. ASSUME NEW x \in Caller, Abort(x) PROVE Kept
  BY <1>7, KeptWithoutEvent DEF Abort, linkVars, Stays
<1>8. ASSUME NEW x \in Caller, NEW reply \in Reply, Answer(x, reply) PROVE Kept
  <2> DEFINE a == call[x].adapter
             c == call[x].command
             status == StatusOf(reply)
  <2>1. /\ a \in Adapter /\ c \in CommandId
        /\ status \in AckStatus /\ status # NoAck
    BY <1>8, CallTyped, StatusTyped DEF Answer, HilInv
  <2>2. /\ acks' = [acks EXCEPT ![a][c] = status]
        /\ trace' = Append(trace, Event("return", x, a, c, status))
        /\ permit' = permit
    BY <1>8 DEF Answer, Remembered, linkVars
  <2> HIDE DEF a, c, status
  <2>3. acks'[a][c] # NoAck /\ Stays
    BY <2>1, <2>2 DEF Stays, HilInv, HilTypeOK
  <2>4. QED
    BY <2>1, <2>2, <2>3, KeptByReturn
<1>9. ASSUME UNCHANGED hilVars PROVE Kept
  BY <1>9, KeptWithoutEvent DEF hilVars, linkVars, Stays
<1>10. QED
  BY <1>1, <1>2, <1>3, <1>4, <1>5, <1>6, <1>7, <1>8, <1>9 DEF HilNext, HilInv

(* The inductive invariant of the adapters.                                *)
THEOREM HilInvariant == HilSpec => []HilInv
<1>1. HilInit => HilInv
  <2>1. HilInit => HilTypeOK
    BY ClockAssumption DEF HilInit, ClockInit, HilTypeOK, ClockTypeOK
  <2>2. HilInit => Sends = {} /\ Returns = {}
    BY DEF HilInit, Sends, Returns
  <2>3. QED
    BY <2>1, <2>2
       DEF HilInv, SentUnderApproval, ReturnsRemembered, AcknowledgedNotResent
<1>2. QED
  BY <1>1, HilInvKept, PTL DEF HilSpec

(* Nothing is sent to the bench but under proven evidence whose approval   *)
(* has not expired, and that the command was authorised under.             *)
THEOREM EverySendApproved == HilSpec => []SentUnderApproval
BY HilInvariant, PTL DEF HilInv

(* A command an adapter has returned an answer for is not sent again by    *)
(* that adapter, however its calls overlapped, failed or were cut off.     *)
THEOREM NoSendAfterAck == HilSpec => []AcknowledgedNotResent
BY HilInvariant, PTL DEF HilInv

-----------------------------------------------------------------------------
(* Every answer to a command was a send of it that is in flight no more:   *)
(* the different answers and the calls in flight together are no more than *)
(* the sends, and what is in the cache has been answered.                  *)

SendsOf(a, c) == {i \in Sends : trace[i].adapter = a /\ trace[i].command = c}
ReturnsOf(a, c) == {i \in Returns : trace[i].adapter = a /\ trace[i].command = c}
InFlight(a, c) == {x \in Caller : call[x] = [adapter |-> a, command |-> c]}
Answers(a, c) == {trace[i].status : i \in ReturnsOf(a, c)}

Balanced(a, c) ==
  /\ IsFiniteSet(InFlight(a, c))
  /\ Cardinality(Answers(a, c)) + Cardinality(InFlight(a, c))
       <= Cardinality(SendsOf(a, c))
  /\ acks[a][c] # NoAck => acks[a][c] \in Answers(a, c)

AnswersUpTo(a, c, i) == {trace[k].status : k \in {n \in ReturnsOf(a, c) : n <= i}}
SendsBefore(a, c, i) == {k \in SendsOf(a, c) : k < i}

Followed(a, c) ==
  \A i \in ReturnsOf(a, c) :
    Cardinality(AnswersUpTo(a, c, i)) <= Cardinality(SendsBefore(a, c, i))

BalanceInv ==
  /\ HilTypeOK
  /\ \A a \in Adapter, c \in CommandId : Balanced(a, c) /\ Followed(a, c)

\* The sets that are counted are finite.
LEMMA CountsTyped ==
  ASSUME HilTypeOK, NEW a, NEW c
  PROVE  /\ SendsOf(a, c) \subseteq DOMAIN trace /\ ReturnsOf(a, c) \subseteq DOMAIN trace
         /\ IsFiniteSet(SendsOf(a, c)) /\ Cardinality(SendsOf(a, c)) \in Nat
         /\ IsFiniteSet(Answers(a, c)) /\ Cardinality(Answers(a, c)) \in Nat
<1>1. SendsOf(a, c) \subseteq DOMAIN trace /\ ReturnsOf(a, c) \subseteq DOMAIN trace
  BY DEF SendsOf, ReturnsOf, Sends, Returns
<1>2. DOMAIN trace = 1..Len(trace) /\ Len(trace) \in Nat
  BY DEF HilTypeOK
<1>3. IsFiniteSet(1..Len(trace))
  BY <1>2, FS_Interval
<1>4. IsFiniteSet(SendsOf(a, c)) /\ IsFiniteSet(ReturnsOf(a, c))
  BY <1>1, <1>2, <1>3, FS_Subset
<1>. DEFINE f == [i \in ReturnsOf(a, c) |-> trace[i].status]
<1>5. f \in Surjection(ReturnsOf(a, c), Answers(a, c))
  BY DEF Surjection, Answers
<1>. HIDE DEF f
<1>6. IsFiniteSet(Answers(a, c))
  BY <1>4, <1>5, FS_Surjection
<1>. QED  BY <1>1, <1>4, <1>6, FS_CardinalityType

\* What an event that is appended adds to the sends and answers of a command.
LEMMA EventCounts ==
  ASSUME HilTypeOK, NEW e \in TraceEvent, trace' = Append(trace, e),
         NEW a, NEW c, NEW n, n = Len(trace) + 1
  PROVE  /\ SendsOf(a, c)' = IF e.kind = "send" /\ e.adapter = a /\ e.command = c
                             THEN SendsOf(a, c) \cup {n} ELSE SendsOf(a, c)
         /\ ReturnsOf(a, c)' = IF e.kind = "return" /\ e.adapter = a /\ e.command = c
                               THEN ReturnsOf(a, c) \cup {n} ELSE ReturnsOf(a, c)
         /\ Answers(a, c)' = IF e.kind = "return" /\ e.adapter = a /\ e.command = c
                             THEN Answers(a, c) \cup {e.status} ELSE Answers(a, c)
         /\ n \notin SendsOf(a, c) /\ n \notin ReturnsOf(a, c) /\ n \in Nat
<1>1. /\ DOMAIN trace' = DOMAIN trace \cup {n} /\ n \notin DOMAIN trace /\ n \in Nat
      /\ \A i \in DOMAIN trace : trace'[i] = trace[i]
      /\ trace'[n] = e
  BY DEF HilTypeOK
<1>2. SendsOf(a, c) \subseteq DOMAIN trace /\ ReturnsOf(a, c) \subseteq DOMAIN trace
  BY CountsTyped
<1>3. ASSUME NEW i
      PROVE  /\ i \in SendsOf(a, c)' <=> i \in SendsOf(a, c)
                  \/ (i = n /\ e.kind = "send" /\ e.adapter = a /\ e.command = c)
             /\ i \in ReturnsOf(a, c)' <=> i \in ReturnsOf(a, c)
                  \/ (i = n /\ e.kind = "return" /\ e.adapter = a /\ e.command = c)
  <2>1. CASE i = n
    BY <1>1, <2>1 DEF SendsOf, ReturnsOf, Sends, Returns
  <2>2. CASE i # n
    BY <1>1, <2>2 DEF SendsOf, ReturnsOf, Sends, Returns
  <2>. QED  BY <2>1, <2>2
<1>4. SendsOf(a, c)' = IF e.kind = "send" /\ e.adapter = a /\ e.command = c
                       THEN SendsOf(a, c) \cup {n} ELSE SendsOf(a, c)
  BY <1>3
<1>5. ReturnsOf(a, c)' = IF e.kind = "return" /\ e.adapter = a /\ e.command = c
                         THEN ReturnsOf(a, c) \cup {n} ELSE ReturnsOf(a, c)
  BY <1>3
<1>6. \A i \in ReturnsOf(a, c) : trace'[i] = trace[i]
  BY <1>1, <1>2
<1>7. Answers(a, c)' = IF e.kind = "return" /\ e.adapter = a /\ e.command = c
                       THEN Answers(a, c) \cup {e.status} ELSE Answers(a, c)
  <2>1. CASE ReturnsOf(a, c)' = ReturnsOf(a, c)
    <3>1. Answers(a, c)' = Answers(a, c)
      BY <1>6, <2>1 DEF Answers
    <3>2. ~(e.kind = "return" /\ e.adapter = a /\ e.command = c)
      BY <1>1, <1>2, <1>5, <2>1
    <3>. QED  BY <3>1, <3>2
  <2>2. CASE /\ e.kind = "return" /\ e.adapter = a /\ e.command = c
             /\ ReturnsOf(a, c)' = ReturnsOf(a, c) \cup {n}
    <3>1. trace'[n].status = e.status
      BY <1>1
    <3>2. {trace'[i].status : i \in ReturnsOf(a, c) \cup {n}}
            = {trace[i].status : i \in ReturnsOf(a, c)} \cup {e.status}
      BY <1>6, <3>1
    <3>3. Answers(a, c)' = {trace'[i].status : i \in ReturnsOf(a, c) \cup {n}}
      BY <2>2 DEF Answers
    <3>. QED  BY <2>2, <3>2, <3>3 DEF Answers
  <2>. QED  BY <1>5, <2>1, <2>2
<1>. QED  BY <1>1, <1>2, <1>4, <1>5, <1>7

\* What stood before an event stands as it did.
LEMMA PastCounts ==
  ASSUME HilTypeOK, NEW e \in TraceEvent, trace' = Append(trace, e),
         NEW a, NEW c, NEW i \in ReturnsOf(a, c)
  PROVE  /\ AnswersUpTo(a, c, i)' = AnswersUpTo(a, c, i)
         /\ SendsBefore(a, c, i)' = SendsBefore(a, c, i)
<1>1. PICK n : n = Len(trace) + 1
  OBVIOUS
<1>2. /\ \A k \in DOMAIN trace : trace'[k] = trace[k] /\ k < n /\ k \in Nat
      /\ i \in DOMAIN trace /\ n \in Nat
      /\ ReturnsOf(a, c) \subseteq DOMAIN trace
  BY <1>1, CountsTyped DEF HilTypeOK
<1>3. /\ SendsOf(a, c)' = SendsOf(a, c) \/ SendsOf(a, c)' = SendsOf(a, c) \cup {n}
      /\ ReturnsOf(a, c)' = ReturnsOf(a, c) \/ ReturnsOf(a, c)' = ReturnsOf(a, c) \cup {n}
  BY <1>1, EventCounts
<1>4. ~(n <= i) /\ ~(n < i)
  BY <1>2
<1>5. {k \in ReturnsOf(a, c)' : k <= i} = {k \in ReturnsOf(a, c) : k <= i}
  BY <1>3, <1>4
<1>6. SendsBefore(a, c, i)' = SendsBefore(a, c, i)
  BY <1>3, <1>4 DEF SendsBefore
<1>7. AnswersUpTo(a, c, i)' = AnswersUpTo(a, c, i)
  BY <1>2, <1>5 DEF AnswersUpTo
<1>. QED  BY <1>6, <1>7

\* A return that leaves no more answers than sends leaves them so to its time.
LEMMA FollowedOn ==
  ASSUME HilTypeOK, NEW e \in TraceEvent, trace' = Append(trace, e), HilTypeOK',
         NEW a, NEW c, Followed(a, c),
         Cardinality(Answers(a, c)') <= Cardinality(SendsOf(a, c)')
  PROVE  Followed(a, c)'
<1>1. PICK n : n = Len(trace) + 1
  OBVIOUS
<1>2. ASSUME NEW i \in ReturnsOf(a, c)
      PROVE  Cardinality(AnswersUpTo(a, c, i)') <= Cardinality(SendsBefore(a, c, i)')
  BY PastCounts DEF Followed
<1>3. CASE ReturnsOf(a, c)' = ReturnsOf(a, c)
  BY <1>2, <1>3 DEF Followed
<1>4. CASE e.kind = "return" /\ ReturnsOf(a, c)' = ReturnsOf(a, c) \cup {n}
  <2>1. /\ \A k \in DOMAIN trace : k < n /\ k \in Nat
        /\ SendsOf(a, c) \subseteq DOMAIN trace /\ ReturnsOf(a, c) \subseteq DOMAIN trace
        /\ SendsOf(a, c)' = SendsOf(a, c) /\ n \in Nat
    BY <1>1, <1>4, CountsTyped, EventCounts DEF HilTypeOK
  <2>2. SendsBefore(a, c, n)' = SendsOf(a, c)'
    BY <2>1 DEF SendsBefore
  <2>3. {k \in ReturnsOf(a, c)' : k <= n} = ReturnsOf(a, c)'
    BY <1>4, <2>1
  <2>4. AnswersUpTo(a, c, n)' = Answers(a, c)'
    BY <2>3 DEF AnswersUpTo, Answers
  <2>. QED  BY <1>2, <1>4, <2>2, <2>4 DEF Followed
<1>. QED  BY <1>1, <1>3, <1>4, EventCounts

\* A step without an event: no call begins, and the cache stays.
LEMMA BalanceWithoutEvent ==
  ASSUME HilTypeOK, NEW a \in Adapter, NEW c \in CommandId,
         Balanced(a, c), Followed(a, c), UNCHANGED <<trace, acks>>,
         InFlight(a, c)' \subseteq InFlight(a, c)
  PROVE  Balanced(a, c)' /\ Followed(a, c)'
<1>1. /\ SendsOf(a, c)' = SendsOf(a, c) /\ ReturnsOf(a, c)' = ReturnsOf(a, c)
      /\ Answers(a, c)' = Answers(a, c)
  BY DEF SendsOf, ReturnsOf, Sends, Returns, Answers
<1>2. /\ IsFiniteSet(InFlight(a, c)')
      /\ Cardinality(InFlight(a, c)') <= Cardinality(InFlight(a, c))
      /\ Cardinality(InFlight(a, c)) \in Nat /\ Cardinality(InFlight(a, c)') \in Nat
  BY FS_Subset, FS_CardinalityType DEF Balanced
<1>3. Balanced(a, c)'
  BY <1>1, <1>2, CountsTyped DEF Balanced
<1>4. Followed(a, c)'
  BY <1>1 DEF Followed, AnswersUpTo, SendsBefore
<1>. QED  BY <1>3, <1>4

\* A caller that calls nothing has no call in flight.
LEMMA NoCallIsNone ==
  ASSUME NEW a, NEW c PROVE NoCall # [adapter |-> a, command |-> c]
<1>1. DOMAIN NoCall = {"adapter"} /\ DOMAIN [adapter |-> a, command |-> c] = {"adapter", "command"}
  BY DEF NoCall
<1>2. "command" \notin {"adapter"}
  OBVIOUS
<1>. QED  BY <1>1, <1>2

\* A send is in flight.
LEMMA BalanceOnSend ==
  ASSUME HilTypeOK, HilTypeOK', NEW x \in Caller, NEW b \in Adapter, NEW d \in CommandId,
         Execute(x, b, d), NEW a \in Adapter, NEW c \in CommandId,
         Balanced(a, c), Followed(a, c)
  PROVE  Balanced(a, c)' /\ Followed(a, c)'
<1>1. PICK n : n = Len(trace) + 1
  OBVIOUS
<1>2. PICK e \in TraceEvent :
        /\ e.kind = "send" /\ e.adapter = b /\ e.command = d
        /\ trace' = Append(trace, e)
  BY EventTyped DEF Execute, Event
<1>3. Answers(a, c)' = Answers(a, c)
  BY <1>1, <1>2, EventCounts
<1>4. call[x] = NoCall /\ call' = [call EXCEPT ![x] = [adapter |-> b, command |-> d]]
      /\ acks' = acks
  BY DEF Execute
<1>5. x \notin InFlight(a, c)
  BY <1>4, NoCallIsNone DEF InFlight
<1>6. CASE a = b /\ c = d
  <2>1. SendsOf(a, c)' = SendsOf(a, c) \cup {n} /\ n \notin SendsOf(a, c)
    BY <1>1, <1>2, <1>6, EventCounts
  <2>2. InFlight(a, c)' = InFlight(a, c) \cup {x}
    BY <1>4, <1>6 DEF InFlight, HilTypeOK
  <2>3. /\ IsFiniteSet(InFlight(a, c)') /\ Cardinality(InFlight(a, c)) \in Nat
        /\ Cardinality(InFlight(a, c)') = Cardinality(InFlight(a, c)) + 1
    BY <1>5, <2>2, FS_AddElement, FS_CardinalityType DEF Balanced
  <2>4. /\ Cardinality(SendsOf(a, c)') = Cardinality(SendsOf(a, c)) + 1
        /\ Cardinality(SendsOf(a, c)) \in Nat /\ Cardinality(Answers(a, c)) \in Nat
    BY <2>1, CountsTyped, FS_AddElement
  <2>5. Balanced(a, c)'
    BY <1>3, <1>4, <2>3, <2>4 DEF Balanced
  <2>6. Cardinality(Answers(a, c)') <= Cardinality(SendsOf(a, c)')
    BY <1>3, <2>3, <2>4 DEF Balanced
  <2>. QED  BY <1>2, <2>5, <2>6, FollowedOn
<1>7. CASE ~(a = b /\ c = d)
  <2>1. SendsOf(a, c)' = SendsOf(a, c)
    BY <1>1, <1>2, <1>7, EventCounts
  <2>2. InFlight(a, c)' = InFlight(a, c)
    BY <1>4, <1>5, <1>7 DEF InFlight, HilTypeOK
  <2>3. /\ Cardinality(SendsOf(a, c)) \in Nat /\ Cardinality(Answers(a, c)) \in Nat
        /\ Cardinality(InFlight(a, c)) \in Nat
    BY CountsTyped, FS_CardinalityType DEF Balanced
  <2>5. Balanced(a, c)'
    BY <1>3, <1>4, <2>1, <2>2 DEF Balanced
  <2>6. Cardinality(Answers(a, c)') <= Cardinality(SendsOf(a, c)')
    BY <1>3, <2>1, <2>3 DEF Balanced
  <2>. QED  BY <1>2, <2>5, <2>6, FollowedOn
<1>. QED  BY <1>6, <1>7

\* A return from the cache says what has been said.
LEMMA BalanceOnRepeat ==
  ASSUME HilTypeOK, HilTypeOK', NEW x \in Caller, NEW b \in Adapter, NEW d \in CommandId,
         Repeat(x, b, d), NEW a \in Adapter, NEW c \in CommandId,
         Balanced(b, d), Balanced(a, c), Followed(a, c)
  PROVE  Balanced(a, c)' /\ Followed(a, c)'
<1>1. PICK n : n = Len(trace) + 1
  OBVIOUS
<1>2. acks[b][d] \in AckStatus /\ acks[b][d] \in Answers(b, d)
  BY DEF Repeat, HilTypeOK, Balanced
<1>3. PICK e \in TraceEvent :
        /\ e.kind = "return" /\ e.adapter = b /\ e.command = d /\ e.status = acks[b][d]
        /\ trace' = Append(trace, e)
  BY <1>2, EventTyped DEF Repeat, Event
<1>4. SendsOf(a, c)' = SendsOf(a, c)
  BY <1>1, <1>3, EventCounts
<1>9. Answers(a, c)' = Answers(a, c)
  <2>1. CASE a = b /\ c = d
    <3>1. Answers(a, c)' = Answers(a, c) \cup {acks[b][d]}
      BY <1>1, <1>3, <2>1, EventCounts
    <3>. QED  BY <1>2, <2>1, <3>1
  <2>2. CASE ~(a = b /\ c = d)
    BY <1>1, <1>3, <2>2, EventCounts
  <2>. QED  BY <2>1, <2>2
<1>5. InFlight(a, c)' = InFlight(a, c) /\ acks' = acks
  BY DEF Repeat, InFlight
<1>6. Balanced(a, c)'
  BY <1>4, <1>5, <1>9 DEF Balanced
<1>7. Cardinality(Answers(a, c)') <= Cardinality(SendsOf(a, c)')
  <2>1. /\ Cardinality(SendsOf(a, c)) \in Nat /\ Cardinality(Answers(a, c)) \in Nat
        /\ Cardinality(InFlight(a, c)) \in Nat
    BY CountsTyped, FS_CardinalityType DEF Balanced
  <2>. QED  BY <1>4, <1>9, <2>1 DEF Balanced
<1>. QED  BY <1>3, <1>6, <1>7, FollowedOn

\* An answer takes its call out of flight.
LEMMA BalanceOnAnswer ==
  ASSUME HilTypeOK, HilTypeOK', NEW x \in Caller, NEW reply \in Reply,
         Answer(x, reply), NEW a \in Adapter, NEW c \in CommandId,
         Balanced(a, c), Followed(a, c)
  PROVE  Balanced(a, c)' /\ Followed(a, c)'
<1>1. PICK n : n = Len(trace) + 1
  OBVIOUS
<1>2. PICK b \in Adapter, d \in CommandId : call[x] = [adapter |-> b, command |-> d]
  BY DEF Answer, HilTypeOK
<1>3. PICK status \in AckStatus : status = StatusOf(reply)
  BY StatusTyped
<1>4. /\ acks' = [acks EXCEPT ![b][d] = status]
      /\ trace' = Append(trace, Event("return", x, b, d, status))
      /\ call' = [call EXCEPT ![x] = NoCall]
  BY <1>2, <1>3 DEF Answer, Remembered
<1>5. PICK e \in TraceEvent :
        /\ e.kind = "return" /\ e.adapter = b /\ e.command = d /\ e.status = status
        /\ trace' = Append(trace, e)
  BY <1>4, EventTyped DEF Event
<1>6. SendsOf(a, c)' = SendsOf(a, c)
  BY <1>1, <1>5, EventCounts
<1>7. /\ Cardinality(SendsOf(a, c)) \in Nat /\ IsFiniteSet(Answers(a, c))
      /\ Cardinality(Answers(a, c)) \in Nat
      /\ IsFiniteSet(InFlight(a, c)) /\ Cardinality(InFlight(a, c)) \in Nat
  BY CountsTyped, FS_CardinalityType DEF Balanced
<1>8. InFlight(a, c)' = InFlight(a, c) \ {x}
  BY <1>4, NoCallIsNone DEF InFlight, HilTypeOK
<1>9. CASE a = b /\ c = d
  <2>1. Answers(a, c)' = Answers(a, c) \cup {status}
    BY <1>1, <1>5, <1>9, EventCounts
  <2>2. x \in InFlight(a, c)
    BY <1>2, <1>9 DEF InFlight
  <2>3. /\ IsFiniteSet(InFlight(a, c)')
        /\ Cardinality(InFlight(a, c)') = Cardinality(InFlight(a, c)) - 1
    BY <1>7, <1>8, <2>2, FS_RemoveElement
  <2>4. /\ Cardinality(Answers(a, c)') <= Cardinality(Answers(a, c)) + 1
        /\ Cardinality(Answers(a, c)') \in Nat
    <3>1. /\ IsFiniteSet(Answers(a, c) \cup {status})
          /\ \/ Cardinality(Answers(a, c) \cup {status}) = Cardinality(Answers(a, c))
             \/ Cardinality(Answers(a, c) \cup {status}) = Cardinality(Answers(a, c)) + 1
      BY <1>7, FS_AddElement
    <3>. QED  BY <1>7, <2>1, <3>1
  <2>5. acks'[a][c] \in Answers(a, c)'
    BY <1>4, <1>9, <2>1 DEF HilTypeOK
  <2>6. Cardinality(InFlight(a, c)') \in Nat
    BY <2>3, FS_CardinalityType
  <2>7. Cardinality(Answers(a, c)') + Cardinality(InFlight(a, c)')
          <= Cardinality(SendsOf(a, c)')
    BY <1>6, <1>7, <2>3, <2>4, <2>6 DEF Balanced
  <2>8. Cardinality(Answers(a, c)') <= Cardinality(SendsOf(a, c)')
    BY <1>6, <1>7, <2>4, <2>6, <2>7
  <2>9. Balanced(a, c)'
    BY <2>3, <2>5, <2>7 DEF Balanced
  <2>. QED  BY <1>5, <2>8, <2>9, FollowedOn
<1>10. CASE ~(a = b /\ c = d)
  <2>1. Answers(a, c)' = Answers(a, c)
    BY <1>1, <1>5, <1>10, EventCounts
  <2>2. x \notin InFlight(a, c)
    BY <1>2, <1>10 DEF InFlight
  <2>3. InFlight(a, c)' = InFlight(a, c)
    BY <1>8, <2>2
  <2>4. acks'[a][c] = acks[a][c]
    BY <1>4, <1>10 DEF HilTypeOK
  <2>5. Balanced(a, c)'
    BY <1>6, <2>1, <2>3, <2>4 DEF Balanced
  <2>6. Cardinality(Answers(a, c)') <= Cardinality(SendsOf(a, c)')
    BY <1>6, <1>7, <2>1 DEF Balanced
  <2>. QED  BY <1>5, <2>5, <2>6, FollowedOn
<1>. QED  BY <1>9, <1>10

\* Every action by itself: most let no call begin and answer nothing.
LEMMA BalanceKept == BalanceInv /\ [HilNext]_hilVars => BalanceInv'
<1>. SUFFICES ASSUME BalanceInv, [HilNext]_hilVars PROVE BalanceInv'
  OBVIOUS
<1>. DEFINE Kept == \A a \in Adapter, c \in CommandId : Balanced(a, c)' /\ Followed(a, c)'
<1>1. HilTypeOK /\ HilTypeOK'
  BY TypesKept DEF BalanceInv
<1>2. \A a \in Adapter, c \in CommandId : Balanced(a, c) /\ Followed(a, c)
  BY DEF BalanceInv
<1>3. ASSUME UNCHANGED <<call, acks, trace>> PROVE Kept
  <2>1. \A a, c : InFlight(a, c)' = InFlight(a, c)
    BY <1>3 DEF InFlight
  <2>2. UNCHANGED <<trace, acks>>
    BY <1>3
  <2>. QED  BY <1>1, <1>2, <2>1, <2>2, BalanceWithoutEvent
<1>4. ASSUME HilTick PROVE Kept
  BY <1>3, <1>4 DEF HilTick
<1>5. ASSUME NEW a \in Adapter, NEW ev \in EvidenceId, Install(a, ev) PROVE Kept
  BY <1>3, <1>5 DEF Install
<1>6. ASSUME NEW a \in Adapter, Connect(a) \/ Connected(a) \/ Close(a) \/ Closed(a)
      PROVE  Kept
  BY <1>3, <1>6 DEF Connect, Connected, Close, Closed
<1>7. ASSUME NEW b \in Adapter, NEW x \in Caller, NEW d \in CommandId, Execute(x, b, d)
      PROVE  Kept
  BY <1>1, <1>2, <1>7, BalanceOnSend
<1>8. ASSUME NEW b \in Adapter, NEW x \in Caller, NEW d \in CommandId, Repeat(x, b, d)
      PROVE  Kept
  BY <1>1, <1>2, <1>8, BalanceOnRepeat
<1>9. ASSUME NEW x \in Caller, Abort(x) PROVE Kept
  <2>1. \A a, c : InFlight(a, c)' \subseteq InFlight(a, c)
    BY <1>1, <1>9, NoCallIsNone DEF Abort, InFlight, HilTypeOK
  <2>2. UNCHANGED <<trace, acks>>
    BY <1>9 DEF Abort
  <2>. QED  BY <1>1, <1>2, <2>1, <2>2, BalanceWithoutEvent
<1>10. ASSUME NEW x \in Caller, NEW reply \in Reply, Answer(x, reply) PROVE Kept
  BY <1>1, <1>2, <1>10, BalanceOnAnswer
<1>11. ASSUME UNCHANGED hilVars PROVE Kept
  BY <1>3, <1>11 DEF hilVars
<1>12. Kept
  BY <1>3, <1>4, <1>5, <1>6, <1>7, <1>8, <1>9, <1>10, <1>11 DEF HilNext
<1>. QED  BY <1>1, <1>12 DEF BalanceInv

(* The different answers that were returned for a command, and its calls   *)
(* in flight, are together no more than the sends of the command.          *)
THEOREM AnswersBalanced == HilSpec => []BalanceInv
<1>1. HilInit => BalanceInv
  <2>. SUFFICES ASSUME HilInit PROVE BalanceInv
    OBVIOUS
  <2>1. HilTypeOK
    BY ClockAssumption DEF HilInit, ClockInit, HilTypeOK, ClockTypeOK
  <2>2. ASSUME NEW a \in Adapter, NEW c \in CommandId
        PROVE  Balanced(a, c) /\ Followed(a, c)
    <3>1. SendsOf(a, c) = {} /\ ReturnsOf(a, c) = {}
      BY DEF HilInit, SendsOf, ReturnsOf, Sends, Returns
    <3>2. InFlight(a, c) = {}
      BY NoCallIsNone DEF HilInit, InFlight
    <3>3. Answers(a, c) = {} /\ acks[a][c] = NoAck
      BY <3>1 DEF HilInit, Answers
    <3>4. Cardinality({}) = 0 /\ IsFiniteSet({})
      BY FS_EmptySet
    <3>. QED  BY <3>1, <3>2, <3>3, <3>4 DEF Balanced, Followed
  <2>. QED  BY <2>1, <2>2 DEF BalanceInv
<1>. QED  BY <1>1, BalanceKept, PTL DEF HilSpec

(* No adapter returns more different answers for a command than it sent it *)
(* to the bench before, however calls of it overlap and repeat: each new   *)
(* answer stands for a send of its own.                                    *)
THEOREM AnswersAreFromTheBench == HilSpec => []ReturnsFollowSends
<1>1. BalanceInv => ReturnsFollowSends
  BY DEF BalanceInv, Followed, ReturnsFollowSends, AnswersUpTo, SendsBefore,
         ReturnsOf, SendsOf
<1>. QED  BY <1>1, AnswersBalanced, PTL

=============================================================================
