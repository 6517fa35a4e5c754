----------------------------- MODULE HilAdapter -----------------------------
(***************************************************************************)
(* MavlinkHilAdapter (src/low_altitude_ai/adapters/flight_control/         *)
(* mavlink_hil.py) behind HilReadinessGate (src/low_altitude_ai/hil/       *)
(* readiness.py).  An adapter is made with a permit, connects, and sends   *)
(* the commands it is given to a transport; connect(), execute() and       *)
(* close() await the transport once each, so several calls overlap.        *)
(*                                                                         *)
(* "Adapter" may hold several instances one after the other or side by     *)
(* side: a restarted or renewed adapter is a new one, with an empty cache. *)
(***************************************************************************)
EXTENDS SimClock, Sequences, FiniteSets

CONSTANTS
  Adapter,          \* adapter instances
  Caller,           \* tasks that call execute()
  EvidenceId,       \* sets of bench evidence
  Bench,            \* their contents
  CommandId,        \* control commands
  Command,          \* their contents
  NoPermit,         \* in the place of evidence: the adapter does not exist
  MaxTrace          \* bound: no call begins once the trace is this long

(* "proven": every check of evaluate() but the expiry holds, among them    *)
(* mode HIL, a REAL endpoint and two different people's approval.  The     *)
(* token hashes all of the evidence, so the evidence stands for it.        *)
BenchRecord == [proven: BOOLEAN, endpoint: STRING, approvedUntil: Nat]

\* "wellFormed": schema, quality, a REAL endpoint kind and, for an action
\* that flies a path, at least one setpoint.
CommandRecord ==
  [wellFormed: BOOLEAN, mode: {"SIM", "REPLAY", "HIL", "LIVE"},
   endpoint: STRING, token: EvidenceId, deadline: Nat]

ASSUME HilAssumption ==
  /\ Bench \in [EvidenceId -> BenchRecord]
  /\ Command \in [CommandId -> CommandRecord]
  /\ NoPermit \notin EvidenceId
  /\ MaxTrace \in Nat

VARIABLES
  permit,           \* MavlinkHilAdapter._permit
  connected,        \* MavlinkHilAdapter._connected
  connecting,       \* adapters with a connect(), or several, that awaits
  closing,          \* adapters with a close(), or several, that awaits
  acks,             \* MavlinkHilAdapter._acks: status by command
  call,             \* the execute() each caller has in send_action()
  trace             \* actions sent and acks returned, in order

linkVars == <<permit, connected, connecting, closing>>
hilVars == <<now, linkVars, acks, call, trace>>

NoAck == "none"     \* the command has no entry in _acks
NoCall == [adapter |-> "none"]

\* ACCEPTED stands for EXECUTING and COMPLETED as well.
AckStatus == {"ACCEPTED", "REJECTED", "TIMEOUT"}

\* What send_action() may return; anything unknown becomes REJECTED.
Reply == AckStatus \cup {"garbled"}
StatusOf(reply) == IF reply \in AckStatus THEN reply ELSE "REJECTED"

Sends == {i \in DOMAIN trace : trace[i].kind = "send"}
Returns == {i \in DOMAIN trace : trace[i].kind = "return"}

HilInit ==
  /\ ClockInit
  /\ permit = [a \in Adapter |-> NoPermit]
  /\ connected = [a \in Adapter |-> FALSE]
  /\ connecting = {}
  /\ closing = {}
  /\ acks = [a \in Adapter |-> [c \in CommandId |-> NoAck]]
  /\ call = [x \in Caller |-> NoCall]
  /\ trace = <<>>

HilTick ==
  /\ \E s \in Steps : Advance(s)
  /\ UNCHANGED <<linkVars, acks, call, trace>>

-----------------------------------------------------------------------------
(* The gate, and the life of an adapter.                                   *)

\* evaluate() finds no blocker.
Ready(ev) == Bench[ev].proven /\ Bench[ev].approvedUntil > now

\* issue_permit() for the evidence, and an adapter made with the permit.
Install(a, ev) ==
  /\ permit[a] = NoPermit
  /\ Ready(ev)
  /\ permit' = [permit EXCEPT ![a] = ev]
  /\ UNCHANGED <<now, connected, connecting, closing, acks, call, trace>>

Connect(a) ==
  /\ permit[a] # NoPermit
  /\ Bench[permit[a]].approvedUntil > now
  /\ connecting' = connecting \cup {a}
  /\ UNCHANGED <<now, permit, connected, closing, acks, call, trace>>

\* A connect() ends; another may still await.  The transport may have failed.
Connected(a) ==
  /\ a \in connecting
  /\ connecting' \in {connecting, connecting \ {a}}
  /\ \E succeeds \in BOOLEAN : connected' = [connected EXCEPT ![a] = @ \/ succeeds]
  /\ UNCHANGED <<now, permit, closing, acks, call, trace>>

\* close() of an adapter that is not connected does nothing.
Close(a) ==
  /\ connected[a]
  /\ closing' = closing \cup {a}
  /\ UNCHANGED <<now, permit, connected, connecting, acks, call, trace>>

\* A close() ends; another may still await.  If the transport failed, the
\* adapter stays connected.
Closed(a) ==
  /\ a \in closing
  /\ closing' \in {closing, closing \ {a}}
  /\ \E succeeds \in BOOLEAN : connected' = [connected EXCEPT ![a] = @ /\ ~succeeds]
  /\ UNCHANGED <<now, permit, connecting, acks, call, trace>>

-----------------------------------------------------------------------------
(* execute().                                                              *)

\* Mutant: connect() has looked at the permit's expiry already.
Admissible_ConnectChecked(a, c) ==
  /\ Command[c].wellFormed
  /\ Command[c].mode = "HIL"
  /\ Command[c].endpoint = Bench[permit[a]].endpoint
  /\ Command[c].token = permit[a]
  /\ Command[c].deadline > now

Admissible(a, c) ==
  /\ Command[c].wellFormed
  /\ Command[c].mode = "HIL"
  /\ Command[c].endpoint = Bench[permit[a]].endpoint
  /\ Command[c].token = permit[a]
  /\ Command[c].deadline > now
  /\ Bench[permit[a]].approvedUntil > now

Event(kind, x, a, c, status) ==
  [kind |-> kind, caller |-> x, adapter |-> a, command |-> c,
   status |-> status, at |-> now]

(* A call that is not answered from the cache, up to send_action().  A     *)
(* call that fails a check raises and changes nothing.                     *)
Execute(x, a, c) ==
  /\ call[x] = NoCall
  /\ connected[a]
  /\ acks[a][c] = NoAck
  /\ Admissible(a, c)
  /\ Len(trace) < MaxTrace
  /\ call' = [call EXCEPT ![x] = [adapter |-> a, command |-> c]]
  /\ trace' = Append(trace, Event("send", x, a, c, NoAck))
  /\ UNCHANGED <<now, linkVars, acks>>

\* A call that is answered from the cache: before any other check.
Repeat(x, a, c) ==
  /\ call[x] = NoCall
  /\ connected[a]
  /\ acks[a][c] # NoAck
  /\ Len(trace) < MaxTrace
  /\ trace' = Append(trace, Event("return", x, a, c, acks[a][c]))
  /\ UNCHANGED <<now, linkVars, acks, call>>

\* Mutant: only an applied command is remembered.
Remembered_AppliedOnly(status, old) == IF status = "ACCEPTED" THEN status ELSE old

\* Mutant: an answered command is remembered as carried out.
Remembered_Optimistic(status, old) == "ACCEPTED"

\* What _acks holds for the command: the last ack overwrites.
Remembered(status, old) == status

\* send_action() returns, and execute() with it.
Answer(x, reply) ==
  /\ call[x] # NoCall
  /\ LET a == call[x].adapter
         c == call[x].command
         status == StatusOf(reply)
     IN  /\ acks' = [acks EXCEPT ![a][c] = Remembered(status, @)]
         /\ trace' = Append(trace, Event("return", x, a, c, status))
  /\ call' = [call EXCEPT ![x] = NoCall]
  /\ UNCHANGED <<now, linkVars>>

\* send_action() raises, or the caller's own timeout cancels execute().
Abort(x) ==
  /\ call[x] # NoCall
  /\ call' = [call EXCEPT ![x] = NoCall]
  /\ UNCHANGED <<now, linkVars, acks, trace>>

HilNext ==
  \/ HilTick
  \/ \E a \in Adapter :
       \/ \E ev \in EvidenceId : Install(a, ev)
       \/ Connect(a) \/ Connected(a) \/ Close(a) \/ Closed(a)
       \/ \E x \in Caller, c \in CommandId : Execute(x, a, c) \/ Repeat(x, a, c)
  \/ \E x \in Caller : Abort(x) \/ \E reply \in Reply : Answer(x, reply)

HilSpec == HilInit /\ [][HilNext]_hilVars

-----------------------------------------------------------------------------
(* Properties.                                                             *)

TraceEvent ==
  [kind: {"send", "return"}, caller: Caller, adapter: Adapter,
   command: CommandId, status: AckStatus \cup {NoAck}, at: Nat]

\* Includes that a permit is only ever held for proven evidence and that an
\* adapter without a permit has no connection.
HilTypeOK ==
  /\ ClockTypeOK
  /\ permit \in [Adapter -> EvidenceId \cup {NoPermit}]
  /\ connected \in [Adapter -> BOOLEAN]
  /\ connecting \subseteq Adapter
  /\ closing \subseteq Adapter
  /\ \A a \in Adapter :
       IF permit[a] = NoPermit
       THEN ~connected[a] /\ a \notin connecting \cup closing
       ELSE Bench[permit[a]].proven
  /\ acks \in [Adapter -> [CommandId -> AckStatus \cup {NoAck}]]
  /\ call \in [Caller -> {NoCall} \cup [adapter: Adapter, command: CommandId]]
  /\ trace \in Seq(TraceEvent)

(* Whatever was approved, connected or cached earlier: at the instant an   *)
(* action goes to the bench, the evidence behind the permit is proven and  *)
(* its approval unexpired, and the command was authorised under that very  *)
(* evidence, for that endpoint, in HIL, before its deadline (ADR 0007,     *)
(* items 1 to 3).  A permit that expires while connected stops the sends.  *)
SentUnderApproval ==
  \A i \in Sends :
    LET ev == permit[trace[i].adapter]
        c == Command[trace[i].command]
    IN  /\ ev # NoPermit /\ Bench[ev].proven
        /\ trace[i].at < Bench[ev].approvedUntil
        /\ trace[i].at < c.deadline
        /\ c.token = ev /\ c.endpoint = Bench[ev].endpoint /\ c.mode = "HIL"

(* Once an adapter has returned an ack for a command, to any caller, it    *)
(* never sends the command again: not after a rejection or a timeout, and  *)
(* not after a reconnect.                                                  *)
AcknowledgedNotResent ==
  \A i \in Returns, j \in Sends :
    trace[i].adapter = trace[j].adapter /\ trace[i].command = trace[j].command
      => j < i

(* What a return says was said by the transport: for each ack returned,    *)
(* the adapter had sent the command, and each status is one of a send that *)
(* was answered: no more different answers than sends.                     *)
ReturnsFollowSends ==
  \A a \in Adapter, c \in CommandId :
    LET of(S) == {i \in S : trace[i].adapter = a /\ trace[i].command = c}
    IN  \A i \in of(Returns) :
          Cardinality({trace[k].status : k \in {n \in of(Returns) : n <= i}})
            <= Cardinality({k \in of(Sends) : k < i})

(* As documented (02_DATA_FLOW.md section 10): a repeated command returns  *)
(* the same result and does not repeat its side effect.  Two execute()     *)
(* calls that overlap, or one after a call that was cut off, both send.    *)
RepeatedCommandSentOnce ==
  \A i, j \in Sends :
    trace[i].adapter = trace[j].adapter /\ trace[i].command = trace[j].command
      => i = j
=============================================================================
