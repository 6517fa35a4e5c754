------------------------------- MODULE Console -------------------------------
(***************************************************************************)
(* The operator console: a store (UiStore) under a live connection, or     *)
(* under a ReplayController (src/low_altitude_ai/ui/replay.py), and the    *)
(* UiCommandClient (ui/command_client.py) that sends commands on what the  *)
(* store shows.  Which of the two the console is, is the store's mode.     *)
(* The live connection itself is the caller's: it may hand over events in  *)
(* any order, repeat and lose them, and call the store's methods at any    *)
(* time.                                                                   *)
(***************************************************************************)
EXTENDS UiStore

CONSTANTS
  Recorded,         \* the events a ReplayController is given, in any order
  Feed,             \* the events a live connection may deliver
  Snapshots,        \* sequences of events that a query for a snapshot returns
  Cursors,          \* cursors handed to complete_sync
  MaxDelivered,     \* bound: events delivered in a live session
  MaxSent           \* bound: commands sent

ASSUME ConsoleAssumption ==
  /\ Recorded \in Seq(EventId)
  /\ \A i \in DOMAIN Recorded :
       Event[Recorded[i]].mode = "REPLAY"            \* checked by the controller
  /\ Feed \subseteq EventId
  /\ Snapshots \subseteq Seq(Feed)
  /\ Cursors \subseteq Nat
  /\ MaxDelivered \in Nat /\ MaxSent \in Nat

VARIABLES
  store,            \* the UiStateStore
  position,         \* ReplayController._position
  paused,           \* ReplayController._paused
  sent,             \* UiCommandClient._sent_count
  delivered,        \* history: every event handed to apply()
  base,             \* history: how many of them came before the last reset
  syncedAt          \* history: how many came before the last complete_sync()

consoleVars == <<store, position, paused, sent, delivered, base, syncedAt>>
replayVars == <<position, paused>>

\* The i-th event that was given is sorted before the j-th; an event that
\* was given twice stays in the recording twice.
Before(i, j) ==
  LET d == Recorded[i]
      e == Recorded[j]
  IN  \/ Event[d].receivedAt < Event[e].receivedAt
      \/ Event[d].receivedAt = Event[e].receivedAt /\ d < e
      \/ d = e /\ i < j

Order ==
  CHOOSE r \in [DOMAIN Recorded -> DOMAIN Recorded] :
    \A i, j \in DOMAIN r : i < j => Before(r[i], r[j])

\* The events sorted by (received_at, event_id).
Recording == [i \in DOMAIN Recorded |-> Recorded[Order[i]]]

ConsoleInit ==
  /\ store \in {NewStore("SIM"), CompleteSync(NewStore("REPLAY"), 0)}
  /\ position = 0 /\ paused = TRUE /\ sent = 0
  /\ delivered = <<>> /\ base = 0 /\ syncedAt = 0

-----------------------------------------------------------------------------
(* The live connection.                                                    *)

Live == store.mode # "REPLAY"

\* begin_connect, begin_sync, degrade and disconnect.
SetConnection ==
  /\ Live
  /\ \E c \in {"CONNECTING", "SYNCING", "DEGRADED", "DISCONNECTED"} :
       store' = Connection(store, c)
  /\ UNCHANGED <<replayVars, sent, delivered, base, syncedAt>>

Synced ==
  /\ Live
  /\ \E cursor \in Cursors : store' = CompleteSync(store, cursor)
  /\ syncedAt' = Len(delivered)
  /\ UNCHANGED <<replayVars, sent, delivered, base>>

Reset ==
  /\ Live
  /\ store' = ResetForResync(store)
  /\ base' = Len(delivered)
  /\ UNCHANGED <<replayVars, sent, delivered, syncedAt>>

Receive ==
  /\ Live
  /\ Len(delivered) < MaxDelivered
  /\ \E e \in Feed :
       /\ store' = Apply(store, e)
       /\ delivered' = Append(delivered, e)
  /\ UNCHANGED <<replayVars, sent, base, syncedAt>>

\* apply_snapshot(): a resynchronisation in one call.
Resync ==
  /\ Live
  /\ \E events \in Snapshots, cursor \in Cursors :
       /\ Len(delivered) + Len(events) <= MaxDelivered
       /\ store' = CompleteSync(ApplyAll(ResetForResync(store), events), cursor)
       /\ base' = Len(delivered)
       /\ delivered' = delivered \o events
       /\ syncedAt' = Len(delivered')
  /\ UNCHANGED <<replayVars, sent>>

\* UiCommandClient.send(): what the service makes of it is module Management's.
SendCommand ==
  /\ store.connection = "LIVE"
  /\ CommandsEnabled(store)
  /\ sent < MaxSent
  /\ sent' = sent + 1
  /\ UNCHANGED <<store, replayVars, delivered, base, syncedAt>>

-----------------------------------------------------------------------------
(* The replay controller.                                                  *)

TogglePause ==
  /\ ~Live
  /\ paused' = ~paused
  /\ UNCHANGED <<store, position, sent, delivered, base, syncedAt>>

UpTo(t) == Cardinality({i \in DOMAIN Recorded : Event[Recorded[i]].receivedAt <= t})

\* Mutant: the new position is reached without a new store.
Seek_KeepsStore(t) ==
  /\ position' = UpTo(t)
  /\ delivered' = SubSeq(Recording, 1, UpTo(t))
  /\ store' = CompleteSync(ApplyAll(Connection(store, "SYNCING"), delivered'),
                           UpTo(t))

Seek(t) ==
  /\ position' = UpTo(t)
  /\ delivered' = SubSeq(Recording, 1, UpTo(t))
  /\ store' = CompleteSync(
       ApplyAll(Connection(NewStore("REPLAY"), "SYNCING"), delivered'), UpTo(t))

SeekTo ==
  /\ ~Live
  /\ \E t \in {0} \cup {Event[e].receivedAt : e \in Range(Recorded)} : Seek(t)
  /\ UNCHANGED <<paused, sent, base, syncedAt>>

Step ==
  /\ ~Live
  /\ position < Len(Recording)
  /\ LET e == Recording[position + 1] IN
       /\ store' = CompleteSync(Apply(store, e), position + 1)
       /\ delivered' = Append(delivered, e)
  /\ position' = position + 1
  /\ UNCHANGED <<paused, sent, base, syncedAt>>

ConsoleNext ==
  \/ SetConnection \/ Synced \/ Reset \/ Receive \/ Resync \/ SendCommand
  \/ TogglePause \/ SeekTo \/ Step

ConsoleSpec == ConsoleInit /\ [][ConsoleNext]_consoleVars

-----------------------------------------------------------------------------
(* Properties.  They compare the store with what was delivered, not with   *)
(* how it was projected.                                                   *)

\* The i-th delivery, of this session and mode, from the same source as e.
SameSource(i, e) ==
  /\ Event[delivered[i]].mode = store.mode
  /\ Event[delivered[i]].source = Event[e].source

\* Newer than everything its source delivered before it in this session.
Fresh(i) ==
  LET e == delivered[i] IN
  /\ Event[e].mode = store.mode
  /\ \A j \in (base + 1)..(i - 1) :
       SameSource(j, e) => Event[delivered[j]].sequence < Event[e].sequence

\* The deliveries that update an entity, and the last of them.
Updates(k) ==
  {i \in (base + 1)..Len(delivered) :
     /\ Fresh(i)
     /\ Event[delivered[i]].projectable
     /\ k \in Range(Event[delivered[i]].keys)}

LastUpdate(k) == CHOOSE i \in Updates(k) : \A j \in Updates(k) : j <= i

Room(critical) == IF critical THEN MaxCritical ELSE MaxEntities

(* Whatever was lost, repeated or reordered on the way, an entity shows    *)
(* the last fresh event of a source that reported it, never an older one   *)
(* of that source; an entity is missing only when its class is full with   *)
(* entities updated no earlier, and never holds more; and no decision,     *)
(* risk or acknowledgement is missing without being counted as archived.   *)
ShowsNewest ==
  LET known == {k \in Key : Updates(k) # {}}
      missing == known \ DOMAIN store.entities
      isCritical(k) == Event[delivered[LastUpdate(k)]].critical
  IN  /\ \A c \in BOOLEAN : Cardinality(Class(store.entities, c)) <= Room(c)
      /\ \A k \in DOMAIN store.entities :
           k \in known /\ store.entities[k].event = delivered[LastUpdate(k)]
      /\ \A k \in missing :
           LET class == Class(store.entities, isCritical(k)) IN
           /\ Cardinality(class) = Room(isCritical(k))
           /\ \A l \in class : LastUpdate(l) >= LastUpdate(k)
      /\ Cardinality({k \in missing : isCritical(k)}) <= store.archived

\* No sequence number is missing from what came since the last sync.
Unbroken ==
  \A i \in (syncedAt + 1)..Len(delivered) :
    LET e == delivered[i]
        before == {Event[delivered[j]].sequence :
                     j \in {m \in (base + 1)..(i - 1) : SameSource(m, e)}}
    IN  i > base /\ Fresh(i) /\ before # {} => Event[e].sequence - 1 \in before

(* A command leaves the console only on a complete view of a live system:  *)
(* never in replay, and never after an event of some source went missing   *)
(* since the view was last synchronised (ADR 0006, item 3).                *)
CommandsSeeWholeView ==
  [][sent' # sent => Live /\ store.complete /\ Unbroken]_consoleVars

\* The store after each number of steps from the start of the recording.
Stepped[n \in 0..Len(Recording)] ==
  IF n = 0 THEN CompleteSync(NewStore("REPLAY"), 0)
  ELSE CompleteSync(Apply(Stepped[n - 1], Recording[n]), n)

(* What the operator sees at a position of the recording depends on the    *)
(* position alone: seeking there, from wherever and whatever was shown     *)
(* before, gives the store that stepping there from the start gives.       *)
SeekMatchesStepping == ~Live => store = Stepped[position]
=============================================================================
