----------------------------- MODULE Situation -----------------------------
(***************************************************************************)
(* Perception and the digital twin composed, as app/phase3_demo.py wires   *)
(* them: what the tracker's handler publishes goes into the queue of the   *)
(* twin's subscription to "perception.tracks", while the environment comes *)
(* in by another subscription.                                             *)
(***************************************************************************)
EXTENDS Tracker, TwinIngest

CONSTANTS
  WeatherId,        \* environment/1.0 events
  Weather,          \* their contents, as the twin sees them
  MaxTrackId,       \* bound: the twin is told of tracks up to this one
  MaxOutputs        \* bound: outputs of the tracker that are published

VARIABLE outputs    \* how many were published

situationVars == <<trackerVars, ingestVars, outputs>>

-----------------------------------------------------------------------------
(* The twin's events.  Each publication of a batch of tracks has an        *)
(* identity of its own, be the batch the same.                             *)

BatchId ==
  [number: 1..MaxOutputs, scan: ScanId, valid: BOOLEAN,
   states: UNION {[ids -> TrackState \cup {"LOST"}] :
                    ids \in SUBSET (0..MaxTrackId)}]

SituationEventId ==
  {<<"environment", w>> : w \in WeatherId}
    \cup {<<"tracks", b>> : b \in BatchId}

SituationEvent ==
  [x \in SituationEventId |->
    IF x[1] = "environment" THEN Weather[x[2]]
    ELSE LET at == Scan[x[2].scan].observedAt IN
         [observedAt |-> at, receivedAt |-> at,
          keys |-> {<<"track", t>> : t \in DOMAIN x[2].states},
          valid |-> x[2].valid, reducible |-> TRUE]]

SituationKey ==
  {<<"track", t>> : t \in 0..MaxTrackId}
    \cup UNION {Weather[w].keys : w \in WeatherId}

\* _reduce finds one key in an environment event, and no track's.
ASSUME SituationAssumption ==
  /\ EventId = SituationEventId /\ Event = SituationEvent /\ Key = SituationKey
  /\ Feed = {"tracks", "environment"}
  /\ \A w \in WeatherId : \A j, k \in Weather[w].keys : j = k /\ k[1] # "track"
  /\ MaxTrackId \in Nat /\ MaxOutputs \in Nat

-----------------------------------------------------------------------------
SituationInit == TrackerInit /\ IngestInit /\ outputs = 0

ProcessScan ==
  /\ Process \/ SwitchTracker
  /\ UNCHANGED <<ingestVars, outputs>>

PublishTracks ==
  /\ outputs < MaxOutputs
  /\ Publish
  /\ DOMAIN output.tracks \subseteq 0..MaxTrackId
  /\ outputs' = outputs + 1
  /\ Deliver("tracks",
       <<"tracks",
         [number |-> outputs + 1, scan |-> output.scan, valid |-> OutputValid,
          states |-> [t \in DOMAIN output.tracks |->
                        output.tracks[t].state]]>>)

PublicationFails == PublishFails /\ UNCHANGED <<ingestVars, outputs>>

PublishWeather ==
  /\ \E w \in WeatherId : Deliver("environment", <<"environment", w>>)
  /\ UNCHANGED <<trackerVars, outputs>>

\* A worker of the twin: its handler, and what becomes of the snapshot.
Ingest ==
  /\ \E f \in Feed : Handle(f) \/ Send(f) \/ SendFails(f)
  /\ UNCHANGED <<trackerVars, outputs>>

SituationNext ==
  ProcessScan \/ PublishTracks \/ PublicationFails \/ PublishWeather \/ Ingest

SituationSpec == SituationInit /\ [][SituationNext]_situationVars

-----------------------------------------------------------------------------
(* Properties.                                                             *)

SituationTypeOK == TrackTypeOK /\ TwinTypeOK /\ outputs \in 0..MaxOutputs

(* The twin never forgets a track, so it has to hear that one is gone:     *)
(* when no tracks are on their way and no handler has failed, a track in   *)
(* the twin is one the tracker still has, or the twin has it as LOST.  For *)
(* that the batch with the tombstone must never be refused as late, though *)
(* the scans of two radars come in out of order (section 5.4 of the        *)
(* perception document, section 9 of the twin's).  That rests on           *)
(* LateWithinTimeout: a track that is seen again in a scan older than the  *)
(* timeout may be lost by one that is older than what the twin has of it.  *)
TwinKnowsLost ==
  inbox["tracks"] = <<>> /\ ~pending /\ ~trackerFailed /\ ~failed["tracks"] =>
    \A t \in 0..MaxTrackId :
      <<"track", t>> \in DOMAIN entities =>
        \/ t \in DOMAIN tracks
        \/ entities[<<"track", t>>].event[2].states[t] = "LOST"

(* An entity is the newest the twin has taken in of it, the refused late   *)
(* batches included: refusing a batch whole for one of its tracks never    *)
(* holds back news of another, because the tracker dates a batch as one.   *)
(* Like the one above it is true of scans that are late within the         *)
(* timeout.  Of a batch that was lost on the way it says nothing.          *)
HoldsNewest ==
  \A k \in DOMAIN entities, i \in DOMAIN history :
    k \in Event[history[i].event].keys =>
      Event[history[i].event].observedAt <= Event[entities[k].event].observedAt
=============================================================================
