------------------------------ MODULE Tracker ------------------------------
(***************************************************************************)
(* RadarTrackerPlugin (src/low_altitude_ai/perception/radar_tracker.py)    *)
(* behind PerceptionService (perception/service.py): scans in, a batch of  *)
(* tracks out, published by the handler that had it made.                  *)
(* Geometry is left out: which tracks a scan's detections are associated   *)
(* with, one detection to a track at most, is left open.                   *)
(***************************************************************************)
EXTENDS Integers, FiniteSets, Sequences, FiniteSetsExt

CONSTANTS
  ScanId,           \* radar events
  Scan,             \* their contents
  Session,          \* source_session_id of a radar
  ConfirmHits,      \* RadarTrackerConfig.confirm_hits
  CoastTimeout,     \* .coast_timeout_ms
  LostTimeout,      \* .lost_timeout_ms
  MaxTracks,        \* .max_tracks
  TrackerDedup,     \* .dedup_capacity
  MaxRemembered     \* bound: events the tracker remembers in all

(* "wellFormed": the checks before the first change of state hold;         *)
(* "readable": the sample and its list of detections can be read;          *)
(* "sound": every detection in it can be read too, and the quality of the  *)
(* event is valid.  "detections" are those that can be read.               *)
ScanRecord ==
  [session: Session, sequence: Nat, observedAt: Nat, detections: Nat,
   wellFormed: BOOLEAN, readable: BOOLEAN, sound: BOOLEAN]

ASSUME TrackerAssumption ==
  /\ Scan \in [ScanId -> ScanRecord]
  /\ ConfirmHits \in Nat /\ ConfirmHits >= 2
  /\ CoastTimeout \in Nat \ {0}
  /\ LostTimeout \in Nat /\ CoastTimeout < LostTimeout
  /\ MaxTracks \in Nat \ {0} /\ TrackerDedup \in Nat \ {0}
  /\ MaxRemembered \in Nat

VARIABLES
  trackerUp,        \* RadarTrackerPlugin._context is set
  tracks,           \* RadarTrackerPlugin._tracks, by track id
  lastSequence,     \* ._last_sequence
  remembered,       \* every event remembered, in order; _seen_order is its end
  output,           \* what process() returned last
  pending,          \* the handler is publishing it
  known,            \* what subscribers were last told of each track
  trackerFailed,    \* the handler has raised: the subscription shows it
  created,          \* history: track ids issued
  sources           \* history: the scans each track was updated by

trackerVars ==
  <<trackerUp, tracks, lastSequence, remembered, output, pending, known,
    trackerFailed, created, sources>>

NoSequence == -1
NoOutput == [flag |-> "none"]

TrackerInit ==
  /\ trackerUp = TRUE
  /\ tracks = [t \in {} |-> 0]
  /\ lastSequence = [s \in Session |-> NoSequence]
  /\ remembered = <<>>
  /\ output = NoOutput
  /\ pending = FALSE
  /\ known = [t \in {} |-> ""]
  /\ trackerFailed = FALSE
  /\ created = 0
  /\ sources = [t \in {} |-> {}]

SeenScans ==
  {remembered[i] :
     i \in {k \in DOMAIN remembered : k > Len(remembered) - TrackerDedup}}

-----------------------------------------------------------------------------
(* The life of a track.                                                    *)

Age(t, e) == Scan[e].observedAt - tracks[t].lastObservedAt

NewTrack(e) ==
  [hits |-> 1, lastObservedAt |-> Scan[e].observedAt, state |-> "TENTATIVE"]

Updated(t, e) ==
  LET hits == tracks[t].hits + 1 IN
  [hits |-> hits, lastObservedAt |-> Scan[e].observedAt,
   state |-> IF hits >= ConfirmHits THEN "CONFIRMED" ELSE "TENTATIVE"]

\* A track no detection was associated with.
Aged(t, e) ==
  [tracks[t] EXCEPT !.state =
     IF Age(t, e) >= LostTimeout THEN "LOST"
     ELSE IF Age(t, e) >= CoastTimeout THEN "COASTING" ELSE @]

-----------------------------------------------------------------------------
(* process().                                                              *)

\* Mutant: the limit is looked at once for the whole scan.
Room_Unshared(e, matched) ==
  IF Cardinality(DOMAIN tracks) >= MaxTracks THEN 0
  ELSE Scan[e].detections - Cardinality(matched)

\* The new tracks: one for each detection left, while there is room.
Room(e, matched) ==
  LET left == Scan[e].detections - Cardinality(matched)
      free == MaxTracks - Cardinality(DOMAIN tracks)
  IN  IF left <= free THEN left ELSE free

\* The handler goes on to publish what process() returns.
Return(e, flag, reported) ==
  /\ output' = [flag |-> flag, scan |-> e, tracks |-> reported]
  /\ pending' = TRUE
  /\ UNCHANGED trackerFailed

Degraded(e, flag) ==
  /\ Return(e, flag, tracks)
  /\ UNCHANGED <<tracks, created, sources>>

\* The quality of the batch that process() returned last.
OutputValid == output.flag = "none" /\ Scan[output.scan].sound

RememberScan(e) == remembered' = Append(remembered, e)

DuplicateScan(e) ==
  /\ e \in SeenScans
  /\ Degraded(e, "DUPLICATE_INPUT")
  /\ UNCHANGED <<lastSequence, remembered>>

\* Mutant: the sequence number is not compared.
InOrder_Always(e) == TRUE

InOrder(e) == Scan[e].sequence > lastSequence[Scan[e].session]

OutOfOrder(e) ==
  /\ e \notin SeenScans
  /\ ~InOrder(e)
  /\ RememberScan(e)
  /\ Degraded(e, "OUT_OF_ORDER_INPUT")
  /\ UNCHANGED lastSequence

Note(e) ==
  /\ e \notin SeenScans
  /\ InOrder(e)
  /\ RememberScan(e)
  /\ lastSequence' =
       [lastSequence EXCEPT ![Scan[e].session] = Scan[e].sequence]

\* The scan raises only after it was remembered and counted.
Unreadable(e) ==
  /\ Note(e)
  /\ ~Scan[e].readable
  /\ trackerFailed' = TRUE
  /\ UNCHANGED <<tracks, output, pending, created, sources>>

\* Mutant: what is lost is forgotten before it is reported.
Track_Unreported(e, matched) ==
  LET fresh == created..(created + Room(e, matched) - 1)
      next == [t \in DOMAIN tracks \cup fresh |->
                 IF t \in fresh THEN NewTrack(e)
                 ELSE IF t \in matched THEN Updated(t, e) ELSE Aged(t, e)]
      kept == {t \in DOMAIN next : next[t].state # "LOST"}
  IN  /\ Note(e)
      /\ Scan[e].readable
      /\ Return(e, "none", [t \in kept |-> next[t]])
      /\ tracks' = [t \in kept |-> next[t]]
      /\ created' = created + Room(e, matched)
      /\ sources' = [t \in kept |->
                       IF t \in fresh THEN {e}
                       ELSE IF t \in matched THEN sources[t] \cup {e}
                       ELSE sources[t]]

(* The scan's detections are associated with the tracks "matched"; the     *)
(* others age, and what is LOST is reported once more and then deleted.    *)
Track(e, matched) ==
  LET fresh == created..(created + Room(e, matched) - 1)
      next == [t \in DOMAIN tracks \cup fresh |->
                 IF t \in fresh THEN NewTrack(e)
                 ELSE IF t \in matched THEN Updated(t, e) ELSE Aged(t, e)]
      kept == {t \in DOMAIN next : next[t].state # "LOST"}
  IN  /\ Note(e)
      /\ Scan[e].readable
      /\ Return(e, "none", next)
      /\ tracks' = [t \in kept |-> next[t]]
      /\ created' = created + Room(e, matched)
      /\ sources' = [t \in kept |->
                       IF t \in fresh THEN {e}
                       ELSE IF t \in matched THEN sources[t] \cup {e}
                       ELSE sources[t]]

TrackScan(e) ==
  \E n \in 0..Scan[e].detections : \E matched \in kSubset(n, DOMAIN tracks) :
    Track(e, matched)

-----------------------------------------------------------------------------
(* PerceptionService: the worker of its subscription hands over one scan   *)
(* at a time and waits for the publication of its tracks.                  *)

\* initialize(), shutdown(): the tracks and the window outlive both.
SwitchTracker ==
  /\ trackerUp' = ~trackerUp
  /\ UNCHANGED <<tracks, lastSequence, remembered, output, pending, known,
                 trackerFailed, created, sources>>

\* Without a context, or over a scan that is not well formed, process()
\* raises before anything has changed.
Process ==
  /\ ~pending
  /\ Len(remembered) < MaxRemembered
  /\ \E e \in ScanId :
       IF trackerUp /\ Scan[e].wellFormed
       THEN DuplicateScan(e) \/ OutOfOrder(e) \/ Unreadable(e) \/ TrackScan(e)
       ELSE /\ trackerFailed' = TRUE
            /\ UNCHANGED <<tracks, lastSequence, remembered, output, pending,
                           created, sources>>
  /\ UNCHANGED <<trackerUp, known>>

Publish ==
  /\ pending
  /\ pending' = FALSE
  /\ known' = [t \in DOMAIN known \cup DOMAIN output.tracks |->
                 IF t \in DOMAIN output.tracks THEN output.tracks[t].state
                 ELSE known[t]]
  /\ UNCHANGED <<trackerUp, tracks, lastSequence, remembered, output,
                 trackerFailed, created, sources>>

\* publish() raises: a queue stayed full, or the bus is closed.
PublishFails ==
  /\ pending
  /\ pending' = FALSE
  /\ trackerFailed' = TRUE
  /\ UNCHANGED <<trackerUp, tracks, lastSequence, remembered, output, known,
                 created, sources>>

TrackerNext == Process \/ Publish \/ PublishFails \/ SwitchTracker

TrackerSpec == TrackerInit /\ [][TrackerNext]_trackerVars

-----------------------------------------------------------------------------
(* Properties.                                                             *)

TrackState == {"TENTATIVE", "CONFIRMED", "COASTING"}

TrackTypeOK ==
  /\ DOMAIN tracks \subseteq 0..(created - 1)
  /\ Cardinality(DOMAIN tracks) <= MaxTracks
  /\ \A t \in DOMAIN tracks :
       tracks[t] \in [hits: Nat \ {0}, lastObservedAt: Nat, state: TrackState]
  /\ lastSequence \in [Session -> Nat \cup {NoSequence}]
  /\ remembered \in Seq(ScanId)
  /\ trackerUp \in BOOLEAN /\ pending \in BOOLEAN /\ trackerFailed \in BOOLEAN
  /\ pending => output # NoOutput
  /\ \A t \in DOMAIN known : known[t] \in TrackState \cup {"LOST"}
  /\ DOMAIN sources = DOMAIN tracks

(* A track is confirmed on as many different scans as it takes: none is    *)
(* counted twice, even when it is delivered again after the window of      *)
(* remembered events has moved past it (section 5.1 of the perception      *)
(* document: a repeated event is ignored).                                 *)
ConfirmedByDistinctScans ==
  \A t \in DOMAIN tracks :
    tracks[t].state = "CONFIRMED" => Cardinality(sources[t]) >= ConfirmHits

(* Subscribers learn that a track they know of is gone: unless the handler *)
(* has failed, which its subscription shows, what the tracker has deleted  *)
(* was published as LOST (section 5.4: one tombstone at least).            *)
LostIsAnnounced ==
  ~pending /\ ~trackerFailed =>
    \A t \in DOMAIN known : t \in DOMAIN tracks \/ known[t] = "LOST"

-----------------------------------------------------------------------------
(* How late a scan may be.  A track is lost against the time of the scan   *)
(* that lets it go, and every scan it was seen in sets its time, be that   *)
(* scan older than the last.  So what was published of a track is older    *)
(* than its loss only if the radars are not too far apart.                 *)

\* process() found the number of remembered[j] higher than its radar's last.
TakenIn(j) ==
  \A i \in 1..(j - 1) :
    Scan[remembered[i]].session = Scan[remembered[j]].session =>
      Scan[remembered[i]].sequence < Scan[remembered[j]].sequence

\* Each radar numbers its scans in time, and no scan that is taken in is
\* older by more than LostTimeout than one that came before it.
LateWithinTimeout ==
  /\ \A e, f \in ScanId :
       Scan[e].session = Scan[f].session /\ Scan[e].sequence <= Scan[f].sequence =>
         Scan[e].observedAt <= Scan[f].observedAt
  /\ \A i, j \in DOMAIN remembered :
       i < j /\ TakenIn(j) =>
         Scan[remembered[i]].observedAt <= Scan[remembered[j]].observedAt + LostTimeout
=============================================================================
