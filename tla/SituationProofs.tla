--------------------------- MODULE SituationProofs ---------------------------
(***************************************************************************)
(* Proofs about the radar tracker, for any scans, radars, limits and       *)
(* windows, and however detections are associated; and about the tracker   *)
(* and the digital twin composed, for any environment events and queue     *)
(* sizes too.                                                              *)
(***************************************************************************)
EXTENDS Situation, TwinProofs

-----------------------------------------------------------------------------
(* The tracker.                                                            *)

TrackType == [hits: Nat, lastObservedAt: Nat, state: TrackState]

(* What is true of one track and the scans it was updated by.  That none   *)
(* of them is counted twice rests on the last conjunct: a scan is taken in *)
(* only with a higher number than anything its radar has sent before.      *)
Sourced(t) ==
  /\ tracks[t] \in TrackType
  /\ sources[t] \subseteq ScanId /\ IsFiniteSet(sources[t])
  /\ tracks[t].hits = Cardinality(sources[t])
  /\ tracks[t].state = "CONFIRMED" => tracks[t].hits >= ConfirmHits
  /\ \A e \in sources[t] : Scan[e].sequence <= lastSequence[Scan[e].session]

SourcesInv ==
  /\ lastSequence \in [Session -> Nat \cup {NoSequence}]
  /\ DOMAIN sources = DOMAIN tracks
  /\ \A t \in DOMAIN tracks : Sourced(t)

-----------------------------------------------------------------------------
\* A scan has a number, a time and a radar.
LEMMA ScanTyped ==
  ASSUME NEW e \in ScanId
  PROVE  /\ Scan[e].sequence \in Nat /\ Scan[e].observedAt \in Nat
         /\ Scan[e].session \in Session
BY TrackerAssumption DEF ScanRecord

\* A new track has been hit once and is not confirmed.
LEMMA NewTrackStarts ==
  ASSUME NEW e \in ScanId
  PROVE  /\ NewTrack(e) \in TrackType
         /\ NewTrack(e).hits = 1 /\ NewTrack(e).state = "TENTATIVE"
BY ScanTyped DEF NewTrack, TrackType, TrackState

\* An update counts one hit, and confirms on enough of them.
LEMMA UpdatedCounts ==
  ASSUME NEW e \in ScanId, NEW t, tracks[t] \in TrackType
  PROVE  /\ Updated(t, e) \in TrackType
         /\ Updated(t, e).hits = tracks[t].hits + 1
         /\ Updated(t, e).state = "CONFIRMED" => tracks[t].hits + 1 >= ConfirmHits
BY ScanTyped DEF Updated, TrackType, TrackState

\* Ageing counts nothing and confirms nothing.
LEMMA AgedKeepsCount ==
  ASSUME NEW e, NEW t, tracks[t] \in TrackType
  PROVE  /\ Aged(t, e).hits = tracks[t].hits
         /\ Aged(t, e).state # "LOST" => Aged(t, e) \in TrackType
         /\ Aged(t, e).state = "CONFIRMED" => tracks[t].state = "CONFIRMED"
BY DEF Aged, TrackType, TrackState

\* Taking a scan in raises its radar's number, above all it sent before.
LEMMA NoteRaises ==
  ASSUME SourcesInv, NEW e \in ScanId, Note(e)
  PROVE  /\ lastSequence' \in [Session -> Nat \cup {NoSequence}]
         /\ lastSequence'[Scan[e].session] = Scan[e].sequence
         /\ \A s \in Session : lastSequence[s] <= lastSequence'[s]
         /\ \A t \in DOMAIN tracks : e \notin sources[t]
<1>1. /\ Scan[e].session \in Session /\ Scan[e].sequence \in Nat
      /\ Scan[e].sequence > lastSequence[Scan[e].session]
      /\ lastSequence' = [lastSequence EXCEPT ![Scan[e].session] = Scan[e].sequence]
  BY ScanTyped DEF Note, InOrder
<1>2. \A s \in Session : lastSequence[s] \in Int
  BY DEF SourcesInv, NoSequence
<1>3. \A t \in DOMAIN tracks : e \notin sources[t]
  BY <1>1, <1>2 DEF SourcesInv, Sourced
<1>4. QED
  BY <1>1, <1>2, <1>3 DEF SourcesInv, NoSequence

\* A step that leaves tracks and sources alone.
LEMMA SourcesKept ==
  ASSUME SourcesInv, UNCHANGED <<tracks, sources>>,
         lastSequence' \in [Session -> Nat \cup {NoSequence}],
         \A s \in Session : lastSequence[s] <= lastSequence'[s]
  PROVE  SourcesInv'
<1>1. \A s \in Session : lastSequence[s] \in Int /\ lastSequence'[s] \in Int
  BY DEF SourcesInv, NoSequence
<1>2. ASSUME NEW t \in DOMAIN tracks, NEW e \in sources[t]
      PROVE  Scan[e].sequence <= lastSequence'[Scan[e].session]
  <2>1. e \in ScanId /\ Scan[e].sequence <= lastSequence[Scan[e].session]
    BY <1>2 DEF SourcesInv, Sourced
  <2>2. QED
    BY <2>1, <1>1, ScanTyped
<1>3. QED
  BY <1>2 DEF SourcesInv, Sourced

(* A scan that is tracked: its new tracks start from it, the matched ones  *)
(* add it to scans with lower numbers, the others only age.                *)
LEMMA TrackKeepsSources ==
  ASSUME SourcesInv, NEW e \in ScanId, NEW matched, Track(e, matched)
  PROVE  SourcesInv'
<1> DEFINE fresh == created..(created + Room(e, matched) - 1)
           next == [t \in DOMAIN tracks \cup fresh |->
                      IF t \in fresh THEN NewTrack(e)
                      ELSE IF t \in matched THEN Updated(t, e) ELSE Aged(t, e)]
           kept == {t \in DOMAIN next : next[t].state # "LOST"}
           from == [t \in kept |->
                      IF t \in fresh THEN {e}
                      ELSE IF t \in matched THEN sources[t] \cup {e} ELSE sources[t]]
<1>1. Note(e) /\ tracks' = [t \in kept |-> next[t]] /\ sources' = from
  BY DEF Track
<1>2. /\ lastSequence' \in [Session -> Nat \cup {NoSequence}]
      /\ lastSequence'[Scan[e].session] = Scan[e].sequence
      /\ \A s \in Session : lastSequence[s] <= lastSequence'[s]
      /\ \A t \in DOMAIN tracks : e \notin sources[t]
  BY <1>1, NoteRaises
<1>3. \A s \in Session : lastSequence[s] \in Int /\ lastSequence'[s] \in Int
  BY <1>2 DEF SourcesInv, NoSequence
<1>4. ASSUME NEW t \in DOMAIN tracks, NEW f \in sources[t]
      PROVE  Scan[f].sequence <= lastSequence'[Scan[f].session]
  <2>1. f \in ScanId /\ Scan[f].sequence <= lastSequence[Scan[f].session]
    BY <1>4 DEF SourcesInv, Sourced
  <2>2. QED
    BY <2>1, <1>2, <1>3, ScanTyped
<1>5. Scan[e].sequence <= lastSequence'[Scan[e].session]
  BY <1>2, ScanTyped
<1> HIDE DEF fresh
<1>6. ASSUME NEW t \in kept
      PROVE  Sourced(t)'
  <2>1. t \in DOMAIN tracks \cup fresh /\ next[t].state # "LOST"
    BY <1>6
  <2>2. CASE t \in fresh
    <3>1. tracks'[t] = NewTrack(e) /\ sources'[t] = {e}
      BY <2>2, <1>1, <1>6
    <3>2. IsFiniteSet({e}) /\ Cardinality({e}) = 1
      BY FS_Singleton
    <3>3. QED
      BY <3>1, <3>2, <1>5, NewTrackStarts DEF Sourced
  <2>3. CASE t \notin fresh /\ t \in matched
    <3>1. Sourced(t) /\ e \notin sources[t]
      BY <2>1, <2>3, <1>2 DEF SourcesInv
    <3>2. tracks'[t] = Updated(t, e) /\ sources'[t] = sources[t] \cup {e}
      BY <2>1, <2>3, <1>1, <1>6
    <3>3. /\ IsFiniteSet(sources[t] \cup {e})
          /\ Cardinality(sources[t] \cup {e}) = Cardinality(sources[t]) + 1
      BY <3>1, FS_AddElement DEF Sourced
    <3>4. \A f \in sources[t] \cup {e} : Scan[f].sequence <= lastSequence'[Scan[f].session]
      BY <2>1, <2>3, <1>4, <1>5
    <3>5. QED
      BY <3>1, <3>2, <3>3, <3>4, UpdatedCounts DEF Sourced
  <2>4. CASE t \notin fresh /\ t \notin matched
    <3>1. Sourced(t) /\ t \in DOMAIN tracks
      BY <2>1, <2>4 DEF SourcesInv
    <3>2. tracks'[t] = Aged(t, e) /\ sources'[t] = sources[t]
      BY <2>1, <2>4, <1>1, <1>6
    <3>3. Aged(t, e).state # "LOST"
      BY <2>1, <2>4
    <3>4. QED
      BY <3>1, <3>2, <3>3, <1>4, AgedKeepsCount DEF Sourced
  <2>5. QED
    BY <2>2, <2>3, <2>4
<1>7. DOMAIN tracks' = kept /\ DOMAIN sources' = kept
  BY <1>1
<1> HIDE DEF kept
<1>8. QED
  BY <1>2, <1>6, <1>7 DEF SourcesInv

\* Every way process() may end.
LEMMA ProcessKeepsSources ==
  ASSUME SourcesInv, Process
  PROVE  SourcesInv'
<1>1. CASE UNCHANGED <<tracks, lastSequence, sources>>
  <2>1. lastSequence' = lastSequence /\ \A s \in Session : lastSequence[s] <= lastSequence[s]
    BY <1>1 DEF SourcesInv, NoSequence
  <2>2. QED
    BY <1>1, <2>1, SourcesKept DEF SourcesInv
<1>2. ASSUME NEW e \in ScanId, Unreadable(e) PROVE SourcesInv'
  BY <1>2, NoteRaises, SourcesKept DEF Unreadable
<1>3. ASSUME NEW e \in ScanId, TrackScan(e) PROVE SourcesInv'
  BY <1>3, TrackKeepsSources DEF TrackScan
<1>4. ASSUME NEW e \in ScanId, DuplicateScan(e) \/ OutOfOrder(e)
      PROVE  UNCHANGED <<tracks, lastSequence, sources>>
  BY <1>4 DEF DuplicateScan, OutOfOrder, Degraded
<1>5. QED
  BY <1>1, <1>2, <1>3, <1>4 DEF Process

(* The tracker's tracks, the scans behind them and the numbers of their    *)
(* radars, in every reachable state.                                       *)
THEOREM TracksSourced == TrackerSpec => []SourcesInv
<1>1. TrackerInit => SourcesInv
  BY DEF TrackerInit, SourcesInv, NoSequence
<1>2. SourcesInv /\ [TrackerNext]_trackerVars => SourcesInv'
  <2> SUFFICES ASSUME SourcesInv, [TrackerNext]_trackerVars PROVE SourcesInv'
    OBVIOUS
  <2>1. CASE Process
    BY <2>1, ProcessKeepsSources
  <2>2. CASE UNCHANGED <<tracks, lastSequence, sources>>
    BY <2>2 DEF SourcesInv, Sourced
  <2>3. QED
    BY <2>1, <2>2 DEF TrackerNext, Publish, PublishFails, SwitchTracker, trackerVars
<1>3. QED
  BY <1>1, <1>2, PTL DEF TrackerSpec

(* A track is confirmed on as many different scans as it takes, whatever   *)
(* is repeated or late and however small the window of remembered scans.   *)
THEOREM ConfirmationsDistinct == TrackerSpec => []ConfirmedByDistinctScans
<1>1. SourcesInv => ConfirmedByDistinctScans
  BY DEF SourcesInv, Sourced, ConfirmedByDistinctScans
<1>2. QED
  BY <1>1, TracksSourced, PTL

-----------------------------------------------------------------------------
(* What subscribers know.  Between process() and the end of its            *)
(* publication they are owed what the handler is about to tell them.       *)
Announced ==
  ~trackerFailed =>
    IF pending
    THEN \A t \in DOMAIN known \cup DOMAIN output.tracks :
           \/ t \in DOMAIN tracks
           \/ IF t \in DOMAIN output.tracks THEN output.tracks[t].state = "LOST"
              ELSE known[t] = "LOST"
    ELSE \A t \in DOMAIN known : t \in DOMAIN tracks \/ known[t] = "LOST"

\* A scan that is tracked: what it deletes is in its output as LOST.
LEMMA TrackAnnounces ==
  ASSUME Announced, ~pending, NEW e \in ScanId, NEW matched,
         Track(e, matched), UNCHANGED known
  PROVE  Announced'
<1> DEFINE fresh == created..(created + Room(e, matched) - 1)
           next == [t \in DOMAIN tracks \cup fresh |->
                      IF t \in fresh THEN NewTrack(e)
                      ELSE IF t \in matched THEN Updated(t, e) ELSE Aged(t, e)]
           kept == {t \in DOMAIN next : next[t].state # "LOST"}
<1>1. /\ tracks' = [t \in kept |-> next[t]]
      /\ output'.tracks = next
      /\ pending' = TRUE /\ trackerFailed' = trackerFailed
  BY DEF Track, Return
<1>2. DOMAIN tracks' = kept
  BY <1>1
<1>3. DOMAIN next = DOMAIN tracks \cup fresh
  OBVIOUS
<1> HIDE DEF fresh, next
<1>4. QED
  BY <1>1, <1>2, <1>3 DEF Announced

\* Every way process() may end.
LEMMA ProcessAnnounces ==
  ASSUME Announced, Process
  PROVE  Announced'
<1>1. ~pending /\ UNCHANGED known
  BY DEF Process
<1>2. CASE trackerFailed'
  BY <1>2 DEF Announced
<1>3. ASSUME NEW e \in ScanId, DuplicateScan(e) \/ OutOfOrder(e) PROVE Announced'
  BY <1>1, <1>3 DEF DuplicateScan, OutOfOrder, Degraded, Return, Announced
<1>4. ASSUME NEW e \in ScanId, TrackScan(e) PROVE Announced'
  BY <1>1, <1>4, TrackAnnounces DEF TrackScan
<1>5. ASSUME NEW e \in ScanId, Unreadable(e) PROVE trackerFailed'
  BY <1>5 DEF Unreadable
<1>6. QED
  BY <1>2, <1>3, <1>4, <1>5 DEF Process

(* Unless the handler has failed, subscribers were told of every track     *)
(* they know and the tracker has deleted that it is LOST.                  *)
THEOREM LossesAnnounced == TrackerSpec => []LostIsAnnounced
<1>1. TrackerInit => Announced
  BY DEF TrackerInit, Announced
<1>2. Announced /\ [TrackerNext]_trackerVars => Announced'
  <2> SUFFICES ASSUME Announced, [TrackerNext]_trackerVars PROVE Announced'
    OBVIOUS
  <2>1. CASE Process
    BY <2>1, ProcessAnnounces
  <2>2. CASE Publish
    BY <2>2 DEF Publish, Announced
  <2>3. CASE PublishFails
    BY <2>3 DEF PublishFails, Announced
  <2>4. CASE UNCHANGED <<tracks, output, pending, known, trackerFailed>>
    BY <2>4 DEF Announced
  <2>5. QED
    BY <2>1, <2>2, <2>3, <2>4 DEF TrackerNext, SwitchTracker, trackerVars
<1>3. Announced => LostIsAnnounced
  BY DEF Announced, LostIsAnnounced
<1>4. QED
  BY <1>1, <1>2, <1>3, PTL DEF TrackerSpec

-----------------------------------------------------------------------------
(* Types, and when the scans behind the tracks were observed.              *)

ReportState == TrackState \cup {"LOST"}
RememberedScans == {remembered[i] : i \in DOMAIN remembered}

\* What the handler is about to publish.
OutputTyped ==
  /\ output # NoOutput
  /\ output.scan \in RememberedScans
  /\ DOMAIN output.tracks \subseteq 0..(created - 1)
  /\ DOMAIN tracks = {t \in DOMAIN output.tracks : output.tracks[t].state # "LOST"}
  /\ \A t \in DOMAIN output.tracks : output.tracks[t].state \in ReportState

\* lastSequence is the highest number remembered of each radar.
HighestRemembered ==
  /\ \A e \in RememberedScans : Scan[e].sequence <= lastSequence[Scan[e].session]
  /\ \A s \in Session :
       \/ lastSequence[s] = NoSequence
       \/ \E e \in RememberedScans :
            Scan[e].session = s /\ Scan[e].sequence = lastSequence[s]

\* No scan was observed so long after a track that the track would be lost.
SeenInTime ==
  \A t \in DOMAIN tracks, e \in RememberedScans :
    Scan[e].observedAt <= tracks[t].lastObservedAt + LostTimeout

TimelyTracker == ~trackerFailed /\ LateWithinTimeout

TrackerInv ==
  /\ TrackTypeOK
  /\ created \in Nat
  /\ pending => OutputTyped
  /\ HighestRemembered
  /\ TimelyTracker => SeenInTime

\* What process() does to the tracks, as its subscribers may know of it.
Reports ==
  /\ pending' = TRUE
  /\ DOMAIN tracks \subseteq DOMAIN output'.tracks
  /\ \A t \in DOMAIN output'.tracks : t \in DOMAIN tracks \/ t >= created
  /\ (\E t \in DOMAIN output'.tracks : output'.tracks[t].state = "LOST") /\ TimelyTracker' =>
       \A e \in RememberedScans' : Scan[e].observedAt <= Scan[output'.scan].observedAt

-----------------------------------------------------------------------------
\* One more scan that is remembered.
LEMMA ScanRemembered ==
  ASSUME TrackerInv, NEW e \in ScanId, RememberScan(e), NEW n, n = Len(remembered) + 1
  PROVE  /\ remembered' \in Seq(ScanId)
         /\ DOMAIN remembered' = DOMAIN remembered \cup {n}
         /\ n \in Nat /\ \A i \in DOMAIN remembered : i \in Nat /\ 1 <= i /\ i < n
         /\ \A i \in DOMAIN remembered : remembered'[i] = remembered[i]
         /\ remembered'[n] = e
         /\ RememberedScans' = RememberedScans \cup {e}
<1>1. /\ remembered' \in Seq(ScanId)
      /\ DOMAIN remembered' = DOMAIN remembered \cup {n}
      /\ n \in Nat /\ \A i \in DOMAIN remembered : i \in Nat /\ 1 <= i /\ i < n
      /\ \A i \in DOMAIN remembered : remembered'[i] = remembered[i]
      /\ remembered'[n] = e
  BY DEF TrackerInv, TrackTypeOK, RememberScan
<1>2. RememberedScans' = RememberedScans \cup {e}
  BY <1>1 DEF RememberedScans
<1>. QED  BY <1>1, <1>2

\* Of fewer scans less is required.
LEMMA TimelyBefore ==
  ASSUME TrackerInv, NEW e \in ScanId, RememberScan(e) \/ UNCHANGED remembered,
         LateWithinTimeout'
  PROVE  LateWithinTimeout
<1>1. CASE UNCHANGED remembered
  BY <1>1 DEF LateWithinTimeout, TakenIn
<1>2. CASE RememberScan(e)
  <2>1. PICK n : n = Len(remembered) + 1
    OBVIOUS
  <2>2. /\ DOMAIN remembered' = DOMAIN remembered \cup {n}
        /\ n \in Nat /\ \A i \in DOMAIN remembered : i \in Nat /\ 1 <= i /\ i < n
        /\ \A i \in DOMAIN remembered : remembered'[i] = remembered[i]
    BY <1>2, <2>1, ScanRemembered
  <2>3. DOMAIN remembered = 1..Len(remembered) /\ Len(remembered) \in Nat
    BY DEF TrackerInv, TrackTypeOK
  <2>4. ASSUME NEW j \in DOMAIN remembered, TakenIn(j)
        PROVE  TakenIn(j)'
    <3>1. \A i \in 1..(j - 1) : i \in DOMAIN remembered
      BY <2>3
    <3>. QED  BY <2>2, <2>4, <3>1 DEF TakenIn
  <2>. QED  BY <2>2, <2>4 DEF LateWithinTimeout
<1>. QED  BY <1>1, <1>2

\* A scan that is taken in is late by no more than LostTimeout.
LEMMA NotedInTime ==
  ASSUME TrackerInv, NEW e \in ScanId, Note(e), LateWithinTimeout'
  PROVE  \A r \in RememberedScans' :
           Scan[r].observedAt <= Scan[e].observedAt + LostTimeout
<1>1. PICK n : n = Len(remembered) + 1
  OBVIOUS
<1>2. RememberScan(e) /\ Scan[e].sequence > lastSequence[Scan[e].session]
  BY DEF Note, InOrder
<1>3. /\ DOMAIN remembered' = DOMAIN remembered \cup {n}
      /\ n \in Nat /\ \A i \in DOMAIN remembered : i \in Nat /\ 1 <= i /\ i < n
      /\ \A i \in DOMAIN remembered : remembered'[i] = remembered[i]
      /\ remembered'[n] = e
      /\ RememberedScans' = RememberedScans \cup {e}
  BY <1>1, <1>2, ScanRemembered
<1>4. DOMAIN remembered = 1..(n - 1)
  BY <1>1 DEF TrackerInv, TrackTypeOK
<1>5. \A i \in DOMAIN remembered : remembered[i] \in ScanId /\ remembered[i] \in RememberedScans
  BY DEF TrackerInv, TrackTypeOK, RememberedScans
<1>6. TakenIn(n)'
  <2>1. ASSUME NEW i \in DOMAIN remembered,
               Scan[remembered[i]].session = Scan[e].session
        PROVE  Scan[remembered[i]].sequence < Scan[e].sequence
    <3>1. Scan[remembered[i]].sequence <= lastSequence[Scan[e].session]
      BY <1>5, <2>1 DEF TrackerInv, HighestRemembered
    <3>2. /\ lastSequence[Scan[e].session] \in Int
          /\ Scan[remembered[i]].sequence \in Int /\ Scan[e].sequence \in Int
      BY <1>5, ScanTyped DEF TrackerInv, TrackTypeOK, NoSequence
    <3>. QED  BY <1>2, <3>1, <3>2
  <2>. QED  BY <1>3, <1>4, <2>1 DEF TakenIn
<1>7. ASSUME NEW i \in DOMAIN remembered
      PROVE  Scan[remembered[i]].observedAt <= Scan[e].observedAt + LostTimeout
  BY <1>3, <1>6 DEF LateWithinTimeout
<1>8. Scan[e].observedAt <= Scan[e].observedAt + LostTimeout
  BY ScanTyped, TrackerAssumption
<1>. QED  BY <1>3, <1>7, <1>8 DEF RememberedScans

\* A scan that comes out of order is no newer than one that was taken in.
LEMMA OutOfOrderIsOld ==
  ASSUME TrackerInv, NEW e \in ScanId, OutOfOrder(e), LateWithinTimeout'
  PROVE  \E r \in RememberedScans : Scan[e].observedAt <= Scan[r].observedAt
<1>1. ~(Scan[e].sequence > lastSequence[Scan[e].session])
  BY DEF OutOfOrder, InOrder
<1>2. /\ Scan[e].sequence \in Nat /\ Scan[e].session \in Session
      /\ lastSequence[Scan[e].session] \in Nat \cup {-1}
  BY ScanTyped DEF TrackerInv, TrackTypeOK, NoSequence
<1>3. PICK r \in RememberedScans :
        Scan[r].session = Scan[e].session /\ Scan[r].sequence = lastSequence[Scan[e].session]
  BY <1>1, <1>2 DEF TrackerInv, HighestRemembered, NoSequence
<1>4. Scan[e].sequence <= Scan[r].sequence
  BY <1>1, <1>2, <1>3
<1>5. r \in ScanId
  BY DEF RememberedScans, TrackerInv, TrackTypeOK
<1>6. Scan[e].observedAt <= Scan[r].observedAt
  BY <1>3, <1>4, <1>5 DEF LateWithinTimeout
<1>. QED  BY <1>6

\* Taking a scan in, or remembering it out of order, keeps the highest.
LEMMA HighestKept ==
  ASSUME TrackerInv, NEW e \in ScanId, Note(e) \/ OutOfOrder(e)
  PROVE  HighestRemembered' /\ lastSequence' \in [Session -> Nat \cup {NoSequence}]
<1>1. RememberScan(e)
  BY DEF Note, OutOfOrder
<1>2. RememberedScans' = RememberedScans \cup {e}
  BY <1>1, ScanRemembered
<1>3. /\ lastSequence \in [Session -> Nat \cup {NoSequence}]
      /\ Scan[e].sequence \in Nat /\ Scan[e].session \in Session
      /\ HighestRemembered
  BY ScanTyped DEF TrackerInv, TrackTypeOK
<1>4. \A r \in RememberedScans : r \in ScanId
  BY DEF RememberedScans, TrackerInv, TrackTypeOK
<1>5. \A r \in RememberedScans : Scan[r].sequence \in Nat /\ Scan[r].session \in Session
  BY <1>4, ScanTyped
<1>6. CASE Note(e)
  <2>1. /\ lastSequence' = [lastSequence EXCEPT ![Scan[e].session] = Scan[e].sequence]
        /\ Scan[e].sequence > lastSequence[Scan[e].session]
    BY <1>6 DEF Note, InOrder
  <2>2. \A s \in Session : lastSequence[s] \in Int
    BY <1>3 DEF NoSequence
  <2>3. ASSUME NEW r \in RememberedScans
        PROVE  Scan[r].sequence <= lastSequence'[Scan[r].session]
    BY <1>3, <1>5, <2>1, <2>2 DEF HighestRemembered
  <2>4. ASSUME NEW s \in Session
        PROVE  \/ lastSequence'[s] = NoSequence
               \/ \E r \in RememberedScans' :
                    Scan[r].session = s /\ Scan[r].sequence = lastSequence'[s]
    BY <1>2, <1>3, <2>1 DEF HighestRemembered
  <2>5. Scan[e].sequence <= lastSequence'[Scan[e].session]
    BY <1>3, <2>1
  <2>6. lastSequence' \in [Session -> Nat \cup {NoSequence}]
    BY <1>3, <2>1
  <2>. QED  BY <1>2, <2>3, <2>4, <2>5, <2>6 DEF HighestRemembered
<1>7. CASE OutOfOrder(e)
  <2>1. lastSequence' = lastSequence /\ ~(Scan[e].sequence > lastSequence[Scan[e].session])
    BY <1>7 DEF OutOfOrder, InOrder
  <2>2. Scan[e].sequence <= lastSequence[Scan[e].session]
    BY <1>3, <2>1 DEF NoSequence
  <2>. QED  BY <1>2, <1>3, <2>1, <2>2 DEF HighestRemembered
<1>. QED  BY <1>6, <1>7

\* The tracks that a scan makes fit under the limit.
LEMMA RoomFits ==
  ASSUME TrackerInv, NEW e \in ScanId, NEW m \in 0..Scan[e].detections,
         NEW matched \in kSubset(m, DOMAIN tracks),
         NEW fresh, fresh = created..(created + Room(e, matched) - 1),
         NEW kept, kept \subseteq DOMAIN tracks \cup fresh
  PROVE  Room(e, matched) \in Nat /\ Cardinality(kept) <= MaxTracks
<1>1. DOMAIN tracks \subseteq 0..(created - 1) /\ created \in Nat
      /\ Cardinality(DOMAIN tracks) <= MaxTracks
  BY DEF TrackerInv, TrackTypeOK
<1>2. IsFiniteSet(DOMAIN tracks)
  <2>1. IsFiniteSet(0..(created - 1))
    BY <1>1, FS_Interval
  <2>. QED  BY <1>1, <2>1, FS_Subset
<1>3. Cardinality(DOMAIN tracks) \in Nat
  BY <1>2, FS_CardinalityType
<1>4. Cardinality(matched) = m
  BY DEF kSubset
<1>5. Scan[e].detections \in Nat /\ MaxTracks \in Nat
  BY TrackerAssumption DEF ScanRecord
<1>6. /\ Room(e, matched) \in Nat
      /\ Room(e, matched) <= MaxTracks - Cardinality(DOMAIN tracks)
  BY <1>1, <1>3, <1>4, <1>5 DEF Room
<1>7. IsFiniteSet(fresh) /\ Cardinality(fresh) = Room(e, matched)
  <2>1. PICK b \in Int : b = created + Room(e, matched) - 1
    BY <1>1, <1>6
  <2>2. fresh = created..b /\ created \in Int
    BY <1>1, <2>1
  <2>3. /\ IsFiniteSet(fresh)
        /\ Cardinality(fresh) = IF created > b THEN 0 ELSE b - created + 1
    BY <2>2, FS_Interval
  <2>. QED  BY <1>1, <1>6, <2>1, <2>3
<1>8. /\ IsFiniteSet(DOMAIN tracks \cup fresh)
      /\ Cardinality(DOMAIN tracks \cup fresh)
           = Cardinality(DOMAIN tracks) + Cardinality(fresh)
               - Cardinality(DOMAIN tracks \cap fresh)
  BY <1>2, <1>7, FS_Union
<1>9. Cardinality(DOMAIN tracks \cap fresh) \in Nat
  BY <1>2, FS_Subset, FS_CardinalityType
<1>10. Cardinality(DOMAIN tracks \cup fresh) <= MaxTracks
  BY <1>3, <1>5, <1>6, <1>7, <1>8, <1>9
<1>11. /\ Cardinality(kept) <= Cardinality(DOMAIN tracks \cup fresh)
       /\ Cardinality(kept) \in Nat /\ Cardinality(DOMAIN tracks \cup fresh) \in Nat
  BY <1>8, FS_Subset, FS_CardinalityType
<1>. QED  BY <1>5, <1>6, <1>10, <1>11

\* What a scan makes of one track.
LEMMA NextTyped ==
  ASSUME NEW e \in ScanId, NEW t, tracks[t] \in [hits: Nat \ {0}, lastObservedAt: Nat,
                                                state: TrackState]
  PROVE  /\ NewTrack(e) \in [hits: Nat \ {0}, lastObservedAt: Nat, state: TrackState]
         /\ Updated(t, e) \in [hits: Nat \ {0}, lastObservedAt: Nat, state: TrackState]
         /\ Updated(t, e).lastObservedAt = Scan[e].observedAt
         /\ Aged(t, e) \in [hits: Nat \ {0}, lastObservedAt: Nat, state: ReportState]
         /\ Aged(t, e).lastObservedAt = tracks[t].lastObservedAt
         /\ Aged(t, e).state = "LOST" <=>
              Scan[e].observedAt >= tracks[t].lastObservedAt + LostTimeout
<1>1. Scan[e].observedAt \in Nat /\ tracks[t].lastObservedAt \in Nat
      /\ LostTimeout \in Nat /\ tracks[t].state \in TrackState
  BY ScanTyped, TrackerAssumption
<1>2. Age(t, e) >= LostTimeout <=> Scan[e].observedAt >= tracks[t].lastObservedAt + LostTimeout
  BY <1>1 DEF Age
<1>3. Aged(t, e).state = "LOST" <=> Age(t, e) >= LostTimeout
  BY <1>1 DEF Aged, TrackState
<1>4. Aged(t, e) \in [hits: Nat \ {0}, lastObservedAt: Nat, state: ReportState]
      /\ Aged(t, e).lastObservedAt = tracks[t].lastObservedAt
  BY DEF Aged, ReportState, TrackState
<1>. QED  BY <1>1, <1>2, <1>3, <1>4 DEF NewTrack, Updated, TrackState

\* A scan that is tracked: what it loses is older than it by LostTimeout.
LEMMA TrackReports ==
  ASSUME TrackerInv, ~pending, NEW e \in ScanId, NEW m \in 0..Scan[e].detections,
         NEW matched \in kSubset(m, DOMAIN tracks), Track(e, matched),
         UNCHANGED <<trackerUp, known>>
  PROVE  TrackerInv' /\ Reports
<1>. DEFINE fresh == created..(created + Room(e, matched) - 1)
            next == [t \in DOMAIN tracks \cup fresh |->
                       IF t \in fresh THEN NewTrack(e)
                       ELSE IF t \in matched THEN Updated(t, e) ELSE Aged(t, e)]
            kept == {t \in DOMAIN next : next[t].state # "LOST"}
            Kind == [hits: Nat \ {0}, lastObservedAt: Nat, state: ReportState]
<1>1. /\ Note(e) /\ RememberScan(e)
      /\ output' = [flag |-> "none", scan |-> e, tracks |-> next]
      /\ pending' = TRUE /\ trackerFailed' = trackerFailed
      /\ tracks' = [t \in kept |-> next[t]]
      /\ created' = created + Room(e, matched)
  BY DEF Track, Return, Note
<1>2. DOMAIN sources' = kept
  BY DEF Track
<1>3. /\ created \in Nat /\ DOMAIN tracks \subseteq 0..(created - 1)
      /\ \A t \in DOMAIN tracks :
           tracks[t] \in [hits: Nat \ {0}, lastObservedAt: Nat, state: TrackState]
  BY DEF TrackerInv, TrackTypeOK
<1>4. Room(e, matched) \in Nat /\ Cardinality(kept) <= MaxTracks
  <2>1. kept \subseteq DOMAIN tracks \cup fresh
    OBVIOUS
  <2>. HIDE DEF kept
  <2>. QED  BY <2>1, RoomFits
<1>5. /\ DOMAIN next = DOMAIN tracks \cup fresh
      /\ fresh \subseteq 0..(created' - 1) /\ DOMAIN tracks \subseteq 0..(created' - 1)
      /\ \A t \in fresh : t >= created /\ t \notin DOMAIN tracks
      /\ created' \in Nat
  BY <1>1, <1>3, <1>4
<1>6. Scan[e].observedAt \in Nat /\ LostTimeout \in Nat
  BY ScanTyped, TrackerAssumption
<1>7. ASSUME NEW t \in DOMAIN next
      PROVE  /\ next[t] \in Kind
             /\ \/ /\ next[t].lastObservedAt = Scan[e].observedAt
                   /\ next[t].state # "LOST"
                \/ /\ t \in DOMAIN tracks
                   /\ next[t].lastObservedAt = tracks[t].lastObservedAt
                   /\ next[t].state = "LOST" <=>
                        Scan[e].observedAt >= tracks[t].lastObservedAt + LostTimeout
  <2>1. CASE t \in fresh
    BY <1>5, <1>6, <2>1, NewTrackStarts DEF NewTrack, ReportState, TrackState
  <2>2. CASE t \notin fresh /\ t \in matched
    <3>1. t \in DOMAIN tracks /\ next[t] = Updated(t, e)
      BY <1>5, <1>7, <2>2
    <3>2. /\ Updated(t, e) \in [hits: Nat \ {0}, lastObservedAt: Nat, state: TrackState]
          /\ Updated(t, e).lastObservedAt = Scan[e].observedAt
      BY <1>3, <3>1, NextTyped
    <3>3. Updated(t, e) \in Kind /\ Updated(t, e).state # "LOST"
      BY <3>2 DEF ReportState, TrackState
    <3>. QED  BY <3>1, <3>2, <3>3
  <2>3. CASE t \notin fresh /\ t \notin matched
    <3>1. t \in DOMAIN tracks /\ next[t] = Aged(t, e)
      BY <1>5, <1>7, <2>3
    <3>. QED  BY <1>3, <3>1, NextTyped
  <2>. QED  BY <2>1, <2>2, <2>3
<1>. HIDE DEF fresh, next
<1>8. /\ DOMAIN output'.tracks = DOMAIN next /\ output'.scan = e
      /\ \A t \in DOMAIN next : output'.tracks[t] = next[t]
      /\ DOMAIN tracks' = kept /\ \A t \in kept : tracks'[t] = next[t]
      /\ kept \subseteq DOMAIN next
  BY <1>1
<1>9. PICK n : n = Len(remembered) + 1
  OBVIOUS
<1>10. /\ remembered' \in Seq(ScanId) /\ RememberedScans' = RememberedScans \cup {e}
  BY <1>1, <1>9, ScanRemembered
<1>11. \A r \in RememberedScans' : r \in ScanId
  BY <1>10 DEF RememberedScans, TrackerInv, TrackTypeOK
<1>12. \A t \in kept : next[t] \in [hits: Nat \ {0}, lastObservedAt: Nat, state: TrackState]
  BY <1>7 DEF ReportState
<1>13. HighestRemembered' /\ lastSequence' \in [Session -> Nat \cup {NoSequence}]
  BY <1>1, HighestKept
<1>14. TrackTypeOK'
  BY <1>1, <1>2, <1>4, <1>5, <1>8, <1>10, <1>12, <1>13 DEF TrackTypeOK, TrackerInv, NoOutput
<1>15. OutputTyped'
  BY <1>1, <1>5, <1>7, <1>8, <1>10 DEF OutputTyped, NoOutput
<1>16. \A r \in RememberedScans' : Scan[r].observedAt \in Nat
  BY <1>11, ScanTyped
<1>17. TimelyTracker' => SeenInTime
  BY <1>1, TimelyBefore DEF TimelyTracker, TrackerInv
<1>18. TimelyTracker' => SeenInTime'
  <2>. SUFFICES ASSUME TimelyTracker', NEW t \in kept, NEW r \in RememberedScans'
                PROVE  Scan[r].observedAt <= next[t].lastObservedAt + LostTimeout
    BY <1>8 DEF SeenInTime
  <2>1. t \in DOMAIN next /\ next[t].state # "LOST"
    BY <1>8
  <2>2. CASE next[t].lastObservedAt = Scan[e].observedAt
    BY <1>1, <2>2, NotedInTime DEF TimelyTracker
  <2>3. CASE /\ t \in DOMAIN tracks /\ next[t].lastObservedAt = tracks[t].lastObservedAt
             /\ ~(Scan[e].observedAt >= tracks[t].lastObservedAt + LostTimeout)
    <3>1. tracks[t].lastObservedAt \in Nat
      BY <1>3, <2>3
    <3>2. CASE r = e
      BY <1>6, <2>3, <3>1, <3>2
    <3>3. CASE r \in RememberedScans
      BY <1>17, <2>3, <3>3 DEF SeenInTime
    <3>. QED  BY <1>10, <3>2, <3>3
  <2>. QED  BY <1>7, <2>1, <2>2, <2>3
<1>19. ASSUME TimelyTracker', NEW t \in DOMAIN next, next[t].state = "LOST",
              NEW r \in RememberedScans'
       PROVE  Scan[r].observedAt <= Scan[e].observedAt
  <2>1. /\ t \in DOMAIN tracks
        /\ Scan[e].observedAt >= tracks[t].lastObservedAt + LostTimeout
        /\ tracks[t].lastObservedAt \in Nat
    BY <1>3, <1>7, <1>19
  <2>2. CASE r \in RememberedScans
    BY <1>6, <1>16, <1>17, <1>19, <2>1, <2>2 DEF SeenInTime
  <2>3. CASE r = e
    BY <1>6, <2>3
  <2>. QED  BY <1>10, <2>2, <2>3
<1>20. Reports
  BY <1>1, <1>5, <1>8, <1>19 DEF Reports
<1>. QED  BY <1>1, <1>5, <1>13, <1>14, <1>15, <1>18, <1>20 DEF TrackerInv

\* A scan that is not tracked reports the tracks as they are.
LEMMA DegradedReports ==
  ASSUME TrackerInv, ~pending, NEW e \in ScanId, DuplicateScan(e) \/ OutOfOrder(e),
         UNCHANGED <<trackerUp, known>>
  PROVE  TrackerInv' /\ Reports
<1>1. /\ UNCHANGED <<tracks, created, sources, trackerFailed>> /\ pending' = TRUE
      /\ output'.scan = e /\ output'.tracks = tracks /\ output' # NoOutput
  BY DEF DuplicateScan, OutOfOrder, Degraded, Return, NoOutput
<1>2. TrackTypeOK /\ HighestRemembered /\ created \in Nat
  BY DEF TrackerInv
<1>3. \A t \in DOMAIN tracks : tracks[t].state \in TrackState
  BY <1>2 DEF TrackTypeOK
<1>4. /\ remembered' \in Seq(ScanId) /\ e \in RememberedScans'
      /\ RememberedScans \subseteq RememberedScans'
      /\ HighestRemembered' /\ lastSequence' \in [Session -> Nat \cup {NoSequence}]
  <2>1. CASE DuplicateScan(e)
    <3>1. UNCHANGED <<remembered, lastSequence>> /\ e \in SeenScans
      BY <2>1 DEF DuplicateScan
    <3>2. e \in RememberedScans
      BY <3>1 DEF SeenScans, RememberedScans
    <3>. QED  BY <1>2, <3>1, <3>2 DEF RememberedScans, HighestRemembered, TrackTypeOK
  <2>2. CASE OutOfOrder(e)
    <3>1. PICK n : n = Len(remembered) + 1
      OBVIOUS
    <3>2. RememberScan(e)
      BY <2>2 DEF OutOfOrder
    <3>3. remembered' \in Seq(ScanId) /\ RememberedScans' = RememberedScans \cup {e}
      BY <3>1, <3>2, ScanRemembered
    <3>. QED  BY <2>2, <3>3, HighestKept
  <2>. QED  BY <2>1, <2>2
<1>5. TrackTypeOK'
  BY <1>1, <1>2, <1>4 DEF TrackTypeOK
<1>6. OutputTyped'
  BY <1>1, <1>2, <1>3, <1>4 DEF OutputTyped, ReportState, TrackState, TrackTypeOK
<1>7. TimelyTracker' => SeenInTime'
  <2>. SUFFICES ASSUME TimelyTracker' PROVE SeenInTime'
    OBVIOUS
  <2>1. SeenInTime
    BY <1>1, TimelyBefore DEF TimelyTracker, TrackerInv, DuplicateScan, OutOfOrder
  <2>2. CASE DuplicateScan(e)
    BY <1>1, <2>1, <2>2 DEF DuplicateScan, SeenInTime, RememberedScans
  <2>3. CASE OutOfOrder(e)
    <3>1. PICK n : n = Len(remembered) + 1
      OBVIOUS
    <3>2. RememberedScans' = RememberedScans \cup {e}
      BY <2>3, <3>1, ScanRemembered DEF OutOfOrder
    <3>3. PICK r \in RememberedScans : Scan[e].observedAt <= Scan[r].observedAt
      BY <2>3, OutOfOrderIsOld DEF TimelyTracker
    <3>4. r \in ScanId
      BY DEF RememberedScans, TrackerInv, TrackTypeOK
    <3>5. Scan[e].observedAt \in Nat /\ Scan[r].observedAt \in Nat /\ LostTimeout \in Nat
      BY <3>4, ScanTyped, TrackerAssumption
    <3>6. ASSUME NEW t \in DOMAIN tracks
          PROVE  Scan[e].observedAt <= tracks[t].lastObservedAt + LostTimeout
      <4>1. tracks[t].lastObservedAt \in Nat
        BY <1>2 DEF TrackTypeOK
      <4>2. Scan[r].observedAt <= tracks[t].lastObservedAt + LostTimeout
        BY <2>1 DEF SeenInTime
      <4>. QED  BY <3>3, <3>5, <4>1, <4>2
    <3>. QED  BY <1>1, <2>1, <3>2, <3>6 DEF SeenInTime
  <2>. QED  BY <2>2, <2>3
<1>8. Reports
  BY <1>1, <1>3 DEF Reports, TrackState
<1>. QED  BY <1>1, <1>2, <1>4, <1>5, <1>6, <1>7, <1>8 DEF TrackerInv

\* A scan that raises: what was read of it stays, and the failure shows.
LEMMA FailureShows ==
  ASSUME TrackerInv, ~pending, NEW e \in ScanId, trackerFailed' = TRUE,
         UNCHANGED <<tracks, output, pending, created, sources, trackerUp, known>>,
         Note(e) \/ UNCHANGED <<remembered, lastSequence>>
  PROVE  TrackerInv'
<1>1. TrackTypeOK /\ HighestRemembered /\ created \in Nat
  BY DEF TrackerInv
<1>2. /\ remembered' \in Seq(ScanId)
      /\ HighestRemembered' /\ lastSequence' \in [Session -> Nat \cup {NoSequence}]
  <2>1. CASE Note(e)
    <3>1. PICK n : n = Len(remembered) + 1
      OBVIOUS
    <3>. QED  BY <2>1, <3>1, ScanRemembered, HighestKept DEF Note
  <2>2. CASE UNCHANGED <<remembered, lastSequence>>
    BY <1>1, <2>2 DEF RememberedScans, HighestRemembered, TrackTypeOK
  <2>. QED  BY <2>1, <2>2
<1>3. TrackTypeOK'
  BY <1>1, <1>2 DEF TrackTypeOK
<1>. QED  BY <1>1, <1>2, <1>3 DEF TrackerInv, TimelyTracker

\* Every way process() may end.
LEMMA ProcessReports ==
  ASSUME TrackerInv, Process
  PROVE  /\ TrackerInv' /\ (LateWithinTimeout' => LateWithinTimeout)
         /\ ~pending /\ trackerFailed \in BOOLEAN /\ trackerFailed' \in BOOLEAN
         /\ trackerFailed' \/ (Reports /\ ~trackerFailed)
<1>1. ~pending /\ UNCHANGED <<trackerUp, known>>
  BY DEF Process
<1>2. ASSUME NEW e \in ScanId, DuplicateScan(e) \/ OutOfOrder(e)
      PROVE  /\ TrackerInv' /\ Reports /\ trackerFailed' = trackerFailed
             /\ RememberScan(e) \/ UNCHANGED remembered
  BY <1>1, <1>2, DegradedReports DEF DuplicateScan, OutOfOrder, Degraded, Return
<1>3. ASSUME NEW e \in ScanId, TrackScan(e)
      PROVE  /\ TrackerInv' /\ Reports /\ trackerFailed' = trackerFailed /\ RememberScan(e)
  <2>1. PICK m \in 0..Scan[e].detections :
          \E matched \in kSubset(m, DOMAIN tracks) : Track(e, matched)
    BY <1>3 DEF TrackScan
  <2>2. PICK matched \in kSubset(m, DOMAIN tracks) : Track(e, matched)
    BY <2>1
  <2>. QED  BY <1>1, <2>2, TrackReports DEF Track, Note, Return
<1>4. ASSUME NEW e \in ScanId, Unreadable(e)
      PROVE  TrackerInv' /\ trackerFailed' = TRUE /\ RememberScan(e)
  BY <1>1, <1>4, FailureShows DEF Unreadable, Note
<1>5. ASSUME NEW e \in ScanId, trackerFailed' = TRUE,
             UNCHANGED <<tracks, lastSequence, remembered, output, pending, created, sources>>
      PROVE  TrackerInv'
  BY <1>1, <1>5, FailureShows
<1>6. PICK e \in ScanId :
        /\ TrackerInv'
        /\ RememberScan(e) \/ UNCHANGED remembered
        /\ trackerFailed' = TRUE \/ (Reports /\ trackerFailed' = trackerFailed)
  BY <1>2, <1>3, <1>4, <1>5 DEF Process
<1>7. LateWithinTimeout' => LateWithinTimeout
  BY <1>6, TimelyBefore
<1>8. trackerFailed \in BOOLEAN /\ trackerFailed' \in BOOLEAN
  BY <1>6 DEF TrackerInv, TrackTypeOK
<1>. QED  BY <1>1, <1>6, <1>7, <1>8

\* Every action by itself.
LEMMA TrackerKept == TrackerInv /\ [TrackerNext]_trackerVars => TrackerInv'
<1>. SUFFICES ASSUME TrackerInv, [TrackerNext]_trackerVars PROVE TrackerInv'
  OBVIOUS
<1>1. CASE Process
  BY <1>1, ProcessReports
<1>2. ASSUME UNCHANGED <<tracks, lastSequence, remembered, output, created, sources>>,
             pending' = FALSE \/ pending' = pending,
             trackerFailed' = TRUE \/ trackerFailed' = trackerFailed,
             trackerUp' \in BOOLEAN,
             \A t \in DOMAIN known' : known'[t] \in ReportState
      PROVE  TrackerInv'
  <2>0. TrackTypeOK
    BY DEF TrackerInv
  <2>5. /\ pending' \in BOOLEAN /\ trackerFailed' \in BOOLEAN
        /\ pending' => output # NoOutput
    <3>1. /\ pending \in BOOLEAN /\ trackerFailed \in BOOLEAN
          /\ pending => output # NoOutput
      BY <2>0 DEF TrackTypeOK
    <3>2. pending' \in BOOLEAN /\ (pending' => pending)
      <4>1. CASE pending' = FALSE
        BY <4>1
      <4>2. CASE pending' = pending
        BY <3>1, <4>2
      <4>. QED  BY <1>2, <4>1, <4>2
    <3>3. trackerFailed' \in BOOLEAN
      BY <1>2, <3>1, Zenon
    <3>. QED  BY <3>1, <3>2, <3>3, Zenon
  <2>1. TrackTypeOK'
    <3>1. lastSequence' = lastSequence /\ created' = created /\ remembered' = remembered
      BY <1>2
    <3>2. \A t \in DOMAIN known' : known'[t] \in TrackState \cup {"LOST"}
      BY <1>2 DEF ReportState
    <3>. QED  BY <1>2, <2>0, <2>5, <3>1, <3>2 DEF TrackTypeOK
  <2>2. HighestRemembered' /\ (SeenInTime => SeenInTime')
    BY <1>2 DEF TrackerInv, HighestRemembered, SeenInTime, RememberedScans
  <2>3. TimelyTracker' => TimelyTracker
    BY <1>2 DEF TimelyTracker, LateWithinTimeout, TakenIn
  <2>4. pending' => OutputTyped'
    BY <1>2 DEF TrackerInv, OutputTyped, RememberedScans
  <2>. QED  BY <1>2, <2>1, <2>2, <2>3, <2>4 DEF TrackerInv
<1>3. CASE Publish
  <2>1. \A t \in DOMAIN known' : known'[t] \in ReportState
    BY <1>3 DEF Publish, TrackerInv, TrackTypeOK, OutputTyped, ReportState
  <2>. QED  BY <1>2, <1>3, <2>1 DEF Publish, TrackerInv, TrackTypeOK
<1>4. CASE PublishFails \/ SwitchTracker \/ UNCHANGED trackerVars
  <2>1. trackerUp' \in BOOLEAN /\ \A t \in DOMAIN known' : known'[t] \in ReportState
    BY <1>4 DEF PublishFails, SwitchTracker, trackerVars, TrackerInv, TrackTypeOK, ReportState
  <2>. QED  BY <1>2, <1>4, <2>1 DEF PublishFails, SwitchTracker, trackerVars
<1>. QED  BY <1>1, <1>3, <1>4 DEF TrackerNext

LEMMA TrackerStarts == TrackerInit => TrackerInv
<1>. SUFFICES ASSUME TrackerInit PROVE TrackerInv
  OBVIOUS
<1>1. DOMAIN tracks = {} /\ remembered = <<>> /\ Cardinality({}) = 0
  BY FS_EmptySet DEF TrackerInit
<1>2. RememberedScans = {}
  BY <1>1 DEF RememberedScans
<1>3. TrackTypeOK
  <2>1. /\ DOMAIN tracks \subseteq 0..(created - 1) /\ DOMAIN sources = DOMAIN tracks
        /\ Cardinality(DOMAIN tracks) <= MaxTracks
    BY <1>1, TrackerAssumption DEF TrackerInit
  <2>2. /\ lastSequence \in [Session -> Nat \cup {NoSequence}]
        /\ remembered \in Seq(ScanId) /\ DOMAIN known = {}
    BY DEF TrackerInit, NoSequence
  <2>3. /\ trackerUp \in BOOLEAN /\ pending \in BOOLEAN /\ trackerFailed \in BOOLEAN
        /\ ~pending
    BY DEF TrackerInit
  <2>. QED  BY <1>1, <2>1, <2>2, <2>3 DEF TrackTypeOK
<1>4. HighestRemembered /\ SeenInTime /\ created \in Nat /\ ~pending
  BY <1>1, <1>2 DEF TrackerInit, HighestRemembered, SeenInTime
<1>. QED  BY <1>3, <1>4 DEF TrackerInv

(* The types of the tracker, the limit on its tracks among them, and when  *)
(* what it remembers was observed.                                         *)
THEOREM TrackerInvariant == TrackerSpec => []TrackerInv
BY TrackerStarts, TrackerKept, PTL DEF TrackerSpec

-----------------------------------------------------------------------------
(* The line from the tracker to the twin.  Place 0 is what the twin has    *)
(* been told of, the places after it are the batches in its queue, then    *)
(* what the handler is publishing, then the tracks themselves.             *)

Queue == inbox["tracks"]
TrackKey(t) == <<"track", t>>
Ids(e) == DOMAIN e[2].states

\* The events of a topic that the twin remembers.
Heard(f) ==
  {history[i].event : i \in {j \in DOMAIN history : history[j].event[1] = f}}

Told == UNION {Ids(e) : e \in Heard("tracks")}

InTwin == {t \in 0..MaxTrackId : TrackKey(t) \in DOMAIN entities}

OnLine(i) ==
  IF i = 0 THEN Told
  ELSE IF i <= Len(Queue) THEN Ids(Queue[i])
  ELSE IF i = Len(Queue) + 1 /\ pending THEN DOMAIN output.tracks
  ELSE DOMAIN tracks

LostOnLine(i) ==
  IF i <= Len(Queue) THEN {t \in Ids(Queue[i]) : Queue[i][2].states[t] = "LOST"}
  ELSE IF i = Len(Queue) + 1 /\ pending
       THEN {t \in DOMAIN output.tracks : output.tracks[t].state = "LOST"}
  ELSE {}

TimeOnLine(i) ==
  Scan[IF i <= Len(Queue) THEN Queue[i][2].scan ELSE output.scan].observedAt

BatchInTwin(t) == entities[TrackKey(t)].event
TimeOf(e) == Event[e].observedAt

\* A track that was on the line and is on it again is there in between.
Unbroken ==
  \A h, i, j \in Nat : h < i /\ i < j =>
    \A t : t \in OnLine(h) /\ t \in OnLine(j) => t \in OnLine(i)

\* A track leaves the line as LOST, and only so.
LeavesLost == \A i \in Nat \ {0} : LostOnLine(i) = OnLine(i) \ OnLine(i + 1)

\* A batch with a loss is no older than anything before it.
LossIsNewest ==
  \A i \in Nat \ {0} : LostOnLine(i) # {} =>
    /\ \A h \in 1..(i - 1) : TimeOnLine(h) <= TimeOnLine(i)
    /\ \A t \in InTwin : TimeOf(BatchInTwin(t)) <= TimeOnLine(i)

\* Tracks that are still to come have the same batch in the twin.
SameBatch ==
  \A t, u \in OnLine(1) \cap InTwin : BatchInTwin(t) = BatchInTwin(u)

(* A track that was refused with its batch, and is not in the twin yet,    *)
(* comes with one that is in the twin by a batch as new.                   *)
Escorted ==
  \A e \in Heard("tracks") : \A t \in (OnLine(1) \ InTwin) \cap Ids(e) :
    \E u \in OnLine(1) \cap InTwin : TimeOf(e) <= TimeOf(BatchInTwin(u))

\* What is in the twin is still to come, or lost there.
LossKnown ==
  \A t \in InTwin : t \in OnLine(1) \/ BatchInTwin(t)[2].states[t] = "LOST"

TracksNewest ==
  \A e \in Heard("tracks") : \A t \in InTwin \cap Ids(e) :
    TimeOf(e) <= TimeOf(BatchInTwin(t))

LineInv ==
  /\ Unbroken /\ LeavesLost /\ LossIsNewest
  /\ SameBatch /\ Escorted /\ LossKnown /\ TracksNewest

\* No failure on the way, and scans that are late within the timeout.
Undisturbed == TimelyTracker /\ ~failed["tracks"]

(* The batches are numbered through, of scans that were taken in and of    *)
(* tracks that were created.                                               *)
Batches ==
  {e \in EventId : /\ e[1] = "tracks" /\ e[2].scan \in RememberedScans
                   /\ Ids(e) \subseteq 0..(created - 1)}

LineTyped ==
  /\ outputs \in 0..MaxOutputs
  /\ \A i \in DOMAIN Queue :
       Queue[i] \in Batches /\ Queue[i][2].number = outputs - Len(Queue) + i
  /\ \A i \in DOMAIN inbox["environment"] : inbox["environment"][i][1] = "environment"
  /\ \A e \in Heard("tracks") : e \in Batches /\ e[2].number <= outputs - Len(Queue)

\* The environment's entities, which have an event each.
WeatherNewest ==
  \A e \in Heard("environment") : \A k \in Event[e].keys :
    k \in DOMAIN entities /\ TimeOf(e) <= TimeOf(entities[k].event)

SituationInv ==
  /\ TrackerInv /\ IngestInv /\ LineTyped /\ WeatherNewest
  /\ Undisturbed => LineInv

-----------------------------------------------------------------------------
\* A batch, as the twin sees it.
LEMMA BatchFields ==
  ASSUME NEW e \in EventId, e[1] = "tracks"
  PROVE  /\ e[2].scan \in ScanId /\ e[2].number \in Nat
         /\ TimeOf(e) = Scan[e[2].scan].observedAt /\ TimeOf(e) \in Nat
         /\ Event[e].reducible /\ Ids(e) \subseteq 0..MaxTrackId
         /\ Event[e].keys = {TrackKey(t) : t \in Ids(e)}
         /\ \A t : TrackKey(t) \in Event[e].keys <=> t \in Ids(e)
<1>1. EventId = SituationEventId /\ Event = SituationEvent
  BY SituationAssumption
<1>2. e[2] \in BatchId
  BY <1>1 DEF SituationEventId
<1>3. e[2].scan \in ScanId /\ e[2].number \in 1..MaxOutputs
  BY <1>2 DEF BatchId
<1>4. Ids(e) \subseteq 0..MaxTrackId
  <2>1. PICK ids \in SUBSET (0..MaxTrackId) :
          e[2].states \in [ids -> TrackState \cup {"LOST"}]
    BY <1>2 DEF BatchId
  <2>. QED  BY <2>1 DEF Ids
<1>5. Event[e] = [observedAt |-> Scan[e[2].scan].observedAt,
                  receivedAt |-> Scan[e[2].scan].observedAt,
                  keys |-> {<<"track", t>> : t \in DOMAIN e[2].states},
                  valid |-> e[2].valid, reducible |-> TRUE]
  BY <1>1 DEF SituationEvent
<1>. QED  BY <1>3, <1>4, <1>5, SituationAssumption, EventFields DEF TimeOf, Ids, TrackKey

\* What is said of the environment is said of one thing, and no track.
LEMMA WeatherFields ==
  ASSUME NEW e \in EventId, e[1] # "tracks"
  PROVE  /\ e[1] = "environment"
         /\ \A j, k \in Event[e].keys : j = k
         /\ \A t : TrackKey(t) \notin Event[e].keys
<1>1. EventId = SituationEventId /\ Event = SituationEvent
  BY SituationAssumption
<1>2. e[1] = "environment" /\ e[2] \in WeatherId
  BY <1>1 DEF SituationEventId
<1>3. Event[e] = Weather[e[2]]
  BY <1>1, <1>2 DEF SituationEvent
<1>. QED  BY <1>2, <1>3, SituationAssumption DEF TrackKey

\* The batch that is published is one the twin may be told of.
LEMMA PublishedBatch ==
  ASSUME SituationInv, PublishTracks
  PROVE  \E b \in EventId :
           /\ Deliver("tracks", b)
           /\ b[1] = "tracks" /\ b[2].number = outputs + 1 /\ b[2].scan = output.scan
           /\ Ids(b) = DOMAIN output.tracks
           /\ \A t \in DOMAIN output.tracks : b[2].states[t] = output.tracks[t].state
<1>. DEFINE states == [t \in DOMAIN output.tracks |-> output.tracks[t].state]
            batch == [number |-> outputs + 1, scan |-> output.scan,
                      valid |-> OutputValid, states |-> states]
<1>1. /\ outputs < MaxOutputs /\ DOMAIN output.tracks \subseteq 0..MaxTrackId
      /\ pending /\ Deliver("tracks", <<"tracks", batch>>)
  BY DEF PublishTracks, Publish
<1>2. OutputTyped
  BY <1>1 DEF SituationInv, TrackerInv
<1>3. states \in [DOMAIN output.tracks -> TrackState \cup {"LOST"}]
  BY <1>2 DEF OutputTyped, ReportState
<1>4. output.scan \in ScanId
  BY <1>2 DEF OutputTyped, RememberedScans, SituationInv, TrackerInv, TrackTypeOK
<1>5. outputs + 1 \in 1..MaxOutputs
  BY <1>1, SituationAssumption DEF SituationInv, LineTyped
<1>6. states \in UNION {[ids -> TrackState \cup {"LOST"}] : ids \in SUBSET (0..MaxTrackId)}
  BY <1>1, <1>3
<1>. HIDE DEF states
<1>10. OutputValid \in BOOLEAN
  BY DEF OutputValid
<1>7. batch \in BatchId
  BY <1>4, <1>5, <1>6, <1>10 DEF BatchId
<1>8. <<"tracks", batch>> \in EventId
  BY <1>7, SituationAssumption DEF SituationEventId
<1>9. batch.number = outputs + 1 /\ batch.scan = output.scan /\ batch.states = states
  OBVIOUS
<1>. USE DEF states
<1>. QED  BY <1>1, <1>8, <1>9 DEF Ids

\* Every step is a step of the tracker, or none, and one of the ingest.
LEMMA StepsOfBoth ==
  ASSUME SituationInv, [SituationNext]_situationVars
  PROVE  [TrackerNext]_trackerVars /\ [IngestNext]_ingestVars
<1>1. Feed = {"tracks", "environment"} /\ EventId = SituationEventId
  BY SituationAssumption
<1>2. CASE ProcessScan
  BY <1>2 DEF ProcessScan, TrackerNext
<1>3. CASE PublishTracks
  <2>1. PICK b \in EventId : Deliver("tracks", b)
    BY <1>3, PublishedBatch
  <2>. QED  BY <1>1, <1>3, <2>1 DEF PublishTracks, TrackerNext, IngestNext
<1>4. CASE PublicationFails
  BY <1>4 DEF PublicationFails, TrackerNext
<1>5. CASE PublishWeather
  <2>1. PICK w \in WeatherId : Deliver("environment", <<"environment", w>>)
    BY <1>5 DEF PublishWeather
  <2>2. <<"environment", w>> \in EventId
    BY <1>1 DEF SituationEventId
  <2>. QED  BY <1>1, <1>5, <2>1, <2>2 DEF PublishWeather, IngestNext
<1>6. CASE Ingest
  BY <1>6 DEF Ingest, IngestNext
<1>7. CASE UNCHANGED situationVars
  BY <1>7 DEF situationVars
<1>. QED  BY <1>2, <1>3, <1>4, <1>5, <1>6, <1>7 DEF SituationNext

-----------------------------------------------------------------------------
(* What the twin remembers of the tracks, and what it holds.               *)

\* A track in the twin is there by a batch that names it.
LEMMA HeldWasHeard ==
  ASSUME SituationInv, NEW t \in InTwin
  PROVE  /\ BatchInTwin(t) \in Heard("tracks") /\ t \in Ids(BatchInTwin(t))
         /\ BatchInTwin(t) \in Batches /\ t \in Told
<1>1. TrackKey(t) \in DOMAIN entities
  BY DEF InTwin
<1>2. PICK m \in DOMAIN history : LastCommit(TrackKey(t), m)
  BY <1>1 DEF SituationInv, IngestInv, StoreInv, Traced
<1>3. /\ BatchInTwin(t) = history[m].event
      /\ TrackKey(t) \in Event[history[m].event].keys
  BY <1>2 DEF LastCommit, CommitsOf, BatchInTwin
<1>4. history[m].event \in EventId
  BY <1>2, CommitsTyped DEF SituationInv, IngestInv, StoreInv
<1>5. history[m].event[1] = "tracks"
  BY <1>3, <1>4, WeatherFields
<1>6. history[m].event \in Heard("tracks")
  BY <1>2, <1>5 DEF Heard
<1>7. t \in Ids(history[m].event)
  BY <1>3, <1>4, <1>5, BatchFields
<1>. QED  BY <1>3, <1>6, <1>7 DEF SituationInv, LineTyped, Told

\* Every event that is remembered is of one topic or the other.
LEMMA HeardTyped ==
  ASSUME SituationInv, NEW i \in DOMAIN history
  PROVE  /\ history[i].event \in EventId
         /\ \/ history[i].event[1] = "tracks" /\ history[i].event \in Heard("tracks")
            \/ history[i].event[1] = "environment"
                 /\ history[i].event \in Heard("environment")
<1>1. history[i].event \in EventId
  BY CommitsTyped DEF SituationInv, IngestInv, StoreInv
<1>. QED  BY <1>1, WeatherFields DEF Heard

\* One more event that is remembered.
LEMMA HeardGrows ==
  ASSUME SituationInv, NEW e \in EventId, NEW r \in Nat, Remember(e, r), NEW f
  PROVE  Heard(f)' = IF e[1] = f THEN Heard(f) \cup {e} ELSE Heard(f)
<1>1. PICK n : n = Len(history) + 1
  OBVIOUS
<1>2. /\ DOMAIN history' = DOMAIN history \cup {n}
      /\ \A i \in DOMAIN history : history'[i] = history[i]
      /\ history'[n].event = e
  BY <1>1, Grown DEF SituationInv, IngestInv, StoreInv
<1>. QED  BY <1>2 DEF Heard

\* What apply() does, in terms of the topics.
LEMMA ApplyTells ==
  ASSUME SituationInv, NEW e \in EventId, Apply(e)
  PROVE  \/ UNCHANGED <<entities, history>> /\ e \in Seen
         \/ UNCHANGED <<entities, history>> /\ outcome' = "error"
         \/ /\ Late(e) /\ UNCHANGED entities
            /\ \A f : Heard(f)' = IF e[1] = f THEN Heard(f) \cup {e} ELSE Heard(f)
         \/ /\ ~Late(e) /\ DOMAIN entities' = DOMAIN entities \cup Event[e].keys
            /\ \A k \in DOMAIN entities' :
                 IF k \in Event[e].keys THEN entities'[k].event = e
                 ELSE entities'[k] = entities[k]
            /\ \A f : Heard(f)' = IF e[1] = f THEN Heard(f) \cup {e} ELSE Heard(f)
<1>1. revision + 1 \in Nat
  BY DEF SituationInv, IngestInv, StoreInv, StoreTyped
<1>2. CASE Duplicate(e)
  BY <1>2 DEF Duplicate
<1>3. CASE Refuse(e)
  BY <1>3 DEF Refuse, Report
<1>4. CASE RejectLate(e)
  BY <1>4, HeardGrows DEF RejectLate
<1>5. CASE Commit(e)
  <2>1. ~Late(e) /\ Remember(e, revision + 1)
    BY <1>5 DEF Commit
  <2>2. entities' = [k \in DOMAIN entities \cup Event[e].keys |->
                       IF k \in Event[e].keys
                       THEN [revision |-> revision + 1, event |-> e]
                       ELSE entities[k]]
    BY <1>5 DEF Commit
  <2>3. \A f : Heard(f)' = IF e[1] = f THEN Heard(f) \cup {e} ELSE Heard(f)
    BY <1>1, <2>1, HeardGrows
  <2>. QED  BY <2>1, <2>2, <2>3
<1>. QED  BY <1>2, <1>3, <1>4, <1>5 DEF Apply

-----------------------------------------------------------------------------
(* The line, when nothing on it or in the twin's tracks changes.           *)

SameLine ==
  \A i \in Nat : /\ OnLine(i)' = OnLine(i)
                 /\ i > 0 => /\ LostOnLine(i)' = LostOnLine(i)
                             /\ TimeOnLine(i)' = TimeOnLine(i)

SameTwin ==
  /\ Heard("tracks")' = Heard("tracks") /\ InTwin' = InTwin
  /\ \A t \in InTwin : BatchInTwin(t)' = BatchInTwin(t)

LEMMA LineStands ==
  ASSUME LineInv, SameLine, SameTwin
  PROVE  LineInv'
<1>1. Unbroken' /\ LeavesLost' /\ LossKnown'
  BY DEF LineInv, SameLine, SameTwin, Unbroken, LeavesLost, LossKnown
<1>2. LossIsNewest'
  BY DEF LineInv, SameLine, SameTwin, LossIsNewest, TimeOf
<1>3. SameBatch' /\ Escorted' /\ TracksNewest'
  BY DEF LineInv, SameLine, SameTwin, SameBatch, Escorted, TracksNewest, TimeOf, Ids
<1>. QED  BY <1>1, <1>2, <1>3 DEF LineInv

\* A step that touches neither the queue nor the tracker.
LEMMA LineUntouched ==
  ASSUME Queue' = Queue, UNCHANGED trackerVars, Heard("tracks")' = Heard("tracks")
  PROVE  SameLine
BY DEF SameLine, OnLine, LostOnLine, TimeOnLine, Told, Ids, trackerVars

\* An event of the environment leaves the tracks alone.
LEMMA WeatherLeavesTracks ==
  ASSUME SituationInv, NEW e \in EventId, e[1] = "environment", Apply(e)
  PROVE  SameTwin
<1>1. \A t : TrackKey(t) \notin Event[e].keys
  BY WeatherFields
<1>2. CASE UNCHANGED <<entities, history>>
  BY <1>2 DEF SameTwin, Heard, InTwin, BatchInTwin
<1>3. CASE /\ entities' = entities \/
              /\ DOMAIN entities' = DOMAIN entities \cup Event[e].keys
              /\ \A k \in DOMAIN entities' :
                   IF k \in Event[e].keys THEN entities'[k].event = e
                   ELSE entities'[k] = entities[k]
           /\ Heard("tracks")' = Heard("tracks")
  BY <1>1, <1>3 DEF SameTwin, InTwin, BatchInTwin
<1>. QED  BY <1>2, <1>3, ApplyTells

\* The queues of the twin, for the provers.
LEMMA QueueTyped ==
  ASSUME SituationInv
  PROVE  /\ inbox \in [Feed -> Seq(EventId)] /\ Queue \in Seq(EventId)
         /\ failed \in [Feed -> BOOLEAN]
         /\ "tracks" \in Feed /\ "environment" \in Feed
         /\ Len(Queue) \in Nat /\ DOMAIN Queue = 1..Len(Queue)
BY SituationAssumption DEF SituationInv, IngestInv, QueuesTyped, Queue

\* What is published takes the place in the queue it had before.
LEMMA PublicationStays ==
  ASSUME SituationInv, PublishTracks
  PROVE  SameLine /\ SameTwin
<1>1. PICK b \in EventId :
        /\ Deliver("tracks", b)
        /\ b[2].scan = output.scan /\ Ids(b) = DOMAIN output.tracks
        /\ \A t \in DOMAIN output.tracks : b[2].states[t] = output.tracks[t].state
  BY PublishedBatch
<1>2. /\ pending /\ pending' = FALSE /\ UNCHANGED <<tracks, output>>
      /\ Queue' = Append(Queue, b) /\ UNCHANGED <<entities, history>>
  BY <1>1, QueueTyped DEF PublishTracks, Publish, Deliver, Queue, twinVars
<1>3. PICK n \in Nat : n = Len(Queue)
  BY QueueTyped
<1>4. /\ Len(Queue') = n + 1 /\ Queue'[n + 1] = b
      /\ \A i \in 1..n : Queue'[i] = Queue[i]
  BY <1>2, <1>3, QueueTyped
<1>5. SameTwin
  BY <1>2 DEF SameTwin, Heard, InTwin, BatchInTwin
<1>6. Told' = Told
  BY <1>5 DEF SameTwin, Told, Ids
<1>7. ASSUME NEW i \in Nat
      PROVE  /\ OnLine(i)' = OnLine(i)
             /\ i > 0 => LostOnLine(i)' = LostOnLine(i) /\ TimeOnLine(i)' = TimeOnLine(i)
  <2>1. CASE i = 0
    BY <1>6, <2>1 DEF OnLine
  <2>2. CASE i > 0 /\ i <= n
    <3>1. Queue'[i] = Queue[i] /\ i <= Len(Queue) /\ i <= Len(Queue') /\ i # 0
      BY <1>3, <1>4, <2>2
    <3>. QED  BY <3>1 DEF OnLine, LostOnLine, TimeOnLine, Ids
  <2>3. CASE i = n + 1
    <3>1. /\ ~(i <= Len(Queue)) /\ i = Len(Queue) + 1 /\ i <= Len(Queue')
          /\ Queue'[i] = b /\ i # 0
      BY <1>3, <1>4, <2>3
    <3>2. OnLine(i)' = Ids(b) /\ OnLine(i) = DOMAIN output.tracks
      BY <1>2, <3>1 DEF OnLine, Ids
    <3>3. LostOnLine(i)' = {t \in Ids(b) : b[2].states[t] = "LOST"}
      BY <3>1 DEF LostOnLine, Ids
    <3>4. LostOnLine(i) = {t \in DOMAIN output.tracks : output.tracks[t].state = "LOST"}
      BY <1>2, <3>1 DEF LostOnLine
    <3>5. TimeOnLine(i)' = TimeOnLine(i)
      BY <1>1, <3>1 DEF TimeOnLine
    <3>. QED  BY <1>1, <3>2, <3>3, <3>4, <3>5
  <2>4. CASE i > n + 1
    <3>1. /\ ~(i <= Len(Queue)) /\ i # Len(Queue) + 1
          /\ ~(i <= Len(Queue')) /\ i # 0
      BY <1>3, <1>4, <2>4
    <3>. QED  BY <1>2, <3>1 DEF OnLine, LostOnLine, TimeOnLine
  <2>. QED  BY <2>1, <2>2, <2>3, <2>4
<1>. QED  BY <1>5, <1>7 DEF SameLine

\* When the twin takes a batch, the line moves up by one place.
LEMMA LineMovesUp ==
  ASSUME SituationInv, Queue # <<>>, Queue' = Tail(Queue), UNCHANGED trackerVars,
         NEW i \in Nat \ {0}
  PROVE  /\ OnLine(i)' = OnLine(i + 1) /\ LostOnLine(i)' = LostOnLine(i + 1)
         /\ TimeOnLine(i)' = TimeOnLine(i + 1)
<1>1. PICK n \in Nat : n = Len(Queue)
  BY QueueTyped
<1>2. /\ n > 0 /\ Len(Queue') = n - 1
      /\ \A j \in 1..(n - 1) : Queue'[j] = Queue[j + 1]
  BY <1>1, QueueTyped
<1>3. UNCHANGED <<pending, output, tracks>>
  BY DEF trackerVars
<1>4. i # 0 /\ i + 1 # 0
  OBVIOUS
<1>5. CASE i <= n - 1
  <2>1. i <= Len(Queue') /\ i + 1 <= Len(Queue) /\ Queue'[i] = Queue[i + 1]
    BY <1>1, <1>2, <1>5
  <2>. QED  BY <1>4, <2>1 DEF OnLine, LostOnLine, TimeOnLine, Ids
<1>6. CASE i = n
  <2>1. /\ ~(i <= Len(Queue')) /\ i = Len(Queue') + 1
        /\ ~(i + 1 <= Len(Queue)) /\ i + 1 = Len(Queue) + 1
    BY <1>1, <1>2, <1>6
  <2>. QED  BY <1>3, <1>4, <2>1 DEF OnLine, LostOnLine, TimeOnLine
<1>7. CASE i > n
  <2>1. /\ ~(i <= Len(Queue')) /\ i # Len(Queue') + 1
        /\ ~(i + 1 <= Len(Queue)) /\ i + 1 # Len(Queue) + 1
    BY <1>1, <1>2, <1>7
  <2>. QED  BY <1>3, <1>4, <2>1 DEF OnLine, LostOnLine, TimeOnLine
<1>. QED  BY <1>1, <1>2, <1>5, <1>6, <1>7

-----------------------------------------------------------------------------
(* The twin takes the next batch.                                          *)

\* Place 1 of the line is the batch at the head of the queue.
LEMMA HeadOfLine ==
  ASSUME SituationInv, Queue # <<>>, NEW e, e = Head(Queue)
  PROVE  /\ e \in EventId /\ e[1] = "tracks" /\ e \in Batches /\ e \notin Seen
         /\ e[2].number = outputs - Len(Queue) + 1
         /\ OnLine(1) = Ids(e) /\ TimeOnLine(1) = TimeOf(e) /\ TimeOf(e) \in Nat
         /\ LostOnLine(1) = {t \in Ids(e) : e[2].states[t] = "LOST"}
<1>1. PICK n \in Nat : n = Len(Queue)
  BY QueueTyped
<1>2. n > 0 /\ 1 \in DOMAIN Queue /\ e = Queue[1]
  BY <1>1, QueueTyped
<1>3. e \in Batches /\ e[2].number = outputs - n + 1 /\ outputs \in Nat
  BY <1>1, <1>2, SituationAssumption DEF SituationInv, LineTyped
<1>4. e \in EventId /\ e[1] = "tracks"
  BY <1>3 DEF Batches
<1>5. e \notin Heard("tracks")
  <2>. SUFFICES ASSUME e \in Heard("tracks") PROVE FALSE
    OBVIOUS
  <2>1. e[2].number <= outputs - n
    BY <1>1 DEF SituationInv, LineTyped
  <2>. QED  BY <1>3, <2>1
<1>6. e \notin Seen
  BY <1>4, <1>5 DEF Seen, Heard
<1>7. TimeOf(e) = Scan[e[2].scan].observedAt /\ TimeOf(e) \in Nat
  BY <1>4, BatchFields
<1>8. 1 <= Len(Queue) /\ 1 # 0
  BY <1>1, <1>2
<1>. QED  BY <1>1, <1>2, <1>3, <1>4, <1>6, <1>7, <1>8 DEF OnLine, TimeOnLine, LostOnLine, Ids

\* What the line is after the twin has taken the batch e.
Taken(e) ==
  /\ OnLine(1) = Ids(e) /\ TimeOnLine(1) = TimeOf(e)
  /\ LostOnLine(1) = {t \in Ids(e) : e[2].states[t] = "LOST"}
  /\ \A i \in Nat \ {0} : /\ OnLine(i)' = OnLine(i + 1)
                         /\ LostOnLine(i)' = LostOnLine(i + 1)
                         /\ TimeOnLine(i)' = TimeOnLine(i + 1)
  /\ Heard("tracks")' = Heard("tracks") \cup {e}

\* The order of the line, be the batch late or not.
LEMMA OrderMovesUp ==
  ASSUME SituationInv, LineInv, NEW e, Taken(e)
  PROVE  Unbroken' /\ LeavesLost'
<1>1. OnLine(0)' = OnLine(0) \cup OnLine(1)
  BY DEF Taken, OnLine, Told, Ids
<1>2. Unbroken'
  <2>. SUFFICES ASSUME NEW h \in Nat, NEW i \in Nat, NEW j \in Nat, h < i, i < j,
                       NEW t, t \in OnLine(h)', t \in OnLine(j)'
                PROVE  t \in OnLine(i)'
    BY DEF Unbroken
  <2>1. /\ OnLine(i)' = OnLine(i + 1) /\ OnLine(j)' = OnLine(j + 1)
        /\ i + 1 \in Nat /\ j + 1 \in Nat /\ i + 1 < j + 1
    BY DEF Taken
  <2>2. PICK g \in Nat : t \in OnLine(g) /\ g < i + 1
    <3>1. CASE h = 0
      BY <1>1, <3>1
    <3>2. CASE h # 0
      <4>1. OnLine(h)' = OnLine(h + 1) /\ h + 1 \in Nat /\ h + 1 < i + 1
        BY <3>2 DEF Taken
      <4>. QED  BY <4>1
    <3>. QED  BY <3>1, <3>2
  <2>. QED  BY <2>1, <2>2 DEF LineInv, Unbroken
<1>3. LeavesLost'
  <2>. SUFFICES ASSUME NEW i \in Nat \ {0}
                PROVE  LostOnLine(i)' = OnLine(i)' \ OnLine(i + 1)'
    BY DEF LeavesLost
  <2>1. PICK j \in Nat \ {0} : j = i + 1
    OBVIOUS
  <2>2. LostOnLine(j) = OnLine(j) \ OnLine(j + 1)
    BY DEF LineInv, LeavesLost
  <2>. QED  BY <2>1, <2>2 DEF Taken
<1>. QED  BY <1>2, <1>3

\* What has been heard of and is still to come is in the batch.
LEMMA StillInBatch ==
  ASSUME SituationInv, LineInv, NEW e, Taken(e), NEW t, t \in OnLine(1)',
         t \in Told \/ t \in InTwin
  PROVE  t \in OnLine(1)
<1>1. t \in OnLine(0)
  BY HeldWasHeard DEF OnLine
<1>2. OnLine(1)' = OnLine(2)
  <2>1. 1 \in Nat \ {0} /\ 1 + 1 = 2
    OBVIOUS
  <2>2. OnLine(1)' = OnLine(1 + 1)
    BY <2>1 DEF Taken
  <2>. QED  BY <2>1, <2>2
<1>. QED  BY <1>1, <1>2 DEF LineInv, Unbroken

\* The losses to come are no older than what is in the twin by now.
LEMMA LossStaysNewest ==
  ASSUME SituationInv, LineInv, NEW e, Taken(e),
         \A t \in InTwin' : \/ t \in InTwin /\ BatchInTwin(t)' = BatchInTwin(t)
                           \/ BatchInTwin(t)' = e
  PROVE  LossIsNewest'
<1>. SUFFICES ASSUME NEW i \in Nat \ {0}, LostOnLine(i)' # {}
              PROVE  /\ \A h \in 1..(i - 1) : TimeOnLine(h)' <= TimeOnLine(i)'
                     /\ \A t \in InTwin' : TimeOf(BatchInTwin(t)') <= TimeOnLine(i)'
  BY DEF LossIsNewest, TimeOf
<1>1. PICK j \in Nat \ {0} : j = i + 1
  OBVIOUS
<1>2. /\ LostOnLine(j) # {} /\ TimeOnLine(i)' = TimeOnLine(j)
  BY <1>1 DEF Taken
<1>3. /\ \A h \in 1..(j - 1) : TimeOnLine(h) <= TimeOnLine(j)
      /\ \A t \in InTwin : TimeOf(BatchInTwin(t)) <= TimeOnLine(j)
  BY <1>2 DEF LineInv, LossIsNewest
<1>4. ASSUME NEW h \in 1..(i - 1)
      PROVE  TimeOnLine(h)' <= TimeOnLine(i)'
  <2>1. h + 1 \in 1..(j - 1) /\ h \in Nat \ {0}
    BY <1>1
  <2>2. TimeOnLine(h)' = TimeOnLine(h + 1)
    BY <2>1 DEF Taken
  <2>. QED  BY <1>2, <1>3, <2>1, <2>2
<1>5. TimeOf(e) <= TimeOnLine(j)
  <2>1. 1 \in 1..(j - 1)
    BY <1>1
  <2>. QED  BY <1>3, <2>1 DEF Taken
<1>. QED  BY <1>2, <1>3, <1>4, <1>5

\* A batch that is refused as late holds no loss, and nothing newer than
\* what the twin has of its tracks.
LEMMA LateKeepsLine ==
  ASSUME SituationInv, LineInv, NEW e \in EventId, e[1] = "tracks", Taken(e),
         Late(e), UNCHANGED entities
  PROVE  LineInv'
<1>1. /\ InTwin' = InTwin
      /\ \A t \in InTwin : BatchInTwin(t)' = BatchInTwin(t)
  BY DEF InTwin, BatchInTwin
<1>2. PICK u \in OnLine(1) \cap InTwin : TimeOf(e) < TimeOf(BatchInTwin(u))
  <2>1. PICK k \in Event[e].keys \cap DOMAIN entities : TimeOf(e) < TimeOf(entities[k].event)
    BY DEF Late, TimeOf
  <2>2. PICK t \in Ids(e) : k = TrackKey(t)
    BY <2>1, BatchFields
  <2>3. t \in InTwin
    <3>1. t \in 0..MaxTrackId
      BY <2>2, BatchFields
    <3>. QED  BY <2>1, <2>2, <3>1 DEF InTwin
  <2>. QED  BY <2>1, <2>2, <2>3 DEF Taken, BatchInTwin
<1>3. TimeOf(e) \in Nat /\ \A t \in InTwin : TimeOf(BatchInTwin(t)) \in Nat
  BY BatchFields, HeldWasHeard DEF Batches
<1>4. LostOnLine(1) = {}
  BY <1>2, <1>3 DEF LineInv, LossIsNewest, Taken
<1>5. OnLine(1) \subseteq OnLine(1)'
  BY <1>4 DEF LineInv, LeavesLost, Taken
<1>6. \A t \in OnLine(1) \cap InTwin : TimeOf(e) <= TimeOf(BatchInTwin(t))
  BY <1>2, <1>3 DEF LineInv, SameBatch
<1>7. SameBatch'
  BY <1>1, StillInBatch DEF LineInv, SameBatch
<1>8. Escorted'
  <2>. SUFFICES ASSUME NEW f \in Heard("tracks")',
                       NEW t \in (OnLine(1)' \ InTwin) \cap Ids(f)
                PROVE  \E v \in OnLine(1)' \cap InTwin :
                         TimeOf(f) <= TimeOf(BatchInTwin(v))
    BY <1>1 DEF Escorted, TimeOf, Ids
  <2>1. CASE f = e
    BY <1>2, <1>5, <1>6, <2>1
  <2>2. CASE f \in Heard("tracks")
    <3>1. t \in OnLine(1)
      BY <2>2, StillInBatch DEF Told
    <3>. QED  BY <1>5, <2>2, <3>1 DEF LineInv, Escorted
  <2>. QED  BY <2>1, <2>2 DEF Taken
<1>9. LossKnown'
  BY <1>1, <1>5 DEF LineInv, LossKnown
<1>10. TracksNewest'
  <2>1. \A f \in Heard("tracks") \cup {e} : \A t \in InTwin \cap Ids(f) :
          TimeOf(f) <= TimeOf(BatchInTwin(t))
    BY <1>6 DEF LineInv, TracksNewest, Taken
  <2>. QED  BY <1>1, <2>1 DEF TracksNewest, Taken, TimeOf, Ids
<1>. QED  BY <1>1, <1>7, <1>8, <1>9, <1>10, OrderMovesUp, LossStaysNewest DEF LineInv

\* A batch that is committed is as new as what the twin had of its tracks.
LEMMA CommitKeepsLine ==
  ASSUME SituationInv, LineInv, NEW e \in EventId, e[1] = "tracks", Taken(e),
         ~Late(e), DOMAIN entities' = DOMAIN entities \cup Event[e].keys,
         \A k \in DOMAIN entities' :
           IF k \in Event[e].keys THEN entities'[k].event = e
           ELSE entities'[k] = entities[k]
  PROVE  LineInv'
<1>1. /\ InTwin' = InTwin \cup Ids(e)
      /\ \A t \in Ids(e) : BatchInTwin(t)' = e
      /\ \A t \in InTwin \ Ids(e) : BatchInTwin(t)' = BatchInTwin(t)
  BY BatchFields DEF InTwin, BatchInTwin
<1>2. /\ OnLine(1) = Ids(e) /\ Heard("tracks")' = Heard("tracks") \cup {e}
      /\ LostOnLine(1) = {t \in Ids(e) : e[2].states[t] = "LOST"}
  BY DEF Taken
<1>3. TimeOf(e) \in Nat /\ \A f \in Heard("tracks") : TimeOf(f) \in Nat
  BY BatchFields DEF SituationInv, LineTyped, Batches
<1>4. \A t \in InTwin : BatchInTwin(t) \in Heard("tracks")
  BY HeldWasHeard
<1>5. \A t \in Ids(e) \cap InTwin : TimeOf(BatchInTwin(t)) <= TimeOf(e)
  <2>. SUFFICES ASSUME NEW t \in Ids(e) \cap InTwin
                PROVE  TimeOf(BatchInTwin(t)) <= TimeOf(e)
    OBVIOUS
  <2>1. TrackKey(t) \in Event[e].keys \cap DOMAIN entities
    BY BatchFields DEF InTwin
  <2>2. ~(TimeOf(e) < TimeOf(BatchInTwin(t)))
    BY <2>1 DEF Late, TimeOf, BatchInTwin
  <2>. QED  BY <1>3, <1>4, <2>2
<1>6. \A t \in OnLine(1)' : t \in Told \/ t \in InTwin' => t \in Ids(e)
  BY <1>1, <1>2, StillInBatch
<1>7. SameBatch'
  BY <1>1, <1>6 DEF SameBatch
<1>8. Escorted'
  <2>. SUFFICES ASSUME NEW f \in Heard("tracks")',
                       NEW t \in (OnLine(1)' \ InTwin') \cap Ids(f)
                PROVE  FALSE
    BY DEF Escorted, TimeOf, Ids
  <2>1. t \in Ids(e)
    BY <1>2, <1>6 DEF Told
  <2>. QED  BY <1>1, <2>1
<1>9. LossKnown'
  <2>. SUFFICES ASSUME NEW t \in InTwin', t \notin OnLine(1)'
                PROVE  BatchInTwin(t)'[2].states[t] = "LOST"
    BY DEF LossKnown
  <2>1. CASE t \in Ids(e)
    <3>1. OnLine(1)' = OnLine(1 + 1) /\ LostOnLine(1) = OnLine(1) \ OnLine(1 + 1)
      BY DEF Taken, LineInv, LeavesLost
    <3>2. t \in LostOnLine(1)
      BY <1>2, <2>1, <3>1
    <3>. QED  BY <1>1, <1>2, <2>1, <3>2
  <2>2. CASE t \in InTwin \ Ids(e)
    BY <1>1, <1>2, <2>2 DEF LineInv, LossKnown
  <2>. QED  BY <1>1, <2>1, <2>2
<1>10. TracksNewest'
  <2>. SUFFICES ASSUME NEW f \in Heard("tracks")', NEW t \in InTwin' \cap Ids(f)
                PROVE  TimeOf(f) <= TimeOf(BatchInTwin(t)')
    BY DEF TracksNewest, TimeOf, Ids
  <2>1. CASE t \in Ids(e)
    <3>. SUFFICES TimeOf(f) <= TimeOf(e)
      BY <1>1, <2>1
    <3>1. CASE f = e
      BY <1>3, <3>1
    <3>2. CASE f \in Heard("tracks")
      <4>1. PICK u \in OnLine(1) \cap InTwin : TimeOf(f) <= TimeOf(BatchInTwin(u))
        BY <1>2, <2>1, <3>2 DEF LineInv, Escorted, TracksNewest
      <4>. QED  BY <1>2, <1>3, <1>4, <1>5, <3>2, <4>1
    <3>. QED  BY <1>2, <3>1, <3>2
  <2>2. CASE t \in InTwin \ Ids(e)
    BY <1>1, <1>2, <2>2 DEF LineInv, TracksNewest
  <2>. QED  BY <1>1, <2>1, <2>2
<1>11. LossIsNewest'
  BY <1>1, LossStaysNewest
<1>. QED  BY <1>7, <1>8, <1>9, <1>10, <1>11, OrderMovesUp DEF LineInv

\* The twin's worker takes a batch, and does not fail.
LEMMA HandleKeepsLine ==
  ASSUME SituationInv, LineInv, Handle("tracks"), UNCHANGED trackerVars,
         ~failed'["tracks"]
  PROVE  LineInv'
<1>1. PICK e : e = Head(Queue)
  OBVIOUS
<1>2. /\ Queue # <<>> /\ Queue' = Tail(Queue) /\ Apply(e) /\ outcome' # "error"
  BY <1>1, QueueTyped DEF Handle, Queue
<1>3. /\ e \in EventId /\ e[1] = "tracks" /\ e \notin Seen
      /\ OnLine(1) = Ids(e) /\ TimeOnLine(1) = TimeOf(e)
      /\ LostOnLine(1) = {t \in Ids(e) : e[2].states[t] = "LOST"}
  BY <1>1, <1>2, HeadOfLine
<1>4. \A i \in Nat \ {0} : /\ OnLine(i)' = OnLine(i + 1)
                           /\ LostOnLine(i)' = LostOnLine(i + 1)
                           /\ TimeOnLine(i)' = TimeOnLine(i + 1)
  BY <1>2, LineMovesUp
<1>5. CASE Late(e) /\ UNCHANGED entities /\ Heard("tracks")' = Heard("tracks") \cup {e}
  BY <1>3, <1>4, <1>5, LateKeepsLine DEF Taken
<1>6. CASE /\ ~Late(e) /\ DOMAIN entities' = DOMAIN entities \cup Event[e].keys
           /\ \A k \in DOMAIN entities' :
                IF k \in Event[e].keys THEN entities'[k].event = e
                ELSE entities'[k] = entities[k]
           /\ Heard("tracks")' = Heard("tracks") \cup {e}
  BY <1>3, <1>4, <1>6, CommitKeepsLine DEF Taken
<1>. QED  BY <1>2, <1>3, <1>5, <1>6, ApplyTells

-----------------------------------------------------------------------------
(* The tracker processes a scan: the line gets one place longer.           *)

LEMMA RememberedGrows ==
  ASSUME SituationInv, Process
  PROVE  RememberedScans \subseteq RememberedScans'
<1>1. TrackerInv
  BY DEF SituationInv
<1>2. ASSUME NEW e \in ScanId, RememberScan(e)
      PROVE  RememberedScans \subseteq RememberedScans'
  <2>1. PICK n : n = Len(remembered) + 1
    OBVIOUS
  <2>. QED  BY <1>1, <1>2, <2>1, ScanRemembered
<1>3. CASE UNCHANGED remembered
  BY <1>3 DEF RememberedScans
<1>. QED  BY <1>2, <1>3 DEF Process, DuplicateScan, OutOfOrder, Unreadable, TrackScan, Track, Note

LEMMA ProcessKeepsLine ==
  ASSUME SituationInv, LineInv, TrackerInv', Process, Reports, TimelyTracker',
         UNCHANGED ingestVars
  PROVE  LineInv'
<1>. DEFINE reported == DOMAIN output'.tracks
            Old == 0..(created - 1)
<1>1. /\ ~pending /\ pending' = TRUE
      /\ DOMAIN tracks \subseteq reported
      /\ \A t \in reported : t \in DOMAIN tracks \/ t >= created
  BY DEF Process, Reports
<1>2. /\ OutputTyped' /\ created \in Nat /\ DOMAIN tracks \subseteq Old
      /\ reported \cap Old = DOMAIN tracks
      /\ DOMAIN tracks' = {t \in reported : output'.tracks[t].state # "LOST"}
  <2>1. OutputTyped'
    BY <1>1 DEF TrackerInv
  <2>2. created \in Nat /\ DOMAIN tracks \subseteq Old
    BY DEF SituationInv, TrackerInv, TrackTypeOK
  <2>3. reported \cap Old = DOMAIN tracks
    <3>1. ASSUME NEW t \in reported \cap Old PROVE t \in DOMAIN tracks
      <4>1. t \in Int /\ t < created
        BY <2>2, <3>1
      <4>. QED  BY <1>1, <2>2, <3>1, <4>1
    <3>. QED  BY <1>1, <2>2, <3>1
  <2>. QED  BY <2>1, <2>2, <2>3 DEF OutputTyped
<1>3. Queue' = Queue /\ UNCHANGED <<entities, history>>
  BY DEF ingestVars, twinVars, Queue
<1>4. SameTwin
  BY <1>3 DEF SameTwin, Heard, InTwin, BatchInTwin
<1>5. Told' = Told
  BY <1>4 DEF SameTwin, Told, Ids
<1>6. PICK n \in Nat : n = Len(Queue)
  BY QueueTyped
<1>7. ASSUME NEW i \in Nat, i <= n
      PROVE  /\ OnLine(i)' = OnLine(i) /\ OnLine(i) \subseteq Old
             /\ i > 0 => /\ LostOnLine(i)' = LostOnLine(i) /\ TimeOnLine(i)' = TimeOnLine(i)
                         /\ \E r \in RememberedScans' : TimeOnLine(i) = Scan[r].observedAt
  <2>1. CASE i = 0
    BY <1>5, <2>1 DEF OnLine, Told, SituationInv, LineTyped, Batches
  <2>2. CASE i > 0
    <3>1. i # 0 /\ i <= Len(Queue) /\ i \in DOMAIN Queue
      BY <1>6, <1>7, <2>2, QueueTyped
    <3>2. Queue[i][2].scan \in RememberedScans /\ Ids(Queue[i]) \subseteq Old
      BY <3>1 DEF SituationInv, LineTyped, Batches
    <3>3. RememberedScans \subseteq RememberedScans'
      BY RememberedGrows
    <3>4. Queue[i][2].scan \in RememberedScans'
      BY <3>2, <3>3
    <3>. QED  BY <1>3, <3>1, <3>2, <3>4 DEF OnLine, LostOnLine, TimeOnLine, Ids
  <2>. QED  BY <2>1, <2>2
<1>8. /\ OnLine(n + 1) = DOMAIN tracks /\ OnLine(n + 1)' = reported
      /\ LostOnLine(n + 1)' = {t \in reported : output'.tracks[t].state = "LOST"}
      /\ TimeOnLine(n + 1)' = Scan[output'.scan].observedAt
  <2>1. ~(n + 1 <= Len(Queue)) /\ n + 1 = Len(Queue) + 1 /\ n + 1 # 0
    BY <1>6
  <2>. QED  BY <1>1, <1>3, <2>1 DEF OnLine, LostOnLine, TimeOnLine
<1>9. ASSUME NEW i \in Nat, i > n + 1
      PROVE  OnLine(i)' = DOMAIN tracks' /\ LostOnLine(i)' = {}
  <2>1. ~(i <= Len(Queue)) /\ i # Len(Queue) + 1 /\ i # 0
    BY <1>6, <1>9
  <2>. QED  BY <1>3, <2>1 DEF OnLine, LostOnLine
<1>. HIDE DEF reported, Old
<1>10. Unbroken'
  <2>. SUFFICES ASSUME NEW h \in Nat, NEW i \in Nat, NEW j \in Nat, h < i, i < j,
                       NEW t, t \in OnLine(h)', t \in OnLine(j)'
                PROVE  t \in OnLine(i)'
    BY DEF Unbroken
  <2>1. CASE j <= n
    <3>1. h <= n /\ i <= n
      BY <2>1
    <3>. QED  BY <1>7, <2>1, <3>1 DEF LineInv, Unbroken
  <2>2. CASE j > n
    <3>1. t \in reported
      BY <1>2, <1>8, <1>9, <2>2
    <3>2. CASE h > n
      BY <1>9, <2>2, <3>2
    <3>3. CASE h <= n
      <4>1. t \in OnLine(h) /\ t \in OnLine(n + 1)
        BY <1>2, <1>7, <1>8, <3>1, <3>3
      <4>2. CASE i <= n
        BY <1>7, <4>1, <4>2 DEF LineInv, Unbroken
      <4>3. CASE i = n + 1
        BY <1>8, <3>1, <4>3
      <4>4. CASE i > n + 1
        BY <1>9, <4>4
      <4>. QED  BY <4>2, <4>3, <4>4
    <3>. QED  BY <3>2, <3>3
  <2>. QED  BY <2>1, <2>2
<1>11. LeavesLost'
  <2>. SUFFICES ASSUME NEW i \in Nat \ {0}
                PROVE  LostOnLine(i)' = OnLine(i)' \ OnLine(i + 1)'
    BY DEF LeavesLost
  <2>1. CASE i <= n
    <3>1. LostOnLine(i) = OnLine(i) \ OnLine(i + 1)
      BY DEF LineInv, LeavesLost
    <3>2. OnLine(i + 1)' \cap Old = OnLine(i + 1) \cap Old
      <4>1. CASE i < n
        BY <1>7, <4>1
      <4>2. CASE i = n
        BY <1>2, <1>8, <4>2
      <4>. QED  BY <2>1, <4>1, <4>2
    <3>. QED  BY <1>7, <2>1, <3>1, <3>2
  <2>2. CASE i = n + 1
    <3>1. OnLine(i + 1)' = DOMAIN tracks'
      BY <1>9, <2>2
    <3>. QED  BY <1>2, <1>8, <2>2, <3>1
  <2>3. CASE i > n + 1
    BY <1>9, <2>3
  <2>. QED  BY <2>1, <2>2, <2>3
<1>12. LossIsNewest'
  <2>. SUFFICES ASSUME NEW i \in Nat \ {0}, LostOnLine(i)' # {}
                PROVE  /\ \A h \in 1..(i - 1) : TimeOnLine(h)' <= TimeOnLine(i)'
                       /\ \A t \in InTwin : TimeOf(BatchInTwin(t)) <= TimeOnLine(i)'
    BY <1>4 DEF LossIsNewest, TimeOf, SameTwin
  <2>1. CASE i <= n
    <3>1. \A h \in 1..(i - 1) : h \in Nat /\ h <= n /\ h > 0
      BY <2>1
    <3>. QED  BY <1>7, <2>1, <3>1 DEF LineInv, LossIsNewest
  <2>2. CASE i = n + 1
    <3>1. \A r \in RememberedScans' : Scan[r].observedAt <= TimeOnLine(i)'
      <4>1. \E t \in DOMAIN output'.tracks : output'.tracks[t].state = "LOST"
        BY <1>8, <2>2 DEF reported
      <4>. QED  BY <1>8, <2>2, <4>1 DEF Reports
    <3>2. \A h \in 1..(i - 1) : h \in Nat /\ h <= n /\ h > 0
      BY <2>2
    <3>3. \A h \in 1..(i - 1) : TimeOnLine(h)' <= TimeOnLine(i)'
      BY <1>7, <3>1, <3>2
    <3>4. ASSUME NEW t \in InTwin
          PROVE  TimeOf(BatchInTwin(t)) <= TimeOnLine(i)'
      <4>1. BatchInTwin(t) \in Batches
        BY HeldWasHeard
      <4>2. /\ TimeOf(BatchInTwin(t)) = Scan[BatchInTwin(t)[2].scan].observedAt
            /\ BatchInTwin(t)[2].scan \in RememberedScans
        BY <4>1, BatchFields DEF Batches
      <4>. QED  BY <3>1, <4>2, RememberedGrows
    <3>. QED  BY <3>3, <3>4
  <2>3. CASE i > n + 1
    BY <1>9, <2>3
  <2>. QED  BY <2>1, <2>2, <2>3
<1>13. OnLine(1)' \cap Old = OnLine(1) \cap Old
  <2>1. CASE n > 0
    BY <1>7, <2>1
  <2>2. CASE n = 0
    BY <1>2, <1>8, <2>2
  <2>. QED  BY <2>1, <2>2
<1>14. Told \subseteq Old /\ InTwin \subseteq Old
  <2>1. OnLine(0) \subseteq Old
    BY <1>7
  <2>. QED  BY <2>1, HeldWasHeard DEF OnLine
<1>15. SameBatch' /\ LossKnown' /\ TracksNewest'
  BY <1>4, <1>13, <1>14 DEF LineInv, SameTwin, SameBatch, LossKnown, TracksNewest, TimeOf, Ids
<1>16. Escorted'
  <2>. SUFFICES ASSUME NEW f \in Heard("tracks"),
                       NEW t \in (OnLine(1)' \ InTwin) \cap Ids(f)
                PROVE  \E v \in OnLine(1)' \cap InTwin :
                         TimeOf(f) <= TimeOf(BatchInTwin(v))
    BY <1>4 DEF Escorted, TimeOf, Ids, SameTwin
  <2>1. t \in OnLine(1)
    BY <1>13, <1>14 DEF Told
  <2>2. PICK v \in OnLine(1) \cap InTwin : TimeOf(f) <= TimeOf(BatchInTwin(v))
    BY <2>1 DEF LineInv, Escorted
  <2>. QED  BY <1>13, <1>14, <2>2
<1>. QED  BY <1>10, <1>11, <1>12, <1>15, <1>16 DEF LineInv

-----------------------------------------------------------------------------
(* Every step of the two.                                                  *)

\* A failure stays, and of fewer scans less is required.
LEMMA DisturbedStays ==
  ASSUME SituationInv, [SituationNext]_situationVars, Undisturbed'
  PROVE  Undisturbed /\ TimelyTracker'
<1>1. TrackerInv /\ failed \in [Feed -> BOOLEAN] /\ "tracks" \in Feed
  BY QueueTyped DEF SituationInv
<1>2. [TrackerNext]_trackerVars /\ [IngestNext]_ingestVars
  BY StepsOfBoth
<1>3. TimelyTracker' => TimelyTracker
  <2>1. CASE Process
    BY <1>1, <2>1, ProcessReports DEF TimelyTracker
  <2>2. CASE Publish \/ PublishFails \/ SwitchTracker \/ UNCHANGED trackerVars
    BY <2>2 DEF Publish, PublishFails, SwitchTracker, trackerVars, TimelyTracker,
                LateWithinTimeout, TakenIn
  <2>. QED  BY <1>2, <2>1, <2>2 DEF TrackerNext
<1>4. failed["tracks"] => failed'["tracks"]
  <2>1. ASSUME NEW f \in Feed, Handle(f) \/ SendFails(f)
        PROVE  failed["tracks"] => failed'["tracks"]
    <3>1. CASE f = "tracks"
      BY <1>1, <2>1, <3>1 DEF Handle, SendFails
    <3>2. CASE f # "tracks"
      BY <1>1, <2>1, <3>2 DEF Handle, SendFails
    <3>. QED  BY <3>1, <3>2
  <2>. QED  BY <1>2, <2>1 DEF IngestNext, Deliver, Send, ingestVars
<1>. QED  BY <1>3, <1>4 DEF Undisturbed

\* Undisturbed, every step keeps the line.
LEMMA LineKept ==
  ASSUME SituationInv, [SituationNext]_situationVars, Undisturbed', TrackerInv'
  PROVE  LineInv'
<1>1. LineInv /\ Undisturbed /\ TimelyTracker' /\ ~failed'["tracks"] /\ ~trackerFailed'
  BY DisturbedStays DEF SituationInv, Undisturbed, TimelyTracker
<1>2. ASSUME Queue' = Queue, UNCHANGED <<trackerVars, entities, history>>
      PROVE  LineInv'
  <2>1. SameTwin
    BY <1>2 DEF SameTwin, Heard, InTwin, BatchInTwin
  <2>. QED  BY <1>1, <1>2, <2>1, LineUntouched, LineStands DEF SameTwin
<1>3. CASE ProcessScan /\ Process
  BY <1>1, <1>3, ProcessReports, ProcessKeepsLine DEF ProcessScan, SituationInv
<1>4. CASE ProcessScan /\ SwitchTracker
  <2>1. /\ Queue' = Queue /\ Heard("tracks")' = Heard("tracks")
        /\ UNCHANGED <<tracks, output, pending, entities, history>>
    BY <1>4 DEF ProcessScan, SwitchTracker, ingestVars, twinVars, Queue, Heard
  <2>2. SameLine
    BY <2>1 DEF SameLine, OnLine, LostOnLine, TimeOnLine, Told, Ids
  <2>3. SameTwin
    BY <2>1 DEF SameTwin, InTwin, BatchInTwin
  <2>. QED  BY <1>1, <2>2, <2>3, LineStands
<1>5. CASE PublishTracks
  BY <1>1, <1>5, PublicationStays, LineStands
<1>6. CASE PublicationFails
  BY <1>1, <1>6 DEF PublicationFails, PublishFails
<1>7. CASE PublishWeather
  <2>1. PICK w \in WeatherId : Deliver("environment", <<"environment", w>>)
    BY <1>7 DEF PublishWeather
  <2>2. Queue' = Queue
    BY <2>1, QueueTyped DEF Deliver, Queue
  <2>. QED  BY <1>2, <1>7, <2>1, <2>2 DEF PublishWeather, Deliver, twinVars
<1>8. CASE Ingest
  <2>1. PICK f \in Feed : Handle(f) \/ Send(f) \/ SendFails(f)
    BY <1>8 DEF Ingest
  <2>2. UNCHANGED trackerVars
    BY <1>8 DEF Ingest
  <2>3. CASE Send(f) \/ SendFails(f)
    BY <1>2, <2>2, <2>3 DEF Send, SendFails, Queue, twinVars
  <2>4. CASE Handle(f) /\ f = "tracks"
    BY <1>1, <2>2, <2>4, HandleKeepsLine
  <2>5. CASE Handle(f) /\ f = "environment"
    <3>1. PICK e : e = Head(inbox["environment"])
      OBVIOUS
    <3>2. /\ e \in EventId /\ Apply(e) /\ e[1] = "environment" /\ Queue' = Queue
      <4>1. /\ inbox["environment"] \in Seq(EventId) /\ inbox["environment"] # <<>>
        BY <2>5, QueueTyped DEF Handle
      <4>2. e = inbox["environment"][1] /\ 1 \in DOMAIN inbox["environment"] /\ e \in EventId
        BY <3>1, <4>1
      <4>3. e[1] = "environment"
        BY <4>2 DEF SituationInv, LineTyped
      <4>4. Queue' = Queue /\ Apply(e)
        BY <2>5, <3>1, QueueTyped DEF Handle, Queue
      <4>. QED  BY <4>2, <4>3, <4>4
    <3>3. SameTwin
      BY <3>2, WeatherLeavesTracks
    <3>. QED  BY <1>1, <2>2, <3>2, <3>3, LineUntouched, LineStands DEF SameTwin
  <2>. QED  BY <2>1, <2>3, <2>4, <2>5, SituationAssumption
<1>9. CASE UNCHANGED situationVars
  BY <1>2, <1>9 DEF situationVars, ingestVars, twinVars, Queue
<1>. QED  BY <1>3, <1>4, <1>5, <1>6, <1>7, <1>8, <1>9 DEF SituationNext, ProcessScan

\* Scans and tracks are only added to what there were.
LEMMA TrackerGrows ==
  ASSUME SituationInv, [TrackerNext]_trackerVars, TrackerInv'
  PROVE  /\ RememberedScans \subseteq RememberedScans'
         /\ created' \in Nat /\ created <= created'
<1>1. created \in Nat /\ created' \in Nat
  BY DEF SituationInv, TrackerInv
<1>2. CASE Process
  <2>1. RememberedScans \subseteq RememberedScans'
    BY <1>2, RememberedGrows
  <2>2. ASSUME NEW e \in ScanId, TrackScan(e) PROVE created <= created'
    <3>1. PICK m \in 0..Scan[e].detections :
            \E matched \in kSubset(m, DOMAIN tracks) : Track(e, matched)
      BY <2>2 DEF TrackScan
    <3>2. PICK matched \in kSubset(m, DOMAIN tracks) : Track(e, matched)
      BY <3>1
    <3>3. Room(e, matched) \in Nat
      <4>1. PICK fresh : fresh = created..(created + Room(e, matched) - 1)
        OBVIOUS
      <4>. QED  BY <4>1, RoomFits DEF SituationInv
    <3>. QED  BY <1>1, <3>2, <3>3 DEF Track
  <2>3. ASSUME UNCHANGED created PROVE created <= created'
    BY <1>1, <2>3
  <2>4. created <= created'
    BY <1>2, <2>2, <2>3
       DEF Process, DuplicateScan, OutOfOrder, Degraded, Unreadable
  <2>. QED  BY <1>1, <2>1, <2>4
<1>3. CASE UNCHANGED <<remembered, created>>
  BY <1>1, <1>3 DEF RememberedScans
<1>. QED  BY <1>2, <1>3 DEF TrackerNext, Publish, PublishFails, SwitchTracker, trackerVars

\* A bound that grows.
LEMMA IntervalGrows ==
  ASSUME NEW a \in Nat, NEW b \in Nat, a <= b
  PROVE  0..(a - 1) \subseteq 0..(b - 1)
OBVIOUS

\* The numbers of the batches, and what they are of.
LEMMA LineTypedKept ==
  ASSUME SituationInv, [SituationNext]_situationVars, TrackerInv'
  PROVE  LineTyped'
<1>1. [TrackerNext]_trackerVars
  BY StepsOfBoth
<1>2. Batches \subseteq Batches'
  <2>1. 0..(created - 1) \subseteq 0..(created' - 1)
    <3>1. created \in Nat /\ created' \in Nat /\ created <= created'
      BY <1>1, TrackerGrows DEF SituationInv, TrackerInv
    <3>2. PICK a \in Nat, b \in Nat : a = created /\ b = created' /\ a <= b
      BY <3>1
    <3>3. 0..(a - 1) \subseteq 0..(b - 1)
      BY <3>2, IntervalGrows
    <3>. QED  BY <3>2, <3>3
  <2>. QED  BY <1>1, <2>1, TrackerGrows DEF Batches, Ids
<1>3. /\ outputs \in Nat /\ MaxOutputs \in Nat /\ outputs <= MaxOutputs
      /\ Len(Queue) \in Nat /\ DOMAIN Queue = 1..Len(Queue) /\ Queue \in Seq(EventId)
      /\ inbox["environment"] \in Seq(EventId)
  BY SituationAssumption, QueueTyped DEF SituationInv, LineTyped
<1>4. LineTyped
  BY DEF SituationInv
<1>5. \A i \in DOMAIN Queue : Queue[i][2].number \in Nat
  BY <1>4, BatchFields DEF LineTyped, Batches
<1>6. \A e \in Heard("tracks") : e[2].number \in Nat
  BY <1>4, BatchFields DEF LineTyped, Batches
<1>7. ASSUME Queue' = Queue, UNCHANGED outputs, Heard("tracks")' = Heard("tracks"),
             \A i \in DOMAIN inbox'["environment"] : inbox'["environment"][i][1] = "environment"
      PROVE  LineTyped'
  BY <1>2, <1>4, <1>7 DEF LineTyped
<1>8. ASSUME UNCHANGED <<inbox, history, outputs>> PROVE LineTyped'
  BY <1>4, <1>7, <1>8 DEF LineTyped, Queue, Heard
<1>9. CASE PublishTracks
  <2>1. PICK b \in EventId : /\ Deliver("tracks", b) /\ b[1] = "tracks"
                             /\ b[2].number = outputs + 1 /\ b[2].scan = output.scan
                             /\ Ids(b) = DOMAIN output.tracks
    BY <1>9, PublishedBatch
  <2>2. /\ pending /\ outputs < MaxOutputs /\ outputs' = outputs + 1
        /\ Queue' = Append(Queue, b) /\ UNCHANGED history
        /\ inbox'["environment"] = inbox["environment"]
    BY <1>9, <2>1, QueueTyped DEF PublishTracks, Publish, Deliver, Queue, twinVars
  <2>3. OutputTyped
    BY <2>2 DEF SituationInv, TrackerInv
  <2>4. b \in Batches
    BY <2>1, <2>3 DEF Batches, OutputTyped
  <2>5. PICK n \in Nat : n = Len(Queue)
    BY <1>3
  <2>6. /\ Len(Queue') = n + 1 /\ DOMAIN Queue' = 1..(n + 1) /\ Queue'[n + 1] = b
        /\ \A i \in 1..n : Queue'[i] = Queue[i]
    BY <1>3, <2>2, <2>5
  <2>7. \A i \in DOMAIN Queue' :
          Queue'[i] \in Batches' /\ Queue'[i][2].number = outputs' - Len(Queue') + i
    <3>1. ASSUME NEW i \in 1..n
          PROVE  /\ Queue[i] \in Batches'
                 /\ Queue[i][2].number = outputs' - Len(Queue') + i
      <4>1. Queue[i] \in Batches /\ Queue[i][2].number = outputs - n + i
        BY <1>3, <1>4, <2>5 DEF LineTyped
      <4>. QED  BY <1>2, <1>3, <2>2, <2>6, <4>1
    <3>2. b \in Batches' /\ b[2].number = outputs' - Len(Queue') + (n + 1)
      BY <1>2, <1>3, <2>1, <2>2, <2>4, <2>6
    <3>3. \A i \in DOMAIN Queue' : i \in 1..n \/ i = n + 1
      BY <2>6
    <3>. QED  BY <2>6, <3>1, <3>2, <3>3
  <2>8. Heard("tracks")' = Heard("tracks")
    BY <2>2 DEF Heard
  <2>9. ASSUME NEW e \in Heard("tracks")
        PROVE  e \in Batches' /\ e[2].number <= outputs' - Len(Queue')
    <3>1. e \in Batches /\ e[2].number <= outputs - n
      BY <1>4, <2>5 DEF LineTyped
    <3>. QED  BY <1>2, <1>3, <1>6, <2>2, <2>6, <3>1
  <2>. QED  BY <1>3, <1>4, <2>2, <2>7, <2>8, <2>9 DEF LineTyped
<1>10. CASE PublishWeather
  <2>1. PICK w \in WeatherId : Deliver("environment", <<"environment", w>>)
    BY <1>10 DEF PublishWeather
  <2>2. /\ Queue' = Queue /\ UNCHANGED <<outputs, history>>
        /\ inbox'["environment"] = Append(inbox["environment"], <<"environment", w>>)
    BY <1>10, <2>1, QueueTyped DEF PublishWeather, Deliver, Queue, twinVars
  <2>3. \A i \in DOMAIN inbox'["environment"] : inbox'["environment"][i][1] = "environment"
    BY <1>3, <1>4, <2>2 DEF LineTyped
  <2>. QED  BY <1>7, <2>2, <2>3 DEF Heard
<1>11. CASE Ingest
  <2>1. PICK f \in Feed : Handle(f) \/ Send(f) \/ SendFails(f)
    BY <1>11 DEF Ingest
  <2>2. UNCHANGED outputs
    BY <1>11 DEF Ingest
  <2>3. CASE Send(f) \/ SendFails(f)
    BY <1>8, <2>2, <2>3 DEF Send, SendFails, twinVars
  <2>4. CASE Handle(f) /\ f = "environment"
    <3>1. PICK e : e = Head(inbox["environment"])
      OBVIOUS
    <3>2. /\ inbox["environment"] # <<>> /\ Queue' = Queue /\ Apply(e)
          /\ inbox'["environment"] = Tail(inbox["environment"])
      BY <2>4, <3>1, QueueTyped DEF Handle, Queue
    <3>3. e \in EventId /\ e[1] = "environment"
      <4>1. e = inbox["environment"][1] /\ 1 \in DOMAIN inbox["environment"] /\ e \in EventId
        BY <1>3, <3>1, <3>2
      <4>. QED  BY <1>4, <4>1 DEF LineTyped
    <3>4. Heard("tracks")' = Heard("tracks")
      BY <3>2, <3>3, WeatherLeavesTracks DEF SameTwin
    <3>5. \A i \in DOMAIN inbox'["environment"] : inbox'["environment"][i][1] = "environment"
      BY <1>3, <1>4, <3>2 DEF LineTyped
    <3>. QED  BY <1>7, <2>2, <3>2, <3>4, <3>5
  <2>5. CASE Handle(f) /\ f = "tracks"
    <3>1. PICK e : e = Head(Queue)
      OBVIOUS
    <3>2. /\ Queue # <<>> /\ Queue' = Tail(Queue) /\ Apply(e)
          /\ inbox'["environment"] = inbox["environment"]
      BY <2>5, <3>1, QueueTyped DEF Handle, Queue
    <3>3. /\ e \in EventId /\ e[1] = "tracks" /\ e \in Batches
          /\ e[2].number = outputs - Len(Queue) + 1
      BY <3>1, <3>2, HeadOfLine
    <3>4. PICK n \in Nat : n = Len(Queue)
      BY <1>3
    <3>5. /\ n > 0 /\ Len(Queue') = n - 1 /\ DOMAIN Queue' = 1..(n - 1)
          /\ \A i \in 1..(n - 1) : Queue'[i] = Queue[i + 1]
      BY <1>3, <3>2, <3>4
    <3>6. \A g \in Heard("tracks")' : g \in Heard("tracks") \/ g = e
      <4>1. CASE UNCHANGED history
        BY <4>1 DEF Heard
      <4>2. CASE Heard("tracks")' = Heard("tracks") \cup {e}
        BY <4>2
      <4>3. \/ UNCHANGED history
            \/ Heard("tracks")' = Heard("tracks") \cup {e}
        BY <3>2, <3>3, ApplyTells
      <4>. QED  BY <4>1, <4>2, <4>3
    <3>7. ASSUME NEW i \in DOMAIN Queue'
          PROVE  Queue'[i] \in Batches' /\ Queue'[i][2].number = outputs' - Len(Queue') + i
      <4>1. i + 1 \in DOMAIN Queue /\ Queue'[i] = Queue[i + 1] /\ i \in Nat
        BY <1>3, <3>4, <3>5
      <4>2. Queue[i + 1] \in Batches /\ Queue[i + 1][2].number = outputs - n + (i + 1)
        BY <1>4, <3>4, <4>1 DEF LineTyped
      <4>. QED  BY <1>2, <1>3, <2>2, <3>5, <4>1, <4>2
    <3>8. ASSUME NEW g \in Heard("tracks")'
          PROVE  g \in Batches' /\ g[2].number <= outputs' - Len(Queue')
      <4>1. CASE g = e
        BY <1>2, <1>3, <2>2, <3>3, <3>4, <3>5, <4>1
      <4>2. CASE g \in Heard("tracks")
        <5>1. g \in Batches /\ g[2].number <= outputs - n /\ g[2].number \in Nat
          BY <1>4, <1>6, <3>4, <4>2 DEF LineTyped
        <5>. QED  BY <1>2, <1>3, <2>2, <3>5, <5>1
      <4>. QED  BY <3>6, <4>1, <4>2
    <3>. QED  BY <1>4, <2>2, <3>2, <3>7, <3>8 DEF LineTyped
  <2>. QED  BY <2>1, <2>3, <2>4, <2>5, SituationAssumption
<1>. QED  BY <1>8, <1>9, <1>10, <1>11 DEF SituationNext, ProcessScan, PublicationFails,
              situationVars, ingestVars, twinVars

\* An event of the environment is refused as late only for its own kind.
LEMMA WeatherKept ==
  ASSUME SituationInv, [SituationNext]_situationVars
  PROVE  WeatherNewest'
<1>1. WeatherNewest /\ IngestInv
  BY DEF SituationInv
<1>2. CASE UNCHANGED <<entities, history>>
  BY <1>1, <1>2 DEF WeatherNewest, Heard, TimeOf
<1>3. ASSUME NEW f \in Feed, Handle(f)
      PROVE  WeatherNewest'
  <2>1. PICK e : e = Head(inbox[f])
    OBVIOUS
  <2>2. e \in EventId /\ Apply(e)
    <3>1. inbox[f] \in Seq(EventId) /\ inbox[f] # <<>> /\ Apply(e)
      BY <1>3, <2>1, QueueTyped DEF Handle
    <3>. QED  BY <2>1, <3>1
  <2>3. \A g \in Heard("environment") :
          /\ g \in EventId /\ TimeOf(g) \in Nat /\ g[1] = "environment"
    <3>1. ASSUME NEW i \in DOMAIN history, history[i].event[1] = "environment"
          PROVE  history[i].event \in EventId /\ TimeOf(history[i].event) \in Nat
      BY HeardTyped, EventFields DEF TimeOf
    <3>. QED  BY <3>1 DEF Heard
  <2>4. TimeOf(e) \in Nat /\ \A k \in DOMAIN entities : TimeOf(entities[k].event) \in Nat
    <3>1. \A k \in DOMAIN entities : entities[k].event \in EventId
      BY <1>1 DEF IngestInv, StoreInv, StoreTyped, Entity
    <3>. QED  BY <2>2, <3>1, EventFields DEF TimeOf
  <2>5. CASE /\ Late(e) /\ UNCHANGED entities
             /\ Heard("environment")' =
                  IF e[1] = "environment" THEN Heard("environment") \cup {e}
                  ELSE Heard("environment")
    <3>1. ASSUME e[1] = "environment", NEW k \in Event[e].keys
          PROVE  k \in DOMAIN entities /\ TimeOf(e) <= TimeOf(entities[k].event)
      <4>1. PICK j \in Event[e].keys \cap DOMAIN entities :
              TimeOf(e) < TimeOf(entities[j].event)
        BY <2>5 DEF Late, TimeOf
      <4>2. j = k
        BY <2>2, <3>1, <4>1, WeatherFields
      <4>. QED  BY <2>4, <4>1, <4>2
    <3>2. \A g \in Heard("environment")' : \A k \in Event[g].keys :
            k \in DOMAIN entities /\ TimeOf(g) <= TimeOf(entities[k].event)
      BY <1>1, <2>5, <3>1 DEF WeatherNewest
    <3>. QED  BY <2>5, <3>2 DEF WeatherNewest, TimeOf
  <2>6. CASE /\ ~Late(e) /\ DOMAIN entities' = DOMAIN entities \cup Event[e].keys
             /\ \A k \in DOMAIN entities' :
                  IF k \in Event[e].keys THEN entities'[k].event = e
                  ELSE entities'[k] = entities[k]
             /\ Heard("environment")' =
                  IF e[1] = "environment" THEN Heard("environment") \cup {e}
                  ELSE Heard("environment")
    <3>1. ASSUME NEW g \in Heard("environment")', NEW k \in Event[g].keys
          PROVE  k \in DOMAIN entities' /\ TimeOf(g) <= TimeOf(entities'[k].event)
      <4>1. CASE g = e
        <5>1. k \in DOMAIN entities' /\ entities'[k].event = e
          BY <2>6, <3>1, <4>1
        <5>. QED  BY <2>4, <4>1, <5>1
      <4>2. CASE g \in Heard("environment")
        <5>1. k \in DOMAIN entities /\ TimeOf(g) <= TimeOf(entities[k].event)
          BY <1>1, <3>1, <4>2 DEF WeatherNewest
        <5>2. CASE k \in Event[e].keys
          <6>1. ~(TimeOf(e) < TimeOf(entities[k].event))
            BY <2>6, <5>1, <5>2 DEF Late, TimeOf
          <6>2. entities'[k].event = e /\ k \in DOMAIN entities'
            BY <2>6, <5>2
          <6>. QED  BY <2>3, <2>4, <4>2, <5>1, <6>1, <6>2
        <5>3. CASE k \notin Event[e].keys
          BY <2>6, <5>1, <5>3
        <5>. QED  BY <5>2, <5>3
      <4>. QED  BY <2>6, <3>1, <4>1, <4>2
    <3>. QED  BY <3>1 DEF WeatherNewest, TimeOf
  <2>7. CASE UNCHANGED <<entities, history>>
    BY <1>2, <2>7
  <2>. QED  BY <2>2, <2>5, <2>6, <2>7, ApplyTells
<1>4. [IngestNext]_ingestVars
  BY StepsOfBoth
<1>5. WeatherNewest' \/ UNCHANGED <<entities, history>>
  BY <1>3, <1>4 DEF IngestNext, Deliver, Send, SendFails, ingestVars, twinVars
<1>. QED  BY <1>2, <1>5

LEMMA SituationKept == SituationInv /\ [SituationNext]_situationVars => SituationInv'
<1>. SUFFICES ASSUME SituationInv, [SituationNext]_situationVars PROVE SituationInv'
  OBVIOUS
<1>1. TrackerInv'
  BY StepsOfBoth, TrackerKept DEF SituationInv
<1>2. IngestInv'
  BY StepsOfBoth, IngestKept DEF SituationInv
<1>3. LineTyped' /\ WeatherNewest'
  BY <1>1, LineTypedKept, WeatherKept
<1>4. Undisturbed' => LineInv'
  BY <1>1, LineKept
<1>. QED  BY <1>1, <1>2, <1>3, <1>4 DEF SituationInv

LEMMA SituationStarts == SituationInit => SituationInv
<1>. SUFFICES ASSUME SituationInit PROVE SituationInv
  OBVIOUS
<1>1. /\ inbox = [f \in Feed |-> <<>>] /\ history = <<>> /\ DOMAIN entities = {}
      /\ DOMAIN tracks = {} /\ ~pending /\ outputs = 0
      /\ "tracks" \in Feed /\ "environment" \in Feed
  BY SituationAssumption DEF SituationInit, IngestInit, TwinInit, TrackerInit
<1>2. Queue = <<>> /\ Len(Queue) = 0 /\ inbox["environment"] = <<>>
  BY <1>1 DEF Queue
<1>3. InTwin = {} /\ Told = {} /\ \A f : Heard(f) = {}
  BY <1>1 DEF InTwin, Told, Heard
<1>4. LineTyped /\ WeatherNewest
  BY <1>1, <1>2, <1>3, SituationAssumption DEF LineTyped, WeatherNewest
<1>5. \A i \in Nat : OnLine(i) = {} /\ (i > 0 => LostOnLine(i) = {})
  BY <1>1, <1>2, <1>3 DEF OnLine, LostOnLine
<1>6. LineInv
  BY <1>3, <1>5 DEF LineInv, Unbroken, LeavesLost, LossIsNewest, SameBatch, Escorted,
                    LossKnown, TracksNewest
<1>. QED  BY <1>4, <1>6, TrackerStarts, IngestStarts DEF SituationInit, SituationInv

-----------------------------------------------------------------------------
(* What reaches the twin, in every reachable state: the batches are in     *)
(* order and of tracks that there were, and while nothing fails a track    *)
(* leaves the line by its loss alone.                                      *)
THEOREM SituationInvariant == SituationSpec => []SituationInv
BY SituationStarts, SituationKept, PTL DEF SituationSpec

(* The types of tracker, twin and what is between them.                    *)
THEOREM SituationTyped == SituationSpec => []SituationTypeOK
<1>1. SituationInv => SituationTypeOK
  BY DEF SituationInv, TrackerInv, IngestInv, StoreInv, StoreTyped, LineTyped,
         TwinTypeOK, SituationTypeOK
<1>. QED  BY <1>1, SituationInvariant, PTL

(* Together they are the tracker and the ingest service each by itself:    *)
(* what is proved of these is true of the composition.                     *)
THEOREM SituationIsBoth == SituationSpec => TrackerSpec /\ IngestSpec
<1>1. SituationInit => TrackerInit /\ IngestInit
  BY DEF SituationInit
<1>2. SituationInv /\ [SituationNext]_situationVars =>
        [TrackerNext]_trackerVars /\ [IngestNext]_ingestVars
  BY StepsOfBoth
<1>. QED  BY <1>1, <1>2, SituationInvariant, PTL DEF SituationSpec, TrackerSpec, IngestSpec

(* The twin learns of every loss: while the scans that are taken in are    *)
(* late by no more than the timeout, no batch with a loss is refused.      *)
THEOREM TwinLearnsOfLosses == SituationSpec => [](LateWithinTimeout => TwinKnowsLost)
<1>1. SituationInv => (LateWithinTimeout => TwinKnowsLost)
  <2>. SUFFICES ASSUME SituationInv, LateWithinTimeout, inbox["tracks"] = <<>>, ~pending,
                       ~trackerFailed, ~failed["tracks"], NEW t \in 0..MaxTrackId,
                       <<"track", t>> \in DOMAIN entities, t \notin DOMAIN tracks
                PROVE  entities[<<"track", t>>].event[2].states[t] = "LOST"
    BY DEF TwinKnowsLost
  <2>1. LossKnown
    BY DEF SituationInv, Undisturbed, TimelyTracker, LineInv
  <2>2. OnLine(1) = DOMAIN tracks
    <3>1. ~(1 <= Len(Queue)) /\ 1 # 0
      BY DEF Queue
    <3>. QED  BY <3>1 DEF OnLine
  <2>. QED  BY <2>1, <2>2 DEF LossKnown, InTwin, TrackKey, BatchInTwin
<1>. QED  BY <1>1, SituationInvariant, PTL

(* While nothing fails, an entity is the newest the twin was ever told of, *)
(* what it has refused as late included.                                   *)
THEOREM NewestIsHeld == SituationSpec => [](Undisturbed => HoldsNewest)
<1>1. SituationInv => (Undisturbed => HoldsNewest)
  <2>. SUFFICES ASSUME SituationInv, Undisturbed, NEW k \in DOMAIN entities,
                       NEW i \in DOMAIN history, k \in Event[history[i].event].keys
                PROVE  TimeOf(history[i].event) <= TimeOf(entities[k].event)
    BY DEF HoldsNewest, TimeOf
  <2>1. PICK e : e = history[i].event
    OBVIOUS
  <2>2. CASE e[1] = "tracks"
    <3>1. e \in EventId /\ e \in Heard("tracks")
      BY <2>1, <2>2, HeardTyped
    <3>2. PICK t \in Ids(e) : k = TrackKey(t)
      BY <2>1, <2>2, <3>1, BatchFields
    <3>3. t \in InTwin
      BY <2>2, <3>1, <3>2, BatchFields DEF InTwin
    <3>. QED  BY <2>1, <3>1, <3>2, <3>3 DEF SituationInv, LineInv, TracksNewest, BatchInTwin
  <2>3. CASE e[1] = "environment"
    BY <2>1, <2>3, HeardTyped DEF SituationInv, WeatherNewest
  <2>. QED  BY <2>1, <2>2, <2>3, HeardTyped
<1>. QED  BY <1>1, SituationInvariant, PTL
=============================================================================
