----------------------------- MODULE TwinProofs -----------------------------
(***************************************************************************)
(* Proofs about the digital twin's store and the service that feeds it,    *)
(* for any events, topics, limits and windows.                             *)
(***************************************************************************)
EXTENDS TwinIngest, TLAPS, FiniteSetTheorems

Memory == [event: EventId, revision: Nat]
Entity == [revision: Nat, event: EventId]

StoreTyped ==
  /\ DOMAIN entities \subseteq Key
  /\ \A k \in DOMAIN entities : entities[k] \in Entity
  /\ \A k \in DOMAIN entities : entities[k].revision \in 1..revision
  /\ Cardinality(DOMAIN entities) <= MaxEntities
  /\ revision \in Nat
  /\ watermark \in Nat \cup {NoTime}
  /\ history \in Seq(Memory)
  /\ \A i \in DOMAIN history : history[i].revision \in 0..revision
  /\ outcome \in {"none", "duplicate", "late", "applied", "error"}

\* m is the last commit that touched k, and left its entity.
LastCommit(k, m) ==
  /\ m \in CommitsOf(k)
  /\ \A i \in CommitsOf(k) : i <= m
  /\ entities[k] = [revision |-> history[m].revision, event |-> history[m].event]

(* What EntitiesTraceable says, key by key and without a maximum, and that *)
(* the watermark has passed everything committed.                          *)
Traced ==
  /\ \A k \in DOMAIN entities : \E m \in DOMAIN history : LastCommit(k, m)
  /\ \A k \in Key : CommitsOf(k) # {} => k \in DOMAIN entities
  /\ \A i \in Commits :
       history[i].revision = Cardinality({j \in Commits : j <= i})
  /\ revision = Cardinality(Commits)
  /\ \A i \in Commits : Event[history[i].event].observedAt <= watermark

StoreInv == StoreTyped /\ Traced /\ TakenOncePerWindow

-----------------------------------------------------------------------------
\* The fields of an event.
LEMMA EventFields ==
  ASSUME NEW e \in EventId
  PROVE  /\ Event[e].observedAt \in Nat /\ Event[e].receivedAt \in Nat
         /\ Event[e].keys \subseteq Key
BY TwinAssumption DEF EventRecord

\* A nonempty set of naturals has a smallest element.
LEMMA SmallestExists ==
  ASSUME NEW T \in SUBSET Nat, T # {}
  PROVE  \E x \in T : \A y \in T : x <= y
<1>. DEFINE R == OpToRel(<, Nat)
<1>1. IsWellFoundedOn(R, Nat)
  BY NatLessThanWellFounded
<1>2. \A x, y \in Nat : y < x => <<y, x>> \in R
  BY DEF OpToRel
<1>. HIDE DEF R
<1>3. PICK x \in T : \A y \in T : ~(<<y, x>> \in R)
  BY <1>1, WFMin
<1>4. ASSUME NEW y \in T PROVE x <= y
  <2>1. ~(y < x)
    BY <1>2, <1>3
  <2>. QED  BY <2>1
<1>. QED  BY <1>4

\* A nonempty set of naturals with an upper bound has a largest element.
LEMMA LargestExists ==
  ASSUME NEW T \in SUBSET Nat, T # {}, NEW n \in Nat, \A x \in T : x <= n
  PROVE  \E x \in T : \A y \in T : y <= x
<1>. DEFINE U == {x \in Nat : \A y \in T : y <= x}
<1>1. n \in U
  OBVIOUS
<1>2. PICK u \in U : \A v \in U : u <= v
  BY <1>1, SmallestExists
<1>3. u \in T
  <2>. SUFFICES ASSUME u \notin T PROVE FALSE
    OBVIOUS
  <2>1. PICK t \in T : TRUE
    OBVIOUS
  <2>2. \A y \in T : y <= u - 1
    OBVIOUS
  <2>3. u - 1 \in Nat
    BY <2>1, <2>2
  <2>. QED  BY <2>2, <2>3, <1>2
<1>. QED  BY <1>3

\* What is last is the maximum.
LEMMA MaxIsLast ==
  ASSUME NEW S \in SUBSET Int, NEW m \in S, \A i \in S : i <= m
  PROVE  Max(S) = m
<1>1. m >= m /\ \A i \in S : m >= i
  OBVIOUS
<1>2. \A x \in S : (\A y \in S : x >= y) => x = m
  OBVIOUS
<1>. QED  BY <1>1, <1>2 DEF Max

\* The commits are places in the history, and finitely many.
LEMMA CommitsTyped ==
  ASSUME StoreTyped
  PROVE  /\ DOMAIN history = 1..Len(history) /\ Len(history) \in Nat
         /\ Commits \subseteq DOMAIN history /\ IsFiniteSet(Commits)
         /\ Cardinality(Commits) \in Nat
         /\ \A k : CommitsOf(k) \subseteq Commits
         /\ \A i \in DOMAIN history :
              history[i].event \in EventId /\ history[i].revision \in Nat
<1>1. DOMAIN history = 1..Len(history) /\ Len(history) \in Nat
  BY DEF StoreTyped
<1>2. Commits \subseteq DOMAIN history /\ \A k : CommitsOf(k) \subseteq Commits
  BY DEF Commits, CommitsOf
<1>3. IsFiniteSet(Commits)
  <2>1. IsFiniteSet(1..Len(history))
    BY <1>1, FS_Interval
  <2>. QED  BY <1>1, <1>2, <2>1, FS_Subset
<1>5. Cardinality(Commits) \in Nat
  BY <1>3, FS_CardinalityType
<1>4. \A i \in DOMAIN history : history[i] \in Memory
  BY <1>1 DEF StoreTyped
<1>. QED  BY <1>1, <1>2, <1>3, <1>4, <1>5 DEF Memory

\* What remembering one more event adds.
LEMMA Grown ==
  ASSUME StoreTyped, NEW e \in EventId, NEW r \in Nat, NEW n, n = Len(history) + 1,
         Remember(e, r)
  PROVE  /\ DOMAIN history' = DOMAIN history \cup {n}
         /\ n \in Nat /\ \A i \in DOMAIN history : i \in Nat /\ i < n
         /\ \A i \in DOMAIN history : history'[i] = history[i]
         /\ history'[n].event = e /\ history'[n].revision = r
         /\ history' \in Seq(Memory) /\ Len(history') = n
BY DEF StoreTyped, Remember, Memory

\* The same, of the commits.
LEMMA CommitsGrown ==
  ASSUME StoreTyped, NEW e \in EventId, NEW r \in Nat, NEW n, n = Len(history) + 1,
         Remember(e, r)
  PROVE  /\ Commits' = IF r > 0 THEN Commits \cup {n} ELSE Commits
         /\ \A k : CommitsOf(k)' =
              IF r > 0 /\ k \in Event[e].keys THEN CommitsOf(k) \cup {n} ELSE CommitsOf(k)
         /\ n \notin Commits
<1>1. /\ DOMAIN history' = DOMAIN history \cup {n}
      /\ \A i \in DOMAIN history : history'[i] = history[i]
      /\ history'[n].event = e /\ history'[n].revision = r
      /\ n \in Nat /\ \A i \in DOMAIN history : i < n
  BY Grown
<1>2. n \notin DOMAIN history
  BY <1>1
<1>3. ASSUME NEW i
      PROVE  i \in Commits' <=> i \in Commits \/ (i = n /\ r > 0)
  BY <1>1, <1>2 DEF Commits
<1>4. ASSUME NEW k, NEW i
      PROVE  i \in CommitsOf(k)'
               <=> i \in CommitsOf(k) \/ (i = n /\ r > 0 /\ k \in Event[e].keys)
  BY <1>1, <1>2 DEF CommitsOf
<1>5. Commits' = IF r > 0 THEN Commits \cup {n} ELSE Commits
  BY <1>3
<1>6. ASSUME NEW k
      PROVE  CommitsOf(k)' =
        IF r > 0 /\ k \in Event[e].keys THEN CommitsOf(k) \cup {n} ELSE CommitsOf(k)
  <2>1. CASE r > 0 /\ k \in Event[e].keys
    <3>1. \A i : i \in CommitsOf(k)' <=> i \in CommitsOf(k) \cup {n}
      BY <1>4, <2>1
    <3>. QED  BY <2>1, <3>1
  <2>2. CASE ~(r > 0 /\ k \in Event[e].keys)
    <3>1. \A i : i \in CommitsOf(k)' <=> i \in CommitsOf(k)
      BY <1>4, <2>2
    <3>. QED  BY <2>2, <3>1
  <2>. QED  BY <2>1, <2>2
<1>7. n \notin Commits
  BY <1>2 DEF Commits
<1>. QED  BY <1>5, <1>6, <1>7

\* An event that is not in the window was last taken before it.
LEMMA WindowKept ==
  ASSUME StoreTyped, TakenOncePerWindow, NEW e \in EventId, NEW r \in Nat,
         e \notin Seen, Remember(e, r)
  PROVE  TakenOncePerWindow'
<1>1. PICK n : n = Len(history) + 1
  OBVIOUS
<1>2. /\ DOMAIN history' = DOMAIN history \cup {n} /\ n \in Nat
      /\ \A i \in DOMAIN history : i \in Nat /\ i < n /\ history'[i] = history[i]
      /\ history'[n].event = e
  BY <1>1, Grown
<1>3. Len(history) \in Nat /\ DedupCapacity \in Nat
  BY TwinAssumption DEF StoreTyped
<1>4. ASSUME NEW i \in DOMAIN history, history[i].event = e
      PROVE  n - i > DedupCapacity
  <2>1. ~(i > Len(history) - DedupCapacity)
    BY <1>4 DEF Seen
  <2>. QED  BY <1>1, <1>2, <1>3, <2>1
<1>5. ASSUME NEW i \in DOMAIN history', NEW j \in DOMAIN history', i < j,
             history'[i].event = history'[j].event
      PROVE  j - i > DedupCapacity
  <2>1. i \in DOMAIN history
    BY <1>2, <1>5
  <2>2. CASE j = n
    BY <1>2, <1>4, <1>5, <2>1, <2>2
  <2>3. CASE j \in DOMAIN history
    BY <1>2, <1>5, <2>1, <2>3 DEF TakenOncePerWindow
  <2>. QED  BY <1>2, <2>2, <2>3
<1>. QED  BY <1>5 DEF TakenOncePerWindow

-----------------------------------------------------------------------------
(* One apply(): the numbers, the entities, the window.                     *)

\* An event taken as late is remembered under no revision.
LEMMA LateKeeps ==
  ASSUME StoreInv, NEW e \in EventId, RejectLate(e)
  PROVE  StoreInv'
<1>1. PICK n : n = Len(history) + 1
  OBVIOUS
<1>2. Remember(e, 0) /\ UNCHANGED <<entities, revision, watermark>> /\ e \notin Seen
  BY DEF RejectLate
<1>3. StoreTyped /\ Traced /\ TakenOncePerWindow
  BY DEF StoreInv
<1>4. /\ DOMAIN history' = DOMAIN history \cup {n}
      /\ \A i \in DOMAIN history : history'[i] = history[i]
      /\ history'[n].revision = 0 /\ history' \in Seq(Memory)
  BY <1>1, <1>2, <1>3, Grown
<1>5. Commits' = Commits /\ \A k : CommitsOf(k)' = CommitsOf(k)
  BY <1>1, <1>2, <1>3, CommitsGrown
<1>6. StoreTyped'
  BY <1>2, <1>3, <1>4 DEF StoreTyped, RejectLate, Report
<1>7. Commits \subseteq DOMAIN history /\ \A k : CommitsOf(k) \subseteq DOMAIN history
  BY DEF Commits, CommitsOf
<1>8. Traced'
  <2>1. ASSUME NEW k \in DOMAIN entities, NEW m \in DOMAIN history, LastCommit(k, m)
        PROVE  LastCommit(k, m)'
    BY <1>2, <1>4, <1>5, <2>1 DEF LastCommit
  <2>2. \A k \in DOMAIN entities' : \E m \in DOMAIN history' : LastCommit(k, m)'
    BY <1>2, <1>3, <1>4, <2>1 DEF Traced
  <2>3. \A i \in Commits : history'[i] = history[i]
    BY <1>4, <1>7
  <2>. QED  BY <1>2, <1>3, <1>5, <2>2, <2>3 DEF Traced
<1>9. TakenOncePerWindow'
  BY <1>2, <1>3, WindowKept
<1>. QED  BY <1>6, <1>8, <1>9 DEF StoreInv

\* A commit is numbered by one more than the commits before it.
LEMMA CommitNumbers ==
  ASSUME StoreTyped, Traced, NEW e \in EventId, Commit(e)
  PROVE  /\ \A i \in Commits' :
              history'[i].revision = Cardinality({j \in Commits' : j <= i})
         /\ revision' = Cardinality(Commits')
<1>1. PICK n : n = Len(history) + 1
  OBVIOUS
<1>2. Remember(e, revision + 1) /\ revision + 1 \in Nat
  BY DEF Commit, StoreTyped
<1>10. revision' = revision + 1 /\ revision \in Nat
  BY DEF Commit, StoreTyped
<1>3. /\ \A i \in DOMAIN history : i \in Nat /\ i < n /\ history'[i] = history[i]
      /\ history'[n].revision = revision + 1 /\ history'[n].event = e /\ n \in Nat
  BY <1>1, <1>2, Grown
<1>4. revision + 1 > 0 /\ revision + 1 \in Nat
  BY <1>10
<1>5. Commits' = Commits \cup {n} /\ n \notin Commits
  BY <1>1, <1>2, <1>4, CommitsGrown
<1>6. /\ IsFiniteSet(Commits) /\ Commits \subseteq DOMAIN history
      /\ Cardinality(Commits) = revision
  BY CommitsTyped DEF Traced
<1>7. Cardinality(Commits') = revision + 1
  BY <1>5, <1>6, FS_AddElement
<1>8. ASSUME NEW i \in Commits
      PROVE  history'[i].revision = Cardinality({j \in Commits' : j <= i})
  <2>1. i \in Nat /\ i < n /\ history'[i] = history[i]
    BY <1>3, <1>6
  <2>2. {j \in Commits' : j <= i} = {j \in Commits : j <= i}
    BY <1>3, <1>5, <2>1
  <2>. QED  BY <2>1, <2>2 DEF Traced
<1>9. {j \in Commits' : j <= n} = Commits'
  BY <1>3, <1>5, <1>6
<1>. QED  BY <1>3, <1>5, <1>7, <1>8, <1>9, <1>10

\* What a commit does to the entities and to the commits of a key.
LEMMA CommitTraces ==
  ASSUME StoreTyped, Traced, NEW e \in EventId, Commit(e)
  PROVE  /\ \A k \in DOMAIN entities' : \E m \in DOMAIN history' : LastCommit(k, m)'
         /\ \A k \in Key : CommitsOf(k)' # {} => k \in DOMAIN entities'
<1>1. PICK n : n = Len(history) + 1
  OBVIOUS
<1>2. Remember(e, revision + 1) /\ revision + 1 > 0 /\ revision + 1 \in Nat
  BY DEF Commit, StoreTyped
<1>3. /\ \A i \in DOMAIN history : i \in Nat /\ i < n /\ history'[i] = history[i]
      /\ history'[n].revision = revision + 1 /\ history'[n].event = e /\ n \in Nat
      /\ DOMAIN history' = DOMAIN history \cup {n}
  BY <1>1, <1>2, Grown
<1>4. ASSUME NEW k
      PROVE  CommitsOf(k)' = IF k \in Event[e].keys THEN CommitsOf(k) \cup {n}
                             ELSE CommitsOf(k)
  BY <1>1, <1>2, CommitsGrown
<1>5. ASSUME NEW k PROVE CommitsOf(k) \subseteq DOMAIN history
  BY DEF CommitsOf
<1>6. /\ DOMAIN entities' = DOMAIN entities \cup Event[e].keys
      /\ \A k \in DOMAIN entities' : entities'[k] =
           IF k \in Event[e].keys THEN [revision |-> revision + 1, event |-> e]
           ELSE entities[k]
  BY DEF Commit
<1>7. ASSUME NEW k \in Event[e].keys PROVE LastCommit(k, n)'
  <2>1. CommitsOf(k)' = CommitsOf(k) \cup {n}
    BY <1>4, <1>7
  <2>2. \A i \in CommitsOf(k)' : i <= n
    BY <1>3, <1>5, <2>1
  <2>. QED  BY <1>3, <1>6, <1>7, <2>1, <2>2 DEF LastCommit
<1>8. ASSUME NEW k \in DOMAIN entities, k \notin Event[e].keys
      PROVE  \E m \in DOMAIN history : LastCommit(k, m)'
  <2>1. PICK m \in DOMAIN history : LastCommit(k, m)
    BY <1>8 DEF Traced
  <2>2. history'[m] = history[m] /\ CommitsOf(k)' = CommitsOf(k) /\ entities'[k] = entities[k]
    BY <1>3, <1>4, <1>6, <1>8
  <2>3. LastCommit(k, m)'
    BY <2>1, <2>2 DEF LastCommit
  <2>. QED  BY <2>3
<1>9. \A k \in DOMAIN entities' : \E m \in DOMAIN history' : LastCommit(k, m)'
  BY <1>3, <1>6, <1>7, <1>8
<1>10. \A k \in Key : CommitsOf(k)' # {} => k \in DOMAIN entities'
  BY <1>4, <1>6 DEF Traced
<1>. QED  BY <1>9, <1>10

\* A commit keeps the types, within the limit.
LEMMA CommitTyped ==
  ASSUME StoreTyped, NEW e \in EventId, Commit(e)
  PROVE  StoreTyped'
<1>1. PICK n : n = Len(history) + 1
  OBVIOUS
<1>2. Remember(e, revision + 1) /\ revision + 1 \in Nat
  BY DEF Commit, StoreTyped
<1>10. revision' = revision + 1 /\ revision \in Nat
  BY DEF Commit, StoreTyped
<1>3. /\ DOMAIN history' = DOMAIN history \cup {n}
      /\ n \in Nat /\ \A i \in DOMAIN history : history'[i] = history[i]
      /\ history'[n].event = e /\ history'[n].revision = revision + 1
      /\ history' \in Seq(Memory)
  BY <1>1, <1>2, Grown
<1>4. /\ DOMAIN entities' = DOMAIN entities \cup Event[e].keys
      /\ \A k \in DOMAIN entities' : entities'[k] =
           IF k \in Event[e].keys THEN [revision |-> revision + 1, event |-> e]
           ELSE entities[k]
  BY DEF Commit
<1>5. Cardinality(DOMAIN entities') <= MaxEntities
  <2>1. DOMAIN entities \subseteq Key /\ Event[e].keys \subseteq Key
    BY EventFields DEF StoreTyped
  <2>2. Cardinality(DOMAIN entities \cup Event[e].keys) \in Nat
    BY <2>1, TwinAssumption, FS_Subset, FS_CardinalityType
  <2>3. ~(Cardinality(DOMAIN entities \cup Event[e].keys) > MaxEntities)
    BY DEF Commit, Overflows
  <2>. QED  BY <1>4, <2>2, <2>3, TwinAssumption
<1>6. /\ DOMAIN entities' \subseteq Key
      /\ \A k \in DOMAIN entities' :
           entities'[k] \in Entity /\ entities'[k].revision \in 1..revision'
  BY <1>4, <1>10, EventFields DEF StoreTyped, Entity
<1>7. watermark' \in Nat \cup {NoTime}
  BY EventFields DEF Commit, Later, StoreTyped
<1>8. \A i \in DOMAIN history' : history'[i].revision \in 0..revision'
  BY <1>3, <1>10 DEF StoreTyped
<1>9. outcome' \in {"none", "duplicate", "late", "applied", "error"}
  BY DEF Commit, Report
<1>. QED  BY <1>3, <1>5, <1>6, <1>7, <1>8, <1>9, <1>10 DEF StoreTyped

\* A commit keeps what is said of the twin.
LEMMA CommitKeeps ==
  ASSUME StoreInv, NEW e \in EventId, Commit(e)
  PROVE  StoreInv'
<1>1. PICK n : n = Len(history) + 1
  OBVIOUS
<1>2. StoreTyped /\ Traced /\ TakenOncePerWindow
  BY DEF StoreInv
<1>3. /\ Remember(e, revision + 1) /\ revision + 1 \in Nat /\ revision + 1 > 0
      /\ e \notin Seen /\ watermark' = Later(watermark, Event[e].observedAt)
  BY <1>2 DEF Commit, StoreTyped
<1>4. /\ \A i \in DOMAIN history : history'[i] = history[i]
      /\ history'[n].event = e
      /\ Commits' = Commits \cup {n}
      /\ Commits \subseteq DOMAIN history
      /\ \A i \in DOMAIN history : history[i].event \in EventId
  BY <1>1, <1>2, <1>3, Grown, CommitsGrown, CommitsTyped
<1>5. \A i \in Commits' : Event[history'[i].event].observedAt <= watermark'
  <2>1. watermark \in Int /\ Event[e].observedAt \in Int
    BY <1>2, EventFields DEF StoreTyped, NoTime
  <2>2. watermark <= watermark' /\ Event[e].observedAt <= watermark' /\ watermark' \in Int
    BY <1>3, <2>1 DEF Later
  <2>3. ASSUME NEW i \in Commits
        PROVE  Event[history'[i].event].observedAt <= watermark'
    <3>1. Event[history[i].event].observedAt <= watermark /\ history'[i] = history[i]
      BY <1>2, <1>4 DEF Traced
    <3>2. Event[history[i].event].observedAt \in Int
      BY <1>4, EventFields
    <3>. QED  BY <2>1, <2>2, <3>1, <3>2
  <2>. QED  BY <1>4, <2>2, <2>3
<1>6. Traced'
  BY <1>2, <1>5, CommitNumbers, CommitTraces DEF Traced
<1>7. TakenOncePerWindow'
  BY <1>2, <1>3, WindowKept
<1>. QED  BY <1>2, <1>6, <1>7, CommitTyped DEF StoreInv

\* A step that leaves entities, history and watermark alone.
LEMMA StoreKept ==
  ASSUME StoreInv, UNCHANGED <<entities, revision, watermark, history>>,
         outcome' \in {"none", "duplicate", "late", "applied", "error"}
  PROVE  StoreInv'
<1>1. Commits' = Commits /\ \A k : CommitsOf(k)' = CommitsOf(k)
  BY DEF Commits, CommitsOf
<1>. QED  BY <1>1 DEF StoreInv, StoreTyped, Traced, LastCommit, TakenOncePerWindow

\* Every way apply() may end.
LEMMA ApplyKeeps ==
  ASSUME StoreInv, NEW e \in EventId, Apply(e)
  PROVE  StoreInv'
<1>1. CASE Duplicate(e) \/ Refuse(e)
  BY <1>1, StoreKept DEF Duplicate, Refuse, Report
<1>. QED  BY <1>1, LateKeeps, CommitKeeps DEF Apply

\* The invariant is what the store promises.
LEMMA InvIsTraceable == StoreInv => EntitiesTraceable
<1>. SUFFICES ASSUME StoreInv PROVE EntitiesTraceable
  OBVIOUS
<1>1. StoreTyped /\ Traced
  BY DEF StoreInv
<1>2. ASSUME NEW k \in DOMAIN entities
      PROVE  /\ CommitsOf(k) # {}
             /\ entities[k] = [revision |-> history[Max(CommitsOf(k))].revision,
                               event |-> history[Max(CommitsOf(k))].event]
  <2>1. PICK m \in DOMAIN history : LastCommit(k, m)
    BY <1>1 DEF Traced
  <2>2. CommitsOf(k) \subseteq Int
    BY <1>1, CommitsTyped
  <2>3. Max(CommitsOf(k)) = m /\ m \in CommitsOf(k)
    BY <2>1, <2>2, MaxIsLast DEF LastCommit
  <2>. QED  BY <2>1, <2>3 DEF LastCommit
<1>3. DOMAIN entities = {k \in Key : CommitsOf(k) # {}}
  BY <1>1, <1>2 DEF Traced, StoreTyped
<1>. QED  BY <1>1, <1>2, <1>3 DEF EntitiesTraceable, Traced, StoreTyped

\* The empty twin.
LEMMA StoreStarts == TwinInit => StoreInv
<1>. SUFFICES ASSUME TwinInit PROVE StoreInv
  OBVIOUS
<1>1. Commits = {} /\ \A k : CommitsOf(k) = {}
  BY DEF TwinInit, Commits, CommitsOf
<1>2. Cardinality({}) = 0
  BY FS_EmptySet
<1>3. DOMAIN entities = {} /\ history = <<>> /\ revision = 0 /\ watermark = NoTime
  BY DEF TwinInit
<1>4. StoreTyped
  BY <1>2, <1>3, TwinAssumption DEF StoreTyped, TwinInit
<1>. QED  BY <1>1, <1>2, <1>3, <1>4 DEF StoreInv, Traced, TakenOncePerWindow

-----------------------------------------------------------------------------
(* The service: what its workers publish, and what becomes of it.          *)

Snapshot ==
  [revision: Nat, asOf: Nat, watermark: Nat, refs: SUBSET (Key \X Nat),
   valid: BOOLEAN]

\* s is the twin as it stood after the commit n.
AsOfCommit(s, n) ==
  /\ s.revision = history[n].revision
  /\ s.refs = RefsAfter(n)
  /\ \A i \in Commits : i <= n => Event[history[i].event].observedAt <= s.watermark

Genuine(s) == \E n \in Commits : AsOfCommit(s, n)

(* Nothing that is in flight or was published stands for the same          *)
(* revision as something else: each has the number of its own commit.      *)
SnapshotsInv ==
  /\ published \in Seq(Snapshot)
  /\ \A f \in Feed : sending[f] = {} \/ \E s \in Snapshot : sending[f] = {s}
  /\ \A a \in DOMAIN published :
       Genuine(published[a]) /\ published[a].revision <= revision
  /\ \A f \in Feed : \A s \in sending[f] :
       Genuine(s) /\ s.revision <= revision
  /\ \A a, b \in DOMAIN published :
       published[a].revision = published[b].revision => a = b
  /\ \A f \in Feed : \A s \in sending[f] : \A a \in DOMAIN published :
       published[a].revision # s.revision
  /\ \A f, g \in Feed : \A s \in sending[f] : \A t \in sending[g] :
       s.revision = t.revision => f = g

QueuesTyped ==
  /\ inbox \in [Feed -> Seq(EventId)]
  /\ sending \in [Feed -> SUBSET Snapshot]
  /\ failed \in [Feed -> BOOLEAN]

IngestInv == StoreInv /\ QueuesTyped /\ SnapshotsInv /\ LossIsOnRecord

\* The references of a snapshot, from the history alone.
RefsInHistory == RefsAfter(Len(history)) = Refs(entities)

LEMMA RefsFromHistory == StoreInv => RefsInHistory
<1>. SUFFICES ASSUME StoreInv PROVE RefsAfter(Len(history)) = Refs(entities)
  BY DEF RefsInHistory
<1>. DEFINE n == Len(history)
<1>1. StoreTyped /\ Traced
  BY DEF StoreInv
<1>2. ASSUME NEW k PROVE CommitsOf(k) \cap 1..n = CommitsOf(k)
  BY <1>1, CommitsTyped
<1>3. EntitiesTraceable
  BY InvIsTraceable
<1>4. DOMAIN entities = {k \in Key : CommitsOf(k) # {}}
  BY <1>3 DEF EntitiesTraceable
<1>5. ASSUME NEW k \in DOMAIN entities
      PROVE  entities[k].revision = history[Max(CommitsOf(k))].revision
  <2>1. PICK m : LastCommit(k, m)
    BY <1>1 DEF Traced
  <2>2. CommitsOf(k) \subseteq Int
    BY <1>1, CommitsTyped
  <2>3. Max(CommitsOf(k)) = m
    BY <2>1, <2>2, MaxIsLast DEF LastCommit
  <2>. QED  BY <2>1, <2>3 DEF LastCommit
<1>6. RefsAfter(n) =
        {<<k, history[Max(CommitsOf(k))].revision>> : k \in DOMAIN entities}
  <2>1. {k \in Key : [x \in Key |-> CommitsOf(x) \cap 1..n][k] # {}} = DOMAIN entities
    BY <1>2, <1>4
  <2>2. \A k \in DOMAIN entities : [x \in Key |-> CommitsOf(x) \cap 1..n][k] = CommitsOf(k)
    BY <1>2, <1>4
  <2>. QED  BY <2>1, <2>2 DEF RefsAfter
<1>. QED  BY <1>5, <1>6 DEF Refs

\* The same, after a step.
LEMMA RefsNext == StoreInv' => RefsInHistory'
BY RefsFromHistory, PTL

\* What stood after an earlier event stands.
LEMMA PastRefs ==
  ASSUME StoreTyped, NEW e \in EventId, NEW r \in Nat, Remember(e, r),
         NEW m \in DOMAIN history
  PROVE  RefsAfter(m)' = RefsAfter(m)
<1>1. PICK n : n = Len(history) + 1
  OBVIOUS
<1>2. /\ \A i \in DOMAIN history : history'[i] = history[i]
      /\ n \in Nat /\ m \in Nat /\ m < n
  BY <1>1, Grown
<1>3. ASSUME NEW k PROVE CommitsOf(k)' \cap 1..m = CommitsOf(k) \cap 1..m
  <2>1. CommitsOf(k)' = CommitsOf(k) \/ CommitsOf(k)' = CommitsOf(k) \cup {n}
    BY <1>1, CommitsGrown
  <2>2. n \notin 1..m
    BY <1>2
  <2>. QED  BY <2>1, <2>2
<1>. DEFINE touched == [k \in Key |-> CommitsOf(k) \cap 1..m]
            last == [k \in Key |-> history[Max(touched[k])].revision]
<1>4. touched' = touched
  BY <1>3
<1>5. ASSUME NEW k \in Key, touched[k] # {}
      PROVE  history'[Max(touched[k])] = history[Max(touched[k])]
  <2>1. PICK T : T = touched[k]
    OBVIOUS
  <2>2. T \subseteq DOMAIN history /\ T \subseteq Nat /\ \A x \in T : x <= m
    BY <1>2, <2>1 DEF CommitsOf
  <2>3. \E x \in T : \A y \in T : y <= x
    BY <1>2, <1>5, <2>1, <2>2, LargestExists
  <2>4. PICK x \in T : \A y \in T : y <= x
    BY <2>3
  <2>5. Max(T) = x
    BY <2>2, <2>4, MaxIsLast
  <2>. QED  BY <1>2, <2>1, <2>2, <2>4, <2>5
<1>. QED  BY <1>4, <1>5, ZenonT(40) DEF RefsAfter

\* A snapshot that was genuine stays so.
LEMMA GenuineKept ==
  ASSUME StoreTyped, NEW e \in EventId, NEW r \in Nat, Remember(e, r),
         NEW s, Genuine(s)
  PROVE  Genuine(s)'
<1>1. PICK n : n = Len(history) + 1
  OBVIOUS
<1>2. PICK m \in Commits : AsOfCommit(s, m)
  BY DEF Genuine
<1>3. m \in DOMAIN history /\ Commits \subseteq DOMAIN history
  BY <1>2 DEF Commits
<1>4. /\ \A i \in DOMAIN history : history'[i] = history[i]
      /\ n \in Nat /\ m \in Nat /\ m < n
  BY <1>1, <1>3, Grown
<1>5. Commits' = Commits \/ Commits' = Commits \cup {n}
  BY <1>1, CommitsGrown
<1>6. RefsAfter(m)' = RefsAfter(m)
  BY <1>3, PastRefs
<1>7. ASSUME NEW i \in Commits', i <= m
      PROVE  i \in Commits /\ history'[i] = history[i]
  BY <1>3, <1>4, <1>5, <1>7
<1>8. AsOfCommit(s, m)'
  BY <1>2, <1>3, <1>4, <1>6, <1>7 DEF AsOfCommit
<1>. QED  BY <1>2, <1>5, <1>8 DEF Genuine

\* What a commit publishes is the twin as of that commit.
LEMMA CommitIsGenuine ==
  ASSUME StoreInv, NEW e \in EventId, Commit(e), StoreInv', NEW t \in Nat,
         NEW s, s = SnapshotOf(entities', revision', watermark', t)
  PROVE  Genuine(s)' /\ s \in Snapshot /\ s.revision = revision + 1
<1>1. PICK n : n = Len(history) + 1
  OBVIOUS
<1>2. Remember(e, revision + 1) /\ revision + 1 \in Nat /\ revision + 1 > 0 /\ StoreTyped
  BY DEF Commit, StoreInv, StoreTyped
<1>3. /\ DOMAIN history' = DOMAIN history \cup {n}
      /\ n \in Nat /\ \A i \in DOMAIN history : history'[i] = history[i]
      /\ history'[n].event = e /\ history'[n].revision = revision + 1
      /\ history' \in Seq(Memory) /\ Len(history') = n
  BY <1>1, <1>2, Grown
<1>4. n \in Commits'
  BY <1>1, <1>2, CommitsGrown
<1>5. RefsAfter(n)' = Refs(entities')
  BY <1>3, RefsNext DEF RefsInHistory
<1>6. \A i \in Commits' : Event[history'[i].event].observedAt <= watermark'
  BY DEF StoreInv, Traced
<1>7. s.revision = history'[n].revision /\ s.refs = RefsAfter(n)' /\ s.watermark = watermark'
  BY <1>3, <1>5 DEF SnapshotOf, Commit
<1>8. AsOfCommit(s, n)'
  BY <1>6, <1>7 DEF AsOfCommit
<1>9. s \in Snapshot
  <2>1. Refs(entities') \subseteq Key \X Nat
    BY DEF Refs, StoreInv, StoreTyped, Entity
  <2>2. watermark' \in Nat
    BY EventFields DEF Commit, Later, StoreInv, StoreTyped, NoTime
  <2>3. revision' \in Nat
    BY DEF StoreInv, StoreTyped
  <2>. QED  BY <2>1, <2>2, <2>3 DEF SnapshotOf, Snapshot
<1>10. s.revision = revision + 1
  BY DEF SnapshotOf, Commit
<1>. QED  BY <1>4, <1>8, <1>9, <1>10 DEF Genuine

\* A step that leaves the history alone leaves snapshots genuine.
LEMMA GenuineStays ==
  ASSUME UNCHANGED history, NEW s, Genuine(s)
  PROVE  Genuine(s)'
<1>1. Commits' = Commits /\ \A k : CommitsOf(k)' = CommitsOf(k)
  BY DEF Commits, CommitsOf
<1>2. \A n : RefsAfter(n)' = RefsAfter(n)
  BY <1>1 DEF RefsAfter
<1>. QED  BY <1>1, <1>2 DEF Genuine, AsOfCommit

\* An event that arrives.
LEMMA DeliverKeeps ==
  ASSUME IngestInv, NEW f \in Feed, NEW e \in EventId, Deliver(f, e)
  PROVE  IngestInv'
<1>1. StoreInv'
  BY StoreKept DEF IngestInv, StoreInv, StoreTyped, Deliver, twinVars
<1>2. QueuesTyped'
  BY DEF IngestInv, QueuesTyped, Deliver
<1>3. SnapshotsInv'
  BY GenuineStays DEF IngestInv, SnapshotsInv, Deliver, twinVars
<1>4. LossIsOnRecord'
  BY DEF IngestInv, LossIsOnRecord, Deliver, twinVars, Published, InFlight
<1>. QED  BY <1>1, <1>2, <1>3, <1>4 DEF IngestInv

\* A snapshot that goes out.
LEMMA SendKeeps ==
  ASSUME IngestInv, NEW f \in Feed, Send(f)
  PROVE  IngestInv'
<1>1. StoreInv' /\ UNCHANGED <<history, revision, failed, inbox>>
  BY StoreKept DEF IngestInv, StoreInv, StoreTyped, Send, twinVars
<1>2. PICK s \in sending[f] : published' = Append(published, s)
  BY DEF Send
<1>3. s \in Snapshot /\ sending[f] = {s}
  BY <1>2 DEF IngestInv, SnapshotsInv
<1>4. sending' = [sending EXCEPT ![f] = {}] /\ sending \in [Feed -> SUBSET Snapshot]
  BY DEF Send, IngestInv, QueuesTyped
<1>5. PICK n : n = Len(published) + 1
  OBVIOUS
<1>6. /\ published' \in Seq(Snapshot) /\ DOMAIN published' = DOMAIN published \cup {n}
      /\ \A a \in DOMAIN published : published'[a] = published[a] /\ a # n
      /\ published'[n] = s
  BY <1>2, <1>3, <1>5 DEF IngestInv, SnapshotsInv
<1>7. QueuesTyped'
  BY <1>1, <1>4 DEF IngestInv, QueuesTyped
<1>8. \A g \in Feed : sending'[g] \subseteq sending[g] /\ (g = f => sending'[g] = {})
  BY <1>4
<1>9. SnapshotsInv'
  <2>0. SnapshotsInv
    BY DEF IngestInv
  <2>1. /\ \A a \in DOMAIN published' :
             Genuine(published'[a]) /\ published'[a].revision <= revision'
        /\ \A g \in Feed : \A t \in sending'[g] : Genuine(t) /\ t.revision <= revision'
    BY <2>0, <1>1, <1>2, <1>6, <1>8 DEF SnapshotsInv
  <2>2. /\ \A a \in DOMAIN published' : Genuine(published[a])'
        /\ \A g \in Feed : \A t \in sending'[g] : Genuine(t)'
    <3>2. Commits' = Commits /\ \A k : CommitsOf(k)' = CommitsOf(k)
      BY <1>1 DEF Commits, CommitsOf
    <3>3. \A m : RefsAfter(m)' = RefsAfter(m)
      BY <1>1, <3>2 DEF RefsAfter
    <3>. QED  BY <1>1, <2>1, <3>2, <3>3 DEF Genuine, AsOfCommit
  <2>3. \A a, b \in DOMAIN published' :
          published'[a].revision = published'[b].revision => a = b
    BY <2>0, <1>2, <1>6 DEF SnapshotsInv
  <2>4. \A g \in Feed : \A t \in sending'[g] : \A a \in DOMAIN published' :
          published'[a].revision # t.revision
    BY <2>0, <1>2, <1>6, <1>8 DEF SnapshotsInv
  <2>5. \A g, h \in Feed : \A t \in sending'[g] : \A u \in sending'[h] :
          t.revision = u.revision => g = h
    BY <2>0, <1>8 DEF SnapshotsInv
  <2>6. \A g \in Feed : sending'[g] = {} \/ \E t \in Snapshot : sending'[g] = {t}
    BY <2>0, <1>4 DEF SnapshotsInv
  <2>. QED  BY <1>6, <2>1, <2>2, <2>3, <2>4, <2>5, <2>6 DEF SnapshotsInv
<1>10. LossIsOnRecord'
  <2>1. ASSUME NEW x, x \in Published \cup InFlight PROVE x \in (Published \cup InFlight)'
    <3>1. CASE x \in Published
      BY <1>6, <3>1 DEF Published
    <3>2. ASSUME NEW g \in Feed, NEW t \in sending[g], x = t.revision
          PROVE  x \in (Published \cup InFlight)'
      <4>1. CASE g = f
        <5>1. x = published'[n].revision /\ n \in DOMAIN published'
          BY <1>3, <1>6, <3>2, <4>1
        <5>. QED  BY <5>1 DEF Published
      <4>2. CASE g # f
        <5>1. t \in sending'[g]
          BY <1>4, <3>2, <4>2
        <5>. QED  BY <3>2, <5>1 DEF InFlight
      <4>. QED  BY <4>1, <4>2
    <3>. QED  BY <2>1, <3>1, <3>2 DEF InFlight
  <2>. QED  BY <1>1, <2>1 DEF IngestInv, LossIsOnRecord
<1>. QED  BY <1>1, <1>7, <1>9, <1>10 DEF IngestInv

\* A snapshot that does not go out leaves its feed failed.
LEMMA SendFailsKeeps ==
  ASSUME IngestInv, NEW f \in Feed, SendFails(f)
  PROVE  IngestInv'
<1>1. StoreInv' /\ UNCHANGED <<history, revision, published, inbox>>
  BY StoreKept DEF IngestInv, StoreInv, StoreTyped, SendFails, twinVars
<1>2. /\ sending' = [sending EXCEPT ![f] = {}] /\ sending \in [Feed -> SUBSET Snapshot]
      /\ failed' = [failed EXCEPT ![f] = TRUE] /\ failed \in [Feed -> BOOLEAN]
  BY DEF SendFails, IngestInv, QueuesTyped
<1>3. QueuesTyped'
  BY <1>1, <1>2 DEF IngestInv, QueuesTyped
<1>4. \A g \in Feed : sending'[g] \subseteq sending[g]
  BY <1>2
<1>5. SnapshotsInv'
  BY <1>1, <1>2, <1>4, GenuineStays DEF IngestInv, SnapshotsInv
<1>6. LossIsOnRecord'
  BY <1>2 DEF LossIsOnRecord
<1>. QED  BY <1>1, <1>3, <1>5, <1>6 DEF IngestInv

\* A worker's event that commits: the snapshot is new and genuine.
LEMMA HandleCommitKeeps ==
  ASSUME IngestInv, NEW f \in Feed, NEW e \in EventId, Commit(e), StoreInv',
         NEW s \in Snapshot, s.revision = revision + 1, Genuine(s)',
         sending[f] = {}, sending' = [sending EXCEPT ![f] = {s}], UNCHANGED published
  PROVE  SnapshotsInv'
<1>1. SnapshotsInv /\ StoreTyped /\ sending \in [Feed -> SUBSET Snapshot]
  BY DEF IngestInv, StoreInv, QueuesTyped
<1>2. Remember(e, revision + 1) /\ revision + 1 \in Nat
  BY <1>1 DEF Commit, StoreTyped
<1>3. revision' = revision + 1 /\ revision \in Nat
  BY <1>1 DEF Commit, StoreTyped
<1>4. \A t : Genuine(t) => Genuine(t)'
  BY <1>1, <1>2, GenuineKept
<1>5. /\ \A a \in DOMAIN published : published[a] \in Snapshot
      /\ published' = published
  BY <1>1 DEF SnapshotsInv
<1>6. \A t \in Snapshot : t.revision \in Nat
  BY DEF Snapshot
<1>7. ASSUME NEW g \in Feed, NEW t \in sending'[g]
      PROVE  /\ Genuine(t)' /\ t.revision <= revision' /\ t \in Snapshot
             /\ (g = f /\ t = s) \/ (g # f /\ t \in sending[g] /\ t.revision <= revision)
  <2>1. CASE g = f
    BY <1>1, <1>3, <1>7, <2>1
  <2>2. CASE g # f
    <3>1. t \in sending[g] /\ t \in Snapshot
      BY <1>1, <1>7, <2>2
    <3>2. Genuine(t) /\ t.revision <= revision /\ t.revision \in Nat
      BY <1>1, <1>6, <3>1 DEF SnapshotsInv
    <3>. QED  BY <1>3, <1>4, <2>2, <3>1, <3>2
  <2>. QED  BY <2>1, <2>2
<1>8. ASSUME NEW a \in DOMAIN published
      PROVE  /\ Genuine(published[a])' /\ published[a].revision <= revision
             /\ published[a].revision <= revision'
             /\ published[a].revision # s.revision
  <2>1. PICK t \in Snapshot : t = published[a]
    BY <1>5
  <2>2. Genuine(t) /\ t.revision <= revision /\ t.revision \in Nat
    BY <1>1, <1>6, <2>1 DEF SnapshotsInv
  <2>3. Genuine(t)'
    BY <1>4, <2>2
  <2>. QED  BY <1>3, <1>5, <2>1, <2>2, <2>3
<1>9. \A a \in DOMAIN published' :
        Genuine(published[a])' /\ published'[a].revision <= revision'
  BY <1>5, <1>8
<1>10. \A g \in Feed : \A t \in sending'[g] : \A a \in DOMAIN published' :
         published'[a].revision # t.revision
  BY <1>1, <1>5, <1>7, <1>8 DEF SnapshotsInv
<1>11. ASSUME NEW g \in Feed, NEW h \in Feed, NEW t \in sending'[g], NEW u \in sending'[h],
              t.revision = u.revision
       PROVE  g = h
  <2>1. t.revision \in Nat /\ u.revision \in Nat
    BY <1>6, <1>7
  <2>2. CASE g = f \/ h = f
    BY <1>3, <1>7, <1>11, <2>1, <2>2
  <2>3. CASE g # f /\ h # f
    BY <1>1, <1>7, <1>11, <2>3 DEF SnapshotsInv
  <2>. QED  BY <2>2, <2>3
<1>12. \A g \in Feed : sending'[g] = {} \/ \E t \in Snapshot : sending'[g] = {t}
  BY <1>1 DEF SnapshotsInv
<1>13. /\ published' \in Seq(Snapshot)
       /\ \A a, b \in DOMAIN published' :
            published'[a].revision = published'[b].revision => a = b
  BY <1>1, <1>5 DEF SnapshotsInv
<1>. QED  BY <1>7, <1>9, <1>10, <1>11, <1>12, <1>13 DEF SnapshotsInv

\* An event that publishes nothing leaves every snapshot as it was.
LEMMA HandleOtherKeeps ==
  ASSUME IngestInv, NEW e \in EventId, NEW r \in Nat,
         Remember(e, r) \/ UNCHANGED history,
         revision' = revision \/ revision' = revision + 1, UNCHANGED <<sending, published>>
  PROVE  SnapshotsInv'
<1>1. SnapshotsInv /\ StoreTyped
  BY DEF IngestInv, StoreInv
<1>2. \A t : Genuine(t) => Genuine(t)'
  BY <1>1, GenuineStays, GenuineKept
<1>3. revision \in Nat /\ sending \in [Feed -> SUBSET Snapshot]
  BY DEF IngestInv, StoreInv, StoreTyped, QueuesTyped
<1>4. \A t \in Snapshot : t.revision \in Nat /\ (t.revision <= revision => t.revision <= revision')
  BY <1>3 DEF Snapshot
<1>5. \A a \in DOMAIN published : published[a] \in Snapshot
  BY <1>1 DEF SnapshotsInv
<1>6. \A a \in DOMAIN published :
        Genuine(published[a])' /\ published[a].revision <= revision'
  <2>1. ASSUME NEW t \in Snapshot, NEW a \in DOMAIN published, t = published[a]
        PROVE  Genuine(published[a])' /\ published[a].revision <= revision'
    BY <1>1, <1>2, <1>4, <2>1 DEF SnapshotsInv
  <2>. QED  BY <1>5, <2>1
<1>7. \A f \in Feed : \A t \in sending[f] : Genuine(t)' /\ t.revision <= revision'
  BY <1>1, <1>2, <1>3, <1>4 DEF SnapshotsInv
<1>. QED  BY <1>1, <1>6, <1>7 DEF SnapshotsInv

\* A worker's event, whatever becomes of it.
LEMMA HandleKeeps ==
  ASSUME IngestInv, NEW f \in Feed, Handle(f)
  PROVE  IngestInv'
<1>1. StoreInv /\ QueuesTyped /\ SnapshotsInv /\ LossIsOnRecord
  BY DEF IngestInv
<1>2. PICK e \in EventId : e = Head(inbox[f])
  BY DEF Handle, IngestInv, QueuesTyped
<1>3. /\ sending[f] = {} /\ Apply(e)
      /\ inbox' = [inbox EXCEPT ![f] = Tail(@)]
      /\ failed' = [failed EXCEPT ![f] = @ \/ outcome' = "error"]
      /\ UNCHANGED published
  BY <1>2 DEF Handle
<1>4. PICK s : s = SnapshotOf(entities', revision', watermark', Event[e].receivedAt)
  OBVIOUS
<1>5. sending' = [sending EXCEPT ![f] = IF outcome' = "applied" THEN {s} ELSE {}]
  BY <1>2, <1>4 DEF Handle
<1>6. StoreInv'
  BY <1>1, <1>3, ApplyKeeps
<1>7. failed' \in [Feed -> BOOLEAN] /\ \A g \in Feed : failed[g] => failed'[g]
  BY <1>1, <1>3 DEF QueuesTyped
<1>8. inbox' \in [Feed -> Seq(EventId)]
  <2>1. Tail(inbox[f]) \in Seq(EventId)
    BY <1>1 DEF Handle, QueuesTyped
  <2>. QED  BY <1>1, <1>3, <2>1 DEF QueuesTyped
<1>9. CASE Commit(e) /\ outcome' = "applied"
  <2>1. s \in Snapshot /\ s.revision = revision + 1 /\ Genuine(s)'
    BY <1>1, <1>4, <1>6, <1>9, CommitIsGenuine, EventFields
  <2>2. sending' = [sending EXCEPT ![f] = {s}] /\ sending \in [Feed -> SUBSET Snapshot]
    BY <1>1, <1>5, <1>9 DEF QueuesTyped
  <2>3. SnapshotsInv'
    BY <1>3, <1>6, <1>9, <2>1, <2>2, HandleCommitKeeps
  <2>4. QueuesTyped'
    BY <1>7, <1>8, <2>1, <2>2 DEF QueuesTyped
  <2>5. ASSUME NEW x \in Published \cup InFlight PROVE x \in (Published \cup InFlight)'
    <3>1. CASE x \in Published
      BY <1>3, <3>1 DEF Published
    <3>2. ASSUME NEW g \in Feed, NEW t \in sending[g], x = t.revision
          PROVE  x \in (Published \cup InFlight)'
      <4>1. t \in sending'[g]
        BY <1>3, <2>2, <3>2
      <4>. QED  BY <3>2, <4>1 DEF InFlight
    <3>. QED  BY <3>1, <3>2 DEF InFlight
  <2>6. revision' \in InFlight'
    <3>1. s \in sending'[f] /\ s.revision = revision'
      BY <1>9, <2>1, <2>2 DEF Commit
    <3>. QED  BY <3>1 DEF InFlight
  <2>7. revision' = revision + 1 /\ revision \in Nat
    BY <1>1, <1>9 DEF Commit, StoreInv, StoreTyped
  <2>8. LossIsOnRecord'
    <3>1. ASSUME NEW x \in 1..revision'
          PROVE  x \in (Published \cup InFlight)' \/ \E g \in Feed : failed'[g]
      <4>1. CASE x = revision'
        BY <2>6, <4>1
      <4>2. CASE x \in 1..revision
        BY <1>1, <1>7, <2>5, <4>2 DEF LossIsOnRecord
      <4>. QED  BY <2>7, <4>1, <4>2
    <3>. QED  BY <3>1 DEF LossIsOnRecord
  <2>. QED  BY <1>6, <2>3, <2>4, <2>8 DEF IngestInv
<1>10. CASE ~(Commit(e) /\ outcome' = "applied")
  <2>1. outcome' # "applied"
    BY <1>3, <1>10 DEF Apply, Duplicate, Refuse, RejectLate, Report
  <2>2. sending' = sending
    BY <1>1, <1>3, <1>5, <2>1 DEF QueuesTyped
  <2>3. QueuesTyped'
    BY <1>1, <1>7, <1>8, <2>2 DEF QueuesTyped
  <2>4. CASE Commit(e)
    <3>1. Remember(e, revision + 1) /\ revision + 1 \in Nat
      BY <1>1, <2>4 DEF Commit, StoreInv, StoreTyped
    <3>2. revision' = revision + 1
      BY <2>4 DEF Commit
    <3>3. SnapshotsInv'
      BY <1>3, <2>2, <3>1, <3>2, HandleOtherKeeps
    <3>4. failed'[f]
      BY <1>1, <1>3, <2>1, <2>4 DEF Commit, Report, QueuesTyped
    <3>5. LossIsOnRecord'
      BY <3>4 DEF LossIsOnRecord
    <3>. QED  BY <1>6, <2>3, <3>3, <3>5 DEF IngestInv
  <2>5. CASE Duplicate(e) \/ Refuse(e) \/ RejectLate(e)
    <3>1. revision' = revision /\ (Remember(e, 0) \/ UNCHANGED history)
      BY <2>5 DEF Duplicate, Refuse, RejectLate
    <3>2. SnapshotsInv'
      BY <1>3, <2>2, <3>1, HandleOtherKeeps
    <3>3. Published' = Published /\ InFlight' = InFlight
      BY <1>3, <2>2 DEF Published, InFlight
    <3>4. LossIsOnRecord'
      BY <1>1, <1>7, <3>1, <3>3 DEF LossIsOnRecord
    <3>. QED  BY <1>6, <2>3, <3>2, <3>4 DEF IngestInv
  <2>. QED  BY <1>3, <2>4, <2>5 DEF Apply
<1>. QED  BY <1>9, <1>10

LEMMA IngestKept == IngestInv /\ [IngestNext]_ingestVars => IngestInv'
<1>. SUFFICES ASSUME IngestInv, [IngestNext]_ingestVars PROVE IngestInv'
  OBVIOUS
<1>1. CASE UNCHANGED ingestVars
  <2>1. StoreInv'
    BY <1>1, StoreKept DEF IngestInv, StoreInv, StoreTyped, ingestVars, twinVars
  <2>2. SnapshotsInv'
    BY <1>1, GenuineStays DEF IngestInv, SnapshotsInv, ingestVars, twinVars
  <2>. QED  BY <1>1, <2>1, <2>2 DEF IngestInv, QueuesTyped, LossIsOnRecord, Published,
              InFlight, ingestVars, twinVars
<1>. QED  BY <1>1, DeliverKeeps, HandleKeeps, SendKeeps, SendFailsKeeps DEF IngestNext

LEMMA IngestStarts == IngestInit => IngestInv
<1>. SUFFICES ASSUME IngestInit PROVE IngestInv
  OBVIOUS
<1>1. StoreInv
  BY StoreStarts DEF IngestInit
<1>2. revision = 0
  BY DEF IngestInit, TwinInit
<1>. QED  BY <1>1, <1>2 DEF IngestInit, IngestInv, QueuesTyped, SnapshotsInv, LossIsOnRecord

(* Store, queues and snapshots in every reachable state.                   *)
THEOREM TwinInvariant == IngestSpec => []IngestInv
BY IngestStarts, IngestKept, PTL DEF IngestSpec

(* The types of the store, for any number of topics.                       *)
THEOREM TwinTyped == IngestSpec => []TwinTypeOK
<1>1. IngestInv => TwinTypeOK
  BY DEF IngestInv, StoreInv, StoreTyped, TwinTypeOK
<1>. QED  BY <1>1, TwinInvariant, PTL

(* Every entity is what the last commit that touched it says, and the      *)
(* revisions count the commits.                                            *)
THEOREM TwinTraceable == IngestSpec => []EntitiesTraceable
<1>1. IngestInv => EntitiesTraceable
  BY InvIsTraceable DEF IngestInv
<1>. QED  BY <1>1, TwinInvariant, PTL

(* An event is taken twice only after as many others as the window holds.  *)
THEOREM WindowHolds == IngestSpec => []TakenOncePerWindow
<1>1. IngestInv => TakenOncePerWindow
  BY DEF IngestInv, StoreInv
<1>. QED  BY <1>1, TwinInvariant, PTL

(* Every published snapshot is the twin as of one commit, whatever the     *)
(* other workers did before it went out, and no revision is published      *)
(* twice.                                                                  *)
THEOREM SnapshotsGenuine == IngestSpec => []SnapshotsAreRevisions
<1>1. IngestInv => SnapshotsAreRevisions
  BY DEF IngestInv, SnapshotsInv, SnapshotsAreRevisions, Genuine, AsOfCommit
<1>. QED  BY <1>1, TwinInvariant, PTL

(* A revision that is neither published nor in flight leaves a failure on  *)
(* record.                                                                 *)
THEOREM NoSilentLoss == IngestSpec => []LossIsOnRecord
<1>1. IngestInv => LossIsOnRecord
  BY DEF IngestInv
<1>. QED  BY <1>1, TwinInvariant, PTL
=============================================================================
