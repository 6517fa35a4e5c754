---------------------------- MODULE ConsoleProofs ----------------------------
(***************************************************************************)
(* Proofs about the operator console, for any sources, events, recordings, *)
(* snapshots and capacities, and any way of losing, repeating and          *)
(* reordering what is delivered.                                           *)
(***************************************************************************)
EXTENDS Console, TLAPS, SequenceTheorems, FiniteSetTheorems, WellFoundedInduction

-----------------------------------------------------------------------------
(* A store s is sound for the deliveries d of which those after the first  *)
(* b are of this session.  The replay controller's stores and those within *)
(* apply_snapshot() are sound too, so s, d and b need not be the state's.  *)

ConnectionState ==
  {"DISCONNECTED", "CONNECTING", "SYNCING", "LIVE", "DEGRADED", "REPLAY"}

Projection == [event: EventId, at: Nat]

Store ==
  [mode: Mode, connection: ConnectionState, complete: BOOLEAN, cursor: Nat,
   invalid: Nat, archived: Nat, seen: [Source -> Nat \cup {Unseen}],
   updates: Nat, entities: UNION {[K -> Projection] : K \in SUBSET Key}]

Session(d, b) == (b + 1)..Len(d)

\* As SameSource, Fresh and Updates, of any deliveries.
Alike(d, m, j, e) == Event[d[j]].mode = m /\ Event[d[j]].source = Event[e].source

IsFresh(d, b, m, i) ==
  /\ Event[d[i]].mode = m
  /\ \A j \in (b + 1)..(i - 1) :
       Alike(d, m, j, d[i]) => Event[d[j]].sequence < Event[d[i]].sequence

IsUpdate(d, b, m, k, i) ==
  /\ i \in Session(d, b) /\ IsFresh(d, b, m, i)
  /\ Event[d[i]].projectable /\ k \in Range(Event[d[i]].keys)

IsLast(d, b, m, k, i) ==
  IsUpdate(d, b, m, k, i) /\ \A j \in Session(d, b) : IsUpdate(d, b, m, k, j) => j <= i

\* The number known of a source is the highest it delivered.
SeenSound(s, d, b) ==
  \A src \in Source :
    /\ \A i \in Session(d, b) :
         Event[d[i]].mode = s.mode /\ Event[d[i]].source = src
           => Event[d[i]].sequence <= s.seen[src]
    /\ s.seen[src] = Unseen
       \/ \E i \in Session(d, b) : /\ Event[d[i]].mode = s.mode
                                  /\ Event[d[i]].source = src
                                  /\ Event[d[i]].sequence = s.seen[src]

\* What is kept is of the last updates, and in their order.
KeptSound(es, u, d, b, m) ==
  /\ IsFiniteSet(DOMAIN es)
  /\ \A k \in DOMAIN es :
       /\ es[k].at <= u
       /\ \E i \in Session(d, b) : IsLast(d, b, m, k, i) /\ es[k].event = d[i]
  /\ \A k, l \in DOMAIN es : \A i, j \in Session(d, b) :
       IsLast(d, b, m, k, i) /\ IsLast(d, b, m, l, j) /\ i < j => es[k].at < es[l].at

\* What is missing had to leave for what was updated no earlier.
MissingSound(es, d, b, m) ==
  \A k \in Key \ DOMAIN es : \A i \in Session(d, b) :
    IsLast(d, b, m, k, i) =>
      LET class == Class(es, Event[d[i]].critical) IN
      /\ Cardinality(class) = Room(Event[d[i]].critical)
      /\ \A l \in class : \A j \in Session(d, b) : IsLast(d, b, m, l, j) => j >= i

\* The critical entities that are missing.
Archived(es, d, b, m) ==
  {k \in Key \ DOMAIN es :
     \E i \in Session(d, b) : IsLast(d, b, m, k, i) /\ Event[d[i]].critical}

EntitiesSound(s, d, b) ==
  /\ KeptSound(s.entities, s.updates, d, b, s.mode)
  /\ \A c \in BOOLEAN : Cardinality(Class(s.entities, c)) <= Room(c)
  /\ MissingSound(s.entities, d, b, s.mode)
  /\ IsFiniteSet(Archived(s.entities, d, b, s.mode))
  /\ Cardinality(Archived(s.entities, d, b, s.mode)) <= s.archived

StoreSound(s, d, b) == s \in Store /\ SeenSound(s, d, b) /\ EntitiesSound(s, d, b)

(* The invariant of the console.                                           *)
LiveInv == store.connection = "LIVE" => Live /\ store.complete /\ Unbroken

ReplayInv ==
  ~Live => base = 0 /\ position \in 0..Len(Recording) /\ store = Stepped[position]

ConsoleInv ==
  /\ delivered \in Seq(EventId) /\ base \in 0..Len(delivered) /\ syncedAt \in Nat
  /\ StoreSound(store, delivered, base)
  /\ LiveInv /\ ReplayInv

-----------------------------------------------------------------------------
\* The fields of an event.
LEMMA EventFields ==
  ASSUME NEW e \in EventId
  PROVE  /\ Event[e].mode \in Mode /\ Event[e].source \in Source
         /\ Event[e].sequence \in Nat /\ Event[e].keys \in Seq(Key)
         /\ Event[e].critical \in BOOLEAN /\ Event[e].projectable \in BOOLEAN
         /\ Event[e].receivedAt \in Nat /\ Len(Event[e].keys) \in Nat
<1>1. Event[e] \in EventRecord
  BY UiAssumption
<1>2. Event[e].keys \in Seq(Key)
  BY <1>1 DEF EventRecord
<1>. QED  BY <1>1, <1>2 DEF EventRecord

\* The keys of an event are finitely many keys.
LEMMA KeysTyped ==
  ASSUME NEW e \in EventId
  PROVE  Range(Event[e].keys) \subseteq Key /\ IsFiniteSet(Range(Event[e].keys))
<1>. DEFINE q == Event[e].keys
<1>1. q \in Seq(Key) /\ Len(q) \in Nat /\ DOMAIN q = 1..Len(q)
  BY EventFields
<1>2. Range(q) \subseteq Key
  BY <1>1 DEF Range
<1>3. IsFiniteSet(1..Len(q))
  <2>1. 1 \in Int /\ Len(q) \in Int
    BY <1>1
  <2>. QED  BY <2>1, FS_Interval
<1>4. q \in Surjection(1..Len(q), Range(q))
  BY <1>1 DEF Surjection, Range
<1>5. IsFiniteSet(Range(q))
  BY <1>3, <1>4, FS_Surjection
<1>. QED  BY <1>2, <1>5

\* One more delivery leaves those before it as they are.
LEMMA Delivered ==
  ASSUME NEW d \in Seq(EventId), NEW e \in EventId, NEW b \in 0..Len(d)
  PROVE  /\ Append(d, e) \in Seq(EventId) /\ Len(Append(d, e)) = Len(d) + 1
         /\ Append(d, e)[Len(d) + 1] = e
         /\ \A i \in 1..Len(d) : Append(d, e)[i] = d[i]
         /\ \A i \in 1..Len(d) : d[i] \in EventId
         /\ Session(Append(d, e), b) = Session(d, b) \cup {Len(d) + 1}
         /\ Session(d, b) \subseteq 1..Len(d) /\ Len(d) + 1 \notin Session(d, b)
<1>1. /\ Append(d, e) \in Seq(EventId) /\ Len(Append(d, e)) = Len(d) + 1
      /\ Append(d, e)[Len(d) + 1] = e
      /\ \A i \in 1..Len(d) : Append(d, e)[i] = d[i]
  BY AppendProperties
<1>2. \A i \in 1..Len(d) : d[i] \in EventId
  OBVIOUS
<1>3. Len(d) \in Nat /\ b \in Nat /\ b <= Len(d)
  OBVIOUS
<1>4. /\ (b + 1)..(Len(d) + 1) = (b + 1)..Len(d) \cup {Len(d) + 1}
      /\ (b + 1)..Len(d) \subseteq 1..Len(d) /\ Len(d) + 1 \notin (b + 1)..Len(d)
  BY ONLY <1>3
<1>. QED  BY <1>1, <1>2, <1>4 DEF Session

\* What was fresh stays so, whatever comes.
LEMMA FreshStays ==
  ASSUME NEW d \in Seq(EventId), NEW e \in EventId, NEW b \in 0..Len(d), NEW m,
         NEW i \in Session(d, b)
  PROVE  IsFresh(Append(d, e), b, m, i) <=> IsFresh(d, b, m, i)
<1>1. i \in 1..Len(d) /\ \A j \in (b + 1)..(i - 1) : j \in 1..Len(d)
  BY DEF Session
<1>2. \A j \in 1..Len(d) : Append(d, e)[j] = d[j]
  BY Delivered
<1>. QED  BY <1>1, <1>2 DEF IsFresh, Alike

\* A delivery is fresh when its number is beyond the one known.
LEMMA FreshIsNewer ==
  ASSUME NEW d \in Seq(EventId), NEW e \in EventId, NEW b \in 0..Len(d),
         NEW s \in Store, SeenSound(s, d, b)
  PROVE  IsFresh(Append(d, e), b, s.mode, Len(d) + 1) <=>
           /\ Event[e].mode = s.mode
           /\ s.seen[Event[e].source] = Unseen
              \/ Event[e].sequence > s.seen[Event[e].source]
<1>. DEFINE src == Event[e].source
            before == {j \in Session(d, b) : Event[d[j]].mode = s.mode
                                             /\ Event[d[j]].source = src}
<1>1. /\ src \in Source /\ Event[e].sequence \in Nat
      /\ \A j \in Session(d, b) : d[j] \in EventId /\ Event[d[j]].sequence \in Nat
  BY EventFields, Delivered
<1>2. s.seen[src] \in Nat \cup {Unseen}
  BY <1>1 DEF Store
<1>3. /\ \A i \in before : Event[d[i]].sequence <= s.seen[src]
      /\ s.seen[src] = Unseen \/ \E i \in before : Event[d[i]].sequence = s.seen[src]
  BY <1>1 DEF SeenSound
<1>4. /\ Append(d, e)[Len(d) + 1] = e /\ Session(d, b) = (b + 1)..((Len(d) + 1) - 1)
      /\ \A j \in Session(d, b) : Append(d, e)[j] = d[j]
  BY Delivered DEF Session
<1>5. IsFresh(Append(d, e), b, s.mode, Len(d) + 1) <=>
        /\ Event[e].mode = s.mode
        /\ \A j \in before : Event[d[j]].sequence < Event[e].sequence
  BY <1>4 DEF IsFresh, Alike
<1>6. (\A j \in before : Event[d[j]].sequence < Event[e].sequence) <=>
        s.seen[src] = Unseen \/ Event[e].sequence > s.seen[src]
  <2>1. \A j \in before : Event[d[j]].sequence \in Nat
    BY <1>1
  <2>. HIDE DEF before, src
  <2>. QED  BY <1>1, <1>2, <1>3, <2>1 DEF Unseen
<1>. QED  BY <1>5, <1>6

\* A delivery updates the entities of its keys if it is fresh and readable.
LEMMA UpdatesAppend ==
  ASSUME NEW d \in Seq(EventId), NEW e \in EventId, NEW b \in 0..Len(d), NEW m, NEW k
  PROVE  /\ \A i \in Session(d, b) :
              IsUpdate(Append(d, e), b, m, k, i) <=> IsUpdate(d, b, m, k, i)
         /\ IsUpdate(Append(d, e), b, m, k, Len(d) + 1) <=>
              /\ IsFresh(Append(d, e), b, m, Len(d) + 1)
              /\ Event[e].projectable /\ k \in Range(Event[e].keys)
<1>. DEFINE D == Append(d, e)
<1>1. ASSUME NEW i \in Session(d, b)
      PROVE  IsUpdate(D, b, m, k, i) <=> IsUpdate(d, b, m, k, i)
  <2>1. i \in Session(D, b) /\ D[i] = d[i]
    BY <1>1, Delivered
  <2>2. IsFresh(D, b, m, i) <=> IsFresh(d, b, m, i)
    BY <1>1, FreshStays
  <2>. QED  BY <1>1, <2>1, <2>2 DEF IsUpdate
<1>2. Len(d) + 1 \in Session(D, b) /\ D[Len(d) + 1] = e
  BY Delivered
<1>. QED  BY <1>1, <1>2 DEF IsUpdate

\* What the last update of an entity is, after one more delivery.
LEMMA LastAppend ==
  ASSUME NEW d \in Seq(EventId), NEW e \in EventId, NEW b \in 0..Len(d), NEW m, NEW k,
         NEW i
  PROVE  IsLast(Append(d, e), b, m, k, i) <=>
           IF IsUpdate(Append(d, e), b, m, k, Len(d) + 1) THEN i = Len(d) + 1
           ELSE IsLast(d, b, m, k, i)
<1>. DEFINE D == Append(d, e)
            n == Len(d) + 1
<1>1. /\ Session(D, b) = Session(d, b) \cup {n} /\ n \notin Session(d, b)
      /\ \A j \in Session(d, b) : j \in Nat /\ j < n
      /\ n \in Nat
  BY Delivered DEF Session
<1>2. \A j \in Session(d, b) : IsUpdate(D, b, m, k, j) <=> IsUpdate(d, b, m, k, j)
  BY UpdatesAppend
<1>3. /\ \A j : IsUpdate(D, b, m, k, j) => j \in Session(D, b)
      /\ \A j : IsUpdate(d, b, m, k, j) => j \in Session(d, b)
  BY DEF IsUpdate
<1>. HIDE DEF D, n
<1>4. CASE IsUpdate(D, b, m, k, n)
  <2>1. ASSUME IsLast(D, b, m, k, i) PROVE i = n
    <3>1. i \in Session(D, b) /\ n <= i
      BY <1>1, <1>3, <1>4, <2>1 DEF IsLast
    <3>. QED  BY <1>1, <3>1
  <2>2. ASSUME i = n PROVE IsLast(D, b, m, k, i)
    <3>1. \A j \in Session(D, b) : j <= n
      BY <1>1
    <3>. QED  BY <1>4, <2>2, <3>1 DEF IsLast
  <2>. QED  BY <1>4, <2>1, <2>2 DEF D, n
<1>5. CASE ~IsUpdate(D, b, m, k, n)
  <2>1. \A j \in Session(D, b) : IsUpdate(D, b, m, k, j) => j \in Session(d, b)
    BY <1>1, <1>5
  <2>2. IsLast(D, b, m, k, i) <=> IsLast(d, b, m, k, i)
    BY <1>1, <1>2, <1>3, <2>1 DEF IsLast
  <2>. QED  BY <1>5, <2>2 DEF D, n
<1>. QED  BY <1>4, <1>5

\* There is one last update at most.
LEMMA LastIsOne ==
  ASSUME NEW d \in Seq(EventId), NEW b \in 0..Len(d), NEW m, NEW k, NEW i, NEW j,
         IsLast(d, b, m, k, i), IsLast(d, b, m, k, j)
  PROVE  i = j
<1>1. i \in Session(d, b) /\ j \in Session(d, b) /\ i <= j /\ j <= i
  BY DEF IsLast, IsUpdate
<1>2. i \in Int /\ j \in Int
  BY <1>1 DEF Session
<1>. QED  BY <1>1, <1>2

-----------------------------------------------------------------------------
(* What apply() notes of a source.                                         *)

\* The kinds of what apply() makes of an event.
IsLate(s, e) ==
  /\ Event[e].mode = s.mode /\ s.seen[Event[e].source] # Unseen
  /\ Event[e].sequence <= s.seen[Event[e].source]

Takes(s, e) == Event[e].mode = s.mode /\ ~IsLate(s, e)

LEMMA ApplyCases ==
  ASSUME NEW s \in Store, NEW e \in EventId
  PROVE  /\ Event[e].mode # s.mode => Apply(s, e) = [s EXCEPT !.invalid = @ + 1]
         /\ IsLate(s, e) => Apply(s, e) = s
         /\ Takes(s, e) /\ ~Event[e].projectable
              => Apply(s, e) = [Noted(s, Event[e]) EXCEPT !.invalid = @ + 1]
         /\ Takes(s, e) /\ Event[e].projectable
              => Apply(s, e) = Show(Noted(s, Event[e]), e)
BY DEF Apply, IsLate, Takes

LEMMA NotedTyped ==
  ASSUME NEW s \in Store, NEW e \in EventId
  PROVE  LET t == Noted(s, Event[e]) IN
         /\ t \in Store
         /\ t.seen = [s.seen EXCEPT ![Event[e].source] = Event[e].sequence]
         /\ t.mode = s.mode /\ t.entities = s.entities /\ t.updates = s.updates
         /\ t.archived = s.archived /\ t.cursor = s.cursor /\ t.invalid = s.invalid
         /\ LET gap == /\ s.seen[Event[e].source] # Unseen
                       /\ Event[e].sequence > s.seen[Event[e].source] + 1
            IN  /\ t.connection = IF gap THEN "SYNCING" ELSE s.connection
                /\ t.complete = IF gap THEN FALSE ELSE s.complete
BY EventFields DEF Noted, Connection, Store, ConnectionState

\* What is known of the sources, once the number is noted or was known.
LEMMA SeenKept ==
  ASSUME NEW d \in Seq(EventId), NEW e \in EventId, NEW b \in 0..Len(d),
         NEW s \in Store, SeenSound(s, d, b), NEW t, t.mode = s.mode,
         t.seen = IF Takes(s, e)
                  THEN [s.seen EXCEPT ![Event[e].source] = Event[e].sequence] ELSE s.seen
  PROVE  SeenSound(t, Append(d, e), b)
<1>. DEFINE D == Append(d, e)
<1>1. /\ Session(D, b) = Session(d, b) \cup {Len(d) + 1} /\ D[Len(d) + 1] = e
      /\ \A i \in Session(d, b) : D[i] = d[i] /\ d[i] \in EventId
  BY Delivered
<1>2. /\ s.seen \in [Source -> Nat \cup {Unseen}] /\ Event[e].sequence \in Nat
      /\ Event[e].source \in Source
      /\ \A i \in Session(d, b) : Event[d[i]].sequence \in Nat
  BY <1>1, EventFields DEF Store
<1>. HIDE DEF D
<1>3. SUFFICES ASSUME NEW src \in Source
      PROVE  /\ \A i \in Session(D, b) :
                  Event[D[i]].mode = t.mode /\ Event[D[i]].source = src
                    => Event[D[i]].sequence <= t.seen[src]
             /\ t.seen[src] = Unseen
                \/ \E i \in Session(D, b) : /\ Event[D[i]].mode = t.mode
                                           /\ Event[D[i]].source = src
                                           /\ Event[D[i]].sequence = t.seen[src]
  BY DEF SeenSound, D
<1>4. /\ \A i \in Session(d, b) :
           Event[d[i]].mode = s.mode /\ Event[d[i]].source = src
             => Event[d[i]].sequence <= s.seen[src]
      /\ s.seen[src] = Unseen
         \/ \E i \in Session(d, b) : /\ Event[d[i]].mode = s.mode
                                    /\ Event[d[i]].source = src
                                    /\ Event[d[i]].sequence = s.seen[src]
  BY DEF SeenSound
<1>5. CASE Takes(s, e) /\ src = Event[e].source
  <2>1. t.seen[src] = Event[e].sequence /\ Event[e].mode = s.mode
    BY <1>2, <1>5 DEF Takes
  <2>2. s.seen[src] = Unseen \/ Event[e].sequence > s.seen[src]
    BY <1>2, <1>5 DEF Takes, IsLate, Unseen
  <2>3. ASSUME NEW i \in Session(d, b), Event[d[i]].mode = s.mode, Event[d[i]].source = src
        PROVE  Event[d[i]].sequence <= Event[e].sequence
    <3>1. Event[d[i]].sequence <= s.seen[src] /\ Event[d[i]].sequence \in Nat
      BY <1>2, <1>4, <2>3
    <3>2. s.seen[src] # Unseen
      BY <1>2, <3>1 DEF Unseen
    <3>. QED  BY <1>2, <2>2, <3>1, <3>2
  <2>. QED  BY <1>1, <1>2, <1>5, <2>1, <2>3
<1>6. CASE ~(Takes(s, e) /\ src = Event[e].source)
  <2>1. t.seen[src] = s.seen[src]
    BY <1>2, <1>6
  <2>2. Event[e].mode = s.mode /\ Event[e].source = src => Event[e].sequence <= s.seen[src]
    BY <1>6 DEF Takes, IsLate
  <2>. QED  BY <1>1, <1>4, <2>1, <2>2
<1>. QED  BY <1>5, <1>6

-----------------------------------------------------------------------------
(* What the two _trim methods keep.                                        *)

\* A nonempty set of naturals has a smallest element.
LEMMA FirstExists ==
  ASSUME NEW T \in SUBSET Nat, T # {}
  PROVE  \E x \in T : \A y \in T : x <= y
<1>. DEFINE R == OpToRel(<, Nat)
<1>1. IsWellFoundedOn(R, Nat)
  BY NatLessThanWellFounded
<1>2. \A x, y \in Nat : y < x => <<y, x>> \in R
  BY DEF OpToRel
<1>. HIDE DEF R
<1>3. PICK x \in T : \A y \in T : ~(<<y, x>> \in R)
  BY <1>1, WFMin
<1>4. ASSUME NEW y \in T PROVE x <= y
  <2>1. ~(y < x)
    BY <1>2, <1>3
  <2>. QED  BY <2>1
<1>. QED  BY <1>4

\* Of entities with numbers up to u one was updated last.
LEMMA HighestExists ==
  ASSUME NEW es, NEW u \in Nat, NEW C, C # {},
         \A k \in C : es[k].at \in Nat /\ es[k].at <= u
  PROVE  \E k \in C : \A l \in C : es[l].at <= es[k].at
<1>. DEFINE U == {x \in Nat : \A k \in C : es[k].at <= x}
<1>1. PICK v \in U : \A x \in U : v <= x
  <2>1. u \in U
    OBVIOUS
  <2>. HIDE DEF U
  <2>2. U \subseteq Nat
    BY DEF U
  <2>. QED  BY <2>1, <2>2, FirstExists
<1>2. \E k \in C : es[k].at = v
  <2>. SUFFICES ASSUME \A k \in C : es[k].at # v PROVE FALSE
    OBVIOUS
  <2>1. \A k \in C : es[k].at < v
    BY <1>1
  <2>2. v - 1 \in U
    BY <1>1, <2>1
  <2>. QED  BY <1>1, <2>2
<1>. QED  BY <1>1, <1>2

\* Of every number of entities there are the most recent.
LEMMA RecentExist ==
  ASSUME NEW es, NEW u \in Nat, NEW C, IsFiniteSet(C),
         \A k \in C : es[k].at \in Nat /\ es[k].at <= u,
         NEW n \in Nat, n <= Cardinality(C)
  PROVE  \E kept \in SUBSET C :
           /\ Cardinality(kept) = n
           /\ \A k \in kept, l \in C \ kept : es[l].at <= es[k].at
<1>. DEFINE Recent(x) == \E kept \in SUBSET C :
                           /\ Cardinality(kept) = x
                           /\ \A k \in kept, l \in C \ kept : es[l].at <= es[k].at
            Bad == {x \in Nat : x <= Cardinality(C) /\ ~Recent(x)}
<1>1. SUFFICES ASSUME Bad # {} PROVE FALSE
  OBVIOUS
<1>2. PICK x \in Bad : \A y \in Bad : x <= y
  <2>. HIDE DEF Bad
  <2>1. Bad \subseteq Nat
    BY DEF Bad
  <2>. QED  BY <1>1, <2>1, FirstExists
<1>3. Recent(0)
  BY FS_EmptySet
<1>4. x # 0 /\ x \in Nat /\ x <= Cardinality(C) /\ ~Recent(x)
  BY <1>2, <1>3
<1>5. Recent(x - 1)
  <2>1. x - 1 \in Nat /\ x - 1 <= Cardinality(C) /\ x - 1 \notin Bad
    <3>1. Cardinality(C) \in Nat
      BY FS_CardinalityType
    <3>. HIDE DEF Bad, Recent
    <3>. QED  BY <1>2, <1>4, <3>1
  <2>. QED  BY <2>1
<1>6. PICK old \in SUBSET C :
        /\ Cardinality(old) = x - 1
        /\ \A k \in old, l \in C \ old : es[l].at <= es[k].at
  BY <1>5
<1>7. C \ old # {}
  <2>1. Cardinality(C) \in Nat /\ old # C
    BY <1>4, <1>6, FS_CardinalityType
  <2>. QED  BY <2>1
<1>8. PICK h \in C \ old : \A l \in C \ old : es[l].at <= es[h].at
  BY <1>7, HighestExists
<1>9. Cardinality(old \cup {h}) = x
  <2>1. IsFiniteSet(old)
    BY FS_Subset
  <2>2. Cardinality(old \cup {h}) = Cardinality(old) + 1
    BY <1>8, <2>1, FS_AddElement
  <2>. QED  BY <1>4, <1>6, <2>2
<1>10. \A k \in old \cup {h}, l \in C \ (old \cup {h}) : es[l].at <= es[k].at
  BY <1>6, <1>8
<1>11. Recent(x)
  <2>1. old \cup {h} \in SUBSET C
    BY <1>8
  <2>. QED  BY <1>9, <1>10, <2>1
<1>. QED  BY <1>4, <1>11

(* What is kept of a class: as many as there is room for, and what is not  *)
(* kept gives way to as many that were updated no earlier.                 *)
LEMMA NewestKept ==
  ASSUME NEW es, NEW u \in Nat, NEW C, IsFiniteSet(C),
         \A k \in C : es[k].at \in Nat /\ es[k].at <= u, NEW n \in Nat
  PROVE  LET kept == Newest(es, C, n) IN
         /\ kept \subseteq C /\ IsFiniteSet(kept) /\ Cardinality(kept) <= n
         /\ n <= Cardinality(C) => Cardinality(kept) = n
         /\ kept # C => n <= Cardinality(C)
         /\ \A k \in kept, l \in C \ kept : es[l].at <= es[k].at
<1>. DEFINE kept == Newest(es, C, n)
<1>1. Cardinality(C) \in Nat
  BY FS_CardinalityType
<1>2. CASE Cardinality(C) <= n
  BY <1>1, <1>2 DEF Newest
<1>3. CASE ~(Cardinality(C) <= n)
  <2>1. \E top \in SUBSET C :
          /\ Cardinality(top) = n
          /\ \A k \in top, l \in C \ top : es[l].at <= es[k].at
    BY <1>1, <1>3, RecentExist
  <2>2. /\ kept \in SUBSET C /\ Cardinality(kept) = n
        /\ \A k \in kept, l \in C \ kept : es[l].at <= es[k].at
    BY <1>3, <2>1 DEF Newest
  <2>3. IsFiniteSet(kept)
    BY <2>2, FS_Subset
  <2>. HIDE DEF kept
  <2>4. n <= Cardinality(C) /\ Cardinality(kept) <= n
    BY <1>1, <1>3, <2>2
  <2>. QED  BY <2>2, <2>3, <2>4 DEF kept
<1>. QED  BY <1>2, <1>3

-----------------------------------------------------------------------------
(* What an event does to the entities.                                     *)

\* An event has a last place for each of its keys.
LEMMA LastPlaceTyped ==
  ASSUME NEW e \in EventId, NEW k \in Range(Event[e].keys)
  PROVE  LastPlace(e, k) \in 1..Len(Event[e].keys)
<1>. DEFINE q == Event[e].keys
            C == {i \in DOMAIN q : q[i] = k}
            es == [i \in C |-> [at |-> i]]
<1>1. q \in Seq(Key) /\ Len(q) \in Nat /\ DOMAIN q = 1..Len(q)
  BY EventFields
<1>2. C # {}
  BY DEF Range
<1>3. \A i \in C : es[i].at = i
  OBVIOUS
<1>4. \A i \in C : es[i].at \in Nat /\ es[i].at <= Len(q)
  BY <1>1, <1>3
<1>. HIDE DEF es
<1>5. PICK i \in C : \A j \in C : es[j].at <= es[i].at
  BY <1>1, <1>2, <1>4, HighestExists
<1>6. i \in DOMAIN q /\ q[i] = k /\ \A j \in DOMAIN q : q[j] = k => j <= i
  BY <1>3, <1>5
<1>7. LastPlace(e, k) \in DOMAIN q
  BY <1>6 DEF LastPlace
<1>. QED  BY <1>1, <1>7

LEMMA StoreFields ==
  ASSUME NEW s \in Store
  PROVE  /\ s.mode \in Mode /\ s.updates \in Nat /\ s.archived \in Nat /\ s.cursor \in Nat
         /\ s.entities = [k \in DOMAIN s.entities |-> s.entities[k]]
         /\ DOMAIN s.entities \subseteq Key
         /\ \A k \in DOMAIN s.entities : s.entities[k] \in Projection
         /\ \A k \in DOMAIN s.entities : s.entities[k].event \in EventId
                                         /\ s.entities[k].at \in Nat
<1>1. /\ s.mode \in Mode /\ s.updates \in Nat /\ s.archived \in Nat /\ s.cursor \in Nat
      /\ s.entities \in UNION {[K -> Projection] : K \in SUBSET Key}
  BY DEF Store
<1>2. PICK K \in SUBSET Key : s.entities \in [K -> Projection]
  BY <1>1
<1>. QED  BY <1>1, <1>2 DEF Projection

LEMMA ProjectFields ==
  ASSUME NEW s \in Store, NEW e \in EventId
  PROVE  LET all == Project(s, e)
             keys == Range(Event[e].keys)
             u == s.updates + Len(Event[e].keys)
         IN  /\ u \in Nat
             /\ DOMAIN all = DOMAIN s.entities \cup keys
             /\ DOMAIN all \subseteq Key
             /\ \A k \in DOMAIN all : all[k] \in Projection
             /\ \A k \in keys : all[k].event = e /\ all[k].at > s.updates /\ all[k].at <= u
             /\ \A k \in DOMAIN s.entities \ keys : all[k] = s.entities[k]
<1>. DEFINE all == Project(s, e)
            keys == Range(Event[e].keys)
            u == s.updates + Len(Event[e].keys)
<1>1. /\ s.updates \in Nat /\ Len(Event[e].keys) \in Nat /\ keys \subseteq Key
      /\ DOMAIN s.entities \subseteq Key
      /\ \A k \in DOMAIN s.entities : s.entities[k] \in Projection
  <2>1. Len(Event[e].keys) \in Nat
    BY EventFields
  <2>2. keys \subseteq Key
    BY KeysTyped
  <2>. HIDE DEF keys
  <2>. QED  BY <2>1, <2>2, StoreFields
<1>2. \A k \in keys : LastPlace(e, k) \in 1..Len(Event[e].keys)
  BY LastPlaceTyped
<1>3. /\ DOMAIN all = DOMAIN s.entities \cup keys
      /\ \A k \in keys : all[k] = [event |-> e, at |-> s.updates + LastPlace(e, k)]
      /\ \A k \in DOMAIN s.entities \ keys : all[k] = s.entities[k]
  BY DEF Project
<1>4. \A k \in keys : /\ all[k].event = e /\ all[k].at = s.updates + LastPlace(e, k)
                      /\ all[k] \in Projection
  <2>. HIDE DEF all, keys
  <2>1. ASSUME NEW k \in keys PROVE s.updates + LastPlace(e, k) \in Nat
    BY <1>1, <1>2
  <2>. QED  BY <1>3, <2>1 DEF Projection
<1>. HIDE DEF all, keys
<1>5. \A k \in keys : all[k].at > s.updates /\ all[k].at <= u /\ all[k].at \in Nat
  BY <1>1, <1>2, <1>4
<1>6. u \in Nat
  BY <1>1
<1>. QED  BY <1>1, <1>3, <1>4, <1>5, <1>6 DEF all, keys

\* After an event is projected, and before anything is dropped.
LEMMA ProjectKeeps ==
  ASSUME NEW d \in Seq(EventId), NEW e \in EventId, NEW b \in 0..Len(d), NEW s \in Store,
         KeptSound(s.entities, s.updates, d, b, s.mode),
         IsFresh(Append(d, e), b, s.mode, Len(d) + 1), Event[e].projectable
  PROVE  KeptSound(Project(s, e), s.updates + Len(Event[e].keys), Append(d, e), b, s.mode)
<1>. DEFINE D == Append(d, e)
            n == Len(d) + 1
            m == s.mode
            all == Project(s, e)
            keys == Range(Event[e].keys)
            u == s.updates + Len(Event[e].keys)
            es == s.entities
<1>1. /\ DOMAIN all = DOMAIN es \cup keys
      /\ \A k \in keys : all[k].event = e /\ all[k].at > s.updates /\ all[k].at <= u
      /\ \A k \in DOMAIN es \ keys : all[k] = es[k]
      /\ \A k \in DOMAIN all : all[k] \in Projection
  BY ProjectFields
<1>2. /\ s.updates \in Nat /\ Len(Event[e].keys) \in Nat
      /\ \A k \in DOMAIN es : es[k].at \in Nat
  <2>1. Len(Event[e].keys) \in Nat
    BY EventFields
  <2>2. s.updates \in Nat /\ \A k \in DOMAIN es : es[k].at \in Nat
    BY StoreFields
  <2>. QED  BY <2>1, <2>2
<1>3. /\ Session(D, b) = Session(d, b) \cup {n} /\ D[n] = e
      /\ \A i \in Session(d, b) : D[i] = d[i] /\ i \in Int /\ i < n
      /\ n \in Int
  BY Delivered DEF Session
<1>4. \A k : IsUpdate(D, b, m, k, n) <=> k \in keys
  BY UpdatesAppend
<1>5. \A k, i : IsLast(D, b, m, k, i) <=> IF k \in keys THEN i = n ELSE IsLast(d, b, m, k, i)
  BY <1>4, LastAppend
<1>6. IsFiniteSet(DOMAIN all)
  <2>1. IsFiniteSet(DOMAIN es) /\ IsFiniteSet(keys)
    BY KeysTyped DEF KeptSound
  <2>. HIDE DEF all, es, keys
  <2>. QED  BY <1>1, <2>1, FS_Union
<1>7. \A k \in DOMAIN es :
        /\ es[k].at <= s.updates
        /\ \E i \in Session(d, b) : IsLast(d, b, m, k, i) /\ es[k].event = d[i]
  BY DEF KeptSound
<1>8. \A k, l \in DOMAIN es : \A i, j \in Session(d, b) :
        IsLast(d, b, m, k, i) /\ IsLast(d, b, m, l, j) /\ i < j => es[k].at < es[l].at
  BY DEF KeptSound
<1>9. \A k, i : IsLast(d, b, m, k, i) => i \in Session(d, b)
  BY DEF IsLast, IsUpdate
<1>. HIDE DEF D, n, m, all, keys, es
<1>10. ASSUME NEW k \in DOMAIN all
       PROVE  /\ all[k].at <= u
              /\ \E i \in Session(D, b) : IsLast(D, b, m, k, i) /\ all[k].event = D[i]
  <2>1. CASE k \in keys
    BY <1>1, <1>3, <1>5, <2>1
  <2>2. CASE k \notin keys
    <3>1. k \in DOMAIN es /\ all[k] = es[k]
      BY <1>1, <2>2
    <3>2. all[k].at <= u
      BY <1>2, <1>7, <3>1
    <3>. QED  BY <1>3, <1>5, <1>7, <2>2, <3>1, <3>2
  <2>. QED  BY <2>1, <2>2
<1>11. ASSUME NEW k \in DOMAIN all, NEW l \in DOMAIN all,
              NEW i \in Session(D, b), NEW j \in Session(D, b),
              IsLast(D, b, m, k, i), IsLast(D, b, m, l, j), i < j
       PROVE  all[k].at < all[l].at
  <2>1. k \notin keys
    BY <1>3, <1>5, <1>11
  <2>2. k \in DOMAIN es /\ all[k] = es[k] /\ IsLast(d, b, m, k, i)
    BY <1>1, <1>5, <1>11, <2>1
  <2>3. CASE l \in keys
    <3>1. all[l].at > s.updates /\ es[k].at <= s.updates /\ es[k].at \in Nat
      BY <1>1, <1>2, <1>7, <2>2, <2>3
    <3>2. all[l].at \in Nat
      BY <1>1 DEF Projection
    <3>. QED  BY <1>2, <2>2, <3>1, <3>2
  <2>4. CASE l \notin keys
    <3>1. l \in DOMAIN es /\ all[l] = es[l] /\ IsLast(d, b, m, l, j)
      BY <1>1, <1>5, <1>11, <2>4
    <3>. QED  BY <1>8, <1>9, <1>11, <2>2, <3>1
  <2>. QED  BY <2>3, <2>4
<1>. QED  BY <1>6, <1>10, <1>11 DEF KeptSound, D, m, all

(* What show() leaves of the entities after a projection: of each class    *)
(* the newest.                                                             *)
Trimmed(all) ==
  LET kept == Newest(all, Class(all, FALSE), MaxEntities)
                \cup Newest(all, Class(all, TRUE), MaxCritical)
  IN  [k \in kept |-> all[k]]

LEMMA RoomTyped == \A c \in BOOLEAN : Room(c) \in Nat
BY UiAssumption DEF Room

LEMMA TrimKeeps ==
  ASSUME NEW all, IsFiniteSet(DOMAIN all), NEW u \in Nat,
         \A k \in DOMAIN all : all[k] \in Projection /\ all[k].at <= u
  PROVE  LET es == Trimmed(all) IN
         /\ DOMAIN es \subseteq DOMAIN all /\ \A k \in DOMAIN es : es[k] = all[k]
         /\ \A c \in BOOLEAN :
              /\ Class(es, c) = Newest(all, Class(all, c), Room(c))
              /\ Class(es, c) \subseteq Class(all, c) /\ IsFiniteSet(Class(all, c))
              /\ Cardinality(Class(es, c)) <= Room(c)
              /\ Room(c) <= Cardinality(Class(all, c))
                   => Cardinality(Class(es, c)) = Room(c)
              /\ Class(es, c) # Class(all, c) => Room(c) <= Cardinality(Class(all, c))
              /\ \A k \in Class(es, c), l \in Class(all, c) \ Class(es, c) :
                   all[l].at <= all[k].at
         /\ Class(all, TRUE) \ DOMAIN es = Class(all, TRUE) \ Class(es, TRUE)
<1>. DEFINE es == Trimmed(all)
            N(c) == Newest(all, Class(all, c), Room(c))
<1>1. \A c \in BOOLEAN : Class(all, c) \subseteq DOMAIN all /\ IsFiniteSet(Class(all, c))
  BY FS_Subset DEF Class
<1>2. \A k \in DOMAIN all : /\ all[k].at \in Nat /\ all[k].event \in EventId
                            /\ Event[all[k].event].critical \in BOOLEAN
  BY EventFields DEF Projection
<1>3. ASSUME NEW c \in BOOLEAN
      PROVE  /\ N(c) \subseteq Class(all, c) /\ IsFiniteSet(N(c))
             /\ Cardinality(N(c)) <= Room(c)
             /\ Room(c) <= Cardinality(Class(all, c)) => Cardinality(N(c)) = Room(c)
             /\ N(c) # Class(all, c) => Room(c) <= Cardinality(Class(all, c))
             /\ \A k \in N(c), l \in Class(all, c) \ N(c) : all[l].at <= all[k].at
  <2>1. \A k \in Class(all, c) : all[k].at \in Nat /\ all[k].at <= u
    BY <1>1, <1>2
  <2>2. Room(c) \in Nat
    BY RoomTyped
  <2>. QED  BY <1>1, <2>1, <2>2, NewestKept
<1>4. /\ DOMAIN es = N(FALSE) \cup N(TRUE)
      /\ \A k \in DOMAIN es : es[k] = all[k]
  BY DEF Trimmed, Room
<1>5. DOMAIN es \subseteq DOMAIN all
  BY <1>1, <1>3, <1>4
<1>6. \A c \in BOOLEAN : Class(es, c) = N(c)
  <2>. HIDE DEF es, N
  <2>1. \A c \in BOOLEAN : \A k \in N(c) : k \in DOMAIN all /\ Event[all[k].event].critical = c
    BY <1>3 DEF Class
  <2>2. \A c \in BOOLEAN : Class(es, c) = {k \in DOMAIN es : Event[all[k].event].critical = c}
    BY <1>4 DEF Class
  <2>. QED  BY <1>4, <2>1, <2>2
<1>7. Class(all, TRUE) \ DOMAIN es = Class(all, TRUE) \ Class(es, TRUE)
  <2>1. \A k \in N(FALSE) : k \notin Class(all, TRUE)
    BY <1>3 DEF Class
  <2>. HIDE DEF es, N
  <2>. QED  BY <1>4, <1>6, <2>1
<1>. HIDE DEF es, N
<1>8. \A c \in BOOLEAN :
        /\ Class(es, c) = N(c)
        /\ Class(es, c) \subseteq Class(all, c) /\ IsFiniteSet(Class(all, c))
        /\ Cardinality(Class(es, c)) <= Room(c)
        /\ Room(c) <= Cardinality(Class(all, c)) => Cardinality(Class(es, c)) = Room(c)
        /\ Class(es, c) # Class(all, c) => Room(c) <= Cardinality(Class(all, c))
        /\ \A k \in Class(es, c), l \in Class(all, c) \ Class(es, c) : all[l].at <= all[k].at
  BY <1>1, <1>3, <1>6
<1>. QED  BY <1>4, <1>5, <1>7, <1>8 DEF es, N

LEMMA ShowFields ==
  ASSUME NEW s \in Store, NEW e \in EventId, IsFiniteSet(DOMAIN s.entities),
         \A k \in DOMAIN s.entities : s.entities[k].at <= s.updates
  PROVE  LET t == Show(s, e)
             all == Project(s, e)
         IN  /\ t \in Store
             /\ t.entities = Trimmed(all)
             /\ t.updates = s.updates + Len(Event[e].keys)
             /\ t.archived = s.archived + Cardinality(Class(all, TRUE) \ DOMAIN t.entities)
             /\ t.mode = s.mode /\ t.seen = s.seen /\ t.cursor = s.cursor + 1
             /\ t.connection = s.connection /\ t.complete = s.complete
             /\ t.invalid = s.invalid
<1>. DEFINE all == Project(s, e)
            u == s.updates + Len(Event[e].keys)
            lost == Class(all, TRUE) \ DOMAIN Trimmed(all)
            t == [s EXCEPT !.cursor = @ + 1, !.updates = @ + Len(Event[e].keys),
                           !.entities = Trimmed(all), !.archived = @ + Cardinality(lost)]
<1>1. Show(s, e) = t
  BY DEF Show, Trimmed
<1>2. /\ DOMAIN all = DOMAIN s.entities \cup Range(Event[e].keys) /\ u \in Nat
      /\ \A k \in DOMAIN all : all[k] \in Projection
      /\ DOMAIN all \subseteq Key
  BY ProjectFields
<1>3. IsFiniteSet(DOMAIN all)
  <2>1. IsFiniteSet(Range(Event[e].keys))
    BY KeysTyped
  <2>. HIDE DEF all
  <2>. QED  BY <1>2, <2>1, FS_Union
<1>4. \A k \in DOMAIN all : all[k].at <= u
  <2>1. /\ \A k \in Range(Event[e].keys) : all[k].at <= u
        /\ \A k \in DOMAIN s.entities \ Range(Event[e].keys) : all[k] = s.entities[k]
    BY ProjectFields
  <2>2. /\ s.updates \in Nat /\ \A k \in DOMAIN s.entities : s.entities[k].at \in Nat
    BY StoreFields
  <2>3. Len(Event[e].keys) \in Nat
    BY EventFields
  <2>. HIDE DEF all
  <2>. QED  BY <1>2, <2>1, <2>2, <2>3
<1>. HIDE DEF all
<1>5. /\ DOMAIN Trimmed(all) \subseteq DOMAIN all
      /\ \A k \in DOMAIN Trimmed(all) : Trimmed(all)[k] = all[k]
      /\ IsFiniteSet(Class(all, TRUE))
  <2>1. u \in Nat /\ \A k \in DOMAIN all : all[k] \in Projection /\ all[k].at <= u
    BY <1>2, <1>4
  <2>. HIDE DEF u
  <2>. QED  BY <1>3, <2>1, TrimKeeps
<1>6. Cardinality(lost) \in Nat
  <2>1. IsFiniteSet(lost)
    BY <1>5, FS_Subset
  <2>. QED  BY <2>1, FS_CardinalityType
<1>7. Trimmed(all) \in UNION {[K -> Projection] : K \in SUBSET Key}
  <2>1. Trimmed(all) = [k \in DOMAIN Trimmed(all) |-> Trimmed(all)[k]]
    BY DEF Trimmed
  <2>2. Trimmed(all) \in [DOMAIN Trimmed(all) -> Projection]
    BY <1>2, <1>5, <2>1
  <2>. QED  BY <1>2, <1>5, <2>2
<1>8. /\ s.updates + Len(Event[e].keys) \in Nat
      /\ s.archived + Cardinality(lost) \in Nat /\ s.cursor + 1 \in Nat
  <2>1. s.archived \in Nat /\ s.cursor \in Nat
    BY StoreFields
  <2>2. s.updates + Len(Event[e].keys) \in Nat
    BY <1>2
  <2>. HIDE DEF lost
  <2>. QED  BY <1>6, <2>1, <2>2
<1>. HIDE DEF lost
<1>9. t \in Store
  <2>. DEFINE us == s.updates + Len(Event[e].keys)
              ar == s.archived + Cardinality(lost)
              cu == s.cursor + 1
              es == Trimmed(all)
  <2>1. us \in Nat /\ ar \in Nat /\ cu \in Nat
        /\ es \in UNION {[K -> Projection] : K \in SUBSET Key}
    BY <1>7, <1>8
  <2>2. t = [s EXCEPT !.cursor = cu, !.updates = us, !.entities = es, !.archived = ar]
    BY DEF Store
  <2>. HIDE DEF us, ar, cu, es, t
  <2>. QED  BY <2>1, <2>2 DEF Store
<1>10. /\ t.entities = Trimmed(all) /\ t.updates = s.updates + Len(Event[e].keys)
       /\ t.archived = s.archived + Cardinality(lost)
       /\ t.mode = s.mode /\ t.seen = s.seen /\ t.cursor = s.cursor + 1
       /\ t.connection = s.connection /\ t.complete = s.complete
       /\ t.invalid = s.invalid
  BY DEF Store
<1>. QED  BY <1>1, <1>9, <1>10 DEF lost, all

\* An entity keeps its class, whatever event updates it.
LEMMA ClassStays ==
  ASSUME NEW d \in Seq(EventId), NEW e \in EventId, NEW b \in 0..Len(d), NEW s \in Store,
         KeptSound(s.entities, s.updates, d, b, s.mode), NEW c \in BOOLEAN
  PROVE  Class(s.entities, c) \subseteq Class(Project(s, e), c)
<1>. SUFFICES ASSUME NEW k \in Class(s.entities, c) PROVE k \in Class(Project(s, e), c)
  OBVIOUS
<1>. DEFINE all == Project(s, e)
            keys == Range(Event[e].keys)
            old == s.entities[k].event
<1>1. k \in DOMAIN s.entities /\ Event[old].critical = c
  BY DEF Class
<1>2. /\ k \in DOMAIN all
      /\ k \in keys => all[k].event = e
      /\ k \notin keys => all[k] = s.entities[k]
  <2>1. /\ DOMAIN all = DOMAIN s.entities \cup keys
        /\ \A l \in keys : all[l].event = e
        /\ \A l \in DOMAIN s.entities \ keys : all[l] = s.entities[l]
    BY ProjectFields
  <2>. HIDE DEF all, keys
  <2>. QED  BY <1>1, <2>1
<1>3. k \in keys => Event[e].critical = c
  <2>. SUFFICES ASSUME k \in keys PROVE Event[e].critical = c
    OBVIOUS
  <2>1. PICK i \in Session(d, b) : IsLast(d, b, s.mode, k, i) /\ old = d[i]
    BY <1>1 DEF KeptSound
  <2>2. old \in EventId
    BY <2>1, Delivered
  <2>3. k \in Range(Event[old].keys)
    BY <2>1 DEF IsLast, IsUpdate
  <2>4. Range(Event[old].keys) \cap Range(Event[e].keys) # {}
    BY <2>3
  <2>5. Event[old].critical = Event[e].critical
    BY <2>2, <2>4, UiAssumption
  <2>. QED  BY <1>1, <2>5
<1>4. Event[all[k].event].critical = c
  <2>. HIDE DEF all, keys
  <2>. QED  BY <1>1, <1>2, <1>3
<1>5. k \in Class(all, c)
  <2>. HIDE DEF all
  <2>. QED  BY <1>2, <1>4 DEF Class
<1>. QED  BY <1>5

\* Dropping entities keeps what is sound of the others.
LEMMA TrimmedIsKept ==
  ASSUME NEW all, NEW es, NEW u, NEW d, NEW b, NEW m, KeptSound(all, u, d, b, m),
         DOMAIN es \subseteq DOMAIN all, \A k \in DOMAIN es : es[k] = all[k]
  PROVE  KeptSound(es, u, d, b, m)
<1>1. IsFiniteSet(DOMAIN es)
  BY FS_Subset DEF KeptSound
<1>. QED  BY <1>1 DEF KeptSound

(* What is missing after an event is missing for what was updated no       *)
(* earlier: it is dropped now, or it was missing before.                   *)
LEMMA MissingKept ==
  ASSUME NEW d \in Seq(EventId), NEW e \in EventId, NEW b \in 0..Len(d), NEW s \in Store,
         EntitiesSound(s, d, b),
         IsFresh(Append(d, e), b, s.mode, Len(d) + 1), Event[e].projectable,
         NEW k \in Key \ DOMAIN Trimmed(Project(s, e)),
         NEW i \in Session(Append(d, e), b), IsLast(Append(d, e), b, s.mode, k, i)
  PROVE  LET D == Append(d, e)
             es == Trimmed(Project(s, e))
             c == Event[D[i]].critical
             class == Class(es, c)
         IN  /\ Cardinality(class) = Room(c)
             /\ \A l \in class : \A j \in Session(D, b) : IsLast(D, b, s.mode, l, j) => j >= i
             /\ \/ k \in Class(Project(s, e), c)
                \/ /\ k \in Key \ DOMAIN s.entities /\ i \in Session(d, b)
                   /\ IsLast(d, b, s.mode, k, i) /\ D[i] = d[i]
<1>. DEFINE D == Append(d, e)
            n == Len(d) + 1
            m == s.mode
            all == Project(s, e)
            es == Trimmed(all)
            keys == Range(Event[e].keys)
            u == s.updates + Len(Event[e].keys)
            c == Event[D[i]].critical
<1>1. KeptSound(s.entities, s.updates, d, b, m) /\ KeptSound(all, u, D, b, m)
  BY ProjectKeeps DEF EntitiesSound
<1>2. /\ Session(D, b) = Session(d, b) \cup {n} /\ D[n] = e
      /\ \A j \in Session(d, b) : D[j] = d[j] /\ j \in Int /\ j < n
      /\ n \in Int /\ D \in Seq(EventId) /\ b \in 0..Len(D)
  BY Delivered DEF Session
<1>3. \A l : IsUpdate(D, b, m, l, n) <=> l \in keys
  BY UpdatesAppend
<1>4. \A l, j : IsLast(D, b, m, l, j) <=> IF l \in keys THEN j = n ELSE IsLast(d, b, m, l, j)
  BY <1>3, LastAppend
<1>5. /\ DOMAIN all = DOMAIN s.entities \cup keys /\ u \in Nat
      /\ \A l \in DOMAIN all : all[l] \in Projection
      /\ \A l \in DOMAIN all : all[l].at <= u
  <2>1. \A l \in DOMAIN all : all[l].at <= u
    BY <1>1 DEF KeptSound
  <2>2. /\ DOMAIN all = DOMAIN s.entities \cup keys /\ u \in Nat
        /\ \A l \in DOMAIN all : all[l] \in Projection
    BY ProjectFields
  <2>. QED  BY <2>1, <2>2
<1>6. D[i] \in EventId /\ c \in BOOLEAN
  <2>1. i \in 1..Len(D)
    BY <1>2 DEF Session
  <2>2. D[i] \in EventId
    BY <1>2, <2>1
  <2>. HIDE DEF D
  <2>. QED  BY <2>2, EventFields
<1>7. IsFiniteSet(DOMAIN all)
  BY <1>1 DEF KeptSound
<1>. HIDE DEF all, es, D, n, m, keys, u
<1>8. /\ DOMAIN es \subseteq DOMAIN all
      /\ Class(es, c) \subseteq Class(all, c) /\ IsFiniteSet(Class(all, c))
      /\ Room(c) <= Cardinality(Class(all, c)) => Cardinality(Class(es, c)) = Room(c)
      /\ Class(es, c) # Class(all, c) => Room(c) <= Cardinality(Class(all, c))
      /\ \A j \in Class(es, c), l \in Class(all, c) \ Class(es, c) : all[l].at <= all[j].at
  BY <1>5, <1>6, <1>7, TrimKeeps DEF es
<1>9. k \in Key \ DOMAIN es /\ i \in Session(D, b) /\ IsLast(D, b, m, k, i)
  BY DEF es, all, D, m
<1>10. CASE k \in DOMAIN all
  <2>1. all[k].event = D[i]
    <3>1. PICK j \in Session(D, b) : IsLast(D, b, m, k, j) /\ all[k].event = D[j]
      BY <1>1, <1>10 DEF KeptSound
    <3>2. j = i
      BY <1>2, <1>9, <3>1, LastIsOne
    <3>. QED  BY <3>1, <3>2
  <2>2. k \in Class(all, c) \ Class(es, c)
    BY <1>9, <1>10, <2>1 DEF Class
  <2>3. Cardinality(Class(es, c)) = Room(c)
    BY <1>8, <2>2
  <2>4. ASSUME NEW l \in Class(es, c), NEW j \in Session(D, b), IsLast(D, b, m, l, j)
        PROVE  j >= i
    <3>1. all[k].at <= all[l].at /\ l \in DOMAIN all
      BY <1>8, <2>2, <2>4 DEF Class
    <3>2. j < i => all[l].at < all[k].at
      BY <1>1, <1>9, <1>10, <2>4, <3>1 DEF KeptSound
    <3>3. all[k].at \in Nat /\ all[l].at \in Nat /\ i \in Int /\ j \in Int
      BY <1>2, <1>5, <1>9, <1>10, <2>4, <3>1 DEF Projection
    <3>. QED  BY <3>1, <3>2, <3>3
  <2>. QED  BY <2>2, <2>3, <2>4 DEF es, all, D, m
<1>11. CASE k \notin DOMAIN all
  <2>1. k \in Key \ DOMAIN s.entities /\ k \notin keys
    BY <1>5, <1>9, <1>11
  <2>2. IsLast(d, b, m, k, i) /\ i \in Session(d, b)
    BY <1>4, <1>9, <2>1 DEF IsLast, IsUpdate
  <2>3. D[i] = d[i]
    BY <1>2, <2>2
  <2>4. /\ Cardinality(Class(s.entities, c)) = Room(c)
        /\ \A l \in Class(s.entities, c) : \A j \in Session(d, b) :
             IsLast(d, b, m, l, j) => j >= i
    BY <2>1, <2>2, <2>3 DEF EntitiesSound, MissingSound, m
  <2>5. Class(s.entities, c) \subseteq Class(all, c)
    BY <1>1, <1>6, ClassStays DEF all, m
  <2>6. Room(c) <= Cardinality(Class(all, c))
    <3>1. Cardinality(Class(s.entities, c)) <= Cardinality(Class(all, c))
      BY <1>8, <2>5, FS_Subset
    <3>. QED  BY <2>4, <3>1
  <2>7. ASSUME NEW l \in Class(es, c), NEW j \in Session(D, b), IsLast(D, b, m, l, j)
        PROVE  j >= i
    <3>1. l \in Class(all, c)
      BY <1>8
    <3>2. CASE l \in keys
      <4>1. j = n /\ i < n /\ n \in Int /\ i \in Int
        BY <1>2, <1>4, <2>2, <2>7, <3>2
      <4>. QED  BY <4>1
    <3>3. CASE l \notin keys
      <4>1. l \in DOMAIN s.entities /\ all[l] = s.entities[l]
        <5>1. l \in DOMAIN s.entities \ keys
          BY <1>5, <3>1, <3>3 DEF Class
        <5>2. \A x \in DOMAIN s.entities \ keys : all[x] = s.entities[x]
          BY ProjectFields DEF all, keys
        <5>. QED  BY <5>1, <5>2
      <4>2. l \in Class(s.entities, c)
        BY <3>1, <4>1 DEF Class
      <4>3. IsLast(d, b, m, l, j) /\ j \in Session(d, b)
        BY <1>4, <2>7, <3>3 DEF IsLast, IsUpdate
      <4>. QED  BY <2>4, <4>2, <4>3
    <3>. QED  BY <3>2, <3>3
  <2>. QED  BY <1>8, <2>1, <2>2, <2>3, <2>6, <2>7 DEF es, all, D, m
<1>. QED  BY <1>10, <1>11

LEMMA ShowKeeps ==
  ASSUME NEW d \in Seq(EventId), NEW e \in EventId, NEW b \in 0..Len(d), NEW s \in Store,
         EntitiesSound(s, d, b),
         IsFresh(Append(d, e), b, s.mode, Len(d) + 1), Event[e].projectable
  PROVE  /\ Show(s, e) \in Store
         /\ EntitiesSound(Show(s, e), Append(d, e), b)
<1>. DEFINE D == Append(d, e)
            m == s.mode
            all == Project(s, e)
            es == Trimmed(all)
            u == s.updates + Len(Event[e].keys)
            t == Show(s, e)
            lost == Class(all, TRUE) \ DOMAIN es
<1>1. KeptSound(s.entities, s.updates, d, b, m) /\ KeptSound(all, u, D, b, m)
  BY ProjectKeeps DEF EntitiesSound
<1>2. /\ t \in Store /\ t.entities = es /\ t.updates = u /\ t.mode = m
      /\ t.archived = s.archived + Cardinality(lost)
  <2>1. IsFiniteSet(DOMAIN s.entities) /\ \A k \in DOMAIN s.entities : s.entities[k].at <= s.updates
    BY <1>1 DEF KeptSound
  <2>. QED  BY <2>1, ShowFields
<1>3. /\ IsFiniteSet(DOMAIN all) /\ u \in Nat
      /\ \A k \in DOMAIN all : all[k] \in Projection /\ all[k].at <= u
  <2>1. IsFiniteSet(DOMAIN all) /\ \A k \in DOMAIN all : all[k].at <= u
    BY <1>1 DEF KeptSound
  <2>2. u \in Nat /\ \A k \in DOMAIN all : all[k] \in Projection
    BY ProjectFields
  <2>. QED  BY <2>1, <2>2
<1>4. /\ DOMAIN es \subseteq DOMAIN all /\ \A k \in DOMAIN es : es[k] = all[k]
      /\ \A c \in BOOLEAN : Cardinality(Class(es, c)) <= Room(c)
      /\ IsFiniteSet(Class(all, TRUE))
  <2>. HIDE DEF all, u
  <2>. QED  BY <1>3, TrimKeeps
<1>5. KeptSound(es, u, D, b, m)
  <2>. HIDE DEF all, u, D, m
  <2>1. KeptSound(all, u, D, b, m) /\ DOMAIN es \subseteq DOMAIN all
        /\ \A k \in DOMAIN es : es[k] = all[k]
    BY <1>1, <1>4
  <2>. HIDE DEF es
  <2>. QED  BY <2>1, TrimmedIsKept
<1>6. \A k \in Key \ DOMAIN es : \A i \in Session(D, b) : IsLast(D, b, m, k, i) =>
        LET c == Event[D[i]].critical
            class == Class(es, c)
        IN  /\ Cardinality(class) = Room(c)
            /\ \A l \in class : \A j \in Session(D, b) : IsLast(D, b, m, l, j) => j >= i
            /\ \/ k \in Class(all, c)
               \/ /\ k \in Key \ DOMAIN s.entities /\ i \in Session(d, b)
                  /\ IsLast(d, b, m, k, i) /\ D[i] = d[i]
  BY MissingKept
<1>. HIDE DEF D, m, all, es, u, t
<1>7. MissingSound(es, D, b, m)
  BY <1>6 DEF MissingSound
<1>8. Archived(es, D, b, m) \subseteq Archived(s.entities, d, b, m) \cup lost
  <2>. SUFFICES ASSUME NEW k \in Key \ DOMAIN es, NEW i \in Session(D, b),
                       IsLast(D, b, m, k, i), Event[D[i]].critical
                PROVE  k \in Archived(s.entities, d, b, m) \cup lost
    BY DEF Archived
  <2>1. \/ k \in Class(all, Event[D[i]].critical)
        \/ /\ k \in Key \ DOMAIN s.entities /\ i \in Session(d, b)
           /\ IsLast(d, b, m, k, i) /\ D[i] = d[i]
    BY <1>6
  <2>2. CASE k \in Class(all, Event[D[i]].critical)
    BY <2>2 DEF Class
  <2>3. CASE /\ k \in Key \ DOMAIN s.entities /\ i \in Session(d, b)
             /\ IsLast(d, b, m, k, i) /\ D[i] = d[i]
    BY <2>3 DEF Archived
  <2>. QED  BY <2>1, <2>2, <2>3
<1>9. /\ IsFiniteSet(Archived(es, D, b, m))
      /\ Cardinality(Archived(es, D, b, m)) <= s.archived + Cardinality(lost)
  <2>. DEFINE A == Archived(s.entities, d, b, m)
              B == Archived(es, D, b, m)
  <2>1. IsFiniteSet(A) /\ Cardinality(A) <= s.archived
    BY DEF EntitiesSound, m
  <2>2. IsFiniteSet(lost)
    BY <1>4, FS_Subset
  <2>. HIDE DEF A, B, lost
  <2>3. IsFiniteSet(A \cup lost)
        /\ Cardinality(A \cup lost) = Cardinality(A) + Cardinality(lost) - Cardinality(A \cap lost)
    BY <2>1, <2>2, FS_Union
  <2>4. /\ Cardinality(A) \in Nat /\ Cardinality(lost) \in Nat
        /\ Cardinality(A \cap lost) \in Nat
    <3>1. IsFiniteSet(A \cap lost)
      BY <2>1, FS_Intersection
    <3>. QED  BY <2>1, <2>2, <3>1, FS_CardinalityType
  <2>5. IsFiniteSet(B) /\ Cardinality(B) <= Cardinality(A \cup lost)
    <3>1. B \in SUBSET (A \cup lost)
      BY <1>8 DEF A, B
    <3>. QED  BY <2>3, <3>1, FS_Subset
  <2>6. Cardinality(B) \in Nat
    BY <2>5, FS_CardinalityType
  <2>7. s.archived \in Nat
    BY StoreFields
  <2>8. Cardinality(B) <= s.archived + Cardinality(lost)
    BY <2>1, <2>3, <2>4, <2>5, <2>6, <2>7
  <2>. QED  BY <2>5, <2>8 DEF B
<1>10. EntitiesSound(t, D, b)
  BY <1>2, <1>4, <1>5, <1>7, <1>9 DEF EntitiesSound
<1>. QED  BY <1>2, <1>10 DEF t, D

\* Without an update, what is sound stays so.
LEMMA NothingShown ==
  ASSUME NEW d \in Seq(EventId), NEW e \in EventId, NEW b \in 0..Len(d), NEW s,
         EntitiesSound(s, d, b), NEW t,
         t.entities = s.entities, t.updates = s.updates, t.archived = s.archived,
         t.mode = s.mode,
         \A k : ~IsUpdate(Append(d, e), b, s.mode, k, Len(d) + 1)
  PROVE  EntitiesSound(t, Append(d, e), b)
<1>. DEFINE D == Append(d, e)
            m == s.mode
<1>1. \A k, i : IsLast(D, b, m, k, i) <=> IsLast(d, b, m, k, i)
  BY LastAppend
<1>2. /\ Session(d, b) \subseteq Session(D, b)
      /\ \A i \in Session(d, b) : D[i] = d[i]
  BY Delivered
<1>3. \A k, i : IsLast(d, b, m, k, i) => i \in Session(d, b)
  BY DEF IsLast, IsUpdate
<1>. HIDE DEF D
<1>4. KeptSound(s.entities, s.updates, D, b, m)
  BY <1>1, <1>2, <1>3 DEF EntitiesSound, KeptSound
<1>5. MissingSound(s.entities, D, b, m)
  BY <1>1, <1>2, <1>3 DEF EntitiesSound, MissingSound
<1>6. Archived(s.entities, D, b, m) = Archived(s.entities, d, b, m)
  BY <1>1, <1>2, <1>3 DEF Archived
<1>. QED  BY <1>4, <1>5, <1>6 DEF EntitiesSound, D

\* One event, whatever apply() makes of it, keeps a store sound.
LEMMA ApplyKeeps ==
  ASSUME NEW d \in Seq(EventId), NEW e \in EventId, NEW b \in 0..Len(d), NEW s,
         StoreSound(s, d, b)
  PROVE  StoreSound(Apply(s, e), Append(d, e), b) /\ Apply(s, e).mode = s.mode
<1>. DEFINE D == Append(d, e)
            t == Apply(s, e)
            noted == Noted(s, Event[e])
<1>1. s \in Store /\ SeenSound(s, d, b) /\ EntitiesSound(s, d, b)
  BY DEF StoreSound
<1>2. IsFresh(D, b, s.mode, Len(d) + 1) <=> Takes(s, e)
  <2>1. IsFresh(D, b, s.mode, Len(d) + 1) <=>
          /\ Event[e].mode = s.mode
          /\ s.seen[Event[e].source] = Unseen
             \/ Event[e].sequence > s.seen[Event[e].source]
    BY <1>1, FreshIsNewer
  <2>2. s.seen[Event[e].source] \in Nat \cup {Unseen} /\ Event[e].sequence \in Nat
    BY <1>1, EventFields DEF Store
  <2>. HIDE DEF D
  <2>. QED  BY <2>1, <2>2 DEF Takes, IsLate, Unseen
<1>3. \A k : IsUpdate(D, b, s.mode, k, Len(d) + 1)
               => Takes(s, e) /\ Event[e].projectable
  BY <1>2, UpdatesAppend
<1>4. /\ noted \in Store
      /\ noted.seen = [s.seen EXCEPT ![Event[e].source] = Event[e].sequence]
      /\ noted.mode = s.mode /\ noted.entities = s.entities
      /\ noted.updates = s.updates /\ noted.archived = s.archived
  BY <1>1, NotedTyped
<1>5. CASE Takes(s, e) /\ Event[e].projectable
  <2>1. t = Show(noted, e)
    BY <1>1, <1>5, ApplyCases
  <2>2. EntitiesSound(noted, d, b)
    BY <1>1, <1>4 DEF EntitiesSound
  <2>3. Show(noted, e) \in Store /\ EntitiesSound(Show(noted, e), D, b)
    BY <1>2, <1>4, <1>5, <2>2, ShowKeeps
  <2>4. Show(noted, e).mode = s.mode /\ Show(noted, e).seen = noted.seen
    BY <1>4 DEF Show, Store
  <2>5. SeenSound(t, D, b)
    BY <1>1, <1>4, <1>5, <2>1, <2>4, SeenKept
  <2>. QED  BY <2>1, <2>3, <2>4, <2>5 DEF StoreSound
<1>6. CASE ~(Takes(s, e) /\ Event[e].projectable)
  <2>1. \A k : ~IsUpdate(D, b, s.mode, k, Len(d) + 1)
    BY <1>3, <1>6
  <2>2. /\ t \in Store /\ t.mode = s.mode /\ t.entities = s.entities
        /\ t.updates = s.updates /\ t.archived = s.archived
        /\ t.seen = IF Takes(s, e)
                    THEN [s.seen EXCEPT ![Event[e].source] = Event[e].sequence] ELSE s.seen
    <3>1. CASE Event[e].mode # s.mode
      BY <1>1, <3>1, ApplyCases DEF Takes, Store
    <3>2. CASE IsLate(s, e)
      BY <1>1, <3>2, ApplyCases DEF Takes
    <3>3. CASE Takes(s, e)
      <4>1. t = [noted EXCEPT !.invalid = @ + 1]
        BY <1>1, <1>6, <3>3, ApplyCases
      <4>. HIDE DEF noted, t
      <4>. QED  BY <1>4, <3>3, <4>1 DEF Store
    <3>. QED  BY <3>1, <3>2, <3>3 DEF Takes
  <2>3. EntitiesSound(t, D, b)
    <3>. HIDE DEF t
    <3>. QED  BY <1>1, <2>1, <2>2, NothingShown
  <2>4. SeenSound(t, D, b)
    <3>. HIDE DEF t
    <3>. QED  BY <1>1, <2>2, SeenKept
  <2>. QED  BY <2>2, <2>3, <2>4 DEF StoreSound
<1>. QED  BY <1>5, <1>6

-----------------------------------------------------------------------------
(* The other methods, and events one after the other.                      *)

\* A session that begins is sound with nothing shown.
LEMMA EmptyIsSound ==
  ASSUME NEW d \in Seq(EventId), NEW s \in Store,
         s.seen = [src \in Source |-> Unseen], s.entities = NoEntities
  PROVE  StoreSound(s, d, Len(d))
<1>1. Session(d, Len(d)) = {}
  BY DEF Session
<1>2. SeenSound(s, d, Len(d))
  BY <1>1 DEF SeenSound
<1>3. DOMAIN s.entities = {}
  BY DEF NoEntities
<1>4. IsFiniteSet({}) /\ Cardinality({}) = 0
  BY FS_EmptySet
<1>5. KeptSound(s.entities, s.updates, d, Len(d), s.mode)
  BY <1>3, <1>4 DEF KeptSound
<1>6. \A c \in BOOLEAN : Cardinality(Class(s.entities, c)) <= Room(c)
  <2>1. \A c \in BOOLEAN : Class(s.entities, c) = {}
    BY <1>3 DEF Class
  <2>2. \A c \in BOOLEAN : 0 <= Room(c)
    BY RoomTyped
  <2>. QED  BY <1>4, <2>1, <2>2
<1>7. MissingSound(s.entities, d, Len(d), s.mode)
  BY <1>1 DEF MissingSound
<1>8. Archived(s.entities, d, Len(d), s.mode) = {}
  BY <1>1 DEF Archived
<1>9. 0 <= s.archived
  <2>1. s.archived \in Nat
    BY StoreFields
  <2>. QED  BY <2>1
<1>. QED  BY <1>2, <1>4, <1>5, <1>6, <1>7, <1>8, <1>9 DEF StoreSound, EntitiesSound

\* Connections and cursors are no matter of what is shown.
LEMMA SameIsSound ==
  ASSUME NEW d, NEW b, NEW s, StoreSound(s, d, b), NEW t \in Store,
         t.mode = s.mode, t.seen = s.seen, t.entities = s.entities,
         t.updates = s.updates, t.archived = s.archived
  PROVE  StoreSound(t, d, b)
BY DEF StoreSound, SeenSound, EntitiesSound

LEMMA ConnectionKeeps ==
  ASSUME NEW d, NEW b, NEW s, StoreSound(s, d, b), NEW c \in ConnectionState
  PROVE  StoreSound(Connection(s, c), d, b)
<1>. DEFINE t == Connection(s, c)
<1>1. s \in Store
  BY DEF StoreSound
<1>2. /\ t \in Store /\ t.mode = s.mode /\ t.seen = s.seen /\ t.entities = s.entities
      /\ t.updates = s.updates /\ t.archived = s.archived
  BY <1>1 DEF Connection, Store
<1>. HIDE DEF t
<1>3. StoreSound(t, d, b)
  BY <1>2, SameIsSound
<1>. QED  BY <1>3 DEF t

LEMMA SyncFields ==
  ASSUME NEW s \in Store, NEW n \in Nat
  PROVE  LET t == CompleteSync(s, n) IN
         /\ t \in Store /\ t.mode = s.mode /\ t.seen = s.seen /\ t.entities = s.entities
         /\ t.updates = s.updates /\ t.archived = s.archived /\ t.invalid = s.invalid
         /\ t.complete = TRUE /\ t.cursor = IF s.cursor < n THEN n ELSE s.cursor
         /\ t.connection = IF s.mode = "REPLAY" THEN "REPLAY" ELSE "LIVE"
BY DEF CompleteSync, Store, ConnectionState

LEMMA SyncKeeps ==
  ASSUME NEW d, NEW b, NEW s, StoreSound(s, d, b), NEW n \in Nat
  PROVE  StoreSound(CompleteSync(s, n), d, b)
<1>1. s \in Store
  BY DEF StoreSound
<1>. QED  BY <1>1, SyncFields, SameIsSound

LEMMA ResetKeeps ==
  ASSUME NEW d \in Seq(EventId), NEW s \in Store
  PROVE  /\ StoreSound(ResetForResync(s), d, Len(d))
         /\ ResetForResync(s).mode = s.mode
<1>. DEFINE t == ResetForResync(s)
<1>1. NoEntities \in UNION {[K -> Projection] : K \in SUBSET Key}
  <2>1. NoEntities \in [{} -> Projection] /\ {} \in SUBSET Key
    BY DEF NoEntities
  <2>. QED  BY <2>1
<1>2. /\ t \in Store /\ t.mode = s.mode
      /\ t.seen = [src \in Source |-> Unseen] /\ t.entities = NoEntities
  BY <1>1 DEF ResetForResync, Connection, Store, ConnectionState
<1>. HIDE DEF t
<1>3. StoreSound(t, d, Len(d))
  BY <1>2, EmptyIsSound
<1>. QED  BY <1>2, <1>3 DEF t

(* The stores that the events of a sequence lead through; a replay also    *)
(* completes a synchronisation after each.                                 *)
After(s, e, n, how) ==
  IF how = "replayed" THEN CompleteSync(Apply(s, e), n) ELSE Apply(s, e)

IsCourse(f, s, q, how) ==
  f = [n \in 0..Len(q) |-> IF n = 0 THEN s ELSE After(f[n - 1], q[n], n, how)]

LEMMA CourseExists ==
  ASSUME NEW s, NEW q \in Seq(EventId), NEW how
  PROVE  \E f : IsCourse(f, s, q, how)
<1>. DEFINE Upto(x) == \E f : f = [n \in 0..x |-> IF n = 0 THEN s
                                               ELSE After(f[n - 1], q[n], n, how)]
            Bad == {x \in Nat : ~Upto(x)}
<1>1. Bad = {}
  <2>1. SUFFICES ASSUME Bad # {} PROVE FALSE
    OBVIOUS
  <2>2. PICK x \in Bad : \A y \in Bad : x <= y
    <3>. HIDE DEF Bad
    <3>1. Bad \subseteq Nat
      BY DEF Bad
    <3>. QED  BY <2>1, <3>1, FirstExists
  <2>3. Upto(0)
    <3>. DEFINE f == [n \in 0..0 |-> s]
    <3>1. f = [n \in 0..0 |-> IF n = 0 THEN s ELSE After(f[n - 1], q[n], n, how)]
      OBVIOUS
    <3>. HIDE DEF f
    <3>. QED  BY <3>1
  <2>4. x \in Nat /\ ~Upto(x)
    BY <2>2
  <2>. HIDE DEF Upto
  <2>5. x # 0
    BY <2>3, <2>4
  <2>6. x - 1 \in Nat /\ x - 1 \notin Bad
    <3>1. Bad \subseteq Nat
      OBVIOUS
    <3>. HIDE DEF Bad
    <3>. QED  BY <2>2, <2>4, <2>5, <3>1
  <2>7. Upto(x - 1)
    BY <2>6
  <2>8. PICK f : f = [n \in 0..(x - 1) |-> IF n = 0 THEN s
                                           ELSE After(f[n - 1], q[n], n, how)]
    BY <2>7 DEF Upto
  <2>. DEFINE g == [n \in 0..x |-> IF n = x THEN After(f[x - 1], q[x], x, how)
                                  ELSE f[n]]
  <2>9. ASSUME NEW n \in 0..x
        PROVE  g[n] = IF n = 0 THEN s ELSE After(g[n - 1], q[n], n, how)
    <3>1. CASE n = x
      <4>1. g[n] = After(f[x - 1], q[x], x, how) /\ g[n - 1] = f[x - 1] /\ n # 0
        BY <2>4, <2>5, <3>1
      <4>. HIDE DEF g
      <4>. QED  BY <3>1, <4>1
    <3>2. CASE n # x
      <4>1. n \in 0..(x - 1) /\ n # x /\ g[n] = f[n]
        BY <2>4, <3>2
      <4>2. n # 0 => g[n - 1] = f[n - 1]
        BY <2>4, <4>1
      <4>3. f[n] = IF n = 0 THEN s ELSE After(f[n - 1], q[n], n, how)
        BY <2>8, <4>1
      <4>. HIDE DEF g
      <4>. QED  BY <4>1, <4>2, <4>3
    <3>. QED  BY <3>1, <3>2
  <2>10. g = [n \in 0..x |-> IF n = 0 THEN s ELSE After(g[n - 1], q[n], n, how)]
    <3>1. g = [n \in 0..x |-> g[n]]
      OBVIOUS
    <3>. HIDE DEF g
    <3>. QED  BY <2>9, <3>1
  <2>11. Upto(x)
    <3>. HIDE DEF g
    <3>. QED  BY <2>10 DEF Upto
  <2>. QED  BY <2>4, <2>11
<1>2. Len(q) \in Nat
  OBVIOUS
<1>3. Upto(Len(q))
  BY <1>1, <1>2
<1>. QED  BY <1>3 DEF IsCourse

LEMMA AllApplied ==
  ASSUME NEW s, NEW q \in Seq(EventId)
  PROVE  \E f : IsCourse(f, s, q, "applied") /\ ApplyAll(s, q) = f[Len(q)]
<1>. DEFINE IsSo(f) == f = [n \in 0..Len(q) |-> IF n = 0 THEN s ELSE Apply(f[n - 1], q[n])]
<1>1. \A x, e, n : After(x, e, n, "applied") = Apply(x, e)
  BY DEF After
<1>2. ASSUME NEW f PROVE IsCourse(f, s, q, "applied") <=> IsSo(f)
  <2>1. [n \in 0..Len(q) |-> IF n = 0 THEN s ELSE After(f[n - 1], q[n], n, "applied")]
          = [n \in 0..Len(q) |-> IF n = 0 THEN s ELSE Apply(f[n - 1], q[n])]
    BY <1>1
  <2>. QED  BY <2>1 DEF IsCourse
<1>3. \E f : IsSo(f)
  BY <1>2, CourseExists
<1>4. ApplyAll(s, q) = (CHOOSE f : IsSo(f))[Len(q)]
  BY DEF ApplyAll
<1>. HIDE DEF IsSo
<1>5. IsSo(CHOOSE f : IsSo(f))
  BY <1>3
<1>. QED  BY <1>2, <1>4, <1>5

\* What holds at 0, and after each number where it holds before, holds up to L.
LEMMA StepByStep ==
  ASSUME NEW L \in Nat, NEW G, 0 \in G, \A n \in 1..L : n - 1 \in G => n \in G
  PROVE  \A n \in 0..L : n \in G
<1>. DEFINE Bad == (0..L) \ G
<1>1. SUFFICES ASSUME Bad # {} PROVE FALSE
  OBVIOUS
<1>2. Bad \subseteq Nat
  OBVIOUS
<1>3. PICK x \in Bad : \A y \in Bad : x <= y
  <2>. HIDE DEF Bad
  <2>. QED  BY <1>1, <1>2, FirstExists
<1>4. x \in 0..L /\ x # 0 /\ x \notin G
  BY <1>3
<1>5. x \in 1..L /\ x - 1 \in 0..L /\ x - 1 \notin Bad
  <2>. HIDE DEF Bad
  <2>. QED  BY <1>2, <1>3, <1>4
<1>6. x - 1 \in G
  BY <1>5
<1>. QED  BY <1>4, <1>5, <1>6

\* One more event of a sequence that follows the deliveries d.
LEMMA PrefixNext ==
  ASSUME NEW d \in Seq(EventId), NEW q \in Seq(EventId), NEW n \in 1..Len(q)
  PROVE  /\ d \o SubSeq(q, 1, n) = Append(d \o SubSeq(q, 1, n - 1), q[n])
         /\ d \o SubSeq(q, 1, n - 1) \in Seq(EventId)
         /\ Len(d \o SubSeq(q, 1, n - 1)) = Len(d) + n - 1
         /\ q[n] \in EventId
<1>1. SubSeq(q, 1, n) = Append(SubSeq(q, 1, n - 1), q[n])
  OBVIOUS
<1>2. SubSeq(q, 1, n - 1) \in Seq(EventId) /\ Len(SubSeq(q, 1, n - 1)) = n - 1 /\ q[n] \in EventId
  OBVIOUS
<1>. DEFINE p == SubSeq(q, 1, n - 1)
<1>. HIDE DEF p
<1>3. d \o Append(p, q[n]) = Append(d \o p, q[n]) /\ d \o p \in Seq(EventId)
      /\ Len(d \o p) = Len(d) + Len(p)
  <2>1. p \in Seq(EventId)
    BY <1>2 DEF p
  <2>. QED  BY <1>2, <2>1
<1>. QED  BY <1>1, <1>2, <1>3 DEF p

\* The stores of a course, from one to the next.
LEMMA CourseSteps ==
  ASSUME NEW s, NEW q \in Seq(EventId), NEW how, NEW f, IsCourse(f, s, q, how)
  PROVE  f[0] = s /\ \A n \in 1..Len(q) : f[n] = After(f[n - 1], q[n], n, how)
<1>1. f = [n \in 0..Len(q) |-> IF n = 0 THEN s ELSE After(f[n - 1], q[n], n, how)]
  BY DEF IsCourse
<1>2. Len(q) \in Nat
  OBVIOUS
<1>3. f[0] = s
  <2>1. 0 \in 0..Len(q)
    BY <1>2
  <2>. QED  BY <1>1, <2>1
<1>4. ASSUME NEW n \in 1..Len(q) PROVE f[n] = After(f[n - 1], q[n], n, how)
  <2>1. n \in 0..Len(q) /\ n # 0
    BY <1>2
  <2>. QED  BY <1>1, <2>1
<1>. QED  BY <1>3, <1>4

\* Events one after the other keep a store sound.
LEMMA AllAppliedKeeps ==
  ASSUME NEW d \in Seq(EventId), NEW q \in Seq(EventId), NEW b \in 0..Len(d), NEW s,
         StoreSound(s, d, b)
  PROVE  StoreSound(ApplyAll(s, q), d \o q, b) /\ ApplyAll(s, q).mode = s.mode
<1>1. PICK f : IsCourse(f, s, q, "applied") /\ ApplyAll(s, q) = f[Len(q)]
  BY AllApplied
<1>2. f[0] = s /\ \A n \in 1..Len(q) : f[n] = Apply(f[n - 1], q[n])
  <2>1. f[0] = s /\ \A n \in 1..Len(q) : f[n] = After(f[n - 1], q[n], n, "applied")
    BY <1>1, CourseSteps
  <2>. QED  BY <2>1 DEF After
<1>. DEFINE G == {n \in 0..Len(q) : /\ StoreSound(f[n], d \o SubSeq(q, 1, n), b)
                                    /\ f[n].mode = s.mode}
<1>3. 0 \in G
  <2>1. d \o SubSeq(q, 1, 0) = d /\ 0 \in 0..Len(q)
    OBVIOUS
  <2>. QED  BY <1>2, <2>1
<1>4. ASSUME NEW n \in 1..Len(q), n - 1 \in G PROVE n \in G
  <2>. DEFINE p == d \o SubSeq(q, 1, n - 1)
  <2>1. /\ d \o SubSeq(q, 1, n) = Append(p, q[n])
        /\ p \in Seq(EventId) /\ Len(p) = Len(d) + n - 1 /\ q[n] \in EventId
    BY PrefixNext
  <2>2. StoreSound(f[n - 1], p, b) /\ f[n - 1].mode = s.mode
    BY <1>4
  <2>. HIDE DEF p
  <2>3. b \in 0..Len(p)
    BY <2>1
  <2>4. StoreSound(f[n], Append(p, q[n]), b) /\ f[n].mode = s.mode
    BY <1>2, <2>1, <2>2, <2>3, ApplyKeeps
  <2>5. n \in 0..Len(q)
    OBVIOUS
  <2>. QED  BY <2>1, <2>4, <2>5 DEF p
<1>5. Len(q) \in Nat
  OBVIOUS
<1>6. Len(q) \in G
  <2>1. Len(q) \in 0..Len(q)
    BY <1>5
  <2>. HIDE DEF G
  <2>2. \A n \in 0..Len(q) : n \in G
    BY <1>3, <1>4, <1>5, StepByStep
  <2>. QED  BY <2>1, <2>2
<1>7. d \o SubSeq(q, 1, Len(q)) = d \o q
  OBVIOUS
<1>. QED  BY <1>1, <1>6, <1>7

-----------------------------------------------------------------------------
(* The recording.                                                          *)

Places == DOMAIN Recorded

\* Each place of what was given has an event with a time.
LEMMA PlaceFields ==
  ASSUME NEW i \in Places
  PROVE  /\ i \in Nat /\ Recorded[i] \in EventId /\ Recorded[i] \in Nat
         /\ Event[Recorded[i]].receivedAt \in Nat
<1>1. i \in Nat /\ Recorded[i] \in EventId
  BY ConsoleAssumption DEF Places
<1>. QED  BY <1>1, EventFields, UiAssumption

\* Of some of the events given one comes before all others.
LEMMA EarliestExists ==
  ASSUME NEW S \in SUBSET Places, S # {}
  PROVE  \E m \in S : \A i \in S \ {m} : Before(m, i)
<1>. DEFINE At(i) == Event[Recorded[i]].receivedAt
            times == {At(i) : i \in S}
<1>1. times \in SUBSET Nat /\ times # {}
  BY PlaceFields
<1>2. PICK v \in times : \A w \in times : v <= w
  <2>. HIDE DEF times
  <2>. QED  BY <1>1, FirstExists
<1>. DEFINE first == {i \in S : At(i) = v}
            ids == {Recorded[i] : i \in first}
<1>3. ids \in SUBSET Nat /\ ids # {}
  BY <1>2, PlaceFields
<1>4. PICK d \in ids : \A e \in ids : d <= e
  <2>. HIDE DEF ids
  <2>. QED  BY <1>3, FirstExists
<1>. DEFINE same == {i \in first : Recorded[i] = d}
<1>5. same \in SUBSET Nat /\ same # {}
  BY <1>4, PlaceFields
<1>6. PICK m \in same : \A i \in same : m <= i
  <2>. HIDE DEF same
  <2>. QED  BY <1>5, FirstExists
<1>7. m \in S /\ At(m) = v /\ Recorded[m] = d
  BY <1>6
<1>8. ASSUME NEW i \in S \ {m} PROVE Before(m, i)
  <2>1. /\ v \in Nat /\ At(i) \in Nat /\ v <= At(i)
        /\ i \in Nat /\ m \in Nat /\ Recorded[i] \in Nat /\ d \in Nat
    BY <1>1, <1>2, <1>7, PlaceFields
  <2>2. At(i) = v => d <= Recorded[i]
    BY <1>4
  <2>3. At(i) = v /\ Recorded[i] = d => m <= i /\ m # i
    BY <1>6
  <2>. QED  BY <1>7, <2>1, <2>2, <2>3 DEF Before
<1>. QED  BY <1>7, <1>8

IsSorted(r) == \A i, j \in DOMAIN r : i < j => Before(r[i], r[j])

\* As many places as there are events.
LEMMA PlacesFinite ==
  /\ Len(Recorded) \in Nat /\ Places = 1..Len(Recorded)
  /\ IsFiniteSet(Places) /\ Cardinality(Places) = Len(Recorded)
<1>1. Len(Recorded) \in Nat /\ Places = 1..Len(Recorded)
  BY ConsoleAssumption DEF Places
<1>2. PICK n \in Nat : n = Len(Recorded)
  BY <1>1
<1>3. IsFiniteSet(1..n) /\ Cardinality(1..n) = IF 1 > n THEN 0 ELSE n - 1 + 1
  <2>1. 1 \in Int /\ n \in Int
    OBVIOUS
  <2>. QED  BY <2>1, FS_Interval
<1>4. (IF 1 > n THEN 0 ELSE n - 1 + 1) = n
  OBVIOUS
<1>. QED  BY <1>1, <1>2, <1>3, <1>4

\* Finitely many events can be sorted.
LEMMA SortedExists ==
  ASSUME NEW L \in Nat
  PROVE  \A S \in SUBSET Places : Cardinality(S) = L => \E r \in [1..L -> S] : IsSorted(r)
<1>. DEFINE Sorts(n) == \A S \in SUBSET Places :
                          Cardinality(S) = n => \E r \in [1..n -> S] : IsSorted(r)
            G == {n \in Nat : Sorts(n)}
<1>1. 0 \in G
  <2>1. ASSUME NEW S PROVE \E r \in [1..0 -> S] : IsSorted(r)
    <3>. DEFINE r == [i \in 1..0 |-> 0]
    <3>1. r \in [1..0 -> S] /\ DOMAIN r = {}
      OBVIOUS
    <3>. QED  BY <3>1 DEF IsSorted
  <2>. QED  BY <2>1
<1>2. ASSUME NEW n \in 1..L, n - 1 \in G PROVE n \in G
  <2>1. n \in Nat /\ n > 0
    OBVIOUS
  <2>2. SUFFICES ASSUME NEW S \in SUBSET Places, Cardinality(S) = n
        PROVE  \E r \in [1..n -> S] : IsSorted(r)
    BY <2>1
  <2>3. IsFiniteSet(S)
    BY PlacesFinite, FS_Subset
  <2>4. S # {}
    BY <2>1, <2>2, FS_EmptySet
  <2>5. PICK m \in S : \A e \in S \ {m} : Before(m, e)
    BY <2>4, EarliestExists
  <2>6. Cardinality(S \ {m}) = n - 1
    BY <2>2, <2>3, FS_RemoveElement
  <2>7. PICK old \in [1..(n - 1) -> S \ {m}] : IsSorted(old)
    BY <1>2, <2>6
  <2>. DEFINE r == [i \in 1..n |-> IF i = 1 THEN m ELSE old[i - 1]]
  <2>8. \A i \in 1..n : i # 1 => i - 1 \in 1..(n - 1)
    BY <2>1
  <2>9. r \in [1..n -> S]
    BY <2>7, <2>8
  <2>10. ASSUME NEW i \in 1..n, NEW j \in 1..n, i < j PROVE Before(r[i], r[j])
    <3>1. j # 1 /\ r[j] = old[j - 1] /\ j - 1 \in 1..(n - 1)
      BY <2>8, <2>10
    <3>2. CASE i = 1
      <4>1. r[i] = m /\ old[j - 1] \in S \ {m}
        BY <2>7, <3>1, <3>2
      <4>. HIDE DEF r
      <4>. QED  BY <2>5, <3>1, <4>1
    <3>3. CASE i # 1
      <4>1. r[i] = old[i - 1] /\ i - 1 \in 1..(n - 1) /\ i - 1 < j - 1
        BY <2>8, <2>10, <3>3
      <4>. HIDE DEF r
      <4>. QED  BY <2>7, <3>1, <4>1 DEF IsSorted
    <3>. QED  BY <3>2, <3>3
  <2>. QED  BY <2>9, <2>10 DEF IsSorted
<1>3. L \in G
  <2>1. L \in 0..L
    OBVIOUS
  <2>. HIDE DEF G
  <2>2. \A n \in 0..L : n \in G
    BY <1>1, <1>2, StepByStep
  <2>. QED  BY <2>1, <2>2
<1>. QED  BY <1>3

\* The recording is a sequence of the events given.
LEMMA RecordingTyped ==
  /\ Recording \in Seq(EventId) /\ Len(Recording) = Len(Recorded)
  /\ Len(Recording) \in Nat
  /\ \A i \in 1..Len(Recording) : Event[Recording[i]].mode = "REPLAY"
<1>. DEFINE N == Len(Recorded)
<1>1. N \in Nat /\ Places = 1..N /\ Cardinality(Places) = N
  BY PlacesFinite
<1>. HIDE DEF N
<1>2. \E r \in [1..N -> Places] : IsSorted(r)
  BY <1>1, SortedExists
<1>3. Order = CHOOSE r \in [1..N -> Places] : IsSorted(r)
  BY <1>1 DEF Order, IsSorted, Places
<1>4. Order \in [1..N -> Places]
  BY <1>2, <1>3
<1>5. Recording = [i \in 1..N |-> Recorded[Order[i]]]
  BY <1>1 DEF Recording, Places
<1>6. ASSUME NEW i \in 1..N
      PROVE  Recording[i] \in EventId /\ Event[Recording[i]].mode = "REPLAY"
  <2>1. Order[i] \in Places /\ Recording[i] = Recorded[Order[i]]
    BY <1>4, <1>5
  <2>. QED  BY <2>1, ConsoleAssumption DEF Places
<1>7. Recording \in Seq(EventId) /\ Len(Recording) = N
  BY <1>1, <1>5, <1>6
<1>. QED  BY <1>1, <1>6, <1>7 DEF N

LEMMA UpToTyped ==
  ASSUME NEW t
  PROVE  UpTo(t) \in 0..Len(Recording)
<1>1. {i \in Places : Event[Recorded[i]].receivedAt <= t} \in SUBSET Places
  OBVIOUS
<1>2. UpTo(t) \in Nat /\ UpTo(t) <= Cardinality(Places)
  BY <1>1, PlacesFinite, FS_Subset, FS_CardinalityType DEF UpTo, Places
<1>3. Len(Recording) = Cardinality(Places) /\ Len(Recording) \in Nat
  BY RecordingTyped, PlacesFinite
<1>. QED  BY <1>2, <1>3

\* A new store is sound where nothing was delivered.
LEMMA NewIsSound ==
  ASSUME NEW m \in Mode
  PROVE  /\ StoreSound(NewStore(m), <<>>, 0)
         /\ NewStore(m).mode = m /\ NewStore(m).cursor = 0
         /\ NewStore(m).connection = "DISCONNECTED"
<1>. DEFINE s == NewStore(m)
<1>1. NoEntities \in UNION {[K -> Projection] : K \in SUBSET Key}
  <2>1. NoEntities \in [{} -> Projection] /\ {} \in SUBSET Key
    BY DEF NoEntities
  <2>. QED  BY <2>1
<1>2. /\ s \in Store /\ s.mode = m /\ s.cursor = 0 /\ s.connection = "DISCONNECTED"
      /\ s.seen = [src \in Source |-> Unseen] /\ s.entities = NoEntities
  BY <1>1 DEF NewStore, Store, ConnectionState
<1>3. <<>> \in Seq(EventId) /\ Len(<<>>) = 0
  OBVIOUS
<1>. HIDE DEF s
<1>4. StoreSound(s, <<>>, Len(<<>>))
  BY <1>2, <1>3, EmptyIsSound
<1>. QED  BY <1>2, <1>3, <1>4 DEF s

-----------------------------------------------------------------------------
(* Seeking and stepping.                                                   *)

\* Two stores that differ in their connection and cursor only.
Agree(s, t) ==
  /\ s.mode = t.mode /\ s.invalid = t.invalid /\ s.archived = t.archived
  /\ s.seen = t.seen /\ s.updates = t.updates /\ s.entities = t.entities

\* An event moves the cursor by one at most.
LEMMA ApplyCursor ==
  ASSUME NEW s \in Store, NEW e \in EventId, IsFiniteSet(DOMAIN s.entities),
         \A k \in DOMAIN s.entities : s.entities[k].at <= s.updates
  PROVE  Apply(s, e).cursor \in {s.cursor, s.cursor + 1}
<1>. DEFINE noted == Noted(s, Event[e])
<1>1. /\ noted \in Store /\ noted.entities = s.entities /\ noted.updates = s.updates
      /\ noted.cursor = s.cursor
  BY NotedTyped
<1>2. Show(noted, e).cursor = noted.cursor + 1
  <2>. HIDE DEF noted
  <2>. QED  BY <1>1, ShowFields
<1>3. CASE Event[e].mode # s.mode
  BY <1>3, ApplyCases DEF Store
<1>4. CASE IsLate(s, e)
  BY <1>4, ApplyCases
<1>5. CASE Takes(s, e) /\ ~Event[e].projectable
  <2>1. Apply(s, e) = [noted EXCEPT !.invalid = @ + 1]
    BY <1>5, ApplyCases
  <2>. HIDE DEF noted
  <2>. QED  BY <1>1, <2>1 DEF Store
<1>6. CASE Takes(s, e) /\ Event[e].projectable
  <2>1. Apply(s, e) = Show(noted, e)
    BY <1>6, ApplyCases
  <2>. QED  BY <1>1, <1>2, <2>1
<1>. QED  BY <1>3, <1>4, <1>5, <1>6 DEF Takes

LEMMA ApplyTyped ==
  ASSUME NEW s \in Store, NEW e \in EventId, IsFiniteSet(DOMAIN s.entities),
         \A k \in DOMAIN s.entities : s.entities[k].at <= s.updates
  PROVE  Apply(s, e) \in Store
<1>. DEFINE noted == Noted(s, Event[e])
<1>1. noted \in Store /\ noted.entities = s.entities /\ noted.updates = s.updates
  BY NotedTyped
<1>2. Show(noted, e) \in Store
  <2>. HIDE DEF noted
  <2>. QED  BY <1>1, ShowFields
<1>3. [s EXCEPT !.invalid = @ + 1] \in Store
  BY DEF Store
<1>4. [noted EXCEPT !.invalid = @ + 1] \in Store
  <2>. HIDE DEF noted
  <2>. QED  BY <1>1 DEF Store
<1>5. Apply(s, e) \in {s, [s EXCEPT !.invalid = @ + 1],
                      [noted EXCEPT !.invalid = @ + 1], Show(noted, e)}
  <2>. HIDE DEF noted
  <2>. QED  BY DEF Apply, noted
<1>. QED  BY <1>2, <1>3, <1>4, <1>5

\* Stores that agree make the same of an event.
LEMMA ApplyAgrees ==
  ASSUME NEW s \in Store, NEW t \in Store, NEW e \in EventId, Agree(s, t),
         IsFiniteSet(DOMAIN s.entities),
         \A k \in DOMAIN s.entities : s.entities[k].at <= s.updates
  PROVE  Agree(Apply(s, e), Apply(t, e))
<1>. DEFINE ns == Noted(s, Event[e])
            nt == Noted(t, Event[e])
<1>1. /\ s.mode = t.mode /\ s.invalid = t.invalid /\ s.archived = t.archived
      /\ s.seen = t.seen /\ s.updates = t.updates /\ s.entities = t.entities
  BY DEF Agree
<1>2. IsLate(s, e) <=> IsLate(t, e)
  BY <1>1 DEF IsLate
<1>3. /\ ns \in Store /\ ns.mode = s.mode /\ ns.invalid = s.invalid
      /\ ns.archived = s.archived /\ ns.updates = s.updates /\ ns.entities = s.entities
      /\ ns.seen = [s.seen EXCEPT ![Event[e].source] = Event[e].sequence]
  BY NotedTyped
<1>4. /\ nt \in Store /\ nt.mode = t.mode /\ nt.invalid = t.invalid
      /\ nt.archived = t.archived /\ nt.updates = t.updates /\ nt.entities = t.entities
      /\ nt.seen = [t.seen EXCEPT ![Event[e].source] = Event[e].sequence]
  BY NotedTyped
<1>5. Agree(ns, nt)
  <2>. HIDE DEF ns, nt
  <2>. QED  BY <1>1, <1>3, <1>4 DEF Agree
<1>6. CASE Event[e].mode # s.mode
  <2>1. Apply(s, e) = [s EXCEPT !.invalid = @ + 1] /\ Apply(t, e) = [t EXCEPT !.invalid = @ + 1]
    BY <1>1, <1>6, ApplyCases
  <2>. QED  BY <1>1, <2>1 DEF Agree, Store
<1>7. CASE IsLate(s, e)
  <2>1. Apply(s, e) = s /\ Apply(t, e) = t
    BY <1>2, <1>7, ApplyCases
  <2>. QED  BY <2>1
<1>8. CASE Takes(s, e) /\ ~Event[e].projectable
  <2>1. /\ Apply(s, e) = [ns EXCEPT !.invalid = @ + 1]
        /\ Apply(t, e) = [nt EXCEPT !.invalid = @ + 1]
    BY <1>1, <1>2, <1>8, ApplyCases DEF Takes
  <2>. HIDE DEF ns, nt
  <2>. QED  BY <1>3, <1>4, <1>5, <2>1 DEF Agree, Store
<1>9. CASE Takes(s, e) /\ Event[e].projectable
  <2>1. Apply(s, e) = Show(ns, e) /\ Apply(t, e) = Show(nt, e)
    BY <1>1, <1>2, <1>9, ApplyCases DEF Takes
  <2>. HIDE DEF ns, nt
  <2>2. Project(ns, e) = Project(nt, e)
    BY <1>5 DEF Project, Agree
  <2>3. /\ Show(ns, e).entities = Trimmed(Project(ns, e))
        /\ Show(ns, e).updates = ns.updates + Len(Event[e].keys)
        /\ Show(ns, e).archived = ns.archived
             + Cardinality(Class(Project(ns, e), TRUE) \ DOMAIN Show(ns, e).entities)
        /\ Show(ns, e).mode = ns.mode /\ Show(ns, e).seen = ns.seen
        /\ Show(ns, e).invalid = ns.invalid
    BY <1>3, ShowFields
  <2>4. /\ Show(nt, e).entities = Trimmed(Project(nt, e))
        /\ Show(nt, e).updates = nt.updates + Len(Event[e].keys)
        /\ Show(nt, e).archived = nt.archived
             + Cardinality(Class(Project(nt, e), TRUE) \ DOMAIN Show(nt, e).entities)
        /\ Show(nt, e).mode = nt.mode /\ Show(nt, e).seen = nt.seen
        /\ Show(nt, e).invalid = nt.invalid
    <3>1. /\ IsFiniteSet(DOMAIN nt.entities)
          /\ \A k \in DOMAIN nt.entities : nt.entities[k].at <= nt.updates
      BY <1>1, <1>4
    <3>. QED  BY <1>4, <3>1, ShowFields
  <2>5. Agree(Show(ns, e), Show(nt, e))
    BY <1>5, <2>2, <2>3, <2>4 DEF Agree
  <2>. QED  BY <2>1, <2>5
<1>. QED  BY <1>6, <1>7, <1>8, <1>9 DEF Takes

\* What a store that is sound says of its entities.
LEMMA SoundFields ==
  ASSUME NEW d, NEW b, NEW s, StoreSound(s, d, b)
  PROVE  /\ s \in Store /\ IsFiniteSet(DOMAIN s.entities)
         /\ \A k \in DOMAIN s.entities : s.entities[k].at <= s.updates
BY DEF StoreSound, EntitiesSound, KeptSound

\* Stepping from the start of the recording.
LEMMA SteppedCourse ==
  IsCourse(Stepped, CompleteSync(NewStore("REPLAY"), 0), Recording, "replayed")
<1>. DEFINE s == CompleteSync(NewStore("REPLAY"), 0)
            IsSo(f) == f = [n \in 0..Len(Recording) |->
                              IF n = 0 THEN s
                              ELSE CompleteSync(Apply(f[n - 1], Recording[n]), n)]
<1>1. \A x, e, n : After(x, e, n, "replayed") = CompleteSync(Apply(x, e), n)
  BY DEF After
<1>2. ASSUME NEW f PROVE IsCourse(f, s, Recording, "replayed") <=> IsSo(f)
  <2>. HIDE DEF s
  <2>1. [n \in 0..Len(Recording) |->
           IF n = 0 THEN s ELSE After(f[n - 1], Recording[n], n, "replayed")]
          = [n \in 0..Len(Recording) |->
               IF n = 0 THEN s ELSE CompleteSync(Apply(f[n - 1], Recording[n]), n)]
    BY <1>1
  <2>. QED  BY <2>1 DEF IsCourse
<1>3. \E f : IsSo(f)
  <2>1. Recording \in Seq(EventId)
    BY RecordingTyped
  <2>2. \E f : IsCourse(f, s, Recording, "replayed")
    BY <2>1, CourseExists
  <2>. HIDE DEF IsSo, s
  <2>. QED  BY <1>2, <2>2
<1>4. Stepped = CHOOSE f : IsSo(f)
  BY DEF Stepped
<1>. HIDE DEF IsSo
<1>5. IsSo(Stepped)
  BY <1>3, <1>4
<1>. QED  BY <1>2, <1>5

\* What stepping to a position leads to, but for what the entities are.
IsStepped(s, n) ==
  /\ StoreSound(s, SubSeq(Recording, 1, n), 0)
  /\ s.mode = "REPLAY" /\ s.connection = "REPLAY" /\ s.complete = TRUE /\ s.cursor = n

LEMMA SteppedNext ==
  ASSUME NEW s, NEW n \in 1..Len(Recording), IsStepped(s, n - 1)
  PROVE  IsStepped(CompleteSync(Apply(s, Recording[n]), n), n)
<1>. DEFINE p == SubSeq(Recording, 1, n - 1)
            e == Recording[n]
            t == Apply(s, e)
<1>1. Recording \in Seq(EventId) /\ e \in EventId /\ n \in Nat /\ n > 0
  BY RecordingTyped
<1>2. SubSeq(Recording, 1, n) = Append(p, e) /\ p \in Seq(EventId) /\ 0 \in 0..Len(p)
  BY <1>1
<1>3. StoreSound(s, p, 0) /\ s.mode = "REPLAY" /\ s.cursor = n - 1
  BY DEF IsStepped
<1>. HIDE DEF p, e
<1>4. StoreSound(t, Append(p, e), 0) /\ t.mode = "REPLAY"
  BY <1>1, <1>2, <1>3, ApplyKeeps
<1>5. t.cursor \in {n - 1, n}
  <2>1. /\ s \in Store /\ IsFiniteSet(DOMAIN s.entities)
        /\ \A k \in DOMAIN s.entities : s.entities[k].at <= s.updates
    BY <1>3, SoundFields
  <2>2. t.cursor \in {s.cursor, s.cursor + 1}
    BY <1>1, <2>1, ApplyCursor
  <2>. HIDE DEF t
  <2>. QED  BY <1>1, <1>3, <2>2
<1>6. t \in Store
  BY <1>4, SoundFields
<1>. HIDE DEF t
<1>7. StoreSound(CompleteSync(t, n), Append(p, e), 0)
  BY <1>1, <1>4, SyncKeeps
<1>8. /\ CompleteSync(t, n).mode = "REPLAY" /\ CompleteSync(t, n).connection = "REPLAY"
      /\ CompleteSync(t, n).complete = TRUE
      /\ CompleteSync(t, n).cursor = IF t.cursor < n THEN n ELSE t.cursor
  BY <1>1, <1>4, <1>6, SyncFields
<1>9. CompleteSync(t, n).cursor = n
  BY <1>1, <1>5, <1>8
<1>. QED  BY <1>2, <1>7, <1>8, <1>9 DEF IsStepped, t, e

\* A replay that starts, from a new store.
LEMMA StartIsStepped ==
  IsStepped(CompleteSync(NewStore("REPLAY"), 0), 0)
<1>. DEFINE s == NewStore("REPLAY")
<1>1. StoreSound(s, <<>>, 0) /\ s.mode = "REPLAY" /\ s.cursor = 0
  BY NewIsSound DEF Mode
<1>2. s \in Store
  BY <1>1, SoundFields
<1>. HIDE DEF s
<1>3. StoreSound(CompleteSync(s, 0), <<>>, 0)
  BY <1>1, SyncKeeps
<1>4. /\ CompleteSync(s, 0).mode = "REPLAY" /\ CompleteSync(s, 0).connection = "REPLAY"
      /\ CompleteSync(s, 0).complete = TRUE /\ CompleteSync(s, 0).cursor = 0
  <2>1. PICK n \in Nat : n = 0
    OBVIOUS
  <2>2. /\ CompleteSync(s, n).mode = "REPLAY" /\ CompleteSync(s, n).connection = "REPLAY"
        /\ CompleteSync(s, n).complete = TRUE
        /\ CompleteSync(s, n).cursor = IF s.cursor < n THEN n ELSE s.cursor
    BY <1>1, <1>2, SyncFields
  <2>3. CompleteSync(s, n).cursor = 0
    BY <1>1, <2>1, <2>2
  <2>. QED  BY <2>1, <2>2, <2>3
<1>5. SubSeq(Recording, 1, 0) = <<>>
  <2>1. Recording \in Seq(EventId)
    BY RecordingTyped
  <2>. QED  BY <2>1
<1>. QED  BY <1>3, <1>4, <1>5 DEF IsStepped, s

LEMMA SteppedSound ==
  /\ Stepped[0] = CompleteSync(NewStore("REPLAY"), 0)
  /\ \A n \in 1..Len(Recording) :
       Stepped[n] = CompleteSync(Apply(Stepped[n - 1], Recording[n]), n)
  /\ \A n \in 0..Len(Recording) : IsStepped(Stepped[n], n)
<1>. DEFINE L == Len(Recording)
            G == {n \in 0..L : IsStepped(Stepped[n], n)}
<1>1. Recording \in Seq(EventId) /\ L \in Nat
  BY RecordingTyped
<1>2. /\ Stepped[0] = CompleteSync(NewStore("REPLAY"), 0)
      /\ \A n \in 1..L : Stepped[n] = After(Stepped[n - 1], Recording[n], n, "replayed")
  BY <1>1, SteppedCourse, CourseSteps
<1>3. \A n \in 1..L : Stepped[n] = CompleteSync(Apply(Stepped[n - 1], Recording[n]), n)
  BY <1>2 DEF After
<1>4. 0 \in G
  BY <1>1, <1>2, StartIsStepped
<1>5. ASSUME NEW n \in 1..L, n - 1 \in G PROVE n \in G
  <2>1. IsStepped(Stepped[n - 1], n - 1)
    BY <1>5
  <2>2. IsStepped(Stepped[n], n)
    BY <1>3, <2>1, SteppedNext
  <2>. QED  BY <2>2
<1>6. \A n \in 0..L : n \in G
  <2>. HIDE DEF G
  <2>. QED  BY <1>1, <1>4, <1>5, StepByStep
<1>. QED  BY <1>2, <1>3, <1>6

\* Stores are the same whose fields are.
LEMMA SameStore ==
  ASSUME NEW s \in Store, NEW t \in Store, Agree(s, t), s.connection = t.connection,
         s.complete = t.complete, s.cursor = t.cursor
  PROVE  s = t
BY DEF Store, Agree

(* Seeking to a position makes of a new store what stepping there makes of *)
(* one: on the way the two differ in connection and cursor only, and the   *)
(* synchronisation that ends a seek sets both.                             *)
LEMMA SeekIsStepping ==
  ASSUME NEW L \in 0..Len(Recording)
  PROVE  LET start == Connection(NewStore("REPLAY"), "SYNCING") IN
         CompleteSync(ApplyAll(start, SubSeq(Recording, 1, L)), L) = Stepped[L]
<1>. DEFINE new == NewStore("REPLAY")
            start == Connection(new, "SYNCING")
            q == SubSeq(Recording, 1, L)
<1>1. Recording \in Seq(EventId) /\ L \in Nat /\ L <= Len(Recording)
  BY RecordingTyped
<1>2. /\ q \in Seq(EventId) /\ Len(q) = L
      /\ \A n \in 1..L : q[n] = Recording[n] /\ q[n] \in EventId
  BY <1>1
<1>3. /\ start \in Store /\ start.mode = "REPLAY" /\ start.cursor = 0
      /\ Agree(start, Stepped[0])
  <2>1. StoreSound(new, <<>>, 0) /\ new.mode = "REPLAY" /\ new.cursor = 0
    BY NewIsSound DEF Mode
  <2>2. new \in Store
    BY <2>1, SoundFields
  <2>3. Stepped[0] = CompleteSync(new, 0)
    BY SteppedSound
  <2>. HIDE DEF new
  <2>4. /\ start \in Store /\ start.mode = "REPLAY" /\ start.cursor = 0 /\ Agree(start, new)
    BY <2>1, <2>2 DEF Connection, Store, ConnectionState, Agree
  <2>5. Agree(new, CompleteSync(new, 0))
    BY <2>2 DEF CompleteSync, Store, Agree
  <2>. HIDE DEF start
  <2>6. Agree(start, CompleteSync(new, 0))
    BY <2>4, <2>5 DEF Agree
  <2>. QED  BY <2>3, <2>4, <2>6
<1>. HIDE DEF start, q
<1>4. PICK f : IsCourse(f, start, q, "applied") /\ ApplyAll(start, q) = f[Len(q)]
  BY <1>2, AllApplied
<1>5. f[0] = start /\ \A n \in 1..L : f[n] = Apply(f[n - 1], q[n])
  <2>1. f[0] = start /\ \A n \in 1..L : f[n] = After(f[n - 1], q[n], n, "applied")
    BY <1>2, <1>4, CourseSteps
  <2>. QED  BY <2>1 DEF After
<1>. DEFINE G == {n \in 0..L : /\ f[n] \in Store /\ f[n].cursor <= n
                               /\ Agree(f[n], Stepped[n])}
<1>6. 0 \in G
  BY <1>1, <1>3, <1>5
<1>7. ASSUME NEW n \in 1..L, n - 1 \in G PROVE n \in G
  <2>. DEFINE e == Recording[n]
              s == f[n - 1]
              t == Stepped[n - 1]
  <2>1. /\ n \in 1..Len(Recording) /\ n - 1 \in 0..Len(Recording) /\ n \in 0..L
        /\ e \in EventId /\ q[n] = e /\ n \in Nat /\ n > 0
    BY <1>1, <1>2
  <2>2. s \in Store /\ s.cursor <= n - 1 /\ Agree(s, t)
    BY <1>7
  <2>3. IsStepped(t, n - 1) /\ Stepped[n] = CompleteSync(Apply(t, e), n)
    BY <2>1, SteppedSound
  <2>4. StoreSound(t, SubSeq(Recording, 1, n - 1), 0)
    BY <2>3 DEF IsStepped
  <2>5. f[n] = Apply(s, e)
    BY <1>5, <2>1
  <2>. HIDE DEF e, s, t
  <2>6. /\ t \in Store /\ IsFiniteSet(DOMAIN t.entities)
        /\ \A k \in DOMAIN t.entities : t.entities[k].at <= t.updates
    BY <2>4, SoundFields
  <2>7. /\ IsFiniteSet(DOMAIN s.entities)
        /\ \A k \in DOMAIN s.entities : s.entities[k].at <= s.updates
    BY <2>2, <2>6 DEF Agree
  <2>8. Agree(Apply(s, e), Apply(t, e))
    BY <2>1, <2>2, <2>6, <2>7, ApplyAgrees
  <2>9. Apply(s, e) \in Store
    BY <2>1, <2>2, <2>7, ApplyTyped
  <2>10. Apply(t, e) \in Store
    BY <2>1, <2>6, ApplyTyped
  <2>11. Apply(s, e).cursor <= n
    <3>1. Apply(s, e).cursor \in {s.cursor, s.cursor + 1}
      BY <2>1, <2>2, <2>7, ApplyCursor
    <3>2. s.cursor \in Nat
      BY <2>2, StoreFields
    <3>. QED  BY <2>1, <2>2, <3>1, <3>2
  <2>12. Agree(Apply(t, e), CompleteSync(Apply(t, e), n))
    BY <2>1, <2>10, SyncFields DEF Agree
  <2>13. Agree(f[n], Stepped[n])
    BY <2>3, <2>5, <2>8, <2>12 DEF Agree
  <2>. QED  BY <2>1, <2>5, <2>9, <2>11, <2>13
<1>8. L \in G
  <2>1. L \in 0..L
    BY <1>1
  <2>. HIDE DEF G
  <2>2. \A n \in 0..L : n \in G
    BY <1>1, <1>6, <1>7, StepByStep
  <2>. QED  BY <2>1, <2>2
<1>9. f[L] \in Store /\ f[L].cursor <= L /\ Agree(f[L], Stepped[L]) /\ f[L].cursor \in Nat
  BY <1>8, StoreFields
<1>10. /\ Stepped[L] \in Store /\ Stepped[L].mode = "REPLAY"
       /\ Stepped[L].connection = "REPLAY" /\ Stepped[L].complete = TRUE
       /\ Stepped[L].cursor = L
  <2>1. IsStepped(Stepped[L], L)
    BY SteppedSound
  <2>. QED  BY <2>1, SoundFields DEF IsStepped
<1>11. LET t == CompleteSync(f[L], L) IN
       /\ t \in Store /\ t.mode = f[L].mode /\ t.seen = f[L].seen
       /\ t.entities = f[L].entities /\ t.updates = f[L].updates
       /\ t.archived = f[L].archived /\ t.invalid = f[L].invalid
       /\ t.complete = TRUE /\ t.cursor = IF f[L].cursor < L THEN L ELSE f[L].cursor
       /\ t.connection = IF f[L].mode = "REPLAY" THEN "REPLAY" ELSE "LIVE"
  BY <1>1, <1>9, SyncFields
<1>12. CompleteSync(f[L], L) = Stepped[L]
  <2>. DEFINE t == CompleteSync(f[L], L)
  <2>1. Agree(t, Stepped[L])
    BY <1>9, <1>11 DEF Agree
  <2>2. t.cursor = L
    BY <1>1, <1>9, <1>11
  <2>3. t.connection = "REPLAY"
    BY <1>9, <1>10, <1>11 DEF Agree
  <2>. QED  BY <1>10, <1>11, <2>1, <2>2, <2>3, SameStore
<1>. QED  BY <1>2, <1>4, <1>12 DEF start, q

-----------------------------------------------------------------------------
(* The whole view.                                                         *)

\* As Unbroken, of any deliveries of which those after the first a count.
Earlier(d, b, m, i) ==
  {Event[d[j]].sequence : j \in {x \in (b + 1)..(i - 1) : Alike(d, m, x, d[i])}}

Follows(d, b, m, i) ==
  i > b /\ IsFresh(d, b, m, i) /\ Earlier(d, b, m, i) # {}
    => Event[d[i]].sequence - 1 \in Earlier(d, b, m, i)

LEMMA UnbrokenIs ==
  /\ Unbroken <=> \A i \in (syncedAt + 1)..Len(delivered) :
                    Follows(delivered, base, store.mode, i)
  /\ Unbroken' <=> \A i \in (syncedAt' + 1)..Len(delivered') :
                     Follows(delivered', base', store'.mode, i)
BY DEF Unbroken, Fresh, SameSource, Follows, IsFresh, Earlier, Alike

\* A number is missing before the event.
IsGap(s, e) ==
  /\ Takes(s, e) /\ s.seen[Event[e].source] # Unseen
  /\ Event[e].sequence > s.seen[Event[e].source] + 1

LEMMA ApplyConnection ==
  ASSUME NEW s \in Store, NEW e \in EventId, IsFiniteSet(DOMAIN s.entities),
         \A k \in DOMAIN s.entities : s.entities[k].at <= s.updates
  PROVE  LET t == Apply(s, e) IN
         t.connection = "LIVE" =>
           s.connection = "LIVE" /\ ~IsGap(s, e) /\ t.complete = s.complete
<1>. DEFINE noted == Noted(s, Event[e])
            gap == /\ s.seen[Event[e].source] # Unseen
                   /\ Event[e].sequence > s.seen[Event[e].source] + 1
<1>1. /\ noted \in Store /\ noted.entities = s.entities /\ noted.updates = s.updates
      /\ noted.connection = IF gap THEN "SYNCING" ELSE s.connection
      /\ noted.complete = IF gap THEN FALSE ELSE s.complete
  BY NotedTyped
<1>2. Show(noted, e).connection = noted.connection /\ Show(noted, e).complete = noted.complete
  <2>. HIDE DEF noted
  <2>. QED  BY <1>1, ShowFields
<1>3. CASE Event[e].mode # s.mode
  <2>1. Apply(s, e) = [s EXCEPT !.invalid = @ + 1]
    BY <1>3, ApplyCases
  <2>2. ~IsGap(s, e)
    BY <1>3 DEF IsGap, Takes
  <2>. QED  BY <2>1, <2>2 DEF Store
<1>4. CASE IsLate(s, e)
  BY <1>4, ApplyCases DEF IsGap, Takes
<1>5. CASE Takes(s, e)
  <2>1. Apply(s, e) = [noted EXCEPT !.invalid = @ + 1] \/ Apply(s, e) = Show(noted, e)
    BY <1>5, ApplyCases
  <2>2. /\ Apply(s, e).connection = noted.connection
        /\ Apply(s, e).complete = noted.complete
    <3>. HIDE DEF noted
    <3>. QED  BY <1>1, <1>2, <2>1 DEF Store
  <2>3. IsGap(s, e) <=> gap
    BY <1>5 DEF IsGap
  <2>. HIDE DEF noted, gap
  <2>. QED  BY <1>1, <2>2, <2>3
<1>. QED  BY <1>3, <1>4, <1>5 DEF Takes

(* A delivery that a store takes without a gap follows what came of its    *)
(* source before, and none that came before stops following.               *)
LEMMA FollowsNext ==
  ASSUME NEW d \in Seq(EventId), NEW e \in EventId, NEW b \in 0..Len(d), NEW s \in Store,
         SeenSound(s, d, b), ~IsGap(s, e)
  PROVE  Follows(Append(d, e), b, s.mode, Len(d) + 1)
<1>. DEFINE D == Append(d, e)
            n == Len(d) + 1
            src == Event[e].source
<1>1. SUFFICES ASSUME IsFresh(D, b, s.mode, n), Earlier(D, b, s.mode, n) # {}
      PROVE  Event[e].sequence - 1 \in Earlier(D, b, s.mode, n)
  <2>1. D[n] = e
    BY Delivered
  <2>. HIDE DEF D, n
  <2>. QED  BY <2>1 DEF Follows, D, n
<1>2. /\ D[n] = e /\ Session(d, b) = (b + 1)..(n - 1)
      /\ \A j \in Session(d, b) : D[j] = d[j] /\ d[j] \in EventId
  BY Delivered DEF Session
<1>3. /\ src \in Source /\ Event[e].sequence \in Nat
      /\ \A j \in Session(d, b) : Event[d[j]].sequence \in Nat
  BY <1>2, EventFields
<1>4. s.seen[src] \in Nat \cup {Unseen}
  BY <1>3 DEF Store
<1>5. /\ Event[e].mode = s.mode
      /\ s.seen[src] = Unseen \/ Event[e].sequence > s.seen[src]
  BY <1>1, FreshIsNewer
<1>6. Takes(s, e)
  BY <1>3, <1>4, <1>5 DEF Takes, IsLate, Unseen
<1>. HIDE DEF D, n
<1>7. PICK j \in Session(d, b) : Event[d[j]].mode = s.mode /\ Event[d[j]].source = src
  BY <1>1, <1>2 DEF Earlier, Alike
<1>8. s.seen[src] # Unseen
  <2>1. Event[d[j]].sequence <= s.seen[src] /\ Event[d[j]].sequence \in Nat
    BY <1>3, <1>7 DEF SeenSound
  <2>. QED  BY <1>4, <2>1 DEF Unseen
<1>9. Event[e].sequence = s.seen[src] + 1
  <2>1. ~(Event[e].sequence > s.seen[src] + 1)
    BY <1>6, <1>8 DEF IsGap
  <2>2. s.seen[src] \in Nat
    BY <1>4, <1>8
  <2>. QED  BY <1>3, <1>5, <1>8, <2>1, <2>2
<1>10. PICK i \in Session(d, b) : /\ Event[d[i]].mode = s.mode /\ Event[d[i]].source = src
                                  /\ Event[d[i]].sequence = s.seen[src]
  BY <1>3, <1>8 DEF SeenSound
<1>11. s.seen[src] \in Earlier(D, b, s.mode, n)
  BY <1>2, <1>10 DEF Earlier, Alike
<1>12. Event[e].sequence - 1 = s.seen[src]
  BY <1>3, <1>4, <1>8, <1>9
<1>. QED  BY <1>11, <1>12

LEMMA FollowsStays ==
  ASSUME NEW d \in Seq(EventId), NEW e \in EventId, NEW b \in 0..Len(d), NEW m,
         NEW i \in 1..Len(d)
  PROVE  Follows(Append(d, e), b, m, i) <=> Follows(d, b, m, i)
<1>. DEFINE D == Append(d, e)
<1>1. \A j \in 1..Len(d) : D[j] = d[j]
  BY Delivered
<1>2. \A j \in (b + 1)..(i - 1) : j \in 1..Len(d)
  OBVIOUS
<1>. HIDE DEF D
<1>3. IsFresh(D, b, m, i) <=> IsFresh(d, b, m, i)
  BY <1>1, <1>2 DEF IsFresh, Alike
<1>4. Earlier(D, b, m, i) = Earlier(d, b, m, i)
  BY <1>1, <1>2 DEF Earlier, Alike
<1>. QED  BY <1>1, <1>3, <1>4 DEF Follows, D

-----------------------------------------------------------------------------
(* The steps.                                                              *)

LEMMA ConsoleInvInit == ConsoleInit => ConsoleInv
<1>. SUFFICES ASSUME ConsoleInit PROVE ConsoleInv
  OBVIOUS
<1>1. /\ delivered \in Seq(EventId) /\ Len(delivered) = 0 /\ base = 0 /\ syncedAt = 0
      /\ position = 0 /\ delivered = <<>>
  BY DEF ConsoleInit
<1>2. base \in 0..Len(delivered) /\ syncedAt \in Nat
  BY <1>1
<1>3. CASE store = NewStore("SIM")
  <2>1. /\ StoreSound(store, delivered, base) /\ store.mode = "SIM"
        /\ store.connection = "DISCONNECTED"
    BY <1>1, <1>3, NewIsSound DEF Mode
  <2>. QED  BY <1>1, <1>2, <2>1 DEF ConsoleInv, LiveInv, ReplayInv, Live
<1>4. CASE store = CompleteSync(NewStore("REPLAY"), 0)
  <2>1. Recording \in Seq(EventId) /\ Len(Recording) \in Nat
    BY RecordingTyped
  <2>2. store = Stepped[0] /\ IsStepped(store, 0)
    BY <1>4, SteppedSound, StartIsStepped
  <2>3. SubSeq(Recording, 1, 0) = <<>>
    BY <2>1
  <2>4. StoreSound(store, delivered, base) /\ store.connection = "REPLAY"
    BY <1>1, <2>2, <2>3 DEF IsStepped
  <2>5. ReplayInv
    BY <1>1, <2>1, <2>2 DEF ReplayInv
  <2>. QED  BY <1>1, <1>2, <2>4, <2>5 DEF ConsoleInv, LiveInv
<1>. QED  BY <1>3, <1>4 DEF ConsoleInit

LEMMA SetConnectionKeeps ==
  ASSUME ConsoleInv, SetConnection PROVE ConsoleInv'
<1>1. PICK c \in {"CONNECTING", "SYNCING", "DEGRADED", "DISCONNECTED"} :
        store' = Connection(store, c)
  BY DEF SetConnection
<1>2. UNCHANGED <<delivered, base, syncedAt, position>> /\ Live
  BY DEF SetConnection, replayVars
<1>3. StoreSound(store, delivered, base)
  BY DEF ConsoleInv
<1>4. StoreSound(store', delivered, base)
  BY <1>1, <1>3, ConnectionKeeps DEF ConnectionState
<1>5. store'.mode = store.mode /\ store'.connection # "LIVE"
  <2>1. store \in Store
    BY <1>3, SoundFields
  <2>. QED  BY <1>1, <2>1 DEF Connection, Store
<1>. QED  BY <1>2, <1>4, <1>5 DEF ConsoleInv, LiveInv, ReplayInv, Live

LEMMA SyncedKeeps ==
  ASSUME ConsoleInv, Synced PROVE ConsoleInv'
<1>1. PICK cursor \in Cursors : store' = CompleteSync(store, cursor)
  BY DEF Synced
<1>2. UNCHANGED <<delivered, base, position>> /\ syncedAt' = Len(delivered) /\ Live
  BY DEF Synced, replayVars
<1>3. StoreSound(store, delivered, base) /\ cursor \in Nat
  BY ConsoleAssumption DEF ConsoleInv
<1>4. StoreSound(store', delivered, base)
  BY <1>1, <1>3, SyncKeeps
<1>5. store'.mode = store.mode /\ store'.complete = TRUE
  <2>1. store \in Store
    BY <1>3, SoundFields
  <2>. QED  BY <1>1, <1>3, <2>1, SyncFields
<1>6. Len(delivered) \in Nat
  BY DEF ConsoleInv
<1>7. Unbroken'
  <2>1. (syncedAt' + 1)..Len(delivered') = {}
    BY <1>2, <1>6
  <2>. QED  BY <2>1, UnbrokenIs
<1>. QED  BY <1>2, <1>4, <1>5, <1>6, <1>7 DEF ConsoleInv, LiveInv, ReplayInv, Live

LEMMA ResetStepKeeps ==
  ASSUME ConsoleInv, Reset PROVE ConsoleInv'
<1>1. /\ store' = ResetForResync(store) /\ base' = Len(delivered) /\ Live
      /\ UNCHANGED <<delivered, syncedAt, position>>
  BY DEF Reset, replayVars
<1>2. StoreSound(store, delivered, base) /\ delivered \in Seq(EventId)
  BY DEF ConsoleInv
<1>3. store \in Store
  BY <1>2, SoundFields
<1>4. StoreSound(store', delivered, base') /\ store'.mode = store.mode
  BY <1>1, <1>2, <1>3, ResetKeeps
<1>5. store'.connection = "SYNCING"
  BY <1>1, <1>3 DEF ResetForResync, Connection, Store
<1>6. base' \in 0..Len(delivered)
  BY <1>1, <1>2
<1>. QED  BY <1>1, <1>4, <1>5, <1>6 DEF ConsoleInv, LiveInv, ReplayInv, Live

LEMMA ReceiveKeeps ==
  ASSUME ConsoleInv, Receive PROVE ConsoleInv'
<1>1. PICK e \in Feed : store' = Apply(store, e) /\ delivered' = Append(delivered, e)
  BY DEF Receive
<1>2. UNCHANGED <<base, syncedAt, position>> /\ Live
  BY DEF Receive, replayVars
<1>3. /\ StoreSound(store, delivered, base) /\ delivered \in Seq(EventId)
      /\ base \in 0..Len(delivered) /\ syncedAt \in Nat /\ LiveInv
  BY DEF ConsoleInv
<1>4. e \in EventId
  BY ConsoleAssumption
<1>5. /\ delivered' \in Seq(EventId) /\ Len(delivered') = Len(delivered) + 1
      /\ Len(delivered) \in Nat
  BY <1>1, <1>3, <1>4
<1>6. StoreSound(store', delivered', base) /\ store'.mode = store.mode
  BY <1>1, <1>3, <1>4, ApplyKeeps
<1>7. base' \in 0..Len(delivered')
  BY <1>2, <1>3, <1>5
<1>8. /\ store \in Store /\ IsFiniteSet(DOMAIN store.entities)
      /\ \A k \in DOMAIN store.entities : store.entities[k].at <= store.updates
  BY <1>3, SoundFields
<1>9. LiveInv'
  <2>. SUFFICES ASSUME store'.connection = "LIVE"
                PROVE  Live' /\ store'.complete /\ Unbroken'
    BY DEF LiveInv
  <2>1. /\ store.connection = "LIVE" /\ ~IsGap(store, e)
        /\ store'.complete = store.complete
    BY <1>1, <1>4, <1>8, ApplyConnection
  <2>2. Live /\ store.complete /\ Unbroken
    BY <1>3, <2>1 DEF LiveInv
  <2>3. \A i \in (syncedAt + 1)..Len(delivered) : Follows(delivered, base, store.mode, i)
    BY <2>2, UnbrokenIs
  <2>4. SeenSound(store, delivered, base)
    BY <1>3 DEF StoreSound
  <2>5. Follows(delivered', base, store.mode, Len(delivered) + 1)
    BY <1>1, <1>3, <1>4, <1>8, <2>1, <2>4, FollowsNext
  <2>6. ASSUME NEW i \in (syncedAt + 1)..Len(delivered')
        PROVE  Follows(delivered', base, store.mode, i)
    <3>1. CASE i = Len(delivered) + 1
      BY <2>5, <3>1
    <3>2. CASE i # Len(delivered) + 1
      <4>1. i \in (syncedAt + 1)..Len(delivered) /\ i \in 1..Len(delivered)
        BY <1>3, <1>5, <3>2
      <4>2. Follows(delivered, base, store.mode, i)
        BY <2>3, <4>1
      <4>3. Follows(Append(delivered, e), base, store.mode, i)
        BY <1>3, <1>4, <4>1, <4>2, FollowsStays
      <4>. QED  BY <1>1, <4>3
    <3>. QED  BY <3>1, <3>2
  <2>7. Unbroken'
    BY <1>2, <1>6, <2>6, UnbrokenIs
  <2>. QED  BY <1>6, <2>1, <2>2, <2>7 DEF Live
<1>. QED  BY <1>2, <1>3, <1>5, <1>6, <1>7, <1>9 DEF ConsoleInv, ReplayInv, Live

LEMMA ResyncKeeps ==
  ASSUME ConsoleInv, Resync PROVE ConsoleInv'
<1>1. PICK events \in Snapshots, cursor \in Cursors :
        /\ store' = CompleteSync(ApplyAll(ResetForResync(store), events), cursor)
        /\ delivered' = delivered \o events
  BY DEF Resync
<1>2. /\ base' = Len(delivered) /\ syncedAt' = Len(delivered') /\ Live
  BY DEF Resync
<1>3. StoreSound(store, delivered, base) /\ delivered \in Seq(EventId)
  BY DEF ConsoleInv
<1>4. events \in Seq(EventId) /\ cursor \in Nat
  <2>1. events \in Seq(Feed) /\ Feed \subseteq EventId /\ cursor \in Nat
    BY ConsoleAssumption
  <2>. QED  BY <2>1, SeqMonotonic
<1>5. /\ delivered' \in Seq(EventId) /\ Len(delivered') = Len(delivered) + Len(events)
      /\ Len(delivered) \in Nat /\ Len(events) \in Nat /\ Len(delivered) \in 0..Len(delivered)
  BY <1>1, <1>3, <1>4
<1>. DEFINE s == ResetForResync(store)
            t == ApplyAll(s, events)
<1>6. StoreSound(s, delivered, Len(delivered)) /\ s.mode = store.mode
  <2>1. store \in Store
    BY <1>3, SoundFields
  <2>. QED  BY <1>3, <2>1, ResetKeeps
<1>. HIDE DEF s
<1>7. StoreSound(t, delivered', base') /\ t.mode = store.mode
  <2>1. StoreSound(t, delivered \o events, Len(delivered)) /\ t.mode = s.mode
    BY <1>3, <1>4, <1>5, <1>6, AllAppliedKeeps
  <2>. QED  BY <1>1, <1>2, <1>6, <2>1
<1>8. store' = CompleteSync(t, cursor)
  BY <1>1 DEF s
<1>. HIDE DEF t
<1>9. StoreSound(store', delivered', base')
  BY <1>4, <1>7, <1>8, SyncKeeps
<1>10. store'.mode = store.mode /\ store'.complete = TRUE
  <2>1. t \in Store
    BY <1>7, SoundFields
  <2>. QED  BY <1>4, <1>7, <1>8, <2>1, SyncFields
<1>11. Unbroken'
  <2>1. (syncedAt' + 1)..Len(delivered') = {}
    BY <1>2, <1>5
  <2>. QED  BY <2>1, UnbrokenIs
<1>12. base' \in 0..Len(delivered') /\ syncedAt' \in Nat
  BY <1>2, <1>5
<1>. QED  BY <1>2, <1>5, <1>9, <1>10, <1>11, <1>12 DEF ConsoleInv, LiveInv, ReplayInv, Live

LEMMA SeekToKeeps ==
  ASSUME ConsoleInv, SeekTo PROVE ConsoleInv'
<1>1. PICK t : Seek(t)
  BY DEF SeekTo
<1>2. ~Live /\ UNCHANGED <<base, syncedAt>>
  BY DEF SeekTo
<1>3. base = 0 /\ syncedAt \in Nat
  BY <1>2 DEF ConsoleInv, ReplayInv
<1>. DEFINE L == UpTo(t)
<1>4. L \in 0..Len(Recording)
  BY UpToTyped
<1>5. /\ position' = L /\ delivered' = SubSeq(Recording, 1, L)
      /\ store' = CompleteSync(ApplyAll(Connection(NewStore("REPLAY"), "SYNCING"),
                                        SubSeq(Recording, 1, L)), L)
  BY <1>1 DEF Seek
<1>. HIDE DEF L
<1>6. store' = Stepped[L]
  BY <1>4, <1>5, SeekIsStepping
<1>7. IsStepped(store', L)
  BY <1>4, <1>6, SteppedSound
<1>8. /\ StoreSound(store', delivered', base') /\ store'.mode = "REPLAY"
      /\ store'.connection = "REPLAY"
  BY <1>2, <1>3, <1>5, <1>7 DEF IsStepped
<1>9. delivered' \in Seq(EventId) /\ base' \in 0..Len(delivered')
  <2>1. Recording \in Seq(EventId) /\ L \in Nat /\ L <= Len(Recording)
    BY <1>4, RecordingTyped
  <2>. QED  BY <1>2, <1>3, <1>5, <2>1
<1>10. LiveInv' /\ ReplayInv'
  BY <1>2, <1>3, <1>4, <1>5, <1>6, <1>8 DEF LiveInv, ReplayInv
<1>. QED  BY <1>2, <1>3, <1>8, <1>9, <1>10 DEF ConsoleInv

LEMMA StepKeeps ==
  ASSUME ConsoleInv, Step PROVE ConsoleInv'
<1>. DEFINE e == Recording[position + 1]
            n == position + 1
<1>1. /\ ~Live /\ position < Len(Recording) /\ UNCHANGED <<base, syncedAt>>
      /\ store' = CompleteSync(Apply(store, e), n)
      /\ delivered' = Append(delivered, e) /\ position' = n
  BY DEF Step
<1>2. /\ base = 0 /\ position \in 0..Len(Recording) /\ store = Stepped[position]
      /\ delivered \in Seq(EventId) /\ syncedAt \in Nat
      /\ base \in 0..Len(delivered) /\ StoreSound(store, delivered, base)
  BY <1>1 DEF ConsoleInv, ReplayInv
<1>3. Recording \in Seq(EventId) /\ Len(Recording) \in Nat
  BY RecordingTyped
<1>4. n \in 1..Len(Recording) /\ n \in Nat /\ n - 1 = position
  BY <1>1, <1>2, <1>3
<1>5. e \in EventId
  BY <1>3, <1>4
<1>6. Stepped[n] = CompleteSync(Apply(store, e), n)
  BY <1>2, <1>4, SteppedSound
<1>7. IsStepped(Stepped[n], n)
  BY <1>4, SteppedSound
<1>. HIDE DEF e, n
<1>8. StoreSound(store', delivered', base')
  <2>1. StoreSound(Apply(store, e), delivered', base)
    BY <1>1, <1>2, <1>5, ApplyKeeps
  <2>2. StoreSound(CompleteSync(Apply(store, e), n), delivered', base)
    BY <1>4, <2>1, SyncKeeps
  <2>. QED  BY <1>1, <2>2
<1>9. store' = Stepped[n] /\ store'.connection = "REPLAY"
  BY <1>1, <1>6, <1>7 DEF IsStepped
<1>10. LiveInv' /\ ReplayInv'
  BY <1>1, <1>2, <1>4, <1>9 DEF LiveInv, ReplayInv
<1>11. delivered' \in Seq(EventId) /\ base' \in 0..Len(delivered')
  BY <1>1, <1>2, <1>5
<1>. QED  BY <1>1, <1>2, <1>8, <1>10, <1>11 DEF ConsoleInv

(* Of every console, live or replaying, the invariant above.               *)
THEOREM ConsoleInvariant == ConsoleSpec => []ConsoleInv
<1>1. ConsoleInit => ConsoleInv
  BY ConsoleInvInit
<1>2. ConsoleInv /\ [ConsoleNext]_consoleVars => ConsoleInv'
  <2>. SUFFICES ASSUME ConsoleInv, [ConsoleNext]_consoleVars PROVE ConsoleInv'
    OBVIOUS
  <2>1. CASE SetConnection
    BY <2>1, SetConnectionKeeps
  <2>2. CASE Synced
    BY <2>2, SyncedKeeps
  <2>3. CASE Reset
    BY <2>3, ResetStepKeeps
  <2>4. CASE Receive
    BY <2>4, ReceiveKeeps
  <2>5. CASE Resync
    BY <2>5, ResyncKeeps
  <2>6. CASE SeekTo
    BY <2>6, SeekToKeeps
  <2>7. CASE Step
    BY <2>7, StepKeeps
  <2>8. CASE SendCommand \/ TogglePause \/ UNCHANGED consoleVars
    <3>1. UNCHANGED <<store, delivered, base, syncedAt, position>>
      BY <2>8 DEF SendCommand, TogglePause, consoleVars, replayVars
    <3>2. Unbroken' <=> Unbroken
      BY <3>1, UnbrokenIs
    <3>. QED  BY <3>1, <3>2 DEF ConsoleInv, LiveInv, ReplayInv, Live
  <2>. QED  BY <2>1, <2>2, <2>3, <2>4, <2>5, <2>6, <2>7, <2>8 DEF ConsoleNext
<1>. QED  BY <1>1, <1>2, PTL DEF ConsoleSpec

(* What the operator sees at a position of a recording is what stepping    *)
(* there from its start shows, however the position was reached.           *)
THEOREM SeekGivesWhatStepsGive == ConsoleSpec => []SeekMatchesStepping
<1>1. ConsoleInv => SeekMatchesStepping
  BY DEF ConsoleInv, ReplayInv, SeekMatchesStepping
<1>. QED  BY <1>1, ConsoleInvariant, PTL

(* A command is sent only by a live console whose view is complete and has *)
(* missed nothing since it was last synchronised (ADR 0006, item 3).       *)
THEOREM CommandsNeedTheWholeView == ConsoleSpec => CommandsSeeWholeView
<1>1. ASSUME ConsoleInv, [ConsoleNext]_consoleVars, sent' # sent
      PROVE  Live /\ store.complete /\ Unbroken
  <2>1. SendCommand
    BY <1>1 DEF ConsoleNext, SetConnection, Synced, Reset, Receive, Resync, TogglePause,
                SeekTo, Step, consoleVars
  <2>2. store.connection = "LIVE"
    BY <2>1 DEF SendCommand
  <2>. QED  BY <1>1, <2>2 DEF ConsoleInv, LiveInv
<1>2. ConsoleInv /\ [ConsoleNext]_consoleVars
        => [sent' # sent => Live /\ store.complete /\ Unbroken]_consoleVars
  BY <1>1
<1>. QED  BY <1>2, ConsoleInvariant, PTL DEF ConsoleSpec, CommandsSeeWholeView

\* What the properties call the last update of an entity is it.
LEMMA LastUpdateIs ==
  ASSUME delivered \in Seq(EventId), base \in 0..Len(delivered), NEW k
  PROVE  /\ Updates(k) # {} => IsLast(delivered, base, store.mode, k, LastUpdate(k))
         /\ \A i : IsLast(delivered, base, store.mode, k, i)
                     => i = LastUpdate(k) /\ Updates(k) # {}
<1>. DEFINE U == Updates(k)
<1>1. /\ \A i : i \in U <=> IsUpdate(delivered, base, store.mode, k, i)
      /\ U \subseteq Session(delivered, base)
  BY DEF Updates, Fresh, SameSource, IsUpdate, Session, IsFresh, Alike
<1>2. Session(delivered, base) \subseteq Nat /\ Len(delivered) \in Nat
      /\ \A i \in Session(delivered, base) : i <= Len(delivered)
  BY DEF Session
<1>3. \A i : IsLast(delivered, base, store.mode, k, i) <=> i \in U /\ \A j \in U : j <= i
  <2>. HIDE DEF U
  <2>. QED  BY <1>1 DEF IsLast
<1>4. U # {} => \E i \in U : \A j \in U : j <= i
  <2>. DEFINE es == [i \in U |-> [at |-> i]]
  <2>1. \A i \in U : es[i].at = i /\ i \in Nat /\ i <= Len(delivered)
    <3>. HIDE DEF U
    <3>. QED  BY <1>1, <1>2
  <2>. HIDE DEF es, U
  <2>2. \A i \in U : es[i].at \in Nat /\ es[i].at <= Len(delivered)
    BY <2>1
  <2>3. U # {} => \E i \in U : \A j \in U : es[j].at <= es[i].at
    BY <1>2, <2>2, HighestExists
  <2>. QED  BY <2>1, <2>3
<1>5. LastUpdate(k) = CHOOSE i \in U : \A j \in U : j <= i
  BY DEF LastUpdate
<1>. HIDE DEF U
<1>6. U # {} => IsLast(delivered, base, store.mode, k, LastUpdate(k))
  BY <1>3, <1>4, <1>5
<1>7. ASSUME NEW i, IsLast(delivered, base, store.mode, k, i)
      PROVE  i = LastUpdate(k) /\ U # {}
  <2>1. U # {}
    BY <1>3, <1>7
  <2>. QED  BY <1>6, <1>7, <2>1, LastIsOne
<1>. QED  BY <1>6, <1>7 DEF U

(* Whatever was lost, repeated or reordered, an entity shows the last      *)
(* fresh event about it, is missing only for what was updated no earlier,  *)
(* and is not missing uncounted when it is critical.                       *)
THEOREM TheNewestIsShown == ConsoleSpec => []ShowsNewest
<1>1. ASSUME ConsoleInv PROVE ShowsNewest
  <2>. DEFINE es == store.entities
              known == {k \in Key : Updates(k) # {}}
              missing == known \ DOMAIN es
              Critical(k) == Event[delivered[LastUpdate(k)]].critical
              m == store.mode
  <2>1. /\ StoreSound(store, delivered, base) /\ delivered \in Seq(EventId)
        /\ base \in 0..Len(delivered)
    BY <1>1 DEF ConsoleInv
  <2>2. /\ KeptSound(es, store.updates, delivered, base, m)
        /\ \A c \in BOOLEAN : Cardinality(Class(es, c)) <= Room(c)
        /\ MissingSound(es, delivered, base, m)
        /\ IsFiniteSet(Archived(es, delivered, base, m))
        /\ Cardinality(Archived(es, delivered, base, m)) <= store.archived
    BY <2>1 DEF StoreSound, EntitiesSound
  <2>3. /\ \A k : Updates(k) # {} => IsLast(delivered, base, m, k, LastUpdate(k))
        /\ \A k, i : IsLast(delivered, base, m, k, i)
                       => i = LastUpdate(k) /\ Updates(k) # {}
    BY <2>1, LastUpdateIs
  <2>4. DOMAIN es \subseteq Key /\ store.archived \in Nat
    <3>1. store \in Store
      BY <2>1, SoundFields
    <3>. QED  BY <3>1, StoreFields
  <2>. HIDE DEF es, m
  <2>5. ASSUME NEW k \in DOMAIN es
        PROVE  /\ k \in known /\ es[k].event = delivered[LastUpdate(k)]
               /\ IsLast(delivered, base, m, k, LastUpdate(k))
    <3>1. PICK i \in Session(delivered, base) :
            IsLast(delivered, base, m, k, i) /\ es[k].event = delivered[i]
      BY <2>2 DEF KeptSound
    <3>. QED  BY <2>3, <2>4, <3>1
  <2>6. ASSUME NEW k \in missing
        PROVE  /\ k \in Key \ DOMAIN es /\ LastUpdate(k) \in Session(delivered, base)
               /\ IsLast(delivered, base, m, k, LastUpdate(k))
    BY <2>3 DEF IsLast, IsUpdate
  <2>7. ASSUME NEW k \in missing
        PROVE  LET class == Class(es, Critical(k)) IN
               /\ Cardinality(class) = Room(Critical(k))
               /\ \A l \in class : LastUpdate(l) >= LastUpdate(k)
    <3>1. LET class == Class(es, Critical(k)) IN
          /\ Cardinality(class) = Room(Critical(k))
          /\ \A l \in class : \A j \in Session(delivered, base) :
               IsLast(delivered, base, m, l, j) => j >= LastUpdate(k)
      BY <2>2, <2>6 DEF MissingSound
    <3>2. ASSUME NEW l \in DOMAIN es
          PROVE  /\ LastUpdate(l) \in Session(delivered, base)
                 /\ IsLast(delivered, base, m, l, LastUpdate(l))
      BY <2>5 DEF IsLast, IsUpdate
    <3>3. Class(es, Critical(k)) \subseteq DOMAIN es
      BY DEF Class
    <3>. QED  BY <3>1, <3>2, <3>3
  <2>8. Cardinality({k \in missing : Critical(k)}) <= store.archived
    <3>. DEFINE A == Archived(es, delivered, base, m)
                B == {k \in missing : Critical(k)}
    <3>1. B \in SUBSET A
      BY <2>6 DEF Archived
    <3>. HIDE DEF A, B
    <3>2. IsFiniteSet(A) /\ Cardinality(A) <= store.archived
      BY <2>2 DEF A
    <3>3. IsFiniteSet(B) /\ Cardinality(B) <= Cardinality(A)
      BY <3>1, <3>2, FS_Subset
    <3>4. Cardinality(A) \in Nat /\ Cardinality(B) \in Nat
      BY <3>2, <3>3, FS_CardinalityType
    <3>5. Cardinality(B) <= store.archived
      BY <2>4, <3>2, <3>3, <3>4
    <3>. QED  BY <3>5 DEF B
  <2>. QED  BY <2>2, <2>5, <2>7, <2>8 DEF ShowsNewest, es
<1>. QED  BY <1>1, ConsoleInvariant, PTL
=============================================================================
