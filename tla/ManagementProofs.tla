--------------------------- MODULE ManagementProofs ---------------------------
(***************************************************************************)
(* Proofs about the management service, for any commands, people, keys,    *)
(* resources, contents, plugins and alerts.                                *)
(***************************************************************************)
EXTENDS Management, TLAPS, FiniteSetTheorems

Digest == Values \cup Artifact \cup {Nothing}

AuditEntry ==
  [command: CommandId, success: BOOLEAN, before: Digest, after: Digest]

SnapshotState ==
  {"DRAFT", "SCHEMA_VALIDATED", "APPROVED", "ACTIVE", "ROLLED_BACK"}

Snapshot ==
  [revision: Nat, state: SnapshotState, values: Values, approvals: SUBSET STRING]

PluginRecord == [state: {"VALIDATED", "SHADOW", "ACTIVE"}, artifact: Artifact]

MgmtTypeOK ==
  /\ revision \in Nat
  /\ audit \in Seq(AuditEntry)
  /\ configs \in [Resource -> Seq(Snapshot)]
  /\ plugins \in [Plugin -> PluginRecord \cup {NoPlugin}]

(* The invariant.  Every operation on record took its key.                 *)
KeysOnRecord ==
  \A i \in DOMAIN audit : Command[audit[i].command].key \in DOMAIN operations

(* Each success was sent on the revision that the one before it left, and  *)
(* there were as many as the service's revision says.                      *)
SentInOrder ==
  /\ asked \in Seq(Nat) /\ Len(asked) = revision
  /\ \A k \in DOMAIN asked : asked[k] = k - 1

(* No snapshot is numbered beyond the service's revision.                  *)
RevisionsIssued ==
  \A n \in Resource : \A i \in DOMAIN configs[n] :
    /\ configs[n][i].revision <= revision
    /\ \A j \in DOMAIN configs[n] :
         i < j => configs[n][i].revision < configs[n][j].revision

Latest(i, r) == i \in On(r) /\ \A k \in On(r) : k <= i

(* The last success on a subject left what is there now.                   *)
TrailReachesNow(r) ==
  IF On(r) = {} THEN DigestOf(r) = Nothing
  ELSE \E i \in On(r) : Latest(i, r) /\ audit[i].after = DigestOf(r)

TrailUnbroken(r) ==
  \A i, j \in On(r) :
    i < j /\ (\A k \in On(r) : k <= i \/ j <= k) => audit[j].before = audit[i].after

(* An approval a snapshot carries is in the trail, given for its content.  *)
Approval(i, n, s) ==
  i \in On(<<"config", n>>) /\ ByAction(i) = "config.approve" /\ audit[i].after = s.values

ApprovalsOnRecord(n, s) ==
  /\ IsFiniteSet(s.approvals)
  /\ \A a \in s.approvals :
       \E i \in On(<<"config", n>>) : Approval(i, n, s) /\ ByActor(i) = a
  /\ s.state = "ACTIVE" => Cardinality(s.approvals) >= Required(n, s.values)

(* A plugin runs the artifact of its last registration, and beyond         *)
(* VALIDATED it has been moved to SHADOW since.                            *)
LastRegistration(i, r) ==
  /\ i \in On(r) /\ ByAction(i) = "plugin.register"
  /\ \A k \in On(r) : ByAction(k) = "plugin.register" => k <= i

PluginOnRecord(p) ==
  LET r == <<"plugin", p>> IN
  plugins[p] # NoPlugin =>
    \E i \in On(r) :
      /\ LastRegistration(i, r) /\ audit[i].after = plugins[p].artifact
      /\ plugins[p].state # "VALIDATED" =>
           \E j \in On(r) : i < j /\ ByAction(j) = "plugin.shadow"

MgmtInv ==
  /\ MgmtTypeOK /\ KeysOnRecord /\ FirstAttemptDecides
  /\ SentInOrder /\ RevisionsIssued
  /\ \A r \in Subjects : TrailReachesNow(r) /\ TrailUnbroken(r)
  /\ \A n \in Resource : \A k \in DOMAIN configs[n] :
       ApprovalsOnRecord(n, configs[n][k])
  /\ \A p \in Plugin : PluginOnRecord(p)

-----------------------------------------------------------------------------
\* A command is well typed.
LEMMA CommandTyped ==
  ASSUME NEW c \in CommandId
  PROVE  /\ Command[c].actor \in STRING /\ Command[c].resource \in Resource
         /\ Command[c].values \in Values \cup {Nothing}
         /\ Command[c].plugin \in Plugin \cup {Nothing}
         /\ Command[c].artifact \in Artifact \cup {Nothing}
BY ManagementAssumption DEF CommandRecord

\* A command is about a namespace, a version of a plugin, or neither.
LEMMA SubjectOfKind ==
  ASSUME NEW c \in CommandId
  PROVE  /\ Command[c].action \in ConfigAction =>
              Subject(c) = <<"config", Command[c].resource>>
         /\ Command[c].action \in PluginAction =>
              Subject(c) = <<"plugin", Command[c].plugin>>
         /\ Command[c].action \in {"alert.ack", "mission.pause"} =>
              Subject(c) \notin Subjects
BY DEF Subject, Subjects, ConfigAction, PluginAction

\* The two kinds of subjects, and what they hold.
LEMMA SubjectHolds ==
  /\ \A r \in Subjects :
       \/ \E n \in Resource : r = <<"config", n>>
       \/ \E p \in Plugin : r = <<"plugin", p>>
  /\ \A n : DigestOf(<<"config", n>>) =
               IF configs[n] = <<>> THEN Nothing ELSE configs[n][Len(configs[n])].values
  /\ \A p : DigestOf(<<"plugin", p>>) =
               IF plugins[p] = NoPlugin THEN Nothing ELSE plugins[p].artifact
BY DEF Subjects, DigestOf

\* The entries that a command may leave.
LEMMA EntryTyped ==
  ASSUME NEW c \in CommandId, NEW before \in Digest, NEW after \in Digest
  PROVE  /\ Entry(c, TRUE, before, after) \in AuditEntry
         /\ Entry(c, FALSE, before, after) \in AuditEntry
BY DEF Entry, AuditEntry

\* An entry is added at the end of the trail and changes none before it.
LEMMA TrailGrows ==
  ASSUME MgmtTypeOK, NEW e \in AuditEntry, audit' = Append(audit, e)
  PROVE  /\ audit' \in Seq(AuditEntry)
         /\ Len(audit) + 1 \notin DOMAIN audit
         /\ DOMAIN audit' = DOMAIN audit \cup {Len(audit) + 1}
         /\ \A i \in DOMAIN audit :
              i \in Nat /\ i < Len(audit) + 1 /\ audit'[i] = audit[i]
         /\ audit'[Len(audit) + 1] = e
BY DEF MgmtTypeOK

\* What that means for the entries on one subject.
LEMMA OnGrows ==
  ASSUME MgmtTypeOK, NEW e \in AuditEntry, NEW r, NEW new, new = Len(audit) + 1,
         audit' = Append(audit, e)
  PROVE  /\ On(r)' = IF e.success /\ Subject(e.command) = r
                     THEN On(r) \cup {new} ELSE On(r)
         /\ audit'[new] = e /\ new \in Nat /\ new \notin On(r)
<1>1. /\ new \notin DOMAIN audit
      /\ DOMAIN audit' = DOMAIN audit \cup {new}
      /\ \A i \in DOMAIN audit : i \in Nat /\ i < new /\ audit'[i] = audit[i]
      /\ audit'[new] = e
  BY TrailGrows
<1>3. new \in Nat
  BY DEF MgmtTypeOK
<1>4. ASSUME NEW i \in DOMAIN audit'
      PROVE  i \in On(r)' <=>
               i \in On(r) \/ (i = new /\ e.success /\ Subject(e.command) = r)
  <2>1. CASE i = new
    BY <1>1, <2>1 DEF On, Succeeded
  <2>2. CASE i # new
    BY <1>1, <2>2 DEF On, Succeeded
  <2>. QED  BY <2>1, <2>2
<1>5. On(r)' \subseteq DOMAIN audit' /\ On(r) \subseteq DOMAIN audit
  BY DEF On, Succeeded
<1>6. On(r)' = IF e.success /\ Subject(e.command) = r
               THEN On(r) \cup {new} ELSE On(r)
  BY <1>1, <1>4, <1>5
<1>8. new \notin On(r)
  BY <1>1, <1>5
<1>. QED  BY <1>1, <1>3, <1>6, <1>8

-----------------------------------------------------------------------------
(* What each success does.  "Moved" is how a configuration command leaves  *)
(* its namespace: with another last snapshot, after a rollback of the old  *)
(* one or not.                                                             *)
Logged(c, before, after) ==
  /\ revision' = revision + 1
  /\ audit' = Append(audit, Entry(c, TRUE, before, after))
  /\ DOMAIN operations' = DOMAIN operations \cup {Command[c].key}

\* A success is recorded, with what its command found and left.
LEMMA RecordLogs ==
  ASSUME NEW c, NEW before, NEW after, Record(c, TRUE, before, after)
  PROVE  Logged(c, before, after)
BY DEF Record, Logged

\* A namespace's history is a sequence, and its last snapshot is the current one.
LEMMA HistoryTyped ==
  ASSUME MgmtTypeOK, NEW c \in CommandId, Command[c].action \in ConfigAction
  PROVE  /\ History(c) \in Seq(Snapshot) /\ Command[c].resource \in Resource
         /\ DigestBefore(c) = DigestOf(Subject(c))
         /\ DigestBefore(c) \in Digest
         /\ History(c) # <<>> => Current(c) \in Snapshot /\ Len(History(c)) \in Nat \ {0}
<1>1. Command[c].resource \in Resource /\ History(c) \in Seq(Snapshot)
  BY CommandTyped DEF MgmtTypeOK, History
<1>2. History(c) # <<>> => Current(c) \in Snapshot /\ Len(History(c)) \in Nat \ {0}
  BY <1>1 DEF Current
<1>3. DigestBefore(c) = DigestOf(Subject(c))
  BY SubjectOfKind, SubjectHolds DEF DigestBefore, Current, History
<1>4. DigestBefore(c) \in Digest
  BY <1>2 DEF DigestBefore, Digest, Snapshot
<1>. QED  BY <1>1, <1>2, <1>3, <1>4

-----------------------------------------------------------------------------
(* Smallest and largest numbers of a set.                                  *)

\* A nonempty set of naturals has a smallest element.
LEMMA SmallestExists ==
  ASSUME NEW T \in SUBSET Nat, T # {}
  PROVE  \E x \in T : \A y \in T : x <= y
<1>. DEFINE R == OpToRel(<, Nat)
<1>1. IsWellFoundedOn(R, Nat)
  BY NatLessThanWellFounded
<1>2. \A x, y \in Nat : y < x => <<y, x>> \in R
  BY DEF OpToRel
<1>. HIDE DEF R
<1>3. PICK x \in T : \A y \in T : ~(<<y, x>> \in R)
  BY <1>1, WFMin
<1>4. ASSUME NEW y \in T PROVE x <= y
  <2>1. ~(y < x)
    BY <1>2, <1>3
  <2>. QED  BY <2>1
<1>. QED  BY <1>4

\* A nonempty set of naturals with an upper bound has a largest element.
LEMMA LargestExists ==
  ASSUME NEW T \in SUBSET Nat, T # {}, NEW n \in Nat, \A x \in T : x <= n
  PROVE  \E x \in T : \A y \in T : y <= x
<1>. DEFINE U == {x \in Nat : \A y \in T : y <= x}
<1>1. n \in U
  OBVIOUS
<1>2. PICK u \in U : \A v \in U : u <= v
  BY <1>1, SmallestExists
<1>3. u \in T
  <2>. SUFFICES ASSUME u \notin T PROVE FALSE
    OBVIOUS
  <2>1. PICK t \in T : TRUE
    OBVIOUS
  <2>2. \A y \in T : y <= u - 1
    OBVIOUS
  <2>3. u - 1 \in Nat
    BY <2>1, <2>2
  <2>. QED  BY <2>2, <2>3, <1>2
<1>. QED  BY <1>3

-----------------------------------------------------------------------------
(* A snapshot that a configuration command leaves, beside the one it comes *)
(* from: its content is the same, its approvals are the same or gain the   *)
(* sender's, and it is ACTIVE only if the other was or had its approvals.  *)
Descends(c, s, t) ==
  /\ s.values = t.values
  /\ \/ /\ s.approvals = t.approvals
        /\ s.state = "ACTIVE" =>
             \/ t.state = "ACTIVE"
             \/ Cardinality(t.approvals) >= Required(Command[c].resource, t.values)
     \/ /\ Command[c].action = "config.approve" /\ s.state = "APPROVED"
        /\ s.approvals = t.approvals \cup {Command[c].actor}

Fresh(s) == s.state = "DRAFT" /\ s.approvals = {}

(* The history "hist" that a configuration command leaves: at most one     *)
(* snapshot more, the old ones with their numbers.                         *)
Follows(c, hist) ==
  /\ hist \in Seq(Snapshot) /\ hist # <<>>
  /\ (Len(hist) = Len(History(c)) \/ Len(hist) = Len(History(c)) + 1)
  /\ \A k \in DOMAIN hist :
       /\ hist[k].revision =
            IF k \in DOMAIN History(c) THEN History(c)[k].revision ELSE revision + 1
       /\ \/ Fresh(hist[k])
          \/ \E j \in DOMAIN History(c) : Descends(c, hist[k], History(c)[j])
  /\ Command[c].action = "config.approve" =>
       \A k \in DOMAIN hist :
         k = Len(hist) \/ (k \in DOMAIN History(c) /\ hist[k] = History(c)[k])

Moves(c, hist) ==
  /\ Follows(c, hist)
  /\ configs' = [configs EXCEPT ![Command[c].resource] = hist]
  /\ Logged(c, DigestBefore(c), hist[Len(hist)].values)
  /\ UNCHANGED plugins

\* Replacing the last snapshot by one that descends from it moves the history.
LEMMA ReplaceFollows ==
  ASSUME MgmtTypeOK, NEW c \in CommandId, Command[c].action \in ConfigAction,
         History(c) # <<>>, NEW s \in Snapshot,
         s.revision = Current(c).revision, Descends(c, s, Current(c))
  PROVE  LET hist == [History(c) EXCEPT ![Len(History(c))] = s]
         IN  Follows(c, hist) /\ hist[Len(hist)] = s
<1>. DEFINE h == History(c)
            hist == [h EXCEPT ![Len(h)] = s]
<1>1. h \in Seq(Snapshot) /\ Len(h) \in Nat \ {0} /\ Len(h) \in DOMAIN h
  BY HistoryTyped
<1>2. /\ hist \in Seq(Snapshot) /\ Len(hist) = Len(h) /\ DOMAIN hist = DOMAIN h
      /\ hist[Len(h)] = s
      /\ \A k \in DOMAIN h : k # Len(h) => hist[k] = h[k]
  BY <1>1
<1>3. Current(c) = h[Len(h)]
  BY DEF Current
<1>. HIDE DEF h, hist
<1>4. ASSUME NEW k \in DOMAIN hist
      PROVE  hist[k].revision = h[k].revision
             /\ \E j \in DOMAIN h : Descends(c, hist[k], h[j])
  <2>1. CASE k = Len(h)
    BY <1>1, <1>2, <1>3, <2>1
  <2>2. CASE k # Len(h)
    BY <1>2, <2>2 DEF Descends
  <2>. QED  BY <2>1, <2>2
<1>5. hist # <<>>
  BY <1>1, <1>2
<1>6. Follows(c, hist)
  BY <1>1, <1>2, <1>4, <1>5 DEF Follows, h
<1>. QED  BY <1>2, <1>6 DEF h, hist

\* A draft is a new snapshot with no approvals.
LEMMA DraftMoves ==
  ASSUME MgmtTypeOK, NEW c \in CommandId, Draft(c)
  PROVE  \E hist : Moves(c, hist)
<1>. DEFINE h == History(c)
            hist == Append(h, NewDraft(c))
<1>1. Command[c].action = "config.draft" /\ Command[c].action \in ConfigAction
  BY DEF Draft, CanDraft, ConfigAction
<1>2. h \in Seq(Snapshot) /\ Len(h) \in Nat
  BY <1>1, HistoryTyped
<1>3. NewDraft(c) \in Snapshot
  BY CommandTyped DEF Draft, CanDraft, NewDraft, Snapshot, SnapshotState, MgmtTypeOK
<1>4. /\ hist \in Seq(Snapshot) /\ Len(hist) = Len(h) + 1
      /\ DOMAIN hist = DOMAIN h \cup {Len(h) + 1} /\ Len(h) + 1 \notin DOMAIN h
      /\ \A k \in DOMAIN h : hist[k] = h[k]
      /\ hist[Len(h) + 1] = NewDraft(c) /\ hist # <<>>
  BY <1>2, <1>3
<1>5. hist[Len(hist)].values = Command[c].values
  BY <1>4 DEF NewDraft
<1>6. configs' = [configs EXCEPT ![Command[c].resource] = hist]
      /\ UNCHANGED plugins
      /\ Logged(c, DigestBefore(c), Command[c].values)
  BY RecordLogs DEF Draft, Update, Succeed
<1>. HIDE DEF h, hist
<1>7. ASSUME NEW k \in DOMAIN hist
      PROVE  /\ hist[k].revision = IF k \in DOMAIN h THEN h[k].revision ELSE revision + 1
             /\ Fresh(hist[k]) \/ \E j \in DOMAIN h : Descends(c, hist[k], h[j])
  <2>1. CASE k \in DOMAIN h
    BY <1>4, <2>1 DEF Descends
  <2>2. CASE k \notin DOMAIN h
    BY <1>4, <2>2 DEF NewDraft, Fresh
  <2>. QED  BY <2>1, <2>2
<1>8. Follows(c, hist)
  BY <1>1, <1>4, <1>7 DEF Follows, h
<1>. QED  BY <1>5, <1>6, <1>8 DEF Moves

\* A validation, an approval and an activation replace the last snapshot.
LEMMA ReplaceMoves ==
  ASSUME MgmtTypeOK, NEW c \in CommandId, Validate(c) \/ Approve(c) \/ Activate(c)
  PROVE  Command[c].action \in ConfigAction /\ \E hist : Moves(c, hist)
<1>. DEFINE h == History(c)
<1>1. Command[c].action \in ConfigAction /\ h # <<>>
  BY DEF Validate, Approve, Activate, CanValidate, CanApprove, CanActivate, ConfigAction
<1>2. Current(c) \in Snapshot
  BY <1>1, HistoryTyped
<1>3. ASSUME NEW s \in Snapshot, s.revision = Current(c).revision,
             s.values = Current(c).values, Descends(c, s, Current(c)),
             Replace(c, s), Succeed(c, Current(c).values), UNCHANGED plugins
      PROVE  \E hist : Moves(c, hist)
  <2>. DEFINE hist == [h EXCEPT ![Len(h)] = s]
  <2>1. Follows(c, hist) /\ hist[Len(hist)] = s
    BY <1>1, <1>3, ReplaceFollows
  <2>2. configs' = [configs EXCEPT ![Command[c].resource] = hist]
    BY <1>3 DEF Replace, Update
  <2>3. Logged(c, DigestBefore(c), s.values)
    BY <1>3, RecordLogs DEF Succeed
  <2>. HIDE DEF hist
  <2>. QED  BY <1>3, <2>1, <2>2, <2>3 DEF Moves
<1>4. CASE Validate(c)
  <2>. DEFINE s == [Current(c) EXCEPT !.state = "SCHEMA_VALIDATED"]
  <2>1. /\ s \in Snapshot /\ s.revision = Current(c).revision
        /\ s.values = Current(c).values /\ Descends(c, s, Current(c))
    BY <1>2 DEF Snapshot, SnapshotState, Descends
  <2>3. Replace(c, s) /\ Succeed(c, Current(c).values) /\ UNCHANGED plugins
    BY <1>4 DEF Validate
  <2>. HIDE DEF s
  <2>. QED  BY <1>1, <1>3, <2>1, <2>3
<1>5. CASE Approve(c)
  <2>. DEFINE s == [Current(c) EXCEPT !.state = "APPROVED",
                                      !.approvals = @ \cup {Command[c].actor}]
  <2>1. /\ s \in Snapshot /\ s.revision = Current(c).revision
        /\ s.values = Current(c).values /\ s.state = "APPROVED"
        /\ s.approvals = Current(c).approvals \cup {Command[c].actor}
    BY <1>2, CommandTyped DEF Snapshot, SnapshotState
  <2>2. Descends(c, s, Current(c))
    BY <1>5, <2>1 DEF Descends, Approve, CanApprove
  <2>3. Replace(c, s) /\ Succeed(c, Current(c).values) /\ UNCHANGED plugins
    BY <1>5 DEF Approve
  <2>. HIDE DEF s
  <2>. QED  BY <1>1, <1>3, <2>1, <2>2, <2>3
<1>6. CASE Activate(c)
  <2>. DEFINE s == [Current(c) EXCEPT !.state = "ACTIVE"]
  <2>1. /\ s \in Snapshot /\ s.revision = Current(c).revision
        /\ s.values = Current(c).values /\ s.approvals = Current(c).approvals
    BY <1>2 DEF Snapshot, SnapshotState
  <2>2. Descends(c, s, Current(c))
    BY <1>6, <2>1 DEF Descends, Activate, CanActivate
  <2>3. Replace(c, s) /\ Succeed(c, Current(c).values) /\ UNCHANGED plugins
    BY <1>6 DEF Activate
  <2>. HIDE DEF s
  <2>. QED  BY <1>1, <1>3, <2>1, <2>2, <2>3
<1>. QED  BY <1>1, <1>4, <1>5, <1>6

\* What a rollback brings back is an earlier snapshot that is ACTIVE.
LEMMA FallbackIsActive ==
  ASSUME MgmtTypeOK, NEW c \in CommandId, CanRollback(c)
  PROVE  \E j \in DOMAIN History(c) :
           /\ LastFallback(c) = History(c)[j] /\ j < Len(History(c))
           /\ History(c)[j].state = "ACTIVE"
<1>1. History(c) \in Seq(Snapshot)
  BY HistoryTyped DEF CanRollback, ConfigAction
<1>2. /\ Fallbacks(c) \in SUBSET Nat /\ Fallbacks(c) # {}
      /\ Len(History(c)) \in Nat /\ \A i \in Fallbacks(c) : i <= Len(History(c))
  BY <1>1 DEF Fallbacks, CanRollback
<1>3. \E i \in Fallbacks(c) : \A j \in Fallbacks(c) : j <= i
  BY <1>2, LargestExists
<1>4. (CHOOSE i \in Fallbacks(c) : \A j \in Fallbacks(c) : j <= i) \in Fallbacks(c)
  BY <1>3
<1>. QED  BY <1>4 DEF LastFallback, Fallbacks

\* A rollback marks the last snapshot and adds the earlier one again.
LEMMA RollbackMoves ==
  ASSUME MgmtTypeOK, NEW c \in CommandId, Rollback(c)
  PROVE  Command[c].action = "config.rollback" /\ \E hist : Moves(c, hist)
<1>. DEFINE h == History(c)
            marked == [h EXCEPT ![Len(h)].state = "ROLLED_BACK"]
            old == [h[Len(h)] EXCEPT !.state = "ROLLED_BACK"]
            back == [LastFallback(c) EXCEPT !.revision = revision + 1]
            hist == Append(marked, back)
<1>1. Command[c].action = "config.rollback" /\ Command[c].action \in ConfigAction
  BY DEF Rollback, CanRollback, ConfigAction
<1>2. h \in Seq(Snapshot)
  BY <1>1, HistoryTyped
<1>3. PICK j \in DOMAIN h : LastFallback(c) = h[j] /\ j < Len(h) /\ h[j].state = "ACTIVE"
  BY FallbackIsActive DEF Rollback
<1>4. Len(h) \in DOMAIN h /\ Len(h) \in Nat /\ h[j] \in Snapshot /\ h[Len(h)] \in Snapshot
  BY <1>2, <1>3
<1>5. /\ back \in Snapshot /\ back.revision = revision + 1
      /\ back.values = h[j].values /\ back.approvals = h[j].approvals
      /\ back.values = LastFallback(c).values
  <2>1. revision + 1 \in Nat
    BY DEF MgmtTypeOK
  <2>2. back = [h[j] EXCEPT !.revision = revision + 1]
    BY <1>3
  <2>. QED  BY <1>3, <1>4, <2>1, <2>2 DEF Snapshot
<1>6. /\ old \in Snapshot /\ old.revision = h[Len(h)].revision /\ old.state = "ROLLED_BACK"
      /\ old.values = h[Len(h)].values /\ old.approvals = h[Len(h)].approvals
  BY <1>4 DEF Snapshot, SnapshotState
<1>7. marked = [h EXCEPT ![Len(h)] = old]
  OBVIOUS
<1>. HIDE DEF old
<1>8. /\ marked \in Seq(Snapshot) /\ Len(marked) = Len(h) /\ DOMAIN marked = DOMAIN h
      /\ marked[Len(h)] = old
      /\ \A k \in DOMAIN h : k # Len(h) => marked[k] = h[k]
  BY <1>2, <1>4, <1>6, <1>7
<1>9. /\ configs' = [configs EXCEPT ![Command[c].resource] = hist]
      /\ UNCHANGED plugins
      /\ Logged(c, DigestBefore(c), LastFallback(c).values)
  BY RecordLogs DEF Rollback, Update, Succeed
<1>. HIDE DEF marked, back
<1>10. /\ hist \in Seq(Snapshot) /\ Len(hist) = Len(h) + 1
       /\ DOMAIN hist = DOMAIN h \cup {Len(h) + 1} /\ Len(h) + 1 \notin DOMAIN h
       /\ \A k \in DOMAIN h : hist[k] = marked[k]
       /\ hist[Len(h) + 1] = back /\ hist # <<>>
  BY <1>2, <1>5, <1>8
<1>. HIDE DEF hist, h
<1>11. ASSUME NEW k \in DOMAIN hist
       PROVE  /\ hist[k].revision = IF k \in DOMAIN h THEN h[k].revision ELSE revision + 1
              /\ \E i \in DOMAIN h : Descends(c, hist[k], h[i])
  <2>1. CASE k = Len(h) + 1
    <3>1. Descends(c, back, h[j])
      BY <1>3, <1>5 DEF Descends
    <3>. QED  BY <1>5, <1>10, <2>1, <3>1
  <2>2. CASE k = Len(h)
    <3>1. Descends(c, old, h[Len(h)])
      BY <1>6 DEF Descends
    <3>. QED  BY <1>4, <1>6, <1>8, <1>10, <2>2, <3>1
  <2>3. CASE k \in DOMAIN h /\ k # Len(h)
    BY <1>8, <1>10, <2>3 DEF Descends
  <2>. QED  BY <1>10, <2>1, <2>2, <2>3
<1>12. Follows(c, hist)
  BY <1>1, <1>10, <1>11 DEF Follows, h
<1>13. hist[Len(hist)].values = LastFallback(c).values
  BY <1>5, <1>10
<1>. QED  BY <1>1, <1>9, <1>12, <1>13 DEF Moves

-----------------------------------------------------------------------------
(* The record "rec" that a plugin command leaves: a registration starts    *)
(* over, any other command keeps the artifact, and only plugin.shadow      *)
(* leads beyond VALIDATED.                                                 *)
PluginMoves(c, rec) ==
  /\ rec \in PluginRecord
  /\ Command[c].action \in PluginAction /\ Command[c].plugin \in Plugin
  /\ plugins' = [plugins EXCEPT ![Command[c].plugin] = rec]
  /\ Logged(c, HashBefore(c), rec.artifact)
  /\ UNCHANGED configs
  /\ \/ Command[c].action = "plugin.register" /\ rec.state = "VALIDATED"
     \/ /\ Command[c].action # "plugin.register"
        /\ PluginOf(c) # NoPlugin /\ rec.artifact = PluginOf(c).artifact
        /\ Command[c].action = "plugin.shadow" \/ PluginOf(c).state # "VALIDATED"

\* What a plugin holds is what the trail calls its digest.
LEMMA HashIsDigest ==
  ASSUME MgmtTypeOK, NEW c \in CommandId, Command[c].plugin \in Plugin
  PROVE  /\ PluginOf(c) \in PluginRecord \cup {NoPlugin} /\ HashBefore(c) \in Digest
         /\ HashBefore(c) = DigestOf(<<"plugin", Command[c].plugin>>)
<1>1. PluginOf(c) \in PluginRecord \cup {NoPlugin}
  BY DEF MgmtTypeOK, PluginOf
<1>2. HashBefore(c) = DigestOf(<<"plugin", Command[c].plugin>>)
  BY SubjectHolds DEF HashBefore, PluginOf
<1>3. HashBefore(c) \in Digest
  BY <1>1 DEF HashBefore, Digest, PluginRecord
<1>. QED  BY <1>1, <1>2, <1>3

-----------------------------------------------------------------------------
(* What a step can be: a rejection adds an entry and changes nothing else, *)
(* and alerts and outages leave no trace in the trail.                     *)
Rejection(c) ==
  /\ \E before \in Digest : audit' = Append(audit, Entry(c, FALSE, before, Nothing))
  /\ Command[c].key \in DOMAIN operations'
  /\ DOMAIN operations \subseteq DOMAIN operations'
  /\ UNCHANGED <<revision, configs, plugins>>

Unheard == UNCHANGED <<revision, operations, audit, configs, plugins>>

\* What a command that fails has read is a digest.
LEMMA FoundTyped ==
  ASSUME MgmtTypeOK, NEW c \in CommandId
  PROVE  Found(c) \in Digest
<1>1. CASE Command[c].action \in ConfigAction
  <2>1. DigestBefore(c) \in Digest
    BY <1>1, HistoryTyped
  <2>. QED  BY <1>1, <2>1 DEF Found, Digest, ConfigAction, PluginStep
<1>2. CASE Command[c].action \notin ConfigAction
  <2>1. CASE Command[c].action \in DOMAIN PluginStep /\ Command[c].plugin # Nothing
    <3>1. HashBefore(c) \in Digest
      BY <2>1, CommandTyped, HashIsDigest
    <3>. QED  BY <1>2, <2>1, <3>1 DEF Found
  <2>2. CASE ~(Command[c].action \in DOMAIN PluginStep /\ Command[c].plugin # Nothing)
    BY <1>2, <2>2 DEF Found, Digest
  <2>. QED  BY <2>1, <2>2
<1>. QED  BY <1>1, <1>2

\* A command is rejected or performed; all else leaves the trail alone.
LEMMA StepKinds ==
  ASSUME MgmtTypeOK, [MgmtNext]_mgmtVars
  PROVE  \/ Unheard
         \/ \E c \in CommandId : Rejection(c)
         \/ \E c \in CommandId : ~KeyKnown(c) /\ Perform(c)
<1>1. CASE \E c \in CommandId, seen \in {0, revision} : ExecuteCommand(c, seen)
  <2>1. PICK c \in CommandId, seen \in {0, revision} : ExecuteCommand(c, seen)
    BY <1>1
  <2>2. CASE KeyReused(c)
    BY <2>2 DEF KeyReused, KeyKnown, Rejection, Digest
  <2>3. CASE Refuse(c, seen)
    <3>1. PICK before \in Digest : Record(c, FALSE, before, Nothing)
      BY <2>3, FoundTyped DEF Refuse, Digest
    <3>. QED  BY <2>3, <3>1 DEF Refuse, Record, Rejection
  <2>4. CASE ~KeyKnown(c) /\ Perform(c)
    BY <2>4
  <2>. QED  BY <2>1, <2>2, <2>3, <2>4 DEF ExecuteCommand
<1>2. CASE \E a \in Alert : RaiseAlert(a)
  BY <1>2 DEF RaiseAlert, Unheard
<1>3. CASE SetAvailable
  BY <1>3 DEF SetAvailable, Unheard
<1>4. CASE UNCHANGED mgmtVars
  BY <1>4 DEF mgmtVars, Unheard
<1>. QED  BY <1>1, <1>2, <1>3, <1>4 DEF MgmtNext

-----------------------------------------------------------------------------
\* A registration and a step of a plugin leave a record of it.
LEMMA PluginCommandMoves ==
  ASSUME MgmtTypeOK, NEW c \in CommandId, Register(c) \/ MovePlugin(c)
  PROVE  \E rec : PluginMoves(c, rec)
<1>1. CASE Register(c)
  <2>1. /\ Command[c].action = "plugin.register" /\ Command[c].action \in PluginAction
        /\ Command[c].plugin \in Plugin
    BY <1>1, CommandTyped DEF Register, CanRegister, PluginAction
  <2>2. Registered(c) \in PluginRecord /\ Registered(c).state = "VALIDATED"
        /\ Registered(c).artifact = Command[c].artifact
    BY <1>1, ManagementAssumption DEF Register, CanRegister, Registered, PluginRecord
  <2>3. Logged(c, HashBefore(c), Command[c].artifact)
    BY <1>1, RecordLogs DEF Register
  <2>4. PluginMoves(c, Registered(c))
    BY <1>1, <2>1, <2>2, <2>3 DEF PluginMoves, Register
  <2>. QED  BY <2>4
<1>2. CASE MovePlugin(c)
  <2>. DEFINE step == PluginStep[Command[c].action]
              rec == [PluginOf(c) EXCEPT !.state = step.to]
  <2>1. Command[c].action \in {"plugin.shadow", "plugin.activate", "plugin.rollback"}
        /\ PluginOf(c).state = step.from
    BY <1>2 DEF MovePlugin, CanMovePlugin, PluginStep
  <2>2. Command[c].plugin \in Plugin /\ Command[c].action \in PluginAction
    BY <1>2, <2>1, CommandTyped DEF MovePlugin, CanMovePlugin, PluginAction
  <2>3. /\ step.from \in {"VALIDATED", "SHADOW", "ACTIVE"}
        /\ step.to \in {"VALIDATED", "SHADOW", "ACTIVE"}
        /\ Command[c].action = "plugin.shadow" \/ step.from # "VALIDATED"
    BY <2>1 DEF PluginStep
  <2>4. PluginOf(c) # NoPlugin /\ PluginOf(c) \in PluginRecord
    <3>1. PluginOf(c) \in PluginRecord \cup {NoPlugin}
      BY <2>2, HashIsDigest
    <3>. QED  BY <2>1, <2>3, <3>1 DEF NoPlugin
  <2>5. rec \in PluginRecord /\ rec.artifact = PluginOf(c).artifact
    BY <2>3, <2>4 DEF PluginRecord
  <2>6. plugins' = [plugins EXCEPT ![Command[c].plugin] = rec]
    BY <1>2 DEF MovePlugin, PluginOf
  <2>7. Logged(c, HashBefore(c), PluginOf(c).artifact) /\ UNCHANGED configs
    BY <1>2, RecordLogs DEF MovePlugin
  <2>. HIDE DEF rec, step
  <2>8. PluginMoves(c, rec)
    BY <2>1, <2>2, <2>3, <2>4, <2>5, <2>6, <2>7 DEF PluginMoves
  <2>. QED  BY <2>8
<1>. QED  BY <1>1, <1>2

(* Acknowledgements and mission commands are none of a trail's business.   *)
Unmoved(c) ==
  /\ Subject(c) \notin Subjects
  /\ Logged(c, Nothing, Nothing)
  /\ UNCHANGED <<configs, plugins>>

Success(c) ==
  \/ Command[c].action \in ConfigAction /\ \E hist : Moves(c, hist)
  \/ \E rec : PluginMoves(c, rec)
  \/ Unmoved(c)

\* Every command that is performed is of one of the three kinds.
LEMMA PerformSucceeds ==
  ASSUME MgmtTypeOK, NEW c \in CommandId, Perform(c)
  PROVE  Success(c)
<1>1. CASE Draft(c)
  BY <1>1, DraftMoves DEF Success, Draft, CanDraft, ConfigAction
<1>2. CASE Validate(c) \/ Approve(c) \/ Activate(c)
  BY <1>2, ReplaceMoves DEF Success
<1>3. CASE Rollback(c)
  BY <1>3, RollbackMoves DEF Success, ConfigAction
<1>4. CASE Register(c) \/ MovePlugin(c)
  BY <1>4, PluginCommandMoves DEF Success
<1>5. CASE AckAlert(c)
  BY <1>5, SubjectOfKind, RecordLogs DEF Success, Unmoved, AckAlert, CanAck
<1>6. CASE AcceptMission(c)
  BY <1>6, SubjectOfKind, RecordLogs DEF Success, Unmoved, AcceptMission
<1>. QED  BY <1>1, <1>2, <1>3, <1>4, <1>5, <1>6 DEF Perform

\* What a success finds and leaves is on record, and nothing else changes.
LEMMA SuccessOnRecord ==
  ASSUME MgmtTypeOK, NEW c \in CommandId, Success(c)
  PROVE  \E before, after \in Digest :
           /\ Logged(c, before, after)
           /\ \A r \in Subjects :
                IF r = Subject(c)
                THEN before = DigestOf(r) /\ after = DigestOf(r)'
                ELSE DigestOf(r)' = DigestOf(r)
<1>. DEFINE Holds(before, after) ==
              \A r \in Subjects :
                IF r = Subject(c) THEN before = DigestOf(r) /\ after = DigestOf(r)'
                ELSE DigestOf(r)' = DigestOf(r)
<1>1. CASE Command[c].action \in ConfigAction /\ \E hist : Moves(c, hist)
  <2>1. PICK hist : Moves(c, hist)
    BY <1>1
  <2>. DEFINE after == hist[Len(hist)].values
              res == Command[c].resource
  <2>2. res \in Resource /\ Subject(c) = <<"config", res>>
    BY <1>1, CommandTyped, SubjectOfKind
  <2>3. /\ hist \in Seq(Snapshot) /\ hist # <<>> /\ UNCHANGED plugins
        /\ configs' = [configs EXCEPT ![res] = hist]
    BY <2>1 DEF Moves, Follows
  <2>4. hist[Len(hist)] \in Snapshot
    BY <2>3
  <2>5. after \in Digest
    BY <2>4 DEF Snapshot, Digest
  <2>. HIDE DEF res
  <2>6. configs'[res] = hist /\ \A n \in Resource : n # res => configs'[n] = configs[n]
    BY <2>2, <2>3 DEF MgmtTypeOK
  <2>7. DigestOf(Subject(c))' = after
    BY <2>2, <2>3, <2>6 DEF DigestOf
  <2>8. ASSUME NEW r \in Subjects, r # Subject(c)
        PROVE  DigestOf(r)' = DigestOf(r)
    <3>1. CASE \E n \in Resource : r = <<"config", n>>
      BY <2>2, <2>6, <2>8, <3>1 DEF DigestOf
    <3>2. CASE \E p \in Plugin : r = <<"plugin", p>>
      BY <2>3, <3>2 DEF DigestOf
    <3>. QED  BY <3>1, <3>2, SubjectHolds
  <2>9. DigestBefore(c) = DigestOf(Subject(c)) /\ DigestBefore(c) \in Digest
    BY <1>1, HistoryTyped
  <2>10. Holds(DigestBefore(c), after)
    BY <2>7, <2>8, <2>9
  <2>. QED  BY <2>1, <2>5, <2>9, <2>10 DEF Moves
<1>2. CASE \E rec : PluginMoves(c, rec)
  <2>1. PICK rec : PluginMoves(c, rec)
    BY <1>2
  <2>. DEFINE p == Command[c].plugin
  <2>2. /\ rec \in PluginRecord /\ p \in Plugin /\ UNCHANGED configs
        /\ plugins' = [plugins EXCEPT ![p] = rec] /\ Subject(c) = <<"plugin", p>>
    BY <2>1, SubjectOfKind DEF PluginMoves
  <2>3. rec.artifact \in Digest /\ rec # NoPlugin
    BY <2>2 DEF PluginRecord, Digest, NoPlugin
  <2>. HIDE DEF p
  <2>4. plugins'[p] = rec /\ \A q \in Plugin : q # p => plugins'[q] = plugins[q]
    BY <2>2 DEF MgmtTypeOK
  <2>5. DigestOf(Subject(c))' = rec.artifact
    BY <2>2, <2>3, <2>4 DEF DigestOf
  <2>6. ASSUME NEW r \in Subjects, r # Subject(c)
        PROVE  DigestOf(r)' = DigestOf(r)
    <3>1. CASE \E n \in Resource : r = <<"config", n>>
      BY <2>2, <3>1 DEF DigestOf
    <3>2. CASE \E q \in Plugin : r = <<"plugin", q>>
      BY <2>2, <2>4, <2>6, <3>2 DEF DigestOf
    <3>. QED  BY <3>1, <3>2, SubjectHolds
  <2>7. HashBefore(c) = DigestOf(Subject(c)) /\ HashBefore(c) \in Digest
    BY <2>2, HashIsDigest DEF p
  <2>8. Holds(HashBefore(c), rec.artifact)
    BY <2>5, <2>6, <2>7
  <2>. QED  BY <2>1, <2>3, <2>7, <2>8 DEF PluginMoves
<1>3. CASE Unmoved(c)
  <2>1. Nothing \in Digest /\ Holds(Nothing, Nothing)
    BY <1>3 DEF Unmoved, Digest, DigestOf
  <2>. QED  BY <1>3, <2>1 DEF Unmoved
<1>. QED  BY <1>1, <1>2, <1>3 DEF Success
-----------------------------------------------------------------------------
(* The parts of the invariant, step by step.                               *)

\* The snapshots of a namespace, one by one.
LEMMA SnapshotTyped ==
  ASSUME MgmtTypeOK, NEW n \in Resource
  PROVE  /\ Len(configs[n]) \in Nat /\ DOMAIN configs[n] = 1..Len(configs[n])
         /\ \A k \in DOMAIN configs[n] :
              configs[n][k] \in Snapshot /\ configs[n][k].revision \in Nat
<1>1. configs[n] \in Seq(Snapshot)
  BY DEF MgmtTypeOK
<1>2. \A k \in DOMAIN configs[n] : configs[n][k] \in Snapshot
  BY <1>1
<1>. QED  BY <1>1, <1>2 DEF Snapshot

\* Any step ends in well-typed state.
LEMMA TypeStep ==
  ASSUME MgmtTypeOK, [MgmtNext]_mgmtVars
  PROVE  MgmtTypeOK'
<1>1. CASE Unheard
  BY <1>1 DEF Unheard, MgmtTypeOK
<1>2. CASE \E c \in CommandId : Rejection(c)
  <2>1. PICK c \in CommandId : Rejection(c)
    BY <1>2
  <2>2. audit' \in Seq(AuditEntry)
    <3>1. PICK e \in AuditEntry : audit' = Append(audit, e)
      BY <2>1, EntryTyped DEF Rejection, Digest
    <3>. QED  BY <3>1, TrailGrows
  <2>. QED  BY <2>1, <2>2 DEF Rejection, MgmtTypeOK
<1>3. CASE \E c \in CommandId : Perform(c)
  <2>1. PICK c \in CommandId : Success(c)
    BY <1>3, PerformSucceeds
  <2>2. PICK before \in Digest, after \in Digest : Logged(c, before, after)
    BY <2>1, SuccessOnRecord
  <2>3. audit' \in Seq(AuditEntry)
    BY <2>2, TrailGrows, EntryTyped DEF Logged
  <2>6. revision' \in Nat
    BY <2>2 DEF Logged, MgmtTypeOK
  <2>4. configs' \in [Resource -> Seq(Snapshot)]
    BY <2>1, CommandTyped, SMTT(30) DEF Success, Moves, Follows, PluginMoves, Unmoved, MgmtTypeOK
  <2>5. plugins' \in [Plugin -> PluginRecord \cup {NoPlugin}]
    BY <2>1 DEF Success, Moves, PluginMoves, Unmoved, MgmtTypeOK
  <2>. QED  BY <2>3, <2>4, <2>5, <2>6 DEF MgmtTypeOK
<1>. QED  BY <1>1, <1>2, <1>3, StepKinds

\* A step's entry takes its key, and succeeds only if the key was free.
LEMMA KeyStep ==
  ASSUME MgmtTypeOK, KeysOnRecord, FirstAttemptDecides, [MgmtNext]_mgmtVars
  PROVE  KeysOnRecord' /\ FirstAttemptDecides'
<1>1. CASE Unheard
  BY <1>1 DEF Unheard, KeysOnRecord, FirstAttemptDecides
<1>2. ASSUME NEW c \in CommandId, NEW e \in AuditEntry, e.command = c,
             audit' = Append(audit, e),
             Command[c].key \in DOMAIN operations',
             DOMAIN operations \subseteq DOMAIN operations',
             e.success => ~KeyKnown(c)
      PROVE  KeysOnRecord' /\ FirstAttemptDecides'
  <2>. DEFINE key(i) == Command[audit[i].command].key
  <2>1. PICK new : new = Len(audit) + 1
    OBVIOUS
  <2>2. /\ new \notin DOMAIN audit
        /\ DOMAIN audit' = DOMAIN audit \cup {new}
        /\ \A i \in DOMAIN audit : i \in Nat /\ i < new /\ audit'[i] = audit[i]
        /\ audit'[new] = e /\ new \in Nat
    BY <1>2, <2>1, TrailGrows DEF MgmtTypeOK
  <2>3. KeysOnRecord'
    BY <1>2, <2>2 DEF KeysOnRecord
  <2>4. ASSUME NEW i \in DOMAIN audit', NEW j \in DOMAIN audit', i < j,
               Command[audit'[i].command].key = Command[audit'[j].command].key
        PROVE  ~audit'[j].success
    <3>1. i \in DOMAIN audit
      BY <2>2, <2>4
    <3>2. CASE j = new
      BY <1>2, <2>2, <2>4, <3>1, <3>2 DEF KeysOnRecord, KeyKnown
    <3>3. CASE j \in DOMAIN audit
      BY <2>2, <2>4, <3>1, <3>3 DEF FirstAttemptDecides
    <3>. QED  BY <2>2, <3>2, <3>3
  <2>. QED  BY <2>3, <2>4 DEF FirstAttemptDecides
<1>3. CASE \E c \in CommandId : Rejection(c)
  <2>1. PICK c \in CommandId : Rejection(c)
    BY <1>3
  <2>2. PICK e \in AuditEntry :
          e.command = c /\ e.success = FALSE /\ audit' = Append(audit, e)
    BY <2>1, EntryTyped DEF Rejection, Entry, Digest
  <2>. QED  BY <1>2, <2>1, <2>2 DEF Rejection
<1>4. CASE \E c \in CommandId : ~KeyKnown(c) /\ Perform(c)
  <2>1. PICK c \in CommandId : ~KeyKnown(c) /\ Success(c)
    BY <1>4, PerformSucceeds
  <2>2. PICK before \in Digest, after \in Digest : Logged(c, before, after)
    BY <2>1, SuccessOnRecord
  <2>. DEFINE e == Entry(c, TRUE, before, after)
  <2>3. e \in AuditEntry /\ e.command = c
    BY EntryTyped DEF Entry
  <2>. QED  BY <1>2, <2>1, <2>2, <2>3 DEF Logged
<1>. QED  BY <1>1, <1>3, <1>4, StepKinds

\* A success was sent on the revision that it raises; all else raises none.
LEMMA AskedStep ==
  ASSUME MgmtTypeOK, SentInOrder, [MgmtNext]_mgmtVars
  PROVE  SentInOrder'
<1>1. ASSUME UNCHANGED <<revision, asked>> PROVE SentInOrder'
  BY <1>1 DEF SentInOrder
<1>2. CASE \E c \in CommandId, seen \in {0, revision} : ExecuteCommand(c, seen)
  <2>1. PICK c \in CommandId, seen \in {0, revision} : ExecuteCommand(c, seen)
    BY <1>2
  <2>2. asked' = IF revision' = revision THEN asked ELSE Append(asked, seen)
    BY <2>1 DEF ExecuteCommand
  <2>3. CASE KeyReused(c) \/ Refuse(c, seen)
    BY <1>1, <2>2, <2>3 DEF KeyReused, Refuse, Record
  <2>4. CASE Admitted(c, seen) /\ Perform(c)
    <3>1. revision' = revision + 1
      BY <2>4, PerformSucceeds DEF Success, Moves, PluginMoves, Unmoved, Logged
    <3>2. asked' = Append(asked, revision) /\ revision \in Nat
      BY <2>2, <2>4, <3>1 DEF Admitted, MgmtTypeOK
    <3>. QED  BY <3>1, <3>2 DEF SentInOrder
  <2>. QED  BY <2>1, <2>3, <2>4 DEF ExecuteCommand
<1>. QED
  BY <1>1, <1>2 DEF MgmtNext, RaiseAlert, SetAvailable, mgmtVars

\* A history that follows another one, with one number more, is in order again.
LEMMA NumberedOn ==
  ASSUME NEW h \in Seq(Snapshot), NEW hist \in Seq(Snapshot), NEW r \in Nat,
         Len(hist) = Len(h) \/ Len(hist) = Len(h) + 1,
         \A k \in DOMAIN hist :
           hist[k].revision = IF k \in DOMAIN h THEN h[k].revision ELSE r + 1,
         \A k \in DOMAIN h :
           /\ h[k].revision \in Nat /\ h[k].revision <= r
           /\ \A j \in DOMAIN h : k < j => h[k].revision < h[j].revision
  PROVE  \A i \in DOMAIN hist :
           /\ hist[i].revision <= r + 1
           /\ \A j \in DOMAIN hist : i < j => hist[i].revision < hist[j].revision
<1>1. /\ DOMAIN hist = 1..Len(hist) /\ DOMAIN h = 1..Len(h) /\ Len(h) \in Nat
      /\ Len(hist) \in Nat
  OBVIOUS
<1>. TAKE i \in DOMAIN hist
<1>2. i \in 1..Len(hist)
  BY <1>1
<1>3. hist[i].revision <= r + 1
  <2>1. CASE i \in DOMAIN h
    BY <2>1
  <2>2. CASE i \notin DOMAIN h
    BY <2>2
  <2>. QED  BY <2>1, <2>2
<1>4. ASSUME NEW j \in DOMAIN hist, i < j
      PROVE  hist[i].revision < hist[j].revision
  <2>. DEFINE m == Len(hist)
              n == Len(h)
  <2>5. /\ m \in Nat /\ n \in Nat
        /\ m = n \/ m = n + 1
        /\ i \in 1..m /\ j \in 1..m
    BY <1>1, <1>2
  <2>. HIDE DEF m, n
  <2>1. i \in 1..n
    BY <1>4, <2>5
  <2>2. i \in DOMAIN h
    BY <1>1, <2>1 DEF n
  <2>3. CASE j \in DOMAIN h
    BY <1>4, <2>2, <2>3
  <2>4. CASE j \notin DOMAIN h
    BY <2>2, <2>4
  <2>. QED  BY <2>3, <2>4
<1>. QED  BY <1>3, <1>4

\* A new snapshot is numbered beyond all others.
LEMMA RevisionStep ==
  ASSUME MgmtTypeOK, RevisionsIssued, [MgmtNext]_mgmtVars
  PROVE  RevisionsIssued'
<1>1. CASE UNCHANGED <<revision, configs>>
  BY <1>1 DEF RevisionsIssued
<1>2. ASSUME NEW c \in CommandId, NEW hist, Command[c].action \in ConfigAction,
             Moves(c, hist)
      PROVE  RevisionsIssued'
  <2>. DEFINE res == Command[c].resource
              h == History(c)
  <2>1. /\ res \in Resource /\ h = configs[res] /\ h \in Seq(Snapshot)
    BY <1>2, HistoryTyped DEF History
  <2>2. revision' = revision + 1 /\ revision \in Nat
    BY <1>2 DEF Moves, Logged, MgmtTypeOK
  <2>3. configs'[res] = hist /\ \A n \in Resource : n # res => configs'[n] = configs[n]
    BY <1>2, <2>1 DEF Moves, MgmtTypeOK
  <2>4. /\ hist \in Seq(Snapshot) /\ (Len(hist) = Len(h) \/ Len(hist) = Len(h) + 1)
        /\ \A k \in DOMAIN hist :
             hist[k].revision = IF k \in DOMAIN h THEN h[k].revision ELSE revision + 1
    BY <1>2 DEF Moves, Follows
  <2>5. \A k \in DOMAIN h : h[k].revision \in Nat /\ h[k].revision <= revision
    BY <2>1, SnapshotTyped DEF RevisionsIssued
  <2>. HIDE DEF h, res
  <2>6. ASSUME NEW n \in Resource, NEW i \in DOMAIN configs'[n]
        PROVE  /\ configs'[n][i].revision <= revision'
               /\ \A j \in DOMAIN configs'[n] :
                    i < j => configs'[n][i].revision < configs'[n][j].revision
    <3>1. CASE n = res
      <4>1. \A k \in DOMAIN h : \A j \in DOMAIN h :
              k < j => h[k].revision < h[j].revision
        BY <2>1 DEF RevisionsIssued
      <4>2. \A k \in DOMAIN hist :
              /\ hist[k].revision <= revision + 1
              /\ \A j \in DOMAIN hist : k < j => hist[k].revision < hist[j].revision
        BY <2>1, <2>2, <2>4, <2>5, <4>1, NumberedOn
      <4>. QED  BY <2>2, <2>3, <3>1, <4>2
    <3>2. CASE n # res
      <4>1. configs'[n] = configs[n]
        BY <2>3, <3>2
      <4>2. configs[n][i].revision \in Nat
        BY <4>1, SnapshotTyped
      <4>. QED  BY <2>2, <4>1, <4>2 DEF RevisionsIssued
    <3>. QED  BY <3>1, <3>2
  <2>. QED  BY <2>6 DEF RevisionsIssued
<1>3. ASSUME revision' = revision + 1, UNCHANGED configs
      PROVE  RevisionsIssued'
  <2>1. \A n \in Resource : \A i \in DOMAIN configs[n] : configs[n][i].revision \in Nat
    BY SnapshotTyped
  <2>. QED  BY <1>3, <2>1 DEF RevisionsIssued, MgmtTypeOK
<1>4. CASE \E c \in CommandId : Perform(c)
  <2>1. PICK c \in CommandId : Success(c)
    BY <1>4, PerformSucceeds
  <2>. QED  BY <1>2, <1>3, <2>1 DEF Success, PluginMoves, Unmoved, Logged
<1>. QED  BY <1>1, <1>4, StepKinds DEF Unheard, Rejection

\* Only successes join a subject's trail; nothing is taken from it.
LEMMA RejectedLeavesTrail ==
  ASSUME MgmtTypeOK, NEW c \in CommandId, Rejection(c), NEW r
  PROVE  /\ On(r)' = On(r)
         /\ \A i \in On(r) :
              /\ audit'[i] = audit[i]
              /\ ByAction(i)' = ByAction(i) /\ ByActor(i)' = ByActor(i)
<1>1. PICK new : new = Len(audit) + 1
  OBVIOUS
<1>2. PICK e \in AuditEntry : e.success = FALSE /\ audit' = Append(audit, e)
  BY EntryTyped DEF Rejection, Entry, Digest
<1>3. On(r)' = On(r)
  BY <1>1, <1>2, OnGrows
<1>4. \A i \in On(r) : audit'[i] = audit[i]
  BY <1>2, TrailGrows DEF On, Succeeded
<1>. QED  BY <1>3, <1>4 DEF ByAction, ByActor

\* A success joins the trail of its subject, at the end.
LEMMA LoggedGrows ==
  ASSUME MgmtTypeOK, NEW c \in CommandId, NEW before \in Digest, NEW after \in Digest,
         Logged(c, before, after), NEW r, NEW new, new = Len(audit) + 1
  PROVE  /\ On(r)' = IF Subject(c) = r THEN On(r) \cup {new} ELSE On(r)
         /\ \A i \in On(r) :
              /\ i \in Nat /\ i < new /\ audit'[i] = audit[i]
              /\ ByAction(i)' = ByAction(i) /\ ByActor(i)' = ByActor(i)
         /\ ByAction(new)' = Command[c].action /\ ByActor(new)' = Command[c].actor
         /\ audit'[new].before = before /\ audit'[new].after = after
         /\ new \in Nat /\ new \notin On(r)
<1>1. PICK e \in AuditEntry :
        /\ e.success = TRUE /\ e.command = c /\ e.before = before /\ e.after = after
        /\ audit' = Append(audit, e)
  BY EntryTyped DEF Logged, Entry
<1>2. On(r)' = IF Subject(c) = r THEN On(r) \cup {new} ELSE On(r)
  BY <1>1, OnGrows
<1>3. audit'[new] = e /\ new \in Nat
  BY <1>1, OnGrows
<1>4. new \notin On(r)
  BY <1>1, OnGrows
<1>5. \A i \in On(r) : i \in Nat /\ i < new /\ audit'[i] = audit[i]
  BY <1>1, TrailGrows DEF On, Succeeded
<1>. QED  BY <1>1, <1>2, <1>3, <1>4, <1>5 DEF ByAction, ByActor

\* A step leaves each trail reaching up to what is there now, and unbroken.
LEMMA TrailStep ==
  ASSUME MgmtTypeOK, NEW r \in Subjects,
         TrailReachesNow(r), TrailUnbroken(r), [MgmtNext]_mgmtVars
  PROVE  TrailReachesNow(r)' /\ TrailUnbroken(r)'
<1>1. ASSUME On(r)' = On(r), \A i \in On(r) : audit'[i] = audit[i],
             DigestOf(r)' = DigestOf(r)
      PROVE  TrailReachesNow(r)' /\ TrailUnbroken(r)'
  BY <1>1 DEF TrailReachesNow, TrailUnbroken, Latest
<1>2. CASE Unheard
  BY <1>1, <1>2 DEF Unheard, DigestOf, On, Succeeded
<1>3. CASE \E c \in CommandId : Rejection(c)
  BY <1>1, <1>3, RejectedLeavesTrail DEF Rejection, DigestOf
<1>4. CASE \E c \in CommandId : Perform(c)
  <2>1. PICK c \in CommandId : Success(c)
    BY <1>4, PerformSucceeds
  <2>2. PICK before \in Digest, after \in Digest :
          /\ Logged(c, before, after)
          /\ IF r = Subject(c)
             THEN before = DigestOf(r) /\ after = DigestOf(r)'
             ELSE DigestOf(r)' = DigestOf(r)
    BY <2>1, SuccessOnRecord
  <2>3. PICK new : new = Len(audit) + 1
    OBVIOUS
  <2>4. /\ On(r)' = IF Subject(c) = r THEN On(r) \cup {new} ELSE On(r)
        /\ \A i \in On(r) : i \in Nat /\ i < new /\ audit'[i] = audit[i]
        /\ audit'[new].before = before /\ audit'[new].after = after
        /\ new \in Nat /\ new \notin On(r)
    BY <2>2, <2>3, LoggedGrows
  <2>5. CASE Subject(c) # r
    BY <1>1, <2>2, <2>4, <2>5
  <2>6. CASE Subject(c) = r
    <3>1. On(r)' = On(r) \cup {new} /\ before = DigestOf(r) /\ after = DigestOf(r)'
      BY <2>2, <2>4, <2>6
    <3>2. Latest(new, r)'
      BY <2>4, <3>1 DEF Latest
    <3>3. TrailReachesNow(r)'
      BY <2>4, <3>1, <3>2 DEF TrailReachesNow
    <3>4. ASSUME NEW i \in On(r)', NEW j \in On(r)', i < j,
                 \A k \in On(r)' : k <= i \/ j <= k
          PROVE  audit'[j].before = audit'[i].after
      <4>1. i \in On(r)
        BY <2>4, <3>1, <3>4
      <4>2. CASE j = new
        <5>1. PICK l \in On(r) : Latest(l, r) /\ audit[l].after = DigestOf(r)
          BY <4>1 DEF TrailReachesNow
        <5>2. i <= l /\ l < new /\ l \in Nat /\ i \in Nat
          BY <2>4, <4>1, <5>1 DEF Latest
        <5>3. l <= i \/ new <= l
          BY <3>1, <3>4, <4>2
        <5>4. l = i
          BY <2>4, <5>2, <5>3
        <5>. QED  BY <2>4, <3>1, <4>1, <4>2, <5>1, <5>4
      <4>3. CASE j \in On(r)
        <5>1. \A k \in On(r) : k <= i \/ j <= k
          BY <3>1, <3>4
        <5>2. audit[j].before = audit[i].after
          BY <3>4, <4>1, <4>3, <5>1 DEF TrailUnbroken
        <5>. QED  BY <2>4, <4>1, <4>3, <5>2
      <4>. QED  BY <3>1, <4>2, <4>3
    <3>. QED  BY <3>3, <3>4 DEF TrailUnbroken
  <2>. QED  BY <2>5, <2>6
<1>. QED  BY <1>2, <1>3, <1>4, StepKinds

\* What a trail knows of an approval, it knows ever after.
LEMMA ApprovalsStay ==
  ASSUME NEW n, NEW s, ApprovalsOnRecord(n, s), On(<<"config", n>>) \subseteq On(<<"config", n>>)',
         \A i \in On(<<"config", n>>) : /\ audit'[i] = audit[i]
                          /\ ByAction(i)' = ByAction(i) /\ ByActor(i)' = ByActor(i)
  PROVE  ApprovalsOnRecord(n, s)'
<1>1. \A i \in On(<<"config", n>>) : Approval(i, n, s) => Approval(i, n, s)'
  BY DEF Approval
<1>. QED  BY <1>1 DEF ApprovalsOnRecord

\* A snapshot that a configuration command leaves has its approvals on record.
LEMMA ApprovalsStep ==
  ASSUME MgmtTypeOK,
         \A n \in Resource : \A k \in DOMAIN configs[n] :
           ApprovalsOnRecord(n, configs[n][k]),
         [MgmtNext]_mgmtVars
  PROVE  (\A n \in Resource : \A k \in DOMAIN configs[n] :
            ApprovalsOnRecord(n, configs[n][k]))'
<1>. SUFFICES ASSUME NEW n \in Resource, NEW k \in DOMAIN configs'[n],
                     NEW s, s = configs'[n][k]
              PROVE  ApprovalsOnRecord(n, s)'
  BY DEF ApprovalsOnRecord, Approval
<1>1. CASE Unheard
  <2>1. ApprovalsOnRecord(n, s)
    BY <1>1 DEF Unheard
  <2>. QED  BY <1>1, <2>1, ApprovalsStay DEF Unheard, On, Succeeded, ByAction, ByActor
<1>2. CASE \E c \in CommandId : Rejection(c)
  <2>1. ApprovalsOnRecord(n, s)
    BY <1>2 DEF Rejection
  <2>. QED  BY <1>2, <2>1, ApprovalsStay, RejectedLeavesTrail
<1>3. CASE \E c \in CommandId : Perform(c)
  <2>1. PICK c \in CommandId : Success(c)
    BY <1>3, PerformSucceeds
  <2>2. PICK before \in Digest, after \in Digest : Logged(c, before, after)
    BY <2>1, SuccessOnRecord
  <2>3. PICK new : new = Len(audit) + 1
    OBVIOUS
  <2>7. \A r :
        /\ On(r)' = IF Subject(c) = r THEN On(r) \cup {new} ELSE On(r)
        /\ \A i \in On(r) :
             /\ audit'[i] = audit[i]
             /\ ByAction(i)' = ByAction(i) /\ ByActor(i)' = ByActor(i)
        /\ ByAction(new)' = Command[c].action /\ ByActor(new)' = Command[c].actor
        /\ audit'[new].after = after
    BY <2>2, <2>3, LoggedGrows
  <2>4. /\ On(<<"config", n>>)' = IF Subject(c) = <<"config", n>>
                                 THEN On(<<"config", n>>) \cup {new}
                                 ELSE On(<<"config", n>>)
        /\ \A i \in On(<<"config", n>>) :
             /\ audit'[i] = audit[i]
             /\ ByAction(i)' = ByAction(i) /\ ByActor(i)' = ByActor(i)
        /\ ByAction(new)' = Command[c].action /\ ByActor(new)' = Command[c].actor
        /\ audit'[new].after = after
    BY <2>7
  <2>5. CASE configs'[n] = configs[n]
    <3>1. ApprovalsOnRecord(n, s)
      BY <2>5
    <3>. QED  BY <2>4, <3>1, ApprovalsStay
  <2>6. CASE configs'[n] # configs[n]
    <3>1. PICK hist : Command[c].action \in ConfigAction /\ Moves(c, hist)
      BY <2>1, <2>6 DEF Success, PluginMoves, Unmoved
    <3>2. /\ Command[c].resource = n /\ configs'[n] = hist
          /\ Subject(c) = <<"config", n>>
      BY <2>6, <3>1, HistoryTyped, SubjectOfKind DEF Moves, MgmtTypeOK
    <3>3. /\ History(c) = configs[n] /\ after = hist[Len(hist)].values
          /\ Command[c].action = "config.approve" =>
               k = Len(hist) \/ (k \in DOMAIN History(c) /\ s = History(c)[k])
          /\ Fresh(s) \/ \E j \in DOMAIN History(c) : Descends(c, s, History(c)[j])
      <4>1. k \in DOMAIN hist /\ s = hist[k]
        BY <3>2
      <4>2. audit' = Append(audit, Entry(c, TRUE, DigestBefore(c), hist[Len(hist)].values))
            /\ audit' = Append(audit, Entry(c, TRUE, before, after))
        BY <2>2, <3>1 DEF Moves, Logged
      <4>3. after = hist[Len(hist)].values
        BY <2>3, <2>4, <4>2 DEF Entry, MgmtTypeOK
      <4>. QED  BY <3>1, <3>2, <4>1, <4>3 DEF Moves, Follows, History
    <3>4. CASE Fresh(s)
      BY <3>4, FS_EmptySet DEF Fresh, ApprovalsOnRecord
    <3>5. CASE \E j \in DOMAIN History(c) : Descends(c, s, History(c)[j])
      <4>1. PICK t : Descends(c, s, t) /\ ApprovalsOnRecord(n, t)
        BY <3>3, <3>5
      <4>2. ApprovalsOnRecord(n, t)'
        BY <2>4, <4>1, ApprovalsStay
      <4>3. CASE s.approvals = t.approvals
                 /\ (s.state = "ACTIVE" =>
                      \/ t.state = "ACTIVE"
                      \/ Cardinality(t.approvals) >= Required(n, t.values))
        BY <4>1, <4>2, <4>3 DEF ApprovalsOnRecord, Approval, Descends
      <4>4. CASE /\ Command[c].action = "config.approve" /\ s.state = "APPROVED"
                 /\ s.approvals = t.approvals \cup {Command[c].actor}
        <5>1. CASE k = Len(hist)
          <6>1. new \in On(<<"config", n>>)' /\ Approval(new, n, s)'
            BY <2>4, <3>2, <3>3, <4>4, <5>1 DEF Approval
          <6>2. IsFiniteSet(s.approvals)
            <7>1. IsFiniteSet(t.approvals)
              BY <4>1 DEF ApprovalsOnRecord
            <7>2. IsFiniteSet(t.approvals \cup {Command[c].actor})
              BY <7>1, FS_AddElement
            <7>. QED  BY <4>4, <7>2
          <6>3. \A a \in t.approvals : \E i \in On(<<"config", n>>)' :
                  Approval(i, n, s)' /\ ByActor(i)' = a
            BY <4>1, <4>2 DEF ApprovalsOnRecord, Approval, Descends
          <6>4. \A a \in s.approvals : \E i \in On(<<"config", n>>)' :
                  Approval(i, n, s)' /\ ByActor(i)' = a
            BY <2>4, <4>4, <6>1, <6>3
          <6>. QED  BY <4>4, <6>2, <6>4 DEF ApprovalsOnRecord
        <5>2. CASE k \in DOMAIN History(c) /\ s = History(c)[k]
          <6>1. ApprovalsOnRecord(n, s)
            BY <3>3, <5>2
          <6>. QED  BY <2>4, <6>1, ApprovalsStay
        <5>. QED  BY <3>3, <4>4, <5>1, <5>2
      <4>. QED  BY <3>2, <4>1, <4>3, <4>4 DEF Descends
    <3>. QED  BY <3>3, <3>4, <3>5
  <2>. QED  BY <2>5, <2>6
<1>. QED  BY <1>1, <1>2, <1>3, StepKinds

\* A plugin's record keeps what the trail says of its artifact and its state.
LEMMA PluginStepOnRecord ==
  ASSUME MgmtTypeOK, NEW p \in Plugin, PluginOnRecord(p), [MgmtNext]_mgmtVars
  PROVE  PluginOnRecord(p)'
<1>. DEFINE r == <<"plugin", p>>
<1>. HIDE DEF r
<1>1. ASSUME On(r)' = On(r), plugins'[p] = plugins[p],
             \A i \in On(r) : audit'[i] = audit[i] /\ ByAction(i)' = ByAction(i)
      PROVE  PluginOnRecord(p)'
  BY <1>1 DEF PluginOnRecord, LastRegistration, r
<1>2. CASE Unheard
  BY <1>1, <1>2 DEF Unheard, On, Succeeded, ByAction
<1>3. CASE \E c \in CommandId : Rejection(c)
  BY <1>1, <1>3, RejectedLeavesTrail DEF Rejection
<1>4. CASE \E c \in CommandId : Perform(c)
  <2>1. PICK c \in CommandId : Success(c)
    BY <1>4, PerformSucceeds
  <2>2. PICK before \in Digest, after \in Digest : Logged(c, before, after)
    BY <2>1, SuccessOnRecord
  <2>3. PICK new : new = Len(audit) + 1
    OBVIOUS
  <2>4. /\ On(r)' = IF Subject(c) = r THEN On(r) \cup {new} ELSE On(r)
        /\ \A i \in On(r) :
             /\ i \in Nat /\ i < new
             /\ audit'[i] = audit[i] /\ ByAction(i)' = ByAction(i)
        /\ ByAction(new)' = Command[c].action
        /\ audit'[new].after = after /\ new \in Nat
    BY <2>2, <2>3, LoggedGrows
  <2>5. CASE Subject(c) # r
    <3>1. CASE \E rec : PluginMoves(c, rec)
      <4>1. Command[c].plugin # p
        BY <2>5, <3>1, SubjectOfKind DEF PluginMoves, r
      <4>2. plugins'[p] = plugins[p]
        BY <3>1, <4>1 DEF PluginMoves, MgmtTypeOK
      <4>. QED  BY <1>1, <2>4, <2>5, <4>2
    <3>2. CASE UNCHANGED plugins
      BY <1>1, <2>4, <2>5, <3>2
    <3>. QED  BY <2>1, <3>1, <3>2 DEF Success, Moves, Unmoved
  <2>6. CASE Subject(c) = r
    <3>. Command[c].action \notin ConfigAction /\ r \in Subjects
      BY <2>6, SubjectOfKind DEF Subjects, r
    <3>1. PICK rec : PluginMoves(c, rec)
      BY <2>1, <2>6 DEF Success, Unmoved
    <3>7. Command[c].plugin = p
      BY <2>6, <3>1, SubjectOfKind DEF PluginMoves, r
    <3>2. plugins'[p] = rec /\ rec \in PluginRecord /\ PluginOf(c) = plugins[p]
      BY <3>1, <3>7 DEF PluginMoves, MgmtTypeOK, PluginOf
    <3>3. after = rec.artifact
      <4>1. audit' = Append(audit, Entry(c, TRUE, HashBefore(c), rec.artifact))
            /\ audit' = Append(audit, Entry(c, TRUE, before, after))
        BY <2>2, <3>1 DEF PluginMoves, Logged
      <4>. QED  BY <2>3, <2>4, <4>1 DEF Entry, MgmtTypeOK
    <3>4. On(r)' = On(r) \cup {new}
      BY <2>4, <2>6
    <3>5. CASE Command[c].action = "plugin.register" /\ rec.state = "VALIDATED"
      <4>1. LastRegistration(new, r)'
        BY <2>4, <3>4, <3>5 DEF LastRegistration
      <4>. QED  BY <2>4, <3>2, <3>3, <3>4, <3>5, <4>1 DEF PluginOnRecord, r
    <3>6. CASE /\ Command[c].action # "plugin.register"
               /\ PluginOf(c) # NoPlugin /\ rec.artifact = PluginOf(c).artifact
               /\ Command[c].action = "plugin.shadow" \/ PluginOf(c).state # "VALIDATED"
      <4>1. PICK i \in On(r) :
              /\ LastRegistration(i, r) /\ audit[i].after = plugins[p].artifact
              /\ plugins[p].state # "VALIDATED" =>
                   \E j \in On(r) : i < j /\ ByAction(j) = "plugin.shadow"
        BY <3>2, <3>6 DEF PluginOnRecord, r
      <4>2. LastRegistration(i, r)' /\ audit'[i].after = rec.artifact
        BY <2>4, <3>2, <3>4, <3>6, <4>1 DEF LastRegistration
      <4>3. \E j \in On(r)' : i < j /\ ByAction(j)' = "plugin.shadow"
        BY <2>4, <3>2, <3>4, <3>6, <4>1
      <4>. QED  BY <3>2, <3>4, <4>2, <4>3 DEF PluginOnRecord, r
    <3>. QED  BY <3>1, <3>5, <3>6 DEF PluginMoves
  <2>. QED  BY <2>5, <2>6
<1>. QED  BY <1>2, <1>3, <1>4, StepKinds

-----------------------------------------------------------------------------
(* Theorems.                                                               *)

\* The service starts with an empty trail and nothing to explain.
LEMMA InvInit == MgmtInit => MgmtInv
<1>. SUFFICES ASSUME MgmtInit PROVE MgmtInv
  OBVIOUS
<1>1. /\ revision = 0 /\ audit = <<>> /\ DOMAIN audit = {}
      /\ \A n \in Resource : configs[n] = <<>> /\ DOMAIN configs[n] = {}
      /\ \A p \in Plugin : plugins[p] = NoPlugin
  BY DEF MgmtInit
<1>2. MgmtTypeOK
  BY DEF MgmtInit, MgmtTypeOK
<1>5. SentInOrder
  BY DEF MgmtInit, SentInOrder
<1>3. \A r : On(r) = {}
  BY <1>1 DEF On, Succeeded
<1>4. \A r \in Subjects : TrailReachesNow(r) /\ TrailUnbroken(r)
  BY <1>1, <1>3, SubjectHolds DEF TrailReachesNow, TrailUnbroken
<1>. QED
  BY <1>1, <1>2, <1>4, <1>5
  DEF MgmtInv, KeysOnRecord, FirstAttemptDecides, RevisionsIssued, PluginOnRecord

\* Every step keeps the invariant.
LEMMA InvStep == MgmtInv /\ [MgmtNext]_mgmtVars => MgmtInv'
<1>. SUFFICES ASSUME MgmtInv, [MgmtNext]_mgmtVars PROVE MgmtInv'
  OBVIOUS
<1>1. MgmtTypeOK
  BY DEF MgmtInv
<1>2. MgmtTypeOK' /\ KeysOnRecord' /\ FirstAttemptDecides' /\ SentInOrder'
      /\ RevisionsIssued'
  BY TypeStep, KeyStep, AskedStep, RevisionStep DEF MgmtInv
<1>3. \A r \in Subjects : TrailReachesNow(r)' /\ TrailUnbroken(r)'
  BY <1>1, TrailStep DEF MgmtInv
<1>4. (\A n \in Resource : \A k \in DOMAIN configs[n] :
         ApprovalsOnRecord(n, configs[n][k]))'
  BY <1>1, ApprovalsStep DEF MgmtInv
<1>5. \A p \in Plugin : PluginOnRecord(p)'
  BY <1>1, PluginStepOnRecord DEF MgmtInv
<1>. QED  BY <1>2, <1>3, <1>4, <1>5 DEF MgmtInv

(* The audit trail explains the state of the service: what every namespace *)
(* and plugin holds, by which approvals and through which steps.           *)
THEOREM TrailExplains == MgmtSpec => []MgmtInv
BY InvInit, InvStep, PTL DEF MgmtSpec

(* Whatever is sent, retried or reused: of all operations under a key only *)
(* the first can succeed.                                                  *)
THEOREM KeysDecideOnce == MgmtSpec => []FirstAttemptDecides
<1>1. MgmtInv => FirstAttemptDecides
  BY DEF MgmtInv
<1>. QED  BY <1>1, TrailExplains, PTL

\* A trail of any length is finite, and so is what is chosen of it.
LEMMA TrailFinite ==
  ASSUME NEW n \in Nat, NEW S \in SUBSET (1..n)
  PROVE  IsFiniteSet(S)
<1>1. IsFiniteSet(1..n)
  BY FS_Interval
<1>. QED  BY <1>1, FS_Subset

(* The approvals an ACTIVE snapshot carries are of different people, and   *)
(* each is on record; so the record has as many people as were required.   *)
THEOREM NothingActiveUnapproved == MgmtSpec => []ActiveIsApproved
<1>1. MgmtInv => ActiveIsApproved
  <2>. SUFFICES ASSUME MgmtInv, NEW n \in Resource, NEW k \in DOMAIN configs[n],
                       configs[n][k].state = "ACTIVE"
                PROVE  Cardinality({ByActor(i) : i \in
                         {j \in On(<<"config", n>>) : Approval(j, n, configs[n][k])}})
                         >= Required(n, configs[n][k].values)
    <3>1. \A m \in Resource : \A l \in DOMAIN configs[m] :
            {i \in On(<<"config", m>>) : ByAction(i) = "config.approve"
                           /\ audit[i].after = configs[m][l].values}
              = {i \in On(<<"config", m>>) : Approval(i, m, configs[m][l])}
      BY DEF Approval
    <3>. QED  BY <3>1 DEF ActiveIsApproved
  <2>. DEFINE s == configs[n][k]
              given == {j \in On(<<"config", n>>) : Approval(j, n, s)}
              people == {ByActor(i) : i \in given}
              f == [i \in given |-> ByActor(i)]
  <2>1. ApprovalsOnRecord(n, s) /\ MgmtTypeOK
    BY DEF MgmtInv
  <2>2. given \subseteq 1..Len(audit) /\ Len(audit) \in Nat
    BY <2>1 DEF On, Succeeded, MgmtTypeOK
  <2>3. IsFiniteSet(given)
    BY <2>2, TrailFinite
  <2>4. f \in Surjection(given, people)
    BY DEF Surjection
  <2>. HIDE DEF f
  <2>5. IsFiniteSet(people)
    BY <2>3, <2>4, FS_Surjection
  <2>6. s.approvals \subseteq people
    BY <2>1 DEF ApprovalsOnRecord
  <2>7. Cardinality(s.approvals) <= Cardinality(people)
    BY <2>5, <2>6, FS_Subset
  <2>8. Cardinality(s.approvals) >= Required(n, s.values) /\ IsFiniteSet(s.approvals)
    BY <2>1 DEF ApprovalsOnRecord
  <2>9. /\ Cardinality(s.approvals) \in Nat /\ Cardinality(people) \in Nat
        /\ Required(n, s.values) \in Nat
    BY <2>5, <2>8, FS_CardinalityType DEF Required
  <2>. HIDE DEF people, s
  <2>10. Cardinality(people) >= Required(n, s.values)
    BY <2>7, <2>8, <2>9
  <2>. QED  BY <2>10 DEF people, s
<1>. QED  BY <1>1, TrailExplains, PTL

(* Nobody succeeds on an old view; the trail of a namespace, and of each    *)
(* version of a plugin under whatever resources, is unbroken and ends in   *)
(* what is there; the snapshots of a namespace are numbered in order.      *)
THEOREM TrailIsChain == MgmtSpec => []AuditIsChain
<1>1. MgmtInv => AuditIsChain
  <2>. SUFFICES ASSUME MgmtInv PROVE AuditIsChain
    OBVIOUS
  <2>1. \A n \in Resource : \A i, j \in DOMAIN configs[n] :
          i < j => configs[n][i].revision < configs[n][j].revision
    BY DEF MgmtInv, RevisionsIssued
  <2>3. \A k \in DOMAIN asked : asked[k] = k - 1
    BY DEF MgmtInv, SentInOrder
  <2>2. ASSUME NEW r \in Subjects
        PROVE  LET own == On(r)
                   left == IF own = {} THEN Nothing
                           ELSE audit[CHOOSE i \in own : \A k \in own : k <= i].after
               IN  /\ \A i, j \in own :
                        i < j /\ (\A k \in own : k <= i \/ j <= k)
                          => audit[j].before = audit[i].after
                   /\ left = DigestOf(r)
    <3>. DEFINE last == CHOOSE i \in On(r) : \A k \in On(r) : k <= i
    <3>1. TrailReachesNow(r) /\ TrailUnbroken(r) /\ On(r) \subseteq Nat
      BY DEF MgmtInv, MgmtTypeOK, On, Succeeded
    <3>2. ASSUME On(r) # {}
          PROVE  audit[last].after = DigestOf(r)
      <4>1. PICK i \in On(r) : Latest(i, r) /\ audit[i].after = DigestOf(r)
        BY <3>1, <3>2 DEF TrailReachesNow
      <4>2. last \in On(r) /\ \A k \in On(r) : k <= last
        BY <4>1 DEF Latest
      <4>. HIDE DEF last
      <4>3. last = i
        BY <3>1, <4>1, <4>2 DEF Latest
      <4>. QED  BY <4>1, <4>3
    <3>. HIDE DEF last
    <3>3. On(r) = {} => Nothing = DigestOf(r)
      BY <3>1 DEF TrailReachesNow
    <3>. QED  BY <3>1, <3>2, <3>3 DEF TrailUnbroken, last
  <2>. QED  BY <2>1, <2>2, <2>3 DEF AuditIsChain
<1>. QED  BY <1>1, TrailExplains, PTL

(* An ACTIVE plugin has been moved to SHADOW since its artifact was        *)
(* registered, however often it was registered, shadowed and rolled back.  *)
THEOREM ActiveWasShadowed == MgmtSpec => []ActivePluginWasShadowed
<1>1. MgmtInv => ActivePluginWasShadowed
  <2>. SUFFICES ASSUME MgmtInv, NEW p \in Plugin, plugins[p].state = "ACTIVE"
                PROVE  \E i, j \in On(<<"plugin", p>>) :
                         /\ i < j
                         /\ ByAction(i) = "plugin.register"
                         /\ audit[i].after = plugins[p].artifact
                         /\ ByAction(j) = "plugin.shadow"
                         /\ \A k \in On(<<"plugin", p>>) : ByAction(k) = "plugin.register" => k <= i
    BY DEF ActivePluginWasShadowed
  <2>1. PluginOnRecord(p) /\ plugins[p] # NoPlugin
    BY DEF MgmtInv, NoPlugin
  <2>. QED  BY <2>1 DEF PluginOnRecord, LastRegistration
<1>. QED  BY <1>1, TrailExplains, PTL

===============================================================================
