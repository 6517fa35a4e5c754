----------------------------- MODULE Management -----------------------------
(***************************************************************************)
(* ManagementService (src/low_altitude_ai/management/service.py): audited  *)
(* commands on configurations, plugins and alerts, with roles, optimistic  *)
(* revisions and idempotency keys.  execute() runs to its end without an   *)
(* await, so a call is one step; commands of several people interleave,    *)
(* are retried, and are sent on a view that has grown old.                 *)
(***************************************************************************)
EXTENDS Integers, Sequences, FiniteSets

CONSTANTS
  CommandId,        \* commands people may send
  Command,          \* their contents
  Resource,         \* names a command may give: of namespaces, plugins, alerts
  Values,           \* configuration contents, known by their digest
  SafetyCritical,   \* pairs of namespace and content that need two approvals
  Plaintext,        \* contents with a secret that is not a reference
  Plugin,           \* plugin keys: a name and a version, from the payload
  Artifact,         \* plugin artifacts, known by their hash
  Sound,            \* artifacts that are well formed, signed and compatible
  Alert,            \* deduplication keys of the alerts that are raised
  Nothing,          \* stands for None
  MaxOperations,    \* bound: operations recorded
  MaxRejected,      \* bound: rejected ones among them
  MaxRaised         \* bound: times an alert is raised

ConfigAction ==
  {"config.draft", "config.validate", "config.approve", "config.activate",
   "config.rollback"}

PluginAction ==
  {"plugin.register", "plugin.shadow", "plugin.activate", "plugin.rollback"}

Action == ConfigAction \cup PluginAction \cup {"alert.ack", "mission.pause"}

Role == {"VIEWER", "OPERATOR", "ENGINEER", "SAFETY_APPROVER", "ADMIN"}

(* "values", "plugin" and "artifact" are what the payload carries; actions *)
(* that need none carry Nothing, and so does a payload that lacks or       *)
(* misuses one.  Nothing ties the plugin of a payload to the resource that *)
(* the command gives.                                                      *)
CommandRecord ==
  [action: Action, resource: Resource, key: STRING, actor: STRING, role: Role,
   values: Values \cup {Nothing}, plugin: Plugin \cup {Nothing},
   artifact: Artifact \cup {Nothing}]

ASSUME ManagementAssumption ==
  /\ Command \in [CommandId -> CommandRecord]
  /\ Nothing \notin Values \cup Plugin \cup Artifact
  /\ Alert \subseteq Resource
  /\ SafetyCritical \subseteq Resource \X Values
  /\ Plaintext \subseteq Values /\ Sound \subseteq Artifact
  /\ MaxOperations \in Nat /\ MaxRejected \in Nat /\ MaxRaised \in Nat

VARIABLES
  available,        \* ManagementService._available
  revision,         \* ManagementService._revision
  operations,       \* ManagementService._operations, by key
  audit,            \* ManagementService._audit
  configs,          \* ManagementService._configs: snapshots by namespace
  plugins,          \* ManagementService._plugins, by plugin key
  alerts,           \* ManagementService._alerts, by deduplication key
  asked             \* history: the revision that each success was sent on

mgmtVars ==
  <<available, revision, operations, audit, configs, plugins, alerts, asked>>

AllowedRoles ==
  [a \in Action |->
    CASE a \in {"config.draft", "config.validate", "plugin.register",
                "plugin.shadow"} -> {"ENGINEER", "ADMIN"}
      [] a \in {"config.approve", "config.activate", "config.rollback",
                "plugin.activate", "plugin.rollback"} -> {"SAFETY_APPROVER"}
      [] a = "alert.ack" -> {"OPERATOR", "ENGINEER", "SAFETY_APPROVER", "ADMIN"}
      [] a = "mission.pause" -> {"OPERATOR", "SAFETY_APPROVER"}]

\* What the signature of a command covers; neither the key nor the revision.
Content(c) ==
  LET m == Command[c] IN
  <<m.action, m.resource, m.actor, m.role, m.values, m.plugin, m.artifact>>

NoPlugin == [state |-> "NONE"]

MgmtInit ==
  /\ available = TRUE
  /\ revision = 0
  /\ operations = [k \in {} |-> Nothing]
  /\ audit = <<>>
  /\ configs = [n \in Resource |-> <<>>]
  /\ plugins = [p \in Plugin |-> NoPlugin]
  /\ alerts = [a \in Resource |-> [count |-> 0, ackedBy |-> Nothing]]
  /\ asked = <<>>

-----------------------------------------------------------------------------
(* What a command finds and leaves: the audit trail and the key's result.  *)

Entry(c, success, before, after) ==
  [command |-> c, success |-> success, before |-> before, after |-> after]

\* Mutant: rejections are not remembered under their key.
Record_OnlySuccess(c, success, before, after) ==
  /\ revision' = IF success THEN revision + 1 ELSE revision
  /\ audit' = Append(audit, Entry(c, success, before, after))
  /\ operations' = IF success
                   THEN [k \in DOMAIN operations \cup {Command[c].key} |->
                          IF k = Command[c].key
                          THEN [content |-> Content(c), success |-> success]
                          ELSE operations[k]]
                   ELSE operations

\* _record(), after a success or a failure.
Record(c, success, before, after) ==
  /\ revision' = IF success THEN revision + 1 ELSE revision
  /\ audit' = Append(audit, Entry(c, success, before, after))
  /\ operations' = [k \in DOMAIN operations \cup {Command[c].key} |->
                      IF k = Command[c].key
                      THEN [content |-> Content(c), success |-> success]
                      ELSE operations[k]]

KeyKnown(c) == Command[c].key \in DOMAIN operations

(* A known key with the same content is answered from _operations and      *)
(* changes nothing.  With another content it is rejected, and the earlier  *)
(* result stays.                                                           *)
KeyReused(c) ==
  /\ KeyKnown(c)
  /\ operations[Command[c].key].content # Content(c)
  /\ audit' = Append(audit, Entry(c, FALSE, Nothing, Nothing))
  /\ UNCHANGED <<available, revision, operations, configs, plugins, alerts>>

\* Mutant: the revision that the sender expects is not compared.
Admitted_AnyRevision(c, seen) ==
  /\ available
  /\ Command[c].role \in AllowedRoles[Command[c].action]

\* "seen" is the revision the sender expects, the current one or an old one.
Admitted(c, seen) ==
  /\ available
  /\ Command[c].role \in AllowedRoles[Command[c].action]
  /\ seen = revision

-----------------------------------------------------------------------------
(* Configurations.                                                         *)

History(c) == configs[Command[c].resource]
Current(c) == History(c)[Len(History(c))]

DigestBefore(c) == IF History(c) = <<>> THEN Nothing ELSE Current(c).values

Required(n, v) == IF <<n, v>> \in SafetyCritical THEN 2 ELSE 1

\* Earlier snapshots that are ACTIVE; config.rollback takes the last one.
Fallbacks(c) ==
  {i \in DOMAIN History(c) : i < Len(History(c)) /\ History(c)[i].state = "ACTIVE"}

Update(c, snapshots) == configs' = [configs EXCEPT ![Command[c].resource] = snapshots]

Replace(c, snapshot) == Update(c, [History(c) EXCEPT ![Len(History(c))] = snapshot])

Succeed(c, after) == Record(c, TRUE, DigestBefore(c), after)

CanDraft(c) ==
  /\ Command[c].action = "config.draft"
  /\ Command[c].values \notin Plaintext \cup {Nothing}

\* Mutant: a draft inherits the approvals of the snapshot it replaces.
NewDraft_Inherits(c) ==
  [revision |-> revision + 1, state |-> "DRAFT", values |-> Command[c].values,
   approvals |-> IF History(c) = <<>> THEN {} ELSE Current(c).approvals]

NewDraft(c) ==
  [revision |-> revision + 1, state |-> "DRAFT", values |-> Command[c].values,
   approvals |-> {}]

Draft(c) ==
  /\ CanDraft(c)
  /\ Update(c, Append(History(c), NewDraft(c)))
  /\ Succeed(c, Command[c].values)
  /\ UNCHANGED <<available, plugins, alerts>>

CanValidate(c) ==
  /\ Command[c].action = "config.validate"
  /\ History(c) # <<>>
  /\ Current(c).state = "DRAFT"

Validate(c) ==
  /\ CanValidate(c)
  /\ Replace(c, [Current(c) EXCEPT !.state = "SCHEMA_VALIDATED"])
  /\ Succeed(c, Current(c).values)
  /\ UNCHANGED <<available, plugins, alerts>>

CanApprove(c) ==
  /\ Command[c].action = "config.approve"
  /\ History(c) # <<>>
  /\ Current(c).state \in {"SCHEMA_VALIDATED", "APPROVED"}

Approve(c) ==
  /\ CanApprove(c)
  /\ Replace(c, [Current(c) EXCEPT !.state = "APPROVED",
                                   !.approvals = @ \cup {Command[c].actor}])
  /\ Succeed(c, Current(c).values)
  /\ UNCHANGED <<available, plugins, alerts>>

CanActivate(c) ==
  /\ Command[c].action = "config.activate"
  /\ History(c) # <<>>
  /\ Current(c).state = "APPROVED"
  /\ Cardinality(Current(c).approvals) >= Required(Command[c].resource, Current(c).values)

\* The snapshot that was ACTIVE before stays in the history as it is.
Activate(c) ==
  /\ CanActivate(c)
  /\ Replace(c, [Current(c) EXCEPT !.state = "ACTIVE"])
  /\ Succeed(c, Current(c).values)
  /\ UNCHANGED <<available, plugins, alerts>>

CanRollback(c) ==
  /\ Command[c].action = "config.rollback"
  /\ Fallbacks(c) # {}

LastFallback(c) ==
  History(c)[CHOOSE i \in Fallbacks(c) : \A j \in Fallbacks(c) : j <= i]

\* Whatever the current snapshot was, it becomes ROLLED_BACK.
Rollback(c) ==
  /\ CanRollback(c)
  /\ Update(c, Append([History(c) EXCEPT ![Len(History(c))].state = "ROLLED_BACK"],
                      [LastFallback(c) EXCEPT !.revision = revision + 1]))
  /\ Succeed(c, LastFallback(c).values)
  /\ UNCHANGED <<available, plugins, alerts>>

-----------------------------------------------------------------------------
(* Plugins.  A registration starts a plugin over, whatever state it is in. *)

PluginOf(c) == plugins[Command[c].plugin]
HashBefore(c) == IF PluginOf(c) = NoPlugin THEN Nothing ELSE PluginOf(c).artifact

CanRegister(c) ==
  /\ Command[c].action = "plugin.register"
  /\ Command[c].plugin # Nothing /\ Command[c].artifact \in Sound

\* Mutant: a newly registered artifact stays in the plugin's state.
Registered_KeepsState(c) ==
  [state |-> IF PluginOf(c) = NoPlugin THEN "VALIDATED" ELSE PluginOf(c).state,
   artifact |-> Command[c].artifact]

Registered(c) == [state |-> "VALIDATED", artifact |-> Command[c].artifact]

PluginStep ==
  [a \in {"plugin.shadow", "plugin.activate", "plugin.rollback"} |->
    CASE a = "plugin.shadow" -> [from |-> "VALIDATED", to |-> "SHADOW"]
      [] a = "plugin.activate" -> [from |-> "SHADOW", to |-> "ACTIVE"]
      [] a = "plugin.rollback" -> [from |-> "ACTIVE", to |-> "SHADOW"]]

CanMovePlugin(c) ==
  /\ Command[c].action \in DOMAIN PluginStep /\ Command[c].plugin # Nothing
  /\ PluginOf(c).state = PluginStep[Command[c].action].from

Register(c) ==
  /\ CanRegister(c)
  /\ plugins' = [plugins EXCEPT ![Command[c].plugin] = Registered(c)]
  /\ Record(c, TRUE, HashBefore(c), Command[c].artifact)
  /\ UNCHANGED <<available, configs, alerts>>

MovePlugin(c) ==
  /\ CanMovePlugin(c)
  /\ plugins' = [plugins EXCEPT ![Command[c].plugin].state =
                   PluginStep[Command[c].action].to]
  /\ Record(c, TRUE, HashBefore(c), PluginOf(c).artifact)
  /\ UNCHANGED <<available, configs, alerts>>

-----------------------------------------------------------------------------
(* Alerts, and commands that are accepted with no effect here.             *)

CanAck(c) ==
  Command[c].action = "alert.ack" /\ alerts[Command[c].resource].count > 0

AckAlert(c) ==
  /\ CanAck(c)
  /\ alerts' = [alerts EXCEPT ![Command[c].resource].ackedBy = Command[c].actor]
  /\ Record(c, TRUE, Nothing, Nothing)
  /\ UNCHANGED <<available, configs, plugins>>

\* upsert_alert(): no command, and no operation on record.
RaiseAlert(a) ==
  /\ alerts[a].count < MaxRaised
  /\ alerts' = [alerts EXCEPT ![a].count = @ + 1]
  /\ UNCHANGED <<available, revision, operations, audit, configs, plugins, asked>>

AcceptMission(c) ==
  /\ Command[c].action = "mission.pause"
  /\ Record(c, TRUE, Nothing, Nothing)
  /\ UNCHANGED <<available, configs, plugins, alerts>>

-----------------------------------------------------------------------------
Applicable(c) ==
  \/ CanDraft(c) \/ CanValidate(c) \/ CanApprove(c) \/ CanActivate(c)
  \/ CanRollback(c) \/ CanRegister(c) \/ CanMovePlugin(c) \/ CanAck(c)
  \/ Command[c].action = "mission.pause"

\* The digest that a command has read when it turns out not to be possible.
Found(c) ==
  CASE Command[c].action \in ConfigAction
         /\ (Command[c].action = "config.draft" => Command[c].values # Nothing)
         -> DigestBefore(c)
    [] Command[c].action \in DOMAIN PluginStep /\ Command[c].plugin # Nothing
         -> HashBefore(c)
    [] OTHER -> Nothing

\* Unavailable, forbidden, on an old revision, or not possible here and now.
Refuse(c, seen) ==
  /\ ~(Admitted(c, seen) /\ Applicable(c))
  /\ Record(c, FALSE, IF Admitted(c, seen) THEN Found(c) ELSE Nothing, Nothing)
  /\ UNCHANGED <<available, configs, plugins, alerts>>

Perform(c) ==
  \/ Draft(c) \/ Validate(c) \/ Approve(c) \/ Activate(c) \/ Rollback(c)
  \/ Register(c) \/ MovePlugin(c) \/ AckAlert(c) \/ AcceptMission(c)

MayReject == Cardinality({i \in DOMAIN audit : ~audit[i].success}) < MaxRejected

\* execute()
ExecuteCommand(c, seen) ==
  /\ Len(audit) < MaxOperations
  /\ \/ MayReject /\ KeyReused(c)
     \/ MayReject /\ ~KeyKnown(c) /\ Refuse(c, seen)
     \/ ~KeyKnown(c) /\ Admitted(c, seen) /\ Perform(c)
  /\ asked' = IF revision' = revision THEN asked ELSE Append(asked, seen)

SetAvailable ==
  /\ available' \in BOOLEAN \ {available}
  /\ UNCHANGED <<revision, operations, audit, configs, plugins, alerts, asked>>

MgmtNext ==
  \/ \E c \in CommandId, seen \in {0, revision} : ExecuteCommand(c, seen)
  \/ \E a \in Alert : RaiseAlert(a)
  \/ SetAvailable

MgmtSpec == MgmtInit /\ [][MgmtNext]_mgmtVars

-----------------------------------------------------------------------------
(* Properties.                                                             *)

Succeeded == {i \in DOMAIN audit : audit[i].success}
ByAction(i) == Command[audit[i].command].action
ByActor(i) == Command[audit[i].command].actor

(* What a command is about: a namespace, or one version of a plugin.  The  *)
(* record that the service keeps has the resource alone; this is read from *)
(* the command itself.                                                     *)
Subject(c) ==
  CASE Command[c].action \in ConfigAction -> <<"config", Command[c].resource>>
    [] Command[c].action \in PluginAction -> <<"plugin", Command[c].plugin>>
    [] OTHER -> <<"other", Nothing>>

Subjects == ({"config"} \X Resource) \cup ({"plugin"} \X Plugin)

\* The digest of what there is now.
DigestOf(r) ==
  IF r[1] = "config"
  THEN IF configs[r[2]] = <<>> THEN Nothing ELSE configs[r[2]][Len(configs[r[2]])].values
  ELSE IF plugins[r[2]] = NoPlugin THEN Nothing ELSE plugins[r[2]].artifact

On(r) == {i \in Succeeded : Subject(audit[i].command) = r}

(* Nothing becomes active without its approvals, by whatever sequence of   *)
(* drafts, approvals, activations and rollbacks: for each of the people an *)
(* ACTIVE snapshot needs (two for safety-critical content) the audit has   *)
(* an approval of theirs, as safety approver, for the very content.        *)
ActiveIsApproved ==
  \A n \in Resource : \A k \in DOMAIN configs[n] :
    LET s == configs[n][k]
        approvals == {i \in On(<<"config", n>>) : ByAction(i) = "config.approve"
                                    /\ audit[i].after = s.values}
    IN  s.state = "ACTIVE" =>
          Cardinality({ByActor(i) : i \in approvals}) >= Required(n, s.values)

(* No change is lost and none is missing.  Every success was sent on the   *)
(* revision that the success before it left, so by someone who could see   *)
(* it: of several people who act on one view one alone succeeds.  The      *)
(* successes on a namespace, and on one version of a plugin, form a chain: *)
(* each starts from the digest the previous one left, and the last one is  *)
(* what is there now.  The snapshots of a namespace are numbered in order, *)
(* rollbacks included.                                                     *)
AuditIsChain ==
  /\ \A k \in DOMAIN asked : asked[k] = k - 1
  /\ \A n \in Resource : \A i, j \in DOMAIN configs[n] :
       i < j => configs[n][i].revision < configs[n][j].revision
  /\ \A r \in Subjects :
    LET own == On(r)
        left == IF own = {} THEN Nothing
                ELSE audit[CHOOSE i \in own : \A k \in own : k <= i].after
    IN  /\ \A i, j \in own :
             i < j /\ (\A k \in own : k <= i \/ j <= k)
               => audit[j].before = audit[i].after
        /\ left = DigestOf(r)

(* A key is worth one attempt: of all operations sent under it, the first  *)
(* one alone can succeed, and a success is never repeated.  A command      *)
(* turned away on an old revision needs a new key.                         *)
FirstAttemptDecides ==
  \A i, j \in DOMAIN audit :
    i < j /\ Command[audit[i].command].key = Command[audit[j].command].key
      => ~audit[j].success

(* An ACTIVE plugin runs the artifact that went through SHADOW: since the  *)
(* artifact was registered an engineer has moved that version to SHADOW.   *)
ActivePluginWasShadowed ==
  \A p \in Plugin :
    plugins[p].state = "ACTIVE" =>
      LET own == On(<<"plugin", p>>) IN
      \E i, j \in own :
        /\ i < j
        /\ ByAction(i) = "plugin.register" /\ audit[i].after = plugins[p].artifact
        /\ ByAction(j) = "plugin.shadow"
        /\ \A k \in own : ByAction(k) = "plugin.register" => k <= i
=============================================================================
