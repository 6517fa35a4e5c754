---------------------------- MODULE MCManagement ----------------------------
(***************************************************************************)
(* One namespace with two contents, one of which needs two approvals, the  *)
(* people who move them, and a plugin in two versions, both under one      *)
(* resource.  The keys are shared between commands: that is the misuse the *)
(* service has to reject, and it keeps the histories of the versions and   *)
(* of the namespace from being interleaved in full.                        *)
(***************************************************************************)
EXTENDS Management

Req(action, resource, key, actor, role) ==
  [action |-> action, resource |-> resource, key |-> key, actor |-> actor,
   role |-> role, values |-> Nothing, plugin |-> Nothing, artifact |-> Nothing]

Plug(action, plugin, key, actor, role) ==
  [Req(action, "risk", key, actor, role) EXCEPT !.plugin = plugin]

Approver(action, key, actor) ==
  Req(action, "safety", key, actor, "SAFETY_APPROVER")

MCCommand ==
  [c \in CommandId |->
    CASE c = "narrow" -> [Req("config.draft", "safety", "k1", "eng", "ENGINEER")
                            EXCEPT !.values = "narrow"]
      [] c = "wide" -> [Req("config.draft", "safety", "k2", "eng", "ENGINEER")
                          EXCEPT !.values = "wide"]
      [] c = "secret" -> [Req("config.draft", "safety", "k2", "eng", "ENGINEER")
                            EXCEPT !.values = "password"]
      [] c = "check1" -> Req("config.validate", "safety", "k3", "eng", "ENGINEER")
      [] c = "check2" -> Req("config.validate", "safety", "k4", "eng", "ADMIN")
      [] c = "alice1" -> Approver("config.approve", "k5", "alice")
      [] c = "bob1" -> Approver("config.approve", "k7", "bob")
      [] c = "go1" -> Approver("config.activate", "k8", "bob")
      [] c = "back" -> Approver("config.rollback", "k10", "bob")
      [] c = "reg1" -> [Plug("plugin.register", "v1", "k1", "eng", "ENGINEER")
                          EXCEPT !.artifact = "build1"]
      [] c = "reg2" -> [Plug("plugin.register", "v1", "k2", "eng", "ADMIN")
                          EXCEPT !.artifact = "build2"]
      [] c = "other" -> [Plug("plugin.register", "v2", "k2", "eng", "ENGINEER")
                           EXCEPT !.artifact = "build2"]
      [] c = "shadow" -> Plug("plugin.shadow", "v1", "k3", "eng", "ENGINEER")
      [] c = "shade" -> Plug("plugin.shadow", "v2", "k3", "eng", "ENGINEER")
      [] c = "use" -> Plug("plugin.activate", "v1", "k5", "bob", "SAFETY_APPROVER")
      [] c = "anon" -> Plug("plugin.rollback", Nothing, "k5", "bob", "SAFETY_APPROVER")
      [] c = "ack" -> Req("alert.ack", "overheat", "k4", "view", "OPERATOR")
      [] c = "pause" -> Req("mission.pause", "safety", "k4", "view", "OPERATOR")]

MCCritical == {<<"safety", "narrow">>}
=============================================================================
