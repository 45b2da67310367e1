----------------------------- MODULE Extensions -----------------------------
(***************************************************************************)
(* Plugins, their drafts, skills and MCP servers, and what the runtime     *)
(* makes of them (plugin_runtime/, mcp/registry.py, reload_ecosystem in    *)
(* runtime/run_loop.py, the routes under api/routes).  The disk holds the  *)
(* plugins and the file that says which are enabled; the runtime holds a   *)
(* tool registry, MCP clients and status lists, rebuilt by a reload.       *)
(*                                                                         *)
(* Every request runs without a suspension and is one action; a refusal    *)
(* that changes nothing is an action that is not enabled.  Reads of the    *)
(* plugin service scan again when a file has changed, so the scan is the   *)
(* disk.  Directories and names of plugins are numbers, in the order of    *)
(* the scan; a draft's package is named, and installed, as its plugin.     *)
(***************************************************************************)
EXTENDS Integers, FiniteSets, FiniteSetsExt, Functions

CONSTANTS
  Plugin,         \* names of plugins and of their directories, numbers from 1
  Drafted,        \* the plugins that have a draft (bound: one each)
  Server,         \* MCP servers
  Skill,          \* system skills
  Written,        \* the manifests that are written (bound: a few of Manifest)
  MaxChanges      \* bound: changes of the disk

VARIABLES
  plugins,    \* plugins directory: the manifest in each directory
  state,      \* the registry's file: name |-> enabled
  servers,    \* mcp config: server |-> enabled
  skills,     \* the skills directory
  drafts,     \* drafts.json and the packages
  tools,      \* the MCP adapters in the tool registry: their server's configuration,
              \* and whether their client is still the registry's
  clients,    \* _clients: the configuration of each (its signature)
  statuses,   \* _statuses, in memory
  snapshots,  \* the directories under mcp/snapshots
  listed,     \* SKILLS_SNAPSHOT.md
  changes,    \* bounded: how often the disk was changed
  settled,    \* auxiliary, no code: the last change of the disk was a request that succeeded
  orphaned    \* auxiliary: names whose plugin went without its entry in the file

runtimeVars == <<tools, clients, statuses, snapshots, listed>>
diskVars == <<plugins, state, servers, skills>>
extVars == <<diskVars, drafts, runtimeVars, changes, settled, orphaned>>

Manifest == [name : Plugin, byDefault : BOOLEAN, server : Server \cup {"none", "invalid"}]
DraftStatus ==
  {"none", "generated", "awaiting_approval", "validation_failed", "install_failed", "approved",
   "rejected", "installed_disabled", "rolled_back"}
Draft == [status : DraftStatus, installed : BOOLEAN, package : {"none", "ok", "broken"}]

ASSUME ExtAssumption == Plugin \subseteq Nat /\ Drafted \subseteq Plugin /\ Written \subseteq Manifest

NoFunction == << >>
Without(f, k) == Restrict(f, DOMAIN f \ {k})
With(f, k, v) == [i \in DOMAIN f \cup {k} |-> IF i = k THEN v ELSE f[i]]

-----------------------------------------------------------------------------
(* What the plugin service reads from the disk.                            *)
IsNamed(ps, n) == {d \in DOMAIN ps : ps[d].name = n}
Names(ps) == {ps[d].name : d \in DOMAIN ps}
Get(n) == Min(IsNamed(plugins, n))

PluginEnabled(ps, st, d) ==
  IF ps[d].name \in DOMAIN st THEN st[ps[d].name] ELSE ps[d].byDefault
EnabledPlugins(ps, st) == {d \in DOMAIN ps : PluginEnabled(ps, st, d)}

(* The servers to connect: the configured ones, under those of plugins.    *)
Merged(ps, on, sv) ==
  LET of(s) == {d \in on : ps[d].server = s}
  IN  [s \in DOMAIN sv \cup {t \in Server : of(t) # {}} |->
         IF of(s) = {} THEN [by |-> 0, name |-> 0, on |-> sv[s]]
         ELSE [by |-> Max(of(s)), name |-> ps[Max(of(s))].name, on |-> TRUE]]

(* variant: a client is kept when its server's name is the same            *)
BuiltClientsByName(cl, m) ==
  [s \in {t \in DOMAIN m : m[t].on} |-> IF s \in DOMAIN cl THEN cl[s] ELSE m[s]]

(* build_tools: a client is kept when its configuration is the same, and   *)
(* replaced or closed otherwise; a server may not answer (up: those that   *)
(* do).                                                                    *)
BuiltClients(cl, m) == [s \in {t \in DOMAIN m : m[t].on} |-> m[s]]

BuiltStatuses(m, up) ==
  [s \in DOMAIN m |-> IF ~ m[s].on THEN "disabled" ELSE IF s \in up THEN "connected" ELSE "error"]

(* Adapters that the registry goes on holding when clients become cl.      *)
Held(cl, closed) ==
  [s \in DOMAIN tools |->
     [tools[s] EXCEPT !.live = /\ @ /\ s \notin closed
                               /\ s \in DOMAIN cl /\ cl[s] = clients[s]]]

-----------------------------------------------------------------------------
(* reload_ecosystem on a disk that holds ps, st, sv, sk, with the clients  *)
(* cl left, those in closed discarded, the snapshots sn.  The statuses are *)
(* reset and a plugin's server is parsed before anything is built.         *)
Rebuild(ps, st, sv, sk, cl, closed, sn) ==
  LET on == EnabledPlugins(ps, st)
      m == Merged(ps, on, sv)
  IN  /\ plugins' = ps /\ state' = st /\ servers' = sv /\ skills' = sk
      /\ listed' = [system |-> sk, plugins |-> on]
      /\ \/ /\ \E d \in on : ps[d].server = "invalid"
            /\ statuses' = NoFunction
            /\ tools' = Held(cl, closed) /\ clients' = cl /\ snapshots' = sn
            /\ settled' = FALSE
         \/ /\ \A d \in on : ps[d].server # "invalid"
            /\ \E up \in SUBSET {s \in DOMAIN m : m[s].on} :
                 /\ clients' = BuiltClients(cl, m)
                 /\ tools' = [s \in up |-> [config |-> clients'[s], live |-> TRUE]]
                 /\ statuses' = BuiltStatuses(m, up) /\ snapshots' = statuses'
            /\ settled' = TRUE

(* A change of the disk.                                                   *)
Counted == changes < MaxChanges /\ changes' = changes + 1
ReloadWith(ps, st, sv, sk, cl, closed, sn) ==
  Counted /\ Rebuild(ps, st, sv, sk, cl, closed, sn)
ReloadPlugins(ps, st) == ReloadWith(ps, st, servers, skills, clients, {}, snapshots)

(* Names that ps has lost against the disk.                                *)
Lost(ps) == Names(plugins) \ Names(ps)

(* A turn begins, a tool has written below skills or plugins, a rescan,    *)
(* GET /api/tools, GET /api/mcp/servers and /resources.                    *)
ReloadOnly ==
  /\ Rebuild(plugins, state, servers, skills, clients, {}, snapshots)
  /\ UNCHANGED <<drafts, changes, orphaned>>

-----------------------------------------------------------------------------
(* /api/plugins.                                                           *)
ImportPlugin(d, m) ==
  /\ d \notin DOMAIN plugins /\ IsNamed(plugins, m.name) = {}
  /\ ReloadPlugins(With(plugins, d, m), state)
  /\ UNCHANGED <<drafts, orphaned>>

SetEnabled(n, enabled) ==
  /\ IsNamed(plugins, n) # {}
  /\ ReloadPlugins(plugins, With(state, n, enabled))
  /\ UNCHANGED <<drafts, orphaned>>

(* The manifest is written before the plugin is looked up under its old    *)
(* name: a change of the name answers 404, without a reload.               *)
UpdateManifest(n, m) ==
  /\ IsNamed(plugins, n) # {} /\ plugins[Get(n)] # m
  /\ LET ps == [plugins EXCEPT ![Get(n)] = m]
     IN  /\ orphaned' = orphaned \cup Lost(ps)
         /\ IF IsNamed(ps, n) # {}
            THEN ReloadPlugins(ps, state)
            ELSE /\ plugins' = ps /\ settled' = FALSE /\ Counted
                 /\ UNCHANGED <<state, servers, skills, runtimeVars>>
  /\ UNCHANGED drafts

(* variant: the entry in the registry's file stays *)
DeletePluginOnly(n) ==
  /\ IsNamed(plugins, n) # {}
  /\ ReloadPlugins(Without(plugins, Get(n)), state)
  /\ UNCHANGED <<drafts, orphaned>>

DeletePlugin(n) ==
  /\ IsNamed(plugins, n) # {}
  /\ ReloadPlugins(Without(plugins, Get(n)), Without(state, n))
  /\ orphaned' = orphaned \ {n}
  /\ UNCHANGED drafts

-----------------------------------------------------------------------------
(* /api/plugin-drafts.                                                     *)
DraftOnly(n, d) ==
  /\ drafts' = [drafts EXCEPT ![n] = d]
  /\ UNCHANGED <<diskVars, runtimeVars, changes, settled, orphaned>>

(* With generate, a package that was built is validated at once.           *)
CreateDraft(n, outcome) ==
  /\ drafts[n].status = "none"
  /\ DraftOnly(n, [status |-> outcome, installed |-> FALSE,
                   package |-> IF outcome \in {"generated", "awaiting_approval"} THEN "ok" ELSE "none"])

ValidateDraft(n) ==
  /\ drafts[n].package # "none"
  /\ DraftOnly(n, [drafts[n] EXCEPT !.status = IF drafts[n].package = "ok"
                                               THEN "awaiting_approval" ELSE "validation_failed"])

ApproveDraft(n) ==
  /\ drafts[n].status = "awaiting_approval"
  /\ DraftOnly(n, [drafts[n] EXCEPT !.status = "approved"])

RejectDraft(n) ==
  /\ drafts[n].status \notin {"none", "rejected", "installed_disabled", "rolled_back"}
  /\ DraftOnly(n, [drafts[n] EXCEPT !.status = "rejected"])

InstallFails(n) ==
  /\ drafts[n].status = "approved"
  /\ \/ /\ drafts[n].package = "broken"
        /\ DraftOnly(n, [drafts[n] EXCEPT !.status = "validation_failed"])
     \/ /\ drafts[n].package = "ok" /\ n \notin DOMAIN plugins /\ IsNamed(plugins, n) = {}
        /\ DraftOnly(n, [drafts[n] EXCEPT !.status = "install_failed"])

InstallDraft(n) ==
  /\ drafts[n].status = "approved" /\ drafts[n].package = "ok"
  /\ n \notin DOMAIN plugins /\ IsNamed(plugins, n) = {}
  /\ drafts' = [drafts EXCEPT ![n].status = "installed_disabled", ![n].installed = TRUE]
  /\ ReloadPlugins(With(plugins, n, [name |-> n, byDefault |-> FALSE, server |-> "none"]), state)
  /\ UNCHANGED orphaned

(* Whatever the directory holds now goes; the entry of the draft's name    *)
(* too.                                                                    *)
RollbackDraft(n) ==
  /\ drafts[n].status \in {"installed_disabled", "approved"} /\ drafts[n].installed
  /\ drafts' = [drafts EXCEPT ![n].status = "rolled_back"]
  /\ LET ps == Without(plugins, n)
     IN  /\ orphaned' = (orphaned \cup Lost(ps)) \ {n}
         /\ ReloadPlugins(ps, Without(state, n))

-----------------------------------------------------------------------------
(* /api/skills and /api/mcp.                                               *)
ImportSkill(k) ==
  /\ k \notin skills
  /\ ReloadWith(plugins, state, servers, skills \cup {k}, clients, {}, snapshots)
  /\ UNCHANGED <<drafts, orphaned>>

DeleteSkill(k) ==
  /\ k \in skills
  /\ ReloadWith(plugins, state, servers, skills \ {k}, clients, {}, snapshots)
  /\ UNCHANGED <<drafts, orphaned>>

UpsertServer(s, enabled) ==
  /\ ReloadWith(plugins, state, With(servers, s, enabled), skills, Without(clients, s), {s}, snapshots)
  /\ UNCHANGED <<drafts, orphaned>>

DeleteServer(s) ==
  /\ s \in DOMAIN servers
  /\ ReloadWith(plugins, state, Without(servers, s), skills, Without(clients, s), {s}, Without(snapshots, s))
  /\ UNCHANGED <<drafts, orphaned>>

(* build_tools is called without the plugins' servers, then the reload.    *)
ConfiguredOnly == Merged(plugins, {}, servers)

Reconnect(s) ==
  /\ s \in DOMAIN servers
  /\ \E up \in SUBSET {t \in DOMAIN servers : servers[t]} :
       Rebuild(plugins, state, servers, skills, BuiltClients(clients, ConfiguredOnly), {s},
               BuiltStatuses(ConfiguredOnly, up))
  /\ UNCHANGED <<drafts, changes, orphaned>>

(* activate_mcp_tool, when there is no status: the same, without a reload. *)
ActivateTool ==
  /\ statuses = NoFunction
  /\ \E up \in SUBSET {s \in DOMAIN servers : servers[s]} :
       statuses' = BuiltStatuses(ConfiguredOnly, up)
  /\ snapshots' = statuses'
  /\ clients' = BuiltClients(clients, ConfiguredOnly)
  /\ tools' = Held(clients', {})
  /\ UNCHANGED <<diskVars, drafts, listed, changes, settled, orphaned>>

-----------------------------------------------------------------------------
(* Changes made outside the API.                                           *)
Outside ==
  /\ Counted
  /\ \/ /\ \E d \in DOMAIN plugins, m \in Written :
             /\ \/ plugins' = Without(plugins, d)
                \/ plugins' = [plugins EXCEPT ![d] = m]
             /\ orphaned' = orphaned \cup (Names(plugins) \ Names(plugins'))
        /\ settled' = FALSE
        /\ UNCHANGED drafts
     \/ /\ \E n \in Drafted : /\ drafts[n].package = "ok"
                              /\ drafts' = [drafts EXCEPT ![n].package = "broken"]
        /\ UNCHANGED <<plugins, settled, orphaned>>
  /\ UNCHANGED <<state, servers, skills, runtimeVars>>

-----------------------------------------------------------------------------
ExtInit ==
  /\ plugins = NoFunction /\ state = NoFunction /\ servers = NoFunction /\ skills = {}
  /\ drafts = [n \in Drafted |-> [status |-> "none", installed |-> FALSE, package |-> "none"]]
  /\ tools = NoFunction /\ clients = NoFunction
  /\ statuses = NoFunction /\ snapshots = NoFunction
  /\ listed = [system |-> {}, plugins |-> {}]
  /\ changes = 0 /\ settled = TRUE /\ orphaned = {}

ExtNext ==
  \/ ReloadOnly
  \/ ActivateTool
  \/ Outside
  \/ \E n \in Plugin :
       \/ \E m \in Written : ImportPlugin(n, m) \/ UpdateManifest(n, m)
       \/ \E b \in BOOLEAN : SetEnabled(n, b)
       \/ DeletePlugin(n)
  \/ \E n \in Drafted :
       \/ \E o \in {"generated", "awaiting_approval", "validation_failed", "install_failed"} :
            CreateDraft(n, o)
       \/ ValidateDraft(n) \/ ApproveDraft(n) \/ RejectDraft(n)
       \/ InstallFails(n) \/ InstallDraft(n) \/ RollbackDraft(n)
  \/ \E k \in Skill : ImportSkill(k) \/ DeleteSkill(k)
  \/ \E s \in Server :
       \/ \E b \in BOOLEAN : UpsertServer(s, b)
       \/ DeleteServer(s) \/ Reconnect(s)

ExtSpec == ExtInit /\ [][ExtNext]_extVars

-----------------------------------------------------------------------------
(* After a request that succeeded, what the model is offered is what the   *)
(* disk enables, through clients that are open and have the configuration  *)
(* of now, and the lists of servers and skills that it reads say the same: *)
(* however many earlier requests failed half way (mcp/registry.py keeps    *)
(* clients by signature across reloads).                                   *)
SettledIsCurrent ==
  LET on == EnabledPlugins(plugins, state)
      m == Merged(plugins, on, servers)
  IN  settled =>
        /\ DOMAIN statuses = DOMAIN m /\ snapshots = statuses
        /\ clients = Restrict(m, {s \in DOMAIN m : m[s].on})
        /\ DOMAIN tools = {s \in DOMAIN m : statuses[s] = "connected"}
        /\ \A s \in DOMAIN tools : tools[s] = [config |-> m[s], live |-> TRUE]
        /\ listed = [system |-> skills, plugins |-> on]

(* A plugin that has just been installed from a draft is disabled          *)
(* (plugin_review.py:119, "disabled by default after the installation"),   *)
(* unless an earlier plugin of that name went without its entry.           *)
InstallsDisabled ==
  \A n \in Drafted :
    /\ drafts[n].status # "installed_disabled"
    /\ drafts'[n].status = "installed_disabled"
    => n \in orphaned \/ n \notin EnabledPlugins(plugins', state')
InstalledDisabled == [][InstallsDisabled]_extVars

-----------------------------------------------------------------------------
(* What the steps keep up between them: an inductive invariant.            *)
ExtTypeOK ==
  /\ DOMAIN plugins \subseteq Plugin /\ \A d \in DOMAIN plugins : plugins[d] \in Manifest
  /\ drafts \in [Drafted -> Draft]

(* An entry of the registry's file that no plugin has was left behind by   *)
(* one that went another way than by its deletion.                         *)
EntriesAreAccounted == DOMAIN state \subseteq Names(plugins) \cup orphaned

ExtInv == ExtTypeOK /\ EntriesAreAccounted /\ SettledIsCurrent
=============================================================================
