----------------------------- MODULE Dashboard -----------------------------
(***************************************************************************)
(* A module's page in the dashboard (App, SharedModulePage, AuthContext) and   *)
(* the server as that page meets it: the guild's settings with their version,  *)
(* the module's switch and the stream of module states.                        *)
(*                                                                          *)
(* Every request is sent, read by the server and answered in steps of its own, *)
(* and the closure that sent it keeps the guild it was made for.  What the      *)
(* values of the settings are makes no difference to that; the rules they meet  *)
(* are those of SettingRules.                                                   *)
(***************************************************************************)
EXTENDS SettingRules

CONSTANTS
  Guilds,      \* the guilds of the user, and
  First,       \* the one the session selects
  NoGuild,     \* selected when the session has none
  PluginDashboard,  \* the capability the list of modules comes with
  MaxLoads,    \* loads and
  MaxSaves,    \* saves under way at once
  MaxChanges,  \* bound on the changes of others to the settings of a guild
  MaxUses      \* bound on what the user does, editing the form excepted

ASSUME DashboardAssumption ==
  /\ NoGuild \notin Guilds /\ First \in Guilds /\ PluginDashboard \in BOOLEAN
  /\ MaxLoads \in Nat \ {0} /\ MaxSaves \in Nat \ {0} /\ MaxChanges \in Nat /\ MaxUses \in Nat

VARIABLES
  auth,        \* AuthContext: status and selected guild
  server,      \* per guild: version of its settings, the newest others wrote, module enabled
  page,        \* DashboardState; of, shown, read, late: see Empty (history)
  versionRef,
  form,        \* SharedModulePage while it is mounted: dirty, save and toggle status
  loads, saves, toggle,  \* requests under way
  news,        \* a module-state event is on its way to the open stream
  blind,       \* how saves overwrote what their pages did not show (history)
  uses

dashboardVars == <<auth, server, page, versionRef, form, loads, saves, toggle, news, blind, uses>>

LoadSlots == 1 .. MaxLoads
SaveSlots == 1 .. MaxSaves

\* shown: the version the values were read at, got: the version that was read.
NoLoad == [at |-> "none", guild |-> NoGuild, enabled |-> FALSE, shown |-> 0, got |-> 0]
\* mounted: the form that sent it is still there.  History: here: so is what filled its page;
\* seen, read, late: what that page showed of its guild (see Empty).
NoSave == [at |-> "none", guild |-> NoGuild, expected |-> 0, got |-> 0, mounted |-> FALSE,
           here |-> FALSE, seen |-> 0, read |-> 0, late |-> TRUE]
NoToggle == [at |-> "none", guild |-> NoGuild, enabled |-> FALSE, confirmed |-> FALSE,
             mounted |-> FALSE]
NoForm == [dirty |-> FALSE, save |-> "none", toggle |-> "none"]
NewForm == [dirty |-> FALSE, save |-> "idle", toggle |-> "idle"]

\* of, shown, read: the guild of the load that fills the page, and the versions its values and
\* its version were read at.  late: the page has merged the answer to a save it did not send.
Empty(status) == [status |-> status, enabled |-> FALSE, plugin |-> FALSE,
                  of |-> NoGuild, shown |-> 0, read |-> 0, late |-> FALSE]

DashboardInit ==
  /\ auth = [status |-> "loading", guild |-> NoGuild]
  /\ server = [g \in Guilds |-> [version |-> 1, others |-> 0, enabled |-> TRUE]]
  /\ page = Empty("loading")
  /\ versionRef = 0
  /\ form = NoForm
  /\ loads = [l \in LoadSlots |-> NoLoad]
  /\ saves = [s \in SaveSlots |-> NoSave]
  /\ toggle = NoToggle
  /\ news = FALSE /\ blind = {}
  /\ uses = 0

Use == uses < MaxUses /\ uses' = uses + 1

\* Settings start at version one.
MayChange(g) == server[g].version - 1 < MaxChanges

SignedIn == auth.status = "authenticated"
Shown == SignedIn /\ page.status = "ready"

\* The stream of module states: open for the selected guild of a page with plugins.
StreamOpen(g) == auth.guild = g /\ page.plugin

-----------------------------------------------------------------------------
(* Loading the page *)

\* The form leaves the page: what was typed is gone, and answers to it find nothing.
Unmount ==
  /\ form' = NoForm
  /\ saves' = [s \in SaveSlots |-> [saves[s] EXCEPT !.mounted = FALSE]]
  /\ toggle' = [toggle EXCEPT !.mounted = FALSE]

\* loadDashboard up to its first await, for the guild of the closure that calls it.
LoadDashboard(g) ==
  IF g = NoGuild
  THEN page' = Empty("error") /\ UNCHANGED loads
  ELSE /\ page' = [page EXCEPT !.status = "loading"]
       /\ \E l \in LoadSlots :
            /\ loads[l] = NoLoad /\ \A k \in LoadSlots : k < l => loads[k] # NoLoad
            /\ loads' = [loads EXCEPT ![l] = [NoLoad EXCEPT !.at = "modules", !.guild = g]]

\* bootstrapSession answers.  The effect on auth.status and guild loads the page.
Authenticated(g) ==
  /\ auth.status = "loading"
  /\ auth' = [status |-> "authenticated", guild |-> g]
  /\ LoadDashboard(g)
  /\ UNCHANGED <<server, versionRef, form, saves, toggle, news, blind, uses>>

NotAuthenticated ==
  /\ auth.status = "loading"
  /\ \E status \in {"unauthenticated", "error"} : auth' = [status |-> status, guild |-> NoGuild]
  /\ UNCHANGED <<server, page, versionRef, form, loads, saves, toggle, news, blind, uses>>

\* The list of modules is read at the server.
ReadModules(l) ==
  /\ loads[l].at = "modules"
  /\ loads' = [loads EXCEPT ![l].at = "listed", ![l].enabled = server[loads[l].guild].enabled]
  /\ UNCHANGED <<auth, server, page, versionRef, form, saves, toggle, news, blind, uses>>

\* Mutant: a missing module leaves the page as it is.
NotFoundSilently(l) ==
  /\ loads[l].at = "listed"
  /\ loads' = [loads EXCEPT ![l] = NoLoad]
  /\ UNCHANGED <<auth, server, page, versionRef, form, saves, toggle, news, blind, uses>>

\* The list lacks the module: the page keeps its stream, and no further answer is asked for.
ModuleNotFound(l) ==
  /\ loads[l].at = "listed"
  /\ page' = [Empty("error") EXCEPT !.plugin = PluginDashboard]
  /\ Unmount
  /\ loads' = [loads EXCEPT ![l] = NoLoad]
  /\ UNCHANGED news
  /\ UNCHANGED <<auth, server, versionRef, blind, uses>>

\* The list arrives, the metadata after it, and the settings are asked for: the server reads
\* their values in one query,
ReadValues(l) ==
  /\ loads[l].at = "listed"
  /\ loads' = [loads EXCEPT ![l].at = "values", ![l].shown = server[loads[l].guild].version]
  /\ UNCHANGED <<auth, server, page, versionRef, form, saves, toggle, news, blind, uses>>

\* and their version in another.
ReadVersion(l) ==
  /\ loads[l].at = "values"
  /\ loads' = [loads EXCEPT ![l].at = "read", ![l].got = server[loads[l].guild].version]
  /\ UNCHANGED <<auth, server, page, versionRef, form, saves, toggle, news, blind, uses>>

\* The last answer fills the page, whatever guild is selected by now.  A form that is there
\* already, put up by a load that ended before, is reset.
Ready(l) ==
  LET load == loads[l] IN
  /\ load.at = "read"
  /\ page' = [status |-> "ready", enabled |-> load.enabled, plugin |-> PluginDashboard,
              of |-> load.guild, shown |-> load.shown, read |-> load.got, late |-> FALSE]
  /\ versionRef' = load.got
  /\ form' = IF ~SignedIn THEN NoForm ELSE IF form = NoForm THEN NewForm ELSE [form EXCEPT !.dirty = FALSE, !.save = "idle"]
  /\ loads' = [loads EXCEPT ![l] = NoLoad]
  /\ saves' = [s \in SaveSlots |-> [saves[s] EXCEPT !.here = FALSE]]
  /\ UNCHANGED <<auth, server, toggle, news, blind, uses>>

\* One of the requests fails, or its answer has the wrong shape.
LoadFails(l) ==
  /\ loads[l] # NoLoad
  /\ page' = Empty("error")
  /\ Unmount
  /\ loads' = [loads EXCEPT ![l] = NoLoad]
  /\ news' = FALSE
  /\ UNCHANGED <<auth, server, versionRef, blind, uses>>

Retry ==
  /\ SignedIn /\ page.status = "error" /\ Use
  /\ LoadDashboard(auth.guild)
  /\ UNCHANGED <<auth, server, versionRef, form, saves, toggle, news, blind>>

\* An event of the stream loads the page again.
ModuleState ==
  /\ news
  /\ LoadDashboard(auth.guild)
  /\ Unmount
  /\ news' = FALSE
  /\ UNCHANGED <<auth, server, versionRef, blind, uses>>

\* The guild switcher.
SetSelectedGuild(g) ==
  /\ SignedIn /\ auth.guild \notin {g, NoGuild} /\ Use
  /\ auth' = [auth EXCEPT !.guild = g]
  /\ LoadDashboard(g)
  /\ Unmount
  /\ news' = FALSE
  /\ UNCHANGED <<server, versionRef, blind>>

\* The answer to the logout, good or bad.
SignOut ==
  /\ SignedIn /\ Use
  /\ auth' = [status |-> "unauthenticated", guild |-> NoGuild]
  /\ Unmount
  /\ news' = FALSE
  /\ UNCHANGED <<server, page, versionRef, loads, blind>>

-----------------------------------------------------------------------------
(* Saving the form *)

UpdateValue ==
  /\ Shown
  /\ form' = [form EXCEPT !.dirty = TRUE, !.save = "idle"]
  /\ UNCHANGED <<auth, server, page, versionRef, loads, saves, toggle, news, blind, uses>>

MaySave == Shown /\ page.enabled /\ form.dirty /\ form.save # "saving"

\* validateDirtySettings refuses.
SaveInvalid ==
  /\ MaySave
  /\ form' = [form EXCEPT !.save = "error"]
  /\ UNCHANGED <<auth, server, page, versionRef, loads, saves, toggle, news, blind, uses>>

\* save: the request of the guild selected now carries the version of versionRef.
Save(s) ==
  LET save == [NoSave EXCEPT !.at = "sent", !.guild = auth.guild, !.expected = versionRef,
                             !.mounted = TRUE] IN
  /\ MaySave /\ Use
  /\ saves[s] = NoSave /\ \A t \in SaveSlots : t < s => saves[t] # NoSave
  /\ saves' = [saves EXCEPT ![s] =
                 IF page.of # auth.guild THEN save
                 ELSE [save EXCEPT !.here = TRUE, !.seen = page.shown, !.read = page.read,
                                   !.late = page.late]]
  /\ form' = [form EXCEPT !.save = "saving"]
  /\ UNCHANGED <<auth, server, page, versionRef, loads, toggle, news, blind>>

\* What the save overwrites of others unseen, if anything: what came between the queries of
\* the load that filled its page, or what a version says that is not of that page.
Overwritten(s) ==
  LET others == server[saves[s].guild].others IN
  CASE others <= saves[s].seen -> {}
    [] others > saves[s].seen /\ saves[s].late -> {"late"}
    [] others > saves[s].seen /\ ~saves[s].late /\ others <= saves[s].read -> {"torn"}
    [] OTHER -> {"unseen"}

\* The server takes the save when the version is the current one; its schema refuses zero.
Accepts(g, version) == version > 0 /\ server[g].version = version

PatchSettings(s) ==
  LET g == saves[s].guild IN
  /\ saves[s].at = "sent"
  /\ IF Accepts(g, saves[s].expected)
     THEN /\ server' = [server EXCEPT ![g].version = @ + 1]
          /\ saves' = [saves EXCEPT ![s].at = "accepted", ![s].got = server[g].version + 1]
          /\ blind' = blind \cup Overwritten(s)
     ELSE /\ saves' = [saves EXCEPT ![s].at = "refused"]
          /\ UNCHANGED <<server, blind>>
  /\ UNCHANGED <<auth, page, versionRef, form, loads, toggle, news, uses>>

\* The answer is merged into the page as it is by now; values that change reset the form
\* that shows them, and the form that sent the save ends as saved.
SaveSettings(s) ==
  LET save == saves[s] IN
  /\ save.at = "accepted"
  /\ versionRef' = save.got
  /\ page' = [page EXCEPT !.late = @ \/ ~save.here]
  /\ \/ /\ form # NoForm
        /\ form' = [form EXCEPT !.dirty = FALSE, !.save = "idle"]
     \/ save.mounted /\ form' = [form EXCEPT !.dirty = FALSE, !.save = "saved"]
     \/ ~save.mounted /\ form' = form
  /\ saves' = [saves EXCEPT ![s] = NoSave]
  /\ UNCHANGED <<auth, server, loads, toggle, news, blind, uses>>

\* Mutant: a conflict gives the page the server's version.
TakeVersion(s) ==
  /\ saves[s].at = "refused"
  /\ form' = IF saves[s].mounted THEN [form EXCEPT !.save = "error"] ELSE form
  /\ saves' = [saves EXCEPT ![s] = NoSave]
  /\ versionRef' = server[saves[s].guild].version
  /\ UNCHANGED <<auth, server, page, loads, toggle, news, blind, uses>>

\* A conflict or another error: the form says so, and neither version nor values change.
SaveError(s) ==
  /\ saves[s].at \in {"sent", "accepted", "refused"}
  /\ form' = IF saves[s].mounted THEN [form EXCEPT !.save = "error"] ELSE form
  /\ saves' = [saves EXCEPT ![s] = NoSave]
  /\ UNCHANGED <<auth, server, page, versionRef, loads, toggle, news, blind, uses>>

-----------------------------------------------------------------------------
(* The switch of the module *)

ToggleEnabled ==
  /\ Shown /\ page.plugin /\ form.toggle # "saving" /\ toggle = NoToggle /\ Use
  /\ toggle' = [NoToggle EXCEPT !.at = "sent", !.guild = auth.guild, !.enabled = ~page.enabled,
                                !.mounted = TRUE]
  /\ form' = [form EXCEPT !.toggle = "saving"]
  /\ UNCHANGED <<auth, server, page, versionRef, loads, saves, news, blind>>

\* The server switches the module and tells the streams of the guild, or, when others
\* depend on a module that is to be disabled, asks for a confirmation.
SwitchModule(dependents) ==
  LET g == toggle.guild IN
  /\ toggle.at = "sent"
  /\ IF dependents /\ ~toggle.enabled /\ ~toggle.confirmed
     THEN /\ toggle' = [toggle EXCEPT !.at = "conflict"]
          /\ UNCHANGED <<server, news>>
     ELSE /\ server' = [server EXCEPT ![g].enabled = toggle.enabled]
          /\ toggle' = [toggle EXCEPT !.at = "switched"]
          /\ news' = (news \/ StreamOpen(g))
  /\ UNCHANGED <<auth, page, versionRef, form, loads, saves, blind, uses>>

Confirm ==
  /\ toggle.at = "conflict"
  /\ toggle' = [toggle EXCEPT !.at = "sent", !.confirmed = TRUE]
  /\ UNCHANGED <<auth, server, page, versionRef, form, loads, saves, news, blind, uses>>

\* The page is loaded again by the closure of the switch: for the guild it was made for.
SetModuleEnabled ==
  /\ toggle.at = "switched"
  /\ LoadDashboard(toggle.guild)
  /\ form' = NoForm
  /\ saves' = [s \in SaveSlots |-> [saves[s] EXCEPT !.mounted = FALSE]]
  /\ toggle' = NoToggle
  /\ UNCHANGED <<auth, server, versionRef, news, blind, uses>>

\* Declined, refused or lost.
ToggleFails ==
  /\ toggle # NoToggle
  /\ form' = IF toggle.mounted THEN [form EXCEPT !.toggle = "error"] ELSE form
  /\ toggle' = NoToggle
  /\ UNCHANGED <<auth, server, page, versionRef, loads, saves, news, blind, uses>>

-----------------------------------------------------------------------------
(* Others *)

OtherSaves(g) ==
  /\ MayChange(g)
  /\ server' = [server EXCEPT ![g].version = @ + 1, ![g].others = server[g].version + 1]
  /\ UNCHANGED <<auth, page, versionRef, form, loads, saves, toggle, news, blind, uses>>

OtherSwitches(g) ==
  /\ Use
  /\ server' = [server EXCEPT ![g].enabled = ~@]
  /\ news' = (news \/ StreamOpen(g))
  /\ UNCHANGED <<auth, page, versionRef, form, loads, saves, toggle, blind>>

LoadSteps(l) ==
  \/ ReadModules(l) \/ ModuleNotFound(l) \/ ReadValues(l) \/ ReadVersion(l) \/ Ready(l) \/ LoadFails(l)
SaveSteps(s) == PatchSettings(s) \/ SaveSettings(s) \/ SaveError(s)

DashboardNext ==
  \/ \E g \in {First, NoGuild} : Authenticated(g)
  \/ NotAuthenticated
  \/ \E l \in LoadSlots : LoadSteps(l)
  \/ \E s \in SaveSlots : Save(s) \/ SaveSteps(s)
  \/ \E g \in Guilds : SetSelectedGuild(g) \/ OtherSaves(g) \/ OtherSwitches(g)
  \/ Retry \/ ModuleState \/ SignOut \/ UpdateValue \/ SaveInvalid
  \/ ToggleEnabled \/ Confirm \/ SetModuleEnabled \/ ToggleFails
  \/ \E dependents \in BOOLEAN : SwitchModule(dependents)

\* Requests are answered or fail.
DashboardFairness ==
  /\ \A l \in LoadSlots : WF_dashboardVars(LoadSteps(l))
  /\ \A s \in SaveSlots : WF_dashboardVars(SaveSteps(s))

DashboardSpec == DashboardInit /\ [][DashboardNext]_dashboardVars /\ DashboardFairness

-----------------------------------------------------------------------------
(* Properties *)

\* Nothing of others is overwritten unseen: a save is taken only if its page showed every
\* change others made, however loads, saves, refusals and changes of guild overlap
\* (versionRef, saveSettings).  What is left out is what the code gets wrong: a page that is
\* torn, by a change between the two queries of its load (getGuildSettings), or late, with a
\* version or values from requests made for another guild or for what was shown before.
OthersSeen == "unseen" \notin blind

\* Neither a page nor its save button waits for ever: a page that is loading for a user who
\* is signed in ends ready or in an error, a save that is under way ends (loadDashboard, save).
NothingHangs ==
  /\ (SignedIn /\ page.status = "loading") ~> ~(SignedIn /\ page.status = "loading")
  /\ (form.save = "saving") ~> (form.save # "saving")

\* No step changes the rules of the settings: they are looked at once, in the initial state.

\* The settings of the modules and AppConfig agree: the built-in settings register whatever
\* the configuration files were checked for, five texts excepted; plugins that start again
\* and stop leave them registered; and a saved value fits the place in AppConfig it is
\* written to (registerBuiltInSettings, unregister, applyRuntimeValue).
SettingsFitConfig == DashboardInit => DefaultsRegister /\ BuiltInStay /\ RuntimeStaysValid

\* The form and the server agree: what the form lets through is refused only by rules the
\* metadata does not state, and what the server takes the form lets through, blank texts
\* excepted (validateSetting, patchGuildSettings).
FormFitsServer == DashboardInit => FormIsEnough /\ NothingValidRefused
=============================================================================
