------------------------------ MODULE MCLibraries ------------------------------
(***************************************************************************)
(* For TLC: the parts of loomex-core that share no state with one another, *)
(* each in behaviours of its own.  The first state chooses the component,  *)
(* and the variables of the others stay as they are.  The runtime guard is *)
(* extended, the other components are instances.                           *)
(***************************************************************************)
EXTENDS RuntimeGuard, PolicyRules, Integers, Sequences, TLC

CONSTANTS
    s1, s2, c1, c3,                                                             \* guard
    Calls, MaxAttempts, MaxPosition,                                            \* lifecycle
    Rules, Managed, Inputs, Root, Percents, Bucket, MaxRules, MaxVersion,       \* policy
    Writers, Deciders, Approvals, MaxBytes, Window, PageLimit, MaxEntries, MaxFiles,    \* logs
    Processes, Versions,                                                        \* store
    Editors, Documents, Settings, Multiline, Named                              \* config

VARIABLES
    component,
    state, reconnect, calls, shutdown, login, cancelled,
    local, published, snapshot, contents,
    current, old, content, appended, pc, mine, handle, tail, decided,
    disk, synced, pointers, survivors, staging, procs, hurried,
    file, temp, holder, editing, expected

lifecycle == <<state, reconnect, calls, shutdown, login, cancelled>>
policy == <<local, published, snapshot, contents>>
logs == <<current, old, content, appended, pc, mine, handle, tail, decided>>
guard == <<at, lock, written, reused, exposed, crossed>>
store == <<disk, synced, pointers, survivors, staging, procs, hurried>>
config == <<file, temp, holder, editing, expected>>

\* What is asked for and what it resolves to are optional paths; both are set together.
Paths == [absolute : BOOLEAN, parts : Seq(STRING)]

ASSUME InputsAssumption ==
    /\ Root \in Paths
    /\ \A input \in Inputs :
        /\ {input.requested, input.resolved} \subseteq Seq(Paths)
        /\ Len(input.requested) <= 1 /\ Len(input.resolved) <= 1
        /\ input.requested = <<>> => input.resolved = <<>>

Lifecycle == INSTANCE RunnerLifecycle
Policy == INSTANCE PolicyEngine
Logs == INSTANCE RunnerLogs
Store == INSTANCE RuntimeStore
Config == INSTANCE CliConfig WITH Processes <- Editors, procs <- editing

\* A setting has a key that set_profile_key knows; a document with text, the keys that are
\* set in its profiles.
IsMap(f) == f = [x \in DOMAIN f |-> f[x]]
IsDocument(d) ==
    /\ d = [version |-> d.version, selected |-> d.selected, profiles |-> d.profiles]
    /\ d.version \in Int /\ IsMap(d.profiles)
    /\ \A n \in DOMAIN d.profiles :
        /\ IsMap(d.profiles[n]) /\ DOMAIN d.profiles[n] \subseteq Config!Keys
        /\ \A k \in DOMAIN d.profiles[n] : d.profiles[n][k] # Config!None

ASSUME SettingsAssumption ==
    /\ Config!None \notin Editors
    /\ \A s \in Settings : s.name # Config!None => s.key \in Config!Keys
    /\ \A d \in Documents : IsDocument(d)

\* A reader keeps at least one entry, logs.tail shows at least one, and a command that
\* decides is not a service.
ASSUME LogsAssumption ==
    /\ Window \in Nat \ {0} /\ PageLimit \in Nat \ {0}
    /\ Writers \cap Deciders = {}

LibrariesInit ==
    /\ component \in {"guard", "lifecycle", "policy", "logs", "store", "config"}
    /\ Init /\ Lifecycle!Init /\ Policy!Init /\ Logs!Init /\ Store!Init
    /\ Config!Init
    /\ component # "config" => file = Config!NoDocument

Others(name) ==
    /\ UNCHANGED component
    /\ name # "guard" => UNCHANGED guard
    /\ name # "lifecycle" => UNCHANGED lifecycle
    /\ name # "policy" => UNCHANGED policy
    /\ name # "logs" => UNCHANGED logs
    /\ name # "store" => UNCHANGED store
    /\ name # "config" => UNCHANGED config

LibrariesNext ==
    /\ \/ component = "guard" /\ Next
       \/ component = "lifecycle" /\ Lifecycle!Next
       \/ component = "policy" /\ Policy!Next
       \/ component = "logs" /\ Logs!Next
       \/ component = "store" /\ Store!Next
       \/ component = "config" /\ Config!Next
    /\ Others(component)

LibrariesSpec ==
    LibrariesInit /\ [][LibrariesNext]_<<component, guard, lifecycle, policy, logs, store, config>>

(* The local configuration, the organization's layers and the inputs.       *)
MCRoot == Path(TRUE, <<"r">>)
Below == Path(TRUE, <<"r", "s">>)
MCRules == {Rule("*", "allow", <<>>, {}), Rule("fs.read", "deny", <<Below>>, {}),
            Rule("fs.read", "ask", <<>>, {"sensitive"})}
MCManaged == {<<Rule("fs.read", "ask", <<>>, {})>>,
              <<Rule("fs.read", "allow", <<Below>>, {}),
                Rule("*", "deny", <<MCRoot>>, {"sensitive"})>>,
              <<Rule("*", "allow", <<>>, {})>>}
At(parts) == <<Path(TRUE, parts)>>
Places == {<<"r">>, <<"r", "s">>, <<"r", "s", "..", "x">>, <<"r", "..", "x">>, <<"..", "r">>}
MCInputs ==
    {Input(c, At(p), At(<<"r">>), f) : c \in {"fs.read", "fs.list"}, p \in Places,
                                f \in SUBSET {"sensitive"}}
    \cup {Input("fs.read", At(<<"r", "s">>), At(<<"x">>), {})}
    \cup {Input(c, <<>>, <<>>, f) : c \in {"shell.exec", "git.push", "other"},
                             f \in SUBSET {"risky"}}

(* The file a user may start with, and what is set.  A version 2 file may   *)
(* have the old local URL on purpose; a section may have no keys.           *)
Toml(version, profiles) ==
    [version |-> version, selected |-> "default", profiles |-> profiles]
MCDocuments ==
    {Toml(1, "local" :> ("serverUrl" :> "legacy")),
     Toml(2, "local" :> ("serverUrl" :> "legacy")),
     Toml(3, "mine" :> ("organizationId" :> "org")),
     Toml(2, "mine" :> ("hostHeader" :> "h")), Toml(2, "mine" :> <<>>)}
Setting(name, key, value) == [name |-> name, key |-> key, value |-> value]
MCSettings ==
    {Setting("none", "none", "nowhere"), Setting("none", "none", ""),
     Setting("local", "serverUrl", "legacy"), Setting("local", "serverUrl", "no scheme"),
     Setting("local", "hostHeader", "none"), Setting("mine", "hostHeader", "h"),
     Setting("mine", "serverUrl", "stage"), Setting("", "serverUrl", "prod"),
     Setting("mine", "organizationId", "two lines")}

(* The processes that use the guard.                                        *)
ServiceSet == {s1, s2}
StarterSet == {c1}
StopperSet == {c3}

Symmetry == Permutations(Processes) \cup Permutations(Versions)

(* HolderKeepsGuard and RefusedOnlyByTheLiving are the guard's own.         *)

\* lifecycle.rs: whatever events arrive in whatever order, a runner with a session has
\* authenticated, and a call that was canceled emits no output.
LifecycleIsGuarded ==
    component = "lifecycle" =>
        Lifecycle!SessionsAreAuthenticated /\ Lifecycle!CancelledCallsAreSilent

\* policy.rs: no local configuration relaxes what the organization's layer says, a
\* runner that passes the version check decides by the rules in force, also after a
\* rollback, and what is decided on is asked for and resolves to a place at or below the
\* root, however its path climbs and comes back.
PolicyIsObeyed ==
    component = "policy" =>
        /\ Policy!OrganizationIsObeyed
        /\ Policy!CurrentRunnersHaveTheRules
        /\ Policy!DecisionsAreInsideTheRoot

\* logs.rs: whatever is appended and rotated at the same time, an approval whose decision
\* was reported as recorded is in no inbox that can be read, and a report without an error
\* or skipped lines holds every entry of a file that fits into the window; and a reader
\* that goes from page to page misses no entry that the window still holds, unless the
\* file is rotated or a line becomes unreadable meanwhile.
ReadersSeeTheLog ==
    component = "logs" =>
        Logs!DecidedIsNotPending /\ Logs!PagingSkipsNothing /\ Logs!ReportsAreHonest

\* config.rs: whoever reads the configuration reads the settings that the commands before
\* asked for, at any moment and whichever command failed or was killed, until a name that
\* is blank, or a name or a value with a line break, is saved.
SettingsAreKept == component = "config" => Config!SettingsAreKept

\* runtime_install.rs: the pointers name whole versions, whatever runs at the same time
\* and wherever it is interrupted.
PointersNameWholeVersions == component = "store" => Store!PointersNameWholeVersions
=============================================================================
