------------------------------ MODULE CliConfig ------------------------------
(***************************************************************************)
(* config.rs and the commands that change ~/.loomex/config.toml: loading   *)
(* overlays the file on the built-in profiles and migrates old versions,   *)
(* saving writes a temporary file of a fixed name and renames it.  The     *)
(* lifecycle lock keeps the commands apart; readers take no lock.  A       *)
(* document is what its lines say: a section has the keys that are set.    *)
(* Quotation marks survive a save, a line break does not.  Nothing is      *)
(* synced: the machine does not lose power.                                *)
(***************************************************************************)
EXTENDS Integers, Functions

CONSTANTS
    Processes,      \* processes that run commands which change the configuration
    Documents,      \* files that a user may start with, apart from an empty one
    Settings,       \* arguments of `config set`: [name, key, value], name None: selectedProfile
    Multiline,      \* names and values with a line break
    Named           \* profiles named by `profile use`, --profile and LOOMEX_PROFILE

VARIABLES
    file, temp,     \* config.toml and config.toml.tmp
    holder,         \* the process with the lifecycle lock
    procs,          \* what each process is doing
    expected        \* history: what the commands that replaced the file asked for

vars == <<file, temp, holder, procs, expected>>

None == "none"
Blank == ""                         \* a profile name without a character
NoDocument == [missing |-> TRUE]
Empty == [missing |-> FALSE]
Garbled == [missing |-> FALSE, readable |-> FALSE]
CurrentVersion == 2
Urls == {"prod", "stage", "local", "legacy"}    \* with http:// or https://

(* The configuration in memory                                              *)
Profile(url, host) ==
    [serverUrl |-> url, hostHeader |-> host, organizationId |-> None, runnerId |-> None]
DefaultProd == Profile("prod", None)
Keys == DOMAIN DefaultProd
Defaults ==
    [version |-> CurrentVersion, selected |-> "default",
     profiles |-> [default |-> DefaultProd, prod |-> DefaultProd,
                   stage |-> Profile("stage", None), local |-> Profile("local", "localhost")]]

ValidProfile(name, profile) ==
    /\ profile.serverUrl \in Urls
    /\ profile.hostHeader # None => name \in {"local", "dev"}
Valid(config) ==
    /\ config.version > 0 /\ config.selected # Blank
    /\ \A n \in DOMAIN config.profiles : ValidProfile(n, config.profiles[n])

Texts(config) ==
    {config.selected} \cup DOMAIN config.profiles
        \cup UNION {Range(config.profiles[n]) : n \in DOMAIN config.profiles}

\* set_profile_key for every key of values, in a profile that may be new
SetProfile(profiles, name, values) ==
    LET before == IF name \in DOMAIN profiles THEN profiles[name] ELSE DefaultProd IN
    [n \in {name} \cup DOMAIN profiles |->
        IF n # name THEN profiles[n]
        ELSE [k \in Keys |-> IF k \in DOMAIN values THEN values[k] ELSE before[k]]]

(* parse and to_document                                                    *)
\* A section without keys makes no profile.
Overlaid(document) ==
    LET profiles == Defaults.profiles
        names == {n \in DOMAIN document.profiles : DOMAIN document.profiles[n] # {}} IN
    [n \in DOMAIN profiles \cup names |->
        IF n \in names THEN SetProfile(profiles, n, document.profiles[n])[n] ELSE profiles[n]]

\* Variant of Migrated: whatever the version.
MigratedAlways(version, profiles) ==
    [profiles EXCEPT !["local"].serverUrl = IF @ = "legacy" THEN "local" ELSE @]

\* migrate_from_version; a document that does not tell its version has the first.
Migrated(version, profiles) ==
    IF version < 2 /\ profiles["local"].serverUrl = "legacy"
    THEN [profiles EXCEPT !["local"].serverUrl = "local"]
    ELSE profiles

Parsed(document) ==
    [version |-> IF document.version \in 1..CurrentVersion THEN CurrentVersion
                 ELSE document.version,
     selected |-> document.selected,
     profiles |-> Migrated(document.version, Overlaid(document))]

\* A file without text is as good as none; another has a section at least.
Loads(content) ==
    content \notin {NoDocument, Empty} =>
        /\ content # Garbled
        /\ DOMAIN content.profiles # {} /\ Blank \notin DOMAIN content.profiles
        /\ Valid(Parsed(content))
Loaded(content) == IF content \in {NoDocument, Empty} THEN Defaults ELSE Parsed(content)

ToDocument(config) ==
    [config EXCEPT !.profiles =
        [n \in DOMAIN @ |-> Restrict(@[n], {k \in DOMAIN @[n] : @[n][k] # None})]]

\* toml_line writes a line break as it is.  The lines after it cannot be read, or, where
\* there are quotation marks too, say something else.
Written(config) ==
    IF Texts(config) \cap Multiline = {} THEN {ToDocument(config)}
    ELSE Documents \cup {Garbled}

(* The commands                                                             *)
\* What a command changes: the selected profile, or keys of one profile.
Select(name) == [select |-> name, name |-> None, values |-> <<>>]
Change(name, values) == [select |-> None, name |-> name, values |-> values]

Applied(config, change) ==
    IF change.select # None THEN [config EXCEPT !.selected = change.select]
    ELSE [config EXCEPT !.profiles = SetProfile(@, change.name, change.values)]

\* config set, with a value that may be invalid
SetChanges ==
    {IF s.name = None THEN Select(s.value)
     ELSE Change(s.name, [k \in {s.key} |-> s.value]) : s \in Settings}

\* profile use
UseChanges(config) == {Select(n) : n \in Named \cap DOMAIN config.profiles}

\* resolve: the profile that is named or else the selected one, if it exists
Resolvable(config) == (Named \cup {config.selected}) \cap DOMAIN config.profiles

\* login and org select; the bootstrap of the runner; logout
ScopeValues ==
    {[organizationId |-> "org"], [organizationId |-> "org", runnerId |-> "runner"],
     [organizationId |-> None, runnerId |-> None]}
ScopeChanges(config) == {Change(n, values) : n \in Resolvable(config), values \in ScopeValues}

\* set_key and save validate the whole configuration.
Changes(config) ==
    {c \in SetChanges \cup UseChanges(config) \cup ScopeChanges(config) :
        Valid(Applied(config, c))}

Idle == [step |-> "idle"]
Unknown == [known |-> FALSE]
At(p, step) == procs[p].step = step
Goto(p, step) == procs' = [procs EXCEPT ![p].step = step]
End(p) == procs' = [procs EXCEPT ![p] = Idle] /\ holder' = None

Init ==
    /\ file \in Documents \cup {NoDocument, Empty} /\ Loads(file)
    /\ temp = NoDocument /\ holder = None
    /\ procs = [p \in Processes |-> Idle]
    /\ expected = Loaded(file)

\* PluginSetupTransactionLock::acquire, before the command looks at anything
Acquire(p) ==
    /\ At(p, "idle") /\ holder = None
    /\ holder' = p /\ procs' = [procs EXCEPT ![p] = [step |-> "load"]]
    /\ UNCHANGED <<file, temp, expected>>

Load(p) ==
    /\ At(p, "load") /\ Loads(file)
    /\ \E c \in Changes(Loaded(file)) :
          procs' = [procs EXCEPT ![p] =
              [step |-> "create", change |-> c, config |-> Applied(Loaded(file), c)]]
    /\ UNCHANGED <<file, temp, holder, expected>>

\* fs::write truncates the file before it writes it.
Create(p) ==
    /\ At(p, "create") /\ temp' = Empty /\ Goto(p, "write")
    /\ UNCHANGED <<file, holder, expected>>

Write(p) ==
    /\ At(p, "write") /\ temp' \in Written(procs[p].config) /\ Goto(p, "rename")
    /\ UNCHANGED <<file, holder, expected>>

Rename(p) ==
    /\ At(p, "rename") /\ End(p)
    /\ file' = temp /\ temp' = NoDocument
    /\ expected' = IF expected = Unknown \/ Texts(procs[p].config) \cap Multiline # {}
                   THEN Unknown ELSE Applied(expected, procs[p].change)

\* The command is refused, fails, or its process is killed.
Fail(p) == ~At(p, "idle") /\ End(p) /\ UNCHANGED <<file, temp, expected>>

Next ==
    \E p \in Processes :
        Acquire(p) \/ Load(p) \/ Create(p) \/ Write(p) \/ Rename(p) \/ Fail(p)

Spec == Init /\ [][Next]_vars

-----------------------------------------------------------------------------
(* Properties.                                                             *)

\* Whoever reads the configuration, at any moment and whichever command was refused,
\* failed or was killed, reads the settings that the commands before asked for, and
\* nothing else: config.rs, save and load_or_default.  There are three exceptions.  A
\* cleared hostHeader of the built-in local profile is not written, so the built-in value
\* is back at the next load; a profile with a blank name can be set, but no file with one
\* can be read; and once a name or a value with a line break is saved, nothing is said of
\* what is read from then on.
SettingsAreKept ==
    expected # Unknown /\ Blank \notin DOMAIN expected.profiles =>
        /\ Loads(file)
        /\ Loaded(file) = [expected EXCEPT !.profiles["local"].hostHeader =
                               IF @ = None THEN Defaults.profiles["local"].hostHeader ELSE @]
=============================================================================
