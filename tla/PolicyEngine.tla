----------------------------- MODULE PolicyEngine -----------------------------
(***************************************************************************)
(* policy.rs: the decision about a capability from the built-in, the local *)
(* and the organization's layer, with managed documents that are           *)
(* published, rolled out to a share of the runners and rolled back.        *)
(***************************************************************************)
EXTENDS Integers, Sequences, SequencesExt, PolicyRules

CONSTANTS
    Rules,          \* the rules that a local configuration is made of
    Managed,        \* the layers that an organization publishes
    Inputs,         \* what is asked
    Root,           \* the path of the execution root
    Percents,       \* rollout_percent of documents
    Bucket,         \* runner_rollout_bucket
    MaxRules,       \* bound: rules of the local configuration
    MaxVersion      \* bound: versions of the document

VARIABLES
    local,          \* local_config of the snapshot
    published,      \* the organization's document at the management service
    snapshot,       \* organization of the runner's snapshot
    contents        \* history: the layer of each version

vars == <<local, published, snapshot, contents>>

\* The default_decision of a layer is written as a last rule for "*".
LocalLayers == UNION {[1..n -> Rules] : n \in 0..MaxRules}
None == [version |-> 0]

(* Paths: normalize_workspace_path and the tests under a root.              *)
WalkPart(at, part) ==
    IF ~at.ok \/ part = "." THEN at
    ELSE IF part # ".." THEN [at EXCEPT !.parts = Append(@, part)]
    ELSE IF at.parts = <<>> THEN [at EXCEPT !.ok = FALSE]
    ELSE [at EXCEPT !.parts = Front(@)]

Normalize(p) ==
    FoldLeft(WalkPart, [ok |-> TRUE, absolute |-> p.absolute, parts |-> <<>>], p.parts)

\* path_is_under_prefix, of normal forms: the prefix "/" or "." covers only itself,
\* because what follows it does not begin with a separator.
IsUnder(prefix, path) ==
    /\ prefix.absolute = path.absolute
    /\ \/ prefix.parts = path.parts
       \/ prefix.parts # <<>> /\ IsPrefix(prefix.parts, path.parts)

Covers(prefix, p) ==
    LET from == Normalize(prefix)
        path == Normalize(p)
    IN from.ok /\ path.ok /\ IsUnder(from, path)

\* validate_workspace_path_inside_root: both the path that is asked for and the one it
\* resolves to.
InsideRoot(input) ==
    input.requested # <<>> =>
        Covers(Root, input.requested[1])
        /\ (input.resolved # <<>> => Covers(Root, input.resolved[1]))

(* Layers: rule_matches, merge_evaluation and evaluate.                      *)
RuleMatches(rule, input) ==
    /\ rule.capability \in {"*", input.capability}
    /\ rule.prefix # <<>> =>
           input.requested # <<>> /\ Covers(rule.prefix[1], input.requested[1])
    /\ rule.conditions \subseteq input.facts

\* What a layer says: "none" where no rule matches and it has no default.
Says(rules, default, input) ==
    LET matching == {i \in DOMAIN rules : RuleMatches(rules[i], input)} IN
    IF matching = {} THEN default
    ELSE rules[CHOOSE i \in matching : \A j \in matching : i <= j].decision

\* default_policy_layer
BuiltIn(input) ==
    CASE input.capability \in {"fs.list", "git.status"} -> "allow"
      [] input.capability \in {"git.commit", "git.push"} -> "deny"
      [] OTHER -> "ask"

\* Variant of Merge: precedence before everything.
MergeByPrecedence(current, next) == IF next = "none" THEN current ELSE next

\* merge_evaluation, of layers in the order of source_precedence
Merge(current, next) ==
    CASE next = "none" -> current
      [] current = "none" -> next
      [] current = "deny" -> "deny"
      [] OTHER -> next

\* apply_shell_risk_floor
Floor(decision, input) ==
    IF input.capability = "shell.exec" /\ "risky" \in input.facts /\ decision = "allow"
    THEN "ask" ELSE decision

\* policy_applies_to_runner
Applies(document) == document # None /\ Bucket < document.percent

OrganizationSays(input) ==
    IF Applies(snapshot) THEN Says(snapshot.rules, "none", input) ELSE "none"

\* PolicyEngine::evaluate of the managed_policy_engine
Evaluate(input) ==
    IF input.capability \in {"git.commit", "git.push"} THEN "deny"
    ELSE IF ~InsideRoot(input) THEN "outside"
    ELSE Floor(Merge(Merge(BuiltIn(input), Says(local, "none", input)), OrganizationSays(input)),
               input)

\* enforce_managed_policy_version
RunnerIsCurrent == snapshot # None /\ snapshot.version >= published.version

Init == local = <<>> /\ published = None /\ snapshot = None /\ contents = <<>>

EditLocalConfig ==
    /\ local' \in LocalLayers
    /\ UNCHANGED <<published, snapshot, contents>>

\* The management service, which is not part of this repository, makes the next version.
Publish(rules, percent) ==
    /\ published.version < MaxVersion
    /\ published' = Document(published.version + 1, rules, percent,
                             IF published = None THEN {}
                             ELSE published.previous \cup {published.version})
    /\ contents' = Append(contents, rules)
    /\ UNCHANGED <<local, snapshot>>

\* rollback_managed_policy: the target is only looked up; the layer stays as it is.
Rollback(target) ==
    /\ published # None /\ target \in published.previous
    /\ published.version < MaxVersion
    /\ published' = [published EXCEPT !.version = @ + 1, !.previous = @ \cup {published.version}]
    /\ contents' = Append(contents, published.rules)
    /\ UNCHANGED <<local, snapshot>>

Refresh ==
    /\ snapshot' = published
    /\ UNCHANGED <<local, published, contents>>

Next ==
    \/ EditLocalConfig \/ Refresh
    \/ \E rules \in Managed, percent \in Percents : Publish(rules, percent)
    \/ \E target \in 1..MaxVersion : Rollback(target)

Spec == Init /\ [][Next]_vars

-----------------------------------------------------------------------------
(* Properties.                                                             *)

TypeOK ==
    LET Revisions == [version : 1..MaxVersion, rules : Managed, percent : Percents,
                      previous : SUBSET (1..MaxVersion)] IN
    /\ local \in LocalLayers
    /\ {published, snapshot} \subseteq Revisions \cup {None}
    /\ contents \in Seq(Managed)

Strictness(decision) == CASE decision = "allow" -> 1 [] decision = "ask" -> 2 [] OTHER -> 3

\* Whatever a user writes into the local configuration: what the organization's layer
\* says of an input is never relaxed, a denial of any layer stands, and nothing is
\* allowed that no layer allows.
OrganizationIsObeyed ==
    \A input \in Inputs :
        LET result == Evaluate(input)
            org == OrganizationSays(input)
            own == Says(local, "none", input)
        IN /\ org # "none" => Strictness(result) >= Strictness(org)
           /\ "deny" \in {BuiltIn(input), own, org} => Strictness(result) = 3
           /\ result = "allow" => "allow" \in {BuiltIn(input), own, org}

\* An input that is answered with a decision names and resolves to a place at or below
\* the root: no part of its way leads above it in the end.
DecisionsAreInsideTheRoot ==
    \A input \in Inputs : Evaluate(input) \in {"allow", "ask"} =>
        \A p \in ToSet(input.requested) \cup ToSet(input.resolved) :
            /\ \A n \in 0..Len(p.parts) :
                Cardinality({i \in 1..n : p.parts[i] = ".."})
                    <= Cardinality({i \in 1..n : p.parts[i] \notin {"..", "."}})
            /\ IsPrefix(Normalize(Root).parts, Normalize(p).parts)

\* A runner that the version check lets execute decides by the rules of the document
\* that is in force, also after a rollback.
CurrentRunnersHaveTheRules == RunnerIsCurrent => snapshot.rules = contents[Len(contents)]
=============================================================================
