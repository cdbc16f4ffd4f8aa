----------------------------- MODULE PolicyRules -----------------------------
(***************************************************************************)
(* The data of policy.rs: the rules of a layer, what is asked, and the     *)
(* documents of an organization.  A rule's conditions on host, method,     *)
(* command and sensitive names are a set of facts: a rule names those it   *)
(* asks for, an input those it satisfies ("risky" is what is_shell_risky   *)
(* finds).  A path is a sequence of parts, an optional path a sequence of  *)
(* at most one path.                                                       *)
(***************************************************************************)
Path(absolute, parts) == [absolute |-> absolute, parts |-> parts]

Rule(capability, decision, prefix, conditions) ==
    [capability |-> capability, decision |-> decision, prefix |-> prefix, conditions |-> conditions]
Input(capability, requested, resolved, facts) ==
    [capability |-> capability, requested |-> requested, resolved |-> resolved, facts |-> facts]
Document(version, rules, percent, previous) ==
    [version |-> version, rules |-> rules, percent |-> percent, previous |-> previous]
=============================================================================
