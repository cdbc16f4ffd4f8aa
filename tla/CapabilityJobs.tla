---------------------------- MODULE CapabilityJobs ----------------------------
(***************************************************************************)
(* What a worker does with a leased job: it checks the authorization that  *)
(* came with it (main.rs, policy.rs, approval.rs) and executes the local   *)
(* capability (local_capabilities.rs): reads files while others edit them, *)
(* or runs a command with its descendants, a deadline and a cancellation.  *)
(* Writes and patches are the subject of WorkspaceWrites.                  *)
(*                                                                         *)
(* A file is an inode with a version, its content, and a mark, which is    *)
(* what its metadata show of it (length, time).  An edit in place makes a  *)
(* new version and may leave the mark as it was, or put back an old one; a *)
(* rename puts another inode at the path.  Of the processes of a command,  *)
(* "child" was spawned, "helper" is of its process group and "daemon" has  *)
(* left it.                                                                *)
(***************************************************************************)
EXTENDS Naturals, FiniteSets

CONSTANTS
    Offers,         \* jobs the Backend may lease
    MaxJobs,        \* bound: jobs of the run
    MaxClock,       \* bound: time
    MaxEdits,       \* bound: edits by others during a job
    MaxWrites       \* bound: what a command writes

VARIABLES
    clock, edits,
    job,            \* the leased job, and how many there were before
    gateway,        \* CapabilityAuthorizationGateway, numbered, with its used_nonces
    work,           \* the worker
    disk,           \* the inode at the path, and of each inode the version and the mark
    proc,           \* the processes of the command
    output,         \* its stdout: who holds it, what was written and captured
    token,          \* ShellCancellationToken
    granted,        \* history: the authorizations granted, and of which job by which gateway
    unseen          \* history: the file was edited while it was read, and shows what it did

vars == <<clock, edits, job, gateway, work, disk, proc, output, token, granted, unseen>>
command == <<proc, output>>
history == <<granted, unseen>>

-----------------------------------------------------------------------------
(* Jobs, and what authorizes them.                                         *)

\* expected_capability
Capability(kind) ==
    CASE kind = "file.list" -> "fs.list"
      [] kind = "file.read_many" -> "fs.read"
      [] kind = "command.run" -> "shell.exec"
      [] OTHER -> kind

Shells == {"command.run", "shell.exec"}
Gits == {"git.status", "git.diff", "git.log"}
Reads == {"file.read_many", "fs.read"}
Lists == {"file.list", "fs.list"}
Web == {"http.request"}

\* What else the library executes, all of it through shell_exec; no job of a
\* runner gets that far.
Tools == {"browser.playwright", "db.query", "docker.exec", "test.run"}
Commands == Shells \cup Gits \cup Tools

\* The default policy of authorize denies the reserved capabilities and asks
\* or allows otherwise, which is for the approval to answer.
Denied(capability) == capability \in {"git.commit", "git.push"}

\* runner_job_workspace_root
Usable(j) == j.workspace # "link"

\* authorize: the envelope is for this job, now.
EnvelopeCovers(j) ==
    LET e == j.envelope IN
    /\ e.version = 1
    /\ e.capability = Capability(j.kind)
    /\ clock < e.expires
    /\ e.actor = j.actor /\ e.workspace = j.workspace /\ e.input = j.input
    /\ ~Denied(e.capability)

\* Variant of ApprovalCovers: the lease is not compared.
ApprovalCoversAnyLease(j) ==
    LET a == j.envelope.approval IN
    /\ a.approved
    /\ a.input = j.input /\ a.workspace = j.workspace /\ a.actor = j.actor
    /\ clock < a.expires /\ a.nonce = j.envelope.nonce

\* validate_approval_binding
ApprovalCovers(j) ==
    LET a == j.envelope.approval IN
    /\ a.approved
    /\ a.input = j.input /\ a.workspace = j.workspace /\ a.actor = j.actor
    /\ a.lease = j.lease
    /\ clock < a.expires /\ a.nonce = j.envelope.nonce

Nowhere == [pc |-> "idle", seen |-> <<>>, handle |-> 0, chunks |-> {}, late |-> FALSE,
            killed |-> "no"]
NoProcess == [child |-> "none", helper |-> "none", daemon |-> "none"]
Disk == [path |-> 0, version |-> [i \in {0, 1} |-> 0], mark |-> [i \in {0, 1} |-> 0]]
NoOutput == [holders |-> {}, written |-> 0, captured |-> 0]

Busy == work.pc \notin {"idle", "ok", "failed", "ended"}

\* The worker is given a job.  A runner makes a gateway for each.
Lease ==
    /\ ~Busy /\ job.number < MaxJobs
    /\ \E j \in Offers : job' = [number |-> job.number + 1, offer |-> j]
    /\ gateway' = IF job'.offer.caller = "runner" THEN [number |-> gateway.number + 1, used |-> {}]
                  ELSE gateway
    /\ work' = [Nowhere EXCEPT !.pc = "authorize"]
    /\ proc' = NoProcess /\ output' = NoOutput /\ token' = FALSE
    /\ edits' = 0 /\ disk' = Disk
    /\ UNCHANGED <<clock, history>>

Goto(pc) == work' = [work EXCEPT !.pc = pc]
Fail == Goto("failed")

\* execute_runner_control_job_with_cancel
Executes(j) == j.kind \in Shells \cup Gits \cup Reads \cup Lists \cup Web \cup
                            IF j.caller = "library" THEN Tools ELSE {}

First(kind) == CASE kind \in Reads -> "stat" [] kind \in Lists -> "list"
                 [] kind \in Web -> "send" [] OTHER -> "spawn"

\* What an approval binds: nothing in it names the job.
Binding(j) == [lease |-> j.lease, workspace |-> j.workspace, input |-> j.input, actor |-> j.actor]

\* Variant of Spend: the nonce is looked for and not kept.
SpendNothing(nonce) == UNCHANGED gateway

\* used_nonces.insert
Spend(nonce) == gateway' = [gateway EXCEPT !.used = @ \cup {nonce}]

\* authorize_runner_capability, authorize_request, authorize: the nonce is taken
\* last, and kept also for a kind that the runner then does not execute.
Authorize ==
    /\ work.pc = "authorize"
    /\ LET j == job.offer
           nonce == j.envelope.nonce
       IN  IF Usable(j) /\ EnvelopeCovers(j) /\ ApprovalCovers(j) /\ nonce \notin gateway.used
           THEN /\ Spend(nonce)
                /\ granted' = granted \cup {[job |-> job.number, gateway |-> gateway.number,
                                             nonce |-> nonce, binding |-> Binding(j)]}
                /\ Goto(IF Executes(j) /\ j.path = "inside" THEN First(j.kind) ELSE "failed")
           ELSE Fail /\ UNCHANGED <<gateway, granted>>
    /\ UNCHANGED <<clock, edits, job, disk, command, token, unseen>>

-----------------------------------------------------------------------------
(* fs_read: of every file of file.read_many, one after the other.          *)

\* file_identity: the device and the inode, the length and the time.
Identity(inode) == <<inode, disk.mark[inode]>>
Content(inode) == <<inode, disk.version[inode]>>
Worker == UNCHANGED <<clock, edits, job, gateway, disk, token, granted>>

Stat ==
    /\ work.pc = "stat" /\ Worker /\ unseen' = FALSE
    /\ work' = [work EXCEPT !.pc = "open", !.seen = Identity(disk.path), !.chunks = {}]
    /\ UNCHANGED command

OpenFile ==
    /\ work.pc = "open" /\ Worker /\ UNCHANGED unseen
    /\ IF Identity(disk.path) = work.seen
       THEN work' = [work EXCEPT !.pc = "read", !.handle = disk.path]
       ELSE Fail
    /\ UNCHANGED command

\* A chunk is read, or it is the end, or 30 seconds are over.
ReadChunk ==
    /\ work.pc = "read" /\ Worker /\ UNCHANGED unseen
    /\ \/ work' = [work EXCEPT !.chunks = @ \cup {Content(work.handle)}]
       \/ work.chunks # {} /\ Goto("check")
       \/ Fail
    /\ UNCHANGED command

\* Variant of CheckRead: the file of the handle is looked at, not the one at the path.
CheckOpenedFile ==
    /\ work.pc = "check" /\ Worker /\ UNCHANGED unseen
    /\ IF work.seen[1] = work.handle THEN Goto("stat") \/ Goto("ok") ELSE Fail
    /\ UNCHANGED command

CheckRead ==
    /\ work.pc = "check" /\ Worker /\ UNCHANGED unseen
    /\ IF Identity(disk.path) = work.seen THEN Goto("stat") \/ Goto("ok") ELSE Fail
    /\ UNCHANGED command

\* fs_list: an entry that goes away between the directory and its metadata ends it.
ListDirectory ==
    /\ work.pc = "list" /\ Worker /\ UNCHANGED unseen
    /\ Goto("ok") \/ (edits > 0 /\ Fail)
    /\ UNCHANGED command

\* The url, then the addresses of its host, are compared with the network policy
\* before the request is sent to one of them; whatever was answered is a result.
HttpRequest ==
    /\ work.pc = "send" /\ Worker /\ UNCHANGED unseen
    /\ Goto("ok") \/ Fail
    /\ UNCHANGED command

-----------------------------------------------------------------------------
(* shell_exec_with_working_directory, run_git_bounded.                     *)

Kind == job.offer.kind
Stoppable == Kind \notin Gits       \* git is spawned without a group and waited for
IsRunning(p) == proc[p] = "runs"
Ended == {"zero", "nonzero", "signal"}

Spawn ==
    /\ work.pc = "spawn" /\ Worker /\ UNCHANGED unseen
    /\ \/ /\ Goto(IF Stoppable THEN "poll" ELSE "wait")
          /\ proc' = [NoProcess EXCEPT !.child = "runs"]
          /\ output' = [NoOutput EXCEPT !.holders = {"child"}]
       \/ Fail /\ UNCHANGED command

\* kill_process_tree
KillTree ==
    /\ proc' = [p \in DOMAIN proc |-> IF p # "daemon" /\ IsRunning(p) THEN "signal" ELSE proc[p]]
    /\ output' = [output EXCEPT !.holders = @ \cap {"daemon"}]

Stop(why) == work' = [work EXCEPT !.pc = "wait", !.killed = why] /\ KillTree

\* Variant of Poll: only the cancellation ends a command that runs on.
PollWithoutDeadline ==
    /\ work.pc = "poll" /\ Worker /\ UNCHANGED unseen
    /\ \/ token /\ Stop("cancelled")
       \/ ~token /\ proc.child \in Ended /\ Goto("wait") /\ UNCHANGED command

\* Every 10 ms: the token, then the deadline, then the child.
Poll ==
    /\ work.pc = "poll" /\ Worker /\ UNCHANGED unseen
    /\ \/ token /\ Stop("cancelled")
       \/ ~token /\ work.late /\ Stop("timed out")
       \/ ~token /\ ~work.late /\ proc.child \in Ended /\ Goto("wait") /\ UNCHANGED command

\* child.wait, then both readers are joined: they end when nobody holds the pipe.
Wait == /\ work.pc = "wait" /\ proc.child \in Ended /\ Goto("join")
        /\ Worker /\ UNCHANGED <<command, unseen>>

\* read_bounded_pipe
Capture ==
    /\ output.captured < output.written
    /\ output' = [output EXCEPT !.captured = @ + 1]
    /\ UNCHANGED <<clock, edits, job, gateway, work, disk, proc, token, history>>

\* Variant of AtEnd: the readers are not joined.
AtEndOfChild == TRUE
AtEnd == output.holders = {} /\ output.captured = output.written

\* exit_code: -1 or 1 for a child that a signal ended.
Succeeds == proc.child = "zero"

\* A command reports its exit code as it is.
ShellOutcome == IF Succeeds THEN "ok" ELSE "ended"

\* docker.exec and test.run pass it on.
ToolOutcome == ShellOutcome

\* git_output_result
GitOutcome == IF Succeeds THEN "ok" ELSE "failed"

\* sqlite3 and psql: anything but 0 is an error.
DatabaseOutcome == IF Succeeds THEN "ok" ELSE "failed"

\* So is a timeout of the browser, whatever its exit code.
BrowserOutcome == IF Succeeds /\ work.killed # "timed out" THEN "ok" ELSE "failed"

Outcome == CASE Kind \in Shells -> ShellOutcome
             [] Kind \in Gits -> GitOutcome
             [] Kind = "db.query" -> DatabaseOutcome
             [] Kind = "browser.playwright" -> BrowserOutcome
             [] OTHER -> ToolOutcome

Join == work.pc = "join" /\ AtEnd /\ Goto(Outcome) /\ Worker /\ UNCHANGED <<command, unseen>>

-----------------------------------------------------------------------------
(* The others, where it makes a difference.                                *)

Tick == work.pc = "authorize" /\ clock < MaxClock /\ clock' = clock + 1
        /\ UNCHANGED <<edits, job, gateway, work, disk, command, token, history>>

\* started.elapsed() >= timeout
Deadline == work.pc \in {"poll", "wait", "join"} /\ ~work.late
            /\ work' = [work EXCEPT !.late = TRUE]
            /\ UNCHANGED <<clock, edits, job, gateway, disk, command, token, history>>

\* The lease is lost or the job canceled: only these are given the token.
Cancel == work.pc \in {"spawn", "poll", "wait"} /\ Kind \in Shells \cup {"db.query"}
          /\ ~token /\ token' = TRUE
          /\ UNCHANGED <<clock, edits, job, gateway, work, disk, command, history>>

\* What the metadata of a file may show; 0 is what they show at first.
Marks == {0} \cup 0..MaxEdits

\* The file at the path is edited in place.  Its length and time may be what they were, or
\* what they were before an earlier edit.
EditInPlace == \E m \in Marks :
    /\ disk' = [disk EXCEPT !.version[disk.path] = @ + 1, !.mark[disk.path] = m]
    /\ unseen' = (unseen \/ (work.pc \in {"read", "check"} /\ <<disk.path, m>> = work.seen))

Edit == /\ work.pc \in {"stat", "open", "read", "check", "list"}
        /\ edits < MaxEdits /\ edits' = edits + 1
        /\ \/ EditInPlace
           \/ disk' = [disk EXCEPT !.path = 1 - @] /\ UNCHANGED unseen
        /\ UNCHANGED <<clock, job, gateway, work, command, token, granted>>

Others == UNCHANGED <<clock, edits, job, gateway, work, disk, token, history>>

\* A descendant inherits the output if its parent still has it.
Fork == \E f \in {"child", "helper"}, p \in {"helper", "daemon"} :
    /\ IsRunning(f) /\ proc[p] = "none"
    /\ proc' = [proc EXCEPT ![p] = "runs"]
    /\ output' = [output EXCEPT !.holders = IF f \in @ THEN @ \cup {p} ELSE @]
    /\ Others

Write == \E p \in output.holders :
    /\ output.written < MaxWrites
    /\ output' = [output EXCEPT !.written = @ + 1] /\ UNCHANGED proc /\ Others

CloseOutput == \E p \in output.holders :
    output' = [output EXCEPT !.holders = @ \ {p}] /\ UNCHANGED proc /\ Others

Exit == \E p \in DOMAIN proc, how \in Ended :
    /\ IsRunning(p) /\ proc' = [proc EXCEPT ![p] = how]
    /\ output' = [output EXCEPT !.holders = @ \ {p}] /\ Others

Reading == Stat \/ OpenFile \/ ReadChunk \/ CheckRead \/ ListDirectory \/ HttpRequest
Running == Spawn \/ Poll \/ Wait \/ Join

Init ==
    /\ clock = 0 /\ edits = 0
    /\ job = [number |-> 0, offer |-> CHOOSE j \in Offers : TRUE]
    /\ gateway = [number |-> 0, used |-> {}] /\ work = Nowhere
    /\ disk = Disk
    /\ proc = NoProcess /\ output = NoOutput /\ token = FALSE
    /\ granted = {} /\ unseen = FALSE

Next == Lease \/ Authorize \/ Reading \/ Running \/ Capture \/ Tick \/ Deadline \/ Cancel
        \/ Edit \/ Fork \/ Write \/ CloseOutput \/ Exit

Spec == Init /\ [][Next]_vars

\* The threads of the process are scheduled and its deadlines pass.  Nothing is
\* assumed of the command, which may run for ever.
Fairness == WF_vars(Running) /\ WF_vars(Capture) /\ WF_vars(Deadline) /\ WF_vars(Authorize)
FairSpec == Spec /\ Fairness

-----------------------------------------------------------------------------
(* Properties.                                                             *)

TypeOK ==
    /\ clock \in 0..MaxClock /\ edits \in 0..MaxEdits
    /\ job \in [number : 0..MaxJobs, offer : Offers]
    /\ gateway \in [number : 0..MaxJobs, used : SUBSET {j.envelope.nonce : j \in Offers}]
    /\ work.pc \in {"idle", "authorize", "stat", "open", "read", "check", "list", "send",
                    "spawn", "poll", "wait", "join", "ok", "failed", "ended"}
    /\ work.killed \in {"no", "cancelled", "timed out"} /\ work.late \in BOOLEAN
    /\ \A p \in DOMAIN proc : proc[p] \in {"none", "runs"} \cup Ended
    /\ output.captured <= output.written /\ output.written <= MaxWrites
    /\ output.holders \subseteq DOMAIN proc /\ token \in BOOLEAN

\* A gateway accepts a nonce for one job.  Another gateway, which the runner makes for its
\* next job, accepts it again, but only for a job of the same lease version, input,
\* workspace and actor: one that is leased again, or of another input, is not executed
\* under the approval of before.
NonceIsBoundAndSpent ==
    \A g, h \in granted : g.nonce = h.nonce /\ g # h =>
        g.job # h.job /\ g.gateway # h.gateway /\ g.binding = h.binding

\* The nonce set is owned by the runner session, "so a replay in the same process
\* cannot execute a second time" (policy.rs): an authorization is granted once.
AuthorizationIsSpentOnce == \A g, h \in granted : g.nonce = h.nonce => g = h

\* What fs.read returns is one version of the file, the one its digest is of, however the
\* file is edited or replaced meanwhile; only an edit in place, during the read, after which
\* the file has the length and the time it had before, can go unnoticed.
ReadsOneVersion ==
    work.pc \in {"ok", "stat"} /\ Kind \in Reads /\ ~unseen => \A c, d \in work.chunks : c = d

\* A command that was cancelled or timed out leaves nothing of its process group,
\* and what is reported of any command is all that it wrote, also through a
\* process that outlived it; a success is a child that ended by itself with 0.
CommandResultIsTrue ==
    Kind \in Commands /\ work.pc \in {"ok", "ended"} =>
        /\ work.killed # "no" => ~IsRunning("child") /\ ~IsRunning("helper")
        /\ output.captured = output.written /\ output.holders = {}
        /\ work.pc = "ok" => proc.child = "zero"

\* A command ends, at the latest after its deadline, whatever it does, unless the
\* child ended and left a process that holds its output.
CommandEnds ==
    work.pc = "poll" ~> ~Busy \/ (proc.child \in Ended /\ output.holders # {})
=============================================================================
