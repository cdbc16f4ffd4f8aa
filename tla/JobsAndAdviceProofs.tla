-------------------------- MODULE JobsAndAdviceProofs --------------------------
(***************************************************************************)
(* Proofs about the components that MCJobsAndAdvice composes.              *)
(*                                                                         *)
(* The registry of approvals, for any requests, users, keys and times.     *)
(* What callers were told is what the records say; a record of a decision  *)
(* agrees with the request, which then is not pending again; and a key has *)
(* one record.                                                             *)
(*                                                                         *)
(* The jobs of a runner, for any offers and bounds: JobsInv says what the  *)
(* worker knows at each place of a read and of a command, and GrantsInv    *)
(* under which approval and by which gateway each authorization was        *)
(* granted.                                                                *)
(***************************************************************************)
EXTENDS MCJobsAndAdvice, TLAPS

-----------------------------------------------------------------------------
(* The registry of approvals.                                              *)


\* A recorded decision is the one the request keeps.
RecordAgrees(d) ==
    Granted(d) =>
        /\ requests[d.key[1]] \in Request
        /\ requests[d.key[1]].status # "pending"
        /\ d.result = Decided(requests[d.key[1]].decision)
        /\ d.key[2] = requests[d.key[1]].by

RecordsAgree == \A d \in decided : RecordAgrees(d)
OneRecord == \A d, e \in decided : d.key = e.key => d = e

ToldFrom(t) ==
    \E d \in decided : d.key = KeyOf(t.call) /\ d.decision = t.decision /\ d.result = t.result
ToldIsRecorded == \A t \in told : t.result \in Outcomes => ToldFrom(t)

IInv == TypeOK /\ RecordsAgree /\ OneRecord /\ ToldIsRecorded

-----------------------------------------------------------------------------
(* The parts of the steps that touch the records and the history.          *)

\* A request that was never made has a status of its own.
LEMMA UnknownIsNoRequest == Unknown \notin Request
BY DEF Unknown, Request

\* The key of a decision is the request, the user and the idempotency key of its call.
LEMMA KeyType ==
    ASSUME NEW call \in Call
    PROVE  /\ KeyOf(call) \in Requests \X Users \X Keys
           /\ KeyOf(call)[1] = call.request /\ KeyOf(call)[2] = call.user
           /\ call.request \in Requests /\ call.user \in Users
BY DEF KeyOf, Call

\* A request that is not pending before and after the step, with the same decision
\* of the same user, keeps its records in agreement.
LEMMA SettledKeepRecords ==
    ASSUME TypeOK, RecordsAgree, UNCHANGED decided,
           \A r \in Requests : requests[r] \in Request /\ requests[r].status # "pending" =>
               /\ requests'[r] \in Request /\ requests'[r].status # "pending"
               /\ requests'[r].decision = requests[r].decision
               /\ requests'[r].by = requests[r].by
    PROVE  RecordsAgree'
<1> SUFFICES ASSUME NEW d \in decided, Granted(d)
             PROVE  RecordAgrees(d)'
    BY DEF RecordsAgree, RecordAgrees, Granted
<1>1. d.key[1] \in Requests
    BY DEF TypeOK
<1>2. RecordAgrees(d)
    BY DEF RecordsAgree
<1> QED BY <1>1, <1>2 DEF RecordAgrees, Granted

\* More records, and nothing else, keep what was told recorded.
LEMMA MoreRecords ==
    ASSUME ToldIsRecorded, decided \subseteq decided', UNCHANGED told
    PROVE  ToldIsRecorded'
BY DEF ToldIsRecorded, ToldFrom, KeyOf

\* A call whose new record is told as it was recorded.
LEMMA RecordAndReply ==
    ASSUME OneRecord, ToldIsRecorded, NEW call \in Call, NEW decision \in Decisions,
           NEW result \in Outcomes, Records(call) = {},
           Record(call, decision, result), Reply(call, decision, result)
    PROVE  OneRecord' /\ ToldIsRecorded'
<1> DEFINE new == [key |-> KeyOf(call), decision |-> decision, result |-> result]
<1>1. decided' = decided \cup {new}
    BY DEF Record
<1>2. \A d \in decided : d.key # KeyOf(call)
    BY DEF Records
<1>3. OneRecord'
    BY <1>1, <1>2 DEF OneRecord
<1>4. ToldIsRecorded'
  <2> SUFFICES ASSUME NEW t \in told', t.result \in Outcomes
               PROVE  ToldFrom(t)'
      BY DEF ToldIsRecorded
  <2>1. CASE t \in told
      BY <2>1, <1>1 DEF ToldIsRecorded, ToldFrom, KeyOf
  <2>2. CASE t = [call |-> call, decision |-> decision, result |-> result]
    <3>1. t.call = call /\ t.decision = decision /\ t.result = result
        BY <2>2
    <3>2. new \in decided'
        BY <1>1
    <3>3. new.key = KeyOf(t.call) /\ new.decision = t.decision /\ new.result = t.result
        BY <3>1
    <3> QED BY <3>2, <3>3 DEF ToldFrom, KeyOf
  <2> QED BY <2>1, <2>2 DEF Reply
<1> QED BY <1>3, <1>4

-----------------------------------------------------------------------------
(* Each step.                                                              *)

\* A new request takes a number no record and no answer speaks of.
LEMMA CreateKeeps ==
    ASSUME IInv, NEW r \in Requests, CreateRequest(r)
    PROVE  IInv'
<1> USE DEF IInv
<1>1. PICK run \in Runs, users \in SUBSET Users, at \in Times, timeout \in Times :
          requests' = [requests EXCEPT ![r] =
              [status |-> "pending", run |-> run, users |-> users, expires |-> at + timeout,
               decision |-> "none", by |-> "nobody"]]
    BY DEF CreateRequest
<1>2. requests[r].status = "unknown" /\ UNCHANGED <<decided, told>>
    BY DEF CreateRequest, Status
<1>3. at + timeout \in Nat
    BY DEF Times
<1>4. TypeOK'
  <2> DEFINE new == [status |-> "pending", run |-> run, users |-> users,
                     expires |-> at + timeout, decision |-> "none", by |-> "nobody"]
  <2>1. new \in Request
      BY <1>3 DEF Request
  <2>2. requests' \in [Requests -> Request \cup {Unknown}]
      BY <1>1, <2>1 DEF TypeOK
  <2> QED BY <1>2, <2>2 DEF TypeOK
<1>5. r \in Requests => requests[r] \notin Request
    BY <1>2 DEF Request, Outcomes
<1>6. RecordsAgree'
    BY <1>1, <1>2, <1>5, SettledKeepRecords DEF TypeOK
<1> QED BY <1>2, <1>4, <1>6, MoreRecords DEF OneRecord

\* A repeated call is told what is recorded under its key, or that the two decisions differ.
LEMMA ReplayKeeps ==
    ASSUME IInv, NEW call \in Call, NEW decision \in Decisions, Replay(call, decision)
    PROVE  IInv'
<1> USE DEF IInv
<1>1. PICK d \in Records(call) :
          Reply(call, decision, IF d.decision = decision THEN d.result ELSE "conflict")
    BY DEF Replay
<1>2. UNCHANGED <<requests, decided>>
    BY DEF Replay
<1>3. d \in decided /\ d.key = KeyOf(call)
    BY DEF Records
<1> DEFINE new == [call |-> call, decision |-> decision,
                   result |-> IF d.decision = decision THEN d.result ELSE "conflict"]
<1>4. told' = told \cup {new}
    BY <1>1 DEF Reply
<1>5. TypeOK'
    BY <1>2, <1>3, <1>4 DEF TypeOK
<1>6. RecordsAgree' /\ OneRecord'
    BY <1>2 DEF RecordsAgree, RecordAgrees, OneRecord, Granted
<1>7. ToldIsRecorded'
  <2> SUFFICES ASSUME NEW t \in told', t.result \in Outcomes
               PROVE  ToldFrom(t)'
      BY DEF ToldIsRecorded
  <2>1. CASE t \in told
      BY <2>1, <1>2 DEF ToldIsRecorded, ToldFrom, KeyOf
  <2>2. CASE t = new
      BY <2>2, <1>2, <1>3 DEF ToldFrom, KeyOf, Outcomes
  <2> QED BY <2>1, <2>2, <1>4
<1> QED BY <1>5, <1>6, <1>7

\* The first decision after the deadline expires the request, is recorded so and told so.
LEMMA LateKeeps ==
    ASSUME IInv, NEW call \in Call, NEW decision \in Decisions, NEW at \in Times,
           Late(call, decision, at)
    PROVE  IInv'
<1> USE DEF IInv
<1> DEFINE r == call.request
<1> DEFINE new == [key |-> KeyOf(call), decision |-> decision, result |-> "expired"]
<1>1. /\ r \in Requests /\ requests[r].status # "unknown"
      /\ Records(call) = {} /\ requests' = [requests EXCEPT ![r].status = "expired"]
      /\ Record(call, decision, "expired") /\ Reply(call, decision, "expired")
    BY KeyType DEF Late, Known, Status
<1>2. requests[r] \in Request
    BY <1>1 DEF TypeOK, Unknown
<1>3. /\ requests' \in [Requests -> Request \cup {Unknown}]
      /\ requests'[r] \in Request
      /\ requests'[r].status = "expired"
      /\ requests'[r].decision = requests[r].decision /\ requests'[r].by = requests[r].by
      /\ \A s \in Requests : s # r => requests'[s] = requests[s]
    BY <1>1, <1>2 DEF TypeOK, Request, Outcomes
<1>4. decided' = decided \cup {new} /\ new.key \in Requests \X Users \X Keys
    BY <1>1, KeyType DEF Record
<1>5. told' = told \cup {[call |-> call, decision |-> decision, result |-> "expired"]}
    BY <1>1 DEF Reply
<1>6. TypeOK'
    BY <1>3, <1>4, <1>5 DEF TypeOK, Outcomes
<1>7. RecordsAgree'
  <2> SUFFICES ASSUME NEW d \in decided', Granted(d)
               PROVE  RecordAgrees(d)'
      BY DEF RecordsAgree, RecordAgrees, Granted
  <2>1. d \in decided
      BY <1>4 DEF Granted
  <2>2. RecordAgrees(d) /\ d.key[1] \in Requests
      BY <2>1 DEF RecordsAgree, TypeOK
  <2> QED BY <2>2, <1>3 DEF RecordAgrees, Granted
<1>8. "expired" \in Outcomes
    BY DEF Outcomes
<1>9. OneRecord' /\ ToldIsRecorded'
    BY <1>1, <1>8, RecordAndReply
<1> QED BY <1>6, <1>7, <1>9

\* A decision in time settles the pending request, is recorded and told.
LEMMA DecideKeeps ==
    ASSUME IInv, NEW call \in Call, NEW decision \in Decisions, NEW at \in Times,
           Decide(call, decision, at)
    PROVE  IInv'
<1> USE DEF IInv
<1> DEFINE r == call.request
<1> DEFINE result == Decided(decision)
<1> DEFINE new == [key |-> KeyOf(call), decision |-> decision, result |-> result]
<1>1. /\ r \in Requests /\ call.user \in Users /\ requests[r].status = "pending"
      /\ Records(call) = {}
      /\ requests' = [requests EXCEPT ![r].status = result, ![r].decision = decision,
                                      ![r].by = call.user]
      /\ Record(call, decision, result) /\ Reply(call, decision, result)
    BY KeyType DEF Decide, MayDecide, Known, Status
<1>2. requests[r] \in Request
    BY <1>1 DEF TypeOK, Unknown
<1>3. result \in {"approved", "denied"}
    BY DEF Decided
<1>4. /\ requests' \in [Requests -> Request \cup {Unknown}]
      /\ requests'[r] \in Request
      /\ requests'[r].status = result
      /\ requests'[r].decision = decision /\ requests'[r].by = call.user
      /\ \A s \in Requests : s # r => requests'[s] = requests[s]
    BY <1>1, <1>2, <1>3 DEF TypeOK, Request, Outcomes, Decisions
<1>5. decided' = decided \cup {new} /\ new.key \in Requests \X Users \X Keys
    BY <1>1, KeyType DEF Record
<1>6. told' = told \cup {[call |-> call, decision |-> decision, result |-> result]}
    BY <1>1 DEF Reply
<1>7. TypeOK'
    BY <1>3, <1>4, <1>5, <1>6 DEF TypeOK, Outcomes
<1>8. RecordsAgree'
  <2> SUFFICES ASSUME NEW d \in decided', Granted(d)
               PROVE  RecordAgrees(d)'
      BY DEF RecordsAgree, RecordAgrees, Granted
  <2>1. CASE d \in decided
    <3>1. RecordAgrees(d) /\ d.key[1] \in Requests
        BY <2>1 DEF RecordsAgree, TypeOK
    <3>2. d.key[1] # r
        BY <3>1, <1>1 DEF RecordAgrees, Granted
    <3> QED BY <3>1, <3>2, <1>4 DEF RecordAgrees, Granted
  <2>2. CASE d = new
    <3>1. d.key[1] = r /\ d.key[2] = call.user /\ d.result = Decided(decision)
        BY <2>2, KeyType
    <3> QED BY <3>1, <1>3, <1>4 DEF RecordAgrees
  <2> QED BY <2>1, <2>2, <1>5
<1>9. result \in Outcomes
    BY <1>3 DEF Outcomes
<1>10. OneRecord' /\ ToldIsRecorded'
    BY <1>1, <1>9, RecordAndReply
<1> QED BY <1>7, <1>8, <1>10

\* A decision on a settled request is refused without a record.
LEMMA SettledKeeps ==
    ASSUME IInv, NEW call \in Call, NEW decision \in Decisions, NEW at \in Times,
           Settled(call, decision, at)
    PROVE  IInv'
<1> USE DEF IInv
<1> DEFINE new == [call |-> call, decision |-> decision, result |-> "terminal"]
<1>1. UNCHANGED <<requests, decided>> /\ told' = told \cup {new}
    BY DEF Settled, Reply
<1>2. TypeOK' /\ RecordsAgree' /\ OneRecord'
    BY <1>1 DEF TypeOK, RecordsAgree, RecordAgrees, OneRecord, Granted
<1>3. ToldIsRecorded'
    BY <1>1 DEF ToldIsRecorded, ToldFrom, KeyOf, Outcomes
<1> QED BY <1>2, <1>3

\* expire_pending and cancel_run
LEMMA SettleKeeps ==
    ASSUME IInv, NEW those \in SUBSET Pending, NEW status \in {"expired", "cancelled"},
           Settle(those, status)
    PROVE  IInv'
<1> USE DEF IInv
<1>1. requests' = [r \in Requests |-> IF r \in those THEN [requests[r] EXCEPT !.status = status]
                                                     ELSE requests[r]]
    BY DEF Settle
<1>2. UNCHANGED <<decided, told>>
    BY DEF Settle
<1>3. \A r \in those : r \in Requests /\ requests[r] \in Request /\ requests[r].status = "pending"
    BY DEF Pending, Status, TypeOK, Unknown
<1>4. \A r \in Requests : requests'[r] \in Request \cup {Unknown}
    BY <1>1, <1>3 DEF TypeOK, Request, Outcomes
<1>5. TypeOK'
    BY <1>1, <1>2, <1>4 DEF TypeOK
<1>6. \A r \in Requests : requests[r] \in Request /\ requests[r].status # "pending" =>
          requests'[r] = requests[r]
    BY <1>1, <1>3
<1>7. RecordsAgree'
    BY <1>2, <1>6, SettledKeepRecords
<1> QED BY <1>2, <1>5, <1>7, MoreRecords DEF OneRecord

-----------------------------------------------------------------------------

\* The registry keeps the invariant, whatever calls come in whatever order.
THEOREM RegistryInvariance == Spec => []IInv
<1>1. Init => IInv
    BY DEF Init, IInv, TypeOK, RecordsAgree, OneRecord, ToldIsRecorded
<1>2. IInv /\ [Next]_vars => IInv'
  <2> SUFFICES ASSUME IInv, [Next]_vars
               PROVE  IInv'
      OBVIOUS
  <2>1. ASSUME NEW r \in Requests, CreateRequest(r) PROVE IInv'
      BY <2>1, CreateKeeps
  <2>2. ASSUME NEW at \in Times, ExpirePending(at) PROVE IInv'
      BY <2>2, SettleKeeps DEF ExpirePending
  <2>3. ASSUME NEW run \in Runs, CancelRun(run) PROVE IInv'
      BY <2>3, SettleKeeps DEF CancelRun
  <2>4. ASSUME NEW call \in Call, NEW decision \in Decisions, Replay(call, decision)
        PROVE  IInv'
      BY <2>4, ReplayKeeps
  <2>5. ASSUME NEW call \in Call, NEW decision \in Decisions, NEW at \in Times,
               Late(call, decision, at) \/ Settled(call, decision, at) \/ Decide(call, decision, at)
        PROVE  IInv'
      BY <2>5, LateKeeps, SettledKeeps, DecideKeeps
  <2>6. CASE UNCHANGED vars
      BY <2>6 DEF vars, IInv, TypeOK, RecordsAgree, RecordAgrees, OneRecord, ToldIsRecorded,
                  ToldFrom, Granted, KeyOf
  <2> QED BY <2>1, <2>2, <2>3, <2>4, <2>5, <2>6 DEF Next
<1> QED BY <1>1, <1>2, PTL DEF Spec

\* Of one request, all callers were told of the same decision by the same user.
THEOREM RequestDecidedOnce == Spec => []OneDecision
<1>1. IInv => OneDecision
  <2> SUFFICES ASSUME IInv, NEW t \in told, Granted(t)
               PROVE  /\ t.result = Decided(requests[t.call.request].decision)
                      /\ t.call.user = requests[t.call.request].by
      BY DEF OneDecision
  <2>1. PICK d \in decided : d.key = KeyOf(t.call) /\ d.result = t.result
      BY DEF IInv, ToldIsRecorded, ToldFrom, Granted, Outcomes
  <2>2. t.call \in Call
      BY DEF IInv, TypeOK
  <2> QED BY <2>1, <2>2, KeyType DEF IInv, RecordsAgree, RecordAgrees, Granted
<1> QED BY <1>1, RegistryInvariance, PTL

\* A retry is never told another outcome than the call before it.
THEOREM RetriesAlwaysAgree == Spec => []RetriesAgree
<1>1. IInv => RetriesAgree
    BY DEF IInv, RetriesAgree, ToldIsRecorded, ToldFrom, OneRecord
<1> QED BY <1>1, RegistryInvariance, PTL

-----------------------------------------------------------------------------
(* The jobs: the inductive invariant.                                      *)

Inodes == {0, 1}
Identities == Inodes \X Jobs!Marks
Contents == Inodes \X Nat
Disks == [path : Inodes, version : [Inodes -> Nat], mark : [Inodes -> Jobs!Marks]]
Members == {"child", "helper", "daemon"}
States == {"none", "runs"} \cup Jobs!Ended
Places == {"idle", "authorize", "stat", "open", "read", "check", "list", "send",
           "spawn", "poll", "wait", "join", "ok", "failed", "ended"}

Workers ==
    [pc : Places, seen : Identities \cup {<<>>}, handle : Inodes, chunks : SUBSET Contents,
     late : BOOLEAN, killed : {"no", "cancelled", "timed out"}]
Outputs == [holders : SUBSET Members, written : Nat, captured : Nat]
Trees == [child : States, helper : States, daemon : States]

WorkTypeOK ==
    /\ disk \in Disks /\ unseen \in BOOLEAN
    /\ proc \in Trees
    /\ output \in Outputs
    /\ work \in Workers

\* What is done is of the kind of the job.
DoesItsKind ==
    /\ work.pc \in {"stat", "open", "read", "check"} => Jobs!Kind \in Jobs!Reads
    /\ work.pc = "list" => Jobs!Kind \in Jobs!Lists
    /\ work.pc = "send" => Jobs!Kind \in Jobs!Web
    /\ work.pc \in {"spawn", "poll", "wait", "join", "ended"} => Jobs!Kind \in Jobs!Commands

\* As long as the open file shows what it showed at first, and no edit is hidden by that, all
\* its chunks are of the version it has.
ReadSoFar ==
    Jobs!Kind \in Jobs!Reads =>
        /\ work.pc \in {"stat", "ok"} /\ ~unseen => \A c, d \in work.chunks : c = d
        /\ work.pc \in {"authorize", "open"} => work.chunks = {}
        /\ work.pc \in {"open", "read", "check"} => work.seen \in Identities
        /\ work.pc \in {"read", "check"} =>
              /\ work.handle = work.seen[1]
              /\ ~unseen /\ disk.mark[work.handle] = work.seen[2] =>
                    work.chunks \subseteq {<<work.handle, disk.version[work.handle]>>}

\* Once killed, a command has no process of its group; a child that was waited for has
\* ended, and the readers that were joined have read all.
RanSoFar ==
    /\ work.pc \in {"authorize", "spawn", "poll"} => work.killed = "no"
    /\ Jobs!Kind \in Jobs!Commands =>
        /\ work.pc \in {"wait", "join", "ok", "ended"} /\ work.killed # "no" =>
              ~Jobs!IsRunning("child") /\ ~Jobs!IsRunning("helper")
        /\ work.pc \in {"join", "ok", "ended"} => proc.child \in Jobs!Ended
        /\ work.pc \in {"ok", "ended"} =>
              output.captured = output.written /\ output.holders = {}
        /\ work.pc = "ok" => proc.child = "zero"

JobsInv == WorkTypeOK /\ DoesItsKind /\ ReadSoFar /\ RanSoFar

\* An authorization binds what an offered approval says.
OfOffer(g) ==
    \E j \in Offers :
        LET a == j.envelope.approval IN
        /\ a.approved /\ g.nonce = a.nonce
        /\ g.binding = [lease |-> a.lease, workspace |-> a.workspace, input |-> a.input,
                        actor |-> a.actor]

Nonces == {j.envelope.nonce : j \in Offers}

\* Every authorization is of a job and of a gateway that are not later than the present ones,
\* and not of the job that waits for its own; the present gateway keeps the nonces of its.
BoundToOffers == \A g \in granted : OfOffer(g)

SpentSoFar == \A g \in granted :
    /\ g.job \in Nat /\ g.job <= job.number /\ g.gateway \in Nat
    /\ work.pc = "authorize" => g.job # job.number
    /\ g.gateway <= gateway.number
    /\ g.gateway = gateway.number => g.nonce \in gateway.used

GrantsInv ==
    /\ work.pc # "idle" => job.offer \in Offers
    /\ job.number \in Nat /\ gateway \in [number : Nat, used : SUBSET Nonces]
    /\ BoundToOffers /\ SpentSoFar
    /\ Jobs!NonceIsBoundAndSpent

-----------------------------------------------------------------------------
(* The jobs: types.                                                        *)

\* A worker that goes to another place changes nothing else.
LEMMA GotoType ==
    ASSUME WorkTypeOK, NEW pc \in Places, Jobs!Goto(pc)
    PROVE  /\ work' \in Workers
           /\ work'.pc = pc /\ work'.seen = work.seen /\ work'.handle = work.handle
           /\ work'.chunks = work.chunks /\ work'.killed = work.killed
  BY DEF WorkTypeOK, Workers, Outputs, Trees, Jobs!Goto

\* What a read compares is the inode and its mark, and what it reads is of a version.
LEMMA IdentityType ==
    ASSUME WorkTypeOK, NEW i \in Inodes
    PROVE  /\ Jobs!Identity(i) \in Identities
           /\ Jobs!Identity(i)[1] = i /\ Jobs!Identity(i)[2] = disk.mark[i]
           /\ Jobs!Content(i) \in Contents /\ Jobs!Content(i) = <<i, disk.version[i]>>
           /\ disk.path \in Inodes
  BY DEF WorkTypeOK, Disks, Jobs!Identity, Jobs!Content, Identities, Contents

\* The path leads to an inode, and every inode has a version and a mark.
LEMMA DiskType ==
    ASSUME WorkTypeOK
    PROVE  /\ disk.path \in Inodes /\ 1 - disk.path \in Inodes
           /\ disk.version \in [Inodes -> Nat] /\ disk.mark \in [Inodes -> Jobs!Marks]
           /\ \A i \in Inodes : disk.version[i] + 1 \in Nat
  BY DEF WorkTypeOK, Disks, Inodes

\* A job reads, lists, sends or runs a command, and no two of them.
LEMMA KindsDiffer ==
    ASSUME NEW kind
    PROVE  /\ ~(kind \in Jobs!Reads /\ kind \in Jobs!Commands)
           /\ ~(kind \in Jobs!Reads /\ kind \in Jobs!Lists)
           /\ ~(kind \in Jobs!Reads /\ kind \in Jobs!Web)
           /\ ~(kind \in Jobs!Lists /\ kind \in Jobs!Commands)
           /\ ~(kind \in Jobs!Web /\ kind \in Jobs!Commands)
  BY DEF Jobs!Reads, Jobs!Commands, Jobs!Lists, Jobs!Web, Jobs!Shells, Jobs!Gits, Jobs!Tools

\* A worker that opens a file, and one that reads a chunk of it.
LEMMA WorkMoves ==
    ASSUME WorkTypeOK, NEW pc \in Places, NEW i \in Inodes, NEW new \in SUBSET Contents
    PROVE  /\ LET w == [work EXCEPT !.pc = pc, !.handle = i] IN
              /\ w \in Workers
              /\ w.pc = pc /\ w.handle = i /\ w.seen = work.seen /\ w.chunks = work.chunks
              /\ w.killed = work.killed
           /\ LET w == [work EXCEPT !.chunks = new] IN
              /\ w \in Workers
              /\ w.pc = work.pc /\ w.handle = work.handle /\ w.seen = work.seen /\ w.chunks = new
              /\ w.killed = work.killed
  BY DEF WorkTypeOK, Workers, Outputs, Trees

\* Who holds the pipe, and how much was written and read.
LEMMA OutputType ==
    ASSUME WorkTypeOK
    PROVE  /\ output.holders \in SUBSET Members
           /\ output.written \in Nat /\ output.written + 1 \in Nat
           /\ output.captured \in Nat /\ output.captured + 1 \in Nat
  BY DEF WorkTypeOK, Outputs

\* What happens at the pipe keeps its type.
LEMMA OutputMoves ==
    ASSUME WorkTypeOK, NEW those \in SUBSET Members, NEW m \in Nat
    PROVE  /\ [output EXCEPT !.holders = those] \in Outputs
           /\ [output EXCEPT !.written = m] \in Outputs
           /\ [output EXCEPT !.captured = m] \in Outputs
           /\ [output EXCEPT !.captured = m].holders = output.holders
  BY DEF WorkTypeOK, Outputs

-----------------------------------------------------------------------------
(* The jobs: each step.                                                    *)

\* Before the first job there is nothing to say.
LEMMA InitJobs == ASSUME Jobs!Init PROVE JobsInv
  BY DEF Jobs!Init, JobsInv, WorkTypeOK, Workers, Outputs, Trees, DoesItsKind, ReadSoFar,
     RanSoFar, Jobs!Nowhere, Jobs!Disk, Disks, Jobs!Marks, Inodes, Contents, Jobs!NoProcess, Jobs!NoOutput,
     Members, States, Places

\* A new job begins without chunks, processes or output.
LEMMA LeaseStep == ASSUME JobsInv, Jobs!Lease PROVE JobsInv'
  BY DEF Jobs!Lease, Jobs!history, JobsInv, WorkTypeOK, Workers, Outputs, Trees, DoesItsKind,
     ReadSoFar, RanSoFar, Jobs!Nowhere, Jobs!Disk, Disks, Jobs!Marks, Inodes, Contents, Jobs!NoProcess, Jobs!NoOutput,
     Members, States, Places

\* An authorized job goes to the place of its kind.
LEMMA AuthorizeStep == ASSUME JobsInv, Jobs!Authorize PROVE JobsInv'
<1>1. PICK pc \in Places : 
      /\ Jobs!Goto(pc) 
      /\ \/ pc = "failed"
         \/ pc = "stat" /\ Jobs!Kind \in Jobs!Reads
         \/ pc = "list" /\ Jobs!Kind \in Jobs!Lists
         \/ pc = "send" /\ Jobs!Kind \in Jobs!Web
         \/ pc = "spawn" /\ Jobs!Kind \in Jobs!Commands
  BY DEF Jobs!Authorize, Jobs!Fail, Jobs!First, Jobs!Executes, Jobs!Kind, Places, Jobs!Commands
<1>2. work.pc = "authorize" /\ UNCHANGED <<disk, unseen, proc, output, job>>
  BY DEF Jobs!Authorize, Jobs!command
<1> QED BY <1>1, <1>2, GotoType DEF JobsInv, WorkTypeOK, Workers, Outputs, Trees, DoesItsKind,
           ReadSoFar, RanSoFar, Jobs!Kind

\* The steps of a read: a chunk is of the version at that moment, and the comparison at the
\* end shows that there was only one.
LEMMA ReadStep == ASSUME JobsInv, Jobs!Reading PROVE JobsInv'
<1> USE KindsDiffer DEF JobsInv, DoesItsKind, ReadSoFar, RanSoFar, Jobs!Kind
<1>0. UNCHANGED <<disk, proc, output, job>>
  BY DEF Jobs!Reading, Jobs!Stat, Jobs!OpenFile, Jobs!ReadChunk, Jobs!CheckRead,
     Jobs!ListDirectory, Jobs!HttpRequest, Jobs!Worker, Jobs!command
<1>1. CASE Jobs!Stat
  <2>1. /\ work'.pc = "open" /\ work'.seen = Jobs!Identity(disk.path) /\ work'.chunks = {}
        /\ work'.killed = work.killed /\ WorkTypeOK' /\ work.pc = "stat"
    BY <1>0, <1>1, IdentityType, DiskType DEF Jobs!Stat, WorkTypeOK, Workers, Outputs, Trees, Places
  <2> QED BY <1>0, <2>1, IdentityType, DiskType
<1>2. CASE Jobs!OpenFile
  <2>0. UNCHANGED unseen
    BY <1>2 DEF Jobs!OpenFile
  <2>1. CASE Jobs!Fail
    BY <1>0, <2>0, <2>1, GotoType DEF WorkTypeOK, Workers, Outputs, Trees, Places, Jobs!Fail
  <2>2. CASE Jobs!Identity(disk.path) = work.seen /\ ~Jobs!Fail
    <3>1. /\ work'.pc = "read" /\ work'.seen = work.seen /\ work'.chunks = work.chunks
          /\ work'.handle = disk.path
          /\ work'.killed = work.killed /\ WorkTypeOK' /\ work.pc = "open"
      <4>1. work' = [work EXCEPT !.pc = "read", !.handle = disk.path] /\ work.pc = "open"
        BY <1>2, <2>2 DEF Jobs!OpenFile
      <4>2. disk.path \in Inodes /\ "read" \in Places
        BY IdentityType DEF WorkTypeOK, Workers, Outputs, Trees, Places
      <4> HIDE DEF DoesItsKind, ReadSoFar, RanSoFar
      <4> QED BY <1>0, <2>0, <4>1, <4>2, WorkMoves DEF WorkTypeOK, Workers, Outputs, Trees
    <3>2. disk.path \in Inodes /\ work.seen \in Identities /\ work.seen[1] = disk.path
      BY <2>2, DiskType, IdentityType
    <3>3. work.chunks = {} \/ Jobs!Kind \notin Jobs!Reads
      BY <3>1
    <3> QED BY <1>0, <3>1, <3>2, <3>3
  <2> QED BY <1>2, <2>1, <2>2 DEF Jobs!OpenFile
<1>3. CASE Jobs!ReadChunk
  <2>0. UNCHANGED unseen
    BY <1>3 DEF Jobs!ReadChunk
  <2>1. CASE work' = [work EXCEPT !.chunks = @ \cup {Jobs!Content(work.handle)}]
    <3>1. /\ work'.pc = "read" /\ work'.seen = work.seen
          /\ work'.chunks = work.chunks \cup {Jobs!Content(work.handle)}
          /\ work'.handle = work.handle /\ work.handle \in Inodes
          /\ work'.killed = work.killed /\ WorkTypeOK' /\ work.pc = "read"
      <4>1. work.pc = "read" /\ work.handle \in Inodes /\ work.chunks \in SUBSET Contents
        BY <1>3 DEF Jobs!ReadChunk, WorkTypeOK, Workers, Outputs, Trees
      <4>2. work.chunks \cup {Jobs!Content(work.handle)} \in SUBSET Contents
        BY <4>1, IdentityType
      <4> HIDE DEF DoesItsKind, ReadSoFar, RanSoFar
      <4> QED BY <1>0, <2>0, <2>1, <4>1, <4>2, WorkMoves DEF WorkTypeOK, Workers, Outputs, Trees
    <3>2. Jobs!Content(work.handle) = <<work.handle, disk.version[work.handle]>>
      BY <3>1, IdentityType
    <3>3. ReadSoFar'
      BY <1>0, <2>0, <3>1, <3>2
    <3> QED BY <1>0, <3>1, <3>3
  <2>2. CASE Jobs!Goto("check")
    <3>1. /\ work'.pc = "check" /\ work'.seen = work.seen /\ work'.chunks = work.chunks
          /\ work'.handle = work.handle /\ work'.killed = work.killed
          /\ WorkTypeOK' /\ work.pc = "read"
      <4> HIDE DEF DoesItsKind, ReadSoFar, RanSoFar
      <4> QED BY <1>0, <2>0, <1>3, <2>2, GotoType DEF Jobs!ReadChunk, WorkTypeOK, Places
    <3> QED BY <1>0, <2>0, <3>1
  <2>3. CASE Jobs!Fail
    BY <1>0, <2>0, <1>3, <2>3, GotoType DEF Jobs!ReadChunk, WorkTypeOK, Workers, Outputs, Trees,
       Places, Jobs!Fail
  <2> QED BY <1>3, <2>1, <2>2, <2>3 DEF Jobs!ReadChunk
<1>4. CASE Jobs!CheckRead
  <2>0. UNCHANGED unseen
    BY <1>4 DEF Jobs!CheckRead
  <2>1. CASE Jobs!Identity(disk.path) = work.seen /\ (Jobs!Goto("stat") \/ Jobs!Goto("ok"))
    <3>1. ~unseen => \A c, d \in work.chunks : c = d
      <4>1. work.pc = "check" /\ Jobs!Kind \in Jobs!Reads
        BY <1>4 DEF Jobs!CheckRead
      <4>2. work.handle = work.seen[1] /\ disk.path = work.seen[1]
            /\ disk.mark[disk.path] = work.seen[2]
        BY <2>1, <4>1, DiskType, IdentityType
      <4> QED BY <4>1, <4>2
    <3>2. work.pc = "check" /\ WorkTypeOK'
      BY <1>0, <2>0, <1>4, <2>1, GotoType DEF Jobs!CheckRead, WorkTypeOK, Workers, Outputs, Trees,
         Places
    <3> QED BY <1>0, <2>0, <2>1, <3>1, <3>2, GotoType DEF Places
  <2>2. CASE Jobs!Fail
    BY <1>0, <2>0, <2>2, GotoType DEF WorkTypeOK, Workers, Outputs, Trees, Places, Jobs!Fail
  <2> QED BY <1>4, <2>1, <2>2 DEF Jobs!CheckRead
<1>5. CASE Jobs!ListDirectory \/ Jobs!HttpRequest
  BY <1>0, <1>5, GotoType DEF Jobs!ListDirectory, Jobs!HttpRequest, WorkTypeOK, Workers,
     Outputs, Trees, Places, Jobs!Fail
<1> QED BY <1>1, <1>2, <1>3, <1>4, <1>5 DEF Jobs!Reading

\* A command starts with its child alone.
LEMMA SpawnStep == ASSUME JobsInv, Jobs!Spawn PROVE JobsInv'
<1> USE KindsDiffer DEF JobsInv, DoesItsKind, ReadSoFar, RanSoFar, Jobs!Kind
<1>1. work.pc = "spawn" /\ UNCHANGED <<disk, unseen, job>>
  BY DEF Jobs!Spawn, Jobs!Worker
<1>2. CASE Jobs!Fail /\ UNCHANGED Jobs!command
  BY <1>1, <1>2, GotoType DEF WorkTypeOK, Workers, Outputs, Trees, Places, Jobs!Fail,
     Jobs!command
<1>3. CASE ~(Jobs!Fail /\ UNCHANGED Jobs!command)
  <2>1. PICK pc \in {"poll", "wait"} : Jobs!Goto(pc)
    BY <1>3 DEF Jobs!Spawn
  <2>2. /\ proc' = [Jobs!NoProcess EXCEPT !.child = "runs"]
        /\ output' = [Jobs!NoOutput EXCEPT !.holders = {"child"}]
    BY <1>3 DEF Jobs!Spawn
  <2>3. WorkTypeOK'
    BY <1>1, <2>1, <2>2, GotoType DEF WorkTypeOK, Workers, Outputs, Trees, Places,
       Jobs!NoProcess, Jobs!NoOutput, Members, States
  <2> QED BY <1>1, <2>1, <2>3, GotoType DEF Places
<1> QED BY <1>2, <1>3

\* kill_process_tree ends the group of the child.
LEMMA KillTreeFacts ==
    ASSUME WorkTypeOK, Jobs!KillTree
    PROVE  /\ proc' \in Trees
           /\ output' \in Outputs
           /\ ~Jobs!IsRunning("child")' /\ ~Jobs!IsRunning("helper")'
  <1>1. proc' \in Trees
           /\ ~Jobs!IsRunning("child")' /\ ~Jobs!IsRunning("helper")'
    BY DEF WorkTypeOK, Workers, Outputs, Trees, Jobs!KillTree, States, Jobs!Ended,
       Jobs!IsRunning
  <1>2. output' \in Outputs
    BY DEF WorkTypeOK, Workers, Outputs, Trees, Jobs!KillTree, Members
  <1> QED BY <1>1, <1>2

\* A command is killed with its group, or its child has ended.
LEMMA PollStep == ASSUME JobsInv, Jobs!Poll PROVE JobsInv'
<1> USE KindsDiffer DEF JobsInv, DoesItsKind, ReadSoFar, RanSoFar, Jobs!Kind
<1>1. work.pc = "poll" /\ UNCHANGED <<disk, unseen, job>>
  BY DEF Jobs!Poll, Jobs!Worker
<1>2. ASSUME NEW why \in {"cancelled", "timed out"}, Jobs!Stop(why) PROVE JobsInv'
  <2>1. /\ work'.pc = "wait" /\ work'.chunks = work.chunks
    BY <1>2 DEF Jobs!Stop, WorkTypeOK, Workers, Outputs, Trees
  <2>2. WorkTypeOK' /\ ~Jobs!IsRunning("child")' /\ ~Jobs!IsRunning("helper")'
    BY <1>1, <1>2, KillTreeFacts DEF Jobs!Stop, WorkTypeOK, Workers, Outputs, Trees, Places
  <2> QED BY <1>1, <2>1, <2>2
<1>3. CASE proc.child \in Jobs!Ended /\ Jobs!Goto("wait") /\ UNCHANGED Jobs!command
  BY <1>1, <1>3, GotoType DEF WorkTypeOK, Workers, Outputs, Trees, Places, Jobs!command
<1> QED BY <1>2, <1>3 DEF Jobs!Poll

\* A child that was waited for has ended.
LEMMA WaitStep == ASSUME JobsInv, Jobs!Wait PROVE JobsInv'
  BY KindsDiffer, GotoType DEF JobsInv, DoesItsKind, ReadSoFar, RanSoFar, Jobs!Kind, Jobs!Wait,
     Jobs!Worker, Jobs!command, WorkTypeOK, Workers, Outputs, Trees, Places, Jobs!IsRunning

\* Readers that were joined have read all, and nobody can write any more.
LEMMA JoinStep == ASSUME JobsInv, Jobs!Join PROVE JobsInv'
<1> USE KindsDiffer DEF JobsInv, DoesItsKind, ReadSoFar, RanSoFar, Jobs!Kind
<1>1. work.pc = "join" /\ Jobs!AtEnd /\ UNCHANGED <<disk, unseen, job, proc, output>>
  BY DEF Jobs!Join, Jobs!Worker, Jobs!command
<1>2. PICK pc \in {"ok", "ended", "failed"} : Jobs!Goto(pc) /\ (pc = "ok" => proc.child = "zero")
  BY DEF Jobs!Join, Jobs!Outcome, Jobs!ShellOutcome, Jobs!ToolOutcome, Jobs!GitOutcome,
     Jobs!DatabaseOutcome, Jobs!BrowserOutcome, Jobs!Succeeds
<1> QED BY <1>1, <1>2, GotoType DEF Jobs!AtEnd, WorkTypeOK, Workers, Outputs, Trees, Places,
           Jobs!IsRunning

\* A reader takes what was written and not yet read.
LEMMA CaptureStep == ASSUME JobsInv, Jobs!Capture PROVE JobsInv'
<1>1. output' \in Outputs
      /\ output'.holders = output.holders /\ output.captured # output.written
  <2>1. /\ output' = [output EXCEPT !.captured = output.captured + 1]
        /\ output.captured # output.written /\ output.captured + 1 \in Nat
    BY OutputType DEF Jobs!Capture, JobsInv
  <2> QED BY <2>1, OutputMoves DEF JobsInv
<1>2. UNCHANGED <<work, disk, unseen, proc, job>>
  BY DEF Jobs!Capture, Jobs!history
<1>3. WorkTypeOK' /\ DoesItsKind'
  BY <1>1, <1>2 DEF JobsInv, WorkTypeOK, Workers, Outputs, Trees, DoesItsKind, Jobs!Kind
<1>4. ReadSoFar'
  BY <1>2 DEF JobsInv, ReadSoFar, Jobs!Kind
<1>5. RanSoFar'
  BY <1>1, <1>2 DEF JobsInv, RanSoFar, Jobs!Kind, Jobs!IsRunning
<1> QED BY <1>3, <1>4, <1>5 DEF JobsInv

\* Time and the cancellation touch neither worker nor processes.
LEMMA ClockStep == ASSUME JobsInv, Jobs!Tick \/ Jobs!Cancel PROVE JobsInv'
  BY DEF JobsInv, DoesItsKind, ReadSoFar, RanSoFar, Jobs!Kind, Jobs!Tick, Jobs!Cancel,
     WorkTypeOK, Workers, Outputs, Trees, Jobs!IsRunning, Jobs!command, Jobs!history

\* The deadline is noted.
LEMMA DeadlineStep == ASSUME JobsInv, Jobs!Deadline PROVE JobsInv'
<1>1. /\ work' \in Workers
      /\ work'.pc = work.pc /\ work'.seen = work.seen /\ work'.handle = work.handle
      /\ work'.chunks = work.chunks /\ work'.killed = work.killed
  BY DEF JobsInv, WorkTypeOK, Workers, Outputs, Trees, Jobs!Deadline
<1>2. UNCHANGED <<disk, unseen, proc, output, job>>
  BY DEF Jobs!Deadline, Jobs!command, Jobs!history
<1>3. WorkTypeOK'
  BY <1>1, <1>2 DEF JobsInv, WorkTypeOK, Workers, Outputs, Trees
<1>4. DoesItsKind' /\ RanSoFar'
  BY <1>1, <1>2 DEF JobsInv, DoesItsKind, RanSoFar, Jobs!Kind, Jobs!IsRunning
<1>5. ReadSoFar'
  BY <1>1, <1>2 DEF JobsInv, ReadSoFar, Jobs!Kind
<1> QED BY <1>3, <1>4, <1>5 DEF JobsInv

\* An edit makes a new version of an inode or puts another one at the path.  One in place
\* changes the mark of the open file, or is noted.
LEMMA EditStep == ASSUME JobsInv, Jobs!Edit PROVE JobsInv'
<1>1. UNCHANGED <<work, proc, output, job>>
  BY DEF Jobs!Edit, Jobs!command
<1>2. WorkTypeOK /\ disk \in Disks /\ unseen \in BOOLEAN
  BY DEF JobsInv, WorkTypeOK
<1>3. DoesItsKind' /\ RanSoFar'
  BY <1>1 DEF JobsInv, DoesItsKind, RanSoFar, Jobs!Kind, Jobs!IsRunning
<1>4. CASE Jobs!EditInPlace
  <2>1. PICK m \in Jobs!Marks :
          /\ disk' = [disk EXCEPT !.version[disk.path] = @ + 1, !.mark[disk.path] = m]
          /\ unseen' = (unseen \/ (work.pc \in {"read", "check"} /\ <<disk.path, m>> = work.seen))
    BY <1>4 DEF Jobs!EditInPlace
  <2> DEFINE version == [disk.version EXCEPT ![disk.path] = disk.version[disk.path] + 1]
             mark == [disk.mark EXCEPT ![disk.path] = m]
  <2>2. version \in [Inodes -> Nat] /\ mark \in [Inodes -> Jobs!Marks]
    BY <1>2, DiskType
  <2>3. disk' = [path |-> disk.path, version |-> version, mark |-> mark]
    BY <1>2, <2>1 DEF Disks
  <2>4. disk' \in Disks /\ unseen' \in BOOLEAN
    <3>1. disk' \in Disks
      BY <1>2, <2>2, <2>3, DiskType DEF Disks
    <3>2. unseen' \in BOOLEAN
      BY <2>1
    <3> QED BY <3>1, <3>2
  <2>5. WorkTypeOK'
    BY <1>1, <1>2, <2>4 DEF WorkTypeOK
  <2>6. ReadSoFar'
    <3> SUFFICES ASSUME Jobs!Kind \in Jobs!Reads, work.pc \in {"read", "check"}, ~unseen',
                        mark[work.handle] = work.seen[2]
                 PROVE  work.chunks \subseteq {<<work.handle, version[work.handle]>>}
      <4>1. unseen => unseen'
        BY <2>1
      <4> HIDE DEF version, mark
      <4> QED BY <1>1, <2>3, <4>1 DEF JobsInv, ReadSoFar, Jobs!Kind
    <3>1. ~unseen /\ <<disk.path, m>> # work.seen
      BY <2>1
    <3>2. work.seen \in Identities /\ work.handle = work.seen[1] /\ work.handle \in Inodes
      BY DEF JobsInv, ReadSoFar, WorkTypeOK, Workers
    <3>3. work.handle # disk.path
      <4>1. work.handle = disk.path => m = work.seen[2]
        BY <1>2, DiskType
      <4>2. work.seen = <<work.handle, work.seen[2]>>
        BY <3>2 DEF Identities
      <4> QED BY <3>1, <4>1, <4>2
    <3>4. version[work.handle] = disk.version[work.handle]
          /\ mark[work.handle] = disk.mark[work.handle]
      BY <1>2, <3>2, <3>3, DiskType
    <3> QED BY <3>1, <3>4 DEF JobsInv, ReadSoFar
  <2> QED BY <1>3, <2>5, <2>6 DEF JobsInv
<1>5. CASE disk' = [disk EXCEPT !.path = 1 - @] /\ UNCHANGED unseen
  <2>1. disk' \in Disks /\ disk'.version = disk.version /\ disk'.mark = disk.mark
    BY <1>2, <1>5, DiskType DEF Disks
  <2>2. WorkTypeOK'
    BY <1>1, <1>2, <1>5, <2>1 DEF WorkTypeOK
  <2>3. ReadSoFar'
    BY <1>1, <1>5, <2>1 DEF JobsInv, ReadSoFar, Jobs!Kind
  <2> QED BY <1>3, <2>2, <2>3 DEF JobsInv
<1> QED BY <1>4, <1>5 DEF Jobs!Edit

\* What the processes of a command do: the job and its worker stay, one that ended stays
\* ended, only a process of the group makes others, and without a holder nothing is written.
LEMMA ProcessFacts ==
    ASSUME WorkTypeOK, Jobs!Fork \/ Jobs!Write \/ Jobs!CloseOutput \/ Jobs!Exit
    PROVE  /\ UNCHANGED <<disk, unseen, work, job>>
           /\ proc' \in Trees
           /\ output' \in Outputs
           /\ proc.child \in Jobs!Ended => proc'.child = proc.child
           /\ ~Jobs!IsRunning("child") /\ ~Jobs!IsRunning("helper") =>
                 ~Jobs!IsRunning("child")' /\ ~Jobs!IsRunning("helper")'
           /\ output.holders = {} => UNCHANGED output
<1>1. CASE Jobs!Fork
  <2>1. PICK f \in {"child", "helper"}, p \in {"helper", "daemon"} :
            /\ proc[f] = "runs" /\ proc[p] = "none"
            /\ proc' = [proc EXCEPT ![p] = "runs"]
            /\ output' = [output EXCEPT !.holders =
                             IF f \in output.holders THEN output.holders \cup {p}
                             ELSE output.holders]
            /\ UNCHANGED <<disk, unseen, work, job>>
    BY <1>1 DEF Jobs!Fork, Jobs!Others, Jobs!history, Jobs!IsRunning
  <2>2. (IF f \in output.holders THEN output.holders \cup {p} ELSE output.holders)
            \in SUBSET Members
    BY OutputType DEF Members
  <2>3. output' \in Outputs
    BY <2>1, <2>2, OutputMoves
  <2>4. output.holders = {} => output' = output
    BY <2>1 DEF WorkTypeOK, Outputs
  <2>5. proc' \in Trees
        /\ proc'.child = proc.child
    BY <2>1 DEF WorkTypeOK, Workers, Outputs, Trees, States
  <2> QED BY <2>1, <2>3, <2>4, <2>5 DEF Jobs!IsRunning
<1>2. CASE Jobs!Write
  <2>1. output' = [output EXCEPT !.written = output.written + 1] /\ output.holders # {}
        /\ UNCHANGED <<disk, unseen, work, job, proc>>
    BY <1>2 DEF Jobs!Write, Jobs!Others, Jobs!history
  <2>2. output' \in Outputs
    <3>1. output.written + 1 \in Nat
      BY OutputType
    <3> QED BY <2>1, <3>1, OutputMoves
  <2> QED BY <2>1, <2>2 DEF WorkTypeOK, Workers, Outputs, Trees, Jobs!IsRunning
<1>3. CASE Jobs!CloseOutput
  <2>1. PICK p \in output.holders : output' = [output EXCEPT !.holders = output.holders \ {p}]
    BY <1>3 DEF Jobs!CloseOutput
  <2>2. output' \in Outputs
    BY <2>1, OutputType, OutputMoves
  <2>3. UNCHANGED <<disk, unseen, work, job, proc>>
    BY <1>3 DEF Jobs!CloseOutput, Jobs!Others, Jobs!history
  <2> QED BY <2>1, <2>2, <2>3 DEF WorkTypeOK, Workers, Outputs, Trees, Jobs!IsRunning
<1>4. CASE Jobs!Exit
  <2>1. PICK p \in Members, how \in Jobs!Ended :
            /\ proc[p] = "runs" /\ proc' = [proc EXCEPT ![p] = how]
            /\ output' = [output EXCEPT !.holders = output.holders \ {p}]
            /\ UNCHANGED <<disk, unseen, work, job>>
    BY <1>4 DEF Jobs!Exit, Jobs!Others, Jobs!history, Jobs!IsRunning, WorkTypeOK, Workers, Outputs, Trees,
       Members
  <2>2. output' \in Outputs
    BY <2>1, OutputType, OutputMoves
  <2>3. output.holders = {} => output' = output
    BY <2>1 DEF WorkTypeOK, Outputs
  <2>4. proc' \in Trees
    BY <2>1 DEF WorkTypeOK, Workers, Outputs, Trees, States
  <2>5. \A m \in Members : proc'[m] = IF m = p THEN how ELSE proc[m]
    BY <2>1 DEF WorkTypeOK, Workers, Outputs, Trees, Members
  <2> QED BY <2>1, <2>2, <2>3, <2>4, <2>5 DEF Jobs!IsRunning, Jobs!Ended, Members
<1> QED BY <1>1, <1>2, <1>3, <1>4

\* What the processes of the command do keeps the invariant.
LEMMA ProcessStep ==
    ASSUME JobsInv, Jobs!Fork \/ Jobs!Write \/ Jobs!CloseOutput \/ Jobs!Exit
    PROVE  JobsInv'
<1>1. WorkTypeOK'
  BY ProcessFacts DEF JobsInv, WorkTypeOK, Workers, Outputs, Trees
<1> QED BY <1>1, ProcessFacts DEF JobsInv, DoesItsKind, ReadSoFar, RanSoFar, Jobs!Kind

\* The jobs in behaviours of their own.
LEMMA JobsNext == ASSUME JobsInv, [Jobs!Next]_jobs PROVE JobsInv'
<1>1. CASE Jobs!Next
  BY <1>1, LeaseStep, AuthorizeStep, ReadStep, SpawnStep, PollStep, WaitStep, JoinStep,
     CaptureStep, ClockStep, DeadlineStep, EditStep, ProcessStep
     DEF Jobs!Next, Jobs!Running
<1>2. CASE UNCHANGED jobs
  <2>1. UNCHANGED <<job, work, disk, unseen, proc, output>>
    BY <1>2 DEF jobs
  <2>2. WorkTypeOK' /\ DoesItsKind'
    BY <2>1 DEF JobsInv, WorkTypeOK, Workers, Outputs, Trees, DoesItsKind, Jobs!Kind
  <2>3. ReadSoFar' /\ RanSoFar'
    BY <2>1 DEF JobsInv, ReadSoFar, RanSoFar, Jobs!Kind, Jobs!IsRunning
  <2> QED BY <2>2, <2>3 DEF JobsInv
<1> QED BY <1>1, <1>2

\* What was granted is bound to the approval of the leased job, and spent in its gateway.
LEMMA AuthorizeGrants == ASSUME JobsInv, GrantsInv, Jobs!Authorize PROVE GrantsInv'
<1> DEFINE j == job.offer
           new == [job |-> job.number, gateway |-> gateway.number, nonce |-> j.envelope.nonce,
                   binding |-> Jobs!Binding(j)]
<1>1. work.pc = "authorize" /\ job' = job /\ j \in Offers
  BY DEF Jobs!Authorize, GrantsInv
<1>2. work'.pc # "authorize" /\ work'.pc # "idle"
  BY DEF Jobs!Authorize, Jobs!Goto, Jobs!Fail, Jobs!First, JobsInv, WorkTypeOK, Workers
<1>3. CASE UNCHANGED <<gateway, granted>>
  BY <1>1, <1>2, <1>3 DEF GrantsInv, BoundToOffers, OfOffer, SpentSoFar,
     Jobs!NonceIsBoundAndSpent
<1>4. CASE /\ Jobs!ApprovalCovers(j) /\ j.envelope.nonce \notin gateway.used
           /\ Jobs!Spend(j.envelope.nonce) /\ granted' = granted \cup {new}
  <2>1. gateway'.number = gateway.number /\ gateway'.used = gateway.used \cup {new.nonce}
        /\ gateway' \in [number : Nat, used : SUBSET Nonces]
    BY <1>1, <1>4 DEF Jobs!Spend, GrantsInv, Nonces
  <2>2. OfOffer(new)
    BY <1>1, <1>4 DEF OfOffer, Jobs!ApprovalCovers, Jobs!Binding
  <2>3. ASSUME NEW g \in granted, g.nonce = new.nonce
        PROVE  g.job # new.job /\ g.gateway # new.gateway /\ g.binding = new.binding
    <3>1. g.job # new.job /\ g.gateway # new.gateway
      BY <1>1, <1>4, <2>3 DEF GrantsInv, SpentSoFar
    <3>2. OfOffer(g)
      BY DEF GrantsInv, BoundToOffers
    <3>3. PICK k \in Offers :
            LET a == k.envelope.approval IN
            /\ a.approved /\ g.nonce = a.nonce
            /\ g.binding = [lease |-> a.lease, workspace |-> a.workspace, input |-> a.input,
                            actor |-> a.actor]
      BY <3>2 DEF OfOffer
    <3>4. PICK l \in Offers :
            LET a == l.envelope.approval IN
            /\ a.approved /\ new.nonce = a.nonce
            /\ new.binding = [lease |-> a.lease, workspace |-> a.workspace, input |-> a.input,
                              actor |-> a.actor]
      BY <2>2 DEF OfOffer
    <3>5. /\ k.envelope.approval.lease = l.envelope.approval.lease
          /\ k.envelope.approval.workspace = l.envelope.approval.workspace
          /\ k.envelope.approval.input = l.envelope.approval.input
          /\ k.envelope.approval.actor = l.envelope.approval.actor
      BY <2>3, <3>3, <3>4, ApprovalAssumption
    <3> QED BY <3>1, <3>3, <3>4, <3>5
  <2>4. Jobs!NonceIsBoundAndSpent'
    BY <1>4, <2>3 DEF GrantsInv, Jobs!NonceIsBoundAndSpent
  <2>5. BoundToOffers'
    BY <1>4, <2>2 DEF GrantsInv, BoundToOffers, OfOffer
  <2>6. new.job \in Nat /\ new.job = job.number /\ new.gateway = gateway.number
        /\ gateway.number \in Nat
    BY DEF GrantsInv
  <2>7. SpentSoFar'
    <3> SUFFICES ASSUME NEW g \in granted'
                 PROVE  /\ g.job \in Nat /\ g.job <= job.number /\ g.gateway \in Nat
                        /\ g.gateway <= gateway.number
                        /\ g.gateway = gateway.number => g.nonce \in gateway.used \cup {new.nonce}
      BY <1>1, <1>2, <2>1 DEF SpentSoFar
    <3>1. CASE g \in granted
      BY <3>1 DEF GrantsInv, SpentSoFar
    <3>2. CASE g = new
      BY <2>6, <3>2
    <3> HIDE DEF new
    <3> QED BY <1>4, <3>1, <3>2
  <2>8. job'.number \in Nat /\ (work'.pc # "idle" => job'.offer \in Offers)
    BY <1>1 DEF GrantsInv
  <2> QED BY <2>1, <2>4, <2>5, <2>7, <2>8 DEF GrantsInv
<1> QED BY <1>3, <1>4 DEF Jobs!Authorize

\* The next job is another, and has the gateway of the one before or a new one.
LEMMA LeaseGrants == ASSUME GrantsInv, Jobs!Lease PROVE GrantsInv'
<1>1. PICK j \in Offers : job' = [number |-> job.number + 1, offer |-> j]
  BY DEF Jobs!Lease
<1>2. \/ gateway' = gateway
      \/ gateway' = [number |-> gateway.number + 1, used |-> {}]
  BY DEF Jobs!Lease
<1>3. UNCHANGED granted
  BY DEF Jobs!Lease, Jobs!history
<1>4. Jobs!NonceIsBoundAndSpent'
  BY <1>3 DEF GrantsInv, Jobs!NonceIsBoundAndSpent
<1>5. job'.number = job.number + 1 /\ job'.offer \in Offers /\ job.number \in Nat
  BY <1>1 DEF GrantsInv
<1>6. /\ gateway' \in [number : Nat, used : SUBSET Nonces]
      /\ gateway.number \in Nat /\ gateway.number <= gateway'.number
      /\ gateway'.number = gateway.number => gateway'.used = gateway.used
  BY <1>2 DEF GrantsInv
<1>7. \A g \in granted :
          /\ g.job \in Nat /\ g.job < job'.number /\ g.gateway \in Nat
          /\ g.gateway <= gateway'.number
          /\ g.gateway = gateway'.number => g.nonce \in gateway'.used
  BY <1>5, <1>6 DEF GrantsInv, SpentSoFar
<1>8. SpentSoFar'
  <2> SUFFICES ASSUME NEW g \in granted
               PROVE  /\ g.job \in Nat /\ g.job <= job'.number /\ g.job # job'.number
                      /\ g.gateway \in Nat /\ g.gateway <= gateway'.number
                      /\ g.gateway = gateway'.number => g.nonce \in gateway'.used
    BY <1>3 DEF SpentSoFar
  <2> QED BY <1>5, <1>7
<1>9. BoundToOffers'
  BY <1>3 DEF GrantsInv, BoundToOffers, OfOffer
<1> QED BY <1>4, <1>5, <1>6, <1>8, <1>9 DEF GrantsInv

\* Nothing else grants, or makes a worker wait for an authorization.
LEMMA GrantsNext == ASSUME JobsInv, GrantsInv, [Jobs!Next]_jobs PROVE GrantsInv'
<1>1. CASE UNCHANGED <<job, gateway, granted>> /\ (work'.pc = work.pc \/ work'.pc \notin {"idle", "authorize"})
           /\ (work.pc = "idle" => work'.pc = "idle")
  BY <1>1 DEF GrantsInv, BoundToOffers, OfOffer, SpentSoFar, Jobs!NonceIsBoundAndSpent
<1>2. UNCHANGED <<job, gateway, granted>> \/ Jobs!Authorize \/ Jobs!Lease
  BY DEF Jobs!Next, Jobs!Reading, Jobs!Stat, Jobs!OpenFile, Jobs!ReadChunk, Jobs!CheckRead,
     Jobs!ListDirectory, Jobs!HttpRequest, Jobs!Running, Jobs!Spawn, Jobs!Poll, Jobs!Wait,
     Jobs!Join, Jobs!Capture, Jobs!Tick, Jobs!Deadline, Jobs!Cancel, Jobs!Edit, Jobs!Fork,
     Jobs!Write, Jobs!CloseOutput, Jobs!Exit, Jobs!Worker, Jobs!Others, Jobs!history, jobs
<1>3. work.pc = "idle" => work' = work \/ Jobs!Lease
  BY DEF Jobs!Next, Jobs!Authorize, Jobs!Reading, Jobs!Stat, Jobs!OpenFile, Jobs!ReadChunk,
     Jobs!CheckRead, Jobs!ListDirectory, Jobs!HttpRequest, Jobs!Running, Jobs!Spawn, Jobs!Poll,
     Jobs!Wait, Jobs!Join, Jobs!Capture, Jobs!Tick, Jobs!Deadline, Jobs!Cancel, Jobs!Edit,
     Jobs!Fork, Jobs!Write, Jobs!CloseOutput, Jobs!Exit, Jobs!Others, jobs
<1>4. \/ Jobs!Authorize \/ Jobs!Lease
      \/ work'.pc = work.pc \/ work'.pc \notin {"idle", "authorize"}
  <2>1. CASE Jobs!Reading \/ Jobs!Running
    BY <2>1 DEF JobsInv, WorkTypeOK, Workers, Jobs!Reading, Jobs!Stat, Jobs!OpenFile,
       Jobs!ReadChunk, Jobs!CheckRead, Jobs!ListDirectory, Jobs!HttpRequest, Jobs!Running,
       Jobs!Spawn, Jobs!Poll, Jobs!Wait, Jobs!Join, Jobs!Goto, Jobs!Fail, Jobs!Stop,
       Jobs!Outcome, Jobs!ShellOutcome, Jobs!ToolOutcome, Jobs!GitOutcome,
       Jobs!DatabaseOutcome, Jobs!BrowserOutcome
  <2>2. CASE ~(Jobs!Reading \/ Jobs!Running)
    BY <2>2 DEF JobsInv, WorkTypeOK, Workers, Jobs!Next, Jobs!Capture, Jobs!Tick,
       Jobs!Deadline, Jobs!Cancel, Jobs!Edit, Jobs!Fork, Jobs!Write, Jobs!CloseOutput,
       Jobs!Exit, Jobs!Others, jobs
  <2> QED BY <2>1, <2>2
<1> QED BY <1>1, <1>2, <1>3, <1>4, AuthorizeGrants, LeaseGrants

-----------------------------------------------------------------------------
(* The jobs: the theorems.                                                 *)

\* Whatever component the behaviour is of, the jobs keep their invariant.
THEOREM JobsInvariance == SumSpec => [](JobsInv /\ GrantsInv)
<1>1. SumInit => JobsInv /\ GrantsInv
  <2>1. Jobs!Init => GrantsInv
    BY DEF Jobs!Init, GrantsInv, BoundToOffers, SpentSoFar, Jobs!Nowhere,
       Jobs!NonceIsBoundAndSpent
  <2> QED BY <2>1, InitJobs DEF SumInit
<1>2. JobsInv /\ GrantsInv /\ [SumNext]_<<component, registry, jobs, advice>>
          => (JobsInv /\ GrantsInv)'
  <2>1. [SumNext]_<<component, registry, jobs, advice>> => [Jobs!Next]_jobs
    BY DEF SumNext
  <2> QED BY <2>1, JobsNext, GrantsNext
<1> QED BY <1>1, <1>2, PTL DEF SumSpec

\* A gateway accepts a nonce for one job, and another gateway for another job of the same
\* lease version, input, workspace and actor only (policy.rs, authorize; approval.rs,
\* validate_approval_binding), whatever jobs are offered in whatever order.
THEOREM NoncesAreBoundAndSpent == SumSpec => []NonceIsBoundAndSpent
<1>1. GrantsInv => NonceIsBoundAndSpent
  BY DEF GrantsInv, NonceIsBoundAndSpent
<1> QED BY <1>1, JobsInvariance, PTL

\* What a read returns is one version of the file, however it is edited or replaced while
\* it is read (local_capabilities.rs, fs_read), unless an edit left no trace in what the
\* file's metadata show.
THEOREM ReadsAreOfOneVersion == SumSpec => []ReadsOneVersion
<1>1. JobsInv => ReadsOneVersion
  BY DEF JobsInv, ReadSoFar, ReadsOneVersion, Jobs!ReadsOneVersion
<1> QED BY <1>1, JobsInvariance, PTL

\* A command that was cancelled or timed out leaves nothing of its process group, what is
\* reported of a command is all that it wrote, and a success is a child that ended with 0
\* (local_capabilities.rs, shell_exec_with_working_directory).
THEOREM CommandResultsAreTrue == SumSpec => []CommandResultIsTrue
<1>1. JobsInv => CommandResultIsTrue
  BY DEF JobsInv, RanSoFar, CommandResultIsTrue, Jobs!CommandResultIsTrue
<1> QED BY <1>1, JobsInvariance, PTL
=============================================================================
