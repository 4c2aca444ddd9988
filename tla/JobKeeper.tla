----------------------------- MODULE JobKeeper -----------------------------
(***************************************************************************)
(* The job keeper (job_keeper.py): the thread of each coordinator that,    *)
(* while its coordinator leads, keeps one Flink job running.  It reads the *)
(* record znode, lists Flink's jobs and asks about each, decides, cancels  *)
(* superseded jobs, writes its decision (fenced on the epoch and on the    *)
(* record's version), and only then submits a new generation.              *)
(*                                                                         *)
(* Each call to ZooKeeper or Flink is a step, so a keeper may be paused,   *)
(* deposed or killed between any two.  Leadership is what Leadership.tla   *)
(* describes, reduced to what the keeper sees of it: the tenure it serves  *)
(* and may_work.                                                           *)
(***************************************************************************)
EXTENDS Naturals

CONSTANTS
    Keepers,        \* the coordinators' keeper threads
    NoId,           \* the job_id of an attempt without one
    MaxGeneration,  \* bound: generations of the job
    MaxEpoch,       \* bound: epochs claimed
    MaxFaults       \* bound: suspensions, retirements, crashes, lost writes

ASSUME KeeperAssumption ==
    /\ MaxGeneration \in Nat
    /\ MaxEpoch \in Nat
    /\ MaxFaults \in Nat
    /\ NoId \notin (1..MaxGeneration) \X (1..2)

\* A job is named by its generation and by which run of the submission command
\* for that generation started it.
Generations == 1..MaxGeneration
Jobs == Generations \X (1..2)

\* The record: its generation, whether failures > 0, and per generation no
\* attempt ({}), one without an id ({NoId}) or one with ({j}).
Attempts == {{}, {NoId}} \cup {{j} : j \in Jobs}
Records ==
    [generation : 0..MaxGeneration, failing : BOOLEAN,
     attempts : [Generations -> Attempts]]
FirstRecord ==
    [generation |-> 0, failing |-> FALSE,
     attempts |-> [g \in Generations |-> {}]]

Recorded(r) == (UNION {r.attempts[g] : g \in Generations}) \ {NoId}

VARIABLES
    \* ZooKeeper
    epoch,
    record,
    recordEpoch,    \* the record's epoch field, 0 before the first write
    upToDate,       \* keepers whose last read or write of the record is current
    unconfirmed,    \* writes timed out that may still be applied
    \* Flink
    job,            \* each job's state, "none" before its submission runs
    \* one per coordinator: what lead() tells its keeper
    tenure,         \* epoch of the tenure served, 0 for none
    active,         \* not retired
    mayWork,        \* Leadership.may_work
    \* one per keeper thread, in cycle()
    pc,
    serving,        \* epoch of the cycle's tenure, and of the never's
    read,           \* the record as read, then as planned, then as written
    cancel,         \* superseded jobs to cancel
    submit,         \* the generation to submit, 0 for none
    never,          \* Memory.never_submitted
    faults

zookeeper == <<epoch, record, recordEpoch, upToDate, unconfirmed>>
owner     == <<tenure, active, mayWork>>
local     == <<read, cancel, submit>>
vars      == <<zookeeper, job, owner, pc, serving, local, never, faults>>

Init ==
    /\ epoch = 0
    /\ record = FirstRecord
    /\ recordEpoch = 0
    /\ upToDate = {}
    /\ unconfirmed = {}
    /\ job = [j \in Jobs |-> "none"]
    /\ tenure = [k \in Keepers |-> 0]
    /\ active = [k \in Keepers |-> FALSE]
    /\ mayWork = [k \in Keepers |-> TRUE]
    /\ pc = [k \in Keepers |-> "idle"]
    /\ serving = [k \in Keepers |-> 0]
    /\ read = [k \in Keepers |-> FirstRecord]
    /\ cancel = [k \in Keepers |-> {}]
    /\ submit = [k \in Keepers |-> 0]
    /\ never = [k \in Keepers |-> {}]
    /\ faults = 0

----------------------------------------------------------------------------
(* A decision, as a function of what was read and asked.                   *)

\* Attempts without an id gain one when exactly one job carries the name.
\* (The jobs asked about of a generation without an id are those listed.)
Named(attempts, asked) ==
    [g \in Generations |->
        IF /\ attempts[g] = {NoId}
           /\ \E j \in asked : asked \cap ({g} \X (1..2)) = {j}
        THEN asked \cap ({g} \X (1..2))
        ELSE attempts[g]]

\* Of superseded generations, the attempts whose job is known to have stopped
\* are dropped.  Unknown is never absent.
Dropped(attempts, current, said) ==
    [g \in Generations |->
        IF g < current /\ \E j \in attempts[g] \ {NoId} : said[j] = "stopped"
        THEN {} ELSE attempts[g]]

\* The current attempt is not owed if this tenure knows it never called Flink.
Disowned(attempts, current, marks) ==
    [g \in Generations |->
        IF g = current /\ attempts[g] = {NoId} /\ g \in marks
        THEN {} ELSE attempts[g]]

\* Mutant: the current generation counts as superseded.
Superseded_current(asked, current) == {j \in asked : j[1] <= current}

\* The jobs older than the record's generation.
Superseded(asked, current) == {j \in asked : j[1] < current}

\* Mutant: a lookup that failed is taken for an absent job.
Gone_whenUnknown(state) == state # {} /\ state # {"live"}

\* The current job is gone only if its lookup said so.
Gone(state) == state = {"stopped"}

\* Mutant: an attempt never heard of is waited for for ever.
Stopped_waits(entry, state, waited) == entry = {} \/ Gone(state)

\* There is no current job: none is owed, or it is gone, or its submission was
\* never heard of for as long as it could be under way.
Stopped(entry, state, waited) ==
    entry = {} \/ Gone(state) \/ (entry = {NoId} /\ waited)

\* decide().  Time is left open: `waited` says that the wait this decision turns
\* on is over: the uncertainty window of an attempt without an id, the backoff
\* after failures, or the minute after which a running job counts as healthy.
\* What was said of a job is "live", "cancelling", "stopped", or "unknown" when
\* the lookup failed.
Decide(r, said, marks, waited) ==
    LET current  == r.generation
        asked    == DOMAIN said
        attempts == Disowned(Dropped(Named(r.attempts, asked), current, said),
                             current, marks)
        entry    == IF current = 0 THEN {} ELSE attempts[current]
        state    == {said[j] : j \in entry \ {NoId}}
        go       == /\ Stopped(entry, state, waited)
                    /\ r.failing => waited
                    /\ current < MaxGeneration
        healthy  == state = {"live"} /\ waited
    IN  [cancel |-> {j \in Superseded(asked, current) : said[j] = "live"},
         submit |-> IF go THEN current + 1 ELSE 0,
         record |->
            [generation |-> IF go THEN current + 1 ELSE current,
             failing |-> IF go THEN current >= 1 ELSE r.failing /\ ~healthy,
             attempts |->
                [g \in Generations |->
                    CASE go /\ g = current + 1 -> {NoId}
                      [] go /\ Gone(state) /\ g = current -> {}
                      [] OTHER -> attempts[g]]]]

----------------------------------------------------------------------------
(* One cycle of a keeper.                                                  *)

\* Keeper._check: still this tenure's, and leadership known.
Check(k) == serving[k] = tenure[k] /\ active[k] /\ mayWork[k]

Goto(k, label) == pc' = [pc EXCEPT ![k] = label]

\* The cycle is over, and what it read is forgotten.
Finish(k) ==
    /\ Goto(k, "idle")
    /\ read' = [read EXCEPT ![k] = FirstRecord]
    /\ cancel' = [cancel EXCEPT ![k] = {}]
    /\ submit' = [submit EXCEPT ![k] = 0]

Forget(k) == upToDate' = upToDate \ {k}

\* _run, and the record read that begins cycle().  A tenure not seen before
\* gets a fresh memory.
Begin(k) ==
    /\ pc[k] = "idle"
    /\ tenure[k] # 0 /\ active[k] /\ mayWork[k]
    /\ serving' = [serving EXCEPT ![k] = tenure[k]]
    /\ never' = [never EXCEPT ![k] =
                     IF serving[k] = tenure[k] THEN @ ELSE {}]
    /\ read' = [read EXCEPT ![k] = record]
    /\ upToDate' = upToDate \cup {k}
    /\ Goto(k, "look")
    /\ UNCHANGED <<epoch, record, recordEpoch, unconfirmed, job, owner>>
    /\ UNCHANGED <<cancel, submit, faults>>

\* A check fails: Interrupted ends the cycle.
Interrupt(k) ==
    /\ \/ pc[k] \in {"look", "write", "note", "strike"}
       \/ pc[k] = "tidy" /\ cancel[k] # {}
    /\ ~Check(k)
    /\ Finish(k) /\ Forget(k)
    /\ UNCHANGED <<epoch, record, recordEpoch, unconfirmed, job, owner>>
    /\ UNCHANGED <<serving, never, faults>>

\* No listing, or one with a generation above the record's: nothing decided.
Undecided(k) ==
    /\ pc[k] = "look" /\ Check(k)
    /\ Finish(k) /\ Forget(k)
    /\ UNCHANGED <<epoch, record, recordEpoch, unconfirmed, job, owner>>
    /\ UNCHANGED <<serving, never, faults>>

\* job_state, asked of one job: RUNNING, and every state on the way there or
\* back, is "live"; a terminal state, or not found, is "stopped".
Says(j) ==
    CASE job[j] = "live" -> "live"
      [] job[j] = "cancelling" -> "cancelling"
      [] OTHER -> "stopped"

\* The jobs of the name that a listing may show and the record has no id of.
Listable(k) ==
    {j \in Jobs \ Recorded(read[k]) :
        job[j] \notin {"none", "inflight"} /\ j[1] <= read[k].generation}

\* lookups_needed, the lookups, and decide().  A job the record holds is asked
\* about whether or not it was listed.  What jobs do between the listing and
\* the lookups they may as well do before both.
PlanFrom(k, listed, unknown, waited) ==
    /\ pc[k] = "look" /\ Check(k)
    /\ \E said \in {[j \in listed \cup Recorded(read[k]) |->
                        IF j \in unknown THEN "unknown" ELSE Says(j)]} :
       \E plan \in {Decide(read[k], said, never[k], waited)} :
        /\ read' = [read EXCEPT ![k] = plan.record]
        /\ cancel' = [cancel EXCEPT ![k] = plan.cancel]
        /\ submit' = [submit EXCEPT ![k] = plan.submit]
        /\ Goto(k, IF plan.record # read[k] THEN "write" ELSE "tidy")
    /\ never' = [never EXCEPT ![k] = {g \in @ : g >= read[k].generation}]
    /\ UNCHANGED <<zookeeper, job, owner, serving, faults>>

\* Keeper._list and what follows it.  A listing may omit any job, and any lookup
\* may fail.
Plan(k) ==
    \E listed \in SUBSET Listable(k), waited \in BOOLEAN :
        \E unknown \in SUBSET (listed \cup Recorded(read[k])) :
            PlanFrom(k, listed, unknown, waited)

\* One cancel.  It may fail, and a job that has stopped stays stopped.
Cancel(k) ==
    /\ pc[k] \in {"write", "tidy"} /\ Check(k)
    /\ \E j \in cancel[k] :
        /\ cancel' = [cancel EXCEPT ![k] = @ \ {j}]
        /\ \/ job' = job
           \/ job[j] = "live" /\ job' = [job EXCEPT ![j] = "cancelling"]
    /\ UNCHANGED <<zookeeper, owner, pc, serving, read, submit>>
    /\ UNCHANGED <<never, faults>>

\* Nothing to write: the cycle ends with the cancels.
Tidied(k) ==
    /\ pc[k] = "tidy" /\ cancel[k] = {}
    /\ Finish(k) /\ Forget(k)
    /\ UNCHANGED <<epoch, record, recordEpoch, unconfirmed, job, owner>>
    /\ UNCHANGED <<serving, never, faults>>

----------------------------------------------------------------------------
(* Keeper._write: fenced on the epoch and on the record's version.  The    *)
(* version matters only in being, or not being, the one last read: that is *)
(* upToDate.                                                               *)

Writing(k) ==
    /\ pc[k] \in {"write", "note", "strike"}
    /\ pc[k] = "write" => cancel[k] = {}
    /\ Check(k)

\* Mutant: the write is fenced on the version only.
Written_anyEpoch(k) ==
    /\ Writing(k)
    /\ k \in upToDate
    /\ record' = read[k]
    /\ recordEpoch' = serving[k]
    /\ unconfirmed' = {}
    /\ IF pc[k] = "write" /\ submit[k] # 0
       THEN Goto(k, "submit") /\ upToDate' = {k} /\ UNCHANGED local
       ELSE Finish(k) /\ upToDate' = {}
    /\ UNCHANGED <<epoch, job, owner, serving, never, faults>>

\* After the intent comes the submission; after its outcome, the next cycle.
Written(k) ==
    /\ Writing(k)
    /\ epoch = serving[k] /\ k \in upToDate
    /\ record' = read[k]
    /\ recordEpoch' = serving[k]
    /\ unconfirmed' = {}
    /\ IF pc[k] = "write" /\ submit[k] # 0
       THEN /\ Goto(k, "submit")
            /\ upToDate' = {k}
            /\ UNCHANGED local
       ELSE /\ Finish(k)
            /\ upToDate' = {}
    /\ UNCHANGED <<epoch, job, owner, serving, never, faults>>

\* StaleLeader retires the tenure.
WriteStale(k) ==
    /\ Writing(k)
    /\ epoch # serving[k]
    /\ active' = [active EXCEPT ![k] = FALSE]
    /\ Finish(k) /\ Forget(k)
    /\ UNCHANGED <<epoch, record, recordEpoch, unconfirmed, job>>
    /\ UNCHANGED <<tenure, mayWork, serving, never, faults>>

\* RecordChanged: decide again from a fresh read.
WriteChanged(k) ==
    /\ Writing(k)
    /\ epoch = serving[k] /\ k \notin upToDate
    /\ Finish(k)
    /\ UNCHANGED <<zookeeper, job, owner, serving, never, faults>>

\* WriteUncertain: no answer in time.  The write may yet be applied.  If it
\* was an intent, this tenure remembers that it has not called Flink for it.
WriteUncertain(k) ==
    /\ Writing(k)
    /\ faults < MaxFaults
    /\ faults' = faults + 1
    /\ unconfirmed' = unconfirmed \cup
           (IF epoch = serving[k] /\ k \in upToDate
            THEN {[epoch |-> serving[k], record |-> read[k]]} ELSE {})
    /\ never' = [never EXCEPT ![k] =
           @ \cup IF pc[k] = "write" /\ submit[k] # 0 THEN {submit[k]} ELSE {}]
    /\ Finish(k) /\ Forget(k)
    /\ UNCHANGED <<epoch, record, recordEpoch, job, owner, serving>>

\* ZooKeeper gets to it: nothing has been written or claimed meanwhile.
ApplyLate ==
    /\ \E w \in unconfirmed :
        /\ record' = w.record
        /\ recordEpoch' = w.epoch
    /\ unconfirmed' = {}
    /\ upToDate' = {}
    /\ UNCHANGED <<epoch, job, owner, pc, serving, local, never, faults>>

----------------------------------------------------------------------------
(* Keeper._submit, for an intent that is recorded.                         *)

\* The check before the command fails: Flink was not called for this intent.
SubmitInterrupted(k) ==
    /\ pc[k] = "submit" /\ ~Check(k)
    /\ never' = [never EXCEPT ![k] = @ \cup {submit[k]}]
    /\ Finish(k) /\ Forget(k)
    /\ UNCHANGED <<epoch, record, recordEpoch, unconfirmed, job, owner>>
    /\ UNCHANGED <<serving, faults>>

\* Mutant: the mark of an earlier, unconfirmed intent is kept.
SubmitRuns_keepsMark(k) ==
    /\ pc[k] = "submit" /\ Check(k)
    /\ \E j \in Jobs :
        /\ j[1] = submit[k] /\ job[j] = "none"
        /\ j[2] = 2 => job[<<j[1], 1>>] # "none"
        /\ job' = [job EXCEPT ![j] = "inflight"]
        /\ read' = [read EXCEPT ![k].attempts[j[1]] = {j}]
    /\ Goto(k, "submitting")
    /\ UNCHANGED <<zookeeper, owner, serving, cancel, submit, never, faults>>

\* The command is started: from now on a job of this generation may appear.
SubmitRuns(k) ==
    /\ pc[k] = "submit" /\ Check(k)
    /\ never' = [never EXCEPT ![k] = @ \ {submit[k]}]
    /\ \E j \in Jobs :
        /\ j[1] = submit[k] /\ job[j] = "none"
        /\ j[2] = 2 => job[<<j[1], 1>>] # "none"
        /\ job' = [job EXCEPT ![j] = "inflight"]
        /\ read' = [read EXCEPT ![k].attempts[j[1]] = {j}]
    /\ Goto(k, "submitting")
    /\ UNCHANGED <<zookeeper, owner, serving, cancel, submit, faults>>

\* Its id came back: note it in the record.
SubmitReturns(k) ==
    /\ pc[k] = "submitting"
    /\ \E j \in read[k].attempts[submit[k]] : job[j] # "inflight"
    /\ Goto(k, "note")
    /\ UNCHANGED <<zookeeper, job, owner, serving, local, never, faults>>

\* SubmissionUncertain: the entry stays without an id.
SubmitUncertain(k) ==
    /\ pc[k] = "submitting"
    /\ Finish(k) /\ Forget(k)
    /\ UNCHANGED <<epoch, record, recordEpoch, unconfirmed, job, owner>>
    /\ UNCHANGED <<serving, never, faults>>

\* FlinkError: the command never ran.  Strike the attempt from the record.
SubmitNeverRan(k) ==
    /\ pc[k] = "submit" /\ Check(k)
    /\ faults < MaxFaults
    /\ faults' = faults + 1
    /\ never' = [never EXCEPT ![k] = @ \cup {submit[k]}]
    /\ read' = [read EXCEPT ![k].attempts[submit[k]] = {}]
    /\ Goto(k, "strike")
    /\ UNCHANGED <<zookeeper, job, owner, serving, cancel, submit>>

----------------------------------------------------------------------------
(* Leadership, as the keeper sees it.                                      *)

\* A coordinator claims the next epoch and, unless its session goes at once,
\* serves the tenure to its keeper, whatever call that is still in.
Elect(k) ==
    /\ epoch < MaxEpoch
    /\ epoch' = epoch + 1
    /\ unconfirmed' = {}
    /\ \/ /\ tenure' = [tenure EXCEPT ![k] = epoch + 1]
          /\ active' = [active EXCEPT ![k] = TRUE]
          /\ mayWork' = [mayWork EXCEPT ![k] = TRUE]
       \/ UNCHANGED owner
    /\ UNCHANGED <<record, recordEpoch, upToDate, job, pc, serving, local>>
    /\ UNCHANGED <<never, faults>>

Retire(k) ==
    /\ faults < MaxFaults
    /\ faults' = faults + 1
    /\ active[k]
    /\ active' = [active EXCEPT ![k] = FALSE]
    /\ UNCHANGED <<zookeeper, job, tenure, mayWork, pc, serving, local, never>>

Suspend(k) ==
    /\ faults < MaxFaults
    /\ faults' = faults + 1
    /\ active[k] /\ mayWork[k]
    /\ mayWork' = [mayWork EXCEPT ![k] = FALSE]
    /\ UNCHANGED <<zookeeper, job, tenure, active, pc, serving, local, never>>

Resume(k) ==
    /\ ~mayWork[k]
    /\ mayWork' = [mayWork EXCEPT ![k] = TRUE]
    /\ UNCHANGED <<zookeeper, job, tenure, active, pc, serving, local, never>>
    /\ UNCHANGED faults

\* The coordinator dies, or stop() ends its keeper; a submission under way may
\* still reach Flink.
Crash(k) ==
    /\ faults < MaxFaults
    /\ faults' = faults + 1
    /\ tenure[k] # 0
    /\ tenure' = [tenure EXCEPT ![k] = 0]
    /\ active' = [active EXCEPT ![k] = FALSE]
    /\ mayWork' = [mayWork EXCEPT ![k] = TRUE]
    /\ serving' = [serving EXCEPT ![k] = 0]
    /\ never' = [never EXCEPT ![k] = {}]
    /\ Finish(k) /\ Forget(k)
    /\ UNCHANGED <<epoch, record, recordEpoch, unconfirmed, job>>

----------------------------------------------------------------------------
(* Flink.                                                                  *)

Land(j) ==
    /\ job[j] = "inflight"
    /\ job' = [job EXCEPT ![j] = "live"]
    /\ UNCHANGED <<zookeeper, owner, pc, serving, local, never, faults>>

\* A cancelled job stops; any other may.
End(j) ==
    /\ job[j] \in {"live", "cancelling"}
    /\ job' = [job EXCEPT ![j] = "ended"]
    /\ UNCHANGED <<zookeeper, owner, pc, serving, local, never, faults>>

----------------------------------------------------------------------------
\* What the thread does by itself, between what it hears from Flink.
Step(k) ==
    \/ Begin(k) \/ Interrupt(k) \/ Cancel(k) \/ Tidied(k)
    \/ Written(k) \/ WriteStale(k) \/ WriteChanged(k)
    \/ SubmitInterrupted(k) \/ SubmitRuns(k) \/ SubmitReturns(k)
    \/ SubmitUncertain(k)

Cycle(k) ==
    \/ Step(k) \/ Undecided(k) \/ Plan(k)
    \/ WriteUncertain(k) \/ SubmitNeverRan(k)

Owner(k) == Elect(k) \/ Retire(k) \/ Suspend(k) \/ Resume(k) \/ Crash(k)

Next ==
    \/ \E k \in Keepers : Cycle(k) \/ Owner(k)
    \/ \E j \in Jobs : Land(j) \/ End(j)
    \/ ApplyLate

Spec == Init /\ [][Next]_vars

\* The thread of the newest tenure's keeper goes on, and its connection comes
\* back.  Flink does not fail for ever: of the cycles that look, some hear of
\* every job and come when what they wait for is over.
Informed(k) == PlanFrom(k, Listable(k), {}, TRUE)

Newest(k) == tenure[k] = epoch

Fairness ==
    /\ WF_vars(\E k \in Keepers : Newest(k) /\ (Step(k) \/ Resume(k)))
    /\ SF_vars(\E k \in Keepers : Newest(k) /\ Informed(k))

FairSpec == Spec /\ Fairness

----------------------------------------------------------------------------
(* Properties.                                                             *)

\* Every variable holds a value of its kind.
TypeOK ==
    /\ epoch \in 0..MaxEpoch
    /\ record \in Records
    /\ recordEpoch \in 0..MaxEpoch
    /\ upToDate \subseteq Keepers
    /\ unconfirmed \subseteq [epoch : 0..MaxEpoch, record : Records]
    /\ job \in [Jobs -> {"none", "inflight", "live", "cancelling", "ended"}]
    /\ tenure \in [Keepers -> 0..MaxEpoch]
    /\ active \in [Keepers -> BOOLEAN]
    /\ mayWork \in [Keepers -> BOOLEAN]
    /\ pc \in [Keepers -> {"idle", "look", "write", "tidy", "submit",
                           "submitting", "note", "strike"}]
    /\ serving \in [Keepers -> 0..MaxEpoch]
    /\ read \in [Keepers -> Records]
    /\ cancel \in [Keepers -> SUBSET Jobs]
    /\ submit \in [Keepers -> 0..MaxGeneration]
    /\ never \in [Keepers -> SUBSET Generations]
    /\ faults \in 0..MaxFaults

\* A generation is submitted once: no two keepers, and no keeper twice, run
\* the submission command for the same one.
SubmittedOnce == \A g \in Generations : job[<<g, 2>>] = "none"

\* "Unknown is never absent": as long as a submitted job may exist, the record
\* holds its attempt, either with its id or still without one.
EveryJobAccountedFor ==
    \A j \in Jobs :
        job[j] \in {"inflight", "live", "cancelling"}
          => record.attempts[j[1]] \in {{NoId}, {j}}

\* What the record is for: types hold, no generation is submitted twice and no
\* job that may exist is missing from it, although either needs a record, a
\* Flink call and a crash or a deposition in an unlucky order to go wrong.
RecordInvariant == TypeOK /\ SubmittedOnce /\ EveryJobAccountedFor

\* decide() cancels superseded generations only: no keeper, however stale its
\* read, cancels the job of the generation the record has reached.
OnlySupersededCancelled ==
    [][\A j \in Jobs :
           job[j] = "live" /\ job'[j] = "cancelling"
             => j[1] < record.generation]_vars

\* A new generation is never recorded beside a running job whose id the record
\* holds: the duplicate a lost listing or a failed lookup could cause.
NoNeedlessGeneration ==
    [][\A j \in Jobs :
           /\ record'.generation # record.generation
           /\ j[1] = record.generation
           /\ record.attempts[j[1]] = {j}
           => job[j] = "ended"]_vars

\* What the keeper is for: as long as some coordinator leads the newest tenure,
\* a job of the record's generation runs again and again, whatever ended the
\* last one and whichever attempt was never heard of.  (The bound on
\* generations is where the model, not the keeper, stops submitting.)
KeepsAJob ==
    []<>(\/ record.generation = MaxGeneration
         \/ \E j \in Jobs : job[j] = "live" /\ j[1] = record.generation
         \/ \A k \in Keepers : ~(active[k] /\ Newest(k)))

\* The record keeps the promise of the fence.
Fence == INSTANCE Fencing WITH epoch <- epoch, written <- recordEpoch
FenceSpec == Fence!FSpec
=============================================================================
