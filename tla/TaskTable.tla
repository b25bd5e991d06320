----------------------------- MODULE TaskTable -----------------------------
(***************************************************************************)
(* The task lifecycle of crates/miot-tasks (the pure machine `TaskTable`)  *)
(* as crates/pallet-litter drives it: every signed call decides its        *)
(* authority from the recovered caller, applies one verb of the table and  *)
(* stores the result; opening a block runs `tick` and then `gc`.           *)
(*                                                                         *)
(* One operator per effect of `TaskTable::apply` says what the effect does *)
(* to a row; one action per verb has the verb's refusals as its guard.  A  *)
(* refused act changes nothing, so refusals are simply not steps.          *)
(*                                                                         *)
(* The source keeps parents and sub-tasks in one vector of one struct and  *)
(* tells them apart by `id.sub == 0`; here they are two functions, each    *)
(* with the fields that its kind uses.  Task texts, titles and bodies are  *)
(* abstracted away (over-long ones are refused before anything changes).   *)
(***************************************************************************)
EXTENDS Integers, FiniteSets, Sequences

CONSTANTS
    Accounts,            \* the accounts that sign calls
    Root,                \* the operator's account
    GenesisLeader,       \* `GenesisConfig::leader`
    None,                \* Rust's None, for accounts, blocks and outcomes
    ClaimWindow, Lease, WorkNag, DirectiveNag,              \* `Timers`
    MaxNudges, MaxReoffers, MaxDirectiveNudges,
    MaxSubtasks, MaxTasks,                                  \* `Limits`
    GcKeepFor,           \* `pallet_litter::Config::GcKeepFor`
    MaxParents,          \* bound on the model: parents ever opened
    MaxNotes,            \* bound on the model: standalone artifacts
    MaxBlock             \* bound on the model: blocks opened

ASSUME AccountsAssumption ==
    /\ Root \in Accounts
    /\ GenesisLeader \in Accounts \cup {None}
    /\ None \notin Accounts
    /\ None \notin Int
    /\ None \notin {"Done", "Failed"}

ASSUME TimersAssumption ==
    /\ ClaimWindow \in Nat /\ Lease \in Nat /\ WorkNag \in Nat
    /\ DirectiveNag \in Nat /\ GcKeepFor \in Nat
    /\ MaxNudges \in Nat /\ MaxReoffers \in Nat /\ MaxDirectiveNudges \in Nat

ASSUME LimitsAssumption ==
    /\ MaxSubtasks \in Nat /\ MaxTasks \in Nat
    /\ MaxParents \in Nat /\ MaxNotes \in Nat /\ MaxBlock \in Nat

VARIABLES
    parents,     \* parent number -> its row
    subs,        \* <<parent number, sub number>> -> its row
    artifacts,   \* the committed artifacts
    notes,       \* the standalone artifacts
    nextParent,  \* `State::next_parent`
    nextNote,    \* `State::next_standalone_artifact`
    leader,      \* the litter leader, an agent role
    now          \* the number of the open block

vars == <<parents, subs, artifacts, notes, nextParent, nextNote, leader, now>>

ParentStatus == {"Open", "Planned", "Closed", "Failed"}
SubStatus == {"Pending", "InProgress", "AwaitingClearance", "Cleared"}
Terminal == {"Closed", "Failed"}

Blocks == Nat \cup {None}

ParentRow == [status : ParentStatus,
              nextDirective : Nat,       \* when the directive is next repeated
              directiveNudges : Nat,     \* consecutive unanswered directives
              closedAt : Blocks]

SubRow == [status : SubStatus,
           assignee : Accounts \cup {None},
           holder : Accounts \cup {None},
           outcome : {None, "Done", "Failed"},
           offeredAt : Blocks,
           leaseUntil : Blocks,
           nextNag : Blocks,
           nudges : Nat,
           reoffers : Nat,
           announced : BOOLEAN]

Artifact == [task : Nat, author : Accounts, at : Nat]
Note == [id : Nat, author : Accounts]

TypeOK ==
    /\ DOMAIN parents \subseteq Nat
    /\ parents \in [DOMAIN parents -> ParentRow]
    /\ DOMAIN subs \subseteq Nat \X Nat
    /\ subs \in [DOMAIN subs -> SubRow]
    /\ artifacts \subseteq Artifact
    /\ notes \subseteq Note
    /\ nextParent \in Nat
    /\ nextNote \in Nat
    /\ leader \in Accounts \cup {None}
    /\ now \in Nat

-----------------------------------------------------------------------------
(* What each effect does to the row it names (`TaskTable::apply`). *)

\* Effect::Opened: the row of a new parent.
OpenedRow(at) ==
    [status |-> "Open", nextDirective |-> at, directiveNudges |-> 0,
     closedAt |-> None]

\* Effect::Planned
PlannedRow(p, at) ==
    [status |-> "Planned", nextDirective |-> at + DirectiveNag,
     directiveNudges |-> 0, closedAt |-> p.closedAt]

\* Effect::Assigned when the row does not exist yet.
FirstOffer(to, at) ==
    [status |-> "Pending", assignee |-> to, holder |-> None, outcome |-> None,
     offeredAt |-> at, leaseUntil |-> None, nextNag |-> None,
     nudges |-> 0, reoffers |-> 0, announced |-> FALSE]

\* Effect::Assigned when it does: an offer re-made.
AssignedRow(t, to, at) ==
    [status |-> "Pending", assignee |-> to, holder |-> t.holder,
     outcome |-> t.outcome, offeredAt |-> at, leaseUntil |-> t.leaseUntil,
     nextNag |-> t.nextNag, nudges |-> t.nudges, reoffers |-> t.reoffers,
     announced |-> t.announced]

\* Effect::Directed, any directive but LeaderElected.
DirectedRow(p, at) ==
    [status |-> p.status, nextDirective |-> at + DirectiveNag,
     directiveNudges |-> p.directiveNudges + 1, closedAt |-> p.closedAt]

\* What a submit and a clear do to the parent's row, and LeaderElected to
\* every parent's: the next tick finds its directive due, on a full budget.
RearmedRow(p, at) ==
    [status |-> p.status, nextDirective |-> at, directiveNudges |-> 0,
     closedAt |-> p.closedAt]

\* Effect::Nudge; `remaining` is what is left after this one.
NudgedRow(t, remaining, at) ==
    [status |-> t.status, assignee |-> t.assignee, holder |-> t.holder,
     outcome |-> t.outcome, offeredAt |-> t.offeredAt,
     leaseUntil |-> t.leaseUntil, nextNag |-> at + WorkNag,
     nudges |-> MaxNudges - remaining, reoffers |-> t.reoffers,
     announced |-> t.announced]

\* Effect::Record with Act::Claim
ClaimedRow(t, who, at) ==
    [status |-> "InProgress", assignee |-> t.assignee, holder |-> who,
     outcome |-> t.outcome, offeredAt |-> None, leaseUntil |-> at + Lease,
     nextNag |-> at + WorkNag, nudges |-> 0, reoffers |-> 0,
     announced |-> FALSE]

\* Effect::Record with Act::Done or Act::Failed
SubmittedRow(t, who, outcome) ==
    [status |-> "AwaitingClearance", assignee |-> t.assignee,
     holder |-> who, outcome |-> outcome, offeredAt |-> None,
     leaseUntil |-> None, nextNag |-> None, nudges |-> 0,
     reoffers |-> t.reoffers, announced |-> t.announced]

\* Effect::Record with Act::Clear
ClearedRow(t) ==
    [status |-> "Cleared", assignee |-> t.assignee, holder |-> t.holder,
     outcome |-> t.outcome, offeredAt |-> t.offeredAt,
     leaseUntil |-> t.leaseUntil, nextNag |-> t.nextNag,
     nudges |-> t.nudges, reoffers |-> t.reoffers,
     announced |-> t.announced]

\* Mutant: a reopen that forgets the old result.
ReopenedRowKeepingOutcome(t, at) ==
    [status |-> "Pending", assignee |-> t.assignee, holder |-> None,
     outcome |-> t.outcome, offeredAt |-> at, leaseUntil |-> None,
     nextNag |-> None, nudges |-> 0, reoffers |-> t.reoffers,
     announced |-> FALSE]

\* Effect::Record with Act::Reopen
ReopenedRow(t, at) ==
    [status |-> "Pending", assignee |-> t.assignee, holder |-> None,
     outcome |-> None, offeredAt |-> at, leaseUntil |-> None,
     nextNag |-> None, nudges |-> 0, reoffers |-> t.reoffers,
     announced |-> FALSE]

\* Effect::Requeued, why Unclaimed
UnclaimedRow(t, at) ==
    [status |-> t.status, assignee |-> t.assignee, holder |-> t.holder,
     outcome |-> t.outcome, offeredAt |-> at, leaseUntil |-> t.leaseUntil,
     nextNag |-> t.nextNag, nudges |-> t.nudges,
     reoffers |-> t.reoffers + 1, announced |-> t.announced]

\* Effect::Requeued, why LeaseExpired
LeaseExpiredRow(t, at) ==
    [status |-> "Pending", assignee |-> t.assignee, holder |-> None,
     outcome |-> t.outcome, offeredAt |-> at, leaseUntil |-> None,
     nextNag |-> None, nudges |-> 0, reoffers |-> t.reoffers,
     announced |-> FALSE]

\* Effect::Rehomed
RehomedRow(t, to, at) ==
    [status |-> "Pending", assignee |-> to, holder |-> None,
     outcome |-> None, offeredAt |-> at, leaseUntil |-> None,
     nextNag |-> None, nudges |-> 0, reoffers |-> 0, announced |-> FALSE]

\* Effect::NudgeBudgetSpent
BudgetSpentRow(t) ==
    [status |-> t.status, assignee |-> t.assignee, holder |-> t.holder,
     outcome |-> t.outcome, offeredAt |-> t.offeredAt,
     leaseUntil |-> t.leaseUntil, nextNag |-> None, nudges |-> t.nudges,
     reoffers |-> t.reoffers, announced |-> TRUE]

\* Mutant: the sub-task's final status on a parent; both are `TaskStatus`.
ClosedRowAsCleared(p, at) ==
    [status |-> "Cleared", nextDirective |-> p.nextDirective,
     directiveNudges |-> p.directiveNudges, closedAt |-> at]

\* Effect::Closed and Effect::Failed, on the parent's row
ClosedRow(p, at) ==
    [status |-> "Closed", nextDirective |-> p.nextDirective,
     directiveNudges |-> p.directiveNudges, closedAt |-> at]
FailedRow(p, at) ==
    [status |-> "Failed", nextDirective |-> p.nextDirective,
     directiveNudges |-> p.directiveNudges, closedAt |-> at]

-----------------------------------------------------------------------------
(* The signed calls.  `now` is the open block, the caller is `who`. *)

AuthorityOf(who) ==
    IF who = Root THEN "Root" ELSE IF who = leader THEN "Leader" ELSE "Peer"

Init ==
    /\ parents = [p \in {} |-> OpenedRow(0)]
    /\ subs = [id \in {} |-> FirstOffer(Root, 0)]
    /\ artifacts = {} /\ notes = {}
    /\ nextParent = 1 /\ nextNote = 1
    /\ leader = GenesisLeader
    /\ now = 0

Rows == Cardinality(DOMAIN parents) + Cardinality(DOMAIN subs)

SubsOf(p) == {id \in DOMAIN subs : id[1] = p}

\* The parent's row after an act that re-arms its directive, if it is there.
RearmParent(p) ==
    parents' = [q \in DOMAIN parents |->
                   IF q = p THEN RearmedRow(parents[q], now) ELSE parents[q]]

UpdateSub(id, row) == subs' = [subs EXCEPT ![id] = row]

Open(who) ==
    /\ AuthorityOf(who) \in {"Root", "Leader"}
    /\ Rows + 1 + MaxSubtasks <= MaxTasks
    /\ nextParent <= MaxParents
    /\ parents' = [p \in DOMAIN parents \cup {nextParent} |->
                      IF p = nextParent THEN OpenedRow(now) ELSE parents[p]]
    /\ nextParent' = nextParent + 1
    /\ UNCHANGED <<subs, artifacts, notes, nextNote, leader, now>>

\* `items` names the assignee of each sub-task, in order.
Plan(who, p, items) ==
    /\ AuthorityOf(who) = "Leader"
    /\ Len(items) \in 1..MaxSubtasks
    /\ \A i \in DOMAIN items : items[i] # Root
    /\ p \in DOMAIN parents
    /\ parents[p].status = "Open"
    /\ parents' = [parents EXCEPT ![p] = PlannedRow(@, now)]
    /\ LET planned == {p} \X DOMAIN items IN
       subs' = [id \in DOMAIN subs \cup planned |->
                   IF id \notin planned THEN subs[id]
                   ELSE IF id \in DOMAIN subs
                        THEN AssignedRow(subs[id], items[id[2]], now)
                        ELSE FirstOffer(items[id[2]], now)]
    /\ UNCHANGED <<artifacts, notes, nextParent, nextNote, leader, now>>

Claim(who, id) ==
    /\ id \in DOMAIN subs
    /\ subs[id].status = "Pending"
    /\ subs[id].assignee = who
    /\ UpdateSub(id, NudgedRow(ClaimedRow(subs[id], who, now), MaxNudges, now))
    /\ UNCHANGED <<parents, artifacts, notes, nextParent, nextNote, leader, now>>

\* A submit without a claim, or after the lease ran out, is taken as well.
Submit(who, id, outcome) ==
    /\ id \in DOMAIN subs
    /\ \/ subs[id].status = "InProgress" /\ subs[id].holder = who
       \/ subs[id].status = "Pending" /\ subs[id].assignee = who
    /\ UpdateSub(id, SubmittedRow(subs[id], who, outcome))
    /\ RearmParent(id[1])
    /\ UNCHANGED <<artifacts, notes, nextParent, nextNote, leader, now>>

Clear(who, id) ==
    /\ AuthorityOf(who) = "Leader"
    /\ id \in DOMAIN subs
    /\ subs[id].status = "AwaitingClearance"
    /\ UpdateSub(id, ClearedRow(subs[id]))
    /\ RearmParent(id[1])
    /\ UNCHANGED <<artifacts, notes, nextParent, nextNote, leader, now>>

Reopen(who, id) ==
    /\ AuthorityOf(who) = "Leader"
    /\ id \in DOMAIN subs
    /\ subs[id].status = "AwaitingClearance"
    /\ UpdateSub(id, AssignedRow(ReopenedRow(subs[id], now),
                                 subs[id].assignee, now))
    /\ UNCHANGED <<parents, artifacts, notes, nextParent, nextNote, leader, now>>

\* Mutant: work in progress can be re-homed.
ReassignHeld(who, id, to) ==
    /\ AuthorityOf(who) = "Leader"
    /\ to # Root
    /\ id \in DOMAIN subs
    /\ subs[id].status # "Cleared"
    /\ UpdateSub(id, AssignedRow(RehomedRow(subs[id], to, now), to, now))
    /\ UNCHANGED <<parents, artifacts, notes, nextParent, nextNote, leader, now>>

Reassign(who, id, to) ==
    /\ AuthorityOf(who) = "Leader"
    /\ to # Root
    /\ id \in DOMAIN subs
    /\ subs[id].status \in {"Pending", "AwaitingClearance"}
    /\ UpdateSub(id, AssignedRow(RehomedRow(subs[id], to, now), to, now))
    /\ UNCHANGED <<parents, artifacts, notes, nextParent, nextNote, leader, now>>

\* What all forms of the commit do once it is accepted.
Committed(who, p) ==
    /\ artifacts' = artifacts \cup {[task |-> p, author |-> who, at |-> now]}
    /\ parents' = [parents EXCEPT ![p] = ClosedRow(@, now)]
    /\ UNCHANGED <<subs, notes, nextParent, nextNote, leader, now>>

\* Mutant: one cleared sub-task is enough.
CommitSomeCleared(who, p) ==
    /\ AuthorityOf(who) = "Leader"
    /\ p \in DOMAIN parents
    /\ parents[p].status = "Planned"
    /\ \E id \in SubsOf(p) : subs[id].status = "Cleared"
    /\ Committed(who, p)

\* Mutant: a failed parent is rescued by a late artifact.
CommitLate(who, p) ==
    /\ AuthorityOf(who) = "Leader"
    /\ p \in DOMAIN parents
    /\ parents[p].status \in {"Planned", "Failed"}
    /\ \A id \in SubsOf(p) : subs[id].status = "Cleared"
    /\ Committed(who, p)

CommitArtifact(who, p) ==
    /\ AuthorityOf(who) = "Leader"
    /\ p \in DOMAIN parents
    /\ parents[p].status = "Planned"
    /\ \A id \in SubsOf(p) : subs[id].status = "Cleared"
    /\ Committed(who, p)

PublishNote(who) ==
    /\ nextNote <= MaxNotes
    /\ notes' = notes \cup {[id |-> nextNote, author |-> who]}
    /\ nextNote' = nextNote + 1
    /\ UNCHANGED <<parents, subs, artifacts, nextParent, leader, now>>

\* Only the operator installs a leader; the sitting one again is a no-op.
SetLeader(caller, who) ==
    /\ caller = Root
    /\ who # leader
    /\ leader' = who
    /\ parents' = [p \in DOMAIN parents |-> RearmedRow(parents[p], now)]
    /\ UNCHANGED <<subs, artifacts, notes, nextParent, nextNote, now>>

-----------------------------------------------------------------------------
(* Opening a block: `on_initialize` runs `tick` and then `gc`. *)

\* Mutant: a parent that has not ended counts as ended at block 0.
DoomedByAge(ps, at, keepFor) ==
    {p \in DOMAIN ps :
        at - (IF ps[p].closedAt = None THEN 0 ELSE ps[p].closedAt) >= keepFor}

\* The parents `gc` drops from ps at block `at`, with every row under them.
Doomed(ps, at, keepFor) ==
    {p \in DOMAIN ps :
        /\ ps[p].status \in Terminal
        /\ at - (IF ps[p].closedAt = None THEN at ELSE ps[p].closedAt) >= keepFor}

\* Mutant: only the parents' rows go.
GcParentsOnly(ps, ss, at, keepFor) ==
    /\ parents' = [p \in DOMAIN ps \ Doomed(ps, at, keepFor) |-> ps[p]]
    /\ subs' = ss

Gc(ps, ss, at, keepFor) ==
    LET doomed == Doomed(ps, at, keepFor) IN
    /\ parents' = [p \in DOMAIN ps \ doomed |-> ps[p]]
    /\ subs' = [id \in {id \in DOMAIN ss : id[1] \notin doomed} |-> ss[id]]

\* A session boundary: every live parent fails and is swept at once.
ClearAll(who) ==
    /\ AuthorityOf(who) = "Root"
    /\ Gc([p \in DOMAIN parents |->
              IF parents[p].status \in Terminal THEN parents[p]
              ELSE FailedRow(parents[p], now)], subs, now, 0)
    /\ UNCHANGED <<artifacts, notes, nextParent, nextNote, leader, now>>

LeaseOver(t, at) ==
    t.status = "InProgress" /\ t.leaseUntil # None /\ at >= t.leaseUntil

NagDue(t, at) ==
    /\ t.status = "InProgress" /\ t.holder # None
    /\ t.nextNag # None /\ at >= t.nextNag

\* Mutant: one re-offer too many.
OfferStaleOffByOne(t, at) ==
    /\ t.status = "Pending" /\ t.reoffers <= MaxReoffers
    /\ t.offeredAt # None /\ at >= t.offeredAt + ClaimWindow

OfferStale(t, at) ==
    /\ t.status = "Pending" /\ t.reoffers < MaxReoffers
    /\ t.offeredAt # None /\ at >= t.offeredAt + ClaimWindow

\* Stage 1 of `tick`, on one sub-task.  A lease that ran out goes first.
TickedSub(t, at) ==
    CASE LeaseOver(t, at) ->
            AssignedRow(LeaseExpiredRow(t, at), t.assignee, at)
      [] ~LeaseOver(t, at) /\ NagDue(t, at) /\ t.nudges < MaxNudges ->
            NudgedRow(t, MaxNudges - (t.nudges + 1), at)
      [] /\ ~LeaseOver(t, at) /\ NagDue(t, at)
         /\ t.nudges >= MaxNudges /\ ~t.announced ->
            BudgetSpentRow(t)
      [] OfferStale(t, at) ->
            AssignedRow(UnclaimedRow(t, at), t.assignee, at)
      [] OTHER -> t

\* Mutant: a sub-task nobody takes is not reported to the leader.
DirectiveDueNoReassign(p, row, ss) ==
    LET mine == {id \in DOMAIN ss : id[1] = p} IN
    \/ row.status = "Open"
    \/ /\ row.status = "Planned"
       /\ mine # {}
       /\ \/ \E id \in mine : ss[id].status = "AwaitingClearance"
          \/ \A id \in mine : ss[id].status = "Cleared"

\* Whether `directive_for` finds something the leader must do: split an open
\* parent, move a sub-task whose offers are used up, judge a result, or write
\* the artifact.  Which of them it is only words the effect.
DirectiveDue(p, row, ss) ==
    LET mine == {id \in DOMAIN ss : id[1] = p} IN
    \/ row.status = "Open"
    \/ /\ row.status = "Planned"
       /\ mine # {}
       /\ \/ \E id \in mine : /\ ss[id].status = "Pending"
                              /\ ss[id].reoffers >= MaxReoffers
          \/ \E id \in mine : ss[id].status = "AwaitingClearance"
          \/ \A id \in mine : ss[id].status = "Cleared"

\* Stage 2 of `tick`, on one parent: the directive is repeated, until its
\* budget is spent and the parent fails.
TickedParent(p, row, ss, at) ==
    IF leader = None \/ at < row.nextDirective \/ ~DirectiveDue(p, row, ss)
    THEN row
    ELSE IF row.directiveNudges >= MaxDirectiveNudges
         THEN FailedRow(row, at)
         ELSE DirectedRow(row, at)

TickedSubs(at) == [id \in DOMAIN subs |-> TickedSub(subs[id], at)]

TickedParents(at) ==
    [p \in DOMAIN parents |-> TickedParent(p, parents[p], TickedSubs(at), at)]

OpenBlock ==
    /\ now < MaxBlock
    /\ now' = now + 1
    /\ Gc(TickedParents(now + 1), TickedSubs(now + 1), now + 1, GcKeepFor)
    /\ UNCHANGED <<artifacts, notes, nextParent, nextNote, leader>>

-----------------------------------------------------------------------------

Plans == UNION {[1..n -> Accounts] : n \in 1..MaxSubtasks}

\* An act of somebody that concerns the task with parent number p.
ActOn(p) ==
    \/ \E who \in Accounts, items \in Plans : Plan(who, p, items)
    \/ \E who \in Accounts, id \in SubsOf(p) : Claim(who, id)
    \/ \E who \in Accounts, id \in SubsOf(p), o \in {"Done", "Failed"} :
          Submit(who, id, o)
    \/ \E who \in Accounts, id \in SubsOf(p) : Clear(who, id)
    \/ \E who \in Accounts, id \in SubsOf(p) : Reopen(who, id)
    \/ \E who \in Accounts, id \in SubsOf(p), to \in Accounts :
          Reassign(who, id, to)
    \/ \E who \in Accounts : CommitArtifact(who, p)

ParentNumbers == {id[1] : id \in DOMAIN subs} \cup DOMAIN parents

Next ==
    \/ \E who \in Accounts : Open(who)
    \/ \E p \in ParentNumbers : ActOn(p)
    \/ \E who \in Accounts : PublishNote(who)
    \/ \E caller, who \in Accounts : SetLeader(caller, who)
    \/ \E who \in Accounts : ClearAll(who)
    \/ OpenBlock

Spec == Init /\ [][Next]_vars

-----------------------------------------------------------------------------
(* What makes the table correct. *)

\* Every sub-task sits in a state that some clock or somebody will move on:
\* an offer has the block it was made in and carries nothing over from an
\* earlier holder; a claim has a lease, belongs to the assignee, and either a
\* nudge is scheduled or the spent budget was announced; a submitted result is
\* there to be judged and is the assignee's.  Claims, late submits, reopens,
\* re-homings and the tick all rewrite these fields one by one.
RowsCoherent ==
    \A id \in DOMAIN subs : LET t == subs[id] IN
        /\ t.status = "Pending" =>
              /\ t.offeredAt # None /\ t.leaseUntil = None /\ t.nextNag = None
              /\ t.holder = None /\ t.outcome = None
        /\ t.status = "InProgress" =>
              /\ t.holder = t.assignee /\ t.outcome = None
              /\ t.leaseUntil # None /\ t.offeredAt = None
              /\ t.announced <=> t.nextNag = None
        /\ t.status \in {"AwaitingClearance", "Cleared"} =>
              /\ t.holder = t.assignee /\ t.outcome # None
              /\ t.leaseUntil = None /\ t.nextNag = None

\* The nags are bounded: no counter that the tick, a claim or a requeue moves
\* passes its budget.
BudgetsRespected ==
    /\ \A id \in DOMAIN subs : /\ subs[id].nudges <= MaxNudges
                               /\ subs[id].reoffers <= MaxReoffers
    /\ \A p \in DOMAIN parents :
          parents[p].directiveNudges <= MaxDirectiveNudges

\* A plan arrives whole and its rows live and die with the parent's: an open
\* parent has no sub-tasks, a planned or closed one has sub-tasks 1..n and
\* no row survives `gc` or `clear_all` without its parent.
PlanWhole ==
    /\ \A id \in DOMAIN subs : id[1] \in DOMAIN parents
    /\ \A p \in DOMAIN parents :
          /\ parents[p].status = "Open" => SubsOf(p) = {}
          /\ parents[p].status \in {"Planned", "Closed"} =>
                \E n \in 1..MaxSubtasks : SubsOf(p) = {p} \X (1..n)

\* An artifact is the end of a finished task: its number was handed out, its
\* parent is closed (or was, and is collected), every sub-task under it is
\* cleared, it is the only one, and no closed parent is without one.
ArtifactSound ==
    /\ \A a \in artifacts :
          /\ a.task < nextParent
          /\ a.task \in DOMAIN parents => parents[a.task].status = "Closed"
    /\ \A a, b \in artifacts : a.task = b.task => a = b
    /\ \A p \in DOMAIN parents : parents[p].status = "Closed" =>
          /\ \E a \in artifacts : a.task = p
          /\ \A id \in SubsOf(p) : subs[id].status = "Cleared"

\* A parent that ended stays ended as it is and a number is never used again,
\* by whatever acts arrive late on the rows under it; artifacts are not lost.
KeepsEnds ==
    /\ \A p \in DOMAIN parents \cap DOMAIN parents' :
          parents[p].status \in Terminal =>
             /\ parents'[p].status = parents[p].status
             /\ parents'[p].closedAt = parents[p].closedAt
    /\ \A p \in DOMAIN parents' \ DOMAIN parents : p >= nextParent
    /\ nextParent' >= nextParent
    /\ artifacts \subseteq artifacts'

EndsForGood == [][KeepsEnds]_vars

\* A claim is exclusive for its lease: until the lease runs out the holder
\* keeps the sub-task whatever anybody else calls, unless the whole row is
\* collected with its ended parent.
KeepsLeases ==
    \A id \in DOMAIN subs \cap DOMAIN subs' :
       subs[id].status = "InProgress" =>
          \/ subs'[id].holder = subs[id].holder
          \/ now' >= subs[id].leaseUntil

LeaseHolds == [][KeepsLeases]_vars

\* The passing of time alone never throws work away: a submitted result and a
\* clearance survive every block until their parent is collected.
KeepsResults ==
    now' # now =>
       /\ \A id \in DOMAIN subs : subs[id].outcome # None =>
             \/ id \in DOMAIN subs' /\ subs'[id] = subs[id]
             \/ id \notin DOMAIN subs' /\ id[1] \notin DOMAIN parents'
       /\ \A p \in DOMAIN parents \ DOMAIN parents' :
             parents[p].status \in Terminal \/ GcKeepFor = 0

TimeKeepsResults == [][KeepsResults]_vars

=============================================================================
