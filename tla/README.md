# akuma-miot in TLA+

akuma-miot runs a *litter* of LLM agents, cats, on a small private chain.  An
operator opens tasks; one cat, the litter leader, splits each into sub-tasks;
the others claim, do and submit them; the leader clears the results and commits
an artifact.  Every act is a signed extrinsic.  Each host runs a node, the nodes
elect one of them (the mesh leader, or primary) to produce blocks, and the
others copy its block log.  A cat is a loop around a model: events of the chain
and messages wake it, its tools act on the host and on the chain.

This directory holds models of the parts whose correctness is argued about in
the source, checked with TLC on small instances and, where it says so, proved
with TLAPS for all of them.

## 1. Inventory

| Component | Source (`src/crates/...`) | State | Operations |
|---|---|---|---|
| Task table | `miot-tasks`, `miot-primitives` | parent and sub-task rows, artifacts, standalone artifacts, counters, leader | open, plan, claim, submit, clear, reopen, reassign, commit artifact, publish, set leader, clear all, tick, gc |
| Litter pallet | `pallet-litter` | the table, root, roster, patrons and their requests, votes, comments, stats, epoch | one call per act, `on_initialize`, `replay_effect` |
| Mesh election | `miot-mesh` | term, vote, head term (persisted); role, leader, campaign, who was heard when | tick, campaign, vote request and reply, statuses in both directions |
| Block store | `miot-store` | blocks by height, head, last checkpoint and its state, auxiliary values | append, compact, adopt checkpoint, rewind for fork, fork point |
| Node: replication | `kot/src/node.rs` | runtime state, open block, peer, push sessions, log of events | block loop, mesh round, replica round, push session, promotion, demotion, reload |
| Node: extrinsics and mempool | `kot/src/node.rs` | queue, transaction states, offered and carried entries, nonces | accept, forward, queue, mempool round, relay, carry |
| Node: HTTP surface | `kot/src/{httpapi,main,tls}.rs` | none of its own | routing, JSON, pinning |
| Runtime | `miot-runtime` | none of its own | FRAME wiring, constants |
| Agent state machine | `kot/src/agent_state_machine.rs` | conversation, calls out, held results, budgets | wake, turn, tools, check-in, nudge, release, reset, compaction, history |
| A cat on the chain | `kot/src/agent.rs`, `common.rs` | cursor, session file, cached nonce | follow events, prompt, submit, record |
| Agent helpers | `kot/src/{local_tasks,activity,...}.rs` | to-do list | LocalTask calls |
| Client and terminal | `kot/src/{client,ui}.rs` | cursor, lines that are sealing, retry queue | tail, log, submit or queue, commands |
| Keys, LLM client | `miot-keys`, `miot-llm` | files | signatures, calls to a provider |

How they interact.  A cat, or the operator's client, signs an extrinsic with
its account's next nonce and posts it to any node.  The node that leads applies
it to the open block through the pallet, which loads the table, applies one
verb and stores it; other nodes forward it, or queue it and let it be relayed
or carried.  The block loop closes the block, appends its *effects* to the
store and opens the next one, which runs the table's tick.  Replicas pull the
blocks (or are pushed them) and fold the effects, without a tick.  Around every
interaction with the mesh machine the node calls `follow_mesh`, which persists
the vote, promotes or demotes the node and picks whom to pull from.  Each
effect also becomes an entry of the node's log of events, which cats and
terminals poll with a cursor; the log is thrown away and rebuilt from the store
whenever the node's state is.  A cat turns entries that concern it into wakes
of the agent's loop, and a moved checkpoint into a reset.

What is hard.

* *Table.*  Several agents act in any order, and late: after a lease ran out,
  after a re-homing, after the parent ended.  Time acts too, on every block.
  Nobody may lose work or hold it twice, every silence must end, and budgets
  must hold.
* *Pallet.*  A replica sees effects only; what a call changes beside them is
  lost on it.
* *Election.*  Votes survive restarts only if they are on disk in time; replies
  and statuses are concurrent and stale; partitions must neither elect two
  leaders nor depose one.
* *Replication.*  Logs diverge and are compared and rewound across awaits.
* *Mempool and nonces.*  Entries are retried, relayed and carried by several
  nodes at once, one account has several writers, answers are lost, and nonces
  are in no block.
* *Agent.*  Calls come back in any order, late, and from sessions that have
  ended; the loop must neither forget one nor run on its own for ever.
* *Event followers.*  A rebuilt log must make nobody deaf and nobody act twice.

`components` in `PROJECT.json` has the same list with what is left out of each
part; `hazards` has the concrete places where something can go wrong, with the
properties aimed at each.

## 2. Modules

| Module | What it is |
|---|---|
| `TaskTable` | the task lifecycle, as the pallet drives it |
| `MCTaskTable` | `TaskTable` with a history (when a task was last touched), for the property about silence |
| `TaskTableProofs` | types, artifacts, rows, budgets, plans, leases and ends of `TaskTable`, proved |
| `Litter` | patrons, votes, comments, stats and epoch, and the replay of effects |
| `LitterProofs` | that folding the effects gives what the calls left, and that this is sound, proved |
| `Mesh` | the election, with what the node does around it |
| `MeshProofs` | the safety of the election, proved |
| `Store` | the block log with its checkpoint, as operators on its content |
| `Replication` | members' logs following an elected primary, by pull and by push; uses `Store` |
| `Mempool` | an extrinsic's ways to the primary |
| `MempoolProofs` | its queues, its reigns and its marks, proved |
| `Signer` | the writers of one account: nonces, attempts, answers |
| `SignerProofs` | what the writers are told, proved |
| `Subsequences` | the entries of a sequence that are in a set, by position |
| `SubsequencesProofs` | what such a subsequence keeps, and induction over numbers as a set |
| `ToolCalls` | what the agent's loop promises about a query, in four steps |
| `Agent` | the agent's loop; implements `ToolCalls` |
| `AgentProofs` | its types, the turns it takes on its own, its history, its counters and ids, and that it implements `ToolCalls`, proved |
| `LocalTasks` | a cat's to-do list, as operators on it |
| `Cat` | whoever follows a node's log of events; uses `LocalTasks` |
| `CatProofs` | a cat's to-do list, a terminal's count of sealing lines, that no event is acted on twice, and that what concerns a reader is heard, proved |
| `MC...` | instances, boot states and symmetries of each for TLC |

The modules meet where the code does.  `Mesh` elects; `Replication` has only
the outcome of an election; `Mempool` has only who leads and who has a route;
`Signer` has only how a node answers.  `Litter` and `TaskTable` say what a
block's effects do to storage; `Replication` says which blocks a node has;
`Cat` says what reaches somebody who reads them; `Agent` says what a wake leads
to.

Definitions whose comment starts with "Mutant" are wrong on purpose: each is a
plausible slip in the code that some property must catch.

### TaskTable

The source keeps one vector of one struct; the model keeps `parents` and
`subs`, each row with the fields its kind uses.  One operator per effect
(`ClaimedRow`, `LeaseExpiredRow`, ...) says what `TaskTable::apply` does to a
row, so a verb is a guard (its early returns) and a composition of effects in
the code's order: a claim is the `Record` and then the `Nudge` that announces
the lease, a reopen is the `Record` and then the `Assigned`.  A refused act
changes nothing in the code, so it is no step.  Authority is worked out from
the caller as `authority_of` does, the operator first.  `OpenBlock` is
`on_initialize`: `tick` (sub-tasks, then directives on the fresh sub-tasks),
then `gc`.

`None` is Rust's `None`.  Task texts, expectations and bodies are left out, and
so is `say`, which changes no row.  Block numbers are 64-bit and the sums
saturate in the code; the model's never come near.  Callers are members: a
patron's call is refused before it reaches the table.

### Litter

`live` is the storage of the node that makes the blocks.  A call changes it and
deposits an effect; `ToBlock` is the filter of `absorb`; `Folded` is
`replay_effect`, and `FoldPatron` the function the call and the replay share.
`Replay` is all a replica or a reloading node does: the blocks above a height,
of each its effects (`FoldedAll`).  `Reload` is a restart or a
demotion, after which storage is the checkpoint with the blocks above it.

### Mesh

A node is one record: what `Hard` holds, the role, whom it follows, the votes
counted, and the head of its log.  Each handler runs under the node's lock and
ends in `save_hard`, so each is one action; everything that crosses the network
stays in `requests`, `replies` and `said` and may be handled late, twice, in any
order or never.  `OnVoteRequest` and `OnVoteReply` are the machine's handlers,
`MeshVote` and `CampaignReply` the node's calls of them.  Calls that can no
longer change anything are dropped from these sets, which keeps the state space
small and takes no behaviour away: a refused or outdated reply with no higher
term is ignored by its asker, and what a pre-vote of an abandoned campaign could
still bring, a higher term, the answering node's status brings as well.

Time is what the handlers ask about it.  `sticky`: the leader was heard within
the minimum election timeout.  `seen`: the members a leader heard within it.
`LeaderGoesQuiet` and `MemberGoesQuiet` close these windows.  Deadlines are
random in the code, so a node that is not held back may campaign at any time.

`Append`, `Take`, `Rewind` stand for what replication does to a log as far as
the election can tell: its head, and the term it was last extended in.
`Restart` brings a node back with what is on disk, where a block may be without
the head term that goes with it.  `DiskFails` lets `put_aux` fail, which
`save_hard` only logs.

### Store and Replication

`Store` gives each call of `miot-store` as a function of the store's content.
A block is its height and the term it was made in: bodies end with the time they
were sealed, so blocks of two producers differ.  Blocks that were pruned stay in
`log` as the history their checkpoint stands for, and only `Block` and `Page`
know that they can no longer be read.

`Replication` puts one store on each node.  The election appears as its outcome
(`Elect`, `Hear`, `LearnTerm`, `LoseLeader`).  A real vote and the victory can
be one step because from its vote on a voter follows nobody and its log rests.
Each of these ends in `Followed`, the part of `follow_mesh` that picks a peer
and asks for a comparison; a member here has a route to whoever `Routes` says,
while in the code it also has to have had an answer on it once.

A replica round (`pull`) and a push session (`push`) are split where the code
awaits: one action for each stretch that holds the node's lock, one for each
answer.  `ServeHead`, `ServeCheckpoint` and `ServePage` read the peer's store at
the moment it answers, and `NoAnswer` is a call that fails.  A push is a message
in `sent`; its answer goes back with `OnPush`, and `PushUnanswered` gives up
waiting although the push may still arrive.  There is one session per pair.
`compared` is `push_reconciled`; it is keyed by term, and nobody leads a term
twice, so that the code also empties it on demotion makes no difference.  `Poll`
is a primary's poll of a peer it may push to: the poll carries the primary's
status, so who has answered it has heard who leads (`polled`).  `push_targets`
starts a session only when it has seen a peer off its head for a window, and in a
first reign that window begins with such an answer.

`Restart` comes back with the store and the hard state.  The last thing on disk
may be a block, produced or pulled, without the head term that belongs to it.

`follow[n].blind` and `missed` are history: they remember that a comparison could
not see a difference (section 4 tells how), and no action looks at them.

### Mempool

An extrinsic is its nonce.  A request is one call of `accept_extrinsic` on its
way, followed hop by hop: `AcceptHere` finds this node leading and lets the lock
go, `AcceptRun` takes it again and runs the extrinsic, `AcceptForward` passes it
on, `AcceptQueue` takes it in.  What the origin does with the answer (a client
nothing, a mempool round drops the entry, a carrier remembers the hash) is
`Heard`.  `mempool_round` is split per entry and, where it runs one, between the
look at the route and the lock.  `Poll` is one exchange of statuses:
the poller tells what it carries, the polled node marks those entries and offers
others.  The sealed blocks are one log every node has, so that a reign's blocks
stand for what replication keeps; a demoted node loses its open block, and with
it the nonces.

### Signer

An act runs through `Record`, `Sign`, `Arrive`, `Answer`, again from `Sign` as
often as its writer tries.  The three writers differ in `Attempts`, `Transient`
and what a failure leaves cached.  `route` is what the node answers with: it
leads or forwards ("primary"), it follows a primary that does not answer
("dead"), or it knows none ("nobody") and queues.

### ToolCalls and Agent

`ToolCalls` is the abstract specification: queries are started, land, are told
in a turn, and are lost only with a failed turn or all together.  `Agent` is the
loop of `run` with the select's arms, the drain of both channels (`Gather`), the
wait for the rest of a batch, the watchdog (`Tick`), the turn with retries, tool
dispatch, compaction and the saved conversation.  Its refinement mapping is
`PhaseOf`: where a call is as the model that asked for it sees it, so that a
call of an ended session is gone although it still runs.  Between two awaits the
loop is one step, as what happens elsewhere waits in a channel.  Time is the
three lengths of idleness the watchdog tells apart.  Of the conversation the
model keeps which results it shows under which ids, since that is what a
restored conversation can get wrong.

### Cat and LocalTasks

`node` is a node's log of events with the blocks it is rebuilt from;
`Demote`, `Rewind` and `Adopt` are the three ways it is rebuilt
(`reload_from_store`), `Pull` takes back blocks that were there before.
`Checked`, `Accepts` and `Advanced` are `EventCursor`, which a cat, the terminal
and `kot log` share; a cat that is asleep has a loop of its own.  `watch_chain`
is split into the poll of the head, the fetch, the wakes sent one by one and the
save of the session, with a restart possible between any two, in the middle of
writing the to-do list too (`torn`).  The list's calls come from turns that run
beside the loop.  The terminal's count of lines that are sealing is
`env.sealing`.

A setup picks one reader and the kinds of events that concern it, since readers
do not influence each other, and up to which height the node seals quiet blocks.

## 3. Runs

| Run | Question | Result |
|---|---|---|
| `tasks` | one task from opening to collection and a late second one, two sub-tasks each, two agents and the operator, seven blocks | holds |
| `litter` | long histories of patrons, votes and comments, folded from genesis and from a checkpoint | holds |
| `election` | three nodes after a partition, restarts, any delivery, a third term | holds |
| `election_cut` | partitions, three members and a learner; check-quorum under fairness | holds |
| `replicas_pull` | a member that leads and pulls in turn, three terms with `/clear`s, torn writes, a primary lost and found; it reaches a primary it keeps | holds |
| `replicas_push` | a diverged member that pulls and is pushed to, any push lost, late or not answered, torn writes | holds |
| `replica_headterm` | what a majority holds survives, with a member that was behind | violated |
| `mempool` | a node behind a NAT and a reachable one, two extrinsics, changes of primary, lost calls | holds |
| `mempool_carry` | a node that calls nobody, polled by two others, and no primary | violated |
| `signer` | three acts of one account, four plans of who writes them | holds |
| `agent` | the loop with every budget at one, three calls, a message or a reset, a crash | holds |
| `cat` | a cat, a sleeper, the terminal and `kot log`, each following three events | holds |

Five counterexamples are kept beside the runs, each with one property, stated from
the code's own words, that TLC finds violated in seconds (`tlc -config X.cfg M`);
`PROJECT.json` does not list them.  Section 4 tells what they show.

| Configuration | Property | Question |
|---|---|---|
| `MCReplicationFlag.cfg` | `ReconciledIsPrefix` | who need not compare any more agrees, with a primary that is lost and found |
| `MCReplicationCheckpoint.cfg` | `ReconciledIsPrefix` | the same, with two primaries that compact at one height |
| `MCReplicationRewind.cfg` | `PushesContinue` | pushed blocks continue the log they land on, with a rewind that is not answered |
| `MCCatAsleep.cfg` | `EveryMessageAnswered` | a cat asleep answers every message to it, with a log that is rebuilt |
| `MCLitterOffRecord.cfg` | `OffRecordStaysOut` | what is off the record is in no block |

Properties of the table:

* `TypeOK`: the type invariant, `TaskTable`'s base for the proofs.
* `RowsCoherent`: in each status exactly the fields are set that some clock or
  somebody needs to move the row on.
* `BudgetsRespected`: no nudge, re-offer or directive beyond its budget.
* `PlanWhole`: rows come with a whole plan and go with their parent.
* `ArtifactSound`: an artifact is the single end of a parent that is finished.
* `SilenceSettles`: a parent nobody touches for a lease, the re-offers and the
  directive budget has ended.  This is the tick's promise that silence costs
  nothing, stated as a bound, so it needs no fairness.
* `EndsForGood`: ended parents stay as they ended, numbers never come back.
* `LeaseHolds`: a claim is exclusive until its lease is over.
* `TimeKeepsResults`: a block alone never throws a result away.

Properties of the pallet:

* `ReplicaAgrees`: whoever folds the blocks from genesis holds what the calls
  left on the node that ran them, epochs apart.
* `ReloadKeeps`: a node that reloads between two blocks has what it had.
* `PatronsSound`: no account is two of member, patron and requester, no two
  share a name, requests are capped, a voter is on one side once.
* `OffRecordStaysOut`: what is said off the record is in no block.  It does not
  hold; see section 4.

Properties of the election:

* `ElectionSafety`: at most one node ever leads a term.
* `VotesStand`: terms never fall and a vote is not changed within a term.
* `FollowsALeader`: whom a member follows did lead its term.
* `WinnerUpToDate`: a winner is as far along as a majority.
* `CutOffKeepsTerm`: without a majority no term is entered.
* `CutOffLeaderRetires`: a leader nobody reaches stops leading.
* `LearnersOnlyFollow`: learners never vote, campaign or lead, and nobody counts
  a vote of theirs or gives one to them.

Properties of replication:

* `ReplicaIsPrefix`: a replica that is done comparing has a part of its
  primary's log, unless its comparison was blind.
* `TailsThePrimary`: when a replica's log grows, it grows to a part of the log
  of whoever leads its term, with the same exception by pull, and by push unless
  the primary's comparison was blind or its rewind not answered.
* `ReconciledIsPrefix` and `PushesContinue`: the same two without exceptions.
  They do not hold; see section 4.
* `PrimaryOnlyAppends`: nothing asked for as a replica lands on a primary's log.
* `MajorityKept`: who is elected has every block a majority has.  It does not
  hold; see section 4.
* `CatchesUp`: a replica that keeps its primary gets to its head and checkpoint,
  unless a blind comparison was its last.

Properties of the mempool and the signers:

* `QueueSound`: the order stays within its cap, and every entry is in it.
* `OncePerReign`: however many ways an extrinsic takes, one reign runs it once.
* `MarkedIsElsewhere`: while roles stand still, what a poller said it took is
  settled, or queued at another node too.
* `SomeoneDelivers`: while roles stand still, what somebody took in is never
  left to nobody.  It does not hold; see section 4.
* `ToldTheTruth`: unless an answer is lost, an act runs once at most, and its
  author is told that it is done exactly if it ran, is queued, or was dropped
  from the queue.
* `NobodyGivesUp`: with no fault, several writers of one account make none give
  up or be refused.

Properties of the agent's loop:

* `CountsExact`: the counters the loop waits and exits on are the calls that are
  really out.
* `OwnTurnsBounded`: turns nobody asked for are bounded, whatever the model
  answers.
* `IdsNameOneResult`: an id in the conversation names one result, after a
  restart too.
* `HistoryIsCurrent`: the file a restart would load, which is the one of the
  epoch the chain is in, holds no conversation of an earlier one, with the
  exception section 4 tells of.
* `KeepsPromise`: the loop implements `ToolCalls`.
* `EachCallAnswered`: every query is told, or gone with its session or turn, or
  held with every release spent.

Properties of those who follow events:

* `ActedOnce`: no event wakes a cat twice or is shown twice, as far as the
  cursor can know.
* `Heard`: what concerns a reader has been acted on, or passed over for a newer
  one of its kind, once the loop has read to the end; and what a sleeper passes
  over is only what a rebuilt log holds when it finds that out.
* `EveryMessageAnswered`: the same of a sleeper, with nothing passed over.  It does
  not hold; see section 4.
* `ListKeeps`: the to-do list is the session's own, its file holds it, ids are
  given once, and it stays bounded.
* `SealingEnds`: once every line was refused or came back, none is shown as
  sealing.

### Bounds

`tasks`: all timers are 1 or 2 blocks and all budgets 1, so that the ends of
leases, windows and budgets fall together in every order within seven blocks;
`SettleWithin` is 4 with these values, so a task can be touched, left alone and
settled inside the bound.  Two sub-tasks are what "some" and "all" need.  Both
agents are interchangeable (symmetry) since neither leads at genesis.  A second
task may be opened from the seventh block on (`SecondFrom`), beside the first
one or after it was collected, so that numbers, artifacts and rows of two tasks
can meet; how time treats it, the first has shown.

`litter`: two members and two strangers who may want the same one of two free
names, three counting one the roster has; one pending request at most; a thread
of two comments.  `Budgets` allows either six calls about patrons, or four of the
other ones, or two of each: enough for a request to be answered, revoked and
asked again, and for a comment to push out the oldest.  Strangers and free names
are interchangeable.

`election`: three nodes are the smallest mesh with a majority that is not
everybody.  The run starts from the disks that a partition in term 1 and an
election in term 2 leave, with the old leader's word still on its way, instead
of spending terms on reaching that; the old leader lists the others only, the
rest list themselves as well.  `election_cut` is about one term of one leader.

The replication runs have three members, one or two of which lead, and logs of
two or three blocks: enough for two primaries to differ below and above a
checkpoint and for a page to be one of several.  `Restless`, `Pullers` and `Pushed` say which
members campaign, pull and are pushed to; a member that does not pull stands for
one whose task has not come round, and the third member votes and calls nobody.
`ClearTerms` are the terms in which the operator clears: both of those that are
led in `replicas_pull`, whose members start from an unpulled block of a first term.
`replicas_push` starts from the four states that three terms may leave two members
in who did not hear of each other's last block: with one checkpoint, with a later
one of the peer's or of the primary's, and with two of one height (`Apart`).  So
every kind of push comes first in some of them, and nobody clears in the term that
follows.  Nothing else that can go wrong is switched off: any status may come at
any moment, any call and any push may be lost or late, any crash may tear a write.
One push is under way at a time in `replicas_push`: one that is late is met by the
peer's own rounds and by changes of leader, and the next push waits for it.

`mempool`: two nodes of which only one can call the other, the shape the relay
and the carry were written for (`docs/HANDOFF.md`); two extrinsics and a queue
of one, so that one evicts and a nonce comes too early; two clients' calls, two
requests on their way at a time; two troubles (changes of role, restarts,
expiries, lost calls) and two blocks.  `mempool_carry` is the smallest mesh with
two pollers, of which nothing goes wrong and nobody leads.  No node lists itself
among its peers, which is how the machines are set up
(`docs/TOPOLOGY_TARGET.md:78`); the mesh itself would tolerate it.

`signer`: three acts are a cat's two with a third that takes a nonce in between;
the attempts are the code's own (4, 3, and 2 then 1 per round); two faults let a
retry meet a second one.

`agent`: three calls let two be out while the third is started, with any one
kind or one of the listed pairs in an answer; every budget is 1, so that each
cap is met and each refill is seen; one message, reset or end of the inbox, and
one crash.

`cat`: three events with a log that holds two, so that a block has a part that
was read and a part that was not, and the log drops the start of one; two
troubles (rebuilds, restarts, missed heads), so that one can hit the repair of
another; one epoch.  Quiet blocks only move the heights of the others: three of
the setups have one, as the first block.  The setups keep apart what does not
interact: a message and a root's word coalesce each on their own, the list has
four calls on its own, two lines are typed.  `MaxOpen` and `MaxClosed` of 2 and 1
let four calls fill and trim the list.

### Fairness

`CutOffLeaderRetires` needs a little: that windows close for a node that is
cut off, and that a leader's tick runs.  `mesh_round` runs on every node every
poll interval and its requests time out, whatever the network does, so both
are justified.  Nothing is assumed about messages.

`CatchesUp` assumes that the replica loop keeps coming round, that a call ends
(the client has a timeout of ten seconds) and that of calls made again and again
some are answered (strong fairness of the `Serve` actions).  It is stated for a
primary that stays, so nothing is assumed about elections.

`EachCallAnswered` assumes that the runtime polls the loop's task when it is
ready, that the model's request ends, that time passes while the loop is idle,
and that every tool call ends (a shell has its timeout).  Nobody is assumed to
write, and the process is not assumed to be restarted: what only a message could
wake is therefore an exception the property names.

The table stops at `MaxBlock` and `MaxParents` and the election at `MaxTerm`,
but neither deadlocks there: the operator can always change the leader, and
nodes can always be restarted.  Deadlock is not checked for `agent`, whose loop
ends when its inbox closes, and for `signer`, which ends when every act is
answered.

## 4. What the models showed

Most of what the properties say holds, with the exceptions that are written into
them.  What does not hold, or holds only with an exception, is collected here.

**In runs of their own.**  `MajorityKept` fails in `replica_headterm`: the
election compares the term a node was in when it last appended, not the term of
the block it appended.  A replica that was behind and has pulled a first old
page when the next election comes is "further along" than the members that have
everything, wins, and makes them rewind.  The mesh module's text promises that
only blocks nobody pulled are lost (`miot-mesh/src/lib.rs:56`).

`SomeoneDelivers` fails in `mempool_carry`, with no fault and no change of role:
two nodes without a primary poll a third and each other.  Both take the third's
extrinsic, both say so, and so each marks the other's entry, and the third's is
marked as well (`node.rs:1984`).  A marked entry is neither offered nor relayed,
and is dropped once its node has a route, since "Someone else is delivering it."
(`node.rs:2524`); and `docs/MESSAGE_ROUTING.md:164` has it that "several pollers
may all take the same write; the first applies it".  Here nobody sends it, while
the client was told that it is pending.  `MarkedIsElsewhere` is what does hold of
a mark, and is proved.

**In counterexamples beside the runs.**  `OffRecordStaysOut` fails in `MCLitterOffRecord.cfg`, in one call: `absorb` leaves an
off-record `Said` out of the block (`node.rs:769`), but a reply or a tagged
message is a `Message`, and is sealed.  The pallet says of `post` that
"`off_record` keeps it out of the block log" (`pallet-litter/src/lib.rs:671`),
`docs/STORAGE.md:94` that off-record messages are "never sealed", and a cat is
told that such a message "was never written to the chain" (`agent.rs:500`).
The filter cannot simply be widened: a post on an artifact also stores a comment,
and a replica makes that comment from the block, so that `ReplicaAgrees` would
fail.

`ReconciledIsPrefix` fails in two ways, and what is common to them is called a
blind comparison.  In `MCReplicationFlag.cfg` the primary is lost and found again around
the rewind: `rewind` does nothing when its peer is not the one to follow
(`node.rs:1473`), the comparison still reports success, and `replica_round`
(`node.rs:1308`) clears `needs_reconcile` if the peer is back when it takes the
lock.  In `MCReplicationCheckpoint.cfg` two primaries compact at one height, and the
comparison (`node.rs:1444`) looks above the checkpoint only.  Either way the
replica has a log that differs, compares no more while it keeps this primary, and
goes on: a block fits by its height, so `TailsThePrimary` and `CatchesUp` would
fail with it, and therefore have the same exception.  `TailsThePrimary` needs it
for one more moment: a primary that is lost during the comparison and back only
after it leaves the flag set, but the round goes on to fetch a page, which lands.

`EveryMessageAnswered` fails in `MCCatAsleep.cfg`.  A cat asleep notices a rebuilt log
only by a head behind its number, and goes on from that head (`agent.rs:1176`): a
message that came between the rebuild and the look is never answered, although
`run_asleep` has it that "Every DM or `@name` tag gets [`asleep_reply`] back"
(`agent.rs:1154`).  The comment at that line speaks of not waiting past the head only.
Such a message is in `passed`, which `Heard` excepts; what comes after the look is
heard.

`PushesContinue` fails in `MCReplicationRewind.cfg`: `push_to` notes the comparison as done
(`node.rs:1599`) before its rewind is known to have arrived.  If the call fails,
the next session does not compare again in this term, and pushes blocks onto a
log that differs below them.

**When a bound is lifted.**  The passing runs leave these out, and each fails if
it is let in:

* `DiskFails = TRUE` in `MCMesh.cfg` breaks `ElectionSafety`: `save_hard`
  (`node.rs:807`) only logs a failed write, so a vote is told that a restart
  forgets, although the comment above it wants the vote on disk first.
* `MCReplicationHeadTerm.cfg` with `Boots <- Forking` and `Restless = {n1, n2}`
  breaks `MajorityKept` in another way than `replica_headterm`: a replica that
  crashes after a page's blocks and before `save_hard` comes back with an old head
  term and votes for an ex-leader that has a minority block in their place.
* An invariant that live rows stay within `MaxTasks` fails in `TaskTable`: the
  cap is looked at when a parent is opened (`miot-tasks/src/lib.rs:557`), and
  two parents opened before either is planned pass it.
* `OncePerReign` over all reigns at once fails in `Mempool`: nonces are in no
  block (`node.rs:894`), so a new primary starts from its own count, and an
  extrinsic that was sealed before and is still queued somewhere runs again.
* `MarkedIsElsewhere` without "while the roles stand still" fails: a carrier
  that still follows a primary just demoted sends it its own extrinsic back,
  which is queued there already, and reports it as taken.

**As an exception in a property.**

* `OwnTurnsBounded` is `MaxFollowups + MaxReleases * (1 + MaxFollowups)`, as
  each release buys its own turn and the follow-ups after it.  The comment at
  `agent_state_machine.rs:181` gives `MAX_FOLLOWUPS * (1 + MAX_HELD_RELEASES)`.
* `HistoryIsCurrent` excepts a reset that waits.  The history file is named by
  the epoch of the to-do list, which `watch_chain` empties before the loop takes
  the reset; a turn that ends in between writes the old conversation into the
  new epoch's file, and a crash right then brings it back, although
  `agent.rs:929-932` says that an old file is never looked for.
* `ActedOnce` excepts a restarted cat and a log that outgrew its cursor.  The
  session file holds the cursor's number and not how much of its block was read,
  and a rebuilt log that has grown past the cursor before the next poll looks
  like one that only grew.  A sleeper answers again what is pulled again.
* `Heard` excepts what was superseded, what a sleeper passes over, what came
  before the last rebuild or restart, and such an outgrown log.  A cat that crashes between saving its
  session and handling the wakes has lost them.
* `Heard` also excepts the block a cursor skips in when the log has dropped
  entries of that block (`SkipsMore`).  `accept_at` skips as many of the block's
  entries as were read of it (`common.rs:271`), counted from the first the log
  still has, so that past `LOG_CAP` entries (`node.rs:760`) it skips unread ones
  too.  It takes no rebuild: a poll that is not answered holds the cursor against
  the head of the poll before (`agent.rs:1284`), which is behind it once it has
  read on, and the log is taken for a rebuilt one.
* `LeaderElected` is a directive that wakes its leader (`Effect::wakes`), but
  `Cat::prompt` has nothing to say about it: the new leader is told nothing,
  where the pallet and the table call the promotion an instruction to act.
* `SealingEnds` excepts a line given up in the background, whose share of the
  count nobody takes back.
* `ListKeeps` bounds the list by `MaxOpen + MaxClosed`: a closed row may be
  started again past `MAX_OPEN`.  The list is written in place, so that a crash
  in the middle loses it, and ids start over.
* `ToldTheTruth` excepts lost answers: a call that ran and whose answer was lost
  is sent again with a new nonce and runs twice.  A queue's entry that the chain
  refuses is dropped after its author was told it was pending.
* `ReplicaAgrees` leaves out epochs: `clear_all` and `request_compaction` raise
  the epoch without an effect, so that a replica stamps comments with an older
  one until it adopts the checkpoint.

Beside these, stage 1 of the tick goes on re-offering the sub-tasks of a failed
parent until they are collected; `clear_all`'s comment says that nothing reads
them once their parent is terminal.  A patron's approver may be revoked with the
patrons it approved staying, and patrons may approve each other in a ring.

## 5. Proofs

The theorems hold for every value of the constants that satisfies the named
assumptions, so for any number of accounts, nodes, acts or calls, whatever the
budgets and timers are.  Each safety theorem follows from an inductive
invariant; TLC checked each of these on the instance of its run before it was
proved.

### The task table

`TaskTableProofs`.  Assumed: `AccountsAssumption` (the
operator is an account, `None` is none), `TimersAssumption` and
`LimitsAssumption` (natural numbers).

* `TypeCorrect`: `Spec => []TypeOK`.  Lemmas say that every row operator and
  both stages of the tick map rows to rows, and that `Gc` keeps types.
* `ArtifactsAreSound`: `Spec => []ArtifactSound`, inductive together with
  `TypeOK` and the bound of parent numbers by `nextParent`.  Only a commit adds
  an artifact or closes a parent, with every sub-task cleared, and no later act
  or block takes a clearance back: claims, submits, reopens and re-homings ask
  for another status, and the tick leaves cleared rows alone.
* `PlansAreWhole`: `Spec => []PlanWhole`, from `PlanInv` (types, numbers in use
  are below `nextParent`, plans are whole).  The point is that rows are added
  by a plan only, to a parent that is open and so has none, and are dropped with
  their parent only.
* `RowsAreCoherent` and `NagsAreBounded`: `Spec => []RowsCoherent` and
  `[]BudgetsRespected`, from `RowInv`, which says more of a row than either
  (`SoundRow`: whoever holds it is an account, a window opens from a nudge, a
  counter that is at its budget is not raised).  `SubsNext` says once what any
  step does to a row that stays: one act on it, or the tick.
* `LeasesHold`, `TimeKeepsAllResults`, `EndsAreForGood`: the action properties,
  each from the same invariants and `SubsNext`.

### The pallet

`LitterProofs`.  Assumed: `LitterAssumption` (the root is a member, strangers are
not, the limits are positive), so for any accounts, names and artifacts and any
number of blocks.

* `ReplicasAgree`: `[]ReplicaAgrees`, and `ReloadsKeep`: `[]ReloadKeeps`, from
  `FoldsToLive`.  Neither is inductive: one folds from genesis and leaves epochs
  out, the other folds from a checkpoint that was taken from the node's own
  storage.  What holds at every step is that both ways to fold the sealed blocks
  (`Sealed`, `Reloadable`) differ in epochs at most, that the first with the open
  block comes to `live` but for epochs, and that the second with the open block
  is `live`, unless a compaction is asked for: an epoch that ends is in no effect,
  and only the checkpoint the next block takes carries it.
* `PatronsAreSound`: `[]PatronsSound`, from `StaysGood`: `Reloadable` is as sound
  as `live`, since a restart or a demotion brings it back.

The lemmas that carry this are about the fold: an effect does the same to
storages that are alike but for epochs (`FoldedAlike`), one more effect or block
at the end is one more step (`FoldedOneMore`, `ReplayOneMore`), and every call
leaves exactly what its effect folds to (`CallStep`), so what a call changed
without saying so would break the proof at that call.  `FoldedAll` and `Replay`
are recursive functions: what they compute at each position is proved by
induction over positions (`FoldIs`, `ReplayIs`).

### The election

`MeshProofs`.  Assumed: `NodesAssumption` (learners are no members, everybody
lists the members as peers, as `Mesh::new` is given them) and
`EarlierTermsAssumption` (what earlier terms left on the disks is what an
election leaves: who led a term had a majority, whose votes stand).  The empty
stores of a new litter satisfy both.

* `TypeCorrect`, `FollowersHaveALeader`, `LearnersHaveNoSay`: `[]TypeOK`,
  `[]FollowsALeader`, `[]LearnersOnlyFollow`, from `RoleInv` (what each role
  says of the rest of the state, what may be on disk, and who a request, a reply
  and a status can be from).
* `ElectionIsSafe`, `VotesDoStand`, `WinnersAreUpToDate` and
  `CutOffNodesKeepTheirTerm`: `ElectionSafety`, `VotesStand`, `WinnerUpToDate`
  and `CutOffKeepsTerm`, if `~DiskFails`.  That hypothesis is needed: section 4
  has the counterexample, a vote that was told and never written.  It is what
  `save_hard`'s comment takes for granted.

`ElectionInv` adds to `RoleInv` that the disk has the vote (`disk = HardOf`),
that a vote on its way or counted still stands while its term does (`VotesOK`),
that nobody gives two in a term (`OneVote`), that whoever led a term has it from
a majority that will back nobody else in it (`LeadersOK`), and that whoever
backs a candidate has no longer log, as long as the term has no leader to take
blocks from (`CandidatesOK`).  Two majorities meet (`MajoritiesMeet`), so a term
has one leader.  A restart is where the disk is needed: an earlier life's vote
would otherwise be given again.  All handlers move one node; they are read once
as moves with a few facts about them (`IsMove`), and the invariants are shown for
moves.

### The mempool

`MempoolProofs`.  Assumed: `MempoolAssumption` (caps are positive, an extrinsic
is a nonce, no node is its own peer).

* `QueuesAreSound`: `[]QueueSound`, from `TypeInv`, which holds of each node
  that its queue is bounded and every entry is in the order (`NodeOK`).
* `ReignsRunOnce`: `[]OncePerReign`, from `ReignInv`: one node leads, and what a
  reign has sealed, what it has in its open block and its next nonce are in
  order.  However an extrinsic got to the primary, it runs only as the next
  nonce, and that only grows within a reign.
* `MarksAreElsewhere`: `[]MarkedIsElsewhere`, from `CalmInv`: while the roles
  stand still nobody without a route finds one, so what a poller announces is in
  its queue or settled, and entries that have no route to go leave a queue by
  eviction or by age only, which settles them.

### The writers of an account

`SignerProofs`.  Assumed: `SignerAssumption` (plans are plans).

* `AuthorsAreToldTheTruth`: `[]ToldTheTruth`, from `TruthInv`: unless an answer
  is lost, an act is taken by the chain, once, if and only if its author has been
  told or is about to be.  Every answer but a lost one comes from the step that
  did, or refused, what it says.

### The agent's loop

`AgentProofs`.  Assumed: `BoundsAreNat` (budgets are natural numbers) and
`AnswersAreCalls` (an answer is a sequence of the calls there are), so for any
number of calls and whatever the model answers.

* `OwnTurnsAreBounded`: `[]OwnTurnsBounded`, from `OwnInv`: the turns nobody
  asked for are paid for, one each by a follow-up and `1 + MAX_FOLLOWUPS` by each
  release that is spent (`Owed`).  A wake of the loop's own is at the head of
  what a decision sees and is counted in `synthetic_wakes`, so `ReleasesLeft` can
  tell it from a message; outside a decision the count is zero.  That is what
  keeps a release from giving itself back.
* `HistoryStaysCurrent`: `[]HistoryIsCurrent`, from `HistoryInv`: the epoch the
  process started on, moved on by the resets it has taken and by those that wait
  in `pending` and the inbox, is the epoch of the chain.  So what is persisted
  while no reset waits is of the epoch its file names, and every step that takes
  a reset in persists.

* `CountersAreExact`: `[]CountsExact`, and `IdsNameResults`: `[]IdsNameOneResult`.
* `ImplementsToolCalls`: `Spec => KeepsPromise`, the refinement of `ToolCalls`.

The first two need `TypeInv`, which says more than `TypeOK` of the struct: that a
check-in that is armed is within its budget, and that the loop is at a check-in
only if one is armed.  What each step does to the struct is read once, by
operator (`GatherIs`, `TakeIs`, `BackIs`, `WatchIs`, `AtTopIs`); ten of the steps
change nothing of the two invariants but the conversation on disk (`Quiet`).

The other three need `CallInv`, which follows each call from its start to its
end.  None of its parts is inductive alone:

* `Queued`, `Kept`: what is in the lane, in the channel, held, gathered or told
  is in that state, in one place and once.  A result in two places would leave
  the counters twice and be told twice.
* `Sessions`: no call is of a session to come, and what waits is a query of this
  one.  This is what makes a reset drop all that waits, and `back` drop what
  comes later.
* `Numbered`: the calls begun are the first so many, so an answer starts new
  ones.
* `Counted`: the three counters are the calls that are out.
* `Ids`: the ids on the rows, and those of what waits, are below the next one,
  and no two are alike; the same of the rows and the next id on disk, which are
  what a restart goes on from.  An empty conversation is persisted with
  `talk = FALSE`, so that a restart may begin its ids anew only where no row is
  left.

Step by step the loop maps to `ToolCalls` as follows.  `Land` is a batch of
results that goes in: `Receive` or `Tick` without a reset, and `BatchBack`.
`Turn` is `Act` and `TurnDropped`, `Lose` is `TurnFails`.  `Forget` is
`Receive`, `Tick` or `BatchTake` with a reset, and `Restart`.  Every other step,
and the end of a call in the lane, is a stutter: `Ph' = Ph`.

### Who follows the log

`CatProofs`.  Assumed: `ListAssumption` (the limits on a list are natural
numbers) and `CatAssumption` (`LOG_CAP` is positive).

* `ListIsKept`: `[]ListKeeps`, from `ListInv`, which says of the file too that it
  holds nothing or one list in order (`ListOK`), so that a restart has something
  to load; that the file of a list with rows is that list, so that a restart
  loses none; and that the list is of the session's epoch, which the poll, the
  load and the reset each have to keep.  `TrimmedIs` says that `trim_closed`
  keeps the order and leaves at most `MAX_CLOSED` closed rows: those with a rank
  above the excess are counted by their ranks (`LastOfThem`).  The bound on all
  rows then follows for a call that adds (`AddedIs`), which has room among the
  open ones, and for one that marks, which adds none (`MarkedIs`).
* `SealingDoesEnd`: `[]SealingEnds`, from `SealInv`: what a terminal counts as
  sealing is at most the lines being sent with the lines that have run and were
  not shown (`Counted`).  A read takes off as many as it shows of the operator's
  own (`ShownIsCounted`), which are no fewer than the lines among them, since
  every event the node has, in its blocks, its log or those it pulls again, is
  one there was, and a line's is of the operator's own kind (`Known`, `Nodes`).
  `ReloadedHas` and `AbsorbedIs` show that of a rebuilt log, `NewsIsRead` of a
  read.
* `EventsAreActedOnce`: `[]ActedOnce`, and `LogIsOfTheRecord`, both from
  `OnceInv`, which adds three parts to `SealInv`.

  `NodeInv` says what the log is to the record.  The record (`Chain`) is the
  sealed blocks with the open one, or with those still to be pulled again; ids
  grow along it.  The log is numbered without a gap and holds `LOG_CAP` entries at
  most (`LogOK`), says the same as the record of which event came before which
  block (`Agree`), and of the record's later blocks has everything, of its own
  first block too unless it is full (`Whole`).  A message off the record is in the
  log and in no block, so a log that is rebuilt is shorter than the one before:
  all a rebuild keeps is that the record becomes a part of what it was
  (`Shrinks`).

  `ReaderInv` says how a cursor stands to both (`ReaderOK`), `A` being the ids of
  what was acted on or is about to be (`Told`).  An event on record that is in `A`
  is in the cursor's block or an earlier one, and in its block among the first
  `in_block`, unless that is all a log can hold (`Past`); the same of the entries
  of the log, counted from its start (`Knows`).  While the cursor follows the log
  (`Tracks`), it has read a part of it, `Read` entries: nothing after these is in
  `A` if it skips nothing, and if it skips, only as many of its block as it is
  still to skip (`Follows`).  A rebuild keeps `Past` and `Knows` and makes
  `Tracks` unknown (`ReaderRebuilt`); a look at the head behind the cursor, or at
  a head kept from an earlier poll, brings it back, as the cursor then reads from
  the start (`ReaderChecks`, `ReaderFromStart`); a log that grew past the cursor
  unseen does not, which is what `ActedOnce` excepts.  One entry keeps `Follows`
  (`ReadsOne`), and so does a batch, by induction over it (`ReadsAll`): its news
  have growing ids, none in `A`.

  `SleeperInv` says of a cat asleep, which has no place in a block, that nothing
  after its number in a log that was never rebuilt was answered.

  The invariant was checked by TLC before, with logs that hold one or two of up to
  five events.
* `WhatConcernsIsHeard`: `[]Heard`, from `OnceInv` with `HeardInv`.  `OnceInv`
  says what a reader may still be given, of what it was given before; this is the
  converse, that what it skips is what it was given.  `Owed` is what concerns the
  reader and came since the last rebuild or restart, `Reached` what it acted on or
  is about to, with what was passed over.

  `HearsInv` says it of the cursor (`HearsOK`): above the mark, everything owed
  that it has read is in `Reached` (`Heeds`); and if it skips, what is owed and
  not read yet is in `Reached`, or is in a later block, or in its block behind
  the entries that it is still to skip (`Awaits`).  Neither is inductive alone:
  a cursor skips later what it counts now, so it has to count what is there.
  `Places` says that above the mark the log has as many entries of the cursor's
  block as the cursor takes for read, and after them as many as it is still to
  skip, unless entries of that block were dropped (`Kept`), which is when `Fetch`
  moves the mark (`SkipsMore`).  A poll that is not answered makes a cursor skip
  in a log it follows; it reads from the start again, and `Places` is what gives
  `Awaits` back (`HearsAlarm`).  One entry read keeps the three (`HearsOne`), so
  does a batch, by induction over it (`HearsAll`, `HearsReads`), and so does what
  the log absorbs (`HearsMore`, `HearsAbsorbs`).

  A sleeper's cursor skips nothing, as it has no block: when it goes on from the
  head of a rebuilt log, all of that log is in `Reached` at once (`HearsAnew`), and
  what follows is read as before (`HeardSleeper`).

  The other parts are what lets a log that is rebuilt, or a reader that starts
  again, begin from nothing.  `EraInv`: the node has nothing of an era to come, so
  that right after a rebuild or a restart nothing in the log is owed.  `BookInv`:
  a session saved since the last rebuild is of the log that is there, and only a
  cat that is sending has something about to be acted on.  `SessionInv`: the file
  is of the session's epoch or of an earlier one, and a cursor that a restart would
  take from it is within the log, unless that was rebuilt since.  `SeenInv`: what
  is about to be sent was never sent by its number, so that `seen` drops nothing
  that is owed; the numbers start again with a rebuilt log, and `seen` is emptied
  by the look at the head that finds it.

  TLC checked this invariant too, with logs that hold two of up to three events.

### Lemmas of their own

`SubsequencesProofs` shows what the models need of a subsequence: it is a
sequence of the right length, it keeps the range within the set and does not
repeat what did not repeat.  It also holds what is needed of counting: how many
entries of a log are of a block (`Count`).  A recursive operator cannot be reasoned about here,
so `Subsequences` gives the subsequence by positions.  Induction with a predicate
as its parameter is out of the provers' reach; `InductionBySet` states it for a
set of numbers, from the well-foundedness of `<`.

### Only model-checked

* Liveness, which the proof system does not do: `CatchesUp`,
  `CutOffLeaderRetires`, `EachCallAnswered`.
* `SilenceSettles`, a bound over a history that `MCTaskTable` keeps: it follows
  from how long each stage of the tick may take, summed over the budgets.
* `NobodyGivesUp` of `Signer`: true of plans with as many writers as their
  attempts allow for, not of all plans, so that it is a statement about the
  instance (`SUBMIT_ATTEMPTS` and its likes are fixed, the number of writers is
  not).
* All of `Replication`.

## 6. Not modelled

* HTTP routing, JSON, TLS pinning, signatures of requests and extrinsics, key
  files: I/O and cryptography, which keep no protocol state.  The check of a
  signer at a node's door is taken as passed.
* The FRAME machinery and the runtime's wiring.  `set_root` needs an origin no
  pallet gives to anybody.
* The text of prompts, the transcript, aging of old conversation rows, the
  tools themselves (files, shell, search, provider calls), rendering,
  completion, commands that only read.
* Learners pulling from any member (`pull_sources`): `Mesh` has learners as
  voters that are none, `Replication` has members only.
* A push session that outlives two terms, and a leader that is deposed, rewinds
  and is elected again without a follower noticing: both take five members, or
  three terms with pushes, which is out of TLC's reach with replication.
* A disk that fails under the store (`node.rs:876`): the block stays closed in
  memory and no later block fits.

## 7. Plan

Done: every component with protocol state has a module and a run; the table,
the pallet, the election, the mempool, the writers, the agent's loop, a cat's
list, the terminal's count and the readers of the log have their safety proved,
the loop with its refinement.  Next, in this order:

1. `Replication`: `PrimaryOnlyAppends`, and `TailsThePrimary` without pushes;
   what `Store`'s operators return and preserve.
