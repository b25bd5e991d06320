------------------------------- MODULE Litter -------------------------------
(***************************************************************************)
(* What the litter pallet keeps beside the task table (pallet-litter,      *)
(* lib.rs): patrons and the requests to become one, votes, comments, stats *)
(* and the epoch.  A call changes storage and deposits an effect; the      *)
(* effects are the block, and folding them (replay_effect) is all that a   *)
(* replica, and a node that reloads its store, ever does.  The task table  *)
(* itself is TaskTable's matter, how blocks travel is Replication's.       *)
(***************************************************************************)
EXTENDS Functions, Subsequences

CONSTANTS
    Root,           \* the operator's account
    Members,        \* the roster, which the root is in
    Strangers,      \* accounts outside the roster
    Names,          \* names a request may ask for
    Taken,          \* those of them the roster has
    Artifacts,      \* what can be voted on and commented
    CommentKeep,    \* COMMENT_KEEP
    MaxRequests,    \* MAX_PATRON_REQUESTS
    MaxHeight,      \* bound: blocks
    Budgets         \* bound: how many calls, about patrons and not

ASSUME LitterAssumption ==
    /\ Root \in Members /\ Members \cap Strangers = {} /\ Taken \subseteq Names
    /\ {CommentKeep, MaxRequests} \subseteq Nat \ {0}
    /\ MaxHeight \in Nat /\ Budgets \subseteq [patron : Nat, other : Nat]

VARIABLES
    live,       \* the storage of the node that makes the blocks
    asked,      \* whether a compaction is asked for (pending_compaction)
    open,       \* the effects of the open block
    blocks,     \* the sealed blocks
    cp,         \* the last checkpoint: its height, and the storage it holds
    left        \* bound: the calls still to come

vars == <<live, asked, open, blocks, cp, left>>

Now == Len(blocks) + 1

Genesis ==
    [patrons  |-> <<>>, requests |-> <<>>,
     votes    |-> [a \in Artifacts |-> [up |-> <<>>, down |-> <<>>]],
     comments |-> [a \in Artifacts |-> <<>>],
     stats    |-> <<>>, messages |-> <<>>, epoch |-> 0]

-----------------------------------------------------------------------------
(* What an effect does to storage.                                         *)

Put(f, x, v) == [y \in DOMAIN f \cup {x} |-> IF y = x THEN v ELSE f[y]]
Without(f, x) == [y \in DOMAIN f \ {x} |-> f[y]]
Drop(s, x) == Only(s, Range(s) \ {x})

\* cast_vote: repeating a side withdraws, the other side moves.
CastVote(t, who, up) ==
    LET own   == IF up THEN t.up ELSE t.down
        other == IF up THEN t.down ELSE t.up
        mine  == IF who \in Range(own) THEN Drop(own, who) ELSE Append(own, who)
        rest  == IF who \in Range(own) THEN other ELSE Drop(other, who)
    IN IF up THEN [up |-> mine, down |-> rest] ELSE [up |-> rest, down |-> mine]

\* A comment is stamped with the epoch of whoever stores it; the oldest goes.
Commented(thread, who, at, epoch) ==
    LET longer == Append(thread, [who |-> who, at |-> at, epoch |-> epoch])
    IN IF Len(longer) > CommentKeep THEN Tail(longer) ELSE longer

\* Mutant: an approval leaves the request to be answered again.
FoldPatronKeepsRequest(s, e, at) ==
    CASE e.kind = "requested" ->
            [s EXCEPT !.requests = Put(@, e.who, [name |-> e.name, at |-> at])]
      [] e.kind = "approved" ->
            [s EXCEPT !.patrons = Put(@, e.who, [name |-> e.name, by |-> e.by, at |-> at])]
      [] e.kind = "rejected" -> [s EXCEPT !.requests = Without(@, e.who)]
      [] e.kind = "revoked"  -> [s EXCEPT !.patrons = Without(@, e.who)]

\* fold_patron: the call itself and the replay both come through here.
FoldPatron(s, e, at) ==
    CASE e.kind = "requested" ->
            [s EXCEPT !.requests = Put(@, e.who, [name |-> e.name, at |-> at])]
      [] e.kind = "approved" ->
            [s EXCEPT !.requests = Without(@, e.who),
                      !.patrons = Put(@, e.who, [name |-> e.name, by |-> e.by, at |-> at])]
      [] e.kind = "rejected" -> [s EXCEPT !.requests = Without(@, e.who)]
      [] e.kind = "revoked"  -> [s EXCEPT !.patrons = Without(@, e.who)]

\* replay_effect.
Folded(s, e, at) ==
    CASE e.kind = "stats"  -> [s EXCEPT !.stats = Put(@, e.who, e.turns)]
      [] e.kind = "stats2" -> [s EXCEPT !.stats = Put(@, e.who, e.turns),
                                        !.messages = Put(@, e.who, e.sent)]
      [] e.kind = "voted"  -> [s EXCEPT !.votes[e.artifact] = CastVote(@, e.who, e.up)]
      [] e.kind = "message" -> [s EXCEPT !.comments[e.artifact] = Commented(@, e.who, at, s.epoch)]
      [] e.kind = "said" -> s
      [] OTHER -> FoldPatron(s, e, at)

\* The effects of the block at a height, in their order.
FoldedAll(s, es, at) ==
    LET f[i \in 0..Len(es)] == IF i = 0 THEN s ELSE Folded(f[i - 1], es[i], at)
    IN f[Len(es)]

\* Mutant: effects are folded as of the block before theirs.
ReplayABlockEarly(from, bs) ==
    LET f[i \in 0..Len(bs) - from.height] ==
            IF i = 0 THEN from.state
            ELSE FoldedAll(f[i - 1], bs[from.height + i], from.height + i - 1)
    IN f[Len(bs) - from.height]

\* The blocks above the height that the storage is from.
Replay(from, bs) ==
    LET f[i \in 0..Len(bs) - from.height] ==
            IF i = 0 THEN from.state
            ELSE FoldedAll(f[i - 1], bs[from.height + i], from.height + i)
    IN f[Len(bs) - from.height]

-----------------------------------------------------------------------------
(* The calls.  A refused call changes nothing.                             *)

IsPatron(a) == a \in DOMAIN live.patrons

\* Whose extrinsics pass the nonce check: a patron has a provider while it is one.
Signers == Members \cup DOMAIN live.patrons

\* absorb keeps only a `Said` that is off the record out of the block; a `post`
\* that is goes in.
ToBlock(e) == e.kind = "said" => ~e.offRecord

Calls(sort, storage, e) ==
    /\ left[sort] > 0
    /\ live' = storage
    /\ open' = IF ToBlock(e) THEN Append(open, e) ELSE open
    /\ left' = [left EXCEPT ![sort] = @ - 1]
    /\ UNCHANGED <<asked, blocks, cp>>

ReportStats(who, n) ==
    /\ ~IsPatron(who)
    /\ Calls("other", [live EXCEPT !.stats = Put(@, who, n)], [kind |-> "stats", who |-> who, turns |-> n])

ReportStats2(who, n, sent) ==
    /\ ~IsPatron(who)
    /\ Calls("other", [live EXCEPT !.stats = Put(@, who, n), !.messages = Put(@, who, sent)],
             [kind |-> "stats2", who |-> who, turns |-> n, sent |-> sent])

\* say, as react and a post that is no comment, changes nothing.
Say(who, offRecord) ==
    Calls("other", live, [kind |-> "said", who |-> who, offRecord |-> offRecord])

\* post, a comment on an artifact; patrons may.
Post(who, a, offRecord) ==
    Calls("other", [live EXCEPT !.comments[a] = Commented(@, who, Now, live.epoch)],
          [kind |-> "message", who |-> who, artifact |-> a, offRecord |-> offRecord])

Vote(who, a, up) ==
    Calls("other", [live EXCEPT !.votes[a] = CastVote(@, who, up)],
          [kind |-> "voted", who |-> who, artifact |-> a, up |-> up])

PatronCall(e) == Calls("patron", FoldPatron(live, e, Now), e)

NameIsFree(n) ==
    n \notin Taken /\ \A p \in Range(live.patrons) \cup Range(live.requests) : p.name # n

CarryPatronRequest(carrier, who, name) ==
    /\ carrier \in Members /\ who \notin Members
    /\ who \notin DOMAIN live.patrons \cup DOMAIN live.requests
    /\ NameIsFree(name)
    /\ Cardinality(DOMAIN live.requests) < MaxRequests
    /\ PatronCall([kind |-> "requested", who |-> who, name |-> name])

MayAnswer(by) == by = Root \/ IsPatron(by)

ApprovePatron(by, who) ==
    /\ MayAnswer(by) /\ who \in DOMAIN live.requests
    /\ PatronCall([kind |-> "approved", who |-> who, name |-> live.requests[who].name, by |-> by])

RejectPatronRequest(by, who) ==
    /\ MayAnswer(by) /\ who \in DOMAIN live.requests
    /\ PatronCall([kind |-> "rejected", who |-> who])

\* The root, or the approver while it is still a patron itself.
RevokePatron(by, who) ==
    /\ IsPatron(who)
    /\ by = Root \/ (live.patrons[who].by = by /\ IsPatron(by))
    /\ PatronCall([kind |-> "revoked", who |-> who])

\* Mutant: only one of the two calls makes the node compact.
WantsCompactionOnClear(call) == call = "clear_all"

\* Node::submit.
WantsCompaction(call) == call \in {"clear_all", "request_compaction"}

\* The root's calls that end an epoch, which no effect tells.  (What clear_all
\* does to tasks, and its effects, is TaskTable's.)
EndEpoch(who, call) ==
    /\ who = Root /\ left.other > 0
    /\ live' = [live EXCEPT !.epoch = @ + 1]
    /\ asked' = (asked \/ WantsCompaction(call))
    /\ left' = [left EXCEPT !.other = @ - 1]
    /\ UNCHANGED <<open, blocks, cp>>

-----------------------------------------------------------------------------
(* The node.                                                               *)

\* advance: the block is stored and, if asked, storage is the checkpoint.
Seal ==
    /\ Len(blocks) < MaxHeight
    /\ blocks' = Append(blocks, open) /\ open' = <<>>
    /\ cp' = IF asked THEN [height |-> Now, state |-> live] ELSE cp
    /\ asked' = FALSE
    /\ UNCHANGED <<live, left>>

\* reload_from_store, at a restart or a demotion: the open block is lost.
Reload ==
    /\ live' = Replay(cp, blocks) /\ open' = <<>> /\ asked' = FALSE
    /\ UNCHANGED <<blocks, cp, left>>

Init ==
    /\ live = Genesis /\ asked = FALSE /\ open = <<>> /\ blocks = <<>>
    /\ cp = [height |-> 0, state |-> Genesis]
    /\ left \in Budgets

Next ==
    \/ \E who \in Signers :
        \/ ReportStats(who, 1) \/ ReportStats2(who, 2, 1)
        \/ \E off \in BOOLEAN : Say(who, off) \/ \E a \in Artifacts : Post(who, a, off)
        \/ \E a \in Artifacts, up \in BOOLEAN : Vote(who, a, up)
        \/ \E s \in Strangers :
              \/ \E n \in Names : CarryPatronRequest(who, s, n)
              \/ ApprovePatron(who, s) \/ RejectPatronRequest(who, s) \/ RevokePatron(who, s)
        \/ \E c \in {"clear_all", "request_compaction"} : EndEpoch(who, c)
    \/ Seal \/ Reload

Spec == Init /\ [][Next]_vars

-----------------------------------------------------------------------------
(* Properties.                                                             *)

\* Storage with the epoch, which no effect carries, left out.
Told(s) ==
    [s EXCEPT !.epoch = 0,
              !.comments = [a \in Artifacts |-> [i \in DOMAIN @[a] |-> [@[a][i] EXCEPT !.epoch = 0]]]]

\* Whoever folds the blocks from genesis, as a replica does, holds what the
\* calls left on the node that ran them, epochs apart: what a call changes
\* without an effect is lost on every other node ("permanently empty on every
\* replica").
ReplicaAgrees ==
    Told(Replay([height |-> 0, state |-> Genesis], Append(blocks, open))) = Told(live)

\* A node that reloads its store between two blocks has what it had, epochs of
\* comments and all: the counter "rides every compaction snapshot".
ReloadKeeps == (open = <<>> /\ ~asked) => Replay(cp, blocks) = live

\* What it takes for storage to be sound.
SoundStorage(s) ==
    LET ps == DOMAIN s.patrons   rs == DOMAIN s.requests
        named == {<<a, s.patrons[a].name>> : a \in ps} \cup
                 {<<a, s.requests[a].name>> : a \in rs}
    IN /\ ps \cap rs = {} /\ (ps \cup rs) \subseteq Strangers
       /\ \A x, y \in named : x[2] = y[2] => x[1] = y[1]
       /\ \A x \in named : x[2] \notin Taken
       /\ Cardinality(rs) <= MaxRequests
       /\ \A a \in Artifacts : IsInjective(s.votes[a].up \o s.votes[a].down)

\* No account is two of member, patron and requester; no two of them share a
\* name; at most MAX_PATRON_REQUESTS wait; a voter is on one side, once.
PatronsSound == SoundStorage(live)

\* What is off the record is in no block, as the doc of `post` has it:
\* "`off_record` keeps it out of the block log".  It does not hold: see
\* MCLitterOffRecord.cfg.
OffRecordStaysOut ==
    \A b \in Range(Append(blocks, open)) : \A e \in Range(b) :
        e.kind \in {"said", "message"} => ~e.offRecord

=============================================================================
