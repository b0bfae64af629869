------------------------------- MODULE L2Node -------------------------------
(***************************************************************************)
(* l2_node.py: the node that builds the L2 blocks, keeps them in its state *)
(* file until L1 has them, follows the rollup contract, and starts again   *)
(* from the file after a crash or after L1 lost blocks.                    *)
(*                                                                         *)
(* A block's hash is the sequence of the blocks up to it, so its number is *)
(* the length, and the state after it is what its hash stands for.  The    *)
(* RPC handlers and each round of `follow` hold the node's lock: they are  *)
(* one step, but for the head that `follow` and the operator read from L1  *)
(* before they take it, and for a crash between two saves.                 *)
(*                                                                         *)
(* Left out: the mempool, the RPC's window of recent blocks, and writes to *)
(* the file system that fail.                                              *)
(***************************************************************************)
EXTENDS Integers, SequencesExt

CONSTANTS SNAPSHOT_INTERVAL,
          Down,          \* the node's memory while it does not run
          NoHead,        \* no head read from L1
          MaxBuilt,      \* bound: blocks the node builds
          MaxExpired,    \* bound: times the waiting blocks expire
          MaxLosses,     \* bound: times L1 loses blocks of the rollup
          MaxCrashes     \* bound: crashes of the node

ASSUME NodeAssumption ==
    /\ SNAPSHOT_INTERVAL \in Nat \ {0}
    /\ {MaxBuilt, MaxExpired, MaxLosses, MaxCrashes} \subseteq Nat
    /\ Down \notin [chain : Seq(Nat), posted : Nat, postedState : Seq(Nat)]
    /\ NoHead \notin Seq(Nat)

VARIABLES rollup,   \* the hash of the rollup contract's head
          posts,    \* the blocks sent to L1, which may include them at any time
          disk,     \* the state file, and the files of its snapshots
          node,     \* the node's memory
          read,     \* the head `follow` read and has not acted on
          given,    \* the preconfirmations the node returned
          had,      \* the heads the rollup contract has had
          built, expired, losses, crashes  \* how often, against the bounds

counters == <<built, expired, losses, crashes>>
vars     == <<rollup, posts, disk, node, read, given, had, counters>>

Hash     == Seq(1..MaxBuilt)
Genesis  == <<>>
Snapshot == [head : Hash, state : Hash]  \* the headers and the state it holds
Disk     == [blocks : Seq(Hash), preconfirmed : Seq(Hash), snapshots : Seq(Nat),
             files : SUBSET Snapshot]
Memory   == [chain : Hash, posted : Nat, postedState : Hash]

Number(h) == Len(h)

\* The hash of the block `n` of the chain `h`.
AtNumber(h, n) == SubSeq(h, 1, n)

Running == node # Down
-----------------------------------------------------------------------------
(* The state file, which lists snapshots by number, and their files.       *)

HasFile(d, n) == \E f \in d.files : Number(f.head) = n
File(d, n)    == CHOOSE f \in d.files : Number(f.head) = n

\* The snapshot that the node starts from, if any, has its file.
Loads(d) == d.snapshots # <<>> => HasFile(d, Last(d.snapshots))

\* The file takes the place of another of its number.
Written(d, f) == [d EXCEPT !.files = {g \in @ : Number(g.head) # Number(f.head)} \cup {f}]

\* The snapshots that leave the list lose their files, before the list is saved.
Removed(d, kept) ==
    LET gone == Range(d.snapshots) \ Range(kept)
    IN [d EXCEPT !.files = {f \in @ : Number(f.head) \notin gone}]

\* Re-executes stored blocks on the chain `h`, one after the other.
Replay(h, stored) == h \o [i \in DOMAIN stored |-> Last(stored[i])]

\* What a list has at some of its positions, as the comprehensions over the
\* state file keep it.
Kept(s, positions) ==
    LET upTo[i \in 0..Len(s)] ==
            IF i = 0 THEN <<>>
            ELSE IF i \in positions THEN Append(upTo[i - 1], s[i]) ELSE upTo[i - 1]
    IN upTo[Len(s)]

AboveNumber(stored, n) == Kept(stored, {i \in DOMAIN stored : Number(stored[i]) > n})
UpToNumber(stored, n)  == Kept(stored, {i \in DOMAIN stored : Number(stored[i]) <= n})

\* The posted chain and the whole chain that the node starts from.
PostedChain(d) ==
    IF d.snapshots = <<>>
    THEN Replay(Genesis, d.blocks)
    ELSE LET s == File(d, Last(d.snapshots))
         IN Replay(s.state, AboveNumber(d.blocks, Number(s.head)))
StoredChain(d) == Replay(PostedChain(d), d.preconfirmed)

\* The highest posted block of the state file.
PostedNumber(d) ==
    Max({0} \cup {Number(d.blocks[i]) : i \in DOMAIN d.blocks}
            \cup Range(d.snapshots))

\* Mutant: the blocks before the new snapshot go, not those before the oldest.
PrunedToNewest(snapshots) == Last(snapshots)

\* The highest number a pruned block may have.
Pruned(snapshots) == Head(snapshots)

\* Mutant: all snapshots are kept.
AllSnapshots(snapshots) == snapshots

\* The two latest snapshots.
KeptSnapshots(snapshots) ==
    IF Len(snapshots) > 2 THEN Tail(snapshots) ELSE snapshots

Taking(m) == [head |-> AtNumber(m.chain, m.posted), state |-> m.postedState]
Listed(d, m) == KeptSnapshots(Append(d.snapshots, m.posted))

\* `snapshot`: what is on disk while it is taken, and after.
FilesMoved(d, m)   == Removed(Written(d, Taking(m)), Listed(d, m))
WithSnapshot(d, m) == [FilesMoved(d, m) EXCEPT !.snapshots = Listed(d, m),
                                               !.blocks = AboveNumber(@, Pruned(Listed(d, m)))]

\* Mutant: the block stays among the preconfirmed ones.
OnlyCopied(d) == [d EXCEPT !.blocks = Append(@, Head(d.preconfirmed))]

\* The oldest preconfirmed block becomes a posted one.
Taken(d) == [d EXCEPT !.preconfirmed = Tail(@), !.blocks = Append(@, Head(d.preconfirmed))]

\* One round of `mark_posted`: what it saves first, and with the snapshot.
Mark(s) == [disk |-> Taken(s.disk),
            node |-> [s.node EXCEPT !.posted = @ + 1,
                                    !.postedState = Append(@, Last(Head(s.disk.preconfirmed)))]]
SnapshotDue(m) == m.posted % SNAPSHOT_INTERVAL = 0
MarkAndSnapshot(s) ==
    LET marked == Mark(s)
    IN IF SnapshotDue(marked.node)
       THEN [marked EXCEPT !.disk = WithSnapshot(@, marked.node)]
       ELSE marked

\* `mark_posted` up to the block `n`, a round for each block; the sets of one
\* element make TLC evaluate each round once.
MarkPosted(n) ==
    LET after[round \in Nat] ==
            IF round = 0
            THEN [disk |-> disk, node |-> node]
            ELSE CHOOSE t \in {MarkAndSnapshot(s) : s \in {after[round - 1]}} : TRUE
    IN after[IF n <= node.posted THEN 0 ELSE n - node.posted]

\* Mutant: the blocks that L1 lost stay in the state file.
OnlyPreconfirmedDropped(d, n) == [d EXCEPT !.preconfirmed = <<>>]

\* `unpost`, after the files of the snapshots it forgets.
Remaining(d, n) == Kept(d.snapshots, {i \in DOMAIN d.snapshots : d.snapshots[i] <= n})
Unposted(d, n) ==
    [Removed(d, Remaining(d, n)) EXCEPT
        !.blocks       = UpToNumber(@, n),
        !.preconfirmed = <<>>,
        !.snapshots    = Remaining(d, n)]
-----------------------------------------------------------------------------
(* Preconfirming and posting.                                              *)

\* Mutant: blocks are compared by number.
NumberInChain(h) == Number(h) <= Number(node.chain)

\* `number_of` finds the hash.
InChain(h) == IsPrefix(h, node.chain)

\* The node stops at any point between two saves.
Crashes == /\ crashes < MaxCrashes
           /\ crashes' = crashes + 1
           /\ node' = Down
           /\ read' = NoHead

\* Mutant: the preconfirmed block is not stored.
NothingStored(h) == disk

Stored(h) == [disk EXCEPT !.preconfirmed = Append(@, h)]

\* `preconfirm`: the next block joins the chain and is signed and stored.
Build(h) == /\ built < MaxBuilt
            /\ built' = built + 1
            /\ disk' = Stored(h)
            /\ UNCHANGED <<rollup, posts, had, expired, losses>>

Preconfirm == /\ Running
              /\ LET h == Append(node.chain, built + 1)
                 IN /\ Build(h)
                    /\ node' = [node EXCEPT !.chain = h]
                    /\ given' = given \cup {h}
              /\ UNCHANGED <<read, crashes>>

\* The node stops after the save: nobody gets the preconfirmation.
CrashAfterStoring == /\ Running
                     /\ Build(Append(node.chain, built + 1))
                     /\ Crashes
                     /\ UNCHANGED given

\* Signing fails: the block is in the chain and nobody has it.
SigningFails == /\ Running
                /\ built < MaxBuilt
                /\ built' = built + 1
                /\ node' = [node EXCEPT !.chain = Append(@, built + 1)]
                /\ UNCHANGED <<rollup, posts, disk, read, given, had, expired, losses, crashes>>

\* The operator read `head` from L1, asks for the blocks to post after it and
\* sends the first `n`.
OperatorPosts(head, n) ==
    /\ Running
    /\ InChain(head)
    /\ LET marked == MarkPosted(Number(head))
       IN /\ n <= Len(marked.disk.preconfirmed)
          /\ posts' = posts \cup {marked.disk.preconfirmed[i] : i \in 1..n}
          /\ disk' = marked.disk
          /\ node' = marked.node
    /\ UNCHANGED <<rollup, read, given, had, counters>>
-----------------------------------------------------------------------------
(* L1: any post may wait there for long, and blocks may be lost.           *)

L1Includes(h) == /\ Front(h) = rollup
                 /\ rollup' = h
                 /\ had' = had \cup {h}
                 /\ UNCHANGED <<posts, disk, node, read, given, counters>>

L1Loses(n) == /\ losses < MaxLosses
              /\ losses' = losses + 1
              /\ rollup' = AtNumber(rollup, n)
              /\ UNCHANGED <<posts, disk, node, read, given, had, built, expired, crashes>>
-----------------------------------------------------------------------------
(* `follow`: it reads the rollup's head, then acts on it under the lock.   *)

ReadHead == /\ Running
            /\ read = NoHead
            /\ read' = rollup
            /\ UNCHANGED <<rollup, posts, disk, node, given, had, counters>>

\* The node exits, for the runner to start it again.
Exits == node' = Down /\ read' = NoHead

\* The head is behind the posted blocks: L1 lost some.
ExitOnLoss == /\ Running /\ read # NoHead
              /\ InChain(read) /\ Number(read) < node.posted
              /\ Exits
              /\ UNCHANGED <<rollup, posts, disk, given, had, counters>>

\* The head is in the chain: the blocks up to it are posted.
FollowHead == /\ Running /\ read # NoHead
              /\ InChain(read) /\ Number(read) >= node.posted
              /\ disk' = MarkPosted(Number(read)).disk
              /\ node' = MarkPosted(Number(read)).node
              /\ read' = NoHead
              /\ UNCHANGED <<rollup, posts, given, had, counters>>

\* ... and what waits after them can no longer reach L1 in time.
DropExpired == /\ Running /\ read # NoHead
               /\ InChain(read) /\ Number(read) >= node.posted
               /\ expired < MaxExpired
               /\ expired' = expired + 1
               /\ LET marked == MarkPosted(Number(read)).disk
                  IN /\ marked.preconfirmed # <<>>
                     /\ disk' = [marked EXCEPT !.preconfirmed = <<>>]
               /\ Exits
               /\ UNCHANGED <<rollup, posts, given, had, built, losses, crashes>>

\* The head is of another chain than the one that was preconfirmed.
DropConflicting == /\ Running /\ read # NoHead
                   /\ ~InChain(read) /\ disk.preconfirmed # <<>>
                   /\ disk' = [disk EXCEPT !.preconfirmed = <<>>]
                   /\ Exits
                   /\ UNCHANGED <<rollup, posts, given, had, counters>>

\* The blocks L1 has after the head, if they build on it.
Missing(n) == IF IsPrefix(node.chain, rollup)
              THEN [i \in 1..(n - Number(node.chain)) |->
                       AtNumber(rollup, Number(node.chain) + i)]
              ELSE <<>>

\* Nothing waits: `catch_up` derives from L1 the blocks the node misses, up to
\* the block `n`; the posted state follows only if it gets to the end.
Derive(n) == /\ Running /\ read # NoHead
             /\ ~InChain(read) /\ disk.preconfirmed = <<>>
             /\ disk' = [disk EXCEPT !.blocks = @ \o Missing(n)]
             /\ UNCHANGED <<rollup, posts, given, had, built, expired, losses>>

Derived(n) == IF Missing(n) = <<>> THEN node
              ELSE [node EXCEPT !.chain = Last(Missing(n)), !.posted = Number(Last(Missing(n)))]

CatchUp == /\ Derive(Number(rollup))
           /\ node' = LET derived == Derived(Number(rollup))
                      IN IF derived = node THEN node
                         ELSE [derived EXCEPT !.postedState = derived.chain]
           /\ read' = NoHead
           /\ UNCHANGED crashes

CatchUpFails(n) == /\ n < Number(rollup)
                   /\ Derive(n)
                   /\ node' = Derived(n)
                   /\ read' = NoHead
                   /\ UNCHANGED crashes
-----------------------------------------------------------------------------
(* Crashes and restarts.                                                   *)

Crash == /\ Running
         /\ Crashes
         /\ UNCHANGED <<rollup, posts, disk, given, had, built, expired, losses>>

\* `mark_posted` saved the block `n`, and the node stops before its snapshot is
\* listed: nothing of it is stored, or its file, or the oldest one is gone too.
CrashWhileMarking(n) ==
    /\ Running /\ read # NoHead
    /\ InChain(read)
    /\ n \in (node.posted + 1)..Number(read)
    /\ LET marked == Mark(MarkPosted(n - 1))
       IN \/ disk' = marked.disk
          \/ /\ SnapshotDue(marked.node)
             /\ disk' \in {Written(marked.disk, Taking(marked.node)),
                           FilesMoved(marked.disk, marked.node)}
    /\ Crashes
    /\ UNCHANGED <<rollup, posts, given, had, built, expired, losses>>

CrashWhileDeriving(n) == /\ n < Number(rollup)
                         /\ Derive(n)
                         /\ Crashes

\* L1 lost posted blocks, and not those before the snapshots (`unpost`).
MustUnpost == Number(rollup) < PostedNumber(disk)
CanUnpost  == disk.snapshots # <<>> => Remaining(disk, Number(rollup)) # <<>>

\* The node starts.  If L1 answers, it first forgets the blocks L1 has no more,
\* and does not start if L1 lost blocks before its snapshots.  Nor does it start
\* without the file of the snapshot it starts from.
Restart(l1Answers) ==
    /\ ~Running
    /\ LET lost  == l1Answers /\ MustUnpost
           saved == IF lost THEN Unposted(disk, Number(rollup)) ELSE disk
       IN /\ lost => CanUnpost
          /\ disk' = saved
          /\ node' = IF Loads(saved)
                     THEN [chain       |-> StoredChain(saved),
                           posted      |-> Number(PostedChain(saved)),
                           postedState |-> PostedChain(saved)]
                     ELSE Down
    /\ UNCHANGED <<rollup, posts, read, given, had, counters>>

\* The node stops when it removed the files of the snapshots that it forgets,
\* which the state file still lists.
CrashWhileUnposting ==
    /\ ~Running
    /\ MustUnpost /\ CanUnpost
    /\ disk' = Removed(disk, Remaining(disk, Number(rollup)))
    /\ disk' # disk
    /\ Crashes
    /\ UNCHANGED <<rollup, posts, given, had, built, expired, losses>>
-----------------------------------------------------------------------------
Init == /\ rollup = Genesis
        /\ posts = {}
        /\ disk = [blocks |-> <<>>, preconfirmed |-> <<>>, snapshots |-> <<>>, files |-> {}]
        /\ node = [chain |-> Genesis, posted |-> 0, postedState |-> Genesis]
        /\ read = NoHead
        /\ given = {}
        /\ had = {Genesis}
        /\ built = 0 /\ expired = 0 /\ losses = 0 /\ crashes = 0

Next == \/ Preconfirm
        \/ \E head \in had, n \in 0..MaxBuilt : OperatorPosts(head, n)
        \/ \E h \in posts : L1Includes(h)
        \/ \E n \in 0..(Number(rollup) - 1) : L1Loses(n)
        \/ ReadHead
        \/ ExitOnLoss
        \/ FollowHead
        \/ DropExpired
        \/ DropConflicting
        \/ CatchUp
        \/ Crash
        \/ CrashAfterStoring
        \/ CrashWhileUnposting
        \/ \E n \in 1..MaxBuilt : CrashWhileMarking(n) \/ CrashWhileDeriving(n)
        \/ \E l1Answers \in BOOLEAN : Restart(l1Answers)

\* The follower's thread runs, the runner starts the node again, and L1 answers
\* some of the starts.
Fairness == /\ WF_vars(ReadHead)
            /\ WF_vars(ExitOnLoss \/ FollowHead \/ DropConflicting \/ CatchUp)
            /\ WF_vars(\E l1Answers \in BOOLEAN : Restart(l1Answers))
            /\ SF_vars(Restart(TRUE))

Spec     == Init /\ [][Next]_vars
FairSpec == Spec /\ Fairness

\* The same with what may fail in a running node: signing, and the blobs of a
\* block that L1 has.
SigningMayFail == Init /\ [][Next \/ SigningFails]_vars
BlobsMayFail   == Init /\ [][Next \/ \E n \in 0..MaxBuilt : CatchUpFails(n)]_vars
-----------------------------------------------------------------------------
\* Every variable has its type, and at most two snapshots are kept.
NodeTypeOK == /\ rollup \in Hash
              /\ posts \subseteq Hash
              /\ disk \in Disk
              /\ Len(disk.snapshots) <= 2
              /\ node \in Memory \cup {Down}
              /\ read \in Hash \cup {NoHead}
              /\ given \subseteq Hash
              /\ rollup \in had
              /\ built \in 0..MaxBuilt
              /\ expired \in 0..MaxExpired
              /\ losses \in 0..MaxLosses
              /\ crashes \in 0..MaxCrashes

\* What the node calls posted, and its RPC `safe` and `finalized`
\* (`tag_number`), the rollup contract has had, though the node may build on
\* another chain than L1's, and read the head long before it acts on it.
PostedWasOnL1 == Running => /\ node.posted <= Number(node.chain)
                            /\ AtNumber(node.chain, node.posted) \in had

\* A node that stops at any point starts again where it was, but for what L1
\* lost: the file of its last snapshot is there, whatever it removed, and
\* replaying the state file from its last snapshot (`__init__`) gives the chain
\* it had in memory, and the same part of it posted.
RestartsWhereItWas ==
    Running => /\ Loads(disk)
               /\ StoredChain(disk) = node.chain
               /\ PostedChain(disk) = AtNumber(node.chain, node.posted)

\* Unless L1 lost blocks or refused them, the node never promises two blocks at
\* one height, whenever it crashes: what it returned is one chain (`preconfirm`
\* saves before it returns).
PromisesAreOneChain ==
    losses = 0 /\ expired = 0 =>
        \A g, h \in given : IsPrefix(g, h) \/ IsPrefix(h, g)

\* When it starts, the node keeps every posted block that L1 may still have:
\* it falls back to the older snapshot with the blocks after it (`unpost`,
\* `snapshot`).
RestartKeepsPosted ==
    [][~Running /\ Running' =>
           \/ node'.posted >= PostedNumber(disk)
           \/ node'.posted >= Number(rollup)]_vars

\* The snapshots hold the state of the block they are named for, which the node
\* then starts from (`snapshot`).
SnapshotExact == \A f \in disk.files : f.state = f.head

\* Each stored block executes on the one before it, so that the node can start
\* again (`save`, `replay`).
StoredReplays == LET stored == disk.blocks \o disk.preconfirmed
                 IN \A i \in 2..Len(stored) : stored[i - 1] = Front(stored[i])

\* L1 has blocks in place of those the node has as posted.
Replaced == /\ Loads(disk)
            /\ LET posted == PostedChain(disk)
               IN ~IsPrefix(posted, rollup) /\ ~IsPrefix(rollup, posted)

\* L1 lost the blocks of the node's snapshots.
BeforeSnapshots == disk.snapshots # <<>> /\ Number(rollup) < Head(disk.snapshots)

\* A crash left the state file with a snapshot whose file was removed, and the
\* node starts from that one.
FileIsGone == ~Loads(disk)

\* The node ends up with what the rollup contract has, after crashes, dropped
\* blocks that L1 included after all and blocks that L1 lost, unless L1 replaced
\* the posted blocks or lost the snapshots, or a crash took a snapshot's file
\* (`follow`, `catch_up`, `unpost`, `snapshot`).
CatchesUp == <>[](\/ Running /\ AtNumber(node.chain, node.posted) = rollup
                  \/ Replaced
                  \/ BeforeSnapshots
                  \/ FileIsGone)
=============================================================================
