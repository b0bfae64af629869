------------------------------- MODULE Claims -------------------------------
(***************************************************************************)
(* The claimer of L1 to L2 messages (l2_claims.py): it runs again and      *)
(* again, against an L2 chain that adds blocks and rolls back meanwhile,   *)
(* and keeps messages and claimed bits in a file from one run to the next. *)
(*                                                                         *)
(* A message is its index in the rollup contract's list; a tree of         *)
(* messages, with its root, is the sequence of its leaves.                 *)
(***************************************************************************)
EXTENDS Integers, SequencesExt

CONSTANTS
    Claimers,      \* the wallets and the relayer
    CACHE_MARGIN,  \* the L1 blocks that a reorg can change, above those whose
                   \* messages the file keeps
    MaxL1Blocks, MaxL2Blocks, \* bounds: L1 blocks, L2 blocks
    MaxRollbacks,  \* bound: rollbacks of the L2 chain
    MaxRuns        \* bound: runs of the claimer

ASSUME ClaimsAssumption ==
    /\ {CACHE_MARGIN, MaxL1Blocks, MaxL2Blocks, MaxRollbacks, MaxRuns} \subseteq Nat

VARIABLES
    l1Blocks,  \* each L1 block's message, named by the claimer it goes to
    fixed,     \* the first of them, which no reorg changes
    l2Blocks,  \* each L2 block's anchor and claims
    claimPool, \* the claims pending at the L2 node
    file,      \* the cache
    run,       \* the run's variables
    rollbacks, runs
claimsVars == <<l1Blocks, fixed, l2Blocks, claimPool, file, run, rollbacks, runs>>

\* No message in the block, or one that nobody claims.
Nothing == "nothing"

NoFile == [through |-> 0, messages |-> <<>>, claimed |-> {}, claimedAt |-> <<>>, sound |-> TRUE]
NoRun == [at |-> "idle", anchor |-> 0, leaves |-> <<>>, through |-> 0, settled |-> <<>>, bits |-> {}, wanted |-> {},
          covered |-> 0, proved |-> {}, quiet |-> TRUE, rolled |-> FALSE]

ClaimsTypeOK ==
    /\ l1Blocks \in Seq(Claimers \cup {Nothing}) /\ fixed \in 0..Len(l1Blocks)
    /\ \A i \in DOMAIN l2Blocks : l2Blocks[i].anchor \in 0..Len(l1Blocks)
    /\ file.through \in 0..MaxL1Blocks /\ file.messages \in Seq(Claimers)
    /\ run.at \in {"idle", "bits", "root", "send", "save"}
    /\ run.covered \in 0..Len(run.leaves) /\ run.proved \subseteq Claimers
    /\ rollbacks \in 0..MaxRollbacks /\ runs \in 0..MaxRuns

-----------------------------------------------------------------------------
(* L1 and L2 *)

WithMessage(messages, m) == IF m = Nothing THEN messages ELSE Append(messages, m)
Messages(blocks) == FoldLeft(WithMessage, <<>>, blocks)

\* The messenger: the claimed messages, and the root proven last.  A claim,
\* with its `leaves`, gives a path in the tree of the first `size` of them;
\* its first frame may prove the root of all, against the anchor of an L2
\* block, and never one with fewer messages.
Messenger == [claimed |-> {}, root |-> <<>>]
Proven(l1, l2, st, c) ==
    /\ c.proves /\ Len(c.leaves) >= Len(st.root)
    /\ \E b \in ToSet(l2) : Messages(SubSeq(l1, 1, b.anchor)) = c.leaves
ClaimOn(l1, l2, st, c) ==
    LET root == IF Proven(l1, l2, st, c) THEN c.leaves ELSE st.root
    IN [valid |-> c.index \notin st.claimed /\ SubSeq(c.leaves, 1, c.size) = root,
        state |-> [claimed |-> st.claimed \cup {c.index}, root |-> root]]
IncludeOne(l1, l2, b, c) ==
    LET r == ClaimOn(l1, l2, b.state, c)
    IN IF r.valid THEN [state |-> r.state, claims |-> Append(b.claims, c)] ELSE b
Including(l1, l2, st, cs) ==
    FoldLeft(LAMBDA b, c : IncludeOne(l1, l2, b, c), [state |-> st, claims |-> <<>>], cs)
WithClaimsOf(cs, b) == cs \o b.claims
ClaimsIn(blocks) == FoldLeft(WithClaimsOf, <<>>, blocks)
After(l1, l2) == Including(l1, l2, Messenger, ClaimsIn(l2)).state
State == After(l1Blocks, l2Blocks)
Anchor == IF l2Blocks = <<>> THEN 0 ELSE Last(l2Blocks).anchor

\* The node's pool: one claim per message, which succeeds on the head.
Admit(l1, l2, p, c) ==
    IF /\ ClaimOn(l1, l2, After(l1, l2), c).valid
       /\ \A d \in ToSet(p) : d.index # c.index
    THEN Append(p, c) ELSE p
Admitting(l1, l2, cs) == FoldLeft(LAMBDA p, c : Admit(l1, l2, p, c), <<>>, cs)

\* What the run did not do itself happened meanwhile.  (History: `rolled`, that
\* the L2 chain rolled back after it had the claimed bits that the run has.)
Meanwhile(r, rolled) ==
    IF r.at = "idle" THEN r
    ELSE [r EXCEPT !.quiet = FALSE, !.rolled = @ \/ (rolled /\ r.bits # {})]

NewL1Block ==
    /\ Len(l1Blocks) < MaxL1Blocks
    /\ \E m \in Claimers \cup {Nothing} : l1Blocks' = Append(l1Blocks, m)
    /\ fixed' = Max({fixed, Len(l1Blocks) + 1 - CACHE_MARGIN})
    /\ UNCHANGED <<l2Blocks, claimPool, file, run, rollbacks, runs>>

\* The next L2 block anchors the latest L1 block and takes the claims that
\* are valid in it, in order; the others are dropped.
NewL2Block ==
    /\ Len(l2Blocks) < MaxL2Blocks
    /\ l2Blocks' = Append(l2Blocks, [anchor |-> Len(l1Blocks),
                                    claims |-> Including(l1Blocks, l2Blocks, State, claimPool).claims])
    /\ claimPool' = <<>>
    /\ run' = Meanwhile(run, FALSE)
    /\ UNCHANGED <<l1Blocks, fixed, file, rollbacks, runs>>

\* The node drops its last blocks, alone or with L1 blocks they anchor, of
\* which none is fixed yet; the claims in them are sent again, or not.
RollBack ==
    /\ rollbacks < MaxRollbacks
    /\ rollbacks' = rollbacks + 1
    /\ \E n \in 0..(Len(l2Blocks) - 1), lost \in 0..(Len(l1Blocks) - fixed) :
         LET l1 == SubSeq(l1Blocks, 1, Len(l1Blocks) - lost)
             l2 == SubSeq(l2Blocks, 1, n)
             dropped == ClaimsIn(SubSeq(l2Blocks, n + 1, Len(l2Blocks)))
         IN /\ n > 0 => l2Blocks[n].anchor <= Len(l1)
            /\ l1Blocks' = l1 /\ l2Blocks' = l2
            /\ claimPool' \in {<<>>, Admitting(l1, l2, dropped)}
    /\ run' = Meanwhile(run, TRUE)
    /\ UNCHANGED <<fixed, file, runs>>

-----------------------------------------------------------------------------
(* A run *)

\* Mutant: the bits stay whatever became of the block they were read at.
AlwaysOnChain(at) == at # <<>>

\* Whether the block that the claimed bits were read at is on the chain.
OnChain(at) == at # <<>> /\ IsPrefix(at, l2Blocks)

\* MessageCache.__init__: the messages of the file, if it is not past the
\* anchor, then those L1 has after them, through the anchor.
StartRun ==
    /\ run.at = "idle" /\ runs < MaxRuns
    /\ runs' = runs + 1
    /\ l2Blocks # <<>>
    /\ LET stored == IF file.through > Anchor THEN NoFile ELSE file
           kept == OnChain(stored.claimedAt)
           new(to) == Messages(SubSeq(l1Blocks, stored.through + 1, to))
           through == Max({stored.through, Anchor - CACHE_MARGIN})
       IN run' = [NoRun EXCEPT
            !.at = "bits", !.anchor = Anchor,
            !.leaves = stored.messages \o new(Anchor),
            !.through = through, !.settled = stored.messages \o new(through),
            !.bits = IF kept THEN stored.claimed ELSE {},
            !.rolled = kept /\ ~stored.sound]
    /\ UNCHANGED <<l1Blocks, fixed, l2Blocks, claimPool, file, rollbacks>>

\* The bits are read again, all in one word, unless every message's was
\* seen set.
ReadBits ==
    /\ run.at = "bits"
    /\ LET unseen == {i \in DOMAIN run.leaves : i \notin run.bits}
           bits == IF unseen = {} THEN run.bits ELSE State.claimed
       IN run' = [run EXCEPT !.bits = bits, !.rolled = @ /\ unseen = {},
                    !.wanted = DOMAIN run.leaves \ bits,
                    !.at = IF DOMAIN run.leaves \subseteq bits THEN "save" ELSE "root"]
    /\ UNCHANGED <<l1Blocks, fixed, l2Blocks, claimPool, file, rollbacks, runs>>

\* The root that the messenger has covers the first messages, if it is one
\* of the roots the tree had.
ReadRoot ==
    /\ run.at = "root"
    /\ run' = [run EXCEPT !.at = "send",
                 !.covered = Max({0} \cup {n \in DOMAIN run.leaves : SubSeq(run.leaves, 1, n) = State.root})]
    /\ UNCHANGED <<l1Blocks, fixed, l2Blocks, claimPool, file, rollbacks, runs>>

\* A claim of a message that the root covers gives the path to it; of
\* another, the path to the root at the anchor, which the claimer's first
\* such claim proves.
ClaimOf(i) ==
    LET covered == i <= run.covered
    IN [index |-> i, leaves |-> run.leaves,
        size |-> IF covered THEN run.covered ELSE Len(run.leaves),
        proves |-> ~covered /\ run.leaves[i] \notin run.proved]

\* The proof of the root at the anchor no longer matches the messages: L1
\* lost blocks.
NoProof(c) == c.proves /\ (run.anchor > Len(l1Blocks) \/ Messages(SubSeq(l1Blocks, 1, run.anchor)) # run.leaves)

\* Each claimer claims the messages left to it in order.  A claim that the
\* node refuses is skipped.
SendClaim ==
    /\ run.at = "send"
    /\ \E i \in run.wanted :
         LET c == ClaimOf(i)
             rest == run.wanted \ {i}
         IN /\ \A j \in rest : run.leaves[j] = run.leaves[i] => i < j
            /\ ~NoProof(c)
            /\ claimPool' = Admit(l1Blocks, l2Blocks, claimPool, c)
            /\ run' = [run EXCEPT !.wanted = rest, !.at = IF rest = {} THEN "save" ELSE "send",
                         !.proved = IF c.proves /\ claimPool' # claimPool THEN @ \cup {run.leaves[i]} ELSE @]
    /\ UNCHANGED <<l1Blocks, fixed, l2Blocks, file, rollbacks, runs>>

\* An error ends the run, which still saves the cache.
RunError ==
    /\ run.at \in {"bits", "root", "send"}
    /\ run' = [run EXCEPT !.at = "save", !.quiet = FALSE]
    /\ UNCHANGED <<l1Blocks, fixed, l2Blocks, claimPool, file, rollbacks, runs>>

\* save: the settled messages, and the bits with the L2 head, if the node
\* answers; or the process ends before.
Save ==
    /\ run.at = "save"
    /\ file' \in {file,
                  [NoFile EXCEPT !.through = run.through, !.messages = run.settled],
                  [through |-> run.through, messages |-> run.settled, claimed |-> run.bits,
                   claimedAt |-> l2Blocks, sound |-> ~run.rolled]}
    /\ run' = NoRun
    /\ UNCHANGED <<l1Blocks, fixed, l2Blocks, claimPool, rollbacks, runs>>

ClaimsInit ==
    /\ l1Blocks = <<>> /\ fixed = 0 /\ l2Blocks = <<>> /\ claimPool = <<>>
    /\ file = NoFile /\ run = NoRun
    /\ rollbacks = 0 /\ runs = 0

ClaimsNext ==
    \/ NewL1Block \/ NewL2Block \/ RollBack
    \/ StartRun \/ ReadBits \/ ReadRoot \/ SendClaim \/ RunError \/ Save

-----------------------------------------------------------------------------
(* Properties *)

\* A run that nothing overlaps on L2 leaves a claim pending whenever a
\* message it could claim is not claimed: what the file kept from earlier
\* runs, across rollbacks of either chain, never makes it pass one over or
\* build claims that the node refuses.  One kind of file is left out, with which
\* a run does pass over messages that are not claimed: an earlier run read bits
\* (or found the block of those it kept on the chain), the L2 chain rolled back,
\* and only then the run read the head that it kept them with.  That head is on
\* the chain that no longer has the bits' claims, so nothing tells the next run,
\* though l2_claims.py:199-200 says that such a rollback changes the chain.  Nor
\* does it cover reorgs of L1 blocks deeper than CACHE_MARGIN (`fixed`).
RunsClaimWhatIsLeft ==
    run.at = "save" /\ run.quiet /\ ~run.rolled =>
        /\ run.leaves = Messages(SubSeq(l1Blocks, 1, Anchor))
        /\ DOMAIN run.leaves \subseteq State.claimed \/ claimPool # <<>>
=============================================================================
