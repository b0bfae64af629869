------------------------------ MODULE Withdrawals ------------------------------
(***************************************************************************)
(* The claims of L2 to L1 messages on L1: the demo's runner, one thread of *)
(* which claims for the users of its story and another for everyone else   *)
(* (demo/runner.py), has the operator's claim_l2_message prove each one    *)
(* against the L2 node's latest posted block, and remembers in memory what *)
(* it claimed.                                                             *)
(*                                                                         *)
(* The i-th L2 block sends message i.  A state root is the chain up to its *)
(* block, a sequence with the version of each block.  Each L1 block has    *)
(* one transaction.                                                        *)
(***************************************************************************)
EXTENDS Naturals, SequencesExt

CONSTANTS
    UserMessages,   \* the messages to users of the story
    MaxPosted,      \* bound: L2 blocks
    MaxL1Chain,     \* bound: L1 blocks
    MaxDisturbances \* bound: losses of L1 blocks, and stops of the runner

ASSUME WithdrawalsAssumption ==
    /\ UserMessages \subseteq 1..MaxPosted
    /\ {MaxPosted, MaxL1Chain, MaxDisturbances} \subseteq Nat

VARIABLES
    l1Chain,     \* L1: the posts and the claims of the rollup
    claimTxs,    \* the runner's claims pending at L1 clients
    safe,        \* the L2 node's posted chain
    known,       \* the messages the episode takes for claimed
    claimers,    \* its threads
    unpaid,      \* history: known messages whose payment L1 lost, or that were
                 \* only claimed against blocks that L1 lost meanwhile
    strays,      \* history: the threads that wait for a claim against such blocks
    disturbances
withdrawalsVars == <<l1Chain, claimTxs, safe, known, claimers, unpaid, strays, disturbances>>

Threads == {"story", "relay"}
Indices == 1..MaxPosted
Idle == [at |-> "idle", todo |-> <<>>, root |-> <<>>, since |-> 0]
Post(version) == [kind |-> "post", index |-> 0, root |-> <<version>>]
Claim(i, root) == [kind |-> "claim", index |-> i, root |-> root]

WithdrawalsTypeOK ==
    /\ l1Chain \in Seq([kind : {"post", "claim"}, index : 0..MaxPosted, root : Seq(0..MaxDisturbances)])
    /\ \A c \in claimTxs : c.kind = "claim"
    /\ safe \in Seq(0..MaxDisturbances)
    /\ known \subseteq Indices
    /\ claimers \in [Threads -> [at : {"idle", "check", "prove", "send", "receipt"}, todo : Seq(Indices),
                                 root : Seq(0..MaxDisturbances), since : 0..MaxL1Chain]]
    /\ unpaid \subseteq known /\ strays \subseteq Threads /\ disturbances \in 0..MaxDisturbances

-----------------------------------------------------------------------------
(* L1: the rollup contract *)

\* claimL2Message: once, and proven against a state root the rollup has.
\* (Its ring of 8191 roots outlasts the claims in progress: left out.)
Apply(st, tx) ==
    IF tx.kind = "post" THEN [st EXCEPT !.posted = @ \o tx.root]
    ELSE IF tx.index \notin st.claimed /\ IsPrefix(tx.root, st.posted)
         THEN [st EXCEPT !.claimed = @ \cup {tx.index}]
         ELSE st
Rollup == FoldLeft(Apply, [posted |-> <<>>, claimed |-> {}], l1Chain)

NewPost ==
    /\ Len(l1Chain) < MaxL1Chain /\ Len(Rollup.posted) < MaxPosted
    /\ l1Chain' = Append(l1Chain, Post(disturbances))
    /\ UNCHANGED <<claimTxs, safe, known, claimers, unpaid, strays, disturbances>>

\* L1 includes a claim of the runner's, whether or not it still succeeds.
IncludeClaim ==
    /\ Len(l1Chain) < MaxL1Chain
    /\ \E c \in claimTxs : l1Chain' = Append(l1Chain, c) /\ claimTxs' = claimTxs \ {c}
    /\ UNCHANGED <<safe, known, claimers, unpaid, strays, disturbances>>

\* Anyone may claim, also a thread of an earlier episode.
ClaimByOthers ==
    /\ Len(l1Chain) < MaxL1Chain
    /\ \E i \in DOMAIN Rollup.posted \ Rollup.claimed : l1Chain' = Append(l1Chain, Claim(i, Rollup.posted))
    /\ UNCHANGED <<claimTxs, safe, known, claimers, unpaid, strays, disturbances>>

\* L1 loses its last blocks; the claims in them are pending
\* again.  (A claim that a client drops is one that L1 never includes.)
LoseClaims ==
    /\ disturbances < MaxDisturbances
    /\ disturbances' = disturbances + 1
    /\ \E n \in 0..(Len(l1Chain) - 1) :
         LET lost == {l1Chain[k] : k \in (n + 1)..Len(l1Chain)}
         IN /\ l1Chain' = SubSeq(l1Chain, 1, n)
            /\ claimTxs' = claimTxs \cup {c \in lost : c.kind = "claim"}
            /\ claimers' = [t \in Threads |-> [claimers[t] EXCEPT !.since = IF @ > n THEN n ELSE @]]
    /\ unpaid' = unpaid \cup (known \ Rollup'.claimed)
    /\ strays' = strays \cup {t \in Threads : claimers[t].at = "receipt" /\ ~IsPrefix(claimers[t].root, Rollup'.posted)}
    /\ UNCHANGED <<safe, known>>

-----------------------------------------------------------------------------
(* The L2 node and the episode *)

\* The node follows the posts on what it has.  When L1 has replaced what it
\* has by as many blocks it does not (see L2Node).
FollowPosts ==
    /\ safe # Rollup.posted /\ IsPrefix(safe, Rollup.posted)
    /\ safe' = Rollup.posted
    /\ UNCHANGED <<l1Chain, claimTxs, known, claimers, unpaid, strays, disturbances>>

\* The node exits when the rollup has fewer blocks than it, or the runner
\* stops; the next episode has a node that drops what L1 lost, if L1 answers
\* it as it starts.  It knows of no message that is claimed.
NextEpisode ==
    /\ \/ Len(Rollup.posted) < Len(safe) /\ UNCHANGED disturbances
       \/ disturbances < MaxDisturbances /\ disturbances' = disturbances + 1
    /\ LET n == Len(Rollup.posted)
       IN safe' \in {safe, IF n < Len(safe) THEN SubSeq(safe, 1, n) ELSE safe}
    /\ known' = {}
    /\ claimers' = [t \in Threads |-> Idle]
    /\ unpaid' = {} /\ strays' = {}
    /\ UNCHANGED <<l1Chain, claimTxs>>

-----------------------------------------------------------------------------
(* The runner's threads *)

\* The thread goes on with the next message, or sleeps until its next round.
Onwards(th, rest) == [Idle EXCEPT !.todo = rest, !.at = IF rest = <<>> THEN "idle" ELSE "check"]

Message(t) == Head(claimers[t].todo)
Done(t) == claimers' = [claimers EXCEPT ![t] = Onwards(@, Tail(@.todo))]
At(t, place) == claimers[t].at = place /\ UNCHANGED <<l1Chain, safe, disturbances>>

\* Of the messages of the first `n` blocks, those in `s`, block by block.
InBlockOrder(s, n) == FoldLeft(LAMBDA r, i : IF i \in s THEN Append(r, i) ELSE r, <<>>, [i \in 1..n |-> i])

\* withdrawals: the messages in the blocks the node calls safe, but those
\* known to be claimed.  The relaying thread asks L1 which of them are.
List(t) ==
    /\ At(t, "idle") /\ UNCHANGED <<claimTxs, unpaid, strays>>
    /\ LET due == {i \in DOMAIN safe : (t = "story" <=> i \in UserMessages) /\ i \notin known}
       IN /\ known' = IF t = "relay" THEN known \cup (due \cap Rollup.claimed) ELSE known
          /\ claimers' = [claimers EXCEPT ![t] = Onwards(@, InBlockOrder(due \ known', Len(safe)))]

\* claim: unless anyone already did.
Check(t) ==
    /\ At(t, "check") /\ UNCHANGED <<claimTxs, unpaid, strays>>
    /\ IF Message(t) \in Rollup.claimed
       THEN known' = known \cup {Message(t)} /\ Done(t)
       ELSE claimers' = [claimers EXCEPT ![t].at = "prove"] /\ UNCHANGED known

\* The node proves the message against its latest posted block.
Prove(t) ==
    /\ At(t, "prove") /\ UNCHANGED <<claimTxs, known, unpaid, strays>>
    /\ claimers' = [claimers EXCEPT ![t].at = "send", ![t].root = safe]

\* Mutant: the claim is sent with whatever root the node has.
AnyRoot(root) == TRUE

\* Whether the rollup has the state root that the proof is against.
HasRoot(root) == IsPrefix(root, Rollup.posted)

\* The claim goes to the L1 clients, unless the roots differ.
SendWithdrawal(t) ==
    /\ At(t, "send") /\ UNCHANGED <<known, unpaid>>
    /\ LET root == claimers[t].root
       IN IF HasRoot(root)
          THEN /\ claimTxs' = claimTxs \cup {Claim(Message(t), root)}
               /\ claimers' = [claimers EXCEPT ![t].at = "receipt", ![t].since = Len(l1Chain)]
               /\ strays' = strays \ {t}
          ELSE Done(t) /\ UNCHANGED <<claimTxs, strays>>

\* With a receipt, whatever its status, the message is taken for claimed.
Receipt(t) ==
    /\ At(t, "receipt") /\ UNCHANGED <<claimTxs, strays>>
    /\ Claim(Message(t), claimers[t].root) \in {l1Chain[k] : k \in (claimers[t].since + 1)..Len(l1Chain)}
    /\ known' = known \cup {Message(t)}
    /\ unpaid' = IF t \in strays THEN unpaid \cup {Message(t)} ELSE unpaid
    /\ Done(t)

\* An error anywhere, or no receipt within ten L1 blocks, ends the claim.
GiveUp(t) ==
    /\ claimers[t].at # "idle"
    /\ Done(t)
    /\ UNCHANGED <<l1Chain, claimTxs, safe, known, unpaid, strays, disturbances>>

WithdrawalsInit ==
    /\ l1Chain = <<>> /\ claimTxs = {} /\ safe = <<>>
    /\ known = {} /\ claimers = [t \in Threads |-> Idle]
    /\ unpaid = {} /\ strays = {} /\ disturbances = 0

WithdrawalsNext ==
    \/ NewPost \/ IncludeClaim \/ ClaimByOthers \/ LoseClaims
    \/ FollowPosts \/ NextEpisode
    \/ \E t \in Threads : List(t) \/ Check(t) \/ Prove(t) \/ SendWithdrawal(t) \/ Receipt(t) \/ GiveUp(t)

-----------------------------------------------------------------------------
(* Properties *)

\* What an episode takes for claimed, and never claims again, is claimed on
\* L1: though a receipt counts whatever its status, others claim meanwhile,
\* claims land late or never, L1 loses blocks between the steps of a claim, and
\* the node may prove against blocks that it lost.  Two cases are left out, in
\* which the episode does pass over a message that is not claimed, as nothing
\* looks at L1 again until the next one (runner.py:652): L1 loses a claim that
\* the episode knows of, or loses the block that a claim is proven against while
\* it waits for its receipt, which then says that it failed.
KnownIsClaimed == known \ unpaid \subseteq Rollup.claimed
================================================================================
