-------------------------------- MODULE Demo --------------------------------
(***************************************************************************)
(* The processes around the rollup, each by itself: the L2 node's pool and *)
(* its RPC, the operator's posting loop, the follower with the explorer's  *)
(* database, the claimers of both directions and the demo's runner.        *)
(*                                                                         *)
(* Every module stands for the other processes by what its own process     *)
(* sees of them, so a behaviour runs one part and leaves the others in     *)
(* their initial states: the states of the parts add up.                   *)
(***************************************************************************)
EXTENDS Mempool, Posting, Follower, NodeRpc, Claims, Withdrawals, Runner

VARIABLE part  \* the part that runs
demoVars == <<part, poolVars, postingVars, followerVars, rpcVars, claimsVars, withdrawalsVars, runnerVars>>

Parts == {"pool", "posting", "follower", "rpc", "claims", "withdrawals", "runner"}

DemoInit ==
    /\ part \in Parts
    /\ PoolInit /\ PostingInit /\ FollowerInit /\ NodeRpcInit
    /\ ClaimsInit /\ WithdrawalsInit /\ RunnerInit
    /\ part # "posting" => builders = Clients
    /\ part # "runner" => ~new

DemoNext ==
    /\ UNCHANGED part
    /\ \/ /\ part = "pool" /\ PoolNext
          /\ UNCHANGED <<postingVars, followerVars, rpcVars, claimsVars, withdrawalsVars, runnerVars>>
       \/ /\ part = "posting" /\ PostingNext
          /\ UNCHANGED <<poolVars, followerVars, rpcVars, claimsVars, withdrawalsVars, runnerVars>>
       \/ /\ part = "follower" /\ FollowerNext
          /\ UNCHANGED <<poolVars, postingVars, rpcVars, claimsVars, withdrawalsVars, runnerVars>>
       \/ /\ part = "rpc" /\ NodeRpcNext
          /\ UNCHANGED <<poolVars, postingVars, followerVars, claimsVars, withdrawalsVars, runnerVars>>
       \/ /\ part = "claims" /\ ClaimsNext
          /\ UNCHANGED <<poolVars, postingVars, followerVars, rpcVars, withdrawalsVars, runnerVars>>
       \/ /\ part = "withdrawals" /\ WithdrawalsNext
          /\ UNCHANGED <<poolVars, postingVars, followerVars, rpcVars, claimsVars, runnerVars>>
       \/ /\ part = "runner" /\ RunnerNext
          /\ UNCHANGED <<poolVars, postingVars, followerVars, rpcVars, claimsVars, withdrawalsVars>>

\* A step of the operator's part.
PostingStep(A) == part = "posting" /\ A

\* L1 includes posts, and the node's follower and the operator's loop run on: each
\* loops without an end, and is started again if it stops.  (The thread that has
\* blocks built need not.)
DemoSpec ==
    /\ DemoInit /\ [][DemoNext]_demoVars
    /\ WF_postingVars(PostingStep(Include))
    /\ WF_postingVars(PostingStep(Follow)) /\ WF_postingVars(PostingStep(Loop))

\* Every part's state is well typed.
DemoTypeOK ==
    /\ PoolTypeOK /\ PostingTypeOK /\ FollowerTypeOK
    /\ NodeRpcTypeOK /\ ClaimsTypeOK /\ WithdrawalsTypeOK /\ RunnerTypeOK

\* The operator's loop brings the whole L2 chain to the rollup (Posting's
\* AllPosted), in the part where it runs.
PostsGetThrough == part = "posting" => AllPosted
=============================================================================
