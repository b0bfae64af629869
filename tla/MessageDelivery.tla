-------------------------- MODULE MessageDelivery --------------------------
(***************************************************************************)
(* One end of the messaging, on either chain: NativeRollup on L1, or       *)
(* L2Messenger on L2, which share libs/Messages.sol.  Claiming a message   *)
(* calls its recipient and then the fee recipient, and both may call back  *)
(* before the claim ends: claim again, send messages, call each other,     *)
(* fail, and catch the failure of what they called.  A failed call takes   *)
(* back everything since it began.                                         *)
(*                                                                         *)
(* The messages that can be proven against the other chain are given;      *)
(* Messaging models how they become provable.  The code of an app is       *)
(* external and does anything; a user's account has none.                  *)
(***************************************************************************)
EXTENDS Integers, Sequences, FiniteSets, FiniteSetsExt

CONSTANTS Apps,       \* the accounts with code
          Users,      \* the accounts without
          Endpoint,   \* the contract this module models
          Peer,       \* its peer on the other chain
          None,       \* address(0)
          Offered,    \* the messages the other chain's accounts try to send here
          Escrow,     \* what the contract holds at first
          SendValues, \* the values messages sent from here can have
          MaxDepth,   \* bound: calls within calls
          MaxSent     \* bound: messages sent from here

Accounts == Apps \cup Users \cup {Endpoint}

\* A message as it is delivered here: `value` is what `to` gets.
Message == [sender : Accounts, to : Accounts, value : Nat, fee : Nat]

ASSUME DeliveryAssumption ==
    /\ Offered \in Seq(Message)
    /\ None \notin Accounts
    /\ Endpoint \notin Apps \cup Users
    /\ Apps \cap Users = {}
    /\ Escrow \in Nat
    /\ SendValues \subseteq Nat
    /\ MaxDepth \in Nat
    /\ MaxSent \in Nat
-----------------------------------------------------------------------------
\* Mutant: no check of the recipient.
AcceptsAny(to, deliverer) == TRUE

\* What `sendMessage` of either contract requires of the recipient, when
\* `deliverer` is the contract that will call it.
Accepts(to, deliverer) == to # deliverer

\* The messages that wait in the other chain's queue, by index: those offered
\* that it accepted.
Indexes == {i \in DOMAIN Offered : Accepts(Offered[i].to, Endpoint)}
Queue   == [i \in Indexes |-> Offered[i]]

\* Mutant: the flag is checked and never set.
MarkNothing(w, i) == w

\* `markClaimed` and `isClaimed`.
MarkClaimed(w, i) == [w EXCEPT !.claimed = @ \cup {i}]
IsClaimed(w, i)   == i \in w.claimed

\* Mutant: paid out of what the contract does not have.
PayableAlways(w, amount) == TRUE

\* A call with value fails unless the contract has it.
Payable(w, amount) == w.balance >= amount
Pay(w, amount)     == [w EXCEPT !.balance = @ - amount]
-----------------------------------------------------------------------------
VARIABLES world,  \* what a failed call takes back
          stack   \* the calls in progress, the outermost first

vars == <<world, stack>>

\* The contract's storage and balance; `current` is currentL2Sender or
\* currentL1Sender.  `delivered` and `sent` record, for the properties, how
\* often each message was delivered and what was sent from here, by whom.
World == [claimed   : SUBSET Indexes,
          current   : Accounts \cup {None},
          balance   : Nat,
          delivered : [Indexes -> Nat],
          sent      : Seq([by : Accounts, value : Nat])]

\* A call in progress: to a message's recipient, to its fee recipient, or to
\* an app by anyone else; whose code runs; and the world if it fails.
Frame == [kind : {"deliver", "fee"}, code : Accounts, index : Indexes,
          feeRecipient : Accounts, saved : World]
           \cup [kind : {"call"}, code : Accounts, saved : World]

Top == stack[Len(stack)]

Push(frame) == stack' = Append(stack, frame)
Pop         == stack' = SubSeq(stack, 1, Len(stack) - 1)

\* Who can act: between transactions the users, in a call whoever it calls.
Acting == IF stack = <<>> THEN Users ELSE {Top.code} \ Users

Init == /\ world = [claimed   |-> {},
                    current   |-> None,
                    balance   |-> Escrow,
                    delivered |-> [i \in Indexes |-> 0],
                    sent      |-> <<>>]
        /\ stack = <<>>
-----------------------------------------------------------------------------
\* `claimL2Message` or `claimL1Message`, up to the call of the recipient.
Claim(i, feeRecipient) ==
    /\ Acting # {}
    /\ ~IsClaimed(world, i)
    /\ Payable(world, Queue[i].value)
    /\ world' = [Pay(MarkClaimed(world, i), Queue[i].value)
                    EXCEPT !.current = Queue[i].sender]
    /\ Push([kind |-> "deliver", code |-> Queue[i].to, index |-> i,
             feeRecipient |-> feeRecipient, saved |-> world])

\* The recipient returns, and the fee is paid with a call of its own.
PayFee ==
    /\ stack # <<>>
    /\ Top.kind = "deliver"
    /\ Queue[Top.index].fee > 0
    /\ Payable(world, Queue[Top.index].fee)
    /\ world' = Pay(world, Queue[Top.index].fee)
    /\ stack' = [stack EXCEPT ![Len(stack)] = [@ EXCEPT !.kind = "fee", !.code = Top.feeRecipient]]

\* Mutant: the sender stays readable after the claim.
SenderKept(w) == w

\* The claim's last assignment.
SenderCleared(w) == [w EXCEPT !.current = None]

\* The last call of a claim returns, and the claim with it.
Finish ==
    /\ stack # <<>>
    /\ \/ Top.kind = "deliver" /\ Queue[Top.index].fee = 0
       \/ Top.kind = "fee"
    /\ world' = [SenderCleared(world) EXCEPT !.delivered[Top.index] = @ + 1]
    /\ Pop

\* Mutant: `deliver` ignores whether the fee was paid.
TakenBackUnlessPaying ==
    IF Top.kind = "fee"
    THEN [world EXCEPT !.current = None, !.delivered[Top.index] = @ + 1,
                       !.balance = @ + Queue[Top.index].fee]
    ELSE Top.saved

\* What is left of a call that failed: `deliver` requires both of its calls to
\* succeed, so a claim fails with either.
TakenBack == Top.saved

\* The call in progress fails.  Whoever made the call, or the claim it belongs
\* to, goes on.
Fail == /\ stack # <<>>
        /\ world' = TakenBack
        /\ Pop

\* An app is called, by a user or another app, and returns.
Call(app) == /\ Acting # {}
             /\ Push([kind |-> "call", code |-> app, saved |-> world])
             /\ UNCHANGED world

Return == /\ stack # <<>>
          /\ Top.kind = "call"
          /\ Pop
          /\ UNCHANGED world

\* `sendMessage`, with what the sender pays for it.
Send(by, to, value) ==
    /\ by \in Acting
    /\ Accepts(to, Peer)
    /\ world' = [world EXCEPT !.balance = @ + value,
                              !.sent = Append(@, [by |-> by, value |-> value])]
    /\ UNCHANGED stack

Next == \/ /\ Len(stack) < MaxDepth
           /\ \/ \E i \in Indexes, feeRecipient \in Apps \cup Users : Claim(i, feeRecipient)
              \/ \E app \in Apps : Call(app)
        \/ PayFee \/ Finish \/ Fail \/ Return
        \/ /\ Len(world.sent) < MaxSent
           /\ \E by \in Accounts, to \in Accounts, value \in SendValues : Send(by, to, value)

Spec == Init /\ [][Next]_vars
-----------------------------------------------------------------------------
\* Every variable has its type: above all, nothing is paid on credit.
TypeOK == world \in World /\ stack \in Seq(Frame)

\* The claims among the outermost k calls, and of them those of message i.
Claims(k)      == {j \in 1..k : stack[j].kind # "call"}
ClaimsOf(i, k) == {j \in Claims(k) : stack[j].index = i}

\* In a world in which the outermost k calls are in progress, a message is
\* claimed exactly if it was delivered or is being delivered, once.
DeliveredOnce(w, k) ==
    \A i \in Indexes :
        w.delivered[i] + Cardinality(ClaimsOf(i, k)) = IF IsClaimed(w, i) THEN 1 ELSE 0

\* No message is delivered twice, and none is claimed without being delivered,
\* whatever the recipients call, however deep, and whichever calls fail.  It
\* holds of the worlds that a failure returns to as well.
ClaimedExactlyOnce ==
    /\ DeliveredOnce(world, Len(stack))
    /\ \A k \in 1..Len(stack) : DeliveredOnce(stack[k].saved, k - 1)

\* The contract has what was sent through it less the values and the fees of
\* the claimed messages: each is paid once, also when some calls failed.
PaysWhatIsClaimed ==
    LET delivering == {j \in Claims(Len(stack)) : stack[j].kind = "deliver"}
        unpaidFees == SumFunctionOnSet([j \in delivering |-> Queue[stack[j].index].fee], delivering)
        owed == SumFunctionOnSet([i \in world.claimed |-> Queue[i].value + Queue[i].fee],
                                 world.claimed)
        sent == SumFunctionOnSet([j \in DOMAIN world.sent |-> world.sent[j].value],
                                 DOMAIN world.sent)
    IN world.balance + owed = Escrow + unpaidFees + sent

\* The recipient of a message that asks for its sender is never told another:
\* it reads the sender, or nothing once a claim made meanwhile has ended.
\* Outside of claims there is no sender to read.
SenderIsTheMessages ==
    /\ Claims(Len(stack)) = {} => world.current = None
    /\ stack # <<>> /\ Top.kind = "deliver" =>
          \/ world.current = Queue[Top.index].sender
          \/ world.current = None /\ world.delivered # Top.saved.delivered

\* "A call from the L2 messenger to itself could send an L2 to L1 message in
\* its name": no message is sent by the contract that others trust to deliver.
NoMessageInItsName == \A j \in DOMAIN world.sent : world.sent[j].by # Endpoint
=============================================================================
