----------------------- MODULE MessageDeliveryProofs -----------------------
(***************************************************************************)
(* Proofs about MessageDelivery for any messages, accounts and amounts and *)
(* calls of any depth: reentrancy and failures neither repeat nor lose a   *)
(* claim, nor tell a recipient a wrong sender, nor unbalance what was paid *)
(* and what was claimed.                                                   *)
(***************************************************************************)
EXTENDS MessageDelivery, SequenceTheorems, FiniteSetTheorems, InductionLemmas, TLAPS

\* The messages in the queue are messages, and none is to the contract.
LEMMA QueueTypes ==
    \A i \in Indexes : /\ Queue[i].sender \in Accounts /\ Queue[i].to \in Accounts \ {Endpoint}
                       /\ Queue[i].value \in Nat /\ Queue[i].fee \in Nat
<1> SUFFICES ASSUME NEW i \in Indexes
             PROVE  /\ Queue[i].sender \in Accounts /\ Queue[i].to \in Accounts \ {Endpoint}
                    /\ Queue[i].value \in Nat /\ Queue[i].fee \in Nat
  OBVIOUS
<1>1. Offered \in Seq(Message)
  BY DeliveryAssumption
<1>2. i \in 1..Len(Offered) /\ Offered[i].to # Endpoint
  BY <1>1, LenProperties DEF Indexes, Accepts
<1>3. Offered[i] \in Message
  BY <1>1, <1>2, ElementOfSeq
<1> QED
  BY <1>2, <1>3 DEF Queue, Message

\* The fields of a call in progress.
LEMMA FrameTypes ==
    ASSUME TypeOK, NEW k \in 1..Len(stack)
    PROVE  /\ stack[k] \in Frame
           /\ stack[k].saved \in World
           /\ stack[k].code \in Accounts
           /\ stack[k].kind \in {"call", "deliver", "fee"}
           /\ stack[k].kind # "call" => /\ stack[k].index \in Indexes
                                        /\ stack[k].feeRecipient \in Accounts
<1>1. stack[k] \in Frame
  BY ElementOfSeq DEF TypeOK
<1> QED
  BY <1>1 DEF Frame
-----------------------------------------------------------------------------
(* What the actions do to the stack.                                       *)

Pushed(frame) == /\ Len(stack') = Len(stack) + 1
                 /\ \A k \in 1..Len(stack) : stack'[k] = stack[k]
                 /\ stack'[Len(stack) + 1] = frame

Popped == /\ Len(stack) \in Nat \ {0}
          /\ Len(stack') = Len(stack) - 1
          /\ \A k \in 1..(Len(stack) - 1) : stack'[k] = stack[k]

\* A call goes on top of the calls in progress.
LEMMA PushFacts ==
    ASSUME TypeOK, NEW frame \in Frame, Push(frame)
    PROVE  Pushed(frame) /\ stack' \in Seq(Frame)
<1>1. stack \in Seq(Frame)
  BY DEF TypeOK
<1> QED
  BY <1>1, AppendProperties DEF Push, Pushed

\* The innermost call ends.
LEMMA PopFacts ==
    ASSUME TypeOK, stack # <<>>, Pop
    PROVE  Popped /\ stack' \in Seq(Frame)
<1>1. stack \in Seq(Frame) /\ Len(stack) \in Nat \ {0}
  BY EmptySeq DEF TypeOK
<1>2. \A k \in 1..(Len(stack) - 1) : stack[k] \in Frame
  BY <1>1, ElementOfSeq
<1> DEFINE m == Len(stack) - 1
<1>3. m \in Nat /\ \A k \in 1..m : stack[k] \in Frame
  BY <1>1, <1>2
<1>4. stack' = SubSeq(stack, 1, m)
  BY DEF Pop
<1> HIDE DEF m
<1>5. /\ stack' \in Seq(Frame)
      /\ Len(stack') = IF 1 <= m THEN m - 1 + 1 ELSE 0
      /\ \A k \in 1..(m - 1 + 1) : stack'[k] = stack[1 + k - 1]
  BY <1>3, <1>4, SubSeqProperties
<1>6. Len(stack') = m
  BY <1>3, <1>5
<1>7. \A k \in 1..m : stack'[k] = stack[k]
  BY <1>3, <1>5
<1> QED
  BY <1>1, <1>5, <1>6, <1>7 DEF Popped, m

\* The fee frame takes the place of the delivery.
LEMMA PayFeeFacts ==
    ASSUME TypeOK, PayFee
    PROVE  /\ stack' \in Seq(Frame)
           /\ Len(stack') = Len(stack) /\ Len(stack) \in Nat \ {0}
           /\ \A k \in 1..(Len(stack) - 1) : stack'[k] = stack[k]
           /\ stack[Len(stack)].kind = "deliver"
           /\ stack'[Len(stack)] = [stack[Len(stack)] EXCEPT !.kind = "fee",
                                       !.code = stack[Len(stack)].feeRecipient]
           /\ stack'[Len(stack)].kind = "fee"
           /\ stack'[Len(stack)].code = stack[Len(stack)].feeRecipient
           /\ stack'[Len(stack)].feeRecipient = stack[Len(stack)].feeRecipient
           /\ stack'[Len(stack)].index = stack[Len(stack)].index
           /\ stack'[Len(stack)].saved = stack[Len(stack)].saved
<1>1. stack \in Seq(Frame) /\ Len(stack) \in Nat \ {0} /\ Len(stack) \in 1..Len(stack)
  BY EmptySeq DEF TypeOK, PayFee
<1> DEFINE top == stack[Len(stack)]
           fee == [top EXCEPT !.kind = "fee", !.code = top.feeRecipient]
<1>2. stack' = [stack EXCEPT ![Len(stack)] = fee] /\ top.kind = "deliver"
  BY DEF PayFee, Top
<1>3. top \in [kind : {"deliver", "fee"}, code : Accounts, index : Indexes,
               feeRecipient : Accounts, saved : World]
  BY <1>1, <1>2, FrameTypes DEF Frame
<1>4. /\ fee \in [kind : {"deliver", "fee"}, code : Accounts, index : Indexes,
                  feeRecipient : Accounts, saved : World]
      /\ fee.kind = "fee" /\ fee.code = top.feeRecipient
      /\ fee.feeRecipient = top.feeRecipient
      /\ fee.index = top.index /\ fee.saved = top.saved
  BY <1>3
<1>5. fee \in Frame
  BY <1>4 DEF Frame
<1> HIDE DEF top, fee
<1>6. /\ stack' \in Seq(Frame) /\ Len(stack') = Len(stack)
      /\ \A k \in 1..Len(stack) : stack'[k] = IF k = Len(stack) THEN fee ELSE stack[k]
  BY <1>1, <1>2, <1>5, ExceptSeq
<1>7. stack'[Len(stack)] = fee /\ \A k \in 1..(Len(stack) - 1) : stack'[k] = stack[k]
  BY <1>1, <1>6
<1> QED
  BY <1>1, <1>2, <1>4, <1>6, <1>7 DEF top, fee
-----------------------------------------------------------------------------
(* What the actions do to the world.                                       *)

\* The frame of a claim.
Delivery(i, feeRecipient) ==
    [kind |-> "deliver", code |-> Queue[i].to, index |-> i,
     feeRecipient |-> feeRecipient, saved |-> world]

\* What a claim changes before it calls the recipient (`Messages.deliver`).
LEMMA ClaimFacts ==
    ASSUME TypeOK, NEW i \in Indexes, NEW feeRecipient \in Apps \cup Users,
           Claim(i, feeRecipient)
    PROVE  /\ world' \in World
           /\ i \notin world.claimed
           /\ world'.claimed = world.claimed \cup {i}
           /\ world'.current = Queue[i].sender
           /\ world'.delivered = world.delivered
           /\ world'.sent = world.sent
           /\ world'.balance = world.balance - Queue[i].value
           /\ Pushed(Delivery(i, feeRecipient))
           /\ stack' \in Seq(Frame)
<1>1. world \in World
  BY DEF TypeOK
<1>2. /\ Queue[i].sender \in Accounts /\ Queue[i].to \in Accounts
      /\ Queue[i].value \in Nat /\ feeRecipient \in Accounts
  BY QueueTypes DEF Accounts
<1>3. i \notin world.claimed /\ world.balance >= Queue[i].value
  BY DEF Claim, IsClaimed, Payable
<1>4. world.balance - Queue[i].value \in Nat
  BY <1>1, <1>2, <1>3 DEF World
<1>5. world' = [world EXCEPT !.claimed = world.claimed \cup {i},
                             !.balance = world.balance - Queue[i].value,
                             !.current = Queue[i].sender]
  BY <1>1 DEF Claim, Pay, MarkClaimed, World
<1>6. Delivery(i, feeRecipient) \in Frame
  BY <1>1, <1>2 DEF Delivery, Frame
<1>7. Push(Delivery(i, feeRecipient))
  BY DEF Claim, Delivery
<1>8. Pushed(Delivery(i, feeRecipient)) /\ stack' \in Seq(Frame)
  BY <1>6, <1>7, PushFacts
<1> QED
  BY <1>1, <1>2, <1>3, <1>4, <1>5, <1>8 DEF World

\* What the fee's payment changes: the balance only.
LEMMA PayFeeWorld ==
    ASSUME TypeOK, PayFee
    PROVE  /\ world' \in World
           /\ world'.claimed = world.claimed
           /\ world'.current = world.current
           /\ world'.delivered = world.delivered
           /\ world'.sent = world.sent
           /\ world'.balance = world.balance - Queue[stack[Len(stack)].index].fee
<1>1. world \in World
  BY DEF TypeOK
<1>2. Len(stack) \in 1..Len(stack) /\ stack[Len(stack)].kind = "deliver"
  BY PayFeeFacts
<1>3. Queue[Top.index].fee \in Nat
  BY <1>2, FrameTypes, QueueTypes DEF Top
<1>4. world.balance - Queue[Top.index].fee \in Nat
  BY <1>1, <1>3 DEF PayFee, Payable, World
<1>5. world' = [world EXCEPT !.balance = world.balance - Queue[Top.index].fee]
  BY <1>1 DEF PayFee, Pay, World
<1> QED
  BY <1>1, <1>4, <1>5 DEF World, Top

\* The end of a claim: the sender is cleared and the claim popped.
LEMMA FinishFacts ==
    ASSUME TypeOK, Finish
    PROVE  /\ Popped /\ stack' \in Seq(Frame)
           /\ stack[Len(stack)].kind # "call"
           /\ \/ stack[Len(stack)].kind = "fee"
              \/ Queue[stack[Len(stack)].index].fee = 0
           /\ stack[Len(stack)].index \in Indexes
           /\ world' \in World
           /\ world'.claimed = world.claimed
           /\ world'.current = None
           /\ world'.delivered = [world.delivered EXCEPT ![stack[Len(stack)].index] = @ + 1]
           /\ world'.sent = world.sent
           /\ world'.balance = world.balance
<1>1. world \in World
  BY DEF TypeOK
<1>2. Popped /\ stack' \in Seq(Frame)
  BY PopFacts DEF Finish
<1>3. /\ Len(stack) \in 1..Len(stack) /\ Top.kind # "call"
      /\ Top.kind = "fee" \/ Queue[Top.index].fee = 0
  BY <1>2 DEF Popped, Finish
<1>4. Top.index \in Indexes
  BY <1>3, FrameTypes DEF Top
<1>5. /\ world.delivered \in [Indexes -> Nat]
      /\ [world.delivered EXCEPT ![Top.index] = @ + 1] \in [Indexes -> Nat]
  BY <1>1, <1>4 DEF World
<1>6. world' = [world EXCEPT !.current = None,
                             !.delivered = [world.delivered EXCEPT ![Top.index] = @ + 1]]
  BY <1>1 DEF Finish, SenderCleared, World
<1>7. world'.delivered = [world.delivered EXCEPT ![Top.index] = @ + 1]
  BY <1>1, <1>6 DEF World
<1> QED
  BY <1>1, <1>2, <1>3, <1>4, <1>5, <1>6, <1>7 DEF World, Top

\* A failure takes the world back to what it was before the call.
LEMMA FailFacts ==
    ASSUME TypeOK, Fail
    PROVE  /\ Popped /\ stack' \in Seq(Frame)
           /\ world' = stack[Len(stack)].saved /\ world' \in World
<1>1. Popped /\ stack' \in Seq(Frame)
  BY PopFacts DEF Fail
<1>2. Len(stack) \in 1..Len(stack)
  BY <1>1 DEF Popped
<1> QED
  BY <1>1, <1>2, FrameTypes DEF Fail, TakenBack, Top

\* The frame of a call.
Calling(app) == [kind |-> "call", code |-> app, saved |-> world]

\* A call of an app changes nothing but the calls in progress.
LEMMA CallFacts ==
    ASSUME TypeOK, NEW app \in Apps, Call(app)
    PROVE  Pushed(Calling(app)) /\ stack' \in Seq(Frame) /\ world' = world
<1>1. Calling(app) \in Frame
  BY DEF Calling, Frame, Accounts, TypeOK
<1>2. Push(Calling(app)) /\ world' = world
  BY DEF Call, Calling
<1> QED
  BY <1>1, <1>2, PushFacts

\* A return keeps what the call did.
LEMMA ReturnFacts ==
    ASSUME TypeOK, Return
    PROVE  /\ Popped /\ stack' \in Seq(Frame) /\ world' = world
           /\ stack[Len(stack)].kind = "call"
  BY PopFacts DEF Return, Top

\* What a send changes: the balance and the list of what was sent.
LEMMA SendFacts ==
    ASSUME TypeOK, NEW by \in Accounts, NEW to \in Accounts, NEW value \in SendValues,
           Send(by, to, value)
    PROVE  /\ world' \in World /\ stack' = stack
           /\ world'.claimed = world.claimed
           /\ world'.current = world.current
           /\ world'.delivered = world.delivered
           /\ world'.balance = world.balance + value
           /\ world'.sent = Append(world.sent, [by |-> by, value |-> value])
<1>1. world \in World /\ world.balance \in Nat
  BY DEF TypeOK, World
<1>2. world.sent \in Seq([by : Accounts, value : Nat])
  BY <1>1 DEF World
<1>3. value \in Nat
  BY DeliveryAssumption
<1>4. Append(world.sent, [by |-> by, value |-> value]) \in Seq([by : Accounts, value : Nat])
  BY <1>2, <1>3, AppendProperties
<1>5. world' = [world EXCEPT !.balance = world.balance + value,
                             !.sent = Append(world.sent, [by |-> by, value |-> value])]
  BY <1>1 DEF Send, World
<1>6. world.balance + value \in Nat
  BY <1>1, <1>3
<1> QED
  BY <1>1, <1>4, <1>5, <1>6 DEF World, Send
-----------------------------------------------------------------------------
(* The proofs of a step go by the actions.                                 *)

\* The steps, as the proofs below go through them.
LEMMA Steps ==
    ASSUME [Next]_vars
    PROVE  \/ \E i \in Indexes, feeRecipient \in Apps \cup Users : Claim(i, feeRecipient)
           \/ \E app \in Apps : Call(app)
           \/ PayFee \/ Finish \/ Fail \/ Return
           \/ \E by \in Accounts, to \in Accounts, value \in SendValues : Send(by, to, value)
           \/ UNCHANGED vars
  BY DEF Next

\* Nothing is paid on credit, whatever recipients call.
LEMMA TypeStep == TypeOK /\ [Next]_vars => TypeOK'
<1> SUFFICES ASSUME TypeOK, [Next]_vars PROVE TypeOK'
  OBVIOUS
<1>1. ASSUME NEW i \in Indexes, NEW feeRecipient \in Apps \cup Users, Claim(i, feeRecipient)
      PROVE  TypeOK'
  BY <1>1, ClaimFacts DEF TypeOK
<1>2. ASSUME NEW app \in Apps, Call(app) PROVE TypeOK'
  BY <1>2, CallFacts DEF TypeOK
<1>3. CASE PayFee
  BY <1>3, PayFeeFacts, PayFeeWorld DEF TypeOK
<1>4. CASE Finish
  BY <1>4, FinishFacts DEF TypeOK
<1>5. CASE Fail
  BY <1>5, FailFacts DEF TypeOK
<1>6. CASE Return
  BY <1>6, ReturnFacts DEF TypeOK
<1>7. ASSUME NEW by \in Accounts, NEW to \in Accounts, NEW value \in SendValues,
             Send(by, to, value)
      PROVE  TypeOK'
  BY <1>7, SendFacts DEF TypeOK
<1>8. CASE UNCHANGED vars
  BY <1>8 DEF vars, TypeOK
<1> QED
  BY <1>1, <1>2, <1>3, <1>4, <1>5, <1>6, <1>7, <1>8, Steps

\* Every variable has its type: nothing is paid that the contract does not have.
THEOREM DeliveryTypeCorrect == Spec => []TypeOK
<1>1. Init => TypeOK
  <2> SUFFICES ASSUME Init PROVE TypeOK
    OBVIOUS
  <2>1. [i \in Indexes |-> 0] \in [Indexes -> Nat]
    OBVIOUS
  <2>2. world \in World
    BY <2>1, EmptySeq, DeliveryAssumption DEF Init, World
  <2> QED
    BY <2>2, EmptySeq DEF Init, TypeOK
<1> QED
  BY <1>1, TypeStep, PTL DEF Spec
-----------------------------------------------------------------------------
(* Each message is delivered once.                                         *)

\* The claims of the message i among the first k calls of a stack, and
\* DeliveredOnce of it.
ClaimsIn(s, i, k)   == {j \in 1..k : s[j].kind # "call" /\ s[j].index = i}
OnceIn(s, w, k)     == \A i \in Indexes :
                          w.delivered[i] + Cardinality(ClaimsIn(s, i, k))
                             = IF i \in w.claimed THEN 1 ELSE 0

\* Two stacks with the same claims among their first k calls.
SameClaims(s, t, k) == \A j \in 1..k : /\ s[j].kind = "call" <=> t[j].kind = "call"
                                       /\ s[j].index = t[j].index

\* Finitely many claims of a message are in progress.
LEMMA ClaimsFinite ==
    ASSUME NEW s, NEW i, NEW k \in Nat
    PROVE  /\ IsFiniteSet(ClaimsIn(s, i, k))
           /\ Cardinality(ClaimsIn(s, i, k)) \in Nat
<1>1. IsFiniteSet(1..k)
  BY FS_Interval
<1>2. ClaimsIn(s, i, k) \in SUBSET (1..k)
  BY DEF ClaimsIn
<1>3. IsFiniteSet(ClaimsIn(s, i, k))
  BY <1>1, <1>2, FS_Subset
<1> QED
  BY <1>3, FS_CardinalityType

\* The count of claims depends on which messages the calls claim.
LEMMA OnceKept ==
    ASSUME NEW s, NEW t, NEW w, NEW k \in Nat, SameClaims(s, t, k), OnceIn(s, w, k)
    PROVE  OnceIn(t, w, k)
<1> SUFFICES ASSUME NEW i \in Indexes PROVE ClaimsIn(s, i, k) = ClaimsIn(t, i, k)
  BY DEF OnceIn
<1> QED
  BY DEF SameClaims, ClaimsIn

\* One call more among the first ones.
LEMMA ClaimsGrow ==
    ASSUME NEW s, NEW i, NEW k \in Nat
    PROVE  Cardinality(ClaimsIn(s, i, k + 1)) =
               Cardinality(ClaimsIn(s, i, k))
                  + (IF s[k + 1].kind # "call" /\ s[k + 1].index = i THEN 1 ELSE 0)
<1>1. IsFiniteSet(ClaimsIn(s, i, k)) /\ Cardinality(ClaimsIn(s, i, k)) \in Nat
  BY ClaimsFinite
<1>2. 1..(k + 1) = (1..k) \cup {k + 1} /\ k + 1 \notin 1..k
  OBVIOUS
<1>3. CASE s[k + 1].kind # "call" /\ s[k + 1].index = i
  <2>1. ClaimsIn(s, i, k + 1) = ClaimsIn(s, i, k) \cup {k + 1}
    BY <1>2, <1>3 DEF ClaimsIn
  <2>2. k + 1 \notin ClaimsIn(s, i, k)
    BY <1>2 DEF ClaimsIn
  <2> QED
    BY <1>1, <1>3, <2>1, <2>2, FS_AddElement
<1>4. CASE ~(s[k + 1].kind # "call" /\ s[k + 1].index = i)
  <2>1. ClaimsIn(s, i, k + 1) = ClaimsIn(s, i, k)
    BY <1>2, <1>4 DEF ClaimsIn
  <2> QED
    BY <1>1, <1>4, <2>1
<1> QED
  BY <1>3, <1>4

\* The last of the calls does not count any more.
LEMMA ClaimsShrink ==
    ASSUME NEW s, NEW i, NEW k \in Nat \ {0}
    PROVE  Cardinality(ClaimsIn(s, i, k)) =
               Cardinality(ClaimsIn(s, i, k - 1))
                  + (IF s[k].kind # "call" /\ s[k].index = i THEN 1 ELSE 0)
<1> DEFINE m == k - 1
<1>1. m \in Nat /\ k = m + 1
  OBVIOUS
<1> HIDE DEF m
<1>2. Cardinality(ClaimsIn(s, i, m + 1)) =
          Cardinality(ClaimsIn(s, i, m))
             + (IF s[m + 1].kind # "call" /\ s[m + 1].index = i THEN 1 ELSE 0)
  BY <1>1, ClaimsGrow
<1> QED
  BY <1>1, <1>2 DEF m

\* ClaimedExactlyOnce, of the worlds in progress and those to go back to.
OnceInv == /\ OnceIn(stack, world, Len(stack))
           /\ \A k \in 1..Len(stack) : OnceIn(stack, stack[k].saved, k - 1)

\* The property is the invariant, by the positions of the stack.
LEMMA OnceIs == ClaimedExactlyOnce <=> OnceInv
<1>1. \A i, k : ClaimsOf(i, k) = ClaimsIn(stack, i, k)
  BY DEF ClaimsOf, Claims, ClaimsIn
<1>2. \A w, k : DeliveredOnce(w, k) <=> OnceIn(stack, w, k)
  BY <1>1 DEF DeliveredOnce, OnceIn, IsClaimed
<1> QED
  BY <1>2 DEF ClaimedExactlyOnce, OnceInv

\* What a call that begins adds: the world it goes back to is the present one.
LEMMA PushKeepsSaved ==
    ASSUME TypeOK, OnceInv, NEW frame, frame.saved = world, Pushed(frame)
    PROVE  \A k \in 1..Len(stack') : OnceIn(stack', stack'[k].saved, k - 1)
<1>1. Len(stack) \in Nat /\ Len(stack') = Len(stack) + 1
  BY LenProperties DEF TypeOK, Pushed
<1>2. ASSUME NEW k \in 1..Len(stack')
      PROVE  OnceIn(stack', stack'[k].saved, k - 1)
  <2>1. k - 1 \in Nat /\ k - 1 <= Len(stack)
    BY <1>1
  <2>2. SameClaims(stack, stack', k - 1)
    BY <1>1, <2>1 DEF Pushed, SameClaims
  <2>3. OnceIn(stack, stack'[k].saved, k - 1)
    <3>1. CASE k \in 1..Len(stack)
      BY <3>1 DEF Pushed, OnceInv
    <3>2. CASE k = Len(stack) + 1
      <4>1. stack'[k].saved = world /\ k - 1 = Len(stack)
        BY <1>1, <3>2 DEF Pushed
      <4> QED
        BY <4>1 DEF OnceInv
    <3> QED
      BY <1>1, <3>1, <3>2
  <2> QED
    BY <2>1, <2>2, <2>3, OnceKept
<1> QED
  BY <1>2

\* The states saved below the popped call are as they were.
LEMMA PopKeepsSaved ==
    ASSUME OnceInv, Popped
    PROVE  \A k \in 1..Len(stack') : OnceIn(stack', stack'[k].saved, k - 1)
<1> SUFFICES ASSUME NEW k \in 1..Len(stack')
             PROVE  OnceIn(stack', stack'[k].saved, k - 1)
  OBVIOUS
<1>1. k \in 1..Len(stack) /\ k \in 1..(Len(stack) - 1) /\ k - 1 \in Nat
  BY DEF Popped
<1>2. SameClaims(stack, stack', k - 1)
  BY <1>1 DEF Popped, SameClaims
<1>3. OnceIn(stack, stack'[k].saved, k - 1)
  BY <1>1 DEF Popped, OnceInv
<1> QED
  BY <1>1, <1>2, <1>3, OnceKept

\* Every step keeps each message claimed and delivered once.
LEMMA OnceStep == TypeOK /\ OnceInv /\ [Next]_vars => OnceInv'
<1> SUFFICES ASSUME TypeOK, OnceInv, [Next]_vars PROVE OnceInv'
  OBVIOUS
<1> DEFINE n == Len(stack)
<1>0. n \in Nat /\ world \in World /\ world.delivered \in [Indexes -> Nat]
  BY LenProperties DEF TypeOK, World
<1>1. ASSUME NEW i \in Indexes, NEW feeRecipient \in Apps \cup Users, Claim(i, feeRecipient)
      PROVE  OnceInv'
  <2>1. /\ i \notin world.claimed /\ world'.claimed = world.claimed \cup {i}
        /\ world'.delivered = world.delivered /\ Pushed(Delivery(i, feeRecipient))
    BY <1>1, ClaimFacts
  <2>2. \A k \in 1..Len(stack') : OnceIn(stack', stack'[k].saved, k - 1)
    BY <2>1, PushKeepsSaved DEF Delivery
  <2>3. OnceIn(stack', world, n)
    BY <1>0, <2>1, OnceKept DEF OnceInv, Pushed, SameClaims
  <2>4. Len(stack') = n + 1 /\ stack'[n + 1].kind # "call" /\ stack'[n + 1].index = i
    BY <2>1 DEF Pushed, Delivery
  <2>5. ASSUME NEW j \in Indexes
        PROVE  world'.delivered[j] + Cardinality(ClaimsIn(stack', j, n + 1))
                  = IF j \in world'.claimed THEN 1 ELSE 0
    <3>1. /\ Cardinality(ClaimsIn(stack', j, n)) \in Nat
          /\ Cardinality(ClaimsIn(stack', j, n + 1)) =
                Cardinality(ClaimsIn(stack', j, n)) + (IF i = j THEN 1 ELSE 0)
      BY <1>0, <2>4, ClaimsFinite, ClaimsGrow
    <3>2. world.delivered[j] + Cardinality(ClaimsIn(stack', j, n))
             = IF j \in world.claimed THEN 1 ELSE 0
      BY <2>3 DEF OnceIn
    <3>3. world.delivered[j] \in Nat
      BY <1>0
    <3> QED
      BY <2>1, <3>1, <3>2, <3>3
  <2> QED
    BY <2>2, <2>4, <2>5 DEF OnceInv, OnceIn
<1>2. ASSUME NEW app \in Apps, Call(app) PROVE OnceInv'
  <2>1. Pushed(Calling(app)) /\ world' = world
    BY <1>2, CallFacts
  <2>2. \A k \in 1..Len(stack') : OnceIn(stack', stack'[k].saved, k - 1)
    BY <2>1, PushKeepsSaved DEF Calling
  <2>3. OnceIn(stack', world, n)
    BY <1>0, <2>1, OnceKept DEF OnceInv, Pushed, SameClaims
  <2>4. Len(stack') = n + 1 /\ stack'[n + 1].kind = "call"
    BY <2>1 DEF Pushed, Calling
  <2>5. ASSUME NEW j \in Indexes
        PROVE  Cardinality(ClaimsIn(stack', j, n + 1)) = Cardinality(ClaimsIn(stack', j, n))
    <3>1. Cardinality(ClaimsIn(stack', j, n)) \in Nat
      BY <1>0, ClaimsFinite
    <3>2. Cardinality(ClaimsIn(stack', j, n + 1)) = Cardinality(ClaimsIn(stack', j, n)) + 0
      BY <1>0, <2>4, ClaimsGrow
    <3> QED
      BY <3>1, <3>2
  <2> QED
    BY <2>1, <2>2, <2>3, <2>4, <2>5 DEF OnceInv, OnceIn
<1>3. CASE PayFee
  <2>1. /\ Len(stack') = n /\ SameClaims(stack, stack', n)
        /\ \A k \in 1..n : stack'[k].saved = stack[k].saved
    BY <1>3, PayFeeFacts DEF SameClaims
  <2>2. world'.claimed = world.claimed /\ world'.delivered = world.delivered
    BY <1>3, PayFeeWorld
  <2>3. OnceIn(stack', world, n)
    BY <1>0, <2>1, OnceKept DEF OnceInv
  <2>4. ASSUME NEW k \in 1..n PROVE OnceIn(stack', stack'[k].saved, k - 1)
    <3>1. SameClaims(stack, stack', k - 1) /\ k - 1 \in Nat
      BY <1>0, <2>1 DEF SameClaims
    <3> QED
      BY <2>1, <3>1, OnceKept DEF OnceInv
  <2> QED
    BY <2>1, <2>2, <2>3, <2>4 DEF OnceInv, OnceIn
<1>4. CASE Finish
  <2> DEFINE i == stack[n].index
  <2>1. /\ Popped /\ stack[n].kind # "call" /\ i \in Indexes
        /\ world'.claimed = world.claimed
        /\ world'.delivered = [world.delivered EXCEPT ![i] = @ + 1]
    BY <1>4, FinishFacts
  <2>2. \A k \in 1..Len(stack') : OnceIn(stack', stack'[k].saved, k - 1)
    BY <2>1, PopKeepsSaved
  <2>3. n - 1 \in Nat /\ Len(stack') = n - 1 /\ SameClaims(stack, stack', n - 1)
    BY <2>1 DEF Popped, SameClaims
  <2>4. ASSUME NEW j \in Indexes
        PROVE  world'.delivered[j] + Cardinality(ClaimsIn(stack, j, n - 1))
                  = IF j \in world.claimed THEN 1 ELSE 0
    <3>1. Cardinality(ClaimsIn(stack, j, n - 1)) \in Nat /\ n \in Nat \ {0}
      BY <1>0, <2>3, ClaimsFinite
    <3>2. Cardinality(ClaimsIn(stack, j, n)) =
              Cardinality(ClaimsIn(stack, j, n - 1)) + (IF i = j THEN 1 ELSE 0)
      BY <2>1, <3>1, ClaimsShrink
    <3>3. world.delivered[j] + Cardinality(ClaimsIn(stack, j, n))
             = IF j \in world.claimed THEN 1 ELSE 0
      BY DEF OnceInv, OnceIn
    <3>4. /\ world.delivered[j] \in Nat
          /\ world'.delivered[j] = world.delivered[j] + (IF i = j THEN 1 ELSE 0)
      BY <1>0, <2>1
    <3> QED
      BY <3>1, <3>2, <3>3, <3>4
  <2>5. OnceIn(stack, world', n - 1)
    BY <2>1, <2>4 DEF OnceIn
  <2>6. OnceIn(stack', world', n - 1)
    BY <2>3, <2>5, OnceKept
  <2> QED
    BY <2>2, <2>3, <2>6 DEF OnceInv
<1>5. CASE Fail
  <2>1. Popped /\ world' = stack[n].saved
    BY <1>5, FailFacts
  <2>2. \A k \in 1..Len(stack') : OnceIn(stack', stack'[k].saved, k - 1)
    BY <2>1, PopKeepsSaved
  <2>3. /\ n - 1 \in Nat /\ n \in 1..n /\ Len(stack') = n - 1
        /\ SameClaims(stack, stack', n - 1)
    BY <2>1 DEF Popped, SameClaims
  <2>4. OnceIn(stack, world', n - 1)
    BY <2>1, <2>3 DEF OnceInv
  <2> QED
    BY <2>2, <2>3, <2>4, OnceKept DEF OnceInv
<1>6. CASE Return
  <2>1. Popped /\ world' = world /\ stack[n].kind = "call"
    BY <1>6, ReturnFacts
  <2>2. \A k \in 1..Len(stack') : OnceIn(stack', stack'[k].saved, k - 1)
    BY <2>1, PopKeepsSaved
  <2>3. /\ n - 1 \in Nat /\ n \in Nat \ {0} /\ Len(stack') = n - 1
        /\ SameClaims(stack, stack', n - 1)
    BY <2>1 DEF Popped, SameClaims
  <2>4. ASSUME NEW j \in Indexes
        PROVE  Cardinality(ClaimsIn(stack, j, n)) = Cardinality(ClaimsIn(stack, j, n - 1))
    <3>1. Cardinality(ClaimsIn(stack, j, n - 1)) \in Nat
      BY <2>3, ClaimsFinite
    <3>2. Cardinality(ClaimsIn(stack, j, n)) = Cardinality(ClaimsIn(stack, j, n - 1)) + 0
      BY <2>1, <2>3, ClaimsShrink
    <3> QED
      BY <3>1, <3>2
  <2>5. OnceIn(stack, world, n - 1)
    BY <2>4 DEF OnceInv, OnceIn
  <2> QED
    BY <2>1, <2>2, <2>3, <2>5, OnceKept DEF OnceInv
<1>7. ASSUME NEW by \in Accounts, NEW to \in Accounts, NEW value \in SendValues,
             Send(by, to, value)
      PROVE  OnceInv'
  BY <1>7, SendFacts DEF OnceInv, OnceIn
<1>8. CASE UNCHANGED vars
  BY <1>8 DEF vars, OnceInv
<1> QED
  BY <1>1, <1>2, <1>3, <1>4, <1>5, <1>6, <1>7, <1>8, Steps

\* No message is delivered twice or lost, whatever recipients call, however
\* deep, and whichever calls fail.
THEOREM MessagesClaimedOnce == Spec => []ClaimedExactlyOnce
<1>1. Init => OnceInv
  <2> SUFFICES ASSUME Init PROVE OnceInv
    OBVIOUS
  <2>1. /\ Len(stack) = 0 /\ world.claimed = {}
        /\ \A i \in Indexes : world.delivered[i] = 0
    BY DEF Init
  <2>2. \A i : ClaimsIn(stack, i, 0) = {}
    BY DEF ClaimsIn
  <2>3. OnceIn(stack, world, 0)
    <3>1. ASSUME NEW i \in Indexes
          PROVE  world.delivered[i] + Cardinality(ClaimsIn(stack, i, 0))
                    = IF i \in world.claimed THEN 1 ELSE 0
      <4>1. Cardinality(ClaimsIn(stack, i, 0)) = 0
        BY <2>2, FS_EmptySet
      <4> QED
        BY <2>1, <4>1
    <3> QED
      BY <3>1 DEF OnceIn
  <2> QED
    BY <2>1, <2>3 DEF OnceInv
<1> QED
  BY <1>1, OnceStep, OnceIs, DeliveryTypeCorrect, PTL DEF Spec
-----------------------------------------------------------------------------
(* The contract pays what is claimed and no more.                          *)

\* What claiming each message costs, and the claimed ones of a world together;
\* what its messages sent from here brought.
Cost      == [i \in Indexes |-> Queue[i].value + Queue[i].fee]
OwedIn(w) == SumFunctionOnSet(Cost, w.claimed)

SentValue(w) == [j \in DOMAIN w.sent |-> w.sent[j].value]
SentIn(w)    == SumFunctionOnSet(SentValue(w), DOMAIN w.sent)

\* The deliveries among the first k calls of a stack, and their fees.
Delivering(s, k) == {j \in 1..k : s[j].kind = "deliver"}
FeeOf(s, k)      == [j \in Delivering(s, k) |-> Queue[s[j].index].fee]
UnpaidIn(s, k)   == SumFunctionOnSet(FeeOf(s, k), Delivering(s, k))

PaidIn(s, w, k) == w.balance + OwedIn(w) = Escrow + UnpaidIn(s, k) + SentIn(w)

\* PaysWhatIsClaimed, of the worlds in progress and those to go back to.
PaidInv == /\ PaidIn(stack, world, Len(stack))
           /\ \A k \in 1..Len(stack) : PaidIn(stack, stack[k].saved, k - 1)

\* The sums of a world are naturals.
LEMMA WorldSums ==
    ASSUME NEW w \in World
    PROVE  /\ w.balance \in Nat /\ OwedIn(w) \in Nat /\ SentIn(w) \in Nat
           /\ IsFiniteSet(w.claimed) /\ w.claimed \subseteq Indexes
<1>1. w.balance \in Nat /\ w.claimed \subseteq Indexes
  BY DEF World
<1>2. IsFiniteSet(w.claimed)
  <2>1. Len(Offered) \in Nat /\ Indexes \subseteq 1..Len(Offered)
    BY DeliveryAssumption, LenProperties DEF Indexes
  <2>2. IsFiniteSet(1..Len(Offered))
    BY <2>1, FS_Interval
  <2> QED
    BY <1>1, <2>1, <2>2, FS_Subset
<1>3. \A i \in w.claimed : Cost[i] \in Nat
  BY <1>1, QueueTypes DEF Cost
<1>4. OwedIn(w) \in Nat
  BY <1>2, <1>3, SumNat DEF OwedIn
<1>5. w.sent \in Seq([by : Accounts, value : Nat])
  BY DEF World
<1>6. DOMAIN w.sent = 1..Len(w.sent) /\ Len(w.sent) \in Nat
  BY <1>5, LenProperties
<1>7. IsFiniteSet(DOMAIN w.sent)
  BY <1>6, FS_Interval
<1>8. \A j \in DOMAIN w.sent : w.sent[j] \in [by : Accounts, value : Nat]
  BY <1>5, <1>6, ElementOfSeq
<1>9. \A j \in DOMAIN w.sent : SentValue(w)[j] \in Nat
  BY <1>8 DEF SentValue
<1>10. SentIn(w) \in Nat
  BY <1>7, <1>9, SumNat DEF SentIn
<1> QED
  BY <1>1, <1>2, <1>4, <1>10

\* The fees of the deliveries of a stack.
LEMMA FeesAreNat ==
    ASSUME NEW s \in Seq(Frame), NEW k \in 0..Len(s)
    PROVE  /\ k \in Nat /\ IsFiniteSet(Delivering(s, k))
           /\ \A j \in Delivering(s, k) : s[j].index \in Indexes
           /\ \A j \in Delivering(s, k) : FeeOf(s, k)[j] \in Nat
           /\ UnpaidIn(s, k) \in Nat
<1>1. Len(s) \in Nat /\ k \in Nat /\ k <= Len(s)
  BY LenProperties
<1>2. IsFiniteSet(1..k) /\ Delivering(s, k) \subseteq 1..k
  BY <1>1, FS_Interval DEF Delivering
<1>3. IsFiniteSet(Delivering(s, k))
  BY <1>2, FS_Subset
<1>4. ASSUME NEW j \in Delivering(s, k) PROVE s[j].index \in Indexes
  <2>1. j \in 1..Len(s) /\ s[j].kind = "deliver"
    BY <1>1 DEF Delivering
  <2>2. s[j] \in Frame
    BY <2>1, ElementOfSeq
  <2> QED
    BY <2>1, <2>2 DEF Frame
<1>5. \A j \in Delivering(s, k) : FeeOf(s, k)[j] \in Nat
  BY <1>4, QueueTypes DEF FeeOf
<1> QED
  BY <1>1, <1>3, <1>4, <1>5, SumNat DEF UnpaidIn

\* They depend on the deliveries only.
LEMMA FeesKept ==
    ASSUME NEW s, NEW t, NEW k, \A j \in 1..k : s[j] = t[j]
    PROVE  UnpaidIn(s, k) = UnpaidIn(t, k)
<1>1. Delivering(s, k) = Delivering(t, k)
  BY DEF Delivering
<1>2. FeeOf(s, k) = FeeOf(t, k)
  BY <1>1 DEF FeeOf, Delivering
<1> QED
  BY <1>1, <1>2 DEF UnpaidIn

\* The balance depends on the calls up to the position only.
LEMMA PaidKept ==
    ASSUME NEW s, NEW t, NEW w, NEW k, \A j \in 1..k : s[j] = t[j], PaidIn(s, w, k)
    PROVE  PaidIn(t, w, k)
  BY FeesKept DEF PaidIn

\* What the last of the first calls adds.
LEMMA FeesGrow ==
    ASSUME NEW s \in Seq(Frame), NEW k \in 1..Len(s)
    PROVE  UnpaidIn(s, k) = UnpaidIn(s, k - 1)
              + (IF s[k].kind = "deliver" THEN Queue[s[k].index].fee ELSE 0)
<1> DEFINE m == k - 1
<1>1. m \in 0..Len(s) /\ k \in 0..Len(s) /\ k \in Nat
  BY LenProperties
<1>2. 1..k = (1..m) \cup {k} /\ k \notin 1..m
  BY <1>1
<1> HIDE DEF m
<1>3. /\ IsFiniteSet(Delivering(s, m)) /\ UnpaidIn(s, m) \in Nat
      /\ \A j \in Delivering(s, k) : FeeOf(s, k)[j] \in Nat
  BY <1>1, FeesAreNat
<1>4. CASE s[k].kind = "deliver"
  <2>1. Delivering(s, k) = Delivering(s, m) \cup {k} /\ k \notin Delivering(s, m)
    BY <1>2, <1>4 DEF Delivering
  <2>2. \A j \in Delivering(s, m) : FeeOf(s, k)[j] = FeeOf(s, m)[j]
    BY <2>1 DEF FeeOf
  <2>3. SumFunctionOnSet(FeeOf(s, k), Delivering(s, m)) = UnpaidIn(s, m)
    BY <1>3, <2>2, SumSame DEF UnpaidIn
  <2>4. UnpaidIn(s, k) = UnpaidIn(s, m) + FeeOf(s, k)[k]
    <3>1. SumFunctionOnSet(FeeOf(s, k), Delivering(s, m) \cup {k})
             = SumFunctionOnSet(FeeOf(s, k), Delivering(s, m)) + FeeOf(s, k)[k]
      BY <1>3, <2>1, SumAdd
    <3> QED
      BY <2>1, <2>3, <3>1 DEF UnpaidIn
  <2>5. FeeOf(s, k)[k] = Queue[s[k].index].fee
    BY <2>1 DEF FeeOf
  <2> QED
    BY <1>4, <2>4, <2>5 DEF m
<1>5. CASE s[k].kind # "deliver"
  <2>1. Delivering(s, k) = Delivering(s, m)
    BY <1>2, <1>5 DEF Delivering
  <2>2. UnpaidIn(s, k) = UnpaidIn(s, m)
    BY <2>1 DEF UnpaidIn, FeeOf
  <2> QED
    BY <1>3, <1>5, <2>2 DEF m
<1> QED
  BY <1>4, <1>5

\* The worlds to go back to stay balanced when a call begins or ends.
LEMMA PushKeepsPaid ==
    ASSUME TypeOK, PaidInv, NEW frame, frame.saved = world, Pushed(frame)
    PROVE  /\ \A k \in 1..Len(stack') : PaidIn(stack', stack'[k].saved, k - 1)
           /\ UnpaidIn(stack', Len(stack)) = UnpaidIn(stack, Len(stack))
<1>1. Len(stack) \in Nat /\ Len(stack') = Len(stack) + 1
  BY LenProperties DEF TypeOK, Pushed
<1>2. ASSUME NEW k \in 1..Len(stack')
      PROVE  PaidIn(stack', stack'[k].saved, k - 1)
  <2>1. \A j \in 1..(k - 1) : stack[j] = stack'[j]
    BY <1>1 DEF Pushed
  <2>2. PaidIn(stack, stack'[k].saved, k - 1)
    <3>1. CASE k \in 1..Len(stack)
      BY <3>1 DEF Pushed, PaidInv
    <3>2. CASE k = Len(stack) + 1
      <4>1. stack'[k].saved = world /\ k - 1 = Len(stack)
        BY <1>1, <3>2 DEF Pushed
      <4> QED
        BY <4>1 DEF PaidInv
    <3> QED
      BY <1>1, <3>1, <3>2
  <2> QED
    BY <2>1, <2>2, PaidKept
<1>3. \A j \in 1..Len(stack) : stack[j] = stack'[j]
  BY DEF Pushed
<1> QED
  BY <1>2, <1>3, FeesKept

\* The states saved below the popped call are paid as they were.
LEMMA PopKeepsPaid ==
    ASSUME PaidInv, Popped
    PROVE  /\ \A k \in 1..Len(stack') : PaidIn(stack', stack'[k].saved, k - 1)
           /\ UnpaidIn(stack', Len(stack) - 1) = UnpaidIn(stack, Len(stack) - 1)
<1>1. ASSUME NEW k \in 1..Len(stack')
      PROVE  PaidIn(stack', stack'[k].saved, k - 1)
  <2>1. k \in 1..Len(stack) /\ k \in 1..(Len(stack) - 1)
    BY DEF Popped
  <2>2. \A j \in 1..(k - 1) : stack[j] = stack'[j]
    BY <2>1 DEF Popped
  <2>3. PaidIn(stack, stack'[k].saved, k - 1)
    BY <2>1 DEF Popped, PaidInv
  <2> QED
    BY <2>2, <2>3, PaidKept
<1>2. \A j \in 1..(Len(stack) - 1) : stack[j] = stack'[j]
  BY DEF Popped
<1> QED
  BY <1>1, <1>2, FeesKept

\* What a claim and a sent message add to the sums of the world.
LEMMA OwedGrows ==
    ASSUME NEW w \in World, NEW v \in World, NEW i \in Indexes,
           i \notin w.claimed, v.claimed = w.claimed \cup {i}
    PROVE  OwedIn(v) = OwedIn(w) + Queue[i].value + Queue[i].fee
<1>1. IsFiniteSet(w.claimed) /\ v.claimed \subseteq Indexes /\ OwedIn(w) \in Nat
  BY WorldSums
<1>2. \A j \in w.claimed \cup {i} : Cost[j] \in Nat
  BY <1>1, QueueTypes DEF Cost
<1>3. OwedIn(v) = OwedIn(w) + Cost[i]
  BY <1>1, <1>2, SumAdd DEF OwedIn
<1>4. Cost[i] = Queue[i].value + Queue[i].fee /\ Queue[i].value \in Nat /\ Queue[i].fee \in Nat
  BY QueueTypes DEF Cost
<1> QED
  BY <1>1, <1>3, <1>4

\* A send adds its value to the total.
LEMMA SentGrows ==
    ASSUME NEW w \in World, NEW v \in World, NEW by \in Accounts, NEW value \in Nat,
           v.sent = Append(w.sent, [by |-> by, value |-> value])
    PROVE  SentIn(v) = SentIn(w) + value
<1> DEFINE n == Len(w.sent)
           message == [by |-> by, value |-> value]
<1>1. w.sent \in Seq([by : Accounts, value : Nat]) /\ message \in [by : Accounts, value : Nat]
  BY DEF World
<1>2. /\ n \in Nat /\ DOMAIN w.sent = 1..n /\ DOMAIN v.sent = 1..(n + 1)
      /\ \A j \in 1..n : v.sent[j] = w.sent[j]
      /\ v.sent[n + 1] = message
  BY <1>1, AppendProperties, LenProperties
<1>3. \A j \in 1..n : w.sent[j] \in [by : Accounts, value : Nat]
  BY <1>1, <1>2, ElementOfSeq
<1>4. message.value = value
  OBVIOUS
<1> HIDE DEF n, message
<1>5. n \in Nat /\ 1..(n + 1) = (1..n) \cup {n + 1} /\ n + 1 \notin 1..n
  <2>1. n \in Nat
    BY <1>2
  <2> QED
    BY <2>1
<1>f. IsFiniteSet(1..n)
  BY <1>5, FS_Interval
<1>6. /\ \A j \in 1..n : SentValue(v)[j] = SentValue(w)[j] /\ SentValue(v)[j] \in Nat
      /\ SentValue(v)[n + 1] = value
  BY <1>2, <1>3, <1>4, <1>5 DEF SentValue
<1>7. SumFunctionOnSet(SentValue(v), (1..n) \cup {n + 1})
         = SumFunctionOnSet(SentValue(v), 1..n) + SentValue(v)[n + 1]
  BY <1>5, <1>f, <1>6, SumAdd
<1>8. SumFunctionOnSet(SentValue(v), 1..n) = SumFunctionOnSet(SentValue(w), 1..n)
  <2>1. \A j \in 1..n : SentValue(v)[j] = SentValue(w)[j]
    BY <1>6
  <2> QED
    BY <1>f, <2>1, SumSame
<1> QED
  BY <1>2, <1>5, <1>6, <1>7, <1>8 DEF SentIn

\* Every step keeps the balance what was sent less what was claimed.
LEMMA PaidStep == TypeOK /\ PaidInv /\ [Next]_vars => PaidInv'
<1> SUFFICES ASSUME TypeOK, PaidInv, [Next]_vars PROVE PaidInv'
  OBVIOUS
<1> DEFINE n == Len(stack)
<1>0. /\ n \in Nat /\ world \in World /\ n \in 0..n
      /\ world' \in World /\ stack' \in Seq(Frame)
      /\ stack \in Seq(Frame) /\ Escrow \in Nat
  BY LenProperties, TypeStep, DeliveryAssumption DEF TypeOK
<1>a. /\ world.balance \in Nat /\ OwedIn(world) \in Nat /\ SentIn(world) \in Nat
      /\ UnpaidIn(stack, n) \in Nat
  BY <1>0, WorldSums, FeesAreNat
<1>c. Escrow \in Nat
  BY <1>0
<1>b. world.balance + OwedIn(world) = Escrow + UnpaidIn(stack, n) + SentIn(world)
  BY DEF PaidInv, PaidIn
<1>1. ASSUME NEW i \in Indexes, NEW feeRecipient \in Apps \cup Users, Claim(i, feeRecipient)
      PROVE  PaidInv'
  <2>1. /\ i \notin world.claimed /\ world'.claimed = world.claimed \cup {i}
        /\ world'.sent = world.sent /\ world'.balance = world.balance - Queue[i].value
        /\ Pushed(Delivery(i, feeRecipient))
    BY <1>1, ClaimFacts
  <2>2. /\ \A k \in 1..Len(stack') : PaidIn(stack', stack'[k].saved, k - 1)
        /\ UnpaidIn(stack', n) = UnpaidIn(stack, n)
    BY <2>1, PushKeepsPaid DEF Delivery
  <2>3. /\ Len(stack') = n + 1 /\ stack'[n + 1].kind = "deliver"
        /\ stack'[n + 1].index = i
    BY <2>1 DEF Pushed, Delivery
  <2>4. UnpaidIn(stack', n + 1) = UnpaidIn(stack, n) + Queue[i].fee
    <3>1. n + 1 \in 1..Len(stack') /\ n + 1 - 1 = n
      BY <1>0, <2>3
    <3> QED
      BY <1>0, <2>2, <2>3, <3>1, FeesGrow
  <2>5. OwedIn(world') = OwedIn(world) + Queue[i].value + Queue[i].fee
    BY <1>0, <2>1, OwedGrows
  <2>6. SentIn(world') = SentIn(world)
    BY <2>1 DEF SentIn, SentValue
  <2>7. Queue[i].value \in Nat /\ Queue[i].fee \in Nat
    BY QueueTypes
  <2>8. PaidIn(stack', world', n + 1)
    <3>1. world'.balance = world.balance - Queue[i].value
      BY <2>1
    <3> DEFINE b == world.balance
               owed == OwedIn(world)
               unpaid == UnpaidIn(stack, n)
               sent == SentIn(world)
               value == Queue[i].value
               fee == Queue[i].fee
    <3>2. /\ b \in Nat /\ owed \in Nat /\ unpaid \in Nat /\ sent \in Nat
          /\ value \in Nat /\ fee \in Nat /\ b + owed = Escrow + unpaid + sent
      BY <1>a, <1>b, <2>7
    <3> HIDE DEF b, owed, unpaid, sent, value, fee
    <3>3. (b - value) + (owed + value + fee) = Escrow + (unpaid + fee) + sent
      BY <1>c, <3>2
    <3> QED
      BY <2>4, <2>5, <2>6, <3>1, <3>3, Zenon DEF PaidIn, b, owed, unpaid, sent, value, fee
  <2> QED
    BY <2>2, <2>3, <2>8 DEF PaidInv
<1>2. ASSUME NEW app \in Apps, Call(app) PROVE PaidInv'
  <2>1. Pushed(Calling(app)) /\ world' = world
    BY <1>2, CallFacts
  <2>2. /\ \A k \in 1..Len(stack') : PaidIn(stack', stack'[k].saved, k - 1)
        /\ UnpaidIn(stack', n) = UnpaidIn(stack, n)
    BY <2>1, PushKeepsPaid DEF Calling
  <2>3. Len(stack') = n + 1 /\ stack'[n + 1].kind = "call"
    BY <2>1 DEF Pushed, Calling
  <2>4. UnpaidIn(stack', n + 1) = UnpaidIn(stack, n) + 0
    <3>1. n + 1 \in 1..Len(stack') /\ n + 1 - 1 = n
      BY <1>0, <2>3
    <3> QED
      BY <1>0, <2>2, <2>3, <3>1, FeesGrow
  <2>5. PaidIn(stack', world', n + 1)
    BY <1>a, <1>b, <2>1, <2>4 DEF PaidIn
  <2> QED
    BY <2>2, <2>3, <2>5 DEF PaidInv
<1>3. CASE PayFee
  <2>1. /\ Len(stack') = n /\ n \in Nat \ {0} /\ n \in 1..n
        /\ \A k \in 1..(n - 1) : stack'[k] = stack[k]
        /\ \A k \in 1..n : stack'[k].saved = stack[k].saved
        /\ stack[n].kind = "deliver" /\ stack'[n].kind = "fee"
    BY <1>3, PayFeeFacts
  <2>2. /\ world'.claimed = world.claimed /\ world'.sent = world.sent
        /\ world'.balance = world.balance - Queue[stack[n].index].fee
    BY <1>3, PayFeeWorld
  <2>3. Queue[stack[n].index].fee \in Nat
    BY <2>1, FrameTypes, QueueTypes
  <2>4. n - 1 \in 0..n /\ UnpaidIn(stack, n - 1) \in Nat
    BY <1>0, <2>1, FeesAreNat
  <2>5. UnpaidIn(stack, n) = UnpaidIn(stack, n - 1) + Queue[stack[n].index].fee
    BY <1>0, <2>1, FeesGrow
  <2>6. UnpaidIn(stack', n) = UnpaidIn(stack', n - 1) + 0
    BY <1>0, <2>1, FeesGrow
  <2>7. UnpaidIn(stack', n - 1) = UnpaidIn(stack, n - 1)
    BY <2>1, FeesKept
  <2>8. OwedIn(world') = OwedIn(world) /\ SentIn(world') = SentIn(world)
    BY <2>2 DEF OwedIn, SentIn, SentValue
  <2>9. PaidIn(stack', world', n)
    <3>1. world'.balance = world.balance - Queue[stack[n].index].fee
      BY <2>2
    <3>2. UnpaidIn(stack', n) = UnpaidIn(stack, n) - Queue[stack[n].index].fee
      BY <2>3, <2>4, <2>5, <2>6, <2>7
    <3> DEFINE b == world.balance
               owed == OwedIn(world)
               unpaid == UnpaidIn(stack, n)
               sent == SentIn(world)
               fee == Queue[stack[n].index].fee
    <3>3. /\ b \in Nat /\ owed \in Nat /\ unpaid \in Nat /\ sent \in Nat
          /\ fee \in Nat /\ b + owed = Escrow + unpaid + sent
      BY <1>a, <1>b, <2>3
    <3> HIDE DEF b, owed, unpaid, sent, fee
    <3>4. (b - fee) + owed = Escrow + (unpaid - fee) + sent
      BY <1>c, <3>3
    <3> QED
      BY <2>8, <3>1, <3>2, <3>4, Zenon DEF PaidIn, b, owed, unpaid, sent, fee
  <2>10. ASSUME NEW k \in 1..n PROVE PaidIn(stack', stack'[k].saved, k - 1)
    <3>1. \A j \in 1..(k - 1) : stack[j] = stack'[j]
      BY <1>0, <2>1
    <3>2. PaidIn(stack, stack'[k].saved, k - 1)
      BY <2>1 DEF PaidInv
    <3> QED
      BY <3>1, <3>2, PaidKept
  <2> QED
    BY <2>1, <2>9, <2>10 DEF PaidInv
<1>4. CASE Finish
  <2>1. /\ Popped /\ world'.claimed = world.claimed /\ world'.sent = world.sent
        /\ world'.balance = world.balance
        /\ stack[n].kind = "fee" \/ Queue[stack[n].index].fee = 0
    BY <1>4, FinishFacts
  <2>2. /\ \A k \in 1..Len(stack') : PaidIn(stack', stack'[k].saved, k - 1)
        /\ UnpaidIn(stack', n - 1) = UnpaidIn(stack, n - 1)
    BY <2>1, PopKeepsPaid
  <2>3. n \in 1..n /\ n - 1 \in 0..n /\ Len(stack') = n - 1
    BY <2>1 DEF Popped
  <2>4. UnpaidIn(stack, n) = UnpaidIn(stack, n - 1) + 0 /\ UnpaidIn(stack, n - 1) \in Nat
    BY <1>0, <2>1, <2>3, FeesGrow, FeesAreNat
  <2>5. OwedIn(world') = OwedIn(world) /\ SentIn(world') = SentIn(world)
    BY <2>1 DEF OwedIn, SentIn, SentValue
  <2>6. PaidIn(stack', world', n - 1)
    BY <1>b, <2>1, <2>2, <2>4, <2>5 DEF PaidIn
  <2> QED
    BY <2>2, <2>3, <2>6 DEF PaidInv
<1>5. CASE Fail
  <2>1. Popped /\ world' = stack[n].saved
    BY <1>5, FailFacts
  <2>2. /\ \A k \in 1..Len(stack') : PaidIn(stack', stack'[k].saved, k - 1)
        /\ UnpaidIn(stack', n - 1) = UnpaidIn(stack, n - 1)
    BY <2>1, PopKeepsPaid
  <2>3. n \in 1..n /\ Len(stack') = n - 1
    BY <2>1 DEF Popped
  <2>4. PaidIn(stack, world', n - 1)
    BY <2>1, <2>3 DEF PaidInv
  <2>5. PaidIn(stack', world', n - 1)
    BY <2>2, <2>4 DEF PaidIn
  <2> QED
    BY <2>2, <2>3, <2>5 DEF PaidInv
<1>6. CASE Return
  <2>1. Popped /\ world' = world /\ stack[n].kind = "call"
    BY <1>6, ReturnFacts
  <2>2. /\ \A k \in 1..Len(stack') : PaidIn(stack', stack'[k].saved, k - 1)
        /\ UnpaidIn(stack', n - 1) = UnpaidIn(stack, n - 1)
    BY <2>1, PopKeepsPaid
  <2>3. n \in 1..n /\ n - 1 \in 0..n /\ Len(stack') = n - 1
    BY <2>1 DEF Popped
  <2>4. UnpaidIn(stack, n) = UnpaidIn(stack, n - 1) + 0 /\ UnpaidIn(stack, n - 1) \in Nat
    BY <1>0, <2>1, <2>3, FeesGrow, FeesAreNat
  <2>5. PaidIn(stack', world', n - 1)
    BY <1>b, <2>1, <2>2, <2>4 DEF PaidIn
  <2> QED
    BY <2>2, <2>3, <2>5 DEF PaidInv
<1>7. ASSUME NEW by \in Accounts, NEW to \in Accounts, NEW value \in SendValues,
             Send(by, to, value)
      PROVE  PaidInv'
  <2>1. /\ stack' = stack /\ world'.claimed = world.claimed
        /\ world'.balance = world.balance + value
        /\ world'.sent = Append(world.sent, [by |-> by, value |-> value])
    BY <1>7, SendFacts
  <2>2. value \in Nat
    BY DeliveryAssumption
  <2>3. SentIn(world') = SentIn(world) + value
    BY <1>0, <2>1, <2>2, SentGrows
  <2>4. OwedIn(world') = OwedIn(world)
    BY <2>1 DEF OwedIn
  <2>5. PaidIn(stack, world', n)
    <3>1. world'.balance = world.balance + value
      BY <2>1
    <3> QED
      BY <1>a, <1>b, <1>c, <2>2, <2>3, <2>4, <3>1 DEF PaidIn
  <2> QED
    BY <2>1, <2>5 DEF PaidInv
<1>8. CASE UNCHANGED vars
  BY <1>8 DEF vars, PaidInv
<1> QED
  BY <1>1, <1>2, <1>3, <1>4, <1>5, <1>6, <1>7, <1>8, Steps

\* The invariant says of the present world what the property does.
LEMMA PaidIs == TypeOK /\ PaidInv => PaysWhatIsClaimed
<1> SUFFICES ASSUME TypeOK, PaidInv PROVE PaysWhatIsClaimed
  OBVIOUS
<1>1. {j \in Claims(Len(stack)) : stack[j].kind = "deliver"} = Delivering(stack, Len(stack))
  BY DEF Claims, Delivering
<1> DEFINE claimedCost == [i \in world.claimed |-> Queue[i].value + Queue[i].fee]
<1>2. IsFiniteSet(world.claimed) /\ world.claimed \subseteq Indexes
  BY WorldSums DEF TypeOK
<1>3. \A i \in world.claimed : claimedCost[i] = Cost[i]
  BY <1>2 DEF Cost
<1> HIDE DEF claimedCost
<1>4. SumFunctionOnSet(claimedCost, world.claimed) = OwedIn(world)
  BY <1>2, <1>3, SumSame DEF OwedIn
<1>5. world.balance + OwedIn(world)
         = Escrow + UnpaidIn(stack, Len(stack)) + SentIn(world)
  BY DEF PaidInv, PaidIn
<1> QED
  BY <1>1, <1>4, <1>5 DEF PaysWhatIsClaimed, UnpaidIn, FeeOf, SentIn, SentValue, claimedCost

\* The contract has what was sent through it less the values and the fees of
\* the claimed messages: each is paid once, whatever recipients call and
\* whichever calls fail.
THEOREM PaysOnce == Spec => []PaysWhatIsClaimed
<1>1. Init => PaidInv
  <2> SUFFICES ASSUME Init PROVE PaidInv
    OBVIOUS
  <2>1. /\ Len(stack) = 0 /\ world.claimed = {} /\ world.balance = Escrow
        /\ DOMAIN world.sent = {}
    BY DEF Init
  <2>2. Delivering(stack, 0) = {}
    BY DEF Delivering
  <2>3. OwedIn(world) = 0 /\ SentIn(world) = 0 /\ UnpaidIn(stack, 0) = 0
    BY <2>1, <2>2, SumEmpty DEF OwedIn, SentIn, UnpaidIn
  <2>4. Escrow \in Nat
    BY DeliveryAssumption
  <2> QED
    BY <2>1, <2>3, <2>4 DEF PaidInv, PaidIn
<1> QED
  BY <1>1, PaidStep, PaidIs, DeliveryTypeCorrect, PTL DEF Spec
-----------------------------------------------------------------------------
(* Nobody acts as the contract.                                            *)

Outsiders == Apps \cup Users

NothingByEndpoint(w) == \A j \in DOMAIN w.sent : w.sent[j].by # Endpoint

\* The code that runs is never the contract's, nor will it be for the fee, and
\* no world to go back to holds a message in its name.
NameInv == /\ NothingByEndpoint(world)
           /\ \A k \in 1..Len(stack) :
                 /\ stack[k].code \in Outsiders
                 /\ stack[k].kind # "call" => stack[k].feeRecipient \in Outsiders
                 /\ NothingByEndpoint(stack[k].saved)

\* The messenger is neither an app nor a user.
LEMMA NotEndpoint == Endpoint \notin Outsiders
  BY DeliveryAssumption DEF Outsiders

\* No step makes the messenger the sender of a message.
LEMMA NameStep == TypeOK /\ NameInv /\ [Next]_vars => NameInv'
<1> SUFFICES ASSUME TypeOK, NameInv, [Next]_vars PROVE NameInv'
  OBVIOUS
<1>0. Len(stack) \in Nat /\ world \in World
  BY LenProperties DEF TypeOK
<1>1. ASSUME NEW i \in Indexes, NEW feeRecipient \in Apps \cup Users, Claim(i, feeRecipient)
      PROVE  NameInv'
  <2>1. world'.sent = world.sent /\ Pushed(Delivery(i, feeRecipient))
    BY <1>1, ClaimFacts
  <2>2. /\ Delivery(i, feeRecipient).code \in Outsiders
        /\ Delivery(i, feeRecipient).feeRecipient \in Outsiders
        /\ Delivery(i, feeRecipient).saved = world
    BY QueueTypes DEF Delivery, Outsiders, Accounts
  <2> QED
    BY <1>0, <2>1, <2>2 DEF NameInv, Pushed, NothingByEndpoint
<1>2. ASSUME NEW app \in Apps, Call(app) PROVE NameInv'
  <2>1. Pushed(Calling(app)) /\ world' = world
    BY <1>2, CallFacts
  <2>2. /\ Calling(app).code \in Outsiders /\ Calling(app).kind = "call"
        /\ Calling(app).saved = world
    BY DEF Calling, Outsiders
  <2> QED
    BY <1>0, <2>1, <2>2 DEF NameInv, Pushed
<1>3. CASE PayFee
  BY <1>0, <1>3, PayFeeFacts, PayFeeWorld DEF NameInv, NothingByEndpoint
<1>4. CASE Finish
  BY <1>4, FinishFacts DEF NameInv, NothingByEndpoint, Popped
<1>5. CASE Fail
  BY <1>5, FailFacts DEF NameInv, Popped
<1>6. CASE Return
  BY <1>6, ReturnFacts DEF NameInv, Popped
<1>7. ASSUME NEW by \in Accounts, NEW to \in Accounts, NEW value \in SendValues,
             Send(by, to, value)
      PROVE  NameInv'
  <2>1. by # Endpoint
    <3>1. by \in IF stack = <<>> THEN Users ELSE {Top.code} \ Users
      BY <1>7 DEF Send, Acting
    <3>2. CASE stack = <<>>
      BY <3>1, <3>2, DeliveryAssumption
    <3>3. CASE stack # <<>>
      <4>1. Len(stack) \in 1..Len(stack)
        BY <3>3, EmptySeq DEF TypeOK
      <4> QED
        BY <3>1, <3>3, <4>1, NotEndpoint DEF NameInv, Top
    <3> QED
      BY <3>2, <3>3
  <2>2. stack' = stack /\ world'.sent = Append(world.sent, [by |-> by, value |-> value])
    BY <1>7, SendFacts
  <2>3. world.sent \in Seq([by : Accounts, value : Nat])
    BY <1>0 DEF World
  <2>4. [by |-> by, value |-> value] \in [by : Accounts, value : Nat]
    BY DeliveryAssumption
  <2>5. /\ DOMAIN world'.sent = 1..(Len(world.sent) + 1) /\ Len(world.sent) \in Nat
        /\ \A j \in 1..Len(world.sent) : world'.sent[j] = world.sent[j]
        /\ world'.sent[Len(world.sent) + 1] = [by |-> by, value |-> value]
    BY <2>2, <2>3, <2>4, AppendProperties, LenProperties
  <2>6. DOMAIN world.sent = 1..Len(world.sent)
    BY <2>3, LenProperties
  <2>7. NothingByEndpoint(world')
    BY <2>1, <2>5, <2>6 DEF NothingByEndpoint, NameInv
  <2> QED
    BY <2>2, <2>7 DEF NameInv, NothingByEndpoint
<1>8. CASE UNCHANGED vars
  BY <1>8 DEF vars, NameInv, NothingByEndpoint
<1> QED
  BY <1>1, <1>2, <1>3, <1>4, <1>5, <1>6, <1>7, <1>8, Steps

\* No message is sent by the contract that others trust to deliver, though it
\* calls whoever messages name.
THEOREM NothingInItsName == Spec => []NoMessageInItsName
<1>1. Init => NameInv
  BY DEF Init, NameInv, NothingByEndpoint
<1>2. NameInv => NoMessageInItsName
  BY DEF NameInv, NothingByEndpoint, NoMessageInItsName
<1> QED
  BY <1>1, <1>2, NameStep, DeliveryTypeCorrect, PTL DEF Spec
-----------------------------------------------------------------------------
(* A recipient reads the sender of its message.                            *)

\* The innermost claim among the first k calls of a stack is the call j.
Innermost(s, j, k) == /\ j \in 1..k
                      /\ s[j].kind # "call"
                      /\ \A l \in 1..k : l > j => s[l].kind = "call"

\* What a world with those calls in progress tells the recipient: the sender,
\* or nothing once another claim ended.
SenderIn(s, w, k) ==
    /\ (\A j \in 1..k : s[j].kind = "call") => w.current = None
    /\ \A j \in 1..k : Innermost(s, j, k) /\ s[j].kind = "deliver" =>
          \/ w.current = Queue[s[j].index].sender
          \/ w.current = None /\ w.delivered # s[j].saved.delivered

\* Deliveries only add up.
Rises(v, w) == \A i \in Indexes : v.delivered[i] <= w.delivered[i]

\* The worlds to go back to.
SavedSenders ==
    \A k \in 1..Len(stack) :
       /\ SenderIn(stack, stack[k].saved, k - 1)
       /\ Rises(stack[k].saved, world)
       /\ \A j \in 1..(k - 1) : Rises(stack[j].saved, stack[k].saved)

SenderInv == SenderIn(stack, world, Len(stack)) /\ SavedSenders

\* The sender that a state shows depends on the calls up to the position only.
LEMMA SenderKeptIn ==
    ASSUME NEW s, NEW t, NEW w, NEW k, \A j \in 1..k : s[j] = t[j], SenderIn(s, w, k)
    PROVE  SenderIn(t, w, k)
  BY DEF SenderIn, Innermost

\* What a call that is not a claim adds changes nothing.
LEMMA SenderOverCall ==
    ASSUME NEW s, NEW w, NEW k \in Nat, s[k + 1].kind = "call"
    PROVE  SenderIn(s, w, k + 1) <=> SenderIn(s, w, k)
<1>1. 1..(k + 1) = (1..k) \cup {k + 1} /\ k + 1 \notin 1..k
  OBVIOUS
<1>2. (\A j \in 1..(k + 1) : s[j].kind = "call") <=> (\A j \in 1..k : s[j].kind = "call")
  BY <1>1
<1>3. ASSUME NEW j \in 1..k PROVE Innermost(s, j, k + 1) <=> Innermost(s, j, k)
  BY <1>1 DEF Innermost
<1>4. ~Innermost(s, k + 1, k + 1)
  BY DEF Innermost
<1> QED
  BY <1>1, <1>2, <1>3, <1>4 DEF SenderIn

\* A new call saves the world as it is, with the sender it shows.
LEMMA PushKeepsSenders ==
    ASSUME TypeOK, SenderInv, NEW frame, frame.saved = world, Pushed(frame),
           world'.delivered = world.delivered
    PROVE  SavedSenders'
<1>1. Len(stack) \in Nat /\ Len(stack') = Len(stack) + 1
  BY LenProperties DEF TypeOK, Pushed
<1>2. \A i \in Indexes : world.delivered[i] \in Nat
  BY DEF TypeOK, World
<1> SUFFICES ASSUME NEW k \in 1..Len(stack')
             PROVE  /\ SenderIn(stack', stack'[k].saved, k - 1)
                    /\ Rises(stack'[k].saved, world')
                    /\ \A j \in 1..(k - 1) : Rises(stack'[j].saved, stack'[k].saved)
  BY DEF SavedSenders
<1>3. \A j \in 1..(k - 1) : j \in 1..Len(stack) /\ stack[j] = stack'[j]
  BY <1>1 DEF Pushed
<1>4. CASE k \in 1..Len(stack)
  <2>1. stack'[k] = stack[k]
    BY <1>4 DEF Pushed
  <2>2. SenderIn(stack', stack'[k].saved, k - 1)
    BY <1>3, <1>4, <2>1, SenderKeptIn DEF SenderInv, SavedSenders
  <2> QED
    BY <1>3, <1>4, <2>1, <2>2 DEF SenderInv, SavedSenders, Rises
<1>5. CASE k = Len(stack) + 1
  <2>1. stack'[k].saved = world /\ k - 1 = Len(stack)
    BY <1>1, <1>5 DEF Pushed
  <2>2. Rises(world, world')
    BY <1>2 DEF Rises
  <2>3. \A j \in 1..(k - 1) : Rises(stack'[j].saved, world)
    BY <1>3 DEF SenderInv, SavedSenders
  <2>4. SenderIn(stack', world, Len(stack))
    BY <1>3, <2>1, SenderKeptIn DEF SenderInv
  <2> QED
    BY <2>1, <2>2, <2>3, <2>4
<1> QED
  BY <1>1, <1>4, <1>5

\* ... and after one ends, unless a delivery is taken back.
LEMMA PopKeepsSenders ==
    ASSUME SenderInv, Popped,
           \A k \in 1..(Len(stack) - 1) : Rises(stack[k].saved, world')
    PROVE  SavedSenders'
<1> SUFFICES ASSUME NEW k \in 1..Len(stack')
             PROVE  /\ SenderIn(stack', stack'[k].saved, k - 1)
                    /\ Rises(stack'[k].saved, world')
                    /\ \A j \in 1..(k - 1) : Rises(stack'[j].saved, stack'[k].saved)
  BY DEF SavedSenders
<1>1. k \in 1..Len(stack) /\ k \in 1..(Len(stack) - 1) /\ stack'[k] = stack[k]
  BY DEF Popped
<1>2. \A j \in 1..(k - 1) : stack[j] = stack'[j]
  BY <1>1 DEF Popped
<1>3. SenderIn(stack', stack'[k].saved, k - 1)
  BY <1>1, <1>2, SenderKeptIn DEF SenderInv, SavedSenders
<1> QED
  BY <1>1, <1>2, <1>3 DEF SenderInv, SavedSenders

\* Every step keeps the sender that of the innermost claim, or none.
LEMMA SenderStep == TypeOK /\ SenderInv /\ [Next]_vars => SenderInv'
<1> SUFFICES ASSUME TypeOK, SenderInv, [Next]_vars PROVE SenderInv'
  OBVIOUS
<1> DEFINE n == Len(stack)
<1>0. /\ n \in Nat /\ world \in World /\ world.delivered \in [Indexes -> Nat]
      /\ \A k \in 1..n : stack[k].saved.delivered \in [Indexes -> Nat]
  BY LenProperties, FrameTypes DEF TypeOK, World
<1>1. ASSUME NEW i \in Indexes, NEW feeRecipient \in Apps \cup Users, Claim(i, feeRecipient)
      PROVE  SenderInv'
  <2>1. /\ world'.delivered = world.delivered /\ world'.current = Queue[i].sender
        /\ Pushed(Delivery(i, feeRecipient))
    BY <1>1, ClaimFacts
  <2>2. SavedSenders'
    BY <2>1, PushKeepsSenders DEF Delivery
  <2>3. Len(stack') = n + 1 /\ stack'[n + 1].kind = "deliver" /\ stack'[n + 1].index = i
    BY <2>1 DEF Pushed, Delivery
  <2>4. n + 1 \in 1..(n + 1) /\ \A j \in 1..(n + 1) : Innermost(stack', j, n + 1) => j = n + 1
    BY <1>0, <2>3 DEF Innermost
  <2>5. SenderIn(stack', world', n + 1)
    BY <2>1, <2>3, <2>4 DEF SenderIn
  <2> QED
    BY <2>2, <2>3, <2>5 DEF SenderInv
<1>2. ASSUME NEW app \in Apps, Call(app) PROVE SenderInv'
  <2>1. Pushed(Calling(app)) /\ world' = world
    BY <1>2, CallFacts
  <2>2. SavedSenders'
    BY <2>1, PushKeepsSenders DEF Calling
  <2>3. /\ Len(stack') = n + 1 /\ stack'[n + 1].kind = "call"
        /\ \A j \in 1..n : stack[j] = stack'[j]
    BY <2>1 DEF Pushed, Calling
  <2>4. SenderIn(stack', world, n)
    BY <2>3, SenderKeptIn DEF SenderInv
  <2>5. SenderIn(stack', world, n + 1)
    BY <1>0, <2>3, <2>4, SenderOverCall
  <2> QED
    BY <2>1, <2>2, <2>3, <2>5 DEF SenderInv
<1>3. CASE PayFee
  <2>1. /\ Len(stack') = n /\ n \in 1..n
        /\ \A k \in 1..(n - 1) : stack[k] = stack'[k]
        /\ stack'[n].kind = "fee"
        /\ \A k \in 1..n : stack'[k].saved = stack[k].saved
    BY <1>3, PayFeeFacts
  <2>2. world'.current = world.current /\ world'.delivered = world.delivered
    BY <1>3, PayFeeWorld
  <2>3. \A j \in 1..n : Innermost(stack', j, n) => j = n
    BY <2>1 DEF Innermost
  <2>4. SenderIn(stack', world', n)
    BY <2>1, <2>3 DEF SenderIn
  <2>5. ASSUME NEW k \in 1..n
        PROVE  /\ SenderIn(stack', stack'[k].saved, k - 1)
               /\ Rises(stack'[k].saved, world')
               /\ \A j \in 1..(k - 1) : Rises(stack'[j].saved, stack'[k].saved)
    <3>1. \A j \in 1..(k - 1) : stack[j] = stack'[j] /\ j \in 1..n
      BY <1>0, <2>1
    <3>2. SenderIn(stack', stack[k].saved, k - 1)
      BY <3>1, SenderKeptIn DEF SenderInv, SavedSenders
    <3> QED
      BY <2>1, <2>2, <3>1, <3>2 DEF SenderInv, SavedSenders, Rises
  <2> QED
    BY <2>1, <2>4, <2>5 DEF SenderInv, SavedSenders
<1>4. CASE Finish
  <2> DEFINE i == stack[n].index
  <2>1. /\ Popped /\ i \in Indexes /\ world'.current = None
        /\ world'.delivered = [world.delivered EXCEPT ![i] = @ + 1]
    BY <1>4, FinishFacts
  <2>2. Len(stack') = n - 1 /\ \A j \in 1..(n - 1) : stack[j] = stack'[j] /\ j \in 1..n
    BY <2>1 DEF Popped
  <2>3. ASSUME NEW k \in 1..(n - 1)
        PROVE  /\ Rises(stack[k].saved, world')
               /\ world'.delivered[i] # stack[k].saved.delivered[i]
    <3>1. \A j \in Indexes : /\ stack[k].saved.delivered[j] \in Nat
                            /\ world.delivered[j] \in Nat
                            /\ stack[k].saved.delivered[j] <= world.delivered[j]
                            /\ world'.delivered[j] = world.delivered[j] + (IF j = i THEN 1 ELSE 0)
      BY <1>0, <2>1, <2>2 DEF SenderInv, SavedSenders, Rises
    <3> QED
      BY <2>1, <3>1 DEF Rises
  <2>4. SavedSenders'
    BY <2>1, <2>3, PopKeepsSenders
  <2>5. SenderIn(stack', world', n - 1)
    BY <2>1, <2>2, <2>3 DEF SenderIn
  <2> QED
    BY <2>2, <2>4, <2>5 DEF SenderInv
<1>5. CASE Fail
  <2>1. Popped /\ world' = stack[n].saved
    BY <1>5, FailFacts
  <2>2. /\ Len(stack') = n - 1 /\ n \in 1..n
        /\ \A j \in 1..(n - 1) : stack[j] = stack'[j]
    BY <2>1 DEF Popped
  <2>3. \A k \in 1..(n - 1) : Rises(stack[k].saved, world')
    BY <2>1, <2>2 DEF SenderInv, SavedSenders
  <2>4. SavedSenders'
    BY <2>1, <2>3, PopKeepsSenders
  <2>5. SenderIn(stack', world', n - 1)
    BY <2>1, <2>2, SenderKeptIn DEF SenderInv, SavedSenders
  <2> QED
    BY <2>2, <2>4, <2>5 DEF SenderInv
<1>6. CASE Return
  <2>1. Popped /\ world' = world /\ stack[n].kind = "call"
    BY <1>6, ReturnFacts
  <2> DEFINE m == n - 1
  <2>2. /\ m \in Nat /\ n = m + 1 /\ Len(stack') = m
        /\ \A j \in 1..m : stack[j] = stack'[j] /\ j \in 1..n
    BY <2>1 DEF Popped
  <2>3. SavedSenders'
    BY <2>1, <2>2, PopKeepsSenders DEF SenderInv, SavedSenders
  <2> HIDE DEF m
  <2>4. SenderIn(stack, world, m)
    BY <2>1, <2>2, SenderOverCall DEF SenderInv
  <2>5. SenderIn(stack', world, m)
    BY <2>2, <2>4, SenderKeptIn
  <2> QED
    BY <2>1, <2>2, <2>3, <2>5 DEF SenderInv
<1>7. ASSUME NEW by \in Accounts, NEW to \in Accounts, NEW value \in SendValues,
             Send(by, to, value)
      PROVE  SenderInv'
  <2>1. /\ stack' = stack /\ world'.current = world.current
        /\ world'.delivered = world.delivered
    BY <1>7, SendFacts
  <2>2. SenderIn(stack, world', n)
    BY <2>1 DEF SenderInv, SenderIn
  <2>3. SavedSenders'
    BY <2>1 DEF SenderInv, SavedSenders, Rises
  <2> QED
    BY <2>1, <2>2, <2>3 DEF SenderInv
<1>8. CASE UNCHANGED vars
  BY <1>8 DEF vars, SenderInv, SavedSenders
<1> QED
  BY <1>1, <1>2, <1>3, <1>4, <1>5, <1>6, <1>7, <1>8, Steps

\* A recipient that asks for its message's sender is never told another one,
\* whatever claims are nested in the call or fail in it.
THEOREM SenderIsTold == Spec => []SenderIsTheMessages
<1>1. Init => SenderInv
  BY DEF Init, SenderInv, SavedSenders, SenderIn
<1>2. TypeOK /\ SenderInv => SenderIsTheMessages
  <2> SUFFICES ASSUME TypeOK, SenderInv PROVE SenderIsTheMessages
    OBVIOUS
  <2>1. Claims(Len(stack)) = {} => world.current = None
    BY DEF Claims, SenderInv, SenderIn
  <2>2. ASSUME stack # <<>>, Top.kind = "deliver"
        PROVE  \/ world.current = Queue[Top.index].sender
               \/ world.current = None /\ world.delivered # Top.saved.delivered
    <3>1. Len(stack) \in 1..Len(stack)
      BY <2>2, EmptySeq DEF TypeOK
    <3>2. Innermost(stack, Len(stack), Len(stack))
      BY <2>2, <3>1 DEF Innermost, Top
    <3> QED
      BY <2>2, <3>1, <3>2 DEF SenderInv, SenderIn, Top
  <2> QED
    BY <2>1, <2>2 DEF SenderIsTheMessages
<1> QED
  BY <1>1, <1>2, SenderStep, DeliveryTypeCorrect, PTL DEF Spec
=============================================================================
