------------------------- MODULE ReplyStreamProofs -------------------------
(***************************************************************************)
(* Safety of a reply stream for any number of requests and any capacity of *)
(* the channel.  RepliesInOrder speaks of what the client has got; it is   *)
(* inductive only together with where the answers on their way are:        *)
(* OpenStream places the channel and the answer in the task's hands right  *)
(* after the replies, and LateSuccess says what became of the one request  *)
(* that succeeded after the receiver was dropped.                          *)
(***************************************************************************)
EXTENDS ReplyStream, TLAPS

Broken == [request |-> 0, kind |-> "status"]

OnTheirWay == Len(replies) + Len(channel)

\* While somebody listens: the answers on their way continue the replies, and
\* the requests taken are those answered and the one in hand.
OpenStream ==
    receiver = "open" =>
        /\ \A i \in 1 .. Len(replies) : replies[i].request = i
        /\ \A j \in 1 .. Len(channel) :
            \/ channel[j].request = Len(replies) + j
            \/ task = "closed" /\ j = Len(channel) /\ channel[j] = Broken
        /\ task = "reading" => taken = OnTheirWay
        /\ task = "sending" => taken = OnTheirWay + 1 /\ pending.request = taken
        /\ task = "closing" => taken = OnTheirWay /\ pending = Broken
        /\ taken <= OnTheirWay + 1

\* After that: a success beyond those counted at the drop is the last one.
LateSuccess ==
    receiver = "dropped" =>
        /\ accepted <= atDrop + 1
        /\ accepted = atDrop + 1 =>
            task = "closed" \/ (task = "sending" /\ pending.kind = "ok")

ReplyStreamInv ==
    ReplyStreamTypeOK /\ RepliesInOrder /\ OpenStream /\ LateSuccess

-----------------------------------------------------------------------------
\* What the channel and the replies are after an answer is forwarded or sent.
LEMMA AppendFacts ==
    ASSUME NEW S, NEW s \in Seq(S), NEW e \in S
    PROVE  /\ Append(s, e) \in Seq(S)
           /\ Len(Append(s, e)) = Len(s) + 1
           /\ \A i \in 1 .. Len(s) : Append(s, e)[i] = s[i]
           /\ Append(s, e)[Len(s) + 1] = e
           /\ DOMAIN Append(s, e) = 1 .. Len(s) + 1
  OBVIOUS

LEMMA HeadTailFacts ==
    ASSUME NEW S, NEW s \in Seq(S), s # <<>>
    PROVE  /\ Len(s) \in Nat \ {0}
           /\ Head(s) = s[1] /\ Head(s) \in S
           /\ Tail(s) \in Seq(S)
           /\ Len(Tail(s)) = Len(s) - 1
           /\ \A i \in 1 .. Len(s) - 1 : Tail(s)[i] = s[i + 1]
  OBVIOUS

\* Init.
LEMMA ReplyStreamInit_Inv ==
    ASSUME ReplyStreamInit PROVE ReplyStreamInv
  <1>1. ReplyStreamTypeOK
    BY ReplyStreamAssumption
    DEF ReplyStreamInit, ReplyStreamTypeOK, Answer, Kinds
  <1>2. RepliesInOrder
    BY DEF ReplyStreamInit, RepliesInOrder
  <1>3. OpenStream
    BY DEF ReplyStreamInit, OpenStream, OnTheirWay
  <1>4. LateSuccess
    BY DEF ReplyStreamInit, LateSuccess
  <1>. QED  BY <1>1, <1>2, <1>3, <1>4 DEF ReplyStreamInv

\* The receiver is dropped: nothing is on its way, and nothing succeeded since.
LEMMA DropReceiver_Inv ==
    ASSUME ReplyStreamInv, DropReceiver,
           UNCHANGED <<service, sent, inbound, TaskSide>>,
           replies' \in Seq(Answer), RepliesInOrder'
    PROVE  ReplyStreamInv'
  <1>1. ReplyStreamTypeOK'
    BY ReplyStreamAssumption
    DEF ReplyStreamInv, ReplyStreamTypeOK, DropReceiver, TaskSide
  <1>2. OpenStream'
    BY DEF DropReceiver, OpenStream
  <1>3. LateSuccess'
    BY DEF ReplyStreamInv, ReplyStreamTypeOK, DropReceiver, TaskSide, LateSuccess
  <1>. QED  BY <1>1, <1>2, <1>3 DEF ReplyStreamInv

\* An answer reaches the client.
LEMMA Forward_Inv ==
    ASSUME ReplyStreamInv, Forward PROVE ReplyStreamInv'
  <1>. DEFINE answer == Head(channel)
  <1>1. /\ channel \in Seq(Answer) /\ channel # <<>>
        /\ replies \in Seq(Answer) /\ receiver = "open"
        /\ replies' = Append(replies, answer)
        /\ UNCHANGED <<service, sent, inbound, TaskSide>>
    BY DEF ReplyStreamInv, ReplyStreamTypeOK, Forward
  <1>2. /\ Len(channel) \in Nat \ {0} /\ answer = channel[1]
        /\ answer \in Answer
        /\ Tail(channel) \in Seq(Answer) /\ Len(Tail(channel)) = Len(channel) - 1
        /\ \A i \in 1 .. Len(channel) - 1 : Tail(channel)[i] = channel[i + 1]
    BY <1>1, HeadTailFacts
  <1>. HIDE DEF answer
  <1>3. /\ replies' \in Seq(Answer)
        /\ Len(replies') = Len(replies) + 1
        /\ \A i \in 1 .. Len(replies) : replies'[i] = replies[i]
        /\ replies'[Len(replies) + 1] = answer
        /\ DOMAIN replies' = 1 .. Len(replies) + 1
        /\ Len(replies) \in Nat
    BY <1>1, <1>2, AppendFacts
  <1>4. \/ answer.request = Len(replies) + 1
        \/ answer = Broken /\ task = "closed"
    <2>1. 1 \in 1 .. Len(channel)
      BY <1>2
    <2>2. \/ channel[1].request = Len(replies) + 1
          \/ task = "closed" /\ channel[1] = Broken
      BY <1>1, <2>1 DEF ReplyStreamInv, OpenStream
    <2>. QED  BY <1>2, <2>2
  <1>5. \A i \in 1 .. Len(replies) : replies[i].request = i
    BY <1>1 DEF ReplyStreamInv, OpenStream
  <1>6. RepliesInOrder'
    <2>1. ASSUME NEW i \in 1 .. Len(replies)
          PROVE  replies'[i].request = i
      BY <1>3, <1>5
    <2>2. \/ replies'[Len(replies) + 1].request = Len(replies) + 1
          \/ replies'[Len(replies) + 1] = [request |-> 0, kind |-> "status"]
      BY <1>3, <1>4 DEF Broken
    <2>3. \A i \in DOMAIN replies' : i \in 1 .. Len(replies) \/ i = Len(replies) + 1
      BY <1>3
    <2>. QED  BY <2>1, <2>2, <2>3 DEF RepliesInOrder
  <1>7. CASE answer.kind = "status"
    <2>1. DropReceiver
      BY <1>7 DEF Forward, answer
    <2>. QED  BY <2>1, <1>1, <1>3, <1>6, DropReceiver_Inv
  <1>8. CASE answer.kind # "status"
    <2>1. channel' = Tail(channel) /\ UNCHANGED <<receiver, atDrop>>
      BY <1>8 DEF Forward, answer
    <2>2. answer.request = Len(replies) + 1
      BY <1>4, <1>8 DEF Broken
    <2>3. UNCHANGED <<task, taken, accepted, pending>>
      BY <1>1 DEF TaskSide
    <2>4. OnTheirWay' = OnTheirWay
      BY <1>2, <1>3, <2>1 DEF OnTheirWay
    <2>5. ReplyStreamTypeOK'
      BY <1>1, <1>2, <1>3, <2>1, <2>3, ReplyStreamAssumption
      DEF ReplyStreamInv, ReplyStreamTypeOK
    <2>6. \A i \in 1 .. Len(replies)' : replies'[i].request = i
      BY <1>3, <1>5, <2>2
    <2>7. ASSUME NEW j \in 1 .. Len(channel)'
          PROVE  \/ channel'[j].request = Len(replies)' + j
                 \/ task' = "closed" /\ j = Len(channel)' /\ channel'[j] = Broken
      <3>1. j + 1 \in 1 .. Len(channel) /\ channel'[j] = channel[j + 1]
        BY <1>2, <2>1
      <3>2. \/ channel[j + 1].request = Len(replies) + (j + 1)
            \/ task = "closed" /\ j + 1 = Len(channel) /\ channel[j + 1] = Broken
        BY <3>1, <1>1 DEF ReplyStreamInv, OpenStream
      <3>3. Len(channel') = Len(channel) - 1 /\ j \in Nat
        BY <1>2, <2>1
      <3>4. CASE channel[j + 1].request = Len(replies) + (j + 1)
        <4>1. Len(replies) + (j + 1) = Len(replies') + j
          BY <1>3, <3>3
        <4>. QED  BY <3>1, <3>4, <4>1
      <3>5. CASE task = "closed" /\ j + 1 = Len(channel) /\ channel[j + 1] = Broken
        <4>1. j = Len(channel')
          BY <1>2, <3>3, <3>5
        <4>. QED  BY <3>1, <3>5, <4>1, <2>3
      <3>. QED  BY <3>2, <3>4, <3>5
    <2>8. OpenStream'
      BY <1>1, <2>1, <2>3, <2>4, <2>6, <2>7 DEF ReplyStreamInv, OpenStream
    <2>9. LateSuccess'
      BY <1>1, <2>1 DEF LateSuccess
    <2>. QED  BY <1>6, <2>5, <2>8, <2>9 DEF ReplyStreamInv
  <1>. QED  BY <1>7, <1>8

\* The task sends.
LEMMA Send_Inv ==
    ASSUME ReplyStreamInv, Send PROVE ReplyStreamInv'
  <1>1. /\ channel \in Seq(Answer) /\ pending \in Answer
        /\ Len(channel) < BufSize /\ receiver = "open"
        /\ task \in {"sending", "closing"}
        /\ channel' = Append(channel, pending)
        /\ task' = IF task = "closing" THEN "closed" ELSE "reading"
        /\ UNCHANGED <<service, sent, inbound, taken, accepted, pending, receiver,
                       replies, atDrop>>
    BY DEF ReplyStreamInv, ReplyStreamTypeOK, Send, AfterSend, TaskElsewhere
  <1>2. /\ channel' \in Seq(Answer)
        /\ Len(channel') = Len(channel) + 1
        /\ \A i \in 1 .. Len(channel) : channel'[i] = channel[i]
        /\ channel'[Len(channel) + 1] = pending
        /\ Len(channel) \in Nat
    BY <1>1, AppendFacts
  <1>3. Len(replies) \in Nat
    BY DEF ReplyStreamInv, ReplyStreamTypeOK
  <1>4. OnTheirWay' = OnTheirWay + 1 /\ OnTheirWay \in Nat
    BY <1>1, <1>2, <1>3 DEF OnTheirWay
  <1>5. ReplyStreamTypeOK'
    BY <1>1, <1>2, ReplyStreamAssumption DEF ReplyStreamInv, ReplyStreamTypeOK
  <1>6. RepliesInOrder'
    BY <1>1 DEF ReplyStreamInv, RepliesInOrder
  <1>7. ASSUME NEW j \in 1 .. Len(channel)'
        PROVE  \/ channel'[j].request = Len(replies)' + j
               \/ task' = "closed" /\ j = Len(channel)' /\ channel'[j] = Broken
    <2>1. CASE j \in 1 .. Len(channel)
      BY <2>1, <1>1, <1>2 DEF ReplyStreamInv, OpenStream
    <2>2. CASE j = Len(channel) + 1 /\ task = "sending"
      <3>1. pending.request = Len(replies) + Len(channel) + 1
        BY <1>1, <2>2 DEF ReplyStreamInv, OpenStream, OnTheirWay
      <3>. QED  BY <3>1, <1>1, <1>2, <1>3, <2>2
    <2>3. CASE j = Len(channel) + 1 /\ task = "closing"
      BY <2>3, <1>1, <1>2 DEF ReplyStreamInv, OpenStream
    <2>. QED  BY <2>1, <2>2, <2>3, <1>1, <1>2
  <1>8. taken \in Nat /\ taken <= OnTheirWay + 1
    BY <1>1 DEF ReplyStreamInv, ReplyStreamTypeOK, OpenStream
  <1>9. task = "sending" => taken = OnTheirWay + 1
    BY <1>1 DEF ReplyStreamInv, OpenStream
  <1>10. OpenStream'
    <2>1. \A i \in 1 .. Len(replies)' : replies'[i].request = i
      BY <1>1 DEF ReplyStreamInv, OpenStream
    <2>2. taken' <= OnTheirWay' + 1
      BY <1>1, <1>4, <1>8
    <2>3. task' = "reading" => taken' = OnTheirWay'
      BY <1>1, <1>4, <1>9
    <2>. QED  BY <1>1, <1>7, <2>1, <2>2, <2>3 DEF OpenStream
  <1>11. LateSuccess'
    BY <1>1 DEF LateSuccess
  <1>. QED  BY <1>5, <1>6, <1>10, <1>11 DEF ReplyStreamInv

\* The task takes a request and has its answer in hand.
LEMMA TakeRequest_Inv ==
    ASSUME ReplyStreamInv, NEW ok \in BOOLEAN, TakeRequest(ok)
    PROVE  ReplyStreamInv'
  <1>1. /\ task = "reading" /\ taken < sent /\ task' = "sending"
        /\ taken' = taken + 1
        /\ accepted' = accepted + (IF ok THEN 1 ELSE 0)
        /\ pending' = [request |-> taken + 1,
                       kind |-> IF ok THEN "ok" ELSE Rejection]
        /\ UNCHANGED <<service, sent, inbound, channel, receiver, replies, atDrop>>
    BY DEF TakeRequest, TaskElsewhere
  <1>2. /\ taken \in Nat /\ sent \in Nat /\ accepted \in 0 .. taken
        /\ sent <= MaxRequests /\ MaxRequests \in Nat /\ atDrop \in Nat
    BY ReplyStreamAssumption DEF ReplyStreamInv, ReplyStreamTypeOK
  <1>3. Rejection \in Kinds
    BY DEF Rejection, Kinds
  <1>4. pending' \in Answer
    BY <1>1, <1>2, <1>3 DEF Answer, Kinds
  <1>5. accepted' \in 0 .. taken' /\ taken' \in 0 .. sent'
    BY <1>1, <1>2
  <1>6. ReplyStreamTypeOK'
    BY <1>1, <1>4, <1>5 DEF ReplyStreamInv, ReplyStreamTypeOK
  <1>7. RepliesInOrder'
    BY <1>1 DEF ReplyStreamInv, RepliesInOrder
  <1>8. OnTheirWay' = OnTheirWay
    BY <1>1 DEF OnTheirWay
  <1>9. OpenStream'
    BY <1>1, <1>2, <1>8 DEF ReplyStreamInv, OpenStream
  <1>10. LateSuccess'
    <2>1. receiver = "dropped" => accepted <= atDrop
      BY <1>1, <1>2 DEF ReplyStreamInv, LateSuccess
    <2>2. CASE ok
      BY <2>1, <2>2, <1>1, <1>2 DEF LateSuccess
    <2>3. CASE ~ok
      BY <2>1, <2>3, <1>1, <1>2 DEF LateSuccess
    <2>. QED  BY <2>2, <2>3
  <1>. QED  BY <1>6, <1>7, <1>9, <1>10 DEF ReplyStreamInv

\* A send finds nobody: a success in hand ends the task.
LEMMA SendFails_Inv ==
    ASSUME ReplyStreamInv, SendFails PROVE ReplyStreamInv'
  <1>1. /\ receiver = "dropped" /\ task \in {"sending", "closing"}
        /\ task' = IF pending.kind = "status"
                   THEN IF task = "closing" THEN "closed" ELSE "reading"
                   ELSE "closed"
        /\ UNCHANGED <<service, sent, inbound, taken, accepted, pending, channel,
                       receiver, replies, atDrop>>
    BY DEF SendFails, AfterSend, TaskElsewhere
  <1>2. ReplyStreamTypeOK'
    BY <1>1 DEF ReplyStreamInv, ReplyStreamTypeOK
  <1>3. RepliesInOrder'
    BY <1>1 DEF ReplyStreamInv, RepliesInOrder
  <1>4. OpenStream'
    BY <1>1 DEF OpenStream
  <1>5. LateSuccess'
    BY <1>1 DEF ReplyStreamInv, LateSuccess
  <1>. QED  BY <1>2, <1>3, <1>4, <1>5 DEF ReplyStreamInv

\* Every step.
LEMMA ReplyStreamNext_Inv ==
    ASSUME ReplyStreamInv, [ReplyStreamNext]_ReplyStreamVars
    PROVE  ReplyStreamInv'
  <1>. USE DEF ReplyStreamInv
  <1>1. CASE ClientSends
    <2>1. /\ sent' = sent + 1 /\ sent < MaxRequests
          /\ UNCHANGED <<service, inbound, task, taken, accepted, pending, channel,
                         receiver, replies, atDrop>>
      BY <1>1 DEF ClientSends, TaskSide
    <2>2. ReplyStreamTypeOK'
      BY <2>1, ReplyStreamAssumption DEF ReplyStreamTypeOK
    <2>. QED
      BY <2>1, <2>2 DEF RepliesInOrder, OpenStream, OnTheirWay, LateSuccess
  <1>2. ASSUME NEW how \in {"ended", "failed"}, InboundEnds(how)
        PROVE  ReplyStreamInv'
    <2>1. /\ inbound' = how
          /\ UNCHANGED <<service, sent, task, taken, accepted, pending, channel,
                         receiver, replies, atDrop>>
      BY <1>2 DEF InboundEnds, TaskSide
    <2>2. ReplyStreamTypeOK'
      BY <2>1 DEF ReplyStreamTypeOK
    <2>. QED
      BY <2>1, <2>2 DEF RepliesInOrder, OpenStream, OnTheirWay, LateSuccess
  <1>3. CASE ClientGone \/ ResponseEnds
    <2>1. /\ DropReceiver /\ UNCHANGED <<service, sent, inbound, TaskSide>>
          /\ replies' = replies
      BY <1>3 DEF ClientGone, ResponseEnds
    <2>2. replies' \in Seq(Answer) /\ RepliesInOrder'
      BY <2>1 DEF ReplyStreamTypeOK, RepliesInOrder
    <2>. QED  BY <2>1, <2>2, DropReceiver_Inv
  <1>4. CASE Forward
    BY <1>4, Forward_Inv
  <1>5. ASSUME NEW ok \in BOOLEAN, TakeRequest(ok) PROVE ReplyStreamInv'
    BY <1>5, TakeRequest_Inv
  <1>6. CASE TakePanics
    <2>1. /\ task = "reading" /\ taken < sent /\ taken' = taken + 1
          /\ task' = "closed"
          /\ UNCHANGED <<service, sent, inbound, accepted, pending, channel,
                         receiver, replies, atDrop>>
      BY <1>6 DEF TakePanics, TaskElsewhere
    <2>2. ReplyStreamTypeOK'
      BY <2>1 DEF ReplyStreamTypeOK
    <2>3. OnTheirWay' = OnTheirWay /\ OnTheirWay \in Nat
      BY <2>1 DEF OnTheirWay, ReplyStreamTypeOK
    <2>. QED  BY <2>1, <2>2, <2>3 DEF RepliesInOrder, OpenStream, LateSuccess
  <1>7. CASE EndOfInbound \/ InboundFailed
    <2>1. /\ task = "reading" /\ task' \in {"closed", "closing"}
          /\ task' = "closing" => pending' = Broken
          /\ pending' \in {pending, Broken}
          /\ UNCHANGED <<service, sent, inbound, taken, accepted, channel,
                         receiver, replies, atDrop>>
      BY <1>7 DEF EndOfInbound, InboundFailed, TaskElsewhere, Broken
    <2>2. Broken \in Answer
      BY ReplyStreamAssumption DEF Broken, Answer, Kinds
    <2>3. ReplyStreamTypeOK'
      BY <2>1, <2>2 DEF ReplyStreamTypeOK
    <2>4. OnTheirWay' = OnTheirWay
      BY <2>1 DEF OnTheirWay
    <2>. QED
      BY <2>1, <2>3, <2>4 DEF RepliesInOrder, OpenStream, LateSuccess,
                              ReplyStreamTypeOK
  <1>8. CASE Send
    BY <1>8, Send_Inv
  <1>9. CASE SendFails
    BY <1>9, SendFails_Inv
  <1>10. CASE UNCHANGED ReplyStreamVars
    <2>1. UNCHANGED <<service, sent, inbound, task, taken, accepted, pending,
                      channel, receiver, replies, atDrop>>
      BY <1>10 DEF ReplyStreamVars, TaskSide
    <2>. QED
      BY <2>1 DEF ReplyStreamTypeOK, RepliesInOrder, OpenStream, OnTheirWay,
                  LateSuccess
  <1>. QED
    BY <1>1, <1>2, <1>3, <1>4, <1>5, <1>6, <1>7, <1>8, <1>9, <1>10
    DEF ReplyStreamNext, TaskStep

LEMMA ReplyStreamInvariant == ReplyStreamSpec => []ReplyStreamInv
  BY ReplyStreamInit_Inv, ReplyStreamNext_Inv, PTL DEF ReplyStreamSpec

-----------------------------------------------------------------------------
\* A reply stream's state is of its types for any number of requests and any
\* channel: in particular the channel never holds more than BUF_SIZE answers.
THEOREM ReplyStreamTypesCorrect == ReplyStreamSpec => []ReplyStreamTypeOK
  BY ReplyStreamInvariant, PTL DEF ReplyStreamInv

\* The n-th answer the client of Bid or Retrieve gets is the answer to its n-th
\* request, or the status of its broken stream.
THEOREM AnswersMatchByPosition == ReplyStreamSpec => []RepliesInOrder
  BY ReplyStreamInvariant, PTL DEF ReplyStreamInv

\* handle_request is at most the channel and one answer ahead of a client that
\* does not read.
THEOREM TaskIsHeldBack == ReplyStreamSpec => []Backpressure
  <1>1. ReplyStreamInv => Backpressure
    BY ReplyStreamAssumption
    DEF ReplyStreamInv, ReplyStreamTypeOK, OpenStream, OnTheirWay, Backpressure
  <1>. QED  BY <1>1, ReplyStreamInvariant, PTL

\* After the client is gone handle_request serves at most one more request with
\* success.
THEOREM AtMostOneLateSuccess == ReplyStreamSpec => []LittleWorkForNobody
  <1>1. ReplyStreamInv => LittleWorkForNobody
    BY DEF ReplyStreamInv, LateSuccess, LittleWorkForNobody
  <1>. QED  BY <1>1, ReplyStreamInvariant, PTL

============================================================================
