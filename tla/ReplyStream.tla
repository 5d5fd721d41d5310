---------------------------- MODULE ReplyStream ----------------------------
(***************************************************************************)
(* One bidirectional stream of BidderService.Bid or                        *)
(* RetrieverService.Retrieve (crates/api): a spawned task takes requests   *)
(* from the inbound stream one at a time, runs the use case, and sends the *)
(* answer into a bounded channel whose receiver is the response stream.    *)
(* The two services differ in what a rejection is: an ordinary message of  *)
(* the bidder, an error status of the retriever, which does not look at    *)
(* whether the status could be sent.                                       *)
(*                                                                         *)
(* The transport is external: it forwards the channel to the client, ends  *)
(* the response after the first error status, and drops the receiver then  *)
(* or when the client goes away.                                           *)
(***************************************************************************)
EXTENDS Naturals, Sequences

CONSTANTS
    MaxRequests,   \* bound: requests the client sends on the stream
    BufSize        \* BUF_SIZE, the capacity of the channel

ASSUME ReplyStreamAssumption ==
    MaxRequests \in Nat /\ BufSize \in Nat \ {0}

VARIABLES
    service,    \* which of the two services the stream belongs to
    sent,       \* number of requests the client has sent
    inbound,    \* the inbound stream: open, ended, or failed
    task,       \* handle_request: reading, sending, about to close, closed
    taken,      \* number of requests taken from the inbound stream
    accepted,   \* those of them the use case answered with Ok
    pending,    \* the answer being sent
    channel,    \* answers sent and not yet forwarded
    receiver,   \* the receiving end: open or dropped
    replies,    \* answers forwarded to the client
    atDrop      \* history: accepted when the receiver was dropped

TaskSide == <<task, taken, accepted, pending>>
ReplyStreamVars ==
    <<service, sent, inbound, TaskSide, channel, receiver, replies, atDrop>>

\* An item of the channel; "status" is Err(Status), the others are messages.
Kinds == {"ok", "rejection", "status"}
Answer == [request : 0 .. MaxRequests, kind : Kinds]

ReplyStreamTypeOK ==
    /\ service \in {"bidder", "retriever"}
    /\ sent \in 0 .. MaxRequests
    /\ inbound \in {"open", "ended", "failed"}
    /\ task \in {"reading", "sending", "closing", "closed"}
    /\ taken \in 0 .. sent
    /\ accepted \in 0 .. taken
    /\ pending \in Answer
    /\ channel \in Seq(Answer) /\ Len(channel) <= BufSize
    /\ receiver \in {"open", "dropped"}
    /\ replies \in Seq(Answer)
    /\ atDrop \in 0 .. MaxRequests

\* The service method makes the channel, spawns the task and returns.
ReplyStreamInit ==
    /\ service \in {"bidder", "retriever"}
    /\ sent = 0 /\ taken = 0 /\ accepted = 0 /\ atDrop = 0
    /\ inbound = "open" /\ task = "reading" /\ receiver = "open"
    /\ pending = [request |-> 0, kind |-> "ok"]
    /\ channel = <<>> /\ replies = <<>>

-----------------------------------------------------------------------------
(* The client and the transport.                                           *)

ClientSends ==
    /\ inbound = "open" /\ sent < MaxRequests
    /\ sent' = sent + 1
    /\ UNCHANGED <<service, inbound, TaskSide, channel, receiver, replies,
                   atDrop>>

\* The client closes its side, or the inbound stream breaks.
InboundEnds(how) ==
    /\ inbound = "open"
    /\ inbound' = how
    /\ UNCHANGED <<service, sent, TaskSide, channel, receiver, replies, atDrop>>

DropReceiver ==
    /\ receiver' = "dropped"
    /\ channel' = <<>>
    /\ atDrop' = accepted

ClientGone ==
    /\ receiver = "open"
    /\ DropReceiver
    /\ UNCHANGED <<service, sent, inbound, TaskSide, replies>>

\* A status is the last thing the client gets.
Forward ==
    /\ receiver = "open" /\ channel # <<>>
    /\ replies' = Append(replies, Head(channel))
    /\ IF Head(channel).kind = "status"
       THEN DropReceiver
       ELSE channel' = Tail(channel) /\ UNCHANGED <<receiver, atDrop>>
    /\ UNCHANGED <<service, sent, inbound, TaskSide>>

\* The task has dropped the sender and the channel is drained.
ResponseEnds ==
    /\ receiver = "open" /\ channel = <<>> /\ task = "closed"
    /\ DropReceiver
    /\ UNCHANGED <<service, sent, inbound, TaskSide, replies>>

-----------------------------------------------------------------------------
(* handle_request                                                          *)

TaskElsewhere == UNCHANGED <<service, sent, inbound, receiver, replies, atDrop>>

Rejection == IF service = "bidder" THEN "rejection" ELSE "status"

\* A request is taken and answered: by the use case, or, if it does not
\* convert, by the handler itself.
TakeRequest(ok) ==
    /\ task = "reading" /\ taken < sent
    /\ taken' = taken + 1
    /\ accepted' = accepted + (IF ok THEN 1 ELSE 0)
    /\ pending' = [request |-> taken + 1,
                   kind |-> IF ok THEN "ok" ELSE Rejection]
    /\ task' = "sending"
    /\ UNCHANGED channel
    /\ TaskElsewhere

\* The conversion panics: the retriever's B256::from_slice on a hash that has
\* not 32 bytes, the bidder's U256::from_be_slice on a base fee of more.  The
\* task ends there.
TakePanics ==
    /\ task = "reading" /\ taken < sent
    /\ taken' = taken + 1
    /\ task' = "closed"
    /\ UNCHANGED <<accepted, pending, channel>>
    /\ TaskElsewhere

EndOfInbound ==
    /\ task = "reading" /\ taken = sent /\ inbound = "ended"
    /\ task' = "closed"
    /\ UNCHANGED <<taken, accepted, pending, channel>>
    /\ TaskElsewhere

\* The stream's own error is passed on, then the loop is left.
InboundFailed ==
    /\ task = "reading" /\ taken = sent /\ inbound = "failed"
    /\ pending' = [request |-> 0, kind |-> "status"]
    /\ task' = "closing"
    /\ UNCHANGED <<taken, accepted, channel>>
    /\ TaskElsewhere

AfterSend == IF task = "closing" THEN "closed" ELSE "reading"

\* Mutant of Send: the channel has no bound.
SendUnbounded ==
    /\ task \in {"sending", "closing"} /\ receiver = "open"
    /\ channel' = Append(channel, pending)
    /\ task' = AfterSend
    /\ UNCHANGED <<taken, accepted, pending>>
    /\ TaskElsewhere

\* Mutant of Send: try_send in its place.
SendOrDiscard ==
    /\ task \in {"sending", "closing"} /\ receiver = "open"
    /\ channel' = IF Len(channel) < BufSize THEN Append(channel, pending)
                                            ELSE channel
    /\ task' = AfterSend
    /\ UNCHANGED <<taken, accepted, pending>>
    /\ TaskElsewhere

\* tx.send(..).await: waits while the channel is full.
Send ==
    /\ task \in {"sending", "closing"} /\ receiver = "open"
    /\ Len(channel) < BufSize
    /\ channel' = Append(channel, pending)
    /\ task' = AfterSend
    /\ UNCHANGED <<taken, accepted, pending>>
    /\ TaskElsewhere

\* Mutant of SendFails: no failed send ends the task.
SendFailsIgnored ==
    /\ task \in {"sending", "closing"} /\ receiver = "dropped"
    /\ task' = AfterSend
    /\ UNCHANGED <<taken, accepted, pending, channel>>
    /\ TaskElsewhere

\* Mutant of SendFails: a status is sent again.
SendRetried ==
    /\ task \in {"sending", "closing"} /\ receiver = "dropped"
    /\ task' = IF pending.kind = "status" THEN task ELSE "closed"
    /\ UNCHANGED <<taken, accepted, pending, channel>>
    /\ TaskElsewhere

\* A message that cannot be sent ends the task; a status is let go.
SendFails ==
    /\ task \in {"sending", "closing"} /\ receiver = "dropped"
    /\ task' = IF pending.kind = "status" THEN AfterSend ELSE "closed"
    /\ UNCHANGED <<taken, accepted, pending, channel>>
    /\ TaskElsewhere

-----------------------------------------------------------------------------
TaskStep ==
    \/ \E ok \in BOOLEAN : TakeRequest(ok)
    \/ TakePanics
    \/ EndOfInbound
    \/ InboundFailed
    \/ Send
    \/ SendFails

ReplyStreamNext ==
    \/ ClientSends
    \/ \E how \in {"ended", "failed"} : InboundEnds(how)
    \/ ClientGone
    \/ Forward
    \/ ResponseEnds
    \/ TaskStep

ReplyStreamSpec == ReplyStreamInit /\ [][ReplyStreamNext]_ReplyStreamVars

\* The task is polled whenever it can go on, and a client that has not gone
\* away reads the response (the server sets no timeout of its own).
FairReplyStreamSpec ==
    /\ ReplyStreamSpec
    /\ WF_ReplyStreamVars(TaskStep)
    /\ WF_ReplyStreamVars(Forward)
    /\ WF_ReplyStreamVars(ResponseEnds)

-----------------------------------------------------------------------------
\* Answers carry no request number on the wire: the client matches them by
\* position, so the n-th answer it gets must be the one to its n-th request,
\* however full the channel was (0 is the status of a broken stream).
RepliesInOrder ==
    \A i \in DOMAIN replies :
        replies[i].request = i \/ replies[i] = [request |-> 0, kind |-> "status"]

\* A client that does not read its answers is not served without limit: the
\* task is at most the channel and the answer in its hands ahead of what the
\* transport has taken.  What the transport buffers beyond that is its own.
Backpressure ==
    receiver = "open" => taken <= Len(replies) + BufSize + 1

\* Once nobody listens, one more request at most is served with success (a bid
\* stored, a header signed): the failed send of its answer ends the task.
LittleWorkForNobody ==
    receiver = "dropped" => accepted <= atDrop + 1

\* An answer is never left in the channel or in the task's hands while the
\* client listens: every request taken is answered or the response is over.
EveryRequestReplied ==
    \A n \in 1 .. MaxRequests :
        taken >= n ~> Len(replies) >= n \/ receiver = "dropped"

\* Once the inbound side is over the task ends and gives up its sender, also
\* when it was waiting for room in the channel or nobody listens any more.
TaskEnds == inbound # "open" ~> task = "closed"

============================================================================
