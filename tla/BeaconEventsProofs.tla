------------------------- MODULE BeaconEventsProofs -------------------------
(***************************************************************************)
(* Proofs about BeaconEvents: the merge of the two event streams loses and *)
(* reorders nothing, however much of the subscriptions is remembered.      *)
(*                                                                         *)
(* NothingLostBeforeTheEnd needs two facts more: no subscription is polled *)
(* beyond what it has yielded, so that what it yields later is none of     *)
(* what was taken; and between the two polls of poll_next every payload    *)
(* attribute that was there at the first one is taken.                     *)
(***************************************************************************)
EXTENDS BeaconEvents, SequenceTheorems, TLAPS

BeaconEventsTypeOK ==
    /\ phase \in {"subscribing", "sleeping", "open", "heads", "ended"}
    /\ topic \in Topics
    /\ yielded \in [Topics -> Seq(Items)]
    /\ closed \in [Topics -> BOOLEAN]
    /\ polled \in [Topics -> Nat]
    /\ \A t \in Topics : polled[t] <= Len(yielded[t])
    /\ delivered \in [Topics -> Seq(Nat)]

Taken(t) == {n \in 1 .. polled[t] : yielded[t][n] = "event"}

InOrder(t) ==
    /\ {delivered[t][i] : i \in DOMAIN delivered[t]} = Taken(t)
    /\ \A i, j \in DOMAIN delivered[t] :
            i < j => delivered[t][i] < delivered[t][j]

Failed(t) == polled[t] > 0 /\ yielded[t][polled[t]] = "error"

\* Between the two polls, all payload attributes of the first one are taken.
AttributesTaken == phase = "heads" => polled["payload_attributes"] = arrived

EndedRightly ==
    phase = "ended" =>
        \/ Failed("payload_attributes")
        \/ /\ polled["payload_attributes"] = arrived
           /\ Failed("head") \/ (closed["head"] /\ ~Ready("head"))

MergeInv ==
    /\ BeaconEventsTypeOK
    /\ \A t \in Topics : InOrder(t)
    /\ AttributesTaken
    /\ EndedRightly

-----------------------------------------------------------------------------
\* Nothing has been yielded or delivered before the first subscription.
LEMMA MergeInvInit ==
    ASSUME Init
    PROVE  MergeInv
<1>1. BeaconEventsTypeOK
  BY DEF Init, BeaconEventsTypeOK, Topics
<1>2. \A t \in Topics : delivered[t] = <<>> /\ Taken(t) = {}
  BY DEF Init, Taken
<1>3. \A t \in Topics : InOrder(t)
  BY <1>2 DEF InOrder
<1> QED BY <1>1, <1>3 DEF Init, MergeInv, AttributesTaken, EndedRightly

\* Steps that neither poll nor yield, and do not end the stream.
LEMMA MergeUnchanged ==
    ASSUME MergeInv, UNCHANGED <<yielded, polled, delivered, arrived>>,
           topic' \in Topics, closed' \in [Topics -> BOOLEAN],
           \/ phase' \in {"subscribing", "sleeping", "open"}
           \/ phase' = phase /\ (phase = "ended" => closed' = closed)
    PROVE  MergeInv'
<1>1. BeaconEventsTypeOK'
  BY DEF MergeInv, BeaconEventsTypeOK
<1>2. \A t \in Topics : InOrder(t)'
  BY DEF MergeInv, InOrder, Taken
<1>3. EndedRightly' /\ AttributesTaken'
  BY DEF MergeInv, EndedRightly, AttributesTaken, Failed, Ready
<1> QED BY <1>1, <1>2, <1>3 DEF MergeInv

\* What a subscription yields comes behind everything that was taken from it.
LEMMA YieldInv ==
    ASSUME MergeInv, NEW t \in Topics, NEW item \in Items, Yield(t, item)
    PROVE  MergeInv'
<1>1. /\ yielded' = [yielded EXCEPT ![t] = Append(yielded[t], item)]
      /\ phase # "ended"
      /\ UNCHANGED <<phase, topic, closed, polled, delivered, arrived>>
  BY DEF Yield, Subscribed
<1>2. \A u \in Topics : /\ yielded[u] \in Seq(Items) /\ Len(yielded[u]) \in Nat
                        /\ polled[u] \in Nat /\ polled[u] <= Len(yielded[u])
  BY DEF MergeInv, BeaconEventsTypeOK
<1>3. \A u \in Topics :
        /\ yielded'[u] \in Seq(Items)
        /\ polled[u] <= Len(yielded'[u])
        /\ \A n \in 1 .. polled[u] : yielded'[u][n] = yielded[u][n]
  <2> TAKE u \in Topics
  <2>1. CASE u = t
    BY <1>1, <1>2, <2>1 DEF MergeInv, BeaconEventsTypeOK
  <2>2. CASE u # t
    BY <1>1, <1>2, <2>2 DEF MergeInv, BeaconEventsTypeOK
  <2> QED BY <2>1, <2>2
<1>4. BeaconEventsTypeOK'
  BY <1>1, <1>3 DEF MergeInv, BeaconEventsTypeOK
<1>5. \A u \in Topics : Taken(u)' = Taken(u)
  BY <1>1, <1>3 DEF Taken
<1>6. \A u \in Topics : InOrder(u)'
  BY <1>1, <1>5 DEF MergeInv, InOrder
<1> QED BY <1>1, <1>4, <1>6 DEF MergeInv, EndedRightly, AttributesTaken

\* A history that is forgotten is forgotten as a whole.
LEMMA ForgetInv ==
    ASSUME MergeInv, NEW t \in Topics, Forget(t)
    PROVE  MergeInv'
<1>1. /\ phase' = "open" /\ UNCHANGED <<topic, closed>>
      /\ yielded' = [yielded EXCEPT ![t] = <<>>]
      /\ polled' = [polled EXCEPT ![t] = 0]
      /\ delivered' = [delivered EXCEPT ![t] = <<>>]
  BY DEF Forget
<1>2. /\ yielded \in [Topics -> Seq(Items)] /\ polled \in [Topics -> Nat]
      /\ delivered \in [Topics -> Seq(Nat)]
  BY DEF MergeInv, BeaconEventsTypeOK
<1>3. \A u \in Topics \ {t} : /\ yielded'[u] = yielded[u]
                              /\ polled'[u] = polled[u]
                              /\ delivered'[u] = delivered[u]
  BY <1>1, <1>2
<1>4. yielded'[t] = <<>> /\ polled'[t] = 0 /\ delivered'[t] = <<>>
  BY <1>1, <1>2
<1>5. BeaconEventsTypeOK'
  BY <1>1, <1>2, <1>3, <1>4 DEF MergeInv, BeaconEventsTypeOK
<1>6. InOrder(t)'
  BY <1>4 DEF InOrder, Taken
<1>7. \A u \in Topics \ {t} : InOrder(u)'
  BY <1>3 DEF MergeInv, InOrder, Taken
<1> QED BY <1>1, <1>5, <1>6, <1>7 DEF MergeInv, EndedRightly, AttributesTaken

\* The next item of a subscription is delivered behind all the others, or it is
\* an error and nothing is.
LEMMA TakeInOrder ==
    ASSUME MergeInv, NEW t \in Topics, Take(t),
           UNCHANGED <<topic, yielded, closed>>
    PROVE  /\ BeaconEventsTypeOK' /\ \A u \in Topics : InOrder(u)'
           /\ phase' = "open" \/ (phase' = "ended" /\ Failed(t)')
           /\ \A u \in Topics \ {t} : polled'[u] = polled[u]
<1> DEFINE n == polled[t] + 1
<1>1. /\ polled \in [Topics -> Nat] /\ delivered \in [Topics -> Seq(Nat)]
      /\ \A u \in Topics : /\ yielded[u] \in Seq(Items) /\ Len(yielded[u]) \in Nat
                           /\ polled[u] \in Nat /\ polled[u] <= Len(yielded[u])
  BY DEF MergeInv, BeaconEventsTypeOK
<1>2. /\ polled' \in [Topics -> Nat] /\ polled'[t] = n /\ n \in 1 .. Len(yielded[t])
      /\ \A u \in Topics \ {t} : polled'[u] = polled[u]
  <2>1. Ready(t) /\ polled' = [polled EXCEPT ![t] = polled[t] + 1]
    BY DEF Take
  <2> QED BY <1>1, <2>1 DEF Ready
<1>3. \A u \in Topics : polled'[u] <= Len(yielded'[u])
  <2> TAKE u \in Topics
  <2>1. polled'[u] <= Len(yielded[u])
    <3>1. CASE u = t
      BY <1>2, <3>1
    <3>2. CASE u # t
      BY <1>1, <1>2, <3>2
    <3> QED BY <3>1, <3>2
  <2> QED BY <2>1
<1>4. yielded[t][n] \in Items
  BY <1>1, <1>2, ElementOfSeq
<1>5. \A u \in Topics \ {t} : Taken(u)' = Taken(u)
  BY <1>2 DEF Taken
<1>6. CASE yielded[t][n] = "event"
  <2> DEFINE D == delivered[t]
  <2>1. /\ delivered' = [delivered EXCEPT ![t] = Append(D, n)]
        /\ phase' = "open"
    BY <1>6 DEF Take, NextItem
  <2>2. D \in Seq(Nat) /\ n \in Nat
    BY <1>1
  <2>3. /\ delivered'[t] = Append(D, n) /\ delivered' \in [Topics -> Seq(Nat)]
        /\ \A u \in Topics \ {t} : delivered'[u] = delivered[u]
    BY <1>1, <2>1, <2>2
  <2>4. BeaconEventsTypeOK'
    BY <1>1, <1>2, <1>3, <2>1, <2>3 DEF MergeInv, BeaconEventsTypeOK
  <2>5. /\ Len(D) \in Nat /\ DOMAIN D = 1 .. Len(D)
        /\ DOMAIN delivered'[t] = 1 .. Len(D) + 1
        /\ \A i \in 1 .. Len(D) : delivered'[t][i] = D[i]
        /\ delivered'[t][Len(D) + 1] = n
    BY <2>2, <2>3
  <2>6. Taken(t)' = Taken(t) \cup {n}
    BY <1>1, <1>2, <1>6 DEF Taken
  <2>7. \A i \in 1 .. Len(D) : D[i] \in Taken(t) /\ D[i] < n
    <3> TAKE i \in 1 .. Len(D)
    <3>1. D[i] \in Taken(t)
      BY <2>5 DEF MergeInv, InOrder
    <3> QED BY <1>1, <3>1 DEF Taken
  <2>8. InOrder(t)'
    <3>1. {D[i] : i \in 1 .. Len(D)} = Taken(t)
      BY <2>5 DEF MergeInv, InOrder
    <3>2. {delivered'[t][i] : i \in 1 .. Len(D) + 1} = Taken(t) \cup {n}
      BY <2>5, <3>1
    <3>3. \A i, j \in 1 .. Len(D) : i < j => D[i] < D[j]
      BY <2>5 DEF MergeInv, InOrder
    <3>4. \A i, j \in 1 .. Len(D) + 1 :
            i < j => delivered'[t][i] < delivered'[t][j]
      BY <2>5, <2>7, <3>3
    <3> QED BY <2>5, <2>6, <3>2, <3>4 DEF InOrder
  <2>9. \A u \in Topics \ {t} : InOrder(u)'
    BY <1>5, <2>3 DEF MergeInv, InOrder
  <2> QED BY <1>2, <2>1, <2>4, <2>8, <2>9
<1>7. CASE yielded[t][n] = "error"
  <2>1. phase' = "ended" /\ UNCHANGED delivered
    BY <1>7 DEF Take, NextItem
  <2>2. BeaconEventsTypeOK'
    BY <1>1, <1>2, <1>3, <2>1 DEF MergeInv, BeaconEventsTypeOK
  <2>3. Taken(t)' = Taken(t)
    BY <1>1, <1>2, <1>7 DEF Taken
  <2>4. \A u \in Topics : InOrder(u)'
    BY <1>5, <2>1, <2>3 DEF MergeInv, InOrder
  <2>5. Failed(t)'
    BY <1>1, <1>2, <1>7 DEF Failed
  <2> QED BY <1>2, <2>1, <2>2, <2>4, <2>5
<1> QED BY <1>4, <1>6, <1>7 DEF Items

\* The first poll goes on to the second only with every payload attribute taken.
LEMMA PollAttributesKeepsMergeInv ==
    ASSUME MergeInv, PollAttributes
    PROVE  MergeInv'
<1>1. /\ UNCHANGED <<topic, yielded, closed>>
      /\ arrived' = Len(yielded["payload_attributes"])
  BY DEF PollAttributes
<1>2. CASE Take("payload_attributes")
  BY <1>1, <1>2, TakeInOrder
     DEF MergeInv, EndedRightly, AttributesTaken, Topics
<1>3. CASE /\ ~Ready("payload_attributes") /\ phase' = "heads"
           /\ UNCHANGED <<polled, delivered>>
  <2>1. BeaconEventsTypeOK'
    BY <1>1, <1>3 DEF MergeInv, BeaconEventsTypeOK
  <2>2. \A u \in Topics : InOrder(u)'
    BY <1>1, <1>3 DEF MergeInv, InOrder, Taken
  <2>3. polled["payload_attributes"] = Len(yielded["payload_attributes"])
    BY <1>3 DEF MergeInv, BeaconEventsTypeOK, Ready, Topics
  <2> QED BY <1>1, <1>3, <2>1, <2>2, <2>3
          DEF MergeInv, EndedRightly, AttributesTaken
<1> QED BY <1>2, <1>3 DEF PollAttributes

\* The second poll ends the stream for an error or the end of the heads.
LEMMA PollHeadsKeepsMergeInv ==
    ASSUME MergeInv, PollHeads
    PROVE  MergeInv'
<1>1. phase = "heads" /\ UNCHANGED <<topic, yielded, closed, arrived>>
  BY DEF PollHeads
<1>2. CASE Take("head")
  <2>1. /\ BeaconEventsTypeOK' /\ \A u \in Topics : InOrder(u)'
        /\ phase' = "open" \/ (phase' = "ended" /\ Failed("head")')
        /\ polled'["payload_attributes"] = polled["payload_attributes"]
    BY <1>1, <1>2, TakeInOrder DEF Topics
  <2> QED BY <1>1, <2>1 DEF MergeInv, EndedRightly, AttributesTaken
<1>3. CASE /\ ~Ready("head") /\ UNCHANGED <<polled, delivered>>
           /\ phase' = IF closed["head"] THEN "ended" ELSE "open"
  <2>1. BeaconEventsTypeOK'
    BY <1>1, <1>3 DEF MergeInv, BeaconEventsTypeOK
  <2>2. \A u \in Topics : InOrder(u)'
    BY <1>1, <1>3 DEF MergeInv, InOrder, Taken
  <2> QED BY <1>1, <1>3, <2>1, <2>2
          DEF MergeInv, EndedRightly, AttributesTaken, Ready
<1> QED BY <1>2, <1>3 DEF PollHeads

LEMMA MergeInvNext ==
    ASSUME MergeInv, [Next]_vars
    PROVE  MergeInv'
<1>1. CASE SubscribeOk \/ SubscribeFails \/ Retry
  BY <1>1, MergeUnchanged DEF SubscribeOk, SubscribeFails, Retry, MergeInv,
                              BeaconEventsTypeOK, Topics
<1>2. CASE PollAttributes \/ PollHeads
  BY <1>2, PollAttributesKeepsMergeInv, PollHeadsKeepsMergeInv
<1>3. ASSUME NEW t \in Topics, Close(t)
      PROVE  MergeInv'
  <2>1. phase # "ended"
    BY <1>3 DEF Close, Subscribed
  <2> QED BY <1>3, <2>1, MergeUnchanged DEF Close, MergeInv, BeaconEventsTypeOK
<1>4. ASSUME NEW t \in Topics, NEW item \in Items, Yield(t, item)
      PROVE  MergeInv'
  BY <1>4, YieldInv
<1>5. ASSUME NEW t \in Topics, Forget(t)
      PROVE  MergeInv'
  BY <1>5, ForgetInv
<1>6. CASE UNCHANGED vars
  BY <1>6, MergeUnchanged DEF vars, MergeInv, BeaconEventsTypeOK
<1> QED BY <1>1, <1>2, <1>3, <1>4, <1>5, <1>6 DEF Next

\* Merging the payload attributes with the heads loses and reorders nothing of
\* either, however much the subscriptions yield and whenever they fail or end.
THEOREM MergeLosesNothing == Spec => []NothingLostBeforeTheEnd
<1>1. Init => MergeInv
  BY MergeInvInit
<1>2. MergeInv /\ [Next]_vars => MergeInv'
  BY MergeInvNext
<1>3. MergeInv => NothingLostBeforeTheEnd
  BY DEF MergeInv, InOrder, Taken, EndedRightly, Failed,
         NothingLostBeforeTheEnd
<1> QED BY <1>1, <1>2, <1>3, PTL DEF Spec

============================================================================
