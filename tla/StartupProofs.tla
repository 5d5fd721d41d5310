--------------------------- MODULE StartupProofs ---------------------------
(***************************************************************************)
(* Proofs about Startup: the stored registrations are authentic, requests  *)
(* are converted exactly if they are encodings, and registrations are      *)
(* taken exactly in the domain in force, for any callers, commands,        *)
(* command lines and requests.                                             *)
(*                                                                         *)
(* AcceptedInDomainInForce is not inductive: it needs ForksInForce, that   *)
(* the servers were given what the node or the command line says and that  *)
(* nothing changes the answer since.  That the answer startup uses is one  *)
(* about the fork data is OwnAnswer, and it rests on the queue, in which   *)
(* every command whose caller still waits is the one it asked for last,    *)
(* and no caller has two.                                                  *)
(***************************************************************************)
EXTENDS Startup, ConversionProofs, SequenceTheorems, TLAPS

AnyCommand == UNION {Commands[c] : c \in Callers}
Queued == [by : Callers \cup {NoCaller}, command : AnyCommand]

QueueOK ==
    /\ commands \in Seq(Queued)
    /\ \A i \in 1 .. Len(commands) : LET c == commands[i].by IN
        c # NoCaller => commands[i].command = asked[c] /\ call[c] = "queued"
    /\ \A i, j \in 1 .. Len(commands) :
        i # j /\ commands[i].by = commands[j].by => commands[i].by = NoCaller

Functions ==
    /\ DOMAIN asked = Callers
    /\ DOMAIN future = Callers
    /\ DOMAIN result = Callers

\* A caller's future, and what it returns, are of the command it asked for.
OwnAnswer ==
    \A c \in Callers :
        /\ call[c] \in {"future", "http", "silent"} => future[c] = asked[c]
        /\ result[c] # NoResult /\ call[c] = "idle" /\ c \notin Impatient
            => result[c].of = asked[c]

GatewayInv == GatewayTypeOK /\ Functions /\ QueueOK /\ OwnAnswer

-----------------------------------------------------------------------------
\* Every entry of a queue has a caller, or one that is gone.
LEMMA EntriesOfQueue ==
    ASSUME NEW q \in Seq(Queued)
    PROVE  /\ Len(q) \in Nat /\ DOMAIN q = 1 .. Len(q)
           /\ \A i \in 1 .. Len(q) :
                q[i] \in Queued /\ q[i].by \in Callers \cup {NoCaller}
<1>1. /\ Len(q) \in Nat /\ DOMAIN q = 1 .. Len(q)
      /\ q \in [1 .. Len(q) -> Queued]
  BY LenProperties, Zenon
<1> QED BY <1>1 DEF Queued

\* A new command is queued behind the others, or refused by a service that is
\* gone: the answer is to the question just asked.
LEMMA AskInv ==
    ASSUME GatewayInv, NEW c \in Callers, NEW command \in Commands[c],
           Ask(c, command)
    PROVE  GatewayInv'
<1>0. c # NoCaller /\ command \in AnyCommand
  BY GatewayAssumption DEF NoCaller, AnyCommand
<1>1. CASE service = "up"
  <2>1. /\ commands' = Append(commands, [by |-> c, command |-> command])
        /\ call' = [call EXCEPT ![c] = "queued"]
        /\ asked' = [asked EXCEPT ![c] = command]
        /\ call[c] = "idle" /\ UNCHANGED <<service, future, result>>
    BY <1>1 DEF Ask
  <2>2. commands' \in Seq(Queued) /\ Len(commands') = Len(commands) + 1
    BY <1>0, <2>1 DEF GatewayInv, QueueOK, Queued
  <2>3. \A i \in 1 .. Len(commands) : commands'[i] = commands[i]
    BY <2>1 DEF GatewayInv, QueueOK
  <2>4. commands'[Len(commands) + 1] = [by |-> c, command |-> command]
    BY <2>1 DEF GatewayInv, QueueOK
  <2>5. \A i \in 1 .. Len(commands) : commands[i].by # c
    BY <1>0, <2>1 DEF GatewayInv, QueueOK
  <2>6. Functions'
    BY <2>1 DEF GatewayInv, Functions
  <2>7. QueueOK'
    <3>1. \A i \in 1 .. Len(commands') : i \in 1 .. Len(commands) \/ i = Len(commands) + 1
      BY <2>2 DEF GatewayInv, QueueOK
    <3>2. \A i \in 1 .. Len(commands) : commands[i].by \in Callers \cup {NoCaller}
      BY EntriesOfQueue DEF GatewayInv, QueueOK
    <3>3. \A i \in 1 .. Len(commands') : commands'[i].by # NoCaller =>
            /\ commands'[i].command = asked'[commands'[i].by]
            /\ call'[commands'[i].by] = "queued"
      BY <2>1, <2>3, <2>4, <2>5, <3>1, <3>2 DEF GatewayInv, QueueOK, Functions, GatewayTypeOK
    <3>4. \A i, j \in 1 .. Len(commands') :
            i # j /\ commands'[i].by = commands'[j].by => commands'[i].by = NoCaller
      BY <2>3, <2>4, <2>5, <3>1 DEF GatewayInv, QueueOK
    <3> QED BY <2>2, <3>3, <3>4 DEF QueueOK
  <2>8. OwnAnswer'
    BY <2>1 DEF GatewayInv, OwnAnswer, Functions, GatewayTypeOK
  <2>9. GatewayTypeOK'
    <3>1. \A i \in DOMAIN commands' : commands'[i].by \in Callers \cup {NoCaller}
      BY <2>2, EntriesOfQueue
    <3> QED BY <1>1, <2>1, <3>1 DEF GatewayInv, GatewayTypeOK, Functions, Waiting
  <2> QED BY <2>6, <2>7, <2>8, <2>9 DEF GatewayInv
<1>2. CASE service # "up"
  <2>1. /\ call' = [call EXCEPT ![c] = "idle"]
        /\ result' = [result EXCEPT ![c] = [of |-> command, value |-> Err("Channel")]]
        /\ asked' = [asked EXCEPT ![c] = command]
        /\ call[c] = "idle" /\ UNCHANGED <<service, commands, future>>
    BY <1>2 DEF Ask
  <2>2. Functions'
    BY <2>1 DEF GatewayInv, Functions
  <2>3. QueueOK'
    <3>1. \A i \in 1 .. Len(commands) : commands[i].by \in Callers \cup {NoCaller}
      BY EntriesOfQueue DEF GatewayInv, QueueOK
    <3> QED BY <2>1, <3>1 DEF GatewayInv, QueueOK, Functions, GatewayTypeOK
  <2>4. OwnAnswer'
    BY <2>1 DEF GatewayInv, OwnAnswer, Functions, GatewayTypeOK
  <2>5. GatewayTypeOK'
    BY <2>1 DEF GatewayInv, GatewayTypeOK, Functions, Waiting
  <2> QED BY <2>2, <2>3, <2>4, <2>5 DEF GatewayInv
<1> QED BY <1>1, <1>2

\* The command at the head of the queue becomes the future of its caller.
LEMMA PollInv ==
    ASSUME GatewayInv, Poll
    PROVE  GatewayInv'
<1> DEFINE c == Head(commands).by
<1>1. /\ commands \in Seq(Queued) /\ commands # <<>>
      /\ commands' = Tail(commands) /\ UNCHANGED <<service, asked, result>>
  BY DEF GatewayInv, QueueOK, Poll
<1>2. /\ Head(commands) = commands[1] /\ Len(commands) \in Nat \ {0}
      /\ Len(commands') = Len(commands) - 1
      /\ \A i \in 1 .. Len(commands') : commands'[i] = commands[i + 1]
      /\ commands' \in Seq(Queued)
  BY <1>1
<1>3. c \in Callers \cup {NoCaller}
  BY <1>1, <1>2, EntriesOfQueue
<1>4. \A i \in 1 .. Len(commands') : commands'[i].by # NoCaller =>
        commands'[i].by # c /\ commands'[i].by \in Callers
  <2> TAKE i \in 1 .. Len(commands')
  <2>1. i + 1 \in 1 .. Len(commands) /\ 1 \in 1 .. Len(commands) /\ i + 1 # 1
    BY <1>2
  <2>2. commands'[i].by \in Callers \cup {NoCaller}
    BY <1>2, EntriesOfQueue
  <2> QED BY <1>2, <2>1, <2>2 DEF GatewayInv, QueueOK
<1>5. \A d \in Callers : d # c => call'[d] = call[d] /\ future'[d] = future[d]
  BY DEF Poll, GatewayInv, GatewayTypeOK, Functions
<1>6. c \in Callers => /\ call'[c] = "future" /\ future'[c] = asked[c]
                       /\ call' = [call EXCEPT ![c] = "future"]
                       /\ DOMAIN future' = Callers
  <2> HAVE c \in Callers
  <2>1. c # NoCaller
    BY GatewayAssumption DEF NoCaller
  <2>2. commands[1].command = asked[c]
    BY <1>2, <2>1 DEF GatewayInv, QueueOK
  <2> QED BY <1>2, <2>1, <2>2 DEF Poll, GatewayInv, GatewayTypeOK, Functions
<1>7. c = NoCaller => UNCHANGED <<call, future>>
  BY DEF Poll
<1>8. Functions'
  BY <1>1, <1>3, <1>6, <1>7 DEF GatewayInv, Functions
<1>9. QueueOK'
  <2>1. \A i \in 1 .. Len(commands') : commands'[i].by # NoCaller =>
            /\ commands'[i].command = asked'[commands'[i].by]
            /\ call'[commands'[i].by] = "queued"
    BY <1>1, <1>2, <1>4, <1>5 DEF GatewayInv, QueueOK
  <2>2. \A i, j \in 1 .. Len(commands') :
            i # j /\ commands'[i].by = commands'[j].by => commands'[i].by = NoCaller
    BY <1>2 DEF GatewayInv, QueueOK
  <2> QED BY <1>2, <2>1, <2>2 DEF QueueOK
<1>10. OwnAnswer'
  BY <1>1, <1>3, <1>5, <1>6, <1>7 DEF GatewayInv, OwnAnswer
<1>11. GatewayTypeOK'
  <2>1. \A i \in DOMAIN commands' : commands'[i].by \in Callers \cup {NoCaller}
    BY <1>2, EntriesOfQueue
  <2>2. service' = "up"
    BY <1>1 DEF Poll
  <2>3. call' \in [Callers -> {"idle"} \cup Waiting]
    BY <1>3, <1>6, <1>7 DEF GatewayInv, GatewayTypeOK, Waiting
  <2> QED BY <1>1, <2>1, <2>2, <2>3 DEF GatewayInv, GatewayTypeOK
<1> QED BY <1>8, <1>9, <1>10, <1>11 DEF GatewayInv

\* Steps of one call, after its future was sent: the queue does not know of it.
LEMMA CallInv ==
    ASSUME GatewayInv, NEW c \in Callers,
           \/ RunFuture(c) \/ NodeSilent(c)
           \/ \E reply \in Replies(future[c]) : NodeReplies(c, reply)
    PROVE  GatewayInv'
<1>1. /\ call[c] \in {"future", "http"} /\ future[c] = asked[c]
      /\ UNCHANGED <<service, commands, asked, future>>
  BY DEF RunFuture, NodeSilent, NodeReplies, GatewayInv, OwnAnswer
<1>2. /\ call' \in [Callers -> {"idle"} \cup Waiting]
      /\ \A d \in Callers \ {c} : call'[d] = call[d] /\ result'[d] = result[d]
      /\ DOMAIN result' = Callers
      /\ call'[c] \in {"http", "silent"} \/ (call'[c] = "idle" /\ result'[c].of = future[c])
  BY DEF RunFuture, NodeSilent, NodeReplies, Return, GatewayInv, GatewayTypeOK,
         Functions, Waiting
<1>3. QueueOK'
  <2>1. \A i \in 1 .. Len(commands) : commands[i].by # NoCaller =>
            commands[i].by \in Callers \ {c}
    BY <1>1, EntriesOfQueue DEF GatewayInv, QueueOK
  <2> QED BY <1>1, <1>2, <2>1 DEF GatewayInv, QueueOK
<1>4. OwnAnswer'
  BY <1>1, <1>2 DEF GatewayInv, OwnAnswer
<1>5. GatewayTypeOK' /\ Functions'
  BY <1>1, <1>2 DEF GatewayInv, GatewayTypeOK, Functions
<1> QED BY <1>3, <1>4, <1>5 DEF GatewayInv

\* A caller that gives up leaves its command behind, which is nobody's then.
LEMMA GiveUpInv ==
    ASSUME GatewayInv, NEW c \in Callers, GiveUp(c)
    PROVE  GatewayInv'
<1>1. /\ c \in Impatient /\ call' = [call EXCEPT ![c] = "idle"]
      /\ UNCHANGED <<service, asked, future, result>>
  BY DEF GiveUp
<1>2. /\ commands \in Seq(Queued) /\ Len(commands) \in Nat
      /\ DOMAIN commands = 1 .. Len(commands)
      /\ \A i \in 1 .. Len(commands) :
            commands[i] \in Queued /\ commands[i].by \in Callers \cup {NoCaller}
  BY EntriesOfQueue DEF GatewayInv, QueueOK
<1>3. /\ DOMAIN commands' = 1 .. Len(commands)
      /\ \A i \in 1 .. Len(commands) :
            commands'[i] = IF commands[i].by = c
                           THEN [commands[i] EXCEPT !.by = NoCaller] ELSE commands[i]
      /\ commands' = [i \in 1 .. Len(commands) |-> commands'[i]]
  BY <1>2 DEF GiveUp
<1>4. \A i \in 1 .. Len(commands) :
        /\ commands'[i] \in Queued
        /\ commands'[i].by = (IF commands[i].by = c THEN NoCaller ELSE commands[i].by)
        /\ commands'[i].command = commands[i].command
  BY <1>2, <1>3 DEF Queued
<1>5. commands' \in Seq(Queued) /\ Len(commands') = Len(commands)
  <2>1. commands' \in [1 .. Len(commands) -> Queued]
    BY <1>3, <1>4
  <2>2. commands' \in Seq(Queued)
    BY <1>2, <2>1, SeqDef, Zenon
  <2> QED BY <1>2, <1>3, <2>2, LenProperties
<1>6. Functions'
  BY <1>1 DEF GatewayInv, Functions
<1>7. QueueOK'
  <2>1. \A i \in 1 .. Len(commands') : commands'[i].by # NoCaller =>
            /\ commands'[i].command = asked'[commands'[i].by]
            /\ call'[commands'[i].by] = "queued"
    BY <1>1, <1>2, <1>4, <1>5 DEF GatewayInv, QueueOK, GatewayTypeOK
  <2>2. \A i, j \in 1 .. Len(commands') :
            i # j /\ commands'[i].by = commands'[j].by => commands'[i].by = NoCaller
    BY <1>4, <1>5 DEF GatewayInv, QueueOK
  <2> QED BY <1>5, <2>1, <2>2 DEF QueueOK
<1>8. OwnAnswer'
  BY <1>1 DEF GatewayInv, OwnAnswer, GatewayTypeOK
<1>9. GatewayTypeOK'
  <2>1. \A i \in DOMAIN commands' : commands'[i].by \in Callers \cup {NoCaller}
    BY <1>5, EntriesOfQueue
  <2> QED BY <1>1, <2>1 DEF GatewayInv, GatewayTypeOK
<1> QED BY <1>6, <1>7, <1>8, <1>9 DEF GatewayInv

\* With the service its queue goes, and the callers in it are told so.
LEMMA ServiceStopsInv ==
    ASSUME GatewayInv, ServiceStops
    PROVE  GatewayInv'
<1>1. commands' = <<>> /\ commands' \in Seq(Queued) /\ Len(commands') = 0
  BY DEF ServiceStops
<1>2. Functions'
  BY DEF ServiceStops, GatewayInv, Functions
<1>3. QueueOK'
  BY <1>1 DEF QueueOK
<1>4. OwnAnswer'
  BY DEF ServiceStops, GatewayInv, OwnAnswer
<1>5. GatewayTypeOK'
  BY <1>1 DEF ServiceStops, GatewayInv, GatewayTypeOK, Waiting
<1> QED BY <1>2, <1>3, <1>4, <1>5 DEF GatewayInv

\* Steps that leave the gateway alone.
LEMMA GatewayUnchanged ==
    ASSUME GatewayInv, UNCHANGED GatewayVars
    PROVE  GatewayInv'
BY DEF GatewayVars, GatewayInv, GatewayTypeOK, Functions, QueueOK, OwnAnswer

-----------------------------------------------------------------------------
\* register_validator lets a registration pass only if its own key signed it.
LEMMA AcceptedIsSigned ==
    ASSUME NEW request, request.path = Register, ~IsErr(Handle(request))
    PROVE  LET m == Handle(request).ok.message IN
           /\ request.message # Missing
           /\ request.message.signature.val # NotAPoint
           /\ request.message.signature.val.key = m.pubkey
           /\ request.message.signature.val.root.object = m
           /\ m.pubkey \in Keys
<1> DEFINE s == request.message
           r == RegistrationFrom(s)
           msg == s.message
           v == [message |-> [fee_recipient |-> msg.fee_recipient.val,
                              gas_limit |-> msg.gas_limit,
                              timestamp |-> msg.timestamp,
                              pubkey |-> msg.pubkey.val],
                 signature |-> s.signature.val]
<1>1. Handle(request) = register_validator(s)
  BY ErrIsErr DEF Handle, BidderServer, RetrieverServer, ValidatorServer, Decoded,
                  Register, Bid, Retrieve, SubmitBlindedBlock
<1>2. /\ ~IsErr(r) /\ Handle(request) = r
      /\ verify_signature(r.ok.message, r.ok.message.pubkey, r.ok.signature,
                          compute_builder_domain(forkDatas))
  BY <1>1, ErrIsErr DEF register_validator
<1>3. /\ s # Missing
      /\ r = Try(<<bytes_to_address(msg.fee_recipient), public_key(msg.pubkey),
                   signature(s.signature)>>, v)
  BY <1>2, ErrIsErr DEF RegistrationFrom, SignedValidatorRegistrationFrom
<1>4. /\ r = Ok(v) /\ ~IsErr(public_key(msg.pubkey)) /\ ~IsErr(signature(s.signature))
  <2> DEFINE a == bytes_to_address(msg.fee_recipient)
             b == public_key(msg.pubkey)
             c == signature(s.signature)
  <2>1. r = Try(<<a, b, c>>, v) /\ ~IsErr(Try(<<a, b, c>>, v))
    BY <1>2, <1>3
  <2> DEFINE row == <<a, b, c>>
  <2>2. DOMAIN row = {1, 2, 3} /\ DOMAIN row \subseteq Nat
          /\ row[2] = b /\ row[3] = c
    OBVIOUS
  <2> HIDE DEF a, b, c, v, r, row
  <2>3. Try(row, v) = Ok(v) /\ \A i \in DOMAIN row : ~IsErr(row[i])
    <3>1. ~IsErr(Try(row, v))
      BY <2>1 DEF row
    <3> QED BY <2>2, <3>1, TryCases, Zenon
  <2> QED BY <2>1, <2>2, <2>3 DEF row, b, c
<1>5. msg.pubkey.val \in Keys /\ s.signature.val # NotAPoint
  BY <1>4, ErrIsErr DEF public_key, signature
<1>6. r.ok = v
  BY <1>4 DEF Ok
<1>7. /\ s.signature.val.key = v.message.pubkey
      /\ s.signature.val.root.object = v.message
  BY <1>2, <1>6 DEF verify_signature, verify, signing_root
<1> QED BY <1>2, <1>3, <1>5, <1>6, <1>7

-----------------------------------------------------------------------------
(* The door: what becomes of any request.                                  *)

\* A request beyond the limit, of a method there is, is the encoding of nothing
\* that could be decoded.
LEMMA TooLarge ==
    ASSUME NEW request, WellTyped(request), request.size > MaxDecodingSize,
           request.path \in {Bid, Retrieve, SubmitBlindedBlock, Register}
    PROVE  /\ Handle(request) = Err("OutOfRange")
           /\ \A e : ~Encodes(request, e)
<1>1. MaxDecodingSize \in Nat /\ request.size \in Nat
  BY DEF MaxDecodingSize, WellTyped
<1>2. ~(request.size <= MaxDecodingSize)
  BY <1>1
<1>3. Handle(request) = Err("OutOfRange")
  <2>1. CASE request.path = Bid
    BY <2>1 DEF WellTyped, Handle, BidderServer, Decoded
  <2>2. CASE request.path \in {Retrieve, SubmitBlindedBlock}
    BY <2>2 DEF WellTyped, Handle, RetrieverServer, Decoded, Retrieve,
                SubmitBlindedBlock
  <2>3. CASE request.path = Register
    BY <2>3 DEF WellTyped, Handle, ValidatorServer, Decoded
  <2> QED BY <2>1, <2>2, <2>3
<1> QED BY <1>2, <1>3 DEF Encodes

\* A request within the limit reaches the method that its path names.
LEMMA Routed ==
    ASSUME NEW request, WellTyped(request), ~(request.size > MaxDecodingSize)
    PROVE  /\ request.size <= MaxDecodingSize
           /\ request.path = Bid => Handle(request) = BidSubmissionFrom(request.message)
           /\ request.path = Retrieve =>
                Handle(request) = RetrieveRequestFrom(request.message)
           /\ request.path = SubmitBlindedBlock =>
                Handle(request) = SubmitBlindedBlockRequestFrom(request.message)
           /\ request.path = Register =>
                Handle(request) = register_validator(request.message)
<1>1. request.size <= MaxDecodingSize
  <2>1. MaxDecodingSize \in Nat /\ request.size \in Nat
    BY DEF MaxDecodingSize, WellTyped
  <2> QED BY <2>1
<1>2. request.path = Bid => Handle(request) = BidSubmissionFrom(request.message)
  BY DEF WellTyped, Handle, BidderServer, Decoded
<1>3. request.path = Retrieve => Handle(request) = RetrieveRequestFrom(request.message)
  BY DEF WellTyped, Handle, RetrieverServer, Decoded, Retrieve, SubmitBlindedBlock
<1>4. request.path = SubmitBlindedBlock =>
        Handle(request) = SubmitBlindedBlockRequestFrom(request.message)
  BY DEF WellTyped, Handle, RetrieverServer, Decoded, Retrieve, SubmitBlindedBlock
<1>5. request.path = Register => Handle(request) = register_validator(request.message)
  BY DEF WellTyped, Handle, ValidatorServer, Decoded
<1> QED BY <1>1, <1>2, <1>3, <1>4, <1>5

\* What ConvertedIffEncoded says of one request and its answer.
RightlyConverted(request, answer) ==
    IF IsErr(answer)
    THEN /\ \A e : ~Encodes(request, e)
         /\ answer.err = "panic" =>
              /\ request.path = Bid =>
                    request.message.execution_payload.base_fee_per_gas.len > 32
              /\ request.path = Retrieve => request.message.parent_hash.len # 32
              /\ request.path = SubmitBlindedBlock => request.message.block_hash.len # 32
    ELSE Encodes(request, answer.ok)

\* It holds of every request of the three conversions.
LEMMA HandleConverts ==
    ASSUME NEW request, WellTyped(request),
           request.path \in {Bid, Retrieve, SubmitBlindedBlock}
    PROVE  RightlyConverted(request, Handle(request))
<1> DEFINE m == request.message
           r == Handle(request)
<1>0. /\ Bid # Retrieve /\ Bid # SubmitBlindedBlock /\ Bid # Register
      /\ Retrieve # SubmitBlindedBlock /\ Retrieve # Register
      /\ SubmitBlindedBlock # Register
  BY DEF Bid, Retrieve, SubmitBlindedBlock, Register
<1>1. CASE request.size > MaxDecodingSize
  <2>1. r = Err("OutOfRange") /\ \A e : ~Encodes(request, e)
    BY <1>1, TooLarge
  <2>2. IsErr(r) /\ r.err # "panic"
    BY <2>1, ErrIsErr
  <2> QED BY <2>1, <2>2 DEF RightlyConverted
<1>2. CASE ~(request.size > MaxDecodingSize) /\ request.path = Bid
  <2>1. r = BidSubmissionFrom(m) /\ BidRequestMessage(m)
          /\ request.size <= MaxDecodingSize
    BY <1>2, Routed DEF WellTyped
  <2>2. \A e : Encodes(request, e) <=> BidSubmission(e) /\ EncodeBid(e) = NormalBid(m)
    BY <1>0, <1>2, <2>1 DEF Encodes, Entity, Encode
  <2>3. /\ IsErr(r) =>
             /\ Fails(r) \/ m.execution_payload.base_fee_per_gas.len > 32
             /\ \A e : ~(BidSubmission(e) /\ EncodeBid(e) = NormalBid(m))
        /\ ~IsErr(r) => BidSubmission(r.ok) /\ EncodeBid(r.ok) = NormalBid(m)
    BY <2>1, BidConversion
  <2> HIDE DEF r
  <2>4. RightlyConverted(request, r)
    BY <1>0, <1>2, <2>2, <2>3 DEF RightlyConverted, Fails
  <2> QED BY <2>4 DEF r
<1>3. CASE ~(request.size > MaxDecodingSize) /\ request.path = Retrieve
  <2>1. r = RetrieveRequestFrom(m) /\ RetrieveRequestMessage(m)
          /\ request.size <= MaxDecodingSize
    BY <1>3, Routed DEF WellTyped
  <2>2. \A e : Encodes(request, e) <=> e.proposer_pubkey \in Keys /\ EncodeRetrieve(e) = m
    BY <1>0, <1>3, <2>1 DEF Encodes, Entity, Encode
  <2>3. /\ IsErr(r) =>
             /\ Fails(r) \/ m.parent_hash.len # 32
             /\ \A e : ~(e.proposer_pubkey \in Keys /\ EncodeRetrieve(e) = m)
        /\ ~IsErr(r) => r.ok.proposer_pubkey \in Keys /\ EncodeRetrieve(r.ok) = m
    BY <2>1, RetrieveConversion
  <2> HIDE DEF r
  <2>4. RightlyConverted(request, r)
    BY <1>0, <1>3, <2>2, <2>3 DEF RightlyConverted, Fails
  <2> QED BY <2>4 DEF r
<1>4. CASE ~(request.size > MaxDecodingSize) /\ request.path = SubmitBlindedBlock
  <2>1. r = SubmitBlindedBlockRequestFrom(m) /\ SubmitBlindedBlockMessage(m)
          /\ request.size <= MaxDecodingSize
    BY <1>4, Routed DEF WellTyped
  <2>2. \A e : Encodes(request, e) <=> e.signature # NotAPoint /\ EncodeSubmit(e) = m
    BY <1>0, <1>4, <2>1 DEF Encodes, Entity, Encode
  <2>3. /\ IsErr(r) =>
             /\ Fails(r) \/ m.block_hash.len # 32
             /\ \A e : ~(e.signature # NotAPoint /\ EncodeSubmit(e) = m)
        /\ ~IsErr(r) => r.ok.signature # NotAPoint /\ EncodeSubmit(r.ok) = m
    BY <2>1, SubmitConversion
  <2> HIDE DEF r
  <2>4. RightlyConverted(request, r)
    BY <1>0, <1>4, <2>2, <2>3 DEF RightlyConverted, Fails
  <2> QED BY <2>4 DEF r
<1> QED BY <1>1, <1>2, <1>3, <1>4

\* A registration is taken exactly if it is the encoding of one that its own key
\* signed for the builders' domain of the fork data.
LEMMA HandleRegisters ==
    ASSUME NEW request, WellTyped(request), request.path = Register
    PROVE  LET r == Handle(request)
               Signed(e) == e.signature =
                    sign(e.message.pubkey,
                         signing_root(e.message, compute_builder_domain(forkDatas)))
           IN IF IsErr(r) THEN \A e : Encodes(request, e) => ~Signed(e)
              ELSE Encodes(request, r.ok) /\ Signed(r.ok)
<1> DEFINE s == request.message
           r == Handle(request)
           c == SignedValidatorRegistrationFrom(s)
           Signed(e) == e.signature =
                sign(e.message.pubkey,
                     signing_root(e.message, compute_builder_domain(forkDatas)))
           Encoded(e) == /\ SignedValidatorRegistration(e)
                         /\ EncodeRegistration(e.message, e.signature) = s
<1>0. Bid # Register /\ Retrieve # Register /\ SubmitBlindedBlock # Register
  BY DEF Bid, Retrieve, SubmitBlindedBlock, Register
<1>1. CASE request.size > MaxDecodingSize
  BY <1>1, TooLarge, ErrIsErr
<1>2. CASE ~(request.size > MaxDecodingSize)
  <2>1. r = register_validator(s) /\ request.size <= MaxDecodingSize
    BY <1>2, Routed
  <2>2. \A e : Encodes(request, e) <=> Encoded(e)
    BY <1>0, <2>1 DEF Encodes, Entity, Encode
  <2>3. CASE s = Missing
    <3>1. IsErr(r)
      BY <2>1, <2>3, ErrIsErr DEF register_validator, RegistrationFrom
    <3>2. ASSUME NEW e, Encoded(e) PROVE FALSE
      <4>1. "absent" \in DOMAIN Missing
        BY DEF Missing
      <4>2. "absent" \notin DOMAIN EncodeRegistration(e.message, e.signature)
        BY DEF EncodeRegistration
      <4> QED BY <2>3, <3>2, <4>1, <4>2
    <3> QED BY <2>2, <3>1, <3>2
  <2>4. CASE s # Missing
    <3>1. RegistrationMessage(s) /\ RegistrationFrom(s) = c
      BY <2>4 DEF WellTyped, RegistrationFrom
    <3>2. /\ IsErr(c) => \A e : ~Encoded(e)
          /\ ~IsErr(c) =>
                /\ Encoded(c.ok)
                /\ \A e : Encoded(e) =>
                        e.message = c.ok.message /\ e.signature = c.ok.signature
                /\ c.ok.signature = s.signature.val
      BY <3>1, RegistrationConversion
    <3>3. CASE IsErr(c)
      <4>1. IsErr(r)
        BY <2>1, <3>1, <3>3, ErrIsErr DEF register_validator
      <4> QED BY <2>2, <3>2, <3>3, <4>1
    <3>4. CASE ~IsErr(c)
      <4> DEFINE sig == c.ok.signature
                 root == signing_root(c.ok.message, compute_builder_domain(forkDatas))
      <4>1. sig = [key |-> sig.key, root |-> sig.root]
        BY <3>1, <3>2, <3>4 DEF RegistrationMessage, SignedValidatorRegistration
      <4>2. Signed(c.ok) <=> sig.key = c.ok.message.pubkey /\ sig.root = root
        BY <4>1 DEF sign
      <4>3. r = IF Signed(c.ok) THEN c ELSE Err("Internal")
        BY <2>1, <3>1, <3>4, <4>2 DEF register_validator, verify_signature, verify
      <4>4. CASE Signed(c.ok)
        BY <2>2, <3>2, <3>4, <4>3, <4>4
      <4>5. CASE ~Signed(c.ok)
        <5>1. IsErr(r)
          BY <4>3, <4>5, ErrIsErr
        <5>2. \A e : Encoded(e) => ~Signed(e)
          BY <3>2, <3>4, <4>5
        <5> QED BY <2>2, <5>1, <5>2
      <4> QED BY <4>4, <4>5
    <3> QED BY <3>3, <3>4
  <2> QED BY <2>3, <2>4
<1> QED BY <1>1, <1>2

-----------------------------------------------------------------------------
ServerTypeOK ==
    /\ scenario \in DOMAIN Scenarios
    /\ phase \in {"starting", "fetching", "running", "stopping", "exited",
                 "killed"}
    /\ grpc \in {"down", "starting", "serving", "failed", "draining"}
    /\ health \in {"down", "starting", "serving", "failed"}
    /\ task \in {"none", "running", "syncing", "dead"}
    /\ DOMAIN registrations \subseteq Keys
    /\ \A k \in DOMAIN registrations : registrations[k].pubkey = k

ServerInv == ServerTypeOK /\ RegistrationsAuthentic

StartupInv == GatewayInv /\ ServerInv

\* The process starts with a service that has nothing to do.
LEMMA StartupInvInit ==
    ASSUME StartupInit
    PROVE  StartupInv
<1>1. GatewayInv
  <2>1. commands \in Seq(Queued) /\ Len(commands) = 0
    BY DEF StartupInit, GatewayInit
  <2>2. GatewayTypeOK /\ Functions /\ OwnAnswer
    BY DEF StartupInit, GatewayInit, GatewayTypeOK, Functions, OwnAnswer
  <2> QED BY <2>1, <2>2 DEF GatewayInv, QueueOK
<1>2. DOMAIN registrations = {}
  BY DEF StartupInit
<1>3. ServerTypeOK
  BY <1>2 DEF StartupInit, ServerTypeOK
<1>4. RegistrationsAuthentic
  BY <1>2 DEF StartupInit, RegistrationsAuthentic
<1> QED BY <1>1, <1>3, <1>4 DEF StartupInv, ServerInv

\* Steps that leave the server alone.
LEMMA ServerUnchanged ==
    ASSUME ServerInv, UNCHANGED ServerVars,
           phase' \in {"starting", "fetching", "running", "stopping", "exited", "killed"}
    PROVE  ServerInv'
BY DEF ServerVars, ServerInv, ServerTypeOK, RegistrationsAuthentic

\* A stored registration comes from a request that its own key signed.
LEMMA ServeInv ==
    ASSUME StartupInv, NEW request \in Scenarios[scenario].requests, Serve(request)
    PROVE  ServerInv'
<1>1. /\ UNCHANGED <<phase, scenario, forkDatas, grpc, health, task>>
  BY DEF Serve
<1>2. CASE request.path # Register \/ IsErr(Handle(request))
  <2>1. UNCHANGED registrations
    BY <1>2 DEF Serve
  <2> QED BY <1>1, <2>1 DEF StartupInv, ServerInv, ServerTypeOK,
                                 RegistrationsAuthentic
<1>3. CASE request.path = Register /\ ~IsErr(Handle(request))
  <2> DEFINE m == Handle(request).ok.message
  <2>1. /\ request.message # Missing
        /\ request.message.signature.val # NotAPoint
        /\ request.message.signature.val.key = m.pubkey
        /\ request.message.signature.val.root.object = m
        /\ m.pubkey \in Keys
    BY <1>3, AcceptedIsSigned
  <2>2. registrations' = [k \in DOMAIN registrations \cup {m.pubkey} |->
                            IF k = m.pubkey THEN m ELSE registrations[k]]
    BY <1>3 DEF Serve
  <2> HIDE DEF m
  <2>3. ServerTypeOK'
    BY <1>1, <2>1, <2>2 DEF StartupInv, ServerInv, ServerTypeOK
  <2>4. RegistrationsAuthentic'
    <3> SUFFICES ASSUME NEW k \in DOMAIN registrations'
                 PROVE  \E q \in Scenarios[scenario].requests :
                            /\ q.path = Register /\ q.message # Missing
                            /\ q.message.signature.val # NotAPoint
                            /\ q.message.signature.val.key = k
                            /\ q.message.signature.val.root.object = registrations'[k]
      BY <1>1 DEF RegistrationsAuthentic
    <3>1. CASE k = m.pubkey
      BY <1>3, <2>1, <2>2, <3>1
    <3>2. CASE k # m.pubkey
      <4>1. k \in DOMAIN registrations /\ registrations'[k] = registrations[k]
        BY <2>2, <3>2
      <4> QED BY <4>1 DEF StartupInv, ServerInv, RegistrationsAuthentic
    <3> QED BY <3>1, <3>2
  <2> QED BY <2>3, <2>4 DEF ServerInv
<1> QED BY <1>2, <1>3

\* No step of main, of a task, of a caller or of the runtime breaks it.
LEMMA StartupInvNext ==
    ASSUME StartupInv, [StartupNext]_StartupVars
    PROVE  StartupInv'
<1> USE DEF StartupInv
<1>0. /\ {"startup", "sync"} \subseteq Callers
      /\ [kind |-> "ForkData"] \in Commands["startup"]
      /\ [kind |-> "ProposerDuties"] \in Commands["sync"]
      /\ phase \in {"starting", "fetching", "running", "stopping", "exited", "killed"}
  BY StartupAssumption DEF ServerInv, ServerTypeOK
<1>1. CASE Configure
  <2>1. GatewayInv'
    BY <1>0, <1>1, AskInv, GatewayUnchanged DEF Configure
  <2>2. ServerInv'
    BY <1>1, ServerUnchanged DEF Configure
  <2> QED BY <2>1, <2>2
<1>2. CASE Interrupt \/ Exit
  BY <1>2, GatewayUnchanged, ServerUnchanged DEF Interrupt, Exit
<1>3. CASE ActorDropped
  BY <1>0, <1>3, ServiceStopsInv, ServerUnchanged DEF ActorDropped
<1>4. CASE ForkDataKnown \/ Shutdown \/ BindGrpc \/ BindHealth
  <2>1. UNCHANGED <<GatewayVars, scenario, registrations>>
    BY <1>4 DEF ForkDataKnown, Shutdown, BindGrpc, BindHealth
  <2>2. ServerTypeOK'
    BY <1>0, <1>4, <2>1 DEF ServerInv, ServerTypeOK, ForkDataKnown, Shutdown,
                            BindGrpc, BindHealth
  <2>3. RegistrationsAuthentic'
    BY <2>1 DEF ServerInv, RegistrationsAuthentic
  <2> QED BY <2>1, <2>2, <2>3, GatewayUnchanged DEF ServerInv
<1>5. ASSUME TaskAsksNext \/ \E reply : TaskHandlesHead(reply)
      PROVE  StartupInv'
  <2>1. /\ UNCHANGED <<phase, scenario, grpc, health, registrations>>
        /\ task' \in {"running", "syncing", "dead"}
    BY <1>5 DEF TaskHandlesHead, TaskAsksNext
  <2>2. GatewayInv'
    BY <1>0, <1>5, AskInv, GatewayUnchanged DEF TaskHandlesHead, TaskAsksNext
  <2>3. ServerInv'
    BY <2>1 DEF ServerInv, ServerTypeOK, RegistrationsAuthentic
  <2> QED BY <2>2, <2>3
<1>6. ASSUME NEW request \in Scenarios[scenario].requests, Serve(request)
      PROVE  StartupInv'
  BY <1>6, ServeInv, GatewayUnchanged DEF Serve
<1>7. CASE ActorPolled
  BY <1>0, <1>7, PollInv, ServerUnchanged DEF ActorPolled, InGateway
<1>8. ASSUME NEW c \in Callers,
             CallerPolled(c) \/ InGateway(NodeSilent(c)) \/ InGateway(GiveUp(c))
               \/ InGateway(OtherAsks(c))
      PROVE  StartupInv'
  <2>1. UNCHANGED <<phase, ServerVars>>
    BY <1>8 DEF CallerPolled, InGateway
  <2>2. CallStep(c) \/ NodeSilent(c) => GatewayInv'
    BY CallInv DEF CallStep
  <2>3. GiveUp(c) => GatewayInv'
    BY GiveUpInv
  <2>4. OtherAsks(c) => GatewayInv'
    BY AskInv DEF OtherAsks
  <2> QED BY <1>0, <1>8, <2>1, <2>2, <2>3, <2>4, ServerUnchanged
          DEF CallerPolled, InGateway
<1>9. CASE UNCHANGED StartupVars
  BY <1>0, <1>9, GatewayUnchanged, ServerUnchanged DEF StartupVars
<1> QED
  BY <1>1, <1>2, <1>3, <1>4, <1>5, <1>6, <1>7, <1>8, <1>9 DEF StartupNext

\* The invariant all of this rests on is kept by every step of the process.
THEOREM StartupInvariant == StartupSpec => []StartupInv
<1>1. StartupInit => StartupInv
  BY StartupInvInit
<1>2. StartupInv /\ [StartupNext]_StartupVars => StartupInv'
  BY StartupInvNext
<1> QED BY <1>1, <1>2, PTL DEF StartupSpec

-----------------------------------------------------------------------------
(* Conversions: what is said of the latest request is said of its answer   *)
(* alone, and only Serve changes it.                                       *)

LEMMA OnlyServeAnswers ==
    ASSUME [StartupNext]_StartupVars
    PROVE  UNCHANGED last \/ \E request \in Scenarios[scenario].requests : Serve(request)
BY DEF StartupNext, StartupVars, ServerVars, Configure, ForkDataKnown, Interrupt,
       BindGrpc, BindHealth, TaskHandlesHead, TaskAsksNext, Shutdown, Exit,
       ActorDropped, ActorPolled, CallerPolled, InGateway

LEMMA ServeConverts ==
    ASSUME ServerTypeOK, NEW request \in Scenarios[scenario].requests, Serve(request)
    PROVE  ConvertedIffEncoded'
<1>1. WellTyped(request)
  BY RequestAssumption DEF ServerTypeOK
<1>2. last' = [request |-> request, answer |-> Handle(request)]
  BY DEF Serve
<1> SUFFICES ASSUME request.path \in {Bid, Retrieve, SubmitBlindedBlock}
             PROVE  ConvertedIffEncoded'
  BY <1>2 DEF ConvertedIffEncoded
<1>3. RightlyConverted(request, Handle(request))
  BY <1>1, HandleConverts
<1>4. last'.request = request /\ last'.answer = Handle(request)
  BY <1>2
<1>5. \A e : Encodes(last'.request, e) <=> Encodes(request, e)
  BY <1>4
<1> DEFINE answer == Handle(request)
<1> HIDE DEF answer
<1>6. RightlyConverted(request, answer) /\ last'.answer = answer
  BY <1>3, <1>4 DEF answer
<1> QED BY <1>4, <1>5, <1>6 DEF ConvertedIffEncoded, RightlyConverted

LEMMA ConvertedNext ==
    ASSUME ServerTypeOK, ConvertedIffEncoded, [StartupNext]_StartupVars
    PROVE  ConvertedIffEncoded'
<1>1. CASE UNCHANGED last
  BY <1>1 DEF ConvertedIffEncoded, Encodes, Entity, Encode
<1>2. ASSUME NEW request \in Scenarios[scenario].requests, Serve(request)
      PROVE  ConvertedIffEncoded'
  BY <1>2, ServeConverts
<1>3. UNCHANGED last \/ \E request \in Scenarios[scenario].requests : Serve(request)
  BY OnlyServeAnswers
<1> QED BY <1>1, <1>2, <1>3

-----------------------------------------------------------------------------
(* The domain in force.                                                    *)

\* The configured fork data of the builders: the genesis fork, of no chain.
LEMMA ConfiguredBuilder ==
    ASSUME NEW a, ~IsErr(RelayConfigFrom(a))
    PROVE  RelayConfigFrom(a).ok.builder =
                [version |-> a.genesis_fork_version.val, root |-> ZeroRoot]
<1> DEFINE row == <<valid_key(a.bls_secret_key, 32),
                    of_length(a.genesis_validators_root, 32),
                    of_length(a.genesis_fork_version, 4),
                    of_length(a.current_fork_version, 4),
                    Collect(builder_key, a.enabled_builders)>>
           v == from_genesis_and_current_version(
                    a.genesis_fork_version.val, a.current_fork_version.val,
                    a.genesis_validators_root.val)
<1>1. RelayConfigFrom(a) = Try(row, v)
  BY ErrIsErr DEF RelayConfigFrom, Invalid
<1>2. DOMAIN row \subseteq Nat
  OBVIOUS
<1>3. v.builder = [version |-> a.genesis_fork_version.val, root |-> ZeroRoot]
  BY DEF from_genesis_and_current_version, ForkDatas, ForkData
<1> HIDE DEF row, v
<1>4. Try(row, v) = Ok(v)
  <2>1. ~IsErr(Try(row, v))
    BY <1>1
  <2> QED BY <1>2, <2>1, TryCases, Zenon
<1> QED BY <1>1, <1>3, <1>4, OkIsNoErr

\* What the node is taken to answer: one fork, for both domains, or an error.
Answered(r) ==
    IsErr(r) \/ \E version, root :
        r = Ok(ForkDatas(ForkData(version, root), ForkData(version, root)))

LEMMA ForkDataAnswered ==
    ASSUME NEW reply, reply.http \in {"refused", "failed", "garbled", "ok"}
    PROVE  Answered(get_fork_data(reply))
<1> DEFINE body == reply.body
           a == hex_bytes(body.root, 32)
           b == hex_bytes(body.version, 4)
           f == ForkData(body.version.val, body.root.val)
           v == ForkDatas(f, f)
<1>1. CASE reply.http # "ok"
  <2>1. IsErr(get_fork_data(reply))
    BY <1>1, ErrIsErr DEF get_fork_data, get_json
  <2> QED BY <2>1 DEF Answered
<1>2. CASE reply.http = "ok"
  <2> DEFINE row == <<a, b>>
  <2>1. get_fork_data(reply) = Try(row, v)
    BY <1>2 DEF get_fork_data, get_json, ForkDatas, ForkData
  <2>2. DOMAIN row \subseteq Nat
    OBVIOUS
  <2> HIDE DEF row, v
  <2>3. Try(row, v) = Ok(v) \/ IsErr(Try(row, v))
    BY <2>2, TryCases, Zenon
  <2> QED BY <2>1, <2>3 DEF Answered, v
<1> QED BY <1>1, <1>2

\* Startup asks for the fork data and for nothing else.
StartupCallOK ==
    /\ call["startup"] # "idle" => asked["startup"] = [kind |-> "ForkData"]
    /\ Answered(result["startup"].value)

\* Steps of the gateway other than the one question of startup.
GatewayStep ==
    \/ Poll \/ ServiceStops \/ UNCHANGED GatewayVars
    \/ \E c \in Callers :
        \/ CallStep(c) \/ NodeSilent(c) \/ GiveUp(c)
        \/ c # "startup" /\ \E command \in Commands[c] : Ask(c, command)

\* They carry the question to its answer, and leave an answer alone.
LEMMA GatewayStepOK ==
    ASSUME GatewayInv, StartupCallOK, GatewayStep
    PROVE  /\ StartupCallOK'
           /\ call["startup"] = "idle" =>
                call'["startup"] = "idle" /\ UNCHANGED result["startup"]
<1> DEFINE s == "startup"
<1>0. /\ s \in Callers \ Impatient /\ [kind |-> "ForkData"] \in Commands[s]
      /\ call \in [Callers -> {"idle"} \cup Waiting]
      /\ DOMAIN asked = Callers /\ DOMAIN future = Callers /\ DOMAIN result = Callers
  BY StartupAssumption DEF GatewayInv, GatewayTypeOK, Functions
<1>1. ASSUME UNCHANGED <<asked, result>>, call[s] = "idle" <=> call'[s] = "idle"
      PROVE  /\ StartupCallOK'
             /\ call[s] = "idle" => call'[s] = "idle" /\ UNCHANGED result[s]
  BY <1>1 DEF StartupCallOK, Answered
<1>2. CASE Poll
  <2> DEFINE c == Head(commands).by
  <2>1. /\ commands \in Seq(Queued) /\ commands # <<>>
        /\ 1 \in 1 .. Len(commands) /\ Head(commands) = commands[1]
    BY <1>2 DEF Poll, GatewayInv, QueueOK
  <2>2. c = s => call[s] = "queued"
    BY <2>1, <1>0, GatewayAssumption DEF GatewayInv, QueueOK, NoCaller
  <2>3. c \in Callers \cup {NoCaller}
    BY <2>1, EntriesOfQueue
  <2>4. call'[s] = IF c = s THEN "future" ELSE call[s]
    BY <1>0, <1>2, <2>3, GatewayAssumption DEF Poll, NoCaller
  <2>5. UNCHANGED <<asked, result>>
    BY <1>2 DEF Poll
  <2> QED BY <1>1, <2>2, <2>4, <2>5
<1>3. CASE ServiceStops
  <2>1. CASE call[s] = "queued"
    <3>1. /\ call'[s] = "idle" /\ result'[s].value = Err("Channel")
      BY <1>0, <1>3, <2>1 DEF ServiceStops
    <3> QED BY <2>1, <3>1, ErrIsErr DEF StartupCallOK, Answered
  <2>2. CASE call[s] # "queued"
    <3>1. call'[s] = call[s] /\ result'[s] = result[s] /\ asked' = asked
      BY <1>0, <1>3, <2>2 DEF ServiceStops
    <3> QED BY <3>1 DEF StartupCallOK, Answered
  <2> QED BY <2>1, <2>2
<1>4. CASE UNCHANGED GatewayVars
  BY <1>1, <1>4 DEF GatewayVars
<1>5. ASSUME NEW c \in Callers, NodeSilent(c) \/ RunFuture(c) \/ GiveUp(c)
      PROVE  /\ StartupCallOK'
             /\ call[s] = "idle" => call'[s] = "idle" /\ UNCHANGED result[s]
  <2>1. UNCHANGED <<asked, result>>
    BY <1>5 DEF NodeSilent, RunFuture, GiveUp
  <2>2. call[s] = "idle" <=> call'[s] = "idle"
    BY <1>0, <1>5 DEF NodeSilent, RunFuture, GiveUp
  <2> QED BY <1>1, <2>1, <2>2
<1>6. ASSUME NEW c \in Callers, NEW reply \in Replies(future[c]), NodeReplies(c, reply)
      PROVE  /\ StartupCallOK'
             /\ call[s] = "idle" => call'[s] = "idle" /\ UNCHANGED result[s]
  <2>1. CASE c # s
    <3>1. call'[s] = call[s] /\ result'[s] = result[s] /\ asked' = asked
      BY <1>0, <1>6, <2>1 DEF NodeReplies, Return
    <3> QED BY <3>1 DEF StartupCallOK, Answered
  <2>2. CASE c = s
    <3>1. /\ call[s] = "http" /\ call'[s] = "idle"
          /\ result'[s].value = Outcome(future[s], reply)
      BY <1>0, <1>6, <2>2 DEF NodeReplies, Return
    <3>2. future[s] = [kind |-> "ForkData"]
      BY <1>0, <3>1 DEF GatewayInv, OwnAnswer, StartupCallOK
    <3>3. Outcome(future[s], reply) = get_fork_data(reply)
      BY <3>2 DEF Outcome
    <3>4. reply.http \in {"refused", "failed", "garbled", "ok"}
      BY <1>0, <1>6, <2>2, <3>2, GatewayAssumption
    <3>5. Answered(result'[s].value)
      BY <3>1, <3>3, <3>4, ForkDataAnswered
    <3> QED BY <3>1, <3>5 DEF StartupCallOK, Answered
  <2> QED BY <2>1, <2>2
<1>7. ASSUME NEW c \in Callers, c # s, NEW command, Ask(c, command)
      PROVE  /\ StartupCallOK'
             /\ call[s] = "idle" => call'[s] = "idle" /\ UNCHANGED result[s]
  <2>1. call'[s] = call[s] /\ result'[s] = result[s] /\ asked'[s] = asked[s]
    BY <1>0, <1>7 DEF Ask
  <2> QED BY <2>1 DEF StartupCallOK, Answered
<1> QED BY <1>2, <1>3, <1>4, <1>5, <1>6, <1>7 DEF GatewayStep, CallStep

\* The fork data in force is what DomainInForce tells from the command line and
\* the answer, from the moment the servers are spawned.
ForksInForce ==
    /\ StartupCallOK
    /\ Running => ~IsErr(RelayConfigFrom(args))
    /\ Alive => /\ call["startup"] = "idle"
                /\ compute_builder_domain(forkDatas) = DomainInForce
    /\ last # NoLast => Alive \/ phase = "exited"

DomainInv == StartupInv /\ ForksInForce /\ AcceptedInDomainInForce

\* The servers take over the answer, or the configuration if it is an error.
LEMMA ForkDataKnownInForce ==
    ASSUME DomainInv, ForkDataKnown
    PROVE  ForksInForce'
<1> DEFINE r == result["startup"].value
<1>1. /\ UNCHANGED <<call, asked, result, scenario, last>>
      /\ call["startup"] = "idle" /\ phase = "fetching" /\ phase' = "running"
      /\ forkDatas' = IF IsErr(r) THEN RelayConfigFrom(args).ok ELSE r.ok
  BY DEF ForkDataKnown, GatewayVars
<1>2. ~IsErr(RelayConfigFrom(args)) /\ Answered(r)
  BY <1>1 DEF DomainInv, ForksInForce, Running, StartupCallOK
<1>3. DomainInForce' = DomainInForce
  BY <1>1 DEF DomainInForce, args
<1>4. compute_builder_domain(forkDatas') = DomainInForce
  <2>1. CASE IsErr(r)
    <3>1. forkDatas'.builder = [version |-> args.genesis_fork_version.val,
                                root |-> ZeroRoot]
      BY <1>1, <1>2, <2>1, ConfiguredBuilder
    <3> QED BY <2>1, <3>1 DEF DomainInForce, compute_builder_domain
  <2>2. CASE ~IsErr(r)
    <3>1. PICK version, root :
            r = Ok(ForkDatas(ForkData(version, root), ForkData(version, root)))
      BY <1>2, <2>2 DEF Answered
    <3>2. r.ok = ForkDatas(ForkData(version, root), ForkData(version, root))
      BY <3>1, OkIsNoErr
    <3>3. /\ forkDatas'.builder = [version |-> version, root |-> root]
          /\ r.ok.proposer.version = version /\ r.ok.proposer.root = root
      BY <1>1, <2>2, <3>2 DEF ForkDatas, ForkData
    <3> QED BY <2>2, <3>3 DEF DomainInForce, compute_builder_domain
  <2> QED BY <2>1, <2>2
<1>5. StartupCallOK'
  BY <1>1 DEF DomainInv, ForksInForce, StartupCallOK, Answered
<1>6. ~IsErr(RelayConfigFrom(args'))
  BY <1>1, <1>2 DEF args
<1>7. compute_builder_domain(forkDatas)' = DomainInForce'
  BY <1>3, <1>4 DEF compute_builder_domain
<1> QED BY <1>1, <1>5, <1>6, <1>7 DEF ForksInForce, Alive

\* Every other step leaves the fork data alone.
LEMMA ForksInForceNext ==
    ASSUME DomainInv, [StartupNext]_StartupVars
    PROVE  /\ ForksInForce'
           /\ last # NoLast => DomainInForce' = DomainInForce
<1>0. /\ GatewayInv /\ ForksInForce /\ StartupCallOK
      /\ phase \in {"starting", "fetching", "running", "stopping", "exited", "killed"}
  BY DEF DomainInv, ForksInForce, StartupInv, ServerInv, ServerTypeOK
<1>1. CASE Configure
  <2>1. /\ UNCHANGED <<scenario, forkDatas, last>> /\ phase = "starting"
        /\ phase' \in {"exited", "fetching"}
        /\ phase' = "fetching" => ~IsErr(RelayConfigFrom(args))
    BY <1>1 DEF Configure, ServerVars
  <2>2. last = NoLast
    BY <1>0, <2>1 DEF ForksInForce, Alive
  <2>3. StartupCallOK'
    <3>1. CASE UNCHANGED GatewayVars
      BY <1>0, <3>1 DEF GatewayVars, StartupCallOK, Answered
    <3>2. CASE Ask("startup", [kind |-> "ForkData"])
      <4>1. /\ "startup" \in Callers /\ DOMAIN asked = Callers /\ DOMAIN result = Callers
        BY <1>0, StartupAssumption DEF GatewayInv, Functions
      <4>2. asked'["startup"] = [kind |-> "ForkData"]
        BY <3>2, <4>1 DEF Ask
      <4>3. \/ result' = result
            \/ result'["startup"].value = Err("Channel")
        BY <3>2, <4>1 DEF Ask
      <4>4. Answered(result["startup"].value)'
        BY <1>0, <4>3, ErrIsErr DEF StartupCallOK, Answered
      <4> QED BY <4>2, <4>4 DEF StartupCallOK
    <3> QED BY <1>1, <3>1, <3>2 DEF Configure
  <2> QED BY <2>1, <2>2, <2>3 DEF ForksInForce, Running, Alive, args
<1>2. CASE ForkDataKnown
  <2>1. last = NoLast
    BY <1>0, <1>2 DEF ForkDataKnown, ForksInForce, Alive
  <2> QED BY <1>2, <2>1, ForkDataKnownInForce
<1>3. ASSUME GatewayStep, UNCHANGED <<scenario, forkDatas>>,
             last' # NoLast => last # NoLast \/ Alive,
             \/ phase' = phase
             \/ phase = "running" /\ phase' = "stopping"
             \/ phase' = "exited"
             \/ ~Alive /\ phase # "exited" /\ phase' = "killed",
             phase = "exited" => UNCHANGED StartupVars
      PROVE  /\ ForksInForce'
             /\ last # NoLast => DomainInForce' = DomainInForce
  <2>1. /\ StartupCallOK'
        /\ call["startup"] = "idle" =>
             call'["startup"] = "idle" /\ result'["startup"] = result["startup"]
    BY <1>0, <1>3, GatewayStepOK
  <2>2. Alive => DomainInForce' = DomainInForce
    BY <1>0, <1>3, <2>1 DEF ForksInForce, DomainInForce, args
  <2>3. (Alive \/ phase = "exited") => DomainInForce' = DomainInForce
    BY <1>3, <2>2 DEF StartupVars, GatewayVars, ServerVars, DomainInForce, args
  <2>4. last # NoLast => DomainInForce' = DomainInForce
    BY <1>0, <2>3 DEF ForksInForce
  <2>5. Running' => Running /\ ~IsErr(RelayConfigFrom(args))'
    BY <1>0, <1>3 DEF ForksInForce, Running, args
  <2>6. Alive' => /\ call'["startup"] = "idle"
                  /\ compute_builder_domain(forkDatas)' = DomainInForce'
    BY <1>0, <1>3, <2>1, <2>2 DEF ForksInForce, Alive, compute_builder_domain
  <2>7. last' # NoLast => Alive' \/ phase' = "exited"
    BY <1>0, <1>3 DEF ForksInForce, Alive
  <2> QED BY <2>1, <2>4, <2>5, <2>6, <2>7 DEF ForksInForce
<1>4. CASE Interrupt \/ Exit \/ Shutdown \/ BindGrpc \/ BindHealth
  <2>1. GatewayStep
    BY <1>4 DEF Interrupt, Exit, Shutdown, BindGrpc, BindHealth, GatewayStep
  <2> QED BY <1>3, <1>4, <2>1 DEF Interrupt, Exit, Shutdown, BindGrpc, BindHealth,
                                  ServerVars, Alive
<1>5. CASE ActorDropped \/ ActorPolled
  <2>1. GatewayStep
    BY <1>5 DEF ActorDropped, ActorPolled, InGateway, GatewayStep
  <2> QED BY <1>3, <1>5, <2>1 DEF ActorDropped, ActorPolled, InGateway, Running,
                                  ServerVars
<1>6. ASSUME TaskAsksNext \/ \E reply : TaskHandlesHead(reply)
      PROVE  /\ ForksInForce'
             /\ last # NoLast => DomainInForce' = DomainInForce
  <2>1. GatewayStep
    BY <1>6, StartupAssumption DEF TaskHandlesHead, TaskAsksNext, GatewayStep
  <2> QED BY <1>3, <1>6, <2>1 DEF TaskHandlesHead, TaskAsksNext, Alive
<1>7. ASSUME NEW request, Serve(request)
      PROVE  /\ ForksInForce'
             /\ last # NoLast => DomainInForce' = DomainInForce
  <2>1. GatewayStep
    BY <1>7 DEF Serve, GatewayStep
  <2>2. Alive /\ UNCHANGED <<scenario, forkDatas, phase>>
    BY <1>7 DEF Serve
  <2> QED BY <1>3, <2>1, <2>2 DEF Alive
<1>8. ASSUME NEW c \in Callers, Running, UNCHANGED <<phase, ServerVars>>,
             CallStep(c) \/ NodeSilent(c) \/ GiveUp(c) \/ OtherAsks(c)
      PROVE  /\ ForksInForce'
             /\ last # NoLast => DomainInForce' = DomainInForce
  <2>1. GatewayStep
    BY <1>8 DEF OtherAsks, GatewayStep
  <2> QED BY <1>3, <1>8, <2>1 DEF Running, ServerVars
<1>9. CASE UNCHANGED StartupVars
  <2>1. GatewayStep
    BY <1>9 DEF StartupVars, GatewayStep
  <2> QED BY <1>3, <1>9, <2>1 DEF StartupVars, ServerVars
<1> QED
  <2> DEFINE Kept == /\ ForksInForce'
                     /\ last # NoLast => DomainInForce' = DomainInForce
  <2>1. \A c \in Callers :
            /\ CallerPolled(c) => Kept
            /\ Running /\ InGateway(NodeSilent(c)) => Kept
            /\ Running /\ InGateway(GiveUp(c)) => Kept
            /\ Alive /\ InGateway(OtherAsks(c)) => Kept
    BY <1>8 DEF CallerPolled, InGateway, Running, Alive
  <2>2. /\ TaskAsksNext => Kept
        /\ \A reply : TaskHandlesHead(reply) => Kept
        /\ \A request : Serve(request) => Kept
    BY <1>6, <1>7
  <2>3. /\ Configure \/ ForkDataKnown \/ Interrupt \/ Shutdown \/ Exit => Kept
        /\ ActorDropped \/ ActorPolled \/ UNCHANGED StartupVars => Kept
        /\ BindGrpc \/ BindHealth => Kept
    BY <1>1, <1>2, <1>4, <1>5, <1>9
  <2> HIDE DEF Kept
  <2>4. Kept
    BY <2>1, <2>2, <2>3 DEF StartupNext
  <2> QED BY <2>4 DEF Kept

\* A registration is answered by the domain in force, which stays in force.
LEMMA AcceptedNext ==
    ASSUME DomainInv, [StartupNext]_StartupVars
    PROVE  AcceptedInDomainInForce'
<1>1. ASSUME NEW request \in Scenarios[scenario].requests, Serve(request)
      PROVE  AcceptedInDomainInForce'
  <2>1. WellTyped(request)
    BY RequestAssumption DEF DomainInv, StartupInv, ServerInv, ServerTypeOK
  <2>2. /\ last' = [request |-> request, answer |-> Handle(request)]
        /\ UNCHANGED <<GatewayVars, scenario>> /\ Alive
    BY <1>1 DEF Serve
  <2>3. DomainInForce' = DomainInForce
    BY <2>2 DEF GatewayVars, DomainInForce, args
  <2>4. compute_builder_domain(forkDatas) = DomainInForce
    BY <2>2 DEF DomainInv, ForksInForce
  <2> SUFFICES ASSUME request.path = Register
               PROVE  AcceptedInDomainInForce'
    BY <2>2 DEF AcceptedInDomainInForce
  <2> DEFINE answer == Handle(request)
             Signed(e) == e.signature = sign(e.message.pubkey,
                                             signing_root(e.message, DomainInForce))
  <2>5. IF IsErr(answer) THEN \A e : Encodes(request, e) => ~Signed(e)
        ELSE Encodes(request, answer.ok) /\ Signed(answer.ok)
    BY <2>1, <2>4, HandleRegisters
  <2>6. last'.request = request /\ last'.answer = answer
    BY <2>2
  <2> HIDE DEF answer
  <2> QED BY <2>3, <2>5, <2>6 DEF AcceptedInDomainInForce
<1>2. CASE UNCHANGED last
  <2>1. last # NoLast => DomainInForce' = DomainInForce
    BY ForksInForceNext
  <2> QED BY <1>2, <2>1 DEF DomainInv, AcceptedInDomainInForce, Encodes, Entity, Encode
<1>3. UNCHANGED last \/ \E request \in Scenarios[scenario].requests : Serve(request)
  BY OnlyServeAnswers
<1> QED BY <1>1, <1>2, <1>3

\* The process keeps its types, from its command line to its exit.
THEOREM StartupTypesCorrect == StartupSpec => []StartupTypeOK
<1>1. StartupInv => StartupTypeOK
  BY DEF StartupInv, GatewayInv, ServerInv, ServerTypeOK, StartupTypeOK
<1> QED BY <1>1, StartupInvariant, PTL

\* What register_validator stores under a key, the owner of that key signed,
\* whatever the clients send.
THEOREM RegistrationsAreAuthentic == StartupSpec => []RegistrationsAuthentic
<1>1. StartupInv => RegistrationsAuthentic
  BY DEF StartupInv, ServerInv
<1> QED BY <1>1, StartupInvariant, PTL

\* Every request of a builder or a proposer is converted exactly if it is the
\* encoding of an entity, and to that entity; it panics only on a length that
\* the code does not check, whatever the clients send.
THEOREM ConversionsAreExact == StartupSpec => []ConvertedIffEncoded
<1>1. StartupInit => ConvertedIffEncoded
  BY DEF StartupInit, ConvertedIffEncoded
<1>2. StartupInv => ServerTypeOK
  BY DEF StartupInv, ServerInv
<1>3. ServerTypeOK /\ ConvertedIffEncoded /\ [StartupNext]_StartupVars
        => ConvertedIffEncoded'
  BY ConvertedNext
<1> QED BY <1>1, <1>2, <1>3, StartupInvariant, PTL DEF StartupSpec

\* A registration is taken exactly if its own key signed it for the fork data
\* startup ended up with, however startup went and whatever happens to the
\* beacon service, its callers and the node meanwhile.
THEOREM AcceptedOnlyInForce == StartupSpec => []AcceptedInDomainInForce
<1>1. StartupInit => DomainInv
  <2> HAVE StartupInit
  <2>1. StartupInv
    BY StartupInvInit
  <2>2. /\ last = NoLast /\ phase = "starting"
        /\ call["startup"] = "idle" /\ result["startup"].value = Err("none")
    BY StartupAssumption DEF StartupInit, GatewayInit, NoResult
  <2>3. StartupCallOK
    BY <2>2, ErrIsErr DEF StartupCallOK, Answered
  <2> QED BY <2>1, <2>2, <2>3
          DEF DomainInv, ForksInForce, AcceptedInDomainInForce, Running, Alive
<1>2. DomainInv /\ [StartupNext]_StartupVars => DomainInv'
  <2> SUFFICES ASSUME DomainInv, [StartupNext]_StartupVars
               PROVE  DomainInv'
    OBVIOUS
  <2>1. StartupInv'
    BY StartupInvNext DEF DomainInv
  <2> QED BY <2>1, ForksInForceNext, AcceptedNext DEF DomainInv
<1>3. DomainInv => AcceptedInDomainInForce
  BY DEF DomainInv
<1> QED BY <1>1, <1>2, <1>3, PTL DEF StartupSpec

============================================================================
