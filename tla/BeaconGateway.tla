--------------------------- MODULE BeaconGateway ---------------------------
(***************************************************************************)
(* The beacon service actor and its handle (crates/gateway/src/beacon).    *)
(* A caller puts a command with a oneshot sender into an unbounded queue;  *)
(* the service turns it into a future and sends that back; the caller then *)
(* runs the HTTP request itself.  There is no timeout anywhere.            *)
(*                                                                         *)
(* The node is external: it refuses, fails, answers well or badly, or      *)
(* never answers.  In the body of a reply, a hex text is a record of its    *)
(* length in bytes and of what it stands for, or NotHex.                   *)
(***************************************************************************)
EXTENDS Naturals, Sequences, Conversion

CONSTANTS
    Callers,      \* tasks that hold a clone of the handle
    Impatient,    \* those of them that may drop a call they have begun
    Commands,     \* [Callers -> set of commands it may give]
    Replies(_),   \* what the node may reply to a command
    MaxQueue,     \* bound: commands in the queue, which has none
    NotHex        \* text that is not hexadecimal

ASSUME GatewayAssumption ==
    /\ Impatient \subseteq Callers
    /\ "nobody" \notin Callers
    /\ MaxQueue \in Nat
    /\ \A c \in Callers : \A command \in Commands[c] : \A reply \in Replies(command) :
        reply.http \in {"refused", "failed", "garbled", "ok"}

VARIABLES
    service,    \* the actor's task: up or dropped
    commands,   \* the queue of the actor
    call,       \* [Callers -> where its present call is]
    asked,      \* [Callers -> the command of its latest call]
    future,     \* [Callers -> the command its future is to carry out]
    result      \* [Callers -> what its latest call returned]

GatewayVars == <<service, commands, call, asked, future, result>>

Waiting == {"queued", "future", "http", "silent"}

NoCommand == [kind |-> "none"]
NoCaller == "nobody"    \* a sender whose receiver was dropped
NoResult == [of |-> NoCommand, value |-> Err("none")]

-----------------------------------------------------------------------------
(* BeaconNodeApi: what is made of a reply.                                 *)

Sse == Err("Sse")

\* Transport error, error status, or a body that does not deserialise; else
\* what is made of the body.
get_json(reply, use(_)) ==
    CASE reply.http = "refused" -> Err("Http")
      [] reply.http = "failed"  -> Err("Api")
      [] reply.http = "garbled" -> Err("Deserialize")
      [] reply.http = "ok"      -> use(reply.body)

hex_bytes(text, n) == IF text # NotHex /\ text.len = n THEN Ok(text.val) ELSE Sse

\* The node's current version and validators root, for both domains.
get_fork_data(reply) ==
    get_json(reply, LAMBDA body :
        Try(<<hex_bytes(body.root, 32), hex_bytes(body.version, 4)>>,
            [builder  |-> [version |-> body.version.val, root |-> body.root.val],
             proposer |-> [version |-> body.version.val, root |-> body.root.val]]))

get_known_validator(reply) ==
    get_json(reply, LAMBDA body :
        IF NotANumber \in {body.index, body.balance} THEN Sse ELSE Ok(body))

\* copy_from_slice panics when the root has not 32 bytes.
publish_block(reply) ==
    get_json(reply, LAMBDA body :
        IF body.root = NotHex THEN Sse
        ELSE IF body.root.len = 32 THEN Ok(body.root.val) ELSE Err("panic"))

\* The body is typed by its deserialisation alone.
sync_status(reply) == get_json(reply, Ok)
proposer_duties(reply) == get_json(reply, Ok)

\* Asked by the background task itself, without the service.
fetch_head_slot(reply) ==
    get_json(reply, LAMBDA body : IF body = NotANumber THEN Sse ELSE Ok(body))

Outcome(command, reply) ==
    CASE command.kind = "ForkData" -> get_fork_data(reply)
      [] command.kind = "SyncStatus" -> sync_status(reply)
      [] command.kind = "ProposerDuties" -> proposer_duties(reply)
      [] command.kind = "KnownValidator" -> get_known_validator(reply)
      [] command.kind = "PublishBlock" -> publish_block(reply)

-----------------------------------------------------------------------------
GatewayInit ==
    /\ service = "up" /\ commands = <<>>
    /\ call = [c \in Callers |-> "idle"]
    /\ asked = [c \in Callers |-> NoCommand]
    /\ future = [c \in Callers |-> NoCommand]
    /\ result = [c \in Callers |-> NoResult]

Return(c, value) ==
    /\ call' = [call EXCEPT ![c] = "idle"]
    /\ result' = [result EXCEPT ![c] = [of |-> future[c], value |-> value]]

\* A method of the handle: the command is queued, or the service is gone.
Ask(c, command) ==
    /\ call[c] = "idle" /\ Len(commands) < MaxQueue
    /\ asked' = [asked EXCEPT ![c] = command]
    /\ IF service = "up"
       THEN /\ commands' = Append(commands, [by |-> c, command |-> command])
            /\ call' = [call EXCEPT ![c] = "queued"]
            /\ UNCHANGED result
       ELSE /\ call' = [call EXCEPT ![c] = "idle"]
            /\ result' = [result EXCEPT ![c] =
                            [of |-> command, value |-> Err("Channel")]]
            /\ UNCHANGED commands
    /\ UNCHANGED <<service, future>>

\* Mutant of Poll: the service carries out the request before the next one.
PollWhenIdle ==
    /\ service = "up" /\ commands # <<>>
    /\ \A c \in Callers : call[c] \notin {"http", "silent"}
    /\ commands' = Tail(commands)
    /\ LET c == Head(commands).by IN
        IF c # NoCaller
        THEN /\ future' = [future EXCEPT ![c] = Head(commands).command]
             /\ call' = [call EXCEPT ![c] = "future"]
        ELSE UNCHANGED <<future, call>>
    /\ UNCHANGED <<service, asked, result>>

\* BeaconService::poll: one command.  A sender whose caller is gone is ignored.
Poll ==
    /\ service = "up" /\ commands # <<>>
    /\ commands' = Tail(commands)
    /\ LET c == Head(commands).by IN
        IF c # NoCaller
        THEN /\ future' = [future EXCEPT ![c] = Head(commands).command]
             /\ call' = [call EXCEPT ![c] = "future"]
        ELSE UNCHANGED <<future, call>>
    /\ UNCHANGED <<service, asked, result>>

\* The caller runs the future it was sent: the request goes out.
RunFuture(c) ==
    /\ call[c] = "future"
    /\ call' = [call EXCEPT ![c] = "http"]
    /\ UNCHANGED <<service, commands, asked, future, result>>

NodeReplies(c, reply) ==
    /\ call[c] = "http"
    /\ Return(c, Outcome(future[c], reply))
    /\ UNCHANGED <<service, commands, asked, future>>

\* The node keeps the connection and never answers.
NodeSilent(c) ==
    /\ call[c] = "http"
    /\ call' = [call EXCEPT ![c] = "silent"]
    /\ UNCHANGED <<service, commands, asked, future, result>>

\* The caller drops its call, and with it the receiver or the future.
GiveUp(c) ==
    /\ c \in Impatient /\ call[c] \in Waiting
    /\ call' = [call EXCEPT ![c] = "idle"]
    /\ commands' = [i \in DOMAIN commands |->
            IF commands[i].by = c THEN [commands[i] EXCEPT !.by = NoCaller]
                                  ELSE commands[i]]
    /\ UNCHANGED <<service, asked, future, result>>

\* Mutant of ServiceStops: the callers of queued commands are not told.
ServiceStopsSilently ==
    /\ service = "up"
    /\ service' = "dropped" /\ commands' = <<>>
    /\ UNCHANGED <<call, result, asked, future>>

\* The runtime drops the actor: queued senders are dropped with the queue, and
\* their callers get a channel error; a future already sent is not affected.
ServiceStops ==
    /\ service = "up"
    /\ service' = "dropped" /\ commands' = <<>>
    /\ call' = [c \in Callers |-> IF call[c] = "queued" THEN "idle" ELSE call[c]]
    /\ result' = [c \in Callers |->
            IF call[c] = "queued"
            THEN [of |-> asked[c], value |-> Err("Channel")] ELSE result[c]]
    /\ UNCHANGED <<asked, future>>

CallStep(c) ==
    \/ RunFuture(c)
    \/ \E reply \in Replies(future[c]) : NodeReplies(c, reply)

-----------------------------------------------------------------------------
GatewayTypeOK ==
    /\ service \in {"up", "dropped"}
    /\ \A i \in DOMAIN commands : commands[i].by \in Callers \cup {NoCaller}
    /\ call \in [Callers -> {"idle"} \cup Waiting]
    /\ \A c \in Callers :
        /\ asked[c] \in Commands[c] \cup {NoCommand}
        /\ call[c] = "queued" => service = "up"

============================================================================
