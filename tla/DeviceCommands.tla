---------------------------- MODULE DeviceCommands ----------------------------
(***************************************************************************)
(* The command queue of one device: the Redis stream and keys of            *)
(* lib/device-commands.ts, the gateway loop and the handlers of             *)
(* lib/ws-handler.ts that deliver from it, and the desktop's WsClient       *)
(* (lib/wsClient.ts) that executes and answers.                             *)
(*                                                                          *)
(* An action is one Redis call with the code of its process up to the next *)
(* await.  The calls of one clean-up, of one deleteStreamEntry and of one   *)
(* scheduleRetry are taken together.  A connection carries sets of          *)
(* messages: their order does not matter to the properties.                 *)
(***************************************************************************)
EXTENDS Naturals, FiniteSets

CONSTANTS
    Commands,       \* the commands ever enqueued for the device
    NoCommand,
    Handlers,       \* invocations of the device.command.ack handler at a time
    MaxConns,       \* connections the desktop ever opens
    Results,        \* how the desktop may answer a command it executes
    Mortal,         \* commands whose 15 minutes may run out
    SlowHello,      \* the awaits of a hello may outlast its connection
    MaxCrashes,     \* crashes of the API process
    MaxReboots      \* restarts of the desktop

ASSUME NoCommandAssumption == NoCommand \notin Commands
ASSUME ResultsAssumption == Results \subseteq {"ok", "rejected", "busy"}
ASSUME BoundsAssumption ==
    /\ IsFiniteSet(Commands)
    /\ Mortal \subseteq Commands
    /\ SlowHello \in BOOLEAN
    /\ {MaxConns, MaxCrashes, MaxReboots} \subseteq Nat

VARIABLES
    stream,      \* commands in the stream device:cmd:<deviceId>
    streamId,    \* their stream ids, in the order of the XADDs
    cursor,      \* last id delivered to the consumer group
    pel,         \* pending entries: delivered, not acknowledged to Redis
    entry,       \* commands with a device:cmd:entry key
    ackKey,      \* the device:cmd:ack key
    retry,       \* the device:cmd:retry key: its availableAt is to come, or not
    expired,     \* commands past their expiresAt
    enqueue,     \* where enqueueDeviceCommand is
    sock,        \* the server's end of each connection
    loop,        \* where the gateway loop of each connection is
    got,         \* the command it is about to send
    current,     \* deviceGatewayLoops.get(deviceId), 0 for none
    inFlight,    \* deviceInFlightCommands.get(deviceId)
    handler,     \* where each ack handler is
    answering,   \* the command and the answer it handles
    applied,     \* commands whose rejection was applied to run or action
    down, up,    \* commands and acks on the wire of each connection
    link,        \* the desktop's connection, 0 for none
    handled,     \* handledCommandAcks of the desktop
    effects,     \* executions of each command in this life of the desktop
    executed,    \* history: commands executed at least once
    crashes, reboots

redisVars == <<stream, streamId, cursor, pel, entry, ackKey, retry, expired>>
gatewayVars == <<sock, loop, got, current, inFlight>>
handlerVars == <<handler, answering, applied>>
clientVars == <<link, handled, effects, executed>>
wireVars == <<down, up>>
faultVars == <<crashes, reboots>>
vars == <<redisVars, enqueue, gatewayVars, handlerVars, wireVars, clientVars, faultVars>>

Conns == 1 .. MaxConns
Answers == {"ok", "rejected", "busy"}
NoAnswer == [command |-> NoCommand, answer |-> "ok"]

Init ==
    /\ stream = {}
    /\ streamId = [c \in Commands |-> 0]
    /\ cursor = 0
    /\ pel = {}
    /\ entry = {}
    /\ ackKey = [c \in Commands |-> "none"]
    /\ retry = [c \in Commands |-> "none"]
    /\ expired = {}
    /\ enqueue = [c \in Commands |-> "idle"]
    /\ sock = [k \in Conns |-> "new"]
    /\ loop = [k \in Conns |-> "none"]
    /\ got = [k \in Conns |-> NoCommand]
    /\ current = 0
    /\ inFlight = NoCommand
    /\ handler = [h \in Handlers |-> "idle"]
    /\ answering = [h \in Handlers |-> NoAnswer]
    /\ applied = {}
    /\ down = [k \in Conns |-> {}]
    /\ up = [k \in Conns |-> {}]
    /\ link = 0
    /\ handled = [c \in Commands |-> "none"]
    /\ effects = [c \in Commands |-> 0]
    /\ executed = {}
    /\ crashes = 0
    /\ reboots = 0

-----------------------------------------------------------------------------
(* Redis *)

First(S) == CHOOSE c \in S : \A d \in S : streamId[c] <= streamId[d]
Undelivered == {c \in stream : streamId[c] > cursor}

SetAck(c, value) == ackKey' = [ackKey EXCEPT ![c] = value]
ScheduleRetry(c) == retry' = [retry EXCEPT ![c] = "backoff"]

(* deleteStreamEntry: XACK, XDEL, DEL entry and DEL retry, taken together. *)
Delete(D) ==
    /\ pel' = pel \ D
    /\ stream' = stream \ D
    /\ entry' = entry \ D
    /\ retry' = [c \in Commands |-> IF c \in D THEN "none" ELSE retry[c]]

(* cleanupExpiredDeviceCommands: the expired commands before the first that *)
(* is not.                                                                  *)
Lapsed == {c \in stream \cap expired :
             \A d \in stream : streamId[d] < streamId[c] => d \in expired}
Sweep ==
    /\ ackKey' = [c \in Commands |-> IF c \in Lapsed THEN "expired" ELSE ackKey[c]]
    /\ Delete(Lapsed)

(* 15 minutes are over. *)
Expire(c) ==
    /\ c \in Mortal \ expired
    /\ streamId[c] # 0
    /\ expired' = expired \cup {c}
    /\ UNCHANGED <<stream, streamId, cursor, pel, entry, ackKey, retry, enqueue,
                   gatewayVars, handlerVars, wireVars, clientVars, faultVars>>

BackoffOver(c) ==
    /\ retry[c] = "backoff"
    /\ retry' = [retry EXCEPT ![c] = "none"]
    /\ UNCHANGED <<stream, streamId, cursor, pel, entry, ackKey, expired, enqueue,
                   gatewayVars, handlerVars, wireVars, clientVars, faultVars>>

-----------------------------------------------------------------------------
(* enqueueDeviceCommand: XADD, SET of the entry key, clean-up. *)
Xadd(c) ==
    /\ enqueue[c] = "idle"
    /\ enqueue' = [enqueue EXCEPT ![c] = "added"]
    /\ stream' = stream \cup {c}
    /\ streamId' = [streamId EXCEPT
                      ![c] = 1 + Cardinality({d \in Commands : streamId[d] # 0})]
    /\ UNCHANGED <<cursor, pel, entry, ackKey, retry, expired, gatewayVars, handlerVars,
                   wireVars, clientVars, faultVars>>

SetEntry(c) ==
    /\ enqueue[c] = "added"
    /\ enqueue' = [enqueue EXCEPT ![c] = "keyed"]
    /\ entry' = entry \cup {c}
    /\ UNCHANGED <<stream, streamId, cursor, pel, ackKey, retry, expired, gatewayVars,
                   handlerVars, wireVars, clientVars, faultVars>>

EnqueueSweep(c) ==
    /\ enqueue[c] = "keyed"
    /\ enqueue' = [enqueue EXCEPT ![c] = "done"]
    /\ Sweep
    /\ UNCHANGED <<streamId, cursor, expired, gatewayVars, handlerVars, wireVars,
                   clientVars, faultVars>>

-----------------------------------------------------------------------------
(* The gateway loop of connection k. *)

Goto(k, l) == loop' = [loop EXCEPT ![k] = l]

(* clearDeviceInFlightCommand(deviceId, commandId) *)
ClearInFlight(c) == inFlight' = IF inFlight = c THEN NoCommand ELSE inFlight

(* hello is answered: the loop becomes the registered one and starts, also  *)
(* when the desktop has left the connection during the awaits before.       *)
HelloDone(k) ==
    /\ loop[k] = "hello"
    /\ link = k \/ SlowHello
    /\ Goto(k, "top")
    /\ current' = k
    /\ inFlight' = NoCommand
    /\ UNCHANGED <<redisVars, enqueue, sock, got, handlerVars, wireVars, clientVars,
                   faultVars>>

(* `while (isCurrentGatewayLoop(...))` *)
LoopEnds(k) ==
    /\ loop[k] \in {"top", "send"}
    /\ current # k
    /\ Goto(k, "over")
    /\ got' = [got EXCEPT ![k] = NoCommand]
    /\ UNCHANGED <<redisVars, enqueue, sock, current, inFlight, handlerVars, wireVars,
                   clientVars, faultVars>>

(* Nothing is in flight: the read of the pending entries, from its clean-up *)
(* on.                                                                      *)
StartReading(k) ==
    /\ \/ loop[k] = "read"
       \/ loop[k] = "top" /\ current = k /\ inFlight = NoCommand
    /\ Goto(k, "pel")
    /\ Sweep
    /\ UNCHANGED <<streamId, cursor, expired, enqueue, sock, got, current, inFlight,
                   handlerVars, wireVars, clientVars, faultVars>>

(* The command in flight has been so for DEVICE_COMMAND_ACK_TIMEOUT_MS, that *)
(* is at any time: it is retried later.                                      *)
AckTimeout(k) ==
    /\ loop[k] = "top"
    /\ current = k
    /\ inFlight # NoCommand
    /\ Goto(k, "read")
    /\ ScheduleRetry(inFlight)
    /\ inFlight' = NoCommand
    /\ UNCHANGED <<stream, streamId, cursor, pel, entry, ackKey, expired, enqueue, sock,
                   got, current, handlerVars, wireVars, clientVars, faultVars>>

(* What nextReadableCommands makes of the message it has read. *)
Readable(c) == c \notin expired /\ retry[c] # "backoff"
Take(k, c, otherwise) ==
    \/ /\ Readable(c)
       /\ Goto(k, "send")
       /\ got' = [got EXCEPT ![k] = c]
       /\ UNCHANGED <<stream, entry, retry>>
    \/ /\ c \notin expired /\ ~Readable(c)
       /\ Goto(k, otherwise)
       /\ UNCHANGED <<stream, entry, retry, got>>

(* Expired since the clean-up: deleted, without a terminal ack. *)
DropExpired(k, c, otherwise) ==
    /\ c \in expired
    /\ Goto(k, otherwise)
    /\ Delete({c})
    /\ UNCHANGED got

(* Variant: the loop reads new commands only. *)
ReadPendingNever(k) ==
    /\ loop[k] = "pel"
    /\ Goto(k, "sweep")
    /\ UNCHANGED <<redisVars, enqueue, sock, got, current, inFlight, handlerVars, wireVars,
                   clientVars, faultVars>>

(* XREADGROUP 0: the oldest pending entry only. *)
ReadPending(k) ==
    /\ loop[k] = "pel"
    /\ \/ /\ pel = {}
          /\ Goto(k, "sweep")
          /\ UNCHANGED <<stream, entry, retry, got, pel>>
       \/ /\ pel # {}
          /\ Take(k, First(pel), "sweep")
          /\ UNCHANGED pel
       \/ /\ pel # {}
          /\ DropExpired(k, First(pel), "sweep")
    /\ UNCHANGED <<streamId, cursor, ackKey, expired, enqueue, sock, current, inFlight,
                   handlerVars, wireVars, clientVars, faultVars>>

(* No pending command is due: readNewDeviceCommands, from its clean-up on. *)
SweepAgain(k) ==
    /\ loop[k] = "sweep"
    /\ Goto(k, "new")
    /\ Sweep
    /\ UNCHANGED <<streamId, cursor, expired, enqueue, sock, got, current, inFlight,
                   handlerVars, wireVars, clientVars, faultVars>>

(* Variant: XREADGROUP NOACK, what is read does not become pending. *)
ReadNewUnacked(k) ==
    /\ loop[k] = "new"
    /\ \/ /\ Undelivered = {}
          /\ Goto(k, "top")
          /\ UNCHANGED <<stream, entry, retry, got, cursor>>
       \/ /\ Undelivered # {}
          /\ cursor' = streamId[First(Undelivered)]
          /\ Take(k, First(Undelivered), "top")
    /\ UNCHANGED <<streamId, pel, ackKey, expired, enqueue, sock, current, inFlight,
                   handlerVars, wireVars, clientVars, faultVars>>

(* XREADGROUP >: the next command of the stream becomes pending. *)
ReadNew(k) ==
    /\ loop[k] = "new"
    /\ \/ /\ Undelivered = {}
          /\ Goto(k, "top")
          /\ UNCHANGED <<stream, entry, retry, got, pel, cursor>>
       \/ /\ Undelivered # {}
          /\ cursor' = streamId[First(Undelivered)]
          /\ pel' = pel \cup {First(Undelivered)}
          /\ Take(k, First(Undelivered), "top")
       \/ /\ Undelivered # {}
          /\ cursor' = streamId[First(Undelivered)]
          /\ DropExpired(k, First(Undelivered), "top")
    /\ UNCHANGED <<streamId, ackKey, expired, enqueue, sock, current, inFlight,
                   handlerVars, wireVars, clientVars, faultVars>>

(* Variant: a command written to the socket counts as done. *)
SendIsSuccess(k) ==
    /\ loop[k] = "send"
    /\ current = k
    /\ Goto(k, "top")
    /\ got' = [got EXCEPT ![k] = NoCommand]
    /\ SetAck(got[k], "ok")
    /\ down' = IF link = k THEN [down EXCEPT ![k] = @ \cup {got[k]}] ELSE down
    /\ UNCHANGED <<stream, streamId, cursor, pel, entry, retry, expired, enqueue, sock,
                   current, inFlight, handlerVars, up, clientVars, faultVars>>

(* The command is written to the socket; on a dead one it is lost unseen. *)
Send(k) ==
    /\ loop[k] = "send"
    /\ current = k
    /\ Goto(k, "top")
    /\ inFlight' = got[k]
    /\ got' = [got EXCEPT ![k] = NoCommand]
    /\ down' = IF link = k THEN [down EXCEPT ![k] = @ \cup {got[k]}] ELSE down
    /\ UNCHANGED <<redisVars, enqueue, sock, current, handlerVars, up, clientVars,
                   faultVars>>

(* socket.send throws: the loop returns, and stays registered. *)
SendFails(k) ==
    /\ loop[k] = "send"
    /\ current = k
    /\ link # k
    /\ Goto(k, "over")
    /\ ScheduleRetry(got[k])
    /\ got' = [got EXCEPT ![k] = NoCommand]
    /\ UNCHANGED <<stream, streamId, cursor, pel, entry, ackKey, expired, enqueue, sock,
                   current, inFlight, handlerVars, wireVars, clientVars, faultVars>>

(* The server sees the connection close: whatever is in flight is forgotten. *)
ServerClose(k) ==
    /\ sock[k] = "open"
    /\ link # k
    /\ sock' = [sock EXCEPT ![k] = "closed"]
    /\ current' = IF current = k THEN 0 ELSE current
    /\ inFlight' = NoCommand
    /\ UNCHANGED <<redisVars, enqueue, loop, got, handlerVars, wireVars, clientVars,
                   faultVars>>

LoopStep(k) ==
    HelloDone(k) \/ LoopEnds(k) \/ StartReading(k) \/ AckTimeout(k) \/ ReadPending(k)
    \/ SweepAgain(k) \/ ReadNew(k) \/ Send(k) \/ SendFails(k) \/ ServerClose(k)

-----------------------------------------------------------------------------
(* The handler of device.command.ack. *)

HandlerGoto(h, l) ==
    /\ handler' = [handler EXCEPT ![h] = l]
    /\ answering' = [answering EXCEPT ![h] = IF l = "idle" THEN NoAnswer ELSE @]

(* The in-flight command is cleared first; a command that has a terminal ack *)
(* is not looked at again.                                                   *)
AckReceived(h, k, m) ==
    /\ handler[h] = "idle"
    /\ m \in up[k]
    /\ up' = [up EXCEPT ![k] = @ \ {m}]
    /\ ClearInFlight(m.command)
    /\ IF ackKey[m.command] # "none"
       THEN UNCHANGED <<handler, answering>>
       ELSE /\ handler' = [handler EXCEPT ![h] = "entry"]
            /\ answering' = [answering EXCEPT ![h] = m]
    /\ UNCHANGED <<redisVars, enqueue, sock, loop, got, current, applied, down, clientVars,
                   faultVars>>

(* getCommandEntry: without an entry the ack is ignored. *)
GetEntry(h) ==
    /\ handler[h] = "entry"
    /\ LET m == answering[h] IN
         HandlerGoto(h, IF m.command \notin entry THEN "idle"
                        ELSE IF m.answer = "busy" THEN "retry" ELSE "answer")
    /\ UNCHANGED <<redisVars, enqueue, gatewayVars, applied, wireVars,
                   clientVars, faultVars>>

(* Variant: a command the desktop is too busy for is dropped. *)
RetryLaterDrops(h) ==
    /\ handler[h] = "retry"
    /\ HandlerGoto(h, "idle")
    /\ Delete({answering[h].command})
    /\ UNCHANGED <<streamId, cursor, ackKey, expired, enqueue, gatewayVars, applied,
                   wireVars, clientVars, faultVars>>

RetryLater(h) ==
    /\ handler[h] = "retry"
    /\ HandlerGoto(h, "idle")
    /\ ScheduleRetry(answering[h].command)
    /\ UNCHANGED <<stream, streamId, cursor, pel, entry, ackKey, expired, enqueue,
                   gatewayVars, applied, wireVars, clientVars, faultVars>>

SetTerminalAck(h) ==
    /\ handler[h] = "answer"
    /\ HandlerGoto(h, "delete")
    /\ SetAck(answering[h].command, answering[h].answer)
    /\ UNCHANGED <<stream, streamId, cursor, pel, entry, retry, expired, enqueue,
                   gatewayVars, applied, wireVars, clientVars, faultVars>>

(* Variant: the handler returns once the command is deleted. *)
DeleteOnly(h) ==
    /\ handler[h] = "delete"
    /\ HandlerGoto(h, "idle")
    /\ Delete({answering[h].command})
    /\ UNCHANGED <<streamId, cursor, ackKey, expired, enqueue, gatewayVars, applied,
                   wireVars, clientVars, faultVars>>

DeleteStreamEntry(h) ==
    /\ handler[h] = "delete"
    /\ HandlerGoto(h, "outcome")
    /\ Delete({answering[h].command})
    /\ UNCHANGED <<streamId, cursor, ackKey, expired, enqueue, gatewayVars, applied,
                   wireVars, clientVars, faultVars>>

(* applyTerminalDeviceCommandOutcome *)
ApplyOutcome(h) ==
    /\ handler[h] = "outcome"
    /\ HandlerGoto(h, "idle")
    /\ applied' = IF answering[h].answer = "rejected"
                  THEN applied \cup {answering[h].command} ELSE applied
    /\ UNCHANGED <<redisVars, enqueue, gatewayVars, wireVars, clientVars,
                   faultVars>>

HandlerStep(h) ==
    \/ \E k \in Conns : \E m \in up[k] : AckReceived(h, k, m)
    \/ GetEntry(h) \/ RetryLater(h) \/ SetTerminalAck(h)
    \/ DeleteStreamEntry(h) \/ ApplyOutcome(h)

-----------------------------------------------------------------------------
(* The desktop's WsClient. *)

(* connect, then hello: the next connection. *)
Connect(k) ==
    /\ link = 0
    /\ sock[k] = "new"
    /\ \A j \in 1 .. k - 1 : sock[j] # "new"
    /\ link' = k
    /\ sock' = [sock EXCEPT ![k] = "open"]
    /\ loop' = [loop EXCEPT ![k] = "hello"]
    /\ UNCHANGED <<redisVars, enqueue, got, current, inFlight, handlerVars, wireVars,
                   handled, effects, executed, faultVars>>

(* Bound: the last connection does not break. *)
MayBreak == link < MaxConns

(* The connection breaks at the desktop's end; what it sent may still arrive. *)
Disconnect ==
    /\ link # 0
    /\ MayBreak
    /\ link' = 0
    /\ down' = [down EXCEPT ![link] = {}]
    /\ UNCHANGED <<redisVars, enqueue, gatewayVars, handlerVars, up, handled, effects,
                   executed, faultVars>>

LoseAcks(k) ==
    /\ link # k
    /\ up[k] # {}
    /\ up' = [up EXCEPT ![k] = {}]
    /\ UNCHANGED <<redisVars, enqueue, gatewayVars, handlerVars, down, clientVars, faultVars>>

Reply(c, a) == up' = [up EXCEPT ![link] = @ \cup {[command |-> c, answer |-> a]}]

(* A command whose ack it remembers is not executed again, the ack is sent *)
(* again, a retryable one too.                                             *)
Replay(c) ==
    /\ handled[c] # "none"
    /\ Reply(c, handled[c])
    /\ UNCHANGED <<handled, effects, executed>>

(* Variant: no look at handledCommandAcks before a command is executed. *)
ExecuteAgain(c, a) ==
    /\ Reply(c, a)
    /\ handled' = [handled EXCEPT ![c] = a]
    /\ IF a = "ok"
       THEN /\ effects' = [effects EXCEPT ![c] = @ + 1]
            /\ executed' = executed \cup {c}
       ELSE UNCHANGED <<effects, executed>>

Execute(c, a) ==
    /\ handled[c] = "none"
    /\ Reply(c, a)
    /\ handled' = [handled EXCEPT ![c] = a]
    /\ IF a = "ok"
       THEN /\ effects' = [effects EXCEPT ![c] = @ + 1]
            /\ executed' = executed \cup {c}
       ELSE UNCHANGED <<effects, executed>>

HandleServerCommand(c) ==
    /\ link # 0
    /\ c \in down[link]
    /\ down' = [down EXCEPT ![link] = @ \ {c}]
    /\ Replay(c) \/ \E a \in Results : Execute(c, a)
    /\ UNCHANGED <<redisVars, enqueue, gatewayVars, handlerVars, link, faultVars>>

-----------------------------------------------------------------------------
(* Faults *)

(* The API process dies and starts again; Redis and the desktop stay. *)
ApiCrash ==
    /\ crashes < MaxCrashes
    /\ MayBreak
    /\ crashes' = crashes + 1
    /\ enqueue' = [c \in Commands |->
                     IF enqueue[c] \in {"added", "keyed"} THEN "lost" ELSE enqueue[c]]
    /\ sock' = [k \in Conns |-> IF sock[k] = "new" THEN "new" ELSE "closed"]
    /\ loop' = [k \in Conns |-> IF loop[k] = "none" THEN "none" ELSE "over"]
    /\ current' = 0
    /\ inFlight' = NoCommand
    /\ handler' = [h \in Handlers |-> "idle"]
    /\ answering' = [h \in Handlers |-> NoAnswer]
    /\ got' = [k \in Conns |-> NoCommand]
    /\ down' = [k \in Conns |-> {}]
    /\ up' = [k \in Conns |-> {}]
    /\ link' = 0
    /\ UNCHANGED <<redisVars, applied, handled, effects, executed, reboots>>

(* The desktop restarts: the acks it remembers are in memory. *)
Reboot ==
    /\ reboots < MaxReboots
    /\ MayBreak
    /\ reboots' = reboots + 1
    /\ link' = 0
    /\ down' = [k \in Conns |-> {}]
    /\ handled' = [c \in Commands |-> "none"]
    /\ effects' = [c \in Commands |-> 0]
    /\ UNCHANGED <<redisVars, enqueue, gatewayVars, handlerVars, up, executed, crashes>>

-----------------------------------------------------------------------------
Next ==
    \/ \E c \in Commands :
          \/ Expire(c) \/ BackoffOver(c)
          \/ Xadd(c) \/ SetEntry(c) \/ EnqueueSweep(c)
          \/ HandleServerCommand(c)
    \/ \E k \in Conns : LoopStep(k) \/ Connect(k) \/ LoseAcks(k)
    \/ \E h \in Handlers : HandlerStep(h)
    \/ Disconnect \/ ApiCrash \/ Reboot

Spec == Init /\ [][Next]_vars

(* The awaits of the API on Redis end, its timers fire, and a desktop that  *)
(* runs reconnects and answers what it receives.  Nothing is promised of    *)
(* the 15 minutes, of crashes, or of connections breaking.                  *)
Fairness ==
    /\ \A c \in Commands :
          /\ WF_vars(SetEntry(c) \/ EnqueueSweep(c))
          /\ WF_vars(BackoffOver(c))
          /\ WF_vars(HandleServerCommand(c))
    /\ \A k \in Conns :
          WF_vars(LoopStep(k)) /\ WF_vars(ServerClose(k)) /\ WF_vars(Connect(k))
    /\ \A h \in Handlers : WF_vars(HandlerStep(h))
FairSpec == Spec /\ Fairness

-----------------------------------------------------------------------------
(* Properties *)

TypeOK ==
    /\ stream \subseteq Commands
    /\ streamId \in [Commands -> 0 .. Cardinality(Commands)]
    /\ cursor \in 0 .. Cardinality(Commands)
    /\ pel \subseteq Commands
    /\ entry \subseteq Commands
    /\ ackKey \in [Commands -> {"none", "ok", "rejected", "expired"}]
    /\ retry \in [Commands -> {"none", "backoff"}]
    /\ expired \subseteq Mortal
    /\ enqueue \in [Commands -> {"idle", "added", "keyed", "done", "lost"}]
    /\ sock \in [Conns -> {"new", "open", "closed"}]
    /\ loop \in [Conns -> {"none", "hello", "top", "read", "pel", "sweep", "new", "send",
                           "over"}]
    /\ got \in [Conns -> Commands \cup {NoCommand}]
    /\ current \in {0} \cup Conns
    /\ inFlight \in Commands \cup {NoCommand}
    /\ handler \in [Handlers -> {"idle", "entry", "retry", "answer", "delete", "outcome"}]
    /\ answering \in [Handlers -> [command : Commands, answer : Answers] \cup {NoAnswer}]
    /\ applied \subseteq Commands
    /\ down \in [Conns -> SUBSET Commands]
    /\ up \in [Conns -> SUBSET [command : Commands, answer : Answers]]
    /\ link \in {0} \cup Conns
    /\ handled \in [Commands -> {"none"} \cup Answers]
    /\ effects \in [Commands -> Nat]
    /\ executed \subseteq Commands
    /\ crashes \in 0 .. MaxCrashes
    /\ reboots \in 0 .. MaxReboots

(* An accepted command that was neither answered nor expired is in the      *)
(* stream, and either still unread or pending: whatever loops, handlers and *)
(* crashes interleave, some later read can return it.                       *)
UnansweredIsReadable ==
    \A c \in Commands :
        streamId[c] # 0 /\ ackKey[c] = "none" /\ c \notin expired =>
            c \in stream /\ (c \in pel \/ streamId[c] > cursor)

(* docs/deploying.md:164, "desktop handlers must be idempotent by           *)
(* commandId": however often a command is delivered, over whatever          *)
(* connections, a desktop that keeps running executes it once.              *)
OncePerLife == \A c \in Commands : effects[c] <= 1

(* Only the desktop's own success or rejection, never a timeout, a broken   *)
(* connection or a crash, makes the API believe a command was executed.     *)
OkMeansExecuted == \A c \in Commands : ackKey[c] = "ok" => c \in executed

(* Unless the API crashed, a rejection whose terminal ack is written was     *)
(* told to its run or action, or an ack handler is on the way to do so; also *)
(* when a second ack of the command, or its expiry, comes in between.        *)
NoRejectionIsLost ==
    crashes = 0 =>
        \A c \in Commands : ackKey[c] = "rejected" =>
            \/ c \in applied
            \/ \E h \in Handlers :
                  /\ handler[h] \in {"delete", "outcome"}
                  /\ answering[h] = [command |-> c, answer |-> "rejected"]

(* The queue implements what CommandDelivery promises. *)
Delivery == INSTANCE CommandDelivery WITH
    accepted <- {c \in Commands : streamId[c] # 0},
    queued <- stream,
    answer <- ackKey,
    lapsed <- expired
ImplementsDelivery == Delivery!Spec

(* Every accepted command is answered: what the desktop executes or rejects *)
(* is not redelivered for ever, nor does a command before it block it.      *)
EventuallyAnswered ==
    \A c \in Commands : streamId[c] # 0 ~> ackKey[c] # "none"

(* The run or action of a rejected command is told so. *)
RejectionIsApplied ==
    \A c \in Commands : ackKey[c] = "rejected" ~> c \in applied
=============================================================================
