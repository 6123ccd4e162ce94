------------------------ MODULE DeviceCommands_proofs ------------------------
(***************************************************************************)
(* Proofs about DeviceCommands, for any finite set of commands, any number *)
(* of connections, ack handlers, crashes and restarts, and any answers.    *)
(* The inductive invariant relates the stream's ids to the cursor of the   *)
(* consumer group (Ids), says that only accepted commands travel (Carried) *)
(* and that what is said of a command was done (Answered).                 *)
(***************************************************************************)
EXTENDS DeviceCommands, FiniteSetTheorems, WellFoundedInduction, TLAPS

(* The type invariant in parts *)
RedisTypes ==
    /\ stream \subseteq Commands /\ streamId \in [Commands -> 0 .. Cardinality(Commands)]
    /\ cursor \in 0 .. Cardinality(Commands) /\ pel \subseteq Commands /\ entry \subseteq Commands
    /\ ackKey \in [Commands -> {"none", "ok", "rejected", "expired"}]
    /\ retry \in [Commands -> {"none", "backoff"}] /\ expired \subseteq Mortal
    /\ enqueue \in [Commands -> {"idle", "added", "keyed", "done", "lost"}]
GatewayTypes ==
    /\ sock \in [Conns -> {"new", "open", "closed"}]
    /\ loop \in [Conns -> {"none", "hello", "top", "read", "pel", "sweep", "new", "send", "over"}]
    /\ got \in [Conns -> Commands \cup {NoCommand}]
    /\ current \in {0} \cup Conns /\ inFlight \in Commands \cup {NoCommand}
HandlerTypes ==
    /\ handler \in [Handlers -> {"idle", "entry", "retry", "answer", "delete", "outcome"}]
    /\ answering \in [Handlers -> [command : Commands, answer : Answers] \cup {NoAnswer}]
    /\ applied \subseteq Commands
WireTypes ==
    /\ down \in [Conns -> SUBSET Commands]
    /\ up \in [Conns -> SUBSET [command : Commands, answer : Answers]]
ClientTypes ==
    /\ link \in {0} \cup Conns /\ handled \in [Commands -> {"none"} \cup Answers]
    /\ effects \in [Commands -> Nat] /\ executed \subseteq Commands
FaultTypes == crashes \in 0 .. MaxCrashes /\ reboots \in 0 .. MaxReboots
Types ==
    RedisTypes /\ GatewayTypes /\ HandlerTypes /\ WireTypes /\ ClientTypes /\ FaultTypes

Accepted == {c \in Commands : streamId[c] # 0}

(* The ids are dense and distinct, the cursor is not ahead of them, and what   *)
(* is pending is in the stream.                                                *)
Ids ==
    /\ cursor <= Cardinality(Accepted)
    /\ \A c \in Commands : /\ streamId[c] <= Cardinality(Accepted)
                           /\ enqueue[c] = "idle" => streamId[c] = 0
    /\ \A c, d \in Accepted : streamId[c] = streamId[d] => c = d
    /\ stream \subseteq Accepted /\ pel \subseteq stream

(* Whatever is sent was accepted. *)
Carried ==
    \A k \in Conns : /\ loop[k] = "send" => got[k] \in Accepted
                     /\ down[k] \subseteq Accepted

(* An ack on its way, or being handled, is of an accepted command, and says   *)
(* ok only of one that was executed; one that is deleted has a terminal ack.  *)
Truth(m) == m.command \in Accepted /\ (m.answer = "ok" => m.command \in executed)
Answered ==
    /\ \A k \in Conns : \A m \in up[k] : Truth(m)
    /\ \A h \in Handlers : handler[h] # "idle" =>
          /\ answering[h] \in [command : Commands, answer : Answers] /\ Truth(answering[h])
          /\ handler[h] = "answer" => answering[h].answer # "busy"
          /\ handler[h] = "delete" => ackKey[answering[h].command] # "none"
    /\ \A c \in Commands : handled[c] = "ok" => c \in executed
    /\ OkMeansExecuted

Once == \A c \in Commands : effects[c] \in {0, 1} /\ (effects[c] = 1 => handled[c] # "none")

IInv == Types /\ Ids /\ Carried /\ Answered /\ Once /\ UnansweredIsReadable

-----------------------------------------------------------------------------
(* What is proved once *)

(* A set of naturals that is not empty has a least element. *)
LEMMA LeastNatural ==
  ASSUME NEW T, T \subseteq Nat, T # {}
  PROVE  \E n \in T : \A m \in T : n <= m
<1> DEFINE less == {ss \in Nat \X Nat : ss[1] < ss[2]}
<1>1. IsWellFoundedOn(less, Nat)
  BY NatLessThanWellFounded DEF OpToRel
<1>2. \A m, n \in Nat : m < n => <<m, n>> \in less
  OBVIOUS
<1> HIDE DEF less
<1>3. PICK n \in T : \A m \in T : ~(<<m, n>> \in less)
  BY <1>1, WFMin
<1>4. \A m \in T : ~(m < n)
  BY <1>2, <1>3
<1> QED BY <1>3, <1>4

(* Redis reads the oldest entry. *)
LEMMA FirstIsOldest ==
  ASSUME NEW S \in SUBSET Commands, S # {}, streamId \in [Commands -> Nat]
  PROVE  First(S) \in S /\ \A d \in S : streamId[First(S)] <= streamId[d]
<1>1. {streamId[c] : c \in S} \subseteq Nat /\ {streamId[c] : c \in S} # {}
  OBVIOUS
<1>2. PICK n \in {streamId[c] : c \in S} : \A m \in {streamId[c] : c \in S} : n <= m
  BY <1>1, LeastNatural
<1>3. \E c \in S : \A d \in S : streamId[c] <= streamId[d]
  BY <1>2
<1> QED BY <1>3 DEF First

LEMMA TypesSplit == TypeOK <=> Types
BY DEF TypeOK, Types, RedisTypes, GatewayTypes, HandlerTypes, WireTypes, ClientTypes, FaultTypes

(* What a step leaves alone *)
LEMMA IdsFrame ==
  ASSUME Ids, UNCHANGED <<streamId, cursor>>,
         stream' \subseteq stream, pel' \subseteq pel, pel' \subseteq stream',
         \A c \in Commands : enqueue'[c] = "idle" => enqueue[c] = "idle"
  PROVE  Ids'
<1>1. Accepted' = Accepted
  BY DEF Accepted
<1> QED BY <1>1 DEF Ids

LEMMA CarriedFrame ==
  ASSUME Carried, Accepted \subseteq Accepted',
         \A k \in Conns : /\ loop'[k] = "send" => loop[k] = "send" /\ got'[k] = got[k]
                          /\ down'[k] \subseteq down[k]
  PROVE  Carried'
BY DEF Carried

LEMMA AnsweredFrame ==
  ASSUME Answered, Accepted \subseteq Accepted', executed \subseteq executed',
         \A k \in Conns : up'[k] \subseteq up[k],
         \A h \in Handlers : handler'[h] = "idle" \/ UNCHANGED <<handler[h], answering[h]>>,
         \A c \in Commands : /\ handled'[c] = "ok" => handled[c] = "ok" \/ c \in executed'
                             /\ ackKey'[c] = "ok" => ackKey[c] = "ok"
                             /\ ackKey[c] # "none" => ackKey'[c] # "none",
         Accepted \subseteq Commands
  PROVE  Answered'
<1>1. \A m : Truth(m) => Truth(m)'
  BY DEF Truth
<1>2. \A k \in Conns : \A m \in up'[k] : Truth(m)'
  BY <1>1 DEF Answered
<1>3. ASSUME NEW h \in Handlers, handler'[h] # "idle"
      PROVE  /\ answering'[h] \in [command : Commands, answer : Answers] /\ Truth(answering[h])'
             /\ handler'[h] = "answer" => answering'[h].answer # "busy"
             /\ handler'[h] = "delete" => ackKey'[answering'[h].command] # "none"
  <2>1. handler'[h] = handler[h] /\ answering'[h] = answering[h]
    BY <1>3
  <2>2. /\ answering[h] \in [command : Commands, answer : Answers] /\ Truth(answering[h])
        /\ handler[h] = "answer" => answering[h].answer # "busy"
        /\ handler[h] = "delete" => ackKey[answering[h].command] # "none"
    BY <1>3, <2>1 DEF Answered
  <2>3. Truth(answering[h])'
    BY <2>1, <2>2 DEF Truth
  <2>4. answering[h].command \in Commands
    BY <2>2 DEF Truth
  <2> QED BY <2>1, <2>2, <2>3, <2>4
<1>4. (\A c \in Commands : handled'[c] = "ok" => c \in executed') /\ OkMeansExecuted'
  BY DEF Answered, OkMeansExecuted
<1> QED BY <1>2, <1>3, <1>4 DEF Answered

LEMMA OnceFrame ==
  ASSUME Once,
         \A c \in Commands :
            \/ effects'[c] = 0
            \/ effects'[c] = effects[c] /\ (handled[c] # "none" => handled'[c] # "none")
  PROVE  Once'
BY DEF Once

LEMMA ReadableFrame ==
  ASSUME UnansweredIsReadable, UNCHANGED <<streamId, cursor>>, expired \subseteq expired',
         \A c \in Commands :
            \/ ackKey'[c] # "none" \/ c \in expired'
            \/ ackKey[c] = "none" /\ (c \in stream => c \in stream') /\ (c \in pel => c \in pel')
  PROVE  UnansweredIsReadable'
BY DEF UnansweredIsReadable

-----------------------------------------------------------------------------
(* The invariant is inductive: one step per action. *)
LEMMA IInvNext == IInv /\ [Next]_vars => IInv'
<1> SUFFICES ASSUME IInv, [Next]_vars PROVE IInv'
  OBVIOUS
<1>0. /\ RedisTypes /\ GatewayTypes /\ HandlerTypes /\ WireTypes /\ ClientTypes /\ FaultTypes
      /\ Ids /\ Carried /\ Answered /\ Once /\ UnansweredIsReadable
  BY DEF IInv, Types
<1>1. /\ IsFiniteSet(Commands) /\ Mortal \subseteq Commands /\ NoCommand \notin Commands
      /\ MaxConns \in Nat /\ MaxCrashes \in Nat /\ MaxReboots \in Nat
      /\ Cardinality(Commands) \in Nat
  BY BoundsAssumption, NoCommandAssumption, FS_CardinalityType
<1>2. /\ stream \subseteq Accepted /\ pel \subseteq stream /\ Accepted \subseteq Commands
      /\ expired \subseteq Commands
      /\ streamId \in [Commands -> Nat] /\ cursor \in Nat
      /\ Cardinality(Accepted) \in Nat /\ IsFiniteSet(Accepted)
  <2>1. Accepted \subseteq Commands
    BY DEF Accepted
  <2>2. Cardinality(Accepted) \in Nat /\ IsFiniteSet(Accepted)
    BY <1>1, <2>1, FS_Subset, FS_CardinalityType
  <2> QED BY <1>0, <1>1, <2>1, <2>2 DEF Ids, RedisTypes
<1>3. \A c \in Commands : c \in Accepted <=> streamId[c] # 0
  BY DEF Accepted
(* The steps that neither enqueue, read, answer nor execute *)
<1>4. ASSUME Types', UNCHANGED <<streamId, cursor>>, expired \subseteq expired',
             stream' \subseteq stream, pel' \subseteq pel, pel' \subseteq stream',
             \A c \in Commands :
                /\ enqueue'[c] = "idle" => enqueue[c] = "idle"
                /\ ackKey'[c] = "ok" => ackKey[c] = "ok"
                /\ ackKey[c] # "none" => ackKey'[c] # "none"
                /\ \/ ackKey'[c] # "none" \/ c \in expired'
                   \/ ackKey[c] = "none" /\ (c \in stream => c \in stream') /\ (c \in pel => c \in pel')
                /\ \/ handled'[c] = handled[c] /\ effects'[c] = effects[c]
                   \/ handled'[c] = "none" /\ effects'[c] = 0,
             \A k \in Conns : /\ loop'[k] = "send" => loop[k] = "send" /\ got'[k] = got[k]
                              /\ down'[k] \subseteq down[k] /\ up'[k] \subseteq up[k],
             \A h \in Handlers : handler'[h] = "idle" \/ UNCHANGED <<handler[h], answering[h]>>,
             executed' = executed
      PROVE  IInv'
  <2>1. Accepted' = Accepted
    BY <1>4 DEF Accepted
  <2>2. Ids'
    BY <1>0, <1>4, IdsFrame
  <2>3. Carried'
    BY <1>0, <1>4, <2>1, CarriedFrame
  <2>4. Answered'
    BY <1>0, <1>2, <1>4, <2>1, AnsweredFrame
  <2>5. Once'
    <3>1. \A c \in Commands :
            \/ effects'[c] = 0
            \/ effects'[c] = effects[c] /\ (handled[c] # "none" => handled'[c] # "none")
      BY <1>4
    <3> QED BY <1>0, <3>1, OnceFrame
  <2>6. UnansweredIsReadable'
    <3>1. \A c \in Commands :
            \/ ackKey'[c] # "none" \/ c \in expired'
            \/ ackKey[c] = "none" /\ (c \in stream => c \in stream') /\ (c \in pel => c \in pel')
      BY <1>4
    <3> QED BY <1>0, <1>4, <3>1, ReadableFrame
  <2> QED BY <1>4, <2>2, <2>3, <2>4, <2>5, <2>6 DEF IInv
<1>5. ASSUME UNCHANGED <<stream, streamId, cursor, pel, entry, ackKey, expired, enqueue>>,
             \/ retry' = retry
             \/ \E c \in Commands, v \in {"none", "backoff"} : retry' = [retry EXCEPT ![c] = v]
      PROVE  RedisTypes'
  BY <1>0, <1>5 DEF RedisTypes
<1>6. ASSUME UNCHANGED gatewayVars PROVE GatewayTypes'
  BY <1>0, <1>6 DEF GatewayTypes, gatewayVars
<1>7. ASSUME UNCHANGED handlerVars PROVE HandlerTypes'
  BY <1>0, <1>7 DEF HandlerTypes, handlerVars
<1>8. ASSUME UNCHANGED wireVars PROVE WireTypes'
  BY <1>0, <1>8 DEF WireTypes, wireVars
<1>9. ASSUME UNCHANGED clientVars PROVE ClientTypes'
  BY <1>0, <1>9 DEF ClientTypes, clientVars
<1>10. ASSUME UNCHANGED faultVars PROVE FaultTypes'
  BY <1>0, <1>10 DEF FaultTypes, faultVars
(* The clean-up, and the deletion of commands that were answered or expired *)
<1>11. ASSUME Sweep, UNCHANGED <<streamId, cursor, expired>>,
              enqueue' \in [Commands -> {"idle", "added", "keyed", "done", "lost"}],
              \A c \in Commands : enqueue'[c] = "idle" => enqueue[c] = "idle"
       PROVE  /\ RedisTypes' /\ stream' \subseteq stream /\ pel' \subseteq pel /\ pel' \subseteq stream'
              /\ \A c \in Commands :
                    /\ ackKey'[c] = "ok" => ackKey[c] = "ok"
                    /\ ackKey[c] # "none" => ackKey'[c] # "none"
                    /\ \/ ackKey'[c] # "none" \/ c \in expired'
                       \/ ackKey[c] = "none" /\ (c \in stream => c \in stream')
                                             /\ (c \in pel => c \in pel')
  <2>1. /\ pel' = pel \ Lapsed /\ stream' = stream \ Lapsed /\ entry' = entry \ Lapsed
        /\ retry' = [c \in Commands |-> IF c \in Lapsed THEN "none" ELSE retry[c]]
        /\ ackKey' = [c \in Commands |-> IF c \in Lapsed THEN "expired" ELSE ackKey[c]]
    BY <1>11 DEF Sweep, Delete
  <2>2. \A c \in Commands : ackKey'[c] = IF c \in Lapsed THEN "expired" ELSE ackKey[c]
    BY <2>1
  <2>3. RedisTypes'
    <3>1. /\ retry' \in [Commands -> {"none", "backoff"}]
          /\ ackKey' \in [Commands -> {"none", "ok", "rejected", "expired"}]
      BY <1>0, <2>1 DEF RedisTypes
    <3> QED BY <1>0, <1>11, <2>1, <3>1 DEF RedisTypes
  <2> QED BY <1>2, <2>1, <2>2, <2>3
<1>12. ASSUME NEW c \in Commands, Delete({c}), UNCHANGED <<streamId, ackKey, expired, enqueue>>,
              cursor' \in 0 .. Cardinality(Commands)
       PROVE  /\ RedisTypes' /\ stream' = stream \ {c} /\ pel' = pel \ {c} /\ pel' \subseteq stream'
  <2>1. /\ pel' = pel \ {c} /\ stream' = stream \ {c} /\ entry' = entry \ {c}
        /\ retry' = [d \in Commands |-> IF d \in {c} THEN "none" ELSE retry[d]]
    BY <1>12 DEF Delete
  <2>2. retry' \in [Commands -> {"none", "backoff"}]
    BY <1>0, <2>1 DEF RedisTypes
  <2> QED BY <1>0, <1>2, <1>12, <2>1, <2>2 DEF RedisTypes

(* Time, and enqueueDeviceCommand *)
<1>21. ASSUME NEW c \in Commands, Expire(c) PROVE IInv'
  <2>1. /\ UNCHANGED <<stream, streamId, cursor, pel, entry, ackKey, retry, enqueue>>
        /\ UNCHANGED <<gatewayVars, handlerVars, wireVars, clientVars, faultVars>>
        /\ expired' = expired \cup {c} /\ c \in Mortal
    BY <1>21 DEF Expire
  <2>2. RedisTypes'
    BY <1>0, <2>1 DEF RedisTypes
  <2>3. Types'
    BY <1>6, <1>7, <1>8, <1>9, <1>10, <2>1, <2>2 DEF Types
  <2>4. /\ UNCHANGED <<loop, got, down, up, handler, answering, handled, effects, executed>>
    BY <2>1 DEF gatewayVars, handlerVars, wireVars, clientVars
  <2> QED BY <1>2, <1>4, <2>1, <2>3, <2>4
<1>22. ASSUME NEW c \in Commands, BackoffOver(c) PROVE IInv'
  <2>1. /\ UNCHANGED <<stream, streamId, cursor, pel, entry, ackKey, expired, enqueue>>
        /\ UNCHANGED <<gatewayVars, handlerVars, wireVars, clientVars, faultVars>>
        /\ retry' = [retry EXCEPT ![c] = "none"]
    BY <1>22 DEF BackoffOver
  <2>2. Types'
    BY <1>5, <1>6, <1>7, <1>8, <1>9, <1>10, <2>1 DEF Types
  <2>3. /\ UNCHANGED <<loop, got, down, up, handler, answering, handled, effects, executed>>
    BY <2>1 DEF gatewayVars, handlerVars, wireVars, clientVars
  <2> QED BY <1>2, <1>4, <2>1, <2>2, <2>3
<1>23. ASSUME NEW c \in Commands, Xadd(c) PROVE IInv'
  <2>1. /\ UNCHANGED <<cursor, pel, entry, ackKey, retry, expired>>
        /\ UNCHANGED <<gatewayVars, handlerVars, wireVars, clientVars, faultVars>>
        /\ UNCHANGED <<loop, got, down, up, handler, answering, handled, effects, executed>>
        /\ enqueue[c] = "idle" /\ enqueue' = [enqueue EXCEPT ![c] = "added"]
        /\ stream' = stream \cup {c}
        /\ streamId' = [streamId EXCEPT ![c] = 1 + Cardinality(Accepted)]
    BY <1>23 DEF Xadd, Accepted, gatewayVars, handlerVars, wireVars, clientVars
  <2>2. c \notin Accepted
    BY <1>0, <1>3, <2>1 DEF Ids
  <2>3. /\ streamId'[c] = 1 + Cardinality(Accepted)
        /\ \A d \in Commands : d # c => streamId'[d] = streamId[d]
        /\ enqueue'[c] = "added" /\ \A d \in Commands : d # c => enqueue'[d] = enqueue[d]
    BY <1>0, <2>1 DEF RedisTypes
  <2>4. Accepted' = Accepted \cup {c}
    BY <1>2, <2>3 DEF Accepted
  <2>5. Cardinality(Accepted') = Cardinality(Accepted) + 1
    BY <1>2, <2>2, <2>4, FS_AddElement
  <2>6. Cardinality(Accepted') <= Cardinality(Commands)
    BY <1>1, <1>2, <2>4, FS_Subset
  <2>7. RedisTypes'
    <3>1. 1 + Cardinality(Accepted) \in 0 .. Cardinality(Commands)
      BY <1>1, <1>2, <2>5, <2>6
    <3> QED BY <1>0, <2>1, <3>1 DEF RedisTypes
  <2>8. Types'
    BY <1>6, <1>7, <1>8, <1>9, <1>10, <2>1, <2>7 DEF Types
  <2>9. Ids'
    <3>1. /\ cursor' <= Cardinality(Accepted')
          /\ \A d \in Commands : /\ streamId'[d] <= Cardinality(Accepted')
                                 /\ enqueue'[d] = "idle" => streamId'[d] = 0
      BY <1>0, <1>2, <2>1, <2>3, <2>5 DEF Ids
    <3>2. \A d \in Accepted : streamId[d] <= Cardinality(Accepted) /\ streamId[d] \in Nat
      BY <1>0, <1>2 DEF Ids
    <3>3. \A d, e \in Accepted' : streamId'[d] = streamId'[e] => d = e
      <4> SUFFICES ASSUME NEW d \in Accepted', NEW e \in Accepted', streamId'[d] = streamId'[e], d # e
                   PROVE  FALSE
        OBVIOUS
      <4>1. CASE d # c /\ e # c
        BY <1>0, <1>2, <2>3, <2>4, <4>1 DEF Ids
      <4>2. CASE d = c
        BY <1>2, <2>3, <2>4, <3>2, <4>2
      <4>3. CASE e = c
        BY <1>2, <2>3, <2>4, <3>2, <4>3
      <4> QED BY <4>1, <4>2, <4>3
    <3>4. stream' \subseteq Accepted' /\ pel' \subseteq stream'
      BY <1>2, <2>1, <2>4
    <3> QED BY <3>1, <3>3, <3>4 DEF Ids
  <2>10. Carried'
    BY <1>0, <2>1, <2>4, CarriedFrame
  <2>11. Answered'
    BY <1>0, <1>2, <2>1, <2>4, AnsweredFrame
  <2>12. Once'
    BY <1>0, <2>1, OnceFrame
  <2>13. UnansweredIsReadable'
    <3>1. streamId'[c] > cursor'
      BY <1>0, <1>2, <2>1, <2>3 DEF Ids
    <3> QED BY <1>0, <2>1, <2>3, <3>1 DEF UnansweredIsReadable
  <2> QED BY <2>8, <2>9, <2>10, <2>11, <2>12, <2>13 DEF IInv
<1>24. ASSUME NEW c \in Commands, SetEntry(c) PROVE IInv'
  <2>1. /\ UNCHANGED <<stream, streamId, cursor, pel, ackKey, retry, expired>>
        /\ UNCHANGED <<gatewayVars, handlerVars, wireVars, clientVars, faultVars>>
        /\ UNCHANGED <<loop, got, down, up, handler, answering, handled, effects, executed>>
        /\ enqueue' = [enqueue EXCEPT ![c] = "keyed"] /\ entry' = entry \cup {c}
    BY <1>24 DEF SetEntry, gatewayVars, handlerVars, wireVars, clientVars
  <2>2. RedisTypes' /\ \A d \in Commands : enqueue'[d] = "idle" => enqueue[d] = "idle"
    BY <1>0, <2>1 DEF RedisTypes
  <2>3. Types'
    BY <1>6, <1>7, <1>8, <1>9, <1>10, <2>1, <2>2 DEF Types
  <2> QED BY <1>2, <1>4, <2>1, <2>2, <2>3
<1>25. ASSUME NEW c \in Commands, EnqueueSweep(c) PROVE IInv'
  <2>1. /\ UNCHANGED <<streamId, cursor, expired>> /\ Sweep
        /\ UNCHANGED <<gatewayVars, handlerVars, wireVars, clientVars, faultVars>>
        /\ UNCHANGED <<loop, got, down, up, handler, answering, handled, effects, executed>>
        /\ enqueue' = [enqueue EXCEPT ![c] = "done"]
    BY <1>25 DEF EnqueueSweep, gatewayVars, handlerVars, wireVars, clientVars
  <2>2. /\ enqueue' \in [Commands -> {"idle", "added", "keyed", "done", "lost"}]
        /\ \A d \in Commands : enqueue'[d] = "idle" => enqueue[d] = "idle"
    BY <1>0, <2>1 DEF RedisTypes
  <2>3. Types'
    BY <1>6, <1>7, <1>8, <1>9, <1>10, <1>11, <2>1, <2>2 DEF Types
  <2> QED BY <1>4, <1>11, <2>1, <2>2, <2>3

(* The gateway loop *)
<1>30. ASSUME NEW k \in Conns, NEW l \in {"none", "hello", "top", "read", "pel", "sweep", "new", "over"},
              Goto(k, l)
       PROVE  /\ loop' \in [Conns -> {"none", "hello", "top", "read", "pel", "sweep", "new", "send",
                                      "over"}]
              /\ \A j \in Conns : loop'[j] = "send" => loop[j] = "send" /\ j # k
  BY <1>0, <1>30 DEF Goto, GatewayTypes
<1>31. ASSUME NEW k \in Conns, HelloDone(k) \/ LoopEnds(k) PROVE IInv'
  <2>1. /\ UNCHANGED redisVars /\ UNCHANGED <<enqueue, sock>>
        /\ UNCHANGED <<handlerVars, wireVars, clientVars, faultVars>>
        /\ UNCHANGED <<stream, streamId, cursor, pel, entry, ackKey, retry, expired>>
        /\ UNCHANGED <<down, up, handler, answering, handled, effects, executed>>
        /\ current' \in {current, k} /\ inFlight' \in {inFlight, NoCommand}
        /\ got' \in {got, [got EXCEPT ![k] = NoCommand]}
        /\ \E l \in {"top", "over"} : Goto(k, l)
    BY <1>31 DEF HelloDone, LoopEnds, redisVars, handlerVars, wireVars, clientVars
  <2>2. /\ loop' \in [Conns -> {"none", "hello", "top", "read", "pel", "sweep", "new", "send", "over"}]
        /\ \A j \in Conns : loop'[j] = "send" => loop[j] = "send" /\ j # k
    BY <1>30, <2>1
  <2>3. /\ \A j \in Conns : j # k => got'[j] = got[j]
        /\ GatewayTypes'
    BY <1>0, <2>1, <2>2 DEF GatewayTypes
  <2>4. Types'
    BY <1>5, <1>7, <1>8, <1>9, <1>10, <2>1, <2>3 DEF Types
  <2> QED BY <1>2, <1>4, <2>1, <2>2, <2>3, <2>4
<1>32. ASSUME NEW k \in Conns, StartReading(k) \/ SweepAgain(k) PROVE IInv'
  <2>1. /\ UNCHANGED <<streamId, cursor, expired, enqueue>> /\ Sweep
        /\ UNCHANGED <<handlerVars, wireVars, clientVars, faultVars>>
        /\ UNCHANGED <<sock, got, current, inFlight>>
        /\ UNCHANGED <<down, up, handler, answering, handled, effects, executed>>
        /\ \E l \in {"pel", "new"} : Goto(k, l)
    BY <1>32 DEF StartReading, SweepAgain, handlerVars, wireVars, clientVars
  <2>2. /\ loop' \in [Conns -> {"none", "hello", "top", "read", "pel", "sweep", "new", "send", "over"}]
        /\ \A j \in Conns : loop'[j] = "send" => loop[j] = "send" /\ j # k
    BY <1>30, <2>1
  <2>3. GatewayTypes' /\ enqueue' \in [Commands -> {"idle", "added", "keyed", "done", "lost"}]
    BY <1>0, <2>1, <2>2 DEF GatewayTypes, RedisTypes
  <2>4. Types'
    BY <1>7, <1>8, <1>9, <1>10, <1>11, <2>1, <2>3 DEF Types
  <2> QED BY <1>4, <1>11, <2>1, <2>2, <2>3, <2>4
<1>33. ASSUME NEW k \in Conns, AckTimeout(k) \/ SendFails(k) PROVE IInv'
  <2>1. /\ UNCHANGED <<stream, streamId, cursor, pel, entry, ackKey, expired, enqueue>>
        /\ UNCHANGED <<handlerVars, wireVars, clientVars, faultVars>>
        /\ UNCHANGED <<sock, current>>
        /\ UNCHANGED <<down, up, handler, answering, handled, effects, executed>>
        /\ inFlight' \in {inFlight, NoCommand} /\ got' \in {got, [got EXCEPT ![k] = NoCommand]}
        /\ \E l \in {"read", "over"} : Goto(k, l)
    BY <1>33 DEF AckTimeout, SendFails, handlerVars, wireVars, clientVars
  <2>2. /\ loop' \in [Conns -> {"none", "hello", "top", "read", "pel", "sweep", "new", "send", "over"}]
        /\ \A j \in Conns : loop'[j] = "send" => loop[j] = "send" /\ j # k
    BY <1>30, <2>1
  <2>3. /\ \A j \in Conns : j # k => got'[j] = got[j]
        /\ GatewayTypes'
    BY <1>0, <2>1, <2>2 DEF GatewayTypes
  <2>4. \E c \in Commands : retry' = [retry EXCEPT ![c] = "backoff"]
    <3>1. CASE AckTimeout(k)
      BY <1>0, <3>1 DEF AckTimeout, ScheduleRetry, GatewayTypes
    <3>2. CASE SendFails(k)
      BY <1>0, <1>2, <3>2 DEF SendFails, ScheduleRetry, Carried
    <3> QED BY <1>33, <3>1, <3>2
  <2>5. Types'
    BY <1>5, <1>7, <1>8, <1>9, <1>10, <2>1, <2>3, <2>4 DEF Types
  <2> QED BY <1>2, <1>4, <2>1, <2>2, <2>3, <2>5
(* What nextReadableCommands makes of the command c it has read *)
<1>34. ASSUME NEW k \in Conns, NEW c \in Accepted, NEW l \in {"sweep", "top"},
              Take(k, c, l) \/ DropExpired(k, c, l)
       PROVE  /\ loop' \in [Conns -> {"none", "hello", "top", "read", "pel", "sweep", "new", "send",
                                      "over"}]
              /\ got' \in [Conns -> Commands \cup {NoCommand}]
              /\ \A j \in Conns : loop'[j] = "send" => got'[j] = c \/ (loop[j] = "send" /\ got'[j] = got[j])
  <2>1. \/ got' = [got EXCEPT ![k] = c] /\ loop' = [loop EXCEPT ![k] = "send"]
        \/ got' = got /\ loop' = [loop EXCEPT ![k] = l]
    BY <1>34 DEF Take, DropExpired, Goto
  <2>2. c \in Commands
    BY <1>2
  <2>3. CASE got' = [got EXCEPT ![k] = c] /\ loop' = [loop EXCEPT ![k] = "send"]
    <3>1. \A j \in Conns : /\ j # k => loop'[j] = loop[j] /\ got'[j] = got[j]
                           /\ j = k => got'[j] = c
      BY <1>0, <2>2, <2>3 DEF GatewayTypes
    <3> QED BY <1>0, <2>2, <2>3, <3>1 DEF GatewayTypes
  <2>4. CASE got' = got /\ loop' = [loop EXCEPT ![k] = l]
    BY <1>0, <2>4 DEF GatewayTypes
  <2> QED BY <2>1, <2>3, <2>4
<1>35. ASSUME NEW k \in Conns, ReadPending(k) PROVE IInv'
  <2>1. /\ UNCHANGED <<streamId, cursor, ackKey, expired, enqueue, sock, current, inFlight>>
        /\ UNCHANGED <<handlerVars, wireVars, clientVars, faultVars>>
        /\ UNCHANGED <<down, up, handler, answering, handled, effects, executed>>
    BY <1>35 DEF ReadPending, handlerVars, wireVars, clientVars
  <2>2. CASE pel = {}
    <3>1. UNCHANGED <<stream, entry, retry, got, pel>> /\ Goto(k, "sweep")
      BY <1>35, <2>2 DEF ReadPending
    <3>2. /\ loop' \in [Conns -> {"none", "hello", "top", "read", "pel", "sweep", "new", "send", "over"}]
          /\ \A j \in Conns : loop'[j] = "send" => loop[j] = "send" /\ j # k
      BY <1>30, <3>1
    <3>3. GatewayTypes'
      BY <1>0, <2>1, <3>1, <3>2 DEF GatewayTypes
    <3>4. Types'
      BY <1>5, <1>7, <1>8, <1>9, <1>10, <2>1, <3>1, <3>3 DEF Types
    <3> QED BY <1>2, <1>4, <2>1, <3>1, <3>2, <3>4
  <2>3. CASE pel # {}
    <3>1. PICK c \in pel : c = First(pel)
      <4>1. pel \in SUBSET Commands
        BY <1>2
      <4> QED BY <1>2, <2>3, <4>1, FirstIsOldest
    <3>2. \/ Take(k, c, "sweep") /\ UNCHANGED pel
          \/ DropExpired(k, c, "sweep")
      BY <1>35, <2>3, <3>1 DEF ReadPending
    <3>3. c \in Accepted /\ c \in Commands
      BY <1>2
    <3>4. /\ loop' \in [Conns -> {"none", "hello", "top", "read", "pel", "sweep", "new", "send", "over"}]
          /\ got' \in [Conns -> Commands \cup {NoCommand}]
          /\ \A j \in Conns : loop'[j] = "send" => got'[j] = c \/ (loop[j] = "send" /\ got'[j] = got[j])
      BY <1>34, <3>2, <3>3
    <3>5. GatewayTypes'
      BY <1>0, <2>1, <3>4 DEF GatewayTypes
    <3>6. /\ RedisTypes' /\ stream' \subseteq stream /\ pel' \subseteq pel /\ pel' \subseteq stream'
          /\ \A d \in Commands : \/ d \in expired
                                 \/ (d \in stream => d \in stream') /\ (d \in pel => d \in pel')
      <4>1. CASE Take(k, c, "sweep") /\ UNCHANGED pel
        BY <1>2, <1>5, <2>1, <4>1 DEF Take
      <4>2. CASE DropExpired(k, c, "sweep")
        <5>1. Delete({c}) /\ c \in expired /\ cursor' \in 0 .. Cardinality(Commands)
          BY <1>0, <2>1, <4>2 DEF DropExpired, RedisTypes
        <5>2. RedisTypes' /\ stream' = stream \ {c} /\ pel' = pel \ {c} /\ pel' \subseteq stream'
          BY <1>12, <2>1, <3>3, <5>1
        <5> QED BY <5>1, <5>2
      <4> QED BY <3>2, <4>1, <4>2
    <3>7. Types'
      BY <1>7, <1>8, <1>9, <1>10, <2>1, <3>5, <3>6 DEF Types
    <3>8. Ids'
      BY <1>0, <2>1, <3>6, IdsFrame
    <3>9. Accepted' = Accepted
      BY <2>1 DEF Accepted
    <3>10. Carried'
      BY <1>0, <2>1, <3>3, <3>4, <3>9 DEF Carried
    <3>11. Answered' /\ Once'
      BY <1>0, <1>2, <2>1, <3>9, AnsweredFrame, OnceFrame
    <3>12. UnansweredIsReadable'
      BY <1>0, <2>1, <3>6 DEF UnansweredIsReadable
    <3> QED BY <3>7, <3>8, <3>10, <3>11, <3>12 DEF IInv
  <2> QED BY <2>2, <2>3
<1>36. ASSUME NEW k \in Conns, ReadNew(k) PROVE IInv'
  <2>1. /\ UNCHANGED <<streamId, ackKey, expired, enqueue, sock, current, inFlight>>
        /\ UNCHANGED <<handlerVars, wireVars, clientVars, faultVars>>
        /\ UNCHANGED <<down, up, handler, answering, handled, effects, executed>>
    BY <1>36 DEF ReadNew, handlerVars, wireVars, clientVars
  <2>2. CASE Undelivered = {}
    <3>1. UNCHANGED <<stream, entry, retry, got, pel, cursor>> /\ Goto(k, "top")
      BY <1>36, <2>2 DEF ReadNew
    <3>2. /\ loop' \in [Conns -> {"none", "hello", "top", "read", "pel", "sweep", "new", "send", "over"}]
          /\ \A j \in Conns : loop'[j] = "send" => loop[j] = "send" /\ j # k
      BY <1>30, <3>1
    <3>3. GatewayTypes'
      BY <1>0, <2>1, <3>1, <3>2 DEF GatewayTypes
    <3>4. Types'
      BY <1>5, <1>7, <1>8, <1>9, <1>10, <2>1, <3>1, <3>3 DEF Types
    <3> QED BY <1>2, <1>4, <2>1, <3>1, <3>2, <3>4
  <2>3. CASE Undelivered # {}
    <3>1. PICK c \in Undelivered : /\ c = First(Undelivered)
                                   /\ \A d \in Undelivered : streamId[c] <= streamId[d]
      <4>1. Undelivered \in SUBSET Commands
        BY <1>2 DEF Undelivered
      <4> QED BY <1>2, <2>3, <4>1, FirstIsOldest
    <3>2. /\ cursor' = streamId[c]
          /\ \/ Take(k, c, "top") /\ pel' = pel \cup {c}
             \/ DropExpired(k, c, "top")
      BY <1>36, <2>3, <3>1 DEF ReadNew
    <3>3. c \in Accepted /\ c \in Commands /\ c \in stream
      BY <1>2 DEF Undelivered
    <3>4. /\ loop' \in [Conns -> {"none", "hello", "top", "read", "pel", "sweep", "new", "send", "over"}]
          /\ got' \in [Conns -> Commands \cup {NoCommand}]
          /\ \A j \in Conns : loop'[j] = "send" => got'[j] = c \/ (loop[j] = "send" /\ got'[j] = got[j])
      BY <1>34, <3>2, <3>3
    <3>5. GatewayTypes'
      BY <1>0, <2>1, <3>4 DEF GatewayTypes
    <3>6. cursor' \in 0 .. Cardinality(Commands) /\ cursor' <= Cardinality(Accepted)
      BY <1>0, <3>2, <3>3 DEF RedisTypes, Ids
    <3>7. /\ RedisTypes' /\ stream' \subseteq stream /\ pel' \subseteq stream'
          /\ \A d \in Commands : \/ d \in expired
                                 \/ (d \in stream => d \in stream') /\ (d \in pel \cup {c} => d \in pel')
      <4>1. CASE Take(k, c, "top") /\ pel' = pel \cup {c}
        <5>1. UNCHANGED <<stream, entry, retry>>
          BY <4>1 DEF Take
        <5> QED BY <1>0, <1>2, <2>1, <3>3, <3>6, <4>1, <5>1 DEF RedisTypes
      <4>2. CASE DropExpired(k, c, "top")
        <5>1. Delete({c}) /\ c \in expired
          BY <4>2 DEF DropExpired
        <5>2. RedisTypes' /\ stream' = stream \ {c} /\ pel' = pel \ {c} /\ pel' \subseteq stream'
          BY <1>12, <2>1, <3>3, <3>6, <5>1
        <5> QED BY <5>1, <5>2
      <4> QED BY <3>2, <4>1, <4>2
    <3>8. Types'
      BY <1>7, <1>8, <1>9, <1>10, <2>1, <3>5, <3>7 DEF Types
    <3>9. Accepted' = Accepted
      BY <2>1 DEF Accepted
    <3>10. Ids'
      BY <1>0, <1>2, <2>1, <3>6, <3>7, <3>9 DEF Ids
    <3>11. Carried'
      BY <1>0, <2>1, <3>3, <3>4, <3>9 DEF Carried
    <3>12. Answered' /\ Once'
      BY <1>0, <1>2, <2>1, <3>9, AnsweredFrame, OnceFrame
    <3>13. UnansweredIsReadable'
      <4> SUFFICES ASSUME NEW d \in Commands, streamId'[d] # 0, ackKey'[d] = "none", d \notin expired'
                   PROVE  d \in stream' /\ (d \in pel' \/ streamId'[d] > cursor')
        BY DEF UnansweredIsReadable
      <4>1. d \in stream /\ (d \in pel \/ streamId[d] > cursor) /\ d \in Accepted
        BY <1>0, <1>3, <2>1 DEF UnansweredIsReadable
      <4>2. CASE d \in pel \cup {c}
        BY <2>1, <3>7, <4>1, <4>2
      <4>3. CASE d \notin pel \cup {c}
        <5>1. d \in Undelivered /\ streamId[c] <= streamId[d] /\ streamId[c] # streamId[d]
          BY <1>0, <3>1, <3>3, <4>1, <4>3 DEF Undelivered, Ids
        <5> QED BY <1>2, <2>1, <3>2, <3>3, <3>7, <4>1, <5>1
      <4> QED BY <4>2, <4>3
    <3> QED BY <3>8, <3>10, <3>11, <3>12, <3>13 DEF IInv
  <2> QED BY <2>2, <2>3
<1>37. ASSUME NEW k \in Conns, Send(k) PROVE IInv'
  <2>1. /\ UNCHANGED redisVars /\ UNCHANGED <<enqueue, sock, current, up>>
        /\ UNCHANGED <<handlerVars, clientVars, faultVars>>
        /\ UNCHANGED <<stream, streamId, cursor, pel, entry, ackKey, retry, expired>>
        /\ UNCHANGED <<handler, answering, handled, effects, executed>>
        /\ loop[k] = "send" /\ Goto(k, "top") /\ inFlight' = got[k]
        /\ got' = [got EXCEPT ![k] = NoCommand]
        /\ down' \in {down, [down EXCEPT ![k] = @ \cup {got[k]}]}
    BY <1>37 DEF Send, redisVars, handlerVars, clientVars
  <2>2. /\ loop' \in [Conns -> {"none", "hello", "top", "read", "pel", "sweep", "new", "send", "over"}]
        /\ \A j \in Conns : loop'[j] = "send" => loop[j] = "send" /\ j # k
    BY <1>30, <2>1
  <2>3. got[k] \in Accepted /\ got[k] \in Commands
    BY <1>0, <1>2, <2>1 DEF Carried
  <2>4. GatewayTypes' /\ \A j \in Conns : j # k => got'[j] = got[j]
    BY <1>0, <2>1, <2>2, <2>3 DEF GatewayTypes
  <2>5. WireTypes' /\ \A j \in Conns : down'[j] \subseteq down[j] \cup {got[k]}
    BY <1>0, <2>1, <2>3 DEF WireTypes
  <2>6. Types'
    BY <1>5, <1>7, <1>9, <1>10, <2>1, <2>4, <2>5 DEF Types
  <2>7. Accepted' = Accepted
    BY <2>1 DEF Accepted
  <2>8. Carried'
    BY <1>0, <2>2, <2>3, <2>4, <2>5, <2>7 DEF Carried
  <2>9. Ids' /\ Answered' /\ Once' /\ UnansweredIsReadable'
    BY <1>0, <1>2, <2>1, <2>7, IdsFrame, AnsweredFrame, OnceFrame, ReadableFrame
  <2> QED BY <2>6, <2>8, <2>9 DEF IInv
<1>38. ASSUME NEW k \in Conns, ServerClose(k) \/ Connect(k) PROVE IInv'
  <2>1. /\ UNCHANGED redisVars /\ UNCHANGED <<enqueue, got>>
        /\ UNCHANGED <<handlerVars, wireVars, faultVars>>
        /\ UNCHANGED <<stream, streamId, cursor, pel, entry, ackKey, retry, expired>>
        /\ UNCHANGED <<down, up, handler, answering, handled, effects, executed>>
        /\ sock' \in {[sock EXCEPT ![k] = "closed"], [sock EXCEPT ![k] = "open"]}
        /\ loop' \in {loop, [loop EXCEPT ![k] = "hello"]}
        /\ current' \in {current, 0} /\ inFlight' \in {inFlight, NoCommand} /\ link' \in {link, k}
    BY <1>38 DEF ServerClose, Connect, redisVars, handlerVars, wireVars, clientVars
  <2>2. GatewayTypes' /\ \A j \in Conns : loop'[j] = "send" => loop[j] = "send"
    BY <1>0, <2>1 DEF GatewayTypes
  <2>3. ClientTypes'
    BY <1>0, <2>1 DEF ClientTypes
  <2>4. Types'
    BY <1>5, <1>7, <1>8, <1>10, <2>1, <2>2, <2>3 DEF Types
  <2> QED BY <1>2, <1>4, <2>1, <2>2, <2>4

(* The handler of device.command.ack *)
<1>40. ASSUME NEW h \in Handlers,
              NEW l \in {"idle", "entry", "retry", "answer", "delete", "outcome"}, HandlerGoto(h, l)
       PROVE  /\ handler' \in [Handlers -> {"idle", "entry", "retry", "answer", "delete", "outcome"}]
              /\ answering' \in [Handlers -> [command : Commands, answer : Answers] \cup {NoAnswer}]
              /\ \A g \in Handlers \ {h} : UNCHANGED <<handler[g], answering[g]>>
              /\ handler'[h] = l /\ (l # "idle" => answering'[h] = answering[h])
  BY <1>0, <1>40 DEF HandlerGoto, HandlerTypes
<1>41. ASSUME NEW h \in Handlers, handler[h] # "idle",
              NEW l \in {"idle", "retry", "answer", "delete", "outcome"}, HandlerGoto(h, l),
              UNCHANGED <<streamId, up, handled, executed>>,
              \A c \in Commands : /\ ackKey'[c] = "ok" => c \in executed
                                  /\ ackKey[c] # "none" => ackKey'[c] # "none",
              l = "answer" => answering[h].answer # "busy",
              l = "delete" => ackKey'[answering[h].command] # "none"
       PROVE  Answered'
  <2>1. /\ \A g \in Handlers \ {h} : UNCHANGED <<handler[g], answering[g]>>
        /\ handler'[h] = l /\ (l # "idle" => answering'[h] = answering[h])
    BY <1>40, <1>41
  <2>2. Accepted' = Accepted
    BY <1>41 DEF Accepted
  <2>3. ASSUME NEW g \in Handlers, handler'[g] # "idle"
        PROVE  /\ answering'[g] \in [command : Commands, answer : Answers] /\ Truth(answering[g])'
               /\ handler'[g] = "answer" => answering'[g].answer # "busy"
               /\ handler'[g] = "delete" => ackKey'[answering'[g].command] # "none"
    <3>1. /\ answering[g] \in [command : Commands, answer : Answers] /\ Truth(answering[g])
          /\ handler[g] = "answer" => answering[g].answer # "busy"
          /\ handler[g] = "delete" => ackKey[answering[g].command] # "none"
      BY <1>0, <1>41, <2>1, <2>3 DEF Answered
    <3>2. answering'[g] = answering[g] /\ answering[g].command \in Commands
      BY <2>1, <2>3, <3>1
    <3>3. Truth(answering[g])'
      BY <1>41, <2>2, <3>1, <3>2 DEF Truth
    <3> QED BY <1>41, <2>1, <3>1, <3>2, <3>3
  <2>4. (\A c \in Commands : handled'[c] = "ok" => c \in executed') /\ OkMeansExecuted'
    BY <1>0, <1>41 DEF Answered, OkMeansExecuted
  <2>5. \A k \in Conns : \A m \in up'[k] : Truth(m)'
    BY <1>0, <1>41, <2>2 DEF Answered, Truth
  <2> QED BY <2>3, <2>4, <2>5 DEF Answered
(* Its steps leave what was read, and what the desktop did, alone. *)
<1>42. ASSUME RedisTypes', HandlerTypes', Answered', UNCHANGED <<streamId, cursor, enqueue, expired>>,
              UNCHANGED <<gatewayVars, wireVars, clientVars, faultVars>>,
              stream' \subseteq stream, pel' \subseteq pel, pel' \subseteq stream',
              \A d \in Commands : \/ ackKey'[d] # "none"
                                  \/ ackKey[d] = "none" /\ (d \in stream => d \in stream')
                                                        /\ (d \in pel => d \in pel')
       PROVE  IInv'
  <2>1. UNCHANGED <<loop, got, down, handled, effects>>
    BY <1>42 DEF gatewayVars, wireVars, clientVars
  <2>2. Types'
    BY <1>6, <1>8, <1>9, <1>10, <1>42 DEF Types
  <2>3. Accepted' = Accepted
    BY <1>42 DEF Accepted
  <2>4. Ids'
    BY <1>0, <1>42, IdsFrame
  <2>5. Carried' /\ Once'
    BY <1>0, <2>1, <2>3, CarriedFrame, OnceFrame
  <2>6. UnansweredIsReadable'
    BY <1>0, <1>42, ReadableFrame
  <2> QED BY <1>42, <2>2, <2>4, <2>5, <2>6 DEF IInv
<1>43. ASSUME NEW h \in Handlers, GetEntry(h) \/ RetryLater(h) \/ ApplyOutcome(h) PROVE IInv'
  <2>1. /\ UNCHANGED <<stream, streamId, cursor, pel, entry, ackKey, expired, enqueue>>
        /\ UNCHANGED <<gatewayVars, wireVars, clientVars, faultVars>>
        /\ UNCHANGED <<up, handled, executed>> /\ handler[h] # "idle"
    BY <1>43 DEF GetEntry, RetryLater, ApplyOutcome, redisVars, wireVars, clientVars
  <2>2. answering[h] \in [command : Commands, answer : Answers]
    BY <1>0, <2>1 DEF Answered
  <2>3. PICK l \in {"idle", "retry", "answer"} :
           HandlerGoto(h, l) /\ (l = "answer" => answering[h].answer # "busy")
    BY <1>43 DEF GetEntry, RetryLater, ApplyOutcome
  <2>4. RedisTypes'
    <3>1. CASE RetryLater(h)
      BY <1>5, <2>1, <2>2, <3>1 DEF RetryLater, ScheduleRetry
    <3>2. CASE GetEntry(h) \/ ApplyOutcome(h)
      BY <1>5, <2>1, <3>2 DEF GetEntry, ApplyOutcome, redisVars
    <3> QED BY <1>43, <3>1, <3>2
  <2>5. applied' \subseteq Commands
    BY <1>0, <1>43, <2>2 DEF GetEntry, RetryLater, ApplyOutcome, HandlerTypes
  <2>6. HandlerTypes'
    BY <1>40, <2>3, <2>5 DEF HandlerTypes
  <2>7. Answered'
    <3>1. \A c \in Commands : ackKey[c] = "ok" => c \in executed
      BY <1>0 DEF Answered, OkMeansExecuted
    <3> QED BY <1>41, <2>1, <2>3, <3>1
  <2> QED BY <1>2, <1>42, <2>1, <2>4, <2>6, <2>7
<1>44. ASSUME NEW h \in Handlers, SetTerminalAck(h) PROVE IInv'
  <2>1. /\ UNCHANGED <<stream, streamId, cursor, pel, entry, retry, expired, enqueue, applied>>
        /\ UNCHANGED <<gatewayVars, wireVars, clientVars, faultVars>>
        /\ UNCHANGED <<up, handled, executed>> /\ handler[h] = "answer"
        /\ HandlerGoto(h, "delete")
        /\ ackKey' = [ackKey EXCEPT ![answering[h].command] = answering[h].answer]
    BY <1>44 DEF SetTerminalAck, SetAck, redisVars, wireVars, clientVars
  <2>2. /\ answering[h] \in [command : Commands, answer : Answers]
        /\ answering[h].answer # "busy" /\ Truth(answering[h])
    BY <1>0, <2>1 DEF Answered
  <2>3. PICK c \in Commands, a \in {"ok", "rejected"} :
           c = answering[h].command /\ a = answering[h].answer
    BY <2>2 DEF Answers
  <2>4. /\ ackKey'[c] = a /\ \A d \in Commands \ {c} : ackKey'[d] = ackKey[d]
        /\ RedisTypes'
    BY <1>0, <2>1, <2>3 DEF RedisTypes
  <2>5. HandlerTypes'
    BY <1>0, <1>40, <2>1 DEF HandlerTypes
  <2>6. \A d \in Commands : /\ ackKey'[d] = "ok" => d \in executed
                            /\ ackKey[d] # "none" => ackKey'[d] # "none"
    BY <1>0, <2>2, <2>3, <2>4 DEF Answered, OkMeansExecuted, Truth
  <2>7. Answered'
    BY <1>41, <2>1, <2>3, <2>4, <2>6
  <2> QED BY <1>2, <1>42, <2>1, <2>3, <2>4, <2>5, <2>7
<1>45. ASSUME NEW h \in Handlers, DeleteStreamEntry(h) PROVE IInv'
  <2>1. /\ UNCHANGED <<streamId, cursor, ackKey, expired, enqueue, applied>>
        /\ UNCHANGED <<gatewayVars, wireVars, clientVars, faultVars>>
        /\ UNCHANGED <<up, handled, executed>> /\ handler[h] = "delete"
        /\ HandlerGoto(h, "outcome") /\ Delete({answering[h].command})
    BY <1>45 DEF DeleteStreamEntry, wireVars, clientVars
  <2>2. PICK c \in Commands : c = answering[h].command /\ ackKey[c] # "none"
    BY <1>0, <2>1 DEF Answered
  <2>3. RedisTypes' /\ stream' = stream \ {c} /\ pel' = pel \ {c} /\ pel' \subseteq stream'
    <3>1. cursor' \in 0 .. Cardinality(Commands)
      BY <1>0, <2>1 DEF RedisTypes
    <3> QED BY <1>12, <2>1, <2>2, <3>1
  <2>4. HandlerTypes'
    BY <1>0, <1>40, <2>1 DEF HandlerTypes
  <2>5. Answered'
    <3>1. \A d \in Commands : ackKey[d] = "ok" => d \in executed
      BY <1>0 DEF Answered, OkMeansExecuted
    <3> QED BY <1>41, <2>1, <3>1
  <2>6. \A d \in Commands : \/ ackKey'[d] # "none"
                            \/ ackKey[d] = "none" /\ (d \in stream => d \in stream')
                                                  /\ (d \in pel => d \in pel')
    BY <2>1, <2>2, <2>3
  <2> QED BY <1>42, <2>1, <2>3, <2>4, <2>5, <2>6
<1>46. ASSUME NEW h \in Handlers, NEW k \in Conns, NEW m \in up[k], AckReceived(h, k, m) PROVE IInv'
  <2>1. /\ UNCHANGED redisVars /\ UNCHANGED <<enqueue, sock, loop, got, current, applied, down>>
        /\ UNCHANGED <<clientVars, faultVars>>
        /\ UNCHANGED <<stream, streamId, cursor, pel, entry, ackKey, retry, expired>>
        /\ UNCHANGED <<handled, effects, executed>>
        /\ inFlight' \in {inFlight, NoCommand} /\ up' = [up EXCEPT ![k] = @ \ {m}]
        /\ handler[h] = "idle"
        /\ \/ UNCHANGED <<handler, answering>>
           \/ /\ handler' = [handler EXCEPT ![h] = "entry"]
              /\ answering' = [answering EXCEPT ![h] = m]
    BY <1>46 DEF AckReceived, ClearInFlight, redisVars, clientVars
  <2>2. m \in [command : Commands, answer : Answers] /\ Truth(m)
    BY <1>0 DEF WireTypes, Answered
  <2>3. WireTypes' /\ \A j \in Conns : up'[j] \subseteq up[j]
    BY <1>0, <2>1 DEF WireTypes
  <2>4. GatewayTypes'
    BY <1>0, <2>1 DEF GatewayTypes
  <2>5. /\ HandlerTypes'
        /\ \A g \in Handlers : \/ UNCHANGED <<handler[g], answering[g]>>
                               \/ handler'[g] = "entry" /\ answering'[g] = m
    BY <1>0, <2>1, <2>2 DEF HandlerTypes
  <2>6. Types'
    BY <1>5, <1>9, <1>10, <2>1, <2>3, <2>4, <2>5 DEF Types
  <2>7. Accepted' = Accepted
    BY <2>1 DEF Accepted
  <2>8. Answered'
    <3>1. \A n : Truth(n)' <=> Truth(n)
      BY <2>1, <2>7 DEF Truth
    <3>2. ASSUME NEW g \in Handlers, handler'[g] # "idle"
          PROVE  /\ answering'[g] \in [command : Commands, answer : Answers] /\ Truth(answering[g])'
                 /\ handler'[g] = "answer" => answering'[g].answer # "busy"
                 /\ handler'[g] = "delete" => ackKey'[answering'[g].command] # "none"
      <4>1. CASE UNCHANGED <<handler[g], answering[g]>>
        <5>1. /\ answering[g] \in [command : Commands, answer : Answers] /\ Truth(answering[g])
              /\ handler[g] = "answer" => answering[g].answer # "busy"
              /\ handler[g] = "delete" => ackKey[answering[g].command] # "none"
          BY <1>0, <3>2, <4>1 DEF Answered
        <5>2. Truth(answering[g])'
          BY <2>1, <2>7, <4>1, <5>1 DEF Truth
        <5> QED BY <2>1, <4>1, <5>1, <5>2
      <4>2. CASE handler'[g] = "entry" /\ answering'[g] = m
        <5>1. Truth(answering[g])'
          BY <2>1, <2>2, <2>7, <4>2 DEF Truth
        <5> QED BY <2>2, <4>2, <5>1
      <4> QED BY <2>5, <4>1, <4>2
    <3>3. \A j \in Conns : \A n \in up'[j] : Truth(n)'
      BY <1>0, <2>3, <3>1 DEF Answered
    <3>4. (\A c \in Commands : handled'[c] = "ok" => c \in executed') /\ OkMeansExecuted'
      BY <1>0, <2>1 DEF Answered, OkMeansExecuted
    <3> QED BY <3>2, <3>3, <3>4 DEF Answered
  <2>9. Ids' /\ Carried' /\ Once' /\ UnansweredIsReadable'
    BY <1>0, <1>2, <2>1, <2>7, IdsFrame, CarriedFrame, OnceFrame, ReadableFrame
  <2> QED BY <2>6, <2>8, <2>9 DEF IInv

(* The desktop *)
<1>50. ASSUME Disconnect PROVE IInv'
  <2>1. /\ UNCHANGED redisVars /\ UNCHANGED <<enqueue, up>>
        /\ UNCHANGED <<gatewayVars, handlerVars, faultVars>>
        /\ UNCHANGED <<stream, streamId, cursor, pel, entry, ackKey, retry, expired>>
        /\ UNCHANGED <<loop, got, handler, answering, handled, effects, executed>>
        /\ link' = 0 /\ down' = [down EXCEPT ![link] = {}]
    BY <1>50 DEF Disconnect, redisVars, gatewayVars, handlerVars
  <2>2. ClientTypes' /\ WireTypes' /\ \A k \in Conns : down'[k] \subseteq down[k]
    BY <1>0, <2>1 DEF ClientTypes, WireTypes
  <2>3. Types'
    BY <1>5, <1>6, <1>7, <1>10, <2>1, <2>2 DEF Types
  <2> QED BY <1>2, <1>4, <2>1, <2>2, <2>3
<1>51. ASSUME NEW k \in Conns, LoseAcks(k) PROVE IInv'
  <2>1. /\ UNCHANGED redisVars /\ UNCHANGED <<enqueue, down>>
        /\ UNCHANGED <<gatewayVars, handlerVars, clientVars, faultVars>>
        /\ UNCHANGED <<stream, streamId, cursor, pel, entry, ackKey, retry, expired>>
        /\ UNCHANGED <<loop, got, handler, answering, handled, effects, executed>>
        /\ up' = [up EXCEPT ![k] = {}]
    BY <1>51 DEF LoseAcks, redisVars, gatewayVars, handlerVars, clientVars
  <2>2. WireTypes' /\ \A j \in Conns : up'[j] \subseteq up[j]
    BY <1>0, <2>1 DEF WireTypes
  <2>3. Types'
    BY <1>5, <1>6, <1>7, <1>9, <1>10, <2>1, <2>2 DEF Types
  <2> QED BY <1>2, <1>4, <2>1, <2>2, <2>3
<1>52. ASSUME NEW c \in Commands, HandleServerCommand(c) PROVE IInv'
  <2>1. /\ UNCHANGED redisVars /\ UNCHANGED <<enqueue, link>>
        /\ UNCHANGED <<gatewayVars, handlerVars, faultVars>>
        /\ UNCHANGED <<stream, streamId, cursor, pel, entry, ackKey, retry, expired>>
        /\ UNCHANGED <<loop, got, handler, answering>>
        /\ link # 0 /\ c \in down[link] /\ down' = [down EXCEPT ![link] = @ \ {c}]
    BY <1>52 DEF HandleServerCommand, redisVars, gatewayVars, handlerVars
  <2>2. link \in Conns
    BY <1>0, <2>1 DEF ClientTypes
  <2>3. c \in Accepted
    BY <1>0, <2>1, <2>2 DEF Carried
  <2>4. PICK a \in Answers :
           /\ up' = [up EXCEPT ![link] = @ \cup {[command |-> c, answer |-> a]}]
           /\ \/ handled[c] = a /\ UNCHANGED <<handled, effects, executed>>
              \/ /\ handled[c] = "none" /\ handled' = [handled EXCEPT ![c] = a]
                 /\ \/ a # "ok" /\ UNCHANGED <<effects, executed>>
                    \/ /\ a = "ok" /\ effects' = [effects EXCEPT ![c] = @ + 1]
                       /\ executed' = executed \cup {c}
    <3>1. CASE Replay(c)
      BY <1>0, <3>1 DEF Replay, Reply, ClientTypes
    <3>2. CASE \E a \in Results : Execute(c, a)
      BY <3>2, ResultsAssumption DEF Execute, Reply, Answers
    <3> QED BY <1>52, <3>1, <3>2 DEF HandleServerCommand
  <2>5. "none" \notin Answers
    BY DEF Answers
  <2>6. /\ ClientTypes' /\ executed \subseteq executed'
        /\ a = "ok" => c \in executed'
        /\ \A d \in Commands \ {c} : handled'[d] = handled[d] /\ effects'[d] = effects[d]
        /\ handled'[c] = a
        /\ effects'[c] = effects[c] \/ (handled[c] = "none" /\ effects'[c] = effects[c] + 1)
    <3>1. CASE handled[c] = a /\ UNCHANGED <<handled, effects, executed>>
      BY <1>0, <2>1, <3>1 DEF ClientTypes, Answered
    <3>2. CASE /\ handled[c] = "none" /\ handled' = [handled EXCEPT ![c] = a]
               /\ a # "ok" /\ UNCHANGED <<effects, executed>>
      BY <1>0, <2>1, <3>2 DEF ClientTypes
    <3>3. CASE /\ handled[c] = "none" /\ handled' = [handled EXCEPT ![c] = a]
               /\ a = "ok" /\ effects' = [effects EXCEPT ![c] = @ + 1]
               /\ executed' = executed \cup {c}
      BY <1>0, <2>1, <3>3 DEF ClientTypes
    <3> QED BY <2>4, <3>1, <3>2, <3>3
  <2>7. [command |-> c, answer |-> a] \in [command : Commands, answer : Answers]
    OBVIOUS
  <2>8. /\ WireTypes'
        /\ \A k \in Conns : /\ down'[k] \subseteq down[k]
                            /\ up'[k] \subseteq up[k] \cup {[command |-> c, answer |-> a]}
    BY <1>0, <2>1, <2>2, <2>4, <2>7 DEF WireTypes
  <2>9. Types'
    BY <1>5, <1>6, <1>7, <1>10, <2>1, <2>6, <2>8 DEF Types
  <2>10. Accepted' = Accepted
    BY <2>1 DEF Accepted
  <2>11. Answered'
    <3>1. Truth([command |-> c, answer |-> a])'
      BY <2>3, <2>6, <2>10 DEF Truth
    <3>2. \A n : Truth(n) => Truth(n)'
      BY <2>6, <2>10 DEF Truth
    <3>3. \A k \in Conns : \A m \in up'[k] : Truth(m)'
      BY <1>0, <2>8, <3>1, <3>2 DEF Answered
    <3>4. ASSUME NEW g \in Handlers, handler'[g] # "idle"
          PROVE  /\ answering'[g] \in [command : Commands, answer : Answers] /\ Truth(answering[g])'
                 /\ handler'[g] = "answer" => answering'[g].answer # "busy"
                 /\ handler'[g] = "delete" => ackKey'[answering'[g].command] # "none"
      <4>1. /\ answering[g] \in [command : Commands, answer : Answers] /\ Truth(answering[g])
            /\ handler[g] = "answer" => answering[g].answer # "busy"
            /\ handler[g] = "delete" => ackKey[answering[g].command] # "none"
        BY <1>0, <2>1, <3>4 DEF Answered
      <4>2. Truth(answering[g])'
        BY <2>1, <2>6, <2>10, <4>1 DEF Truth
      <4> QED BY <2>1, <4>1, <4>2
    <3>5. (\A d \in Commands : handled'[d] = "ok" => d \in executed') /\ OkMeansExecuted'
      BY <1>0, <2>1, <2>6 DEF Answered, OkMeansExecuted
    <3> QED BY <3>3, <3>4, <3>5 DEF Answered
  <2>12. Once'
    <3>1. \A d \in Commands : effects[d] \in {0, 1} /\ (effects[d] = 1 => handled[d] # "none")
      BY <1>0 DEF Once
    <3>2. effects'[c] \in {0, 1} /\ handled'[c] # "none"
      BY <2>5, <2>6, <3>1
    <3> QED BY <2>6, <3>1, <3>2 DEF Once
  <2>13. Ids' /\ Carried' /\ UnansweredIsReadable'
    BY <1>0, <1>2, <2>1, <2>8, <2>10, IdsFrame, CarriedFrame, ReadableFrame
  <2> QED BY <2>9, <2>11, <2>12, <2>13 DEF IInv

(* Crashes and restarts *)
<1>60. ASSUME ApiCrash PROVE IInv'
  <2>1. /\ UNCHANGED redisVars /\ UNCHANGED <<applied, handled, effects, executed, reboots>>
        /\ UNCHANGED <<stream, streamId, cursor, pel, entry, ackKey, retry, expired>>
        /\ crashes < MaxCrashes /\ crashes' = crashes + 1
        /\ enqueue' = [c \in Commands |->
                         IF enqueue[c] \in {"added", "keyed"} THEN "lost" ELSE enqueue[c]]
        /\ sock' = [k \in Conns |-> IF sock[k] = "new" THEN "new" ELSE "closed"]
        /\ loop' = [k \in Conns |-> IF loop[k] = "none" THEN "none" ELSE "over"]
        /\ current' = 0 /\ inFlight' = NoCommand /\ link' = 0
        /\ handler' = [h \in Handlers |-> "idle"] /\ answering' = [h \in Handlers |-> NoAnswer]
        /\ got' = [k \in Conns |-> NoCommand]
        /\ down' = [k \in Conns |-> {}] /\ up' = [k \in Conns |-> {}]
    BY <1>60 DEF ApiCrash, redisVars
  <2>2. RedisTypes' /\ \A c \in Commands : enqueue'[c] = "idle" => enqueue[c] = "idle"
    BY <1>0, <2>1 DEF RedisTypes
  <2>3. GatewayTypes'
    BY <2>1 DEF GatewayTypes
  <2>4. HandlerTypes' /\ WireTypes' /\ ClientTypes'
    BY <1>0, <2>1 DEF HandlerTypes, WireTypes, ClientTypes
  <2>5. FaultTypes'
    BY <1>0, <1>1, <2>1 DEF FaultTypes
  <2>6. Types'
    BY <2>2, <2>3, <2>4, <2>5 DEF Types
  <2>7. /\ \A k \in Conns : loop'[k] # "send" /\ down'[k] = {} /\ up'[k] = {}
        /\ \A h \in Handlers : handler'[h] = "idle"
    BY <2>1
  <2> QED BY <1>2, <1>4, <2>1, <2>2, <2>6, <2>7
<1>61. ASSUME Reboot PROVE IInv'
  <2>1. /\ UNCHANGED redisVars /\ UNCHANGED <<enqueue, up, executed, crashes>>
        /\ UNCHANGED <<gatewayVars, handlerVars>>
        /\ UNCHANGED <<stream, streamId, cursor, pel, entry, ackKey, retry, expired>>
        /\ UNCHANGED <<loop, got, handler, answering>>
        /\ reboots < MaxReboots /\ reboots' = reboots + 1 /\ link' = 0
        /\ down' = [k \in Conns |-> {}]
        /\ handled' = [c \in Commands |-> "none"] /\ effects' = [c \in Commands |-> 0]
    BY <1>61 DEF Reboot, redisVars, gatewayVars, handlerVars
  <2>2. ClientTypes' /\ WireTypes'
    BY <1>0, <2>1 DEF ClientTypes, WireTypes
  <2>3. FaultTypes'
    BY <1>0, <1>1, <2>1 DEF FaultTypes
  <2>4. Types'
    BY <1>5, <1>6, <1>7, <2>1, <2>2, <2>3 DEF Types
  <2>5. /\ \A k \in Conns : down'[k] = {}
        /\ \A c \in Commands : handled'[c] = "none" /\ effects'[c] = 0
    BY <2>1
  <2> QED BY <1>2, <1>4, <2>1, <2>4, <2>5
<1>62. ASSUME UNCHANGED vars PROVE IInv'
  <2>1. /\ UNCHANGED <<stream, streamId, cursor, pel, entry, ackKey, retry, expired, enqueue>>
        /\ UNCHANGED <<gatewayVars, handlerVars, wireVars, clientVars, faultVars>>
        /\ UNCHANGED <<loop, got, down, up, handler, answering, handled, effects, executed>>
    BY <1>62 DEF vars, redisVars, gatewayVars, handlerVars, wireVars, clientVars
  <2>2. Types'
    BY <1>5, <1>6, <1>7, <1>8, <1>9, <1>10, <2>1 DEF Types
  <2> QED BY <1>2, <1>4, <2>1, <2>2
<1>70. ASSUME NEW k \in Conns, LoopStep(k) PROVE IInv'
  BY <1>70, <1>31, <1>32, <1>33, <1>35, <1>36, <1>37, <1>38 DEF LoopStep
<1>71. ASSUME NEW h \in Handlers, HandlerStep(h) PROVE IInv'
  BY <1>71, <1>43, <1>44, <1>45, <1>46 DEF HandlerStep
<1> QED
  BY <1>21, <1>22, <1>23, <1>24, <1>25, <1>38, <1>50, <1>51, <1>52, <1>60, <1>61, <1>62, <1>70, <1>71
  DEF Next

LEMMA IInvInit == Init => IInv
<1> SUFFICES ASSUME Init PROVE IInv
  OBVIOUS
<1>1. Accepted = {}
  BY DEF Init, Accepted
<1>2. Cardinality(Accepted) = 0
  BY <1>1, FS_EmptySet
<1>3. Cardinality(Commands) \in Nat
  BY BoundsAssumption, FS_CardinalityType
<1>4. MaxCrashes \in Nat /\ MaxReboots \in Nat
  BY BoundsAssumption
<1>5. RedisTypes
  BY <1>3 DEF Init, RedisTypes
<1>6. GatewayTypes /\ HandlerTypes /\ WireTypes
  BY DEF Init, GatewayTypes, HandlerTypes, WireTypes
<1>7. ClientTypes /\ FaultTypes
  BY <1>4 DEF Init, ClientTypes, FaultTypes
<1>8. Ids
  BY <1>1, <1>2 DEF Init, Ids
<1>9. Carried /\ Once /\ UnansweredIsReadable
  BY DEF Init, Carried, Once, UnansweredIsReadable
<1>10. Answered
  BY DEF Init, Answered, OkMeansExecuted
<1> QED BY <1>5, <1>6, <1>7, <1>8, <1>9, <1>10 DEF IInv, Types

LEMMA IInvAlways == Spec => []IInv
BY IInvInit, IInvNext, PTL DEF Spec

-----------------------------------------------------------------------------
(* Redis, the gateway, the handlers and the desktop only ever hold what     *)
(* their types say: the ids the API reads back are ids it assigned.         *)
THEOREM TypeCorrect == Spec => []TypeOK
<1>1. IInv => TypeOK
  BY TypesSplit DEF IInv
<1> QED BY <1>1, IInvAlways, PTL

(* No accepted command is lost: until it is answered or expires, some later *)
(* read of the pending or of the new entries can return it, however many    *)
(* connections, handlers, crashes and restarts interleave.                  *)
THEOREM ReadableSafety == Spec => []UnansweredIsReadable
<1>1. IInv => UnansweredIsReadable
  BY DEF IInv
<1> QED BY <1>1, IInvAlways, PTL

(* A desktop that keeps running executes a command once, however often it   *)
(* is delivered again.                                                      *)
THEOREM OnceSafety == Spec => []OncePerLife
<1>1. IInv => OncePerLife
  BY DEF IInv, Once, OncePerLife
<1> QED BY <1>1, IInvAlways, PTL

(* The API takes a command as executed only when the desktop executed it.   *)
THEOREM OkSafety == Spec => []OkMeansExecuted
<1>1. IInv => OkMeansExecuted
  BY DEF IInv, Answered
<1> QED BY <1>1, IInvAlways, PTL
-----------------------------------------------------------------------------
(* A rejection is told *)

(* The handler that wrote the terminal ack of a rejection has it in hand. *)
OnItsWay(c) ==
    \E h \in Handlers :
        /\ handler[h] \in {"delete", "outcome"}
        /\ answering[h] = [command |-> c, answer |-> "rejected"]

(* A terminal ack becomes a rejection only by the handler that then tells it, *)
(* and nothing but a crash takes it from there.                               *)
LEMMA RejectionNext == TypeOK /\ NoRejectionIsLost /\ [Next]_vars => NoRejectionIsLost'
<1> SUFFICES ASSUME TypeOK, NoRejectionIsLost, [Next]_vars, crashes' = 0,
                    NEW c \in Commands, ackKey'[c] = "rejected"
             PROVE  c \in applied' \/ OnItsWay(c)'
  BY Zenon DEF NoRejectionIsLost, OnItsWay
<1>0. /\ ackKey \in [Commands -> {"none", "ok", "rejected", "expired"}]
      /\ handler \in [Handlers -> {"idle", "entry", "retry", "answer", "delete", "outcome"}]
      /\ answering \in [Handlers -> [command : Commands, answer : Answers] \cup {NoAnswer}]
  BY DEF TypeOK
<1>1. crashes = 0 => (ackKey[c] = "rejected" => c \in applied \/ OnItsWay(c))
  BY DEF NoRejectionIsLost, OnItsWay
<1>2. ASSUME UNCHANGED <<crashes, handler, answering, applied>>, ackKey[c] = "rejected"
      PROVE  c \in applied' \/ OnItsWay(c)'
  BY <1>1, <1>2 DEF OnItsWay
<1>3. ASSUME Sweep PROVE ackKey[c] = "rejected"
  BY <1>0, <1>3 DEF Sweep
<1>4. ASSUME NEW h \in Handlers, HandlerStep(h) PROVE c \in applied' \/ OnItsWay(c)'
  <2> USE DEF HandlerGoto
  <2>0. crashes = 0
    BY <1>4 DEF HandlerStep, AckReceived, GetEntry, RetryLater, SetTerminalAck,
                DeleteStreamEntry, ApplyOutcome, faultVars
  <2>1. CASE SetTerminalAck(h)
    <3>1. CASE ackKey[c] = "rejected"
      BY <1>0, <1>1, <2>0, <2>1, <3>1 DEF SetTerminalAck, OnItsWay
    <3>2. CASE ackKey[c] # "rejected"
      <4>1. c = answering[h].command /\ answering[h].answer = "rejected"
        BY <1>0, <2>1, <3>2 DEF SetTerminalAck, SetAck
      <4>2. answering[h] = [command |-> c, answer |-> "rejected"]
        BY <1>0, <4>1 DEF NoAnswer
      <4>3. handler'[h] = "delete" /\ answering'[h] = answering[h]
        BY <1>0, <2>1 DEF SetTerminalAck
      <4> QED BY <4>2, <4>3 DEF OnItsWay
    <3> QED BY <3>1, <3>2
  <2>2. CASE ~SetTerminalAck(h)
    <3>1. ackKey' = ackKey /\ applied \subseteq applied'
      BY <1>4, <2>2 DEF HandlerStep, AckReceived, GetEntry, RetryLater,
                        DeleteStreamEntry, ApplyOutcome, redisVars
    <3>2. ASSUME NEW g \in Handlers, handler[g] \in {"delete", "outcome"},
                 answering[g] = [command |-> c, answer |-> "rejected"]
          PROVE  \/ c \in applied'
                 \/ handler'[g] \in {"delete", "outcome"} /\ answering'[g] = answering[g]
      BY <1>0, <1>4, <2>2, <3>2 DEF HandlerStep, AckReceived, GetEntry, RetryLater,
                                    DeleteStreamEntry, ApplyOutcome
    <3> QED BY <1>1, <2>0, <3>1, <3>2 DEF OnItsWay
  <2> QED BY <2>1, <2>2
<1>5. ASSUME NEW k \in Conns, LoopStep(k) PROVE c \in applied' \/ OnItsWay(c)'
  <2>1. UNCHANGED <<crashes, handler, answering, applied>> /\ (Sweep \/ ackKey' = ackKey)
    BY <1>5 DEF LoopStep, HelloDone, LoopEnds, StartReading, AckTimeout, ReadPending, SweepAgain,
                ReadNew, Send, SendFails, ServerClose, redisVars, handlerVars, faultVars
  <2> QED BY <1>2, <1>3, <2>1
<1>6. ASSUME NEW d \in Commands,
             \/ Expire(d) \/ BackoffOver(d) \/ Xadd(d) \/ SetEntry(d) \/ EnqueueSweep(d)
             \/ HandleServerCommand(d)
      PROVE  c \in applied' \/ OnItsWay(c)'
  <2>1. UNCHANGED <<crashes, handler, answering, applied>> /\ (Sweep \/ ackKey' = ackKey)
    BY <1>6 DEF Expire, BackoffOver, Xadd, SetEntry, EnqueueSweep, HandleServerCommand,
                redisVars, handlerVars, faultVars
  <2> QED BY <1>2, <1>3, <2>1
<1>7. CASE ApiCrash
  <2>1. crashes' = crashes + 1 /\ crashes \in Nat
    BY <1>7, BoundsAssumption DEF ApiCrash, TypeOK
  <2> QED BY <2>1
<1>8. CASE \/ \E k \in Conns : Connect(k) \/ LoseAcks(k)
           \/ Disconnect \/ Reboot \/ UNCHANGED vars
  <2>1. UNCHANGED <<crashes, handler, answering, applied, ackKey>>
    BY <1>8 DEF Connect, LoseAcks, Disconnect, Reboot, vars, redisVars, handlerVars, faultVars
  <2> QED BY <1>2, <2>1
<1> QED BY <1>4, <1>5, <1>6, <1>7, <1>8 DEF Next

(* Without a crash of the API every written rejection reaches its run or      *)
(* action, or a handler still has it in hand.                                 *)
THEOREM RejectionSafety == Spec => []NoRejectionIsLost
<1>1. Init => NoRejectionIsLost
  BY DEF Init, NoRejectionIsLost
<1>2. TypeOK /\ NoRejectionIsLost /\ [Next]_vars => NoRejectionIsLost'
  BY RejectionNext
<1> QED BY <1>1, <1>2, TypeCorrect, PTL DEF Spec

-----------------------------------------------------------------------------
(* The queue implements CommandDelivery: the steps of the queue, and those of *)
(* the promise they map to.                                                    *)
LEMMA MapStutter ==
  ASSUME UNCHANGED <<stream, streamId, ackKey, executed, expired>>
  PROVE  UNCHANGED Delivery!deliveryVars
BY DEF Delivery!deliveryVars

LEMMA MapAccept ==
  ASSUME NEW c \in Commands, c \notin Accepted, Accepted' = Accepted \cup {c},
         stream' = stream \cup {c}, UNCHANGED <<ackKey, executed, expired>>
  PROVE  Delivery!Next
<1>1. Delivery!Accept(c)
  BY DEF Delivery!Accept, Accepted
<1> QED BY <1>1 DEF Delivery!Next

LEMMA MapExecute ==
  ASSUME NEW c \in Accepted, executed' = executed \cup {c},
         UNCHANGED <<stream, streamId, ackKey, expired>>
  PROVE  Delivery!Next
<1>1. Delivery!Execute(c) /\ c \in Commands
  BY DEF Delivery!Execute, Accepted
<1> QED BY <1>1 DEF Delivery!Next

LEMMA MapAnswer ==
  ASSUME NEW c \in Accepted, NEW a \in {"ok", "rejected"}, a = "ok" => c \in executed,
         ackKey' = [ackKey EXCEPT ![c] = a], UNCHANGED <<stream, streamId, executed, expired>>
  PROVE  Delivery!Next
<1>1. Delivery!Answer(c, a) /\ c \in Commands
  BY DEF Delivery!Answer, Accepted
<1> QED BY <1>1 DEF Delivery!Next

LEMMA MapLapse ==
  ASSUME NEW c \in Accepted, expired' = expired \cup {c},
         UNCHANGED <<stream, streamId, ackKey, executed>>
  PROVE  Delivery!Next
<1>1. Delivery!Lapse(c) /\ c \in Commands
  BY DEF Delivery!Lapse, Accepted
<1> QED BY <1>1 DEF Delivery!Next

LEMMA MapWithdraw ==
  ASSUME NEW c \in Commands, c \in stream, ackKey[c] # "none", stream' = stream \ {c},
         UNCHANGED <<streamId, ackKey, executed, expired>>
  PROVE  Delivery!Next
<1>1. Delivery!Withdraw(c)
  BY DEF Delivery!Withdraw
<1> QED BY <1>1 DEF Delivery!Next

LEMMA MapPurge ==
  ASSUME NEW D \in SUBSET Commands, D \subseteq stream, D \subseteq expired, stream' = stream \ D,
         ackKey' = [c \in Commands |-> IF c \in D THEN "expired" ELSE ackKey[c]] \/ ackKey' = ackKey,
         UNCHANGED <<streamId, executed, expired>>
  PROVE  Delivery!Next
<1>1. Delivery!Purge(D)
  BY DEF Delivery!Purge
<1> QED BY <1>1 DEF Delivery!Next

LEMMA MapNext == IInv /\ [Next]_vars => [Delivery!Next]_(Delivery!deliveryVars)
<1> SUFFICES ASSUME IInv, [Next]_vars PROVE Delivery!Next \/ UNCHANGED Delivery!deliveryVars
  OBVIOUS
<1>0. /\ RedisTypes /\ ClientTypes /\ Ids /\ Carried /\ Answered
      /\ stream \subseteq Accepted /\ pel \subseteq stream /\ Accepted \subseteq Commands
  BY DEF IInv, Types, Ids, Accepted
<1>1. \A c \in Commands : c \in Accepted <=> streamId[c] # 0
  BY DEF Accepted
<1>2. ASSUME Sweep, UNCHANGED <<streamId, executed, expired>> PROVE Delivery!Next
  <2>1. Lapsed \in SUBSET Commands /\ Lapsed \subseteq stream /\ Lapsed \subseteq expired
    BY <1>0 DEF Lapsed
  <2> QED BY <1>2, <2>1, MapPurge DEF Sweep, Delete
<1>3. ASSUME NEW c \in stream, c \in expired, Delete({c}),
             UNCHANGED <<streamId, ackKey, executed, expired>>
      PROVE  Delivery!Next
  <2>1. {c} \in SUBSET Commands /\ {c} \subseteq stream /\ {c} \subseteq expired
    BY <1>0, <1>3
  <2> QED BY <1>3, <2>1, MapPurge DEF Delete
<1>4. ASSUME NEW c \in Commands, Xadd(c) PROVE Delivery!Next
  <2>1. streamId' = [streamId EXCEPT ![c] = 1 + Cardinality(Accepted)] /\ c \notin Accepted
    BY <1>0, <1>1, <1>4 DEF Xadd, Accepted, Ids
  <2>2. Cardinality(Accepted) \in Nat
    BY <1>0, BoundsAssumption, FS_Subset, FS_CardinalityType
  <2>3. streamId'[c] # 0 /\ \A d \in Commands \ {c} : streamId'[d] = streamId[d]
    BY <1>0, <2>1, <2>2 DEF RedisTypes
  <2>4. Accepted' = Accepted \cup {c}
    BY <1>0, <2>3 DEF Accepted
  <2> QED BY <1>4, <2>1, <2>4, MapAccept DEF Xadd, clientVars
<1>5. ASSUME NEW c \in Commands, Expire(c) PROVE Delivery!Next
  BY <1>1, <1>5, MapLapse DEF Expire, clientVars
<1>6. ASSUME NEW c \in Commands, EnqueueSweep(c) PROVE Delivery!Next
  BY <1>2, <1>6 DEF EnqueueSweep, clientVars
<1>7. ASSUME NEW k \in Conns, StartReading(k) \/ SweepAgain(k) PROVE Delivery!Next
  BY <1>2, <1>7 DEF StartReading, SweepAgain, clientVars
<1>8. ASSUME NEW k \in Conns, ReadPending(k) PROVE Delivery!Next \/ UNCHANGED Delivery!deliveryVars
  <2>1. UNCHANGED <<streamId, ackKey, executed, expired>>
    BY <1>8 DEF ReadPending, clientVars
  <2>2. CASE UNCHANGED stream
    BY <2>1, <2>2, MapStutter
  <2>3. CASE pel # {} /\ DropExpired(k, First(pel), "sweep")
    <3>1. First(pel) \in pel
      BY <1>0, <2>3, FirstIsOldest DEF RedisTypes
    <3> QED BY <1>0, <1>3, <2>1, <2>3, <3>1 DEF DropExpired
  <2> QED BY <1>8, <2>2, <2>3 DEF ReadPending, Take
<1>9. ASSUME NEW k \in Conns, ReadNew(k) PROVE Delivery!Next \/ UNCHANGED Delivery!deliveryVars
  <2>1. UNCHANGED <<streamId, ackKey, executed, expired>>
    BY <1>9 DEF ReadNew, clientVars
  <2>2. CASE UNCHANGED stream
    BY <2>1, <2>2, MapStutter
  <2>3. CASE Undelivered # {} /\ DropExpired(k, First(Undelivered), "top")
    <3>1. First(Undelivered) \in stream
      <4>1. Undelivered \in SUBSET Commands /\ Undelivered \subseteq stream
        BY <1>0 DEF Undelivered
      <4> QED BY <1>0, <2>3, <4>1, FirstIsOldest DEF RedisTypes
    <3> QED BY <1>3, <2>1, <2>3, <3>1 DEF DropExpired
  <2> QED BY <1>9, <2>2, <2>3 DEF ReadNew, Take
<1>10. ASSUME NEW h \in Handlers, SetTerminalAck(h) PROVE Delivery!Next
  <2>1. /\ UNCHANGED <<stream, streamId, executed, expired>>
        /\ ackKey' = [ackKey EXCEPT ![answering[h].command] = answering[h].answer]
        /\ handler[h] = "answer"
    BY <1>10 DEF SetTerminalAck, SetAck, clientVars
  <2>2. PICK c \in Accepted, a \in {"ok", "rejected"} :
           /\ c = answering[h].command /\ a = answering[h].answer
           /\ a = "ok" => c \in executed
    BY <1>0, <2>1 DEF Answered, Truth, Answers
  <2> QED BY <2>1, <2>2, MapAnswer
<1>11. ASSUME NEW h \in Handlers, DeleteStreamEntry(h)
       PROVE  Delivery!Next \/ UNCHANGED Delivery!deliveryVars
  <2>1. /\ UNCHANGED <<streamId, ackKey, executed, expired>> /\ handler[h] = "delete"
        /\ stream' = stream \ {answering[h].command}
    BY <1>11 DEF DeleteStreamEntry, Delete, clientVars
  <2>2. PICK c \in Commands : c = answering[h].command /\ ackKey[c] # "none"
    BY <1>0, <2>1 DEF Answered
  <2>3. CASE c \in stream
    BY <2>1, <2>2, <2>3, MapWithdraw
  <2>4. CASE c \notin stream
    <3>1. UNCHANGED stream
      BY <2>1, <2>2, <2>4
    <3> QED BY <2>1, <3>1, MapStutter
  <2> QED BY <2>3, <2>4
<1>12. ASSUME NEW c \in Commands, HandleServerCommand(c)
       PROVE  Delivery!Next \/ UNCHANGED Delivery!deliveryVars
  <2>1. UNCHANGED <<stream, streamId, ackKey, expired>> /\ executed' \in {executed, executed \cup {c}}
    BY <1>12 DEF HandleServerCommand, Replay, Execute, redisVars
  <2>2. c \in Accepted
    BY <1>0, <1>12 DEF HandleServerCommand, Carried, ClientTypes
  <2> QED BY <2>1, <2>2, MapExecute, MapStutter
<1>13. ASSUME NEW k \in Conns, LoopStep(k) PROVE Delivery!Next \/ UNCHANGED Delivery!deliveryVars
  <2>1. ASSUME HelloDone(k) \/ LoopEnds(k) \/ AckTimeout(k) \/ Send(k) \/ SendFails(k) \/ ServerClose(k)
        PROVE  UNCHANGED <<stream, streamId, ackKey, executed, expired>>
    BY <2>1 DEF HelloDone, LoopEnds, AckTimeout, Send, SendFails, ServerClose, redisVars, clientVars
  <2> QED BY <1>7, <1>8, <1>9, <1>13, <2>1, MapStutter DEF LoopStep
<1>14. ASSUME NEW h \in Handlers, HandlerStep(h) PROVE Delivery!Next \/ UNCHANGED Delivery!deliveryVars
  <2>1. ASSUME \/ \E k \in Conns : \E m \in up[k] : AckReceived(h, k, m)
               \/ GetEntry(h) \/ RetryLater(h) \/ ApplyOutcome(h)
        PROVE  UNCHANGED <<stream, streamId, ackKey, executed, expired>>
    BY <2>1 DEF AckReceived, GetEntry, RetryLater, ApplyOutcome, redisVars, clientVars
  <2> QED BY <1>10, <1>11, <1>14, <2>1, MapStutter DEF HandlerStep
<1>15. ASSUME \/ \E c \in Commands : BackoffOver(c) \/ SetEntry(c)
              \/ \E k \in Conns : Connect(k) \/ LoseAcks(k)
              \/ Disconnect \/ ApiCrash \/ Reboot \/ UNCHANGED vars
       PROVE  UNCHANGED Delivery!deliveryVars
  <2>1. UNCHANGED <<stream, streamId, ackKey, executed, expired>>
    BY <1>15 DEF BackoffOver, SetEntry, Connect, LoseAcks, Disconnect, ApiCrash, Reboot, vars,
                 redisVars, clientVars
  <2> QED BY <2>1, MapStutter
<1> QED BY <1>4, <1>5, <1>6, <1>12, <1>13, <1>14, <1>15 DEF Next

(* Redis, the loops, the handlers and the desktop together keep what          *)
(* CommandDelivery promises to those who enqueue: an accepted command leaves  *)
(* only answered or expired, and is a success only if it was executed.        *)
THEOREM Refinement == Spec => ImplementsDelivery
<1>1. Init => Delivery!Init
  BY DEF Init, Delivery!Init
<1> QED BY <1>1, MapNext, IInvAlways, PTL DEF Spec, ImplementsDelivery, Delivery!Spec
=============================================================================
