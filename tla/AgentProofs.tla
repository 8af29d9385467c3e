----------------------------- MODULE AgentProofs -----------------------------
(***************************************************************************)
(* Machine-checked proofs about Agent, for every set of trace clients and  *)
(* tables and every bound.                                                 *)
(*                                                                         *)
(* The agent is a CommandPipeline whose environment is the agent's own     *)
(* code, and a Tracing whose environment is the pipeline: the theorems of  *)
(* CommandPipelineProofs and the lemmas of TracingProofs are used here,    *)
(* not proved again.                                                       *)
(***************************************************************************)
EXTENDS Agent, CommandPipelineProofs

TP == INSTANCE TracingProofs WITH MaxLogs <- MaxCommands

\* The types of what Agent adds to the pipeline and the streams.
AgentTypeOK ==
    /\ todo \subseteq {"config"} \cup Tables
    /\ loader \in [Tables -> {"off", "load", "publish", "add", "watch", "failed"}]
    /\ watching \in [Tables -> BOOLEAN]
    /\ event \in [Tables -> BOOLEAN]
    /\ loaded \in [Tables -> 0 .. MaxVersion]
    /\ disk \in [Tables -> 1 .. MaxVersion]
    /\ broken \in [Tables -> BOOLEAN]
    /\ config \in BOOLEAN
    /\ table \in [Tables -> 0 .. MaxVersion]

\* Nothing of the agent but the API server and its streams is at work before the
\* device is open, and nothing at all without a process.
StartOK ==
    /\ reader \in {"down", "start", "announce"} =>
          /\ todo = {} /\ started = Idle
          /\ loader = [t \in Tables |-> "off"]
    /\ reader \in {"down", "start"} /\ outgoing # Idle =>
          outgoing.type = "push" /\ outgoing.body.action \in {"add", "remove"}
    /\ reader = "down" => \A c \in Clients : phase[c] \in {"off", "done"}

\* Version v of table t is on its way to the kernel module.
OnItsWay(t, v) == outgoing = LoadMsg(t, v)

\* What is sent is no older than what was sent before, and no newer than what
\* there is.
VersionsOK == \A t \in Tables :
    /\ table[t] <= disk[t]
    /\ \A v \in 1 .. MaxVersion : OnItsWay(t, v) => table[t] <= v /\ v <= disk[t]
    /\ loader[t] = "publish" =>
          /\ 1 <= loaded[t] /\ loaded[t] <= disk[t]
          /\ table[t] <= loaded[t]
          /\ \A v \in 1 .. MaxVersion : OnItsWay(t, v) => v <= loaded[t]

\* What every step of the agent preserves, before the streams' feeds.
AgentInv == IInv /\ DeviceState /\ AgentTypeOK /\ StartOK /\ VersionsOK

-----------------------------------------------------------------------------
\* Messages.

\* Every message of the agent is one of CommandPipeline's, and is told from an
\* idle topic, from an answer and from the other messages.
LEMMA Messages ==
    /\ ConfigMsg \in Message /\ ConfigMsg \notin AnswerMsg
    /\ ConfigMsg # Idle /\ ConfigMsg.body.action = "config"
    /\ \A t \in Tables, v \in 1 .. MaxVersion :
          /\ LoadMsg(t, v) \in Message /\ LoadMsg(t, v) \notin AnswerMsg
          /\ LoadMsg(t, v) # Idle /\ LoadMsg(t, v) # ConfigMsg
          /\ \A s, w : LoadMsg(s, w) = LoadMsg(t, v) => s = t /\ w = v
    /\ \A a \in {"add", "remove"}, q \in T!Requests :
          /\ T!TraceMsg(a, q) \in Message /\ T!TraceMsg(a, q) \notin AnswerMsg
          /\ T!TraceMsg(a, q) # Idle
          /\ T!TraceMsg(a, q).type = "push" /\ T!TraceMsg(a, q).body.action = a
<1>1. \A b \in AgentPushes : [type |-> "push", body |-> b] \in Message \ AnswerMsg
    BY PushesAssumption DEF Message, PushMsg, AnswerMsg
<1>2. \A m \in Message : m # Idle
    BY IdleAssumption
<1>3. /\ [action |-> "config"] \in AgentPushes
      /\ \A t \in Tables, v \in 1 .. MaxVersion :
            [action |-> "load", table |-> t, version |-> v] \in AgentPushes
      /\ \A a \in {"add", "remove"}, q \in T!Requests :
            [action |-> a, request |-> q] \in AgentPushes
    BY DEF AgentPushes
<1>4. ConfigMsg.body.action = "config" /\ \A t, v : LoadMsg(t, v).body.action = "load"
    BY DEF ConfigMsg, LoadMsg
<1>5. \A t, v, s, w : LoadMsg(s, w) = LoadMsg(t, v) => s = t /\ w = v
    <2> TAKE t, v, s, w
    <2>1. /\ LoadMsg(t, v).body.table = t /\ LoadMsg(t, v).body.version = v
          /\ LoadMsg(s, w).body.table = s /\ LoadMsg(s, w).body.version = w
        BY DEF LoadMsg
    <2> QED BY <2>1
<1>6. \A a, q : T!TraceMsg(a, q).type = "push" /\ T!TraceMsg(a, q).body.action = a
    BY DEF T!TraceMsg
<1>7. ConfigMsg \in Message \ AnswerMsg
    BY <1>1, <1>3 DEF ConfigMsg
<1>8. \A t \in Tables, v \in 1 .. MaxVersion : LoadMsg(t, v) \in Message \ AnswerMsg
    BY <1>1, <1>3 DEF LoadMsg
<1>9. \A a \in {"add", "remove"}, q \in T!Requests : T!TraceMsg(a, q) \in Message \ AnswerMsg
    BY <1>1, <1>3 DEF T!TraceMsg
<1> QED BY <1>2, <1>4, <1>5, <1>6, <1>7, <1>8, <1>9

\* What the kernel module can be written, told apart by its action.
LEMMA WhatIsWritten ==
    ASSUME NEW m \in Message, m.type # "answer"
    PROVE  \/ m = ConfigMsg
           \/ \E t \in Tables, v \in 1 .. MaxVersion : m = LoadMsg(t, v)
           \/ \E a \in {"add", "remove"}, q \in T!Requests : m = T!TraceMsg(a, q)
<1>1. PICK b \in AgentPushes : m = [type |-> "push", body |-> b]
    BY PushesAssumption DEF Message, AnswerMsg, PushMsg
<1>2. CASE b = [action |-> "config"]
    BY <1>1, <1>2 DEF ConfigMsg
<1>3. CASE b \in [action : {"load"}, table : Tables, version : 1 .. MaxVersion]
    <2>1. b = [action |-> "load", table |-> b.table, version |-> b.version]
          /\ b.table \in Tables /\ b.version \in 1 .. MaxVersion
        BY <1>3
    <2> QED BY <1>1, <2>1 DEF LoadMsg
<1>4. CASE b \in [action : {"add", "remove"}, request : T!Requests]
    <2>1. b = [action |-> b.action, request |-> b.request]
          /\ b.action \in {"add", "remove"} /\ b.request \in T!Requests
        BY <1>4
    <2> QED BY <1>1, <2>1 DEF T!TraceMsg
<1> QED BY <1>1, <1>2, <1>3, <1>4 DEF AgentPushes

-----------------------------------------------------------------------------
\* The steps of the agent.

\* The steps with a proof step of their own below.
LEMMA AgentCases ==
    ASSUME [AgentNext]_agentVars
    PROVE  \/ PipelineStep \/ Alone(DeviceGone) \/ AnnounceOpen \/ LogTrace
           \/ WriteAndApply \/ AgentEnds \/ SendConfig \/ AllStarted
           \/ \E t \in Tables :
                 \/ StartLoader(t) \/ Load(t) \/ LoadFails(t) \/ PublishTable(t) \/ AddWatch(t)
                 \/ TakeEvent(t) \/ Edit(t)
           \/ \E c \in Clients : StreamStep(c)
           \/ Beside(T!Responder) \/ UNCHANGED agentVars
BY DEF AgentNext, AgentWorks, LoaderStep

\* A stream touches the rest of the agent where it publishes a trace request,
\* and it does nothing without a process.
LEMMA StreamStepEffect ==
    ASSUME StartOK, NEW c \in Clients, StreamStep(c)
    PROVE  /\ UNCHANGED <<pipelineVars, loaderVars, kernelVars, incoming, responses, started>>
           /\ reader = "down" => \A d \in Clients : phase'[d] \in {"off", "done"}
           /\ \/ UNCHANGED outgoing
              \/ /\ reader # "down" /\ outgoing = Idle
                 /\ \E a \in {"add", "remove"}, q \in T!Requests : outgoing' = T!TraceMsg(a, q)
<1>1. CASE Connect(c)
    BY <1>1 DEF Connect, Beside, T!Connect, T!busVars
<1>2. CASE Beside(T!GoAway(c)) \/ Beside(T!Read(c))
    BY <1>2 DEF StartOK, Beside, T!GoAway, T!Read, T!busVars
<1>3. CASE Beside(T!Subscribe(c)) \/ Beside(T!Unsubscribe(c))
    <2>1. reader # "down"
        BY <1>3 DEF StartOK, Beside, T!Subscribe, T!Unsubscribe
    <2> QED BY <1>3, <2>1 DEF Beside, T!Subscribe, T!Unsubscribe, T!busVars
<1>4. CASE Beside(T!PublishAdd(c)) \/ Beside(T!PublishRemove(c))
    <2>1. reader # "down"
        BY <1>4 DEF StartOK, Beside, T!PublishAdd, T!PublishRemove
    <2>2. T!Request(c) \in T!Requests
        BY DEF T!Requests
    <2> QED BY <1>4, <2>1, <2>2 DEF Beside, T!PublishAdd, T!PublishRemove, T!Publish
<1> QED BY <1>1, <1>2, <1>3, <1>4 DEF StreamStep

\* The trace.response goroutine touches the rest of the agent where it is done
\* with a response.
LEMMA ResponderEffect ==
    ASSUME Beside(T!Responder)
    PROVE  /\ UNCHANGED <<pipelineVars, loaderVars, kernelVars, phase,
                          incoming, outgoing, started>>
           /\ responses' \in {responses, Idle}
BY DEF Beside, T!Responder, T!TakeResponse, T!Call, T!Send, T!FanoutDone, T!busVars

\* Every step of the agent is a step of the command pipeline, or none: what its
\* environment may do is all the rest of the agent does to it.
LEMMA PipelineStepImplemented == AgentInv /\ [AgentNext]_agentVars => [Next]_vars
<1> SUFFICES ASSUME AgentInv, [AgentNext]_agentVars
             PROVE  [Next]_vars
    OBVIOUS
<1>1. ASSUME NEW m \in Message, m \notin AnswerMsg, reader # "down",
             UNCHANGED <<pipelineVars, incoming, responses, started>>,
             outgoing = Idle, outgoing' = m
      PROVE  Push
    <2>1. PICK b \in Pushes : m = [type |-> "push", body |-> b]
        BY <1>1 DEF Message, PushMsg
    <2> QED BY <1>1, <2>1 DEF Push, Publish
<1>2. CASE PipelineStep \/ Alone(DeviceGone)
    BY <1>2 DEF PipelineStep, Alone, ReaderStep, Next, Reader, Commander, Writer, Process
<1>3. CASE AnnounceOpen \/ LogTrace \/ WriteAndApply \/ AgentEnds
    BY <1>3 DEF AnnounceOpen, LogTrace, WriteAndApply, AgentEnds, Next, Reader,
                Commander, Writer, Process
<1>4. CASE SendConfig
    <2>1. reader # "down"
        BY <1>4 DEF SendConfig, AgentInv, StartOK
    <2> QED BY <1>1, <1>4, <2>1, Messages DEF SendConfig, Publish, Next, Others
<1>5. CASE AllStarted
    BY <1>5 DEF AllStarted, Next, Others
<1>6. ASSUME NEW t \in Tables, PublishTable(t)
      PROVE  Push
    <2>1. reader # "down"
        BY <1>6 DEF PublishTable, AgentInv, StartOK
    <2>2. loaded[t] \in 1 .. MaxVersion
        BY <1>6, VersionAssumption DEF PublishTable, AgentInv, AgentTypeOK, VersionsOK
    <2> QED BY <1>1, <1>6, <2>1, <2>2, Messages DEF PublishTable, Publish
<1>7. ASSUME NEW t \in Tables,
             \/ StartLoader(t) \/ Load(t) \/ LoadFails(t) \/ AddWatch(t) \/ TakeEvent(t)
             \/ Edit(t)
      PROVE  UNCHANGED vars
    BY <1>7 DEF StartLoader, Load, LoadFails, AddWatch, TakeEvent, Edit
<1>8. ASSUME NEW c \in Clients, StreamStep(c)
      PROVE  Push \/ UNCHANGED vars
    <2>1. \/ UNCHANGED vars
          \/ /\ reader # "down" /\ outgoing = Idle
             /\ UNCHANGED <<pipelineVars, incoming, responses, started>>
             /\ \E a \in {"add", "remove"}, q \in T!Requests : outgoing' = T!TraceMsg(a, q)
        BY <1>8, StreamStepEffect DEF AgentInv, vars, busVars
    <2> QED BY <1>1, <2>1, Messages
<1>9. CASE Beside(T!Responder)
    <2>1. UNCHANGED vars \/ ResponsesDone
        BY <1>9, ResponderEffect DEF vars, busVars, ResponsesDone
    <2> QED BY <2>1 DEF Next, Others
<1>10. CASE UNCHANGED agentVars
    BY <1>10 DEF agentVars
<1> QED BY AgentCases, <1>2, <1>3, <1>4, <1>5, <1>6, <1>7, <1>8, <1>9, <1>10
        DEF Next, Others

-----------------------------------------------------------------------------
\* The inductive invariant.

\* Every step keeps the types of tables, loaders and kernel module.
LEMMA AgentTypeStep == AgentInv /\ [AgentNext]_agentVars => AgentTypeOK'
<1> SUFFICES ASSUME AgentInv, [AgentNext]_agentVars
             PROVE  AgentTypeOK'
    OBVIOUS
<1> USE DEF AgentInv, AgentTypeOK
<1>1. CASE UNCHANGED <<loaderVars, kernelVars>>
    BY <1>1 DEF loaderVars, kernelVars
<1>2. CASE AnnounceOpen
    BY <1>2 DEF AnnounceOpen, kernelVars
<1>3. CASE WriteAndApply
    <2>1. CASE outgoing.type = "answer"
        BY <1>3, <2>1 DEF WriteAndApply, loaderVars, kernelVars
    <2>2. CASE outgoing.type # "answer" /\ outgoing = ConfigMsg
        BY <1>3, <2>2, Messages DEF WriteAndApply, loaderVars
    <2>3. ASSUME NEW t \in Tables, NEW v \in 1 .. MaxVersion, outgoing.type # "answer",
                 outgoing = LoadMsg(t, v)
          PROVE  AgentTypeOK'
        <3>1. table' = [table EXCEPT ![t] = v] /\ UNCHANGED <<loaderVars, config>>
            BY <1>3, <2>3 DEF WriteAndApply, LoadMsg
        <3>2. v \in 0 .. MaxVersion
            BY VersionAssumption
        <3> QED BY <3>1, <3>2 DEF loaderVars
    <2>4. ASSUME NEW a \in {"add", "remove"}, NEW q \in T!Requests, outgoing.type # "answer",
                 outgoing = T!TraceMsg(a, q)
          PROVE  AgentTypeOK'
        BY <1>3, <2>4, Messages DEF WriteAndApply, loaderVars, kernelVars
    <2>5. outgoing \in Message
        BY <1>3 DEF WriteAndApply, WriteDevice, IInv, TypeOK
    <2> QED BY <2>1, <2>2, <2>3, <2>4, <2>5, WhatIsWritten
<1>4. CASE AgentEnds
    BY <1>4, VersionAssumption DEF AgentEnds, kernelVars
<1>5. CASE SendConfig
    BY <1>5 DEF SendConfig, kernelVars
<1>6. ASSUME NEW t \in Tables, LoadFails(t) \/ StartLoader(t) \/ PublishTable(t) \/ AddWatch(t) \/ TakeEvent(t)
      PROVE  AgentTypeOK'
    BY <1>6 DEF LoadFails, StartLoader, PublishTable, AddWatch, TakeEvent, kernelVars
<1>7. ASSUME NEW t \in Tables, Load(t)
      PROVE  AgentTypeOK'
    <2>1. disk[t] \in 0 .. MaxVersion
        OBVIOUS
    <2> QED BY <1>7, <2>1 DEF Load, kernelVars
<1>8. ASSUME NEW t \in Tables, Edit(t)
      PROVE  AgentTypeOK'
    <2>1. disk[t] + 1 \in 1 .. MaxVersion
        BY <1>8, VersionAssumption DEF Edit
    <2> QED BY <1>8, <2>1 DEF Edit, kernelVars
<1>9. PipelineStep \/ Alone(DeviceGone) \/ LogTrace \/ AllStarted \/ UNCHANGED agentVars =>
          UNCHANGED <<loaderVars, kernelVars>>
    BY DEF PipelineStep, Alone, LogTrace, AllStarted, agentVars
<1>10. ASSUME NEW c \in Clients, StreamStep(c)
       PROVE  UNCHANGED <<loaderVars, kernelVars>>
    BY <1>10, StreamStepEffect
<1>11. Beside(T!Responder) => UNCHANGED <<loaderVars, kernelVars>>
    BY ResponderEffect
<1> QED BY AgentCases, <1>1, <1>2, <1>3, <1>4, <1>5, <1>6, <1>7, <1>8, <1>9, <1>10, <1>11

\* Nothing comes to life before the device is open, and nothing survives the
\* process.  DeviceState is needed where an answer might be published.
LEMMA StartStep == AgentInv /\ [AgentNext]_agentVars => StartOK'
<1> SUFFICES ASSUME AgentInv, [AgentNext]_agentVars
             PROVE  StartOK'
    OBVIOUS
<1> USE DEF AgentInv, StartOK
<1>1. CASE UNCHANGED <<reader, todo, started, loader, outgoing, phase>>
    BY <1>1
<1>2. CASE PipelineStep \/ Alone(DeviceGone)
    <2> UNCHANGED <<todo, loader, phase>>
        BY <1>2 DEF PipelineStep, Alone, tracingVars, loaderVars
    <2>1. CASE KernelSend \/ Alone(DeviceGone) \/ HandleCommand
        BY <1>1, <2>1 DEF KernelSend, Alone, DeviceGone, HandleCommand, busVars
    <2>2. CASE ReaderStep
        BY <2>2 DEF ReaderStep, OpenDevice, OpenFails, Scan, PublishIncoming, ClearDevice, busVars
    <2>3. CASE PublishAnswer
        BY <2>3 DEF PublishAnswer, DeviceState
    <2>4. CASE CheckDevice \/ WriteFails
        BY <2>4 DEF CheckDevice, WriteFails, Discard, busVars
    <2>5. CASE Restart
        BY <2>5 DEF Restart, busVars, DeviceState
    <2> QED BY <1>2, <2>1, <2>2, <2>3, <2>4, <2>5 DEF PipelineStep, Alone
<1>3. CASE AnnounceOpen
    BY <1>3 DEF AnnounceOpen, Announce
<1>4. CASE LogTrace
    BY <1>1, <1>4 DEF LogTrace, HandleLog, loaderVars
<1>5. CASE WriteAndApply
    BY <1>5 DEF WriteAndApply, WriteDevice, loaderVars
<1>6. CASE AgentEnds
    <2>1. /\ reader' = "down" /\ started' = Idle /\ outgoing' = Idle
          /\ todo' = {} /\ loader' = [t \in Tables |-> "off"]
        BY <1>6 DEF AgentEnds, Stop, Kill, ProcessEnds
    <2>2. \A c \in Clients : phase'[c] \in {"off", "done"}
        BY <1>6 DEF AgentEnds, T!StreamsBreak
    <2> QED BY <2>1, <2>2
<1>7. CASE SendConfig \/ AllStarted
    BY <1>7 DEF SendConfig, AllStarted, StartedDone, pipelineVars, tracingVars, loaderVars
<1>8. ASSUME NEW t \in Tables,
             \/ StartLoader(t) \/ Load(t) \/ LoadFails(t) \/ PublishTable(t) \/ AddWatch(t)
             \/ TakeEvent(t)
      PROVE  StartOK'
    <2>1. reader \notin {"down", "start", "announce"}
        BY <1>8 DEF StartLoader, Load, LoadFails, PublishTable, AddWatch, TakeEvent
    <2>2. UNCHANGED reader
        BY <1>8 DEF StartLoader, Load, LoadFails, PublishTable, AddWatch, TakeEvent, vars,
                    pipelineVars
    <2> QED BY <2>1, <2>2
<1>9. ASSUME NEW t \in Tables, Edit(t)
      PROVE  StartOK'
    BY <1>1, <1>9 DEF Edit, vars, pipelineVars, busVars, tracingVars
<1>10. ASSUME NEW c \in Clients, StreamStep(c)
       PROVE  StartOK'
    <2>1. UNCHANGED <<reader, todo, started, loader>>
        BY <1>10, StreamStepEffect DEF pipelineVars, loaderVars
    <2>2. reader = "down" => \A d \in Clients : phase'[d] \in {"off", "done"}
        BY <1>10, StreamStepEffect
    <2>3. \/ UNCHANGED outgoing
          \/ \E a \in {"add", "remove"}, q \in T!Requests : outgoing' = T!TraceMsg(a, q)
        BY <1>10, StreamStepEffect
    <2> QED BY <2>1, <2>2, <2>3, Messages
<1>11. CASE Beside(T!Responder)
    BY <1>1, <1>11, ResponderEffect DEF pipelineVars, loaderVars
<1>12. CASE UNCHANGED agentVars
    BY <1>1, <1>12 DEF agentVars, vars, pipelineVars, busVars, tracingVars, loaderVars
<1> QED BY AgentCases, <1>2, <1>3, <1>4, <1>5, <1>6, <1>7, <1>8, <1>9, <1>10, <1>11, <1>12

\* What VersionsOK says of one table.
VersionOK(t) ==
    /\ table[t] <= disk[t]
    /\ \A v \in 1 .. MaxVersion : OnItsWay(t, v) => table[t] <= v /\ v <= disk[t]
    /\ loader[t] = "publish" =>
          /\ 1 <= loaded[t] /\ loaded[t] <= disk[t]
          /\ table[t] <= loaded[t]
          /\ \A v \in 1 .. MaxVersion : OnItsWay(t, v) => v <= loaded[t]

\* Only its own loader's messages say anything of a table.
LEMMA VersionSame ==
    ASSUME NEW t \in Tables, VersionOK(t),
           \A v \in 1 .. MaxVersion : outgoing' = LoadMsg(t, v) => outgoing = LoadMsg(t, v),
           loader'[t] = loader[t] \/ loader'[t] # "publish",
           loaded'[t] = loaded[t] \/ loader'[t] # "publish",
           disk'[t] = disk[t], table'[t] = table[t]
    PROVE  VersionOK(t)'
BY DEF VersionOK, OnItsWay

\* No step brings an older version before a newer one.
LEMMA VersionsStep == AgentInv /\ [AgentNext]_agentVars => VersionsOK'
<1> SUFFICES ASSUME AgentInv, [AgentNext]_agentVars, NEW t \in Tables
             PROVE  VersionOK(t)'
    BY DEF VersionsOK, VersionOK
<1>a. VersionOK(t)
    BY DEF AgentInv, VersionsOK, VersionOK
<1>b. /\ table[t] \in 0 .. MaxVersion /\ disk[t] \in 1 .. MaxVersion
      /\ loaded[t] \in 0 .. MaxVersion /\ MaxVersion \in Nat
    BY VersionAssumption DEF AgentInv, AgentTypeOK
<1>1. ASSUME UNCHANGED <<loader, loaded, disk, table>>,
             \A v \in 1 .. MaxVersion : outgoing' = LoadMsg(t, v) => outgoing = LoadMsg(t, v)
      PROVE  VersionOK(t)'
    BY <1>a, <1>1, VersionSame
<1>2. CASE PipelineStep \/ Alone(DeviceGone)
    <2>1. UNCHANGED <<loader, loaded, disk, table>>
        BY <1>2 DEF PipelineStep, Alone, loaderVars, kernelVars
    <2>2. outgoing' \in {outgoing, Idle} \/ outgoing' \in AnswerMsg
        <3>1. CASE KernelSend \/ ReaderStep \/ DeviceGone \/ HandleCommand \/ Restart
            BY <3>1 DEF KernelSend, ReaderStep, OpenDevice, OpenFails, Scan, PublishIncoming,
                    ClearDevice, DeviceGone, HandleCommand, Restart, busVars
        <3>2. CASE CheckDevice \/ WriteFails
            BY <3>2 DEF CheckDevice, WriteFails, Discard, busVars
        <3>3. CASE PublishAnswer
            BY <3>3 DEF PublishAnswer, Publish, AnswerMsg, AgentInv, IInv, TypeOK
        <3> QED BY <1>2, <3>1, <3>2, <3>3 DEF PipelineStep, Alone
    <2> QED BY <1>1, <2>1, <2>2, Messages
<1>3. CASE AnnounceOpen \/ LogTrace \/ SendConfig \/ AllStarted
    <2>1. UNCHANGED <<loader, loaded, disk, table>>
        BY <1>3 DEF AnnounceOpen, LogTrace, SendConfig, AllStarted, loaderVars, kernelVars
    <2>2. UNCHANGED outgoing \/ outgoing' = ConfigMsg
        BY <1>3 DEF AnnounceOpen, Announce, LogTrace, HandleLog, SendConfig, AllStarted,
                    StartedDone, Publish
    <2> QED BY <1>1, <2>1, <2>2, Messages
<1>4. CASE WriteAndApply
    <2>1. outgoing' = Idle /\ outgoing \in Message /\ UNCHANGED <<loader, loaded, disk>>
        BY <1>4 DEF WriteAndApply, WriteDevice, loaderVars, AgentInv, IInv, TypeOK
    <2>2. CASE UNCHANGED table
        BY <1>1, <2>1, <2>2, Messages
    <2>3. ASSUME NEW s \in Tables, NEW v \in 1 .. MaxVersion, outgoing = LoadMsg(s, v),
                 outgoing.type # "answer"
          PROVE  VersionOK(t)'
        <3>1. table' = [table EXCEPT ![s] = v]
            BY <1>4, <2>3 DEF WriteAndApply, LoadMsg
        <3>2. CASE s = t
            <4>1. table'[t] = v
                BY <3>1, <3>2 DEF AgentInv, AgentTypeOK
            <4>2. v <= disk[t] /\ (loader[t] = "publish" => v <= loaded[t])
                BY <1>a, <2>3, <3>2 DEF VersionOK, OnItsWay
            <4>3. \A w \in 1 .. MaxVersion : outgoing' # LoadMsg(t, w)
                BY <2>1, Messages
            <4> QED BY <1>a, <2>1, <4>1, <4>2, <4>3 DEF VersionOK, OnItsWay
        <3>3. CASE s # t
            <4>1. table'[t] = table[t]
                BY <3>1, <3>3 DEF AgentInv, AgentTypeOK
            <4> QED BY <1>a, <2>1, <4>1, Messages, VersionSame
        <3> QED BY <3>2, <3>3
    <2>4. \/ UNCHANGED table
          \/ outgoing.type # "answer" /\ \E s \in Tables, v \in 1 .. MaxVersion : outgoing = LoadMsg(s, v)
        <3>1. CASE outgoing.type = "answer"
            BY <1>4, <3>1 DEF WriteAndApply, kernelVars
        <3>2. CASE outgoing = ConfigMsg /\ outgoing.type # "answer"
            BY <1>4, <3>2, Messages DEF WriteAndApply
        <3>3. ASSUME NEW a \in {"add", "remove"}, NEW q \in T!Requests, outgoing = T!TraceMsg(a, q),
                     outgoing.type # "answer"
              PROVE  UNCHANGED table
            BY <1>4, <3>3, Messages DEF WriteAndApply, kernelVars
        <3> QED BY <2>1, <3>1, <3>2, <3>3, WhatIsWritten
    <2> QED BY <2>2, <2>3, <2>4
<1>5. CASE AgentEnds
    <2>1. /\ outgoing' = Idle /\ UNCHANGED <<disk, table>>
          /\ loader' = [s \in Tables |-> "off"]
        BY <1>5 DEF AgentEnds, Stop, Kill, ProcessEnds, kernelVars
    <2>2. loader'[t] = "off"
        BY <2>1
    <2> QED BY <1>a, <2>1, <2>2, Messages, VersionSame
<1>6. ASSUME NEW s \in Tables, StartLoader(s) \/ LoadFails(s) \/ AddWatch(s) \/ TakeEvent(s)
      PROVE  VersionOK(t)'
    <2>1. UNCHANGED <<loaded, disk, table, outgoing>>
        BY <1>6 DEF StartLoader, LoadFails, AddWatch, TakeEvent, vars, busVars, kernelVars
    <2>2. loader'[t] = loader[t] \/ loader'[t] # "publish"
        BY <1>6 DEF StartLoader, LoadFails, AddWatch, TakeEvent, AgentInv, AgentTypeOK
    <2> QED BY <1>a, <2>1, <2>2, VersionSame
<1>7. ASSUME NEW s \in Tables, Load(s)
      PROVE  VersionOK(t)'
    <2>1. UNCHANGED <<disk, table, outgoing>>
        BY <1>7 DEF Load, vars, busVars, kernelVars
    <2>2. CASE s = t
        <3>1. loaded'[t] = disk[t]
            BY <1>7, <2>2 DEF Load, AgentInv, AgentTypeOK
        <3> QED BY <1>a, <1>b, <2>1, <3>1 DEF VersionOK, OnItsWay
    <2>3. CASE s # t
        <3>1. loaded'[t] = loaded[t] /\ loader'[t] = loader[t]
            BY <1>7, <2>3 DEF Load, AgentInv, AgentTypeOK
        <3> QED BY <1>a, <2>1, <3>1, VersionSame
    <2> QED BY <2>2, <2>3
<1>8. ASSUME NEW s \in Tables, PublishTable(s)
      PROVE  VersionOK(t)'
    <2>1. /\ UNCHANGED <<disk, table, loaded>> /\ outgoing' = LoadMsg(s, loaded[s])
          /\ loader[s] = "publish" /\ loader'[s] # "publish"
          /\ s # t => loader'[t] = loader[t]
        BY <1>8 DEF PublishTable, Publish, kernelVars, AgentInv, AgentTypeOK
    <2>2. loaded[s] \in 1 .. MaxVersion
        BY <2>1, VersionAssumption DEF AgentInv, AgentTypeOK, VersionsOK
    <2>3. CASE s = t
        <3>1. \A v \in 1 .. MaxVersion : outgoing' = LoadMsg(t, v) => v = loaded[t]
            BY <2>1, <2>2, <2>3, Messages
        <3> QED BY <1>a, <2>1, <2>3, <3>1 DEF VersionOK, OnItsWay
    <2>4. CASE s # t
        <3>1. \A v \in 1 .. MaxVersion : outgoing' # LoadMsg(t, v)
            BY <2>1, <2>2, <2>4, Messages
        <3> QED BY <1>a, <2>1, <2>4, <3>1, VersionSame
    <2> QED BY <2>3, <2>4
<1>9. ASSUME NEW s \in Tables, Edit(s)
      PROVE  VersionOK(t)'
    <2>1. UNCHANGED <<loaded, loader, table, outgoing>>
        BY <1>9 DEF Edit, vars, busVars, kernelVars
    <2>2. disk'[t] \in Nat /\ disk'[t] >= disk[t]
        BY <1>9 DEF Edit, AgentInv, AgentTypeOK
    <2>3. table'[t] <= disk'[t] /\ (loader'[t] = "publish" => loaded'[t] <= disk'[t])
        BY <1>a, <1>b, <2>1, <2>2 DEF VersionOK
    <2>4. \A v \in 1 .. MaxVersion : outgoing' = LoadMsg(t, v) => table'[t] <= v /\ v <= disk'[t]
        BY <1>a, <1>b, <2>1, <2>2 DEF VersionOK, OnItsWay
    <2> QED BY <1>a, <2>1, <2>3, <2>4 DEF VersionOK, OnItsWay
<1>10. ASSUME NEW c \in Clients, StreamStep(c)
       PROVE  VersionOK(t)'
    <2>1. UNCHANGED <<loader, loaded, disk, table>>
        BY <1>10, StreamStepEffect DEF AgentInv, loaderVars, kernelVars
    <2>2. \/ UNCHANGED outgoing
          \/ \E a \in {"add", "remove"}, q \in T!Requests : outgoing' = T!TraceMsg(a, q)
        BY <1>10, StreamStepEffect DEF AgentInv
    <2>3. \A a \in {"add", "remove"}, q \in T!Requests, v \in 1 .. MaxVersion :
              T!TraceMsg(a, q) # LoadMsg(t, v)
        BY Messages DEF LoadMsg
    <2> QED BY <1>1, <2>1, <2>2, <2>3
<1>11. CASE Beside(T!Responder)
    BY <1>1, <1>11, ResponderEffect DEF loaderVars, kernelVars
<1>12. CASE UNCHANGED agentVars
    BY <1>1, <1>12 DEF agentVars, vars, busVars, loaderVars, kernelVars
<1> QED BY AgentCases, <1>2, <1>3, <1>4, <1>5, <1>6, <1>7, <1>8, <1>9, <1>10, <1>11, <1>12

\* What the pipeline needs of its own invariants.
LEMMA PipelineInvStep ==
    IInv /\ DeviceState /\ [Next]_vars => IInv' /\ DeviceState'
BY TypeStep, OrderStep, AnswersOrderStep, DeviceStep DEF IInv

\* The agent starts as the pipeline does, with nothing of its own at work.
LEMMA InitAgentInv == AgentInit => AgentInv
<1> SUFFICES ASSUME AgentInit PROVE AgentInv
    OBVIOUS
<1>1. IInv /\ DeviceState
    BY InitIInv, NoAnswer DEF AgentInit, Init, DeviceState
<1>2. AgentTypeOK /\ StartOK
    <2>1. 0 \in 0 .. MaxVersion /\ 1 \in 1 .. MaxVersion
        BY VersionAssumption
    <2>2. AgentTypeOK
        BY <2>1 DEF AgentInit, AgentTypeOK
    <2>3. StartOK
        BY DEF AgentInit, Init, StartOK
    <2> QED BY <2>2, <2>3
<1>3. VersionsOK
    <2>1. \A t \in Tables : table[t] = 0 /\ disk[t] = 1 /\ loader[t] = "off" /\ outgoing = Idle
        BY DEF AgentInit, Init
    <2>2. \A t \in Tables, v \in 1 .. MaxVersion : ~OnItsWay(t, v)
        BY <2>1, Messages DEF OnItsWay
    <2> QED BY <2>1, <2>2 DEF VersionsOK
<1> QED BY <1>1, <1>2, <1>3 DEF AgentInv

\* Every step of the agent keeps the invariant.
LEMMA AgentInvStep == AgentInv /\ [AgentNext]_agentVars => AgentInv'
<1>1. AgentInv /\ [AgentNext]_agentVars => IInv' /\ DeviceState'
    BY PipelineStepImplemented, PipelineInvStep DEF AgentInv
<1> QED BY <1>1, AgentTypeStep, StartStep, VersionsStep DEF AgentInv

\* The inductive invariant holds of every behaviour of the agent.
LEMMA AgentInvariance == AgentSpec => []AgentInv
BY InitAgentInv, AgentInvStep, PTL DEF AgentSpec

-----------------------------------------------------------------------------
\* The agent and its command pipeline.

\* With the agent's own code in the place of its environment the pipeline is
\* still CommandPipeline: no loader, stream or subscriber of the agent does to
\* message.outgoing, trace.response or messenger.started what CommandPipeline
\* does not allow for.
THEOREM AgentRefinesPipeline == AgentSpec => Spec
<1>1. AgentInit => Init
    BY DEF AgentInit
<1>2. AgentInv /\ [AgentNext]_agentVars => [Next]_vars
    BY PipelineStepImplemented
<1> QED BY <1>1, <1>2, AgentInvariance, PTL DEF AgentSpec, Spec

\* The kernel gets the service CommandService promises from the whole agent:
\* answers in order, at most one to a command and none to a one-way message,
\* however many trace streams and tables share the outgoing topic.
THEOREM AgentImplementsService == AgentSpec => ImplementsService
BY AgentRefinesPipeline, Implementation

\* In the whole agent, too, a reply is answered, lost for a known reason or in
\* some goroutine's hands, and only one of these.
THEOREM AgentAccountsForReplies == AgentSpec => []EveryReplyAccountedFor
BY AgentRefinesPipeline, EveryReplyAccounted

\* Only trace requests are discarded for want of a device while the agent goes
\* on: the configuration, the tables and the answers are published by goroutines
\* that start when the device is open.
THEOREM OnlyTracesComeTooEarlyCorrect == AgentSpec => []OnlyTracesComeTooEarly
<1>1. AgentInv => OnlyTracesComeTooEarly
    BY DEF AgentInv, DeviceState, StartOK, OnlyTracesComeTooEarly
<1> QED BY <1>1, AgentInvariance, PTL

\* A step that writes a table to the device writes no older version than the
\* kernel module has, whenever files are edited and the agent is restarted.
THEOREM TablesNeverGoBackCorrect == AgentSpec => TablesNeverGoBack
<1>1. AgentInv /\ [AgentNext]_agentVars =>
          [\A t \in Tables : table'[t] >= table[t]]_agentVars
    <2> SUFFICES ASSUME AgentInv, [AgentNext]_agentVars, NEW t \in Tables
                 PROVE  table'[t] >= table[t]
        OBVIOUS
    <2>0. table[t] \in Nat
        BY DEF AgentInv, AgentTypeOK
    <2>1. CASE UNCHANGED table
        BY <2>0, <2>1
    <2>2. CASE WriteAndApply
        <3>1. outgoing \in Message
            BY <2>2 DEF WriteAndApply, WriteDevice, AgentInv, IInv, TypeOK
        <3>2. CASE outgoing.type = "answer"
            BY <2>1, <2>2, <3>2 DEF WriteAndApply, kernelVars
        <3>3. CASE outgoing = ConfigMsg /\ outgoing.type # "answer"
            BY <2>1, <2>2, <3>3, Messages DEF WriteAndApply
        <3>4. ASSUME NEW s \in Tables, NEW v \in 1 .. MaxVersion, outgoing = LoadMsg(s, v),
                     outgoing.type # "answer"
              PROVE  table'[t] >= table[t]
            <4>1. table' = [table EXCEPT ![s] = v]
                BY <2>2, <3>4 DEF WriteAndApply, LoadMsg
            <4>2. table[s] <= v
                BY <3>4 DEF AgentInv, VersionsOK, OnItsWay
            <4> QED BY <2>0, <4>1, <4>2 DEF AgentInv, AgentTypeOK
        <3>5. ASSUME NEW a \in {"add", "remove"}, NEW q \in T!Requests,
                     outgoing = T!TraceMsg(a, q), outgoing.type # "answer"
              PROVE  table'[t] >= table[t]
            BY <2>1, <2>2, <3>5, Messages DEF WriteAndApply, kernelVars
        <3> QED BY <3>1, <3>2, <3>3, <3>4, <3>5, WhatIsWritten
    <2>3. PipelineStep \/ Alone(DeviceGone) \/ AnnounceOpen \/ LogTrace \/ AgentEnds
          \/ SendConfig \/ AllStarted \/ UNCHANGED agentVars => UNCHANGED table
        BY DEF PipelineStep, Alone, AnnounceOpen, LogTrace, AgentEnds, SendConfig,
               AllStarted, agentVars, kernelVars
    <2>4. ASSUME NEW s \in Tables,
                 \/ StartLoader(s) \/ Load(s) \/ LoadFails(s) \/ PublishTable(s) \/ AddWatch(s)
                 \/ TakeEvent(s) \/ Edit(s)
          PROVE  UNCHANGED table
        BY <2>4 DEF StartLoader, Load, LoadFails, PublishTable, AddWatch, TakeEvent, Edit,
                    kernelVars
    <2>5. ASSUME NEW c \in Clients, StreamStep(c)
          PROVE  UNCHANGED table
        BY <2>5, StreamStepEffect DEF AgentInv, kernelVars
    <2>6. Beside(T!Responder) => UNCHANGED table
        BY ResponderEffect DEF kernelVars
    <2> QED BY AgentCases, <2>1, <2>2, <2>3, <2>4, <2>5, <2>6
<1> QED BY <1>1, AgentInvariance, PTL DEF AgentSpec, TablesNeverGoBack

-----------------------------------------------------------------------------
\* The trace streams of the agent.

\* What TracingProofs assumes of its constants holds of the agent's.
LEMMA TracingAssumptions ==
    /\ TP!WindowAssumption /\ TP!ClientsAssumption /\ TP!OptionsAssumption
    /\ TP!LogsAssumption /\ TP!StreamsIdleAssumption
<1>1. /\ TP!WindowAssumption /\ TP!OptionsAssumption /\ TP!LogsAssumption
    BY StreamsAssumption, BoundAssumption
    DEF T!WindowAssumption, T!OptionsAssumption,
        TP!WindowAssumption, TP!OptionsAssumption, TP!LogsAssumption
<1>0. TP!ClientsAssumption
    BY StreamsAssumption
    DEF T!ClientsAssumption, TP!ClientsAssumption, T!IsFiniteSet, TP!IsFiniteSet
<1>2. \A c \in Clients : T!Request(c) = TP!Request(c)
    BY DEF T!Request, T!RequestOf, T!Unset, TP!Request, TP!RequestOf, TP!Unset
<1>3. T!Requests = TP!Requests
    BY <1>2 DEF T!Requests, TP!Requests
<1>4. \A a, r : T!TraceMsg(a, r) = TP!TraceMsg(a, r)
    BY DEF T!TraceMsg, TP!TraceMsg
<1>5. TP!StreamsIdleAssumption
    BY <1>3, <1>4, StreamsAssumption DEF T!StreamsIdleAssumption, TP!StreamsIdleAssumption
<1> QED BY <1>0, <1>1, <1>5

\* Agent and TracingProofs mean the same streams.
LEMMA SameStreams ==
    /\ \A c \in Clients :
          /\ T!Connect(c) <=> TP!Connect(c)
          /\ T!GoAway(c) <=> TP!GoAway(c)
          /\ T!Read(c) <=> TP!Read(c)
          /\ T!PublishAdd(c) <=> TP!PublishAdd(c)
          /\ T!Subscribe(c) <=> TP!Subscribe(c)
          /\ T!Unsubscribe(c) <=> TP!Unsubscribe(c)
          /\ T!PublishRemove(c) <=> TP!PublishRemove(c)
          /\ T!Call(c) <=> TP!Call(c)
    /\ T!TakeResponse <=> TP!TakeResponse
    /\ T!Send <=> TP!Send
    /\ T!FanoutDone <=> TP!FanoutDone
    /\ T!StreamsBreak <=> TP!StreamsBreak
    /\ T!StreamsInit <=> TP!StreamsInit
<1>1. ASSUME NEW c \in Clients
      PROVE  /\ T!Connect(c) <=> TP!Connect(c)
             /\ T!GoAway(c) <=> TP!GoAway(c)
             /\ T!Read(c) <=> TP!Read(c)
             /\ T!Subscribe(c) <=> TP!Subscribe(c)
             /\ T!Unsubscribe(c) <=> TP!Unsubscribe(c)
    BY DEF T!Connect, T!GoAway, T!Read, T!Subscribe, T!Unsubscribe, T!NoFilter, T!busVars,
           TP!Connect, TP!GoAway, TP!Read, TP!Subscribe, TP!Unsubscribe, TP!NoFilter, TP!busVars
<1>2. ASSUME NEW c \in Clients
      PROVE  /\ T!PublishAdd(c) <=> TP!PublishAdd(c)
             /\ T!PublishRemove(c) <=> TP!PublishRemove(c)
    BY DEF T!PublishAdd, T!PublishRemove, T!Publish, T!TraceMsg, T!Request, T!RequestOf,
           T!Unset, TP!PublishAdd, TP!PublishRemove, TP!Publish, TP!TraceMsg, TP!Request,
           TP!RequestOf, TP!Unset
<1>3. ASSUME NEW c \in Clients
      PROVE  T!Call(c) <=> TP!Call(c)
    BY DEF T!Call, T!Matches, T!Request, T!RequestOf, T!Unset, T!busVars,
           TP!Call, TP!Matches, TP!Request, TP!RequestOf, TP!Unset, TP!busVars
<1>4. /\ T!TakeResponse <=> TP!TakeResponse
      /\ T!Send <=> TP!Send
      /\ T!FanoutDone <=> TP!FanoutDone
    BY DEF T!TakeResponse, T!Send, T!FanoutDone, T!busVars,
           TP!TakeResponse, TP!Send, TP!FanoutDone, TP!busVars
<1>5. /\ T!StreamsBreak <=> TP!StreamsBreak
      /\ T!StreamsInit <=> TP!StreamsInit
    BY DEF T!StreamsBreak, T!StreamsInit, T!Requests, T!Request, T!RequestOf, T!Unset,
           TP!StreamsBreak, TP!StreamsInit, TP!Requests, TP!Request, TP!RequestOf, TP!Unset
<1> QED BY <1>1, <1>2, <1>3, <1>4, <1>5

\* ... and the same feed.
LEMMA SameFeed == CompleteFeedInAgent <=> TP!CompleteFeed
BY DEF CompleteFeedInAgent, T!CompleteFeed, T!Feed, T!MatchesIn, T!Matches, T!Request,
       T!RequestOf, T!Unset, TP!CompleteFeed, TP!Feed, TP!MatchesIn, TP!Matches,
       TP!Request, TP!RequestOf, TP!Unset

\* No step of the agent makes a stream lose a response, or carry one it was not
\* asked for.
LEMMA StreamsStep ==
    AgentInv /\ TP!StreamInv /\ [AgentNext]_agentVars => TP!StreamInv'
<1> SUFFICES ASSUME AgentInv, TP!StreamInv, [AgentNext]_agentVars
             PROVE  TP!StreamInv'
    OBVIOUS
<1> USE TracingAssumptions
<1>1. CASE UNCHANGED <<phase, gone, subscribers, fanout, sending, received, unread,
                       logged, since, responses>>
    BY <1>1, TP!StreamsRest
<1>2. CASE LogTrace
    <2> DEFINE r == [id |-> incoming, ctx |-> sent[incoming].ctx]
    <2>1. incoming \in 1 .. Len(sent) /\ sent[incoming] \in Commands
        BY <1>2 DEF LogTrace, HandleLog, AgentInv, IInv, TypeOK
    <2>2. r \in TP!AnyResponse
        BY <2>1 DEF TP!AnyResponse, Commands
    <2>3. responses = Idle /\ responses' = r /\ logged' = Append(logged, r)
        BY <1>2 DEF LogTrace, HandleLog, Publish
    <2>4. UNCHANGED <<phase, gone, subscribers, fanout, sending, received, unread, since>>
        BY <1>2 DEF LogTrace
    <2> HIDE DEF r
    <2> QED BY <2>2, <2>3, <2>4, TP!LogStep
<1>3. CASE AgentEnds
    <2>1. TP!StreamsBreak /\ responses' = Idle
        BY <1>3, SameStreams DEF AgentEnds, Stop, Kill, ProcessEnds
    <2> QED BY <2>1, TP!BreakStep
<1>4. ASSUME NEW c \in Clients, StreamStep(c)
      PROVE  TP!StreamInv'
    <2>1. \/ TP!Connect(c) \/ TP!Read(c) \/ TP!GoAway(c)
          \/ TP!PublishAdd(c) \/ TP!PublishRemove(c)
          \/ TP!Subscribe(c) \/ TP!Unsubscribe(c)
        BY <1>4, SameStreams DEF StreamStep, Connect, Beside
    <2> QED BY <2>1, TP!ClientStep, TP!GoAwayStep, TP!PublishStep, TP!SubscribeStep,
               TP!UnsubscribeStep
<1>5. CASE Beside(T!Responder)
    <2>1. \/ TP!TakeResponse \/ TP!Send \/ TP!FanoutDone
          \/ \E c \in Clients : TP!Call(c)
        BY <1>5, SameStreams DEF Beside, T!Responder
    <2> QED BY <2>1, TP!TakeStep, TP!CallStep, TP!SendStep, TP!FanoutDoneStep
<1>6. ASSUME \/ PipelineStep \/ Alone(DeviceGone) \/ AnnounceOpen \/ WriteAndApply
             \/ SendConfig \/ AllStarted
      PROVE  UNCHANGED <<phase, gone, subscribers, fanout, sending, received, unread,
                         logged, since, responses>>
    <2>1. CASE PipelineStep \/ Alone(DeviceGone)
        <3>1. UNCHANGED responses
            BY <2>1 DEF PipelineStep, Alone, KernelSend, ReaderStep, OpenDevice, OpenFails,
                    Scan, PublishIncoming, ClearDevice, DeviceGone, HandleCommand,
                    PublishAnswer, CheckDevice, WriteFails, Discard, Restart, busVars
        <3> QED BY <2>1, <3>1 DEF PipelineStep, Alone, tracingVars
    <2>2. CASE AnnounceOpen \/ SendConfig \/ AllStarted
        BY <2>2 DEF AnnounceOpen, Announce, SendConfig, AllStarted, StartedDone, tracingVars
    <2>3. CASE WriteAndApply
        BY <2>3 DEF WriteAndApply, WriteDevice
    <2> QED BY <1>6, <2>1, <2>2, <2>3
<1>7. ASSUME NEW t \in Tables,
             \/ StartLoader(t) \/ Load(t) \/ LoadFails(t) \/ PublishTable(t) \/ AddWatch(t)
             \/ TakeEvent(t) \/ Edit(t)
      PROVE  UNCHANGED <<phase, gone, subscribers, fanout, sending, received, unread,
                         logged, since, responses>>
    BY <1>7 DEF StartLoader, Load, LoadFails, PublishTable, AddWatch, TakeEvent, Edit, vars,
                busVars, tracingVars
<1>8. UNCHANGED agentVars =>
          UNCHANGED <<phase, gone, subscribers, fanout, sending, received, unread,
                      logged, since, responses>>
    BY DEF agentVars, vars, busVars, tracingVars
<1> QED BY AgentCases, <1>1, <1>2, <1>3, <1>4, <1>5, <1>6, <1>7, <1>8

\* The trace feed of every stream is complete in the whole agent: the log
\* commands that feed it share their pipeline with all other commands, and the
\* process may end in the middle of a response.
THEOREM CompleteFeedInAgentCorrect == AgentSpec => []CompleteFeedInAgent
<1>1. AgentInit => TP!StreamInv
    BY SameStreams, TracingAssumptions, TP!InitStreamInv
    DEF AgentInit, Init, TP!Init
<1>2. AgentInv /\ TP!StreamInv /\ [AgentNext]_agentVars => TP!StreamInv'
    BY StreamsStep
<1>3. TP!StreamInv => CompleteFeedInAgent
    BY SameFeed, TracingAssumptions, TP!FeedIsComplete
<1> QED BY <1>1, <1>2, <1>3, AgentInvariance, PTL DEF AgentSpec

\* A user of the running agent sees no trace that does not meet every flag that
\* reaches the request (uid 0 does not).
THEOREM AgentShowsOnlyWhatWasAskedFor == AgentSpec => []T!OnlyWhatWasAskedFor
<1>1. AgentInit => TP!StreamInv
    BY SameStreams, TracingAssumptions, TP!InitStreamInv
    DEF AgentInit, Init, TP!Init
<1>2. AgentInv /\ TP!StreamInv /\ [AgentNext]_agentVars => TP!StreamInv'
    BY StreamsStep
<1>3. TP!StreamInv => T!OnlyWhatWasAskedFor
    BY TracingAssumptions, TP!RequestMeetsFlags
    DEF TP!OnlyWhatWasAskedFor, T!OnlyWhatWasAskedFor
<1> QED BY <1>1, <1>2, <1>3, AgentInvariance, PTL DEF AgentSpec

=============================================================================
