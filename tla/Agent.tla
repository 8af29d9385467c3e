------------------------------- MODULE Agent -------------------------------
(***************************************************************************)
(* agentCommand.run: the command pipeline, the Trace service and what      *)
(* happens when the device is open (config, service and policy tables are  *)
(* sent to the kernel module, and sent again when their files change), all *)
(* on one event bus and in one process.  What CommandPipeline and Tracing  *)
(* leave to their environments is here the other's code.                   *)
(*                                                                         *)
(* The files of a table are one version number; FileContentLoader reads    *)
(* them.                                                                   *)
(***************************************************************************)
EXTENDS CommandPipeline

CONSTANTS
    Clients,      \* trace streams, see Tracing
    Options,
    Window,
    Tables,       \* what is loaded from files: {"services", "policies"}
    MaxVersion    \* bound: how often the files of a table are edited

ASSUME VersionAssumption == MaxVersion \in Nat \ {0}

VARIABLES
    \* Tracing
    phase, gone, subscribers, fanout, sending, received, unread, logged, since,
    traced,
    \* the handlers of messenger.started and the loaders they start
    todo,         \* handlers of messenger.started still to run
    loader,       \* where the loader of a table stands in Run, "failed" when
                  \* Run has returned an error
    watching,     \* its path is registered with the watcher
    event,        \* the watcher has an event for it
    loaded,       \* version it has read last
    disk,         \* version its files have
    broken,       \* one of them cannot be read
    \* the kernel module
    config,       \* it has been sent its configuration
    table         \* version of each table it was sent last, 0 for none

T == INSTANCE Tracing WITH MaxLogs <- MaxCommands

tracingVars == <<phase, gone, subscribers, fanout, sending, received, unread,
                 logged, since, traced>>
loaderVars  == <<todo, loader, watching, event, loaded, disk, broken>>
kernelVars  == <<config, table>>
agentVars   == <<vars, tracingVars, loaderVars, kernelVars>>

-----------------------------------------------------------------------------
\* Messages other than answers.

ConfigMsg      == [type |-> "push", body |-> [action |-> "config"]]
LoadMsg(t, v)  == [type |-> "push", body |-> [action |-> "load", table |-> t, version |-> v]]

AgentPushes ==
    {[action |-> "config"]}
    \cup [action : {"load"}, table : Tables, version : 1 .. MaxVersion]
    \cup [action : {"add", "remove"}, request : T!Requests]

\* What CommandPipeline calls the messages of other publishers are these.
ASSUME PushesAssumption == Pushes = AgentPushes

\* The assumptions of Tracing.
ASSUME StreamsAssumption ==
    /\ T!WindowAssumption /\ T!ClientsAssumption /\ T!OptionsAssumption
    /\ T!StreamsIdleAssumption

-----------------------------------------------------------------------------
\* The command pipeline inside the agent.

\* A step of the pipeline that touches nothing else.
Alone(step) == step /\ UNCHANGED <<tracingVars, loaderVars, kernelVars>>

\* The reader's steps but Announce.
ReaderStep == OpenDevice \/ OpenFails \/ Scan \/ PublishIncoming \/ ClearDevice

PipelineStep ==
    \/ Alone(KernelSend) \/ Alone(ReaderStep)
    \/ Alone(HandleCommand) \/ Alone(PublishAnswer)
    \/ Alone(CheckDevice) \/ Alone(WriteFails) \/ Alone(Restart)

\* The bus runs the three handlers of messenger.started, in no fixed order.
AnnounceOpen ==
    /\ Announce
    /\ todo' = {"config"} \cup Tables
    /\ UNCHANGED <<tracingVars, loader, watching, event, loaded, disk, broken, kernelVars>>

LogTrace ==
    /\ HandleLog
    /\ logged' = Append(logged, responses')
    /\ UNCHANGED <<phase, gone, subscribers, fanout, sending, received, unread,
                   since, traced, loaderVars, kernelVars>>

\* The kernel module acts on what the device was written.
WriteAndApply ==
    /\ WriteDevice
    /\ IF outgoing.type = "answer"
       THEN UNCHANGED <<traced, kernelVars>>
       ELSE CASE outgoing.body.action = "config" ->
                   config' = TRUE /\ UNCHANGED <<table, traced>>
              [] outgoing.body.action = "load" ->
                   /\ table' = [table EXCEPT ![outgoing.body.table] = outgoing.body.version]
                   /\ UNCHANGED <<config, traced>>
              [] outgoing.body.action \in {"add", "remove"} ->
                   T!KernelTakes(outgoing) /\ UNCHANGED kernelVars
    /\ UNCHANGED <<phase, gone, subscribers, fanout, sending, received, unread,
                   logged, since, loaderVars>>

\* All goroutines end with the process; files and kernel module stay.
AgentEnds ==
    /\ Stop \/ Kill
    /\ T!StreamsBreak
    /\ todo' = {}
    /\ loader' = [t \in Tables |-> "off"]
    /\ watching' = [t \in Tables |-> FALSE]
    /\ event' = [t \in Tables |-> FALSE]
    /\ loaded' = [t \in Tables |-> 0]
    /\ UNCHANGED <<disk, broken, kernelVars>>

\* agentCommand.run receives the error of a loader and gives up.
GiveUp == Kill /\ \E t \in Tables : loader[t] = "failed"

-----------------------------------------------------------------------------
\* The handlers of messenger.started.

SendConfig ==
    /\ started # Idle /\ "config" \in todo
    /\ Publish(outgoing, ConfigMsg)
    /\ todo' = todo \ {"config"}
    /\ UNCHANGED <<pipelineVars, incoming, responses, started, tracingVars,
                   loader, watching, event, loaded, disk, broken, kernelVars>>

StartLoader(t) ==
    /\ started # Idle /\ t \in todo
    /\ todo' = todo \ {t}
    /\ loader' = [loader EXCEPT ![t] = "load"]
    /\ UNCHANGED <<vars, tracingVars, watching, event, loaded, disk, broken, kernelVars>>

AllStarted ==
    /\ todo = {}
    /\ StartedDone
    /\ UNCHANGED <<tracingVars, loaderVars, kernelVars>>

-----------------------------------------------------------------------------
\* A table's loader: fileContentLoader.Run with the callbacks of agentCommand.

Load(t) ==
    /\ loader[t] = "load" /\ ~broken[t]
    /\ loaded' = [loaded EXCEPT ![t] = disk[t]]
    /\ loader' = [loader EXCEPT ![t] = "publish"]
    /\ UNCHANGED <<vars, tracingVars, todo, watching, event, disk, broken, kernelVars>>

\* Something in the directory cannot be read, and the load fails as a whole: the
\* callback is not called.  On an event the error is only logged; from the first
\* load Run returns it.
LoadFails(t) ==
    /\ loader[t] = "load" /\ broken[t]
    /\ loader' = [loader EXCEPT ![t] = IF watching[t] THEN "watch" ELSE "failed"]
    /\ UNCHANGED <<vars, tracingVars, todo, watching, event, loaded, disk, broken, kernelVars>>

\* Mutant: the events that came while the files were loaded are drained.
PublishTableAndDrain(t) ==
    /\ loader[t] = "publish"
    /\ Publish(outgoing, LoadMsg(t, loaded[t]))
    /\ loader' = [loader EXCEPT ![t] = IF watching[t] THEN "watch" ELSE "add"]
    /\ event' = [event EXCEPT ![t] = FALSE]
    /\ UNCHANGED <<pipelineVars, incoming, responses, started, tracingVars, todo,
                   watching, loaded, disk, broken, kernelVars>>

\* Mutant: every load publishes from a goroutine of its own, so that the one of
\* an older load may get its turn later.
PublishTableAnyOrder(t) ==
    /\ loader[t] = "publish"
    /\ \E v \in 1 .. loaded[t] : Publish(outgoing, LoadMsg(t, v))
    /\ loader' = [loader EXCEPT ![t] = IF watching[t] THEN "watch" ELSE "add"]
    /\ UNCHANGED <<pipelineVars, incoming, responses, started, tracingVars, todo,
                   watching, event, loaded, disk, broken, kernelVars>>

\* The callback runs inside load: the loader goes on when its message is taken.
PublishTable(t) ==
    /\ loader[t] = "publish"
    /\ Publish(outgoing, LoadMsg(t, loaded[t]))
    /\ loader' = [loader EXCEPT ![t] = IF watching[t] THEN "watch" ELSE "add"]
    /\ UNCHANGED <<pipelineVars, incoming, responses, started, tracingVars, todo,
                   watching, event, loaded, disk, broken, kernelVars>>

AddWatch(t) ==
    /\ loader[t] = "add"
    /\ watching' = [watching EXCEPT ![t] = TRUE]
    /\ loader' = [loader EXCEPT ![t] = "watch"]
    /\ UNCHANGED <<vars, tracingVars, todo, event, loaded, disk, broken, kernelVars>>

TakeEvent(t) ==
    /\ loader[t] = "watch" /\ event[t]
    /\ event' = [event EXCEPT ![t] = FALSE]
    /\ loader' = [loader EXCEPT ![t] = "load"]
    /\ UNCHANGED <<vars, tracingVars, todo, watching, loaded, disk, broken, kernelVars>>

\* Somebody changes the files, or who may read them; the watcher notices if it
\* watches them.
Edit(t) ==
    /\ disk[t] < MaxVersion
    /\ disk' = [disk EXCEPT ![t] = @ + 1]
    /\ \E b \in BOOLEAN : broken' = [broken EXCEPT ![t] = b]
    /\ event' = [event EXCEPT ![t] = watching[t]]
    /\ UNCHANGED <<vars, tracingVars, todo, loader, watching, loaded, kernelVars>>

-----------------------------------------------------------------------------
\* The Trace service inside the agent: the API server listens from the start
\* of the process, whether or not the device is open.

Beside(step) == step /\ UNCHANGED <<pipelineVars, loaderVars, kernelVars>>

Connect(c) == reader # "down" /\ Beside(T!Connect(c))

StreamStep(c) ==
    \/ Connect(c) \/ Beside(T!GoAway(c)) \/ Beside(T!Read(c))
    \/ Beside(T!PublishAdd(c)) \/ Beside(T!Subscribe(c))
    \/ Beside(T!Unsubscribe(c)) \/ Beside(T!PublishRemove(c))

-----------------------------------------------------------------------------
AgentInit ==
    /\ Init
    /\ T!StreamsInit
    /\ todo = {}
    /\ loader = [t \in Tables |-> "off"]
    /\ watching = [t \in Tables |-> FALSE]
    /\ event = [t \in Tables |-> FALSE]
    /\ loaded = [t \in Tables |-> 0]
    /\ disk = [t \in Tables |-> 1]
    /\ broken \in [Tables -> BOOLEAN]
    /\ config = FALSE
    /\ table = [t \in Tables |-> 0]

LoaderStep(t) ==
    \/ StartLoader(t) \/ Load(t) \/ LoadFails(t) \/ PublishTable(t) \/ AddWatch(t)
    \/ TakeEvent(t)
    \/ Edit(t)

\* What happens while the device stays and nobody kills the agent.
AgentWorks ==
    \/ PipelineStep \/ AnnounceOpen \/ LogTrace \/ WriteAndApply
    \/ SendConfig \/ AllStarted
    \/ \E t \in Tables : LoaderStep(t)
    \/ \E c \in Clients : StreamStep(c)
    \/ Beside(T!Responder)

AgentNext == AgentWorks \/ Alone(DeviceGone) \/ AgentEnds

AgentSpec == AgentInit /\ [][AgentNext]_agentVars

\* As in CommandPipeline and Tracing, without the assumption that somebody takes
\* the trace responses; all publishers on message.outgoing wait their turn (SF).
AgentFairness ==
    /\ WF_agentVars(Alone(ReaderStep) \/ AnnounceOpen)
    /\ WF_agentVars(Alone(HandleCommand) \/ LogTrace)
    /\ SF_agentVars(Alone(PublishAnswer))
    /\ WF_agentVars(Alone(CheckDevice) \/ WriteAndApply \/ Alone(WriteFails))
    /\ WF_agentVars(((Stop \/ GiveUp) /\ AgentEnds) \/ Alone(Restart))
    /\ SF_agentVars(SendConfig)
    /\ WF_agentVars(AllStarted)
    /\ WF_agentVars(Beside(T!Responder))
    /\ \A t \in Tables :
          /\ WF_agentVars(StartLoader(t) \/ Load(t) \/ LoadFails(t) \/ AddWatch(t)
                             \/ TakeEvent(t))
          /\ SF_agentVars(PublishTable(t))
    /\ \A c \in Clients :
          /\ WF_agentVars(Beside(T!Subscribe(c)) \/ Beside(T!Unsubscribe(c)))
          /\ SF_agentVars(Beside(T!PublishAdd(c)))
          /\ SF_agentVars(Beside(T!PublishRemove(c)))
          /\ WF_agentVars(Beside(T!Read(c)))

FairAgentSpec == AgentSpec /\ AgentFairness

\* The behaviours in which the device stays once it was there and nobody kills
\* the agent; it is restarted when it cannot open the device.  (More restarts make
\* too many states to follow three commands through.)
SteadyNext == AgentWorks \/ (Stop /\ AgentEnds)
SteadyAgentSpec == AgentInit /\ [][SteadyNext]_agentVars /\ AgentFairness

-----------------------------------------------------------------------------
\* Properties.  ImplementsService and Tracing's CompleteFeed are those of the
\* parts, checked here with the other parts' code in the place of the
\* environments they assume.

\* Configuration, tables and answers are not lost to a device that is not open:
\* what messenger.go:60 throws away while the agent carries on can only be a
\* trace request, which a client may send before the device is open.
OnlyTracesComeTooEarly ==
    outgoing # Idle /\ writer = "check" /\ dev = "nil" /\ reader # "ended" =>
        outgoing.type = "push" /\ outgoing.body.action \in {"add", "remove"}

\* The feed of a trace stream is complete also when the responses come from the
\* log commands of a pipeline that is shared with others.
CompleteFeedInAgent == T!CompleteFeed

\* The kernel module never gets older files after newer ones, over restarts of
\* the agent too: loads of a table are published one after the other.
TablesNeverGoBack == [][\A t \in Tables : table'[t] >= table[t]]_agentVars

\* From some point on nobody kills the agent and the device stays.
Healthy == <>[][~(Kill \/ OpenFails \/ DeviceGone)]_agentVars

\* A healthy agent brings the kernel module up to date, through every contention
\* for message.outgoing and every restart before: it sends the configuration,
\* and every version of a table's files that is there when the loader is yet to
\* load them or has an event for them, provided an open device takes every write
\* (WriteErrors is FALSE: a message whose write failed is not sent again) and the
\* files can be read in the end: the loads that fail before that, with all that is
\* new in the readable files, are made up for (file_content_loader.go:94-96).  An
\* edit between the first load and watcher.Add, file_content_loader.go:67-84, is
\* not among these versions.
KernelUpToDate ==
    Healthy /\ <>[](\A t \in Tables : ~broken[t]) =>
        /\ <>config
        /\ \A t \in Tables, v \in 1 .. MaxVersion :
              (disk[t] >= v /\ (loader[t] \in {"off", "load"} \/ event[t]))
                  ~> table[t] >= v

\* Once the device is open the agent catches up with the kernel again and again (as
\* commands are bounded, each that wants a reply is answered), whatever the trace
\* streams do meanwhile: the log handler waits for the trace.response goroutine,
\* that for clients whose windows are full (trace.go:58), they and the answers for
\* the message.outgoing goroutine, and none of them waits in a circle or for a
\* client that is gone.
EveryCommandAnswered == []<>(
    \A id \in 1 .. Len(sent) : dev = "open" /\ NeedsReply(id) => id \in AnsweredIds)

\* internal/cli/cmd/agent/trace.go:112 tells the user "tracing started" when the
\* stream is open: then a healthy agent has, or will have, asked the kernel
\* module for the traces.
StartedMeansTraced == \A c \in Clients :
    Healthy =>
        (phase[c] = "wait" ~>
            traced[T!Request(c)] > 0 \/ gone[c] \/ phase[c] = "done")
=============================================================================
