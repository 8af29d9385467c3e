------------------------------ MODULE Tracing ------------------------------
(***************************************************************************)
(* Connection tracing: a CLI opens a stream to the agent's Trace service,  *)
(* which asks the kernel module for the traces of a pid, uid or command,   *)
(* subscribes to trace.response, sends what matches down the stream until  *)
(* the client goes away, and withdraws the request.  One goroutine per     *)
(* stream, the trace.response goroutine, and the clients.                  *)
(*                                                                         *)
(* The log commands the responses come from and the device the requests    *)
(* are written to belong to CommandPipeline; here Emit and DeviceTakes     *)
(* stand for them.  Agent puts the two together.                           *)
(***************************************************************************)
EXTENDS Integers, Sequences, FiniteSets, EventBus

CONSTANTS
    Clients,      \* the streams; each is opened at most once
    Options,      \* the command line of each client: [pid, uid, name]
    Contexts,     \* task contexts that log: [pid, uid, name]
    Window,       \* responses a stream buffers before Send blocks (flow control)
    MaxLogs       \* bound: how many responses are published

ASSUME WindowAssumption == Window \in Nat \ {0}

ASSUME ClientsAssumption == IsFiniteSet(Clients)

ASSUME OptionsAssumption ==
    Options \in [Clients -> [pid : Int, uid : Int, name : STRING]]

ASSUME LogsAssumption == MaxLogs \in Nat

-----------------------------------------------------------------------------
\* Requests.

\* An optional uid that is not in the request.
Unset == -1

\* The request the CLI builds from its flags; pid 0 and name "" are not set.
RequestOf(o) ==
    [pid  |-> IF o.pid >= 1 THEN o.pid ELSE 0,
     uid  |-> IF o.uid > 0 THEN o.uid ELSE Unset,
     name |-> o.name]

\* The flags the CLI refuses.
NoFilter(o) == o.name = "" /\ o.pid < 1 /\ o.uid < 0

Request(c) == RequestOf(Options[c])

Requests == {Request(c) : c \in Clients}

\* The message that asks the kernel module for traces, or withdraws a request.
\* It does not tell whose request it is.
TraceMsg(action, request) ==
    [type |-> "push", body |-> [action |-> action, request |-> request]]

\* An idle goroutine is told from one that works on a client, a set of them, a
\* response or a trace request.
ASSUME StreamsIdleAssumption ==
    /\ Idle \notin Clients
    /\ \A S \in SUBSET Clients : Idle # S
    /\ Idle \notin [id : Nat, ctx : Contexts]
    /\ \A r \in Requests : Idle \notin {TraceMsg("add", r), TraceMsg("remove", r)}

VARIABLES
    phase,        \* where the stream's goroutine stands in Trace
    gone,         \* the client has gone away: the stream's context is done
    subscribers,  \* handlers registered on trace.response
    fanout,       \* handlers the response in hand still goes to, or Idle
    sending,      \* client whose handler is in srv.Send, or Idle
    received,     \* responses put on each stream
    unread,       \* how many of them the client has not read yet
    logged,       \* every response published, in order
    since,        \* how many there were when the stream subscribed
    traced        \* how often the kernel module was asked for each request,
                  \* less how often it was withdrawn

tracingVars == <<phase, gone, subscribers, fanout, sending, received, unread, logged, since, traced>>
vars == <<tracingVars, busVars>>

-----------------------------------------------------------------------------
\* Which responses meet a request.

\* Mutant: one filter that fits is enough.
MatchesAny(req, ctx) ==
    \/ req.pid > 0 /\ req.pid = ctx.pid
    \/ req.uid # Unset /\ req.uid = ctx.uid
    \/ req.name # "" /\ req.name = ctx.name

Matches(req, ctx) ==
    /\ req.pid > 0 => req.pid = ctx.pid
    /\ req.uid # Unset => req.uid = ctx.uid
    /\ req.name # "" => req.name = ctx.name

-----------------------------------------------------------------------------
\* The client.

Connect(c) ==
    /\ phase[c] = "off"
    /\ ~NoFilter(Options[c])
    /\ phase' = [phase EXCEPT ![c] = "add"]
    /\ UNCHANGED <<gone, subscribers, fanout, sending, received, unread, logged, since,
                   traced, busVars>>

GoAway(c) ==
    /\ phase[c] \notin {"off", "done"} /\ ~gone[c]
    /\ gone' = [gone EXCEPT ![c] = TRUE]
    /\ UNCHANGED <<phase, subscribers, fanout, sending, received, unread, logged, since,
                   traced, busVars>>

Read(c) ==
    /\ unread[c] > 0 /\ ~gone[c]
    /\ unread' = [unread EXCEPT ![c] = @ - 1]
    /\ UNCHANGED <<phase, gone, subscribers, fanout, sending, received, logged, since,
                   traced, busVars>>

-----------------------------------------------------------------------------
\* service.Trace, on the stream's goroutine.

\* PublishSync runs agentCommand's handler of trace.request in this goroutine,
\* which hands the command to the message.outgoing goroutine.
PublishAdd(c) ==
    /\ phase[c] = "add"
    /\ Publish(outgoing, TraceMsg("add", Request(c)))
    /\ phase' = [phase EXCEPT ![c] = "subscribe"]
    /\ UNCHANGED <<gone, subscribers, fanout, sending, received, unread, logged, since,
                   traced, incoming, responses, started>>

Subscribe(c) ==
    /\ phase[c] = "subscribe"
    /\ subscribers' = subscribers \cup {c}
    /\ since' = [since EXCEPT ![c] = Len(logged)]
    /\ phase' = [phase EXCEPT ![c] = "wait"]
    /\ UNCHANGED <<gone, fanout, sending, received, unread, logged, traced, busVars>>

\* Mutant: an error of Unsubscribe is returned.
UnsubscribeReturns(c) ==
    /\ phase[c] = "wait" /\ gone[c]
    /\ subscribers' = subscribers \ {c}
    /\ \E next \in {"remove", "done"} : phase' = [phase EXCEPT ![c] = next]
    /\ UNCHANGED <<gone, fanout, sending, received, unread, logged, since, traced,
                   busVars>>

\* The response goroutine may still hold the handler; Unsubscribe does not wait.
Unsubscribe(c) ==
    /\ phase[c] = "wait" /\ gone[c]
    /\ subscribers' = subscribers \ {c}
    /\ phase' = [phase EXCEPT ![c] = "remove"]
    /\ UNCHANGED <<gone, fanout, sending, received, unread, logged, since, traced, busVars>>

\* Mutant: the request is withdrawn only if the last Send did not fail.
PublishRemoveUnlessBroken(c) ==
    /\ phase[c] = "remove"
    /\ IF unread[c] = 0
       THEN Publish(outgoing, TraceMsg("remove", Request(c)))
       ELSE UNCHANGED outgoing
    /\ phase' = [phase EXCEPT ![c] = "done"]
    /\ UNCHANGED <<gone, subscribers, fanout, sending, received, unread, logged,
                   since, traced, incoming, responses, started>>

PublishRemove(c) ==
    /\ phase[c] = "remove"
    /\ Publish(outgoing, TraceMsg("remove", Request(c)))
    /\ phase' = [phase EXCEPT ![c] = "done"]
    /\ UNCHANGED <<gone, subscribers, fanout, sending, received, unread, logged, since,
                   traced, incoming, responses, started>>

-----------------------------------------------------------------------------
\* The trace.response goroutine.

\* It runs the handlers that are registered when it takes the response.
TakeResponse ==
    /\ responses # Idle /\ fanout = Idle
    /\ fanout' = subscribers
    /\ UNCHANGED <<phase, gone, subscribers, sending, received, unread, logged, since,
                   traced, busVars>>

Call(c) ==
    /\ fanout # Idle /\ sending = Idle
    /\ c \in fanout
    /\ fanout' = fanout \ {c}
    /\ sending' = IF Matches(Request(c), responses.ctx) THEN c ELSE Idle
    /\ UNCHANGED <<phase, gone, subscribers, received, unread, logged, since,
                   traced, busVars>>

\* Mutant: a response that finds the window full is thrown away.
SendOrDrop ==
    /\ sending # Idle
    /\ IF unread[sending] < Window /\ ~gone[sending]
       THEN /\ received' = [received EXCEPT ![sending] = Append(@, responses)]
            /\ unread' = [unread EXCEPT ![sending] = @ + 1]
       ELSE UNCHANGED <<received, unread>>
    /\ sending' = Idle
    /\ UNCHANGED <<phase, gone, subscribers, fanout, logged, since, traced, busVars>>

\* Mutant: a client that is gone is waited for like any other.
SendToTheGone ==
    /\ sending # Idle
    /\ unread[sending] < Window
    /\ received' = [received EXCEPT ![sending] = Append(@, responses)]
    /\ unread' = [unread EXCEPT ![sending] = @ + 1]
    /\ sending' = Idle
    /\ UNCHANGED <<phase, gone, subscribers, fanout, logged, since, traced, busVars>>

\* Mutant: the handler queues for the client without a bound.
SendUnbounded ==
    /\ sending # Idle
    /\ received' = [received EXCEPT ![sending] = Append(@, responses)]
    /\ unread' = [unread EXCEPT ![sending] = @ + 1]
    /\ sending' = Idle
    /\ UNCHANGED <<phase, gone, subscribers, fanout, logged, since, traced, busVars>>

\* Send on a stream whose client is gone fails and is only logged; on a live
\* stream it blocks while the client's window is full.
Send ==
    /\ sending # Idle
    /\ IF gone[sending]
       THEN UNCHANGED <<received, unread>>
       ELSE /\ unread[sending] < Window
            /\ received' = [received EXCEPT ![sending] = Append(@, responses)]
            /\ unread' = [unread EXCEPT ![sending] = @ + 1]
    /\ sending' = Idle
    /\ UNCHANGED <<phase, gone, subscribers, fanout, logged, since, traced, busVars>>

FanoutDone ==
    /\ fanout = {} /\ sending = Idle
    /\ responses' = Idle
    /\ fanout' = Idle
    /\ UNCHANGED <<phase, gone, subscribers, sending, received, unread, logged, since,
                   traced, incoming, outgoing, started>>
-----------------------------------------------------------------------------
\* What the rest of the system does to the streams.

\* The kernel module has read a message.
KernelTakes(m) ==
    traced' = [traced EXCEPT ![m.body.request] =
                   IF m.body.action = "add" THEN @ + 1 ELSE @ - 1]

\* The agent process ends: its streams break, and what the kernel module has
\* been told stays.
StreamsBreak ==
    /\ phase' = [c \in Clients |-> IF phase[c] = "off" THEN "off" ELSE "done"]
    /\ subscribers' = {}
    /\ fanout' = Idle
    /\ sending' = Idle
    /\ UNCHANGED <<gone, received, unread, logged, since, traced>>

-----------------------------------------------------------------------------
\* The environment when Tracing is checked by itself.

\* The log handler publishes a response.
Emit(ctx) ==
    /\ Len(logged) < MaxLogs
    /\ LET r == [id |-> Len(logged) + 1, ctx |-> ctx]
       IN  Publish(responses, r) /\ logged' = Append(logged, r)
    /\ UNCHANGED <<phase, gone, subscribers, fanout, sending, received, unread, since,
                   traced, incoming, outgoing, started>>

\* The device is open and takes what is written.
DeviceTakes ==
    /\ outgoing # Idle
    /\ KernelTakes(outgoing)
    /\ outgoing' = Idle
    /\ UNCHANGED <<phase, gone, subscribers, fanout, sending, received, unread, logged,
                   since, incoming, responses, started>>

-----------------------------------------------------------------------------
StreamsInit ==
    /\ phase = [c \in Clients |-> "off"]
    /\ gone = [c \in Clients |-> FALSE]
    /\ subscribers = {}
    /\ fanout = Idle
    /\ sending = Idle
    /\ received = [c \in Clients |-> <<>>]
    /\ unread = [c \in Clients |-> 0]
    /\ logged = <<>>
    /\ since = [c \in Clients |-> 0]
    /\ traced = [r \in Requests |-> 0]

Init ==
    /\ StreamsInit
    /\ incoming = Idle
    /\ outgoing = Idle
    /\ responses = Idle
    /\ started = Idle

Client(c)  == Connect(c) \/ GoAway(c) \/ Read(c)
Stream(c)  == PublishAdd(c) \/ Subscribe(c) \/ Unsubscribe(c) \/ PublishRemove(c)
Responder  == TakeResponse \/ (\E c \in Clients : Call(c)) \/ Send \/ FanoutDone
Elsewhere  == (\E ctx \in Contexts : Emit(ctx)) \/ DeviceTakes

Next == (\E c \in Clients : Client(c) \/ Stream(c)) \/ Responder \/ Elsewhere

Spec == Init /\ [][Next]_vars

\* The goroutines go on when they can.  Publishers on message.outgoing compete,
\* and Go serves the waiting senders of a channel in order (SF).
StreamFairness ==
    \A c \in Clients :
        /\ WF_vars(Subscribe(c) \/ Unsubscribe(c))
        /\ SF_vars(PublishAdd(c))
        /\ SF_vars(PublishRemove(c))

ResponderFairness == WF_vars(Responder)

\* A client that stays reads what it gets.  Only this keeps Send from blocking
\* the response goroutine for ever: the agent sets no deadline.
ClientsRead == \A c \in Clients : WF_vars(Read(c))

Fairness == StreamFairness /\ ResponderFairness /\ ClientsRead /\ WF_vars(DeviceTakes)

FairSpec == Spec /\ Fairness
-----------------------------------------------------------------------------
\* Properties.

Response == [id : 1 .. MaxLogs, ctx : Contexts]

\* Every variable has the values its Go counterpart can have.
TypeOK ==
    /\ phase \in [Clients -> {"off", "add", "subscribe", "wait", "remove", "done"}]
    /\ gone \in [Clients -> BOOLEAN]
    /\ subscribers \subseteq Clients
    /\ fanout \in (SUBSET Clients) \cup {Idle}
    /\ sending \in Clients \cup {Idle}
    /\ received \in [Clients -> Seq(Response)]
    /\ unread \in [Clients -> 0 .. Window]
    /\ logged \in Seq(Response)
    /\ since \in [Clients -> 0 .. MaxLogs]
    /\ traced \in [Requests -> Nat]
    /\ responses \in Response \cup {Idle}

\* The matches among entries m+1 to n of a log.
MatchesIn(log, req, m, n) ==
    LET feed[k \in 0 .. Len(log)] ==
            IF k <= m THEN <<>>
            ELSE IF Matches(req, log[k].ctx) THEN Append(feed[k - 1], log[k])
                 ELSE feed[k - 1]
    IN  feed[n]

\* What client c gets when it gets every match among responses m+1 to n.
Feed(c, m, n) == MatchesIn(logged, Request(c), m, n)

\* A stream carries every matching response from its subscription on, in order
\* and without gaps; the one that was being fanned out when it subscribed it
\* may or may not get (trace.go:56-65).  A client that is still there lacks at
\* most the response in hand.
CompleteFeed == \A c \in Clients :
    phase[c] \in {"wait", "remove", "done"} =>
        \E m \in {since[c], since[c] - 1} \cap Nat, n \in 0 .. Len(logged) :
            /\ received[c] = Feed(c, m, n)
            /\ phase[c] = "wait" /\ ~gone[c] =>
                  n >= Len(logged) - (IF responses = Idle THEN 0 ELSE 1)

\* The streams that have asked for the traces of a request and not withdrawn it.
Asking(r) ==
    {c \in Clients : Request(c) = r /\ phase[c] \in {"subscribe", "wait", "remove"}}

\* While nothing is on its way to the device, the kernel module has been asked for
\* each request once for every stream that still wants it, however the streams'
\* publications interleave and however many of them ask for the same.  (The
\* message, messages.go:58-61, does not tell two equal requests apart; what the
\* kernel module makes of the second one, and of the first withdrawal, is its own
\* affair.)
KernelAgrees ==
    outgoing = Idle => \A r \in Requests : traced[r] = Cardinality(Asking(r))

\* The user sees only what the flags ask for: a pid from 1, a uid from 1, a
\* command name that is not empty (internal/cli/cmd/agent/trace.go:91-103).  A uid
\* of 0, which the check of the flags takes for one (:67), is not among them: it
\* does not get into the request (:96), and the user sees the tasks of everybody.
OnlyWhatWasAskedFor == \A c \in Clients : \A i \in 1 .. Len(received[c]) :
    LET o == Options[c]
        ctx == received[c][i].ctx
    IN  /\ o.pid >= 1 => ctx.pid = o.pid
        /\ o.uid >= 1 => ctx.uid = o.uid
        /\ o.name # "" => ctx.name = o.name

\* A client that goes away is cleaned up after, even when it left with Send
\* blocked on it: its stream ends, and the kernel module is asked for its request
\* no more often than other streams want the same.
GoneIsForgotten == \A c \in Clients :
    gone[c] ~> /\ phase[c] = "done"
               /\ traced[Request(c)] <= Cardinality(Asking(Request(c)))

\* A response is dealt with in the end, so that the log handler of the next one
\* is not blocked for ever; CommandPipeline assumes as much.
ResponsesAreTaken == (responses # Idle) ~> (responses = Idle)
=============================================================================
