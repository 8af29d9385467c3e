-------------------------- MODULE CommandPipeline --------------------------
(***************************************************************************)
(* The path of a kernel command through the agent: messenger.Run scans a   *)
(* line from /dev/camblet and publishes it, the commander's handleCommand  *)
(* runs the handler and publishes the answer, and the outgoing             *)
(* subscriber writes it back to the device.  Three goroutines (the         *)
(* reader, the message.incoming goroutine, the message.outgoing            *)
(* goroutine) and the life of the process around them.                     *)
(*                                                                         *)
(* What the rest of the agent does to this path is left to the             *)
(* environment: Push stands for any other message published on             *)
(* message.outgoing, ResponsesDone and StartedDone for the subscribers of  *)
(* trace.response and messenger.started.  Agent replaces the three by the  *)
(* code behind them.                                                       *)
(***************************************************************************)
EXTENDS Naturals, Sequences, EventBus

CONSTANTS
    Names,        \* kinds of command the kernel sends: the command names,
                  \* "garbled_log" for a log command whose data does not
                  \* parse, "unparsable" for a line that does not decode or
                  \* exceeds the scanner's buffer
    Contexts,     \* task contexts of commands
    Pushes,       \* bodies of the messages other publishers send
    OneWay,       \* the values of isMessage: TRUE for a one-way message
    WriteErrors,  \* whether an open device may refuse a write
    MaxCommands   \* bound: how many commands the kernel sends

ASSUME BoundAssumption == MaxCommands \in Nat

ASSUME FlagsAssumption == WriteErrors \in BOOLEAN /\ OneWay \subseteq BOOLEAN

VARIABLES
    sent,         \* commands queued by the kernel; a command's id is its index
    nread,        \* how many of them the scanner has returned (or a process
                  \* that ended has taken with it)
    taken,        \* how many of them the scanner's buffer has taken off the device
    dev,          \* messenger.dev: "nil", "open", or "closed" and not yet nil
    reader,       \* where messenger.Run stands, "down" without a process
    result,       \* what the handler returned for `incoming`, or Idle
    writer,       \* where the message.outgoing subscriber stands: "check", or
                  \* "write" when m.dev was not nil
    answers,      \* answers written to the device
    dropped       \* ids of commands whose answer will never be written

pipelineVars == <<sent, nread, taken, dev, reader, result, writer, answers, dropped>>
vars == <<pipelineVars, busVars>>

-----------------------------------------------------------------------------
\* Data.

Commands == [name : Names, isMessage : OneWay, ctx : Contexts]

Decodable(c) == c.name # "unparsable"

\* What each handler can return: "ok", a "payload" (certificate or labels), an
\* "error", or "invalid" when no handler is registered under the name.
Results(c) ==
    CASE c.name \in {"accept", "connect", "log"} -> {"ok"}
      [] c.name = "garbled_log"                  -> {"error"}
      [] c.name = "csr_sign"                     -> {"payload", "error"}
      [] c.name = "augment"                      -> {"payload"}
      [] OTHER                                   -> {"invalid"}

AllResults == {"ok", "payload", "error", "invalid"}

AnswerMsg == [type : {"answer"}, id : Nat \ {0}, result : AllResults]
PushMsg   == [type : {"push"}, body : Pushes]
Message   == AnswerMsg \cup PushMsg

\* An idle goroutine is told from one that works on any payload.
ASSUME IdleAssumption ==
    /\ Idle \notin Nat
    /\ Idle \notin AllResults
    /\ Idle \notin Message
    /\ Idle # "started"

NeedsReply(id) == Decodable(sent[id]) /\ ~sent[id].isMessage

\* The commands whose answer is still on its way through the goroutines.
InPipe ==
    {id \in 1 .. Len(sent) :
        /\ NeedsReply(id)
        /\ \/ reader = "publish" /\ id = nread
           \/ id \in nread + 1 .. taken
           \/ id = incoming
           \/ outgoing # Idle /\ outgoing.type = "answer" /\ outgoing.id = id}

-----------------------------------------------------------------------------
\* The kernel module.

KernelSend == \E c \in Commands :
    /\ Len(sent) < MaxCommands
    /\ sent' = Append(sent, c)
    /\ UNCHANGED <<nread, taken, dev, reader, result, writer, answers, dropped, busVars>>

-----------------------------------------------------------------------------
\* messenger.Run.

OpenDevice ==
    /\ reader = "start"
    /\ dev' = "open"
    /\ reader' = "announce"
    /\ UNCHANGED <<sent, nread, taken, result, writer, answers, dropped, busVars>>

\* Mutant: the error of os.OpenFile is logged and Run carries on.
OpenFailsUnnoticed ==
    /\ reader = "start"
    /\ reader' = "announce"
    /\ UNCHANGED <<sent, nread, taken, dev, result, writer, answers, dropped, busVars>>

OpenFails ==
    /\ reader = "start"
    /\ reader' = "ended"
    /\ UNCHANGED <<sent, nread, taken, dev, result, writer, answers, dropped, busVars>>

Announce ==
    /\ reader = "announce"
    /\ Publish(started, "started")
    /\ reader' = "scan"
    /\ UNCHANGED <<sent, nread, taken, dev, result, writer, answers, dropped,
                   incoming, outgoing, responses>>

\* A read puts any number of the lines that wait into the scanner's buffer; the
\* device is read again when they have all been returned.  A line that does not
\* decode ends Run like the end of the input does, whatever is buffered behind it.
Scan ==
    /\ reader = "scan"
    /\ taken' \in IF taken > nread THEN {taken} ELSE nread + 1 .. Len(sent)
    /\ nread' = nread + 1
    /\ IF Decodable(sent[nread + 1])
       THEN reader' = "publish" /\ UNCHANGED dev
       ELSE reader' = "closing" /\ dev' = "closed"
    /\ UNCHANGED <<sent, result, writer, answers, dropped, busVars>>

PublishIncoming ==
    /\ reader = "publish"
    /\ Publish(incoming, nread)
    /\ reader' = "scan"
    /\ UNCHANGED <<sent, nread, taken, dev, result, writer, answers, dropped,
                   outgoing, responses, started>>

\* The device reports end of file or an error, after the scanner has returned
\* what it had buffered: the deferred function closes the device.
DeviceGone ==
    /\ reader = "scan" /\ taken = nread
    /\ reader' = "closing"
    /\ dev' = "closed"
    /\ UNCHANGED <<sent, nread, taken, result, writer, answers, dropped, busVars>>

\* ... and then sets m.dev to nil; the outgoing goroutine may run in between.
ClearDevice ==
    /\ reader = "closing"
    /\ dev' = "nil"
    /\ reader' = "ended"
    /\ UNCHANGED <<sent, nread, taken, result, writer, answers, dropped, busVars>>

-----------------------------------------------------------------------------
\* handler.handleCommand, on the message.incoming goroutine.

\* Mutant: one-way messages are answered too.
HandlerReturnsAlways(r) == result' = r /\ UNCHANGED incoming

\* The handler has returned r: a one-way message is done, for any other
\* command the answer is to be published.
HandlerReturns(r) ==
    IF sent[incoming].isMessage
    THEN incoming' = Idle /\ UNCHANGED result
    ELSE result' = r /\ UNCHANGED incoming

\* Mutant: a command whose handler failed is left without an answer.
HandleCommandSkipsErrors ==
    /\ incoming # Idle /\ result = Idle
    /\ sent[incoming].name # "log"
    /\ \E r \in Results(sent[incoming]) :
          IF r \in {"error", "invalid"}
          THEN incoming' = Idle /\ UNCHANGED result
          ELSE HandlerReturns(r)
    /\ UNCHANGED <<sent, nread, taken, dev, reader, writer, answers, dropped,
                   outgoing, responses, started>>

\* A command whose handler publishes nothing itself.
HandleCommand ==
    /\ incoming # Idle /\ result = Idle
    /\ sent[incoming].name # "log"
    /\ \E r \in Results(sent[incoming]) : HandlerReturns(r)
    /\ UNCHANGED <<sent, nread, taken, dev, reader, writer, answers, dropped,
                   outgoing, responses, started>>

\* The log handler blocks until the trace.response goroutine takes the trace.
HandleLog ==
    /\ incoming # Idle /\ result = Idle
    /\ sent[incoming].name = "log"
    /\ Publish(responses, [id |-> incoming, ctx |-> sent[incoming].ctx])
    /\ HandlerReturns("ok")
    /\ UNCHANGED <<sent, nread, taken, dev, reader, writer, answers, dropped,
                   outgoing, started>>

\* Mutant: the line is not copied out of the scanner's buffer, so that the
\* answer goes to the line scanned last.
PublishAnswerUncopied ==
    /\ incoming # Idle /\ result # Idle
    /\ Publish(outgoing, [type |-> "answer", id |-> nread, result |-> result])
    /\ incoming' = Idle
    /\ result' = Idle
    /\ UNCHANGED <<sent, nread, taken, dev, reader, writer, answers, dropped,
                   responses, started>>

\* Mutant: a failed publication is retried although it had gone through.
PublishAnswerRetried ==
    /\ incoming # Idle /\ result # Idle
    /\ Publish(outgoing, [type |-> "answer", id |-> incoming, result |-> result])
    /\ \/ incoming' = Idle /\ result' = Idle
       \/ UNCHANGED <<incoming, result>>
    /\ UNCHANGED <<sent, nread, taken, dev, reader, writer, answers, dropped,
                   responses, started>>

\* Mutant: publications are serialised by a lock that the reader holds while
\* it waits for the message.incoming goroutine.
PublishAnswerLocked ==
    /\ incoming # Idle /\ result # Idle
    /\ reader # "publish"
    /\ Publish(outgoing, [type |-> "answer", id |-> incoming, result |-> result])
    /\ incoming' = Idle
    /\ result' = Idle
    /\ UNCHANGED <<sent, nread, taken, dev, reader, writer, answers, dropped,
                   responses, started>>

PublishAnswer ==
    /\ incoming # Idle /\ result # Idle
    /\ Publish(outgoing, [type |-> "answer", id |-> incoming, result |-> result])
    /\ incoming' = Idle
    /\ result' = Idle
    /\ UNCHANGED <<sent, nread, taken, dev, reader, writer, answers, dropped,
                   responses, started>>

-----------------------------------------------------------------------------
\* The message.outgoing subscriber.

\* The message in hand is gone: no reply will reach the kernel.
Discard ==
    /\ outgoing' = Idle
    /\ writer' = "check"
    /\ dropped' = IF outgoing.type = "answer" THEN dropped \cup {outgoing.id}
                                              ELSE dropped
    /\ UNCHANGED <<sent, nread, taken, dev, reader, result, answers,
                   incoming, responses, started>>

CheckDevice ==
    /\ outgoing # Idle /\ writer = "check"
    /\ IF dev = "nil"
       THEN Discard
       ELSE /\ writer' = "write"
            /\ UNCHANGED <<sent, nread, taken, dev, reader, result, answers, dropped,
                           busVars>>

WriteDevice ==
    /\ outgoing # Idle /\ writer = "write" /\ dev = "open"
    /\ outgoing' = Idle
    /\ writer' = "check"
    /\ answers' = IF outgoing.type = "answer" THEN Append(answers, outgoing)
                                              ELSE answers
    /\ UNCHANGED <<sent, nread, taken, dev, reader, result, dropped,
                   incoming, responses, started>>

\* m.dev is read a second time for the write: it may be closed or nil by now,
\* and an open device may refuse the write.  The error is only logged.
WriteFails ==
    /\ outgoing # Idle /\ writer = "write"
    /\ dev # "open" \/ WriteErrors
    /\ Discard

-----------------------------------------------------------------------------
\* The process.

\* Everything the process held in memory goes with it, the lines in the scanner's
\* buffer too: the next process reads on behind them.
ProcessEnds ==
    /\ nread' = taken
    /\ dropped' = dropped \cup InPipe
    /\ dev' = "nil"
    /\ reader' = "down"
    /\ result' = Idle
    /\ writer' = "check"
    /\ incoming' = Idle
    /\ outgoing' = Idle
    /\ responses' = Idle
    /\ started' = Idle
    /\ UNCHANGED <<sent, taken, answers>>

\* agentCommand.run receives what messenger.Run returned and gives up.
Stop == reader = "ended" /\ ProcessEnds

\* A signal, a panic in a goroutine, or a failing loader or API server (of a
\* process that is not stopping anyway).
Kill == reader \notin {"down", "ended"} /\ ProcessEnds

\* Mutant: Restart=on-failure.  main only logs what run returned and exits with
\* status 0, so that there is no failure to restart after.
RestartOnFailure == reader = "down" /\ UNCHANGED vars

\* systemd starts the service again (Restart=always).
Restart ==
    /\ reader = "down"
    /\ reader' = "start"
    /\ UNCHANGED <<sent, nread, taken, dev, result, writer, answers, dropped, busVars>>

-----------------------------------------------------------------------------
\* The rest of the agent, as this path sees it.

\* Mutant: the message is published under the type of an answer.
PushAsAnswer == \E b \in Pushes :
    /\ reader # "down"
    /\ Publish(outgoing, [type |-> "answer", body |-> b])
    /\ UNCHANGED <<pipelineVars, incoming, responses, started>>

Push == \E b \in Pushes :
    /\ reader # "down"
    /\ Publish(outgoing, [type |-> "push", body |-> b])
    /\ UNCHANGED <<pipelineVars, incoming, responses, started>>

ResponsesDone ==
    /\ responses # Idle
    /\ responses' = Idle
    /\ UNCHANGED <<pipelineVars, incoming, outgoing, started>>

StartedDone ==
    /\ started # Idle
    /\ started' = Idle
    /\ UNCHANGED <<pipelineVars, incoming, outgoing, responses>>

-----------------------------------------------------------------------------
Init ==
    /\ sent = <<>>
    /\ nread = 0
    /\ taken = 0
    /\ dev = "nil"
    /\ reader = "start"
    /\ result = Idle
    /\ writer = "check"
    /\ answers = <<>>
    /\ dropped = {}
    /\ incoming = Idle
    /\ outgoing = Idle
    /\ responses = Idle
    /\ started = Idle

Reader    == OpenDevice \/ OpenFails \/ Announce \/ Scan \/ PublishIncoming \/ ClearDevice
Commander == HandleCommand \/ HandleLog \/ PublishAnswer
Writer    == CheckDevice \/ WriteDevice \/ WriteFails
Process   == DeviceGone \/ Stop \/ Kill \/ Restart
Others    == Push \/ ResponsesDone \/ StartedDone

Next == KernelSend \/ Reader \/ Commander \/ Writer \/ Process \/ Others

Spec == Init /\ [][Next]_vars

\* One condition for each goroutine: it goes on when it can (WF).  PublishAnswer
\* competes with every other publisher for the message.outgoing goroutine; Go
\* serves the senders that wait on a channel in the order they came, so it is
\* not passed over for ever (SF).  Stop and Restart are steps of a process that
\* waits for nothing else.  Nothing is assumed of the kernel and of signals.
Fairness ==
    /\ WF_vars(Reader)
    /\ WF_vars(HandleCommand \/ HandleLog)
    /\ SF_vars(PublishAnswer)
    /\ WF_vars(Writer)
    /\ WF_vars(Stop \/ Restart)
    /\ WF_vars(ResponsesDone)
    /\ WF_vars(StartedDone)

FairSpec == Spec /\ Fairness

-----------------------------------------------------------------------------
\* Properties.

\* Every variable has the values its Go counterpart can have.
TypeOK ==
    /\ sent \in Seq(Commands)
    /\ nread \in 0 .. taken
    /\ taken \in 0 .. Len(sent)
    /\ dev \in {"nil", "open", "closed"}
    /\ reader \in {"down", "start", "announce", "scan", "publish", "closing", "ended"}
    /\ result \in AllResults \cup {Idle}
    /\ writer \in {"check", "write"}
    /\ answers \in Seq(AnswerMsg)
    /\ dropped \subseteq 1 .. taken
    /\ incoming \in (1 .. Len(sent)) \cup {Idle}
    /\ outgoing \in Message \cup {Idle}
    /\ responses \in [id : 1 .. Len(sent), ctx : Contexts] \cup {Idle}
    /\ started \in {"started", Idle}

AnsweredIds == {answers[i].id : i \in 1 .. Len(answers)}

\* The kernel gets the answers in the order it queued the commands, and never
\* two for one command: the three goroutines hand commands on one at a time
\* (messenger.go:83-98, commands.go:77-129), whatever else is published and
\* however often the process is restarted.
AnswersInOrder ==
    \A i, j \in 1 .. Len(answers) : i < j => answers[i].id < answers[j].id

\* The commands between the device and the answers stand in the order they
\* were queued: answered ones before the answer being written, that before the
\* command being handled, that before the one about to be published.  Every
\* answer on its way belongs to a command that wants one and is a result of
\* that command's own handler.  Run leaves lines behind in the scanner's buffer
\* only when the one before them did not decode.
PipelineOrder ==
    /\ reader \in {"down", "start", "announce"} => taken = nread
    /\ reader \in {"closing", "ended"} /\ nread < taken =>
          nread > 0 /\ ~Decodable(sent[nread])
    /\ reader = "publish" => nread > 0 /\ Decodable(sent[nread])
    /\ incoming # Idle =>
          /\ Decodable(sent[incoming])
          /\ incoming <= nread
          /\ reader = "publish" => incoming < nread
    /\ result # Idle =>
          /\ incoming # Idle
          /\ ~sent[incoming].isMessage
          /\ result \in Results(sent[incoming])
    /\ outgoing \in AnswerMsg =>
          /\ outgoing.id <= nread
          /\ NeedsReply(outgoing.id)
          /\ outgoing.result \in Results(sent[outgoing.id])
          /\ incoming # Idle => outgoing.id < incoming
          /\ reader = "publish" => outgoing.id < nread
    /\ \A i \in 1 .. Len(answers) :
          /\ answers[i].id <= nread
          /\ outgoing \in AnswerMsg => answers[i].id < outgoing.id
          /\ incoming # Idle => answers[i].id < incoming
          /\ reader = "publish" => answers[i].id < nread

\* No reply vanishes unaccounted for: a command that was taken off the device and
\* wants a reply is answered, or its reply was lost for a reason the code knows
\* of (a nil device, a failed write, the end of the process), or the scanner's
\* buffer or some goroutine still has it; and it is only one of the three.
EveryReplyAccountedFor ==
    \A id \in 1 .. taken :
        /\ NeedsReply(id) => id \in AnsweredIds \cup dropped \cup InPipe
        /\ ~(id \in AnsweredIds /\ id \in dropped)
        /\ ~(id \in InPipe /\ id \in AnsweredIds \cup dropped)

\* messenger.go:60 discards a message without a word when the device is not
\* there.  That happens to an answer only when Run has given up and the process
\* is about to follow, never because the device was not open yet.
SilentDropOnlyAtTheEnd ==
    outgoing \in AnswerMsg /\ writer = "check" /\ dev = "nil" => reader = "ended"

\* The abstract service, on the same commands and answers.
Service == INSTANCE CommandService

ImplementsService == Service!Spec

\* A command that was taken off the device and wants a reply gets it, or the
\* reply is lost with the device or the process: no goroutine waits for another
\* for ever, as long as the trace responses are taken.
RepliesEventually ==
    \A id \in 1 .. MaxCommands :
        (id <= taken /\ NeedsReply(id)) ~> (id \in AnsweredIds \cup dropped)

\* Once the device stays healthy and nobody kills the agent, it gets past every
\* command the kernel queued, the ones queued while it was down and the ones
\* behind a line that made it stop included.  Such a line takes those with it
\* that the scanner has buffered behind it (PipelineOrder: no other does); what is
\* still on the device then, the next process reads (messenger.go:83-98).
ReadsAllWhenHealthy ==
    <>[][~(Kill \/ OpenFails \/ DeviceGone)]_vars =>
        \A id \in 1 .. MaxCommands : Len(sent) >= id ~> nread >= id
=============================================================================
