----------------------- MODULE CommandPipelineProofs -----------------------
(***************************************************************************)
(* Machine-checked proofs about CommandPipeline, for every set of command  *)
(* kinds, contexts and foreign messages and every MaxCommands.             *)
(***************************************************************************)
EXTENDS CommandPipeline, TLAPS

\* The steps whose effect on the variables is the same kind of thing, for the
\* case split of every proof below.
LEMMA NextCases ==
    ASSUME [Next]_vars
    PROVE  \/ KernelSend \/ OpenDevice \/ OpenFails \/ Announce \/ Scan
           \/ PublishIncoming \/ DeviceGone \/ ClearDevice
           \/ HandleCommand \/ HandleLog \/ PublishAnswer
           \/ CheckDevice \/ WriteDevice \/ WriteFails
           \/ ProcessEnds \/ Restart
           \/ Push \/ ResponsesDone \/ StartedDone \/ UNCHANGED vars
BY DEF Next, Reader, Commander, Writer, Process, Others, Stop, Kill

-----------------------------------------------------------------------------
\* Type correctness.  PipelineOrder is needed for one thing: the reader that
\* publishes has read a command.

\* A process that starts is well typed.
LEMMA InitTypeOK == Init => TypeOK
BY DEF Init, TypeOK

\* Handlers return nothing but results.
LEMMA ResultsTyped ==
    ASSUME NEW c \in Commands
    PROVE  Results(c) \subseteq AllResults
BY DEF Results, AllResults, Commands

\* The type field tells the answers among the outgoing messages.
LEMMA AnswerByType ==
    ASSUME NEW m \in Message
    PROVE  /\ m.type = "answer" <=> m \in AnswerMsg
           /\ m \in AnswerMsg => m.id \in Nat \ {0} /\ m.result \in AllResults
BY DEF Message, AnswerMsg, PushMsg

\* The numbers from the one after m on.
LEMMA Interval ==
    ASSUME NEW m \in Nat, NEW n \in Nat, NEW i \in Nat, i <= n
    PROVE  i \in m + 1 .. n <=> i > m
OBVIOUS

\* The scanner returns a line that is in its buffer, which holds lines that were
\* queued.
LEMMA ScanTakes ==
    ASSUME TypeOK, Scan
    PROVE  /\ taken' \in 0 .. Len(sent) /\ taken <= taken'
           /\ nread' = nread + 1 /\ nread' \in 1 .. taken'
           /\ nread < taken => taken' = taken
<1>1. CASE taken > nread
    BY <1>1 DEF TypeOK, Scan
<1>2. CASE ~(taken > nread)
    <2>1. taken' \in nread + 1 .. Len(sent)
        BY <1>2 DEF Scan
    <2> QED BY <1>2, <2>1 DEF TypeOK, Scan
<1> QED BY <1>1, <1>2

\* Every step of every goroutine keeps the types.
LEMMA TypeStep == TypeOK /\ PipelineOrder /\ [Next]_vars => TypeOK'
<1> SUFFICES ASSUME TypeOK, PipelineOrder, [Next]_vars
             PROVE  TypeOK'
    OBVIOUS
<1> USE DEF TypeOK
<1>1. CASE KernelSend
    BY <1>1 DEF KernelSend, busVars
<1>2. CASE OpenDevice
    BY <1>2 DEF OpenDevice, busVars
<1>3. CASE OpenFails
    BY <1>3 DEF OpenFails, busVars
<1>4. CASE Announce
    BY <1>4 DEF Announce, Publish
<1>5. CASE Scan
    BY <1>5, ScanTakes DEF Scan, busVars
<1>6. CASE PublishIncoming
    BY <1>6 DEF PublishIncoming, Publish, PipelineOrder
<1>7. CASE DeviceGone
    BY <1>7 DEF DeviceGone, busVars
<1>8. CASE ClearDevice
    BY <1>8 DEF ClearDevice, busVars
<1>9. CASE HandleCommand
    <2>1. PICK r \in Results(sent[incoming]) : HandlerReturns(r)
        BY <1>9 DEF HandleCommand
    <2>2. r \in AllResults
        BY <1>9, <2>1, ResultsTyped DEF HandleCommand
    <2> QED BY <1>9, <2>1, <2>2 DEF HandleCommand, HandlerReturns
<1>10. CASE HandleLog
    <2>1. incoming \in 1 .. Len(sent) /\ sent[incoming] \in Commands
        BY <1>10 DEF HandleLog
    <2> QED BY <1>10, <2>1 DEF HandleLog, HandlerReturns, Publish, AllResults, Commands
<1>11. CASE PublishAnswer
    <2>1. [type |-> "answer", id |-> incoming, result |-> result] \in AnswerMsg
        BY <1>11 DEF PublishAnswer, AnswerMsg
    <2> QED BY <1>11, <2>1 DEF PublishAnswer, Publish, Message
<1>a. outgoing # Idle /\ outgoing.type = "answer" =>
          outgoing \in AnswerMsg /\ outgoing.id \in 1 .. taken
    BY AnswerByType DEF PipelineOrder
<1>12. CASE CheckDevice
    BY <1>12, <1>a DEF CheckDevice, Discard, busVars
<1>13. CASE WriteDevice
    BY <1>13, <1>a DEF WriteDevice
<1>14. CASE WriteFails
    BY <1>14, <1>a DEF WriteFails, Discard
<1>15. CASE ProcessEnds
    <2>1. InPipe \subseteq 1 .. taken
        <3>1. reader = "publish" => nread \in 1 .. taken
            BY DEF PipelineOrder
        <3>2. incoming # Idle => incoming \in 1 .. taken
            BY DEF PipelineOrder
        <3>3. nread + 1 .. taken \subseteq 1 .. taken
            OBVIOUS
        <3> QED BY <1>a, <3>1, <3>2, <3>3, IdleAssumption DEF InPipe
    <2> QED BY <1>15, <2>1 DEF ProcessEnds
<1>16. CASE Restart
    BY <1>16 DEF Restart, busVars
<1>17. CASE Push
    BY <1>17 DEF Push, Publish, pipelineVars, Message, PushMsg
<1>18. CASE ResponsesDone
    BY <1>18 DEF ResponsesDone, pipelineVars
<1>19. CASE StartedDone
    BY <1>19 DEF StartedDone, pipelineVars
<1>20. CASE UNCHANGED vars
    BY <1>20 DEF vars, pipelineVars, busVars
<1> QED BY NextCases, <1>1, <1>2, <1>3, <1>4, <1>5, <1>6, <1>7, <1>8, <1>9,
           <1>10, <1>11, <1>12, <1>13, <1>14, <1>15, <1>16, <1>17, <1>18,
           <1>19, <1>20

-----------------------------------------------------------------------------
\* The order of the commands in the pipeline.

IInv == TypeOK /\ PipelineOrder /\ AnswersInOrder

\* Neither an idle topic nor a pushed message is an answer.
LEMMA NoAnswer ==
    /\ Idle \notin AnswerMsg
    /\ \A b \in Pushes : [type |-> "push", body |-> b] \notin AnswerMsg
BY IdleAssumption DEF Message, AnswerMsg

\* The invariant holds when the agent is started for the first time.
LEMMA InitIInv == Init => IInv
BY InitTypeOK, NoAnswer DEF Init, IInv, PipelineOrder, AnswersInOrder

\* What a command in the log is does not change when the kernel appends one.
LEMMA SentGrows ==
    ASSUME TypeOK, KernelSend
    PROVE  /\ Len(sent') = Len(sent) + 1
           /\ \A id \in 1 .. Len(sent) :
                 sent'[id] = sent[id] /\ NeedsReply(id)' = NeedsReply(id)
BY DEF TypeOK, KernelSend, NeedsReply

\* Every step keeps the commands in the pipeline in the order they were queued.
LEMMA OrderStep == IInv /\ [Next]_vars => PipelineOrder'
<1> SUFFICES ASSUME IInv, [Next]_vars
             PROVE  PipelineOrder'
    OBVIOUS
<1> USE DEF IInv, TypeOK, PipelineOrder
<1> \A m \in AnswerMsg : m.id \in Nat \ {0}
    BY DEF AnswerMsg
<1> \A i \in 1 .. Len(answers) : answers[i] \in AnswerMsg
    OBVIOUS
<1> /\ outgoing \in AnswerMsg => outgoing.id \in 1 .. nread
    /\ \A i \in 1 .. Len(answers) : answers[i].id \in 1 .. nread
    OBVIOUS
<1>1. CASE KernelSend
    BY <1>1, SentGrows DEF KernelSend, busVars
<1>2. CASE OpenDevice
    BY <1>2 DEF OpenDevice, busVars, NeedsReply
<1>3. CASE OpenFails
    BY <1>3 DEF OpenFails, busVars, NeedsReply
<1>4. CASE Announce
    BY <1>4 DEF Announce, Publish, NeedsReply
<1>5. CASE Scan
    BY <1>5, ScanTakes DEF Scan, busVars, NeedsReply
<1>6. CASE PublishIncoming
    BY <1>6 DEF PublishIncoming, Publish, NeedsReply
<1>7. CASE DeviceGone
    BY <1>7 DEF DeviceGone, busVars, NeedsReply
<1>8. CASE ClearDevice
    BY <1>8 DEF ClearDevice, busVars, NeedsReply
<1>9. CASE HandleCommand
    BY <1>9 DEF HandleCommand, HandlerReturns, NeedsReply
<1>10. CASE HandleLog
    <2>1. Results(sent[incoming]) = {"ok"}
        BY <1>10 DEF HandleLog, Results
    <2> QED BY <1>10, <2>1 DEF HandleLog, HandlerReturns, Publish, NeedsReply
<1>11. CASE PublishAnswer
    BY <1>11 DEF PublishAnswer, Publish, NeedsReply
<1>12. CASE CheckDevice
    BY <1>12, NoAnswer DEF CheckDevice, Discard, busVars, NeedsReply
<1>13. CASE WriteDevice
    <2>1. CASE outgoing.type = "answer"
        <3>1. outgoing \in AnswerMsg
            BY <1>13, <2>1, AnswerByType DEF WriteDevice
        <3>2. \A i \in 1 .. Len(answers') :
                 \/ i \in 1 .. Len(answers) /\ answers'[i] = answers[i]
                 \/ answers'[i] = outgoing
            BY <1>13, <2>1, <3>1 DEF WriteDevice
        <3> QED BY <1>13, <3>1, <3>2, NoAnswer DEF WriteDevice, NeedsReply
    <2>2. CASE outgoing.type # "answer"
        BY <1>13, <2>2, NoAnswer DEF WriteDevice, NeedsReply
    <2> QED BY <2>1, <2>2
<1>14. CASE WriteFails
    BY <1>14, NoAnswer DEF WriteFails, Discard, NeedsReply
<1>15. CASE ProcessEnds
    BY <1>15, NoAnswer DEF ProcessEnds, NeedsReply
<1>16. CASE Restart
    BY <1>16 DEF Restart, busVars, NeedsReply
<1>17. CASE Push
    BY <1>17, NoAnswer DEF Push, Publish, pipelineVars, NeedsReply
<1>18. CASE ResponsesDone
    BY <1>18 DEF ResponsesDone, pipelineVars, NeedsReply
<1>19. CASE StartedDone
    BY <1>19 DEF StartedDone, pipelineVars, NeedsReply
<1>20. CASE UNCHANGED vars
    BY <1>20 DEF vars, pipelineVars, busVars, NeedsReply
<1> QED BY NextCases, <1>1, <1>2, <1>3, <1>4, <1>5, <1>6, <1>7, <1>8, <1>9,
           <1>10, <1>11, <1>12, <1>13, <1>14, <1>15, <1>16, <1>17, <1>18,
           <1>19, <1>20

\* Only WriteDevice touches the answers, and it appends the one in hand.
LEMMA AnswersStep ==
    ASSUME [Next]_vars
    PROVE  \/ UNCHANGED answers
           \/ /\ outgoing # Idle /\ outgoing.type = "answer"
              /\ answers' = Append(answers, outgoing)
              /\ UNCHANGED sent
BY NextCases DEF KernelSend, OpenDevice, OpenFails, Announce, Scan,
        PublishIncoming, DeviceGone, ClearDevice, HandleCommand, HandleLog,
        PublishAnswer, CheckDevice, Discard, WriteDevice, WriteFails,
        ProcessEnds, Restart, Push, ResponsesDone, StartedDone,
        vars, pipelineVars

\* An answer that is written is younger than all that were written before it.
LEMMA AnswersOrderStep == IInv /\ [Next]_vars => AnswersInOrder'
<1> SUFFICES ASSUME IInv, [Next]_vars
             PROVE  AnswersInOrder'
    OBVIOUS
<1>1. CASE UNCHANGED answers
    BY <1>1 DEF IInv, AnswersInOrder
<1>2. CASE /\ outgoing # Idle /\ outgoing.type = "answer"
           /\ answers' = Append(answers, outgoing)
    <2>1. outgoing \in AnswerMsg /\ outgoing.id \in Nat
        BY <1>2, AnswerByType DEF IInv, TypeOK
    <2>2. \A i \in 1 .. Len(answers) : answers[i].id < outgoing.id
        BY <2>1 DEF IInv, PipelineOrder
    <2>3. Len(answers') = Len(answers) + 1 /\ answers'[Len(answers) + 1] = outgoing
        BY <1>2, <2>1 DEF IInv, TypeOK
    <2>4. \A i \in 1 .. Len(answers) : answers'[i] = answers[i]
        BY <1>2, <2>1 DEF IInv, TypeOK
    <2>5. Len(answers) \in Nat
        BY DEF IInv, TypeOK
    <2>6. \A i, j \in 1 .. Len(answers') : i < j => i \in 1 .. Len(answers)
        BY <2>3, <2>5
    <2>7. \A j \in 1 .. Len(answers') : j \in 1 .. Len(answers) \/ answers'[j] = outgoing
        BY <2>3, <2>5
    <2> QED BY <2>2, <2>4, <2>6, <2>7 DEF IInv, AnswersInOrder
<1> QED BY <1>1, <1>2, AnswersStep

\* The inductive invariant holds of every behaviour.
LEMMA Invariance == Spec => []IInv
<1>1. Init => IInv
    BY InitIInv
<1>2. IInv /\ [Next]_vars => IInv'
    BY TypeStep, OrderStep, AnswersOrderStep DEF IInv
<1> QED BY <1>1, <1>2, PTL DEF Spec

\* Every variable keeps to its values, so no step of the reader or the handler
\* looks up a command that is not there.
THEOREM TypeCorrect == Spec => []TypeOK
BY Invariance, PTL DEF IInv

\* The goroutines between scanner and device keep the commands in the order the
\* kernel queued them, and what travels is a result of the command's handler.
THEOREM OrderCorrect == Spec => []PipelineOrder
BY Invariance, PTL DEF IInv

\* Answers reach the device in the order of the commands, at most one for each.
THEOREM AnswersInOrderCorrect == Spec => []AnswersInOrder
BY Invariance, PTL DEF IInv

-----------------------------------------------------------------------------
\* The pipeline implements the command service.

\* The service's last answer is older than whatever the pipeline still holds.
LEMMA LastAnsweredSmaller ==
    ASSUME IInv, outgoing \in AnswerMsg
    PROVE  outgoing.id > Service!LastAnswered
<1>1. outgoing.id \in Nat \ {0}
    BY DEF AnswerMsg
<1>2. CASE answers = <<>>
    BY <1>1, <1>2 DEF Service!LastAnswered
<1>3. CASE answers # <<>>
    <2>1. Len(answers) \in 1 .. Len(answers)
        BY <1>3 DEF IInv, TypeOK
    <2> QED BY <1>1, <1>3, <2>1 DEF Service!LastAnswered, IInv, PipelineOrder, TypeOK
<1> QED BY <1>2, <1>3

\* Every step is a step of the service, or none: KernelSend is Send, WriteDevice
\* of an answer is Answer, everything else stutters.
LEMMA StepImplements == IInv /\ [Next]_vars => [Service!Next]_(Service!vars)
<1> SUFFICES ASSUME IInv, [Next]_vars
             PROVE  [Service!Next]_(Service!vars)
    OBVIOUS
<1>1. CASE UNCHANGED <<sent, answers>>
    BY <1>1 DEF Service!vars
<1>2. CASE KernelSend
    BY <1>2 DEF KernelSend, Service!Next, Service!Send
<1>3. CASE /\ outgoing # Idle /\ outgoing.type = "answer"
           /\ answers' = Append(answers, outgoing)
           /\ UNCHANGED sent
    <2>1. outgoing \in AnswerMsg
        BY <1>3, AnswerByType DEF IInv, TypeOK
    <2>2. /\ outgoing.id \in 1 .. Len(sent)
          /\ ~sent[outgoing.id].isMessage
          /\ outgoing.result \in Results(sent[outgoing.id])
        BY <2>1 DEF IInv, PipelineOrder, NeedsReply, TypeOK, AnswerMsg
    <2>3. outgoing = [type |-> "answer", id |-> outgoing.id, result |-> outgoing.result]
        BY <2>1 DEF AnswerMsg
    <2>4. Service!Answer
        BY <1>3, <2>1, <2>2, <2>3, LastAnsweredSmaller DEF Service!Answer
    <2> QED BY <2>4 DEF Service!Next
<1> QED
    BY <1>1, <1>2, <1>3, NextCases, AnswersStep
    DEF OpenDevice, OpenFails, Announce, Scan, PublishIncoming, DeviceGone,
        ClearDevice, HandleCommand, HandleLog, PublishAnswer, CheckDevice,
        Discard, WriteDevice, WriteFails, ProcessEnds, Restart, Push,
        ResponsesDone, StartedDone, vars, pipelineVars

\* Whatever the goroutines, the device and the process do, what the kernel
\* sees is the command service: answers in order, none twice, none to a one-way
\* message, each a result of the command's own handler.
THEOREM Implementation == Spec => ImplementsService
<1>1. Init => Service!Init
    BY DEF Init, Service!Init
<1>2. IInv /\ [Next]_vars => [Service!Next]_(Service!vars)
    BY StepImplements
<1> QED BY <1>1, <1>2, Invariance, PTL DEF Spec, ImplementsService, Service!Spec

-----------------------------------------------------------------------------
\* No reply vanishes.

\* InPipe and AnsweredIds without the set braces.
LEMMA Where ==
    ASSUME IInv, NEW id \in 1 .. taken
    PROVE  /\ id \in InPipe <=> /\ NeedsReply(id)
                               /\ \/ reader = "publish" /\ id = nread
                                  \/ id > nread
                                  \/ id = incoming
                                  \/ outgoing \in AnswerMsg /\ outgoing.id = id
           /\ id \in AnsweredIds <=> \E i \in 1 .. Len(answers) : answers[i].id = id
<1>1. id \in 1 .. Len(sent)
    BY DEF IInv, TypeOK
<1>2. outgoing # Idle /\ outgoing.type = "answer" <=> outgoing \in AnswerMsg
    <2>1. outgoing \in Message \cup {Idle}
        BY DEF IInv, TypeOK
    <2> QED BY <2>1, AnswerByType, NoAnswer
<1>3. id \in nread + 1 .. taken <=> id > nread
    <2>1. TypeOK
        BY DEF IInv
    <2>2. nread \in 0 .. taken /\ taken \in 0 .. Len(sent) /\ Len(sent) \in Nat
        BY <2>1 DEF TypeOK
    <2>3. nread \in Nat /\ taken \in Nat
        BY <2>2
    <2>4. id \in Nat /\ id <= taken
        BY <2>3
    <2> QED BY <2>3, <2>4, Interval
<1>4. id \in AnsweredIds <=> \E i \in 1 .. Len(answers) : answers[i].id = id
    BY DEF AnsweredIds
<1> QED BY <1>1, <1>2, <1>3, <1>4 DEF InPipe

\* The same after a step.
LEMMA WhereNext ==
    ASSUME IInv', NEW id \in 1 .. taken'
    PROVE  /\ id \in InPipe' <=> /\ NeedsReply(id)'
                                /\ \/ reader' = "publish" /\ id = nread'
                                   \/ id > nread'
                                   \/ id = incoming'
                                   \/ outgoing' \in AnswerMsg /\ outgoing'.id = id
           /\ id \in AnsweredIds' <=>
                 \E i \in 1 .. Len(answers') : answers'[i].id = id
<1>1. id \in 1 .. Len(sent')
    BY DEF IInv, TypeOK
<1>2. outgoing' # Idle /\ outgoing'.type = "answer" <=> outgoing' \in AnswerMsg
    <2>1. outgoing' \in Message \cup {Idle}
        BY DEF IInv, TypeOK
    <2> QED BY <2>1, AnswerByType, NoAnswer
<1>3. id \in nread' + 1 .. taken' <=> id > nread'
    <2>1. TypeOK'
        BY DEF IInv
    <2>2. nread' \in 0 .. taken' /\ taken' \in 0 .. Len(sent') /\ Len(sent') \in Nat
        BY <2>1 DEF TypeOK
    <2>3. nread' \in Nat /\ taken' \in Nat
        BY <2>2
    <2>4. id \in Nat /\ id <= taken'
        BY <2>3
    <2> QED BY <2>3, <2>4, Interval
<1>4. id \in AnsweredIds' <=> \E i \in 1 .. Len(answers') : answers'[i].id = id
    BY DEF AnsweredIds
<1>5. id \in InPipe' <=>
          /\ NeedsReply(id)'
          /\ \/ reader' = "publish" /\ id = nread'
             \/ id \in nread' + 1 .. taken'
             \/ id = incoming'
             \/ outgoing' # Idle /\ outgoing'.type = "answer" /\ outgoing'.id = id
    BY <1>1 DEF InPipe
<1> QED BY <1>2, <1>3, <1>4, <1>5

Accounted(id) ==
    /\ NeedsReply(id) => id \in AnsweredIds \cup dropped \cup InPipe
    /\ ~(id \in AnsweredIds /\ id \in dropped)
    /\ ~(id \in InPipe /\ id \in AnsweredIds \cup dropped)

Held(id) ==
    /\ NeedsReply(id)
    /\ \/ reader = "publish" /\ id = nread
       \/ id > nread
       \/ id = incoming
       \/ outgoing \in AnswerMsg /\ outgoing.id = id

Answered(id) == \E i \in 1 .. Len(answers) : answers[i].id = id

\* No step loses a command, and none leaves it in two places.
LEMMA AccountedStep ==
    IInv /\ IInv' /\ EveryReplyAccountedFor /\ [Next]_vars => EveryReplyAccountedFor'
<1> SUFFICES ASSUME IInv, IInv', EveryReplyAccountedFor, [Next]_vars,
                    NEW id \in 1 .. taken'
             PROVE  Accounted(id)'
    BY DEF EveryReplyAccountedFor, Accounted
<1>a. /\ (id \in InPipe)' <=> Held(id)'
      /\ (id \in AnsweredIds)' <=> Answered(id)'
    BY WhereNext DEF Held, Answered
<1>b. ASSUME id \in 1 .. taken
      PROVE  /\ Accounted(id)
             /\ id \in InPipe <=> Held(id)
             /\ id \in AnsweredIds <=> Answered(id)
    BY <1>b, Where DEF Held, Answered, EveryReplyAccountedFor, Accounted
<1>c. UNCHANGED answers => Answered(id)' = Answered(id)
    BY DEF Answered
<1>d. UNCHANGED sent => NeedsReply(id)' = NeedsReply(id)
    BY DEF NeedsReply
<1> /\ taken \in 0 .. Len(sent) /\ nread \in 0 .. taken
    /\ (incoming # Idle => incoming \in 1 .. nread)
    BY DEF IInv, TypeOK, PipelineOrder
<1> outgoing # Idle => outgoing \in Message
    BY DEF IInv, TypeOK
<1> USE <1>a, <1>b, <1>c, <1>d, IdleAssumption, NoAnswer, AnswerByType DEF Held, Accounted
<1>e. ASSUME outgoing # Idle, Discard PROVE Accounted(id)'
    <2>1. /\ id \in 1 .. taken /\ outgoing' = Idle
          /\ UNCHANGED <<answers, sent, nread, taken, reader, incoming>>
        BY <1>e DEF Discard
    <2>2. CASE outgoing \in AnswerMsg /\ outgoing.id = id
        <3>1. dropped' = dropped \cup {id}
            BY <1>e, <2>2 DEF Discard
        <3>2. Held(id) /\ ~Held(id)'
            BY <2>1, <2>2 DEF IInv, PipelineOrder, TypeOK
        <3> QED BY <2>1, <3>1, <3>2
    <2>3. CASE ~(outgoing \in AnswerMsg /\ outgoing.id = id)
        <3>1. id \in dropped' <=> id \in dropped
            BY <1>e, <2>3 DEF Discard
        <3>2. Held(id)' = Held(id)
            BY <2>1, <2>3
        <3> QED BY <2>1, <3>1, <3>2
    <2> QED BY <2>2, <2>3
<1>1. CASE KernelSend
    <2>1. id \in 1 .. taken /\ UNCHANGED <<answers, dropped, nread, taken, reader, incoming, outgoing>>
        BY <1>1 DEF KernelSend, busVars
    <2>2. NeedsReply(id)' = NeedsReply(id)
        BY <1>1, <2>1, SentGrows DEF IInv
    <2> QED BY <2>1, <2>2
<1>2. CASE OpenDevice
    BY <1>2 DEF OpenDevice, busVars
<1>3. CASE OpenFails
    BY <1>3 DEF OpenFails, busVars
<1>4. CASE Announce
    BY <1>4 DEF Announce, Publish
<1>5. CASE Scan
    <2>1. UNCHANGED <<answers, dropped, sent, incoming, outgoing>> /\ nread' = nread + 1
        BY <1>5 DEF Scan, busVars
    <2>2. nread' \in 1 .. taken' /\ taken' \in Nat
        BY <1>5, ScanTakes DEF IInv
    <2>3. CASE id \in 1 .. taken
        <3>1. CASE id # nread + 1
            <4>1. Held(id)' = Held(id)
                BY <1>5, <2>1, <2>2, <2>3, <3>1 DEF Scan, IInv, PipelineOrder
            <4> QED BY <2>1, <2>3, <4>1
        <3>2. CASE id = nread + 1
            <4>1. Held(id)' = Held(id)
                BY <1>5, <2>1, <2>2, <2>3, <3>2 DEF Scan, NeedsReply
            <4> QED BY <2>1, <2>3, <4>1
        <3> QED BY <3>1, <3>2
    <2>4. CASE id \notin 1 .. taken
        <3>1. id > nread /\ id > taken /\ id >= nread'
            BY <2>1, <2>4
        <3>2. ~Answered(id)
            BY <3>1 DEF Answered, IInv, TypeOK, PipelineOrder
        <3>3. id \notin dropped
            BY <2>4 DEF IInv, TypeOK
        <3>4. NeedsReply(id) => Held(id)'
            BY <1>5, <2>1, <2>2, <3>1 DEF Scan, NeedsReply
        <3> QED BY <2>1, <3>2, <3>3, <3>4
    <2> QED BY <2>3, <2>4
<1>6. CASE PublishIncoming
    BY <1>6 DEF PublishIncoming, Publish
<1>7. CASE DeviceGone
    BY <1>7 DEF DeviceGone, busVars
<1>8. CASE ClearDevice
    BY <1>8 DEF ClearDevice, busVars
<1>9. CASE HandleCommand
    <2>1. id \in 1 .. taken /\ UNCHANGED <<answers, dropped, sent, nread, taken, reader, outgoing>>
        BY <1>9 DEF HandleCommand
    <2>2. \/ UNCHANGED incoming
          \/ incoming' = Idle /\ ~NeedsReply(incoming)
        BY <1>9 DEF HandleCommand, HandlerReturns, NeedsReply
    <2>3. Held(id)' = Held(id)
        BY <2>1, <2>2
    <2> QED BY <2>1, <2>3
<1>10. CASE HandleLog
    <2>1. id \in 1 .. taken /\ UNCHANGED <<answers, dropped, sent, nread, taken, reader, outgoing>>
        BY <1>10 DEF HandleLog
    <2>2. \/ UNCHANGED incoming
          \/ incoming' = Idle /\ ~NeedsReply(incoming)
        BY <1>10 DEF HandleLog, Publish, HandlerReturns, NeedsReply
    <2>3. Held(id)' = Held(id)
        BY <2>1, <2>2
    <2> QED BY <2>1, <2>3
<1>11. CASE PublishAnswer
    <2>1. id \in 1 .. taken /\ UNCHANGED <<answers, dropped, sent, nread, taken, reader>>
        BY <1>11 DEF PublishAnswer
    <2>2. outgoing = Idle /\ incoming' = Idle /\ incoming \in 1 .. nread
        BY <1>11 DEF PublishAnswer, Publish
    <2>3. outgoing' \in AnswerMsg /\ outgoing'.id = incoming
        BY <1>11, <2>2 DEF PublishAnswer, Publish, AnswerMsg, IInv, TypeOK
    <2>4. Held(id)' = Held(id)
        BY <2>1, <2>2, <2>3
    <2> QED BY <2>1, <2>4
<1>12. CASE CheckDevice
    BY <1>12, <1>e DEF CheckDevice, busVars
<1>13. CASE WriteDevice
    <2>1. /\ id \in 1 .. taken /\ outgoing # Idle /\ outgoing' = Idle
          /\ UNCHANGED <<dropped, sent, nread, taken, reader, incoming>>
        BY <1>13 DEF WriteDevice
    <2>2. CASE outgoing \in AnswerMsg
        <3>1. answers' = Append(answers, outgoing)
            BY <1>13, <2>2 DEF WriteDevice
        <3>2. Answered(id)' <=> Answered(id) \/ outgoing.id = id
            <4>1. /\ Len(answers) \in Nat
                  /\ Len(answers') = Len(answers) + 1
                  /\ answers'[Len(answers) + 1] = outgoing
                  /\ \A i \in 1 .. Len(answers) : answers'[i] = answers[i]
                BY <2>2, <3>1 DEF IInv, TypeOK
            <4>2. \A i : i \in 1 .. Len(answers') <=>
                            i \in 1 .. Len(answers) \/ i = Len(answers) + 1
                BY <4>1
            <4> QED BY <4>1, <4>2 DEF Answered
        <3>3. outgoing.id = id => Held(id) /\ ~Held(id)'
            BY <2>1, <2>2 DEF IInv, PipelineOrder, TypeOK
        <3>4. outgoing.id # id => Held(id)' = Held(id)
            BY <2>1
        <3> QED BY <2>1, <3>2, <3>3, <3>4
    <2>3. CASE outgoing \notin AnswerMsg
        <3>1. UNCHANGED answers
            BY <1>13, <2>1, <2>3 DEF WriteDevice
        <3>2. Held(id)' = Held(id)
            BY <2>1, <2>3
        <3> QED BY <2>1, <3>1, <3>2
    <2> QED BY <2>2, <2>3
<1>14. CASE WriteFails
    BY <1>14, <1>e DEF WriteFails
<1>15. CASE ProcessEnds
    BY <1>15 DEF ProcessEnds
<1>16. CASE Restart
    BY <1>16 DEF Restart, busVars
<1>17. CASE Push
    BY <1>17 DEF Push, Publish, pipelineVars
<1>18. CASE ResponsesDone
    BY <1>18 DEF ResponsesDone, pipelineVars
<1>19. CASE StartedDone
    BY <1>19 DEF StartedDone, pipelineVars
<1>20. CASE UNCHANGED vars
    BY <1>20 DEF vars, pipelineVars, busVars
<1> QED BY NextCases, <1>1, <1>2, <1>3, <1>4, <1>5, <1>6, <1>7, <1>8, <1>9,
           <1>10, <1>11, <1>12, <1>13, <1>14, <1>15, <1>16, <1>17, <1>18,
           <1>19, <1>20

\* Every command that was read and wants a reply is at any time in exactly one
\* place: answered, lost with a reason, or in the hands of a goroutine.
THEOREM EveryReplyAccounted == Spec => []EveryReplyAccountedFor
<1>1. Init => EveryReplyAccountedFor
    BY DEF Init, EveryReplyAccountedFor
<1>2. IInv /\ IInv' /\ EveryReplyAccountedFor /\ [Next]_vars => EveryReplyAccountedFor'
    BY AccountedStep
<1> QED BY <1>1, <1>2, Invariance, PTL DEF Spec

-----------------------------------------------------------------------------
\* Where m.dev is nil.

\* m.dev is nil exactly while messenger.Run is not between its os.OpenFile and
\* the end of its deferred function, and before the device was opened there is
\* no command in the process.
DeviceState ==
    /\ dev = "nil" <=> reader \in {"down", "start", "ended"}
    /\ reader \in {"down", "start"} => incoming = Idle /\ outgoing \notin AnswerMsg

\* Every step keeps it: only the reader assigns m.dev, and only the reader
\* brings commands in.
LEMMA DeviceStep == IInv /\ DeviceState /\ [Next]_vars => DeviceState'
<1> SUFFICES ASSUME IInv, DeviceState, [Next]_vars
             PROVE  DeviceState'
    OBVIOUS
<1>. USE DEF DeviceState
<1>1. CASE KernelSend \/ UNCHANGED vars
    BY <1>1 DEF KernelSend, vars, pipelineVars, busVars
<1>2. CASE OpenDevice \/ OpenFails \/ ClearDevice
    BY <1>2 DEF OpenDevice, OpenFails, ClearDevice, busVars
<1>3. CASE Announce \/ Scan \/ PublishIncoming \/ DeviceGone
    BY <1>3 DEF Announce, Scan, PublishIncoming, DeviceGone, busVars
<1>4. CASE HandleCommand \/ HandleLog
    BY <1>4 DEF HandleCommand, HandleLog
<1>5. CASE PublishAnswer
    BY <1>5 DEF PublishAnswer
<1>6. CASE CheckDevice \/ WriteDevice \/ WriteFails
    BY <1>6, NoAnswer DEF CheckDevice, WriteDevice, WriteFails, Discard, busVars
<1>7. CASE ProcessEnds \/ Restart
    BY <1>7, NoAnswer DEF ProcessEnds, Restart, busVars
<1>8. CASE Push
    BY <1>8, NoAnswer DEF Push, Publish, pipelineVars
<1>9. CASE ResponsesDone \/ StartedDone
    BY <1>9 DEF ResponsesDone, StartedDone, pipelineVars
<1> QED BY NextCases, <1>1, <1>2, <1>3, <1>4, <1>5, <1>6, <1>7, <1>8, <1>9

\* The silent discard of messenger.go:60 never hits an answer while the agent
\* means to carry on.
THEOREM SilentDropCorrect == Spec => []SilentDropOnlyAtTheEnd
<1>1. Init => DeviceState
    BY NoAnswer DEF Init, DeviceState
<1>2. IInv /\ DeviceState /\ [Next]_vars => DeviceState'
    BY DeviceStep
<1>3. DeviceState => SilentDropOnlyAtTheEnd
    BY DEF DeviceState, SilentDropOnlyAtTheEnd
<1> QED BY <1>1, <1>2, <1>3, Invariance, PTL DEF Spec
=============================================================================
