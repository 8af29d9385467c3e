--------------------------- MODULE CommandService ---------------------------
(***************************************************************************)
(* What the agent promises the kernel module: commands are queued on the   *)
(* character device, and each is answered at most once, in the order the   *)
(* kernel queued them, never when it is a one-way message, and with a      *)
(* result its handler can produce.  A command may stay unanswered (the     *)
(* agent stopped, the write failed); nothing is ever answered late, that   *)
(* is, behind the answer of a younger command.                             *)
(***************************************************************************)
EXTENDS Naturals, Sequences

CONSTANTS
    Commands,     \* the commands the kernel can send
    Results(_)    \* the results the handler of a command can produce

VARIABLES
    sent,         \* commands queued by the kernel; a command's id is its index
    answers       \* answers the kernel has received, in order

vars == <<sent, answers>>

LastAnswered == IF answers = <<>> THEN 0 ELSE answers[Len(answers)].id

Init ==
    /\ sent = <<>>
    /\ answers = <<>>

Send == \E c \in Commands :
    /\ sent' = Append(sent, c)
    /\ UNCHANGED answers

Answer == \E id \in 1 .. Len(sent) :
    /\ id > LastAnswered
    /\ ~sent[id].isMessage
    /\ \E r \in Results(sent[id]) :
          answers' = Append(answers, [type |-> "answer", id |-> id, result |-> r])
    /\ UNCHANGED sent

Next == Send \/ Answer

Spec == Init /\ [][Next]_vars
=============================================================================
