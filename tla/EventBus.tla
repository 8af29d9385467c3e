------------------------------ MODULE EventBus ------------------------------
(***************************************************************************)
(* The event bus the agent's goroutines talk through, as the code under    *)
(* src/ uses it (github.com/werbenhu/eventbus, which is not vendored).     *)
(*                                                                         *)
(* eventbus.New() gives every topic an unbuffered channel and one          *)
(* goroutine that takes a payload, runs the topic's handlers on it one     *)
(* after the other, and only then takes the next.  A topic is therefore    *)
(* one variable: the payload its goroutine is working on, or Idle.         *)
(* Publish blocks until the goroutine takes the payload, so the            *)
(* publisher's step and the goroutine's step are one step.  PublishSync    *)
(* runs the handlers in the caller: the one topic it is used on            *)
(* (trace.request) needs no variable.                                      *)
(***************************************************************************)

CONSTANT Idle   \* "the topic's goroutine waits for a payload"

VARIABLES
    incoming,   \* message.incoming: index of the command being handled
    outgoing,   \* message.outgoing: message being written to the device
    responses,  \* trace.response:   trace response being fanned out
    started     \* messenger.started: "started" while its handlers run

busVars == <<incoming, outgoing, responses, started>>

\* The calling goroutine hands payload m to an idle topic goroutine; while
\* that goroutine is busy the publisher stays blocked.
Publish(topic, m) ==
    /\ topic = Idle
    /\ topic' = m
=============================================================================
