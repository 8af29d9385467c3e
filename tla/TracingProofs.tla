---------------------------- MODULE TracingProofs ----------------------------
(***************************************************************************)
(* Machine-checked proofs about Tracing, for every set of clients, command *)
(* lines and task contexts, every window and every number of responses.    *)
(*                                                                         *)
(* The steps of the streams and of the trace.response goroutine are kept   *)
(* apart from those of Tracing's environment (Emit, DeviceTakes), so that  *)
(* Agent, where other code stands in for that environment, can use what is *)
(* proved of them here.                                                    *)
(***************************************************************************)
EXTENDS Tracing, TLAPS, WellFoundedInduction, FiniteSetTheorems

-----------------------------------------------------------------------------
\* Induction over the natural numbers, and functions that are defined by recursion.

\* A non-empty set of natural numbers has a least element.
LEMMA LeastElement ==
    ASSUME NEW T, T \subseteq Nat, T # {}
    PROVE  \E n \in T : \A k \in T : n <= k
<1> DEFINE R == {p \in Nat \X Nat : p[1] < p[2]}
<1>1. IsWellFoundedOn(R, Nat)
    BY NatLessThanWellFounded DEF OpToRel
<1>2. \A k, n \in Nat : k < n => <<k, n>> \in R
    OBVIOUS
<1> HIDE DEF R
<1>3. PICK n \in T : \A k \in T : <<k, n>> \notin R
    BY <1>1, WFMin
<1>4. \A k \in T : ~(k < n)
    BY <1>2, <1>3
<1> QED BY <1>4

\* Induction over the natural numbers, for a set of them instead of a predicate.
LEMMA SetInduction ==
    ASSUME NEW S, 0 \in S, \A n \in Nat : n \in S => n + 1 \in S
    PROVE  \A n \in Nat : n \in S
<1> SUFFICES ASSUME Nat \ S # {} PROVE FALSE
    OBVIOUS
<1> DEFINE T == Nat \ S
<1>1. PICK n \in T : \A k \in T : n <= k
    BY LeastElement
<1>2. n - 1 \in Nat /\ n - 1 \in S
    BY <1>1
<1> QED BY <1>1, <1>2

\* f is the function on 0 .. n with first value a and step h.
Recursive(f, n, S, a, h) ==
    /\ f \in [0 .. n -> S]
    /\ f[0] = a
    /\ \A k \in 1 .. n : f[k] = h[<<k, f[k - 1]>>]

\* A function that is defined by a first value and a step exists.
LEMMA Recursion ==
    ASSUME NEW N \in Nat, NEW S, NEW a \in S, NEW h \in [(1 .. N) \X S -> S]
    PROVE  \E f : Recursive(f, N, S, a, h)
<1> DEFINE D == {n \in Nat : n <= N => \E f : Recursive(f, n, S, a, h)}
<1>1. 0 \in D
    <2> DEFINE f == [k \in 0 .. 0 |-> a]
    <2>1. Recursive(f, 0, S, a, h)
        BY DEF Recursive
    <2> QED BY <2>1
<1>2. ASSUME NEW n \in Nat, n \in D
      PROVE  n + 1 \in D
    <2> SUFFICES ASSUME n + 1 <= N PROVE \E f : Recursive(f, n + 1, S, a, h)
        OBVIOUS
    <2>1. PICK f : Recursive(f, n, S, a, h)
        BY <1>2
    <2> DEFINE g == [k \in 0 .. n + 1 |-> IF k = n + 1 THEN h[<<k, f[n]>>] ELSE f[k]]
    <2>2. h[<<n + 1, f[n]>>] \in S
        BY <2>1 DEF Recursive
    <2>3. g \in [0 .. n + 1 -> S]
        BY <2>1, <2>2 DEF Recursive
    <2>4. g[0] = a
        BY <2>1 DEF Recursive
    <2>5. \A k \in 1 .. n + 1 : g[k] = h[<<k, g[k - 1]>>]
        BY <2>1 DEF Recursive
    <2> HIDE DEF g
    <2> QED BY <2>3, <2>4, <2>5 DEF Recursive
<1>3. \A n \in Nat : n \in D
    <2> HIDE DEF D
    <2> QED BY <1>1, <1>2, SetInduction
<1> QED BY <1>3

-----------------------------------------------------------------------------
\* Responses with no bound on their number.
AnyResponse == [id : Nat, ctx : Contexts]

\* The types, without the bound on the number of responses.
StreamsOK ==
    /\ phase \in [Clients -> {"off", "add", "subscribe", "wait", "remove", "done"}]
    /\ gone \in [Clients -> BOOLEAN]
    /\ subscribers \subseteq Clients
    /\ fanout \in (SUBSET Clients) \cup {Idle}
    /\ sending \in Clients \cup {Idle}
    /\ received \in [Clients -> Seq(AnyResponse)]
    /\ unread \in [Clients -> 0 .. Window]
    /\ logged \in Seq(AnyResponse)
    /\ since \in [Clients -> Nat]
    /\ responses \in AnyResponse \cup {Idle}

\* The response goroutine still has to call c's handler, or is inside it.
InHand(c) == (fanout # Idle /\ c \in fanout) \/ sending = c

\* The subscriptions and the response goroutine fit together: the response in
\* hand is the last one logged, and only a subscribed client, or one that has
\* gone away since, is still to get it.
FanoutOK ==
    /\ responses # Idle => logged # <<>> /\ responses = logged[Len(logged)]
    /\ responses = Idle => fanout = Idle
    /\ fanout = Idle => sending = Idle
    /\ sending # Idle => sending \notin fanout /\ Matches(Request(sending), responses.ctx)
    /\ \A c \in Clients :
          /\ c \in subscribers <=> phase[c] = "wait"
          /\ InHand(c) => phase[c] = "wait" \/ (phase[c] \in {"remove", "done"} /\ gone[c])
          /\ phase[c] = "remove" => gone[c]

\* What the handlers have been called for: all responses but the one in hand,
\* or all of them.
Behind(c) == responses # Idle /\ (fanout = Idle \/ InHand(c))

\* c has been sent what matches among responses m+1 to n.
HasFeed(c, m, n) == m <= n /\ received[c] = Feed(c, m, n)

\* The first response c's stream may carry.
Starts(c) == {since[c], since[c] - 1} \cap Nat

\* CompleteFeed with the responses of the client counted exactly.
FeedOK(c) ==
    /\ phase[c] \in {"off", "add", "subscribe"} => received[c] = <<>>
    /\ since[c] <= Len(logged)
    /\ phase[c] \in {"wait", "remove", "done"} =>
          \E m \in Starts(c) :
              IF phase[c] = "wait" /\ ~gone[c]
              THEN HasFeed(c, m, IF Behind(c) THEN Len(logged) - 1 ELSE Len(logged))
              ELSE \E n \in 0 .. Len(logged) : HasFeed(c, m, n)

\* What message m will add to the count of r in traced.
Pending(m, r) ==
    IF m = TraceMsg("add", r) THEN 1
    ELSE IF m = TraceMsg("remove", r) THEN -1
    ELSE 0

\* What kernel and streams agree on while a trace request is on its way too.
RequestsOK ==
    /\ outgoing = Idle \/ \E a \in {"add", "remove"}, q \in Requests : outgoing = TraceMsg(a, q)
    /\ traced \in [Requests -> Int]
    /\ \A r \in Requests : traced[r] + Pending(outgoing, r) = Cardinality(Asking(r))

\* What is on a stream meets the request it was opened with.
OnlyMatches(c) == \A i \in 1 .. Len(received[c]) :
    Matches(Request(c), received[c][i].ctx)

\* What the steps of streams and response goroutine preserve.
StreamInv == StreamsOK /\ FanoutOK /\ \A c \in Clients : FeedOK(c) /\ OnlyMatches(c)

-----------------------------------------------------------------------------
\* What MatchesIn computes.

\* The recursive function in MatchesIn exists, so MatchesIn obeys its equation.
LEMMA MatchesInDef ==
    ASSUME NEW log \in Seq(AnyResponse), NEW req, NEW m \in Nat
    PROVE  \A n \in 0 .. Len(log) :
               /\ MatchesIn(log, req, m, n) \in Seq(AnyResponse)
               /\ MatchesIn(log, req, m, n) =
                     IF n <= m THEN <<>>
                     ELSE IF Matches(req, log[n].ctx)
                          THEN Append(MatchesIn(log, req, m, n - 1), log[n])
                          ELSE MatchesIn(log, req, m, n - 1)
<1> DEFINE S == Seq(AnyResponse)
           N == Len(log)
           Step(k, x) == IF k <= m THEN <<>>
                         ELSE IF Matches(req, log[k].ctx) THEN Append(x, log[k]) ELSE x
           Eq(f) == f = [k \in 0 .. N |-> Step(k, f[k - 1])]
           F == CHOOSE g : Eq(g)
<1>1. N \in Nat /\ <<>> \in S
    OBVIOUS
<1>2. \A k \in 1 .. N, x \in S : Step(k, x) \in S
    OBVIOUS
<1>3. \A x : Step(0, x) = <<>>
    OBVIOUS
<1>4. \A n : MatchesIn(log, req, m, n) = F[n]
    BY DEF MatchesIn
<1>5. SUFFICES \A n \in 0 .. N : F[n] \in S /\ F[n] = Step(n, F[n - 1])
    BY <1>4
<1> HIDE DEF S, N, Step
<1>6. \E f : Eq(f)
    <2> DEFINE h == [p \in (1 .. N) \X S |-> Step(p[1], p[2])]
    <2>1. \A k \in 1 .. N, x \in S : h[<<k, x>>] = Step(k, x)
        OBVIOUS
    <2>2. h \in [(1 .. N) \X S -> S]
        BY <1>2
    <2> HIDE DEF h
    <2>3. PICK f : Recursive(f, N, S, <<>>, h)
        BY <1>1, <2>2, Recursion
    <2>4. \A k \in 0 .. N : f[k] = Step(k, f[k - 1])
        <3> TAKE k \in 0 .. N
        <3>1. CASE k = 0
            BY <1>3, <2>3, <3>1 DEF Recursive
        <3>2. CASE k # 0
            <4>1. k \in 1 .. N /\ k - 1 \in 0 .. N
                BY <1>1, <3>2
            <4> QED BY <2>1, <2>3, <4>1 DEF Recursive
        <3> QED BY <3>1, <3>2
    <2>5. Eq(f)
        BY <2>3, <2>4 DEF Recursive
    <2> QED BY <2>5
<1>7. Eq(F)
    <2> HIDE DEF Eq
    <2> QED BY <1>6
<1> HIDE DEF F
<1>8. \A n \in 0 .. N : F[n] = Step(n, F[n - 1])
    BY <1>7
<1>9. \A n \in 0 .. N : F[n] \in S
    <2> DEFINE D == {n \in Nat : n <= N => F[n] \in S}
    <2>1. 0 \in D
        BY <1>1, <1>3, <1>8
    <2>2. ASSUME NEW n \in Nat, n \in D
          PROVE  n + 1 \in D
        <3> SUFFICES ASSUME n + 1 \in 1 .. N PROVE F[n + 1] \in S
            BY <1>1
        <3>1. F[n] \in S
            BY <1>1, <2>2
        <3>2. F[n + 1] = Step(n + 1, F[n])
            BY <1>1, <1>8
        <3> QED BY <1>2, <3>1, <3>2
    <2>3. \A n \in Nat : n \in D
        <3> HIDE DEF D
        <3> QED BY <2>1, <2>2, SetInduction
    <2> QED BY <1>1, <2>3
<1> QED BY <1>8, <1>9

\* The equation, case by case.
LEMMA MatchesInNone ==
    ASSUME NEW log \in Seq(AnyResponse), NEW req, NEW m \in Nat,
           NEW n \in 0 .. Len(log), n <= m
    PROVE  MatchesIn(log, req, m, n) = <<>>
BY MatchesInDef

\* One response more is put on the stream if it matches.
LEMMA MatchesInNext ==
    ASSUME NEW log \in Seq(AnyResponse), NEW req, NEW m \in Nat,
           NEW n \in 0 .. Len(log) - 1, m <= n
    PROVE  MatchesIn(log, req, m, n + 1) =
               IF Matches(req, log[n + 1].ctx)
               THEN Append(MatchesIn(log, req, m, n), log[n + 1])
               ELSE MatchesIn(log, req, m, n)
<1>1. n + 1 \in 0 .. Len(log) /\ ~(n + 1 <= m) /\ (n + 1) - 1 = n
    OBVIOUS
<1>2. PICK k \in 0 .. Len(log) : k = n + 1
    BY <1>1
<1>3. MatchesIn(log, req, m, k) =
          IF k <= m THEN <<>>
          ELSE IF Matches(req, log[k].ctx)
               THEN Append(MatchesIn(log, req, m, k - 1), log[k])
               ELSE MatchesIn(log, req, m, k - 1)
    BY MatchesInDef
<1>4. ~(k <= m) /\ k - 1 = n
    BY <1>1, <1>2
<1> QED BY <1>2, <1>3, <1>4

\* A response that is logged does not change what came before it.
LEMMA MatchesInAppend ==
    ASSUME NEW log \in Seq(AnyResponse), NEW r \in AnyResponse, NEW req, NEW m \in Nat
    PROVE  \A n \in 0 .. Len(log) :
               MatchesIn(Append(log, r), req, m, n) = MatchesIn(log, req, m, n)
<1> DEFINE new == Append(log, r)
           D == {n \in Nat : n <= Len(log) =>
                                 MatchesIn(new, req, m, n) = MatchesIn(log, req, m, n)}
<1>1. /\ Len(log) \in Nat
      /\ new \in Seq(AnyResponse) /\ Len(new) = Len(log) + 1
      /\ \A n \in 1 .. Len(log) : new[n] = log[n]
    OBVIOUS
<1> HIDE DEF new
<1>2. ASSUME NEW n \in 0 .. Len(log), n <= m
      PROVE  MatchesIn(new, req, m, n) = MatchesIn(log, req, m, n)
    <2>1. n \in 0 .. Len(new)
        BY <1>1
    <2>2. MatchesIn(log, req, m, n) = <<>>
        BY <1>2, MatchesInNone
    <2>3. MatchesIn(new, req, m, n) = <<>>
        BY <1>1, <1>2, <2>1, MatchesInNone
    <2> QED BY <2>2, <2>3
<1>3. 0 \in D
    BY <1>1, <1>2
<1>4. ASSUME NEW n \in Nat, n \in D, n + 1 <= Len(log)
      PROVE  MatchesIn(new, req, m, n + 1) = MatchesIn(log, req, m, n + 1)
    <2>1. CASE n + 1 <= m
        BY <1>1, <1>2, <1>4, <2>1
    <2>2. CASE m <= n
        <3>1. /\ n \in 0 .. Len(log) - 1 /\ n \in 0 .. Len(new) - 1
              /\ new[n + 1] = log[n + 1]
            BY <1>1, <1>4
        <3>2. MatchesIn(new, req, m, n) = MatchesIn(log, req, m, n)
            BY <1>1, <1>4
        <3>3. MatchesIn(log, req, m, n + 1) =
                 IF Matches(req, log[n + 1].ctx)
                 THEN Append(MatchesIn(log, req, m, n), log[n + 1])
                 ELSE MatchesIn(log, req, m, n)
            BY <2>2, <3>1, MatchesInNext
        <3>4. MatchesIn(new, req, m, n + 1) =
                 IF Matches(req, new[n + 1].ctx)
                 THEN Append(MatchesIn(new, req, m, n), new[n + 1])
                 ELSE MatchesIn(new, req, m, n)
            BY <1>1, <2>2, <3>1, MatchesInNext
        <3> QED BY <3>1, <3>2, <3>3, <3>4
    <2> QED BY <1>4, <2>1, <2>2
<1>5. \A n \in Nat : n \in D
    <2>1. \A n \in Nat : n \in D => n + 1 \in D
        BY <1>4
    <2> HIDE DEF D
    <2> QED BY <1>3, <2>1, SetInduction
<1> QED BY <1>1, <1>5 DEF new

-----------------------------------------------------------------------------
\* The steps of the clients, the streams and the response goroutine.

\* Everything of a client's stream that its feed depends on.
SameStream(c) ==
    /\ logged' = logged
    /\ phase'[c] = phase[c] /\ gone'[c] = gone[c] /\ since'[c] = since[c]
    /\ received'[c] = received[c]
    /\ Behind(c)' <=> Behind(c)

\* A step that leaves a stream alone leaves its feed complete.
LEMMA FeedSame ==
    ASSUME NEW c \in Clients, FeedOK(c), OnlyMatches(c), SameStream(c)
    PROVE  FeedOK(c)' /\ OnlyMatches(c)'
BY DEF FeedOK, OnlyMatches, SameStream, HasFeed, Feed, Starts

\* Connecting and reading change nothing a feed depends on.
LEMMA ClientStep ==
    ASSUME StreamInv, NEW d \in Clients, Connect(d) \/ Read(d)
    PROVE  StreamInv'
<1> USE DEF StreamInv
<1>1. StreamsOK'
    <2>1. CASE Connect(d)
        BY <2>1 DEF Connect, StreamsOK, busVars
    <2>2. CASE Read(d)
        <3>1. unread[d] - 1 \in 0 .. Window
            BY <2>2, WindowAssumption DEF Read, StreamsOK
        <3> QED BY <2>2, <3>1 DEF Read, StreamsOK, busVars
    <2> QED BY <2>1, <2>2
<1>2. FanoutOK'
    BY DEF Connect, Read, StreamsOK, FanoutOK, InHand, busVars
<1>3. ASSUME NEW c \in Clients
      PROVE  FeedOK(c)' /\ OnlyMatches(c)'
    <2>1. CASE SameStream(c)
        BY <2>1, FeedSame
    <2>2. CASE ~SameStream(c)
        <3>1. c = d /\ Connect(d)
            BY <2>2 DEF Connect, Read, SameStream, Behind, InHand, StreamsOK, busVars
        <3> QED BY <3>1 DEF Connect, FeedOK, OnlyMatches, StreamsOK
    <2> QED BY <2>1, <2>2
<1> QED BY <1>1, <1>2, <1>3

\* A client that goes away keeps what it has got.
LEMMA GoAwayStep ==
    ASSUME StreamInv, NEW d \in Clients, GoAway(d)
    PROVE  StreamInv'
<1> USE DEF StreamInv
<1>1. StreamsOK'
    BY DEF GoAway, StreamsOK, busVars
<1>2. FanoutOK'
    BY DEF GoAway, StreamsOK, FanoutOK, InHand, busVars
<1>3. ASSUME NEW c \in Clients
      PROVE  FeedOK(c)' /\ OnlyMatches(c)'
    <2>1. CASE c # d
        <3>1. SameStream(c)
            BY <2>1 DEF GoAway, SameStream, Behind, InHand, StreamsOK, busVars
        <3> QED BY <3>1, FeedSame
    <2>2. CASE c = d
        <3>1. OnlyMatches(c)'
            BY DEF GoAway, OnlyMatches
        <3>2. Len(logged) - 1 \in 0 .. Len(logged) \/ ~Behind(c)
            BY DEF StreamsOK, FanoutOK, Behind
        <3>3. Len(logged) \in 0 .. Len(logged)
            BY DEF StreamsOK
        <3> QED BY <2>2, <3>1, <3>2, <3>3 DEF GoAway, FeedOK, HasFeed, Feed, Starts, StreamsOK
    <2> QED BY <2>1, <2>2
<1> QED BY <1>1, <1>2, <1>3

\* The requests that are published concern the kernel module only.
LEMMA PublishStep ==
    ASSUME StreamInv, NEW d \in Clients, PublishAdd(d) \/ PublishRemove(d)
    PROVE  StreamInv'
<1> USE DEF StreamInv
<1>1. StreamsOK'
    BY DEF PublishAdd, PublishRemove, StreamsOK
<1>2. FanoutOK'
    BY DEF PublishAdd, PublishRemove, StreamsOK, FanoutOK, InHand
<1>3. ASSUME NEW c \in Clients
      PROVE  FeedOK(c)' /\ OnlyMatches(c)'
    <2>1. CASE SameStream(c)
        BY <2>1, FeedSame
    <2>2. CASE ~SameStream(c)
        <3>1. c = d
            BY <2>2 DEF PublishAdd, PublishRemove, SameStream, Behind, InHand, StreamsOK
        <3>2. CASE PublishAdd(d)
            BY <3>1, <3>2 DEF PublishAdd, FeedOK, OnlyMatches, StreamsOK
        <3>3. CASE PublishRemove(d)
            BY <3>1, <3>3
            DEF PublishRemove, FeedOK, OnlyMatches, HasFeed, Feed, Starts, StreamsOK
        <3> QED BY <3>2, <3>3
    <2> QED BY <2>1, <2>2
<1> QED BY <1>1, <1>2, <1>3

\* A stream that subscribes has missed what was logged before, but perhaps not
\* the response the goroutine is about to fan out.
LEMMA SubscribeStep ==
    ASSUME StreamInv, NEW d \in Clients, Subscribe(d)
    PROVE  StreamInv'
<1> USE DEF StreamInv
<1>1. StreamsOK'
    BY DEF Subscribe, StreamsOK, busVars
<1>2. FanoutOK'
    BY DEF Subscribe, StreamsOK, FanoutOK, InHand, busVars
<1>3. ASSUME NEW c \in Clients
      PROVE  FeedOK(c)' /\ OnlyMatches(c)'
    <2>1. CASE c # d
        <3>1. SameStream(c)
            BY <2>1 DEF Subscribe, SameStream, Behind, InHand, StreamsOK, busVars
        <3> QED BY <3>1, FeedSame
    <2>2. CASE c = d
        <3> DEFINE L == Len(logged)
                   m == IF Behind(c) /\ ~gone[c] THEN L - 1 ELSE L
        <3>1. /\ L \in Nat /\ m \in {L, L - 1} /\ m \in 0 .. L
              /\ Behind(c) => L - 1 \in Nat
            BY DEF StreamsOK, FanoutOK, Behind
        <3>2. /\ received'[c] = <<>> /\ received[c] = <<>> /\ since'[c] = L
              /\ logged' = logged /\ phase'[c] = "wait" /\ gone' = gone
              /\ Behind(c)' = Behind(c)
            BY <2>2 DEF Subscribe, FeedOK, StreamsOK, Behind, InHand, busVars
        <3>3. Feed(c, m, m)' = <<>>
            BY <3>1, <3>2, MatchesInNone DEF Feed, StreamsOK
        <3>4. m \in Starts(c)'
            BY <3>1, <3>2 DEF Starts
        <3>5. HasFeed(c, m, m)'
            BY <3>1, <3>2, <3>3 DEF HasFeed
        <3>6. OnlyMatches(c)'
            BY <3>2 DEF OnlyMatches
        <3> HIDE DEF L
        <3>7. FeedOK(c)'
            BY <3>1, <3>2, <3>4, <3>5 DEF FeedOK, L
        <3> QED BY <3>6, <3>7
    <2> QED BY <2>1, <2>2
<1> QED BY <1>1, <1>2, <1>3

\* A stream that unsubscribes has been gone for a while.
LEMMA UnsubscribeStep ==
    ASSUME StreamInv, NEW d \in Clients, Unsubscribe(d)
    PROVE  StreamInv'
<1> USE DEF StreamInv
<1>1. StreamsOK'
    BY DEF Unsubscribe, StreamsOK, busVars
<1>2. FanoutOK'
    BY DEF Unsubscribe, StreamsOK, FanoutOK, InHand, busVars
<1>3. ASSUME NEW c \in Clients
      PROVE  FeedOK(c)' /\ OnlyMatches(c)'
    <2>1. CASE c # d
        <3>1. SameStream(c)
            BY <2>1 DEF Unsubscribe, SameStream, Behind, InHand, StreamsOK, busVars
        <3> QED BY <3>1, FeedSame
    <2>2. CASE c = d
        BY <2>2 DEF Unsubscribe, FeedOK, OnlyMatches, HasFeed, Feed, Starts, StreamsOK, busVars
    <2> QED BY <2>1, <2>2
<1> QED BY <1>1, <1>2, <1>3

\* The response goroutine takes the handlers of all streams that wait.
LEMMA TakeStep ==
    ASSUME StreamInv, TakeResponse
    PROVE  StreamInv'
<1> USE DEF StreamInv
<1>1. StreamsOK'
    BY DEF TakeResponse, StreamsOK, busVars
<1>2. FanoutOK'
    BY StreamsIdleAssumption DEF TakeResponse, StreamsOK, FanoutOK, InHand, busVars
<1>3. ASSUME NEW c \in Clients
      PROVE  FeedOK(c)' /\ OnlyMatches(c)'
    <2>1. CASE phase[c] = "wait"
        <3>1. Behind(c) /\ Behind(c)'
            BY <2>1 DEF TakeResponse, StreamsOK, FanoutOK, Behind, InHand, busVars
        <3>2. SameStream(c)
            BY <3>1 DEF TakeResponse, SameStream
        <3> QED BY <3>2, FeedSame
    <2>2. CASE phase[c] # "wait"
        BY <2>2 DEF TakeResponse, FeedOK, OnlyMatches, HasFeed, Feed, Starts
    <2> QED BY <2>1, <2>2
<1> QED BY <1>1, <1>2, <1>3

\* A client whose handler returns at once is not behind any more, because the
\* response was none of its own.
LEMMA CallStep ==
    ASSUME StreamInv, NEW d \in Clients, Call(d)
    PROVE  StreamInv'
<1> USE DEF StreamInv
<1>1. /\ d \in fanout /\ fanout # Idle /\ sending = Idle
      /\ fanout' = fanout \ {d}
      /\ sending' = (IF Matches(Request(d), responses.ctx) THEN d ELSE Idle)
      /\ fanout \in SUBSET Clients
      /\ responses # Idle /\ responses' = responses
    BY DEF Call, StreamsOK, FanoutOK, busVars
<1>2. fanout' # Idle /\ \A c \in Clients : Idle # c
    BY <1>1, StreamsIdleAssumption
<1>3. StreamsOK'
    BY <1>1 DEF Call, StreamsOK
<1>4. FanoutOK'
    BY <1>1, <1>2 DEF Call, StreamsOK, FanoutOK, InHand
<1>5. ASSUME NEW c \in Clients
      PROVE  FeedOK(c)' /\ OnlyMatches(c)'
    <2>1. CASE Behind(c)' <=> Behind(c)
        <3>1. SameStream(c)
            BY <2>1 DEF Call, SameStream
        <3> QED BY <3>1, FeedSame
    <2>2. CASE ~(Behind(c)' <=> Behind(c))
        <3>1. c = d /\ Behind(c) /\ ~Behind(c)' /\ ~Matches(Request(c), responses.ctx)
            BY <1>1, <1>2, <2>2 DEF Behind, InHand
        <3>2. CASE phase[c] = "wait" /\ ~gone[c]
            <4> DEFINE L == Len(logged)
            <4>1. PICK m \in Starts(c) : HasFeed(c, m, L - 1)
                BY <3>1, <3>2 DEF FeedOK
            <4>2. /\ L - 1 \in 0 .. L - 1 /\ m \in Nat /\ m <= L - 1
                  /\ logged[(L - 1) + 1] = responses
                BY <1>1, <4>1 DEF StreamsOK, FanoutOK, Starts, HasFeed
            <4>3. Feed(c, m, (L - 1) + 1) = Feed(c, m, L - 1)
                BY <3>1, <4>2, MatchesInNext DEF Feed, StreamsOK
            <4>4. HasFeed(c, m, L)
                BY <4>1, <4>2, <4>3 DEF HasFeed, StreamsOK
            <4> QED BY <3>1, <3>2, <4>1, <4>4
                    DEF Call, FeedOK, OnlyMatches, HasFeed, Feed, Starts
        <3>3. CASE ~(phase[c] = "wait" /\ ~gone[c])
            BY <3>3 DEF Call, FeedOK, OnlyMatches, HasFeed, Feed, Starts
        <3> QED BY <3>2, <3>3
    <2> QED BY <2>1, <2>2
<1> QED BY <1>3, <1>4, <1>5

\* What is sent is the response in hand, the next that matches.
LEMMA SendStep ==
    ASSUME StreamInv, Send
    PROVE  StreamInv'
<1> USE DEF StreamInv
<1> DEFINE d == sending
           L == Len(logged)
<1>1. /\ d \in Clients /\ d \notin fanout /\ fanout # Idle
      /\ sending' = Idle /\ \A c \in Clients : Idle # c
      /\ responses \in AnyResponse /\ responses # Idle
      /\ L \in Nat /\ L > 0 /\ responses = logged[L]
      /\ Matches(Request(d), responses.ctx)
      /\ UNCHANGED <<phase, gone, subscribers, fanout, logged, since, responses>>
    BY StreamsIdleAssumption DEF Send, StreamsOK, FanoutOK, busVars
<1> HIDE DEF L
<1>2. CASE gone[d]
    <2>1. UNCHANGED <<received, unread>>
        BY <1>2 DEF Send
    <2>2. StreamsOK'
        BY <1>1, <2>1 DEF StreamsOK
    <2>3. FanoutOK'
        BY <1>1 DEF StreamsOK, FanoutOK, InHand
    <2>4. ASSUME NEW c \in Clients
          PROVE  FeedOK(c)' /\ OnlyMatches(c)'
        <3>1. CASE c = d
            BY <1>1, <1>2, <2>1, <3>1 DEF FeedOK, OnlyMatches, HasFeed, Feed, Starts
        <3>2. CASE c # d
            <4>1. SameStream(c)
                BY <1>1, <2>1, <3>2 DEF SameStream, Behind, InHand
            <4> QED BY <4>1, FeedSame
        <3> QED BY <3>1, <3>2
    <2> QED BY <2>2, <2>3, <2>4
<1>3. CASE ~gone[d]
    <2>1. /\ unread[d] < Window
          /\ received' = [received EXCEPT ![d] = Append(@, responses)]
          /\ unread' = [unread EXCEPT ![d] = @ + 1]
          /\ unread[d] + 1 \in 0 .. Window
        BY <1>1, <1>3, WindowAssumption DEF Send, StreamsOK
    <2>2. StreamsOK'
        BY <1>1, <2>1 DEF StreamsOK
    <2>3. FanoutOK'
        BY <1>1 DEF StreamsOK, FanoutOK, InHand
    <2>4. ASSUME NEW c \in Clients
          PROVE  FeedOK(c)' /\ OnlyMatches(c)'
        <3>1. CASE c = d
            <4>1. phase[c] = "wait" /\ ~gone[c] /\ Behind(c) /\ ~Behind(c)'
                BY <1>1, <1>3, <3>1 DEF FanoutOK, Behind, InHand
            <4>2. PICK m \in Starts(c) : HasFeed(c, m, L - 1)
                BY <4>1 DEF FeedOK, L
            <4>3. m \in Nat /\ m <= L - 1 /\ L - 1 \in 0 .. Len(logged) - 1
                  /\ (L - 1) + 1 = L
                BY <1>1, <4>2 DEF Starts, HasFeed, L, StreamsOK
            <4>4. Feed(c, m, L) = Append(received[c], responses)
                <5>1. Feed(c, m, L - 1) = received[c]
                    BY <4>2 DEF HasFeed
                <5>2. Matches(Request(c), logged[(L - 1) + 1].ctx)
                    BY <1>1, <3>1, <4>3
                <5>3. Feed(c, m, (L - 1) + 1) = Append(Feed(c, m, L - 1), logged[(L - 1) + 1])
                    BY <4>3, <5>2, MatchesInNext DEF Feed, StreamsOK
                <5> QED BY <1>1, <4>3, <5>1, <5>3
            <4>5. received'[c] = Append(received[c], responses)
                BY <1>1, <2>1, <3>1 DEF StreamsOK
            <4>6. HasFeed(c, m, L)'
                BY <1>1, <4>3, <4>4, <4>5 DEF HasFeed, Feed, L
            <4>7. FeedOK(c)'
                BY <1>1, <4>1, <4>2, <4>6 DEF FeedOK, Starts, L
            <4>8. OnlyMatches(c)'
                BY <1>1, <3>1, <4>5 DEF OnlyMatches, StreamsOK
            <4> QED BY <4>7, <4>8
        <3>2. CASE c # d
            <4>1. SameStream(c)
                BY <1>1, <2>1, <3>2 DEF SameStream, Behind, InHand, StreamsOK
            <4> QED BY <4>1, FeedSame
        <3> QED BY <3>1, <3>2
    <2> QED BY <2>2, <2>3, <2>4
<1> QED BY <1>2, <1>3

\* When the last handler has returned nobody is behind.
LEMMA FanoutDoneStep ==
    ASSUME StreamInv, FanoutDone
    PROVE  StreamInv'
<1> USE DEF StreamInv
<1>1. StreamsOK'
    BY DEF FanoutDone, StreamsOK
<1>2. FanoutOK'
    BY StreamsIdleAssumption DEF FanoutDone, StreamsOK, FanoutOK, InHand
<1>3. ASSUME NEW c \in Clients
      PROVE  FeedOK(c)' /\ OnlyMatches(c)'
    <2>1. {} # Idle /\ Idle # c
        BY StreamsIdleAssumption
    <2>2. ~Behind(c) /\ ~Behind(c)'
        BY <2>1 DEF FanoutDone, Behind, InHand
    <2>3. SameStream(c)
        BY <2>2 DEF FanoutDone, SameStream
    <2> QED BY <2>3, FeedSame
<1> QED BY <1>1, <1>2, <1>3

\* A response that is logged is in hand, and every stream behind by it.
LEMMA LogStep ==
    ASSUME StreamInv, NEW r \in AnyResponse,
           responses = Idle, responses' = r, logged' = Append(logged, r),
           UNCHANGED <<phase, gone, subscribers, fanout, sending, received, unread, since>>
    PROVE  StreamInv'
<1> USE DEF StreamInv
<1> DEFINE L == Len(logged)
<1>1. /\ L \in Nat /\ Len(logged') = L + 1 /\ logged'[L + 1] = r
      /\ logged' \in Seq(AnyResponse) /\ logged' # <<>>
      /\ r # Idle /\ fanout = Idle /\ sending = Idle
    BY StreamsIdleAssumption DEF StreamsOK, FanoutOK, AnyResponse
<1>2. StreamsOK'
    BY <1>1 DEF StreamsOK
<1>3. FanoutOK'
    BY <1>1, StreamsIdleAssumption DEF StreamsOK, FanoutOK, InHand
<1>4. ASSUME NEW c \in Clients
      PROVE  FeedOK(c)' /\ OnlyMatches(c)'
    <2>1. ~Behind(c) /\ Behind(c)'
        BY <1>1 DEF Behind
    <2> DEFINE HadFeed(m, n) ==
                   m <= n /\ received[c] = MatchesIn(logged', Request(c), m, n)
    <2>2. ASSUME NEW m \in Starts(c), NEW n \in 0 .. L, HasFeed(c, m, n)
          PROVE  HadFeed(m, n)
        <3>1. MatchesIn(logged', Request(c), m, n) = Feed(c, m, n)
            BY MatchesInAppend DEF Feed, Starts, StreamsOK
        <3> QED BY <2>2, <3>1 DEF HasFeed
    <2>3. L \in 0 .. L /\ (L + 1) - 1 = L /\ \A n \in 0 .. L : n \in 0 .. L + 1
        BY <1>1
    <2>4. OnlyMatches(c)'
        BY DEF OnlyMatches
    <2>5. since[c] <= L + 1
        BY <1>1 DEF FeedOK, StreamsOK
    <2>6. ASSUME phase[c] \in {"wait", "remove", "done"}
          PROVE  \E m \in Starts(c) :
                     IF phase[c] = "wait" /\ ~gone[c]
                     THEN HadFeed(m, L)
                     ELSE \E n \in 0 .. L + 1 : HadFeed(m, n)
        <3>1. PICK m \in Starts(c) :
                  IF phase[c] = "wait" /\ ~gone[c]
                  THEN HasFeed(c, m, L)
                  ELSE \E n \in 0 .. L : HasFeed(c, m, n)
            BY <2>1, <2>6 DEF FeedOK
        <3> HIDE DEF HadFeed
        <3> QED BY <2>2, <2>3, <3>1
    <2> HIDE DEF L
    <2> QED BY <1>1, <2>1, <2>3, <2>4, <2>5, <2>6 DEF FeedOK, HasFeed, Feed, Starts
<1> QED BY <1>2, <1>3, <1>4

\* When the process ends the streams that were open have got what they will get.
LEMMA BreakStep ==
    ASSUME StreamInv, StreamsBreak, responses' = Idle
    PROVE  StreamInv'
<1> USE DEF StreamInv
<1>1. StreamsOK'
    BY DEF StreamsBreak, StreamsOK
<1>2. FanoutOK'
    BY StreamsIdleAssumption DEF StreamsBreak, StreamsOK, FanoutOK, InHand
<1>3. ASSUME NEW c \in Clients
      PROVE  FeedOK(c)' /\ OnlyMatches(c)'
    <2> DEFINE L == Len(logged)
    <2>1. /\ UNCHANGED <<gone, received, logged, since>>
          /\ phase'[c] = IF phase[c] = "off" THEN "off" ELSE "done"
          /\ L \in Nat /\ L \in 0 .. L
        BY DEF StreamsBreak, StreamsOK
    <2>2. OnlyMatches(c)'
        BY <2>1 DEF OnlyMatches
    <2>3. CASE phase[c] = "off"
        BY <2>1, <2>2, <2>3 DEF FeedOK
    <2>4. CASE phase[c] \in {"add", "subscribe"}
        <3>1. since[c] \in 0 .. L /\ since[c] \in Starts(c) /\ since[c] \in Nat
            BY <2>1 DEF FeedOK, StreamsOK, Starts
        <3>2. Feed(c, since[c], since[c]) = <<>>
            BY <3>1, MatchesInNone DEF Feed, StreamsOK
        <3>3. HasFeed(c, since[c], since[c])
            BY <2>4, <3>1, <3>2 DEF HasFeed, FeedOK
        <3> QED BY <2>1, <2>2, <2>4, <3>1, <3>3 DEF FeedOK, HasFeed, Feed, Starts
    <2>5. CASE phase[c] \in {"wait", "remove", "done"}
        <3>1. L - 1 \in 0 .. L \/ ~Behind(c)
            BY <2>1 DEF Behind, FanoutOK, StreamsOK
        <3>2. PICK m \in Starts(c), n \in 0 .. L : HasFeed(c, m, n)
            BY <2>1, <2>5, <3>1 DEF FeedOK
        <3> QED BY <2>1, <2>2, <2>5, <3>2 DEF FeedOK, HasFeed, Feed, Starts
    <2> QED BY <2>1, <2>3, <2>4, <2>5 DEF StreamsOK
<1> QED BY <1>1, <1>2, <1>3

-----------------------------------------------------------------------------
\* Tracing by itself.

\* The steps of Tracing, one by one.
LEMMA NextCases ==
    ASSUME [Next]_vars
    PROVE  \/ \E c \in Clients :
                 \/ Connect(c) \/ GoAway(c) \/ Read(c)
                 \/ PublishAdd(c) \/ Subscribe(c) \/ Unsubscribe(c) \/ PublishRemove(c)
                 \/ Call(c)
           \/ TakeResponse \/ Send \/ FanoutDone
           \/ \E ctx \in Contexts : Emit(ctx)
           \/ DeviceTakes \/ UNCHANGED vars
BY DEF Next, Client, Stream, Responder, Elsewhere

\* Nothing has happened yet on any stream.
LEMMA InitStreamInv == Init => StreamInv
<1> SUFFICES ASSUME Init PROVE StreamInv
    OBVIOUS
<1>1. StreamsOK
    BY WindowAssumption DEF Init, StreamsInit, StreamsOK
<1>2. FanoutOK
    BY StreamsIdleAssumption DEF Init, StreamsInit, FanoutOK, InHand
<1>3. ASSUME NEW c \in Clients
      PROVE  FeedOK(c) /\ OnlyMatches(c)
    BY DEF Init, StreamsInit, FeedOK, OnlyMatches
<1> QED BY <1>1, <1>2, <1>3 DEF StreamInv

\* Steps that touch none of the streams keep everything said of them.
LEMMA StreamsRest ==
    ASSUME StreamInv,
           UNCHANGED <<phase, gone, subscribers, fanout, sending, received, unread,
                       logged, since, responses>>
    PROVE  StreamInv'
<1>1. StreamsOK' /\ FanoutOK'
    BY DEF StreamInv, StreamsOK, FanoutOK, InHand
<1>2. ASSUME NEW c \in Clients
      PROVE  FeedOK(c)' /\ OnlyMatches(c)'
    <2>1. SameStream(c)
        BY DEF SameStream, Behind, InHand
    <2> QED BY <2>1, FeedSame DEF StreamInv
<1> QED BY <1>1, <1>2 DEF StreamInv

\* Every step of Tracing keeps the feeds complete.
LEMMA StreamInvStep == StreamInv /\ [Next]_vars => StreamInv'
<1> SUFFICES ASSUME StreamInv, [Next]_vars
             PROVE  StreamInv'
    OBVIOUS
<1>1. ASSUME NEW ctx \in Contexts, Emit(ctx)
      PROVE  StreamInv'
    <2> DEFINE r == [id |-> Len(logged) + 1, ctx |-> ctx]
    <2>1. r \in AnyResponse
        BY DEF StreamInv, StreamsOK, AnyResponse
    <2>2. responses = Idle /\ responses' = r /\ logged' = Append(logged, r)
        BY <1>1 DEF Emit, Publish
    <2>3. UNCHANGED <<phase, gone, subscribers, fanout, sending, received, unread, since>>
        BY <1>1 DEF Emit
    <2> HIDE DEF r
    <2> QED BY <2>1, <2>2, <2>3, LogStep
<1>2. CASE DeviceTakes \/ UNCHANGED vars
    BY <1>2, StreamsRest DEF DeviceTakes, vars, tracingVars, busVars
<1> QED BY NextCases, <1>1, <1>2, ClientStep, GoAwayStep, PublishStep, SubscribeStep,
           UnsubscribeStep, TakeStep, CallStep, SendStep, FanoutDoneStep

\* The streams and the response goroutine keep StreamInv.
LEMMA StreamInvariance == Spec => []StreamInv
BY InitStreamInv, StreamInvStep, PTL DEF Spec

\* StreamInv counts exactly what CompleteFeed leaves open.
LEMMA FeedIsComplete == StreamInv => CompleteFeed
<1> SUFFICES ASSUME StreamInv, NEW c \in Clients, phase[c] \in {"wait", "remove", "done"}
             PROVE  \E m \in Starts(c), n \in 0 .. Len(logged) :
                        /\ received[c] = Feed(c, m, n)
                        /\ phase[c] = "wait" /\ ~gone[c] =>
                              n >= Len(logged) - (IF responses = Idle THEN 0 ELSE 1)
    BY DEF CompleteFeed, Starts
<1> DEFINE L == Len(logged)
<1>1. L \in Nat /\ (responses # Idle => L > 0)
    BY DEF StreamInv, StreamsOK, FanoutOK
<1>2. PICK m \in Starts(c) :
          IF phase[c] = "wait" /\ ~gone[c]
          THEN HasFeed(c, m, IF Behind(c) THEN L - 1 ELSE L)
          ELSE \E n \in 0 .. L : HasFeed(c, m, n)
    BY DEF StreamInv, FeedOK
<1>3. CASE phase[c] = "wait" /\ ~gone[c]
    <2> DEFINE n == IF Behind(c) THEN L - 1 ELSE L
    <2>1. n \in 0 .. L /\ n >= L - (IF responses = Idle THEN 0 ELSE 1)
        <3> HIDE DEF L
        <3>1. CASE responses = Idle
            BY <1>1, <3>1 DEF Behind
        <3>2. CASE responses # Idle
            BY <1>1, <3>2
        <3> QED BY <3>1, <3>2
    <2>2. received[c] = Feed(c, m, n)
        BY <1>2, <1>3 DEF HasFeed
    <2> HIDE DEF n
    <2> QED BY <2>1, <2>2
<1>4. CASE ~(phase[c] = "wait" /\ ~gone[c])
    BY <1>2, <1>4 DEF HasFeed
<1> QED BY <1>3, <1>4

\* However the streams subscribe and leave while responses are fanned out, each
\* carries every match from its subscription on, in order and without gaps.
THEOREM CompleteFeedCorrect == Spec => []CompleteFeed
BY StreamInvariance, FeedIsComplete, PTL

\* What meets the request meets the flags it was built from.
LEMMA RequestMeetsFlags == StreamInv => OnlyWhatWasAskedFor
<1> SUFFICES ASSUME StreamInv, NEW c \in Clients, NEW i \in 1 .. Len(received[c])
             PROVE  /\ Options[c].pid >= 1 => received[c][i].ctx.pid = Options[c].pid
                    /\ Options[c].uid >= 1 => received[c][i].ctx.uid = Options[c].uid
                    /\ Options[c].name # "" => received[c][i].ctx.name = Options[c].name
    BY DEF OnlyWhatWasAskedFor
<1> DEFINE o == Options[c]
           ctx == received[c][i].ctx
           req == RequestOf(o)
<1>1. Matches(req, ctx)
    BY DEF StreamInv, OnlyMatches, Request
<1>2. o.pid \in Int /\ o.uid \in Int
    BY OptionsAssumption
<1>3. /\ req.name = o.name
      /\ o.pid >= 1 => req.pid = o.pid
      /\ o.uid > 0 => req.uid = o.uid
    BY DEF RequestOf
<1>4. o.uid > 0 => o.uid # Unset
    BY <1>2 DEF Unset
<1> HIDE DEF o, ctx, req
<1>5. ASSUME o.pid >= 1
      PROVE  ctx.pid = o.pid
    <2>1. req.pid = o.pid /\ o.pid > 0
        BY <1>2, <1>3, <1>5
    <2>2. req.pid > 0
        BY <2>1
    <2>3. req.pid = ctx.pid
        BY <1>1, <2>2 DEF Matches
    <2> QED BY <2>1, <2>3
<1>6. ASSUME o.uid >= 1
      PROVE  ctx.uid = o.uid
    <2>1. o.uid > 0
        BY <1>2, <1>6
    <2>2. req.uid = o.uid /\ req.uid # Unset
        BY <1>3, <1>4, <2>1
    <2>3. req.uid = ctx.uid
        BY <1>1, <2>2 DEF Matches
    <2> QED BY <2>2, <2>3
<1>7. o.name # "" => ctx.name = o.name
    BY <1>1, <1>3 DEF Matches
<1> QED BY <1>5, <1>6, <1>7 DEF o, ctx

\* No user sees the trace of a task that does not meet every flag that reaches the
\* request, for any mix of command lines; uid 0 is the flag that does not.
THEOREM OnlyWhatWasAskedForCorrect == Spec => []OnlyWhatWasAskedFor
BY RequestMeetsFlags, StreamInvariance, PTL

-----------------------------------------------------------------------------
\* What the kernel module is asked for.

\* Messages to different effect differ.
LEMMA TraceMsgs ==
    ASSUME NEW r \in Requests
    PROVE  /\ TraceMsg("add", r) # Idle /\ TraceMsg("remove", r) # Idle
           /\ TraceMsg("add", r).body.action = "add"
           /\ TraceMsg("add", r).body.request = r
           /\ TraceMsg("remove", r).body.action = "remove"
           /\ TraceMsg("remove", r).body.request = r
<1>1. TraceMsg("add", r) # Idle /\ TraceMsg("remove", r) # Idle
    BY StreamsIdleAssumption
<1> QED BY <1>1 DEF TraceMsg

\* The streams that ask for a request can be counted.
LEMMA AskingFinite ==
    ASSUME NEW r
    PROVE  IsFiniteSet(Asking(r)) /\ Cardinality(Asking(r)) \in Nat
<1>1. Asking(r) \subseteq Clients
    BY DEF Asking
<1> QED BY <1>1, ClientsAssumption, FS_Subset, FS_CardinalityType

\* What is left to add, while nothing or one message is on its way.
LEMMA PendingIs ==
    ASSUME NEW m
    PROVE  /\ m = Idle => \A r \in Requests : Pending(m, r) = 0
           /\ \A q \in Requests : m = TraceMsg("add", q) =>
                  \A r \in Requests : Pending(m, r) = IF r = q THEN 1 ELSE 0
           /\ \A q \in Requests : m = TraceMsg("remove", q) =>
                  \A r \in Requests : Pending(m, r) = IF r = q THEN -1 ELSE 0
<1>1. m = Idle => \A r \in Requests : Pending(m, r) = 0
    BY TraceMsgs DEF Pending
<1>2. ASSUME NEW q \in Requests, NEW r \in Requests, m = TraceMsg("add", q)
      PROVE  Pending(m, r) = IF r = q THEN 1 ELSE 0
    <2>1. m = TraceMsg("add", r) <=> r = q
        BY <1>2, TraceMsgs
    <2>2. m # TraceMsg("remove", r)
        BY <1>2, TraceMsgs
    <2> QED BY <2>1, <2>2 DEF Pending
<1>3. ASSUME NEW q \in Requests, NEW r \in Requests, m = TraceMsg("remove", q)
      PROVE  Pending(m, r) = IF r = q THEN -1 ELSE 0
    <2>1. m = TraceMsg("remove", r) <=> r = q
        BY <1>3, TraceMsgs
    <2>2. m # TraceMsg("add", r)
        BY <1>3, TraceMsgs
    <2> QED BY <2>1, <2>2 DEF Pending
<1> QED BY <1>1, <1>2, <1>3

\* A request is on its way from the step that makes a stream ask, or stop asking,
\* to the step that tells the kernel module.
LEMMA RequestsStep == StreamsOK /\ RequestsOK /\ [Next]_vars => RequestsOK'
<1> SUFFICES ASSUME StreamsOK, RequestsOK, [Next]_vars
             PROVE  RequestsOK'
    OBVIOUS
<1>1. ASSUME UNCHANGED <<outgoing, traced>>, \A r \in Requests : Asking(r)' = Asking(r)
      PROVE  RequestsOK'
    BY <1>1 DEF RequestsOK, Pending
<1>2. ASSUME NEW c \in Clients, Connect(c) \/ Subscribe(c) \/ Unsubscribe(c)
      PROVE  UNCHANGED <<outgoing, traced>> /\ \A r \in Requests : Asking(r)' = Asking(r)
    BY <1>2 DEF Connect, Subscribe, Unsubscribe, StreamsOK, Asking, busVars
<1>3. ASSUME UNCHANGED <<outgoing, traced, phase>>
      PROVE  UNCHANGED <<outgoing, traced>> /\ \A r \in Requests : Asking(r)' = Asking(r)
    BY <1>3 DEF Asking
<1>4. outgoing = Idle => \A r \in Requests : traced[r] = Cardinality(Asking(r))
    BY PendingIs DEF RequestsOK
<1>5. ASSUME NEW c \in Clients, PublishAdd(c)
      PROVE  RequestsOK'
    <2> DEFINE q == Request(c)
    <2>1. q \in Requests /\ outgoing = Idle /\ traced' = traced /\ outgoing' = TraceMsg("add", q)
        BY <1>5 DEF PublishAdd, Publish, Requests
    <2>2. Asking(q)' = Asking(q) \cup {c} /\ c \notin Asking(q)
        BY <1>5 DEF PublishAdd, StreamsOK, Asking
    <2>3. \A r \in Requests : r # q => Asking(r)' = Asking(r)
        BY <1>5 DEF PublishAdd, StreamsOK, Asking
    <2> HIDE DEF q
    <2>4. Cardinality(Asking(q)') = Cardinality(Asking(q)) + 1
        BY <2>2, AskingFinite, FS_AddElement
    <2>5. \A r \in Requests : Pending(outgoing', r) = IF r = q THEN 1 ELSE 0
        BY <2>1, PendingIs
    <2>6. \A r \in Requests : traced'[r] + Pending(outgoing', r) = Cardinality(Asking(r)')
        BY <1>4, <2>1, <2>3, <2>4, <2>5, AskingFinite
    <2> QED BY <2>1, <2>6 DEF RequestsOK
<1>6. ASSUME NEW c \in Clients, PublishRemove(c)
      PROVE  RequestsOK'
    <2> DEFINE q == Request(c)
    <2>1. q \in Requests /\ outgoing = Idle /\ traced' = traced /\ outgoing' = TraceMsg("remove", q)
        BY <1>6 DEF PublishRemove, Publish, Requests
    <2>2. Asking(q)' = Asking(q) \ {c} /\ c \in Asking(q)
        BY <1>6 DEF PublishRemove, StreamsOK, Asking
    <2>3. \A r \in Requests : r # q => Asking(r)' = Asking(r)
        BY <1>6 DEF PublishRemove, StreamsOK, Asking
    <2> HIDE DEF q
    <2>4. Cardinality(Asking(q)') = Cardinality(Asking(q)) - 1
        BY <2>2, AskingFinite, FS_RemoveElement
    <2>5. \A r \in Requests : Pending(outgoing', r) = IF r = q THEN -1 ELSE 0
        BY <2>1, PendingIs
    <2>6. \A r \in Requests : traced'[r] + Pending(outgoing', r) = Cardinality(Asking(r)')
        BY <1>4, <2>1, <2>3, <2>4, <2>5, AskingFinite
    <2> QED BY <2>1, <2>6 DEF RequestsOK
<1>7. CASE DeviceTakes
    <2>1. outgoing' = Idle /\ outgoing # Idle /\ \A r \in Requests : Asking(r)' = Asking(r)
        BY <1>7 DEF DeviceTakes, Asking
    <2>2. PICK a \in {"add", "remove"}, q \in Requests : outgoing = TraceMsg(a, q)
        BY <2>1 DEF RequestsOK
    <2>3. traced' = [traced EXCEPT ![q] = IF a = "add" THEN @ + 1 ELSE @ - 1]
        <3>1. outgoing.body.request = q /\ outgoing.body.action = a
            BY <2>2, TraceMsgs
        <3>2. KernelTakes(outgoing)
            BY <1>7 DEF DeviceTakes
        <3> QED BY <3>1, <3>2 DEF KernelTakes
    <2>4. \A r \in Requests :
              Pending(outgoing, r) = IF r = q THEN (IF a = "add" THEN 1 ELSE -1) ELSE 0
        BY <2>2, PendingIs
    <2>5. traced \in [Requests -> Int]
        BY DEF RequestsOK
    <2>6. traced' \in [Requests -> Int]
        BY <2>3, <2>5
    <2>7. \A r \in Requests : traced'[r] = traced[r] + Pending(outgoing, r)
        BY <2>3, <2>4, <2>5
    <2>8. \A r \in Requests : Pending(outgoing', r) = 0
        BY <2>1, PendingIs
    <2>9. \A r \in Requests : traced'[r] + Pending(outgoing', r) = Cardinality(Asking(r)')
        BY <2>1, <2>6, <2>7, <2>8 DEF RequestsOK
    <2> QED BY <2>1, <2>6, <2>9 DEF RequestsOK
<1>8. ASSUME NEW c \in Clients, GoAway(c) \/ Read(c) \/ Call(c)
      PROVE  UNCHANGED <<outgoing, traced, phase>>
    BY <1>8 DEF GoAway, Read, Call, busVars
<1>9. TakeResponse \/ Send \/ FanoutDone => UNCHANGED <<outgoing, traced, phase>>
    BY DEF TakeResponse, Send, FanoutDone, busVars
<1>10. ASSUME NEW ctx \in Contexts, Emit(ctx)
       PROVE  UNCHANGED <<outgoing, traced, phase>>
    BY <1>10 DEF Emit
<1>11. UNCHANGED vars => UNCHANGED <<outgoing, traced, phase>>
    BY DEF vars, tracingVars, busVars
<1> QED BY NextCases, <1>1, <1>2, <1>3, <1>5, <1>6, <1>7, <1>8, <1>9, <1>10, <1>11

-----------------------------------------------------------------------------
\* Type correctness, with the bound on the number of responses.  FanoutOK is
\* needed where the response in hand is put on a stream, RequestsOK where the
\* kernel module reads a request.

Bounded == TypeOK /\ Len(logged) <= MaxLogs

\* Every step keeps the types.
LEMMA TypeStep == Bounded /\ FanoutOK /\ RequestsOK' /\ [Next]_vars => Bounded'
<1> SUFFICES ASSUME TypeOK, Len(logged) <= MaxLogs, FanoutOK, RequestsOK', [Next]_vars
             PROVE  Bounded'
    BY DEF Bounded
<1> USE DEF TypeOK, Bounded
<1>1. ASSUME NEW c \in Clients, Read(c)
      PROVE  Bounded'
    <2>1. unread[c] - 1 \in 0 .. Window
        BY <1>1, WindowAssumption DEF Read
    <2> QED BY <1>1, <2>1 DEF Read, busVars
<1>2. ASSUME NEW c \in Clients, Connect(c) \/ GoAway(c) \/ Unsubscribe(c)
      PROVE  Bounded'
    BY <1>2 DEF Connect, GoAway, Unsubscribe, busVars
<1>3. ASSUME NEW c \in Clients, Subscribe(c)
      PROVE  Bounded'
    <2>1. Len(logged) \in 0 .. MaxLogs
        BY LogsAssumption
    <2> QED BY <1>3, <2>1 DEF Subscribe, busVars
<1>4. ASSUME NEW c \in Clients, PublishAdd(c) \/ PublishRemove(c)
      PROVE  Bounded'
    BY <1>4 DEF PublishAdd, PublishRemove
<1>5. ASSUME NEW c \in Clients, Call(c)
      PROVE  Bounded'
    <2>1. fanout \in SUBSET Clients
        BY <1>5 DEF Call
    <2> QED BY <1>5, <2>1 DEF Call, busVars
<1>6. CASE TakeResponse \/ FanoutDone
    BY <1>6 DEF TakeResponse, FanoutDone, busVars
<1>7. CASE Send
    <2>1. sending \in Clients /\ responses \in Response
        BY <1>7 DEF Send, FanoutOK
    <2>2. CASE gone[sending]
        BY <1>7, <2>2 DEF Send, busVars
    <2>3. CASE ~gone[sending]
        <3>1. unread[sending] + 1 \in 0 .. Window
            BY <1>7, <2>1, <2>3, WindowAssumption DEF Send
        <3>2. Append(received[sending], responses) \in Seq(Response)
            BY <2>1
        <3>3. /\ received' \in [Clients -> Seq(Response)]
              /\ unread' \in [Clients -> 0 .. Window]
            BY <1>7, <2>1, <2>3, <3>1, <3>2 DEF Send
        <3> QED BY <1>7, <3>3 DEF Send, busVars
    <2> QED BY <2>2, <2>3
<1>8. ASSUME NEW ctx \in Contexts, Emit(ctx)
      PROVE  Bounded'
    <2> DEFINE r == [id |-> Len(logged) + 1, ctx |-> ctx]
    <2>1. r \in Response /\ Len(logged) + 1 <= MaxLogs
        BY <1>8, LogsAssumption DEF Emit, Response
    <2>2. responses' = r /\ logged' = Append(logged, r)
        BY <1>8 DEF Emit, Publish
    <2> HIDE DEF r
    <2>3. logged' \in Seq(Response) /\ Len(logged') <= MaxLogs
        BY <2>1, <2>2
    <2> QED BY <1>8, <2>1, <2>2, <2>3 DEF Emit
<1>9. CASE DeviceTakes
    <2>1. outgoing' = Idle /\ \A r \in Requests : Asking(r)' = Asking(r)
        BY <1>9 DEF DeviceTakes, Asking
    <2>2. \A r \in Requests : Pending(outgoing', r) = 0
        BY <2>1, PendingIs
    <2>3. traced' \in [Requests -> Int]
        BY DEF RequestsOK
    <2>4. \A r \in Requests : traced'[r] + Pending(outgoing', r) = Cardinality(Asking(r)')
        BY DEF RequestsOK
    <2>5. \A r \in Requests : traced'[r] \in Nat
        BY <2>1, <2>2, <2>3, <2>4, AskingFinite
    <2>6. traced' \in [Requests -> Nat]
        BY <2>3, <2>5
    <2> QED BY <1>9, <2>6 DEF DeviceTakes
<1>10. CASE UNCHANGED vars
    BY <1>10 DEF vars, tracingVars, busVars
<1> QED BY NextCases, <1>1, <1>2, <1>3, <1>4, <1>5, <1>6, <1>7, <1>8, <1>9, <1>10

-----------------------------------------------------------------------------
\* The two parts together.

IInv == Bounded /\ StreamInv /\ RequestsOK

\* The inductive invariant holds of every behaviour.
LEMMA Invariance == Spec => []IInv
<1>1. Init => Bounded
    BY WindowAssumption, LogsAssumption DEF Init, StreamsInit, TypeOK, Bounded
<1>2. ASSUME Init
      PROVE  RequestsOK
    <2>1. outgoing = Idle /\ traced = [r \in Requests |-> 0]
        BY <1>2 DEF Init, StreamsInit
    <2>2. \A r \in Requests : Asking(r) = {}
        BY <1>2 DEF Init, StreamsInit, Asking
    <2>3. Cardinality({}) = 0
        BY FS_EmptySet
    <2>4. \A r \in Requests : traced[r] + Pending(outgoing, r) = Cardinality(Asking(r))
        BY <2>1, <2>2, <2>3, PendingIs
    <2> QED BY <2>1, <2>4 DEF RequestsOK
<1>3. IInv /\ [Next]_vars => IInv'
    BY TypeStep, StreamInvStep, RequestsStep DEF IInv, StreamInv
<1> QED BY <1>1, <1>2, <1>3, InitStreamInv, PTL DEF Spec, IInv

\* Every variable keeps to its values: no window overflows, and what is put on
\* a stream is a response.
THEOREM TypeCorrect == Spec => []TypeOK
BY Invariance, PTL DEF IInv, Bounded

\* However the streams' publications interleave on their way to the device, and
\* however many of them ask for the same, the kernel module has been asked for each
\* request as often as streams want it whenever nothing is on its way.
THEOREM KernelAgreesCorrect == Spec => []KernelAgrees
<1>1. ASSUME RequestsOK, outgoing = Idle, NEW r \in Requests
      PROVE  traced[r] = Cardinality(Asking(r))
    <2>1. Pending(outgoing, r) = 0
        BY <1>1, PendingIs
    <2>2. traced[r] \in Int /\ traced[r] + Pending(outgoing, r) = Cardinality(Asking(r))
        BY <1>1 DEF RequestsOK
    <2> QED BY <2>1, <2>2
<1>2. RequestsOK => KernelAgrees
    BY <1>1 DEF KernelAgrees
<1> QED BY <1>2, Invariance, PTL DEF IInv
=============================================================================
