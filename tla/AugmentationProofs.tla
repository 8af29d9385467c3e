------------------------- MODULE AugmentationProofs -------------------------
(***************************************************************************)
(* Machine-checked proofs about Augmentation, for every set of pids,       *)
(* contexts and configurations, and every TTL.                             *)
(***************************************************************************)
EXTENDS Augmentation, TLAPS

-----------------------------------------------------------------------------
\* How old an answer can be.

\* An item expires TTL after its key was last answered with it.
CacheInv == \A k \in DOMAIN cache :
    /\ "expires" \in DOMAIN cache[k]
    /\ k \in DOMAIN used
    /\ used[k] \in Nat
    /\ cache[k].expires = used[k] + TTL

AgeInv == now \in Nat /\ CacheInv /\ FreshAfterSilence

\* The cache is empty at first.
LEMMA AgeInit == Init => AgeInv
BY DEF Init, AgeInv, CacheInv, FreshAfterSilence

\* Clean, and the two ways to begin a command, only take items away.
LEMMA LiveKeeps ==
    ASSUME CacheInv
    PROVE  \A k \in DOMAIN Live(cache) :
               /\ k \in DOMAIN cache
               /\ Live(cache)[k] = cache[k]
               /\ ~Expired(cache[k])
BY DEF Live

\* A hit is on an item that has not expired.
LEMMA AgeHit == AgeInv /\ Hit => AgeInv'
<1> SUFFICES ASSUME AgeInv, Hit
             PROVE  AgeInv'
    OBVIOUS
<1> DEFINE k == UniqueString(job.context)
<1>1. /\ k \in DOMAIN cache
      /\ ~Expired(cache[k])
      /\ now' = now
      /\ cache' = Put(Live(cache), k, Touched(cache[k]))
      /\ used' = Put(used, k, now)
      /\ last' = [context |-> job.context, item |-> cache[k], hit |-> TRUE,
                  at |-> now, previous |-> IF k \in DOMAIN used THEN used[k] ELSE None]
    BY LiveKeeps DEF AgeInv, Hit, Answer
<1> HIDE DEF k
<1>2. used[k] \in Nat /\ now - used[k] <= TTL /\ k \in DOMAIN used
    BY <1>1, BoundsAssumption DEF AgeInv, CacheInv, Expired
<1>3. FreshAfterSilence'
    BY <1>1, <1>2, NoneAssumption DEF FreshAfterSilence
<1>4. /\ "expires" \in DOMAIN Touched(cache[k])
      /\ Touched(cache[k]).expires = now + TTL
    BY <1>1 DEF Touched, AgeInv, CacheInv
<1>5. CacheInv'
    <2> SUFFICES ASSUME NEW j \in DOMAIN cache'
                 PROVE  /\ "expires" \in DOMAIN cache'[j]
                        /\ j \in DOMAIN used'
                        /\ used'[j] \in Nat
                        /\ cache'[j].expires = used'[j] + TTL
        BY DEF CacheInv
    <2>1. CASE j = k
        BY <1>1, <1>4, <2>1 DEF Put, AgeInv
    <2>2. CASE j # k
        <3>1. j \in DOMAIN Live(cache) /\ cache'[j] = Live(cache)[j]
            BY <1>1, <2>2 DEF Put
        <3>2. j \in DOMAIN used' /\ used'[j] = used[j]
            BY <1>1, <2>2, <3>1, LiveKeeps DEF Put, AgeInv, CacheInv
        <3> QED BY <3>1, <3>2, LiveKeeps DEF AgeInv, CacheInv
    <2> QED BY <2>1, <2>2
<1> QED BY <1>1, <1>3, <1>5 DEF AgeInv

\* What has just been collected is kept for TTL.
LEMMA AgeCollect == AgeInv /\ Collect => AgeInv'
<1> SUFFICES ASSUME AgeInv, Collect
             PROVE  AgeInv'
    OBVIOUS
<1> DEFINE k == UniqueString(job.context)
<1>1. PICK item :
          /\ "expires" \in DOMAIN item
          /\ item.expires = now + TTL
          /\ cache' = Put(cache, k, item)
          /\ Answer(k, item, FALSE)
    BY DEF Collect
<1> HIDE DEF k
<1>2. now' = now /\ used' = Put(used, k, now) /\ last'.hit = FALSE
    BY <1>1 DEF Answer
<1>3. CacheInv'
    BY <1>1, <1>2 DEF CacheInv, AgeInv, Put
<1> QED BY <1>2, <1>3 DEF AgeInv, FreshAfterSilence

\* The other steps answer nothing and set nothing.
LEMMA AgeStep == AgeInv /\ [Next]_vars => AgeInv'
<1> SUFFICES ASSUME AgeInv, [Next]_vars
             PROVE  AgeInv'
    OBVIOUS
<1>. USE DEF AgeInv, FreshAfterSilence
<1>1. CASE Hit \/ Collect
    BY <1>1, AgeHit, AgeCollect
<1>2. CASE Miss \/ Clean
    <2>1. cache' = Live(cache) /\ used' = used /\ now' = now /\ last' = None
        BY <1>2 DEF Miss, Clean
    <2>2. CacheInv'
        BY <2>1, LiveKeeps DEF CacheInv
    <2> QED BY <2>1, <2>2
<1>3. CASE Begin \/ Command \/ Change \/ Tick \/ UNCHANGED vars
    BY <1>3 DEF CacheInv, Begin, Start, StartRefused, ReadFails, Read, Serve,
                Command, Change, Tick, vars, world, agent
<1>4. CASE End
    BY <1>4 DEF CacheInv, End
<1> QED BY <1>1, <1>2, <1>3, <1>4 DEF Next, Handle, World

\* Whatever the order of commands, of the goroutine that cleans and of time, an
\* answer from the cache has been asked for within TTL before
\* (augment.go:67-77).
THEOREM FreshAnswers == Spec => []FreshAfterSilence
<1>1. AgeInv => FreshAfterSilence
    BY DEF AgeInv
<1> QED BY AgeInit, AgeStep, <1>1, PTL DEF Spec

-----------------------------------------------------------------------------
\* Whose labels an answer can have.

\* Labels that a process with context c may be answered with.
Fits(item, c) ==
    \A label \in item.labels :
        \/ label[2] \in {Host, c}
        \/ label[2] \in Contexts /\ Scanned[label[2]] = c
        \/ item.raced
        \/ item.partial /\ c.gid = "0"

\* What a command says of a process with context c, unless it is a part.
IsOf(context, c) == c = context \/ (c \in Contexts /\ Scanned[c] = context)

\* Every item was collected for a context that has its key; a command knows the
\* context of the process it was made for, what init makes of it, or a part that
\* has no group.
LabelInv ==
    /\ procs \in [Pids -> Contexts \cup {None}]
    /\ scan \subseteq Pids
    /\ job # None =>
           /\ job.context \in Known
           /\ IF job.partial THEN job.context.gid = "0" ELSE IsOf(job.context, job.seen)
    /\ \A k \in DOMAIN cache : \E c \in Known : UniqueString(c) = k /\ Fits(cache[k], c)
    /\ NoForeignLabels

\* There are no labels at first.
LEMMA LabelInit == Init => LabelInv
BY DEF Init, LabelInv, NoForeignLabels

\* The part of a context that init could read.
LEMMA PartsAreKnown ==
    ASSUME NEW c \in Contexts \cup {None}, NEW n \in Cuts, c = None => n = 0
    PROVE  /\ ReadSoFar(c, n) \in Known
           /\ n < 5 => ReadSoFar(c, n).gid = "0"
           /\ n >= 5 => c \in Contexts /\ ReadSoFar(c, n) = Scanned[c]
<1>1. n \in 0 .. 5
    BY BoundsAssumption
<1>2. n < 5 => ReadSoFar(c, n).gid = "0"
    BY <1>1 DEF ReadSoFar
<1>3. CASE c = None
    <2>1. n = 0
        BY <1>3
    <2>2. ReadSoFar(c, n) = ReadSoFar(None, 0)
        BY <1>3, <2>1
    <2> QED BY <1>2, <2>1, <2>2 DEF Known
<1>4. CASE c \in Contexts
    <2>1. n >= 5 => n = 5
        BY <1>1
    <2> QED BY <1>1, <1>2, <1>4, <2>1, ContextsAssumption DEF Known
<1> QED BY <1>3, <1>4

\* A command begins with what is known of the process.
LEMMA LabelBegin == LabelInv /\ (Read \/ Command) => LabelInv'
<1> SUFFICES ASSUME LabelInv, Read \/ Command
             PROVE  LabelInv'
    OBVIOUS
<1>1. /\ procs' = procs /\ cache' = cache /\ last' = None
      /\ scan' \subseteq scan
    BY DEF Read, Command, world, agent
<1>2. CASE Read
    <2>1. PICK p \in scan, n \in Cuts, pid \in Pids \cup {None} :
              /\ procs[p] = None => n = 0
              /\ job' = [pid     |-> pid,
                         context |-> ReadSoFar(procs[p], n),
                         seen    |-> procs[p],
                         partial |-> n < 5,
                         missed  |-> FALSE]
        BY <1>2 DEF Read
    <2>2. procs[p] \in Contexts \cup {None}
        BY <2>1 DEF LabelInv
    <2>3. /\ ReadSoFar(procs[p], n) \in Known
          /\ n < 5 => ReadSoFar(procs[p], n).gid = "0"
          /\ n >= 5 => procs[p] \in Contexts /\ ReadSoFar(procs[p], n) = Scanned[procs[p]]
        BY <2>1, <2>2, PartsAreKnown
    <2>4. n \in Int
        BY BoundsAssumption
    <2>5. /\ job'.context \in Known
          /\ IF job'.partial THEN job'.context.gid = "0"
                             ELSE IsOf(job'.context, job'.seen)
        <3>1. CASE n < 5
            BY <2>1, <2>3, <3>1
        <3>2. CASE ~(n < 5)
            <4>1. n >= 5 /\ (n < 5) = FALSE
                BY <2>4, <3>2
            <4>2. job'.partial = FALSE
                BY <2>1, <4>1
            <4>3. /\ job'.context = ReadSoFar(procs[p], n)
                  /\ job'.seen = procs[p]
                BY <2>1
            <4> QED BY <2>3, <4>1, <4>2, <4>3 DEF IsOf
        <3> QED BY <3>1, <3>2
    <2> QED BY <1>1, <2>5 DEF LabelInv, NoForeignLabels
<1>3. CASE Command
    <2>1. /\ job'.context \in Contexts
          /\ job'.partial = FALSE
          /\ job'.seen = job'.context
        BY <1>3 DEF Command, LabelInv
    <2> QED BY <1>1, <2>1 DEF LabelInv, NoForeignLabels, Known, IsOf
<1> QED BY <1>2, <1>3

\* The context of the command and the one the item was collected for have the
\* same key, so they are the same.
LEMMA LabelHit == KeysAreUnique /\ LabelInv /\ Hit => LabelInv'
<1> SUFFICES ASSUME KeysAreUnique, LabelInv, Hit
             PROVE  LabelInv'
    OBVIOUS
<1> DEFINE k == UniqueString(job.context)
<1>1. /\ k \in DOMAIN Live(cache)
      /\ k \in DOMAIN cache
      /\ job.context \in Known
      /\ procs' = procs /\ scan' = scan /\ job' = None
      /\ cache' = Put(Live(cache), k, Touched(cache[k]))
      /\ last'.context = job.context /\ last'.item = cache[k]
    BY DEF Hit, Answer, LabelInv, world, agent, Live
<1>2. PICK c \in Known : UniqueString(c) = k /\ Fits(cache[k], c)
    BY <1>1 DEF LabelInv
<1>3. c = job.context
    BY <1>1, <1>2 DEF KeysAreUnique
<1>4. NoForeignLabels'
    BY <1>1, <1>2, <1>3 DEF NoForeignLabels, Fits
<1>5. Fits(Touched(cache[k]), c)
    BY <1>2 DEF Fits, Touched
<1>6. \A j \in DOMAIN cache' :
          \E d \in Known : UniqueString(d) = j /\ Fits(cache'[j], d)
    <2> HIDE DEF k
    <2> SUFFICES ASSUME NEW j \in DOMAIN cache'
                 PROVE  \E d \in Known : UniqueString(d) = j /\ Fits(cache'[j], d)
        OBVIOUS
    <2>1. CASE j = k
        BY <1>1, <1>2, <1>5, <2>1 DEF Put
    <2>2. CASE j # k
        BY <1>1, <2>2 DEF Put, Live, LabelInv
    <2> QED BY <2>1, <2>2
<1> QED BY <1>1, <1>4, <1>6 DEF LabelInv

\* What is collected fits the command, or is marked.
LEMMA LabelCollect == LabelInv /\ Collect => LabelInv'
<1> SUFFICES ASSUME LabelInv, Collect
             PROVE  LabelInv'
    OBVIOUS
<1> DEFINE k == UniqueString(job.context)
<1>1. PICK failed \in SUBSET collectors :
          LET item == [labels  |-> {<<c, IF c \in OfProcess THEN Found ELSE Host>> :
                                       c \in collectors \ failed},
                       partial |-> job.partial,
                       raced   |-> Found # job.seen,
                       expires |-> now + TTL]
          IN  cache' = Put(cache, k, item) /\ Answer(k, item, FALSE)
    BY DEF Collect
<1> DEFINE item == [labels  |-> {<<c, IF c \in OfProcess THEN Found ELSE Host>> :
                                    c \in collectors \ failed},
                    partial |-> job.partial,
                    raced   |-> Found # job.seen,
                    expires |-> now + TTL]
<1>2. /\ job.context \in Known
      /\ IF job.partial THEN job.context.gid = "0" ELSE IsOf(job.context, job.seen)
    BY DEF Collect, LabelInv
<1>3. Fits(item, job.context)
    <2>1. \A label \in item.labels : label[2] = Host \/ label[2] = Found
        OBVIOUS
    <2>2. item.partial = job.partial /\ item.raced = (Found # job.seen)
        OBVIOUS
    <2> HIDE DEF item
    <2> QED BY <1>2, <2>1, <2>2 DEF Fits, IsOf
<1>4. /\ procs' = procs /\ scan' = scan /\ job' = None
      /\ cache' = Put(cache, k, item)
      /\ last'.context = job.context /\ last'.item = item
    BY <1>1 DEF Answer, world, agent
<1> HIDE DEF item, k
<1>5. NoForeignLabels'
    BY <1>3, <1>4 DEF NoForeignLabels, Fits
<1>6. \A j \in DOMAIN cache' :
          \E d \in Known : UniqueString(d) = j /\ Fits(cache'[j], d)
    BY <1>2, <1>3, <1>4 DEF Put, LabelInv, k
<1> QED BY <1>4, <1>5, <1>6 DEF LabelInv

\* The other steps take items away, or leave them.
LEMMA LabelStep == KeysAreUnique /\ LabelInv /\ [Next]_vars => LabelInv'
<1> SUFFICES ASSUME KeysAreUnique, LabelInv, [Next]_vars
             PROVE  LabelInv'
    OBVIOUS
<1>. USE DEF LabelInv, NoForeignLabels
<1>1. CASE Read \/ Command \/ Hit \/ Collect
    BY <1>1, LabelBegin, LabelHit, LabelCollect
<1>2. CASE Clean
    BY <1>2 DEF Clean, Live, world, agent
<1>3. CASE Miss
    <2>1. /\ procs' = procs /\ scan' = scan /\ cache' = Live(cache) /\ last' = None
          /\ job # None /\ job' = [job EXCEPT !.missed = TRUE]
        BY <1>3 DEF Miss, world, agent
    <2>2. /\ job'.context = job.context
          /\ job'.partial = job.partial
          /\ job'.seen = job.seen
        BY <2>1
    <2> QED BY <2>1, <2>2 DEF Live
<1>4. CASE Change
    <2>1. procs' \in [Pids -> Contexts \cup {None}]
        BY <1>4 DEF Change
    <2> QED BY <1>4, <2>1 DEF Change
<1>5. CASE Start \/ StartRefused \/ ReadFails \/ Serve \/ Tick \/ UNCHANGED vars
    BY <1>5 DEF Start, StartRefused, ReadFails, Serve, Tick, vars, world, agent
<1>6. CASE End
    BY <1>6 DEF End, world
<1> QED BY <1>1, <1>2, <1>3, <1>4, <1>5, <1>6 DEF Next, Begin, Handle, World

\* Where the keys tell contexts apart, labels only get to another process where it
\* changed meanwhile (augment.go:79), init could not read it (:116) or took it for
\* the other.
THEOREM OwnLabels == ASSUME KeysAreUnique PROVE Spec => []NoForeignLabels
<1>1. LabelInv /\ [Next]_vars => LabelInv'
    BY KeysAreUnique, LabelStep
<1>2. LabelInv => NoForeignLabels
    BY DEF LabelInv
<1> QED BY LabelInit, <1>1, <1>2, PTL DEF Spec
-----------------------------------------------------------------------------
\* What the configuration makes of its own dump.

\* A value for every option.
IsConfig(cfg) == cfg = [option \in Options |-> cfg[option]]

\* Filling in defaults mentions their options and leaves the others alone.
LEMMA FillEffect ==
    ASSUME NEW cfg, NEW defaults,
           \A o \in DOMAIN defaults : defaults[o] # Unset
    PROVE  /\ IsConfig(Fill(cfg, defaults))
           /\ \A o \in Options :
                 /\ cfg[o] # Unset => Fill(cfg, defaults)[o] = cfg[o]
                 /\ o \in DOMAIN defaults => Fill(cfg, defaults)[o] # Unset
                 /\ o \notin DOMAIN defaults => Fill(cfg, defaults)[o] = cfg[o]
           /\ IsConfig(cfg) /\ (\A o \in Options \cap DOMAIN defaults : cfg[o] # Unset)
                 => Fill(cfg, defaults) = cfg
<1> DEFINE f == Fill(cfg, defaults)
<1>1. f = [o \in Options |-> IF cfg[o] = Unset /\ o \in DOMAIN defaults
                              THEN defaults[o] ELSE cfg[o]]
    BY DEF Fill
<1> HIDE DEF f
<1>2. IsConfig(f)
    BY <1>1 DEF IsConfig
<1>3. IsConfig(cfg) /\ (\A o \in Options \cap DOMAIN defaults : cfg[o] # Unset) => f = cfg
    BY <1>1 DEF IsConfig
<1>4. \A o \in Options : f[o] = IF cfg[o] = Unset /\ o \in DOMAIN defaults
                                THEN defaults[o] ELSE cfg[o]
    BY <1>1
<1> QED BY <1>2, <1>3, <1>4 DEF f

\* The same for the defaults of a collector that is switched on.
LEMMA WhenEffect ==
    ASSUME NEW cfg, IsConfig(cfg), NEW c, NEW defaults,
           \A o \in DOMAIN defaults : defaults[o] # Unset
    PROVE  /\ IsConfig(When(cfg, c, defaults))
           /\ \A o \in Options :
                 /\ cfg[o] # Unset => When(cfg, c, defaults)[o] = cfg[o]
                 /\ IsEnabled(cfg, c) /\ o \in DOMAIN defaults =>
                       When(cfg, c, defaults)[o] # Unset
                 /\ o \notin DOMAIN defaults => When(cfg, c, defaults)[o] = cfg[o]
           /\ (IsEnabled(cfg, c) => \A o \in Options \cap DOMAIN defaults : cfg[o] # Unset)
                 => When(cfg, c, defaults) = cfg
BY FillEffect DEF When

\* No default leaves its option without a value.
LEMMA DefaultsAreSet ==
    /\ \A o \in DOMAIN AgentDefaults : AgentDefaults[o] # Unset
    /\ \A o \in DOMAIN CollectorDefaults : CollectorDefaults[o] # Unset
    /\ \A o \in DOMAIN ProcFSDefaults : ProcFSDefaults[o] # Unset
    /\ \A o \in DOMAIN DockerDefaults : DockerDefaults[o] # Unset
    /\ \A o \in DOMAIN KubernetesDefaults : KubernetesDefaults[o] # Unset
BY UnsetAssumption

\* The options that are filled in.
LEMMA DefaultsDomains ==
    /\ DOMAIN AgentDefaults = {"trustDomain", "localAddress", "defaultCertTTL"}
    /\ DOMAIN CollectorDefaults = {"procfs", "linuxos", "sysfsdmi"}
    /\ DOMAIN ProcFSDefaults = {"extractEnvs"}
    /\ DOMAIN DockerDefaults = {"socketPath"}
    /\ DOMAIN KubernetesDefaults = {"kubeletHost", "kubeletPort", "skipKubeletVerification"}
    /\ {"trustDomain", "localAddress", "defaultCertTTL", "procfs", "linuxos", "sysfsdmi",
        "extractEnvs", "socketPath", "kubeletHost", "kubeletPort",
        "skipKubeletVerification", "docker", "kubernetes"} \subseteq Options
BY DEF AgentDefaults, CollectorDefaults, ProcFSDefaults, DockerDefaults,
       KubernetesDefaults, Options, Switches, Collectors

\* What has been validated is not changed by being validated again.
LEMMA ValidatedTwice ==
    ASSUME NEW cfg
    PROVE  /\ IsConfig(Validated(cfg))
           /\ Validated(Validated(cfg)) = Validated(cfg)
           /\ \A o \in DOMAIN AgentDefaults : Validated(cfg)[o] # Unset
<1> DEFINE a == Fill(cfg, AgentDefaults)
           b == Fill(a, CollectorDefaults)
           p == When(b, "procfs", ProcFSDefaults)
           d == When(p, "docker", DockerDefaults)
           v == When(d, "kubernetes", KubernetesDefaults)
<1> USE DefaultsAreSet
<1>1. /\ IsConfig(a)
      /\ \A o \in Options \cap DOMAIN AgentDefaults : a[o] # Unset
    BY FillEffect
<1>2. /\ IsConfig(b)
      /\ \A o \in Options \cap DOMAIN AgentDefaults : b[o] # Unset
      /\ \A o \in Options \cap DOMAIN CollectorDefaults : b[o] # Unset
    <2> HIDE DEF a
    <2> QED BY <1>1, FillEffect
<1>3. /\ IsConfig(p)
      /\ \A o \in Options : b[o] # Unset => p[o] = b[o]
      /\ IsEnabled(b, "procfs") => \A o \in Options \cap DOMAIN ProcFSDefaults : p[o] # Unset
      /\ \A o \in Options \ DOMAIN ProcFSDefaults : p[o] = b[o]
    <2> HIDE DEF b
    <2> QED BY <1>2, WhenEffect
<1>4. /\ IsConfig(d)
      /\ \A o \in Options : p[o] # Unset => d[o] = p[o]
      /\ IsEnabled(p, "docker") => \A o \in Options \cap DOMAIN DockerDefaults : d[o] # Unset
      /\ \A o \in Options \ DOMAIN DockerDefaults : d[o] = p[o]
    <2> HIDE DEF p
    <2> QED BY <1>3, WhenEffect
<1>5. /\ IsConfig(v)
      /\ \A o \in Options : d[o] # Unset => v[o] = d[o]
      /\ IsEnabled(d, "kubernetes") =>
            \A o \in Options \cap DOMAIN KubernetesDefaults : v[o] # Unset
      /\ \A o \in Options \ DOMAIN KubernetesDefaults : v[o] = d[o]
    <2> HIDE DEF d
    <2> QED BY <1>4, WhenEffect
<1>6. Validated(cfg) = v
    BY DEF Validated
<1> HIDE DEF a, b, p, d, v
<1>7. /\ \A o \in Options \cap DOMAIN AgentDefaults : v[o] # Unset
      /\ \A o \in Options \cap DOMAIN CollectorDefaults : v[o] # Unset
    BY <1>2, <1>3, <1>4, <1>5
<1>8. /\ v["procfs"] = b["procfs"] /\ v["docker"] = p["docker"]
      /\ v["kubernetes"] = d["kubernetes"]
    BY <1>3, <1>4, <1>5, DefaultsDomains
<1>9. IsEnabled(v, "procfs") => \A o \in Options \cap DOMAIN ProcFSDefaults : v[o] # Unset
    BY <1>3, <1>4, <1>5, <1>8 DEF IsEnabled
<1>10. IsEnabled(v, "docker") => \A o \in Options \cap DOMAIN DockerDefaults : v[o] # Unset
    BY <1>4, <1>5, <1>8 DEF IsEnabled
<1>11. IsEnabled(v, "kubernetes") =>
           \A o \in Options \cap DOMAIN KubernetesDefaults : v[o] # Unset
    BY <1>5, <1>8 DEF IsEnabled
<1>12. Fill(v, AgentDefaults) = v /\ Fill(v, CollectorDefaults) = v
    BY <1>5, <1>7, FillEffect
<1>13. /\ When(v, "procfs", ProcFSDefaults) = v
       /\ When(v, "docker", DockerDefaults) = v
       /\ When(v, "kubernetes", KubernetesDefaults) = v
    BY <1>5, <1>9, <1>10, <1>11, WhenEffect
<1>14. Validated(v) = v
    BY <1>12, <1>13 DEF Validated
<1> QED BY <1>5, <1>6, <1>7, <1>14, DefaultsDomains

\* A dump that is read as a file gives the configuration it was taken of.
LEMMA DumpIsConfiguration ==
    ASSUME NEW s
    PROVE  Configured([line |-> Nothing, env |-> Nothing, file |-> Dump(Configured(s))])
               = Configured(s)
<1> DEFINE c == Configured(s)
           read == [o \in Options |-> Setting(o, Nothing, Nothing, Dump(c), Flags)]
<1>1. IsConfig(c) /\ Validated(c) = c /\ \A o \in DOMAIN AgentDefaults : c[o] # Unset
    BY ValidatedTwice DEF Configured
<1> HIDE DEF c
<1>2. \A o \in Options : Dump(c)[o] = c[o] /\ Nothing[o] = Unset
    BY DEF Dump, Omitted, Nothing
<1>3. \A o \in Options : c[o] = Unset => Flags[o] = Unset
    BY <1>1, DefaultsDomains DEF Flags
<1>4. \A o \in Options : Setting(o, Nothing, Nothing, Dump(c), Flags) = c[o]
    <2> TAKE o \in Options
    <2> DEFINE given == IF Nothing[o] # Unset THEN Nothing[o] ELSE Nothing[o]
    <2>1. given = Unset /\ given # Blank
        BY <1>2, UnsetAssumption
    <2>2. Setting(o, Nothing, Nothing, Dump(c), Flags)
              = IF given = Blank THEN IF o \in Switches THEN FALSE ELSE Unset
                ELSE IF given # Unset THEN given
                ELSE IF Dump(c)[o] # Unset THEN Dump(c)[o]
                ELSE Flags[o]
        BY DEF Setting
    <2> HIDE DEF given
    <2>3. Setting(o, Nothing, Nothing, Dump(c), Flags)
              = IF Dump(c)[o] # Unset THEN Dump(c)[o] ELSE Flags[o]
        BY <2>1, <2>2
    <2> QED BY <1>2, <1>3, <2>3
<1>5. read = c
    BY <1>1, <1>4 DEF IsConfig
<1>6. Configured([line |-> Nothing, env |-> Nothing, file |-> Dump(c)]) = Validated(read)
    BY DEF Configured
<1> QED BY <1>1, <1>5, <1>6 DEF c

\* Whatever flags, environment and file say, the agent runs the same with what
\* it printed for --dump-config (root.go:93, config.go:51).
THEOREM DumpCorrect == Spec => []DumpKeepsConfiguration
<1>1. DumpKeepsConfiguration
    BY DumpIsConfiguration DEF DumpKeepsConfiguration
<1> QED BY <1>1, PTL

-----------------------------------------------------------------------------
\* What the first commands find in the cache.

\* There are labels for key k that last until TTL after init began.
Kept(k) == k \in DOMAIN cache /\ cache[k].expires >= began + TTL

\* Init has yet to read p, is about to collect its labels, or has done it; or it
\* has taken so long that it may have done it in vain.
Ready(p) ==
    \/ p \in scan
    \/ job # None /\ UniqueString(job.context) = UniqueString(Scanned[procs[p]])
    \/ Kept(UniqueString(Scanned[procs[p]]))
    \/ now - began > TTL

WarmInv ==
    /\ procs \in [Pids -> Contexts \cup {None}]
    /\ scan \subseteq Pids
    /\ job \in Jobs \cup {None}
    /\ began \in Nat /\ began <= now
    /\ pc = "down" => steady = {}
    /\ pc = "scan" =>
          steady \subseteq Pids /\ (listed => \A p \in steady : Ready(p))

\* What is live now lasts long enough, or time is up.
LEMMA LiveKept ==
    ASSUME AgeInv, WarmInv, NEW k
    PROVE  Kept(k) => (k \in DOMAIN Live(cache) /\ Live(cache)[k] = cache[k])
                      \/ now - began > TTL
<1> SUFFICES ASSUME Kept(k), ~(now - began > TTL)
             PROVE  k \in DOMAIN Live(cache) /\ Live(cache)[k] = cache[k]
    OBVIOUS
<1>1. cache[k].expires \in Nat
    BY BoundsAssumption DEF AgeInv, CacheInv, Kept
<1>2. ~Expired(cache[k])
    BY <1>1, BoundsAssumption DEF Kept, Expired, AgeInv, WarmInv
<1> QED BY <1>2 DEF Live, Kept

\* Init leaves out no process that can be read and stays the same.
LEMMA WarmStep == AgeInv /\ WarmInv /\ [Next]_vars => WarmInv'
<1> SUFFICES ASSUME AgeInv, WarmInv, [Next]_vars
             PROVE  WarmInv'
    OBVIOUS
<1> USE DEF WarmInv
<1>0. now \in Nat /\ TTL \in Nat /\ began \in Nat
    BY BoundsAssumption DEF AgeInv
<1>1. ASSUME UNCHANGED <<procs, began, now, pc, listed, scan, cache, job>>,
             steady' \subseteq steady
      PROVE  WarmInv'
    BY <1>1 DEF Ready, Kept
<1>2. CASE Start
    <2>1. /\ steady' = {p \in Pids : procs[p] # None}
          /\ scan' = IF listed' THEN steady' ELSE {}
          /\ began' = now /\ UNCHANGED <<procs, now, job>> /\ pc' = "scan"
        BY <1>2 DEF Start
    <2> QED BY <1>0, <2>1 DEF Ready
<1>3. CASE ReadFails
    <2>1. PICK p \in scan : scan' = scan \ {p} /\ steady' = steady \ {p}
        BY <1>3 DEF ReadFails
    <2>2. UNCHANGED <<procs, began, now, pc, listed, cache, job>>
        BY <1>3 DEF ReadFails, world
    <2> QED BY <2>1, <2>2 DEF Ready, Kept
<1>4. CASE Read
    <2>1. PICK p \in scan, n \in Cuts, pid \in Pids \cup {None} :
              /\ procs[p] = None => n = 0
              /\ job' = [pid     |-> pid,
                         context |-> ReadSoFar(procs[p], n),
                         seen    |-> procs[p],
                         partial |-> n < 5,
                         missed  |-> FALSE]
              /\ scan' = scan \ {p}
              /\ steady' = IF n < 5 THEN steady \ {p} ELSE steady
        BY <1>4 DEF Read
    <2>2. UNCHANGED <<procs, began, now, pc, listed, cache>> /\ job = None /\ pc = "scan"
        BY <1>4 DEF Read, world
    <2>3. procs[p] \in Contexts \cup {None}
        OBVIOUS
    <2>4. ReadSoFar(procs[p], n) \in Known
        BY <2>1, <2>3, PartsAreKnown
    <2>5. job' \in Jobs
        BY <2>1, <2>3, <2>4 DEF Jobs
    <2>6. ASSUME NEW q \in steady', listed
          PROVE  Ready(q)'
        <3>1. q \in steady /\ q \in Pids
            BY <2>1, <2>2, <2>6
        <3>2. CASE q # p
            BY <2>1, <2>2, <2>6, <3>1, <3>2 DEF Ready, Kept
        <3>3. CASE q = p
            <4>1. n \in 0 .. 5 /\ ~(n < 5)
                BY <2>1, <2>6, <3>3, BoundsAssumption
            <4>2. n = 5 /\ procs[p] \in Contexts
                BY <2>1, <2>3, <4>1
            <4>3. job'.context = Scanned[procs[p]]
                BY <2>1, <4>2, ContextsAssumption
            <4>4. job' # None
                BY <2>5, NoneAssumption
            <4> QED BY <2>2, <3>3, <4>3, <4>4 DEF Ready
        <3> QED BY <3>2, <3>3
    <2> QED BY <2>1, <2>2, <2>5, <2>6
<1>5. CASE Hit
    <2>1. PICK k :
              /\ k = UniqueString(job.context)
              /\ k \in DOMAIN Live(cache) /\ k \in DOMAIN cache
              /\ cache' = Put(Live(cache), k, Touched(cache[k]))
        BY <1>5, LiveKeeps DEF Hit, AgeInv
    <2>2. UNCHANGED <<procs, began, now, pc, listed, scan, steady>> /\ job' = None
        BY <1>5 DEF Hit, Answer, world, agent
    <2>3. Touched(cache[k]).expires = now + TTL
        BY <2>1 DEF Touched, AgeInv, CacheInv
    <2>4. Kept(k)'
        <3>1. k \in DOMAIN cache' /\ cache'[k].expires = now + TTL
            BY <2>1, <2>3 DEF Put
        <3> QED BY <1>0, <2>2, <3>1 DEF Kept
    <2>5. ASSUME NEW j, Kept(j), ~(now - began > TTL)
          PROVE  Kept(j)'
        <3>1. CASE j = k
            BY <2>4, <3>1
        <3>2. CASE j # k
            <4>1. j \in DOMAIN Live(cache) /\ Live(cache)[j] = cache[j]
                BY <2>5, LiveKept
            <4>2. j \in DOMAIN cache' /\ cache'[j] = cache[j]
                BY <2>1, <3>2, <4>1 DEF Put
            <4> QED BY <2>2, <2>5, <4>2 DEF Kept
        <3> QED BY <3>1, <3>2
    <2>6. ASSUME NEW p \in steady, Ready(p)
          PROVE  Ready(p)'
        BY <2>1, <2>2, <2>4, <2>5, <2>6 DEF Ready
    <2> QED BY <2>2, <2>6
<1>6. CASE Collect
    <2>1. PICK k, item :
              /\ k = UniqueString(job.context)
              /\ item.expires = now + TTL /\ cache' = Put(cache, k, item)
              /\ Answer(k, item, FALSE)
        BY <1>6 DEF Collect
    <2>2. UNCHANGED <<procs, began, now, pc, listed, scan, steady>> /\ job' = None
        BY <2>1 DEF Answer, world, agent
    <2>3. \A j : (j = k \/ Kept(j)) => Kept(j)'
        BY <1>0, <2>1, <2>2 DEF Kept, Put
    <2>4. ASSUME NEW p \in steady, Ready(p)
          PROVE  Ready(p)'
        BY <2>1, <2>2, <2>3, <2>4 DEF Ready
    <2> QED BY <2>2, <2>4
<1>7. CASE Miss \/ Clean
    <2>1. cache' = Live(cache) /\ UNCHANGED <<procs, began, now, pc, listed, scan, steady>>
        BY <1>7 DEF Miss, Clean, world, agent
    <2>2. /\ job' \in Jobs \cup {None}
          /\ job # None => job' # None /\ job'.context = job.context
        <3>1. CASE Miss
            <4>1. job' = [job EXCEPT !.missed = TRUE] /\ job \in Jobs
                BY <3>1 DEF Miss
            <4>2. job' \in Jobs /\ job'.context = job.context
                BY <4>1 DEF Jobs
            <4> QED BY <4>2, NoneAssumption
        <3>2. CASE Clean
            BY <3>2 DEF Clean
        <3> QED BY <1>7, <3>1, <3>2
    <2>3. ASSUME NEW j, Kept(j), ~(now - began > TTL)
          PROVE  Kept(j)'
        <3>1. j \in DOMAIN Live(cache) /\ Live(cache)[j] = cache[j]
            BY <2>3, LiveKept
        <3> QED BY <2>1, <2>3, <3>1 DEF Kept
    <2>4. ASSUME NEW p \in steady, Ready(p)
          PROVE  Ready(p)'
        BY <2>1, <2>2, <2>3, <2>4 DEF Ready
    <2> QED BY <2>1, <2>2, <2>4
<1>8. CASE Tick
    <2>1. now' = now + 1 /\ UNCHANGED <<procs, began, pc, listed, scan, steady, job, cache>>
        BY <1>8 DEF Tick, world, agent
    <2> QED BY <1>0, <2>1 DEF Ready, Kept
<1>9. CASE Change
    <2>1. PICK p \in Pids, c \in Contexts \cup {None} :
              procs' = [procs EXCEPT ![p] = c] /\ steady' = steady \ {p}
        BY <1>9 DEF Change
    <2>2. UNCHANGED <<began, now, pc, listed, scan, job, cache>>
        BY <1>9 DEF Change
    <2>3. \A q \in Pids : q # p => procs'[q] = procs[q]
        BY <2>1
    <2> QED BY <2>1, <2>2, <2>3 DEF Ready, Kept
<1>10. CASE Serve
    BY <1>10 DEF Serve, world
<1>11. CASE Command
    <2>1. job' \in Jobs
        BY <1>11 DEF Command, Jobs, Known
    <2> QED BY <1>11, <2>1 DEF Command, world, agent
<1>12. CASE End
    BY <1>12 DEF End, world
<1>13. StartRefused \/ UNCHANGED vars =>
           UNCHANGED <<procs, began, now, pc, listed, scan, cache, job, steady>>
    BY DEF StartRefused, vars, world, agent
<1> QED BY <1>1, <1>2, <1>3, <1>4, <1>5, <1>6, <1>7, <1>8, <1>9, <1>10, <1>11,
           <1>12, <1>13 DEF Next, Begin, Handle, World

\* When the agent begins to serve, the labels of every process that was there
\* and could be read are in the cache, whatever processes came and went, other
\* reads failed and items expired meanwhile (augment.go:107-126), provided the
\* pids could be listed and init saw the process as the kernel module does.
THEOREM WarmStartCorrect == Spec => WarmStart
<1>1. Init => WarmInv
    BY DEF Init, WarmInv
<1>2. AgeInv /\ WarmInv /\ [Next]_vars => WarmInv'
    BY WarmStep
<1>3. AgeInv /\ WarmInv /\ [Next]_vars =>
          [pc = "scan" /\ pc' = "serve" /\ listed =>
              \A p \in steady : Scanned[procs[p]] = procs[p] =>
                  \/ UniqueString(procs[p]) \in DOMAIN cache
                  \/ now - began > TTL]_vars
    <2> SUFFICES ASSUME AgeInv, WarmInv, [Next]_vars, pc = "scan", pc' = "serve", listed,
                        NEW p \in steady, Scanned[procs[p]] = procs[p]
                 PROVE  \/ UniqueString(procs[p]) \in DOMAIN cache
                        \/ now - began > TTL
        OBVIOUS
    <2>1. scan = {} /\ job = None
        BY DEF Next, Begin, Handle, World, Start, StartRefused, ReadFails, Read, Serve,
               Command, Hit, Miss, Collect, Clean, Answer, Change, Tick, End, vars, agent
    <2>2. Ready(p)
        BY DEF WarmInv
    <2> QED BY <2>1, <2>2 DEF Ready, Kept
<1> QED BY <1>1, <1>2, <1>3, AgeInit, AgeStep, PTL DEF Spec, WarmStart

=============================================================================
