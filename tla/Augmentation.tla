---------------------------- MODULE Augmentation ----------------------------
(***************************************************************************)
(* The augment command: the labels of a process are collected, and kept    *)
(* for others that look the same for as long as they are asked for.  When  *)
(* the agent starts, its collectors are made from the configuration, and   *)
(* the labels of every process there is are collected before the first     *)
(* command.  Processes come and go, and the pids are used again.           *)
(***************************************************************************)
EXTENDS Configuration, Sequences

CONSTANTS
    Pids,
    Contexts,       \* what processes are to the kernel module: records of cgroup,
                    \* uid, gid, name, path
    Scanned,        \* what init makes of each of them from /proc
    Settings,       \* configurations: records of a command line, env and file
    Host,           \* whom the labels of the machine are about
    None,
    TTL,
    Cuts,           \* bound: after how many of the five things init may have to
                    \* stop reading a process; 5 is the whole
    MaxTime,        \* bound: how long time is followed
    MaxStarts       \* bound: starts of the agent

VARIABLES
    now,
    procs,          \* the context of each process, None for a free pid
    settings,
    starts,
    pc,             \* "down", "scan" (init) or "serve"
    collectors,     \* those that have been instantiated
    scan,           \* the pids init has yet to go through
    listed,         \* whether it could list the pids
    steady,         \* those that were there when it began, are still the same
                    \* process and could be read
    began,          \* when it began
    job,            \* the command that is handled, None without
    cache,          \* labels and when they expire, by key
    used,           \* when a key was last answered (history)
    last            \* the answer this step has given (history)

world == <<procs, settings, starts>>
agent == <<pc, collectors, scan, listed, steady, began>>
vars  == <<now, world, agent, job, cache, used, last>>

-----------------------------------------------------------------------------
\* Keys.

\* Mutant: the user and the group are not part of it.
UniqueProgram(c) == c.cgroup \o <<"-">> \o c.name \o <<"-">> \o c.path

\* CommandContext.UniqueString; the pid and the namespaces are not part of it.
UniqueString(c) ==
    c.cgroup \o <<"-", c.uid, "-", c.gid, "-">> \o c.name \o <<"-">> \o c.path

\* What init knows of a process it could read n things of: the rest is zero.
ReadSoFar(c, n) ==
    LET s == Scanned[c] IN
    [cgroup |-> IF n >= 1 THEN s.cgroup ELSE <<>>,
     name   |-> IF n >= 2 THEN s.name ELSE <<>>,
     path   |-> IF n >= 3 THEN s.path ELSE <<>>,
     uid    |-> IF n >= 4 THEN s.uid ELSE "0",
     gid    |-> IF n >= 5 THEN s.gid ELSE "0"]

\* All that a command can be about.
Known == Contexts \cup {ReadSoFar(c, n) : c \in Contexts, n \in 0 .. 5}
                  \cup {ReadSoFar(None, 0)}

\* Names with dashes in them can make one string of two contexts; this says
\* that it does not happen.
KeysAreUnique == \A c, d \in Known : UniqueString(c) = UniqueString(d) => c = d

ASSUME ContextsAssumption == \A c \in Contexts : ReadSoFar(c, 5) = Scanned[c]

\* A command, with what init could read, the process it was read of (history)
\* and whether the cache had no answer.
Jobs == [pid : Pids \cup {None}, context : Known, seen : Contexts \cup {None},
         partial : BOOLEAN, missed : BOOLEAN]

ASSUME NoneAssumption == None \notin Nat /\ None \notin Jobs

ASSUME BoundsAssumption == TTL \in Nat /\ MaxTime \in Nat /\ Cuts \subseteq 0 .. 5

-----------------------------------------------------------------------------
\* The cache.

\* An item lives for TTL after the last time it was set or found.
Expired(item) == item.expires < now

Live(items) == [k \in {j \in DOMAIN items : ~Expired(items[j])} |-> items[k]]

\* Mutant: each hit adds to what is left.
Prolonged(item) == [item EXCEPT !.expires = @ + TTL]

Touched(item) == [item EXCEPT !.expires = now + TTL]

Put(items, k, item) ==
    [j \in DOMAIN items \cup {k} |-> IF j = k THEN item ELSE items[j]]

-----------------------------------------------------------------------------
\* The agent starts.

Configured(s) == Validated([option \in Options |->
    Setting(option, s.line, s.env, s.file, Flags)])

Nothing == [option \in Options |-> Unset]

\* When process.Pids fails, init says so and goes through none.
Start == \E withoutClient \in SUBSET HaveClients :
    /\ pc = "down"
    /\ starts < MaxStarts
    /\ ~Refused(Configured(settings))
    /\ withoutClient \subseteq {c \in HaveClients : IsEnabled(Configured(settings), c)}
    /\ starts' = starts + 1
    /\ pc' = "scan"
    /\ collectors' = GetMetadataCollector(Configured(settings), withoutClient)
    /\ steady' = {p \in Pids : procs[p] # None}
    /\ listed' \in BOOLEAN
    /\ scan' = IF listed' THEN steady' ELSE {}
    /\ began' = now
    /\ UNCHANGED <<now, procs, settings, job, cache, used>>
    /\ last' = None

\* Configure panics.
StartRefused ==
    /\ pc = "down"
    /\ Refused(Configured(settings))
    /\ UNCHANGED vars

\* Mutant: init gives up at the first process it cannot read at all.
ReadFailsAndStops == \E p \in scan :
    /\ pc = "scan" /\ job = None
    /\ scan' = {}
    /\ UNCHANGED <<now, world, pc, collectors, listed, steady, began, job, cache, used>>
    /\ last' = None

\* getCMDContextFromPID fails in a way that is not to be expected.
ReadFails == \E p \in scan :
    /\ pc = "scan" /\ job = None
    /\ scan' = scan \ {p}
    /\ steady' = steady \ {p}
    /\ UNCHANGED <<now, world, pc, collectors, listed, began, job, cache, used>>
    /\ last' = None

\* It succeeds (5), or is cut short because the process ends or is not to be
\* read; what is known so far is used then, at 0 the pid or not even that.
Read == \E p \in scan, n \in Cuts, pid \in Pids \cup {None} :
    /\ pc = "scan" /\ job = None
    /\ procs[p] = None => n = 0
    /\ pid = p \/ (pid = None /\ n = 0)
    /\ job' = [pid     |-> pid,
               context |-> ReadSoFar(procs[p], n),
               seen    |-> procs[p],
               partial |-> n < 5,
               missed  |-> FALSE]
    /\ scan' = scan \ {p}
    /\ steady' = IF n < 5 THEN steady \ {p} ELSE steady
    /\ UNCHANGED <<now, world, pc, collectors, listed, began, cache, used>>
    /\ last' = None

\* Augment returns, and the commands are handled.
Serve ==
    /\ pc = "scan" /\ scan = {} /\ job = None
    /\ pc' = "serve"
    /\ UNCHANGED <<now, world, collectors, scan, listed, steady, began, job, cache, used>>
    /\ last' = None

\* The kernel module asks for the labels of a process.
Command == \E p \in Pids :
    /\ pc = "serve" /\ job = None
    /\ procs[p] # None
    /\ job' = [pid |-> p, context |-> procs[p], seen |-> procs[p],
               partial |-> FALSE, missed |-> FALSE]
    /\ UNCHANGED <<now, world, agent, cache, used>>
    /\ last' = None

-----------------------------------------------------------------------------
\* HandleCommand.

Answer(k, item, hit) ==
    /\ job' = None
    /\ last' = [context |-> job.context, item |-> item, hit |-> hit, at |-> now,
                previous |-> IF k \in DOMAIN used THEN used[k] ELSE None]
    /\ used' = Put(used, k, now)
    /\ UNCHANGED <<now, world, agent>>

Hit ==
    /\ job # None /\ ~job.missed
    /\ LET k == UniqueString(job.context) IN
       /\ k \in DOMAIN Live(cache)
       /\ cache' = Put(Live(cache), k, Touched(cache[k]))
       /\ Answer(k, cache[k], TRUE)

Miss ==
    /\ job # None /\ ~job.missed
    /\ UniqueString(job.context) \notin DOMAIN Live(cache)
    /\ cache' = Live(cache)
    /\ job' = [job EXCEPT !.missed = TRUE]
    /\ UNCHANGED <<now, world, agent, used>>
    /\ last' = None

\* The collectors that ask about the process, others about the machine.
OfProcess == {"procfs", "docker", "kubernetes"}

\* What is now under the pid of the command.
Found == IF job.pid = None THEN None ELSE procs[job.pid]

\* Any collector may fail, those of a process that is gone do; the labels of
\* the others are the answer all the same, and are kept.
Collect == \E failed \in SUBSET collectors :
    /\ job # None /\ job.missed
    /\ Found = None => OfProcess \cap collectors \subseteq failed
    /\ LET k    == UniqueString(job.context)
           item == [labels  |-> {<<c, IF c \in OfProcess THEN Found ELSE Host>> :
                                    c \in collectors \ failed},
                    partial |-> job.partial,
                    raced   |-> Found # job.seen,
                    expires |-> now + TTL]
       IN  /\ cache' = Put(cache, k, item)
           /\ Answer(k, item, FALSE)

\* The goroutine of the cache.
Clean ==
    /\ pc # "down"
    /\ Live(cache) # cache
    /\ cache' = Live(cache)
    /\ UNCHANGED <<now, world, agent, job, used>>
    /\ last' = None

-----------------------------------------------------------------------------
\* The world.

\* A process ends, one begins, or one executes another program.
Change == \E p \in Pids, c \in Contexts \cup {None} :
    /\ c # procs[p]
    /\ procs' = [procs EXCEPT ![p] = c]
    /\ steady' = steady \ {p}
    /\ UNCHANGED <<now, settings, starts, pc, collectors, scan, listed, began, job,
                   cache, used>>
    /\ last' = None

Tick ==
    /\ now < MaxTime
    /\ now' = now + 1
    /\ UNCHANGED <<world, agent, job, cache, used>>
    /\ last' = None

\* The process ends, and its cache with it.
End ==
    /\ pc # "down"
    /\ pc' = "down"
    /\ job' = None
    /\ cache' = <<>>
    /\ used' = <<>>
    /\ last' = None
    /\ scan' = {}
    /\ steady' = {}
    /\ UNCHANGED <<now, world, collectors, listed, began>>

-----------------------------------------------------------------------------
Init ==
    /\ now = 0
    /\ procs \in [Pids -> Contexts \cup {None}]
    /\ settings \in Settings
    /\ starts = 0
    /\ pc = "down"
    /\ collectors = {}
    /\ scan = {}
    /\ listed = FALSE
    /\ steady = {}
    /\ began = 0
    /\ job = None
    /\ cache = <<>>
    /\ used = <<>>
    /\ last = None

Begin  == Start \/ StartRefused \/ ReadFails \/ Read \/ Serve
Handle == Command \/ Hit \/ Miss \/ Collect \/ Clean
World  == Change \/ Tick \/ End

Next == Begin \/ Handle \/ World

Spec == Init /\ [][Next]_vars

-----------------------------------------------------------------------------
\* Properties.

\* No process gets the labels of one of another cgroup, user, group, name or
\* path (command_msg.go:63), but in three cases the code has: the process
\* changed while the collectors were asked about its pid (augment.go:79), init
\* could not read all of a process (augment.go:116) and took it for one of root's,
\* which a process of root can then be answered with, or what init made of a
\* process is what the kernel module says of the other.
NoForeignLabels == last # None =>
    \A label \in last.item.labels :
        \/ label[2] \in {Host, last.context}
        \/ label[2] \in Contexts /\ Scanned[label[2]] = last.context
        \/ last.item.raced
        \/ last.item.partial /\ last.context.gid = "0"

\* Labels are not older than what has been asked for at least every TTL: after
\* a pause, also a partial answer is collected anew (augment.go:67-77).
FreshAfterSilence == last # None /\ last.hit =>
    /\ last.previous # None
    /\ last.at - last.previous <= TTL

\* When the agent begins to serve, a process that was there all along, and that
\* could be read, need not wait for collectors (augment.go:107-126), unless init
\* itself took so long that its first answers have expired, the pids could not be
\* listed (the agent serves all the same, :108-111), or init makes of the process
\* something else than the kernel module will.
WarmStart ==
    [][pc = "scan" /\ pc' = "serve" /\ listed =>
           \A p \in steady : Scanned[procs[p]] = procs[p] =>
                \/ UniqueString(procs[p]) \in DOMAIN cache
                \/ now - began > TTL]_vars

\* What --dump-config prints is the configuration: an agent that is given it as
\* its file, no flags and no environment, runs the same collectors with the same
\* settings (root.go:93, config.go:51).
DumpKeepsConfiguration == starts = 0 =>
    Configured([line |-> Nothing, env |-> Nothing, file |-> Dump(Configured(settings))])
        = Configured(settings)
=============================================================================
