# Camblet agent: verification project

Camblet's agent sits between a kernel module, which it talks to through the
character device `/dev/camblet`, and command line clients, which it serves over
gRPC. This directory holds TLA+ models of it, TLC configurations that check them
on small instances, and TLAPS proofs. Paths below are relative to `src/`.

## 1. Inventory

### Components

| component | state | operations | talks to |
|---|---|---|---|
| event bus (`github.com/werbenhu/eventbus`, external) | one unbuffered channel and one goroutine per topic, handlers per topic | Subscribe, Unsubscribe, Publish (blocks until the topic's goroutine takes the payload), PublishSync | everything |
| messenger (`pkg/agent/messenger`) | `m.dev` | Run: subscribe, open, announce, scan loop, close; the `message.outgoing` subscriber | device; `message.incoming`, `message.outgoing`, `messenger.started` |
| commander (`pkg/agent/commands`) | the handlers registered by name | handleCommand; handlers accept, connect, log, csr_sign, augment | `message.incoming`, `message.outgoing`, `trace.response` |
| augmentation (`commands/augment.go`) | a cache of labels with a TTL of five minutes | HandleCommand, init | metadata collectors, processes |
| certificate authority (`pkg/tls`, `commands/csrsign.go`, `internal/cli/cmd/ca`) | CA key and certificates; PEM files | parse, load, sign, CreateIntermediate, create-root, create-intermediate | file `ca.pem` |
| trace service (`pkg/agent/api/v1/trace`, `pkg/agent/server`) | open streams, their handlers on `trace.response` | Trace | gRPC clients, `trace.request`, `trace.response` |
| trace client (`internal/cli/cmd/agent/trace.go`) | flags | flag check, request, receive loop | trace service |
| file content loader (`pkg/util/file_content_loader.go`) | paths, watcher | load, Run | file system, callback |
| policies (`internal/policy`, `generate_policy.go`), services (`internal/service`) | none between loads | parse, template, validate, convert, organize, resolve, merge; generate-policy | file content loader, resolver |
| agent process (`internal/cli/cmd/agent/agent.go`, `cmd/camblet/main.go`, `deploy/camblet.service`) | `ca.pem`, `public_ca.crt`, the error channel | start-up, the handlers of `messenger.started` and `trace.request`, loaders, giving up; systemd restarts it | all of the above |
| configuration (`pkg/config`), metadata collectors (`pkg/config/metadata/collectors`) | read once at start | bind, fill in, validate, dump; instantiate | environment, file, flags; metadatax (external) |
| other CLI commands | - | print | - |

### How they interact

The reader goroutine (messenger.Run) hands each line of the device to the
`message.incoming` goroutine, which runs the handler and hands the answer to the
`message.outgoing` goroutine, which writes it to the device. The log handler
additionally hands a trace response to the `trace.response` goroutine, which calls the
handler of every open stream, each of which may block in `srv.Send`. When the device
opens, the `messenger.started` goroutine sends the kernel module's configuration and
starts a loader goroutine for services and one for policies; both publish tables
on `message.outgoing`, at start and whenever the watcher reports a change. Trace
streams publish additions and removals of requests on `message.outgoing` from their
own goroutines.

### What is hard, and what makes each component correct

* **Command pipeline.** Three goroutines and foreign publishers without a common
  lock; `m.dev` is shared unlocked; any error ends the process, systemd starts it
  again. Correct if answers come in order, at most one per command, with the
  command's own result; no reply is lost without a reason; nothing waits for ever.
* **Tracing.** A response is fanned out while streams subscribe and leave; flow
  control blocks the fan-out; clients vanish. Correct if a feed has no gaps and
  nothing else in it, the kernel module's requests are those of the open
  streams, and a client that leaves is forgotten.
* **Agent.** The device opens after the API is up; handlers run in any order;
  tables are loaded while files change. Correct if the kernel module is brought
  up to date and never back, and composition breaks no part's promise.
* **Loader.** Edits between reads and the watcher's start; unreadable and vanished
  files. Correct if a quiet file system ends with the last contents published.
* **CA start-up.** Files are created, protected and written in steps a crash can
  separate. Correct if a restart finds a usable CA and a key in a file nobody else can open.
* **Certificate authority.** PEM files of any order and content, made by hand or by
  the commands; time passes. Correct if what is signed can be verified with the answer
  alone, and what the commands print is an authority with the trust anchor of its parent.
* **Policies and services.** Files come in the order of a map, some are broken, lookups
  fail; a comparison that is no order; lists multiplied out. Correct if a mistake
  costs only itself and a policy applies to whom it is written for.
* **Augmentation.** A cache shared by processes that look the same, while pids change
  hands and collectors fail. Correct if nobody gets another's labels, nor old ones
  after a pause, and the scan at start is worth its time.
* **Configuration.** Four sources of a value, defaults, switches with three states.
  Correct if what is printed is what runs.

`PROJECT.json` lists the hazards with their lines.

## 2. Modules

| module | models | status |
|---|---|---|
| `EventBus` | topics and Publish, as the code uses them (external) | done |
| `CommandService` | abstract: what the kernel module is promised for its commands | done |
| `CommandPipeline` | messenger, commander, process life | done |
| `CommandPipelineProofs` | proofs about it | done |
| `Tracing` | trace service, fan-out, clients | done |
| `TracingProofs` | proofs about it | done |
| `Agent` | composition of the two with the start handlers and the loaders | done |
| `AgentProofs` | that it implements the pipeline and the streams, and proofs about the whole | done |
| `FileContentLoader` | one loader in detail: paths, directories, vanishing files, failing loads, watches | done |
| `FileContentLoaderProofs` | proofs about it | done |
| `CABootstrap` | runCommander's start-up, system call by system call, over crashes and restarts | done |
| `CABootstrapProofs` | proofs about it | done |
| `Authority` | PEM files, the `ca` commands, loading and signing, over time | done |
| `AuthorityProofs` | proofs about it | done |
| `Policies` | conversion and order of policies, generate-policy (operators) | done |
| `Services` | resolution and merging of services (operators) | done |
| `Tables` | the callbacks of both loaders, from files to what is published | done |
| `TablesProofs` | proofs about the three | done |
| `Configuration` | sources, defaults, refusal and dump of the configuration; the collectors made of it (operators) | done |
| `Augmentation` | the scan, the cache, the collection of labels, processes that change | done |
| `AugmentationProofs` | proofs about it | done |
| `MC...` | values for TLC | done |

What is left of the plan: an abstract loader (what is published are contents the files had,
and the last ones at rest) that both `FileContentLoader` and the loaders of `Agent` implement.

`Agent` composes by `EXTENDS CommandPipeline` and `T == INSTANCE Tracing`: the bus
variables are shared, steps of one part leave the other's variables alone, and the
environment actions of both (Push, ResponsesDone, Emit, DeviceTakes) are
replaced by the other part's code. `Tables` EXTENDS `Policies` and `Services`, and
`Augmentation` EXTENDS `Configuration`: state machines over modules of operators.

## 3. How the models correspond to the code

**EventBus.** A topic is one variable: the payload its goroutine works on, or `Idle`.
The channel is unbuffered, so handing over is one step and a busy goroutine blocks
its publishers. `trace.request` is used with PublishSync only, hence a part
of the caller's step. Handlers are identified per subscription; the library is not
vendored, and if it identified them by code pointer two streams would collide.

**CommandPipeline.** `reader` is the position in messenger.Run, `incoming` with
`result` the position in handleCommand, `outgoing` with `writer` the position in the
subscriber. A command's id is its index in `sent`. The second read of `m.dev`
for the write is a step of its own (`CheckDevice`, then `WriteDevice` or
`WriteFails`), and so are Close and the assignment of nil (`DeviceGone` or the
failing `Scan`, then `ClearDevice`). A read of the device puts any number of the waiting
lines into the scanner's buffer (`taken`), from which `Scan` returns one at a time (`nread`). A line
that does not decode ends Run, and what is buffered behind it is lost with the process.
That a read returns whole lines, so that no process ends with half of one in its
buffer, is assumed of the kernel module. `ProcessEnds` is what a process end does to all that; `Stop` is the orderly way there,
`Kill` stands for signals, panics and the errors of other goroutines.
`dropped` is a history variable. Names of commands stand for the
handler's outcome: `garbled_log` is a log command whose data does not parse.

**Tracing.** `phase` is the position in service.Trace. The `trace.response` goroutine
takes the handlers registered at that moment (`TakeResponse`), calls them in any
order (`Call`) and may block in `Send` while the client's window is full; a client that
is gone makes Send fail. A message to the kernel module carries the action and the request
and not the stream it comes from (`TraceMsg`), so `traced` counts how often each request was added
less how often it was withdrawn. `RequestOf` and `NoFilter` are the CLI's. `MatchesIn` says
which of the responses logged from some moment on a stream is to carry.

**Agent.** `todo` holds the handlers of `messenger.started` still to run, which the bus
calls in no order the code fixes. A loader is a position in fileContentLoader.Run;
the files of a table are one version number, and whether one of them cannot be read
(`broken`): then the load fails as a whole, at first with an error that ends the agent (`GiveUp`),
later with a line in the log. `table`, `config` and `traced`
are what the kernel module has been written.

**FileContentLoader.** `pc` and `looping` are the position in Run, `todo`, `unread`
and `got` the locals of load. The state of a file is a number that is odd while
the file exists, so deleting, creating and replacing are one action, `Edit`, which
also stands for inotify: an edit under a watched path causes an event, and
the watch of a path that is a file ends with that file. The events waiting in
the watcher are one flag; taking one may leave others. Files are read and
paths visited in any order; a read fails when the file has vanished or is `unreadable` (forbidden, a
directory, a dangling link), and with it the load. `Protect` changes that, and like
every change of an entry it is an event; that a link's target elsewhere changes is
none to inotify, and not modelled. `begun` and `edited` are history variables.

**CABootstrap.** `pc` names the next system call of ensureCACertificate and
runCommander; `End` is a crash, a signal or an error between two of them, the two
actions `...CutShort` a write that was not completed. Only the process ends: a
machine that loses power, and with it data it had not synced, is left out. An
authority is a certificate with its key; a generated one is new. `StatFails` is os.Stat with an error
that is taken for a missing file; `overlooked` is a history variable of what was in the
file then. It may happen as often as a key is left to generate (a bound of the
model). `others` is a descriptor another user has of ca.pem, opened while the mode
lets them (`OthersOpen`), before or after the agent wrote a key; a descriptor reads what is written later.

**Authority.** A PEM file is the sequence of its blocks, `ParsePEMs` and the operators
before it are parser.go (which types a block may have, what a parser refuses). `Loads` is
`ca.init`: the *first* key, the first CA certificate, the first root of the
file, a key pair, and a verified path (`Selected` is the loop that appends the blocks
or certificates of a kind to a list). `Verifies` is `x509.Certificate.Verify`,
external: a path of valid certificates, stated without recursion as what every set closed
under issuing contains. A certificate is who it names, who signed it, with which
key, until when. `pem` is the file both the agent and the next `create-intermediate`
read; `origin` is a history variable.

**Policies, Services, Tables.** Policies are reached through pointers: a list, the table or an
egress section, holds names, and a table says which policy has which name. A selector is a map from fields
to sets of scalars, a label is `name=value`; label sets are sets, so what Go orders
differently at every run (fields, map entries) has no order here, but the arrays the
odometer (`Advance`) goes through are sequences. `SortStable` is the insertion sort
sort.SliceStable uses for up to 20 elements, with Organize's comparison; longer lists,
which are merged from blocks, are not modelled. In `Tables` a callback reads its files in any
order, one per step, and a file may be edited between two callbacks; `dnsOf` is a
history variable. `Execute` renders the values of selectors, the certificate and the connection, whatever of them
is a placeholder; names of fields are left as they are. The two tables share nothing, so an initial state has files for one only.

**Configuration.** A value, or Unset, per option. `Setting` is viper with AllowEmptyEnv:
what the command line says goes first, then the environment, then the file and the default of the flag; an
empty flag or environment variable wins and means an empty string, or a switch that is
off. The two `Validate` levels and the collectors' own are `Validated` and `Refused`;
the order of defaults and errors does not matter, since nobody sees the
configuration of a start that is refused.

**Augmentation.** `pc` and `scan` are the position in init, `job` the command in
HandleCommand, once more after the miss (`missed`), since the collectors take their time. A
process is its context as the kernel module sends it; namespaces are left out, which the key does not contain.
`Scanned` is what init makes of it with gopsutil, which may be something else (a name cut to 15
characters, another uid). `listed` says whether the pids could be listed at all. `Read`
may be cut short after any of the five things getCMDContextFromPID has read, as
ErrNotExist, ErrPermission and ErrorProcessNotRunning make init go on; cut short at once, it has the pid or
not even that. Labels are pairs of
a collector and whom it speaks of. `used`, `steady` and `last` are history variables.

## 4. Runs

| run | checks | bounds |
|---|---|---|
| CommandPipeline | TypeOK, AnswersInOrder, PipelineOrder, EveryReplyAccountedFor, SilentDropOnlyAtTheEnd, RepliesEventually, ReadsAllWhenHealthy | 2 commands, all 8 kinds, one-way or not, refused writes |
| TracingFeed | TypeOK, CompleteFeed, KernelAgrees, OnlyWhatWasAskedFor, GoneIsForgotten, ResponsesAreTaken | 2 clients with the same request, 2 contexts, 2 responses, window 1 |
| AgentTables | TablesNeverGoBack, KernelUpToDate | 1 table, 3 versions, readable or not, 1 command (csr_sign), no refused writes |
| AgentStreams | OnlyTracesComeTooEarly, CompleteFeedInAgent, ImplementsService, EveryCommandAnswered | 1 client, 3 log commands, nobody kills the agent |
| AgentTracingStarted | StartedMeansTraced (violated) | 1 client |
| LoaderEdits | TypeOK, ContentsAreFresh, EditsAreLoaded | 2 files in a directory, an empty directory, 4 states of a file, each file readable or not |
| CABootstrapStart | TypeOK, KeyIsPrivate, OneAuthority, PublicIsCurrent, ServesUnlessDamaged | 3 authorities, 1 descriptor of another user |
| CABootstrapHeals | RestartHeals (violated) | 3 authorities |
| Authority | TypeOK, ResponsesVerify, CommandsWriteAuthorities | all PEM files of up to 3 of 7 blocks and 102 others, 2 generated keys, 2 names, lives of 1 to 3 in a time of 2, 1 answer |
| Tables | NothingElseIsLost, SpecificFirst, SecondSortChangesNothing, AppliesAsWritten, GeneratedPolicyApplies, ServicesAsListed | 2 files per table, 19 contents of policy and 5 of service files, 4 resolvers |
| TablesDocker | EveryConditionCounts (violated) | 2 files, the policy of ci.yaml and 3 others |
| Augmentation | NoForeignLabels, FreshAfterSilence, DumpKeepsConfiguration, WarmStart | 2 interchangeable pids, 2 contexts that init takes for one, 4 configurations, TTL 1 in a time of 2, a read cut short after 0 or 3 of 5 |

Why the bounds are enough to be interesting: two commands meet every pair of places in the
pipeline, with an answered one behind a restart, and three log commands (AgentStreams)
fill reader, handler and writer at once, the third waiting behind a response that waits
for a client; one of two commands may wait in the scanner's buffer behind the other; the safety properties are proved for any number. Two clients with a window of one meet every order of subscribing,
blocking and leaving, and the second response finds a full window; they make the same request, which is
where counting requests is hard, and different ones are in the proofs of
CompleteFeed, KernelAgrees and OnlyWhatWasAskedFor, for all command lines; three versions
allow an edit before the watch, one during a load and one after. Four states of a
file allow it to be created, deleted and created again around one load; of
three authorities one is the administrator's, one generated, and one is left to be
generated when os.Stat fails, or wrongly. Two contexts that init takes for one are a process whose
item is under its own key, and one whose item is under the other's; pids are symmetric, since no property
or action tells them apart and none of these properties is about liveness. Three blocks are a key and two certificates, so that the wrong one
may come first; four are needed for an intermediate authority beside a foreign
root; two generated keys are a root and an intermediate, or an intermediate of an
intermediate. The policies compare in every way: more specific, more general,
neither, and both, in the table and in egress sections. One list is not enough for the
odometer and three show a reset that is missing. Two pids are needed for one process to take over what the
other had; a TTL of 1 in a time of 2 has hits before, at and after the end; reads are
cut short before there is a pid and between the path and the uid. Process restarts are
not bounded (in Augmentation, where a restart only empties the
cache, one start is followed). Every property has a mutant of the code (a `Mutant:`
comment above it) that the same run refutes.

Deadlock is checked in CommandPipeline, AgentTables, the CA start-up, Authority, Tables
and Augmentation, where something can always happen; not in TracingFeed and AgentStreams,
which stop when the bounded responses or commands are used up and, in AgentStreams,
nobody kills the agent; and not for the loader, which waits for edits
for ever once they are used up, or returns.

### Fairness

Weak fairness for each goroutine: Go's scheduler runs what can run. Strong fairness for
publishers on `message.outgoing`: senders that wait on a channel are served in the
order they came. Stop and Restart are fair (the main goroutine waits for the error;
systemd restarts, `Restart=always`). A client that stays reads: the agent
sets no deadline, so without it one client blocks the answers to the kernel
module. Nothing is assumed of how the kernel module is scheduled, of signals, edits,
clients connecting or leaving. That the files can be read in the end is a hypothesis of KernelUpToDate
and EditsAreLoaded: with one that cannot, no load succeeds. The loader is one goroutine, and so is the start-up; that systemd, after many failed
starts in a short time, waits for an administrator is left out, since it is about
how fast the agent fails. ServesUnlessDamaged and RestartHeals speak of behaviours in which from some
point on no system call fails (`Healthy`). CommandPipeline assumes that responses are
taken; Tracing proves it of its goroutine (ResponsesAreTaken), and AgentStreams checks
the two together.

AgentStreams speaks of behaviours in which nobody kills the agent and the device
stays (`SteadyNext`); it may fail to open the device and is restarted then. Collectors are
assumed to return in RepliesEventually. Authority, Tables and Augmentation have safety
properties only.

## 5. Proofs

`CommandPipelineProofs` proves, for all sets of commands, contexts, pushes and every
bound, from the named assumptions of `CommandPipeline` (the bound is a natural
number, flags are Boolean, `Idle` is no message, result or number):

* `TypeCorrect`, `OrderCorrect`, `AnswersInOrderCorrect` from the inductive invariant
  `IInv == TypeOK /\ PipelineOrder /\ AnswersInOrder`. AnswersInOrder is not inductive:
  that an answer being written is younger than those written needs to know that
  what the writer holds is older than what the handler holds, and so on up
  to the reader, which is PipelineOrder. TypeOK needs PipelineOrder, too: the
  index that is published is one that was read.
* `Implementation`: initial states and steps of the pipeline are those of
  `CommandService` (on the same `sent` and `answers`) or stutter. AgentStreams
  checks the same where the agent's own code takes the place of the environment.
* `EveryReplyAccounted`: by cases on where a command is, the scanner's buffer among them, from IInv.
* `SilentDropCorrect`: with `DeviceState`, that `m.dev` is nil exactly outside of
  the device's life in Run, and no command is in the process before it.

`TracingProofs` proves `TypeCorrect`, `CompleteFeedCorrect`, `KernelAgreesCorrect` and
`OnlyWhatWasAskedForCorrect` for all clients, flags, contexts and windows, from the
assumptions that a window is at least one, that flags are numbers and a name, and that an
idle goroutine can be told from a busy one (`StreamsIdleAssumption`). `StreamInv`
says that a stream has been sent every match from its subscription to the last response
its handler was called for (`FeedOK`), and whose handlers are still to be called for the
response in hand: those of subscribed clients, or of ones that have gone away since
(`FanoutOK`). `CompleteFeed` alone is not inductive, since it does not tell a response that was
missed from one still to come. `RequestsOK` says of every request that the kernel module's count is the
number of streams that want it, but for the one message on its way. `OnlyWhatWasAskedFor` speaks of pids and
uids from 1; what becomes of uid 0 is section 6.

`AgentProofs` proves that the composition breaks none of its parts' promises.

* `AgentRefinesPipeline`: every behaviour of the agent is one of `CommandPipeline`. `Agent`
  puts loaders, streams and start handlers where CommandPipeline has an environment that may
  publish what it likes; every such step is shown to be one of that environment or to
  leave the pipeline alone (`PipelineStepImplemented`, a case per action). So
  `AgentImplementsService` and `AgentAccountsForReplies` follow from the theorems about
  the pipeline. The step needs the invariant: the start handlers publish only while a
  process has a device.
* `CompleteFeedInAgentCorrect` and `AgentShowsOnlyWhatWasAskedFor`: the agent's steps
  preserve `StreamInv` of Tracing, where responses come from the log handler and a
  process may end in the middle of one.
* `OnlyTracesComeTooEarlyCorrect` from `StartOK`: nothing but the API server and its streams
  works before the device is open.
* `TablesNeverGoBackCorrect` from `VersionsOK`: what a loader holds is no older than what is on
  `message.outgoing`, that no older than what the kernel module has, and nothing newer
  than the disk. The last is why a restart does not go back: the new
  process reads the disk.

All are for any tables, versions, clients and commands, from the assumptions of
CommandPipeline and Tracing and that the pushes of the pipeline are those of the agent
(`PushesAssumption`).

`CABootstrapProofs` proves `TypeCorrect`, `KeyStaysPrivate`, `AuthorityStaysTheSame` and
`PublicStaysCurrent` for every set of authorities, from the assumption that the names for
damaged and missing files are none of them. `KeyStaysPrivate` does not say that nobody can have the key: a descriptor opened
before the chmod reads it (section 6), and the theorem says that there is no other way. `AuthorityStaysTheSame`
has the authorities on which os.Stat failed as its exception. The inductive invariant joins the
three properties with TypeOK and `FileState`: what ca.pem holds between two system calls,
without which Write could be thought to replace an authority that has signed.

`FileContentLoaderProofs` proves `TypeCorrect` and `FreshContents` for all files, paths and
bounds. The invariant adds `Found`: in the paths a load has visited it has found
nothing older than its beginning and nothing newer than the disk.

`AuthorityProofs` proves `TypeCorrect`, `AnswersVerify` and `CommandsCorrect` for all PEM
files, requests, keys and lives, from the assumptions that generated keys are RSA keys, time and lives
are numbers, and files from elsewhere hold what their blocks say (or what is an error) and
none of the keys that will be generated. `Loads` takes the first key, certificate and root of a file; that there is a
first one is `FirstPosition`, by well-foundedness of `<`. The invariant says that a
loaded authority is sound and of one piece (`CAInv`), and that an answer was signed by
such an authority and carries its root and intermediates (`ResponsesInv`). From there
the argument is about trust: what is verified with the anchor and the chain of an
authority stays so when the leaf it issued is put at the end (`IssuedVerifies`),
because any set of certificates closed under issuing that contains the signer contains the leaf.
For `CommandsCorrect` the invariant is stronger than the property: what the commands have
written loads at *every* time at which all of its certificates are valid (`Loadable`), so that
time may pass; and no key in the file is yet to be generated (`BlocksInv`), so
that the certificate for a new key is never taken for a root. The step is `IntermediateLoads`:
the new file begins with the new certificate, its only key is the new one
and its only root the old anchor (`WrittenFile`), it has all the links of the old chain
(`IntermediateBlocks`), and what could be verified once can be whenever all of it is valid,
with more certificates at hand, too (`VerifiesWithMore`). `SelectedEffect` says what the loop of
`Selected` returns.

`AugmentationProofs` proves `FreshAnswers`, `OwnLabels`, `DumpCorrect` and `WarmStartCorrect` for
all pids, contexts, configurations and times. For the first the invariant is that an item expires exactly one TTL
after its key was last answered (`CacheInv`): with what is in the cache alone, Touched
might prolong an item nobody had asked for. For the second it says whose labels the
items and the command in hand can have (`LabelInv`); the theorem assumes
`KeysAreUnique`, that no two contexts have one UniqueString. TLC evaluates nothing of
the kind for the real program, where names with dashes may break it. What init makes of a
context is any function of it (`Scanned`); an item it makes is a label of the process under the key of what it read.

`DumpCorrect` is about operators: filling in defaults sets every option that has
one and changes no other (`FillEffect`), so the dump leaves nothing to fill in and a
second validation changes nothing (`ValidatedTwice`). It assumes that no default is Unset, which is how viper
tells. For `WarmStartCorrect` the invariant says of every process that has been there since
the scan began that it is still to be scanned, or its command is in hand, or its item is in
the cache until the scan is older than the TTL (`WarmInv`), under the key of what init makes of it,
which is its own if init sees what the kernel module does.

`TablesProofs` proves all that the run Tables checks, for any files, contents, processes, lookups and
orders of reading: `EverythingIsSent`, `TablesInOrder`, `OrganizedTwice`, `SelectorsAsWritten`,
`GeneratedForProcess` and `ServiceTable`. It assumes of the contents what YAML and the Go types give:
items are lists, a policy is written in one place and its selectors are finite maps of finite
values, hosts are of one of three kinds. The invariants `PolicyInv` (theorem `PolicyLoading`) and
`ServiceInv` (`ServiceLoading`) say that a callback has exactly what the files behind it hold,
and that what was sent is organized of, or merged from, all files that parse; the properties,
which speak only of the moments between two callbacks, say nothing of a callback halfway. The rest
is about the operators:

* The sort. `InsertKeeps` shows that inserting keeps neighbours in order although the comparison
  is neither transitive nor asymmetric (in sections of up to 20, see section 3): the new policy stops behind the last one that it is not
  more specific than, and all it passed it is more specific than (`SortList` is the induction over the
  list). `SortedStays` is why a second sort changes nothing: with no two policies each
  more specific than the other, being in order means that every policy stops where it
  stands.
* The odometer. `AdvanceIsNext`: it goes to the next indices in the lexical order, with none between.
  So the rows added from some indices on are those of all indices not before them, because
  this satisfies the recursion and, the order having last elements in every set (`LastIndices`),
  nothing else does; the first indices come before all others (`EveryRow`). Then a label set of
  ConvertSelector is part of a process's labels just when the process has a label of every field
  (`ConvertedSelector`).
* The merge. An entry map is described by the pairs of a key and labels that went into it
  (`Entries`), so that merging two is joining two sets (`MergedEntries`), in whatever order.

Induction over data is done by hand: a non-empty set of numbers has a least element
(`LeastElement`), so a set with 0 and the successors of its members has all of them (`SetInduction`), and a recursive
function on `0 .. N` exists (`Recursion`; in TablesProofs, where the steps are operators, a lemma per
function, as `SortSteps`). They are proved in each module that needs them:
for the feeds of Tracing, the chains of Authority, and the loops and the sort of Tables.

Only model-checked: all liveness, like ENABLED:
RepliesEventually, ReadsAllWhenHealthy, GoneIsForgotten, ResponsesAreTaken, KernelUpToDate,
EveryCommandAnswered, EditsAreLoaded and ServesUnlessDamaged. That the names of constants
differ where the code tells them apart is assumed by name, and TLC evaluates
each assumption on its run.

## 6. Findings

* A stream opened before the device is open is never traced (AgentTracingStarted):
  its request is discarded at `messenger.go:60` although the user was told
  "tracing started" (`trace.go:112`).
* A start cut short between creating and writing `ca.pem` (`agent.go:151-159`) leaves a
  file that every later start accepts and then cannot load (CABootstrapHeals).
* A condition of a selector that is a boolean is dropped (TablesDocker;
  `internal/policy/convert.go:67-82`): the policy of `camblet.d/policies/ci.yaml:18-22` "local nginx
  in docker" applies to nginx outside of docker.

Disagreements that were met while modelling and have no run of their own:

* `trace --uid 0` shows everybody's connections: the flag check accepts uid 0
  (`internal/cli/cmd/agent/trace.go:67`), the request leaves it out (:96), and nobody
  evaluates the rule of `trace.proto:14-20`. OnlyWhatWasAskedFor therefore speaks of uids from 1.
* Commands that are buffered behind a line which does not decode are lost with the process
  (`messenger.go:83-98`); the restarted agent reads on behind them. ReadsAllWhenHealthy therefore speaks of
  getting past a command, and EveryReplyAccountedFor counts the reply as lost.
* The message for the kernel module does not say whose trace request it is (`messages.go:58-61`,
  `agent.go:203-211`): of two streams with equal requests the first to leave sends a withdrawal
  that fits the other's as well.
* While one entry of a directory cannot be read, no edit of any other file reaches the kernel module
  (`file_content_loader.go:94-96`, :113-139), with no more than a line in the log.
* `ca.pem` is created with 0666 less the umask and protected afterwards (`agent.go:151-154`): a descriptor
  another user opens in between reads the key written at :159.
* Any error of os.Stat makes the agent overwrite `ca.pem` with a new authority (`agent.go:134`), also one
  that has signed.
* When the pids cannot be listed (`augment.go:108-111`) the agent serves with a cold cache; and the labels of a process whose
  name, path or user gopsutil reads otherwise than the kernel module wait under a key that is not its own.
* A policy printed by generate-policy is a template when it is loaded (`policy/template.go:49-65`): a label
  with `{{` in its value comes back as another, or keeps the templates of the whole file from being rendered.
* A file edited between the loader's first load and `watcher.Add` is not loaded until
  some other edit (`pkg/util/file_content_loader.go:67-84`), and a path that is a
  file is not watched any more once the file was replaced. It is why KernelUpToDate
  speaks of versions the loader can notice.
* Organizing what is organized (`agent.go:257`, after `policy/file_loader.go:90`) may change the order of a section with two
  policies each of which is more specific than the other, as policies with several
  selectors can be; with others it changes nothing, which is what SecondSortChangesNothing says.
* An IPv6 address of a service is valid (`service.proto`) and dropped
  (`internal/service/convert.go:111-115`).
* An authority with an ECDSA key is parsed and loaded (`parser.go:49-50`), and the first
  request it is to sign ends the agent (`authority.go:98`), as does create-intermediate
  with it (:128).
* A token with a dash in its first two parts is not taken for one (`kubernetes.go:132`),
  and text without PEM blocks for a certificate without contents; both are silent.
* Processes that init cannot read fully share their labels with processes of root that have the
  same cgroup, name and path as far as they were read (`augment.go:116`).

## 7. Not modelled

Wire formats and JSON, logging, printing; generated code; `agent augment`, which
prints what the collectors return; colours, prompts and key names of the CLI; the search for
the configuration file (viper) and the options nobody but the operating system
interprets (paths, the device). What metadatax, x509, ttlcache, the resolver and the
event bus do is external, modelled as the code uses it. What the kernel module does
with what it is sent is external, modelled as the last value it was sent, and, for
policies, as matching labels. JSON and YAML are taken to bring back the strings they were given. Host names in certificates, usages and extensions
are copied and checked by nobody here. A context cut short in the namespaces is
a whole one, since the key does not contain them. Two agents started at once, and machines that lose power, are left
out. `ctx.Done()` branches are not modelled: the
context is `context.Background()` (`main.go:53`), so they are never taken.
