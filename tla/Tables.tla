------------------------------- MODULE Tables -------------------------------
(***************************************************************************)
(* From files to the tables of the kernel module: the callbacks the policy *)
(* and the service loader give to FileContentLoader, and what the agent    *)
(* publishes.  A callback goes through a map, whose order Go chooses anew  *)
(* every time; a file that is no YAML list is left out, and so is an item  *)
(* that is not valid.  Names are looked up while the callback runs.        *)
(*                                                                         *)
(* A file's contents are a record of whether it parses as a list and of    *)
(* its items, each valid or not.  An item of a policy file names a policy  *)
(* of the file; the record has these and those of their egress lists by    *)
(* their names, and whether the text is a template that renders.           *)
(***************************************************************************)
EXTENDS Policies, Services

CONSTANTS
    PolicyFiles, ServiceFiles,         \* names of files
    PolicyContents, ServiceContents,   \* what may be in one
    Processes,    \* processes, as the labels the collectors find
    Wanted,       \* names of the labels generate-policy takes
    DNS,          \* what lookups may return
    None          \* nothing was sent yet

IsSequence(s) == s \in Seq(ToSet(s))

\* A policy file holds lists of policies, each written in one place, and selectors
\* with finitely many fields and values.
ASSUME PolicyContentsAssumption == \A content \in PolicyContents :
    LET names == DOMAIN content.policies IN
    /\ IsSequence(content.items)
    /\ \A i, j \in DOMAIN content.items :
          /\ content.items[i].body \in names
          /\ content.items[i].body = content.items[j].body => i = j
    /\ \A n \in names :
          /\ DOMAIN content.policies[n] = {"selectors", "certificate", "connection", "egress"}
          /\ content.policies[n].egress \in Seq(names) /\ IsInjective(content.policies[n].egress)
          /\ \A s \in content.policies[n].selectors :
                IsFiniteSet(DOMAIN s) /\ \A k \in DOMAIN s : IsFiniteSet(s[k])

ASSUME ServiceContentsAssumption == \A content \in ServiceContents :
    /\ IsSequence(content.items)
    /\ \A item \in ToSet(content.items) :
          /\ IsSequence(item.body.addresses)
          /\ \A a \in ToSet(item.body.addresses) : a.host.kind \in {"ip4", "ip6", "name"}

ASSUME ProcessesAssumption == \A labels \in Processes : IsSequence(labels)

\* No set of files is None.
ASSUME NoneAssumption == \A files \in SUBSET (PolicyFiles \cup ServiceFiles) : files # None

VARIABLES
    policyContents,    \* the map the running or last callback was given
    policiesTodo,      \* its files the callback has not read, None between two
    policiesRead,      \* the policies of those it has
    loaded,            \* what the policy loader handed over last
    sentPolicies,      \* what the agent published last
    serviceContents, servicesTodo, entriesRead, sentServices,
    dnsOf              \* what the lookups for each file returned (history)

policyVars  == <<policyContents, policiesTodo, policiesRead, loaded, sentPolicies>>
serviceVars == <<serviceContents, servicesTodo, entriesRead, sentServices, dnsOf>>
vars == <<policyVars, serviceVars>>

-----------------------------------------------------------------------------
\* The policy loader.

Placeholder == "{{.TrustDomain}}"
TrustDomain == "acme"

ValidItems(content) ==
    LET kept[i \in 0 .. Len(content.items)] ==
            IF i = 0 THEN <<>>
            ELSE IF content.items[i].valid THEN Append(kept[i-1], content.items[i].body)
            ELSE kept[i-1]
    IN  kept[Len(content.items)]

Rendered(text) == IF text = Placeholder THEN TrustDomain ELSE text

RenderedSelector(selector) == [k \in DOMAIN selector |->
    {IF v.kind = "string" THEN [v EXCEPT !.text = Rendered(@)] ELSE v : v \in selector[k]}]

\* The whole text of a file is the template, the conditions of a selector included.
\* A file whose template does not render is taken as it is.
Execute(content, raw) ==
    IF content.renders
    THEN [raw EXCEPT !.selectors   = {RenderedSelector(s) : s \in @},
                     !.certificate = Rendered(@),
                     !.connection  = Rendered(@)]
    ELSE raw

\* Every file has names of its own.  (The policies of an item that is not valid have
\* theirs as well, which no list holds.)
In(f, names) == [i \in DOMAIN names |-> <<f, names[i]>>]

UnmarshalPolicies(f, content) ==
    LET converted(n) == ConvertPolicy(Execute(content, content.policies[n]))
    IN  [top      |-> In(f, ValidItems(content)),
         policies |-> [p \in {f} \X DOMAIN content.policies |->
                         [converted(p[2]) EXCEPT !.egress = In(f, @)]]]

NoPolicies == [top |-> <<>>, policies |-> [p \in {} |-> {}]]

Joined(read, new) ==
    [top      |-> read.top \o new.top,
     policies |-> [p \in DOMAIN read.policies \cup DOMAIN new.policies |->
                     IF p \in DOMAIN new.policies THEN new.policies[p] ELSE read.policies[p]]]

\* Mutant: a file that does not parse ends the loop.
ReadPolicyFileOrStop(f) ==
    /\ policiesTodo # None /\ f \in policiesTodo
    /\ IF policyContents[f].parses
       THEN /\ policiesRead' = Joined(policiesRead, UnmarshalPolicies(f, policyContents[f]))
            /\ policiesTodo' = policiesTodo \ {f}
       ELSE policiesTodo' = {} /\ UNCHANGED policiesRead
    /\ UNCHANGED <<policyContents, loaded, sentPolicies, serviceVars>>

ReadPolicyFile(f) ==
    /\ policiesTodo # None /\ f \in policiesTodo
    /\ policiesTodo' = policiesTodo \ {f}
    /\ policiesRead' = IF policyContents[f].parses
                       THEN Joined(policiesRead, UnmarshalPolicies(f, policyContents[f]))
                       ELSE policiesRead
    /\ UNCHANGED <<policyContents, loaded, sentPolicies, serviceVars>>

\* Both the loader and the agent's handler organize.
HandOverPolicies ==
    /\ policiesTodo = {}
    /\ loaded' = Organize(policiesRead)
    /\ sentPolicies' = Organize(loaded')
    /\ policiesTodo' = None
    /\ policiesRead' = NoPolicies
    /\ UNCHANGED <<policyContents, serviceVars>>

\* Somebody edits a file and FileContentLoader calls back with all contents.
PolicyCallback(f) == \E content \in PolicyContents :
    /\ policiesTodo = None
    /\ policyContents' = [policyContents EXCEPT ![f] = content]
    /\ policiesTodo' = DOMAIN policyContents
    /\ UNCHANGED <<policiesRead, loaded, sentPolicies, serviceVars>>

-----------------------------------------------------------------------------
\* The service loader.

\* The files of this callback are merged in the order they come.
ReadServiceFile(f) == \E dns \in DNS :
    /\ servicesTodo # None /\ f \in servicesTodo
    /\ servicesTodo' = servicesTodo \ {f}
    /\ dnsOf' = [dnsOf EXCEPT ![f] = dns]
    /\ entriesRead' = IF serviceContents[f].parses
                      THEN MergeEntries(entriesRead,
                               ConvertEntries(ValidItems(serviceContents[f]), {}, dns))
                      ELSE entriesRead
    /\ UNCHANGED <<serviceContents, sentServices, policyVars>>

HandOverServices ==
    /\ servicesTodo = {}
    /\ sentServices' = entriesRead
    /\ servicesTodo' = None
    /\ entriesRead' = NoEntries
    /\ UNCHANGED <<serviceContents, dnsOf, policyVars>>

ServiceCallback(f) == \E content \in ServiceContents :
    /\ servicesTodo = None
    /\ serviceContents' = [serviceContents EXCEPT ![f] = content]
    /\ servicesTodo' = DOMAIN serviceContents
    /\ UNCHANGED <<entriesRead, sentServices, dnsOf, policyVars>>

-----------------------------------------------------------------------------
\* The first callbacks run with the files as they are.  The loaders share no
\* state: one directory has files, the other may have none.
NoFiles == [f \in {} |-> None]

Init ==
    /\ \/ policyContents \in [PolicyFiles -> PolicyContents] /\ serviceContents = NoFiles
       \/ policyContents = NoFiles /\ serviceContents \in [ServiceFiles -> ServiceContents]
    /\ policiesTodo = DOMAIN policyContents
    /\ policiesRead = NoPolicies
    /\ loaded = None
    /\ sentPolicies = None
    /\ servicesTodo = DOMAIN serviceContents
    /\ entriesRead = NoEntries
    /\ sentServices = None
    /\ dnsOf = [f \in DOMAIN serviceContents |-> None]

Next ==
    \/ \E f \in DOMAIN policyContents : ReadPolicyFile(f) \/ PolicyCallback(f)
    \/ HandOverPolicies
    \/ \E f \in DOMAIN serviceContents : ReadServiceFile(f) \/ ServiceCallback(f)
    \/ HandOverServices

Spec == Init /\ [][Next]_vars

-----------------------------------------------------------------------------
\* Properties.

Sent == policiesTodo = None /\ sentPolicies # None

\* The files a callback should have taken policies from.
Parsed(contents) == {f \in DOMAIN contents : contents[f].parses}

ValidBodies(content) == {item.body : item \in {i \in ToSet(content.items) : i.valid}}

\* A policy as its file says it, with the template rendered.
Written(f, n) == Execute(policyContents[f], policyContents[f].policies[n])

\* The lists of a table: the table itself and the egress sections.
Sections(table) == {table.top} \cup {table.policies[p].egress : p \in DOMAIN table.policies}

\* The same names in another order, each as often when none comes twice.
Rearranged(list, written) == Len(list) = Len(written) /\ ToSet(list) = ToSet(written)

\* Whatever the order of the files, one that does not parse, one whose template
\* does not render or an item that is not valid costs nothing but itself
\* (policy/file_loader.go:77-88, :103-124): the kernel module gets every valid
\* policy of every readable file once, with its own egress policies, and nothing
\* of what earlier callbacks read.
NothingElseIsLost ==
    Sent => /\ IsInjective(sentPolicies.top)
            /\ ToSet(sentPolicies.top) =
                  UNION {{f} \X ValidBodies(policyContents[f]) : f \in Parsed(policyContents)}
            /\ \A f \in Parsed(policyContents) : \A n \in DOMAIN policyContents[f].policies :
                  LET sent == sentPolicies.policies[<<f, n>>] IN
                      /\ sent.id = Written(f, n).certificate
                      /\ sent.connection = Written(f, n).connection
                      /\ Rearranged(sent.egress, In(f, Written(f, n).egress))

\* No policy stands directly behind one that is only more general.
InOrder(policies, list) == \A i \in 2 .. Len(list) :
    MoreSpecific(policies[list[i]], policies[list[i-1]]) =>
        MoreSpecific(policies[list[i-1]], policies[list[i]])

\* The order of the table and of every egress section.  The comparison
\* (policy.go:53-68) is no strict weak order, and this is as far as the sort goes:
\* between the two there may be a policy that compares to neither.
SpecificFirst ==
    Sent => \A list \in Sections(sentPolicies) : InOrder(sentPolicies.policies, list)

\* The second Organize, of the agent's handler (agent.go:257), leaves the order the
\* loader's made of a section alone, unless two policies in it are each more
\* specific than the other, which policies with several selectors can be.
Settled(policies, list) == \A i, j \in DOMAIN list :
    ~ /\ MoreSpecific(policies[list[i]], policies[list[j]])
      /\ MoreSpecific(policies[list[j]], policies[list[i]])

SecondSortChangesNothing ==
    Sent => /\ Settled(loaded.policies, loaded.top) => sentPolicies.top = loaded.top
            /\ \A p \in DOMAIN loaded.policies :
                  Settled(loaded.policies, loaded.policies[p].egress) =>
                      sentPolicies.policies[p].egress = loaded.policies[p].egress

\* All labels the written policies mention.
Mentioned ==
    LET selectors == UNION {UNION {Written(f, n).selectors : n \in DOMAIN policyContents[f].policies} :
                               f \in Parsed(policyContents)}
    IN  UNION {UNION {{LabelText(k, Text(v)) : v \in s[k]} : k \in DOMAIN s} : s \in selectors}

\* What a written selector asks of a process: for every field one of its values.
MeantFor(selector, labels) == \A k \in DOMAIN selector :
    \E v \in selector[k] : LabelText(k, Text(v)) \in labels

\* Conditions that have no case in getValueForKind (convert.go:67-82) are dropped,
\* so the claim is about selectors with numbers and strings; a field of a list
\* without values is dropped as well.
Convertible(selector) == \A k \in DOMAIN selector :
    /\ selector[k] # {}
    /\ \A v \in selector[k] : v.kind \in {"number", "string"}

\* A policy, of the table or of an egress section, applies to exactly the processes
\* its selectors are written for, through lists and their permutations
\* (convert.go:103-137).
AppliesAsWritten ==
    Sent => \A f \in Parsed(policyContents) : \A n \in DOMAIN policyContents[f].policies :
        (\A s \in Written(f, n).selectors : Convertible(s)) =>
            \A labels \in SUBSET Mentioned :
                Applies(sentPolicies.policies[<<f, n>>], labels) <=>
                    \E s \in Written(f, n).selectors : MeantFor(s, labels)

\* The policy generate-policy writes for a process (generate_policy.go:113-174)
\* comes back from file, loader and conversion as one that applies to the process,
\* whose labels the kernel module knows from the augment command, and to no
\* process that shares none of its labels of a wanted name.  A value that looks like
\* a template is excepted: the loader, which takes the printed policy for one as
\* well, asks for the value it renders to.
GeneratedPolicyApplies ==
    Sent => \A f \in Parsed(policyContents) : \A n \in DOMAIN policyContents[f].policies :
        \A labels \in Processes :
            LET sent   == sentPolicies.policies[<<f, n>>]
                wanted == {l \in ToSet(labels) : l.name \in Wanted}
            IN  /\ policyContents[f].policies[n] \in GeneratedPolicy(labels, Wanted, "generated")
                /\ \A l \in wanted : l.value # Placeholder
                => /\ Applies(sent, LabelSet(labels))
                   /\ \A other \in SUBSET LabelSet(labels) : Applies(sent, other) =>
                         \A l \in wanted : \E m \in wanted :
                             m.name = l.name /\ LabelText(m.name, m.value) \in other

\* camblet.d/policies/ci.yaml:18-22 writes a policy for "local nginx in docker": what
\* has a selector with that condition applies to no process without the label.
EveryConditionCounts ==
    Sent => \A f \in Parsed(policyContents) : \A n \in DOMAIN policyContents[f].policies :
        \A labels \in SUBSET Mentioned :
            Applies(sentPolicies.policies[<<f, n>>], labels) =>
                \E s \in Written(f, n).selectors : MeantFor(s, labels)

\* Addresses a host has, as far as the lookups said.  (An IPv6 address is written
\* in vain: resolveAddress cannot split it, service/convert.go:111-115.)
AddressesOf(host, dns) ==
    CASE host.kind = "ip4"  -> {host.addr}
      [] host.kind = "ip6"  -> {}
      [] host.kind = "name" -> dns.ip4[host.name] \cup dns.ip[host.name]

\* Where a service is, and the services of all files that are there.
KeysOf(service, dns) == UNION {{AddressToString(addr, a.port) : addr \in AddressesOf(a.host, dns)} :
                                  a \in ToSet(service.addresses)}

LabelsAt(key) ==
    UNION {UNION {s.labels : s \in {t \in ValidBodies(serviceContents[f]) : key \in KeysOf(t, dnsOf[f])}} :
              f \in Parsed(serviceContents)}

\* The service table is that of the files of this callback and of no other: under
\* every address a lookup returned, and with the labels of all services there,
\* whatever the order of the files and whichever lookup failed.  (Only the IPv6
\* loopback address may be there besides, convert.go:145-148.)
ServicesAsListed ==
    servicesTodo = None /\ sentServices # None =>
        /\ \A key \in DOMAIN sentServices :
              key[1] # Loopback6 => sentServices[key] = LabelsAt(key)
        /\ \A f \in Parsed(serviceContents) : \A s \in ValidBodies(serviceContents[f]) :
              s.labels # {} => \A key \in KeysOf(s, dnsOf[f]) :
                  key \in DOMAIN sentServices /\ s.labels \subseteq sentServices[key]
=============================================================================
