------------------------------ MODULE Policies ------------------------------
(***************************************************************************)
(* internal/policy: what the agent makes of the policies people write.     *)
(* Convert turns the structured selectors of a policy into label sets, the *)
(* form the kernel module compares with a process; Organize puts the       *)
(* policies into the order in which the kernel module gets them.  The      *)
(* generate-policy command goes the other way, from the labels of a        *)
(* process to a policy.                                                    *)
(*                                                                         *)
(* Policies are reached through pointers, from a list or from the egress   *)
(* list of another one; here a list holds names, and a map says which      *)
(* policy has which name.  A written policy is a record of its selectors,  *)
(* certificate, connection and egress list.  A selector maps field names   *)
(* to values, a value is the set of its scalars (one, or those of a list   *)
(* and of the lists in it).  Numbers are kept in halves: they are rounded  *)
(* when converted.                                                         *)
(***************************************************************************)
EXTENDS Naturals, SequencesExt

-----------------------------------------------------------------------------
\* convert.go.

\* fmt's %0.0f rounds a half to the even neighbour.
Rounded(halves) == LET n == halves \div 2 IN
    IF halves % 2 = 1 /\ n % 2 = 1 THEN n + 1 ELSE n

Text(scalar) == IF scalar.kind = "number" THEN ToString(Rounded(scalar.halves))
                                          ELSE scalar.text

\* Only numbers and strings have a case.
ValueForKind(value) ==
    {Text(scalar) : scalar \in {v \in value : v.kind \in {"number", "string"}}}

LabelText(name, text) == name \o "=" \o text

\* One array of labels per field that has any; Go visits the fields in no fixed
\* order, which only orders the result.
FlattenAndStringify(selector) ==
    LET fields == SetToSeq({k \in DOMAIN selector : ValueForKind(selector[k]) # {}})
    IN  [i \in DOMAIN fields |->
            SetToSeq({LabelText(fields[i], text) : text \in ValueForKind(selector[fields[i]])})]

\* The odometer of makeArrayPermutations: the last index that can go up does,
\* those behind it start again.
Indices(arrays) ==
    {indices \in [DOMAIN arrays -> Nat] : \A i \in DOMAIN arrays : indices[i] \in DOMAIN arrays[i]}

Movable(arrays, indices) == {i \in DOMAIN arrays : indices[i] < Len(arrays[i])}

\* Mutant: those behind it stay.
AdvanceOne(arrays, indices) ==
    [indices EXCEPT ![Max(Movable(arrays, indices))] = @ + 1]

Advance(arrays, indices) ==
    LET next == Max(Movable(arrays, indices))
    IN  [i \in DOMAIN arrays |-> IF i < next THEN indices[i]
                                 ELSE IF i = next THEN indices[i] + 1 ELSE 1]

Row(arrays, indices) == [i \in DOMAIN arrays |-> arrays[i][indices[i]]]

\* The rows the loop adds from these indices on, until none can go up.
MakeArrayPermutations(arrays) ==
    LET rows[indices \in Indices(arrays)] ==
            {Row(arrays, indices)}
            \cup (IF Movable(arrays, indices) = {} THEN {}
                  ELSE rows[Advance(arrays, indices)])
    IN  rows[[i \in DOMAIN arrays |-> 1]]

ConvertSelector(selector) ==
    {ToSet(row) : row \in MakeArrayPermutations(FlattenAndStringify(selector))}

\* The ID is a hash of the certificate section.
ConvertPolicy(raw) ==
    [id          |-> raw.certificate,
     selectors   |-> UNION {ConvertSelector(s) : s \in raw.selectors},
     connection  |-> raw.connection,
     egress      |-> raw.egress]

-----------------------------------------------------------------------------
\* policy.go.

IsMapSubset(m, sub) == sub \subseteq m

\* The comparison Organize sorts with.
MoreSpecific(p, q) == \E s \in p.selectors, t \in q.selectors :
    s # t /\ IsMapSubset(s, t)

\* Mutant: a policy also passes those it compares equal to.
InsertBefore(policies, sorted, n) ==
    LET ahead == {i \in DOMAIN sorted : MoreSpecific(policies[sorted[i]], policies[n])}
    IN  InsertAt(sorted, 1 + Max({0} \cup ahead), n)

\* sort.SliceStable on up to 20 policies: each in turn moves forward while it is
\* more specific than the one before it.
Insert(policies, sorted, n) ==
    LET stops == {i \in DOMAIN sorted : ~MoreSpecific(policies[n], policies[sorted[i]])}
    IN  InsertAt(sorted, 1 + Max({0} \cup stops), n)

SortStable(policies, list) ==
    LET sorted[k \in 0 .. Len(list)] ==
            IF k = 0 THEN <<>> ELSE Insert(policies, sorted[k-1], list[k])
    IN  sorted[Len(list)]

\* Mutant: egress policies stay as they are written.
OrganizeTop(table) == [table EXCEPT !.top = SortStable(table.policies, @)]

\* A policy's position is its index in the list, which is all that is left of the
\* assignment to it.
Organize(table) ==
    [top      |-> SortStable(table.policies, table.top),
     policies |-> [n \in DOMAIN table.policies |->
                     [table.policies[n] EXCEPT !.egress = SortStable(table.policies, @)]]]

-----------------------------------------------------------------------------
\* What the kernel module does with a policy: it applies to a process that has
\* all labels of one of its selectors.
Applies(policy, labels) == \E s \in policy.selectors : s \subseteq labels

\* The labels the augment command answers with (augment.go:91).
LabelSet(labels) == {LabelText(l.name, l.value) : l \in ToSet(labels)}

\* Mutant: the value becomes part of the name.
GeneratedFlags(labels, wanted, workload) ==
    LET chosen == {l \in ToSet(labels) : l.name \in wanted}
        flags  == {LabelText(l.name, l.value) : l \in chosen}
    IN  IF chosen = {} THEN {}
        ELSE {[selectors   |-> {[n \in flags |-> {[kind |-> "bool", text |-> "true"]}]},
               certificate |-> workload,
               connection  |-> "strict",
               egress      |-> <<>>]}

\* generate-policy: of the labels of a process, in the order the collectors give
\* them, those with a wanted name become the fields of the one selector; a later
\* label overwrites an earlier one of its name.  wanted are the names the label
\* patterns match; without such a label the command fails and prints no policy.
GeneratedPolicy(labels, wanted, workload) ==
    LET names   == {l.name : l \in ToSet(labels)} \cap wanted
        last(n) == labels[Max({i \in DOMAIN labels : labels[i].name = n})]
    IN  IF names = {} THEN {}
        ELSE {[selectors   |-> {[n \in names |-> {[kind |-> "string", text |-> last(n).value]}]},
               certificate |-> workload,
               connection  |-> "strict",
               egress      |-> <<>>]}
=============================================================================
