------------------------------ MODULE Services ------------------------------
(***************************************************************************)
(* internal/service: the services people list, with host names or          *)
(* addresses, become a map from network addresses to labels.               *)
(*                                                                         *)
(* A listed service is a record of its labels and addresses, an address a  *)
(* record of host, port and tags.  A host is [kind |-> "ip4" or "ip6",     *)
(* addr |-> an address] or [kind |-> "name", name |-> ...]; an address is  *)
(* [family |-> "4", "6" or "4in6", ip |-> ...].  dns says what the two     *)
(* lookups of a name return during one load, {} when they fail.            *)
(***************************************************************************)
EXTENDS Naturals, SequencesExt

Loopback  == "loopback"
Loopback6 == [family |-> "6", ip |-> Loopback]

\* A host and its port are joined with a colon and split at it again, which
\* fails for an address that has colons of its own.  The lookup of all addresses
\* may return those of version 4 in either form.
ResolveAddress(host, dns) ==
    CASE host.kind = "ip4"  -> {host.addr}
      [] host.kind = "ip6"  -> {}
      [] host.kind = "name" ->
            dns.ip4[host.name] \cup dns.ip[host.name]
            \cup {Loopback6 : a \in {b \in dns.ip[host.name] :
                                        b.family = "4in6" /\ b.ip = Loopback}}

\* Without tags to select by, as in the agent, every address counts.
FilterAddressByTag(address, withTags) ==
    address.tags = {} \/ withTags = {} \/ address.tags \cap withTags # {}

AddressToString(addr, port) == IF port = 0 THEN <<addr>> ELSE <<addr, port>>

\* Labels are appended to an entry that is there.
\* Mutant: they replace it.
MergeEntriesReplacing(l, r) == r @@ l

MergeEntries(l, r) ==
    [k \in DOMAIN l \cup DOMAIN r |->
        (IF k \in DOMAIN l THEN l[k] ELSE {}) \cup (IF k \in DOMAIN r THEN r[k] ELSE {})]

NoEntries == [k \in {} |-> {}]

\* What one address of a service adds.
EntriesOf(service, address, withTags, dns) ==
    IF service.labels # {} /\ FilterAddressByTag(address, withTags)
    THEN [k \in {AddressToString(a, address.port) :
                    a \in ResolveAddress(address.host, dns)} |-> service.labels]
    ELSE NoEntries

\* The inner and the outer loop of ConvertEntries.
MergeAddresses(entries, service, withTags, dns) ==
    LET merged[j \in 0 .. Len(service.addresses)] ==
            IF j = 0 THEN entries
            ELSE MergeEntries(merged[j-1],
                              EntriesOf(service, service.addresses[j], withTags, dns))
    IN  merged[Len(service.addresses)]

ConvertEntries(services, withTags, dns) ==
    LET merged[i \in 0 .. Len(services)] ==
            IF i = 0 THEN NoEntries
            ELSE MergeAddresses(merged[i-1], services[i], withTags, dns)
    IN  merged[Len(services)]
=============================================================================
