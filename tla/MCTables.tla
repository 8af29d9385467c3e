------------------------------ MODULE MCTables ------------------------------
(***************************************************************************)
(* A small instance of Tables for TLC: policies that compare in every way, *)
(* selectors with every kind of value, a process with two groups, services *)
(* that share an address.                                                  *)
(***************************************************************************)
EXTENDS Tables

Number(n) == [kind |-> "number", halves |-> 2 * n]
String(t) == [kind |-> "string", text |-> t]
True      == [kind |-> "bool", text |-> "true"]

\* A policy as it stands in a file, with its egress policies in it.
Policy(certificate, selectors, connection, egress) ==
    [certificate |-> certificate, selectors |-> selectors,
     connection |-> connection, egress |-> egress]

General  == Policy("general", {[uid |-> {Number(1), Number(2)}]}, "strict", <<>>)
Specific == Policy("specific", {[uid |-> {Number(1)}, name |-> {String("curl")}]}, "strict", <<>>)
Others   == Policy("others", {[port |-> {Number(80)}]}, Placeholder, <<>>)
\* Its selectors and those of Specific and General are more specific both ways.
Twofold  == Policy("twofold", {[port |-> {Number(80)}, uid |-> {Number(1)}],
                               [name |-> {String("curl")}]}, "strict", <<>>)
Nested   == Policy("nested", {[name |-> {String("wget")}]}, Placeholder,
                   <<General, Others, Specific>>)
Tangled  == Policy("tangled", {[name |-> {String("wget")}]}, "strict", <<Twofold, Specific>>)
Domain   == Policy("domain", {[uid |-> {Number(1)}, name |-> {String(Placeholder), String("curl")}]},
                   "strict", <<>>)
Lists    == Policy("lists", {[uid  |-> {Number(1), String("2")},
                              name |-> {String("curl"), String("wget")},
                              port |-> {Number(80), Number(81)}]}, "strict", <<>>)

\* camblet.d/policies/ci.yaml:18-22.
NginxInDocker ==
    Policy("nginx", {[uid |-> {Number(101)}, name |-> {String("nginx")}, docker |-> {True}]},
           "strict", <<>>)

Shell == <<[name |-> "uid", value |-> "1"], [name |-> "gid", value |-> "1"],
           [name |-> "gid", value |-> "2"], [name |-> "path", value |-> "sh"]>>
Odd   == <<[name |-> "uid", value |-> Placeholder]>>
MCProcesses == {Shell, Odd}
MCWanted    == {"uid", "gid"}
Generated(labels) == CHOOSE p \in GeneratedPolicy(labels, MCWanted, "generated") : TRUE

Item(body)  == [valid |-> TRUE, body |-> body]
InvalidItem == [valid |-> FALSE, body |-> General]
Content(items) == [parses |-> TRUE, items |-> items]

\* The i-th item gets the name <<i>>, its j-th egress policy the name <<i, j>>.
PolicyContent(items) ==
    LET egress(i) == items[i].body.egress
        nested    == UNION {{<<i, j>> : j \in DOMAIN egress(i)} : i \in DOMAIN items}
        policy(n) == IF Len(n) = 1 THEN items[n[1]].body ELSE egress(n[1])[n[2]]
    IN  [parses   |-> TRUE,
         renders  |-> TRUE,
         items    |-> [i \in DOMAIN items |-> [items[i] EXCEPT !.body = <<i>>]],
         policies |-> [n \in {<<i>> : i \in DOMAIN items} \cup nested |->
                         [policy(n) EXCEPT !.egress = [j \in DOMAIN @ |-> Append(n, j)]]]]

\* Up to two policies in a file, and what may go wrong with one.
MCPolicyContents ==
    {[PolicyContent(<<>>) EXCEPT !.parses = FALSE],
     PolicyContent(<<Item(General), InvalidItem, Item(Specific)>>),
     [PolicyContent(<<Item(Others), Item(Nested)>>) EXCEPT !.renders = FALSE],
     PolicyContent(<<Item(Lists)>>), PolicyContent(<<Item(Nested)>>),
     PolicyContent(<<Item(Tangled)>>), PolicyContent(<<Item(Others)>>),
     PolicyContent(<<Item(Domain)>>), PolicyContent(<<Item(Generated(Odd))>>),
     PolicyContent(<<Item(Generated(Shell)), Item(General)>>)}
    \cup {PolicyContent(<<Item(p), Item(q)>>) : p, q \in {General, Specific, Twofold}}

DockerContents ==
    {PolicyContent(<<Item(p), Item(NginxInDocker)>>) : p \in {General, Lists, Twofold}}

TwoFiles == {"a.yaml", "b.yaml"}
NoNames  == {}

Address(host, port) == [host |-> host, port |-> port, tags |-> {}]
V4(ip)    == [family |-> "4", ip |-> ip]
Home      == [kind |-> "ip4", addr |-> V4("home")]
Home6     == [kind |-> "ip6", addr |-> [family |-> "6", ip |-> "home"]]
Local     == [kind |-> "name", name |-> "localhost"]
Service(labels, addresses) == [labels |-> labels, addresses |-> addresses]

Web == Service({"app=web"}, <<Address(Home, 80), Address(Local, 80)>>)
Api == Service({"app=api"}, <<Address(Home, 80), Address(Home6, 80)>>)
Dev == Service({"app=dev"}, <<Address(Local, 80), Address(Home, 81)>>)

MCServiceContents ==
    {[Content(<<>>) EXCEPT !.parses = FALSE],
     Content(<<Item(Web), [valid |-> FALSE, body |-> Api], Item(Dev)>>)}
    \cup {Content(<<Item(s)>>) : s \in {Web, Api, Dev}}

Resolver(ip4, ip) == [ip4 |-> [n \in {"localhost"} |-> ip4], ip |-> [n \in {"localhost"} |-> ip]]
MCDNS ==
    {Resolver({V4(Loopback)}, {[family |-> "4in6", ip |-> Loopback], Loopback6}),
     Resolver({V4(Loopback)}, {}), Resolver({}, {V4(Loopback)}), Resolver({}, {})}
=============================================================================
