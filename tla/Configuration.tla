--------------------------- MODULE Configuration ---------------------------
(***************************************************************************)
(* The configuration of the agent: where a value comes from, what is       *)
(* filled in, what is refused, and which metadata collectors come of it.   *)
(* A configuration has a value, or Unset, for every option.                *)
(***************************************************************************)
EXTENDS Integers

CONSTANTS
    Unset,          \* an option that is not mentioned
    Blank,          \* one that is mentioned without a value
    Files           \* the contents of files, by their paths: "jwt", "pem" (a
                    \* certificate and a key), "garbled" (a PEM block that
                    \* cannot be parsed), "other", or "missing"

Collectors == {"sysfsdmi", "procfs", "linuxos", "azure", "ec2", "gcp",
               "docker", "kubernetes"}

\* The options of single collectors that are on or off.
Switches == Collectors \cup {"extractEnvs", "skipKubeletVerification"}

Options == Switches \cup {"trustDomain", "localAddress", "defaultCertTTL",
    "socketPath", "kubeletHost", "kubeletPort", "kubeletCA", "credentials"}

-----------------------------------------------------------------------------
\* Configure.

\* A flag on the command line goes before an environment variable and that before
\* the file, also when they are empty (AllowEmptyEnv), which switches off or leaves
\* a string empty; then comes the default of a flag, if the option has one.
Setting(option, line, env, file, flag) ==
    LET given == IF line[option] # Unset THEN line[option] ELSE env[option] IN
    IF given = Blank THEN IF option \in Switches THEN FALSE ELSE Unset
    ELSE IF given # Unset THEN given
    ELSE IF file[option] # Unset THEN file[option]
    ELSE flag[option]

Flags == [option \in Options |->
    CASE option = "trustDomain"    -> "camblet"
      [] option = "localAddress"   -> ":50600"
      [] option = "defaultCertTTL" -> "24h"
      [] OTHER                     -> Unset]

-----------------------------------------------------------------------------
\* Validate.

Fill(cfg, defaults) == [option \in Options |->
    IF cfg[option] = Unset /\ option \in DOMAIN defaults
    THEN defaults[option] ELSE cfg[option]]

AgentDefaults ==
    [trustDomain |-> "camblet", localAddress |-> ":50600", defaultCertTTL |-> "24h"]

CollectorDefaults == [procfs |-> FALSE, linuxos |-> TRUE, sysfsdmi |-> FALSE]

IsEnabled(cfg, collector) == cfg[collector] = TRUE

ProcFSDefaults == [extractEnvs |-> TRUE]

DockerDefaults == [socketPath |-> "unix:///var/run/docker.sock"]

KubernetesDefaults ==
    [kubeletHost |-> "127.0.0.1", kubeletPort |-> 10250,
     skipKubeletVerification |-> FALSE]

\* An option that is not mentioned is told from one that is.
ASSUME UnsetAssumption ==
    /\ Unset # Blank
    /\ \A defaults \in {AgentDefaults, CollectorDefaults, ProcFSDefaults,
                        DockerDefaults, KubernetesDefaults} :
          \A option \in DOMAIN defaults : defaults[option] # Unset

When(cfg, collector, defaults) ==
    IF IsEnabled(cfg, collector) THEN Fill(cfg, defaults) ELSE cfg

Validated(cfg) ==
    LET agent == Fill(Fill(cfg, AgentDefaults), CollectorDefaults)
    IN  When(When(When(agent, "procfs", ProcFSDefaults),
                  "docker", DockerDefaults),
             "kubernetes", KubernetesDefaults)

\* What an option says, or what the file holds that it names.
getContent(raw) == IF raw \in DOMAIN Files THEN Files[raw] ELSE raw

\* A token is recognised by its look, everything else is taken to be PEM, where
\* text without a PEM block is no error and no credential either.
GetCredentials(raw) ==
    LET content == getContent(raw) IN
    CASE content = Unset                  -> "none"
      [] content = "jwt"                  -> "JWT"
      [] content = "pem"                  -> "X509"
      [] content = "other"                -> "X509 without certificate"
      [] content \in {"garbled", "missing"} -> "error"

\* Validate returns an error, and Configure panics.
Refused(cfg) ==
    \/ cfg.defaultCertTTL = "unparsable"
    \/ IsEnabled(cfg, "kubernetes") /\ GetCredentials(cfg.credentials) = "error"

-----------------------------------------------------------------------------
\* GetMetadataCollector.

\* Collectors whose New makes a client, which it may not be able to.
HaveClients == {"docker", "ec2", "kubernetes"}

KubernetesInstantiates(cfg) ==
    /\ getContent(cfg.kubeletCA) # "missing"
    /\ GetCredentials(cfg.credentials) # "error"

\* A collector that cannot be instantiated is left out, without a word.
GetMetadataCollector(cfg, withoutClient) ==
    {c \in Collectors \ withoutClient :
        IsEnabled(cfg, c) /\ (c = "kubernetes" => KubernetesInstantiates(cfg))}

-----------------------------------------------------------------------------
\* Dump: what `--dump-config' prints, to be read as a configuration file.

\* Mutant: a switch that is off is taken for an option without a value.
UnsetOrOff(option, value) ==
    value = Unset \/ (option \in Switches /\ value = FALSE)

\* omitempty: empty strings and nil pointers are left out, and a switch is a
\* pointer.
Omitted(option, value) == value = Unset

Dump(cfg) == [option \in Options |->
    IF Omitted(option, cfg[option]) THEN Unset ELSE cfg[option]]
=============================================================================
