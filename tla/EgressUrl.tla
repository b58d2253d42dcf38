----------------------------- MODULE EgressUrl -----------------------------
(***************************************************************************)
(* From a policy and a URL to the address a connection is made to: the     *)
(* authorities of EgressPolicy (egressweave.policy), the validation of a   *)
(* URL and of the addresses its name resolves to, the signed result, its   *)
(* revalidation when a client is built, perhaps under another policy       *)
(* (egressweave.validation), the comparison of each request with the       *)
(* pinned authority (egressweave.transport), and the record of a decision  *)
(* for an audit (egressweave.decision_evidence).                           *)
(*                                                                         *)
(* A spelling of a host is [name, dots]: what normalisation makes of it    *)
(* but for the dots it ends in, and their number.  A URL is                *)
(*   text    "plain", "blank" (None or only spaces) or "garbled"           *)
(*   scheme  as spelled                                                    *)
(*   host    a spelling                                                    *)
(*   port    a number, or NoPort                                           *)
(*   extra   "userinfo", "query" (or a fragment), or "none" of them        *)
(* An address is [ip, form]: the address and how the resolver spells it.   *)
(***************************************************************************)
EXTENDS Integers, Sequences, FiniteSets, SequencesExt

CONSTANTS
    Kind,      \* what each name is: "dev" for the names of RFC 6761, "label"
               \* for one label, "dotted", "ip" for what looks like an
               \* address, "invalid" for what IDNA rejects
    Class,     \* what each ip is: "global", "loopback", "private" or "other"
    Version6,  \* the ips of version 6
    Configs,   \* configurations of a policy
    Urls,      \* URLs a program may ask for
    Answers,   \* answers of the resolver
    Forgeries  \* addresses that may be written into a result from outside

NoPort == -1

ASSUME UrlsAssumption ==
    Urls \subseteq [text   : {"plain", "blank", "garbled"},
                    scheme : STRING,
                    host   : [name : DOMAIN Kind, dots : Nat],
                    port   : Nat \cup {NoPort},
                    extra  : {"userinfo", "query", "none"}]

\* An answer is a sequence.
ASSUME AnswersAssumption == \A answer \in Answers : answer \in Seq(ToSet(answer))

\* A single trailing dot is the root's; more, and IDNA refuses the name.
Canonicalises(host) == Kind[host.name] # "invalid" /\ host.dots <= 1

\* The fallback for a name IDNA refuses strips the dots all the same.
NormalizeHost(host) == host.name
-----------------------------------------------------------------------------
(* The policy *)

Product(c) == {<<NormalizeHost(h), p>> : h \in c.hosts, p \in c.ports}

Exact(host) == Canonicalises(host) /\ Kind[NormalizeHost(host)] # "ip"

\* The hosts and ports beside given pairs are nothing but their projections.
Projected(c) == /\ {NormalizeHost(h) : h \in c.hosts} = {a[1] : a \in c.pairs}
                /\ c.ports = {a[2] : a \in c.pairs}

\* Mutant: hosts and ports are combined whatever their number.
ConfigAllowedAnyProduct(c) ==
    /\ \A h \in c.hosts : Exact(h)
    /\ c.pairs # {} => Projected(c)

\* Construction fails for a name that could not be matched exactly, and for
\* several hosts with several ports unless the pairs are given.
ConfigAllowed(c) ==
    /\ \A h \in c.hosts : Exact(h)
    /\ IF c.pairs # {} THEN Projected(c)
       ELSE \A a, b \in Product(c) : a[1] = b[1] \/ a[2] = b[2]

\* from_authorities gives pairs, from_hosts hosts and ports.
PolicyOf(c) == [authorities  |-> IF c.pairs # {} THEN c.pairs ELSE Product(c),
                allowLocal   |-> c.allowLocal,
                maxAddresses |-> c.maxAddresses]

AllowedHosts(policy) == {a[1] : a \in policy.authorities}

LocalLabel(name, policy) == /\ policy.allowLocal
                            /\ name \in AllowedHosts(policy)
                            /\ Kind[name] = "label"
-----------------------------------------------------------------------------
(* The URL *)

Scheme(u) == IF u.scheme = "HTTPS" THEN "https" ELSE u.scheme

EffectivePort(u) == CASE u.port # NoPort -> u.port
                      [] u.port = NoPort /\ Scheme(u) = "https" -> 443
                      [] OTHER -> 80

UrlAllowed(u, policy) ==
    LET name == NormalizeHost(u.host)
    IN  /\ u.text = "plain"
        /\ Scheme(u) \in {"http", "https"}
        /\ Kind[name] = "dev" => policy.allowLocal
        /\ Scheme(u) = "http" => Kind[name] = "dev" \/ LocalLabel(name, policy)
        /\ u.extra = "none"
        /\ <<name, EffectivePort(u)>> \in policy.authorities
        /\ Kind[name] # "ip"

\* Mutant: only the port that is not the scheme's own is kept.
NormalizedNoPort(u) == [u EXCEPT !.scheme = Scheme(u), !.port = NoPort,
                                 !.host = [name |-> NormalizeHost(u.host), dots |-> 0]]

\* An explicit port stays explicit.
Normalized(u) == [u EXCEPT !.scheme = Scheme(u),
                           !.host = [name |-> NormalizeHost(u.host), dots |-> 0]]
-----------------------------------------------------------------------------
(* The addresses *)

AddressAllowed(ip, name, policy) ==
    CASE Kind[name] = "dev"       -> policy.allowLocal /\ Class[ip] = "loopback"
      [] LocalLabel(name, policy) -> Class[ip] \in {"loopback", "private"}
      [] OTHER                    -> Class[ip] = "global"

\* Each ip once, where it came first.
Unique(ips) ==
    LET kept[i \in 0..Len(ips)] ==
            IF i = 0 THEN <<>>
            ELSE IF ips[i] \in ToSet(kept[i - 1]) THEN kept[i - 1]
            ELSE Append(kept[i - 1], ips[i])
    IN  kept[Len(ips)]

\* Mutant: an answer may have any number of addresses.
AddressesAllowedAnyNumber(ips, name, policy) ==
    \A i \in DOMAIN ips : AddressAllowed(ips[i], name, policy)

\* One wrong address, or one too many, and the answer is refused whole.
AddressesAllowed(ips, name, policy) ==
    /\ \A i \in DOMAIN ips : AddressAllowed(ips[i], name, policy)
    /\ Len(Unique(ips)) <= policy.maxAddresses

Ips(answer) == [i \in DOMAIN answer |-> answer[i].ip]
-----------------------------------------------------------------------------
(* The signed result *)

\* The signature is a function of the four fields that only the module knows.
Result(u, ips) == LET fields == <<Normalized(u), NormalizeHost(u.host), EffectivePort(u), Unique(ips)>>
                  IN  [url |-> fields[1], hostname |-> fields[2], port |-> fields[3],
                       addresses |-> fields[4], signature |-> fields]

Genuine(result) ==
    result.signature = <<result.url, result.hostname, result.port, result.addresses>>

\* Mutant: addresses that were valid once are not looked at again.
RevalidatesTrusting(result, policy) ==
    /\ Genuine(result)
    /\ UrlAllowed(result.url, policy)
    /\ Normalized(result.url) = result.url
    /\ NormalizeHost(result.url.host) = result.hostname
    /\ EffectivePort(result.url) = result.port

\* _revalidate_pinned_egress_url: the signature, then everything once more.
Revalidates(result, policy) ==
    /\ Genuine(result)
    /\ UrlAllowed(result.url, policy)
    /\ Normalized(result.url) = result.url
    /\ NormalizeHost(result.url.host) = result.hostname
    /\ EffectivePort(result.url) = result.port
    /\ AddressesAllowed(result.addresses, result.hostname, policy)
-----------------------------------------------------------------------------
(* The record of a decision.  A digest stands for what it is taken of.     *)

\* Mutant: hosts and ports enter the digest apart, as they are configured.
PolicyFingerprintApart(policy) ==
    [hosts |-> AllowedHosts(policy), ports |-> {a[2] : a \in policy.authorities},
     allowLocal |-> policy.allowLocal, maxAddresses |-> policy.maxAddresses]

PolicyFingerprint(policy) ==
    [authorities |-> policy.authorities, allowLocal |-> policy.allowLocal,
     maxAddresses |-> policy.maxAddresses]
-----------------------------------------------------------------------------
VARIABLES
    config,    \* the configuration of the policy in force
    result,    \* the last result of a validation
    origin,    \* history: the configuration, URL and answer it came from
    client,    \* the pinned client: its result, the configuration it was built
               \* with, and the history of its result
    contacted, \* where the request of the last step went, if it was one
    record     \* the decision record that the last step built, likewise

vars == <<config, result, origin, client, contacted, record>>

Nothing == [nothing |-> TRUE]

Init == /\ config \in {c \in Configs : ConfigAllowed(c)}
        /\ result = Nothing
        /\ origin = Nothing
        /\ client = Nothing
        /\ contacted = Nothing
        /\ record = Nothing

NothingDone == contacted' = Nothing /\ record' = Nothing

\* The program builds another policy; one that is refused changes nothing.
Configure(c) == /\ ConfigAllowed(c)
                /\ config' = c
                /\ NothingDone
                /\ UNCHANGED <<result, origin, client>>

\* validate_egress_url_details, resolution included; None and denial alike
\* leave the program without a result.
Validate(u, answer) ==
    /\ IF /\ UrlAllowed(u, PolicyOf(config))
          /\ answer # <<>>
          /\ AddressesAllowed(Ips(answer), NormalizeHost(u.host), PolicyOf(config))
       THEN /\ result' = Result(u, Ips(answer))
            /\ origin' = [config |-> config, url |-> u, answer |-> answer]
       ELSE result' = Nothing /\ origin' = Nothing
    /\ NothingDone
    /\ UNCHANGED <<config, client>>

\* object.__setattr__ reaches the fields of a frozen result.
Overwrite(ips) == /\ result # Nothing
                  /\ result' = [result EXCEPT !.addresses = ips]
                  /\ NothingDone
                  /\ UNCHANGED <<config, origin, client>>

\* The transport is built, under the policy of now.
Pin == /\ result # Nothing
       /\ Revalidates(result, PolicyOf(config))
       /\ client' = [result |-> result, config |-> config, origin |-> origin]
       /\ NothingDone
       /\ UNCHANGED <<config, result, origin>>

\* A request whose authority is the pinned one goes to a pinned address.
Request(u) ==
    /\ client # Nothing
    /\ u.extra # "userinfo"
    /\ Scheme(u) = client.result.url.scheme
    /\ NormalizeHost(u.host) = client.result.hostname
    /\ EffectivePort(u) = client.result.port
    /\ \E i \in DOMAIN client.result.addresses :
           contacted' = [host |-> NormalizeHost(u.host), port |-> EffectivePort(u),
                         scheme |-> Scheme(u), ip |-> client.result.addresses[i]]
    /\ record' = Nothing
    /\ UNCHANGED <<config, result, origin, client>>

\* build_egress_decision_evidence, under the policy of now; what does not pass
\* again leaves no record.
BuildEvidence ==
    /\ result # Nothing
    /\ Revalidates(result, PolicyOf(config))
    /\ LET six == {i \in DOMAIN result.addresses : result.addresses[i] \in Version6}
       IN  record' = [authority |-> <<result.hostname, result.port>>,
                      count  |-> Len(result.addresses),
                      ipv4   |-> Cardinality(DOMAIN result.addresses \ six),
                      ipv6   |-> Cardinality(six),
                      policy |-> PolicyFingerprint(PolicyOf(config))]
    /\ contacted' = Nothing
    /\ UNCHANGED <<config, result, origin, client>>

Next == \/ \E c \in Configs : Configure(c)
        \/ \E u \in Urls, answer \in Answers : Validate(u, answer)
        \/ \E ips \in Forgeries : Overwrite(ips)
        \/ Pin
        \/ \E u \in Urls : Request(u)
        \/ BuildEvidence

Spec == Init /\ [][Next]_vars
-----------------------------------------------------------------------------
(* Properties *)

\* What the operator wrote down: a pair, or a host and a port of which at most
\* one had alternatives.
Listed(c, host, port) ==
    IF c.pairs # {} THEN <<host, port>> \in c.pairs
    ELSE /\ host \in {h.name : h \in c.hosts}
         /\ port \in c.ports
         /\ {h.name : h \in c.hosts} = {host} \/ c.ports = {port}

\* Every connection goes to a host and a port that the operator of the client's
\* policy listed together, in clear only if the host is a local one.
OnlyListedAuthorities ==
    contacted # Nothing =>
        /\ Listed(client.config, contacted.host, contacted.port)
        /\ contacted.scheme = "http" => Kind[contacted.host] \in {"dev", "label"}

\* Whatever policy the result was issued under, a connection goes to an address
\* outside the global network only for a local name, and only if the client's
\* own policy allows that; a local development name never leaves the machine.
AddressFitsHost ==
    contacted # Nothing =>
        LET class == Class[contacted.ip]
            kind == Kind[contacted.host]
        IN  /\ class # "other"
            /\ class = "global" => kind # "dev"
            /\ class = "loopback" => client.config.allowLocal /\ kind \in {"dev", "label"}
            /\ class = "private" => client.config.allowLocal /\ kind = "label"

\* The addresses of a client are those the resolver gave, all of them, each
\* once and in its order, and not more than the client's policy allows: they
\* are never cut, completed, or replaced on the way.
PinnedAsResolved ==
    client # Nothing =>
        LET addresses == client.result.addresses
        IN  /\ addresses # <<>> /\ Len(addresses) <= client.config.maxAddresses
            /\ IsInjective(addresses)
            /\ ToSet(addresses) = {a.ip : a \in ToSet(client.origin.answer)}
            /\ \A i, j \in DOMAIN addresses : i < j =>
                   SelectInSeq(client.origin.answer, LAMBDA a : a.ip = addresses[i])
                       < SelectInSeq(client.origin.answer, LAMBDA a : a.ip = addresses[j])

\* Revalidation is no second opinion: under the policy that issued it, a result
\* nobody touched always passes, so that normalising a URL is idempotent.
GenuineResultsPass ==
    result # Nothing /\ config = origin.config /\ Genuine(result)
        => Revalidates(result, PolicyOf(config))

\* A record stands up in an audit: it counts the addresses the resolver gave
\* for the URL, each once and each of one version, and any configuration whose
\* policy has the recorded fingerprint lists the recorded authority and allows
\* that URL and that answer.
RecordsStandUp ==
    record # Nothing =>
        LET answer == origin.answer
            host == record.authority[1]
            port == record.authority[2]
        IN  /\ record.count = Cardinality({a.ip : a \in ToSet(answer)})
            /\ record.ipv6 = Cardinality({a.ip : a \in ToSet(answer)} \cap Version6)
            /\ record.ipv4 + record.ipv6 = record.count
            /\ \A c \in Configs :
                   ConfigAllowed(c) /\ PolicyFingerprint(PolicyOf(c)) = record.policy =>
                       /\ Listed(c, host, port)
                       /\ UrlAllowed(origin.url, PolicyOf(c))
                       /\ AddressesAllowed(Ips(answer), host, PolicyOf(c))

\* A host name that IDNA rejects matches no entry of a policy.
InvalidNamesMatchNothing == origin # Nothing => Canonicalises(origin.url.host)
=============================================================================
