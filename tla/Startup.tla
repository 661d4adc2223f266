------------------------------ MODULE Startup ------------------------------
(***************************************************************************)
(* qcoin-node run: from the command line, the key file, the optional       *)
(* network configuration and the optional cluster manifest to the rules a  *)
(* node follows and the sockets it talks through.                          *)
(*                                                                         *)
(* A hex string is the key it spells and a spelling: "plain" is what       *)
(* to_hex writes; "upper" and "padded" differ from it in case and in       *)
(* surrounding blanks.  A key that is no hex or has the wrong length for   *)
(* every scheme has scheme "none".  An endpoint is the name it is written  *)
(* with, the URL scheme in front of it and the address it resolves to.     *)
(***************************************************************************)
EXTENDS Types, SequencesExt

CONSTANTS
    Node,
    Args,          \* for every node, the command lines (with the files they name)
    Interfaces,    \* for every node, what getifaddrs may return: Some(list) or None
    MaxGen         \* bound: keys a node generates

\* What the files and the operating system list is a list.
IsList(s) == s \in Seq(ToSet(s))
Lists(config) == IsList(config.validators) /\ IsList(config.v4) /\ IsList(config.v6)

ASSUME StartupConstants ==
    \A n \in Node :
        /\ \A ifaddrs \in Interfaces[n] : ifaddrs # None => IsList(ifaddrs[1])
        /\ \A a \in Args[n] :
              /\ IsList(a.validators) /\ IsList(a.peers)
              /\ a.manifest # None => Lists(a.manifest[1])
              /\ a.network # None => Lists(a.network[1]) /\ IsList(a.network[1].peers)

(***************************************************************************)
(* Hex strings.                                                            *)
(***************************************************************************)
Hex(key, spelling) == [key |-> key, spelling |-> spelling]
ToHex(key) == Hex(key, "plain")
Blank == "blank"   \* the spelling of an empty string, whatever its key

\* The elements of s at the positions in which, in their order.
Kept(s, which) ==
    [k \in 1..Cardinality(which) |->
        s[CHOOSE i \in which : Cardinality({j \in which : j <= i}) = k]]

\* The members of a sequence in the order of their first occurrences.
Unique(s) == Kept(s, {i \in DOMAIN s : \A j \in 1..(i - 1) : s[j] # s[i]})

Nonblank(hexes) == Kept(hexes, {i \in DOMAIN hexes : hexes[i].spelling # Blank})

\* A mutant: the blanks are trimmed, the case is kept.
MutNormalizeHexStrings(hexes) ==
    Unique([i \in DOMAIN Nonblank(hexes) |->
        [Nonblank(hexes)[i] EXCEPT !.spelling = IF @ = "upper" THEN @ ELSE "plain"]])
NormalizeHexStrings(hexes) ==
    Unique([i \in DOMAIN Nonblank(hexes) |-> ToHex(Nonblank(hexes)[i].key)])

(***************************************************************************)
(* parse_validators takes every key for one of the local scheme; keys of   *)
(* the other scheme have another length and end the start.                 *)
(***************************************************************************)
Parses(hexes, scheme) == \A i \in DOMAIN hexes : hexes[i].key.scheme = scheme
ParseValidators(hexes) == [i \in DOMAIN hexes |-> hexes[i].key]

(***************************************************************************)
(* resolve_startup_profile: the manifest's validators stand alone; without *)
(* a manifest the network configuration's come first, then the command     *)
(* line's.                                                                 *)
(***************************************************************************)
OfOption(option, default, value(_)) == IF option = None THEN default ELSE value(option[1])
ValidatorsIn(config) == config.validators

\* A mutant: the command line's validators are added to the manifest's.
MutValidatorHexes(a) ==
    NormalizeHexStrings(
        OfOption(IF a.manifest # None THEN a.manifest ELSE a.network, << >>, ValidatorsIn)
        \o a.validators)
ValidatorHexes(a) ==
    NormalizeHexStrings(
        IF a.manifest # None THEN a.manifest[1].validators
        ELSE OfOption(a.network, << >>, ValidatorsIn) \o a.validators)

DefaultChainId == 0
ChainIdIn(config) == config.chain_id
ChainId(a) == OfOption(a.manifest, DefaultChainId, ChainIdIn)

NodeIsValidator(a, key) == ToHex(key) \in ToSet(ValidatorHexes(a))

\* A mutant: a node without validators produces with a manifest, too.
MutResolveProduceMode(a, key) ==
    IF a.produce # None THEN a.produce[1]
    ELSE NodeIsValidator(a, key) \/ ValidatorHexes(a) = << >>
ResolveProduceMode(a, key) ==
    IF a.produce # None THEN a.produce[1]
    ELSE NodeIsValidator(a, key) \/ (a.manifest = None /\ ValidatorHexes(a) = << >>)

\* from_keys: without configured validators the node is its own.
EngineValidators(a, key) ==
    IF ValidatorHexes(a) = << >> THEN <<key>> ELSE ParseValidators(ValidatorHexes(a))

(***************************************************************************)
(* Multicast.  An interface candidate is an address of an interface that   *)
(* is up and multicast-capable.                                            *)
(***************************************************************************)
Unspecified(ip) == ip.n = "unspecified"

Candidates(ifaddrs) ==
    LET usable(c) == c.up /\ c.multicast /\ c.index # 0
    IN  Kept(ifaddrs[1], {i \in DOMAIN ifaddrs[1] : usable(ifaddrs[1][i])})

\* The indices of the chosen candidates, those that are not loopback first.
Preferred(candidates) ==
    LET outer == Kept(candidates, {i \in DOMAIN candidates : ~candidates[i].loopback})
        chosen == IF outer # << >> THEN outer ELSE candidates
    IN  Unique([i \in DOMAIN chosen |-> chosen[i].index])

\* The indices, or None when there are none or they cannot be listed.
ResolveInterfaces(ifaddrs, bind) ==
    LET all == Candidates(ifaddrs)
        own == Kept(all, {i \in DOMAIN all : all[i].ip = bind.ip})
        v6 == Kept(all, {i \in DOMAIN all : all[i].ip.family = 6})
    IN  IF bind.ip.family = 6 /\ bind.scope # 0 THEN Some(<<bind.scope>>)
        ELSE IF ifaddrs = None THEN None
        ELSE IF ~Unspecified(bind.ip) /\ own # << >> THEN Some(Preferred(own))
        ELSE IF v6 # << >> THEN Some(Preferred(v6)) ELSE None

V4(group, interface) == [family |-> 4, group |-> group, interface |-> interface]
V6(group, interface) == [family |-> 6, group |-> group, interface |-> interface]

\* None when an interface is needed, not found, and bestEffort does not skip it.
ExpandMulticast(ifaddrs, bind, v4, v6, bestEffort) ==
    LET found == ResolveInterfaces(ifaddrs, bind)
        interfaces(e) == IF e.interface # None THEN <<e.interface[1]>>
                         ELSE IF found # None THEN found[1] ELSE << >>
        joined(e) == [i \in DOMAIN interfaces(e) |-> V6(e.group, interfaces(e)[i])]
    IN  IF found = None /\ ~bestEffort /\ \E i \in DOMAIN v6 : v6[i].interface = None
        THEN None
        ELSE Some([i \in DOMAIN v4 |-> V4(v4[i].group, v4[i].interface)]
                  \o Unique(FlattenSeq([i \in DOMAIN v6 |-> joined(v6[i])])))

DefaultGroup == "ff02::5143:6f69:6e"

\* The configuration whose groups are joined: the first that lists any.
ExplicitMulticast(a) ==
    LET lists(option) == option # None /\ (option[1].v4 # << >> \/ option[1].v6 # << >>)
    IN  IF lists(a.network) THEN a.network
        ELSE IF lists(a.manifest) THEN a.manifest ELSE None

DefaultDisabled(a) ==
    \/ a.network # None /\ a.network[1].disable_default
    \/ a.manifest # None /\ a.manifest[1].disable_default

ResolveMulticast(ifaddrs, a) ==
    LET explicit == ExplicitMulticast(a)
    IN  IF explicit # None
        THEN ExpandMulticast(ifaddrs, a.listen.addr, explicit[1].v4, explicit[1].v6, FALSE)
        ELSE IF DefaultDisabled(a) THEN Some(<< >>)
        ELSE ExpandMulticast(ifaddrs, a.listen.addr, << >>,
                             <<[group |-> DefaultGroup, interface |-> None]>>, TRUE)

(***************************************************************************)
(* Peers, discovery targets and sockets.                                   *)
(***************************************************************************)
\* Only an http:// spelling of the listen address is recognised here.
SamePeerEndpoint(peer, a) == peer.url = "http" /\ peer.name = a.listen.name

PeersIn(config) == config.peers
Peers(a) ==
    LET all == Unique(OfOption(a.network, << >>, PeersIn) \o a.peers)
    IN  Kept(all, {i \in DOMAIN all : ~SamePeerEndpoint(all[i], a)})

NoAddr == [ip |-> [family |-> 4, n |-> "none"], scope |-> 0, port |-> 0]
Resolve(peers) == \A i \in DOMAIN peers : peers[i].addr # NoAddr

ResolvePeerAddrs(peers, bind) ==
    LET all == Unique([i \in DOMAIN peers |-> peers[i].addr])
    IN  Kept(all, {i \in DOMAIN all : all[i] # bind})

MulticastTargets(bind, multicast) ==
    [i \in DOMAIN multicast |->
        [ip |-> [family |-> multicast[i].family, n |-> multicast[i].group],
         scope |-> IF multicast[i].family = 6 THEN multicast[i].interface ELSE 0,
         port |-> bind.port]]

DiscoveryTargets(bind, peers, multicast) ==
    Unique(peers \o MulticastTargets(bind, multicast))

\* A mutant: only the listen address and the peers ask for sockets.
MutBindFamilies(bind, peers, multicast) ==
    {bind.ip.family} \union {peers[i].ip.family : i \in DOMAIN peers}
BindFamilies(bind, peers, multicast) ==
    {bind.ip.family} \union {peers[i].ip.family : i \in DOMAIN peers}
                     \union {multicast[i].family : i \in DOMAIN multicast}

(***************************************************************************)
(* The machine: key files, and what the running processes run with.        *)
(***************************************************************************)
VARIABLES
    keyFile,    \* Some(key) when the node's key file exists
    gens,       \* number of keys the node has generated
    process     \* Some(the process), or None

startupVars == <<keyFile, gens, process>>

StartupInit ==
    /\ keyFile = [n \in Node |-> None]
    /\ gens = [n \in Node |-> 0]
    /\ process = [n \in Node |-> None]

NewKey(n, scheme) == [owner |-> n, gen |-> gens[n] + 1, scheme |-> scheme]

\* load_keypair_from_json: the scheme of the file must be the local one.
LoadKeypair(key, scheme) == IF key.scheme = scheme THEN Some(key) ELSE None

(***************************************************************************)
(* What comes of the keypair step: the key to run with, if any, and the    *)
(* key file.  A new key is saved before it is used; a save that fails ends *)
(* the start, before or after the file has taken its place.                *)
(***************************************************************************)
\* A mutant: a save that fails is reported and ignored.
MutCreateKeypair(n, scheme) ==
    LET key == NewKey(n, scheme)
    IN  {[key |-> Some(key), file |-> Some(key)], [key |-> Some(key), file |-> None]}
CreateKeypair(n, scheme) ==
    LET key == NewKey(n, scheme)
    IN  {[key |-> Some(key), file |-> Some(key)],
         [key |-> None, file |-> Some(key)],
         [key |-> None, file |-> None]}

KeypairOutcomes(n, a) ==
    IF ~a.keypair
    THEN {[key |-> Some(NewKey(n, a.scheme)), file |-> keyFile[n]]}
    ELSE IF keyFile[n] # None
    THEN {[key |-> LoadKeypair(keyFile[n][1], a.scheme), file |-> keyFile[n]]}
    ELSE CreateKeypair(n, a.scheme)

Generates(n, a) == ~a.keypair \/ keyFile[n] = None

\* The checks between the keypair and the running service.
Starts(ifaddrs, a) ==
    /\ ResolveMulticast(ifaddrs, a) # None
    /\ Parses(ValidatorHexes(a), a.scheme)
    /\ Resolve(Peers(a))

Process(ifaddrs, a, key) ==
    LET bind == a.listen.addr
        multicast == ResolveMulticast(ifaddrs, a)[1]
        peers == ResolvePeerAddrs(Peers(a), bind)
    IN  [args |-> a, key |-> key, chain_id |-> ChainId(a),
         validators |-> ParseValidators(ValidatorHexes(a)),
         engine |-> EngineValidators(a, key),
         produce |-> ResolveProduceMode(a, key),
         multicast |-> multicast,
         peers |-> peers,
         targets |-> DiscoveryTargets(bind, peers, multicast),
         families |-> BindFamilies(bind, peers, multicast)]

\* run_node up to the running service, or to the return of the first error.
RunNode(n, a) ==
    /\ process[n] = None
    /\ Generates(n, a) => gens[n] < MaxGen
    /\ \E outcome \in KeypairOutcomes(n, a), ifaddrs \in Interfaces[n] :
          /\ keyFile' = [keyFile EXCEPT ![n] = outcome.file]
          /\ gens' = [gens EXCEPT ![n] = IF Generates(n, a) THEN @ + 1 ELSE @]
          /\ process' =
                IF outcome.key # None /\ Starts(ifaddrs, a)
                THEN [process EXCEPT ![n] = Some(Process(ifaddrs, a, outcome.key[1]))]
                ELSE process

Exit(n) ==
    /\ process[n] # None
    /\ process' = [process EXCEPT ![n] = None]
    /\ UNCHANGED <<keyFile, gens>>

StartupNext == \E n \in Node : Exit(n) \/ \E a \in Args[n] : RunNode(n, a)

StartupSpec == StartupInit /\ [][StartupNext]_startupVars

-----------------------------------------------------------------------------
Running == {n \in Node : process[n] # None}
SameManifest(m, n) ==
    /\ process[m][1].args.manifest # None
    /\ process[m][1].args.manifest = process[n][1].args.manifest

(***************************************************************************)
(* Nodes started with the same manifest follow the same rules: one chain   *)
(* id and one list of validators, in one order, whatever their command     *)
(* lines, network configurations and local schemes add.                    *)
(***************************************************************************)
SameRules ==
    \A m, n \in Running :
        SameManifest(m, n) => /\ process[m][1].chain_id = process[n][1].chain_id
                              /\ process[m][1].validators = process[n][1].validators

(***************************************************************************)
(* Nodes of one manifest that produce by default propose under the same    *)
(* validators: a manifest without validators does not make every node the  *)
(* only validator of a chain of its own.                                   *)
(***************************************************************************)
ByDefault(n) == process[n][1].args.produce = None
NoRivalChains ==
    \A m, n \in Running :
        (/\ SameManifest(m, n)
         /\ \A k \in {m, n} : ByDefault(k) /\ process[k][1].produce)
        => process[m][1].engine = process[n][1].engine

(***************************************************************************)
(* However the keys are spelled in the files, a validator has one turn in  *)
(* the schedule, and a node whose key is listed produces by default.       *)
(***************************************************************************)
ListedBy(p) ==
    {h.key : h \in ToSet(Nonblank(
        IF p.args.manifest # None THEN p.args.manifest[1].validators
        ELSE OfOption(p.args.network, << >>, ValidatorsIn) \o p.args.validators))}
ListedProduce ==
    \A n \in Running :
        LET p == process[n][1]
        IN  /\ \A i, j \in DOMAIN p.engine : p.engine[i] = p.engine[j] => i = j
            /\ ByDefault(n) /\ p.key \in ListedBy(p) => p.produce

(***************************************************************************)
(* A node with a key file has one identity for ever: the file is never     *)
(* replaced, and the node only runs with the key that is in it, even if    *)
(* the save that created it failed half-way.                               *)
(***************************************************************************)
OneIdentity ==
    [][\A n \in Node :
          /\ keyFile[n] # None => keyFile'[n] = keyFile[n]
          /\ process'[n] # None /\ process'[n][1].args.keypair
             => keyFile'[n] = Some(process'[n][1].key)]_startupVars

(***************************************************************************)
(* A process that runs can be discovered as configured: it has joined      *)
(* every group its configuration lists, on at least one interface (a group *)
(* that cannot be joined ends the start), and every discovery target, peer *)
(* or group, has a socket of its address family.                           *)
(***************************************************************************)
Groups(config) ==
    {config.v4[i].group : i \in DOMAIN config.v4}
    \union {config.v6[i].group : i \in DOMAIN config.v6}

Reachable ==
    \A n \in Running :
        LET p == process[n][1]
            explicit == ExplicitMulticast(p.args)
        IN  /\ explicit # None =>
                  Groups(explicit[1]) = {p.multicast[i].group : i \in DOMAIN p.multicast}
            /\ \A i \in DOMAIN p.targets : p.targets[i].ip.family \in p.families
=============================================================================
