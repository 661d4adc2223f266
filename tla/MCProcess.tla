----------------------------- MODULE MCProcess -----------------------------
(***************************************************************************)
(* The life of a node process outside the protocol: its start from flags   *)
(* and files, and the saving of its state.  The two parts share no state;  *)
(* each is explored while the other is at its beginning.                   *)
(***************************************************************************)
EXTENDS Startup, Storage

vars == <<startupVars, storageVars>>

Init == StartupInit /\ StorageInit

Next ==
    \/ StorageInit /\ StartupNext /\ UNCHANGED storageVars
    \/ StartupInit /\ StorageNext /\ UNCHANGED startupVars

Spec == Init /\ [][Next]_vars

(***************************************************************************)
(* Two machines.  Machine a has a loopback and an outer interface; on      *)
(* machine b the outer interface is down; on either, listing the           *)
(* interfaces may fail.  The manifest spells one key in several ways.  The *)
(* nodes are started with and without it, with the other scheme, with      *)
(* static peers that include themselves, and with pinned interfaces.       *)
(***************************************************************************)
Key(n, gen) == [owner |-> n, gen |-> gen, scheme |-> "Dilithium2"]

Ip(family, n) == [family |-> family, n |-> n]
Addr(ip, scope) == [ip |-> ip, scope |-> scope, port |-> 9700]
Endpoint(url, name, addr) == [url |-> url, name |-> name, addr |-> addr]

AddrOf == [n \in {"a", "b"} |-> Addr(Ip(4, n), 0)]
Listen(n) == [name |-> n, addr |-> AddrOf[n]]
ListenAny == [name |-> "any", addr |-> Addr(Ip(6, "unspecified"), 0)]
ListenScoped == [name |-> "scoped", addr |-> Addr(Ip(6, "a"), 5)]

Entry(ip, index, loopback, up) ==
    [ip |-> ip, index |-> index, loopback |-> loopback, up |-> up, multicast |-> TRUE]
MachineInterfaces ==
    [n \in {"a", "b"} |->
        {None,
         Some(<<Entry(Ip(6, "lo"), 1, TRUE, TRUE), Entry(Ip(4, n), 2, FALSE, n = "a"),
                Entry(Ip(6, n), 2, FALSE, n = "a"), Entry(Ip(6, n), 3, FALSE, n = "a")>>)}]

Manifest(validators, disable, v6) ==
    [chain_id |-> 7, validators |-> validators, disable_default |-> disable,
     v4 |-> << >>, v6 |-> v6]
Group(g) == [group |-> g, interface |-> None]
Cluster == Manifest(<<Hex(Key("a", 1), "upper"), Hex(Key("b", 1), "padded"),
                      Hex(Key("a", 1), "plain"), Hex(Key("a", 1), Blank)>>,
                    FALSE, <<Group("g1"), Group("g1")>>)
Empty == Manifest(<< >>, TRUE, << >>)

Network(peers, validators, v4, v6) ==
    [peers |-> peers, validators |-> validators, disable_default |-> FALSE,
     v4 |-> v4, v6 |-> v6]

Plain(n) ==
    [keypair |-> TRUE, scheme |-> "Dilithium2", produce |-> None, validators |-> << >>,
     network |-> None, manifest |-> None, listen |-> Listen(n), peers |-> << >>]

CommandLines ==
    [n \in {"a", "b"} |->
      {\* a member of the cluster, listing itself and the other node
       [Plain(n) EXCEPT !.manifest = Some(Cluster),
          !.peers = <<Endpoint("http", n, AddrOf[n]), Endpoint("udp", n, AddrOf[n]),
                      Endpoint("http", "b", AddrOf["b"])>>],
       \* a member with overrides of its own
       [Plain(n) EXCEPT !.manifest = Some(Cluster),
          !.validators = <<Hex(Key(n, 2), "plain")>>,
          !.network = Some(Network(<<Endpoint("http", "a", AddrOf["a"])>>,
                              <<Hex(Key("b", 2), "plain")>>,
                              <<[group |-> "h", interface |-> "10.0.0.1"]>>,
                              <<[group |-> "g1", interface |-> Some(9)]>>))],
       \* the other scheme
       [Plain(n) EXCEPT !.manifest = Some(Cluster), !.scheme = "Falcon512"],
       [Plain(n) EXCEPT !.manifest = Some(Empty), !.scheme = "Falcon512"],
       \* a manifest without validators
       [Plain(n) EXCEPT !.manifest = Some(Empty)],
       \* single-node development, with and without a key file
       Plain(n),
       [Plain(n) EXCEPT !.keypair = FALSE, !.listen = ListenAny],
       \* the legacy validator list, an explicit role, a scoped listen address
       [Plain(n) EXCEPT !.validators = <<Hex(Key("b", 1), "upper"), Hex(Key("a", 1), "plain")>>,
          !.produce = Some(FALSE), !.listen = ListenScoped],
       [Plain(n) EXCEPT !.validators = <<Hex(Key(n, 1), "upper")>>,
          !.peers = <<Endpoint("http", "gone", NoAddr)>>]}]

(***************************************************************************)
(* Four ledgers: empty; outputs of one transaction; the same keys and      *)
(* assets in another order of insertion; fewer entries than before.        *)
(***************************************************************************)
UtxoAt(t, i) == [tx_id |-> t, index |-> i]

MCLedgers ==
    <<[utxos |-> << >>, assets |-> << >>],
      [utxos |-> [k \in {UtxoAt(2, 0), UtxoAt(2, 1)} |-> k.index + 5], assets |-> << >>],
      [utxos |-> [k \in {UtxoAt(1, 1), UtxoAt(2, 0), UtxoAt(2, 1)} |-> k.tx_id],
       assets |-> [a \in {2, 7} |-> a + 1]],
      [utxos |-> [k \in {UtxoAt(1, 1)} |-> 3], assets |-> [a \in {7} |-> 8]]>>
=============================================================================
