----------------------------- MODULE HomeServer -----------------------------
(***************************************************************************)
(* The provisioning tool of the exit (home/bond-server/zippie_home.py):    *)
(* server.json, the WireGuard conf derived from it, the live interface,    *)
(* and the PREROUTING redirects, each written by a different step of a     *)
(* command that may be killed between any two of them.  One command runs   *)
(* at a time.  Keys are serial numbers; a torn write of server.json leaves *)
(* it unreadable, a torn append leaves a prefix of the conf's peers.       *)
(***************************************************************************)
EXTENDS Integers, Sequences, FiniteSets

CONSTANTS PortLists,      \* the port lists the environment may name; <<>> is unset or unusable
          TransportPort,  \* where the userspace transport listens
          Claims,         \* what the transport may claim: Absent (off), {} (every port), some ports
          ClientNames, PathNames,
          MaxKeys,        \* bound: client key pairs minted
          MaxServerKeys,  \* bound: runs of init
          Absent, Broken  \* a file or interface that is not there; a file that cannot be read

ASSUME ServerAssumption == PortLists \subseteq Seq(Nat) /\ MaxKeys \in Nat /\ MaxServerKeys \in Nat

VARIABLES meta,    \* server.json
          conf,    \* pb-home0.conf
          wg,      \* the live interface, which outlives the pod
          rules,   \* the REDIRECT rules of each public port, in order
          env,     \* the ConfigMap: ports, and whether the transport is on
          cmd,     \* the command in progress
          torn,    \* a crash cut an append to the conf short
          minted, rekeyed

homeServerVars == <<meta, conf, wg, rules, env, cmd, torn, minted, rekeyed>>

Idle == [op |-> "idle"]
AllPorts == UNION {{l[i] : i \in 1..Len(l)} : l \in PortLists}
FirstOctet == 2
Octets == FirstOctet..(FirstOctet + MaxKeys)
Listed(l) == {l[i] : i \in 1..Len(l)}
Readable == meta \notin {Absent, Broken}
Envs == [ports : PortLists, transport : Claims]

(* The key that owns an address: WireGuard gives it to the peer named last. *)
Owner(peers, a) ==
  LET mine == {i \in DOMAIN peers : peers[i].addr = a}
  IN  IF mine = {} THEN 0 ELSE peers[CHOOSE i \in mine : \A j \in mine : j <= i].key

ServerInit ==
  /\ meta = Absent /\ conf = Absent /\ wg = Absent
  /\ rules = [p \in AllPorts |-> <<>>]
  /\ env \in Envs
  /\ cmd = Idle
  /\ torn = FALSE /\ minted = 0 /\ rekeyed = 0

-----------------------------------------------------------------------------
(* cmd_init: a fresh server key and an empty client list, then the conf without any peer.
   The port list is the command's own argument. *)

CmdInit(ports, force) ==
  /\ cmd = Idle
  /\ ports # <<>>
  /\ meta = Absent \/ force
  /\ rekeyed < MaxServerKeys
  /\ rekeyed' = rekeyed + 1
  /\ meta' = [ports |-> ports, key |-> rekeyed + 1, octet |-> FirstOctet, paths |-> {}]
  /\ cmd' = [op |-> "init"]
  /\ UNCHANGED <<conf, wg, rules, env, torn, minted>>

InitWritesConf ==
  /\ cmd.op = "init"
  /\ conf' = [listen |-> meta.ports[1], key |-> meta.key, peers |-> <<>>]
  /\ torn' = FALSE
  /\ cmd' = Idle
  /\ UNCHANGED <<meta, wg, rules, env, minted, rekeyed>>

-----------------------------------------------------------------------------
(* cmd_add_client and cmd_add_path: mint a key and an address for each path, append the
   peer to the conf and to the live interface, and only then save server.json. *)

HasPath(c, p) == \E q \in meta.paths : q.client = c /\ q.path = p

CmdAddClient(c, todo) ==
  /\ cmd = Idle /\ Readable
  /\ cmd' = [op |-> "client", client |-> c, todo |-> todo, octet |-> meta.octet, made |-> {}]
  /\ UNCHANGED <<meta, conf, wg, rules, env, torn, minted, rekeyed>>

CmdAddPath(c, p) ==
  /\ cmd = Idle /\ Readable
  /\ \E q \in meta.paths : q.client = c
  /\ ~ HasPath(c, p)
  /\ cmd' = [op |-> "path", client |-> c, todo |-> <<p>>, octet |-> meta.octet, made |-> {}]
  /\ UNCHANGED <<meta, conf, wg, rules, env, torn, minted, rekeyed>>

NextOctet(o) == o + 1

Provisioning == cmd.op \in {"client", "path"}

AppendPeer ==
  /\ Provisioning /\ cmd.todo # <<>>
  /\ minted < MaxKeys
  /\ LET key == minted + 1
         addr == cmd.octet
     IN  /\ conf' = IF conf = Absent THEN conf
                    ELSE [conf EXCEPT !.peers = Append(@, [key |-> key, addr |-> addr])]
         /\ wg' = IF wg = Absent THEN wg ELSE [wg EXCEPT !.owner[addr] = key]
         /\ cmd' = [cmd EXCEPT !.todo = Tail(@), !.octet = NextOctet(@),
                               !.made = @ \union {[client |-> cmd.client, path |-> Head(cmd.todo),
                                                   key |-> key, addr |-> addr]}]
         /\ minted' = key
  /\ UNCHANGED <<meta, rules, env, torn, rekeyed>>

(* A client added again under --force gets new paths in place of its old ones. *)
Replaced == IF cmd.op = "client" THEN {q \in meta.paths : q.client = cmd.client} ELSE {}

SaveClients ==
  /\ Provisioning /\ cmd.todo = <<>>
  /\ meta' = [meta EXCEPT !.paths = (@ \ Replaced) \union cmd.made, !.octet = cmd.octet]
  /\ cmd' = Idle
  /\ UNCHANGED <<conf, wg, rules, env, torn, minted, rekeyed>>

-----------------------------------------------------------------------------
(* cmd_up: the environment into server.json, server.json into the conf (peers kept),
   the redirects, and the interface if it is not up already. *)

CmdUp ==
  /\ cmd = Idle /\ Readable /\ conf # Absent
  /\ meta' = [meta EXCEPT !.ports = IF env.ports = <<>> THEN @ ELSE env.ports]
  /\ cmd' = [op |-> "up", step |-> "conf", already |-> wg # Absent, saved |-> meta' # meta]
  /\ UNCHANGED <<conf, wg, rules, env, torn, minted, rekeyed>>

KeptPeers == conf.peers

UpWritesConf ==
  /\ cmd.op = "up" /\ cmd.step = "conf"
  /\ conf' = [listen |-> meta.ports[1], key |-> meta.key, peers |-> KeptPeers]
  /\ cmd' = [cmd EXCEPT !.step = "redirect"]
  /\ UNCHANGED <<meta, wg, rules, env, torn, minted, rekeyed>>

(* _redirect_mapping: no transport, some claimed ports, or all of them. *)
Target(p) ==
  IF env.transport = Absent THEN meta.ports[1]
  ELSE IF env.transport = {} \/ p \in env.transport THEN TransportPort
  ELSE meta.ports[1]

(* The script purges a port it manages before it adds that port's rule; a port mapped to
   itself gets none. *)
PurgedNothing(old) == old
Purged(old) == <<>>

Redirected(p) ==
  Purged(rules[p]) \o IF Target(p) = p THEN <<>>
                      ELSE <<[to |-> Target(p), wanOnly |-> env.transport # Absent]>>

UpRedirects ==
  /\ cmd.op = "up" /\ cmd.step = "redirect"
  /\ rules' = [p \in AllPorts |-> IF p \in Listed(meta.ports) THEN Redirected(p) ELSE rules[p]]
  /\ cmd' = [cmd EXCEPT !.step = "link"]
  /\ UNCHANGED <<meta, conf, wg, env, torn, minted, rekeyed>>

UpBringsUp ==
  /\ cmd.op = "up" /\ cmd.step = "link"
  /\ wg' = IF cmd.already THEN wg
           ELSE [listen |-> conf.listen, key |-> conf.key,
                 owner |-> [a \in Octets |-> Owner(conf.peers, a)]]
  /\ cmd' = Idle
  /\ UNCHANGED <<meta, conf, rules, env, torn, minted, rekeyed>>

CmdDown ==
  /\ cmd = Idle /\ conf # Absent
  /\ wg' = Absent
  /\ UNCHANGED <<meta, conf, rules, env, cmd, torn, minted, rekeyed>>

-----------------------------------------------------------------------------
(* What happens around the tool. *)

(* A ConfigMap edit; the process sees it at its next start, so never inside a command. *)
EditEnvironment(e) ==
  /\ cmd = Idle
  /\ env' = e
  /\ UNCHANGED <<meta, conf, wg, rules, cmd, torn, minted, rekeyed>>

(* The pod is killed: between two steps, inside save_json, or inside _append_peer. *)
Killed ==
  /\ cmd # Idle
  /\ cmd' = Idle
  /\ UNCHANGED <<meta, conf, wg, rules, env, torn, minted, rekeyed>>

KilledSaving ==
  /\ \/ Provisioning /\ cmd.todo = <<>>
     \/ cmd.op = "init"
     \/ cmd.op = "up" /\ cmd.step = "conf" /\ cmd.saved
  /\ meta' = Broken
  /\ cmd' = Idle
  /\ UNCHANGED <<conf, wg, rules, env, torn, minted, rekeyed>>

KilledAppending ==
  /\ Provisioning /\ cmd.todo # <<>> /\ conf # Absent
  /\ \E n \in 0..Len(conf.peers) : conf' = [conf EXCEPT !.peers = SubSeq(@, 1, n)]
  /\ torn' = TRUE
  /\ cmd' = Idle
  /\ UNCHANGED <<meta, wg, rules, env, minted, rekeyed>>

(* A reboot of the node takes the interface and the rules too. *)
NodeReboots ==
  /\ wg' = Absent
  /\ rules' = [p \in AllPorts |-> <<>>]
  /\ cmd' = Idle
  /\ UNCHANGED <<meta, conf, env, torn, minted, rekeyed>>

ServerNext ==
  \/ \E l \in PortLists, force \in BOOLEAN : CmdInit(l, force)
  \/ InitWritesConf
  \/ \E c \in ClientNames, p \in PathNames : CmdAddClient(c, <<p>>) \/ CmdAddPath(c, p)
  \/ \E c \in ClientNames, p, q \in PathNames : p # q /\ CmdAddClient(c, <<p, q>>)
  \/ AppendPeer \/ SaveClients
  \/ CmdUp \/ UpWritesConf \/ UpRedirects \/ UpBringsUp
  \/ CmdDown
  \/ \E e \in Envs : EditEnvironment(e)
  \/ Killed \/ KilledSaving \/ KilledAppending \/ NodeReboots

ServerSpec == ServerInit /\ [][ServerNext]_homeServerVars

-----------------------------------------------------------------------------
(* Properties. *)

(* server.json, the conf, the interface and the rules are each absent or well formed. *)
ServerTypeOK ==
  /\ Readable => /\ meta.ports \in PortLists \ {<<>>}
                 /\ meta.octet \in Octets
                 /\ \A p \in meta.paths : p.addr \in Octets /\ p.key \in 1..MaxKeys
  /\ conf # Absent => conf.listen \in AllPorts /\ Len(conf.peers) <= MaxKeys
  /\ wg # Absent => wg.owner \in [Octets -> 0..MaxKeys]
  /\ rules \in [AllPorts -> Seq([to : AllPorts \union {TransportPort}, wanOnly : BOOLEAN])]

(* Every path that server.json records owns its address: in the conf and on the live
   interface the last peer named with it is that path's own key.  Commands killed between
   the append and the save leave orphan peers and hand the same octet out again, and every
   up rewrites the conf around the peers; only an append cut short may lose one. *)
IssuedPathsReachable ==
  Readable /\ conf # Absent /\ ~ torn =>
    \A p \in meta.paths : /\ Owner(conf.peers, p.addr) = p.key
                          /\ wg # Absent => wg.owner[p.addr] = p.key

(* Where a datagram for public port p arriving on the WAN ends up: the first rule wins. *)
Leads(p) == IF rules[p] = <<>> THEN p ELSE Head(rules[p]).to

(* When up has brought the interface up, every public port leads to the transport or to
   the port WireGuard listens on, whatever rules earlier configurations and killed runs
   left behind, and no rule on the WireGuard port can catch the transport's own loopback
   datagrams. *)
UpConverges ==
  [][ wg = Absent /\ wg' # Absent =>
        /\ \A p \in Listed(meta.ports) : Leads(p)' \in {wg'.listen, TransportPort}
        /\ \A i \in DOMAIN rules'[wg'.listen] :
              rules'[wg'.listen][i].to = TransportPort => rules'[wg'.listen][i].wanOnly ]_homeServerVars

(* The home server serves the paths it issued, on every public port, whatever command was
   killed in whichever step. *)
ServerSound == []IssuedPathsReachable /\ UpConverges

=============================================================================
