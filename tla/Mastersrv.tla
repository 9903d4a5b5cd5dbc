----------------------------- MODULE Mastersrv -----------------------------
(***************************************************************************)
(* The list of the master server (src/src/mastersrv/src/main.rs): which    *)
(* run of a game server, named by its secret, is listed at which address,  *)
(* and how recent the info is that it has sent.  An address is named by    *)
(* the protocol the game server registers there.                           *)
(***************************************************************************)
EXTENDS Integers, FiniteSets

CONSTANTS
  Protocol,        \* protocols of the game server, each with an address
  Secret,          \* runs of the game server
  None

ASSUME NoneAssumption == None \notin Secret

VARIABLES
  addresses,       \* Servers::addresses: the secret listed at each address, or None
  servers,         \* Servers::servers: addresses and info serial of listed secrets
  seed,            \* Challenger: the current seed; the previous one is seed - 1
  dump             \* the dump file: the secret at each address, the serial of each secret

masterVars == <<addresses, servers, seed, dump>>

NoToken == 0

\* Dump::new: what is written of the list; the addresses in servers are not.
Dump == [addresses |-> addresses,
         serials |-> [s \in DOMAIN servers |-> servers[s].info_serial]]

MasterInit ==
  /\ addresses = [p \in Protocol |-> None]
  /\ servers = [s \in {} |-> [addresses |-> {}, info_serial |-> 0]]
  /\ seed = 2
  /\ dump = Dump

\* Mutated: forgets that the address was listed for a previous run.
DetachNone(svs, s, p) == svs

\* Servers without address p of secret s; a secret without address is dropped.
Detach(svs, s, p) ==
  LET left == svs[s].addresses \ {p}
  IN  IF left = {} THEN [t \in DOMAIN svs \ {s} |-> svs[t]]
                   ELSE [svs EXCEPT ![s].addresses = left]

Displace(svs, s, p) ==
  IF addresses[p] \in {None, s} THEN svs ELSE Detach(svs, addresses[p], p)

\* Mutated: takes an older info, too.
AttachAny(svs, s, p, serial) ==
  [t \in DOMAIN svs \cup {s} |->
     IF t # s THEN svs[t]
     ELSE [addresses |-> {p} \cup (IF s \in DOMAIN svs THEN svs[s].addresses ELSE {}),
           info_serial |-> serial]]

\* Servers with address p for secret s, and the newest of its infos.
Attach(svs, s, p, serial) ==
  [t \in DOMAIN svs \cup {s} |->
     IF t # s THEN svs[t]
     ELSE IF s \notin DOMAIN svs THEN [addresses |-> {p}, info_serial |-> serial]
     ELSE [addresses |-> {p} \cup svs[s].addresses,
           info_serial |-> IF serial > svs[s].info_serial THEN serial
                                                          ELSE svs[s].info_serial]]

\* handle_register: what the master answers, and whether it sends a challenge.
NeedInfo(r) == r.secret \notin DOMAIN servers \/ r.serial > servers[r.secret].info_serial
Answer(r) ==
  CASE r.token \notin {seed, seed - 1} -> "need_challenge"
    [] r.token \in {seed, seed - 1} /\ NeedInfo(r) /\ ~r.info -> "need_info"
    [] OTHER -> "success"
SendsChallenge(r) == r.token # seed

\* handle_register, the list: Servers::add.
Add(r) ==
  /\ IF Answer(r) = "success"
       THEN /\ addresses' = [addresses EXCEPT ![r.protocol] = r.secret]
            /\ servers' = Attach(Displace(servers, r.secret, r.protocol),
                                 r.secret, r.protocol, r.serial)
       ELSE UNCHANGED <<addresses, servers>>
  /\ UNCHANGED <<seed, dump>>

Unlist(p) ==
  /\ addresses' = [addresses EXCEPT ![p] = None]
  /\ servers' = Detach(servers, addresses[p], p)
  /\ UNCHANGED <<seed, dump>>

\* handle_delete: Servers::remove.
Remove(s, p) ==
  IF addresses[p] = s THEN Unlist(p) ELSE UNCHANGED masterVars

\* Servers::prune_before for one address.
PruneAddress(p) == addresses[p] # None /\ Unlist(p)

\* handle_periodic_reseed
Reseed == seed' = seed + 1 /\ UNCHANGED <<addresses, servers, dump>>

\* handle_periodic_writeout, once a second: the list as it was under the lock, where it
\* has been pruned just before (PruneAddress).  Until then the file is older.
WriteDump == dump # Dump /\ dump' = Dump /\ UNCHANGED <<addresses, servers, seed>>

\* Servers::from_dump: the addresses in servers are put together again.
FromDump ==
  /\ addresses' = dump.addresses
  /\ servers' = [s \in DOMAIN dump.serials |->
                   [addresses |-> {p \in Protocol : dump.addresses[p] = s},
                    info_serial |-> dump.serials[s]]]

\* Servers::new.
Empty ==
  /\ addresses' = [p \in Protocol |-> None]
  /\ servers' = [s \in {} |-> servers[s]]

\* The master stops and is started again, with what was last written
\* (--read-write-dump) or without it; its seeds are new.
RestartMaster == seed' = seed + 2 /\ (FromDump \/ Empty) /\ UNCHANGED dump

-----------------------------------------------------------------------------
MasterTypeOK ==
  /\ addresses \in [Protocol -> Secret \cup {None}]
  /\ DOMAIN servers \subseteq Secret
  /\ \A s \in DOMAIN servers : servers[s] \in [addresses : SUBSET Protocol, info_serial : Nat]
  /\ seed \in Nat
  /\ dump.addresses \in [Protocol -> Secret \cup {None}]
  /\ DOMAIN dump.serials \subseteq Secret
  /\ \A s \in DOMAIN dump.serials : dump.serials[s] \in Nat

\* from_dump takes the dump: no FromDumpError.
DumpConsistent ==
  /\ \A p \in Protocol : dump.addresses[p] # None => dump.addresses[p] \in DOMAIN dump.serials
  /\ \A s \in DOMAIN dump.serials : \E p \in Protocol : dump.addresses[p] = s

\* The two maps agree: a secret is listed at just the addresses that lead to
\* it, and at one of them at least (the assertions and unwraps of Servers); so
\* do those in the dump, which lags behind.
MasterConsistent ==
  /\ \A p \in Protocol : addresses[p] # None => addresses[p] \in DOMAIN servers
  /\ \A s \in DOMAIN servers :
       /\ servers[s].addresses = {p \in Protocol : addresses[p] = s}
       /\ servers[s].addresses # {}
  /\ DumpConsistent
=============================================================================
