-------------------------- MODULE RegisterProofs ---------------------------
(***************************************************************************)
(* Proofs about the registration of a game server at the master server.    *)
(***************************************************************************)
EXTENDS Register, SequenceTheorems, TLAPS

(***************************************************************************)
(* The list of the master server.                                          *)

MasterInv == MasterTypeOK /\ MasterConsistent

\* What InfoNeverOlder says of a step.
InfoKept ==
  \A s \in DOMAIN servers \cap DOMAIN servers' :
    servers'[s].info_serial >= servers[s].info_serial \/ RestartMaster

Server == [addresses : SUBSET Protocol, info_serial : Nat]

LEMMA MasterUnchanged ==
  ASSUME MasterInv, UNCHANGED masterVars
  PROVE  MasterInv' /\ InfoKept
BY DEF MasterInv, MasterTypeOK, MasterConsistent, DumpConsistent, masterVars, InfoKept

\* The dump does not change unless it is written.
DumpTypeOK ==
  /\ dump.addresses \in [Protocol -> Secret \cup {None}]
  /\ DOMAIN dump.serials \subseteq Secret
  /\ \A s \in DOMAIN dump.serials : dump.serials[s] \in Nat

LEMMA DumpKept ==
  ASSUME MasterInv, UNCHANGED dump
  PROVE  DumpTypeOK' /\ DumpConsistent'
BY DEF MasterInv, MasterTypeOK, MasterConsistent, DumpTypeOK, DumpConsistent

\* Detach takes one address from one server, and the server with its last one.
LEMMA DetachIs ==
  ASSUME MasterInv, NEW o \in DOMAIN servers, NEW p \in Protocol
  PROVE  /\ DOMAIN Detach(servers, o, p) \subseteq DOMAIN servers
         /\ \A t \in DOMAIN servers : t # o => t \in DOMAIN Detach(servers, o, p)
         /\ o \in DOMAIN Detach(servers, o, p) <=> servers[o].addresses \ {p} # {}
         /\ \A t \in DOMAIN Detach(servers, o, p) :
              /\ Detach(servers, o, p)[t] \in Server
              /\ Detach(servers, o, p)[t].info_serial = servers[t].info_serial
              /\ Detach(servers, o, p)[t].addresses =
                   IF t = o THEN servers[o].addresses \ {p} ELSE servers[t].addresses
<1> DEFINE left == servers[o].addresses \ {p}
           kept == [servers EXCEPT ![o].addresses = left]
           others == [t \in DOMAIN servers \ {o} |-> servers[t]]
<1>0. \A t \in DOMAIN servers : servers[t] \in Server
  BY DEF MasterInv, MasterTypeOK, Server
<1>1. Detach(servers, o, p) = IF left = {} THEN others ELSE kept
  BY DEF Detach
<1>2. \A t \in DOMAIN others : t # o /\ others[t] = servers[t]
  OBVIOUS
<1>3. /\ DOMAIN kept = DOMAIN servers
      /\ \A t \in DOMAIN servers : t # o => kept[t] = servers[t]
      /\ kept[o] = [servers[o] EXCEPT !.addresses = left]
  OBVIOUS
<1>4. kept[o] \in Server /\ kept[o].info_serial = servers[o].info_serial /\ kept[o].addresses = left
  BY <1>0, <1>3 DEF Server
<1> HIDE DEF kept, others
<1>5. CASE left = {}
  BY <1>0, <1>1, <1>2, <1>5 DEF others
<1>6. CASE left # {}
  BY <1>0, <1>1, <1>3, <1>4, <1>6
<1> QED
  BY <1>5, <1>6

LEMMA UnlistKeeps ==
  ASSUME MasterInv, NEW p \in Protocol, addresses[p] # None, Unlist(p)
  PROVE  MasterInv' /\ InfoKept
<1> DEFINE o == addresses[p]
<1>0. o \in DOMAIN servers /\ o \in Secret
  BY DEF MasterInv, MasterTypeOK, MasterConsistent
<1>1. /\ servers' = Detach(servers, o, p)
      /\ addresses' = [addresses EXCEPT ![p] = None]
      /\ UNCHANGED <<seed, dump>>
  BY DEF Unlist
<1> HIDE DEF o
<1>2. /\ DOMAIN servers' \subseteq DOMAIN servers
      /\ \A t \in DOMAIN servers : t # o => t \in DOMAIN servers'
      /\ o \in DOMAIN servers' <=> servers[o].addresses \ {p} # {}
      /\ \A t \in DOMAIN servers' :
           /\ servers'[t] \in Server
           /\ servers'[t].info_serial = servers[t].info_serial
           /\ servers'[t].addresses =
                IF t = o THEN servers[o].addresses \ {p} ELSE servers[t].addresses
  <2>1. /\ DOMAIN Detach(servers, o, p) \subseteq DOMAIN servers
        /\ \A t \in DOMAIN servers : t # o => t \in DOMAIN Detach(servers, o, p)
        /\ o \in DOMAIN Detach(servers, o, p) <=> servers[o].addresses \ {p} # {}
        /\ \A t \in DOMAIN Detach(servers, o, p) :
             /\ Detach(servers, o, p)[t] \in Server
             /\ Detach(servers, o, p)[t].info_serial = servers[t].info_serial
             /\ Detach(servers, o, p)[t].addresses =
                  IF t = o THEN servers[o].addresses \ {p} ELSE servers[t].addresses
    BY <1>0, DetachIs
  <2> QED
    BY <1>1, <2>1
<1>3. /\ addresses' \in [Protocol -> Secret \cup {None}]
      /\ addresses'[p] = None
      /\ \A q \in Protocol : q # p => addresses'[q] = addresses[q]
  BY <1>1 DEF MasterInv, MasterTypeOK
<1>4. MasterTypeOK'
  BY <1>1, <1>2, <1>3, DumpKept DEF MasterInv, MasterTypeOK, Server, DumpTypeOK
<1>5. \A t \in DOMAIN servers : /\ servers[t].addresses = {q \in Protocol : addresses[q] = t}
                               /\ servers[t].addresses # {}
  BY DEF MasterInv, MasterConsistent
<1>6. ASSUME NEW q \in Protocol, addresses'[q] # None
      PROVE  addresses'[q] \in DOMAIN servers'
  <2>1. q # p /\ addresses'[q] = addresses[q]
    BY <1>3, <1>6
  <2>2. addresses[q] \in DOMAIN servers
    BY <1>6, <2>1 DEF MasterInv, MasterConsistent
  <2>3. CASE addresses[q] = o
    BY <1>2, <1>5, <1>0, <2>1, <2>3
  <2> QED
    BY <1>2, <2>1, <2>2, <2>3
<1>7. ASSUME NEW t \in DOMAIN servers'
      PROVE  /\ servers'[t].addresses = {q \in Protocol : addresses'[q] = t}
             /\ servers'[t].addresses # {}
  <2>0. t \in DOMAIN servers /\ t # None
    BY <1>2, NoneAssumption DEF MasterInv, MasterTypeOK
  <2>1. addresses[p] = o
    BY DEF o
  <2>2. CASE t = o
    <3>1. servers'[t].addresses = servers[o].addresses \ {p}
      BY <1>2, <2>2
    <3>2. {q \in Protocol : addresses'[q] = t} = {q \in Protocol : addresses[q] = o} \ {p}
      BY <1>3, <2>0, <2>2
    <3> QED
      BY <3>1, <3>2, <1>5, <1>0, <1>2, <2>2
  <2>3. CASE t # o
    <3>1. {q \in Protocol : addresses'[q] = t} = {q \in Protocol : addresses[q] = t}
      BY <1>3, <2>0, <2>1, <2>3
    <3> QED
      BY <1>2, <1>5, <2>0, <2>3, <3>1
  <2> QED
    BY <2>2, <2>3
<1>8. MasterConsistent'
  BY <1>1, <1>6, <1>7, DumpKept DEF MasterConsistent
<1>9. InfoKept
  BY <1>2 DEF InfoKept, Server
<1> QED
  BY <1>4, <1>8, <1>9 DEF MasterInv

LEMMA RequestIs ==
  ASSUME NEW r \in Requests
  PROVE  r.secret \in Secret /\ r.protocol \in Protocol /\ r.serial \in Nat /\ r.token \in Nat
BY DEF Requests

LEMMA AddKeeps ==
  ASSUME MasterInv, NEW r \in Requests, Add(r)
  PROVE  MasterInv' /\ InfoKept
<1> DEFINE s == r.secret
           p == r.protocol
           o == addresses[p]
           svs == Displace(servers, s, p)
<1>0. /\ s \in Secret /\ p \in Protocol /\ r.serial \in Nat /\ s # None
      /\ o \in Secret \cup {None}
      /\ o # None => o \in DOMAIN servers
      /\ \A t \in DOMAIN servers : t \in Secret /\ servers[t] \in Server
  BY RequestIs, NoneAssumption DEF MasterInv, MasterTypeOK, MasterConsistent, Server
<1>1. CASE Answer(r) # "success"
  BY <1>1, MasterUnchanged DEF Add, masterVars
<1>2. CASE Answer(r) = "success"
  <2>1. /\ addresses' = [addresses EXCEPT ![p] = s]
        /\ servers' = Attach(svs, s, p, r.serial)
        /\ UNCHANGED <<seed, dump>>
    BY <1>2 DEF Add
  <2>2. svs = IF o \in {None, s} THEN servers ELSE Detach(servers, o, p)
    BY DEF Displace
  <2>3. /\ addresses' \in [Protocol -> Secret \cup {None}]
        /\ addresses'[p] = s
        /\ \A q \in Protocol : q # p => addresses'[q] = addresses[q]
    BY <1>0, <2>1 DEF MasterInv, MasterTypeOK
  <2>4. addresses[p] = o
    OBVIOUS
  <2> HIDE DEF s, p, o, svs
  <2>5. \A t \in DOMAIN servers : /\ servers[t].addresses = {q \in Protocol : addresses[q] = t}
                                 /\ servers[t].addresses # {}
    BY DEF MasterInv, MasterConsistent
  <2>6. \A q \in Protocol : addresses[q] # None => addresses[q] \in DOMAIN servers
    BY DEF MasterInv, MasterConsistent
  <2>7. /\ DOMAIN svs \subseteq DOMAIN servers
        /\ \A q \in Protocol : q # p /\ addresses[q] # None => addresses[q] \in DOMAIN svs
        /\ s \in DOMAIN svs <=> s \in DOMAIN servers
        /\ \A t \in DOMAIN svs :
             /\ svs[t] \in Server
             /\ svs[t].info_serial = servers[t].info_serial
             /\ t # s => /\ svs[t].addresses = {q \in Protocol : addresses[q] = t /\ q # p}
                         /\ svs[t].addresses # {}
             /\ t = s => svs[t].addresses = servers[t].addresses
    <3>1. CASE o \in {None, s}
      <4>1. svs = servers
        BY <2>2, <3>1
      <4>2. \A t \in DOMAIN servers : t # s =>
              servers[t].addresses = {q \in Protocol : addresses[q] = t /\ q # p}
        BY <1>0, <2>4, <2>5, <3>1, NoneAssumption
      <4>3. \A t \in DOMAIN servers : servers[t] \in Server /\ servers[t].addresses # {}
        BY <1>0, <2>5
      <4> QED
        BY <2>6, <4>1, <4>2, <4>3
    <3>2. CASE o \notin {None, s}
      <4>1. svs = Detach(servers, o, p) /\ o \in DOMAIN servers
        BY <1>0, <2>2, <3>2
      <4>2. /\ DOMAIN svs \subseteq DOMAIN servers
            /\ \A t \in DOMAIN servers : t # o => t \in DOMAIN svs
            /\ o \in DOMAIN svs <=> servers[o].addresses \ {p} # {}
            /\ \A t \in DOMAIN svs :
                 /\ svs[t] \in Server
                 /\ svs[t].info_serial = servers[t].info_serial
                 /\ svs[t].addresses =
                      IF t = o THEN servers[o].addresses \ {p} ELSE servers[t].addresses
        <5>1. o \in DOMAIN servers /\ p \in Protocol
          BY <1>0, <4>1
        <5>2. /\ DOMAIN Detach(servers, o, p) \subseteq DOMAIN servers
              /\ \A t \in DOMAIN servers : t # o => t \in DOMAIN Detach(servers, o, p)
              /\ o \in DOMAIN Detach(servers, o, p) <=> servers[o].addresses \ {p} # {}
              /\ \A t \in DOMAIN Detach(servers, o, p) :
                   /\ Detach(servers, o, p)[t] \in Server
                   /\ Detach(servers, o, p)[t].info_serial = servers[t].info_serial
                   /\ Detach(servers, o, p)[t].addresses =
                        IF t = o THEN servers[o].addresses \ {p} ELSE servers[t].addresses
          BY <5>1, DetachIs
        <5> QED
          BY <4>1, <5>2
      <4>3. ASSUME NEW q \in Protocol, q # p, addresses[q] # None
            PROVE  addresses[q] \in DOMAIN svs
        <5>1. CASE addresses[q] = o
          <6>1. q \in servers[o].addresses
            BY <2>5, <4>1, <5>1
          <6> QED
            BY <4>2, <4>3, <5>1, <6>1
        <5>2. CASE addresses[q] # o
          BY <2>6, <4>2, <4>3, <5>2
        <5> QED
          BY <5>1, <5>2
      <4>4. s \in DOMAIN svs <=> s \in DOMAIN servers
        BY <3>2, <4>2
      <4>5. ASSUME NEW t \in DOMAIN svs, t # s
            PROVE  /\ svs[t].addresses = {q \in Protocol : addresses[q] = t /\ q # p}
                   /\ svs[t].addresses # {}
        <5>1. CASE t = o
          <6>1. svs[t].addresses = servers[o].addresses \ {p}
            BY <4>2, <5>1
          <6> QED
            BY <2>5, <4>1, <4>2, <5>1, <6>1
        <5>2. CASE t # o
          BY <2>4, <2>5, <4>2, <5>2
        <5> QED
          BY <5>1, <5>2
      <4> QED
        BY <3>2, <4>2, <4>3, <4>4, <4>5
    <3> QED
      BY <3>1, <3>2
  <2>8. /\ DOMAIN servers' = DOMAIN svs \cup {s}
        /\ \A t \in DOMAIN svs : t # s => servers'[t] = svs[t]
        /\ s \notin DOMAIN svs => servers'[s] = [addresses |-> {p}, info_serial |-> r.serial]
        /\ s \in DOMAIN svs => servers'[s] =
             [addresses |-> {p} \cup svs[s].addresses,
              info_serial |-> IF r.serial > svs[s].info_serial THEN r.serial
                                                               ELSE svs[s].info_serial]
    BY <2>1 DEF Attach
  <2>9. servers'[s] \in Server
    BY <1>0, <2>7, <2>8 DEF Server
  <2>10. servers'[s].addresses = {q \in Protocol : addresses'[q] = s}
    <3>1. CASE s \in DOMAIN svs
      <4>1. servers'[s].addresses = {p} \cup {q \in Protocol : addresses[q] = s}
        BY <2>5, <2>7, <2>8, <3>1
      <4> QED
        BY <1>0, <2>3, <4>1
    <3>2. CASE s \notin DOMAIN svs
      <4>1. servers'[s].addresses = {p}
        BY <2>8, <3>2
      <4>2. \A q \in Protocol : addresses[q] # s \/ q = p
        BY <1>0, <2>6, <2>7, <3>2
      <4> QED
        BY <1>0, <2>3, <4>1, <4>2
    <3> QED
      BY <3>1, <3>2
  <2>11. \A t \in DOMAIN svs : t # s =>
           {q \in Protocol : addresses[q] = t /\ q # p} = {q \in Protocol : addresses'[q] = t}
    BY <2>3
  <2>12. MasterTypeOK'
    BY <1>0, <2>1, <2>3, <2>7, <2>8, <2>9, DumpKept DEF MasterInv, MasterTypeOK, Server, DumpTypeOK
  <2>13. \A q \in Protocol : addresses'[q] # None => addresses'[q] \in DOMAIN servers'
    BY <2>3, <2>7, <2>8
  <2>14. ASSUME NEW t \in DOMAIN servers'
         PROVE  /\ servers'[t].addresses = {q \in Protocol : addresses'[q] = t}
                /\ servers'[t].addresses # {}
    <3>1. CASE t = s
      BY <1>0, <2>3, <2>10, <3>1
    <3>2. CASE t # s
      BY <2>7, <2>8, <2>11, <3>2
    <3> QED
      BY <3>1, <3>2
  <2>15. MasterConsistent'
    BY <2>1, <2>13, <2>14, DumpKept DEF MasterConsistent
  <2>16. InfoKept
    <3>1. ASSUME NEW t \in DOMAIN servers \cap DOMAIN servers'
          PROVE  servers'[t].info_serial >= servers[t].info_serial
      <4>0. servers[t].info_serial \in Nat
        BY <1>0 DEF Server
      <4>1. CASE t # s
        BY <2>7, <2>8, <4>0, <4>1
      <4>2. CASE t = s
        <5>1. s \in DOMAIN svs /\ svs[s].info_serial = servers[s].info_serial
          BY <2>7, <3>1, <4>2
        <5>2. servers'[s].info_serial =
                IF r.serial > servers[s].info_serial THEN r.serial ELSE servers[s].info_serial
          BY <2>8, <5>1
        <5> QED
          BY <1>0, <4>0, <4>2, <5>2
      <4> QED
        BY <4>1, <4>2
    <3> QED
      BY <3>1 DEF InfoKept
  <2> QED
    BY <2>12, <2>15, <2>16 DEF MasterInv
<1> QED
  BY <1>1, <1>2

LEMMA RemoveKeeps ==
  ASSUME MasterInv, NEW s \in Secret, NEW p \in Protocol, Remove(s, p)
  PROVE  MasterInv' /\ InfoKept
<1>1. CASE addresses[p] = s
  BY <1>1, UnlistKeeps, NoneAssumption DEF Remove
<1>2. CASE addresses[p] # s
  BY <1>2, MasterUnchanged DEF Remove
<1> QED
  BY <1>1, <1>2

LEMMA ReseedKeeps ==
  ASSUME MasterInv, Reseed
  PROVE  MasterInv' /\ InfoKept
<1>1. seed' \in Nat /\ UNCHANGED <<addresses, servers, dump>>
  BY DEF MasterInv, MasterTypeOK, Reseed
<1> QED
  BY <1>1 DEF MasterInv, MasterTypeOK, MasterConsistent, DumpConsistent, InfoKept

\* What is written is consistent because the list is.
LEMMA WriteKeeps ==
  ASSUME MasterInv, WriteDump
  PROVE  MasterInv' /\ InfoKept
<1>1. /\ UNCHANGED <<addresses, servers, seed>>
      /\ dump'.addresses = addresses
      /\ DOMAIN dump'.serials = DOMAIN servers
      /\ \A s \in DOMAIN servers : dump'.serials[s] = servers[s].info_serial
  BY DEF WriteDump, Dump
<1>2. \A s \in DOMAIN servers : servers[s].info_serial \in Nat
  BY DEF MasterInv, MasterTypeOK
<1>3. MasterTypeOK'
  BY <1>1, <1>2 DEF MasterInv, MasterTypeOK
<1>4. DumpConsistent'
  BY <1>1 DEF MasterInv, MasterConsistent, DumpConsistent
<1> QED
  BY <1>1, <1>2, <1>3, <1>4 DEF MasterInv, MasterTypeOK, MasterConsistent, InfoKept

LEMMA RestartKeeps ==
  ASSUME MasterInv, RestartMaster
  PROVE  MasterInv' /\ InfoKept
<1>1. seed' \in Nat /\ UNCHANGED dump
  BY DEF MasterInv, MasterTypeOK, RestartMaster
<1>2. DumpTypeOK' /\ DumpConsistent'
  BY <1>1, DumpKept
<1>3. InfoKept
  BY DEF InfoKept
<1>4. CASE Empty
  <2>1. DOMAIN servers' = {}
    BY <1>4 DEF Empty
  <2>2. addresses' \in [Protocol -> Secret \cup {None}] /\ \A p \in Protocol : addresses'[p] = None
    BY <1>4 DEF Empty
  <2> QED
    BY <1>1, <1>2, <1>3, <2>1, <2>2 DEF MasterInv, MasterTypeOK, DumpTypeOK, MasterConsistent
<1>5. CASE FromDump
  <2>1. /\ addresses' = dump.addresses
        /\ DOMAIN servers' = DOMAIN dump.serials
        /\ \A s \in DOMAIN servers' :
             servers'[s] = [addresses |-> {p \in Protocol : addresses'[p] = s},
                            info_serial |-> dump.serials[s]]
    BY <1>5 DEF FromDump
  <2>2. /\ dump.addresses \in [Protocol -> Secret \cup {None}]
        /\ DOMAIN dump.serials \subseteq Secret
        /\ \A s \in DOMAIN dump.serials : dump.serials[s] \in Nat
    BY DEF MasterInv, MasterTypeOK
  <2>3. /\ \A p \in Protocol : dump.addresses[p] # None => dump.addresses[p] \in DOMAIN dump.serials
        /\ \A s \in DOMAIN dump.serials : \E p \in Protocol : dump.addresses[p] = s
    BY DEF MasterInv, MasterConsistent, DumpConsistent
  <2>4. \A s \in DOMAIN servers' :
          /\ servers'[s] \in Server
          /\ servers'[s].addresses = {p \in Protocol : addresses'[p] = s}
          /\ servers'[s].addresses # {}
    <3>1. ASSUME NEW s \in DOMAIN servers'
          PROVE  /\ servers'[s] \in Server
                 /\ servers'[s].addresses = {p \in Protocol : addresses'[p] = s}
                 /\ servers'[s].addresses # {}
      <4>1. servers'[s] = [addresses |-> {p \in Protocol : addresses'[p] = s},
                           info_serial |-> dump.serials[s]]
        BY <2>1
      <4>2. dump.serials[s] \in Nat /\ \E p \in Protocol : addresses'[p] = s
        BY <2>1, <2>2, <2>3
      <4> QED
        BY <4>1, <4>2 DEF Server
    <3> QED
      BY <3>1
  <2>5. MasterTypeOK'
    BY <1>1, <1>2, <2>1, <2>2, <2>4 DEF MasterTypeOK, DumpTypeOK, Server
  <2>6. MasterConsistent'
    BY <1>2, <2>1, <2>3, <2>4 DEF MasterConsistent
  <2> QED
    BY <1>3, <2>5, <2>6 DEF MasterInv
<1> QED
  BY <1>4, <1>5 DEF RestartMaster

-----------------------------------------------------------------------------
(***************************************************************************)
(* The requests of one protocol.  js stands for jobs[p], set for           *)
(* settled[p], rep for reply[p] and st for status[p].                      *)

Stages == {"sent", "success", "need_challenge", "need_info", "success 2", "need_info 2"}
Answers == {"success", "need_info", "need_challenge"}
Replies == {"none", "ok", "need_challenge", "need_info"}
Jobs == [request : Requests, stage : Stages, newest : BOOLEAN, overtaken : BOOLEAN]

Pending(j) == j.stage = "sent" \/ j.stage \in Answers

\* The newest request is the last one, not overtaken, and reply is its answer.
NewestLast(js, rep) ==
  \A i \in DOMAIN js : js[i].newest =>
    /\ ~js[i].overtaken
    /\ \A k \in DOMAIN js : k <= i
    /\ js[i].stage = "sent" => rep = "none"
    /\ js[i].stage \in Answers => rep = StatusOf(js[i].stage)

\* The answer to the newest request has been processed (cf. Processed).
Fixed(js, rep) == rep # "none" /\ \A i \in DOMAIN js : js[i].newest => js[i].stage \notin Answers

\* What then still comes has been overtaken, and the status is that answer.
LateOvertaken(js, rep) ==
  Fixed(js, rep) => \A i \in DOMAIN js : Pending(js[i]) /\ ~js[i].newest => js[i].overtaken
Result(js, set, rep, st) == Fixed(js, rep) /\ st # "none" => set /\ st = rep

Chain(js, set, rep, st) ==
  NewestLast(js, rep) /\ LateOvertaken(js, rep) /\ Result(js, set, rep, st)

LEMMA JobsSeq ==
  ASSUME NEW n \in Nat, NEW f \in [1 .. n -> Jobs]
  PROVE  f \in Seq(Jobs) /\ Len(f) = n /\ DOMAIN f = 1 .. n
<1>1. f \in Seq(Jobs)
  BY SeqDef
<1>2. Len(f) \in Nat /\ DOMAIN f = 1 .. Len(f)
  BY <1>1, LenProperties
<1> QED
  BY <1>1, <1>2

LEMMA JobsAre ==
  ASSUME NEW js \in Seq(Jobs)
  PROVE  /\ Len(js) \in Nat /\ DOMAIN js = 1 .. Len(js)
         /\ \A i \in DOMAIN js : js[i] \in Jobs
BY LenProperties, ElementOfSeq

\* A status is forgotten.
LEMMA ChainForgets ==
  ASSUME NEW js, NEW set, NEW rep, NEW st, Chain(js, set, rep, st)
  PROVE  Chain(js, set, rep, "none")
BY DEF Chain, Result

\* No request.
LEMMA ChainEmpty ==
  ASSUME NEW set
  PROVE  Chain(<<>>, set, "none", "none") /\ <<>> \in Seq(Jobs)
BY EmptySeq DEF Chain, NewestLast, LateOvertaken, Result, Fixed

\* A request is added.
LEMMA ChainSend ==
  ASSUME NEW js \in Seq(Jobs), NEW set, NEW st,
         NEW new \in Jobs, new.stage = "sent", new.newest, ~new.overtaken
  PROVE  /\ Append(Older(js), new) \in Seq(Jobs)
         /\ Chain(Append(Older(js), new), set, "none", st)
         /\ \A i \in DOMAIN Append(Older(js), new) :
              \/ i \in DOMAIN js /\ Append(Older(js), new)[i].request = js[i].request
              \/ Append(Older(js), new)[i].request = new.request
<1> DEFINE old == Older(js)
           all == Append(old, new)
           n == Len(js)
<1>1. n \in Nat /\ DOMAIN js = 1 .. n /\ \A i \in 1 .. n : js[i] \in Jobs
  BY JobsAre
<1>2. DOMAIN old = 1 .. n /\ \A i \in 1 .. n : old[i] = [js[i] EXCEPT !.newest = FALSE]
  BY <1>1 DEF Older
<1>3. \A i \in 1 .. n : old[i] \in Jobs /\ ~old[i].newest /\ old[i].request = js[i].request
  BY <1>1, <1>2 DEF Jobs
<1>4. old \in [1 .. n -> Jobs]
  BY <1>2, <1>3 DEF old, Older
<1>5. old \in Seq(Jobs) /\ Len(old) = n
  BY <1>1, <1>4, JobsSeq
<1> HIDE DEF old, n
<1>7. /\ all \in Seq(Jobs)
      /\ DOMAIN all = 1 .. n + 1
      /\ \A i \in 1 .. n : all[i] = old[i]
      /\ all[n + 1] = new
  BY <1>1, <1>5
<1> HIDE DEF all
<1>8. \A i \in DOMAIN all : all[i].newest => i = n + 1
  BY <1>1, <1>3, <1>7
<1>9. NewestLast(all, "none")
  BY <1>1, <1>7, <1>8 DEF NewestLast, Answers
<1>10. Chain(all, set, "none", st)
  BY <1>9 DEF Chain, LateOvertaken, Result, Fixed
<1>11. \A i \in DOMAIN all : \/ i \in DOMAIN js /\ all[i].request = js[i].request
                            \/ all[i].request = new.request
  BY <1>1, <1>3, <1>7
<1> QED
  BY <1>7, <1>10, <1>11 DEF all, old

\* The master answers request i.
LEMMA ChainReplied ==
  ASSUME NEW js \in Seq(Jobs), NEW set, NEW rep, NEW st, Chain(js, set, rep, st),
         NEW i \in DOMAIN js, js[i].stage = "sent", NEW a \in Answers,
         NEW next, next = [js EXCEPT ![i].stage = a],
         NEW after, after = IF js[i].newest THEN StatusOf(a) ELSE rep
  PROVE  /\ next \in Seq(Jobs)
         /\ Chain(next, set, after, st)
         /\ DOMAIN next = DOMAIN js
         /\ \A k \in DOMAIN js : next[k].request = js[k].request
<1> DEFINE n == Len(js)
<1>1. n \in Nat /\ DOMAIN js = 1 .. n /\ \A k \in 1 .. n : js[k] \in Jobs
  BY JobsAre
<1>2. /\ DOMAIN next = 1 .. n
      /\ \A k \in 1 .. n : k # i => next[k] = js[k]
      /\ next[i] = [js[i] EXCEPT !.stage = a]
      /\ next = [k \in 1 .. n |-> next[k]]
  BY <1>1
<1>3. /\ next[i] \in Jobs /\ next[i].newest = js[i].newest /\ next[i].stage = a
      /\ next[i].overtaken = js[i].overtaken /\ next[i].request = js[i].request
  BY <1>1, <1>2 DEF Jobs, Stages, Answers
<1>4. next \in [1 .. n -> Jobs]
  BY <1>1, <1>2, <1>3
<1>5. next \in Seq(Jobs)
  BY <1>1, <1>4, JobsSeq
<1>6. a # "sent" /\ StatusOf(a) # "none"
  BY DEF Answers, StatusOf
<1>7. \A k \in 1 .. n : /\ next[k].newest = js[k].newest
                        /\ next[k].overtaken = js[k].overtaken
                        /\ next[k].request = js[k].request
                        /\ k # i => next[k].stage = js[k].stage
  BY <1>1, <1>2, <1>3
<1> HIDE DEF n
<1>8. CASE js[i].newest
  <2>0. after = StatusOf(a)
    BY <1>8
  <2>1. \A k \in 1 .. n : js[k].newest => k = i
    BY <1>1, <1>8 DEF Chain, NewestLast
  <2>2. ~Fixed(next, after)
    BY <1>1, <1>2, <1>3, <1>8 DEF Fixed
  <2>3. NewestLast(next, after)
    BY <1>1, <1>2, <1>3, <1>6, <1>7, <2>0, <2>1 DEF Chain, NewestLast
  <2> QED
    BY <1>1, <1>2, <1>5, <1>7, <2>2, <2>3 DEF Chain, LateOvertaken, Result
<1>9. CASE ~js[i].newest
  <2>0. after = rep
    BY <1>9
  <2>1. NewestLast(next, rep)
    BY <1>1, <1>2, <1>7, <1>9 DEF Chain, NewestLast
  <2>2. Fixed(next, rep) => Fixed(js, rep)
    BY <1>1, <1>2, <1>7, <1>9 DEF Fixed
  <2>3. \A k \in 1 .. n : Pending(next[k]) => Pending(js[k])
    BY <1>7 DEF Pending
  <2>4. LateOvertaken(next, rep) /\ Result(next, set, rep, st)
    <3>1. LateOvertaken(js, rep) /\ Result(js, set, rep, st)
      BY DEF Chain
    <3>2. DOMAIN next = DOMAIN js
      BY <1>1, <1>2
    <3>3. \A k \in DOMAIN next : Pending(next[k]) /\ ~next[k].newest =>
            Pending(js[k]) /\ ~js[k].newest /\ next[k].overtaken = js[k].overtaken
      BY <1>1, <1>7, <2>3, <3>2
    <3>4. LateOvertaken(next, rep)
      BY <2>2, <3>1, <3>2, <3>3, Zenon DEF LateOvertaken
    <3>5. Result(next, set, rep, st)
      BY <2>2, <3>1 DEF Result
    <3> QED
      BY <3>4, <3>5
  <2> QED
    BY <1>1, <1>2, <1>5, <1>7, <2>0, <2>1, <2>4 DEF Chain
<1> QED
  BY <1>8, <1>9

\* The request that ends was not the newest one, or not pending, or takes its
\* answer with it.
LEMMA ChainDrop ==
  ASSUME NEW js \in Seq(Jobs), NEW set, NEW rep, NEW st, Chain(js, set, rep, st),
         NEW i \in DOMAIN js
  PROVE  /\ Drop(js, i) \in Seq(Jobs)
         /\ Chain(Drop(js, i), set, IF js[i].newest /\ Pending(js[i]) THEN "none" ELSE rep, st)
         /\ \A k \in DOMAIN Drop(js, i) :
              \E m \in DOMAIN js : Drop(js, i)[k].request = js[m].request
<1> DEFINE n == Len(js)
           next == Drop(js, i)
           M(k) == IF k < i THEN k ELSE k + 1
<1>1. n \in Nat /\ DOMAIN js = 1 .. n /\ \A k \in 1 .. n : js[k] \in Jobs
  BY JobsAre
<1>2. n - 1 \in Nat /\ i \in 1 .. n
  BY <1>1
<1>3. \A k \in 1 .. n - 1 : M(k) \in 1 .. n /\ M(k) # i /\ next[k] = js[M(k)]
  BY <1>1, <1>2 DEF Drop
<1>4. next \in [1 .. n - 1 -> Jobs]
  BY <1>1, <1>2, <1>3 DEF Drop
<1>5. next \in Seq(Jobs) /\ DOMAIN next = 1 .. n - 1
  BY <1>2, <1>4, JobsSeq
<1>6. \A k, m \in 1 .. n - 1 : M(m) <= M(k) => m <= k
  BY <1>2
<1>7. \A k \in 1 .. n : k # i => \E m \in 1 .. n - 1 : M(m) = k
  <2>1. ASSUME NEW k \in 1 .. n, k # i PROVE \E m \in 1 .. n - 1 : M(m) = k
    <3>1. CASE k < i
      BY <1>2, <3>1
    <3>2. CASE k > i
      <4>1. k - 1 \in 1 .. n - 1 /\ M(k - 1) = k
        BY <1>2, <3>2
      <4> QED
        BY <4>1
    <3> QED
      BY <1>2, <2>1, <3>1, <3>2
  <2> QED
    BY <2>1
<1> HIDE DEF n, next, M
<1>8. \A k \in DOMAIN next : \E m \in DOMAIN js : next[k].request = js[m].request
  BY <1>1, <1>3, <1>5
<1>9. \A k \in DOMAIN next : next[k].newest => /\ ~next[k].overtaken
                                               /\ \A m \in DOMAIN next : m <= k
  <2>1. ASSUME NEW k \in 1 .. n - 1, next[k].newest, NEW m \in 1 .. n - 1
        PROVE  ~next[k].overtaken /\ m <= k
    <3>1. js[M(k)].newest /\ M(k) \in DOMAIN js /\ M(m) \in DOMAIN js
      BY <1>1, <1>3, <2>1
    <3>2. ~js[M(k)].overtaken /\ M(m) <= M(k)
      BY <3>1 DEF Chain, NewestLast
    <3> QED
      BY <1>3, <1>6, <3>2
  <2> QED
    BY <1>5, <2>1
<1>10. CASE js[i].newest /\ Pending(js[i])
  <2>1. \A k \in DOMAIN next : ~next[k].newest
    <3>1. ASSUME NEW k \in 1 .. n - 1, js[M(k)].newest PROVE FALSE
      <4>1. M(k) \in DOMAIN js /\ i \in DOMAIN js /\ M(k) # i
        BY <1>1, <1>3
      <4>2. M(k) <= i /\ i <= M(k)
        BY <1>10, <3>1, <4>1 DEF Chain, NewestLast
      <4> QED
        BY <1>1, <4>1, <4>2
    <3> QED
      BY <1>3, <1>5, <3>1
  <2>2. Chain(next, set, "none", st)
    BY <2>1 DEF Chain, NewestLast, LateOvertaken, Result, Fixed
  <2> QED
    BY <1>5, <1>8, <1>10, <2>2 DEF next
<1>11. CASE ~(js[i].newest /\ Pending(js[i]))
  <2>1. NewestLast(next, rep)
    <3>1. ASSUME NEW k \in 1 .. n - 1, next[k].newest
          PROVE  /\ next[k].stage = "sent" => rep = "none"
                 /\ next[k].stage \in Answers => rep = StatusOf(next[k].stage)
      BY <1>1, <1>3, <3>1 DEF Chain, NewestLast
    <3> QED
      BY <1>5, <1>9, <3>1 DEF NewestLast
  <2>2. Fixed(next, rep) => Fixed(js, rep)
    <3>1. ASSUME Fixed(next, rep), NEW k \in 1 .. n, js[k].newest
          PROVE  js[k].stage \notin Answers
      <4>1. CASE k = i
        BY <1>11, <3>1, <4>1 DEF Pending
      <4>2. CASE k # i
        <5>1. PICK m \in 1 .. n - 1 : M(m) = k
          BY <1>7, <4>2
        <5>2. next[m] = js[k]
          BY <1>3, <5>1
        <5> QED
          BY <1>5, <3>1, <5>2 DEF Fixed
      <4> QED
        BY <4>1, <4>2
    <3> QED
      BY <1>1, <3>1 DEF Fixed
  <2>3. LateOvertaken(next, rep)
    <3>1. ASSUME Fixed(next, rep), NEW k \in 1 .. n - 1, Pending(next[k]), ~next[k].newest
          PROVE  next[k].overtaken
      <4>1. Fixed(js, rep) /\ M(k) \in DOMAIN js /\ next[k] = js[M(k)]
        BY <1>1, <1>3, <2>2, <3>1
      <4> QED
        BY <3>1, <4>1 DEF Chain, LateOvertaken
    <3> QED
      BY <1>5, <3>1 DEF LateOvertaken
  <2>4. Result(next, set, rep, st)
    BY <2>2 DEF Chain, Result
  <2>5. Chain(next, set, rep, st)
    BY <2>1, <2>3, <2>4 DEF Chain
  <2> QED
    BY <1>5, <1>8, <1>11, <2>5 DEF next
<1> QED
  BY <1>10, <1>11

\* AfterStatus without the end of the request.
Marked(js, i) ==
  [k \in DOMAIN js |-> IF k < i THEN [js[k] EXCEPT !.overtaken = TRUE]
                       ELSE IF k = i THEN [js[k] EXCEPT !.stage = Second(@)]
                       ELSE js[k]]

\* The first critical section for the answer to request i.
LEMMA ChainStatus ==
  ASSUME NEW js \in Seq(Jobs), NEW set, NEW rep, NEW st, Chain(js, set, rep, st),
         NEW i \in DOMAIN js, js[i].stage \in Answers,
         NEW set2, set2 = IF js[i].overtaken THEN set ELSE js[i].newest,
         NEW st2, st2 = IF js[i].overtaken THEN st ELSE StatusOf(js[i].stage)
  PROVE  /\ Marked(js, i) \in Seq(Jobs)
         /\ Chain(Marked(js, i), set2, rep, st2)
         /\ DOMAIN Marked(js, i) = DOMAIN js
         /\ \A k \in DOMAIN js : Marked(js, i)[k].request = js[k].request
         /\ ~Pending(Marked(js, i)[i])
<1> DEFINE n == Len(js)
           next == Marked(js, i)
<1>1. n \in Nat /\ DOMAIN js = 1 .. n /\ \A k \in 1 .. n : js[k] \in Jobs
  BY JobsAre
<1>2. /\ DOMAIN next = 1 .. n
      /\ \A k \in 1 .. n : k < i => next[k] = [js[k] EXCEPT !.overtaken = TRUE]
      /\ next[i] = [js[i] EXCEPT !.stage = Second(@)]
      /\ \A k \in 1 .. n : k > i => next[k] = js[k]
      /\ next = [k \in 1 .. n |-> next[k]]
  BY <1>1 DEF Marked
<1>3. /\ Second(js[i].stage) \in Stages /\ Second(js[i].stage) # "sent"
      /\ Second(js[i].stage) \notin Answers
  BY DEF Second, Stages, Answers
<1> HIDE DEF next, n
<1>4. /\ next[i] \in Jobs /\ next[i].newest = js[i].newest /\ next[i].request = js[i].request
      /\ next[i].stage # "sent" /\ next[i].stage \notin Answers
      /\ next[i].overtaken = js[i].overtaken
  BY <1>1, <1>2, <1>3 DEF Jobs
<1>5. \A k \in 1 .. n : k # i => /\ next[k] \in Jobs
                                 /\ next[k].newest = js[k].newest
                                 /\ next[k].request = js[k].request
                                 /\ next[k].stage = js[k].stage
                                 /\ k < i => next[k].overtaken
                                 /\ k > i => next[k].overtaken = js[k].overtaken
  <2>1. ASSUME NEW k \in 1 .. n, k < i
        PROVE  /\ next[k] \in Jobs /\ next[k].newest = js[k].newest
               /\ next[k].request = js[k].request /\ next[k].stage = js[k].stage
               /\ next[k].overtaken
    <3>1. js[k] \in Jobs /\ next[k] = [js[k] EXCEPT !.overtaken = TRUE]
      BY <1>1, <1>2, <2>1
    <3> QED
      BY <3>1 DEF Jobs
  <2>2. ASSUME NEW k \in 1 .. n, k > i
        PROVE  next[k] \in Jobs /\ next[k] = js[k]
    BY <1>1, <1>2, <2>2
  <2>3. i \in 1 .. n
    BY <1>1
  <2> QED
    BY <1>1, <2>1, <2>2, <2>3
<1>6. next \in [1 .. n -> Jobs]
  BY <1>1, <1>2, <1>4, <1>5
<1>7. next \in Seq(Jobs)
  BY <1>1, <1>6, JobsSeq
<1>8. NewestLast(next, rep)
  <2>1. ASSUME NEW k \in 1 .. n, next[k].newest
        PROVE  /\ ~next[k].overtaken
               /\ \A m \in 1 .. n : m <= k
               /\ next[k].stage = "sent" => rep = "none"
               /\ next[k].stage \in Answers => rep = StatusOf(next[k].stage)
    <3>1. js[k].newest
      BY <1>4, <1>5, <2>1
    <3>2. /\ ~js[k].overtaken
          /\ \A m \in 1 .. n : m <= k
          /\ js[k].stage = "sent" => rep = "none"
          /\ js[k].stage \in Answers => rep = StatusOf(js[k].stage)
      BY <1>1, <3>1 DEF Chain, NewestLast
    <3>3. k = i \/ k > i
      BY <1>1, <3>2
    <3> QED
      BY <1>4, <1>5, <3>2, <3>3
  <2> QED
    BY <1>2, <2>1 DEF NewestLast
<1>9. CASE js[i].newest
  <2>1. /\ ~js[i].overtaken
        /\ \A k \in 1 .. n : k <= i
        /\ rep = StatusOf(js[i].stage)
    BY <1>1, <1>9 DEF Chain, NewestLast
  <2>2. LateOvertaken(next, rep)
    <3>1. ASSUME NEW k \in 1 .. n, Pending(next[k])
          PROVE  next[k].overtaken
      <4>1. k # i
        BY <1>4, <3>1 DEF Pending
      <4>2. k < i
        BY <1>1, <2>1, <4>1
      <4> QED
        BY <1>5, <4>1, <4>2
    <3> QED
      BY <1>2, <3>1 DEF LateOvertaken
  <2>3. set2 /\ st2 = rep
    BY <1>9, <2>1
  <2> QED
    BY <1>1, <1>2, <1>4, <1>5, <1>7, <1>8, <2>2, <2>3 DEF Chain, Result, Pending, next
<1>10. CASE ~js[i].newest
  <2>1. Fixed(next, rep) => Fixed(js, rep)
    BY <1>1, <1>2, <1>5, <1>10 DEF Fixed
  <2>2. LateOvertaken(next, rep)
    <3>1. ASSUME Fixed(next, rep), NEW k \in 1 .. n, Pending(next[k]), ~next[k].newest
          PROVE  next[k].overtaken
      <4>1. k # i
        BY <1>4, <3>1 DEF Pending
      <4>2. Pending(js[k]) /\ ~js[k].newest
        BY <1>5, <3>1, <4>1 DEF Pending
      <4>3. js[k].overtaken
        BY <1>1, <2>1, <3>1, <4>2 DEF Chain, LateOvertaken
      <4> QED
        BY <1>1, <1>5, <4>1, <4>3
    <3> QED
      BY <1>2, <3>1 DEF LateOvertaken
  <2>3. Result(next, set2, rep, st2)
    <3>1. SUFFICES ASSUME Fixed(next, rep), st2 # "none"
                   PROVE  set2 /\ st2 = rep
      BY DEF Result
    <3>2. js[i].overtaken
      BY <1>10, <2>1, <3>1 DEF Chain, LateOvertaken, Pending
    <3> QED
      BY <2>1, <3>1, <3>2 DEF Chain, Result
  <2> QED
    BY <1>1, <1>2, <1>4, <1>5, <1>7, <1>8, <2>2, <2>3 DEF Chain, Pending, next
<1> QED
  BY <1>9, <1>10

-----------------------------------------------------------------------------
(***************************************************************************)
(* The game server and the network.                                        *)

GameOK ==
  /\ run \in Secret /\ up \in BOOLEAN /\ enabled \in [Protocol -> BOOLEAN]
  /\ status \in [Protocol -> Replies] /\ reply \in [Protocol -> Replies]
  /\ settled \in [Protocol -> BOOLEAN] /\ newToken \in [Protocol -> BOOLEAN]
  /\ token \in [Protocol -> Nat]
  /\ infoSerial \in Nat /\ latestInfo \in -1 .. infoSerial
  /\ trouble \in 0 .. MaxTrouble

NetOK ==
  /\ strays \subseteq Requests
  /\ deletes \subseteq [secret : Secret, protocol : Protocol]
  /\ challenges \subseteq [protocol : Protocol, token : Nat]

JobsOK ==
  /\ jobs \in [Protocol -> Seq(Jobs)]
  /\ \A p \in Protocol : \A i \in DOMAIN jobs[p] : jobs[p][i].request.serial <= infoSerial

Chains == \A p \in Protocol : Chain(jobs[p], settled[p], reply[p], status[p])

ServerInv == GameOK /\ NetOK /\ JobsOK /\ Chains
IInv == MasterInv /\ ServerInv

LEMMA TroubleIs ==
  ASSUME GameOK, Trouble
  PROVE  trouble' \in 0 .. MaxTrouble
BY TroubleAssumption DEF GameOK, Trouble

\* SendRegister for the protocols of P.
LEMMA Sends ==
  ASSUME ServerInv, NEW P \in SUBSET Protocol, NEW serial \in Nat, serial >= infoSerial,
         NEW held \in [Protocol -> Nat], SendRegister(P, serial, held), infoSerial' = serial,
         \A p \in Protocol : status'[p] \in {status[p], "none"}
  PROVE  /\ JobsOK' /\ Chains'
         /\ settled' \in [Protocol -> BOOLEAN] /\ reply' \in [Protocol -> Replies]
<1>1. /\ jobs' = [p \in Protocol |-> IF p \in P
                                       THEN Append(Older(jobs[p]), Started(p, serial, held))
                                       ELSE jobs[p]]
      /\ settled' = [p \in Protocol |-> p \notin P /\ settled[p]]
      /\ reply' = [p \in Protocol |-> IF p \in P THEN "none" ELSE reply[p]]
  BY DEF SendRegister
<1>2. settled' \in [Protocol -> BOOLEAN] /\ reply' \in [Protocol -> Replies]
  BY <1>1 DEF ServerInv, GameOK, Replies
<1>3. ASSUME NEW p \in Protocol
      PROVE  /\ jobs'[p] \in Seq(Jobs)
             /\ Chain(jobs'[p], settled'[p], reply'[p], status'[p])
             /\ \A i \in DOMAIN jobs'[p] : jobs'[p][i].request.serial <= serial
  <2>1. /\ jobs[p] \in Seq(Jobs)
        /\ Chain(jobs[p], settled[p], reply[p], status[p])
        /\ \A i \in DOMAIN jobs[p] : jobs[p][i].request.serial <= infoSerial
    BY DEF ServerInv, JobsOK, Chains
  <2>2. \A i \in DOMAIN jobs[p] : jobs[p][i] \in Jobs
    BY <2>1, JobsAre
  <2>3. \A i \in DOMAIN jobs[p] : jobs[p][i].request.serial \in Nat
    BY <2>2 DEF Jobs, Requests
  <2>4. \A i \in DOMAIN jobs[p] : jobs[p][i].request.serial <= serial
    BY <2>1, <2>3 DEF ServerInv, GameOK
  <2>5. CASE p \in P
    <3> DEFINE new == Started(p, serial, held)
               js == jobs[p]
               set2 == settled'[p]
               st2 == status'[p]
               all == Append(Older(js), new)
    <3>1. Request(p, serial, held) \in Requests /\ Request(p, serial, held).serial = serial
      BY DEF Request, Requests, ServerInv, GameOK
    <3>2. /\ new \in Jobs /\ new.stage = "sent" /\ new.newest /\ ~new.overtaken
          /\ new.request.serial = serial
      BY <3>1 DEF Started, Jobs, Stages
    <3>3. jobs'[p] = all /\ settled'[p] = FALSE /\ reply'[p] = "none"
      BY <1>1, <2>5
    <3>4. js \in Seq(Jobs)
      BY <2>1
    <3> HIDE DEF new, js, set2, st2
    <3>5. /\ all \in Seq(Jobs)
          /\ Chain(all, set2, "none", st2)
          /\ \A i \in DOMAIN all : \/ i \in DOMAIN js /\ all[i].request = js[i].request
                                   \/ all[i].request = new.request
      BY <3>2, <3>4, ChainSend
    <3> HIDE DEF all
    <3> QED
      BY <2>4, <3>2, <3>3, <3>5 DEF js, set2, st2
  <2>6. CASE p \notin P
    <3>1. jobs'[p] = jobs[p] /\ settled'[p] = settled[p] /\ reply'[p] = reply[p]
      BY <1>1, <2>6 DEF ServerInv, GameOK
    <3> QED
      BY <2>1, <2>4, <3>1, ChainForgets
  <2> QED
    BY <2>5, <2>6
<1>4. jobs' \in [Protocol -> Seq(Jobs)]
  BY <1>1, <1>3
<1> QED
  BY <1>2, <1>3, <1>4 DEF JobsOK, Chains

\* A step that concerns only the requests of p, of which it starts none.
LEMMA OneChain ==
  ASSUME ServerInv, NEW p \in Protocol, NEW js \in Seq(Jobs),
         jobs' = [jobs EXCEPT ![p] = js],
         NEW set, settled'[p] = set, NEW rep, reply'[p] = rep, NEW st, status'[p] = st,
         \A q \in Protocol : q # p => /\ settled'[q] = settled[q]
                                      /\ reply'[q] = reply[q]
                                      /\ status'[q] = status[q],
         Chain(js, set, rep, st),
         \A k \in DOMAIN js : \E m \in DOMAIN jobs[p] : js[k].request = jobs[p][m].request,
         UNCHANGED infoSerial
  PROVE  JobsOK' /\ Chains'
<1>1. /\ jobs' \in [Protocol -> Seq(Jobs)]
      /\ jobs'[p] = js
      /\ \A q \in Protocol : q # p => jobs'[q] = jobs[q]
  BY DEF ServerInv, JobsOK
<1>2. JobsOK'
  BY <1>1 DEF ServerInv, JobsOK
<1>3. Chains'
  BY <1>1 DEF ServerInv, Chains
<1> QED
  BY <1>2, <1>3

\* No request is started or answered; a status may be forgotten.
LEMMA SameJobs ==
  ASSUME ServerInv, UNCHANGED <<infoSerial, jobs, settled, reply>>,
         \A p \in Protocol : status'[p] \in {status[p], "none"}
  PROVE  JobsOK' /\ Chains'
<1>1. JobsOK'
  BY DEF ServerInv, JobsOK
<1>2. ASSUME NEW p \in Protocol
      PROVE  Chain(jobs'[p], settled'[p], reply'[p], status'[p])
  <2>1. Chain(jobs[p], settled[p], reply[p], status[p])
    BY DEF ServerInv, Chains
  <2>2. Chain(jobs[p], settled[p], reply[p], "none")
    BY <2>1, ChainForgets
  <2> QED
    BY <2>1, <2>2
<1> QED
  BY <1>1, <1>2 DEF Chains

LEMMA UpdateStep ==
  ASSUME ServerInv, NEW p \in Protocol, Update(p)
  PROVE  ServerInv'
<1>1. /\ SendRegister({p}, infoSerial, token)
      /\ newToken' = [newToken EXCEPT ![p] = FALSE]
      /\ UNCHANGED <<run, up, enabled, status, token, infoSerial, latestInfo, strays, deletes,
                     challenges>>
      /\ trouble' = trouble \/ Trouble
  BY DEF Update, UpdateAlways, Timer, serialVars, netVars
<1>2. /\ infoSerial \in Nat /\ infoSerial >= infoSerial /\ token \in [Protocol -> Nat]
      /\ {p} \in SUBSET Protocol
  BY DEF ServerInv, GameOK
<1>3. /\ JobsOK' /\ Chains'
      /\ settled' \in [Protocol -> BOOLEAN] /\ reply' \in [Protocol -> Replies]
  BY <1>1, <1>2, Sends
<1>4. trouble' \in 0 .. MaxTrouble
  BY <1>1, TroubleIs DEF ServerInv, GameOK
<1>5. GameOK' /\ NetOK'
  BY <1>1, <1>3, <1>4 DEF ServerInv, GameOK, NetOK
<1> QED
  BY <1>3, <1>5 DEF ServerInv

LEMMA ChallengeStep ==
  ASSUME ServerInv, NEW c \in challenges, Challenge(c)
  PROVE  ServerInv'
<1> DEFINE p == c.protocol
           held == [token EXCEPT ![p] = c.token]
<1>1. p \in Protocol /\ c.token \in Nat
  BY DEF ServerInv, NetOK
<1>2. held \in [Protocol -> Nat]
  BY <1>1 DEF ServerInv, GameOK
<1>3. /\ token' = held
      /\ \/ SendRegister({p}, infoSerial, held) /\ newToken' = [newToken EXCEPT ![p] = FALSE]
         \/ newToken' = [newToken EXCEPT ![p] = TRUE] /\ UNCHANGED <<jobs, settled, reply>>
      /\ UNCHANGED <<run, up, enabled, status, infoSerial, latestInfo, strays, deletes>>
      /\ challenges' \subseteq challenges
      /\ trouble' = trouble \/ Trouble
  BY DEF Challenge, OnToken, Timer, serialVars
<1> HIDE DEF held, p
<1>4. trouble' \in 0 .. MaxTrouble
  BY <1>3, TroubleIs DEF ServerInv, GameOK
<1>5. /\ JobsOK' /\ Chains'
      /\ settled' \in [Protocol -> BOOLEAN] /\ reply' \in [Protocol -> Replies]
  <2>1. CASE SendRegister({p}, infoSerial, held)
    <3>1. infoSerial \in Nat /\ infoSerial >= infoSerial /\ {p} \in SUBSET Protocol
      BY <1>1 DEF ServerInv, GameOK
    <3> QED
      BY <1>2, <1>3, <2>1, <3>1, Sends
  <2>2. CASE UNCHANGED <<jobs, settled, reply>>
    BY <1>3, <2>2, SameJobs DEF ServerInv, GameOK
  <2> QED
    BY <1>3, <2>1, <2>2
<1>6. GameOK'
  BY <1>2, <1>3, <1>4, <1>5 DEF ServerInv, GameOK
<1>7. NetOK'
  BY <1>3 DEF ServerInv, NetOK
<1> QED
  BY <1>5, <1>6, <1>7 DEF ServerInv

LEMMA NewInfoStep ==
  ASSUME ServerInv, OnNewInfo
  PROVE  ServerInv'
<1>1. /\ Trouble
      /\ infoSerial' = infoSerial + 1
      /\ UNCHANGED <<run, up, enabled, status, token, latestInfo, strays, deletes, challenges>>
  BY DEF OnNewInfo, netVars
<1>2. PICK P \in SUBSET Protocol : /\ SendRegister(P, infoSerial + 1, token)
                                   /\ newToken' = [p \in Protocol |-> p \notin P /\ newToken[p]]
  BY DEF OnNewInfo
<1>3. /\ infoSerial + 1 \in Nat /\ infoSerial + 1 >= infoSerial /\ token \in [Protocol -> Nat]
      /\ latestInfo \in -1 .. infoSerial + 1
  BY DEF ServerInv, GameOK
<1>4. /\ JobsOK' /\ Chains'
      /\ settled' \in [Protocol -> BOOLEAN] /\ reply' \in [Protocol -> Replies]
  BY <1>1, <1>2, <1>3, Sends
<1>5. GameOK'
  BY <1>1, <1>2, <1>3, <1>4, TroubleIs DEF ServerInv, GameOK
<1> QED
  BY <1>1, <1>4, <1>5 DEF ServerInv, NetOK

LEMMA DeletesAre ==
  ASSUME GameOK, NEW P \in SUBSET Protocol
  PROVE  Deletes(P) \subseteq [secret : Secret, protocol : Protocol]
BY DEF GameOK, Deletes

LEMMA ConfigStep ==
  ASSUME ServerInv, OnConfigChange
  PROVE  ServerInv'
<1>1. /\ Trouble
      /\ UNCHANGED <<run, up, token, infoSerial, latestInfo, strays, challenges>>
  BY DEF OnConfigChange, serialVars
<1>2. PICK E \in [Protocol -> BOOLEAN], comes \in SUBSET Protocol, goes \in SUBSET Protocol :
        /\ enabled' = E
        /\ SendRegister(comes, infoSerial, token)
        /\ newToken' = [p \in Protocol |-> p \notin comes /\ newToken[p]]
        /\ deletes' = deletes \cup Deletes(goes)
        /\ status' = [p \in Protocol |-> IF p \in goes THEN "none" ELSE status[p]]
  <2>1. PICK E \in [Protocol -> BOOLEAN] :
          LET comes == {p \in Protocol : E[p] /\ ~enabled[p]}
              goes == {p \in Protocol : enabled[p] /\ ~E[p]}
          IN  /\ enabled' = E
              /\ SendRegister(comes, infoSerial, token)
              /\ newToken' = [p \in Protocol |-> p \notin comes /\ newToken[p]]
              /\ deletes' = deletes \cup Deletes(goes)
              /\ status' = [p \in Protocol |-> IF p \in goes THEN "none" ELSE status[p]]
    BY DEF OnConfigChange
  <2>2. /\ {p \in Protocol : E[p] /\ ~enabled[p]} \in SUBSET Protocol
        /\ {p \in Protocol : enabled[p] /\ ~E[p]} \in SUBSET Protocol
    OBVIOUS
  <2> QED
    BY <2>1, <2>2
<1>3. /\ infoSerial \in Nat /\ infoSerial >= infoSerial /\ token \in [Protocol -> Nat]
      /\ infoSerial' = infoSerial
  BY <1>1 DEF ServerInv, GameOK
<1>4. \A p \in Protocol : status'[p] \in {status[p], "none"}
  BY <1>2
<1>5. /\ JobsOK' /\ Chains'
      /\ settled' \in [Protocol -> BOOLEAN] /\ reply' \in [Protocol -> Replies]
  BY <1>2, <1>3, <1>4, Sends
<1>6. status' \in [Protocol -> Replies] /\ newToken' \in [Protocol -> BOOLEAN]
  BY <1>2 DEF ServerInv, GameOK, Replies
<1>7. GameOK'
  BY <1>1, <1>2, <1>5, <1>6, TroubleIs DEF ServerInv, GameOK
<1>8. Deletes(goes) \subseteq [secret : Secret, protocol : Protocol]
  BY DeletesAre DEF ServerInv
<1>9. NetOK'
  BY <1>1, <1>2, <1>8 DEF ServerInv, NetOK
<1> QED
  BY <1>5, <1>7, <1>9 DEF ServerInv

LEMMA EndsStep ==
  ASSUME ServerInv, OnShutdown \/ Crash
  PROVE  ServerInv'
<1>1. /\ Trouble
      /\ up' = FALSE
      /\ strays' = strays \cup UNION {{jobs[p][i].request : i \in {k \in DOMAIN jobs[p] :
                                                                  jobs[p][k].stage = "sent"}} :
                                        p \in Protocol}
      /\ challenges' = {}
      /\ enabled' = [p \in Protocol |-> TRUE]
      /\ status' = [p \in Protocol |-> "none"] /\ settled' = [p \in Protocol |-> TRUE]
      /\ token' = [p \in Protocol |-> NoToken] /\ newToken' = [p \in Protocol |-> FALSE]
      /\ infoSerial' = 0 /\ latestInfo' = -1
      /\ jobs' = [p \in Protocol |-> <<>>] /\ reply' = [p \in Protocol |-> "none"]
      /\ run' = run
  BY DEF OnShutdown, Crash, Ends, Each
<1>2. GameOK'
  <2>1. trouble' \in 0 .. MaxTrouble
    BY <1>1, TroubleIs DEF ServerInv
  <2>2. infoSerial' \in Nat /\ latestInfo' \in -1 .. infoSerial'
    BY <1>1
  <2>3. token' \in [Protocol -> Nat]
    BY <1>1 DEF NoToken
  <2>4. status' \in [Protocol -> Replies] /\ reply' \in [Protocol -> Replies]
    BY <1>1 DEF Replies
  <2> QED
    BY <1>1, <2>1, <2>2, <2>3, <2>4 DEF ServerInv, GameOK
<1>3. strays' \subseteq Requests
  <2>1. ASSUME NEW p \in Protocol, NEW i \in DOMAIN jobs[p]
        PROVE  jobs[p][i].request \in Requests
    <3>1. jobs[p] \in Seq(Jobs)
      BY DEF ServerInv, JobsOK
    <3>2. jobs[p][i] \in Jobs
      BY <3>1, JobsAre
    <3> QED
      BY <3>2 DEF Jobs
  <2> QED
    BY <1>1, <2>1 DEF ServerInv, NetOK
<1>4. deletes' \subseteq [secret : Secret, protocol : Protocol]
  <2>1. CASE OnShutdown
    <3>1. deletes' = deletes \cup Deletes({p \in Protocol : enabled[p]})
      BY <2>1 DEF OnShutdown
    <3>2. Deletes({p \in Protocol : enabled[p]}) \subseteq [secret : Secret, protocol : Protocol]
      BY DeletesAre DEF ServerInv
    <3> QED
      BY <3>1, <3>2 DEF ServerInv, NetOK
  <2>2. CASE Crash
    BY <2>2 DEF Crash, ServerInv, NetOK
  <2> QED
    BY <2>1, <2>2
<1>5. NetOK'
  BY <1>1, <1>3, <1>4 DEF NetOK
<1>6. \A p \in Protocol : /\ jobs'[p] = <<>> /\ reply'[p] = "none" /\ status'[p] = "none"
                          /\ settled'[p] = TRUE
  BY <1>1
<1>7. <<>> \in Seq(Jobs) /\ DOMAIN <<>> = {}
  BY EmptySeq
<1>8. JobsOK'
  BY <1>1, <1>6, <1>7 DEF JobsOK
<1>9. Chains'
  BY <1>6, ChainEmpty DEF Chains
<1> QED
  BY <1>2, <1>5, <1>8, <1>9 DEF ServerInv

LEMMA StartStep ==
  ASSUME ServerInv, Start
  PROVE  ServerInv'
<1>1. /\ run' \in Secret /\ up' = TRUE
      /\ UNCHANGED <<enabled, status, settled, token, newToken, infoSerial, latestInfo, jobs,
                     strays, deletes, challenges, trouble, reply>>
  BY DEF Start, protocolVars, serialVars, netVars
<1>2. JobsOK' /\ Chains'
  BY <1>1, SameJobs
<1>3. GameOK' /\ NetOK'
  BY <1>1 DEF ServerInv, GameOK, NetOK
<1> QED
  BY <1>2, <1>3 DEF ServerInv

\* A request under way.
LEMMA JobIs ==
  ASSUME ServerInv, NEW p \in Protocol, NEW i \in DOMAIN jobs[p]
  PROVE  /\ jobs[p] \in Seq(Jobs) /\ jobs[p][i] \in Jobs
         /\ jobs[p][i].request \in Requests
         /\ jobs[p][i].request.serial \in 0 .. infoSerial
         /\ Chain(jobs[p], settled[p], reply[p], status[p])
<1>1. /\ jobs[p] \in Seq(Jobs)
      /\ Chain(jobs[p], settled[p], reply[p], status[p])
      /\ jobs[p][i].request.serial <= infoSerial
  BY DEF ServerInv, JobsOK, Chains
<1>2. jobs[p][i] \in Jobs
  BY <1>1, JobsAre
<1>3. jobs[p][i].request \in Requests
  BY <1>2 DEF Jobs
<1>4. jobs[p][i].request.serial \in 0 .. infoSerial
  BY <1>1, <1>3 DEF Requests, ServerInv, GameOK
<1> QED
  BY <1>1, <1>2, <1>3, <1>4

LEMMA StatusStep ==
  ASSUME ServerInv, NEW p \in Protocol, NEW i \in DOMAIN jobs[p], JobStatus(p, i)
  PROVE  ServerInv'
<1> DEFINE js == jobs[p]
           set2 == IF js[i].overtaken THEN settled[p] ELSE js[i].newest
           st2 == IF js[i].overtaken THEN status[p] ELSE StatusOf(js[i].stage)
           marked == Marked(js, i)
           last == IF js[i].stage = "need_challenge" THEN Drop(marked, i) ELSE marked
<1>1. /\ js[i].stage \in Answers
      /\ status' = [status EXCEPT ![p] = st2]
      /\ settled' = [settled EXCEPT ![p] = set2]
      /\ jobs' = [jobs EXCEPT ![p] = last]
      /\ UNCHANGED <<run, up, enabled, token, newToken, infoSerial, latestInfo, strays,
                     deletes, challenges, trouble, reply>>
  <2>1. CASE js[i].overtaken
    BY <2>1 DEF JobStatus, Answered, Answers, AfterStatus, Marked, serialVars, netVars, ServerInv,
                GameOK
  <2>2. CASE ~js[i].overtaken
    BY <2>2 DEF JobStatus, Answered, Answers, SetStatus, AfterStatus, Marked, serialVars, netVars
  <2> QED
    BY <2>1, <2>2
<1>2. /\ js \in Seq(Jobs) /\ js[i] \in Jobs /\ i \in DOMAIN js
      /\ Chain(js, settled[p], reply[p], status[p])
  BY JobIs
<1>3. st2 \in Replies /\ set2 \in BOOLEAN
  BY <1>1, <1>2 DEF ServerInv, GameOK, Replies, StatusOf, Answers, Jobs
<1>4. /\ settled' \in [Protocol -> BOOLEAN] /\ settled'[p] = set2
      /\ status' \in [Protocol -> Replies] /\ status'[p] = st2
  BY <1>1, <1>3 DEF ServerInv, GameOK
<1> HIDE DEF js, marked
<1>6. /\ marked \in Seq(Jobs)
      /\ Chain(marked, set2, reply[p], st2)
      /\ DOMAIN marked = DOMAIN js
      /\ \A k \in DOMAIN js : marked[k].request = js[k].request
      /\ ~Pending(marked[i])
  BY <1>1, <1>2, ChainStatus DEF marked
<1> HIDE DEF set2, st2
<1>7. /\ last \in Seq(Jobs)
      /\ Chain(last, set2, reply[p], st2)
      /\ \A k \in DOMAIN last : \E m \in DOMAIN js : last[k].request = js[m].request
  <2>1. CASE js[i].stage = "need_challenge"
    <3>0. i \in DOMAIN marked
      BY <1>2, <1>6
    <3>1. /\ Drop(marked, i) \in Seq(Jobs)
          /\ Chain(Drop(marked, i), set2,
                   IF marked[i].newest /\ Pending(marked[i]) THEN "none" ELSE reply[p], st2)
          /\ \A k \in DOMAIN Drop(marked, i) :
               \E m \in DOMAIN marked : Drop(marked, i)[k].request = marked[m].request
      BY <1>6, <3>0, ChainDrop
    <3>2. last = Drop(marked, i)
      BY <2>1
    <3> QED
      BY <1>6, <3>1, <3>2
  <2>2. CASE js[i].stage # "need_challenge"
    BY <1>6, <2>2
  <2> QED
    BY <2>1, <2>2
<1> HIDE DEF last
<1>8. JobsOK' /\ Chains'
  <2>1. /\ jobs' = [jobs EXCEPT ![p] = last]
        /\ settled'[p] = set2 /\ reply'[p] = reply[p] /\ status'[p] = st2
        /\ \A q \in Protocol : q # p => /\ settled'[q] = settled[q]
                                        /\ reply'[q] = reply[q]
                                        /\ status'[q] = status[q]
        /\ UNCHANGED infoSerial
    BY <1>1, <1>4 DEF ServerInv, GameOK
  <2>3. \A k \in DOMAIN last : \E m \in DOMAIN jobs[p] : last[k].request = jobs[p][m].request
    BY <1>7 DEF js
  <2> QED
    BY <1>7, <2>1, <2>3, OneChain
<1>9. GameOK' /\ NetOK'
  BY <1>1, <1>4 DEF ServerInv, GameOK, NetOK
<1> QED
  BY <1>8, <1>9 DEF ServerInv

\* A request ends without touching the status.
LEMMA RequestEnds ==
  ASSUME ServerInv, NEW p \in Protocol, NEW i \in DOMAIN jobs[p],
         jobs' = [jobs EXCEPT ![p] = Drop(@, i)],
         reply' = [reply EXCEPT ![p] =
                     IF jobs[p][i].newest /\ Pending(jobs[p][i]) THEN "none" ELSE @],
         UNCHANGED <<status, settled, infoSerial>>
  PROVE  JobsOK' /\ Chains' /\ reply' \in [Protocol -> Replies]
<1> DEFINE js == jobs[p]
           rep == IF js[i].newest /\ Pending(js[i]) THEN "none" ELSE reply[p]
           last == Drop(js, i)
           set == settled[p]
           st == status[p]
<1>1. js \in Seq(Jobs) /\ i \in DOMAIN js /\ Chain(js, settled[p], reply[p], status[p])
  BY JobIs
<1>2. /\ jobs' = [jobs EXCEPT ![p] = last]
      /\ settled'[p] = set /\ reply'[p] = rep /\ status'[p] = st
      /\ \A q \in Protocol : q # p => /\ settled'[q] = settled[q]
                                      /\ reply'[q] = reply[q]
                                      /\ status'[q] = status[q]
      /\ UNCHANGED infoSerial
  BY DEF ServerInv, GameOK, JobsOK
<1>3. reply' \in [Protocol -> Replies]
  BY DEF ServerInv, GameOK, Replies
<1> HIDE DEF js
<1>4. /\ last \in Seq(Jobs)
      /\ Chain(last, set, rep, st)
      /\ \A k \in DOMAIN last : \E m \in DOMAIN js : last[k].request = js[m].request
  BY <1>1, ChainDrop
<1> HIDE DEF rep, last, set, st
<1>5. \A k \in DOMAIN last : \E m \in DOMAIN jobs[p] : last[k].request = jobs[p][m].request
  BY <1>4 DEF js
<1>6. /\ jobs' \in [Protocol -> Seq(Jobs)]
      /\ jobs'[p] = last
      /\ \A q \in Protocol : q # p => jobs'[q] = jobs[q]
  BY <1>2, <1>4 DEF ServerInv, JobsOK
<1>7. JobsOK'
  <2>1. \A q \in Protocol : \A k \in DOMAIN jobs[q] : jobs[q][k].request.serial <= infoSerial
    BY DEF ServerInv, JobsOK
  <2>2. \A k \in DOMAIN last : last[k].request.serial <= infoSerial
    BY <1>5, <2>1
  <2>3. infoSerial' = infoSerial
    BY <1>2
  <2> QED
    BY <1>6, <2>1, <2>2, <2>3 DEF JobsOK
<1>8. Chains'
  BY <1>2, <1>4, <1>6 DEF ServerInv, Chains
<1> QED
  BY <1>3, <1>7, <1>8

LEMMA SerialStep ==
  ASSUME ServerInv, NEW p \in Protocol, NEW i \in DOMAIN jobs[p], JobSerial(p, i)
  PROVE  ServerInv'
<1> DEFINE serial == jobs[p][i].request.serial
<1>1. /\ jobs[p][i].stage \in {"success 2", "need_info 2"}
      /\ latestInfo' = LatestInfo(jobs[p][i].stage, serial)
      /\ jobs' = [jobs EXCEPT ![p] = Drop(@, i)]
      /\ UNCHANGED <<run, up, enabled, status, settled, token, newToken, infoSerial, strays,
                     deletes, challenges, trouble, reply>>
  BY DEF JobSerial, protocolVars, netVars
<1>2. ~Pending(jobs[p][i])
  BY <1>1 DEF Pending, Answers
<1>3. reply' = [reply EXCEPT ![p] =
                  IF jobs[p][i].newest /\ Pending(jobs[p][i]) THEN "none" ELSE @]
  BY <1>1, <1>2 DEF ServerInv, GameOK
<1>4. JobsOK' /\ Chains'
  BY <1>1, <1>3, RequestEnds
<1>5. serial \in 0 .. infoSerial
  BY JobIs
<1> HIDE DEF serial
<1>6. latestInfo' \in -1 .. infoSerial
  <2>1. infoSerial \in Nat /\ latestInfo \in -1 .. infoSerial
    BY DEF ServerInv, GameOK
  <2>2. latestInfo' \in {serial, latestInfo} \/ (serial = latestInfo /\ latestInfo' = latestInfo - 1)
    BY <1>1 DEF LatestInfo
  <2> QED
    BY <1>5, <2>1, <2>2
<1>7. GameOK' /\ NetOK'
  BY <1>1, <1>6 DEF ServerInv, GameOK, NetOK
<1> QED
  BY <1>4, <1>7 DEF ServerInv

LEMMA FailsStep ==
  ASSUME ServerInv, NEW p \in Protocol, NEW i \in DOMAIN jobs[p], JobFails(p, i)
  PROVE  ServerInv'
<1>1. /\ Pending(jobs[p][i])
      /\ Trouble
      /\ jobs' = [jobs EXCEPT ![p] = Drop(@, i)]
      /\ strays' \subseteq strays \cup {jobs[p][i].request}
      /\ UNCHANGED <<run, up, enabled, status, settled, token, newToken, infoSerial, latestInfo,
                     deletes, challenges>>
  BY DEF JobFails, Pending, Answers, protocolVars, serialVars
<1>2. reply' = [reply EXCEPT ![p] =
                  IF jobs[p][i].newest /\ Pending(jobs[p][i]) THEN "none" ELSE @]
  BY <1>1 DEF JobFails, ServerInv, GameOK
<1>3. JobsOK' /\ Chains' /\ reply' \in [Protocol -> Replies]
  BY <1>1, <1>2, RequestEnds
<1>4. strays' \subseteq Requests
  BY <1>1, JobIs DEF ServerInv, NetOK
<1>5. GameOK' /\ NetOK'
  BY <1>1, <1>3, <1>4, TroubleIs DEF ServerInv, GameOK, NetOK
<1> QED
  BY <1>3, <1>5 DEF ServerInv

LEMMA HandleIs ==
  ASSUME MasterInv, NetOK, NEW r \in Requests, Handle(r)
  PROVE  challenges' \subseteq [protocol : Protocol, token : Nat] /\ Add(r)
BY RequestIs DEF Handle, NetOK, MasterInv, MasterTypeOK

LEMMA HandleStep ==
  ASSUME MasterInv, ServerInv, NEW p \in Protocol, NEW i \in DOMAIN jobs[p],
         HandleRegister(p, i)
  PROVE  ServerInv'
<1> DEFINE js == jobs[p]
           a == Answer(js[i].request)
           last == [js EXCEPT ![i].stage = a]
           set == settled[p]
           old == reply[p]
           rep == IF js[i].newest THEN StatusOf(a) ELSE old
           st == status[p]
<1>1. /\ js \in Seq(Jobs) /\ i \in DOMAIN js /\ js[i].request \in Requests
      /\ Chain(js, set, old, st)
  BY JobIs
<1>2. a \in Answers
  BY DEF Answer, Answers
<1>3. /\ js[i].stage = "sent"
      /\ Handle(js[i].request)
      /\ jobs' = [jobs EXCEPT ![p] = last]
      /\ reply' = [reply EXCEPT ![p] = rep]
      /\ UNCHANGED <<run, up, enabled, status, settled, token, newToken, infoSerial, latestInfo,
                     strays, deletes, trouble>>
  BY DEF HandleRegister, protocolVars, serialVars, ServerInv, GameOK
<1>4. /\ settled'[p] = set /\ reply'[p] = rep /\ status'[p] = st
      /\ \A q \in Protocol : q # p => /\ settled'[q] = settled[q]
                                      /\ reply'[q] = reply[q]
                                      /\ status'[q] = status[q]
  BY <1>3 DEF ServerInv, GameOK
<1>5. rep \in Replies
  BY <1>2 DEF ServerInv, GameOK, Replies, Answers, StatusOf
<1>6. challenges' \subseteq [protocol : Protocol, token : Nat]
  BY <1>1, <1>3, HandleIs DEF ServerInv
<1> HIDE DEF js, a, set, st, old
<1>7. /\ last \in Seq(Jobs)
      /\ Chain(last, set, rep, st)
      /\ DOMAIN last = DOMAIN js
      /\ \A k \in DOMAIN js : last[k].request = js[k].request
  BY <1>1, <1>2, <1>3, ChainReplied
<1> HIDE DEF rep, last
<1>8. \A k \in DOMAIN last : \E m \in DOMAIN jobs[p] : last[k].request = jobs[p][m].request
  BY <1>7 DEF js
<1>9. JobsOK' /\ Chains'
  BY <1>3, <1>4, <1>7, <1>8, OneChain
<1>10. GameOK' /\ NetOK'
  BY <1>3, <1>5, <1>6 DEF ServerInv, GameOK, NetOK
<1> QED
  BY <1>9, <1>10 DEF ServerInv

\* The steps of the network and of the master server.
LEMMA OutsideStep ==
  ASSUME MasterInv, ServerInv,
         \/ \E r \in strays : HandleStray(r)
         \/ \E d \in deletes : HandleDelete(d)
         \/ \E c \in challenges : LoseChallenge(c)
         \/ \E p \in Protocol : Prune(p)
         \/ Writeout \/ MasterTrouble \/ Idle \/ UNCHANGED vars
  PROVE  ServerInv'
<1>1. /\ UNCHANGED <<run, up, enabled, status, settled, token, newToken, infoSerial, latestInfo,
                     jobs, reply>>
      /\ trouble' = trouble \/ Trouble
  BY DEF HandleStray, HandleDelete, LoseChallenge, Prune, Writeout, MasterTrouble, Idle, vars,
         protocolVars, serialVars, netVars
<1>2. strays' \subseteq strays /\ deletes' \subseteq deletes
  BY DEF HandleStray, HandleDelete, LoseChallenge, Prune, Writeout, MasterTrouble, Idle, vars, netVars
<1>3. challenges' \subseteq [protocol : Protocol, token : Nat]
  <2>1. CASE \E r \in strays : HandleStray(r)
    BY <2>1, HandleIs DEF ServerInv, NetOK, HandleStray
  <2>2. CASE challenges' \subseteq challenges
    BY <2>2 DEF ServerInv, NetOK
  <2> QED
    BY <2>1, <2>2 DEF HandleDelete, LoseChallenge, Prune, Writeout, MasterTrouble, Idle, vars, netVars
<1>4. trouble' \in 0 .. MaxTrouble
  BY <1>1, TroubleIs DEF ServerInv, GameOK
<1>5. GameOK' /\ NetOK'
  BY <1>1, <1>2, <1>3, <1>4 DEF ServerInv, GameOK, NetOK
<1>6. JobsOK' /\ Chains'
  BY <1>1, SameJobs
<1> QED
  BY <1>5, <1>6 DEF ServerInv

-----------------------------------------------------------------------------
(***************************************************************************)
(* Steps of the whole system.                                              *)

\* What a step does to the list of the master server.
LEMMA MasterStep ==
  ASSUME IInv, [Next]_vars
  PROVE  MasterInv' /\ InfoKept
<1>0. MasterInv /\ ServerInv
  BY DEF IInv
<1>1. CASE UNCHANGED masterVars
  BY <1>0, <1>1, MasterUnchanged
<1>2. ASSUME NEW p \in Protocol, Prune(p)
      PROVE  MasterInv' /\ InfoKept
  BY <1>0, <1>2, UnlistKeeps DEF Prune, PruneAddress
<1>3. ASSUME NEW p \in Protocol, NEW i \in DOMAIN jobs[p], HandleRegister(p, i)
      PROVE  MasterInv' /\ InfoKept
  <2>1. jobs[p][i].request \in Requests
    BY <1>0, JobIs
  <2> QED
    BY <1>0, <1>3, <2>1, AddKeeps DEF HandleRegister, Handle
<1>4. CASE Stray
  BY <1>0, <1>4, AddKeeps DEF Stray, HandleStray, Handle, ServerInv, NetOK
<1>5. CASE Deletion
  BY <1>0, <1>5, RemoveKeeps DEF Deletion, HandleDelete, ServerInv, NetOK
<1>6. CASE Writeout \/ MasterTrouble
  BY <1>0, <1>6, WriteKeeps, ReseedKeeps, RestartKeeps DEF Writeout, MasterTrouble
<1>7. ASSUME NEW p \in Protocol, NEW i \in DOMAIN jobs[p],
             JobStatus(p, i) \/ JobSerial(p, i) \/ JobFails(p, i)
      PROVE  UNCHANGED masterVars
  BY <1>7 DEF JobStatus, JobSerial, JobFails
<1>8. ASSUME NEW c \in challenges, Challenge(c) \/ LoseChallenge(c)
      PROVE  UNCHANGED masterVars
  BY <1>8 DEF Challenge, OnToken, LoseChallenge
<1>9. ASSUME \/ \E p \in Protocol : Update(p)
             \/ OnNewInfo \/ OnConfigChange \/ OnShutdown \/ Crash \/ Start \/ Idle
             \/ UNCHANGED vars
      PROVE  UNCHANGED masterVars
  BY <1>9 DEF Update, UpdateAlways, OnNewInfo, OnConfigChange, OnShutdown, Crash, Ends, Start,
              Idle, vars
<1> QED
  BY <1>1, <1>2, <1>3, <1>4, <1>5, <1>6, <1>7, <1>8, <1>9 DEF Next, Job

LEMMA NextInv ==
  ASSUME IInv, [Next]_vars
  PROVE  IInv'
<1>0. MasterInv /\ ServerInv
  BY DEF IInv
<1>1. MasterInv'
  BY MasterStep
<1>2. ServerInv'
  <2>1. ASSUME NEW p \in Protocol, NEW i \in DOMAIN jobs[p], Job(p, i) \/ JobFails(p, i)
        PROVE  ServerInv'
    BY <1>0, <2>1, HandleStep, StatusStep, SerialStep, FailsStep DEF Job
  <2>2. ASSUME NEW p \in Protocol, Update(p)
        PROVE  ServerInv'
    BY <1>0, <2>2, UpdateStep
  <2>3. ASSUME NEW c \in challenges, Challenge(c)
        PROVE  ServerInv'
    BY <1>0, <2>3, ChallengeStep
  <2>4. CASE OnNewInfo
    BY <1>0, <2>4, NewInfoStep
  <2>5. CASE OnConfigChange
    BY <1>0, <2>5, ConfigStep
  <2>6. CASE OnShutdown \/ Crash
    BY <1>0, <2>6, EndsStep
  <2>7. CASE Start
    BY <1>0, <2>7, StartStep
  <2>8. CASE \/ Deletion \/ Stray \/ Writeout \/ MasterTrouble \/ Idle \/ UNCHANGED vars
             \/ \E p \in Protocol : Prune(p)
             \/ \E c \in challenges : LoseChallenge(c)
    BY <1>0, <2>8, OutsideStep DEF Deletion, Stray
  <2> QED
    BY <2>1, <2>2, <2>3, <2>4, <2>5, <2>6, <2>7, <2>8 DEF Next
<1> QED
  BY <1>1, <1>2 DEF IInv

LEMMA InitInv ==
  ASSUME Init
  PROVE  IInv
<1>1. MasterInv
  <2>1. DOMAIN servers = {} /\ \A p \in Protocol : addresses[p] = None
    BY DEF Init, MasterInit
  <2>2. addresses \in [Protocol -> Secret \cup {None}] /\ seed \in Nat
    BY DEF Init, MasterInit
  <2>3. dump.addresses = addresses /\ DOMAIN dump.serials = {}
    BY <2>1 DEF Init, MasterInit, Dump
  <2> QED
    BY <2>1, <2>2, <2>3 DEF MasterInv, MasterTypeOK, MasterConsistent, DumpConsistent
<1>2. GameOK
  <2>1. infoSerial \in Nat /\ latestInfo \in -1 .. infoSerial
    BY DEF Init
  <2>2. token \in [Protocol -> Nat]
    BY DEF Init, Each, NoToken
  <2>3. status \in [Protocol -> Replies] /\ reply \in [Protocol -> Replies]
    BY DEF Init, Each, Replies
  <2>4. trouble \in 0 .. MaxTrouble
    BY TroubleAssumption DEF Init
  <2> QED
    BY <2>1, <2>2, <2>3, <2>4, SecretAssumption DEF Init, Each, GameOK
<1>3. \A p \in Protocol : /\ jobs[p] = <<>> /\ reply[p] = "none" /\ status[p] = "none"
  BY DEF Init, Each
<1>4. <<>> \in Seq(Jobs) /\ DOMAIN <<>> = {}
  BY EmptySeq
<1>5. JobsOK
  BY <1>3, <1>4 DEF Init, Each, JobsOK
<1>6. Chains
  BY <1>3, ChainEmpty DEF Chains
<1> QED
  BY <1>1, <1>2, <1>5, <1>6 DEF Init, IInv, ServerInv, NetOK

-----------------------------------------------------------------------------
(* The theorems.                                                           *)

\* The invariant is inductive.
THEOREM Invariance == Spec => []IInv
<1>1. Init => IInv
  BY InitInv
<1>2. IInv /\ [Next]_vars => IInv'
  BY NextInv
<1> QED
  BY <1>1, <1>2, PTL DEF Spec

\* The variables of the game server, of the master server and of the network
\* keep their types; the info believed to be delivered is never newer than the
\* one there is (register.cpp:502-518).
THEOREM TypeCorrect == Spec => []TypeOK
<1>1. IInv => TypeOK
  <2> SUFFICES ASSUME IInv PROVE TypeOK
    OBVIOUS
  <2>1. \A p \in Protocol : \A i \in DOMAIN jobs[p] : jobs[p][i] \in Jobs
    BY JobIs DEF IInv
  <2> QED
    BY <2>1 DEF IInv, MasterInv, ServerInv, GameOK, NetOK, Jobs, Stages, Replies, TypeOK
<1> QED
  BY <1>1, Invariance, PTL

\* The two maps of the master server agree after every sequence of its
\* operations, for any number of servers and addresses (main.rs, Servers).
THEOREM MasterAgrees == Spec => []MasterConsistent
<1>1. IInv => MasterConsistent
  BY DEF IInv, MasterInv
<1> QED
  BY <1>1, Invariance, PTL

\* Answers in any order leave the status of the newest request, however many
\* overlap (CJob::Run, register.cpp:496).
THEOREM LatestAnswerWins == Spec => []StatusIsLatestAnswer
<1>1. IInv => StatusIsLatestAnswer
  <2> SUFFICES ASSUME IInv, NEW p \in Protocol, Processed(p), status[p] # "none"
               PROVE  settled[p] /\ status[p] = reply[p]
    BY DEF StatusIsLatestAnswer
  <2>1. Fixed(jobs[p], reply[p])
    BY DEF Processed, Answered, Fixed, Answers
  <2> QED
    BY <2>1 DEF IInv, ServerInv, Chains, Chain, Result
<1> QED
  BY <1>1, Invariance, PTL

\* No request, in whatever order and however late, and no other step brings back an older
\* info of a server (Servers::add).  Only a restart of the master server may: the list it
\* comes back with is that of its last dump (main.rs:648-661).
THEOREM InfoMonotonic == Spec => InfoNeverOlder
<1>1. IInv /\ [Next]_vars =>
        [\A s \in DOMAIN servers \cap DOMAIN servers' :
           servers'[s].info_serial >= servers[s].info_serial \/ RestartMaster]_vars
  BY MasterStep DEF InfoKept
<1> QED
  BY <1>1, Invariance, PTL DEF Spec, InfoNeverOlder

-----------------------------------------------------------------------------
(***************************************************************************)
(* What the game server believes the master server to know.                *)

\* A master server that lists svs has an info of run s at least as new as serial.
Knows(svs, s, serial) == s \in DOMAIN svs /\ svs[s].info_serial >= serial

\* m_LatestSuccessfulInfoSerial is right.
InfoDelivered == up /\ latestInfo >= 0 => Knows(servers, run, latestInfo)

\* The answers that take the info, and those that ask for it.
Taken == {"success", "success 2"}
Asking == {"need_info", "need_info 2"}

\* The master server never asks for an info that it has been sent.
NeverAskedAgain ==
  \A p \in Protocol :
    /\ status[p] # "need_info"
    /\ \A i \in DOMAIN jobs[p] : jobs[p][i].stage \notin Asking

\* The master server does not forget the run: it does not start without it or with an
\* older info of it, and does not lose the last address of the run to a timeout, a delete
\* or another run.
NotForgotten ==
  up /\ up' /\ run \in DOMAIN servers =>
    /\ run \in DOMAIN servers'
    /\ RestartMaster => servers'[run].info_serial >= servers[run].info_serial

\* A request without info is about one that is known, and so is one that succeeded.
TrueJob(svs, s, j) ==
  /\ j.request.secret = s
  /\ ~j.request.info => Knows(svs, s, j.request.serial)
  /\ j.stage \in Taken => Knows(svs, s, j.request.serial)
  /\ j.stage \notin Asking

Believed ==
  /\ InfoDelivered
  /\ \A p \in Protocol : /\ status[p] # "need_info"
                         /\ \A i \in DOMAIN jobs[p] : TrueJob(servers, run, jobs[p][i])
  /\ ~up => latestInfo = -1 /\ challenges = {} /\ \A p \in Protocol : jobs[p] = <<>>

LEMMA KnownStays ==
  ASSUME MasterInv, MasterInv', InfoKept, NotForgotten, up, up', run' = run,
         NEW serial \in Int, Knows(servers, run, serial)
  PROVE  Knows(servers', run, serial)
<1>1. run \in DOMAIN servers \cap DOMAIN servers'
  BY DEF Knows, NotForgotten
<1>2. servers[run].info_serial \in Nat /\ servers'[run].info_serial \in Nat
  BY <1>1 DEF MasterInv, MasterTypeOK
<1>3. servers'[run].info_serial >= servers[run].info_serial
  BY <1>1 DEF InfoKept, NotForgotten, Knows
<1>4. servers'[run].info_serial >= serial
  BY <1>2, <1>3 DEF Knows
<1> QED
  BY <1>1, <1>4 DEF Knows

\* Known infos stay known in a step of a run.
Stays == \A serial \in Int : Knows(servers, run, serial) => Knows(servers', run, serial)

LEMMA TrueStays ==
  ASSUME Stays, NEW j, TrueJob(servers, run, j), j.request.serial \in Nat, NEW k,
         k.request = j.request,
         k.stage \in Taken => j.stage \in Taken, k.stage \in Asking => j.stage \in Asking
  PROVE  TrueJob(servers', run, k)
<1>1. Knows(servers, run, j.request.serial) => Knows(servers', run, j.request.serial)
  BY DEF Stays
<1> QED
  BY <1>1 DEF TrueJob

\* An older belief is no more than a newer one.
LEMMA KnownBefore ==
  ASSUME MasterInv, NEW low \in Int, NEW high \in Int, low <= high, Knows(servers, run, high)
  PROVE  Knows(servers, run, low)
<1>1. servers[run].info_serial \in Nat
  BY DEF Knows, MasterInv, MasterTypeOK
<1> QED
  BY <1>1 DEF Knows

\* A request that succeeds leaves the master server with its info.
LEMMA AddKnows ==
  ASSUME MasterInv, NEW r \in Requests, Add(r), Answer(r) = "success",
         r.secret = run, run' = run
  PROVE  Knows(servers', run, r.serial)
<1> DEFINE s == r.secret
           p == r.protocol
           svs == Displace(servers, s, p)
<1>1. servers' = Attach(svs, s, p, r.serial)
  BY DEF Add
<1>2. s \in DOMAIN svs => svs[s].info_serial \in Nat
  <2>1. CASE addresses[p] \in {None, s}
    BY <2>1 DEF Displace, MasterInv, MasterTypeOK
  <2>2. CASE addresses[p] \notin {None, s}
    <3>1. p \in Protocol /\ addresses[p] \in DOMAIN servers
      BY <2>2, RequestIs DEF MasterInv, MasterConsistent
    <3>2. svs = Detach(servers, addresses[p], p)
      BY <2>2 DEF Displace
    <3>3. \A t \in DOMAIN svs : svs[t] \in Server
      <4>1. \A t \in DOMAIN Detach(servers, addresses[p], p) :
              Detach(servers, addresses[p], p)[t] \in Server
        BY <3>1, DetachIs
      <4> QED
        BY <3>2, <4>1
    <3> QED
      BY <3>3 DEF Server
  <2> QED
    BY <2>1, <2>2
<1>3. r.serial \in Nat
  BY RequestIs
<1> HIDE DEF svs, s, p
<1>4. /\ s \in DOMAIN servers'
      /\ s \in DOMAIN svs =>
           servers'[s].info_serial = IF r.serial > svs[s].info_serial THEN r.serial
                                                                      ELSE svs[s].info_serial
      /\ s \notin DOMAIN svs => servers'[s].info_serial = r.serial
  BY <1>1 DEF Attach
<1>5. servers'[s].info_serial >= r.serial
  BY <1>2, <1>3, <1>4
<1> QED
  BY <1>4, <1>5 DEF Knows, s

LEMMA DropLeaves ==
  ASSUME NEW js \in Seq(Jobs), NEW i \in DOMAIN js, NEW k \in DOMAIN Drop(js, i)
  PROVE  \E m \in DOMAIN js : m # i /\ Drop(js, i)[k] = js[m]
<1>1. DOMAIN js = 1 .. Len(js) /\ Len(js) \in Nat
  OBVIOUS
<1>2. k \in 1 .. Len(js) - 1 /\ Drop(js, i)[k] = (IF k < i THEN js[k] ELSE js[k + 1])
  BY DEF Drop
<1>3. CASE k < i
  BY <1>1, <1>2, <1>3
<1>4. CASE ~(k < i)
  <2>1. k + 1 \in DOMAIN js /\ k + 1 # i /\ Drop(js, i)[k] = js[k + 1]
    BY <1>1, <1>2, <1>4
  <2> QED
    BY <2>1
<1> QED
  BY <1>3, <1>4

\* Requests that are started in a run that goes on.
LEMMA SendsTrue ==
  ASSUME IInv, Believed, Stays, up, run' = run, NEW P \in SUBSET Protocol, NEW serial \in Nat,
         NEW held \in [Protocol -> Nat], SendRegister(P, serial, held)
  PROVE  \A p \in Protocol : \A i \in DOMAIN jobs'[p] : TrueJob(servers', run, jobs'[p][i])
<1> SUFFICES ASSUME NEW p \in Protocol, NEW i \in DOMAIN jobs'[p]
             PROVE  TrueJob(servers', run, jobs'[p][i])
  OBVIOUS
<1> DEFINE js == jobs[p]
           new == Started(p, serial, held)
<1>1. jobs'[p] = IF p \in P THEN Append(Older(js), new) ELSE js
  BY DEF SendRegister
<1>2. /\ js \in Seq(Jobs)
      /\ \A k \in DOMAIN js : TrueJob(servers, run, js[k]) /\ js[k].request.serial \in Nat
  <2>1. js \in Seq(Jobs)
    BY DEF IInv, ServerInv, JobsOK
  <2>2. \A k \in DOMAIN js : js[k].request \in Requests
    BY JobIs DEF IInv
  <2> QED
    BY <2>1, <2>2 DEF Believed, Requests
<1>3. ASSUME p \in P, i = Len(js) + 1
      PROVE  TrueJob(servers', run, new)
  <2>1. /\ new.stage \notin Taken /\ new.stage \notin Asking
        /\ new.request.secret = run /\ new.request.serial = serial
        /\ new.request.info = (serial > latestInfo)
    BY DEF Started, Request, Taken, Asking
  <2>2. ~(serial > latestInfo) => Knows(servers', run, serial)
    <3>1. latestInfo \in Int /\ infoSerial \in Nat
      BY DEF IInv, ServerInv, GameOK
    <3>2. ~(serial > latestInfo) => Knows(servers, run, serial)
      BY <3>1, KnownBefore DEF IInv, Believed, InfoDelivered
    <3> QED
      BY <3>2 DEF Stays
  <2> HIDE DEF new
  <2> QED
    BY <2>1, <2>2 DEF TrueJob
<1>4. ASSUME NEW k \in DOMAIN js, NEW j, j.request = js[k].request, j.stage = js[k].stage
      PROVE  TrueJob(servers', run, j)
  BY <1>2, <1>4, TrueStays
<1> HIDE DEF new
<1>5. CASE p \notin P
  BY <1>1, <1>4, <1>5
<1>6. CASE p \in P
  <2> DEFINE old == Older(js)
  <2>1. /\ DOMAIN old = DOMAIN js
        /\ \A k \in DOMAIN js : old[k] = [js[k] EXCEPT !.newest = FALSE]
    BY DEF Older
  <2>2. \A k \in DOMAIN js : js[k] \in Jobs
    BY <1>2
  <2>3. \A k \in DOMAIN js : /\ old[k] \in Jobs /\ old[k].request = js[k].request
                              /\ old[k].stage = js[k].stage
    BY <2>1, <2>2 DEF Jobs
  <2>4. DOMAIN js = 1 .. Len(js) /\ Len(js) \in Nat
    BY <1>2
  <2>5. old \in Seq(Jobs) /\ Len(old) = Len(js)
    <3>1. old = [k \in 1 .. Len(js) |-> old[k]]
      BY <2>4 DEF Older
    <3> HIDE DEF old
    <3>2. old \in [1 .. Len(js) -> Jobs]
      BY <2>1, <2>3, <2>4, <3>1
    <3> QED
      BY <2>4, <3>2, SeqDef
  <2> HIDE DEF old, js
  <2>6. jobs'[p] = Append(old, new)
    BY <1>1, <1>6 DEF old
  <2>7. /\ i \in 1 .. Len(js) + 1
        /\ i \in 1 .. Len(js) => jobs'[p][i] = old[i]
        /\ i = Len(js) + 1 => jobs'[p][i] = new
    <3>1. DOMAIN jobs'[p] = 1 .. Len(js) + 1
      BY <2>4, <2>5, <2>6
    <3> QED
      BY <2>4, <2>5, <2>6, <3>1
  <2>8. CASE i = Len(js) + 1
    BY <1>3, <1>6, <2>7, <2>8
  <2>9. CASE i # Len(js) + 1
    <3>1. i \in DOMAIN js /\ jobs'[p][i] = old[i]
      BY <2>4, <2>7, <2>9
    <3> QED
      BY <1>4, <2>3, <3>1
  <2> QED
    BY <2>8, <2>9
<1> QED
  BY <1>5, <1>6

\* A step of a run that goes on leaves what the master server knows.
LEMMA StepStays ==
  ASSUME IInv, [Next]_vars, NotForgotten, up, up', run' = run
  PROVE  Stays
<1>1. MasterInv /\ MasterInv' /\ InfoKept
  BY MasterStep DEF IInv
<1> QED
  BY <1>1, KnownStays DEF Stays

\* A step of a run after which the status and the believed info are as they were.
LEMMA SameBelief ==
  ASSUME IInv, Believed, Stays, up, up', run' = run, latestInfo' = latestInfo,
         \A p \in Protocol : status'[p] \in {status[p], "none"},
         \A p \in Protocol : \A i \in DOMAIN jobs'[p] : TrueJob(servers', run, jobs'[p][i])
  PROVE  Believed'
<1>1. latestInfo \in Int
  BY DEF IInv, ServerInv, GameOK
<1>2. InfoDelivered'
  BY <1>1 DEF Believed, InfoDelivered, Stays
<1>3. \A p \in Protocol : status'[p] # "need_info"
  BY DEF Believed
<1> QED
  BY <1>2, <1>3 DEF Believed

\* The requests of a protocol that a step leaves alone.
LEMMA SameTrue ==
  ASSUME IInv, Believed, Stays, NEW p \in Protocol, NEW i \in DOMAIN jobs[p]
  PROVE  TrueJob(servers', run, jobs[p][i])
<1>1. jobs[p][i].request.serial \in Nat
  BY JobIs DEF IInv, Requests
<1> QED
  BY <1>1, TrueStays DEF Believed

\* A request ends.
LEMMA DropTrue ==
  ASSUME IInv, Believed, Stays, NEW p \in Protocol, NEW i \in DOMAIN jobs[p],
         jobs' = [jobs EXCEPT ![p] = Drop(@, i)]
  PROVE  \A q \in Protocol : \A k \in DOMAIN jobs'[q] : TrueJob(servers', run, jobs'[q][k])
<1> SUFFICES ASSUME NEW q \in Protocol, NEW k \in DOMAIN jobs'[q]
             PROVE  TrueJob(servers', run, jobs'[q][k])
  OBVIOUS
<1>1. jobs \in [Protocol -> Seq(Jobs)]
  BY DEF IInv, ServerInv, JobsOK
<1>2. CASE q = p
  <2>1. jobs'[q] = Drop(jobs[p], i)
    BY <1>1, <1>2
  <2>2. jobs[p] \in Seq(Jobs) /\ k \in DOMAIN Drop(jobs[p], i)
    BY <1>1, <2>1
  <2>3. \E m \in DOMAIN jobs[p] : Drop(jobs[p], i)[k] = jobs[p][m]
    BY <2>2, DropLeaves
  <2> QED
    BY <2>1, <2>3, SameTrue
<1>3. CASE q # p
  <2>1. jobs'[q] = jobs[q]
    BY <1>1, <1>3
  <2> QED
    BY <2>1, SameTrue
<1> QED
  BY <1>2, <1>3

\* The steps that start requests.
LEMMA BelievedSends ==
  ASSUME IInv, Believed, Stays, up, up', run' = run,
         \/ \E p \in Protocol : Update(p)
         \/ \E c \in challenges : Challenge(c)
         \/ OnNewInfo \/ OnConfigChange
  PROVE  Believed'
<1>0. /\ infoSerial \in Nat /\ infoSerial + 1 \in Nat
      /\ token \in [Protocol -> Nat]
      /\ challenges \subseteq [protocol : Protocol, token : Nat]
  BY DEF IInv, ServerInv, GameOK, NetOK
<1>1. latestInfo' = latestInfo
  BY DEF Update, UpdateAlways, Challenge, OnToken, OnNewInfo, OnConfigChange, serialVars
<1>2. \A p \in Protocol : status'[p] \in {status[p], "none"}
  BY DEF Update, UpdateAlways, Challenge, OnToken, OnNewInfo, OnConfigChange
<1>3. \/ UNCHANGED jobs
      \/ \E P \in SUBSET Protocol, serial \in Nat, held \in [Protocol -> Nat] :
           SendRegister(P, serial, held)
  <2>1. ASSUME NEW p \in Protocol, Update(p)
        PROVE  SendRegister({p}, infoSerial, token)
    BY <2>1 DEF Update, UpdateAlways
  <2>2. ASSUME NEW c \in challenges, Challenge(c)
        PROVE  \/ UNCHANGED jobs
               \/ /\ c.protocol \in Protocol
                  /\ [token EXCEPT ![c.protocol] = c.token] \in [Protocol -> Nat]
                  /\ SendRegister({c.protocol}, infoSerial, [token EXCEPT ![c.protocol] = c.token])
    <3>1. c.protocol \in Protocol /\ c.token \in Nat
      BY <1>0
    <3>2. [token EXCEPT ![c.protocol] = c.token] \in [Protocol -> Nat]
      BY <1>0, <3>1
    <3> QED
      BY <2>2, <3>1, <3>2 DEF Challenge, OnToken
  <2>3. CASE OnNewInfo
    <3>1. \E P \in SUBSET Protocol : SendRegister(P, infoSerial + 1, token)
      BY <2>3 DEF OnNewInfo
    <3> QED
      BY <1>0, <3>1
  <2>4. CASE OnConfigChange
    <3>1. \E E \in [Protocol -> BOOLEAN] :
            SendRegister({p \in Protocol : E[p] /\ ~enabled[p]}, infoSerial, token)
      BY <2>4 DEF OnConfigChange
    <3>2. \A E \in [Protocol -> BOOLEAN] :
            {p \in Protocol : E[p] /\ ~enabled[p]} \in SUBSET Protocol
      OBVIOUS
    <3> QED
      BY <1>0, <3>1, <3>2
  <2> QED
    BY <1>0, <2>1, <2>2, <2>3, <2>4
<1>4. \A p \in Protocol : \A i \in DOMAIN jobs'[p] : TrueJob(servers', run, jobs'[p][i])
  BY <1>3, SendsTrue, SameTrue
<1> QED
  BY <1>1, <1>2, <1>4, SameBelief

\* The master server answers a request of the run.
LEMMA BelievedHandle ==
  ASSUME IInv, Believed, Stays, up, up', run' = run,
         NEW p \in Protocol, NEW i \in DOMAIN jobs[p], HandleRegister(p, i)
  PROVE  Believed'
<1> DEFINE j == jobs[p][i]
           a == Answer(j.request)
           new == [j EXCEPT !.stage = a]
<1>1. /\ jobs[p] \in Seq(Jobs) /\ j \in Jobs
      /\ j.request \in Requests /\ j.request.serial \in Nat
  BY JobIs DEF IInv, Requests
<1>2. /\ Add(j.request)
      /\ jobs' = [jobs EXCEPT ![p] = [@ EXCEPT ![i] = new]]
      /\ UNCHANGED <<status, latestInfo>>
  BY DEF HandleRegister, Handle, protocolVars, serialVars
<1>3. TrueJob(servers, run, j) /\ TrueJob(servers', run, j)
  BY SameTrue DEF Believed
<1>4. a # "need_info"
  <2>1. ~j.request.info => ~NeedInfo(j.request)
    <3>1. j.request.secret = run
      BY <1>3 DEF TrueJob
    <3>2. ASSUME Knows(servers, run, j.request.serial)
          PROVE  ~NeedInfo(j.request)
      <4>1. run \in DOMAIN servers /\ servers[run].info_serial >= j.request.serial
        BY <3>2 DEF Knows
      <4>2. servers[run].info_serial \in Nat
        BY <4>1 DEF IInv, MasterInv, MasterTypeOK
      <4>3. ~(j.request.serial > servers[run].info_serial)
        BY <1>1, <4>1, <4>2
      <4> QED
        BY <3>1, <4>1, <4>3 DEF NeedInfo
    <3> QED
      BY <1>3, <3>2 DEF TrueJob
  <2> QED
    BY <2>1 DEF Answer
<1>5. a = "success" => Knows(servers', run, j.request.serial)
  <2>1. j.request.secret = run /\ MasterInv
    BY <1>3 DEF TrueJob, IInv
  <2> QED
    BY <1>1, <1>2, <2>1, AddKnows
<1>6. a \in {"success", "need_info", "need_challenge"}
  BY DEF Answer
<1> HIDE DEF a
<1>7. new.request = j.request /\ new.stage = a
  BY <1>1 DEF Jobs
<1>8. a \notin Asking /\ (a \in Taken => a = "success")
  BY <1>4, <1>6, Zenon DEF Asking, Taken
<1>9. TrueJob(servers', run, new)
  <2> HIDE DEF new
  <2> QED
    BY <1>3, <1>5, <1>7, <1>8 DEF TrueJob
<1>10. ASSUME NEW q \in Protocol, NEW k \in DOMAIN jobs'[q]
       PROVE  TrueJob(servers', run, jobs'[q][k])
  <2> HIDE DEF new
  <2>1. jobs \in [Protocol -> Seq(Jobs)]
    BY DEF IInv, ServerInv, JobsOK
  <2>2. CASE q = p
    <3>1. jobs'[q] = [jobs[p] EXCEPT ![i] = new]
      BY <1>2, <2>1, <2>2
    <3>2. k \in DOMAIN jobs[p] /\ jobs'[q][k] = IF k = i THEN new ELSE jobs[p][k]
      BY <3>1
    <3> QED
      BY <1>9, <3>2, SameTrue
  <2>3. CASE q # p
    <3>1. jobs'[q] = jobs[q]
      BY <1>2, <2>1, <2>3
    <3> QED
      BY <3>1, SameTrue
  <2> QED
    BY <2>2, <2>3
<1> QED
  BY <1>2, <1>10, SameBelief

\* The first critical section of a job.
LEMMA BelievedStatus ==
  ASSUME IInv, Believed, Stays, up, up', run' = run,
         NEW p \in Protocol, NEW i \in DOMAIN jobs[p], JobStatus(p, i)
  PROVE  Believed'
<1> DEFINE js == jobs[p]
           marked == Marked(js, i)
           last == IF js[i].stage = "need_challenge" THEN Drop(marked, i) ELSE marked
<1>1. /\ js[i].stage \in Answers
      /\ jobs' = [jobs EXCEPT ![p] = last]
      /\ UNCHANGED latestInfo
  BY DEF JobStatus, Answered, Answers, AfterStatus, Marked, serialVars
<1>2. js \in Seq(Jobs) /\ jobs \in [Protocol -> Seq(Jobs)] /\ \A k \in DOMAIN js : js[k] \in Jobs
  BY JobIs DEF IInv, ServerInv, JobsOK
<1>3. js[i].stage \notin Asking
  BY DEF Believed, TrueJob
<1>4. js[i].stage # "need_info"
  BY <1>3, Zenon DEF Asking
<1>5. \A q \in Protocol : status'[q] # "need_info"
  <2>1. status' = status \/ status' = [status EXCEPT ![p] = StatusOf(js[i].stage)]
    BY DEF JobStatus, SetStatus
  <2>2. StatusOf(js[i].stage) # "need_info"
    BY <1>4 DEF StatusOf
  <2>3. status \in [Protocol -> Replies]
    BY DEF IInv, ServerInv, GameOK
  <2> QED
    BY <2>1, <2>2, <2>3 DEF Believed
<1>6. ASSUME NEW k \in DOMAIN js, k # i \/ js[i].stage = "success"
      PROVE  TrueJob(servers', run, marked[k])
  <2> DEFINE new == marked[k]
  <2>1. js[k] \in Jobs /\ js[k].request.serial \in Nat
    BY <1>2 DEF Jobs, Requests
  <2>2. new.request = js[k].request
    BY <2>1 DEF Marked, Jobs
  <2>3. new.stage = js[k].stage \/ (k = i /\ new.stage = Second("success"))
    BY <1>6, <2>1 DEF Marked, Jobs
  <2>4. /\ Second("success") \in Taken /\ Second("success") \notin Asking
        /\ "success" \in Taken
    BY Zenon DEF Second, Taken, Asking
  <2>5. TrueJob(servers, run, js[k])
    BY DEF Believed
  <2> HIDE DEF new
  <2>6. (new.stage \in Taken => js[k].stage \in Taken)
        /\ (new.stage \in Asking => js[k].stage \in Asking)
    BY <1>6, <2>3, <2>4
  <2>7. TrueJob(servers', run, new)
    BY <2>1, <2>2, <2>5, <2>6, TrueStays
  <2> QED
    BY <2>7 DEF new
<1>7. DOMAIN marked = DOMAIN js /\ marked \in Seq(Jobs)
  <2>1. Chain(js, settled[p], reply[p], status[p])
    BY JobIs DEF IInv
  <2> DEFINE set2 == IF js[i].overtaken THEN settled[p] ELSE js[i].newest
             st2 == IF js[i].overtaken THEN status[p] ELSE StatusOf(js[i].stage)
  <2> HIDE DEF marked, js
  <2>2. i \in DOMAIN js
    BY DEF js
  <2> QED
    BY <1>1, <1>2, <2>1, <2>2, ChainStatus DEF marked
<1> HIDE DEF marked
<1>8. ASSUME NEW k \in DOMAIN last
      PROVE  TrueJob(servers', run, last[k])
  <2>1. CASE js[i].stage = "need_challenge"
    <3>1. last = Drop(marked, i)
      BY <2>1
    <3>2. \E m \in DOMAIN marked : m # i /\ last[k] = marked[m]
      <4>1. k \in DOMAIN Drop(marked, i)
        BY <1>8, <3>1
      <4> HIDE DEF last
      <4> QED
        BY <1>7, <3>1, <4>1, DropLeaves
    <3> HIDE DEF last
    <3> QED
      BY <1>6, <1>7, <3>2
  <2>2. CASE js[i].stage # "need_challenge"
    <3>1. js[i].stage = "success" /\ last = marked
      BY <1>1, <1>4, <2>2 DEF Answers
    <3> QED
      BY <1>6, <1>7, <3>1
  <2> QED
    BY <2>1, <2>2
<1> HIDE DEF last
<1>9. ASSUME NEW q \in Protocol, NEW k \in DOMAIN jobs'[q]
      PROVE  TrueJob(servers', run, jobs'[q][k])
  <2>1. CASE q = p
    <3>1. jobs'[q] = last
      BY <1>1, <1>2, <2>1
    <3> QED
      BY <1>8, <3>1
  <2>2. CASE q # p
    <3>1. jobs'[q] = jobs[q]
      BY <1>1, <1>2, <2>2
    <3> QED
      BY <3>1, SameTrue
  <2> QED
    BY <2>1, <2>2
<1>10. InfoDelivered'
  <2>1. latestInfo \in Int
    BY DEF IInv, ServerInv, GameOK
  <2> QED
    BY <1>1, <2>1 DEF Believed, InfoDelivered, Stays
<1> QED
  BY <1>5, <1>9, <1>10 DEF Believed

\* The second critical section of a job: what it makes m_LatestSuccessfulInfoSerial
\* is known, as no answer asks for the info.
LEMMA BelievedSerial ==
  ASSUME IInv, Believed, Stays, up, up', run' = run,
         NEW p \in Protocol, NEW i \in DOMAIN jobs[p], JobSerial(p, i)
  PROVE  Believed'
<1> DEFINE j == jobs[p][i]
           serial == j.request.serial
<1>0. jobs' = [jobs EXCEPT ![p] = Drop(@, i)] /\ UNCHANGED status
  BY Zenon DEF JobSerial, protocolVars
<1>1. j.stage \in {"success 2", "need_info 2"} /\ latestInfo' = LatestInfo(j.stage, serial)
  BY Zenon DEF JobSerial
<1>2. TrueJob(servers, run, j)
  BY DEF Believed
<1>3. j.stage \notin Asking
  BY <1>2 DEF TrueJob
<1>4. j.stage \in Taken /\ latestInfo' \in {serial, latestInfo}
  BY <1>1, <1>3, Zenon DEF Asking, Taken, LatestInfo
<1>5. serial \in Nat /\ latestInfo \in Int
  BY JobIs DEF IInv, Requests, ServerInv, GameOK
<1>6. Knows(servers, run, serial)
  BY <1>2, <1>4 DEF TrueJob
<1>7. latestInfo' >= 0 => Knows(servers', run, latestInfo')
  <2> HIDE DEF j, serial
  <2> QED
    BY <1>4, <1>5, <1>6 DEF Believed, InfoDelivered, Stays
<1>8. InfoDelivered'
  BY <1>7 DEF InfoDelivered
<1>9. \A q \in Protocol : \A k \in DOMAIN jobs'[q] : TrueJob(servers', run, jobs'[q][k])
  BY <1>0, DropTrue
<1>10. \A q \in Protocol : status'[q] # "need_info"
  <2>1. status' = status
    BY <1>0
  <2> QED
    BY <2>1 DEF Believed
<1> HIDE DEF j, serial
<1> QED
  BY <1>8, <1>9, <1>10 DEF Believed

LEMMA BelievedFails ==
  ASSUME IInv, Believed, Stays, up, up', run' = run,
         NEW p \in Protocol, NEW i \in DOMAIN jobs[p], JobFails(p, i)
  PROVE  Believed'
<1>1. jobs' = [jobs EXCEPT ![p] = Drop(@, i)] /\ UNCHANGED <<status, latestInfo>>
  BY Zenon DEF JobFails, protocolVars, serialVars
<1>2. \A q \in Protocol : \A k \in DOMAIN jobs'[q] : TrueJob(servers', run, jobs'[q][k])
  BY <1>1, DropTrue
<1> QED
  BY <1>1, <1>2, SameBelief

\* A step that leaves the game server alone.
LEMMA BelievedOutside ==
  ASSUME IInv, Believed, up' => Stays, UNCHANGED <<run, up, status, latestInfo, jobs>>,
         ~up => challenges' = {}
  PROVE  Believed'
<1>1. CASE up
  <2>1. \A q \in Protocol : \A k \in DOMAIN jobs'[q] : TrueJob(servers', run, jobs'[q][k])
    BY <1>1, SameTrue
  <2> QED
    BY <1>1, <2>1, SameBelief
<1>2. CASE ~up
  <2>1. /\ ~up' /\ latestInfo' = -1
        /\ \A p \in Protocol : jobs'[p] = <<>> /\ status'[p] # "need_info"
    BY <1>2 DEF Believed
  <2>2. DOMAIN <<>> = {}
    BY EmptySeq
  <2> QED
    BY <2>1, <2>2 DEF Believed, InfoDelivered
<1> QED
  BY <1>1, <1>2

\* The game server ends or starts.
LEMMA BelievedNew ==
  ASSUME IInv, Believed, OnShutdown \/ Crash \/ Start
  PROVE  Believed'
<1>0. DOMAIN <<>> = {}
  BY EmptySeq
<1>1. /\ latestInfo' = -1 /\ challenges' = {}
      /\ \A p \in Protocol : jobs'[p] = <<>> /\ status'[p] # "need_info"
  <2>1. CASE OnShutdown \/ Crash
    BY <2>1 DEF OnShutdown, Crash, Ends, Each
  <2>2. CASE Start
    BY <2>2 DEF Start, protocolVars, serialVars, netVars, Believed
  <2> QED
    BY <2>1, <2>2
<1> QED
  BY <1>0, <1>1 DEF Believed, InfoDelivered

LEMMA BelievedStep ==
  ASSUME IInv, Believed, NotForgotten, [Next]_vars
  PROVE  Believed'
<1>1. CASE OnShutdown \/ Crash \/ Start
  BY <1>1, BelievedNew
<1>2. UNCHANGED <<run, up>> => (up => Stays)
  BY StepStays
<1>3. ASSUME NEW p \in Protocol, NEW i \in DOMAIN jobs[p], Job(p, i) \/ JobFails(p, i)
      PROVE  Believed'
  <2>1. DOMAIN <<>> = {}
    BY EmptySeq
  <2>2. up
    BY <2>1 DEF Believed
  <2>3. UNCHANGED <<run, up>>
    BY <1>3, Zenon DEF Job, HandleRegister, JobStatus, JobSerial, JobFails
  <2> QED
    BY <1>2, <1>3, <2>2, <2>3, BelievedHandle, BelievedStatus, BelievedSerial, BelievedFails
       DEF Job
<1>4. CASE \/ \E p \in Protocol : Update(p)
           \/ \E c \in challenges : Challenge(c)
           \/ OnNewInfo \/ OnConfigChange
  <2>1. up
    BY <1>4 DEF Update, UpdateAlways, OnNewInfo, OnConfigChange, Believed
  <2>2. UNCHANGED <<run, up>>
    BY <1>4 DEF Update, UpdateAlways, Challenge, OnToken, OnNewInfo, OnConfigChange
  <2> QED
    BY <1>2, <1>4, <2>1, <2>2, BelievedSends
<1>5. CASE \/ Deletion \/ Stray \/ Writeout \/ MasterTrouble \/ Idle \/ UNCHANGED vars
           \/ \E p \in Protocol : Prune(p)
           \/ \E c \in challenges : LoseChallenge(c)
  <2>1. UNCHANGED <<run, up, status, latestInfo, jobs>>
    BY <1>5 DEF Deletion, Stray, HandleStray, HandleDelete, LoseChallenge, Prune, Writeout,
                MasterTrouble, Idle, vars, protocolVars, serialVars
  <2>2. ~up => challenges' = {}
    BY <1>5 DEF Deletion, Stray, HandleStray, Handle, HandleDelete, LoseChallenge, Prune,
                Writeout, MasterTrouble, Idle, vars, netVars, Believed
  <2> QED
    BY <1>2, <2>1, <2>2, BelievedOutside
<1> QED
  BY <1>1, <1>3, <1>4, <1>5, Zenon DEF Next

LEMMA BelievedAlways == Spec /\ [][NotForgotten]_vars => []Believed
<1>1. Init => Believed
  <2>1. DOMAIN <<>> = {}
    BY EmptySeq
  <2> QED
    BY <2>1 DEF Init, Each, Believed, InfoDelivered
<1>2. IInv /\ Believed /\ [Next]_vars /\ [NotForgotten]_vars => Believed'
  <2>1. CASE UNCHANGED vars
    <3>1. IInv /\ UNCHANGED vars => NotForgotten
      BY DEF vars, masterVars, NotForgotten, IInv, MasterInv, MasterTypeOK
    <3> QED
      BY <2>1, <3>1, BelievedStep
  <2> QED
    BY <2>1, BelievedStep
<1> QED
  BY <1>1, <1>2, Invariance, PTL DEF Spec

\* m_LatestSuccessfulInfoSerial is right, whatever is lost, late, duplicated or answered
\* in any order, as long as the master server does not forget the run: it has an info of
\* this run that is at least as new (CJob::Run, register.cpp:502-518).
THEOREM BelievedInfoIsKnown == Spec /\ [][NotForgotten]_vars => []InfoDelivered
<1>1. Believed => InfoDelivered
  BY DEF Believed
<1> QED
  BY <1>1, BelievedAlways, PTL

\* Nor is the info ever asked for a second time: a request leaves it out only when the
\* master server has it by the time the request arrives, so that need_info comes only from
\* a master server that has forgotten the run (handle_register and register.cpp:511-518).
THEOREM InfoAskedOnce == Spec /\ [][NotForgotten]_vars => []NeverAskedAgain
<1>1. Believed => NeverAskedAgain
  BY Zenon DEF Believed, NeverAskedAgain, TrueJob
<1> QED
  BY <1>1, BelievedAlways, PTL
=============================================================================
