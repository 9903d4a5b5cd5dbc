----------------------------- MODULE Register ------------------------------
(***************************************************************************)
(* CRegister (src/src/engine/server/register.cpp): a game server keeps     *)
(* itself on the list of the master server, for each protocol on its own.  *)
(* Main thread, jobs of the register requests, HTTP and UDP messages and   *)
(* the master server (Mastersrv) interleave; both servers can stop and     *)
(* start again, and messages are lost, late, duplicated and reordered.     *)
(*                                                                         *)
(* Time: m_NextRegister is 15 seconds after the last request, the time that *)
(* HTTP gives to a request (HttpPost).  It may have come when none is under *)
(* way; that it comes while one still is, is a disturbance.                *)
(* Requests are counted by the source with indices that are only compared: *)
(* a request is marked as the newest one, or as overtaken once a newer one *)
(* has been answered.                                                      *)
(***************************************************************************)
EXTENDS Mastersrv, Sequences

CONSTANTS
  MaxRequests,     \* bound: requests of each protocol under way
  MaxTrouble       \* bound: losses, restarts, changes of info and of configuration

ASSUME SecretAssumption == Secret \subseteq Nat /\ 1 \in Secret
ASSUME TroubleAssumption == MaxTrouble \in Nat

VARIABLES
  run,             \* m_Secret and m_ChallengeSecret: which start of the server this is
  up,              \* the game server runs
  enabled,         \* m_aProtocolEnabled
  status,          \* m_LatestResponseStatus
  settled,         \* m_LatestResponseIndex = m_NumTotalRequests - 1
  token,           \* m_aChallengeToken, or NoToken
  newToken,        \* m_NewChallengeToken
  infoSerial,      \* m_InfoSerial
  latestInfo,      \* m_LatestSuccessfulInfoSerial
  jobs,            \* jobs[p]: register requests of p under way, oldest first
  strays,          \* register requests nobody waits for any more
  deletes,         \* delete requests under way
  challenges,      \* challenge packets under way
  trouble,         \* how much has gone wrong
  reply            \* history: what the master answered to the newest request, unless it failed

protocolVars == <<status, settled, token, newToken>>
serialVars == <<infoSerial, latestInfo>>
netVars == <<strays, deletes, challenges>>
vars == <<masterVars, run, up, enabled, protocolVars, serialVars, jobs, netVars, trouble,
          reply>>

\* A disturbance.
Trouble == trouble < MaxTrouble /\ trouble' = trouble + 1

-----------------------------------------------------------------------------
(* The main thread of the game server.                                     *)

\* SendRegister for the protocols of P, where serial is m_InfoSerial and held
\* are the tokens.
Request(p, serial, held) ==
  [secret |-> run, protocol |-> p, serial |-> serial, info |-> serial > latestInfo,
   token |-> held[p]]
Started(p, serial, held) ==
  [request |-> Request(p, serial, held), stage |-> "sent", newest |-> TRUE,
   overtaken |-> FALSE]
Older(js) == [i \in DOMAIN js |-> [js[i] EXCEPT !.newest = FALSE]]
SendRegister(P, serial, held) ==
  /\ \A p \in P : Len(jobs[p]) < MaxRequests[p]
  /\ jobs' = [p \in Protocol |->
                IF p \in P THEN Append(Older(jobs[p]), Started(p, serial, held))
                           ELSE jobs[p]]
  /\ settled' = [p \in Protocol |-> p \notin P /\ settled[p]]
  /\ reply' = [p \in Protocol |-> IF p \in P THEN "none" ELSE reply[p]]

\* CheckChallengeStatus: the status asks for the next request at once.
Urgent(p, fresh) ==
  settled[p] /\ (status[p] = "need_info" \/ (status[p] = "need_challenge" /\ fresh))

\* due is Now >= m_NextRegister.
Timer(p, due) == IF due /\ jobs[p] # <<>> THEN Trouble ELSE UNCHANGED trouble

\* Mutated: does not ask whether p is enabled.
UpdateAlways(p) ==
  /\ up
  /\ \E due \in BOOLEAN : (Urgent(p, newToken[p]) \/ due) /\ Timer(p, due)
  /\ SendRegister({p}, infoSerial, token)
  /\ newToken' = [newToken EXCEPT ![p] = FALSE]
  /\ UNCHANGED <<masterVars, run, up, enabled, status, token, serialVars, netVars>>

\* CRegister::Update asks for enabled protocols, and calls CProtocol::Update.
Update(p) == enabled[p] /\ UpdateAlways(p)

\* OnPacket and OnToken.  Whether the protocol is enabled is not asked.
OnToken(c, due) ==
  LET p == c.protocol
      held == [token EXCEPT ![p] = c.token]
  IN  /\ token' = held
      /\ IF Urgent(p, TRUE) \/ due
           THEN SendRegister({p}, infoSerial, held) /\ newToken' = [newToken EXCEPT ![p] = FALSE]
           ELSE newToken' = [newToken EXCEPT ![p] = TRUE] /\ UNCHANGED <<jobs, settled, reply>>
      /\ UNCHANGED <<masterVars, run, up, enabled, status, serialVars, strays, deletes>>

\* OnNewInfo.  All that are due send, and perhaps the one whose time is the first to
\* come; it may also come only later.
OnNewInfo ==
  /\ up /\ Trouble
  /\ infoSerial' = infoSerial + 1
  /\ \E P \in SUBSET {p \in Protocol : enabled[p]} :
       /\ SendRegister(P, infoSerial + 1, token)
       /\ newToken' = [p \in Protocol |-> p \notin P /\ newToken[p]]
  /\ UNCHANGED <<masterVars, run, up, enabled, status, token, latestInfo, netVars>>

\* SendDeleteIfRegistered for the protocols of P.
Deletes(P) == {[secret |-> run, protocol |-> p] : p \in {q \in P : status[q] = "ok"}}

\* OnConfigChange: the protocols that come send a request, those that go a delete.
OnConfigChange ==
  /\ up /\ Trouble
  /\ \E E \in [Protocol -> BOOLEAN] \ {enabled} :
       LET comes == {p \in Protocol : E[p] /\ ~enabled[p]}
           goes == {p \in Protocol : enabled[p] /\ ~E[p]}
       IN  /\ enabled' = E
           /\ SendRegister(comes, infoSerial, token)
           /\ newToken' = [p \in Protocol |-> p \notin comes /\ newToken[p]]
           /\ deletes' = deletes \cup Deletes(goes)
           /\ status' = [p \in Protocol |-> IF p \in goes THEN "none" ELSE status[p]]
  /\ UNCHANGED <<masterVars, run, up, token, serialVars, strays, challenges>>

\* The same value for all protocols.
Each(v) == [p \in Protocol |-> v]

\* The server ends; its requests may still arrive.  Challenges to it are void.
\* Its memory is that of the next start (Init).
Ends ==
  /\ up /\ Trouble
  /\ up' = FALSE
  /\ strays' = strays \cup UNION {{jobs[p][i].request : i \in {k \in DOMAIN jobs[p] :
                                                              jobs[p][k].stage = "sent"}} :
                                    p \in Protocol}
  /\ challenges' = {}
  /\ enabled' = Each(TRUE)
  /\ status' = Each("none") /\ settled' = Each(TRUE)
  /\ token' = Each(NoToken) /\ newToken' = Each(FALSE)
  /\ infoSerial' = 0 /\ latestInfo' = -1
  /\ jobs' = Each(<<>>) /\ reply' = Each("none")
  /\ UNCHANGED <<masterVars, run>>

OnShutdown == Ends /\ deletes' = deletes \cup Deletes({p \in Protocol : enabled[p]})
Crash == Ends /\ UNCHANGED deletes

\* The server is started again, with new secrets.
Start ==
  /\ ~up /\ run + 1 \in Secret
  /\ run' = run + 1
  /\ up' = TRUE
  /\ UNCHANGED <<masterVars, enabled, protocolVars, serialVars, jobs, netVars, trouble, reply>>

-----------------------------------------------------------------------------
(* CJob::Run: the answer to request i of protocol p, in two steps.         *)

Drop(js, i) == [k \in 1 .. Len(js) - 1 |-> IF k < i THEN js[k] ELSE js[k + 1]]

\* The job goes on with the info serial, unless the answer is a challenge.
Second(answer) == IF answer = "success" THEN "success 2" ELSE "need_info 2"
AfterStatus(p, i) ==
  LET js == [k \in DOMAIN jobs[p] |->
               IF k < i THEN [jobs[p][k] EXCEPT !.overtaken = TRUE]
               ELSE IF k = i THEN [jobs[p][k] EXCEPT !.stage = Second(@)]
               ELSE jobs[p][k]]
  IN  jobs' = [jobs EXCEPT ![p] = IF jobs[p][i].stage = "need_challenge" THEN Drop(js, i)
                                                                         ELSE js]

Answered(p, i) == jobs[p][i].stage \in {"success", "need_info", "need_challenge"}
StatusOf(answer) == IF answer = "success" THEN "ok" ELSE answer
SetStatus(p, i) ==
  /\ status' = [status EXCEPT ![p] = StatusOf(jobs[p][i].stage)]
  /\ settled' = [settled EXCEPT ![p] = jobs[p][i].newest]

\* Mutated: every answer sets the status.
JobStatusAnyOrder(p, i) ==
  /\ Answered(p, i)
  /\ SetStatus(p, i)
  /\ AfterStatus(p, i)
  /\ UNCHANGED <<masterVars, run, up, enabled, token, newToken, serialVars, netVars,
                 trouble, reply>>

\* The first critical section.
JobStatus(p, i) ==
  /\ Answered(p, i)
  /\ IF jobs[p][i].overtaken THEN UNCHANGED <<status, settled>> ELSE SetStatus(p, i)
  /\ AfterStatus(p, i)
  /\ UNCHANGED <<masterVars, run, up, enabled, token, newToken, serialVars, netVars,
                 trouble, reply>>

\* Mutated: need_info changes nothing.
InfoKeptOnNeedInfo(stage, serial) ==
  IF stage = "success 2" /\ serial > latestInfo THEN serial ELSE latestInfo

\* Mutated: need_info asks again whatever has been delivered since.
InfoLoweredAlways(stage, serial) ==
  IF stage = "success 2" /\ serial > latestInfo THEN serial
  ELSE IF stage = "need_info 2" THEN latestInfo - 1 ELSE latestInfo

\* What the second critical section makes of m_LatestSuccessfulInfoSerial.
LatestInfo(stage, serial) ==
  IF stage = "success 2" /\ serial > latestInfo THEN serial
  ELSE IF stage = "need_info 2" /\ serial = latestInfo THEN latestInfo - 1
  ELSE latestInfo

JobSerial(p, i) ==
  /\ jobs[p][i].stage \in {"success 2", "need_info 2"}
  /\ latestInfo' = LatestInfo(jobs[p][i].stage, jobs[p][i].request.serial)
  /\ jobs' = [jobs EXCEPT ![p] = Drop(@, i)]
  /\ UNCHANGED <<masterVars, run, up, enabled, protocolVars, infoSerial, netVars, trouble,
                 reply>>

\* The request or its answer is lost, or takes too long: the job ends without
\* a status, and the request may still arrive.
JobFails(p, i) ==
  /\ jobs[p][i].stage \in {"sent", "success", "need_info", "need_challenge"}
  /\ Trouble
  /\ jobs' = [jobs EXCEPT ![p] = Drop(@, i)]
  /\ strays' \in {strays, IF jobs[p][i].stage = "sent" THEN strays \cup {jobs[p][i].request}
                                                       ELSE strays}
  /\ reply' = IF jobs[p][i].newest THEN [reply EXCEPT ![p] = "none"] ELSE reply
  /\ UNCHANGED <<masterVars, run, up, enabled, protocolVars, serialVars, deletes,
                 challenges>>

-----------------------------------------------------------------------------
(* The network and the master server.                                      *)

\* handle_register and the challenge it sends, which only this run accepts.
Handle(r) ==
  /\ Add(r)
  /\ challenges' = IF SendsChallenge(r) /\ up /\ r.secret = run
                     THEN challenges \cup {[protocol |-> r.protocol, token |-> seed]}
                     ELSE challenges

HandleRegister(p, i) ==
  /\ jobs[p][i].stage = "sent"
  /\ Handle(jobs[p][i].request)
  /\ jobs' = [jobs EXCEPT ![p][i].stage = Answer(jobs[p][i].request)]
  /\ reply' = IF jobs[p][i].newest
                THEN [reply EXCEPT ![p] = StatusOf(Answer(jobs[p][i].request))] ELSE reply
  /\ UNCHANGED <<run, up, enabled, protocolVars, serialVars, strays, deletes, trouble>>

HandleStray(r) ==
  /\ Handle(r)
  /\ strays' = strays \ {r}
  /\ UNCHANGED <<run, up, enabled, protocolVars, serialVars, jobs, deletes, trouble, reply>>

HandleDelete(d) ==
  /\ Remove(d.secret, d.protocol)
  /\ deletes' = deletes \ {d}
  /\ UNCHANGED <<run, up, enabled, protocolVars, serialVars, jobs, strays, challenges,
                 trouble, reply>>

\* A challenge packet arrives, perhaps not for the last time, or is lost.
Challenge(c) ==
  \E due \in BOOLEAN :
    /\ OnToken(c, due)
    /\ \/ challenges' = challenges \ {c} /\ Timer(c.protocol, due)
       \/ UNCHANGED challenges /\ Trouble

LoseChallenge(c) ==
  /\ Trouble
  /\ challenges' = challenges \ {c}
  /\ UNCHANGED <<masterVars, run, up, enabled, protocolVars, serialVars, jobs, strays,
                 deletes, reply>>

Refreshed(p) == up /\ enabled[p] /\ addresses[p] = run

\* No request of the protocol for 30 seconds.  While it is being registered
\* that needs losses that are not modelled one by one.
Prune(p) ==
  /\ PruneAddress(p)
  /\ IF Refreshed(p) THEN Trouble ELSE UNCHANGED trouble
  /\ UNCHANGED <<run, up, enabled, protocolVars, serialVars, jobs, netVars, reply>>

Writeout ==
  /\ WriteDump
  /\ UNCHANGED <<run, up, enabled, protocolVars, serialVars, jobs, netVars, trouble, reply>>

MasterTrouble ==
  /\ Trouble
  /\ Reseed \/ RestartMaster
  /\ UNCHANGED <<run, up, enabled, protocolVars, serialVars, jobs, netVars, reply>>

-----------------------------------------------------------------------------
\* The server has its first info, and all protocols are enabled.
Init ==
  /\ MasterInit
  /\ run = 1 /\ up = TRUE
  /\ enabled = Each(TRUE)
  /\ status = Each("none") /\ settled = Each(TRUE)
  /\ token = Each(NoToken) /\ newToken = Each(FALSE)
  /\ infoSerial = 0 /\ latestInfo = -1
  /\ jobs = Each(<<>>) /\ reply = Each("none")
  /\ strays = {} /\ deletes = {} /\ challenges = {}
  /\ trouble = 0

\* No protocol is enabled, or the last run has ended, and nothing is under way.
Idle ==
  /\ ~(up /\ \E p \in Protocol : enabled[p])
  /\ \A p \in Protocol : jobs[p] = <<>>
  /\ strays = {} /\ deletes = {} /\ challenges = {}
  /\ UNCHANGED vars

Job(p, i) == HandleRegister(p, i) \/ JobStatus(p, i) \/ JobSerial(p, i)
Deletion == \E d \in deletes : HandleDelete(d)
Stray == \E r \in strays : HandleStray(r)

Next ==
  \/ \E p \in Protocol :
       \/ Update(p) \/ Prune(p)
       \/ \E i \in DOMAIN jobs[p] : Job(p, i) \/ JobFails(p, i)
  \/ \E c \in challenges : Challenge(c) \/ LoseChallenge(c)
  \/ OnNewInfo \/ OnConfigChange \/ OnShutdown \/ Crash \/ Start
  \/ Deletion \/ Stray \/ Writeout \/ MasterTrouble \/ Idle

\* The threads run, messages that are not lost arrive, and the master prunes.
Fairness ==
  /\ \A p \in Protocol : /\ WF_vars(Update(p)) /\ WF_vars(jobs[p] # <<>> /\ Job(p, 1))
                         /\ WF_vars(~Refreshed(p) /\ Prune(p))
  /\ WF_vars(\E c \in challenges : Challenge(c))
  /\ WF_vars(Deletion) /\ WF_vars(Stray)

Spec == Init /\ [][Next]_vars
FairSpec == Spec /\ Fairness

-----------------------------------------------------------------------------
(* Properties.                                                             *)

Requests == [secret : Secret, protocol : Protocol, serial : Nat, info : BOOLEAN, token : Nat]

\* Types.  The info serial that is believed to be delivered is one that exists,
\* or one less than the first.
TypeOK ==
  /\ MasterTypeOK
  /\ run \in Secret /\ up \in BOOLEAN /\ enabled \in [Protocol -> BOOLEAN]
  /\ status \in [Protocol -> {"none", "ok", "need_challenge", "need_info"}]
  /\ reply \in [Protocol -> {"none", "ok", "need_challenge", "need_info"}]
  /\ settled \in [Protocol -> BOOLEAN] /\ newToken \in [Protocol -> BOOLEAN]
  /\ token \in [Protocol -> Nat]
  /\ infoSerial \in Nat /\ latestInfo \in -1 .. infoSerial
  /\ \A p \in Protocol : \A i \in DOMAIN jobs[p] :
       /\ jobs[p][i].request \in Requests
       /\ jobs[p][i].stage \in {"sent", "success", "need_challenge", "need_info", "success 2",
                                "need_info 2"}
  /\ strays \subseteq Requests
  /\ trouble \in 0 .. MaxTrouble

\* When the answer to the newest request of a protocol has been processed the
\* status is what the master has answered to that request, and it is known to
\* be, in whatever order answers are processed; only a deletion resets it.
Processed(p) ==
  /\ reply[p] # "none"
  /\ \A i \in DOMAIN jobs[p] : jobs[p][i].newest => ~Answered(p, i)
StatusIsLatestAnswer ==
  \A p \in Protocol : Processed(p) /\ status[p] # "none" => settled[p] /\ status[p] = reply[p]

\* No late request brings back an older info of a server (Servers::add), nor
\* does anything else but a restart of the master server: that goes back to its
\* dump, which is up to a second old (handle_periodic_writeout).
InfoNeverOlder ==
  [][\A s \in DOMAIN servers \cap DOMAIN servers' :
       servers'[s].info_serial >= servers[s].info_serial \/ RestartMaster]_vars

\* A server that runs comes to be listed, with its latest info, for each
\* protocol that is enabled, and stays so when nothing goes wrong any more:
\* after losses, refused challenges and restarts of either server.
EventuallyListed ==
  <>[](\A p \in Protocol : up /\ enabled[p] =>
         addresses[p] = run /\ servers[run].info_serial = infoSerial)

\* What is not enabled, or not running, comes to be not listed, even if a late
\* request or a late challenge has registered it once more.
EventuallyUnlisted ==
  <>[](\A p \in Protocol : ~(up /\ enabled[p]) => addresses[p] = None)
=============================================================================
