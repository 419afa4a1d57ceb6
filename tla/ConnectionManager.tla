-------------------------- MODULE ConnectionManager --------------------------
(***************************************************************************)
(* src/xrpl/connection-manager.service.ts: the one XRPL connection, its    *)
(* failover between two endpoints, its reconnection and its shutdown.      *)
(*                                                                         *)
(* A step is one turn of the event loop: an I/O completion or a timer, and *)
(* everything it resumes.  In particular every request that awaits the     *)
(* shared `switching` promise goes on in the step that settles it.         *)
(***************************************************************************)
EXTENDS Naturals, Sequences, FiniteSets

CONSTANTS
    Clients,      \* LedgerClient objects; a closed one nobody holds is used again
    Requests,     \* concurrent callers of request() and switchEndpoint()
    None

ASSUME ClientAssumption == None \notin Clients

Endpoints == {"primary", "secondary"}
OtherEndpoint(name) == IF name = "primary" THEN "secondary" ELSE "primary"

VARIABLES
    active,       \* the client requests use, or None
    preferred,    \* the endpoint a reconnection tries first
    work,         \* the promise `switching`: what the shared connect is doing
    life,         \* each client: "closed", "booting", "open" or "closing"
    endpoint,     \* the endpoint each client was created for
    timer,        \* is a reconnection scheduled
    req,          \* each caller: where it awaits and the client it uses
    shutdown      \* "no", "waiting" for work, "releasing" the client, "done"

vars == <<active, preferred, work, life, endpoint, timer, req, shutdown>>

Destroyed == shutdown # "no"

NoWork == [phase |-> "none", client |-> None, rest |-> <<>>]

Working == work.phase # "none"

IdleReq == [pc |-> "idle", client |-> None]

ConnectionInit ==
    /\ active = None
    /\ preferred = "primary"
    /\ work = NoWork
    /\ life = [k \in Clients |-> "closed"]
    /\ endpoint = [k \in Clients |-> "primary"]
    /\ timer = FALSE
    /\ req = [r \in Requests |-> IdleReq]
    /\ shutdown = "no"

Fresh(k) ==
    /\ life[k] = "closed"
    /\ k # active
    /\ k # work.client
    /\ \A r \in Requests : req[r].client # k

-------------------------------------------------------------------------------
(* Pieces of one turn.  Boot, Fail and Succeed settle what `work` becomes. *)

\* bootstrap() of the first endpoint of `order`, up to client.connect().
\* `closing` is the client the same turn has finished closing, or None.
Boot(order, closing) ==
    \E k \in Clients :
        /\ Fresh(k)
        /\ work' = [phase |-> "booting", client |-> k, rest |-> Tail(order)]
        /\ life' = [x \in Clients |-> IF x = k THEN "booting"
                                      ELSE IF x = closing THEN "closed" ELSE life[x]]
        /\ endpoint' = [endpoint EXCEPT ![k] = Head(order)]

\* What a caller that awaited the promise does once it is settled: client is the
\* new active client, or None when no endpoint could be used.
Resumed(r, client) ==
    IF client = None \/ req[r].pc = "waitSwitch" THEN IdleReq
    ELSE [pc |-> IF req[r].pc = "waitFirst" THEN "first" ELSE "second", client |-> client]

Waiting(r) == req[r].pc \in {"waitFirst", "waitSecond", "waitSwitch"}

ResumeAll(client) ==
    req' = [r \in Requests |-> IF Waiting(r) THEN Resumed(r, client) ELSE req[r]]

\* Mutant: the loop over the endpoints does not look at `destroyed`.
KeepsConnectingAlways(order) == order # <<>>

\* connectInOrder goes on with the next endpoint.
KeepsConnecting(order) == order # <<>> /\ ~Destroyed

\* No endpoint is left: a reconnection is scheduled and every waiter throws.
ConnectFailed(closing) ==
    /\ work' = NoWork
    /\ life' = [x \in Clients |-> IF x = closing THEN "closed" ELSE life[x]]
    /\ timer' = (timer \/ ~Destroyed)
    /\ ResumeAll(None)
    /\ shutdown' = IF shutdown = "waiting" THEN "done" ELSE shutdown
    /\ UNCHANGED <<active, endpoint>>

ConnectNext(order, closing) ==
    IF KeepsConnecting(order)
    THEN Boot(order, closing) /\ UNCHANGED <<active, timer, req, shutdown>>
    ELSE ConnectFailed(closing)

\* Mutant: the preferred endpoint gets a second try at the end.
BothEndpointsTwice == <<preferred, OtherEndpoint(preferred), preferred>>

BothEndpoints == <<preferred, OtherEndpoint(preferred)>>

\* Mutant: connection() does not share the promise of a connect in flight.
SharesNothing == FALSE

SharesWork == Working

\* connection(): the active client, the promise in flight, or a new connect.
\* The caller r continues at `now` with a client and otherwise awaits at `then`.
Connection(r, now, then) ==
    IF active # None
    THEN /\ req' = [req EXCEPT ![r] = IF now = "idle" THEN IdleReq
                                      ELSE [pc |-> now, client |-> active]]
         /\ UNCHANGED <<work, life, endpoint>>
    ELSE IF SharesWork
    THEN req' = [req EXCEPT ![r] = [pc |-> then, client |-> None]] /\ UNCHANGED <<work, life, endpoint>>
    ELSE IF ~KeepsConnecting(BothEndpoints)
    THEN req' = [req EXCEPT ![r] = IdleReq] /\ UNCHANGED <<work, life, endpoint>>
    ELSE /\ req' = [req EXCEPT ![r] = [pc |-> then, client |-> None]]
         /\ Boot(BothEndpoints, None)

\* failover() of client k by nobody or by the caller r, up to its release().
StartFailover(k) ==
    /\ active' = None
    /\ life' = [life EXCEPT ![k] = "closing"]
    /\ work' = [phase |-> "releasing", client |-> k, rest |-> <<OtherEndpoint(endpoint[k])>>]

Failover(r, k, now, then) ==
    IF ~Working /\ active = k
    THEN /\ StartFailover(k)
         /\ req' = [req EXCEPT ![r] = [pc |-> then, client |-> None]]
         /\ UNCHANGED endpoint
    ELSE Connection(r, now, then) /\ UNCHANGED active
-------------------------------------------------------------------------------
(* Callers.                                                                *)

Request(r) ==
    /\ req[r].pc = "idle"
    /\ Connection(r, "first", "waitFirst")
    /\ UNCHANGED <<active, preferred, timer, shutdown>>

SwitchEndpoint(r) ==
    /\ req[r].pc = "idle"
    /\ IF active = None THEN Connection(r, "idle", "waitSwitch") /\ UNCHANGED active
       ELSE Failover(r, active, "idle", "waitSwitch")
    /\ UNCHANGED <<preferred, timer, shutdown>>

\* A client that was closed under the request answers nothing.
RequestAnswered(r) ==
    /\ req[r].pc \in {"first", "second"}
    /\ life[req[r].client] \in {"open", "closing"}
    /\ req' = [req EXCEPT ![r] = IdleReq]
    /\ UNCHANGED <<active, preferred, work, life, endpoint, timer, shutdown>>

\* A transport failure on the first client costs one failover and one retry.
FirstFails(r) ==
    /\ req[r].pc = "first"
    /\ Failover(r, req[r].client, "second", "waitSecond")
    /\ UNCHANGED <<preferred, timer, shutdown>>

\* Both failed: the connection is dropped, outside the shared promise.
SecondFails(r) ==
    /\ req[r].pc = "second"
    /\ LET k == req[r].client
       IN  IF active = k /\ ~Working
           THEN /\ active' = None
                /\ life' = [life EXCEPT ![k] = "closing"]
                /\ req' = [req EXCEPT ![r] = [pc |-> "release", client |-> k]]
           ELSE req' = [req EXCEPT ![r] = IdleReq] /\ UNCHANGED <<active, life>>
    /\ UNCHANGED <<preferred, work, endpoint, timer, shutdown>>

\* Mutant: the connection is dropped and no reconnection is scheduled.
RequestReleasedOnly(r) ==
    /\ req[r].pc = "release"
    /\ life' = [life EXCEPT ![req[r].client] = "closed"]
    /\ req' = [req EXCEPT ![r] = IdleReq]
    /\ UNCHANGED <<active, preferred, work, endpoint, timer, shutdown>>

RequestReleased(r) ==
    /\ req[r].pc = "release"
    /\ life' = [life EXCEPT ![req[r].client] = "closed"]
    /\ timer' = (timer \/ ~Destroyed)
    /\ req' = [req EXCEPT ![r] = IdleReq]
    /\ UNCHANGED <<active, preferred, work, endpoint, shutdown>>

-------------------------------------------------------------------------------
(* The shared connect.                                                     *)

\* The failed client is closed; the alternate endpoint becomes the preferred one.
FailoverReleased ==
    /\ work.phase = "releasing"
    /\ preferred' = Head(work.rest)
    /\ ConnectNext(work.rest, work.client)

\* server_info, server_definitions and subscribe were accepted.  A shutdown that
\* awaits the promise releases the new client at once.
BootSucceeds ==
    /\ work.phase = "booting"
    /\ LET k == work.client IN
       /\ preferred' = endpoint[k]
       /\ work' = NoWork
       /\ ResumeAll(k)
       /\ IF shutdown = "waiting"
          THEN active' = None /\ life' = [life EXCEPT ![k] = "closing"] /\ shutdown' = "releasing"
          ELSE active' = k /\ life' = [life EXCEPT ![k] = "open"] /\ UNCHANGED shutdown
    /\ UNCHANGED <<endpoint, timer>>

\* Unreachable, wrong network, stale, unsupported: the client is disconnected ...
BootFails ==
    /\ work.phase = "booting"
    /\ work' = [work EXCEPT !.phase = "dropping"]
    /\ life' = [life EXCEPT ![work.client] = "closing"]
    /\ UNCHANGED <<active, preferred, endpoint, timer, req, shutdown>>

\* Mutant: a failed endpoint is tried again before the next one.
RemainingAgain == <<endpoint[work.client]>> \o work.rest

Remaining == work.rest

\* ... and the next endpoint is tried.
BootDropped ==
    /\ work.phase = "dropping"
    /\ ConnectNext(Remaining, work.client)
    /\ UNCHANGED preferred

\* handleUnexpectedDisconnect: only the active client's listener still counts.
ConnectionLost ==
    /\ active # None
    /\ ~Working
    /\ StartFailover(active)
    /\ UNCHANGED <<preferred, endpoint, timer, req, shutdown>>

TimerFires ==
    /\ timer
    /\ timer' = FALSE
    /\ IF active # None \/ SharesWork THEN UNCHANGED <<work, life, endpoint>>
       ELSE Boot(BothEndpoints, None)
    /\ UNCHANGED <<active, preferred, req, shutdown>>

-------------------------------------------------------------------------------
(* Shutdown.                                                               *)

Shutdown ==
    /\ ~Destroyed
    /\ timer' = FALSE
    /\ IF Working THEN shutdown' = "waiting" /\ UNCHANGED <<active, life>>
       ELSE IF active # None
       THEN /\ shutdown' = "releasing"
            /\ active' = None
            /\ life' = [life EXCEPT ![active] = "closing"]
       ELSE shutdown' = "done" /\ UNCHANGED <<active, life>>
    /\ UNCHANGED <<preferred, work, endpoint, req>>

\* The client release() took from `active` is closed.
ShutdownReleased ==
    /\ shutdown = "releasing"
    /\ \E k \in Clients :
          /\ life[k] = "closing"
          /\ \A r \in Requests : ~(req[r].pc = "release" /\ req[r].client = k)
          /\ life' = [life EXCEPT ![k] = "closed"]
    /\ shutdown' = "done"
    /\ UNCHANGED <<active, preferred, work, endpoint, timer, req>>

CallerNext(r) ==
    \/ Request(r) \/ SwitchEndpoint(r) \/ RequestAnswered(r)
    \/ FirstFails(r) \/ SecondFails(r) \/ RequestReleased(r)

Next ==
    \/ \E r \in Requests : CallerNext(r)
    \/ FailoverReleased \/ BootSucceeds \/ BootFails \/ BootDropped
    \/ ConnectionLost \/ TimerFires
    \/ Shutdown \/ ShutdownReleased

Spec == ConnectionInit /\ [][Next]_vars

FairSpec ==
    /\ Spec
    /\ WF_vars(FailoverReleased)
    /\ WF_vars(BootSucceeds \/ BootFails)
    /\ WF_vars(BootDropped)
    /\ \A r \in Requests :
          /\ WF_vars(RequestAnswered(r) \/ FirstFails(r) \/ SecondFails(r))
          /\ WF_vars(RequestReleased(r))

-------------------------------------------------------------------------------
(* Properties.                                                             *)

\* The type of the state.
ConnectionTypeOK ==
    /\ active \in Clients \cup {None}
    /\ preferred \in Endpoints
    /\ work \in [phase : {"none", "releasing", "booting", "dropping"},
                 client : Clients \cup {None}, rest : {<<>>} \cup {<<e>> : e \in Endpoints}]
    /\ life \in [Clients -> {"closed", "booting", "open", "closing"}]
    /\ endpoint \in [Clients -> Endpoints]
    /\ timer \in BOOLEAN
    /\ req \in [Requests ->
                  [pc : {"idle", "waitFirst", "waitSecond", "waitSwitch", "first", "second", "release"},
                   client : Clients \cup {None}]]
    /\ shutdown \in {"no", "waiting", "releasing", "done"}

Serving == {k \in Clients : life[k] \in {"booting", "open"}}

\* However requests, lost connections, reconnection timers and shutdown
\* interleave, at most one client is being connected or serves requests, and the
\* one requests are given is open.
OneServing ==
    /\ \A k, m \in Serving : k = m
    /\ active # None => life[active] = "open"

\* Once a connection has been asked for, the manager is connected, connecting,
\* dropping a connection or waiting for its backoff timer until it is shut
\* down; whatever failed last, somebody brings an endpoint back.
Recovering ==
    \/ active # None
    \/ Working
    \/ timer
    \/ Destroyed
    \/ \E r \in Requests : req[r].pc = "release"

NeverStranded == [][Recovering => Recovering']_vars

\* Nothing is connected after shutdown: a connect that was in flight, a timer or
\* a late request never leaves a client behind.
ShutdownCloses == shutdown = "done" => Serving = {} /\ active = None /\ ~timer

\* A request ends, with an answer or an error, after at most two clients, even
\* when every endpoint keeps failing.
RequestsEnd == \A r \in Requests : req[r].pc # "idle" ~> req[r].pc = "idle"
==============================================================================
