------------------------ MODULE ConnectionManagerProofs ------------------------
(***************************************************************************)
(* Proofs about ConnectionManager, for any clients and any callers.        *)
(***************************************************************************)
EXTENDS ConnectionManager, TLAPS

ReqStates == [pc : {"idle", "waitFirst", "waitSecond", "waitSwitch", "first", "second", "release"},
              client : Clients \cup {None}]

CoreTypeOK ==
    /\ active \in Clients \cup {None}
    /\ preferred \in Endpoints
    /\ work \in [phase : {"none", "releasing", "booting", "dropping"},
                 client : Clients \cup {None}, rest : {<<>>} \cup {<<e>> : e \in Endpoints}]
    /\ life \in [Clients -> {"closed", "booting", "open", "closing"}]
    /\ endpoint \in [Clients -> Endpoints]
    /\ timer \in BOOLEAN
    /\ shutdown \in {"no", "waiting", "releasing", "done"}

\* The shared promise has a client of its own, and nobody uses the connection
\* meanwhile.
WorkFine ==
    /\ ~Working => work = NoWork
    /\ Working => /\ active = None
                  /\ work.client \in Clients
                  /\ life[work.client] = IF work.phase = "booting" THEN "booting" ELSE "closing"
    /\ work.phase = "releasing" => work.rest # <<>>

\* Every client that is connected or connecting is the active one or the one the
\* promise connects.
ClientsFine ==
    /\ active # None => life[active] = "open"
    /\ \A k \in Clients : /\ life[k] = "open" => k = active
                          /\ life[k] = "booting" => k = work.client /\ work.phase = "booting"

\* Shutdown waits for the promise, and after that no connect begins.
ShutdownFine ==
    /\ Destroyed => ~timer
    /\ shutdown = "waiting" => Working
    /\ shutdown \in {"releasing", "done"} => ~Working /\ active = None

\* A client a caller closes is nobody else's to close.
RequestsFine ==
    /\ req \in [Requests -> ReqStates]
    /\ \A r \in Requests :
          /\ req[r].pc \in {"first", "second", "release"} => req[r].client \in Clients
          /\ req[r].pc = "release" =>
                 /\ life[req[r].client] = "closing"
                 /\ work.client # req[r].client
                 /\ \A s \in Requests :
                       req[s].pc = "release" /\ req[s].client = req[r].client => s = r

ConnectionCore == CoreTypeOK /\ WorkFine /\ ClientsFine /\ ShutdownFine

ConnectionInv == ConnectionCore /\ RequestsFine

StepFine == ConnectionInv' /\ (Recovering => Recovering')

-------------------------------------------------------------------------------
LEMMA ConnectionInitially == ConnectionInit => ConnectionInv
<1> SUFFICES ASSUME ConnectionInit PROVE ConnectionInv
  OBVIOUS
<1>1. CoreTypeOK
  BY DEF ConnectionInit, CoreTypeOK, NoWork, Endpoints
<1>2. WorkFine /\ ClientsFine /\ ShutdownFine
  BY DEF ConnectionInit, WorkFine, ClientsFine, ShutdownFine, Working, NoWork, Destroyed
<1>3. RequestsFine
  BY DEF ConnectionInit, RequestsFine, ReqStates, IdleReq
<1>4. QED
  BY <1>1, <1>2, <1>3 DEF ConnectionInv, ConnectionCore

\* Callers move on and leave the clients other callers close to them.
LEMMA RequestsKeep ==
    ASSUME RequestsFine, req' \in [Requests -> ReqStates],
           \A r \in Requests :
              /\ req'[r].pc \in {"first", "second"} => req'[r].client \in Clients
              /\ req'[r].pc = "release" => /\ req'[r] = req[r]
                                           /\ life'[req[r].client] = "closing"
                                           /\ work'.client # req[r].client
    PROVE  RequestsFine'
  BY DEF RequestsFine

\* The orders connectInOrder is given, and what is left of them.
LEMMA OrderFine ==
    ASSUME CoreTypeOK
    PROVE  /\ BothEndpoints # <<>>
           /\ Head(BothEndpoints) \in Endpoints
           /\ Tail(BothEndpoints) \in {<<>>} \cup {<<e>> : e \in Endpoints}
           /\ work.rest # <<>> => /\ Head(work.rest) \in Endpoints
                                  /\ Tail(work.rest) = <<>>
<1>1. preferred \in Endpoints /\ OtherEndpoint(preferred) \in Endpoints
  BY DEF CoreTypeOK, OtherEndpoint, Endpoints
<1>2. /\ Head(BothEndpoints) = preferred /\ BothEndpoints # <<>>
      /\ Tail(BothEndpoints) = <<OtherEndpoint(preferred)>>
  BY <1>1 DEF BothEndpoints
<1>3. ASSUME work.rest # <<>>
      PROVE  Head(work.rest) \in Endpoints /\ Tail(work.rest) = <<>>
  <2>1. PICK e \in Endpoints : work.rest = <<e>>
    BY <1>3 DEF CoreTypeOK
  <2>2. QED
    BY <2>1
<1>4. QED
  BY <1>1, <1>2, <1>3

\* Nobody has the client a bootstrap takes.
LEMMA BootKeeps ==
    ASSUME ConnectionInv, NEW order, Head(order) \in Endpoints,
           Tail(order) \in {<<>>} \cup {<<e>> : e \in Endpoints},
           NEW closing, Boot(order, closing), ~Destroyed, active = None,
           \/ closing = None /\ ~Working
           \/ closing = work.client /\ Working /\ work.phase # "booting",
           preferred' \in Endpoints, timer' \in BOOLEAN, UNCHANGED <<active, shutdown>>
    PROVE  /\ ConnectionCore' /\ Working'
           /\ \A r \in Requests : req[r].pc = "release" =>
                 life'[req[r].client] = "closing" /\ work'.client # req[r].client
<1>1. PICK k \in Clients :
          /\ Fresh(k)
          /\ work' = [phase |-> "booting", client |-> k, rest |-> Tail(order)]
          /\ life' = [x \in Clients |-> IF x = k THEN "booting"
                                        ELSE IF x = closing THEN "closed" ELSE life[x]]
          /\ endpoint' = [endpoint EXCEPT ![k] = Head(order)]
  BY DEF Boot
<1>2. CoreTypeOK'
  BY <1>1 DEF ConnectionInv, ConnectionCore, CoreTypeOK
<1>3. WorkFine' /\ Working'
  BY <1>1 DEF WorkFine, Working
<1>4. ClientsFine'
  BY <1>1 DEF ConnectionInv, ConnectionCore, ClientsFine, WorkFine, Working, Fresh
<1>5. ShutdownFine'
  BY <1>3 DEF ShutdownFine, Destroyed, ConnectionInv, ConnectionCore, CoreTypeOK
<1>6. \A r \in Requests : req[r].pc = "release" =>
         life'[req[r].client] = "closing" /\ work'.client # req[r].client
  BY <1>1, ClientAssumption DEF ConnectionInv, RequestsFine, Fresh
<1>7. QED
  BY <1>2, <1>3, <1>4, <1>5, <1>6 DEF ConnectionCore

\* The promise is settled: every caller that awaited it goes on.
LEMMA ResumeKeeps ==
    ASSUME ConnectionInv, NEW client \in Clients \cup {None}, ResumeAll(client),
           \A r \in Requests : req[r].pc = "release" =>
              life'[req[r].client] = "closing" /\ work'.client # req[r].client
    PROVE  /\ RequestsFine'
           /\ \A r \in Requests : req[r].pc = "release" => req'[r].pc = "release"
<1>1. \A r \in Requests : /\ req'[r] \in ReqStates
                          /\ req'[r].pc = "release" => req'[r] = req[r]
                          /\ req'[r].pc \in {"first", "second"} => req'[r].client \in Clients
                          /\ req[r].pc = "release" => req'[r] = req[r]
  <2> TAKE r \in Requests
  <2>1. req[r] \in ReqStates
    BY DEF ConnectionInv, RequestsFine
  <2>2. req'[r] = IF Waiting(r) THEN Resumed(r, client) ELSE req[r]
    BY DEF ResumeAll
  <2>3. CASE Waiting(r)
    <3>1. /\ Resumed(r, client) \in ReqStates /\ Resumed(r, client).pc # "release"
          /\ Resumed(r, client).pc \in {"first", "second"} => Resumed(r, client).client \in Clients
      BY DEF Resumed, ReqStates, IdleReq
    <3>2. QED
      BY <2>2, <2>3, <3>1 DEF Waiting
  <2>4. CASE ~Waiting(r)
    BY <2>1, <2>2, <2>4 DEF ConnectionInv, RequestsFine
  <2>5. QED
    BY <2>3, <2>4
<1>2. req' \in [Requests -> ReqStates]
  BY <1>1 DEF ResumeAll
<1>3. RequestsFine'
  BY <1>1, <1>2, RequestsKeep DEF ConnectionInv
<1>4. QED
  BY <1>1, <1>3

\* connectInOrder goes on to the next endpoint or gives up.
LEMMA ConnectNextKeeps ==
    ASSUME ConnectionInv, NEW order, order # <<>> => Head(order) \in Endpoints /\ Tail(order) = <<>>,
           Working, work.phase # "booting", ConnectNext(order, work.client), preferred' \in Endpoints
    PROVE  StepFine
<1>0. active = None /\ work.client \in Clients
  BY DEF ConnectionInv, ConnectionCore, WorkFine
<1>1. CASE KeepsConnecting(order)
  <2>1. /\ Boot(order, work.client) /\ UNCHANGED <<active, timer, req, shutdown>>
        /\ Head(order) \in Endpoints /\ Tail(order) = <<>> /\ ~Destroyed
    BY <1>1 DEF ConnectNext, KeepsConnecting
  <2>2. /\ ConnectionCore' /\ Working'
        /\ \A r \in Requests : req[r].pc = "release" =>
              life'[req[r].client] = "closing" /\ work'.client # req[r].client
    BY <1>0, <2>1, BootKeeps DEF ConnectionInv, ConnectionCore, CoreTypeOK
  <2>3. RequestsFine'
    BY <2>1, <2>2, RequestsKeep DEF ConnectionInv, RequestsFine
  <2>4. QED
    BY <2>2, <2>3 DEF StepFine, ConnectionInv, Recovering
<1>2. CASE ~KeepsConnecting(order)
  <2>1. ConnectFailed(work.client)
    BY <1>2 DEF ConnectNext
  <2>2. /\ work' = NoWork /\ timer' = (timer \/ ~Destroyed) /\ ResumeAll(None)
        /\ life' = [x \in Clients |-> IF x = work.client THEN "closed" ELSE life[x]]
        /\ shutdown' = (IF shutdown = "waiting" THEN "done" ELSE shutdown)
        /\ UNCHANGED <<active, endpoint>>
    BY <2>1 DEF ConnectFailed
  <2>3. CoreTypeOK'
    <3>1. timer' \in BOOLEAN
      BY <2>2, Zenon DEF ConnectionInv, ConnectionCore, CoreTypeOK, Destroyed
    <3>2. work' \in [phase : {"none", "releasing", "booting", "dropping"},
                     client : Clients \cup {None}, rest : {<<>>} \cup {<<e>> : e \in Endpoints}]
      BY <2>2 DEF NoWork
    <3>3. QED
      BY <2>2, <3>1, <3>2 DEF ConnectionInv, ConnectionCore, CoreTypeOK
  <2>4. WorkFine' /\ ~Working' /\ work'.client = None
    BY <2>2 DEF WorkFine, Working, NoWork
  <2>5. ClientsFine'
    BY <1>0, <2>2 DEF ConnectionInv, ConnectionCore, ClientsFine, WorkFine, Working
  <2>6. ShutdownFine'
    BY <1>0, <2>2, <2>4 DEF ConnectionInv, ConnectionCore, ShutdownFine, Destroyed, CoreTypeOK
  <2>7. \A r \in Requests : req[r].pc = "release" =>
           life'[req[r].client] = "closing" /\ work'.client # req[r].client
    BY <2>2, <2>4, ClientAssumption DEF ConnectionInv, RequestsFine
  <2>8. RequestsFine'
    BY <2>2, <2>7, ResumeKeeps
  <2>9. Recovering'
    BY <2>2 DEF Recovering, Destroyed
  <2>10. QED
    BY <2>3, <2>4, <2>5, <2>6, <2>8, <2>9 DEF StepFine, ConnectionInv, ConnectionCore
<1>3. QED
  BY <1>1, <1>2

-------------------------------------------------------------------------------
\* One caller goes on; nothing else changes.
LEMMA CallerMovesOn ==
    ASSUME ConnectionInv, NEW r \in Requests, req[r].pc # "release",
           NEW q \in ReqStates, req' = [req EXCEPT ![r] = q], q.pc # "release",
           q.pc \in {"first", "second"} => q.client \in Clients
    PROVE  /\ req' \in [Requests -> ReqStates]
           /\ \A s \in Requests :
                 /\ req'[s].pc \in {"first", "second"} => req'[s].client \in Clients
                 /\ req'[s].pc = "release" => req'[s] = req[s]
                 /\ req[s].pc = "release" => req'[s] = req[s]
  BY DEF ConnectionInv, RequestsFine

LEMMA CallerKeeps ==
    ASSUME ConnectionInv, NEW r \in Requests, req[r].pc # "release",
           NEW q \in ReqStates, req' = [req EXCEPT ![r] = q], q.pc # "release",
           q.pc \in {"first", "second"} => q.client \in Clients,
           UNCHANGED <<active, preferred, work, life, endpoint, timer, shutdown>>
    PROVE  StepFine
<1>1. ConnectionCore'
  BY DEF ConnectionInv, ConnectionCore, CoreTypeOK, WorkFine, Working, ClientsFine, ShutdownFine,
     Destroyed
<1>2. RequestsFine'
  BY CallerMovesOn, RequestsKeep DEF ConnectionInv, RequestsFine
<1>3. Recovering => Recovering'
  BY CallerMovesOn DEF Recovering, Working, Destroyed
<1>4. QED
  BY <1>1, <1>2, <1>3 DEF StepFine, ConnectionInv

\* connection(): the client that is active, the promise in flight, a new connect,
\* or nothing once the manager is shut down.
LEMMA ConnectionKeeps ==
    ASSUME ConnectionInv, NEW r \in Requests, req[r].pc # "release",
           NEW now \in {"idle", "first", "second"},
           NEW then \in {"waitFirst", "waitSecond", "waitSwitch"},
           Connection(r, now, then), UNCHANGED <<active, preferred, timer, shutdown>>
    PROVE  StepFine
<1> DEFINE waits == [pc |-> then, client |-> None]
<1>1. /\ IdleReq \in ReqStates /\ IdleReq.pc = "idle"
      /\ waits \in ReqStates /\ waits.pc = then
  BY DEF IdleReq, ReqStates
<1>2. CASE active # None
  <2>1. PICK q : q = IF now = "idle" THEN IdleReq ELSE [pc |-> now, client |-> active]
    OBVIOUS
  <2>2. /\ q \in ReqStates /\ q.pc # "release"
        /\ q.pc \in {"first", "second"} => q.client \in Clients
    BY <1>2, <2>1 DEF IdleReq, ReqStates, ConnectionInv, ConnectionCore, CoreTypeOK
  <2>3. req' = [req EXCEPT ![r] = q] /\ UNCHANGED <<work, life, endpoint>>
    BY <1>2, <2>1 DEF Connection
  <2>4. QED
    BY <2>2, <2>3, CallerKeeps
<1>3. CASE active = None /\ (SharesWork \/ ~KeepsConnecting(BothEndpoints))
  <2>1. PICK q \in {IdleReq, waits} :
            req' = [req EXCEPT ![r] = q] /\ UNCHANGED <<work, life, endpoint>>
    BY <1>3 DEF Connection
  <2> HIDE DEF waits
  <2>2. q \in ReqStates /\ q.pc \in {"idle", then}
    BY <1>1, <2>1
  <2>3. QED
    BY <2>1, <2>2, CallerKeeps
<1>4. CASE active = None /\ ~SharesWork /\ KeepsConnecting(BothEndpoints)
  <2>1. /\ req' = [req EXCEPT ![r] = waits] /\ Boot(BothEndpoints, None)
        /\ ~Working /\ ~Destroyed
    BY <1>4 DEF Connection, SharesWork, KeepsConnecting
  <2>2. /\ ConnectionCore' /\ Working'
        /\ \A s \in Requests : req[s].pc = "release" =>
              life'[req[s].client] = "closing" /\ work'.client # req[s].client
    BY <1>4, <2>1, OrderFine, BootKeeps DEF ConnectionInv, ConnectionCore, CoreTypeOK
  <2> HIDE DEF waits
  <2>3. RequestsFine'
    BY <1>1, <2>1, <2>2, CallerMovesOn, RequestsKeep DEF ConnectionInv
  <2>4. QED
    BY <2>2, <2>3 DEF StepFine, ConnectionInv, Recovering
<1>5. QED
  BY <1>2, <1>3, <1>4

\* The active client is closed inside the promise; the caller, if any, awaits it.
LEMMA StartFailoverKeeps ==
    ASSUME ConnectionInv, active # None, StartFailover(active),
           UNCHANGED <<preferred, endpoint, timer, shutdown>>,
           req' \in [Requests -> ReqStates],
           \A s \in Requests :
              /\ req'[s].pc \in {"first", "second"} => req'[s].client \in Clients
              /\ req'[s].pc = "release" => req'[s] = req[s]
    PROVE  StepFine
<1>1. /\ active \in Clients /\ life[active] = "open" /\ ~Working /\ shutdown \notin {"waiting", "releasing", "done"}
  BY DEF ConnectionInv, ConnectionCore, CoreTypeOK, ClientsFine, WorkFine, ShutdownFine
<1>2. shutdown = "no"
  BY <1>1 DEF ConnectionInv, ConnectionCore, CoreTypeOK
<1>3. /\ active' = None /\ life' = [life EXCEPT ![active] = "closing"]
      /\ work' = [phase |-> "releasing", client |-> active, rest |-> <<OtherEndpoint(endpoint[active])>>]
  BY DEF StartFailover
<1>4. CoreTypeOK'
  <2>1. endpoint[active] \in Endpoints
    BY <1>1 DEF ConnectionInv, ConnectionCore, CoreTypeOK
  <2>2. OtherEndpoint(endpoint[active]) \in Endpoints
    BY <2>1 DEF OtherEndpoint, Endpoints
  <2>3. QED
    BY <1>1, <1>3, <2>2 DEF ConnectionInv, ConnectionCore, CoreTypeOK
<1>5. WorkFine' /\ Working'
  BY <1>1, <1>3 DEF WorkFine, Working, ConnectionInv, ConnectionCore, CoreTypeOK
<1>6. ClientsFine'
  BY <1>1, <1>3 DEF ClientsFine, ConnectionInv, ConnectionCore, CoreTypeOK, Working
<1>7. ShutdownFine'
  BY <1>2 DEF ShutdownFine, Destroyed
<1>8. RequestsFine'
  <2>1. \A s \in Requests : req[s].pc = "release" => req[s].client # active
    BY <1>1 DEF ConnectionInv, RequestsFine
  <2>2. \A s \in Requests : req'[s].pc = "release" =>
           life'[req[s].client] = "closing" /\ work'.client # req[s].client
    BY <1>3, <2>1 DEF ConnectionInv, ConnectionCore, CoreTypeOK, RequestsFine
  <2>3. QED
    BY <2>2, RequestsKeep DEF ConnectionInv
<1>9. QED
  BY <1>4, <1>5, <1>6, <1>7, <1>8 DEF StepFine, ConnectionInv, ConnectionCore, Recovering

LEMMA FailoverKeeps ==
    ASSUME ConnectionInv, NEW r \in Requests, req[r].pc # "release", NEW k \in Clients,
           NEW now \in {"idle", "first", "second"},
           NEW then \in {"waitFirst", "waitSecond", "waitSwitch"},
           Failover(r, k, now, then), UNCHANGED <<preferred, timer, shutdown>>
    PROVE  StepFine
<1>1. CASE ~Working /\ active = k
  <2> DEFINE waits == [pc |-> then, client |-> None]
  <2>1. waits \in ReqStates /\ waits.pc = then
    BY DEF ReqStates
  <2>2. /\ StartFailover(active) /\ active # None
        /\ req' = [req EXCEPT ![r] = waits] /\ UNCHANGED endpoint
    BY <1>1, ClientAssumption DEF Failover
  <2> HIDE DEF waits
  <2>3. QED
    BY <2>1, <2>2, CallerMovesOn, StartFailoverKeeps
<1>2. CASE ~(~Working /\ active = k)
  BY <1>2, ConnectionKeeps DEF Failover
<1>3. QED
  BY <1>1, <1>2

-------------------------------------------------------------------------------
LEMMA CallerNextKeeps ==
    ASSUME ConnectionInv, NEW r \in Requests, CallerNext(r)
    PROVE  StepFine
<1>0. /\ req[r] \in ReqStates /\ IdleReq \in ReqStates /\ IdleReq.pc = "idle"
      /\ req[r].pc \in {"first", "second", "release"} => req[r].client \in Clients
  BY DEF ConnectionInv, RequestsFine, IdleReq, ReqStates
<1>1. CASE Request(r)
  BY <1>1, ConnectionKeeps DEF Request
<1>2. CASE SwitchEndpoint(r)
  <2>1. CASE active = None
    BY <1>2, <2>1, ConnectionKeeps DEF SwitchEndpoint
  <2>2. CASE active # None
    <3>1. active \in Clients
      BY <2>2 DEF ConnectionInv, ConnectionCore, CoreTypeOK
    <3>2. QED
      BY <1>2, <2>2, <3>1, FailoverKeeps DEF SwitchEndpoint
  <2>3. QED
    BY <2>1, <2>2
<1>3. CASE RequestAnswered(r)
  BY <1>0, <1>3, CallerKeeps DEF RequestAnswered
<1>4. CASE FirstFails(r)
  BY <1>0, <1>4, FailoverKeeps DEF FirstFails
<1>5. CASE SecondFails(r)
  <2>1. CASE active = req[r].client /\ ~Working
    <3>1. PICK k \in Clients : k = req[r].client /\ k = active
      BY <1>0, <1>5, <2>1 DEF SecondFails
    <3>2. PICK q : q = [pc |-> "release", client |-> k]
      OBVIOUS
    <3>3. /\ q \in ReqStates /\ q.pc = "release" /\ q.client = k
          /\ active' = None /\ life' = [life EXCEPT ![k] = "closing"]
          /\ req' = [req EXCEPT ![r] = q]
          /\ UNCHANGED <<preferred, work, endpoint, timer, shutdown>>
      BY <1>5, <2>1, <3>1, <3>2 DEF SecondFails, ReqStates
    <3>4. life[k] = "open" /\ shutdown = "no" /\ work.client = None
      BY <2>1, <3>1, ClientAssumption DEF ConnectionInv, ConnectionCore, CoreTypeOK, ClientsFine,
         WorkFine, ShutdownFine, NoWork
    <3>5. CoreTypeOK'
      BY <3>3 DEF ConnectionInv, ConnectionCore, CoreTypeOK
    <3>6. WorkFine' /\ ClientsFine' /\ ShutdownFine'
      BY <2>1, <3>1, <3>3, <3>4 DEF ConnectionInv, ConnectionCore, CoreTypeOK, ClientsFine, WorkFine,
         Working, ShutdownFine, Destroyed
    <3>7. RequestsFine'
      <4>1. \A s \in Requests : req[s].pc = "release" => req[s].client # k
        BY <3>4 DEF ConnectionInv, RequestsFine
      <4>2. req'[r] = q /\ \A s \in Requests \ {r} : req'[s] = req[s]
        BY <3>3 DEF ConnectionInv, RequestsFine
      <4>3. work'.client # k /\ life'[k] = "closing" /\ \A m \in Clients \ {k} : life'[m] = life[m]
        BY <3>3, <3>4, ClientAssumption DEF ConnectionInv, ConnectionCore, CoreTypeOK
      <4>4. req' \in [Requests -> ReqStates] /\ work' = work
        BY <3>3 DEF ConnectionInv, RequestsFine
      <4>5. QED
        BY <3>3, <4>1, <4>2, <4>3, <4>4 DEF ConnectionInv, RequestsFine
    <3>8. Recovering'
      BY <3>3 DEF Recovering, ConnectionInv, RequestsFine
    <3>9. QED
      BY <3>5, <3>6, <3>7, <3>8 DEF StepFine, ConnectionInv, ConnectionCore
  <2>2. CASE ~(active = req[r].client /\ ~Working)
    BY <1>0, <1>5, <2>2, CallerKeeps DEF SecondFails
  <2>3. QED
    BY <2>1, <2>2
<1>6. CASE RequestReleased(r)
  <2>1. PICK k \in Clients : k = req[r].client
    BY <1>0, <1>6 DEF RequestReleased
  <2>2. /\ req[r].pc = "release" /\ life' = [life EXCEPT ![k] = "closed"]
        /\ timer' = (timer \/ ~Destroyed) /\ req' = [req EXCEPT ![r] = IdleReq]
        /\ UNCHANGED <<active, preferred, work, endpoint, shutdown>>
    BY <1>6, <2>1 DEF RequestReleased
  <2>3. life[k] = "closing" /\ work.client # k
    BY <2>1, <2>2 DEF ConnectionInv, RequestsFine
  <2>4. CoreTypeOK'
    <3>1. timer' \in BOOLEAN
      BY <2>2, Zenon DEF ConnectionInv, ConnectionCore, CoreTypeOK, Destroyed
    <3>2. QED
      BY <2>2, <3>1 DEF ConnectionInv, ConnectionCore, CoreTypeOK
  <2>5. WorkFine' /\ ClientsFine'
    BY <2>2, <2>3 DEF ConnectionInv, ConnectionCore, CoreTypeOK, ClientsFine, WorkFine, Working
  <2>6. ShutdownFine'
    BY <2>2 DEF ConnectionInv, ConnectionCore, ShutdownFine, Destroyed, Working
  <2>7. RequestsFine'
    <3>1. req'[r] = IdleReq /\ \A s \in Requests \ {r} : req'[s] = req[s]
      BY <2>2 DEF ConnectionInv, RequestsFine
    <3>2. \A s \in Requests \ {r} : req[s].pc = "release" => req[s].client # k
      BY <2>1, <2>2 DEF ConnectionInv, RequestsFine
    <3>3. \A s \in Requests : req'[s].pc = "release" =>
             /\ req'[s] = req[s] /\ life'[req[s].client] = "closing" /\ work'.client # req[s].client
      BY <1>0, <2>2, <3>1, <3>2 DEF ConnectionInv, ConnectionCore, CoreTypeOK, RequestsFine
    <3>4. /\ req' \in [Requests -> ReqStates]
          /\ \A s \in Requests : req'[s].pc \in {"first", "second"} => req'[s].client \in Clients
      BY <1>0, <2>2, <3>1 DEF ConnectionInv, RequestsFine
    <3>5. QED
      BY <3>3, <3>4, RequestsKeep DEF ConnectionInv
  <2>8. Recovering'
    BY <2>2 DEF Recovering, Destroyed
  <2>9. QED
    BY <2>4, <2>5, <2>6, <2>7, <2>8 DEF StepFine, ConnectionInv, ConnectionCore
<1>7. QED
  BY <1>1, <1>2, <1>3, <1>4, <1>5, <1>6 DEF CallerNext

-------------------------------------------------------------------------------
LEMMA FailoverReleasedKeeps ==
    ASSUME ConnectionInv, FailoverReleased
    PROVE  StepFine
<1>1. Working /\ work.phase = "releasing" /\ work.rest # <<>>
  BY DEF FailoverReleased, Working, ConnectionInv, ConnectionCore, WorkFine
<1>2. Head(work.rest) \in Endpoints /\ Tail(work.rest) = <<>>
  BY <1>1, OrderFine DEF ConnectionInv, ConnectionCore
<1>3. QED
  BY <1>1, <1>2, ConnectNextKeeps DEF FailoverReleased

LEMMA BootDroppedKeeps ==
    ASSUME ConnectionInv, BootDropped
    PROVE  StepFine
<1>1. Working /\ work.phase = "dropping" /\ preferred' \in Endpoints
  BY DEF BootDropped, Working, ConnectionInv, ConnectionCore, CoreTypeOK
<1>2. work.rest # <<>> => Head(work.rest) \in Endpoints /\ Tail(work.rest) = <<>>
  BY OrderFine DEF ConnectionInv, ConnectionCore
<1>3. QED
  BY <1>1, <1>2, ConnectNextKeeps DEF BootDropped, Remaining

\* The new client is the active one, or the shutdown that waited for it closes it.
LEMMA BootSucceedsKeeps ==
    ASSUME ConnectionInv, BootSucceeds
    PROVE  StepFine
<1>1. PICK k \in Clients : k = work.client
  BY DEF BootSucceeds, ConnectionInv, ConnectionCore, WorkFine, Working
<1>2. /\ work.phase = "booting" /\ Working /\ life[k] = "booting" /\ active = None /\ k # None
  BY <1>1, ClientAssumption DEF BootSucceeds, ConnectionInv, ConnectionCore, WorkFine, Working
<1>3. /\ preferred' = endpoint[k] /\ work' = NoWork /\ ResumeAll(k) /\ UNCHANGED <<endpoint, timer>>
      /\ \/ /\ shutdown = "waiting" /\ active' = None /\ life' = [life EXCEPT ![k] = "closing"]
            /\ shutdown' = "releasing"
         \/ /\ shutdown # "waiting" /\ active' = k /\ life' = [life EXCEPT ![k] = "open"]
            /\ shutdown' = shutdown
  BY <1>1 DEF BootSucceeds
<1>4. CoreTypeOK'
  <2>1. work' \in [phase : {"none", "releasing", "booting", "dropping"},
                   client : Clients \cup {None}, rest : {<<>>} \cup {<<e>> : e \in Endpoints}]
    BY <1>3 DEF NoWork
  <2>2. QED
    BY <1>3, <2>1 DEF ConnectionInv, ConnectionCore, CoreTypeOK
<1>5. WorkFine' /\ ~Working' /\ work'.client = None
  BY <1>3 DEF WorkFine, Working, NoWork
<1>6. ClientsFine'
  <2>1. \A m \in Clients \ {k} : life'[m] = life[m] /\ life[m] \notin {"open", "booting"}
    BY <1>1, <1>2, <1>3, ClientAssumption DEF ConnectionInv, ConnectionCore, CoreTypeOK, ClientsFine
  <2>2. CASE active' = None /\ life'[k] = "closing"
    BY <2>1, <2>2 DEF ClientsFine
  <2>3. CASE active' = k /\ life'[k] = "open"
    BY <2>1, <2>3 DEF ClientsFine
  <2>4. QED
    BY <1>1, <1>3, <2>2, <2>3 DEF ConnectionInv, ConnectionCore, CoreTypeOK
<1>7. ShutdownFine'
  BY <1>2, <1>3, <1>5 DEF ConnectionInv, ConnectionCore, CoreTypeOK, ShutdownFine, Destroyed
<1>8. \A r \in Requests : req[r].pc = "release" =>
         life'[req[r].client] = "closing" /\ work'.client # req[r].client
  BY <1>1, <1>3, <1>5, ClientAssumption DEF ConnectionInv, ConnectionCore, CoreTypeOK, RequestsFine
<1>9. RequestsFine'
  BY <1>3, <1>8, ResumeKeeps
<1>10. Recovering'
  BY <1>2, <1>3 DEF Recovering, Destroyed
<1>11. QED
  BY <1>4, <1>5, <1>6, <1>7, <1>9, <1>10 DEF StepFine, ConnectionInv, ConnectionCore

LEMMA BootFailsKeeps ==
    ASSUME ConnectionInv, BootFails
    PROVE  StepFine
<1>1. PICK k \in Clients : k = work.client
  BY DEF BootFails, ConnectionInv, ConnectionCore, WorkFine, Working
<1>2. /\ work' = [work EXCEPT !.phase = "dropping"] /\ life' = [life EXCEPT ![k] = "closing"]
      /\ UNCHANGED <<active, preferred, endpoint, timer, req, shutdown>>
      /\ work.phase = "booting" /\ Working
  BY <1>1 DEF BootFails, Working
<1>3. CoreTypeOK' /\ work'.phase = "dropping" /\ work'.client = k
  BY <1>1, <1>2 DEF ConnectionInv, ConnectionCore, CoreTypeOK
<1>4. WorkFine' /\ Working' /\ ClientsFine' /\ ShutdownFine'
  BY <1>1, <1>2, <1>3 DEF ConnectionInv, ConnectionCore, CoreTypeOK, WorkFine, Working, ClientsFine,
     ShutdownFine, Destroyed
<1>5. RequestsFine'
  BY <1>1, <1>2, <1>3, RequestsKeep DEF ConnectionInv, ConnectionCore, CoreTypeOK, RequestsFine
<1>6. QED
  BY <1>3, <1>4, <1>5 DEF StepFine, ConnectionInv, ConnectionCore, Recovering

LEMMA ConnectionLostKeeps ==
    ASSUME ConnectionInv, ConnectionLost
    PROVE  StepFine
  BY StartFailoverKeeps DEF ConnectionLost, ConnectionInv, RequestsFine

LEMMA TimerFiresKeeps ==
    ASSUME ConnectionInv, TimerFires
    PROVE  StepFine
<1>1. /\ timer = TRUE /\ timer' = FALSE /\ UNCHANGED <<active, preferred, req, shutdown>> /\ ~Destroyed
  BY DEF TimerFires, ConnectionInv, ConnectionCore, CoreTypeOK, ShutdownFine
<1>2. CASE active # None \/ Working
  <2>1. UNCHANGED <<work, life, endpoint>>
    BY <1>2 DEF TimerFires, SharesWork
  <2>2. ConnectionCore'
    BY <1>1, <2>1 DEF ConnectionInv, ConnectionCore, CoreTypeOK, WorkFine, Working, ClientsFine,
       ShutdownFine, Destroyed
  <2>3. RequestsFine'
    BY <1>1, <2>1 DEF ConnectionInv, RequestsFine
  <2>4. QED
    BY <1>1, <1>2, <2>1, <2>2, <2>3 DEF StepFine, ConnectionInv, Recovering, Working
<1>3. CASE active = None /\ ~Working
  <2>1. Boot(BothEndpoints, None)
    BY <1>3 DEF TimerFires, SharesWork
  <2>2. /\ ConnectionCore' /\ Working'
        /\ \A r \in Requests : req[r].pc = "release" =>
              life'[req[r].client] = "closing" /\ work'.client # req[r].client
    BY <1>1, <1>3, <2>1, OrderFine, BootKeeps DEF ConnectionInv, ConnectionCore, CoreTypeOK
  <2>3. RequestsFine'
    BY <1>1, <2>2, RequestsKeep DEF ConnectionInv, RequestsFine
  <2>4. QED
    BY <2>2, <2>3 DEF StepFine, ConnectionInv, Recovering
<1>4. QED
  BY <1>2, <1>3

LEMMA ShutdownKeeps ==
    ASSUME ConnectionInv, Shutdown
    PROVE  StepFine
<1>1. /\ timer' = FALSE /\ UNCHANGED <<preferred, work, endpoint, req>>
  BY DEF Shutdown
<1>2. CASE Working
  <2>1. shutdown' = "waiting" /\ UNCHANGED <<active, life>>
    BY <1>2 DEF Shutdown
  <2>2. ConnectionCore' /\ RequestsFine' /\ Destroyed'
    BY <1>1, <1>2, <2>1 DEF ConnectionInv, ConnectionCore, CoreTypeOK, WorkFine, Working, ClientsFine,
       ShutdownFine, Destroyed, RequestsFine
  <2>3. QED
    BY <2>2 DEF StepFine, ConnectionInv, Recovering
<1>3. CASE ~Working /\ active # None
  <2>1. shutdown' = "releasing" /\ active' = None /\ life' = [life EXCEPT ![active] = "closing"]
    BY <1>3 DEF Shutdown
  <2>2. active \in Clients /\ life[active] = "open"
    BY <1>3 DEF ConnectionInv, ConnectionCore, CoreTypeOK, ClientsFine
  <2>3. ConnectionCore'
    BY <1>1, <1>3, <2>1, <2>2 DEF ConnectionInv, ConnectionCore, CoreTypeOK, WorkFine, Working,
       ClientsFine, ShutdownFine, Destroyed
  <2>4. RequestsFine'
    BY <1>1, <2>1, <2>2, RequestsKeep DEF ConnectionInv, ConnectionCore, CoreTypeOK, RequestsFine
  <2>5. QED
    BY <2>1, <2>3, <2>4 DEF StepFine, ConnectionInv, Recovering, Destroyed
<1>4. CASE ~Working /\ active = None
  <2>1. shutdown' = "done" /\ UNCHANGED <<active, life>>
    BY <1>4 DEF Shutdown
  <2>2. ConnectionCore' /\ RequestsFine' /\ Destroyed'
    BY <1>1, <1>4, <2>1 DEF ConnectionInv, ConnectionCore, CoreTypeOK, WorkFine, Working, ClientsFine,
       ShutdownFine, Destroyed, RequestsFine
  <2>3. QED
    BY <2>2 DEF StepFine, ConnectionInv, Recovering
<1>5. QED
  BY <1>2, <1>3, <1>4

LEMMA ShutdownReleasedKeeps ==
    ASSUME ConnectionInv, ShutdownReleased
    PROVE  StepFine
<1>1. PICK k \in Clients :
          /\ life[k] = "closing"
          /\ \A r \in Requests : ~(req[r].pc = "release" /\ req[r].client = k)
          /\ life' = [life EXCEPT ![k] = "closed"]
  BY DEF ShutdownReleased
<1>2. /\ shutdown = "releasing" /\ shutdown' = "done"
      /\ UNCHANGED <<active, preferred, work, endpoint, timer, req>>
  BY DEF ShutdownReleased
<1>3. ConnectionCore'
  BY <1>1, <1>2 DEF ConnectionInv, ConnectionCore, CoreTypeOK, WorkFine, Working, ClientsFine,
     ShutdownFine, Destroyed
<1>4. RequestsFine'
  BY <1>1, <1>2, RequestsKeep DEF ConnectionInv, ConnectionCore, CoreTypeOK, RequestsFine
<1>5. QED
  BY <1>2, <1>3, <1>4 DEF StepFine, ConnectionInv, Recovering, Destroyed

LEMMA ConnectionStep == ConnectionInv /\ [Next]_vars => StepFine
<1> SUFFICES ASSUME ConnectionInv, [Next]_vars PROVE StepFine
  OBVIOUS
<1>1. CASE Next
  BY <1>1, CallerNextKeeps, FailoverReleasedKeeps, BootSucceedsKeeps, BootFailsKeeps, BootDroppedKeeps,
     ConnectionLostKeeps, TimerFiresKeeps, ShutdownKeeps, ShutdownReleasedKeeps DEF Next
<1>2. CASE UNCHANGED vars
  BY <1>2 DEF vars, StepFine, ConnectionInv, ConnectionCore, CoreTypeOK, WorkFine, Working, ClientsFine,
     ShutdownFine, Destroyed, RequestsFine, Recovering
<1>3. QED
  BY <1>1, <1>2

LEMMA ConnectionInvariance == Spec => []ConnectionInv
<1>1. ConnectionInv /\ [Next]_vars => ConnectionInv'
  BY ConnectionStep DEF StepFine
<1>2. QED
  BY <1>1, ConnectionInitially, PTL DEF Spec

-------------------------------------------------------------------------------
\* The manager's fields keep their types.
THEOREM ConnectionTypes == Spec => []ConnectionTypeOK
<1>1. ConnectionInv => ConnectionTypeOK
  BY DEF ConnectionInv, ConnectionCore, CoreTypeOK, RequestsFine, ReqStates, ConnectionTypeOK
<1>2. QED
  BY <1>1, ConnectionInvariance, PTL

\* connection(), failover() and bootstrap(): at most one client is connecting or
\* connected, and the one requests are given is open.
THEOREM OneClientServes == Spec => []OneServing
<1>1. ConnectionInv => OneServing
  BY ClientAssumption DEF ConnectionInv, ConnectionCore, WorkFine, ClientsFine, Working, OneServing, Serving
<1>2. QED
  BY <1>1, ConnectionInvariance, PTL

\* onModuleDestroy and shutdown: a connect in flight, a timer or a late request leaves
\* no client behind.
THEOREM ShutdownIsClean == Spec => []ShutdownCloses
<1>1. ConnectionInv => ShutdownCloses
  BY ClientAssumption DEF ConnectionInv, ConnectionCore, WorkFine, ClientsFine, ShutdownFine,
     Destroyed, Working, CoreTypeOK, ShutdownCloses, Serving
<1>2. QED
  BY <1>1, ConnectionInvariance, PTL

\* connectInOrder, scheduleReconnect and request: a manager that was asked for a
\* connection never ends up with no connection, no connect and no timer.
THEOREM AlwaysRecovers == Spec => NeverStranded
<1>1. ConnectionInv /\ [Next]_vars => [Recovering => Recovering']_vars
  BY ConnectionStep DEF StepFine
<1>2. QED
  BY <1>1, ConnectionInvariance, PTL DEF Spec, NeverStranded
==============================================================================
