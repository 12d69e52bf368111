----------------------------- MODULE Service_proofs -----------------------------
(***************************************************************************)
(* Service for any number of requests, any limit and window of the pings,  *)
(* and any number of signals.                                              *)
(***************************************************************************)
EXTENDS Service, TLAPS

USE DEF limiterVars, serverVars, requestVars, Port

\* A signal reaches the operations server until that has stopped, then the main one.
LEMMA HandlerIs ==
  /\ server["operations"] # "stopped" => Handler = "operations"
  /\ server["operations"] = "stopped" => Handler = "main"
<1>1. \E p \in Port : (p = Last) = (server[Last] # "stopped")
  <2>1. CASE server[Last] # "stopped"
    BY <2>1 DEF Last
  <2>2. CASE server[Last] = "stopped"
    BY <2>2 DEF Last
  <2> QED BY <2>1, <2>2
<1>2. Handler \in Port /\ (Handler = Last) = (server[Last] # "stopped")
  BY <1>1 DEF Handler
<1> QED BY <1>2 DEF Last

\* The signals that are raised again are signals.
LEMMA RaisedAgain ==
  ASSUME NEW s \in Seq(Signal)
  PROVE  [i \in 1..Len(s) |-> s[Len(s) + 1 - i]] \in Seq(Signal)
<1>1. Len(s) \in Nat /\ \A j \in 1..Len(s) : s[j] \in Signal
  OBVIOUS
<1>2. \A i \in 1..Len(s) : Len(s) + 1 - i \in 1..Len(s)
  BY <1>1
<1>3. \A i \in 1..Len(s) : s[Len(s) + 1 - i] \in Signal
  BY <1>1, <1>2
<1> QED BY <1>1, <1>3

-----------------------------------------------------------------------------
(* The limiter *)

\* Another ping is answered.
LEMMA CountedStep ==
  ASSUME LimiterTypeOK, LimiterInv, Counted
  PROVE  LimiterTypeOK' /\ LimiterInv'
<1> DEFINE n == Len(pongs)
<1>1. /\ now \in Nat /\ count \in Nat /\ start \in Nat /\ MaxRequests \in Nat /\ Window \in Nat
      /\ MaxRequests >= 1 /\ Window >= 1 /\ count <= MaxRequests
      /\ n \in Nat /\ DOMAIN pongs = 1..n /\ \A i \in 1..n : pongs[i] \in Nat
  BY LimitAssumption DEF LimiterTypeOK
<1>2. /\ Len(pongs') = n + 1 /\ DOMAIN pongs' = 1..n + 1 /\ pongs'[n + 1] = now /\ now' = now
      /\ \A i \in 1..n : pongs'[i] = pongs[i]
  BY DEF Counted, LimiterTypeOK
<1>3. /\ count' = CountNow + 1 /\ CountNow < MaxRequests /\ CountNow \in Nat /\ start' = StartNow
      /\ CountNow <= n /\ start' \in {start, now} /\ start <= now
  BY <1>1 DEF Counted, CountNow, StartNow, LimiterInv
<1>4. LimiterTypeOK'
  <2>1. pongs' \in Seq(0..MaxTime) /\ now \in 0..MaxTime
    BY DEF Counted, LimiterTypeOK
  <2>2. count' \in 0..MaxRequests /\ start' \in 0..MaxTime /\ now' \in 0..MaxTime
    BY <1>1, <1>3, <1>2 DEF LimiterTypeOK
  <2> QED BY <2>1, <2>2 DEF LimiterTypeOK
<1>5. ASSUME NEW i \in 1..n + 1
      PROVE  /\ pongs'[i] <= now'
             /\ i = n + 1 - count' + 1 => pongs'[i] = start'
             /\ i > n + 1 - count' => start' <= pongs'[i]
             /\ i <= n + 1 - count' => pongs'[i] <= start'
             /\ i <= n + 1 - count' - MaxRequests + 1 => pongs'[i] + Window <= start'
  <2>1. CASE i = n + 1
    <3>1. i = n + 1 - count' + 1 => start' = now
      <4>1. i = n + 1 - count' + 1 => CountNow = 0
        BY <1>1, <1>3, <2>1
      <4>2. ASSUME CountNow = 0 PROVE start' = now
        BY <1>1, <1>3, <4>2 DEF CountNow, StartNow
      <4> QED BY <4>1, <4>2
    <3> QED BY <1>1, <1>2, <1>3, <2>1, <3>1
  <2>2. ASSUME i \in 1..n
        PROVE /\ pongs'[i] = pongs[i] /\ pongs[i] <= now /\ pongs[i] \in Nat
              /\ i = n - count + 1 => pongs[i] = start
              /\ i > n - count => start <= pongs[i]
              /\ i <= n - count => pongs[i] <= start
              /\ i <= n - count - MaxRequests + 1 => pongs[i] + Window <= start
    BY <1>1, <1>2, <2>2 DEF LimiterInv
  <2>3. CASE i \in 1..n /\ count = 0
    BY <1>1, <2>3 DEF LimiterInv
  <2>4. CASE i \in 1..n /\ count # 0 /\ Elapsed
    <3>1. CountNow = 0 /\ start' = now /\ now - start >= Window
      BY <1>3, <2>4 DEF CountNow, StartNow, Elapsed
    <3>2. i <= n - MaxRequests + 1 => pongs[i] + Window <= now
      <4> SUFFICES ASSUME i <= n - MaxRequests + 1 PROVE pongs[i] + Window <= now
        OBVIOUS
      <4>1. i <= n - count \/ i = n - count + 1
        BY <1>1
      <4>2. pongs[i] <= start
        BY <1>1, <2>2, <2>4, <4>1
      <4> QED BY <1>1, <2>2, <2>4, <3>1, <4>2
    <3>3. /\ count' = 1 /\ n + 1 - count' = n
          /\ n + 1 - count' - MaxRequests + 1 = n - MaxRequests + 1
      BY <1>1, <1>3, <3>1
    <3> QED BY <1>1, <1>2, <1>3, <2>2, <2>4, <3>1, <3>2, <3>3
  <2>5. CASE i \in 1..n /\ count # 0 /\ ~Elapsed
    <3>1. CountNow = count /\ start' = start
      BY <1>3, <2>5 DEF CountNow, StartNow
    <3>2. count' = count + 1 /\ now' = now
      BY <1>2, <1>3, <3>1
    <3>3. /\ n + 1 - count' = n - count
          /\ n + 1 - count' - MaxRequests + 1 = n - count - MaxRequests + 1
          /\ n + 1 - count' + 1 = n - count + 1
      <4> HIDE DEF n
      <4> QED BY <1>1, <3>2
    <3> QED BY <2>2, <2>5, <3>1, <3>2, <3>3
  <2> QED BY <1>1, <2>1, <2>3, <2>4, <2>5
<1>6. PongsBounded'
  <2> SUFFICES ASSUME NEW i \in 1..n + 1, i + 2 * MaxRequests - 1 \in 1..n + 1
               PROVE  pongs'[i + 2 * MaxRequests - 1] - pongs'[i] >= Window
    BY <1>2 DEF PongsBounded
  <2>1. CASE i + 2 * MaxRequests - 1 \in 1..n
    <3>1. i \in 1..n
      BY <1>1, <2>1
    <3>2. pongs[i + 2 * MaxRequests - 1] - pongs[i] >= Window
      BY <1>1, <2>1, <3>1 DEF LimiterInv, PongsBounded
    <3>3. PICK m \in 1..n : m = i + 2 * MaxRequests - 1
      BY <2>1
    <3> QED BY <1>2, <3>1, <3>2, <3>3
  <2>2. CASE i + 2 * MaxRequests - 1 = n + 1
    <3>1. i <= n + 1 - count' - MaxRequests + 1 /\ i \in 1..n
      BY <1>1, <1>3, <2>2
    <3>2. pongs'[i] + Window <= start' /\ start' <= now /\ pongs'[i] \in Nat
      BY <1>1, <1>2, <1>3, <1>5, <3>1
    <3>3. pongs'[i + 2 * MaxRequests - 1] = now
      BY <1>2, <2>2
    <3>4. now - pongs'[i] >= Window
      <4>1. start' \in Nat
        BY <1>1, <1>3
      <4> QED BY <1>1, <3>2, <4>1
    <3> QED BY <3>3, <3>4
  <2> QED BY <1>1, <2>1, <2>2
<1>7. start' <= now' /\ count' <= n + 1 /\ count' # 0
  BY <1>1, <1>2, <1>3
<1> HIDE DEF n
<1>8. \A i \in DOMAIN pongs' :
        /\ pongs'[i] <= now'
        /\ i = Len(pongs') - count' + 1 => pongs'[i] = start'
        /\ i > Len(pongs') - count' => start' <= pongs'[i]
        /\ i <= Len(pongs') - count' => pongs'[i] <= start'
        /\ i <= Len(pongs') - count' - MaxRequests + 1 => pongs'[i] + Window <= start'
  <2>1. DOMAIN pongs' = 1..n + 1 /\ Len(pongs') = n + 1
    BY <1>2
  <2>2. /\ n \in Int /\ count' \in Int /\ start' \in Int /\ now' \in Int
        /\ MaxRequests \in Int /\ Window \in Int
    BY <1>1, <1>2, <1>3
  <2>3. \A i \in 1..n + 1 : pongs'[i] \in Int
    BY <1>1, <1>2
  <2>4. TAKE i \in DOMAIN pongs'
  <2>5. i \in 1..n + 1
    BY <2>1
  <2>6. /\ Len(pongs') - count' = n + 1 - count'
        /\ Len(pongs') - count' - MaxRequests = n + 1 - count' - MaxRequests
    BY <2>1, <2>2
  <2>7. /\ pongs'[i] <= now'
        /\ i = n + 1 - count' + 1 => pongs'[i] = start'
        /\ i > n + 1 - count' => start' <= pongs'[i]
        /\ i <= n + 1 - count' => pongs'[i] <= start'
        /\ i <= n + 1 - count' - MaxRequests + 1 => pongs'[i] + Window <= start'
    BY <1>5, <2>5
  <2> QED BY <2>2, <2>3, <2>5, <2>6, <2>7
<1>9. start' <= now' /\ count' <= Len(pongs') /\ (count' = 0 => pongs' = <<>>)
  BY <1>2, <1>7
<1>10. LimiterInv'
  BY <1>6, <1>8, <1>9 DEF LimiterInv
<1> QED BY <1>4, <1>10

\* A ping is refused for the pongs of the window.
LEMMA ExhaustedJustified ==
  ASSUME LimiterTypeOK, LimiterInv, Exhausted
  PROVE  Justified(now)
<1> DEFINE n == Len(pongs)
<1>1. /\ now \in Nat /\ count \in Nat /\ start \in Nat /\ MaxRequests \in Nat /\ Window \in Nat
      /\ MaxRequests >= 1 /\ count <= MaxRequests
      /\ n \in Nat /\ DOMAIN pongs = 1..n /\ \A i \in 1..n : pongs[i] \in Nat
  BY LimitAssumption DEF LimiterTypeOK
<1>2. count = MaxRequests /\ now - start < Window
  BY <1>1 DEF Exhausted, CountNow, Elapsed
<1>3. count <= n
  BY DEF LimiterInv
<1>4. n \in 1..n /\ n - MaxRequests + 1 \in 1..n /\ n - MaxRequests + 1 > n - count
  BY <1>1, <1>2, <1>3
<1>5. pongs[n] <= now /\ start <= pongs[n - MaxRequests + 1]
  BY <1>1, <1>4 DEF LimiterInv
<1>6. now - pongs[n - MaxRequests + 1] < Window
  BY <1>1, <1>2, <1>4, <1>5
<1> QED BY <1>1, <1>2, <1>3, <1>4, <1>5, <1>6 DEF Justified

\* Time passes.
LEMMA TimeStep ==
  ASSUME LimiterTypeOK, LimiterInv, TimePasses
  PROVE  LimiterTypeOK' /\ LimiterInv'
<1>1. /\ now \in Nat /\ start \in Nat /\ now' \in 0..MaxTime /\ now' = now + 1
      /\ UNCHANGED <<count, start, pongs>>
      /\ \A i \in DOMAIN pongs : pongs[i] \in Nat
  BY LimitAssumption DEF LimiterTypeOK, TimePasses
<1>2. start' <= now' /\ \A i \in DOMAIN pongs : pongs[i] <= now'
  BY <1>1 DEF LimiterInv
<1> QED BY <1>1, <1>2 DEF LimiterTypeOK, LimiterInv, PongsBounded

\* A process begins with a limiter of its own.
LEMMA LimiterBegins ==
  ASSUME now' \in 0..MaxTime, count' = 0, start' = 0, pongs' = <<>>
  PROVE  LimiterTypeOK' /\ LimiterInv'
BY LimitAssumption DEF LimiterTypeOK, LimiterInv, PongsBounded

-----------------------------------------------------------------------------
(* The servers *)

\* A signal that was caught stays caught.
LEMMA ForcedStays ==
  ASSUME NEW c \in Seq(Signal), NEW s \in Signal, NEW i \in 2..Len(c), c[i] = "int"
  PROVE  i \in 2..Len(Append(c, s)) /\ Append(c, s)[i] = "int"
OBVIOUS

\* Every step keeps the types.
LEMMA ServiceTypes ==
  ASSUME TypeOK, LimiterInv, [Next]_vars
  PROVE  TypeOK' /\ LimiterInv'
<1> USE DEF TypeOK
<1>1. CASE Boot
  <2>1. now' \in 0..MaxTime /\ count' = 0 /\ start' = 0 /\ pongs' = <<>>
    BY <1>1 DEF Boot, LimiterTypeOK
  <2>2. LimiterTypeOK' /\ LimiterInv'
    BY <2>1, LimiterBegins
  <2> QED BY <1>1, <2>2 DEF Boot
<1>2. ASSUME NEW how \in {"stopped", "failed"}, Exit(how) PROVE TypeOK' /\ LimiterInv'
  BY <1>2 DEF Exit, LimiterTypeOK, LimiterInv, PongsBounded, Answers, Path
<1>3. CASE Fail \/ FirstStops
  BY <1>2, <1>3 DEF Fail, FirstStops
<1>4. CASE LastStops
  <2>1. caught' \in [Port -> Seq(Signal)]
    BY <1>4, RaisedAgain DEF LastStops, Last
  <2> QED BY <1>4, <2>1 DEF LastStops, LimiterTypeOK, LimiterInv, PongsBounded
<1>5. ASSUME NEW p \in Port, Listen(p) \/ Drain(p) PROVE TypeOK' /\ LimiterInv'
  BY <1>5 DEF Listen, Drain, LimiterTypeOK, LimiterInv, PongsBounded
<1>6. ASSUME NEW s \in Signal, Stop(s) PROVE TypeOK' /\ LimiterInv'
  <2>1. Handler \in Port
    BY HandlerIs
  <2>2. caught' \in [Port -> Seq(Signal)]
    BY <1>6, <2>1 DEF Stop
  <2> QED BY <1>6, <2>2 DEF Stop, LimiterTypeOK, LimiterInv, PongsBounded
<1>7. ASSUME NEW r \in Request, NEW p \in Port, NEW k \in Path, Connect(r, p, k)
      PROVE  TypeOK' /\ LimiterInv'
  BY <1>7 DEF Connect, LimiterTypeOK, LimiterInv, PongsBounded, Answers
<1>8. ASSUME NEW r \in Request, NEW a \in Answers, Respond(r, a)
      PROVE  /\ pc' \in [Request -> {"idle", "open", "checked", "answered"}]
             /\ port' \in [Request -> Port] /\ path' \in [Request -> Path]
             /\ checked' \in [Request -> BOOLEAN] /\ answer' \in [Request -> Answers]
             /\ saw' \in [Request -> BOOLEAN]
             /\ UNCHANGED <<serverVars, healthy, cut>>
  BY <1>8 DEF Respond, Path
<1>9. ASSUME NEW r \in Request, NotFound(r) \/ Alive(r) \/ Ready(r) \/ Work(r)
      PROVE  TypeOK' /\ LimiterInv'
  <2>1. UNCHANGED limiterVars /\ \E a \in Answers : Respond(r, a)
    BY <1>9 DEF NotFound, Alive, Ready, Work, Answers
  <2> QED BY <1>8, <2>1 DEF LimiterTypeOK, LimiterInv, PongsBounded
<1>10. ASSUME NEW r \in Request, CheckHealth(r) PROVE TypeOK' /\ LimiterInv'
  BY <1>10 DEF CheckHealth, LimiterTypeOK, LimiterInv, PongsBounded
<1>11. ASSUME NEW r \in Request, Pong(r) PROVE TypeOK' /\ LimiterInv'
  <2>1. "pong" \in Answers /\ Respond(r, "pong") /\ Counted
    BY <1>11 DEF Pong, Answers
  <2>2. LimiterTypeOK' /\ LimiterInv'
    BY <2>1, CountedStep
  <2> QED BY <1>8, <2>1, <2>2
<1>12. ASSUME NEW r \in Request, TooMany(r) PROVE TypeOK' /\ LimiterInv'
  <2>1. "tooMany" \in Answers /\ Respond(r, "tooMany") /\ UNCHANGED limiterVars
    BY <1>12 DEF TooMany, Exhausted, Answers
  <2> QED BY <1>8, <2>1 DEF LimiterTypeOK, LimiterInv, PongsBounded
<1>13. CASE Tick
  <2>1. LimiterTypeOK' /\ LimiterInv'
    BY <1>13, TimeStep DEF Tick
  <2> QED BY <1>13, <2>1 DEF Tick
<1>14. CASE StorageChanges
  BY <1>14 DEF StorageChanges, LimiterTypeOK, LimiterInv, PongsBounded
<1>15. CASE UNCHANGED vars
  BY <1>15 DEF vars, LimiterTypeOK, LimiterInv, PongsBounded
<1> QED BY <1>1, <1>3, <1>4, <1>5, <1>6, <1>7, <1>9, <1>10, <1>11, <1>12, <1>13, <1>14, <1>15
        DEF Next

\* What ServiceInv says of a request,
RequestInv(r) ==
  /\ Open(r) =>
       /\ server[port[r]] \notin {"down", "binding"}
       /\ server[port[r]] = "stopped" => Forced(port[r])
       /\ healthy => saw[r]
  /\ pc[r] = "checked" => port[r] = "operations" /\ (checked[r] => saw[r])

\* and of the servers.
ServersInv ==
  /\ server["main"] # "stopped"
  /\ server["main"] = "down" <=> server["operations"] = "down"
  /\ caught["main"] # <<>> => server["operations"] \in {"stopped", "down"}
  /\ server["main"] = "draining" => server["operations"] = "stopped"
  /\ server["main"] # "down" => cut = {}
  /\ NothingCutOff

\* A step of a request leaves the servers alone.
LEMMA ServersStay ==
  ASSUME ServersInv, UNCHANGED <<serverVars, cut>>
  PROVE  ServersInv'
BY DEF ServersInv, NothingCutOff, Forced

\* A request that a step does not touch stays as it was.
LEMMA RequestStays ==
  ASSUME NEW r \in Request, RequestInv(r),
         UNCHANGED <<serverVars, healthy>>,
         pc'[r] = pc[r] /\ port'[r] = port[r] /\ checked'[r] = checked[r] /\ saw'[r] = saw[r]
  PROVE  RequestInv(r)'
BY DEF RequestInv, Open, Forced

\* Requests when a server moves on, and when a signal is caught.
LEMMA RequestsFollow ==
  ASSUME TypeOK, NEW r \in Request, RequestInv(r), UNCHANGED <<requestVars, healthy>>,
         /\ server'[port[r]] \notin {"down", "binding"} \/ server'[port[r]] = server[port[r]]
         /\ server'[port[r]] # "stopped" \/ server[port[r]] = "stopped" \/ Forced(port[r])
              \/ ~Open(r),
         Forced(port[r]) => Forced(port[r])'
  PROVE  RequestInv(r)'
BY DEF RequestInv, Open

\* The steps of the process keep the invariant.
LEMMA ServersStep ==
  ASSUME TypeOK, TypeOK', ServersInv, \A r \in Request : RequestInv(r),
         \/ Boot \/ Fail \/ LastStops \/ FirstStops
         \/ \E p \in Port : Listen(p) \/ Drain(p)
         \/ \E s \in Signal : Stop(s)
  PROVE  ServersInv' /\ \A r \in Request : RequestInv(r)'
<1> USE DEF TypeOK
<1>1. CASE Boot
  <2>1. \A r \in Request : ~Open(r)
    BY <1>1 DEF Boot, RequestInv
  <2>2. \A r \in Request : RequestInv(r)'
    BY <1>1, <2>1 DEF Boot, RequestInv, Open
  <2>3. ServersInv'
    BY <1>1 DEF Boot, ServersInv, NothingCutOff
  <2> QED BY <2>2, <2>3
<1>2. ASSUME NEW how \in {"stopped", "failed"}, Exit(how),
             how = "stopped" => \/ \E p \in Port : Forced(p)
                                \/ \A r \in Request : ~Open(r)
      PROVE  ServersInv' /\ \A r \in Request : RequestInv(r)'
  <2>1. \A r \in Request : pc'[r] = "idle"
    BY <1>2 DEF Exit
  <2>2. \A p \in Port : server'[p] = "down" /\ (Forced(p) <=> Forced(p)')
    BY <1>2 DEF Exit, Forced
  <2>3. ended' = how /\ cut' = {r \in Request : Open(r)}
    BY <1>2 DEF Exit
  <2>4. NothingCutOff'
    BY <1>2, <2>2, <2>3 DEF NothingCutOff
  <2> QED BY <2>1, <2>2, <2>4 DEF ServersInv, RequestInv, Open
<1>3. CASE Fail
  BY <1>2, <1>3 DEF Fail
<1>4. CASE FirstStops
  <2>1. Drained("main")
    <3>1. PICK p \in Port \ {Last} : Drained(p)
      BY <1>4 DEF FirstStops
    <3> QED BY <3>1 DEF Last
  <2>2. server["operations"] = "stopped"
    BY <2>1 DEF Drained, ServersInv
  <2>3. (\E p \in Port : Forced(p)) \/ \A r \in Request : ~Open(r)
    <3> SUFFICES ASSUME NEW r \in Request, Open(r), \A p \in Port : ~Forced(p) PROVE FALSE
      OBVIOUS
    <3>1. port[r] = "main" \/ port[r] = "operations"
      OBVIOUS
    <3> QED BY <2>1, <2>2, <3>1 DEF RequestInv, Drained
  <2> QED BY <1>2, <1>4, <2>3 DEF FirstStops
<1>5. CASE LastStops
  <2>1. /\ server["operations"] = "draining"
        /\ Forced("operations") \/ \A r \in Request : port[r] = "operations" => ~Open(r)
        /\ server' = [server EXCEPT !["operations"] = "stopped"]
        /\ caught'["operations"] = caught["operations"]
        /\ UNCHANGED <<ended, cut, healthy, requestVars>>
    BY <1>5 DEF LastStops, Drained, Last
  <2>2. server'["operations"] = "stopped" /\ server'["main"] = server["main"]
    BY <2>1
  <2>3. ServersInv'
    <3>1. NothingCutOff'
      BY <2>1 DEF ServersInv, NothingCutOff
    <3> QED BY <2>1, <2>2, <3>1 DEF ServersInv
  <2>4. ASSUME NEW r \in Request PROVE RequestInv(r)'
    <3>1. CASE port[r] = "operations"
      <4>1. Forced(port[r]) => Forced(port[r])'
        BY <2>1, <3>1 DEF Forced
      <4>2. Forced(port[r]) \/ ~Open(r)
        BY <2>1, <3>1
      <4> QED BY <2>1, <2>2, <3>1, <4>1, <4>2, RequestsFollow
    <3>2. CASE port[r] = "main"
      BY <2>1, <2>2, <3>2 DEF ServersInv, RequestInv, Open
    <3> QED BY <3>1, <3>2
  <2> QED BY <2>3, <2>4
<1>6. ASSUME NEW p \in Port, Listen(p) \/ Drain(p)
      PROVE  ServersInv' /\ \A r \in Request : RequestInv(r)'
  <2>1. /\ \/ server[p] = "binding" /\ server' = [server EXCEPT ![p] = "open"]
           \/ server[p] = "open" /\ caught[p] # <<>> /\ server' = [server EXCEPT ![p] = "draining"]
        /\ UNCHANGED <<caught, ended, healthy, requestVars, cut>>
    BY <1>6 DEF Listen, Drain
  <2>2. server'[p] \in {"open", "draining"} /\ \A o \in Port \ {p} : server'[o] = server[o]
    BY <2>1
  <2>3. ASSUME NEW r \in Request PROVE RequestInv(r)'
    <3>1. Forced(port[r]) => Forced(port[r])'
      BY <2>1 DEF Forced
    <3> QED BY <2>1, <2>2, <3>1, RequestsFollow
  <2>4. p = "main" /\ server'[p] = "draining" => server["operations"] = "stopped"
    BY <2>1 DEF ServersInv
  <2>5. ServersInv'
    BY <2>1, <2>2, <2>4 DEF ServersInv, NothingCutOff, Forced
  <2> QED BY <2>3, <2>5
<1>7. ASSUME NEW s \in Signal, Stop(s)
      PROVE  ServersInv' /\ \A r \in Request : RequestInv(r)'
  <2>1. /\ \A p \in Port : server[p] \notin {"down", "binding"}
        /\ caught' = [caught EXCEPT ![Handler] = Append(@, s)]
        /\ UNCHANGED <<server, ended, healthy, requestVars, cut>>
    BY <1>7 DEF Stop
  <2>2. Handler \in Port /\ (server["operations"] # "stopped" => Handler = "operations")
    BY HandlerIs
  <2>3. ASSUME NEW p \in Port, Forced(p) PROVE Forced(p)'
    <3>1. PICK i \in 2..Len(caught[p]) : caught[p][i] = "int"
      BY <2>3 DEF Forced
    <3>2. caught'[p] = caught[p] \/ caught'[p] = Append(caught[p], s)
      BY <2>1, <2>2
    <3>3. i \in 2..Len(caught'[p]) /\ caught'[p][i] = "int"
      <4>1. caught[p] \in Seq(Signal)
        OBVIOUS
      <4>2. i \in 2..Len(Append(caught[p], s)) /\ Append(caught[p], s)[i] = "int"
        BY <3>1, <4>1, ForcedStays
      <4> QED BY <3>1, <3>2, <4>2
    <3> QED BY <3>3 DEF Forced
  <2>4. \A r \in Request : RequestInv(r)'
    BY <2>1, <2>3, RequestsFollow
  <2>5. caught'["main"] # <<>> => server["operations"] = "stopped"
    BY <2>1, <2>2 DEF ServersInv
  <2>6. ServersInv'
    BY <2>1, <2>5 DEF ServersInv, NothingCutOff
  <2> QED BY <2>4, <2>6
<1> QED BY <1>1, <1>3, <1>4, <1>5, <1>6, <1>7

\* A request that is answered.
LEMMA RespondStep ==
  ASSUME TypeOK, NEW r \in Request, NEW a \in Answers, Respond(r, a),
         ServersInv, \A q \in Request : RequestInv(q)
  PROVE  ServersInv' /\ \A q \in Request : RequestInv(q)'
<1>1. pc'[r] = "answered" /\ UNCHANGED <<serverVars, healthy, cut>>
  BY DEF Respond, TypeOK
<1>2. ASSUME NEW q \in Request PROVE RequestInv(q)'
  <2>1. CASE q = r
    BY <1>1, <2>1 DEF RequestInv, Open
  <2>2. CASE q # r
    <3>1. pc'[q] = pc[q] /\ port'[q] = port[q] /\ checked'[q] = checked[q] /\ saw'[q] = saw[q]
      BY <2>2 DEF Respond, TypeOK
    <3> QED BY <1>1, <3>1, RequestStays
  <2> QED BY <2>1, <2>2
<1> QED BY <1>1, <1>2, ServersStay

\* Every step keeps the invariant.
LEMMA ServiceStep ==
  ASSUME ServiceInv, [Next]_vars
  PROVE  ServiceInv'
<1>1. TypeOK /\ LimiterInv /\ ServersInv /\ \A r \in Request : RequestInv(r)
  BY DEF ServiceInv, ServersInv, RequestInv
<1>2. TypeOK' /\ LimiterInv'
  BY <1>1, ServiceTypes
<1> DEFINE Goal == ServersInv' /\ \A r \in Request : RequestInv(r)'
<1>3. ASSUME \/ Boot \/ Fail \/ LastStops \/ FirstStops
             \/ \E p \in Port : Listen(p) \/ Drain(p)
             \/ \E s \in Signal : Stop(s)
      PROVE  Goal
  BY <1>1, <1>2, <1>3, ServersStep
<1>4. ASSUME NEW r \in Request,
             NotFound(r) \/ Alive(r) \/ Ready(r) \/ Pong(r) \/ TooMany(r) \/ Work(r)
      PROVE  Goal
  <2>1. \E a \in Answers : Respond(r, a)
    BY <1>4 DEF NotFound, Alive, Ready, Pong, TooMany, Work, Answers
  <2> QED BY <1>1, <2>1, RespondStep
<1>5. ASSUME NEW r \in Request, NEW p \in Port, NEW k \in Path, Connect(r, p, k) PROVE Goal
  <2>1. /\ server[p] = "open"
        /\ pc' = [pc EXCEPT ![r] = "open"] /\ port' = [port EXCEPT ![r] = p]
        /\ saw' = [saw EXCEPT ![r] = healthy] /\ checked' = [checked EXCEPT ![r] = FALSE]
        /\ UNCHANGED <<serverVars, healthy, cut>>
    BY <1>5 DEF Connect
  <2>2. ASSUME NEW q \in Request PROVE RequestInv(q)'
    <3>1. CASE q = r
      <4>1. pc'[q] = "open" /\ port'[q] = p /\ saw'[q] = healthy
        BY <1>1, <2>1, <3>1 DEF TypeOK
      <4> QED BY <2>1, <4>1 DEF RequestInv
    <3>2. CASE q # r
      <4>1. pc'[q] = pc[q] /\ port'[q] = port[q] /\ checked'[q] = checked[q] /\ saw'[q] = saw[q]
        BY <1>1, <2>1, <3>2 DEF TypeOK
      <4> QED BY <1>1, <2>1, <4>1, RequestStays
    <3> QED BY <3>1, <3>2
  <2> QED BY <1>1, <2>1, <2>2, ServersStay
<1>6. ASSUME NEW r \in Request, CheckHealth(r) PROVE Goal
  <2>1. /\ pc[r] = "open" /\ port[r] = "operations"
        /\ pc' = [pc EXCEPT ![r] = "checked"] /\ checked' = [checked EXCEPT ![r] = healthy]
        /\ UNCHANGED <<serverVars, healthy, port, saw, cut>>
    BY <1>6 DEF CheckHealth, Handles, Routed, OperationsPaths
  <2>2. ASSUME NEW q \in Request PROVE RequestInv(q)'
    <3>1. CASE q = r
      <4>1. pc'[q] = "checked" /\ checked'[q] = healthy
        BY <1>1, <2>1, <3>1 DEF TypeOK
      <4>2. Open(q) /\ Open(q)'
        BY <2>1, <3>1, <4>1 DEF Open
      <4>3. Forced(port[q])' <=> Forced(port[q])
        BY <2>1 DEF Forced
      <4> QED BY <1>1, <2>1, <3>1, <4>1, <4>2, <4>3 DEF RequestInv
    <3>2. CASE q # r
      <4>1. pc'[q] = pc[q] /\ port'[q] = port[q] /\ checked'[q] = checked[q] /\ saw'[q] = saw[q]
        BY <1>1, <2>1, <3>2 DEF TypeOK
      <4> QED BY <1>1, <2>1, <4>1, RequestStays
    <3> QED BY <3>1, <3>2
  <2> QED BY <1>1, <2>1, <2>2, ServersStay
<1>7. ASSUME Tick \/ UNCHANGED vars PROVE Goal
  <2>1. UNCHANGED <<serverVars, healthy, requestVars, cut>>
    BY <1>7 DEF Tick, vars
  <2> QED BY <1>1, <2>1, ServersStay, RequestStays
<1>8. ASSUME StorageChanges PROVE Goal
  <2>1. /\ UNCHANGED <<serverVars, pc, port, checked, cut>>
        /\ saw' = [r \in Request |-> saw[r] \/ (Open(r) /\ healthy')]
    BY <1>8 DEF StorageChanges
  <2>2. ASSUME NEW q \in Request PROVE RequestInv(q)'
    <3>1. saw'[q] = (saw[q] \/ (Open(q) /\ healthy'))
      BY <2>1
    <3>2. (Open(q)' <=> Open(q)) /\ (Forced(port[q])' <=> Forced(port[q]))
      BY <2>1 DEF Open, Forced
    <3>3. checked'[q] = checked[q] /\ port'[q] = port[q] /\ pc'[q] = pc[q] /\ server' = server
      BY <2>1
    <3> QED BY <1>1, <3>1, <3>2, <3>3 DEF RequestInv
  <2> QED BY <1>1, <2>1, <2>2, ServersStay
<1> HIDE DEF Goal
<1>9. Goal
  BY <1>3, <1>4, <1>5, <1>6, <1>7, <1>8 DEF Next
<1> QED BY <1>2, <1>9 DEF Goal, ServiceInv, ServersInv, RequestInv

-----------------------------------------------------------------------------
(* Theorems about the process *)

\* The inductive invariant holds in every reachable state.
THEOREM ServiceInvariant == Spec => []ServiceInv
<1>1. Init => ServiceInv
  <2> SUFFICES ASSUME Init PROVE ServiceInv
    OBVIOUS
  <2>1. LimiterTypeOK /\ LimiterInv
    BY LimitAssumption DEF Init, LimiterInit, LimiterTypeOK, LimiterInv, PongsBounded
  <2>2. TypeOK
    BY <2>1 DEF Init, TypeOK, Answers, Path
  <2> QED BY <2>1, <2>2 DEF Init, ServiceInv, Open, NothingCutOff
<1>2. ServiceInv /\ [Next]_vars => ServiceInv'
  BY ServiceStep
<1> QED BY <1>1, <1>2, PTL DEF Spec

\* Every variable keeps its type.
THEOREM TypeCorrect == Spec => []TypeOK
<1>1. ServiceInv => TypeOK
  BY DEF ServiceInv
<1> QED BY <1>1, ServiceInvariant, PTL

\* A process that was told to stop answers what it had accepted.
THEOREM NothingCutOffHolds == Spec => []NothingCutOff
<1>1. ServiceInv => NothingCutOff
  BY DEF ServiceInv
<1> QED BY <1>1, ServiceInvariant, PTL

\* Pings are answered and refused within the limit, whatever it is.
THEOREM LimitKeptHolds == Spec => LimitKept
<1> DEFINE Kept == \A r \in Request :
                     answer[r] = "none" =>
                       /\ answer'[r] = "pong" => PongsBounded'
                       /\ answer'[r] = "tooMany" => Justified(now)
<1>1. ServiceInv /\ ServiceInv' /\ [Next]_vars => [Kept]_vars
  <2> SUFFICES ASSUME ServiceInv, ServiceInv', Next, NEW r \in Request, answer[r] = "none"
               PROVE  /\ PongsBounded'
                      /\ answer'[r] = "tooMany" => Justified(now)
    OBVIOUS
  <2>1. PongsBounded'
    BY DEF ServiceInv, LimiterInv
  <2>2. ASSUME answer'[r] = "tooMany" PROVE Exhausted
    <3>1. ASSUME NEW q \in Request, NEW a \in Answers, Respond(q, a), a # "tooMany" PROVE FALSE
      BY <2>2, <3>1 DEF Respond, ServiceInv, TypeOK
    <3>2. ASSUME NEW q \in Request,
                 NotFound(q) \/ Alive(q) \/ Ready(q) \/ Pong(q) \/ Work(q)
          PROVE  FALSE
      <4>1. \E a \in Answers : a # "tooMany" /\ Respond(q, a)
        BY <3>2 DEF NotFound, Alive, Ready, Pong, Work, Answers
      <4> QED BY <3>1, <4>1
    <3>3. UNCHANGED answer => FALSE
      BY <2>2
    <3>4. ASSUME Boot \/ Fail \/ LastStops \/ FirstStops \/ Tick \/ StorageChanges
          PROVE  FALSE
      BY <2>2, <3>3, <3>4
         DEF Boot, Fail, LastStops, FirstStops, Tick, StorageChanges, Exit
    <3>5. ASSUME NEW p \in Port, Listen(p) \/ Drain(p) PROVE FALSE
      BY <3>3, <3>5 DEF Listen, Drain
    <3>6. ASSUME NEW s \in Signal, Stop(s) PROVE FALSE
      BY <3>3, <3>6 DEF Stop
    <3>7. ASSUME NEW q \in Request, NEW p \in Port, NEW k \in Path, Connect(q, p, k) PROVE FALSE
      BY <2>2, <3>7 DEF Connect, ServiceInv, TypeOK
    <3>8. ASSUME NEW q \in Request, CheckHealth(q) PROVE FALSE
      BY <3>3, <3>8 DEF CheckHealth
    <3>9. ASSUME NEW q \in Request, TooMany(q) PROVE Exhausted
      BY <3>9 DEF TooMany
    <3> QED BY <3>2, <3>4, <3>5, <3>6, <3>7, <3>8, <3>9 DEF Next
  <2>3. LimiterTypeOK /\ LimiterInv
    BY DEF ServiceInv, TypeOK
  <2> QED BY <2>1, <2>2, <2>3, ExhaustedJustified
<1> QED BY <1>1, ServiceInvariant, PTL DEF Spec, LimitKept

\* What /readyz answers was so while it was asked, and the main port took requests.
THEOREM ReadyHonestHolds == Spec => ReadyHonest
<1> DEFINE Honest == \A r \in Request :
                       answer[r] = "none" /\ answer'[r] = "ready" =>
                         /\ saw[r]
                         /\ Forced("operations") \/ server["main"] \in {"binding", "open"}
<1>1. ServiceInv /\ [Next]_vars => [Honest]_vars
  <2> SUFFICES ASSUME ServiceInv, Next, NEW r \in Request, answer[r] = "none",
                      answer'[r] = "ready"
               PROVE  /\ saw[r]
                      /\ Forced("operations") \/ server["main"] \in {"binding", "open"}
    OBVIOUS
  <2>1. pc[r] = "checked" /\ checked[r]
    <3>1. ASSUME NEW q \in Request, NEW a \in Answers, Respond(q, a), a # "ready" PROVE FALSE
      BY <3>1 DEF Respond, ServiceInv, TypeOK
    <3>2. ASSUME NEW q \in Request,
                 NotFound(q) \/ Alive(q) \/ Pong(q) \/ TooMany(q) \/ Work(q)
          PROVE  FALSE
      <4>1. \E a \in Answers : a # "ready" /\ Respond(q, a)
        BY <3>2 DEF NotFound, Alive, Pong, TooMany, Work, Answers
      <4> QED BY <3>1, <4>1
    <3>3. UNCHANGED answer => FALSE
      OBVIOUS
    <3>4. ASSUME Boot \/ Fail \/ LastStops \/ FirstStops \/ Tick \/ StorageChanges
          PROVE  FALSE
      BY <3>3, <3>4 DEF Boot, Fail, LastStops, FirstStops, Tick, StorageChanges, Exit
    <3>5. ASSUME NEW p \in Port, Listen(p) \/ Drain(p) PROVE FALSE
      BY <3>3, <3>5 DEF Listen, Drain
    <3>6. ASSUME NEW s \in Signal, Stop(s) PROVE FALSE
      BY <3>3, <3>6 DEF Stop
    <3>7. ASSUME NEW q \in Request, NEW p \in Port, NEW k \in Path, Connect(q, p, k) PROVE FALSE
      BY <3>7 DEF Connect, ServiceInv, TypeOK
    <3>8. ASSUME NEW q \in Request, CheckHealth(q) PROVE FALSE
      BY <3>3, <3>8 DEF CheckHealth
    <3>9. ASSUME NEW q \in Request, Ready(q) PROVE pc[r] = "checked" /\ checked[r]
      <4>1. answer'[r] = "ready" /\ (r # q => answer'[r] = answer[r])
        BY <3>9 DEF Ready, Respond, ServiceInv, TypeOK
      <4>2. r = q
        BY <4>1
      <4>3. answer'[r] = IF checked[r] THEN "ready" ELSE "notReady"
        BY <3>9, <4>2 DEF Ready, Respond, ServiceInv, TypeOK
      <4> QED BY <3>9, <4>2, <4>3 DEF Ready
    <3> QED BY <3>2, <3>4, <3>5, <3>6, <3>7, <3>8, <3>9 DEF Next
  <2>2. port[r] = "operations" /\ saw[r] /\ Open(r)
    BY <2>1 DEF ServiceInv, Open
  <2>3. server["operations"] # "down" /\ (server["operations"] = "stopped" => Forced("operations"))
    BY <2>2 DEF ServiceInv
  <2>4. /\ server["main"] \in {"down", "binding", "open", "draining", "stopped"}
        /\ server["main"] # "stopped" /\ server["main"] # "down"
        /\ server["main"] = "draining" => server["operations"] = "stopped"
    BY <2>3 DEF ServiceInv, TypeOK
  <2> QED BY <2>2, <2>3, <2>4
<1> QED BY <1>1, ServiceInvariant, PTL DEF Spec, ReadyHonest
===============================================================================
