---------------------------- MODULE Session_proofs ----------------------------
(***************************************************************************)
(* Session for any browsers, tabs and Google sign-ins, any ages and any    *)
(* time.                                                                   *)
(***************************************************************************)
EXTENDS Session, TLAPS

Answers == {"none", "page", "signIn", "signedIn", "signedOut", "refused", "google", "failed"}

\* CookieInv(b, c) after the step, of a cookie that is the same.
CookieInvNext(b, c) ==
  /\ c.at <= now'
  /\ c.user # None => c.at <= proven'[<<b, c.user>>]
  /\ \A f \in c.flows : starter'[f] = b

\* Time, proofs and beginnings only accumulate.
Accumulates ==
  /\ now <= now'
  /\ \A p \in Browser \X User : proven[p] <= proven'[p]
  /\ \A f \in Flow : starter[f] # None => starter'[f] = starter[f]

\* No cookie, a signed-in one and one of beginnings are cookies.
LEMMA CookieTypes ==
  /\ NoCookie \in Cookie
  /\ \A u \in User, n \in 0..MaxTime : UserCookie(u, n) \in Cookie
  /\ \A F \in SUBSET Flow, n \in 0..MaxTime : FlowsCookie(F, n) \in Cookie
<1>1. 0 \in 0..MaxTime
  BY AgesAssumption
<1> QED BY <1>1 DEF NoCookie, UserCookie, FlowsCookie, Cookie

\* So a cookie that was earned stays earned.
LEMMA CookiesStay ==
  ASSUME TypeOK, TypeOK', Accumulates
  PROVE  \A b \in Browser, c \in Cookie : CookieInv(b, c) => CookieInvNext(b, c)
<1> SUFFICES ASSUME NEW b \in Browser, NEW c \in Cookie, CookieInv(b, c) PROVE CookieInvNext(b, c)
  OBVIOUS
<1>1. c.at \in 0..MaxTime /\ c.user \in User \union {None} /\ c.flows \subseteq Flow
  BY DEF Cookie
<1>2. now \in 0..MaxTime /\ now' \in 0..MaxTime
  BY DEF TypeOK
<1>3. c.at <= now'
  <2>1. c.at <= now /\ now <= now'
    BY DEF CookieInv, Accumulates
  <2>2. c.at \in Int /\ now \in Int /\ now' \in Int
    BY <1>1, <1>2, AgesAssumption
  <2> QED BY <2>1, <2>2
<1>4. ASSUME c.user # None PROVE c.at <= proven'[<<b, c.user>>]
  <2>1. <<b, c.user>> \in Browser \X User
    BY <1>1, <1>4
  <2>2. proven[<<b, c.user>>] \in -1..MaxTime /\ proven'[<<b, c.user>>] \in -1..MaxTime
    BY <2>1 DEF TypeOK
  <2>3. c.at <= proven[<<b, c.user>>]
    BY <1>4 DEF CookieInv
  <2>4. proven[<<b, c.user>>] <= proven'[<<b, c.user>>]
    BY <2>1 DEF Accumulates
  <2>5. c.at \in Int /\ proven[<<b, c.user>>] \in Int /\ proven'[<<b, c.user>>] \in Int
    BY <1>1, <2>2, AgesAssumption
  <2> QED BY <2>3, <2>4, <2>5
<1>5. ASSUME NEW f \in c.flows PROVE starter'[f] = b
  <2>1. starter[f] = b /\ f \in Flow /\ b # None
    BY <1>1, UsersAssumption DEF CookieInv
  <2> QED BY <2>1 DEF Accumulates
<1> QED BY <1>3, <1>4, <1>5 DEF CookieInvNext

-----------------------------------------------------------------------------
(* Types *)

\* An answer of the types of its parts keeps the variables of their types.
LEMMA AnswerTypes ==
  ASSUME TypeOK, NEW t \in Tab, NEW a \in Answers, NEW F \in SUBSET Flow, NEW s \in BOOLEAN,
         NEW c \in Cookie, Answer(t, a, F, s, c),
         served' \in [Tab -> User \union {None}],
         starter' \in [Flow -> Browser \union {None}],
         proven' \in [Browser \X User -> -1..MaxTime]
  PROVE  TypeOK'
<1>1. FlowsCookie(F, now) \in Cookie /\ NoCookie \in Cookie
  BY CookieTypes DEF TypeOK
<1>2. \/ reply' = [reply EXCEPT ![t] = FlowsCookie(F, now)]
      \/ reply' = [reply EXCEPT ![t] = NoCookie]
      \/ reply' = [reply EXCEPT ![t] = c]
  BY DEF Answer
<1>3. reply' \in [Tab -> Cookie]
  BY <1>1, <1>2 DEF TypeOK
<1>4. sets' \in [Tab -> BOOLEAN]
  <2>1. (s \/ F # {} \/ Flows(t) # {}) \in BOOLEAN
    OBVIOUS
  <2> QED BY <2>1 DEF Answer, TypeOK
<1>5. answer' \in [Tab -> Answers] /\ pc' \in [Tab -> {"idle", "sent", "answered"}]
  BY DEF Answer, TypeOK, Answers
<1>6. UNCHANGED <<now, jar, kind, flow, sent, out, outThen, held, heldThen>>
  BY DEF Answer
<1> QED BY <1>3, <1>4, <1>5, <1>6 DEF TypeOK, Answers

\* Flows and a proof are of their types too.
LEMMA PartTypes ==
  ASSUME TypeOK, NEW t \in Tab
  PROVE  /\ Flows(t) \subseteq sent[t].flows /\ sent[t].flows \subseteq Flow
         /\ SignedIn(t) \in User \union {None}
         /\ \A u \in User : Proves(t, u) => proven' \in [Browser \X User -> -1..MaxTime]
         /\ now \in 0..MaxTime /\ BrowserOf[t] \in Browser
<1>1. sent[t] \in Cookie /\ now \in 0..MaxTime /\ BrowserOf[t] \in Browser
  BY TabsAssumption DEF TypeOK
<1>2. \A u \in User : Proves(t, u) => proven' \in [Browser \X User -> -1..MaxTime]
  <2> SUFFICES ASSUME NEW u \in User, Proves(t, u)
               PROVE  proven' \in [Browser \X User -> -1..MaxTime]
    OBVIOUS
  <2>1. now \in -1..MaxTime
    BY <1>1, AgesAssumption
  <2> QED BY <2>1 DEF Proves, TypeOK
<1> QED BY <1>1, <1>2 DEF Flows, SignedIn, Cookie, User

\* Every step keeps every variable of its type.
LEMMA TypeStep ==
  ASSUME TypeOK, [Next]_vars
  PROVE  TypeOK'
<1> USE DEF Answers
<1>1. CASE Tick
  <2>1. now' \in 0..MaxTime
    BY <1>1, AgesAssumption DEF Tick, TypeOK
  <2> QED BY <1>1, <2>1 DEF Tick, TypeOK
<1>2. ASSUME NEW t \in Tab, NEW k \in Kinds, NEW f \in Flow \union {None}, Send(t, k, f)
      PROVE  TypeOK'
  BY <1>2, PartTypes DEF Send, TypeOK
<1>3. ASSUME NEW t \in Tab, Arrive(t) PROVE TypeOK'
  <2>1. BrowserOf[t] \in Browser /\ reply[t] \in Cookie /\ reply[t].at \in 0..MaxTime
    BY PartTypes DEF TypeOK, Cookie
  <2>2. reply[t].at \in -1..MaxTime /\ -1 \in -1..MaxTime
    BY <2>1, AgesAssumption
  <2>3. jar' \in [Browser -> Cookie]
    BY <1>3, <2>1 DEF Arrive, TypeOK
  <2>4. out' \in [Browser -> BOOLEAN]
    <3>1. ((out[BrowserOf[t]] \/ answer[t] = "signedOut") /\ answer[t] # "signedIn") \in BOOLEAN
      OBVIOUS
    <3> QED BY <1>3, <3>1 DEF Arrive, TypeOK
  <2>5. held' \in [Browser -> -1..MaxTime]
    BY <1>3, <2>2 DEF Arrive, TypeOK
  <2> QED BY <1>3, <2>2, <2>3, <2>4, <2>5, CookieTypes DEF Arrive, Close, TypeOK, Kinds
<1>4. ASSUME NEW t \in Tab, Lose(t) PROVE TypeOK'
  <2>1. -1 \in -1..MaxTime
    BY AgesAssumption
  <2> QED BY <1>4, <2>1, CookieTypes DEF Lose, Close, TypeOK, Kinds
<1>5. ASSUME NEW t \in Tab, Page(t) PROVE TypeOK'
  <2>1. PICK a \in Answers : Answer(t, a, Flows(t), FALSE, NoCookie)
    BY <1>5 DEF Page
  <2>2. /\ served' = [served EXCEPT ![t] = SignedIn(t)]
        /\ UNCHANGED <<starter, proven>>
    BY <1>5 DEF Page
  <2>3. served' \in [Tab -> User \union {None}]
    BY <2>2, PartTypes DEF TypeOK
  <2>4. Flows(t) \in SUBSET Flow /\ NoCookie \in Cookie
    BY PartTypes, CookieTypes
  <2> QED BY <2>1, <2>2, <2>3, <2>4, AnswerTypes DEF TypeOK
<1>6. ASSUME NEW t \in Tab, Login(t) PROVE TypeOK'
  <2>1. UserCookie(LocalUser, now) \in Cookie
    BY PartTypes, CookieTypes DEF User
  <2> QED BY <1>6, <2>1, AnswerTypes, PartTypes DEF Login, TypeOK, User
<1>7. ASSUME NEW t \in Tab, WrongPassword(t) \/ Logout(t) PROVE TypeOK'
  BY <1>7, AnswerTypes, PartTypes, CookieTypes DEF WrongPassword, Logout, TypeOK
<1>8. ASSUME NEW t \in Tab, Start(t) PROVE TypeOK'
  <2>1. PICK f \in Flow : /\ starter' = [starter EXCEPT ![f] = BrowserOf[t]]
                          /\ Answer(t, "google", Flows(t) \union {f}, FALSE, NoCookie)
    BY <1>8 DEF Start
  <2>2. starter' \in [Flow -> Browser \union {None}]
    BY <2>1, PartTypes DEF TypeOK
  <2>3. Flows(t) \union {f} \in SUBSET Flow
    BY PartTypes
  <2> QED BY <1>8, <2>1, <2>2, <2>3, AnswerTypes, CookieTypes DEF Start, TypeOK
<1>9. ASSUME NEW t \in Tab, CallbackSucceeds(t) PROVE TypeOK'
  <2>1. UserCookie(GoogleUser, now) \in Cookie
    BY PartTypes, CookieTypes DEF User
  <2> QED BY <1>9, <2>1, AnswerTypes, PartTypes DEF CallbackSucceeds, TypeOK, User
<1>10. ASSUME NEW t \in Tab, CallbackRefused(t) PROVE TypeOK'
  <2>1. PICK F \in SUBSET Flow : Answer(t, "refused", F, FALSE, NoCookie)
    BY <1>10, PartTypes DEF CallbackRefused
  <2> QED BY <1>10, <2>1, AnswerTypes, CookieTypes DEF CallbackRefused, TypeOK
<1>11. ASSUME NEW t \in Tab, GoogleFails(t) PROVE TypeOK'
  BY <1>11 DEF GoogleFails, TypeOK
<1>12. CASE UNCHANGED vars
  BY <1>12 DEF vars, TypeOK
<1> QED BY <1>1, <1>2, <1>3, <1>4, <1>5, <1>6, <1>7, <1>8, <1>9, <1>10, <1>11, <1>12 DEF Next

-----------------------------------------------------------------------------
(* The invariant *)

\* In every step things only accumulate.
LEMMA StepAccumulates ==
  ASSUME SessionInv, [Next]_vars
  PROVE  Accumulates
<1> USE DEF SessionInv
<1>1. /\ now \in Int /\ now <= now + 1 /\ now <= now
      /\ \A p \in Browser \X User : proven[p] \in Int /\ proven[p] <= now
  BY AgesAssumption DEF TypeOK
<1>2. CASE Tick
  BY <1>1, <1>2 DEF Tick, Accumulates
<1>3. ASSUME NEW t \in Tab, NEW u \in User, Proves(t, u), UNCHANGED <<now, starter>>
      PROVE  Accumulates
  <2>1. \A p \in Browser \X User : proven'[p] = proven[p] \/ proven'[p] = now
    BY <1>3 DEF Proves, TypeOK
  <2> QED BY <1>1, <1>3, <2>1 DEF Accumulates
<1>4. ASSUME NEW t \in Tab, Start(t) PROVE Accumulates
  BY <1>1, <1>4 DEF Start, Answer, Accumulates, TypeOK
<1>5. CASE UNCHANGED <<now, starter, proven>>
  BY <1>1, <1>5 DEF Accumulates
<1>6. ASSUME NEW t \in Tab, Login(t) \/ CallbackSucceeds(t) PROVE Accumulates
  <2>1. UNCHANGED <<now, starter>> /\ (Proves(t, LocalUser) \/ Proves(t, GoogleUser))
    BY <1>6 DEF Login, CallbackSucceeds, Answer
  <2> QED BY <1>3, <2>1 DEF User
<1>7. ASSUME NEW t \in Tab,
             \/ \E k \in Kinds, f \in Flow \union {None} : Send(t, k, f)
             \/ Arrive(t) \/ Lose(t) \/ Page(t) \/ WrongPassword(t) \/ Logout(t)
             \/ CallbackRefused(t) \/ GoogleFails(t)
      PROVE  UNCHANGED <<now, starter, proven>>
  BY <1>7 DEF Send, Arrive, Lose, Close, Page, WrongPassword, Logout, CallbackRefused,
              GoogleFails, Answer
<1> QED BY <1>2, <1>4, <1>5, <1>6, <1>7 DEF Next, vars

\* What a step leaves alone of a tab,
LEMMA TabStays ==
  ASSUME SessionInv, TypeOK', Accumulates, NEW t \in Tab,
         /\ pc'[t] = pc[t] /\ kind'[t] = kind[t] /\ sent'[t] = sent[t] /\ sets'[t] = sets[t]
         /\ reply'[t] = reply[t] /\ answer'[t] = answer[t]
         /\ outThen'[t] = outThen[t] /\ heldThen'[t] = heldThen[t]
  PROVE  TabInv(t)'
<1>1. TabInv(t) /\ TypeOK
  BY DEF SessionInv
<1>2. sent[t] \in Cookie /\ reply[t] \in Cookie /\ BrowserOf[t] \in Browser
  BY <1>1, TabsAssumption DEF TypeOK
<1>3. CookieInvNext(BrowserOf[t], sent[t]) /\ CookieInvNext(BrowserOf[t], reply[t])
  BY <1>1, <1>2, CookiesStay DEF TabInv
<1>4. CookieInv(BrowserOf[t], sent[t])' /\ CookieInv(BrowserOf[t], reply[t])'
  BY <1>3 DEF CookieInv, CookieInvNext
<1> QED BY <1>1, <1>4 DEF TabInv, BringsSession, EndsSession

\* and of a browser.
LEMMA BrowserStays ==
  ASSUME SessionInv, TypeOK', Accumulates, NEW b \in Browser,
         jar'[b] = jar[b] /\ out'[b] = out[b] /\ held'[b] = held[b]
  PROVE  BrowserInv(b)'
<1>1. BrowserInv(b) /\ TypeOK
  BY DEF SessionInv
<1>2. CookieInvNext(b, jar[b])
  BY <1>1, CookiesStay DEF TypeOK, BrowserInv
<1>3. CookieInv(b, jar[b])'
  BY <1>2 DEF CookieInv, CookieInvNext
<1> QED BY <1>1, <1>3 DEF BrowserInv

\* A tab that is closed.
LEMMA ClosedTab ==
  ASSUME TypeOK, TypeOK', NEW t \in Tab, Close(t)
  PROVE  TabInv(t)'
<1>1. /\ pc'[t] = "idle" /\ sent'[t] = NoCookie /\ sets'[t] = FALSE /\ reply'[t] = NoCookie
      /\ answer'[t] = "none" /\ outThen'[t] = FALSE /\ heldThen'[t] = -1
  BY DEF Close, TypeOK
<1>2. CookieInv(BrowserOf[t], NoCookie)'
  BY AgesAssumption DEF TypeOK, CookieInv, NoCookie
<1> QED BY <1>1, <1>2 DEF TabInv, NoCookie, CookieInv, BringsSession, EndsSession

\* An answer of the server: the flows it leaves began in its browser, the cookie the
\* handler sets was earned, and the middleware is silent if the request brought no flows.
LEMMA AnswerStep ==
  ASSUME SessionInv, TypeOK', Accumulates, NEW t \in Tab, NEW a \in Answers, NEW F, NEW s \in BOOLEAN, NEW c,
         pc[t] = "sent",
         Answer(t, a, F, s, c),
         \A p \in Browser \X User : proven'[p] <= now,
         \A f \in F : starter'[f] = BrowserOf[t],
         c = NoCookie \/
           /\ a = "signedIn"
           /\ \E u \in User : c = UserCookie(u, now) /\ proven'[<<BrowserOf[t], u>>] = now,
         a = "signedOut" => s,
         a = "page" => sent[t].user # None,
         a = "signedIn" /\ kind[t] = "login" => s /\ F = Flows(t) /\ c = UserCookie(LocalUser, now),
         s \/ F # Flows(t) => a \in {"signedIn", "signedOut", "google"} \/ sent[t].flows # {}
  PROVE  SessionInv'
<1> DEFINE b == BrowserOf[t]
<1>1. TypeOK /\ TabInv(t) /\ b \in Browser /\ now \in Nat
  BY TabsAssumption DEF SessionInv, TypeOK
<1>2. UNCHANGED <<now, jar, kind, flow, sent, out, outThen, held, heldThen>>
  BY DEF Answer
<1>3. /\ pc'[t] = "answered" /\ answer'[t] = a
      /\ sets'[t] = (s \/ F # {} \/ Flows(t) # {})
      /\ reply'[t] = IF F # {} THEN FlowsCookie(F, now)
                     ELSE IF Flows(t) # {} THEN NoCookie ELSE c
  BY <1>1 DEF Answer, TypeOK
<1>4. ASSUME NEW r \in Tab, r # t PROVE TabInv(r)'
  <2>1. /\ pc'[r] = pc[r] /\ answer'[r] = answer[r] /\ sets'[r] = sets[r] /\ reply'[r] = reply[r]
        /\ kind'[r] = kind[r] /\ sent'[r] = sent[r]
        /\ outThen'[r] = outThen[r] /\ heldThen'[r] = heldThen[r]
    BY <1>1, <1>2, <1>4 DEF Answer, TypeOK
  <2> QED BY <2>1, TabStays
<1>5. CookieInv(b, sent[t])'
  <2>1. sent[t] \in Cookie /\ CookieInv(b, sent[t])
    BY <1>1 DEF TypeOK, TabInv
  <2>2. CookieInvNext(b, sent[t])
    BY <1>1, <2>1, CookiesStay
  <2> QED BY <1>2, <2>2 DEF CookieInv, CookieInvNext
<1>6. CookieInv(b, reply[t])'
  <2>1. CookieInvNext(b, NoCookie)
    BY <1>1, <1>2 DEF CookieInvNext, NoCookie
  <2>2. CookieInvNext(b, FlowsCookie(F, now))
    BY <1>1, <1>2 DEF CookieInvNext, FlowsCookie
  <2>3. CookieInvNext(b, c)
    <3>1. ASSUME NEW u \in User, c = UserCookie(u, now), proven'[<<b, u>>] = now
          PROVE  CookieInvNext(b, c)
      BY <1>1, <1>2, <3>1 DEF CookieInvNext, UserCookie
    <3> QED BY <2>1, <3>1
  <2> QED BY <1>3, <2>1, <2>2, <2>3 DEF CookieInv, CookieInvNext
<1>7. reply'[t].user # None => a = "signedIn"
  BY <1>3 DEF NoCookie, FlowsCookie
<1>8. /\ kind[t] = "login" /\ reply'[t].user # None =>
           sets'[t] /\ reply'[t] = UserCookie(LocalUser, reply'[t].at)
      /\ sets'[t] => a \in {"signedIn", "signedOut", "google"} \/ sent[t].flows # {}
  <2>1. reply'[t].user # None => reply'[t] = c
    BY <1>3 DEF NoCookie, FlowsCookie
  <2>2. Flows(t) # {} => sent[t].flows # {}
    BY DEF Flows
  <2>3. UserCookie(LocalUser, now).at = now
    BY DEF UserCookie
  <2> QED BY <1>3, <1>7, <2>1, <2>2, <2>3
<1>9. a = "signedOut" => sets'[t]
  BY <1>3
<1>10. TabInv(t)'
  <2>1. /\ outThen'[t] => sent'[t].user = None
        /\ heldThen'[t] >= 0 => sent'[t] = UserCookie(LocalUser, heldThen'[t])
    BY <1>1, <1>2 DEF TabInv
  <2> QED BY <1>2, <1>3, <1>5, <1>6, <1>7, <1>8, <1>9, <2>1 DEF TabInv, BringsSession, EndsSession
<1>11. ASSUME NEW e \in Browser PROVE BrowserInv(e)'
  BY <1>2, BrowserStays
<1> QED BY <1>2, <1>4, <1>10, <1>11 DEF SessionInv

\* A handler answers.
LEMMA HandlerStep ==
  ASSUME SessionInv, TypeOK', Accumulates, NEW t \in Tab,
         \/ Page(t) \/ Login(t) \/ WrongPassword(t) \/ Logout(t)
         \/ Start(t) \/ CallbackSucceeds(t) \/ CallbackRefused(t)
  PROVE  SessionInv'
<1> USE DEF Answers
<1>1. /\ TypeOK /\ BrowserOf[t] \in Browser
      /\ \A p \in Browser \X User : proven[p] <= now
  BY TabsAssumption DEF SessionInv, TypeOK
<1>2. \A f \in Flows(t) : starter[f] = BrowserOf[t] /\ f \in Flow
  BY <1>1, PartTypes DEF SessionInv, TabInv, CookieInv
<1>3. \A f \in Flows(t) : starter'[f] = BrowserOf[t]
  BY <1>1, <1>2, UsersAssumption DEF Accumulates
<1>4. sent[t].flows = {} => Flows(t) = {}
  BY DEF Flows
<1>5. ASSUME NEW u \in User, Proves(t, u)
      PROVE  /\ proven'[<<BrowserOf[t], u>>] = now
             /\ \A p \in Browser \X User : proven'[p] <= now
  <2>1. <<BrowserOf[t], u>> \in Browser \X User
    BY <1>1
  <2>2. proven \in [Browser \X User -> -1..MaxTime] /\ now \in Nat
    BY <1>1 DEF TypeOK
  <2>3. proven' = [proven EXCEPT ![<<BrowserOf[t], u>>] = now]
    BY <1>5 DEF Proves
  <2> QED BY <1>1, <2>1, <2>2, <2>3
<1>6. CASE Page(t)
  <2>1. SignedIn(t) # None => sent[t].user # None
    BY DEF SignedIn
  <2>2. pc[t] = "sent" /\ \A p \in Browser \X User : proven'[p] <= now
    BY <1>1, <1>6 DEF Page, Handles
  <2>3. CASE SignedIn(t) = None
    <3>1. Answer(t, "signIn", Flows(t), FALSE, NoCookie)
      BY <1>6, <2>3 DEF Page
    <3> QED BY <1>3, <2>2, <3>1, AnswerStep
  <2>4. CASE SignedIn(t) # None
    <3>1. Answer(t, "page", Flows(t), FALSE, NoCookie)
      BY <1>6, <2>4 DEF Page
    <3> QED BY <1>3, <2>1, <2>2, <2>4, <3>1, AnswerStep
  <2> QED BY <2>3, <2>4
<1>7. CASE Login(t)
  <2>1. PICK c : c = UserCookie(LocalUser, now)
    OBVIOUS
  <2>2. /\ pc[t] = "sent" /\ Proves(t, LocalUser) /\ LocalUser \in User
        /\ Answer(t, "signedIn", Flows(t), TRUE, c)
    BY <1>7, <2>1 DEF Login, Handles, User
  <2>3. \E u \in User : c = UserCookie(u, now) /\ proven'[<<BrowserOf[t], u>>] = now
    BY <1>5, <2>1, <2>2
  <2>4. \A p \in Browser \X User : proven'[p] <= now
    BY <1>5, <2>2
  <2> QED BY <1>3, <2>1, <2>2, <2>3, <2>4, AnswerStep
<1>8. CASE WrongPassword(t)
  BY <1>1, <1>3, <1>8, AnswerStep DEF WrongPassword, Handles
<1>9. CASE Logout(t)
  BY <1>1, <1>3, <1>9, AnswerStep DEF Logout, Handles
<1>10. CASE Start(t)
  <2>1. PICK f \in Flow : /\ starter' = [starter EXCEPT ![f] = BrowserOf[t]]
                          /\ Answer(t, "google", Flows(t) \union {f}, FALSE, NoCookie)
    BY <1>10 DEF Start
  <2>2. starter'[f] = BrowserOf[t]
    BY <1>1, <2>1 DEF TypeOK
  <2>3. pc[t] = "sent" /\ \A p \in Browser \X User : proven'[p] <= now
    BY <1>1, <1>10 DEF Start, Handles
  <2>4. PICK F : F = Flows(t) \union {f}
    OBVIOUS
  <2>5. Answer(t, "google", F, FALSE, NoCookie) /\ \A g \in F : starter'[g] = BrowserOf[t]
    BY <1>3, <2>1, <2>2, <2>4
  <2> QED BY <2>3, <2>5, AnswerStep
<1>11. CASE CallbackSucceeds(t)
  <2>1. PICK c : c = UserCookie(GoogleUser, now)
    OBVIOUS
  <2>2. PICK F \in SUBSET Flows(t) : Answer(t, "signedIn", F, TRUE, c)
    BY <1>11, <2>1 DEF CallbackSucceeds
  <2>3. pc[t] = "sent" /\ kind[t] = "callback" /\ Proves(t, GoogleUser) /\ GoogleUser \in User
    BY <1>11 DEF CallbackSucceeds, Handles, User
  <2>4. \E u \in User : c = UserCookie(u, now) /\ proven'[<<BrowserOf[t], u>>] = now
    BY <1>5, <2>1, <2>3
  <2>5. \A p \in Browser \X User : proven'[p] <= now
    BY <1>5, <2>3
  <2>6. \A f \in F : starter'[f] = BrowserOf[t]
    BY <1>3
  <2> QED BY <2>2, <2>3, <2>4, <2>5, <2>6, AnswerStep
<1>12. CASE CallbackRefused(t)
  <2>1. PICK F \in SUBSET Flows(t) : Answer(t, "refused", F, FALSE, NoCookie)
    BY <1>12 DEF CallbackRefused
  <2>2. pc[t] = "sent" /\ proven' = proven
    BY <1>12 DEF CallbackRefused, Handles
  <2>3. F # Flows(t) => sent[t].flows # {}
    BY <1>4, <2>1
  <2> QED BY <1>1, <1>3, <2>1, <2>2, <2>3, AnswerStep
<1> QED BY <1>6, <1>7, <1>8, <1>9, <1>10, <1>11, <1>12

\* A request is sent.
LEMMA SendStep ==
  ASSUME SessionInv, TypeOK', Accumulates, NEW t \in Tab, NEW k, NEW f, Send(t, k, f)
  PROVE  SessionInv'
<1>1. TypeOK /\ TabInv(t) /\ BrowserOf[t] \in Browser /\ BrowserInv(BrowserOf[t])
  BY TabsAssumption DEF SessionInv
<1>2. UNCHANGED <<now, jar, sets, reply, answer, served, starter, proven, out, held>>
  BY DEF Send
<1>3. /\ pc[t] = "idle" /\ pc'[t] = "sent" /\ sent'[t] = jar[BrowserOf[t]]
      /\ outThen'[t] = out[BrowserOf[t]] /\ heldThen'[t] = held[BrowserOf[t]]
  BY <1>1 DEF Send, TypeOK
<1>4. ASSUME NEW r \in Tab, r # t PROVE TabInv(r)'
  <2>1. /\ pc'[r] = pc[r] /\ kind'[r] = kind[r] /\ sent'[r] = sent[r]
        /\ outThen'[r] = outThen[r] /\ heldThen'[r] = heldThen[r]
    BY <1>1, <1>4 DEF Send, TypeOK
  <2> QED BY <1>2, <2>1, TabStays
<1>5. TabInv(t)'
  <2>1. CookieInv(BrowserOf[t], sent[t])' /\ CookieInv(BrowserOf[t], reply[t])'
    BY <1>1, <1>2, <1>3 DEF CookieInv, TabInv, BrowserInv
  <2>2. answer[t] = "none" /\ ~sets[t] /\ reply[t].user = None
    BY <1>1, <1>3 DEF TabInv
  <2> QED BY <1>1, <1>2, <1>3, <2>1, <2>2 DEF TabInv, BrowserInv, BringsSession, EndsSession
<1>6. ASSUME NEW b \in Browser PROVE BrowserInv(b)'
  BY <1>2, BrowserStays
<1> QED BY <1>2, <1>4, <1>5, <1>6 DEF SessionInv

\* An answer arrives, or its tab is closed.
LEMMA ArriveStep ==
  ASSUME SessionInv, TypeOK', Accumulates, NEW t \in Tab, Arrive(t)
  PROVE  SessionInv'
<1> DEFINE b == BrowserOf[t]
<1>1. TypeOK /\ TabInv(t) /\ b \in Browser /\ BrowserInv(b)
  BY TabsAssumption DEF SessionInv
<1>2. Close(t) /\ pc[t] = "answered" /\ UNCHANGED <<now, starter, proven>>
  BY DEF Arrive, Close
<1>3. TabInv(t)'
  BY <1>1, <1>2, ClosedTab
<1>4. ASSUME NEW r \in Tab, r # t
      PROVE  /\ pc'[r] = pc[r] /\ kind'[r] = kind[r] /\ sent'[r] = sent[r] /\ sets'[r] = sets[r]
             /\ reply'[r] = reply[r] /\ answer'[r] = answer[r]
             /\ outThen'[r] = outThen[r] /\ heldThen'[r] = heldThen[r]
  BY <1>1, <1>2, <1>4 DEF Close, TypeOK
<1>6. ASSUME NEW e \in Browser, e # b PROVE BrowserInv(e)'
  <2>1. jar'[e] = jar[e] /\ out'[e] = out[e] /\ held'[e] = held[e]
    BY <1>1, <1>6 DEF Arrive, TypeOK
  <2> QED BY <1>1, <1>2, <2>1, BrowserStays
<1>7. /\ jar'[b] = IF sets[t] THEN reply[t] ELSE jar[b]
      /\ out'[b] = ((out[b] \/ answer[t] = "signedOut") /\ answer[t] # "signedIn")
      /\ held'[b] = IF BringsSession(t) THEN reply[t].at
                    ELSE IF EndsSession(t) THEN -1 ELSE held[b]
  BY <1>1 DEF Arrive, TypeOK
<1>8. CookieInv(b, jar[b])'
  <2>1. CookieInv(b, reply[t]) /\ CookieInv(b, jar[b])
    BY <1>1 DEF TabInv, BrowserInv
  <2> QED BY <1>2, <1>7, <2>1 DEF CookieInv
<1>9. out'[b] => jar'[b].user = None
  BY <1>1, <1>7 DEF TabInv, BrowserInv
<1>10. ASSUME held'[b] >= 0 PROVE jar'[b] = UserCookie(LocalUser, held'[b])
  <2>1. CASE BringsSession(t)
    BY <1>1, <1>7, <2>1 DEF TabInv
  <2>2. CASE ~BringsSession(t)
    <3>1. ~EndsSession(t) /\ held'[b] = held[b]
      BY <1>7, <1>10, <2>2
    <3>2. ~sets[t] /\ jar[b] = UserCookie(LocalUser, held[b])
      BY <1>1, <1>10, <3>1 DEF TabInv, BrowserInv
    <3> QED BY <1>7, <3>1, <3>2
  <2> QED BY <2>1, <2>2
<1>11. BrowserInv(b)'
  BY <1>8, <1>9, <1>10 DEF BrowserInv
<1>12. ASSUME NEW r \in Tab, r # t PROVE TabInv(r)'
  BY <1>4, <1>12, TabStays
<1> QED BY <1>2, <1>3, <1>6, <1>11, <1>12 DEF SessionInv

\* Every step keeps the invariant.
LEMMA InvStep ==
  ASSUME SessionInv, [Next]_vars
  PROVE  SessionInv'
<1>1. TypeOK /\ TypeOK' /\ Accumulates
  BY TypeStep, StepAccumulates DEF SessionInv
<1>2. CASE UNCHANGED vars
  <2>1. \A t \in Tab : TabInv(t)'
    BY <1>1, <1>2, TabStays DEF vars
  <2>2. \A b \in Browser : BrowserInv(b)'
    BY <1>1, <1>2, BrowserStays DEF vars
  <2> QED BY <1>1, <1>2, <2>1, <2>2 DEF vars, SessionInv
<1>3. CASE Tick
  <2>1. UNCHANGED <<jar, pc, kind, sent, sets, reply, answer, proven, out, outThen, held, heldThen>>
    BY <1>3 DEF Tick
  <2>2. \A t \in Tab : TabInv(t)'
    BY <1>1, <2>1, TabStays
  <2>3. \A b \in Browser : BrowserInv(b)'
    BY <1>1, <2>1, BrowserStays
  <2>4. \A p \in Browser \X User : proven'[p] <= now'
    <3>1. \A p \in Browser \X User : proven[p] \in Int /\ proven[p] <= now
      BY <1>1, AgesAssumption DEF SessionInv, TypeOK
    <3>2. now' = now + 1 /\ now \in Int
      BY <1>1, <1>3, AgesAssumption DEF Tick, TypeOK
    <3> QED BY <2>1, <3>1, <3>2
  <2> QED BY <1>1, <2>2, <2>3, <2>4 DEF SessionInv
<1>4. ASSUME NEW t \in Tab, NEW k \in Kinds, NEW f \in Flow \union {None}, Send(t, k, f)
      PROVE  SessionInv'
  BY <1>1, <1>4, SendStep
<1>5. ASSUME NEW t \in Tab, Arrive(t) PROVE SessionInv'
  BY <1>1, <1>5, ArriveStep
<1>6. ASSUME NEW t \in Tab, Lose(t) PROVE SessionInv'
  <2>1. Close(t) /\ UNCHANGED <<now, jar, out, held, proven>>
    BY <1>6 DEF Lose, Close
  <2>2. TabInv(t)'
    BY <1>1, <2>1, ClosedTab
  <2>3. ASSUME NEW r \in Tab, r # t PROVE TabInv(r)'
    <3>1. /\ pc'[r] = pc[r] /\ kind'[r] = kind[r] /\ sent'[r] = sent[r] /\ sets'[r] = sets[r]
          /\ reply'[r] = reply[r] /\ answer'[r] = answer[r]
          /\ outThen'[r] = outThen[r] /\ heldThen'[r] = heldThen[r]
      BY <1>1, <2>1, <2>3 DEF Close, TypeOK
    <3> QED BY <1>1, <3>1, TabStays
  <2>4. \A b \in Browser : BrowserInv(b)'
    BY <1>1, <2>1, BrowserStays
  <2> QED BY <1>1, <2>1, <2>2, <2>3, <2>4 DEF SessionInv
<1>7. ASSUME NEW t \in Tab,
             \/ Page(t) \/ Login(t) \/ WrongPassword(t) \/ Logout(t)
             \/ Start(t) \/ CallbackSucceeds(t) \/ CallbackRefused(t)
      PROVE  SessionInv'
  BY <1>1, <1>7, HandlerStep
<1>8. ASSUME NEW t \in Tab, GoogleFails(t) PROVE SessionInv'
  <2>1. /\ pc' = [pc EXCEPT ![t] = "answered"] /\ answer' = [answer EXCEPT ![t] = "failed"]
        /\ UNCHANGED <<now, jar, kind, sent, sets, reply, proven, out, outThen, held, heldThen>>
    BY <1>8 DEF GoogleFails
  <2>2. ASSUME NEW r \in Tab, r # t PROVE TabInv(r)'
    BY <1>1, <2>1, <2>2, TabStays DEF TypeOK
  <2>3. TabInv(t)'
    <3>1. pc[t] = "sent" /\ TabInv(t) /\ reply[t] \in Cookie /\ sent[t] \in Cookie /\ BrowserOf[t] \in Browser
      BY <1>1, <1>8, TabsAssumption DEF GoogleFails, Handles, SessionInv, TypeOK
    <3>2. reply[t].user = None /\ ~sets[t]
      BY <3>1 DEF TabInv
    <3>3. pc'[t] = "answered" /\ answer'[t] = "failed"
      BY <1>1, <2>1 DEF TypeOK
    <3>4. CookieInvNext(BrowserOf[t], sent[t]) /\ CookieInvNext(BrowserOf[t], reply[t])
      BY <1>1, <3>1, CookiesStay DEF TabInv
    <3>5. CookieInv(BrowserOf[t], sent[t])' /\ CookieInv(BrowserOf[t], reply[t])'
      BY <2>1, <3>4 DEF CookieInv, CookieInvNext
    <3> QED BY <2>1, <3>1, <3>2, <3>3, <3>5 DEF TabInv, BringsSession, EndsSession
  <2>4. \A b \in Browser : BrowserInv(b)'
    BY <1>1, <2>1, BrowserStays
  <2> QED BY <1>1, <2>1, <2>2, <2>3, <2>4 DEF SessionInv
<1> QED BY <1>2, <1>3, <1>4, <1>5, <1>6, <1>7, <1>8 DEF Next

-----------------------------------------------------------------------------
(* Theorems *)

\* The inductive invariant holds in every reachable state.
THEOREM SessionInvariant == Spec => []SessionInv
<1>1. Init => SessionInv
  <2> SUFFICES ASSUME Init PROVE SessionInv
    OBVIOUS
  <2>1. 0 \in 0..MaxTime /\ -1 \in -1..MaxTime
    BY AgesAssumption
  <2>2. TypeOK
    BY <2>1, CookieTypes DEF Init, TypeOK, Kinds
  <2>3. \A b \in Browser : CookieInv(b, NoCookie)
    BY DEF Init, CookieInv, NoCookie
  <2>4. ASSUME NEW t \in Tab PROVE TabInv(t)
    <3>1. /\ sent[t] = NoCookie /\ reply[t] = NoCookie /\ pc[t] = "idle" /\ answer[t] = "none"
          /\ sets[t] = FALSE /\ outThen[t] = FALSE /\ heldThen[t] = -1 /\ BrowserOf[t] \in Browser
      BY TabsAssumption DEF Init
    <3>2. NoCookie.user = None /\ ~(-1 >= 0)
      BY DEF NoCookie
    <3> QED BY <2>3, <3>1, <3>2 DEF TabInv, BringsSession, EndsSession
  <2>5. ASSUME NEW b \in Browser PROVE BrowserInv(b)
    <3>1. jar[b] = NoCookie /\ out[b] = FALSE /\ held[b] = -1 /\ ~(-1 >= 0)
      BY DEF Init
    <3> QED BY <2>3, <3>1 DEF BrowserInv
  <2>6. \A p \in Browser \X User : proven[p] <= now
    BY DEF Init
  <2> QED BY <2>2, <2>4, <2>5, <2>6 DEF SessionInv
<1> QED BY <1>1, InvStep, PTL DEF Spec

\* Every variable keeps its type.
THEOREM TypeCorrect == Spec => []TypeOK
<1>1. SessionInv => TypeOK
  BY DEF SessionInv
<1> QED BY <1>1, SessionInvariant, PTL

\* No page is served to a request sent after a sign-out and before the next sign-in,
\* whatever the tabs of the browser had on their way.
THEOREM SignOutLastsHolds == Spec => []SignOutLasts
<1>1. SessionInv => SignOutLasts
  BY DEF SessionInv, TabInv, SignOutLasts
<1> QED BY <1>1, SessionInvariant, PTL

\* The steps that answer a request of tab t.
LEMMA WhoAnswers ==
  ASSUME TypeOK, [Next]_vars, NEW t \in Tab, pc[t] = "sent", pc'[t] = "answered"
  PROVE  \/ Page(t) \/ Login(t) \/ WrongPassword(t) \/ Logout(t)
         \/ Start(t) \/ CallbackSucceeds(t) \/ CallbackRefused(t) \/ GoogleFails(t)
<1>1. ASSUME NEW r \in Tab, NEW l, l # "answered" \/ r # t, pc' = [pc EXCEPT ![r] = l]
      PROVE  FALSE
  BY <1>1 DEF TypeOK
<1>2. ASSUME NEW r \in Tab,
             \/ \E k \in Kinds, f \in Flow \union {None} : Send(r, k, f)
             \/ Arrive(r) \/ Lose(r)
      PROVE  FALSE
  BY <1>1, <1>2 DEF Send, Arrive, Lose, Close
<1>3. ASSUME NEW r \in Tab, r # t,
             \/ Page(r) \/ Login(r) \/ WrongPassword(r) \/ Logout(r)
             \/ Start(r) \/ CallbackSucceeds(r) \/ CallbackRefused(r) \/ GoogleFails(r)
      PROVE  FALSE
  <2>1. pc' = [pc EXCEPT ![r] = "answered"]
    BY <1>3 DEF Page, Login, WrongPassword, Logout, Start, CallbackSucceeds, CallbackRefused,
                GoogleFails, Answer
  <2> QED BY <1>1, <1>3, <2>1
<1>4. pc' # pc
  OBVIOUS
<1>5. ~Tick /\ vars' # vars
  BY <1>4 DEF Tick, vars
<1> QED BY <1>2, <1>3, <1>5 DEF Next

\* A page is served to a user who proved to be that in this browser within MaxAge, and a
\* Google sign-in ends where it began.
THEOREM SessionsEarnedHold == Spec => SessionsEarned
<1> DEFINE Earned(t) ==
      /\ answer'[t] = "page" =>
           LET last == proven[<<BrowserOf[t], served'[t]>>]
           IN  last >= 0 /\ now - last <= MaxAge
      /\ answer'[t] = "signedIn" /\ kind[t] = "callback" => starter[flow[t]] = BrowserOf[t]
<1>1. ASSUME SessionInv, [Next]_vars, NEW t \in Tab, pc[t] = "sent", pc'[t] = "answered"
      PROVE  Earned(t)
  <2>1. TypeOK /\ TabInv(t) /\ BrowserOf[t] \in Browser /\ CookieInv(BrowserOf[t], sent[t])
    BY <1>1, TabsAssumption DEF SessionInv, TabInv
  <2>2. \A a, F, s, c : Answer(t, a, F, s, c) => answer'[t] = a
    BY <2>1 DEF Answer, TypeOK
  <2>3. CASE Page(t)
    <3>1. answer'[t] = (IF SignedIn(t) = None THEN "signIn" ELSE "page")
      BY <2>1, <2>3 DEF Page, Answer, TypeOK
    <3>2. served'[t] = SignedIn(t)
      BY <2>1, <2>3 DEF Page, TypeOK
    <3>3. CASE SignedIn(t) # None
      <4>1. SignedIn(t) = sent[t].user /\ now - sent[t].at <= MaxAge
        BY <3>3 DEF SignedIn
      <4>2. sent[t].at \in Nat /\ now \in Nat /\ sent[t].user \in User
        BY <2>1, <3>3, <4>1 DEF TypeOK, Cookie
      <4>3. <<BrowserOf[t], sent[t].user>> \in Browser \X User
        BY <2>1, <4>2
      <4>4. sent[t].at <= proven[<<BrowserOf[t], sent[t].user>>]
        BY <2>1, <3>3, <4>1 DEF CookieInv
      <4>5. proven[<<BrowserOf[t], sent[t].user>>] \in Int
        BY <2>1, <4>3, AgesAssumption DEF TypeOK
      <4>6. /\ proven[<<BrowserOf[t], sent[t].user>>] >= 0
            /\ now - proven[<<BrowserOf[t], sent[t].user>>] <= MaxAge
        BY <4>1, <4>2, <4>4, <4>5, AgesAssumption
      <4> QED BY <3>1, <3>2, <3>3, <4>1, <4>6
    <3> QED BY <3>1, <3>3
  <2>4. CASE CallbackSucceeds(t)
    <3>1. answer'[t] = "signedIn"
      BY <2>2, <2>4 DEF CallbackSucceeds
    <3>2. flow[t] \in sent[t].flows
      BY <2>4 DEF CallbackSucceeds, Flows
    <3> QED BY <2>1, <3>1, <3>2 DEF CookieInv
  <2>5. CASE Login(t) \/ WrongPassword(t) \/ Logout(t)
    BY <2>2, <2>5 DEF Login, WrongPassword, Logout, Handles
  <2>6. CASE Start(t) \/ CallbackRefused(t)
    <3>1. answer'[t] \in {"google", "refused"}
      BY <2>2, <2>6 DEF Start, CallbackRefused
    <3> QED BY <3>1
  <2>7. CASE GoogleFails(t)
    <3>1. answer'[t] = "failed"
      BY <2>1, <2>7 DEF GoogleFails, TypeOK
    <3> QED BY <3>1
  <2> QED BY <1>1, <2>1, <2>3, <2>4, <2>5, <2>6, <2>7, WhoAnswers
<1>2. SessionInv /\ [Next]_vars
      => [\A t \in Tab : pc[t] = "sent" /\ pc'[t] = "answered" => Earned(t)]_vars
  BY <1>1
<1> QED BY <1>2, SessionInvariant, PTL DEF Spec, SessionsEarned

\* The session of a password sign-in that has reached its browser holds for MaxAge, whatever
\* is refused meanwhile, until a sign-out, another sign-in, the beginning of a Google sign-in
\* or the answer to a request that still carried the state of one reaches the browser.
THEOREM LocalSessionsHold == Spec => LocalSessionHolds
<1> DEFINE Kept(t) ==
      Handles(t, "page") /\ pc'[t] = "answered" /\ heldThen[t] >= 0 /\ now - heldThen[t] <= MaxAge
        => answer'[t] = "page" /\ served'[t] = LocalUser
<1>1. ASSUME SessionInv, [Next]_vars, NEW t \in Tab, Handles(t, "page"), pc'[t] = "answered",
             heldThen[t] >= 0, now - heldThen[t] <= MaxAge
      PROVE  answer'[t] = "page" /\ served'[t] = LocalUser
  <2>1. TypeOK /\ TabInv(t)
    BY <1>1 DEF SessionInv
  <2>2. Page(t)
    BY <1>1, <2>1, WhoAnswers
    DEF Handles, Login, WrongPassword, Logout, Start, CallbackSucceeds, CallbackRefused, GoogleFails
  <2>3. sent[t] = UserCookie(LocalUser, heldThen[t])
    BY <1>1, <2>1 DEF TabInv
  <2>4. SignedIn(t) = LocalUser /\ LocalUser # None
    BY <1>1, <2>3, UsersAssumption DEF SignedIn, UserCookie, User
  <2>5. answer'[t] = "page"
    BY <2>1, <2>2, <2>4 DEF Page, Answer, TypeOK
  <2>6. served'[t] = LocalUser
    BY <2>1, <2>2, <2>4 DEF Page, TypeOK
  <2> QED BY <2>5, <2>6
<1>2. SessionInv /\ [Next]_vars => [\A t \in Tab : Kept(t)]_vars
  BY <1>1
<1> QED BY <1>2, SessionInvariant, PTL DEF Spec, LocalSessionHolds

-----------------------------------------------------------------------------
(* Which sign-ins bring a session *)

\* An answer is as the handler left it until it arrives or its tab is closed.
LEMMA AnswersStay ==
  ASSUME TypeOK, [Next]_vars, NEW t \in Tab, pc[t] # "sent", pc'[t] = "answered"
  PROVE  /\ pc[t] = "answered" /\ answer'[t] = answer[t] /\ kind'[t] = kind[t]
         /\ sets'[t] = sets[t] /\ sent'[t] = sent[t] /\ reply'[t] = reply[t]
<1>1. CASE Tick \/ UNCHANGED vars
  BY <1>1 DEF Tick, vars
<1>2. ASSUME NEW r \in Tab, r # t,
             \/ \E k \in Kinds, f \in Flow \union {None} : Send(r, k, f)
             \/ Arrive(r) \/ Lose(r)
      PROVE  /\ pc'[t] = pc[t] /\ answer'[t] = answer[t] /\ kind'[t] = kind[t]
             /\ sets'[t] = sets[t] /\ sent'[t] = sent[t] /\ reply'[t] = reply[t]
  BY <1>2 DEF Send, Arrive, Lose, Close, TypeOK
<1>3. ASSUME NEW r \in Tab, r # t,
             \/ Page(r) \/ Login(r) \/ WrongPassword(r) \/ Logout(r)
             \/ Start(r) \/ CallbackSucceeds(r) \/ CallbackRefused(r) \/ GoogleFails(r)
      PROVE  /\ pc'[t] = pc[t] /\ answer'[t] = answer[t] /\ kind'[t] = kind[t]
             /\ sets'[t] = sets[t] /\ sent'[t] = sent[t] /\ reply'[t] = reply[t]
  BY <1>3 DEF Page, Login, WrongPassword, Logout, Start, CallbackSucceeds, CallbackRefused,
              GoogleFails, Answer, TypeOK
<1>4. ASSUME \/ \E k \in Kinds, f \in Flow \union {None} : Send(t, k, f)
             \/ Arrive(t) \/ Lose(t)
      PROVE  FALSE
  BY <1>4 DEF Send, Arrive, Lose, Close, TypeOK
<1>5. ASSUME \/ Page(t) \/ Login(t) \/ WrongPassword(t) \/ Logout(t)
             \/ Start(t) \/ CallbackSucceeds(t) \/ CallbackRefused(t) \/ GoogleFails(t)
      PROVE  FALSE
  BY <1>5 DEF Page, Login, WrongPassword, Logout, Start, CallbackSucceeds, CallbackRefused,
              GoogleFails, Handles
<1> QED BY <1>1, <1>2, <1>3, <1>4, <1>5 DEF Next

\* Where the violation of SignInBringsSession begins: a sign-in brings its session exactly if
\* it is one by password and its request carried no state of a Google sign-in, or one that
\* the middleware no longer accepts.
THEOREM SignsInUnlessFlowsHolds == Spec => []SignsInUnlessFlows
<1> DEFINE Boundary(t) ==
      pc[t] = "answered" /\ answer[t] = "signedIn" =>
        ((sets[t] /\ reply[t].user # None) <=>
           /\ kind[t] = "login"
           /\ sent[t].flows = {} \/ reply[t].at - sent[t].at > FlowAge)
<1>1. Init => SignsInUnlessFlows
  BY DEF Init, SignsInUnlessFlows
<1>2. ASSUME TypeOK, [Next]_vars, NEW t \in Tab, Boundary(t) PROVE Boundary(t)'
  <2>1. CASE pc'[t] # "answered"
    BY <2>1
  <2>2. CASE pc'[t] = "answered" /\ pc[t] # "sent"
    BY <1>2, <2>2, AnswersStay
  <2>3. CASE pc'[t] = "answered" /\ pc[t] = "sent"
    <3>1. \A a, F, s, c : Answer(t, a, F, s, c) =>
            /\ answer'[t] = a /\ kind'[t] = kind[t] /\ sent'[t] = sent[t]
            /\ sets'[t] = (s \/ F # {} \/ Flows(t) # {})
            /\ reply'[t] = IF F # {} THEN FlowsCookie(F, now)
                           ELSE IF Flows(t) # {} THEN NoCookie ELSE c
      BY <1>2 DEF Answer, TypeOK
    <3>2. CASE Login(t)
      <4>1. /\ answer'[t] = "signedIn" /\ kind'[t] = "login" /\ sent'[t] = sent[t] /\ sets'[t]
            /\ reply'[t] = IF Flows(t) # {} THEN FlowsCookie(Flows(t), now)
                           ELSE UserCookie(LocalUser, now)
        BY <3>1, <3>2 DEF Login, Handles
      <4>2. /\ now \in Int /\ sent[t].at \in Int /\ FlowAge \in Int
            /\ LocalUser # None
        BY <1>2, AgesAssumption, UsersAssumption DEF TypeOK, Cookie, User
      <4>3. Flows(t) = {} <=> sent[t].flows = {} \/ now - sent[t].at > FlowAge
        BY <4>2 DEF Flows
      <4>4. CASE Flows(t) = {}
        BY <4>1, <4>2, <4>3, <4>4 DEF UserCookie
      <4>5. CASE Flows(t) # {}
        BY <4>1, <4>2, <4>3, <4>5 DEF FlowsCookie
      <4> QED BY <4>4, <4>5
    <3>3. CASE CallbackSucceeds(t)
      <4>1. kind[t] = "callback" /\ Flows(t) # {}
        BY <3>3 DEF CallbackSucceeds, Handles
      <4>2. PICK c : c = UserCookie(GoogleUser, now)
        OBVIOUS
      <4>3. PICK F : Answer(t, "signedIn", F, TRUE, c)
        BY <3>3, <4>2 DEF CallbackSucceeds
      <4>4. kind'[t] = kind[t] /\ reply'[t] = IF F # {} THEN FlowsCookie(F, now) ELSE NoCookie
        BY <3>1, <4>1, <4>3
      <4>5. reply'[t].user = None
        BY <4>4 DEF FlowsCookie, NoCookie
      <4> QED BY <4>1, <4>4, <4>5
    <3>4. ASSUME NEW a, NEW F, NEW s, NEW c, Answer(t, a, F, s, c), a # "signedIn"
          PROVE  Boundary(t)'
      <4>1. answer'[t] # "signedIn"
        BY <3>1, <3>4
      <4> QED BY <4>1
    <3>6. ASSUME Page(t) \/ WrongPassword(t) \/ Logout(t) \/ Start(t) \/ CallbackRefused(t)
          PROVE  Boundary(t)'
      <4> HIDE DEF Boundary
      <4>1. CASE Page(t)
        <5>1. PICK a : Answer(t, a, Flows(t), FALSE, NoCookie) /\ a \in {"signIn", "page"}
          BY <4>1 DEF Page
        <5> QED BY <3>4, <5>1
      <4>2. CASE WrongPassword(t)
        <5>1. PICK a : Answer(t, a, Flows(t), FALSE, NoCookie) /\ a = "refused"
          BY <4>2 DEF WrongPassword
        <5> QED BY <3>4, <5>1
      <4>3. CASE Logout(t)
        <5>1. PICK a : Answer(t, a, Flows(t), TRUE, NoCookie) /\ a = "signedOut"
          BY <4>3 DEF Logout
        <5> QED BY <3>4, <5>1
      <4>4. CASE Start(t)
        <5>1. PICK f \in Flow : Answer(t, "google", Flows(t) \union {f}, FALSE, NoCookie)
          BY <4>4 DEF Start
        <5>2. PICK a, F : Answer(t, a, F, FALSE, NoCookie) /\ a = "google"
          BY <5>1
        <5> QED BY <3>4, <5>2
      <4>5. CASE CallbackRefused(t)
        <5>1. PICK F : Answer(t, "refused", F, FALSE, NoCookie)
          BY <4>5 DEF CallbackRefused
        <5>2. PICK a : Answer(t, a, F, FALSE, NoCookie) /\ a = "refused"
          BY <5>1
        <5> QED BY <3>4, <5>2
      <4> QED BY <3>6, <4>1, <4>2, <4>3, <4>4, <4>5
    <3>5. CASE GoogleFails(t)
      <4>1. answer'[t] = "failed"
        BY <1>2, <3>5 DEF GoogleFails, TypeOK
      <4> QED BY <4>1
    <3> QED BY <1>2, <2>3, <3>2, <3>3, <3>4, <3>5, <3>6, WhoAnswers
  <2> QED BY <2>1, <2>2, <2>3
<1>3. TypeOK /\ SignsInUnlessFlows /\ [Next]_vars => SignsInUnlessFlows'
  BY <1>2 DEF SignsInUnlessFlows
<1> QED BY <1>1, <1>3, TypeCorrect, PTL DEF Spec

-----------------------------------------------------------------------------
(* Signing in with Google *)

\* No cookie of a browser, a request or an answer is that of a Google user.
GoogleInv ==
  /\ GoogleNeverSignsIn
  /\ \A t \in Tab : sent[t].user # GoogleUser /\ reply[t].user # GoogleUser

\* An answer that brings a cookie of Google's user is replaced by the middleware's.
LEMMA GoogleHandlers ==
  ASSUME TypeOK, GoogleInv, NEW t \in Tab,
         \/ Page(t) \/ Login(t) \/ WrongPassword(t) \/ Logout(t)
         \/ Start(t) \/ CallbackSucceeds(t) \/ CallbackRefused(t) \/ GoogleFails(t)
  PROVE  GoogleInv'
<1> USE UsersAssumption DEF TypeOK, NoCookie, UserCookie, FlowsCookie
<1>1. UNCHANGED <<jar, sent>>
  BY DEF Page, Login, WrongPassword, Logout, Start, CallbackSucceeds, CallbackRefused, GoogleFails,
     Answer
<1>2. \A s \in Tab \ {t} : reply'[s] = reply[s] /\ served'[s] = served[s]
  BY DEF Page, Login, WrongPassword, Logout, Start, CallbackSucceeds, CallbackRefused, GoogleFails,
     Answer
<1>3. reply'[t].user # GoogleUser
  <2>1. CASE Page(t) \/ WrongPassword(t) \/ Logout(t) \/ Start(t) \/ CallbackRefused(t)
    BY <2>1 DEF Page, WrongPassword, Logout, Start, CallbackRefused, Answer, User
  <2>2. CASE Login(t)
    BY <2>2 DEF Login, Answer, User
  <2>3. CASE CallbackSucceeds(t)
    BY <2>3 DEF CallbackSucceeds, Answer, User
  <2>4. CASE GoogleFails(t)
    BY <2>4 DEF GoogleFails, GoogleInv
  <2> QED BY <2>1, <2>2, <2>3, <2>4
<1>4. served'[t] # GoogleUser
  BY DEF Page, Login, WrongPassword, Logout, Start, CallbackSucceeds, CallbackRefused, GoogleFails,
     SignedIn, GoogleInv, GoogleNeverSignsIn, User
<1> QED BY <1>1, <1>2, <1>3, <1>4 DEF GoogleInv, GoogleNeverSignsIn

\* A browser sends the cookie it has and takes the one it is sent.
LEMMA GoogleBrowsers ==
  ASSUME TypeOK, GoogleInv, NEW t \in Tab,
         \/ \E k \in Kinds, f \in Flow \union {None} : Send(t, k, f)
         \/ Arrive(t) \/ Lose(t)
  PROVE  GoogleInv'
<1> USE UsersAssumption, TabsAssumption DEF TypeOK, NoCookie, User
<1>1. \A s \in Tab : sent'[s] \in {sent[s], NoCookie, jar[BrowserOf[s]]}
  BY DEF Send, Arrive, Lose, Close
<1>2. \A s \in Tab : reply'[s] \in {reply[s], NoCookie} /\ served'[s] \in {served[s], None}
  BY DEF Send, Arrive, Lose, Close
<1>3. \A b \in Browser : jar'[b] = jar[b] \/ jar'[b] = reply[t]
  BY DEF Send, Arrive, Lose, Close
<1>4. None # GoogleUser /\ BrowserOf[t] \in Browser
  OBVIOUS
<1>5. ASSUME NEW s \in Tab
      PROVE  served'[s] # GoogleUser /\ sent'[s].user # GoogleUser /\ reply'[s].user # GoogleUser
  <2>1. NoCookie.user = None /\ BrowserOf[s] \in Browser
    OBVIOUS
  <2> QED BY <1>1, <1>2, <1>4, <2>1 DEF GoogleInv, GoogleNeverSignsIn
<1>6. ASSUME NEW b \in Browser PROVE jar'[b].user # GoogleUser
  BY <1>3 DEF GoogleInv, GoogleNeverSignsIn
<1> QED BY <1>5, <1>6 DEF GoogleInv, GoogleNeverSignsIn

\* No sign-in with Google ever reaches a browser: a callback succeeds only with a flow of its
\* request, and then the middleware writes its own cookie, or its removal, over the one that
\* the handler has set.
THEOREM GoogleNeverSignsInHolds == Spec => []GoogleNeverSignsIn
<1>1. Init => GoogleInv
  BY UsersAssumption DEF Init, GoogleInv, GoogleNeverSignsIn, NoCookie, User
<1>2. SessionInv /\ GoogleInv /\ [Next]_vars => GoogleInv'
  <2> SUFFICES ASSUME SessionInv, GoogleInv, [Next]_vars PROVE GoogleInv'
    OBVIOUS
  <2>1. TypeOK
    BY DEF SessionInv
  <2>2. CASE Tick \/ UNCHANGED vars
    BY <2>2 DEF Tick, vars, GoogleInv, GoogleNeverSignsIn
  <2> QED BY <2>1, <2>2, GoogleHandlers, GoogleBrowsers DEF Next
<1>3. GoogleInv => GoogleNeverSignsIn
  BY DEF GoogleInv
<1> QED BY <1>1, <1>2, <1>3, SessionInvariant, PTL DEF Spec
===============================================================================
