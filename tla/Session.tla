-------------------------------- MODULE Session --------------------------------
(***************************************************************************)
(* Signing in to the dashboard (routes_auth.py, auth/sessions.py) with the *)
(* middleware that keeps the state of Google sign-ins (main.py:140).       *)
(*                                                                         *)
(* The server keeps nothing: who is signed in is a signed cookie.  The     *)
(* middleware keeps the sign-ins that a browser has begun (its flows) in a *)
(* cookie of its own, signed with another salt but of the same name, so a  *)
(* browser has one of the two or none.  A request carries the cookie the   *)
(* browser had when it was sent; the answer changes the cookie when it     *)
(* arrives, and tabs of one browser have requests on their way at the same *)
(* time.                                                                   *)
(***************************************************************************)
EXTENDS Integers, FiniteSets

CONSTANTS
  Browser,
  Tab,        \* a tab has one request open at a time
  BrowserOf,  \* BrowserOf[t]: the browser of tab t
  LocalUser,  \* the administrator with a password
  GoogleUser, \* the user Google vouches for
  Flow,       \* state values of Google sign-ins
  MaxAge,     \* max_age_seconds of SessionManager
  FlowAge,    \* max_age of SessionMiddleware, 14 days
  MaxTime,    \* bound of the clock
  None

User == {LocalUser, GoogleUser}

ASSUME TabsAssumption == BrowserOf \in [Tab -> Browser]
ASSUME UsersAssumption == LocalUser # GoogleUser /\ None \notin User \union Browser \union Flow
ASSUME AgesAssumption == MaxAge \in Nat /\ FlowAge \in Nat /\ MaxTime \in Nat

\* A cookie names a user or flows, and when it was signed.
Cookie == [user : User \union {None}, flows : SUBSET Flow, at : 0..MaxTime]

\* Mutant: the time is rounded up.
UserCookieAhead(u, n) == [user |-> u, flows |-> {}, at |-> n + 1]

NoCookie == [user |-> None, flows |-> {}, at |-> 0]

UserCookie(u, n) == [user |-> u, flows |-> {}, at |-> n]

FlowsCookie(F, n) == [user |-> None, flows |-> F, at |-> n]

Kinds == {"page", "login", "wrongPassword", "logout", "start", "callback"}

VARIABLES
  now,       \* the time
  jar,       \* jar[b]: the cookie that browser b has
  pc,        \* pc[t]: where the request of tab t is
  kind,      \* kind[t]: what it asks for
  flow,      \* flow[t]: the flow a callback returns with
  sent,      \* sent[t]: the cookie it carries
  sets,      \* sets[t]: whether the answer changes the cookie
  reply,     \* reply[t]: to what
  answer,    \* answer[t]: what the answer says
  served,    \* served[t]: the user a page was served to
  starter,   \* history: the browser whose request began flow f; one whose tabs are not
             \* followed may have begun it before
  proven,    \* history: when somebody last proved to be user u in browser b, -1 for never
  out,       \* history: b was signed out, and no sign-in has arrived since
  outThen,   \* history: out at the time the request was sent
  held,      \* history: since when b has the session that a password sign-in brought it
  heldThen   \* history: held at the time the request was sent

vars == <<now, jar, pc, kind, flow, sent, sets, reply, answer, served, starter, proven, out,
          outThen, held, heldThen>>

TypeOK ==
  /\ now \in 0..MaxTime
  /\ jar \in [Browser -> Cookie]
  /\ pc \in [Tab -> {"idle", "sent", "answered"}]
  /\ kind \in [Tab -> Kinds]
  /\ flow \in [Tab -> Flow \union {None}]
  /\ sent \in [Tab -> Cookie]
  /\ sets \in [Tab -> BOOLEAN]
  /\ reply \in [Tab -> Cookie]
  /\ answer \in [Tab -> {"none", "page", "signIn", "signedIn", "signedOut", "refused", "google", "failed"}]
  /\ served \in [Tab -> User \union {None}]
  /\ starter \in [Flow -> Browser \union {None}]
  /\ proven \in [Browser \X User -> -1..MaxTime]
  /\ out \in [Browser -> BOOLEAN]
  /\ outThen \in [Tab -> BOOLEAN]
  /\ held \in [Browser -> -1..MaxTime]
  /\ heldThen \in [Tab -> -1..MaxTime]

Init ==
  /\ now = 0
  /\ jar = [b \in Browser |-> NoCookie]
  /\ pc = [t \in Tab |-> "idle"]
  /\ kind = [t \in Tab |-> "page"]
  /\ flow = [t \in Tab |-> None]
  /\ sent = [t \in Tab |-> NoCookie]
  /\ sets = [t \in Tab |-> FALSE]
  /\ reply = [t \in Tab |-> NoCookie]
  /\ answer = [t \in Tab |-> "none"]
  /\ served = [t \in Tab |-> None]
  /\ starter \in [Flow -> {None} \union {b \in Browser : \A t \in Tab : BrowserOf[t] # b}]
  /\ proven = [p \in Browser \X User |-> -1]
  /\ out = [b \in Browser |-> FALSE]
  /\ outThen = [t \in Tab |-> FALSE]
  /\ held = [b \in Browser |-> -1]
  /\ heldThen = [t \in Tab |-> -1]

-----------------------------------------------------------------------------
(* Browsers *)

\* A tab sends a request.  Any browser may return from Google with any flow begun.
Send(t, k, f) ==
  /\ pc[t] = "idle"
  /\ k = "callback" => f # None /\ starter[f] # None
  /\ k # "callback" => f = None
  /\ pc' = [pc EXCEPT ![t] = "sent"]
  /\ kind' = [kind EXCEPT ![t] = k]
  /\ flow' = [flow EXCEPT ![t] = f]
  /\ sent' = [sent EXCEPT ![t] = jar[BrowserOf[t]]]
  /\ outThen' = [outThen EXCEPT ![t] = out[BrowserOf[t]]]
  /\ heldThen' = [heldThen EXCEPT ![t] = held[BrowserOf[t]]]
  /\ UNCHANGED <<now, jar, sets, reply, answer, served, starter, proven, out, held>>

\* The request of tab t is over.
Close(t) ==
  /\ pc' = [pc EXCEPT ![t] = "idle"]
  /\ kind' = [kind EXCEPT ![t] = "page"]
  /\ flow' = [flow EXCEPT ![t] = None]
  /\ sent' = [sent EXCEPT ![t] = NoCookie]
  /\ sets' = [sets EXCEPT ![t] = FALSE]
  /\ reply' = [reply EXCEPT ![t] = NoCookie]
  /\ answer' = [answer EXCEPT ![t] = "none"]
  /\ served' = [served EXCEPT ![t] = None]
  /\ outThen' = [outThen EXCEPT ![t] = FALSE]
  /\ heldThen' = [heldThen EXCEPT ![t] = -1]
  /\ UNCHANGED <<now, starter, proven>>

\* The answer of tab t brings the session of a password sign-in,
BringsSession(t) == kind[t] = "login" /\ reply[t].user # None

\* or says that the browser is signed out, in anew or off to Google, or its request still
\* carried the state of a Google sign-in.
EndsSession(t) == answer[t] \in {"signedIn", "signedOut", "google"} \/ sent[t].flows # {}

\* The answer arrives and the browser takes over its cookie.
Arrive(t) ==
  LET b == BrowserOf[t]
  IN  /\ pc[t] = "answered"
      /\ jar' = [jar EXCEPT ![b] = IF sets[t] THEN reply[t] ELSE @]
      /\ out' = [out EXCEPT ![b] = (@ \/ answer[t] = "signedOut") /\ answer[t] # "signedIn"]
      /\ held' = [held EXCEPT ![b] = IF BringsSession(t) THEN reply[t].at
                                     ELSE IF EndsSession(t) THEN -1 ELSE @]
      /\ Close(t)

\* The tab is closed before the answer arrives.
Lose(t) ==
  /\ pc[t] # "idle"
  /\ Close(t)
  /\ UNCHANGED <<jar, out, held>>

-----------------------------------------------------------------------------
(* The server *)

\* The flows that the middleware finds in the request.
Flows(t) == IF now - sent[t].at <= FlowAge THEN sent[t].flows ELSE {}

\* The user that sessions.load finds in it, if any.
SignedIn(t) == IF now - sent[t].at <= MaxAge THEN sent[t].user ELSE None

\* The handler says a, leaves the flows F and sets the cookie c (if s): the middleware
\* adds its own cookie after it, or expires it if the flows are gone.
Answer(t, a, F, s, c) ==
  /\ pc' = [pc EXCEPT ![t] = "answered"]
  /\ answer' = [answer EXCEPT ![t] = a]
  /\ sets' = [sets EXCEPT ![t] = s \/ F # {} \/ Flows(t) # {}]
  /\ reply' = [reply EXCEPT ![t] = IF F # {} THEN FlowsCookie(F, now)
                                  ELSE IF Flows(t) # {} THEN NoCookie ELSE c]
  /\ UNCHANGED <<now, jar, kind, flow, sent, out, outThen, held, heldThen>>

Handles(t, k) == pc[t] = "sent" /\ kind[t] = k

\* A page of the dashboard; without a session, the redirect to the login page.
Page(t) ==
  /\ Handles(t, "page")
  /\ Answer(t, IF SignedIn(t) = None THEN "signIn" ELSE "page", Flows(t), FALSE, NoCookie)
  /\ served' = [served EXCEPT ![t] = SignedIn(t)]
  /\ UNCHANGED <<starter, proven>>

Proves(t, u) == proven' = [proven EXCEPT ![<<BrowserOf[t], u>>] = now]

\* login_post with the right password,
Login(t) ==
  /\ Handles(t, "login")
  /\ Answer(t, "signedIn", Flows(t), TRUE, UserCookie(LocalUser, now))
  /\ Proves(t, LocalUser)
  /\ UNCHANGED <<served, starter>>

\* Mutant: the refusal clears the session.
WrongPasswordSignsOut(t) ==
  /\ Handles(t, "wrongPassword")
  /\ Answer(t, "refused", Flows(t), TRUE, NoCookie)
  /\ UNCHANGED <<served, starter, proven>>

\* and with a wrong one.
WrongPassword(t) ==
  /\ Handles(t, "wrongPassword")
  /\ Answer(t, "refused", Flows(t), FALSE, NoCookie)
  /\ UNCHANGED <<served, starter, proven>>

\* Mutant: the cookie is deleted under another path and stays.
LogoutKeeping(t) ==
  /\ Handles(t, "logout")
  /\ Answer(t, "signedOut", Flows(t), FALSE, NoCookie)
  /\ UNCHANGED <<served, starter, proven>>

Logout(t) ==
  /\ Handles(t, "logout")
  /\ Answer(t, "signedOut", Flows(t), TRUE, NoCookie)
  /\ UNCHANGED <<served, starter, proven>>

\* google_login: a new flow, and the redirect to Google.
Start(t) ==
  /\ Handles(t, "start")
  /\ \E f \in Flow :
       /\ starter[f] = None
       /\ starter' = [starter EXCEPT ![f] = BrowserOf[t]]
       /\ Answer(t, "google", Flows(t) \union {f}, FALSE, NoCookie)
  /\ UNCHANGED <<served, proven>>

\* Mutant: the flow is not looked up in the session.
CallbackSucceedsUnbound(t) ==
  /\ Handles(t, "callback")
  /\ \E F \in SUBSET (Flows(t) \ {flow[t]}) :
       Answer(t, "signedIn", F, TRUE, UserCookie(GoogleUser, now))
  /\ Proves(t, GoogleUser)
  /\ UNCHANGED <<served, starter>>

\* google_callback: the flow is one of this browser's and Google accepts the code.  The
\* flow is dropped, and others that are an hour old.
CallbackSucceeds(t) ==
  /\ Handles(t, "callback")
  /\ flow[t] \in Flows(t)
  /\ \E F \in SUBSET (Flows(t) \ {flow[t]}) :
       Answer(t, "signedIn", F, TRUE, UserCookie(GoogleUser, now))
  /\ Proves(t, GoogleUser)
  /\ UNCHANGED <<served, starter>>

\* The user declined (the flow stays), the flow is not this browser's, or Google does not
\* accept the code.
CallbackRefused(t) ==
  /\ Handles(t, "callback")
  /\ \E F \in {Flows(t)} \union SUBSET (Flows(t) \ {flow[t]}) :
       Answer(t, "refused", F, FALSE, NoCookie)
  /\ UNCHANGED <<served, starter, proven>>

\* Google cannot be reached: the 500 passes the middleware by.
GoogleFails(t) ==
  /\ Handles(t, "start") \/ Handles(t, "callback")
  /\ pc' = [pc EXCEPT ![t] = "answered"]
  /\ answer' = [answer EXCEPT ![t] = "failed"]
  /\ UNCHANGED <<now, jar, kind, flow, sent, sets, reply, served, starter, proven, out, outThen,
                 held, heldThen>>

Tick ==
  /\ now < MaxTime
  /\ now' = now + 1
  /\ UNCHANGED <<jar, pc, kind, flow, sent, sets, reply, answer, served, starter, proven, out,
                 outThen, held, heldThen>>

Next ==
  \/ Tick
  \/ \E t \in Tab :
       \/ \E k \in Kinds, f \in Flow \union {None} : Send(t, k, f)
       \/ Arrive(t) \/ Lose(t)
       \/ Page(t) \/ Login(t) \/ WrongPassword(t) \/ Logout(t)
       \/ Start(t) \/ CallbackSucceeds(t) \/ CallbackRefused(t) \/ GoogleFails(t)

Spec == Init /\ [][Next]_vars

-----------------------------------------------------------------------------
(* Properties *)

\* A page is served only to a user who proved to be that in this very browser, not longer
\* ago than a session lasts; a link back from Google that another browser's sign-in was
\* begun for signs nobody in.  (One that was used before may: when another tab's answer has
\* brought the state back, only Google's refusal of a used code stops it.)
SessionsEarned ==
  [][\A t \in Tab :
       pc[t] = "sent" /\ pc'[t] = "answered" =>
         /\ answer'[t] = "page" =>
              LET last == proven[<<BrowserOf[t], served'[t]>>]
              IN  last >= 0 /\ now - last <= MaxAge
         /\ answer'[t] = "signedIn" /\ kind[t] = "callback" =>
              starter[flow[t]] = BrowserOf[t]]_vars

\* Once a sign-out has reached the browser, no page is served to a request it sends
\* before the next sign-in has reached it, whatever other tabs still had on their way.
SignOutLasts ==
  \A t \in Tab : outThen[t] /\ pc[t] = "answered" => answer[t] # "page"

\* The session that a password sign-in brought to a browser holds for MaxAge, or until a
\* sign-out, another sign-in, the beginning of a Google sign-in or the answer to a request
\* that still carried the state of one reaches the browser: until then pages are served,
\* whatever else is refused.  Which sign-ins bring one is SignsInUnlessFlows.
LocalSessionHolds ==
  [][\A t \in Tab :
       Handles(t, "page") /\ pc'[t] = "answered" /\ heldThen[t] >= 0
         /\ now - heldThen[t] <= MaxAge =>
           answer'[t] = "page" /\ served'[t] = LocalUser]_vars

\* The inductive invariant behind the three: a cookie of browser b was earned in it,
CookieInv(b, c) ==
  /\ c.at <= now
  /\ c.user # None => c.at <= proven[<<b, c.user>>]
  /\ \A f \in c.flows : starter[f] = b

\* what a request carries and its answer brings,
TabInv(t) ==
  /\ CookieInv(BrowserOf[t], sent[t])
  /\ CookieInv(BrowserOf[t], reply[t])
  /\ pc[t] # "answered" => answer[t] = "none" /\ ~sets[t]
  /\ reply[t].user # None => answer[t] = "signedIn"
  /\ answer[t] = "signedOut" => sets[t]
  /\ answer[t] = "page" => sent[t].user # None
  /\ BringsSession(t) => sets[t] /\ reply[t] = UserCookie(LocalUser, reply[t].at)
  /\ sets[t] => EndsSession(t)
  /\ outThen[t] => sent[t].user = None
  /\ heldThen[t] >= 0 => sent[t] = UserCookie(LocalUser, heldThen[t])

\* and what a browser that was signed out or signed in has.
BrowserInv(b) ==
  /\ CookieInv(b, jar[b])
  /\ out[b] => jar[b].user = None
  /\ held[b] >= 0 => jar[b] = UserCookie(LocalUser, held[b])

SessionInv ==
  /\ TypeOK
  /\ \A p \in Browser \X User : proven[p] <= now
  /\ \A t \in Tab : TabInv(t)
  /\ \A b \in Browser : BrowserInv(b)

\* What "local username/password and optional Google SSO" (README.md:46) is for: the answer
\* that says a user is signed in brings the session.
SignInBringsSession ==
  \A t \in Tab :
    pc[t] = "answered" /\ answer[t] = "signedIn" =>
      sets[t] /\ reply[t].user = (IF kind[t] = "login" THEN LocalUser ELSE GoogleUser)

\* How far it is from that: the answer to a sign-in brings a session exactly if it is one by
\* password, and its request carried no state of a Google sign-in that the middleware still
\* accepts: a browser in which one was begun and given up cannot sign in until then.
SignsInUnlessFlows ==
  \A t \in Tab :
    pc[t] = "answered" /\ answer[t] = "signedIn" =>
      ((sets[t] /\ reply[t].user # None) <=>
         /\ kind[t] = "login"
         /\ sent[t].flows = {} \/ reply[t].at - sent[t].at > FlowAge)

\* So no browser ever has the cookie of a session that Google vouched for, and no page is
\* ever served to such a user.
GoogleNeverSignsIn ==
  /\ \A b \in Browser : jar[b].user # GoogleUser
  /\ \A t \in Tab : served[t] # GoogleUser
===============================================================================
