---------------------------- MODULE MavenApi_proofs ----------------------------
(***************************************************************************)
(* MavenApi for any repositories, tokens, requests, body lengths and       *)
(* clock.                                                                  *)
(***************************************************************************)
EXTENDS MavenApi, TLAPS

USE ApiSetsAssumption, ApiTokensAssumption, ApiSizesAssumption, ApiNoneAssumption
USE DEF storeVars, writeVars, readVars, Answer, Log, End, At, Disturb, Cred, InFlight, Reading

\* The length of a body is a number.
LEMMA SizesAreNumbers ==
  ASSUME TypeOK, NEW w \in Write
  PROVE  size[w] \in Nat
<1>1. size[w] \in Length \union {0}
  BY DEF TypeOK
<1>2. Length \subseteq Nat
  OBVIOUS
<1>3. size[w] = 0 \/ size[w] \in Nat
  BY <1>1, <1>2
<1> QED BY <1>3

\* A step of a PUT keeps every variable of its type.
LEMMA PutTypes ==
  ASSUME ApiInv, NEW w \in Write, Put(w)
  PROVE  TypeOK'
<1> USE DEF ApiInv, TypeOK, WriteInv, Line, Store!TypeOK, Store!Verdicts, Store!Replies
<1>1. ASSUME NEW c \in Cred, WriteUnauthenticated(w, c) PROVE TypeOK'
  BY <1>1 DEF WriteUnauthenticated, Store!Tell
<1>2. ASSUME NEW p \in Key \union {None}, NEW c \in Cred, NEW n \in Length,
             NEW s \in {400, 401, 403, 404}, WriteRejected(w, p, c, n, s)
      PROVE  TypeOK'
  BY <1>2 DEF WriteRejected, Authentic, Store!Tell
<1>3. ASSUME NEW p \in Key, NEW c \in Cred, NEW n \in Length, WriteAdmitted(w, p, c, n)
      PROVE  TypeOK'
  BY <1>3 DEF WriteAdmitted, Authentic
<1>4. CASE ExistsPasses(w)
  BY <1>4 DEF ExistsPasses
<1>5. CASE ExistsTaken(w)
  BY <1>5 DEF ExistsTaken, Store!Refuse
<1>6. CASE PutTakesEffect(w)
  BY <1>6 DEF PutTakesEffect, Store!Publish
<1>7. CASE PutFindsTaken(w)
  BY <1>7 DEF PutFindsTaken, Store!Refuse
<1>8. CASE PutCreated(w)
  BY <1>8 DEF PutCreated, Store!Tell
<1>9. CASE PutConflict(w)
  BY <1>9 DEF PutConflict, Store!Tell
<1>10. CASE BodyTooLarge(w)
  BY <1>10 DEF BodyTooLarge, Store!Tell
<1>11. CASE BodyCut(w)
  BY <1>11 DEF BodyCut, Store!Tell
<1>12. CASE WriteUnavailable(w)
  BY <1>12 DEF WriteUnavailable, Store!Tell
<1>13. CASE WriteError(w)
  BY <1>13 DEF WriteError, Store!Tell
<1> QED BY <1>1, <1>2, <1>3, <1>4, <1>5, <1>6, <1>7, <1>8, <1>9, <1>10, <1>11, <1>12, <1>13
        DEF Put

\* So does a step of a GET or HEAD.
LEMMA GetTypes ==
  ASSUME ApiInv, NEW d \in Read, Get(d)
  PROVE  TypeOK'
<1> USE DEF ApiInv, TypeOK, ReadInv, Line, Store!TypeOK, Store!Verdicts, Store!Replies
<1>1. ASSUME NEW c \in Cred, ReadUnauthenticated(d, c) PROVE TypeOK'
  BY <1>1 DEF ReadUnauthenticated
<1>2. ASSUME NEW p \in Key \union {None}, NEW c \in Cred, NEW s \in {400, 401, 403, 404},
             ReadRejected(d, p, c, s)
      PROVE  TypeOK'
  BY <1>2 DEF ReadRejected
<1>3. ASSUME NEW p \in Key, NEW c \in Cred, ReadAdmitted(d, p, c) PROVE TypeOK'
  BY <1>3 DEF ReadAdmitted, Authentic
<1>4. CASE HeadFound(d)
  <2>1. published[wanted[d]] \in Write
    BY <1>4 DEF HeadFound
  <2>2. size[published[wanted[d]]] \in Nat
    BY <2>1, SizesAreNumbers
  <2> QED BY <1>4, <2>2 DEF HeadFound
<1>5. CASE HeadTold(d)
  <2>1. published[wanted[d]] \in Write
    BY <1>5 DEF HeadTold
  <2>2. size[published[wanted[d]]] \in Nat
    BY <2>1, SizesAreNumbers
  <2> QED BY <1>5, <2>2 DEF HeadTold
<1>6. CASE ReadMissing(d)
  BY <1>6 DEF ReadMissing
<1>7. CASE GetReturns(d)
  BY <1>7 DEF GetReturns
<1>8. CASE GetOpens(d)
  BY <1>8 DEF GetOpens, Store!Serve
<1>9. CASE GetGone(d)
  BY <1>9 DEF GetGone
<1>10. CASE BodySent(d)
  BY <1>10 DEF BodySent
<1>11. CASE ReadCut(d)
  BY <1>11 DEF ReadCut
<1>12. CASE ReadError(d)
  BY <1>12 DEF ReadError
<1> QED BY <1>1, <1>2, <1>3, <1>4, <1>5, <1>6, <1>7, <1>8, <1>9, <1>10, <1>11, <1>12 DEF Get

\* So do the clock, deletions and crashes.
LEMMA OtherTypes ==
  ASSUME ApiInv, Tick \/ (\E k \in Key : Delete(k)) \/ Crash
  PROVE  TypeOK'
<1> USE DEF ApiInv, TypeOK, Line, Store!TypeOK, Store!Verdicts, Store!Replies
<1>1. CASE Tick
  BY <1>1 DEF Tick
<1>2. ASSUME NEW k \in Key, Delete(k) PROVE TypeOK'
  BY <1>2 DEF Delete, Store!Withdraw
<1>3. CASE Crash
  BY <1>3 DEF Crash, Store!Drop
<1> QED BY <1>1, <1>2, <1>3

\* The parts of the invariant, by what disturbs them: the store and the handlers,
\* or the audit log.
Rest ==
  /\ PublishedInv /\ Authorized /\ DownloadsExplained
  /\ \A v \in Write : WriteInv(v)
  /\ \A d \in Read : ReadInv(d)

Logs == AuditHonest /\ AnswersAudited

\* The steps that answer a PUT and leave the store's objects as they are.
Answered(w, s) ==
  /\ pc[w] # "done"
  /\ Answer(w, s)
  /\ published' = published /\ verdict' = verdict /\ serving' = serving
  /\ path' = path /\ cred' = cred /\ size' = size
  /\ UNCHANGED readVars
  /\ \A v \in Write : v # w => reply'[v] = reply[v]

\* An answer that leaves the store alone disturbs nothing but the audit.
LEMMA AnswerStep ==
  ASSUME ApiInv, TypeOK', NEW w \in Write, NEW s \in Nat, Answered(w, s)
  PROVE  Rest'
<1> USE DEF Answered, Rest
<1> USE DEF ApiInv, PublishedInv, Authorized, DownloadsExplained, WriteInv, ReadInv, MayRead
<1>1. PublishedInv' /\ Authorized' /\ DownloadsExplained'
  OBVIOUS
<1>2. ASSUME NEW v \in Write PROVE WriteInv(v)'
  <2>1. CASE v = w
    BY <2>1 DEF TypeOK
  <2>2. CASE v # w
    BY <2>2 DEF TypeOK
  <2> QED BY <2>1, <2>2
<1>3. ASSUME NEW d \in Read PROVE ReadInv(d)'
  OBVIOUS
<1> QED BY <1>1, <1>2, <1>3

\* With the line that says so, which is honest.
LoggedHonestly(w, p, c, s) ==
  /\ pc[w] # "done"
  /\ Answer(w, s)
  /\ Log(w, p, c, s)
  /\ path' = path /\ cred' = cred
  /\ \A v \in Write : v # w => verdict'[v] = verdict[v]
  /\ s = 201 <=> verdict'[w] = "stored" /\ s # 503
  /\ s = 409 => verdict'[w] = "refused"
  /\ s \in {400, 401, 403, 404} => verdict'[w] = "none"
  /\ verdict'[w] # "none" => p = path[w] /\ c = cred[w]

\* The audit stays honest and complete when a request logs its answer as it was.
LEMMA LoggedStep ==
  ASSUME ApiInv, NEW w \in Write, NEW s \in {201, 400, 401, 403, 404, 409, 503},
         NEW p \in Key \union {None}, NEW c \in Cred, LoggedHonestly(w, p, c, s)
  PROVE  Logs'
<1> USE DEF LoggedHonestly, Logs
<1> DEFINE new == [write |-> w, path |-> p, principal |-> c, status |-> s]
<1>1. \A l \in audit : l.write \in Write /\ l.write # w
  BY DEF ApiInv, AuditHonest, TypeOK, Line
<1>2. /\ pc' = [pc EXCEPT ![w] = "done"] /\ status' = [status EXCEPT ![w] = s]
      /\ pc \in [Write -> {"idle", "exists", "put", "done"}]
      /\ status \in [Write -> {0, 201, 400, 401, 403, 404, 409, 500, 503}]
  BY DEF ApiInv, TypeOK
<1>3. audit' = audit \union {new}
  OBVIOUS
<1>4. new.write = w /\ new.path = p /\ new.principal = c /\ new.status = s
  OBVIOUS
<1> HIDE DEF new
<1>5. ASSUME NEW l \in audit'
      PROVE  /\ pc'[l.write] = "done" /\ l.status = status'[l.write]
             /\ l.status = 201 <=> verdict'[l.write] = "stored" /\ l.status # 503
             /\ l.status = 409 => verdict'[l.write] = "refused"
             /\ l.status \in {400, 401, 403, 404} => verdict'[l.write] = "none"
             /\ verdict'[l.write] # "none" =>
                  l.path = path'[l.write] /\ l.principal = cred'[l.write]
  <2>1. CASE l = new
    BY <2>1, <1>2, <1>4
  <2>2. CASE l \in audit
    BY <2>2, <1>1, <1>2 DEF ApiInv, AuditHonest
  <2> QED BY <2>1, <2>2, <1>3
<1>6. \A l, m \in audit' : l.write = m.write => l = m
  BY <1>1, <1>3, <1>4 DEF ApiInv, AuditHonest
<1>7. AuditHonest'
  BY <1>5, <1>6 DEF AuditHonest
<1>8. AnswersAudited'
  BY <1>2, <1>3, <1>4 DEF ApiInv, AnswersAudited
<1> QED BY <1>7, <1>8

\* Without one, where the handler is not the one to answer.
LEMMA SilentStep ==
  ASSUME ApiInv, NEW w \in Write, NEW s \in {0, 401, 500}, Answered(w, s), audit' = audit
  PROVE  Logs'
<1> USE DEF Answered, Logs
<1>1. \A l \in audit : l.write \in Write /\ l.write # w
  BY DEF ApiInv, AuditHonest, TypeOK, Line
<1>2. /\ pc' = [pc EXCEPT ![w] = "done"] /\ status' = [status EXCEPT ![w] = s]
      /\ pc \in [Write -> {"idle", "exists", "put", "done"}]
      /\ status \in [Write -> {0, 201, 400, 401, 403, 404, 409, 500, 503}]
  BY DEF ApiInv, TypeOK
<1>3. AuditHonest'
  BY <1>1, <1>2 DEF ApiInv, AuditHonest
<1>4. AnswersAudited'
  BY <1>1, <1>2 DEF ApiInv, AnswersAudited
<1> QED BY <1>3, <1>4

\* A step of a PUT keeps the invariant: only PutTakesEffect changes an object,
\* after the token and the length of its body have been seen to.
LEMMA PutStep ==
  ASSUME ApiInv, TypeOK', NEW w \in Write, Put(w)
  PROVE  ApiInv'
<1> SUFFICES Rest' /\ Logs'
  BY DEF ApiInv, Rest, Logs
<1>a. \A l \in audit : l.write \in Write /\ pc[l.write] = "done"
  BY DEF ApiInv, AuditHonest, TypeOK, Line
<1>b. /\ verdict \in [Write -> {"none", "stored", "refused"}]
      /\ reply \in [Write -> {"none", "created", "conflict", "failed"}]
      /\ pc \in [Write -> {"idle", "exists", "put", "done"}]
      /\ path \in [Write -> Key \union {None}]
      /\ cred \in [Write -> Token \union {None}]
      /\ status \in [Write -> {0, 201, 400, 401, 403, 404, 409, 500, 503}]
  BY DEF ApiInv, TypeOK, Store!TypeOK, Store!Verdicts, Store!Replies
<1>c. \A v \in Write : WriteInv(v)
  BY DEF ApiInv
<1>1. ASSUME NEW c \in Cred, WriteUnauthenticated(w, c) PROVE Rest' /\ Logs'
  <2>1. Answered(w, 401) /\ audit' = audit
    BY <1>1, <1>b DEF Answered, WriteUnauthenticated, Store!Tell
  <2> QED BY <2>1, AnswerStep, SilentStep
<1>2. ASSUME NEW p \in Key \union {None}, NEW c \in Cred, NEW n \in Length,
             NEW s \in {400, 401, 403, 404}, WriteRejected(w, p, c, n, s)
      PROVE  Rest' /\ Logs'
  <2>1. Answered(w, s)
    BY <1>2, <1>b DEF Answered, WriteRejected, Store!Tell
  <2>2. verdict[w] = "none"
    BY <1>2, <1>c DEF WriteRejected, WriteInv
  <2>3. LoggedHonestly(w, p, c, s)
    BY <1>2, <2>1, <2>2 DEF Answered, LoggedHonestly, WriteRejected
  <2> QED BY <2>1, <2>3, AnswerStep, LoggedStep
<1>3. ASSUME NEW p \in Key, NEW c \in Cred, NEW n \in Length, WriteAdmitted(w, p, c, n)
      PROVE  Rest' /\ Logs'
  <2>1. pc[w] = "idle" /\ verdict[w] = "none" /\ reply[w] = "none"
    BY <1>3, <1>c DEF WriteAdmitted, WriteInv
  <2>2. c \in Token
    BY <1>3 DEF WriteAdmitted, Authentic
  <2>3. Rest'
    <3>1. PublishedInv' /\ Authorized' /\ DownloadsExplained'
      BY <1>3, <2>1, <1>b DEF ApiInv, TypeOK, Store!TypeOK, WriteAdmitted, PublishedInv,
         Authorized, DownloadsExplained, ReadInv, MayRead
    <3>2. ASSUME NEW v \in Write PROVE WriteInv(v)'
      BY <1>3, <1>b, <1>c, <2>1, <2>2 DEF ApiInv, TypeOK, WriteAdmitted, WriteInv
    <3>3. ASSUME NEW d \in Read PROVE ReadInv(d)'
      BY <1>3, <2>1, <1>b DEF ApiInv, TypeOK, Store!TypeOK, WriteAdmitted, ReadInv,
         PublishedInv, MayRead
    <3> QED BY <3>1, <3>2, <3>3 DEF Rest
  <2>4. Logs'
    BY <1>3, <1>a, <1>b, <2>1 DEF ApiInv, Logs, WriteAdmitted, AuditHonest, AnswersAudited
  <2> QED BY <2>3, <2>4
<1>4. CASE ExistsPasses(w)
  <2>1. PublishedInv' /\ Authorized' /\ DownloadsExplained' /\ \A d \in Read : ReadInv(d)'
    BY <1>4 DEF ApiInv, ExistsPasses, PublishedInv, Authorized, DownloadsExplained, ReadInv, MayRead
  <2>2. ASSUME NEW v \in Write PROVE WriteInv(v)'
    BY <1>4, <1>b, <1>c DEF ExistsPasses, WriteInv
  <2>3. Logs'
    BY <1>4, <1>a, <1>b DEF ApiInv, Logs, ExistsPasses, AuditHonest, AnswersAudited
  <2> QED BY <2>1, <2>2, <2>3 DEF Rest
<1>5. CASE ExistsTaken(w)
  <2>1. /\ verdict[w] = "none" /\ verdict' = [verdict EXCEPT ![w] = "refused"]
        /\ pc[w] = "exists" /\ reply' = [reply EXCEPT ![w] = "conflict"]
        /\ UNCHANGED <<now, published, serving, path, cred, size, readVars>>
        /\ Answer(w, 409) /\ Log(w, path[w], cred[w], 409)
    BY <1>5, <1>b, <1>c DEF ExistsTaken, Store!Refuse, WriteInv
  <2>2. PublishedInv' /\ Authorized' /\ DownloadsExplained'
    BY <2>1, <1>b DEF ApiInv, PublishedInv, Authorized, DownloadsExplained, ReadInv, MayRead
  <2>3. ASSUME NEW d \in Read PROVE ReadInv(d)'
    BY <2>1, <1>b DEF ApiInv, ReadInv, MayRead
  <2>4. ASSUME NEW v \in Write PROVE WriteInv(v)'
    BY <2>1, <1>b, <1>c DEF WriteInv
  <2>5. path[w] \in Key \union {None} /\ cred[w] \in Cred
    BY <1>b
  <2>6. LoggedHonestly(w, path[w], cred[w], 409)
    BY <2>1, <1>b DEF LoggedHonestly
  <2>7. Logs'
    BY <2>5, <2>6, LoggedStep
  <2> QED BY <2>2, <2>3, <2>4, <2>7 DEF Rest
<1>6. CASE PutTakesEffect(w)
  <2>1. /\ pc[w] = "put" /\ size[w] <= MaxUpload
        /\ verdict[w] = "none" /\ verdict' = [verdict EXCEPT ![w] = "stored"]
        /\ published' = [published EXCEPT ![path[w]] = w]
        /\ changed' = changed \union
             {d \in Read : getpc[d] \in {"get", "open"} /\ wanted[d] = path[w]}
        /\ reply' = reply /\ serving' = serving
        /\ pc' = pc /\ path' = path /\ cred' = cred /\ size' = size /\ status' = status
        /\ audit' = audit
        /\ getpc' = getpc /\ wanted' = wanted /\ reader' = reader /\ length' = length
        /\ outcome' = outcome
    BY <1>6 DEF PutTakesEffect, Store!Publish
  <2>2. path[w] \in Key /\ cred[w] \in Token /\ path[w] \in CanWrite[cred[w]]
    BY <2>1, <1>c DEF WriteInv
  <2>3. published \in [Key -> Write \union {None}] /\ serving \in [Read -> Write \union {None}]
    BY DEF ApiInv, TypeOK, Store!TypeOK
  <2>4. ASSUME NEW k \in Key, published'[k] # None
        PROVE  /\ verdict'[published'[k]] = "stored" /\ path[published'[k]] = k
               /\ cred[published'[k]] \in Token /\ k \in CanWrite[cred[published'[k]]]
               /\ size[published'[k]] <= MaxUpload
    <3>1. CASE k = path[w]
      BY <3>1, <2>1, <2>2, <2>3, <1>b
    <3>2. CASE k # path[w]
      BY <3>2, <2>1, <2>3, <2>4, <1>b DEF ApiInv, PublishedInv, Authorized
    <3> QED BY <3>1, <3>2
  <2>5. PublishedInv' /\ Authorized'
    BY <2>4, <2>1 DEF ApiInv, PublishedInv, Authorized, MayRead
  <2>6. DownloadsExplained'
    BY <2>1 DEF ApiInv, DownloadsExplained
  <2>7. ASSUME NEW v \in Write PROVE WriteInv(v)'
    BY <2>1, <2>2, <1>b, <1>c DEF WriteInv
  <2>8. ASSUME NEW d \in Read PROVE ReadInv(d)'
    <3>1. ReadInv(d) /\ serving[d] \in Write \union {None}
      BY <2>3 DEF ApiInv
    <3>2. getpc[d] \in {"get", "open"} /\ d \notin changed' =>
            wanted[d] # path[w] /\ published'[wanted[d]] = published[wanted[d]]
      BY <2>1, <2>2, <2>3, <3>1 DEF ReadInv
    <3>3. d \notin changed' => d \notin changed
      BY <2>1
    <3> QED BY <2>1, <3>1, <3>2, <3>3, <1>b DEF ReadInv, MayRead
  <2>9. Logs'
    BY <2>1, <1>a, <1>b DEF ApiInv, Logs, AuditHonest, AnswersAudited
  <2> QED BY <2>5, <2>6, <2>7, <2>8, <2>9 DEF Rest
<1>7. CASE PutFindsTaken(w)
  <2>1. /\ verdict[w] = "none" /\ verdict' = [verdict EXCEPT ![w] = "refused"]
        /\ pc[w] = "put"
        /\ UNCHANGED <<now, published, reply, serving, writeVars, readVars>>
    BY <1>7, <1>b, <1>c DEF PutFindsTaken, Store!Refuse, WriteInv
  <2>2. PublishedInv' /\ Authorized' /\ DownloadsExplained'
    BY <2>1, <1>b DEF ApiInv, PublishedInv, Authorized, DownloadsExplained, ReadInv, MayRead
  <2>3. ASSUME NEW d \in Read PROVE ReadInv(d)'
    BY <2>1, <1>b DEF ApiInv, ReadInv, MayRead
  <2>4. ASSUME NEW v \in Write PROVE WriteInv(v)'
    BY <2>1, <1>b, <1>c DEF WriteInv
  <2>5. Logs'
    BY <2>1, <1>a, <1>b DEF ApiInv, Logs, AuditHonest, AnswersAudited
  <2> QED BY <2>2, <2>3, <2>4, <2>5 DEF Rest
<1>8. ASSUME NEW s \in {201, 400, 409, 503}, NEW r \in {"created", "conflict", "failed"},
             pc[w] \in {"exists", "put"},
             Store!Tell(w, r), Answer(w, s), Log(w, path[w], cred[w], s),
             UNCHANGED <<now, path, cred, size, readVars>>,
             s = 201 <=> verdict[w] = "stored" /\ s # 503,
             s = 409 => verdict[w] = "refused",
             s = 400 => verdict[w] = "none"
      PROVE  Rest' /\ Logs'
  <2>1. Answered(w, s)
    BY <1>8, <1>b DEF Answered, Store!Tell
  <2>2. path[w] \in Key \union {None} /\ cred[w] \in Cred
    BY <1>b
  <2>3. LoggedHonestly(w, path[w], cred[w], s)
    BY <1>8, <2>1 DEF Answered, LoggedHonestly
  <2> QED BY <2>1, <2>2, <2>3, AnswerStep, LoggedStep
<1>9. ASSUME NEW s \in {0, 500}, pc[w] \in {"exists", "put"}, Store!Tell(w, "failed"),
             Answer(w, s), UNCHANGED <<now, path, cred, size, audit, readVars>>
      PROVE  Rest' /\ Logs'
  <2>1. Answered(w, s) /\ audit' = audit
    BY <1>9, <1>b DEF Answered, Store!Tell
  <2> QED BY <2>1, AnswerStep, SilentStep
<1>10. CASE PutCreated(w)
  BY <1>8, <1>10 DEF PutCreated
<1>11. CASE PutConflict(w)
  BY <1>8, <1>11 DEF PutConflict
<1>12. CASE BodyTooLarge(w)
  <2>1. verdict[w] = "none"
    BY <1>12 DEF BodyTooLarge
  <2> QED BY <1>8, <1>12, <2>1 DEF BodyTooLarge
<1>13. CASE BodyCut(w)
  BY <1>9, <1>13 DEF BodyCut
<1>14. CASE WriteUnavailable(w)
  BY <1>8, <1>14 DEF WriteUnavailable
<1>15. CASE WriteError(w)
  BY <1>9, <1>15 DEF WriteError
<1> QED BY <1>1, <1>2, <1>3, <1>4, <1>5, <1>6, <1>7, <1>10, <1>11, <1>12, <1>13, <1>14, <1>15
        DEF Put

\* What the invariant says of one download.
ReadPart(d) ==
  /\ ReadInv(d)
  /\ serving[d] # None => MayRead(wanted[d], reader[d])
  /\ getpc[d] = "done" =>
       /\ outcome[d] = 200 => /\ serving[d] # None
                              /\ path[serving[d]] = wanted[d]
                              /\ length[d] = size[serving[d]]
       /\ outcome[d] = 0 => d \in changed

\* The invariant of an idle, a running and an opened download survives a step of
\* its own: only GetOpens gives it an upload to send.
LEMMA ReadPartStep ==
  ASSUME ApiInv, TypeOK', NEW d \in Read, Get(d)
  PROVE  ReadPart(d)'
<1> USE DEF ReadPart, ReadInv, MayRead
<1>a. ReadPart(d)
  BY DEF ApiInv, Authorized, DownloadsExplained
<1>b. /\ getpc \in [Read -> {"idle", "head", "get", "open", "body", "done", "told", "cut"}]
      /\ wanted \in [Read -> Key \union {None}]
      /\ reader \in [Read -> Token \union {None}]
      /\ length \in [Read -> Nat]
      /\ outcome \in [Read -> {0, 200, 400, 401, 403, 404, 500, 503}]
      /\ serving \in [Read -> Write \union {None}]
  BY DEF ApiInv, TypeOK, Store!TypeOK
<1>1. ASSUME NEW c \in Cred, ReadUnauthenticated(d, c) PROVE ReadPart(d)'
  BY <1>1, <1>a, <1>b DEF ReadUnauthenticated
<1>2. ASSUME NEW p \in Key \union {None}, NEW c \in Cred, NEW s \in {400, 401, 403, 404},
             ReadRejected(d, p, c, s)
      PROVE  ReadPart(d)'
  BY <1>2, <1>a, <1>b DEF ReadRejected
<1>3. ASSUME NEW p \in Key, NEW c \in Cred, ReadAdmitted(d, p, c) PROVE ReadPart(d)'
  BY <1>3, <1>a, <1>b DEF ReadAdmitted
<1>4. CASE HeadFound(d)
  BY <1>4, <1>a, <1>b DEF HeadFound
<1>5. CASE HeadTold(d)
  BY <1>5, <1>a, <1>b DEF HeadTold
<1>6. CASE ReadMissing(d)
  BY <1>6, <1>a, <1>b DEF ReadMissing
<1>7. CASE GetReturns(d)
  BY <1>7, <1>a, <1>b DEF GetReturns
<1>8. CASE GetOpens(d)
  BY <1>8, <1>a, <1>b DEF GetOpens, Store!Serve, ApiInv, PublishedInv
<1>9. CASE GetGone(d)
  BY <1>9, <1>a, <1>b DEF GetGone
<1>10. CASE BodySent(d)
  BY <1>10, <1>a, <1>b DEF BodySent
<1>11. CASE ReadCut(d)
  BY <1>11, <1>a, <1>b DEF ReadCut
<1>12. CASE ReadError(d)
  BY <1>12, <1>a, <1>b DEF ReadError
<1> QED BY <1>1, <1>2, <1>3, <1>4, <1>5, <1>6, <1>7, <1>8, <1>9, <1>10, <1>11, <1>12 DEF Get

\* A step of a GET or HEAD keeps the invariant: it changes nothing of the store's
\* objects, of the PUTs or of the other downloads.
LEMMA GetStep ==
  ASSUME ApiInv, TypeOK', NEW d \in Read, Get(d)
  PROVE  ApiInv'
<1>1. ReadPart(d)'
  BY ReadPartStep
<1>2. /\ published' = published /\ verdict' = verdict /\ reply' = reply
      /\ pc' = pc /\ path' = path /\ cred' = cred /\ size' = size /\ status' = status
      /\ audit' = audit /\ changed' = changed
  BY DEF Get, ReadUnauthenticated, ReadRejected, ReadAdmitted, HeadFound, HeadTold, ReadMissing,
     GetReturns, GetOpens, GetGone, BodySent, ReadCut, ReadError, Store!Serve
<1>3. ASSUME NEW e \in Read, e # d
      PROVE  /\ getpc'[e] = getpc[e] /\ wanted'[e] = wanted[e] /\ reader'[e] = reader[e]
             /\ length'[e] = length[e] /\ outcome'[e] = outcome[e] /\ serving'[e] = serving[e]
  BY <1>3 DEF ApiInv, TypeOK, Store!TypeOK, Get, ReadUnauthenticated, ReadRejected, ReadAdmitted,
     HeadFound, HeadTold, ReadMissing, GetReturns, GetOpens, GetGone, BodySent, ReadCut, ReadError,
     Store!Serve
<1>4. ASSUME NEW e \in Read PROVE ReadPart(e)'
  <2>1. CASE e # d
    BY <2>1, <1>2, <1>3 DEF ApiInv, Authorized, DownloadsExplained, ReadPart, ReadInv, MayRead
  <2> QED BY <2>1, <1>1
<1>5. PublishedInv' /\ AuditHonest' /\ AnswersAudited'
  BY <1>2 DEF ApiInv, PublishedInv, AuditHonest, AnswersAudited
<1>6. \A w \in Write : WriteInv(w)'
  BY <1>2 DEF ApiInv, WriteInv
<1>7. Authorized' /\ DownloadsExplained' /\ \A e \in Read : ReadInv(e)'
  BY <1>2, <1>4 DEF ApiInv, Authorized, DownloadsExplained, ReadPart
<1> QED BY <1>5, <1>6, <1>7 DEF ApiInv

\* So do the clock, a deletion, which the downloads that have not opened their
\* object are marked with, and a crash.
LEMMA OtherStep ==
  ASSUME ApiInv, TypeOK', Tick \/ (\E k \in Key : Delete(k)) \/ Crash
  PROVE  ApiInv'
<1>a. /\ published \in [Key -> Write \union {None}]
      /\ serving \in [Read -> Write \union {None}]
      /\ pc \in [Write -> {"idle", "exists", "put", "done"}]
      /\ getpc \in [Read -> {"idle", "head", "get", "open", "body", "done", "told", "cut"}]
      /\ reply \in [Write -> {"none", "created", "conflict", "failed"}]
      /\ status \in [Write -> {0, 201, 400, 401, 403, 404, 409, 500, 503}]
  BY DEF ApiInv, TypeOK, Store!TypeOK, Store!Replies
<1>1. CASE Tick
  BY <1>1 DEF ApiInv, Tick, PublishedInv, Authorized, AuditHonest, AnswersAudited,
     DownloadsExplained, WriteInv, ReadInv, MayRead
<1>2. ASSUME NEW k \in Key, Delete(k) PROVE ApiInv'
  <2>1. /\ published' = [published EXCEPT ![k] = None]
        /\ verdict' = verdict /\ reply' = reply /\ serving' = serving
        /\ pc' = pc /\ path' = path /\ cred' = cred /\ size' = size /\ status' = status
        /\ audit' = audit
        /\ getpc' = getpc /\ wanted' = wanted /\ reader' = reader /\ length' = length
        /\ outcome' = outcome
        /\ changed' = changed \union {d \in Read : getpc[d] \in {"get", "open"} /\ wanted[d] = k}
    BY <1>2 DEF Delete, Store!Withdraw
  <2>2. \A j \in Key : published'[j] # None => published'[j] = published[j]
    BY <2>1, <1>a
  <2>3. PublishedInv' /\ Authorized' /\ AuditHonest' /\ AnswersAudited' /\ DownloadsExplained'
    BY <2>1, <2>2 DEF ApiInv, PublishedInv, Authorized, AuditHonest, AnswersAudited,
       DownloadsExplained, MayRead
  <2>4. ASSUME NEW w \in Write PROVE WriteInv(w)'
    BY <2>1 DEF ApiInv, WriteInv
  <2>5. ASSUME NEW d \in Read PROVE ReadInv(d)'
    <3>1. ReadInv(d)
      BY DEF ApiInv
    <3>2. d \notin changed' /\ getpc[d] \in {"get", "open"} =>
            d \notin changed /\ wanted[d] # k /\ published'[wanted[d]] = published[wanted[d]]
      BY <2>1, <3>1, <1>a DEF ReadInv
    <3>3. d \notin changed' => d \notin changed
      BY <2>1
    <3> QED BY <2>1, <3>1, <3>2, <3>3 DEF ReadInv, MayRead
  <2> QED BY <2>3, <2>4, <2>5 DEF ApiInv
<1>3. CASE Crash
  <2>1. /\ published' = published /\ verdict' = verdict /\ serving' = serving
        /\ path' = path /\ cred' = cred /\ size' = size /\ status' = status /\ audit' = audit
        /\ wanted' = wanted /\ reader' = reader /\ length' = length /\ outcome' = outcome
        /\ changed' = changed
        /\ pc' = [w \in Write |-> IF InFlight(w) THEN "done" ELSE pc[w]]
        /\ getpc' = [d \in Read |-> IF Reading(d) THEN "cut" ELSE getpc[d]]
        /\ reply' = [w \in Write |-> IF w \in {v \in Write : InFlight(v)} THEN "failed" ELSE reply[w]]
    BY <1>3 DEF Crash, Store!Drop
  <2>2. ASSUME NEW d \in Read PROVE ReadPart(d)'
    <3>1. ReadPart(d)
      BY DEF ApiInv, ReadPart, Authorized, DownloadsExplained
    <3>2. getpc'[d] = IF Reading(d) THEN "cut" ELSE getpc[d]
      BY <2>1
    <3> QED BY <2>1, <3>1, <3>2 DEF ReadPart, ReadInv, MayRead
  <2>3. ASSUME NEW w \in Write PROVE WriteInv(w)'
    BY <2>1, <1>a DEF ApiInv, WriteInv
  <2>4. AuditHonest'
    <3>1. \A l \in audit : l.write \in Write
      BY DEF ApiInv, TypeOK, Line
    <3> QED BY <2>1, <3>1, <1>a DEF ApiInv, AuditHonest
  <2>5. PublishedInv' /\ Authorized' /\ DownloadsExplained'
    BY <2>1, <2>2 DEF ApiInv, PublishedInv, Authorized, DownloadsExplained, ReadPart, MayRead
  <2>6. AnswersAudited'
    BY <2>1, <1>a DEF ApiInv, AnswersAudited, WriteInv
  <2> QED BY <2>2, <2>3, <2>4, <2>5, <2>6 DEF ApiInv, ReadPart
<1> QED BY <1>1, <1>2, <1>3

\* ApiInv is inductive: it holds of every reachable state, for any repositories,
\* tokens and requests.
THEOREM ApiInvariant == Spec => []ApiInv
<1>1. Init => ApiInv
  <2> SUFFICES ASSUME Init PROVE ApiInv
    OBVIOUS
  <2>1. TypeOK
    BY DEF Init, TypeOK, Store!Init, Store!TypeOK, Store!Verdicts, Store!Replies
  <2>2. PublishedInv /\ Authorized /\ AuditHonest /\ AnswersAudited /\ DownloadsExplained
    BY DEF Init, Store!Init, PublishedInv, Authorized, AuditHonest, AnswersAudited,
       DownloadsExplained
  <2>3. \A w \in Write : WriteInv(w)
    BY DEF Init, Store!Init, WriteInv
  <2>4. \A d \in Read : ReadInv(d)
    BY DEF Init, Store!Init, ReadInv
  <2> QED BY <2>1, <2>2, <2>3, <2>4 DEF ApiInv
<1>2. ApiInv /\ [Next]_vars => ApiInv'
  <2> SUFFICES ASSUME ApiInv, [Next]_vars PROVE ApiInv'
    OBVIOUS
  <2>1. ASSUME NEW w \in Write, Put(w) PROVE ApiInv'
    BY <2>1, PutTypes, PutStep
  <2>2. ASSUME NEW d \in Read, Get(d) PROVE ApiInv'
    BY <2>2, GetTypes, GetStep
  <2>3. CASE Tick \/ (\E k \in Key : Delete(k)) \/ Crash
    BY <2>3, OtherTypes, OtherStep
  <2>4. CASE UNCHANGED vars
    BY <2>4 DEF vars, ApiInv, TypeOK, Store!TypeOK, PublishedInv, Authorized, AuditHonest,
       AnswersAudited, DownloadsExplained, WriteInv, ReadInv, MayRead
  <2> QED BY <2>1, <2>2, <2>3, <2>4 DEF Next
<1> QED BY <1>1, <1>2, PTL DEF Spec

\* Every variable keeps its type.
THEOREM TypeCorrect == Spec => []TypeOK
<1>1. ApiInv => TypeOK
  BY DEF ApiInv
<1> QED BY <1>1, ApiInvariant, PTL

\* Nothing is stored or served without the permission of _authenticate_write or
\* _authenticate_read, nor stored above max_upload_bytes, whatever is admitted,
\* deleted or lost while a body is on its way.
THEOREM AuthorizedHolds == Spec => []Authorized
<1>1. ApiInv => Authorized
  BY DEF ApiInv
<1> QED BY <1>1, ApiInvariant, PTL

\* The audit lines of put_artifact tell what the store did.
THEOREM AuditHonestHolds == Spec => []AuditHonest
<1>1. ApiInv => AuditHonest
  BY DEF ApiInv
<1> QED BY <1>1, ApiInvariant, PTL

\* put_artifact answers nothing by itself without a line.
THEOREM AnswersAuditedHolds == Spec => []AnswersAudited
<1>1. ApiInv => AnswersAudited
  BY DEF ApiInv
<1> QED BY <1>1, ApiInvariant, PTL

\* A download that completes is one whole upload of the announced length, and one
\* that breaks off on its own has met a change between head and open.
THEOREM DownloadsExplainedHolds == Spec => []DownloadsExplained
<1>1. ApiInv => DownloadsExplained
  BY DEF ApiInv
<1> QED BY <1>1, ApiInvariant, PTL

-----------------------------------------------------------------------------
(* What clients were told *)

\* The statuses of a request that is refused.
Rejecting == {400, 401, 403, 404, 409}

RejectedNotStored == \A w \in Write : status[w] \in Rejecting => verdict[w] # "stored"

\* A PUT is answered once, with a rejection only if nothing of it is stored, and
\* what its store does afterwards is nothing.
LEMMA RejectingStep ==
  ASSUME ApiInv, TypeOK', NEW w \in Write, Put(w), NEW v \in Write,
         status[v] \in Rejecting => verdict[v] # "stored"
  PROVE  status'[v] \in Rejecting => verdict'[v] # "stored"
<1> DEFINE Goal == status'[v] \in Rejecting => verdict'[v] # "stored"
<1> USE DEF ApiInv, TypeOK, WriteInv, Store!TypeOK, Store!Verdicts, Store!Replies, Rejecting
<1>1. ASSUME NEW c \in Cred, WriteUnauthenticated(w, c) PROVE Goal
  BY <1>1 DEF WriteUnauthenticated, Store!Tell
<1>2. ASSUME NEW p \in Key \union {None}, NEW c \in Cred, NEW n \in Length,
             NEW s \in {400, 401, 403, 404}, WriteRejected(w, p, c, n, s)
      PROVE  Goal
  BY <1>2 DEF WriteRejected, Store!Tell
<1>3. ASSUME NEW p \in Key, NEW c \in Cred, NEW n \in Length, WriteAdmitted(w, p, c, n)
      PROVE  Goal
  BY <1>3 DEF WriteAdmitted
<1>4. CASE ExistsPasses(w)
  BY <1>4 DEF ExistsPasses
<1>5. CASE ExistsTaken(w)
  BY <1>5 DEF ExistsTaken, Store!Refuse
<1>6. CASE PutTakesEffect(w) \/ PutFindsTaken(w)
  BY <1>6 DEF PutTakesEffect, PutFindsTaken, Store!Publish, Store!Refuse
<1>7. CASE PutCreated(w)
  BY <1>7 DEF PutCreated, Store!Tell
<1>8. CASE PutConflict(w)
  BY <1>8 DEF PutConflict, Store!Tell
<1>9. CASE BodyTooLarge(w)
  BY <1>9 DEF BodyTooLarge, Store!Tell
<1>10. CASE BodyCut(w)
  BY <1>10 DEF BodyCut, Store!Tell
<1>11. CASE WriteUnavailable(w) \/ WriteError(w)
  BY <1>11 DEF WriteUnavailable, WriteError, Store!Tell
<1> QED BY <1>1, <1>2, <1>3, <1>4, <1>5, <1>6, <1>7, <1>8, <1>9, <1>10, <1>11 DEF Put

\* RejectedNotStored is an invariant: a write on its way to a refusal without the
\* store has stored nothing.
LEMMA RejectedNotStoredHolds == Spec => []RejectedNotStored
<1>1. Init => RejectedNotStored
  BY DEF Init, RejectedNotStored, Rejecting
<1>2. ApiInv /\ ApiInv' /\ RejectedNotStored /\ [Next]_vars => RejectedNotStored'
  <2> SUFFICES ASSUME ApiInv, ApiInv', RejectedNotStored, [Next]_vars PROVE RejectedNotStored'
    OBVIOUS
  <2>1. ASSUME NEW w \in Write, Put(w) PROVE RejectedNotStored'
    BY <2>1, RejectingStep DEF ApiInv, RejectedNotStored
  <2>2. ASSUME Tick \/ (\E d \in Read : Get(d)) \/ (\E k \in Key : Delete(k)) \/ Crash
               \/ UNCHANGED vars
        PROVE  UNCHANGED <<status, verdict>>
    BY <2>2 DEF Tick, Delete, Store!Withdraw, Crash, Store!Drop, vars, Get, ReadUnauthenticated,
       ReadRejected, ReadAdmitted, HeadFound, HeadTold, ReadMissing, GetReturns, GetOpens,
       Store!Serve, GetGone, BodySent, ReadCut, ReadError
  <2> QED BY <2>1, <2>2 DEF Next, RejectedNotStored
<1> QED BY <1>1, <1>2, ApiInvariant, PTL DEF Spec

\* A client that is told 400, 401, 403, 404 or 409 has left no bytes behind.
THEOREM RejectedUnseenHolds == Spec => []RejectedUnseen
<1>1. ApiInv /\ RejectedNotStored => RejectedUnseen
  BY DEF ApiInv, PublishedInv, ReadInv, TypeOK, Store!TypeOK, RejectedUnseen, RejectedNotStored,
     Rejecting
<1> QED BY <1>1, RejectedNotStoredHolds, ApiInvariant, PTL

-----------------------------------------------------------------------------
(* The gateway and its store *)

\* What a step of a PUT does to the store.
LEMMA PutRefines ==
  ASSUME ApiInv, NEW w \in Write, Put(w)
  PROVE  [Store!Next]_(Store!vars)
<1> DEFINE Goal == [Store!Next]_(Store!vars)
<1>1. ASSUME NEW r \in Store!Replies \ {"none"}, Store!Tell(w, r) PROVE Goal
  BY <1>1 DEF Store!Next
<1>2. ASSUME UNCHANGED storeVars PROVE Goal
  BY <1>2 DEF Store!vars
<1>3. CASE pc[w] \notin {"exists", "put"}
  <2>1. UNCHANGED storeVars \/ Store!Tell(w, "failed")
    BY <1>3 DEF Put, WriteUnauthenticated, WriteRejected, WriteAdmitted, ExistsPasses, ExistsTaken,
       PutTakesEffect, PutFindsTaken, PutCreated, PutConflict, BodyTooLarge, BodyCut,
       WriteUnavailable, WriteError
  <2> QED BY <1>1, <1>2, <2>1 DEF Store!Replies
<1>4. CASE pc[w] \in {"exists", "put"}
  <2>1. PICK k \in Key : k = path[w]
    BY <1>4 DEF ApiInv, WriteInv
  <2>2. ASSUME Store!Publish(w, k) \/ Store!Refuse(w, k) PROVE Goal
    BY <2>2 DEF Store!Next
  <2>3. \/ UNCHANGED storeVars
        \/ \E r \in {"created", "conflict", "failed"} : Store!Tell(w, r)
        \/ Store!Publish(w, k) \/ Store!Refuse(w, k)
    BY <1>4, <2>1 DEF Put, WriteUnauthenticated, WriteRejected, WriteAdmitted, ExistsPasses,
       ExistsTaken, PutTakesEffect, PutFindsTaken, PutCreated, PutConflict, BodyTooLarge, BodyCut,
       WriteUnavailable, WriteError
  <2> QED BY <1>1, <1>2, <2>2, <2>3 DEF Store!Replies
<1> QED BY <1>3, <1>4

\* What the other steps do to it.
LEMMA OthersRefine ==
  ASSUME ApiInv, Tick \/ (\E d \in Read : Get(d)) \/ (\E k \in Key : Delete(k)) \/ Crash
  PROVE  [Store!Next]_(Store!vars)
<1>1. CASE Tick
  BY <1>1 DEF Tick, Store!vars
<1>2. ASSUME NEW d \in Read, GetOpens(d) PROVE Store!Next
  <2>1. PICK k \in Key : k = wanted[d]
    BY <1>2 DEF ApiInv, ReadInv, GetOpens
  <2> QED BY <1>2, <2>1 DEF GetOpens, Store!Next
<1>3. ASSUME NEW d \in Read, Get(d), ~GetOpens(d) PROVE UNCHANGED Store!vars
  BY <1>3 DEF Store!vars, Get, ReadUnauthenticated, ReadRejected, ReadAdmitted, HeadFound, HeadTold,
     ReadMissing, GetReturns, GetGone, BodySent, ReadCut, ReadError
<1>4. ASSUME NEW k \in Key, Delete(k) PROVE Store!Next
  BY <1>4 DEF Delete, Store!Next
<1>5. CASE Crash
  BY <1>5 DEF Crash, Store!Next
<1> QED BY <1>1, <1>2, <1>3, <1>4, <1>5

\* By the way the actions are written: each takes one step of the store or leaves it alone,
\* so what is true of every ArtifactRepository is true of the one below the gateway.
LEMMA StoreSteps == Spec => Store!Spec
<1>1. Init => Store!Init
  BY DEF Init
<1>2. ApiInv /\ [Next]_vars => [Store!Next]_(Store!vars)
  <2> SUFFICES ASSUME ApiInv, [Next]_vars PROVE [Store!Next]_(Store!vars)
    OBVIOUS
  <2>1. CASE Next
    BY <2>1, PutRefines, OthersRefine DEF Next
  <2>2. CASE UNCHANGED vars
    BY <2>2 DEF vars, Store!vars
  <2> QED BY <2>1, <2>2
<1> QED BY <1>1, <1>2, ApiInvariant, PTL DEF Spec, Store!Spec

Proved == INSTANCE ArtifactRepository_proofs WITH Upload <- Write, Download <- Read

\* What ArtifactRepository_proofs says of the abstract store is true of the one
\* below the gateway.
LEMMA StorePromises == Store!Spec => Store!Promises
<1> USE DEF Store!Next, Proved!Next, Store!vars, Proved!vars, Store!Publish, Proved!Publish,
        Store!Refuse, Proved!Refuse, Store!Tell, Proved!Tell, Store!PublishAndTell,
        Proved!PublishAndTell, Store!Drop, Proved!Drop, Store!Withdraw, Proved!Withdraw,
        Store!Serve, Proved!Serve, Store!Replies, Proved!Replies
<1>1. Store!Init => Proved!Init
  BY DEF Store!Init, Proved!Init
<1>2. [Store!Next]_(Store!vars) => [Proved!Next]_(Proved!vars)
  OBVIOUS
<1>3. Store!Spec => Proved!Spec
  BY <1>1, <1>2, PTL DEF Store!Spec, Proved!Spec
<1>4. Proved!Promises => Store!Promises
  BY DEF Proved!Promises, Store!Promises, Proved!AnswersTrue, Store!AnswersTrue,
     Proved!FirstStands, Store!FirstStands, Proved!EffectOnce, Store!EffectOnce,
     Proved!NothingTakenBack, Store!NothingTakenBack
<1> QED BY <1>3, <1>4, Proved!PromisesKept

\* So no client of the gateway replaces a release, sees an upload appear twice or
\* has an answer or a download changed under it.
THEOREM PromisesKept == Spec => Store!Promises
BY StoreSteps, StorePromises, PTL

\* StoredIsAudited fails in one way only: when the store raised what put_artifact
\* does not catch.
THEOREM StoredIsAuditedUnlessFailedHolds == Spec => []StoredIsAuditedUnlessFailed
<1>1. ASSUME ApiInv, RejectedNotStored PROVE StoredIsAuditedUnlessFailed
  <2> SUFFICES ASSUME NEW w \in Write, verdict[w] = "stored", pc[w] = "done",
                      status[w] \notin {0, 500}
               PROVE  \E l \in audit : l.write = w /\ l.path = path[w] /\ l.principal = cred[w]
    BY DEF StoredIsAuditedUnlessFailed
  <2>1. status[w] \in {201, 503}
    BY <1>1 DEF RejectedNotStored, Rejecting, ApiInv, TypeOK
  <2>2. PICK l \in audit : l.write = w /\ l.status = status[w]
    BY <1>1, <2>1 DEF ApiInv, AnswersAudited
  <2>3. l.path = path[w] /\ l.principal = cred[w]
    BY <1>1, <2>2 DEF ApiInv, AuditHonest
  <2> QED BY <2>2, <2>3
<1>2. ApiInv /\ RejectedNotStored => StoredIsAuditedUnlessFailed
  BY <1>1
<1> QED BY <1>2, RejectedNotStoredHolds, ApiInvariant, PTL
=================================================================================
