---------------------------- MODULE Dashboard_proofs ----------------------------
(***************************************************************************)
(* BulkDelete for any keys, prefixes and requests, any page size and any   *)
(* cap; Dashboard for any repository, any page sizes and any requests; and *)
(* the order of versions of any number of parts.                           *)
(***************************************************************************)
EXTENDS Dashboard, TLAPS, FiniteSetTheorems, WellFoundedInduction

-----------------------------------------------------------------------------
(* Deletions *)

USE DEF loopVars, listVars, logVars, Goto, Respond

\* A step of a request keeps every variable of its type.
LEMMA ProceedTypes ==
  ASSUME TypeOK, \A p \in Request : RequestInv(p), NEW q \in Request, Proceed(q)
  PROVE  TypeOK'
<1> USE KeyAssumption, ScopesAssumption, PagesAssumption DEF TypeOK
<1>1. CASE NextScope(q)
  BY <1>1 DEF NextScope
<1>2. CASE Finish(q)
  BY <1>2 DEF Finish
<1>3. CASE ListMore(q)
  <2>1. PICK P \in SUBSET Rest(q) :
          /\ keys' = [keys EXCEPT ![q] = @ \union P]
          /\ \E k \in P : cursor' = [cursor EXCEPT ![q] = k]
    BY <1>3 DEF ListMore
  <2>2. P \subseteq Key
    BY DEF Rest
  <2>3. pages[q] + 1 \in 0..MaxPages - 1
    BY <1>3 DEF ListMore
  <2>4. /\ pages' = [pages EXCEPT ![q] = pages[q] + 1]
        /\ UNCHANGED <<present, pc, asked, todo, scope, queue, audited, answer, removed, stayed,
                       truncated>>
    BY <1>3 DEF ListMore
  <2>5. PICK k \in P : cursor' = [cursor EXCEPT ![q] = k]
    BY <2>1
  <2>6. cursor' \in [Request -> Key \union {0}]
    BY <2>2, <2>5
  <2>7. keys' \in [Request -> SUBSET Key]
    BY <2>1, <2>2
  <2> QED BY <2>3, <2>4, <2>6, <2>7
<1>4. CASE ListLast(q)
  <2>1. PICK P \in SUBSET Rest(q) :
          /\ truncated' = [truncated EXCEPT ![q] = P # Rest(q)]
          /\ keys' = [keys EXCEPT ![q] = @ \union P]
          /\ queue' = [queue EXCEPT ![q] = keys[q] \union P]
    BY <1>4 DEF ListLast
  <2>2. P \subseteq Key
    BY DEF Rest
  <2>3. (P # Rest(q)) \in BOOLEAN
    OBVIOUS
  <2> QED BY <1>4, <2>1, <2>2, <2>3 DEF ListLast
<1>5. CASE ListNone(q)
  BY <1>5 DEF ListNone
<1>6. ASSUME NEW k \in Key, Remove(q, k) PROVE TypeOK'
  BY <1>6 DEF Remove
<1>7. CASE Audit(q)
  BY <1>7 DEF Audit
<1> QED BY <1>1, <1>2, <1>3, <1>4, <1>5, <1>6, <1>7 DEF Proceed

\* So do the other steps.
LEMMA OtherTypes ==
  ASSUME TypeOK,
         \/ \E q \in Request : (\E V \in SUBSET Scope : Begin(q, V)) \/ Fault(q)
         \/ \E k \in Key : Upload(k) \/ Delete(k)
  PROVE  TypeOK'
<1> USE DEF TypeOK
<1>1. ASSUME NEW q \in Request, NEW V \in SUBSET Scope, Begin(q, V) PROVE TypeOK'
  BY <1>1 DEF Begin
<1>2. ASSUME NEW q \in Request, Fault(q) PROVE TypeOK'
  BY <1>2 DEF Fault
<1>3. ASSUME NEW k \in Key, Upload(k) PROVE TypeOK'
  BY <1>3 DEF Upload
<1>4. ASSUME NEW k \in Key, Delete(k) PROVE TypeOK'
  BY <1>4 DEF Delete
<1> QED BY <1>1, <1>2, <1>3, <1>4

\* After one more page, every key up to the cursor that has been there all along is
\* among the listed ones: the page is the least part of the rest.
LEMMA ListMoreInv ==
  ASSUME BulkInv, NEW q \in Request, ListMore(q)
  PROVE  RequestInv(q)'
<1>1. /\ pc[q] = "list"
      /\ UNCHANGED <<present, pc, asked, todo, scope, queue, audited, answer, removed, stayed,
                     truncated>>
  BY DEF ListMore
<1>2. PICK P \in SUBSET Rest(q) :
        /\ \A x \in P, y \in Rest(q) \ P : x < y
        /\ keys' = [keys EXCEPT ![q] = @ \union P]
        /\ \E k \in P : cursor' = [cursor EXCEPT ![q] = k]
  BY DEF ListMore, IsPage
<1>3. PICK m \in P : cursor' = [cursor EXCEPT ![q] = m]
  BY <1>2
<1>4. keys'[q] = keys[q] \union P /\ cursor'[q] = m
  BY <1>2, <1>3 DEF BulkInv, TypeOK
<1>5. /\ RequestInv(q)
      /\ keys[q] \subseteq Matches[scope[q]]
      /\ stayed[q] \subseteq Matches[scope[q]] /\ stayed[q] \subseteq present
      /\ \A k \in stayed[q] : k <= cursor[q] => k \in keys[q]
  BY <1>1 DEF BulkInv, RequestInv
<1>6. present \subseteq Nat /\ cursor[q] \in Nat
  <2>1. present \subseteq Key /\ cursor \in [Request -> Key \union {0}]
    BY DEF BulkInv, TypeOK
  <2>2. cursor[q] \in Key \union {0}
    BY <2>1
  <2>3. \A k \in Key : k \in Nat
    BY KeyAssumption
  <2>4. cursor[q] \in Nat
    BY <2>2, <2>3
  <2> QED BY <2>1, <2>3, <2>4
<1>7. keys'[q] \subseteq Matches[scope[q]]
  BY <1>2, <1>4, <1>5 DEF Rest
<1>8. ASSUME NEW k \in stayed[q], k <= m PROVE k \in keys[q] \union P
  <2>1. CASE k <= cursor[q]
    BY <1>5, <2>1
  <2>2. CASE ~(k <= cursor[q])
    <3>1. k \in Rest(q)
      <4>1. k \in Matches[scope[q]] /\ k \in present
        BY <1>5
      <4>2. k > cursor[q]
        BY <1>6, <2>2, <4>1
      <4> QED BY <4>1, <4>2 DEF Rest
    <3>2. m \in Nat /\ k \in Nat
      BY <1>6, <3>1 DEF Rest
    <3> QED BY <1>2, <1>8, <3>1, <3>2
  <2> QED BY <2>1, <2>2
<1> QED BY <1>1, <1>4, <1>5, <1>7, <1>8 DEF RequestInv

\* After the last page of a listing that was not cut off, all of them are.
LEMMA ListLastInv ==
  ASSUME BulkInv, NEW q \in Request, ListLast(q)
  PROVE  RequestInv(q)'
<1>1. /\ pc[q] = "list"
      /\ pc' = [pc EXCEPT ![q] = "delete"]
      /\ UNCHANGED <<present, asked, todo, scope, cursor, audited, answer, removed, stayed>>
  BY DEF ListLast
<1>2. PICK P \in SUBSET Rest(q) :
        /\ truncated' = [truncated EXCEPT ![q] = P # Rest(q)]
        /\ keys' = [keys EXCEPT ![q] = @ \union P]
        /\ queue' = [queue EXCEPT ![q] = keys[q] \union P]
  BY DEF ListLast
<1>3. /\ pc'[q] = "delete"
      /\ truncated'[q] = (P # Rest(q))
      /\ keys'[q] = keys[q] \union P
      /\ queue'[q] = keys[q] \union P
  BY <1>1, <1>2 DEF BulkInv, TypeOK
<1>4. /\ RequestInv(q)
      /\ keys[q] \subseteq Matches[scope[q]] /\ scope[q] \in asked[q]
      /\ stayed[q] \subseteq Matches[scope[q]] /\ stayed[q] \subseteq present
      /\ removed[q] \subseteq audited[q]
      /\ \A k \in stayed[q] : k <= cursor[q] => k \in keys[q]
  BY <1>1 DEF BulkInv, RequestInv
<1>5. present \subseteq Nat /\ cursor[q] \in Nat
  <2>1. present \subseteq Key /\ cursor \in [Request -> Key \union {0}]
    BY DEF BulkInv, TypeOK
  <2>2. cursor[q] \in Key \union {0}
    BY <2>1
  <2>3. \A k \in Key : k \in Nat
    BY KeyAssumption
  <2>4. cursor[q] \in Nat
    BY <2>2, <2>3
  <2> QED BY <2>1, <2>3, <2>4
<1>6. keys'[q] \subseteq Matches[scope[q]]
  BY <1>2, <1>3, <1>4 DEF Rest
<1>7. \A k \in stayed[q] : k > cursor[q] => k \in Rest(q)
  BY <1>4, <1>5 DEF Rest
<1>8. ASSUME NEW k \in stayed[q] PROVE k \in keys[q] \union Rest(q)
  <2>1. k \in Nat
    BY <1>4, <1>5
  <2>2. k <= cursor[q] \/ k > cursor[q]
    BY <1>5, <2>1
  <2> QED BY <1>4, <1>7, <2>2
<1>9. ~truncated'[q] => stayed[q] \subseteq queue'[q]
  BY <1>3, <1>8
<1> QED BY <1>1, <1>3, <1>4, <1>6, <1>9 DEF RequestInv

\* A request's own step keeps what the invariant says of it.
LEMMA ProceedInv ==
  ASSUME BulkInv, TypeOK', NEW q \in Request, Proceed(q)
  PROVE  RequestInv(q)'
<1> USE KeyAssumption, ScopesAssumption DEF BulkInv, TypeOK, RequestInv
<1>1. CASE NextScope(q)
  <2>1. PICK v \in todo[q] :
          /\ scope' = [scope EXCEPT ![q] = v]
          /\ todo' = [todo EXCEPT ![q] = @ \ {v}]
          /\ stayed' = [stayed EXCEPT ![q] = Matches[v] \intersect present]
    BY <1>1 DEF NextScope
  <2>2. \A k \in Key : ~(k <= 0)
    BY KeyAssumption
  <2> QED BY <1>1, <2>1, <2>2 DEF NextScope
<1>2. CASE Finish(q)
  BY <1>2 DEF Finish
<1>3. CASE ListMore(q)
  BY <1>3, ListMoreInv
<1>4. CASE ListLast(q)
  BY <1>4, ListLastInv
<1>5. CASE ListNone(q)
  BY <1>5 DEF ListNone
<1>6. ASSUME NEW k \in Key, Remove(q, k) PROVE RequestInv(q)'
  <2>1. k \in keys[q] /\ k \in Matches[scope[q]] /\ scope[q] \in asked[q]
    BY <1>6 DEF Remove
  <2>2. removed'[q] \subseteq removed[q] \union {k}
    BY <1>6 DEF Remove
  <2>3. removed'[q] \subseteq UNION {Matches[v] : v \in asked'[q]}
    BY <1>6, <2>1, <2>2 DEF Remove
  <2>4. removed'[q] \subseteq audited'[q] \union keys'[q]
    BY <1>6, <2>1, <2>2 DEF Remove
  <2> QED BY <1>6, <2>1, <2>3, <2>4 DEF Remove
<1>7. CASE Audit(q)
  BY <1>7 DEF Audit
<1> QED BY <1>1, <1>2, <1>3, <1>4, <1>5, <1>6, <1>7 DEF Proceed

\* Whatever another request, an upload or a deletion does leaves it alone.
LEMMA OthersInv ==
  ASSUME BulkInv, NEW q \in Request,
         \/ \E p \in Request \ {q} : Proceed(p)
         \/ \E p \in Request : (\E V \in SUBSET Scope : Begin(p, V)) \/ Fault(p)
         \/ \E k \in Key : Upload(k) \/ Delete(k)
  PROVE  RequestInv(q)'
<1> USE DEF BulkInv, TypeOK, RequestInv
<1>1. ASSUME NEW p \in Request \ {q}, Proceed(p) PROVE RequestInv(q)'
  <2>1. CASE NextScope(p)
    <3>1. PICK v \in todo[p] :
            /\ scope' = [scope EXCEPT ![p] = v]
            /\ todo' = [todo EXCEPT ![p] = @ \ {v}]
            /\ stayed' = [stayed EXCEPT ![p] = Matches[v] \intersect present]
      BY <2>1 DEF NextScope
    <3>2. /\ cursor' = [cursor EXCEPT ![p] = 0]
          /\ keys' = [keys EXCEPT ![p] = {}]
          /\ truncated' = [truncated EXCEPT ![p] = FALSE]
          /\ pc' = [pc EXCEPT ![p] = "list"]
          /\ UNCHANGED <<present, asked, queue, audited, answer, removed>>
      BY <2>1 DEF NextScope
    <3>3. scope'[q] = scope[q] /\ todo'[q] = todo[q] /\ stayed'[q] = stayed[q]
      BY <1>1, <3>1
    <3>4. /\ cursor'[q] = cursor[q] /\ keys'[q] = keys[q]
          /\ truncated'[q] = truncated[q] /\ pc'[q] = pc[q]
      BY <1>1, <3>2
    <3> QED BY <3>2, <3>3, <3>4
  <2>2. CASE Finish(p)
    BY <1>1, <2>2 DEF Finish
  <2>3. CASE ListMore(p)
    <3>1. keys'[q] = keys[q] /\ cursor'[q] = cursor[q]
      BY <1>1, <2>3 DEF ListMore
    <3>2. UNCHANGED <<present, pc, asked, todo, scope, queue, audited, answer, removed,
                      stayed, truncated>>
      BY <2>3 DEF ListMore
    <3> QED BY <3>1, <3>2
  <2>4. CASE ListLast(p)
    <3>1. /\ keys'[q] = keys[q] /\ queue'[q] = queue[q] /\ pc'[q] = pc[q]
          /\ truncated'[q] = truncated[q]
      BY <1>1, <2>4 DEF ListLast
    <3>2. UNCHANGED <<present, asked, todo, scope, cursor, audited, answer, removed, stayed>>
      BY <2>4 DEF ListLast
    <3> QED BY <3>1, <3>2
  <2>5. CASE ListNone(p)
    BY <1>1, <2>5 DEF ListNone
  <2>6. ASSUME NEW k \in Key, Remove(p, k) PROVE RequestInv(q)'
    <3>1. /\ queue'[q] = queue[q] /\ removed'[q] = removed[q]
          /\ stayed'[q] = stayed[q] \ {k} /\ present' = present \ {k}
      BY <1>1, <2>6 DEF Remove
    <3>2. UNCHANGED <<pc, asked, todo, scope, cursor, keys, truncated, audited, answer>>
      BY <2>6 DEF Remove
    <3>3. k \in stayed[q] /\ pc[q] = "delete" => stayed'[q] \subseteq stayed[q]
      BY <3>1
    <3> QED BY <3>1, <3>2
  <2>7. CASE Audit(p)
    BY <1>1, <2>7 DEF Audit
  <2> QED BY <1>1, <2>1, <2>2, <2>3, <2>4, <2>5, <2>6, <2>7 DEF Proceed
<1>2. ASSUME NEW p \in Request, NEW V \in SUBSET Scope, Begin(p, V) PROVE RequestInv(q)'
  <2>1. /\ pc[p] = "idle" /\ pc' = [pc EXCEPT ![p] = "next"]
        /\ asked' = [asked EXCEPT ![p] = V] /\ todo' = [todo EXCEPT ![p] = V]
        /\ UNCHANGED <<present, scope, cursor, keys, truncated, queue, audited, answer, removed,
                       stayed>>
    BY <1>2 DEF Begin
  <2>2. CASE p # q
    BY <2>1, <2>2
  <2>3. CASE p = q
    <3>1. pc'[q] = "next" /\ asked'[q] = V /\ todo'[q] = V
      BY <2>1, <2>3
    <3>2. removed[q] = {} /\ answer[q] = "none"
      BY <2>1, <2>3
    <3> QED BY <2>1, <3>1, <3>2
  <2> QED BY <2>2, <2>3
<1>3. ASSUME NEW p \in Request, Fault(p) PROVE RequestInv(q)'
  BY <1>3 DEF Fault
<1>4. ASSUME NEW k \in Key, Upload(k) PROVE RequestInv(q)'
  BY <1>4 DEF Upload
<1>5. ASSUME NEW k \in Key, Delete(k) PROVE RequestInv(q)'
  BY <1>5 DEF Delete
<1> QED BY <1>1, <1>2, <1>3, <1>4, <1>5

\* An answer is given once, by Finish, when every key removed is in the audit log.
LEMMA AnswersStep ==
  ASSUME BulkInv, Next
  PROVE  AnswersHonest'
<1> USE DEF BulkInv, TypeOK, RequestInv, AnswersHonest
<1>1. ASSUME NEW q \in Request, Proceed(q) PROVE AnswersHonest'
  BY <1>1 DEF Proceed, NextScope, Finish, ListMore, ListLast, ListNone, Remove, Audit
<1>2. ASSUME NEW q \in Request, NEW V \in SUBSET Scope, Begin(q, V) PROVE AnswersHonest'
  BY <1>2 DEF Begin
<1>3. ASSUME NEW q \in Request, Fault(q) PROVE AnswersHonest'
  BY <1>3 DEF Fault
<1>4. ASSUME NEW k \in Key, Upload(k) \/ Delete(k) PROVE AnswersHonest'
  BY <1>4 DEF Upload, Delete
<1> QED BY <1>1, <1>2, <1>3, <1>4 DEF Next

\* Every step keeps the invariant.
LEMMA BulkStep ==
  ASSUME BulkInv, [Next]_vars
  PROVE  BulkInv'
<1>1. CASE Next
  <2>1. TypeOK'
    BY <1>1, ProceedTypes, OtherTypes DEF Next, BulkInv
  <2>2. ASSUME NEW q \in Request PROVE RequestInv(q)'
    BY <1>1, <2>1, ProceedInv, OthersInv DEF Next
  <2> QED BY <1>1, <2>1, <2>2, AnswersStep DEF BulkInv
<1>2. CASE UNCHANGED vars
  BY <1>2 DEF vars, BulkInv, TypeOK, AnswersHonest, RequestInv
<1> QED BY <1>1, <1>2

\* So do the initial states.
LEMMA BulkInit ==
  ASSUME Init
  PROVE  BulkInv
BY ScopesAssumption, PagesAssumption DEF Init, BulkInv, TypeOK, AnswersHonest, RequestInv

\* What the invariant is for.
LEMMA BulkSafe ==
  ASSUME BulkInv
  PROVE  /\ TypeOK
         /\ NothingMissed
         /\ AnswersHonest
         /\ (\A v \in Scope : Matches[v] \subseteq Under[v]) => ScopeRespected
<1>1. NothingMissed
  BY DEF BulkInv, RequestInv, NothingMissed
<1>2. ASSUME \A v \in Scope : Matches[v] \subseteq Under[v] PROVE ScopeRespected
  BY <1>2 DEF BulkInv, TypeOK, RequestInv, ScopeRespected
<1> QED BY <1>1, <1>2 DEF BulkInv

\* The inductive invariant holds in every reachable state.
THEOREM BulkInvariant == Spec => []BulkInv
BY BulkInit, BulkStep, PTL DEF Spec

-----------------------------------------------------------------------------
(* Versions and packages *)

USE DEF pageVars, walkVars

\* A set of natural numbers that is not empty has a least one.
LEMMA Least ==
  ASSUME NEW T \in SUBSET Nat, T # {}
  PROVE  \E m \in T : \A n \in T : m <= n
<1> DEFINE R == OpToRel(<, Nat)
<1>1. IsWellFoundedOn(R, Nat)
  BY NatLessThanWellFounded
<1>2. \A x, y \in Nat : x < y => <<x, y>> \in R
  BY DEF OpToRel
<1> HIDE DEF R
<1>3. PICK m \in T : \A y \in T : ~(<<y, m>> \in R)
  BY <1>1, WFMin
<1>4. \A y \in T : ~(y < m)
  BY <1>2, <1>3
<1>5. \A y \in T : y \in Nat /\ m \in Nat
  OBVIOUS
<1>6. \A y \in T : m <= y
  BY <1>4, <1>5
<1> QED BY <1>6

-----------------------------------------------------------------------------
(* Pages *)

\* The elements of a finite set of numbers that have fewer than n below them are its
\* first n, or all of them.
LEMMA FirstOnes ==
  ASSUME NEW R \in SUBSET Nat, IsFiniteSet(R), NEW n \in Nat \ {0}
  PROVE  LET P == {e \in R : Cardinality({f \in R : f < e}) < n}
         IN  /\ P = R \/ Cardinality(P) = n
             /\ Cardinality(P) <= n
             /\ \A x \in P, y \in R \ P : x < y
<1> DEFINE Below(e) == {f \in R : f < e}
           c(e) == Cardinality(Below(e))
           P == {e \in R : c(e) < n}
<1>1. \A e \in R : e \in Nat /\ IsFiniteSet(Below(e)) /\ c(e) \in Nat
  <2> SUFFICES ASSUME NEW e \in R PROVE e \in Nat /\ IsFiniteSet(Below(e)) /\ c(e) \in Nat
    OBVIOUS
  <2>1. IsFiniteSet(Below(e))
    BY FS_Subset
  <2> QED BY <2>1, FS_CardinalityType
<1>2. ASSUME NEW d \in R, NEW e \in R, d <= e PROVE c(d) <= c(e)
  <2>1. ASSUME NEW f \in R, f < d PROVE f < e
    <3>1. d \in Nat /\ e \in Nat /\ f \in Nat
      OBVIOUS
    <3> QED BY <1>2, <2>1, <3>1
  <2>2. Below(d) \subseteq Below(e)
    BY <2>1
  <2>3. IsFiniteSet(Below(e))
    BY <1>1
  <2> QED BY <2>2, <2>3, FS_Subset
<1>3. ASSUME NEW d \in R, NEW e \in R, d < e PROVE c(d) + 1 <= c(e)
  <2>1. d \in Nat /\ e \in Nat /\ \A f \in R : f \in Nat
    OBVIOUS
  <2>2. ~(d < d) /\ \A f \in R : f < d => f < e
    BY <1>3, <2>1
  <2>3. Below(d) \union {d} \subseteq Below(e) /\ d \notin Below(d)
    BY <1>3, <2>2
  <2>4. Cardinality(Below(d) \union {d}) = c(d) + 1
    BY <1>1, <2>3, FS_AddElement
  <2>5. Cardinality(Below(d) \union {d}) <= c(e)
    BY <1>1, <2>3, FS_Subset
  <2> QED BY <2>4, <2>5
<1>4. IsFiniteSet(P) /\ Cardinality(P) \in Nat
  <2>1. IsFiniteSet(P)
    BY FS_Subset
  <2> QED BY <2>1, FS_CardinalityType
<1> HIDE DEF c
<1>5. \A x \in P, y \in R \ P : x < y
  <2> SUFFICES ASSUME NEW x \in P, NEW y \in R \ P, ~(x < y) PROVE FALSE
    OBVIOUS
  <2>1. y <= x /\ c(x) < n /\ ~(c(y) < n)
    BY <1>1
  <2>2. c(y) <= c(x)
    BY <1>2, <2>1
  <2>3. c(x) \in Nat /\ c(y) \in Nat
    BY <1>1
  <2> QED BY <2>1, <2>2, <2>3
<1>6. Cardinality(P) <= n
  <2>1. CASE P = {}
    BY <2>1, FS_EmptySet
  <2>2. CASE P # {}
    <3> DEFINE T == {n - c(e) : e \in P}
    <3>1. ASSUME NEW e \in P PROVE n - c(e) \in Nat /\ c(e) \in Nat
      <4>1. c(e) \in Nat /\ c(e) < n
        BY <1>1
      <4> QED BY <4>1
    <3>2. T \in SUBSET Nat /\ T # {}
      BY <3>1, <2>2
    <3>3. PICK m \in T : \A t \in T : m <= t
      BY <3>2, Least
    <3>4. PICK e \in P : m = n - c(e)
      BY <3>3
    <3>5. \A f \in P : c(f) <= c(e)
      <4> SUFFICES ASSUME NEW f \in P PROVE c(f) <= c(e)
        OBVIOUS
      <4>1. c(e) \in Nat /\ c(f) \in Nat /\ n \in Nat
        BY <3>1
      <4>2. n - c(e) <= n - c(f)
        BY <3>3, <3>4
      <4> QED BY <4>1, <4>2
    <3>6. P \subseteq Below(e) \union {e}
      <4>1. ASSUME NEW f \in P PROVE ~(e < f)
        <5>1. f \in R /\ e \in R
          OBVIOUS
        <5>2. c(f) <= c(e) /\ c(e) \in Nat /\ c(f) \in Nat
          BY <3>1, <3>5
        <5>3. ~(c(e) + 1 <= c(f))
          BY <5>2
        <5> QED BY <1>3, <5>1, <5>3
      <4>2. \A f \in P : f \in R /\ f \in Nat /\ e \in Nat
        OBVIOUS
      <4>3. \A f \in P : f < e \/ f = e
        BY <4>1, <4>2
      <4> QED BY <4>2, <4>3
    <3>7. e \notin Below(e) /\ IsFiniteSet(Below(e))
      <4>1. e \in R /\ e \in Nat
        OBVIOUS
      <4>2. ~(e < e)
        BY <4>1
      <4> QED BY <1>1, <4>1, <4>2
    <3>8. IsFiniteSet(Below(e) \union {e}) /\ Cardinality(Below(e) \union {e}) = c(e) + 1
      BY <3>7, FS_AddElement DEF c
    <3>9. Cardinality(P) <= c(e) + 1
      BY <3>6, <3>8, FS_Subset
    <3>10. c(e) \in Nat /\ c(e) < n
      BY <3>1
    <3> QED BY <1>4, <3>9, <3>10
  <2> QED BY <2>1, <2>2
<1>7. ASSUME P # R PROVE Cardinality(P) = n
  <2>1. R \ P # {} /\ R \ P \in SUBSET Nat
    BY <1>7
  <2>2. PICK e \in R \ P : \A f \in R \ P : e <= f
    BY <2>1, Least
  <2>3. Below(e) \subseteq P
    <3> SUFFICES ASSUME NEW f \in R, f < e, f \notin P PROVE FALSE
      OBVIOUS
    <3>1. e <= f
      BY <2>2
    <3> QED BY <1>1, <3>1
  <2>4. ~(c(e) < n) /\ c(e) \in Nat
    BY <1>1, <2>2
  <2>5. c(e) <= Cardinality(P)
    BY <1>4, <2>3, FS_Subset DEF c
  <2>6. n \in Nat /\ n <= c(e)
    BY <2>4
  <2> QED BY <1>4, <1>6, <2>4, <2>5, <2>6
<1> QED BY <1>5, <1>6, <1>7 DEF c

\* A listing of finitely many keys has one page and no other, so list_prefix always has
\* an answer and IsPage leaves it no choice.
THEOREM PagesDetermined ==
  ASSUME NEW R \in SUBSET Key, IsFiniteSet(R)
  PROVE  \E P \in SUBSET R : IsPage(P, R) /\ \A Q : IsPage(Q, R) => Q = P
<1> DEFINE P == {e \in R : Cardinality({f \in R : f < e}) < FetchSize}
<1>1. R \in SUBSET Nat /\ FetchSize \in Nat \ {0}
  BY KeyAssumption, PagesAssumption
<1>2. /\ P = R \/ Cardinality(P) = FetchSize
      /\ Cardinality(P) <= FetchSize
      /\ \A x \in P, y \in R \ P : x < y
  BY <1>1, FirstOnes
<1>3. P \subseteq R
  OBVIOUS
<1> HIDE DEF P
<1>4. IsPage(P, R)
  BY <1>2, <1>3 DEF IsPage
<1>5. ASSUME NEW A, NEW B, IsPage(A, R), IsPage(B, R), A \subseteq B PROVE A = B
  <2> SUFFICES ASSUME A # B PROVE FALSE
    OBVIOUS
  <2>1. A \subseteq R /\ B \subseteq R /\ A # R
    BY <1>5 DEF IsPage
  <2>2. IsFiniteSet(B)
    BY <2>1, FS_Subset
  <2>3. Cardinality(A) <= Cardinality(B) /\ Cardinality(A) # Cardinality(B)
    BY <1>5, <2>2, FS_Subset
  <2>4. Cardinality(A) = FetchSize /\ Cardinality(B) <= FetchSize
    BY <1>5, <2>1 DEF IsPage
  <2>5. Cardinality(B) \in Nat
    BY <2>2, FS_CardinalityType
  <2> QED BY <1>1, <2>3, <2>4, <2>5
<1>6. ASSUME NEW Q, IsPage(Q, R) PROVE Q = P
  <2>1. Q \subseteq R
    BY <1>6 DEF IsPage
  <2>2. Q \subseteq P \/ P \subseteq Q
    <3> SUFFICES ASSUME NEW x \in Q, x \notin P, NEW y \in P, y \notin Q PROVE FALSE
      OBVIOUS
    <3>1. x \in Nat /\ y \in Nat /\ x < y /\ y < x
      BY <1>1, <1>2, <1>3, <1>6, <2>1 DEF IsPage
    <3> QED BY <3>1
  <2> QED BY <1>4, <1>5, <1>6, <2>2
<1> QED BY <1>3, <1>4, <1>6

\* A page of the browser is full, or all that follows the token.
THEOREM WalkPages ==
  ASSUME NEW E \in SUBSET Entry, IsFiniteSet(E)
  PROVE  /\ PageOf(E) = E \/ Cardinality(PageOf(E)) = PageSize
         /\ Cardinality(PageOf(E)) <= PageSize
         /\ \A x \in PageOf(E), y \in E \ PageOf(E) : x < y
<1>1. E \in SUBSET Nat /\ PageSize \in Nat \ {0}
  BY EntriesAssumption, PageSizeAssumption DEF Entry
<1> QED BY <1>1, FirstOnes DEF PageOf

-----------------------------------------------------------------------------
(* The order of numeric versions *)

\* What the parts of a numeric version are.
LEMMA NumericParts ==
  ASSUME NEW v \in Version, Numeric(v)
  PROVE  /\ Len(Parts[v]) \in Nat /\ DOMAIN Parts[v] = 1..Len(Parts[v])
         /\ \A i \in DOMAIN Parts[v] : Parts[v][i] \in Number /\ Value[Parts[v][i]] \in Nat
<1>1. Parts[v] \in Seq(Part)
  BY PartsAssumption
<1> QED BY <1>1, ValuesAssumption DEF Numeric

\* A version that comes before another is older for _compare_versions.
LEMMA PrecedesOlder ==
  ASSUME NEW v \in Version, NEW w \in Version, Numeric(v), Numeric(w), Precedes(v, w)
  PROVE  Older(v, w)
<1>1. PICK i \in DOMAIN Parts[w] :
        /\ \A j \in 1..i - 1 : j \in DOMAIN Parts[v] /\ Parts[v][j] = Parts[w][j]
        /\ i \in DOMAIN Parts[v] => Value[Parts[v][i]] < Value[Parts[w][i]]
  BY DEF Precedes
<1>2. /\ Len(Parts[v]) \in Nat /\ DOMAIN Parts[v] = 1..Len(Parts[v])
      /\ Len(Parts[w]) \in Nat /\ DOMAIN Parts[w] = 1..Len(Parts[w])
  BY NumericParts
<1>3. \A j \in Differ(v, w) : i <= j
  <2> SUFFICES ASSUME NEW j \in Differ(v, w), ~(i <= j) PROVE FALSE
    OBVIOUS
  <2>1. j \in 1..i - 1
    BY <1>2 DEF Differ
  <2> QED BY <1>1, <2>1 DEF Differ
<1>4. CASE i \in DOMAIN Parts[v]
  <2>1. /\ Parts[v][i] \in Number /\ Value[Parts[v][i]] \in Nat
        /\ Parts[w][i] \in Number /\ Value[Parts[w][i]] \in Nat
    BY <1>4, NumericParts
  <2>2. Value[Parts[v][i]] < Value[Parts[w][i]]
    BY <1>1, <1>4
  <2>3. Parts[v][i] # Parts[w][i]
    BY <2>1, <2>2
  <2>4. i \in Differ(v, w)
    BY <1>4, <2>3 DEF Differ
  <2> QED BY <1>3, <2>1, <2>2, <2>4 DEF Older, PartBelow
<1>5. CASE i \notin DOMAIN Parts[v]
  <2>1. Len(Parts[v]) < i /\ i <= Len(Parts[w])
    BY <1>2, <1>5
  <2>2. Differ(v, w) = {}
    <3> SUFFICES ASSUME NEW j \in Differ(v, w) PROVE FALSE
      OBVIOUS
    <3>1. i <= j /\ j \in 1..Len(Parts[v])
      BY <1>2, <1>3 DEF Differ
    <3> QED BY <1>2, <2>1, <3>1
  <2>3. Len(Parts[v]) < Len(Parts[w])
    BY <1>2, <2>1
  <2> QED BY <2>2, <2>3 DEF Older
<1> QED BY <1>4, <1>5

\* No version comes before itself.
LEMMA PrecedesIrreflexive ==
  ASSUME NEW v \in Version, Numeric(v)
  PROVE  ~Precedes(v, v)
<1> SUFFICES ASSUME Precedes(v, v) PROVE FALSE
  OBVIOUS
<1>1. PICK i \in DOMAIN Parts[v] : Value[Parts[v][i]] < Value[Parts[v][i]]
  BY DEF Precedes
<1>2. Value[Parts[v][i]] \in Nat
  BY NumericParts
<1> QED BY <1>1, <1>2

\* What comes before another comes before a third, or the third before the other.
LEMMA PrecedesBetween ==
  ASSUME NEW a \in Version, NEW b \in Version, NEW c \in Version,
         Numeric(a), Numeric(b), Numeric(c), Precedes(a, c)
  PROVE  Precedes(a, b) \/ Precedes(b, c)
<1> DEFINE D(i) == {j \in 1..i : j \in DOMAIN Parts[b] => Parts[b][j] # Parts[c][j]}
<1>1. PICK i \in DOMAIN Parts[c] :
        /\ \A j \in 1..i - 1 : j \in DOMAIN Parts[a] /\ Parts[a][j] = Parts[c][j]
        /\ i \in DOMAIN Parts[a] => Value[Parts[a][i]] < Value[Parts[c][i]]
  BY DEF Precedes
<1>2. i \in Nat \ {0} /\ \A j \in 1..i : j \in DOMAIN Parts[c]
  BY NumericParts
<1>3. CASE D(i) = {}
  <2>1. \A j \in 1..i : j \in DOMAIN Parts[b] /\ Parts[b][j] = Parts[c][j]
    BY <1>3
  <2>2. i \in 1..i /\ \A j \in 1..i - 1 : j \in 1..i
    BY <1>2
  <2> QED BY <1>1, <2>1, <2>2 DEF Precedes
<1>4. ASSUME D(i) # {} PROVE Precedes(a, b) \/ Precedes(b, c)
  <2>1. D(i) \in SUBSET Nat
    BY <1>2
  <2>2. PICK m \in D(i) : \A n \in D(i) : m <= n
    BY <1>4, <2>1, Least
  <2>3. m \in 1..i /\ m \in DOMAIN Parts[c] /\ m \in Nat
    BY <1>2, <2>1, <2>2
  <2>4. \A j \in 1..m - 1 : j \in DOMAIN Parts[b] /\ Parts[b][j] = Parts[c][j]
    <3> SUFFICES ASSUME NEW j \in 1..m - 1, j \in D(i) PROVE FALSE
      BY <1>2, <2>3
    <3>1. m <= j
      BY <2>2
    <3> QED BY <2>3, <3>1
  <2>5. \A j \in 1..m - 1 : j \in DOMAIN Parts[a] /\ Parts[a][j] = Parts[c][j]
    <3>1. \A j \in 1..m - 1 : j \in 1..i - 1
      BY <1>2, <2>3
    <3> QED BY <1>1, <3>1
  <2>6. m \in DOMAIN Parts[a] => Value[Parts[a][m]] <= Value[Parts[c][m]]
    <3> SUFFICES ASSUME m \in DOMAIN Parts[a] PROVE Value[Parts[a][m]] <= Value[Parts[c][m]]
      OBVIOUS
    <3>1. Value[Parts[a][m]] \in Nat /\ Value[Parts[c][m]] \in Nat
      BY <2>3, NumericParts
    <3>2. m = i \/ m \in 1..i - 1
      BY <1>2, <2>3
    <3> QED BY <1>1, <3>1, <3>2
  <2>7. CASE m \notin DOMAIN Parts[b]
    BY <2>3, <2>4, <2>7 DEF Precedes
  <2>8. CASE m \in DOMAIN Parts[b]
    <3>1. /\ Parts[b][m] \in Number /\ Parts[c][m] \in Number
          /\ Value[Parts[b][m]] \in Nat /\ Value[Parts[c][m]] \in Nat
      BY <2>3, <2>8, NumericParts
    <3>2. Value[Parts[b][m]] # Value[Parts[c][m]]
      BY <2>2, <2>8, <3>1, PartsDiffer
    <3>3. CASE Value[Parts[b][m]] < Value[Parts[c][m]]
      BY <2>3, <2>4, <3>3 DEF Precedes
    <3>4. CASE Value[Parts[c][m]] < Value[Parts[b][m]]
      <4>1. \A j \in 1..m - 1 : j \in DOMAIN Parts[a] /\ Parts[a][j] = Parts[b][j]
        BY <2>4, <2>5
      <4>2. m \in DOMAIN Parts[a] => Value[Parts[a][m]] < Value[Parts[b][m]]
        <5> SUFFICES ASSUME m \in DOMAIN Parts[a] PROVE Value[Parts[a][m]] < Value[Parts[b][m]]
          OBVIOUS
        <5>1. Value[Parts[a][m]] \in Nat
          BY NumericParts
        <5> QED BY <2>6, <3>1, <3>4, <5>1
      <4> QED BY <2>8, <4>1, <4>2 DEF Precedes
    <3> QED BY <3>1, <3>2, <3>3, <3>4
  <2> QED BY <2>7, <2>8
<1> QED BY <1>3, <1>4

\* Of two numeric versions with different parts, one comes before the other.
LEMMA PrecedesTotal ==
  ASSUME NEW v \in Version, NEW w \in Version, Numeric(v), Numeric(w)
  PROVE  Precedes(v, w) \/ Precedes(w, v) \/ Parts[v] = Parts[w]
<1>1. /\ Len(Parts[v]) \in Nat /\ DOMAIN Parts[v] = 1..Len(Parts[v])
      /\ Len(Parts[w]) \in Nat /\ DOMAIN Parts[w] = 1..Len(Parts[w])
  BY NumericParts
<1>2. CASE Differ(v, w) # {}
  <2>1. Differ(v, w) \in SUBSET Nat
    BY <1>1 DEF Differ
  <2>2. PICK i \in Differ(v, w) : \A j \in Differ(v, w) : i <= j
    BY <1>2, <2>1, Least
  <2>3. i \in DOMAIN Parts[v] /\ i \in DOMAIN Parts[w] /\ Parts[v][i] # Parts[w][i] /\ i \in Nat
    BY <2>1 DEF Differ
  <2>4. \A j \in 1..i - 1 :
          j \in DOMAIN Parts[v] /\ j \in DOMAIN Parts[w] /\ Parts[v][j] = Parts[w][j]
    <3> SUFFICES ASSUME NEW j \in 1..i - 1
                 PROVE  j \in DOMAIN Parts[v] /\ j \in DOMAIN Parts[w] /\ Parts[v][j] = Parts[w][j]
      OBVIOUS
    <3>1. j \in DOMAIN Parts[v] /\ j \in DOMAIN Parts[w] /\ ~(i <= j)
      BY <1>1, <2>3
    <3> QED BY <2>2, <3>1 DEF Differ
  <2>5. /\ Parts[v][i] \in Number /\ Value[Parts[v][i]] \in Nat
        /\ Parts[w][i] \in Number /\ Value[Parts[w][i]] \in Nat
    BY <2>3, NumericParts
  <2>6. Value[Parts[v][i]] < Value[Parts[w][i]] \/ Value[Parts[w][i]] < Value[Parts[v][i]]
    BY <2>3, <2>5, PartsDiffer
  <2> QED BY <2>3, <2>4, <2>6 DEF Precedes
<1>3. CASE Differ(v, w) = {}
  <2>1. \A i \in DOMAIN Parts[v] \intersect DOMAIN Parts[w] : Parts[v][i] = Parts[w][i]
    BY <1>3 DEF Differ
  <2>2. CASE Len(Parts[v]) < Len(Parts[w])
    <3>1. Len(Parts[v]) + 1 \in DOMAIN Parts[w] /\ Len(Parts[v]) + 1 \notin DOMAIN Parts[v]
      BY <1>1, <2>2
    <3>2. \A j \in 1..(Len(Parts[v]) + 1) - 1 : j \in DOMAIN Parts[v] /\ j \in DOMAIN Parts[w]
      BY <1>1, <2>2
    <3> QED BY <2>1, <3>1, <3>2 DEF Precedes
  <2>3. CASE Len(Parts[w]) < Len(Parts[v])
    <3>1. Len(Parts[w]) + 1 \in DOMAIN Parts[v] /\ Len(Parts[w]) + 1 \notin DOMAIN Parts[w]
      BY <1>1, <2>3
    <3>2. \A j \in 1..(Len(Parts[w]) + 1) - 1 : j \in DOMAIN Parts[v] /\ j \in DOMAIN Parts[w]
      BY <1>1, <2>3
    <3> QED BY <2>1, <3>1, <3>2 DEF Precedes
  <2>4. CASE Len(Parts[v]) = Len(Parts[w])
    <3>1. Parts[v] \in Seq(Part) /\ Parts[w] \in Seq(Part)
      BY PartsAssumption
    <3>2. \A i \in 1..Len(Parts[v]) : Parts[v][i] = Parts[w][i]
      BY <1>1, <2>1, <2>4
    <3> QED BY <2>4, <3>1, <3>2
  <2> QED BY <1>1, <2>2, <2>3, <2>4
<1> QED BY <1>2, <1>3

\* No two numeric versions are older than each other.
LEMMA OlderAsymmetric ==
  ASSUME NEW v \in Version, NEW w \in Version, Numeric(v), Numeric(w), Older(v, w), Older(w, v)
  PROVE  FALSE
<1>1. /\ Len(Parts[v]) \in Nat /\ DOMAIN Parts[v] = 1..Len(Parts[v])
      /\ Len(Parts[w]) \in Nat /\ DOMAIN Parts[w] = 1..Len(Parts[w])
  BY NumericParts
<1>2. Differ(w, v) = Differ(v, w)
  BY DEF Differ
<1>3. CASE Differ(v, w) = {}
  BY <1>1, <1>2, <1>3 DEF Older
<1>4. CASE Differ(v, w) # {}
  <2>1. PICK i \in Differ(v, w) :
          (\A j \in Differ(v, w) : i <= j) /\ PartBelow(Parts[v][i], Parts[w][i])
    BY <1>4 DEF Older
  <2>2. PICK k \in Differ(v, w) :
          (\A j \in Differ(v, w) : k <= j) /\ PartBelow(Parts[w][k], Parts[v][k])
    BY <1>2, <1>4 DEF Older
  <2>3. i \in Nat /\ k \in Nat /\ i <= k /\ k <= i
    BY <1>1, <2>1, <2>2 DEF Differ
  <2>4. i = k /\ i \in DOMAIN Parts[v] /\ i \in DOMAIN Parts[w]
    BY <2>3 DEF Differ
  <2>5. /\ Parts[v][i] \in Number /\ Value[Parts[v][i]] \in Nat
        /\ Parts[w][i] \in Number /\ Value[Parts[w][i]] \in Nat
    BY <2>4, NumericParts
  <2> QED BY <2>1, <2>2, <2>4, <2>5 DEF PartBelow
<1> QED BY <1>3, <1>4

\* Among numeric versions _compare_versions is Precedes, a strict order that is total up
\* to spellings of the same parts; with other parts it need not even be transitive
\* ("9" before "10" before "1a" before "9").
THEOREM NumericVersionsOrdered ==
  ASSUME NEW u \in Version, NEW v \in Version, NEW w \in Version,
         Numeric(u), Numeric(v), Numeric(w)
  PROVE  /\ Older(v, w) <=> Precedes(v, w)
         /\ ~Older(v, v)
         /\ Older(u, v) /\ Older(v, w) => Older(u, w)
         /\ Older(v, w) \/ Older(w, v) \/ Parts[v] = Parts[w]
<1>1. ASSUME NEW a \in Version, NEW b \in Version, Numeric(a), Numeric(b)
      PROVE  Older(a, b) <=> Precedes(a, b)
  <2>1. ASSUME Parts[a] = Parts[b] PROVE ~Older(a, b)
    <3>1. Differ(a, b) = {} /\ Len(Parts[a]) \in Nat
      BY <1>1, <2>1, NumericParts DEF Differ
    <3> QED BY <2>1, <3>1 DEF Older
  <2>2. Precedes(b, a) => ~Older(a, b)
    BY <1>1, PrecedesOlder, OlderAsymmetric
  <2> QED BY <1>1, <2>1, <2>2, PrecedesTotal, PrecedesOlder
<1>2. ~Older(v, v)
  BY OlderAsymmetric
<1>3. ASSUME Older(u, v), Older(v, w) PROVE Older(u, w)
  <2>1. Precedes(u, v) /\ ~Precedes(w, v)
    BY <1>1, <1>3, OlderAsymmetric
  <2>2. Precedes(u, w) \/ Precedes(w, v)
    BY <2>1, PrecedesBetween
  <2> QED BY <1>1, <2>1, <2>2
<1> QED BY <1>1, <1>2, <1>3, PrecedesTotal

\* The last of a sorted list of numeric versions comes before none of them.
LEMMA LastIsNewest ==
  ASSUME NEW V \in SUBSET Version, IsFiniteSet(V), \A v \in V : Numeric(v),
         NEW l \in Latests(V), NEW w \in V
  PROVE  ~Precedes(l, w)
<1> DEFINE n == Cardinality(V)
<1>1. n \in Nat
  BY FS_CardinalityType
<1> HIDE DEF n
<1>2. PICK s \in Sortings(V) : s[n] = l
  BY DEF Latests, n
<1>3. /\ s \in [1..n -> V]
      /\ \A v \in V : \E i \in 1..n : s[i] = v
      /\ \A i \in 1..n - 1 : ~Older(s[i + 1], s[i])
  BY <1>2 DEF Sortings, n
<1> DEFINE T == {k \in 0..n - 1 : Precedes(l, s[n - k])}
<1>4. ASSUME T # {} PROVE FALSE
  <2>1. T \in SUBSET Nat
    BY <1>1
  <2>2. PICK m \in T : \A k \in T : m <= k
    BY <1>4, <2>1, Least
  <2>3. m \in 0..n - 1 /\ Precedes(l, s[n - m])
    BY <2>2
  <2>4. l \in V
    BY DEF Latests
  <2>5. m # 0
    <3> SUFFICES ASSUME m = 0 PROVE FALSE
      OBVIOUS
    <3>1. n - m = n
      BY <1>1
    <3> QED BY <1>2, <2>3, <2>4, <3>1, PrecedesIrreflexive
  <2>6. n - m \in 1..n - 1 /\ n - m + 1 \in 1..n /\ m - 1 \in 0..n - 1 /\ n - (m - 1) = n - m + 1
    BY <1>1, <2>3, <2>5
  <2>7. ~Precedes(l, s[n - m + 1])
    <3>1. m - 1 \notin T
      BY <2>2, <2>3
    <3> QED BY <2>6, <3>1
  <2>8. s[n - m] \in V /\ s[n - m + 1] \in V
    BY <1>1, <1>3, <2>6
  <2>9. Precedes(s[n - m + 1], s[n - m])
    BY <2>3, <2>4, <2>7, <2>8, PrecedesBetween
  <2> QED BY <1>3, <2>6, <2>8, <2>9, PrecedesOlder
<1>5. PICK i \in 1..n : s[i] = w
  BY <1>3
<1>6. n - i \in 0..n - 1 /\ n - (n - i) = i
  BY <1>1
<1> QED BY <1>4, <1>5, <1>6

\* So the last versions of two sorted lists of one set have the same parts.
LEMMA LastIsDetermined ==
  ASSUME NEW V \in SUBSET Version, IsFiniteSet(V), \A v \in V : Numeric(v),
         NEW l \in Latests(V), NEW m \in Latests(V)
  PROVE  Parts[l] = Parts[m]
<1>1. l \in V /\ m \in V
  BY DEF Latests
<1>2. ~Precedes(l, m) /\ ~Precedes(m, l)
  BY <1>1, LastIsNewest
<1> QED BY <1>1, <1>2, PrecedesTotal

-----------------------------------------------------------------------------
(* The steps of BulkDelete *)

\* Every step is one of BulkDelete, or begins or ends a listing for a page.
LEMMA DashboardSteps ==
  ASSUME DashboardNext
  PROVE  \/ Next \/ UNCHANGED vars
         \/ \E q \in Request : Relist(q) \/ Render(q)
<1>1. CASE Store
  BY <1>1 DEF Store, Next
<1>2. ASSUME NEW q \in Request, BeginDelete(q) PROVE Next
  BY <1>2, RoutesAssumption DEF BeginDelete, Next
<1>3. ASSUME NEW q \in Request, NEW p \in Package, BeginDeleteVersion(q, p) \/ BeginPage(q, p)
      PROVE  Next
  BY <1>3, RoutesAssumption DEF BeginDeleteVersion, BeginPage, Next
<1>4. ASSUME NEW q \in Request, DeleteStep(q) \/ DeleteRemove(q) \/ PageStep(q) PROVE Next
  BY <1>4 DEF DeleteStep, DeleteRemove, PageStep, Next, Proceed
<1>5. ASSUME NEW q \in Request, DashboardFault(q) PROVE Next
  BY <1>5 DEF DashboardFault, Next
<1>6. ASSUME NEW q \in Request, OpenDirectory(q) \/ ShowPage(q) PROVE UNCHANGED vars
  BY <1>6 DEF OpenDirectory, ShowPage
<1> QED BY <1>1, <1>2, <1>3, <1>4, <1>5, <1>6 DEF DashboardNext, Serve

\* Neither disturbs what BulkInv says.
LEMMA BulkInvStays ==
  ASSUME BulkInv, [DashboardNext]_dashVars
  PROVE  BulkInv'
<1>1. CASE Next \/ UNCHANGED vars
  BY <1>1, BulkStep
<1>2. ASSUME NEW q \in Request, Relist(q) PROVE BulkInv'
  <2>1. /\ pc[q] = "next"
        /\ asked' = [asked EXCEPT ![q] = {Repository}] /\ todo' = [todo EXCEPT ![q] = {Repository}]
        /\ audited' = [audited EXCEPT ![q] = {}] /\ removed' = [removed EXCEPT ![q] = {}]
        /\ UNCHANGED <<present, pc, scope, cursor, pages, keys, truncated, queue, answer, stayed>>
    BY <1>2 DEF Relist
  <2>2. TypeOK'
    BY <2>1, RoutesAssumption DEF BulkInv, TypeOK
  <2>3. AnswersHonest'
    BY <2>1 DEF BulkInv, TypeOK, AnswersHonest
  <2>4. ASSUME NEW r \in Request PROVE RequestInv(r)'
    <3>1. CASE r = q
      <4>1. /\ asked'[q] = {Repository} /\ todo'[q] = {Repository}
            /\ audited'[q] = {} /\ removed'[q] = {}
        BY <2>1 DEF BulkInv, TypeOK
      <4> QED BY <2>1, <3>1, <4>1 DEF BulkInv, RequestInv
    <3>2. CASE r # q
      <4>1. /\ asked'[r] = asked[r] /\ todo'[r] = todo[r]
            /\ audited'[r] = audited[r] /\ removed'[r] = removed[r]
        BY <2>1, <3>2 DEF BulkInv, TypeOK
      <4> QED BY <2>1, <4>1 DEF BulkInv, RequestInv
    <3> QED BY <3>1, <3>2
  <2> QED BY <2>2, <2>3, <2>4 DEF BulkInv
<1>3. ASSUME NEW q \in Request, Render(q) PROVE BulkInv'
  <2>1. /\ pc[q] \in {"next", "delete"}
        /\ pc' = [pc EXCEPT ![q] = "done"]
        /\ UNCHANGED <<present, asked, todo, scope, cursor, pages, keys, truncated, queue, audited,
                       answer, removed, stayed>>
    BY <1>3 DEF Render
  <2> QED BY <2>1 DEF BulkInv, TypeOK, AnswersHonest, RequestInv
<1> QED BY <1>1, <1>2, <1>3, DashboardSteps DEF dashVars

-----------------------------------------------------------------------------
(* The cap of a listing *)

\* Keys and cursors are numbers.
LEMMA Numbers ==
  ASSUME TypeOK, NEW q \in Request
  PROVE  cursor[q] \in Nat /\ \A k \in Key : k \in Nat
<1>1. \A k \in Key : k \in Nat
  BY KeyAssumption
<1>2. cursor[q] \in Key \union {0}
  BY DEF TypeOK
<1> QED BY <1>1, <1>2

\* A page with more to come is full, and is of keys that are not listed yet.
LEMMA FullPage ==
  ASSUME IsFiniteSet(Key), TypeOK, NEW q \in Request,
         \A k \in keys[q] : k <= cursor[q],
         NEW P \in SUBSET Rest(q), IsPage(P, Rest(q)), P # Rest(q),
         Cardinality(keys[q]) = pages[q] * FetchSize
  PROVE  Cardinality(keys[q] \union P) = (pages[q] + 1) * FetchSize
<1>1. keys[q] \subseteq Key /\ P \subseteq Key /\ pages[q] \in Nat /\ FetchSize \in Nat
  BY PagesAssumption DEF TypeOK, Rest
<1>2. IsFiniteSet(keys[q]) /\ IsFiniteSet(P)
  BY <1>1, FS_Subset
<1>3. keys[q] \intersect P = {}
  <2> SUFFICES ASSUME NEW k \in keys[q], k \in P PROVE FALSE
    OBVIOUS
  <2>1. k \in Nat /\ cursor[q] \in Nat
    BY <1>1, Numbers
  <2>2. k <= cursor[q] /\ k > cursor[q]
    BY DEF Rest
  <2> QED BY <2>1, <2>2
<1>4. Cardinality(P) = FetchSize
  BY DEF IsPage
<1>5. Cardinality(keys[q] \union P)
        = Cardinality(keys[q]) + Cardinality(P) - Cardinality(keys[q] \intersect P)
  BY <1>2, FS_Union
<1>6. Cardinality(keys[q] \union P) = pages[q] * FetchSize + FetchSize
  <2>1. Cardinality(keys[q] \intersect P) = 0
    BY <1>3, FS_EmptySet
  <2>2. pages[q] * FetchSize \in Nat
    BY <1>2, FS_CardinalityType
  <2> QED BY <1>1, <1>4, <1>5, <2>1, <2>2
<1> QED BY <1>1, <1>6

\* So a request that lists counts its keys by its pages, and ends at MaxPages of them.
LEMMA ListingProceeds ==
  ASSUME IsFiniteSet(Key), BulkInv, NEW q \in Request, ListingInv(q),
         NextScope(q) \/ ListMore(q) \/ ListLast(q)
  PROVE  ListingInv(q)'
<1> USE DEF BulkInv, TypeOK
<1>1. CASE NextScope(q)
  <2>1. /\ keys' = [keys EXCEPT ![q] = {}] /\ pages' = [pages EXCEPT ![q] = 0]
        /\ truncated' = [truncated EXCEPT ![q] = FALSE]
    BY <1>1 DEF NextScope
  <2>2. keys'[q] = {} /\ pages'[q] = 0 /\ ~truncated'[q]
    BY <2>1
  <2>3. Cardinality({}) = 0 /\ 0 * FetchSize = 0
    BY FS_EmptySet, PagesAssumption
  <2> QED BY <2>2, <2>3 DEF ListingInv
<1>2. CASE ListMore(q)
  <2>1. PICK P \in SUBSET Rest(q) :
          /\ IsPage(P, Rest(q)) /\ P # Rest(q)
          /\ keys' = [keys EXCEPT ![q] = @ \union P]
          /\ \E k \in P : IsLast(k, P) /\ cursor' = [cursor EXCEPT ![q] = k]
    BY <1>2 DEF ListMore
  <2>2. PICK m \in P : IsLast(m, P) /\ cursor' = [cursor EXCEPT ![q] = m]
    BY <2>1
  <2>3. /\ pc[q] = "list" /\ pages' = [pages EXCEPT ![q] = pages[q] + 1]
        /\ UNCHANGED <<scope, truncated>>
    BY <1>2 DEF ListMore
  <2>4. /\ keys'[q] = keys[q] \union P /\ cursor'[q] = m /\ pages'[q] = pages[q] + 1
        /\ scope'[q] = scope[q] /\ truncated'[q] = truncated[q]
    BY <2>1, <2>2, <2>3
  <2>5. Cardinality(keys'[q]) = pages'[q] * FetchSize
    BY <2>1, <2>3, <2>4, FullPage DEF ListingInv
  <2>6. ASSUME NEW k \in keys'[q] PROVE k <= cursor'[q]
    <3>1. m \in Nat /\ cursor[q] \in Nat /\ m > cursor[q] /\ \A x \in keys[q] : x \in Nat
      BY <2>2, Numbers DEF Rest
    <3>2. CASE k \in P
      BY <2>2, <2>4, <3>2 DEF IsLast
    <3>3. CASE k \in keys[q]
      <4>1. k <= cursor[q]
        BY <2>3, <3>3 DEF ListingInv
      <4> QED BY <2>4, <3>1, <3>3, <4>1
    <3> QED BY <2>4, <2>6, <3>2, <3>3
  <2>7. ~truncated[q]
    BY <2>3 DEF ListingInv
  <2> QED BY <2>4, <2>5, <2>6, <2>7 DEF ListingInv
<1>3. CASE ListLast(q)
  <2>1. PICK P \in SUBSET Rest(q) :
          /\ IsPage(P, Rest(q))
          /\ P = Rest(q) \/ pages[q] + 1 = MaxPages
          /\ truncated' = [truncated EXCEPT ![q] = P # Rest(q)]
          /\ keys' = [keys EXCEPT ![q] = @ \union P]
    BY <1>3 DEF ListLast
  <2>2. pc[q] = "list" /\ pc' = [pc EXCEPT ![q] = "delete"] /\ scope' = scope
    BY <1>3 DEF ListLast
  <2>3. /\ keys'[q] = keys[q] \union P /\ truncated'[q] = (P # Rest(q))
        /\ scope'[q] = scope[q] /\ pc'[q] = "delete"
    BY <2>1, <2>2
  <2>4. ASSUME P # Rest(q)
        PROVE  /\ Cardinality(keys'[q]) = MaxPages * FetchSize
               /\ keys'[q] \subseteq Matches[scope'[q]] /\ keys'[q] # Matches[scope'[q]]
    <3>1. Cardinality(keys'[q]) = MaxPages * FetchSize
      BY <2>1, <2>2, <2>3, <2>4, FullPage DEF ListingInv
    <3>2. keys[q] \subseteq Matches[scope[q]]
      BY <2>2 DEF RequestInv
    <3>3. PICK k \in Rest(q) : k \notin P
      BY <2>1, <2>4
    <3>4. k \in Nat /\ cursor[q] \in Nat /\ k > cursor[q]
      BY <3>3, Numbers DEF Rest
    <3>5. k \notin keys[q]
      BY <2>2, <3>4 DEF ListingInv
    <3> QED BY <2>3, <3>1, <3>2, <3>3, <3>5 DEF Rest
  <2> QED BY <2>3, <2>4 DEF ListingInv
<1> QED BY <1>1, <1>2, <1>3

\* Nothing else concerns its listing, whoever does it.
LEMMA ListingStep ==
  ASSUME IsFiniteSet(Key), BulkInv, NEW q \in Request, ListingInv(q), [DashboardNext]_dashVars
  PROVE  ListingInv(q)'
<1> DEFINE Goal == ListingInv(q)'
           Still == /\ scope'[q] = scope[q] /\ cursor'[q] = cursor[q] /\ pages'[q] = pages[q]
                    /\ keys'[q] = keys[q] /\ truncated'[q] = truncated[q]
                    /\ pc'[q] = "list" => pc[q] = "list"
<1> USE DEF BulkInv, TypeOK
<1>1. ASSUME Still PROVE Goal
  BY <1>1 DEF ListingInv
<1> HIDE DEF Goal
<1>2. ASSUME UNCHANGED vars PROVE Goal
  BY <1>1, <1>2 DEF vars
<1>3. ASSUME NEW p \in Request, Relist(p) \/ Render(p) PROVE Goal
  <2>1. UNCHANGED listVars /\ scope' = scope
    BY <1>3 DEF Relist, Render
  <2>2. pc'[q] = "list" => pc[q] = "list"
    BY <1>3 DEF Relist, Render
  <2> QED BY <1>1, <2>1, <2>2
<1>4. ASSUME NEW k \in Key, Upload(k) \/ Delete(k) PROVE Goal
  BY <1>1, <1>4 DEF Upload, Delete
<1>5. ASSUME NEW p \in Request, (\E V \in SUBSET Scope : Begin(p, V)) \/ Fault(p) PROVE Goal
  BY <1>1, <1>5 DEF Begin, Fault
<1>6. ASSUME NEW p \in Request, Proceed(p) PROVE Goal
  <2>1. CASE p = q /\ (NextScope(q) \/ ListMore(q) \/ ListLast(q))
    BY <2>1, ListingProceeds DEF Goal
  <2>2. CASE Finish(p) \/ ListNone(p) \/ (\E k \in Key : Remove(p, k)) \/ Audit(p)
    BY <1>1, <2>2 DEF Finish, ListNone, Remove, Audit
  <2>3. CASE p # q /\ (NextScope(p) \/ ListMore(p) \/ ListLast(p))
    <3>1. Still
      BY <2>3 DEF NextScope, ListMore, ListLast
    <3> QED BY <1>1, <3>1
  <2>4. CASE p = q
    BY <1>6, <2>1, <2>2, <2>4 DEF Proceed
  <2>5. CASE p # q
    BY <1>6, <2>2, <2>3, <2>5 DEF Proceed
  <2> QED BY <2>4, <2>5
<1>7. ASSUME Next PROVE Goal
  BY <1>4, <1>5, <1>6, <1>7 DEF Next
<1> QED BY <1>2, <1>3, <1>7, DashboardSteps DEF Goal, dashVars

-----------------------------------------------------------------------------
(* Types *)

\* What uploads and deletions do to the browser keeps its variables of their types.
LEMMA DirectoryTypes ==
  ASSUME DashboardTypeOK, DirectoryFollows, TypeOK', UNCHANGED <<route, package, view, latest>>
  PROVE  DashboardTypeOK'
<1>1. Children(present') \intersect Directory \subseteq Directory
  OBVIOUS
<1>2. made' \subseteq Directory
  BY <1>1 DEF DirectoryFollows, DashboardTypeOK
<1>3. remained' \in [Request -> SUBSET Entry]
  BY DEF DirectoryFollows, DashboardTypeOK
<1> QED BY <1>2, <1>3 DEF DirectoryFollows, DashboardTypeOK

\* Every step keeps every variable of its type.
LEMMA DashboardTypes ==
  ASSUME DashboardTypeOK, TypeOK', [DashboardNext]_dashVars
  PROVE  DashboardTypeOK'
<1> USE DEF Routes
<1>1. CASE Store
  BY <1>1, DirectoryTypes DEF Store
<1>2. ASSUME NEW q \in Request, BeginDelete(q) PROVE DashboardTypeOK'
  <2>1. /\ route' = [route EXCEPT ![q] = "delete"]
        /\ UNCHANGED <<package, view, latest, made, walk, token, shown, twice, remained, offered>>
    BY <1>2 DEF BeginDelete
  <2> QED BY <2>1 DEF DashboardTypeOK
<1>3. ASSUME NEW q \in Request, NEW p \in Package, BeginDeleteVersion(q, p) \/ BeginPage(q, p)
      PROVE  DashboardTypeOK'
  <2>1. /\ route' = [route EXCEPT ![q] = "deleteVersion"] \/ route' = [route EXCEPT ![q] = "page"]
        /\ package' = [package EXCEPT ![q] = p]
        /\ UNCHANGED <<view, latest, made, walk, token, shown, twice, remained, offered>>
    BY <1>3 DEF BeginDeleteVersion, BeginPage
  <2> QED BY <2>1 DEF DashboardTypeOK
<1>4. ASSUME NEW q \in Request, DeleteStep(q) \/ PageStep(q) \/ DashboardFault(q)
      PROVE  DashboardTypeOK'
  <2>1. UNCHANGED <<route, package, view, latest, made, walk, token, shown, twice, remained, offered>>
    BY <1>4 DEF DeleteStep, PageStep, DashboardFault
  <2> QED BY <2>1 DEF DashboardTypeOK
<1>5. ASSUME NEW q \in Request, DeleteRemove(q) PROVE DashboardTypeOK'
  BY <1>5, DirectoryTypes DEF DeleteRemove
<1>6. ASSUME NEW q \in Request, Relist(q) PROVE DashboardTypeOK'
  BY <1>6 DEF Relist, DashboardTypeOK
<1>7. ASSUME NEW q \in Request, Render(q) PROVE DashboardTypeOK'
  <2>1. /\ \E l \in {"missing", "shown", "refused"} : view' = [view EXCEPT ![q] = l]
        /\ \/ UNCHANGED latest
           \/ \E v \in Latests(VersionsListed(keys[q], package[q])) : latest' = [latest EXCEPT ![q] = v]
        /\ UNCHANGED <<route, package, made, walk, token, shown, twice, remained, offered>>
    BY <1>7 DEF Render
  <2>2. keys[q] \subseteq Key
    BY DEF DashboardTypeOK, TypeOK
  <2>3. Latests(VersionsListed(keys[q], package[q])) \subseteq Version
    BY <2>2, PackagesAssumption DEF Latests, VersionsListed, FilesOf
  <2>4. latest' \in [Request -> Version \union {None}]
    BY <2>1, <2>3 DEF DashboardTypeOK
  <2>5. view' \in [Request -> {"none", "missing", "shown", "refused"}]
    BY <2>1 DEF DashboardTypeOK
  <2> QED BY <2>1, <2>4, <2>5 DEF DashboardTypeOK
<1>8. ASSUME NEW q \in Request, OpenDirectory(q) PROVE DashboardTypeOK'
  <2>1. Listing \subseteq Entry
    BY DEF Listing, Entry, DashboardTypeOK
  <2>2. remained' \in [Request -> SUBSET Entry]
    BY <1>8, <2>1 DEF OpenDirectory, DashboardTypeOK
  <2> QED BY <1>8, <2>2 DEF OpenDirectory, DashboardTypeOK
<1>9. ASSUME NEW q \in Request, ShowPage(q) PROVE DashboardTypeOK'
  <2> DEFINE P == PageOf(Following(q))
  <2>1. P \subseteq Entry
    BY DEF PageOf, Following, Listing, Entry, DashboardTypeOK
  <2>2. /\ shown' = [shown EXCEPT ![q] = @ \union P]
        /\ twice' = [twice EXCEPT ![q] = @ \union (shown[q] \intersect P)]
        /\ offered' = [offered EXCEPT ![q] = @ \/ (walk[q] = "first" /\ VersionsOffered(P))]
        /\ \E l \in {"end", "more"} : walk' = [walk EXCEPT ![q] = l]
        /\ UNCHANGED token \/ \E e \in P : token' = [token EXCEPT ![q] = e]
        /\ UNCHANGED <<route, package, view, latest, made, remained>>
    BY <1>9 DEF ShowPage
  <2> HIDE DEF P
  <2>3. shown' \in [Request -> SUBSET Entry] /\ twice' \in [Request -> SUBSET Entry]
    BY <2>1, <2>2 DEF DashboardTypeOK
  <2>4. offered' \in [Request -> BOOLEAN]
    <3>1. (offered[q] \/ (walk[q] = "first" /\ VersionsOffered(P))) \in BOOLEAN
      OBVIOUS
    <3> QED BY <2>2, <3>1 DEF DashboardTypeOK
  <2>5. token' \in [Request -> Entry \union {0}]
    BY <2>1, <2>2 DEF DashboardTypeOK
  <2>6. walk' \in [Request -> {"idle", "first", "more", "end"}]
    BY <2>2 DEF DashboardTypeOK
  <2> QED BY <2>2, <2>3, <2>4, <2>5, <2>6 DEF DashboardTypeOK
<1>10. CASE UNCHANGED dashVars
  BY <1>10 DEF dashVars, DashboardTypeOK
<1> QED BY <1>1, <1>2, <1>3, <1>4, <1>5, <1>6, <1>7, <1>8, <1>9, <1>10 DEF DashboardNext, Serve

-----------------------------------------------------------------------------
(* Package pages *)

\* What is left alone of a request, except that keys may go.
LEMMA PageStays ==
  ASSUME DashboardInv, NEW q \in Request,
         /\ pc'[q] = pc[q] /\ asked'[q] = asked[q] /\ todo'[q] = todo[q] /\ queue'[q] = queue[q]
         /\ keys'[q] = keys[q] /\ truncated'[q] = truncated[q] /\ package'[q] = package[q]
         /\ view'[q] = view[q] /\ latest'[q] = latest[q] /\ stayed'[q] \subseteq stayed[q]
         /\ route'[q] = route[q] \/ route'[q] = "browse"
  PROVE  PageInv(q)'
<1>1. PageInv(q)
  BY DEF DashboardInv
<1>2. VersionsListed(keys[q], package[q])' = VersionsListed(keys[q], package[q])
  BY DEF VersionsListed, FilesOf
<1> QED BY <1>1, <1>2 DEF PageInv

\* Before its end, a request that is neither for a page nor a redirect.
LEMMA NoPage ==
  ASSUME DashboardInv, NEW q \in Request,
         pc[q] # "done", view'[q] = view[q],
         \/ route'[q] \notin {"page", "redirect"}
         \/ pc'[q] = "done" /\ asked'[q] = asked[q] /\ route'[q] = route[q]
  PROVE  PageInv(q)'
<1>1. PageInv(q) /\ view[q] = "none"
  BY DEF DashboardInv, PageInv
<1> QED BY <1>1 DEF PageInv

\* The loop of a page or a redirect.
LEMMA PageStepInv ==
  ASSUME DashboardInv, NEW q \in Request, PageStep(q)
  PROVE  PageInv(q)'
<1>1. /\ PageInv(q) /\ RequestInv(q) /\ BulkInv /\ TypeOK
      /\ route[q] \in {"page", "redirect"} /\ UNCHANGED <<route, package, view, latest>>
  BY DEF DashboardInv, BulkInv, PageStep
<1>2. asked[q] = {Repository}
  BY <1>1 DEF PageInv
<1>3. CASE NextScope(q)
  <2>1. PICK v \in todo[q] : todo' = [todo EXCEPT ![q] = @ \ {v}]
    BY <1>3 DEF NextScope
  <2>2. todo'[q] = todo[q] \ {v} /\ todo[q] \subseteq {Repository}
    BY <1>1, <1>2, <2>1 DEF TypeOK, RequestInv
  <2>3. pc[q] = "next" /\ pc'[q] = "list" /\ asked'[q] = asked[q]
    BY <1>1, <1>3 DEF NextScope, TypeOK
  <2> QED BY <1>1, <1>2, <2>2, <2>3 DEF PageInv
<1>4. CASE ListMore(q)
  <2>1. pc[q] = "list" /\ UNCHANGED <<pc, asked, todo>>
    BY <1>4 DEF ListMore
  <2> QED BY <1>1, <1>2, <2>1 DEF PageInv
<1>5. CASE ListLast(q)
  <2>1. PICK P : /\ keys' = [keys EXCEPT ![q] = @ \union P]
                 /\ queue' = [queue EXCEPT ![q] = keys[q] \union P]
    BY <1>5 DEF ListLast
  <2>2. keys'[q] = queue'[q]
    BY <1>1, <2>1 DEF TypeOK
  <2>3. pc[q] = "list" /\ pc'[q] = "delete" /\ UNCHANGED <<asked, todo>>
    BY <1>1, <1>5 DEF ListLast, TypeOK
  <2> QED BY <1>1, <1>2, <2>2, <2>3 DEF PageInv
<1>6. CASE ListNone(q)
  <2>1. /\ pc[q] = "list" /\ pc'[q] = "next" /\ Rest(q) = {} /\ keys[q] = {}
        /\ UNCHANGED <<asked, todo, stayed>>
    BY <1>1, <1>6 DEF ListNone, TypeOK
  <2>2. stayed[q] = {}
    <3> SUFFICES ASSUME NEW k \in stayed[q] PROVE FALSE
      OBVIOUS
    <3>1. /\ k \in present /\ k \in Matches[scope[q]]
          /\ ~(k <= cursor[q])
      BY <1>1, <2>1 DEF RequestInv
    <3>2. k \in Nat /\ cursor[q] \in Nat
      <4>1. k \in Key /\ cursor[q] \in Key \union {0}
        BY <1>1, <3>1 DEF TypeOK
      <4> QED BY <4>1, KeyAssumption
    <3>3. k > cursor[q]
      BY <3>1, <3>2
    <3> QED BY <2>1, <3>1, <3>3 DEF Rest
  <2> QED BY <1>1, <1>2, <2>1, <2>2 DEF PageInv
<1> QED BY <1>3, <1>4, <1>5, <1>6 DEF PageStep

\* The page: nothing that stayed is missing from what was listed.
LEMMA RenderInv ==
  ASSUME DashboardInv, NEW q \in Request, Render(q)
  PROVE  PageInv(q)'
<1>1. /\ PageInv(q) /\ RequestInv(q) /\ DashboardTypeOK /\ TypeOK
      /\ route[q] \in {"page", "redirect"}
      /\ pc[q] = "delete" \/ (pc[q] = "next" /\ todo[q] = {})
      /\ UNCHANGED <<asked, keys, truncated, stayed, route, package>>
  BY DEF DashboardInv, BulkInv, Render
<1>2. pc'[q] = "done"
  BY <1>1 DEF Render, TypeOK
<1>3. ~truncated[q] => stayed[q] \subseteq keys[q]
  BY <1>1 DEF PageInv, RequestInv
<1>4. asked[q] = {Repository}
  BY <1>1 DEF PageInv
<1> DEFINE V == VersionsListed(keys[q], package[q])
<1>5. V' = V
  BY <1>1 DEF VersionsListed, FilesOf
<1>6. /\ view'[q] = "missing" => V = {}
      /\ view'[q] = "shown" => latest'[q] \in Latests(V)
  <2> HIDE DEF V
  <2>1. CASE view' = [view EXCEPT ![q] = "refused"]
    BY <1>1, <2>1 DEF DashboardTypeOK
  <2>2. CASE view' = [view EXCEPT ![q] = "missing"] /\ V = {}
    BY <1>1, <2>2 DEF DashboardTypeOK
  <2>3. CASE view' = [view EXCEPT ![q] = "shown"] /\ \E v \in Latests(V) : latest' = [latest EXCEPT ![q] = v]
    BY <1>1, <2>3 DEF DashboardTypeOK
  <2> QED BY <2>1, <2>2, <2>3 DEF Render, V
<1>7. Latests(V)' = Latests(V)
  BY <1>5 DEF Latests, Sortings
<1> QED BY <1>1, <1>2, <1>3, <1>4, <1>5, <1>6, <1>7 DEF PageInv

\* Every step keeps what the invariant says of a page.
LEMMA PageInvStep ==
  ASSUME DashboardInv, [DashboardNext]_dashVars, NEW q \in Request
  PROVE  PageInv(q)'
<1> USE DEF DashboardInv
<1>1. TypeOK /\ DashboardTypeOK /\ PageInv(q) /\ RequestInv(q)
  BY DEF BulkInv
<1>2. CASE Store
  <2>1. stayed'[q] \subseteq stayed[q]
    BY <1>1, <1>2 DEF Store, Upload, Delete, TypeOK
  <2>2. UNCHANGED <<pc, asked, todo, queue, keys, truncated, package, view, latest, route>>
    BY <1>2 DEF Store, Upload, Delete
  <2> QED BY <2>1, <2>2, PageStays
<1>3. ASSUME NEW r \in Request, BeginDelete(r) PROVE PageInv(q)'
  <2>1. PICK V : Begin(r, V)
    BY <1>3 DEF BeginDelete
  <2>2. UNCHANGED <<keys, truncated, queue, stayed, package, view, latest>>
        /\ route' = [route EXCEPT ![r] = "delete"]
    BY <1>3, <2>1 DEF BeginDelete, Begin
  <2>3. CASE r # q
    BY <1>1, <2>1, <2>2, <2>3, PageStays DEF Begin, TypeOK, DashboardTypeOK
  <2>4. CASE r = q
    <3>1. pc[q] = "idle" /\ view'[q] = view[q] /\ route'[q] \notin {"page", "redirect"}
      BY <1>1, <2>1, <2>2, <2>4 DEF Begin, DashboardTypeOK
    <3>2. pc[q] # "done"
      BY <3>1
    <3> QED BY <3>1, <3>2, NoPage
  <2> QED BY <2>3, <2>4
<1>4. ASSUME NEW r \in Request, NEW p \in Package, BeginDeleteVersion(r, p) PROVE PageInv(q)'
  <2>1. PICK V : Begin(r, V)
    BY <1>4 DEF BeginDeleteVersion
  <2>2. /\ UNCHANGED <<keys, truncated, queue, stayed, view, latest>>
        /\ route' = [route EXCEPT ![r] = "deleteVersion"] /\ package' = [package EXCEPT ![r] = p]
    BY <1>4, <2>1 DEF BeginDeleteVersion, Begin
  <2>3. CASE r # q
    BY <1>1, <2>1, <2>2, <2>3, PageStays DEF Begin, TypeOK, DashboardTypeOK
  <2>4. CASE r = q
    <3>1. pc[q] = "idle" /\ view'[q] = view[q] /\ route'[q] \notin {"page", "redirect"}
      BY <1>1, <2>1, <2>2, <2>4 DEF Begin, DashboardTypeOK
    <3>2. pc[q] # "done"
      BY <3>1
    <3> QED BY <3>1, <3>2, NoPage
  <2> QED BY <2>3, <2>4
<1>5. ASSUME NEW r \in Request, NEW p \in Package, BeginPage(r, p) PROVE PageInv(q)'
  <2>1. /\ Begin(r, {Repository})
        /\ route' = [route EXCEPT ![r] = "page"] /\ package' = [package EXCEPT ![r] = p]
        /\ UNCHANGED <<keys, truncated, queue, stayed, view, latest>>
    BY <1>5 DEF BeginPage, Begin
  <2>2. CASE r # q
    BY <1>1, <2>1, <2>2, PageStays DEF Begin, TypeOK, DashboardTypeOK
  <2>3. CASE r = q
    <3>1. pc[q] = "idle" /\ pc'[q] = "next" /\ asked'[q] = {Repository} /\ todo'[q] = {Repository}
      BY <1>1, <2>1, <2>3 DEF Begin, TypeOK
    <3>2. view'[q] = "none"
      BY <1>1, <2>1, <3>1 DEF PageInv
    <3> QED BY <3>1, <3>2 DEF PageInv
  <2> QED BY <2>2, <2>3
<1>6. ASSUME NEW r \in Request, DeleteStep(r) PROVE PageInv(q)'
  <2>1. route[r] \in {"delete", "deleteVersion"} /\ UNCHANGED <<route, package, view, latest>>
    BY <1>6 DEF DeleteStep
  <2>2. NextScope(r) \/ ListMore(r) \/ ListLast(r) \/ ListNone(r) \/ Audit(r) \/ Finish(r)
    BY <1>6 DEF DeleteStep
  <2>3. CASE r # q
    <3>1. /\ pc'[q] = pc[q] /\ asked'[q] = asked[q] /\ todo'[q] = todo[q] /\ queue'[q] = queue[q]
          /\ keys'[q] = keys[q] /\ truncated'[q] = truncated[q] /\ stayed'[q] = stayed[q]
      BY <1>1, <2>2, <2>3 DEF NextScope, ListMore, ListLast, ListNone, Audit, Finish, TypeOK
    <3> QED BY <2>1, <3>1, PageStays
  <2>4. CASE r = q
    <3>1. pc[q] # "done"
      BY <2>2, <2>4 DEF NextScope, ListMore, ListLast, ListNone, Audit, Finish
    <3>2. view'[q] = view[q] /\ route'[q] \notin {"page", "redirect"}
      BY <2>1, <2>4
    <3> QED BY <3>1, <3>2, NoPage
  <2> QED BY <2>3, <2>4
<1>7. ASSUME NEW r \in Request, DeleteRemove(r) PROVE PageInv(q)'
  <2>1. route[r] \in {"delete", "deleteVersion"} /\ UNCHANGED <<route, package, view, latest>>
    BY <1>7 DEF DeleteRemove
  <2>2. PICK k \in Key : Remove(r, k)
    BY <1>7 DEF DeleteRemove
  <2>3. CASE r # q
    BY <1>1, <2>1, <2>2, <2>3, PageStays DEF Remove, TypeOK
  <2>4. CASE r = q
    BY <2>1, <2>2, <2>4, NoPage DEF Remove
  <2> QED BY <2>3, <2>4
<1>8. ASSUME NEW r \in Request, PageStep(r) PROVE PageInv(q)'
  <2>1. UNCHANGED <<route, package, view, latest>>
    BY <1>8 DEF PageStep
  <2>2. NextScope(r) \/ ListMore(r) \/ ListLast(r) \/ ListNone(r)
    BY <1>8 DEF PageStep
  <2>3. CASE r # q
    <3>1. /\ pc'[q] = pc[q] /\ asked'[q] = asked[q] /\ todo'[q] = todo[q] /\ queue'[q] = queue[q]
          /\ keys'[q] = keys[q] /\ truncated'[q] = truncated[q] /\ stayed'[q] = stayed[q]
      BY <1>1, <2>2, <2>3 DEF NextScope, ListMore, ListLast, ListNone, TypeOK
    <3> QED BY <2>1, <3>1, PageStays
  <2> QED BY <1>8, <2>3, PageStepInv
<1>9. ASSUME NEW r \in Request, DashboardFault(r) PROVE PageInv(q)'
  <2>1. /\ pc[r] # "done" /\ pc' = [pc EXCEPT ![r] = "done"]
        /\ UNCHANGED <<asked, todo, queue, keys, truncated, stayed, route, package, view, latest>>
    BY <1>9 DEF DashboardFault, Fault
  <2>2. CASE r # q
    BY <1>1, <2>1, <2>2, PageStays DEF TypeOK
  <2>3. CASE r = q
    BY <1>1, <2>1, <2>3, NoPage DEF TypeOK
  <2> QED BY <2>2, <2>3
<1>10. ASSUME NEW r \in Request, Relist(r) PROVE PageInv(q)'
  <2>1. /\ pc[r] = "next" /\ route' = [route EXCEPT ![r] = "redirect"]
        /\ asked' = [asked EXCEPT ![r] = {Repository}] /\ todo' = [todo EXCEPT ![r] = {Repository}]
        /\ UNCHANGED <<pc, queue, keys, truncated, stayed, package, view, latest>>
    BY <1>10 DEF Relist
  <2>2. CASE r # q
    BY <1>1, <2>1, <2>2, PageStays DEF TypeOK, DashboardTypeOK
  <2>3. CASE r = q
    <3>1. asked'[q] = {Repository} /\ todo'[q] = {Repository} /\ pc'[q] = "next"
      BY <1>1, <2>1, <2>3 DEF TypeOK
    <3>2. view'[q] = "none"
      BY <1>1, <2>1, <2>3 DEF PageInv
    <3> QED BY <3>1, <3>2 DEF PageInv
  <2> QED BY <2>2, <2>3
<1>11. ASSUME NEW r \in Request, Render(r) PROVE PageInv(q)'
  <2>1. CASE r # q
    <3>1. pc'[q] = pc[q] /\ view'[q] = view[q] /\ latest'[q] = latest[q]
      BY <1>1, <1>11, <2>1 DEF Render, TypeOK, DashboardTypeOK
    <3>2. UNCHANGED <<asked, todo, queue, keys, truncated, stayed, route, package>>
      BY <1>11 DEF Render
    <3> QED BY <3>1, <3>2, PageStays
  <2> QED BY <1>11, <2>1, RenderInv
<1>12. ASSUME NEW r \in Request, OpenDirectory(r) \/ ShowPage(r) PROVE PageInv(q)'
  <2>1. /\ UNCHANGED <<vars, package, view, latest>>
        /\ UNCHANGED route \/ route' = [route EXCEPT ![r] = "browse"]
    BY <1>12 DEF OpenDirectory, ShowPage
  <2> QED BY <1>1, <2>1, PageStays DEF vars, DashboardTypeOK
<1>13. CASE UNCHANGED dashVars
  BY <1>13, PageStays DEF dashVars, vars
<1> QED BY <1>2, <1>3, <1>4, <1>5, <1>6, <1>7, <1>8, <1>9, <1>10, <1>11, <1>12, <1>13
        DEF DashboardNext, Serve

-----------------------------------------------------------------------------
(* The directory browser *)

\* A page is a beginning of what it is taken from, and not empty unless that is.
LEMMA PageIsBeginning ==
  ASSUME NEW E \in SUBSET Nat
  PROVE  /\ PageOf(E) \subseteq E
         /\ \A e \in E, l \in PageOf(E) : e <= l => e \in PageOf(E)
         /\ \A m \in E : (\A e \in E : m <= e) => m \in PageOf(E)
<1> \A x \in E : x \in Nat
  OBVIOUS
<1>1. ASSUME NEW l \in E
      PROVE  IsFiniteSet({f \in E : f < l}) /\ Cardinality({f \in E : f < l}) \in Nat
  <2>1. /\ {f \in E : f < l} \in SUBSET Nat /\ l \in Nat
        /\ \A f \in {g \in E : g < l} : f <= l
    <3>1. \A f \in E : f < l => f <= l
      OBVIOUS
    <3> QED BY <3>1
  <2>2. IsFiniteSet({f \in E : f < l})
    BY <2>1, FS_BoundedSetOfNaturals
  <2> QED BY <2>2, FS_CardinalityType
<1>2. ASSUME NEW e \in E, NEW l \in PageOf(E), e <= l PROVE e \in PageOf(E)
  <2>1. l \in E /\ Cardinality({f \in E : f < l}) < PageSize
    BY DEF PageOf
  <2>2. {f \in E : f < e} \in SUBSET {f \in E : f < l}
    <3>1. \A f \in E : f < e => f < l
      BY <1>2, <2>1
    <3> QED BY <3>1
  <2>3. Cardinality({f \in E : f < e}) <= Cardinality({f \in E : f < l})
    BY <1>1, <2>1, <2>2, FS_Subset
  <2>4. Cardinality({f \in E : f < e}) \in Nat /\ Cardinality({f \in E : f < l}) \in Nat
    BY <1>1, <2>1
  <2>5. Cardinality({f \in E : f < e}) < PageSize
    BY <2>1, <2>3, <2>4, PageSizeAssumption
  <2> QED BY <2>5 DEF PageOf
<1>3. ASSUME NEW m \in E, \A e \in E : m <= e PROVE m \in PageOf(E)
  <2>1. {f \in E : f < m} = {}
    <3>1. \A f \in E : ~(f < m)
      BY <1>3
    <3> QED BY <3>1
  <2>2. Cardinality({f \in E : f < m}) = 0
    BY <2>1, FS_EmptySet
  <2> QED BY <2>2, PageSizeAssumption DEF PageOf
<1> QED BY <1>2, <1>3 DEF PageOf

\* Entries are numbers.
LEMMA EntriesTypes ==
  ASSUME DashboardTypeOK, NEW q \in Request
  PROVE  /\ Listing \subseteq Entry /\ Entry \subseteq Nat
         /\ token[q] \in Nat /\ \A e \in Entry : e > 0
<1>1. \A e \in Entry : e \in Nat /\ e > 0
  BY EntriesAssumption DEF Entry
<1>2. token[q] \in Entry \union {0}
  BY DEF DashboardTypeOK
<1> QED BY <1>1, <1>2 DEF Listing, Entry, DashboardTypeOK

\* What is left alone of a walk, except that entries may go.
LEMMA WalkStays ==
  ASSUME DashboardInv, NEW q \in Request,
         /\ walk'[q] = walk[q] /\ token'[q] = token[q] /\ shown'[q] = shown[q] /\ twice'[q] = twice[q]
         /\ offered'[q] = offered[q]
         /\ remained'[q] \subseteq remained[q] \intersect Listing'
         /\ route'[q] = "browse" <=> route[q] = "browse"
  PROVE  /\ WalkInv(q)'
         /\ walk'[q] \in {"more", "end"} /\ Directory \subseteq VersionNames
              /\ remained'[q] \intersect Directory # {} => offered'[q]
<1>1. WalkInv(q) /\ VersionsSelectable
  BY DEF DashboardInv
<1>2. WalkInv(q)'
  BY <1>1 DEF WalkInv
<1> QED BY <1>1, <1>2 DEF VersionsSelectable

\* A page is shown: it is what comes next of what has been there all the time.
LEMMA ShowPageInv ==
  ASSUME DashboardInv, NEW q \in Request, ShowPage(q)
  PROVE  /\ WalkInv(q)'
         /\ walk'[q] \in {"more", "end"} /\ Directory \subseteq VersionNames
              /\ remained'[q] \intersect Directory # {} => offered'[q]
<1> DEFINE F == Following(q)
           P == PageOf(F)
<1>1. /\ DashboardTypeOK /\ WalkInv(q) /\ VersionsSelectable
      /\ Listing \subseteq Entry /\ Entry \subseteq Nat /\ token[q] \in Nat /\ \A e \in Entry : e > 0
  BY EntriesTypes DEF DashboardInv
<1>2. F \subseteq Nat /\ F = {e \in Listing : e > token[q]}
  BY <1>1 DEF Following
<1>3. /\ P \subseteq F
      /\ \A e \in F, l \in P : e <= l => e \in P
      /\ \A m \in F : (\A e \in F : m <= e) => m \in P
  BY <1>2, PageIsBeginning
<1>4. /\ walk[q] \in {"first", "more"}
      /\ shown' = [shown EXCEPT ![q] = @ \union P]
      /\ twice' = [twice EXCEPT ![q] = @ \union (shown[q] \intersect P)]
      /\ offered' = [offered EXCEPT ![q] = @ \/ (walk[q] = "first" /\ VersionsOffered(P))]
      /\ \/ P = F /\ walk' = [walk EXCEPT ![q] = "end"]
         \/ /\ walk' = [walk EXCEPT ![q] = "more"]
            /\ \E e \in P : IsLast(e, P) /\ token' = [token EXCEPT ![q] = e]
      /\ UNCHANGED <<present, route, made, remained>>
  BY DEF ShowPage, vars
<1> HIDE DEF F, P
<1>5. /\ shown'[q] = shown[q] \union P
      /\ twice'[q] = twice[q] \union (shown[q] \intersect P)
      /\ offered'[q] = (offered[q] \/ (walk[q] = "first" /\ VersionsOffered(P)))
      /\ walk'[q] \in {"more", "end"}
      /\ walk'[q] = "end" => P = F
      /\ walk'[q] = "more" => token'[q] \in P /\ \A e \in P : e <= token'[q]
  BY <1>1, <1>4 DEF DashboardTypeOK, IsLast
<1>6. route[q] = "browse" /\ Listing' = Listing
  BY <1>1, <1>4 DEF WalkInv, Listing, Children
<1>7. /\ \A e \in shown[q] : e <= token[q] /\ e \in Nat
      /\ \A e \in remained[q] : e <= token[q] => e \in shown[q]
  <2>1. shown[q] \subseteq Entry /\ remained[q] \subseteq Entry
    BY <1>1 DEF DashboardTypeOK
  <2>2. CASE walk[q] = "first"
    <3>1. token[q] = 0 /\ shown[q] = {}
      BY <1>1, <2>2 DEF WalkInv
    <3>2. \A e \in remained[q] : ~(e <= token[q])
      <4>1. \A e \in remained[q] : e \in Nat /\ e > 0
        BY <1>1, <2>1
      <4> QED BY <3>1, <4>1
    <3> QED BY <3>1, <3>2
  <2>3. CASE walk[q] = "more"
    BY <1>1, <2>1, <2>3 DEF WalkInv
  <2> QED BY <1>4, <2>2, <2>3
<1>8. twice'[q] = {}
  <2>1. \A e \in P : ~(e <= token[q])
    BY <1>1, <1>2, <1>3
  <2>2. shown[q] \intersect P = {}
    BY <1>7, <2>1
  <2> QED BY <1>1, <1>5, <2>2 DEF WalkInv
<1>9. \A e \in remained[q] : e \in shown[q] \/ e \in F
  <2> SUFFICES ASSUME NEW e \in remained[q], ~(e <= token[q]) PROVE e \in F
    BY <1>7
  <2>1. e \in Listing /\ e \in Nat
    BY <1>1 DEF WalkInv
  <2> QED BY <1>1, <1>2, <2>1
<1>10. ASSUME walk'[q] = "end" PROVE WalkInv(q)'
  <2>1. remained'[q] \subseteq shown'[q]
    BY <1>4, <1>5, <1>9, <1>10
  <2> QED BY <1>1, <1>4, <1>5, <1>6, <1>8, <1>10, <2>1 DEF WalkInv
<1>11. ASSUME walk'[q] = "more" PROVE WalkInv(q)'
  <2>1. token'[q] \in P /\ token'[q] \in Nat /\ token'[q] > token[q]
    BY <1>1, <1>2, <1>3, <1>5, <1>11
  <2>2. \A e \in shown'[q] : e <= token'[q]
    <3>1. \A e \in shown[q] : e <= token'[q]
      BY <1>1, <1>7, <2>1
    <3> QED BY <1>5, <1>11, <3>1
  <2>3. \A e \in remained[q] : e <= token'[q] => e \in shown'[q]
    BY <1>3, <1>5, <1>9, <2>1
  <2> QED BY <1>1, <1>4, <1>5, <1>6, <1>8, <1>11, <2>2, <2>3 DEF WalkInv
<1>12. ASSUME Directory \subseteq VersionNames, remained'[q] \intersect Directory # {} PROVE offered'[q]
  <2>1. CASE walk[q] = "first"
    <3>1. PICK d \in remained[q] : d \in Directory
      BY <1>4, <1>12
    <3>2. d \in Listing /\ token[q] = 0 /\ d \in F
      BY <1>1, <1>2, <2>1, <3>1 DEF WalkInv
    <3>3. PICK m \in F : \A e \in F : m <= e
      BY <1>2, <3>2, Least
    <3>4. m \in P /\ m \in Entry
      BY <1>1, <1>2, <1>3, <3>3
    <3>5. m \in Directory
      <4>1. m <= d /\ m \in Nat /\ d \in Nat
        BY <1>1, <1>2, <3>2, <3>3
      <4>2. m \notin File
        <5> SUFFICES ASSUME m \in File PROVE FALSE
          OBVIOUS
        <5>1. d < m
          BY <3>1, EntriesAssumption
        <5> QED BY <4>1, <5>1
      <4> QED BY <3>4, <4>2 DEF Entry
    <3>6. VersionsOffered(P)
      BY <1>12, <3>4, <3>5 DEF VersionsOffered
    <3> QED BY <1>5, <2>1, <3>6
  <2>2. CASE walk[q] = "more"
    <3>1. offered[q]
      BY <1>1, <1>4, <1>12, <2>2 DEF VersionsSelectable
    <3> QED BY <1>5, <3>1
  <2> QED BY <1>4, <2>1, <2>2
<1> QED BY <1>5, <1>10, <1>11, <1>12

\* Every step keeps what the invariant says of a walk.
LEMMA WalkInvStep ==
  ASSUME DashboardInv, [DashboardNext]_dashVars, NEW q \in Request
  PROVE  /\ WalkInv(q)'
         /\ walk'[q] \in {"more", "end"} /\ Directory \subseteq VersionNames
              /\ remained'[q] \intersect Directory # {} => offered'[q]
<1> DEFINE Goal == /\ WalkInv(q)'
                   /\ walk'[q] \in {"more", "end"} /\ Directory \subseteq VersionNames
                        /\ remained'[q] \intersect Directory # {} => offered'[q]
<1>1. DashboardTypeOK /\ WalkInv(q)
  BY DEF DashboardInv
<1>2. ASSUME UNCHANGED <<present, made, walk, token, shown, twice, remained, offered>>,
             route'[q] = "browse" <=> route[q] = "browse"
      PROVE  Goal
  <2>1. Listing' = Listing
    BY <1>2 DEF Listing, Children
  <2>2. /\ walk'[q] = walk[q] /\ token'[q] = token[q] /\ shown'[q] = shown[q]
        /\ twice'[q] = twice[q] /\ offered'[q] = offered[q] /\ remained'[q] = remained[q]
    BY <1>2
  <2>3. remained[q] \subseteq Listing
    BY <1>1 DEF WalkInv
  <2>4. remained'[q] \subseteq remained[q] \intersect Listing'
    BY <2>1, <2>2, <2>3
  <2> QED BY <1>2, <2>2, <2>4, WalkStays
<1>3. ASSUME DirectoryFollows, UNCHANGED route PROVE Goal
  <2>1. remained'[q] = remained[q] \intersect Listing'
    BY <1>1, <1>3 DEF DirectoryFollows, DashboardTypeOK
  <2>2. UNCHANGED <<walk, token, shown, twice, offered, route>>
    BY <1>3 DEF DirectoryFollows
  <2> QED BY <2>1, <2>2, WalkStays
<1> HIDE DEF Goal
<1>4. ASSUME Store PROVE Goal
  BY <1>3, <1>4 DEF Store
<1>5. ASSUME NEW r \in Request, BeginDelete(r) PROVE Goal
  <2>1. route[r] = "none" /\ route' = [route EXCEPT ![r] = "delete"]
    BY <1>5 DEF BeginDelete
  <2>2. UNCHANGED <<present, made, walk, token, shown, twice, remained, offered>>
    BY <1>5 DEF BeginDelete, Begin
  <2> QED BY <1>1, <1>2, <2>1, <2>2 DEF DashboardTypeOK
<1>6. ASSUME NEW r \in Request, NEW p \in Package, BeginDeleteVersion(r, p) \/ BeginPage(r, p)
      PROVE  Goal
  <2>1. /\ route[r] = "none"
        /\ route' = [route EXCEPT ![r] = "deleteVersion"] \/ route' = [route EXCEPT ![r] = "page"]
    BY <1>6 DEF BeginDeleteVersion, BeginPage
  <2>2. UNCHANGED <<present, made, walk, token, shown, twice, remained, offered>>
    BY <1>6 DEF BeginDeleteVersion, BeginPage, Begin
  <2> QED BY <1>1, <1>2, <2>1, <2>2 DEF DashboardTypeOK
<1>7. ASSUME NEW r \in Request, DeleteStep(r) \/ PageStep(r) \/ DashboardFault(r) PROVE Goal
  <2>1. UNCHANGED <<route, made, walk, token, shown, twice, remained, offered>>
    BY <1>7 DEF DeleteStep, PageStep, DashboardFault
  <2>2. UNCHANGED present
    BY <1>7 DEF DeleteStep, PageStep, DashboardFault, NextScope, ListMore, ListLast, ListNone,
                Audit, Finish, Fault
  <2> QED BY <1>2, <2>1, <2>2
<1>8. ASSUME NEW r \in Request, DeleteRemove(r) PROVE Goal
  BY <1>3, <1>8 DEF DeleteRemove
<1>9. ASSUME NEW r \in Request, Relist(r) PROVE Goal
  <2>1. route[r] = "deleteVersion" /\ route' = [route EXCEPT ![r] = "redirect"]
    BY <1>9 DEF Relist
  <2>2. UNCHANGED <<present, made, walk, token, shown, twice, remained, offered>>
    BY <1>9 DEF Relist
  <2> QED BY <1>1, <1>2, <2>1, <2>2 DEF DashboardTypeOK
<1>10. ASSUME NEW r \in Request, Render(r) PROVE Goal
  <2>1. UNCHANGED <<present, route, made, walk, token, shown, twice, remained, offered>>
    BY <1>10 DEF Render
  <2> QED BY <1>2, <2>1
<1>11. ASSUME NEW r \in Request, OpenDirectory(r) PROVE Goal
  <2>1. /\ route[r] = "none" /\ route' = [route EXCEPT ![r] = "browse"]
        /\ walk' = [walk EXCEPT ![r] = "first"]
        /\ remained' = [remained EXCEPT ![r] = Listing]
        /\ UNCHANGED <<present, made, token, shown, twice, offered>>
    BY <1>11 DEF OpenDirectory, vars
  <2>2. Listing' = Listing
    BY <2>1 DEF Listing, Children
  <2>3. CASE r = q
    <3>1. walk[q] = "idle" /\ token[q] = 0 /\ shown[q] = {} /\ twice[q] = {}
      BY <1>1, <2>1, <2>3 DEF WalkInv
    <3>2. walk'[q] = "first" /\ remained'[q] = Listing'
      BY <1>1, <2>1, <2>2, <2>3 DEF DashboardTypeOK
    <3>3. route'[q] = "browse"
      BY <1>1, <2>1, <2>3 DEF DashboardTypeOK
    <3> QED BY <2>1, <3>1, <3>2, <3>3 DEF Goal, WalkInv
  <2>4. CASE r # q
    <3>1. walk'[q] = walk[q] /\ remained'[q] = remained[q] /\ route'[q] = route[q]
      BY <1>1, <2>1, <2>4 DEF DashboardTypeOK
    <3>2. remained[q] \subseteq Listing'
      BY <1>1, <2>2 DEF WalkInv
    <3> QED BY <2>1, <3>1, <3>2, WalkStays DEF Goal
  <2> QED BY <2>3, <2>4
<1>12. ASSUME NEW r \in Request, ShowPage(r) PROVE Goal
  <2>1. CASE r = q
    BY <1>12, <2>1, ShowPageInv DEF Goal
  <2>2. CASE r # q
    <3>1. /\ walk'[q] = walk[q] /\ token'[q] = token[q] /\ shown'[q] = shown[q]
          /\ twice'[q] = twice[q] /\ offered'[q] = offered[q]
      BY <1>1, <1>12, <2>2 DEF ShowPage, DashboardTypeOK
    <3>2. UNCHANGED <<present, made, route, remained>>
      BY <1>12 DEF ShowPage, vars
    <3>3. remained'[q] \subseteq Listing'
      BY <1>1, <3>2 DEF WalkInv, Listing, Children
    <3> QED BY <3>1, <3>2, <3>3, WalkStays DEF Goal
  <2> QED BY <2>1, <2>2
<1>13. ASSUME UNCHANGED dashVars PROVE Goal
  BY <1>2, <1>13 DEF dashVars, vars
<1>14. Goal
  BY <1>4, <1>5, <1>6, <1>7, <1>8, <1>9, <1>10, <1>11, <1>12, <1>13 DEF DashboardNext, Serve
<1> QED BY <1>14 DEF Goal

-----------------------------------------------------------------------------
(* Theorems about the dashboard *)

\* The inductive invariant holds in every reachable state.
THEOREM DashboardInvariant == DashboardSpec => []DashboardInv
<1>1. DashboardInit => DashboardInv
  <2> SUFFICES ASSUME DashboardInit PROVE DashboardInv
    OBVIOUS
  <2>1. BulkInv
    BY BulkInit DEF DashboardInit
  <2>2. DashboardTypeOK
    BY <2>1 DEF DashboardInit, DashboardTypeOK, Routes, BulkInv
  <2>3. ASSUME NEW q \in Request PROVE PageInv(q)
    BY <2>3 DEF DashboardInit, PageInv
  <2>4. ASSUME NEW q \in Request PROVE WalkInv(q) /\ walk[q] = "idle"
    BY <2>4 DEF DashboardInit, WalkInv
  <2>5. VersionsSelectable
    BY <2>4 DEF VersionsSelectable
  <2> QED BY <2>1, <2>2, <2>3, <2>4, <2>5 DEF DashboardInv
<1>2. DashboardInv /\ [DashboardNext]_dashVars => DashboardInv'
  <2> SUFFICES ASSUME DashboardInv, [DashboardNext]_dashVars PROVE DashboardInv'
    OBVIOUS
  <2>1. BulkInv'
    BY BulkInvStays DEF DashboardInv
  <2>2. DashboardTypeOK'
    BY <2>1, DashboardTypes DEF DashboardInv, BulkInv
  <2>3. VersionsSelectable'
    BY WalkInvStep DEF VersionsSelectable
  <2> QED BY <2>1, <2>2, <2>3, PageInvStep, WalkInvStep DEF DashboardInv
<1> QED BY <1>1, <1>2, PTL DEF DashboardSpec

\* Every variable keeps its type.
THEOREM DashboardTypeCorrect == DashboardSpec => []DashboardTypeOK
<1>1. DashboardInv => DashboardTypeOK
  BY DEF DashboardInv
<1> QED BY <1>1, DashboardInvariant, PTL

\* Pagination misses nothing that was there throughout a deletion, for any page size and
\* whatever is uploaded, deleted and viewed between two pages,
THEOREM NothingMissedHolds == DashboardSpec => []NothingMissed
<1>1. DashboardInv => NothingMissed
  BY BulkSafe DEF DashboardInv
<1> QED BY <1>1, DashboardInvariant, PTL

\* 404 and success tell the truth about what was removed,
THEOREM AnswersHonestHold == DashboardSpec => []AnswersHonest
<1>1. DashboardInv => AnswersHonest
  BY BulkSafe DEF DashboardInv
<1> QED BY <1>1, DashboardInvariant, PTL

\* and, where the backend lists no more than a directory, nothing outside the chosen
\* ones is removed: all that the safety of a deletion asks of list_prefix.
THEOREM DeletionsInScope ==
  ASSUME \A v \in Scope : Matches[v] \subseteq Under[v]
  PROVE  DashboardSpec => []ScopeRespected
<1>1. DashboardInv => ScopeRespected
  BY BulkSafe DEF DashboardInv
<1> QED BY <1>1, DashboardInvariant, PTL

\* The cap cuts no listing off before it is reached, at its very number of keys, for any
\* repository of finitely many keys: only a prefix with more loses some.
THEOREM CutOffOnlyAtCap ==
  ASSUME IsFiniteSet(Key)
  PROVE  DashboardSpec => []((\A q \in Request : ListingInv(q)) /\ CompleteUpToCap)
<1> DEFINE LInv == \A q \in Request : ListingInv(q)
<1>1. DashboardInit => LInv
  BY DEF DashboardInit, Init, ListingInv
<1>2. DashboardInv /\ LInv /\ [DashboardNext]_dashVars => LInv'
  BY ListingStep DEF DashboardInv
<1>3. ASSUME DashboardInv, LInv PROVE CompleteUpToCap
  <2> SUFFICES ASSUME NEW q \in Request, pc[q] = "delete", queue[q] = {},
                      Cardinality(Matches[scope[q]]) <= MaxPages * FetchSize
               PROVE  stayed[q] = {}
    BY DEF CompleteUpToCap
  <2>1. TypeOK /\ RequestInv(q) /\ ListingInv(q)
    BY <1>3 DEF DashboardInv, BulkInv
  <2>2. scope[q] \in Scope
    BY <2>1 DEF TypeOK, RequestInv
  <2>3. ASSUME truncated[q] PROVE FALSE
    <3>1. IsFiniteSet(Matches[scope[q]])
      BY <2>2, ScopesAssumption, FS_Subset
    <3>2. /\ Cardinality(keys[q]) <= Cardinality(Matches[scope[q]])
          /\ Cardinality(keys[q]) # Cardinality(Matches[scope[q]])
      BY <2>1, <2>3, <3>1, FS_Subset DEF ListingInv
    <3>3. Cardinality(keys[q]) \in Nat /\ Cardinality(Matches[scope[q]]) \in Nat
      BY <2>1, <2>3, <3>1, FS_Subset, FS_CardinalityType DEF ListingInv
    <3> QED BY <2>1, <2>3, <3>2, <3>3 DEF ListingInv
  <2> QED BY <2>1, <2>3 DEF RequestInv
<1>4. DashboardInv /\ LInv => LInv /\ CompleteUpToCap
  BY <1>3
<1> HIDE DEF LInv
<1>5. DashboardSpec => [](LInv /\ CompleteUpToCap)
  BY <1>1, <1>2, <1>4, DashboardInvariant, PTL DEF DashboardSpec
<1> QED BY <1>5 DEF LInv

\* A page that says the package is gone is right of every file that stayed.
THEOREM PagesHonestHold == DashboardSpec => []PagesHonest
<1>1. ASSUME DashboardInv, NEW q \in Request, Rendered(q), ~truncated[q], view[q] = "missing"
      PROVE  VersionsListed(stayed[q], package[q]) = {}
  <2>1. stayed[q] \subseteq keys[q] /\ VersionsListed(keys[q], package[q]) = {}
    BY <1>1 DEF DashboardInv, PageInv
  <2> QED BY <2>1 DEF VersionsListed, FilesOf
<1>2. DashboardInv => PagesHonest
  BY <1>1 DEF PagesHonest
<1> QED BY <1>2, DashboardInvariant, PTL

\* A walk shows no entry twice and misses none that stayed, for any page size.
THEOREM WalkFaithfulHolds == DashboardSpec => []WalkFaithful
<1>1. DashboardInv => WalkFaithful
  BY DEF DashboardInv, WalkInv, WalkFaithful
<1> QED BY <1>1, DashboardInvariant, PTL

\* The first page of an artifact's directory offers the deletion of versions.
THEOREM VersionsSelectableHolds == DashboardSpec => []VersionsSelectable
<1>1. DashboardInv => VersionsSelectable
  BY DEF DashboardInv
<1> QED BY <1>1, DashboardInvariant, PTL

\* The version a page calls the latest comes before none that stayed, for versions of
\* any number of parts, if there are finitely many.
THEOREM LatestIsNewestHolds ==
  ASSUME IsFiniteSet(Version)
  PROVE  DashboardSpec => []LatestIsNewest
<1>1. ASSUME DashboardInv, NEW q \in Request, Rendered(q), ~truncated[q], view[q] = "shown",
             \A v \in VersionsListed(keys[q], package[q]) : Numeric(v),
             NEW v \in VersionsListed(stayed[q], package[q])
      PROVE  ~Precedes(latest[q], v)
  <2> DEFINE V == VersionsListed(keys[q], package[q])
  <2>1. stayed[q] \subseteq keys[q] /\ latest[q] \in Latests(V)
    BY <1>1 DEF DashboardInv, PageInv
  <2>2. keys[q] \subseteq Key
    BY <1>1 DEF DashboardInv, DashboardTypeOK, TypeOK
  <2>3. V \in SUBSET Version
    BY <2>2, PackagesAssumption DEF VersionsListed, FilesOf
  <2>4. v \in V
    BY <1>1, <2>1 DEF VersionsListed, FilesOf
  <2>5. IsFiniteSet(V)
    BY <2>3, FS_Subset
  <2> HIDE DEF V
  <2> QED BY <1>1, <2>1, <2>3, <2>4, <2>5, LastIsNewest DEF V
<1>2. DashboardInv => LatestIsNewest
  BY <1>1 DEF LatestIsNewest
<1> QED BY <1>2, DashboardInvariant, PTL

\* For numeric versions, pages that list the same agree on the latest, whichever of
\* its possible results sorted() returns to each: Precedes is a total order of their
\* parts, and Older contains it.
THEOREM LatestAgreesHolds ==
  ASSUME IsFiniteSet(Version)
  PROVE  DashboardSpec => []LatestAgrees
<1>1. ASSUME DashboardInv, NEW p \in Request, NEW q \in Request,
             Rendered(p), view[p] = "shown", Rendered(q), view[q] = "shown",
             VersionsListed(keys[q], package[q]) = VersionsListed(keys[p], package[p]),
             \A v \in VersionsListed(keys[p], package[p]) : Numeric(v)
      PROVE  Parts[latest[p]] = Parts[latest[q]]
  <2> DEFINE V == VersionsListed(keys[p], package[p])
  <2>1. latest[p] \in Latests(V) /\ latest[q] \in Latests(V)
    BY <1>1 DEF DashboardInv, PageInv
  <2>2. keys[p] \subseteq Key
    BY <1>1 DEF DashboardInv, DashboardTypeOK, TypeOK
  <2>3. V \in SUBSET Version
    BY <2>2, PackagesAssumption DEF VersionsListed, FilesOf
  <2>4. IsFiniteSet(V)
    BY <2>3, FS_Subset
  <2>5. \A v \in V : Numeric(v)
    BY <1>1
  <2> HIDE DEF V
  <2> QED BY <2>1, <2>3, <2>4, <2>5, LastIsDetermined
<1>2. DashboardInv => LatestAgrees
  BY <1>1 DEF LatestAgrees
<1> QED BY <1>2, DashboardInvariant, PTL

-----------------------------------------------------------------------------
(* Requests end *)

\* Products of the counts.
LEMMA Products ==
  /\ \A n, w \in Nat : n * w \in Nat
  /\ \A n, w \in Nat : n # 0 => (n - 1) * w = n * w - w
  /\ \A m, n, w \in Nat : m <= n => m * w <= n * w
OBVIOUS

\* What a request still has to delete or list is finite, and its counts are numbers.
LEMMA Counts ==
  ASSUME IsFiniteSet(Key), IsFiniteSet(Scope), NEW T \in SUBSET Scope, NEW Q \in SUBSET Key
  PROVE  /\ IsFiniteSet(T) /\ Cardinality(T) \in Nat /\ Cardinality(T) <= Cardinality(Scope)
         /\ IsFiniteSet(Q) /\ Cardinality(Q) \in Nat /\ Cardinality(Q) <= Cardinality(Key)
         /\ Cardinality(Key) \in Nat /\ Cardinality(Scope) \in Nat /\ MaxPages \in Nat
         /\ PrefixWork \in Nat /\ PrefixWork = MaxPages + Cardinality(Key) + 3
         /\ Cardinality(T) * PrefixWork \in Nat
         /\ Cardinality(Scope) * PrefixWork \in Nat
<1>1. /\ IsFiniteSet(T) /\ Cardinality(T) <= Cardinality(Scope)
      /\ IsFiniteSet(Q) /\ Cardinality(Q) <= Cardinality(Key)
  BY FS_Subset
<1>2. /\ Cardinality(T) \in Nat /\ Cardinality(Q) \in Nat
      /\ Cardinality(Key) \in Nat /\ Cardinality(Scope) \in Nat
  BY <1>1, FS_CardinalityType
<1>3. PrefixWork \in Nat /\ PrefixWork = MaxPages + Cardinality(Key) + 3
  BY <1>2, PagesAssumption DEF PrefixWork
<1> QED BY <1>1, <1>2, <1>3, PagesAssumption, Products

\* So the measure of a request is a natural number before a step
LEMMA WorkNumbers ==
  ASSUME IsFiniteSet(Key), IsFiniteSet(Scope), TypeOK, NEW q \in Request
  PROVE  /\ IsFiniteSet(todo[q]) /\ Cardinality(todo[q]) \in Nat
         /\ IsFiniteSet(queue[q]) /\ Cardinality(queue[q]) \in Nat
         /\ Cardinality(queue[q]) <= Cardinality(Key)
         /\ pages[q] \in Nat /\ pages[q] < MaxPages
         /\ Cardinality(Key) \in Nat /\ Cardinality(Scope) \in Nat /\ MaxPages \in Nat
         /\ PrefixWork \in Nat /\ PrefixWork = MaxPages + Cardinality(Key) + 3
         /\ Cardinality(todo[q]) * PrefixWork \in Nat
         /\ Work(q) \in Nat
<1>1. todo[q] \in SUBSET Scope /\ queue[q] \in SUBSET Key /\ pages[q] \in 0..MaxPages - 1
  BY DEF TypeOK
<1>2. pages[q] \in Nat /\ pages[q] < MaxPages
  BY <1>1, PagesAssumption
<1>3. pc[q] \in {"idle", "next", "list", "delete", "done"}
  BY DEF TypeOK
<1>4. Work(q) \in Nat
  BY <1>1, <1>2, <1>3, Counts DEF Work
<1> QED BY <1>1, <1>2, <1>4, Counts

\* and after one.
LEMMA WorkLeft ==
  ASSUME IsFiniteSet(Key), IsFiniteSet(Scope), TypeOK', NEW q \in Request
  PROVE  Work(q)' \in Nat
<1>1. todo'[q] \in SUBSET Scope /\ queue'[q] \in SUBSET Key /\ pages'[q] \in 0..MaxPages - 1
  BY DEF TypeOK
<1>2. pages'[q] \in Nat /\ pages'[q] < MaxPages
  BY <1>1, PagesAssumption
<1>3. pc'[q] \in {"idle", "next", "list", "delete", "done"}
  BY DEF TypeOK
<1>4. Work(q)' = CASE pc'[q] = "idle" -> Cardinality(Scope) * PrefixWork + 1
                   [] pc'[q] = "next" -> Cardinality(todo'[q]) * PrefixWork + 1
                   [] pc'[q] = "list" -> Cardinality(todo'[q]) * PrefixWork
                                           + (MaxPages - pages'[q]) + Cardinality(Key) + 3
                   [] pc'[q] = "delete" -> Cardinality(todo'[q]) * PrefixWork
                                             + Cardinality(queue'[q]) + 2
                   [] pc'[q] = "done" -> 0
  BY DEF Work, PrefixWork
<1> QED BY <1>1, <1>2, <1>3, <1>4, Counts

\* A call of a request that deletes or lists leaves it with less work.
LEMMA ProceedWork ==
  ASSUME IsFiniteSet(Key), IsFiniteSet(Scope), BulkInv, TypeOK', NEW q \in Request, Proceed(q)
  PROVE  Work(q)' < Work(q)
<1> DEFINE K == Cardinality(Key)
           W == PrefixWork
           N == Cardinality(todo[q])
           M == Cardinality(queue[q])
<1>1. /\ N \in Nat /\ M \in Nat /\ M <= K /\ K \in Nat /\ W \in Nat /\ W = MaxPages + K + 3
      /\ pages[q] \in Nat /\ pages[q] < MaxPages /\ MaxPages \in Nat /\ N * W \in Nat
      /\ IsFiniteSet(todo[q]) /\ IsFiniteSet(queue[q])
  BY WorkNumbers DEF BulkInv
<1>2. CASE NextScope(q)
  <2>1. PICK v \in todo[q] : todo' = [todo EXCEPT ![q] = todo[q] \ {v}]
    BY <1>2 DEF NextScope
  <2>2. /\ pc[q] = "next" /\ pc' = [pc EXCEPT ![q] = "list"] /\ pages' = [pages EXCEPT ![q] = 0]
    BY <1>2 DEF NextScope
  <2>3. pc'[q] = "list" /\ pages'[q] = 0 /\ todo'[q] = todo[q] \ {v}
    BY <2>1, <2>2 DEF BulkInv, TypeOK
  <2>4. Cardinality(todo'[q]) = N - 1 /\ N # 0
    <3>1. Cardinality(todo[q] \ {v}) = N - 1
      BY <1>1, FS_RemoveElement
    <3>2. N # 0
      BY <1>1, FS_EmptySet
    <3> QED BY <2>3, <3>1, <3>2
  <2>5. (N - 1) * W = N * W - W
    BY <1>1, <2>4, Products
  <2>6. Work(q) = N * W + 1
    BY <2>2 DEF Work
  <2>7. Work(q)' = Cardinality(todo'[q]) * W + (MaxPages - 0) + K + 3
    BY <2>3 DEF Work, PrefixWork
  <2> HIDE DEF N, W, K, M
  <2> QED BY <1>1, <2>4, <2>5, <2>6, <2>7
<1>3. CASE Finish(q)
  <2>1. pc[q] = "next" /\ pc'[q] = "done"
    BY <1>3 DEF Finish, BulkInv, TypeOK
  <2>2. Work(q) = N * W + 1 /\ Work(q)' = 0
    BY <2>1 DEF Work
  <2> QED BY <1>1, <2>2
<1>4. CASE ListMore(q)
  <2>1. /\ pc[q] = "list" /\ pc'[q] = "list" /\ pages'[q] = pages[q] + 1 /\ todo'[q] = todo[q]
    BY <1>4 DEF ListMore, BulkInv, TypeOK
  <2>2. /\ Work(q) = N * W + (MaxPages - pages[q]) + K + 3
        /\ Work(q)' = N * W + (MaxPages - (pages[q] + 1)) + K + 3
    BY <2>1 DEF Work, PrefixWork
  <2> HIDE DEF N, W, K, M
  <2> QED BY <1>1, <2>2
<1>5. CASE ListLast(q)
  <2>1. pc[q] = "list" /\ pc'[q] = "delete" /\ todo'[q] = todo[q]
    BY <1>5 DEF ListLast, BulkInv, TypeOK
  <2>2. Cardinality(queue'[q]) \in Nat /\ Cardinality(queue'[q]) <= K
    <3>1. queue'[q] \in SUBSET Key
      BY DEF TypeOK
    <3> QED BY <3>1, FS_Subset, FS_CardinalityType
  <2>3. /\ Work(q) = N * W + (MaxPages - pages[q]) + K + 3
        /\ Work(q)' = N * W + Cardinality(queue'[q]) + 2
    BY <2>1 DEF Work, PrefixWork
  <2> HIDE DEF N, W, K, M
  <2> QED BY <1>1, <2>2, <2>3
<1>6. CASE ListNone(q)
  <2>1. pc[q] = "list" /\ pc'[q] = "next" /\ todo'[q] = todo[q]
    BY <1>6 DEF ListNone, BulkInv, TypeOK
  <2>2. /\ Work(q) = N * W + (MaxPages - pages[q]) + K + 3
        /\ Work(q)' = N * W + 1
    BY <2>1 DEF Work, PrefixWork
  <2> HIDE DEF N, W, K, M
  <2> QED BY <1>1, <2>2
<1>7. ASSUME NEW k \in Key, Remove(q, k) PROVE Work(q)' < Work(q)
  <2>1. /\ pc[q] = "delete" /\ pc'[q] = "delete" /\ todo'[q] = todo[q]
        /\ k \in queue[q] /\ queue'[q] = queue[q] \ {k}
    BY <1>7 DEF Remove, BulkInv, TypeOK
  <2>2. Cardinality(queue'[q]) = M - 1
    <3>1. Cardinality(queue[q] \ {k}) = M - 1
      BY <1>1, <2>1, FS_RemoveElement
    <3> QED BY <2>1, <3>1
  <2>3. Work(q) = N * W + M + 2 /\ Work(q)' = N * W + Cardinality(queue'[q]) + 2
    BY <2>1 DEF Work, PrefixWork
  <2> HIDE DEF N, W, K, M
  <2> QED BY <1>1, <2>2, <2>3
<1>8. CASE Audit(q)
  <2>1. pc[q] = "delete" /\ pc'[q] = "next" /\ todo'[q] = todo[q]
    BY <1>8 DEF Audit, BulkInv, TypeOK
  <2>2. Work(q) = N * W + M + 2 /\ Work(q)' = N * W + 1
    BY <2>1 DEF Work, PrefixWork
  <2> HIDE DEF N, W, K, M
  <2> QED BY <1>1, <2>2
<1> QED BY <1>2, <1>3, <1>4, <1>5, <1>6, <1>7, <1>8 DEF Proceed

\* Nobody else adds to it, and a fault ends it; a request begins with no more than is
\* reckoned for one that has not begun.
LEMMA OthersWork ==
  ASSUME IsFiniteSet(Key), IsFiniteSet(Scope), BulkInv, TypeOK', NEW q \in Request,
         \/ \E p \in Request :
              (\E V \in SUBSET Scope : Begin(p, V)) \/ Fault(p) \/ (p # q /\ Proceed(p))
         \/ \E k \in Key : Upload(k) \/ Delete(k)
         \/ UNCHANGED vars
  PROVE  Work(q)' <= Work(q)
<1> DEFINE Same == /\ pc'[q] = pc[q] /\ todo'[q] = todo[q]
                   /\ pages'[q] = pages[q] /\ queue'[q] = queue[q]
           Goal == Work(q)' <= Work(q)
<1>1. Work(q) \in Nat
  BY WorkNumbers DEF BulkInv
<1>2. ASSUME Same PROVE Goal
  <2>1. Work(q)' = Work(q)
    BY <1>2 DEF Work, PrefixWork
  <2> QED BY <1>1, <2>1
<1>3. ASSUME pc'[q] = "done" PROVE Goal
  <2>1. Work(q)' = 0
    BY <1>3 DEF Work
  <2> QED BY <1>1, <2>1
<1>4. ASSUME NEW V \in SUBSET Scope, Begin(q, V) PROVE Goal
  <2>1. pc[q] = "idle" /\ pc'[q] = "next" /\ todo'[q] = V
    BY <1>4 DEF Begin, BulkInv, TypeOK
  <2>2. /\ Work(q) = Cardinality(Scope) * PrefixWork + 1
        /\ Work(q)' = Cardinality(V) * PrefixWork + 1
    BY <2>1 DEF Work, PrefixWork
  <2>3. IsFiniteSet(V) /\ Cardinality(V) <= Cardinality(Scope)
    BY FS_Subset
  <2>4. Cardinality(V) \in Nat /\ Cardinality(Scope) \in Nat /\ PrefixWork \in Nat
    BY <2>3, FS_CardinalityType, WorkNumbers DEF BulkInv
  <2>5. Cardinality(V) * PrefixWork <= Cardinality(Scope) * PrefixWork
    BY <2>3, <2>4, Products
  <2>6. Cardinality(V) * PrefixWork \in Nat /\ Cardinality(Scope) * PrefixWork \in Nat
    BY <2>4, Products
  <2> QED BY <2>2, <2>5, <2>6
<1> HIDE DEF Goal
<1>5. ASSUME NEW p \in Request, NEW V \in SUBSET Scope, Begin(p, V) PROVE Goal
  <2>1. CASE p = q
    BY <1>4, <1>5, <2>1
  <2>2. CASE p # q
    BY <1>2, <1>5, <2>2 DEF Begin, BulkInv, TypeOK
  <2> QED BY <2>1, <2>2
<1>6. ASSUME NEW p \in Request, Fault(p) PROVE Goal
  <2>1. CASE p = q
    BY <1>3, <1>6, <2>1 DEF Fault, BulkInv, TypeOK
  <2>2. CASE p # q
    BY <1>2, <1>6, <2>2 DEF Fault, BulkInv, TypeOK
  <2> QED BY <2>1, <2>2
<1>7. ASSUME NEW p \in Request, p # q, Proceed(p) PROVE Goal
  <2>1. Same
    BY <1>7 DEF Proceed, NextScope, Finish, ListMore, ListLast, ListNone, Remove, Audit,
       BulkInv, TypeOK
  <2> QED BY <1>2, <2>1
<1>8. ASSUME (\E k \in Key : Upload(k) \/ Delete(k)) \/ UNCHANGED vars PROVE Goal
  BY <1>2, <1>8 DEF Upload, Delete, vars
<1> QED BY <1>5, <1>6, <1>7, <1>8 DEF Goal

\* The steps of a request itself, those that choose a redirect and render included.
LEMMA ServeWork ==
  ASSUME IsFiniteSet(Key), IsFiniteSet(Scope), DashboardInv, TypeOK', NEW q \in Request, Serve(q)
  PROVE  RequestWork(q)' < RequestWork(q)
<1> DEFINE W == PrefixWork
<1>1. BulkInv /\ TypeOK
  BY DEF DashboardInv, BulkInv
<1>2. W \in Nat /\ Work(q) \in Nat
  BY <1>1, WorkNumbers
<1>3. CASE DeleteStep(q) \/ DeleteRemove(q) \/ PageStep(q)
  <2>1. Proceed(q) /\ UNCHANGED route
    BY <1>3 DEF DeleteStep, DeleteRemove, PageStep, Proceed
  <2>2. Work(q)' < Work(q)
    BY <1>1, <2>1, ProceedWork
  <2>3. Work(q)' \in Nat
    BY WorkLeft
  <2> QED BY <1>2, <2>1, <2>2, <2>3 DEF RequestWork, PrefixWork
<1>4. CASE Relist(q)
  <2>1. /\ route[q] = "deleteVersion" /\ route'[q] = "redirect"
        /\ pc[q] = "next" /\ pc'[q] = "next" /\ todo[q] = {} /\ todo'[q] = {Repository}
    BY <1>1, <1>4 DEF Relist, DashboardInv, DashboardTypeOK, TypeOK
  <2>2. Cardinality({}) = 0 /\ Cardinality({Repository}) = 1
    BY FS_EmptySet, FS_Singleton
  <2>3. 0 * W = 0 /\ 1 * W = W
    BY <1>2
  <2>4. RequestWork(q) = 0 * W + 1 + (W + 1) /\ RequestWork(q)' = 1 * W + 1 + 0
    BY <2>1, <2>2 DEF RequestWork, Work, PrefixWork
  <2> QED BY <1>2, <2>3, <2>4
<1>5. CASE Render(q)
  <2>1. /\ route'[q] = route[q] /\ route[q] \in {"page", "redirect"}
        /\ pc[q] \in {"delete", "next"} /\ pc'[q] = "done"
    BY <1>1, <1>5 DEF Render, TypeOK
  <2>2. RequestWork(q) = Work(q) /\ RequestWork(q)' = 0 /\ Work(q) # 0
    BY <1>1, <2>1, WorkNumbers DEF RequestWork, Work
  <2> QED BY <1>2, <2>2
<1> QED BY <1>3, <1>4, <1>5 DEF Serve

\* Nothing that is not a step of a request makes its work longer.
LEMMA DashboardWork ==
  ASSUME IsFiniteSet(Key), IsFiniteSet(Scope), DashboardInv, TypeOK', NEW q \in Request,
         [DashboardNext]_dashVars, ~Serve(q)
  PROVE  RequestWork(q)' <= RequestWork(q)
<1> DEFINE Goal == RequestWork(q)' <= RequestWork(q)
           MayRelist == route'[q] \in {"none", "deleteVersion"} => route[q] \in {"none", "deleteVersion"}
<1>1. PrefixWork \in Nat /\ Work(q) \in Nat /\ Work(q)' \in Nat /\ BulkInv
  BY WorkNumbers, WorkLeft DEF DashboardInv, BulkInv
<1>2. ASSUME MayRelist, Work(q)' <= Work(q) PROVE Goal
  BY <1>1, <1>2 DEF RequestWork, PrefixWork
<1> HIDE DEF Goal
<1> USE DEF DashboardInv, DashboardTypeOK
<1>3. ASSUME Store PROVE Goal
  <2>1. (\E k \in Key : Upload(k) \/ Delete(k)) /\ UNCHANGED route
    BY <1>3 DEF Store
  <2> QED BY <1>1, <1>2, <2>1, OthersWork
<1>4. ASSUME NEW p \in Request,
             BeginDelete(p) \/ (\E a \in Package : BeginDeleteVersion(p, a) \/ BeginPage(p, a))
      PROVE  Goal
  <2>1. \E V \in SUBSET Scope : Begin(p, V)
    BY <1>4, RoutesAssumption DEF BeginDelete, BeginDeleteVersion, BeginPage
  <2>2. MayRelist
    BY <1>4 DEF BeginDelete, BeginDeleteVersion, BeginPage
  <2> QED BY <1>1, <1>2, <2>1, <2>2, OthersWork
<1>5. ASSUME NEW p \in Request, DashboardFault(p) PROVE Goal
  BY <1>1, <1>2, <1>5, OthersWork DEF DashboardFault
<1>6. ASSUME NEW p \in Request, p # q, Serve(p) PROVE Goal
  <2>1. CASE DeleteStep(p) \/ DeleteRemove(p) \/ PageStep(p)
    <3>1. Proceed(p) /\ UNCHANGED route
      BY <2>1 DEF DeleteStep, DeleteRemove, PageStep, Proceed
    <3> QED BY <1>1, <1>2, <1>6, <3>1, OthersWork
  <2>2. CASE Relist(p) \/ Render(p)
    <3>1. /\ pc'[q] = pc[q] /\ todo'[q] = todo[q] /\ pages'[q] = pages[q]
          /\ queue'[q] = queue[q] /\ route'[q] = route[q]
      BY <1>1, <1>6, <2>2 DEF Relist, Render, TypeOK
    <3>2. Work(q)' = Work(q)
      BY <3>1 DEF Work, PrefixWork
    <3> QED BY <1>1, <1>2, <3>1, <3>2
  <2> QED BY <1>6, <2>1, <2>2 DEF Serve
<1>7. ASSUME NEW p \in Request, OpenDirectory(p) \/ ShowPage(p) PROVE Goal
  <2>1. UNCHANGED vars /\ MayRelist
    BY <1>7 DEF OpenDirectory, ShowPage
  <2> QED BY <1>1, <1>2, <2>1, OthersWork
<1>8. ASSUME UNCHANGED dashVars PROVE Goal
  <2>1. UNCHANGED vars /\ MayRelist
    BY <1>8 DEF dashVars
  <2> QED BY <1>1, <1>2, <2>1, OthersWork
<1>9. ASSUME DashboardNext PROVE Goal
  <2>1. PICK p \in Request : Store \/ BeginDelete(p)
          \/ (\E a \in Package : BeginDeleteVersion(p, a) \/ BeginPage(p, a))
          \/ Serve(p) \/ DashboardFault(p) \/ OpenDirectory(p) \/ ShowPage(p)
    BY <1>9 DEF DashboardNext
  <2> QED BY <1>3, <1>4, <1>5, <1>6, <1>7, <2>1
<1> QED BY <1>8, <1>9 DEF Goal

\* The safety half of RequestsEnd, for any number of requests, keys and prefixes: what
\* fairness owes a request is a number of calls that is fixed when it begins.
THEOREM WorkShrinksHolds ==
  ASSUME IsFiniteSet(Key), IsFiniteSet(Scope)
  PROVE  DashboardSpec => [](\A q \in Request : RequestWork(q) \in Nat) /\ WorkShrinks
<1> DEFINE Counted == \A q \in Request : RequestWork(q) \in Nat
           Step == \A q \in Request :
                     /\ RequestWork(q)' <= RequestWork(q)
                     /\ Serve(q) => RequestWork(q)' < RequestWork(q)
<1>1. ASSUME DashboardInv PROVE Counted
  <2> SUFFICES ASSUME NEW q \in Request PROVE RequestWork(q) \in Nat
    OBVIOUS
  <2>1. Work(q) \in Nat /\ PrefixWork \in Nat
    BY <1>1, WorkNumbers DEF DashboardInv, BulkInv
  <2> QED BY <2>1 DEF RequestWork
<1>2. ASSUME DashboardInv, DashboardInv', [DashboardNext]_dashVars PROVE Step
  <2> SUFFICES ASSUME NEW q \in Request
               PROVE  /\ RequestWork(q)' <= RequestWork(q)
                      /\ Serve(q) => RequestWork(q)' < RequestWork(q)
    OBVIOUS
  <2>1. TypeOK'
    BY <1>2 DEF DashboardInv, BulkInv
  <2>2. Work(q) \in Nat /\ Work(q)' \in Nat /\ PrefixWork \in Nat
    BY <1>2, <2>1, WorkNumbers, WorkLeft DEF DashboardInv, BulkInv
  <2>3. RequestWork(q) \in Nat /\ RequestWork(q)' \in Nat
    BY <2>2 DEF RequestWork, PrefixWork
  <2> QED BY <1>2, <2>1, <2>3, ServeWork, DashboardWork
<1>3. DashboardInv => Counted
  BY <1>1
<1>4. DashboardInv /\ DashboardInv' /\ [DashboardNext]_dashVars => [Step]_dashVars
  BY <1>2
<1> HIDE DEF Counted, Step
<1>5. DashboardSpec => []Counted /\ [][Step]_dashVars
  BY <1>3, <1>4, DashboardInvariant, PTL DEF DashboardSpec
<1> QED BY <1>5 DEF Counted, Step, WorkShrinks
===============================================================================
