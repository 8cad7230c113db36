-------------------------- MODULE RateLimiterProofs --------------------------
(***************************************************************************)
(* Proofs about RateLimiter, for any requests, clients, limit and window.  *)
(***************************************************************************)
EXTENDS RateLimiter, FiniteSetTheorems, TLAPS

\* The clock is past everything that has happened.
PastOK == \A r \in Requests : looked[r] <= now /\ ended[r] <= now

\* What is in a list got through.
ListsOK == \A c \in Clients : \A q \in attempts[c] : step[q] = "passed"

(***************************************************************************)
(* What a request has read and filtered are requests of its client that    *)
(* got through within the window before it looked.                         *)
(***************************************************************************)
RecentOK ==
  \A r \in Requests : \A q \in recent[r] :
    /\ ClientOf[q] = ClientOf[r]
    /\ step[q] = "passed"
    /\ step[r] # "new"
    /\ ended[q] <= looked[r]
    /\ ended[q] + Window > looked[r]

RefusedOK == \A r \in Requests : step[r] = "refused" => Limited(r)

LimitInv == TypeOK /\ PastOK /\ ListsOK /\ RecentOK /\ RefusedOK

\* Before the first request all lists are empty.
LEMMA InitLimitInv == Init => LimitInv
  BY RateLimiterAssumption
  DEF Init, LimitInv, TypeOK, PastOK, ListsOK, RecentOK, RefusedOK, Step

\* What a request reads while another one overwrites or extends the list, and what it
\* then puts back, are attempts of its own client.
LEMMA NextLimitInv == LimitInv /\ [Next]_vars => LimitInv'
<1> SUFFICES ASSUME LimitInv, [Next]_vars
             PROVE  LimitInv'
  OBVIOUS
<1> USE RateLimiterAssumption
<1>1. ASSUME NEW r \in Requests, Look(r)
      PROVE  LimitInv'
  <2>1. /\ TypeOK'
        /\ PastOK'
        /\ ListsOK'
        /\ RefusedOK'
    BY <1>1 DEF Look, LimitInv, TypeOK, PastOK, ListsOK, RecentOK, RefusedOK, Limited, Step,
                Recent, ListOf
  <2>2. RecentOK'
    BY <1>1 DEF Look, LimitInv, TypeOK, PastOK, ListsOK, RecentOK, Recent, ListOf, Step
  <2>3. QED
    BY <2>1, <2>2 DEF LimitInv
<1>2. ASSUME NEW r \in Requests, Check(r)
      PROVE  LimitInv'
  <2>1. /\ TypeOK'
        /\ PastOK'
    BY <1>2 DEF Check, LimitInv, TypeOK, PastOK, RecentOK, Step, ListOf
  <2>2. /\ ListsOK'
        /\ RecentOK'
        /\ RefusedOK'
    BY <1>2 DEF Check, LimitInv, TypeOK, ListsOK, RecentOK, RefusedOK, Limited, Step, ListOf
  <2>3. QED
    BY <2>1, <2>2 DEF LimitInv
<1>3. ASSUME NEW r \in Requests, Record(r)
      PROVE  LimitInv'
  <2>1. /\ TypeOK'
        /\ PastOK'
    BY <1>3 DEF Record, LimitInv, TypeOK, PastOK, Step, ListOf, Recent
  <2>2. /\ ListsOK'
        /\ RecentOK'
        /\ RefusedOK'
    BY <1>3 DEF Record, LimitInv, TypeOK, ListsOK, RecentOK, RefusedOK, Limited, Step, ListOf,
                Recent
  <2>3. QED
    BY <2>1, <2>2 DEF LimitInv
<1>4. CASE Tick
  BY <1>4 DEF Tick, LimitInv, TypeOK, PastOK, ListsOK, RecentOK, RefusedOK, Limited, Step
<1>5. CASE UNCHANGED vars
  BY <1>5 DEF vars, LimitInv, TypeOK, PastOK, ListsOK, RecentOK, RefusedOK, Limited
<1>6. QED
  BY <1>1, <1>2, <1>3, <1>4, <1>5 DEF Next

(***************************************************************************)
(* However the requests interleave with the overwriting of the list, none  *)
(* is refused unless MaxAttempts of its client passed in the window.       *)
(***************************************************************************)
THEOREM NoRefusalInVain == Spec => []RefusedOnlyOverLimit
<1>1. LimitInv => RefusedOnlyOverLimit
  <2> SUFFICES ASSUME LimitInv, NEW r \in Requests, step[r] = "refused"
               PROVE  MaxAttempts <= Cardinality({q \in Passed(ClientOf[r]) :
                        ended[q] <= looked[r] /\ ended[q] + Window > looked[r]})
    BY DEF RefusedOnlyOverLimit
  <2> DEFINE S == {q \in Passed(ClientOf[r]) :
                     ended[q] <= looked[r] /\ ended[q] + Window > looked[r]}
  <2>1. recent[r] \subseteq S
    BY DEF LimitInv, TypeOK, RecentOK, Passed
  <2>2. IsFiniteSet(S)
    BY FS_Subset, RateLimiterAssumption DEF Passed
  <2>3. /\ IsFiniteSet(recent[r])
        /\ Cardinality(recent[r]) <= Cardinality(S)
    BY <2>1, <2>2, FS_Subset
  <2>4. Cardinality(recent[r]) \in Nat /\ Cardinality(S) \in Nat
    BY <2>2, <2>3, FS_CardinalityType
  <2>5. Cardinality(recent[r]) >= MaxAttempts
    BY DEF LimitInv, RefusedOK, Limited
  <2>6. QED
    BY <2>3, <2>4, <2>5, RateLimiterAssumption
<1>2. QED
  BY <1>1, InitLimitInv, NextLimitInv, PTL DEF Spec

(***************************************************************************)
(* Every variable of the limiter stays in its type: a list, whatever is    *)
(* put back over it, holds requests of its own client only.                *)
(***************************************************************************)
THEOREM TypeCorrect == Spec => []TypeOK
<1>1. LimitInv => TypeOK
  BY DEF LimitInv
<1>2. QED
  BY <1>1, InitLimitInv, NextLimitInv, PTL DEF Spec

-----------------------------------------------------------------------------
GotThrough == {q \in Requests : step[q] = "passed"}

\* A request that went on was below the limit.
BelowOK == \A r \in Requests : step[r] \in {"allowed", "passed"} => ~Limited(r)

EndedOK == \A r \in Requests : step[r] \in {"passed", "refused"} => looked[r] <= ended[r]

\* Of any requests that got through one was the last.
LastOK == \A T \in SUBSET GotThrough :
            T # {} => \E r \in T : \A q \in T : ended[q] <= ended[r]

(***************************************************************************)
(* Of a client that waits for each answer nothing is lost: what got        *)
(* through is in its list, and was in it when a later request looked, or   *)
(* was out of the window by then.                                          *)
(***************************************************************************)
NothingLost(c) ==
  /\ \A q \in Passed(c) : q \in attempts[c] \/ ended[q] + Window <= now
  /\ \A r \in Requests : ClientOf[r] = c /\ step[r] # "new" => \A q \in Passed(c) :
       ended[q] < looked[r] => q \in recent[r] \/ ended[q] + Window <= looked[r]

OrderInv ==
  /\ BelowOK /\ EndedOK /\ LastOK
  /\ \A c \in Clients : OneAtATime(c) => NothingLost(c)

\* A client that waits now has waited all along.
LEMMA WaitedBefore ==
  ASSUME LimitInv, [Next]_vars, NEW c \in Clients, OneAtATime(c)'
  PROVE  OneAtATime(c)
<1> USE RateLimiterAssumption
<1> SUFFICES ASSUME NEW q \in Requests, NEW r \in Requests, q # r,
                    ClientOf[q] = c, ClientOf[r] = c, step[q] # "new", step[r] # "new"
             PROVE  Before(q, r) \/ Before(r, q)
  BY DEF OneAtATime
<1>t. /\ now \in Nat /\ step \in [Requests -> Step]
      /\ \A x \in Requests : /\ looked[x] \in Nat /\ ended[x] \in Nat
                             /\ looked[x] <= now /\ ended[x] <= now
      /\ looked \in [Requests -> 0 .. MaxTime] /\ ended \in [Requests -> 0 .. MaxTime]
  BY DEF LimitInv, TypeOK, PastOK
<1>1. ASSUME NEW x \in Requests, NEW y \in Requests, x # y, step[x] # "new", step[y] # "new",
             Before(x, y)'
      PROVE  Before(x, y)
  <2>1. looked'[y] = looked[y]
    BY <1>1, <1>t DEF Next, Look, Check, Record, Tick, vars
  <2>2. ended'[x] < looked[y]
    BY <1>1, <2>1 DEF Before
  <2>3. \/ step'[x] = step[x] /\ ended'[x] = ended[x]
        \/ ended'[x] = now
        \/ step'[x] = "allowed"
    BY <1>1, <1>t DEF Next, Look, Check, Record, Tick, vars
  <2>4. ended'[x] # now
    BY <1>t, <2>2
  <2>5. QED
    BY <1>1, <2>1, <2>3, <2>4 DEF Before
<1>2. step'[q] # "new" /\ step'[r] # "new"
  BY <1>t DEF Next, Look, Check, Record, Tick, vars
<1>3. Before(q, r)' \/ Before(r, q)'
  BY <1>2 DEF OneAtATime
<1>4. QED
  BY <1>1, <1>3

\* Before the first request nothing got through.
LEMMA InitOrderInv == Init => OrderInv
  BY RateLimiterAssumption
  DEF Init, OrderInv, BelowOK, EndedOK, LastOK, GotThrough, NothingLost, Passed

(***************************************************************************)
(* A request that has looked and not ended came after every request of a   *)
(* client that waits for its answers.                                      *)
(***************************************************************************)
LEMMA LastToLook ==
  ASSUME LimitInv, NEW c \in Clients, OneAtATime(c), NEW r \in Requests, ClientOf[r] = c,
         step[r] \in {"checking", "allowed"}, NEW q \in Passed(c)
  PROVE  q # r /\ ended[q] < looked[r]
<1>1. q # r /\ step[q] # "new" /\ step[r] # "new" /\ ~Before(r, q)
  BY DEF Passed, Before
<1>2. QED
  BY <1>1 DEF OneAtATime, Before, Passed

\* Of requests that got through earlier and one that gets through now, that one is last.
LEMMA LastKept ==
  ASSUME LimitInv, LastOK, NEW r \in Requests, ended'[r] = now,
         \A q \in Requests \ {r} : ended'[q] = ended[q],
         GotThrough' \subseteq GotThrough \cup {r}
  PROVE  LastOK'
<1> SUFFICES ASSUME NEW T \in SUBSET GotThrough', T # {}
             PROVE  \E m \in T : \A q \in T : ended'[q] <= ended'[m]
  BY DEF LastOK
<1>1. CASE r \in T
  BY <1>1 DEF LimitInv, PastOK, GotThrough, TypeOK
<1>2. CASE r \notin T
  <2>1. T \in SUBSET GotThrough
    BY <1>2
  <2>2. PICK m \in T : \A q \in T : ended[q] <= ended[m]
    BY <2>1 DEF LastOK
  <2>3. \A q \in T : ended'[q] = ended[q]
    BY <1>2, <2>1 DEF GotThrough
  <2>4. QED
    BY <2>2, <2>3
<1>3. QED
  BY <1>1, <1>2

\* A request that looks sees all that counts, and what it puts back loses nothing.
LEMMA NextOrderInv == LimitInv /\ OrderInv /\ [Next]_vars => OrderInv'
<1> SUFFICES ASSUME LimitInv, OrderInv, [Next]_vars PROVE OrderInv'
  OBVIOUS
<1> USE RateLimiterAssumption
<1>t. /\ now \in Nat /\ MaxTime \in Nat
      /\ step \in [Requests -> Step]
      /\ attempts \in [Clients -> SUBSET Requests]
      /\ recent \in [Requests -> SUBSET Requests]
      /\ looked \in [Requests -> 0 .. MaxTime] /\ ended \in [Requests -> 0 .. MaxTime]
      /\ \A x \in Requests : /\ looked[x] \in Nat /\ ended[x] \in Nat
                             /\ looked[x] <= now /\ ended[x] <= now
  BY DEF LimitInv, TypeOK, PastOK
<1>o. ASSUME NEW c \in Clients, OneAtATime(c)' PROVE OneAtATime(c) /\ NothingLost(c)
  BY <1>o, WaitedBefore DEF OrderInv
<1>1. ASSUME NEW r \in Requests, Look(r) PROVE OrderInv'
  <2>1. /\ step[r] = "new" /\ step' = [step EXCEPT ![r] = "checking"]
        /\ looked' = [looked EXCEPT ![r] = now]
        /\ recent' = [recent EXCEPT ![r] = Recent(attempts[ClientOf[r]])]
        /\ UNCHANGED <<now, attempts, ended>>
    BY <1>1 DEF Look, ListOf
  <2>2. BelowOK' /\ EndedOK'
    BY <1>t, <2>1 DEF OrderInv, BelowOK, EndedOK, Limited
  <2>3. LastOK'
    <3>1. GotThrough' = GotThrough
      BY <1>t, <2>1 DEF GotThrough
    <3>2. QED
      BY <2>1, <3>1 DEF OrderInv, LastOK
  <2>4. ASSUME NEW c \in Clients, OneAtATime(c)' PROVE NothingLost(c)'
    <3>1. NothingLost(c) /\ Passed(c)' = Passed(c)
      BY <1>t, <1>o, <2>1, <2>4 DEF Passed
    <3>2. ASSUME NEW x \in Requests, ClientOf[x] = c, step'[x] # "new", NEW q \in Passed(c),
                 ended[q] < looked'[x]
          PROVE  q \in recent'[x] \/ ended[q] + Window <= looked'[x]
      <4>1. CASE x = r
        <5>1. recent'[x] = Recent(attempts[c]) /\ looked'[x] = now
          BY <1>t, <2>1, <3>2, <4>1
        <5>2. q \in attempts[c] \/ ended[q] + Window <= now
          BY <3>1, <3>2 DEF NothingLost
        <5>3. q \in Requests /\ ended[q] \in Nat
          BY <1>t, <3>2 DEF Passed
        <5>4. QED
          BY <1>t, <5>1, <5>2, <5>3 DEF Recent
      <4>2. CASE x # r
        BY <1>t, <2>1, <3>1, <3>2, <4>2 DEF NothingLost
      <4>3. QED
        BY <4>1, <4>2
    <3>3. QED
      BY <2>1, <3>1, <3>2 DEF NothingLost
  <2>5. QED
    BY <2>2, <2>3, <2>4 DEF OrderInv
<1>2. ASSUME NEW r \in Requests, Check(r) PROVE OrderInv'
  <2>1. /\ step[r] = "checking"
        /\ step' = [step EXCEPT ![r] = IF Limited(r) THEN "refused" ELSE "allowed"]
        /\ ended' = [ended EXCEPT ![r] = IF Limited(r) THEN now ELSE @]
        /\ \/ UNCHANGED attempts
           \/ attempts' = [attempts EXCEPT ![ClientOf[r]] = recent[r]]
        /\ UNCHANGED <<now, looked, recent>>
    BY <1>2 DEF Check, ListOf
  <2>2. BelowOK' /\ EndedOK'
    BY <1>t, <2>1 DEF OrderInv, BelowOK, EndedOK, Limited
  <2>3. LastOK'
    <3>1. GotThrough' = GotThrough /\ r \notin GotThrough
      BY <1>t, <2>1 DEF GotThrough
    <3>2. \A q \in GotThrough : ended'[q] = ended[q]
      BY <1>t, <2>1, <3>1 DEF GotThrough
    <3>3. QED
      BY <3>1, <3>2 DEF OrderInv, LastOK
  <2>4. ASSUME NEW c \in Clients, OneAtATime(c)' PROVE NothingLost(c)'
    <3>1. OneAtATime(c) /\ NothingLost(c)
      BY <1>o, <2>4
    <3>2. /\ Passed(c)' = Passed(c) /\ \A q \in Passed(c) : ended'[q] = ended[q]
          /\ \A q \in Passed(c) : q \in Requests /\ ended[q] \in Nat
      BY <1>t, <2>1 DEF Passed
    <3>3. ASSUME NEW q \in Passed(c)
          PROVE  q \in attempts'[c] \/ ended[q] + Window <= now
      <4>1. q \in attempts[c] \/ ended[q] + Window <= now
        BY <3>1, <3>3 DEF NothingLost
      <4>2. CASE ClientOf[r] = c
        <5>1. ended[q] < looked[r]
          BY <2>1, <3>1, <3>3, <4>2, LastToLook
        <5>2. q \in recent[r] \/ ended[q] + Window <= looked[r]
          BY <2>1, <3>1, <3>3, <4>2, <5>1 DEF NothingLost
        <5>3. q \in recent[r] \/ ended[q] + Window <= now
          BY <1>t, <3>2, <5>2
        <5>4. QED
          BY <1>t, <2>1, <4>1, <4>2, <5>3
      <4>3. CASE ClientOf[r] # c
        BY <1>t, <2>1, <4>1, <4>3
      <4>4. QED
        BY <4>2, <4>3
    <3>4. \A x \in Requests : step'[x] # "new" => step[x] # "new"
      BY <1>t, <2>1
    <3>5. QED
      BY <2>1, <3>1, <3>2, <3>3, <3>4 DEF NothingLost
  <2>5. QED
    BY <2>2, <2>3, <2>4 DEF OrderInv
<1>3. ASSUME NEW r \in Requests, Record(r) PROVE OrderInv'
  <2>1. /\ step[r] = "allowed" /\ step' = [step EXCEPT ![r] = "passed"]
        /\ ended' = [ended EXCEPT ![r] = now]
        /\ attempts' = [attempts EXCEPT ![ClientOf[r]] = Recent(@) \cup {r}]
        /\ UNCHANGED <<now, looked, recent>>
    BY <1>3 DEF Record, ListOf
  <2>2. BelowOK' /\ EndedOK'
    BY <1>t, <2>1 DEF OrderInv, BelowOK, EndedOK, Limited
  <2>3. LastOK'
    <3>1. GotThrough' \subseteq GotThrough \cup {r}
      BY <1>t, <2>1 DEF GotThrough
    <3>2. ended'[r] = now /\ \A q \in Requests \ {r} : ended'[q] = ended[q]
      BY <1>t, <2>1
    <3>3. QED
      BY <3>1, <3>2, LastKept DEF OrderInv
  <2>4. ASSUME NEW c \in Clients, OneAtATime(c)' PROVE NothingLost(c)'
    <3>1. OneAtATime(c) /\ NothingLost(c)
      BY <1>o, <2>4
    <3>2. /\ Passed(c)' \subseteq Passed(c) \cup {r}
          /\ r \in Passed(c)' => ClientOf[r] = c
          /\ r \notin Passed(c)
          /\ \A q \in Passed(c) : ended'[q] = ended[q] /\ q \in Requests /\ ended[q] \in Nat
          /\ ended'[r] = now
      BY <1>t, <2>1 DEF Passed
    <3>3. ASSUME NEW q \in Passed(c)'
          PROVE  q \in attempts'[c] \/ ended'[q] + Window <= now
      <4>1. CASE q = r
        BY <1>t, <2>1, <3>2, <3>3, <4>1
      <4>2. CASE q # r
        <5>1. q \in Passed(c) /\ ended'[q] = ended[q]
          BY <3>2, <3>3, <4>2
        <5>2. q \in attempts[c] \/ ended[q] + Window <= now
          BY <3>1, <5>1 DEF NothingLost
        <5>3. q \in attempts[c] => q \in Recent(attempts[c]) \/ ended[q] + Window <= now
          BY <1>t, <3>2, <5>1 DEF Recent
        <5>4. attempts'[c] \in {attempts[c], Recent(attempts[c]) \cup {r}}
          BY <1>t, <2>1
        <5>5. QED
          BY <5>1, <5>2, <5>3, <5>4
      <4>3. QED
        BY <4>1, <4>2
    <3>4. ASSUME NEW x \in Requests, ClientOf[x] = c, step'[x] # "new", NEW q \in Passed(c)',
                 ended'[q] < looked[x]
          PROVE  q \in recent[x] \/ ended'[q] + Window <= looked[x]
      <4>1. q # r
        BY <1>t, <3>2, <3>4
      <4>2. step[x] # "new" /\ q \in Passed(c) /\ ended'[q] = ended[q]
        BY <1>t, <2>1, <3>2, <3>4, <4>1
      <4>3. QED
        BY <3>1, <3>4, <4>2 DEF NothingLost
    <3>5. QED
      BY <2>1, <3>3, <3>4 DEF NothingLost
  <2>5. QED
    BY <2>2, <2>3, <2>4 DEF OrderInv
<1>4. CASE Tick
  <2>1. now' = now + 1 /\ UNCHANGED <<attempts, step, looked, recent, ended>>
    BY <1>4 DEF Tick
  <2>2. BelowOK' /\ EndedOK' /\ LastOK'
    BY <2>1 DEF OrderInv, BelowOK, EndedOK, LastOK, GotThrough, Limited
  <2>3. ASSUME NEW c \in Clients, OneAtATime(c)' PROVE NothingLost(c)'
    <3>1. NothingLost(c) /\ Passed(c)' = Passed(c)
      BY <1>o, <2>1, <2>3 DEF Passed
    <3>2. \A q \in Passed(c) : ended[q] \in Nat
      BY <1>t DEF Passed
    <3>3. QED
      BY <1>t, <2>1, <3>1, <3>2 DEF NothingLost
  <2>4. QED
    BY <2>2, <2>3 DEF OrderInv
<1>5. CASE UNCHANGED vars
  <2>1. UNCHANGED <<now, attempts, step, looked, recent, ended>>
    BY <1>5 DEF vars
  <2>2. QED
    BY <2>1 DEF OrderInv, BelowOK, EndedOK, LastOK, GotThrough, Limited, OneAtATime, Before,
       NothingLost, Passed
<1>6. QED
  BY <1>1, <1>2, <1>3, <1>4, <1>5 DEF Next

(***************************************************************************)
(* A client that waits for each answer gets MaxAttempts requests through   *)
(* in a window at most, although IsRateLimited and RecordAttempt are two   *)
(* steps and other clients' requests come in between.                      *)
(***************************************************************************)
THEOREM LimitHolds == Spec => []LimitHoldsOneAtATime
<1>1. LimitInv /\ OrderInv => LimitHoldsOneAtATime
  <2> SUFFICES ASSUME LimitInv, OrderInv, NEW c \in Clients, OneAtATime(c), NEW t \in 0 .. MaxTime
               PROVE  Cardinality({q \in Passed(c) : ended[q] <= t /\ ended[q] + Window > t})
                        <= MaxAttempts
    BY DEF LimitHoldsOneAtATime
  <2> DEFINE S == {q \in Passed(c) : ended[q] <= t /\ ended[q] + Window > t}
  <2>1. S \subseteq GotThrough /\ S \subseteq Requests
    BY DEF Passed, GotThrough
  <2>2. IsFiniteSet(S)
    BY <2>1, FS_Subset, RateLimiterAssumption
  <2>3. CASE S = {}
    BY <2>3, FS_EmptySet, RateLimiterAssumption
  <2>4. CASE S # {}
    <3>1. PICK r \in S : \A q \in S : ended[q] <= ended[r]
      BY <2>1, <2>4 DEF OrderInv, LastOK
    <3>2. /\ r \in Requests /\ ClientOf[r] = c /\ step[r] = "passed"
          /\ looked[r] <= ended[r] /\ ended[r] <= t
          /\ looked[r] \in Nat /\ ended[r] \in Nat /\ t \in Nat
      BY <3>1, RateLimiterAssumption DEF Passed, OrderInv, EndedOK, LimitInv, TypeOK
    <3>3. ASSUME NEW q \in S, q # r PROVE q \in recent[r]
      <4>1. /\ q \in Requests /\ ClientOf[q] = c /\ step[q] = "passed" /\ q \in Passed(c)
            /\ looked[q] <= ended[q] /\ ended[q] + Window > t /\ ended[q] <= ended[r]
            /\ looked[q] \in Nat /\ ended[q] \in Nat
        BY <3>1, <3>3 DEF Passed, OrderInv, EndedOK, LimitInv, TypeOK
      <4>2. ended[q] < looked[r]
        BY <3>2, <3>3, <4>1 DEF OneAtATime, Before
      <4>3. q \in recent[r] \/ ended[q] + Window <= looked[r]
        BY <3>2, <4>1, <4>2 DEF OrderInv, NothingLost
      <4>4. QED
        BY <3>2, <4>1, <4>3, RateLimiterAssumption
    <3> HIDE DEF S
    <3>4. IsFiniteSet(recent[r]) /\ Cardinality(recent[r]) \in Nat
      BY <3>2, FS_Subset, FS_CardinalityType, RateLimiterAssumption DEF LimitInv, TypeOK
    <3>5. Cardinality(recent[r]) < MaxAttempts
      BY <3>2, <3>4, RateLimiterAssumption DEF OrderInv, BelowOK, Limited
    <3>6. /\ IsFiniteSet(recent[r] \cup {r})
          /\ Cardinality(recent[r] \cup {r}) <= Cardinality(recent[r]) + 1
      BY <3>4, FS_AddElement
    <3>7. S \subseteq recent[r] \cup {r}
      BY <3>3
    <3>8. Cardinality(S) <= Cardinality(recent[r] \cup {r})
      BY <3>6, <3>7, FS_Subset
    <3>9. Cardinality(S) \in Nat /\ Cardinality(recent[r] \cup {r}) \in Nat
      BY <2>2, <3>6, FS_CardinalityType
    <3>10. Cardinality(S) <= MaxAttempts
      BY <3>4, <3>5, <3>6, <3>8, <3>9, RateLimiterAssumption
    <3>11. QED
      BY <3>10 DEF S
  <2>5. QED
    BY <2>3, <2>4
<1>2. Init => LimitInv /\ OrderInv
  BY InitLimitInv, InitOrderInv
<1>3. (LimitInv /\ OrderInv) /\ [Next]_vars => (LimitInv /\ OrderInv)'
  BY NextLimitInv, NextOrderInv
<1>4. QED
  BY <1>1, <1>2, <1>3, PTL DEF Spec
=============================================================================
