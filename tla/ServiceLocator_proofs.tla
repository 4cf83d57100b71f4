------------------------ MODULE ServiceLocator_proofs ------------------------
(***************************************************************************)
(* Proofs about the service locator, for any number of threads, services   *)
(* and dependencies, and whomever the mutex lets go first.                   *)
(***************************************************************************)
EXTENDS ServiceLocator, SequenceTheorems, TLAPS

-----------------------------------------------------------------------------
(* The invariant: the mutex excludes, and the references are good. *)

\* A call that holds the mutex to register is the only one that holds it.
Exclusive ==
  \A t, u \in Thread : \A i \in DOMAIN calls[t] : \A j \in DOMAIN calls[u] :
    /\ calls[t][i].op = "register" /\ calls[t][i].holds
    /\ calls[u][j].holds
    => t = u /\ i = j

\* A call whose factory makes an instance for the scope of its thread.
Makes(c) == c.op = "resolve" /\ c.holds /\ c.found = "factory" /\ c.lifetime = "Scoped"

\* The scope it looked up is still there.
ScopeOpen == \A t \in Thread : \A i \in DOMAIN calls[t] : Makes(calls[t][i]) => scopeStack[t] # <<>>

\* Clear, one step once it may own the mutex, is never seen to hold it.
ClearIsOneStep ==
  \A t \in Thread : \A i \in DOMAIN calls[t] : calls[t][i].holds => calls[t][i].op # "clear"

IInv == LocatorTypeOK /\ Exclusive /\ DescriptorStable /\ ScopeOpen /\ ClearIsOneStep

\* The step gives nobody the mutex, and those that keep it keep what they hold.
Kept ==
  \A t \in Thread : \A i \in DOMAIN calls'[t] :
    calls'[t][i].holds =>
      /\ i \in DOMAIN calls[t] /\ calls[t][i].holds
      /\ calls'[t][i].op = calls[t][i].op
      /\ calls'[t][i].service = calls[t][i].service
      /\ calls'[t][i].lifetime = calls[t][i].lifetime
      /\ calls'[t][i].found = calls[t][i].found

\* A thread that goes on with a call keeps a scope, if it has one.
ScopesStay == \A t \in Thread : calls'[t] # <<>> /\ scopeStack[t] # <<>> => scopeStack'[t] # <<>>

-----------------------------------------------------------------------------
(* The stacks of calls. *)

LEMMA Stacks ==
  ASSUME NEW S, NEW s \in Seq(S), s # <<>>
  PROVE  /\ Len(s) \in Nat /\ Len(s) > 0 /\ DOMAIN s = 1..Len(s)
         /\ Last(s) = s[Len(s)] /\ Last(s) \in S
         /\ Front(s) \in Seq(S) /\ DOMAIN Front(s) = 1..(Len(s) - 1)
         /\ \A i \in 1..(Len(s) - 1) : Front(s)[i] = s[i]
<1>1. Len(s) \in Nat /\ Len(s) > 0 /\ DOMAIN s = 1..Len(s)
  OBVIOUS
<1>2. Last(s) = s[Len(s)] /\ Last(s) \in S
  BY <1>1 DEF Last
<1>3. Front(s) = SubSeq(s, 1, Len(s) - 1)
  BY DEF Front
<1> QED
  BY <1>1, <1>2, <1>3

LEMMA TopOf ==
  ASSUME LocatorTypeOK, NEW t \in Thread, calls[t] # <<>>
  PROVE  /\ Len(calls[t]) \in DOMAIN calls[t] /\ Top(t) = calls[t][Len(calls[t])]
         /\ Top(t) \in Call
<1>1. calls[t] \in Seq(Call)
  BY DEF LocatorTypeOK
<1>2. /\ Len(calls[t]) \in Nat /\ Len(calls[t]) > 0 /\ DOMAIN calls[t] = 1..Len(calls[t])
      /\ Last(calls[t]) = calls[t][Len(calls[t])] /\ Last(calls[t]) \in Call
  BY <1>1, Stacks
<1> QED
  BY <1>2 DEF Top

LEMMA TwoMore ==
  ASSUME NEW S, NEW f \in Seq(S), NEW c \in S, NEW r \in S
  PROVE  /\ f \o <<c, r>> \in Seq(S)
         /\ DOMAIN (f \o <<c, r>>) = 1..(Len(f) + 2)
         /\ \A i \in 1..Len(f) : (f \o <<c, r>>)[i] = f[i]
         /\ (f \o <<c, r>>)[Len(f) + 1] = c /\ (f \o <<c, r>>)[Len(f) + 2] = r
<1>1. <<c, r>> \in Seq(S) /\ Len(<<c, r>>) = 2 /\ <<c, r>>[1] = c /\ <<c, r>>[2] = r
  OBVIOUS
<1> DEFINE e == <<c, r>>
<1> HIDE DEF e
<1>2. /\ f \o e \in Seq(S) /\ Len(f \o e) = Len(f) + 2
      /\ \A i \in 1..(Len(f) + 2) : (f \o e)[i] = IF i <= Len(f) THEN f[i] ELSE e[i - Len(f)]
  <2>1. e \in Seq(S) /\ Len(e) = 2
    BY <1>1 DEF e
  <2>2. /\ f \o e \in Seq(S) /\ Len(f \o e) = Len(f) + Len(e)
        /\ \A i \in 1..(Len(f) + Len(e)) :
             (f \o e)[i] = IF i <= Len(f) THEN f[i] ELSE e[i - Len(f)]
    BY <2>1, ConcatProperties, Zenon
  <2> QED
    BY <2>1, <2>2
<1>3. Len(f) \in Nat
  OBVIOUS
<1>4. /\ DOMAIN (f \o e) = 1..(Len(f) + 2)
      /\ \A i \in 1..Len(f) : (f \o e)[i] = f[i]
  BY <1>2, <1>3
<1>5. (f \o e)[Len(f) + 1] = e[1] /\ (f \o e)[Len(f) + 2] = e[2]
  BY <1>2, <1>3
<1> QED
  BY <1>1, <1>2, <1>4, <1>5 DEF e

LEMMA RegistrationType ==
  ASSUME NEW s \in Service, NEW ifMissing \in BOOLEAN, NEW r \in Registrations(s, ifMissing)
  PROVE  r \in Call /\ ~r.holds
<1>1. PICK l \in Lifetime, deps \in SUBSET Service : r = Registration(s, l, deps, ifMissing)
  BY LocatorAssumption DEF LocatorAssumption, Registrations, Lifetime
<1> QED
  BY <1>1 DEF Registration, Call

LEMMA ResolutionType ==
  ASSUME NEW s \in Service
  PROVE  Resolution(s) \in Call /\ ~Resolution(s).holds
BY LocatorAssumption DEF LocatorAssumption, Resolution, Call

LEMMA ClearingType == Clearing \in Call /\ ~Clearing.holds
<1>1. (CHOOSE s \in Service : TRUE) \in Service
  BY LocatorAssumption DEF LocatorAssumption
<1> QED
  BY <1>1 DEF Clearing, Call

LEMMA PushKeeps ==
  ASSUME LocatorTypeOK, NEW t \in Thread, NEW c \in Call, ~c.holds, Push(t, c)
  PROVE  Kept /\ calls' \in [Thread -> Seq(Call)]
<1>1. calls \in [Thread -> Seq(Call)] /\ calls' = [calls EXCEPT ![t] = Append(@, c)]
  BY DEF LocatorTypeOK, Push
<1>2. calls' \in [Thread -> Seq(Call)]
  BY <1>1
<1>3. ASSUME NEW u \in Thread, NEW i \in DOMAIN calls'[u], calls'[u][i].holds
      PROVE  i \in DOMAIN calls[u] /\ calls'[u][i] = calls[u][i]
  <2>1. CASE u = t
    <3>1. calls'[u] = Append(calls[u], c) /\ calls[u] \in Seq(Call)
      BY <1>1, <2>1
    <3> QED
      BY <1>3, <3>1
  <2>2. CASE u # t
    BY <1>1, <1>3, <2>2
  <2> QED
    BY <2>1, <2>2
<1> QED
  BY <1>2, <1>3 DEF Kept

LEMMA ReturnKeeps ==
  ASSUME LocatorTypeOK, NEW t \in Thread, calls[t] # <<>>, Return(t)
  PROVE  Kept /\ calls' \in [Thread -> Seq(Call)]
<1>1. calls \in [Thread -> Seq(Call)] /\ calls' = [calls EXCEPT ![t] = Front(@)]
  BY DEF LocatorTypeOK, Return
<1>2. /\ Front(calls[t]) \in Seq(Call) /\ Len(calls[t]) \in Nat
      /\ DOMAIN calls[t] = 1..Len(calls[t])
      /\ DOMAIN Front(calls[t]) = 1..(Len(calls[t]) - 1)
      /\ \A i \in 1..(Len(calls[t]) - 1) : Front(calls[t])[i] = calls[t][i]
  BY <1>1, Stacks
<1>3. calls' \in [Thread -> Seq(Call)]
  BY <1>1, <1>2
<1>4. ASSUME NEW u \in Thread, NEW i \in DOMAIN calls'[u]
      PROVE  i \in DOMAIN calls[u] /\ calls'[u][i] = calls[u][i]
  <2>1. CASE u = t
    <3>1. calls'[u] = Front(calls[t])
      BY <1>1, <2>1
    <3> QED
      BY <1>2, <1>4, <2>1, <3>1
  <2>2. CASE u # t
    BY <1>1, <1>4, <2>2
  <2> QED
    BY <2>1, <2>2
<1> QED
  BY <1>3, <1>4 DEF Kept

LEMMA ResolveDependencyKeeps ==
  ASSUME LocatorTypeOK, NEW t \in Thread, ResolveDependency(t)
  PROVE  Kept /\ calls' \in [Thread -> Seq(Call)]
<1> DEFINE s == calls[t]
           n == Len(s)
<1>1. s \in Seq(Call) /\ s # <<>> /\ calls \in [Thread -> Seq(Call)]
  BY DEF ResolveDependency, RunsFactory, Resolving, Busy, LocatorTypeOK
<1>2. /\ n \in Nat /\ n > 0 /\ DOMAIN s = 1..n
      /\ Top(t) = s[n] /\ Top(t) \in Call
      /\ Front(s) \in Seq(Call) /\ DOMAIN Front(s) = 1..(n - 1)
      /\ \A i \in 1..(n - 1) : Front(s)[i] = s[i]
  BY <1>1, Stacks DEF Top
<1>3. PICK d \in Top(t).pending :
        calls' = [calls EXCEPT ![t] =
                    Front(@) \o <<[Top(t) EXCEPT !.pending = @ \ {d}], Resolution(d)>>]
  BY DEF ResolveDependency
<1> DEFINE c == [Top(t) EXCEPT !.pending = @ \ {d}]
           r == Resolution(d)
<1>4. /\ c \in Call /\ c.op = s[n].op /\ c.holds = s[n].holds
      /\ c.service = s[n].service /\ c.lifetime = s[n].lifetime /\ c.found = s[n].found
      /\ d \in Service
  BY <1>2 DEF Call
<1>5. r \in Call /\ ~r.holds
  BY <1>4, ResolutionType
<1> HIDE DEF c, r
<1>6. calls'[t] = Front(s) \o <<c, r>>
  BY <1>1, <1>3 DEF c, r
<1>7. /\ calls'[t] \in Seq(Call) /\ DOMAIN calls'[t] = 1..(n + 1)
      /\ \A i \in 1..(n - 1) : calls'[t][i] = s[i]
      /\ calls'[t][n] = c /\ calls'[t][n + 1] = r
  <2>1. /\ calls'[t] \in Seq(Call) /\ DOMAIN calls'[t] = 1..(Len(Front(s)) + 2)
        /\ \A i \in 1..Len(Front(s)) : calls'[t][i] = Front(s)[i]
        /\ calls'[t][Len(Front(s)) + 1] = c /\ calls'[t][Len(Front(s)) + 2] = r
    BY <1>2, <1>4, <1>5, <1>6, TwoMore
  <2>2. Len(Front(s)) = n - 1
    BY <1>2
  <2> QED
    BY <1>2, <2>1, <2>2
<1>8. calls' \in [Thread -> Seq(Call)]
  BY <1>1, <1>3, <1>6, <1>7 DEF c, r
<1>9. ASSUME NEW u \in Thread, NEW i \in DOMAIN calls'[u], calls'[u][i].holds
      PROVE  /\ i \in DOMAIN calls[u] /\ calls[u][i].holds
             /\ calls'[u][i].op = calls[u][i].op
             /\ calls'[u][i].service = calls[u][i].service
             /\ calls'[u][i].lifetime = calls[u][i].lifetime
             /\ calls'[u][i].found = calls[u][i].found
  <2>1. CASE u = t
    <3>1. i \in 1..(n - 1) \/ i = n \/ i = n + 1
      BY SMTT(30), <1>2, <1>7, <2>1
    <3>2. i # n + 1
      BY <1>5, <1>7, <1>9, <2>1
    <3>3. CASE i \in 1..(n - 1)
      <4>1. calls'[u][i] = calls[u][i] /\ i \in DOMAIN calls[u]
        BY <1>2, <1>7, <2>1, <3>3
      <4> QED
        BY <1>9, <4>1
    <3>4. CASE i = n
      <4>1. calls'[u][i] = c /\ calls[u][i] = s[n] /\ i \in DOMAIN calls[u]
        BY <1>2, <1>7, <2>1, <3>4
      <4> QED
        BY <1>4, <1>9, <4>1
    <3> QED
      BY <3>1, <3>2, <3>3, <3>4
  <2>2. CASE u # t
    <3>1. calls'[u] = calls[u]
      BY <1>1, <1>3, <2>2
    <3> QED
      BY <1>9, <3>1
  <2> QED
    BY <2>1, <2>2
<1> QED
  BY <1>8, <1>9 DEF Kept

\* AcquireUnique and AcquireShared change the innermost call, and no other.
LEMMA ReplaceKeeps ==
  ASSUME LocatorTypeOK, NEW t \in Thread, calls[t] # <<>>, NEW c \in Call, Replace(t, c)
  PROVE  /\ calls' \in [Thread -> Seq(Call)]
         /\ \A u \in Thread : DOMAIN calls'[u] = DOMAIN calls[u]
         /\ Len(calls[t]) \in DOMAIN calls[t] /\ Top(t) = calls[t][Len(calls[t])]
         /\ calls'[t][Len(calls[t])] = c
         /\ \A u \in Thread : \A i \in DOMAIN calls[u] :
              (u = t /\ i = Len(calls[t])) \/ calls'[u][i] = calls[u][i]
<1> DEFINE s == calls[t]
           n == Len(s)
<1>1. s \in Seq(Call) /\ calls \in [Thread -> Seq(Call)]
  BY DEF LocatorTypeOK
<1>2. /\ n \in Nat /\ n > 0 /\ DOMAIN s = 1..n /\ Top(t) = s[n]
      /\ Front(s) \in Seq(Call) /\ DOMAIN Front(s) = 1..(n - 1)
      /\ \A i \in 1..(n - 1) : Front(s)[i] = s[i]
  BY <1>1, Stacks DEF Top
<1>3. calls' = [calls EXCEPT ![t] = Append(Front(@), c)]
  BY DEF Replace
<1>4. calls'[t] = Append(Front(s), c) /\ \A u \in Thread : u # t => calls'[u] = calls[u]
  BY <1>1, <1>3
<1>5. /\ calls'[t] \in Seq(Call) /\ DOMAIN calls'[t] = 1..n /\ calls'[t][n] = c
      /\ \A i \in 1..(n - 1) : calls'[t][i] = s[i]
  <2> DEFINE f == Front(s)
  <2>1. f \in Seq(Call) /\ Len(f) = n - 1 /\ \A i \in 1..(n - 1) : f[i] = s[i]
    BY SMTT(30), <1>2
  <2> HIDE DEF f
  <2> QED
    BY <1>2, <1>4, <2>1 DEF f
<1>6. calls' \in [Thread -> Seq(Call)]
  BY <1>1, <1>3, <1>4, <1>5
<1>7. ASSUME NEW u \in Thread, NEW i \in DOMAIN calls[u], ~(u = t /\ i = n)
      PROVE  calls'[u][i] = calls[u][i]
  BY SMTT(30), <1>2, <1>4, <1>5, <1>7
<1>8. n \in DOMAIN s /\ \A u \in Thread : DOMAIN calls'[u] = DOMAIN calls[u]
  BY <1>2, <1>4, <1>5
<1> QED
  BY <1>2, <1>5, <1>6, <1>7, <1>8

-----------------------------------------------------------------------------
(* Every step preserves the invariant. *)

\* A step that lets nobody in keeps the invariant, if it touches what is
\* registered only when no call holds the mutex to resolve.
LEMMA KeptKeeps ==
  ASSUME IInv, Kept, services' = services \/ Holders("resolve")' = {}, ScopesStay
  PROVE  Exclusive' /\ DescriptorStable' /\ ScopeOpen' /\ ClearIsOneStep'
<1>1. Exclusive'
  BY DEF IInv, Exclusive, Kept
<1>2. ASSUME services' = services PROVE DescriptorStable'
  BY <1>2 DEF IInv, Kept, DescriptorStable
<1>3. ASSUME Holders("resolve")' = {} PROVE DescriptorStable'
  BY <1>3 DEF Holders, DescriptorStable
<1>4. ScopeOpen'
  <2>1. ASSUME NEW t \in Thread, NEW i \in DOMAIN calls'[t], Makes(calls'[t][i])
        PROVE  scopeStack'[t] # <<>>
    <3>1. i \in DOMAIN calls[t] /\ Makes(calls[t][i])
      BY <2>1 DEF Kept, Makes
    <3>2. calls'[t] # <<>>
      BY <2>1
    <3> QED
      BY <3>1, <3>2 DEF IInv, ScopeOpen, ScopesStay
  <2> QED
    BY <2>1 DEF ScopeOpen
<1>5. ClearIsOneStep'
  BY DEF IInv, ClearIsOneStep, Kept
<1> QED
  BY <1>1, <1>2, <1>3, <1>4, <1>5

LEMMA AcquireUniqueKeeps ==
  ASSUME IInv, NEW t \in Thread, AcquireUnique(t)
  PROVE  IInv'
<1> DEFINE c == [Top(t) EXCEPT !.holds = TRUE]
           n == Len(calls[t])
<1>1. /\ calls[t] # <<>> /\ Top(t).op = "register" /\ Replace(t, c)
      /\ services' = services /\ scopeStack' = scopeStack
      /\ guards' = guards /\ terminated' = terminated
  BY DEF AcquireUnique, Busy
<1>2. LocatorTypeOK
  BY DEF IInv
<1>3. Top(t) \in Call
  BY <1>1, <1>2, Stacks DEF LocatorTypeOK, Top
<1>4. c \in Call /\ c.op = "register"
  BY <1>1, <1>3 DEF Call
<1> HIDE DEF c
<1>5. /\ calls' \in [Thread -> Seq(Call)]
      /\ \A u \in Thread : DOMAIN calls'[u] = DOMAIN calls[u]
      /\ calls'[t][n] = c
      /\ \A u \in Thread : \A i \in DOMAIN calls[u] :
           (u = t /\ i = n) \/ calls'[u][i] = calls[u][i]
  BY <1>1, <1>2, <1>4, ReplaceKeeps
<1>6. \A u \in Thread : \A i \in DOMAIN calls[u] : ~calls[u][i].holds
  <2>1. ASSUME NEW u \in Thread, NEW i \in DOMAIN calls[u], calls[u][i].holds
        PROVE  FALSE
    <3>0. calls[u] \in Seq(Call)
      BY <1>2 DEF LocatorTypeOK
    <3>3. calls[u][i] \in Call
      BY <3>0
    <3>1. calls[u][i].op \in {"register", "resolve"}
      BY <2>1, <3>3 DEF Call, IInv, ClearIsOneStep
    <3>2. Holders("register") = {} /\ Holders("resolve") = {}
      BY DEF AcquireUnique, CanOwn
    <3> QED
      BY <2>1, <3>1, <3>2 DEF Holders
  <2> QED
    BY <2>1
<1>7. LocatorTypeOK'
  BY <1>1, <1>2, <1>5 DEF LocatorTypeOK
<1>8. Exclusive'
  BY <1>5, <1>6 DEF Exclusive
<1>9. DescriptorStable'
  BY <1>4, <1>5, <1>6 DEF DescriptorStable
<1>10. ScopeOpen' /\ ClearIsOneStep'
  BY <1>4, <1>5, <1>6 DEF ScopeOpen, Makes, ClearIsOneStep
<1> QED
  BY <1>7, <1>8, <1>9, <1>10 DEF IInv

LEMMA AcquireSharedKeeps ==
  ASSUME IInv, NEW t \in Thread, AcquireShared(t)
  PROVE  IInv'
<1> DEFINE v == Top(t).service
           c == [Top(t) EXCEPT !.holds = TRUE, !.lifetime = services[v],
                               !.found = Found(t, v, services[v])]
           n == Len(calls[t])
<1>1. /\ calls[t] # <<>> /\ Top(t).op = "resolve" /\ Replace(t, c)
      /\ services' = services /\ scopeStack' = scopeStack
      /\ guards' = guards /\ terminated' = terminated
  BY DEF AcquireShared, Busy
<1>2. LocatorTypeOK /\ services \in [Service -> Lifetime \cup {NoLifetime}]
  BY DEF IInv, LocatorTypeOK
<1>3. Top(t) \in Call
  BY <1>1, <1>2, Stacks DEF LocatorTypeOK, Top
<1>4. /\ c \in Call /\ c.op = "resolve" /\ c.lifetime = services[c.service]
      /\ Makes(c) => scopeStack[t] # <<>>
  BY <1>1, <1>2, <1>3 DEF Call, Found, NotFound, Makes
<1> HIDE DEF c
<1>5. /\ calls' \in [Thread -> Seq(Call)]
      /\ \A u \in Thread : DOMAIN calls'[u] = DOMAIN calls[u]
      /\ calls'[t][n] = c
      /\ \A u \in Thread : \A i \in DOMAIN calls[u] :
           (u = t /\ i = n) \/ calls'[u][i] = calls[u][i]
  BY <1>1, <1>2, <1>4, ReplaceKeeps
<1>6. \A u \in Thread : \A i \in DOMAIN calls[u] :
        ~(calls[u][i].op = "register" /\ calls[u][i].holds)
  BY DEF AcquireShared, CanShare, Holders
<1>7. LocatorTypeOK'
  BY <1>1, <1>2, <1>5 DEF LocatorTypeOK
<1>8. Exclusive'
  BY <1>4, <1>5, <1>6 DEF Exclusive
<1>9. DescriptorStable'
  BY <1>1, <1>4, <1>5 DEF IInv, DescriptorStable
<1>10. ScopeOpen' /\ ClearIsOneStep'
  BY <1>1, <1>4, <1>5 DEF IInv, ScopeOpen, ClearIsOneStep
<1> QED
  BY <1>7, <1>8, <1>9, <1>10 DEF IInv

\* The calls that begin, and those that end: what is registered changes when the
\* caller is alone, and otherwise not.
LEMMA BeginKeeps ==
  ASSUME IInv, NEW t \in Thread, NEW s \in Service,
         RegisterService(t, s) \/ RegisterIfMissing(t, s) \/ ResolveService(t, s) \/ Clear(t)
  PROVE  IInv'
<1>1. LocatorTypeOK
  BY DEF IInv
<1>2. PICK c \in Call : ~c.holds /\ Push(t, c)
  BY RegistrationType, ResolutionType, ClearingType
     DEF RegisterService, RegisterIfMissing, ResolveService, Clear
<1>3. Kept /\ calls' \in [Thread -> Seq(Call)]
  BY <1>1, <1>2, PushKeeps
<1>4. /\ services' = services /\ scopeStack' = scopeStack
      /\ guards' = guards /\ terminated' = terminated
  BY DEF RegisterService, RegisterIfMissing, ResolveService, Clear
<1>5. Exclusive' /\ DescriptorStable' /\ ScopeOpen' /\ ClearIsOneStep'
  BY <1>3, <1>4, KeptKeeps DEF ScopesStay
<1>6. LocatorTypeOK'
  BY <1>1, <1>3, <1>4 DEF LocatorTypeOK
<1> QED
  BY <1>5, <1>6 DEF IInv

LEMMA FinishRegisterKeeps ==
  ASSUME IInv, NEW t \in Thread, FinishRegister(t)
  PROVE  IInv'
<1> DEFINE n == Len(calls[t])
<1>1. /\ calls[t] # <<>> /\ Top(t).op = "register" /\ Top(t).holds /\ Return(t)
      /\ services' = [services EXCEPT ![Top(t).service] = Top(t).lifetime]
      /\ scopeStack' = scopeStack /\ guards' = guards /\ terminated' = terminated
  BY DEF FinishRegister, Busy
<1>2. LocatorTypeOK /\ Exclusive /\ services \in [Service -> Lifetime \cup {NoLifetime}]
  BY DEF IInv, LocatorTypeOK
<1>3. Kept /\ calls' \in [Thread -> Seq(Call)]
  BY <1>1, <1>2, ReturnKeeps
<1>4. calls[t] \in Seq(Call)
  BY <1>2 DEF LocatorTypeOK
<1>5. n \in DOMAIN calls[t] /\ Top(t) = calls[t][n] /\ Top(t) \in Call
  BY <1>1, <1>4, Stacks DEF Top
<1>6. Holders("resolve")' = {}
  <2>1. ASSUME NEW u \in Thread, NEW i \in DOMAIN calls'[u],
               calls'[u][i].op = "resolve", calls'[u][i].holds
        PROVE  FALSE
    <3>1. i \in DOMAIN calls[u] /\ calls[u][i].holds /\ calls[u][i].op = "resolve"
      BY <1>3, <2>1 DEF Kept
    <3>2. t = u /\ n = i
      BY <1>1, <1>2, <1>5, <3>1 DEF Exclusive
    <3> QED
      BY <1>1, <1>5, <3>1, <3>2
  <2> QED
    BY <2>1 DEF Holders
<1>7. Exclusive' /\ DescriptorStable' /\ ScopeOpen' /\ ClearIsOneStep'
  BY <1>1, <1>3, <1>6, KeptKeeps DEF ScopesStay
<1>8. services' \in [Service -> Lifetime \cup {NoLifetime}]
  BY <1>1, <1>2, <1>5 DEF Call
<1>9. LocatorTypeOK'
  BY <1>1, <1>2, <1>3, <1>8 DEF LocatorTypeOK
<1> QED
  BY <1>7, <1>9 DEF IInv

LEMMA EndKeeps ==
  ASSUME IInv, NEW t \in Thread,
         ReturnCached(t) \/ ReturnError(t) \/ ReturnCreated(t) \/ ResolveDependency(t)
  PROVE  IInv'
<1>1. LocatorTypeOK /\ calls[t] # <<>> /\ services' = services /\ guards' = guards
  BY DEF IInv, ReturnCached, ReturnError, ReturnCreated, ResolveDependency,
         RunsFactory, Resolving, Busy
<1>2. Kept /\ calls' \in [Thread -> Seq(Call)]
  <2>1. CASE ResolveDependency(t)
    BY <1>1, <2>1, ResolveDependencyKeeps
  <2>2. CASE Return(t)
    BY <1>1, <2>2, ReturnKeeps
  <2>3. CASE calls' = calls
    BY <1>1, <2>3 DEF LocatorTypeOK, Kept
  <2>4. ResolveDependency(t) \/ Return(t) \/ calls' = calls
    BY DEF ReturnCached, ReturnError, ReturnCreated
  <2> QED
    BY <2>1, <2>2, <2>3, <2>4
<1>4. terminated' \in {"no", "missing", "lock", "scope"}
  BY <1>1 DEF LocatorTypeOK, ReturnCached, ReturnError, ReturnCreated, ResolveDependency
<1>5. scopeStack' \in [Thread -> Seq(SUBSET Service)] /\ ScopesStay
  <2>1. CASE scopeStack' = scopeStack
    BY <1>1, <2>1 DEF LocatorTypeOK, ScopesStay
  <2>2. CASE ReturnCreated(t) /\ Top(t).lifetime = "Scoped"
    <3>1. scopeStack' = [scopeStack EXCEPT ![t] =
                           Append(Front(@), Last(@) \cup {Top(t).service})]
      BY <2>2 DEF ReturnCreated
    <3>2. scopeStack \in [Thread -> Seq(SUBSET Service)] /\ scopeStack[t] \in Seq(SUBSET Service)
      BY <1>1 DEF LocatorTypeOK
    <3>3. scopeStack[t] # <<>>
      <4>1. Makes(Top(t))
        BY <2>2 DEF ReturnCreated, RunsFactory, Resolving, Makes
      <4> QED
        BY <1>1, <4>1, TopOf DEF IInv, ScopeOpen
    <3>4. Last(scopeStack[t]) \in SUBSET Service /\ Front(scopeStack[t]) \in Seq(SUBSET Service)
      BY <3>2, <3>3, Stacks
    <3>5. Top(t).service \in Service
      BY <1>1, TopOf DEF Call
    <3>6. Append(Front(scopeStack[t]), Last(scopeStack[t]) \cup {Top(t).service})
            \in Seq(SUBSET Service) \ {<<>>}
      BY <3>4, <3>5
    <3> QED
      BY <3>1, <3>2, <3>6 DEF ScopesStay
  <2>3. scopeStack' = scopeStack \/ (ReturnCreated(t) /\ Top(t).lifetime = "Scoped")
    BY DEF ReturnCached, ReturnError, ReturnCreated, ResolveDependency
  <2> QED
    BY <2>1, <2>2, <2>3
<1>6. LocatorTypeOK'
  BY <1>1, <1>2, <1>4, <1>5 DEF LocatorTypeOK
<1>7. Exclusive' /\ DescriptorStable' /\ ScopeOpen' /\ ClearIsOneStep'
  BY <1>1, <1>2, <1>5, KeptKeeps
<1> QED
  BY <1>6, <1>7 DEF IInv

LEMMA ScopeKeeps ==
  ASSUME IInv, NEW t \in Thread, BeginScope(t) \/ EndScope(t) \/ FailSharing(t)
  PROVE  IInv'
<1>1. LocatorTypeOK /\ calls' = calls
  BY DEF IInv, BeginScope, EndScope, FailSharing
<1>2. Kept /\ calls' \in [Thread -> Seq(Call)]
  BY <1>1 DEF LocatorTypeOK, Kept
<1>3. services' = services
  BY DEF BeginScope, EndScope, FailSharing
<1>4. Exclusive' /\ DescriptorStable' /\ ScopeOpen' /\ ClearIsOneStep'
  <2>1. ScopesStay
    BY <1>1 DEF ScopesStay, BeginScope, EndScope, FailSharing, Idle, LocatorTypeOK
  <2> QED
    BY <1>2, <1>3, <2>1, KeptKeeps
<1>5. /\ scopeStack \in [Thread -> Seq(SUBSET Service)] /\ scopeStack[t] \in Seq(SUBSET Service)
      /\ guards \in [Thread -> Nat] /\ services \in [Service -> Lifetime \cup {NoLifetime}]
      /\ terminated \in {"no", "missing", "lock", "scope"}
  BY <1>1 DEF LocatorTypeOK
<1>6. CASE BeginScope(t)
  <2>1. Append(scopeStack[t], {}) \in Seq(SUBSET Service)
    BY <1>5
  <2> QED
    BY <1>2, <1>4, <1>5, <1>6, <2>1 DEF BeginScope, IInv, LocatorTypeOK
<1>7. CASE EndScope(t)
  <2>1. scopeStack[t] # <<>> => Front(scopeStack[t]) \in Seq(SUBSET Service)
    BY <1>5, Stacks
  <2>2. scopeStack' \in [Thread -> Seq(SUBSET Service)]
    BY <1>5, <1>7, <2>1 DEF EndScope
  <2>3. guards' \in [Thread -> Nat]
    BY <1>5, <1>7 DEF EndScope
  <2>4. services' = services /\ terminated' \in {"no", "missing", "lock", "scope"}
    BY <1>5, <1>7 DEF EndScope
  <2> QED
    BY <1>2, <1>4, <1>5, <2>2, <2>3, <2>4 DEF IInv, LocatorTypeOK
<1>8. CASE FailSharing(t)
  BY <1>2, <1>4, <1>5, <1>8 DEF FailSharing, IInv, LocatorTypeOK
<1> QED
  BY <1>6, <1>7, <1>8

LEMMA FinishClearKeeps ==
  ASSUME IInv, NEW t \in Thread, FinishClear(t)
  PROVE  IInv'
<1>1. /\ calls' = [calls EXCEPT ![t] = <<>>] /\ services' = [s \in Service |-> NoLifetime]
      /\ scopeStack' = [scopeStack EXCEPT ![t] = <<>>]
      /\ guards' = guards /\ terminated' = terminated
      /\ Holders("register") = {} /\ Holders("resolve") = {}
  BY DEF FinishClear, CanOwn
<1>2. LocatorTypeOK
  BY DEF IInv
<1>3. Kept /\ calls' \in [Thread -> Seq(Call)]
  BY <1>1, <1>2 DEF LocatorTypeOK, Kept
<1>4. Holders("resolve")' = {}
  BY <1>1, <1>3 DEF Holders, Kept
<1>5. ScopesStay
  BY <1>1, <1>2 DEF ScopesStay, LocatorTypeOK
<1>6. LocatorTypeOK'
  BY <1>1, <1>2, <1>3 DEF LocatorTypeOK
<1>7. Exclusive' /\ DescriptorStable' /\ ScopeOpen' /\ ClearIsOneStep'
  BY <1>3, <1>4, <1>5, KeptKeeps
<1> QED
  BY <1>6, <1>7 DEF IInv

LEMMA StepKeeps == ASSUME IInv, [LocatorNext]_locatorVars PROVE IInv'
<1>1. CASE UNCHANGED locatorVars
  BY <1>1 DEF locatorVars, IInv, LocatorTypeOK, Exclusive, DescriptorStable, ScopeOpen, Makes, ClearIsOneStep
<1>2. ASSUME NEW t \in Thread, Run(t) PROVE IInv'
  BY <1>2, AcquireUniqueKeeps, FinishRegisterKeeps, AcquireSharedKeeps, EndKeeps, ScopeKeeps,
         FinishClearKeeps DEF Run
<1>3. ASSUME NEW t \in Thread, NEW s \in Service,
             RegisterService(t, s) \/ RegisterIfMissing(t, s) \/ ResolveService(t, s)
      PROVE  IInv'
  BY <1>3, BeginKeeps
<1>4. ASSUME NEW t \in Thread, Clear(t) PROVE IInv'
  BY <1>4, BeginKeeps, LocatorAssumption DEF LocatorAssumption
<1>5. ASSUME NEW t \in Thread, BeginScope(t) \/ EndScope(t) PROVE IInv'
  BY <1>5, ScopeKeeps
<1> QED
  BY <1>1, <1>2, <1>3, <1>4, <1>5 DEF LocatorNext, Terminated

LEMMA InitHolds == ASSUME LocatorInit PROVE IInv
<1>1. LocatorTypeOK
  BY DEF LocatorInit, LocatorTypeOK
<1>2. \A t \in Thread : DOMAIN calls[t] = {}
  BY DEF LocatorInit
<1> QED
  BY <1>1, <1>2 DEF IInv, Exclusive, DescriptorStable, ScopeOpen, ClearIsOneStep

-----------------------------------------------------------------------------
(* The stack of a thread: a call in progress stays the same call, with no    *)
(* more to resolve; a new one is the first of its thread, or resolves for    *)
(* the one that was last.                                                    *)

Nested ==
  \A t \in Thread : \A i \in DOMAIN calls'[t] :
    \/ /\ i \in DOMAIN calls[t]
       /\ calls'[t][i].op = calls[t][i].op
       /\ calls'[t][i].service = calls[t][i].service
       /\ calls'[t][i].pending \subseteq calls[t][i].pending
    \/ /\ i = Len(calls[t]) + 1
       /\ calls'[t][i].pending \subseteq Needs[calls'[t][i].service]
       /\ calls[t] # <<>> => /\ calls'[t][i].op = "resolve"
                             /\ calls'[t][i].service \in calls[t][Len(calls[t])].pending

LEMMA PushNested ==
  ASSUME LocatorTypeOK, NEW t \in Thread, calls[t] = <<>>, NEW c \in Call,
         c.pending \subseteq Needs[c.service], Push(t, c)
  PROVE  Nested
<1>1. calls \in [Thread -> Seq(Call)] /\ calls' = [calls EXCEPT ![t] = Append(@, c)]
  BY DEF LocatorTypeOK, Push
<1>2. calls'[t] = <<c>> /\ Len(calls[t]) = 0
  BY <1>1
<1>3. ASSUME NEW u \in Thread, u # t PROVE calls'[u] = calls[u]
  BY <1>1, <1>3
<1>4. DOMAIN calls'[t] = {1} /\ calls'[t][1] = c
  BY <1>2
<1> QED
  BY <1>2, <1>3, <1>4 DEF Nested

LEMMA ReplaceNested ==
  ASSUME LocatorTypeOK, NEW t \in Thread, calls[t] # <<>>, NEW c \in Call, Replace(t, c),
         c.op = Top(t).op, c.service = Top(t).service, c.pending \subseteq Top(t).pending
  PROVE  Nested
BY ReplaceKeeps DEF Nested

LEMMA ReturnNested ==
  ASSUME LocatorTypeOK, NEW t \in Thread, calls[t] # <<>>, Return(t)
  PROVE  /\ Nested
         /\ \A i \in DOMAIN calls'[t] : i < Len(calls[t])
<1>1. calls \in [Thread -> Seq(Call)] /\ calls' = [calls EXCEPT ![t] = Front(@)]
  BY DEF LocatorTypeOK, Return
<1>2. /\ Len(calls[t]) \in Nat /\ DOMAIN calls[t] = 1..Len(calls[t])
      /\ DOMAIN Front(calls[t]) = 1..(Len(calls[t]) - 1)
      /\ \A i \in 1..(Len(calls[t]) - 1) : Front(calls[t])[i] = calls[t][i]
  BY <1>1, Stacks
<1>3. calls'[t] = Front(calls[t]) /\ \A u \in Thread : u # t => calls'[u] = calls[u]
  BY <1>1
<1>4. \A i \in DOMAIN calls'[t] :
        i \in DOMAIN calls[t] /\ calls'[t][i] = calls[t][i] /\ i < Len(calls[t])
  BY <1>2, <1>3
<1> QED
  BY <1>3, <1>4 DEF Nested

LEMMA ResolveDependencyNested ==
  ASSUME LocatorTypeOK, NEW t \in Thread, ResolveDependency(t)
  PROVE  Nested
<1> DEFINE s == calls[t]
           n == Len(s)
<1>1. s \in Seq(Call) /\ s # <<>> /\ calls \in [Thread -> Seq(Call)]
  BY DEF ResolveDependency, RunsFactory, Resolving, Busy, LocatorTypeOK
<1>2. /\ n \in Nat /\ n > 0 /\ DOMAIN s = 1..n
      /\ Top(t) = s[n] /\ Top(t) \in Call
      /\ Front(s) \in Seq(Call) /\ DOMAIN Front(s) = 1..(n - 1)
      /\ \A i \in 1..(n - 1) : Front(s)[i] = s[i]
  BY <1>1, Stacks DEF Top
<1>3. PICK d \in Top(t).pending :
        calls' = [calls EXCEPT ![t] =
                    Front(@) \o <<[Top(t) EXCEPT !.pending = @ \ {d}], Resolution(d)>>]
  BY DEF ResolveDependency
<1> DEFINE c == [Top(t) EXCEPT !.pending = @ \ {d}]
           r == Resolution(d)
<1>4. /\ c \in Call /\ c.op = s[n].op /\ c.service = s[n].service /\ c.pending \subseteq s[n].pending
      /\ d \in Service /\ d \in s[n].pending
  BY <1>2, <1>3 DEF Call
<1>5. r \in Call /\ r.op = "resolve" /\ r.service = d /\ r.pending = Needs[d]
  BY <1>4, ResolutionType DEF Resolution
<1> HIDE DEF c, r
<1>6. calls'[t] = Front(s) \o <<c, r>> /\ \A u \in Thread : u # t => calls'[u] = calls[u]
  BY <1>1, <1>3 DEF c, r
<1>7. Len(Front(s)) = n - 1
  BY <1>2
<1>8. /\ DOMAIN calls'[t] = 1..(n + 1)
      /\ \A i \in 1..(n - 1) : calls'[t][i] = s[i]
      /\ calls'[t][n] = c /\ calls'[t][n + 1] = r
  <2>1. /\ DOMAIN calls'[t] = 1..(Len(Front(s)) + 2)
        /\ \A i \in 1..Len(Front(s)) : calls'[t][i] = Front(s)[i]
        /\ calls'[t][Len(Front(s)) + 1] = c /\ calls'[t][Len(Front(s)) + 2] = r
    BY <1>2, <1>4, <1>5, <1>6, TwoMore
  <2> QED
    BY <1>2, <1>7, <2>1
<1>9. ASSUME NEW i \in DOMAIN calls'[t]
      PROVE  \/ /\ i \in DOMAIN s
                /\ calls'[t][i].op = s[i].op
                /\ calls'[t][i].service = s[i].service
                /\ calls'[t][i].pending \subseteq s[i].pending
             \/ /\ i = n + 1
                /\ calls'[t][i].op = "resolve"
                /\ calls'[t][i].pending \subseteq Needs[calls'[t][i].service]
                /\ calls'[t][i].service \in s[n].pending
  <2>1. i \in 1..(n - 1) \/ i = n \/ i = n + 1
    BY <1>2, <1>8
  <2>2. CASE i \in 1..(n - 1)
    BY SMTT(30), <1>2, <1>8, <2>2
  <2>3. CASE i = n
    BY <1>2, <1>4, <1>8, <2>3
  <2>4. CASE i = n + 1
    BY <1>4, <1>5, <1>8, <2>4
  <2> QED
    BY <2>1, <2>2, <2>3, <2>4
<1> QED
  BY ZenonT(60), <1>6, <1>9 DEF Nested

LEMMA BeginNested ==
  ASSUME LocatorTypeOK, NEW t \in Thread, NEW s \in Service,
         RegisterService(t, s) \/ RegisterIfMissing(t, s) \/ ResolveService(t, s) \/ Clear(t)
  PROVE  Nested
<1>1. calls[t] = <<>>
  BY DEF RegisterService, RegisterIfMissing, ResolveService, Clear, Idle
<1>2. PICK c \in Call : c.pending \subseteq Needs[c.service] /\ Push(t, c)
  <2>1. ASSUME NEW ifMissing \in BOOLEAN, NEW r \in Registrations(s, ifMissing)
        PROVE  r \in Call /\ r.pending \subseteq Needs[r.service]
    BY <2>1, RegistrationType DEF Registrations, Registration
  <2>2. Resolution(s) \in Call /\ Resolution(s).pending \subseteq Needs[Resolution(s).service]
    BY ResolutionType DEF Resolution
  <2>3. Clearing \in Call /\ Clearing.pending \subseteq Needs[Clearing.service]
    BY ClearingType DEF Clearing
  <2> QED
    BY <2>1, <2>2, <2>3 DEF RegisterService, RegisterIfMissing, ResolveService, Clear
<1> QED
  BY <1>1, <1>2, PushNested

LEMMA AcquireNested ==
  ASSUME LocatorTypeOK, NEW t \in Thread, AcquireUnique(t) \/ AcquireShared(t)
  PROVE  Nested
<1>1. calls[t] # <<>> /\ services \in [Service -> Lifetime \cup {NoLifetime}]
  BY DEF LocatorTypeOK, AcquireUnique, AcquireShared, Busy
<1>2. Top(t) \in Call
  BY <1>1, TopOf
<1>3. CASE AcquireUnique(t)
  <2> DEFINE c == [Top(t) EXCEPT !.holds = TRUE]
  <2>1. /\ c \in Call /\ c.op = Top(t).op /\ c.service = Top(t).service
        /\ c.pending = Top(t).pending
    BY <1>2 DEF Call
  <2>2. Replace(t, c)
    BY <1>3 DEF AcquireUnique
  <2> QED
    BY <1>1, <2>1, <2>2, ReplaceNested
<1>4. CASE AcquireShared(t)
  <2> DEFINE v == Top(t).service
             c == [Top(t) EXCEPT !.holds = TRUE, !.lifetime = services[v],
                                 !.found = Found(t, v, services[v])]
  <2>1. /\ c \in Call /\ c.op = Top(t).op /\ c.service = Top(t).service
        /\ c.pending = Top(t).pending
    BY <1>1, <1>2 DEF Call, Found
  <2>2. Replace(t, c)
    BY <1>4 DEF AcquireShared
  <2> QED
    BY <1>1, <2>1, <2>2, ReplaceNested
<1> QED
  BY <1>3, <1>4

LEMMA StepNested == ASSUME LocatorTypeOK, [LocatorNext]_locatorVars PROVE Nested
<1>1. CASE calls' = calls
  BY <1>1 DEF Nested
<1>2. ASSUME NEW t \in Thread, calls[t] # <<>>, Return(t) PROVE Nested
  BY <1>2, ReturnNested
<1>3. ASSUME NEW t \in Thread, ResolveDependency(t) PROVE Nested
  BY <1>3, ResolveDependencyNested
<1>4. ASSUME NEW t \in Thread, FinishClear(t) PROVE Nested
  <2>1. calls \in [Thread -> Seq(Call)] /\ calls' = [calls EXCEPT ![t] = <<>>]
    BY <1>4 DEF LocatorTypeOK, FinishClear
  <2>2. calls'[t] = <<>> /\ \A u \in Thread : u # t => calls'[u] = calls[u]
    BY <2>1
  <2>3. DOMAIN calls'[t] = {}
    BY <2>2
  <2>4. ASSUME NEW u \in Thread, NEW i \in DOMAIN calls'[u]
        PROVE  i \in DOMAIN calls[u] /\ calls'[u][i] = calls[u][i]
    BY <2>2, <2>3, <2>4
  <2> QED
    BY <2>4 DEF Nested
<1>5. ASSUME NEW t \in Thread, Run(t) PROVE Nested
  <2>1. CASE AcquireUnique(t) \/ AcquireShared(t)
    BY <2>1, AcquireNested
  <2>2. CASE ResolveDependency(t) \/ FinishClear(t)
    BY <1>3, <1>4, <2>2
  <2>3. CASE FailSharing(t)
    BY <1>1, <2>3 DEF FailSharing
  <2>4. CASE FinishRegister(t) \/ ReturnCached(t) \/ ReturnError(t) \/ ReturnCreated(t)
    <3>1. calls[t] # <<>> /\ (Return(t) \/ calls' = calls)
      BY <2>4 DEF FinishRegister, ReturnCached, ReturnError, ReturnCreated, Resolving, Busy
    <3> QED
      BY <1>1, <1>2, <3>1
  <2> QED
    BY <1>5, <2>1, <2>2, <2>3, <2>4 DEF Run
<1>6. ASSUME NEW t \in Thread, NEW s \in Service,
             RegisterService(t, s) \/ RegisterIfMissing(t, s) \/ ResolveService(t, s) \/ Clear(t)
      PROVE  Nested
  BY <1>6, BeginNested
<1>7. ASSUME NEW t \in Thread, BeginScope(t) \/ EndScope(t) PROVE Nested
  BY <1>1, <1>7 DEF BeginScope, EndScope
<1> QED
  BY <1>1, <1>5, <1>6, <1>7, LocatorAssumption
     DEF LocatorNext, Terminated, locatorVars, LocatorAssumption

-----------------------------------------------------------------------------
(* Who waits for whom. *)

\* Only a resolution is called by a factory: the others are the outermost.
InnerResolves ==
  \A t \in Thread : \A i \in DOMAIN calls[t] : calls[t][i].op # "resolve" => i = 1

LEMMA NestedInner ==
  ASSUME LocatorTypeOK, Nested, InnerResolves
  PROVE  InnerResolves'
<1>1. ASSUME NEW t \in Thread, NEW i \in DOMAIN calls'[t], calls'[t][i].op # "resolve"
      PROVE  i = 1
  <2>1. CASE i \in DOMAIN calls[t] /\ calls'[t][i].op = calls[t][i].op
    BY <1>1, <2>1 DEF InnerResolves
  <2>2. CASE i = Len(calls[t]) + 1 /\ calls[t] = <<>>
    BY <2>2
  <2> QED
    BY <1>1, <2>1, <2>2 DEF Nested
<1> QED
  BY <1>1 DEF InnerResolves

\* Where nobody can go on and nobody asks for what its own thread keeps, nobody
\* holds the mutex, so that a writer could go on, or else any thread.
LEMMA BlocksByReentry ==
  ASSUME LocatorTypeOK, ClearIsOneStep, InnerResolves
  PROVE  OnlyReentryBlocks
<1> SUFFICES ASSUME NEW t \in Thread, Busy(t),
                    \A u \in Thread : ~GoesOn(u) /\ ~Reenters(u)
             PROVE  FALSE
  BY DEF OnlyReentryBlocks
<1>1. ASSUME NEW u \in Thread, NEW i \in DOMAIN calls[u], calls[u][i].holds
      PROVE  FALSE
  <2> DEFINE s == calls[u]
             n == Len(s)
  <2>1. s \in Seq(Call) /\ s # <<>> /\ Busy(u)
    BY <1>1 DEF LocatorTypeOK, Busy
  <2>2. n \in Nat /\ n \in DOMAIN s /\ DOMAIN s = 1..n /\ Top(u) = s[n] /\ s[i] \in Call
    BY <1>1, <2>1, TopOf
  <2>3. ~s[n].holds
    BY <2>1, <2>2 DEF GoesOn
  <2>4. n # 1 /\ s[n].op = "resolve"
    BY <1>1, <2>2, <2>3 DEF InnerResolves
  <2>5. u \in Holders("resolve") \cup Holders("register")
    BY <1>1, <2>2 DEF Holders, Call, ClearIsOneStep
  <2> QED
    BY <2>1, <2>2, <2>3, <2>4, <2>5 DEF Reenters
<1>2. CanShare /\ CanOwn
  BY <1>1 DEF CanShare, CanOwn, Holders
<1>3. ~WriterWaits
  BY <1>2 DEF WriterWaits, GoesOn
<1>4. GoesOn(t)
  BY <1>2, <1>3 DEF GoesOn
<1> QED
  BY <1>4

-----------------------------------------------------------------------------
(* The theorems. *)

THEOREM Invariance == LocatorSpec => []IInv
<1>1. LocatorInit => IInv
  BY InitHolds
<1>2. IInv /\ [LocatorNext]_locatorVars => IInv'
  BY StepKeeps
<1> QED
  BY <1>1, <1>2, PTL DEF LocatorSpec

\* The services, the calls in progress and the scopes keep their types.
THEOREM TypeCorrect == LocatorSpec => []LocatorTypeOK
<1>1. IInv => LocatorTypeOK
  BY DEF IInv
<1> QED
  BY <1>1, Invariance, PTL

\* std::shared_mutex: a call that registers is alone with the services.
THEOREM RegistersAlone == LocatorSpec => []Exclusive
<1>1. IInv => Exclusive
  BY DEF IInv
<1> QED
  BY <1>1, Invariance, PTL

\* ResolveInternal: the descriptor it found is what is registered until it returns,
\* whatever its factory resolves and the other threads register.
THEOREM DescriptorsStay == LocatorSpec => []DescriptorStable
<1>1. IInv => DescriptorStable
  BY DEF IInv
<1> QED
  BY <1>1, Invariance, PTL

\* service_locator.cpp:62: whatever the mutex prefers, threads come to a stop only
\* when a factory resolves again under the lock of the call it runs for.
THEOREM BlockedByReentry == LocatorSpec => []OnlyReentryBlocks
<1> DEFINE Inv == IInv /\ InnerResolves
<1>1. LocatorInit => Inv
  <2>1. LocatorInit => \A t \in Thread : DOMAIN calls[t] = {}
    BY DEF LocatorInit
  <2> QED
    BY <2>1, InitHolds DEF InnerResolves
<1>2. Inv /\ [LocatorNext]_locatorVars => Inv'
  BY StepKeeps, StepNested, NestedInner DEF IInv
<1>3. Inv => OnlyReentryBlocks
  BY BlocksByReentry DEF IInv
<1> QED
  BY <1>1, <1>2, <1>3, PTL DEF LocatorSpec

-----------------------------------------------------------------------------
(* Scopes.  A factory resolves what its service needs, and so on down; when  *)
(* the needs have no cycle, no service is under way twice in a thread.       *)

\* No service needs itself, directly or through others: its factory would never
\* come to its end.
Acyclic(rank) ==
  /\ rank \in [Service -> Nat]
  /\ \A s \in Service : \A d \in Needs[s] : rank[d] < rank[s]

Ranked(rank) ==
  \A t \in Thread : \A i, j \in DOMAIN calls[t] :
    i < j => rank[calls[t][j].service] < rank[calls[t][i].service]

PendingNeeded ==
  \A t \in Thread : \A i \in DOMAIN calls[t] :
    calls[t][i].pending \subseteq Needs[calls[t][i].service]

\* What a factory is making, the scope has not got.
Unmade ==
  \A t \in Thread : \A i \in DOMAIN calls[t] :
    Makes(calls[t][i]) => calls[t][i].service \notin Last(scopeStack[t])

LEMMA NestedKeeps ==
  ASSUME LocatorTypeOK, Nested, PendingNeeded, NEW rank, Acyclic(rank), Ranked(rank)
  PROVE  PendingNeeded' /\ Ranked(rank)'
<1>1. PendingNeeded'
  BY DEF Nested, PendingNeeded
<1>2. ASSUME NEW t \in Thread, NEW i \in DOMAIN calls'[t], NEW j \in DOMAIN calls'[t], i < j
      PROVE  rank[calls'[t][j].service] < rank[calls'[t][i].service]
  <2> DEFINE s == calls[t]
             n == Len(s)
  <2>1. s \in Seq(Call) /\ n \in Nat /\ DOMAIN s = 1..n
    BY DEF LocatorTypeOK
  <2>2. i \in DOMAIN s \/ i = n + 1
    BY DEF Nested
  <2>3. j \in DOMAIN s \/ j = n + 1
    BY DEF Nested
  <2>4. i \in DOMAIN s /\ calls'[t][i].service = s[i].service
    <3>1. i # n + 1
      BY <1>2, <2>1, <2>2, <2>3
    <3> QED
      BY <3>1 DEF Nested
  <2>5. CASE j \in DOMAIN s
    <3>1. j # n + 1
      BY <2>1, <2>5
    <3>2. calls'[t][j].service = s[j].service
      BY <3>1 DEF Nested
    <3> QED
      BY <1>2, <2>4, <2>5, <3>2 DEF Ranked
  <2>6. CASE j = n + 1
    <3>1. s # <<>> /\ n \in DOMAIN s /\ i <= n
      BY <2>1, <2>4
    <3>2. j \notin DOMAIN s
      BY <2>1, <2>6
    <3>3. calls'[t][j].service \in s[n].pending
      BY <3>1, <3>2 DEF Nested
    <3>4. s[n] \in Call /\ s[i] \in Call
      BY <2>1, <2>4, <3>1
    <3>5. s[n].service \in Service /\ s[i].service \in Service
      BY <3>4 DEF Call
    <3>6. calls'[t][j].service \in Needs[s[n].service]
      BY <3>1, <3>3 DEF PendingNeeded
    <3>7. calls'[t][j].service \in Service
      BY <3>5, <3>6, LocatorAssumption DEF LocatorAssumption
    <3>8. rank[calls'[t][j].service] < rank[s[n].service]
      BY <3>5, <3>6 DEF Acyclic
    <3>9. i = n \/ rank[s[n].service] < rank[s[i].service]
      BY <2>1, <2>4, <3>1 DEF Ranked
    <3>10. /\ rank[calls'[t][j].service] \in Nat
           /\ rank[s[n].service] \in Nat /\ rank[s[i].service] \in Nat
      BY <3>5, <3>7 DEF Acyclic
    <3> QED
      BY <2>4, <3>8, <3>9, <3>10
  <2> QED
    BY <2>3, <2>5, <2>6
<1> QED
  BY <1>1, <1>2 DEF Ranked

LEMMA UnmadeKept ==
  ASSUME Unmade, Kept, \A t \in Thread : scopeStack'[t] = scopeStack[t] \/ DOMAIN calls'[t] = {}
  PROVE  Unmade'
<1>1. ASSUME NEW t \in Thread, NEW i \in DOMAIN calls'[t], Makes(calls'[t][i])
      PROVE  calls'[t][i].service \notin Last(scopeStack'[t])
  <2>1. i \in DOMAIN calls[t] /\ Makes(calls[t][i]) /\ calls'[t][i].service = calls[t][i].service
    BY <1>1 DEF Kept, Makes
  <2>2. scopeStack'[t] = scopeStack[t]
    BY <1>1
  <2> QED
    BY <2>1, <2>2 DEF Unmade
<1> QED
  BY <1>1 DEF Unmade

LEMMA BeginUnmade ==
  ASSUME LocatorTypeOK, Unmade, NEW t \in Thread, NEW s \in Service,
         RegisterService(t, s) \/ RegisterIfMissing(t, s) \/ ResolveService(t, s) \/ Clear(t)
  PROVE  Unmade'
<1>1. calls[t] = <<>> /\ scopeStack' = scopeStack
  BY DEF RegisterService, RegisterIfMissing, ResolveService, Clear, Idle
<1>2. PICK c \in Call : ~c.holds /\ Push(t, c)
  BY RegistrationType, ResolutionType, ClearingType
     DEF RegisterService, RegisterIfMissing, ResolveService, Clear
<1>3. Kept
  BY <1>1, <1>2, PushKeeps
<1> QED
  BY <1>1, <1>3, UnmadeKept

LEMMA AcquireUnmade ==
  ASSUME IInv, Unmade, NEW t \in Thread, AcquireUnique(t) \/ AcquireShared(t)
  PROVE  Unmade'
<1> DEFINE n == Len(calls[t])
<1>1. LocatorTypeOK /\ calls[t] # <<>> /\ scopeStack' = scopeStack
  BY DEF IInv, AcquireUnique, AcquireShared, Busy
<1>2. n \in DOMAIN calls[t] /\ Top(t) = calls[t][n] /\ Top(t) \in Call
  BY <1>1, TopOf
<1>3. services \in [Service -> Lifetime \cup {NoLifetime}]
  BY <1>1 DEF LocatorTypeOK
<1>4. PICK c \in Call :
        /\ Replace(t, c)
        /\ Makes(c) => c.service \notin Last(scopeStack[t])
  <2>1. CASE AcquireUnique(t)
    <3> DEFINE c == [Top(t) EXCEPT !.holds = TRUE]
    <3>1. c \in Call /\ c.op = "register"
      BY <1>2, <2>1 DEF AcquireUnique, Call
    <3>2. Replace(t, c)
      BY <2>1 DEF AcquireUnique
    <3> QED
      BY <3>1, <3>2 DEF Makes
  <2>2. CASE AcquireShared(t)
    <3> DEFINE v == Top(t).service
               c == [Top(t) EXCEPT !.holds = TRUE, !.lifetime = services[v],
                                   !.found = Found(t, v, services[v])]
    <3>1. /\ c \in Call /\ c.service = v
          /\ c.lifetime = services[v] /\ c.found = Found(t, v, services[v])
      BY <1>2, <1>3 DEF Call, Found
    <3>2. Replace(t, c)
      BY <2>2 DEF AcquireShared
    <3>3. Makes(c) => v \notin Last(scopeStack[t])
      BY <3>1 DEF Makes, Found, NotFound, Cached
    <3> QED
      BY <3>1, <3>2, <3>3
  <2> QED
    BY <2>1, <2>2
<1>5. /\ \A u \in Thread : DOMAIN calls'[u] = DOMAIN calls[u]
      /\ calls'[t][n] = c
      /\ \A u \in Thread : \A i \in DOMAIN calls[u] :
           (u = t /\ i = n) \/ calls'[u][i] = calls[u][i]
  BY <1>1, <1>4, ReplaceKeeps
<1>6. ASSUME NEW u \in Thread, NEW i \in DOMAIN calls'[u], Makes(calls'[u][i])
      PROVE  calls'[u][i].service \notin Last(scopeStack'[u])
  <2>1. CASE u = t /\ i = n
    BY <1>1, <1>4, <1>5, <1>6, <2>1
  <2>2. CASE ~(u = t /\ i = n)
    BY <1>1, <1>5, <1>6, <2>2 DEF Unmade
  <2> QED
    BY <2>1, <2>2
<1> QED
  BY <1>6 DEF Unmade

\* A call that ends leaves calls further out, none of which is for its service.
LEMMA EndUnmade ==
  ASSUME IInv, Unmade, NEW rank, Acyclic(rank), Ranked(rank), NEW t \in Thread,
         \/ FinishRegister(t) \/ ReturnCached(t) \/ ReturnError(t) \/ ReturnCreated(t)
         \/ ResolveDependency(t)
  PROVE  Unmade'
<1> DEFINE n == Len(calls[t])
<1>1. LocatorTypeOK /\ calls[t] # <<>>
  BY DEF IInv, FinishRegister, ReturnCached, ReturnError, ReturnCreated, ResolveDependency,
         RunsFactory, Resolving, Busy
<1>2. CASE ResolveDependency(t)
  <2>1. Kept /\ scopeStack' = scopeStack
    BY <1>1, <1>2, ResolveDependencyKeeps DEF ResolveDependency
  <2> QED
    BY <2>1, UnmadeKept
<1>3. CASE calls' = calls /\ scopeStack' = scopeStack
  <2>1. Kept
    BY <1>3 DEF Kept
  <2> QED
    BY <1>3, <2>1, UnmadeKept
<1>4. CASE Return(t) /\ scopeStack' = scopeStack
  <2>1. Kept
    BY <1>1, <1>4, ReturnKeeps
  <2> QED
    BY <1>4, <2>1, UnmadeKept
<1>5. CASE ReturnCreated(t) /\ Top(t).lifetime = "Scoped"
  <2> DEFINE made == Top(t).service
  <2>1. Kept /\ \A i \in DOMAIN calls'[t] : i < n
    BY <1>1, <1>5, ReturnKeeps, ReturnNested DEF ReturnCreated
  <2>2. n \in DOMAIN calls[t] /\ Top(t) = calls[t][n] /\ Top(t) \in Call
    BY <1>1, TopOf
  <2>3. Makes(Top(t)) /\ scopeStack[t] # <<>>
    <3>1. Makes(Top(t))
      BY <1>5 DEF ReturnCreated, RunsFactory, Resolving, Makes
    <3> QED
      BY <2>2, <3>1 DEF IInv, ScopeOpen
  <2>4. /\ scopeStack \in [Thread -> Seq(SUBSET Service)]
        /\ scopeStack' = [scopeStack EXCEPT ![t] = Append(Front(@), Last(@) \cup {made})]
    BY <1>1, <1>5 DEF LocatorTypeOK, ReturnCreated
  <2>5. made \in Service /\ Front(scopeStack[t]) \in Seq(SUBSET Service)
        /\ Last(scopeStack[t]) \in SUBSET Service
    BY <2>2, <2>3, <2>4, Stacks DEF Call
  <2>6. Last(scopeStack'[t]) = Last(scopeStack[t]) \cup {made}
    <3> DEFINE f == Front(scopeStack[t])
               m == Last(scopeStack[t]) \cup {made}
    <3>1. f \in Seq(SUBSET Service) /\ m \in SUBSET Service /\ scopeStack'[t] = Append(f, m)
      BY <2>4, <2>5
    <3> HIDE DEF f, m
    <3>2. Last(Append(f, m)) = m
      BY <3>1 DEF Last
    <3> QED
      BY <3>1, <3>2 DEF m
  <2>7. ASSUME NEW u \in Thread, NEW i \in DOMAIN calls'[u], Makes(calls'[u][i])
        PROVE  calls'[u][i].service \notin Last(scopeStack'[u])
    <3>1. i \in DOMAIN calls[u] /\ Makes(calls[u][i]) /\ calls'[u][i].service = calls[u][i].service
      BY <2>1, <2>7 DEF Kept, Makes
    <3>2. calls[u][i].service \notin Last(scopeStack[u])
      BY <3>1 DEF Unmade
    <3>3. CASE u = t
      <4>1. i < n /\ i \in DOMAIN calls[t]
        BY <2>1, <2>7, <3>1, <3>3
      <4>2. rank[calls[t][n].service] < rank[calls[t][i].service]
        BY <2>2, <4>1 DEF Ranked
      <4>3. rank[calls[t][n].service] \in Nat
        BY <2>2, <2>5 DEF Acyclic
      <4>4. calls[t][i].service # made
        BY <2>2, <4>2, <4>3
      <4> QED
        BY <2>6, <3>1, <3>2, <3>3, <4>4
    <3>4. CASE u # t
      BY <2>4, <3>1, <3>2, <3>4
    <3> QED
      BY <3>3, <3>4
  <2> QED
    BY <2>1, <2>7 DEF Unmade
<1>6. \/ ResolveDependency(t)
      \/ calls' = calls /\ scopeStack' = scopeStack
      \/ Return(t) /\ scopeStack' = scopeStack
      \/ ReturnCreated(t) /\ Top(t).lifetime = "Scoped"
  BY DEF FinishRegister, ReturnCached, ReturnError, ReturnCreated
<1> QED
  BY <1>2, <1>3, <1>4, <1>5, <1>6

LEMMA ScopeUnmade ==
  ASSUME LocatorTypeOK, Unmade, NEW t \in Thread,
         BeginScope(t) \/ EndScope(t) \/ FailSharing(t) \/ FinishClear(t)
  PROVE  Unmade'
<1>1. /\ calls' = calls \/ calls' = [calls EXCEPT ![t] = <<>>]
      /\ calls \in [Thread -> Seq(Call)] /\ scopeStack \in [Thread -> Seq(SUBSET Service)]
  BY DEF LocatorTypeOK, BeginScope, EndScope, FinishClear, FailSharing
<1>2. Kept
  <2>1. ASSUME NEW u \in Thread, NEW i \in DOMAIN calls'[u]
        PROVE  i \in DOMAIN calls[u] /\ calls'[u][i] = calls[u][i]
    <3>1. CASE u = t
      BY <1>1, <2>1, <3>1
    <3>2. CASE u # t
      BY <1>1, <2>1, <3>2
    <3> QED
      BY <3>1, <3>2
  <2> QED
    BY <2>1 DEF Kept
<1>3. ASSUME NEW u \in Thread PROVE scopeStack'[u] = scopeStack[u] \/ DOMAIN calls'[u] = {}
  BY <1>1 DEF BeginScope, EndScope, FinishClear, FailSharing, Idle
<1> QED
  BY <1>2, <1>3, UnmadeKept

\* ResolveInternal: an instance that is put into a scope is put where there is none,
\* however factories resolve in turn and whatever other threads do.
THEOREM OneInstancePerScope ==
  ASSUME NEW rank, Acyclic(rank)
  PROVE  LocatorSpec => OnePerScope
<1> DEFINE Inv == IInv /\ Ranked(rank) /\ PendingNeeded /\ Unmade
<1>1. LocatorInit => Inv
  <2>1. LocatorInit => \A t \in Thread : DOMAIN calls[t] = {}
    BY DEF LocatorInit
  <2> QED
    BY <2>1, InitHolds DEF Ranked, PendingNeeded, Unmade
<1>2. ASSUME Inv, [LocatorNext]_locatorVars PROVE Inv'
  <2>1. IInv' /\ LocatorTypeOK
    BY <1>2, StepKeeps DEF IInv
  <2>2. Nested
    BY <1>2, <2>1, StepNested
  <2>3. Unmade'
    <3>1. CASE UNCHANGED locatorVars
      <4>1. Kept
        BY <3>1 DEF locatorVars, Kept
      <4> QED
        BY <1>2, <3>1, <4>1, UnmadeKept DEF locatorVars
    <3>2. ASSUME NEW t \in Thread, Run(t) PROVE Unmade'
      BY <1>2, <2>1, <3>2, AcquireUnmade, EndUnmade, ScopeUnmade DEF Run
    <3>3. ASSUME NEW t \in Thread, NEW s \in Service,
                 RegisterService(t, s) \/ RegisterIfMissing(t, s) \/ ResolveService(t, s)
                 \/ Clear(t)
          PROVE  Unmade'
      BY <1>2, <2>1, <3>3, BeginUnmade
    <3>4. ASSUME NEW t \in Thread, BeginScope(t) \/ EndScope(t) PROVE Unmade'
      BY <1>2, <2>1, <3>4, ScopeUnmade
    <3> QED
      BY <1>2, <3>1, <3>2, <3>3, <3>4, LocatorAssumption
         DEF LocatorNext, Terminated, LocatorAssumption
  <2>4. PendingNeeded' /\ Ranked(rank)'
    BY <1>2, <2>1, <2>2, NestedKeeps
  <2> QED
    BY <2>1, <2>3, <2>4
<1> DEFINE Once == \A t \in Thread : ReturnCreated(t) /\ Top(t).lifetime = "Scoped"
                     => scopeStack[t] # <<>> /\ Top(t).service \notin Last(scopeStack[t])
<1>3. Inv => Once
  <2>1. ASSUME Inv, NEW t \in Thread, ReturnCreated(t), Top(t).lifetime = "Scoped"
        PROVE  scopeStack[t] # <<>> /\ Top(t).service \notin Last(scopeStack[t])
    <3>1. Makes(Top(t)) /\ calls[t] # <<>>
      BY <2>1 DEF ReturnCreated, RunsFactory, Resolving, Busy, Makes
    <3>2. Len(calls[t]) \in DOMAIN calls[t] /\ Top(t) = calls[t][Len(calls[t])]
      BY <2>1, <3>1, TopOf DEF IInv
    <3> QED
      BY <2>1, <3>1, <3>2 DEF IInv, ScopeOpen, Unmade
  <2> QED
    BY <2>1
<1> HIDE DEF Inv
<1>4. Inv /\ [LocatorNext]_locatorVars => Inv'
  BY <1>2
<1> QED
  BY <1>1, <1>3, <1>4, PTL DEF LocatorSpec, OnePerScope

=============================================================================
