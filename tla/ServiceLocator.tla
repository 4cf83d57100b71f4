--------------------------- MODULE ServiceLocator ---------------------------
(***************************************************************************)
(* One ServiceLocator used by several threads: registration, resolution    *)
(* with dependency injection, scopes and Clear.                            *)
(*                                                                         *)
(* The shared mutex is modelled by who holds it.  Critical sections that   *)
(* call nothing are one step; a factory runs with the lock held and may    *)
(* resolve again, so a resolution and the registration of a singleton are  *)
(* several steps, and a thread has a stack of calls.                       *)
(*                                                                         *)
(* std::shared_mutex does not say whether a waiting writer holds up those  *)
(* who come to share it, nor what happens when a thread shares it twice:   *)
(* a lock that may be granted may also be held up, so nothing is assumed   *)
(* of the fairness of any step.                                            *)
(***************************************************************************)
EXTENDS Naturals, SequencesExt

CONSTANTS
  Thread,
  Service,       \* the interface types
  Needs,         \* [Service -> SUBSET Service]: what its factory resolves
  Offered,       \* [Service -> SUBSET Lifetime]: how its factory may be registered
  MaxScopes,     \* bound on the scopes a thread has open
  NoLifetime

Lifetime == {"Transient", "Scoped", "Singleton"}

ASSUME LocatorAssumption ==
  /\ Service # {} /\ Needs \in [Service -> SUBSET Service]
  /\ Offered \in [Service -> SUBSET Lifetime]
  /\ MaxScopes \in Nat
  /\ NoLifetime \notin Lifetime

VARIABLES
  services,     \* the lifetime each service is registered with, or NoLifetime
  calls,        \* [Thread -> Seq(Call)]: the calls in progress, innermost last
  scopeStack,   \* [Thread -> Seq(SUBSET Service)]: thread_local; instances made
  guards,       \* [Thread -> Nat]: ScopedServiceLocator objects alive
  terminated    \* why std::terminate was called, or "no"

locatorVars == <<services, calls, scopeStack, guards, terminated>>

Call == [op        : {"register", "resolve", "clear"},
         service   : Service,
         lifetime  : Lifetime \cup {NoLifetime},  \* to register with, or found registered
         ifMissing : BOOLEAN,               \* from one of the ...IfMissing functions
         holds     : BOOLEAN,               \* has locked the mutex
         found     : {"nothing", "error", "cached", "factory"},  \* by a resolution
         pending   : SUBSET Service]        \* its factory has still to resolve these

LocatorInit ==
  /\ services = [s \in Service |-> NoLifetime]
  /\ calls = [t \in Thread |-> <<>>]
  /\ scopeStack = [t \in Thread |-> <<>>]
  /\ guards = [t \in Thread |-> 0]
  /\ terminated = "no"

Idle(t) == terminated = "no" /\ calls[t] = <<>>
Busy(t) == terminated = "no" /\ calls[t] # <<>>
Top(t) == Last(calls[t])

Push(t, c) == calls' = [calls EXCEPT ![t] = Append(@, c)]
Replace(t, c) == calls' = [calls EXCEPT ![t] = Append(Front(@), c)]
Return(t) == calls' = [calls EXCEPT ![t] = Front(@)]

-----------------------------------------------------------------------------
(* The mutex. *)

Holders(op) ==
  {t \in Thread : \E i \in DOMAIN calls[t] : calls[t][i].op = op /\ calls[t][i].holds}

WriterWaits ==
  \E t \in Thread : Busy(t) /\ Top(t).op \in {"register", "clear"} /\ ~Top(t).holds

\* What the mutex may grant.  While a writer waits it need not share.
CanShare == Holders("register") = {}
CanOwn_BesideReaders == Holders("register") = {}
CanOwn == Holders("register") = {} /\ Holders("resolve") = {}

-----------------------------------------------------------------------------
(* Registration. *)

Registration(s, lifetime, deps, ifMissing) ==
  [op |-> "register", service |-> s, lifetime |-> lifetime,
   ifMissing |-> ifMissing, holds |-> FALSE, found |-> "nothing", pending |-> deps]

\* An instance, or a factory; that of a singleton is called at once.
Registrations(s, ifMissing) ==
  {Registration(s, "Singleton", {}, ifMissing)} \cup
  {Registration(s, l, IF l = "Singleton" THEN Needs[s] ELSE {}, ifMissing) :
     l \in Offered[s]}

RegisterService(t, s) ==
  /\ Idle(t)
  /\ \E r \in Registrations(s, FALSE) : Push(t, r)
  /\ UNCHANGED <<services, scopeStack, guards, terminated>>

\* IsRegistered under the shared lock, which is released before the other.
RegisterIfMissing_Upgrades(t, s) ==
  /\ Idle(t) /\ CanShare
  /\ services[s] = NoLifetime
  /\ \E r \in Registrations(s, TRUE) :
       calls' = [calls EXCEPT ![t] = <<[r EXCEPT !.op = "resolve", !.holds = TRUE, !.lifetime = NoLifetime], r>>]
  /\ UNCHANGED <<services, scopeStack, guards, terminated>>
RegisterIfMissing(t, s) ==
  /\ Idle(t) /\ CanShare
  /\ services[s] = NoLifetime
  /\ \E r \in Registrations(s, TRUE) : Push(t, r)
  /\ UNCHANGED <<services, scopeStack, guards, terminated>>

AcquireUnique(t) ==
  /\ Busy(t) /\ Top(t).op = "register" /\ ~Top(t).holds
  /\ CanOwn
  /\ Replace(t, [Top(t) EXCEPT !.holds = TRUE])
  /\ UNCHANGED <<services, scopeStack, guards, terminated>>

FinishRegister(t) ==
  /\ Busy(t) /\ Top(t).op = "register" /\ Top(t).holds
  /\ Top(t).pending = {}
  /\ services' = [services EXCEPT ![Top(t).service] = Top(t).lifetime]
  /\ Return(t)
  /\ UNCHANGED <<scopeStack, guards, terminated>>

-----------------------------------------------------------------------------
(* Resolution. *)

Resolution(s) ==
  [op |-> "resolve", service |-> s, lifetime |-> NoLifetime,
   ifMissing |-> FALSE, holds |-> FALSE, found |-> "nothing", pending |-> Needs[s]]

\* Resolve or TryResolve.
ResolveService(t, s) ==
  /\ Idle(t)
  /\ Push(t, Resolution(s))
  /\ UNCHANGED <<services, scopeStack, guards, terminated>>

\* What a resolution does with a service registered with this lifetime.
NotFound(t, lifetime) == lifetime = NoLifetime \/ (lifetime = "Scoped" /\ scopeStack[t] = <<>>)

Cached_SingletonsOnly(t, s, lifetime) == lifetime = "Singleton"
Cached(t, s, lifetime) ==
  \/ lifetime = "Singleton"
  \/ lifetime = "Scoped" /\ scopeStack[t] # <<>> /\ s \in Last(scopeStack[t])

Found(t, s, lifetime) ==
  CASE NotFound(t, lifetime) -> "error"
    [] ~NotFound(t, lifetime) /\ Cached(t, s, lifetime) -> "cached"
    [] OTHER -> "factory"

\* The lock is taken, the descriptor found and the scope looked up; references to
\* both are kept while a factory runs.
AcquireShared(t) ==
  /\ Busy(t) /\ Top(t).op = "resolve" /\ ~Top(t).holds
  /\ CanShare
  /\ LET s == Top(t).service
     IN  Replace(t, [Top(t) EXCEPT !.holds = TRUE, !.lifetime = services[s],
                                   !.found = Found(t, s, services[s])])
  /\ UNCHANGED <<services, scopeStack, guards, terminated>>

Resolving(t) == Busy(t) /\ Top(t).op = "resolve" /\ Top(t).holds

ReturnCached(t) ==
  /\ Resolving(t) /\ Top(t).found = "cached"
  /\ Return(t)
  /\ UNCHANGED <<services, scopeStack, guards, terminated>>

\* The caller gets an error; in a factory it is an exception, which meets the
\* noexcept of the resolution that called the factory.
ReturnError(t) ==
  /\ Resolving(t) /\ Top(t).found = "error"
  /\ IF Len(calls[t]) = 1
     THEN Return(t) /\ UNCHANGED terminated
     ELSE terminated' = "missing" /\ UNCHANGED calls
  /\ UNCHANGED <<services, scopeStack, guards>>

RunsFactory(t) ==
  \/ Resolving(t) /\ Top(t).found = "factory"
  \/ Busy(t) /\ Top(t).op = "register" /\ Top(t).holds

\* The factory resolves a dependency, in the order the compiler evaluates them.
ResolveDependency(t) ==
  /\ RunsFactory(t)
  /\ \E d \in Top(t).pending :
       calls' = [calls EXCEPT ![t] =
                   Front(@) \o <<[Top(t) EXCEPT !.pending = @ \ {d}], Resolution(d)>>]
  /\ UNCHANGED <<services, scopeStack, guards, terminated>>

ReturnCreated(t) ==
  /\ Resolving(t) /\ RunsFactory(t) /\ Top(t).pending = {}
  /\ scopeStack' = IF Top(t).lifetime = "Scoped"
                   THEN [scopeStack EXCEPT ![t] =
                           Append(Front(@), Last(@) \cup {Top(t).service})]
                   ELSE scopeStack
  /\ Return(t)
  /\ UNCHANGED <<services, guards, terminated>>

\* To share a mutex one owns is undefined: the thread waits for itself, or the
\* library throws, again through noexcept.
SharesOwnLock(t) == Busy(t) /\ Top(t).op = "resolve" /\ t \in Holders("register")

FailSharing(t) ==
  /\ SharesOwnLock(t)
  /\ terminated' = "lock"
  /\ UNCHANGED <<services, calls, scopeStack, guards>>

-----------------------------------------------------------------------------
(* Scopes, by ScopedServiceLocator, and Clear. *)

BeginScope(t) ==
  /\ Idle(t) /\ guards[t] < MaxScopes
  /\ scopeStack' = [scopeStack EXCEPT ![t] = Append(@, {})]
  /\ guards' = [guards EXCEPT ![t] = @ + 1]
  /\ UNCHANGED <<services, calls, terminated>>

EndScope(t) ==
  /\ Idle(t) /\ guards[t] > 0
  /\ IF scopeStack[t] = <<>>
     THEN terminated' = "scope" /\ UNCHANGED scopeStack
     ELSE scopeStack' = [scopeStack EXCEPT ![t] = Front(@)] /\ UNCHANGED terminated
  /\ guards' = [guards EXCEPT ![t] = @ - 1]
  /\ UNCHANGED <<services, calls>>

\* Clear is about no service, and waits for the mutex.
Clearing ==
  [op |-> "clear", service |-> CHOOSE s \in Service : TRUE, lifetime |-> NoLifetime,
   ifMissing |-> FALSE, holds |-> FALSE, found |-> "nothing", pending |-> {}]

Clear(t) ==
  /\ Idle(t)
  /\ Push(t, Clearing)
  /\ UNCHANGED <<services, scopeStack, guards, terminated>>

\* The calling thread's scopes go with the services.
FinishClear(t) ==
  /\ Busy(t) /\ Top(t).op = "clear"
  /\ CanOwn
  /\ services' = [s \in Service |-> NoLifetime]
  /\ scopeStack' = [scopeStack EXCEPT ![t] = <<>>]
  /\ calls' = [calls EXCEPT ![t] = <<>>]
  /\ UNCHANGED <<guards, terminated>>

Terminated == terminated # "no" /\ UNCHANGED locatorVars

-----------------------------------------------------------------------------

\* The steps of the calls a thread has in progress.
Run(t) ==
  \/ AcquireUnique(t) \/ FinishRegister(t)
  \/ AcquireShared(t) \/ ReturnCached(t) \/ ReturnError(t)
  \/ ResolveDependency(t) \/ ReturnCreated(t) \/ FailSharing(t) \/ FinishClear(t)

LocatorNext ==
  \/ \E t \in Thread :
       \/ \E s \in Service : RegisterService(t, s) \/ RegisterIfMissing(t, s) \/ ResolveService(t, s)
       \/ BeginScope(t) \/ EndScope(t) \/ Clear(t)
       \/ Run(t)
  \/ Terminated

LocatorSpec == LocatorInit /\ [][LocatorNext]_locatorVars

-----------------------------------------------------------------------------
(* Properties. *)

\* Type invariant of the service locator.
LocatorTypeOK ==
  /\ services \in [Service -> Lifetime \cup {NoLifetime}]
  /\ calls \in [Thread -> Seq(Call)]
  /\ scopeStack \in [Thread -> Seq(SUBSET Service)]
  /\ guards \in [Thread -> Nat]
  /\ terminated \in {"no", "missing", "lock", "scope"}

\* The reference ResolveInternal keeps to the descriptor, across factories that
\* resolve in their turn, is to what is registered: nobody replaced or cleared it.
DescriptorStable ==
  \A t \in Thread : \A i \in DOMAIN calls[t] :
    LET c == calls[t][i] IN
    c.op = "resolve" /\ c.holds => c.lifetime = services[c.service]

\* A scope makes one instance of a scoped service, whether it is asked for or
\* resolved as a dependency: when a factory comes to its end, whatever it resolved,
\* the scope is there and has no instance of the service yet.
OnePerScope ==
  [][\A t \in Thread : ReturnCreated(t) /\ Top(t).lifetime = "Scoped"
       => scopeStack[t] # <<>> /\ Top(t).service \notin Last(scopeStack[t])]_locatorVars

\* A thread that can go on whatever the mutex prefers, and one that asks to share
\* the mutex it holds: a factory resolves on the thread of a call that keeps it.
GoesOn(t) ==
  /\ Busy(t)
  /\ CASE Top(t).holds -> TRUE
       [] ~Top(t).holds /\ Top(t).op = "resolve" -> CanShare /\ ~WriterWaits
       [] OTHER -> CanOwn
Reenters(t) ==
  Busy(t) /\ Top(t).op = "resolve" /\ ~Top(t).holds /\ t \in Holders("resolve") \cup Holders("register")

\* Threads wait for one another, or one for itself, only when a factory resolves
\* again under the lock of the call it runs for: that call must be able to share
\* the mutex again, and a mutex that lets a waiting writer go first, or that is
\* held to register, does not let it.  Nothing else in the locator can deadlock:
\* no check followed by a registration, no clearing, no call that found nothing.
OnlyReentryBlocks ==
  (\E t \in Thread : Busy(t)) => \E t \in Thread : GoesOn(t) \/ Reenters(t)

\* service_locator.hpp:73: RegisterWithDependencies takes any lifetime, so the
\* factory of a singleton may resolve what it depends on.
SingletonsCanDepend == \A t \in Thread : ~SharesOwnLock(t)

=============================================================================
