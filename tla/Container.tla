----------------------------- MODULE Container -----------------------------
(***************************************************************************)
(* The composition containers of one process and the stress backend they   *)
(* share.  A program asks its containers for adapters; Container._get      *)
(* looks into the cache, runs the factory, which asks for what the adapter *)
(* needs, and stores the result, all without a lock.  The stress           *)
(* dictionary takes the heavy backend from a cache of the module, under a  *)
(* double-checked lock; a backend that cannot be made is remembered as     *)
(* missing.                                                                *)
(***************************************************************************)
EXTENDS Wiring, Integers, Functions, SequencesExt

CONSTANTS
  Mains,      \* the threads that run a program
  Workers,    \* the threads that serve requests with App's container
  App,        \* the thread that starts the web application
  Scripts,    \* the scripts it may run instead
  Programs,   \* the programs the other threads may run
  Injected    \* the threads whose containers were given an LLM provider

Threads == Mains \union Workers

Nobody == "nobody"

\* What _stressifier_cache holds: nothing, None, or the instance with a number.
Absent == -1

None == 0

ASSUME ContainerAssumption ==
  /\ App \in Mains
  /\ Mains \intersect Workers = {}
  /\ Nobody \notin Threads
  /\ \A program \in Programs \union Scripts : program \in Seq(Nat \X Adapters)

VARIABLES
  agenda,   \* what a thread still asks a container for: <<container, key>>
  factory,  \* the factories a thread is in, the innermost last
  cache,    \* what the containers of a program hold, in the order of the stores
  lock,     \* who holds _stressifier_lock
  backend,  \* what _stressifier_cache holds
  loads,    \* how many backends the process has made
  at,       \* where a thread is in _get_stressifier
  found     \* the backend a thread's stress dictionary has got

containerVars == <<agenda, factory, cache>>
stressVars == <<lock, backend, loads, at, found>>

ContainerInit ==
  /\ agenda \in {a \in [Threads -> Programs \union Scripts \union {AppStartup, <<>>}] :
                   \A t \in Threads : \/ t = App /\ a[t] \in Scripts \union {AppStartup}
                                      \/ t \in Mains \ {App} /\ a[t] \in Programs
                                      \/ t \in Workers /\ a[t] = <<>>}
  /\ factory = [t \in Threads |-> <<>>]
  /\ cache = [m \in Mains |-> <<>>]
  /\ lock = Nobody
  /\ backend = Absent
  /\ loads = 0
  /\ at = [t \in Threads |-> "outside"]
  /\ found = [t \in Threads |-> Absent]

\* Whose containers a thread uses.
OwnerOf(t) == IF t \in Workers THEN App ELSE t

\* A thread that is inside a container, or about to ask one.
Busy(t) == agenda[t] # <<>> \/ factory[t] # <<>>

\* The web application is up: it has all it asks for before it serves.
Serving == Range(AppStartup) \subseteq Range(cache[App])

-----------------------------------------------------------------------------
(***************************************************************************)
(* _get_stressifier                                                        *)
(***************************************************************************)

Innermost(t) == Last(factory[t])

\* A thread takes what the cache of the module holds.
TakeBackend(t) ==
  /\ at' = [at EXCEPT ![t] = "done"]
  /\ found' = [found EXCEPT ![t] = backend]
  /\ UNCHANGED <<backend, loads>>

\* The first look, without the lock.
LookUpBackend(t) ==
  /\ at[t] = "outside"
  /\ factory[t] # <<>>
  /\ Innermost(t).key[2] = "stress_dict"
  /\ IF backend # Absent
     THEN TakeBackend(t)
     ELSE /\ at' = [at EXCEPT ![t] = "waiting"]
          /\ UNCHANGED <<backend, loads, found>>
  /\ UNCHANGED <<lock, containerVars>>

AcquireLock(t) ==
  /\ at[t] = "waiting"
  /\ lock = Nobody
  /\ lock' = t
  /\ at' = [at EXCEPT ![t] = "inside"]
  /\ UNCHANGED <<backend, loads, found, containerVars>>

\* Mutant of SecondLook: no second look under the lock.
NoSecondLook(t) ==
  /\ at' = [at EXCEPT ![t] = "loading"]
  /\ UNCHANGED <<lock, backend, loads, found>>

\* The second look, under the lock: somebody else may have made the backend.
SecondLook(t) ==
  IF backend # Absent
  THEN lock' = Nobody /\ TakeBackend(t)
  ELSE /\ at' = [at EXCEPT ![t] = "loading"]
       /\ UNCHANGED <<lock, backend, loads, found>>

LookAgain(t) ==
  /\ at[t] = "inside"
  /\ SecondLook(t)
  /\ UNCHANGED containerVars

\* The library builds its model, or cannot: both are remembered.
LoadBackend(t) ==
  /\ at[t] = "loading"
  /\ \/ backend' = loads + 1 /\ loads' = loads + 1
     \/ backend' = None /\ UNCHANGED loads
  /\ found' = [found EXCEPT ![t] = backend']
  /\ at' = [at EXCEPT ![t] = "done"]
  /\ lock' = Nobody
  /\ UNCHANGED containerVars

-----------------------------------------------------------------------------
(***************************************************************************)
(* Container._get                                                          *)
(***************************************************************************)

\* What the innermost factory of a thread still needs, else what its program asks for.
Wanted(t) == IF factory[t] = <<>> THEN agenda[t] ELSE Innermost(t).needs

\* The innermost factory has got what it asked for and goes on.
Advance(stack) == Append(Front(stack), [Last(stack) EXCEPT !.needs = Tail(@)])

\* The cache of the container holds the adapter already.
GetCached(t) ==
  /\ Wanted(t) # <<>>
  /\ Head(Wanted(t)) \in Range(cache[OwnerOf(t)])
  /\ IF factory[t] = <<>>
     THEN agenda' = [agenda EXCEPT ![t] = Tail(@)] /\ UNCHANGED factory
     ELSE factory' = [factory EXCEPT ![t] = Advance(@)] /\ UNCHANGED agenda
  /\ UNCHANGED <<cache, stressVars>>

\* It does not: the factory is called.  It asks the container it belongs to.
CallFactory(t) ==
  /\ Wanted(t) # <<>>
  /\ Head(Wanted(t)) \notin Range(cache[OwnerOf(t)])
  /\ LET key  == Head(Wanted(t))
         call == [key |-> key,
                  needs |-> Ask(key[1], Getters[(OwnerOf(t) \in Injected)][key[2]])]
     IN  factory' = [factory EXCEPT ![t] = Append(@, call)]
  /\ UNCHANGED <<agenda, cache, stressVars>>

\* The factory has all it needs: the adapter is made and stored.
Store(t) ==
  /\ factory[t] # <<>>
  /\ Wanted(t) = <<>>
  /\ Innermost(t).key[2] = "stress_dict" => at[t] = "done"
  /\ cache' = [cache EXCEPT ![OwnerOf(t)] = Append(@, Innermost(t).key)]
  /\ at' = [at EXCEPT ![t] = IF Innermost(t).key[2] = "stress_dict" THEN "outside" ELSE @]
  /\ LET outer == Front(factory[t])
     IN  IF outer = <<>>
         THEN /\ factory' = [factory EXCEPT ![t] = outer]
              /\ agenda' = [agenda EXCEPT ![t] = Tail(@)]
         ELSE factory' = [factory EXCEPT ![t] = Advance(outer)] /\ UNCHANGED agenda
  /\ UNCHANGED <<lock, backend, loads, found>>

UseContainer(t) ==
  \/ LookUpBackend(t)
  \/ AcquireLock(t)
  \/ LookAgain(t)
  \/ LoadBackend(t)
  \/ GetCached(t)
  \/ CallFactory(t)
  \/ Store(t)

-----------------------------------------------------------------------------
(***************************************************************************)
(* Properties                                                              *)
(***************************************************************************)

\* However many containers the threads of a process build, the heavy stress model
\* is loaded at most once, and every dictionary that has looked has got what the
\* module remembers, the model or its absence (ukrainian.py:31-45).
OneStressBackend ==
  /\ loads <= 1
  /\ \A t \in Threads : found[t] # Absent => found[t] = backend

\* "Each adapter is instantiated at most once", though the cache has no lock: one
\* thread fills a container before others use it, and what a request asks for is
\* there by then; and nothing is built before what it is built from: what is
\* stored last was not there, and all it needs was
\* (composition_root.py:128-136, app.py:47-75, dependencies.py:56-58).
OneInstanceEach ==
  \A m \in Mains :
    cache[m] # <<>> =>
      LET key    == Last(cache[m])
          before == Range(Front(cache[m]))
      IN  /\ key \notin before
          /\ \A need \in Range(Getters[(m \in Injected)][key[2]]) : <<key[1], need>> \in before
=============================================================================
