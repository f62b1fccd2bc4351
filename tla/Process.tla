------------------------------ MODULE Process -------------------------------
(***************************************************************************)
(* The process around the heap: initialisation under pthread_once, the     *)
(* first call of a thread, the start of the maintenance thread, the order  *)
(* in which the calls take the locks, and fork.                            *)
(*                                                                         *)
(* What a thread still has to do is a sequence of steps: locks to take and *)
(* release, and functions to call, which are replaced by one of the paths  *)
(* through their code when their turn comes.  What happens to the heap     *)
(* between two steps is the subject of the other modules.  One lock stands *)
(* for the locks of all pools: no path holds two of them.                  *)
(***************************************************************************)
EXTENDS Naturals, Sequences

CONSTANTS
  Threads, Bg,      \* the application's threads, the maintenance thread
  MaxCalls,         \* bound on a thread's calls and on Bg's rounds, per process
  Nobody,           \* owner of a free lock
  Gone              \* owner of a lock whose holder a fork did not copy

ASSUME ProcessAssumption ==
  /\ Bg \notin Threads /\ {Nobody, Gone} \cap (Threads \cup {Bg}) = {} /\ Nobody # Gone
  /\ MaxCalls \in Nat

Actors == Threads \cup {Bg}
Locks == {"bg_start", "pool", "intern", "bg", "registry", "memfd"}

VARIABLES
  init_once,        \* btm_init_once: "new", "running" or "done"
  btm_partitions,   \* the tables are there
  btm_ready,
  btm_mesh_mode,    \* chunks are backed by the memfd
  oom,              \* initialisation could not map the tables
  btm_tls,          \* threads that have a cache
  bg_started, bg_async,
  spawned,          \* maintenance threads created in this process
  lock,             \* the owner of each lock
  todo,             \* what each thread still has to do in its call
  calls,            \* calls a thread may still make
  forked            \* this is the child of a fork

initVars == <<init_once, btm_partitions, btm_ready, btm_mesh_mode, oom>>
bgVars == <<bg_started, bg_async, spawned>>
vars == <<initVars, btm_tls, bgVars, lock, todo, calls, forked>>

Init ==
  /\ init_once = "new" /\ btm_partitions = FALSE /\ btm_ready = FALSE
  /\ btm_mesh_mode = FALSE /\ oom = FALSE
  /\ btm_tls = {} /\ bg_started = FALSE /\ bg_async = FALSE /\ spawned = 0
  /\ lock = [l \in Locks |-> Nobody]
  /\ todo = [a \in Actors |-> <<>>]
  /\ calls = [a \in Actors |-> MaxCalls]
  /\ forked = FALSE

-----------------------------------------------------------------------------
(* The paths through the code, as far as locks go *)

Sec(l, body) == <<<<"lock", l>>>> \o body \o <<<<"unlock", l>>>>
Call(f) == <<<<f>>>>

Leaf(l) == Sec(l, <<>>)
memfd == IF btm_mesh_mode THEN Leaf("memfd") ELSE <<>>

\* btm_intern_slow: a hit, or an empty entry claimed under the lock.
InternPathsMutant == {<<>>, <<<<"lock", "intern">>>>}
InternPaths == {<<>>, Leaf("intern")}

\* btm_chunk_obtain, called with the pool lock held.
ObtainPathsMutant == {Call("start") \o Leaf("bg") \o Call("map_fresh") \o Call("bg_signal")}
ObtainPaths == {Leaf("bg") \o x \o y : x \in {<<>>, Call("map_fresh")},
                                       y \in {<<>>, Call("bg_signal")}}

\* A round of bg_main, which may trim a chunk and map one ahead of demand.
Round == Leaf("bg") \o Leaf("bg")
Ahead == Call("map_fresh") \o Leaf("bg")
RoundPaths == {Round, Round \o Call("unmap"), Round \o Ahead, Round \o Call("unmap") \o Ahead}

\* btm_compact, which does nothing without the memfd, and btm_pageout_cold: one
\* pool after the other.
SweepPaths == {<<>>, Leaf("pool")}

\* btm_malloc_at: a thread without a cache first makes one.  Without memory for
\* it malloc gives up.
Refill == Call("partition_of") \o Call("refill")
MallocPaths(t) ==
  IF t \in btm_tls THEN {Refill}
  ELSE {Call("once"), Call("once") \o Call("tls") \o Call("start") \o Refill}

\* The paths of thread t through the function f.  Without memory for a cache free
\* returns the slot to its pool.  A flush disposes of at most one chunk and a
\* leaving thread flushes one bin: more repeat these.
Paths(f, t) ==
  CASE f = "malloc" -> MallocPaths(t)
    [] f = "free" -> {Call("tls") \o Call("flush"), Call("flush"), Leaf("registry")}
    [] f = "large_alloc" -> {Call("once"), Call("once") \o Leaf("registry")}
    [] f = "large_realloc" -> {<<>>, Leaf("registry") \o Leaf("registry")}
    [] f = "sweep" -> SweepPaths
    [] f = "partition_of" -> InternPaths
    [] f = "refill" -> {<<>>, Leaf("pool"), Sec("pool", Call("obtain"))}
    [] f = "flush" -> {<<>>, Leaf("pool"), Sec("pool", Call("dispose"))}
    [] f = "obtain" -> ObtainPaths
    [] f = "map_fresh" -> {memfd, memfd \o memfd, memfd \o Leaf("registry")}
    [] f = "bg_signal" -> {IF bg_async THEN Leaf("bg") ELSE <<>>}
    [] f = "dispose" -> {Leaf("bg")} \cup (IF bg_async THEN {} ELSE {Leaf("bg") \o Call("unmap")})
    [] f = "unmap" -> {Leaf("registry") \o memfd}
    [] f = "bg_main" -> RoundPaths

Entries == {"malloc", "free", "large_alloc", "large_realloc", "sweep"}
Called == {"malloc", "partition_of", "refill", "flush", "obtain", "map_fresh", "bg_signal",
           "dispose", "unmap"}

At(a, f) == todo[a] # <<>> /\ Head(todo[a])[1] = f

\* The step at the head of a's sequence gives way to the steps s.
Become(a, s) == todo' = [todo EXCEPT ![a] = s \o Tail(@)]

\* Without the tables (a failed initialisation) a refill faults: it has no step.
Expand(a) ==
  /\ \E f \in Called : /\ At(a, f)
                       /\ f = "refill" => btm_partitions
                       /\ \E s \in Paths(f, a) : Become(a, s)
  /\ UNCHANGED <<initVars, btm_tls, bgVars, lock, calls, forked>>

Lock(a) ==
  /\ At(a, "lock")
  /\ LET l == Head(todo[a])[2] IN lock[l] = Nobody /\ lock' = [lock EXCEPT ![l] = a]
  /\ Become(a, <<>>)
  /\ UNCHANGED <<initVars, btm_tls, bgVars, calls, forked>>

Unlock(a) ==
  /\ At(a, "unlock")
  /\ lock' = [lock EXCEPT ![Head(todo[a])[2]] = Nobody]
  /\ Become(a, <<>>)
  /\ UNCHANGED <<initVars, btm_tls, bgVars, calls, forked>>

\* A call of the application, or a round of bg_main once the thread runs.  There
\* is nothing to free or to sweep before initialisation.
Begin(a, f) ==
  /\ todo[a] = <<>> /\ calls[a] > 0
  /\ a = Bg <=> f = "bg_main"
  /\ a = Bg => spawned > 0
  /\ f \in {"free", "large_realloc", "sweep"} => btm_ready
  /\ calls' = [calls EXCEPT ![a] = @ - 1]
  /\ \E s \in Paths(f, a) : todo' = [todo EXCEPT ![a] = s]
  /\ UNCHANGED <<initVars, btm_tls, bgVars, lock, forked>>

-----------------------------------------------------------------------------
(* Initialisation, the first call of a thread, the maintenance thread *)

\* pthread_once returns to the caller at once, or when the thread that runs
\* btm_do_init is done.
OnceReturnsMutant == btm_ready \/ init_once # "new"
OnceReturns == btm_ready \/ init_once = "done"

btm_ensure_init(t) ==
  /\ At(t, "once")
  /\ \/ OnceReturns /\ Become(t, <<>>) /\ UNCHANGED init_once
     \/ /\ ~btm_ready /\ init_once = "new"
        /\ init_once' = "running"
        /\ Become(t, Call("build"))
  /\ UNCHANGED <<btm_partitions, btm_ready, btm_mesh_mode, oom, btm_tls, bgVars, lock, calls, forked>>

\* btm_do_init up to the tables; their mmap may fail, and then it returns.
Build(t) ==
  /\ At(t, "build")
  /\ \/ /\ oom' = TRUE /\ init_once' = "done"
        /\ Become(t, <<>>)
        /\ UNCHANGED <<btm_partitions, btm_mesh_mode>>
     \/ /\ btm_partitions' = TRUE /\ btm_mesh_mode' \in BOOLEAN
        /\ Become(t, Call("publish"))
        /\ UNCHANGED <<oom, init_once>>
  /\ UNCHANGED <<btm_ready, btm_tls, bgVars, lock, calls, forked>>

Publish(t) ==
  /\ At(t, "publish")
  /\ btm_ready' = TRUE /\ init_once' = "done"
  /\ Become(t, <<>>)
  /\ UNCHANGED <<btm_partitions, btm_mesh_mode, oom, btm_tls, bgVars, lock, calls, forked>>

\* btm_tls is set before pthread_setspecific, which may allocate.
TlsSetMutant(t) == btm_tls' = btm_tls
TlsSet(t) == btm_tls' = btm_tls \cup {t}

btm_tls_get(t) ==
  /\ At(t, "tls")
  /\ \/ t \in btm_tls /\ Become(t, <<>>) /\ UNCHANGED btm_tls
     \/ /\ t \notin btm_tls
        /\ TlsSet(t)
        /\ Become(t, <<>>) \/ Become(t, Call("malloc"))
  /\ UNCHANGED <<initVars, bgVars, lock, calls, forked>>

btm_tls_destroy(t) ==
  /\ todo[t] = <<>> /\ t \in btm_tls
  /\ btm_tls' = btm_tls \ {t}
  /\ todo' = [todo EXCEPT ![t] = Call("flush")]
  /\ UNCHANGED <<initVars, bgVars, lock, calls, forked>>

StillToStartMutant == TRUE
StillToStart == ~bg_started

\* btm_bg_ensure_started: the flag is looked at again under the lock.
EnsureStarted(t) ==
  /\ At(t, "start")
  /\ Become(t, IF bg_started THEN <<>> ELSE Sec("bg_start", Call("create")))
  /\ UNCHANGED <<initVars, btm_tls, bgVars, lock, calls, forked>>

\* pthread_create allocates, and may fail; BTM_NO_ASYNC does without the thread.
Create(t) ==
  /\ At(t, "create")
  /\ IF StillToStart
     THEN /\ bg_started' = TRUE
          /\ \E s \in {<<>>, Call("malloc"), Call("malloc") \o Call("spawn")} : Become(t, s)
     ELSE Become(t, <<>>) /\ UNCHANGED bg_started
  /\ UNCHANGED <<initVars, btm_tls, bg_async, spawned, lock, calls, forked>>

Spawn(t) ==
  /\ At(t, "spawn")
  /\ spawned' = spawned + 1 /\ bg_async' = TRUE
  /\ Become(t, <<>>)
  /\ UNCHANGED <<initVars, btm_tls, bg_started, lock, calls, forked>>

-----------------------------------------------------------------------------
(* Fork: from here on the model follows the child *)

\* What btm_atfork_child and btm_bg_atfork_child initialise again.
ReinitialisedMutant == {"bg", "bg_start"}
Reinitialised == {"pool", "bg", "bg_start"}

\* Only t is left; the other names stand for threads the child creates later.
\* Chunks are not inherited in mesh mode, which does not support fork.
Fork(t) ==
  /\ ~forked /\ btm_ready /\ ~btm_mesh_mode /\ todo[t] = <<>>
  /\ forked' = TRUE
  /\ todo' = [a \in Actors |-> <<>>]
  /\ btm_tls' = btm_tls \cap {t}
  /\ lock' = [l \in Locks |-> IF l \in Reinitialised \/ lock[l] = Nobody THEN Nobody ELSE Gone]
  /\ bg_started' = FALSE /\ bg_async' = FALSE /\ spawned' = 0
  /\ calls' = [calls EXCEPT ![t] = MaxCalls]
  /\ UNCHANGED initVars

-----------------------------------------------------------------------------
Step(a) == Expand(a) \/ Lock(a) \/ Unlock(a)
First(t) ==
  \/ btm_ensure_init(t) \/ Build(t) \/ Publish(t)
  \/ btm_tls_get(t)
  \/ EnsureStarted(t) \/ Create(t) \/ Spawn(t)

Next ==
  \/ \E a \in Actors : Step(a)
  \/ \E t \in Threads : First(t) \/ btm_tls_destroy(t) \/ Fork(t) \/ \E f \in Entries : Begin(t, f)
  \/ Begin(Bg, "bg_main")

Spec == Init /\ [][Next]_vars

\* A thread inside the allocator is scheduled again.
FairSpec ==
  /\ Spec
  /\ WF_vars(Step(Bg))
  /\ \A t \in Threads : WF_vars(Step(t) \/ First(t))

-----------------------------------------------------------------------------
(* Properties *)

\* The order in which locks nest: bg_start_lock, then a pool's, then the others.
Rank(l) == CASE l = "bg_start" -> 0 [] l = "pool" -> 1 [] OTHER -> 2

\* A thread that asks for a lock holds only locks of lower rank, so no cycle of
\* threads waits for one another and none waits for itself ("No cycles",
\* partition.c; btm_bg_ensure_started "MUST be called with NO pool lock held",
\* whatever the allocations inside pthread_create and pthread_setspecific do).
LocksNest ==
  \A a \in Actors : At(a, "lock") =>
    \A l \in Locks : lock[l] = a => Rank(l) < Rank(Head(todo[a])[2])

\* No thread gets as far as a pool before btm_do_init has mapped the tables, even
\* one whose first call overlaps the initialisation by another; only a failed
\* initialisation, which pthread_once never repeats, lets it through.
TablesBeforeUse == \A t \in Threads : At(t, "refill") => btm_partitions \/ oom

\* A process never has two maintenance threads, however many threads make their
\* first call at once and also after a fork: btm_bg_ensure_started.
OneMaintenanceThread == spawned <= 1

\* An allocation made inside pthread_setspecific or pthread_create does not
\* start the first-call work again: at most two mallocs of a thread are nested.
ReentryShallow ==
  \A t \in Threads : \A i, j, k \in DOMAIN todo[t] :
    i < j /\ j < k => \E n \in {i, j, k} : todo[t][n] \notin {<<"malloc">>, <<"refill">>}

\* The child of a fork can be stuck only on the registry's and the interning
\* table's locks: the handlers make every pool lock and the locks of the
\* background subsystem usable again, whoever held them.
OrphansKnown == \A l \in Locks : lock[l] = Gone => l \in {"registry", "intern"}

\* Every call returns, unless initialisation failed or the fork left a lock
\* behind that no handler frees.
CallsReturn ==
  \A t \in Threads :
    todo[t] # <<>> ~> todo[t] = <<>> \/ oom \/ \E l \in Locks : lock[l] = Gone
=============================================================================
