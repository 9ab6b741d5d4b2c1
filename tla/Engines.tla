------------------------------ MODULE Engines -------------------------------
(***************************************************************************)
(* Which engine serves whom: the default of camada/__init__.py, the engine *)
(* an adapter resolves and keeps, the engine a request's context names,    *)
(* and what stop() and a fork do to the timers and queues of them all.     *)
(* One process is followed; a fork continues as the child.                 *)
(* Definitions called ...Mutant are wrong on purpose: nothing uses them.   *)
(***************************************************************************)
EXTENDS Integers, FiniteSets

CONSTANTS
    Threads,     \* the threads that serve requests and call configure()
    Apps,        \* the adapters mounted in the process
    Keeping,     \* those that keep the engine they resolve: WSGI and ASGI, not Django
    None,
    MaxEngines,  \* bound on the engines built
    MaxForks     \* bound on the forks

Given == 0       \* an engine the application built itself and hands to an adapter

ASSUME EnginesAssumption ==
    /\ Keeping \subseteq Apps
    /\ MaxEngines \in Nat /\ MaxForks \in Nat
    /\ None \notin 0..MaxEngines

VARIABLES
    default,     \* _default
    made,        \* the engines built by create_camada(): 1..made
    timers,      \* those whose poll timer runs
    halted,      \* those whose queue has _stop set: they take events, and no thread ships them
    kept,        \* the engine each adapter was given or has resolved
    pc, goal, app, eng, ctx,   \* each thread: where it is, why it resolves an engine, its request
    rows,        \* the engines whose queues took the rows of the thread's request
    forks,
    raced,       \* history: two threads were building a default at once
    late,        \* history: a configure() ran at some time during the thread's request
    revived      \* history: a fork woke an engine that was not the default any more

process == <<default, made, timers, halted>>
request == <<app, eng, ctx, rows>>
vars == <<process, kept, pc, goal, request, forks, raced, late, revived>>

Engine == {Given} \cup 1..made
EngineOrNone == Engine \cup {None}

TypeOK ==
    /\ default \in EngineOrNone /\ made \in 0..MaxEngines
    /\ timers \subseteq Engine /\ halted \subseteq Engine
    /\ kept \in [Apps -> EngineOrNone]
    /\ pc \in [Threads -> {"idle", "look", "build", "install", "fetch", "judge", "serve",
                           "conf_build", "conf_install", "gone"}]
    /\ goal \in [Threads -> {"resolve", "use"}]
    /\ app \in [Threads -> Apps \cup {None}]
    /\ eng \in [Threads -> EngineOrNone] /\ ctx \in [Threads -> EngineOrNone]
    /\ rows \in [Threads -> SUBSET Engine]
    /\ forks \in 0..MaxForks
    /\ raced \in BOOLEAN /\ late \in [Threads -> BOOLEAN] /\ revived \in BOOLEAN

Init ==
    /\ default = None /\ made = 0 /\ timers = {Given} /\ halted = {}
    /\ kept \in [Apps -> {None, Given}]
    /\ pc = [t \in Threads |-> "idle"] /\ goal = [t \in Threads |-> "resolve"]
    /\ app = [t \in Threads |-> None] /\ eng = [t \in Threads |-> None]
    /\ ctx = [t \in Threads |-> None] /\ rows = [t \in Threads |-> {}]
    /\ forks = 0
    /\ raced = FALSE /\ late = [t \in Threads |-> FALSE] /\ revived = FALSE

To(t, l) == pc' = [pc EXCEPT ![t] = l]

Configuring(t) == pc[t] \in {"conf_build", "conf_install"}
Building(t) == Configuring(t) \/ pc[t] \in {"build", "install"}
Installing(t) == pc[t] \in {"install", "conf_install"}

\* Thread t starts to build a default: from here until it has installed it, another one races it.
Races(t) == raced' = (raced \/ \E u \in Threads \ {t} : Building(u))

-----------------------------------------------------------------------------
(* get_default(): a look, the construction, the assignment, and the global *)
(* read once more for the result.                                          *)

Resolve(t, why) == To(t, "look") /\ goal' = [goal EXCEPT ![t] = why]

Look(t) ==
    /\ pc[t] = "look"
    /\ IF default = None THEN To(t, "build") /\ Races(t) ELSE To(t, "fetch") /\ UNCHANGED raced
    /\ UNCHANGED <<process, kept, goal, request, forks, late, revived>>

\* create_camada(): the constructor starts the poll timer of the new engine.
Build(t) ==
    /\ made < MaxEngines
    /\ \/ pc[t] = "build" /\ To(t, "install")
       \/ pc[t] = "conf_build" /\ To(t, "conf_install")
    /\ made' = made + 1
    /\ timers' = timers \cup {made + 1}
    /\ eng' = [eng EXCEPT ![t] = made + 1]
    /\ UNCHANGED <<default, halted, kept, goal, app, ctx, rows, forks, raced, late, revived>>

Install(t) ==
    /\ \/ pc[t] = "install" /\ To(t, "fetch")
       \/ pc[t] = "conf_install" /\ To(t, "idle")
    /\ default' = eng[t]
    /\ UNCHANGED <<made, timers, halted, kept, goal, request, forks, raced, late, revived>>

Stop(e) == timers' = timers \ {e} /\ halted' = halted \cup {e}

\* The slip of forgetting the stop.
ConfigureMutant(t) ==
    /\ pc[t] = "idle" /\ made < MaxEngines
    /\ To(t, "conf_build") /\ Races(t)
    /\ late' = [u \in Threads |-> TRUE]
    /\ UNCHANGED <<process, kept, goal, request, forks, revived>>

\* configure(): the old default is stopped, then the new one built and installed.
Configure(t) ==
    /\ pc[t] = "idle" /\ made < MaxEngines
    /\ IF default # None THEN Stop(default) ELSE UNCHANGED <<timers, halted>>
    /\ To(t, "conf_build") /\ Races(t)
    /\ late' = [u \in Threads |-> TRUE]
    /\ UNCHANGED <<default, made, kept, goal, request, forks, revived>>

-----------------------------------------------------------------------------
(* A request: the adapter's engine property, handle(), what the app does   *)
(* with the context, and on_finish.                                        *)

Begin(t, a) ==
    /\ pc[t] = "idle"
    /\ app' = [app EXCEPT ![t] = a] /\ rows' = [rows EXCEPT ![t] = {}]
    /\ ctx' = [ctx EXCEPT ![t] = None]
    /\ late' = [late EXCEPT ![t] = \E u \in Threads : Configuring(u)]
    /\ IF kept[a] # None
         THEN To(t, "judge") /\ eng' = [eng EXCEPT ![t] = kept[a]] /\ UNCHANGED goal
         ELSE Resolve(t, "resolve") /\ UNCHANGED eng
    /\ UNCHANGED <<process, kept, forks, raced, revived>>

Push(t, e) == rows' = [rows EXCEPT ![t] = @ \cup {e}]

KeepsMutant(a) == TRUE

\* The engine property of WSGI and ASGI assigns what it resolved, Django's asks again each time.
Keeps(a) == a \in Keeping

\* What get_default() returns goes to the adapter, which may keep it, or to the track() that asked.
Fetch(t) ==
    /\ pc[t] = "fetch"
    /\ IF goal[t] = "resolve"
         THEN /\ To(t, "judge")
              /\ eng' = [eng EXCEPT ![t] = default]
              /\ kept' = IF Keeps(app[t]) THEN [kept EXCEPT ![app[t]] = default] ELSE kept
              /\ UNCHANGED rows
         ELSE To(t, "serve") /\ Push(t, default) /\ UNCHANGED <<eng, kept>>
    /\ UNCHANGED <<process, goal, app, ctx, forks, raced, late, revived>>

\* handle() names its engine in the context of a request it lets through; a request it has nothing to
\* do with (the switch is off, or the adapter failed) gets no context.
Judge(t) ==
    /\ pc[t] = "judge"
    /\ \E c \in {eng[t], None} : ctx' = [ctx EXCEPT ![t] = c]
    /\ To(t, "serve")
    /\ UNCHANGED <<process, kept, goal, app, eng, rows, forks, raced, late, revived>>

\* The slip of asking for the default first.
UseMutant(t) ==
    /\ pc[t] = "serve"
    /\ IF default # None
         THEN Push(t, default) /\ UNCHANGED <<pc, goal>>
         ELSE Resolve(t, "use") /\ UNCHANGED rows
    /\ UNCHANGED <<process, kept, app, eng, ctx, forks, raced, late, revived>>

\* track(), serve_challenge(): the engine of the context, else the default.
Use(t) ==
    /\ pc[t] = "serve"
    /\ IF ctx[t] # None
         THEN Push(t, ctx[t]) /\ UNCHANGED <<pc, goal>>
         ELSE Resolve(t, "use") /\ UNCHANGED rows
    /\ UNCHANGED <<process, kept, app, eng, ctx, forks, raced, late, revived>>

\* on_finish is a closure of handle(): it pushes to the queue of the engine that judged.
Finish(t) ==
    /\ pc[t] = "serve"
    /\ IF ctx[t] # None THEN Push(t, eng[t]) ELSE UNCHANGED rows
    /\ To(t, "idle")
    /\ UNCHANGED <<process, kept, goal, app, eng, ctx, forks, raced, late, revived>>

-----------------------------------------------------------------------------
(* Only the forking thread survives; the hooks of every engine ever built  *)
(* run in the child and give it new _stop events, and its timer.           *)

Fork(t) ==
    /\ pc[t] \in {"idle", "serve"} /\ forks < MaxForks
    /\ forks' = forks + 1
    /\ timers' = Engine /\ halted' = {}
    /\ pc' = [u \in Threads |-> IF u = t THEN pc[t] ELSE "gone"]
    /\ revived' = (revived \/ \E e \in 1..made : e # default)
    /\ UNCHANGED <<default, made, kept, goal, request, raced, late>>

\* The child starts threads of its own.
Spawn(t) ==
    /\ pc[t] = "gone"
    /\ To(t, "idle")
    /\ rows' = [rows EXCEPT ![t] = {}]
    /\ UNCHANGED <<process, kept, goal, app, eng, ctx, forks, raced, late, revived>>

Next ==
    \E t \in Threads :
        \/ Look(t) \/ Build(t) \/ Install(t) \/ Configure(t)
        \/ \E a \in Apps : Begin(t, a)
        \/ Fetch(t) \/ Judge(t) \/ Use(t) \/ Finish(t)
        \/ Fork(t) \/ Spawn(t)

Spec == Init /\ [][Next]_vars

-----------------------------------------------------------------------------
(* Properties.                                                             *)

\* All that is reported of one request goes to the engine that judged it, whatever becomes of the
\* default meanwhile.
OneRequestOneEngine ==
    \A t \in Threads : ctx[t] # None /\ pc[t] # "gone" => rows[t] \subseteq {ctx[t]}

\* One default engine polls, besides one the application gave: not so after two threads built one at
\* once (nothing guards the look), or after a fork, which wakes the engines configure() had stopped.
OneEnginePolls ==
    raced \/ revived \/
      timers \ {Given} \subseteq {default} \cup {eng[t] : t \in {u \in Threads : Installing(u)}}

\* A row goes to a queue that nobody ships only if a configure() ran during the request, or the
\* request came through an adapter that keeps its engine and had resolved one that configure()
\* stopped since.
RowsAreShipped ==
    \A t \in Threads : \A e \in rows[t] \cap halted :
        late[t] \/ (app[t] \in Keeping /\ e = eng[t])
=============================================================================
