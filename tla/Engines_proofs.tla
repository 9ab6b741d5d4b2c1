--------------------------- MODULE Engines_proofs ---------------------------
(***************************************************************************)
(* Proofs about Engines, for any threads, adapters, engines and forks.     *)
(***************************************************************************)
EXTENDS Engines, TLAPS

Resolving(t) == pc[t] \in {"look", "build", "install", "fetch"}

\* Nothing has been reported while an adapter resolves its engine, and handle() names that engine.
RequestInv ==
    \A t \in Threads :
        /\ Resolving(t) \/ pc[t] = "judge" => ctx[t] = None
        /\ pc[t] = "judge" \/ (Resolving(t) /\ goal[t] = "resolve") => rows[t] = {}
        /\ pc[t] = "serve" /\ ctx[t] # None => ctx[t] = eng[t]

\* get_default() comes to read the global again only once it is set.
ResolvedInv == \A t \in Threads : pc[t] = "fetch" => default # None

\* An engine about to be installed is new: nobody has stopped it, it is not the default, and no other
\* thread installs it.
FreshInv ==
    \A t \in Threads : Installing(t) =>
        /\ eng[t] \in 1..made /\ eng[t] \notin halted /\ eng[t] # default
        /\ \A u \in Threads \ {t} : Installing(u) => eng[u] # eng[t]

\* The default is a stopped engine only while a configure() is about to replace it, and then every
\* request is late.
DefaultInv ==
    /\ default # Given /\ Given \notin halted
    /\ default \in halted => \E u \in Threads : Configuring(u)
    /\ (\E u \in Threads : Configuring(u)) => \A t \in Threads : late[t]

\* An adapter that keeps no engine has the one it was given, or asks.
KeptInv == \A a \in Apps \ Keeping : kept[a] \in {None, Given}

\* Whoever is judged by a stopped engine is late or came through an adapter that keeps; what is reported
\* without a context goes to the default.
ShippedInv ==
    \A t \in Threads :
        /\ (pc[t] = "judge" \/ (pc[t] = "serve" /\ ctx[t] # None)) /\ eng[t] \in halted =>
             late[t] \/ app[t] \in Keeping
        /\ ctx[t] = None /\ rows[t] \cap halted # {} => late[t]

\* If no two threads have built at once, one that builds for get_default() has found no default and
\* there is none, and one that builds for configure() has stopped it.
AloneInv ==
    raced \/ \A t \in Threads :
        /\ Building(t) => \A u \in Threads \ {t} : ~Building(u)
        /\ pc[t] \in {"build", "install"} => default = None
        /\ Configuring(t) => default \notin timers

IInv == /\ TypeOK /\ RequestInv /\ ResolvedInv /\ FreshInv /\ DefaultInv /\ KeptInv /\ ShippedInv /\ AloneInv
        /\ OneRequestOneEngine /\ RowsAreShipped /\ OneEnginePolls

-----------------------------------------------------------------------------
(* Each part is kept by every step. *)

\* Types, of what is reported and installed too: an engine, never None.
LEMMA TypeOKStep == RequestInv /\ ResolvedInv /\ TypeOK /\ [Next]_vars => TypeOK'
<1> SUFFICES ASSUME RequestInv, ResolvedInv, TypeOK, [Next]_vars PROVE TypeOK'
  OBVIOUS
<1> USE EnginesAssumption DEF process, request, Engine, EngineOrNone, Given, RequestInv, Resolving, ResolvedInv, TypeOK
<1>1. ASSUME NEW t \in Threads, Look(t) PROVE TypeOK'
  BY <1>1 DEF Look, To, Races
<1>2. ASSUME NEW t \in Threads, Build(t) PROVE TypeOK'
  BY <1>2 DEF Build, To
<1>3. ASSUME NEW t \in Threads, Install(t) PROVE TypeOK'
  BY <1>3 DEF Install, To
<1>4. ASSUME NEW t \in Threads, Configure(t) PROVE TypeOK'
  BY <1>4 DEF Configure, Stop, To, Races
<1>5. ASSUME NEW t \in Threads, NEW a \in Apps, Begin(t, a) PROVE TypeOK'
  BY <1>5 DEF Begin, Resolve, To
<1>6. ASSUME NEW t \in Threads, Fetch(t) PROVE TypeOK'
  BY <1>6 DEF Fetch, Keeps, Push, To
<1>7. ASSUME NEW t \in Threads, Judge(t) PROVE TypeOK'
  BY <1>7 DEF Judge, To
<1>8. ASSUME NEW t \in Threads, Use(t) PROVE TypeOK'
  BY <1>8 DEF Use, Resolve, Push, To
<1>9. ASSUME NEW t \in Threads, Finish(t) PROVE TypeOK'
  BY <1>9 DEF Finish, Push, To
<1>10. ASSUME NEW t \in Threads, Fork(t) PROVE TypeOK'
  BY <1>10 DEF Fork
<1>11. ASSUME NEW t \in Threads, Spawn(t) PROVE TypeOK'
  BY <1>11 DEF Spawn, To
<1>12. CASE UNCHANGED vars
  BY <1>12 DEF vars
<1>. QED
  BY <1>1, <1>2, <1>3, <1>4, <1>5, <1>6, <1>7, <1>8, <1>9, <1>10, <1>11, <1>12 DEF Next

\* The life of a request between its engine and its context.
LEMMA RequestInvStep == TypeOK /\ RequestInv /\ [Next]_vars => RequestInv'
<1> SUFFICES ASSUME TypeOK, RequestInv, [Next]_vars PROVE RequestInv'
  OBVIOUS
<1> USE EnginesAssumption DEF process, request, Engine, EngineOrNone, Given, TypeOK, RequestInv, Resolving
<1>1. ASSUME NEW t \in Threads, Look(t) PROVE RequestInv'
  BY <1>1 DEF Look, To, Races
<1>2. ASSUME NEW t \in Threads, Build(t) PROVE RequestInv'
  BY <1>2 DEF Build, To
<1>3. ASSUME NEW t \in Threads, Install(t) PROVE RequestInv'
  BY <1>3 DEF Install, To
<1>4. ASSUME NEW t \in Threads, Configure(t) PROVE RequestInv'
  BY <1>4 DEF Configure, Stop, To, Races
<1>5. ASSUME NEW t \in Threads, NEW a \in Apps, Begin(t, a) PROVE RequestInv'
  BY <1>5 DEF Begin, Resolve, To
<1>6. ASSUME NEW t \in Threads, Fetch(t) PROVE RequestInv'
  BY <1>6 DEF Fetch, Keeps, Push, To
<1>7. ASSUME NEW t \in Threads, Judge(t) PROVE RequestInv'
  BY <1>7 DEF Judge, To
<1>8. ASSUME NEW t \in Threads, Use(t) PROVE RequestInv'
  BY <1>8 DEF Use, Resolve, Push, To
<1>9. ASSUME NEW t \in Threads, Finish(t) PROVE RequestInv'
  BY <1>9 DEF Finish, Push, To
<1>10. ASSUME NEW t \in Threads, Fork(t) PROVE RequestInv'
  BY <1>10 DEF Fork
<1>11. ASSUME NEW t \in Threads, Spawn(t) PROVE RequestInv'
  BY <1>11 DEF Spawn, To
<1>12. CASE UNCHANGED vars
  BY <1>12 DEF vars
<1>. QED
  BY <1>1, <1>2, <1>3, <1>4, <1>5, <1>6, <1>7, <1>8, <1>9, <1>10, <1>11, <1>12 DEF Next

\* _default, once set, is only ever replaced.
LEMMA ResolvedInvStep == TypeOK /\ FreshInv /\ ResolvedInv /\ [Next]_vars => ResolvedInv'
<1> SUFFICES ASSUME TypeOK, FreshInv, ResolvedInv, [Next]_vars PROVE ResolvedInv'
  OBVIOUS
<1> USE EnginesAssumption DEF process, request, Engine, EngineOrNone, Given, TypeOK, FreshInv, Installing, ResolvedInv
<1>1. ASSUME NEW t \in Threads, Look(t) PROVE ResolvedInv'
  BY <1>1 DEF Look, To, Races
<1>2. ASSUME NEW t \in Threads, Build(t) PROVE ResolvedInv'
  BY <1>2 DEF Build, To
<1>3. ASSUME NEW t \in Threads, Install(t) PROVE ResolvedInv'
  BY <1>3 DEF Install, To
<1>4. ASSUME NEW t \in Threads, Configure(t) PROVE ResolvedInv'
  BY <1>4 DEF Configure, Stop, To, Races
<1>5. ASSUME NEW t \in Threads, NEW a \in Apps, Begin(t, a) PROVE ResolvedInv'
  BY <1>5 DEF Begin, Resolve, To
<1>6. ASSUME NEW t \in Threads, Fetch(t) PROVE ResolvedInv'
  BY <1>6 DEF Fetch, Keeps, Push, To
<1>7. ASSUME NEW t \in Threads, Judge(t) PROVE ResolvedInv'
  BY <1>7 DEF Judge, To
<1>8. ASSUME NEW t \in Threads, Use(t) PROVE ResolvedInv'
  BY <1>8 DEF Use, Resolve, Push, To
<1>9. ASSUME NEW t \in Threads, Finish(t) PROVE ResolvedInv'
  BY <1>9 DEF Finish, Push, To
<1>10. ASSUME NEW t \in Threads, Fork(t) PROVE ResolvedInv'
  BY <1>10 DEF Fork
<1>11. ASSUME NEW t \in Threads, Spawn(t) PROVE ResolvedInv'
  BY <1>11 DEF Spawn, To
<1>12. CASE UNCHANGED vars
  BY <1>12 DEF vars
<1>. QED
  BY <1>1, <1>2, <1>3, <1>4, <1>5, <1>6, <1>7, <1>8, <1>9, <1>10, <1>11, <1>12 DEF Next

\* create_camada() numbers a new engine each time.
LEMMA FreshInvStep == TypeOK /\ FreshInv /\ [Next]_vars => FreshInv'
<1> SUFFICES ASSUME TypeOK, FreshInv, [Next]_vars PROVE FreshInv'
  OBVIOUS
<1> USE EnginesAssumption DEF process, request, Engine, EngineOrNone, Given, TypeOK, FreshInv, Installing
<1>1. ASSUME NEW t \in Threads, Look(t) PROVE FreshInv'
  BY <1>1 DEF Look, To, Races
<1>2. ASSUME NEW t \in Threads, Build(t) PROVE FreshInv'
  BY <1>2 DEF Build, To
<1>3. ASSUME NEW t \in Threads, Install(t) PROVE FreshInv'
  BY <1>3 DEF Install, To
<1>4. ASSUME NEW t \in Threads, Configure(t) PROVE FreshInv'
  BY <1>4 DEF Configure, Stop, To, Races
<1>5. ASSUME NEW t \in Threads, NEW a \in Apps, Begin(t, a) PROVE FreshInv'
  BY <1>5 DEF Begin, Resolve, To
<1>6. ASSUME NEW t \in Threads, Fetch(t) PROVE FreshInv'
  BY <1>6 DEF Fetch, Keeps, Push, To
<1>7. ASSUME NEW t \in Threads, Judge(t) PROVE FreshInv'
  BY <1>7 DEF Judge, To
<1>8. ASSUME NEW t \in Threads, Use(t) PROVE FreshInv'
  BY <1>8 DEF Use, Resolve, Push, To
<1>9. ASSUME NEW t \in Threads, Finish(t) PROVE FreshInv'
  BY <1>9 DEF Finish, Push, To
<1>10. ASSUME NEW t \in Threads, Fork(t) PROVE FreshInv'
  BY <1>10 DEF Fork
<1>11. ASSUME NEW t \in Threads, Spawn(t) PROVE FreshInv'
  BY <1>11 DEF Spawn, To
<1>12. CASE UNCHANGED vars
  BY <1>12 DEF vars
<1>. QED
  BY <1>1, <1>2, <1>3, <1>4, <1>5, <1>6, <1>7, <1>8, <1>9, <1>10, <1>11, <1>12 DEF Next

\* configure() stops the default and installs another; a fork lets all of them go on.
LEMMA DefaultInvStep == TypeOK /\ FreshInv /\ DefaultInv /\ [Next]_vars => DefaultInv'
<1> SUFFICES ASSUME TypeOK, FreshInv, DefaultInv, [Next]_vars PROVE DefaultInv'
  OBVIOUS
<1> USE EnginesAssumption DEF process, request, Engine, EngineOrNone, Given, TypeOK, FreshInv, Installing, DefaultInv, Configuring
<1>1. ASSUME NEW t \in Threads, Look(t) PROVE DefaultInv'
  BY <1>1 DEF Look, To, Races
<1>2. ASSUME NEW t \in Threads, Build(t) PROVE DefaultInv'
  BY <1>2 DEF Build, To
<1>3. ASSUME NEW t \in Threads, Install(t) PROVE DefaultInv'
  BY <1>3 DEF Install, To
<1>4. ASSUME NEW t \in Threads, Configure(t) PROVE DefaultInv'
  BY <1>4 DEF Configure, Stop, To, Races
<1>5. ASSUME NEW t \in Threads, NEW a \in Apps, Begin(t, a) PROVE DefaultInv'
  BY <1>5 DEF Begin, Resolve, To
<1>6. ASSUME NEW t \in Threads, Fetch(t) PROVE DefaultInv'
  BY <1>6 DEF Fetch, Keeps, Push, To
<1>7. ASSUME NEW t \in Threads, Judge(t) PROVE DefaultInv'
  BY <1>7 DEF Judge, To
<1>8. ASSUME NEW t \in Threads, Use(t) PROVE DefaultInv'
  BY <1>8 DEF Use, Resolve, Push, To
<1>9. ASSUME NEW t \in Threads, Finish(t) PROVE DefaultInv'
  BY <1>9 DEF Finish, Push, To
<1>10. ASSUME NEW t \in Threads, Fork(t) PROVE DefaultInv'
  BY <1>10 DEF Fork
<1>11. ASSUME NEW t \in Threads, Spawn(t) PROVE DefaultInv'
  BY <1>11 DEF Spawn, To
<1>12. CASE UNCHANGED vars
  BY <1>12 DEF vars
<1>. QED
  BY <1>1, <1>2, <1>3, <1>4, <1>5, <1>6, <1>7, <1>8, <1>9, <1>10, <1>11, <1>12 DEF Next

\* Django's engine property assigns nothing.
LEMMA KeptInvStep == TypeOK /\ KeptInv /\ [Next]_vars => KeptInv'
<1> SUFFICES ASSUME TypeOK, KeptInv, [Next]_vars PROVE KeptInv'
  OBVIOUS
<1> USE EnginesAssumption DEF process, request, Engine, EngineOrNone, Given, TypeOK, KeptInv
<1>1. ASSUME NEW t \in Threads, Look(t) PROVE KeptInv'
  BY <1>1 DEF Look, To, Races
<1>2. ASSUME NEW t \in Threads, Build(t) PROVE KeptInv'
  BY <1>2 DEF Build, To
<1>3. ASSUME NEW t \in Threads, Install(t) PROVE KeptInv'
  BY <1>3 DEF Install, To
<1>4. ASSUME NEW t \in Threads, Configure(t) PROVE KeptInv'
  BY <1>4 DEF Configure, Stop, To, Races
<1>5. ASSUME NEW t \in Threads, NEW a \in Apps, Begin(t, a) PROVE KeptInv'
  BY <1>5 DEF Begin, Resolve, To
<1>6. ASSUME NEW t \in Threads, Fetch(t) PROVE KeptInv'
  BY <1>6 DEF Fetch, Keeps, Push, To
<1>7. ASSUME NEW t \in Threads, Judge(t) PROVE KeptInv'
  BY <1>7 DEF Judge, To
<1>8. ASSUME NEW t \in Threads, Use(t) PROVE KeptInv'
  BY <1>8 DEF Use, Resolve, Push, To
<1>9. ASSUME NEW t \in Threads, Finish(t) PROVE KeptInv'
  BY <1>9 DEF Finish, Push, To
<1>10. ASSUME NEW t \in Threads, Fork(t) PROVE KeptInv'
  BY <1>10 DEF Fork
<1>11. ASSUME NEW t \in Threads, Spawn(t) PROVE KeptInv'
  BY <1>11 DEF Spawn, To
<1>12. CASE UNCHANGED vars
  BY <1>12 DEF vars
<1>. QED
  BY <1>1, <1>2, <1>3, <1>4, <1>5, <1>6, <1>7, <1>8, <1>9, <1>10, <1>11, <1>12 DEF Next

\* Only configure() stops an engine, and it makes every request late.
LEMMA ShippedInvStep == TypeOK /\ RequestInv /\ DefaultInv /\ KeptInv /\ ShippedInv /\ [Next]_vars => ShippedInv'
<1> SUFFICES ASSUME TypeOK, RequestInv, DefaultInv, KeptInv, ShippedInv, [Next]_vars PROVE ShippedInv'
  OBVIOUS
<1> USE EnginesAssumption DEF process, request, Engine, EngineOrNone, Given, TypeOK, RequestInv, Resolving, DefaultInv, Configuring, KeptInv, ShippedInv
<1>1. ASSUME NEW t \in Threads, Look(t) PROVE ShippedInv'
  BY <1>1 DEF Look, To, Races
<1>2. ASSUME NEW t \in Threads, Build(t) PROVE ShippedInv'
  BY <1>2 DEF Build, To
<1>3. ASSUME NEW t \in Threads, Install(t) PROVE ShippedInv'
  BY <1>3 DEF Install, To
<1>4. ASSUME NEW t \in Threads, Configure(t) PROVE ShippedInv'
  BY <1>4 DEF Configure, Stop, To, Races
<1>5. ASSUME NEW t \in Threads, NEW a \in Apps, Begin(t, a) PROVE ShippedInv'
  BY <1>5 DEF Begin, Resolve, To
<1>6. ASSUME NEW t \in Threads, Fetch(t) PROVE ShippedInv'
  BY <1>6 DEF Fetch, Keeps, Push, To
<1>7. ASSUME NEW t \in Threads, Judge(t) PROVE ShippedInv'
  BY <1>7 DEF Judge, To
<1>8. ASSUME NEW t \in Threads, Use(t) PROVE ShippedInv'
  BY <1>8 DEF Use, Resolve, Push, To
<1>9. ASSUME NEW t \in Threads, Finish(t) PROVE ShippedInv'
  BY <1>9 DEF Finish, Push, To
<1>10. ASSUME NEW t \in Threads, Fork(t) PROVE ShippedInv'
  BY <1>10 DEF Fork
<1>11. ASSUME NEW t \in Threads, Spawn(t) PROVE ShippedInv'
  BY <1>11 DEF Spawn, To
<1>12. CASE UNCHANGED vars
  BY <1>12 DEF vars
<1>. QED
  BY <1>1, <1>2, <1>3, <1>4, <1>5, <1>6, <1>7, <1>8, <1>9, <1>10, <1>11, <1>12 DEF Next

\* Whoever begins to build beside another one races it.
LEMMA AloneInvStep == TypeOK /\ FreshInv /\ AloneInv /\ [Next]_vars => AloneInv'
<1> SUFFICES ASSUME TypeOK, FreshInv, AloneInv, [Next]_vars PROVE AloneInv'
  OBVIOUS
<1> USE EnginesAssumption DEF process, request, Engine, EngineOrNone, Given, TypeOK, FreshInv, Installing, AloneInv, Building, Configuring
<1>1. ASSUME NEW t \in Threads, Look(t) PROVE AloneInv'
  <2>1. CASE raced'
    BY <2>1
  <2>2. CASE ~raced' /\ default = None
    <3>1. ~raced /\ \A u \in Threads \ {t} : ~Building(u)
      BY <1>1, <2>2 DEF Look, Races
    <3>2. UNCHANGED <<default, timers>> /\ pc' = [pc EXCEPT ![t] = "build"]
      BY <1>1, <2>2 DEF Look, To
    <3>. QED
      BY <3>1, <3>2, <2>2
  <2>3. CASE ~raced' /\ default # None
    <3>1. ~raced /\ UNCHANGED <<default, timers>> /\ pc' = [pc EXCEPT ![t] = "fetch"]
      BY <1>1, <2>3 DEF Look, To
    <3>. QED
      BY <3>1
  <2>. QED
    BY <2>1, <2>2, <2>3
<1>2. ASSUME NEW t \in Threads, Build(t) PROVE AloneInv'
  BY <1>2 DEF Build, To
<1>3. ASSUME NEW t \in Threads, Install(t) PROVE AloneInv'
  BY <1>3 DEF Install, To
<1>4. ASSUME NEW t \in Threads, Configure(t) PROVE AloneInv'
  <2>1. CASE raced'
    BY <2>1
  <2>2. CASE ~raced'
    <3>1. ~raced /\ \A u \in Threads \ {t} : ~Building(u)
      BY <1>4, <2>2 DEF Configure, Races
    <3>2. default' = default /\ default \notin timers' /\ pc' = [pc EXCEPT ![t] = "conf_build"]
      BY <1>4 DEF Configure, Stop, To
    <3>. QED
      BY <3>1, <3>2
  <2>. QED
    BY <2>1, <2>2
<1>5. ASSUME NEW t \in Threads, NEW a \in Apps, Begin(t, a) PROVE AloneInv'
  BY <1>5 DEF Begin, Resolve, To
<1>6. ASSUME NEW t \in Threads, Fetch(t) PROVE AloneInv'
  BY <1>6 DEF Fetch, Keeps, Push, To
<1>7. ASSUME NEW t \in Threads, Judge(t) PROVE AloneInv'
  BY <1>7 DEF Judge, To
<1>8. ASSUME NEW t \in Threads, Use(t) PROVE AloneInv'
  BY <1>8 DEF Use, Resolve, Push, To
<1>9. ASSUME NEW t \in Threads, Finish(t) PROVE AloneInv'
  BY <1>9 DEF Finish, Push, To
<1>10. ASSUME NEW t \in Threads, Fork(t) PROVE AloneInv'
  BY <1>10 DEF Fork
<1>11. ASSUME NEW t \in Threads, Spawn(t) PROVE AloneInv'
  BY <1>11 DEF Spawn, To
<1>12. CASE UNCHANGED vars
  BY <1>12 DEF vars
<1>. QED
  BY <1>1, <1>2, <1>3, <1>4, <1>5, <1>6, <1>7, <1>8, <1>9, <1>10, <1>11, <1>12 DEF Next

\* Each report goes to the engine of the context.
LEMMA OneRequestOneEngineStep == TypeOK /\ RequestInv /\ OneRequestOneEngine /\ [Next]_vars => OneRequestOneEngine'
<1> SUFFICES ASSUME TypeOK, RequestInv, OneRequestOneEngine, [Next]_vars PROVE OneRequestOneEngine'
  OBVIOUS
<1> USE EnginesAssumption DEF process, request, Engine, EngineOrNone, Given, TypeOK, RequestInv, Resolving, OneRequestOneEngine
<1>1. ASSUME NEW t \in Threads, Look(t) PROVE OneRequestOneEngine'
  BY <1>1 DEF Look, To, Races
<1>2. ASSUME NEW t \in Threads, Build(t) PROVE OneRequestOneEngine'
  BY <1>2 DEF Build, To
<1>3. ASSUME NEW t \in Threads, Install(t) PROVE OneRequestOneEngine'
  BY <1>3 DEF Install, To
<1>4. ASSUME NEW t \in Threads, Configure(t) PROVE OneRequestOneEngine'
  BY <1>4 DEF Configure, Stop, To, Races
<1>5. ASSUME NEW t \in Threads, NEW a \in Apps, Begin(t, a) PROVE OneRequestOneEngine'
  BY <1>5 DEF Begin, Resolve, To
<1>6. ASSUME NEW t \in Threads, Fetch(t) PROVE OneRequestOneEngine'
  BY <1>6 DEF Fetch, Keeps, Push, To
<1>7. ASSUME NEW t \in Threads, Judge(t) PROVE OneRequestOneEngine'
  BY <1>7 DEF Judge, To
<1>8. ASSUME NEW t \in Threads, Use(t) PROVE OneRequestOneEngine'
  BY <1>8 DEF Use, Resolve, Push, To
<1>9. ASSUME NEW t \in Threads, Finish(t) PROVE OneRequestOneEngine'
  BY <1>9 DEF Finish, Push, To
<1>10. ASSUME NEW t \in Threads, Fork(t) PROVE OneRequestOneEngine'
  BY <1>10 DEF Fork
<1>11. ASSUME NEW t \in Threads, Spawn(t) PROVE OneRequestOneEngine'
  BY <1>11 DEF Spawn, To
<1>12. CASE UNCHANGED vars
  BY <1>12 DEF vars
<1>. QED
  BY <1>1, <1>2, <1>3, <1>4, <1>5, <1>6, <1>7, <1>8, <1>9, <1>10, <1>11, <1>12 DEF Next

\* Each report goes where ShippedInv says.
LEMMA RowsAreShippedStep == TypeOK /\ RequestInv /\ DefaultInv /\ ShippedInv /\ RowsAreShipped /\ [Next]_vars => RowsAreShipped'
<1> SUFFICES ASSUME TypeOK, RequestInv, DefaultInv, ShippedInv, RowsAreShipped, [Next]_vars PROVE RowsAreShipped'
  OBVIOUS
<1> USE EnginesAssumption DEF process, request, Engine, EngineOrNone, Given, TypeOK, RequestInv, Resolving, DefaultInv, Configuring, ShippedInv, RowsAreShipped
<1>1. ASSUME NEW t \in Threads, Look(t) PROVE RowsAreShipped'
  BY <1>1 DEF Look, To, Races
<1>2. ASSUME NEW t \in Threads, Build(t) PROVE RowsAreShipped'
  BY <1>2 DEF Build, To
<1>3. ASSUME NEW t \in Threads, Install(t) PROVE RowsAreShipped'
  BY <1>3 DEF Install, To
<1>4. ASSUME NEW t \in Threads, Configure(t) PROVE RowsAreShipped'
  BY <1>4 DEF Configure, Stop, To, Races
<1>5. ASSUME NEW t \in Threads, NEW a \in Apps, Begin(t, a) PROVE RowsAreShipped'
  BY <1>5 DEF Begin, Resolve, To
<1>6. ASSUME NEW t \in Threads, Fetch(t) PROVE RowsAreShipped'
  BY <1>6 DEF Fetch, Keeps, Push, To
<1>7. ASSUME NEW t \in Threads, Judge(t) PROVE RowsAreShipped'
  BY <1>7 DEF Judge, To
<1>8. ASSUME NEW t \in Threads, Use(t) PROVE RowsAreShipped'
  BY <1>8 DEF Use, Resolve, Push, To
<1>9. ASSUME NEW t \in Threads, Finish(t) PROVE RowsAreShipped'
  BY <1>9 DEF Finish, Push, To
<1>10. ASSUME NEW t \in Threads, Fork(t) PROVE RowsAreShipped'
  BY <1>10 DEF Fork
<1>11. ASSUME NEW t \in Threads, Spawn(t) PROVE RowsAreShipped'
  BY <1>11 DEF Spawn, To
<1>12. CASE UNCHANGED vars
  BY <1>12 DEF vars
<1>. QED
  BY <1>1, <1>2, <1>3, <1>4, <1>5, <1>6, <1>7, <1>8, <1>9, <1>10, <1>11, <1>12 DEF Next

\* A new default takes the place of none or of one that was stopped.
LEMMA OneEnginePollsStep == TypeOK /\ FreshInv /\ AloneInv /\ OneEnginePolls /\ [Next]_vars => OneEnginePolls'
<1> SUFFICES ASSUME TypeOK, FreshInv, AloneInv, OneEnginePolls, [Next]_vars PROVE OneEnginePolls'
  OBVIOUS
<1> USE EnginesAssumption DEF process, request, Engine, EngineOrNone, Given, TypeOK, FreshInv, Installing, AloneInv, Building, Configuring, OneEnginePolls
<1>1. ASSUME NEW t \in Threads, Look(t) PROVE OneEnginePolls'
  BY <1>1 DEF Look, To, Races
<1>2. ASSUME NEW t \in Threads, Build(t) PROVE OneEnginePolls'
  BY <1>2 DEF Build, To
<1>3. ASSUME NEW t \in Threads, Install(t) PROVE OneEnginePolls'
  BY <1>3 DEF Install, To
<1>4. ASSUME NEW t \in Threads, Configure(t) PROVE OneEnginePolls'
  <2>1. \A u \in Threads : Installing(u)' <=> Installing(u)
    BY <1>4 DEF Configure, To
  <2>2. UNCHANGED <<default, eng, revived>> /\ timers' \subseteq timers /\ (raced => raced')
    BY <1>4 DEF Configure, Stop, Races
  <2>. QED
    BY <2>1, <2>2
<1>5. ASSUME NEW t \in Threads, NEW a \in Apps, Begin(t, a) PROVE OneEnginePolls'
  BY <1>5 DEF Begin, Resolve, To
<1>6. ASSUME NEW t \in Threads, Fetch(t) PROVE OneEnginePolls'
  BY <1>6 DEF Fetch, Keeps, Push, To
<1>7. ASSUME NEW t \in Threads, Judge(t) PROVE OneEnginePolls'
  BY <1>7 DEF Judge, To
<1>8. ASSUME NEW t \in Threads, Use(t) PROVE OneEnginePolls'
  BY <1>8 DEF Use, Resolve, Push, To
<1>9. ASSUME NEW t \in Threads, Finish(t) PROVE OneEnginePolls'
  BY <1>9 DEF Finish, Push, To
<1>10. ASSUME NEW t \in Threads, Fork(t) PROVE OneEnginePolls'
  BY <1>10 DEF Fork
<1>11. ASSUME NEW t \in Threads, Spawn(t) PROVE OneEnginePolls'
  BY <1>11 DEF Spawn, To
<1>12. CASE UNCHANGED vars
  BY <1>12 DEF vars
<1>. QED
  BY <1>1, <1>2, <1>3, <1>4, <1>5, <1>6, <1>7, <1>8, <1>9, <1>10, <1>11, <1>12 DEF Next

-----------------------------------------------------------------------------
(* The invariant, and the theorems. *)

\* The process starts with no default, and with the engine that was given.
LEMMA InitInv == Init => IInv
<1> SUFFICES ASSUME Init PROVE IInv
  OBVIOUS
<1> USE EnginesAssumption DEF Init, Given, Engine, EngineOrNone
<1>1. TypeOK
  <2>1. default \in EngineOrNone /\ made \in 0..MaxEngines /\ timers \subseteq Engine /\ halted \subseteq Engine
    OBVIOUS
  <2>2. kept \in [Apps -> EngineOrNone]
    OBVIOUS
  <2>3. /\ app \in [Threads -> Apps \cup {None}] /\ eng \in [Threads -> EngineOrNone]
        /\ ctx \in [Threads -> EngineOrNone] /\ rows \in [Threads -> SUBSET Engine]
    OBVIOUS
  <2>4. forks \in 0..MaxForks
    OBVIOUS
  <2>5. raced \in BOOLEAN /\ late \in [Threads -> BOOLEAN] /\ revived \in BOOLEAN
    BY Zenon
  <2>. QED
    BY <2>1, <2>2, <2>3, <2>4, <2>5 DEF TypeOK
<1>0. RequestInv /\ ResolvedInv /\ KeptInv
  BY DEF RequestInv, Resolving, ResolvedInv, KeptInv
<1>2. FreshInv /\ DefaultInv /\ ShippedInv /\ AloneInv
  BY DEF FreshInv, Installing, DefaultInv, Configuring, ShippedInv, AloneInv, Building
<1>3. OneRequestOneEngine /\ RowsAreShipped /\ OneEnginePolls
  BY DEF OneRequestOneEngine, RowsAreShipped, OneEnginePolls, Installing
<1>. QED
  BY <1>0, <1>1, <1>2, <1>3 DEF IInv

\* Every step keeps the invariant.
LEMMA NextInv == IInv /\ [Next]_vars => IInv'
  BY TypeOKStep, RequestInvStep, ResolvedInvStep, FreshInvStep, DefaultInvStep, KeptInvStep, ShippedInvStep,
     AloneInvStep, OneRequestOneEngineStep, RowsAreShippedStep, OneEnginePollsStep DEF IInv

\* The invariant holds in every state of every process.
LEMMA Invariance == Spec => []IInv
  BY InitInv, NextInv, PTL DEF Spec

\* Every variable keeps its type: no request is judged by, or reported to, an engine that is none.
THEOREM TypesHold == Spec => []TypeOK
<1>1. IInv => TypeOK
  BY DEF IInv
<1>. QED
  BY Invariance, <1>1, PTL

\* However often the default is replaced, a request is reported to the engine that judged it (engine_for,
\* on_finish).
THEOREM ReportsStayTogether == Spec => []OneRequestOneEngine
<1>1. IInv => OneRequestOneEngine
  BY DEF IInv
<1>. QED
  BY Invariance, <1>1, PTL

\* If nobody raced for the default and no fork woke an old one, at most one default polls (get_default,
\* configure, _after_fork).
THEOREM OneDefaultPolls == Spec => []OneEnginePolls
<1>1. IInv => OneEnginePolls
  BY DEF IInv
<1>. QED
  BY Invariance, <1>1, PTL

\* A report ends in a queue without a thread only by a configure() during the request or an adapter that
\* keeps an engine (configure, the engine property of the adapters).
THEOREM ReportsAreShipped == Spec => []RowsAreShipped
<1>1. IInv => RowsAreShipped
  BY DEF IInv
<1>. QED
  BY Invariance, <1>1, PTL
=============================================================================
