------------------------------ MODULE MCThreads ------------------------------
(* The life of threads, and finalizers with their thread.  A behaviour is    *)
(* one of the two: the other part rests in an initial state with nothing to  *)
(* do.                                                                       *)
EXTENDS Threads, TLC

CONSTANTS main, a, b, f, u, v, fin

Op(o, t) == [do |-> o, to |-> t]
Script(ms, as, bs, fs) == main :> ms @@ a :> as @@ b :> bs @@ f :> fs
NoCalls == Script(<< >>, << >>, << >>, << >>)
MCScripts ==
  { Script(<<Op("make", a), Op("make", b), Op("join", a)>>, << >>, <<Op("join", a)>>, <<Op("callback", f)>>),
    Script(<<Op("make", a), Op("terminate", a), Op("make", b), Op("save", main)>>, << >>, << >>, << >>),
    Script(<<Op("make", a), Op("interrupt", a), Op("exit", main)>>, <<Op("make", b)>>, << >>, << >>),
    Script(<<Op("make", a), Op("exit", main)>>, <<Op("join", f)>>, << >>, <<Op("callback", f)>>),
    Script(<<Op("join", main), Op("make", a), Op("make", b), Op("join", b)>>, <<Op("exit", a)>>, <<Op("terminate", main)>>, << >>),
    NoCalls }

VARIABLES part, script, at, obj, act, popped, node, nodes, rehash, zero, triggered, flock, held, dead,
          ran, runflag, fthread, hooks, asleep, gcs, gcpc, stop, saved, freg, due, started, cancelled

finalizerVars ==
  <<script, at, obj, act, popped, node, nodes, rehash, zero, triggered, flock, held, dead, ran,
    runflag, fthread, hooks, asleep, gcs, gcpc, stop, saved, freg, due, started, cancelled>>

Finalize(o, x) == <<"finalize", o, x>>
Cancel(o) == <<"cancel", o, Nobody>>
Drop(o) == <<"drop", o, Nobody>>
NoFinalizers == u :> << >> @@ v :> << >>
FinalizerScripts ==
  { u :> <<Finalize("a", "f"), Finalize("a", "g"), Drop("a")>> @@ v :> << >>,
    u :> <<Finalize("a", "f"), Cancel("a")>> @@ v :> <<Cancel("b")>>,
    u :> <<Finalize("a", "f")>> @@ v :> <<Finalize("a", "h"), Cancel("a")>>,
    NoFinalizers }

F == INSTANCE Finalizers WITH
       Users <- {u, v}, Fin <- fin, Objects <- {"a", "b"}, Actions <- {"f", "g", "h"}, DontSave <- {"h"},
       Scripts <- FinalizerScripts, MaxGCs <- 2, None <- Nobody, pc <- at, reg <- freg
ASSUME FinalizerParameters == F!FinalizersAssumption

allVars == <<part, vars, finalizerVars>>

SumInit ==
  /\ part \in {"threads", "finalizers"} /\ Init /\ F!Init
  /\ part = "threads" => script = NoFinalizers
  /\ part = "finalizers" => left = NoCalls /\ script # NoFinalizers

OfThreads(A)    == part = "threads" /\ A /\ UNCHANGED <<part, finalizerVars>>
OfFinalizers(A) == part = "finalizers" /\ A /\ UNCHANGED <<part, vars>>

SumNext == OfThreads(Next) \/ OfFinalizers(F!Next)

\* The fairness of Threads and of Finalizers.  A behaviour has one part only, so a condition
\* on an action of one part and one on an action of the other are a condition on either.
Mate == main :> u @@ a :> v @@ b :> fin @@ f :> Nobody
FinalizerStep(t) ==
  \/ t \in {u, v} /\ F!User(t)
  \/ t \in {u, v, fin} /\ F!Rehash(t)
  \/ t = fin /\ F!Finalizer
  \/ t = Nobody /\ (F!PostGC \/ F!SkipPostGC)

SumSpec ==
  /\ SumInit /\ [][SumNext]_allVars
  /\ \A t \in Actors :
       WF_allVars(OfThreads(Step(t)) \/ OfFinalizers(FinalizerStep(Mate[t])))
  /\ WF_allVars(OfFinalizers(F!FinalizerThreadStart \/ F!Started \/ F!JoinFinalizerThread))

\* A finalizer is never lost and never doubled between the table, the rehashing threads,
\* collections and the finalizer thread; a cancelled one never runs.  And FINALIZER-THREAD-STOP
\* finds the thread that FINALIZER-THREAD-START has made.
EachInOnePlace == F!EachInOnePlace /\ F!StopFindsTheThread

\* In the end (calls and collections are finitely many) an EXIT has ended the process,
\* FINALIZER-THREAD-START and FINALIZER-THREAD-STOP have returned, and as long as the finalizer
\* thread is wanted every POST-GC has been answered, and what has died is finalized if a POST-GC
\* followed the last collection; the code gives no such promise for a collection without one.
InTheEnd ==
  <>[](/\ (\E t \in Actors : info[t].exiting) => log.over = "exit"
       /\ stop = "no" => hooks = 0 /\ (gcpc = "idle" => triggered = << >>)
       /\ stop \notin {"starting", "stopping"})
==============================================================================
