---------------------------- MODULE ThreadsProofs ----------------------------
(***************************************************************************)
(* Proof that the life of threads is sound, for any number of threads and  *)
(* thread structures and for any calls: ThreadsAreSound.                   *)
(***************************************************************************)
EXTENDS Threads, SequenceTheorems, TLAPS

-----------------------------------------------------------------------------
(* The inductive invariant.                                                *)

Calling == [do : {"make", "join", "interrupt", "terminate", "exit", "save", "callback"}, to : Actors]
Infos  == [visible : {-1, 0, 1}, prim : Mems \cup {0}, stash : Mems \cup {0}, th : Mems \cup {0},
           sem : BOOLEAN, posted : BOOLEAN, result : BOOLEAN, ints : Seq({"nop", "abort", "end"}),
           sigurg : BOOLEAN, exiting : BOOLEAN]
Locals == [corpse : Actors \cup {Nobody}, hand : Mems \cup {0}, keep : BOOLEAN,
           reuse : Mems \cup {0}, then : {"", "alloc", "joining", "xread", "census", "terminate"}]
Regs   == [all : SUBSET (Mems \X Actors), joinable : Seq(Lisp), starting : SUBSET Actors,
           enrollees : SUBSET Actors, session : SUBSET Actors, linked : SUBSET (Mems \cup {0}),
           recycled : Seq(Mems)]
Logs   == [returned : SUBSET Actors, got : SUBSET (Actors \X BOOLEAN),
           bad : SUBSET {"delete", "update", "visible", "kill"}, over : {"", "exit", "save"}]
Plans  == [todo : SUBSET Actors, join : SUBSET Actors]

\* The places of a thread after Die, those after it took its semaphore away, those where it
\* disposes of others, those where it makes another, those where it runs the function it
\* was made for, and those before.
Final    == {"signal", "unregister", "off", "dead"}
Finished == {"drop"} \cup Final
Dying    == {"leave", "vanish", "push"} \cup Finished
Disposal == {"pjoin", "pwait", "dispose", "disposepop"}
Creating == {"create", "created", "failed"}
Making   == {"reuse", "alloc"} \cup Creating
Working  == {"body", "joining", "semwait", "result", "exitlock", "exit", "terminate", "xterm", "xjoin",
             "xread", "xmain", "over", "census", "census2"} \cup Disposal \cup Making
Starting == {"born", "linked", "smashed", "enroll"}
Places   == {"unborn", "outside", "callback", "detach"} \cup Starting \cup Working \cup Dying

TypeOK ==
  /\ pc \in [Actors -> Places] /\ left \in [Actors -> Seq(Calling)]
  /\ loc \in [Actors -> Locals] /\ info \in [Actors -> Infos]
  /\ os \in [Actors -> {"none", "live", "exited", "joined"}]
  /\ mem \in [Mems -> {"free", "mapped"}] /\ reg \in Regs
  /\ targets \in Plans /\ log \in Logs

\* What the place of a Lisp thread tells of its instance.
LispTells(t) ==
  LET r == info[t] IN
  /\ pc[t] \in {"unborn"} \cup Starting \cup Working \cup Dying
  /\ pc[t] = "unborn" => /\ os[t] = "none" /\ r.visible = 0 /\ r.stash = 0 /\ r.prim = r.th
                         /\ ~r.posted /\ ~r.exiting /\ (r.sem <=> r.th # 0)
  /\ pc[t] \in Starting \cup Working =>
       os[t] = "live" /\ r.prim = r.th /\ r.th # 0 /\ r.stash = 0
  /\ pc[t] \in Dying => r.prim = 0 /\ r.th # 0 /\ ~r.exiting
  /\ pc[t] \in Dying \ {"dead"} => os[t] = "live"
  /\ pc[t] = "dead" => os[t] \in {"exited", "joined"}
  /\ pc[t] \in {"leave", "vanish", "push"} => r.stash = r.th
  /\ pc[t] \in {"enroll", "leave", "vanish"} \cup Working => r.visible = 1
  /\ pc[t] # "unborn" => (r.sem <=> pc[t] \notin Final)
  /\ r.posted <=> pc[t] \in Final \ {"signal"}
  /\ r.result <=> t \in log.returned
  /\ r.result => pc[t] \in {"exit"} \cup Dying
  /\ r.result => ~r.exiting

\* The main thread never gets to HANDLE-THREAD-EXIT: it ends with the process.
MainTells ==
  LET r == info[Main] IN
  /\ pc[Main] \in Working /\ os[Main] = "live"
  /\ r.prim = r.th /\ r.th # 0 /\ r.stash = 0 /\ r.visible = 1 /\ r.sem /\ ~r.posted
  /\ pc[Main] = "exit" => r.exiting

ForeignTells(f) ==
  LET r == info[f] IN
  /\ pc[f] \in {"outside", "born", "callback", "body", "exit", "vanish", "unregister", "detach"}
  /\ os[f] = "live" /\ ~r.exiting /\ ~r.sem /\ ~r.posted
  /\ pc[f] = "outside" <=> r.th = 0
  /\ pc[f] \in {"body", "exit"} => r.prim = r.th /\ r.stash = 0
  /\ pc[f] = "vanish" => r.prim = 0 /\ r.stash = r.th
  /\ pc[f] \notin {"body", "exit", "vanish"} => r.prim = 0 /\ r.stash = 0
  /\ loc[f] = NoLoc

Tells(t) ==
  /\ t \in Lisp => LispTells(t)
  /\ t = Main => MainTells
  /\ t \in Foreign => ForeignTells(t)
  /\ info[t].sigurg => info[t].ints # << >>

PlacesTell == \A t \in Actors : Tells(t)

\* Where a thread is in its calls.  It comes back from %DISPOSE-THREAD-STRUCTS to loc.then.
At(p, place) == pc[p] = place \/ (pc[p] \in Disposal /\ loc[p].then = place)
IsMaking(p) == pc[p] \in Making \/ At(p, "alloc")
Does(p, op) == left[p] # << >> /\ Head(left[p]).do = op
Begun(t) == t \in Lisp => pc[t] # "unborn"

CallTells(p) ==
  /\ pc[p] \in Disposal => loc[p].then \in {"alloc", "joining", "xread", "census", "terminate"}
  /\ pc[p] = "reuse" => loc[p].then = "alloc"
  /\ IsMaking(p) => Does(p, "make")
  /\ At(p, "joining") \/ pc[p] \in {"semwait", "result"} =>
       Does(p, "join") /\ Begun(Arg(p))
  /\ pc[p] = "result" => Arg(p) \in Lisp /\ pc[Arg(p)] \in Final
  /\ At(p, "census") \/ pc[p] = "census2" => Does(p, "save")
  /\ loc[p].corpse # Nobody <=> pc[p] \in {"pjoin", "pwait"}
  /\ loc[p].reuse # 0 => At(p, "alloc") /\ ~loc[p].keep
  /\ loc[p].keep => At(p, "alloc") /\ pc[p] \in {"pjoin", "pwait"}
  /\ info[p].exiting =>
       pc[p] \in {"exit", "xterm", "xjoin", "xmain", "over"} \/ At(p, "terminate") \/ At(p, "xread")

CallsTell ==
  /\ \A p \in Threads : CallTells(p)
  /\ \A u \in targets.todo : Begun(u)

\* A call of MAKE-THREAD that is still to come makes a thread that nobody knows; the
\* structure it gets is set aside for it until the OS thread runs, or could not be made.
Makes(p, i) == left[p][i].do = "make"
Reserved(t) == \E p \in Threads : pc[p] \in {"create", "failed"} /\ Arg(p) = t

MakesAreNew ==
  /\ \A f \in Foreign : \A i \in DOMAIN left[f] : left[f][i].do = "callback"
  /\ \A p \in Threads : \A i \in DOMAIN left[p] : Makes(p, i) =>
       /\ left[p][i].to \in Lisp
       /\ \A q \in Threads : \A j \in DOMAIN left[q] :
            Makes(q, j) /\ left[q][j].to = left[p][i].to => q = p /\ j = i
       /\ i # 1 \/ pc[p] \notin Creating => pc[left[p][i].to] = "unborn" /\ info[left[p][i].to] = NoInfo
  /\ \A p \in Threads : pc[p] \in Creating =>
       IF pc[p] = "created" THEN pc[Arg(p)] # "unborn"
       ELSE pc[Arg(p)] = "unborn" /\ info[Arg(p)].th # 0

\* Every thread structure has one use: it is that of a thread from its creation to
\* pthread_join, or kept for the next thread, or in the recycle bin, or not mapped.
Owning(t) == (os[t] \in {"live", "exited"} /\ info[t].th # 0) \/ Reserved(t)

MemoryIsOwned ==
  /\ \A t \in Actors : Owning(t) => mem[info[t].th] = "mapped"
  /\ \A t, u \in Actors : Owning(t) /\ Owning(u) /\ info[t].th = info[u].th => t = u
  /\ \A p \in Threads : loc[p].reuse # 0 =>
       /\ mem[loc[p].reuse] = "mapped"
       /\ \A t \in Actors : Owning(t) => info[t].th # loc[p].reuse
       /\ \A q \in Threads : loc[q].reuse = loc[p].reuse => q = p
       /\ \A i \in DOMAIN reg.recycled : reg.recycled[i] # loc[p].reuse
  /\ \A i \in DOMAIN reg.recycled :
       /\ mem[reg.recycled[i]] = "mapped"
       /\ \A t \in Actors : Owning(t) => info[t].th # reg.recycled[i]
       /\ \A j \in DOMAIN reg.recycled : reg.recycled[j] = reg.recycled[i] => j = i

\* *ALL-THREADS* has the threads that have not been disposed of, under their addresses.
Listed(t) == (info[t].prim # 0 \/ info[t].stash # 0) /\ (os[t] # "none" \/ Reserved(t))

ListIsExact ==
  /\ \A e \in reg.all : Listed(e[2]) /\ e[1] = info[e[2]].th
  /\ \A t \in Actors : Listed(t) => <<info[t].th, t>> \in reg.all

\* A finished thread is joined once: it is in *JOINABLE-THREADS*, or in the hands of one
\* other thread, and its address is taken once.
Unclaimed(c) == pc[c] \in Finished /\ os[c] \in {"live", "exited"} /\ info[c].stash = info[c].th

JoinedOnce ==
  /\ \A i \in DOMAIN reg.joinable :
       /\ Unclaimed(reg.joinable[i])
       /\ \A j \in DOMAIN reg.joinable : reg.joinable[j] = reg.joinable[i] => j = i
       /\ \A p \in Threads : loc[p].corpse # reg.joinable[i]
  /\ \A p \in Threads : loc[p].corpse # Nobody =>
       /\ loc[p].corpse \in Lisp
       /\ pc[p] = "pjoin" => Unclaimed(loc[p].corpse)
       /\ pc[p] = "pwait" => /\ pc[loc[p].corpse] \in Finished
                             /\ os[loc[p].corpse] \in {"live", "exited"}
                             /\ info[loc[p].corpse].stash = 0
                             /\ loc[p].hand = info[loc[p].corpse].th
       /\ \A q \in Threads : loc[q].corpse = loc[p].corpse => q = p
  /\ \A t \in Lisp : os[t] = "joined" => info[t].stash = 0

\* The results that JOIN-THREAD has given are those of threads that are done.
ResultsAreFinal ==
  \A g \in log.got : g[1] \in Lisp /\ pc[g[1]] \in Final /\ (g[2] <=> info[g[1]].result)

IInv ==
  /\ TypeOK /\ PlacesTell /\ CallsTell /\ MakesAreNew /\ MemoryIsOwned /\ ListIsExact
  /\ JoinedOnce /\ ResultsAreFinal /\ NothingGoesWrong


-----------------------------------------------------------------------------
(* What the types say, and frequent facts about sequences.                 *)

\* The types of the registers of threads, one by one.
LEMMA RegTypes ==
  ASSUME NEW r \in Regs
  PROVE  /\ r.all \subseteq Mems \X Actors
         /\ \A e \in r.all : e[1] \in Mems /\ e[2] \in Actors /\ e = <<e[1], e[2]>>
         /\ r.joinable \in Seq(Lisp) /\ \A i \in DOMAIN r.joinable : r.joinable[i] \in Lisp
         /\ r.recycled \in Seq(Mems) /\ \A i \in DOMAIN r.recycled : r.recycled[i] \in Mems
<1>1. r.all \in SUBSET (Mems \X Actors) /\ r.joinable \in Seq(Lisp) /\ r.recycled \in Seq(Mems)
  BY DEF Regs
<1>2. \A i \in DOMAIN r.joinable : r.joinable[i] \in Lisp
  BY <1>1, ElementOfSeq, LenProperties
<1>3. \A i \in DOMAIN r.recycled : r.recycled[i] \in Mems
  BY <1>1, ElementOfSeq, LenProperties
<1> QED BY <1>1, <1>2, <1>3

\* What the sequence operators of the model return.
LEMMA SeqFacts ==
  ASSUME NEW S, NEW s \in Seq(S), NEW x \in S
  PROVE  /\ << >> \in Seq(S)
         /\ <<x>> \o s \in Seq(S) /\ Append(s, x) \in Seq(S)
         /\ s # << >> => /\ Head(s) \in S /\ Tail(s) \in Seq(S) /\ 1 \in DOMAIN s /\ Head(s) = s[1]
                         /\ \A i \in DOMAIN Tail(s) : i + 1 \in DOMAIN s /\ Tail(s)[i] = s[i + 1]
         /\ \A i \in DOMAIN s : i \in Nat /\ s[i] \in S
         /\ \A i \in DOMAIN (<<x>> \o s) :
              \/ i = 1 /\ (<<x>> \o s)[i] = x
              \/ i - 1 \in DOMAIN s /\ i \in Nat /\ (<<x>> \o s)[i] = s[i - 1]
         /\ Append(s, x) # << >>
  OBVIOUS
\* Every place that an action names is a place.
LEMMA PlaceNames ==
  /\ "unborn" \in Places /\ "outside" \in Places /\ "callback" \in Places /\ "detach" \in Places
  /\ "born" \in Places /\ "linked" \in Places /\ "smashed" \in Places /\ "enroll" \in Places
  /\ "body" \in Places /\ "joining" \in Places /\ "semwait" \in Places /\ "result" \in Places
  /\ "exitlock" \in Places /\ "exit" \in Places /\ "terminate" \in Places /\ "xterm" \in Places
  /\ "xjoin" \in Places /\ "xread" \in Places /\ "xmain" \in Places /\ "over" \in Places
  /\ "census" \in Places /\ "census2" \in Places /\ "pjoin" \in Places /\ "pwait" \in Places
  /\ "dispose" \in Places /\ "disposepop" \in Places /\ "reuse" \in Places /\ "alloc" \in Places
  /\ "create" \in Places /\ "created" \in Places /\ "failed" \in Places /\ "leave" \in Places
  /\ "vanish" \in Places /\ "push" \in Places /\ "drop" \in Places /\ "signal" \in Places
  /\ "unregister" \in Places /\ "off" \in Places /\ "dead" \in Places
  BY DEF Places, Starting, Working, Dying, Finished, Final, Disposal, Making, Creating

\* A thread's script after a step of its own.
LEMMA ScriptTypes ==
  ASSUME TypeOK, NEW p \in Actors
  PROVE  /\ [left EXCEPT ![p] = << >>] \in [Actors -> Seq(Calling)]
         /\ left[p] # << >> => /\ [left EXCEPT ![p] = Tail(@)] \in [Actors -> Seq(Calling)]
                               /\ Head(left[p]) \in Calling /\ Arg(p) \in Actors
                               /\ 1 \in DOMAIN left[p] /\ left[p][1] = Head(left[p])
<1>1. left \in [Actors -> Seq(Calling)] /\ left[p] \in Seq(Calling)
  BY DEF TypeOK
<1>2. << >> \in Seq(Calling) /\ (left[p] # << >> => Tail(left[p]) \in Seq(Calling) /\ Head(left[p]) \in Calling)
  BY <1>1
<1>3. left[p] # << >> => 1 \in DOMAIN left[p] /\ left[p][1] = Head(left[p])
  BY <1>1
<1> QED BY <1>1, <1>2, <1>3 DEF Calling, Arg

\* Only a Lisp thread calls something in Lisp: foreign threads are there for callbacks.
LEMMA CallersAreLisp ==
  ASSUME IInv, NEW p \in Actors, NEW op, op # "callback", Calls(p, op)
  PROVE  /\ p \in Threads /\ p \notin Foreign /\ left[p] # << >> /\ Does(p, op) /\ pc[p] = "body"
         /\ Arg(p) \in Actors /\ 1 \in DOMAIN left[p] /\ left[p][1] = Head(left[p])
<1>1. left[p] # << >> /\ Does(p, op) /\ pc[p] = "body"
  BY DEF Calls, Does
<1>2. Arg(p) \in Actors /\ 1 \in DOMAIN left[p] /\ left[p][1] = Head(left[p])
  BY <1>1, ScriptTypes DEF IInv
<1>3. p \notin Foreign
  BY <1>1, <1>2 DEF IInv, MakesAreNew, Does
<1> QED BY <1>1, <1>2, <1>3 DEF Actors

-----------------------------------------------------------------------------
(* What a step leaves alone.                                               *)

\* A thread whose place, instance, OS thread and locals stay.
Rests(t) ==
  /\ pc'[t] = pc[t] /\ info'[t] = info[t] /\ os'[t] = os[t] /\ loc'[t] = loc[t]
  /\ t \in log'.returned <=> t \in log.returned

\* A thread that rests still has the instance that its place tells.
LEMMA RestTells ==
  ASSUME NEW t \in Actors, Tells(t), Rests(t)
  PROVE  Tells(t)'
<1>1. LispTells(t) => LispTells(t)'
  BY DEF LispTells, Rests
<1>2. t = Main /\ MainTells => MainTells'
  BY DEF MainTells, Rests
<1>3. ForeignTells(t) => ForeignTells(t)'
  BY DEF ForeignTells, Rests
<1> QED BY <1>1, <1>2, <1>3 DEF Tells, Rests

\* No thread becomes unborn, and one that took its semaphore away has done so for good.
Onward ==
  /\ \A w \in Actors : Begun(w) => Begun(w)'
  /\ \A c \in Lisp : pc[c] \in Final => pc'[c] \in Final

\* A thread that rests is where it was in its calls, if those it waits for went onward.
LEMMA RestCall ==
  ASSUME TypeOK, NEW q \in Threads, CallTells(q), Onward,
         pc'[q] = pc[q], left'[q] = left[q], loc'[q] = loc[q], info'[q].exiting = info[q].exiting
  PROVE  CallTells(q)'
<1>1. Arg(q)' = Arg(q) /\ \A op : Does(q, op)' <=> Does(q, op)
  BY DEF Arg, Does
<1>2. left[q] # << >> => Arg(q) \in Actors
  BY ScriptTypes DEF Actors
<1>3. \A l : At(q, l)' <=> At(q, l)
  BY DEF At
<1>4. IsMaking(q)' <=> IsMaking(q)
  BY <1>3 DEF IsMaking
<1>5. Does(q, "join") => (Begun(Arg(q)) => Begun(Arg(q))')
  <2>1. \A w \in Actors : Begun(w) => Begun(w)'
    BY DEF Onward
  <2>2. \A w : w = Arg(q) => (Begun(Arg(q))' <=> Begun(w)')
    BY <1>1 DEF Begun
  <2> QED BY <1>2, <2>1, <2>2 DEF Does
<1>6. Arg(q) \in Lisp /\ pc[Arg(q)] \in Final => Arg(q)' \in Lisp /\ pc'[Arg(q)'] \in Final
  BY <1>1 DEF Onward
<1>7. Does(q, "make") <=> Does(q, "make")'
  BY <1>1
<1>8. Does(q, "join") <=> Does(q, "join")'
  BY <1>1
<1>9. Does(q, "save") <=> Does(q, "save")'
  BY <1>1
<1>10. /\ (At(q, "alloc")' <=> At(q, "alloc")) /\ (At(q, "joining")' <=> At(q, "joining"))
       /\ (At(q, "census")' <=> At(q, "census")) /\ (At(q, "terminate")' <=> At(q, "terminate"))
       /\ (At(q, "xread")' <=> At(q, "xread"))
  BY <1>3
<1> QED BY <1>4, <1>5, <1>6, <1>7, <1>8, <1>9, <1>10 DEF CallTells

\* A thread whose script stays makes the same call, of a thread that has begun as before.
LEMMA SameCall ==
  ASSUME TypeOK, NEW p \in Actors, Onward, left'[p] = left[p]
  PROVE  /\ (Does(p, "make") => Does(p, "make")') /\ (Does(p, "save") => Does(p, "save")')
         /\ (Does(p, "join") /\ Begun(Arg(p)) => Does(p, "join")' /\ Begun(Arg(p))')
<1>1. left[p] # << >> => Arg(p) \in Actors
  BY ScriptTypes
<1>2. Arg(p)' = Arg(p) /\ \A op : Does(p, op) => Does(p, op)'
  BY DEF Arg, Does
<1>3. \A w \in Actors : Begun(w) => Begun(w)'
  BY DEF Onward
<1>4. Does(p, "join") /\ Begun(Arg(p)) => Begun(Arg(p))'
  BY <1>1, <1>2, <1>3 DEF Does, Begun
<1> QED BY <1>2, <1>4

\* Scripts go on, threads that were not made are not touched, and those that others make
\* stay in the making.
Steady(p) ==
  /\ \A q \in Actors \ {p} : left'[q] = left[q] /\ (pc[q] \in Creating \/ pc'[q] \in Creating => pc'[q] = pc[q])
  /\ pc'[p] \notin Creating
  /\ \/ left'[p] = left[p] /\ pc[p] \notin Creating
     \/ left'[p] = << >>
     \/ left'[p] = Tail(left[p]) /\ left[p] # << >>
  /\ \A c \in Lisp : (pc[c] = "unborn" <=> pc'[c] = "unborn") /\ (pc[c] = "unborn" => info'[c] = info[c])

\* After a steady step the calls of MAKE-THREAD still make threads that nobody knows.
LEMMA SteadyMakes ==
  ASSUME TypeOK, CallsTell, MakesAreNew, NEW p \in Actors, Steady(p)
  PROVE  MakesAreNew'
<1>1. \A q \in Actors \ {p} : left'[q] = left[q] /\ (pc[q] \in Creating \/ pc'[q] \in Creating => pc'[q] = pc[q])
  BY DEF Steady
<1>2. \A q \in Actors : left[q] \in Seq(Calling)
  BY DEF TypeOK
<1>3. \A q \in Actors :
        \/ \A i \in DOMAIN left'[q] : i \in DOMAIN left[q] /\ left'[q][i] = left[q][i] /\ (q = p => pc[q] \notin Creating)
        \/ \A i \in DOMAIN left'[q] : i + 1 \in DOMAIN left[q] /\ left'[q][i] = left[q][i + 1] /\ i + 1 # 1 /\ i \in Nat
  <2>1. CASE left'[p] = << >>
    BY <2>1 DEF Steady
  <2>2. CASE left'[p] = left[p] /\ pc[p] \notin Creating
    BY <2>2 DEF Steady
  <2>3. CASE left'[p] = Tail(left[p]) /\ left[p] # << >>
    <3>1. \A i \in DOMAIN left'[p] : i + 1 \in DOMAIN left[p] /\ left'[p][i] = left[p][i + 1] /\ i + 1 # 1 /\ i \in Nat
      BY <1>2, <2>3
    <3> QED BY <3>1 DEF Steady
  <2> QED BY <2>1, <2>2, <2>3 DEF Steady
<1>4. \A f \in Foreign : \A i \in DOMAIN left'[f] : left'[f][i].do = "callback"
  BY <1>3 DEF MakesAreNew, Actors
<1>5. \A c \in Lisp : pc[c] = "unborn" /\ info[c] = NoInfo => pc'[c] = "unborn" /\ info'[c] = NoInfo
  BY DEF Steady
<1>6. ASSUME NEW q \in Threads, NEW i \in DOMAIN left'[q], left'[q][i].do = "make"
      PROVE  /\ left'[q][i].to \in Lisp
             /\ \A r \in Threads : \A j \in DOMAIN left'[r] :
                  left'[r][j].do = "make" /\ left'[r][j].to = left'[q][i].to => r = q /\ j = i
             /\ \/ pc'[left'[q][i].to] = "unborn" /\ info'[left'[q][i].to] = NoInfo
                \/ i = 1 /\ pc'[q] \in Creating
  <2>1. left'[q][i].to \in Lisp
    BY <1>3, <1>6 DEF MakesAreNew, Makes, Actors, Threads
  <2>2. \A r \in Threads : \A j \in DOMAIN left'[r] :
          left'[r][j].do = "make" /\ left'[r][j].to = left'[q][i].to => r = q /\ j = i
    BY <1>3, <1>6 DEF MakesAreNew, Makes, Actors, Threads
  <2>3. CASE q = p
    <3>1. pc[left'[q][i].to] = "unborn" /\ info[left'[q][i].to] = NoInfo
      BY <1>3, <1>6, <2>3 DEF MakesAreNew, Makes, Actors, Threads, Creating
    <3> QED BY <1>5, <2>1, <2>2, <3>1
  <2>4. CASE q # p
    <3>1. left'[q] = left[q] /\ (pc[q] \in Creating => pc'[q] = pc[q])
      BY <1>1, <2>4 DEF Actors
    <3>2. \/ pc[left'[q][i].to] = "unborn" /\ info[left'[q][i].to] = NoInfo
          \/ i = 1 /\ pc'[q] \in Creating
      BY <1>6, <3>1 DEF MakesAreNew, Makes
    <3> QED BY <1>5, <2>1, <2>2, <3>2
  <2> QED BY <2>3, <2>4
<1>7. ASSUME NEW q \in Threads, pc'[q] \in Creating
      PROVE  IF pc'[q] = "created" THEN pc'[Arg(q)'] # "unborn"
             ELSE pc'[Arg(q)'] = "unborn" /\ info'[Arg(q)'].th # 0
  <2>1. q # p
    BY <1>7 DEF Steady
  <2>2. pc'[q] = pc[q] /\ left'[q] = left[q] /\ Arg(q)' = Arg(q)
    BY <1>1, <1>7, <2>1 DEF Arg, Actors
  <2>3. left[q] # << >> /\ Head(left[q]).do = "make"
    BY <1>7, <2>2 DEF CallsTell, CallTells, IsMaking, Making, Does
  <2>4. left[q][1] = Head(left[q]) /\ 1 \in DOMAIN left[q]
    BY <1>2, <2>3 DEF Actors
  <2>5. Arg(q) \in Lisp
    BY <2>3, <2>4 DEF MakesAreNew, Makes, Arg
  <2>6. (pc[Arg(q)] = "unborn" <=> pc'[Arg(q)] = "unborn") /\ (pc[Arg(q)] = "unborn" => info'[Arg(q)] = info[Arg(q)])
    BY <2>5 DEF Steady
  <2> QED BY <1>7, <2>2, <2>6 DEF MakesAreNew
<1> QED BY <1>4, <1>6, <1>7 DEF MakesAreNew, Makes

\* Structures have one use as before if no thread gets or loses one.
LEMMA MemoryRests ==
  ASSUME MemoryIsOwned, mem' = mem, reg'.recycled = reg.recycled,
         \A t \in Actors : Owning(t)' => Owning(t) /\ info'[t].th = info[t].th,
         \A q \in Threads : loc'[q].reuse = 0 \/ loc'[q].reuse = loc[q].reuse
  PROVE  MemoryIsOwned'
  BY DEF MemoryIsOwned

\* *ALL-THREADS* is exact as before if no thread comes or goes.
LEMMA ListRests ==
  ASSUME TypeOK, ListIsExact, reg'.all = reg.all,
         \A t \in Actors : (Listed(t)' <=> Listed(t)) /\ (Listed(t) => info'[t].th = info[t].th)
  PROVE  ListIsExact'
<1>1. \A e \in reg.all : e[2] \in Actors
  BY RegTypes DEF TypeOK
<1> QED BY <1>1 DEF ListIsExact

\* The results given are final as before if no finished thread changes.
LEMMA ResultsRest ==
  ASSUME ResultsAreFinal, log'.got = log.got,
         \A c \in Lisp : pc[c] \in Final => pc'[c] \in Final /\ (info'[c].result <=> info[c].result)
  PROVE  ResultsAreFinal'
  BY DEF ResultsAreFinal

\* Finished threads stay finished, and those that others dispose of stay in their hands.
LEMMA JoinedRest ==
  ASSUME TypeOK, CallsTell, JoinedOnce, reg'.joinable = reg.joinable,
         \A q \in Threads : /\ loc'[q].corpse = loc[q].corpse
                            /\ pc[q] \in {"pjoin", "pwait"} => pc'[q] = pc[q] /\ loc'[q].hand = loc[q].hand,
         \A c \in Lisp : /\ pc[c] \in Finished => /\ pc'[c] \in Finished /\ info'[c].th = info[c].th
                                                  /\ info'[c].stash = info[c].stash
                         /\ os'[c] = os[c] \/ (os[c] \in {"none", "live"} /\ os'[c] \in {"live", "exited"})
                         /\ os[c] = "joined" => info'[c].stash = info[c].stash
  PROVE  JoinedOnce'
<1>1. \A i \in DOMAIN reg.joinable : reg.joinable[i] \in Lisp
  BY RegTypes DEF TypeOK
<1>2. \A c \in Lisp : Unclaimed(c) => Unclaimed(c)'
  BY DEF Unclaimed
<1>3. \A q \in Threads : loc[q].corpse # Nobody => pc[q] \in {"pjoin", "pwait"}
  BY DEF CallsTell, CallTells
<1>4. \A i \in DOMAIN reg'.joinable :
        /\ Unclaimed(reg.joinable[i])' /\ reg'.joinable[i] = reg.joinable[i]
        /\ \A j \in DOMAIN reg'.joinable : reg'.joinable[j] = reg'.joinable[i] => j = i
        /\ \A q \in Threads : loc'[q].corpse # reg'.joinable[i]
  <2>1. TAKE i \in DOMAIN reg'.joinable
  <2>2. Unclaimed(reg.joinable[i]) /\ reg.joinable[i] \in Lisp
    BY <1>1 DEF JoinedOnce
  <2>3. PICK c \in Lisp : c = reg.joinable[i] /\ reg'.joinable[i] = c
    BY <2>2
  <2>4. Unclaimed(c)'
    BY <1>2, <2>2, <2>3
  <2>5. Unclaimed(reg.joinable[i])'
    BY <2>3, <2>4 DEF Unclaimed
  <2> QED BY <2>3, <2>5 DEF JoinedOnce
<1>5. ASSUME NEW q \in Threads, loc'[q].corpse # Nobody
      PROVE  /\ loc'[q].corpse \in Lisp
             /\ pc'[q] = "pjoin" => Unclaimed(loc[q].corpse)'
             /\ pc'[q] = "pwait" => /\ pc'[loc'[q].corpse] \in Finished
                                    /\ os'[loc'[q].corpse] \in {"live", "exited"}
                                    /\ info'[loc'[q].corpse].stash = 0
                                    /\ loc'[q].hand = info'[loc'[q].corpse].th
             /\ \A w \in Threads : loc'[w].corpse = loc'[q].corpse => w = q
  <2>1. PICK c \in Lisp : c = loc[q].corpse /\ c = loc'[q].corpse
    BY <1>5 DEF JoinedOnce
  <2>2. c # Nobody /\ pc'[q] = pc[q] /\ loc'[q].hand = loc[q].hand
    BY <1>3, <1>5, <2>1
  <2>3. pc'[q] = "pjoin" => Unclaimed(c)'
    <3>1. pc[q] = "pjoin" => Unclaimed(c)
      BY <2>1, <2>2 DEF JoinedOnce
    <3> QED BY <1>2, <2>2, <3>1
  <2>4. Unclaimed(c)' => Unclaimed(loc[q].corpse)'
    BY <2>1 DEF Unclaimed
  <2>5. pc[q] = "pwait" => /\ pc'[c] \in Finished /\ os'[c] \in {"live", "exited"}
                           /\ info'[c].stash = 0 /\ loc[q].hand = info'[c].th
    BY <2>1, <2>2 DEF JoinedOnce
  <2>6. \A w \in Threads : loc'[w].corpse = c => w = q
    BY <2>1, <2>2 DEF JoinedOnce
  <2> QED BY <2>1, <2>2, <2>3, <2>4, <2>5, <2>6
<1>6. \A t \in Lisp : os'[t] = "joined" => info'[t].stash = 0
  BY DEF JoinedOnce
<1> QED BY <1>4, <1>5, <1>6 DEF JoinedOnce, Unclaimed

\* The step of one thread: the others' calls go on.
LEMMA CallsRest ==
  ASSUME TypeOK, TypeOK', CallsTell, Onward, NEW p \in Actors,
         \A q \in Threads \ {p} : /\ pc'[q] = pc[q] /\ left'[q] = left[q] /\ loc'[q] = loc[q]
                                  /\ info'[q].exiting = info[q].exiting,
         p \in Threads => CallTells(p)', \A w \in targets'.todo : Begun(w)
  PROVE  CallsTell'
<1>1. ASSUME NEW q \in Threads, q # p PROVE CallTells(q)'
  BY <1>1, RestCall DEF CallsTell
<1>2. \A w \in targets'.todo : Begun(w)'
  <2>1. targets'.todo \subseteq Actors
    BY DEF TypeOK, Plans
  <2> QED BY <2>1 DEF Onward
<1> QED BY <1>1, <1>2 DEF CallsTell

-----------------------------------------------------------------------------
(* Steps that leave structures, lists and finished threads alone.          *)

\* Thread p goes to place l and on in its script, and the instance of u changes, while what
\* MemoryIsOwned, ListIsExact, JoinedOnce and ResultsAreFinal speak of stays as it is.
Quiet(p, u, l) ==
  /\ pc' = [pc EXCEPT ![p] = l] /\ pc[p] # "unborn" /\ l # "unborn"
  /\ pc[p] \notin {"create", "failed", "pjoin", "pwait"} /\ l \notin Creating \cup {"pjoin", "pwait"}
  /\ p \in Lisp => (pc[p] \in Finished => l \in Finished) /\ (pc[p] \in Final => l \in Final)
  /\ \/ left'[p] = left[p] /\ pc[p] # "created"
     \/ left'[p] = << >> /\ pc[p] # "created"
     \/ left'[p] = Tail(left[p]) /\ left[p] # << >>
  /\ \A t \in Actors \ {p} : left'[t] = left[t] /\ os'[t] = os[t] /\ loc'[t] = loc[t]
  /\ os'[p] = os[p] \/ (os[p] = "live" /\ os'[p] = "exited")
  /\ loc'[p].reuse = loc[p].reuse /\ loc'[p].corpse = loc[p].corpse
  /\ Begun(u) /\ \A t \in Actors \ {u} : info'[t] = info[t]
  /\ u # p => info'[u].exiting = info[u].exiting
  /\ info'[u].th = info[u].th /\ info'[u].prim = info[u].prim /\ info'[u].stash = info[u].stash
  /\ pc[u] \in Final => (info'[u].result <=> info[u].result)
  /\ \A t \in Actors \ {p} : t \in log'.returned <=> t \in log.returned
  /\ mem' = mem /\ log'.got = log.got /\ log'.bad = log.bad
  /\ reg'.all = reg.all /\ reg'.joinable = reg.joinable /\ reg'.recycled = reg.recycled
  /\ \A w \in targets'.todo : Begun(w)

\* What moves in a quiet step.
LEMMA QuietMoves ==
  ASSUME TypeOK, NEW p \in Actors, NEW u \in Actors, NEW l \in Places, Quiet(p, u, l)
  PROVE  /\ pc'[p] = l /\ \A q \in Actors \ {p} : pc'[q] = pc[q]
         /\ \A c \in Lisp : (pc[c] = "unborn" <=> pc'[c] = "unborn")
         /\ \A c \in Lisp : pc[c] = "unborn" => info'[c] = info[c] /\ c # p
         /\ \A c \in Lisp : (pc[c] \in Finished => pc'[c] \in Finished) /\ (pc[c] \in Final => pc'[c] \in Final)
         /\ \A t \in Actors : /\ info'[t].th = info[t].th /\ info'[t].prim = info[t].prim
                              /\ info'[t].stash = info[t].stash
                              /\ pc[t] \in Final => (info'[t].result <=> info[t].result)
                              /\ os'[t] = os[t] \/ (os[t] = "live" /\ os'[t] = "exited")
                              /\ loc'[t].reuse = loc[t].reuse /\ loc'[t].corpse = loc[t].corpse
                              /\ t # p => loc'[t].hand = loc[t].hand
         /\ \A t : Reserved(t)' <=> Reserved(t)
<1>1. pc \in [Actors -> Places]
  BY DEF TypeOK
<1>2. pc' = [pc EXCEPT ![p] = l]
  BY DEF Quiet
<1>3. pc'[p] = l /\ \A q \in Actors \ {p} : pc'[q] = pc[q]
  BY <1>1, <1>2
<1>4. \A c \in Lisp : (pc[c] = "unborn" <=> pc'[c] = "unborn")
  BY <1>3 DEF Quiet, Actors, Threads
<1>5. \A c \in Lisp : pc[c] = "unborn" => info'[c] = info[c] /\ c # p
  BY <1>3 DEF Quiet, Actors, Threads, Begun
<1>6. \A c \in Lisp : (pc[c] \in Finished => pc'[c] \in Finished) /\ (pc[c] \in Final => pc'[c] \in Final)
  BY <1>3 DEF Quiet, Actors, Threads
<1>7. \A t \in Actors : /\ info'[t].th = info[t].th /\ info'[t].prim = info[t].prim
                        /\ info'[t].stash = info[t].stash
                        /\ pc[t] \in Final => (info'[t].result <=> info[t].result)
                        /\ os'[t] = os[t] \/ (os[t] = "live" /\ os'[t] = "exited")
                        /\ loc'[t].reuse = loc[t].reuse /\ loc'[t].corpse = loc[t].corpse
                        /\ t # p => loc'[t].hand = loc[t].hand
  BY DEF Quiet
<1>8. \A t : Reserved(t)' <=> Reserved(t)
  BY <1>3 DEF Quiet, Reserved, Arg, Threads, Actors, Creating
<1> QED BY <1>3, <1>4, <1>5, <1>6, <1>7, <1>8

\* A quiet step keeps the invariant if the two threads it concerns fit their places.
LEMMA QuietKeeps ==
  ASSUME IInv, TypeOK', NEW p \in Actors, NEW u \in Actors, NEW l \in Places, Quiet(p, u, l),
         Tells(p)', Tells(u)', p \in Threads => CallTells(p)'
  PROVE  IInv'
<1> USE DEF IInv
<1>1. pc'[p] = l /\ \A q \in Actors \ {p} : pc'[q] = pc[q]
  BY QuietMoves
<1>2. \A c \in Lisp : (pc[c] \in Finished => pc'[c] \in Finished) /\ (pc[c] \in Final => pc'[c] \in Final)
  BY QuietMoves
<1>3. \A t \in Actors : (Owning(t)' <=> Owning(t)) /\ (Listed(t)' <=> Listed(t)) /\ info'[t].th = info[t].th
  BY QuietMoves DEF Owning, Listed
<1>4. MemoryIsOwned'
  BY <1>3, QuietMoves, MemoryRests DEF Quiet, Threads, Actors
<1>5. ListIsExact'
  BY <1>3, ListRests DEF Quiet
<1>6. JoinedOnce'
  BY <1>1, QuietMoves, JoinedRest DEF Quiet, Threads, Actors
<1>7. ResultsAreFinal'
  BY <1>2, QuietMoves, ResultsRest DEF Quiet, Actors, Threads
<1>8. PlacesTell'
  <2>1. ASSUME NEW t \in Actors, t # p, t # u PROVE Tells(t)'
    BY <1>1, <2>1, RestTells DEF Quiet, Rests, PlacesTell
  <2> QED BY <2>1 DEF PlacesTell
<1>9. CallsTell'
  <2>1. Onward
    BY <1>2, QuietMoves DEF Onward, Begun
  <2> QED BY <1>1, <2>1, CallsRest DEF Quiet, Actors
<1>10. MakesAreNew'
  <2>1. Steady(p)
    BY <1>1, QuietMoves DEF Steady, Quiet, Creating
  <2> QED BY <2>1, SteadyMakes
<1>11. NothingGoesWrong'
  BY DEF Quiet, NothingGoesWrong
<1> QED BY <1>4, <1>5, <1>6, <1>7, <1>8, <1>9, <1>10, <1>11

-----------------------------------------------------------------------------
(* The quiet steps.                                                        *)

\* Smashing the cell in *STARTING-THREADS*.
LEMMA SmashKeeps ==
  ASSUME IInv, NEW p \in Actors, Smash(p)
  PROVE  IInv'
<1> USE ThreadsAssumption DEF IInv
<1>1. /\ Tells(p) /\ (p \in Threads => CallTells(p)) /\ p \in Lisp \cup {Main} \cup Foreign
      /\ pc \in [Actors -> Places] /\ info \in [Actors -> Infos] /\ info[p] \in Infos
      /\ loc \in [Actors -> Locals] /\ loc[p] \in Locals /\ left \in [Actors -> Seq(Calling)]
      /\ os \in [Actors -> {"none", "live", "exited", "joined"}]
  BY DEF PlacesTell, CallsTell, TypeOK, Threads, Actors
<1>2. TypeOK'
  BY <1>1, PlaceNames, ScriptTypes, SeqFacts DEF Smash, Goto, TypeOK, Regs
<1>3. Tells(p)'
  BY <1>1 DEF Smash, Goto, Tells, LispTells, MainTells, ForeignTells, Infos, Starting,
     Working, Dying,
     Finished, Final, Disposal, Making, Creating
<1>4. p \in Threads => CallTells(p)'
  BY <1>1 DEF Smash, Goto, CallTells, At, IsMaking, Does, Begun, Arg, Infos, Locals, Starting,
     Working,
     Dying, Finished, Final, Disposal, Making, Creating
<1>5. Quiet(p, p, "smashed") /\ "smashed" \in Places
  BY <1>1, PlaceNames DEF Smash, Goto, Quiet, Tells, LispTells, MainTells, ForeignTells, Begun,
     CallsTell, Infos, Starting, Working, Dying, Finished, Final, Disposal, Making, Creating
<1> QED BY <1>2, <1>3, <1>4, <1>5, QuietKeeps

\* A new thread makes itself visible.
LEMMA ExposeKeeps ==
  ASSUME IInv, NEW p \in Actors, Expose(p)
  PROVE  IInv'
<1> USE ThreadsAssumption DEF IInv
<1>1. /\ Tells(p) /\ (p \in Threads => CallTells(p)) /\ p \in Lisp \cup {Main} \cup Foreign
      /\ pc \in [Actors -> Places] /\ info \in [Actors -> Infos] /\ info[p] \in Infos
      /\ loc \in [Actors -> Locals] /\ loc[p] \in Locals /\ left \in [Actors -> Seq(Calling)]
      /\ os \in [Actors -> {"none", "live", "exited", "joined"}]
  BY DEF PlacesTell, CallsTell, TypeOK, Threads, Actors
<1>2. TypeOK'
  BY <1>1, PlaceNames, ScriptTypes, SeqFacts DEF Expose, Goto, Set, TypeOK, Infos
<1>3. Tells(p)'
  BY <1>1 DEF Expose, Goto, Set, Tells, LispTells, MainTells, ForeignTells, Infos, Starting,
     Working,
     Dying, Finished, Final, Disposal, Making, Creating
<1>4. p \in Threads => CallTells(p)'
  BY <1>1 DEF Expose, Goto, Set, CallTells, At, IsMaking, Does, Begun, Arg, Infos, Locals,
     Starting,
     Working, Dying, Finished, Final, Disposal, Making, Creating
<1>5. Quiet(p, p, "enroll") /\ "enroll" \in Places
  BY <1>1, PlaceNames DEF Expose, Goto, Set, Quiet, Tells, LispTells, MainTells, ForeignTells,
     Begun,
     CallsTell, Infos, Starting, Working, Dying, Finished, Final, Disposal, Making, Creating
<1> QED BY <1>2, <1>3, <1>4, <1>5, QuietKeeps

\* A new thread puts itself among the enrollees of the session.
LEMMA EnrollKeeps ==
  ASSUME IInv, NEW p \in Actors, Enroll(p)
  PROVE  IInv'
<1> USE ThreadsAssumption DEF IInv
<1>1. /\ Tells(p) /\ (p \in Threads => CallTells(p)) /\ p \in Lisp \cup {Main} \cup Foreign
      /\ pc \in [Actors -> Places] /\ info \in [Actors -> Infos] /\ info[p] \in Infos
      /\ loc \in [Actors -> Locals] /\ loc[p] \in Locals /\ left \in [Actors -> Seq(Calling)]
      /\ os \in [Actors -> {"none", "live", "exited", "joined"}]
  BY DEF PlacesTell, CallsTell, TypeOK, Threads, Actors
<1>2. TypeOK'
  <2>1. reg.enrollees \cup {p} \subseteq Actors
    <3>1. reg.enrollees \subseteq Actors
      BY DEF TypeOK, Regs
    <3> QED BY <3>1
  <2> QED BY <1>1, <2>1, PlaceNames DEF Enroll, Goto, TypeOK, Regs
<1>3. Tells(p)'
  BY <1>1 DEF Enroll, Goto, Tells, LispTells, MainTells, ForeignTells, Infos, Starting,
     Working, Dying,
     Finished, Final, Disposal, Making, Creating
<1>4. p \in Threads => CallTells(p)'
  BY <1>1 DEF Enroll, Goto, CallTells, At, IsMaking, Does, Begun, Arg, Infos, Locals,
     Starting, Working,
     Dying, Finished, Final, Disposal, Making, Creating
<1>5. Quiet(p, p, "body") /\ "body" \in Places
  BY <1>1, PlaceNames DEF Enroll, Goto, Quiet, Tells, LispTells, MainTells, ForeignTells, Begun,
     CallsTell, Infos, Starting, Working, Dying, Finished, Final, Disposal, Making, Creating
<1> QED BY <1>2, <1>3, <1>4, <1>5, QuietKeeps

\* init_new_thread links the structure into all_threads.
LEMMA LinkThreadKeeps ==
  ASSUME IInv, NEW p \in Actors, LinkThread(p)
  PROVE  IInv'
<1> USE ThreadsAssumption DEF IInv
<1>1. /\ Tells(p) /\ (p \in Threads => CallTells(p)) /\ p \in Lisp \cup {Main} \cup Foreign
      /\ pc \in [Actors -> Places] /\ info \in [Actors -> Infos] /\ info[p] \in Infos
      /\ loc \in [Actors -> Locals] /\ loc[p] \in Locals /\ left \in [Actors -> Seq(Calling)]
      /\ os \in [Actors -> {"none", "live", "exited", "joined"}]
  BY DEF PlacesTell, CallsTell, TypeOK, Threads, Actors
<1>2. TypeOK'
  <2>1. reg.linked \cup {info[p].th} \in SUBSET (Mems \cup {0})
    BY <1>1 DEF TypeOK, Regs, Infos, Plans
  <2> QED BY <1>1, <2>1, PlaceNames DEF LinkThread, Goto, TypeOK, Regs
<1>3. Tells(p)'
  BY <1>1 DEF LinkThread, Goto, Tells, LispTells, MainTells, ForeignTells, Infos, Starting,
     Working,
     Dying, Finished, Final, Disposal, Making, Creating
<1>4. p \in Threads => CallTells(p)'
  BY <1>1 DEF LinkThread, Goto, CallTells, At, IsMaking, Does, Begun, Arg, Infos, Locals,
     Starting,
     Working, Dying, Finished, Final, Disposal, Making, Creating
<1>5. Quiet(p, p, pc'[p]) /\ pc'[p] \in Places
  BY <1>1, PlaceNames DEF LinkThread, Goto, Quiet, Tells, LispTells, MainTells, ForeignTells,
     Begun,
     CallsTell, Infos, Starting, Working, Dying, Finished, Final, Disposal, Making, Creating
<1> QED BY <1>2, <1>3, <1>4, <1>5, QuietKeeps

\* A dying thread leaves its session.
LEMMA LeaveSessionKeeps ==
  ASSUME IInv, NEW p \in Actors, LeaveSession(p)
  PROVE  IInv'
<1> USE ThreadsAssumption DEF IInv
<1>1. /\ Tells(p) /\ (p \in Threads => CallTells(p)) /\ p \in Lisp \cup {Main} \cup Foreign
      /\ pc \in [Actors -> Places] /\ info \in [Actors -> Infos] /\ info[p] \in Infos
      /\ loc \in [Actors -> Locals] /\ loc[p] \in Locals /\ left \in [Actors -> Seq(Calling)]
      /\ os \in [Actors -> {"none", "live", "exited", "joined"}]
  BY DEF PlacesTell, CallsTell, TypeOK, Threads, Actors
<1>2. TypeOK'
  BY <1>1, PlaceNames, ScriptTypes, SeqFacts DEF LeaveSession, Goto, Enrolled, TypeOK, Regs
<1>3. Tells(p)'
  BY <1>1 DEF LeaveSession, Goto, Enrolled, Tells, LispTells, MainTells, ForeignTells, Infos,
     Starting,
     Working, Dying, Finished, Final, Disposal, Making, Creating
<1>4. p \in Threads => CallTells(p)'
  BY <1>1 DEF LeaveSession, Goto, Enrolled, CallTells, At, IsMaking, Does, Begun, Arg, Infos,
     Locals,
     Starting, Working, Dying, Finished, Final, Disposal, Making, Creating
<1>5. Quiet(p, p, "vanish") /\ "vanish" \in Places
  BY <1>1, PlaceNames DEF LeaveSession, Goto, Enrolled, Quiet, Tells, LispTells, MainTells,
     ForeignTells, Begun, CallsTell, Infos, Starting, Working, Dying, Finished, Final, Disposal, Making,
     Creating
<1> QED BY <1>2, <1>3, <1>4, <1>5, QuietKeeps

\* A dying thread takes its semaphore away from later joins.
LEMMA DropSemaphoreKeeps ==
  ASSUME IInv, NEW p \in Actors, DropSemaphore(p)
  PROVE  IInv'
<1> USE ThreadsAssumption DEF IInv
<1>1. /\ Tells(p) /\ (p \in Threads => CallTells(p)) /\ p \in Lisp \cup {Main} \cup Foreign
      /\ pc \in [Actors -> Places] /\ info \in [Actors -> Infos] /\ info[p] \in Infos
      /\ loc \in [Actors -> Locals] /\ loc[p] \in Locals /\ left \in [Actors -> Seq(Calling)]
      /\ os \in [Actors -> {"none", "live", "exited", "joined"}]
  BY DEF PlacesTell, CallsTell, TypeOK, Threads, Actors
<1>2. TypeOK'
  BY <1>1, PlaceNames, ScriptTypes, SeqFacts DEF DropSemaphore, Goto, Set, TypeOK, Infos
<1>3. Tells(p)'
  BY <1>1 DEF DropSemaphore, Goto, Set, Tells, LispTells, MainTells, ForeignTells, Infos,
     Starting,
     Working, Dying, Finished, Final, Disposal, Making, Creating
<1>4. p \in Threads => CallTells(p)'
  BY <1>1 DEF DropSemaphore, Goto, Set, CallTells, At, IsMaking, Does, Begun, Arg, Infos,
     Locals,
     Starting, Working, Dying, Finished, Final, Disposal, Making, Creating
<1>5. Quiet(p, p, "signal") /\ "signal" \in Places
  BY <1>1, PlaceNames DEF DropSemaphore, Goto, Set, Quiet, Tells, LispTells, MainTells,
     ForeignTells,
     Begun, CallsTell, Infos, Starting, Working, Dying, Finished, Final, Disposal, Making, Creating
<1> QED BY <1>2, <1>3, <1>4, <1>5, QuietKeeps

\* A dying thread signals the semaphore that earlier joins have.
LEMMA SignalSemaphoreKeeps ==
  ASSUME IInv, NEW p \in Actors, SignalSemaphore(p)
  PROVE  IInv'
<1> USE ThreadsAssumption DEF IInv
<1>1. /\ Tells(p) /\ (p \in Threads => CallTells(p)) /\ p \in Lisp \cup {Main} \cup Foreign
      /\ pc \in [Actors -> Places] /\ info \in [Actors -> Infos] /\ info[p] \in Infos
      /\ loc \in [Actors -> Locals] /\ loc[p] \in Locals /\ left \in [Actors -> Seq(Calling)]
      /\ os \in [Actors -> {"none", "live", "exited", "joined"}]
  BY DEF PlacesTell, CallsTell, TypeOK, Threads, Actors
<1>2. TypeOK'
  BY <1>1, PlaceNames, ScriptTypes, SeqFacts DEF SignalSemaphore, Goto, Set, TypeOK, Infos
<1>3. Tells(p)'
  BY <1>1 DEF SignalSemaphore, Goto, Set, Tells, LispTells, MainTells, ForeignTells, Infos,
     Starting,
     Working, Dying, Finished, Final, Disposal, Making, Creating
<1>4. p \in Threads => CallTells(p)'
  BY <1>1 DEF SignalSemaphore, Goto, Set, CallTells, At, IsMaking, Does, Begun, Arg, Infos,
     Locals,
     Starting, Working, Dying, Finished, Final, Disposal, Making, Creating
<1>5. Quiet(p, p, "unregister") /\ "unregister" \in Places
  BY <1>1, PlaceNames DEF SignalSemaphore, Goto, Set, Quiet, Tells, LispTells, MainTells,
     ForeignTells,
     Begun, CallsTell, Infos, Starting, Working, Dying, Finished, Final, Disposal, Making, Creating
<1> QED BY <1>2, <1>3, <1>4, <1>5, QuietKeeps

\* unregister_thread unlinks the structure.
LEMMA UnregisterKeeps ==
  ASSUME IInv, NEW p \in Actors, Unregister(p)
  PROVE  IInv'
<1> USE ThreadsAssumption DEF IInv
<1>1. /\ Tells(p) /\ (p \in Threads => CallTells(p)) /\ p \in Lisp \cup {Main} \cup Foreign
      /\ pc \in [Actors -> Places] /\ info \in [Actors -> Infos] /\ info[p] \in Infos
      /\ loc \in [Actors -> Locals] /\ loc[p] \in Locals /\ left \in [Actors -> Seq(Calling)]
      /\ os \in [Actors -> {"none", "live", "exited", "joined"}]
  BY DEF PlacesTell, CallsTell, TypeOK, Threads, Actors
<1>2. TypeOK'
  BY <1>1, PlaceNames, ScriptTypes, SeqFacts DEF Unregister, Goto, TypeOK, Regs
<1>3. Tells(p)'
  BY <1>1 DEF Unregister, Goto, Tells, LispTells, MainTells, ForeignTells, Infos, Starting,
     Working,
     Dying, Finished, Final, Disposal, Making, Creating
<1>4. p \in Threads => CallTells(p)'
  BY <1>1 DEF Unregister, Goto, CallTells, At, IsMaking, Does, Begun, Arg, Infos, Locals,
     Starting,
     Working, Dying, Finished, Final, Disposal, Making, Creating
<1>5. Quiet(p, p, pc'[p]) /\ pc'[p] \in Places
  BY <1>1, PlaceNames DEF Unregister, Goto, Quiet, Tells, LispTells, MainTells, ForeignTells,
     Begun,
     CallsTell, Infos, Starting, Working, Dying, Finished, Final, Disposal, Making, Creating
<1> QED BY <1>2, <1>3, <1>4, <1>5, QuietKeeps

\* The OS thread ends; its structure is still its own.
LEMMA EndOSThreadKeeps ==
  ASSUME IInv, NEW p \in Actors, EndOSThread(p)
  PROVE  IInv'
<1> USE ThreadsAssumption DEF IInv
<1>1. /\ Tells(p) /\ (p \in Threads => CallTells(p)) /\ p \in Lisp \cup {Main} \cup Foreign
      /\ pc \in [Actors -> Places] /\ info \in [Actors -> Infos] /\ info[p] \in Infos
      /\ loc \in [Actors -> Locals] /\ loc[p] \in Locals /\ left \in [Actors -> Seq(Calling)]
      /\ os \in [Actors -> {"none", "live", "exited", "joined"}]
  BY DEF PlacesTell, CallsTell, TypeOK, Threads, Actors
<1>2. TypeOK'
  BY <1>1, PlaceNames, ScriptTypes, SeqFacts DEF EndOSThread, Goto, TypeOK
<1>3. Tells(p)'
  BY <1>1 DEF EndOSThread, Goto, Tells, LispTells, MainTells, ForeignTells, Infos, Starting,
     Working,
     Dying, Finished, Final, Disposal, Making, Creating
<1>4. p \in Threads => CallTells(p)'
  BY <1>1 DEF EndOSThread, Goto, CallTells, At, IsMaking, Does, Begun, Arg, Infos, Locals,
     Starting,
     Working, Dying, Finished, Final, Disposal, Making, Creating
<1>5. Quiet(p, p, "dead") /\ "dead" \in Places
  BY <1>1, PlaceNames DEF EndOSThread, Goto, Quiet, Tells, LispTells, MainTells, ForeignTells,
     Begun,
     CallsTell, Infos, Starting, Working, Dying, Finished, Final, Disposal, Making, Creating
<1> QED BY <1>2, <1>3, <1>4, <1>5, QuietKeeps

\* %DISPOSE-THREAD-STRUCTS looks at how many are left.
LEMMA DisposeCheckKeeps ==
  ASSUME IInv, NEW p \in Actors, DisposeCheck(p)
  PROVE  IInv'
<1> USE ThreadsAssumption DEF IInv
<1>1. /\ Tells(p) /\ (p \in Threads => CallTells(p)) /\ p \in Lisp \cup {Main} \cup Foreign
      /\ pc \in [Actors -> Places] /\ info \in [Actors -> Infos] /\ info[p] \in Infos
      /\ loc \in [Actors -> Locals] /\ loc[p] \in Locals /\ left \in [Actors -> Seq(Calling)]
      /\ os \in [Actors -> {"none", "live", "exited", "joined"}]
  BY DEF PlacesTell, CallsTell, TypeOK, Threads, Actors
<1>2. /\ p \in Threads /\ p \notin Foreign /\ pc'[p] \in {"disposepop", loc[p].then} /\ pc[p] = "dispose"
      /\ loc[p].then \in {"alloc", "joining", "xread", "census", "terminate"}
  BY <1>1 DEF DisposeCheck, Goto, CallTells, Tells, ForeignTells, Disposal, Threads
<1>3. TypeOK'
  <2>1. pc' \in [Actors -> Places]
    BY <1>1, <1>2, PlaceNames DEF DisposeCheck, Goto
  <2> QED BY <2>1 DEF DisposeCheck, TypeOK
<1>4. Tells(p)'
  BY <1>1, <1>2 DEF DisposeCheck, Goto, Tells, LispTells, MainTells, Starting, Working, Dying,
     Finished,
     Final, Disposal, Making
<1>5. p \in Threads => CallTells(p)'
  BY <1>1, <1>2 DEF DisposeCheck, Goto, CallTells, At, IsMaking, Does, Begun, Arg, Disposal,
     Making,
     Creating, Final
<1>6. Quiet(p, p, pc'[p]) /\ pc'[p] \in Places
  BY <1>1, <1>2, PlaceNames DEF DisposeCheck, Goto, Quiet, Begun, CallsTell, Creating, Final,
     Finished
<1> QED BY <1>3, <1>4, <1>5, <1>6, QuietKeeps

\* MAKE-THREAD is called.
LEMMA MakeThreadKeeps ==
  ASSUME IInv, NEW p \in Actors, MakeThread(p)
  PROVE  IInv'
<1> USE ThreadsAssumption DEF IInv
<1>1. /\ Tells(p) /\ (p \in Threads => CallTells(p)) /\ p \in Lisp \cup {Main} \cup Foreign
      /\ pc \in [Actors -> Places] /\ info \in [Actors -> Infos] /\ info[p] \in Infos
      /\ loc \in [Actors -> Locals] /\ loc[p] \in Locals /\ left \in [Actors -> Seq(Calling)]
      /\ os \in [Actors -> {"none", "live", "exited", "joined"}]
  BY DEF PlacesTell, CallsTell, TypeOK, Threads, Actors
<1>2. p \in Threads /\ p \notin Foreign /\ left[p] # << >> /\ Does(p, "make") /\ Arg(p) \in Actors /\ pc[p] = "body"
  BY CallersAreLisp DEF MakeThread, Calls
<1>3. TypeOK'
  BY <1>1, PlaceNames, ScriptTypes, SeqFacts DEF MakeThread, Goto, Calls, Arg, TypeOK, Locals
<1>4. Tells(p)'
  BY <1>1, <1>2 DEF MakeThread, Goto, Tells, LispTells, MainTells, Starting, Working, Dying,
     Finished,
     Final, Disposal, Making
<1>5. p \in Threads => CallTells(p)'
  BY <1>1 DEF MakeThread, Goto, Calls, Arg, CallTells, At, IsMaking, Does, Begun, Arg, Infos,
     Locals,
     Starting, Working, Dying, Finished, Final, Disposal, Making, Creating
<1>6. Quiet(p, p, "reuse") /\ "reuse" \in Places
  BY <1>1, PlaceNames DEF MakeThread, Goto, Calls, Arg, Quiet, Tells, LispTells, MainTells,
     ForeignTells, Begun, CallsTell, Infos, Starting, Working, Dying, Finished, Final, Disposal, Making,
     Creating
<1> QED BY <1>3, <1>4, <1>5, <1>6, QuietKeeps

\* The function of a thread returns: the result and the history agree.
LEMMA ReturnKeeps ==
  ASSUME IInv, NEW p \in Actors, Return(p)
  PROVE  IInv'
<1> USE ThreadsAssumption DEF IInv
<1>1. /\ Tells(p) /\ (p \in Threads => CallTells(p)) /\ p \in Lisp \cup {Main} \cup Foreign
      /\ pc \in [Actors -> Places] /\ info \in [Actors -> Infos] /\ info[p] \in Infos
      /\ loc \in [Actors -> Locals] /\ loc[p] \in Locals /\ left \in [Actors -> Seq(Calling)]
      /\ os \in [Actors -> {"none", "live", "exited", "joined"}]
  BY DEF PlacesTell, CallsTell, TypeOK, Threads, Actors
<1>2. TypeOK'
  <2>1. log.returned \cup {p} \subseteq Actors
    <3>1. log.returned \subseteq Actors
      BY DEF TypeOK, Logs
    <3> QED BY <3>1
  <2>2. [info[p] EXCEPT !.result = TRUE] \in Infos
    BY <1>1 DEF Infos
  <2> QED BY <1>1, <2>1, <2>2, PlaceNames DEF Return, Goto, Set, TypeOK, Logs
<1>3. Tells(p)'
  <2>1. pc'[p] = "exit" /\ info'[p] = [info[p] EXCEPT !.result = TRUE] /\ p \in log'.returned
    BY <1>1 DEF Return, Goto, Set, TypeOK
  <2>2. p \in Threads => ~info[p].exiting
    BY <1>1 DEF Return, CallTells, At, Disposal
  <2>3. p # Main /\ pc[p] = "body" /\ os' = os /\ loc' = loc
    BY DEF Return
  <2> QED BY <1>1, <2>1, <2>2, <2>3 DEF Tells, LispTells, ForeignTells, Infos, Threads, Starting,
     Working, Dying, Finished, Final, Disposal
<1>4. p \in Threads => CallTells(p)'
  BY <1>1 DEF Return, Goto, Set, CallTells, At, IsMaking, Does, Begun, Arg, Infos, Locals,
     Starting,
     Working, Dying, Finished, Final, Disposal, Making, Creating
<1>5. Quiet(p, p, "exit") /\ "exit" \in Places
  BY <1>1, PlaceNames DEF Return, Goto, Set, Quiet, Tells, LispTells, MainTells, ForeignTells,
     Begun,
     CallsTell, Infos, Starting, Working, Dying, Finished, Final, Disposal, Making, Creating
<1> QED BY <1>2, <1>3, <1>4, <1>5, QuietKeeps

\* JOIN-THREAD on oneself is an error and changes nothing.
LEMMA JoinSelfKeeps ==
  ASSUME IInv, NEW p \in Actors, JoinSelf(p)
  PROVE  IInv'
<1> USE ThreadsAssumption DEF IInv
<1>1. /\ Tells(p) /\ (p \in Threads => CallTells(p)) /\ p \in Lisp \cup {Main} \cup Foreign
      /\ pc \in [Actors -> Places] /\ info \in [Actors -> Infos] /\ info[p] \in Infos
      /\ loc \in [Actors -> Locals] /\ loc[p] \in Locals /\ left \in [Actors -> Seq(Calling)]
      /\ os \in [Actors -> {"none", "live", "exited", "joined"}]
  BY DEF PlacesTell, CallsTell, TypeOK, Threads, Actors
<1>2. TypeOK'
  BY <1>1, PlaceNames, ScriptTypes, SeqFacts DEF JoinSelf, Goto, Calls, Done, Arg, TypeOK
<1>3. Tells(p)'
  BY <1>1 DEF JoinSelf, Goto, Calls, Done, Arg, Tells, LispTells, MainTells, ForeignTells,
     Infos,
     Starting, Working, Dying, Finished, Final, Disposal, Making, Creating
<1>4. p \in Threads => CallTells(p)'
  BY <1>1 DEF JoinSelf, Goto, Calls, Done, Arg, CallTells, At, IsMaking, Does, Begun, Arg,
     Infos,
     Locals, Starting, Working, Dying, Finished, Final, Disposal, Making, Creating
<1>5. Quiet(p, p, "body") /\ "body" \in Places
  BY <1>1, PlaceNames DEF JoinSelf, Goto, Calls, Done, Arg, Quiet, Tells, LispTells, MainTells,
     ForeignTells, Begun, CallsTell, Infos, Starting, Working, Dying, Finished, Final, Disposal, Making,
     Creating
<1> QED BY <1>2, <1>3, <1>4, <1>5, QuietKeeps

\* JOIN-THREAD reads the semaphore: without one a Lisp thread is done.
LEMMA ReadSemaphoreKeeps ==
  ASSUME IInv, NEW p \in Actors, ReadSemaphore(p)
  PROVE  IInv'
<1> USE ThreadsAssumption DEF IInv
<1>1. /\ Tells(p) /\ (p \in Threads => CallTells(p)) /\ p \in Lisp \cup {Main} \cup Foreign
      /\ pc \in [Actors -> Places] /\ info \in [Actors -> Infos] /\ info[p] \in Infos
      /\ loc \in [Actors -> Locals] /\ loc[p] \in Locals /\ left \in [Actors -> Seq(Calling)]
      /\ os \in [Actors -> {"none", "live", "exited", "joined"}]
  BY DEF PlacesTell, CallsTell, TypeOK, Threads, Actors
<1>2. /\ p \in Threads /\ p \notin Foreign /\ pc'[p] \in {"semwait", "result", "body"} /\ pc[p] = "joining"
      /\ left[p] # << >> /\ Does(p, "join") /\ Begun(Arg(p)) /\ Arg(p) \in Actors /\ Tells(Arg(p))
  <2>1. p \in Threads /\ p \notin Foreign /\ pc'[p] \in {"semwait", "result", "body"} /\ pc[p] = "joining"
    BY <1>1 DEF ReadSemaphore, Goto, Done, Tells, ForeignTells, Threads
  <2>2. left[p] # << >> /\ Does(p, "join") /\ Begun(Arg(p))
    BY <1>1, <2>1 DEF CallTells, At, Does
  <2> QED BY <2>1, <2>2, ScriptTypes DEF PlacesTell
<1>3. TypeOK'
  <2>1. pc' \in [Actors -> Places]
    BY <1>1, PlaceNames DEF ReadSemaphore, Goto, Done
  <2>2. left' = left \/ left' = [left EXCEPT ![p] = Tail(@)]
    BY DEF ReadSemaphore, Goto, Done
  <2>3. [left EXCEPT ![p] = Tail(@)] \in [Actors -> Seq(Calling)]
    BY <1>2, ScriptTypes
  <2>4. left' \in [Actors -> Seq(Calling)]
    BY <1>1, <2>2, <2>3
  <2> QED BY <2>1, <2>4 DEF ReadSemaphore, TypeOK
<1>4. Tells(p)'
  BY <1>1 DEF ReadSemaphore, Goto, Done, Tells, LispTells, MainTells, ForeignTells, Infos,
     Starting,
     Working, Dying, Finished, Final, Disposal, Making, Creating
<1>5. p \in Threads => CallTells(p)'
  <2>1. pc'[p] = "body" \/ left' = left
    BY <1>1 DEF ReadSemaphore, Goto, Done
  <2>2. pc'[p] = "result" => Arg(p) \in Lisp /\ pc[Arg(p)] \in Final
    BY <1>1, <1>2 DEF ReadSemaphore, Goto, Done, Tells, LispTells, MainTells, Begun, Actors,
       Threads
  <2>3. pc'[p] # "body" => Arg(p)' = Arg(p) /\ Does(p, "join")' /\ Begun(Arg(p))'
    BY <1>1, <1>2, <2>1 DEF ReadSemaphore, Goto, Done, Arg, Does, Begun, Final
  <2>4. pc'[p] = "result" => Arg(p)' \in Lisp /\ pc'[Arg(p)'] \in Final
    BY <1>1, <1>2, <2>2, <2>3 DEF ReadSemaphore, Goto, Done, Final, Actors, Threads
  <2>5. loc' = loc /\ info' = info
    BY DEF ReadSemaphore
  <2> QED BY <1>1, <1>2, <2>3, <2>4, <2>5 DEF CallTells, At, IsMaking, Disposal, Making, Creating
<1>6. Quiet(p, p, pc'[p]) /\ pc'[p] \in Places
  BY <1>1, <1>2, PlaceNames DEF ReadSemaphore, Goto, Done, Quiet, Begun, CallsTell, Creating,
     Final,
     Finished
<1> QED BY <1>3, <1>4, <1>5, <1>6, QuietKeeps

\* EXIT unwinds the caller.
LEMMA ExitKeeps ==
  ASSUME IInv, NEW p \in Actors, Exit(p)
  PROVE  IInv'
<1> USE ThreadsAssumption DEF IInv
<1>1. /\ Tells(p) /\ (p \in Threads => CallTells(p)) /\ p \in Lisp \cup {Main} \cup Foreign
      /\ pc \in [Actors -> Places] /\ info \in [Actors -> Infos] /\ info[p] \in Infos
      /\ loc \in [Actors -> Locals] /\ loc[p] \in Locals /\ left \in [Actors -> Seq(Calling)]
      /\ os \in [Actors -> {"none", "live", "exited", "joined"}]
  BY DEF PlacesTell, CallsTell, TypeOK, Threads, Actors
<1>2. p \in Threads /\ p \notin Foreign /\ left[p] # << >> /\ Does(p, "exit") /\ Arg(p) \in Actors /\ pc[p] = "body"
  BY CallersAreLisp DEF Exit, Calls
<1>3. TypeOK'
  BY <1>1, PlaceNames, ScriptTypes, SeqFacts DEF Exit, Goto, Calls, TypeOK
<1>4. Tells(p)'
  BY <1>1, <1>2 DEF Exit, Goto, Tells, LispTells, MainTells, Starting, Working, Dying,
     Finished, Final,
     Disposal, Making
<1>5. p \in Threads => CallTells(p)'
  BY <1>1 DEF Exit, Goto, Calls, CallTells, At, IsMaking, Does, Begun, Arg, Infos, Locals,
     Starting,
     Working, Dying, Finished, Final, Disposal, Making, Creating
<1>6. Quiet(p, p, "exitlock") /\ "exitlock" \in Places
  BY <1>1, PlaceNames DEF Exit, Goto, Calls, Quiet, Tells, LispTells, MainTells, ForeignTells,
     Begun,
     CallsTell, Infos, Starting, Working, Dying, Finished, Final, Disposal, Making, Creating
<1> QED BY <1>3, <1>4, <1>5, <1>6, QuietKeeps

\* EXIT takes *EXIT-LOCK*.
LEMMA GrabExitLockKeeps ==
  ASSUME IInv, NEW p \in Actors, GrabExitLock(p)
  PROVE  IInv'
<1> USE ThreadsAssumption DEF IInv
<1>1. /\ Tells(p) /\ (p \in Threads => CallTells(p)) /\ p \in Lisp \cup {Main} \cup Foreign
      /\ pc \in [Actors -> Places] /\ info \in [Actors -> Infos] /\ info[p] \in Infos
      /\ loc \in [Actors -> Locals] /\ loc[p] \in Locals /\ left \in [Actors -> Seq(Calling)]
      /\ os \in [Actors -> {"none", "live", "exited", "joined"}]
  BY DEF PlacesTell, CallsTell, TypeOK, Threads, Actors
<1>2. TypeOK'
  BY <1>1, PlaceNames, ScriptTypes, SeqFacts DEF GrabExitLock, Goto, Set, TypeOK, Infos
<1>3. Tells(p)'
  BY <1>1 DEF GrabExitLock, Goto, Set, Tells, LispTells, MainTells, ForeignTells, Infos,
     Starting,
     Working, Dying, Finished, Final, Disposal, Making, Creating
<1>4. p \in Threads => CallTells(p)'
  BY <1>1 DEF GrabExitLock, Goto, Set, CallTells, At, IsMaking, Does, Begun, Arg, Infos, Locals,
     Starting, Working, Dying, Finished, Final, Disposal, Making, Creating
<1>5. Quiet(p, p, "exit") /\ "exit" \in Places
  BY <1>1, PlaceNames DEF GrabExitLock, Goto, Set, Quiet, Tells, LispTells, MainTells,
     ForeignTells,
     Begun, CallsTell, Infos, Starting, Working, Dying, Finished, Final, Disposal, Making, Creating
<1> QED BY <1>2, <1>3, <1>4, <1>5, QuietKeeps

\* %EXIT-OTHER-THREADS takes *MAKE-THREAD-LOCK*.
LEMMA ExitOthersKeeps ==
  ASSUME IInv, NEW p \in Actors, ExitOthers(p)
  PROVE  IInv'
<1> USE ThreadsAssumption DEF IInv
<1>1. /\ Tells(p) /\ (p \in Threads => CallTells(p)) /\ p \in Lisp \cup {Main} \cup Foreign
      /\ pc \in [Actors -> Places] /\ info \in [Actors -> Infos] /\ info[p] \in Infos
      /\ loc \in [Actors -> Locals] /\ loc[p] \in Locals /\ left \in [Actors -> Seq(Calling)]
      /\ os \in [Actors -> {"none", "live", "exited", "joined"}]
  BY DEF PlacesTell, CallsTell, TypeOK, Threads, Actors
<1>2. TypeOK'
  BY <1>1, PlaceNames, ScriptTypes, SeqFacts DEF ExitOthers, Goto, TypeOK, Locals
<1>3. Tells(p)'
  BY <1>1 DEF ExitOthers, Goto, Tells, LispTells, MainTells, ForeignTells, Infos, Starting,
     Working,
     Dying, Finished, Final, Disposal, Making, Creating
<1>4. p \in Threads => CallTells(p)'
  BY <1>1 DEF ExitOthers, Goto, CallTells, At, IsMaking, Does, Begun, Arg, Infos, Locals,
     Starting,
     Working, Dying, Finished, Final, Disposal, Making, Creating
<1>5. Quiet(p, p, "dispose") /\ "dispose" \in Places
  BY <1>1, PlaceNames DEF ExitOthers, Goto, Quiet, Tells, LispTells, MainTells, ForeignTells,
     Begun,
     CallsTell, Infos, Starting, Working, Dying, Finished, Final, Disposal, Making, Creating
<1> QED BY <1>2, <1>3, <1>4, <1>5, QuietKeeps

\* EXIT lists the threads to terminate: they have begun.
LEMMA ListThreadsKeeps ==
  ASSUME IInv, NEW p \in Actors, ListThreads(p)
  PROVE  IInv'
<1> USE ThreadsAssumption DEF IInv
<1>1. /\ Tells(p) /\ (p \in Threads => CallTells(p)) /\ p \in Lisp \cup {Main} \cup Foreign
      /\ pc \in [Actors -> Places] /\ info \in [Actors -> Infos] /\ info[p] \in Infos
      /\ loc \in [Actors -> Locals] /\ loc[p] \in Locals /\ left \in [Actors -> Seq(Calling)]
      /\ os \in [Actors -> {"none", "live", "exited", "joined"}]
  BY DEF PlacesTell, CallsTell, TypeOK, Threads, Actors
<1>2. TypeOK'
  BY <1>1, PlaceNames, ScriptTypes, SeqFacts DEF ListThreads, Goto, Visible, TypeOK, Plans
<1>3. Tells(p)'
  BY <1>1 DEF ListThreads, Goto, Visible, Tells, LispTells, MainTells, ForeignTells, Infos,
     Starting,
     Working, Dying, Finished, Final, Disposal, Making, Creating
<1>4. p \in Threads => CallTells(p)'
  BY <1>1 DEF ListThreads, Goto, Visible, CallTells, At, IsMaking, Does, Begun, Arg, Infos,
     Locals,
     Starting, Working, Dying, Finished, Final, Disposal, Making, Creating
<1>5. Quiet(p, p, "xterm") /\ "xterm" \in Places
  <2>1. \A w \in targets'.todo : w \in Actors /\ info[w].visible = 1
    BY DEF ListThreads, Visible
  <2>2. \A w \in targets'.todo : Begun(w)
    BY <2>1 DEF PlacesTell, Tells, LispTells, Begun
  <2> QED BY <1>1, <2>2, PlaceNames DEF ListThreads, Goto, Quiet, Tells, ForeignTells, Begun, Creating,
     Final, Finished
<1> QED BY <1>2, <1>3, <1>4, <1>5, QuietKeeps

\* EXIT has told all of them.
LEMMA TerminatedKeeps ==
  ASSUME IInv, NEW p \in Actors, Terminated(p)
  PROVE  IInv'
<1> USE ThreadsAssumption DEF IInv
<1>1. /\ Tells(p) /\ (p \in Threads => CallTells(p)) /\ p \in Lisp \cup {Main} \cup Foreign
      /\ pc \in [Actors -> Places] /\ info \in [Actors -> Infos] /\ info[p] \in Infos
      /\ loc \in [Actors -> Locals] /\ loc[p] \in Locals /\ left \in [Actors -> Seq(Calling)]
      /\ os \in [Actors -> {"none", "live", "exited", "joined"}]
  BY DEF PlacesTell, CallsTell, TypeOK, Threads, Actors
<1>2. TypeOK'
  BY <1>1, PlaceNames, ScriptTypes, SeqFacts DEF Terminated, Goto, TypeOK
<1>3. Tells(p)'
  BY <1>1 DEF Terminated, Goto, Tells, LispTells, MainTells, ForeignTells, Infos, Starting,
     Working,
     Dying, Finished, Final, Disposal, Making, Creating
<1>4. p \in Threads => CallTells(p)'
  BY <1>1 DEF Terminated, Goto, CallTells, At, IsMaking, Does, Begun, Arg, Infos, Locals,
     Starting,
     Working, Dying, Finished, Final, Disposal, Making, Creating
<1>5. Quiet(p, p, "xjoin") /\ "xjoin" \in Places
  BY <1>1, PlaceNames DEF Terminated, Goto, Quiet, Tells, LispTells, MainTells, ForeignTells,
     Begun,
     CallsTell, Infos, Starting, Working, Dying, Finished, Final, Disposal, Making, Creating
<1> QED BY <1>2, <1>3, <1>4, <1>5, QuietKeeps

\* EXIT joins one of them, or gives up.
LEMMA JoinOneKeeps ==
  ASSUME IInv, NEW p \in Actors, JoinOne(p)
  PROVE  IInv'
<1> USE ThreadsAssumption DEF IInv
<1>1. /\ Tells(p) /\ (p \in Threads => CallTells(p)) /\ p \in Lisp \cup {Main} \cup Foreign
      /\ pc \in [Actors -> Places] /\ info \in [Actors -> Infos] /\ info[p] \in Infos
      /\ loc \in [Actors -> Locals] /\ loc[p] \in Locals /\ left \in [Actors -> Seq(Calling)]
      /\ os \in [Actors -> {"none", "live", "exited", "joined"}]
  BY DEF PlacesTell, CallsTell, TypeOK, Threads, Actors
<1>2. TypeOK'
  <2>1. PICK w \in targets.join : targets' = [targets EXCEPT !.join = @ \ {w}]
    BY DEF JoinOne
  <2>2. targets' \in Plans
    BY <2>1 DEF TypeOK, Plans
  <2> QED BY <1>1, <2>2, PlaceNames DEF JoinOne, Goto, TypeOK
<1>3. Tells(p)'
  BY <1>1 DEF JoinOne, Goto, Tells, LispTells, MainTells, ForeignTells, Infos, Starting,
     Working, Dying,
     Finished, Final, Disposal, Making, Creating
<1>4. p \in Threads => CallTells(p)'
  BY <1>1 DEF JoinOne, Goto, CallTells, At, IsMaking, Does, Begun, Arg, Infos, Locals, Starting,
     Working, Dying, Finished, Final, Disposal, Making, Creating
<1>5. Quiet(p, p, "xjoin") /\ "xjoin" \in Places
  BY <1>1, PlaceNames DEF JoinOne, Goto, Quiet, Tells, LispTells, MainTells, ForeignTells,
     Begun,
     CallsTell, Infos, Starting, Working, Dying, Finished, Final, Disposal, Making, Creating
<1> QED BY <1>2, <1>3, <1>4, <1>5, QuietKeeps

\* The process ends.
LEMMA OsExitKeeps ==
  ASSUME IInv, NEW p \in Actors, OsExit(p)
  PROVE  IInv'
<1> USE ThreadsAssumption DEF IInv
<1>1. /\ Tells(p) /\ (p \in Threads => CallTells(p)) /\ p \in Lisp \cup {Main} \cup Foreign
      /\ pc \in [Actors -> Places] /\ info \in [Actors -> Infos] /\ info[p] \in Infos
      /\ loc \in [Actors -> Locals] /\ loc[p] \in Locals /\ left \in [Actors -> Seq(Calling)]
      /\ os \in [Actors -> {"none", "live", "exited", "joined"}]
  BY DEF PlacesTell, CallsTell, TypeOK, Threads, Actors
<1>2. TypeOK'
  BY <1>1, PlaceNames, ScriptTypes, SeqFacts DEF OsExit, Goto, TypeOK, Logs
<1>3. Tells(p)'
  BY <1>1 DEF OsExit, Goto, Tells, LispTells, MainTells, ForeignTells, Infos, Starting,
     Working, Dying,
     Finished, Final, Disposal, Making, Creating
<1>4. p \in Threads => CallTells(p)'
  BY <1>1 DEF OsExit, Goto, CallTells, At, IsMaking, Does, Begun, Arg, Infos, Locals,
     Starting, Working,
     Dying, Finished, Final, Disposal, Making, Creating
<1>5. Quiet(p, p, "over") /\ "over" \in Places
  BY <1>1, PlaceNames DEF OsExit, Goto, Quiet, Tells, LispTells, MainTells, ForeignTells, Begun,
     CallsTell, Infos, Starting, Working, Dying, Finished, Final, Disposal, Making, Creating
<1> QED BY <1>2, <1>3, <1>4, <1>5, QuietKeeps

\* DEINIT takes *MAKE-THREAD-LOCK*.
LEMMA DeinitKeeps ==
  ASSUME IInv, NEW p \in Actors, Deinit(p)
  PROVE  IInv'
<1> USE ThreadsAssumption DEF IInv
<1>1. /\ Tells(p) /\ (p \in Threads => CallTells(p)) /\ p \in Lisp \cup {Main} \cup Foreign
      /\ pc \in [Actors -> Places] /\ info \in [Actors -> Infos] /\ info[p] \in Infos
      /\ loc \in [Actors -> Locals] /\ loc[p] \in Locals /\ left \in [Actors -> Seq(Calling)]
      /\ os \in [Actors -> {"none", "live", "exited", "joined"}]
  BY DEF PlacesTell, CallsTell, TypeOK, Threads, Actors
<1>2. p \in Threads /\ p \notin Foreign /\ left[p] # << >> /\ Does(p, "save") /\ Arg(p) \in Actors /\ pc[p] = "body"
  BY CallersAreLisp DEF Deinit, Calls
<1>3. TypeOK'
  BY <1>1, PlaceNames, ScriptTypes, SeqFacts DEF Deinit, Goto, Calls, TypeOK, Locals
<1>4. Tells(p)'
  BY <1>1, <1>2 DEF Deinit, Goto, Tells, LispTells, MainTells, Starting, Working, Dying,
     Finished,
     Final, Disposal, Making
<1>5. p \in Threads => CallTells(p)'
  BY <1>1 DEF Deinit, Goto, Calls, CallTells, At, IsMaking, Does, Begun, Arg, Infos, Locals,
     Starting,
     Working, Dying, Finished, Final, Disposal, Making, Creating
<1>6. Quiet(p, p, "dispose") /\ "dispose" \in Places
  BY <1>1, PlaceNames DEF Deinit, Goto, Calls, Quiet, Tells, LispTells, MainTells,
     ForeignTells, Begun,
     CallsTell, Infos, Starting, Working, Dying, Finished, Final, Disposal, Making, Creating
<1> QED BY <1>3, <1>4, <1>5, <1>6, QuietKeeps

\* DEINIT looks for other threads.
LEMMA DeinitThreadsKeeps ==
  ASSUME IInv, NEW p \in Actors, DeinitThreads(p)
  PROVE  IInv'
<1> USE ThreadsAssumption DEF IInv
<1>1. /\ Tells(p) /\ (p \in Threads => CallTells(p)) /\ p \in Lisp \cup {Main} \cup Foreign
      /\ pc \in [Actors -> Places] /\ info \in [Actors -> Infos] /\ info[p] \in Infos
      /\ loc \in [Actors -> Locals] /\ loc[p] \in Locals /\ left \in [Actors -> Seq(Calling)]
      /\ os \in [Actors -> {"none", "live", "exited", "joined"}]
  BY DEF PlacesTell, CallsTell, TypeOK, Threads, Actors
<1>2. p \in Threads /\ p \notin Foreign /\ left[p] # << >> /\ pc[p] = "census"
  BY <1>1 DEF DeinitThreads, Tells, ForeignTells, CallTells, At, Does, Threads
<1>3. TypeOK'
  <2>1. pc' \in [Actors -> Places]
    BY <1>1, PlaceNames DEF DeinitThreads, Goto, Done
  <2>2. left' = left \/ left' = [left EXCEPT ![p] = Tail(@)]
    BY DEF DeinitThreads, Goto, Done
  <2>3. [left EXCEPT ![p] = Tail(@)] \in [Actors -> Seq(Calling)]
    BY <1>2, ScriptTypes
  <2>4. left' \in [Actors -> Seq(Calling)]
    BY <1>1, <2>2, <2>3
  <2> QED BY <2>1, <2>4 DEF DeinitThreads, TypeOK
<1>4. Tells(p)'
  BY <1>1 DEF DeinitThreads, Goto, Done, Tells, LispTells, MainTells, ForeignTells, Infos,
     Starting,
     Working, Dying, Finished, Final, Disposal, Making, Creating
<1>5. p \in Threads => CallTells(p)'
  <2>1. loc' = loc /\ info' = info /\ pc'[p] \in {"census2", "body"} /\ (pc'[p] = "census2" => left' = left)
    BY <1>1 DEF DeinitThreads, Goto, Done
  <2>2. Does(p, "save")
    BY <1>1, <1>2 DEF CallTells, At
  <2> QED BY <1>1, <1>2, <2>1, <2>2 DEF CallTells, At, IsMaking, Does, Disposal, Making, Creating
<1>6. Quiet(p, p, pc'[p]) /\ pc'[p] \in Places
  <2>1. pc'[p] \in {"census2", "body"}
    BY <1>1 DEF DeinitThreads, Goto, Done
  <2> QED BY <1>1, <1>2, <2>1, PlaceNames DEF DeinitThreads, Goto, Done, Quiet, Begun, CallsTell,
     Creating, Final, Finished
<1> QED BY <1>3, <1>4, <1>5, <1>6, QuietKeeps

\* DEINIT looks for threads that are not joined.
LEMMA DeinitJoinableKeeps ==
  ASSUME IInv, NEW p \in Actors, DeinitJoinable(p)
  PROVE  IInv'
<1> USE ThreadsAssumption DEF IInv
<1>1. /\ Tells(p) /\ (p \in Threads => CallTells(p)) /\ p \in Lisp \cup {Main} \cup Foreign
      /\ pc \in [Actors -> Places] /\ info \in [Actors -> Infos] /\ info[p] \in Infos
      /\ loc \in [Actors -> Locals] /\ loc[p] \in Locals /\ left \in [Actors -> Seq(Calling)]
      /\ os \in [Actors -> {"none", "live", "exited", "joined"}]
  BY DEF PlacesTell, CallsTell, TypeOK, Threads, Actors
<1>2. p \in Threads /\ p \notin Foreign /\ left[p] # << >> /\ pc[p] = "census2"
  BY <1>1 DEF DeinitJoinable, Tells, ForeignTells, CallTells, At, Does, Threads
<1>3. TypeOK'
  BY <1>1, <1>2, PlaceNames, ScriptTypes DEF DeinitJoinable, Goto, Done, TypeOK, Logs
<1>4. Tells(p)'
  BY <1>1 DEF DeinitJoinable, Goto, Done, Tells, LispTells, MainTells, ForeignTells, Infos,
     Starting,
     Working, Dying, Finished, Final, Disposal, Making, Creating
<1>5. p \in Threads => CallTells(p)'
  BY <1>1 DEF DeinitJoinable, Goto, Done, CallTells, At, IsMaking, Does, Begun, Arg, Infos,
     Locals,
     Starting, Working, Dying, Finished, Final, Disposal, Making, Creating
<1>6. Quiet(p, p, "body") /\ "body" \in Places
  BY <1>1, PlaceNames DEF DeinitJoinable, Goto, Done, Quiet, Tells, LispTells, MainTells,
     ForeignTells,
     Begun, CallsTell, Infos, Starting, Working, Dying, Finished, Final, Disposal, Making, Creating
<1> QED BY <1>3, <1>4, <1>5, <1>6, QuietKeeps

\* JOIN-THREAD is called, by a thread or by EXIT.
LEMMA JoinThreadKeeps ==
  ASSUME IInv, NEW p \in Actors, JoinThread(p)
  PROVE  IInv'
<1> USE ThreadsAssumption DEF IInv
<1>1. /\ Tells(p) /\ (p \in Threads => CallTells(p)) /\ p \in Lisp \cup {Main} \cup Foreign
      /\ pc \in [Actors -> Places] /\ info \in [Actors -> Infos] /\ info[p] \in Infos
      /\ loc \in [Actors -> Locals] /\ loc[p] \in Locals /\ left \in [Actors -> Seq(Calling)]
      /\ os \in [Actors -> {"none", "live", "exited", "joined"}]
  BY DEF PlacesTell, CallsTell, TypeOK, Threads, Actors
<1>2. /\ p \in Threads /\ p \notin Foreign /\ pc'[p] \in {"dispose", loc'[p].then}
      /\ \/ pc[p] = "body" /\ loc'[p].then = "joining" /\ left[p] # << >> /\ Does(p, "join") /\ Begun(Arg(p))
         \/ pc[p] = "xjoin" /\ loc'[p].then = "xread"
      /\ loc'[p].corpse = loc[p].corpse /\ loc'[p].reuse = loc[p].reuse /\ loc'[p].keep = loc[p].keep
      /\ loc'[p].hand = loc[p].hand
      /\ \A q \in Actors \ {p} : loc'[q] = loc[q]
  <2>1. CASE Calls(p, "join") /\ Known(Arg(p)) /\ Arg(p) # p /\ loc' = [loc EXCEPT ![p].then = "joining"]
    <3>1. p \in Threads /\ p \notin Foreign /\ left[p] # << >> /\ Does(p, "join") /\ Arg(p) \in Actors
      BY <2>1, CallersAreLisp
    <3>2. Begun(Arg(p))
      BY <2>1, <3>1 DEF Known, PlacesTell, Tells, LispTells, Begun
    <3> QED BY <1>1, <2>1, <3>1, <3>2 DEF JoinThread, Goto, Calls, Locals
  <2>2. CASE pc[p] = "xjoin" /\ targets.join # {} /\ loc' = [loc EXCEPT ![p].then = "xread"]
    <3>1. p \in Threads /\ p \notin Foreign
      BY <1>1, <2>2 DEF Tells, ForeignTells, Threads
    <3> QED BY <1>1, <2>2, <3>1 DEF JoinThread, Goto, Locals
  <2> QED BY <2>1, <2>2 DEF JoinThread
<1>3. TypeOK'
  <2>1. pc' \in [Actors -> Places]
    BY <1>1, <1>2, PlaceNames DEF JoinThread, Goto
  <2>2. PICK x \in {"joining", "xread"} : loc' = [loc EXCEPT ![p].then = x]
    BY DEF JoinThread
  <2>3. loc' \in [Actors -> Locals]
    BY <1>1, <2>2 DEF Locals
  <2> QED BY <2>1, <2>3 DEF JoinThread, TypeOK
<1>4. Tells(p)'
  BY <1>1, <1>2 DEF JoinThread, Tells, LispTells, MainTells, Starting, Working, Dying,
     Finished, Final,
     Disposal
<1>5. p \in Threads => CallTells(p)'
  <2>1. left' = left /\ info' = info
    BY DEF JoinThread
  <2>2. pc[p] = "body" => Does(p, "join")' /\ Begun(Arg(p))'
    BY <1>1, <1>2, <2>1 DEF JoinThread, Goto, Arg, Does, Begun
  <2>3. CASE pc[p] = "body"
    BY <1>1, <1>2, <2>1, <2>2, <2>3 DEF CallTells, At, IsMaking, Disposal, Making, Creating
  <2>4. CASE pc[p] = "xjoin"
    BY <1>1, <1>2, <2>1, <2>4 DEF CallTells, At, IsMaking, Disposal, Making, Creating
  <2> QED BY <1>2, <2>3, <2>4
<1>6. Quiet(p, p, pc'[p]) /\ pc'[p] \in Places
  BY <1>1, <1>2, PlaceNames DEF JoinThread, Goto, Quiet, Begun, CallsTell, Creating, Final,
     Finished
<1> QED BY <1>3, <1>4, <1>5, <1>6, QuietKeeps

\* JOIN-THREAD gets the semaphore: the thread has signalled, so it is done.
LEMMA WaitOnSemaphoreKeeps ==
  ASSUME IInv, NEW p \in Actors, WaitOnSemaphore(p)
  PROVE  IInv'
<1> USE ThreadsAssumption DEF IInv
<1>1. /\ Tells(p) /\ (p \in Threads => CallTells(p)) /\ p \in Lisp \cup {Main} \cup Foreign
      /\ pc \in [Actors -> Places] /\ info \in [Actors -> Infos] /\ info[p] \in Infos
      /\ loc \in [Actors -> Locals] /\ loc[p] \in Locals /\ left \in [Actors -> Seq(Calling)]
      /\ os \in [Actors -> {"none", "live", "exited", "joined"}]
  BY DEF PlacesTell, CallsTell, TypeOK, Threads, Actors
<1>2. /\ p \in Threads /\ p \notin Foreign /\ left[p] # << >> /\ Does(p, "join") /\ Begun(Arg(p))
      /\ Arg(p) \in Lisp /\ pc[Arg(p)] \in Final /\ pc'[Arg(p)] \in Final /\ pc[p] = "semwait"
  <2>1. p \in Threads /\ p \notin Foreign /\ pc[p] = "semwait"
    BY <1>1 DEF WaitOnSemaphore, Tells, ForeignTells, Threads
  <2>2. left[p] # << >> /\ Does(p, "join") /\ Begun(Arg(p))
    BY <1>1, <2>1 DEF CallTells, At, Does
  <2>3. Arg(p) \in Actors
    BY <2>2, ScriptTypes
  <2>4. Tells(Arg(p)) /\ info[Arg(p)].posted
    BY <2>3 DEF PlacesTell, WaitOnSemaphore
  <2>5. Arg(p) \in Lisp /\ pc[Arg(p)] \in Final
    BY <2>3, <2>4 DEF Tells, LispTells, MainTells, ForeignTells, Actors, Threads
  <2>6. Arg(p) # p
    BY <2>1, <2>5 DEF Final
  <2>7. pc'[Arg(p)] = pc[Arg(p)]
    BY <1>1, <2>3, <2>6 DEF WaitOnSemaphore, Goto
  <2> QED BY <2>1, <2>2, <2>5, <2>7
<1>3. TypeOK'
  BY <1>1, PlaceNames, ScriptTypes, SeqFacts DEF WaitOnSemaphore, Goto, TypeOK
<1>4. Tells(p)'
  BY <1>1 DEF WaitOnSemaphore, Goto, Tells, LispTells, MainTells, ForeignTells, Infos, Starting,
     Working, Dying, Finished, Final, Disposal, Making, Creating
<1>5. p \in Threads => CallTells(p)'
  <2>1. pc'[p] = "result" /\ left' = left /\ info' = info /\ loc' = loc
    BY <1>1 DEF WaitOnSemaphore, Goto
  <2>2. Arg(p)' = Arg(p) /\ Does(p, "join")' /\ Begun(Arg(p))'
    BY <1>2, <2>1 DEF Arg, Does, Begun, Final
  <2> QED BY <1>1, <1>2, <2>1, <2>2 DEF CallTells, At, IsMaking, Disposal, Making, Creating
<1>6. Quiet(p, p, "result") /\ "result" \in Places
  BY <1>1, PlaceNames DEF WaitOnSemaphore, Goto, Quiet, Tells, LispTells, MainTells,
     ForeignTells,
     Begun, CallsTell, Infos, Starting, Working, Dying, Finished, Final, Disposal, Making, Creating
<1> QED BY <1>3, <1>4, <1>5, <1>6, QuietKeeps

-----------------------------------------------------------------------------
(* Interruptions.                                                          *)

\* An interruption is queued for a thread that runs, and nothing but its queue changes.
LEMMA Delivered ==
  ASSUME IInv, NEW t \in Actors, NEW kind \in {"nop", "abort", "end"}, Begun(t), Deliver(t, kind)
  PROVE  /\ log' = log /\ info' \in [Actors -> Infos] /\ \A w \in Actors \ {t} : info'[w] = info[w]
         /\ info'[t].visible = info[t].visible /\ info'[t].prim = info[t].prim /\ info'[t].stash = info[t].stash
         /\ info'[t].th = info[t].th /\ info'[t].sem = info[t].sem /\ info'[t].posted = info[t].posted
         /\ info'[t].result = info[t].result /\ info'[t].exiting = info[t].exiting
         /\ info'[t].sigurg => info'[t].ints # << >>
<1> USE ThreadsAssumption DEF IInv
<1>1. Tells(t) /\ info \in [Actors -> Infos] /\ info[t] \in Infos
  BY DEF PlacesTell, TypeOK
<1>2. info[t].prim # 0 => os[t] = "live"
  BY <1>1 DEF Begun, Tells, LispTells, MainTells, ForeignTells, Actors, Threads
<1>3. CASE info[t].prim = 0
  BY <1>1, <1>3 DEF Deliver, Tells
<1>4. CASE info[t].prim # 0
  <2>1. info[t].ints \in Seq({"nop", "abort", "end"})
    BY <1>1 DEF Infos
  <2>2. Append(info[t].ints, kind) \in Seq({"nop", "abort", "end"}) /\ Append(info[t].ints, kind) # << >>
    BY <2>1, SeqFacts
  <2>3. info' = [info EXCEPT ![t] = [info[t] EXCEPT !.ints = Append(@, kind), !.sigurg = TRUE]] /\ log' = log
    BY <1>2, <1>4 DEF Deliver, Set, Blame
  <2> QED BY <1>1, <2>2, <2>3 DEF Infos
<1> QED BY <1>3, <1>4

\* An interruption leaves the instance of its target fit for its place.
LEMMA DeliveredTells ==
  ASSUME IInv, NEW t \in Actors, NEW kind \in {"nop", "abort", "end"}, Begun(t), Deliver(t, kind),
         pc'[t] = pc[t], os' = os, loc' = loc
  PROVE  Tells(t)'
<1> USE DEF IInv
<1>1. Tells(t)
  BY DEF PlacesTell
<1>2. LispTells(t) => LispTells(t)'
  BY Delivered DEF LispTells
<1>3. t = Main /\ MainTells => MainTells'
  BY Delivered DEF MainTells
<1>4. ForeignTells(t) => ForeignTells(t)'
  BY Delivered DEF ForeignTells
<1> QED BY <1>1, <1>2, <1>3, <1>4, Delivered DEF Tells

\* INTERRUPT-THREAD and TERMINATE-THREAD: who is alive has an OS thread.
LEMMA InterruptThreadKeeps ==
  ASSUME IInv, NEW p \in Actors, InterruptThread(p)
  PROVE  IInv'
<1> USE ThreadsAssumption DEF IInv
<1>1. /\ Tells(p) /\ (p \in Threads => CallTells(p)) /\ p \in Lisp \cup {Main} \cup Foreign
      /\ pc \in [Actors -> Places] /\ left \in [Actors -> Seq(Calling)]
  BY DEF PlacesTell, CallsTell, TypeOK, Threads, Actors
<1>2. PICK u : u = Arg(p)
  OBVIOUS
<1>3. PICK kind \in {"nop", "abort"} : Deliver(u, kind)
  BY <1>2 DEF InterruptThread
<1>4. p \in Threads /\ p \notin Foreign /\ left[p] # << >> /\ u \in Actors /\ pc[p] = "body" /\ Known(u)
  BY <1>2, CallersAreLisp DEF InterruptThread
<1>5. Begun(u)
  BY <1>4 DEF Known, PlacesTell, Tells, LispTells, Begun
<1>6. /\ log' = log /\ info' \in [Actors -> Infos] /\ \A w \in Actors \ {u} : info'[w] = info[w]
      /\ info'[u].prim = info[u].prim /\ info'[u].stash = info[u].stash /\ info'[u].th = info[u].th
      /\ info'[u].result = info[u].result /\ info'[u].exiting = info[u].exiting
  BY <1>3, <1>4, <1>5, Delivered
<1>7. pc' = [pc EXCEPT ![p] = "body"] /\ pc' = pc /\ left' = [left EXCEPT ![p] = Tail(@)] /\ os' = os /\ loc' = loc
  BY <1>1, <1>4 DEF InterruptThread, Done, Goto
<1>8. TypeOK'
  <2>1. left' \in [Actors -> Seq(Calling)]
    BY <1>4, <1>7, ScriptTypes
  <2> QED BY <1>6, <1>7, <2>1 DEF InterruptThread, TypeOK
<1>9. Tells(u)'
  BY <1>3, <1>4, <1>5, <1>7, DeliveredTells
<1>10. Tells(p)'
  BY <1>1, <1>6, <1>7, <1>9, RestTells DEF Rests
<1>11. CallTells(p)'
  BY <1>1, <1>4, <1>6, <1>7 DEF CallTells, At, IsMaking, Disposal, Making, Creating
<1>12. Quiet(p, u, "body")
  BY <1>1, <1>4, <1>5, <1>6, <1>7 DEF InterruptThread, Quiet, CallsTell, Creating, Final,
     Finished
<1> QED BY <1>4, <1>8, <1>9, <1>10, <1>11, <1>12, PlaceNames, QuietKeeps

\* EXIT terminates one of the others.
LEMMA TerminateOneKeeps ==
  ASSUME IInv, NEW p \in Actors, TerminateOne(p)
  PROVE  IInv'
<1> USE ThreadsAssumption DEF IInv
<1>1. /\ Tells(p) /\ (p \in Threads => CallTells(p)) /\ p \in Lisp \cup {Main} \cup Foreign
      /\ pc \in [Actors -> Places] /\ targets \in Plans
  BY DEF PlacesTell, CallsTell, TypeOK, Threads, Actors
<1>2. PICK u \in targets.todo :
        /\ Deliver(u, "abort")
        /\ targets' = [todo |-> targets.todo \ {u},
                       join |-> IF info[u].prim = 0 THEN targets.join ELSE targets.join \cup {u}]
  BY DEF TerminateOne
<1>3. p \in Threads /\ p \notin Foreign /\ u \in Actors /\ pc[p] = "xterm"
  BY <1>1 DEF TerminateOne, Tells, ForeignTells, Threads, Plans
<1>4. Begun(u)
  BY DEF CallsTell
<1>5. /\ log' = log /\ info' \in [Actors -> Infos] /\ \A w \in Actors \ {u} : info'[w] = info[w]
      /\ info'[u].prim = info[u].prim /\ info'[u].stash = info[u].stash /\ info'[u].th = info[u].th
      /\ info'[u].result = info[u].result /\ info'[u].exiting = info[u].exiting
  BY <1>2, <1>3, <1>4, Delivered
<1>6. pc' = [pc EXCEPT ![p] = "xterm"] /\ pc' = pc /\ left' = left /\ os' = os /\ loc' = loc
  BY <1>1, <1>3 DEF TerminateOne
<1>7. TypeOK'
  <2>1. targets.join \cup {u} \subseteq Actors /\ targets.todo \subseteq Actors /\ targets.join \subseteq Actors
    BY <1>1, <1>3 DEF Plans
  <2>2. targets' \in Plans
    BY <1>2, <2>1 DEF Plans
  <2> QED BY <1>5, <1>6, <2>2 DEF TerminateOne, TypeOK
<1>8. Tells(u)'
  BY <1>2, <1>3, <1>4, <1>6, DeliveredTells
<1>9. Tells(p)'
  BY <1>1, <1>5, <1>6, <1>8, RestTells DEF Rests
<1>10. CallTells(p)'
  BY <1>1, <1>3, <1>5, <1>6 DEF CallTells, At, IsMaking, Disposal, Making, Creating
<1>11. Quiet(p, u, "xterm")
  <2>1. \A w \in targets'.todo : Begun(w)
    BY <1>2 DEF CallsTell
  <2> QED BY <1>1, <1>3, <1>4, <1>5, <1>6, <2>1 DEF TerminateOne, Quiet, Creating, Final, Finished
<1> QED BY <1>3, <1>7, <1>8, <1>9, <1>10, <1>11, PlaceNames, QuietKeeps

\* EXIT interrupts the main thread.
LEMMA InterruptMainKeeps ==
  ASSUME IInv, NEW p \in Actors, InterruptMain(p)
  PROVE  IInv'
<1> USE ThreadsAssumption DEF IInv
<1>1. /\ Tells(p) /\ (p \in Threads => CallTells(p)) /\ p \in Lisp \cup {Main} \cup Foreign
      /\ pc \in [Actors -> Places] /\ info \in [Actors -> Infos] /\ Main \in Actors
  BY DEF PlacesTell, CallsTell, TypeOK, Threads, Actors
<1>2. p \in Threads /\ p \notin Foreign /\ pc[p] = "xjoin" /\ Begun(Main)
  BY <1>1 DEF InterruptMain, Tells, ForeignTells, Threads, Begun
<1>3. pc' = [pc EXCEPT ![p] = "xmain"] /\ left' = left /\ os' = os /\ loc' = loc /\ reg' = reg /\ mem' = mem
      /\ targets' = targets
  BY DEF InterruptMain, Goto
<1>4. /\ info' \in [Actors -> Infos] /\ \A w \in Actors \ {Main} : info'[w] = info[w]
      /\ info'[Main].prim = info[Main].prim /\ info'[Main].stash = info[Main].stash
      /\ info'[Main].th = info[Main].th /\ info'[Main].result = info[Main].result
      /\ info'[Main].exiting = info[Main].exiting
      /\ log' = log \/ log' = [log EXCEPT !.over = "exit"]
  BY <1>1, <1>2, Delivered DEF InterruptMain
<1>5. log'.returned = log.returned /\ log'.got = log.got /\ log'.bad = log.bad /\ log' \in Logs
  <2>1. log \in Logs
    BY DEF TypeOK
  <2>2. CASE log' = [log EXCEPT !.over = "exit"]
    BY <2>1, <2>2 DEF Logs
  <2> QED BY <1>4, <2>1, <2>2
<1>6. TypeOK'
  BY <1>3, <1>4, <1>5, PlaceNames DEF TypeOK
<1>7. Tells(Main)'
  <2>1. CASE p = Main
    BY <1>1, <1>2, <1>3, <2>1 DEF InterruptMain, Tells, MainTells, Working
  <2>2. CASE p # Main
    BY <1>1, <1>2, <1>3, <2>2, DeliveredTells DEF InterruptMain
  <2> QED BY <2>1, <2>2
<1>8. Tells(p)'
  <2>1. CASE p # Main
    BY <1>1, <1>2, <1>3, <1>4, <1>5, <2>1 DEF Tells, LispTells, Threads, Starting, Working,
       Dying,
       Finished, Final, Disposal, Making
  <2> QED BY <1>7, <2>1
<1>9. CallTells(p)'
  BY <1>1, <1>2, <1>3, <1>4 DEF CallTells, At, IsMaking, Disposal, Making, Creating
<1>10. Quiet(p, Main, "xmain")
  BY <1>1, <1>2, <1>3, <1>4, <1>5 DEF Quiet, CallsTell, Creating, Final, Finished
<1> QED BY <1>1, <1>2, <1>6, <1>7, <1>8, <1>9, <1>10, PlaceNames, QuietKeeps

\* RUN-INTERRUPTION, with the unwinding by ABORT-THREAD.
LEMMA RunInterruptionKeeps ==
  ASSUME IInv, NEW p \in Actors, RunInterruption(p)
  PROVE  IInv'
<1> USE ThreadsAssumption DEF IInv
<1>1. /\ Tells(p) /\ (p \in Threads => CallTells(p)) /\ p \in Lisp \cup {Main} \cup Foreign
      /\ pc \in [Actors -> Places] /\ info \in [Actors -> Infos] /\ info[p] \in Infos
      /\ left \in [Actors -> Seq(Calling)]
  BY DEF PlacesTell, CallsTell, TypeOK, Threads, Actors
<1> DEFINE kind == Head(info[p].ints)
<1>2. info[p].ints \in Seq({"nop", "abort", "end"}) /\ info[p].ints # << >>
  BY <1>1 DEF RunInterruption, Tells, Infos
<1>3. kind \in {"nop", "abort", "end"} /\ Tail(info[p].ints) \in Seq({"nop", "abort", "end"})
  BY <1>2
<1>4. info' = [info EXCEPT ![p] = [info[p] EXCEPT !.ints = Tail(@), !.sigurg = Tail(info[p].ints) # << >>]]
  BY DEF RunInterruption, Set
<1>5. /\ info' \in [Actors -> Infos] /\ \A w \in Actors \ {p} : info'[w] = info[w]
      /\ info'[p].visible = info[p].visible /\ info'[p].prim = info[p].prim /\ info'[p].stash = info[p].stash
      /\ info'[p].th = info[p].th /\ info'[p].sem = info[p].sem /\ info'[p].posted = info[p].posted
      /\ info'[p].result = info[p].result /\ info'[p].exiting = info[p].exiting
      /\ info'[p].sigurg => info'[p].ints # << >>
  BY <1>1, <1>3, <1>4 DEF Infos
<1>6. PICK l \in {pc[p], "exit", "exitlock"} :
        /\ pc' = [pc EXCEPT ![p] = l] /\ pc[p] \in {"body", "semwait", "exitlock"}
        /\ l = pc[p] => left' = left \/ left' = [left EXCEPT ![p] = << >>]
        /\ l # pc[p] => /\ left' = left \/ left' = [left EXCEPT ![p] = << >>]
                        /\ l = "exitlock" <=> p = Main
        /\ l = pc[p] /\ left' # left => pc[p] = "exitlock"
        /\ log'.returned = log.returned /\ log'.got = log.got /\ log'.bad = log.bad /\ log' \in Logs
  <2> HIDE DEF kind
  <2>1. log \in Logs /\ pc = [pc EXCEPT ![p] = pc[p]] /\ pc[p] \in {"body", "semwait", "exitlock"}
    BY <1>1 DEF TypeOK, RunInterruption
  <2>2. CASE kind = "nop"
    <3>1. pc' = pc /\ left' = left /\ log' = log
      BY <2>2 DEF RunInterruption, kind
    <3> QED BY <2>1, <3>1
  <2>3. CASE kind = "abort"
    <3>1. /\ pc' = [pc EXCEPT ![p] = IF p = Main THEN "exitlock" ELSE "exit"] /\ log' = log
          /\ left' = left \/ left' = [left EXCEPT ![p] = << >>]
      BY <2>3 DEF RunInterruption, kind, Goto
    <3> QED BY <2>1, <3>1
  <2>4. CASE kind = "end"
    <3>1. pc' = pc /\ left' = left /\ log' = [log EXCEPT !.over = "exit"]
      BY <2>4 DEF RunInterruption, kind
    <3>2. log'.returned = log.returned /\ log'.got = log.got /\ log'.bad = log.bad /\ log' \in Logs
      BY <2>1, <3>1 DEF Logs
    <3> QED BY <2>1, <3>1, <3>2
  <2> QED BY <1>3, <2>2, <2>3, <2>4
<1>7. os' = os /\ loc' = loc /\ reg' = reg /\ mem' = mem /\ targets' = targets
  BY DEF RunInterruption
<1>8. TypeOK'
  <2>1. [left EXCEPT ![p] = << >>] \in [Actors -> Seq(Calling)]
    BY ScriptTypes
  <2>2. left' \in [Actors -> Seq(Calling)]
    BY <1>1, <1>6, <2>1
  <2>3. pc' \in [Actors -> Places]
    BY <1>1, <1>6, PlaceNames
  <2> QED BY <1>5, <1>6, <1>7, <2>2, <2>3 DEF TypeOK
<1>9. Tells(p)'
  <2>1. pc'[p] = l
    BY <1>1, <1>6
  <2>2. p \in Lisp => LispTells(p)'
    BY <1>1, <1>5, <1>6, <1>7, <2>1 DEF Tells, LispTells, Starting, Working, Dying, Finished,
       Final,
       Disposal, Making
  <2>3. p = Main => MainTells'
    BY <1>1, <1>5, <1>6, <1>7, <2>1 DEF Tells, MainTells, Working
  <2>4. p \in Foreign => ForeignTells(p)'
    BY <1>1, <1>5, <1>6, <1>7, <2>1 DEF Tells, ForeignTells
  <2> QED BY <1>5, <2>2, <2>3, <2>4 DEF Tells
<1>10. p \in Threads => CallTells(p)'
  <2>1. pc'[p] = l /\ l \in {"body", "semwait", "exitlock", "exit"} /\ (l = "semwait" => pc[p] = "semwait" /\ left' = left)
    BY <1>1, <1>6
  <2>2. l = "semwait" /\ p \in Threads => Does(p, "join")' /\ Begun(Arg(p))'
    <3>1. l = "semwait" /\ p \in Threads => Does(p, "join") /\ Begun(Arg(p)) /\ pc' = pc
      BY <1>1, <1>6, <2>1 DEF CallTells
    <3> QED BY <2>1, <3>1 DEF Does, Arg, Begun
  <2> QED BY <1>1, <1>5, <1>6, <1>7, <2>1, <2>2 DEF CallTells, At, IsMaking, Disposal, Making, Creating
<1>11. Quiet(p, p, l)
  BY <1>1, <1>5, <1>6, <1>7 DEF Quiet, CallsTell, Begun, Creating, Final, Finished
<1> QED BY <1>1, <1>6, <1>8, <1>9, <1>10, <1>11, PlaceNames, QuietKeeps

\* START-THREAD makes the new thread visible, if it is not visible or gone already.
LEMMA CreatedKeeps ==
  ASSUME IInv, NEW p \in Actors, Created(p)
  PROVE  IInv'
<1> USE ThreadsAssumption DEF IInv
<1>1. /\ Tells(p) /\ (p \in Threads => CallTells(p)) /\ p \in Lisp \cup {Main} \cup Foreign
      /\ pc \in [Actors -> Places] /\ info \in [Actors -> Infos] /\ left \in [Actors -> Seq(Calling)]
  BY DEF PlacesTell, CallsTell, TypeOK, Threads, Actors
<1>2. PICK u : u = Arg(p)
  OBVIOUS
<1>3. p \in Threads /\ p \notin Foreign /\ pc[p] = "created" /\ Does(p, "make") /\ left[p] # << >>
  BY <1>1 DEF Created, Tells, ForeignTells, CallTells, IsMaking, Making, Creating, Does, Threads
<1>4. u \in Actors /\ 1 \in DOMAIN left[p] /\ left[p][1] = Head(left[p])
  BY <1>2, <1>3, ScriptTypes
<1>5. u \in Lisp /\ pc[u] # "unborn"
  BY <1>2, <1>3, <1>4 DEF MakesAreNew, Makes, Arg, Does, Creating
<1>6. Tells(u) /\ info[u] \in Infos
  BY <1>1, <1>4 DEF PlacesTell
<1>7. /\ pc' = [pc EXCEPT ![p] = "body"] /\ left' = [left EXCEPT ![p] = Tail(@)]
      /\ info' = [info EXCEPT ![u] = [info[u] EXCEPT !.visible = IF @ = 0 THEN 1 ELSE @]]
      /\ os' = os /\ loc' = loc /\ reg' = reg /\ mem' = mem /\ targets' = targets /\ log' = log
  BY <1>2 DEF Created, Done, Goto, Set
<1>8. /\ info' \in [Actors -> Infos] /\ \A w \in Actors \ {u} : info'[w] = info[w]
      /\ info'[u].visible \in {info[u].visible, 1} /\ info'[u].prim = info[u].prim /\ info'[u].stash = info[u].stash
      /\ info[u].visible # 0 => info'[u].visible = info[u].visible
      /\ info'[u].th = info[u].th /\ info'[u].sem = info[u].sem /\ info'[u].posted = info[u].posted
      /\ info'[u].result = info[u].result /\ info'[u].exiting = info[u].exiting
      /\ info'[u].sigurg = info[u].sigurg /\ info'[u].ints = info[u].ints
  BY <1>1, <1>4, <1>6, <1>7 DEF Infos
<1>9. TypeOK'
  BY <1>3, <1>7, <1>8, PlaceNames, ScriptTypes DEF TypeOK
<1>10. pc'[p] = "body" /\ \A w \in Actors \ {p} : pc'[w] = pc[w]
  BY <1>1, <1>7
<1>11. Tells(u)'
  <2>1. pc'[u] = pc[u] \/ (pc[u] = "created" /\ pc'[u] = "body")
    BY <1>3, <1>4, <1>10
  <2>2. LispTells(u)'
    BY <1>5, <1>6, <1>7, <1>8, <2>1 DEF Tells, LispTells, Starting, Working, Dying, Finished,
       Final,
       Disposal, Making, Creating
  <2>3. u # Main /\ u \notin Foreign
    BY <1>5
  <2> QED BY <1>6, <1>8, <2>2, <2>3 DEF Tells
<1>12. Tells(p)'
  <2>1. CASE p # u
    BY <1>1, <1>3, <1>7, <1>8, <1>10, <2>1 DEF Tells, LispTells, MainTells, Starting, Working,
       Dying,
       Finished, Final, Disposal, Making, Creating
  <2> QED BY <1>11, <2>1
<1>13. CallTells(p)'
  BY <1>1, <1>3, <1>7, <1>8, <1>10 DEF CallTells, At, IsMaking, Disposal, Making, Creating
<1>14. Quiet(p, u, "body")
  BY <1>1, <1>3, <1>4, <1>5, <1>7, <1>8 DEF Quiet, CallsTell, Begun, Creating, Final, Finished
<1> QED BY <1>3, <1>4, <1>9, <1>11, <1>12, <1>13, <1>14, PlaceNames, QuietKeeps

-----------------------------------------------------------------------------
(* Disposing of finished threads.                                          *)

\* A thread in *ALL-THREADS* has its structure, so that an address is there once.
LEMMA ListedOwns ==
  ASSUME IInv, NEW t \in Actors, Listed(t)
  PROVE  Owning(t) /\ info[t].th # 0 /\ info[t].th \in Mems
<1> USE ThreadsAssumption DEF IInv
<1>1. Tells(t) /\ info[t] \in Infos /\ os[t] \in {"none", "live", "exited", "joined"}
  BY DEF PlacesTell, TypeOK
<1>2. info[t].th # 0
  BY <1>1 DEF Listed, Tells, LispTells, MainTells, ForeignTells, Actors, Threads
<1>3. os[t] # "joined"
  BY <1>1 DEF Listed, JoinedOnce, Tells, LispTells, MainTells, ForeignTells, Actors, Threads,
     Starting,
     Working, Dying
<1> QED BY <1>1, <1>2, <1>3 DEF Listed, Owning, Infos

\* What a thread owns is a thread structure.
LEMMA OwnedMems ==
  ASSUME IInv, NEW t \in Actors, Owning(t)
  PROVE  info[t].th \in Mems /\ info[t].th # 0
<1>1. info[t].th \in Mems \cup {0}
  BY DEF IInv, TypeOK, Infos
<1>2. info[t].th # 0
  BY DEF IInv, Owning, Reserved, MakesAreNew, Creating
<1> QED BY <1>1, <1>2

\* DELETE-FROM-ALL-THREADS finds a listed thread, and that one only.
LEMMA FoundOnce ==
  ASSUME IInv, NEW t \in Actors, Listed(t)
  PROVE  Find(info[t].th) = {<<info[t].th, t>>}
<1> USE DEF IInv
<1>1. \A e \in reg.all : e[2] \in Actors /\ e = <<e[1], e[2]>>
  BY RegTypes DEF TypeOK
<1>2. <<info[t].th, t>> \in reg.all
  BY DEF ListIsExact
<1>3. \A e \in reg.all : e[1] = info[t].th => e[2] = t
  BY <1>1, ListedOwns DEF ListIsExact, MemoryIsOwned
<1> QED BY <1>1, <1>2, <1>3 DEF Find

\* UPDATE-ALL-THREADS finds nobody under an address that no listed thread has.
LEMMA FoundNever ==
  ASSUME IInv, NEW m, \A t \in Actors : Listed(t) => info[t].th # m
  PROVE  Find(m) = {}
<1>1. \A e \in reg.all : e[2] \in Actors
  BY RegTypes DEF IInv, TypeOK
<1> QED BY <1>1 DEF IInv, ListIsExact, Find

\* A thread that disposes of another.
LEMMA Disposer ==
  ASSUME IInv, NEW p \in Actors, pc[p] \in Disposal \cup Making
  PROVE  /\ p \in Threads /\ p \notin Foreign /\ Tells(p) /\ CallTells(p)
         /\ pc[p] \in Disposal => loc[p].then \in {"alloc", "joining", "xread", "census", "terminate"}
         /\ pc[p] \in Making => left[p] # << >> /\ Does(p, "make")
<1> USE ThreadsAssumption DEF IInv
<1>1. Tells(p)
  BY DEF PlacesTell
<1>2. p \notin Foreign
  BY <1>1 DEF Tells, ForeignTells, Disposal, Making, Creating
<1>3. p \in Threads
  BY <1>2 DEF Actors
<1> QED BY <1>1, <1>2, <1>3 DEF CallsTell, CallTells, IsMaking, Does

\* ATOMIC-POP of *JOINABLE-THREADS*: the corpse is in the hands of one thread.
LEMMA PopKeeps ==
  ASSUME IInv, NEW p \in Actors, ReuseCorpse(p) \/ DisposePop(p)
  PROVE  IInv'
<1> USE ThreadsAssumption DEF IInv
<1>1. pc[p] \in {"reuse", "disposepop"}
  BY DEF ReuseCorpse, DisposePop
<1>2. p \in Threads /\ p \notin Foreign /\ Tells(p) /\ CallTells(p)
      /\ loc[p].then \in {"alloc", "joining", "xread", "census", "terminate"}
  BY <1>1, Disposer DEF Disposal, Making, CallTells
<1>3. /\ pc \in [Actors -> Places] /\ loc \in [Actors -> Locals] /\ loc[p] \in Locals /\ reg \in Regs
      /\ reg.joinable \in Seq(Lisp)
  BY RegTypes DEF TypeOK
<1>4. PICK none \in {"dispose", loc[p].then}, keep \in BOOLEAN :
        /\ PopJoinable(p, none, keep) /\ (none = "dispose" <=> pc[p] = "reuse")
        /\ keep <=> pc[p] = "reuse"
  BY <1>1, <1>2 DEF ReuseCorpse, DisposePop
<1>5. /\ left' = left /\ info' = info /\ os' = os /\ mem' = mem /\ lock' = lock
      /\ targets' = targets /\ log' = log
  BY DEF ReuseCorpse, DisposePop
<1>6. CASE reg.joinable = << >>
  <2>1. pc' = [pc EXCEPT ![p] = none] /\ reg' = reg /\ loc' = loc
    BY <1>4, <1>6 DEF PopJoinable, Goto
  <2>2. none \in Places
    BY <1>2, PlaceNames
  <2>3. TypeOK'
    BY <1>3, <1>5, <2>1, <2>2 DEF TypeOK
  <2>4. Tells(p)'
    BY <1>1, <1>2, <1>3, <1>5, <2>1 DEF Tells, LispTells, MainTells, Starting, Working, Dying,
       Finished,
       Final, Disposal, Making
  <2>5. CallTells(p)'
    BY <1>1, <1>2, <1>3, <1>4, <1>5, <2>1 DEF CallTells, At, IsMaking, Does, Begun, Arg,
       Disposal,
       Making, Creating, Final
  <2>6. Quiet(p, p, none)
    BY <1>1, <1>2, <1>3, <1>5, <2>1 DEF Quiet, Begun, CallsTell, Creating, Final, Finished
  <2> QED BY <2>2, <2>3, <2>4, <2>5, <2>6, QuietKeeps
<1>7. CASE reg.joinable # << >>
  <2>1. PICK c : c = Head(reg.joinable)
    OBVIOUS
  <2>2. /\ pc' = [pc EXCEPT ![p] = "pjoin"] /\ reg' = [reg EXCEPT !.joinable = Tail(@)]
        /\ loc' = [loc EXCEPT ![p].corpse = c, ![p].keep = keep]
    BY <1>4, <1>7, <2>1 DEF PopJoinable, Goto
  <2>3. /\ c \in Lisp /\ 1 \in DOMAIN reg.joinable /\ c = reg.joinable[1] /\ Tail(reg.joinable) \in Seq(Lisp)
        /\ \A i \in DOMAIN Tail(reg.joinable) :
             i + 1 \in DOMAIN reg.joinable /\ Tail(reg.joinable)[i] = reg.joinable[i + 1] /\ i \in Nat /\ i + 1 # 1
    BY <1>3, <1>7, <2>1
  <2>4. c \in Actors /\ c # Nobody /\ Unclaimed(c)
    BY <2>3 DEF JoinedOnce, Actors, Threads
  <2>5. c # p /\ pc[c] \in Finished
    BY <1>1, <2>4 DEF Unclaimed, Finished, Final
  <2>6. /\ pc'[p] = "pjoin" /\ \A q \in Actors \ {p} : pc'[q] = pc[q] /\ loc'[q] = loc[q]
        /\ loc'[p].corpse = c /\ loc'[p].keep = keep /\ loc'[p].reuse = loc[p].reuse
        /\ loc'[p].then = loc[p].then /\ loc' \in [Actors -> Locals]
        /\ reg' \in Regs /\ reg'.joinable = Tail(reg.joinable) /\ reg'.all = reg.all /\ reg'.recycled = reg.recycled
    BY <1>3, <2>2, <2>3, <2>4 DEF Locals, Regs
  <2>7. TypeOK'
    BY <1>3, <1>5, <2>2, <2>6, PlaceNames DEF TypeOK
  <2>8. PlacesTell'
    <3>1. Tells(p)'
      BY <1>1, <1>2, <1>5, <2>6 DEF Tells, LispTells, MainTells, Starting, Working, Dying,
         Finished,
         Final, Disposal, Making
    <3>2. ASSUME NEW t \in Actors, t # p PROVE Tells(t)'
      BY <1>5, <2>6, <3>2, RestTells DEF Rests, PlacesTell
    <3> QED BY <3>1, <3>2 DEF PlacesTell
  <2>9. CallsTell'
    <3>1. Onward
      BY <1>1, <2>6 DEF Onward, Begun, Final, Actors, Threads
    <3>2. CallTells(p)'
      <4>1. /\ (Does(p, "make") => Does(p, "make")') /\ (Does(p, "save") => Does(p, "save")')
            /\ (Does(p, "join") /\ Begun(Arg(p)) => Does(p, "join")' /\ Begun(Arg(p))')
        BY <1>5, <3>1, SameCall
      <4>2. pc[p] = "reuse" => loc[p].then = "alloc" /\ loc[p].reuse = 0
        BY <1>2 DEF CallTells, At, Disposal
      <4> QED BY <1>1, <1>2, <1>4, <1>5, <2>4, <2>6, <4>1, <4>2 DEF CallTells, At, IsMaking, Disposal,
         Making, Creating
    <3>3. \A w \in targets'.todo : Begun(w)
      BY <1>5 DEF CallsTell
    <3> QED BY <1>5, <2>6, <2>7, <3>1, <3>2, <3>3, CallsRest DEF Threads, Actors
  <2>10. \A t : Reserved(t)' <=> Reserved(t)
    BY <1>1, <1>5, <2>6 DEF Reserved, Arg, Threads, Actors
  <2>11. MemoryIsOwned'
    BY <1>5, <2>6, <2>10, MemoryRests DEF Owning, Threads, Actors
  <2>12. ListIsExact'
    BY <1>5, <2>6, <2>10, ListRests DEF Listed
  <2>13. ResultsAreFinal'
    BY <1>1, <1>5, <2>6, ResultsRest DEF Final, Actors, Threads
  <2>14. MakesAreNew'
    <3>1. Steady(p)
      BY <1>1, <1>5, <2>6 DEF Steady, Creating, Actors, Threads
    <3> QED BY <3>1, SteadyMakes
  <2>15. JoinedOnce'
    <3>1. \A x \in Lisp : Unclaimed(x) => Unclaimed(x)'
      BY <1>1, <1>5, <2>6 DEF Unclaimed, Finished, Final, Actors, Threads
    <3>2. \A q \in Threads \ {p} : loc[q].corpse # c
      BY <2>3 DEF JoinedOnce
    <3>3. loc[p].corpse = Nobody
      BY <1>1, <1>2 DEF CallTells
    <3>4. ASSUME NEW i \in DOMAIN reg'.joinable
          PROVE  /\ Unclaimed(reg.joinable[i])'
                 /\ \A j \in DOMAIN reg'.joinable : reg'.joinable[j] = reg'.joinable[i] => j = i
                 /\ \A q \in Threads : loc'[q].corpse # reg'.joinable[i]
      <4>1. PICK x \in Lisp : x = reg'.joinable[i] /\ i + 1 \in DOMAIN reg.joinable /\ x = reg.joinable[i + 1] /\ i \in Nat /\ i + 1 # 1
        BY <1>3, <2>3, <2>6, <3>4, RegTypes
      <4>2. Unclaimed(x)'
        BY <3>1, <4>1 DEF JoinedOnce
      <4>3. Unclaimed(reg.joinable[i])'
        BY <4>1, <4>2 DEF Unclaimed
      <4>4. \A j \in DOMAIN reg'.joinable : reg'.joinable[j] = x => j = i
        BY <2>3, <2>6, <4>1 DEF JoinedOnce
      <4>5. x # c
        BY <2>3, <4>1 DEF JoinedOnce
      <4>6. \A q \in Threads : loc'[q].corpse # x
        BY <2>6, <4>1, <4>5 DEF JoinedOnce, Threads, Actors
      <4> QED BY <4>1, <4>3, <4>4, <4>6
    <3>5. ASSUME NEW q \in Threads, loc'[q].corpse # Nobody
          PROVE  /\ loc'[q].corpse \in Lisp
                 /\ pc'[q] = "pjoin" => Unclaimed(loc[q].corpse)'
                 /\ pc'[q] = "pwait" => /\ pc'[loc'[q].corpse] \in Finished
                                        /\ os'[loc'[q].corpse] \in {"live", "exited"}
                                        /\ info'[loc'[q].corpse].stash = 0
                                        /\ loc'[q].hand = info'[loc'[q].corpse].th
                 /\ \A w \in Threads : loc'[w].corpse = loc'[q].corpse => w = q
      <4>1. CASE q = p
        <5>1. Unclaimed(c)'
          BY <2>3, <2>4, <3>1
        <5>2. Unclaimed(loc[q].corpse)'
          BY <2>6, <4>1, <5>1 DEF Unclaimed
        <5> QED BY <2>3, <2>6, <3>2, <4>1, <5>2 DEF Threads, Actors
      <4>2. CASE q # p
        <5>1. pc'[q] = pc[q] /\ loc'[q] = loc[q]
          BY <2>6, <4>2 DEF Actors
        <5>2. PICK x \in Lisp : x = loc[q].corpse /\ x # Nobody /\ x # c
          BY <3>2, <3>5, <4>2, <5>1 DEF JoinedOnce
        <5>3. pc[q] = "pjoin" => Unclaimed(x)
          BY <5>2 DEF JoinedOnce
        <5>4. pc[q] = "pjoin" => Unclaimed(x)'
          BY <3>1, <5>3
        <5>5. Unclaimed(x)' => Unclaimed(loc[q].corpse)'
          BY <5>1, <5>2 DEF Unclaimed
        <5>6. \A w \in Threads : loc'[w].corpse = x => w = q
          BY <2>6, <5>1, <5>2 DEF JoinedOnce, Threads, Actors
        <5>7. pc[q] = "pwait" => /\ pc[x] \in Finished /\ os[x] \in {"live", "exited"}
                                 /\ info[x].stash = 0 /\ loc[q].hand = info[x].th
          BY <5>2 DEF JoinedOnce
        <5>8. pc[x] \in Finished => pc'[x] \in Finished
          BY <1>1, <2>6, <5>2 DEF Finished, Final, Actors, Threads
        <5> QED BY <1>5, <5>1, <5>2, <5>4, <5>5, <5>6, <5>7, <5>8
      <4> QED BY <4>1, <4>2
    <3>6. \A t \in Lisp : os'[t] = "joined" => info'[t].stash = 0
      BY <1>5 DEF JoinedOnce
    <3> QED BY <3>4, <3>5, <3>6 DEF JoinedOnce, Unclaimed
  <2>16. NothingGoesWrong'
    BY <1>5 DEF NothingGoesWrong
  <2> QED BY <2>7, <2>8, <2>9, <2>11, <2>12, <2>13, <2>14, <2>15, <2>16
<1> QED BY <1>6, <1>7

\* PRIMITIVE-JOIN: the corpse leaves *ALL-THREADS*, and its address is taken once.
LEMMA PrimitiveJoinKeeps ==
  ASSUME IInv, NEW p \in Actors, PrimitiveJoin(p)
  PROVE  IInv'
<1> USE ThreadsAssumption DEF IInv
<1>1. PICK c : c = loc[p].corpse
  OBVIOUS
<1>2. pc[p] = "pjoin" /\ p \in Threads /\ p \notin Foreign /\ Tells(p) /\ CallTells(p)
  BY Disposer DEF PrimitiveJoin, Disposal
<1>3. c \in Lisp /\ c \in Actors /\ c # Nobody /\ Unclaimed(c) /\ c # p /\ Tells(c)
      /\ \A q \in Threads : loc[q].corpse = c => q = p
  <2>1. c # Nobody
    BY <1>1, <1>2 DEF CallTells
  <2>2. c \in Lisp /\ Unclaimed(c) /\ \A q \in Threads : loc[q].corpse = c => q = p
    BY <1>1, <1>2, <2>1 DEF JoinedOnce
  <2>3. c # p
    BY <1>2, <2>2 DEF Unclaimed, Finished, Final
  <2> QED BY <2>1, <2>2, <2>3 DEF PlacesTell, Actors, Threads
<1>4. /\ pc \in [Actors -> Places] /\ loc \in [Actors -> Locals] /\ loc[p] \in Locals /\ reg \in Regs
      /\ info \in [Actors -> Infos] /\ info[c] \in Infos
  BY <1>3 DEF TypeOK
<1>5. pc[c] \in Finished /\ info[c].stash = info[c].th /\ info[c].th # 0 /\ info[c].prim = 0 /\ os[c] \in {"live", "exited"}
  BY <1>3 DEF Unclaimed, Tells, LispTells, Dying
<1>6. Listed(c) /\ Find(info[c].th) = {<<info[c].th, c>>}
  BY <1>3, <1>5, FoundOnce DEF Listed
<1>7. /\ pc' = [pc EXCEPT ![p] = "pwait"] /\ loc' = [loc EXCEPT ![p].hand = info[c].th]
      /\ info' = [info EXCEPT ![c] = [info[c] EXCEPT !.stash = 0]]
      /\ reg' = [reg EXCEPT !.all = @ \ {<<info[c].th, c>>}] /\ log' = log
      /\ left' = left /\ os' = os /\ mem' = mem /\ targets' = targets
  BY <1>1, <1>5, <1>6 DEF PrimitiveJoin, Goto, Set, Blame
<1>8. /\ pc'[p] = "pwait" /\ \A q \in Actors \ {p} : pc'[q] = pc[q] /\ loc'[q] = loc[q]
      /\ loc'[p].corpse = c /\ loc'[p].hand = info[c].th /\ loc'[p].keep = loc[p].keep
      /\ loc'[p].reuse = loc[p].reuse /\ loc'[p].then = loc[p].then /\ loc' \in [Actors -> Locals]
  BY <1>1, <1>4, <1>7 DEF Locals, Infos
<1>9. /\ info' \in [Actors -> Infos] /\ \A w \in Actors \ {c} : info'[w] = info[w]
      /\ info'[c].visible = info[c].visible /\ info'[c].prim = info[c].prim /\ info'[c].stash = 0
      /\ info'[c].th = info[c].th /\ info'[c].sem = info[c].sem /\ info'[c].posted = info[c].posted
      /\ info'[c].result = info[c].result /\ info'[c].exiting = info[c].exiting
      /\ info'[c].sigurg = info[c].sigurg /\ info'[c].ints = info[c].ints
  BY <1>3, <1>4, <1>7 DEF Infos
<1>10. /\ reg' \in Regs /\ reg'.joinable = reg.joinable /\ reg'.recycled = reg.recycled
      /\ reg'.all = reg.all \ {<<info[c].th, c>>}
  BY <1>4, <1>7 DEF Regs
<1>11. TypeOK'
  BY <1>4, <1>7, <1>8, <1>9, <1>10, PlaceNames DEF TypeOK
<1>12. PlacesTell'
  <2>1. Tells(p)'
    BY <1>2, <1>3, <1>7, <1>8, <1>9 DEF Tells, LispTells, MainTells, Starting, Working, Dying,
       Finished,
       Final, Disposal
  <2>2. Tells(c)'
    BY <1>3, <1>5, <1>7, <1>8, <1>9 DEF Tells, LispTells, Starting, Working, Dying, Finished,
       Final,
       Disposal, Making, Creating
  <2>3. ASSUME NEW t \in Actors, t # p, t # c PROVE Tells(t)'
    BY <1>7, <1>8, <1>9, <2>3, RestTells DEF Rests, PlacesTell
  <2> QED BY <2>1, <2>2, <2>3 DEF PlacesTell
<1>13. CallsTell'
  <2>1. Onward
    BY <1>2, <1>8 DEF Onward, Begun, Final, Actors, Threads
  <2>2. CallTells(p)'
    <3>1. /\ (Does(p, "make") => Does(p, "make")') /\ (Does(p, "save") => Does(p, "save")')
          /\ (Does(p, "join") /\ Begun(Arg(p)) => Does(p, "join")' /\ Begun(Arg(p))')
      BY <1>7, <2>1, SameCall
    <3> QED BY <1>2, <1>3, <1>8, <1>9, <3>1 DEF CallTells, At, IsMaking, Disposal, Making, Creating
  <2>3. \A w \in targets'.todo : Begun(w)
    BY <1>7 DEF CallsTell
  <2> QED BY <1>7, <1>8, <1>9, <1>11, <2>1, <2>2, <2>3, CallsRest DEF Threads, Actors
<1>14. \A t : Reserved(t)' <=> Reserved(t)
  BY <1>2, <1>7, <1>8 DEF Reserved, Arg, Threads, Actors
<1>15. MemoryIsOwned'
  <2>1. \A t \in Actors : info'[t].th = info[t].th
    BY <1>9
  <2> QED BY <1>7, <1>8, <1>10, <1>14, <2>1, MemoryRests DEF Owning, Threads, Actors
<1>16. ListIsExact'
  <2>1. ~Listed(c)'
    BY <1>5, <1>9 DEF Listed
  <2>2. \A t \in Actors \ {c} : (Listed(t)' <=> Listed(t)) /\ info'[t].th = info[t].th
    BY <1>7, <1>9, <1>14 DEF Listed
  <2>3. \A e \in reg.all : e[2] \in Actors /\ e = <<e[1], e[2]>>
    BY <1>4, RegTypes
  <2>4. \A e \in reg.all : e # <<info[c].th, c>> => e[2] # c
    BY <2>3 DEF ListIsExact
  <2> QED BY <1>10, <2>1, <2>2, <2>3, <2>4 DEF ListIsExact
<1>17. ResultsAreFinal'
  BY <1>2, <1>7, <1>8, <1>9, ResultsRest DEF Final, Actors, Threads
<1>18. MakesAreNew'
  <2>1. Steady(p)
    BY <1>2, <1>5, <1>7, <1>8, <1>9 DEF Steady, Creating, Finished, Final, Actors, Threads
  <2> QED BY <2>1, SteadyMakes
<1>19. JoinedOnce'
  <2>1. \A x \in Lisp \ {c} : Unclaimed(x) => Unclaimed(x)'
    BY <1>2, <1>7, <1>8, <1>9 DEF Unclaimed, Finished, Final, Actors, Threads
  <2>2. \A q \in Threads : loc'[q].corpse = loc[q].corpse
    BY <1>1, <1>8 DEF Threads, Actors
  <2>3. ASSUME NEW i \in DOMAIN reg'.joinable
        PROVE  /\ Unclaimed(reg.joinable[i])'
               /\ \A j \in DOMAIN reg'.joinable : reg'.joinable[j] = reg'.joinable[i] => j = i
               /\ \A q \in Threads : loc'[q].corpse # reg'.joinable[i]
    <3>1. PICK x \in Lisp : x = reg'.joinable[i] /\ x = reg.joinable[i]
      BY <1>4, <1>10, <2>3, RegTypes
    <3>2. x # c
      BY <1>1, <1>2, <1>10, <3>1 DEF JoinedOnce
    <3>3. Unclaimed(x)'
      BY <1>10, <2>1, <3>1, <3>2 DEF JoinedOnce
    <3>4. Unclaimed(reg.joinable[i])'
      BY <3>1, <3>3 DEF Unclaimed
    <3> QED BY <1>10, <2>2, <3>1, <3>4 DEF JoinedOnce
  <2>4. ASSUME NEW q \in Threads, loc'[q].corpse # Nobody
        PROVE  /\ loc'[q].corpse \in Lisp
               /\ pc'[q] = "pjoin" => Unclaimed(loc[q].corpse)'
               /\ pc'[q] = "pwait" => /\ pc'[loc'[q].corpse] \in Finished
                                      /\ os'[loc'[q].corpse] \in {"live", "exited"}
                                      /\ info'[loc'[q].corpse].stash = 0
                                      /\ loc'[q].hand = info'[loc'[q].corpse].th
               /\ \A w \in Threads : loc'[w].corpse = loc'[q].corpse => w = q
    <3>1. CASE q = p
      BY <1>3, <1>5, <1>7, <1>8, <1>9, <2>2, <3>1
    <3>2. CASE q # p
      <4>1. pc'[q] = pc[q] /\ loc'[q] = loc[q]
        BY <1>8, <3>2 DEF Actors
      <4>2. PICK x \in Lisp : x = loc[q].corpse /\ x # Nobody /\ x # c
        BY <1>3, <2>4, <3>2, <4>1 DEF JoinedOnce
      <4>3. pc[q] = "pjoin" => Unclaimed(x)
        BY <4>2 DEF JoinedOnce
      <4>4. pc[q] = "pjoin" => Unclaimed(x)'
        BY <2>1, <4>2, <4>3
      <4>5. Unclaimed(x)' => Unclaimed(loc[q].corpse)'
        BY <4>1, <4>2 DEF Unclaimed
      <4>6. \A w \in Threads : loc'[w].corpse = x => w = q
        BY <2>2, <4>2 DEF JoinedOnce
      <4>7. pc[q] = "pwait" => /\ pc[x] \in Finished /\ os[x] \in {"live", "exited"}
                               /\ info[x].stash = 0 /\ loc[q].hand = info[x].th
        BY <4>2 DEF JoinedOnce
      <4>8. (pc[x] \in Finished => pc'[x] \in Finished) /\ info'[x] = info[x]
        BY <1>2, <1>8, <1>9, <4>2 DEF Finished, Final, Actors, Threads
      <4> QED BY <1>7, <4>1, <4>2, <4>4, <4>5, <4>6, <4>7, <4>8
    <3> QED BY <3>1, <3>2
  <2>5. \A t \in Lisp : os'[t] = "joined" => info'[t].stash = 0
    BY <1>7, <1>9 DEF JoinedOnce, Actors, Threads
  <2> QED BY <2>3, <2>4, <2>5 DEF JoinedOnce, Unclaimed
<1>20. NothingGoesWrong'
  BY <1>7 DEF NothingGoesWrong
<1> QED BY <1>11, <1>12, <1>13, <1>15, <1>16, <1>17, <1>18, <1>19, <1>20

\* pthread_join: the OS thread is gone, its structure is kept for one use or unmapped.
LEMMA PthreadJoinKeeps ==
  ASSUME IInv, NEW p \in Actors, PthreadJoin(p)
  PROVE  IInv'
<1> USE ThreadsAssumption DEF IInv
<1>1. PICK c, m : c = loc[p].corpse /\ m = loc[p].hand
  OBVIOUS
<1>2. pc[p] = "pwait" /\ p \in Threads /\ p \notin Foreign /\ Tells(p) /\ CallTells(p)
  BY Disposer DEF PthreadJoin, Disposal
<1>3. c \in Lisp /\ c \in Actors /\ c # Nobody /\ c # p /\ Tells(c) /\ pc[c] \in Finished /\ os[c] = "exited"
      /\ info[c].stash = 0 /\ m = info[c].th /\ \A q \in Threads : loc[q].corpse = c => q = p
  <2>1. c # Nobody
    BY <1>1, <1>2 DEF CallTells
  <2>2. c \in Lisp /\ pc[c] \in Finished /\ info[c].stash = 0 /\ m = info[c].th
        /\ \A q \in Threads : loc[q].corpse = c => q = p
    BY <1>1, <1>2, <2>1 DEF JoinedOnce
  <2>3. c # p
    BY <1>2, <2>2 DEF Finished, Final
  <2> QED BY <1>1, <2>1, <2>2, <2>3 DEF PthreadJoin, PlacesTell, Actors, Threads
<1>4. /\ pc \in [Actors -> Places] /\ loc \in [Actors -> Locals] /\ loc[p] \in Locals /\ reg \in Regs
      /\ mem \in [Mems -> {"free", "mapped"}] /\ info[c] \in Infos
      /\ os \in [Actors -> {"none", "live", "exited", "joined"}]
  BY <1>3 DEF TypeOK
<1>5. pc[c] = "dead" /\ info[c].prim = 0 /\ m # 0 /\ m \in Mems
  BY <1>3, <1>4 DEF Tells, LispTells, Dying, Finished, Final, Infos
<1>6. PICK same \in BOOLEAN :
        /\ mem' = IF loc[p].keep /\ same THEN mem ELSE [mem EXCEPT ![m] = "free"]
        /\ loc' = [loc EXCEPT ![p] = [loc[p] EXCEPT !.corpse = Nobody, !.hand = 0, !.keep = FALSE,
                                                    !.reuse = IF loc[p].keep /\ same THEN m ELSE loc[p].reuse]]
  BY <1>1 DEF PthreadJoin
<1>7. /\ pc' = [pc EXCEPT ![p] = "dispose"] /\ os' = [os EXCEPT ![c] = "joined"] /\ left' = left
      /\ info' = info /\ reg' = reg /\ targets' = targets /\ log' = log
  BY <1>1 DEF PthreadJoin, Goto
<1>8. /\ pc'[p] = "dispose" /\ \A q \in Actors \ {p} : pc'[q] = pc[q] /\ loc'[q] = loc[q]
      /\ loc'[p].corpse = Nobody /\ loc'[p].keep = FALSE /\ loc'[p].then = loc[p].then
      /\ loc'[p].reuse = (IF loc[p].keep /\ same THEN m ELSE loc[p].reuse) /\ loc' \in [Actors -> Locals]
      /\ os'[c] = "joined" /\ \A q \in Actors \ {c} : os'[q] = os[q]
  <2> DEFINE r == [loc[p] EXCEPT !.corpse = Nobody, !.hand = 0, !.keep = FALSE,
                                 !.reuse = IF loc[p].keep /\ same THEN m ELSE loc[p].reuse]
  <2>1. /\ r.corpse = Nobody /\ r.keep = FALSE /\ r.then = loc[p].then /\ r \in Locals
        /\ r.reuse = (IF loc[p].keep /\ same THEN m ELSE loc[p].reuse)
    BY <1>4, <1>5 DEF Locals
  <2>2. loc' = [loc EXCEPT ![p] = r]
    BY <1>6
  <2> HIDE DEF r
  <2>3. pc'[p] = "dispose" /\ \A q \in Actors \ {p} : pc'[q] = pc[q]
    BY <1>4, <1>7
  <2>4. os'[c] = "joined" /\ \A q \in Actors \ {c} : os'[q] = os[q]
    BY <1>3, <1>4, <1>7
  <2> QED BY <1>4, <2>1, <2>2, <2>3, <2>4
<1>9. /\ mem' \in [Mems -> {"free", "mapped"}] /\ \A x \in Mems \ {m} : mem'[x] = mem[x]
      /\ loc[p].keep /\ same => mem'[m] = mem[m]
  BY <1>4, <1>5, <1>6
<1>10. TypeOK'
  BY <1>3, <1>4, <1>7, <1>8, <1>9, PlaceNames DEF TypeOK
<1>11. PlacesTell'
  <2>1. Tells(p)'
    BY <1>2, <1>3, <1>7, <1>8 DEF Tells, LispTells, MainTells, Starting, Working, Dying,
       Finished,
       Final, Disposal
  <2>2. Tells(c)'
    BY <1>3, <1>5, <1>7, <1>8 DEF Tells, LispTells, Starting, Working, Dying, Finished, Final,
       Disposal,
       Making, Creating
  <2>3. ASSUME NEW t \in Actors, t # p, t # c PROVE Tells(t)'
    BY <1>7, <1>8, <2>3, RestTells DEF Rests, PlacesTell
  <2> QED BY <2>1, <2>2, <2>3 DEF PlacesTell
<1>12. CallsTell'
  <2>1. Onward
    BY <1>2, <1>8 DEF Onward, Begun, Final, Actors, Threads
  <2>2. CallTells(p)'
    <3>1. /\ (Does(p, "make") => Does(p, "make")') /\ (Does(p, "save") => Does(p, "save")')
          /\ (Does(p, "join") /\ Begun(Arg(p)) => Does(p, "join")' /\ Begun(Arg(p))')
      BY <1>7, <2>1, SameCall
    <3>2. loc'[p].reuse # 0 => At(p, "alloc")
      BY <1>2, <1>8 DEF CallTells
    <3> QED BY <1>2, <1>7, <1>8, <3>1, <3>2 DEF CallTells, At, IsMaking, Disposal, Making, Creating
  <2>3. \A w \in targets'.todo : Begun(w)
    BY <1>7 DEF CallsTell
  <2> QED BY <1>7, <1>8, <1>10, <2>1, <2>2, <2>3, CallsRest DEF Threads, Actors
<1>13. \A t : Reserved(t)' <=> Reserved(t)
  BY <1>2, <1>7, <1>8 DEF Reserved, Arg, Threads, Actors
<1>14. MemoryIsOwned'
  <2>1. Owning(c) /\ mem[m] = "mapped"
    BY <1>3, <1>5 DEF Owning, MemoryIsOwned
  <2>2. ~Reserved(c)
    BY <1>5 DEF Reserved, MakesAreNew, Creating
  <2>3. \A t \in Actors : Owning(t)' => Owning(t) /\ info[t].th # m /\ t # c
    BY <1>3, <1>5, <1>7, <1>8, <1>13, <2>1, <2>2 DEF Owning, MemoryIsOwned
  <2>4. \A t \in Actors : Owning(t) => info[t].th \in Mems
    BY OwnedMems
  <2>5. \A t \in Actors : Owning(t)' => mem'[info'[t].th] = "mapped"
    BY <1>7, <1>9, <2>3, <2>4 DEF MemoryIsOwned
  <2>6. \A t, u \in Actors : Owning(t)' /\ Owning(u)' /\ info'[t].th = info'[u].th => t = u
    BY <1>7, <2>3 DEF MemoryIsOwned
  <2>7. \A q \in Threads : loc[q].reuse # 0 => loc[q].reuse # m /\ loc[q].reuse \in Mems
    <3>1. \A q \in Threads : loc[q].reuse \in Mems \cup {0}
      BY DEF TypeOK, Locals, Actors
    <3> QED BY <1>3, <2>1, <3>1 DEF MemoryIsOwned
  <2>8. \A q \in Threads : loc'[q].reuse = loc[q].reuse \/ (q = p /\ loc[p].keep /\ same /\ loc'[q].reuse = m)
    BY <1>8 DEF Threads, Actors
  <2>9. \A i \in DOMAIN reg.recycled : reg.recycled[i] # m /\ reg.recycled[i] \in Mems
    <3>1. \A i \in DOMAIN reg.recycled : reg.recycled[i] \in Mems
      BY <1>4, RegTypes
    <3> QED BY <1>3, <2>1, <3>1 DEF MemoryIsOwned
  <2>10. ASSUME NEW q \in Threads, loc'[q].reuse # 0
         PROVE  /\ mem'[loc'[q].reuse] = "mapped"
                /\ \A t \in Actors : Owning(t)' => info'[t].th # loc'[q].reuse
                /\ \A w \in Threads : loc'[w].reuse = loc'[q].reuse => w = q
                /\ \A i \in DOMAIN reg'.recycled : reg'.recycled[i] # loc'[q].reuse
    <3>1. CASE q = p /\ loc[p].keep /\ same /\ loc'[q].reuse = m
      BY <1>5, <1>7, <1>9, <2>1, <2>3, <2>7, <2>8, <2>9, <3>1
    <3>2. CASE loc'[q].reuse = loc[q].reuse
      <4>1. mem'[loc'[q].reuse] = "mapped"
        BY <1>9, <2>7, <2>10, <3>2 DEF MemoryIsOwned
      <4>2. \A t \in Actors : Owning(t)' => info'[t].th # loc'[q].reuse
        BY <1>7, <2>3, <2>10, <3>2 DEF MemoryIsOwned
      <4>3. \A w \in Threads : loc'[w].reuse = loc'[q].reuse => w = q
        BY <2>7, <2>8, <2>10, <3>2 DEF MemoryIsOwned
      <4>4. \A i \in DOMAIN reg'.recycled : reg'.recycled[i] # loc'[q].reuse
        BY <1>7, <2>10, <3>2 DEF MemoryIsOwned
      <4> QED BY <4>1, <4>2, <4>3, <4>4
    <3> QED BY <2>8, <3>1, <3>2
  <2>11. \A i \in DOMAIN reg'.recycled :
           /\ mem'[reg'.recycled[i]] = "mapped"
           /\ \A t \in Actors : Owning(t)' => info'[t].th # reg'.recycled[i]
           /\ \A j \in DOMAIN reg'.recycled : reg'.recycled[j] = reg'.recycled[i] => j = i
    BY <1>7, <1>9, <2>3, <2>9 DEF MemoryIsOwned
  <2> QED BY <2>5, <2>6, <2>10, <2>11 DEF MemoryIsOwned
<1>15. ListIsExact'
  BY <1>3, <1>5, <1>7, <1>8, <1>13, ListRests DEF Listed
<1>16. ResultsAreFinal'
  BY <1>2, <1>7, <1>8, ResultsRest DEF Final, Actors, Threads
<1>17. MakesAreNew'
  <2>1. Steady(p)
    BY <1>2, <1>7, <1>8 DEF Steady, Creating, Actors, Threads
  <2> QED BY <2>1, SteadyMakes
<1>18. JoinedOnce'
  <2>1. \A x \in Lisp \ {c} : Unclaimed(x) => Unclaimed(x)'
    BY <1>2, <1>7, <1>8 DEF Unclaimed, Finished, Final, Actors, Threads
  <2>2. \A q \in Threads \ {p} : loc'[q].corpse = loc[q].corpse /\ pc'[q] = pc[q] /\ loc'[q].hand = loc[q].hand
    BY <1>8 DEF Threads, Actors
  <2>3. ASSUME NEW i \in DOMAIN reg'.joinable
        PROVE  /\ Unclaimed(reg.joinable[i])'
               /\ \A j \in DOMAIN reg'.joinable : reg'.joinable[j] = reg'.joinable[i] => j = i
               /\ \A q \in Threads : loc'[q].corpse # reg'.joinable[i]
    <3>1. PICK x \in Lisp : x = reg'.joinable[i] /\ x = reg.joinable[i]
      BY <1>4, <1>7, <2>3, RegTypes
    <3>2. x # c /\ x # Nobody
      BY <1>1, <1>2, <1>7, <3>1 DEF JoinedOnce, Actors, Threads
    <3>3. Unclaimed(x)'
      BY <1>7, <2>1, <3>1, <3>2 DEF JoinedOnce
    <3>4. Unclaimed(reg.joinable[i])'
      BY <3>1, <3>3 DEF Unclaimed
    <3>5. \A q \in Threads : loc'[q].corpse # x
      BY <1>7, <1>8, <2>2, <3>1, <3>2 DEF JoinedOnce
    <3> QED BY <1>7, <3>1, <3>4, <3>5 DEF JoinedOnce
  <2>4. ASSUME NEW q \in Threads, loc'[q].corpse # Nobody
        PROVE  /\ loc'[q].corpse \in Lisp
               /\ pc'[q] = "pjoin" => Unclaimed(loc[q].corpse)'
               /\ pc'[q] = "pwait" => /\ pc'[loc'[q].corpse] \in Finished
                                      /\ os'[loc'[q].corpse] \in {"live", "exited"}
                                      /\ info'[loc'[q].corpse].stash = 0
                                      /\ loc'[q].hand = info'[loc'[q].corpse].th
               /\ \A w \in Threads : loc'[w].corpse = loc'[q].corpse => w = q
    <3>1. q # p
      BY <1>8, <2>4
    <3>2. pc'[q] = pc[q] /\ loc'[q] = loc[q]
      BY <1>8, <3>1 DEF Actors
    <3>3. PICK x \in Lisp : x = loc[q].corpse /\ x # Nobody /\ x # c
      BY <1>3, <2>4, <3>1, <3>2 DEF JoinedOnce
    <3>4. pc[q] = "pjoin" => Unclaimed(x)
      BY <3>3 DEF JoinedOnce
    <3>5. pc[q] = "pjoin" => Unclaimed(x)'
      BY <2>1, <3>3, <3>4
    <3>6. Unclaimed(x)' => Unclaimed(loc[q].corpse)'
      BY <3>2, <3>3 DEF Unclaimed
    <3>7. \A w \in Threads : loc'[w].corpse = x => w = q
      BY <1>8, <2>2, <3>3 DEF JoinedOnce
    <3>8. pc[q] = "pwait" => /\ pc[x] \in Finished /\ os[x] \in {"live", "exited"}
                             /\ info[x].stash = 0 /\ loc[q].hand = info[x].th
      BY <3>3 DEF JoinedOnce
    <3>9. (pc[x] \in Finished => pc'[x] \in Finished) /\ os'[x] = os[x]
      BY <1>2, <1>8, <3>3 DEF Finished, Final, Actors, Threads
    <3> QED BY <1>7, <3>2, <3>3, <3>5, <3>6, <3>7, <3>8, <3>9
  <2>5. \A t \in Lisp : os'[t] = "joined" => info'[t].stash = 0
    BY <1>3, <1>7, <1>8 DEF JoinedOnce, Actors, Threads
  <2> QED BY <2>3, <2>4, <2>5 DEF JoinedOnce, Unclaimed
<1>19. NothingGoesWrong'
  BY <1>7 DEF NothingGoesWrong
<1> QED BY <1>10, <1>11, <1>12, <1>14, <1>15, <1>16, <1>17, <1>18, <1>19

-----------------------------------------------------------------------------
(* Making a thread.                                                        *)

\* The thread that p makes is nobody else's, and is not there yet.
LEMMA Maker ==
  ASSUME IInv, NEW p \in Actors, pc[p] \in Making
  PROVE  /\ p \in Threads /\ p \notin Foreign /\ Tells(p) /\ CallTells(p) /\ left[p] # << >>
         /\ Arg(p) \in Lisp /\ Arg(p) \in Actors /\ Tells(Arg(p)) /\ 1 \in DOMAIN left[p] /\ Makes(p, 1) /\ Does(p, "make")
         /\ \A q \in Threads : pc[q] \in Making /\ Arg(q) = Arg(p) => q = p
         /\ \A q \in Threads : \A j \in DOMAIN left[q] : Makes(q, j) /\ left[q][j].to = Arg(p) => q = p /\ j = 1
         /\ Arg(p) = left[p][1].to
         /\ pc[p] # "created" => pc[Arg(p)] = "unborn" /\ Arg(p) # p /\ os[Arg(p)] = "none"
         /\ pc[p] \notin Creating => info[Arg(p)] = NoInfo /\ ~Reserved(Arg(p))
         /\ pc[p] \in {"create", "failed"} => info[Arg(p)].th # 0 /\ Reserved(Arg(p))
<1> USE DEF IInv
<1>1. p \in Threads /\ p \notin Foreign /\ Tells(p) /\ CallTells(p) /\ left[p] # << >> /\ Does(p, "make")
  BY Disposer
<1>2. 1 \in DOMAIN left[p] /\ left[p][1] = Head(left[p])
  BY <1>1, ScriptTypes
<1>3. Makes(p, 1) /\ Arg(p) = left[p][1].to
  BY <1>1, <1>2 DEF Makes, Does, Arg
<1>4. Arg(p) \in Lisp /\ \A q \in Threads : \A j \in DOMAIN left[q] : Makes(q, j) /\ left[q][j].to = Arg(p) => q = p /\ j = 1
  BY <1>1, <1>2, <1>3 DEF MakesAreNew
<1>5. Arg(p) \in Actors /\ Tells(Arg(p))
  BY <1>4 DEF Actors, Threads, PlacesTell
<1>6. ASSUME NEW q \in Threads, pc[q] \in Making, Arg(q) = Arg(p) PROVE q = p
  <2>1. q \in Actors /\ left[q] # << >> /\ Does(q, "make")
    BY <1>6, Disposer DEF Actors
  <2>2. 1 \in DOMAIN left[q] /\ left[q][1] = Head(left[q])
    BY <2>1, ScriptTypes
  <2>3. Makes(q, 1) /\ left[q][1].to = Arg(p)
    BY <1>6, <2>1, <2>2 DEF Makes, Does, Arg
  <2> QED BY <1>4, <2>2, <2>3
<1>7. pc[p] \notin Creating => pc[Arg(p)] = "unborn" /\ info[Arg(p)] = NoInfo
  BY <1>1, <1>2, <1>3 DEF MakesAreNew
<1>8. pc[p] \in {"create", "failed"} => pc[Arg(p)] = "unborn" /\ info[Arg(p)].th # 0 /\ Reserved(Arg(p))
  BY <1>1 DEF MakesAreNew, Creating, Reserved
<1>9. pc[p] # "created" => pc[Arg(p)] = "unborn" /\ Arg(p) # p
  BY <1>7, <1>8 DEF Making, Creating
<1>10. pc[p] # "created" => os[Arg(p)] = "none"
  BY <1>4, <1>5, <1>9 DEF Tells, LispTells
<1>11. pc[p] \notin Creating => ~Reserved(Arg(p))
  BY <1>6 DEF Reserved, Making, Creating
<1> QED BY <1>1, <1>2, <1>3, <1>4, <1>5, <1>6, <1>7, <1>8, <1>9, <1>10, <1>11

\* The structure of the new thread is the kept one or a fresh one, and nobody else has it.
LEMMA AllocThreadKeeps ==
  ASSUME IInv, NEW p \in Actors, AllocThread(p)
  PROVE  IInv'
<1> USE ThreadsAssumption DEF IInv
<1>1. PICK t : t = Arg(p)
  OBVIOUS
<1>2. /\ pc[p] = "alloc" /\ p \in Threads /\ p \notin Foreign /\ Tells(p) /\ CallTells(p) /\ left[p] # << >>
      /\ t \in Lisp /\ t \in Actors /\ t # p /\ Tells(t) /\ pc[t] = "unborn" /\ info[t] = NoInfo /\ os[t] = "none"
      /\ ~Reserved(t) /\ Makes(p, 1) /\ Does(p, "make")
      /\ \A q \in Threads : \A j \in DOMAIN left[q] : Makes(q, j) /\ left[q][j].to = t => q = p /\ j = 1
      /\ \A q \in Threads : pc[q] \in Making /\ Arg(q) = t => q = p
  BY <1>1, Maker DEF AllocThread, Making, Creating
<1>3. /\ pc \in [Actors -> Places] /\ loc \in [Actors -> Locals] /\ loc[p] \in Locals /\ reg \in Regs
      /\ info \in [Actors -> Infos] /\ mem \in [Mems -> {"free", "mapped"}] /\ left \in [Actors -> Seq(Calling)]
  BY DEF TypeOK
<1>4. /\ loc' = [loc EXCEPT ![p] = NoLoc] /\ NoLoc \in Locals /\ os' = os /\ targets' = targets
      /\ NoLoc.corpse = Nobody /\ NoLoc.reuse = 0 /\ NoLoc.keep = FALSE
  BY DEF AllocThread, NoLoc, Locals
<1>5. /\ loc' \in [Actors -> Locals] /\ loc'[p].corpse = Nobody /\ loc'[p].reuse = 0 /\ loc'[p].keep = FALSE
      /\ \A q \in Actors \ {p} : loc'[q] = loc[q]
  BY <1>3, <1>4
<1>6. loc[p].corpse = Nobody /\ ~info[p].exiting
  BY <1>2 DEF CallTells, At, Disposal
<1>7. CASE loc[p].reuse = 0 /\ FreeMems = {}
  <2>1. /\ pc' = [pc EXCEPT ![p] = "body"] /\ left' = [left EXCEPT ![p] = Tail(@)]
        /\ info' = info /\ mem' = mem /\ reg' = reg /\ log' = log
    BY <1>7 DEF AllocThread, Done, Goto
  <2>2. [left EXCEPT ![p] = Tail(@)] \in [Actors -> Seq(Calling)]
    BY <1>2, ScriptTypes
  <2>3. TypeOK'
    BY <1>3, <1>4, <1>5, <2>1, <2>2, PlaceNames DEF TypeOK
  <2>4. Tells(p)'
    BY <1>2, <1>3, <1>4, <2>1 DEF Tells, LispTells, MainTells, Starting, Working, Dying,
       Finished,
       Final, Disposal, Making
  <2>5. CallTells(p)'
    BY <1>2, <1>3, <1>5, <1>6, <2>1 DEF CallTells, At, IsMaking, Disposal, Making, Creating
  <2>6. Quiet(p, p, "body")
    BY <1>2, <1>3, <1>4, <1>5, <1>6, <1>7, <2>1 DEF Quiet, Begun, CallsTell, Creating, Final,
       Finished
  <2> QED BY <2>3, <2>4, <2>5, <2>6, PlaceNames, QuietKeeps
<1>8. CASE ~(loc[p].reuse = 0 /\ FreeMems = {})
  <2>1. PICK m : m = IF loc[p].reuse # 0 THEN loc[p].reuse ELSE First(FreeMems)
    OBVIOUS
  \* The structure is one that nobody uses.
  <2>2. /\ m \in Mems /\ m # 0 /\ \A w \in Actors : Owning(w) => info[w].th # m
        /\ \A q \in Threads \ {p} : loc[q].reuse # 0 => loc[q].reuse # m
        /\ \A i \in DOMAIN reg.recycled : reg.recycled[i] # m
    <3>1. CASE loc[p].reuse # 0
      <4>1. m = loc[p].reuse /\ m \in Mems
        BY <1>3, <2>1, <3>1 DEF Locals
      <4> QED BY <1>2, <3>1, <4>1 DEF MemoryIsOwned
    <3>2. CASE loc[p].reuse = 0
      <4>1. m \in FreeMems
        BY <1>8, <2>1, <3>2 DEF First
      <4>2. m \in Mems /\ mem[m] = "free" /\ m # 0
        BY <4>1 DEF FreeMems
      <4> QED BY <4>2 DEF MemoryIsOwned
    <3> QED BY <3>1, <3>2
  <2>3. Find(m) = {}
    BY <2>2, FoundNever, ListedOwns
  <2>4. /\ mem' = [mem EXCEPT ![m] = "mapped"]
        /\ info' = [info EXCEPT ![t] = [NoInfo EXCEPT !.prim = m, !.th = m, !.sem = TRUE]]
        /\ reg' = [reg EXCEPT !.all = @ \cup {<<m, t>>}] /\ log' = log
        /\ pc' = [pc EXCEPT ![p] = "create"] /\ left' = left
    BY <1>1, <1>8, <2>1, <2>3 DEF AllocThread, Set, Blame, Goto
  <2>5. /\ info' \in [Actors -> Infos] /\ \A w \in Actors \ {t} : info'[w] = info[w]
        /\ info'[t].visible = 0 /\ info'[t].prim = m /\ info'[t].stash = 0 /\ info'[t].th = m /\ info'[t].sem
        /\ ~info'[t].posted /\ ~info'[t].result /\ info'[t].exiting = FALSE /\ ~info'[t].sigurg
    <3>1. << >> \in Seq({"nop", "abort", "end"})
      OBVIOUS
    <3>2. NoInfo \in Infos
      BY <3>1 DEF NoInfo, Infos
    <3> QED BY <1>2, <1>3, <2>2, <2>4, <3>2 DEF NoInfo, Infos
  <2>6. /\ reg' \in Regs /\ reg'.all = reg.all \cup {<<m, t>>} /\ reg'.joinable = reg.joinable
        /\ reg'.recycled = reg.recycled
    <3>1. reg.all \cup {<<m, t>>} \in SUBSET (Mems \X Actors)
      BY <1>2, <1>3, <2>2 DEF Regs
    <3> QED BY <1>3, <2>4, <3>1 DEF Regs
  <2>7. pc'[p] = "create" /\ \A q \in Actors \ {p} : pc'[q] = pc[q]
    BY <1>3, <2>4
  <2>8. TypeOK'
    BY <1>3, <1>4, <1>5, <2>2, <2>4, <2>5, <2>6, PlaceNames DEF TypeOK
  <2>9. PlacesTell'
    <3>1. Tells(p)'
      BY <1>2, <1>4, <2>4, <2>5, <2>7 DEF Tells, LispTells, MainTells, Starting, Working, Dying,
         Finished, Final, Disposal, Making, Creating
    <3>2. Tells(t)'
      BY <1>2, <1>4, <2>2, <2>4, <2>5, <2>7 DEF Tells, LispTells, NoInfo, Starting, Working,
         Dying,
         Finished, Final, Disposal, Making, Creating
    <3>3. ASSUME NEW w \in Actors, w # p, w # t PROVE Tells(w)'
      BY <1>4, <1>5, <2>4, <2>5, <2>7, <3>3, RestTells DEF Rests, PlacesTell
    <3> QED BY <3>1, <3>2, <3>3 DEF PlacesTell
  <2>10. CallsTell'
    <3>1. Onward
      BY <1>2, <2>7 DEF Onward, Begun, Final, Actors, Threads
    <3>2. Does(p, "make")'
      BY <1>2, <2>4 DEF Does
    <3>3. CallTells(p)'
      BY <1>2, <1>5, <1>6, <2>5, <2>7, <3>2 DEF CallTells, At, IsMaking, Disposal, Making,
         Creating
    <3>4. \A w \in targets'.todo : Begun(w)
      BY <1>4 DEF CallsTell
    <3>5. \A q \in Actors \ {p} : info'[q].exiting = info[q].exiting
      <4>1. info[t].exiting = FALSE /\ info'[t].exiting = FALSE
        BY <1>2, <2>5 DEF NoInfo
      <4> QED BY <2>5, <4>1
    <3> QED BY <1>5, <2>4, <2>7, <2>8, <3>1, <3>3, <3>4, <3>5, CallsRest DEF Threads, Actors
  <2>11. Reserved(t)' /\ \A w : w # t => (Reserved(w)' <=> Reserved(w))
    BY <1>1, <1>2, <2>4, <2>7 DEF Reserved, Arg, Threads, Actors
  <2>12. \A w \in Actors \ {t} : (Owning(w)' <=> Owning(w)) /\ (Listed(w)' <=> Listed(w)) /\ info'[w].th = info[w].th
    BY <1>4, <2>5, <2>11 DEF Owning, Listed
  <2>13. MemoryIsOwned'
    <3>1. mem'[m] = "mapped" /\ \A x \in Mems \ {m} : mem'[x] = mem[x]
      BY <1>3, <2>2, <2>4
    <3>2. \A w \in Actors : Owning(w)' => mem'[info'[w].th] = "mapped"
      <4>1. ASSUME NEW w \in Actors, Owning(w)', w # t PROVE mem'[info'[w].th] = "mapped"
        <5>1. Owning(w) /\ info'[w].th = info[w].th
          BY <2>12, <4>1
        <5>2. info[w].th \in Mems /\ info[w].th # m
          BY <2>2, <5>1, OwnedMems
        <5> QED BY <3>1, <5>1, <5>2 DEF MemoryIsOwned
      <4> QED BY <2>5, <3>1, <4>1
    <3>3. \A w, u \in Actors : Owning(w)' /\ Owning(u)' /\ info'[w].th = info'[u].th => w = u
      BY <2>2, <2>5, <2>12 DEF MemoryIsOwned
    <3>4. ASSUME NEW q \in Threads, loc'[q].reuse # 0
          PROVE  /\ mem'[loc'[q].reuse] = "mapped"
                 /\ \A w \in Actors : Owning(w)' => info'[w].th # loc'[q].reuse
                 /\ \A w \in Threads : loc'[w].reuse = loc'[q].reuse => w = q
                 /\ \A i \in DOMAIN reg'.recycled : reg'.recycled[i] # loc'[q].reuse
      <4>1. q # p /\ loc'[q].reuse = loc[q].reuse
        BY <1>5, <3>4 DEF Actors
      <4>2. loc[q].reuse \in Mems /\ loc[q].reuse # m
        <5>1. loc[q].reuse \in Mems \cup {0}
          BY <1>3 DEF Locals, Actors
        <5> QED BY <2>2, <3>4, <4>1, <5>1
      <4>3. mem'[loc'[q].reuse] = "mapped"
        BY <3>1, <3>4, <4>1, <4>2 DEF MemoryIsOwned
      <4>4. \A w \in Actors : Owning(w)' => info'[w].th # loc'[q].reuse
        BY <2>5, <2>12, <3>4, <4>1, <4>2 DEF MemoryIsOwned
      <4>5. \A w \in Threads : loc'[w].reuse = loc'[q].reuse => w = q
        BY <1>5, <3>4, <4>1 DEF MemoryIsOwned, Actors
      <4>6. \A i \in DOMAIN reg'.recycled : reg'.recycled[i] # loc'[q].reuse
        BY <2>6, <3>4, <4>1 DEF MemoryIsOwned
      <4> QED BY <4>3, <4>4, <4>5, <4>6
    <3>5. \A i \in DOMAIN reg'.recycled :
            /\ mem'[reg'.recycled[i]] = "mapped"
            /\ \A w \in Actors : Owning(w)' => info'[w].th # reg'.recycled[i]
            /\ \A j \in DOMAIN reg'.recycled : reg'.recycled[j] = reg'.recycled[i] => j = i
      <4>1. \A i \in DOMAIN reg.recycled : reg.recycled[i] \in Mems
        BY <1>3, RegTypes
      <4>2. TAKE i \in DOMAIN reg'.recycled
      <4>3. mem'[reg'.recycled[i]] = "mapped"
        <5>1. reg'.recycled[i] = reg.recycled[i] /\ reg.recycled[i] \in Mems \ {m} /\ mem[reg.recycled[i]] = "mapped"
          BY <2>2, <2>6, <4>1 DEF MemoryIsOwned
        <5> QED BY <3>1, <5>1
      <4>4. \A w \in Actors : Owning(w)' => info'[w].th # reg'.recycled[i]
        BY <2>2, <2>5, <2>6, <2>12 DEF MemoryIsOwned
      <4>5. \A j \in DOMAIN reg'.recycled : reg'.recycled[j] = reg'.recycled[i] => j = i
        BY <2>6 DEF MemoryIsOwned
      <4> QED BY <4>3, <4>4, <4>5
    <3> QED BY <3>2, <3>3, <3>4, <3>5 DEF MemoryIsOwned
  <2>14. ListIsExact'
    <3>1. Listed(t)' /\ ~Listed(t)
      BY <1>2, <2>2, <2>5, <2>11 DEF Listed
    <3>2. \A e \in reg.all : e[2] \in Actors
      BY <1>3, RegTypes
    <3>3. \A e \in reg'.all : Listed(e[2])' /\ e[1] = info'[e[2]].th
      <4>1. TAKE e \in reg'.all
      <4>2. CASE e = <<m, t>>
        BY <2>5, <3>1, <4>2
      <4>3. CASE e \in reg.all
        <5>1. e[2] \in Actors /\ e[2] # t /\ e[1] = info[e[2]].th /\ Listed(e[2])
          BY <3>1, <3>2, <4>3 DEF ListIsExact
        <5> QED BY <2>12, <5>1
      <4> QED BY <2>6, <4>2, <4>3
    <3>4. \A w \in Actors : Listed(w)' => <<info'[w].th, w>> \in reg'.all
      BY <2>5, <2>6, <2>12 DEF ListIsExact
    <3> QED BY <3>3, <3>4 DEF ListIsExact
  <2>15. ResultsAreFinal'
    BY <1>2, <2>4, <2>5, <2>7, ResultsRest DEF Final, Actors, Threads
  <2>16. JoinedOnce'
    BY <1>2, <1>4, <1>5, <1>6, <2>5, <2>6, <2>7, JoinedRest DEF Finished, Final, Actors,
       Threads, LispTells
  <2>17. MakesAreNew'
    <3>1. ASSUME NEW q \in Threads, NEW i \in DOMAIN left[q], Makes(q, i), i # 1 \/ pc'[q] \notin Creating
          PROVE  pc'[left[q][i].to] = "unborn" /\ info'[left[q][i].to] = NoInfo
      <4>1. left[q][i].to \in Lisp
        BY <3>1 DEF MakesAreNew
      <4>2. left[q][i].to # t
        BY <1>2, <2>7, <3>1 DEF Creating
      <4>3. i # 1 \/ pc[q] \notin Creating
        BY <1>2, <2>7, <3>1 DEF Creating, Actors
      <4>4. pc[left[q][i].to] = "unborn" /\ info[left[q][i].to] = NoInfo
        BY <3>1, <4>3 DEF MakesAreNew
      <4>5. left[q][i].to # p /\ left[q][i].to \in Actors
        BY <1>2, <4>1, <4>4 DEF Actors, Threads
      <4> QED BY <2>5, <2>7, <4>2, <4>4, <4>5
    <3>2. ASSUME NEW q \in Threads, pc'[q] \in Creating
          PROVE  IF pc'[q] = "created" THEN pc'[Arg(q)'] # "unborn"
                 ELSE pc'[Arg(q)'] = "unborn" /\ info'[Arg(q)'].th # 0
      <4>1. Arg(q)' = Arg(q)
        BY <2>4 DEF Arg
      <4>2. CASE q = p
        BY <1>1, <1>2, <2>2, <2>5, <2>7, <4>1, <4>2
      <4>3. CASE q # p
        <5>1. pc'[q] = pc[q] /\ q \in Actors
          BY <2>7, <4>3 DEF Actors
        <5>2. Arg(q) \in Actors /\ Arg(q) # t
          BY <1>2, <3>2, <4>3, <5>1, Maker DEF Making
        <5>3. IF pc[q] = "created" THEN pc[Arg(q)] # "unborn" ELSE pc[Arg(q)] = "unborn" /\ info[Arg(q)].th # 0
          BY <3>2, <5>1 DEF MakesAreNew
        <5>4. pc'[Arg(q)] = "unborn" <=> pc[Arg(q)] = "unborn"
          BY <1>2, <2>7, <5>2
        <5> QED BY <2>5, <4>1, <5>1, <5>2, <5>3, <5>4
      <4> QED BY <4>2, <4>3
    <3> QED BY <2>4, <3>1, <3>2 DEF MakesAreNew, Makes
  <2>18. NothingGoesWrong'
    BY <2>4 DEF NothingGoesWrong
  <2> QED BY <2>8, <2>9, <2>10, <2>13, <2>14, <2>15, <2>16, <2>17, <2>18
<1> QED BY <1>7, <1>8

\* pthread_create, which starts the new thread or fails.
LEMMA LockCreateKeeps ==
  ASSUME IInv, NEW p \in Actors, LockCreate(p)
  PROVE  IInv'
<1> USE ThreadsAssumption DEF IInv
<1>1. PICK t : t = Arg(p)
  OBVIOUS
<1>2. /\ pc[p] = "create" /\ p \in Threads /\ p \notin Foreign /\ Tells(p) /\ CallTells(p) /\ left[p] # << >>
      /\ t \in Lisp /\ t \in Actors /\ t # p /\ Tells(t) /\ pc[t] = "unborn" /\ info[t].th # 0 /\ os[t] = "none"
      /\ Reserved(t) /\ Does(p, "make")
      /\ \A q \in Threads : \A j \in DOMAIN left[q] : Makes(q, j) /\ left[q][j].to = t => q = p /\ j = 1
      /\ \A q \in Threads : pc[q] \in Making /\ Arg(q) = t => q = p
  BY <1>1, Maker DEF LockCreate, Making, Creating
<1>3. /\ pc \in [Actors -> Places] /\ reg \in Regs /\ os \in [Actors -> {"none", "live", "exited", "joined"}]
  BY DEF TypeOK
<1>4. /\ left' = left /\ loc' = loc /\ info' = info /\ mem' = mem /\ targets' = targets /\ log' = log
  BY DEF LockCreate
\* Whether or not pthread_create succeeds, the structure stays that of t.
<1>5. PICK l \in {"created", "failed"}, born \in {"born", "unborn"} :
        /\ pc'[p] = l /\ pc'[t] = born /\ pc' \in [Actors -> Places]
        /\ \A q \in Actors \ {p, t} : pc'[q] = pc[q]
        /\ l = "created" <=> born = "born"
        /\ os'[t] = (IF l = "created" THEN "live" ELSE "none") /\ \A q \in Actors \ {t} : os'[q] = os[q]
        /\ os' \in [Actors -> {"none", "live", "exited", "joined"}]
        /\ reg' \in Regs /\ reg'.all = reg.all /\ reg'.joinable = reg.joinable /\ reg'.recycled = reg.recycled
  <2>1. CASE /\ pc' = [pc EXCEPT ![p] = "created", ![t] = "born"] /\ os' = [os EXCEPT ![t] = "live"]
             /\ reg' = [reg EXCEPT !.starting = @ \cup {t}]
    <3>1. reg.starting \cup {t} \in SUBSET Actors
      BY <1>2, <1>3 DEF Regs
    <3>2. reg' \in Regs /\ reg'.all = reg.all /\ reg'.joinable = reg.joinable /\ reg'.recycled = reg.recycled
      BY <1>3, <2>1, <3>1 DEF Regs
    <3>3. pc'[p] = "created" /\ pc'[t] = "born" /\ pc' \in [Actors -> Places] /\ \A q \in Actors \ {p, t} : pc'[q] = pc[q]
      BY <1>2, <1>3, <2>1, PlaceNames
    <3>4. os'[t] = "live" /\ (\A q \in Actors \ {t} : os'[q] = os[q]) /\ os' \in [Actors -> {"none", "live", "exited", "joined"}]
      BY <1>2, <1>3, <2>1
    <3> QED BY <3>2, <3>3, <3>4
  <2>2. CASE pc' = [pc EXCEPT ![p] = "failed"] /\ os' = os /\ reg' = reg
    BY <1>2, <1>3, <2>2, PlaceNames
  <2> QED BY <1>1, <2>1, <2>2 DEF LockCreate, Goto
<1>6. TypeOK'
  BY <1>4, <1>5 DEF TypeOK
<1>7. PlacesTell'
  <2>1. Tells(p)'
    BY <1>2, <1>4, <1>5 DEF Tells, LispTells, MainTells, Starting, Working, Dying, Finished,
       Final,
       Disposal, Making, Creating
  <2>2. Tells(t)'
    BY <1>2, <1>4, <1>5 DEF Tells, LispTells, Starting, Working, Dying, Finished, Final,
       Disposal,
       Making, Creating
  <2>3. ASSUME NEW w \in Actors, w # p, w # t PROVE Tells(w)'
    BY <1>4, <1>5, <2>3, RestTells DEF Rests, PlacesTell
  <2> QED BY <2>1, <2>2, <2>3 DEF PlacesTell
<1>8. CallsTell'
  <2>1. Onward
    BY <1>2, <1>5 DEF Onward, Begun, Final, Actors, Threads
  <2>2. Does(p, "make")'
    BY <1>2, <1>4 DEF Does
  <2>3. CallTells(p)'
    BY <1>2, <1>4, <1>5, <2>2 DEF CallTells, At, IsMaking, Disposal, Making, Creating
  <2>4. ASSUME NEW q \in Threads, q # p, q # t PROVE CallTells(q)'
    BY <1>4, <1>5, <2>1, <2>4, RestCall DEF CallsTell, Actors
  <2>5. CallTells(t)'
    BY <1>2, <1>4, <1>5 DEF CallsTell, CallTells, Threads, At, IsMaking, Disposal, Making,
       Creating
  <2>6. \A w \in targets'.todo : Begun(w)'
    <3>1. targets.todo \subseteq Actors
      BY DEF TypeOK, Plans
    <3> QED BY <1>4, <2>1, <3>1 DEF CallsTell, Onward
  <2> QED BY <2>3, <2>4, <2>5, <2>6 DEF CallsTell
<1>9. \A w \in Actors : w # t => (Reserved(w)' <=> Reserved(w))
  BY <1>1, <1>2, <1>4, <1>5 DEF Reserved, Arg, Threads, Actors
<1>10. pc'[p] = "failed" => Reserved(t)'
  BY <1>1, <1>2, <1>4 DEF Reserved, Arg
<1>11. \A w \in Actors : (Owning(w)' <=> Owning(w)) /\ (Listed(w)' <=> Listed(w))
  <2>1. Owning(t) /\ Owning(t)'
    BY <1>2, <1>4, <1>5, <1>10 DEF Owning
  <2>2. Listed(t) <=> Listed(t)'
    BY <1>2, <1>4, <1>5, <1>10 DEF Listed
  <2> QED BY <1>4, <1>5, <1>9, <2>1, <2>2 DEF Owning, Listed
<1>12. MemoryIsOwned'
  BY <1>4, <1>5, <1>11, MemoryRests
<1>13. ListIsExact'
  BY <1>4, <1>5, <1>11, ListRests
<1>14. ResultsAreFinal'
  BY <1>2, <1>4, <1>5, ResultsRest DEF Final, Actors, Threads
<1>15. JoinedOnce'
  BY <1>2, <1>4, <1>5, JoinedRest DEF Finished, Final, Actors, Threads
<1>16. MakesAreNew'
  <2>1. ASSUME NEW q \in Threads, NEW i \in DOMAIN left[q], Makes(q, i), i # 1 \/ pc'[q] \notin Creating
        PROVE  pc'[left[q][i].to] = "unborn" /\ info'[left[q][i].to] = NoInfo
    <3>1. left[q][i].to \in Lisp
      BY <2>1 DEF MakesAreNew
    <3>2. left[q][i].to # t
      BY <1>2, <1>5, <2>1 DEF Creating
    <3>3. i # 1 \/ pc[q] \notin Creating
      BY <1>2, <1>5, <2>1 DEF Creating, Actors
    <3>4. pc[left[q][i].to] = "unborn" /\ info[left[q][i].to] = NoInfo
      BY <2>1, <3>3 DEF MakesAreNew
    <3>5. left[q][i].to # p /\ left[q][i].to \in Actors
      BY <1>2, <3>1, <3>4 DEF Actors, Threads
    <3> QED BY <1>4, <1>5, <3>2, <3>4, <3>5
  <2>2. ASSUME NEW q \in Threads, pc'[q] \in Creating
        PROVE  IF pc'[q] = "created" THEN pc'[Arg(q)'] # "unborn"
               ELSE pc'[Arg(q)'] = "unborn" /\ info'[Arg(q)'].th # 0
    <3>1. Arg(q)' = Arg(q)
      BY <1>4 DEF Arg
    <3>2. CASE q = p
      BY <1>1, <1>2, <1>4, <1>5, <3>1, <3>2
    <3>3. CASE q # p
      <4>1. pc'[q] = pc[q] /\ q \in Actors
        BY <1>2, <1>5, <2>2, <3>3 DEF Actors, Creating
      <4>2. Arg(q) \in Actors /\ Arg(q) # t
        BY <1>2, <2>2, <3>3, <4>1, Maker DEF Making
      <4>3. IF pc[q] = "created" THEN pc[Arg(q)] # "unborn" ELSE pc[Arg(q)] = "unborn" /\ info[Arg(q)].th # 0
        BY <2>2, <4>1 DEF MakesAreNew
      <4>4. pc'[Arg(q)] = "unborn" <=> pc[Arg(q)] = "unborn"
        BY <1>2, <1>5, <4>2
      <4> QED BY <1>4, <3>1, <4>1, <4>3, <4>4
    <3> QED BY <3>2, <3>3
  <2> QED BY <1>4, <2>1, <2>2 DEF MakesAreNew, Makes
<1>17. NothingGoesWrong'
  BY <1>4 DEF NothingGoesWrong
<1> QED BY <1>6, <1>7, <1>8, <1>12, <1>13, <1>14, <1>15, <1>16, <1>17

\* After a failed pthread_create the structure is unmapped.
LEMMA CreateFailedKeeps ==
  ASSUME IInv, NEW p \in Actors, CreateFailed(p)
  PROVE  IInv'
<1> USE ThreadsAssumption DEF IInv
<1>1. PICK t, m : t = Arg(p) /\ m = info[t].th
  OBVIOUS
<1>2. /\ pc[p] = "failed" /\ p \in Threads /\ p \notin Foreign /\ Tells(p) /\ CallTells(p) /\ left[p] # << >>
      /\ t \in Lisp /\ t \in Actors /\ t # p /\ Tells(t) /\ pc[t] = "unborn" /\ info[t].th # 0 /\ os[t] = "none"
      /\ Reserved(t)
      /\ \A q \in Threads : pc[q] \in Making /\ Arg(q) = t => q = p
  BY <1>1, Maker DEF CreateFailed, Making, Creating
<1>3. /\ pc \in [Actors -> Places] /\ reg \in Regs /\ mem \in [Mems -> {"free", "mapped"}]
  BY DEF TypeOK
<1>4. info[t].prim = m /\ Listed(t) /\ Owning(t)
  BY <1>1, <1>2 DEF Tells, LispTells, Listed, Owning
<1>5. Find(m) = {<<m, t>>} /\ m \in Mems
  BY <1>1, <1>2, <1>4, FoundOnce, OwnedMems
<1>6. /\ pc' = [pc EXCEPT ![p] = "body"] /\ left' = [left EXCEPT ![p] = Tail(@)]
      /\ reg' = [reg EXCEPT !.all = @ \ {<<m, t>>}] /\ mem' = [mem EXCEPT ![m] = "free"]
      /\ loc' = loc /\ info' = info /\ os' = os /\ targets' = targets /\ log' = log
  BY <1>1, <1>4, <1>5 DEF CreateFailed, Done, Goto, Blame
<1>7. pc'[p] = "body" /\ \A q \in Actors \ {p} : pc'[q] = pc[q] /\ left'[q] = left[q]
  BY <1>3, <1>6 DEF TypeOK
<1>8. /\ reg' \in Regs /\ reg'.all = reg.all \ {<<m, t>>} /\ reg'.joinable = reg.joinable
      /\ reg'.recycled = reg.recycled
  BY <1>3, <1>6 DEF Regs
<1>9. TypeOK'
  <2>1. [left EXCEPT ![p] = Tail(@)] \in [Actors -> Seq(Calling)]
    BY <1>2, ScriptTypes
  <2> QED BY <1>3, <1>5, <1>6, <1>8, <2>1, PlaceNames DEF TypeOK
<1>10. PlacesTell'
  <2>1. Tells(p)'
    BY <1>2, <1>6, <1>7 DEF Tells, LispTells, MainTells, Starting, Working, Dying, Finished,
       Final,
       Disposal, Making, Creating
  <2>2. ASSUME NEW w \in Actors, w # p PROVE Tells(w)'
    BY <1>6, <1>7, <2>2, RestTells DEF Rests, PlacesTell
  <2> QED BY <2>1, <2>2 DEF PlacesTell
<1>11. CallsTell'
  <2>1. Onward
    BY <1>2, <1>7 DEF Onward, Begun, Final, Actors, Threads
  <2>2. CallTells(p)'
    BY <1>2, <1>6, <1>7 DEF CallTells, At, IsMaking, Disposal, Making, Creating
  <2>3. \A w \in targets'.todo : Begun(w)
    BY <1>6 DEF CallsTell
  <2> QED BY <1>6, <1>7, <1>9, <2>1, <2>2, <2>3, CallsRest DEF Threads, Actors
<1>12. ~Reserved(t)' /\ \A w \in Actors \ {t} : Reserved(w)' <=> Reserved(w)
  <2>1. \A q \in Threads \ {p} : pc'[q] = pc[q] /\ Arg(q)' = Arg(q)
    BY <1>7 DEF Arg, Threads, Actors
  <2> QED BY <1>1, <1>2, <1>7, <2>1 DEF Reserved, Making, Creating
<1>13. \A w \in Actors \ {t} : (Owning(w)' <=> Owning(w)) /\ (Listed(w)' <=> Listed(w)) /\ info'[w].th = info[w].th
  BY <1>6, <1>12 DEF Owning, Listed
<1>14. ~Owning(t)' /\ ~Listed(t)'
  BY <1>2, <1>6, <1>12 DEF Owning, Listed
<1>15. MemoryIsOwned'
  <2>1. \A x \in Mems \ {m} : mem'[x] = mem[x]
    BY <1>3, <1>6
  <2>2. \A w \in Actors : Owning(w)' => Owning(w) /\ info[w].th # m /\ info[w].th \in Mems
    BY <1>1, <1>2, <1>4, <1>13, <1>14, OwnedMems DEF MemoryIsOwned
  <2>3. \A q \in Threads : loc[q].reuse # 0 => loc[q].reuse # m /\ loc[q].reuse \in Mems
    <3>1. \A q \in Threads : loc[q].reuse \in Mems \cup {0}
      BY DEF TypeOK, Locals, Actors
    <3> QED BY <1>1, <1>2, <1>4, <3>1 DEF MemoryIsOwned
  <2>4. \A i \in DOMAIN reg.recycled : reg.recycled[i] # m /\ reg.recycled[i] \in Mems
    <3>1. \A i \in DOMAIN reg.recycled : reg.recycled[i] \in Mems
      BY <1>3, RegTypes
    <3> QED BY <1>1, <1>2, <1>4, <3>1 DEF MemoryIsOwned
  <2>5. \A w \in Actors : Owning(w)' => mem'[info'[w].th] = "mapped"
    BY <1>6, <2>1, <2>2 DEF MemoryIsOwned
  <2>6. \A w, u \in Actors : Owning(w)' /\ Owning(u)' /\ info'[w].th = info'[u].th => w = u
    BY <1>6, <2>2 DEF MemoryIsOwned
  <2>7. \A q \in Threads : loc'[q].reuse # 0 =>
          /\ mem'[loc'[q].reuse] = "mapped"
          /\ \A w \in Actors : Owning(w)' => info'[w].th # loc'[q].reuse
          /\ \A w \in Threads : loc'[w].reuse = loc'[q].reuse => w = q
          /\ \A i \in DOMAIN reg'.recycled : reg'.recycled[i] # loc'[q].reuse
    BY <1>6, <1>8, <2>1, <2>2, <2>3 DEF MemoryIsOwned
  <2>8. \A i \in DOMAIN reg'.recycled :
          /\ mem'[reg'.recycled[i]] = "mapped"
          /\ \A w \in Actors : Owning(w)' => info'[w].th # reg'.recycled[i]
          /\ \A j \in DOMAIN reg'.recycled : reg'.recycled[j] = reg'.recycled[i] => j = i
    BY <1>6, <1>8, <2>1, <2>2, <2>4 DEF MemoryIsOwned
  <2> QED BY <2>5, <2>6, <2>7, <2>8 DEF MemoryIsOwned
<1>16. ListIsExact'
  <2>1. \A e \in reg.all : e[2] \in Actors /\ e = <<e[1], e[2]>>
    BY <1>3, RegTypes
  <2>2. \A e \in reg.all : e # <<m, t>> => e[2] # t
    BY <1>1, <2>1 DEF ListIsExact
  <2> QED BY <1>8, <1>13, <1>14, <2>1, <2>2 DEF ListIsExact
<1>17. ResultsAreFinal'
  BY <1>2, <1>6, <1>7, ResultsRest DEF Final, Actors, Threads
<1>18. JoinedOnce'
  BY <1>2, <1>6, <1>7, <1>8, JoinedRest DEF Finished, Final, Actors, Threads
<1>19. MakesAreNew'
  <2>1. left'[p] = Tail(left[p])
    BY <1>6 DEF TypeOK
  <2>2. Steady(p)
    BY <1>2, <1>6, <1>7, <2>1 DEF Steady, Creating, Actors, Threads
  <2> QED BY <2>2, SteadyMakes
<1>20. NothingGoesWrong'
  BY <1>6 DEF NothingGoesWrong
<1> QED BY <1>9, <1>10, <1>11, <1>15, <1>16, <1>17, <1>18, <1>19, <1>20

-----------------------------------------------------------------------------
(* The end of a thread.                                                    *)

\* A thread dies to Lisp: its address goes to the stash, and nobody signals it any more.
LEMMA DieKeeps ==
  ASSUME IInv, NEW p \in Actors, Die(p)
  PROVE  IInv'
<1> USE ThreadsAssumption DEF IInv
<1>1. /\ Tells(p) /\ (p \in Threads => CallTells(p)) /\ p \in Lisp \cup Foreign /\ p # Main /\ pc[p] = "exit"
      /\ ~info[p].exiting
  BY DEF PlacesTell, CallsTell, Tells, MainTells, Die, Threads, Actors
<1>2. /\ pc \in [Actors -> Places] /\ info \in [Actors -> Infos] /\ info[p] \in Infos
  BY DEF TypeOK
<1>3. info[p].prim = info[p].th /\ info[p].th # 0 /\ info[p].stash = 0 /\ os[p] = "live"
  BY <1>1 DEF Tells, LispTells, ForeignTells, Working
<1>4. PICK l \in {"leave", "vanish"} : pc' = [pc EXCEPT ![p] = l] /\ (l = "leave" <=> p \in Lisp)
  BY DEF Die, Goto
<1>5. /\ info' = [info EXCEPT ![p] = [info[p] EXCEPT !.stash = info[p].prim, !.prim = 0, !.ints = << >>, !.sigurg = FALSE]]
      /\ left' = left /\ loc' = loc /\ os' = os /\ mem' = mem /\ reg' = reg /\ targets' = targets /\ log' = log
  BY DEF Die, Set
<1>6. pc'[p] = l /\ pc' \in [Actors -> Places] /\ \A q \in Actors \ {p} : pc'[q] = pc[q]
  BY <1>2, <1>4, PlaceNames
<1>7. /\ info' \in [Actors -> Infos] /\ \A w \in Actors \ {p} : info'[w] = info[w]
      /\ info'[p].visible = info[p].visible /\ info'[p].prim = 0 /\ info'[p].stash = info[p].th
      /\ info'[p].th = info[p].th /\ info'[p].sem = info[p].sem /\ info'[p].posted = info[p].posted
      /\ info'[p].result = info[p].result /\ info'[p].exiting = info[p].exiting /\ info'[p].sigurg = FALSE
  <2>1. << >> \in Seq({"nop", "abort", "end"})
    OBVIOUS
  <2> QED BY <1>2, <1>3, <1>5, <2>1 DEF Infos
<1>8. TypeOK'
  BY <1>5, <1>6, <1>7 DEF TypeOK
<1>9. PlacesTell'
  <2>1. Tells(p)'
    BY <1>1, <1>3, <1>4, <1>5, <1>6, <1>7 DEF Tells, LispTells, ForeignTells, Starting,
       Working, Dying,
       Finished, Final, Disposal, Making, Creating
  <2>2. ASSUME NEW w \in Actors, w # p PROVE Tells(w)'
    BY <1>5, <1>6, <1>7, <2>2, RestTells DEF Rests, PlacesTell
  <2> QED BY <2>1, <2>2 DEF PlacesTell
<1>10. CallsTell'
  <2>1. Onward
    BY <1>1, <1>6 DEF Onward, Begun, Final, Actors, Threads
  <2>2. p \in Threads => CallTells(p)'
    BY <1>1, <1>5, <1>6, <1>7 DEF CallTells, At, IsMaking, Disposal, Making, Creating
  <2>3. \A w \in targets'.todo : Begun(w)
    BY <1>5 DEF CallsTell
  <2> QED BY <1>5, <1>6, <1>7, <1>8, <2>1, <2>2, <2>3, CallsRest DEF Threads, Actors
<1>11. \A t : Reserved(t)' <=> Reserved(t)
  BY <1>1, <1>5, <1>6 DEF Reserved, Arg, Threads, Actors
<1>12. \A t \in Actors : (Owning(t)' <=> Owning(t)) /\ (Listed(t)' <=> Listed(t)) /\ info'[t].th = info[t].th
  <2>1. (Listed(p)' <=> Listed(p)) /\ info'[p].th = info[p].th
    BY <1>3, <1>5, <1>7, <1>11 DEF Listed
  <2> QED BY <1>5, <1>7, <1>11, <2>1 DEF Owning, Listed
<1>13. MemoryIsOwned'
  BY <1>5, <1>12, MemoryRests
<1>14. ListIsExact'
  BY <1>5, <1>12, ListRests
<1>15. ResultsAreFinal'
  BY <1>1, <1>5, <1>6, <1>7, ResultsRest DEF Final, Actors, Threads
<1>16. JoinedOnce'
  BY <1>1, <1>3, <1>5, <1>6, <1>7, JoinedRest DEF Finished, Final, Actors, Threads
<1>17. MakesAreNew'
  <2>1. Steady(p)
    BY <1>1, <1>5, <1>6, <1>7 DEF Steady, Creating, Actors, Threads
  <2> QED BY <2>1, SteadyMakes
<1>18. NothingGoesWrong'
  BY <1>5 DEF NothingGoesWrong
<1> QED BY <1>8, <1>9, <1>10, <1>13, <1>14, <1>15, <1>16, <1>17, <1>18

\* A Lisp thread becomes invisible; a foreign one leaves *ALL-THREADS* itself.
LEMMA VanishKeeps ==
  ASSUME IInv, NEW p \in Actors, Vanish(p)
  PROVE  IInv'
<1> USE ThreadsAssumption DEF IInv
<1>1. /\ Tells(p) /\ (p \in Threads => CallTells(p)) /\ p \in Lisp \cup Foreign /\ p # Main /\ pc[p] = "vanish"
  BY DEF PlacesTell, CallsTell, Tells, MainTells, Working, Disposal, Making, Creating, Vanish,
     Threads,
     Actors
<1>2. /\ pc \in [Actors -> Places] /\ info \in [Actors -> Infos] /\ info[p] \in Infos /\ reg \in Regs
  BY DEF TypeOK
<1>3. CASE p \in Lisp
  <2>1. info[p].visible = 1
    BY <1>1, <1>3 DEF Tells, LispTells
  <2>2. /\ pc' = [pc EXCEPT ![p] = "push"] /\ info' = [info EXCEPT ![p] = [info[p] EXCEPT !.visible = -1]]
        /\ left' = left /\ loc' = loc /\ os' = os /\ mem' = mem /\ reg' = reg /\ targets' = targets /\ log' = log
    BY <1>3, <2>1 DEF Vanish, Goto, Set, Blame
  <2>3. /\ info' \in [Actors -> Infos] /\ \A w \in Actors \ {p} : info'[w] = info[w]
        /\ info'[p].prim = info[p].prim /\ info'[p].stash = info[p].stash
        /\ info'[p].th = info[p].th /\ info'[p].sem = info[p].sem /\ info'[p].posted = info[p].posted
        /\ info'[p].result = info[p].result /\ info'[p].exiting = info[p].exiting
        /\ info'[p].sigurg = info[p].sigurg /\ info'[p].ints = info[p].ints
    BY <1>2, <2>2 DEF Infos
  <2>4. pc'[p] = "push"
    BY <1>2, <2>2
  <2>5. TypeOK'
    BY <1>2, <2>2, <2>3, PlaceNames DEF TypeOK
  <2>6. Tells(p)'
    BY <1>1, <1>3, <2>2, <2>3, <2>4 DEF Tells, LispTells, Starting, Working, Dying, Finished,
       Final,
       Disposal, Making, Creating
  <2>7. CallTells(p)'
    BY <1>1, <1>3, <2>2, <2>3, <2>4 DEF CallTells, At, IsMaking, Threads, Disposal, Making,
       Creating
  <2>8. Quiet(p, p, "push")
    BY <1>1, <1>3, <2>2, <2>3 DEF Quiet, Begun, CallsTell, Creating, Final, Finished
  <2> QED BY <2>5, <2>6, <2>7, <2>8, PlaceNames, QuietKeeps
<1>4. CASE p \notin Lisp
  <2>1. PICK m : m = info[p].th
    OBVIOUS
  <2>2. p \in Foreign /\ p \notin Threads /\ info[p].stash = m /\ info[p].prim = 0 /\ m # 0 /\ os[p] = "live"
    BY <1>1, <1>4, <2>1 DEF Tells, ForeignTells, Threads
  <2>3. Listed(p) /\ Find(m) = {<<m, p>>}
    BY <2>1, <2>2, FoundOnce DEF Listed
  <2>4. /\ pc' = [pc EXCEPT ![p] = "unregister"] /\ info' = [info EXCEPT ![p] = [info[p] EXCEPT !.visible = 0, !.stash = 0]]
        /\ reg' = [reg EXCEPT !.all = @ \ {<<m, p>>}] /\ log' = log
        /\ left' = left /\ loc' = loc /\ os' = os /\ mem' = mem /\ targets' = targets
    BY <1>4, <2>2, <2>3 DEF Vanish, Goto, Set, Blame
  <2>5. /\ info' \in [Actors -> Infos] /\ \A w \in Actors \ {p} : info'[w] = info[w]
        /\ info'[p].prim = 0 /\ info'[p].stash = 0
        /\ info'[p].th = info[p].th /\ info'[p].sem = info[p].sem /\ info'[p].posted = info[p].posted
        /\ info'[p].result = info[p].result /\ info'[p].exiting = info[p].exiting
        /\ info'[p].sigurg = info[p].sigurg /\ info'[p].ints = info[p].ints
    BY <1>2, <2>2, <2>4 DEF Infos
  <2>6. pc'[p] = "unregister" /\ pc' \in [Actors -> Places] /\ \A q \in Actors \ {p} : pc'[q] = pc[q]
    BY <1>2, <2>4, PlaceNames
  <2>7. /\ reg' \in Regs /\ reg'.all = reg.all \ {<<m, p>>} /\ reg'.joinable = reg.joinable
        /\ reg'.recycled = reg.recycled
    BY <1>2, <2>4 DEF Regs
  <2>8. TypeOK'
    BY <2>4, <2>5, <2>6, <2>7 DEF TypeOK
  <2>9. PlacesTell'
    <3>1. Tells(p)'
      BY <1>1, <1>4, <2>2, <2>4, <2>5, <2>6 DEF Tells, ForeignTells
    <3>2. ASSUME NEW w \in Actors, w # p PROVE Tells(w)'
      BY <2>4, <2>5, <2>6, <3>2, RestTells DEF Rests, PlacesTell
    <3> QED BY <3>1, <3>2 DEF PlacesTell
  <2>10. CallsTell'
    <3>1. Onward
      BY <1>1, <2>2, <2>6 DEF Onward, Begun, Final, Actors, Threads
    <3>2. \A w \in targets'.todo : Begun(w)
      BY <2>4 DEF CallsTell
    <3> QED BY <2>2, <2>4, <2>5, <2>6, <2>8, <3>1, <3>2, CallsRest DEF Threads, Actors
  <2>11. \A t : Reserved(t)' <=> Reserved(t)
    BY <2>2, <2>4, <2>6 DEF Reserved, Arg, Threads, Actors
  <2>12. MemoryIsOwned'
    <3>1. \A t \in Actors : info'[t].th = info[t].th
      BY <2>5
    <3> QED BY <2>4, <2>7, <2>11, <3>1, MemoryRests DEF Owning
  <2>13. ListIsExact'
    <3>1. ~Listed(p)'
      BY <2>5 DEF Listed
    <3>2. \A t \in Actors \ {p} : (Listed(t)' <=> Listed(t)) /\ info'[t].th = info[t].th
      BY <2>4, <2>5, <2>11 DEF Listed
    <3>3. \A e \in reg.all : e[2] \in Actors /\ e = <<e[1], e[2]>>
      BY <1>2, RegTypes
    <3>4. \A e \in reg.all : e # <<m, p>> => e[2] # p
      BY <2>1, <3>3 DEF ListIsExact
    <3> QED BY <2>7, <3>1, <3>2, <3>3, <3>4 DEF ListIsExact
  <2>14. ResultsAreFinal'
    BY <1>4, <2>4, <2>5, <2>6, ResultsRest DEF Actors, Threads
  <2>15. JoinedOnce'
    BY <1>4, <2>2, <2>4, <2>5, <2>6, <2>7, JoinedRest DEF Actors, Threads
  <2>16. MakesAreNew'
    <3>1. Steady(p)
      BY <1>1, <1>4, <2>4, <2>5, <2>6 DEF Steady, Creating, Actors, Threads
    <3> QED BY <3>1, SteadyMakes
  <2>17. NothingGoesWrong'
    BY <2>4 DEF NothingGoesWrong
  <2> QED BY <2>8, <2>9, <2>10, <2>12, <2>13, <2>14, <2>15, <2>16, <2>17
<1> QED BY <1>3, <1>4

\* A finished thread goes to *JOINABLE-THREADS*, where it was not.
LEMMA PushJoinableKeeps ==
  ASSUME IInv, NEW p \in Actors, PushJoinable(p)
  PROVE  IInv'
<1> USE ThreadsAssumption DEF IInv
<1>1. /\ Tells(p) /\ p \in Lisp /\ p # Main /\ p \notin Foreign /\ pc[p] = "push" /\ p \in Threads /\ CallTells(p)
  BY DEF PlacesTell, CallsTell, Tells, MainTells, ForeignTells, Working, Disposal, Making,
     Creating,
     PushJoinable, Threads, Actors
<1>2. /\ pc \in [Actors -> Places] /\ reg \in Regs /\ reg.joinable \in Seq(Lisp)
  BY RegTypes DEF TypeOK
<1>3. info[p].prim = 0 /\ info[p].stash = info[p].th /\ os[p] = "live"
  BY <1>1 DEF Tells, LispTells, Dying
<1>4. /\ pc' = [pc EXCEPT ![p] = "drop"] /\ reg' = [reg EXCEPT !.joinable = <<p>> \o @]
      /\ left' = left /\ loc' = loc /\ info' = info /\ os' = os /\ mem' = mem /\ targets' = targets /\ log' = log
  BY DEF PushJoinable, Goto
<1>5. pc'[p] = "drop" /\ pc' \in [Actors -> Places] /\ \A q \in Actors \ {p} : pc'[q] = pc[q]
  BY <1>2, <1>4, PlaceNames
<1>6. /\ <<p>> \o reg.joinable \in Seq(Lisp)
      /\ \A i \in DOMAIN (<<p>> \o reg.joinable) :
           \/ i = 1 /\ (<<p>> \o reg.joinable)[i] = p
           \/ i - 1 \in DOMAIN reg.joinable /\ i \in Nat /\ (<<p>> \o reg.joinable)[i] = reg.joinable[i - 1]
  BY <1>1, <1>2, SeqFacts
<1>7. /\ reg' \in Regs /\ reg'.all = reg.all /\ reg'.joinable = <<p>> \o reg.joinable /\ reg'.recycled = reg.recycled
  BY <1>2, <1>4, <1>6 DEF Regs
<1>8. TypeOK'
  BY <1>4, <1>5, <1>7 DEF TypeOK
<1>9. PlacesTell'
  <2>1. Tells(p)'
    BY <1>1, <1>4, <1>5 DEF Tells, LispTells, Starting, Working, Dying, Finished, Final,
       Disposal,
       Making, Creating
  <2>2. ASSUME NEW w \in Actors, w # p PROVE Tells(w)'
    BY <1>4, <1>5, <2>2, RestTells DEF Rests, PlacesTell
  <2> QED BY <2>1, <2>2 DEF PlacesTell
<1>10. CallsTell'
  <2>1. Onward
    BY <1>1, <1>5 DEF Onward, Begun, Final, Actors, Threads
  <2>2. CallTells(p)'
    BY <1>1, <1>4, <1>5 DEF CallTells, At, IsMaking, Disposal, Making, Creating
  <2>3. \A w \in targets'.todo : Begun(w)
    BY <1>4 DEF CallsTell
  <2> QED BY <1>4, <1>5, <1>8, <2>1, <2>2, <2>3, CallsRest DEF Threads, Actors
<1>11. \A t : Reserved(t)' <=> Reserved(t)
  BY <1>1, <1>4, <1>5 DEF Reserved, Arg, Threads, Actors
<1>12. MemoryIsOwned'
  BY <1>4, <1>7, <1>11, MemoryRests DEF Owning
<1>13. ListIsExact'
  BY <1>4, <1>7, <1>11, ListRests DEF Listed
<1>14. ResultsAreFinal'
  BY <1>1, <1>4, <1>5, ResultsRest DEF Final, Actors, Threads
<1>15. MakesAreNew'
  <2>1. Steady(p)
    BY <1>1, <1>4, <1>5 DEF Steady, Creating, Actors, Threads
  <2> QED BY <2>1, SteadyMakes
<1>16. JoinedOnce'
  <2>1. Unclaimed(p)' /\ ~(pc[p] \in Finished)
    BY <1>1, <1>3, <1>4, <1>5 DEF Unclaimed, Finished, Final
  <2>2. \A x \in Lisp : Unclaimed(x) => Unclaimed(x)' /\ x # p
    BY <1>4, <1>5, <2>1 DEF Unclaimed, Actors, Threads
  <2>3. \A q \in Threads : loc[q].corpse # p
    <3>1. ASSUME NEW q \in Threads, loc[q].corpse = p PROVE FALSE
      <4>1. p # Nobody
        BY <1>1 DEF Actors
      <4>2. pc[q] \in {"pjoin", "pwait"}
        BY <3>1, <4>1 DEF CallsTell, CallTells
      <4> QED BY <2>1, <3>1, <4>1, <4>2 DEF JoinedOnce, Unclaimed
    <3> QED BY <3>1
  <2>4. ASSUME NEW i \in DOMAIN reg'.joinable
        PROVE  /\ Unclaimed(reg.joinable[i])'
               /\ \A j \in DOMAIN reg'.joinable : reg'.joinable[j] = reg'.joinable[i] => j = i
               /\ \A q \in Threads : loc'[q].corpse # reg'.joinable[i]
    <3>1. CASE i = 1
      <4>1. reg'.joinable[i] = p
        BY <1>6, <1>7, <2>4, <3>1
      <4>2. \A j \in DOMAIN reg'.joinable : reg'.joinable[j] = p => j = 1
        <5>1. \A k \in DOMAIN reg.joinable : reg.joinable[k] # p
          <6>1. \A k \in DOMAIN reg.joinable : reg.joinable[k] \in Lisp
            BY <1>2, RegTypes
          <6> QED BY <2>2, <6>1 DEF JoinedOnce
        <5> QED BY <1>6, <1>7, <5>1
      <4>3. Unclaimed(reg.joinable[i])'
        BY <2>1, <4>1 DEF Unclaimed
      <4> QED BY <1>4, <2>3, <3>1, <4>1, <4>2, <4>3
    <3>2. CASE i # 1
      <4>1. i - 1 \in DOMAIN reg.joinable /\ i \in Nat /\ reg'.joinable[i] = reg.joinable[i - 1]
        BY <1>6, <1>7, <2>4, <3>2
      <4>2. PICK x \in Lisp : x = reg.joinable[i - 1]
        BY <1>2, <4>1, RegTypes
      <4>3. Unclaimed(x)' /\ x # p
        BY <2>2, <4>1, <4>2 DEF JoinedOnce
      <4>4. Unclaimed(reg.joinable[i])'
        BY <4>1, <4>2, <4>3 DEF Unclaimed
      <4>5. \A j \in DOMAIN reg'.joinable : reg'.joinable[j] = x => j = i
        <5>1. ASSUME NEW j \in DOMAIN reg'.joinable, reg'.joinable[j] = x PROVE j = i
          <6>1. j - 1 \in DOMAIN reg.joinable /\ j \in Nat /\ reg.joinable[j - 1] = x
            BY <1>6, <1>7, <4>3, <5>1
          <6>2. j - 1 = i - 1
            BY <4>1, <4>2, <6>1 DEF JoinedOnce
          <6> QED BY <4>1, <6>1, <6>2
        <5> QED BY <5>1
      <4>6. \A q \in Threads : loc'[q].corpse # x
        BY <1>4, <4>1, <4>2 DEF JoinedOnce
      <4> QED BY <4>1, <4>2, <4>4, <4>5, <4>6
    <3> QED BY <3>1, <3>2
  <2>5. ASSUME NEW q \in Threads, loc'[q].corpse # Nobody
        PROVE  /\ loc'[q].corpse \in Lisp
               /\ pc'[q] = "pjoin" => Unclaimed(loc[q].corpse)'
               /\ pc'[q] = "pwait" => /\ pc'[loc'[q].corpse] \in Finished
                                      /\ os'[loc'[q].corpse] \in {"live", "exited"}
                                      /\ info'[loc'[q].corpse].stash = 0
                                      /\ loc'[q].hand = info'[loc'[q].corpse].th
               /\ \A w \in Threads : loc'[w].corpse = loc'[q].corpse => w = q
    <3>1. PICK x \in Lisp : x = loc[q].corpse /\ x = loc'[q].corpse /\ x # Nobody /\ x # p
      BY <1>4, <2>3, <2>5 DEF JoinedOnce
    <3>2. pc[q] \in {"pjoin", "pwait"} /\ pc'[q] = pc[q]
      BY <1>1, <1>5, <3>1 DEF CallsTell, CallTells, Actors
    <3>3. pc[q] = "pjoin" => Unclaimed(x)
      BY <3>1 DEF JoinedOnce
    <3>4. pc[q] = "pjoin" => Unclaimed(x)'
      BY <2>2, <3>3
    <3>5. Unclaimed(x)' => Unclaimed(loc[q].corpse)'
      BY <3>1 DEF Unclaimed
    <3>6. pc'[x] = pc[x]
      BY <1>5, <3>1 DEF Actors, Threads
    <3> QED BY <1>4, <3>1, <3>2, <3>4, <3>5, <3>6 DEF JoinedOnce
  <2>6. \A t \in Lisp : os'[t] = "joined" => info'[t].stash = 0
    BY <1>4 DEF JoinedOnce
  <2> QED BY <2>4, <2>5, <2>6 DEF JoinedOnce, Unclaimed
<1>17. NothingGoesWrong'
  BY <1>4 DEF NothingGoesWrong
<1> QED BY <1>8, <1>9, <1>10, <1>12, <1>13, <1>14, <1>15, <1>16, <1>17

-----------------------------------------------------------------------------
(* Foreign threads.                                                        *)

\* What a foreign thread does concerns no other thread.
LEMMA ForeignRests ==
  ASSUME IInv, TypeOK', NEW f \in Foreign, Tells(f)', pc'[f] # "unborn",
         \A q \in Actors \ {f} : pc'[q] = pc[q] /\ info'[q] = info[q] /\ left'[q] = left[q],
         left'[f] = left[f] \/ (left'[f] = Tail(left[f]) /\ left[f] # << >>),
         loc' = loc, os' = os, targets' = targets, log' = log, reg'.joinable = reg.joinable
  PROVE  /\ PlacesTell' /\ CallsTell' /\ MakesAreNew' /\ JoinedOnce' /\ ResultsAreFinal' /\ NothingGoesWrong'
         /\ \A t : Reserved(t)' <=> Reserved(t)
         /\ \A t \in Actors \ {f} : (Owning(t)' <=> Owning(t)) /\ (Listed(t)' <=> Listed(t)) /\ info'[t].th = info[t].th
<1> USE ThreadsAssumption DEF IInv
<1>1. f \in Actors /\ f \notin Threads /\ f \notin Lisp /\ Tells(f)
  BY DEF Actors, Threads, PlacesTell
<1>2. pc[f] \notin Creating /\ pc'[f] \notin Creating
  BY <1>1 DEF Tells, ForeignTells, Creating
<1>3. PlacesTell'
  <2>1. ASSUME NEW w \in Actors, w # f PROVE Tells(w)'
    BY <2>1, RestTells DEF Rests, PlacesTell
  <2> QED BY <2>1 DEF PlacesTell
<1>4. CallsTell'
  <2>1. Onward
    BY <1>1 DEF Onward, Begun, Actors, Threads
  <2>2. \A w \in targets'.todo : Begun(w)
    BY DEF CallsTell
  <2> QED BY <1>1, <2>1, <2>2, CallsRest DEF Actors
<1>5. MakesAreNew'
  <2>1. Steady(f)
    BY <1>1, <1>2 DEF Steady, Actors, Threads
  <2> QED BY <1>1, <2>1, SteadyMakes
<1>6. JoinedOnce'
  BY <1>1, JoinedRest DEF Actors, Threads
<1>7. ResultsAreFinal'
  BY <1>1, ResultsRest DEF Actors, Threads
<1>8. \A t : Reserved(t)' <=> Reserved(t)
  BY <1>1 DEF Reserved, Arg, Actors
<1>9. \A t \in Actors \ {f} : (Owning(t)' <=> Owning(t)) /\ (Listed(t)' <=> Listed(t)) /\ info'[t].th = info[t].th
  BY <1>8 DEF Owning, Listed
<1> QED BY <1>3, <1>4, <1>5, <1>6, <1>7, <1>8, <1>9 DEF NothingGoesWrong

\* A foreign thread is nobody that MAKE-THREAD makes.
LEMMA ForeignFree ==
  ASSUME IInv, NEW f \in Foreign
  PROVE  f \in Actors /\ Tells(f) /\ ~Reserved(f) /\ f \notin Lisp /\ f # Main /\ os[f] = "live"
<1> USE ThreadsAssumption DEF IInv
<1>1. f \in Actors /\ Tells(f) /\ f \notin Lisp /\ f # Main
  BY DEF Actors, Threads, PlacesTell
<1>2. ASSUME Reserved(f) PROVE FALSE
  <2>1. PICK q \in Threads : pc[q] \in {"create", "failed"} /\ Arg(q) = f
    BY <1>2 DEF Reserved
  <2>2. Arg(q) \in Lisp
    BY <2>1, Maker DEF Making, Creating, Actors
  <2> QED BY <1>1, <2>1, <2>2
<1> QED BY <1>1, <1>2 DEF Tells, ForeignTells

\* A foreign thread gets a structure from the recycle bin or a fresh one.
LEMMA AttachKeeps ==
  ASSUME IInv, NEW f \in Foreign, Attach(f)
  PROVE  IInv'
<1> USE ThreadsAssumption DEF IInv
<1>1. f \in Actors /\ Tells(f) /\ ~Reserved(f) /\ pc[f] = "outside" /\ left[f] # << >> /\ f \notin Lisp /\ f # Main
  BY ForeignFree DEF Attach
<1>2. /\ pc \in [Actors -> Places] /\ info \in [Actors -> Infos] /\ reg \in Regs /\ left \in [Actors -> Seq(Calling)]
      /\ mem \in [Mems -> {"free", "mapped"}] /\ reg.recycled \in Seq(Mems)
  BY RegTypes DEF TypeOK
<1>3. /\ pc' = [pc EXCEPT ![f] = "born"] /\ left' = [left EXCEPT ![f] = Tail(@)]
      /\ reg' = [reg EXCEPT !.recycled = IF @ = << >> THEN @ ELSE Tail(@)]
      /\ loc' = loc /\ os' = os /\ targets' = targets /\ log' = log
  BY DEF Attach, Goto
<1>4. /\ reg' \in Regs /\ reg'.all = reg.all /\ reg'.joinable = reg.joinable
      /\ reg'.recycled = (IF reg.recycled = << >> THEN << >> ELSE Tail(reg.recycled))
  <2>1. << >> \in Seq(Mems) /\ (reg.recycled # << >> => Tail(reg.recycled) \in Seq(Mems))
    BY <1>2
  <2>2. PICK s : s = (IF reg.recycled = << >> THEN << >> ELSE Tail(reg.recycled))
    OBVIOUS
  <2>3. s \in Seq(Mems)
    BY <2>1, <2>2
  <2>4. reg' = [reg EXCEPT !.recycled = s]
    BY <1>2, <1>3, <2>2 DEF Regs
  <2> QED BY <1>2, <2>2, <2>3, <2>4 DEF Regs
<1> DEFINE unmapped == FreeMems \cup (ToSet(reg.recycled) \ ToSet(reg'.recycled))
<1>5. PICK item \in get_recyclebin_item :
        /\ item # 0 \/ unmapped # {}
        /\ mem' = [x \in Mems |-> IF x = (IF item # 0 THEN item ELSE First(unmapped)) THEN "mapped"
                                 ELSE IF x \in unmapped THEN "free" ELSE mem[x]]
        /\ info' = [info EXCEPT ![f] = [NoInfo EXCEPT !.th = IF item # 0 THEN item ELSE First(unmapped)]]
  BY DEF Attach, Set
<1>6. PICK m : m = (IF item # 0 THEN item ELSE First(unmapped))
  OBVIOUS
<1>7. /\ (item # 0 \/ unmapped # {}) /\ m = (IF item # 0 THEN item ELSE First(unmapped))
      /\ mem' = [x \in Mems |-> IF x = m THEN "mapped" ELSE IF x \in unmapped THEN "free" ELSE mem[x]]
      /\ info' = [info EXCEPT ![f] = [NoInfo EXCEPT !.th = m]]
  BY <1>5, <1>6
<1>8. /\ \A i \in DOMAIN reg.recycled : reg.recycled[i] \in Mems
      /\ reg.recycled # << >> => /\ Head(reg.recycled) = reg.recycled[1] /\ 1 \in DOMAIN reg.recycled
                                 /\ \A i \in DOMAIN Tail(reg.recycled) :
                                      i + 1 \in DOMAIN reg.recycled /\ Tail(reg.recycled)[i] = reg.recycled[i + 1]
                                      /\ i \in Nat /\ i + 1 # 1
  BY <1>2, RegTypes
<1>9. \A i \in DOMAIN reg'.recycled :
        /\ i + 1 \in DOMAIN reg.recycled /\ reg'.recycled[i] = reg.recycled[i + 1] /\ i \in Nat /\ i + 1 # 1
  BY <1>4, <1>8
<1>10. \A x \in unmapped : x \in Mems /\ (mem[x] = "free" \/ \E i \in DOMAIN reg.recycled : x = reg.recycled[i])
  BY <1>8 DEF FreeMems, ToSet
\* The structure was in the bin or not mapped, and so is what gets unmapped with it.
<1>11. m \in Mems /\ m # 0 /\ (mem[m] = "free" \/ \E i \in DOMAIN reg.recycled : m = reg.recycled[i])
  <2>1. CASE item # 0
    <3>1. reg.recycled # << >> /\ m = Head(reg.recycled)
      BY <1>7, <2>1 DEF get_recyclebin_item
    <3> QED BY <1>8, <3>1
  <2>2. CASE item = 0
    <3>1. m \in unmapped
      BY <1>7, <2>2 DEF First
    <3> QED BY <1>10, <3>1
  <2> QED BY <2>1, <2>2
<1>12. \A i \in DOMAIN reg'.recycled : reg'.recycled[i] # m /\ reg'.recycled[i] \notin unmapped /\ reg'.recycled[i] \in Mems
  <2>1. TAKE i \in DOMAIN reg'.recycled
  <2>2. reg'.recycled[i] \in ToSet(reg'.recycled) /\ reg'.recycled[i] \in Mems /\ mem[reg'.recycled[i]] = "mapped"
    BY <1>8, <1>9 DEF ToSet, MemoryIsOwned
  <2>3. reg'.recycled[i] \notin unmapped
    BY <2>2 DEF FreeMems
  <2>4. CASE item # 0
    <3>1. reg.recycled # << >> /\ m = Head(reg.recycled)
      BY <1>7, <2>4 DEF get_recyclebin_item
    <3> QED BY <1>8, <1>9, <2>2, <2>3, <3>1 DEF MemoryIsOwned
  <2>5. CASE item = 0
    <3>1. m \in unmapped
      BY <1>7, <2>5 DEF First
    <3> QED BY <2>2, <2>3, <3>1
  <2> QED BY <2>4, <2>5
<1>13. mem'[m] = "mapped" /\ \A x \in Mems \ {m} : x \notin unmapped => mem'[x] = mem[x]
  BY <1>7, <1>11
<1>14. \A x : mem[x] = "mapped" /\ (\A i \in DOMAIN reg.recycled : x # reg.recycled[i]) => x # m /\ x \notin unmapped
  BY <1>10, <1>11
<1>15. mem' \in [Mems -> {"free", "mapped"}]
  BY <1>2, <1>7
<1> HIDE DEF unmapped
<1>16. /\ info' \in [Actors -> Infos] /\ \A w \in Actors \ {f} : info'[w] = info[w]
       /\ info'[f].prim = 0 /\ info'[f].stash = 0 /\ info'[f].th = m /\ ~info'[f].sem /\ ~info'[f].posted
       /\ ~info'[f].exiting /\ ~info'[f].sigurg
  <2>1. << >> \in Seq({"nop", "abort", "end"})
    OBVIOUS
  <2>2. NoInfo \in Infos
    BY <2>1 DEF NoInfo, Infos
  <2> QED BY <1>1, <1>2, <1>7, <1>11, <2>2 DEF NoInfo, Infos
<1>17. pc'[f] = "born" /\ \A q \in Actors \ {f} : pc'[q] = pc[q] /\ left'[q] = left[q]
  BY <1>1, <1>2, <1>3
<1>18. TypeOK'
  <2>1. [left EXCEPT ![f] = Tail(@)] \in [Actors -> Seq(Calling)]
    BY <1>1, ScriptTypes
  <2> QED BY <1>1, <1>2, <1>3, <1>4, <1>15, <1>16, <2>1, PlaceNames DEF TypeOK
<1>19. Tells(f)'
  BY <1>1, <1>3, <1>11, <1>16, <1>17 DEF Tells, ForeignTells
<1>20. left'[f] = Tail(left[f])
  BY <1>1, <1>2, <1>3
<1>21. /\ PlacesTell' /\ CallsTell' /\ MakesAreNew' /\ JoinedOnce' /\ ResultsAreFinal' /\ NothingGoesWrong'
       /\ \A t : Reserved(t)' <=> Reserved(t)
       /\ \A t \in Actors \ {f} : (Owning(t)' <=> Owning(t)) /\ (Listed(t)' <=> Listed(t)) /\ info'[t].th = info[t].th
  BY <1>1, <1>3, <1>4, <1>16, <1>17, <1>18, <1>19, <1>20, ForeignRests
<1>22. ListIsExact'
  <2>1. ~Listed(f) /\ ~Listed(f)'
    BY <1>1, <1>16 DEF Listed, Tells, ForeignTells
  <2> QED BY <1>4, <1>21, <2>1, ListRests
<1>23. MemoryIsOwned'
  <2>1. \A t \in Actors \ {f} : Owning(t)' =>
          Owning(t) /\ info'[t].th = info[t].th /\ info[t].th \in Mems /\ info[t].th # m /\ info[t].th \notin unmapped
    <3>1. ASSUME NEW t \in Actors, t # f, Owning(t)'
          PROVE  Owning(t) /\ info'[t].th = info[t].th /\ info[t].th \in Mems /\ info[t].th # m /\ info[t].th \notin unmapped
      <4>1. Owning(t) /\ info'[t].th = info[t].th
        BY <1>21, <3>1
      <4>2. info[t].th \in Mems
        BY <4>1, OwnedMems
      <4>3. mem[info[t].th] = "mapped" /\ \A i \in DOMAIN reg.recycled : info[t].th # reg.recycled[i]
        BY <4>1 DEF MemoryIsOwned
      <4> QED BY <1>14, <4>1, <4>2, <4>3
    <3> QED BY <3>1
  <2>2. \A t \in Actors : Owning(t)' => mem'[info'[t].th] = "mapped"
    <3>1. ASSUME NEW t \in Actors, t # f, Owning(t)' PROVE mem'[info'[t].th] = "mapped"
      BY <1>13, <2>1, <3>1 DEF MemoryIsOwned
    <3> QED BY <1>13, <1>16, <3>1
  <2>3. \A t, u \in Actors : Owning(t)' /\ Owning(u)' /\ info'[t].th = info'[u].th => t = u
    BY <1>16, <2>1 DEF MemoryIsOwned
  <2>4. ASSUME NEW q \in Threads, loc'[q].reuse # 0
        PROVE  /\ mem'[loc'[q].reuse] = "mapped"
               /\ \A t \in Actors : Owning(t)' => info'[t].th # loc'[q].reuse
               /\ \A w \in Threads : loc'[w].reuse = loc'[q].reuse => w = q
               /\ \A i \in DOMAIN reg'.recycled : reg'.recycled[i] # loc'[q].reuse
    <3>1. loc[q].reuse \in Mems /\ mem[loc[q].reuse] = "mapped" /\ \A i \in DOMAIN reg.recycled : loc[q].reuse # reg.recycled[i]
      <4>1. loc[q].reuse \in Mems \cup {0}
        BY DEF TypeOK, Locals, Actors
      <4> QED BY <1>3, <2>4, <4>1 DEF MemoryIsOwned
    <3>2. loc[q].reuse # m /\ loc[q].reuse \notin unmapped
      BY <1>14, <3>1
    <3>3. mem'[loc'[q].reuse] = "mapped"
      BY <1>3, <1>13, <3>1, <3>2
    <3>4. \A t \in Actors : Owning(t)' => info'[t].th # loc'[q].reuse
      BY <1>3, <1>16, <2>1, <2>4, <3>2 DEF MemoryIsOwned
    <3>5. \A i \in DOMAIN reg'.recycled : reg'.recycled[i] # loc'[q].reuse
      BY <1>3, <1>9, <3>1
    <3> QED BY <1>3, <2>4, <3>3, <3>4, <3>5 DEF MemoryIsOwned
  <2>5. ASSUME NEW i \in DOMAIN reg'.recycled
        PROVE  /\ mem'[reg'.recycled[i]] = "mapped"
               /\ \A t \in Actors : Owning(t)' => info'[t].th # reg'.recycled[i]
               /\ \A j \in DOMAIN reg'.recycled : reg'.recycled[j] = reg'.recycled[i] => j = i
    <3>1. mem'[reg'.recycled[i]] = "mapped"
      <4>1. PICK x : x = reg'.recycled[i]
        OBVIOUS
      <4>2. x \in Mems /\ x # m /\ x \notin unmapped /\ mem[x] = "mapped"
        BY <1>9, <1>12, <4>1 DEF MemoryIsOwned
      <4> QED BY <1>13, <4>1, <4>2
    <3>2. \A t \in Actors : Owning(t)' => info'[t].th # reg'.recycled[i]
      BY <1>9, <1>12, <1>16, <2>1 DEF MemoryIsOwned
    <3>3. ASSUME NEW j \in DOMAIN reg'.recycled, reg'.recycled[j] = reg'.recycled[i] PROVE j = i
      <4>1. j + 1 = i + 1
        BY <1>9, <3>3 DEF MemoryIsOwned
      <4> QED BY <1>9, <4>1
    <3> QED BY <3>1, <3>2, <3>3
  <2> QED BY <2>2, <2>3, <2>4, <2>5 DEF MemoryIsOwned
<1> QED BY <1>18, <1>21, <1>22, <1>23

\* A foreign thread is entered into *ALL-THREADS*.
LEMMA EnterForeignCallbackKeeps ==
  ASSUME IInv, NEW f \in Foreign, EnterForeignCallback(f)
  PROVE  IInv'
<1> USE ThreadsAssumption DEF IInv
<1>1. PICK m : m = info[f].th
  OBVIOUS
<1>2. /\ f \in Actors /\ Tells(f) /\ ~Reserved(f) /\ pc[f] = "callback" /\ f \notin Lisp /\ f # Main
      /\ os[f] = "live" /\ info[f].prim = 0 /\ info[f].stash = 0 /\ m # 0 /\ info[f].th = m
  BY <1>1, ForeignFree DEF EnterForeignCallback, Tells, ForeignTells
<1>3. /\ pc \in [Actors -> Places] /\ info \in [Actors -> Infos] /\ info[f] \in Infos /\ reg \in Regs
  BY <1>2 DEF TypeOK
<1>4. Owning(f) /\ ~Listed(f) /\ m \in Mems
  BY <1>2, OwnedMems DEF Owning, Listed
<1>5. Find(m) = {}
  BY <1>2, <1>4, ListedOwns, FoundNever DEF MemoryIsOwned
<1>6. /\ pc' = [pc EXCEPT ![f] = "body"] /\ info' = [info EXCEPT ![f] = [info[f] EXCEPT !.prim = m, !.visible = 1]]
      /\ reg' = [reg EXCEPT !.all = @ \cup {<<m, f>>}] /\ log' = log
      /\ left' = left /\ loc' = loc /\ os' = os /\ mem' = mem /\ targets' = targets
  BY <1>1, <1>5 DEF EnterForeignCallback, Goto, Set, Blame
<1>7. /\ info' \in [Actors -> Infos] /\ \A w \in Actors \ {f} : info'[w] = info[w]
      /\ info'[f].prim = m /\ info'[f].stash = 0 /\ info'[f].th = m /\ info'[f].sem = info[f].sem
      /\ info'[f].posted = info[f].posted /\ info'[f].exiting = info[f].exiting
      /\ info'[f].sigurg = info[f].sigurg /\ info'[f].ints = info[f].ints
  BY <1>2, <1>3, <1>4, <1>6 DEF Infos
<1>8. pc'[f] = "body" /\ pc' \in [Actors -> Places] /\ \A q \in Actors \ {f} : pc'[q] = pc[q]
  BY <1>2, <1>3, <1>6, PlaceNames
<1>9. /\ reg' \in Regs /\ reg'.all = reg.all \cup {<<m, f>>} /\ reg'.joinable = reg.joinable
      /\ reg'.recycled = reg.recycled
  <2>1. reg.all \cup {<<m, f>>} \in SUBSET (Mems \X Actors)
    BY <1>2, <1>3, <1>4 DEF Regs
  <2> QED BY <1>3, <1>6, <2>1 DEF Regs
<1>10. TypeOK'
  BY <1>6, <1>7, <1>8, <1>9 DEF TypeOK
<1>11. Tells(f)'
  BY <1>2, <1>6, <1>7, <1>8 DEF Tells, ForeignTells
<1>12. /\ PlacesTell' /\ CallsTell' /\ MakesAreNew' /\ JoinedOnce' /\ ResultsAreFinal' /\ NothingGoesWrong'
       /\ \A t : Reserved(t)' <=> Reserved(t)
       /\ \A t \in Actors \ {f} : (Owning(t)' <=> Owning(t)) /\ (Listed(t)' <=> Listed(t)) /\ info'[t].th = info[t].th
  BY <1>6, <1>7, <1>8, <1>9, <1>10, <1>11, ForeignRests
<1>13. MemoryIsOwned'
  BY <1>2, <1>4, <1>6, <1>7, <1>9, <1>12, MemoryRests
<1>14. ListIsExact'
  <2>1. Listed(f)'
    BY <1>2, <1>6, <1>7 DEF Listed
  <2>2. \A e \in reg.all : e[2] \in Actors /\ e[2] # f
    BY <1>3, <1>4, RegTypes DEF ListIsExact
  <2>3. \A e \in reg'.all : Listed(e[2])' /\ e[1] = info'[e[2]].th
    <3>1. TAKE e \in reg'.all
    <3>2. CASE e = <<m, f>>
      BY <1>7, <2>1, <3>2
    <3>3. CASE e \in reg.all
      <4>1. e[2] \in Actors /\ e[2] # f /\ e[1] = info[e[2]].th /\ Listed(e[2])
        BY <2>2, <3>3 DEF ListIsExact
      <4> QED BY <1>12, <4>1
    <3> QED BY <1>9, <3>2, <3>3
  <2>4. \A w \in Actors : Listed(w)' => <<info'[w].th, w>> \in reg'.all
    BY <1>7, <1>9, <1>12 DEF ListIsExact
  <2> QED BY <2>3, <2>4 DEF ListIsExact
<1> QED BY <1>10, <1>12, <1>13, <1>14

\* A foreign thread gives its structure to the recycle bin.
LEMMA DetachKeeps ==
  ASSUME IInv, NEW f \in Foreign, Detach(f)
  PROVE  IInv'
<1> USE ThreadsAssumption DEF IInv
<1>1. PICK m : m = info[f].th
  OBVIOUS
<1>2. /\ f \in Actors /\ Tells(f) /\ ~Reserved(f) /\ pc[f] = "detach" /\ f \notin Lisp /\ f # Main
      /\ os[f] = "live" /\ info[f].prim = 0 /\ info[f].stash = 0 /\ m # 0 /\ info[f].th = m
  BY <1>1, ForeignFree DEF Detach, Tells, ForeignTells
<1>3. /\ pc \in [Actors -> Places] /\ info \in [Actors -> Infos] /\ reg \in Regs /\ reg.recycled \in Seq(Mems)
  BY RegTypes DEF TypeOK
<1>4. Owning(f) /\ m \in Mems /\ mem[m] = "mapped"
  BY <1>2, OwnedMems DEF Owning, MemoryIsOwned
<1>5. /\ pc' = [pc EXCEPT ![f] = "outside"] /\ info' = [info EXCEPT ![f] = NoInfo]
      /\ reg' = [reg EXCEPT !.recycled = <<m>> \o @] /\ log' = log
      /\ left' = left /\ loc' = loc /\ os' = os /\ mem' = mem /\ targets' = targets
  BY <1>1 DEF Detach, put_recyclebin_item, Goto, Set
<1>6. /\ info' \in [Actors -> Infos] /\ \A w \in Actors \ {f} : info'[w] = info[w]
      /\ info'[f].prim = 0 /\ info'[f].stash = 0 /\ info'[f].th = 0 /\ ~info'[f].sem
      /\ ~info'[f].posted /\ ~info'[f].exiting /\ ~info'[f].sigurg
  <2>1. << >> \in Seq({"nop", "abort", "end"})
    OBVIOUS
  <2>2. NoInfo \in Infos
    BY <2>1 DEF NoInfo, Infos
  <2> QED BY <1>2, <1>3, <1>5, <2>2 DEF NoInfo
<1>7. pc'[f] = "outside" /\ pc' \in [Actors -> Places] /\ \A q \in Actors \ {f} : pc'[q] = pc[q]
  BY <1>2, <1>3, <1>5, PlaceNames
<1>8. /\ <<m>> \o reg.recycled \in Seq(Mems)
      /\ \A i \in DOMAIN (<<m>> \o reg.recycled) :
           \/ i = 1 /\ (<<m>> \o reg.recycled)[i] = m
           \/ i - 1 \in DOMAIN reg.recycled /\ i \in Nat /\ (<<m>> \o reg.recycled)[i] = reg.recycled[i - 1]
  BY <1>3, <1>4, SeqFacts
<1>9. /\ reg' \in Regs /\ reg'.all = reg.all /\ reg'.joinable = reg.joinable /\ reg'.recycled = <<m>> \o reg.recycled
  BY <1>3, <1>5, <1>8 DEF Regs
<1>10. TypeOK'
  BY <1>5, <1>6, <1>7, <1>9 DEF TypeOK
<1>11. Tells(f)'
  BY <1>2, <1>5, <1>6, <1>7 DEF Tells, ForeignTells
<1>12. /\ PlacesTell' /\ CallsTell' /\ MakesAreNew' /\ JoinedOnce' /\ ResultsAreFinal' /\ NothingGoesWrong'
       /\ \A t : Reserved(t)' <=> Reserved(t)
       /\ \A t \in Actors \ {f} : (Owning(t)' <=> Owning(t)) /\ (Listed(t)' <=> Listed(t)) /\ info'[t].th = info[t].th
  BY <1>5, <1>6, <1>7, <1>9, <1>10, <1>11, ForeignRests
<1>13. ListIsExact'
  <2>1. ~Listed(f) /\ ~Listed(f)'
    BY <1>2, <1>6 DEF Listed
  <2> QED BY <1>9, <1>12, <2>1, ListRests
<1>14. MemoryIsOwned'
  <2>1. ~Owning(f)'
    BY <1>2, <1>6, <1>12 DEF Owning
  <2>2. \A t \in Actors : Owning(t)' => Owning(t) /\ info'[t].th = info[t].th /\ info[t].th # m /\ t # f
    BY <1>2, <1>4, <1>12, <2>1 DEF MemoryIsOwned
  <2>3. \A q \in Threads : loc[q].reuse # 0 => loc[q].reuse # m
    BY <1>2, <1>4 DEF MemoryIsOwned
  <2>4. \A k \in DOMAIN reg.recycled : reg.recycled[k] # m
    BY <1>2, <1>4 DEF MemoryIsOwned
  <2>5. \A t \in Actors : Owning(t)' => mem'[info'[t].th] = "mapped"
    BY <1>5, <2>2 DEF MemoryIsOwned
  <2>6. \A t, u \in Actors : Owning(t)' /\ Owning(u)' /\ info'[t].th = info'[u].th => t = u
    BY <2>2 DEF MemoryIsOwned
  <2>7. ASSUME NEW i \in DOMAIN reg'.recycled
        PROVE  /\ mem'[reg'.recycled[i]] = "mapped"
               /\ \A t \in Actors : Owning(t)' => info'[t].th # reg'.recycled[i]
               /\ \A j \in DOMAIN reg'.recycled : reg'.recycled[j] = reg'.recycled[i] => j = i
               /\ \A q \in Threads : loc[q].reuse # 0 => reg'.recycled[i] # loc[q].reuse
    <3>1. CASE i = 1
      <4>1. reg'.recycled[i] = m
        BY <1>8, <1>9, <2>7, <3>1
      <4>2. \A j \in DOMAIN reg'.recycled : reg'.recycled[j] = m => j = 1
        BY <1>8, <1>9, <2>4
      <4> QED BY <1>4, <1>5, <2>2, <2>3, <3>1, <4>1, <4>2
    <3>2. CASE i # 1
      <4>1. PICK k \in DOMAIN reg.recycled : k = i - 1 /\ i \in Nat /\ reg'.recycled[i] = reg.recycled[k]
        BY <1>8, <1>9, <2>7, <3>2
      <4>2. \A j \in DOMAIN reg'.recycled : reg'.recycled[j] = reg.recycled[k] => j = i
        <5>1. ASSUME NEW j \in DOMAIN reg'.recycled, reg'.recycled[j] = reg.recycled[k] PROVE j = i
          <6>1. j - 1 \in DOMAIN reg.recycled /\ j \in Nat /\ reg.recycled[j - 1] = reg.recycled[k]
            BY <1>8, <1>9, <2>4, <5>1
          <6>2. j - 1 = k
            BY <6>1 DEF MemoryIsOwned
          <6> QED BY <4>1, <6>1, <6>2
        <5> QED BY <5>1
      <4>3. mem'[reg'.recycled[i]] = "mapped"
        BY <1>5, <4>1 DEF MemoryIsOwned
      <4>4. \A t \in Actors : Owning(t)' => info'[t].th # reg'.recycled[i]
        BY <2>2, <4>1 DEF MemoryIsOwned
      <4>5. \A q \in Threads : loc[q].reuse # 0 => reg'.recycled[i] # loc[q].reuse
        BY <4>1 DEF MemoryIsOwned
      <4> QED BY <4>1, <4>2, <4>3, <4>4, <4>5
    <3> QED BY <3>1, <3>2
  <2>8. \A q \in Threads : loc'[q].reuse # 0 =>
          /\ mem'[loc'[q].reuse] = "mapped"
          /\ \A t \in Actors : Owning(t)' => info'[t].th # loc'[q].reuse
          /\ \A w \in Threads : loc'[w].reuse = loc'[q].reuse => w = q
    BY <1>5, <2>2 DEF MemoryIsOwned
  <2>9. \A q \in Threads : loc'[q].reuse # 0 => \A i \in DOMAIN reg'.recycled : reg'.recycled[i] # loc'[q].reuse
    BY <1>5, <2>7
  <2> QED BY <2>5, <2>6, <2>7, <2>8, <2>9 DEF MemoryIsOwned
<1> QED BY <1>10, <1>12, <1>13, <1>14

\* empty_thread_recyclebin unmaps what nobody uses.
LEMMA EmptyRecyclebinKeeps ==
  ASSUME IInv, EmptyRecyclebin
  PROVE  IInv'
<1> USE DEF IInv
<1>1. /\ reg \in Regs /\ mem \in [Mems -> {"free", "mapped"}]
      /\ reg' = [reg EXCEPT !.recycled = << >>]
      /\ mem' = [m \in Mems |-> IF m \in ToSet(reg.recycled) THEN "free" ELSE mem[m]]
      /\ pc' = pc /\ left' = left /\ loc' = loc /\ info' = info /\ os' = os /\ targets' = targets /\ log' = log
  BY DEF EmptyRecyclebin, TypeOK
<1>2. /\ reg' \in Regs /\ reg'.all = reg.all /\ reg'.joinable = reg.joinable /\ reg'.recycled = << >>
  <2>1. << >> \in Seq(Mems)
    OBVIOUS
  <2> QED BY <1>1, <2>1 DEF Regs
<1>3. mem' \in [Mems -> {"free", "mapped"}]
  BY <1>1
<1>4. TypeOK'
  BY <1>1, <1>2, <1>3 DEF TypeOK
<1>5. \A x \in Mems : (\A i \in DOMAIN reg.recycled : x # reg.recycled[i]) => mem'[x] = mem[x]
  BY <1>1 DEF ToSet
<1>6. PlacesTell' /\ CallsTell'
  BY <1>1 DEF PlacesTell, Tells, LispTells, MainTells, ForeignTells, CallsTell, CallTells, At,
     IsMaking,
     Does, Begun, Arg
<1>7. MakesAreNew' /\ NothingGoesWrong' /\ ResultsAreFinal'
  BY <1>1 DEF MakesAreNew, Makes, Arg, NothingGoesWrong, ResultsAreFinal
<1>8. \A t \in Actors : (Owning(t)' <=> Owning(t)) /\ (Listed(t)' <=> Listed(t))
  BY <1>1 DEF Owning, Listed, Reserved, Arg
<1>9. ListIsExact'
  BY <1>1, <1>2, <1>8, ListRests
<1>10. JoinedOnce'
  BY <1>1, <1>2, JoinedRest
<1>11. MemoryIsOwned'
  <2>1. \A t \in Actors : Owning(t)' => mem'[info'[t].th] = "mapped"
    <3>1. ASSUME NEW t \in Actors, Owning(t) PROVE mem'[info[t].th] = "mapped"
      <4>1. info[t].th \in Mems
        BY <3>1, OwnedMems
      <4> QED BY <1>5, <3>1, <4>1 DEF MemoryIsOwned
    <3> QED BY <1>1, <1>8, <3>1
  <2>2. \A q \in Threads : loc[q].reuse # 0 => mem'[loc[q].reuse] = "mapped"
    <3>1. \A q \in Threads : loc[q].reuse \in Mems \cup {0}
      BY DEF TypeOK, Locals, Actors
    <3> QED BY <1>5, <3>1 DEF MemoryIsOwned
  <2>3. \A i \in DOMAIN reg'.recycled : FALSE
    BY <1>2
  <2> QED BY <1>1, <1>8, <2>1, <2>2, <2>3 DEF MemoryIsOwned
<1> QED BY <1>4, <1>6, <1>7, <1>9, <1>10, <1>11

-----------------------------------------------------------------------------
(* The results of JOIN-THREAD.                                             *)

\* JOIN-THREAD gives the result of a thread that is done.
LEMMA JoinResultKeeps ==
  ASSUME IInv, NEW p \in Actors, JoinResult(p)
  PROVE  IInv'
<1> USE ThreadsAssumption DEF IInv
<1>1. PICK t : t = Arg(p)
  OBVIOUS
<1>2. Tells(p) /\ pc[p] = "result" /\ p \in Threads /\ p \notin Foreign /\ CallTells(p)
  BY DEF PlacesTell, CallsTell, Tells, ForeignTells, JoinResult, Actors
<1>3. t \in Lisp /\ pc[t] \in Final /\ left[p] # << >> /\ t \in Actors
  BY <1>1, <1>2 DEF CallTells, Does, Actors, Threads
<1>4. /\ pc \in [Actors -> Places] /\ info[t] \in Infos /\ log \in Logs
  BY <1>3 DEF TypeOK
<1>5. /\ pc' = [pc EXCEPT ![p] = "body"] /\ left' = [left EXCEPT ![p] = Tail(@)]
      /\ log' = [log EXCEPT !.got = @ \cup {<<t, info[t].result>>}]
      /\ loc' = loc /\ info' = info /\ os' = os /\ mem' = mem /\ reg' = reg /\ targets' = targets
  BY <1>1 DEF JoinResult, Done, Goto
<1>6. pc'[p] = "body" /\ pc' \in [Actors -> Places] /\ \A q \in Actors \ {p} : pc'[q] = pc[q] /\ left'[q] = left[q]
  BY <1>4, <1>5, PlaceNames DEF TypeOK
<1>7. /\ log' \in Logs /\ log'.returned = log.returned /\ log'.bad = log.bad
      /\ log'.got = log.got \cup {<<t, info[t].result>>}
  <2>1. log.got \cup {<<t, info[t].result>>} \in SUBSET (Actors \X BOOLEAN)
    <3>1. info[t].result \in BOOLEAN
      BY <1>4 DEF Infos
    <3>2. log.got \in SUBSET (Actors \X BOOLEAN)
      BY <1>4 DEF Logs
    <3>3. <<t, info[t].result>> \in Actors \X BOOLEAN
      BY <1>3, <3>1
    <3> QED BY <3>2, <3>3
  <2> QED BY <1>4, <1>5, <2>1 DEF Logs
<1>8. TypeOK'
  <2>1. [left EXCEPT ![p] = Tail(@)] \in [Actors -> Seq(Calling)]
    BY <1>3, ScriptTypes
  <2> QED BY <1>5, <1>6, <1>7, <2>1 DEF TypeOK
<1>9. PlacesTell'
  <2>1. Tells(p)'
    BY <1>2, <1>5, <1>6, <1>7 DEF Tells, LispTells, MainTells, Starting, Working, Dying,
       Finished,
       Final, Disposal, Making, Creating
  <2>2. ASSUME NEW w \in Actors, w # p PROVE Tells(w)'
    BY <1>5, <1>6, <1>7, <2>2, RestTells DEF Rests, PlacesTell
  <2> QED BY <2>1, <2>2 DEF PlacesTell
<1>10. CallsTell'
  <2>1. Onward
    BY <1>2, <1>6 DEF Onward, Begun, Final, Actors, Threads
  <2>2. CallTells(p)'
    BY <1>2, <1>5, <1>6 DEF CallTells, At, IsMaking, Disposal, Making, Creating
  <2>3. \A w \in targets'.todo : Begun(w)
    BY <1>5 DEF CallsTell
  <2> QED BY <1>5, <1>6, <1>8, <2>1, <2>2, <2>3, CallsRest DEF Threads, Actors
<1>11. \A w : Reserved(w)' <=> Reserved(w)
  BY <1>2, <1>5, <1>6 DEF Reserved, Arg, Threads, Actors
<1>12. MemoryIsOwned'
  BY <1>5, <1>11, MemoryRests DEF Owning
<1>13. ListIsExact'
  BY <1>5, <1>11, ListRests DEF Listed
<1>14. JoinedOnce'
  BY <1>2, <1>5, <1>6, JoinedRest DEF Finished, Final, Actors, Threads
<1>15. MakesAreNew'
  <2>1. left'[p] = Tail(left[p])
    BY <1>5 DEF TypeOK
  <2>2. Steady(p)
    BY <1>2, <1>3, <1>5, <1>6, <2>1 DEF Steady, Creating, Actors, Threads
  <2> QED BY <2>2, SteadyMakes
<1>16. ResultsAreFinal'
  <2>1. \A c \in Lisp : pc[c] \in Final => pc'[c] \in Final
    BY <1>2, <1>6 DEF Final, Actors, Threads
  <2>2. \A g \in log'.got : g \in log.got \/ (g[1] = t /\ g[2] = info[t].result)
    BY <1>7
  <2> QED BY <1>3, <1>5, <2>1, <2>2 DEF ResultsAreFinal
<1>17. NothingGoesWrong'
  BY <1>7 DEF NothingGoesWrong
<1> QED BY <1>8, <1>9, <1>10, <1>12, <1>13, <1>14, <1>15, <1>16, <1>17

-----------------------------------------------------------------------------
(* The theorems.                                                           *)

\* The image starts with the main thread on the first thread structure, and nobody else.
LEMMA InitIInv == Init => IInv
<1> SUFFICES ASSUME Init PROVE IInv
  OBVIOUS
<1> USE ThreadsAssumption
<1>1. PICK m : m = First(Mems) /\ m \in Mems /\ m # 0
  BY DEF First
<1>2. Main \in Actors /\ Main \in Threads /\ Lisp \subseteq Actors /\ Foreign \subseteq Actors /\ Lisp \subseteq Threads
  BY DEF Actors, Threads
<1>3. /\ pc = [a \in Actors |-> IF a = Main THEN "body" ELSE IF a \in Foreign THEN "outside" ELSE "unborn"]
      /\ loc = [a \in Actors |-> NoLoc] /\ left \in Scripts
      /\ info = [a \in Actors |->
            IF a = Main THEN [NoInfo EXCEPT !.visible = 1, !.prim = m, !.th = m, !.sem = TRUE] ELSE NoInfo]
      /\ os = [a \in Actors |-> IF a \in Lisp THEN "none" ELSE "live"]
      /\ mem = [x \in Mems |-> IF x = m THEN "mapped" ELSE "free"]
      /\ reg = [all |-> {<<m, Main>>}, joinable |-> << >>, starting |-> {}, enrollees |-> {},
                session |-> {Main}, linked |-> {m}, recycled |-> << >>]
      /\ targets = [todo |-> {}, join |-> {}] /\ log = [returned |-> {}, got |-> {}, bad |-> {}, over |-> ""]
  BY <1>1 DEF Init
<1>4. /\ pc[Main] = "body" /\ \A f \in Foreign : pc[f] = "outside"
      /\ \A t \in Lisp : pc[t] = "unborn"
  BY <1>2, <1>3
<1>5. /\ info[Main].visible = 1 /\ info[Main].prim = m /\ info[Main].th = m /\ info[Main].stash = 0 /\ info[Main].sem
      /\ ~info[Main].posted /\ ~info[Main].exiting /\ ~info[Main].sigurg
      /\ \A t \in Actors \ {Main} : info[t] = NoInfo
  BY <1>2, <1>3 DEF NoInfo
<1>6. \A t \in Actors : loc[t] = NoLoc /\ (t \in Lisp => os[t] = "none") /\ (t \notin Lisp => os[t] = "live")
  BY <1>3
<1>7. reg.recycled = << >> /\ reg.joinable = << >> /\ reg.all = {<<m, Main>>}
  BY <1>3
<1>8. NoLoc.corpse = Nobody /\ NoLoc.reuse = 0 /\ ~NoLoc.keep
  BY DEF NoLoc
<1>9. \A t : ~Reserved(t)
  BY <1>2, <1>4 DEF Reserved, Threads
<1>10. TypeOK
  <2>1. << >> \in Seq({"nop", "abort", "end"})
    OBVIOUS
  <2>2. NoInfo \in Infos
    BY <2>1 DEF NoInfo, Infos
  <2>3. [NoInfo EXCEPT !.visible = 1, !.prim = m, !.th = m, !.sem = TRUE] \in Infos
    BY <1>1, <2>2 DEF Infos
  <2>4. info \in [Actors -> Infos]
    BY <1>3, <2>2, <2>3
  <2>5. NoLoc \in Locals
    BY DEF NoLoc, Locals
  <2>6. loc \in [Actors -> Locals]
    BY <1>3, <2>5
  <2>7. pc \in [Actors -> Places]
    BY <1>3, PlaceNames
  <2>8. << >> \in Seq(Lisp) /\ << >> \in Seq(Mems)
    OBVIOUS
  <2>9. {<<m, Main>>} \in SUBSET (Mems \X Actors)
    BY <1>1, <1>2
  <2>10. reg \in Regs
    BY <1>1, <1>2, <1>3, <2>8, <2>9 DEF Regs
  <2>11. left \in [Actors -> Seq(Calling)]
    BY <1>3, ScriptsAssumption DEF Calling
  <2>12. targets \in Plans /\ log \in Logs
    BY <1>3 DEF Plans, Logs
  <2>13. os \in [Actors -> {"none", "live", "exited", "joined"}] /\ mem \in [Mems -> {"free", "mapped"}]
    BY <1>3
  <2> QED BY <2>4, <2>6, <2>7, <2>10, <2>11, <2>12, <2>13 DEF TypeOK
<1>11. PlacesTell
  <2>1. ASSUME NEW t \in Lisp PROVE LispTells(t)
    <3>1. pc[t] = "unborn" /\ info[t] = NoInfo /\ os[t] = "none" /\ t \notin log.returned
      BY <1>2, <1>3, <1>4, <1>5, <1>6
    <3> QED BY <3>1 DEF LispTells, NoInfo, Starting, Working, Dying, Finished, Final, Disposal, Making,
       Creating
  <2>2. MainTells
    BY <1>1, <1>2, <1>4, <1>5, <1>6 DEF MainTells, Working
  <2>3. ASSUME NEW f \in Foreign PROVE ForeignTells(f)
    <3>1. pc[f] = "outside" /\ info[f] = NoInfo /\ os[f] = "live" /\ loc[f] = NoLoc
      BY <1>2, <1>4, <1>5, <1>6
    <3> QED BY <3>1 DEF ForeignTells, NoInfo
  <2>4. \A t \in Actors : ~info[t].sigurg
    BY <1>5 DEF NoInfo
  <2> QED BY <2>1, <2>2, <2>3, <2>4 DEF PlacesTell, Tells
<1>12. CallsTell
  <2>1. ASSUME NEW p \in Threads PROVE CallTells(p)
    <3>1. pc[p] \in {"body", "unborn"} /\ loc[p] = NoLoc /\ ~info[p].exiting
      BY <1>2, <1>4, <1>5, <1>6 DEF NoInfo, Threads, Actors
    <3>2. loc[p].corpse = Nobody /\ loc[p].reuse = 0 /\ ~loc[p].keep
      BY <1>8, <3>1
    <3> QED BY <3>1, <3>2 DEF CallTells, At, IsMaking, Disposal, Making, Creating
  <2> QED BY <1>3, <2>1 DEF CallsTell
<1>13. MakesAreNew
  <2>1. \A p \in Threads : pc[p] \notin Creating
    BY <1>4 DEF Creating, Threads
  <2>2. \A f \in Foreign : \A i \in DOMAIN left[f] : left[f][i].do = "callback"
    BY <1>3, ScriptsAssumption
  <2>3. \A p \in Threads : \A i \in DOMAIN left[p] : Makes(p, i) =>
          /\ left[p][i].to \in Lisp
          /\ \A q \in Threads : \A j \in DOMAIN left[q] :
               Makes(q, j) /\ left[q][j].to = left[p][i].to => q = p /\ j = i
    BY <1>3, ScriptsAssumption DEF Makes, Actors
  <2>4. \A t \in Lisp : pc[t] = "unborn" /\ info[t] = NoInfo
    BY <1>2, <1>4, <1>5
  <2> QED BY <2>1, <2>2, <2>3, <2>4 DEF MakesAreNew
<1>14. \A t \in Actors : (Owning(t) <=> t = Main) /\ (Listed(t) <=> t = Main)
  BY <1>1, <1>2, <1>5, <1>6, <1>9 DEF Owning, Listed, NoInfo
<1>15. MemoryIsOwned
  <2>1. mem[m] = "mapped" /\ \A p \in Threads : loc[p].reuse = 0
    BY <1>1, <1>3, <1>6 DEF NoLoc, Actors
  <2>2. \A i \in DOMAIN reg.recycled : FALSE
    BY <1>7
  <2> QED BY <1>5, <1>14, <2>1, <2>2 DEF MemoryIsOwned
<1>16. ListIsExact
  <2>1. \A e \in reg.all : e = <<m, Main>> /\ e[1] = m /\ e[2] = Main
    BY <1>7
  <2>2. <<m, Main>> \in reg.all
    BY <1>7
  <2> QED BY <1>2, <1>5, <1>14, <2>1, <2>2 DEF ListIsExact
<1>17. JoinedOnce
  <2>1. \A i \in DOMAIN reg.joinable : FALSE
    BY <1>7
  <2>2. \A p \in Threads : loc[p].corpse = Nobody
    BY <1>6, <1>8 DEF Actors
  <2>3. \A t \in Lisp : os[t] # "joined"
    BY <1>2, <1>6
  <2> QED BY <2>1, <2>2, <2>3 DEF JoinedOnce
<1>18. ResultsAreFinal /\ NothingGoesWrong
  BY <1>3 DEF ResultsAreFinal, NothingGoesWrong
<1> QED BY <1>10, <1>11, <1>12, <1>13, <1>15, <1>16, <1>17, <1>18 DEF IInv

\* Nothing the invariant speaks of changes while nobody moves.
LEMMA StutterKeeps == IInv /\ UNCHANGED vars => IInv'
<1> SUFFICES ASSUME IInv, UNCHANGED vars PROVE IInv'
  OBVIOUS
<1>1. /\ pc' = pc /\ left' = left /\ loc' = loc /\ info' = info /\ os' = os /\ mem' = mem /\ reg' = reg
      /\ targets' = targets /\ log' = log
  BY DEF vars
<1>2. TypeOK' /\ PlacesTell' /\ CallsTell'
  BY <1>1 DEF IInv, TypeOK, PlacesTell, Tells, LispTells, MainTells, ForeignTells, CallsTell,
     CallTells,
     At, IsMaking, Does, Begun, Arg
<1>3. MakesAreNew' /\ NothingGoesWrong' /\ ResultsAreFinal' /\ JoinedOnce'
  BY <1>1 DEF IInv, MakesAreNew, Makes, Arg, NothingGoesWrong, ResultsAreFinal, JoinedOnce,
     Unclaimed
<1>4. MemoryIsOwned' /\ ListIsExact'
  BY <1>1 DEF IInv, MemoryIsOwned, ListIsExact, Owning, Listed, Reserved, Arg
<1> QED BY <1>2, <1>3, <1>4 DEF IInv

\* Every step of a thread keeps the invariant, and so does every other step.
LEMMA StepKeeps ==
  ASSUME IInv, NEW p \in Actors, Step(p)
  PROVE  IInv'
<1>1. CASE Create(p)
  BY <1>1, MakeThreadKeeps, PopKeeps, PrimitiveJoinKeeps, PthreadJoinKeeps, DisposeCheckKeeps,
     AllocThreadKeeps, LockCreateKeeps, CreatedKeeps, CreateFailedKeeps DEF Create
<1>2. CASE Live(p)
  BY <1>2, LinkThreadKeeps, SmashKeeps, ExposeKeeps, EnrollKeeps, ReturnKeeps, DieKeeps,
     LeaveSessionKeeps, VanishKeeps, PushJoinableKeeps, DropSemaphoreKeeps, SignalSemaphoreKeeps,
     UnregisterKeeps, EndOSThreadKeeps DEF Live
<1>3. CASE Call(p)
  BY <1>3, JoinSelfKeeps, JoinThreadKeeps, ReadSemaphoreKeeps, WaitOnSemaphoreKeeps,
     JoinResultKeeps,
     InterruptThreadKeeps, RunInterruptionKeeps DEF Call
<1>4. CASE Quit(p)
  BY <1>4, ExitKeeps, GrabExitLockKeeps, ExitOthersKeeps, ListThreadsKeeps, TerminateOneKeeps,
     TerminatedKeeps, JoinOneKeeps, InterruptMainKeeps, OsExitKeeps, DeinitKeeps, DeinitThreadsKeeps,
     DeinitJoinableKeeps DEF Quit
<1> QED BY <1>1, <1>2, <1>3, <1>4 DEF Step

\* Every step of the system keeps the invariant.
LEMMA NextKeeps == IInv /\ [Next]_vars => IInv'
<1> SUFFICES ASSUME IInv, [Next]_vars PROVE IInv'
  OBVIOUS
<1>1. CASE EmptyRecyclebin
  BY <1>1, EmptyRecyclebinKeeps
<1>2. ASSUME NEW t \in Threads, Step(t) PROVE IInv'
  BY <1>2, StepKeeps DEF Actors
<1>3. ASSUME NEW f \in Foreign, Step(f) PROVE IInv'
  BY <1>3, StepKeeps DEF Actors
<1>4. ASSUME NEW f \in Foreign, Attach(f) \/ EnterForeignCallback(f) \/ Detach(f) PROVE IInv'
  BY <1>4, AttachKeeps, EnterForeignCallbackKeeps, DetachKeeps
<1>5. CASE UNCHANGED vars
  BY <1>5, StutterKeeps
<1> QED BY <1>1, <1>2, <1>3, <1>4, <1>5 DEF Next

\* The inductive invariant holds in every reachable state: what the place of a thread in
\* START-THREAD, RUN, HANDLE-THREAD-EXIT, JOIN-THREAD and EXIT tells of its instance, that
\* every thread structure has one use, that *ALL-THREADS* has exactly the threads that are
\* not disposed of, and that every finished thread is joined by one other thread at most.
THEOREM ThreadsIInv == Spec => []IInv
<1>1. Init => IInv
  BY InitIInv
<1>2. IInv /\ [Next]_vars => IInv'
  BY NextKeeps
<1> QED BY <1>1, <1>2, PTL DEF Spec

\* The inductive invariant implies what the users of threads rely on.
LEMMA IInvSound == IInv => ThreadsAreSound
<1> SUFFICES ASSUME IInv PROVE ThreadsAreSound
  OBVIOUS
<1> USE ThreadsAssumption DEF IInv
<1>1. StacksAreOwned
  <2>1. \A t \in Actors : Running(t) => Owning(t)
    BY DEF Running, Owning
  <2>2. \A p \in Actors : loc[p].reuse # 0 => p \in Threads
    <3>1. NoLoc.reuse = 0
      BY DEF NoLoc
    <3>2. \A p \in Foreign : loc[p] = NoLoc
      BY DEF PlacesTell, Tells, ForeignTells, Actors
    <3> QED BY <3>1, <3>2 DEF Actors
  <2> QED BY <2>1, <2>2 DEF StacksAreOwned, MemoryIsOwned
<1>2. AliveIsListed
  <2>1. ASSUME NEW t \in Actors, info[t].prim # 0, pc[t] # "unborn"
        PROVE  <<info[t].prim, t>> \in reg.all
    <3>1. Tells(t)
      BY DEF PlacesTell
    <3>2. info[t].prim = info[t].th /\ os[t] # "none"
      <4>1. CASE t \in Lisp
        BY <2>1, <3>1, <4>1 DEF Tells, LispTells
      <4>2. CASE t = Main
        BY <3>1, <4>2 DEF Tells, MainTells
      <4>3. CASE t \in Foreign
        BY <2>1, <3>1, <4>3 DEF Tells, ForeignTells
      <4> QED BY <4>1, <4>2, <4>3 DEF Actors, Threads
    <3> QED BY <2>1, <3>2 DEF Listed, ListIsExact
  <2> QED BY <2>1 DEF AliveIsListed
<1>3. JoinsAreTrue
  <2>1. ASSUME NEW g \in log.got PROVE g[2] <=> g[1] \in log.returned
    <3>1. g[1] \in Lisp /\ (g[2] <=> info[g[1]].result)
      BY DEF ResultsAreFinal
    <3>2. LispTells(g[1])
      BY <3>1 DEF PlacesTell, Tells, Actors, Threads
    <3> QED BY <3>1, <3>2 DEF LispTells
  <2> QED BY <2>1 DEF JoinsAreTrue
<1> QED BY <1>1, <1>2, <1>3 DEF ThreadsAreSound

\* For any threads, thread structures and calls: a thread structure is mapped and used by one
\* OS thread at a time although pthread_join, the reuse of a corpse and the recycle bin give
\* it to others; DELETE-FROM-ALL-THREADS and UPDATE-ALL-THREADS never miss what they look
\* for, no SIGURG goes to a thread that is gone, a live thread is in *ALL-THREADS*, and
\* JOIN-THREAD gives a result exactly for a function that returned.
THEOREM ThreadsSound == Spec => []ThreadsAreSound
<1>1. IInv => ThreadsAreSound
  BY IInvSound
<1> QED BY <1>1, ThreadsIInv, PTL
=============================================================================
