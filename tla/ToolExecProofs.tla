--------------------------- MODULE ToolExecProofs ---------------------------
(***************************************************************************)
(* Whatever the packages, the order in which the goroutines of ToolExec    *)
(* run and what fails: the build is never the worse for the rewriter, no   *)
(* goroutine is kept from sending its result, a file that has lost a       *)
(* statement is never accepted, and objects that share a bulk allocation   *)
(* do not overlap.                                                         *)
(***************************************************************************)
EXTENDS ToolExec, FiniteSetTheorems, TLAPS

Labels == {"none", "analyse", "same", "write", "written", "failed", "sent", "ended"}

Results == [file : Files, changed : BOOLEAN, err : BOOLEAN]

Calls == [args : SUBSET Files, outcome : Outcomes]

TypeInv ==
  /\ pkg \in Packages
  /\ pc \in {"start", "wait", "collect", "fallback", "done", "crashed"}
  /\ worker \in [Files -> Labels]
  /\ seen \in [Files -> SUBSET Files]
  /\ trees \subseteq Files /\ newArgs \subseteq Files /\ temp \subseteq Files /\ failed \subseteq Files
  /\ waiting \in Nat
  /\ resChan \in Seq(Results)
  /\ runs \in Seq(Calls)
  /\ ret \in Outcomes \cup {"none"}

\* The files whose goroutines are at one of the labels.
At(labels) == {f \in Files : worker[f] \in labels}

Running  == Labels \ {"none", "ended"}
Answered == {"sent", "ended"}

(***************************************************************************)
(* The goroutines run only while ToolExec waits for them; the counter of   *)
(* wg is the number of those that do, and each has sent one result.        *)
(***************************************************************************)
StageInv ==
  /\ pc = "start" => trees = {} /\ resChan = <<>> /\ newArgs = {} /\ failed = {} /\ At({"none"}) = Files
  /\ pc \in {"wait", "crashed"} => At({"none"}) = {}
  /\ pc = "collect" => At({"ended"}) = Files
  /\ pc \in {"fallback", "done"} => At({"none", "ended"}) = Files
  /\ waiting = Cardinality(At(Running))
  /\ pc \in {"wait", "crashed"} => Len(resChan) = Cardinality(At(Answered))

\* The result of f is to come, or is in the channel.
Reported(f) ==
  worker[f] = "failed" \/ \E i \in DOMAIN resChan : resChan[i].file = f /\ resChan[i].err

(***************************************************************************)
(* What a result says is so: a changed file is complete in tempDir, and    *)
(* until an error is met, those of all files that failed are to come.      *)
(***************************************************************************)
ResultsInv ==
  /\ At({"written"}) \subseteq temp
  /\ \A i \in DOMAIN resChan : resChan[i].changed => resChan[i].file \in temp
  /\ newArgs \subseteq temp
  /\ pc \in {"wait", "crashed", "collect"} => \A f \in failed : Reported(f)

\* A tree is changed by the goroutine of its file, after its analysis.
TreesInv ==
  /\ trees \cap At({"none", "analyse"}) = {}
  /\ pc = "crashed" => trees # {} /\ Len(pkg) > 1

\* A call with rewritten files was made when all of them were complete; and
\* what the compiler accepts, it accepts.
SoundCall(c) ==
  /\ c.args # {} => c.args \subseteq temp /\ At({"ended"}) = Files /\ failed = {}
  /\ c.outcome = "ok" => Compiles(c.args)

RunsInv ==
  /\ pc \in {"start", "wait", "collect", "crashed"} => runs = <<>>
  /\ pc = "fallback" => runs = <<>> \/ (Len(runs) = 1 /\ runs[1].outcome = "err")
  /\ pc = "done" =>
       /\ Len(runs) \in 1..2
       /\ ret = runs[Len(runs)].outcome
       /\ ret = "err" => runs[Len(runs)].args = {}
       /\ Len(runs) = 2 => runs[1].outcome = "err" /\ runs[2].args = {}
  /\ \A i \in DOMAIN runs : SoundCall(runs[i])

ToolInv == TypeInv /\ StageInv /\ ResultsInv /\ TreesInv /\ RunsInv

(***************************************************************************)
(* A goroutine with a result never waits for room in the channel.          *)
(***************************************************************************)
RoomToSend ==
  \A f \in Files : worker[f] \in {"same", "written", "failed"} => Len(resChan) < ChanCap

----------------------------------------------------------------------------
(* Counting goroutines *)

LEMMA FilesOfPkg ==
  ASSUME pkg \in Packages
  PROVE  /\ Len(pkg) \in Nat /\ Files = 1..Len(pkg)
         /\ IsFiniteSet(Files) /\ Cardinality(Files) = Len(pkg)
<1>1. Len(pkg) \in Nat /\ DOMAIN pkg = 1..Len(pkg)
  BY PackagesAssumption
<1>2. IsFiniteSet(1..Len(pkg)) /\ Cardinality(1..Len(pkg)) = Len(pkg)
  <2>1. \A n \in Nat : IsFiniteSet(1..n) /\ Cardinality(1..n) = IF 1 > n THEN 0 ELSE n - 1 + 1
    BY FS_Interval
  <2>2. \A n \in Nat : (IF 1 > n THEN 0 ELSE n - 1 + 1) = n
    OBVIOUS
  <2> QED
    BY <1>1, <2>1, <2>2
<1> QED
  BY <1>1, <1>2 DEF Files

LEMMA AtFinite ==
  ASSUME pkg \in Packages, NEW L
  PROVE  IsFiniteSet(At(L)) /\ Cardinality(At(L)) \in Nat
<1>1. At(L) \subseteq Files
  BY DEF At
<1> QED
  BY <1>1, FilesOfPkg, FS_Subset, FS_CardinalityType

LEMMA NoneAt ==
  ASSUME pkg \in Packages, NEW L, Cardinality(At(L)) = 0
  PROVE  At(L) = {}
BY AtFinite, FS_EmptySet

\* The goroutine of f goes on to the label l, and all else stays where it is.
Moves(f, l) ==
  /\ pkg' = pkg /\ pc' = pc
  /\ worker' = [worker EXCEPT ![f] = l]

\* Where a goroutine enters or leaves the labels L, their number changes by one.
LEMMA Enters ==
  ASSUME TypeInv, NEW f \in Files, NEW l \in Labels, Moves(f, l),
         NEW L, worker[f] \notin L, l \in L
  PROVE  At(L)' = At(L) \cup {f} /\ Cardinality(At(L)') = Cardinality(At(L)) + 1
<1>1. At(L)' = At(L) \cup {f} /\ f \notin At(L)
  BY DEF TypeInv, Moves, At, Files
<1>2. IsFiniteSet(At(L))
  BY AtFinite DEF TypeInv
<1> QED
  BY <1>1, <1>2, FS_AddElement

LEMMA Leaves ==
  ASSUME TypeInv, NEW f \in Files, NEW l \in Labels, Moves(f, l),
         NEW L, worker[f] \in L, l \notin L
  PROVE  At(L)' = At(L) \ {f} /\ Cardinality(At(L)') = Cardinality(At(L)) - 1
<1>1. At(L)' = At(L) \ {f} /\ f \in At(L)
  BY DEF TypeInv, Moves, At, Files
<1>2. IsFiniteSet(At(L))
  BY AtFinite DEF TypeInv
<1> QED
  BY <1>1, <1>2, FS_RemoveElement

LEMMA Stays ==
  ASSUME TypeInv, NEW f \in Files, NEW l \in Labels, Moves(f, l),
         NEW L, worker[f] \in L <=> l \in L
  PROVE  At(L)' = At(L)
BY DEF TypeInv, Moves, At, Files

\* Where nobody moves, nothing is counted differently.
LEMMA AllStay ==
  ASSUME pkg' = pkg, worker' = worker, NEW L
  PROVE  At(L)' = At(L)
BY DEF At, Files

----------------------------------------------------------------------------
(* The steps of a goroutine *)

\* Only while ToolExec waits is a goroutine neither to start nor at its end.
LEMMA RunsInWait ==
  ASSUME TypeInv, StageInv, NEW f \in Files, worker[f] \in Running, Alive
  PROVE  pc = "wait"
<1>1. worker[f] \in Labels /\ worker[f] \notin {"none", "ended"}
  BY DEF Running
<1>2. f \notin At({"none"}) /\ f \notin At({"ended"}) /\ f \notin At({"none", "ended"})
  BY <1>1 DEF At
<1> QED
  BY <1>2 DEF TypeInv, StageInv, Alive

(***************************************************************************)
(* What a step of the goroutine of f is: it moves, the step with the label *)
(* l, and the variables that ToolExec itself changes are left alone.       *)
(***************************************************************************)
WorkerStep(f, l) ==
  /\ worker[f] \in Running /\ l \in Labels \ {"none"}
  /\ pc = "wait" /\ Moves(f, l)
  /\ UNCHANGED <<newArgs, runs, ret>>

LEMMA Going ==
  ASSUME TypeInv, StageInv, NEW f \in Files, worker[f] \in Running,
         NEW l \in Labels \ {"none"}, Goto(f, l), UNCHANGED MainVars
  PROVE  WorkerStep(f, l)
<1>1. pc = "wait"
  BY RunsInWait DEF Goto
<1> QED
  BY <1>1 DEF WorkerStep, Moves, Goto, MainVars

----------------------------------------------------------------------------
(* Types *)

\* No step changes the files of the package.
LEMMA SamePkg ==
  ASSUME [Next]_xvars
  PROVE  pkg' = pkg
BY DEF Next, xvars, Main, Worker, PassThrough, NotForUs, Compile, RunTool, Fallback, PrepareFails,
  Spawn, Wait, Collect, MainVars, SkipGenerated, Unchanged, Rewrite, ReadTree, Crash, WriteTemp,
  WriteFails, Send, Done

LEMMA ExecuteType ==
  ASSUME TypeInv, pkg' = pkg, NEW args \in SUBSET Files, NEW o \in Outcomes, Execute(args, o)
  PROVE  runs' \in Seq(Calls)'
<1>1. [args |-> args, outcome |-> o] \in Calls
  BY DEF Calls
<1>2. runs' \in Seq(Calls)
  BY <1>1 DEF TypeInv, Execute
<1> QED
  BY <1>2 DEF Calls, Files

LEMMA MainType ==
  ASSUME TypeInv, StageInv, Main, pkg' = pkg
  PROVE  TypeInv'
<1>1. ASSUME NEW o \in Outcomes, PassThrough(o) \/ Fallback(o)
      PROVE  TypeInv'
  <2>1. runs' \in Seq(Calls)'
    BY <1>1, ExecuteType DEF PassThrough, Fallback
  <2> QED
    BY <1>1, <2>1 DEF TypeInv, PassThrough, Fallback, Files, Results, Calls
<1>2. ASSUME NEW o \in Outcomes, NotForUs(o) \/ Compile(o)
      PROVE  TypeInv'
  <2>1. runs' \in Seq(Calls)'
    BY <1>2, ExecuteType DEF NotForUs, Compile, RunTool, TypeInv
  <2> QED
    BY <1>2, <2>1 DEF TypeInv, NotForUs, Compile, RunTool, Files, Results, Calls
<1>3. ASSUME PrepareFails \/ Wait
      PROVE  TypeInv'
  BY <1>3 DEF TypeInv, PrepareFails, Wait, Files, Results, Calls
<1>4. ASSUME Spawn
      PROVE  TypeInv'
  BY <1>4, FilesOfPkg DEF TypeInv, Spawn, Files, Results, Calls, Labels
<1>5. ASSUME Collect
      PROVE  TypeInv'
  <2>1. Head(resChan) \in Results /\ Tail(resChan) \in Seq(Results)
    BY <1>5 DEF TypeInv, Collect
  <2>2. newArgs' \subseteq Files
    BY <1>5, <2>1 DEF TypeInv, Collect, Results
  <2> QED
    BY <1>5, <2>1, <2>2 DEF TypeInv, Collect, Files, Results, Calls
<1> QED
  BY <1>1, <1>2, <1>3, <1>4, <1>5 DEF Main

LEMMA WorkerType ==
  ASSUME TypeInv, StageInv, NEW f \in Files, Worker(f), pkg' = pkg
  PROVE  TypeInv'
<1>1. ASSUME NEW l \in Labels, Goto(f, l)
      PROVE  worker' \in [Files -> Labels]
  BY <1>1 DEF TypeInv, Goto
<1>2. ASSUME SkipGenerated(f) \/ Unchanged(f) \/ Rewrite(f)
      PROVE  TypeInv'
  BY <1>1, <1>2 DEF TypeInv, SkipGenerated, Unchanged, Rewrite, MainVars, Files, Results, Calls, Labels
<1>3. ASSUME NEW h \in Files, ReadTree(f, h) \/ Crash(f, h)
      PROVE  TypeInv'
  BY <1>3 DEF TypeInv, ReadTree, Crash, MainVars, Files, Results, Calls
<1>4. ASSUME WriteTemp(f) \/ WriteFails(f)
      PROVE  TypeInv'
  BY <1>1, <1>4 DEF TypeInv, WriteTemp, WriteFails, MainVars, Files, Results, Calls, Labels
<1>5. ASSUME Send(f)
      PROVE  TypeInv'
  <2>1. resChan' \in Seq(Results)
    BY <1>5 DEF TypeInv, Send, Results
  <2> QED
    BY <1>1, <1>5, <2>1 DEF TypeInv, Send, MainVars, Files, Results, Calls, Labels
<1>6. ASSUME Done(f)
      PROVE  TypeInv'
  <2>1. worker[f] = "sent" /\ f \in At(Running) /\ waiting = Cardinality(At(Running))
    BY <1>6 DEF Done, At, Running, Labels, StageInv
  <2>2. waiting # 0
    BY <2>1, NoneAt DEF TypeInv
  <2>3. waiting' \in Nat
    BY <1>6, <2>2 DEF TypeInv, Done
  <2> QED
    BY <1>1, <1>6, <2>3 DEF TypeInv, Done, MainVars, Files, Results, Calls, Labels
<1> QED
  BY <1>2, <1>3, <1>4, <1>5, <1>6 DEF Worker

LEMMA TypeStep ==
  ASSUME TypeInv, StageInv, [Next]_xvars
  PROVE  TypeInv'
<1>1. pkg' = pkg
  BY SamePkg
<1>2. CASE Main
  BY <1>1, <1>2, MainType
<1>3. ASSUME NEW f \in Files, Worker(f)
      PROVE  TypeInv'
  BY <1>1, <1>3, WorkerType
<1>4. CASE UNCHANGED xvars
  BY <1>4 DEF TypeInv, xvars, Files, Results, Calls
<1> QED
  BY <1>2, <1>3, <1>4 DEF Next

----------------------------------------------------------------------------
(* Stages *)

LEMMA MainStage ==
  ASSUME TypeInv, StageInv, Main, pkg' = pkg
  PROVE  StageInv'
<1>0. \A L : worker' = worker => At(L)' = At(L)
  BY AllStay
<1>1. ASSUME NEW o \in Outcomes, PassThrough(o) \/ NotForUs(o) \/ Compile(o) \/ Fallback(o)
      PROVE  StageInv'
  <2>1. worker' = worker /\ waiting' = waiting /\ pc \in {"start", "collect", "fallback"}
        /\ pc' \in {"done", "fallback"}
    BY <1>1 DEF PassThrough, NotForUs, Compile, RunTool, Fallback
  <2>2. At({"none", "ended"}) = Files
    BY <2>1 DEF StageInv, At
  <2>3. Files' = Files
    BY DEF Files
  <2> QED
    BY <1>0, <2>1, <2>2, <2>3 DEF StageInv
<1>2. ASSUME PrepareFails
      PROVE  StageInv'
  <2>1. At({"none", "ended"}) = Files /\ Files' = Files
    BY <1>2 DEF StageInv, At, PrepareFails, Files
  <2> QED
    BY <1>0, <1>2, <2>1 DEF StageInv, PrepareFails
<1>3. ASSUME Spawn
      PROVE  StageInv'
  <2>1. At(Running)' = Files /\ At({"none"})' = {} /\ At(Answered)' = {}
    BY <1>3 DEF Spawn, At, Running, Labels, Answered, Files
  <2>2. Cardinality(Files) = Len(pkg) /\ Cardinality({}) = 0
    BY FilesOfPkg, FS_EmptySet DEF TypeInv
  <2>3. Len(resChan') = 0
    BY <1>3 DEF StageInv, Spawn
  <2> QED
    BY <1>3, <2>1, <2>2, <2>3 DEF StageInv, Spawn
<1>4. ASSUME Wait
      PROVE  StageInv'
  <2>1. At(Running) = {} /\ At({"none"}) = {}
    BY <1>4, NoneAt DEF StageInv, Wait, TypeInv
  <2>2. At({"ended"}) = Files /\ Files' = Files
    BY <2>1 DEF At, Running, TypeInv, Files
  <2> QED
    BY <1>0, <1>4, <2>2 DEF StageInv, Wait
<1>5. ASSUME Collect
      PROVE  StageInv'
  <2>1. At({"none", "ended"}) = Files /\ At({"ended"}) = Files /\ Files' = Files
    BY <1>5 DEF StageInv, At, Collect, Files
  <2>2. pc' \in {"fallback", "collect"}
    BY <1>5 DEF Collect
  <2> QED
    BY <1>0, <1>5, <2>1, <2>2 DEF StageInv, Collect
<1> QED
  BY <1>1, <1>2, <1>3, <1>4, <1>5 DEF Main

(***************************************************************************)
(* A step of a goroutine that keeps StageInv: it ends, and is counted off; *)
(* or it sends its result; or neither.                                     *)
(***************************************************************************)
LEMMA WorkerStage ==
  ASSUME TypeInv, StageInv, NEW f \in Files, NEW l \in Labels, WorkerStep(f, l),
         l = "ended" <=> waiting' # waiting, l = "ended" => waiting' = waiting - 1 /\ worker[f] = "sent",
         worker[f] \in Answered => l = "ended" /\ resChan' = resChan,
         l = "sent" => Len(resChan') = Len(resChan) + 1,
         l # "sent" => resChan' = resChan
  PROVE  StageInv'
<1>1. At({"none"})' = {}
  BY Stays DEF WorkerStep, StageInv, Running
<1>2. waiting' = Cardinality(At(Running)')
  <2>1. CASE l = "ended"
    BY <2>1, Leaves DEF WorkerStep, StageInv, Running
  <2>2. CASE l # "ended"
    BY <2>2, Stays DEF WorkerStep, StageInv, Running
  <2> QED
    BY <2>1, <2>2
<1>3. Len(resChan') = Cardinality(At(Answered)')
  <2>1. CASE l = "sent"
    BY <2>1, Enters DEF WorkerStep, StageInv, Answered
  <2>2. CASE l # "sent"
    <3>1. worker[f] \in Answered <=> l \in Answered
      BY <2>2 DEF Answered
    <3> QED
      BY <2>2, <3>1, Stays DEF WorkerStep, StageInv
  <2> QED
    BY <2>1, <2>2
<1>4. pc' = "wait"
  BY DEF WorkerStep, Moves
<1> QED
  BY <1>1, <1>2, <1>3, <1>4 DEF StageInv

LEMMA StageStep ==
  ASSUME TypeInv, StageInv, [Next]_xvars
  PROVE  StageInv'
<1>1. pkg' = pkg
  BY SamePkg
<1>2. CASE Main
  BY <1>1, <1>2, MainStage
<1>3. ASSUME NEW f \in Files, Worker(f)
      PROVE  StageInv'
  <2>1. ASSUME SkipGenerated(f) \/ Unchanged(f)
        PROVE  StageInv'
    <3>1. WorkerStep(f, "same")
      BY <2>1, Going DEF SkipGenerated, Unchanged, Running, Labels
    <3> QED
      BY <2>1, <3>1, WorkerStage DEF SkipGenerated, Unchanged, Answered, Labels
  <2>2. ASSUME Rewrite(f)
        PROVE  StageInv'
    <3>1. WorkerStep(f, "write")
      BY <2>2, Going DEF Rewrite, Running, Labels
    <3> QED
      BY <2>2, <3>1, WorkerStage DEF Rewrite, Answered, Labels
  <2>3. ASSUME NEW h \in Files, ReadTree(f, h)
        PROVE  StageInv'
    <3>1. pc' = pc /\ waiting' = waiting /\ resChan' = resChan /\ worker' = worker
          /\ newArgs' = newArgs /\ trees' = trees /\ failed' = failed
      BY <2>3 DEF ReadTree, MainVars
    <3>2. Files' = Files /\ \A L : At(L)' = At(L)
      BY <1>1, <3>1, AllStay DEF Files
    <3> QED
      BY <3>1, <3>2 DEF StageInv
  <2>4. ASSUME NEW h \in Files, Crash(f, h)
        PROVE  StageInv'
    <3>1. pc = "wait"
      BY <2>4, RunsInWait DEF Crash, Running, Labels
    <3>2. pc' = "crashed" /\ waiting' = waiting /\ resChan' = resChan /\ worker' = worker
      BY <2>4 DEF Crash
    <3>3. \A L : At(L)' = At(L)
      BY <1>1, <3>2, AllStay
    <3> QED
      BY <3>1, <3>2, <3>3 DEF StageInv
  <2>5. ASSUME WriteTemp(f)
        PROVE  StageInv'
    <3>1. WorkerStep(f, "written")
      BY <2>5, Going DEF WriteTemp, Running, Labels
    <3> QED
      BY <2>5, <3>1, WorkerStage DEF WriteTemp, Answered, Labels
  <2>6. ASSUME WriteFails(f)
        PROVE  StageInv'
    <3>1. WorkerStep(f, "failed")
      BY <2>6, Going DEF WriteFails, Running, Labels
    <3> QED
      BY <2>6, <3>1, WorkerStage DEF WriteFails, Answered, Labels
  <2>7. ASSUME Send(f)
        PROVE  StageInv'
    <3>1. WorkerStep(f, "sent")
      BY <2>7, Going DEF Send, Running, Labels
    <3>2. Len(resChan') = Len(resChan) + 1
      BY <2>7 DEF Send, TypeInv
    <3> QED
      BY <2>7, <3>1, <3>2, WorkerStage DEF Send, Answered, Labels
  <2>8. ASSUME Done(f)
        PROVE  StageInv'
    <3>1. WorkerStep(f, "ended")
      BY <2>8, Going DEF Done, Running, Labels
    <3> QED
      BY <2>8, <3>1, WorkerStage DEF Done, Answered, Labels, TypeInv
  <2> QED
    BY <1>3, <2>1, <2>2, <2>3, <2>4, <2>5, <2>6, <2>7, <2>8 DEF Worker
<1>4. CASE UNCHANGED xvars
  <2>1. Files' = Files /\ \A L : At(L)' = At(L)
    BY <1>4, AllStay DEF Files, xvars
  <2> QED
    BY <1>4, <2>1 DEF StageInv, xvars
<1> QED
  BY <1>2, <1>3, <1>4 DEF Next

----------------------------------------------------------------------------
(* Results *)

\* What is true of the entries of a queue is true of its tail.
LEMMA TailEntries ==
  ASSUME TypeInv, resChan # <<>>, resChan' = Tail(resChan)
  PROVE  /\ Head(resChan) = resChan[1] /\ 1 \in DOMAIN resChan
         /\ \A i \in DOMAIN resChan' : i + 1 \in DOMAIN resChan /\ resChan'[i] = resChan[i + 1]
         /\ \A i \in DOMAIN resChan : i # 1 => i - 1 \in DOMAIN resChan' /\ resChan'[i - 1] = resChan[i]
BY DEF TypeInv

LEMMA SendEntries ==
  ASSUME TypeInv, NEW r \in Results, resChan' = Append(resChan, r)
  PROVE  /\ \A i \in DOMAIN resChan : i \in DOMAIN resChan' /\ resChan'[i] = resChan[i]
         /\ Len(resChan) + 1 \in DOMAIN resChan' /\ resChan'[Len(resChan) + 1] = r
         /\ \A i \in DOMAIN resChan' : i \in DOMAIN resChan \/ resChan'[i] = r
BY DEF TypeInv

LEMMA MainResults ==
  ASSUME TypeInv, StageInv, ResultsInv, Main, pkg' = pkg
  PROVE  ResultsInv'
<1>0. \A L : worker' = worker => At(L)' = At(L)
  BY AllStay
<1>1. ASSUME UNCHANGED <<worker, resChan, newArgs, temp, failed>>,
             pc' \in {"fallback", "done"} \/ pc = "wait"
      PROVE  ResultsInv'
  BY <1>0, <1>1 DEF ResultsInv, Reported
<1>2. ASSUME NEW o \in Outcomes, PassThrough(o) \/ NotForUs(o) \/ Compile(o) \/ Fallback(o)
      PROVE  ResultsInv'
  BY <1>1, <1>2 DEF PassThrough, NotForUs, Compile, RunTool, Fallback
<1>3. ASSUME PrepareFails \/ Wait
      PROVE  ResultsInv'
  BY <1>1, <1>3 DEF PrepareFails, Wait
<1>4. ASSUME Spawn
      PROVE  ResultsInv'
  <2>1. At({"written"})' = {} /\ failed' = {} /\ resChan' = resChan /\ newArgs' = newArgs /\ temp' = temp
    BY <1>4 DEF Spawn, StageInv, At, Files
  <2> QED
    BY <2>1 DEF ResultsInv
<1>5. ASSUME Collect
      PROVE  ResultsInv'
  <2>1. /\ pc = "collect" /\ resChan # <<>> /\ resChan' = Tail(resChan)
        /\ UNCHANGED <<worker, temp, failed>>
        /\ pc' = "collect" => ~Head(resChan).err
        /\ newArgs' \subseteq newArgs \cup {Head(resChan).file}
        /\ newArgs' = newArgs \/ Head(resChan).changed
    BY <1>5 DEF Collect
  <2>2. newArgs' \subseteq temp
    BY <2>1, TailEntries DEF ResultsInv
  <2>3. \A i \in DOMAIN resChan' : resChan'[i].changed => resChan'[i].file \in temp
    BY <2>1, TailEntries DEF ResultsInv
  <2>4. ASSUME pc' = "collect", NEW f \in failed
        PROVE  Reported(f)'
    <3>1. Reported(f) /\ worker[f] # "failed"
      BY <2>1 DEF ResultsInv, StageInv, At, TypeInv
    <3>2. PICK i \in DOMAIN resChan : resChan[i].file = f /\ resChan[i].err
      BY <3>1 DEF Reported
    <3>3. i # 1
      BY <2>1, <2>4, <3>2, TailEntries
    <3> QED
      BY <2>1, <3>2, <3>3, TailEntries DEF Reported
  <2>5. pc' \in {"fallback", "collect"}
    BY <1>5 DEF Collect
  <2> QED
    BY <1>0, <2>1, <2>2, <2>3, <2>4, <2>5 DEF ResultsInv
<1> QED
  BY <1>2, <1>3, <1>4, <1>5 DEF Main

(***************************************************************************)
(* A step of a goroutine that sends nothing: where it says that the file   *)
(* is written it is, and a failure is at hand until its result is sent.    *)
(***************************************************************************)
LEMMA QuietResults ==
  ASSUME TypeInv, ResultsInv, NEW f \in Files, NEW l \in Labels, WorkerStep(f, l), resChan' = resChan,
         temp \subseteq temp', l = "written" => f \in temp',
         failed' \subseteq failed \cup {f}, f \in failed' => l = "failed" \/ f \in failed,
         worker[f] # "failed"
  PROVE  ResultsInv'
<1>1. At({"written"})' \subseteq At({"written"}) \cup (IF l = "written" THEN {f} ELSE {})
  BY DEF WorkerStep, Moves, At, TypeInv, Files
<1>2. newArgs' = newArgs /\ pc = "wait" /\ pc' = "wait"
  BY DEF WorkerStep, Moves
<1>3. ASSUME NEW g \in failed'
      PROVE  Reported(g)'
  <2>1. g \in Files
    BY DEF TypeInv
  <2>2. CASE g = f /\ f \notin failed
    BY <2>2 DEF Reported, WorkerStep, Moves, TypeInv
  <2>3. CASE g \in failed
    <3>1. Reported(g)
      BY <1>2, <2>3 DEF ResultsInv
    <3> QED
      BY <2>1, <3>1 DEF Reported, WorkerStep, Moves, TypeInv
  <2> QED
    BY <2>2, <2>3
<1> QED
  BY <1>1, <1>2, <1>3 DEF ResultsInv

LEMMA SendResults ==
  ASSUME TypeInv, StageInv, ResultsInv, NEW f \in Files, Send(f)
  PROVE  ResultsInv'
<1> DEFINE r == [file |-> f, changed |-> worker[f] = "written", err |-> worker[f] = "failed"]
<1>1. r \in Results /\ resChan' = Append(resChan, r) /\ temp' = temp /\ failed' = failed
  BY DEF Results, Send
<1>2. WorkerStep(f, "sent")
  BY Going DEF Send, Running, Labels
<1>3. newArgs' = newArgs /\ pc = "wait"
  BY <1>2 DEF WorkerStep
<1>4. At({"written"})' \subseteq At({"written"})
  BY <1>2 DEF WorkerStep, Moves, At, TypeInv, Files
<1>5. r.file = f /\ (r.changed <=> worker[f] = "written") /\ (r.err <=> worker[f] = "failed")
  OBVIOUS
<1>6. worker[f] = "written" => f \in temp
  BY DEF ResultsInv, At
<1> HIDE DEF r
<1>7. ASSUME NEW i \in DOMAIN resChan', resChan'[i].changed
      PROVE  resChan'[i].file \in temp
  <2>1. CASE i \in DOMAIN resChan
    BY <1>1, <1>7, <2>1, SendEntries DEF ResultsInv
  <2>2. CASE resChan'[i] = r
    BY <1>5, <1>6, <1>7, <2>2
  <2> QED
    BY <1>1, <2>1, <2>2, SendEntries
<1>8. ASSUME NEW g \in failed
      PROVE  Reported(g)'
  <2>1. Reported(g) /\ g \in Files
    BY <1>3 DEF ResultsInv, TypeInv
  <2>2. CASE worker[g] = "failed" /\ g = f
    <3>1. Len(resChan) + 1 \in DOMAIN resChan' /\ resChan'[Len(resChan) + 1] = r
      BY <1>1, SendEntries
    <3> QED
      BY <1>5, <2>2, <3>1 DEF Reported
  <2>3. CASE worker[g] = "failed" /\ g # f
    BY <1>2, <2>1, <2>3 DEF Reported, WorkerStep, Moves, TypeInv
  <2>4. CASE \E i \in DOMAIN resChan : resChan[i].file = g /\ resChan[i].err
    BY <1>1, <2>4, SendEntries DEF Reported
  <2> QED
    BY <2>1, <2>2, <2>3, <2>4 DEF Reported
<1> QED
  BY <1>1, <1>3, <1>4, <1>7, <1>8 DEF ResultsInv

LEMMA ResultsStep ==
  ASSUME TypeInv, StageInv, ResultsInv, [Next]_xvars
  PROVE  ResultsInv'
<1>1. pkg' = pkg
  BY SamePkg
<1>2. CASE Main
  BY <1>1, <1>2, MainResults
<1>3. ASSUME NEW f \in Files, Worker(f)
      PROVE  ResultsInv'
  <2>1. ASSUME SkipGenerated(f) \/ Unchanged(f)
        PROVE  ResultsInv'
    <3>1. WorkerStep(f, "same")
      BY <2>1, Going DEF SkipGenerated, Unchanged, Running, Labels
    <3> QED
      BY <2>1, <3>1, QuietResults DEF SkipGenerated, Unchanged, Labels
  <2>2. ASSUME Rewrite(f)
        PROVE  ResultsInv'
    <3>1. WorkerStep(f, "write")
      BY <2>2, Going DEF Rewrite, Running, Labels
    <3> QED
      BY <2>2, <3>1, QuietResults DEF Rewrite, Labels
  <2>3. ASSUME NEW h \in Files, ReadTree(f, h) \/ Crash(f, h)
        PROVE  ResultsInv'
    <3>1. pc = "wait"
      BY <2>3, RunsInWait DEF ReadTree, Crash, Running, Labels
    <3>2. UNCHANGED <<worker, resChan, newArgs, temp, failed>>
      BY <2>3 DEF ReadTree, Crash, MainVars
    <3>3. At({"written"})' = At({"written"})
      BY <1>1, <3>2, AllStay
    <3> QED
      BY <3>1, <3>2, <3>3 DEF ResultsInv, Reported
  <2>4. ASSUME WriteTemp(f)
        PROVE  ResultsInv'
    <3>1. WorkerStep(f, "written")
      BY <2>4, Going DEF WriteTemp, Running, Labels
    <3> QED
      BY <2>4, <3>1, QuietResults DEF WriteTemp, Labels
  <2>5. ASSUME WriteFails(f)
        PROVE  ResultsInv'
    <3>1. WorkerStep(f, "failed")
      BY <2>5, Going DEF WriteFails, Running, Labels
    <3> QED
      BY <2>5, <3>1, QuietResults DEF WriteFails, Labels
  <2>6. ASSUME Done(f)
        PROVE  ResultsInv'
    <3>1. WorkerStep(f, "ended")
      BY <2>6, Going DEF Done, Running, Labels
    <3> QED
      BY <2>6, <3>1, QuietResults DEF Done, Labels
  <2> QED
    BY <1>3, <2>1, <2>2, <2>3, <2>4, <2>5, <2>6, SendResults DEF Worker
<1>4. CASE UNCHANGED xvars
  <2>1. At({"written"})' = At({"written"})
    BY <1>1, <1>4, AllStay DEF xvars
  <2> QED
    BY <1>4, <2>1 DEF ResultsInv, Reported, xvars
<1> QED
  BY <1>2, <1>3, <1>4 DEF Next

----------------------------------------------------------------------------
(* Trees *)

LEMMA TreesStep ==
  ASSUME TypeInv, StageInv, TreesInv, [Next]_xvars
  PROVE  TreesInv'
<1>1. pkg' = pkg /\ Files' = Files
  BY SamePkg DEF Files
<1>2. CASE Main
  <2>1. CASE Spawn
    BY <2>1 DEF Spawn, StageInv, TreesInv
  <2>2. trees' = trees /\ pc' # "crashed"
    BY <1>2 DEF Main, PassThrough, NotForUs, Compile, RunTool, Fallback, PrepareFails, Spawn, Wait, Collect
  <2>3. CASE worker' = worker
    BY <1>1, <2>2, <2>3, AllStay DEF TreesInv
  <2> QED
    BY <1>2, <2>1, <2>3 DEF Main, PassThrough, NotForUs, Compile, RunTool, Fallback, PrepareFails, Wait, Collect
<1>3. ASSUME NEW f \in Files, Worker(f)
      PROVE  TreesInv'
  <2>1. ASSUME NEW h \in Files, Crash(f, h)
        PROVE  TreesInv'
    <3>1. h \notin At({"none", "analyse"}) /\ f \in At({"none", "analyse"}) /\ h \in trees
      BY <2>1 DEF Crash, TreesInv, At
    <3>2. f # h /\ Len(pkg) > 1
      BY <3>1, FilesOfPkg DEF TypeInv
    <3>3. trees' = trees /\ worker' = worker
      BY <2>1 DEF Crash
    <3> QED
      BY <1>1, <3>1, <3>2, <3>3, AllStay DEF TreesInv
  <2>2. ASSUME NEW h \in Files, ReadTree(f, h)
        PROVE  TreesInv'
    <3>1. trees' = trees /\ worker' = worker /\ pc' = pc
      BY <2>2 DEF ReadTree, MainVars
    <3> QED
      BY <1>1, <3>1, AllStay DEF TreesInv
  <2>3. ASSUME NEW l \in Labels \ {"none", "analyse"}, Goto(f, l), UNCHANGED MainVars,
               trees' \subseteq trees \cup {f}
        PROVE  TreesInv'
    <3>1. At({"none", "analyse"})' = At({"none", "analyse"}) \ {f}
      BY <1>1, <2>3 DEF Goto, At, TypeInv
    <3>2. pc' # "crashed"
      BY <2>3 DEF Goto, Alive, MainVars
    <3> QED
      BY <2>3, <3>1, <3>2 DEF TreesInv
  <2> QED
    BY <1>3, <2>1, <2>2, <2>3 DEF Worker, SkipGenerated, Unchanged, Rewrite, WriteTemp, WriteFails, Send, Done,
      Labels
<1>4. CASE UNCHANGED xvars
  BY <1>1, <1>4, AllStay DEF TreesInv, xvars
<1> QED
  BY <1>2, <1>3, <1>4 DEF Next

----------------------------------------------------------------------------
(* Calls of the tool *)

LEMMA ExecuteEntries ==
  ASSUME TypeInv, NEW args, NEW o, Execute(args, o)
  PROVE  /\ Len(runs') = Len(runs) + 1 /\ Len(runs) \in Nat /\ DOMAIN runs' = 1..(Len(runs) + 1)
         /\ runs'[Len(runs) + 1] = [args |-> args, outcome |-> o]
         /\ \A i \in DOMAIN runs : runs'[i] = runs[i] /\ i \in 1..Len(runs)
         /\ DOMAIN runs = 1..Len(runs)
BY DEF TypeInv, Execute

\* A sound call is added to sound ones, which stay so as no goroutine runs.
LEMMA CallsStaySound ==
  ASSUME TypeInv, RunsInv, pkg' = pkg, UNCHANGED <<worker, temp, failed>>,
         NEW args, NEW o, Execute(args, o), SoundCall([args |-> args, outcome |-> o])
  PROVE  (\A i \in DOMAIN runs : SoundCall(runs[i]))'
<1>1. At({"ended"})' = At({"ended"}) /\ Files' = Files
  BY AllStay DEF Files
<1>2. ASSUME NEW i \in DOMAIN runs'
      PROVE  SoundCall(runs'[i])
  <2>1. runs'[i] = [args |-> args, outcome |-> o] \/ (i \in DOMAIN runs /\ runs'[i] = runs[i])
    BY ExecuteEntries
  <2> QED
    BY <2>1 DEF RunsInv
<1>3. \A a : Compiles(a)' <=> Compiles(a)
  BY DEF Compiles
<1> QED
  BY <1>1, <1>2, <1>3 DEF SoundCall

LEMMA MainRuns ==
  ASSUME TypeInv, StageInv, ResultsInv, RunsInv, Main, pkg' = pkg
  PROVE  RunsInv'
<1>1. ASSUME NEW o \in Outcomes, PassThrough(o) \/ Fallback(o)
      PROVE  RunsInv'
  <2>1. /\ pc \in {"start", "fallback"} /\ pc' = "done" /\ ret' = o
        /\ Execute({}, o) /\ UNCHANGED <<worker, temp, failed>>
    BY <1>1 DEF PassThrough, Fallback
  <2>2. runs = <<>> \/ (Len(runs) = 1 /\ runs[1].outcome = "err")
    BY <2>1 DEF RunsInv
  <2>3. (\A i \in DOMAIN runs : SoundCall(runs[i]))'
    <3>1. SoundCall([args |-> {}, outcome |-> o])
      BY <2>1 DEF SoundCall, Execute
    <3> QED
      BY <2>1, <3>1, CallsStaySound
  <2>4. /\ Len(runs') = Len(runs) + 1 /\ runs'[Len(runs) + 1] = [args |-> {}, outcome |-> o]
        /\ \A i \in DOMAIN runs : runs'[i] = runs[i]
    BY <2>1, ExecuteEntries
  <2>5. Len(runs) \in Nat /\ DOMAIN runs = 1..Len(runs) /\ (runs = <<>> => Len(runs) = 0)
    BY DEF TypeInv
  <2>6. Len(runs') \in 1..2 /\ runs'[Len(runs')] = [args |-> {}, outcome |-> o]
    BY <2>2, <2>4, <2>5
  <2>7. Len(runs') = 2 => runs'[1].outcome = "err" /\ runs'[2].args = {}
    <3> SUFFICES ASSUME Len(runs') = 2
                 PROVE  runs'[1].outcome = "err" /\ runs'[2].args = {}
      OBVIOUS
    <3>1. Len(runs) = 1
      <4>1. \A n \in Nat : n + 1 = 2 => n = 1
        OBVIOUS
      <4>2. Len(runs) \in Nat /\ Len(runs) + 1 = 2
        BY <2>4, <2>5, Zenon
      <4> QED
        BY <4>1, <4>2, Zenon
    <3>2. runs # <<>> /\ 1 \in DOMAIN runs
      BY <2>5, <3>1
    <3>3. runs[1].outcome = "err" /\ runs'[1] = runs[1]
      BY <2>2, <2>4, <3>2
    <3>4. runs'[2] = [args |-> {}, outcome |-> o]
      BY <2>4, <3>1
    <3> QED
      BY <3>3, <3>4
  <2> QED
    BY <2>1, <2>3, <2>6, <2>7 DEF RunsInv
<1>2. ASSUME NEW o \in Outcomes, NotForUs(o) \/ Compile(o)
      PROVE  RunsInv'
  <2>1. PICK args \in SUBSET Files : RunTool(args, o) /\
          (args = {} \/ (args = newArgs /\ pc = "collect" /\ resChan = <<>>))
    BY <1>2 DEF NotForUs, Compile, TypeInv
  <2>2. /\ Execute(args, o) /\ UNCHANGED <<worker, temp, failed>>
        /\ o = "ok" => pc' = "done" /\ ret' = "ok"
        /\ o # "ok" => pc' = "fallback"
    BY <2>1 DEF RunTool
  <2>3. SoundCall([args |-> args, outcome |-> o])
    <3>0. o = "ok" => Compiles(args)
      BY <2>2 DEF Execute
    <3>1. CASE args = {}
      BY <3>0, <3>1 DEF SoundCall
    <3>2. CASE args = newArgs /\ pc = "collect" /\ resChan = <<>>
      <4>1. newArgs \subseteq temp /\ At({"ended"}) = Files
        BY <3>2 DEF ResultsInv, StageInv
      <4>2. \A f \in failed : worker[f] = "failed" /\ f \in Files
        BY <3>2 DEF ResultsInv, Reported, TypeInv
      <4>3. failed = {}
        BY <4>1, <4>2 DEF At
      <4> QED
        BY <3>0, <3>2, <4>1, <4>3 DEF SoundCall
    <3> QED
      BY <2>1, <3>1, <3>2
  <2>4. (\A i \in DOMAIN runs : SoundCall(runs[i]))'
    BY <2>2, <2>3, CallsStaySound
  <2>5. runs = <<>>
    BY <1>2 DEF NotForUs, Compile, RunsInv
  <2>6. Len(runs') = 1 /\ runs'[1] = [args |-> args, outcome |-> o]
    BY <2>2, <2>5, ExecuteEntries
  <2>7. o = "ok" \/ o = "err"
    BY DEF Outcomes
  <2>8. CASE o = "ok"
    BY <2>2, <2>4, <2>6, <2>8 DEF RunsInv
  <2>9. CASE o = "err"
    BY <2>2, <2>4, <2>6, <2>9 DEF RunsInv
  <2> QED
    BY <2>7, <2>8, <2>9
<1>3. ASSUME PrepareFails \/ Spawn \/ Wait \/ Collect
      PROVE  RunsInv'
  <2>1. runs' = runs /\ pc' \in {"wait", "collect", "fallback"} /\ pc \in {"start", "wait", "collect"}
    BY <1>3 DEF PrepareFails, Spawn, Wait, Collect
  <2> QED
    BY <2>1 DEF RunsInv
<1> QED
  BY <1>1, <1>2, <1>3 DEF Main

LEMMA RunsStep ==
  ASSUME TypeInv, StageInv, ResultsInv, RunsInv, [Next]_xvars
  PROVE  RunsInv'
<1>1. pkg' = pkg
  BY SamePkg
<1>2. CASE Main
  BY <1>1, <1>2, MainRuns
<1>3. ASSUME NEW f \in Files, Worker(f)
      PROVE  RunsInv'
  <2>1. worker[f] \in Running /\ Alive
    BY <1>3 DEF Worker, SkipGenerated, Unchanged, Rewrite, ReadTree, Crash, WriteTemp, WriteFails, Send,
      Done, Goto, Running, Labels
  <2>2. pc = "wait"
    BY <2>1, RunsInWait
  <2>3. runs' = runs /\ pc' \in {"wait", "crashed"}
    BY <1>3, <2>2 DEF Worker, SkipGenerated, Unchanged, Rewrite, ReadTree, Crash, WriteTemp, WriteFails, Send,
      Done, MainVars
  <2> QED
    BY <2>2, <2>3 DEF RunsInv
<1>4. CASE UNCHANGED xvars
  <2>1. At({"ended"})' = At({"ended"}) /\ Files' = Files
    BY <1>1, <1>4, AllStay DEF xvars, Files
  <2>2. \A a : Compiles(a)' <=> Compiles(a)
    BY <1>1 DEF Compiles
  <2> QED
    BY <1>4, <2>1, <2>2 DEF RunsInv, SoundCall, xvars
<1> QED
  BY <1>2, <1>3, <1>4 DEF Next

----------------------------------------------------------------------------
(* Induction, for a set of numbers rather than a predicate: if there were  *)
(* a number the set does not reach, i |-> i + 1 would map the set into     *)
(* itself, injectively and hence onto, but nothing is mapped to the least. *)

LEMMA Induction ==
  ASSUME NEW m \in Int, NEW n \in Int, m <= n,
         NEW S \in SUBSET (m..n), m \in S, \A i \in S : i < n => i + 1 \in S
  PROVE  S = m..n
<1> SUFFICES ASSUME NEW k \in m..n, k \notin S
             PROVE  FALSE
  OBVIOUS
<1> DEFINE L == {i \in S : i < k}
           succ == [i \in L |-> i + 1]
<1>1. IsFiniteSet(m..n)
  BY FS_Interval
<1>2. IsFiniteSet(L)
  BY <1>1, FS_Subset
<1>3. \A i \in L : i \in Int /\ i + 1 \in L
  <2> TAKE i \in L
  <2>1. i \in Int /\ i < k /\ i + 1 \in S
    OBVIOUS
  <2>2. i + 1 # k
    BY <2>1
  <2> QED
    BY <2>1, <2>2
<1>4. succ \in Injection(L, L)
  <2>1. succ \in [L -> L]
    BY <1>3
  <2>2. \A i, j \in L : succ[i] = succ[j] => i = j
    BY <1>3
  <2> QED
    BY <2>1, <2>2 DEF Injection, IsInjective
<1>5. succ \in Surjection(L, L)
  BY <1>2, <1>4, FS_Injection
<1>6. m \in L
  OBVIOUS
<1>7. PICK i \in L : succ[i] = m
  BY <1>5, <1>6 DEF Surjection
<1> QED
  BY <1>7

(***************************************************************************)
(* A sequence of values, each made of the one before: there is one, and    *)
(* any such function has its values where the steps have them.             *)
(***************************************************************************)
Follows(f, m, n, first, step) ==
  f[m] = first /\ \A i \in (m + 1)..n : f[i] = step[<<i, f[i - 1]>>]

Steps(step, m, n, V) == \A i \in (m + 1)..n, v \in V : step[<<i, v>>] \in V

LEMMA RecursionExists ==
  ASSUME NEW m \in Int, NEW n \in Int, m <= n, NEW V, NEW first \in V,
         NEW step, Steps(step, m, n, V)
  PROVE  \E f \in [m..n -> V] : Follows(f, m, n, first, step)
<1> DEFINE S == {k \in m..n : \E f \in [m..k -> V] : Follows(f, m, k, first, step)}
<1>1. m \in S
  <2>1. [i \in m..m |-> first] \in [m..m -> V] /\ Follows([i \in m..m |-> first], m, m, first, step)
    BY DEF Follows
  <2>2. \E f \in [m..m -> V] : Follows(f, m, m, first, step)
    BY <2>1, Zenon
  <2> QED
    BY <2>2
<1>2. ASSUME NEW k \in S, k < n
      PROVE  k + 1 \in S
  <2>1. PICK f \in [m..k -> V] : Follows(f, m, k, first, step)
    OBVIOUS
  <2> DEFINE g == [i \in m..(k + 1) |-> IF i = k + 1 THEN step[<<k + 1, f[k]>>] ELSE f[i]]
  <2>2. f[k] \in V /\ k + 1 \in (m + 1)..n
    BY <1>2
  <2>3. step[<<k + 1, f[k]>>] \in V
    BY <2>2 DEF Steps
  <2>4. g \in [m..(k + 1) -> V]
    BY <2>3
  <2>5. \A i \in m..k : g[i] = f[i]
    BY <1>2
  <2>6. g[k + 1] = step[<<k + 1, f[k]>>]
    BY <1>2
  <2>7. Follows(g, m, k + 1, first, step)
    <3>1. g[m] = first
      BY <1>2, <2>1, <2>5 DEF Follows
    <3>2. ASSUME NEW i \in (m + 1)..(k + 1)
          PROVE  g[i] = step[<<i, g[i - 1]>>]
      <4>1. i - 1 \in m..k /\ g[i - 1] = f[i - 1]
        BY <1>2, <2>5
      <4>2. CASE i = k + 1
        <5>1. i - 1 = k /\ i \in Int
          BY <4>2
        <5> QED
          BY <2>6, <4>1, <4>2, <5>1
      <4>3. CASE i # k + 1
        <5>1. i \in (m + 1)..k
          BY <1>2, <4>3
        <5>2. f[i] = step[<<i, f[i - 1]>>] /\ g[i] = f[i]
          BY <2>1, <2>5, <5>1 DEF Follows
        <5> QED
          BY <4>1, <5>2
      <4> QED
        BY <4>2, <4>3
    <3> QED
      BY <3>1, <3>2 DEF Follows
  <2> HIDE DEF g
  <2> QED
    BY <1>2, <2>4, <2>7
<1>3. S \in SUBSET (m..n)
  OBVIOUS
<1> HIDE DEF S
<1>4. S = m..n
  BY <1>1, <1>2, <1>3, Induction
<1> USE DEF S
<1> QED
  BY <1>4

LEMMA RecursionValues ==
  ASSUME NEW m \in Int, NEW n \in Int, m <= n, NEW V, NEW first \in V,
         NEW step, Steps(step, m, n, V), NEW f, Follows(f, m, n, first, step)
  PROVE  \A i \in m..n : f[i] \in V
<1> DEFINE S == {i \in m..n : f[i] \in V}
<1>1. m \in S
  BY DEF Follows
<1>2. ASSUME NEW i \in S, i < n
      PROVE  i + 1 \in S
  <2>1. i + 1 \in (m + 1)..n /\ (i + 1) - 1 = i /\ f[i] \in V
    BY <1>2
  <2>2. f[i + 1] = step[<<i + 1, f[i]>>]
    BY <2>1 DEF Follows
  <2>3. step[<<i + 1, f[i]>>] \in V
    BY <2>1 DEF Steps
  <2> QED
    BY <2>1, <2>2, <2>3
<1>3. S \in SUBSET (m..n)
  OBVIOUS
<1> HIDE DEF S
<1>4. S = m..n
  BY <1>1, <1>2, <1>3, Induction
<1> USE DEF S
<1> QED
  BY <1>4

----------------------------------------------------------------------------
(* The lists of sites *)

LEMMA EntriesUnfold ==
  ASSUME NEW list, NEW I,
         NEW g, g = [n \in 0..Len(list) |->
                       IF n = 0 THEN <<>>
                       ELSE IF n \in I THEN Append(g[n - 1], list[n]) ELSE g[n - 1]]
  PROVE  \E f : /\ f = [n \in 0..Len(list) |->
                          IF n = 0 THEN <<>>
                          ELSE IF n \in I THEN Append(f[n - 1], list[n]) ELSE f[n - 1]]
                /\ Entries(list, I) = f[Len(list)]
BY DEF Entries

LEMMA EntriesType ==
  ASSUME NEW T, NEW list \in Seq(T), NEW I
  PROVE  Entries(list, I) \in Seq(T)
<1> DEFINE n == Len(list)
           Step(i, s) == IF i \in I THEN Append(s, list[i]) ELSE s
           step == [p \in (1..n) \X Seq(T) |-> Step(p[1], p[2])]
<1>1. n \in Nat /\ <<>> \in Seq(T) /\ (0 + 1)..n = 1..n
  OBVIOUS
<1>2. \A i \in 1..n, s \in Seq(T) : Step(i, s) \in Seq(T)
  OBVIOUS
<1>3. \A i \in 1..n, s \in Seq(T) : step[<<i, s>>] = Step(i, s)
  OBVIOUS
<1> HIDE DEF step, Step, n
<1>4. Steps(step, 0, n, Seq(T)) /\ 0 \in Int /\ n \in Int /\ 0 <= n
  BY <1>1, <1>2, <1>3 DEF Steps
<1>5. PICK g \in [0..n -> Seq(T)] : Follows(g, 0, n, <<>>, step)
  BY <1>1, <1>4, RecursionExists
<1>6. g = [i \in 0..n |-> IF i = 0 THEN <<>> ELSE Step(i, g[i - 1])]
  <2>1. ASSUME NEW i \in 0..n
        PROVE  g[i] = IF i = 0 THEN <<>> ELSE Step(i, g[i - 1])
    <3>1. CASE i = 0
      BY <1>5, <3>1 DEF Follows
    <3>2. CASE i # 0
      <4>1. i \in 1..n /\ i \in (0 + 1)..n /\ i - 1 \in 0..n
        BY <1>1, <3>2
      <4>2. g[i] = step[<<i, g[i - 1]>>]
        BY <1>5, <4>1 DEF Follows
      <4>3. g[i - 1] \in Seq(T)
        BY <4>1
      <4> QED
        BY <1>3, <3>2, <4>1, <4>2, <4>3
    <3> QED
      BY <3>1, <3>2
  <2> QED
    BY <2>1
<1>7. PICK f : /\ f = [i \in 0..n |-> IF i = 0 THEN <<>> ELSE Step(i, f[i - 1])]
               /\ Entries(list, I) = f[n]
  BY <1>6, EntriesUnfold DEF Step, n
<1>8. \A i \in 0..n : f[i] \in Seq(T)
  <2> DEFINE S == {i \in 0..n : f[i] \in Seq(T)}
  <2>1. S \in SUBSET (0..n) /\ 0 <= n /\ 0 \in Int /\ n \in Int
    BY <1>1
  <2>2. 0 \in S
    BY <1>1, <1>7
  <2>3. ASSUME NEW i \in S, i < n
        PROVE  i + 1 \in S
    <3>1. i + 1 \in 1..n /\ i + 1 \in 0..n /\ i + 1 # 0 /\ (i + 1) - 1 = i /\ f[i] \in Seq(T)
      BY <1>1, <2>3
    <3>2. f[i + 1] = Step(i + 1, f[i])
      BY <1>7, <3>1
    <3> QED
      BY <1>2, <3>1, <3>2
  <2> HIDE DEF S
  <2>4. S = 0..n
    BY <2>1, <2>2, <2>3, Induction
  <2> QED
    BY <2>4 DEF S
<1> QED
  BY <1>1, <1>7, <1>8

----------------------------------------------------------------------------
(* The layout *)

LEMMA DivMod ==
  ASSUME NEW s \in Nat, NEW a \in Nat \ {0}
  PROVE  s \div a \in Nat /\ s % a \in 0..(a - 1) /\ s = a * (s \div a) + (s % a)
OBVIOUS

LEMMA MultipleMod ==
  ASSUME NEW q \in Nat, NEW a \in Nat \ {0}
  PROVE  (q * a) % a = 0 /\ q * a \in Nat
OBVIOUS

LEMMA AlignToBounds ==
  ASSUME NEW x \in Nat, NEW a \in Nat \ {0}
  PROVE  AlignTo(x, a) \in Nat /\ AlignTo(x, a) >= x /\ AlignTo(x, a) % a = 0
<1> DEFINE s == x + a - 1
           q == s \div a
<1>1. s \in Nat
  OBVIOUS
<1>2. q \in Nat /\ s % a \in 0..(a - 1) /\ s = a * q + (s % a)
  BY <1>1, DivMod
<1>3. AlignTo(x, a) = q * a
  BY DEF AlignTo
<1>4. (q * a) % a = 0 /\ q * a \in Nat
  BY <1>2, MultipleMod
<1>5. q * a = a * q /\ a * q \in Nat
  BY <1>2
<1>6. s = x + a - 1
  OBVIOUS
<1> HIDE DEF s, q
<1>7. \A p, r, t \in Nat : t < a /\ p = x + a - 1 /\ p = r + t => r >= x
  OBVIOUS
<1>8. a * q >= x
  BY <1>1, <1>2, <1>5, <1>6, <1>7
<1> QED
  BY <1>3, <1>4, <1>5, <1>8

LEMMA SizesType ==
  ASSUME NEW s \in SiteType
  PROVE  Reserved(s) \in Nat /\ Extent(s) \in Int /\ s.align \in Nat \ {0}
<1>1. \A m, n \in Nat : m * n \in Nat
  OBVIOUS
<1>2. \A m \in Nat : m * NoCap \in Int
  BY DEF NoCap
<1> QED
  BY <1>1, <1>2 DEF SiteType, Reserved, Extent

AreOffsets(f, sites) ==
  f = [i \in DOMAIN sites |->
         IF i = 1 THEN 0 ELSE AlignTo(f[i - 1] + Reserved(sites[i - 1]), sites[i].align)]

LEMMA OffsetsUnfold ==
  ASSUME NEW sites, NEW g, AreOffsets(g, sites)
  PROVE  AreOffsets(Offsets(sites), sites)
BY DEF Offsets, AreOffsets

(***************************************************************************)
(* Where rewriteBulk puts the objects: the first at the start, the others  *)
(* behind the one before.                                                  *)
(***************************************************************************)
LEMMA OffsetsValues ==
  ASSUME NEW sites \in Seq(SiteType), sites # <<>>
  PROVE  /\ \A i \in 1..Len(sites) : Offsets(sites)[i] \in Nat
         /\ Offsets(sites)[1] = 0
         /\ \A i \in 2..Len(sites) :
              Offsets(sites)[i] = AlignTo(Offsets(sites)[i - 1] + Reserved(sites[i - 1]), sites[i].align)
<1> DEFINE n == Len(sites)
           Step(i, x) == AlignTo(x + Reserved(sites[i - 1]), sites[i].align)
           step == [p \in (2..n) \X Nat |-> Step(p[1], p[2])]
<1>1. n \in Nat /\ n >= 1 /\ DOMAIN sites = 1..n
  OBVIOUS
<1>2. \A i \in 1..n : Reserved(sites[i]) \in Nat /\ sites[i].align \in Nat \ {0}
  BY SizesType
<1>3. \A i \in 2..n, x \in Nat : Step(i, x) \in Nat
  <2> SUFFICES ASSUME NEW i \in 2..n, NEW x \in Nat
               PROVE  Step(i, x) \in Nat
    OBVIOUS
  <2>1. i \in 1..n /\ i - 1 \in 1..n
    BY <1>1
  <2>2. Reserved(sites[i - 1]) \in Nat /\ sites[i].align \in Nat \ {0}
    BY <1>2, <2>1
  <2>3. x + Reserved(sites[i - 1]) \in Nat
    BY <2>2
  <2> QED
    BY <2>2, <2>3, AlignToBounds
<1>4. \A i \in 2..n, x \in Nat : step[<<i, x>>] = Step(i, x)
  OBVIOUS
<1> HIDE DEF step, Step, n
<1>5. Steps(step, 1, n, Nat) /\ 1 \in Int /\ n \in Int /\ 1 <= n /\ 0 \in Nat
  <2>1. (1 + 1)..n = 2..n
    BY <1>1
  <2>2. Steps(step, 1, n, Nat)
    BY <1>3, <1>4, <2>1, Zenon DEF Steps
  <2> QED
    BY <1>1, <2>2
<1>6. PICK g \in [1..n -> Nat] : Follows(g, 1, n, 0, step)
  BY <1>5, RecursionExists
<1>7. g = [i \in 1..n |-> IF i = 1 THEN 0 ELSE Step(i, g[i - 1])]
  <2>1. ASSUME NEW i \in 1..n
        PROVE  g[i] = IF i = 1 THEN 0 ELSE Step(i, g[i - 1])
    <3>1. CASE i = 1
      BY <1>6, <3>1 DEF Follows
    <3>2. CASE i # 1
      <4>1. i \in 2..n /\ i \in (1 + 1)..n /\ i - 1 \in 1..n
        BY <1>1, <3>2
      <4>2. g[i] = step[<<i, g[i - 1]>>]
        BY <1>6, <4>1 DEF Follows
      <4>3. g[i - 1] \in Nat
        BY <4>1
      <4> QED
        BY <1>4, <3>2, <4>1, <4>2, <4>3
    <3> QED
      BY <3>1, <3>2
  <2> QED
    BY <2>1
<1> DEFINE f == Offsets(sites)
<1>8. f = [i \in 1..n |-> IF i = 1 THEN 0 ELSE Step(i, f[i - 1])]
  <2>1. g = [i \in DOMAIN sites |-> IF i = 1 THEN 0 ELSE Step(i, g[i - 1])]
    BY <1>1, <1>7, Zenon
  <2>2. AreOffsets(g, sites)
    BY <2>1 DEF Step, AreOffsets
  <2>3. AreOffsets(f, sites)
    BY <2>2, OffsetsUnfold
  <2>4. f = [i \in DOMAIN sites |-> IF i = 1 THEN 0 ELSE Step(i, f[i - 1])]
    BY <2>3 DEF Step, AreOffsets
  <2> QED
    BY <1>1, <2>4, Zenon
<1> HIDE DEF f
<1>9. f[1] = 0 /\ \A i \in 2..n : f[i] = Step(i, f[i - 1])
  BY <1>1, <1>8
<1>10. \A i \in 1..n : f[i] \in Nat
  <2> DEFINE S == {i \in 1..n : f[i] \in Nat}
  <2>1. S \in SUBSET (1..n) /\ 1 \in S
    BY <1>1, <1>9
  <2>2. ASSUME NEW i \in S, i < n
        PROVE  i + 1 \in S
    <3>1. i + 1 \in 2..n /\ i + 1 \in 1..n /\ (i + 1) - 1 = i /\ f[i] \in Nat
      BY <1>1, <2>2
    <3>2. f[i + 1] = Step(i + 1, f[i])
      BY <1>9, <3>1
    <3> QED
      BY <1>3, <3>1, <3>2
  <2> HIDE DEF S
  <2>3. S = 1..n
    BY <1>5, <2>1, <2>2, Induction
  <2> QED
    BY <2>3 DEF S
<1> QED
  BY <1>9, <1>10 DEF f, Step, n

LEMMA OffsetsAscend ==
  ASSUME NEW sites \in Seq(SiteType), NEW i \in 1..Len(sites), NEW j \in 1..Len(sites), i < j
  PROVE  Offsets(sites)[i] + Reserved(sites[i]) <= Offsets(sites)[j]
<1> DEFINE n == Len(sites)
           off == Offsets(sites)
           S == {k \in (i + 1)..n : off[i] + Reserved(sites[i]) <= off[k]}
<1>1. n \in Nat /\ sites # <<>>
  OBVIOUS
<1>2. \A k \in 1..n : Reserved(sites[k]) \in Nat /\ sites[k].align \in Nat \ {0} /\ off[k] \in Nat
  <2>1. \A k \in 1..n : sites[k] \in SiteType
    OBVIOUS
  <2>2. \A k \in 1..n : off[k] \in Nat
    BY <1>1, OffsetsValues
  <2> QED
    BY <2>1, <2>2, SizesType
<1>3. ASSUME NEW k \in 1..n, k < n
      PROVE  off[k] + Reserved(sites[k]) <= off[k + 1]
  <2>1. k + 1 \in 2..n /\ k + 1 \in 1..n /\ (k + 1) - 1 = k
    BY <1>1, <1>3
  <2>2. off[k + 1] = AlignTo(off[k] + Reserved(sites[k]), sites[k + 1].align)
    BY <1>1, <2>1, OffsetsValues
  <2>3. off[k] + Reserved(sites[k]) \in Nat /\ sites[k + 1].align \in Nat \ {0}
    BY <1>2, <2>1
  <2> QED
    BY <2>2, <2>3, AlignToBounds
<1> HIDE DEF off, n
<1>4. i + 1 \in Int /\ n \in Int /\ i + 1 <= n /\ S \in SUBSET ((i + 1)..n)
  BY <1>1 DEF n
<1>5. i + 1 \in S
  BY <1>1, <1>3 DEF n
<1>6. ASSUME NEW k \in S, k < n
      PROVE  k + 1 \in S
  <2>1. k \in 1..n /\ k + 1 \in (i + 1)..n /\ k + 1 \in 1..n /\ i \in 1..n
    BY <1>1, <1>6 DEF n
  <2>2. off[i] + Reserved(sites[i]) <= off[k] /\ off[k] + Reserved(sites[k]) <= off[k + 1]
    BY <1>3, <1>6, <2>1
  <2>3. \A a, b, c, d, e \in Nat : a + b <= c /\ c + d <= e => a + b <= e
    OBVIOUS
  <2>4. off[i] + Reserved(sites[i]) <= off[k + 1]
    BY <1>2, <2>1, <2>2, <2>3
  <2> QED
    BY <2>1, <2>4
<1> HIDE DEF S
<1>7. S = (i + 1)..n
  BY <1>4, <1>5, <1>6, Induction
<1>8. j \in (i + 1)..n
  BY <1>1 DEF n
<1> QED
  BY <1>7, <1>8 DEF S, off

(***************************************************************************)
(* Whatever the sizes, the alignments and the number of the sites.         *)
(***************************************************************************)
LEMMA LayoutIsSound ==
  ASSUME NEW sites \in Seq(SiteType)
  PROVE  LayoutSound(sites)
<1> DEFINE n == Len(sites)
           off == Offsets(sites)
<1> SUFFICES ASSUME NEW i \in DOMAIN sites
             PROVE  /\ off[i] % sites[i].align = 0
                    /\ Extent(sites[i]) <= Reserved(sites[i]) =>
                         /\ off[i] + Extent(sites[i]) <= BulkSize(sites)
                         /\ \A j \in DOMAIN sites : i < j => off[i] + Extent(sites[i]) <= off[j]
  BY DEF LayoutSound
<1>1. n \in Nat /\ sites # <<>> /\ DOMAIN sites = 1..n /\ n \in 1..n
  OBVIOUS
<1>2. \A k \in 1..n : /\ Reserved(sites[k]) \in Nat /\ Extent(sites[k]) \in Int
                      /\ sites[k].align \in Nat \ {0} /\ off[k] \in Nat
  BY <1>1, SizesType, OffsetsValues
<1>3. off[i] % sites[i].align = 0
  <2>1. CASE i = 1
    <3>1. off[1] = 0
      BY <1>1, OffsetsValues
    <3>2. sites[1].align \in Nat \ {0}
      BY <1>1, <1>2, <2>1
    <3>3. \A a \in Nat \ {0} : 0 % a = 0
      OBVIOUS
    <3> QED
      BY <2>1, <3>1, <3>2, <3>3
  <2>2. CASE i # 1
    <3>1. i \in 2..n /\ i \in 1..n /\ i - 1 \in 1..n
      BY <1>1, <2>2
    <3>2. off[i] = AlignTo(off[i - 1] + Reserved(sites[i - 1]), sites[i].align)
      BY <1>1, <3>1, OffsetsValues
    <3>3. off[i - 1] \in Nat /\ Reserved(sites[i - 1]) \in Nat /\ sites[i].align \in Nat \ {0}
      BY <1>2, <3>1
    <3>4. off[i - 1] + Reserved(sites[i - 1]) \in Nat
      BY <3>3
    <3> QED
      <4>1. AlignTo(off[i - 1] + Reserved(sites[i - 1]), sites[i].align) % sites[i].align = 0
        BY <3>3, <3>4, AlignToBounds
      <4> QED
        BY <3>2, <4>1
  <2> QED
    BY <2>1, <2>2
<1>4. \A j \in DOMAIN sites : i < j => off[i] + Reserved(sites[i]) <= off[j]
  BY <1>1, OffsetsAscend
<1>5. BulkSize(sites) = off[n] + Reserved(sites[n])
  BY DEF BulkSize, Last
<1> HIDE DEF off, n
<1>6. off[i] + Reserved(sites[i]) <= BulkSize(sites) /\ BulkSize(sites) \in Nat
  <2>1. \A a, b, c, d \in Nat : a + b <= c => a + b <= c + d
    OBVIOUS
  <2>2. off[n] \in Nat /\ Reserved(sites[n]) \in Nat /\ off[i] \in Nat /\ Reserved(sites[i]) \in Nat
    BY <1>1, <1>2
  <2>3. BulkSize(sites) \in Nat
    BY <1>5, <2>2
  <2>4. CASE i = n
    BY <1>5, <2>2, <2>3, <2>4
  <2>5. CASE i # n
    <3>1. off[i] + Reserved(sites[i]) <= off[n]
      BY <1>1, <1>4, <2>5
    <3> QED
      BY <1>5, <2>1, <2>2, <2>3, <3>1
  <2> QED
    BY <2>3, <2>4, <2>5
<1>7. \A a, b, c \in Nat, e \in Int : a + b <= c /\ e <= b => a + e <= c
  OBVIOUS
<1>8. ASSUME Extent(sites[i]) <= Reserved(sites[i])
      PROVE  /\ off[i] + Extent(sites[i]) <= BulkSize(sites)
             /\ \A j \in DOMAIN sites : i < j => off[i] + Extent(sites[i]) <= off[j]
  <2>1. off[i] \in Nat /\ Reserved(sites[i]) \in Nat /\ Extent(sites[i]) \in Int
    BY <1>1, <1>2
  <2>2. off[i] + Extent(sites[i]) <= BulkSize(sites)
    BY <1>6, <1>7, <1>8, <2>1
  <2>3. ASSUME NEW j \in DOMAIN sites, i < j
        PROVE  off[i] + Extent(sites[i]) <= off[j]
    <3>1. off[j] \in Nat /\ off[i] + Reserved(sites[i]) <= off[j]
      BY <1>1, <1>2, <1>4, <2>3
    <3> QED
      BY <1>7, <1>8, <2>1, <3>1
  <2> QED
    BY <2>2, <2>3
<1> QED
  BY <1>3, <1>8

LEMMA BulkSitesType ==
  ASSUME NEW file, NEW body \in BodyType
  PROVE  Chosen(file, body) \in Seq(SiteType) /\ BulkSites(file, body) \in Seq(SiteType)
<1>1. body.sites \in Seq(SiteType)
  BY DEF BodyType
<1>2. Chosen(file, body) \in Seq(SiteType)
  BY <1>1, EntriesType DEF Chosen
<1> DEFINE chosen == Chosen(file, body)
           bulk == Entries(chosen, {i \in DOMAIN chosen : Bulkable(chosen[i])})
<1>3. bulk \in Seq(SiteType)
  BY <1>2, EntriesType
<1>4. BulkSites(file, body) = bulk \/ BulkSites(file, body) = <<>>
  BY DEF BulkSites
<1> HIDE DEF chosen, bulk
<1>5. <<>> \in Seq(SiteType)
  OBVIOUS
<1> QED
  BY <1>2, <1>3, <1>4, <1>5

----------------------------------------------------------------------------
(* The statements of a rewritten body *)

Tags == {"stmt", "define", "use", "NewArena", "EnterScope", "defer Close", "defer Exit"}
Stmt == {<<t, i>> : t \in Tags, i \in Int}

\* p statements that are not of the program, then the n of the program.
Shaped(stmts, p, n) ==
  /\ DOMAIN stmts = 1..(p + n)
  /\ \A i \in 1..p : stmts[i][1] # "stmt"
  /\ \A i \in (p + 1)..(p + n) : stmts[i] = <<"stmt", i - p>>

LEMMA ShapedIsComplete ==
  ASSUME NEW file, NEW body \in BodyType, NEW p \in Nat, Shaped(RewriteBody(file, body), p, body.len)
  PROVE  Complete(file, body)
<1> DEFINE stmts == RewriteBody(file, body)
           n == body.len
           kept == {i \in DOMAIN stmts : stmts[i][1] = "stmt"}
<1>1. n \in Nat
  BY DEF BodyType
<1>2. Shaped(stmts, p, n)
  OBVIOUS
<1> HIDE DEF stmts, n
<1>3. kept = (p + 1)..(p + n)
  <2>1. \A i \in 1..(p + n) : i \in 1..p \/ i \in (p + 1)..(p + n)
    BY <1>1
  <2>2. \A i \in (p + 1)..(p + n) : i \in 1..(p + n) /\ i \notin 1..p
    BY <1>1
  <2>3. \A i \in (p + 1)..(p + n) : stmts[i][1] = "stmt"
    BY <1>2 DEF Shaped
  <2> QED
    BY <1>2, <2>1, <2>2, <2>3 DEF Shaped
<1> HIDE DEF kept
<1>4. \A i \in kept : stmts[i] = <<"stmt", i - p>> /\ i - p \in 1..n /\ i \in Int
  BY <1>1, <1>2, <1>3 DEF Shaped
<1>5. \A k \in 1..n : k + p \in kept /\ stmts[k + p] = <<"stmt", k>>
  <2> SUFFICES ASSUME NEW k \in 1..n
               PROVE  k + p \in kept /\ stmts[k + p] = <<"stmt", k>>
    OBVIOUS
  <2>1. k + p \in kept /\ (k + p) - p = k
    BY <1>1, <1>3
  <2> QED
    BY <1>4, <2>1
<1>6. Range(Original(body)) = {<<"stmt", k>> : k \in 1..n}
  BY DEF Range, Original, n
<1>7. {stmts[i] : i \in kept} = {<<"stmt", k>> : k \in 1..n}
  BY <1>4, <1>5
<1>8. \A i, j \in kept : i < j => stmts[i][2] < stmts[j][2]
  <2> SUFFICES ASSUME NEW i \in kept, NEW j \in kept, i < j
               PROVE  stmts[i][2] < stmts[j][2]
    OBVIOUS
  <2>1. stmts[i][2] = i - p /\ stmts[j][2] = j - p /\ i \in Int /\ j \in Int
    BY <1>4
  <2> QED
    BY <2>1
<1> QED
  BY <1>6, <1>7, <1>8 DEF Complete, stmts, kept

LEMMA Concatenation ==
  ASSUME NEW V, NEW s \in Seq(V), NEW t \in Seq(V)
  PROVE  /\ s \o t \in Seq(V) /\ Len(s \o t) = Len(s) + Len(t)
         /\ DOMAIN (s \o t) = 1..(Len(s) + Len(t))
         /\ \A i \in 1..Len(s) : (s \o t)[i] = s[i]
         /\ \A i \in (Len(s) + 1)..(Len(s) + Len(t)) :
              (s \o t)[i] = t[i - Len(s)] /\ i - Len(s) \in 1..Len(t)
OBVIOUS

LEMMA ListWithSetup ==
  ASSUME NEW body \in BodyType
  PROVE  LET list == Setup \o Original(body)
         IN  /\ list \in Seq(Stmt) /\ Len(list) = 4 + body.len /\ DOMAIN list = 1..(4 + body.len)
             /\ \A i \in 1..4 : list[i] \in Stmt /\ list[i][1] # "stmt"
             /\ \A i \in 5..(4 + body.len) : list[i] = <<"stmt", i - 4>>
<1> DEFINE n == body.len
           orig == Original(body)
           list == Setup \o orig
<1>1. n \in Nat
  BY DEF BodyType
<1>2. orig \in Seq(Stmt) /\ Len(orig) = n /\ \A i \in 1..n : orig[i] = <<"stmt", i>>
  <2>1. orig = [i \in 1..n |-> <<"stmt", i>>]
    BY DEF Original
  <2>2. \A i \in 1..n : <<"stmt", i>> \in Stmt
    BY <1>1 DEF Stmt, Tags
  <2> HIDE DEF orig, n
  <2> QED
    BY <1>1, <2>1, <2>2
<1>3. /\ Setup \in Seq(Stmt) /\ Len(Setup) = 4
      /\ \A i \in 1..4 : Setup[i] \in Stmt /\ Setup[i][1] # "stmt"
  <2>1. Setup = <<Setup[1], Setup[2], Setup[3], Setup[4]>>
    BY DEF Setup
  <2>2. /\ Setup[1] = <<"NewArena", 0>> /\ Setup[2] = <<"EnterScope", 0>>
        /\ Setup[3] = <<"defer Close", 0>> /\ Setup[4] = <<"defer Exit", 0>>
    BY DEF Setup
  <2>3. \A a \in Tags \ {"stmt"} : <<a, 0>> \in Stmt /\ <<a, 0>>[1] # "stmt"
    BY DEF Stmt
  <2>4. /\ Setup[1] \in Stmt /\ Setup[1][1] # "stmt"
        /\ Setup[2] \in Stmt /\ Setup[2][1] # "stmt"
        /\ Setup[3] \in Stmt /\ Setup[3][1] # "stmt"
        /\ Setup[4] \in Stmt /\ Setup[4][1] # "stmt"
    BY <2>2, <2>3 DEF Tags
  <2>5. \A i \in 1..4 : i = 1 \/ i = 2 \/ i = 3 \/ i = 4
    OBVIOUS
  <2>6. Setup \in Seq(Stmt) /\ Len(Setup) = 4
    <3>1. \A a, b, c, d \in Stmt : <<a, b, c, d>> \in Seq(Stmt) /\ Len(<<a, b, c, d>>) = 4
      OBVIOUS
    <3>2. LET s == <<Setup[1], Setup[2], Setup[3], Setup[4]>> IN s \in Seq(Stmt) /\ Len(s) = 4
      BY <2>4, <3>1
    <3> QED
      BY <2>1, <3>2, Zenon
  <2> QED
    BY <2>4, <2>5, <2>6
<1> HIDE DEF n, orig
<1>4. /\ list \in Seq(Stmt) /\ Len(list) = Len(Setup) + Len(orig)
      /\ DOMAIN list = 1..(Len(Setup) + Len(orig))
      /\ \A i \in 1..Len(Setup) : list[i] = Setup[i]
      /\ \A i \in (Len(Setup) + 1)..(Len(Setup) + Len(orig)) :
           list[i] = orig[i - Len(Setup)] /\ i - Len(Setup) \in 1..Len(orig)
  BY <1>2, <1>3, Concatenation
<1> HIDE DEF list
<1>5. list \in Seq(Stmt) /\ Len(list) = 4 + n /\ DOMAIN list = 1..(4 + n)
  BY <1>1, <1>2, <1>3, <1>4
<1>6. \A i \in 1..4 : list[i] = Setup[i]
  BY <1>1, <1>2, <1>3, <1>4
<1>7. \A i \in (4 + 1)..(4 + n) : list[i] = orig[i - 4] /\ i - 4 \in 1..n
  BY <1>1, <1>2, <1>3, <1>4
<1> QED
  BY <1>2, <1>3, <1>5, <1>6, <1>7 DEF n, orig, list

LEMMA BulkStmtsAre ==
  ASSUME NEW bulk, Len(bulk) \in Nat
  PROVE  /\ BulkStmts(bulk) \in Seq(Stmt) /\ Len(BulkStmts(bulk)) = 6 * Len(bulk) + 1
         /\ BulkStmts(bulk)[1] = <<"define", 1>>
         /\ \A i \in 1..(6 * Len(bulk) + 1) : BulkStmts(bulk)[i][1] # "stmt"
<1> DEFINE m == 6 * Len(bulk) + 1
           stmt(i) == <<IF i % 2 = 1 THEN "define" ELSE "use", (i + 1) \div 2>>
<1>1. m \in Nat /\ 1 \in 1..m
  OBVIOUS
<1>2. BulkStmts(bulk) = [i \in 1..m |-> stmt(i)]
  BY DEF BulkStmts
<1> HIDE DEF m
<1>3. \A i \in 1..m : stmt(i) \in Stmt /\ stmt(i)[1] # "stmt"
  <2>1. \A i \in 1..m : (i + 1) \div 2 \in Int
    BY <1>1
  <2> QED
    BY <2>1 DEF Stmt, Tags
<1>4. stmt(1) = <<"define", 1>>
  OBVIOUS
<1> HIDE DEF stmt
<1>5. BulkStmts(bulk) \in Seq(Stmt) /\ Len(BulkStmts(bulk)) = m
  BY <1>1, <1>2, <1>3
<1> QED
  BY <1>1, <1>2, <1>3, <1>4, <1>5 DEF m

(***************************************************************************)
(* What InsertBulk makes of a list: with the statements of the program, or *)
(* the first of them overwritten by a definition that comes before, too.   *)
(***************************************************************************)
Inserted(out, list, n, x, m) ==
  /\ DOMAIN out = 1..(4 + m + n)
  /\ \A i \in 1..4 : out[i] = list[i]
  /\ \A i \in 5..(4 + m) : out[i] = x[i - 4] /\ i - 4 \in 1..m
  /\ \/ \A i \in (4 + m + 1)..(4 + m + n) : out[i] = list[i - m]
     \/ n >= 1 => out[4 + m + 1] = x[1]

LEMMA InsertedBulk ==
  ASSUME NEW n \in Nat, NEW list \in Seq(Stmt), Len(list) = 4 + n,
         NEW x \in Seq(Stmt), NEW m \in Nat, Len(x) = m, m >= 1, NEW cap
  PROVE  Inserted(InsertBulk(list, cap, x), list, n, x, m)
<1> DEFINE inPlace == 4 + m <= cap
           after == [i \in 1..(4 + n) |-> IF inPlace /\ i - 4 \in 1..m THEN x[i - 4] ELSE list[i]]
           front == SubSeq(list, 1, 4) \o x
           back == SubSeq(after, 5, 4 + n)
           out == front \o back
<1>1. \A i \in 1..(4 + n) : after[i] \in Stmt
  <2>1. \A i \in 1..(4 + n) : list[i] \in Stmt
    OBVIOUS
  <2>2. \A i \in 1..m : x[i] \in Stmt
    OBVIOUS
  <2> QED
    BY <2>1, <2>2
<1>2. after \in Seq(Stmt) /\ Len(after) = 4 + n
  BY <1>1
<1>3. Len(Setup) = 4
  BY DEF Setup
<1>4. InsertBulk(list, cap, x) = out
  BY <1>3 DEF InsertBulk
<1>5. ~inPlace => \A i \in 5..(4 + n) : after[i] = list[i]
  OBVIOUS
<1>6. inPlace /\ n >= 1 => after[5] = x[1]
  OBVIOUS
<1> HIDE DEF inPlace, after
<1>7. /\ SubSeq(list, 1, 4) \in Seq(Stmt) /\ Len(SubSeq(list, 1, 4)) = 4
      /\ \A i \in 1..4 : SubSeq(list, 1, 4)[i] = list[i]
  OBVIOUS
<1>8. /\ front \in Seq(Stmt) /\ Len(front) = 4 + m
      /\ \A i \in 1..4 : front[i] = list[i]
      /\ \A i \in 5..(4 + m) : front[i] = x[i - 4] /\ i - 4 \in 1..m
  BY <1>7, Concatenation
<1>9. back \in Seq(Stmt) /\ Len(back) = n /\ \A i \in 1..n : back[i] = after[i + 4]
  BY <1>2
<1> HIDE DEF front, back
<1>10. /\ DOMAIN out = 1..(4 + m + n)
       /\ \A i \in 1..(4 + m) : out[i] = front[i]
       /\ \A i \in (4 + m + 1)..(4 + m + n) : out[i] = back[i - (4 + m)] /\ i - (4 + m) \in 1..n
  <2>1. /\ DOMAIN out = 1..(Len(front) + Len(back))
        /\ \A i \in 1..Len(front) : out[i] = front[i]
        /\ \A i \in (Len(front) + 1)..(Len(front) + Len(back)) :
             out[i] = back[i - Len(front)] /\ i - Len(front) \in 1..Len(back)
    <3>1. front \in Seq(Stmt) /\ back \in Seq(Stmt)
      BY <1>8, <1>9
    <3> QED
      BY <3>1, Concatenation
  <2> HIDE DEF out
  <2> QED
    BY <1>8, <1>9, <2>1
<1> HIDE DEF out
<1>11. \A i \in (4 + m + 1)..(4 + m + n) : out[i] = after[i - m] /\ i - m \in 5..(4 + n)
  <2> TAKE i \in (4 + m + 1)..(4 + m + n)
  <2>1. i - (4 + m) \in 1..n /\ (i - (4 + m)) + 4 = i - m /\ i - m \in 5..(4 + n)
    OBVIOUS
  <2> QED
    BY <1>9, <1>10, <2>1
<1>12. \A i \in 1..4 : out[i] = list[i] 
  BY <1>8, <1>10
<1>13. \A i \in 5..(4 + m) : out[i] = x[i - 4] /\ i - 4 \in 1..m
  BY <1>8, <1>10
<1>14. CASE inPlace
  <2>1. n >= 1 => 4 + m + 1 \in (4 + m + 1)..(4 + m + n) /\ (4 + m + 1) - m = 5
    OBVIOUS
  <2>2. n >= 1 => out[4 + m + 1] = x[1]
    BY <1>6, <1>11, <1>14, <2>1
  <2> QED
    BY <1>4, <1>10, <1>12, <1>13, <2>2 DEF Inserted
<1>15. CASE ~inPlace
  <2>1. \A i \in (4 + m + 1)..(4 + m + n) : out[i] = list[i - m]
    BY <1>5, <1>11, <1>15
  <2> QED
    BY <1>4, <1>10, <1>12, <1>13, <2>1 DEF Inserted
<1> QED
  BY <1>14, <1>15

(***************************************************************************)
(* A body that has lost a statement defines a name twice.                  *)
(***************************************************************************)
LEMMA RewriteSafe ==
  ASSUME NEW file, NEW body \in BodyType, ~Redefines(RewriteBody(file, body))
  PROVE  Complete(file, body)
<1> DEFINE n == body.len
           list == Setup \o Original(body)
           bulk == BulkSites(file, body)
           x == BulkStmts(bulk)
           m == Len(x)
           cap == GrowCap(Len(list))
           out == InsertBulk(list, cap, x)
<1>1. n \in Nat
  BY DEF BodyType
<1>2. CASE RewriteBody(file, body) = Original(body)
  <2>1. Shaped(Original(body), 0, n)
    BY <1>1 DEF Shaped, Original
  <2> QED
    BY <1>2, <2>1, ShapedIsComplete
<1>3. /\ list \in Seq(Stmt) /\ Len(list) = 4 + n /\ DOMAIN list = 1..(4 + n)
      /\ \A i \in 1..4 : list[i][1] # "stmt"
      /\ \A i \in 5..(4 + n) : list[i] = <<"stmt", i - 4>>
  BY ListWithSetup
<1> HIDE DEF list
<1>4. CASE RewriteBody(file, body) = list
  <2>1. Shaped(list, 4, n)
    BY <1>1, <1>3 DEF Shaped
  <2> QED
    BY <1>4, <2>1, ShapedIsComplete
<1>5. CASE RewriteBody(file, body) = out
  <2>1. Len(bulk) \in Nat
    BY BulkSitesType
  <2>2. x \in Seq(Stmt) /\ m \in Nat /\ m >= 1 /\ x[1] = <<"define", 1>> /\ \A i \in 1..m : x[i][1] # "stmt"
    <3>1. /\ x \in Seq(Stmt) /\ m = 6 * Len(bulk) + 1 /\ x[1] = <<"define", 1>>
          /\ \A i \in 1..(6 * Len(bulk) + 1) : x[i][1] # "stmt"
      BY <2>1, BulkStmtsAre
    <3> HIDE DEF x, m, bulk
    <3>2. m \in Nat /\ m >= 1
      BY <2>1, <3>1
    <3> QED
      BY <3>1, <3>2
  <2> HIDE DEF x, bulk, cap, n
  <2>3. /\ DOMAIN out = 1..(4 + m + n)
        /\ \A i \in 1..4 : out[i] = list[i]
        /\ \A i \in 5..(4 + m) : out[i] = x[i - 4] /\ i - 4 \in 1..m
        /\ \/ \A i \in (4 + m + 1)..(4 + m + n) : out[i] = list[i - m]
           \/ n >= 1 => out[4 + m + 1] = x[1]
    <3>1. Inserted(out, list, n, x, m)
      BY <1>1, <1>3, <2>2, InsertedBulk DEF m
    <3> QED
      BY <3>1 DEF Inserted
  <2> HIDE DEF out, m
  <2>4. \A i \in (4 + m + 1)..(4 + m + n) : out[i] = list[i - m]
    <3>1. CASE n >= 1 /\ out[4 + m + 1] = x[1]
      <4>1. 5 \in DOMAIN out /\ 4 + m + 1 \in DOMAIN out /\ 5 < 4 + m + 1 /\ 5 \in 5..(4 + m)
        BY <1>1, <2>2, <2>3, <3>1
      <4>2. out[5] = x[1] /\ out[5] = out[4 + m + 1] /\ out[5][1] = "define"
        BY <2>2, <2>3, <3>1, <4>1
      <4>3. Redefines(out)
        BY <4>1, <4>2 DEF Redefines
      <4> QED
        BY <1>5, <4>3
    <3>2. CASE ~(n >= 1)
      <4>1. (4 + m + 1)..(4 + m + n) = {}
        BY <1>1, <2>2, <3>2
      <4> QED
        BY <4>1
    <3> QED
      BY <2>3, <3>1, <3>2
  <2>5. Shaped(out, 4 + m, n)
    <3>1. DOMAIN out = 1..((4 + m) + n)
      BY <2>3
    <3>2. ASSUME NEW i \in 1..(4 + m)
          PROVE  out[i][1] # "stmt"
      <4>1. i \in 1..4 \/ i \in 5..(4 + m)
        BY <2>2
      <4> QED
        BY <1>3, <2>2, <2>3, <4>1
    <3>3. ASSUME NEW i \in ((4 + m) + 1)..((4 + m) + n)
          PROVE  out[i] = <<"stmt", i - (4 + m)>>
      <4>1. i \in (4 + m + 1)..(4 + m + n) /\ i - m \in 5..(4 + n) /\ (i - m) - 4 = i - (4 + m)
        BY <1>1, <2>2
      <4>2. out[i] = list[i - m] /\ list[i - m] = <<"stmt", (i - m) - 4>>
        BY <1>3, <2>4, <4>1 DEF n
      <4> QED
        BY <4>1, <4>2
    <3> QED
      BY <3>1, <3>2, <3>3 DEF Shaped
  <2>6. 4 + m \in Nat
    BY <2>2
  <2> QED
    BY <1>5, <2>5, <2>6, ShapedIsComplete DEF n
<1>6. \/ RewriteBody(file, body) = Original(body)
      \/ RewriteBody(file, body) = list
      \/ RewriteBody(file, body) = out
  BY DEF RewriteBody, list
<1> QED
  BY <1>2, <1>4, <1>5, <1>6

----------------------------------------------------------------------------
(* Results about ToolExec *)

LEMMA InitInv == Init => ToolInv
<1> SUFFICES ASSUME Init
             PROVE  ToolInv
  OBVIOUS
<1>1. TypeInv
  BY DEF Init, TypeInv, Files, Labels
<1>2. At(Running) = {} /\ At({"none"}) = Files /\ At({"none", "analyse"}) = Files /\ At({"written"}) = {}
  BY DEF Init, At, Running, Files
<1>3. Cardinality({}) = 0
  BY FS_EmptySet
<1>4. StageInv
  BY <1>2, <1>3 DEF Init, StageInv
<1> QED
  BY <1>1, <1>2, <1>4 DEF Init, ToolInv, ResultsInv, TreesInv, RunsInv

LEMMA ToolInvariant == Spec => []ToolInv
<1>1. ToolInv /\ [Next]_xvars => ToolInv'
  BY TypeStep, StageStep, ResultsStep, TreesStep, RunsStep DEF ToolInv
<1> QED
  BY <1>1, InitInv, PTL DEF Spec

(***************************************************************************)
(* The build is never the worse for the rewriter: what ToolExec returns is *)
(* the outcome of its last call of the tool, an error only if that was on  *)
(* the original files; rewritten files are compiled only if all of them    *)
(* are complete and no goroutine failed; and it makes no second call but   *)
(* after a failure.  For any packages, with any number of files, in every  *)
(* order in which the goroutines run.                                      *)
(***************************************************************************)
THEOREM BuildIsNeverWorse == Spec => []FallsBack
<1>1. ToolInv => FallsBack
  <2> SUFFICES ASSUME ToolInv
               PROVE  FallsBack
    OBVIOUS
  <2>1. /\ Len(runs) \in Nat /\ DOMAIN runs = 1..Len(runs)
        /\ Len(runs) = 0 <=> runs = <<>>
    BY DEF ToolInv, TypeInv
  <2>2. Len(runs) \in 0..2 /\ (Len(runs) = 2 => runs[1].outcome = "err" /\ runs[2].args = {})
    BY <2>1 DEF ToolInv, RunsInv, TypeInv
  <2>3. pc = "done" => runs # <<>> /\ ret = Last(runs).outcome /\ (ret = "err" => Last(runs).args = {})
    BY <2>1 DEF ToolInv, RunsInv, Last
  <2>4. \A i \in DOMAIN runs : i < Len(runs) => runs[i].outcome = "err" /\ runs[i + 1].args = {}
    <3>1. \A i \in DOMAIN runs : i < Len(runs) => i = 1 /\ Len(runs) = 2
      BY <2>1, <2>2
    <3> QED
      BY <2>2, <3>1
  <2>5. \A i \in DOMAIN runs : runs[i].args # {} =>
          runs[i].args \subseteq temp /\ \A f \in Files : worker[f] = "ended" /\ f \notin failed
    BY DEF ToolInv, RunsInv, SoundCall, At
  <2>6. pc = "crashed" => runs = <<>> /\ trees # {} /\ Len(pkg) > 1
    BY DEF ToolInv, RunsInv, TreesInv
  <2> QED
    BY <2>3, <2>4, <2>5, <2>6 DEF FallsBack
<1> QED
  BY <1>1, ToolInvariant, PTL

(***************************************************************************)
(* No goroutine waits for room in the channel, which nobody empties before *)
(* all goroutines are done: its capacity is the number of files, and each  *)
(* of them sends once.  So wg.Wait does not wait for a goroutine that      *)
(* waits for ToolExec.                                                     *)
(***************************************************************************)
THEOREM NobodyWaitsToSend == Spec => []RoomToSend
<1>1. ToolInv => RoomToSend
  <2> SUFFICES ASSUME ToolInv, NEW f \in Files, worker[f] \in {"same", "written", "failed"}
               PROVE  Len(resChan) < ChanCap
    BY DEF RoomToSend
  <2>1. pc \in {"wait", "crashed"}
    <3>1. f \notin At({"none"}) /\ f \notin At({"ended"}) /\ f \notin At({"none", "ended"})
      BY DEF At
    <3> QED
      BY <3>1 DEF ToolInv, TypeInv, StageInv
  <2>2. Len(resChan) = Cardinality(At(Answered))
    BY <2>1 DEF ToolInv, StageInv
  <2>3. IsFiniteSet(Files) /\ Cardinality(Files) = Len(pkg)
    BY FilesOfPkg DEF ToolInv, TypeInv
  <2>4. At(Answered) \subseteq Files /\ f \notin At(Answered)
    BY DEF At, Answered
  <2>5. Cardinality(At(Answered)) < Cardinality(Files)
    BY <2>3, <2>4, FS_Subset, FS_CardinalityType
  <2> QED
    BY <2>2, <2>3, <2>5 DEF ChanCap
<1> QED
  BY <1>1, ToolInvariant, PTL

(***************************************************************************)
(* If rewritten files are what the compiler accepted, they still have all  *)
(* statements of the program, in order.  InsertBulk does lose some, for    *)
(* bodies of any length and any number of sites, but only where it also    *)
(* repeats a definition, which the compiler rejects.                       *)
(***************************************************************************)
THEOREM AcceptedFilesAreComplete == Spec => []CompiledFilesComplete
<1>1. ToolInv => CompiledFilesComplete
  <2> SUFFICES ASSUME ToolInv, pc = "done", ret = "ok",
                      NEW f \in Last(runs).args, NEW b \in DOMAIN pkg[f].bodies
               PROVE  Complete(pkg[f], pkg[f].bodies[b])
    BY DEF CompiledFilesComplete
  <2>1. /\ Last(runs) = runs[Len(runs)] /\ Len(runs) \in DOMAIN runs
        /\ runs[Len(runs)].outcome = "ok"
    BY DEF ToolInv, TypeInv, RunsInv, Last
  <2>2. Last(runs).args \subseteq Files
    <3>1. runs[Len(runs)] \in Calls
      BY <2>1 DEF ToolInv, TypeInv
    <3> QED
      BY <2>1, <3>1 DEF Calls
  <2>3. Compiles(Last(runs).args)
    BY <2>1 DEF ToolInv, RunsInv, SoundCall
  <2>4. ~Redefines(RewriteBody(pkg[f], pkg[f].bodies[b]))
    BY <2>3 DEF Compiles
  <2>5. pkg[f].bodies[b] \in BodyType
    BY <2>2, PackagesAssumption DEF ToolInv, TypeInv, Files
  <2> QED
    BY <2>4, <2>5, RewriteSafe
<1> QED
  BY <1>1, ToolInvariant, PTL

(***************************************************************************)
(* The objects that share a bulk allocation are aligned, inside of it and  *)
(* apart from each other, as long as they are no larger than what          *)
(* rewriteBulk reserved for them: for any number of sites, with any sizes  *)
(* and alignments.                                                         *)
(***************************************************************************)
THEOREM BulkLayoutIsSound == Spec => []BulkObjectsDisjoint
<1>1. ToolInv => BulkObjectsDisjoint
  <2> SUFFICES ASSUME ToolInv, NEW f \in Files, NEW b \in DOMAIN pkg[f].bodies
               PROVE  LayoutSound(BulkSites(pkg[f], pkg[f].bodies[b]))
    BY DEF BulkObjectsDisjoint
  <2>1. pkg[f].bodies[b] \in BodyType
    BY PackagesAssumption DEF ToolInv, TypeInv, Files
  <2> QED
    BY <2>1, BulkSitesType, LayoutIsSound
<1> QED
  BY <1>1, ToolInvariant, PTL
=============================================================================
