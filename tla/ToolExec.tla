------------------------------ MODULE ToolExec ------------------------------
(***************************************************************************)
(* ToolExec of compilerplugin/toolexec.go, which the go command runs in    *)
(* place of the compiler: it rewrites the files of the package, each in a  *)
(* goroutine, runs the compiler on the result, and runs it on the original *)
(* files if any of that fails.                                             *)
(*                                                                         *)
(* The goroutines share the syntax trees.  Each builds SSA from those of   *)
(* the whole package and then changes its own, without synchronisation; a  *)
(* goroutine that meets a tree with new nodes panics, for they have no     *)
(* types.  The recover of ToolExec is on another goroutine, so the process *)
(* dies.                                                                   *)
(***************************************************************************)
EXTENDS Rewriter

CONSTANT Packages     \* the packages to compile: sequences of files

ASSUME PackagesAssumption ==
  \A p \in Packages :
    /\ Len(p) \in Nat /\ DOMAIN p = 1..Len(p)
    /\ \A f \in DOMAIN p :
         /\ {p[f].generated, p[f].listed} \subseteq BOOLEAN
         /\ \A b \in DOMAIN p[f].bodies : p[f].bodies[b] \in BodyType

VARIABLES
  pkg,       \* the files, pkg.Syntax
  pc,        \* where ToolExec is
  worker,    \* where the goroutine of each file is
  seen,      \* the trees each goroutine has read
  trees,     \* the files whose trees have been changed
  waiting,   \* the counter of wg
  resChan,   \* the channel of results
  newArgs,   \* the files whose argument names a rewritten file
  temp,      \* the files of tempDir that are complete
  runs,      \* history: the calls of executeTool, with their outcome
  failed,    \* history: the files that could not be written
  ret        \* what ToolExec returns

xvars == <<pkg, pc, worker, seen, trees, waiting, resChan, newArgs, temp, runs, failed, ret>>

Files == DOMAIN pkg
Outcomes == {"ok", "err"}

Init ==
  /\ pkg \in Packages
  /\ pc = "start"
  /\ worker = [f \in Files |-> "none"]
  /\ seen = [f \in Files |-> {}]
  /\ trees = {} /\ newArgs = {} /\ temp = {} /\ failed = {}
  /\ waiting = 0
  /\ resChan = <<>>
  /\ runs = <<>>
  /\ ret = "none"

----------------------------------------------------------------------------
(* The goroutine of ToolExec *)

(***************************************************************************)
(* The compiler rejects a file that defines a name twice.  It may fail for *)
(* other reasons, with any arguments.                                      *)
(***************************************************************************)
Compiles(args) ==
  \A f \in args : \A b \in DOMAIN pkg[f].bodies :
    ~Redefines(RewriteBody(pkg[f], pkg[f].bodies[b]))

Execute(args, outcome) ==
  /\ outcome = "ok" => Compiles(args)
  /\ runs' = Append(runs, [args |-> args, outcome |-> outcome])

(***************************************************************************)
(* Another tool than compile: its outcome is returned as it is.            *)
(***************************************************************************)
PassThrough(outcome) ==
  /\ pc = "start"
  /\ Execute({}, outcome)
  /\ ret' = outcome
  /\ pc' = "done"
  /\ UNCHANGED <<pkg, worker, seen, trees, waiting, resChan, newArgs, temp, failed>>

(***************************************************************************)
(* runRewriteAndCompile returns what executeTool returned, and ToolExec    *)
(* runs the tool again, on the original files, if that is an error.        *)
(***************************************************************************)
RunTool(args, outcome) ==
  /\ Execute(args, outcome)
  /\ IF outcome = "ok" THEN pc' = "done" /\ ret' = "ok" ELSE pc' = "fallback" /\ UNCHANGED ret
  /\ UNCHANGED <<pkg, worker, seen, trees, waiting, resChan, newArgs, temp, failed>>

(***************************************************************************)
(* No .go file among the arguments, or a package of the standard library.  *)
(***************************************************************************)
NotForUs(outcome) == pc = "start" /\ RunTool({}, outcome)

(***************************************************************************)
(* MkdirTemp or packages.Load fails, or the explain pass panics, which     *)
(* happens on this goroutine and is recovered.                             *)
(***************************************************************************)
PrepareFails ==
  /\ pc = "start"
  /\ pc' = "fallback"
  /\ UNCHANGED <<pkg, worker, seen, trees, waiting, resChan, newArgs, temp, runs, failed, ret>>

(***************************************************************************)
(* The loop that starts a goroutine for each file.                         *)
(***************************************************************************)
Spawn ==
  /\ pc = "start"
  /\ pc' = "wait"
  /\ worker' = [f \in Files |-> "analyse"]
  /\ waiting' = Len(pkg)
  /\ UNCHANGED <<pkg, seen, trees, resChan, newArgs, temp, runs, failed, ret>>

Wait ==
  /\ pc = "wait" /\ waiting = 0
  /\ pc' = "collect"
  /\ UNCHANGED <<pkg, worker, seen, trees, waiting, resChan, newArgs, temp, runs, failed, ret>>

Collect_SkipsErrors ==
  /\ pc = "collect" /\ resChan # <<>>
  /\ LET res == Head(resChan)
     IN  /\ pc' = pc
         /\ newArgs' = IF res.changed /\ pkg[res.file].listed
                         THEN newArgs \cup {res.file} ELSE newArgs
  /\ resChan' = Tail(resChan)
  /\ UNCHANGED <<pkg, worker, seen, trees, waiting, temp, runs, failed, ret>>

(***************************************************************************)
(* One result: an error ends the loop, a changed file takes the place of   *)
(* the original among the arguments, if it is listed there under the path  *)
(* that packages.Load reports.                                             *)
(***************************************************************************)
Collect ==
  /\ pc = "collect" /\ resChan # <<>>
  /\ LET res == Head(resChan)
     IN  /\ pc' = IF res.err THEN "fallback" ELSE pc
         /\ newArgs' = IF res.changed /\ pkg[res.file].listed
                         THEN newArgs \cup {res.file} ELSE newArgs
  /\ resChan' = Tail(resChan)
  /\ UNCHANGED <<pkg, worker, seen, trees, waiting, temp, runs, failed, ret>>

Compile(outcome) == pc = "collect" /\ resChan = <<>> /\ RunTool(newArgs, outcome)

Fallback(outcome) ==
  /\ pc = "fallback"
  /\ Execute({}, outcome)
  /\ ret' = outcome
  /\ pc' = "done"
  /\ UNCHANGED <<pkg, worker, seen, trees, waiting, resChan, newArgs, temp, failed>>

----------------------------------------------------------------------------
(* The goroutine of file f *)

Alive == pc # "crashed"

MainVars == <<pkg, pc, newArgs, runs, ret>>

Goto(f, label) == Alive /\ worker' = [worker EXCEPT ![f] = label]

(***************************************************************************)
(* isGenerated: nothing to do.                                             *)
(***************************************************************************)
SkipGenerated(f) ==
  /\ worker[f] = "analyse" /\ pkg[f].generated
  /\ Goto(f, "same")
  /\ UNCHANGED <<MainVars, seen, trees, waiting, resChan, temp, failed>>

(***************************************************************************)
(* filterEligibleSites reads the tree of file h.                           *)
(***************************************************************************)
ReadTree(f, h) ==
  /\ worker[f] = "analyse" /\ ~pkg[f].generated
  /\ h \notin seen[f]
  /\ Alive
  /\ seen' = [seen EXCEPT ![f] = @ \cup {h}]
  /\ UNCHANGED <<MainVars, worker, trees, waiting, resChan, temp, failed>>

(***************************************************************************)
(* It panics if that tree has been changed.  (As nothing orders the two it *)
(* may also have read the old one.)                                        *)
(***************************************************************************)
Crash(f, h) ==
  /\ worker[f] = "analyse" /\ ~pkg[f].generated
  /\ h \notin seen[f] /\ h \in trees
  /\ Alive
  /\ pc' = "crashed"
  /\ UNCHANGED <<pkg, worker, seen, trees, waiting, resChan, newArgs, temp, runs, failed, ret>>

(***************************************************************************)
(* The analysis is done.  An error of the pipeline means no eligible site. *)
(***************************************************************************)
Unchanged(f) ==
  /\ worker[f] = "analyse" /\ seen[f] = Files
  /\ Goto(f, "same")
  /\ UNCHANGED <<MainVars, seen, trees, waiting, resChan, temp, failed>>

Rewrite(f) ==
  /\ worker[f] = "analyse" /\ seen[f] = Files
  /\ Changed(pkg[f])
  /\ trees' = trees \cup {f}
  /\ Goto(f, "write")
  /\ UNCHANGED <<MainVars, seen, waiting, resChan, temp, failed>>

\* format.Node or os.WriteFile, into tempDir under the base name of the file
WriteTemp(f) ==
  /\ worker[f] = "write"
  /\ Goto(f, "written")
  /\ temp' = temp \cup {f}
  /\ UNCHANGED <<MainVars, seen, trees, waiting, resChan, failed>>

WriteFails(f) ==
  /\ worker[f] = "write"
  /\ Goto(f, "failed")
  /\ failed' = failed \cup {f}
  /\ UNCHANGED <<MainVars, seen, trees, waiting, resChan, temp>>

ChanCap_One == 1

ChanCap == Len(pkg)

(***************************************************************************)
(* The result is sent; nobody receives before all goroutines are done.     *)
(***************************************************************************)
Send(f) ==
  /\ worker[f] \in {"same", "written", "failed"}
  /\ Len(resChan) < ChanCap
  /\ resChan' = Append(resChan, [file |-> f, changed |-> worker[f] = "written",
                                 err |-> worker[f] = "failed"])
  /\ Goto(f, "sent")
  /\ UNCHANGED <<MainVars, seen, trees, waiting, temp, failed>>

\* The deferred wg.Done().
Done(f) ==
  /\ worker[f] = "sent"
  /\ waiting' = waiting - 1
  /\ Goto(f, "ended")
  /\ UNCHANGED <<MainVars, seen, trees, resChan, temp, failed>>

----------------------------------------------------------------------------

Main ==
  \/ \E o \in Outcomes : PassThrough(o) \/ NotForUs(o) \/ Compile(o) \/ Fallback(o)
  \/ PrepareFails \/ Spawn \/ Wait \/ Collect

Worker(f) ==
  \/ SkipGenerated(f) \/ Unchanged(f) \/ Rewrite(f)
  \/ \E h \in Files : ReadTree(f, h) \/ Crash(f, h)
  \/ WriteTemp(f) \/ WriteFails(f) \/ Send(f) \/ Done(f)

Next == Main \/ \E f \in Files : Worker(f)

Spec == Init /\ [][Next]_xvars

(***************************************************************************)
(* Go runs every goroutine that can go on, and tools end.                  *)
(***************************************************************************)
Fairness ==
  /\ WF_xvars(Main)
  /\ \A f \in UNION {DOMAIN p : p \in Packages} : WF_xvars(f \in Files /\ Worker(f))

FairSpec == Spec /\ Fairness
----------------------------------------------------------------------------
(* Properties *)

(***************************************************************************)
(* A build is never the worse for the rewriter: ToolExec returns what the  *)
(* last compilation returned, an error only if that was of the original    *)
(* files; rewritten files are compiled only if all goroutines ended well   *)
(* and their files are complete; and nothing is compiled twice but after a *)
(* failure.  The exception is a crash, before anything is compiled, when   *)
(* one goroutine has changed a tree before another has read it.            *)
(***************************************************************************)
FallsBack ==
  /\ pc = "done" =>
       /\ runs # <<>> /\ ret = Last(runs).outcome
       /\ ret = "err" => Last(runs).args = {}
  /\ \A i \in DOMAIN runs :
       /\ i < Len(runs) => runs[i].outcome = "err" /\ runs[i + 1].args = {}
       /\ runs[i].args # {} =>
            runs[i].args \subseteq temp /\ \A f \in Files : worker[f] = "ended" /\ f \notin failed
  /\ pc = "crashed" => runs = <<>> /\ trees # {} /\ Len(pkg) > 1

(***************************************************************************)
(* If rewritten files are what the compiler accepted, they still have all  *)
(* statements of the program, in order.  The rewriter does lose statements *)
(* of a long body (see InsertBulk), but the same mistake defines names     *)
(* twice, so that the compiler rejects the file and ToolExec falls back.   *)
(***************************************************************************)
CompiledFilesComplete ==
  pc = "done" /\ ret = "ok" =>
    \A f \in Last(runs).args : \A b \in DOMAIN pkg[f].bodies :
      Complete(pkg[f], pkg[f].bodies[b])

(***************************************************************************)
(* The objects that share a bulk allocation are aligned, inside of it and  *)
(* apart from each other, provided they are no larger than what was        *)
(* reserved for them.  A make is larger if it has a capacity beyond its    *)
(* length, or if the length has grown since the body was entered.          *)
(***************************************************************************)
BulkObjectsDisjoint ==
  \A f \in Files : \A b \in DOMAIN pkg[f].bodies :
    LayoutSound(BulkSites(pkg[f], pkg[f].bodies[b]))

(***************************************************************************)
(* ToolExec ends, however its goroutines finish: the channel has room for  *)
(* all results, and no path skips wg.Done.                                 *)
(***************************************************************************)
ToolExecReturns == <>(pc \in {"done", "crashed"})
=============================================================================
