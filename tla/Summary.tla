------------------------------ MODULE Summary ------------------------------
(***************************************************************************)
(* internal/analysis/summary: which parameters of which functions escape,  *)
(* are returned or are stored, by iteration to a fixpoint.                 *)
(*                                                                         *)
(* A function has parameters 1..params and a body, a sequence of           *)
(* instructions of go/ssa. Instruction k of the body defines the value     *)
(* params + k. Value 0 is the address of a global variable. A Store has    *)
(* the value and the address as arguments. The analysis sees the body, or  *)
(* only a declaration (a function of another package, from export data),   *)
(* or nothing (a method, which is no member of its package).               *)
(***************************************************************************)
EXTENDS Integers, Sequences, SequencesExt, FiniteSetsExt

CONSTANT Library     \* the functions of the program: name -> function

\* The functions AnalyzeSummaries collects.
allFunctions == {fn \in DOMAIN Library : Library[fn].sees # "nothing"}
Params(fn) == 1..Library[fn].params
HasBody(fn) == Library[fn].sees = "body"

Flags == {"escapes", "returned", "stored"}

VARIABLES
  order,       \* the functions still to be visited in this round
  allFuncs,    \* all functions, in the order of a Go map
  changed,     \* whether this round has changed a summary
  summaries,   \* the flags of each parameter
  fixed        \* whether the iteration has ended

sumvars == <<order, allFuncs, changed, summaries, fixed>>

\* Mutant: a value passed on to another function is taken to stay there.
CallFlags_Local(call, v, sums) ==
  IF call.callee \notin DOMAIN sums THEN {"escapes"} ELSE {}

(***************************************************************************)
(* What a call does with value v, as far as the summaries say. A callee    *)
(* without body has a summary too: an empty one.                           *)
(***************************************************************************)
CallFlags(call, v, sums) ==
  IF call.callee \notin DOMAIN sums THEN {"escapes"}
  ELSE UNION {sums[call.callee][i] \cap {"escapes", "stored"} :
                i \in {j \in DOMAIN call.args : call.args[j] = v /\ j \in DOMAIN sums[call.callee]}}

(***************************************************************************)
(* analyzeValueFlow: the union over all instructions that use the value.   *)
(* Addresses derived from it are followed; slices, phis, conversions,      *)
(* loads, deferred calls and map updates are not.                          *)
(***************************************************************************)
RECURSIVE analyzeValueFlow(_, _, _)
analyzeValueFlow(fn, v, sums) ==
  LET body == Library[fn].body
      Use(k) ==
        LET i == body[k]
        IN  CASE i.op = "Return" -> {"returned", "escapes"}
              [] i.op = "Store" -> IF i.args[1] = v THEN {"stored", "escapes"} ELSE {}
              [] i.op \in {"Send", "Go"} -> {"escapes"}
              [] i.op = "Call" -> CallFlags(i, v, sums)
              [] i.op = "FieldAddr" -> analyzeValueFlow(fn, Library[fn].params + k, sums)
              [] OTHER -> {}
  IN  UNION {Use(k) : k \in {j \in DOMAIN body : v \in ToSet(body[j].args)}}

SummaryInit ==
  /\ allFuncs \in SetToSeqs(allFunctions)
  /\ order = allFuncs
  /\ changed = FALSE
  /\ summaries = [fn \in allFunctions |-> [p \in Params(fn) |-> {}]]
  /\ fixed = FALSE

\* The parameters of one function, each with the summaries as they are then.
Analyzed(fn) ==
  IF ~HasBody(fn) THEN summaries
  ELSE FoldLeft(LAMBDA s, p : [s EXCEPT ![fn][p] = @ \cup analyzeValueFlow(fn, p, s)],
                summaries, [p \in Params(fn) |-> p])

\* Mutant: changed is set for every flag that is found, new or not.
Visit_AlwaysChanged ==
  /\ order # <<>> /\ ~fixed
  /\ summaries' = Analyzed(Head(order))
  /\ changed' = (changed \/ \E p \in Params(Head(order)) : summaries'[Head(order)][p] # {})
  /\ order' = Tail(order)
  /\ UNCHANGED <<allFuncs, fixed>>

\* One turn of the inner loop.
Visit ==
  /\ order # <<>> /\ ~fixed
  /\ summaries' = Analyzed(Head(order))
  /\ changed' = (changed \/ summaries' # summaries)
  /\ order' = Tail(order)
  /\ UNCHANGED <<allFuncs, fixed>>

\* The end of a round.
EndRound ==
  /\ order = <<>> /\ ~fixed
  /\ IF changed THEN order' = allFuncs /\ changed' = FALSE /\ UNCHANGED <<allFuncs, fixed>>
     ELSE fixed' = TRUE /\ allFuncs' = <<>> /\ UNCHANGED <<order, changed>>
  /\ UNCHANGED summaries
=============================================================================
