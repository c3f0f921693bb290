--------------------------- MODULE AnalysisPipeline ---------------------------
(***************************************************************************)
(* pipeline.Run: the summaries of a program's functions, then the          *)
(* lifetime of the allocations of one function f, then the decisions.      *)
(*                                                                         *)
(* What the decisions are judged by is modelled too: f starts with two     *)
(* allocations and is then written one instruction at a time, and each     *)
(* instruction takes effect on a concrete memory as it is written. The     *)
(* types have two levels: the global variable and the parameter of f       *)
(* (values 0 and 1) are pointers to cells, a cell holds pointers, and what *)
(* those point to holds none.                                              *)
(***************************************************************************)
EXTENDS Summary, Lifetime

CONSTANTS
  OtherPrograms,   \* programs that other passes of the same process analyse
  Callees,         \* the functions that f calls
  MaxCode          \* bound: instructions of f

VARIABLES
  phase,      \* "summaries", "code", "returned" or "decided"
  code,       \* the instructions of f
  obj,        \* what each value of f points to: an object, or Nothing
  mem,        \* pairs <<o, p>>: object o has held a pointer to object p
  leaked,     \* objects handed to other goroutines, to the caller or kept by a callee
  decision    \* the verdict on one allocation

vars == <<order, allFuncs, changed, summaries, fixed, phase, code, obj, mem, leaked, decision>>

NoDecision == [alloc |-> Nothing, verdict |-> "none"]

-----------------------------------------------------------------------------
(***************************************************************************)
(* Facts about the functions of a program that do not depend on the        *)
(* analysis: what flows where, as edges between the values of all          *)
(* functions. Only the instructions in Follow pass a value on, and calls   *)
(* of the functions in seen.                                               *)
(***************************************************************************)
Flows(lib, Follow, seen) ==
  UNION {UNION {LET i == lib[fn].body[k]
                IN  CASE i.op \in Follow ->
                           {<< <<fn, v>>, <<fn, lib[fn].params + k>> >> : v \in ToSet(i.args)}
                      [] i.op = "Call" /\ i.callee \in seen ->
                           {<< <<fn, i.args[j]>>, <<i.callee, j>> >> : j \in DOMAIN i.args}
                      [] OTHER -> {} :
                k \in DOMAIN lib[fn].body} : fn \in DOMAIN lib}

RECURSIVE From(_, _)
From(flows, nodes) ==
  LET more == nodes \cup {e[2] : e \in {d \in flows : d[1] \in nodes}}
  IN  IF more = nodes THEN nodes ELSE From(flows, more)

\* The values that instructions of a kind use; of a Store, the value that is stored.
Used(lib, ops) ==
  UNION {UNION {{<<fn, v>> : v \in LET i == lib[fn].body[k]
                                   IN  CASE i.op \notin ops -> {}
                                         [] i.op = "Store" -> {i.args[1]}
                                         [] OTHER -> ToSet(i.args)} :
                k \in DOMAIN lib[fn].body} : fn \in DOMAIN lib}

PassedToUnseen(lib, seen) ==
  UNION {UNION {{<<fn, v>> : v \in LET i == lib[fn].body[k]
                                   IN  IF i.op = "Call" /\ i.callee \notin seen THEN ToSet(i.args) ELSE {}} :
                k \in DOMAIN lib[fn].body} : fn \in DOMAIN lib}

(***************************************************************************)
(* The summaries a program should get: a flag is set if the value can      *)
(* flow, along addresses of fields and through calls, to an instruction    *)
(* that sets it.                                                           *)
(***************************************************************************)
ReferenceSummaries(lib) ==
  LET known  == {fn \in DOMAIN lib : lib[fn].sees # "nothing"}
      bodies == [fn \in {g \in known : lib[g].sees = "body"} |-> lib[fn]]
      global == Flows(bodies, {"FieldAddr"}, DOMAIN bodies)
      local  == Flows(bodies, {"FieldAddr"}, {})
      ends   == Used(bodies, {"Return", "Store", "Send", "Go"}) \cup PassedToUnseen(bodies, known)
      Meets(flows, fn, p, goals) == From(flows, {<<fn, p>>}) \cap goals # {}
  IN  [fn \in known |-> [p \in 1..lib[fn].params |->
         {f \in Flags : \/ f = "escapes" /\ Meets(global, fn, p, ends)
                        \/ f = "stored" /\ Meets(global, fn, p, Used(bodies, {"Store"}))
                        \/ f = "returned" /\ Meets(local, fn, p, Used(bodies, {"Return"}))}]]

(***************************************************************************)
(* What the functions really do with their parameters: which they keep or  *)
(* hand to others (a parameter stored anywhere counts), and which come     *)
(* back as the result.                                                     *)
(***************************************************************************)
RealFlows == Flows(Library, {"FieldAddr", "Slice"}, DOMAIN Library)
Within    == Flows(Library, {"FieldAddr", "Slice"}, {})
KeepsAll   == [fn \in DOMAIN Library |->
                 {p \in Params(fn) : From(RealFlows, {<<fn, p>>}) \cap Used(Library, {"Store", "Send", "Go"}) # {}}]
ReturnsAll == [fn \in DOMAIN Library |->
                 {p \in Params(fn) : From(Within, {<<fn, p>>}) \cap Used(Library, {"Return"}) # {}}]
Keeps(fn)   == KeepsAll[fn]
Returns(fn) == ReturnsAll[fn]

-----------------------------------------------------------------------------
(***************************************************************************)
(* The program under analysis.                                             *)
(***************************************************************************)
Values == 0..(Len(code) + 1)
Param  == 1

RECURSIVE IsCell(_)
IsCell(v) ==
  v \in {Global, Param} \/ LET i == code[v - 1]
                           IN  \/ i.op = "AllocCell"
                               \/ i.op \in {"FieldAddr", "Slice", "Phi"} /\ IsCell(i.args[1])

Points == {v \in Values : obj[v] # Nothing}
Cells  == {v \in Points : IsCell(v)}
Ptrs   == Points \ Cells
Own    == {v \in Points : obj[v] \notin {Global, Param}}   \* to what f has allocated

\* The next instruction, and the object its value points to.
Write(op, args, callee, o) ==
  /\ phase = "code" /\ Len(code) < MaxCode
  /\ code' = Append(code, [op |-> op, args |-> args, callee |-> callee])
  /\ obj' = [v \in 0..(Len(code) + 2) |-> IF v = Len(code) + 2 THEN o ELSE obj[v]]
  /\ UNCHANGED <<sumvars, decision>>

Derive ==
  \/ \E op \in {"Alloc", "AllocCell"} :
       Write(op, <<>>, "", Len(code) + 2) /\ UNCHANGED <<phase, mem, leaked>>
  \/ \E op \in {"FieldAddr", "Slice"}, v \in Points \ {Global} :
       Write(op, <<v>>, "", obj[v]) /\ UNCHANGED <<phase, mem, leaked>>
  \/ \E v \in Ptrs :
       Write("MakeInterface", <<v>>, "", obj[v]) /\ UNCHANGED <<phase, mem, leaked>>
  \/ \E v, w \in Points \ {Global} :
       /\ v # w /\ IsCell(v) = IsCell(w)
       /\ \E o \in {obj[v], obj[w]} : Write("Phi", <<v, w>>, "", o)
       /\ UNCHANGED <<phase, mem, leaked>>

Load ==
  \E c \in Cells : \E e \in mem :
    e[1] = obj[c] /\ Write("Load", <<c>>, "", e[2]) /\ UNCHANGED <<phase, mem, leaked>>

\* A function literal that captures a variable; only goroutines run it here.
Capture ==
  \E v \in Own :
    Write("MakeClosure", <<v>>, "", Len(code) + 2)
      /\ mem' = mem \cup {<<Len(code) + 2, obj[v]>>} /\ UNCHANGED <<phase, leaked>>

Store ==
  \E v \in Ptrs, c \in Cells :
    Write("Store", <<v, c>>, "", Nothing)
      /\ mem' = mem \cup {<<obj[c], obj[v]>>} /\ UNCHANGED <<phase, leaked>>

Send ==
  \E op \in {"Send", "Go"}, v \in Own :
    Write(op, <<v>>, "", Nothing) /\ leaked' = leaked \cup {obj[v]} /\ UNCHANGED <<phase, mem>>

Call ==
  \E op \in {"Call", "Defer"}, fn \in Callees : \E args \in [Params(fn) -> Own] :
    /\ \E o \in IF op = "Defer" \/ Returns(fn) = {} THEN {Nothing} ELSE {obj[args[p]] : p \in Returns(fn)} :
         Write(op, args, fn, o)
    /\ leaked' = leaked \cup {obj[args[p]] : p \in Keeps(fn)}
    /\ UNCHANGED <<phase, mem>>

Return ==
  \E v \in Own :
    Write("Return", <<v>>, "", Nothing) /\ leaked' = leaked \cup {obj[v]}
      /\ phase' = "returned" /\ UNCHANGED mem

\* Objects that are visible from outside f: the caller's, the global one and what they lead to.
Outside == From(mem, {Global, Param} \cup leaked)

-----------------------------------------------------------------------------
(***************************************************************************)
(* The passes. lastSummaries is one variable of the process: what a call's *)
(* GetSummary finds there is what this program's AnalyzeSummaries stored,  *)
(* or what that of another program, analysed at the same time, has stored  *)
(* since.                                                                  *)
(***************************************************************************)
Stored(lib, sums) ==
  [fn \in DOMAIN sums |-> [hasBody |-> lib[fn].sees = "body", params |-> sums[fn]]]

OwnReference == ReferenceSummaries(Library)
OtherStored == {Stored(lib, ReferenceSummaries(lib)) : lib \in OtherPrograms}

Init ==
  /\ SummaryInit
  /\ phase = "summaries"
  /\ code = [k \in 1..2 |-> [op |-> IF k = 1 THEN "Alloc" ELSE "AllocCell", args |-> <<>>, callee |-> ""]]
  /\ obj = [v \in 0..3 |-> v]
  /\ mem = {} /\ leaked = {} /\ decision = NoDecision

Summarize == (Visit \/ EndRound) /\ UNCHANGED <<phase, code, obj, mem, leaked, decision>>

SummariesDone ==
  /\ fixed /\ phase = "summaries" /\ phase' = "code"
  /\ UNCHANGED <<sumvars, code, obj, mem, leaked, decision>>

Decide ==
  /\ phase \in {"code", "returned"}
  /\ LET calls == {k \in DOMAIN code : code[k].op = "Call"}
     IN  \E alloc \in Allocations(code), seen \in [calls -> {Stored(Library, summaries)} \cup OtherStored] :
           decision' = [alloc |-> alloc, verdict |-> Classify(alloc, code, seen)]
  /\ phase' = "decided"
  /\ UNCHANGED <<sumvars, code, obj, mem, leaked>>

Next == Summarize \/ SummariesDone \/ Derive \/ Capture \/ Load \/ Store \/ Send \/ Call \/ Return \/ Decide

\* The loop of AnalyzeSummaries runs on.
Spec == Init /\ [][Next]_vars /\ WF_vars(Summarize)

-----------------------------------------------------------------------------
(***************************************************************************)
(* In whatever order Go's map iteration hands out the functions, and       *)
(* however they call each other, the fixpoint that AnalyzeSummaries        *)
(* reaches has exactly the flags that reachability in the call graph       *)
(* gives.                                                                  *)
(***************************************************************************)
SummariesExact == fixed => summaries = OwnReference

(***************************************************************************)
(* The iteration ends, recursive functions included: a round repeats only  *)
(* if it has added a flag.                                                 *)
(***************************************************************************)
SummariesTerminate == <>fixed

(***************************************************************************)
(* The functions the analysis is right about. It loses track of a value    *)
(* that is deferred, that is written through an address it has no edge     *)
(* back from, that shares a variable with another, that is passed along    *)
(* inside something else, or that a callee keeps without saying so.        *)
(***************************************************************************)
RECURSIVE OwnAddress(_)
OwnAddress(v) ==
  \/ v = Global
  \/ v # Param /\ LET i == code[v - 1]
                  IN  i.op = "AllocCell" \/ (i.op = "FieldAddr" /\ OwnAddress(i.args[1]))

Tracked(alloc) ==
  /\ \A k \in DOMAIN code : code[k].op # "Defer"
  /\ \A k \in DOMAIN code : code[k].op = "Store" => OwnAddress(code[k].args[2])
  /\ \A k \in DOMAIN code : code[k].op = "Phi" => obj[code[k].args[1]] = obj[code[k].args[2]]
  /\ \A d, e \in mem : d[1] = e[1] => d = e
  /\ \A k \in DOMAIN code : code[k].op = "Call" =>
       /\ \A p \in DOMAIN code[k].args : alloc \in From(mem, {obj[code[k].args[p]]}) => alloc = obj[code[k].args[p]]
       /\ \A p \in Keeps(code[k].callee) \cup Returns(code[k].callee) :
            code[k].callee \in allFunctions /\ HasBody(code[k].callee) =>
              "escapes" \in summaries[code[k].callee][p]

(***************************************************************************)
(* In such a function, an allocation that is moved to the arena cannot be  *)
(* reached from outside when the function has ended: not through the       *)
(* result, a channel, a goroutine, a global variable, a callee, or memory  *)
(* that leads to it, and whichever program's summaries the calls were      *)
(* judged by.                                                              *)
(***************************************************************************)
Sound ==
  decision.verdict = "Arena" /\ Tracked(decision.alloc) => decision.alloc \notin Outside

(***************************************************************************)
(* The same of every function: an allocation is moved to the arena only if *)
(* it is proved not to outlive its function.                               *)
(***************************************************************************)
ProvenSafe == decision.verdict = "Arena" => decision.alloc \notin Outside
=============================================================================
