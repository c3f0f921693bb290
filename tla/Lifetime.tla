------------------------------ MODULE Lifetime ------------------------------
(***************************************************************************)
(* internal/analysis/lifetime and internal/analysis/escape: the flow graph *)
(* and the alias roots of a function, the search for an escape from each   *)
(* allocation, and the decision that follows.                              *)
(*                                                                         *)
(* The function has one parameter, value 1, and instruction k of its code  *)
(* defines the value k + 1. Slice stands for the instructions treated like *)
(* it (Convert, ChangeInterface, TypeAssert), FieldAddr for IndexAddr and  *)
(* Field too.                                                              *)
(***************************************************************************)
EXTENDS Integers, Sequences, SequencesExt, FiniteSetsExt

Global  == 0
Nothing == -1              \* nil, as an entry of the alias map

Val(v)   == <<"val", v>>
Instr(k) == <<"instr", k>>

IsAlloc(i) == i.op \in {"Alloc", "AllocCell"}
Allocations(code) == {k + 1 : k \in {j \in DOMAIN code : IsAlloc(code[j])}}

(***************************************************************************)
(* The edges that instruction k adds to the graph, in order.               *)
(***************************************************************************)
EdgesOf(code, k) ==
  LET i == code[k]
      res == Val(k + 1)
      To(node) == [j \in DOMAIN i.args |-> <<Val(i.args[j]), node>>]
  IN  CASE i.op = "Store" -> << <<Val(i.args[1]), Val(i.args[2])>> >>
        [] i.op = "FieldAddr" -> << <<Val(i.args[1]), res>>, <<res, Val(i.args[1])>> >>
        [] i.op \in {"Slice", "Load", "Phi", "MakeClosure"} -> To(res)
        [] i.op = "MakeInterface" -> To(res) \o To(Instr(k))
        [] i.op \in {"Send", "Return", "Go", "Defer", "Call"} -> To(Instr(k))
        [] OTHER -> <<>>

Graph(code) == FlattenSeq([k \in DOMAIN code |-> EdgesOf(code, k)])
Adjacency(graph, node) ==
  LET out == SelectSeq(graph, LAMBDA e : e[1] = node) IN [j \in DOMAIN out |-> out[j][2]]

(***************************************************************************)
(* OwnershipTracker. GetRoot compresses the path it has walked, which      *)
(* counts: a later change of a value on that path is not seen any more.    *)
(***************************************************************************)
RECURSIVE GetRoot(_, _)
GetRoot(aliases, v) ==
  IF aliases[v] \in {v, Nothing} THEN aliases[v] ELSE GetRoot(aliases, aliases[v])

RECURSIVE Compress(_, _)
Compress(aliases, v) ==
  IF aliases[v] \in {v, Nothing} THEN aliases
  ELSE [Compress(aliases, aliases[v]) EXCEPT ![v] = GetRoot(aliases, v)]

AddAlias(aliases, v, src) ==
  LET compressed == Compress(aliases, src)
      root == GetRoot(aliases, src)
  IN  IF root = Nothing THEN aliases ELSE [compressed EXCEPT ![v] = root]

RegisterAllocs(code) ==
  [v \in 0..(Len(code) + 1) |-> IF v \in Allocations(code) THEN v ELSE Nothing]

Aliases(code) ==
  FoldLeft(LAMBDA al, k :
             LET i == code[k]
             IN  CASE i.op = "Store" -> AddAlias(al, i.args[2], i.args[1])
                   [] i.op \in {"FieldAddr", "Slice", "Load", "Phi", "MakeClosure", "MakeInterface"} ->
                        FoldLeft(LAMBDA a, x : AddAlias(a, k + 1, x), al, i.args)
                   [] OTHER -> al,
           RegisterAllocs(code), [k \in DOMAIN code |-> k])

isArgumentMatched(aliases, arg, alloc) ==
  \/ arg = alloc
  \/ GetRoot(aliases, arg) # Nothing /\ GetRoot(aliases, arg) = GetRoot(aliases, alloc)

\* Mutant: a function without a summary is taken for harmless.
CallVerdict_Trusting(call, alloc, aliases, summaries) ==
  IF call.callee \notin DOMAIN summaries THEN "Safe"
  ELSE IF \E j \in DOMAIN call.args :
            /\ isArgumentMatched(aliases, call.args[j], alloc)
            /\ "escapes" \in summaries[call.callee].params[j]
       THEN "Unsafe" ELSE "Safe"

(***************************************************************************)
(* The node of a call, with the summaries that GetSummary finds.           *)
(***************************************************************************)
CallVerdict(call, alloc, aliases, summaries) ==
  IF call.callee \notin DOMAIN summaries \/ ~summaries[call.callee].hasBody THEN "Unknown"
  ELSE IF \E j \in DOMAIN call.args :
            /\ isArgumentMatched(aliases, call.args[j], alloc)
            /\ "escapes" \in summaries[call.callee].params[j]
       THEN "Unsafe" ELSE "Safe"

\* What the search says at a node; seen[k] is what GetSummary finds at instruction k.
NodeVerdict(node, alloc, code, aliases, seen) ==
  IF node[1] = "val" THEN IF node[2] = Global THEN "Unsafe" ELSE "Safe"
  ELSE LET i == code[node[2]]
       IN  CASE i.op \in {"Return", "Go", "Send"} -> "Unsafe"
             [] i.op = "MakeInterface" -> "Unknown"
             [] i.op = "Call" -> CallVerdict(i, alloc, aliases, seen[node[2]])
             [] OTHER -> "Safe"

(***************************************************************************)
(* The depth-first search: the nodes to be visited, next one first. It     *)
(* ends at the first escape.                                               *)
(***************************************************************************)
RECURSIVE dfs(_, _, _, _)
dfs(stack, visited, graph, verdict) ==
  IF stack = <<>> THEN "Safe"
  ELSE LET node == Head(stack)
       IN  IF node \in visited THEN dfs(Tail(stack), visited, graph, verdict)
           ELSE IF verdict[node] # "Safe" THEN verdict[node]
           ELSE dfs(Adjacency(graph, node) \o Tail(stack), visited \cup {node}, graph, verdict)

CheckEscape(alloc, code, seen) ==
  LET aliases == Aliases(code)
      nodes   == {Val(v) : v \in DOMAIN aliases} \cup {Instr(k) : k \in DOMAIN code}
  IN  dfs(<<Val(alloc)>>, {}, Graph(code),
          [node \in nodes |-> NodeVerdict(node, alloc, code, aliases, seen)])

(***************************************************************************)
(* Classify: what is safe and has no pointers in it goes to the arena.     *)
(***************************************************************************)
Classify(alloc, code, seen) ==
  LET state == CheckEscape(alloc, code, seen)
  IN  CASE state = "Safe" /\ code[alloc - 1].op = "Alloc" -> "Arena"
        [] state = "Unknown" -> "Unknown"
        [] OTHER -> "Heap"
=============================================================================
