----------------------------- MODULE MCAnalysis -----------------------------
(***************************************************************************)
(* A program with mutually recursive functions, a function of another      *)
(* package, one that wraps it, a method, and one that returns what it is   *)
(* given by a way the summaries follow and by one they do not (tail).      *)
(***************************************************************************)
EXTENDS AnalysisPipeline

I(op, args) == [op |-> op, args |-> args, callee |-> ""]
C(callee, args) == [op |-> "Call", args |-> args, callee |-> callee]
F(params, sees, body) == [params |-> params, sees |-> sees, body |-> body]

MCLibrary ==
  [pure  |-> F(1, "body", <<>>),
   ping  |-> F(2, "body", <<C("pong", <<2, 1>>)>>),
   pong  |-> F(2, "body", <<C("ping", <<1, 2>>), I("Store", <<1, 0>>)>>),
   ext   |-> F(1, "declared", <<I("Store", <<1, 0>>)>>),
   wrap  |-> F(1, "body", <<C("ext", <<1>>)>>),
   tail  |-> F(3, "body", <<I("FieldAddr", <<1>>), I("Slice", <<2>>),
                            I("Return", <<4, 5>>), C("meth", <<3>>)>>),
   meth  |-> F(1, "nothing", <<I("Send", <<1>>)>>)]

\* The pass over the package of ext sees its body, and only the declaration of pure.
MCOtherPrograms ==
  {[MCLibrary EXCEPT !.pure.sees = "declared", !.ext.sees = "body", !.ping.sees = "nothing"]}

MCCallees == {"pure", "ping", "ext", "wrap"}
=============================================================================
