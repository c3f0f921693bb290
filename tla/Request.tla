------------------------------ MODULE Request ------------------------------
(***************************************************************************)
(* Requests that goroutines serve at the same time, each in a scope: in    *)
(* WithAutoTunedScope (autotune.go), with an arena of its own that the     *)
(* AutoTuner sized, or behind HTTPMiddleware (context.go) or in WithScope  *)
(* (arena.go), with an arena that is there already.  Inside, the client    *)
(* may exit the scope early, and it reads a response body into the scope   *)
(* (client.go, through an ArenaBuffer) if the arena is its own, or uses    *)
(* the default Session if not.                                             *)
(*                                                                         *)
(* The components share nothing but the goroutines that call them: the     *)
(* counters of metrics.go, the sites of the AutoTuner and the buffers of   *)
(* the Session are each changed by all requests.                           *)
(***************************************************************************)
EXTENDS MetricsTracker, AutoTuner, ArenaBuffer, Session, FiniteSets, FiniteSetsExt

CONSTANTS
  ContentLengths,   \* what resp.ContentLength may say; -1 if nothing
  DefaultCap,       \* initialCap without a usable ContentLength (4096)
  LargestCap,       \* the largest ContentLength that is believed (1 MiB)
  TmpSize,          \* len(tmp) (8192)
  MaxBody,          \* maxBytes
  MaxRequests,      \* bound: requests served
  NoKey             \* stands for the key of a request without its own arena

ASSUME RequestAssumption ==
  /\ {DefaultCap, LargestCap, TmpSize, MaxBody} \subseteq Nat \ {0}
  /\ ContentLengths \subseteq Int
  /\ MaxRequests \in Nat
  /\ NoKey \notin Keys

VARIABLES
  pc, req,     \* where each goroutine is, with the local variables of its request
  served,      \* the number of requests begun
  peak,        \* history: the largest value metrics.allocated has had
  samples      \* history: what Calibrate was told of each site

rvars == <<metrics, sites, sessionVars, pc, req, served, peak, samples>>

NoBuffer == [buf |-> <<>>, len |-> 0, used |-> 0]
NoReq == [key |-> NoKey, known |-> FALSE, size |-> 0, old |-> 0, cur |-> 0, active |-> FALSE,
          used |-> 0, buffer |-> NoBuffer, total |-> 0, open |-> FALSE,
          result |-> "none", body |-> <<>>]

Init ==
  /\ metrics = NoMetrics
  /\ SitesInit
  /\ SessionInit
  /\ pc = [g \in Users |-> "idle"]
  /\ req = [g \in Users |-> NoReq]
  /\ served = 0
  /\ peak = 0
  /\ samples = [k \in Keys |-> {}]

Goto(g, label) == pc' = [pc EXCEPT ![g] = label]

\* From one place of the code to the next, with the goroutine's new local variables.
Step(g, from, to, r) ==
  /\ pc[g] = from
  /\ Goto(g, to)
  /\ req' = [req EXCEPT ![g] = r]

Tuned(g) == req[g].key # NoKey

----------------------------------------------------------------------------
(* The beginning of a request *)

(***************************************************************************)
(* WithAutoTunedScope: RecommendedSize looks the site up under RLock.      *)
(***************************************************************************)
WithAutoTunedScope(g, k) ==
  /\ served < MaxRequests
  /\ served' = served + 1
  /\ Step(g, "idle", "size", [NoReq EXCEPT !.key = k, !.known = (sites[k] # Unknown)])
  /\ UNCHANGED <<metrics, sites, sessionVars, peak, samples>>

(***************************************************************************)
(* The estimate is read without the lock; the site itself never goes away. *)
(***************************************************************************)
RecommendedSize(g) ==
  /\ Step(g, "size", "create",
       [req[g] EXCEPT !.size = IF req[g].known THEN SlabFor(sites[req[g].key]) ELSE MinSlab])
  /\ UNCHANGED <<metrics, sites, sessionVars, served, peak, samples>>

(***************************************************************************)
(* NewArena ends with RecordArenaCreated: activeArenas, allocatedBytes and *)
(* the loop of updateHighWater.                                            *)
(***************************************************************************)
RecordArena(g) ==
  /\ Step(g, "create", "add", req[g])
  /\ CountArena(1)
  /\ UNCHANGED <<sites, sessionVars, served, peak, samples>>

RecordSlab(g) ==
  /\ AddAllocated(req[g].size)
  /\ Step(g, "add", "load", [req[g] EXCEPT !.cur = metrics'.allocated])
  /\ peak' = Max({peak, metrics'.allocated})
  /\ UNCHANGED <<sites, sessionVars, served, samples>>

LoadHighWater(g) ==
  /\ Step(g, "load", IF req[g].cur <= metrics.high THEN "enter" ELSE "raise",
          [req[g] EXCEPT !.old = metrics.high])
  /\ UNCHANGED <<metrics, sites, sessionVars, served, peak, samples>>

CompareAndSwapHighWater(g) ==
  /\ Step(g, "raise", IF req[g].old = metrics.high THEN "enter" ELSE "load", req[g])
  /\ RaiseHighWater(req[g].old, req[g].cur)
  /\ UNCHANGED <<sites, sessionVars, served, peak, samples>>

(***************************************************************************)
(* HTTPMiddleware and WithScope enter a scope of an arena they are given.  *)
(***************************************************************************)
HTTPMiddleware(g) ==
  /\ served < MaxRequests
  /\ served' = served + 1
  /\ Step(g, "idle", "enter", NoReq)
  /\ UNCHANGED <<metrics, sites, sessionVars, peak, samples>>

EnterScope(g) ==
  /\ Step(g, "enter", "fn", [NoReq EXCEPT !.key = req[g].key, !.size = req[g].size, !.active = TRUE])
  /\ CountScope(1)
  /\ UNCHANGED <<sites, sessionVars, served, peak, samples>>

----------------------------------------------------------------------------
(* What the client does in its scope *)

InitialCap(contentLength) ==
  IF contentLength <= 0 \/ contentLength > LargestCap THEN DefaultCap ELSE contentLength

(***************************************************************************)
(* DoScope: client.Do returned a response, and ReadResponseBody makes its  *)
(* buffer.  A request that fails changes nothing.                          *)
(***************************************************************************)
DoScope(g, contentLength) ==
  /\ Tuned(g) /\ req[g].active /\ req[g].result = "none"
  /\ LET b == NewArenaBuffer(InitialCap(contentLength))
     IN  Step(g, "fn", "read", [req[g] EXCEPT !.buffer = b, !.used = b.used, !.open = TRUE])
  /\ UNCHANGED <<metrics, sites, sessionVars, served, peak, samples>>

\* ReadResponseBody returns; its deferred call closes the body.
Returned(r, result, body) ==
  [r EXCEPT !.buffer = NoBuffer, !.open = FALSE, !.result = result, !.body = body]

AfterRead_ErrFirst(r, n, err) ==
  LET b == Write(r.buffer, [i \in 1..n |-> r.total + i])
      t == [r EXCEPT !.total = @ + n]
  IN  CASE err = "EOF"  -> Returned(t, "ok", Bytes(r.buffer))
        [] err = "fail" -> Returned(t, "err", <<>>)
        [] err = "none" /\ t.total > MaxBody -> Returned(t, "tooLarge", <<>>)
        [] OTHER -> [t EXCEPT !.buffer = b, !.used = b.used]

(***************************************************************************)
(* One turn of the loop: Read returned n bytes and err, in one call.  The  *)
(* bytes a server sends are numbered.                                      *)
(***************************************************************************)
AfterRead(r, n, err) ==
  LET b == Write(r.buffer, [i \in 1..n |-> r.total + i])
      t == [r EXCEPT !.total = @ + n]
      u == [t EXCEPT !.buffer = b, !.used = b.used]
  IN  IF n > 0 /\ t.total > MaxBody THEN Returned(t, "tooLarge", <<>>)
      ELSE CASE err = "EOF"  -> Returned(u, "ok", Bytes(b))
             [] err = "fail" -> Returned(u, "err", <<>>)
             [] OTHER -> u

ReadResponseBody(g, n, err) ==
  /\ pc[g] = "read"
  /\ LET r == AfterRead(req[g], n, err)
     IN  Step(g, "read", IF r.open THEN "read" ELSE "fn", r)
  /\ UNCHANGED <<metrics, sites, sessionVars, served, peak, samples>>

(***************************************************************************)
(* Calls on the default Session.                                           *)
(***************************************************************************)
UseSession(g) ==
  /\ pc[g] = "fn" /\ ~Tuned(g)
  /\ \/ \E n \in BorrowSizes : BorrowMiss(g, n) \/ \E b \in Buffers : BorrowHit(g, b, n)
     \/ \E i \in 1..(held[g].len + 1), keep \in BOOLEAN : Scribble(g, i, keep)
     \/ \E n \in 0..held[g].len : Release(g, n)
     \/ ResetSession
  /\ UNCHANGED <<metrics, sites, pc, req, served, peak, samples>>

(***************************************************************************)
(* The client exits the scope itself, as with the cleanup function that    *)
(* WithContextScope returns.                                               *)
(***************************************************************************)
ExitEarly(g) ==
  /\ req[g].active
  /\ Step(g, "fn", "fn", [req[g] EXCEPT !.active = FALSE])
  /\ CountScope(-1)
  /\ UNCHANGED <<sites, sessionVars, served, peak, samples>>

----------------------------------------------------------------------------
(* The end of a request *)

\* What the deferred calls still need of the local variables.
AtEnd(r) == [NoReq EXCEPT !.key = r.key, !.size = r.size, !.active = r.active, !.used = r.used]

FnReturns(g) ==
  /\ held[g] = NoSlice
  /\ Step(g, "fn", IF Tuned(g) THEN "calibrate" ELSE "leave", AtEnd(req[g]))
  /\ UNCHANGED <<metrics, sites, sessionVars, served, peak, samples>>

(***************************************************************************)
(* fn panics: WithBorrow releases its buffer, ReadResponseBody closes the  *)
(* body, and Calibrate is skipped.                                         *)
(***************************************************************************)
FnPanics(g) ==
  /\ pc[g] \in {"fn", "read"}
  /\ Step(g, pc[g], IF Tuned(g) THEN "exit" ELSE "leave", AtEnd(req[g]))
  /\ IF held[g] = NoSlice THEN UNCHANGED sessionVars ELSE Release(g, held[g].len)
  /\ UNCHANGED <<metrics, sites, served, peak, samples>>

CalibrateSite(g) ==
  LET k == req[g].key
  IN  /\ Step(g, "calibrate", "exit", req[g])
      /\ Calibrate(k, req[g].used)
      /\ samples' = [samples EXCEPT ![k] = IF req[g].used > 0 THEN @ \cup {req[g].used} ELSE @]
      /\ UNCHANGED <<metrics, sessionVars, served, peak>>

(***************************************************************************)
(* if s.Active() { s.Exit() } of HTTPMiddleware and WithScope.             *)
(***************************************************************************)
Leave(g) ==
  /\ Step(g, "leave", IF req[g].active THEN "exit" ELSE "idle",
          IF req[g].active THEN req[g] ELSE NoReq)
  /\ UNCHANGED <<metrics, sites, sessionVars, served, peak, samples>>

Closing(r) == [NoReq EXCEPT !.key = r.key, !.size = r.size]

(***************************************************************************)
(* s.Exit().  RecordScopeExit also adds the bytes to the total of bypassed *)
(* bytes: see module Scope.                                                *)
(***************************************************************************)
Exit(g) ==
  /\ req[g].active
  /\ Step(g, "exit", IF Tuned(g) THEN "close" ELSE "idle",
          IF Tuned(g) THEN Closing(req[g]) ELSE NoReq)
  /\ CountScope(-1)
  /\ UNCHANGED <<sites, sessionVars, served, peak, samples>>

(***************************************************************************)
(* The deferred scope.Exit() of WithAutoTunedScope panics if the client    *)
(* has exited the scope; the deferred arena.Close() runs all the same.     *)
(***************************************************************************)
ExitPanics(g) ==
  /\ ~req[g].active
  /\ Step(g, "exit", "close", Closing(req[g]))
  /\ UNCHANGED <<metrics, sites, sessionVars, served, peak, samples>>

(***************************************************************************)
(* arena.Close(): RecordArenaClosed with the size the arena began with.    *)
(***************************************************************************)
CloseArena(g) ==
  /\ Step(g, "close", "free", req[g])
  /\ CountArena(-1)
  /\ UNCHANGED <<sites, sessionVars, served, peak, samples>>

RecordFreed(g) ==
  /\ Step(g, "free", "idle", NoReq)
  /\ AddAllocated(-req[g].size)
  /\ UNCHANGED <<sites, sessionVars, served, peak, samples>>

----------------------------------------------------------------------------

Next ==
  \E g \in Users :
    \/ \E k \in Keys : WithAutoTunedScope(g, k)
    \/ RecommendedSize(g) \/ RecordArena(g) \/ RecordSlab(g)
    \/ LoadHighWater(g) \/ CompareAndSwapHighWater(g)
    \/ HTTPMiddleware(g) \/ EnterScope(g)
    \/ \E n \in ContentLengths : DoScope(g, n)
    \/ \E n \in 0..TmpSize, err \in {"none", "EOF", "fail"} : ReadResponseBody(g, n, err)
    \/ UseSession(g) \/ ExitEarly(g)
    \/ FnReturns(g) \/ FnPanics(g) \/ CalibrateSite(g)
    \/ Leave(g) \/ Exit(g) \/ ExitPanics(g)
    \/ CloseArena(g) \/ RecordFreed(g)

Spec == Init /\ [][Next]_rvars

----------------------------------------------------------------------------
(* Properties *)

(***************************************************************************)
(* When no request is under way the gauges of metrics.go are back at zero, *)
(* however the requests ended: by a panic, with a scope exited twice, or   *)
(* with a body that failed.                                                *)
(***************************************************************************)
GaugesReturnToZero ==
  (\A g \in Users : pc[g] = "idle") =>
    metrics.arenas = 0 /\ metrics.scopes = 0 /\ metrics.allocated = 0

(***************************************************************************)
(* Once the loops of updateHighWater have ended, the high-water mark is    *)
(* the largest value that allocatedBytes ever had, although each goroutine *)
(* raises it some time after it added its slab.                            *)
(***************************************************************************)
HighWaterExact ==
  (\A g \in Users : pc[g] \notin {"load", "raise"}) => metrics.high = peak

(***************************************************************************)
(* The slab the AutoTuner proposes for a site holds at least what the      *)
(* smallest of the scopes used there, unless that exceeds MaxSlab: the     *)
(* average may lag behind and lose a byte at each step, but never more     *)
(* than the headroom and the page make up for.  It can exceed MaxSlab, by  *)
(* less than a page.                                                       *)
(***************************************************************************)
SlabFitsSite ==
  \A k \in Keys : samples[k] # {} =>
    /\ SlabFor(sites[k]) >= Min(samples[k] \cup {MaxSlab})
    /\ SlabFor(sites[k]) < MaxSlab + PageSize
    /\ sites[k] <= Max(samples[k])

(***************************************************************************)
(* ReadResponseBody returns all the bytes that the server sent, in order,  *)
(* also the ones that come together with EOF, through every growth of the  *)
(* buffer; or an error, and ErrResponseBodyTooLarge just if there were too *)
(* many.  However it ends, the body is closed.                             *)
(***************************************************************************)
BodyWhole ==
  \A g \in Users :
    LET r == req[g]
    IN  /\ r.result = "ok" => r.body = [i \in 1..r.total |-> i]
        /\ r.result \in {"ok", "tooLarge"} => (r.result = "tooLarge" <=> r.total > MaxBody)
        /\ r.open <=> pc[g] = "read"

(***************************************************************************)
(* The counters of metrics.go are exact in spite of the races of requests. *)
(***************************************************************************)
CountersExact == GaugesReturnToZero /\ HighWaterExact
============================================================================
