------------------------------ MODULE Session ------------------------------
(***************************************************************************)
(* The Session of session.go: buffers that clients borrow and release,     *)
(* kept in a sync.Pool in between.  A buffer is a piece of Go memory with  *)
(* a capacity; the slice a client holds begins at its start.  The counters *)
(* of hits and misses, which nothing reads but Stats, are left out.        *)
(***************************************************************************)
EXTENDS Integers, Sequences

CONSTANTS
  Users,          \* the goroutines that borrow
  Buffers,        \* bound: the buffers that exist at a time
  BorrowSizes,    \* what clients ask for
  MaxRetain,      \* Session.maxRetain
  Nobody

ASSUME SessionAssumption ==
  /\ BorrowSizes \subseteq Nat \ {0}
  /\ MaxRetain \in Nat
  /\ Nobody \notin Users \cup Buffers

VARIABLES
  mem,        \* the bytes of each buffer: Nobody for zero, or who wrote it last
  idle,       \* the buffers in the sync.Pool
  held,       \* the slice each user has borrowed, with (history) where it wrote
  spilled     \* history: where a buffer was written by a user outside of the
              \* slice it released

sessionVars == <<mem, idle, held, spilled>>

NoSlice == [buf |-> Nobody, len |-> 0, wrote |-> {}]
Free    == {b \in Buffers \ idle : \A u \in Users : held[u].buf # b}

SessionInit ==
  /\ mem = [b \in Buffers |-> <<>>]
  /\ idle = {}
  /\ held = [u \in Users |-> NoSlice]
  /\ spilled = [b \in Buffers |-> {}]

----------------------------------------------------------------------------

Hand(u, b, n) == held' = [held EXCEPT ![u] = [NoSlice EXCEPT !.buf = b, !.len = n]]

\* make([]byte, n)
Make(u, b, n) ==
  /\ mem' = [mem EXCEPT ![b] = [i \in 1..n |-> Nobody]]
  /\ spilled' = [spilled EXCEPT ![b] = {}]
  /\ Hand(u, b, n)

(***************************************************************************)
(* Borrow when pool.Get returns nil, as it may even if the pool has some.  *)
(***************************************************************************)
BorrowMiss(u, n) ==
  /\ held[u] = NoSlice
  /\ \E b \in Free : Make(u, b, n)
  /\ UNCHANGED idle

(***************************************************************************)
(* Borrow when pool.Get returns b.  One that is too small is dropped.      *)
(***************************************************************************)
BorrowHit(u, b, n) ==
  /\ held[u] = NoSlice
  /\ b \in idle
  /\ idle' = idle \ {b}
  /\ IF Len(mem[b]) < n THEN Make(u, b, n) ELSE Hand(u, b, n) /\ UNCHANGED <<mem, spilled>>

(***************************************************************************)
(* The client writes a byte of its slice, or appends one, which goes into  *)
(* the same memory while there is capacity; it may or may not keep the     *)
(* longer slice.                                                           *)
(***************************************************************************)
Scribble(u, i, keep) ==
  LET h == held[u]
  IN  /\ h # NoSlice
      /\ i \in 1..(h.len + 1) \cap DOMAIN mem[h.buf]
      /\ mem' = [mem EXCEPT ![h.buf][i] = u]
      /\ held' = [held EXCEPT ![u].wrote = @ \cup {i},
                              ![u].len = IF keep /\ i > @ THEN i ELSE @]
      /\ UNCHANGED <<idle, spilled>>

\* Nobody refers to the buffers any more.
Forget(bs) ==
  /\ mem' = [b \in Buffers |-> IF b \in bs THEN <<>> ELSE mem[b]]
  /\ spilled' = [b \in Buffers |-> IF b \in bs THEN {} ELSE spilled[b]]

Zeroed_Half(b, n) == [i \in DOMAIN mem[b] |-> IF i < n THEN Nobody ELSE mem[b][i]]

(***************************************************************************)
(* With zeroOnRelease set: the bytes of the slice, not of its capacity.    *)
(***************************************************************************)
Zeroed(b, n) == [i \in DOMAIN mem[b] |-> IF i <= n THEN Nobody ELSE mem[b][i]]

(***************************************************************************)
(* Release(buf[:n]).                                                       *)
(***************************************************************************)
Release(u, n) ==
  LET b == held[u].buf
  IN  /\ held[u] # NoSlice
      /\ n \in 0..held[u].len
      /\ held' = [held EXCEPT ![u] = NoSlice]
      /\ IF Len(mem[b]) > MaxRetain
           THEN Forget({b}) /\ UNCHANGED idle
           ELSE /\ mem' = [mem EXCEPT ![b] = Zeroed(b, n)]
                /\ spilled' = [spilled EXCEPT ![b] = {i \in @ \cup held[u].wrote : i > n}]
                /\ idle' = idle \cup {b}

(***************************************************************************)
(* Reset, or a garbage collection, empties the pool.  (Reset overwrites    *)
(* the sync.Pool without synchronisation: clients call it while no Borrow  *)
(* or Release runs.)                                                       *)
(***************************************************************************)
ResetSession ==
  /\ idle # {}
  /\ idle' = {}
  /\ Forget(idle)
  /\ UNCHANGED held

----------------------------------------------------------------------------

(***************************************************************************)
(* A borrowed slice holds what its borrower wrote, whoever else borrows,   *)
(* and zeroes elsewhere.  The one exception are bytes that an earlier      *)
(* borrower wrote outside of the slice it released: after an append whose  *)
(* result it did not keep, or before it shortened the slice.  Release does *)
(* not reach those.                                                        *)
(***************************************************************************)
BorrowPrivate ==
  \A u \in Users : held[u] # NoSlice =>
    \A i \in 1..held[u].len :
      LET byte == mem[held[u].buf][i]
      IN  IF i \in held[u].wrote THEN byte = u
          ELSE byte = Nobody \/ i \in spilled[held[u].buf]
============================================================================
