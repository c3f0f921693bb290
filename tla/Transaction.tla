---------------------------- MODULE Transaction ----------------------------
(***************************************************************************)
(* Arena.Transaction of checkpoint.go: a Savepoint, a function of the      *)
(* client that calls what it likes of the arena, and a Rollback if the     *)
(* function fails or panics.  Other goroutines may use the arena meanwhile.*)
(*                                                                         *)
(* The savepoint is a local variable of Transaction, so the slot it is     *)
(* kept in is used by nobody else.  One transaction runs at a time.        *)
(***************************************************************************)
EXTENDS Arena

CONSTANT TxSlot    \* where the running Transaction keeps its savepoint

ASSUME TransactionAssumption == TxSlot \in Slots

VARIABLE tx        \* the running transaction: who, how far, and (history)
                   \* how it found the arena and whether others used it since

tvars == <<vars, tx>>

NoTx == [by |-> NoOne, phase |-> "none", off |-> Zeroes, active |-> Nil, alone |-> TRUE]

TxInit == Init /\ tx = NoTx

----------------------------------------------------------------------------
(* The steps of Transaction *)

(***************************************************************************)
(* sp := a.Savepoint()                                                     *)
(***************************************************************************)
Transaction(g) ==
  /\ tx = NoTx
  /\ Savepoint(g, TxSlot)
  /\ tx' = [by |-> g, phase |-> "fn", off |-> off, active |-> active,
            alone |-> \A h \in Goroutines \ {g} : pc[h] = "idle"]

(***************************************************************************)
(* fn has returned nil.                                                    *)
(***************************************************************************)
Commit(g) ==
  /\ tx.by = g /\ tx.phase = "fn" /\ pc[g] = "idle"
  /\ tx' = NoTx
  /\ UNCHANGED vars

Fail_Ignored(g) ==
  /\ tx.by = g /\ tx.phase = "fn" /\ pc[g] = "idle"
  /\ tx' = [tx EXCEPT !.phase = "undo"]
  /\ UNCHANGED vars

(***************************************************************************)
(* fn has returned an error or panicked: _ = a.Rollback(sp).               *)
(***************************************************************************)
Fail(g) ==
  /\ tx.by = g /\ tx.phase = "fn" /\ pc[g] = "idle"
  /\ Rollback(g, TxSlot)
  /\ tx' = [tx EXCEPT !.phase = "undo"]

(***************************************************************************)
(* Rollback refuses a savepoint with more chunks than the arena has, which *)
(* is so after a Close; Transaction drops the error.                       *)
(***************************************************************************)
FailRefused(g) ==
  /\ tx.by = g /\ tx.phase = "fn" /\ pc[g] = "idle"
  /\ sps[TxSlot].n > NumChunks
  /\ tx' = NoTx
  /\ UNCHANGED vars

(***************************************************************************)
(* Transaction returns the error, or panics anew.                          *)
(***************************************************************************)
TxReturn(g) ==
  /\ tx.by = g /\ tx.phase = "undo" /\ pc[g] = "idle"
  /\ tx' = NoTx
  /\ UNCHANGED vars

----------------------------------------------------------------------------
(* Everything else that happens to the arena *)

(***************************************************************************)
(* A step of a call that is not made by Transaction itself.                *)
(***************************************************************************)
ArenaStep(g) ==
  /\ \/ AllocStep(g)
     \/ Reset(g) \/ StoreOff(g) \/ StoreActive(g)
     \/ \E s \in Slots : Rewind(g, s)
     \/ \E s \in Slots \ {TxSlot} : Rollback(g, s)
     \/ \E s \in Slots : Mark(g, s)
     \/ \E s \in Slots \ {TxSlot} : Savepoint(g, s)
     \/ SaveOff(g) \/ SaveDone(g)
     \/ CloseStep(g)
  /\ tx.by = g /\ tx.phase = "undo" => pc[g] # "idle"
  /\ tx' = IF tx.by = g \/ tx = NoTx THEN tx ELSE [tx EXCEPT !.alone = FALSE]

TxNext ==
  \E g \in Goroutines :
    Transaction(g) \/ Commit(g) \/ Fail(g) \/ FailRefused(g) \/ TxReturn(g) \/ ArenaStep(g)

TxSpec == TxInit /\ [][TxNext]_tvars

----------------------------------------------------------------------------
(* Properties *)

(***************************************************************************)
(* A failed transaction of a goroutine that had the arena to itself leaves *)
(* every offset and the active chunk as it found them, whatever fn did:    *)
(* grew the arena, rewound it below the savepoint or reset it.  Chunks fn  *)
(* made stay, empty.  ("the arena is automatically rolled back to its      *)
(* pre-transaction state"; a Close by fn is final.)                        *)
(***************************************************************************)
FailedTransactionRestores ==
  \A g \in Goroutines :
    tx.by = g /\ tx.phase = "undo" /\ tx.alone /\ pc[g] = "idle" /\ closed = 0 =>
      off = tx.off /\ active = tx.active
============================================================================
