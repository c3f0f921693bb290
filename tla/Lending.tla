------------------------------ MODULE Lending ------------------------------
(***************************************************************************)
(* What a pool promises the clients it lends objects to: an object is lent *)
(* to one client at a time, and one that was destroyed is never lent.      *)
(* How the pool finds or makes objects, and where idle ones wait, is left  *)
(* out.                                                                    *)
(***************************************************************************)

CONSTANTS Client, Object

VARIABLES leases,   \* the pairs <<client, object>> of present loans
          gone      \* the objects that were destroyed

lvars == <<leases, gone>>

LendInit == leases = {} /\ gone = {}

Lend(c, o) ==
  /\ o \notin gone
  /\ \A d \in Client : <<d, o>> \notin leases
  /\ leases' = leases \cup {<<c, o>>}
  /\ UNCHANGED gone

GiveBack(c, o) ==
  /\ <<c, o>> \in leases
  /\ leases' = leases \ {<<c, o>>}
  /\ UNCHANGED gone

(***************************************************************************)
(* Objects that nobody holds are destroyed.                                *)
(***************************************************************************)
Destroy(S) ==
  /\ \A c \in Client, o \in S : <<c, o>> \notin leases
  /\ gone' = gone \cup S
  /\ UNCHANGED leases

LendNext ==
  \/ \E S \in SUBSET Object : Destroy(S)
  \/ \E c \in Client, o \in Object : Lend(c, o) \/ GiveBack(c, o)

LendSpec == LendInit /\ [][LendNext]_lvars
============================================================================
