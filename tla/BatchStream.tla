---------------------------- MODULE BatchStream ----------------------------
(***************************************************************************)
(* What the ring driver promises the process that maps its slots           *)
(* (include/uapi rtlamr_usb_ring.h and the driver's README): batches are   *)
(* taken and returned in sequence, batch q lives in slot q % N, and the    *)
(* device never writes to a slot the process holds.  UsbRing implements    *)
(* this specification; KernelReceiver is built on it.                      *)
(***************************************************************************)
EXTENDS Integers

CONSTANT N              \* slots of the ring

VARIABLES
  released, claimed,    \* batches returned and taken since START
  writable,             \* slots the device may be writing to
  stopped               \* no batch can be taken until the next START

streamVars == <<released, claimed, writable, stopped>>

Slots == 0 .. (N - 1)

\* The slots of the batches the process holds.
HeldSlots == {q % N : q \in released .. (claimed - 1)}

Init == released = 0 /\ claimed = 0 /\ writable = {} /\ stopped = FALSE

Take ==
  /\ ~stopped
  /\ claimed < released + N /\ claimed % N \notin writable
  /\ claimed' = claimed + 1
  /\ UNCHANGED <<released, writable, stopped>>

GiveBack ==
  /\ released < claimed
  /\ released' = released + 1
  /\ UNCHANGED <<claimed, writable, stopped>>

Device ==
  /\ writable' \in SUBSET (Slots \ HeldSlots)
  /\ UNCHANGED <<released, claimed, stopped>>

Stop ==
  /\ stopped' = TRUE
  /\ UNCHANGED <<released, claimed, writable>>

Restart ==
  /\ writable = {}
  /\ released' = 0 /\ claimed' = 0 /\ stopped' = FALSE
  /\ UNCHANGED writable

Next == Take \/ GiveBack \/ Device \/ Stop \/ Restart

Spec == Init /\ [][Next]_streamVars
=============================================================================
