--------------------------- MODULE PairingPromise ---------------------------
(***************************************************************************)
(* What pairing promises the operator, whichever way it is asked for.  An  *)
(* attempt shows QRs until one of them is scanned, none after that; the    *)
(* operator is told of a link only when a QR of that very attempt was      *)
(* scanned, and a link, once told and recorded, is never taken back; one   *)
(* that could not be recorded may be.  Both ways in implement it:          *)
(* PairingPump, which tells one end of an attempt for good, and            *)
(* PairingTrigger, where the dispatcher and the pairing task may each have *)
(* their say about an attempt that failed.                                 *)
(***************************************************************************)
CONSTANTS
  Attempts,
  Final      \* what is never taken back once it was told

VARIABLES
  shown,     \* attempts that showed a QR
  scanned,   \* attempts whose QR was scanned
  told       \* [Attempts -> {"waiting", "linked", "unrecorded", "over"}]

vars == <<shown, scanned, told>>

Init ==
  /\ shown = {} /\ scanned = {}
  /\ told = [a \in Attempts |-> "waiting"]

ShowQr(a) ==
  /\ a \notin scanned /\ shown' = shown \cup {a}
  /\ UNCHANGED <<scanned, told>>

Scan(a) ==
  /\ a \in shown \ scanned /\ scanned' = scanned \cup {a}
  /\ UNCHANGED <<shown, told>>

Tell(a, s) ==
  /\ told[a] \notin Final
  /\ s = "waiting" => a \in shown
  /\ s \in {"linked", "unrecorded"} => a \in scanned
  /\ told' = [told EXCEPT ![a] = s]
  /\ UNCHANGED <<shown, scanned>>

Next ==
  \E a \in Attempts :
    \/ ShowQr(a) \/ Scan(a)
    \/ \E s \in {"waiting", "linked", "unrecorded", "over"} : Tell(a, s)

Spec == Init /\ [][Next]_vars
=============================================================================
