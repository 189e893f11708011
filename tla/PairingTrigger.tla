--------------------------- MODULE PairingTrigger ---------------------------
(***************************************************************************)
(* Pairing inside the daemon (pairing_trigger.rs): start wipes the Signal  *)
(* session and spawns a task that runs pair_with_callback under a select!  *)
(* with the challenge's token.  Every QR, and the one result, is written   *)
(* to the challenge store and then pushed to the operator's screen.  The   *)
(* error arm reads the challenge's state, and writes it back with an       *)
(* error: two calls of the store, between which others may write.  Every   *)
(* call of the store may fail; an update's error is ignored, a read's      *)
(* counts as Pending, and the push follows in any case.                    *)
(*                                                                         *)
(* External, modelled from its use: the store, whose update_qr moves       *)
(* Pending to QrReady and leaves a closed challenge alone and whose        *)
(* update_state writes unconditionally (the one of the tests does), unless *)
(* they fail; the notifier, taken as present, for screen is what it was    *)
(* given; the dispatcher, which closes a challenge on pairing/cancel or at *)
(* its deadline, tells the operator and then cancels the token; and        *)
(* wa-agent, which calls on_qr from within connect.                        *)
(***************************************************************************)
EXTENDS Naturals

CONSTANTS
  Challenges,  \* challenge ids, one start each
  Dirs,        \* session directories
  DirOf,       \* [Challenges -> Dirs]: resolve_session_dir of its instance
  MaxQr,       \* bound: QR rotations of one challenge
  NoOne

ASSUME TriggerAssumption ==
  /\ DirOf \in [Challenges -> Dirs]
  /\ MaxQr \in Nat
  /\ NoOne \notin Challenges

VARIABLES
  phase,   \* [Challenges -> Phases]: where start, and then its task, is
  client,  \* [Challenges -> Clients]: its wa-agent client, then the result
  fired,   \* [Challenges -> Nat]: QRs shown; qr_fired is fired > 0
  store,   \* [Challenges -> Statuses]: the challenge store
  screen,  \* [Challenges -> Statuses]: the last status pushed
  closed,  \* challenges the dispatcher closed
  token,   \* challenges whose token is cancelled
  seen,    \* [Challenges -> States]: what the error arm read
  creds,   \* [Dirs -> Challenges or NoOne]: whose scan wrote .whatsapp-rs
  bound,   \* challenges whose QR was scanned
  unread,  \* those whose state the error arm could not read
  unwritten  \* those whose result update_state did not take

vars == <<phase, client, fired, store, screen, closed, token, seen, creds, bound, unread,
          unwritten>>

Phases == {"idle", "wipe", "select", "qr", "verdict", "stamp", "notify", "done"}
Clients == {"none", "fresh", "resumed", "ok", "error"}
States == {"Pending", "QrReady", "Linked", "Expired", "Cancelled"}
Statuses == [state : States, error : BOOLEAN]
Status(s, e) == [state |-> s, error |-> e]

Init ==
  /\ phase = [c \in Challenges |-> "idle"]
  /\ client = [c \in Challenges |-> "none"]
  /\ fired = [c \in Challenges |-> 0]
  /\ store = [c \in Challenges |-> Status("Pending", FALSE)]
  /\ screen = [c \in Challenges |-> Status("Pending", FALSE)]
  /\ closed = {}
  /\ token = {}
  /\ seen = [c \in Challenges |-> "Pending"]
  /\ creds = [d \in Dirs |-> NoOne]
  /\ bound = {}
  /\ unread = {}
  /\ unwritten = {}

Move(c, from, to) == phase[c] = from /\ phase' = [phase EXCEPT ![c] = to]
-----------------------------------------------------------------------------
(***************************************************************************)
(* start.  An instance that does not resolve changes nothing.              *)
(***************************************************************************)
Start(c) ==
  /\ Move(c, "idle", "wipe")
  /\ UNCHANGED <<client, fired, store, screen, closed, token, seen, creds, bound, unread, unwritten>>

\* remove_dir_all, whose error is only logged; then spawn the task.
Wipe(c) ==
  /\ Move(c, "wipe", "select")
  /\ creds' \in {creds, [creds EXCEPT ![DirOf[c]] = NoOne]}
  /\ UNCHANGED <<client, fired, store, screen, closed, token, seen, bound, unread, unwritten>>
-----------------------------------------------------------------------------
(***************************************************************************)
(* pair_with_callback and wa-agent.                                        *)
(***************************************************************************)
\* Client::new_in_dir: what it finds on disk.
LoadClient(c) ==
  /\ phase[c] = "select" /\ client[c] = "none"
  /\ client' = [client EXCEPT ![c] = IF creds[DirOf[c]] = NoOne THEN "fresh" ELSE "resumed"]
  /\ UNCHANGED <<phase, fired, store, screen, closed, token, seen, creds, bound, unread, unwritten>>

\* on_qr: note it and have the store updated, which may fail ...
OnQr(c) ==
  /\ client[c] = "fresh" /\ c \notin bound /\ fired[c] < MaxQr
  /\ Move(c, "select", "qr")
  /\ fired' = [fired EXCEPT ![c] = @ + 1]
  /\ store' \in {store, [store EXCEPT ![c] =
                   IF @.state \in {"Pending", "QrReady"} THEN Status("QrReady", FALSE) ELSE @]}
  /\ UNCHANGED <<client, screen, closed, token, seen, creds, bound, unread, unwritten>>

\* Wrong: the push is a task of its own and may come late.
PushQrLate(c) ==
  /\ phase[c] \in {"qr", "done"} /\ fired[c] > 0
  /\ phase' = [phase EXCEPT ![c] = IF @ = "qr" THEN "select" ELSE @]
  /\ screen' = [screen EXCEPT ![c] = Status("QrReady", FALSE)]
  /\ UNCHANGED <<client, fired, store, closed, token, seen, creds, bound, unread, unwritten>>

\* ... and push QrReady.
PushQr(c) ==
  /\ Move(c, "qr", "select")
  /\ screen' = [screen EXCEPT ![c] = Status("QrReady", FALSE)]
  /\ UNCHANGED <<client, fired, store, closed, token, seen, creds, bound, unread, unwritten>>

\* The phone scans the QR and the client writes its credentials.
Scan(c) ==
  /\ phase[c] = "select" /\ client[c] = "fresh" /\ fired[c] > 0 /\ c \notin bound
  /\ bound' = bound \cup {c}
  /\ creds' = [creds EXCEPT ![DirOf[c]] = c]
  /\ UNCHANGED <<phase, client, fired, store, screen, closed, token, seen, unread, unwritten>>

ConnectOk(c) ==
  /\ client[c] = "resumed" \/ (client[c] = "fresh" /\ c \in bound)
  /\ Move(c, "select", "verdict")
  /\ client' = [client EXCEPT ![c] = "ok"]
  /\ UNCHANGED <<fired, store, screen, closed, token, seen, creds, bound, unread, unwritten>>

ConnectFail(c) ==
  /\ Move(c, "select", "verdict")
  /\ client' = [client EXCEPT ![c] = "error"]
  /\ UNCHANGED <<fired, store, screen, closed, token, seen, creds, bound, unread, unwritten>>
-----------------------------------------------------------------------------
(***************************************************************************)
(* The task: the token's arm, and the three arms of the result.            *)
(***************************************************************************)
\* Wrong: the token is not a branch of the select.
TakeCancelNever(c) == c \in token /\ phase[c] = "idle" /\ UNCHANGED vars

\* The select takes the cancellation: nothing is written.
TakeCancel(c) ==
  /\ c \in token
  /\ Move(c, "select", "done")
  /\ UNCHANGED <<client, fired, store, screen, closed, token, seen, creds, bound, unread, unwritten>>

\* Ok is Linked, or Expired with an error when no QR was ever shown; Err is
\* the state that was read, with the error.
Result(c) ==
  IF client[c] = "error" THEN Status(seen[c], TRUE)
  ELSE IF fired[c] = 0 THEN Status("Expired", TRUE) ELSE Status("Linked", FALSE)

\* update_state, whose error is ignored: the store takes the result or not.
Update(c, s) ==
  \/ store' = [store EXCEPT ![c] = s] /\ UNCHANGED unwritten
  \/ unwritten' = unwritten \cup {c} /\ UNCHANGED store

\* Wrong: every Ok is a link.
WriteOkTrusting(c) ==
  /\ client[c] = "ok"
  /\ Move(c, "verdict", "notify")
  /\ Update(c, Status("Linked", FALSE))
  /\ UNCHANGED <<client, fired, screen, closed, token, seen, creds, bound, unread>>

\* Ok: write it, if the store takes it.
WriteOk(c) ==
  /\ client[c] = "ok"
  /\ Move(c, "verdict", "notify")
  /\ Update(c, Result(c))
  /\ UNCHANGED <<client, fired, screen, closed, token, seen, creds, bound, unread>>

\* Err: read the challenge's state; one that cannot be read, or is missing, is
\* taken for Pending ...
ReadState(c) ==
  /\ client[c] = "error"
  /\ Move(c, "verdict", "stamp")
  /\ \/ seen' = [seen EXCEPT ![c] = store[c].state] /\ UNCHANGED unread
     \/ seen' = [seen EXCEPT ![c] = "Pending"] /\ unread' = unread \cup {c}
  /\ UNCHANGED <<client, fired, store, screen, closed, token, creds, bound, unwritten>>

\* Wrong: the error is stamped and nobody told.
StampSilently(c) ==
  /\ Move(c, "stamp", "done")
  /\ Update(c, Status(seen[c], TRUE))
  /\ UNCHANGED <<client, fired, screen, closed, token, seen, creds, bound, unread>>

\* ... and write it back with the error, if the store takes it.
Stamp(c) ==
  /\ Move(c, "stamp", "notify")
  /\ Update(c, Result(c))
  /\ UNCHANGED <<client, fired, screen, closed, token, seen, creds, bound, unread>>

\* Push what was to be written, not what the store holds by now.
Push(c) ==
  /\ Move(c, "notify", "done")
  /\ screen' = [screen EXCEPT ![c] = Result(c)]
  /\ UNCHANGED <<client, fired, store, closed, token, seen, creds, bound, unread, unwritten>>
-----------------------------------------------------------------------------
(***************************************************************************)
(* The dispatcher (external).                                              *)
(***************************************************************************)
\* pairing/cancel or the deadline: close an open challenge, tell the operator ...
Close(c) ==
  /\ store[c].state \in {"Pending", "QrReady"} /\ c \notin closed
  /\ \E s \in {"Cancelled", "Expired"} :
       /\ store' = [store EXCEPT ![c] = Status(s, FALSE)]
       /\ screen' = [screen EXCEPT ![c] = Status(s, FALSE)]
  /\ closed' = closed \cup {c}
  /\ UNCHANGED <<phase, client, fired, token, seen, creds, bound, unread, unwritten>>

\* ... and cancel the token.
CancelToken(c) ==
  /\ c \in closed \ token
  /\ token' = token \cup {c}
  /\ UNCHANGED <<phase, client, fired, store, screen, closed, seen, creds, bound, unread, unwritten>>
-----------------------------------------------------------------------------
Wa(c) == LoadClient(c) \/ OnQr(c) \/ Scan(c) \/ ConnectOk(c) \/ ConnectFail(c)
Task(c) == \/ PushQr(c) \/ TakeCancel(c) \/ WriteOk(c) \/ ReadState(c)
           \/ Stamp(c) \/ Push(c)
Dispatcher(c) == Close(c) \/ CancelToken(c)

Next == \E c \in Challenges : Start(c) \/ Wipe(c) \/ Wa(c) \/ Task(c) \/ Dispatcher(c)

\* A request that came is served and its task runs; wa-agent may keep
\* connect waiting for ever, and nobody need cancel.
Fairness == \A c \in Challenges : WF_vars(Wipe(c)) /\ WF_vars(Task(c))
Spec == Init /\ [][Next]_vars /\ Fairness
-----------------------------------------------------------------------------
\* The variables have their types.
TypeOK ==
  /\ phase \in [Challenges -> Phases]
  /\ client \in [Challenges -> Clients]
  /\ fired \in [Challenges -> 0..MaxQr]
  /\ store \in [Challenges -> Statuses]
  /\ screen \in [Challenges -> Statuses]
  /\ closed \subseteq Challenges
  /\ token \subseteq Challenges
  /\ seen \in [Challenges -> States]
  /\ creds \in [Dirs -> Challenges \cup {NoOne}]
  /\ bound \subseteq Challenges
  /\ unread \subseteq Challenges
  /\ unwritten \subseteq Challenges

\* Neither the store nor the screen ever says Linked of a challenge whose own
\* QR was not scanned: a client that resumed from credentials the wipe left,
\* or that another challenge of the directory wrote, is not a link.
LinkedIsScanned ==
  \A c \in Challenges :
    store[c].state = "Linked" \/ screen[c].state = "Linked" => c \in bound

\* The operator is told the end: the task of a challenge that nobody closed
\* leaves a link or an error on the screen, and the store has the same unless
\* it failed to take just that.
EndIsTold ==
  \A c \in Challenges : phase[c] = "done" /\ c \notin closed =>
    /\ screen[c].state = "Linked" \/ screen[c].error
    /\ store[c] = screen[c] \/ c \in unwritten

\* What the screen says of an attempt.  A link that the store did not take is
\* open there, and may still be closed.
OnScreen(c) ==
  IF screen[c].error \/ screen[c].state \in {"Expired", "Cancelled"} THEN "over"
  ELSE IF screen[c].state # "Linked" THEN "waiting"
  ELSE IF c \in unwritten THEN "unrecorded" ELSE "linked"

Promise == INSTANCE PairingPromise WITH
  Attempts <- Challenges,
  Final <- {"linked"},
  shown <- {c \in Challenges : fired[c] > 0},
  scanned <- bound,
  told <- [c \in Challenges |-> OnScreen(c)]

\* Whatever the dispatcher closes and whenever the task reports, the screen
\* says linked only after a scan of the challenge's own QR, and once it does
\* and the store has it, no late QR, close or error replaces it.
PromiseSpec == Promise!Spec

\* A cancelled task ends, even when wa-agent never returns from connect.
CancelEnds == \A c \in Challenges : c \in token /\ phase[c] # "idle" ~> phase[c] = "done"
-----------------------------------------------------------------------------
\* A claim that does not hold.  The error arm re-reads the state "so we don't
\* accidentally downgrade": its write would leave the state as it is.  It does
\* not when the challenge is closed between the read and the write, nor when
\* the read fails, which the code takes for Pending.
StampKeepsState ==
  [][\A c \in Challenges : phase[c] = "stamp" /\ phase'[c] # "stamp" =>
       store'[c].state = store[c].state]_vars
=============================================================================
