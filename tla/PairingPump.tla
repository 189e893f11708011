---------------------------- MODULE PairingPump ----------------------------
(***************************************************************************)
(* Pairing over admin RPC (pairing_admin.rs): pairing_start wipes the      *)
(* Signal session directory, replaces the challenge's pump and registers   *)
(* the new one; pairing_cancel takes the entry out and cancels it; every   *)
(* pump is a task that runs wa-agent's pair_with_callback under a select!  *)
(* with its cancellation token, forwards QR rotations through a publisher  *)
(* task, publishes one terminal state and removes the registry entry.      *)
(*                                                                         *)
(* Admin requests come one at a time (main.rs, spawn_one awaits each       *)
(* handler); the pumps run beside them on other threads, so spawning a     *)
(* pump and registering it are two actions, as are a pump's end and the    *)
(* removal of its entry.  A request that does not parse or resolve, and a  *)
(* cancel of an unknown challenge, change nothing and have no action.      *)
(*                                                                         *)
(* External, modelled from its use: wa-agent's Client resumes silently     *)
(* from credentials it finds, or shows QRs until one is scanned and then   *)
(* writes credentials; connect may fail at any moment.                     *)
(***************************************************************************)
EXTENDS Naturals

CONSTANTS
  Challenges,  \* challenge ids
  Dirs,        \* session directories
  DirOf,       \* [Challenges -> Dirs]: resolve_session_dir of its instance
  MaxPumps,    \* bound: pumps started
  MaxQr,       \* bound: QR rotations of one pump
  NoChallenge

ASSUME PumpAssumption ==
  /\ DirOf \in [Challenges -> Dirs]
  /\ MaxPumps \in Nat /\ MaxQr \in Nat
  /\ NoChallenge \notin Challenges

Pumps == 1..MaxPumps
NoPump == 0

VARIABLES
  admin,       \* the admin subscriber task: [at, c]
  started,     \* how many pumps were spawned; the newest has this number
  challenge,   \* [Pumps -> Challenges or NoChallenge]
  registry,    \* [Challenges -> Pumps or NoPump]: pumps()
  cancelled,   \* [Pumps -> BOOLEAN]: its CancellationToken
  stage,       \* [Pumps -> Stages]: where its task is
  client,      \* [Pumps -> Clients]: its wa-agent client, then the result
  fired,       \* [Pumps -> Nat]: QRs put into the mpsc; qr_fired is fired > 0
  forwarded,   \* [Pumps -> Nat]: QRs its publisher took out of it
  publisher,   \* [Pumps -> Publishers]: its QR publisher task
  verdict,     \* [Pumps -> Verdicts]: the terminal state it published
  creds,       \* [Dirs -> Pumps or NoPump]: whose scan wrote .whatsapp-rs
  bound        \* pumps whose QR was scanned

vars == <<admin, started, challenge, registry, cancelled, stage, client, fired,
          forwarded, publisher, verdict, creds, bound>>
qrVars == <<fired, forwarded>>
adminVars == <<admin, started, challenge>>

\* The admin task between requests, or where it is in pairing_start.
AdminStates == [at : {"idle"}, c : {NoChallenge}]
               \cup [at : {"wipe", "spawn", "insert"}, c : Challenges]
AdminIdle == [at |-> "idle", c |-> NoChallenge]
Stages == {"unborn", "select", "drain", "report", "unregister", "done"}
Clients == {"none", "fresh", "resumed", "ok", "error"}
Publishers == {"off", "running", "aborted", "gone"}
Verdicts == {"none", "linked", "resumed", "failed"}

DirOfPump(p) == DirOf[challenge[p]]

Init ==
  /\ admin = AdminIdle
  /\ started = 0
  /\ challenge = [p \in Pumps |-> NoChallenge]
  /\ registry = [c \in Challenges |-> NoPump]
  /\ cancelled = [p \in Pumps |-> FALSE]
  /\ stage = [p \in Pumps |-> "unborn"]
  /\ client = [p \in Pumps |-> "none"]
  /\ fired = [p \in Pumps |-> 0]
  /\ forwarded = [p \in Pumps |-> 0]
  /\ publisher = [p \in Pumps |-> "off"]
  /\ verdict = [p \in Pumps |-> "none"]
  /\ creds = [d \in Dirs |-> NoPump]
  /\ bound = {}
-----------------------------------------------------------------------------
(***************************************************************************)
(* The admin task: pairing_start in four steps, pairing_cancel in one.     *)
(***************************************************************************)
Start(c) ==
  /\ admin.at = "idle" /\ started < MaxPumps
  /\ admin' = [at |-> "wipe", c |-> c]
  /\ UNCHANGED <<started, challenge, registry, cancelled, stage, client, publisher,
                 verdict, creds, bound>>
  /\ UNCHANGED qrVars

\* remove_dir_all of .whatsapp-rs; an error is logged and ignored.
Wipe ==
  /\ admin.at = "wipe"
  /\ admin' = [at |-> "spawn", c |-> admin.c]
  /\ creds' \in {creds, [creds EXCEPT ![DirOf[admin.c]] = NoPump]}
  /\ UNCHANGED <<started, challenge, registry, cancelled, stage, client, publisher,
                 verdict, bound>>
  /\ UNCHANGED qrVars

\* Wrong: the prior pump's entry is dropped without cancelling it.
SpawnKeepsPrior ==
  /\ admin.at = "spawn"
  /\ admin' = [at |-> "insert", c |-> admin.c]
  /\ started' = started + 1
  /\ challenge' = [challenge EXCEPT ![started + 1] = admin.c]
  /\ stage' = [stage EXCEPT ![started + 1] = "select"]
  /\ publisher' = [publisher EXCEPT ![started + 1] = "running"]
  /\ registry' = [registry EXCEPT ![admin.c] = NoPump]
  /\ UNCHANGED <<cancelled, client, verdict, creds, bound>> /\ UNCHANGED qrVars

\* Take out and cancel the challenge's prior pump, spawn the new one.
Spawn ==
  /\ admin.at = "spawn"
  /\ admin' = [at |-> "insert", c |-> admin.c]
  /\ started' = started + 1
  /\ challenge' = [challenge EXCEPT ![started + 1] = admin.c]
  /\ stage' = [stage EXCEPT ![started + 1] = "select"]
  /\ publisher' = [publisher EXCEPT ![started + 1] = "running"]
  /\ cancelled' = [p \in Pumps |-> cancelled[p] \/ p = registry[admin.c]]
  /\ registry' = [registry EXCEPT ![admin.c] = NoPump]
  /\ UNCHANGED <<client, verdict, creds, bound>> /\ UNCHANGED qrVars

\* Register the new pump, which already runs, and answer ok.
Insert ==
  /\ admin.at = "insert"
  /\ admin' = AdminIdle
  /\ registry' = [registry EXCEPT ![admin.c] = started]
  /\ UNCHANGED <<started, challenge, cancelled, stage, client, publisher, verdict,
                 creds, bound>>
  /\ UNCHANGED qrVars

\* pairing_cancel of a challenge that has an entry.
Cancel(c) ==
  /\ admin.at = "idle" /\ registry[c] # NoPump
  /\ cancelled' = [cancelled EXCEPT ![registry[c]] = TRUE]
  /\ registry' = [registry EXCEPT ![c] = NoPump]
  /\ UNCHANGED <<stage, client, publisher, verdict, creds, bound>>
  /\ UNCHANGED adminVars /\ UNCHANGED qrVars
-----------------------------------------------------------------------------
(***************************************************************************)
(* pair_with_callback and wa-agent, while the pump is in its select.       *)
(***************************************************************************)
Connecting(p) ==
  /\ stage[p] = "select"
  /\ UNCHANGED <<registry, cancelled, verdict>> /\ UNCHANGED adminVars

\* Client::new_in_dir and the start of connect: what it finds on disk.
LoadClient(p) ==
  /\ Connecting(p) /\ client[p] = "none"
  /\ client' = [client EXCEPT ![p] =
                  IF creds[DirOfPump(p)] = NoPump THEN "fresh" ELSE "resumed"]
  /\ UNCHANGED <<stage, publisher, creds, bound>> /\ UNCHANGED qrVars

\* on_qr: note that a QR was shown, put it into the unbounded mpsc.
FireQr(p) ==
  /\ Connecting(p) /\ client[p] = "fresh" /\ p \notin bound /\ fired[p] < MaxQr
  /\ fired' = [fired EXCEPT ![p] = @ + 1]
  /\ UNCHANGED <<stage, client, forwarded, publisher, creds, bound>>

\* The phone scans the QR and the client writes its credentials.
Scan(p) ==
  /\ Connecting(p) /\ client[p] = "fresh" /\ fired[p] > 0 /\ p \notin bound
  /\ bound' = bound \cup {p}
  /\ creds' = [creds EXCEPT ![DirOfPump(p)] = p]
  /\ UNCHANGED <<stage, client, publisher>> /\ UNCHANGED qrVars

\* The select takes the result of pair_with_callback.
ConnectOk(p) ==
  /\ Connecting(p)
  /\ client[p] = "resumed" \/ (client[p] = "fresh" /\ p \in bound)
  /\ client' = [client EXCEPT ![p] = "ok"]
  /\ stage' = [stage EXCEPT ![p] = "drain"]
  /\ UNCHANGED <<publisher, creds, bound>> /\ UNCHANGED qrVars

ConnectFail(p) ==
  /\ Connecting(p)
  /\ client' = [client EXCEPT ![p] = "error"]
  /\ stage' = [stage EXCEPT ![p] = "drain"]
  /\ UNCHANGED <<publisher, creds, bound>> /\ UNCHANGED qrVars
-----------------------------------------------------------------------------
(***************************************************************************)
(* The rest of the pump task, and its QR publisher.                        *)
(***************************************************************************)
Abort(p) == publisher' = [publisher EXCEPT ![p] = IF @ = "running" THEN "aborted" ELSE @]

\* Wrong: the token is not a branch of the select.
TakeCancelNever(p) == cancelled[p] /\ stage[p] = "unborn" /\ UNCHANGED vars

\* The select takes the cancellation: no terminal state is published.
TakeCancel(p) ==
  /\ stage[p] = "select" /\ cancelled[p]
  /\ stage' = [stage EXCEPT ![p] = "unregister"]
  /\ Abort(p)
  /\ UNCHANGED <<registry, cancelled, client, verdict, creds, bound>>
  /\ UNCHANGED adminVars /\ UNCHANGED qrVars

\* yield_now, then abort the publisher.
Drain(p) ==
  /\ stage[p] = "drain"
  /\ stage' = [stage EXCEPT ![p] = "report"]
  /\ Abort(p)
  /\ UNCHANGED <<registry, cancelled, client, verdict, creds, bound>>
  /\ UNCHANGED adminVars /\ UNCHANGED qrVars

\* Wrong: the arm for Ok without a QR is missing.
ReportTrusting(p) ==
  /\ stage[p] = "report"
  /\ stage' = [stage EXCEPT ![p] = "unregister"]
  /\ verdict' = [verdict EXCEPT ![p] = IF client[p] = "error" THEN "failed" ELSE "linked"]
  /\ UNCHANGED <<registry, cancelled, client, publisher, creds, bound>>
  /\ UNCHANGED adminVars /\ UNCHANGED qrVars

\* Wrong: only the two Ok arms publish.
ReportOkOnly(p) ==
  /\ stage[p] = "report"
  /\ stage' = [stage EXCEPT ![p] = "unregister"]
  /\ verdict' = [verdict EXCEPT ![p] =
       IF client[p] = "error" THEN "none"
       ELSE IF fired[p] = 0 THEN "resumed" ELSE "linked"]
  /\ UNCHANGED <<registry, cancelled, client, publisher, creds, bound>>
  /\ UNCHANGED adminVars /\ UNCHANGED qrVars

\* Publish the one terminal state: "expired" for an error and for a connect
\* that resumed without a QR, else "linked".  A broker error is only logged.
Report(p) ==
  /\ stage[p] = "report"
  /\ stage' = [stage EXCEPT ![p] = "unregister"]
  /\ verdict' = [verdict EXCEPT ![p] =
       IF client[p] = "error" THEN "failed"
       ELSE IF fired[p] = 0 THEN "resumed" ELSE "linked"]
  /\ UNCHANGED <<registry, cancelled, client, publisher, creds, bound>>
  /\ UNCHANGED adminVars /\ UNCHANGED qrVars

\* Wrong: whoever was cancelled is reported as failed at the end.
UnregisterTells(p) ==
  /\ stage[p] = "unregister"
  /\ stage' = [stage EXCEPT ![p] = "done"]
  /\ registry' = [registry EXCEPT ![challenge[p]] = NoPump]
  /\ verdict' = [verdict EXCEPT ![p] = IF cancelled[p] THEN "failed" ELSE @]
  /\ UNCHANGED <<cancelled, client, publisher, creds, bound>>
  /\ UNCHANGED adminVars /\ UNCHANGED qrVars

\* pumps().remove(&challenge_id): by key, whoever's entry is there.
Unregister(p) ==
  /\ stage[p] = "unregister"
  /\ stage' = [stage EXCEPT ![p] = "done"]
  /\ registry' = [registry EXCEPT ![challenge[p]] = NoPump]
  /\ UNCHANGED <<cancelled, client, publisher, verdict, creds, bound>>
  /\ UNCHANGED adminVars /\ UNCHANGED qrVars

\* The publisher takes a QR and publishes it; abort takes effect only when
\* the runtime gets to it, so an aborted publisher may still do this.
Forward(p) ==
  /\ publisher[p] \in {"running", "aborted"} /\ forwarded[p] < fired[p]
  /\ forwarded' = [forwarded EXCEPT ![p] = @ + 1]
  /\ UNCHANGED <<registry, cancelled, stage, client, fired, publisher, verdict, creds,
                 bound>>
  /\ UNCHANGED adminVars

\* Wrong: the publisher ends when it finds the channel empty.
PublisherEndsWhenEmpty(p) ==
  /\ publisher[p] \in {"running", "aborted"}
  /\ publisher[p] = "aborted" \/ forwarded[p] = fired[p]
  /\ publisher' = [publisher EXCEPT ![p] = "gone"]
  /\ UNCHANGED <<registry, cancelled, stage, client, verdict, creds, bound>>
  /\ UNCHANGED adminVars /\ UNCHANGED qrVars

\* The abort takes effect, or the channel is closed and empty.
PublisherEnds(p) ==
  /\ \/ publisher[p] = "aborted"
     \/ publisher[p] = "running" /\ stage[p] # "select" /\ forwarded[p] = fired[p]
  /\ publisher' = [publisher EXCEPT ![p] = "gone"]
  /\ UNCHANGED <<registry, cancelled, stage, client, verdict, creds, bound>>
  /\ UNCHANGED adminVars /\ UNCHANGED qrVars
-----------------------------------------------------------------------------
Admin == (\E c \in Challenges : Start(c) \/ Cancel(c)) \/ Wipe \/ Spawn \/ Insert
Wa(p) == LoadClient(p) \/ FireQr(p) \/ Scan(p) \/ ConnectOk(p) \/ ConnectFail(p)
Task(p) == TakeCancel(p) \/ Drain(p) \/ Report(p) \/ Unregister(p)
Publisher(p) == Forward(p) \/ PublisherEnds(p)

Next == Admin \/ \E p \in Pumps : Wa(p) \/ Task(p) \/ Publisher(p)

\* The pump and publisher tasks are scheduled; wa-agent may keep connect waiting for ever,
\* and admin requests need not come.
Fairness == \A p \in Pumps : WF_vars(Task(p)) /\ WF_vars(Publisher(p))
Spec == Init /\ [][Next]_vars /\ Fairness
-----------------------------------------------------------------------------
\* The variables have their types.
TypeOK ==
  /\ admin \in AdminStates
  /\ started \in 0..MaxPumps
  /\ challenge \in [Pumps -> Challenges \cup {NoChallenge}]
  /\ registry \in [Challenges -> Pumps \cup {NoPump}]
  /\ cancelled \in [Pumps -> BOOLEAN]
  /\ stage \in [Pumps -> Stages]
  /\ client \in [Pumps -> Clients]
  /\ fired \in [Pumps -> 0..MaxQr]
  /\ forwarded \in [Pumps -> 0..MaxQr]
  /\ publisher \in [Pumps -> Publishers]
  /\ verdict \in [Pumps -> Verdicts]
  /\ creds \in [Dirs -> Pumps \cup {NoPump}]
  /\ bound \subseteq Pumps

\* A pump that still pairs and that nobody cancelled.
Live(p) == stage[p] = "select" /\ ~cancelled[p]
Registered(p) == registry[challenge[p]] = p \/ (admin.at = "insert" /\ p = started)

\* A live pump that pairing_cancel cannot find is one whose challenge was
\* started before, by a pump that has ended since: with fresh challenge ids
\* every live pump can be cancelled, whatever order tasks and requests take.
OnlyRestartsOrphan ==
  \A p \in Pumps : Live(p) /\ ~Registered(p) =>
    \E q \in Pumps : q < p /\ challenge[q] = challenge[p] /\ stage[q] = "done"

\* "linked" is published only by a pump whose own QR was scanned, and its
\* credentials stay on disk until another request pairs the same directory;
\* "session_resumed_without_qr" only by one that bound no device itself.
LinkHolds ==
  \A p \in Pumps :
    /\ verdict[p] = "linked" =>
         /\ p \in bound
         /\ creds[DirOfPump(p)] # p =>
              \/ \E q \in Pumps \ {p} : q <= started /\ DirOfPump(q) = DirOfPump(p)
              \/ admin.at = "spawn" /\ DirOf[admin.c] = DirOfPump(p)
    /\ verdict[p] = "resumed" => p \notin bound

\* A pump that ends without a terminal state was cancelled: otherwise the
\* operator's screen would wait for ever on a pump that is gone.
NoSilentEnd ==
  \A p \in Pumps : stage[p] = "done" /\ verdict[p] = "none" => cancelled[p]

TerminalState(p) ==
  CASE verdict[p] = "none" -> "waiting" [] verdict[p] = "linked" -> "linked" [] OTHER -> "over"

Promise == INSTANCE PairingPromise WITH
  Attempts <- Pumps,
  Final <- {"linked", "over"},
  shown <- {p \in Pumps : fired[p] > 0},
  scanned <- bound,
  told <- [p \in Pumps |-> TerminalState(p)]

\* However starts, cancels, rotations and failures interleave, a pump tells
\* one end, for good, and a link only of its own scanned QR.
PromiseSpec == Promise!Spec

\* While a pump pairs, every QR that wa-agent rotates in is published: the
\* operator is never left with an expired one.
QrReachesOperator ==
  \A p \in Pumps :
    stage[p] = "select" /\ forwarded[p] < fired[p] ~>
      forwarded[p] = fired[p] \/ stage[p] # "select"

\* A cancelled pump ends, even when wa-agent never returns from connect.
CancelStops == \A p \in Pumps : cancelled[p] ~> stage[p] = "done"
-----------------------------------------------------------------------------
\* A claim of pairing_admin.rs that does not hold: the entry "survives the
\* duration of one pairing handshake", so a live pump can be cancelled.
LiveIsRegistered == \A p \in Pumps : Live(p) => Registered(p)
=============================================================================
