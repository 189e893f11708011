---------------------------- MODULE OutboundQueue ----------------------------
(***************************************************************************)
(* Everything the plugin sends without being asked by a pending bridge     *)
(* handler: the four tools in the daemon (tool.rs, behind an allowlist and *)
(* a circuit breaker of each account), the same tools in the subprocess    *)
(* (subprocess_dispatch.rs, send_command), the pairing adapter's text and  *)
(* QR image (auto_discovery.rs), and core's own events.  All of them       *)
(* publish on an outbound topic; one dispatcher task for each account      *)
(* (dispatch.rs) takes the events in turn, and downloads, signals and      *)
(* sends.  None of these events finds a pending sender: that half of       *)
(* dispatch_event is ReplyBridge.                                          *)
(*                                                                         *)
(* External, modelled from its use: the broker, which hands an event to    *)
(* the topic's subscriber or to nobody; the breaker, which may open on a   *)
(* failure, closes on a success and lets callers try again after a while;  *)
(* the wa-agent session, whose calls return; and a media origin, which may *)
(* never answer.                                                           *)
(***************************************************************************)
EXTENDS Naturals, Sequences

CONSTANTS
  Calls,     \* one publication each
  Topics,    \* plugin.outbound.whatsapp[.account]
  Served,    \* topics that some plugin instance subscribes to
  Chats,
  OriginOf,  \* [Calls -> Origins]
  KindOf,    \* [Calls -> Kinds]
  TopicOf,   \* [Calls -> Topics]
  ToOf,      \* [Calls -> Chats]
  Allowlist, \* the agents' outbound_allowlist.whatsapp; {} allows every chat
  NoCall

Origins == {"tool", "subprocess", "pairing", "core"}
Kinds == {"text", "reply", "react", "media", "voice_note", "photo"}

ASSUME OutboundAssumption ==
  /\ Served \subseteq Topics
  /\ OriginOf \in [Calls -> Origins]
  /\ KindOf \in [Calls -> Kinds]
  /\ TopicOf \in [Calls -> Topics]
  /\ ToOf \in [Calls -> Chats]
  /\ NoCall \notin Calls
  /\ \A c \in Calls : KindOf[c] = "photo" => OriginOf[c] = "pairing"

VARIABLES
  pc,        \* [Calls -> CallStates]: what the caller was told
  breaker,   \* [Topics -> {"closed", "open"}]
  queue,     \* [Topics -> Seq(Calls)]: the dispatcher's subscription
  task,      \* [Topics -> TaskStates]: where the dispatcher is
  cur,       \* [Topics -> Calls or NoCall]: the event in dispatch_event
  stopping,  \* topics whose plugin cancelled its shutdown token
  outcome,   \* [Calls -> Outcomes]: what became of the event
  recording, \* chats whose phone shows "recording audio"
  unpaused,  \* chats for which the Paused stanza failed
  line       \* history, [Topics -> Seq(Calls)]: accepted and not settled

vars == <<pc, breaker, queue, task, cur, stopping, outcome, recording, unpaused, line>>

CallStates == {"idle", "publishing", "refused", "backoff", "ok", "failed"}
TaskStates == {"starting", "waiting", "fetching", "composing", "sending", "pausing", "gone"}
Outcomes == {"none", "lost", "rejected", "failed", "sent"}

Init ==
  /\ pc = [c \in Calls |-> "idle"]
  /\ breaker = [t \in Topics |-> "closed"]
  /\ queue = [t \in Topics |-> <<>>]
  /\ task = [t \in Topics |-> IF t \in Served THEN "starting" ELSE "gone"]
  /\ cur = [t \in Topics |-> NoCall]
  /\ stopping = {}
  /\ outcome = [c \in Calls |-> "none"]
  /\ recording = {} /\ unpaused = {}
  /\ line = [t \in Topics |-> <<>>]

dispatcherVars == <<task, cur, stopping, recording, unpaused>>
callerVars == <<pc, breaker>>
-----------------------------------------------------------------------------
(***************************************************************************)
(* The callers.                                                            *)
(***************************************************************************)
Told(c, from, to) == pc[c] = from /\ pc' = [pc EXCEPT ![c] = to]

\* The recipient and every entry of the list are compared by their digits.
Allowed(c) == OriginOf[c] = "tool" => Allowlist = {} \/ ToOf[c] \in Allowlist

\* Wrong: one breaker for all accounts.
TrippedAny(c) == OriginOf[c] = "tool" /\ \E t \in Topics : breaker[t] = "open"

\* publish_outbound asks the breaker of the agent's account; the others have none.
Tripped(c) == OriginOf[c] = "tool" /\ breaker[TopicOf[c]] = "open"

\* An argument is missing or empty, or the recipient is not on the list.
Refuse(c) ==
  /\ OriginOf[c] \in {"tool", "subprocess", "pairing"}
  /\ Told(c, "idle", "refused")
  /\ UNCHANGED <<breaker, queue, outcome, line, dispatcherVars>>

BackOff(c) ==
  /\ Allowed(c) /\ Tripped(c)
  /\ Told(c, "idle", "backoff")
  /\ UNCHANGED <<breaker, queue, outcome, line, dispatcherVars>>

\* The payload is built and handed to the broker, which answers later.
Begin(c) ==
  /\ Allowed(c) /\ ~Tripped(c)
  /\ Told(c, "idle", "publishing")
  /\ UNCHANGED <<breaker, queue, outcome, line, dispatcherVars>>

\* The broker accepts the event, whoever listens, and the caller is told ok.
PublishOk(c) ==
  LET t == TopicOf[c] IN
  /\ Told(c, "publishing", "ok")
  /\ IF task[t] \in {"starting", "gone"}
       THEN outcome' = [outcome EXCEPT ![c] = "lost"] /\ UNCHANGED <<queue, line>>
       ELSE /\ queue' = [queue EXCEPT ![t] = Append(@, c)]
            /\ line' = [line EXCEPT ![t] = Append(@, c)] /\ UNCHANGED outcome
  /\ breaker' = IF OriginOf[c] = "tool" THEN [breaker EXCEPT ![t] = "closed"] ELSE breaker
  /\ UNCHANGED dispatcherVars

PublishFail(c) ==
  /\ Told(c, "publishing", "failed")
  /\ \/ OriginOf[c] = "tool" /\ breaker' = [breaker EXCEPT ![TopicOf[c]] = "open"]
     \/ UNCHANGED breaker
  /\ UNCHANGED <<queue, outcome, line, dispatcherVars>>

\* The breaker lets callers try again.
Cool(t) ==
  /\ breaker[t] = "open" /\ breaker' = [breaker EXCEPT ![t] = "closed"]
  /\ UNCHANGED <<pc, queue, outcome, line, dispatcherVars>>
-----------------------------------------------------------------------------
(***************************************************************************)
(* The dispatcher.                                                         *)
(***************************************************************************)
Goto(t, from, to) == task[t] = from /\ task' = [task EXCEPT ![t] = to]
Settle(c, result) ==
  /\ outcome' = [outcome EXCEPT ![c] = result]
  /\ line' = [line EXCEPT ![TopicOf[c]] = IF @ # <<>> /\ Head(@) = c THEN Tail(@) ELSE @]
Release(t) == cur' = [cur EXCEPT ![t] = NoCall]

\* The spawned task subscribes; if that fails there is no dispatcher.
Subscribe(t) ==
  /\ Goto(t, "starting", "waiting") \/ Goto(t, "starting", "gone")
  /\ UNCHANGED <<queue, cur, stopping, outcome, line, recording, unpaused, callerVars>>

\* What dispatch_event does first with the kinds it knows.
FirstPhase(kind) ==
  CASE kind = "media" -> "fetching"
    [] kind = "voice_note" -> "composing"
    [] kind \in {"text", "reply", "react"} -> "sending"

\* Wrong: a text overtakes what waits for a download.
TakeTextFirst(t) ==
  /\ \E i \in DOMAIN queue[t] :
       LET c == queue[t][i] IN
       /\ KindOf[c] # "photo" /\ (i = 1 \/ KindOf[c] = "text")
       /\ Goto(t, "waiting", FirstPhase(KindOf[c]))
       /\ cur' = [cur EXCEPT ![t] = c]
       /\ queue' = [queue EXCEPT ![t] = SelectSeq(@, LAMBDA d : d # c)]
  /\ UNCHANGED <<stopping, outcome, line, recording, unpaused, callerVars>>

Take(t) ==
  /\ queue[t] # <<>> /\ KindOf[Head(queue[t])] # "photo"
  /\ Goto(t, "waiting", FirstPhase(KindOf[Head(queue[t])]))
  /\ cur' = [cur EXCEPT ![t] = Head(queue[t])]
  /\ queue' = [queue EXCEPT ![t] = Tail(@)]
  /\ UNCHANGED <<stopping, outcome, line, recording, unpaused, callerVars>>

\* A kind it does not know, or a payload of core's that lacks a field: the
\* error is logged.
Reject(t) ==
  /\ task[t] = "waiting" /\ queue[t] # <<>>
  /\ LET c == Head(queue[t]) IN
     (KindOf[c] = "photo" \/ OriginOf[c] = "core") /\ Settle(c, "rejected")
  /\ queue' = [queue EXCEPT ![t] = Tail(@)]
  /\ UNCHANGED <<task, cur, stopping, recording, unpaused, callerVars>>

\* download_from_url: the origin answered; an error or too long a body fails.
Fetched(t) ==
  /\ Goto(t, "fetching", "sending")
  /\ UNCHANGED <<queue, cur, stopping, outcome, line, recording, unpaused, callerVars>>

\* Wrong: an event whose download failed goes back to the end of the queue.
FetchFailRequeues(t) ==
  /\ Goto(t, "fetching", "waiting") /\ Release(t)
  /\ queue' = [queue EXCEPT ![t] = Append(@, cur[t])]
  /\ UNCHANGED <<stopping, outcome, line, recording, unpaused, callerVars>>

FetchFail(t) ==
  /\ Goto(t, "fetching", "waiting") /\ Settle(cur[t], "failed") /\ Release(t)
  /\ UNCHANGED <<queue, stopping, recording, unpaused, callerVars>>

\* Wrong: the download has no timeout.
FetchTimeoutNever(t) == FALSE /\ UNCHANGED vars

\* MEDIA_DOWNLOAD_TIMEOUT passes without an answer.
FetchTimeout(t) == FetchFail(t)

\* The recording indicator, whose failure is only logged.
Peer(c) == <<TopicOf[c], ToOf[c]>>

Compose(t) ==
  /\ Goto(t, "composing", "sending")
  /\ recording' \in {recording, recording \cup {Peer(cur[t])}}
  /\ UNCHANGED <<queue, cur, stopping, outcome, line, unpaused, callerVars>>

\* Wrong: a voice note that fails returns at once.
SendHasty(t) ==
  /\ Goto(t, "sending", "waiting") /\ Release(t)
  /\ \E result \in {"sent", "failed"} : Settle(cur[t], result)
  /\ UNCHANGED <<queue, stopping, recording, unpaused, callerVars>>

\* session.send_*: the error of a voice note is kept for after Paused.
Send(t) ==
  /\ task[t] = "sending"
  /\ IF KindOf[cur[t]] = "voice_note"
       THEN Goto(t, "sending", "pausing") /\ UNCHANGED cur
       ELSE Goto(t, "sending", "waiting") /\ Release(t)
  /\ \E result \in {"sent", "failed"} : Settle(cur[t], result)
  /\ UNCHANGED <<queue, stopping, recording, unpaused, callerVars>>

\* Paused ends the indicator, unless this fails too.
Pause(t) ==
  /\ Goto(t, "pausing", "waiting") /\ Release(t)
  /\ \/ /\ recording' = recording \ {Peer(cur[t])}
        /\ unpaused' = unpaused \ {Peer(cur[t])}
     \/ /\ unpaused' = unpaused \cup {Peer(cur[t])}
        /\ UNCHANGED recording
  /\ UNCHANGED <<queue, stopping, outcome, line, callerVars>>

\* stop cancels the token (it also clears the bridge's map and the registry,
\* which are not here); the loop sees it between two events only, even if stop
\* has given up waiting by then.
Stop(t) ==
  /\ t \in Served \ stopping /\ stopping' = stopping \cup {t}
  /\ UNCHANGED <<queue, task, cur, outcome, line, recording, unpaused, callerVars>>

Exit(t) ==
  /\ t \in stopping
  /\ Goto(t, "waiting", "gone")
  /\ UNCHANGED <<queue, cur, stopping, outcome, line, recording, unpaused, callerVars>>
-----------------------------------------------------------------------------
Caller(c) == Refuse(c) \/ BackOff(c) \/ Begin(c) \/ PublishOk(c) \/ PublishFail(c)
Dispatch(t) == \/ Subscribe(t) \/ Take(t) \/ Reject(t) \/ FetchTimeout(t)
               \/ Compose(t) \/ Send(t) \/ Pause(t) \/ Exit(t)

Next == \/ \E c \in Calls : Caller(c)
        \/ \E t \in Topics : \/ Dispatch(t) \/ Cool(t) \/ Stop(t)
                             \/ Fetched(t) \/ FetchFail(t)

\* The dispatcher's task runs and its timer fires; no origin need answer.
Fairness == \A t \in Served : WF_vars(Dispatch(t))
Spec == Init /\ [][Next]_vars /\ Fairness
-----------------------------------------------------------------------------
\* The variables have their types, and the dispatcher holds an event exactly
\* while it is in dispatch_event.
TypeOK ==
  /\ pc \in [Calls -> CallStates]
  /\ breaker \in [Topics -> {"closed", "open"}]
  /\ queue \in [Topics -> Seq(Calls)]
  /\ task \in [Topics -> TaskStates]
  /\ cur \in [Topics -> Calls \cup {NoCall}]
  /\ stopping \subseteq Served
  /\ outcome \in [Calls -> Outcomes]
  /\ recording \subseteq Topics \X Chats
  /\ unpaused \subseteq Topics \X Chats
  /\ line \in [Topics -> Seq(Calls)]
  /\ \A t \in Topics : cur[t] = NoCall <=> task[t] \in {"starting", "waiting", "gone"}

\* What waits on a topic: the event in dispatch_event, if it is not settled
\* yet, and the dispatcher's subscription behind it.
Waiting(t) ==
  IF task[t] \in {"fetching", "composing", "sending"} THEN <<cur[t]>> \o queue[t] ELSE queue[t]

Answered(c) ==
  CASE pc[c] = "ok" -> "accepted"
    [] pc[c] \in {"idle", "publishing"} -> "waiting"
    [] OTHER -> "declined"

Mailbox == INSTANCE AccountMailbox WITH
  told <- [c \in Calls |-> Answered(c)],
  line <- [t \in Topics |-> Waiting(t)],
  fate <- outcome

\* The dispatcher, its queue and the callers keep what AccountMailbox
\* promises: an acknowledged event is served once, from the head of its own
\* account's line, and never forgotten there, whatever failed before it.
MailboxSpec == Mailbox!Spec

\* One account's events are dealt with in the order they were accepted, a
\* slow download included: nothing is settled before what came first.
SettledInOrder ==
  [][\A t \in Topics : \A i \in 2..Len(line[t]) : outcome'[line[t][i]] = "none"]_vars

\* "Always emit the paused stanza": a phone shows "recording" only while its
\* voice note is being sent, or after a Paused that failed - whether the send
\* failed, and whether or not the plugin is stopping.
PausedAfterVoice ==
  \A p \in recording \ unpaused :
    \E t \in Topics : /\ task[t] \in {"sending", "pausing"}
                      /\ KindOf[cur[t]] = "voice_note" /\ Peer(cur[t]) = p

\* "A 429 from one number must not trip the breaker for another": a call is
\* told to back off only after a tool's publication for its own account failed.
BackOffHasCause ==
  \A c \in Calls : pc[c] = "backoff" =>
    \E d \in Calls : pc[d] = "failed" /\ OriginOf[d] = "tool" /\ TopicOf[d] = TopicOf[c]

\* An acknowledged event is settled, though an origin before it in the queue
\* never answers, unless the plugin stops.
AcceptedSettles ==
  \A c \in Calls : pc[c] = "ok" ~> outcome[c] # "none" \/ task[TopicOf[c]] = "gone"
=============================================================================
