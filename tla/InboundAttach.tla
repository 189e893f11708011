--------------------------- MODULE InboundAttach ---------------------------
(***************************************************************************)
(* What the bridge attaches to an incoming message: the file of its media  *)
(* (media.rs, download_inbound_to_disk; bridge.rs, build_handler) and the  *)
(* id of the question it quotes (the index that dispatch.rs fills after it *)
(* sent a question).                                                       *)
(*                                                                         *)
(* Audio is downloaded inside the handler, before the Message event; other *)
(* media by a sibling task, which then publishes MediaReceived.  WhatsApp  *)
(* delivers a message again after a reconnect, so two downloads of one     *)
(* message id may run at once, through one temporary name.  The file       *)
(* system is what they share: a name leads to a file, a file is named by   *)
(* the delivery that created it, opening an existing file truncates it,    *)
(* and a writer keeps its file when the name moves.                        *)
(*                                                                         *)
(* External: deliveries, downloads, file system errors; the user, who may  *)
(* quote a question as soon as it is on the wire, before send_text has     *)
(* returned; send_text, which may fail after the question left.            *)
(***************************************************************************)
EXTENDS Naturals, FiniteSets

CONSTANTS
  Deliveries,   \* calls of the handler
  Messages,     \* message ids
  Questions,    \* questions the core asks
  MessageOf,    \* [Deliveries -> Messages]
  KindOf,       \* [Deliveries -> Kinds]
  QuoteOf,      \* [Deliveries -> Questions \cup {None}]
  Marked,       \* deliveries whose own text carries a question id
  None

Kinds == {"audio", "image", "text"}

ASSUME AttachAssumption ==
  /\ None \notin Deliveries /\ None \notin Questions
  /\ MessageOf \in [Deliveries -> Messages] /\ KindOf \in [Deliveries -> Kinds]
  /\ QuoteOf \in [Deliveries -> Questions \cup {None}] /\ Marked \subseteq Deliveries

VARIABLES
  handler,     \* [Deliveries -> ...]: where the handler is
  job,         \* [Deliveries -> Jobs]: where its download is
  fd,          \* [Deliveries -> Deliveries \cup {None}]: the file it writes
  intact,      \* [Deliveries -> BOOLEAN]: nobody truncated it since
  tmp,         \* [Messages -> ...]: the file of the temporary name, or None
  path,        \* [Messages -> ...]: the file of the final name, or None
  whole,       \* [Deliveries -> BOOLEAN]: the file has all its bytes
  attached,    \* deliveries whose event names the file
  asked,       \* [Questions -> Asks]: where the dispatcher is with it
  index,       \* ask_reply_index: the questions in it
  recognised   \* deliveries whose Message carries a question id

fileVars == <<job, fd, intact, tmp, path, whole>>
askVars == <<asked, index>>
vars == <<handler, job, fd, intact, tmp, path, whole, attached, asked, index, recognised>>

\* torn: the write failed and the file stays as it was left.
Over == {"kept", "lost", "failed", "torn"}
Jobs == {"none", "fetch", "open", "write", "rename", "told"} \cup Over
Asks == {"no", "sending", "wire", "indexed", "failed", "unindexed", "reactive"}

Init ==
  /\ handler = [d \in Deliveries |-> "none"]
  /\ job = [d \in Deliveries |-> "none"]
  /\ fd = [d \in Deliveries |-> None]
  /\ intact = [d \in Deliveries |-> FALSE]
  /\ tmp = [m \in Messages |-> None]
  /\ path = [m \in Messages |-> None]
  /\ whole = [d \in Deliveries |-> FALSE]
  /\ attached = {}
  /\ asked = [q \in Questions |-> "no"]
  /\ index = {}
  /\ recognised = {}
-----------------------------------------------------------------------------
(***************************************************************************)
(* The handler.                                                            *)
(***************************************************************************)
Handling(d, from, to) ==
  handler[d] = from /\ handler' = [handler EXCEPT ![d] = to]

\* A quote needs a question the user has seen.
Deliver(d) ==
  /\ QuoteOf[d] # None => asked[QuoteOf[d]] \notin {"no", "sending", "failed"}
  /\ Handling(d, "none", IF KindOf[d] = "audio" THEN "download" ELSE "lookup")
  /\ job' = [job EXCEPT ![d] = IF KindOf[d] = "text" THEN "none" ELSE "fetch"]
  /\ UNCHANGED <<fd, intact, tmp, path, whole, attached, recognised>>
  /\ UNCHANGED askVars

\* download_inbound_to_disk returned to the handler, with a file or an error.
AudioDone(d) ==
  /\ job[d] \in Over
  /\ Handling(d, "download", "lookup")
  /\ UNCHANGED <<attached, recognised>> /\ UNCHANGED fileVars /\ UNCHANGED askVars

\* What the Message event carries.
Announce(d, ids) ==
  /\ Handling(d, "lookup", "told")
  /\ recognised' = IF QuoteOf[d] \in ids \/ d \in Marked
                   THEN recognised \cup {d} ELSE recognised
  /\ attached' = IF KindOf[d] = "audio" /\ job[d] = "kept"
                 THEN attached \cup {d} ELSE attached
  /\ UNCHANGED fileVars

\* Wrong: a question is answered once, its entry is taken out.
LookupTakes(d) ==
  /\ Announce(d, index)
  /\ index' = index \ {QuoteOf[d]}
  /\ UNCHANGED asked

\* Look the quote up in the index, or the marker in the text, and announce.
Lookup(d) == Announce(d, index) /\ UNCHANGED askVars
-----------------------------------------------------------------------------
(***************************************************************************)
(* download_inbound_to_disk.                                               *)
(***************************************************************************)
Working(d, from, to) ==
  /\ job[d] = from /\ job' = [job EXCEPT ![d] = to]
  /\ UNCHANGED <<handler, recognised>> /\ UNCHANGED askVars

Fetched(d) ==
  /\ Working(d, "fetch", "open")
  /\ UNCHANGED <<fd, intact, tmp, path, whole, attached>>

\* download_media failed, or the directory, or the open.
FetchFail(d) ==
  /\ \E s \in {"fetch", "open"} : Working(d, s, "failed")
  /\ UNCHANGED <<fd, intact, tmp, path, whole, attached>>

Opens(d, f) ==
  /\ fd' = [fd EXCEPT ![d] = f]
  /\ intact' = [e \in Deliveries |-> e = d \/ (intact[e] /\ fd[e] # f)]
  /\ whole' = [whole EXCEPT ![f] = FALSE]

\* fs::write opens the temporary name: a new file, or the one there, emptied.
Create(d) ==
  /\ tmp[MessageOf[d]] = None
  /\ Working(d, "open", "write")
  /\ Opens(d, d)
  /\ tmp' = [tmp EXCEPT ![MessageOf[d]] = d]
  /\ UNCHANGED <<path, attached>>

Truncate(d) ==
  /\ tmp[MessageOf[d]] # None
  /\ Working(d, "open", "write")
  /\ Opens(d, tmp[MessageOf[d]])
  /\ UNCHANGED <<tmp, path, attached>>

\* The last byte is written: the file is whole, unless somebody emptied it
\* since this writer opened it and has not yet written it again.
Written(d) ==
  /\ Working(d, "write", "rename")
  /\ whole' = [whole EXCEPT ![fd[d]] = @ \/ intact[d]]
  /\ UNCHANGED <<fd, intact, tmp, path, attached>>

\* Wrong: a failed write removes the temporary name.
WriteFailCleans(d) ==
  /\ Working(d, "write", "torn")
  /\ tmp' = [tmp EXCEPT ![MessageOf[d]] = None]
  /\ UNCHANGED <<fd, intact, path, whole, attached>>

WriteFail(d) ==
  /\ Working(d, "write", "torn")
  /\ UNCHANGED <<fd, intact, tmp, path, whole, attached>>

\* Wrong: the file takes its final name before it is written.
RenameEarly(d) ==
  /\ tmp[MessageOf[d]] # None
  /\ \/ Working(d, "write", "kept")
     \/ Working(d, "rename", "kept")
  /\ path' = [path EXCEPT ![MessageOf[d]] = tmp[MessageOf[d]]]
  /\ tmp' = [tmp EXCEPT ![MessageOf[d]] = None]
  /\ UNCHANGED <<fd, intact, whole, attached>>

\* Whatever file the temporary name leads to takes the final name.
Rename(d) ==
  /\ tmp[MessageOf[d]] # None
  /\ Working(d, "rename", "kept")
  /\ path' = [path EXCEPT ![MessageOf[d]] = tmp[MessageOf[d]]]
  /\ tmp' = [tmp EXCEPT ![MessageOf[d]] = None]
  /\ UNCHANGED <<fd, intact, whole, attached>>

\* Nothing has the temporary name any more.
RenameFail(d) ==
  /\ tmp[MessageOf[d]] = None
  /\ Working(d, "rename", "lost")
  /\ UNCHANGED <<fd, intact, tmp, path, whole, attached>>

\* The sibling task publishes MediaReceived; an error is ignored.
MediaReceived(d, ok) ==
  /\ KindOf[d] # "audio"
  /\ Working(d, "kept", "told")
  /\ attached' = IF ok THEN attached \cup {d} ELSE attached
  /\ UNCHANGED <<fd, intact, tmp, path, whole>>
-----------------------------------------------------------------------------
(***************************************************************************)
(* The dispatcher asks.                                                    *)
(***************************************************************************)
Asking(q, from, to) ==
  /\ asked[q] = from /\ asked' = [asked EXCEPT ![q] = to]
  /\ UNCHANGED <<handler, attached, recognised>> /\ UNCHANGED fileVars

\* dispatch_event runs for one event at a time.
Idle == \A q \in Questions : asked[q] \notin {"sending", "wire"}
Ask(q) == Idle /\ Asking(q, "no", "sending") /\ UNCHANGED index

\* The question goes to a waiting handler, which renders it: not indexed.
AskReactive(q) == Idle /\ Asking(q, "no", "reactive") /\ UNCHANGED index

\* The question has left; send_text has not returned yet, or just has.
OnWire(q) == Asking(q, "sending", "wire") /\ UNCHANGED index

\* send_text fails, before the question left or after.
SendFail(q) ==
  /\ Asking(q, "sending", "failed") \/ Asking(q, "wire", "unindexed")
  /\ UNCHANGED index

Index(q) == Asking(q, "wire", "indexed") /\ index' = index \cup {q}
-----------------------------------------------------------------------------
Download(d) ==
  \/ Fetched(d) \/ FetchFail(d) \/ Create(d) \/ Truncate(d)
  \/ Written(d) \/ WriteFail(d) \/ Rename(d) \/ RenameFail(d)
  \/ \E ok \in BOOLEAN : MediaReceived(d, ok)

Next ==
  \/ \E d \in Deliveries : Deliver(d) \/ AudioDone(d) \/ Lookup(d) \/ Download(d)
  \/ \E q \in Questions :
       Ask(q) \/ AskReactive(q) \/ OnWire(q) \/ SendFail(q) \/ Index(q)

Spec == Init /\ [][Next]_vars
-----------------------------------------------------------------------------
(***************************************************************************)
(* Properties.                                                             *)
(***************************************************************************)
\* The variables have their types.
TypeOK ==
  /\ handler \in [Deliveries -> {"none", "download", "lookup", "told"}]
  /\ job \in [Deliveries -> Jobs]
  /\ fd \in [Deliveries -> Deliveries \cup {None}]
  /\ intact \in [Deliveries -> BOOLEAN]
  /\ tmp \in [Messages -> Deliveries \cup {None}]
  /\ path \in [Messages -> Deliveries \cup {None}]
  /\ whole \in [Deliveries -> BOOLEAN]
  /\ attached \subseteq Deliveries
  /\ asked \in [Questions -> Asks]
  /\ index \subseteq Questions
  /\ recognised \subseteq Deliveries

\* A download of the same message still writes the file, or failed to.
Spoiled(d) ==
  \E e \in Deliveries \ {d} :
    /\ MessageOf[e] = MessageOf[d]
    /\ fd[e] = path[MessageOf[d]] /\ job[e] \in {"write", "torn"}

\* The file an event names has all its bytes (events.rs: "has already been
\* downloaded to disk when this event is published"), at that moment and
\* ever after, unless a redelivery of the same message spoils it; when all
\* of them have written without an error, whatever they truncated and
\* renamed under each other, it is whole again.
AnnouncedWhole ==
  \A d \in attached :
    /\ path[MessageOf[d]] # None
    /\ whole[path[MessageOf[d]]] \/ Spoiled(d)

\* A download that finds its temporary file gone lost it to another delivery
\* of the message, which goes on to announce the file: media are not lost.
LostToTwin ==
  \A d \in Deliveries : job[d] = "lost" =>
    \E e \in Deliveries \ {d} :
      /\ MessageOf[e] = MessageOf[d]
      /\ job[e] \in {"kept", "told"} /\ path[MessageOf[e]] # None

\* An answer that quotes a directly sent question is recognised, however
\* often it was answered before, unless the lookup came before the
\* dispatcher had indexed it.
QuotesRecognised ==
  [][\A d \in Deliveries :
       handler[d] = "lookup" /\ handler'[d] = "told" /\ d \notin recognised' =>
         QuoteOf[d] = None \/ asked[QuoteOf[d]] # "indexed"]_vars
=============================================================================
