------------------------ MODULE InboundAttachProofs ------------------------
(***************************************************************************)
(* Proofs about what the bridge attaches, for any deliveries, messages and *)
(* questions.  The inductive invariant says where a delivery's handler,    *)
(* its download and its file agree (Stations), that names lead to files of *)
(* their own message (OwnFiles), that a file is whole or somebody is still *)
(* to answer for it (FilesSound), and that a temporary name that is gone   *)
(* was taken by a twin (Taken).                                            *)
(***************************************************************************)
EXTENDS InboundAttach, TLAPS

USE AttachAssumption
USE DEF Kinds, Over, Jobs, Asks

-----------------------------------------------------------------------------
\* Opening a file gives the three variables of open files their types.
LEMMA OpensType ==
  ASSUME TypeOK, NEW d \in Deliveries, NEW f \in Deliveries, Opens(d, f)
  PROVE  /\ fd' \in [Deliveries -> Deliveries \cup {None}]
         /\ intact' \in [Deliveries -> BOOLEAN]
         /\ whole' \in [Deliveries -> BOOLEAN]
<1>1. fd' \in [Deliveries -> Deliveries \cup {None}]
  BY DEF Opens, TypeOK
<1>2. intact' \in [Deliveries -> BOOLEAN]
  <2>1. \A e \in Deliveries : (e = d \/ (intact[e] /\ fd[e] # f)) \in BOOLEAN
    OBVIOUS
  <2> QED BY <2>1 DEF Opens
<1>3. whole' \in [Deliveries -> BOOLEAN]
  BY DEF Opens, TypeOK
<1> QED BY <1>1, <1>2, <1>3

\* The steps of a download keep the types.
LEMMA TypeDownload ==
  ASSUME TypeOK, NEW d \in Deliveries, Download(d),
         job[d] = "write" => fd[d] # None
  PROVE  TypeOK'
<1> USE DEF Working, askVars, TypeOK
<1>1. CASE Fetched(d) BY <1>1 DEF Fetched
<1>2. CASE FetchFail(d) BY <1>2 DEF FetchFail
<1>3. CASE Create(d)
  <2>1. Opens(d, d) BY <1>3 DEF Create
  <2> QED BY <1>3, <2>1, OpensType DEF Create
<1>4. CASE Truncate(d)
  <2>1. Opens(d, tmp[MessageOf[d]]) /\ tmp[MessageOf[d]] \in Deliveries
    BY <1>4 DEF Truncate
  <2> QED BY <1>4, <2>1, OpensType DEF Truncate
<1>5. CASE Written(d)
  <2>1. fd[d] \in Deliveries /\ (whole[fd[d]] \/ intact[d]) \in BOOLEAN
    BY <1>5 DEF Written
  <2>2. whole' \in [Deliveries -> BOOLEAN]
    BY <1>5, <2>1 DEF Written
  <2> QED BY <1>5, <2>2 DEF Written
<1>6. CASE WriteFail(d) BY <1>6 DEF WriteFail
<1>7. CASE Rename(d) BY <1>7 DEF Rename
<1>8. CASE RenameFail(d) BY <1>8 DEF RenameFail
<1>9. ASSUME NEW ok \in BOOLEAN, MediaReceived(d, ok) PROVE TypeOK'
  BY <1>9 DEF MediaReceived
<1> QED
  BY <1>1, <1>2, <1>3, <1>4, <1>5, <1>6, <1>7, <1>8, <1>9 DEF Download

-----------------------------------------------------------------------------
(* The invariant.                                                          *)

\* A delivery starts once, has a file from the open on, is attached when its
\* download is done; a final name stays; an indexed question is in the index.
Stations ==
  /\ \A d \in Deliveries :
       /\ handler[d] = "none" => job[d] = "none"
       /\ job[d] \in {"none", "fetch", "open"} => fd[d] = None
       /\ job[d] \in {"write", "rename"} => fd[d] # None
       /\ d \in attached => job[d] \in {"kept", "told"}
       /\ job[d] \in {"kept", "told"} => path[MessageOf[d]] # None
  /\ \A q \in Questions : asked[q] = "indexed" => q \in index

OwnFiles ==
  /\ \A d \in Deliveries : fd[d] # None => MessageOf[fd[d]] = MessageOf[d]
  /\ \A m \in Messages : /\ tmp[m] # None => MessageOf[tmp[m]] = m
                         /\ path[m] # None => MessageOf[path[m]] = m

\* The file f is whole, or will be when a writer that truncated it last is
\* through, or a write to it failed.
Sound(f) ==
  \/ whole[f]
  \/ \E e \in Deliveries :
       fd[e] = f /\ ((job[e] = "write" /\ intact[e]) \/ job[e] = "torn")

FilesSound ==
  /\ \A d \in Deliveries : fd[d] # None => Sound(fd[d])
  /\ \A m \in Messages : /\ tmp[m] # None => Sound(tmp[m])
                         /\ path[m] # None => Sound(path[m])

HasTwin(d) ==
  \E e \in Deliveries \ {d} :
    MessageOf[e] = MessageOf[d] /\ job[e] \in {"kept", "told"}

Taken ==
  \A d \in Deliveries :
    /\ job[d] = "lost" => HasTwin(d)
    /\ job[d] \in {"write", "rename"} /\ tmp[MessageOf[d]] = None => HasTwin(d)

IInv == TypeOK /\ Stations /\ OwnFiles /\ FilesSound /\ Taken

LEMMA AttachInit == Init => IInv
BY DEF Init, IInv, TypeOK, Stations, OwnFiles, FilesSound, Taken

-----------------------------------------------------------------------------
\* A step that leaves the open files alone and no download at a place where
\* it answers for one keeps the files sound.
LEMMA SoundKept ==
  ASSUME NEW f, Sound(f), UNCHANGED <<fd, intact, whole>>,
         \A e \in Deliveries : job[e] \in {"write", "torn"} => job'[e] = job[e]
  PROVE  Sound(f)'
BY DEF Sound

\* A twin stays one.
LEMMA TwinKept ==
  ASSUME NEW d \in Deliveries, HasTwin(d),
         \A e \in Deliveries : job[e] \in {"kept", "told"} => job'[e] \in {"kept", "told"}
  PROVE  HasTwin(d)'
BY DEF HasTwin

\* The steps that leave the names and the open files alone.
LEMMA QuietStep ==
  ASSUME IInv, TypeOK', Stations', UNCHANGED <<fd, intact, tmp, path, whole>>,
         \A e \in Deliveries :
           /\ job[e] \in {"write", "torn"} => job'[e] = job[e]
           /\ job[e] \in {"kept", "told"} => job'[e] \in {"kept", "told"}
           /\ job'[e] \in {"write", "rename", "lost"} => job'[e] = job[e]
  PROVE  IInv'
<1>1. OwnFiles'
  BY DEF IInv, OwnFiles
<1>2. FilesSound'
  BY SoundKept DEF IInv, FilesSound
<1>3. Taken'
  BY TwinKept DEF IInv, Taken
<1> QED BY <1>1, <1>2, <1>3 DEF IInv

\* Opening the file f for d: f is d's to answer for, the others are as before.
LEMMA OpenStep ==
  ASSUME IInv, TypeOK', NEW d \in Deliveries, NEW f \in Deliveries, Opens(d, f),
         job[d] = "open", job' = [job EXCEPT ![d] = "write"],
         MessageOf[f] = MessageOf[d],
         tmp' = [tmp EXCEPT ![MessageOf[d]] = f],
         UNCHANGED <<handler, path, attached, asked, index>>
  PROVE  IInv'
<1> USE DEF IInv, TypeOK
<1>1. fd[d] = None /\ fd'[d] = f /\ \A e \in Deliveries \ {d} : fd'[e] = fd[e]
  BY DEF Stations, Opens
<1>2. job'[d] = "write" /\ \A e \in Deliveries \ {d} : job'[e] = job[e]
  OBVIOUS
<1>3. tmp'[MessageOf[d]] = f /\ \A m \in Messages : m # MessageOf[d] => tmp'[m] = tmp[m]
  OBVIOUS
<1>4. Stations'
  BY <1>1, <1>2 DEF Stations
<1>5. OwnFiles'
  BY <1>1, <1>3 DEF OwnFiles
<1>6. FilesSound'
  <2>1. Sound(f)'
    BY <1>1, <1>2 DEF Opens, Sound
  <2>2. ASSUME NEW g \in Deliveries, g # f, Sound(g) PROVE Sound(g)'
    <3>1. CASE whole[g] BY <3>1, <2>2 DEF Opens, Sound
    <3>2. CASE ~whole[g]
      <4>1. PICK e \in Deliveries :
              fd[e] = g /\ ((job[e] = "write" /\ intact[e]) \/ job[e] = "torn")
        BY <3>2, <2>2 DEF Sound
      <4>2. e # d BY <4>1
      <4>3. intact[e] => intact'[e]
        BY <4>1, <2>2 DEF Opens
      <4> QED BY <4>1, <4>2, <4>3, <1>1, <1>2 DEF Sound
    <3> QED BY <3>1, <3>2
  <2> QED BY <2>1, <2>2, <1>1, <1>3 DEF FilesSound
<1>7. Taken'
  <2>1. \A e \in Deliveries : HasTwin(e) => HasTwin(e)'
    BY <1>2, TwinKept
  <2>2. ASSUME NEW e \in Deliveries, job'[e] \in {"write", "rename"},
               tmp'[MessageOf[e]] = None
        PROVE  HasTwin(e)'
    BY <2>1, <2>2, <1>2, <1>3 DEF Taken
  <2> QED BY <2>1, <2>2, <1>2 DEF Taken
<1> QED BY <1>4, <1>5, <1>6, <1>7

-----------------------------------------------------------------------------
\* The steps of a download.
LEMMA DownloadStep ==
  ASSUME IInv, NEW d \in Deliveries, Download(d)
  PROVE  IInv'
<1>0. TypeOK'
  BY TypeDownload DEF IInv, Stations
<1> USE DEF Working, askVars, TypeOK
<1>1. CASE Fetched(d) \/ FetchFail(d) \/ WriteFail(d)
  <2>1. /\ UNCHANGED <<handler, fd, intact, tmp, path, whole, attached, asked, index>>
        /\ job[d] \in {"fetch", "open", "write"}
        /\ \A e \in Deliveries \ {d} : job'[e] = job[e]
        /\ job'[d] \in {"open", "failed", "torn"}
        /\ job'[d] = "open" => job[d] = "fetch"
        /\ job[d] = "write" => job'[d] = "torn"
    BY <1>1 DEF Fetched, FetchFail, WriteFail, IInv
  <2>2. Stations'
    BY <2>1 DEF IInv, Stations
  <2>3. OwnFiles'
    BY <2>1 DEF IInv, OwnFiles
  <2>4. \A f \in Deliveries : Sound(f) => Sound(f)'
    BY <2>1 DEF Sound
  <2>5. FilesSound'
    BY <2>1, <2>4 DEF IInv, FilesSound
  <2>6. \A e \in Deliveries : HasTwin(e) => HasTwin(e)'
    BY <2>1, TwinKept
  <2>7. Taken'
    BY <2>1, <2>6 DEF IInv, Taken
  <2> QED BY <1>0, <2>2, <2>3, <2>5, <2>7 DEF IInv
<1>2. CASE Create(d)
  <2>1. tmp' = [tmp EXCEPT ![MessageOf[d]] = d] /\ Opens(d, d)
    BY <1>2 DEF Create
  <2> QED BY <1>0, <1>2, <2>1, OpenStep DEF Create
<1>3. CASE Truncate(d)
  <2>1. /\ tmp[MessageOf[d]] \in Deliveries /\ Opens(d, tmp[MessageOf[d]])
        /\ tmp' = [tmp EXCEPT ![MessageOf[d]] = tmp[MessageOf[d]]]
        /\ MessageOf[tmp[MessageOf[d]]] = MessageOf[d]
    BY <1>3 DEF Truncate, IInv, OwnFiles
  <2> QED BY <1>0, <1>3, <2>1, OpenStep DEF Truncate
<1>4. CASE Written(d)
  <2>1. /\ UNCHANGED <<handler, fd, intact, tmp, path, attached, asked, index>>
        /\ job[d] = "write" /\ job'[d] = "rename" /\ fd[d] \in Deliveries
        /\ \A e \in Deliveries \ {d} : job'[e] = job[e]
        /\ whole' = [whole EXCEPT ![fd[d]] = @ \/ intact[d]]
    BY <1>4 DEF Written, IInv, Stations
  <2>2. Stations'
    BY <2>1 DEF IInv, Stations
  <2>3. OwnFiles'
    BY <2>1 DEF IInv, OwnFiles
  <2>4. ASSUME NEW f \in Deliveries, Sound(f) PROVE Sound(f)'
    <3>1. CASE whole[f]
      <4>1. whole'[f]
        BY <3>1, <2>1 DEF IInv
      <4> QED BY <4>1 DEF Sound
    <3>2. CASE ~whole[f]
      <4>1. PICK e \in Deliveries :
              fd[e] = f /\ ((job[e] = "write" /\ intact[e]) \/ job[e] = "torn")
        BY <3>2, <2>4 DEF Sound
      <4>2. CASE e = d
        <5>1. intact[d] /\ fd[d] = f
          BY <4>1, <4>2, <2>1
        <5>2. whole'[f]
          BY <5>1, <2>1 DEF IInv
        <5> QED BY <5>2 DEF Sound
      <4>3. CASE e # d
        BY <4>1, <4>3, <2>1 DEF Sound
      <4> QED BY <4>2, <4>3
    <3> QED BY <3>1, <3>2
  <2>5. FilesSound'
    BY <2>1, <2>4 DEF IInv, FilesSound
  <2>6. \A e \in Deliveries : HasTwin(e) => HasTwin(e)'
    BY <2>1, TwinKept
  <2>7. Taken'
    BY <2>1, <2>6 DEF IInv, Taken
  <2> QED BY <1>0, <2>2, <2>3, <2>5, <2>7 DEF IInv
<1>5. CASE Rename(d)
  <2> DEFINE m == MessageOf[d]
  <2>1. /\ UNCHANGED <<handler, fd, intact, whole, attached, asked, index>>
        /\ job[d] = "rename" /\ job'[d] = "kept" /\ tmp[m] # None /\ m \in Messages
        /\ \A e \in Deliveries \ {d} : job'[e] = job[e]
        /\ path'[m] = tmp[m] /\ tmp'[m] = None
        /\ \A n \in Messages : n # m => path'[n] = path[n] /\ tmp'[n] = tmp[n]
    BY <1>5 DEF Rename, IInv
  <2> HIDE DEF m
  <2>2. Stations'
    <3>1. \A e \in Deliveries : path'[MessageOf[e]] = None => path[MessageOf[e]] = None
      BY <2>1
    <3>2. m = MessageOf[d] BY DEF m
    <3> QED BY <2>1, <3>1, <3>2 DEF IInv, Stations
  <2>3. OwnFiles'
    BY <2>1 DEF IInv, OwnFiles
  <2>4. \A f \in Deliveries : Sound(f) => Sound(f)'
    BY <2>1 DEF Sound
  <2>5. FilesSound'
    BY <2>1, <2>4 DEF IInv, FilesSound
  <2>6. \A e \in Deliveries : HasTwin(e) => HasTwin(e)'
    BY <2>1, TwinKept
  <2>7. ASSUME NEW e \in Deliveries, job'[e] \in {"write", "rename"}, MessageOf[e] = m
        PROVE  HasTwin(e)'
    BY <2>1, <2>7 DEF HasTwin, m
  <2>8. Taken'
    <3>1. ASSUME NEW e \in Deliveries, job'[e] = "lost" PROVE HasTwin(e)'
      BY <3>1, <2>1, <2>6 DEF IInv, Taken
    <3>2. ASSUME NEW e \in Deliveries, job'[e] \in {"write", "rename"},
                 tmp'[MessageOf[e]] = None
          PROVE  HasTwin(e)'
      BY <3>2, <2>1, <2>6, <2>7 DEF IInv, Taken
    <3> QED BY <3>1, <3>2 DEF Taken
  <2> QED BY <1>0, <2>2, <2>3, <2>5, <2>8 DEF IInv
<1>6. CASE RenameFail(d)
  <2>1. /\ UNCHANGED <<handler, fd, intact, tmp, path, whole, attached, asked, index>>
        /\ job[d] = "rename" /\ job'[d] = "lost" /\ tmp[MessageOf[d]] = None
        /\ \A e \in Deliveries \ {d} : job'[e] = job[e]
    BY <1>6 DEF RenameFail, IInv
  <2>2. Stations'
    BY <2>1 DEF IInv, Stations
  <2>3. OwnFiles'
    BY <2>1 DEF IInv, OwnFiles
  <2>5. FilesSound'
    BY <2>1, SoundKept DEF IInv, FilesSound
  <2>6. \A e \in Deliveries : HasTwin(e) => HasTwin(e)'
    BY <2>1, TwinKept
  <2>7. Taken'
    BY <2>1, <2>6 DEF IInv, Taken
  <2> QED BY <1>0, <2>2, <2>3, <2>5, <2>7 DEF IInv
<1>7. ASSUME NEW ok \in BOOLEAN, MediaReceived(d, ok) PROVE IInv'
  <2>1. /\ UNCHANGED <<handler, fd, intact, tmp, path, whole, asked, index>>
        /\ job[d] = "kept" /\ job'[d] = "told" /\ attached' \subseteq attached \cup {d}
        /\ \A e \in Deliveries \ {d} : job'[e] = job[e]
    BY <1>7 DEF MediaReceived, IInv
  <2>2. Stations'
    BY <2>1 DEF IInv, Stations
  <2> QED BY <1>0, <2>1, <2>2, QuietStep
<1> QED
  BY <1>1, <1>2, <1>3, <1>4, <1>5, <1>6, <1>7 DEF Download

\* The steps of a handler and of the dispatcher leave the files alone.
LEMMA HandlerStep ==
  ASSUME IInv, NEW d \in Deliveries, Deliver(d) \/ AudioDone(d) \/ Lookup(d)
  PROVE  IInv'
<1> USE DEF Handling, askVars, fileVars
<1>1. TypeOK'
  BY DEF Deliver, AudioDone, Lookup, Announce, IInv, TypeOK
<1>2. /\ UNCHANGED <<fd, intact, tmp, path, whole, asked, index>>
      /\ handler'[d] # "none"
      /\ \A e \in Deliveries \ {d} : handler'[e] = handler[e] /\ job'[e] = job[e]
      /\ \/ job[d] = "none" /\ job'[d] \in {"none", "fetch"}
         \/ job'[d] = job[d]
      /\ \A e \in Deliveries : e \in attached' => e \in attached \/ job'[e] = "kept"
  <2>1. CASE Deliver(d) BY <2>1 DEF Deliver, IInv, TypeOK, Stations
  <2>2. CASE AudioDone(d) BY <2>2 DEF AudioDone, IInv, TypeOK
  <2>3. CASE Lookup(d) BY <2>3 DEF Lookup, Announce, IInv, TypeOK
  <2> QED BY <2>1, <2>2, <2>3
<1>3. Stations'
  BY <1>2 DEF IInv, Stations
<1> QED BY <1>1, <1>2, <1>3, QuietStep

LEMMA AskStep ==
  ASSUME IInv, NEW q \in Questions,
         Ask(q) \/ AskReactive(q) \/ OnWire(q) \/ SendFail(q) \/ Index(q)
  PROVE  IInv'
<1> USE DEF Asking, fileVars
<1>1. TypeOK'
  BY DEF Ask, AskReactive, OnWire, SendFail, Index, IInv, TypeOK
<1>2. /\ UNCHANGED <<handler, job, fd, intact, tmp, path, whole, attached>>
      /\ \A r \in Questions : asked'[r] = "indexed" => asked[r] = "indexed" \/ r \in index'
      /\ index \subseteq index'
  BY DEF Ask, AskReactive, OnWire, SendFail, Index, IInv, TypeOK
<1>3. Stations'
  BY <1>2 DEF IInv, Stations
<1> QED BY <1>1, <1>2, <1>3, QuietStep

LEMMA Invariance == Spec => []IInv
<1>1. IInv /\ [Next]_vars => IInv'
  <2> SUFFICES ASSUME IInv, [Next]_vars PROVE IInv'
    OBVIOUS
  <2>1. CASE Next
    BY <2>1, DownloadStep, HandlerStep, AskStep DEF Next
  <2>2. CASE UNCHANGED vars
    BY <2>2 DEF vars, IInv, TypeOK, Stations, OwnFiles, FilesSound, Sound, Taken, HasTwin
  <2> QED BY <2>1, <2>2
<1> QED BY <1>1, AttachInit, PTL DEF Spec

-----------------------------------------------------------------------------
\* The variables always have their types.
THEOREM AttachTypeCorrect == Spec => []TypeOK
BY Invariance, PTL DEF IInv

\* An announced file is whole but for a redelivery that spoils it.
THEOREM AnnouncedFilesWhole == Spec => []AnnouncedWhole
<1>1. IInv => AnnouncedWhole
  <2> SUFFICES ASSUME IInv, NEW d \in attached
               PROVE  /\ path[MessageOf[d]] # None
                      /\ whole[path[MessageOf[d]]] \/ Spoiled(d)
    BY DEF AnnouncedWhole
  <2> DEFINE f == path[MessageOf[d]]
  <2>1. /\ d \in Deliveries /\ job[d] \in {"kept", "told"}
        /\ MessageOf[d] \in Messages /\ f \in Deliveries
        /\ MessageOf[f] = MessageOf[d] /\ Sound(f)
    BY DEF IInv, TypeOK, Stations, OwnFiles, FilesSound
  <2>2. CASE ~whole[f]
    <3>1. PICK e \in Deliveries : fd[e] = f /\ job[e] \in {"write", "torn"}
      BY <2>1, <2>2 DEF Sound
    <3>2. MessageOf[e] = MessageOf[d] /\ e # d
      BY <2>1, <3>1 DEF IInv, OwnFiles
    <3> QED BY <2>1, <3>1, <3>2 DEF Spoiled
  <2> QED BY <2>1, <2>2
<1> QED BY <1>1, Invariance, PTL

\* A download that lost its temporary file lost it to one that kept it.
THEOREM LostFilesAreTaken == Spec => []LostToTwin
<1>1. IInv => LostToTwin
  BY DEF IInv, Stations, Taken, HasTwin, LostToTwin
<1> QED BY <1>1, Invariance, PTL

\* A quote of an indexed question is recognised, however often.
THEOREM QuotesAreRecognised == Spec => QuotesRecognised
<1>1. IInv /\ [Next]_vars =>
        [\A d \in Deliveries :
           handler[d] = "lookup" /\ handler'[d] = "told" /\ d \notin recognised' =>
             QuoteOf[d] = None \/ asked[QuoteOf[d]] # "indexed"]_vars
  <2> SUFFICES ASSUME IInv, Next, NEW d \in Deliveries, handler[d] = "lookup",
                      handler'[d] = "told", d \notin recognised', QuoteOf[d] # None
               PROVE  asked[QuoteOf[d]] # "indexed"
    OBVIOUS
  <2> USE DEF IInv, TypeOK
  <2>1. Lookup(d)
    <3>1. ASSUME NEW e \in Deliveries, Deliver(e) \/ AudioDone(e) \/ Lookup(e)
          PROVE  Lookup(d)
      <4>1. e = d
        BY <3>1 DEF Deliver, AudioDone, Lookup, Announce, Handling
      <4> QED BY <3>1, <4>1 DEF Deliver, AudioDone, Handling
    <3>2. ASSUME NEW e \in Deliveries, Download(e) PROVE FALSE
      BY <3>2 DEF Download, Fetched, FetchFail, Create, Truncate, Written, WriteFail, Rename,
                  RenameFail, MediaReceived, Working
    <3>3. ASSUME NEW q \in Questions,
                 Ask(q) \/ AskReactive(q) \/ OnWire(q) \/ SendFail(q) \/ Index(q)
          PROVE  FALSE
      BY <3>3 DEF Ask, AskReactive, OnWire, SendFail, Index, Asking
    <3> QED BY <3>1, <3>2, <3>3 DEF Next
  <2>2. QuoteOf[d] \notin index
    BY <2>1 DEF Lookup, Announce
  <2> QED BY <2>2 DEF Stations
<1> QED BY <1>1, Invariance, PTL DEF Spec, QuotesRecognised

-----------------------------------------------------------------------------
(* When the exceptions of the invariants cannot happen.                    *)

\* No other delivery carries the message.
OnlyDelivery(d) == \A e \in Deliveries \ {d} : MessageOf[e] # MessageOf[d]

SafeWhenOnly ==
  \A d \in Deliveries : OnlyDelivery(d) =>
    /\ job[d] # "lost"
    /\ d \in attached => path[MessageOf[d]] # None /\ whole[path[MessageOf[d]]]

\* A message delivered once never loses its download to a missing temporary
\* file, and the file its event names is whole from the announcement on: the
\* torn and the lost files need a redelivery.
THEOREM OneDeliveryIsSafe == Spec => []SafeWhenOnly
<1>1. AnnouncedWhole /\ LostToTwin => SafeWhenOnly
  BY DEF AnnouncedWhole, LostToTwin, SafeWhenOnly, OnlyDelivery, Spoiled
<1> QED BY <1>1, AnnouncedFilesWhole, LostFilesAreTaken, PTL

\* Every delivery of the message m has begun and none still downloads.
Downloaded(m) ==
  \A d \in Deliveries : MessageOf[d] = m =>
    handler[d] # "none" /\ job[d] \in Over \cup {"none", "told"}

FilesRest ==
  \A m \in Messages : Downloaded(m) =>
    /\ path'[m] = path[m]
    /\ path[m] # None => whole'[path[m]] = whole[path[m]]

LEMMA RestStep == IInv /\ [Next]_vars => [FilesRest]_vars
<1> SUFFICES ASSUME IInv, [Next]_vars, NEW m \in Messages, Downloaded(m)
             PROVE  /\ path'[m] = path[m]
                    /\ path[m] # None => whole'[path[m]] = whole[path[m]]
  BY DEF FilesRest
<1> USE DEF IInv, TypeOK
<1>0. path[m] # None => path[m] \in Deliveries /\ MessageOf[path[m]] = m
  BY DEF OwnFiles
<1>1. CASE UNCHANGED <<path, whole>> BY <1>1
<1>2. ASSUME NEW d \in Deliveries, MessageOf[d] # m, Create(d) \/ Truncate(d)
      PROVE  path'[m] = path[m] /\ (path[m] # None => whole'[path[m]] = whole[path[m]])
  <2>1. PICK f \in Deliveries : /\ MessageOf[f] = MessageOf[d] /\ path' = path
                                /\ whole' = [whole EXCEPT ![f] = FALSE]
    BY <1>2 DEF Create, Truncate, Opens, OwnFiles
  <2>2. path[m] # f BY <2>1, <1>2, <1>0
  <2> QED BY <2>1, <2>2, <1>0
<1>3. ASSUME NEW d \in Deliveries, MessageOf[d] # m, Written(d)
      PROVE  path'[m] = path[m] /\ (path[m] # None => whole'[path[m]] = whole[path[m]])
  <2>1. /\ fd[d] # None /\ fd[d] \in Deliveries /\ path' = path
        /\ whole' = [whole EXCEPT ![fd[d]] = @ \/ intact[d]]
    BY <1>3 DEF Written, Working, Stations
  <2>2. MessageOf[fd[d]] = MessageOf[d]
    BY <2>1 DEF OwnFiles
  <2>3. path[m] # fd[d] BY <2>1, <2>2, <1>3, <1>0
  <2> QED BY <2>1, <2>3, <1>0
<1>4. ASSUME NEW d \in Deliveries, MessageOf[d] # m, Rename(d)
      PROVE  path'[m] = path[m] /\ whole' = whole
  BY <1>4 DEF Rename
<1>5. ASSUME NEW d \in Deliveries, Create(d) \/ Truncate(d) \/ Written(d) \/ Rename(d)
      PROVE  MessageOf[d] # m
  <2>1. job[d] \in {"open", "write", "rename"}
    BY <1>5 DEF Create, Truncate, Written, Rename, Working
  <2> QED BY <2>1 DEF Downloaded
<1>6. ASSUME NEW d \in Deliveries, Download(d)
      PROVE  \/ UNCHANGED <<path, whole>>
             \/ Create(d) \/ Truncate(d) \/ Written(d) \/ Rename(d)
  BY <1>6 DEF Download, Fetched, FetchFail, WriteFail, RenameFail, MediaReceived
<1>7. ASSUME NEW d \in Deliveries, Deliver(d) \/ AudioDone(d) \/ Lookup(d)
      PROVE  UNCHANGED <<path, whole>>
  BY <1>7 DEF Deliver, AudioDone, Lookup, Announce, fileVars
<1>8. ASSUME NEW q \in Questions,
             Ask(q) \/ AskReactive(q) \/ OnWire(q) \/ SendFail(q) \/ Index(q)
      PROVE  UNCHANGED <<path, whole>>
  BY <1>8 DEF Ask, AskReactive, OnWire, SendFail, Index, Asking, fileVars
<1>9. CASE UNCHANGED vars BY <1>1, <1>9 DEF vars
<1> QED
  BY <1>1, <1>2, <1>3, <1>4, <1>5, <1>6, <1>7, <1>8, <1>9 DEF Next

\* No late write: once every delivery of a message has finished downloading,
\* the file under its final name is neither replaced nor touched, whatever
\* the other messages' downloads do.
THEOREM DownloadedFilesRest == Spec => [][FilesRest]_vars
<1>1. IInv /\ [Next]_vars => [FilesRest]_vars
  BY RestStep
<1> QED BY <1>1, Invariance, PTL DEF Spec
=============================================================================
