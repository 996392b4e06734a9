---------------------------- MODULE StateSyncProofs ----------------------------
(***************************************************************************)
(* Proofs about StateSync: its types, and that saves of one device are     *)
(* refused or overtaken only as the properties of StateSync allow.         *)
(*                                                                         *)
(* The properties are not inductive: they speak of the save that is being  *)
(* received, and say nothing of the versions on their way.  Timed adds     *)
(* that nothing is dated in the future, and Counted that the saves of a    *)
(* device whose counter was never set back are numbered in the order they  *)
(* were made, around the version the server has.                           *)
(***************************************************************************)
EXTENDS StateSync, TLAPS

Timely(p, t) == \A n \in Novels : p[n] <= t

MessageOK(m, t) ==
  /\ m.at <= t
  /\ m.kind \in {"progress", "state"} => m.shared # Nothing
  /\ m.shared # Nothing => Timely(m.shared.progress, t)
  /\ m.kind = "progress" => m.version >= 1

DeviceOK(x, t) ==
  /\ Timely(x.progress, t)
  /\ x.shared # Nothing => Timely(x.shared.progress, t)

TimedBy(t) ==
  /\ Timely(server.progress, t)
  /\ \A d \in Devices : accepted[d] <= t /\ DeviceOK(device[d], t)
  /\ \A m \in wire : MessageOK(m, t)

Timed == TimedBy(now)

\* The saves of d on their way.
Saves(d) == {m \in wire : m.kind = "progress" /\ m.from = d}

CountedBy(d) ==
  /\ used[d] <= device[d].version
  /\ author = d => server.version <= used[d]
  /\ \A m \in Saves(d) :
       /\ m.version <= used[d]
       /\ m.at < accepted[d] => m.version <= server.version
       /\ author = d /\ m.at > accepted[d] => m.version > server.version
  /\ \A m1, m2 \in Saves(d) :
       /\ m1.at < m2.at => m1.version < m2.version
       /\ m1.at = m2.at => m1 = m2

Counted == \A d \in Devices \ rewound : CountedBy(d)

SyncInv == TypeOK /\ Timed /\ Counted

-----------------------------------------------------------------------------
(* What travels.                                                           *)

LEMMA LaterType == \A a, b \in Nat : Later(a, b) \in Nat /\ Later(a, b) >= a /\ Later(a, b) >= b
BY DEF Later

LEMMA VisibleType == \A p \in Progress : Visible(p) \in Progress
BY DEF Visible, Progress

LEMMA NothingIsNotShared == Nothing \notin Shared
BY SyncAssumption DEF Shared, Progress

\* A reply is a message of the given kind, dated like the request; it carries the
\* request's own copy or the positions at hand, as far as they are visible.
LEMMA ReplyType ==
  ASSUME TypeOK, NEW m \in wire, NEW kind \in {"saved", "state"}, NEW progress \in Progress,
         NEW sent \in Nat, NEW version \in Nat,
         NEW r \in Reply(m, kind, progress, sent, version)
  PROVE  /\ r \in Message
         /\ r.kind = kind /\ r.from = m.from /\ r.at = m.at
         /\ \/ kind = "saved" /\ r.shared = m.shared
            \/ r.shared \in Shared /\ r.shared.progress = Visible(progress)
<1>1. m \in Message
  BY DEF TypeOK
<1> DEFINE copy == [progress |-> Visible(progress), version |-> sent,
                    stored |-> {n \in Novels : progress[n] > 0}]
<1>2. copy \in Shared /\ copy.progress = Visible(progress)
  BY VisibleType DEF Shared
<1>3. r = [m EXCEPT !.kind = kind, !.version = version,
                    !.shared = IF m.own /\ kind = "saved" THEN m.shared ELSE copy]
  BY DEF Reply
<1> HIDE DEF copy
<1>4. CASE m.own /\ kind = "saved"
  BY <1>1, <1>3, <1>4 DEF Message
<1>5. CASE ~(m.own /\ kind = "saved")
  BY <1>1, <1>2, <1>3, <1>5 DEF Message
<1> QED
  BY <1>4, <1>5

-----------------------------------------------------------------------------
(* Types.                                                                  *)

LEMMA TypeInit == Init => TypeOK
BY SyncAssumption DEF Init, TypeOK, NoProgress, Progress, Device, Shared

\* What every action on a message may use of it.
LEMMA MessageFacts ==
  ASSUME TypeOK, Timed, NEW m \in wire
  PROVE  /\ m.kind \in {"progress", "shared", "read", "saved", "state"}
         /\ m.from \in Devices /\ m.page \in Nat /\ m.at \in Nat
         /\ m.version \in Nat /\ m.own \in BOOLEAN
         /\ m.shared \in Shared \cup {Nothing}
         /\ m.kind \in {"progress", "state"} => m.shared \in Shared
         /\ m.kind = "progress" => m.version >= 1
         /\ m.at <= now
         /\ m.shared # Nothing => m.shared \in Shared /\ m.shared.progress \in Progress
                                  /\ Timely(m.shared.progress, now)
BY NothingIsNotShared DEF TypeOK, Timed, TimedBy, MessageOK, Message, Shared

\* And of a device.
LEMMA DeviceFacts ==
  ASSUME TypeOK, NEW d \in Devices
  PROVE  /\ device[d].phase \in {"loading", "open"} /\ device[d].page \in Nat
         /\ device[d].progress \in Progress /\ device[d].version \in Nat
         /\ device[d].shared \in Shared \cup {Nothing}
         /\ device[d].shared # Nothing => device[d].shared \in Shared
                                          /\ device[d].shared.version \in Nat
                                          /\ device[d].shared.progress \in Progress
         /\ used[d] \in Nat /\ accepted[d] \in Nat
BY DEF TypeOK, Device, Shared

LEMMA SentType == ASSUME TypeOK, NEW d \in Devices PROVE CopyVersion(d) \in Nat /\ SentVersions(d) \subseteq Nat
BY DeviceFacts DEF SentVersions, CopyVersion

LEMMA SpendType ==
  ASSUME TypeOK, NEW what \in {"saves", "others"}, Spend(what)
  PROVE  left' \in [saves : Nat, others : Nat]
BY DEF TypeOK, Spend

LEMMA TypeDevices ==
  ASSUME TypeOK, Timed, NEW d \in Devices, DeviceSteps(d)
  PROVE  TypeOK'
<1> USE DeviceFacts
<1>1. ASSUME NEW n \in Novels, SaveProgress(d, n) PROVE TypeOK'
  <2> DEFINE progress == [device[d].progress EXCEPT ![n] = now + 1]
             version == device[d].version + 1
             copy == [progress |-> progress, version |-> 0, stored |-> {}]
  <2>1. progress \in Progress /\ version \in Nat /\ now + 1 \in Nat
    BY DEF Progress, TypeOK
  <2>2. copy \in Shared
    BY <2>1 DEF Shared
  <2>3. device' = [device EXCEPT ![d].progress = progress, ![d].version = version]
        /\ used' = [used EXCEPT ![d] = Later(@, version)]
        /\ wire' = wire \cup {Request(d, "progress", device[d].page, copy, version, FALSE)}
        /\ now' = now + 1
    BY <1>1 DEF SaveProgress, Tick
  <2> HIDE DEF progress, version, copy
  <2>4. wire' \subseteq Message
    <3>1. Request(d, "progress", device[d].page, copy, version, FALSE) \in Message
      BY <2>1, <2>2 DEF Request, Message, TypeOK
    <3> QED
      BY <3>1, <2>3 DEF TypeOK
  <2>5. device' \in [Devices -> Device]
    <3>1. device[d] \in Device
      BY DEF TypeOK
    <3>2. [device[d] EXCEPT !.progress = progress, !.version = version] \in Device
      BY <2>1, <3>1 DEF Device
    <3>3. device' = [device EXCEPT ![d] = [device[d] EXCEPT !.progress = progress, !.version = version]]
      BY <2>3, <3>1 DEF TypeOK
    <3> QED
      BY <3>2, <3>3 DEF TypeOK
  <2>6. used' \in [Devices -> Nat]
    BY <2>1, <2>3, LaterType DEF TypeOK
  <2>7. left' \in [saves : Nat, others : Nat]
    BY <1>1, SpendType DEF SaveProgress
  <2> QED
    BY <1>1, <2>1, <2>3, <2>4, <2>5, <2>6, <2>7 DEF TypeOK, SaveProgress, observed
<1>2. ASSUME Spend("others") PROVE left' \in [saves : Nat, others : Nat]
  BY <1>2, SpendType
<1>3. ASSUME Tick PROVE now' \in Nat
  BY <1>3 DEF Tick, TypeOK
<1>4. CASE SaveSettings(d)
  <2>1. PICK v \in Nat :
          wire' = wire \cup {Request(d, "shared", device[d].page, device[d].shared, v, FALSE)}
    BY <1>4, SentType DEF SaveSettings
  <2>2. wire' \subseteq Message
    <3>1. Request(d, "shared", device[d].page, device[d].shared, v, FALSE) \in Message
      BY DEF Request, Message, TypeOK
    <3> QED
      BY <2>1, <3>1 DEF TypeOK
  <2> QED
    BY <1>2, <1>3, <1>4, <2>2 DEF TypeOK, SaveSettings, observed, counted
<1>5. CASE SaveBookmarks(d)
  <2>1. PICK v \in Nat :
          wire' = wire \cup {Request(d, "shared", device[d].page, device[d].shared, v, TRUE)}
    BY <1>5, SentType DEF SaveBookmarks
  <2>2. wire' \subseteq Message
    <3>1. Request(d, "shared", device[d].page, device[d].shared, v, TRUE) \in Message
      BY DEF Request, Message, TypeOK
    <3> QED
      BY <2>1, <3>1 DEF TypeOK
  <2> QED
    BY <1>2, <1>3, <1>5, <2>2 DEF TypeOK, SaveBookmarks, observed, counted
<1>6. CASE ReloadPage(d)
  <2>1. wire' \subseteq Message
    <3>1. Request(d, "read", device[d].page + 1, Nothing, 0, TRUE) \in Message
      BY DEF Request, Message, TypeOK
    <3> QED
      BY <1>6, <3>1 DEF ReloadPage, TypeOK
  <2>2. device' \in [Devices -> Device]
    BY <1>6 DEF ReloadPage, TypeOK, Device
  <2> QED
    BY <1>2, <1>3, <1>6, <2>1, <2>2 DEF TypeOK, ReloadPage, observed
<1>7. CASE Refresh(d)
  <2>1. wire' \subseteq Message
    <3>1. Request(d, "read", device[d].page, Nothing, 0, FALSE) \in Message
      BY DEF Request, Message, TypeOK
    <3> QED
      BY <1>7, <3>1 DEF Refresh, TypeOK
  <2> QED
    BY <1>2, <1>3, <1>7, <2>1 DEF TypeOK, Refresh, observed, counted
<1> QED
  BY <1>1, <1>4, <1>5, <1>6, <1>7 DEF DeviceSteps

LEMMA TypeMessages ==
  ASSUME TypeOK, Timed, NEW m \in wire, MessageSteps(m)
  PROVE  TypeOK'
<1> USE DeviceFacts, MessageFacts
<1>1. CASE ReceiveProgress(m)
  <2>1. CASE Stale(m.version, m.at)
    BY <1>1, <2>1 DEF ReceiveProgress, TypeOK, observed, counted
  <2>2. CASE ~Stale(m.version, m.at)
    <3>1. m.shared.progress \in Progress /\ MarkedVersion(m.version) \in Nat
      BY <1>1 DEF ReceiveProgress, MarkedVersion, TypeOK, Shared
    <3> QED
      BY <1>1, <2>2, <3>1 DEF ReceiveProgress, TypeOK, Tick, counted
  <2> QED
    BY <2>1, <2>2
<1>2. CASE ReceiveShared(m)
  <2> DEFINE stale == Stale(0, m.at)
             progress == IF stale \/ m.shared = Nothing THEN server.progress ELSE m.shared.progress
             version == IF stale THEN server.version ELSE KeptVersion
             sent == IF stale THEN 0 ELSE m.version
  <2>1. progress \in Progress /\ version \in Nat /\ sent \in Nat
    BY DEF KeptVersion, TypeOK
  <2>2. wire' = (wire \ {m}) \cup Reply(m, "saved", progress, sent, Later(version, sent))
        /\ \/ UNCHANGED <<now, server>>
           \/ now' = now + 1
              /\ server' = [progress |-> progress, version |-> version, updatedAt |-> now + 1]
    BY <1>2 DEF ReceiveShared, Tick
  <2> HIDE DEF stale, progress, version, sent
  <2>3. wire' \subseteq Message
    BY <2>1, <2>2, LaterType, ReplyType DEF TypeOK
  <2>4. server' \in [progress : Progress, version : Nat, updatedAt : Nat] /\ now' \in Nat
    BY <2>1, <2>2 DEF TypeOK
  <2> QED
    BY <1>2, <2>3, <2>4 DEF ReceiveShared, TypeOK, observed, counted
<1>3. CASE ReceiveRead(m)
  <2>1. wire' \subseteq Message
    BY <1>3, ReplyType DEF ReceiveRead, TypeOK
  <2> QED
    BY <1>3, <2>1 DEF ReceiveRead, TypeOK, observed, counted
<1>4. CASE ReplySaved(m)
  <2>1. PICK v \in Nat : device' = [device EXCEPT ![m.from].shared = m.shared, ![m.from].version = v]
    BY <1>4 DEF ReplySaved, Adopted
  <2>2. device' \in [Devices -> Device]
    BY <2>1 DEF TypeOK, Device
  <2>3. rewound' \subseteq Devices
    BY <1>4 DEF ReplySaved, Rewinds, TypeOK
  <2> QED
    BY <1>4, <2>2, <2>3 DEF ReplySaved, TypeOK, observed
<1>5. CASE ReplyState(m)
  <2> DEFINE d == m.from
             progress == IF m.own THEN MergedProgress(device[d].progress, m.shared.progress)
                         ELSE device[d].progress
             phase == IF m.own THEN "open" ELSE device[d].phase
  <2>1. Adopted(d, m.version) \in Nat
    BY DEF Adopted
  <2>2. progress \in Progress
    <3>1. m.shared.progress \in Progress
      BY <1>5 DEF ReplyState, Shared
    <3>2. MergedProgress(device[d].progress, m.shared.progress) \in Progress
      BY <3>1, LaterType DEF MergedProgress, Progress
    <3> QED
      BY <3>2
  <2>3. device' = [device EXCEPT ![d] = [phase |-> phase, page |-> device[d].page, progress |-> progress,
                                         version |-> Adopted(d, m.version), shared |-> m.shared]]
    BY <1>5 DEF ReplyState
  <2>4. phase \in {"loading", "open"}
    OBVIOUS
  <2> HIDE DEF progress, phase
  <2>5. device' \in [Devices -> Device]
    BY <2>1, <2>2, <2>3, <2>4 DEF TypeOK, Device
  <2>6. rewound' \subseteq Devices
    BY <1>5 DEF ReplyState, Rewinds, TypeOK
  <2> QED
    BY <1>5, <2>5, <2>6 DEF ReplyState, TypeOK, observed
<1>6. CASE ReadFails(m)
  <2>1. device' \in [Devices -> Device]
    BY <1>6 DEF ReadFails, TypeOK, Device
  <2> QED
    BY <1>6, <2>1 DEF ReadFails, TypeOK, observed, counted
<1> QED
  BY <1>1, <1>2, <1>3, <1>4, <1>5, <1>6 DEF MessageSteps

\* The other steps change nothing but what the user may see.
LEMMA TypeRest ==
  ASSUME TypeOK, (\E novels \in SUBSET Novels : Grant(novels)) \/ UNCHANGED vars
  PROVE  TypeOK'
<1>1. CASE UNCHANGED vars
  BY <1>1 DEF TypeOK, vars, observed, counted
<1>2. ASSUME NEW novels \in SUBSET Novels, Grant(novels) PROVE TypeOK'
  BY <1>2, SpendType DEF TypeOK, Grant, observed, counted
<1> QED
  BY <1>1, <1>2

-----------------------------------------------------------------------------
(* Times.                                                                  *)

LEMMA TimedInit == Init => Timed
BY DEF Init, Timed, TimedBy, Timely, DeviceOK, NoProgress

\* What is not dated in the future stays so.
LEMMA TimedLater == ASSUME TypeOK, Timed, NEW t \in Nat, t >= now PROVE TimedBy(t)
<1>1. ASSUME NEW p \in Progress, Timely(p, now) PROVE Timely(p, t)
  BY <1>1 DEF Timely, Progress, TypeOK
<1>2. Timely(server.progress, t)
  BY <1>1 DEF Timed, TimedBy, TypeOK
<1>3. ASSUME NEW d \in Devices PROVE accepted[d] <= t /\ DeviceOK(device[d], t)
  <2>1. accepted[d] <= now /\ DeviceOK(device[d], now)
    BY DEF Timed, TimedBy
  <2>2. accepted[d] <= t
    BY <2>1 DEF TypeOK
  <2> QED
    BY <1>1, <2>1, <2>2, DeviceFacts DEF DeviceOK
<1>4. ASSUME NEW m \in wire PROVE MessageOK(m, t)
  <2>1. m.at <= t
    BY MessageFacts DEF TypeOK
  <2> QED
    BY <1>1, <2>1, MessageFacts, NothingIsNotShared DEF MessageOK
<1> QED
  BY <1>2, <1>3, <1>4 DEF TimedBy

LEMMA VisibleTimely ==
  ASSUME NEW p \in Progress, NEW t \in Nat, Timely(p, t)
  PROVE  Timely(Visible(p), t)
BY DEF Timely, Visible, Progress

\* A reply is as timely as what it is made of.
LEMMA ReplyTimely ==
  ASSUME TypeOK, NEW t \in Nat, NEW m \in wire, MessageOK(m, t),
         NEW kind \in {"saved", "state"}, NEW progress \in Progress, Timely(progress, t),
         NEW sent \in Nat, NEW version \in Nat,
         NEW r \in Reply(m, kind, progress, sent, version)
  PROVE  MessageOK(r, t) /\ r.kind # "progress"
<1>1. /\ r.kind = kind /\ r.at = m.at
      /\ \/ kind = "saved" /\ r.shared = m.shared
         \/ r.shared \in Shared /\ r.shared.progress = Visible(progress)
  BY ReplyType
<1>2. Timely(Visible(progress), t)
  BY VisibleTimely
<1> QED
  BY <1>1, <1>2, NothingIsNotShared DEF MessageOK

LEMMA TimedDevices ==
  ASSUME TypeOK, Timed, NEW d \in Devices, DeviceSteps(d)
  PROVE  Timed'
<1>1. now \in Nat /\ now' = now + 1
  BY DEF TypeOK, DeviceSteps, SaveProgress, SaveSettings, SaveBookmarks, ReloadPage, Refresh, Tick
<1>2. TimedBy(now')
  BY <1>1, TimedLater
<1>3. server' = server /\ accepted' = accepted
  BY DEF DeviceSteps, SaveProgress, SaveSettings, SaveBookmarks, ReloadPage, Refresh, observed
<1>4. ASSUME \A x \in Devices : DeviceOK(device'[x], now'), \A m \in wire' : MessageOK(m, now')
      PROVE  Timed'
  BY <1>2, <1>3, <1>4 DEF Timed, TimedBy
<1>5. \A x \in Devices : DeviceOK(device[x], now')
  BY <1>2 DEF TimedBy
<1>6. \A m \in wire : MessageOK(m, now')
  BY <1>2 DEF TimedBy
<1>7. ASSUME NEW n \in Novels, SaveProgress(d, n) PROVE Timed'
  <2> DEFINE progress == [device[d].progress EXCEPT ![n] = now + 1]
             copy == [progress |-> progress, version |-> 0, stored |-> {}]
             save == Request(d, "progress", device[d].page, copy, device[d].version + 1, FALSE)
  <2>1. progress \in Progress
    BY <1>1, DeviceFacts DEF Progress
  <2>2. Timely(progress, now')
    BY <1>1, <1>5, DeviceFacts DEF DeviceOK, Timely, Progress
  <2>3. wire' = wire \cup {save}
    BY <1>7 DEF SaveProgress
  <2>4. device' = [device EXCEPT ![d].progress = progress, ![d].version = device[d].version + 1]
    BY <1>7 DEF SaveProgress
  <2> HIDE DEF progress
  <2>5. copy # Nothing /\ copy.progress = progress
    <3>1. copy \in Shared
      BY <2>1 DEF Shared
    <3> QED
      BY <3>1, NothingIsNotShared
  <2>6. MessageOK(save, now')
    <3> HIDE DEF copy
    <3>1. save.kind = "progress" /\ save.at = now' /\ save.shared = copy
          /\ save.version = device[d].version + 1
      BY <1>1 DEF Request
    <3> HIDE DEF save
    <3> QED
      BY <1>1, <2>2, <2>5, <3>1, DeviceFacts DEF MessageOK
  <2>7. \A x \in Devices : DeviceOK(device'[x], now')
    <3>1. device'[d].progress = progress /\ device'[d].shared = device[d].shared
      BY <2>4 DEF TypeOK, Device
    <3>2. \A x \in Devices \ {d} : device'[x] = device[x]
      BY <2>4 DEF TypeOK
    <3> QED
      BY <1>5, <2>2, <3>1, <3>2 DEF DeviceOK
  <2> HIDE DEF save
  <2> QED
    BY <1>4, <1>6, <2>3, <2>6, <2>7
<1>8. CASE SaveSettings(d)
  <2>1. PICK v \in Nat :
          wire' = wire \cup {Request(d, "shared", device[d].page, device[d].shared, v, FALSE)}
    BY <1>8, SentType DEF SaveSettings
  <2>2. MessageOK(Request(d, "shared", device[d].page, device[d].shared, v, FALSE), now')
    BY <1>1, <1>5 DEF MessageOK, Request, DeviceOK
  <2> QED
    BY <1>4, <1>5, <1>6, <1>8, <2>1, <2>2 DEF SaveSettings
<1>9. CASE SaveBookmarks(d)
  <2>1. PICK v \in Nat :
          wire' = wire \cup {Request(d, "shared", device[d].page, device[d].shared, v, TRUE)}
    BY <1>9, SentType DEF SaveBookmarks
  <2>2. MessageOK(Request(d, "shared", device[d].page, device[d].shared, v, TRUE), now')
    BY <1>1, <1>5 DEF MessageOK, Request, DeviceOK
  <2> QED
    BY <1>4, <1>5, <1>6, <1>9, <2>1, <2>2 DEF SaveBookmarks
<1>10. CASE ReloadPage(d)
  <2>1. MessageOK(Request(d, "read", device[d].page + 1, Nothing, 0, TRUE), now')
    BY <1>1 DEF MessageOK, Request
  <2>2. \A m \in wire' : m \in wire \/ m = Request(d, "read", device[d].page + 1, Nothing, 0, TRUE)
    BY <1>10 DEF ReloadPage
  <2>3. \A x \in Devices : DeviceOK(device'[x], now')
    BY <1>5, <1>10 DEF ReloadPage, DeviceOK, TypeOK
  <2> QED
    BY <1>4, <1>6, <2>1, <2>2, <2>3
<1>11. CASE Refresh(d)
  <2>1. MessageOK(Request(d, "read", device[d].page, Nothing, 0, FALSE), now')
    BY <1>1 DEF MessageOK, Request
  <2> QED
    BY <1>4, <1>5, <1>6, <1>11, <2>1 DEF Refresh
<1> QED
  BY <1>7, <1>8, <1>9, <1>10, <1>11 DEF DeviceSteps

LEMMA TimedMessages ==
  ASSUME TypeOK, Timed, NEW m \in wire, MessageSteps(m)
  PROVE  Timed'
<1> USE MessageFacts
<1>1. now \in Nat /\ now' \in Nat /\ now' >= now
  BY DEF TypeOK, MessageSteps, ReceiveProgress, ReceiveShared, ReceiveRead, ReplySaved, ReplyState,
         ReadFails, Tick
<1>2. TimedBy(now')
  BY <1>1, TimedLater
<1>3. /\ Timely(server.progress, now')
      /\ \A x \in Devices : accepted[x] <= now' /\ DeviceOK(device[x], now')
      /\ \A r \in wire : MessageOK(r, now')
  BY <1>2 DEF TimedBy
<1>4. CASE ReceiveProgress(m)
  <2>1. wire' \subseteq wire /\ device' = device
    BY <1>4 DEF ReceiveProgress
  <2>2. Timely(server'.progress, now')
    BY <1>3, <1>4, NothingIsNotShared DEF ReceiveProgress, MessageOK
  <2>3. \A x \in Devices : accepted'[x] <= now'
    <3>1. m.at <= now'
      BY <1>3 DEF MessageOK
    <3> QED
      BY <1>3, <1>4, <3>1 DEF ReceiveProgress, observed, TypeOK
  <2> QED
    BY <1>3, <2>1, <2>2, <2>3 DEF Timed, TimedBy
<1>5. CASE ReceiveShared(m)
  <2> DEFINE stale == Stale(0, m.at)
             progress == IF stale \/ m.shared = Nothing THEN server.progress ELSE m.shared.progress
             version == IF stale THEN server.version ELSE KeptVersion
             sent == IF stale THEN 0 ELSE m.version
  <2>1. progress \in Progress /\ version \in Nat /\ sent \in Nat
    BY DEF KeptVersion, TypeOK
  <2>2. Timely(progress, now')
    BY <1>3 DEF MessageOK
  <2>3. wire' = (wire \ {m}) \cup Reply(m, "saved", progress, sent, Later(version, sent))
        /\ (server' = server \/ server'.progress = progress)
    BY <1>5 DEF ReceiveShared
  <2>4. device' = device /\ accepted' = accepted
    BY <1>5 DEF ReceiveShared, observed
  <2> HIDE DEF stale, progress, version, sent
  <2>5. \A r \in wire' : MessageOK(r, now')
    BY <1>1, <1>3, <2>1, <2>2, <2>3, LaterType, ReplyTimely
  <2> QED
    BY <1>3, <2>2, <2>3, <2>4, <2>5 DEF Timed, TimedBy
<1>6. CASE ReceiveRead(m)
  <2>1. \A r \in wire' : MessageOK(r, now')
    BY <1>1, <1>3, <1>6, ReplyTimely DEF ReceiveRead, TypeOK
  <2> QED
    BY <1>3, <1>6, <2>1 DEF ReceiveRead, Timed, TimedBy, observed
<1>7. CASE ReplySaved(m)
  <2>1. \A x \in Devices : DeviceOK(device'[x], now')
    <3>1. PICK v \in Nat : device' = [device EXCEPT ![m.from].shared = m.shared, ![m.from].version = v]
      BY <1>7, DeviceFacts DEF ReplySaved, Adopted
    <3>2. device'[m.from].progress = device[m.from].progress /\ device'[m.from].shared = m.shared
      BY <3>1 DEF TypeOK, Device
    <3>3. \A x \in Devices \ {m.from} : device'[x] = device[x]
      BY <3>1 DEF TypeOK
    <3>4. m.shared # Nothing => Timely(m.shared.progress, now')
      BY <1>3 DEF MessageOK
    <3> QED
      BY <1>3, <3>2, <3>3, <3>4 DEF DeviceOK
  <2> QED
    BY <1>3, <1>7, <2>1 DEF ReplySaved, Timed, TimedBy, observed
<1>8. CASE ReplyState(m)
  <2> DEFINE d == m.from
             merged == MergedProgress(device[d].progress, m.shared.progress)
  <2>1. m.shared # Nothing /\ m.shared \in Shared /\ Timely(m.shared.progress, now')
    BY <1>3, <1>8, NothingIsNotShared DEF ReplyState, MessageOK
  <2>2. Timely(device[d].progress, now')
    BY <1>3 DEF DeviceOK
  <2>3. Timely(merged, now')
    BY <2>1, <2>2 DEF Timely, MergedProgress, Later
  <2>4. device'[d].progress \in {merged, device[d].progress} /\ device'[d].shared = m.shared
    BY <1>8 DEF ReplyState, TypeOK
  <2>5. \A x \in Devices \ {d} : device'[x] = device[x]
    BY <1>8 DEF ReplyState, TypeOK
  <2> HIDE DEF merged
  <2>6. \A x \in Devices : DeviceOK(device'[x], now')
    BY <1>3, <2>1, <2>2, <2>3, <2>4, <2>5 DEF DeviceOK
  <2> QED
    BY <1>3, <1>8, <2>6 DEF ReplyState, Timed, TimedBy, observed
<1>9. CASE ReadFails(m)
  <2>1. \A x \in Devices : DeviceOK(device'[x], now')
    BY <1>3, <1>9 DEF ReadFails, DeviceOK, TypeOK, Device
  <2> QED
    BY <1>3, <1>9, <2>1 DEF ReadFails, Timed, TimedBy, observed
<1> QED
  BY <1>4, <1>5, <1>6, <1>7, <1>8, <1>9 DEF MessageSteps

LEMMA TimedRest ==
  ASSUME Timed, (\E novels \in SUBSET Novels : Grant(novels)) \/ UNCHANGED vars
  PROVE  Timed'
BY DEF Timed, TimedBy, Grant, vars, observed

-----------------------------------------------------------------------------
(* Versions.                                                               *)

LEMMA CountedInit == Init => Counted
BY DEF Init, Counted, CountedBy, Saves

\* Counted survives a step that sends no save, leaves the server's version alone, and
\* sets a counter back only where it says so.
LEMMA CountedKept ==
  ASSUME Counted,
         \A d \in Devices : Saves(d)' \subseteq Saves(d),
         server'.version = server.version, UNCHANGED <<observed, used>>,
         rewound \subseteq rewound',
         \A d \in Devices \ rewound' : used[d] <= device'[d].version
  PROVE  Counted'
<1> SUFFICES ASSUME NEW d \in Devices \ rewound' PROVE CountedBy(d)'
  BY DEF Counted
<1>1. CountedBy(d)
  BY DEF Counted
<1> QED
  BY <1>1 DEF CountedBy, observed

\* The version of the server never falls.
LEMMA VersionGrows ==
  ASSUME TypeOK, Timed, NEW m \in wire, m.kind = "progress", ~Stale(m.version, m.at)
  PROVE  MarkedVersion(m.version) = m.version /\ m.version >= server.version
BY MessageFacts DEF MarkedVersion, Stale, TypeOK

LEMMA CountedDevices ==
  ASSUME TypeOK, Timed, Counted, NEW d \in Devices, DeviceSteps(d)
  PROVE  Counted'
<1> USE DeviceFacts
<1>1. ASSUME NEW n \in Novels, SaveProgress(d, n) PROVE Counted'
  <2> DEFINE progress == [device[d].progress EXCEPT ![n] = now + 1]
             copy == [progress |-> progress, version |-> 0, stored |-> {}]
             version == device[d].version + 1
             save == Request(d, "progress", device[d].page, copy, version, FALSE)
  <2>1. wire' = wire \cup {save}
        /\ device' = [device EXCEPT ![d].progress = progress, ![d].version = version]
        /\ used' = [used EXCEPT ![d] = Later(@, version)]
        /\ UNCHANGED <<server, observed, rewound>>
    BY <1>1 DEF SaveProgress
  <2>2. save.from = d /\ save.at = now + 1 /\ save.version = version /\ version \in Nat
    BY DEF Request
  <2> HIDE DEF progress, copy, save
  <2>3. device'[d].version = version /\ used'[d] = Later(used[d], version)
    BY <2>1 DEF TypeOK, Device
  <2> SUFFICES ASSUME NEW e \in Devices \ rewound PROVE CountedBy(e)'
    BY <2>1 DEF Counted
  <2>4. CountedBy(e)
    BY DEF Counted
  <2>5. CASE e # d
    <3>1. device'[e] = device[e] /\ used'[e] = used[e] /\ Saves(e)' = Saves(e)
      BY <2>1, <2>2, <2>5 DEF TypeOK, Saves
    <3> QED
      BY <2>1, <2>4, <3>1 DEF CountedBy, observed
  <2>6. CASE e = d
    <3>1. used[d] < version /\ used'[d] = version
      BY <2>2, <2>3, <2>4, <2>6 DEF CountedBy, Later
    <3>2. Saves(d)' \subseteq Saves(d) \cup {save}
      BY <2>1 DEF Saves
    <3>3. \A m \in Saves(d) : /\ m.at \in Nat /\ m.version \in Nat
                              /\ m.at < save.at /\ m.version < save.version
      <4> SUFFICES ASSUME NEW m \in Saves(d)
                   PROVE  m.at \in Nat /\ m.version \in Nat /\ m.at < save.at /\ m.version < save.version
        OBVIOUS
      <4>1. m \in wire /\ m.version <= used[d]
        BY <2>4, <2>6 DEF Saves, CountedBy
      <4>2. m.at \in Nat /\ m.at <= now /\ m.version \in Nat
        BY <4>1, MessageFacts
      <4> QED
        BY <2>2, <3>1, <4>1, <4>2 DEF TypeOK
    <3>4. accepted[d] < save.at
      BY <2>2 DEF Timed, TimedBy, TypeOK
    <3>5. author = d => server.version <= used[d]
      BY <2>4, <2>6 DEF CountedBy
    <3>6. author' = author /\ accepted' = accepted /\ server' = server
      BY <2>1 DEF observed
    <3>7. used'[d] <= device'[d].version /\ (author' = d => server'.version <= used'[d])
      BY <2>2, <2>3, <3>1, <3>5, <3>6 DEF TypeOK
    <3>8. ASSUME NEW m \in Saves(d)'
          PROVE  /\ m.version <= used'[d]
                 /\ m.at < accepted'[d] => m.version <= server'.version
                 /\ author' = d /\ m.at > accepted'[d] => m.version > server'.version
      <4>1. CASE m = save
        BY <2>2, <3>1, <3>4, <3>5, <3>6, <4>1 DEF TypeOK
      <4>2. CASE m \in Saves(d)
        BY <2>2, <2>4, <2>6, <3>1, <3>3, <3>6, <4>2 DEF CountedBy
      <4> QED
        BY <3>2, <4>1, <4>2
    <3>9. ASSUME NEW m1 \in Saves(d)', NEW m2 \in Saves(d)'
          PROVE  (m1.at < m2.at => m1.version < m2.version) /\ (m1.at = m2.at => m1 = m2)
      <4>1. (m1 \in Saves(d) \/ m1 = save) /\ (m2 \in Saves(d) \/ m2 = save)
        BY <3>2
      <4>2. CASE m1 \in Saves(d) /\ m2 \in Saves(d)
        BY <2>4, <2>6, <4>2 DEF CountedBy
      <4>3. CASE m1 = save \/ m2 = save
        BY <2>2, <3>3, <4>1, <4>3 DEF TypeOK
      <4> QED
        BY <4>1, <4>2, <4>3
    <3> QED
      BY <2>6, <3>7, <3>8, <3>9 DEF CountedBy
  <2> QED
    BY <2>5, <2>6
<1>2. CASE SaveSettings(d) \/ SaveBookmarks(d) \/ Refresh(d)
  <2>1. \A e \in Devices : Saves(e)' \subseteq Saves(e)
    BY <1>2 DEF SaveSettings, SaveBookmarks, Refresh, Saves, Request
  <2>2. UNCHANGED <<server, device, observed, used, rewound>>
    BY <1>2 DEF SaveSettings, SaveBookmarks, Refresh, counted
  <2>3. \A e \in Devices \ rewound' : used[e] <= device'[e].version
    BY <2>2 DEF Counted, CountedBy
  <2> QED
    BY <2>1, <2>2, <2>3, CountedKept
<1>3. CASE ReloadPage(d)
  <2>1. \A e \in Devices : Saves(e)' \subseteq Saves(e)
    BY <1>3 DEF ReloadPage, Saves, Request
  <2>2. UNCHANGED <<server, observed, used>> /\ rewound \subseteq rewound'
    BY <1>3 DEF ReloadPage
  <2>3. ASSUME NEW e \in Devices \ rewound' PROVE used[e] <= device'[e].version
    <3>1. CASE e = d
      BY <1>3, <3>1 DEF ReloadPage, TypeOK
    <3>2. CASE e # d
      BY <1>3, <2>2, <3>2 DEF ReloadPage, TypeOK, Counted, CountedBy
    <3> QED
      BY <3>1, <3>2
  <2> QED
    BY <2>1, <2>2, <2>3, CountedKept
<1> QED
  BY <1>1, <1>2, <1>3 DEF DeviceSteps

\* A save that is accepted moves the server past every older save of its device.
LEMMA CountedSave ==
  ASSUME TypeOK, Timed, Counted, NEW m \in wire, ReceiveProgress(m), ~Stale(m.version, m.at)
  PROVE  Counted'
<1> USE DeviceFacts, MessageFacts
<1>1. m.kind = "progress" /\ wire' = wire \ {m}
  BY DEF ReceiveProgress
<1>2. server'.version = m.version /\ m.version >= server.version
  BY <1>1, VersionGrows DEF ReceiveProgress
<1>3. /\ accepted' = [accepted EXCEPT ![m.from] = m.at] /\ author' = m.from
      /\ UNCHANGED <<device, used, rewound>>
  BY DEF ReceiveProgress, counted
<1> SUFFICES ASSUME NEW d \in Devices \ rewound PROVE CountedBy(d)'
  BY <1>3 DEF Counted
<1>4. CountedBy(d)
  BY DEF Counted
<1>5. Saves(d)' \subseteq Saves(d)
  BY <1>1 DEF Saves
<1>6. ASSUME NEW x \in Saves(d) PROVE x \in wire /\ x.version \in Nat /\ x.at \in Nat
  <2>1. x \in wire
    BY <1>6 DEF Saves
  <2> QED
    BY <2>1
<1>7. CASE d # m.from
  <2>1. accepted'[d] = accepted[d] /\ author' # d
    BY <1>3, <1>7 DEF TypeOK
  <2>2. \A x \in Saves(d) : x.at < accepted[d] => x.version <= server'.version
    BY <1>2, <1>4, <1>6 DEF CountedBy, TypeOK
  <2> QED
    BY <1>3, <1>4, <1>5, <2>1, <2>2 DEF CountedBy
<1>8. CASE d = m.from
  <2>1. m \in Saves(d) /\ accepted'[d] = m.at
    BY <1>1, <1>3, <1>8 DEF Saves, TypeOK
  <2>2. m.version <= used[d]
    BY <1>4, <2>1 DEF CountedBy
  <2>3. ASSUME NEW x \in Saves(d)
        PROVE  (x.at < m.at => x.version <= m.version) /\ (x.at > m.at => x.version > m.version)
    <3>1. (x.at < m.at => x.version < m.version) /\ (m.at < x.at => m.version < x.version)
      BY <1>4, <2>1 DEF CountedBy
    <3> QED
      BY <1>6, <3>1
  <2> QED
    BY <1>2, <1>3, <1>4, <1>5, <2>1, <2>2, <2>3 DEF CountedBy
<1> QED
  BY <1>7, <1>8

LEMMA CountedMessages ==
  ASSUME TypeOK, Timed, Counted, NEW m \in wire, MessageSteps(m)
  PROVE  Counted'
<1> USE DeviceFacts, MessageFacts
<1>1. \A d \in Devices \ rewound : used[d] <= device[d].version
  BY DEF Counted, CountedBy
<1>2. CASE ReceiveProgress(m)
  <2>1. CASE Stale(m.version, m.at)
    <3>1. \A d \in Devices : Saves(d)' \subseteq Saves(d)
      BY <1>2 DEF ReceiveProgress, Saves
    <3>2. UNCHANGED <<server, observed, device, used, rewound>>
      BY <1>2, <2>1 DEF ReceiveProgress, counted
    <3>3. \A d \in Devices \ rewound' : used[d] <= device'[d].version
      BY <1>1, <3>2
    <3> QED
      BY <3>1, <3>2, <3>3, CountedKept
  <2> QED
    BY <1>2, <2>1, CountedSave
<1>3. CASE ReceiveShared(m)
  <2> DEFINE stale == Stale(0, m.at)
             progress == IF stale \/ m.shared = Nothing THEN server.progress ELSE m.shared.progress
             version == IF stale THEN server.version ELSE KeptVersion
             sent == IF stale THEN 0 ELSE m.version
  <2>1. progress \in Progress /\ version \in Nat /\ sent \in Nat
    BY DEF KeptVersion, TypeOK
  <2>2. wire' = (wire \ {m}) \cup Reply(m, "saved", progress, sent, Later(version, sent))
        /\ server'.version = server.version
    BY <1>3 DEF ReceiveShared, KeptVersion
  <2>3. UNCHANGED <<device, observed, used, rewound>>
    BY <1>3 DEF ReceiveShared, counted
  <2> HIDE DEF stale, progress, version, sent
  <2>4. \A r \in Reply(m, "saved", progress, sent, Later(version, sent)) : r.kind = "saved"
    BY <2>1, LaterType, ReplyType
  <2>5. \A d \in Devices : Saves(d)' \subseteq Saves(d)
    BY <2>2, <2>4 DEF Saves
  <2>6. \A d \in Devices \ rewound' : used[d] <= device'[d].version
    BY <1>1, <2>3
  <2> QED
    BY <2>2, <2>3, <2>5, <2>6, CountedKept
<1>4. CASE ReceiveRead(m)
  <2>1. \A r \in Reply(m, "state", server.progress, 0, server.version) : r.kind = "state"
    BY ReplyType DEF TypeOK
  <2>2. \A d \in Devices : Saves(d)' \subseteq Saves(d)
    BY <1>4, <2>1 DEF ReceiveRead, Saves
  <2>3. UNCHANGED <<server, device, observed, used, rewound>>
    BY <1>4 DEF ReceiveRead, counted
  <2>4. \A d \in Devices \ rewound' : used[d] <= device'[d].version
    BY <1>1, <2>3
  <2> QED
    BY <2>2, <2>3, <2>4, CountedKept
<1>5. CASE ReplySaved(m) \/ ReplyState(m) \/ ReadFails(m)
  <2>1. \A d \in Devices : Saves(d)' \subseteq Saves(d)
    BY <1>5 DEF ReplySaved, ReplyState, ReadFails, Saves
  <2>2. UNCHANGED <<server, observed, used>> /\ rewound \subseteq rewound'
    BY <1>5 DEF ReplySaved, ReplyState, ReadFails, Rewinds, counted
  <2>3. \A d \in Devices \ {m.from} : device'[d] = device[d]
    BY <1>5 DEF ReplySaved, ReplyState, ReadFails, TypeOK
  <2>4. m.from \notin rewound' => used[m.from] <= device'[m.from].version
    <3>1. CASE ReplySaved(m)
      <4> DEFINE v == IF m.own THEN device[m.from].version ELSE Adopted(m.from, m.version)
      <4>1. v \in Nat /\ device' = [device EXCEPT ![m.from].shared = m.shared, ![m.from].version = v]
        BY <3>1 DEF ReplySaved, Adopted
      <4>2. device'[m.from].version = v
        BY <4>1 DEF TypeOK, Device
      <4>3. CASE m.own
        BY <1>1, <3>1, <4>2, <4>3 DEF ReplySaved
      <4>4. CASE ~m.own
        <5>1. Rewinds(m.from, v)
          BY <3>1, <4>4 DEF ReplySaved
        <5> QED
          BY <4>1, <4>2, <5>1 DEF Rewinds
      <4> QED
        BY <4>3, <4>4
    <3>2. CASE ReplyState(m)
      <4>1. device'[m.from].version = Adopted(m.from, m.version)
        BY <3>2 DEF ReplyState, TypeOK
      <4>2. Rewinds(m.from, Adopted(m.from, m.version)) /\ Adopted(m.from, m.version) \in Nat
        BY <3>2 DEF ReplyState, Adopted
      <4> QED
        BY <4>1, <4>2 DEF Rewinds
    <3>3. CASE ReadFails(m)
      <4>1. device'[m.from].version = device[m.from].version /\ rewound' = rewound
        BY <3>3 DEF ReadFails, TypeOK, Device, counted
      <4> QED
        BY <1>1, <4>1
    <3> QED
      BY <1>5, <3>1, <3>2, <3>3
  <2>5. \A d \in Devices \ rewound' : used[d] <= device'[d].version
    BY <1>1, <2>2, <2>3, <2>4
  <2> QED
    BY <2>1, <2>2, <2>5, CountedKept
<1> QED
  BY <1>2, <1>3, <1>4, <1>5 DEF MessageSteps

LEMMA CountedRest ==
  ASSUME Counted, (\E novels \in SUBSET Novels : Grant(novels)) \/ UNCHANGED vars
  PROVE  Counted'
BY DEF Counted, CountedBy, Saves, Grant, vars, observed, counted

-----------------------------------------------------------------------------
(* The theorems.                                                           *)

LEMMA SyncInvInit == Init => SyncInv
BY TypeInit, TimedInit, CountedInit DEF SyncInv

LEMMA SyncInvNext == SyncInv /\ [Next]_vars => SyncInv'
<1> SUFFICES ASSUME TypeOK, Timed, Counted, [Next]_vars PROVE TypeOK' /\ Timed' /\ Counted'
  BY DEF SyncInv
<1>1. ASSUME NEW d \in Devices, DeviceSteps(d) PROVE TypeOK' /\ Timed' /\ Counted'
  BY <1>1, TypeDevices, TimedDevices, CountedDevices
<1>2. ASSUME NEW m \in wire, MessageSteps(m) PROVE TypeOK' /\ Timed' /\ Counted'
  BY <1>2, TypeMessages, TimedMessages, CountedMessages
<1>3. CASE (\E novels \in SUBSET Novels : Grant(novels)) \/ UNCHANGED vars
  BY <1>3, TypeRest, TimedRest, CountedRest
<1> QED
  BY <1>1, <1>2, <1>3 DEF Next, Quiescent

\* Every reachable state satisfies the inductive invariant.
THEOREM Invariance == Spec => []SyncInv
BY SyncInvInit, SyncInvNext, PTL DEF Spec

\* Devices, server and messages keep their types for any number of devices and novels.
THEOREM TypeCorrect == Spec => []TypeOK
<1>1. SyncInv => TypeOK
  BY DEF SyncInv
<1> QED
  BY <1>1, Invariance, PTL

\* A device is refused as stale only for another device's sake or a newer save's,
\* unless its counter was set back (sync-policy-service.js:172).
THEOREM NoFalseConflictHolds == Spec => []NoFalseConflict
<1>1. SyncInv => NoFalseConflict
  <2> SUFFICES ASSUME SyncInv, NEW m \in wire, m.kind = "progress", m.version <= server.version,
                      author = m.from, m.from \notin rewound
               PROVE  m.at <= accepted[m.from]
    BY DEF NoFalseConflict
  <2>1. m.from \in Devices /\ m.at \in Nat /\ m.version \in Nat /\ accepted[m.from] \in Nat
        /\ server.version \in Nat
    BY MessageFacts DEF SyncInv, TypeOK
  <2>2. CountedBy(m.from) /\ m \in Saves(m.from)
    BY <2>1 DEF SyncInv, Counted, Saves
  <2> QED
    BY <2>1, <2>2 DEF CountedBy
<1> QED
  BY <1>1, Invariance, PTL

\* The server does not go back to an older save of a device whose counter was not set
\* back, in whatever order the requests arrive (progress.mjs:145).
THEOREM OwnSavesInOrderHolds == Spec => OwnSavesInOrder
<1>1. SyncInv /\ [Next]_vars
        => [\A d \in Devices : d \notin rewound => accepted'[d] >= accepted[d]]_vars
  <2> SUFFICES ASSUME SyncInv, [Next]_vars, NEW d \in Devices, d \notin rewound
               PROVE  accepted'[d] >= accepted[d]
    OBVIOUS
  <2>1. accepted \in [Devices -> Nat] /\ TypeOK /\ Timed /\ CountedBy(d)
    BY DEF SyncInv, TypeOK, Counted
  <2>2. CASE accepted' = accepted
    BY <2>1, <2>2
  <2>3. ASSUME NEW m \in wire, ReceiveProgress(m), ~Stale(m.version, m.at)
        PROVE  accepted'[d] >= accepted[d]
    <3>1. accepted' = [accepted EXCEPT ![m.from] = m.at] /\ m.kind = "progress"
      BY <2>3 DEF ReceiveProgress
    <3>2. CASE m.from # d
      BY <2>1, <3>1, <3>2
    <3>3. CASE m.from = d
      <4>1. m \in Saves(d) /\ m.at \in Nat /\ m.version \in Nat /\ m.version >= 1
        BY <2>1, <3>1, <3>3, MessageFacts DEF Saves
      <4>2. m.version > server.version \/ server.version = 0
        BY <2>1, <2>3, <4>1 DEF Stale, TypeOK
      <4>3. ~(m.at < accepted[d])
        BY <2>1, <4>1, <4>2 DEF CountedBy, TypeOK
      <4> QED
        BY <2>1, <3>1, <3>3, <4>1, <4>3
    <3> QED
      BY <3>2, <3>3
  <2>4. accepted' = accepted \/ \E m \in wire : ReceiveProgress(m) /\ ~Stale(m.version, m.at)
    BY DEF Next, DeviceSteps, MessageSteps, SaveProgress, SaveSettings, SaveBookmarks, ReloadPage, Refresh,
           ReceiveProgress, ReceiveShared, ReceiveRead, ReplySaved, ReplyState, ReadFails, Grant, Quiescent,
           vars, observed
  <2> QED
    BY <2>2, <2>3, <2>4
<1> QED
  BY <1>1, Invariance, PTL DEF Spec, OwnSavesInOrder

\* No reply and no reload takes back what a device has read (server-state-hydration.mjs:93).
THEOREM LocalKeepsNewestHolds == Spec => LocalKeepsNewest
<1>1. SyncInv /\ [Next]_vars
        => [\A d \in Devices, n \in Novels : device'[d].progress[n] >= device[d].progress[n]]_vars
  <2> SUFFICES ASSUME SyncInv, [Next]_vars, NEW d \in Devices, NEW n \in Novels
               PROVE  device'[d].progress[n] >= device[d].progress[n]
    OBVIOUS
  <2>1. TypeOK /\ Timed
    BY DEF SyncInv
  <2>2. device[d].progress \in [Novels -> Nat] /\ device[d].progress[n] \in Nat
        /\ device[d].progress[n] <= now /\ now \in Nat
    BY <2>1, DeviceFacts DEF Timed, TimedBy, DeviceOK, Timely, Progress, TypeOK
  <2>3. CASE device'[d].progress = device[d].progress
    BY <2>2, <2>3
  <2>4. ASSUME NEW x \in Novels, SaveProgress(d, x) PROVE device'[d].progress[n] >= device[d].progress[n]
    <3>1. device'[d].progress = [device[d].progress EXCEPT ![x] = now + 1]
      BY <2>1, <2>4 DEF SaveProgress, TypeOK, Device
    <3> QED
      BY <2>2, <3>1
  <2>5. ASSUME NEW m \in wire, ReplyState(m), m.from = d, m.own
        PROVE  device'[d].progress[n] >= device[d].progress[n]
    <3>1. device'[d].progress = MergedProgress(device[d].progress, m.shared.progress)
      BY <2>1, <2>5 DEF ReplyState, TypeOK
    <3>2. m.shared.progress \in [Novels -> Nat]
      BY <2>1, <2>5, MessageFacts DEF ReplyState, Shared, Progress
    <3>3. device'[d].progress[n] = Later(m.shared.progress[n], device[d].progress[n])
      BY <3>1 DEF MergedProgress
    <3> QED
      BY <2>2, <3>2, <3>3 DEF Later
  <2>6. \/ device'[d].progress = device[d].progress
        \/ \E x \in Novels : SaveProgress(d, x)
        \/ \E m \in wire : ReplyState(m) /\ m.from = d /\ m.own
    <3>1. ASSUME NEW e \in Devices, NEW x \in Novels, SaveProgress(e, x), e # d
          PROVE  device'[d] = device[d]
      BY <2>1, <3>1 DEF SaveProgress, TypeOK
    <3>2. ASSUME NEW e \in Devices, ReloadPage(e) PROVE device'[d].progress = device[d].progress
      BY <2>1, <3>2 DEF ReloadPage, TypeOK, Device
    <3>3. ASSUME NEW m \in wire, ReplySaved(m) \/ ReadFails(m)
          PROVE  device'[d].progress = device[d].progress
      BY <2>1, <3>3 DEF ReplySaved, ReadFails, TypeOK, Device
    <3>4. ASSUME NEW m \in wire, ReplyState(m), ~(m.from = d /\ m.own)
          PROVE  device'[d].progress = device[d].progress
      BY <2>1, <3>4 DEF ReplyState, TypeOK, Device
    <3>5. ASSUME UNCHANGED device PROVE device'[d].progress = device[d].progress
      BY <3>5
    <3> QED
      BY <3>1, <3>2, <3>3, <3>4, <3>5
      DEF Next, DeviceSteps, MessageSteps, SaveSettings, SaveBookmarks, Refresh,
          ReceiveProgress, ReceiveShared, ReceiveRead, Grant, Quiescent, vars
  <2> QED
    BY <2>3, <2>4, <2>5, <2>6
<1> QED
  BY <1>1, Invariance, PTL DEF Spec, LocalKeepsNewest
=============================================================================
