------------------------------- MODULE StateSync -------------------------------
(***************************************************************************)
(* The reading positions of one user on several devices and on the server  *)
(* (state-write-service.js, sync-policy-service.js and, on the devices,    *)
(* progress.mjs, server-state-hydration.mjs and the savers of shared       *)
(* settings).                                                              *)
(*                                                                         *)
(* A device counts its saves in a version of its own and sends its whole   *)
(* progress; the server takes a save whose version is above its own.       *)
(* Shared settings travel with the copy of the shared state the device got *)
(* last, progress included, and are compared by time.  Requests overtake   *)
(* each other, and a request or its reply may be lost.                     *)
(*                                                                         *)
(* A position is the time it was saved at, 0 for none.  All clocks agree,  *)
(* and no two readings of them are equal.                                  *)
(***************************************************************************)
EXTENDS Integers, FiniteSets

CONSTANTS
  Devices, Novels,
  Nothing,                        \* no shared state
  MaxSaves,                       \* bound on the saves of progress in a run
  MaxOthers                       \* and on settings, bookmarks, reads and grants

ASSUME SyncAssumption ==
  /\ MaxSaves \in Nat /\ MaxOthers \in Nat
  /\ Nothing \notin Devices
  /\ Nothing \notin [progress : [Novels -> Nat], version : Nat, stored : SUBSET Novels]

VARIABLES
  now,       \* the clock
  server,    \* progress, version and time of the shared state
  access,    \* the novels the user may see
  device,    \* what each device keeps
  wire,      \* requests and replies on their way
  accepted,  \* by device, the time of its newest accepted save
  author,    \* the device whose save gave the server its version
  rewound,   \* the devices whose counter was set back below a version they had used
  used,      \* by device, the highest version it has used
  left       \* how much of each bound is left

observed == <<accepted, author>>
counted == <<rewound, used>>
vars == <<now, server, access, device, wire, observed, counted, left>>

Progress == [Novels -> Nat]
\* The shared state as it travels.  "stored" is no part of it: it tells which novels
\* had a position on the server when it was read there.
Shared == [progress : Progress, version : Nat, stored : SUBSET Novels]
Device == [phase : {"loading", "open"}, page : Nat, progress : Progress,
           version : Nat, shared : Shared \cup {Nothing}]
Message == [kind : {"progress", "shared", "read", "saved", "state"},
            from : Devices, page : Nat, at : Nat,
            shared : Shared \cup {Nothing}, version : Nat,
            own : BOOLEAN]  \* a read that merges; a save that keeps what it sent

TypeOK ==
  /\ now \in Nat
  /\ server \in [progress : Progress, version : Nat, updatedAt : Nat]
  /\ access \subseteq Novels
  /\ device \in [Devices -> Device]
  /\ wire \subseteq Message
  /\ accepted \in [Devices -> Nat]
  /\ author \in Devices \cup {Nothing}
  /\ rewound \subseteq Devices
  /\ used \in [Devices -> Nat]
  /\ left \in [saves : Nat, others : Nat]

NoProgress == [n \in Novels |-> 0]
Later(a, b) == IF a >= b THEN a ELSE b

\* Every device has read the state of a user who has not read anything yet.
Init ==
  /\ now = 0
  /\ server = [progress |-> NoProgress, version |-> 0, updatedAt |-> 0]
  /\ access = Novels
  /\ device = [d \in Devices |-> [phase |-> "open", page |-> 0, progress |-> NoProgress, version |-> 0,
                                  shared |-> [progress |-> NoProgress, version |-> 0, stored |-> {}]]]
  /\ wire = {}
  /\ accepted = [d \in Devices |-> 0]
  /\ author = Nothing
  /\ rewound = {}
  /\ used = [d \in Devices |-> 0]
  /\ left = [saves |-> MaxSaves, others |-> MaxOthers]

-----------------------------------------------------------------------------
(* The devices.                                                            *)

Request(d, kind, page, shared, version, own) ==
  [kind |-> kind, from |-> d, page |-> page, at |-> now + 1,
   shared |-> shared, version |-> version, own |-> own]

Spend(what) == left[what] > 0 /\ left' = [left EXCEPT ![what] = @ - 1]
Tick == now' = now + 1

\* saveProgress(): the device counts, whatever becomes of the request.
SaveProgress(d, n) ==
  /\ device[d].phase = "open"
  /\ Spend("saves")
  /\ Tick
  /\ LET progress == [device[d].progress EXCEPT ![n] = now + 1]
         version == device[d].version + 1
     IN /\ device' = [device EXCEPT ![d].progress = progress, ![d].version = version]
        /\ used' = [used EXCEPT ![d] = Later(@, version)]
        /\ wire' = wire \cup {Request(d, "progress", device[d].page,
                                      [progress |-> progress, version |-> 0, stored |-> {}],
                                      version, FALSE)}
  /\ UNCHANGED <<server, access, observed, rewound>>

\* The syncVersion that goes with the shared state: the device's own counter
\* (themes, fonts), or whatever the copy carries.
CopyVersion(d) == IF device[d].shared = Nothing THEN 0 ELSE device[d].shared.version
SentVersions(d) ==
  {CopyVersion(d), IF device[d].version > 0 THEN device[d].version ELSE CopyVersion(d)}

\* A setting that all devices share: the copy of the shared state goes with it.
SaveSettings(d) ==
  /\ Spend("others")
  /\ Tick
  /\ \E v \in SentVersions(d) :
       wire' = wire \cup {Request(d, "shared", device[d].page, device[d].shared, v, FALSE)}
  /\ UNCHANGED <<server, access, device, observed, counted>>

\* A bookmark, a favourite or a recent item: sent only with a copy at hand.
SaveBookmarks(d) ==
  /\ device[d].phase = "open"
  /\ device[d].shared # Nothing
  /\ Spend("others")
  /\ Tick
  /\ wire' = wire \cup {Request(d, "shared", device[d].page, device[d].shared,
                                CopyVersion(d), TRUE)}
  /\ UNCHANGED <<server, access, device, observed, counted>>

Saving == {"progress", "shared"}

\* The page is loaded again: local progress is kept, the counter and the
\* copy are not, and replies to the old page reach nobody.
ReloadPage(d) ==
  /\ Spend("others")
  /\ Tick
  /\ device' = [device EXCEPT ![d] = [phase |-> "loading", page |-> @.page + 1, version |-> 0,
                                      progress |-> @.progress, shared |-> Nothing]]
  /\ wire' = {m \in wire : m.from # d \/ m.kind \in Saving}
               \cup {Request(d, "read", device[d].page + 1, Nothing, 0, TRUE)}
  /\ rewound' = IF used[d] > 0 THEN rewound \cup {d} ELSE rewound
  /\ UNCHANGED <<server, access, observed, used>>

\* refreshSyncState(): the copy and the versions are read again, nothing is merged.
Refresh(d) ==
  /\ device[d].phase = "open"
  /\ Spend("others")
  /\ Tick
  /\ wire' = wire \cup {Request(d, "read", device[d].page, Nothing, 0, FALSE)}
  /\ UNCHANGED <<server, access, device, observed, counted>>

-----------------------------------------------------------------------------
(* The server.  A reply to a page that is gone reaches nobody.             *)

\* evaluateSharedWrite(), with the slip that compares nothing.
NeverStale(version, at) == FALSE
Stale(version, at) ==
  \/ version > 0 /\ server.version > 0 /\ version <= server.version
  \/ version = 0 /\ at > 0 /\ server.updatedAt > 0 /\ at < server.updatedAt

\* filterProgressByAllowedNovelIds(); the slip filters the novels, not the positions.
VisibleNovels(progress) == [n \in access |-> progress[n]]
Visible(progress) == [n \in Novels |-> IF n \in access THEN progress[n] ELSE 0]

\* The reply to m with the shared state and version at hand, filtered by access.
Reply(m, kind, progress, sent, version) ==
  IF m.page = device[m.from].page
  THEN {[m EXCEPT !.kind = kind, !.version = version,
                  !.shared = IF m.own /\ kind = "saved" THEN m.shared
                             ELSE [progress |-> Visible(progress), version |-> sent,
                                   stored |-> {n \in Novels : progress[n] > 0}]]}
  ELSE {}

\* markSharedSyncVersion() in saveProgressState().
MarkedVersion(version) == IF version > 0 THEN version ELSE server.version + 1

\* saveProgressState(); its reply tells the device nothing it keeps.
ReceiveProgress(m) ==
  /\ m \in wire
  /\ m.kind = "progress"
  /\ wire' = wire \ {m}
  /\ IF Stale(m.version, m.at)
     THEN UNCHANGED <<now, server, observed>>
     ELSE /\ Tick
          /\ server' = [progress |-> m.shared.progress, version |-> MarkedVersion(m.version),
                        updatedAt |-> now + 1]
          /\ accepted' = [accepted EXCEPT ![m.from] = m.at]
          /\ author' = m.from
  /\ UNCHANGED <<access, device, counted, left>>

\* The version a shared write leaves: the slip counts it like a save of progress.
BumpedVersion == server.version + 1
KeptVersion == server.version

\* saveSharedState(): by time only, and with the progress the request carries.
ReceiveShared(m) ==
  /\ m \in wire
  /\ m.kind = "shared"
  /\ LET stale == Stale(0, m.at)
         progress == IF stale \/ m.shared = Nothing THEN server.progress ELSE m.shared.progress
         version == IF stale THEN server.version ELSE KeptVersion
         sent == IF stale THEN 0 ELSE m.version
     IN /\ IF stale THEN UNCHANGED <<now, server>>
           ELSE /\ Tick
                /\ server' = [progress |-> progress, version |-> version, updatedAt |-> now + 1]
        /\ wire' = (wire \ {m}) \cup Reply(m, "saved", progress, sent, Later(version, sent))
  /\ UNCHANGED <<access, device, observed, counted, left>>

\* getUserStateResponse().
ReceiveRead(m) ==
  /\ m \in wire
  /\ m.kind = "read"
  /\ wire' = (wire \ {m}) \cup Reply(m, "state", server.progress, 0, server.version)
  /\ UNCHANGED <<now, server, access, device, observed, counted, left>>

\* The owner changes what the user may see.
Grant(novels) ==
  /\ novels # access
  /\ Spend("others")
  /\ access' = novels
  /\ UNCHANGED <<now, server, device, wire, observed, counted>>

-----------------------------------------------------------------------------
(* Replies.                                                                *)

\* The counter of device d is set to v, if that is a version at all.
Adopted(d, v) == IF v > 0 THEN v ELSE device[d].version
Rewinds(d, v) == rewound' = IF v < used[d] THEN rewound \cup {d} ELSE rewound

\* putShared() has returned.  A bookmark's saver keeps the copy it had sent and
\* looks at nothing else.
ReplySaved(m) ==
  /\ m \in wire
  /\ m.kind = "saved"
  /\ wire' = wire \ {m}
  /\ LET d == m.from
         v == IF m.own THEN device[d].version ELSE Adopted(d, m.version)
     IN /\ device' = [device EXCEPT ![d].shared = m.shared, ![d].version = v]
        /\ IF m.own THEN UNCHANGED rewound ELSE Rewinds(d, v)
  /\ UNCHANGED <<now, server, access, observed, used, left>>

\* mergeProgress(): the later position of every novel.  The slip lets the server win.
ServersProgress(local, remote) == remote
MergedProgress(local, remote) == [n \in Novels |-> Later(remote[n], local[n])]

\* applyServerStateData().
ReplyState(m) ==
  /\ m \in wire
  /\ m.kind = "state"
  /\ wire' = wire \ {m}
  /\ LET d == m.from
         v == Adopted(d, m.version)
         old == device[d]
     IN /\ device' = [device EXCEPT ![d] =
              [phase |-> IF m.own THEN "open" ELSE old.phase, page |-> old.page,
               progress |-> IF m.own THEN MergedProgress(old.progress, m.shared.progress)
                            ELSE old.progress,
               version |-> v, shared |-> m.shared]]
        /\ Rewinds(d, v)
  /\ UNCHANGED <<now, server, access, observed, used, left>>

\* Reading the server's state failed at start: the page opens without it.  Any
\* other message that is lost is one that stays on its way for ever.
ReadFails(m) ==
  /\ m \in wire
  /\ m.kind \in {"read", "state"}
  /\ m.own
  /\ wire' = wire \ {m}
  /\ device' = [device EXCEPT ![m.from].phase = "open"]
  /\ UNCHANGED <<now, server, access, observed, counted, left>>

\* Nothing is on its way and the users have done all they may.
Quiescent ==
  /\ wire = {}
  /\ left = [saves |-> 0, others |-> 0]
  /\ UNCHANGED vars

DeviceSteps(d) ==
  \/ \E n \in Novels : SaveProgress(d, n)
  \/ SaveSettings(d)
  \/ SaveBookmarks(d)
  \/ ReloadPage(d)
  \/ Refresh(d)

MessageSteps(m) ==
  \/ ReceiveProgress(m)
  \/ ReceiveShared(m)
  \/ ReceiveRead(m)
  \/ ReplySaved(m)
  \/ ReplyState(m)
  \/ ReadFails(m)

Next ==
  \/ \E d \in Devices : DeviceSteps(d)
  \/ \E m \in wire : MessageSteps(m)
  \/ \E novels \in SUBSET Novels : Grant(novels)
  \/ Quiescent

Spec == Init /\ [][Next]_vars

-----------------------------------------------------------------------------
\* A device is refused as stale only because another device has saved, or
\* because a newer save of its own has overtaken it - unless its counter was set
\* back by a reload or by a reply that was older than its saves
\* (sync-policy-service.js:172, progress.mjs:145).
NoFalseConflict ==
  \A m \in wire :
    m.kind = "progress" /\ m.version <= server.version /\ author = m.from
      => m.at <= accepted[m.from] \/ m.from \in rewound

\* Requests of one device may overtake each other, but the server never goes from
\* its newer position back to its older one, unless its counter was set back.
OwnSavesInOrder ==
  [][\A d \in Devices : d \notin rewound => accepted'[d] >= accepted[d]]_vars

\* What a device has read is never taken back by what the server sends: neither
\* by a reply that was on its way during a save nor by a reload.
LocalKeepsNewest ==
  [][\A d \in Devices, n \in Novels : device'[d].progress[n] >= device[d].progress[n]]_vars

\* A position the user may not see at the moment stays stored for the day access is
\* given back: a device that read the state when it was stored does not remove it by
\* saving a setting (docs/multi-user-access-control.md:41: responses are filtered, the
\* stored data is not deleted).
HiddenDataIsKept ==
  [][\A m \in wire \ wire', n \in Novels \ access :
       m.kind = "shared" /\ m.shared # Nothing /\ server.progress[n] > 0
         => (n \in m.shared.stored => server'.progress[n] > 0)]_vars
=============================================================================
