----------------------------- MODULE Snapshots -----------------------------
(***************************************************************************)
(* Snapshots from a server to one client and their acknowledgement:        *)
(* CBaseClient and CGameClient (src/engine/baseclient.cpp, sv_client.cpp), *)
(* CClientState (servermsghandler.cpp, cl_ents_parse.cpp).                 *)
(*                                                                         *)
(* The server sends each snapshot as the difference to the last one the    *)
(* client acknowledged, in a datagram that may be lost.  Entities that     *)
(* enter the view are written against a baseline; both ends replace it     *)
(* from time to time with what an update has just shown, the client in the *)
(* baseline that is not in use, the server once the client has said so.    *)
(* Without a common snapshot the server sends a full update as reliable    *)
(* data and sends no other until it is acknowledged.                       *)
(*                                                                         *)
(* Datagrams of one direction arrive in order or not at all (the channel   *)
(* drops late ones), reliable messages in order and once: module NetChan.  *)
(* A datagram that does not arrive is left out when it is sent.            *)
(***************************************************************************)
EXTENDS EntityDelta, Sequences, FiniteSets

CONSTANTS
  MaxFrames,       \* frames kept for a client: sv_maxclientframes (128)
  InitialSlots,    \* slots below sv.num_edicts at the start
  ImmediateReuse,  \* ED_AllowImmediateReuse is called before slots are reused
  MaxTick,         \* bound: server ticks
  MaxSerial,       \* bound: entities per slot
  MaxRequests,     \* bound: calls of ForceFullUpdate
  MaxQueue         \* bound: datagrams and reliable messages on their way

VARIABLES
  tick,            \* m_nTickCount
  slots,           \* slots below sv.num_edicts
  edicts,          \* slot -> serial number and whether it is in use
  lastPacked,      \* m_pLastPackedData: the last pack of a slot's entity
  frames,          \* m_Frames of the CGameClient, by tick
  deltaTick,       \* m_nDeltaTick: acknowledged tick, -1 to send a full update
  forceWait,       \* m_nForceWaitForTick: full update to be acknowledged, or -1
  baselineTick,    \* m_nBaselineUpdateTick: update that replaces the baseline
  baselineUsed,    \* m_nBaselineUsed
  baselinesSent,   \* m_BaselinesSent
  baseline,        \* m_pBaseline
  disconnected,    \* the server dropped the client
  unacked,         \* full update in the channel's waiting list, or 0
  toClient,        \* updates on their way
  toServer,        \* the client's datagrams: tick and last full update received
  baselineAcks,    \* CLCMsg_BaselineAck on their way
  clDeltaTick,     \* m_nDeltaTick of the client, -1 to ask for a full update
  clFrames,        \* m_Frames of the client: transmit_entity by tick
  clBaselines,     \* m_pEntityBaselines
  clEnts,          \* the client's entities
  clActive,        \* signon state FULL
  clError,         \* the client met an update it cannot apply
  fullRead,        \* last full update the client has read, or 0
  requests,        \* number of calls of ForceFullUpdate
  shown            \* history: what the last update read was to show

serverVars == <<frames, deltaTick, forceWait, baselineTick, baselineUsed,
                baselinesSent, baseline, disconnected>>
worldVars == <<tick, slots, edicts, lastPacked>>
clientVars == <<clDeltaTick, clFrames, clBaselines, clEnts, clActive, clError,
                fullRead, requests, shown>>
vars == <<worldVars, serverVars, unacked, toClient, toServer, baselineAcks,
          clientVars>>

ASSUME SnapshotsAssumption ==
  /\ MaxFrames \in Nat \ {0} /\ InitialSlots \subseteq Edicts
  /\ ImmediateReuse \in BOOLEAN
  /\ MaxTick \in Nat /\ MaxSerial \in Nat /\ MaxRequests \in Nat
  /\ MaxQueue \in Nat

Ticks == 1 .. MaxTick
\* After CGameClient::SpawnPlayer and CBaseClientState::SVCMsg_ServerInfo: no
\* snapshot has been sent and both ends have empty baselines.
Init ==
  /\ tick = 0 /\ slots = InitialSlots
  /\ edicts = [e \in Edicts |-> [serial |-> 0, live |-> FALSE]]
  /\ lastPacked = Nothing
  /\ frames = Nothing
  /\ deltaTick = -1 /\ forceWait = -1
  /\ baselineTick = -1 /\ baselineUsed = 0 /\ baselinesSent = {}
  /\ baseline = Nothing
  /\ disconnected = FALSE
  /\ unacked = 0 /\ toClient = <<>> /\ toServer = <<>> /\ baselineAcks = <<>>
  /\ clDeltaTick = -1 /\ clFrames = Nothing
  /\ clBaselines = [b \in 0 .. 1 |-> Nothing]
  /\ clEnts = Nothing /\ clActive = FALSE /\ clError = FALSE
  /\ fullRead = 0 /\ requests = 0 /\ shown = Nothing

-----------------------------------------------------------------------------
(* The server's world: one tick of the game, and the packs of what the     *)
(* client sees.  An entity of the same slot has another serial number.      *)

\* An edict that was free, or is freed in the tick, is allocated: "reuse" after
\* ED_AllowImmediateReuse, which adds the slot to the explicit deletes.
Fates == {"stay", "free", "alloc", "reuse"}
MayMeet(fate, e) ==
  CASE fate = "stay" -> TRUE
    [] fate = "free" -> edicts[e].live
    [] fate = "alloc" -> edicts[e].serial < MaxSerial
    [] fate = "reuse" -> ImmediateReuse /\ e \in slots /\ edicts[e].serial < MaxSerial
After(fate, e) ==
  CASE fate = "stay" -> edicts[e]
    [] fate = "free" -> [edicts[e] EXCEPT !.live = FALSE]
    [] OTHER -> [serial |-> edicts[e].serial + 1, live |-> TRUE]

\* Mutant: a change is marked with the tick before it.
PackEntityBefore(e, serial, val) ==
  LET kept(p) == /\ e \in DOMAIN lastPacked
                 /\ lastPacked[e].serial = serial
                 /\ lastPacked[e].val[p] = val[p]
  IN  [serial |-> serial, val |-> val,
       chg |-> [p \in Props |-> IF kept(p) THEN lastPacked[e].chg[p] ELSE tick]]

\* SV_PackEntity: the change tick of a property is kept while its value and
\* the entity stay the same.
PackEntity(e, serial, val) ==
  LET kept(p) == /\ e \in DOMAIN lastPacked
                 /\ lastPacked[e].serial = serial
                 /\ lastPacked[e].val[p] = val[p]
  IN  [serial |-> serial, val |-> val,
       chg |-> [p \in Props |-> IF kept(p) THEN lastPacked[e].chg[p] ELSE tick + 1]]

NewFrame(fates, vals) ==
  [tick |-> tick + 1, slots |-> slots \cup {e \in Edicts : fates[e] = "alloc"},
   serial |-> [e \in Edicts |-> IF After(fates[e], e).live
                                THEN After(fates[e], e).serial ELSE 0],
   pack |-> [e \in DOMAIN vals |->
               PackEntity(e, After(fates[e], e).serial, vals[e])],
   deletes |-> {e \in Edicts : fates[e] = "reuse"}]

\* Mutant: the frame that is asked for is deleted with the older ones.
DeleteClientFramesUpTo(list, n) == Restrict(list, {t \in DOMAIN list : t > n})

\* CClientFrameManager: the frames are a list in the order of their ticks.
DeleteClientFrames(list, n) == Restrict(list, {t \in DOMAIN list : t >= n})
AddClientFrame(frame) ==
  LET ticks == DOMAIN frames \cup {frame.tick}
      kept == IF Cardinality(ticks) <= MaxFrames THEN ticks
              ELSE {t \in ticks : \E u \in ticks : u < t}
  IN  [t \in kept |-> IF t = frame.tick THEN frame ELSE frames[t]]

DeltaFrame(list) ==
  IF deltaTick \in DOMAIN list THEN list[deltaTick] ELSE NoFrame

\* OnRequestFullUpdate and FreeBaselines.
OnRequestFullUpdate ==
  /\ baseline' = Nothing /\ baselineTick' = -1 /\ baselineUsed' = 0
  /\ baselinesSent' = {}

\* WriteDeltaEntities to a client that has the frame "from", or to one that
\* has none and whose baselines have just been freed.
Update(from, to, base, used, free) ==
  LET delta == from # NoFrame
      entries == WriteEntities(from, to, base)
  IN  [tick |-> to.tick, delta |-> delta, from |-> from.tick, baseline |-> used,
       update |-> free /\ (FullProps(entries) \/ ~delta), entries |-> entries,
       deletions |-> IF delta THEN Deletions(from, to) ELSE {},
       shown |-> Shown(to)]

\* SendSnapshot while a full update is not acknowledged: only reliable data.
SendNothing ==
  /\ forceWait > 0
  /\ UNCHANGED <<forceWait, baselineTick, baselineUsed, baselinesSent, baseline,
                 unacked, toClient>>

SendFull(to) ==
  /\ baseline' = Nothing /\ baselineUsed' = 0
  /\ baselineTick' = to.tick /\ baselinesSent' = DOMAIN to.pack
  /\ forceWait' = to.tick /\ unacked' = to.tick
  /\ toClient' = Append(toClient, Update(NoFrame, to, Nothing, 0, TRUE))

\* The update of an overflowed datagram is reset: as if it were lost.
SendDelta(from, to) ==
  LET free == baselineTick = -1
      update == Update(from, to, baseline, baselineUsed, free)
  IN  /\ baselinesSent' = IF free THEN EnterPVS(from, to) ELSE baselinesSent
      /\ baselineTick' = IF update.update THEN to.tick ELSE baselineTick
      /\ \/ toClient' = toClient
         \/ toClient' = Append(toClient, update)
      /\ UNCHANGED <<forceWait, baselineUsed, baseline, unacked>>

\* CGameServer::SendClientMessages: the snapshot of the tick, the client's
\* frame (SetupPackInfo) and its update.  Every frame has a snapshot of its
\* own, so that SendSnapshot never meets m_pLastSnapshot again.
ServerFrame(fates, vals) ==
  LET to == NewFrame(fates, vals)
      list == AddClientFrame(to)
      from == DeltaFrame(list)
  IN  /\ ~disconnected /\ tick < MaxTick /\ Len(toClient) < MaxQueue
      /\ \A e \in Edicts : MayMeet(fates[e], e)
      /\ \A e \in DOMAIN vals : to.serial[e] # 0
      /\ tick' = to.tick /\ slots' = to.slots
      /\ edicts' = [e \in Edicts |-> After(fates[e], e)]
      /\ lastPacked' = [e \in DOMAIN lastPacked \cup DOMAIN to.pack |->
                          IF e \in DOMAIN to.pack THEN to.pack[e] ELSE lastPacked[e]]
      /\ frames' = list
      /\ \/ SendNothing
         \/ forceWait <= 0 /\ from = NoFrame /\ SendFull(to)
         \/ forceWait <= 0 /\ from # NoFrame /\ SendDelta(from, to)
      /\ UNCHANGED <<deltaTick, disconnected, toServer, baselineAcks, clientVars>>

-----------------------------------------------------------------------------
(* The server reads the client's messages.                                  *)

\* The end of UpdateAcknowledgedFramecount: a baseline update older than the
\* acknowledged tick was lost, or its acknowledgement is late.
Acknowledge(t) ==
  /\ deltaTick' = t
  /\ baselineTick' = IF baselineTick > -1 /\ t > baselineTick THEN -1 ELSE baselineTick

KeepWaiting == UNCHANGED <<deltaTick, forceWait, baselineTick, baselineUsed,
                           baselinesSent, baseline, disconnected>>

\* Mutant: a client that asks again for a full update is not heard.
AckWhileWaitingKeeps(t, pending) ==
  \/ /\ t # forceWait
     /\ KeepWaiting
  \/ /\ t = forceWait
     /\ forceWait' = -1
     /\ Acknowledge(t)
     /\ UNCHANGED <<baselineUsed, baselinesSent, baseline, disconnected>>

\* m_nForceWaitForTick > 0: a full update is on its way.
AckWhileWaiting(t, pending) ==
  \/ /\ t # -1 /\ t # forceWait
     /\ KeepWaiting
  \/ /\ t = -1 /\ ~pending           \* it was received: send another one
     /\ deltaTick' = -1 /\ forceWait' = -1
     /\ OnRequestFullUpdate /\ UNCHANGED disconnected
  \/ /\ t = -1 /\ pending
     /\ Acknowledge(t)
     /\ UNCHANGED <<forceWait, baselineUsed, baselinesSent, baseline, disconnected>>
  \/ /\ t = forceWait
     /\ forceWait' = -1
     /\ Acknowledge(t)
     /\ UNCHANGED <<baselineUsed, baselinesSent, baseline, disconnected>>

\* Mutant: a tick that is acknowledged twice is out of order.
AckOfDeltaOnce(t) ==
  \/ /\ deltaTick = -1
     /\ KeepWaiting
  \/ /\ deltaTick # -1 /\ t = -1
     /\ deltaTick' = t
     /\ OnRequestFullUpdate
     /\ UNCHANGED <<forceWait, disconnected>>
  \/ /\ deltaTick >= t /\ t # -1
     /\ disconnected' = TRUE
     /\ UNCHANGED <<deltaTick, forceWait, baselineTick, baselineUsed,
                    baselinesSent, baseline>>
  \/ /\ deltaTick # -1 /\ deltaTick < t
     /\ Acknowledge(t)
     /\ UNCHANGED <<forceWait, baselineUsed, baselinesSent, baseline, disconnected>>

AckOfDelta(t) ==
  \/ /\ deltaTick = -1
     /\ KeepWaiting
  \/ /\ deltaTick # -1 /\ t = -1
     /\ deltaTick' = t
     /\ OnRequestFullUpdate
     /\ UNCHANGED <<forceWait, disconnected>>
  \/ /\ deltaTick > t /\ t # -1      \* "Client delta ticks out of order."
     /\ disconnected' = TRUE
     /\ UNCHANGED <<deltaTick, forceWait, baselineTick, baselineUsed,
                    baselinesSent, baseline>>
  \/ /\ deltaTick # -1 /\ deltaTick <= t
     /\ Acknowledge(t)
     /\ UNCHANGED <<forceWait, baselineUsed, baselinesSent, baseline, disconnected>>

\* NETMsg_Tick of a datagram.  Its header has told the channel which full
\* update arrived; other reliable data may still be pending.
ServerReadTick(other) ==
  LET msg == Head(toServer)
      left == IF msg.fullRead = unacked THEN 0 ELSE unacked
  IN  /\ ~disconnected /\ toServer # <<>>
      /\ toServer' = Tail(toServer)
      /\ unacked' = left
      /\ frames' = IF msg.tick # deltaTick /\ msg.tick > 0
                   THEN DeleteClientFrames(frames, msg.tick) ELSE frames
      /\ \/ forceWait > 0 /\ AckWhileWaiting(msg.tick, other \/ left # 0)
         \/ forceWait <= 0 /\ AckOfDelta(msg.tick)
      /\ UNCHANGED <<worldVars, toClient, baselineAcks, clientVars>>

\* Mutant: an acknowledgement answers for whichever update is out.
AnswersNumber(ack) == ack.nr = baselineUsed /\ baselineTick \in DOMAIN frames

\* An acknowledgement of an update that was given up, or of one whose frame is
\* gone, is dropped.
Answers(ack) ==
  ack.tick = baselineTick /\ ack.nr = baselineUsed /\ baselineTick \in DOMAIN frames

\* CLCMsg_BaselineAck: the client has replaced its other baseline.
ServerReadBaselineAck ==
  LET taken == Answers(Head(baselineAcks))
  IN  /\ ~disconnected /\ baselineAcks # <<>>
      /\ baselineAcks' = Tail(baselineAcks)
      /\ \/ /\ ~taken
            /\ UNCHANGED <<baseline, baselineUsed, baselineTick>>
         \/ /\ taken
            /\ LET pack == frames[baselineTick].pack
               IN  /\ baselinesSent \subseteq DOMAIN pack
                   /\ baseline' = [e \in DOMAIN baseline \cup baselinesSent |->
                                     IF e \in baselinesSent THEN pack[e].val
                                     ELSE baseline[e]]
            /\ baselineUsed' = 1 - baselineUsed
            /\ baselineTick' = -1
      /\ UNCHANGED <<worldVars, frames, deltaTick, forceWait, baselinesSent,
                     disconnected, unacked, toClient, toServer, clientVars>>

-----------------------------------------------------------------------------
(* The client.                                                              *)

\* CL_SendMove: every datagram says which snapshot the client has.
ClientSendTick ==
  /\ clActive /\ ~disconnected /\ Len(toServer) < MaxQueue
  /\ toServer' = Append(toServer, [tick |-> clDeltaTick, fullRead |-> fullRead])
  /\ UNCHANGED <<worldVars, serverVars, unacked, toClient, baselineAcks, clientVars>>

\* ForceFullUpdate: the connection had a problem, a console command.
ForceFullUpdate ==
  /\ clActive /\ clDeltaTick # -1 /\ requests < MaxRequests
  /\ clDeltaTick' = -1
  /\ clBaselines' = [b \in 0 .. 1 |-> Nothing]
  /\ requests' = requests + 1
  /\ UNCHANGED <<worldVars, serverVars, unacked, toClient, toServer, baselineAcks,
                 clFrames, clEnts, clActive, clError, fullRead, shown>>

\* Mutant: only the frame of the update is kept.
OldestKeptNewest(msg) == msg.tick

\* A delta says that the server will not use older frames again.
OldestKept(msg) == IF msg.delta THEN msg.from ELSE 0

\* CL_ProcessPacketEntities on a view and entities the update is relative to.
ProcessPacketEntities(msg, view, ents, bases) ==
  LET base == IF msg.delta THEN bases[msg.baseline] ELSE Nothing
      other == 1 - msg.baseline
  IN  /\ clEnts' = ReadEntities(ents, msg.entries, msg.deletions, base)
      /\ clBaselines' =
           IF msg.update
           THEN [bases EXCEPT ![other] =
                   MergeBaseline(bases[msg.baseline], msg.entries, base)]
           ELSE bases
      /\ baselineAcks' =
           IF msg.update
           THEN Append(baselineAcks, [tick |-> msg.tick, nr |-> msg.baseline])
           ELSE baselineAcks
      /\ clFrames' =
           LET kept == DeleteClientFrames(clFrames, OldestKept(msg))
           IN  [t \in DOMAIN kept \cup {msg.tick} |->
                  IF t = msg.tick THEN Transmitted(view, msg.entries) ELSE kept[t]]
      /\ clDeltaTick' = msg.tick
      /\ clActive' = TRUE
      /\ shown' = msg.shown

ClientRead ==
  /\ toClient # <<>>
  /\ toClient' = Tail(toClient)
  /\ UNCHANGED <<worldVars, serverVars, unacked, toServer, requests>>

\* A delta while a full update is asked for is ignored.
ClientIgnoresDelta ==
  /\ ClientRead
  /\ Head(toClient).delta /\ clDeltaTick = -1
  /\ UNCHANGED <<baselineAcks, clDeltaTick, clFrames, clBaselines, clEnts,
                 clActive, clError, fullRead, shown>>

\* "Update delta not found", "missing client entity": Host_Error drops the
\* connection in the second case, the message is lost in the first.
Unreadable(msg) ==
  \/ msg.from \notin DOMAIN clFrames
  \/ ~(Changed(msg.entries) \subseteq DOMAIN clEnts)

ClientReadsDelta ==
  /\ ClientRead
  /\ Head(toClient).delta /\ clDeltaTick # -1
  /\ IF Unreadable(Head(toClient))
     THEN /\ clError' = TRUE
          /\ UNCHANGED <<baselineAcks, clDeltaTick, clFrames, clBaselines, clEnts,
                         clActive, shown>>
     ELSE /\ ProcessPacketEntities(Head(toClient), clFrames[Head(toClient).from],
                                   clEnts, clBaselines)
          /\ clError' = clError
  /\ fullRead' = fullRead

\* A full update deletes every entity and both baselines first.
ClientReadsFull ==
  /\ ClientRead
  /\ ~Head(toClient).delta
  /\ ProcessPacketEntities(Head(toClient), {}, Nothing,
                           [b \in 0 .. 1 |-> Nothing])
  /\ fullRead' = Head(toClient).tick
  /\ clError' = clError

ClientReads == ClientIgnoresDelta \/ ClientReadsDelta \/ ClientReadsFull

-----------------------------------------------------------------------------
Next ==
  \/ \E fates \in [Edicts -> Fates], seen \in SUBSET Edicts :
       \E vals \in [seen -> PropValues] : ServerFrame(fates, vals)
  \/ \E other \in BOOLEAN : ServerReadTick(other)
  \/ ServerReadBaselineAck
  \/ ClientSendTick
  \/ ForceFullUpdate
  \/ ClientReads

Spec == Init /\ [][Next]_vars

\* Messages are read, and of the client's datagrams that arrive it is not for
\* ever the case that each meets other reliable data still waiting.
FairSpec ==
  /\ Spec
  /\ WF_vars(ClientSendTick) /\ WF_vars(ClientReads)
  /\ SF_vars(ServerReadTick(FALSE))

-----------------------------------------------------------------------------
(* Properties.                                                              *)

\* The types of the server's state and of the ticks on their way.
TypeOK ==
  /\ tick \in 0 .. MaxTick /\ slots \subseteq Edicts
  /\ edicts \in [Edicts -> [serial : 0 .. MaxSerial, live : BOOLEAN]]
  /\ PerEdict(lastPacked, Packs)
  /\ DOMAIN frames \subseteq Ticks /\ \A t \in DOMAIN frames : IsFrame(frames[t])
  /\ deltaTick \in Ticks \cup {-1} /\ forceWait \in Ticks \cup {-1}
  /\ baselineTick \in Ticks \cup {-1} /\ baselineUsed \in 0 .. 1
  /\ baselinesSent \subseteq Edicts /\ PerEdict(baseline, PropValues)
  /\ disconnected \in BOOLEAN /\ unacked \in 0 .. MaxTick
  /\ toServer \in Seq([tick : Ticks \cup {-1}, fullRead : 0 .. MaxTick])
  /\ \A i \in 1 .. Len(toClient) : toClient[i].tick \in Ticks
  /\ clDeltaTick \in Ticks \cup {-1}
  /\ clActive \in BOOLEAN /\ clError \in BOOLEAN /\ fullRead \in 0 .. MaxTick
  /\ requests \in 0 .. MaxRequests

\* What the client shows is what the server had in its view at the tick of the
\* last update the client read: the entities its newest frame transmits are
\* those, each the same entity with the same values, whichever snapshot the
\* update was relative to and whatever was lost since (WriteDeltaEntities read
\* back by CL_ProcessPacketEntities).
ShowsServerState ==
  clActive =>
    /\ \E t \in DOMAIN clFrames : /\ \A u \in DOMAIN clFrames : u <= t
                                  /\ clFrames[t] = DOMAIN shown
    /\ DOMAIN shown \subseteq DOMAIN clEnts
    /\ \A e \in DOMAIN shown : clEnts[e] = shown[e]

\* Between any two snapshots the server keeps, a property whose change tick is
\* not after the older one has its value in both, whatever entities lived in
\* the slot meanwhile: what an update leaves out is what the client has.
ChangesMarked(from, to) ==
  \A e \in DOMAIN from.pack \cap DOMAIN to.pack :
    from.serial[e] = to.serial[e] =>
      \A p \in Props : to.pack[e].chg[p] <= from.tick
                         => to.pack[e].val[p] = from.pack[e].val[p]
UnmarkedIsUnchanged ==
  \A t, u \in DOMAIN frames : t < u => ChangesMarked(frames[t], frames[u])

\* The client still has the snapshot every update it reads is relative to, and
\* every entity that changes: no "Update delta not found" (servermsghandler),
\* no Host_Error of CL_CopyExistingEntity.
ClientCanRead == ~clError

\* The server never finds an acknowledgement older than the one before: the
\* disconnection of UpdateAcknowledgedFramecount is for broken clients only.
NeverDisconnected == ~disconnected

\* While a full update is awaited nothing newer was sent, so that no tick above
\* it is acknowledged ("we should never get here" for nTick above
\* m_nForceWaitForTick).
FullAckNeverAhead ==
  forceWait > 0 => \A i \in 1 .. Len(toServer) : toServer[i].tick <= forceWait

\* Both ends hold the same baseline under the number the server writes in its
\* updates, except while a full update that empties both is asked for or
\* on its way: what enters the view is never read against another baseline.
BaselinesAgree ==
  (clDeltaTick # -1 /\ \A i \in DOMAIN toClient : toClient[i].delta)
    => clBaselines[baselineUsed] = baseline

\* The entities noted for a baseline update are in the frame that
\* CLCMsg_BaselineAck takes their packs from, however late it is answered.
BaselineOfFrame ==
  baselineTick \in DOMAIN frames =>
    baselinesSent \subseteq DOMAIN frames[baselineTick].pack

\* A full update the client did not ask for is sent only when it lags as many
\* snapshots behind as the server keeps: acknowledgements never delete the
\* frame they acknowledge.
FullOnlyWhenLate ==
  (forceWait <= 0 /\ deltaTick > 0 /\ deltaTick \notin DOMAIN frames)
    => Cardinality(DOMAIN frames) = MaxFrames

\* An update never deletes at its end an entity it shows: the Assert of
\* SV_WriteDeletions.
DeletedNotTransmitted ==
  \A i \in DOMAIN toClient :
    toClient[i].deletions \cap DOMAIN toClient[i].shown = {}

\* The server does not wait for a full update for ever, whether the client
\* gets it, asks again or both.
FullUpdateCompletes == forceWait > 0 ~> forceWait = -1
=============================================================================
