--------------------------- MODULE SnapshotProofs ---------------------------
(***************************************************************************)
(* What holds of snapshots for every number of ticks, of entities and of   *)
(* messages on their way.                                                  *)
(*                                                                         *)
(*   1. What an update says is what its reader understands.                *)
(*   2. The ticks on their way stay in an order in which the server never  *)
(*      drops a client.                                                    *)
(*   3. A full update is awaited by one end only while the other makes it  *)
(*      come to an end.                                                    *)
(*   4. Only frames that are too old are missing.                          *)
(*   5. Every frame made so far, kept or not, is what later ones and the   *)
(*      updates on their way are told from.                                *)
(*   6. Both ends have the same baseline.                                  *)
(*   7. The client has every snapshot the server may still use, and shows  *)
(*      what the last update shows.                                        *)
(*                                                                         *)
(* The parts 5 to 7 speak of frames the server no longer has.  They are    *)
(* invariants of the form \E H : Inv(H), where H[t] is the frame of tick   *)
(* t: a step of the server adds one to H, others leave H alone.            *)
(***************************************************************************)
EXTENDS Snapshots, FiniteSetTheorems, TLAPS

-----------------------------------------------------------------------------
(* 1. Updates.                                                              *)

\* The client's entities include those the frame shows.
ShowsFrame(ents, frame) ==
  /\ DOMAIN frame.pack \subseteq DOMAIN ents
  /\ \A e \in DOMAIN frame.pack :
       ents[e] = [serial |-> frame.serial[e], val |-> frame.pack[e].val]

\* Overlaying the difference to a value gives the value back.
LEMMA OverlayDifference ==
  ASSUME NEW val \in PropValues, NEW old \in PropValues, NEW D \in SUBSET Props,
         \A p \in Props \ D : val[p] = old[p]
  PROVE  Overlay(Restrict(val, D), old) = val
BY DEF Overlay, Restrict, PropValues

\* The baseline an entity is encoded against is a value of every property.
LEMMA BaseType ==
  ASSUME NEW b, PerEdict(b, PropValues), NEW e \in Edicts
  PROVE  Base(b, e) \in PropValues
BY EntityDeltaAssumption DEF PerEdict, Base, PropValues

\* Entries of the three kinds, which the reader tells apart.
EntriesOf(entries, from, to, b) ==
  /\ DOMAIN entries = EnterPVS(from, to) \cup LeavePVS(from, to)
                        \cup DeltaEnts(from, to)
  /\ \A e \in EnterPVS(from, to) : entries[e] = EnterEntry(to, b, e)
  /\ \A e \in LeavePVS(from, to) : entries[e] = LeaveEntry(from, to, e)
  /\ \A e \in DeltaEnts(from, to) : entries[e] = DeltaEntry(from, to, e)

LEMMA WrittenEntries ==
  ASSUME NEW from, NEW to, NEW b
  PROVE  EntriesOf(WriteEntities(from, to, b), from, to, b)
<1> DEFINE entries == WriteEntities(from, to, b)
<1>1. /\ EnterPVS(from, to) \cap LeavePVS(from, to) = {}
      /\ EnterPVS(from, to) \cap DeltaEnts(from, to) = {}
      /\ LeavePVS(from, to) \cap DeltaEnts(from, to) = {}
  BY DEF EnterPVS, LeavePVS, DeltaEnts
<1>2. DOMAIN entries = EnterPVS(from, to) \cup LeavePVS(from, to)
                         \cup DeltaEnts(from, to)
  BY DEF WriteEntities
<1>3. \A e \in DOMAIN entries : entries[e] = Entry(from, to, b, e)
  BY DEF WriteEntities
<1> HIDE DEF entries
<1>4. \A e \in EnterPVS(from, to) : entries[e] = EnterEntry(to, b, e)
  BY <1>1, <1>2, <1>3 DEF Entry
<1>5. \A e \in LeavePVS(from, to) : entries[e] = LeaveEntry(from, to, e)
  BY <1>1, <1>2, <1>3 DEF Entry
<1>6. \A e \in DeltaEnts(from, to) : entries[e] = DeltaEntry(from, to, e)
  BY <1>1, <1>2, <1>3 DEF Entry
<1>7. EntriesOf(entries, from, to, b)
  BY <1>2, <1>4, <1>5, <1>6 DEF EntriesOf
<1> QED BY <1>7 DEF entries

LEMMA EntryKinds ==
  ASSUME NEW from, NEW to, NEW b, NEW entries, EntriesOf(entries, from, to, b)
  PROVE  /\ Entered(entries) = EnterPVS(from, to)
         /\ Changed(entries) = DeltaEnts(from, to)
         /\ \A e \in DOMAIN entries :
              entries[e].kind = "leave" => e \in LeavePVS(from, to)
<1>1. \A e \in EnterPVS(from, to) : entries[e].kind = "enter"
  BY DEF EntriesOf, EnterEntry
<1>2. \A e \in LeavePVS(from, to) : entries[e].kind = "leave"
  BY DEF EntriesOf, LeaveEntry
<1>3. \A e \in DeltaEnts(from, to) : entries[e].kind = "delta"
  BY DEF EntriesOf, DeltaEntry
<1>4. /\ "enter" # "delta"
      /\ "enter" # "leave"
      /\ "delta" # "leave"
  OBVIOUS
<1> QED BY <1>1, <1>2, <1>3, <1>4 DEF EntriesOf, Entered, Changed

\* The frame the client builds transmits what the server's frame packs.
THEOREM UpdateTransmits ==
  ASSUME NEW from, NEW to, NEW b
  PROVE  Transmitted(DOMAIN from.pack, WriteEntities(from, to, b)) = DOMAIN to.pack
<1> DEFINE entries == WriteEntities(from, to, b)
<1>1. EntriesOf(entries, from, to, b)
  BY WrittenEntries
<1> HIDE DEF entries
<1>2. Entered(entries) = EnterPVS(from, to) /\ Changed(entries) = DeltaEnts(from, to)
  BY <1>1, EntryKinds
<1>3. Transmitted(DOMAIN from.pack, entries) = DOMAIN to.pack
  BY <1>1, <1>2 DEF EntriesOf, Transmitted, EnterPVS, LeavePVS, DeltaEnts
<1> QED BY <1>3 DEF entries

\* What the client has of an entity when it has read an update: what the update
\* shows, even when it had the entity as it was later than the snapshot the
\* update is relative to, or, of one that is not in the view, what it had.
LEMMA EntityRead ==
  ASSUME NEW from, NEW to, NEW b, NEW ents, NEW deletions,
         from.tick \in Int, IsFrame(to), PerEdict(b, PropValues),
         NEW read, read = ReadEntities(ents, WriteEntities(from, to, b), deletions, b),
         NEW e, e \notin deletions,
         e \in DOMAIN ents \/ e \in EnterPVS(from, to),
         e \in DOMAIN to.pack \/ to.serial[e] # 0
  PROVE  /\ e \in DOMAIN read
         /\ e \in EnterPVS(from, to) =>
              read[e] = [serial |-> to.serial[e], val |-> to.pack[e].val]
         /\ e \in DOMAIN to.pack \ EnterPVS(from, to) =>
              \A old \in PropValues :
                /\ ents[e] = [serial |-> to.serial[e], val |-> old]
                /\ \A p \in Props : to.pack[e].chg[p] <= from.tick
                                      => to.pack[e].val[p] = old[p]
                => read[e] = [serial |-> to.serial[e], val |-> to.pack[e].val]
         /\ e \notin DOMAIN to.pack => read[e] = ents[e]
<1>1. PICK entries : entries = WriteEntities(from, to, b)
  OBVIOUS
<1>2. EntriesOf(entries, from, to, b)
  BY <1>1, WrittenEntries
<1>3. /\ Entered(entries) = EnterPVS(from, to)
      /\ Changed(entries) = DeltaEnts(from, to)
      /\ \A k \in DOMAIN entries :
           entries[k].kind = "leave" => k \in LeavePVS(from, to)
  BY <1>2, EntryKinds
<1>4. e \notin Deleted(entries, deletions)
  <2>1. e \in LeavePVS(from, to) => ~entries[e].delete
    <3> SUFFICES ASSUME e \in LeavePVS(from, to) PROVE ~entries[e].delete
      OBVIOUS
    <3>1. LeaveEntry(from, to, e) = [kind |-> "leave", delete |-> FALSE]
      BY DEF LeaveEntry, NeedsExplicitDestroy, LeavePVS
    <3> QED BY <1>2, <3>1 DEF EntriesOf
  <2> QED BY <1>3, <2>1 DEF Deleted
<1>5. e \in (DOMAIN ents \cup Entered(entries)) \ Deleted(entries, deletions)
  BY <1>3, <1>4
<1>6. e \in DOMAIN read /\ read[e] =
        CASE e \in Entered(entries) ->
               [serial |-> entries[e].serial, val |-> NewValue(entries, b, e)]
          [] e \in Changed(entries) ->
               [ents[e] EXCEPT !.val = Overlay(entries[e].props, @)]
          [] OTHER -> ents[e]
  BY <1>1, <1>5 DEF ReadEntities
<1>7. e \in DOMAIN to.pack =>
        /\ e \in Edicts /\ to.pack[e].val \in PropValues
        /\ to.pack[e].chg \in [Props -> Nat]
  BY DEF IsFrame, PerEdict, Packs
<1>8. ASSUME e \in EnterPVS(from, to)
      PROVE  read[e] = [serial |-> to.serial[e], val |-> to.pack[e].val]
  <2>1. e \in DOMAIN to.pack
    BY <1>8 DEF EnterPVS
  <2>2. /\ entries[e].serial = to.serial[e]
        /\ entries[e].props = Restrict(to.pack[e].val, OtherProps(to.pack[e], Base(b, e)))
    BY <1>2, <1>8 DEF EntriesOf, EnterEntry
  <2>3. Base(b, e) \in PropValues
    BY <1>7, <2>1, BaseType
  <2>4. NewValue(entries, b, e) = to.pack[e].val
    BY <1>7, <2>1, <2>2, <2>3, OverlayDifference DEF OtherProps, NewValue
  <2> QED BY <1>3, <1>6, <1>8, <2>2, <2>4 DEF DeltaEnts
<1>9. ASSUME e \in DOMAIN to.pack \ EnterPVS(from, to), NEW old \in PropValues,
             ents[e] = [serial |-> to.serial[e], val |-> old],
             \A p \in Props : to.pack[e].chg[p] <= from.tick
                                => to.pack[e].val[p] = old[p]
      PROVE  read[e] = [serial |-> to.serial[e], val |-> to.pack[e].val]
  <2>1. \A p \in Props \ ChangedProps(to.pack[e], from.tick) : to.pack[e].val[p] = old[p]
    BY <1>7, <1>9 DEF ChangedProps
  <2>2. CASE e \in DeltaEnts(from, to)
    <3>1. entries[e].props = Restrict(to.pack[e].val, ChangedProps(to.pack[e], from.tick))
      BY <1>2, <2>2 DEF EntriesOf, DeltaEntry
    <3>2. ChangedProps(to.pack[e], from.tick) \in SUBSET Props
      BY DEF ChangedProps
    <3>3. Overlay(entries[e].props, old) = to.pack[e].val
      BY <1>7, <1>9, <2>1, <3>1, <3>2, OverlayDifference
    <3>4. read[e] = [ents[e] EXCEPT !.val = Overlay(entries[e].props, @)]
      BY <1>3, <1>6, <1>9, <2>2
    <3> QED BY <1>9, <3>3, <3>4
  <2>3. CASE e \notin DeltaEnts(from, to)
    <3>1. ChangedProps(to.pack[e], from.tick) = {}
      BY <1>9, <2>3 DEF DeltaEnts
    <3>2. to.pack[e].val = old
      BY <1>7, <1>9, <2>1, <3>1 DEF PropValues
    <3>3. read[e] = ents[e]
      BY <1>3, <1>6, <1>9, <2>3
    <3> QED BY <1>9, <3>2, <3>3
  <2> QED BY <2>2, <2>3
<1>10. e \notin DOMAIN to.pack => read[e] = ents[e]
  BY <1>3, <1>6 DEF EnterPVS, DeltaEnts
<1> QED BY <1>6, <1>8, <1>9, <1>10

\* An update that deletes none of the entities it shows, read by a client that
\* shows the old frame, leaves it showing the new one: WriteDeltaEntities and
\* CL_ProcessPacketEntities, for every pair of frames and every baseline.
THEOREM UpdateRoundTrip ==
  ASSUME NEW from, NEW to, NEW b, NEW ents, NEW deletions,
         from.tick \in Int, PerEdict(from.pack, Packs),
         IsFrame(to), PerEdict(b, PropValues),
         ShowsFrame(ents, from), ChangesMarked(from, to),
         deletions \cap DOMAIN to.pack = {}
  PROVE  ShowsFrame(ReadEntities(ents, WriteEntities(from, to, b), deletions, b), to)
<1>1. PICK read : read = ReadEntities(ents, WriteEntities(from, to, b), deletions, b)
  OBVIOUS
<1>2. ASSUME NEW e, e \notin deletions,
             e \in DOMAIN ents \/ e \in EnterPVS(from, to), e \in DOMAIN to.pack
      PROVE  /\ e \in DOMAIN read
             /\ e \in EnterPVS(from, to) =>
                  read[e] = [serial |-> to.serial[e], val |-> to.pack[e].val]
             /\ e \in DOMAIN to.pack \ EnterPVS(from, to) =>
                  \A old \in PropValues :
                    /\ ents[e] = [serial |-> to.serial[e], val |-> old]
                    /\ \A p \in Props : to.pack[e].chg[p] <= from.tick
                                          => to.pack[e].val[p] = old[p]
                    => read[e] = [serial |-> to.serial[e], val |-> to.pack[e].val]
  BY <1>1, <1>2, EntityRead
<1>3. ASSUME NEW e \in DOMAIN to.pack
      PROVE  e \in DOMAIN read /\ read[e] = [serial |-> to.serial[e], val |-> to.pack[e].val]
  <2>1. CASE e \in EnterPVS(from, to)
    BY <1>2, <2>1
  <2>2. CASE e \notin EnterPVS(from, to)
    <3>1. e \in DOMAIN from.pack /\ from.serial[e] = to.serial[e]
      BY <2>2 DEF EnterPVS, NeedsExplicitCreate
    <3>2. /\ e \in DOMAIN ents /\ from.pack[e].val \in PropValues
          /\ ents[e] = [serial |-> to.serial[e], val |-> from.pack[e].val]
      BY <3>1 DEF ShowsFrame, PerEdict, Packs
    <3>3. \A p \in Props : to.pack[e].chg[p] <= from.tick
                           => to.pack[e].val[p] = from.pack[e].val[p]
      BY <3>1 DEF ChangesMarked
    <3> QED BY <1>2, <2>2, <3>2, <3>3
  <2> QED BY <2>1, <2>2
<1> QED BY <1>1, <1>3 DEF ShowsFrame

\* A baseline that an update replaces gets the values the update shows.
LEMMA MergedBaseline ==
  ASSUME NEW from, NEW to, IsFrame(to), NEW b, PerEdict(b, PropValues)
  PROVE  MergeBaseline(b, WriteEntities(from, to, b), b) =
           [e \in DOMAIN b \cup EnterPVS(from, to) |->
              IF e \in EnterPVS(from, to) THEN to.pack[e].val ELSE b[e]]
<1>1. PICK entries : entries = WriteEntities(from, to, b)
  OBVIOUS
<1>2. EntriesOf(entries, from, to, b)
  BY <1>1, WrittenEntries
<1>3. Entered(entries) = EnterPVS(from, to)
  BY <1>2, EntryKinds
<1>4. ASSUME NEW e \in EnterPVS(from, to)
      PROVE  NewValue(entries, b, e) = to.pack[e].val
  <2>1. e \in DOMAIN to.pack /\ e \in Edicts /\ to.pack[e].val \in PropValues
    BY <1>4 DEF EnterPVS, IsFrame, PerEdict, Packs
  <2>2. entries[e].props = Restrict(to.pack[e].val, OtherProps(to.pack[e], Base(b, e)))
    BY <1>2, <1>4 DEF EntriesOf, EnterEntry
  <2>3. Base(b, e) \in PropValues
    BY <2>1, BaseType
  <2> QED BY <2>1, <2>2, <2>3, OverlayDifference DEF OtherProps, NewValue
<1> QED BY <1>1, <1>3, <1>4 DEF MergeBaseline

\* The new baseline is one, too.
LEMMA MergedType ==
  ASSUME NEW b, PerEdict(b, PropValues), NEW S, NEW to, IsFrame(to),
         S \subseteq DOMAIN to.pack
  PROVE  PerEdict([e \in DOMAIN b \cup S |-> IF e \in S THEN to.pack[e].val ELSE b[e]],
                  PropValues)
BY DEF PerEdict, IsFrame, Packs

-----------------------------------------------------------------------------
(* 2. The ticks on their way.                                               *)

\* Ticks are never ahead of the server's, updates on their way are newer than
\* everything acknowledged and come in order, and so do the client's answers.
TicksInOrder ==
  /\ deltaTick <= tick /\ forceWait <= tick /\ baselineTick <= tick
  /\ clDeltaTick <= tick
  /\ \A t \in DOMAIN frames : t <= tick /\ frames[t].tick = t
  /\ clDeltaTick # -1 => deltaTick <= clDeltaTick
  /\ \A i \in 1 .. Len(toClient) :
       /\ toClient[i].tick <= tick
       /\ toClient[i].tick > deltaTick /\ toClient[i].tick > clDeltaTick
       /\ \A j \in 1 .. Len(toClient) : i < j => toClient[i].tick < toClient[j].tick
  /\ \A i \in 1 .. Len(toServer) :
       /\ toServer[i].tick <= tick
       /\ clDeltaTick # -1 => toServer[i].tick <= clDeltaTick
       /\ toServer[i].tick # -1 => deltaTick <= toServer[i].tick
       /\ \A k \in 1 .. Len(toClient) : toServer[i].tick < toClient[k].tick
       /\ \A j \in 1 .. Len(toServer) :
            i < j /\ toServer[j].tick # -1 => toServer[i].tick <= toServer[j].tick

\* The full update that is awaited is the newest tick on its way.
AwaitedIsNewest ==
  forceWait > 0 =>
    /\ clDeltaTick <= forceWait
    /\ \A i \in 1 .. Len(toClient) : toClient[i].tick <= forceWait
    /\ \A i \in 1 .. Len(toServer) : toServer[i].tick <= forceWait

\* The last pack of an entity marks its changes since every frame kept.
LastPackMarked ==
  \A t \in DOMAIN frames :
    \A e \in DOMAIN frames[t].pack \cap DOMAIN lastPacked :
      lastPacked[e].serial = frames[t].serial[e] =>
        \A p \in Props : lastPacked[e].chg[p] <= t
                           => lastPacked[e].val[p] = frames[t].pack[e].val[p]

Queues == \E S : toClient \in Seq(S)

IInv ==
  /\ TypeOK /\ Queues /\ TicksInOrder /\ AwaitedIsNewest
  /\ NeverDisconnected /\ BaselineOfFrame /\ LastPackMarked /\ UnmarkedIsUnchanged

\* A sequence with an element more, and one without its first.
LEMMA AppendIndex ==
  ASSUME NEW S, NEW s \in Seq(S), NEW x
  PROVE  /\ Append(s, x) \in Seq(S \cup {x})
         /\ Len(Append(s, x)) = Len(s) + 1
         /\ \A i \in 1 .. Len(s) : Append(s, x)[i] = s[i]
         /\ Append(s, x)[Len(s) + 1] = x
<1>1. s \in Seq(S \cup {x}) /\ x \in S \cup {x}
  OBVIOUS
<1> QED BY <1>1

\* The messages after the first.
LEMMA TailIndex ==
  ASSUME NEW S, NEW s \in Seq(S), s # <<>>
  PROVE  /\ Tail(s) \in Seq(S) /\ Head(s) = s[1] /\ 1 \in 1 .. Len(s)
         /\ Len(Tail(s)) = Len(s) - 1
         /\ \A i \in 1 .. Len(Tail(s)) : Tail(s)[i] = s[i + 1] /\ i + 1 \in 1 .. Len(s)
OBVIOUS

\* The pack and the frame of a tick.
LEMMA PackType ==
  ASSUME TypeOK, NEW e \in Edicts, NEW serial \in Nat, NEW val \in PropValues
  PROVE  PackEntity(e, serial, val) \in Packs
<1>1. e \in DOMAIN lastPacked => lastPacked[e] \in Packs
  BY DEF TypeOK, PerEdict
<1>2. tick + 1 \in Nat
  BY SnapshotsAssumption DEF TypeOK
<1> QED BY <1>1, <1>2 DEF PackEntity, Packs

\* The frame a step of the server makes.
LEMMA FrameType ==
  ASSUME TypeOK, NEW fates \in [Edicts -> Fates], NEW seen \in SUBSET Edicts,
         NEW vals \in [seen -> PropValues], tick < MaxTick,
         \A e \in Edicts : MayMeet(fates[e], e)
  PROVE  /\ IsFrame(NewFrame(fates, vals))
         /\ NewFrame(fates, vals).tick = tick + 1 /\ tick + 1 \in Ticks
         /\ DOMAIN NewFrame(fates, vals).pack = seen
         /\ \A e \in seen : NewFrame(fates, vals).pack[e]
                = PackEntity(e, After(fates[e], e).serial, vals[e])
         /\ \A e \in Edicts : After(fates[e], e) \in [serial : 0 .. MaxSerial, live : BOOLEAN]
<1>1. tick \in 0 .. MaxTick /\ MaxTick \in Nat /\ MaxSerial \in Nat
  BY SnapshotsAssumption DEF TypeOK
<1>2. ASSUME NEW e \in Edicts
      PROVE  After(fates[e], e) \in [serial : 0 .. MaxSerial, live : BOOLEAN]
  <2>1. fates[e] \in Fates /\ MayMeet(fates[e], e)
        /\ edicts[e] \in [serial : 0 .. MaxSerial, live : BOOLEAN]
    BY DEF TypeOK
  <2>2. fates[e] \in {"alloc", "reuse"} => edicts[e].serial + 1 \in 0 .. MaxSerial
    <3>1. CASE fates[e] = "alloc"
      BY <1>1, <2>1, <3>1 DEF MayMeet
    <3>2. CASE fates[e] = "reuse"
      BY <1>1, <2>1, <3>2 DEF MayMeet
    <3> QED BY <3>1, <3>2
  <2>3. CASE fates[e] = "stay"
    BY <2>1, <2>3 DEF After
  <2>4. CASE fates[e] = "free"
    BY <2>1, <2>4 DEF After
  <2>5. CASE fates[e] \in {"alloc", "reuse"}
    BY <2>2, <2>5 DEF After
  <2> QED BY <2>1, <2>3, <2>4, <2>5 DEF Fates
<1>3. \A e \in Edicts : After(fates[e], e).serial \in Nat
  BY <1>1, <1>2
<1> DEFINE f == NewFrame(fates, vals)
<1>4. /\ f = [tick |-> f.tick, slots |-> f.slots, serial |-> f.serial,
               pack |-> f.pack, deletes |-> f.deletes]
      /\ f.tick = tick + 1 /\ DOMAIN f.pack = seen
      /\ \A e \in seen : f.pack[e] = PackEntity(e, After(fates[e], e).serial, vals[e])
  BY DEF NewFrame
<1>5. f.serial \in [Edicts -> Nat]
  BY <1>3 DEF NewFrame
<1>6. f.slots \subseteq Edicts /\ f.deletes \subseteq Edicts
  BY DEF NewFrame, TypeOK
<1>7. f.pack = [e \in seen |-> f.pack[e]]
  BY <1>4 DEF NewFrame
<1> HIDE DEF f
<1>8. PerEdict(f.pack, Packs)
  <2>1. \A e \in seen : f.pack[e] \in Packs
    BY <1>3, <1>4, PackType
  <2> QED BY <2>1, <1>4, <1>7 DEF PerEdict
<1>9. IsFrame(f) /\ tick + 1 \in Ticks
  BY <1>1, <1>4, <1>5, <1>6, <1>8 DEF IsFrame, Ticks
<1> QED BY <1>2, <1>4, <1>9 DEF f

\* The frames after a tick: older ones and, if it is kept, the new one.
LEMMA FrameAdded ==
  ASSUME NEW f
  PROVE  /\ DOMAIN AddClientFrame(f) \subseteq DOMAIN frames \cup {f.tick}
         /\ \A t \in DOMAIN AddClientFrame(f) :
              AddClientFrame(f)[t] = IF t = f.tick THEN f ELSE frames[t]
BY DEF AddClientFrame

\* The numbers in the state.
LEMMA TickTypes ==
  ASSUME IInv
  PROVE  /\ deltaTick \in Int /\ clDeltaTick \in Int /\ forceWait \in Int
         /\ deltaTick >= -1 /\ clDeltaTick >= -1 /\ forceWait >= -1
         /\ baselineTick \in Int /\ tick \in Int /\ tick >= 0
         /\ \A i \in 1 .. Len(toClient) : toClient[i].tick \in Int /\ toClient[i].tick > 0
         /\ \A i \in 1 .. Len(toServer) : toServer[i].tick \in Int /\ toServer[i].tick >= -1
         /\ Len(toClient) \in Nat /\ Len(toServer) \in Nat
<1>1. Ticks \subseteq Int /\ \A t \in Ticks : t > 0
  BY SnapshotsAssumption DEF Ticks
<1>2. /\ deltaTick \in Ticks \cup {-1} /\ clDeltaTick \in Ticks \cup {-1}
      /\ forceWait \in Ticks \cup {-1} /\ baselineTick \in Ticks \cup {-1}
      /\ tick \in 0 .. MaxTick /\ MaxTick \in Nat
      /\ \A i \in 1 .. Len(toClient) : toClient[i].tick \in Ticks
      /\ toServer \in Seq([tick : Ticks \cup {-1}, fullRead : 0 .. MaxTick])
  BY SnapshotsAssumption DEF IInv, TypeOK
<1>3. /\ Len(toServer) \in Nat
      /\ \A i \in 1 .. Len(toServer) :
           toServer[i] \in [tick : Ticks \cup {-1}, fullRead : 0 .. MaxTick]
  <2> DEFINE R == [tick : Ticks \cup {-1}, fullRead : 0 .. MaxTick]
  <2>1. toServer \in Seq(R)
    BY <1>2
  <2> HIDE DEF R
  <2>2. Len(toServer) \in Nat /\ \A i \in 1 .. Len(toServer) : toServer[i] \in R
    BY <2>1
  <2> QED BY <2>2 DEF R
<1>4. Len(toClient) \in Nat
  BY DEF IInv, Queues
<1>5. \A t \in Ticks \cup {-1} : t \in Int /\ t >= -1
  BY <1>1
<1>6. \A i \in 1 .. Len(toServer) : toServer[i].tick \in Int /\ toServer[i].tick >= -1
  BY <1>3, <1>5
<1>7. \A i \in 1 .. Len(toClient) : toClient[i].tick \in Int /\ toClient[i].tick > 0
  BY <1>1, <1>2
<1> QED BY <1>2, <1>3, <1>4, <1>5, <1>6, <1>7

\* What sending a snapshot may do, whichever of its three forms it takes.
LEMMA Sending ==
  ASSUME IInv, NEW fates \in [Edicts -> Fates], NEW seen \in SUBSET Edicts,
         NEW vals \in [seen -> PropValues], ServerFrame(fates, vals)
  PROVE  /\ forceWait > 0 => forceWait' = forceWait /\ toClient' = toClient
         /\ forceWait' \in {forceWait, tick + 1}
         /\ unacked' \in {unacked, tick + 1} /\ baselineUsed' \in {baselineUsed, 0}
         /\ baseline' \in {baseline, Nothing}
         /\ \/ toClient' = toClient
            \/ \E m : m.tick = tick + 1 /\ toClient' = Append(toClient, m)
         /\ \/ baselineTick' = baselineTick /\ baselinesSent' = baselinesSent
            \/ baselineTick' \in {-1, tick + 1} /\ baselinesSent' \subseteq seen
<1> DEFINE to == NewFrame(fates, vals)
<1> DEFINE from == DeltaFrame(AddClientFrame(to))
<1>1. to.tick = tick + 1 /\ DOMAIN to.pack = seen
  BY DEF NewFrame
<1>2. \/ SendNothing
      \/ forceWait <= 0 /\ from = NoFrame /\ SendFull(to)
      \/ forceWait <= 0 /\ from # NoFrame /\ SendDelta(from, to)
  BY DEF ServerFrame
<1>4. forceWait \in Int /\ baselineTick \in Int
  BY DEF IInv, TypeOK, Ticks
<1> HIDE DEF to, from
<1>5. CASE SendNothing
  BY <1>5 DEF SendNothing
<1>6. CASE forceWait <= 0 /\ SendFull(to)
  <2>1. /\ forceWait' = tick + 1 /\ unacked' = tick + 1 /\ baselineUsed' = 0
        /\ baseline' = Nothing
        /\ baselineTick' = tick + 1 /\ baselinesSent' = seen
        /\ toClient' = Append(toClient, Update(NoFrame, to, Nothing, 0, TRUE))
    BY <1>1, <1>6 DEF SendFull
  <2>2. \E m : m.tick = tick + 1 /\ toClient' = Append(toClient, m)
    BY <1>1, <2>1 DEF Update
  <2>3. ~(forceWait > 0)
    BY <1>4, <1>6
  <2>4. baselineTick' \in {-1, tick + 1} /\ baselinesSent' \subseteq seen
    BY <2>1
  <2> QED BY <2>1, <2>2, <2>3, <2>4
<1>7. CASE forceWait <= 0 /\ SendDelta(from, to)
  <2>1. EnterPVS(from, to) \subseteq seen
    BY <1>1 DEF EnterPVS
  <2> DEFINE update == Update(from, to, baseline, baselineUsed, baselineTick = -1)
  <2>2. /\ UNCHANGED <<forceWait, baselineUsed, baseline, unacked>>
        /\ baselinesSent' = IF baselineTick = -1 THEN EnterPVS(from, to) ELSE baselinesSent
        /\ baselineTick' = IF update.update THEN to.tick ELSE baselineTick
        /\ toClient' = toClient \/ toClient' = Append(toClient, update)
    BY <1>7 DEF SendDelta
  <2>3. update.tick = tick + 1 /\ (update.update => baselineTick = -1)
    BY <1>1 DEF Update
  <2> HIDE DEF update
  <2>4. \/ toClient' = toClient
        \/ \E m : m.tick = tick + 1 /\ toClient' = Append(toClient, m)
    BY <2>2, <2>3
  <2>5. \/ baselineTick' = baselineTick /\ baselinesSent' = baselinesSent
        \/ baselineTick' \in {-1, tick + 1} /\ baselinesSent' \subseteq seen
    BY <1>1, <2>1, <2>2, <2>3
  <2> QED BY <1>4, <1>7, <2>2, <2>4, <2>5
<1> QED BY <1>2, <1>5, <1>6, <1>7

\* A tick of the server.
LEMMA ServerFrameStep ==
  ASSUME IInv, NEW fates \in [Edicts -> Fates], NEW seen \in SUBSET Edicts,
         NEW vals \in [seen -> PropValues], ServerFrame(fates, vals)
  PROVE  IInv'
<1> DEFINE to == NewFrame(fates, vals)
<1>1. /\ ~disconnected /\ tick < MaxTick
      /\ \A e \in Edicts : MayMeet(fates[e], e)
      /\ \A e \in seen : to.serial[e] # 0
      /\ tick' = tick + 1 /\ slots' = to.slots
      /\ edicts' = [e \in Edicts |-> After(fates[e], e)]
      /\ lastPacked' = [e \in DOMAIN lastPacked \cup DOMAIN to.pack |->
                          IF e \in DOMAIN to.pack THEN to.pack[e] ELSE lastPacked[e]]
      /\ frames' = AddClientFrame(to)
      /\ UNCHANGED <<deltaTick, disconnected, toServer, baselineAcks, clientVars>>
  BY DEF ServerFrame, NewFrame
<1>2. /\ IsFrame(to)
      /\ to.tick = tick + 1 /\ tick + 1 \in Ticks
      /\ DOMAIN to.pack = seen
      /\ \A e \in seen : to.pack[e] = PackEntity(e, After(fates[e], e).serial, vals[e])
      /\ \A e \in Edicts : After(fates[e], e) \in [serial : 0 .. MaxSerial, live : BOOLEAN]
  BY <1>1, FrameType DEF IInv
<1>3. \A e \in seen : to.pack[e].serial = to.serial[e]
  BY <1>1, <1>2 DEF NewFrame, PackEntity
<1> HIDE DEF to
<1>4. /\ DOMAIN frames' \subseteq DOMAIN frames \cup {tick + 1}
      /\ \A t \in DOMAIN frames' : frames'[t] = IF t = tick + 1 THEN to ELSE frames[t]
  BY <1>1, <1>2, FrameAdded
<1>5. /\ forceWait > 0 => forceWait' = forceWait /\ toClient' = toClient
      /\ forceWait' \in {forceWait, tick + 1}
      /\ unacked' \in {unacked, tick + 1} /\ baselineUsed' \in {baselineUsed, 0}
      /\ baseline' \in {baseline, Nothing}
      /\ \/ toClient' = toClient
         \/ \E m : m.tick = tick + 1 /\ toClient' = Append(toClient, m)
      /\ \/ baselineTick' = baselineTick /\ baselinesSent' = baselinesSent
         \/ baselineTick' \in {-1, tick + 1} /\ baselinesSent' \subseteq seen
  BY Sending
<1>6. PICK S : toClient \in Seq(S)
  BY DEF IInv, Queues
<1>7. /\ Queues'
      /\ Len(toClient') \in Nat
      /\ \A i \in 1 .. Len(toClient') :
           \/ i \in 1 .. Len(toClient) /\ toClient'[i] = toClient[i]
           \/ toClient'[i].tick = tick + 1 /\ i = Len(toClient')
  <2>1. CASE toClient' = toClient
    BY <2>1, <1>6 DEF Queues
  <2>2. CASE \E m : m.tick = tick + 1 /\ toClient' = Append(toClient, m)
    <3>1. PICK m : m.tick = tick + 1 /\ toClient' = Append(toClient, m)
      BY <2>2
    <3>2. /\ toClient' \in Seq(S \cup {m}) /\ Len(toClient') = Len(toClient) + 1
          /\ \A i \in 1 .. Len(toClient) : toClient'[i] = toClient[i]
          /\ toClient'[Len(toClient) + 1] = m
      BY <1>6, <3>1, AppendIndex
    <3>3. Len(toClient) \in Nat
      BY <1>6
    <3> QED BY <3>1, <3>2, <3>3 DEF Queues
  <2> QED BY <1>5, <2>1, <2>2
<1>8. tick \in 0 .. MaxTick /\ MaxTick \in Nat
  BY SnapshotsAssumption DEF IInv, TypeOK
<1>9. TypeOK'
  <2>1. /\ tick' \in 0 .. MaxTick /\ slots' \subseteq Edicts
        /\ edicts' \in [Edicts -> [serial : 0 .. MaxSerial, live : BOOLEAN]]
    BY <1>1, <1>2 DEF Ticks, IsFrame
  <2>2. PerEdict(lastPacked', Packs)
    <3>1. PerEdict(lastPacked, Packs) /\ PerEdict(to.pack, Packs)
      BY <1>2 DEF IInv, TypeOK, IsFrame
    <3> QED BY <3>1, <1>1 DEF PerEdict
  <2>3. DOMAIN frames' \subseteq Ticks /\ \A t \in DOMAIN frames' : IsFrame(frames'[t])
    BY <1>2, <1>4 DEF IInv, TypeOK
  <2>4. /\ deltaTick' \in Ticks \cup {-1} /\ forceWait' \in Ticks \cup {-1}
        /\ baselineTick' \in Ticks \cup {-1} /\ baselineUsed' \in 0 .. 1
        /\ disconnected' \in BOOLEAN /\ unacked' \in 0 .. MaxTick
    BY SMTT(30), <1>1, <1>2, <1>5 DEF IInv, TypeOK, Ticks
  <2>5. baselinesSent' \subseteq Edicts /\ PerEdict(baseline', PropValues)
    BY <1>5 DEF IInv, TypeOK, PerEdict, Nothing
  <2>6. \A i \in 1 .. Len(toClient') : toClient'[i].tick \in Ticks
    BY <1>2, <1>7 DEF IInv, TypeOK
  <2>7. /\ toServer' \in Seq([tick : Ticks \cup {-1}, fullRead : 0 .. MaxTick])
        /\ clDeltaTick' \in Ticks \cup {-1}
        /\ clActive' \in BOOLEAN /\ clError' \in BOOLEAN /\ fullRead' \in 0 .. MaxTick
        /\ requests' \in 0 .. MaxRequests
    BY <1>1 DEF IInv, TypeOK, clientVars
  <2> QED BY <2>1, <2>2, <2>3, <2>4, <2>5, <2>6, <2>7 DEF TypeOK
<1>10. TicksInOrder'
  <2>1. /\ deltaTick' = deltaTick /\ clDeltaTick' = clDeltaTick /\ toServer' = toServer
    BY <1>1 DEF clientVars
  <2>2. /\ deltaTick \in Int /\ clDeltaTick \in Int /\ forceWait \in Int
        /\ baselineTick \in Int /\ tick \in Int /\ tick >= 0
        /\ \A i \in 1 .. Len(toClient) : toClient[i].tick \in Int
        /\ \A i \in 1 .. Len(toServer) : toServer[i].tick \in Int
        /\ Len(toClient) \in Nat /\ Len(toServer) \in Nat
    BY TickTypes
  <2>3. /\ deltaTick' <= tick' /\ forceWait' <= tick' /\ baselineTick' <= tick'
        /\ clDeltaTick' <= tick'
        /\ clDeltaTick' # -1 => deltaTick' <= clDeltaTick'
    BY <1>1, <1>5, <2>1, <2>2 DEF IInv, TicksInOrder
  <2>4. \A t \in DOMAIN frames' : t <= tick' /\ frames'[t].tick = t
    <3>1. \A t \in DOMAIN frames : t <= tick /\ frames[t].tick = t /\ t \in Int
      BY DEF IInv, TicksInOrder, TypeOK, Ticks
    <3>2. tick' = tick + 1 /\ to.tick = tick + 1
      BY <1>1, <1>2
    <3>3. SUFFICES ASSUME NEW t \in DOMAIN frames'
                   PROVE  t <= tick' /\ frames'[t].tick = t
      OBVIOUS
    <3>4. CASE t = tick + 1
      BY <1>4, <2>2, <3>2, <3>4
    <3>5. CASE t # tick + 1
      <4>1. t \in DOMAIN frames /\ frames'[t] = frames[t]
        BY <1>4, <3>5
      <4>2. t <= tick /\ t \in Int /\ frames[t].tick = t
        BY <3>1, <4>1
      <4> QED BY <2>2, <3>2, <4>1, <4>2
    <3> QED BY <3>4, <3>5
  <2>5. ASSUME NEW i \in 1 .. Len(toClient')
        PROVE  /\ toClient'[i].tick <= tick'
               /\ toClient'[i].tick > deltaTick' /\ toClient'[i].tick > clDeltaTick'
               /\ \A j \in 1 .. Len(toClient') :
                    i < j => toClient'[i].tick < toClient'[j].tick
    <3>1. CASE i \in 1 .. Len(toClient) /\ toClient'[i] = toClient[i]
      <4>1. /\ toClient[i].tick <= tick /\ toClient[i].tick \in Int
            /\ toClient[i].tick > deltaTick /\ toClient[i].tick > clDeltaTick
        BY <3>1, <2>2 DEF IInv, TicksInOrder
      <4>2. \A j \in 1 .. Len(toClient') :
              i < j => toClient'[i].tick < toClient'[j].tick
        <5>1. \A j \in 1 .. Len(toClient) : i < j => toClient[i].tick < toClient[j].tick
          BY <3>1 DEF IInv, TicksInOrder
        <5> QED BY <3>1, <4>1, <5>1, <1>7, <2>2
      <4> QED BY <3>1, <4>1, <4>2, <1>1, <2>1, <2>2
    <3>2. CASE toClient'[i].tick = tick + 1 /\ i = Len(toClient')
      <4>1. deltaTick <= tick /\ clDeltaTick <= tick
        BY DEF IInv, TicksInOrder
      <4> QED BY <3>2, <4>1, <1>1, <1>7, <2>1, <2>2
    <3> QED BY <3>1, <3>2, <1>7
  <2>6. ASSUME NEW i \in 1 .. Len(toServer)
        PROVE  /\ toServer[i].tick <= tick'
               /\ clDeltaTick # -1 => toServer[i].tick <= clDeltaTick
               /\ toServer[i].tick # -1 => deltaTick <= toServer[i].tick
               /\ \A k \in 1 .. Len(toClient') : toServer[i].tick < toClient'[k].tick
               /\ \A j \in 1 .. Len(toServer) :
                    i < j /\ toServer[j].tick # -1 => toServer[i].tick <= toServer[j].tick
    <3>1. /\ toServer[i].tick <= tick /\ toServer[i].tick \in Int
          /\ clDeltaTick # -1 => toServer[i].tick <= clDeltaTick
          /\ toServer[i].tick # -1 => deltaTick <= toServer[i].tick
          /\ \A k \in 1 .. Len(toClient) : toServer[i].tick < toClient[k].tick
          /\ \A j \in 1 .. Len(toServer) :
               i < j /\ toServer[j].tick # -1 => toServer[i].tick <= toServer[j].tick
      BY <2>2 DEF IInv, TicksInOrder
    <3>2. \A k \in 1 .. Len(toClient') : toServer[i].tick < toClient'[k].tick
      BY SMTT(30), <3>1, <1>7, <2>2
    <3> QED BY <3>1, <3>2, <1>1, <2>2
  <2> QED BY <2>1, <2>3, <2>4, <2>5, <2>6 DEF TicksInOrder
<1>11. AwaitedIsNewest'
  <2>1. /\ deltaTick \in Int /\ clDeltaTick \in Int /\ forceWait \in Int /\ tick \in Int
        /\ \A i \in 1 .. Len(toClient) : toClient[i].tick \in Int
        /\ \A i \in 1 .. Len(toServer) : toServer[i].tick \in Int
    BY TickTypes
  <2>2. clDeltaTick' = clDeltaTick /\ toServer' = toServer
    BY <1>1 DEF clientVars
  <2>3. CASE forceWait > 0
    BY <2>2, <2>3, <1>5 DEF IInv, AwaitedIsNewest
  <2>4. CASE forceWait <= 0 /\ forceWait' = forceWait
    BY <2>1, <2>4 DEF AwaitedIsNewest
  <2>5. CASE forceWait <= 0 /\ forceWait' = tick + 1
    <3>1. /\ clDeltaTick <= tick
          /\ \A i \in 1 .. Len(toClient) : toClient[i].tick <= tick
          /\ \A i \in 1 .. Len(toServer) : toServer[i].tick <= tick
      BY DEF IInv, TicksInOrder
    <3>2. \A i \in 1 .. Len(toClient') : toClient'[i].tick <= tick + 1
      BY <3>1, <2>1, <1>7
    <3> QED BY <2>1, <2>2, <2>5, <3>1, <3>2 DEF AwaitedIsNewest
  <2> QED BY <2>1, <2>3, <2>4, <2>5, <1>5
<1>12. NeverDisconnected'
  BY <1>1 DEF IInv, NeverDisconnected
<1>13. BaselineOfFrame'
  <2>1. baselineTick <= tick /\ baselineTick \in Int /\ tick \in Int
    BY <1>8 DEF IInv, TicksInOrder, TypeOK, Ticks
  <2>2. CASE baselineTick' = baselineTick /\ baselinesSent' = baselinesSent
    BY <2>1, <2>2, <1>4 DEF IInv, BaselineOfFrame
  <2>3. CASE baselineTick' \in {-1, tick + 1} /\ baselinesSent' \subseteq seen
    <3>1. -1 \notin DOMAIN frames'
      BY <1>9, <1>8 DEF TypeOK, Ticks
    <3> QED BY <2>3, <3>1, <1>2, <1>4 DEF BaselineOfFrame
  <2> QED BY <2>2, <2>3, <1>5
<1>14. LastPackMarked'
  <2> SUFFICES ASSUME NEW t \in DOMAIN frames',
                      NEW e \in DOMAIN frames'[t].pack \cap DOMAIN lastPacked',
                      lastPacked'[e].serial = frames'[t].serial[e],
                      NEW p \in Props, lastPacked'[e].chg[p] <= t
               PROVE  lastPacked'[e].val[p] = frames'[t].pack[e].val[p]
    BY DEF LastPackMarked
  <2>1. CASE t = tick + 1
    BY <2>1, <1>1, <1>2, <1>4
  <2>2. CASE t # tick + 1 /\ e \notin seen
    BY <2>2, <1>1, <1>2, <1>4 DEF IInv, LastPackMarked
  <2>3. CASE t # tick + 1 /\ e \in seen
    <3>1. /\ lastPacked'[e] = PackEntity(e, After(fates[e], e).serial, vals[e])
          /\ t \in DOMAIN frames /\ frames'[t] = frames[t]
      BY <2>3, <1>1, <1>2, <1>4
    <3>2. t <= tick /\ t \in Int /\ tick \in Int
      BY <3>1, <1>8 DEF IInv, TicksInOrder, TypeOK, Ticks
    <3>3. ~(tick + 1 <= t)
      BY <3>2
    <3>4. /\ e \in DOMAIN lastPacked
          /\ lastPacked[e].serial = lastPacked'[e].serial
          /\ lastPacked[e].val[p] = lastPacked'[e].val[p]
          /\ lastPacked[e].chg[p] = lastPacked'[e].chg[p]
      BY <3>1, <3>3 DEF PackEntity
    <3> QED BY <3>1, <3>4 DEF IInv, LastPackMarked
  <2> QED BY <2>1, <2>2, <2>3
<1>15. UnmarkedIsUnchanged'
  <2> SUFFICES ASSUME NEW t \in DOMAIN frames', NEW u \in DOMAIN frames', t < u
               PROVE  ChangesMarked(frames'[t], frames'[u])
    BY DEF UnmarkedIsUnchanged
  <2>1. t \in Int /\ u \in Int /\ t <= tick + 1 /\ u <= tick + 1 /\ tick \in Int
        /\ frames'[t].tick = t
    BY <1>1, <1>9, <1>10, <1>8 DEF TypeOK, Ticks, TicksInOrder
  <2>2. t # tick + 1 /\ t \in DOMAIN frames /\ frames'[t] = frames[t]
    BY <2>1, <1>4
  <2>3. CASE u # tick + 1
    BY <2>2, <2>3, <1>4 DEF IInv, UnmarkedIsUnchanged
  <2>4. CASE u = tick + 1
    <3> SUFFICES ASSUME NEW e \in DOMAIN frames'[t].pack \cap DOMAIN to.pack,
                        frames'[t].serial[e] = to.serial[e],
                        NEW p \in Props, to.pack[e].chg[p] <= t
                 PROVE  to.pack[e].val[p] = frames'[t].pack[e].val[p]
      BY <2>1, <2>4, <1>4 DEF ChangesMarked
    <3>1. lastPacked'[e] = to.pack[e] /\ e \in DOMAIN lastPacked'
      BY <1>1
    <3>2. to.pack[e].serial = to.serial[e]
      BY <1>2, <1>3
    <3> QED BY <3>1, <3>2, <1>14 DEF LastPackMarked
  <2> QED BY <2>3, <2>4
<1> QED BY <1>7, <1>9, <1>10, <1>11, <1>12, <1>13, <1>14, <1>15 DEF IInv

\* Dropping frames, and giving a baseline update up, disturbs nothing that is
\* said of frames.
LEMMA FewerFrames ==
  ASSUME IInv, UNCHANGED lastPacked,
         DOMAIN frames' \subseteq DOMAIN frames,
         \A t \in DOMAIN frames' : frames'[t] = frames[t],
         \/ baselineTick' = baselineTick /\ baselinesSent' = baselinesSent
         \/ baselineTick' = -1
  PROVE  /\ BaselineOfFrame' /\ LastPackMarked' /\ UnmarkedIsUnchanged'
         /\ DOMAIN frames' \subseteq Ticks /\ \A t \in DOMAIN frames' : IsFrame(frames'[t])
         /\ tick' = tick => \A t \in DOMAIN frames' : t <= tick' /\ frames'[t].tick = t
<1>1. BaselineOfFrame'
  <2>1. -1 \notin DOMAIN frames'
    BY SnapshotsAssumption DEF IInv, TypeOK, Ticks
  <2> QED BY <2>1 DEF IInv, BaselineOfFrame
<1>2. LastPackMarked'
  BY DEF IInv, LastPackMarked
<1>3. UnmarkedIsUnchanged'
  BY DEF IInv, UnmarkedIsUnchanged
<1>4. DOMAIN frames' \subseteq Ticks /\ \A t \in DOMAIN frames' : IsFrame(frames'[t])
  BY DEF IInv, TypeOK
<1>5. tick' = tick => \A t \in DOMAIN frames' : t <= tick' /\ frames'[t].tick = t
  BY DEF IInv, TicksInOrder
<1> QED BY <1>1, <1>2, <1>3, <1>4, <1>5

\* The server reads a tick: it is never older than the one before it.
LEMMA ServerReadTickStep ==
  ASSUME IInv, NEW other \in BOOLEAN, ServerReadTick(other)
  PROVE  IInv'
<1> DEFINE msg == Head(toServer)
<1> DEFINE R == [tick : Ticks \cup {-1}, fullRead : 0 .. MaxTick]
<1>1. /\ ~disconnected /\ toServer # <<>> /\ toServer' = Tail(toServer)
      /\ unacked' \in {unacked, 0}
      /\ DOMAIN frames' \subseteq DOMAIN frames
      /\ \A t \in DOMAIN frames' : frames'[t] = frames[t]
      /\ UNCHANGED <<worldVars, toClient, baselineAcks, clientVars>>
  BY DEF ServerReadTick, DeleteClientFrames, Restrict
<1>2. /\ toServer' \in Seq(R) /\ msg = toServer[1] /\ 1 \in 1 .. Len(toServer)
      /\ Len(toServer') = Len(toServer) - 1
      /\ \A i \in 1 .. Len(toServer') :
           toServer'[i] = toServer[i + 1] /\ i + 1 \in 1 .. Len(toServer)
      /\ msg \in R
  <2>1. toServer \in Seq(R)
    BY DEF IInv, TypeOK
  <2> HIDE DEF R
  <2> QED BY <1>1, <2>1, TailIndex
<1>3. /\ msg.tick \in Int /\ msg.tick \in Ticks \cup {-1} /\ msg.tick >= -1
      /\ msg.tick <= tick
      /\ clDeltaTick # -1 => msg.tick <= clDeltaTick
      /\ msg.tick # -1 => deltaTick <= msg.tick
      /\ \A k \in 1 .. Len(toClient) : msg.tick < toClient[k].tick
  BY <1>2, TickTypes DEF IInv, TicksInOrder
<1> HIDE DEF msg, R
<1>4. /\ deltaTick' \in {deltaTick, msg.tick} /\ forceWait' \in {forceWait, -1}
      /\ baselineUsed' \in {baselineUsed, 0} /\ baseline' \in {baseline, Nothing}
      /\ baselinesSent' \in {baselinesSent, {}} /\ disconnected' = disconnected
      /\ \/ baselineTick' = baselineTick /\ baselinesSent' = baselinesSent
         \/ baselineTick' = -1
  <2>1. \/ \E pending : AckWhileWaiting(msg.tick, pending)
        \/ AckOfDelta(msg.tick)
    BY DEF ServerReadTick, msg
  <2>2. CASE \E pending : AckWhileWaiting(msg.tick, pending)
    BY <2>2 DEF AckWhileWaiting, KeepWaiting, Acknowledge, OnRequestFullUpdate
  <2>3. CASE AckOfDelta(msg.tick)
    <3>1. ~(deltaTick > msg.tick /\ msg.tick # -1)
      BY <1>3, TickTypes
    <3> QED BY <2>3, <3>1 DEF AckOfDelta, KeepWaiting, Acknowledge, OnRequestFullUpdate
  <2> QED BY <2>1, <2>2, <2>3
<1>5. UNCHANGED <<tick, slots, edicts, lastPacked, clDeltaTick, clActive, clError,
                  fullRead, requests, toClient>>
  BY <1>1 DEF worldVars, clientVars
<1>6. /\ BaselineOfFrame' /\ LastPackMarked' /\ UnmarkedIsUnchanged'
      /\ DOMAIN frames' \subseteq Ticks /\ \A t \in DOMAIN frames' : IsFrame(frames'[t])
      /\ \A t \in DOMAIN frames' : t <= tick' /\ frames'[t].tick = t
  BY <1>1, <1>4, <1>5, FewerFrames
<1>7. TypeOK'
  <2>1. /\ deltaTick' \in Ticks \cup {-1} /\ forceWait' \in Ticks \cup {-1}
        /\ baselineTick' \in Ticks \cup {-1} /\ baselineUsed' \in 0 .. 1
        /\ baselinesSent' \subseteq Edicts /\ PerEdict(baseline', PropValues)
        /\ disconnected' \in BOOLEAN /\ unacked' \in 0 .. MaxTick
    <3>1. /\ deltaTick' \in Ticks \cup {-1} /\ forceWait' \in Ticks \cup {-1}
          /\ baselineTick' \in Ticks \cup {-1} /\ baselineUsed' \in 0 .. 1
      BY <1>3, <1>4 DEF IInv, TypeOK
    <3>2. baselinesSent' \subseteq Edicts /\ PerEdict(baseline', PropValues)
      BY <1>4 DEF IInv, TypeOK, PerEdict, Nothing
    <3>3. disconnected' \in BOOLEAN /\ unacked' \in 0 .. MaxTick
      BY <1>1, <1>4, SnapshotsAssumption DEF IInv, TypeOK
    <3> QED BY <3>1, <3>2, <3>3
  <2> QED BY <1>2, <1>5, <1>6, <2>1 DEF IInv, TypeOK, R
<1>8. TicksInOrder'
  <2>1. /\ deltaTick' <= tick' /\ forceWait' <= tick' /\ baselineTick' <= tick'
        /\ clDeltaTick' <= tick'
        /\ clDeltaTick' # -1 => deltaTick' <= clDeltaTick'
    BY <1>3, <1>4, <1>5, TickTypes DEF IInv, TicksInOrder
  <2>2. ASSUME NEW i \in 1 .. Len(toClient)
        PROVE  toClient[i].tick > deltaTick'
    BY <1>3, <1>4, TickTypes DEF IInv, TicksInOrder
  <2>3. ASSUME NEW i \in 1 .. Len(toServer')
        PROVE  /\ toServer'[i].tick <= tick
               /\ clDeltaTick # -1 => toServer'[i].tick <= clDeltaTick
               /\ toServer'[i].tick # -1 => deltaTick' <= toServer'[i].tick
               /\ \A k \in 1 .. Len(toClient) : toServer'[i].tick < toClient[k].tick
               /\ \A j \in 1 .. Len(toServer') :
                    i < j /\ toServer'[j].tick # -1 => toServer'[i].tick <= toServer'[j].tick
    <3>1. /\ toServer'[i] = toServer[i + 1] /\ i + 1 \in 1 .. Len(toServer)
          /\ 1 < i + 1 /\ toServer[1] = msg
      BY <1>2
    <3>2. /\ toServer[i + 1].tick <= tick
          /\ clDeltaTick # -1 => toServer[i + 1].tick <= clDeltaTick
          /\ toServer[i + 1].tick # -1 => deltaTick <= toServer[i + 1].tick
          /\ \A k \in 1 .. Len(toClient) : toServer[i + 1].tick < toClient[k].tick
          /\ \A j \in 1 .. Len(toServer) :
               i + 1 < j /\ toServer[j].tick # -1 => toServer[i + 1].tick <= toServer[j].tick
      BY <3>1 DEF IInv, TicksInOrder
    <3>3. toServer[i + 1].tick # -1 => msg.tick <= toServer[i + 1].tick
      BY <3>1, <1>2 DEF IInv, TicksInOrder
    <3>4. \A j \in 1 .. Len(toServer') :
             i < j /\ toServer'[j].tick # -1 => toServer'[i].tick <= toServer'[j].tick
      <4> SUFFICES ASSUME NEW j \in 1 .. Len(toServer'), i < j, toServer'[j].tick # -1
                   PROVE  toServer'[i].tick <= toServer'[j].tick
        OBVIOUS
      <4>1. toServer'[j] = toServer[j + 1] /\ j + 1 \in 1 .. Len(toServer) /\ i + 1 < j + 1
        BY <1>2
      <4> QED BY <3>1, <3>2, <4>1
    <3> QED BY <3>1, <3>2, <3>3, <3>4, <1>4
  <2>4. ASSUME NEW i \in 1 .. Len(toClient)
        PROVE  /\ toClient[i].tick <= tick /\ toClient[i].tick > clDeltaTick
               /\ \A j \in 1 .. Len(toClient) : i < j => toClient[i].tick < toClient[j].tick
    BY DEF IInv, TicksInOrder
  <2> QED BY <1>5, <1>6, <2>1, <2>2, <2>3, <2>4 DEF TicksInOrder
<1>9. AwaitedIsNewest'
  <2>1. \A i \in 1 .. Len(toServer') :
          toServer'[i] = toServer[i + 1] /\ i + 1 \in 1 .. Len(toServer)
    BY <1>2
  <2>2. forceWait' > 0 => forceWait' = forceWait
    BY <1>4
  <2> QED BY <1>5, <2>1, <2>2 DEF IInv, AwaitedIsNewest
<1>10. Queues' /\ NeverDisconnected'
  BY <1>4, <1>5 DEF IInv, Queues, NeverDisconnected
<1> QED BY <1>6, <1>7, <1>8, <1>9, <1>10 DEF IInv

\* The server reads the acknowledgement of a baseline.
LEMMA ServerReadBaselineAckStep ==
  ASSUME IInv, ServerReadBaselineAck
  PROVE  IInv'
<1>1. /\ UNCHANGED <<worldVars, frames, deltaTick, forceWait, baselinesSent,
                     disconnected, unacked, toClient, toServer, clientVars>>
      /\ baselineTick' \in {baselineTick, -1} /\ baselineUsed' \in {baselineUsed, 1 - baselineUsed}
  BY DEF ServerReadBaselineAck
<1>2. UNCHANGED <<tick, slots, edicts, lastPacked, clDeltaTick, clActive, clError,
                  fullRead, requests, toClient, toServer>>
  BY <1>1 DEF worldVars, clientVars
<1>3. PerEdict(baseline', PropValues)
  <2>1. CASE baseline' = baseline
    BY <2>1 DEF IInv, TypeOK
  <2>2. CASE baseline' # baseline
    <3>1. /\ baselineTick \in DOMAIN frames
          /\ baseline' = [e \in DOMAIN baseline \cup baselinesSent |->
                            IF e \in baselinesSent THEN frames[baselineTick].pack[e].val
                            ELSE baseline[e]]
      BY <2>2 DEF ServerReadBaselineAck, Answers
    <3>2. PerEdict(frames[baselineTick].pack, Packs) /\ PerEdict(baseline, PropValues)
          /\ baselinesSent \subseteq Edicts
          /\ baselinesSent \subseteq DOMAIN frames[baselineTick].pack
      BY <3>1 DEF IInv, TypeOK, IsFrame, BaselineOfFrame
    <3>3. \A e \in baselinesSent : frames[baselineTick].pack[e].val \in PropValues
      BY <3>2 DEF PerEdict, Packs
    <3>4. DOMAIN baseline \subseteq Edicts /\ \A e \in DOMAIN baseline : baseline[e] \in PropValues
      BY <3>2 DEF PerEdict
    <3> QED BY <3>1, <3>2, <3>3, <3>4 DEF PerEdict
  <2> QED BY <2>1, <2>2
<1>4. /\ BaselineOfFrame' /\ LastPackMarked' /\ UnmarkedIsUnchanged'
      /\ DOMAIN frames' \subseteq Ticks /\ \A t \in DOMAIN frames' : IsFrame(frames'[t])
      /\ \A t \in DOMAIN frames' : t <= tick' /\ frames'[t].tick = t
  BY <1>1, <1>2, FewerFrames
<1>5. TypeOK'
  <2>1. baselineTick' \in Ticks \cup {-1} /\ baselineUsed' \in 0 .. 1
    BY <1>1 DEF IInv, TypeOK
  <2> QED BY <1>1, <1>2, <1>3, <1>4, <2>1 DEF IInv, TypeOK
<1>6. TicksInOrder'
  <2>1. baselineTick' <= tick'
    BY <1>1, <1>2, TickTypes DEF IInv, TicksInOrder
  <2> QED BY <1>1, <1>2, <1>4, <2>1 DEF IInv, TicksInOrder
<1>7. AwaitedIsNewest' /\ Queues' /\ NeverDisconnected'
  BY <1>1, <1>2 DEF IInv, AwaitedIsNewest, Queues, NeverDisconnected
<1> QED BY <1>4, <1>5, <1>6, <1>7 DEF IInv

\* The client sends its tick.
LEMMA ClientSendTickStep ==
  ASSUME IInv, ClientSendTick
  PROVE  IInv'
<1> DEFINE msg == [tick |-> clDeltaTick, fullRead |-> fullRead]
<1> DEFINE R == [tick : Ticks \cup {-1}, fullRead : 0 .. MaxTick]
<1>1. /\ toServer' = Append(toServer, msg)
      /\ UNCHANGED <<worldVars, serverVars, unacked, toClient, baselineAcks, clientVars>>
  BY DEF ClientSendTick
<1>2. UNCHANGED <<tick, slots, edicts, lastPacked, frames, deltaTick, forceWait,
                  baselineTick, baselineUsed, baselinesSent, baseline, disconnected,
                  unacked, toClient, clDeltaTick, clActive, clError, fullRead, requests>>
  BY <1>1 DEF worldVars, serverVars, clientVars
<1>3. toServer \in Seq(R) /\ msg \in R /\ msg.tick = clDeltaTick
  BY DEF IInv, TypeOK
<1> HIDE DEF R, msg
<1>4. /\ toServer' \in Seq(R) /\ Len(toServer') = Len(toServer) + 1
      /\ Len(toServer) \in Nat
      /\ \A i \in 1 .. Len(toServer) : toServer'[i] = toServer[i]
      /\ toServer'[Len(toServer) + 1] = msg
  BY <1>1, <1>3
<1>5. \A i \in 1 .. Len(toServer') :
        \/ i \in 1 .. Len(toServer) /\ toServer'[i] = toServer[i]
        \/ i = Len(toServer) + 1 /\ toServer'[i].tick = clDeltaTick
  BY <1>3, <1>4
<1>6. /\ BaselineOfFrame' /\ LastPackMarked' /\ UnmarkedIsUnchanged'
      /\ DOMAIN frames' \subseteq Ticks /\ \A t \in DOMAIN frames' : IsFrame(frames'[t])
      /\ \A t \in DOMAIN frames' : t <= tick' /\ frames'[t].tick = t
  BY <1>2, FewerFrames
<1>7. TypeOK'
  BY <1>2, <1>4 DEF IInv, TypeOK, R
<1>8. TicksInOrder'
  <2>1. ASSUME NEW i \in 1 .. Len(toServer')
        PROVE  /\ toServer'[i].tick <= tick
               /\ clDeltaTick # -1 => toServer'[i].tick <= clDeltaTick
               /\ toServer'[i].tick # -1 => deltaTick <= toServer'[i].tick
               /\ \A k \in 1 .. Len(toClient) : toServer'[i].tick < toClient[k].tick
               /\ \A j \in 1 .. Len(toServer') :
                    i < j /\ toServer'[j].tick # -1 => toServer'[i].tick <= toServer'[j].tick
    <3>1. CASE i \in 1 .. Len(toServer) /\ toServer'[i] = toServer[i]
      <4>1. /\ toServer[i].tick <= tick /\ toServer[i].tick \in Int
            /\ clDeltaTick # -1 => toServer[i].tick <= clDeltaTick
            /\ toServer[i].tick # -1 => deltaTick <= toServer[i].tick
            /\ \A k \in 1 .. Len(toClient) : toServer[i].tick < toClient[k].tick
            /\ \A j \in 1 .. Len(toServer) :
                 i < j /\ toServer[j].tick # -1 => toServer[i].tick <= toServer[j].tick
        BY <3>1, TickTypes DEF IInv, TicksInOrder
      <4>2. \A j \in 1 .. Len(toServer') :
               i < j /\ toServer'[j].tick # -1 => toServer[i].tick <= toServer'[j].tick
        BY <4>1, <1>5
      <4> QED BY <3>1, <4>1, <4>2
    <3>2. CASE i = Len(toServer) + 1 /\ toServer'[i].tick = clDeltaTick
      <4>1. \A j \in 1 .. Len(toServer') : ~(i < j)
        BY <3>2, <1>4
      <4>2. /\ clDeltaTick <= tick
            /\ clDeltaTick # -1 => deltaTick <= clDeltaTick
            /\ \A k \in 1 .. Len(toClient) : clDeltaTick < toClient[k].tick
        BY TickTypes DEF IInv, TicksInOrder
      <4> QED BY <3>2, <4>1, <4>2, TickTypes
    <3> QED BY <3>1, <3>2, <1>5
  <2> QED BY <1>2, <1>6, <2>1 DEF IInv, TicksInOrder
<1>9. AwaitedIsNewest'
  BY <1>2, <1>5 DEF IInv, AwaitedIsNewest
<1>10. Queues' /\ NeverDisconnected'
  BY <1>2 DEF IInv, Queues, NeverDisconnected
<1> QED BY <1>6, <1>7, <1>8, <1>9, <1>10 DEF IInv

\* The client asks for a full update.
LEMMA ForceFullUpdateStep ==
  ASSUME IInv, ForceFullUpdate
  PROVE  IInv'
<1>1. /\ UNCHANGED <<tick, slots, edicts, lastPacked, frames, deltaTick, forceWait,
                  baselineTick, baselineUsed, baselinesSent, baseline, disconnected,
                  unacked, toClient, toServer, clActive, clError, fullRead>>
      /\ clDeltaTick' = -1 /\ requests' = requests + 1 /\ requests < MaxRequests
  BY DEF ForceFullUpdate, worldVars, serverVars
<1>2. /\ BaselineOfFrame' /\ LastPackMarked' /\ UnmarkedIsUnchanged'
      /\ DOMAIN frames' \subseteq Ticks /\ \A t \in DOMAIN frames' : IsFrame(frames'[t])
      /\ \A t \in DOMAIN frames' : t <= tick' /\ frames'[t].tick = t
  BY <1>1, FewerFrames
<1>3. TypeOK'
  <2>1. requests' \in 0 .. MaxRequests
    BY <1>1, SnapshotsAssumption DEF IInv, TypeOK
  <2> QED BY <1>1, <1>2, <2>1 DEF IInv, TypeOK
<1>4. TicksInOrder'
  BY <1>1, <1>2, TickTypes DEF IInv, TicksInOrder
<1>5. AwaitedIsNewest'
  BY <1>1, TickTypes DEF IInv, AwaitedIsNewest
<1>6. Queues' /\ NeverDisconnected'
  BY <1>1 DEF IInv, Queues, NeverDisconnected
<1> QED BY <1>2, <1>3, <1>4, <1>5, <1>6 DEF IInv

\* The client reads, or ignores, an update.
LEMMA ClientReadsStep ==
  ASSUME IInv, ClientReads
  PROVE  IInv'
<1>1. /\ toClient # <<>> /\ toClient' = Tail(toClient)
      /\ UNCHANGED <<worldVars, serverVars, unacked, toServer, requests>>
  BY DEF ClientReads, ClientRead, ClientIgnoresDelta, ClientReadsDelta, ClientReadsFull
<1>2. UNCHANGED <<tick, slots, edicts, lastPacked, frames, deltaTick, forceWait,
                  baselineTick, baselineUsed, baselinesSent, baseline, disconnected,
                  unacked, toServer, requests>>
  BY <1>1 DEF worldVars, serverVars
<1>3. PICK S : toClient \in Seq(S)
  BY DEF IInv, Queues
<1>4. /\ toClient' \in Seq(S) /\ Head(toClient) = toClient[1] /\ 1 \in 1 .. Len(toClient)
      /\ Len(toClient') = Len(toClient) - 1
      /\ \A i \in 1 .. Len(toClient') :
           toClient'[i] = toClient[i + 1] /\ i + 1 \in 1 .. Len(toClient)
  BY <1>1, <1>3, TailIndex
<1>5. /\ clDeltaTick' \in {clDeltaTick, Head(toClient).tick}
      /\ clActive' \in {clActive, TRUE} /\ clError' \in {clError, TRUE}
      /\ fullRead' \in {fullRead, Head(toClient).tick}
  BY DEF ClientReads, ClientIgnoresDelta, ClientReadsDelta, ClientReadsFull,
         ProcessPacketEntities
<1>6. /\ BaselineOfFrame' /\ LastPackMarked' /\ UnmarkedIsUnchanged'
      /\ DOMAIN frames' \subseteq Ticks /\ \A t \in DOMAIN frames' : IsFrame(frames'[t])
      /\ \A t \in DOMAIN frames' : t <= tick' /\ frames'[t].tick = t
  BY <1>2, FewerFrames
<1> DEFINE n == toClient[1].tick
<1>7. /\ n \in Int /\ n \in Ticks /\ n <= tick /\ n > deltaTick /\ n > clDeltaTick
      /\ \A j \in 1 .. Len(toClient) : 1 < j => n < toClient[j].tick
      /\ \A i \in 1 .. Len(toServer) : toServer[i].tick < n
  BY <1>4, TickTypes DEF IInv, TicksInOrder, TypeOK
<1> HIDE DEF n
<1>8. clDeltaTick' \in {clDeltaTick, n} /\ fullRead' \in {fullRead, n}
  BY <1>4, <1>5 DEF n
<1>9. TypeOK'
  <2>1. \A i \in 1 .. Len(toClient') : toClient'[i].tick \in Ticks
    BY <1>4 DEF IInv, TypeOK
  <2>2. /\ clDeltaTick' \in Ticks \cup {-1} /\ clActive' \in BOOLEAN
        /\ clError' \in BOOLEAN /\ fullRead' \in 0 .. MaxTick
    <3>1. n \in 0 .. MaxTick
      BY <1>7, SnapshotsAssumption DEF Ticks
    <3> QED BY <1>5, <1>7, <1>8, <3>1 DEF IInv, TypeOK
  <2> QED BY <1>2, <1>6, <2>1, <2>2 DEF IInv, TypeOK
<1>10. TicksInOrder'
  <2>1. /\ deltaTick' <= tick' /\ forceWait' <= tick' /\ baselineTick' <= tick'
        /\ clDeltaTick' <= tick'
        /\ clDeltaTick' # -1 => deltaTick' <= clDeltaTick'
    BY <1>2, <1>7, <1>8, TickTypes DEF IInv, TicksInOrder
  <2>2. ASSUME NEW i \in 1 .. Len(toClient')
        PROVE  /\ toClient'[i].tick <= tick'
               /\ toClient'[i].tick > deltaTick' /\ toClient'[i].tick > clDeltaTick'
               /\ \A j \in 1 .. Len(toClient') :
                    i < j => toClient'[i].tick < toClient'[j].tick
    <3>1. toClient'[i] = toClient[i + 1] /\ i + 1 \in 1 .. Len(toClient) /\ 1 < i + 1
      BY <1>4
    <3>2. /\ toClient[i + 1].tick <= tick /\ toClient[i + 1].tick > deltaTick
          /\ toClient[i + 1].tick > clDeltaTick /\ toClient[i + 1].tick > n
          /\ \A j \in 1 .. Len(toClient) :
               i + 1 < j => toClient[i + 1].tick < toClient[j].tick
      BY <3>1, <1>7, TickTypes DEF IInv, TicksInOrder
    <3>3. \A j \in 1 .. Len(toClient') : i < j => toClient'[i].tick < toClient'[j].tick
      <4> SUFFICES ASSUME NEW j \in 1 .. Len(toClient'), i < j
                   PROVE  toClient'[i].tick < toClient'[j].tick
        OBVIOUS
      <4>1. toClient'[j] = toClient[j + 1] /\ j + 1 \in 1 .. Len(toClient) /\ i + 1 < j + 1
        BY <1>4
      <4> QED BY <3>1, <3>2, <4>1
    <3> QED BY <3>1, <3>2, <3>3, <1>2, <1>8
  <2>3. ASSUME NEW i \in 1 .. Len(toServer')
        PROVE  /\ toServer'[i].tick <= tick'
               /\ clDeltaTick' # -1 => toServer'[i].tick <= clDeltaTick'
               /\ toServer'[i].tick # -1 => deltaTick' <= toServer'[i].tick
               /\ \A k \in 1 .. Len(toClient') : toServer'[i].tick < toClient'[k].tick
               /\ \A j \in 1 .. Len(toServer') :
                    i < j /\ toServer'[j].tick # -1 => toServer'[i].tick <= toServer'[j].tick
    <3> toServer' = toServer /\ deltaTick' = deltaTick /\ tick' = tick
      BY <1>2
    <3>1. /\ toServer[i].tick <= tick /\ toServer[i].tick \in Int
          /\ clDeltaTick # -1 => toServer[i].tick <= clDeltaTick
          /\ toServer[i].tick # -1 => deltaTick <= toServer[i].tick
          /\ \A k \in 1 .. Len(toClient) : toServer[i].tick < toClient[k].tick
          /\ \A j \in 1 .. Len(toServer) :
               i < j /\ toServer[j].tick # -1 => toServer[i].tick <= toServer[j].tick
      BY TickTypes DEF IInv, TicksInOrder
    <3>2. \A k \in 1 .. Len(toClient') : toServer[i].tick < toClient'[k].tick
      BY <3>1, <1>4
    <3> QED BY <3>1, <3>2, <1>7, <1>8
  <2> QED BY <1>6, <2>1, <2>2, <2>3 DEF TicksInOrder
<1>11. AwaitedIsNewest'
  <2>1. forceWait > 0 => n <= forceWait
    BY <1>4 DEF IInv, AwaitedIsNewest, n
  <2> QED BY <1>2, <1>4, <1>8, <2>1 DEF IInv, AwaitedIsNewest
<1>12. Queues' /\ NeverDisconnected'
  BY <1>2, <1>4 DEF IInv, Queues, NeverDisconnected
<1> QED BY <1>6, <1>9, <1>10, <1>11, <1>12 DEF IInv

-----------------------------------------------------------------------------
(* The theorems.                                                            *)

\* The three facts that make IInv an invariant.
LEMMA InitIInv == Init => IInv
<1> SUFFICES ASSUME Init PROVE IInv
  OBVIOUS
<1>1. TypeOK
  <2>1. /\ tick \in 0 .. MaxTick /\ slots \subseteq Edicts
        /\ edicts \in [Edicts -> [serial : 0 .. MaxSerial, live : BOOLEAN]]
    BY SnapshotsAssumption DEF Init
  <2>2. PerEdict(lastPacked, Packs) /\ PerEdict(baseline, PropValues)
    BY DEF Init, PerEdict, Nothing
  <2>3. DOMAIN frames \subseteq Ticks /\ \A t \in DOMAIN frames : IsFrame(frames[t])
    BY DEF Init, Nothing
  <2>4. /\ toServer \in Seq([tick : Ticks \cup {-1}, fullRead : 0 .. MaxTick])
        /\ \A i \in 1 .. Len(toClient) : toClient[i].tick \in Ticks
    BY DEF Init
  <2>5. /\ deltaTick \in Ticks \cup {-1} /\ forceWait \in Ticks \cup {-1}
        /\ baselineTick \in Ticks \cup {-1} /\ baselineUsed \in 0 .. 1
        /\ baselinesSent \subseteq Edicts
        /\ disconnected \in BOOLEAN /\ unacked \in 0 .. MaxTick
        /\ clDeltaTick \in Ticks \cup {-1}
        /\ clActive \in BOOLEAN /\ clError \in BOOLEAN /\ fullRead \in 0 .. MaxTick
        /\ requests \in 0 .. MaxRequests
    <3>1. 0 \in 0 .. MaxTick /\ 0 \in 0 .. MaxRequests
      BY SnapshotsAssumption
    <3>2. /\ deltaTick \in Ticks \cup {-1} /\ forceWait \in Ticks \cup {-1}
          /\ baselineTick \in Ticks \cup {-1} /\ clDeltaTick \in Ticks \cup {-1}
          /\ baselineUsed \in 0 .. 1 /\ baselinesSent \subseteq Edicts
      BY DEF Init
    <3>3. /\ unacked \in 0 .. MaxTick /\ fullRead \in 0 .. MaxTick
          /\ requests \in 0 .. MaxRequests
      BY <3>1 DEF Init
    <3>4. disconnected \in BOOLEAN /\ clActive \in BOOLEAN /\ clError \in BOOLEAN
      BY DEF Init
    <3> QED BY <3>2, <3>3, <3>4
  <2> QED BY <2>1, <2>2, <2>3, <2>4, <2>5 DEF TypeOK
<1>2. Queues
  BY DEF Init, Queues
<1>3. TicksInOrder /\ AwaitedIsNewest
  BY DEF Init, TicksInOrder, AwaitedIsNewest, Nothing
<1>4. NeverDisconnected /\ BaselineOfFrame /\ LastPackMarked /\ UnmarkedIsUnchanged
  BY DEF Init, NeverDisconnected, BaselineOfFrame, LastPackMarked, UnmarkedIsUnchanged,
         Nothing
<1> QED BY <1>1, <1>2, <1>3, <1>4 DEF IInv

LEMMA NextIInv == IInv /\ [Next]_vars => IInv'
<1> SUFFICES ASSUME IInv, [Next]_vars PROVE IInv'
  OBVIOUS
<1>1. ASSUME NEW fates \in [Edicts -> Fates], NEW seen \in SUBSET Edicts,
             NEW vals \in [seen -> PropValues], ServerFrame(fates, vals)
      PROVE  IInv'
  BY <1>1, ServerFrameStep
<1>2. ASSUME NEW other \in BOOLEAN, ServerReadTick(other) PROVE IInv'
  BY <1>2, ServerReadTickStep
<1>3. CASE ServerReadBaselineAck
  BY <1>3, ServerReadBaselineAckStep
<1>4. CASE ClientSendTick
  BY <1>4, ClientSendTickStep
<1>5. CASE ForceFullUpdate
  BY <1>5, ForceFullUpdateStep
<1>6. CASE ClientReads
  BY <1>6, ClientReadsStep
<1>7. CASE UNCHANGED vars
  <2>1. UNCHANGED <<tick, slots, edicts, lastPacked, frames, deltaTick, forceWait,
                  baselineTick, baselineUsed, baselinesSent, baseline, disconnected,
                  unacked, toClient, toServer, clDeltaTick, clActive, clError, fullRead,
                  requests>>
    BY <1>7 DEF vars, worldVars, serverVars, clientVars
  <2> QED BY SMTT(30), <2>1 DEF IInv, TypeOK, Queues, TicksInOrder, AwaitedIsNewest,
                 NeverDisconnected, BaselineOfFrame, LastPackMarked, UnmarkedIsUnchanged
<1> QED BY <1>1, <1>2, <1>3, <1>4, <1>5, <1>6, <1>7 DEF Next

LEMMA SpecIInv == Spec => []IInv
BY InitIInv, NextIInv, PTL DEF Spec

\* The types of the server's state and of the ticks on their way, for every
\* number of entities, ticks and messages.
THEOREM SnapshotTypeCorrect == Spec => []TypeOK
<1>1. IInv => TypeOK
  BY DEF IInv
<1> QED BY <1>1, SpecIInv, PTL

\* UpdateAcknowledgedFramecount never disconnects a client, whatever is lost,
\* read late or asked for again.
THEOREM SnapshotNeverDisconnected == Spec => []NeverDisconnected
<1>1. IInv => NeverDisconnected
  BY DEF IInv
<1> QED BY <1>1, SpecIInv, PTL

\* No tick newer than the full update the server waits for is on its way.
THEOREM SnapshotFullAckNeverAhead == Spec => []FullAckNeverAhead
<1>1. IInv => FullAckNeverAhead
  BY DEF IInv, AwaitedIsNewest, FullAckNeverAhead
<1> QED BY <1>1, SpecIInv, PTL

\* The packs CLCMsg_BaselineAck takes for the baseline are those of the frame
\* whose entities were noted.
THEOREM SnapshotBaselineOfFrame == Spec => []BaselineOfFrame
<1>1. IInv => BaselineOfFrame
  BY DEF IInv
<1> QED BY <1>1, SpecIInv, PTL

\* SV_PackEntity marks every change between two frames the server keeps, which
\* is what UpdateRoundTrip asks of the frames an update is between.
THEOREM SnapshotUnmarkedIsUnchanged == Spec => []UnmarkedIsUnchanged
<1>1. IInv => UnmarkedIsUnchanged
  BY DEF IInv
<1> QED BY <1>1, SpecIInv, PTL

-----------------------------------------------------------------------------
(* 3. Full updates.                                                        *)

\* The queues after a message of the server, or a tick of the client, is read.
LEMMA ReadIndex ==
  ASSUME IInv, ClientRead
  PROVE  /\ 1 \in 1 .. Len(toClient) /\ Head(toClient) = toClient[1]
         /\ Len(toClient') = Len(toClient) - 1 /\ Len(toClient) \in Nat
         /\ \A i \in 1 .. Len(toClient') :
              /\ toClient'[i] = toClient[i + 1]
              /\ i \in Nat /\ i + 1 \in 1 .. Len(toClient) /\ i + 1 \in 2 .. Len(toClient)
         /\ UNCHANGED <<tick, slots, edicts, lastPacked, frames, deltaTick, forceWait,
                        baselineTick, baselineUsed, baselinesSent, baseline,
                        disconnected, unacked, toServer, requests>>
<1>1. /\ toClient # <<>> /\ toClient' = Tail(toClient)
      /\ UNCHANGED <<worldVars, serverVars, unacked, toServer, requests>>
  BY DEF ClientRead
<1>2. PICK S : toClient \in Seq(S)
  BY DEF IInv, Queues
<1>3. /\ Head(toClient) = toClient[1] /\ 1 \in 1 .. Len(toClient)
      /\ Len(toClient') = Len(toClient) - 1 /\ Len(toClient) \in Nat
      /\ \A i \in 1 .. Len(toClient') :
           toClient'[i] = toClient[i + 1] /\ i + 1 \in 1 .. Len(toClient)
  BY <1>1, <1>2, TailIndex
<1>4. \A i \in 1 .. Len(toClient') : i \in Nat /\ i + 1 \in 2 .. Len(toClient)
  BY <1>3
<1> QED BY <1>1, <1>3, <1>4 DEF worldVars, serverVars

\* Reading a tick takes the first one away.
LEMMA TickIndex ==
  ASSUME IInv, NEW other, ServerReadTick(other)
  PROVE  /\ 1 \in 1 .. Len(toServer) /\ Head(toServer) = toServer[1]
         /\ Len(toServer') = Len(toServer) - 1 /\ Len(toServer) \in Nat
         /\ \A i \in 1 .. Len(toServer') :
              /\ toServer'[i] = toServer[i + 1]
              /\ i \in Nat /\ i + 1 \in 1 .. Len(toServer) /\ i + 1 \in 2 .. Len(toServer)
         /\ UNCHANGED <<tick, slots, edicts, lastPacked, toClient, baselineAcks,
                        clDeltaTick, clFrames, clBaselines, clEnts, clActive, clError,
                        fullRead, requests, shown>>
<1> DEFINE R == [tick : Ticks \cup {-1}, fullRead : 0 .. MaxTick]
<1>1. /\ toServer # <<>> /\ toServer' = Tail(toServer)
      /\ UNCHANGED <<worldVars, toClient, baselineAcks, clientVars>>
  BY DEF ServerReadTick
<1>2. toServer \in Seq(R)
  BY DEF IInv, TypeOK
<1> HIDE DEF R
<1>3. /\ Head(toServer) = toServer[1] /\ 1 \in 1 .. Len(toServer)
      /\ Len(toServer') = Len(toServer) - 1 /\ Len(toServer) \in Nat
      /\ \A i \in 1 .. Len(toServer') :
           toServer'[i] = toServer[i + 1] /\ i + 1 \in 1 .. Len(toServer)
  BY <1>1, <1>2, TailIndex
<1>4. \A i \in 1 .. Len(toServer') : i \in Nat /\ i + 1 \in 2 .. Len(toServer)
  BY <1>3
<1> QED BY <1>1, <1>3, <1>4 DEF worldVars, clientVars

\* The queue of the client's datagrams after it has sent one.
LEMMA SendIndex ==
  ASSUME IInv, ClientSendTick
  PROVE  /\ clActive
         /\ Len(toServer') = Len(toServer) + 1 /\ Len(toServer) \in Nat
         /\ \A i \in 1 .. Len(toServer') :
              \/ i \in 1 .. Len(toServer) /\ toServer'[i] = toServer[i]
              \/ /\ i = Len(toServer') /\ i \notin 1 .. Len(toServer)
                 /\ toServer'[i].tick = clDeltaTick /\ toServer'[i].fullRead = fullRead
         /\ UNCHANGED <<tick, slots, edicts, lastPacked, frames, deltaTick, forceWait,
                        baselineTick, baselineUsed, baselinesSent, baseline,
                        disconnected, unacked, toClient, baselineAcks, clDeltaTick,
                        clFrames, clBaselines, clEnts, clActive, clError, fullRead,
                        requests, shown>>
<1> DEFINE msg == [tick |-> clDeltaTick, fullRead |-> fullRead]
<1> DEFINE R == [tick : Ticks \cup {-1}, fullRead : 0 .. MaxTick]
<1>1. /\ toServer' = Append(toServer, msg) /\ clActive
      /\ UNCHANGED <<worldVars, serverVars, unacked, toClient, baselineAcks, clientVars>>
  BY DEF ClientSendTick
<1>2. toServer \in Seq(R)
  BY DEF IInv, TypeOK
<1>3. msg.tick = clDeltaTick /\ msg.fullRead = fullRead
  OBVIOUS
<1> HIDE DEF R, msg
<1>4. /\ Len(toServer') = Len(toServer) + 1 /\ Len(toServer) \in Nat
      /\ \A i \in 1 .. Len(toServer) : toServer'[i] = toServer[i]
      /\ toServer'[Len(toServer) + 1] = msg
  BY <1>1, <1>2, AppendIndex
<1> QED BY <1>1, <1>3, <1>4 DEF worldVars, serverVars, clientVars

\* What a tick of the server leaves alone, and the three things it may send.
LEMMA FrameSends ==
  ASSUME IInv, NEW fates \in [Edicts -> Fates], NEW seen \in SUBSET Edicts,
         NEW vals \in [seen -> PropValues], ServerFrame(fates, vals),
         NEW to, to = NewFrame(fates, vals)
  PROVE  /\ tick' = tick + 1 /\ to.tick = tick + 1 /\ IsFrame(to)
         /\ frames' = AddClientFrame(to)
         /\ UNCHANGED <<deltaTick, disconnected, toServer, baselineAcks, clDeltaTick,
                        clFrames, clBaselines, clEnts, clActive, clError, fullRead,
                        requests, shown>>
         /\ \/ SendNothing
            \/ forceWait <= 0 /\ SendFull(to)
            \/ /\ forceWait <= 0 /\ deltaTick # -1
               /\ deltaTick \in DOMAIN frames
               /\ SendDelta(frames[deltaTick], to)
<1>1. /\ tick' = to.tick /\ tick < MaxTick
      /\ \A e \in Edicts : MayMeet(fates[e], e)
      /\ frames' = AddClientFrame(to)
      /\ UNCHANGED <<deltaTick, disconnected, toServer, baselineAcks, clientVars>>
      /\ \/ SendNothing
         \/ forceWait <= 0 /\ SendFull(to)
         \/ /\ forceWait <= 0 /\ DeltaFrame(AddClientFrame(to)) # NoFrame
            /\ SendDelta(DeltaFrame(AddClientFrame(to)), to)
  BY DEF ServerFrame
<1>2. IsFrame(to) /\ to.tick = tick + 1
  BY <1>1, FrameType DEF IInv
<1>3. ASSUME DeltaFrame(AddClientFrame(to)) # NoFrame
      PROVE  /\ deltaTick # -1 /\ deltaTick \in DOMAIN frames
             /\ DeltaFrame(AddClientFrame(to)) = frames[deltaTick]
  <2>1. deltaTick \in DOMAIN AddClientFrame(to)
    BY <1>3 DEF DeltaFrame
  <2>2. deltaTick <= tick /\ deltaTick \in Int /\ tick \in Int
    BY TickTypes DEF IInv, TicksInOrder
  <2>3. /\ DOMAIN AddClientFrame(to) \subseteq DOMAIN frames \cup {to.tick}
        /\ \A t \in DOMAIN AddClientFrame(to) :
             AddClientFrame(to)[t] = IF t = to.tick THEN to ELSE frames[t]
    BY FrameAdded
  <2>4. deltaTick # to.tick
    BY <1>2, <2>2
  <2>5. -1 \notin DOMAIN frames
    BY SnapshotsAssumption DEF IInv, TypeOK, Ticks
  <2> QED BY <2>1, <2>3, <2>4, <2>5 DEF DeltaFrame
<1>4. UNCHANGED <<deltaTick, disconnected, toServer, baselineAcks, clDeltaTick,
                  clFrames, clBaselines, clEnts, clActive, clError, fullRead,
                  requests, shown>>
  BY <1>1 DEF clientVars
<1>5. CASE SendNothing
  BY <1>1, <1>2, <1>4, <1>5
<1>6. CASE forceWait <= 0 /\ SendFull(to)
  BY <1>1, <1>2, <1>4, <1>6
<1>7. CASE /\ forceWait <= 0 /\ DeltaFrame(AddClientFrame(to)) # NoFrame
           /\ SendDelta(DeltaFrame(AddClientFrame(to)), to)
  BY <1>1, <1>2, <1>3, <1>4, <1>7
<1> QED BY <1>1, <1>5, <1>6, <1>7

\* The client's queue after an update is sent.
LEMMA SentIndex ==
  ASSUME IInv, NEW m, toClient' = Append(toClient, m)
  PROVE  /\ Len(toClient') = Len(toClient) + 1 /\ Len(toClient) \in Nat
         /\ Len(toClient') \in 1 .. Len(toClient') /\ toClient'[Len(toClient')] = m
         /\ \A i \in 1 .. Len(toClient') :
              \/ i \in 1 .. Len(toClient) /\ i # Len(toClient') /\ toClient'[i] = toClient[i]
              \/ i = Len(toClient') /\ toClient'[i] = m
         /\ \A i \in 1 .. Len(toClient) :
              i \in 1 .. Len(toClient') /\ i < Len(toClient') /\ toClient'[i] = toClient[i]
<1>1. PICK S : toClient \in Seq(S)
  BY DEF IInv, Queues
<1>2. /\ Len(toClient') = Len(toClient) + 1
      /\ \A i \in 1 .. Len(toClient) : toClient'[i] = toClient[i]
      /\ toClient'[Len(toClient) + 1] = m
  BY <1>1, AppendIndex
<1>3. Len(toClient) \in Nat
  BY <1>1
<1> QED BY <1>2, <1>3

\* The full update the server awaits is the last update on its way, or the
\* client has read it and no other since.  The client's datagrams tell the full
\* updates it had read in their order.  One that asks for a full update while the
\* client has a snapshot again was sent before the client read the one awaited.
\* When the server forgets what was acknowledged, the client has asked it to.
Awaiting ==
  /\ fullRead <= tick
  /\ \A i \in 1 .. Len(toClient) :
       /\ fullRead < toClient[i].tick
       /\ ~toClient[i].delta =>
            i = Len(toClient) /\ forceWait = toClient[i].tick /\ unacked = forceWait
  /\ forceWait > 0 =>
       /\ fullRead <= forceWait
       /\ fullRead = forceWait \/ \E i \in 1 .. Len(toClient) : ~toClient[i].delta
  /\ clDeltaTick # -1 => fullRead > 0 /\ fullRead <= clDeltaTick
  /\ \A i \in 1 .. Len(toServer) :
       /\ toServer[i].fullRead <= fullRead
       /\ toServer[i].tick >= fullRead => toServer[i].fullRead = fullRead
       /\ \A j \in 1 .. Len(toServer) :
            i < j => toServer[i].fullRead <= toServer[j].fullRead
       /\ toServer[i].tick = -1 /\ clDeltaTick # -1 =>
            forceWait = fullRead /\ unacked = fullRead /\ toServer[i].fullRead < fullRead
  /\ forceWait <= 0 /\ deltaTick = -1 => clDeltaTick = -1

\* The numbers Awaiting relates.
LEMMA AwaitTypes ==
  ASSUME IInv
  PROVE  /\ fullRead \in Int /\ fullRead >= 0 /\ unacked \in Int
         /\ \A i \in 1 .. Len(toServer) : toServer[i].fullRead \in Int
<1>1. MaxTick \in Nat /\ fullRead \in 0 .. MaxTick /\ unacked \in 0 .. MaxTick
  BY SnapshotsAssumption DEF IInv, TypeOK
<1> DEFINE S == [tick : Ticks \cup {-1}, fullRead : 0 .. MaxTick]
<1>2. toServer \in Seq(S)
  BY DEF IInv, TypeOK
<1>3. \A s \in S : s.fullRead \in 0 .. MaxTick
  OBVIOUS
<1> HIDE DEF S
<1>4. \A i \in 1 .. Len(toServer) : toServer[i] \in S
  BY <1>2
<1> QED BY <1>1, <1>3, <1>4

LEMMA InitAwaiting == Init => Awaiting
BY DEF Init, Awaiting

\* A full update is sent only by a server that waits for none.
LEMMA AwaitingServerFrame ==
  ASSUME IInv, Awaiting, NEW fates \in [Edicts -> Fates], NEW seen \in SUBSET Edicts,
         NEW vals \in [seen -> PropValues], ServerFrame(fates, vals)
  PROVE  Awaiting'
<1>1. PICK to : to = NewFrame(fates, vals)
  OBVIOUS
<1>2. /\ tick' = tick + 1 /\ to.tick = tick + 1 /\ tick \in Int
      /\ UNCHANGED <<deltaTick, toServer, clDeltaTick, fullRead>>
      /\ \/ SendNothing
         \/ forceWait <= 0 /\ SendFull(to)
         \/ /\ forceWait <= 0 /\ deltaTick # -1 /\ deltaTick \in DOMAIN frames
            /\ SendDelta(frames[deltaTick], to)
  BY <1>1, FrameSends, TickTypes
<1>3. CASE SendNothing
  <2>1. UNCHANGED <<deltaTick, forceWait, unacked, toClient, toServer, clDeltaTick, fullRead>>
    BY <1>2, <1>3 DEF SendNothing
  <2>2. fullRead <= tick'
    BY <1>2, AwaitTypes DEF Awaiting
  <2> QED BY <2>1, <2>2 DEF Awaiting
<1>4. CASE forceWait <= 0 /\ SendFull(to)
  <2>1. PICK m : m = Update(NoFrame, to, Nothing, 0, TRUE)
    OBVIOUS
  <2>2. m.tick = tick + 1 /\ ~m.delta
    BY <1>2, <2>1 DEF Update
  <2>3. /\ toClient' = Append(toClient, m)
        /\ forceWait' = tick + 1 /\ unacked' = tick + 1
    BY <1>2, <1>4, <2>1 DEF SendFull
  <2>4. \A i \in 1 .. Len(toClient) : toClient[i].tick <= tick /\ toClient[i].tick \in Int
    BY TickTypes DEF IInv, TicksInOrder
  <2>5. \A i \in 1 .. Len(toClient) : toClient[i].delta
    BY <1>4, <2>4, TickTypes DEF Awaiting
  <2>6. \A i \in 1 .. Len(toClient') :
          /\ fullRead' < toClient'[i].tick
          /\ ~toClient'[i].delta =>
               i = Len(toClient') /\ forceWait' = toClient'[i].tick /\ unacked' = forceWait'
    <3>1. ASSUME NEW i \in 1 .. Len(toClient'), i \in 1 .. Len(toClient),
                 toClient'[i] = toClient[i]
          PROVE  fullRead' < toClient'[i].tick /\ toClient'[i].delta
      BY <1>2, <2>5, <3>1 DEF Awaiting
    <3>2. ASSUME NEW i \in 1 .. Len(toClient'), i = Len(toClient'), toClient'[i] = m
          PROVE  /\ fullRead' < toClient'[i].tick
                 /\ forceWait' = toClient'[i].tick /\ unacked' = forceWait'
      BY <1>2, <2>2, <2>3, <3>2, AwaitTypes DEF Awaiting
    <3> QED BY <2>3, <3>1, <3>2, SentIndex
  <2>7. \E i \in 1 .. Len(toClient') : ~toClient'[i].delta
    BY <2>2, <2>3, SentIndex
  <2>8. \A i \in 1 .. Len(toServer) : toServer[i].tick = -1 => clDeltaTick = -1
    BY <1>4, AwaitTypes, TickTypes DEF Awaiting
  <2> QED BY <1>2, <2>3, <2>6, <2>7, <2>8, AwaitTypes DEF Awaiting
<1>5. CASE /\ forceWait <= 0 /\ deltaTick # -1 /\ deltaTick \in DOMAIN frames
           /\ SendDelta(frames[deltaTick], to)
  <2>1. PICK m : m = Update(frames[deltaTick], to, baseline, baselineUsed, baselineTick = -1)
    OBVIOUS
  <2>2. /\ UNCHANGED <<forceWait, unacked>>
        /\ toClient' = toClient \/ toClient' = Append(toClient, m)
    BY <1>5, <2>1 DEF SendDelta
  <2>3. m.tick = tick + 1 /\ m.delta
    <3>1. frames[deltaTick].tick # NoFrame.tick
      BY <1>5 DEF IInv, TicksInOrder, NoFrame
    <3> QED BY <1>2, <2>1, <3>1 DEF Update
  <2>4. CASE toClient' = toClient
    BY <1>2, <1>5, <2>2, <2>4, AwaitTypes, TickTypes DEF Awaiting
  <2>5. CASE toClient' = Append(toClient, m)
    <3>1. ASSUME NEW i \in 1 .. Len(toClient) PROVE toClient[i].delta
      BY <1>5, TickTypes DEF Awaiting
    <3>2. ASSUME NEW i \in 1 .. Len(toClient')
          PROVE  fullRead' < toClient'[i].tick /\ toClient'[i].delta
      BY <1>2, <2>3, <2>5, <3>1, SentIndex, AwaitTypes DEF Awaiting
    <3> QED BY SMTT(30), <1>2, <1>5, <2>2, <3>2, AwaitTypes, TickTypes DEF Awaiting
  <2> QED BY <2>2, <2>4, <2>5
<1> QED BY <1>2, <1>3, <1>4, <1>5

\* What the server makes of a tick it reads.
LEMMA TickRead ==
  ASSUME IInv, NEW other \in BOOLEAN, ServerReadTick(other),
         NEW msg, msg = toServer[1]
  PROVE  /\ unacked' = (IF msg.fullRead = unacked THEN 0 ELSE unacked)
         /\ frames' = (IF msg.tick # deltaTick /\ msg.tick > 0
                       THEN DeleteClientFrames(frames, msg.tick) ELSE frames)
         /\ msg.tick \in Int /\ msg.tick >= -1 /\ msg.tick <= tick
         /\ clDeltaTick # -1 => msg.tick <= clDeltaTick
         /\ msg.tick # -1 => deltaTick <= msg.tick
         /\ \A i \in 1 .. Len(toClient) : msg.tick < toClient[i].tick
         /\ forceWait > 0 => msg.tick <= forceWait
         /\ \/ /\ forceWait > 0 /\ msg.tick # -1 /\ msg.tick # forceWait
               /\ KeepWaiting
            \/ /\ forceWait > 0 /\ msg.tick = -1 /\ ~other /\ unacked' = 0
               /\ deltaTick' = -1 /\ forceWait' = -1
               /\ OnRequestFullUpdate
            \/ /\ forceWait > 0 /\ msg.tick = -1
               /\ Acknowledge(-1)
               /\ UNCHANGED <<forceWait, baselineUsed, baselinesSent, baseline>>
            \/ /\ forceWait > 0 /\ msg.tick = forceWait
               /\ forceWait' = -1
               /\ Acknowledge(msg.tick)
               /\ UNCHANGED <<baselineUsed, baselinesSent, baseline>>
            \/ /\ forceWait <= 0 /\ deltaTick = -1
               /\ KeepWaiting
            \/ /\ forceWait <= 0 /\ deltaTick # -1 /\ msg.tick = -1
               /\ deltaTick' = -1
               /\ OnRequestFullUpdate
               /\ UNCHANGED forceWait
            \/ /\ forceWait <= 0 /\ deltaTick # -1 /\ msg.tick # -1 /\ deltaTick <= msg.tick
               /\ Acknowledge(msg.tick)
               /\ UNCHANGED <<forceWait, baselineUsed, baselinesSent, baseline>>
<1>0. Head(toServer) = msg /\ 1 \in 1 .. Len(toServer)
  BY TickIndex
<1>1. /\ unacked' = (IF msg.fullRead = unacked THEN 0 ELSE unacked)
      /\ frames' = (IF msg.tick # deltaTick /\ msg.tick > 0
                    THEN DeleteClientFrames(frames, msg.tick) ELSE frames)
      /\ \/ forceWait > 0 /\ AckWhileWaiting(msg.tick, other \/ unacked' # 0)
         \/ forceWait <= 0 /\ AckOfDelta(msg.tick)
  BY <1>0 DEF ServerReadTick
<1>2. /\ msg.tick \in Int /\ msg.tick >= -1 /\ msg.tick <= tick
      /\ clDeltaTick # -1 => msg.tick <= clDeltaTick
      /\ msg.tick # -1 => deltaTick <= msg.tick
      /\ \A i \in 1 .. Len(toClient) : msg.tick < toClient[i].tick
      /\ forceWait > 0 => msg.tick <= forceWait
  BY <1>0, TickTypes DEF IInv, TicksInOrder, AwaitedIsNewest
<1>3. CASE forceWait > 0 /\ AckWhileWaiting(msg.tick, other \/ unacked' # 0)
  BY <1>1, <1>2, <1>3 DEF AckWhileWaiting
<1>4. CASE forceWait <= 0 /\ AckOfDelta(msg.tick)
  <2>1. ~(deltaTick > msg.tick /\ msg.tick # -1)
    BY <1>2, TickTypes
  <2> QED BY <1>1, <1>2, <1>4, <2>1, TickTypes DEF AckOfDelta
<1> QED BY <1>1, <1>3, <1>4

\* A tick the server waits for was sent after the full update was read.
LEMMA AwaitingServerReadTick ==
  ASSUME IInv, Awaiting, NEW other \in BOOLEAN, ServerReadTick(other)
  PROVE  Awaiting'
<1>0. /\ 1 \in 1 .. Len(toServer)
      /\ \A i \in 1 .. Len(toServer') :
              /\ toServer'[i] = toServer[i + 1]
              /\ i \in Nat /\ i + 1 \in 1 .. Len(toServer) /\ i + 1 \in 2 .. Len(toServer)
      /\ UNCHANGED <<tick, toClient, clDeltaTick, fullRead>>
  BY TickIndex
<1>1. PICK msg : msg = toServer[1]
  OBVIOUS
<1>2. /\ unacked' = (IF msg.fullRead = unacked THEN 0 ELSE unacked)
      /\ msg.tick \in Int /\ msg.fullRead \in Int
      /\ \A i \in 1 .. Len(toClient) : msg.tick < toClient[i].tick
      /\ msg.fullRead <= fullRead
      /\ msg.tick >= fullRead => msg.fullRead = fullRead
      /\ msg.tick = -1 /\ clDeltaTick # -1 =>
           forceWait = fullRead /\ unacked = fullRead /\ msg.fullRead < fullRead
      /\ \A j \in 2 .. Len(toServer) : msg.fullRead <= toServer[j].fullRead
  BY <1>0, <1>1, TickRead, AwaitTypes DEF Awaiting
<1>3. \/ UNCHANGED <<deltaTick, forceWait>> /\ forceWait > 0
      \/ UNCHANGED <<deltaTick, forceWait>> /\ forceWait <= 0
      \/ /\ forceWait > 0 /\ msg.tick = -1 /\ unacked' = 0
         /\ deltaTick' = -1 /\ forceWait' = -1
      \/ forceWait > 0 /\ msg.tick = -1 /\ deltaTick' = -1 /\ UNCHANGED forceWait
      \/ forceWait > 0 /\ msg.tick = forceWait /\ forceWait' = -1 /\ deltaTick' = msg.tick
      \/ /\ forceWait <= 0 /\ deltaTick # -1 /\ msg.tick = -1
         /\ deltaTick' = -1 /\ UNCHANGED forceWait
      \/ /\ forceWait <= 0 /\ deltaTick # -1 /\ msg.tick # -1 
         /\ deltaTick' = msg.tick /\ UNCHANGED forceWait
  BY <1>1, TickRead DEF KeepWaiting, Acknowledge
<1>4. /\ forceWait \in Int /\ fullRead \in Int /\ fullRead >= 0 /\ unacked \in Int
      /\ \A i \in 1 .. Len(toServer) : toServer[i].tick \in Int /\ toServer[i].fullRead \in Int
      /\ \A i \in 1 .. Len(toClient) : toClient[i].tick \in Int
  BY TickTypes, AwaitTypes
\* a full update on its way is still awaited
<1>5. ASSUME NEW i \in 1 .. Len(toClient), ~toClient[i].delta
      PROVE  forceWait' = forceWait /\ unacked' = unacked
  <2>1. /\ forceWait = toClient[i].tick /\ unacked = forceWait
        /\ fullRead < toClient[i].tick
    BY <1>5 DEF Awaiting
  <2>2. msg.fullRead # unacked /\ msg.tick # forceWait /\ unacked # 0
    BY <1>2, <1>4, <2>1
  <2> QED BY <1>2, <1>3, <1>4, <2>1, <2>2
\* a request the client sent before it had the full update it has by now
<1>6. ASSUME NEW i \in 2 .. Len(toServer), toServer[i].tick = -1, clDeltaTick # -1
      PROVE  forceWait' = forceWait /\ unacked' = unacked
  <2>1. /\ forceWait = fullRead /\ unacked = fullRead /\ toServer[i].fullRead < fullRead
        /\ msg.fullRead <= toServer[i].fullRead /\ fullRead > 0
    BY <1>0, <1>2, <1>6 DEF Awaiting
  <2>2. toServer[i].fullRead \in Int
    BY <1>4, <1>6
  <2>3. msg.fullRead # unacked /\ msg.tick # forceWait
    BY <1>2, <1>4, <2>1, <2>2
  <2>4. unacked' = unacked /\ unacked' # 0
    BY <1>2, <1>4, <2>1, <2>3
  <2> QED BY <1>3, <1>4, <2>1, <2>3, <2>4
<1>7. forceWait' <= 0 /\ deltaTick' = -1 => clDeltaTick = -1
  <2>1. CASE UNCHANGED <<deltaTick, forceWait>>
    BY <2>1 DEF Awaiting
  <2>2. CASE msg.tick = -1 /\ clDeltaTick # -1
    <3>1. forceWait = fullRead /\ unacked = fullRead /\ msg.fullRead < fullRead
      BY <1>2, <2>2
    <3>2. forceWait > 0 /\ unacked' # 0
      BY <1>2, <1>4, <2>2, <3>1 DEF Awaiting
    <3> QED BY <1>3, <1>4, <2>2, <3>2
  <2>3. CASE msg.tick # -1 /\ deltaTick' = msg.tick
    BY <2>3
  <2> QED BY <1>3, <2>1, <2>2, <2>3
<1>8. /\ \A i \in 1 .. Len(toClient') :
           /\ fullRead' < toClient'[i].tick
           /\ ~toClient'[i].delta =>
                i = Len(toClient') /\ forceWait' = toClient'[i].tick /\ unacked' = forceWait'
  BY <1>0, <1>5 DEF Awaiting
<1>9. forceWait' > 0 => forceWait' = forceWait
  BY <1>3
<1>10. \A i \in 1 .. Len(toServer') :
       /\ toServer'[i].fullRead <= fullRead
       /\ toServer'[i].tick >= fullRead => toServer'[i].fullRead = fullRead
       /\ \A j \in 1 .. Len(toServer') :
            i < j => toServer'[i].fullRead <= toServer'[j].fullRead
       /\ toServer'[i].tick = -1 /\ clDeltaTick # -1 =>
            forceWait' = fullRead /\ unacked' = fullRead /\ toServer'[i].fullRead < fullRead
  <2> SUFFICES ASSUME NEW i \in 1 .. Len(toServer')
               PROVE  /\ toServer'[i].fullRead <= fullRead
                      /\ toServer'[i].tick >= fullRead => toServer'[i].fullRead = fullRead
                      /\ \A j \in 1 .. Len(toServer') :
                           i < j => toServer'[i].fullRead <= toServer'[j].fullRead
                      /\ toServer'[i].tick = -1 /\ clDeltaTick # -1 =>
                           /\ forceWait' = fullRead /\ unacked' = fullRead
                           /\ toServer'[i].fullRead < fullRead
    OBVIOUS
  <2>1. /\ toServer'[i] = toServer[i + 1] /\ i \in Nat
        /\ i + 1 \in 1 .. Len(toServer) /\ i + 1 \in 2 .. Len(toServer)
    BY <1>0
  <2>2. \A j \in 1 .. Len(toServer') :
           i < j => toServer'[i].fullRead <= toServer'[j].fullRead
    <3> SUFFICES ASSUME NEW j \in 1 .. Len(toServer'), i < j
                 PROVE  toServer'[i].fullRead <= toServer'[j].fullRead
      OBVIOUS
    <3>1. toServer'[j] = toServer[j + 1] /\ j \in Nat /\ j + 1 \in 1 .. Len(toServer)
      BY <1>0
    <3>2. i + 1 < j + 1
      BY <2>1, <3>1
    <3> QED BY <2>1, <3>1, <3>2 DEF Awaiting
  <2>3. toServer'[i].tick = -1 /\ clDeltaTick # -1 =>
          /\ forceWait' = fullRead /\ unacked' = fullRead
          /\ toServer'[i].fullRead < fullRead
    BY <1>6, <2>1 DEF Awaiting
  <2>4. /\ toServer'[i].fullRead <= fullRead
        /\ toServer'[i].tick >= fullRead => toServer'[i].fullRead = fullRead
    BY <2>1 DEF Awaiting
  <2> QED BY <2>2, <2>3, <2>4
<1> QED BY <1>0, <1>7, <1>8, <1>9, <1>10 DEF Awaiting

\* The client sends the full updates it has read in their order.
LEMMA AwaitingClientSendTick ==
  ASSUME IInv, Awaiting, ClientSendTick
  PROVE  Awaiting'
<1>1. /\ \A i \in 1 .. Len(toServer') :
              \/ i \in 1 .. Len(toServer) /\ toServer'[i] = toServer[i]
              \/ /\ i = Len(toServer') /\ i \notin 1 .. Len(toServer)
                 /\ toServer'[i].tick = clDeltaTick /\ toServer'[i].fullRead = fullRead
      /\ UNCHANGED <<tick, deltaTick, forceWait, unacked, toClient, clDeltaTick, fullRead>>
  BY SendIndex
<1>2. fullRead \in Int /\ \A i \in 1 .. Len(toServer) : toServer[i].fullRead \in Int
  BY AwaitTypes
<1>3. \A i \in 1 .. Len(toServer') :
       /\ toServer'[i].fullRead <= fullRead
       /\ toServer'[i].tick >= fullRead => toServer'[i].fullRead = fullRead
       /\ \A j \in 1 .. Len(toServer') :
            i < j => toServer'[i].fullRead <= toServer'[j].fullRead
       /\ toServer'[i].tick = -1 /\ clDeltaTick # -1 =>
            forceWait = fullRead /\ unacked = fullRead /\ toServer'[i].fullRead < fullRead
  <2> SUFFICES ASSUME NEW i \in 1 .. Len(toServer')
               PROVE  /\ toServer'[i].fullRead <= fullRead
                      /\ toServer'[i].tick >= fullRead => toServer'[i].fullRead = fullRead
                      /\ \A j \in 1 .. Len(toServer') :
                           i < j => toServer'[i].fullRead <= toServer'[j].fullRead
                      /\ toServer'[i].tick = -1 /\ clDeltaTick # -1 =>
                           /\ forceWait = fullRead /\ unacked = fullRead
                           /\ toServer'[i].fullRead < fullRead
    OBVIOUS
  <2>1. CASE i \in 1 .. Len(toServer) /\ toServer'[i] = toServer[i]
    <3>1. \A j \in 1 .. Len(toServer') :
            i < j => toServer'[i].fullRead <= toServer'[j].fullRead
      BY <1>1, <2>1 DEF Awaiting
    <3> QED BY <2>1, <3>1 DEF Awaiting
  <2>2. CASE i = Len(toServer') /\ toServer'[i].tick = clDeltaTick
             /\ toServer'[i].fullRead = fullRead
    <3>1. \A j \in 1 .. Len(toServer') : ~(i < j)
      BY <2>2
    <3> QED BY <1>2, <2>2, <3>1
  <2> QED BY <1>1, <2>1, <2>2
<1> QED BY <1>1, <1>3 DEF Awaiting

\* The full update on its way is the last message of it.
LEMMA AwaitingClientReads ==
  ASSUME IInv, Awaiting, ClientReads
  PROVE  Awaiting'
<1>1. ClientRead
  BY DEF ClientReads, ClientIgnoresDelta, ClientReadsDelta, ClientReadsFull
<1>2. /\ 1 \in 1 .. Len(toClient) /\ Head(toClient) = toClient[1]
      /\ \A i \in 1 .. Len(toClient') :
              /\ toClient'[i] = toClient[i + 1]
              /\ i \in Nat /\ i + 1 \in 1 .. Len(toClient) /\ i + 1 \in 2 .. Len(toClient)
      /\ UNCHANGED <<tick, deltaTick, forceWait, unacked, toServer>>
      /\ Len(toClient') = Len(toClient) - 1 /\ Len(toClient) \in Nat
  BY <1>1, ReadIndex
<1>3. PICK m : m = toClient[1]
  OBVIOUS
<1>4. /\ m.tick \in Int /\ m.tick <= tick /\ fullRead < m.tick
      /\ \A i \in 2 .. Len(toClient) : m.tick < toClient[i].tick
      /\ \A i \in 1 .. Len(toServer) : toServer[i].tick < m.tick
      /\ ~m.delta => 1 = Len(toClient) /\ forceWait = m.tick /\ unacked = forceWait
      /\ forceWait > 0 => m.tick <= forceWait
  BY <1>2, <1>3, TickTypes DEF IInv, TicksInOrder, AwaitedIsNewest, Awaiting
<1>5. /\ fullRead \in Int /\ fullRead >= 0 /\ forceWait \in Int
      /\ \A i \in 1 .. Len(toServer) : toServer[i].fullRead \in Int /\ toServer[i].tick \in Int
  BY TickTypes, AwaitTypes
<1>6. CASE m.delta /\ fullRead' = fullRead /\ clDeltaTick' \in {clDeltaTick, m.tick}
           /\ (clDeltaTick = -1 => clDeltaTick' = -1)
  <2>1. forceWait > 0 /\ fullRead # forceWait =>
          \E i \in 1 .. Len(toClient') : ~toClient'[i].delta
    <3> SUFFICES ASSUME forceWait > 0, fullRead # forceWait
                 PROVE  \E i \in 1 .. Len(toClient') : ~toClient'[i].delta
      OBVIOUS
    <3>1. PICK i \in 1 .. Len(toClient) : ~toClient[i].delta
      BY DEF Awaiting
    <3>2. i # 1
      BY <1>3, <1>6, <3>1
    <3>3. i - 1 \in 1 .. Len(toClient')
      BY <1>2, <3>1, <3>2
    <3>4. toClient'[i - 1] = toClient[i]
      BY <1>2, <3>3
    <3> QED BY <3>1, <3>3, <3>4
  <2>2. \A i \in 1 .. Len(toClient') :
           /\ fullRead < toClient'[i].tick
           /\ ~toClient'[i].delta =>
                i = Len(toClient') /\ forceWait = toClient'[i].tick /\ unacked = forceWait
    <3> SUFFICES ASSUME NEW i \in 1 .. Len(toClient')
                 PROVE  /\ fullRead < toClient'[i].tick
                        /\ ~toClient'[i].delta =>
                             /\ i = Len(toClient')
                             /\ forceWait = toClient'[i].tick /\ unacked = forceWait
      OBVIOUS
    <3>1. toClient'[i] = toClient[i + 1] /\ i \in Nat /\ i + 1 \in 1 .. Len(toClient)
      BY <1>2
    <3>2. i + 1 = Len(toClient) => i = Len(toClient')
      BY <1>2, <3>1
    <3> QED BY <3>1, <3>2 DEF Awaiting
  <2>3. clDeltaTick' # -1 => clDeltaTick # -1 /\ fullRead > 0 /\ fullRead <= clDeltaTick'
    BY <1>4, <1>5, <1>6 DEF Awaiting
  <2> QED BY <1>2, <1>6, <2>1, <2>2, <2>3 DEF Awaiting
<1>7. CASE ~m.delta /\ fullRead' = m.tick /\ clDeltaTick' = m.tick
  <2>1. \A i \in 1 .. Len(toClient') : FALSE
    BY <1>2, <1>4, <1>7
  <2>2. forceWait = m.tick /\ unacked = m.tick
    BY <1>4, <1>7
  <2>3. \A i \in 1 .. Len(toServer) :
          /\ toServer[i].fullRead < m.tick /\ ~(toServer[i].tick >= m.tick)
          /\ \A j \in 1 .. Len(toServer) :
               i < j => toServer[i].fullRead <= toServer[j].fullRead
    BY <1>4, <1>5 DEF Awaiting
  <2> QED BY <1>2, <1>4, <1>5, <1>7, <2>1, <2>2, <2>3 DEF Awaiting
<1>8. \/ ClientIgnoresDelta
      \/ ClientReadsDelta
      \/ ClientReadsFull
  BY DEF ClientReads
<1>9. CASE ClientIgnoresDelta
  BY <1>2, <1>3, <1>6, <1>9 DEF ClientIgnoresDelta
<1>10. CASE ClientReadsDelta
  <2>1. /\ m.delta /\ fullRead' = fullRead /\ clDeltaTick # -1
        /\ clDeltaTick' \in {clDeltaTick, m.tick}
    BY <1>2, <1>3, <1>10 DEF ClientReadsDelta, ProcessPacketEntities
  <2> QED BY <1>6, <2>1
<1>11. CASE ClientReadsFull
  BY <1>2, <1>3, <1>7, <1>11 DEF ClientReadsFull, ProcessPacketEntities
<1> QED BY <1>8, <1>9, <1>10, <1>11

\* The other steps send no update and read none.
LEMMA AwaitingOthers ==
  ASSUME IInv, Awaiting, ServerReadBaselineAck \/ ForceFullUpdate \/ UNCHANGED vars
  PROVE  Awaiting'
<1>1. UNCHANGED <<tick, deltaTick, forceWait, unacked, toClient, toServer, fullRead>>
      /\ clDeltaTick' \in {clDeltaTick, -1}
  BY DEF ServerReadBaselineAck, ForceFullUpdate, vars, worldVars, clientVars, serverVars
<1> QED BY <1>1 DEF Awaiting

LEMMA NextAwaiting == IInv /\ Awaiting /\ [Next]_vars => Awaiting'
<1> SUFFICES ASSUME IInv, Awaiting, [Next]_vars PROVE Awaiting'
  OBVIOUS
<1>1. ASSUME NEW fates \in [Edicts -> Fates], NEW seen \in SUBSET Edicts,
             NEW vals \in [seen -> PropValues], ServerFrame(fates, vals)
      PROVE  Awaiting'
  BY <1>1, AwaitingServerFrame
<1>2. ASSUME NEW other \in BOOLEAN, ServerReadTick(other) PROVE Awaiting'
  BY <1>2, AwaitingServerReadTick
<1>3. CASE ServerReadBaselineAck \/ ForceFullUpdate \/ UNCHANGED vars
  BY <1>3, AwaitingOthers
<1>4. CASE ClientSendTick
  BY <1>4, AwaitingClientSendTick
<1>5. CASE ClientReads
  BY <1>5, AwaitingClientReads
<1> QED BY <1>1, <1>2, <1>3, <1>4, <1>5 DEF Next

-----------------------------------------------------------------------------
(* 4. The frames of the server.                                            *)

\* The frames kept are those from lo on.  A tick that is acknowledged, or may be,
\* is missing only when as many frames as are kept were made since.
Late(lo, t) == t < lo => tick - lo + 1 = MaxFrames

KeptFrom(lo) ==
  /\ DOMAIN frames = lo .. tick /\ tick - lo + 1 <= MaxFrames
  /\ forceWait <= 0 /\ deltaTick > 0 => Late(lo, deltaTick)
  /\ forceWait > 0 => Late(lo, forceWait)
  /\ clDeltaTick # -1 => Late(lo, clDeltaTick)
  /\ \A i \in 1 .. Len(toClient) : Late(lo, toClient[i].tick)
  /\ \A i \in 1 .. Len(toServer) :
       toServer[i].tick # -1 => Late(lo, toServer[i].tick)
FramesKept == \E lo \in 1 .. tick + 1 : KeptFrom(lo)

\* The frames kept are as many as the ticks from the first to the last.
LEMMA IntervalSize ==
  ASSUME NEW a \in Int, NEW b \in Int, a <= b + 1
  PROVE  Cardinality(a .. b) = b - a + 1
BY FS_Interval

LEMMA InitFramesKept == Init => FramesKept
<1> SUFFICES ASSUME Init PROVE FramesKept
  OBVIOUS
<1>1. KeptFrom(1)
  BY SnapshotsAssumption DEF Init, KeptFrom, Nothing
<1> QED BY <1>1 DEF FramesKept, Init

\* The frames after a tick: the new one, and all or all but the oldest of the others.
LEMMA FramesAdded ==
  ASSUME IInv, NEW lo \in 1 .. tick + 1, DOMAIN frames = lo .. tick,
         tick - lo + 1 <= MaxFrames, NEW f, f.tick = tick + 1
  PROVE  \/ /\ tick - lo + 1 = MaxFrames
            /\ DOMAIN AddClientFrame(f) = (lo + 1) .. (tick + 1)
         \/ /\ tick - lo + 1 < MaxFrames
            /\ DOMAIN AddClientFrame(f) = lo .. (tick + 1)
<1>1. tick \in Nat /\ lo \in Int /\ MaxFrames \in Nat \ {0}
  BY TickTypes, SnapshotsAssumption
<1> DEFINE ticks == lo .. (tick + 1)
<1>2. DOMAIN frames \cup {f.tick} = ticks
  BY <1>1
<1>3. Cardinality(ticks) = tick - lo + 2
  <2>1. lo \in Int /\ tick + 1 \in Int /\ lo <= tick + 1 + 1
    BY <1>1
  <2>2. Cardinality(lo .. (tick + 1)) = (tick + 1) - lo + 1
    BY <2>1, IntervalSize
  <2> QED BY <1>1, <2>2
<1>4. DOMAIN AddClientFrame(f) =
        IF Cardinality(ticks) <= MaxFrames THEN ticks
        ELSE {t \in ticks : \E u \in ticks : u < t}
  BY <1>2 DEF AddClientFrame
<1>5. {t \in ticks : \E u \in ticks : u < t} = (lo + 1) .. (tick + 1)
  <2>1. \A t \in ticks : (\E u \in ticks : u < t) <=> t >= lo + 1
    BY <1>1
  <2> QED BY <1>1, <2>1
<1> HIDE DEF ticks
<1>6. CASE tick - lo + 1 = MaxFrames
  <2>1. ~(Cardinality(ticks) <= MaxFrames)
    BY <1>1, <1>3, <1>6
  <2> QED BY <1>4, <1>5, <1>6, <2>1
<1>7. CASE tick - lo + 1 < MaxFrames
  <2>1. Cardinality(ticks) <= MaxFrames
    BY <1>1, <1>3, <1>7
  <2> QED BY <1>4, <1>7, <2>1 DEF ticks
<1> QED BY <1>1, <1>6, <1>7

\* A frame is dropped only when as many as are kept were made after it.
LEMMA FramesServerFrame ==
  ASSUME IInv, FramesKept, NEW fates \in [Edicts -> Fates], NEW seen \in SUBSET Edicts,
         NEW vals \in [seen -> PropValues], ServerFrame(fates, vals)
  PROVE  FramesKept'
<1>1. PICK to : to = NewFrame(fates, vals)
  OBVIOUS
<1>2. PICK lo \in 1 .. tick + 1 : KeptFrom(lo)
  BY DEF FramesKept
<1>3. /\ tick' = tick + 1 /\ to.tick = tick + 1 /\ tick \in Int /\ tick >= 0
      /\ frames' = AddClientFrame(to)
      /\ UNCHANGED <<deltaTick, toServer, clDeltaTick>>
      /\ forceWait' \in {forceWait, tick + 1}
      /\ forceWait > 0 => forceWait' = forceWait
      /\ \/ toClient' = toClient
         \/ \E m : m.tick = tick + 1 /\ toClient' = Append(toClient, m)
  BY <1>1, FrameSends, TickTypes, Sending
<1>4. \A i \in 1 .. Len(toClient') :
         \/ i \in 1 .. Len(toClient) /\ toClient'[i] = toClient[i]
         \/ toClient'[i].tick = tick + 1
  BY <1>3, SentIndex
<1>5. /\ DOMAIN frames = lo .. tick /\ tick - lo + 1 <= MaxFrames
      /\ MaxFrames \in Nat \ {0} /\ lo \in Int /\ 1 <= lo /\ lo <= tick + 1
  BY <1>2, <1>3, SnapshotsAssumption DEF KeptFrom
<1>61. PICK hi : hi = IF tick - lo + 1 = MaxFrames THEN lo + 1 ELSE lo
  OBVIOUS
<1>6. \/ tick - lo + 1 = MaxFrames /\ hi = lo + 1
      \/ tick - lo + 1 < MaxFrames /\ hi = lo
  BY <1>3, <1>5, <1>61
<1>7. /\ DOMAIN frames' = hi .. tick' /\ tick' - hi + 1 <= MaxFrames
      /\ hi \in 1 .. tick' + 1 /\ hi <= tick + 1
  <2>1. CASE tick - lo + 1 = MaxFrames /\ hi = lo + 1
    <3>1. DOMAIN AddClientFrame(to) = (lo + 1) .. (tick + 1)
      BY <1>3, <1>5, <2>1, FramesAdded
    <3> QED BY <1>3, <1>5, <2>1, <3>1
  <2>2. CASE tick - lo + 1 < MaxFrames /\ hi = lo
    <3>1. DOMAIN AddClientFrame(to) = lo .. (tick + 1)
      BY <1>3, <1>5, <2>2, FramesAdded
    <3> QED BY <1>3, <1>5, <2>2, <3>1
  <2> QED BY <1>6, <2>1, <2>2
<1>8. ASSUME NEW t \in Int, Late(lo, t) PROVE Late(hi, t)'
  BY <1>3, <1>5, <1>6, <1>8 DEF Late
<1>9. ASSUME NEW t \in Int, t = tick + 1 PROVE Late(hi, t)'
  BY <1>3, <1>5, <1>7, <1>9 DEF Late
<1>10. KeptFrom(hi)'
  <2>1. forceWait' <= 0 /\ deltaTick' > 0 => Late(hi, deltaTick)'
    <3>1. Late(hi, deltaTick)' \/ ~Late(lo, deltaTick)
      BY <1>3, <1>8, TickTypes DEF Late
    <3> QED BY <1>2, <1>3, <3>1, TickTypes DEF KeptFrom
  <2>2. forceWait' > 0 => Late(hi, forceWait)'
    <3>1. CASE forceWait' = tick + 1
      BY <1>3, <1>9, <3>1 DEF Late
    <3>2. CASE forceWait' = forceWait
      <4>1. forceWait > 0 => Late(lo, forceWait)
        BY <1>2 DEF KeptFrom
      <4> QED BY <3>2, <4>1, <1>8, TickTypes DEF Late
    <3> QED BY <1>3, <3>1, <3>2
  <2>3. clDeltaTick' # -1 => Late(hi, clDeltaTick)'
    <3>1. clDeltaTick # -1 => Late(lo, clDeltaTick)
      BY <1>2 DEF KeptFrom
    <3> QED BY <1>3, <3>1, <1>8, TickTypes DEF Late
  <2>4. ASSUME NEW i \in 1 .. Len(toClient') PROVE Late(hi, toClient[i].tick)'
    <3>1. CASE i \in 1 .. Len(toClient) /\ toClient'[i] = toClient[i]
      <4>1. Late(lo, toClient[i].tick) /\ toClient[i].tick \in Int
        BY <1>2, <3>1, TickTypes DEF KeptFrom
      <4> QED BY <3>1, <4>1, <1>8 DEF Late
    <3>2. CASE toClient'[i].tick = tick + 1
      BY <1>3, <1>9, <3>2 DEF Late
    <3> QED BY <1>4, <3>1, <3>2
  <2>5. ASSUME NEW i \in 1 .. Len(toServer), toServer[i].tick # -1
        PROVE  Late(hi, toServer[i].tick)'
    <3>1. Late(lo, toServer[i].tick) /\ toServer[i].tick \in Int
      BY <1>2, <2>5, TickTypes DEF KeptFrom
    <3> QED BY <1>3, <3>1, <1>8 DEF Late
  <2> QED BY <1>3, <1>7, <2>1, <2>2, <2>3, <2>4, <2>5 DEF KeptFrom
<1> QED BY <1>7, <1>10 DEF FramesKept

\* An acknowledgement drops only frames before the one acknowledged.
LEMMA FramesServerReadTick ==
  ASSUME IInv, FramesKept, NEW other \in BOOLEAN, ServerReadTick(other)
  PROVE  FramesKept'
<1>1. PICK lo \in 1 .. tick + 1 : KeptFrom(lo)
  BY DEF FramesKept
<1>2. PICK msg : msg = toServer[1]
  OBVIOUS
<1>3. /\ 1 \in 1 .. Len(toServer)
      /\ \A i \in 1 .. Len(toServer') :
              /\ toServer'[i] = toServer[i + 1]
              /\ i \in Nat /\ i + 1 \in 1 .. Len(toServer) /\ i + 1 \in 2 .. Len(toServer)
      /\ UNCHANGED <<tick, toClient, clDeltaTick>>
  BY TickIndex
<1>4. /\ frames' = (IF msg.tick # deltaTick /\ msg.tick > 0
                    THEN DeleteClientFrames(frames, msg.tick) ELSE frames)
      /\ msg.tick \in Int /\ msg.tick >= -1 /\ msg.tick <= tick
      /\ clDeltaTick # -1 => msg.tick <= clDeltaTick
      /\ msg.tick # -1 => deltaTick <= msg.tick
      /\ \A i \in 1 .. Len(toClient) : msg.tick < toClient[i].tick
      /\ \A i \in 2 .. Len(toServer) : toServer[i].tick # -1 => msg.tick <= toServer[i].tick
      /\ forceWait > 0 => msg.tick <= forceWait
      /\ msg.tick # -1 => Late(lo, msg.tick)
  BY SMTT(30), <1>1, <1>2, <1>3, TickRead DEF IInv, TicksInOrder, KeptFrom
<1>5. /\ lo \in Int /\ 1 <= lo /\ lo <= tick + 1 /\ tick \in Int
      /\ MaxFrames \in Nat /\ tick - lo + 1 <= MaxFrames /\ DOMAIN frames = lo .. tick
  BY <1>1, TickTypes, SnapshotsAssumption DEF KeptFrom
<1>6. PICK hi : hi = IF msg.tick # deltaTick /\ msg.tick > lo THEN msg.tick ELSE lo
  OBVIOUS
<1>7. /\ DOMAIN frames' = hi .. tick /\ hi \in 1 .. tick + 1 /\ hi >= lo
      /\ \/ hi = lo
         \/ hi = msg.tick /\ msg.tick > lo
  <2>1. CASE msg.tick # deltaTick /\ msg.tick > 0
    <3>1. DOMAIN frames' = {t \in lo .. tick : t >= msg.tick}
      BY <1>4, <1>5, <2>1 DEF DeleteClientFrames, Restrict
    <3>2. CASE msg.tick > lo
      <4>1. hi = msg.tick
        BY <1>6, <2>1, <3>2
      <4>2. {t \in lo .. tick : t >= msg.tick} = msg.tick .. tick
        BY <1>4, <1>5, <3>2
      <4>3. DOMAIN frames' = hi .. tick
        BY <3>1, <4>1, <4>2
      <4> QED BY <1>4, <1>5, <3>2, <4>1, <4>3
    <3>3. CASE ~(msg.tick > lo)
      <4>1. hi = lo
        BY <1>6, <3>3
      <4>2. {t \in lo .. tick : t >= msg.tick} = lo .. tick
        BY <1>4, <1>5, <3>3
      <4>3. DOMAIN frames' = hi .. tick
        BY <3>1, <4>1, <4>2
      <4> QED BY <1>4, <1>5, <4>1, <4>3
    <3> QED BY <3>2, <3>3
  <2>2. CASE ~(msg.tick # deltaTick /\ msg.tick > 0)
    <3>1. hi = lo
      BY <1>4, <1>5, <1>6, <2>2
    <3> QED BY <1>4, <1>5, <2>2, <3>1
  <2> QED BY <2>1, <2>2
<1>8. ASSUME NEW t \in Int, Late(lo, t), t >= msg.tick PROVE Late(hi, t)'
  <2>1. tick' = tick /\ msg.tick \in Int
    BY <1>3, <1>4
  <2>2. CASE hi = lo
    BY <1>8, <2>1, <2>2 DEF Late
  <2>3. CASE hi = msg.tick
    BY <1>8, <2>1, <2>3 DEF Late
  <2> QED BY <1>7, <2>2, <2>3
<1>9. \/ UNCHANGED <<deltaTick, forceWait>> /\ (forceWait > 0 \/ deltaTick = -1)
      \/ deltaTick' = -1 /\ forceWait' \in {-1, forceWait}
      \/ deltaTick' = msg.tick /\ msg.tick # -1 /\ forceWait' \in {-1, forceWait}
  BY <1>2, TickRead, TickTypes DEF KeepWaiting, Acknowledge
<1>10. KeptFrom(hi)'
  <2>1. forceWait' <= 0 /\ deltaTick' > 0 => Late(hi, deltaTick)'
    <3> SUFFICES ASSUME forceWait' <= 0, deltaTick' > 0 PROVE Late(hi, deltaTick)'
      OBVIOUS
    <3>1. deltaTick' = msg.tick /\ msg.tick # -1
      BY <1>9, TickTypes
    <3> QED BY <1>4, <1>8, <3>1 DEF Late
  <2>2. forceWait' > 0 => Late(hi, forceWait)'
    <3> SUFFICES ASSUME forceWait' > 0 PROVE Late(hi, forceWait)'
      OBVIOUS
    <3>1. forceWait' = forceWait /\ forceWait \in Int
      BY <1>9, TickTypes
    <3>2. Late(lo, forceWait)
      BY <1>1, <3>1 DEF KeptFrom
    <3> QED BY <1>4, <1>8, <3>1, <3>2 DEF Late
  <2>3. clDeltaTick # -1 => Late(hi, clDeltaTick)'
    <3>1. clDeltaTick # -1 => Late(lo, clDeltaTick)
      BY <1>1 DEF KeptFrom
    <3> QED BY <1>3, <1>4, <1>8, <3>1, TickTypes DEF Late
  <2>4. ASSUME NEW i \in 1 .. Len(toClient) PROVE Late(hi, toClient[i].tick)'
    <3>1. Late(lo, toClient[i].tick) /\ toClient[i].tick \in Int /\ toClient[i].tick >= msg.tick
      BY SMTT(30), <1>1, <1>4, TickTypes DEF KeptFrom
    <3> QED BY <1>3, <1>8, <3>1 DEF Late
  <2>5. ASSUME NEW i \in 1 .. Len(toServer'), toServer'[i].tick # -1
        PROVE  Late(hi, toServer[i].tick)'
    <3>1. /\ toServer'[i] = toServer[i + 1] /\ i + 1 \in 1 .. Len(toServer)
          /\ i + 1 \in 2 .. Len(toServer)
      BY <1>3
    <3>2. Late(lo, toServer[i + 1].tick) /\ toServer[i + 1].tick \in Int
          /\ toServer[i + 1].tick >= msg.tick
      BY <1>1, <1>4, <2>5, <3>1, TickTypes DEF KeptFrom
    <3> QED BY <1>8, <3>1, <3>2 DEF Late
  <2>6. DOMAIN frames' = hi .. tick' /\ tick' - hi + 1 <= MaxFrames
    BY <1>3, <1>5, <1>7
  <2>7. clDeltaTick' # -1 => Late(hi, clDeltaTick)'
    BY <1>3, <2>3
  <2>8. \A i \in 1 .. Len(toClient') : Late(hi, toClient[i].tick)'
    BY <1>3, <2>4
  <2> QED BY <2>1, <2>2, <2>5, <2>6, <2>7, <2>8 DEF KeptFrom
<1> QED BY <1>3, <1>7, <1>10 DEF FramesKept

\* The client acknowledges a tick it read, which no frame dropped was.
LEMMA FramesClient ==
  ASSUME IInv, FramesKept, ClientSendTick \/ ClientReads
  PROVE  FramesKept'
<1>1. PICK lo \in 1 .. tick + 1 : KeptFrom(lo)
  BY DEF FramesKept
<1>2. CASE ClientSendTick
  <2>1. /\ \A i \in 1 .. Len(toServer') :
              \/ i \in 1 .. Len(toServer) /\ toServer'[i] = toServer[i]
              \/ toServer'[i].tick = clDeltaTick
        /\ UNCHANGED <<tick, frames, deltaTick, forceWait, toClient, clDeltaTick>>
    BY <1>2, SendIndex
  <2>2. KeptFrom(lo)'
    BY <1>1, <2>1 DEF KeptFrom, Late
  <2> QED BY <1>1, <2>1, <2>2 DEF FramesKept
<1>3. CASE ClientReads
  <2>1. ClientRead
    BY <1>3 DEF ClientReads, ClientIgnoresDelta, ClientReadsDelta, ClientReadsFull
  <2>2. /\ 1 \in 1 .. Len(toClient) /\ Head(toClient) = toClient[1]
        /\ \A i \in 1 .. Len(toClient') :
              /\ toClient'[i] = toClient[i + 1]
              /\ i \in Nat /\ i + 1 \in 1 .. Len(toClient) /\ i + 1 \in 2 .. Len(toClient)
        /\ UNCHANGED <<tick, frames, deltaTick, forceWait, toServer>>
    BY <2>1, ReadIndex
  <2>3. clDeltaTick' \in {clDeltaTick, toClient[1].tick}
    BY <1>3, <2>2 DEF ClientReads, ClientIgnoresDelta, ClientReadsDelta, ClientReadsFull,
           ProcessPacketEntities
  <2>4. KeptFrom(lo)'
    BY <1>1, <2>2, <2>3 DEF KeptFrom, Late
  <2> QED BY <1>1, <2>2, <2>4 DEF FramesKept
<1> QED BY <1>2, <1>3

\* The other steps leave the frames alone.
LEMMA FramesOthers ==
  ASSUME IInv, FramesKept, ServerReadBaselineAck \/ ForceFullUpdate \/ UNCHANGED vars
  PROVE  FramesKept'
<1>1. UNCHANGED <<tick, frames, deltaTick, forceWait, toClient, toServer>>
      /\ clDeltaTick' \in {clDeltaTick, -1}
  BY DEF ServerReadBaselineAck, ForceFullUpdate, vars, worldVars, clientVars, serverVars
<1> QED BY <1>1 DEF FramesKept, KeptFrom, Late

LEMMA NextFramesKept == IInv /\ FramesKept /\ [Next]_vars => FramesKept'
<1> SUFFICES ASSUME IInv, FramesKept, [Next]_vars PROVE FramesKept'
  OBVIOUS
<1>1. ASSUME NEW fates \in [Edicts -> Fates], NEW seen \in SUBSET Edicts,
             NEW vals \in [seen -> PropValues], ServerFrame(fates, vals)
      PROVE  FramesKept'
  BY <1>1, FramesServerFrame
<1>2. ASSUME NEW other \in BOOLEAN, ServerReadTick(other) PROVE FramesKept'
  BY <1>2, FramesServerReadTick
<1>3. CASE ServerReadBaselineAck \/ ForceFullUpdate \/ UNCHANGED vars
  BY <1>3, FramesOthers
<1>4. CASE ClientSendTick \/ ClientReads
  BY <1>4, FramesClient
<1> QED BY <1>1, <1>2, <1>3, <1>4 DEF Next

\* A full update the client did not ask for is sent only when it lags as many
\* snapshots behind as the server keeps, whatever the frames it acknowledges.
THEOREM SnapshotFullOnlyWhenLate == Spec => []FullOnlyWhenLate
<1>1. IInv /\ FramesKept => FullOnlyWhenLate
  <2> SUFFICES ASSUME IInv, FramesKept, forceWait <= 0, deltaTick > 0,
                      deltaTick \notin DOMAIN frames
               PROVE  Cardinality(DOMAIN frames) = MaxFrames
    BY DEF FullOnlyWhenLate
  <2>1. PICK lo \in 1 .. tick + 1 : KeptFrom(lo)
    BY DEF FramesKept
  <2>2. lo \in Int /\ tick \in Int /\ deltaTick \in Int /\ deltaTick <= tick /\ lo <= tick + 1
    BY TickTypes DEF IInv, TicksInOrder
  <2>3. DOMAIN frames = lo .. tick /\ Late(lo, deltaTick)
    BY <2>1 DEF KeptFrom
  <2>4. tick - lo + 1 = MaxFrames
    BY <2>2, <2>3 DEF Late
  <2> QED BY <2>2, <2>3, <2>4, IntervalSize
<1>2. FramesKept /\ []IInv /\ [][Next]_vars => []FramesKept
  BY NextFramesKept, PTL
<1> QED BY <1>1, <1>2, InitFramesKept, SpecIInv, PTL DEF Spec

-----------------------------------------------------------------------------
(* 5. The history of frames.                                               *)

\* H[t] is the frame the server made at tick t.
MadeFrames(H) ==
  /\ H = [t \in 1 .. tick |-> H[t]]
  /\ \A t \in 1 .. tick : IsFrame(H[t]) /\ H[t].tick = t
  /\ \A t \in DOMAIN frames : t \in 1 .. tick /\ frames[t] = H[t]
  /\ \A t \in 1 .. tick : \A e \in DOMAIN H[t].pack : H[t].serial[e] # 0

\* The serial numbers of a slot only grow: the entity of a frame is that of every
\* frame up to the next that has it, and a slot that was reused has another.
SerialHistory(H) ==
  \A e \in Edicts, t \in 1 .. tick :
    /\ H[t].serial[e] <= edicts[e].serial
    /\ \A u \in 1 .. tick :
         t < u =>
           /\ H[t].serial[e] # 0 /\ H[t].serial[e] = edicts[e].serial /\ edicts[e].live
                => H[u].serial[e] = H[t].serial[e]
           /\ e \in H[u].deletes => H[t].serial[e] # H[u].serial[e]
           /\ \A v \in 1 .. tick :
                u < v /\ H[t].serial[e] # 0 /\ H[v].serial[e] = H[t].serial[e]
                  => H[u].serial[e] = H[t].serial[e]

\* UnmarkedIsUnchanged between any two frames ever made, and between each of them
\* and the last pack of an entity.
ChangeHistory(H) ==
  \A t \in 1 .. tick :
    /\ \A u \in 1 .. tick : t < u => ChangesMarked(H[t], H[u])
    /\ \A e \in DOMAIN H[t].pack \cap DOMAIN lastPacked :
         lastPacked[e].serial = H[t].serial[e] =>
           \A p \in Props : lastPacked[e].chg[p] <= t
                              => lastPacked[e].val[p] = H[t].pack[e].val[p]

History(H) == MadeFrames(H) /\ SerialHistory(H) /\ ChangeHistory(H)

\* No frame was made.
LEMMA InitHistory ==
  ASSUME Init, NEW H, H = [t \in 1 .. 0 |-> NoFrame]
  PROVE  History(H)
<1>1. 1 .. tick = {} /\ tick = 0
  BY DEF Init
<1> QED BY <1>1 DEF History, MadeFrames, SerialHistory, ChangeHistory, Init, Nothing

\* No frame is made, and some may be dropped.
LEMMA HistoryKept ==
  ASSUME NEW H, History(H), UNCHANGED <<tick, edicts, lastPacked>>,
         \A t \in DOMAIN frames' : t \in DOMAIN frames /\ frames'[t] = frames[t]
  PROVE  History(H)'
<1>1. MadeFrames(H)'
  BY DEF History, MadeFrames
<1>2. SerialHistory(H)' /\ ChangeHistory(H)'
  BY DEF History, SerialHistory, ChangeHistory
<1> QED BY <1>1, <1>2 DEF History

\* The frames made, and the numbers they hold.
LEMMA HistoryTypes ==
  ASSUME IInv, NEW H, History(H)
  PROVE  /\ tick \in Nat
         /\ \A t \in 1 .. tick : IsFrame(H[t]) /\ H[t].tick = t /\ t \in Int
         /\ \A t \in 1 .. tick : \A e \in DOMAIN H[t].pack : e \in Edicts /\ H[t].serial[e] # 0
         /\ \A t \in 1 .. tick, e \in Edicts : H[t].serial[e] \in Nat
         /\ \A e \in Edicts : edicts[e].serial \in Nat
<1>1. tick \in Nat
  BY TickTypes
<1>2. \A t \in 1 .. tick : IsFrame(H[t]) /\ H[t].tick = t /\ t \in Int
  BY DEF History, MadeFrames
<1>3. \A e \in Edicts : edicts[e].serial \in Nat
  BY SnapshotsAssumption DEF IInv, TypeOK
<1>4. \A t \in 1 .. tick : \A e \in DOMAIN H[t].pack : e \in Edicts /\ H[t].serial[e] # 0
  BY <1>2 DEF History, MadeFrames, IsFrame, PerEdict
<1>5. \A t \in 1 .. tick, e \in Edicts : H[t].serial[e] \in Nat
  BY <1>2, ZenonT(30) DEF IsFrame
<1> QED BY <1>1, <1>2, <1>3, <1>4, <1>5

\* How the serial number of a slot relates to the older ones after a tick.
LEMMA SerialStep ==
  ASSUME IInv, NEW fates \in [Edicts -> Fates], NEW seen \in SUBSET Edicts,
         NEW vals \in [seen -> PropValues], ServerFrame(fates, vals), NEW e \in Edicts,
         NEW to, to = NewFrame(fates, vals), NEW k \in Nat, k <= edicts[e].serial
  PROVE  /\ k <= edicts'[e].serial /\ to.serial[e] <= edicts'[e].serial
         /\ k # 0 /\ k = edicts'[e].serial /\ edicts'[e].live =>
              edicts'[e] = edicts[e] /\ to.serial[e] = k
         /\ k # 0 /\ k = to.serial[e] => edicts[e].live /\ edicts[e].serial = k
         /\ e \in to.deletes => to.serial[e] # k
         /\ e \in DOMAIN to.pack => to.serial[e] # 0
<1>1. /\ edicts'[e] = After(fates[e], e) /\ edicts[e].serial \in Nat
      /\ edicts[e] \in [serial : 0 .. MaxSerial, live : BOOLEAN]
      /\ e \in DOMAIN to.pack => to.serial[e] # 0
  <2>1. \A d \in DOMAIN vals : to.serial[d] # 0
    BY DEF ServerFrame
  <2>2. DOMAIN to.pack = DOMAIN vals
    BY DEF NewFrame
  <2> QED BY <2>1, <2>2, SnapshotsAssumption DEF ServerFrame, IInv, TypeOK
<1>2. /\ to.serial[e] = IF After(fates[e], e).live THEN After(fates[e], e).serial ELSE 0
      /\ e \in to.deletes <=> fates[e] = "reuse"
  BY DEF NewFrame
<1>3. fates[e] \in Fates
  OBVIOUS
<1>4. CASE fates[e] = "stay"
  BY <1>1, <1>2, <1>4 DEF After
<1>5. CASE fates[e] = "free"
  BY <1>1, <1>2, <1>5 DEF After
<1>6. CASE fates[e] \in {"alloc", "reuse"}
  <2>1. After(fates[e], e) = [serial |-> edicts[e].serial + 1, live |-> TRUE]
    BY <1>6 DEF After
  <2> QED BY <1>1, <1>2, <2>1
<1> QED BY <1>3, <1>4, <1>5, <1>6 DEF Fates

\* A frame that is made is told from all those before it.
LEMMA HistoryServerFrame ==
  ASSUME IInv, NEW fates \in [Edicts -> Fates], NEW seen \in SUBSET Edicts,
         NEW vals \in [seen -> PropValues], ServerFrame(fates, vals),
         NEW to, to = NewFrame(fates, vals), NEW H, History(H),
         NEW G, G = [t \in 1 .. tick + 1 |-> IF t = tick + 1 THEN to ELSE H[t]]
  PROVE  History(G)'
<1>1. /\ tick' = tick + 1 /\ tick \in Nat /\ to.tick = tick + 1 /\ IsFrame(to)
      /\ frames' = AddClientFrame(to)
  <2>1. tick' = tick + 1 /\ to.tick = tick + 1 /\ IsFrame(to) /\ frames' = AddClientFrame(to)
    BY FrameSends
  <2>2. tick \in Nat
    BY TickTypes
  <2> QED BY <2>1, <2>2
<1>2. /\ \A t \in 1 .. tick : G[t] = H[t] /\ t \in 1 .. tick'
      /\ G[tick + 1] = to /\ tick + 1 \in 1 .. tick'
      /\ \A t \in 1 .. tick' : t \in 1 .. tick \/ t = tick + 1
      /\ G = [t \in 1 .. tick' |-> G[t]]
  BY <1>1
<1>0. ASSUME NEW e \in Edicts, NEW k \in Nat, k <= edicts[e].serial
      PROVE  /\ k <= edicts'[e].serial
             /\ k # 0 /\ k = edicts'[e].serial /\ edicts'[e].live =>
                  edicts'[e] = edicts[e] /\ to.serial[e] = k
             /\ k # 0 /\ k = to.serial[e] => edicts[e].live /\ edicts[e].serial = k
             /\ e \in to.deletes => to.serial[e] # k
  BY <1>0, SerialStep
<1>3. MadeFrames(G)'
  <2>1. \A t \in 1 .. tick' : IsFrame(G[t]) /\ G[t].tick = t
    BY <1>1, <1>2 DEF History, MadeFrames
  <2>2. \A t \in DOMAIN frames' : t \in 1 .. tick' /\ frames'[t] = G[t]
    <3>1. \A t \in DOMAIN frames' :
            /\ t \in DOMAIN frames \cup {tick + 1}
            /\ frames'[t] = IF t = tick + 1 THEN to ELSE frames[t]
      BY <1>1, FrameAdded
    <3> QED BY <1>1, <1>2, <3>1, ZenonT(30) DEF History, MadeFrames
  <2>3. \A t \in 1 .. tick' : \A e \in DOMAIN G[t].pack : G[t].serial[e] # 0
    <3>1. \A e \in DOMAIN to.pack : to.serial[e] # 0
      BY DEF ServerFrame, NewFrame
    <3> QED BY <1>2, <3>1 DEF History, MadeFrames
  <2> QED BY <1>2, <2>1, <2>2, <2>3 DEF MadeFrames
<1>4. SerialHistory(G)'
  <2> SUFFICES ASSUME NEW e \in Edicts, NEW t \in 1 .. tick'
               PROVE  /\ G[t].serial[e] <= edicts'[e].serial
                      /\ \A u \in 1 .. tick' :
                           t < u =>
                             /\ G[t].serial[e] # 0 /\ G[t].serial[e] = edicts'[e].serial
                                  /\ edicts'[e].live => G[u].serial[e] = G[t].serial[e]
                             /\ e \in G[u].deletes => G[t].serial[e] # G[u].serial[e]
                             /\ \A v \in 1 .. tick' :
                                  u < v /\ G[t].serial[e] # 0 /\ G[v].serial[e] = G[t].serial[e]
                                    => G[u].serial[e] = G[t].serial[e]
    BY DEF SerialHistory
  <2>1. CASE t = tick + 1
    <3>1. 0 <= edicts[e].serial
      BY HistoryTypes
    <3>2. to.serial[e] <= edicts'[e].serial
      BY <3>1, SerialStep
    <3> QED BY <1>1, <1>2, <2>1, <3>2
  <2>2. CASE t \in 1 .. tick
    <3>0. PICK k : k = H[t].serial[e]
      OBVIOUS
    <3>1. /\ k \in Nat /\ k <= edicts[e].serial /\ G[t].serial[e] = k /\ t \in Int
          /\ \A u \in 1 .. tick :
               t < u =>
                 /\ k # 0 /\ k = edicts[e].serial /\ edicts[e].live => H[u].serial[e] = k
                 /\ e \in H[u].deletes => k # H[u].serial[e]
                 /\ \A v \in 1 .. tick :
                      u < v /\ k # 0 /\ H[v].serial[e] = k => H[u].serial[e] = k
      <4>1. k \in Nat /\ t \in Int /\ G[t].serial[e] = k
        BY <1>2, <2>2, <3>0, HistoryTypes
      <4>2. SerialHistory(H)
        BY DEF History
      <4> QED BY <2>2, <3>0, <4>1, <4>2 DEF SerialHistory
    <3>2. /\ k <= edicts'[e].serial 
          /\ k # 0 /\ k = edicts'[e].serial /\ edicts'[e].live =>
              edicts'[e] = edicts[e] /\ to.serial[e] = k
          /\ k # 0 /\ k = to.serial[e] => edicts[e].live /\ edicts[e].serial = k
          /\ e \in to.deletes => to.serial[e] # k
      <4>1. k \in Nat /\ k <= edicts[e].serial
        BY <3>1
      <4> QED BY <4>1, <1>0
    <3>3. ASSUME NEW u \in 1 .. tick, t < u
          PROVE  /\ k # 0 /\ k = edicts'[e].serial /\ edicts'[e].live => G[u].serial[e] = k
                 /\ e \in G[u].deletes => k # G[u].serial[e]
                 /\ \A v \in 1 .. tick' :
                      u < v /\ k # 0 /\ G[v].serial[e] = k => G[u].serial[e] = k
      BY <1>2, <3>1, <3>2, <3>3, ZenonT(30)
    <3>4. ASSUME NEW u \in 1 .. tick', u = tick + 1
          PROVE  /\ k # 0 /\ k = edicts'[e].serial /\ edicts'[e].live => G[u].serial[e] = k
                 /\ e \in G[u].deletes => k # G[u].serial[e]
                 /\ \A v \in 1 .. tick' : ~(u < v)
      BY <1>1, <1>2, <3>2, <3>4
    <3> QED BY <1>2, <3>1, <3>2, <3>3, <3>4
  <2> QED BY <1>2, <2>1, <2>2
<1>5. ChangeHistory(G)'
  <2>1. /\ \A e \in DOMAIN to.pack :
             /\ to.pack[e] = PackEntity(e, After(fates[e], e).serial, vals[e])
             /\ to.pack[e].serial = to.serial[e]
             /\ e \in DOMAIN lastPacked' /\ lastPacked'[e] = to.pack[e]
        /\ \A e \in DOMAIN lastPacked' : e \notin DOMAIN to.pack =>
             e \in DOMAIN lastPacked /\ lastPacked'[e] = lastPacked[e]
    <3>1. \A e \in DOMAIN vals : to.serial[e] # 0
      BY DEF ServerFrame
    <3>2. lastPacked' = [e \in DOMAIN lastPacked \cup DOMAIN to.pack |->
                           IF e \in DOMAIN to.pack THEN to.pack[e] ELSE lastPacked[e]]
      BY DEF ServerFrame
    <3>3. ASSUME NEW e \in DOMAIN to.pack
          PROVE  /\ to.pack[e] = PackEntity(e, After(fates[e], e).serial, vals[e])
                 /\ to.pack[e].serial = to.serial[e]
      BY <3>1 DEF NewFrame, PackEntity
    <3> QED BY <3>2, <3>3
  <2>2. ASSUME NEW t \in 1 .. tick', NEW e \in DOMAIN G[t].pack \cap DOMAIN lastPacked',
               lastPacked'[e].serial = G[t].serial[e],
               NEW p \in Props, lastPacked'[e].chg[p] <= t
        PROVE  lastPacked'[e].val[p] = G[t].pack[e].val[p]
    <3>1. CASE t = tick + 1
      BY <1>2, <2>1, <3>1
    <3>2. CASE t \in 1 .. tick /\ e \notin DOMAIN to.pack
      <4>1. G[t] = H[t] /\ e \in DOMAIN lastPacked /\ lastPacked'[e] = lastPacked[e]
        BY <1>2, <2>1, <3>2
      <4> QED BY <2>2, <3>2, <4>1 DEF History, ChangeHistory
    <3>3. CASE t \in 1 .. tick /\ e \in DOMAIN to.pack
      <4>1. lastPacked'[e] = PackEntity(e, After(fates[e], e).serial, vals[e])
        BY <2>1, <3>3
      <4>2. ~(tick + 1 <= t)
        BY <1>1, <3>3
      <4>3. /\ e \in DOMAIN lastPacked
            /\ lastPacked[e].serial = lastPacked'[e].serial
            /\ lastPacked[e].val[p] = lastPacked'[e].val[p]
            /\ lastPacked[e].chg[p] = lastPacked'[e].chg[p]
        BY <2>2, <4>1, <4>2 DEF PackEntity
      <4>4. G[t] = H[t]
        BY <1>2, <3>3
      <4> QED BY <2>2, <3>3, <4>3, <4>4 DEF History, ChangeHistory
    <3> QED BY <1>2, <3>1, <3>2, <3>3
  <2>3. ASSUME NEW t \in 1 .. tick', NEW u \in 1 .. tick', t < u
        PROVE  ChangesMarked(G[t], G[u])
    <3>1. t \in 1 .. tick /\ G[t] = H[t] /\ H[t].tick = t
      BY <1>1, <1>2, <2>3 DEF History, MadeFrames
    <3>2. CASE u \in 1 .. tick
      BY <1>2, <2>3, <3>1, <3>2 DEF History, ChangeHistory
    <3>3. CASE u = tick + 1
      <4>1. G[u] = to /\ G[t].tick = t
        BY <1>2, <3>1, <3>3
      <4>2. ASSUME NEW e \in DOMAIN G[t].pack \cap DOMAIN to.pack,
                   G[t].serial[e] = to.serial[e],
                   NEW p \in Props, to.pack[e].chg[p] <= t
            PROVE  to.pack[e].val[p] = G[t].pack[e].val[p]
        <5>1. /\ e \in DOMAIN lastPacked' /\ lastPacked'[e] = to.pack[e]
              /\ lastPacked'[e].serial = G[t].serial[e] /\ lastPacked'[e].chg[p] <= t
              /\ e \in DOMAIN G[t].pack
          BY <2>1, <4>2
        <5>2. lastPacked'[e].val[p] = G[t].pack[e].val[p]
          BY ONLY Zenon, <2>2, <5>1, t \in 1 .. tick', p \in Props
        <5> QED BY <5>1, <5>2
      <4>3. ChangesMarked(G[t], to)
        BY ONLY <4>1, <4>2 DEF ChangesMarked
      <4> QED BY <4>1, <4>3
    <3> QED BY <1>2, <3>2, <3>3
  <2> QED BY <2>2, <2>3 DEF ChangeHistory
<1> QED BY <1>3, <1>4, <1>5 DEF History

-----------------------------------------------------------------------------
(* 6. Baselines.                                                           *)

\* An update tells the difference of two frames that were made, or a whole one.
IsUpdate(H, m) ==
  /\ m.tick \in DOMAIN H /\ m.baseline \in 0 .. 1
  /\ m.delta \in BOOLEAN /\ m.update \in BOOLEAN
  /\ m.shown = Shown(H[m.tick])
  /\ m.delta =>
       /\ m.from \in DOMAIN H /\ m.from < m.tick
       /\ m.deletions = Deletions(H[m.from], H[m.tick])
  /\ ~m.delta =>
       /\ m.entries = WriteEntities(NoFrame, H[m.tick], Nothing)
       /\ m.deletions = {} /\ m.update /\ m.baseline = 0

Written(H) == \A i \in 1 .. Len(toClient) : IsUpdate(H, toClient[i])

\* A delta a client that waits for no full update will read is written against
\* the baseline the client has under its number.
Encoded(H) ==
  clDeltaTick # -1 =>
    \A i \in 1 .. Len(toClient) : toClient[i].delta =>
      toClient[i].entries = WriteEntities(H[toClient[i].from], H[toClient[i].tick],
                                          clBaselines[toClient[i].baseline])

BaselineTypes ==
  /\ clBaselines = [b \in 0 .. 1 |-> clBaselines[b]]
  /\ \A b \in 0 .. 1 : PerEdict(clBaselines[b], PropValues)
  /\ \E S : baselineAcks \in Seq(S)

\* BaselinesAgree, and the empty baseline of a full update on its way.
AllDeltas == \A i \in 1 .. Len(toClient) : toClient[i].delta

SameBaseline ==
  /\ clDeltaTick # -1 /\ AllDeltas => clBaselines[baselineUsed] = baseline
  /\ ~AllDeltas => baselineUsed = 0 /\ baseline = Nothing

\* An update on its way that replaces the baseline: the server has given it up,
\* waits for it or for a newer one, and noted what it writes; the server will use
\* no other baseline until it is read.
Source(H, m) == IF m.delta THEN H[m.from] ELSE NoFrame

Flagged(H) ==
  \A i \in 1 .. Len(toClient) : toClient[i].update =>
    /\ baselineTick = -1 \/ baselineTick >= toClient[i].tick
    /\ baselineTick = toClient[i].tick =>
         baselinesSent = EnterPVS(Source(H, toClient[i]), H[baselineTick])
    /\ toClient[i].delta /\ forceWait <= 0 /\ deltaTick # -1
         => toClient[i].baseline = baselineUsed
    /\ \A j \in 1 .. Len(toClient) : i < j /\ toClient[j].delta
         => toClient[j].baseline = toClient[i].baseline

\* The baseline the server will use when it is told of the update it waits for:
\* the one the client has then made of its other one.
NextBaseline(H) ==
  [e \in DOMAIN baseline \cup baselinesSent |->
     IF e \in baselinesSent THEN H[baselineTick].pack[e].val ELSE baseline[e]]

Acknowledged(H) ==
  \A a \in 1 .. Len(baselineAcks) : LET ack == baselineAcks[a] IN
    /\ ack.tick \in 1 .. tick
    /\ \A i \in 1 .. Len(toClient) : ack.tick < toClient[i].tick
    /\ (ack.tick = baselineTick /\ ack.nr = baselineUsed /\ clDeltaTick # -1 /\ AllDeltas)
         => clBaselines[1 - baselineUsed] = NextBaseline(H)

View(H) == 
  /\ History(H) /\ Written(H) /\ Encoded(H)
  /\ BaselineTypes /\ SameBaseline /\ Flagged(H) /\ Acknowledged(H)

\* What is said of an update stays so when more frames are made.
LEMMA UpdateStays ==
  ASSUME NEW H, NEW G, DOMAIN H \subseteq DOMAIN G, \A t \in DOMAIN H : G[t] = H[t],
         NEW m, IsUpdate(H, m)
  PROVE  IsUpdate(G, m)
BY DEF IsUpdate

\* The types of what View relates.
LEMMA ViewTypes ==
  ASSUME IInv, NEW H, View(H)
  PROVE  /\ tick \in Nat /\ DOMAIN H = 1 .. tick
         /\ baselineTick \in Int /\ baselineTick >= -1 /\ baselineUsed \in 0 .. 1
         /\ forceWait \in Int /\ deltaTick \in Int
         /\ \A t \in 1 .. tick : IsFrame(H[t]) /\ H[t].tick = t /\ t \in Int /\ t >= 1
         /\ \A i \in 1 .. Len(toClient) : toClient[i].tick \in 1 .. tick
         /\ \A t \in DOMAIN frames : t \in 1 .. tick /\ frames[t] = H[t]
         /\ PerEdict(baseline, PropValues)
<1>1. tick \in Nat /\ baselineTick \in Int /\ forceWait \in Int /\ deltaTick \in Int
  BY TickTypes
<1>2. baselineTick >= -1 /\ baselineUsed \in 0 .. 1 /\ PerEdict(baseline, PropValues)
  BY SnapshotsAssumption DEF IInv, TypeOK, Ticks
<1>3. MadeFrames(H) /\ Written(H)
  BY DEF View, History
<1>4. DOMAIN H = 1 .. tick
  BY <1>3 DEF MadeFrames
<1>5. \A t \in 1 .. tick : IsFrame(H[t]) /\ H[t].tick = t /\ t \in Int /\ t >= 1
  BY <1>3 DEF MadeFrames
<1>6. \A i \in 1 .. Len(toClient) : toClient[i].tick \in 1 .. tick
  BY <1>3, <1>4 DEF Written, IsUpdate
<1>7. \A t \in DOMAIN frames : t \in 1 .. tick /\ frames[t] = H[t]
  BY <1>3 DEF MadeFrames
<1> QED BY <1>1, <1>2, <1>4, <1>5, <1>6, <1>7

\* No update was sent.
LEMMA InitView ==
  ASSUME Init, NEW H, H = [t \in 1 .. 0 |-> NoFrame]
  PROVE  View(H)
<1>1. History(H)
  BY InitHistory
<1>2. 1 .. Len(toClient) = {} /\ 1 .. Len(baselineAcks) = {} /\ clDeltaTick = -1
  BY DEF Init
<1>3. Written(H) /\ Encoded(H) /\ Flagged(H) /\ Acknowledged(H) /\ SameBaseline
  BY <1>2 DEF Written, Encoded, Flagged, Acknowledged, SameBaseline, AllDeltas
<1>4. BaselineTypes
  BY DEF Init, BaselineTypes, PerEdict, Nothing
<1> QED BY <1>1, <1>3, <1>4 DEF View

\* An update that is not sent, or of which nothing is said.
LEMMA ViewServerFrame ==
  ASSUME IInv, Awaiting, NEW fates \in [Edicts -> Fates], NEW seen \in SUBSET Edicts,
         NEW vals \in [seen -> PropValues], ServerFrame(fates, vals),
         NEW to, to = NewFrame(fates, vals), NEW H, View(H),
         NEW G, G = [t \in 1 .. tick + 1 |-> IF t = tick + 1 THEN to ELSE H[t]]
  PROVE  View(G)'
<1>1. History(G)'
  BY HistoryServerFrame, ZenonT(30) DEF View
<1>2. /\ tick' = tick + 1 /\ to.tick = tick + 1 /\ IsFrame(to)
      /\ UNCHANGED <<deltaTick, disconnected, toServer, baselineAcks, clDeltaTick,
                     clFrames, clBaselines, clEnts, clActive, clError, fullRead,
                     requests, shown>>
      /\ \/ SendNothing
         \/ forceWait <= 0 /\ SendFull(to)
         \/ /\ forceWait <= 0 /\ deltaTick # -1
            /\ deltaTick \in DOMAIN frames
            /\ SendDelta(frames[deltaTick], to)
  BY FrameSends
<1>3. /\ tick \in Nat /\ DOMAIN H = 1 .. tick
      /\ baselineTick \in Int /\ baselineTick >= -1 /\ baselineUsed \in 0 .. 1
      /\ forceWait \in Int /\ baselineTick <= tick
      /\ \A t \in 1 .. tick : H[t].tick = t
      /\ \A i \in 1 .. Len(toClient) : toClient[i].tick \in 1 .. tick
      /\ \A t \in DOMAIN frames : t \in 1 .. tick /\ frames[t] = H[t]
  BY ViewTypes DEF IInv, TicksInOrder
<1>4. /\ DOMAIN G = 1 .. tick + 1 /\ G[tick + 1] = to /\ tick + 1 \in DOMAIN G
      /\ \A t \in DOMAIN H : t \in DOMAIN G /\ G[t] = H[t] /\ t # tick + 1
  BY <1>3
<1>5. BaselineTypes'
  BY <1>2 DEF View, BaselineTypes
\* what is said of the updates that were sent before
<1>6. ASSUME NEW i \in 1 .. Len(toClient)
      PROVE  /\ IsUpdate(G, toClient[i])
             /\ clDeltaTick # -1 /\ toClient[i].delta =>
                  toClient[i].entries = WriteEntities(G[toClient[i].from], G[toClient[i].tick],
                                          clBaselines[toClient[i].baseline])
             /\ Source(G, toClient[i]) = Source(H, toClient[i])
             /\ toClient[i].tick \in 1 .. tick
  <2>1. IsUpdate(H, toClient[i])
    BY DEF View, Written
  <2>2. IsUpdate(G, toClient[i])
    BY <1>4, <2>1, UpdateStays, ZenonT(30)
  <2>3. /\ toClient[i].tick \in DOMAIN H
        /\ toClient[i].delta => toClient[i].from \in DOMAIN H
    BY <2>1 DEF IsUpdate
  <2>4. /\ G[toClient[i].tick] = H[toClient[i].tick]
        /\ toClient[i].delta => G[toClient[i].from] = H[toClient[i].from]
    BY <1>4, <2>3
  <2> QED BY <1>3, <2>2, <2>3, <2>4 DEF View, Encoded, Source
<1>7. ASSUME NEW a \in 1 .. Len(baselineAcks)
      PROVE  baselineAcks[a].tick \in 1 .. tick /\ baselineAcks[a].tick # -1
  BY <1>3 DEF View, Acknowledged
<1>8. CASE SendNothing
  <2>1. UNCHANGED <<forceWait, baselineTick, baselineUsed, baselinesSent, baseline,
                    toClient>>
    BY <1>8 DEF SendNothing
  <2>2. Written(G)' /\ Encoded(G)'
    BY <1>2, <1>6, <2>1 DEF Written, Encoded
  <2>3. SameBaseline'
    BY <1>2, <2>1 DEF View, SameBaseline, AllDeltas
  <2>4. Flagged(G)'
    <3> SUFFICES ASSUME NEW i \in 1 .. Len(toClient), toClient[i].update
                 PROVE /\ baselineTick = -1 \/ baselineTick >= toClient[i].tick
                       /\ baselineTick = toClient[i].tick =>
                            baselinesSent = EnterPVS(Source(G, toClient[i]), G[baselineTick])
                       /\ toClient[i].delta /\ forceWait <= 0 /\ deltaTick # -1
                            => toClient[i].baseline = baselineUsed
                       /\ \A j \in 1 .. Len(toClient) : i < j /\ toClient[j].delta
                            => toClient[j].baseline = toClient[i].baseline
      BY <1>2, <2>1 DEF Flagged
    <3> QED BY <1>3, <1>4, <1>6 DEF View, Flagged
  <2>5. Acknowledged(G)'
    <3>1. baselineTick \in DOMAIN H => NextBaseline(G)' = NextBaseline(H)
      BY <1>4, <2>1 DEF NextBaseline
    <3>2. AllDeltas' = AllDeltas
      BY <2>1 DEF AllDeltas
    <3> SUFFICES ASSUME NEW a \in 1 .. Len(baselineAcks)
                 PROVE  /\ baselineAcks[a].tick \in 1 .. tick'
                        /\ \A i \in 1 .. Len(toClient) : baselineAcks[a].tick < toClient[i].tick
                        /\ baselineAcks[a].tick = baselineTick
                             /\ baselineAcks[a].nr = baselineUsed /\ clDeltaTick # -1 /\ AllDeltas
                             => clBaselines[1 - baselineUsed] = NextBaseline(G)'
      BY <1>2, <2>1, <3>2 DEF Acknowledged
    <3>3. /\ \A i \in 1 .. Len(toClient) : baselineAcks[a].tick < toClient[i].tick
          /\ baselineAcks[a].tick = baselineTick
               /\ baselineAcks[a].nr = baselineUsed /\ clDeltaTick # -1 /\ AllDeltas
               => clBaselines[1 - baselineUsed] = NextBaseline(H)
      BY DEF View, Acknowledged
    <3>4. baselineAcks[a].tick \in 1 .. tick'
      BY <1>2, <1>3, <1>7
    <3>5. baselineAcks[a].tick = baselineTick => baselineTick \in DOMAIN H
      BY <1>3, <1>7
    <3> QED BY <3>1, <3>3, <3>4, <3>5
  <2> QED BY <1>1, <1>5, <2>2, <2>3, <2>4, <2>5 DEF View
<1>9. CASE forceWait <= 0 /\ SendFull(to)
  <2>1. PICK m : m = Update(NoFrame, to, Nothing, 0, TRUE)
    OBVIOUS
  <2>2. /\ baseline' = Nothing /\ baselineUsed' = 0
        /\ baselineTick' = tick + 1 /\ baselinesSent' = DOMAIN to.pack
        /\ forceWait' = tick + 1
        /\ toClient' = Append(toClient, m)
    BY <1>2, <1>9, <2>1 DEF SendFull
  <2>3. /\ m.tick = tick + 1 /\ m.delta = FALSE /\ m.update = TRUE /\ m.baseline = 0
        /\ m.deletions = {} /\ m.shown = Shown(to)
        /\ m.entries = WriteEntities(NoFrame, to, Nothing)
    BY <1>2, <2>1 DEF Update
  <2>4. /\ Len(toClient') \in 1 .. Len(toClient') /\ toClient'[Len(toClient')] = m
        /\ \A i \in 1 .. Len(toClient') :
              \/ i \in 1 .. Len(toClient) /\ i # Len(toClient') /\ toClient'[i] = toClient[i]
              \/ i = Len(toClient') /\ toClient'[i] = m
    BY <2>2, SentIndex
  <2>5. IsUpdate(G, m)
    <3>1. G[m.tick] = to /\ m.tick \in DOMAIN G
      BY <1>4, <2>3
    <3>2. m.entries = WriteEntities(NoFrame, G[m.tick], Nothing)
      BY <2>3, <3>1
    <3>3. m.shown = Shown(G[m.tick])
      BY <2>3, <3>1
    <3>4. m.delta = FALSE /\ m.update = TRUE /\ m.baseline \in 0 .. 1 /\ m.baseline = 0
      BY <2>3
    <3>5. m.deletions = {}
      BY <2>3
    <3> QED BY ONLY <3>1, <3>2, <3>3, <3>4, <3>5, Zenon DEF IsUpdate
  <2>6. Written(G)'
    BY <1>6, <2>4, <2>5 DEF Written
  <2>7. Encoded(G)'
    <3> SUFFICES ASSUME clDeltaTick # -1, NEW i \in 1 .. Len(toClient'), toClient'[i].delta
                 PROVE  toClient'[i].entries =
                          WriteEntities(G[toClient'[i].from], G[toClient'[i].tick],
                                        clBaselines[toClient'[i].baseline])
      BY <1>2 DEF Encoded
    <3>1. i \in 1 .. Len(toClient) /\ toClient'[i] = toClient[i]
      BY <2>3, <2>4
    <3> QED BY <1>6, <3>1
  <2>8. ~AllDeltas'
    BY <2>3, <2>4 DEF AllDeltas
  <2>9. SameBaseline'
    BY <2>2, <2>8 DEF SameBaseline
  <2>10. Flagged(G)'
    <3> SUFFICES ASSUME NEW i \in 1 .. Len(toClient'), toClient'[i].update
                 PROVE  /\ baselineTick' >= toClient'[i].tick
                        /\ baselineTick' = toClient'[i].tick =>
                             baselinesSent' = EnterPVS(Source(G, toClient'[i]), G[baselineTick'])
                        /\ \A j \in 1 .. Len(toClient') : i < j /\ toClient'[j].delta
                             => toClient'[j].baseline = toClient'[i].baseline
      BY <1>3, <2>2 DEF Flagged
    <3>1. CASE i \in 1 .. Len(toClient) /\ toClient'[i] = toClient[i]
      <4>1. toClient[i].tick \in 1 .. tick
        BY <1>6, <3>1
      <4>2. \A j \in 1 .. Len(toClient') : i < j /\ toClient'[j].delta
              => toClient'[j].baseline = toClient'[i].baseline
        BY <2>3, <2>4, <3>1 DEF View, Flagged
      <4> QED BY <1>3, <2>2, <3>1, <4>1, <4>2
    <3>2. CASE i = Len(toClient') /\ toClient'[i] = m
      <4>1. \A j \in 1 .. Len(toClient') : ~(i < j)
        BY <3>2
      <4>2. EnterPVS(Source(G, m), to) = DOMAIN to.pack
        BY <2>3 DEF Source, EnterPVS, NoFrame, Nothing
      <4> QED BY <1>3, <1>4, <2>2, <2>3, <3>2, <4>1, <4>2
    <3> QED BY <2>4, <3>1, <3>2
  <2>11. Acknowledged(G)'
    <3> SUFFICES ASSUME NEW a \in 1 .. Len(baselineAcks)
                 PROVE  /\ baselineAcks[a].tick \in 1 .. tick'
                        /\ \A i \in 1 .. Len(toClient') : baselineAcks[a].tick < toClient'[i].tick
                        /\ ~AllDeltas'
      BY <1>2 DEF Acknowledged
    <3>1. \A i \in 1 .. Len(toClient) : baselineAcks[a].tick < toClient[i].tick
      BY DEF View, Acknowledged
    <3>2. baselineAcks[a].tick \in 1 .. tick' /\ baselineAcks[a].tick < tick + 1
      BY <1>2, <1>3, <1>7
    <3>3. ASSUME NEW i \in 1 .. Len(toClient') PROVE baselineAcks[a].tick < toClient'[i].tick
      BY <2>3, <2>4, <3>1, <3>2
    <3> QED BY <2>8, <3>2, <3>3
  <2> QED BY <1>1, <1>5, <2>6, <2>7, <2>9, <2>10, <2>11 DEF View
<1>10. CASE /\ forceWait <= 0 /\ deltaTick # -1 /\ deltaTick \in DOMAIN frames
            /\ SendDelta(frames[deltaTick], to)
  <2>1. PICK m : m = Update(H[deltaTick], to, baseline, baselineUsed, baselineTick = -1)
    OBVIOUS
  <2>2. /\ UNCHANGED <<forceWait, baselineUsed, baseline>>
        /\ baselinesSent' = IF baselineTick = -1 THEN EnterPVS(H[deltaTick], to)
                            ELSE baselinesSent
        /\ baselineTick' = IF m.update THEN tick + 1 ELSE baselineTick
        /\ \/ toClient' = toClient
           \/ toClient' = Append(toClient, m)
    BY <1>2, <1>3, <1>10, <2>1 DEF SendDelta
  <2>3. deltaTick \in 1 .. tick /\ deltaTick # tick + 1 /\ H[deltaTick] # NoFrame
    BY <1>3, <1>10 DEF NoFrame
  <2>4. /\ m.tick = tick + 1 /\ m.delta = TRUE /\ m.update \in BOOLEAN
        /\ m.update => baselineTick = -1
        /\ m.baseline = baselineUsed /\ m.from = deltaTick
        /\ m.deletions = Deletions(H[deltaTick], to) /\ m.shown = Shown(to)
        /\ m.entries = WriteEntities(H[deltaTick], to, baseline)
    BY <1>2, <1>3, <2>1, <2>3 DEF Update
  <2>5. AllDeltas
    <3>1. forceWait <= 0 /\ forceWait \in Int
      BY <1>3, <1>10
    <3>2. ASSUME NEW i \in 1 .. Len(toClient), ~toClient[i].delta PROVE FALSE
      <4>1. forceWait = toClient[i].tick
        BY <3>2 DEF Awaiting
      <4>2. toClient[i].tick \in 1 .. tick
        BY <1>6
      <4> QED BY <3>1, <4>1, <4>2
    <3> QED BY <1>6, <3>2 DEF AllDeltas
  <2>6. clDeltaTick # -1 => clBaselines[baselineUsed] = baseline
    BY <2>5 DEF View, SameBaseline
  <2>7. \A i \in 1 .. Len(toClient') :
              \/ i \in 1 .. Len(toClient) /\ toClient'[i] = toClient[i]
              \/ i = Len(toClient') /\ toClient'[i] = m /\ i \notin 1 .. Len(toClient)
    BY <2>2, SentIndex
  <2>8. AllDeltas'
    BY <2>4, <2>5, <2>7 DEF AllDeltas
  <2>9. IsUpdate(G, m)
    <3>1. G[m.tick] = to /\ m.tick \in DOMAIN G
      BY <1>4, <2>4
    <3>2. /\ m.from \in DOMAIN G /\ G[m.from] = H[deltaTick] /\ m.from < m.tick
      BY <1>3, <1>4, <2>3, <2>4
    <3>3. m.baseline \in 0 .. 1
      BY <1>3, <2>4
    <3> QED BY ONLY <2>4, <3>1, <3>2, <3>3 DEF IsUpdate
  <2>10. Written(G)'
    BY <1>6, <2>7, <2>9 DEF Written
  <2>11. Encoded(G)'
    <3>1. clDeltaTick # -1 =>
            m.entries = WriteEntities(G[m.from], G[m.tick], clBaselines[m.baseline])
      BY <1>3, <1>4, <2>3, <2>4, <2>6
    <3> QED BY <1>2, <1>6, <2>7, <3>1 DEF Encoded
  <2>12. SameBaseline'
    BY <1>2, <2>2, <2>6, <2>8 DEF SameBaseline
  <2>13. ASSUME NEW i \in 1 .. Len(toClient), toClient[i].update
         PROVE  /\ baselineTick = -1 \/ baselineTick >= toClient[i].tick
                /\ baselineTick = toClient[i].tick =>
                     baselinesSent = EnterPVS(Source(H, toClient[i]), H[baselineTick])
                /\ toClient[i].baseline = baselineUsed
                /\ \A j \in 1 .. Len(toClient) : i < j /\ toClient[j].delta
                     => toClient[j].baseline = toClient[i].baseline
    <3>1. toClient[i].delta
      BY <2>5 DEF AllDeltas
    <3>2. Flagged(H)
      BY DEF View
    <3> QED BY <1>10, <2>13, <3>1, <3>2 DEF Flagged
  <2>14. Flagged(G)'
    <3> SUFFICES ASSUME NEW i \in 1 .. Len(toClient'), toClient'[i].update
                 PROVE  /\ baselineTick' = -1 \/ baselineTick' >= toClient'[i].tick
                        /\ baselineTick' = toClient'[i].tick =>
                             baselinesSent' = EnterPVS(Source(G, toClient'[i]), G[baselineTick'])
                        /\ toClient'[i].baseline = baselineUsed'
                        /\ \A j \in 1 .. Len(toClient') : i < j /\ toClient'[j].delta
                             => toClient'[j].baseline = toClient'[i].baseline
      BY DEF Flagged
    <3>1. CASE i \in 1 .. Len(toClient) /\ toClient'[i] = toClient[i]
      <4>1. toClient[i].tick \in 1 .. tick /\ Source(G, toClient[i]) = Source(H, toClient[i])
        BY <1>6, <3>1
      <4>2. /\ baselineTick = -1 \/ baselineTick >= toClient[i].tick
            /\ baselineTick = toClient[i].tick =>
                     baselinesSent = EnterPVS(Source(H, toClient[i]), H[baselineTick])
            /\ toClient[i].baseline = baselineUsed
        BY <2>13, <3>1
      <4>3. \A j \in 1 .. Len(toClient') : i < j /\ toClient'[j].delta
              => toClient'[j].baseline = toClient'[i].baseline
        BY <2>4, <2>7, <2>13, <3>1
      <4>4. baselineTick' = -1 \/ baselineTick' >= toClient'[i].tick
        BY <1>3, <2>2, <3>1, <4>1, <4>2
      <4>5. baselineTick' = toClient'[i].tick =>
              baselinesSent' = EnterPVS(Source(G, toClient'[i]), G[baselineTick'])
        <5> SUFFICES ASSUME baselineTick' = toClient[i].tick
                     PROVE  baselinesSent' = EnterPVS(Source(G, toClient[i]), G[baselineTick'])
          BY <3>1
        <5>1. baselineTick' = baselineTick /\ baselineTick \in 1 .. tick /\ baselineTick # -1
          BY <1>3, <2>2, <4>1
        <5> QED BY <1>3, <1>4, <2>2, <4>1, <4>2, <5>1
      <4> QED BY <2>2, <3>1, <4>2, <4>3, <4>4, <4>5
    <3>2. CASE i = Len(toClient') /\ toClient'[i] = m
      <4>1. \A j \in 1 .. Len(toClient') : ~(i < j)
        BY <3>2
      <4>2. Source(G, m) = H[deltaTick]
        BY <1>3, <1>4, <2>3, <2>4 DEF Source
      <4>3. m.update /\ baselineTick' = tick + 1 /\ baselinesSent' = EnterPVS(H[deltaTick], to)
        BY <2>2, <2>4, <3>2
      <4> QED BY <1>3, <1>4, <2>2, <2>4, <3>2, <4>1, <4>2, <4>3
    <3> QED BY <2>7, <3>1, <3>2
  <2>15. Acknowledged(G)'
    <3> SUFFICES ASSUME NEW a \in 1 .. Len(baselineAcks)
                 PROVE  /\ baselineAcks[a].tick \in 1 .. tick'
                        /\ \A i \in 1 .. Len(toClient') : baselineAcks[a].tick < toClient'[i].tick
                        /\ baselineAcks[a].tick = baselineTick'
                             /\ baselineAcks[a].nr = baselineUsed' /\ clDeltaTick # -1
                             => clBaselines[1 - baselineUsed'] = NextBaseline(G)'
      BY <1>2 DEF Acknowledged
    <3>1. /\ \A i \in 1 .. Len(toClient) : baselineAcks[a].tick < toClient[i].tick
          /\ baselineAcks[a].tick = baselineTick /\ baselineAcks[a].nr = baselineUsed
                /\ clDeltaTick # -1
                  => clBaselines[1 - baselineUsed] = NextBaseline(H)
      BY <2>5 DEF View, Acknowledged
    <3>2. baselineAcks[a].tick = baselineTick' =>
            /\ baselineTick' = baselineTick /\ baselineTick \in 1 .. tick
            /\ baselinesSent' = baselinesSent
      BY <1>3, <1>7, <2>2
    <3>3. baselineAcks[a].tick = baselineTick' => NextBaseline(G)' = NextBaseline(H)
      BY <1>3, <1>4, <2>2, <3>2 DEF NextBaseline
    <3>4. \A i \in 1 .. Len(toClient') : baselineAcks[a].tick < toClient'[i].tick
      BY SMTT(30), <1>3, <1>7, <2>4, <2>7, <3>1
    <3> QED BY <1>2, <1>3, <1>7, <2>2, <3>1, <3>2, <3>3, <3>4
  <2> QED BY <1>1, <1>5, <2>10, <2>11, <2>12, <2>14, <2>15 DEF View
<1> QED BY <1>2, <1>8, <1>9, <1>10

\* Nothing of the view depends on which datagrams the client has sent.
LEMMA ViewServerReadTick ==
  ASSUME IInv, Awaiting, Awaiting', NEW other \in BOOLEAN, ServerReadTick(other),
         NEW H, View(H)
  PROVE  View(H)'
<1>1. PICK msg : msg = toServer[1]
  OBVIOUS
<1>2. UNCHANGED <<tick, slots, edicts, lastPacked, toClient, baselineAcks,
                  clDeltaTick, clFrames, clBaselines, clEnts, clActive, clError,
                  fullRead, requests, shown>>
  BY TickIndex
<1>3. /\ frames' = (IF msg.tick # deltaTick /\ msg.tick > 0
                    THEN DeleteClientFrames(frames, msg.tick) ELSE frames)
      /\ \A i \in 1 .. Len(toClient) : msg.tick < toClient[i].tick
      /\ msg.tick \in Int
  BY <1>1, TickRead
<1>4. /\ tick \in Nat /\ DOMAIN H = 1 .. tick
      /\ baselineTick \in Int /\ forceWait \in Int /\ deltaTick \in Int
      /\ \A i \in 1 .. Len(toClient) : toClient[i].tick \in 1 .. tick
  BY ViewTypes
<1>5. History(H)'
  <2>1. \A t \in DOMAIN frames' : t \in DOMAIN frames /\ frames'[t] = frames[t]
    BY <1>3 DEF DeleteClientFrames, Restrict
  <2> QED BY <1>2, <2>1, HistoryKept DEF View
<1>6. Written(H)' /\ Encoded(H)' /\ BaselineTypes'
  BY <1>2 DEF View, Written, Encoded, BaselineTypes
<1>7. ASSUME NEW a \in 1 .. Len(baselineAcks)
      PROVE  /\ baselineAcks[a].tick \in 1 .. tick
             /\ \A i \in 1 .. Len(toClient) : baselineAcks[a].tick < toClient[i].tick
  BY DEF View, Acknowledged
<1>8. CASE /\ UNCHANGED <<baselineUsed, baselinesSent, baseline>>
           /\ baselineTick' = baselineTick \/ baselineTick' = -1
           /\ forceWait' <= 0 /\ deltaTick' # -1 =>
                (forceWait <= 0 /\ deltaTick # -1) \/ 1 .. Len(toClient) = {}
  <2>1. SameBaseline'
    BY <1>2, <1>8 DEF View, SameBaseline, AllDeltas
  <2>2. Flagged(H)'
    <3> SUFFICES ASSUME NEW i \in 1 .. Len(toClient), toClient[i].update
                 PROVE /\ baselineTick' = -1 \/ baselineTick' >= toClient[i].tick
                       /\ baselineTick' = toClient[i].tick =>
                            baselinesSent = EnterPVS(Source(H, toClient[i]), H[baselineTick'])
                       /\ toClient[i].delta /\ forceWait' <= 0 /\ deltaTick' # -1
                            => toClient[i].baseline = baselineUsed
                       /\ \A j \in 1 .. Len(toClient) : i < j /\ toClient[j].delta
                            => toClient[j].baseline = toClient[i].baseline
      BY <1>2, <1>8 DEF Flagged
    <3>1. toClient[i].tick \in 1 .. tick
      BY <1>4
    <3>2. Flagged(H)
      BY DEF View
    <3> QED BY <1>4, <1>8, <3>1, <3>2 DEF Flagged
  <2>3. Acknowledged(H)'
    <3> SUFFICES ASSUME NEW a \in 1 .. Len(baselineAcks),
                        baselineAcks[a].tick = baselineTick',
                        baselineAcks[a].nr = baselineUsed, clDeltaTick # -1, AllDeltas
                 PROVE  clBaselines[1 - baselineUsed] = NextBaseline(H)'
      BY <1>2, <1>7, <1>8 DEF Acknowledged, AllDeltas
    <3>1. baselineTick' = baselineTick
      BY <1>4, <1>7, <1>8
    <3>2. NextBaseline(H)' = NextBaseline(H)
      BY <1>8, <3>1 DEF NextBaseline
    <3> QED BY <3>1, <3>2 DEF View, Acknowledged
  <2> QED BY <1>5, <1>6, <2>1, <2>2, <2>3 DEF View
<1>9. CASE /\ OnRequestFullUpdate /\ deltaTick' = -1 /\ forceWait' <= 0
  <2>1. clDeltaTick = -1
    BY <1>2, <1>9 DEF Awaiting
  <2>2. AllDeltas'
    <3>1. \A i \in 1 .. Len(toClient) : ~toClient[i].delta => forceWait' = toClient[i].tick
      BY <1>2 DEF Awaiting
    <3> QED BY <1>2, <1>4, <1>9, <3>1 DEF AllDeltas
  <2>3. SameBaseline' /\ Acknowledged(H)'
    BY <1>2, <1>7, <2>1, <2>2 DEF SameBaseline, Acknowledged
  <2>4. Flagged(H)'
    <3> SUFFICES ASSUME NEW i \in 1 .. Len(toClient), toClient[i].update
                 PROVE /\ baselineTick' # toClient[i].tick
                       /\ \A j \in 1 .. Len(toClient) : i < j /\ toClient[j].delta
                            => toClient[j].baseline = toClient[i].baseline
      BY <1>2, <1>9 DEF Flagged, OnRequestFullUpdate
    <3>1. toClient[i].tick \in 1 .. tick /\ baselineTick' = -1
      BY <1>4, <1>9 DEF OnRequestFullUpdate
    <3>2. Flagged(H)
      BY DEF View
    <3> QED BY <1>4, <3>1, <3>2 DEF Flagged
  <2> QED BY <1>5, <1>6, <2>3, <2>4 DEF View
<1>10. forceWait > 0 => \A i \in 1 .. Len(toClient) : toClient[i].tick <= forceWait
  BY DEF IInv, AwaitedIsNewest
<1>11. \/ /\ forceWait > 0 /\ KeepWaiting
       \/ /\ deltaTick' = -1 /\ forceWait' = -1 /\ OnRequestFullUpdate
       \/ /\ forceWait > 0 /\ Acknowledge(-1)
          /\ UNCHANGED <<forceWait, baselineUsed, baselinesSent, baseline>>
       \/ /\ forceWait > 0 /\ msg.tick = forceWait
          /\ Acknowledge(msg.tick)
          /\ UNCHANGED <<baselineUsed, baselinesSent, baseline>>
       \/ /\ forceWait <= 0 /\ deltaTick = -1 /\ KeepWaiting
       \/ /\ forceWait <= 0 /\ deltaTick' = -1 /\ OnRequestFullUpdate
          /\ UNCHANGED forceWait
       \/ /\ forceWait <= 0 /\ deltaTick # -1
          /\ Acknowledge(msg.tick)
          /\ UNCHANGED <<forceWait, baselineUsed, baselinesSent, baseline>>
  BY <1>1, TickRead
<1>12. CASE forceWait > 0 /\ KeepWaiting
  BY <1>4, <1>8, <1>12 DEF KeepWaiting
<1>13. CASE deltaTick' = -1 /\ forceWait' = -1 /\ OnRequestFullUpdate
  BY <1>9, <1>13
<1>14. CASE /\ forceWait > 0 /\ Acknowledge(-1)
            /\ UNCHANGED <<forceWait, baselineUsed, baselinesSent, baseline>>
  BY <1>4, <1>8, <1>14 DEF Acknowledge
<1>15. CASE /\ forceWait > 0 /\ msg.tick = forceWait
            /\ Acknowledge(msg.tick)
            /\ UNCHANGED <<baselineUsed, baselinesSent, baseline>>
  <2>1. 1 .. Len(toClient) = {}
    BY <1>3, <1>4, <1>10, <1>15
  <2> QED BY <1>8, <1>15, <2>1 DEF Acknowledge
<1>16. CASE forceWait <= 0 /\ deltaTick = -1 /\ KeepWaiting
  BY <1>8, <1>16 DEF KeepWaiting
<1>17. CASE forceWait <= 0 /\ deltaTick' = -1 /\ OnRequestFullUpdate /\ UNCHANGED forceWait
  BY <1>9, <1>17
<1>18. CASE /\ forceWait <= 0 /\ deltaTick # -1
            /\ Acknowledge(msg.tick)
            /\ UNCHANGED <<forceWait, baselineUsed, baselinesSent, baseline>>
  BY <1>8, <1>18 DEF Acknowledge
<1> QED BY <1>11, <1>12, <1>13, <1>14, <1>15, <1>16, <1>17, <1>18

\* A baseline that is acknowledged was no longer in an update on its way.
LEMMA ViewServerReadBaselineAck ==
  ASSUME IInv, ServerReadBaselineAck, NEW H, View(H)
  PROVE  View(H)'
<1>1. PICK ack : ack = baselineAcks[1]
  OBVIOUS
<1>2. PICK S : baselineAcks \in Seq(S)
  BY DEF View, BaselineTypes
<1>3. /\ baselineAcks # <<>> /\ baselineAcks' = Tail(baselineAcks)
      /\ UNCHANGED <<tick, slots, edicts, lastPacked, frames, deltaTick, forceWait,
                     baselinesSent, disconnected, unacked, toClient, toServer,
                     clDeltaTick, clBaselines>>
      /\ ~Answers(Head(baselineAcks)) =>
           UNCHANGED <<baseline, baselineUsed, baselineTick>>
      /\ Answers(Head(baselineAcks)) =>
           /\ baseline' = [e \in DOMAIN baseline \cup baselinesSent |->
                             IF e \in baselinesSent THEN frames[baselineTick].pack[e].val
                             ELSE baseline[e]]
           /\ baselineUsed' = 1 - baselineUsed
           /\ baselineTick' = -1
  BY DEF ServerReadBaselineAck, worldVars, clientVars
<1>4. /\ Tail(baselineAcks) \in Seq(S) /\ Head(baselineAcks) = ack /\ 1 \in 1 .. Len(baselineAcks)
      /\ \A a \in 1 .. Len(baselineAcks') :
           baselineAcks'[a] = baselineAcks[a + 1] /\ a + 1 \in 1 .. Len(baselineAcks)
  BY <1>1, <1>2, <1>3, TailIndex
<1>5. /\ tick \in Nat /\ DOMAIN H = 1 .. tick /\ baselineUsed \in 0 .. 1
      /\ baselineTick \in Int /\ forceWait \in Int /\ deltaTick \in Int
      /\ \A i \in 1 .. Len(toClient) : toClient[i].tick \in 1 .. tick
      /\ \A t \in DOMAIN frames : t \in 1 .. tick /\ frames[t] = H[t]
  BY ViewTypes
<1>6. History(H)'
  BY <1>3, HistoryKept DEF View
<1>7. Written(H)' /\ Encoded(H)'
  BY <1>3 DEF View, Written, Encoded
<1>8. BaselineTypes'
  BY <1>3, <1>4 DEF View, BaselineTypes
<1>9. ASSUME NEW a \in 1 .. Len(baselineAcks)
      PROVE  /\ baselineAcks[a].tick \in 1 .. tick
             /\ \A i \in 1 .. Len(toClient) : baselineAcks[a].tick < toClient[i].tick
  BY DEF View, Acknowledged
<1>10. ASSUME NEW a \in 1 .. Len(baselineAcks')
       PROVE  /\ baselineAcks'[a].tick \in 1 .. tick /\ baselineAcks'[a].tick # -1
              /\ \A i \in 1 .. Len(toClient) : baselineAcks'[a].tick < toClient[i].tick
  BY <1>4, <1>5, <1>9
<1>11. AllDeltas' = AllDeltas
  BY <1>3 DEF AllDeltas
<1>12. CASE ~Answers(ack)
  <2>1. UNCHANGED <<baseline, baselineUsed, baselineTick>>
    BY <1>3, <1>4, <1>12
  <2>2. SameBaseline' /\ Flagged(H)'
    BY <1>3, <2>1 DEF View, SameBaseline, AllDeltas, Flagged
  <2>3. Acknowledged(H)'
    <3> SUFFICES ASSUME NEW a \in 1 .. Len(baselineAcks'),
                        baselineAcks'[a].tick = baselineTick,
                        baselineAcks'[a].nr = baselineUsed, clDeltaTick # -1, AllDeltas
                 PROVE  clBaselines[1 - baselineUsed] = NextBaseline(H)'
      BY <1>3, <1>10, <1>11, <2>1 DEF Acknowledged
    <3>1. NextBaseline(H)' = NextBaseline(H)
      BY <1>3, <2>1 DEF NextBaseline
    <3> QED BY <1>4, <3>1 DEF View, Acknowledged
  <2> QED BY <1>6, <1>7, <1>8, <2>2, <2>3 DEF View
<1>13. CASE Answers(ack)
  <2>1. /\ ack.tick = baselineTick /\ ack.nr = baselineUsed
        /\ baselineTick \in DOMAIN frames /\ frames[baselineTick] = H[baselineTick]
        /\ baseline' = NextBaseline(H)
        /\ baselineUsed' = 1 - baselineUsed /\ baselineTick' = -1
    BY <1>3, <1>4, <1>5, <1>13 DEF Answers, NextBaseline
  <2>2. baselineTick \in 1 .. tick /\ \A i \in 1 .. Len(toClient) : baselineTick < toClient[i].tick
    BY <1>4, <1>1, <1>9, <2>1
  <2>3. \A i \in 1 .. Len(toClient) : ~toClient[i].update
    <3> SUFFICES ASSUME NEW i \in 1 .. Len(toClient), toClient[i].update
                 PROVE  FALSE
      OBVIOUS
    <3>1. baselineTick = -1 \/ baselineTick >= toClient[i].tick
      BY DEF View, Flagged
    <3>2. toClient[i].tick \in 1 .. tick
      BY <1>5
    <3> QED BY <1>5, <2>2, <3>1, <3>2
  <2>4. AllDeltas
    <3>1. \A i \in 1 .. Len(toClient) : IsUpdate(H, toClient[i])
      BY DEF View, Written
    <3> QED BY <2>3, <3>1 DEF AllDeltas, IsUpdate
  <2>5. clDeltaTick # -1 => clBaselines[1 - baselineUsed] = NextBaseline(H)
    BY <1>1, <1>4, <2>1, <2>4 DEF View, Acknowledged
  <2>6. SameBaseline'
    BY <1>3, <1>11, <2>1, <2>4, <2>5 DEF SameBaseline
  <2>7. Flagged(H)'
    BY <1>3, <2>3 DEF Flagged
  <2>8. Acknowledged(H)'
    BY <1>3, <1>10, <2>1 DEF Acknowledged
  <2> QED BY <1>6, <1>7, <1>8, <2>6, <2>7, <2>8 DEF View
<1> QED BY <1>12, <1>13

\* What the client sends, and asking again, which empties its baselines.
LEMMA ViewClientSends ==
  ASSUME IInv, ClientSendTick \/ ForceFullUpdate \/ UNCHANGED vars, NEW H, View(H)
  PROVE  View(H)'
<1>1. UNCHANGED <<tick, slots, edicts, lastPacked, frames, deltaTick, forceWait,
                  baselineTick, baselineUsed, baselinesSent, baseline,
                  toClient, baselineAcks>>
  BY DEF ClientSendTick, ForceFullUpdate, vars, worldVars, serverVars, clientVars
<1>2. \/ UNCHANGED <<clDeltaTick, clBaselines>>
      \/ clDeltaTick' = -1 /\ clBaselines' = [b \in 0 .. 1 |-> Nothing]
  BY DEF ClientSendTick, ForceFullUpdate, vars, clientVars
<1>3. History(H)'
  BY <1>1, HistoryKept DEF View
<1>4. Written(H)' /\ Flagged(H)' /\ AllDeltas' = AllDeltas
  BY <1>1 DEF View, Written, Flagged, AllDeltas
<1>5. NextBaseline(H)' = NextBaseline(H)
  BY <1>1 DEF NextBaseline
<1>6. CASE UNCHANGED <<clDeltaTick, clBaselines>>
  <2>1. Encoded(H)' /\ BaselineTypes' /\ SameBaseline'
    BY <1>1, <1>4, <1>6 DEF View, Encoded, BaselineTypes, SameBaseline
  <2>2. Acknowledged(H)'
    BY <1>1, <1>4, <1>5, <1>6 DEF View, Acknowledged
  <2> QED BY <1>3, <1>4, <2>1, <2>2 DEF View
<1>7. CASE clDeltaTick' = -1 /\ clBaselines' = [b \in 0 .. 1 |-> Nothing]
  <2>1. Encoded(H)' /\ SameBaseline'
    BY <1>1, <1>4, <1>7 DEF View, Encoded, SameBaseline
  <2>2. BaselineTypes'
    BY <1>1, <1>7 DEF View, BaselineTypes, PerEdict, Nothing
  <2>3. Acknowledged(H)'
    BY <1>1, <1>7 DEF View, Acknowledged
  <2> QED BY <1>3, <1>4, <2>1, <2>2, <2>3 DEF View
<1> QED BY <1>2, <1>6, <1>7

\* What is said of the updates that are left when the client has read one.
LEMMA ReadUpdates ==
  ASSUME IInv, ClientRead, NEW H, View(H)
  PROVE  /\ History(H)' /\ Written(H)' /\ Flagged(H)'
         /\ IsUpdate(H, toClient[1])
         /\ \A i \in 1 .. Len(toClient') : toClient[1].tick < toClient'[i].tick
         /\ \A a \in 1 .. Len(baselineAcks) :
              /\ baselineAcks[a].tick \in 1 .. tick /\ baselineAcks[a].tick < toClient[1].tick
              /\ \A i \in 1 .. Len(toClient') : baselineAcks[a].tick < toClient'[i].tick
<1>1. /\ 1 \in 1 .. Len(toClient) /\ Len(toClient) \in Nat
      /\ \A i \in 1 .. Len(toClient') :
           /\ toClient'[i] = toClient[i + 1]
           /\ i \in Nat /\ i + 1 \in 1 .. Len(toClient) /\ i + 1 \in 2 .. Len(toClient)
      /\ Len(toClient') = Len(toClient) - 1
      /\ UNCHANGED <<tick, slots, edicts, lastPacked, frames, deltaTick, forceWait,
                     baselineTick, baselineUsed, baselinesSent, baseline>>
  BY ReadIndex
<1>2. History(H)'
  BY <1>1, HistoryKept DEF View
<1>3. Written(H)' /\ IsUpdate(H, toClient[1])
  BY <1>1 DEF View, Written
<1>4. Flagged(H)'
  <2> SUFFICES ASSUME NEW i \in 1 .. Len(toClient'), toClient'[i].update
               PROVE /\ baselineTick = -1 \/ baselineTick >= toClient'[i].tick
                     /\ baselineTick = toClient'[i].tick =>
                          baselinesSent = EnterPVS(Source(H, toClient'[i]), H[baselineTick])
                     /\ toClient'[i].delta /\ forceWait <= 0 /\ deltaTick # -1
                          => toClient'[i].baseline = baselineUsed
                     /\ \A j \in 1 .. Len(toClient') : i < j /\ toClient'[j].delta
                          => toClient'[j].baseline = toClient'[i].baseline
    BY <1>1 DEF Flagged
  <2>1. PICK k \in 1 .. Len(toClient) : k = i + 1 /\ toClient'[i] = toClient[k]
    BY <1>1
  <2>2. \A j \in 1 .. Len(toClient) : k < j /\ toClient[j].delta
          => toClient[j].baseline = toClient[k].baseline
    BY <2>1 DEF View, Flagged
  <2>3. \A j \in 1 .. Len(toClient') : i < j => k < j + 1
    BY <1>1, <2>1
  <2>4. \A j \in 1 .. Len(toClient') : i < j /\ toClient'[j].delta
          => toClient'[j].baseline = toClient'[i].baseline
    BY <1>1, <2>1, <2>2, <2>3
  <2> QED BY <2>1, <2>4 DEF View, Flagged
<1>5. \A i \in 1 .. Len(toClient') : toClient[1].tick < toClient'[i].tick
  <2>1. \A k \in 2 .. Len(toClient) : toClient[1].tick < toClient[k].tick
    BY <1>1 DEF IInv, TicksInOrder
  <2> QED BY <1>1, <2>1
<1>6. \A a \in 1 .. Len(baselineAcks) :
        /\ baselineAcks[a].tick \in 1 .. tick
        /\ \A k \in 1 .. Len(toClient) : baselineAcks[a].tick < toClient[k].tick
  BY DEF View, Acknowledged
<1> QED BY <1>1, <1>2, <1>3, <1>4, <1>5, <1>6

\* An update that replaces the baseline is written against the one in use.
LEMMA HeadUses ==
  ASSUME IInv, Awaiting, NEW H, View(H), 1 \in 1 .. Len(toClient),
         AllDeltas, clDeltaTick # -1, toClient[1].update
  PROVE  toClient[1].baseline = baselineUsed
<1>1. /\ forceWait \in Int /\ deltaTick \in Int /\ fullRead \in Int
      /\ toClient[1].tick \in Int
  BY TickTypes, AwaitTypes
<1>2. forceWait <= 0
  <2> SUFFICES ASSUME forceWait > 0 PROVE FALSE
    BY <1>1
  <2>1. fullRead = forceWait
    BY DEF Awaiting, AllDeltas
  <2>2. fullRead < toClient[1].tick
    BY DEF Awaiting
  <2>3. toClient[1].tick <= forceWait
    BY DEF IInv, AwaitedIsNewest
  <2> QED BY <1>1, <2>1, <2>2, <2>3
<1>3. deltaTick # -1
  BY <1>2 DEF Awaiting
<1>4. toClient[1].delta
  BY DEF AllDeltas
<1> QED BY <1>2, <1>3, <1>4 DEF View, Flagged

\* The client reads an update and may replace the baseline that is not in use.
LEMMA ViewApplied ==
  ASSUME IInv, Awaiting, ClientRead, NEW H, View(H),
         NEW m, m = toClient[1], NEW bases,
         \/ m.delta /\ clDeltaTick # -1 /\ bases = clBaselines
         \/ ~m.delta /\ bases = [b \in 0 .. 1 |-> Nothing],
         NEW view, NEW ents, ProcessPacketEntities(m, view, ents, bases)
  PROVE  View(H)'
<1>0. /\ History(H)' /\ Written(H)' /\ Flagged(H)'
      /\ IsUpdate(H, m)
      /\ \A i \in 1 .. Len(toClient') : m.tick < toClient'[i].tick
      /\ \A a \in 1 .. Len(baselineAcks) :
           /\ baselineAcks[a].tick \in 1 .. tick /\ baselineAcks[a].tick < m.tick
           /\ \A i \in 1 .. Len(toClient') : baselineAcks[a].tick < toClient'[i].tick
  BY ReadUpdates
<1>1. /\ 1 \in 1 .. Len(toClient) /\ Len(toClient) \in Nat
      /\ Len(toClient') = Len(toClient) - 1
      /\ \A i \in 1 .. Len(toClient') :
           /\ toClient'[i] = toClient[i + 1]
           /\ i \in Nat /\ i + 1 \in 1 .. Len(toClient) /\ i + 1 \in 2 .. Len(toClient)
      /\ UNCHANGED <<tick, forceWait, deltaTick, baselineTick, baselineUsed,
                     baselinesSent, baseline>>
  BY ReadIndex
<1>2. /\ tick \in Nat /\ DOMAIN H = 1 .. tick /\ baselineUsed \in 0 .. 1
      /\ baselineTick \in Int /\ baselineTick >= -1
      /\ \A t \in 1 .. tick : IsFrame(H[t])
  BY ViewTypes
<1>3. m.tick \in 1 .. tick /\ m.baseline \in 0 .. 1 /\ IsFrame(H[m.tick])
  BY <1>0, <1>2 DEF IsUpdate
<1>4. PICK b : b = bases[m.baseline]
  OBVIOUS
<1>5. /\ bases = [k \in 0 .. 1 |-> bases[k]]
      /\ \A k \in 0 .. 1 : PerEdict(bases[k], PropValues)
  BY DEF View, BaselineTypes, PerEdict, Nothing
<1>6. PerEdict(b, PropValues) /\ (~m.delta => b = Nothing)
  BY <1>3, <1>4, <1>5
<1>7. m.entries = WriteEntities(Source(H, m), H[m.tick], b)
  <2>1. CASE m.delta
    BY <1>1, <1>4, <2>1 DEF View, Encoded, Source
  <2>2. CASE ~m.delta
    BY <1>0, <1>6, <2>2 DEF IsUpdate, Source
  <2> QED BY <2>1, <2>2
<1>8. /\ clDeltaTick' = m.tick
      /\ m.update =>
           /\ clBaselines' = [k \in 0 .. 1 |->
                                IF k = 1 - m.baseline THEN MergeBaseline(b, m.entries, b)
                                ELSE bases[k]]
           /\ clBaselines'[m.baseline] = b
           /\ clBaselines'[1 - m.baseline] = MergeBaseline(b, m.entries, b)
           /\ baselineAcks' = Append(baselineAcks, [tick |-> m.tick, nr |-> m.baseline])
      /\ ~m.update => clBaselines' = bases /\ baselineAcks' = baselineAcks
  <2>1. b = (IF m.delta THEN bases[m.baseline] ELSE Nothing)
    BY <1>4, <1>6
  <2>2. m.update =>
          /\ clBaselines' = [bases EXCEPT ![1 - m.baseline] = MergeBaseline(b, m.entries, b)]
          /\ baselineAcks' = Append(baselineAcks, [tick |-> m.tick, nr |-> m.baseline])
    BY <1>4, <2>1 DEF ProcessPacketEntities
  <2>3. m.update =>
          clBaselines' = [k \in 0 .. 1 |-> IF k = 1 - m.baseline
                                           THEN MergeBaseline(b, m.entries, b) ELSE bases[k]]
    BY <1>5, <2>2
  <2>4. m.update =>
          /\ clBaselines'[m.baseline] = b
          /\ clBaselines'[1 - m.baseline] = MergeBaseline(b, m.entries, b)
    <3>1. m.baseline # 1 - m.baseline /\ 1 - m.baseline \in 0 .. 1
      BY <1>3
    <3> QED BY <1>3, <1>4, <2>3, <3>1
  <2>5. ~m.update => clBaselines' = bases /\ baselineAcks' = baselineAcks
    BY DEF ProcessPacketEntities
  <2>6. clDeltaTick' = m.tick
    BY DEF ProcessPacketEntities
  <2> QED BY <2>2, <2>3, <2>4, <2>5, <2>6
<1>9. PICK E : E = EnterPVS(Source(H, m), H[m.tick])
  OBVIOUS
<1>10. /\ MergeBaseline(b, m.entries, b)
            = [e \in DOMAIN b \cup E |-> IF e \in E THEN H[m.tick].pack[e].val ELSE b[e]]
       /\ PerEdict(MergeBaseline(b, m.entries, b), PropValues)
  <2>1. MergeBaseline(b, m.entries, b)
          = [e \in DOMAIN b \cup E |-> IF e \in E THEN H[m.tick].pack[e].val ELSE b[e]]
    BY <1>3, <1>6, <1>7, <1>9, MergedBaseline
  <2>2. E \subseteq DOMAIN H[m.tick].pack
    BY <1>9 DEF EnterPVS
  <2>3. PerEdict([e \in DOMAIN b \cup E |-> IF e \in E THEN H[m.tick].pack[e].val ELSE b[e]],
                 PropValues)
    BY <1>3, <1>6, <2>2, MergedType
  <2> QED BY <2>1, <2>3
\* a full update was the last one; among deltas the one read tells nothing new
<1>11. AllDeltas' => \/ m.delta /\ AllDeltas
                     \/ ~m.delta /\ ~AllDeltas
  <2>1. \A i \in 1 .. Len(toClient) : i = 1
           \/ (i - 1 \in 1 .. Len(toClient') /\ toClient'[i - 1] = toClient[i])
    BY <1>1
  <2> QED BY <1>1, <2>1 DEF AllDeltas
<1>12. ~AllDeltas' => ~AllDeltas
  BY <1>1 DEF AllDeltas
<1>13. ~m.delta => /\ ~AllDeltas /\ m.update /\ m.baseline = 0
                   /\ 1 .. Len(toClient') = {}
  <2>1. ~m.delta => 1 = Len(toClient)
    BY <1>1 DEF Awaiting
  <2> QED BY <1>0, <1>1, <2>1 DEF AllDeltas, IsUpdate
<1>14. AllDeltas' /\ m.update => m.baseline = baselineUsed /\ b = baseline
  <2>1. CASE m.delta /\ AllDeltas /\ m.update
    <3>1. m.baseline = baselineUsed
      BY <1>1, <1>13, <2>1, HeadUses
    <3>2. clBaselines[baselineUsed] = baseline
      BY <2>1 DEF View, SameBaseline
    <3> QED BY <1>4, <2>1, <3>1, <3>2
  <2>2. CASE ~m.delta /\ ~AllDeltas
    BY <1>6, <1>13, <2>2 DEF View, SameBaseline
  <2> QED BY <1>11, <2>1, <2>2
<1>15. BaselineTypes'
  <2>1. \E S : baselineAcks' \in Seq(S)
    <3>1. PICK S : baselineAcks \in Seq(S)
      BY DEF View, BaselineTypes
    <3>2. Append(baselineAcks, [tick |-> m.tick, nr |-> m.baseline])
            \in Seq(S \cup {[tick |-> m.tick, nr |-> m.baseline]})
      BY <3>1, AppendIndex
    <3> QED BY <1>8, <3>1, <3>2
  <2>2. CASE m.update
    <3>1. clBaselines' = [k \in 0 .. 1 |->
                            IF k = 1 - m.baseline THEN MergeBaseline(b, m.entries, b)
                            ELSE bases[k]]
      BY <1>8, <2>2
    <3> QED BY <1>5, <1>10, <2>1, <3>1 DEF BaselineTypes
  <2>3. CASE ~m.update
    <3>1. clBaselines' = bases
      BY <1>8, <2>3
    <3> QED BY <1>5, <2>1, <3>1 DEF BaselineTypes
  <2> QED BY <2>2, <2>3
<1>16. Encoded(H)'
  <2> SUFFICES ASSUME NEW i \in 1 .. Len(toClient'), toClient'[i].delta
               PROVE  toClient'[i].entries =
                        WriteEntities(H[toClient'[i].from], H[toClient'[i].tick],
                                      clBaselines'[toClient'[i].baseline])
    BY DEF Encoded
  <2>1. m.delta /\ clDeltaTick # -1 /\ bases = clBaselines
    BY <1>13
  <2>2. PICK k \in 1 .. Len(toClient) : k = i + 1 /\ toClient'[i] = toClient[k] /\ 1 < k
    BY <1>1
  <2>3. toClient[k].entries = WriteEntities(H[toClient[k].from], H[toClient[k].tick],
                                            clBaselines[toClient[k].baseline])
    BY <2>1, <2>2 DEF View, Encoded
  <2>4. CASE m.update
    <3>1. toClient[k].baseline = m.baseline
      BY <1>1, <2>2, <2>4 DEF View, Flagged
    <3>2. clBaselines'[m.baseline] = clBaselines[m.baseline]
      BY <1>4, <1>8, <2>1, <2>4
    <3> QED BY <2>2, <2>3, <3>1, <3>2
  <2>5. CASE ~m.update
    BY <1>8, <2>1, <2>2, <2>3, <2>5
  <2> QED BY <2>4, <2>5
<1>17. SameBaseline'
  <2>1. ~AllDeltas' => baselineUsed' = 0 /\ baseline' = Nothing
    BY <1>1, <1>12 DEF View, SameBaseline
  <2>2. ASSUME AllDeltas' PROVE clBaselines'[baselineUsed'] = baseline'
    <3>1. CASE m.update
      BY <1>1, <1>8, <1>14, <2>2, <3>1
    <3>2. CASE ~m.update
      <4>1. m.delta /\ AllDeltas /\ clDeltaTick # -1 /\ bases = clBaselines
        BY <1>11, <1>13, <2>2, <3>2
      <4> QED BY <1>1, <1>8, <3>2, <4>1 DEF View, SameBaseline
    <3> QED BY <3>1, <3>2
  <2> QED BY <2>1, <2>2 DEF SameBaseline
<1>18. Acknowledged(H)'
  <2>0. NextBaseline(H)' = NextBaseline(H)
    BY <1>1 DEF NextBaseline
  <2>1. CASE ~m.update
    <3>1. m.delta /\ clDeltaTick # -1 /\ bases = clBaselines /\ (AllDeltas' => AllDeltas)
      BY <1>11, <1>13, <2>1
    <3> SUFFICES ASSUME NEW a \in 1 .. Len(baselineAcks)
                 PROVE  /\ baselineAcks[a].tick \in 1 .. tick
                        /\ \A i \in 1 .. Len(toClient') : baselineAcks[a].tick < toClient'[i].tick
                        /\ baselineAcks[a].tick = baselineTick
                             /\ baselineAcks[a].nr = baselineUsed /\ AllDeltas'
                             => clBaselines[1 - baselineUsed] = NextBaseline(H)
      BY <1>1, <1>8, <2>0, <2>1, <3>1 DEF Acknowledged
    <3> QED BY <1>0, <3>1 DEF View, Acknowledged
  <2>2. CASE m.update
    <3> SUFFICES ASSUME NEW a \in 1 .. Len(baselineAcks')
                 PROVE  /\ baselineAcks'[a].tick \in 1 .. tick
                        /\ \A i \in 1 .. Len(toClient') : baselineAcks'[a].tick < toClient'[i].tick
                        /\ baselineAcks'[a].tick = baselineTick
                             /\ baselineAcks'[a].nr = baselineUsed /\ AllDeltas'
                             => clBaselines'[1 - baselineUsed] = NextBaseline(H)
      BY <1>1, <2>0 DEF Acknowledged
    <3>0. PICK S : baselineAcks \in Seq(S)
      BY DEF View, BaselineTypes
    <3>1. baselineAcks' = Append(baselineAcks, [tick |-> m.tick, nr |-> m.baseline])
      BY <1>8, <2>2
    <3>2. /\ Len(baselineAcks') = Len(baselineAcks) + 1
          /\ \A k \in 1 .. Len(baselineAcks) : baselineAcks'[k] = baselineAcks[k]
          /\ baselineAcks'[Len(baselineAcks) + 1] = [tick |-> m.tick, nr |-> m.baseline]
          /\ Len(baselineAcks) \in Nat
      BY <3>0, <3>1, AppendIndex
    <3>3. baselineTick = -1 \/ baselineTick >= m.tick
      BY <1>1, <2>2 DEF View, Flagged
    <3>4. CASE a \in 1 .. Len(baselineAcks)
      <4>1. /\ baselineAcks[a].tick \in 1 .. tick /\ baselineAcks[a].tick < m.tick
            /\ \A i \in 1 .. Len(toClient') : baselineAcks[a].tick < toClient'[i].tick
        BY <1>0, <3>4
      <4>2. baselineAcks[a].tick # baselineTick
        BY <1>2, <1>3, <3>3, <4>1
      <4> QED BY <3>2, <3>4, <4>1, <4>2
    <3>5. CASE a = Len(baselineAcks) + 1
      <4>1. baselineAcks'[a].tick = m.tick /\ baselineAcks'[a].nr = m.baseline
        BY <3>2, <3>5
      <4>2. ASSUME m.tick = baselineTick, AllDeltas'
            PROVE  clBaselines'[1 - baselineUsed] = NextBaseline(H)
        <5>1. baselinesSent = E
          BY <1>1, <1>9, <2>2, <4>2 DEF View, Flagged
        <5>2. m.baseline = baselineUsed /\ b = baseline
          BY <1>14, <2>2, <4>2
        <5>3. clBaselines'[1 - baselineUsed] = MergeBaseline(b, m.entries, b)
          BY <1>8, <2>2, <5>2
        <5> QED BY <1>10, <4>2, <5>1, <5>2, <5>3 DEF NextBaseline
      <4> QED BY <1>0, <1>3, <4>1, <4>2
    <3> QED BY <3>2, <3>4, <3>5
  <2> QED BY <2>1, <2>2
<1> QED BY <1>0, <1>15, <1>16, <1>17, <1>18 DEF View

\* An update the client leaves out is a delta.
LEMMA ViewLeftOut ==
  ASSUME IInv, ClientRead, NEW H, View(H), toClient[1].delta,
         UNCHANGED <<baselineAcks, clDeltaTick, clBaselines>>
  PROVE  View(H)'
<1>0. /\ History(H)' /\ Written(H)' /\ Flagged(H)'
      /\ \A a \in 1 .. Len(baselineAcks) :
           /\ baselineAcks[a].tick \in 1 .. tick
           /\ \A i \in 1 .. Len(toClient') : baselineAcks[a].tick < toClient'[i].tick
  BY ReadUpdates
<1>1. /\ 1 \in 1 .. Len(toClient) /\ Len(toClient) \in Nat
      /\ Len(toClient') = Len(toClient) - 1
      /\ \A i \in 1 .. Len(toClient') :
           /\ toClient'[i] = toClient[i + 1]
           /\ i \in Nat /\ i + 1 \in 1 .. Len(toClient) /\ i + 1 \in 2 .. Len(toClient)
      /\ UNCHANGED <<tick, forceWait, deltaTick, baselineTick, baselineUsed,
                     baselinesSent, baseline>>
  BY ReadIndex
<1>2. AllDeltas' = AllDeltas
  <2>1. \A i \in 1 .. Len(toClient) : i = 1
           \/ (i - 1 \in 1 .. Len(toClient') /\ toClient'[i - 1] = toClient[i])
    BY <1>1
  <2> QED BY <1>1, <2>1 DEF AllDeltas
<1>3. Encoded(H)' /\ BaselineTypes' /\ SameBaseline'
  BY <1>1, <1>2 DEF View, Encoded, BaselineTypes, SameBaseline
<1>4. NextBaseline(H)' = NextBaseline(H)
  BY <1>1 DEF NextBaseline
<1>5. Acknowledged(H)'
  BY <1>0, <1>1, <1>2, <1>4 DEF View, Acknowledged
<1> QED BY <1>0, <1>3, <1>5 DEF View

\* An update that is read changes the baseline only as the server knows.
LEMMA ViewClientReads ==
  ASSUME IInv, Awaiting, ClientReads, NEW H, View(H)
  PROVE  View(H)'
<1>1. ClientRead /\ Head(toClient) = toClient[1]
  <2>1. ClientRead
    BY DEF ClientReads, ClientIgnoresDelta, ClientReadsDelta, ClientReadsFull
  <2> QED BY <2>1, ReadIndex
<1>2. CASE ClientIgnoresDelta
  BY <1>1, <1>2, ViewLeftOut DEF ClientIgnoresDelta
<1>3. CASE ClientReadsDelta /\ Unreadable(toClient[1])
  BY <1>1, <1>3, ViewLeftOut DEF ClientReadsDelta
<1>4. CASE ClientReadsDelta /\ ~Unreadable(toClient[1])
  <2>1. /\ toClient[1].delta /\ clDeltaTick # -1
        /\ ProcessPacketEntities(toClient[1], clFrames[toClient[1].from], clEnts, clBaselines)
    BY <1>1, <1>4 DEF ClientReadsDelta
  <2> QED BY <1>1, <2>1, ViewApplied
<1>5. CASE ClientReadsFull
  <2>1. /\ ~toClient[1].delta
        /\ ProcessPacketEntities(toClient[1], {}, Nothing, [b \in 0 .. 1 |-> Nothing])
    BY <1>1, <1>5 DEF ClientReadsFull
  <2> QED BY <1>1, <2>1, ViewApplied
<1> QED BY <1>2, <1>3, <1>4, <1>5 DEF ClientReads

\* Every step keeps the updates on their way in agreement with the frames made.
LEMMA NextView == IInv /\ Awaiting /\ (\E H : View(H)) /\ [Next]_vars => \E H : View(H)'
<1> SUFFICES ASSUME IInv, Awaiting, [Next]_vars, NEW H, View(H) PROVE \E G : View(G)'
  OBVIOUS
<1>0. Awaiting'
  BY NextAwaiting
<1>1. ASSUME NEW fates \in [Edicts -> Fates], NEW seen \in SUBSET Edicts,
             NEW vals \in [seen -> PropValues], ServerFrame(fates, vals)
      PROVE  \E G : View(G)'
  <2>1. PICK to : to = NewFrame(fates, vals)
    OBVIOUS
  <2>2. PICK G : G = [t \in 1 .. tick + 1 |-> IF t = tick + 1 THEN to ELSE H[t]]
    OBVIOUS
  <2>3. View(G)'
    BY <1>1, <2>1, <2>2, ViewServerFrame, SMTT(30)
  <2> QED BY <2>3
<1>2. ASSUME NEW other \in BOOLEAN, ServerReadTick(other) PROVE View(H)'
  BY <1>0, <1>2, ViewServerReadTick
<1>3. CASE ServerReadBaselineAck
  BY <1>3, ViewServerReadBaselineAck
<1>4. CASE ClientSendTick \/ ForceFullUpdate \/ UNCHANGED vars
  BY <1>4, ViewClientSends
<1>5. CASE ClientReads
  BY <1>5, ViewClientReads
<1> QED BY <1>1, <1>2, <1>3, <1>4, <1>5 DEF Next

\* Every update on its way can be told from the frames made.
LEMMA SpecView == Spec => [](IInv /\ Awaiting /\ \E H : View(H))
<1>1. Init => \E H : View(H)
  BY InitView
<1>2. Init => Awaiting
  BY InitAwaiting
<1>3. IInv /\ Awaiting /\ [Next]_vars => Awaiting'
  BY NextAwaiting
<1>4. IInv /\ Awaiting /\ (\E H : View(H)) /\ [Next]_vars => (\E H : View(H))'
  BY NextView
<1> QED BY <1>1, <1>2, <1>3, <1>4, SpecIInv, PTL DEF Spec

\* Both ends hold the same baseline under the number the server writes in its
\* updates, however late, lost or repeated the updates and acknowledgements are
\* (SV_WriteDeltaEntities, CLCMsg_BaselineAck, CL_ProcessPacketEntities).
THEOREM SnapshotBaselinesAgree == Spec => []BaselinesAgree
<1>1. IInv /\ (\E H : View(H)) => BaselinesAgree
  <2> SUFFICES ASSUME IInv, NEW H, View(H) PROVE BaselinesAgree
    OBVIOUS
  <2>1. DOMAIN toClient = 1 .. Len(toClient)
    BY DEF IInv, Queues
  <2> QED BY <2>1 DEF View, SameBaseline, AllDeltas, BaselinesAgree
<1> QED BY <1>1, SpecView, PTL

-----------------------------------------------------------------------------
(* 7. What the client has.                                                 *)

\* Where slots are reused at once (ED_AllowImmediateReuse, as levels change)
\* all of them are below sv.num_edicts from the start.  Without it an entity the
\* client never heard of is deleted by the update that shows it, and
\* DeletedNotTransmitted fails.
NoLateReuse == ImmediateReuse => InitialSlots = Edicts

SlotsKnown(H) ==
  /\ ImmediateReuse => slots = Edicts /\ \A t \in 1 .. tick : H[t].slots = Edicts
  /\ ~ImmediateReuse => \A t \in 1 .. tick : H[t].deletes = {}

\* No frame has slots the server has not.
LEMMA InitSlots ==
  ASSUME NoLateReuse, Init, NEW H PROVE SlotsKnown(H)
BY DEF Init, SlotsKnown, NoLateReuse

\* sv.num_edicts never gets less.
LEMMA SlotsServerFrame ==
  ASSUME IInv, NEW fates \in [Edicts -> Fates], NEW seen \in SUBSET Edicts,
         NEW vals \in [seen -> PropValues], ServerFrame(fates, vals),
         NEW to, to = NewFrame(fates, vals), NEW H, SlotsKnown(H),
         NEW G, G = [t \in 1 .. tick + 1 |-> IF t = tick + 1 THEN to ELSE H[t]]
  PROVE  SlotsKnown(G)'
<1>1. /\ to.slots = slots \cup {e \in Edicts : fates[e] = "alloc"}
      /\ to.deletes = {e \in Edicts : fates[e] = "reuse"}
  BY DEF NewFrame
<1>2. tick' = tick + 1 /\ slots' = to.slots
      /\ \A e \in Edicts : fates[e] = "reuse" => ImmediateReuse
  <2>1. \A e \in Edicts : MayMeet(fates[e], e)
    BY DEF ServerFrame
  <2>2. \A e \in Edicts : fates[e] = "reuse" => ImmediateReuse
    BY <2>1 DEF MayMeet
  <2> QED BY <2>2, FrameSends DEF ServerFrame
<1>3. tick \in Int /\ tick >= 0
  BY TickTypes
<1>4. G[tick + 1] = to /\ \A t \in 1 .. tick' : t = tick + 1 \/ (t \in 1 .. tick /\ G[t] = H[t])
  BY <1>2, <1>3
<1>5. ImmediateReuse => to.slots = Edicts
  BY <1>1 DEF SlotsKnown
<1>6. ~ImmediateReuse => to.deletes = {}
  BY <1>1, <1>2
<1> QED BY <1>2, <1>4, <1>5, <1>6 DEF SlotsKnown

\* An update deletes no entity that it shows, and none that lives on.
LEMMA ShownEntity ==
  ASSUME IInv, NEW H, History(H), SlotsKnown(H),
         NEW f \in 1 .. tick, NEW t \in 1 .. tick, f < t, NEW e \in DOMAIN H[t].pack
  PROVE  e \notin Deletions(H[f], H[t])
<1>1. e \in Edicts /\ H[t].serial[e] # 0
  BY HistoryTypes
<1>2. e \in H[t].deletes => H[f].serial[e] # H[t].serial[e]
  BY <1>1 DEF History, SerialHistory
<1>3. e \in H[t].deletes => H[f].slots = Edicts
  BY DEF SlotsKnown
<1> QED BY <1>1, <1>2, <1>3 DEF Deletions, NeedsExplicitDestroy, NeedsExplicitCreate

\* An entity that two frames have is not deleted by an update to the later one.
LEMMA LivingEntity ==
  ASSUME IInv, NEW H, History(H), NEW f, NEW l \in 1 .. tick, NEW t \in 1 .. tick, l < t,
         NEW e \in Edicts, H[l].serial[e] = H[t].serial[e], H[t].serial[e] # 0
  PROVE  e \notin Deletions(H[f], H[t])
<1>1. e \notin H[t].deletes
  BY DEF History, SerialHistory
<1> QED BY <1>1 DEF Deletions, NeedsExplicitDestroy

\* Of every entity the client has read, the last update that showed it, and
\* what the client has of it unless an update without it had another entity.
Held(H, R, L) ==
  \A e \in Edicts : L[e] # 0 =>
    /\ L[e] \in R /\ e \in DOMAIN H[L[e]].pack
    /\ (\A v \in R : L[e] < v => H[v].serial[e] = H[L[e]].serial[e]) =>
         /\ e \in DOMAIN clEnts
         /\ clEnts[e] = [serial |-> H[L[e]].serial[e], val |-> H[L[e]].pack[e].val]
LastShown(H, R, L) == \A s \in R : \A e \in DOMAIN H[s].pack : s <= L[e]
ReadUpTo(H, R, n) ==
  /\ n \in 0 .. tick /\ R \subseteq 1 .. n
  /\ \A t \in DOMAIN clFrames : t \in 1 .. n /\ clFrames[t] = DOMAIN H[t].pack
  /\ \A u \in R : fullRead <= u
  /\ clActive =>
       /\ n \in R /\ n \in DOMAIN clFrames /\ clDeltaTick \in {-1, n}
       /\ shown = Shown(H[n])
  /\ ~clActive => clDeltaTick = -1
  /\ \A i \in 1 .. Len(toClient) : n < toClient[i].tick
Reads(H, R, L, n) ==
  /\ L \in [Edicts -> 0 .. n] /\ Held(H, R, L) /\ LastShown(H, R, L) /\ ReadUpTo(H, R, n)

Known(R) == R \cap DOMAIN clFrames
FromKnown(R) ==
  /\ clDeltaTick # -1 /\ forceWait <= 0 /\ deltaTick # -1 => deltaTick \in Known(R)
  /\ \A i \in 1 .. Len(toServer) :
       clDeltaTick # -1 /\ toServer[i].tick >= fullRead /\ toServer[i].tick # -1
         => toServer[i].tick \in Known(R)
  /\ \A i \in 1 .. Len(toClient) : toClient[i].delta =>
       /\ clDeltaTick # -1 => toClient[i].from \in Known(R)
       /\ deltaTick # -1 => toClient[i].from <= deltaTick
       /\ \A j \in 1 .. Len(toServer) :
            toServer[j].tick # -1 => toClient[i].from <= toServer[j].tick
       /\ \A j \in 1 .. Len(toClient) :
            i < j /\ toClient[j].delta => toClient[i].from <= toClient[j].from

Follows(H, R, L, n) ==
  View(H) /\ SlotsKnown(H) /\ Reads(H, R, L, n) /\ FromKnown(R) /\ ~clError

\* The types of what Reads relates.
LEMMA ReadTypes ==
  ASSUME IInv, NEW H, View(H), NEW R, NEW L, NEW n, Reads(H, R, L, n)
  PROVE  /\ tick \in Nat /\ n \in Nat /\ n <= tick
         /\ \A u \in R : u \in 1 .. n /\ u \in 1 .. tick /\ fullRead <= u /\ H[u].tick = u
         /\ \A e \in Edicts : L[e] \in 0 .. n
         /\ \A t \in 1 .. tick : IsFrame(H[t]) /\ H[t].tick = t
         /\ \A t \in 1 .. tick : \A e \in DOMAIN H[t].pack :
              e \in Edicts /\ H[t].serial[e] # 0 /\ H[t].pack[e].val \in PropValues
         /\ fullRead \in Int /\ deltaTick \in Int /\ forceWait \in Int /\ clDeltaTick \in Int
         /\ \A i \in 1 .. Len(toServer) : toServer[i].tick \in Int
         /\ \A i \in 1 .. Len(toClient) : toClient[i].tick \in 1 .. tick
<1>1. /\ fullRead \in Int /\ deltaTick \in Int /\ forceWait \in Int /\ clDeltaTick \in Int
      /\ \A i \in 1 .. Len(toServer) : toServer[i].tick \in Int
  BY TickTypes, AwaitTypes
<1>2. /\ tick \in Nat
      /\ \A t \in 1 .. tick : IsFrame(H[t]) /\ H[t].tick = t
      /\ \A i \in 1 .. Len(toClient) : toClient[i].tick \in 1 .. tick
  BY ViewTypes
<1>3. \A t \in 1 .. tick : \A e \in DOMAIN H[t].pack :
        e \in Edicts /\ H[t].serial[e] # 0 /\ H[t].pack[e].val \in PropValues
  <2>1. History(H)
    BY DEF View
  <2>2. \A t \in 1 .. tick : \A e \in DOMAIN H[t].pack : e \in Edicts /\ H[t].serial[e] # 0
    BY <2>1, HistoryTypes
  <2>3. \A t \in 1 .. tick : \A e \in DOMAIN H[t].pack : H[t].pack[e].val \in PropValues
    BY <1>2 DEF IsFrame, PerEdict, Packs
  <2> QED BY <2>2, <2>3
<1>4. /\ n \in Nat /\ n <= tick
      /\ \A u \in R : u \in 1 .. n /\ u \in 1 .. tick /\ fullRead <= u
  BY <1>2 DEF Reads, ReadUpTo
<1>5. \A e \in Edicts : L[e] \in 0 .. n
  BY DEF Reads
<1> QED BY <1>1, <1>2, <1>3, <1>4, <1>5

\* Of an entity that stays in the view since a snapshot the client read, it has
\* the state it needs to read the next update.
LEMMA EntityHeld ==
  ASSUME IInv, NEW H, View(H), NEW R, NEW L, NEW n, Reads(H, R, L, n),
         NEW f \in R, NEW t \in 1 .. tick, n < t,
         NEW e \in DOMAIN H[t].pack \ EnterPVS(H[f], H[t])
  PROVE  /\ e \in DOMAIN clEnts
         /\ H[L[e]].pack[e].val \in PropValues
         /\ clEnts[e] = [serial |-> H[t].serial[e], val |-> H[L[e]].pack[e].val]
         /\ \A p \in Props : H[t].pack[e].chg[p] <= f
                               => H[t].pack[e].val[p] = H[L[e]].pack[e].val[p]
<1>1. /\ tick \in Nat /\ n \in Nat /\ f \in 1 .. tick /\ f <= n /\ t \in Nat
      /\ e \in Edicts /\ H[t].serial[e] # 0
      /\ \A u \in R : u \in 1 .. tick /\ u <= n
      /\ L[e] \in 0 .. n
      /\ \A u \in 1 .. tick : H[u].tick = u
  BY ReadTypes, SMTT(30)
<1>2. e \in DOMAIN H[f].pack /\ H[f].serial[e] = H[t].serial[e]
  BY DEF EnterPVS, NeedsExplicitCreate
<1>3. PICK l : l = L[e]
  OBVIOUS
<1>4. f <= l /\ l # 0 /\ l \in R /\ e \in DOMAIN H[l].pack
  <2>1. f <= l
    BY <1>2, <1>3 DEF Reads, LastShown
  <2>2. l # 0
    BY <1>1, <1>3, <2>1
  <2> QED BY <1>1, <1>3, <2>1, <2>2 DEF Reads, Held
<1>5. History(H)
  BY DEF View
<1>6. ASSUME NEW v \in R, f <= v
      PROVE  H[v].serial[e] = H[t].serial[e]
  <2>1. v \in 1 .. tick /\ v < t /\ v \in Nat
    BY <1>1
  <2>2. CASE f = v
    BY <1>2, <2>2
  <2>3. CASE f < v
    <3>1. H[f].serial[e] # 0 /\ H[t].serial[e] = H[f].serial[e]
      BY <1>1, <1>2
    <3>2. H[v].serial[e] = H[f].serial[e]
      BY <1>1, <1>5, <2>1, <2>3, <3>1 DEF History, SerialHistory
    <3> QED BY <3>1, <3>2
  <2> QED BY <1>1, <1>6, <2>1, <2>2, <2>3
<1>7. H[l].serial[e] = H[t].serial[e]
  BY <1>4, <1>6
<1>8. \A v \in R : l < v => H[v].serial[e] = H[l].serial[e]
  <2>1. \A v \in R : l < v => f <= v
    <3>1. \A v \in R : v \in Nat
      BY <1>1
    <3>2. f \in Nat /\ l \in Nat /\ f <= l
      BY <1>1, <1>4
    <3> QED BY <3>1, <3>2
  <2> QED BY <1>6, <1>7, <2>1
<1>9. /\ e \in DOMAIN clEnts
      /\ clEnts[e] = [serial |-> H[l].serial[e], val |-> H[l].pack[e].val]
  BY <1>1, <1>3, <1>4, <1>8 DEF Reads, Held
<1>10. H[l].pack[e].val \in PropValues
  BY <1>1, <1>4, ReadTypes
<1>11. \A p \in Props : H[t].pack[e].chg[p] <= f => H[t].pack[e].val[p] = H[l].pack[e].val[p]
  <2>1. l \in 1 .. tick /\ l < t
    BY <1>1, <1>4
  <2>2. ChangesMarked(H[l], H[t])
    BY <1>5, <2>1 DEF History, ChangeHistory
  <2>3. \A p \in Props : H[t].pack[e].chg[p] <= l => H[t].pack[e].val[p] = H[l].pack[e].val[p]
    BY <1>1, <1>4, <1>7, <2>1, <2>2 DEF ChangesMarked
  <2>4. \A p \in Props : H[t].pack[e].chg[p] \in Nat
    <3>1. IsFrame(H[t])
      BY ReadTypes
    <3>2. e \in DOMAIN H[t].pack
      OBVIOUS
    <3> QED BY <3>1, <3>2 DEF IsFrame, PerEdict, Packs
  <2>5. f \in Nat /\ l \in Nat /\ f <= l
    BY <1>1, <1>4
  <2> QED BY <2>3, <2>4, <2>5
<1> QED BY <1>3, <1>7, <1>9, <1>10, <1>11

\* The client has read nothing.
LEMMA InitFollows ==
  ASSUME NoLateReuse, Init, NEW H, H = [t \in 1 .. 0 |-> NoFrame]
  PROVE  Follows(H, {}, [e \in Edicts |-> 0], 0)
<1>1. View(H) /\ SlotsKnown(H)
  BY InitView, InitSlots
<1>2. Held(H, {}, [e \in Edicts |-> 0]) /\ LastShown(H, {}, [e \in Edicts |-> 0])
  BY DEF Held, LastShown
<1>3. ReadUpTo(H, {}, 0)
  BY DEF Init, ReadUpTo, Nothing
<1>4. FromKnown({}) /\ ~clError
  BY DEF Init, FromKnown
<1> QED BY <1>1, <1>2, <1>3, <1>4 DEF Follows, Reads

\* The next update is relative to a snapshot the client has.
LEMMA FollowsServerFrame ==
  ASSUME IInv, Awaiting, NEW fates \in [Edicts -> Fates], NEW seen \in SUBSET Edicts,
         NEW vals \in [seen -> PropValues], ServerFrame(fates, vals),
         NEW to, to = NewFrame(fates, vals), NEW H, NEW R, NEW L, NEW n, Follows(H, R, L, n),
         NEW G, G = [t \in 1 .. tick + 1 |-> IF t = tick + 1 THEN to ELSE H[t]]
  PROVE  Follows(G, R, L, n)'
<1>0. View(H) /\ SlotsKnown(H) /\ Reads(H, R, L, n) /\ FromKnown(R) /\ ~clError
  BY DEF Follows
<1>1. View(G)' /\ SlotsKnown(G)'
  BY <1>0, ViewServerFrame, SlotsServerFrame, ZenonT(30)
<1>2. /\ tick' = tick + 1 /\ to.tick = tick + 1
      /\ UNCHANGED <<deltaTick, toServer, clDeltaTick, clFrames, clEnts, clActive, clError,
                     fullRead, shown>>
      /\ \/ SendNothing
         \/ forceWait <= 0 /\ SendFull(to)
         \/ /\ forceWait <= 0 /\ deltaTick # -1
            /\ deltaTick \in DOMAIN frames
            /\ SendDelta(frames[deltaTick], to)
  BY FrameSends
<1>3. /\ tick \in Nat /\ n \in Nat /\ n <= tick /\ forceWait \in Int /\ deltaTick \in Int
      /\ \A u \in R : u \in 1 .. tick
      /\ \A e \in Edicts : L[e] \in 0 .. n
      /\ \A t \in DOMAIN clFrames : t \in 1 .. tick
      /\ \A t \in DOMAIN frames : frames[t].tick = t
  <2>1. /\ tick \in Nat /\ n \in Nat /\ n <= tick /\ forceWait \in Int /\ deltaTick \in Int
        /\ \A u \in R : u \in 1 .. tick
        /\ \A e \in Edicts : L[e] \in 0 .. n
    BY <1>0, ReadTypes
  <2>2. \A t \in DOMAIN clFrames : t \in 1 .. n
    BY <1>0 DEF Reads, ReadUpTo
  <2>3. \A t \in DOMAIN frames : frames[t].tick = t
    BY DEF IInv, TicksInOrder
  <2> QED BY <2>1, <2>2, <2>3
<1>4. \A t \in 1 .. tick : G[t] = H[t]
  BY <1>3
<1>5. Held(G, R, L)' /\ LastShown(G, R, L)'
  <2>1. \A e \in Edicts : L[e] # 0 => L[e] \in R /\ L[e] \in 1 .. tick
    BY <1>0, <1>3 DEF Reads, Held
  <2>2. Held(G, R, L)'
    <3> SUFFICES ASSUME NEW e \in Edicts, L[e] # 0
                 PROVE  /\ L[e] \in R /\ e \in DOMAIN G[L[e]].pack
                        /\ (\A v \in R : L[e] < v => G[v].serial[e] = G[L[e]].serial[e]) =>
                             /\ e \in DOMAIN clEnts
                             /\ clEnts[e] = [serial |-> G[L[e]].serial[e],
                                             val |-> G[L[e]].pack[e].val]
      BY <1>2 DEF Held
    <3>1. L[e] \in R /\ G[L[e]] = H[L[e]] /\ \A v \in R : G[v] = H[v]
      BY <1>3, <1>4, <2>1
    <3> QED BY <1>0, <3>1, ZenonT(30) DEF Reads, Held
  <2>3. LastShown(G, R, L)'
    BY <1>0, <1>3, <1>4 DEF Reads, LastShown
  <2> QED BY <2>2, <2>3
<1>6. \/ toClient' = toClient
      \/ \E m : /\ m.tick = tick + 1 /\ toClient' = Append(toClient, m)
                /\ m.delta => forceWait <= 0 /\ deltaTick # -1 /\ m.from = deltaTick
  <2>1. CASE SendNothing
    BY <2>1 DEF SendNothing
  <2>2. CASE SendFull(to)
    <3>1. toClient' = Append(toClient, Update(NoFrame, to, Nothing, 0, TRUE))
      BY <2>2 DEF SendFull
    <3>2. PICK m : m = Update(NoFrame, to, Nothing, 0, TRUE)
      OBVIOUS
    <3>3. m.tick = tick + 1 /\ m.delta = FALSE
      BY <1>2, <3>2 DEF Update
    <3> QED BY <3>1, <3>2, <3>3
  <2>3. CASE /\ forceWait <= 0 /\ deltaTick # -1
             /\ deltaTick \in DOMAIN frames
             /\ SendDelta(frames[deltaTick], to)
    <3>1. PICK m : m = Update(frames[deltaTick], to, baseline, baselineUsed, baselineTick = -1)
      OBVIOUS
    <3>2. toClient' = toClient \/ toClient' = Append(toClient, m)
      BY <2>3, <3>1 DEF SendDelta
    <3>3. m.tick = tick + 1 /\ m.from = deltaTick
      BY <1>2, <1>3, <2>3, <3>1 DEF Update
    <3> QED BY <2>3, <3>2, <3>3
  <2> QED BY <1>2, <2>1, <2>2, <2>3
<1>7. ASSUME NEW i \in 1 .. Len(toClient')
      PROVE  \/ i \in 1 .. Len(toClient) /\ toClient'[i] = toClient[i]
             \/ /\ i = Len(toClient') /\ toClient'[i].tick = tick + 1
                /\ toClient'[i].delta =>
                     forceWait <= 0 /\ deltaTick # -1 /\ toClient'[i].from = deltaTick
  <2>1. CASE toClient' = toClient
    BY <2>1
  <2>2. CASE \E m : /\ m.tick = tick + 1 /\ toClient' = Append(toClient, m)
                    /\ m.delta => forceWait <= 0 /\ deltaTick # -1 /\ m.from = deltaTick
    <3>1. PICK m : /\ m.tick = tick + 1 /\ toClient' = Append(toClient, m)
                   /\ m.delta => forceWait <= 0 /\ deltaTick # -1 /\ m.from = deltaTick
      BY <2>2
    <3>2. \/ i \in 1 .. Len(toClient) /\ toClient'[i] = toClient[i]
          \/ i = Len(toClient') /\ toClient'[i] = m
      BY <3>1, SentIndex
    <3> QED BY <3>1, <3>2
  <2> QED BY <1>6, <2>1, <2>2
<1>8. ReadUpTo(G, R, n)'
  <2>1. \A i \in 1 .. Len(toClient') : n < toClient'[i].tick
    BY <1>0, <1>3, <1>7 DEF Reads, ReadUpTo
  <2>2. /\ n \in 0 .. tick' /\ R \subseteq 1 .. n
    BY <1>0, <1>2, <1>3 DEF Reads, ReadUpTo
  <2>3. \A t \in DOMAIN clFrames' : t \in 1 .. n /\ clFrames'[t] = DOMAIN G[t].pack
    BY <1>0, <1>2, <1>3, <1>4 DEF Reads, ReadUpTo
  <2>4. clActive' => /\ n \in R /\ n \in DOMAIN clFrames' /\ clDeltaTick' \in {-1, n}
                     /\ shown' = Shown(G[n])
    BY <1>0, <1>2, <1>3, <1>4 DEF Reads, ReadUpTo
  <2>5. /\ \A u \in R : fullRead' <= u
        /\ ~clActive' => clDeltaTick' = -1
    BY <1>0, <1>2 DEF Reads, ReadUpTo
  <2> QED BY <2>1, <2>2, <2>3, <2>4, <2>5 DEF ReadUpTo
<1>9. FromKnown(R)'
  <2>1. Known(R)' = Known(R)
    BY <1>2 DEF Known
  <2>2. clDeltaTick # -1 /\ forceWait' <= 0 /\ deltaTick # -1 => deltaTick \in Known(R)
    <3>1. forceWait' <= 0 => forceWait <= 0
      BY <1>2, <1>3 DEF SendNothing, SendFull, SendDelta
    <3> QED BY <1>0, <3>1 DEF FromKnown
  <2>3. ASSUME NEW i \in 1 .. Len(toClient'), toClient'[i].delta
        PROVE  /\ clDeltaTick # -1 => toClient'[i].from \in Known(R)
               /\ deltaTick # -1 => toClient'[i].from <= deltaTick
               /\ \A j \in 1 .. Len(toServer) :
                    toServer[j].tick # -1 => toClient'[i].from <= toServer[j].tick
               /\ \A j \in 1 .. Len(toClient') :
                    i < j /\ toClient'[j].delta => toClient'[i].from <= toClient'[j].from
    <3>1. CASE i \in 1 .. Len(toClient) /\ toClient'[i] = toClient[i]
      <4>1. /\ clDeltaTick # -1 => toClient[i].from \in Known(R)
            /\ deltaTick # -1 => toClient[i].from <= deltaTick
            /\ \A j \in 1 .. Len(toServer) :
                 toServer[j].tick # -1 => toClient[i].from <= toServer[j].tick
            /\ \A j \in 1 .. Len(toClient) :
                 i < j /\ toClient[j].delta => toClient[i].from <= toClient[j].from
        BY <1>0, <2>3, <3>1 DEF FromKnown
      <4>2. \A j \in 1 .. Len(toClient') :
              i < j /\ toClient'[j].delta => toClient[i].from <= toClient'[j].from
        BY <1>7, <4>1
      <4> QED BY <3>1, <4>1, <4>2
    <3>2. CASE /\ i = Len(toClient') /\ toClient'[i].tick = tick + 1
               /\ toClient'[i].delta =>
                     forceWait <= 0 /\ deltaTick # -1 /\ toClient'[i].from = deltaTick
      <4>1. forceWait <= 0 /\ deltaTick # -1 /\ toClient'[i].from = deltaTick
        BY <2>3, <3>2
      <4>2. clDeltaTick # -1 => deltaTick \in Known(R)
        BY <1>0, <4>1 DEF FromKnown
      <4>3. \A j \in 1 .. Len(toServer) : toServer[j].tick # -1 => deltaTick <= toServer[j].tick
        BY DEF IInv, TicksInOrder
      <4>4. \A j \in 1 .. Len(toClient') : ~(i < j)
        BY <3>2
      <4> QED BY <1>3, <4>1, <4>2, <4>3, <4>4
    <3> QED BY <1>7, <3>1, <3>2
  <2>4. \A i \in 1 .. Len(toServer) :
          clDeltaTick # -1 /\ toServer[i].tick >= fullRead /\ toServer[i].tick # -1
            => toServer[i].tick \in Known(R)
    BY <1>0 DEF FromKnown
  <2> QED BY <1>2, <2>1, <2>2, <2>3, <2>4 DEF FromKnown
<1>10. L \in [Edicts -> 0 .. n]
  BY <1>0 DEF Reads
<1> QED BY <1>0, <1>1, <1>2, <1>5, <1>8, <1>9, <1>10 DEF Follows, Reads

\* What the client has read does not change when it reads nothing.
LEMMA ReadsKept ==
  ASSUME NEW H, NEW R, NEW L, NEW n, Reads(H, R, L, n),
         UNCHANGED <<tick, toClient, clFrames, clEnts, clActive, fullRead, shown>>,
         clDeltaTick' \in {-1, clDeltaTick}
  PROVE  Reads(H, R, L, n)'
<1>1. Held(H, R, L)' /\ LastShown(H, R, L)'
  BY DEF Reads, Held, LastShown
<1>2. ReadUpTo(H, R, n)'
  BY DEF Reads, ReadUpTo
<1> QED BY <1>1, <1>2 DEF Reads

\* The frame that is acknowledged is one the client has.
LEMMA FollowsServerReadTick ==
  ASSUME IInv, Awaiting, Awaiting', NEW other \in BOOLEAN, ServerReadTick(other),
         NEW H, NEW R, NEW L, NEW n, Follows(H, R, L, n)
  PROVE  Follows(H, R, L, n)'
<1>0. View(H) /\ SlotsKnown(H) /\ Reads(H, R, L, n) /\ FromKnown(R) /\ ~clError
  BY DEF Follows
<1>1. PICK msg : msg = toServer[1]
  OBVIOUS
<1>2. UNCHANGED <<tick, slots, edicts, lastPacked, toClient, baselineAcks,
                  clDeltaTick, clFrames, clBaselines, clEnts, clActive, clError,
                  fullRead, requests, shown>>
  BY TickIndex
<1>3. /\ 1 \in 1 .. Len(toServer)
      /\ \A i \in 1 .. Len(toServer') :
           toServer'[i] = toServer[i + 1] /\ i + 1 \in 1 .. Len(toServer)
  BY TickIndex
<1>4. View(H)' /\ SlotsKnown(H)' /\ Reads(H, R, L, n)'
  <2>1. View(H)'
    BY <1>0, ViewServerReadTick
  <2>2. SlotsKnown(H)'
    BY <1>0, <1>2 DEF SlotsKnown
  <2>3. Reads(H, R, L, n)'
    BY <1>0, <1>2, ReadsKept
  <2> QED BY <2>1, <2>2, <2>3
<1>5. Known(R)' = Known(R)
  BY <1>2 DEF Known
<1>6. /\ fullRead \in Int /\ deltaTick \in Int /\ forceWait \in Int /\ msg.tick \in Int
      /\ \A u \in R : fullRead <= u /\ u \in Int
  <2>1. /\ fullRead \in Int /\ deltaTick \in Int /\ forceWait \in Int
        /\ \A u \in R : fullRead <= u /\ u \in 1 .. n /\ n \in Nat
    BY <1>0, ReadTypes
  <2>2. msg.tick \in Int
    BY <1>1, TickRead
  <2> QED BY <2>1, <2>2
<1>7. clDeltaTick # -1 /\ msg.tick >= fullRead /\ msg.tick # -1 => msg.tick \in Known(R)
  BY <1>0, <1>1, <1>3 DEF FromKnown
<1>8. /\ clDeltaTick # -1 /\ forceWait' <= 0 /\ deltaTick' # -1 => deltaTick' \in Known(R)
      /\ deltaTick' \in {deltaTick, msg.tick, -1}
  <2>1. \/ /\ forceWait > 0 /\ KeepWaiting
        \/ deltaTick' = -1
        \/ /\ forceWait > 0 /\ msg.tick = forceWait
           /\ Acknowledge(msg.tick)
        \/ /\ forceWait <= 0 /\ deltaTick = -1 /\ KeepWaiting
        \/ /\ forceWait <= 0 /\ deltaTick # -1 /\ msg.tick # -1 /\ deltaTick <= msg.tick
           /\ Acknowledge(msg.tick)
    BY <1>1, TickRead DEF Acknowledge
  <2>2. CASE forceWait > 0 /\ KeepWaiting
    BY <1>6, <2>2 DEF KeepWaiting
  <2>3. CASE deltaTick' = -1
    BY <2>3
  <2>4. CASE forceWait > 0 /\ msg.tick = forceWait /\ Acknowledge(msg.tick)
    <3>1. fullRead <= forceWait
      BY <2>4 DEF Awaiting
    <3> QED BY <1>6, <1>7, <2>4, <3>1 DEF Acknowledge
  <2>5. CASE forceWait <= 0 /\ deltaTick = -1 /\ KeepWaiting
    BY <2>5 DEF KeepWaiting
  <2>6. CASE /\ forceWait <= 0 /\ deltaTick # -1 /\ msg.tick # -1 /\ deltaTick <= msg.tick
             /\ Acknowledge(msg.tick)
    <3>1. deltaTick' = msg.tick
      BY <2>6 DEF Acknowledge
    <3>2. ASSUME clDeltaTick # -1 PROVE msg.tick \in Known(R)
      <4>1. deltaTick \in Known(R)
        BY <1>0, <2>6, <3>2 DEF FromKnown
      <4>2. fullRead <= deltaTick
        BY <1>6, <4>1 DEF Known
      <4> QED BY <1>6, <1>7, <2>6, <3>2, <4>2
    <3> QED BY <3>1, <3>2
  <2> QED BY <2>1, <2>2, <2>3, <2>4, <2>5, <2>6
<1>9. FromKnown(R)'
  <2>1. ASSUME NEW i \in 1 .. Len(toServer'),
               clDeltaTick # -1, toServer'[i].tick >= fullRead, toServer'[i].tick # -1
        PROVE  toServer'[i].tick \in Known(R)
    BY <1>0, <1>3, <2>1 DEF FromKnown
  <2>2. ASSUME NEW i \in 1 .. Len(toClient), toClient[i].delta
        PROVE  /\ clDeltaTick # -1 => toClient[i].from \in Known(R)
               /\ deltaTick' # -1 => toClient[i].from <= deltaTick'
               /\ \A j \in 1 .. Len(toServer') :
                    toServer'[j].tick # -1 => toClient[i].from <= toServer'[j].tick
               /\ \A j \in 1 .. Len(toClient) :
                    i < j /\ toClient[j].delta => toClient[i].from <= toClient[j].from
    <3>1. /\ clDeltaTick # -1 => toClient[i].from \in Known(R)
          /\ deltaTick # -1 => toClient[i].from <= deltaTick
          /\ \A j \in 1 .. Len(toServer) :
               toServer[j].tick # -1 => toClient[i].from <= toServer[j].tick
          /\ \A j \in 1 .. Len(toClient) :
               i < j /\ toClient[j].delta => toClient[i].from <= toClient[j].from
      BY <1>0, <2>2 DEF FromKnown
    <3>2. msg.tick # -1 => toClient[i].from <= msg.tick
      BY <1>1, <1>3, <3>1
    <3> QED BY <1>3, <1>8, <3>1, <3>2
  <2> QED BY <1>2, <1>5, <1>8, <2>1, <2>2 DEF FromKnown
<1> QED BY <1>0, <1>2, <1>4, <1>9 DEF Follows

\* The client acknowledges the newest snapshot it has.
LEMMA FollowsClientSends ==
  ASSUME IInv, NEW H, NEW R, NEW L, NEW n, Follows(H, R, L, n),
         ServerReadBaselineAck \/ ClientSendTick \/ ForceFullUpdate \/ UNCHANGED vars
  PROVE  Follows(H, R, L, n)'
<1>0. View(H) /\ SlotsKnown(H) /\ Reads(H, R, L, n) /\ FromKnown(R) /\ ~clError
  BY DEF Follows
<1>1. /\ UNCHANGED <<tick, slots, toClient, clFrames, clEnts, clActive, clError,
                     fullRead, shown, forceWait, deltaTick>>
      /\ clDeltaTick' \in {-1, clDeltaTick}
  BY DEF ServerReadBaselineAck, ClientSendTick, ForceFullUpdate, vars, worldVars,
         serverVars, clientVars
<1>2. View(H)'
  BY <1>0, ViewServerReadBaselineAck, ViewClientSends
<1>3. SlotsKnown(H)' /\ Reads(H, R, L, n)'
  BY <1>0, <1>1, ReadsKept DEF SlotsKnown
<1>4. Known(R)' = Known(R)
  BY <1>1 DEF Known
<1>5. /\ clDeltaTick' # -1 => clDeltaTick' = clDeltaTick
      /\ \/ toServer' = toServer
         \/ ClientSendTick
  BY DEF ServerReadBaselineAck, ClientSendTick, ForceFullUpdate, vars, clientVars
<1>6. CASE toServer' = toServer
  <2>1. FromKnown(R)'
    BY <1>0, <1>1, <1>4, <1>5, <1>6 DEF FromKnown
  <2> QED BY <1>0, <1>1, <1>2, <1>3, <2>1 DEF Follows
<1>7. CASE ClientSendTick
  <2>1. /\ clActive /\ clDeltaTick' = clDeltaTick
        /\ \A i \in 1 .. Len(toServer') :
              \/ i \in 1 .. Len(toServer) /\ toServer'[i] = toServer[i]
              \/ toServer'[i].tick = clDeltaTick
    BY <1>7, SendIndex
  <2>2. clDeltaTick # -1 => clDeltaTick = n /\ n \in Known(R)
    BY <1>0, <2>1 DEF Reads, ReadUpTo, Known
  <2>3. \A i \in 1 .. Len(toServer') :
          clDeltaTick # -1 /\ toServer'[i].tick >= fullRead /\ toServer'[i].tick # -1
            => toServer'[i].tick \in Known(R)
    BY <1>0, <2>1, <2>2 DEF FromKnown
  <2>4. \A u \in R : u <= n
    BY <1>0, ReadTypes
  <2>5. ASSUME NEW i \in 1 .. Len(toClient), toClient[i].delta,
               NEW j \in 1 .. Len(toServer'), toServer'[j].tick # -1
        PROVE  toClient[i].from <= toServer'[j].tick
    <3>1. CASE j \in 1 .. Len(toServer) /\ toServer'[j] = toServer[j]
      BY <1>0, <2>5, <3>1 DEF FromKnown
    <3>2. CASE toServer'[j].tick = clDeltaTick
      <4>1. clDeltaTick = n
        BY <2>2, <2>5, <3>2
      <4>2. toClient[i].from \in R
        BY <1>0, <2>5, <3>2 DEF FromKnown, Known
      <4> QED BY <2>4, <3>2, <4>1, <4>2
    <3> QED BY <2>1, <3>1, <3>2
  <2>6. FromKnown(R)'
    BY <1>0, <1>1, <1>4, <2>1, <2>3, <2>5 DEF FromKnown
  <2> QED BY <1>0, <1>1, <1>2, <1>3, <2>6 DEF Follows
<1> QED BY <1>5, <1>6, <1>7

\* The client can read the update that comes next.
LEMMA HeadReadable ==
  ASSUME IInv, NEW H, NEW R, NEW L, NEW n, Follows(H, R, L, n),
         1 \in 1 .. Len(toClient), NEW m, m = toClient[1], m.delta, clDeltaTick # -1
  PROVE  /\ ~Unreadable(m) /\ m.from \in Known(R) /\ m.from \in 1 .. n
         /\ clFrames[m.from] = DOMAIN H[m.from].pack
         /\ m.tick \in 1 .. tick /\ n < m.tick
         /\ m.baseline \in 0 .. 1
         /\ m.entries = WriteEntities(H[m.from], H[m.tick], clBaselines[m.baseline])
         /\ m.deletions = Deletions(H[m.from], H[m.tick])
         /\ m.shown = Shown(H[m.tick])
<1>0. View(H) /\ Reads(H, R, L, n) /\ FromKnown(R)
  BY DEF Follows
<1>1. IsUpdate(H, m)
  BY <1>0 DEF View, Written
<1>2. m.tick \in 1 .. tick /\ n < m.tick
  BY <1>0, ReadTypes DEF Reads, ReadUpTo
<1>3. m.from \in Known(R)
  BY <1>0 DEF FromKnown
<1>4. m.from \in 1 .. n /\ clFrames[m.from] = DOMAIN H[m.from].pack
  BY <1>0, <1>3 DEF Known, Reads, ReadUpTo
<1>5. m.entries = WriteEntities(H[m.from], H[m.tick], clBaselines[m.baseline])
  BY <1>0 DEF View, Encoded
<1>6. Changed(m.entries) = DeltaEnts(H[m.from], H[m.tick])
  BY <1>5, WrittenEntries, EntryKinds
<1>7. DeltaEnts(H[m.from], H[m.tick]) \subseteq DOMAIN clEnts
  <2> SUFFICES ASSUME NEW e \in DeltaEnts(H[m.from], H[m.tick]) PROVE e \in DOMAIN clEnts
    OBVIOUS
  <2>1. e \in DOMAIN H[m.tick].pack \ EnterPVS(H[m.from], H[m.tick])
    BY DEF DeltaEnts
  <2>2. m.from \in R
    BY <1>3 DEF Known
  <2> QED BY <1>0, <1>2, <2>1, <2>2, EntityHeld, ZenonT(30)
<1>8. ~Unreadable(m)
  BY <1>3, <1>6, <1>7 DEF Unreadable, Known
<1> QED BY <1>1, <1>2, <1>3, <1>4, <1>5, <1>8 DEF IsUpdate

\* What the updates that are left are relative to, when one more was read.
LEMMA FollowsIgnores ==
  ASSUME IInv, Awaiting, ClientIgnoresDelta, NEW H, NEW R, NEW L, NEW n, Follows(H, R, L, n)
  PROVE  Follows(H, R, L, n)'
<1>0. View(H) /\ SlotsKnown(H) /\ Reads(H, R, L, n) /\ FromKnown(R) /\ ~clError
  BY DEF Follows
<1>1. /\ ClientRead /\ clDeltaTick = -1
      /\ UNCHANGED <<clDeltaTick, clFrames, clEnts, clActive, clError, fullRead, shown>>
  BY DEF ClientIgnoresDelta
<1>2. /\ Len(toClient') = Len(toClient) - 1 /\ Len(toClient) \in Nat
      /\ \A i \in 1 .. Len(toClient') :
           /\ toClient'[i] = toClient[i + 1]
           /\ i \in Nat /\ i + 1 \in 1 .. Len(toClient)
      /\ UNCHANGED <<tick, slots, deltaTick, forceWait, toServer>>
  BY <1>1, ReadIndex
<1>3. View(H)'
  BY <1>0, ViewClientReads DEF ClientReads
<1>4. SlotsKnown(H)'
  BY <1>0, <1>2 DEF SlotsKnown
<1>5. Reads(H, R, L, n)'
  <2>1. Held(H, R, L)' /\ LastShown(H, R, L)'
    BY <1>0, <1>1 DEF Reads, Held, LastShown
  <2>2. \A i \in 1 .. Len(toClient') : n < toClient'[i].tick
    BY <1>0, <1>2 DEF Reads, ReadUpTo
  <2>3. ReadUpTo(H, R, n)'
    BY <1>0, <1>1, <1>2, <2>2 DEF Reads, ReadUpTo
  <2> QED BY <1>0, <2>1, <2>3 DEF Reads
<1>6. FromKnown(R)'
  <2>1. ASSUME NEW i \in 1 .. Len(toClient'), toClient'[i].delta
        PROVE  /\ deltaTick # -1 => toClient'[i].from <= deltaTick
               /\ \A j \in 1 .. Len(toServer) :
                    toServer[j].tick # -1 => toClient'[i].from <= toServer[j].tick
               /\ \A j \in 1 .. Len(toClient') :
                    i < j /\ toClient'[j].delta => toClient'[i].from <= toClient'[j].from
    <3>1. i + 1 \in 1 .. Len(toClient) /\ toClient'[i] = toClient[i + 1]
      BY <1>2
    <3>2. \A j \in 1 .. Len(toClient) :
            i + 1 < j /\ toClient[j].delta => toClient[i + 1].from <= toClient[j].from
      BY <1>0, <2>1, <3>1 DEF FromKnown
    <3>3. \A j \in 1 .. Len(toClient') :
            i < j => i + 1 < j + 1 /\ j + 1 \in 1 .. Len(toClient) /\ toClient'[j] = toClient[j + 1]
      BY <1>2
    <3> QED BY <1>0, <2>1, <3>1, <3>2, <3>3 DEF FromKnown
  <2> QED BY <1>0, <1>1, <1>2, <2>1 DEF FromKnown, Known
<1> QED BY <1>0, <1>1, <1>3, <1>4, <1>5, <1>6 DEF Follows

\* What the client has of every entity after a delta.
LEMMA HeldAfterDelta ==
  ASSUME IInv, NEW H, NEW R, NEW L, NEW n, Follows(H, R, L, n),
         NEW f \in R, NEW t \in 1 .. tick, n < t,
         NEW b, PerEdict(b, PropValues),
         NEW deletions, deletions = Deletions(H[f], H[t]),
         clEnts' = ReadEntities(clEnts, WriteEntities(H[f], H[t], b), deletions, b),
         NEW Q, Q = R \cup {t},
         NEW M, M = [e \in Edicts |-> IF e \in DOMAIN H[t].pack THEN t ELSE L[e]]
  PROVE  Held(H, Q, M)'
<1>0. View(H) /\ SlotsKnown(H) /\ Reads(H, R, L, n) /\ History(H)
  BY DEF Follows, View
<1>1. /\ tick \in Nat /\ n \in Nat /\ t \in Nat /\ f \in 1 .. tick /\ f < t
      /\ \A u \in R : u \in 1 .. tick /\ u \in Nat /\ u < t
      /\ \A e \in Edicts : L[e] \in 0 .. n
      /\ \A u \in 1 .. tick : IsFrame(H[u]) /\ H[u].tick = u
      /\ \A u \in 1 .. tick : \A e \in DOMAIN H[u].pack :
           e \in Edicts /\ H[u].serial[e] # 0 /\ H[u].pack[e].val \in PropValues
  BY <1>0, ReadTypes
<1>2. ASSUME NEW e, e \notin deletions,
             e \in DOMAIN clEnts \/ e \in EnterPVS(H[f], H[t]),
             e \in DOMAIN H[t].pack \/ H[t].serial[e] # 0
      PROVE  /\ e \in DOMAIN clEnts'
             /\ e \in EnterPVS(H[f], H[t]) =>
                  clEnts'[e] = [serial |-> H[t].serial[e], val |-> H[t].pack[e].val]
             /\ e \in DOMAIN H[t].pack \ EnterPVS(H[f], H[t]) =>
                  \A old \in PropValues :
                    /\ clEnts[e] = [serial |-> H[t].serial[e], val |-> old]
                    /\ \A p \in Props : H[t].pack[e].chg[p] <= H[f].tick
                                          => H[t].pack[e].val[p] = old[p]
                    => clEnts'[e] = [serial |-> H[t].serial[e], val |-> H[t].pack[e].val]
             /\ e \notin DOMAIN H[t].pack => clEnts'[e] = clEnts[e]
  <2>1. H[f].tick \in Int /\ IsFrame(H[t])
    BY <1>1
  <2> QED BY <1>2, <2>1, EntityRead
<1>3. ASSUME NEW e \in DOMAIN H[t].pack
      PROVE  /\ e \in DOMAIN clEnts'
             /\ clEnts'[e] = [serial |-> H[t].serial[e], val |-> H[t].pack[e].val]
  <2>1. e \notin deletions
    BY <1>0, <1>1, ShownEntity
  <2>2. CASE e \in EnterPVS(H[f], H[t])
    BY <1>2, <2>1, <2>2
  <2>3. CASE e \notin EnterPVS(H[f], H[t])
    <3>1. /\ e \in DOMAIN clEnts
          /\ H[L[e]].pack[e].val \in PropValues
          /\ clEnts[e] = [serial |-> H[t].serial[e], val |-> H[L[e]].pack[e].val]
          /\ \A p \in Props : H[t].pack[e].chg[p] <= f
                                => H[t].pack[e].val[p] = H[L[e]].pack[e].val[p]
      BY <1>0, <2>3, EntityHeld, SMTT(30)
    <3>3. H[f].tick = f
      BY <1>1
    <3> QED BY <1>2, <2>1, <2>3, <3>1, <3>3
  <2> QED BY <2>2, <2>3
<1>4. ASSUME NEW e \in Edicts, e \notin DOMAIN H[t].pack, L[e] # 0,
             \A v \in Q : L[e] < v => H[v].serial[e] = H[L[e]].serial[e]
      PROVE  /\ e \in DOMAIN clEnts'
             /\ clEnts'[e] = [serial |-> H[L[e]].serial[e], val |-> H[L[e]].pack[e].val]
  <2>1. L[e] \in R /\ e \in DOMAIN H[L[e]].pack /\ L[e] \in 1 .. tick /\ L[e] < t
    BY <1>0, <1>1, <1>4 DEF Reads, Held
  <2>2. H[t].serial[e] = H[L[e]].serial[e] /\ H[t].serial[e] # 0
    BY <1>1, <1>4, <2>1
  <2>3. e \notin deletions
    BY <1>0, <2>1, <2>2, LivingEntity
  <2>4. /\ e \in DOMAIN clEnts
        /\ clEnts[e] = [serial |-> H[L[e]].serial[e], val |-> H[L[e]].pack[e].val]
    BY <1>0, <1>4 DEF Reads, Held
  <2> QED BY <1>2, <1>4, <2>2, <2>3, <2>4
<1> SUFFICES ASSUME NEW e \in Edicts, M[e] # 0
             PROVE  /\ M[e] \in Q /\ e \in DOMAIN H[M[e]].pack
                    /\ (\A v \in Q : M[e] < v => H[v].serial[e] = H[M[e]].serial[e]) =>
                         /\ e \in DOMAIN clEnts'
                         /\ clEnts'[e] = [serial |-> H[M[e]].serial[e],
                                          val |-> H[M[e]].pack[e].val]
  BY DEF Held
<1>5. CASE e \in DOMAIN H[t].pack
  BY <1>3, <1>5
<1>6. CASE e \notin DOMAIN H[t].pack
  <2>1. M[e] = L[e]
    BY <1>6
  <2>2. L[e] \in R /\ e \in DOMAIN H[L[e]].pack
    BY <1>0, <2>1 DEF Reads, Held
  <2> QED BY <1>4, <1>6, <2>1, <2>2
<1> QED BY <1>5, <1>6

\* Reading a delta: the snapshot it is relative to is there, and the entities it
\* leaves alone are as that snapshot, or a later one, showed them.
LEMMA FollowsReadsDelta ==
  ASSUME IInv, Awaiting, ClientReadsDelta, NEW H, NEW R, NEW L, NEW n, Follows(H, R, L, n),
         NEW t, t = toClient[1].tick, NEW Q, Q = R \cup {t},
         NEW M, M = [e \in Edicts |-> IF e \in DOMAIN H[t].pack THEN t ELSE L[e]]
  PROVE  Follows(H, Q, M, t)'
<1>0. View(H) /\ SlotsKnown(H) /\ Reads(H, R, L, n) /\ FromKnown(R) /\ ~clError
  BY DEF Follows
<1>1. PICK m : m = toClient[1]
  OBVIOUS
<1>2. ClientRead /\ m.delta /\ clDeltaTick # -1 /\ fullRead' = fullRead
  BY <1>1, ReadIndex DEF ClientReadsDelta
<1>3. /\ 1 \in 1 .. Len(toClient) /\ Head(toClient) = m
      /\ Len(toClient') = Len(toClient) - 1 /\ Len(toClient) \in Nat
      /\ \A i \in 1 .. Len(toClient') :
           /\ toClient'[i] = toClient[i + 1]
           /\ i \in Nat /\ i + 1 \in 1 .. Len(toClient) /\ i + 1 \in 2 .. Len(toClient)
      /\ UNCHANGED <<tick, slots, deltaTick, forceWait, toServer>>
  BY <1>1, <1>2, ReadIndex
<1>4. PICK f : f = m.from
  OBVIOUS
<1>5. /\ ~Unreadable(m) /\ f \in Known(R) /\ f \in R /\ f \in 1 .. n
      /\ clFrames[f] = DOMAIN H[f].pack
      /\ t \in 1 .. tick /\ n < t
      /\ m.baseline \in 0 .. 1
      /\ m.entries = WriteEntities(H[f], H[t], clBaselines[m.baseline])
      /\ m.deletions = Deletions(H[f], H[t])
      /\ m.shown = Shown(H[t])
  BY <1>1, <1>2, <1>3, <1>4, HeadReadable DEF Known
<1>6. /\ ProcessPacketEntities(m, clFrames[f], clEnts, clBaselines) /\ clError' = clError
  BY <1>3, <1>4, <1>5 DEF ClientReadsDelta
<1>7. PICK b : b = clBaselines[m.baseline]
  OBVIOUS
<1>8. PerEdict(b, PropValues)
  BY <1>0, <1>5, <1>7 DEF View, BaselineTypes
<1>9. /\ clEnts' = ReadEntities(clEnts, WriteEntities(H[f], H[t], b), m.deletions, b)
      /\ clDeltaTick' = t /\ clActive' = TRUE /\ shown' = Shown(H[t])
      /\ DOMAIN clFrames' = {k \in DOMAIN clFrames : k >= f} \cup {t}
      /\ \A k \in DOMAIN clFrames' :
           clFrames'[k] = IF k = t THEN DOMAIN H[t].pack ELSE clFrames[k]
  <2>1. b = (IF m.delta THEN clBaselines[m.baseline] ELSE Nothing)
    BY <1>2, <1>7
  <2>2. clEnts' = ReadEntities(clEnts, m.entries, m.deletions, b)
    BY <1>6, <2>1 DEF ProcessPacketEntities
  <2>3. clDeltaTick' = t /\ clActive' = TRUE /\ shown' = Shown(H[t])
    BY <1>1, <1>5, <1>6 DEF ProcessPacketEntities
  <2>4. PICK kept : kept = DeleteClientFrames(clFrames, f)
    OBVIOUS
  <2>5. clFrames' = [k \in DOMAIN kept \cup {t} |->
                       IF k = t THEN Transmitted(clFrames[f], m.entries) ELSE kept[k]]
    BY <1>1, <1>2, <1>4, <1>6, <2>4 DEF ProcessPacketEntities, OldestKept
  <2>6. /\ DOMAIN kept = {k \in DOMAIN clFrames : k >= f}
        /\ \A k \in DOMAIN kept : kept[k] = clFrames[k]
    BY <2>4 DEF DeleteClientFrames, Restrict
  <2>7. Transmitted(clFrames[f], m.entries) = DOMAIN H[t].pack
    BY <1>5, UpdateTransmits
  <2> QED BY <1>5, <1>7, <2>2, <2>3, <2>5, <2>6, <2>7
<1>10. View(H)'
  BY <1>0, ViewClientReads DEF ClientReads
<1>11. SlotsKnown(H)'
  BY <1>0, <1>3 DEF SlotsKnown
<1>12. Held(H, Q, M)'
  BY <1>5, <1>8, <1>9, HeldAfterDelta
<1>13. /\ tick \in Nat /\ n \in Nat /\ fullRead \in Int /\ f \in Nat /\ t \in Nat
       /\ \A u \in R : u \in 1 .. n /\ u \in Nat /\ u < t /\ fullRead <= u
       /\ \A e \in Edicts : L[e] \in 0 .. n
  BY <1>0, <1>5, ReadTypes
<1>14. LastShown(H, Q, M)'
  <2> SUFFICES ASSUME NEW s \in Q, NEW e \in DOMAIN H[s].pack PROVE s <= M[e]
    BY DEF LastShown
  <2>1. e \in Edicts /\ s <= t
    <3>1. s \in 1 .. tick
      BY <1>5, <1>13
    <3>2. e \in Edicts
      BY <1>0, <3>1, ReadTypes
    <3> QED BY <1>13, <3>2
  <2>2. CASE e \in DOMAIN H[t].pack
    BY <2>1, <2>2
  <2>3. CASE e \notin DOMAIN H[t].pack
    BY <1>0, <2>1, <2>3 DEF Reads, LastShown
  <2> QED BY <2>2, <2>3
<1>15. ReadUpTo(H, Q, t)'
  <2>1. t \in 0 .. tick' /\ Q \subseteq 1 .. t
    <3>1. t \in 0 .. tick'
      BY <1>3, <1>5, <1>13
    <3>2. \A u \in R : u \in 1 .. t
      BY <1>13
    <3>3. t \in 1 .. t
      BY <1>5, <1>13
    <3> QED BY <3>1, <3>2, <3>3
  <2>2. \A k \in DOMAIN clFrames' : k \in 1 .. t /\ clFrames'[k] = DOMAIN H[k].pack
    <3>1. \A k \in DOMAIN clFrames : k \in 1 .. n /\ clFrames[k] = DOMAIN H[k].pack
      BY <1>0 DEF Reads, ReadUpTo
    <3> QED BY <1>5, <1>9, <1>13, <3>1
  <2>3. \A u \in Q : fullRead' <= u
    <3>1. n \in R
      BY <1>0, <1>2 DEF Reads, ReadUpTo
    <3> QED BY <1>2, <1>5, <1>13, <3>1
  <2>4. t \in Q /\ t \in DOMAIN clFrames'
    BY <1>9
  <2>5. \A i \in 1 .. Len(toClient') : t < toClient'[i].tick
    BY <1>0, <1>1, <1>2, ReadUpdates
  <2> QED BY <1>9, <2>1, <2>2, <2>3, <2>4, <2>5 DEF ReadUpTo
<1>16. M \in [Edicts -> 0 .. t]
  BY <1>5, <1>13
<1>17. FromKnown(Q)'
  <2>1. \A k \in Known(R) : f <= k => k \in Known(Q)'
    BY <1>9, <1>13 DEF Known
  <2>2. forceWait <= 0 /\ deltaTick # -1 => deltaTick \in Known(Q)'
    <3>1. deltaTick # -1 => f <= deltaTick
      BY <1>0, <1>1, <1>2, <1>3, <1>4 DEF FromKnown
    <3> QED BY <1>0, <1>2, <2>1, <3>1 DEF FromKnown
  <2>3. \A i \in 1 .. Len(toServer) :
          toServer[i].tick >= fullRead /\ toServer[i].tick # -1
            => toServer[i].tick \in Known(Q)'
    <3>1. \A i \in 1 .. Len(toServer) : toServer[i].tick # -1 => f <= toServer[i].tick
      BY <1>0, <1>1, <1>2, <1>3, <1>4 DEF FromKnown
    <3> QED BY <1>0, <1>2, <2>1, <3>1 DEF FromKnown
  <2>4. ASSUME NEW i \in 1 .. Len(toClient'), toClient'[i].delta
        PROVE  /\ toClient'[i].from \in Known(Q)'
               /\ deltaTick # -1 => toClient'[i].from <= deltaTick
               /\ \A j \in 1 .. Len(toServer) :
                    toServer[j].tick # -1 => toClient'[i].from <= toServer[j].tick
               /\ \A j \in 1 .. Len(toClient') :
                    i < j /\ toClient'[j].delta => toClient'[i].from <= toClient'[j].from
    <3>1. /\ i + 1 \in 1 .. Len(toClient) /\ toClient'[i] = toClient[i + 1] /\ 1 < i + 1
      BY <1>3
    <3>2. /\ toClient[i + 1].from \in Known(R)
          /\ deltaTick # -1 => toClient[i + 1].from <= deltaTick
          /\ \A j \in 1 .. Len(toServer) :
               toServer[j].tick # -1 => toClient[i + 1].from <= toServer[j].tick
          /\ \A j \in 1 .. Len(toClient) :
               i + 1 < j /\ toClient[j].delta => toClient[i + 1].from <= toClient[j].from
      BY <1>0, <1>2, <2>4, <3>1 DEF FromKnown
    <3>3. f <= toClient[i + 1].from
      BY <1>0, <1>1, <1>2, <1>3, <1>4, <2>4, <3>1 DEF FromKnown
    <3>4. \A j \in 1 .. Len(toClient') :
            i < j => i + 1 < j + 1 /\ j + 1 \in 1 .. Len(toClient) /\ toClient'[j] = toClient[j + 1]
      BY <1>3
    <3> QED BY <2>1, <3>1, <3>2, <3>3, <3>4
  <2> QED BY <1>2, <1>3, <2>2, <2>3, <2>4 DEF FromKnown
<1> QED BY <1>0, <1>6, <1>10, <1>11, <1>12, <1>14, <1>15, <1>16, <1>17 DEF Follows, Reads

\* A full update leaves the client with what it shows.
LEMMA HeldAfterFull ==
  ASSUME IInv, NEW H, View(H), NEW t \in 1 .. tick,
         clEnts' = ReadEntities(Nothing, WriteEntities(NoFrame, H[t], Nothing), {}, Nothing),
         NEW M, M = [e \in Edicts |-> IF e \in DOMAIN H[t].pack THEN t ELSE 0]
  PROVE  Held(H, {t}, M)'
<1>1. IsFrame(H[t]) /\ PerEdict(Nothing, PropValues) /\ NoFrame.tick \in Int /\ t \in Nat
  BY ViewTypes DEF PerEdict, Nothing, NoFrame
<1>2. EnterPVS(NoFrame, H[t]) = DOMAIN H[t].pack
  BY DEF EnterPVS, NoFrame, Nothing
<1>3. ASSUME NEW e \in EnterPVS(NoFrame, H[t])
      PROVE  /\ e \in DOMAIN clEnts'
             /\ clEnts'[e] = [serial |-> H[t].serial[e], val |-> H[t].pack[e].val]
  BY <1>1, <1>2, <1>3, EntityRead
<1> QED BY <1>1, <1>2, <1>3 DEF Held

\* Reading a full update: only what it shows is known.
LEMMA FollowsReadsFull ==
  ASSUME IInv, Awaiting, ClientReadsFull, NEW H, NEW R, NEW L, NEW n, Follows(H, R, L, n),
         NEW t, t = toClient[1].tick,
         NEW M, M = [e \in Edicts |-> IF e \in DOMAIN H[t].pack THEN t ELSE 0]
  PROVE  Follows(H, {t}, M, t)'
<1>0. View(H) /\ SlotsKnown(H) /\ Reads(H, R, L, n) /\ ~clError
  BY DEF Follows
<1>1. PICK m : m = toClient[1]
  OBVIOUS
<1>2. /\ 1 \in 1 .. Len(toClient) /\ Head(toClient) = m
      /\ Len(toClient') = Len(toClient) - 1 /\ Len(toClient) \in Nat
      /\ UNCHANGED <<tick, slots, deltaTick, forceWait, toServer>>
  BY <1>1, ReadIndex DEF ClientReadsFull
<1>3. /\ ~m.delta /\ fullRead' = t /\ clError' = clError
      /\ ProcessPacketEntities(m, {}, Nothing, [b \in 0 .. 1 |-> Nothing])
  BY <1>1, <1>2 DEF ClientReadsFull
<1>4. 1 .. Len(toClient') = {} /\ forceWait = t
  <2>1. 1 = Len(toClient) /\ forceWait = m.tick
    BY <1>1, <1>2, <1>3 DEF Awaiting
  <2>2. Len(toClient') = 0
    <3>1. Len(toClient) = 1 /\ Len(toClient') = Len(toClient) - 1
      BY <1>2, <2>1
    <3> QED BY ONLY <3>1
  <2> QED BY <1>1, <2>1, <2>2
<1>5. /\ IsUpdate(H, m) /\ t \in 1 .. tick /\ n < t
      /\ t \in Nat /\ n \in Nat /\ tick \in Nat
      /\ \A i \in 1 .. Len(toServer) : toServer[i].tick \in Int /\ toServer[i].tick < t
  <2>1. t \in 1 .. tick /\ n \in Nat /\ tick \in Nat
    BY <1>0, <1>2, ReadTypes
  <2>2. IsUpdate(H, m) /\ n < t
    BY <1>0, <1>1, <1>2 DEF View, Written, Reads, ReadUpTo
  <2>3. \A i \in 1 .. Len(toServer) : toServer[i].tick \in Int /\ toServer[i].tick < t
    BY <1>2, TickTypes DEF IInv, TicksInOrder
  <2> QED BY <2>1, <2>2, <2>3
<1>6. /\ m.entries = WriteEntities(NoFrame, H[t], Nothing)
      /\ m.deletions = {} /\ m.shown = Shown(H[t]) /\ m.baseline = 0
  BY <1>1, <1>3, <1>5 DEF IsUpdate
<1>7. /\ clEnts' = ReadEntities(Nothing, WriteEntities(NoFrame, H[t], Nothing), {}, Nothing)
      /\ clDeltaTick' = t /\ clActive' = TRUE /\ shown' = Shown(H[t])
      /\ DOMAIN clFrames' \subseteq DOMAIN clFrames \cup {t}
      /\ t \in DOMAIN clFrames'
      /\ \A k \in DOMAIN clFrames' :
           clFrames'[k] = IF k = t THEN DOMAIN H[t].pack ELSE clFrames[k]
  <2>1. clEnts' = ReadEntities(Nothing, m.entries, m.deletions, Nothing)
    BY <1>3 DEF ProcessPacketEntities
  <2>2. clDeltaTick' = t /\ clActive' = TRUE /\ shown' = Shown(H[t])
    BY <1>1, <1>3, <1>6 DEF ProcessPacketEntities
  <2>3. PICK kept : kept = DeleteClientFrames(clFrames, OldestKept(m))
    OBVIOUS
  <2>4. clFrames' = [k \in DOMAIN kept \cup {t} |->
                       IF k = t THEN Transmitted({}, m.entries) ELSE kept[k]]
    BY <1>1, <1>3, <2>3 DEF ProcessPacketEntities
  <2>5. /\ DOMAIN kept \subseteq DOMAIN clFrames
        /\ \A k \in DOMAIN kept : kept[k] = clFrames[k]
    BY <2>3 DEF DeleteClientFrames, Restrict
  <2>6. Transmitted({}, m.entries) = DOMAIN H[t].pack
    <3>1. DOMAIN NoFrame.pack = {}
      BY DEF NoFrame, Nothing
    <3>2. Transmitted(DOMAIN NoFrame.pack, WriteEntities(NoFrame, H[t], Nothing))
            = DOMAIN H[t].pack
      BY UpdateTransmits
    <3> QED BY <1>6, <3>1, <3>2
  <2> QED BY <1>6, <2>1, <2>2, <2>4, <2>5, <2>6
<1>8. View(H)'
  BY <1>0, ViewClientReads DEF ClientReads
<1>9. SlotsKnown(H)'
  BY <1>0, <1>2 DEF SlotsKnown
<1>10. Held(H, {t}, M)'
  BY <1>0, <1>5, <1>7, HeldAfterFull
<1>11. LastShown(H, {t}, M)'
  <2>1. \A e \in DOMAIN H[t].pack : e \in Edicts
    BY <1>0, <1>5, ReadTypes
  <2> QED BY <1>5, <2>1 DEF LastShown
<1>12. ReadUpTo(H, {t}, t)'
  <2>1. \A k \in DOMAIN clFrames' : k \in 1 .. t /\ clFrames'[k] = DOMAIN H[k].pack
    <3>1. \A k \in DOMAIN clFrames : k \in 1 .. n /\ clFrames[k] = DOMAIN H[k].pack
      BY <1>0 DEF Reads, ReadUpTo
    <3> QED BY <1>5, <1>7, <3>1
  <2>2. t \in 0 .. tick' /\ {t} \subseteq 1 .. t /\ fullRead' <= t
    BY <1>2, <1>3, <1>5
  <2> QED BY <1>4, <1>7, <2>1, <2>2 DEF ReadUpTo
<1>13. M \in [Edicts -> 0 .. t]
  BY <1>5
<1>14. FromKnown({t})'
  <2>1. forceWait' > 0
    BY <1>2, <1>4, <1>5
  <2>2. \A i \in 1 .. Len(toServer') : ~(toServer'[i].tick >= fullRead')
    BY <1>2, <1>3, <1>5
  <2>3. 1 .. Len(toClient') = {} /\ ~(forceWait' <= 0)
    BY <1>2, <1>4, <1>5
  <2> QED BY <2>2, <2>3 DEF FromKnown
<1> QED BY <1>0, <1>3, <1>8, <1>9, <1>10, <1>11, <1>12, <1>13, <1>14 DEF Follows, Reads

FollowsServer == \E H, R, L, n : Follows(H, R, L, n)

\* Every step keeps what the client has in agreement with the frames made.
LEMMA NextFollows ==
  ASSUME IInv, Awaiting, FollowsServer, [Next]_vars
  PROVE  FollowsServer'
<1>0. PICK H, R, L, n : Follows(H, R, L, n)
  BY DEF FollowsServer
<1>1. Awaiting'
  BY NextAwaiting
<1> SUFFICES \E H2, R2, L2, n2 : Follows(H2, R2, L2, n2)'
  BY DEF FollowsServer
<1>2. ASSUME NEW fates \in [Edicts -> Fates], NEW seen \in SUBSET Edicts,
             NEW vals \in [seen -> PropValues], ServerFrame(fates, vals)
      PROVE  \E H2, R2, L2, n2 : Follows(H2, R2, L2, n2)'
  <2>1. PICK to : to = NewFrame(fates, vals)
    OBVIOUS
  <2>2. PICK G : G = [t \in 1 .. tick + 1 |-> IF t = tick + 1 THEN to ELSE H[t]]
    OBVIOUS
  <2>3. Follows(G, R, L, n)'
    BY <1>0, <1>2, <2>1, <2>2, FollowsServerFrame
  <2> QED BY <2>3
<1>3. ASSUME NEW other \in BOOLEAN, ServerReadTick(other)
      PROVE  Follows(H, R, L, n)'
  BY <1>0, <1>1, <1>3, FollowsServerReadTick
<1>4. CASE ServerReadBaselineAck \/ ClientSendTick \/ ForceFullUpdate \/ UNCHANGED vars
  BY <1>0, <1>4, FollowsClientSends
<1>5. CASE ClientIgnoresDelta
  BY <1>0, <1>5, FollowsIgnores
<1>6. PICK t : t = toClient[1].tick
  OBVIOUS
<1>7. CASE ClientReadsDelta
  <2>1. PICK Q : Q = R \cup {t}
    OBVIOUS
  <2>2. PICK M : M = [e \in Edicts |-> IF e \in DOMAIN H[t].pack THEN t ELSE L[e]]
    OBVIOUS
  <2>3. Follows(H, Q, M, t)'
    BY <1>0, <1>6, <1>7, <2>1, <2>2, FollowsReadsDelta
  <2> QED BY <2>3
<1>8. CASE ClientReadsFull
  <2>1. PICK M : M = [e \in Edicts |-> IF e \in DOMAIN H[t].pack THEN t ELSE 0]
    OBVIOUS
  <2>2. Follows(H, {t}, M, t)'
    BY <1>0, <1>6, <1>8, <2>1, FollowsReadsFull
  <2> QED BY <2>2
<1> QED BY <1>2, <1>3, <1>4, <1>5, <1>7, <1>8 DEF Next, ClientReads

\* What the client has always agrees with the frames the server made.
LEMMA SpecFollows == ASSUME NoLateReuse PROVE Spec => [](IInv /\ FollowsServer)
<1>1. Init => FollowsServer
  <2> SUFFICES ASSUME Init PROVE FollowsServer
    OBVIOUS
  <2>1. PICK H : H = [t \in 1 .. 0 |-> NoFrame]
    OBVIOUS
  <2>2. Follows(H, {}, [e \in Edicts |-> 0], 0)
    BY <2>1, InitFollows
  <2> QED BY <2>2 DEF FollowsServer
<1>2. IInv /\ Awaiting /\ FollowsServer /\ [Next]_vars => FollowsServer'
  BY NextFollows
<1>3. Spec => [](IInv /\ Awaiting)
  BY SpecView, PTL
<1> QED BY <1>1, <1>2, <1>3, PTL DEF Spec

\* The client has the snapshot every update it reads is relative to, and every
\* entity that changes.  By FollowsServer: what the server may acknowledge is a
\* snapshot the client read since its last full update, and keeps.
THEOREM SnapshotClientCanRead == ASSUME NoLateReuse PROVE Spec => []ClientCanRead
<1>1. FollowsServer => ClientCanRead
  BY DEF FollowsServer, Follows, ClientCanRead
<1> QED BY <1>1, SpecFollows, PTL

\* What the client shows is what the server had in its view at the tick of the
\* last update that was read, whichever updates were lost before it.
THEOREM SnapshotShowsServerState == ASSUME NoLateReuse PROVE Spec => []ShowsServerState
<1>1. IInv /\ FollowsServer => ShowsServerState
  <2> SUFFICES ASSUME IInv, NEW H, NEW R, NEW L, NEW n, Follows(H, R, L, n), clActive
               PROVE  /\ \E t \in DOMAIN clFrames : /\ \A u \in DOMAIN clFrames : u <= t
                                                    /\ clFrames[t] = DOMAIN shown
                      /\ DOMAIN shown \subseteq DOMAIN clEnts
                      /\ \A e \in DOMAIN shown : clEnts[e] = shown[e]
    BY DEF FollowsServer, ShowsServerState
  <2>0. View(H) /\ Reads(H, R, L, n)
    BY DEF Follows
  <2>1. /\ n \in R /\ n \in DOMAIN clFrames /\ shown = Shown(H[n])
        /\ \A t \in DOMAIN clFrames : t \in 1 .. n /\ clFrames[t] = DOMAIN H[t].pack
    BY <2>0 DEF Reads, ReadUpTo
  <2>2. /\ n \in Nat /\ n \in 1 .. tick /\ \A u \in R : u \in 1 .. n
        /\ \A e \in DOMAIN H[n].pack : e \in Edicts
        /\ \A e \in Edicts : L[e] \in 0 .. n
    BY <2>0, <2>1, ReadTypes
  <2>3. DOMAIN shown = DOMAIN H[n].pack
    BY <2>1 DEF Shown
  <2>4. \A u \in DOMAIN clFrames : u <= n
    BY <2>1, <2>2
  <2>5. ASSUME NEW e \in DOMAIN H[n].pack
        PROVE  e \in DOMAIN clEnts /\ clEnts[e] = shown[e]
    <3>1. L[e] = n /\ n # 0 /\ e \in Edicts
      <4>1. n <= L[e]
        BY <2>0, <2>1 DEF Reads, LastShown
      <4> QED BY <2>2, <4>1
    <3>2. \A v \in R : ~(n < v)
      BY <2>2
    <3>3. /\ e \in DOMAIN clEnts
          /\ clEnts[e] = [serial |-> H[n].serial[e], val |-> H[n].pack[e].val]
      BY <2>0, <3>1, <3>2 DEF Reads, Held
    <3> QED BY <2>1, <3>3 DEF Shown
  <2> QED BY <2>1, <2>3, <2>4, <2>5
<1> QED BY <1>1, SpecFollows, PTL

\* An update never deletes at its end an entity it shows: the Assert of
\* SV_WriteDeletions.
THEOREM SnapshotDeletedNotTransmitted == ASSUME NoLateReuse PROVE Spec => []DeletedNotTransmitted
<1>1. IInv /\ FollowsServer => DeletedNotTransmitted
  <2> SUFFICES ASSUME IInv, NEW H, NEW R, NEW L, NEW n, Follows(H, R, L, n),
                      NEW i \in DOMAIN toClient
               PROVE  toClient[i].deletions \cap DOMAIN toClient[i].shown = {}
    BY DEF FollowsServer, DeletedNotTransmitted
  <2>0. View(H) /\ History(H) /\ SlotsKnown(H)
    BY DEF Follows, View
  <2>1. DOMAIN toClient = 1 .. Len(toClient)
    BY DEF IInv, Queues
  <2>2. PICK m : m = toClient[i]
    OBVIOUS
  <2>3. IsUpdate(H, m) /\ DOMAIN H = 1 .. tick
    BY <2>0, <2>1, <2>2, ViewTypes DEF View, Written
  <2>4. DOMAIN m.shown = DOMAIN H[m.tick].pack
    BY <2>3 DEF IsUpdate, Shown
  <2>5. CASE m.delta
    <3>1. /\ m.from \in 1 .. tick /\ m.tick \in 1 .. tick /\ m.from < m.tick
          /\ m.deletions = Deletions(H[m.from], H[m.tick])
      BY <2>3, <2>5 DEF IsUpdate
    <3>2. \A e \in DOMAIN H[m.tick].pack : e \notin Deletions(H[m.from], H[m.tick])
      BY <2>0, <3>1, ShownEntity
    <3> QED BY <2>2, <2>4, <3>1, <3>2
  <2>6. CASE ~m.delta
    BY <2>2, <2>3, <2>6 DEF IsUpdate
  <2> QED BY <2>5, <2>6
<1> QED BY <1>1, SpecFollows, PTL
=============================================================================
