---------------------------- MODULE EntityDelta ----------------------------
(***************************************************************************)
(* What a snapshot update says and how it is read: the writer of           *)
(* src/engine/sv_ents_write.cpp, the reader of src/engine/client.cpp and   *)
(* src/engine/cl_ents_parse.cpp, as operators.                             *)
(*                                                                         *)
(* A frame is what a snapshot shows one client: the tick, the edict slots  *)
(* in use, the serial number of the entity in every slot (0: no entity),   *)
(* the packed entities in the client's view and the slots whose entity was *)
(* replaced in that tick.  A packed entity has the values of its           *)
(* properties and the tick each of them last changed.  An update from one  *)
(* frame to another has an entry per entity that enters the view, leaves   *)
(* it or changed in it; what has no entry keeps its state.                 *)
(***************************************************************************)
EXTENDS Integers, Functions

CONSTANTS
  Edicts,         \* entity slots
  Props,          \* properties of an entity
  Values,         \* values of a property
  ClassBaseline   \* the value a property has in the baseline of the class

ASSUME EntityDeltaAssumption == ClassBaseline \in Values

Nothing == [e \in {} |-> 0]
NoFrame == [tick |-> -1, slots |-> {}, serial |-> [e \in Edicts |-> 0],
            pack |-> Nothing, deletes |-> {}]

PropValues == [Props -> Values]
Packs == [serial : Nat, val : PropValues, chg : [Props -> Nat]]
PerEdict(f, S) == DOMAIN f \subseteq Edicts /\ f \in [DOMAIN f -> S]
IsFrame(f) ==
  /\ f = [tick |-> f.tick, slots |-> f.slots, serial |-> f.serial,
          pack |-> f.pack, deletes |-> f.deletes]
  /\ f.tick \in Nat /\ f.serial \in [Edicts -> Nat]
  /\ f.slots \subseteq Edicts /\ f.deletes \subseteq Edicts
  /\ PerEdict(f.pack, Packs)
Shown(frame) == [e \in DOMAIN frame.pack |->
                   [serial |-> frame.serial[e], val |-> frame.pack[e].val]]

Overlay(change, val) ==
  [p \in Props |-> IF p \in DOMAIN change THEN change[p] ELSE val[p]]

\* The values an entity that enters the view is encoded against: its own
\* baseline where there is one, that of its class otherwise.
Base(baseline, e) ==
  IF e \in DOMAIN baseline THEN baseline[e] ELSE [p \in Props |-> ClassBaseline]

NeedsExplicitCreate(from, to, e) == from.serial[e] # to.serial[e]
NeedsExplicitDestroy(from, to, e) == to.serial[e] = 0 /\ from.serial[e] # 0

EnterPVS(from, to) ==
  {e \in DOMAIN to.pack :
     e \notin DOMAIN from.pack \/ NeedsExplicitCreate(from, to, e)}
LeavePVS(from, to) == DOMAIN from.pack \ DOMAIN to.pack
\* Mutant: a change one tick after the old snapshot is not sent.
ChangedLater(pack, tick) == {p \in Props : pack.chg[p] > tick + 1}

ChangedProps(pack, tick) == {p \in Props : pack.chg[p] > tick}
OtherProps(pack, base) == {p \in Props : pack.val[p] # base[p]}
DeltaEnts(from, to) ==
  {e \in DOMAIN to.pack \ EnterPVS(from, to) :
     ChangedProps(to.pack[e], from.tick) # {}}

EnterEntry(to, baseline, e) ==
  [kind |-> "enter", serial |-> to.serial[e],
   props |-> Restrict(to.pack[e].val, OtherProps(to.pack[e], Base(baseline, e)))]
LeaveEntry(from, to, e) ==
  [kind |-> "leave", delete |-> NeedsExplicitDestroy(from, to, e)]
DeltaEntry(from, to, e) ==
  [kind |-> "delta",
   props |-> Restrict(to.pack[e].val, ChangedProps(to.pack[e], from.tick))]

Entry(from, to, baseline, e) ==
  CASE e \in EnterPVS(from, to) -> EnterEntry(to, baseline, e)
    [] e \in LeavePVS(from, to) -> LeaveEntry(from, to, e)
    [] OTHER -> DeltaEntry(from, to, e)

WriteEntities(from, to, baseline) ==
  [e \in EnterPVS(from, to) \cup LeavePVS(from, to) \cup DeltaEnts(from, to) |->
     Entry(from, to, baseline, e)]

\* Slots the update deletes at its end.  A slot replaced in this tick is left
\* out when the update creates its new entity, which the writer only sees if
\* the old snapshot has the slot.
Deletions(from, to) ==
  LET flagged == {e \in LeavePVS(from, to) : NeedsExplicitDestroy(from, to, e)}
      created == {e \in DOMAIN to.pack \cap from.slots :
                    NeedsExplicitCreate(from, to, e)}
      gone == {e \in Edicts : NeedsExplicitDestroy(from, to, e)}
  IN  (gone \ flagged) \cup (to.deletes \ (created \cup gone))

\* SendTable_WriteAllDeltaProps wrote something: u.m_nFullProps > 0.
FullProps(entries) ==
  \E e \in DOMAIN entries : entries[e].kind = "enter" /\ DOMAIN entries[e].props # {}

\* The reader.
Entered(entries) == {e \in DOMAIN entries : entries[e].kind = "enter"}
Changed(entries) == {e \in DOMAIN entries : entries[e].kind = "delta"}
Deleted(entries, deletions) ==
  deletions \cup {e \in DOMAIN entries : entries[e].kind = "leave" /\ entries[e].delete}

NewValue(entries, baseline, e) == Overlay(entries[e].props, Base(baseline, e))

\* m_pTo->transmit_entity: what has no entry is preserved.
Transmitted(view, entries) ==
  Entered(entries) \cup Changed(entries) \cup (view \ DOMAIN entries)

ReadEntities(ents, entries, deletions, baseline) ==
  [e \in (DOMAIN ents \cup Entered(entries)) \ Deleted(entries, deletions) |->
     CASE e \in Entered(entries) ->
            [serial |-> entries[e].serial,
             val |-> NewValue(entries, baseline, e)]
       [] e \in Changed(entries) ->
            [ents[e] EXCEPT !.val = Overlay(entries[e].props, @)]
       [] OTHER -> ents[e]]

\* RecvTable_MergeDeltas: the baseline after an update that replaces it.
MergeBaseline(baseline, entries, old) ==
  [e \in DOMAIN baseline \cup Entered(entries) |->
     IF e \in Entered(entries) THEN NewValue(entries, old, e) ELSE baseline[e]]
=============================================================================
