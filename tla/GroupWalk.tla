------------------------------ MODULE GroupWalk ------------------------------
(***************************************************************************)
(* Repeating groups (group.rs): splitting the fields that follow a count   *)
(* field into instances, by the tags the group's table lists.  The walker  *)
(* calls itself for a nested group, on the same message and to the same    *)
(* end; a reader later reads the nested group again through the scope of   *)
(* the instance that holds it (message.rs, Scope).                         *)
(*                                                                         *)
(* A field is its tag and what parse_count makes of its value; the walker  *)
(* looks at nothing else.  Slots count fields from 0.                      *)
(***************************************************************************)
EXTENDS Integers, Sequences

CONSTANTS
  Messages,  \* records [fields, expected]: see MessageAssumption
  Tables,    \* the table the message is read with and those nested in it,
  Root,      \* and the first of them
  known      \* KnownTags: every tag the message can contain, at any depth

CHECK_SUM == 10
None == -1

\* What GroupTable::new and OwnedGroupTable::new insist on.
IsTable(t) ==
  /\ t.delimiter \in t.members
  /\ \A n \in t.nested : n.count_tag \in t.members

\* expected holds how the sender split the group, or nothing when the fields
\* are not a group that a sender encoded.
ASSUME MessageAssumption ==
  \A m \in Messages : m.fields \in Seq([tag : Nat, count : Nat \cup {None}])

ASSUME TableAssumption ==
  /\ Root \in Tables
  /\ \A t \in Tables : IsTable(t) /\ t.nested \subseteq Tables

VARIABLES
  message,  \* the message that is read
  scope,    \* Scope.start and Scope.end of the call in progress
  stack,    \* the walks in progress, the innermost last
  slot,     \* where the innermost one is
  walks     \* the walks that have ended

vars == <<message, scope, stack, slot, walks>>

tag_at(s) == message.fields[s + 1].tag

Scope(start, end) == [start |-> start, end |-> end]

\* The slots of a scope that hold tag.
Slots(sc, tag) == {s \in sc.start .. sc.end - 1 : tag_at(s) = tag}

\* Scope::find from the scope's start.
find(sc, tag) == CHOOSE s \in Slots(sc, tag) : \A r \in Slots(sc, tag) : s <= r

InvalidCount == [kind |-> "InvalidCount"]
MissingDelimiter(tag) == [kind |-> "MissingDelimiter", tag |-> tag]
CountMismatch(declared, found) ==
  [kind |-> "CountMismatch", declared |-> declared, found |-> found]

\* The locals of a walk that begins at count_slot.  inner is history: the walks
\* it made of nested groups.
Frame(table, count_slot) ==
  LET declared == message.fields[count_slot + 1].count
  IN  [table |-> table, count_slot |-> count_slot, declared |-> declared,
       instances |-> <<>>, instance_start |-> None, seen |-> {}, inner |-> {},
       anomalies |-> IF declared = None THEN <<InvalidCount>> ELSE <<>>]

Init ==
  /\ message \in Messages
  /\ scope = Scope(0, Len(message.fields))
  /\ stack = <<>>
  /\ slot = 0
  /\ walks = {}

-----------------------------------------------------------------------------
\* Scope::walk_group.
walk_group(sc, table) ==
  /\ stack = <<>>
  /\ Slots(sc, table.count_tag) # {}
  /\ scope' = sc
  /\ stack' = <<Frame(table, find(sc, table.count_tag))>>
  /\ slot' = find(sc, table.count_tag) + 1
  /\ UNCHANGED <<message, walks>>

top == stack[Len(stack)]
below == SubSeq(stack, 1, Len(stack) - 1)

\* Fault: an instance is closed a field early.
Closed_Early(frame) ==
  IF frame.instance_start = None THEN frame.instances
  ELSE Append(frame.instances, Scope(frame.instance_start, slot - 1))

\* The instances with the open one, if there is one, closed before slot.
Closed(frame) ==
  IF frame.instance_start = None THEN frame.instances
  ELSE Append(frame.instances, Scope(frame.instance_start, slot))

\* Fault: CheckSum is taken for any unknown tag.
Belongs_CheckSum ==
  /\ slot < scope.end
  /\ tag_at(slot) \in top.table.members \/ tag_at(slot) \notin known

\* The field at slot belongs to the group.
Belongs ==
  /\ slot < scope.end
  /\ tag_at(slot) # CHECK_SUM
  /\ tag_at(slot) \in top.table.members \/ tag_at(slot) \notin known

\* The walk's frame after its next field, one of its members: in the open
\* instance, or the first of a new one.
InOpenInstance(tag) == [top EXCEPT !.seen = @ \cup {tag}]

\* Fault: the instance may start with any tag.
InNewInstance_AnyTag(tag) ==
  [top EXCEPT !.instances = Closed(top), !.instance_start = slot, !.seen = {tag}]

InNewInstance(tag) ==
  [top EXCEPT !.instances = Closed(top),
              !.instance_start = slot,
              !.seen = {tag},
              !.anomalies = IF tag = top.table.delimiter THEN @
                            ELSE Append(@, MissingDelimiter(tag))]

\* Faults: only the delimiter starts an instance; the tags seen are kept.
WithMember_DelimiterOnly(tag) ==
  IF top.instance_start = None \/ tag = top.table.delimiter
    THEN InNewInstance(tag)
    ELSE InOpenInstance(tag)

WithMember_KeepSeen(tag) ==
  IF top.instance_start = None \/ tag \in top.seen
    THEN [InNewInstance(tag) EXCEPT !.seen = top.seen \cup {tag}]
    ELSE InOpenInstance(tag)

WithMember(tag) ==
  IF top.instance_start = None \/ tag \in top.seen
    THEN InNewInstance(tag)
    ELSE InOpenInstance(tag)

\* Fault: nested groups are not walked.
NestedFrames_None(tag) == {}

\* The walk of the nested group the field counts, if it counts one.
NestedFrames(tag) ==
  {Frame(n, slot) : n \in {t \in top.table.nested : t.count_tag = tag}}

TakeMember ==
  /\ stack # <<>> /\ Belongs
  /\ tag_at(slot) \in top.table.members
  /\ LET frames == NestedFrames(tag_at(slot))
         walked == Append(below, WithMember(tag_at(slot)))
     IN  \/ frames = {} /\ stack' = walked
         \/ \E frame \in frames : stack' = Append(walked, frame)
  /\ slot' = slot + 1
  /\ UNCHANGED <<message, scope, walks>>

TakeUnknown ==
  /\ stack # <<>> /\ Belongs
  /\ tag_at(slot) \notin top.table.members
  /\ slot' = slot + 1
  /\ UNCHANGED <<message, scope, stack, walks>>

\* What walk returns, with what it was called with.
Walked ==
  LET instances == Closed(top)
      mismatch == top.declared # None /\ top.declared # Len(instances)
  IN  [table |-> top.table, scope |-> scope, count_slot |-> top.count_slot,
       end |-> slot, instances |-> instances, inner |-> top.inner,
       anomalies |-> IF mismatch
                       THEN Append(top.anomalies, CountMismatch(top.declared, Len(instances)))
                       ELSE top.anomalies]

\* The walks in progress once the innermost has returned.
Returned ==
  [i \in 1 .. Len(stack) - 1 |->
     IF i = Len(stack) - 1 THEN [stack[i] EXCEPT !.inner = @ \cup {Walked}] ELSE stack[i]]

\* The innermost walk returns, and the one that called it goes on at slot.
EndGroup ==
  /\ stack # <<>> /\ ~Belongs
  /\ walks' = walks \cup {Walked}
  /\ stack' = Returned
  /\ UNCHANGED <<message, scope, slot>>

\* The group is read from the message, then each nested group from the scope
\* of an instance.
ReadMessage == walks = {} /\ walk_group(Scope(0, Len(message.fields)), Root)

ReadInstance ==
  \E w \in walks : \E i \in 1 .. Len(w.instances) : \E n \in w.table.nested :
     walk_group(w.instances[i], n)

Next == ReadMessage \/ ReadInstance \/ TakeMember \/ TakeUnknown \/ EndGroup

Spec == Init /\ [][Next]_vars

-----------------------------------------------------------------------------
ScopeType == [start : Nat, end : Nat]

Anomaly ==
  {InvalidCount} \cup [kind : {"MissingDelimiter"}, tag : Nat]
    \cup [kind : {"CountMismatch"}, declared : Nat, found : Nat]

FrameType(ended) ==
  [table : Tables, count_slot : Nat, declared : Nat \cup {None},
   instances : Seq(ScopeType), instance_start : Nat \cup {None}, seen : SUBSET Nat,
   inner : SUBSET ended, anomalies : Seq(Anomaly)]

WalkType(ended) ==
  [table : Tables, scope : ScopeType, count_slot : Nat, end : Nat,
   instances : Seq(ScopeType), inner : SUBSET ended, anomalies : Seq(Anomaly)]

TypeOK ==
  /\ message \in Messages
  /\ scope \in ScopeType /\ scope.end <= Len(message.fields)
  /\ slot \in 0 .. scope.end
  /\ stack \in Seq(FrameType(walks))
  /\ walks \subseteq WalkType(walks)

\* The instances of a group lie end to end, from the first field that is one
\* of its members to where it ends, and none is empty: every field of the
\* group is read through exactly one of them.
InstancesTileTheGroup ==
  \A w \in walks : \A i \in 1 .. Len(w.instances) :
     LET one == w.instances[i]
     IN  /\ one.start < one.end
         /\ i > 1 => one.start = w.instances[i - 1].end
         /\ i = 1 => \A s \in w.count_slot + 1 .. one.start - 1 : tag_at(s) \notin known
         /\ i = Len(w.instances) => one.end = w.end

\* A walk of a nested group took the field at s.
Inside(w, s) == \E v \in w.inner : s \in v.count_slot + 1 .. v.end - 1

\* A group is all of what follows its count field that can belong to it, and
\* nothing else: its own members, tags no message can contain, and the nested
\* groups its members count, of which the same holds.
GroupIsMaximal ==
  \A w \in walks :
     /\ \A s \in w.count_slot + 1 .. w.end - 1 :
          /\ tag_at(s) # CHECK_SUM
          /\ tag_at(s) \in known => tag_at(s) \in w.table.members \/ Inside(w, s)
     /\ \A v \in w.inner :
          /\ v \in walks /\ v.table \in w.table.nested
          /\ w.count_slot < v.count_slot /\ v.end <= w.end
          /\ tag_at(v.count_slot) = v.table.count_tag
     /\ \/ w.end = w.scope.end
        \/ tag_at(w.end) = CHECK_SUM
        \/ tag_at(w.end) \in known \ w.table.members

\* The fields of an instance that its own table lists, less those that walks
\* of nested groups took.
OwnSlots(w, one) ==
  {s \in one.start .. one.end - 1 : tag_at(s) \in w.table.members /\ ~Inside(w, s)}

\* No instance holds a tag of its own twice, so that reading the first
\* occurrence of a tag in an instance never hides another.
NoTagTwiceInAnInstance ==
  \A w \in walks : \A i \in 1 .. Len(w.instances) :
     \A r, s \in OwnSlots(w, w.instances[i]) : tag_at(r) = tag_at(s) => r = s

\* A group without anomalies is split at its delimiters, all of them, and
\* there are as many as the count says.
CleanGroupsSplitAtDelimiters ==
  \A w \in walks :
     w.anomalies = <<>> =>
       LET delimiters == {s \in w.count_slot + 1 .. w.end - 1 :
                            tag_at(s) = w.table.delimiter /\ ~Inside(w, s)}
           starts == {w.instances[i].start : i \in 1 .. Len(w.instances)}
       IN  /\ delimiters = starts
           /\ message.fields[w.count_slot + 1].count = Len(w.instances)

\* A nested group read through the scope of its instance is the group that
\* the walk of the outer one went through: same instances, same anomalies.
NestedReadsAgree ==
  \A w, v \in walks : \A i \in 1 .. Len(w.instances) :
     (v.scope = w.instances[i] /\ v.table \in w.table.nested) =>
       \E u \in w.inner :
          /\ u.table = v.table /\ u.count_slot = v.count_slot
          /\ u.instances = v.instances /\ u.anomalies = v.anomalies /\ u.end = v.end

\* A group is read back as it was sent, nested groups and unknown tags within
\* it included.
RoundTrip ==
  \A split \in message.expected : \A w \in walks :
     w.table = Root => w.instances = split /\ w.anomalies = <<>>
=============================================================================
