--------------------------- MODULE GroupWalkProofs ---------------------------
(***************************************************************************)
(* GroupWalk, for every message, every table at any depth and every set of *)
(* known tags: the instances of a group tile it, a group is all that can   *)
(* belong to it and no more, no instance repeats a tag of its own, and a   *)
(* group without anomalies is split at its delimiters.                     *)
(*                                                                         *)
(* Below, m is the message; x is a walk, in progress or ended, which has   *)
(* taken the slots after its count_slot and before n; f is the frame of a  *)
(* walk in progress.  A lemma about one slot of a walk names the frame     *)
(* before it f and the frame after it g.                                   *)
(***************************************************************************)
EXTENDS GroupWalk, BytesLemmas

Tag(m, s) == m.fields[s + 1].tag

Own(m, x, one) ==
  {s \in one.start .. one.end - 1 : Tag(m, s) \in x.table.members /\ ~Inside(x, s)}

\* The instances lie end to end up to end, and what is before the first of
\* them is no known tag.
Tiles(m, x, instances, end) ==
  /\ \A i \in 1 .. Len(instances) :
       /\ x.count_slot < instances[i].start /\ instances[i].start < instances[i].end
       /\ instances[i].end <= end
       /\ i > 1 => instances[i].start = instances[i - 1].end
       /\ i = 1 => \A s \in x.count_slot + 1 .. instances[i].start - 1 : Tag(m, s) \notin known
       /\ i = Len(instances) => instances[i].end = end
  /\ instances = <<>> => \A s \in x.count_slot + 1 .. end - 1 : Tag(m, s) \notin known

\* The walks of nested groups that x made.
InnerWalks(m, x, n) ==
  \A v \in x.inner :
     /\ v.table \in x.table.nested
     /\ v.count_slot \in Nat /\ v.end \in Nat
     /\ x.count_slot < v.count_slot /\ v.count_slot < v.end /\ v.end <= n
     /\ Tag(m, v.count_slot) = v.table.count_tag

\* What x has taken can belong to it.
Covers(m, x, n) ==
  \A s \in x.count_slot + 1 .. n - 1 :
     /\ Tag(m, s) # CHECK_SUM
     /\ Tag(m, s) \in known => Tag(m, s) \in x.table.members \/ Inside(x, s)

\* An instance has no tag of its own twice.
Unrepeated(m, x, one) == \A r, s \in Own(m, x, one) : Tag(m, r) = Tag(m, s) => r = s

Delimiters(m, x, n) ==
  {s \in x.count_slot + 1 .. n - 1 : Tag(m, s) = x.table.delimiter /\ ~Inside(x, s)}

Starts(instances) == {instances[i].start : i \in 1 .. Len(instances)}

\* What is true of a walk and its instances up to n.
Sound(m, x, instances, n) ==
  /\ x.table \in Tables
  /\ x.count_slot \in Nat /\ x.count_slot < n
  /\ instances \in Seq(ScopeType)
  /\ Tiles(m, x, instances, n)
  /\ InnerWalks(m, x, n)
  /\ Covers(m, x, n)
  /\ \A i \in 1 .. Len(instances) : Unrepeated(m, x, instances[i])
  /\ x.anomalies = <<>> => Delimiters(m, x, n) = Starts(instances)

WalkInv(m, w) ==
  /\ Sound(m, w, w.instances, w.end)
  /\ w.end \in Nat /\ w.end <= w.scope.end /\ w.scope.end <= Len(m.fields)
  /\ \/ w.end = w.scope.end
     \/ Tag(m, w.end) = CHECK_SUM
     \/ Tag(m, w.end) \in known \ w.table.members
  /\ w.anomalies = <<>> => m.fields[w.count_slot + 1].count = Len(w.instances)

\* Before its first instance a walk has taken unknown tags only.
NotStarted(m, f, n) ==
  /\ f.instances = <<>> /\ f.inner = {}
  /\ \A s \in f.count_slot + 1 .. n - 1 :
        Tag(m, s) \notin known /\ Tag(m, s) \notin f.table.members

\* Then the instances that are complete end where the open one starts, seen
\* holds the tags of that one, and all of those are its own.
Started(m, f, n) ==
  LET open == Scope(f.instance_start, n)
  IN  /\ f.count_slot < f.instance_start /\ f.instance_start < n
      /\ Tiles(m, f, f.instances, f.instance_start)
      /\ \A i \in 1 .. Len(f.instances) : Unrepeated(m, f, f.instances[i])
      /\ Unrepeated(m, f, open)
      /\ f.seen = {Tag(m, s) : s \in Own(m, f, open)}
      /\ f.instance_start \in Own(m, f, open)
      /\ f.anomalies = <<>> =>
           /\ Delimiters(m, f, n) = Starts(f.instances) \cup {f.instance_start}
           /\ Tag(m, f.instance_start) = f.table.delimiter

FrameInv(m, f, n) ==
  /\ f.table \in Tables
  /\ f.count_slot \in Nat /\ f.count_slot < n /\ n <= Len(m.fields)
  /\ f.instances \in Seq(ScopeType)
  /\ f.instance_start \in Nat \cup {None}
  /\ InnerWalks(m, f, n)
  /\ Covers(m, f, n)
  /\ f.instance_start = None => NotStarted(m, f, n)
  /\ f.instance_start # None => Started(m, f, n)
  /\ f.declared = m.fields[f.count_slot + 1].count
  /\ f.declared = None => f.anomalies # <<>>

\* The slot that walk i of those in progress has come to: the count field of
\* the nested group that the next one walks, or s, where the innermost is.
Reach(frames, s, i) == IF i = Len(frames) THEN s ELSE frames[i + 1].count_slot + 1

StackInv(m, frames, s) ==
  /\ \A i \in 1 .. Len(frames) : FrameInv(m, frames[i], Reach(frames, s, i))
  /\ \A i \in 1 .. Len(frames) - 1 :
       /\ frames[i].instance_start # None
       /\ frames[i + 1].table \in frames[i].table.nested
       /\ Tag(m, frames[i + 1].count_slot) = frames[i + 1].table.count_tag

\* The inductive invariant.
IInv ==
  /\ TypeOK
  /\ StackInv(message, stack, slot)
  /\ \A w \in walks : WalkInv(message, w)

-----------------------------------------------------------------------------
(* Closing the open instance. *)

\* The instances of f with the open one, if there is one, closed before n.
ClosedAt(f, n) ==
  IF f.instance_start = None THEN f.instances
  ELSE Append(f.instances, Scope(f.instance_start, n))

LEMMA ScopeFields == \A a, b : Scope(a, b).start = a /\ Scope(a, b).end = b
<1> QED BY DEF Scope

\* One more instance tiles what the others did not.
LEMMA TilesAppend ==
  ASSUME NEW m, NEW x, NEW instances \in Seq(ScopeType), NEW a \in Nat, NEW n \in Nat,
         x.count_slot \in Nat, x.count_slot < a, a < n, Tiles(m, x, instances, a)
  PROVE  /\ Append(instances, Scope(a, n)) \in Seq(ScopeType)
         /\ Tiles(m, x, Append(instances, Scope(a, n)), n)
<1> DEFINE one == Scope(a, n)
           more == Append(instances, one)
           k == Len(instances)
<1>1. one \in ScopeType /\ one.start = a /\ one.end = n
  BY DEF Scope, ScopeType
<1> HIDE DEF one
<1>2. /\ k \in Nat /\ more \in Seq(ScopeType) /\ Len(more) = k + 1 /\ more[k + 1] = one
      /\ \A i \in 1 .. k : more[i] = instances[i]
  BY <1>1
<1> HIDE DEF more
<1>3. \A i \in 1 .. k : instances[i].start \in Nat /\ instances[i].end \in Nat
  <2>1. \A i \in 1 .. k : instances[i] \in ScopeType
    OBVIOUS
  <2> QED BY <2>1 DEF ScopeType
<1>4. ASSUME NEW i \in 1 .. k + 1
      PROVE  /\ x.count_slot < more[i].start /\ more[i].start < more[i].end
             /\ more[i].end <= n
             /\ i > 1 => more[i].start = more[i - 1].end
             /\ i = 1 => \A s \in x.count_slot + 1 .. more[i].start - 1 : Tag(m, s) \notin known
             /\ i = k + 1 => more[i].end = n
  <2>1. CASE i = k + 1
    <3>1. more[i].start = a /\ more[i].end = n
      BY <1>1, <1>2, <2>1
    <3>2. i > 1 => more[i - 1].end = a
      <4>1. i > 1 => k \in 1 .. k /\ i - 1 = k
        BY <1>2, <2>1
      <4> QED BY <1>2, <4>1 DEF Tiles
    <3>3. i = 1 => \A s \in x.count_slot + 1 .. a - 1 : Tag(m, s) \notin known
      <4>1. i = 1 => instances = <<>>
        BY <1>2, <2>1
      <4> QED BY <4>1 DEF Tiles
    <3> QED BY <3>1, <3>2, <3>3
  <2>2. CASE i # k + 1
    <3>1. i \in 1 .. k /\ more[i] = instances[i] /\ (i > 1 => i - 1 \in 1 .. k)
      BY <1>2, <2>2
    <3>2. instances[i].end <= a
      BY <3>1 DEF Tiles
    <3>3. instances[i].end <= n
      BY <1>3, <3>1, <3>2
    <3>4. i > 1 => more[i - 1] = instances[i - 1]
      BY <1>2, <3>1
    <3> QED BY <2>2, <3>1, <3>3, <3>4 DEF Tiles
  <2> QED BY <2>1, <2>2
<1>5. more # <<>>
  BY <1>2
<1> QED BY <1>2, <1>4, <1>5 DEF Tiles, more, one

LEMMA Closing ==
  ASSUME NEW m, NEW f, NEW n \in Nat, FrameInv(m, f, n)
  PROVE  Sound(m, f, ClosedAt(f, n), n)
<1>1. /\ f.table \in Tables /\ f.count_slot \in Nat /\ f.count_slot < n
      /\ f.instances \in Seq(ScopeType) /\ f.instance_start \in Nat \cup {None}
      /\ InnerWalks(m, f, n) /\ Covers(m, f, n)
  BY DEF FrameInv
<1>2. CASE f.instance_start = None
  <2>1. f.instances = <<>> /\ ClosedAt(f, n) = <<>> /\ NotStarted(m, f, n)
    BY <1>2 DEF FrameInv, NotStarted, ClosedAt
  <2>2. Tiles(m, f, <<>>, n)
    BY <2>1 DEF Tiles, NotStarted
  <2>3. Delimiters(m, f, n) = {}
    <3>1. f.table.delimiter \in f.table.members
      BY <1>1, TableAssumption DEF IsTable
    <3> QED BY <2>1, <3>1 DEF Delimiters, NotStarted
  <2>4. Starts(<<>>) = {}
    BY DEF Starts
  <2> QED BY <1>1, <2>1, <2>2, <2>3, <2>4 DEF Sound
<1>3. CASE f.instance_start # None
  <2> DEFINE a == f.instance_start
             one == Scope(a, n)
             more == ClosedAt(f, n)
             k == Len(f.instances)
  <2>1. a \in Nat /\ more = Append(f.instances, one) /\ Started(m, f, n)
    BY <1>1, <1>3 DEF FrameInv, ClosedAt
  <2>2. f.count_slot < a /\ a < n /\ Tiles(m, f, f.instances, a)
    BY <2>1 DEF Started
  <2>3. more \in Seq(ScopeType) /\ Tiles(m, f, more, n)
    BY <1>1, <2>1, <2>2, TilesAppend
  <2>4. one \in ScopeType /\ one.start = a
    BY <2>1 DEF Scope, ScopeType
  <2>5. /\ k \in Nat /\ Len(more) = k + 1 /\ more[k + 1] = one
        /\ \A i \in 1 .. k : more[i] = f.instances[i]
    <3> HIDE DEF one, more
    <3> QED BY <1>1, <2>1, <2>4
  <2>6. /\ \A i \in 1 .. k : Unrepeated(m, f, f.instances[i])
        /\ Unrepeated(m, f, one)
    BY <2>1 DEF Started
  <2>7. ASSUME NEW i \in 1 .. Len(more) PROVE Unrepeated(m, f, more[i])
    <3> HIDE DEF one, more
    <3>1. i \in 1 .. k \/ i = k + 1
      BY <2>5
    <3> QED BY <2>5, <2>6, <3>1
  <2>8. Starts(more) = Starts(f.instances) \cup {a}
    <3> HIDE DEF one, more, a
    <3>1. \A i \in 1 .. k + 1 : i \in 1 .. k \/ i = k + 1
      BY <2>5
    <3>2. \A i \in 1 .. k : i \in 1 .. k + 1
      BY <2>5
    <3>3. k + 1 \in 1 .. k + 1
      BY <2>5
    <3> QED BY <2>4, <2>5, <3>1, <3>2, <3>3 DEF Starts
  <2>9. f.anomalies = <<>> => Delimiters(m, f, n) = Starts(more)
    BY <2>1, <2>8 DEF Started
  <2>10. Sound(m, f, more, n)
    <3> HIDE DEF one, more
    <3> QED BY <1>1, <2>3, <2>7, <2>9 DEF Sound
  <2> QED BY <2>10
<1> QED BY <1>2, <1>3

-----------------------------------------------------------------------------
(* Taking a field. *)

LEMMA NotInside ==
  ASSUME NEW m, NEW f, NEW n \in Nat, InnerWalks(m, f, n)
  PROVE  ~Inside(f, n)
<1> QED BY DEF InnerWalks, Inside

\* The slots of its own that a walk has when it takes the slot n.
LEMMA OwnGrows ==
  ASSUME NEW m, NEW f, NEW n \in Nat, InnerWalks(m, f, n), NEW a \in Nat, a <= n
  PROVE  /\ Tag(m, n) \in f.table.members =>
                Own(m, f, Scope(a, n + 1)) = Own(m, f, Scope(a, n)) \cup {n}
         /\ Tag(m, n) \notin f.table.members =>
                Own(m, f, Scope(a, n + 1)) = Own(m, f, Scope(a, n))
<1>1. ~Inside(f, n)
  BY NotInside
<1>2. a .. n + 1 - 1 = (a .. n - 1) \cup {n}
  OBVIOUS
<1>3. /\ Own(m, f, Scope(a, n + 1))
           = {s \in a .. n + 1 - 1 : Tag(m, s) \in f.table.members /\ ~Inside(f, s)}
      /\ Own(m, f, Scope(a, n))
           = {s \in a .. n - 1 : Tag(m, s) \in f.table.members /\ ~Inside(f, s)}
  BY DEF Own, Scope
<1> QED BY <1>1, <1>2, <1>3

LEMMA DelimitersGrow ==
  ASSUME NEW m, NEW f, NEW n \in Nat, InnerWalks(m, f, n),
         f.count_slot \in Nat, f.count_slot < n
  PROVE  /\ Tag(m, n) = f.table.delimiter =>
                Delimiters(m, f, n + 1) = Delimiters(m, f, n) \cup {n}
         /\ Tag(m, n) # f.table.delimiter =>
                Delimiters(m, f, n + 1) = Delimiters(m, f, n)
<1>1. ~Inside(f, n)
  BY NotInside
<1>2. f.count_slot + 1 .. n + 1 - 1 = (f.count_slot + 1 .. n - 1) \cup {n}
  OBVIOUS
<1> QED BY <1>1, <1>2 DEF Delimiters

LEMMA InnerWalksGrow ==
  ASSUME NEW m, NEW f, NEW n \in Nat, NEW k \in Nat, n <= k, InnerWalks(m, f, n)
  PROVE  InnerWalks(m, f, k)
<1> QED BY DEF InnerWalks

LEMMA CoversGrow ==
  ASSUME NEW m, NEW f, NEW n \in Nat, f.count_slot \in Nat, f.count_slot < n, Covers(m, f, n),
         Tag(m, n) # CHECK_SUM, Tag(m, n) \in f.table.members \/ Tag(m, n) \notin known
  PROVE  Covers(m, f, n + 1)
<1>1. \A s \in f.count_slot + 1 .. n + 1 - 1 : s \in f.count_slot + 1 .. n - 1 \/ s = n
  OBVIOUS
<1> QED BY <1>1 DEF Covers

\* What a walk has of its own depends on its table and on the walks it made.
LEMMA SameOwn ==
  ASSUME NEW m, NEW f, NEW g, g.table = f.table, g.inner = f.inner,
         g.count_slot = f.count_slot
  PROVE  /\ \A one : Own(m, g, one) = Own(m, f, one)
         /\ \A one : Unrepeated(m, g, one) <=> Unrepeated(m, f, one)
         /\ \A n : Delimiters(m, g, n) = Delimiters(m, f, n)
         /\ \A n : InnerWalks(m, g, n) <=> InnerWalks(m, f, n)
         /\ \A n : Covers(m, g, n) <=> Covers(m, f, n)
         /\ \A instances, n : Tiles(m, g, instances, n) <=> Tiles(m, f, instances, n)
<1>1. \A s : Inside(g, s) <=> Inside(f, s)
  BY DEF Inside
<1>2. \A one : Own(m, g, one) = Own(m, f, one)
  BY <1>1 DEF Own
<1>3. \A one : Unrepeated(m, g, one) <=> Unrepeated(m, f, one)
  BY <1>2 DEF Unrepeated
<1>4. \A n : Delimiters(m, g, n) = Delimiters(m, f, n)
  BY <1>1 DEF Delimiters
<1>5. \A n : InnerWalks(m, g, n) <=> InnerWalks(m, f, n)
  BY DEF InnerWalks
<1>6. \A n : Covers(m, g, n) <=> Covers(m, f, n)
  BY <1>1 DEF Covers
<1>7. \A instances, n : Tiles(m, g, instances, n) <=> Tiles(m, f, instances, n)
  BY DEF Tiles
<1> QED BY <1>2, <1>3, <1>4, <1>5, <1>6, <1>7

\* Taking an unknown tag changes nothing in the frame.
LEMMA UnknownTaken ==
  ASSUME NEW m, NEW f, NEW n \in Nat, FrameInv(m, f, n), n < Len(m.fields),
         Len(m.fields) \in Nat,
         Tag(m, n) # CHECK_SUM, Tag(m, n) \notin known, Tag(m, n) \notin f.table.members
  PROVE  FrameInv(m, f, n + 1)
<1>1. /\ f.table \in Tables /\ f.count_slot \in Nat /\ f.count_slot < n
      /\ f.instance_start \in Nat \cup {None}
      /\ InnerWalks(m, f, n) /\ Covers(m, f, n)
  BY DEF FrameInv
<1>2. InnerWalks(m, f, n + 1) /\ Covers(m, f, n + 1)
  BY <1>1, InnerWalksGrow, CoversGrow
<1>3. ASSUME f.instance_start = None PROVE NotStarted(m, f, n + 1)
  <2>1. NotStarted(m, f, n)
    BY <1>3 DEF FrameInv
  <2>2. \A s \in f.count_slot + 1 .. n + 1 - 1 : s \in f.count_slot + 1 .. n - 1 \/ s = n
    BY <1>1
  <2> QED BY <2>1, <2>2 DEF NotStarted
<1>4. ASSUME f.instance_start # None PROVE Started(m, f, n + 1)
  <2> DEFINE a == f.instance_start
  <2>1. Started(m, f, n) /\ a \in Nat /\ a < n
    BY <1>1, <1>4 DEF FrameInv, Started
  <2>2. Own(m, f, Scope(a, n + 1)) = Own(m, f, Scope(a, n))
    BY <1>1, <2>1, OwnGrows
  <2>3. Delimiters(m, f, n + 1) = Delimiters(m, f, n)
    <3>1. f.table.delimiter \in f.table.members
      BY <1>1, TableAssumption DEF IsTable
    <3> QED BY <1>1, <3>1, DelimitersGrow
  <2>4. Unrepeated(m, f, Scope(a, n + 1))
    BY <2>1, <2>2 DEF Unrepeated, Started
  <2>5. a < n + 1
    BY <2>1
  <2> QED BY <2>1, <2>2, <2>3, <2>4, <2>5 DEF Started
<1>5. f.count_slot < n + 1 /\ n + 1 <= Len(m.fields)
  BY <1>1
<1> QED BY <1>1, <1>2, <1>3, <1>4, <1>5 DEF FrameInv

\* Taking a member that the open instance does not have yet.
LEMMA MemberTaken ==
  ASSUME NEW m, NEW f, NEW g, NEW n \in Nat, FrameInv(m, f, n), n < Len(m.fields),
         Len(m.fields) \in Nat,
         Tag(m, n) # CHECK_SUM, Tag(m, n) \in f.table.members,
         f.instance_start # None, Tag(m, n) \notin f.seen,
         g.table = f.table, g.count_slot = f.count_slot, g.declared = f.declared,
         g.instances = f.instances, g.instance_start = f.instance_start,
         g.inner = f.inner, g.anomalies = f.anomalies,
         g.seen = f.seen \cup {Tag(m, n)}
  PROVE  FrameInv(m, g, n + 1)
<1> DEFINE a == f.instance_start
           open == Scope(a, n)
           more == Scope(a, n + 1)
<1>1. /\ f.table \in Tables /\ f.count_slot \in Nat /\ f.count_slot < n
      /\ f.instance_start \in Nat \cup {None}
      /\ InnerWalks(m, f, n) /\ Covers(m, f, n)
      /\ Started(m, f, n)
  BY DEF FrameInv
<1>2. /\ \A one : Own(m, g, one) = Own(m, f, one)
      /\ \A one : Unrepeated(m, g, one) <=> Unrepeated(m, f, one)
      /\ \A k : Delimiters(m, g, k) = Delimiters(m, f, k)
      /\ \A k : InnerWalks(m, g, k) <=> InnerWalks(m, f, k)
      /\ \A k : Covers(m, g, k) <=> Covers(m, f, k)
      /\ \A instances, k : Tiles(m, g, instances, k) <=> Tiles(m, f, instances, k)
  BY SameOwn, Zenon
<1>3. InnerWalks(m, g, n + 1) /\ Covers(m, g, n + 1)
  BY <1>1, <1>2, InnerWalksGrow, CoversGrow
<1>4. a \in Nat /\ f.count_slot < a /\ a < n /\ a < n + 1
  BY <1>1 DEF Started
<1>5. Own(m, f, more) = Own(m, f, open) \cup {n}
  BY <1>1, <1>4, OwnGrows
<1>6. Unrepeated(m, f, open) /\ f.seen = {Tag(m, s) : s \in Own(m, f, open)}
  BY <1>1 DEF Started
<1>7. Unrepeated(m, g, more)
  <2>1. \A s \in Own(m, f, open) : Tag(m, s) # Tag(m, n)
    BY <1>6
  <2>2. Unrepeated(m, f, more)
    BY <1>5, <1>6, <2>1 DEF Unrepeated
  <2> QED BY <1>2, <2>2
<1>8. g.seen = {Tag(m, s) : s \in Own(m, g, more)}
  BY <1>2, <1>5, <1>6
<1>9. a \in Own(m, g, more)
  BY <1>1, <1>2, <1>5 DEF Started
<1>10. ASSUME f.anomalies = <<>>
       PROVE  /\ Delimiters(m, g, n + 1) = Starts(f.instances) \cup {a}
              /\ Tag(m, a) = f.table.delimiter
  <2>1. /\ Delimiters(m, f, n) = Starts(f.instances) \cup {a}
        /\ Tag(m, a) = f.table.delimiter
    BY <1>1, <1>10 DEF Started
  <2>2. Tag(m, n) # f.table.delimiter
    BY <1>1, <1>6, <2>1 DEF Started
  <2>3. Delimiters(m, f, n + 1) = Delimiters(m, f, n)
    BY <1>1, <2>2, DelimitersGrow
  <2> QED BY <1>2, <2>1, <2>3
<1>11. Started(m, g, n + 1)
  <2>1. Tiles(m, g, g.instances, a) /\ \A i \in 1 .. Len(g.instances) : Unrepeated(m, g, g.instances[i])
    BY <1>1, <1>2 DEF Started
  <2> QED BY <1>4, <1>7, <1>8, <1>9, <1>10, <2>1 DEF Started
<1>12. f.count_slot < n + 1 /\ n + 1 <= Len(m.fields)
  BY <1>1
<1> QED BY <1>1, <1>3, <1>11, <1>12 DEF FrameInv

\* Starting an instance with a member.
LEMMA InstanceStarted ==
  ASSUME NEW m, NEW f, NEW g, NEW n \in Nat, FrameInv(m, f, n), n < Len(m.fields),
         Len(m.fields) \in Nat,
         Tag(m, n) # CHECK_SUM, Tag(m, n) \in f.table.members,
         g.table = f.table, g.count_slot = f.count_slot, g.declared = f.declared,
         g.instances = ClosedAt(f, n), g.instance_start = n, g.seen = {Tag(m, n)},
         g.inner = f.inner,
         g.anomalies = <<>> => f.anomalies = <<>> /\ Tag(m, n) = f.table.delimiter
  PROVE  FrameInv(m, g, n + 1)
<1> DEFINE open == Scope(n, n + 1)
<1>1. /\ f.table \in Tables /\ f.count_slot \in Nat /\ f.count_slot < n
      /\ InnerWalks(m, f, n) /\ Covers(m, f, n)
  BY DEF FrameInv
<1>2. /\ \A one : Own(m, g, one) = Own(m, f, one)
      /\ \A one : Unrepeated(m, g, one) <=> Unrepeated(m, f, one)
      /\ \A k : Delimiters(m, g, k) = Delimiters(m, f, k)
      /\ \A k : InnerWalks(m, g, k) <=> InnerWalks(m, f, k)
      /\ \A k : Covers(m, g, k) <=> Covers(m, f, k)
      /\ \A instances, k : Tiles(m, g, instances, k) <=> Tiles(m, f, instances, k)
  BY SameOwn, Zenon
<1>3. InnerWalks(m, g, n + 1) /\ Covers(m, g, n + 1)
  BY <1>1, <1>2, InnerWalksGrow, CoversGrow
<1>4. /\ g.instances \in Seq(ScopeType) /\ Tiles(m, f, g.instances, n)
      /\ \A i \in 1 .. Len(g.instances) : Unrepeated(m, f, g.instances[i])
      /\ f.anomalies = <<>> => Delimiters(m, f, n) = Starts(g.instances)
  BY Closing DEF Sound
<1>5. Own(m, f, open) = {n}
  <2>1. Own(m, f, Scope(n, n)) = {}
    <3>1. n .. n - 1 = {}
      OBVIOUS
    <3> QED BY <3>1 DEF Own, Scope
  <2>2. n <= n
    OBVIOUS
  <2>3. Own(m, f, Scope(n, n + 1)) = Own(m, f, Scope(n, n)) \cup {n}
    BY <1>1, <2>2, OwnGrows
  <2> QED BY <2>1, <2>3
<1>6. Started(m, g, n + 1)
  <2>1. n < n + 1 /\ Unrepeated(m, g, open) /\ g.seen = {Tag(m, s) : s \in Own(m, g, open)}
    BY <1>2, <1>5 DEF Unrepeated
  <2>2. ASSUME g.anomalies = <<>>
        PROVE  Delimiters(m, g, n + 1) = Starts(g.instances) \cup {n}
    BY <1>1, <1>2, <1>4, <2>2, DelimitersGrow
  <2>3. n \in Own(m, g, open)
    BY <1>2, <1>5
  <2> QED BY <1>1, <1>2, <1>4, <2>1, <2>2, <2>3 DEF Started
<1>7. f.count_slot < n + 1 /\ n + 1 <= Len(m.fields) /\ n # None
  BY <1>1 DEF None
<1>8. g.declared = m.fields[g.count_slot + 1].count /\ (g.declared = None => g.anomalies # <<>>)
  BY DEF FrameInv
<1> QED BY <1>1, <1>3, <1>4, <1>6, <1>7, <1>8 DEF FrameInv

-----------------------------------------------------------------------------
(* Calling and returning. *)

\* A walk that begins has taken nothing.
LEMMA WalkBegun ==
  ASSUME NEW m, NEW f, NEW c \in Nat, f.table \in Tables, f.count_slot = c,
         c + 1 <= Len(m.fields),
         f.declared = m.fields[c + 1].count, f.instances = <<>>,
         f.instance_start = None, f.inner = {},
         f.declared = None => f.anomalies # <<>>
  PROVE  FrameInv(m, f, c + 1)
<1>1. c + 1 .. c + 1 - 1 = {} /\ c < c + 1 /\ <<>> \in Seq(ScopeType)
  OBVIOUS
<1>2. NotStarted(m, f, c + 1)
  BY <1>1 DEF NotStarted
<1>3. InnerWalks(m, f, c + 1) /\ Covers(m, f, c + 1)
  BY <1>1 DEF InnerWalks, Covers
<1> QED BY <1>1, <1>2, <1>3 DEF FrameInv

\* The walk f goes on at n after the walk v of a nested group, whose count
\* field is the last that f took before it.
LEMMA NestedEnded ==
  ASSUME NEW m, NEW f, NEW g, NEW v, NEW n \in Nat, NEW c \in Nat,
         FrameInv(m, f, c + 1), f.instance_start # None,
         v.count_slot = c, c < n, v.end = n, v.table \in f.table.nested,
         Tag(m, c) = v.table.count_tag,
         Len(m.fields) \in Nat, n <= Len(m.fields),
         \A s \in c + 1 .. n - 1 : Tag(m, s) # CHECK_SUM,
         g.table = f.table, g.count_slot = f.count_slot, g.declared = f.declared,
         g.instances = f.instances, g.instance_start = f.instance_start, g.seen = f.seen,
         g.inner = f.inner \cup {v}, g.anomalies = f.anomalies
  PROVE  FrameInv(m, g, n)
<1> DEFINE a == f.instance_start
<1>1. /\ f.table \in Tables /\ f.count_slot \in Nat /\ f.count_slot < c + 1
      /\ f.instances \in Seq(ScopeType) /\ a \in Nat
      /\ InnerWalks(m, f, c + 1) /\ Covers(m, f, c + 1)
      /\ Started(m, f, c + 1)
  BY DEF FrameInv
<1>2. f.count_slot < a /\ a < c + 1 /\ a < n /\ Tiles(m, f, f.instances, a)
  BY <1>1 DEF Started
<1>3. \A s : Inside(g, s) <=> Inside(f, s) \/ s \in c + 1 .. n - 1
  BY DEF Inside
<1>4. \A b, e \in Nat : e <= c + 1 => Own(m, g, Scope(b, e)) = Own(m, f, Scope(b, e))
  <2> TAKE b, e \in Nat
  <2>1. e <= c + 1 => \A s \in b .. e - 1 : Inside(g, s) <=> Inside(f, s)
    BY <1>3
  <2> QED BY <2>1 DEF Own, Scope
<1>5. Own(m, g, Scope(a, n)) = Own(m, f, Scope(a, c + 1))
  <2>1. \A s \in a .. n - 1 : s \in a .. c + 1 - 1 \/ s \in c + 1 .. n - 1
    BY <1>1
  <2>2. \A s \in a .. c + 1 - 1 : s \in a .. n - 1 /\ s \notin c + 1 .. n - 1
    BY <1>1
  <2> QED BY <1>3, <2>1, <2>2 DEF Own, Scope
<1>6. Delimiters(m, g, n) = Delimiters(m, f, c + 1)
  <2> DEFINE b == f.count_slot
  <2>1. \A s \in b + 1 .. n - 1 : s \in b + 1 .. c + 1 - 1 \/ s \in c + 1 .. n - 1
    BY <1>1
  <2>2. \A s \in b + 1 .. c + 1 - 1 : s \in b + 1 .. n - 1 /\ s \notin c + 1 .. n - 1
    BY <1>1
  <2> QED BY <1>3, <2>1, <2>2 DEF Delimiters
<1>7. InnerWalks(m, g, n)
  <2>1. InnerWalks(m, f, n)
    <3>1. c + 1 \in Nat /\ c + 1 <= n
      OBVIOUS
    <3> QED BY <1>1, <3>1, InnerWalksGrow
  <2>2. f.count_slot < c
    BY <1>1, <1>2
  <2> QED BY <2>1, <2>2 DEF InnerWalks
<1>8. Covers(m, g, n)
  <2>1. \A s \in f.count_slot + 1 .. n - 1 :
          s \in f.count_slot + 1 .. c + 1 - 1 \/ s \in c + 1 .. n - 1
    BY <1>1
  <2> QED BY <1>1, <1>3, <2>1 DEF Covers
<1>9. ASSUME NEW i \in 1 .. Len(f.instances) PROVE Unrepeated(m, g, f.instances[i])
  <2> DEFINE one == f.instances[i]
  <2>1. one \in ScopeType /\ one.end <= a
    BY <1>1, <1>2 DEF Tiles
  <2>2. one.start \in Nat /\ one.end \in Nat /\ one = Scope(one.start, one.end)
    <3> HIDE DEF one
    <3> QED BY <2>1 DEF ScopeType, Scope
  <2>3. one.end <= c + 1
    BY <1>1, <1>2, <2>1, <2>2
  <2>4. Own(m, g, one) = Own(m, f, one)
    <3> HIDE DEF one
    <3>1. Own(m, g, Scope(one.start, one.end)) = Own(m, f, Scope(one.start, one.end))
      BY <1>4, <2>2, <2>3
    <3> QED BY <2>2, <3>1, Zenon
  <2>5. Unrepeated(m, f, one)
    BY <1>1 DEF Started
  <2> HIDE DEF one
  <2>6. Unrepeated(m, g, one)
    BY <2>4, <2>5 DEF Unrepeated
  <2> QED BY <2>6 DEF one
<1>10. Started(m, g, n)
  <2>1. Tiles(m, g, f.instances, a)
    BY <1>2 DEF Tiles
  <2>2. /\ Unrepeated(m, f, Scope(a, c + 1))
        /\ f.seen = {Tag(m, s) : s \in Own(m, f, Scope(a, c + 1))}
        /\ a \in Own(m, f, Scope(a, c + 1))
        /\ f.anomalies = <<>> =>
             /\ Delimiters(m, f, c + 1) = Starts(f.instances) \cup {a}
             /\ Tag(m, a) = f.table.delimiter
    BY <1>1 DEF Started
  <2>3. Unrepeated(m, g, Scope(a, n))
    BY <1>5, <2>2 DEF Unrepeated
  <2> QED BY <1>2, <1>5, <1>6, <1>9, <2>1, <2>2, <2>3 DEF Started
<1>11. f.count_slot < n
  BY <1>1
<1> QED BY <1>1, <1>7, <1>8, <1>10, <1>11 DEF FrameInv

-----------------------------------------------------------------------------
(* The stack. *)

LEMMA TopFrame ==
  ASSUME NEW m, NEW T, NEW frames \in Seq(T), NEW s, StackInv(m, frames, s), frames # <<>>
  PROVE  /\ Len(frames) \in Nat \ {0}
         /\ frames[Len(frames)] \in T
         /\ FrameInv(m, frames[Len(frames)], s)
<1>1. Len(frames) \in Nat \ {0} /\ frames[Len(frames)] \in T
  OBVIOUS
<1> QED BY <1>1 DEF StackInv, Reach

\* The innermost frame changes, and comes to n.
LEMMA TopReplaced ==
  ASSUME NEW m, NEW T, NEW frames \in Seq(T), NEW s, NEW n, StackInv(m, frames, s),
         frames # <<>>, NEW g \in T, FrameInv(m, g, n),
         g.table = frames[Len(frames)].table, g.count_slot = frames[Len(frames)].count_slot
  PROVE  LET more == Append(SubSeq(frames, 1, Len(frames) - 1), g)
         IN  /\ more \in Seq(T) /\ Len(more) = Len(frames) /\ more[Len(frames)] = g
             /\ StackInv(m, more, n)
<1> DEFINE k == Len(frames)
           below_it == SubSeq(frames, 1, k - 1)
           more == Append(below_it, g)
<1>1. k \in Nat /\ k >= 1
  OBVIOUS
<1>2. /\ below_it \in Seq(T) /\ Len(below_it) = k - 1
      /\ \A i \in 1 .. k - 1 : below_it[i] = frames[i]
  <2>1. /\ 1 \in 1 .. Len(frames) + 1 /\ k - 1 \in 1 - 1 .. Len(frames)
        /\ \A i \in 1 .. k - 1 : frames[i] \in T
    BY <1>1
  <2>2. /\ below_it \in Seq(T)
        /\ Len(below_it) = IF 1 <= k - 1 THEN (k - 1) - 1 + 1 ELSE 0
        /\ \A i \in 1 .. (k - 1) - 1 + 1 : below_it[i] = frames[1 + i - 1]
    BY <2>1, SubSeqProperties
  <2> HIDE DEF below_it
  <2>3. (k - 1) - 1 + 1 = k - 1 /\ \A i \in 1 .. k - 1 : 1 + i - 1 = i
    BY <1>1
  <2>4. \A i \in 1 .. k - 1 : below_it[i] = frames[i]
    BY <2>2, <2>3
  <2>5. Len(below_it) = k - 1
    <3> HIDE DEF k
    <3> QED BY <1>1, <2>2
  <2> QED BY <2>2, <2>4, <2>5
<1> HIDE DEF below_it
<1>3. /\ more \in Seq(T) /\ Len(more) = k /\ more[k] = g
      /\ \A i \in 1 .. k - 1 : more[i] = frames[i]
  BY <1>1, <1>2
<1> HIDE DEF more
<1>4. ASSUME NEW i \in 1 .. k PROVE FrameInv(m, more[i], Reach(more, n, i))
  <2>1. CASE i = k
    BY <1>3, <2>1 DEF Reach
  <2>2. CASE i # k
    <3>1. i \in 1 .. k - 1 /\ i + 1 \in 1 .. k
      BY <1>1, <2>2
    <3>2. more[i + 1].count_slot = frames[i + 1].count_slot
      <4>1. i + 1 = k \/ i + 1 \in 1 .. k - 1
        BY <3>1
      <4> QED BY <1>3, <4>1
    <3>3. Reach(more, n, i) = Reach(frames, s, i)
      BY <1>3, <2>2, <3>2 DEF Reach
    <3>4. FrameInv(m, frames[i], Reach(frames, s, i))
      BY DEF StackInv
    <3> QED BY <1>3, <3>1, <3>3, <3>4
  <2> QED BY <2>1, <2>2
<1>5. ASSUME NEW i \in 1 .. k - 1
      PROVE  /\ more[i].instance_start # None
             /\ more[i + 1].table \in more[i].table.nested
             /\ Tag(m, more[i + 1].count_slot) = more[i + 1].table.count_tag
  <2>1. i + 1 = k \/ i + 1 \in 1 .. k - 1
    BY <1>1
  <2>2. more[i + 1].table = frames[i + 1].table /\ more[i + 1].count_slot = frames[i + 1].count_slot
    BY <1>3, <2>1
  <2> QED BY <1>3, <2>2 DEF StackInv
<1>6. StackInv(m, more, n)
  BY <1>3, <1>4, <1>5 DEF StackInv
<1> QED BY <1>3, <1>6 DEF more, below_it

\* The innermost walk calls that of a nested group, which its last field counts.
LEMMA FramePushed ==
  ASSUME NEW m, NEW T, NEW frames \in Seq(T), NEW c, StackInv(m, frames, c + 1),
         frames # <<>>, NEW g \in T, FrameInv(m, g, c + 1), g.count_slot = c,
         frames[Len(frames)].instance_start # None,
         g.table \in frames[Len(frames)].table.nested, Tag(m, c) = g.table.count_tag
  PROVE  /\ Append(frames, g) \in Seq(T)
         /\ StackInv(m, Append(frames, g), c + 1)
<1> DEFINE k == Len(frames)
           more == Append(frames, g)
<1>1. /\ k \in Nat /\ k >= 1
      /\ more \in Seq(T) /\ Len(more) = k + 1 /\ more[k + 1] = g
      /\ \A i \in 1 .. k : more[i] = frames[i]
  OBVIOUS
<1> HIDE DEF more
<1>2. ASSUME NEW i \in 1 .. k + 1 PROVE FrameInv(m, more[i], Reach(more, c + 1, i))
  <2>1. CASE i = k + 1
    BY <1>1, <2>1 DEF Reach
  <2>2. CASE i = k
    <3>1. Reach(more, c + 1, i) = c + 1 /\ Reach(frames, c + 1, k) = c + 1
      BY <1>1, <2>2 DEF Reach
    <3>2. FrameInv(m, frames[k], c + 1)
      BY <1>1, <3>1 DEF StackInv
    <3> QED BY <1>1, <2>2, <3>1, <3>2
  <2>3. CASE i # k + 1 /\ i # k
    <3>1. i \in 1 .. k - 1 /\ i \in 1 .. k /\ i + 1 \in 1 .. k
      BY <1>1, <2>3
    <3>2. Reach(more, c + 1, i) = Reach(frames, c + 1, i)
      BY <1>1, <2>3, <3>1 DEF Reach
    <3>3. FrameInv(m, frames[i], Reach(frames, c + 1, i))
      BY <3>1 DEF StackInv
    <3> QED BY <1>1, <3>1, <3>2, <3>3
  <2> QED BY <2>1, <2>2, <2>3
<1>3. ASSUME NEW i \in 1 .. k
      PROVE  /\ more[i].instance_start # None
             /\ more[i + 1].table \in more[i].table.nested
             /\ Tag(m, more[i + 1].count_slot) = more[i + 1].table.count_tag
  <2>1. CASE i = k
    BY <1>1, <2>1
  <2>2. CASE i # k
    <3>1. i \in 1 .. k - 1 /\ i + 1 \in 1 .. k
      BY <1>1, <2>2
    <3> QED BY <1>1, <3>1 DEF StackInv
  <2> QED BY <2>1, <2>2
<1>4. StackInv(m, more, c + 1)
  <2>1. \A i \in 1 .. Len(more) - 1 : i \in 1 .. k
    BY <1>1
  <2> QED BY <1>1, <1>2, <1>3, <2>1 DEF StackInv
<1> QED BY <1>1, <1>4 DEF more

\* The innermost walk returns, and the one that called it comes to n.
LEMMA FramePopped ==
  ASSUME NEW m, NEW T, NEW frames \in Seq(T), NEW s, NEW n, StackInv(m, frames, s),
         Len(frames) > 1, NEW g \in T, FrameInv(m, g, n),
         g.table = frames[Len(frames) - 1].table,
         g.count_slot = frames[Len(frames) - 1].count_slot
  PROVE  LET less == [i \in 1 .. Len(frames) - 1 |->
                        IF i = Len(frames) - 1 THEN g ELSE frames[i]]
         IN  less \in Seq(T) /\ StackInv(m, less, n)
<1> DEFINE k == Len(frames) - 1
           less == [i \in 1 .. k |-> IF i = k THEN g ELSE frames[i]]
<1>1. /\ k \in Nat /\ k >= 1 /\ Len(frames) = k + 1 /\ Len(frames) - 1 = k
      /\ g.table = frames[k].table /\ g.count_slot = frames[k].count_slot
      /\ \A i \in 1 .. k : frames[i] \in T
  OBVIOUS
<1> HIDE DEF k
<1>2. /\ less \in Seq(T) /\ Len(less) = k /\ less[k] = g
      /\ \A i \in 1 .. k - 1 : less[i] = frames[i]
  <2>1. \A i \in 1 .. k : less[i] \in T
    BY <1>1
  <2>2. less \in Seq(T)
    BY <1>1, <2>1
  <2>3. Len(less) = k
    BY <1>1
  <2> QED BY <1>1, <2>2, <2>3
<1> HIDE DEF less
<1>3. ASSUME NEW i \in 1 .. k PROVE FrameInv(m, less[i], Reach(less, n, i))
  <2>1. CASE i = k
    BY <1>2, <2>1 DEF Reach
  <2>2. CASE i # k
    <3>1. i \in 1 .. k - 1 /\ i + 1 \in 1 .. k /\ i \in 1 .. Len(frames) /\ i # Len(frames)
      BY <1>1, <2>2
    <3>2. less[i + 1].count_slot = frames[i + 1].count_slot
      <4>1. i + 1 = k \/ i + 1 \in 1 .. k - 1
        BY <1>1, <3>1
      <4> QED BY <1>1, <1>2, <4>1
    <3>3. Reach(less, n, i) = Reach(frames, s, i)
      BY <1>2, <2>2, <3>1, <3>2 DEF Reach
    <3>4. FrameInv(m, frames[i], Reach(frames, s, i))
      BY <3>1 DEF StackInv
    <3> QED BY <1>2, <3>1, <3>3, <3>4
  <2> QED BY <2>1, <2>2
<1>4. ASSUME NEW i \in 1 .. k - 1
      PROVE  /\ less[i].instance_start # None
             /\ less[i + 1].table \in less[i].table.nested
             /\ Tag(m, less[i + 1].count_slot) = less[i + 1].table.count_tag
  <2>1. i + 1 = k \/ i + 1 \in 1 .. k - 1
    BY <1>1
  <2>2. less[i + 1].table = frames[i + 1].table /\ less[i + 1].count_slot = frames[i + 1].count_slot
    BY <1>1, <1>2, <2>1
  <2>3. i \in 1 .. Len(frames) - 1
    BY <1>1
  <2> QED BY <1>2, <2>2, <2>3 DEF StackInv
<1>5. StackInv(m, less, n)
  BY <1>2, <1>3, <1>4 DEF StackInv
<1> QED BY <1>2, <1>5 DEF less, k

-----------------------------------------------------------------------------
(* The steps. *)

LEMMA MessageType ==
  ASSUME message \in Messages
  PROVE  /\ Len(message.fields) \in Nat
         /\ \A s \in 0 .. Len(message.fields) - 1 :
              /\ Tag(message, s) \in Nat
              /\ message.fields[s + 1].count \in Nat \cup {None}
<1> DEFINE F == message.fields
<1>1. F \in Seq([tag : Nat, count : Nat \cup {None}])
  BY MessageAssumption
<1> HIDE DEF F
<1>2. ASSUME NEW s \in 0 .. Len(F) - 1
      PROVE  F[s + 1].tag \in Nat /\ F[s + 1].count \in Nat \cup {None}
  <2>1. s + 1 \in 1 .. Len(F)
    BY <1>1
  <2>2. F[s + 1] \in [tag : Nat, count : Nat \cup {None}]
    BY <1>1, <2>1, ElementOfSeq
  <2> QED BY <2>2
<1>3. Len(F) \in Nat
  BY <1>1
<1> QED BY <1>2, <1>3 DEF F, Tag

\* The state of a call in progress.
LEMMA InCall ==
  ASSUME IInv, stack # <<>>
  PROVE  /\ Len(stack) \in Nat \ {0}
         /\ top \in FrameType(walks)
         /\ FrameInv(message, top, slot)
         /\ Len(message.fields) \in Nat /\ slot \in Nat /\ scope.end \in Nat
         /\ slot <= scope.end /\ scope.end <= Len(message.fields)
         /\ slot < scope.end => Tag(message, slot) \in Nat
<1>1. /\ message \in Messages /\ scope \in ScopeType /\ scope.end <= Len(message.fields)
      /\ slot \in 0 .. scope.end /\ stack \in Seq(FrameType(walks))
      /\ StackInv(message, stack, slot)
  BY DEF IInv, TypeOK
<1>2. scope.end \in Nat
  BY <1>1 DEF ScopeType
<1>3. /\ Len(message.fields) \in Nat
      /\ \A s \in 0 .. Len(message.fields) - 1 : Tag(message, s) \in Nat
  BY <1>1, MessageType
<1>4. /\ Len(stack) \in Nat \ {0} /\ top \in FrameType(walks) /\ FrameInv(message, top, slot)
  BY <1>1, TopFrame DEF top
<1>5. slot < scope.end => slot \in 0 .. Len(message.fields) - 1
  BY <1>1, <1>2, <1>3
<1> QED BY <1>1, <1>2, <1>3, <1>4, <1>5

LEMMA InitInv == Init => IInv
<1> SUFFICES ASSUME Init PROVE IInv
  OBVIOUS
<1>1. /\ message \in Messages /\ scope = Scope(0, Len(message.fields))
      /\ stack = <<>> /\ slot = 0 /\ walks = {}
  BY DEF Init
<1>2. Len(message.fields) \in Nat
  BY <1>1, MessageType
<1>3. scope \in ScopeType /\ scope.end = Len(message.fields)
  BY <1>1, <1>2 DEF Scope, ScopeType
<1>4. StackInv(message, stack, slot)
  BY <1>1 DEF StackInv
<1> QED BY <1>1, <1>2, <1>3, <1>4 DEF IInv, TypeOK

\* A call of walk_group, for any table and any scope of the message.
LEMMA CallInv ==
  ASSUME IInv, NEW sc \in ScopeType, sc.end <= Len(message.fields), NEW table \in Tables,
         walk_group(sc, table)
  PROVE  IInv'
<1> DEFINE c == find(sc, table.count_tag)
           f == Frame(table, c)
<1>1. /\ message \in Messages /\ Len(message.fields) \in Nat
      /\ sc.start \in Nat /\ sc.end \in Nat
      /\ \A s \in 0 .. Len(message.fields) - 1 : message.fields[s + 1].count \in Nat \cup {None}
  BY MessageType DEF IInv, TypeOK, ScopeType
<1>2. /\ stack' = <<f>> /\ slot' = c + 1 /\ scope' = sc
      /\ message' = message /\ walks' = walks
      /\ Slots(sc, table.count_tag) # {}
  BY DEF walk_group
<1>3. c \in Slots(sc, table.count_tag)
  <2> DEFINE S == Slots(sc, table.count_tag)
  <2>1. S \subseteq Nat
    BY <1>1 DEF Slots
  <2>2. c = Least(S)
    BY DEF find, Least
  <2>3. Least(S) \in S
    <3> HIDE DEF S
    <3> QED BY <1>2, <2>1, LeastProperties DEF S
  <2> QED BY <2>2, <2>3
<1>4. c \in Nat /\ c + 1 <= sc.end /\ c \in 0 .. Len(message.fields) - 1
  BY <1>1, <1>3 DEF Slots
<1> HIDE DEF c
<1>5. /\ f.table = table /\ f.count_slot = c /\ f.declared = message.fields[c + 1].count
      /\ f.instances = <<>> /\ f.instance_start = None /\ f.inner = {}
      /\ f.anomalies = IF f.declared = None THEN <<InvalidCount>> ELSE <<>>
  BY DEF Frame
<1>6. f \in FrameType(walks)
  <2>1. f.anomalies \in Seq(Anomaly)
    <3>1. InvalidCount \in Anomaly
      BY DEF Anomaly
    <3>2. <<InvalidCount>> \in Seq(Anomaly) /\ <<>> \in Seq(Anomaly)
      BY <3>1
    <3> QED BY <1>5, <3>2, Zenon
  <2>2. message.fields[c + 1].count \in Nat \cup {None}
    BY <1>1, <1>4
  <2> QED BY <1>4, <2>1, <2>2 DEF Frame, FrameType
<1> HIDE DEF f
<1>7. FrameInv(message, f, c + 1)
  <2>1. c + 1 <= Len(message.fields)
    BY <1>4
  <2>2. f.declared = None => f.anomalies # <<>>
    BY <1>5
  <2>3. f.table \in Tables
    BY <1>5
  <2> QED BY <1>4, <1>5, <2>1, <2>2, <2>3, WalkBegun
<1>8. /\ <<f>> \in Seq(FrameType(walks))
      /\ StackInv(message, <<f>>, c + 1)
  <2>1. <<f>> \in Seq(FrameType(walks)) /\ Len(<<f>>) = 1 /\ <<f>>[1] = f
    BY <1>6
  <2>2. \A i \in 1 .. 1 : i = 1
    OBVIOUS
  <2>3. Reach(<<f>>, c + 1, 1) = c + 1
    BY <2>1 DEF Reach
  <2>4. 1 .. 1 - 1 = {}
    OBVIOUS
  <2> QED BY <1>7, <2>1, <2>2, <2>3, <2>4 DEF StackInv
<1>9. TypeOK'
  <2>1. c + 1 \in 0 .. sc.end
    BY <1>1, <1>4
  <2> QED BY <1>1, <1>2, <1>8, <2>1 DEF IInv, TypeOK
<1>10. StackInv(message, stack, slot)'
  BY <1>2, <1>8
<1>11. \A w \in walks' : WalkInv(message', w)
  BY <1>2 DEF IInv
<1> QED BY <1>9, <1>10, <1>11 DEF IInv

LEMMA TakeUnknownInv ==
  ASSUME IInv, TakeUnknown
  PROVE  IInv'
<1>1. /\ stack # <<>> /\ slot < scope.end /\ tag_at(slot) # CHECK_SUM
      /\ tag_at(slot) \notin known /\ tag_at(slot) \notin top.table.members
      /\ slot' = slot + 1 /\ UNCHANGED <<message, scope, stack, walks>>
  BY DEF TakeUnknown, Belongs
<1>2. /\ Len(stack) \in Nat \ {0}
      /\ FrameInv(message, top, slot)
      /\ Len(message.fields) \in Nat /\ slot \in Nat /\ scope.end \in Nat
      /\ slot < Len(message.fields)
  <2>1. /\ Len(stack) \in Nat \ {0} /\ FrameInv(message, top, slot)
        /\ Len(message.fields) \in Nat /\ slot \in Nat /\ scope.end \in Nat
        /\ slot <= scope.end /\ scope.end <= Len(message.fields)
    BY <1>1, InCall
  <2> QED BY <1>1, <2>1
<1>3. FrameInv(message, top, slot + 1)
  BY <1>1, <1>2, UnknownTaken DEF tag_at, Tag
<1>4. ASSUME NEW i \in 1 .. Len(stack)
      PROVE  FrameInv(message, stack[i], Reach(stack, slot + 1, i))
  <2>1. CASE i = Len(stack)
    BY <1>3, <2>1 DEF Reach, top
  <2>2. CASE i # Len(stack)
    BY <2>2 DEF IInv, StackInv, Reach
  <2> QED BY <2>1, <2>2
<1>5. StackInv(message, stack, slot + 1)
  BY <1>4 DEF IInv, StackInv
<1>6. TypeOK'
  <2>1. slot + 1 \in 0 .. scope.end
    BY <1>1, <1>2
  <2> QED BY <1>1, <2>1 DEF IInv, TypeOK
<1>7. StackInv(message, stack, slot)' /\ \A w \in walks' : WalkInv(message', w)
  BY <1>1, <1>5 DEF IInv
<1> QED BY <1>6, <1>7 DEF IInv

\* The frame of a walk that has taken a member, in either case.
LEMMA WithMemberInv ==
  ASSUME IInv, stack # <<>>, Belongs, tag_at(slot) \in top.table.members
  PROVE  LET g == WithMember(tag_at(slot))
         IN  /\ g \in FrameType(walks) /\ FrameInv(message, g, slot + 1)
             /\ g.table = top.table /\ g.count_slot = top.count_slot
             /\ g.instance_start # None
<1> DEFINE tag == tag_at(slot)
           f == top
           g == WithMember(tag)
<1>1. /\ f \in FrameType(walks) /\ FrameInv(message, f, slot)
      /\ Len(message.fields) \in Nat /\ slot \in Nat /\ scope.end \in Nat
      /\ slot <= scope.end /\ scope.end <= Len(message.fields)
      /\ slot < scope.end /\ tag # CHECK_SUM /\ tag \in Nat
  BY InCall DEF Belongs, tag_at, Tag
<1>2. slot < Len(message.fields) /\ tag = Tag(message, slot)
  BY <1>1 DEF tag_at, Tag
<1>3. /\ f.table \in Tables /\ f.count_slot \in Nat /\ f.declared \in Nat \cup {None}
      /\ f.instances \in Seq(ScopeType) /\ f.instance_start \in Nat \cup {None}
      /\ f.seen \in SUBSET Nat /\ f.inner \in SUBSET walks /\ f.anomalies \in Seq(Anomaly)
  BY <1>1 DEF FrameType
<1>4. CASE f.instance_start = None \/ tag \in f.seen
  <2> DEFINE anomalies == IF tag = f.table.delimiter THEN f.anomalies
                          ELSE Append(f.anomalies, MissingDelimiter(tag))
  <2>1. g = [f EXCEPT !.instances = Closed(f), !.instance_start = slot, !.seen = {tag},
                      !.anomalies = anomalies]
    BY <1>4 DEF WithMember, InNewInstance
  <2>2. Closed(f) = ClosedAt(f, slot)
    BY DEF Closed, ClosedAt
  <2>3. ClosedAt(f, slot) \in Seq(ScopeType)
    BY <1>1, Closing DEF Sound
  <2>4. anomalies \in Seq(Anomaly) /\ (anomalies = <<>> => f.anomalies = <<>> /\ tag = f.table.delimiter)
    <3>1. MissingDelimiter(tag) \in Anomaly
      BY <1>1 DEF MissingDelimiter, Anomaly
    <3>2. Append(f.anomalies, MissingDelimiter(tag)) \in Seq(Anomaly)
      BY <1>3, <3>1
    <3>3. Append(f.anomalies, MissingDelimiter(tag)) # <<>>
      BY <1>3, <3>1
    <3> QED BY <1>3, <3>2, <3>3
  <2> HIDE DEF anomalies, f, tag
  <2>5. /\ g \in FrameType(walks)
        /\ g.table = f.table /\ g.count_slot = f.count_slot /\ g.declared = f.declared
        /\ g.instances = ClosedAt(f, slot) /\ g.instance_start = slot /\ g.seen = {tag}
        /\ g.inner = f.inner /\ g.anomalies = anomalies
    <3> DEFINE closed == ClosedAt(f, slot)
    <3>1. {tag} \in SUBSET Nat /\ slot \in Nat \cup {None}
      BY <1>1
    <3>2. closed \in Seq(ScopeType) /\ anomalies \in Seq(Anomaly)
      BY <2>3, <2>4
    <3>3. g = [f EXCEPT !.instances = closed, !.instance_start = slot, !.seen = {tag},
                        !.anomalies = anomalies]
      BY <2>1, <2>2
    <3> HIDE DEF g, closed
    <3>4. g \in FrameType(walks)
      BY <1>1, <3>1, <3>2, <3>3 DEF FrameType
    <3> QED BY <1>1, <3>3, <3>4 DEF FrameType, closed
  <2> HIDE DEF g
  <2>6. FrameInv(message, g, slot + 1)
    <3>1. tag \in f.table.members
      BY DEF f, tag
    <3> QED BY <1>1, <1>2, <2>4, <2>5, <3>1, InstanceStarted
  <2>7. slot # None
    BY <1>1 DEF None
  <2> QED BY <2>5, <2>6, <2>7 DEF f, g, tag
<1>5. CASE ~(f.instance_start = None \/ tag \in f.seen)
  <2>1. g = [f EXCEPT !.seen = @ \cup {tag}]
    BY <1>5 DEF WithMember, InOpenInstance
  <2> HIDE DEF f, tag
  <2>2. /\ g \in FrameType(walks)
        /\ g.table = f.table /\ g.count_slot = f.count_slot /\ g.declared = f.declared
        /\ g.instances = f.instances /\ g.instance_start = f.instance_start
        /\ g.seen = f.seen \cup {tag} /\ g.inner = f.inner /\ g.anomalies = f.anomalies
    <3>1. f.seen \cup {tag} \in SUBSET Nat
      BY <1>1, <1>3
    <3> QED BY <1>1, <2>1, <3>1 DEF FrameType
  <2> HIDE DEF g
  <2>3. FrameInv(message, g, slot + 1)
    <3>1. tag \in f.table.members
      BY DEF f, tag
    <3> QED BY <1>1, <1>2, <1>5, <2>2, <3>1, MemberTaken
  <2> QED BY <1>5, <2>2, <2>3 DEF f, g, tag
<1> QED BY <1>4, <1>5

LEMMA TakeMemberInv ==
  ASSUME IInv, TakeMember
  PROVE  IInv'
<1> DEFINE tag == tag_at(slot)
           g == WithMember(tag)
           walked == Append(below, g)
<1>1. /\ stack # <<>> /\ Belongs /\ tag \in top.table.members
      /\ slot' = slot + 1 /\ UNCHANGED <<message, scope, walks>>
      /\ \/ stack' = walked
         \/ \E frame \in NestedFrames(tag) : stack' = Append(walked, frame)
  BY DEF TakeMember
<1>2. /\ stack \in Seq(FrameType(walks)) /\ StackInv(message, stack, slot)
      /\ message \in Messages
  BY DEF IInv, TypeOK
<1>3. /\ Len(message.fields) \in Nat /\ slot \in Nat /\ scope.end \in Nat
      /\ slot < scope.end /\ scope.end <= Len(message.fields) /\ tag = Tag(message, slot)
  BY <1>1, InCall DEF Belongs, tag_at, Tag
<1>4. /\ g \in FrameType(walks) /\ FrameInv(message, g, slot + 1)
      /\ g.table = top.table /\ g.count_slot = top.count_slot
      /\ g.instance_start # None
  BY <1>1, WithMemberInv
<1> HIDE DEF g
<1>5. /\ walked \in Seq(FrameType(walks)) /\ Len(walked) = Len(stack)
      /\ walked[Len(stack)] = g /\ StackInv(message, walked, slot + 1)
  <2> DEFINE more == Append(SubSeq(stack, 1, Len(stack) - 1), g)
  <2>1. g.table = stack[Len(stack)].table /\ g.count_slot = stack[Len(stack)].count_slot
    BY <1>4 DEF top
  <2> DEFINE T == FrameType(walks)
  <2>2. stack \in Seq(T) /\ g \in T /\ stack # <<>>
    BY <1>1, <1>2, <1>4
  <2>3. FrameInv(message, g, slot + 1) /\ StackInv(message, stack, slot)
    BY <1>2, <1>4
  <2> HIDE DEF T
  <2>4. /\ more \in Seq(T) /\ Len(more) = Len(stack)
        /\ more[Len(stack)] = g /\ StackInv(message, more, slot + 1)
    BY <2>1, <2>2, <2>3, TopReplaced
  <2> QED BY <2>4 DEF below, T
<1>6. stack' \in Seq(FrameType(walks)) /\ StackInv(message, stack', slot + 1)
  <2>1. CASE stack' = walked
    BY <1>5, <2>1
  <2>2. ASSUME NEW frame \in NestedFrames(tag), stack' = Append(walked, frame)
        PROVE  stack' \in Seq(FrameType(walks)) /\ StackInv(message, stack', slot + 1)
    <3>1. PICK n \in top.table.nested : n.count_tag = tag /\ frame = Frame(n, slot)
      BY DEF NestedFrames
    <3>2. n \in Tables
      <4>1. top.table \in Tables
        BY <1>1, InCall DEF FrameType
      <4> QED BY <4>1, TableAssumption
    <3>3. /\ frame.table = n /\ frame.count_slot = slot
          /\ frame.declared = message.fields[slot + 1].count
          /\ frame.instances = <<>> /\ frame.instance_start = None /\ frame.inner = {}
          /\ frame.anomalies = IF frame.declared = None THEN <<InvalidCount>> ELSE <<>>
      BY <3>1 DEF Frame
    <3>4. frame \in FrameType(walks)
      <4>1. frame.anomalies \in Seq(Anomaly)
        <5>1. InvalidCount \in Anomaly
          BY DEF Anomaly
        <5>2. <<InvalidCount>> \in Seq(Anomaly) /\ <<>> \in Seq(Anomaly)
          BY <5>1
        <5> QED BY <3>3, <5>2, Zenon
      <4>2. message.fields[slot + 1].count \in Nat \cup {None}
        <5>1. slot \in 0 .. Len(message.fields) - 1
          BY <1>3
        <5> QED BY <1>2, <5>1, MessageType
      <4> QED BY <1>3, <3>1, <3>2, <4>1, <4>2 DEF Frame, FrameType
    <3>5. FrameInv(message, frame, slot + 1)
      <4>1. slot + 1 <= Len(message.fields)
        BY <1>3
      <4>2. frame.declared = None => frame.anomalies # <<>>
        BY <3>3
      <4> QED BY <1>3, <3>2, <3>3, <4>1, <4>2, WalkBegun
    <3>6. walked # <<>>
      <4>1. Len(stack) \in Nat \ {0}
        BY <1>1, InCall
      <4> HIDE DEF walked
      <4> QED BY <1>5, <4>1
    <3>7. /\ frame.table \in walked[Len(walked)].table.nested
          /\ walked[Len(walked)].instance_start # None
          /\ Tag(message, slot) = frame.table.count_tag
      <4> HIDE DEF walked, tag
      <4> QED BY <1>3, <1>4, <1>5, <3>1, <3>3
    <3> HIDE DEF walked
    <3> QED BY <1>5, <2>2, <3>3, <3>4, <3>5, <3>6, <3>7, FramePushed
  <2> QED BY <1>1, <2>1, <2>2
<1>7. TypeOK'
  <2>1. slot + 1 \in 0 .. scope.end
    BY <1>3
  <2> QED BY <1>1, <1>6, <2>1 DEF IInv, TypeOK
<1>8. StackInv(message, stack, slot)' /\ \A w \in walks' : WalkInv(message', w)
  BY <1>1, <1>6 DEF IInv
<1> QED BY <1>7, <1>8 DEF IInv

\* What a walk returns is sound, and it ended for a reason.
LEMMA WalkedInv ==
  ASSUME IInv, stack # <<>>, ~Belongs
  PROVE  /\ Walked \in WalkType(walks) /\ WalkInv(message, Walked)
         /\ Walked.table = top.table /\ Walked.count_slot = top.count_slot
         /\ Walked.end = slot /\ Walked.inner = top.inner
<1> DEFINE f == top
           w == Walked
           instances == ClosedAt(f, slot)
           mismatch == f.declared # None /\ f.declared # Len(instances)
           anomalies == IF mismatch
                          THEN Append(f.anomalies, CountMismatch(f.declared, Len(instances)))
                          ELSE f.anomalies
<1>1. /\ f \in FrameType(walks) /\ FrameInv(message, f, slot)
      /\ Len(message.fields) \in Nat /\ slot \in Nat /\ scope.end \in Nat
      /\ slot <= scope.end /\ scope.end <= Len(message.fields) /\ scope \in ScopeType
  BY InCall DEF IInv, TypeOK
<1>2. /\ f.table \in Tables /\ f.count_slot \in Nat /\ f.declared \in Nat \cup {None}
      /\ f.inner \in SUBSET walks /\ f.anomalies \in Seq(Anomaly)
  BY <1>1 DEF FrameType
<1>3. Sound(message, f, instances, slot)
  BY <1>1, Closing
<1>4. instances \in Seq(ScopeType) /\ Len(instances) \in Nat
  BY <1>3 DEF Sound
<1>5. w = [table |-> f.table, scope |-> scope, count_slot |-> f.count_slot, end |-> slot,
           instances |-> instances, inner |-> f.inner, anomalies |-> anomalies]
  BY DEF Walked, Closed, ClosedAt
<1> HIDE DEF f, w, instances
<1>6. /\ w.table = f.table /\ w.scope = scope /\ w.count_slot = f.count_slot /\ w.end = slot
      /\ w.instances = instances /\ w.inner = f.inner /\ w.anomalies = anomalies
  BY <1>5
<1>7. /\ anomalies \in Seq(Anomaly)
      /\ anomalies = <<>> => f.anomalies = <<>> /\ ~mismatch
  <2>1. mismatch => CountMismatch(f.declared, Len(instances)) \in Anomaly
    BY <1>2, <1>4 DEF CountMismatch, Anomaly
  <2>2. mismatch => /\ Append(f.anomalies, CountMismatch(f.declared, Len(instances))) \in Seq(Anomaly)
                    /\ Append(f.anomalies, CountMismatch(f.declared, Len(instances))) # <<>>
    BY <1>2, <2>1
  <2> QED BY <1>2, <2>2
<1>8. w \in WalkType(walks)
  <2> HIDE DEF anomalies, mismatch
  <2> QED BY <1>1, <1>2, <1>4, <1>5, <1>7 DEF WalkType
<1> HIDE DEF anomalies
<1>9. Sound(message, w, w.instances, w.end)
  <2>1. /\ \A one : Unrepeated(message, w, one) <=> Unrepeated(message, f, one)
        /\ \A n : Delimiters(message, w, n) = Delimiters(message, f, n)
        /\ \A n : InnerWalks(message, w, n) <=> InnerWalks(message, f, n)
        /\ \A n : Covers(message, w, n) <=> Covers(message, f, n)
        /\ \A split, n : Tiles(message, w, split, n) <=> Tiles(message, f, split, n)
    BY <1>6, SameOwn
  <2>2. w.anomalies = <<>> => f.anomalies = <<>>
    BY <1>6, <1>7
  <2> QED BY <1>3, <1>6, <2>1, <2>2 DEF Sound
<1>10. \/ w.end = w.scope.end
       \/ Tag(message, w.end) = CHECK_SUM
       \/ Tag(message, w.end) \in known \ w.table.members
  <2>1. tag_at(slot) = Tag(message, slot)
    BY DEF tag_at, Tag
  <2>2. ~(slot < scope.end) => slot = scope.end
    BY <1>1
  <2> QED BY <1>6, <2>1, <2>2 DEF Belongs, f
<1>11. w.anomalies = <<>> => message.fields[w.count_slot + 1].count = Len(w.instances)
  <2>1. /\ f.declared = message.fields[f.count_slot + 1].count
        /\ f.declared = None => f.anomalies # <<>>
    BY <1>1 DEF FrameInv
  <2> QED BY <1>6, <1>7, <2>1
<1>12. WalkInv(message, w)
  BY <1>1, <1>6, <1>9, <1>10, <1>11 DEF WalkInv
<1> QED BY <1>6, <1>8, <1>12 DEF w, f

\* A sequence over a set is a sequence over every larger set.
LEMMA SeqOfLarger ==
  ASSUME NEW S, NEW T, S \subseteq T, NEW s, s \in Seq(S)
  PROVE  s \in Seq(T)
<1>1. /\ Len(s) \in Nat /\ s = [i \in 1 .. Len(s) |-> s[i]]
      /\ \A i \in 1 .. Len(s) : s[i] \in S
  OBVIOUS
<1>2. \A i \in 1 .. Len(s) : s[i] \in T
  BY <1>1
<1>3. [i \in 1 .. Len(s) |-> s[i]] \in Seq(T)
  BY <1>1, <1>2
<1> QED BY <1>1, <1>3

LEMMA EndGroupInv ==
  ASSUME IInv, EndGroup
  PROVE  IInv'
<1> DEFINE v == Walked
           k == Len(stack)
           more == walks \cup {v}
<1>1. /\ stack # <<>> /\ ~Belongs /\ walks' = more /\ stack' = Returned
      /\ UNCHANGED <<message, scope, slot>>
  BY DEF EndGroup
<1>2. /\ stack \in Seq(FrameType(walks)) /\ walks \subseteq WalkType(walks)
      /\ StackInv(message, stack, slot) /\ \A w \in walks : WalkInv(message, w)
  BY DEF IInv, TypeOK
<1>3. /\ v \in WalkType(walks) /\ WalkInv(message, v)
      /\ v.table = top.table /\ v.count_slot = top.count_slot /\ v.end = slot
  BY <1>1, WalkedInv
<1>4. /\ k \in Nat \ {0} /\ FrameInv(message, top, slot)
      /\ Len(message.fields) \in Nat /\ slot \in Nat /\ slot <= Len(message.fields)
  <2>1. /\ k \in Nat \ {0} /\ FrameInv(message, top, slot)
        /\ Len(message.fields) \in Nat /\ slot \in Nat /\ scope.end \in Nat
        /\ slot <= scope.end /\ scope.end <= Len(message.fields)
    BY <1>1, InCall
  <2> QED BY <2>1
<1> HIDE DEF v
<1>5. FrameType(walks) \subseteq FrameType(more) /\ WalkType(walks) \subseteq WalkType(more)
  <2>1. SUBSET walks \subseteq SUBSET more
    OBVIOUS
  <2> HIDE DEF more
  <2>2. FrameType(walks) \subseteq FrameType(more)
    BY <2>1 DEF FrameType
  <2>3. WalkType(walks) \subseteq WalkType(more)
    BY <2>1 DEF WalkType
  <2> QED BY <2>2, <2>3
<1>6. stack \in Seq(FrameType(more))
  BY <1>2, <1>5, SeqOfLarger
<1>7. stack' \in Seq(FrameType(more)) /\ StackInv(message, stack', slot)
  <2>1. CASE k = 1
    <3>1. 1 .. k - 1 = {}
      BY <2>1
    <3>2. Returned = <<>>
      BY <3>1 DEF Returned
    <3> QED BY <1>1, <3>2 DEF StackInv
  <2>2. CASE k # 1
    <3>1. k > 1 /\ k - 1 \in 1 .. k - 1 /\ k - 1 \in 1 .. k /\ k - 1 + 1 = k /\ k - 1 # k
      <4>1. k \in Nat /\ k >= 1
        BY <1>4
      <4> HIDE DEF k
      <4> QED BY <2>2, <4>1
    <3> DEFINE f == stack[k - 1]
               g == [f EXCEPT !.inner = @ \cup {v}]
    <3>2. /\ f \in FrameType(walks) /\ FrameInv(message, f, top.count_slot + 1)
          /\ f.instance_start # None /\ top.table \in f.table.nested
          /\ Tag(message, top.count_slot) = top.table.count_tag
      <4>1. Reach(stack, slot, k - 1) = top.count_slot + 1
        BY <3>1 DEF Reach, top
      <4>2. f \in FrameType(walks)
        BY <1>2, <3>1, ElementOfSeq
      <4> QED BY <1>2, <3>1, <4>1, <4>2 DEF StackInv, top
    <3> HIDE DEF f
    <3>3. /\ g \in FrameType(more)
          /\ g.table = f.table /\ g.count_slot = f.count_slot /\ g.declared = f.declared
          /\ g.instances = f.instances /\ g.instance_start = f.instance_start
          /\ g.seen = f.seen /\ g.inner = f.inner \cup {v} /\ g.anomalies = f.anomalies
      <4>1. f.inner \cup {v} \in SUBSET more
        BY <3>2 DEF FrameType
      <4> HIDE DEF more
      <4>2. f \in FrameType(more)
        BY <1>5, <3>2
      <4> QED BY <4>1, <4>2 DEF FrameType
    <3> HIDE DEF g
    <3>4. top.count_slot \in Nat /\ top.count_slot < slot
      BY <1>4 DEF FrameInv
    <3>5. \A s \in top.count_slot + 1 .. slot - 1 : Tag(message, s) # CHECK_SUM
      BY <1>4 DEF FrameInv, Covers
    <3>6. FrameInv(message, g, slot)
      BY <1>3, <1>4, <3>2, <3>3, <3>4, <3>5, NestedEnded
    <3>7. Returned = [i \in 1 .. k - 1 |-> IF i = k - 1 THEN g ELSE stack[i]]
      BY <3>1 DEF Returned, g, f, v
    <3>8. g.table = stack[k - 1].table /\ g.count_slot = stack[k - 1].count_slot
      BY <3>3 DEF f
    <3> DEFINE T == FrameType(more)
    <3>9. g \in T /\ stack \in Seq(T)
      BY <1>6, <3>3
    <3> HIDE DEF T
    <3>10. /\ [i \in 1 .. k - 1 |-> IF i = k - 1 THEN g ELSE stack[i]] \in Seq(T)
           /\ StackInv(message, [i \in 1 .. k - 1 |-> IF i = k - 1 THEN g ELSE stack[i]], slot)
      BY <1>2, <3>1, <3>6, <3>8, <3>9, FramePopped
    <3> QED BY <1>1, <3>7, <3>10 DEF T
  <2> QED BY <2>1, <2>2
<1>8. more \subseteq WalkType(more) /\ \A w \in more : WalkInv(message, w)
  BY <1>2, <1>3, <1>5
<1>9. TypeOK'
  <2> HIDE DEF more
  <2> QED BY <1>1, <1>7, <1>8 DEF IInv, TypeOK
<1>10. StackInv(message, stack, slot)' /\ \A w \in walks' : WalkInv(message', w)
  BY <1>1, <1>7, <1>8
<1> QED BY <1>9, <1>10 DEF IInv

LEMMA NextInv == IInv /\ [Next]_vars => IInv'
<1> SUFFICES ASSUME IInv, [Next]_vars PROVE IInv'
  OBVIOUS
<1>1. CASE ReadMessage
  <2>1. Len(message.fields) \in Nat
    BY MessageType DEF IInv, TypeOK
  <2>2. Scope(0, Len(message.fields)) \in ScopeType
        /\ Scope(0, Len(message.fields)).end <= Len(message.fields)
    BY <2>1 DEF Scope, ScopeType
  <2> QED BY <1>1, <2>2, CallInv, TableAssumption DEF ReadMessage
<1>2. CASE ReadInstance
  <2>1. PICK w \in walks : \E i \in 1 .. Len(w.instances) : \E n \in w.table.nested :
                              walk_group(w.instances[i], n)
    BY <1>2 DEF ReadInstance
  <2>2. PICK i \in 1 .. Len(w.instances), n \in w.table.nested : walk_group(w.instances[i], n)
    BY <2>1
  <2> DEFINE sc == w.instances[i]
  <2>3. /\ w.table \in Tables /\ w.instances \in Seq(ScopeType)
        /\ sc.end <= w.end /\ w.end \in Nat
        /\ w.end <= w.scope.end /\ w.scope.end <= Len(message.fields)
    BY DEF IInv, WalkInv, Sound, Tiles
  <2>4. sc \in ScopeType
    BY <2>3, ElementOfSeq
  <2>5. n \in Tables
    BY <2>3, TableAssumption
  <2>6. Len(message.fields) \in Nat /\ w.scope.end \in Nat
    BY MessageType DEF IInv, TypeOK, WalkType, ScopeType
  <2>7. sc.end <= Len(message.fields)
    <3>1. sc.end \in Nat
      BY <2>4 DEF ScopeType
    <3> HIDE DEF sc
    <3> QED BY <2>3, <2>6, <3>1
  <2> QED BY <2>2, <2>4, <2>5, <2>7, CallInv
<1>3. CASE TakeMember
  BY <1>3, TakeMemberInv
<1>4. CASE TakeUnknown
  BY <1>4, TakeUnknownInv
<1>5. CASE EndGroup
  BY <1>5, EndGroupInv
<1>6. CASE UNCHANGED vars
  BY <1>6 DEF vars, IInv, TypeOK
<1> QED BY <1>1, <1>2, <1>3, <1>4, <1>5, <1>6 DEF Next

-----------------------------------------------------------------------------
LEMMA Invariance == Spec => []IInv
<1> QED BY InitInv, NextInv, PTL DEF Spec

\* The state of the walker is always of its type: no walk leaves the scope it
\* was called with, and no scope the message.
THEOREM TypeCorrect == Spec => []TypeOK
<1>1. IInv => TypeOK
  BY DEF IInv
<1> QED BY <1>1, Invariance, PTL

\* Whatever the message and the tables, the instances that walk_group returns
\* lie end to end from the first member to the end of the group.
THEOREM GroupsAreTiled == Spec => []InstancesTileTheGroup
<1>1. IInv => InstancesTileTheGroup
  <2> SUFFICES ASSUME IInv, NEW w \in walks PROVE Tiles(message, w, w.instances, w.end)
                                                   => \A i \in 1 .. Len(w.instances) :
         LET one == w.instances[i]
         IN  /\ one.start < one.end
             /\ i > 1 => one.start = w.instances[i - 1].end
             /\ i = 1 => \A s \in w.count_slot + 1 .. one.start - 1 : tag_at(s) \notin known
             /\ i = Len(w.instances) => one.end = w.end
    BY DEF IInv, WalkInv, Sound, InstancesTileTheGroup
  <2> QED BY DEF Tiles, tag_at, Tag
<1> QED BY <1>1, Invariance, PTL

\* walk takes every field that can belong to the group, those of its nested
\* groups included, and stops at the first that cannot.
THEOREM GroupsAreMaximal == Spec => []GroupIsMaximal
<1>1. IInv => GroupIsMaximal
  <2> SUFFICES ASSUME IInv, NEW w \in walks
               PROVE  /\ \A s \in w.count_slot + 1 .. w.end - 1 :
                           /\ tag_at(s) # CHECK_SUM
                           /\ tag_at(s) \in known => tag_at(s) \in w.table.members \/ Inside(w, s)
                      /\ \A v \in w.inner :
                           /\ v \in walks /\ v.table \in w.table.nested
                           /\ w.count_slot < v.count_slot /\ v.end <= w.end
                           /\ tag_at(v.count_slot) = v.table.count_tag
                      /\ \/ w.end = w.scope.end
                         \/ tag_at(w.end) = CHECK_SUM
                         \/ tag_at(w.end) \in known \ w.table.members
    BY DEF GroupIsMaximal
  <2>1. \A s : tag_at(s) = Tag(message, s)
    BY DEF tag_at, Tag
  <2>2. w.inner \subseteq walks
    BY DEF IInv, TypeOK, WalkType
  <2>3. WalkInv(message, w)
    BY DEF IInv
  <2>4. Covers(message, w, w.end) /\ InnerWalks(message, w, w.end)
    BY <2>3 DEF WalkInv, Sound
  <2>5. \/ w.end = w.scope.end
        \/ tag_at(w.end) = CHECK_SUM
        \/ tag_at(w.end) \in known \ w.table.members
    BY <2>1, <2>3 DEF WalkInv
  <2>6. \A s \in w.count_slot + 1 .. w.end - 1 :
          /\ tag_at(s) # CHECK_SUM
          /\ tag_at(s) \in known => tag_at(s) \in w.table.members \/ Inside(w, s)
    BY <2>1, <2>4 DEF Covers
  <2>7. \A v \in w.inner :
          /\ v \in walks /\ v.table \in w.table.nested
          /\ w.count_slot < v.count_slot /\ v.end <= w.end
          /\ tag_at(v.count_slot) = v.table.count_tag
    BY <2>1, <2>2, <2>4 DEF InnerWalks
  <2> QED BY <2>5, <2>6, <2>7
<1> QED BY <1>1, Invariance, PTL

\* Reading the first occurrence of a tag in an instance hides no other that is
\* the instance's own.
THEOREM InstancesRepeatNoTag == Spec => []NoTagTwiceInAnInstance
<1>1. IInv => NoTagTwiceInAnInstance
  <2> SUFFICES ASSUME IInv, NEW w \in walks, NEW i \in 1 .. Len(w.instances)
               PROVE  \A r, s \in OwnSlots(w, w.instances[i]) : tag_at(r) = tag_at(s) => r = s
    BY DEF NoTagTwiceInAnInstance
  <2>1. Unrepeated(message, w, w.instances[i])
    BY DEF IInv, WalkInv, Sound
  <2>2. \A s : tag_at(s) = Tag(message, s)
    BY DEF tag_at, Tag
  <2>3. OwnSlots(w, w.instances[i]) = Own(message, w, w.instances[i])
    BY <2>2 DEF OwnSlots, Own
  <2> QED BY <2>1, <2>2, <2>3 DEF Unrepeated
<1> QED BY <1>1, Invariance, PTL

\* A group in which walk finds nothing wrong has an instance at each of its
\* delimiters and nowhere else, and as many as its count field says.
THEOREM CleanGroupsAreSplit == Spec => []CleanGroupsSplitAtDelimiters
<1>1. IInv => CleanGroupsSplitAtDelimiters
  <2> SUFFICES ASSUME IInv, NEW w \in walks, w.anomalies = <<>>
               PROVE  /\ {s \in w.count_slot + 1 .. w.end - 1 :
                            tag_at(s) = w.table.delimiter /\ ~Inside(w, s)}
                           = {w.instances[i].start : i \in 1 .. Len(w.instances)}
                      /\ message.fields[w.count_slot + 1].count = Len(w.instances)
    BY DEF CleanGroupsSplitAtDelimiters
  <2>1. /\ Delimiters(message, w, w.end) = Starts(w.instances)
        /\ message.fields[w.count_slot + 1].count = Len(w.instances)
    BY DEF IInv, WalkInv, Sound
  <2>2. \A s : tag_at(s) = Tag(message, s)
    BY DEF tag_at, Tag
  <2> QED BY <2>1, <2>2 DEF Delimiters, Starts
<1> QED BY <1>1, Invariance, PTL
=============================================================================
